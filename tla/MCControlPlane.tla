---------------------------- MODULE MCControlPlane ----------------------------
(* ControlPlane, with the sets of methods its runs offer the clients.      *)
EXTENDS ControlPlane, TLC

Stateful == {WATCH, UNWATCH, WATCHED, MARGIN_SET, MARGIN_GET}
WholeCatalog == ControlMethod

\* A reset, and a proxied handler that may answer null.
ResetOnly == {RESET}
ProxiedOnly == Proxied

Symmetry == Permutations(Client) \cup Permutations(Key)
=============================================================================
