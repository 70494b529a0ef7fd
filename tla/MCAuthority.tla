----------------------------- MODULE MCAuthority -----------------------------
EXTENDS Authority, TLC

Symmetry == Permutations(App) \cup Permutations(Ip)
=============================================================================
