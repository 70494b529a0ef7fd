--------------------------- MODULE MCReservations ---------------------------
(* Small instances of Reservations for TLC.                                *)
EXTENDS Reservations, TLC

\* Clients and coins are interchangeable: no action or property names one.
Symmetry == Permutations(Client) \cup Permutations(Coin)
=============================================================================
