---------------------------- MODULE MCReservations ----------------------------
(* Instances of Reservations for TLC: date ranges over three days and the    *)
(* symmetry of the keys and connections.                                     *)
EXTENDS Reservations, TLC

Stay(i, o) == [in |-> i, out |-> o]

\* The nights of two days in every combination, and an empty range.
MCStays == {Stay(0, 1), Stay(0, 2), Stay(1, 2), Stay(1, 1)}

Symmetry == Permutations(Txns) \cup Permutations(Resv) \cup Permutations(Rooms)
=============================================================================
