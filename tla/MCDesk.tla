----------------------------- MODULE MCDesk ----------------------------------
(* Instances of Desk for TLC: two guests with consecutive nights in the     *)
(* same room.                                                               *)
EXTENDS Desk, TLC
CONSTANTS g1, g2, r1

MCHome == (g1 :> r1) @@ (g2 :> r1)
MCRoles == ("manager" :> "manager") @@ ("housekeeper" :> "housekeeping") @@ ("guest" :> "guest")
MCStaff == DOMAIN MCRoles
MCDates == (g1 :> [in |-> 0, out |-> 1]) @@ (g2 :> [in |-> 1, out |-> 2])

Symmetry == Permutations(Tasks) \cup Permutations(Tickets)
=============================================================================
