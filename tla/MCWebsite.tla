------------------------------ MODULE MCWebsite ------------------------------
(* Instances of Website for TLC: one night, and visitors with addresses of  *)
(* their own, one of them with a password.                                  *)
EXTENDS Website, TLC

MCNight == {[in |-> 0, out |-> 1]}
MCAddress == [b \in Browsers |-> b]
Symmetry ==
    Permutations(Txns) \cup Permutations(Resv) \cup Permutations(Rooms) \cup Permutations(Quotes)
=============================================================================
