----------------------------- MODULE MCBackOffice -----------------------------
(* Instances of BackOffice for TLC.  The connections are the same model      *)
(* values in every component.                                                *)
EXTENDS BackOffice, TLC

MCRoles == [admin |-> "admin", manager |-> "manager", housekeeper |-> "housekeeping",
            guest |-> "guest"]
MCStaff == DOMAIN MCRoles
MCCashiers == {"manager"}
MCMembers == {"manager", "guest"}
MCDefault == {"manager"}

MCTotal == [i \in Invoices |-> 2]
MCCategory == [i \in Items |-> "linen"]
MCMethod == [p \in PaymentIds |-> "cash"]

\* The connections, whichever component uses them.
Symmetry == Permutations(Txns)
=============================================================================
