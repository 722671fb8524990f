------------------------------ MODULE MCCashier ------------------------------
(* Instances of Cashier for TLC.  The manager may do everything at the desk. *)
EXTENDS Cashier, TLC

MCTotal == [i \in Invoices |-> 2]
MCRoles == [manager |-> "manager"]
MCStaff == DOMAIN MCRoles
=============================================================================
