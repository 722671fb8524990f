------------------------------- MODULE MCContacts -------------------------------
(* An instance of Contacts for TLC: one manager.                               *)
EXTENDS Contacts

MCRoles == [manager |-> "manager"]
MCStaff == DOMAIN MCRoles
=============================================================================
