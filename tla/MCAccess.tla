-------------------------------- MODULE MCAccess --------------------------------
(* An instance of Access for TLC: a manager with a default account, and the     *)
(* administrator, whose own account is not looked at.                           *)
EXTENDS Access

MCRoles == [admin |-> "admin", manager |-> "manager"]
MCStaff == DOMAIN MCRoles
MCMembers == {"manager"}
=============================================================================
