--------------------------------- MODULE Staff ---------------------------------
(***************************************************************************)
(* Users and their roles: apps/accounts/models.py, permissions.py and      *)
(* apps/frontend/decorators.py.  A superuser passes every role check, as   *)
(* the model's admin does.                                                 *)
(***************************************************************************)

CONSTANTS
    Staff,     \* the user accounts that act on the system
    RoleOf,    \* the role of each
    None       \* NULL

Roles == {"admin", "manager", "receptionist", "accountant", "housekeeping", "guest"}

ASSUME RoleAssumption == RoleOf \in [Staff -> Roles]
ASSUME NullAssumption == None \notin Staff

\* role_required, action_role_required, has_role and RoleActionPermission.
HasRole(u, roles) == RoleOf[u] \in roles

Management == {"admin", "manager"}
FrontOffice == Management \cup {"receptionist"}
HouseStaff == FrontOffice \cup {"housekeeping"}
StaffRoles == FrontOffice \cup {"accountant"}
=============================================================================
