---------------------------------- MODULE Desk ----------------------------------
(***************************************************************************)
(* Who gives the commands of RoomState: the pages of the portal            *)
(* (apps/frontend/views.py) and the view sets of the API, with the roles   *)
(* that they ask for.                                                      *)
(*                                                                         *)
(* Some conditions reject requests and move no room; they are left out: a  *)
(* housekeeper is refused what is assigned to somebody else, and rooms     *)
(* that are not active are neither offered in the forms nor given to       *)
(* guests (that is in Reservations, as `closed`).                          *)
(***************************************************************************)
EXTENDS RoomState

CONSTANTS
    Staff,     \* the users
    RoleOf     \* the role of each

INSTANCE Staff

\* Whether there is anybody with one of the roles who may ask.
ManagementActs == \E u \in Staff : HasRole(u, Management)
FrontOfficeActs == \E u \in Staff : HasRole(u, FrontOffice)
HouseStaffActs == \E u \in Staff : HasRole(u, HouseStaff)
GuestActs == \E u \in Staff : HasRole(u, FrontOffice \cup {"guest"})

-----------------------------------------------------------------------------

\* portal_reservation_action and ReservationViewSet; a guest may cancel, too.
ReservationDesk(g) ==
    \/ FrontOfficeActs /\ (CheckIn(g) \/ CheckOut(g))
    \/ GuestActs /\ Drop(g)

\* portal_reservation_manage and ReservationViewSet.move_room.
MoveDesk(g, rm) == FrontOfficeActs /\ (MoveConfirmed(g, rm) \/ MoveInHouse(g, rm))

\* portal_housekeeping; the API asks for the front office, who are among them.
PortalHousekeeping(t, rm, kind) == HouseStaffActs /\ CreateTask(t, rm, kind)

HousekeepingTaskViewSet(t) ==
    \/ HouseStaffActs /\ (StartTask(t) \/ CompleteTask(t))
    \/ FrontOfficeActs /\ (VerifyTask(t) \/ ReopenTask(t))
\* The portal asks for the same roles.
PortalHousekeepingAction(t) == HousekeepingTaskViewSet(t)

PortalMaintenance(k, rm, downtime) == HouseStaffActs /\ ReportTicket(k, rm, downtime)

MaintenanceTicketViewSet(k) ==
    \/ HouseStaffActs /\ AdvanceTicket(k)
    \/ ManagementActs /\ (ApproveTicket(k) \/ CancelTicket(k) \/ ReopenTicket(k))
PortalMaintenanceAction(k) == MaintenanceTicketViewSet(k)

\* InventoryBlockViewSet
ReleaseDesk(k) == ManagementActs /\ ReleaseBlock(k)

PortalRoomEdit(rm, s) == FrontOfficeActs /\ EditRoom(rm, s)

-----------------------------------------------------------------------------

DeskNext ==
    \/ \E g \in Guests : ReservationDesk(g) \/ \E rm \in Rooms : MoveDesk(g, rm)
    \/ \E t \in Tasks, rm \in Busy, kind \in {"cleaning", "inspection"} :
          PortalHousekeeping(t, rm, kind)
    \/ \E t \in Tasks : PortalHousekeepingAction(t)
    \/ \E k \in Tickets, rm \in Busy, d \in BOOLEAN : PortalMaintenance(k, rm, d)
    \/ \E k \in Tickets : PortalMaintenanceAction(k) \/ ReleaseDesk(k)
    \/ \E rm \in Busy, s \in RoomStatus : PortalRoomEdit(rm, s)
    \/ Midnight

DeskSpec == Init /\ [][DeskNext]_vars
=============================================================================
