------------------------------ MODULE RoomState ------------------------------
(***************************************************************************)
(* The physical state of the rooms: what check-in, check-out and room      *)
(* moves (apps/reservations/services.py), housekeeping tasks and           *)
(* maintenance tickets (apps/housekeeping/services.py) and the room form   *)
(* of the portal do to Room.status, which all of them write.               *)
(*                                                                         *)
(* Every command locks its own row and then the row of the room before it  *)
(* reads or writes anything else, so a command is one step.  The portal's  *)
(* room form takes no lock and saves every field of the row, with a status *)
(* that its user chose or that was shown when the form was opened: an      *)
(* edit may write any status at any time.  Who may issue a command is the  *)
(* subject of Desk.                                                        *)
(***************************************************************************)
EXTENDS Naturals

CONSTANTS
    Rooms,
    Guests,     \* reservations, confirmed at the start
    Home,       \* the room each was confirmed for
    Dates,      \* its dates, a record [in, out]
    Tasks,      \* primary keys of housekeeping tasks (bound: so many are created)
    Tickets,    \* primary keys of maintenance tickets (the same)
    Busy,       \* bound: the rooms for which staff enter tasks, tickets and edits
    LastDay,    \* bound: the clock stops at this date
    None        \* NULL

Overlap(s, u) == s.in < u.out /\ u.in < s.out

ASSUME CalendarAssumption ==
    /\ Home \in [Guests -> Rooms]
    /\ Dates \in [Guests -> [in : Nat, out : Nat]]
    /\ \A g \in Guests : Dates[g].in < Dates[g].out
    /\ \A g, h \in Guests : (g # h /\ Home[g] = Home[h]) => ~Overlap(Dates[g], Dates[h])
ASSUME BoundAssumption ==
    Busy \subseteq Rooms /\ LastDay \in Nat /\ None \notin Rooms \cup Tickets

VARIABLES
    room,     \* Room.status
    stay,     \* status and room of each reservation
    task,     \* housekeeping tasks: status, room and kind
    ticket,   \* maintenance tickets: status, room and downtime_required
    block,    \* the inventory block of each ticket: status and start_date
    today,
    dirty,    \* auxiliary: rooms a guest has left that were not cleaned since
    saved     \* auxiliary: rooms whose status was last written by an edit

vars == <<room, stay, task, ticket, block, today, dirty, saved>>

RoomStatus == {"available", "occupied", "housekeeping", "maintenance"}
OpenDowntime == {"reported", "in_progress", "resolved"}

TypeOK ==
    /\ room \in [Rooms -> RoomStatus]
    /\ stay \in [Guests -> [status : {"confirmed", "checked_in", "ended"}, room : Rooms]]
    /\ task \in [Tasks -> [status : {"none", "pending", "in_progress", "completed", "verified"},
                           room : Rooms \cup {None},
                           kind : {"none", "cleaning", "inspection"}]]
    /\ ticket \in [Tickets -> [status : OpenDowntime \cup {"none", "approved", "cancelled"},
                               room : Rooms \cup {None}, downtime : BOOLEAN]]
    /\ block \in [Tickets -> [status : {"none", "active", "released"}, from : Nat]]
    /\ today \in Nat
    /\ dirty \in SUBSET Rooms
    /\ saved \in SUBSET Rooms

Init ==
    /\ room = [rm \in Rooms |-> "available"]
    /\ stay = [g \in Guests |-> [status |-> "confirmed", room |-> Home[g]]]
    /\ task = [t \in Tasks |-> [status |-> "none", room |-> None, kind |-> "none"]]
    /\ ticket = [k \in Tickets |-> [status |-> "none", room |-> None, downtime |-> FALSE]]
    /\ block = [k \in Tickets |-> [status |-> "none", from |-> 0]]
    /\ today = 0
    /\ dirty = {}
    /\ saved = {}

-----------------------------------------------------------------------------
(* What the commands read *)

\* Room.reservations.filter(status='checked_in').exists()
InHouse(rm) == \E g \in Guests : stay[g].status = "checked_in" /\ stay[g].room = rm

\* Mutant: a ticket whose repair is finished but not approved is not counted.
Mut_Downtime(rm, but) ==
    \E k \in Tickets \ {but} : /\ ticket[k].room = rm /\ ticket[k].downtime
                               /\ ticket[k].status \in {"reported", "in_progress"}
\* An open downtime ticket of the room, other than `but`.
Downtime(rm, but) ==
    \E k \in Tickets \ {but} : /\ ticket[k].room = rm /\ ticket[k].downtime
                               /\ ticket[k].status \in OpenDowntime

\* The block of a ticket runs from its start date to the year 2100.
Blocked(rm, dates) ==
    \E k \in Tickets : /\ block[k].status = "active" /\ ticket[k].room = rm
                       /\ block[k].from < dates.out

\* Mutant: maintenance blocks are not looked at.
Mut_ValidStay(g, rm) ==
    /\ Dates[g].in >= today
    /\ \A h \in Guests \ {g} :
          (stay[h].status # "ended" /\ stay[h].room = rm) => ~Overlap(Dates[h], Dates[g])
\* _validate_stay of reservation g in room rm.
ValidStay(g, rm) ==
    /\ Dates[g].in >= today
    /\ \A h \in Guests \ {g} :
          (stay[h].status # "ended" /\ stay[h].room = rm) => ~Overlap(Dates[h], Dates[g])
    /\ ~Blocked(rm, Dates[g])

\* A status written by a command under the room's lock.
SetRoom(rm, s) ==
    /\ room' = [room EXCEPT ![rm] = s]
    /\ saved' = saved \ {rm}

\* Mutant: a task that was completed and waits for inspection counts as queued.
Mut_CleaningQueued(rm) ==
    \E t \in Tasks : /\ task[t].room = rm /\ task[t].kind = "cleaning"
                     /\ task[t].status \in {"pending", "in_progress", "completed"}
CleaningQueued(rm) ==
    \E t \in Tasks : /\ task[t].room = rm /\ task[t].kind = "cleaning"
                     /\ task[t].status \in {"pending", "in_progress"}

\* Mutant: a task starts as an incident does.
Mut_NewTask(t, rm, kind) ==
    /\ task[t].status = "none"
    /\ task' = [task EXCEPT ![t] = [status |-> "open", room |-> rm, kind |-> kind]]
\* create_housekeeping_task.
NewTask(t, rm, kind) ==
    /\ task[t].status = "none"
    /\ task' = [task EXCEPT ![t] = [status |-> "pending", room |-> rm, kind |-> kind]]

-----------------------------------------------------------------------------
(* Reservations *)

CheckIn(g) ==
    LET rm == stay[g].room IN
    /\ stay[g].status = "confirmed"
    /\ ValidStay(g, rm)
    /\ stay' = [stay EXCEPT ![g].status = "checked_in"]
    /\ SetRoom(rm, "occupied")
    /\ UNCHANGED <<task, ticket, block, today, dirty>>

\* Mutant: the room keeps its status until the cleaning starts.
Mut_CheckOut(g) ==
    LET rm == stay[g].room IN
    /\ stay[g].status = "checked_in"
    /\ stay' = [stay EXCEPT ![g].status = "ended"]
    /\ dirty' = dirty \cup {rm}
    /\ \/ CleaningQueued(rm) /\ UNCHANGED task
       \/ ~CleaningQueued(rm) /\ \E t \in Tasks : NewTask(t, rm, "cleaning")
    /\ UNCHANGED <<room, saved, ticket, block, today>>

CheckOut(g) ==
    LET rm == stay[g].room IN
    /\ stay[g].status = "checked_in"
    /\ stay' = [stay EXCEPT ![g].status = "ended"]
    /\ SetRoom(rm, "housekeeping")
    /\ dirty' = dirty \cup {rm}
    /\ \/ CleaningQueued(rm) /\ UNCHANGED task
       \/ ~CleaningQueued(rm) /\ \E t \in Tasks : NewTask(t, rm, "cleaning")
    /\ UNCHANGED <<ticket, block, today>>

\* cancel and no_show: the room is not touched.
Drop(g) ==
    /\ stay[g].status = "confirmed"
    /\ stay' = [stay EXCEPT ![g].status = "ended"]
    /\ UNCHANGED <<room, saved, task, ticket, block, today, dirty>>

\* move_reservation_room before the arrival and during the stay.
MoveConfirmed(g, rm) ==
    /\ stay[g].status = "confirmed" /\ rm # stay[g].room
    /\ ValidStay(g, rm)
    /\ stay' = [stay EXCEPT ![g].room = rm]
    /\ UNCHANGED <<room, saved, task, ticket, block, today, dirty>>

MoveInHouse(g, rm) ==
    LET old == stay[g].room IN
    /\ stay[g].status = "checked_in" /\ rm # old
    /\ ValidStay(g, rm)
    /\ stay' = [stay EXCEPT ![g].room = rm]
    /\ room' = [room EXCEPT ![old] = "housekeeping", ![rm] = "occupied"]
    /\ saved' = saved \ {old, rm}
    /\ dirty' = dirty \cup {old}
    /\ \E t \in Tasks : NewTask(t, old, "cleaning")
    /\ UNCHANGED <<ticket, block, today>>

-----------------------------------------------------------------------------
(* Housekeeping *)

CreateTask(t, rm, kind) ==
    /\ NewTask(t, rm, kind)
    /\ UNCHANGED <<room, saved, stay, ticket, block, today, dirty>>

StartTask(t) ==
    LET rm == task[t].room IN
    /\ task[t].status = "pending"
    /\ task' = [task EXCEPT ![t].status = "in_progress"]
    /\ \/ room[rm] = "available" /\ SetRoom(rm, "housekeeping")
       \/ room[rm] # "available" /\ UNCHANGED <<room, saved>>
    /\ UNCHANGED <<stay, ticket, block, today, dirty>>

CompleteTask(t) ==
    /\ task[t].status = "in_progress"
    /\ task' = [task EXCEPT ![t].status = "completed"]
    /\ dirty' = IF task[t].kind = "cleaning" THEN dirty \ {task[t].room} ELSE dirty
    /\ UNCHANGED <<room, saved, stay, ticket, block, today>>

\* The inspection: the room is released unless somebody is in it, and the
\* inspection is refused while it is down.
VerifyTask(t) ==
    LET rm == task[t].room IN
    /\ task[t].status = "completed"
    /\ ~Downtime(rm, None)
    /\ task' = [task EXCEPT ![t].status = "verified"]
    /\ \/ ~InHouse(rm) /\ SetRoom(rm, "available")
       \/ InHouse(rm) /\ UNCHANGED <<room, saved>>
    /\ UNCHANGED <<stay, ticket, block, today, dirty>>

ReopenTask(t) ==
    /\ task[t].status \in {"completed", "verified"}
    /\ task' = [task EXCEPT ![t].status = "in_progress"]
    /\ SetRoom(task[t].room, "housekeeping")
    /\ UNCHANGED <<stay, ticket, block, today, dirty>>

-----------------------------------------------------------------------------
(* Maintenance.  An urgent ticket marks the room out_of_order; nothing tells *)
(* that status from maintenance.                                             *)

ReportTicket(k, rm, downtime) ==
    /\ ticket[k].status = "none"
    /\ ticket' = [ticket EXCEPT ![k] = [status |-> "reported", room |-> rm,
                                        downtime |-> downtime]]
    /\ \/ /\ downtime
          /\ SetRoom(rm, "maintenance")
          /\ block' = [block EXCEPT ![k] = [status |-> "active", from |-> today]]
       \/ ~downtime /\ UNCHANGED <<room, saved, block>>
    /\ UNCHANGED <<stay, task, today, dirty>>

\* start and resolve.
AdvanceTicket(k) ==
    /\ ticket[k].status \in {"reported", "in_progress"}
    /\ ticket' = [ticket EXCEPT ![k].status =
                     IF @ = "reported" THEN "in_progress" ELSE "resolved"]
    /\ UNCHANGED <<room, saved, stay, task, block, today, dirty>>

\* release_source_blocks.
Unblock(k) ==
    block' = [block EXCEPT ![k].status = IF @ = "active" THEN "released" ELSE @]

\* Return to service: unless other downtime is open or a guest is in the room,
\* it goes to housekeeping with an inspection task.
ApproveTicket(k) ==
    LET rm == ticket[k].room
        returns == ~Downtime(rm, k) /\ ~InHouse(rm) IN
    /\ ticket[k].status = "resolved"
    /\ ticket' = [ticket EXCEPT ![k].status = "approved"]
    /\ \/ /\ returns
          /\ SetRoom(rm, "housekeeping")
          /\ \E t \in Tasks : NewTask(t, rm, "inspection")
       \/ ~returns /\ UNCHANGED <<room, saved, task>>
    /\ Unblock(k)
    /\ UNCHANGED <<stay, today, dirty>>

\* Mutant: the block of a cancelled ticket stays.
Mut_CancelTicket(k) ==
    /\ ticket[k].status = "reported"
    /\ ticket' = [ticket EXCEPT ![k].status = "cancelled"]
    /\ \/ ticket[k].downtime /\ SetRoom(ticket[k].room, "housekeeping")
       \/ ~ticket[k].downtime /\ UNCHANGED <<room, saved>>
    /\ UNCHANGED <<block, stay, task, today, dirty>>

CancelTicket(k) ==
    /\ ticket[k].status = "reported"
    /\ ticket' = [ticket EXCEPT ![k].status = "cancelled"]
    /\ \/ ticket[k].downtime /\ SetRoom(ticket[k].room, "housekeeping") /\ Unblock(k)
       \/ ~ticket[k].downtime /\ UNCHANGED <<room, saved, block>>
    /\ UNCHANGED <<stay, task, today, dirty>>

ReopenTicket(k) ==
    /\ ticket[k].status \in {"resolved", "approved"}
    /\ ticket' = [ticket EXCEPT ![k].status = "in_progress"]
    /\ SetRoom(ticket[k].room, "maintenance")
    /\ \/ /\ ticket[k].downtime /\ block[k].status # "active"
          /\ block' = [block EXCEPT ![k] = [status |-> "active", from |-> today]]
       \/ ~(ticket[k].downtime /\ block[k].status # "active") /\ UNCHANGED block
    /\ UNCHANGED <<stay, task, today, dirty>>

\* release_inventory_block: a manager may release any block, a ticket's too.
ReleaseBlock(k) ==
    /\ block[k].status = "active"
    /\ Unblock(k)
    /\ UNCHANGED <<room, saved, stay, task, ticket, today, dirty>>

-----------------------------------------------------------------------------
(* portal_room_edit, and the room resource of the API.                       *)

EditRoom(rm, s) ==
    /\ room' = [room EXCEPT ![rm] = s]
    /\ saved' = saved \cup {rm}
    /\ UNCHANGED <<stay, task, ticket, block, today, dirty>>

Midnight ==
    /\ today < LastDay
    /\ today' = today + 1
    /\ UNCHANGED <<room, saved, stay, task, ticket, block, dirty>>

-----------------------------------------------------------------------------

Next ==
    \/ \E g \in Guests : CheckIn(g) \/ CheckOut(g) \/ Drop(g)
    \/ \E g \in Guests, rm \in Rooms : MoveConfirmed(g, rm) \/ MoveInHouse(g, rm)
    \/ \E t \in Tasks, rm \in Busy, kind \in {"cleaning", "inspection"} : CreateTask(t, rm, kind)
    \/ \E t \in Tasks : StartTask(t) \/ CompleteTask(t) \/ VerifyTask(t) \/ ReopenTask(t)
    \/ \E k \in Tickets, rm \in Busy, d \in BOOLEAN : ReportTicket(k, rm, d)
    \/ \E k \in Tickets : AdvanceTicket(k) \/ ApproveTicket(k) \/ CancelTicket(k)
                          \/ ReopenTicket(k) \/ ReleaseBlock(k)
    \/ \E rm \in Busy, s \in RoomStatus : EditRoom(rm, s)
    \/ Midnight

Spec == Init /\ [][Next]_vars

-----------------------------------------------------------------------------
(* Properties *)

\* A room that the commands have marked available is out of repair and has no
\* guest in it, whatever tickets, tasks and stays have overlapped
\* (available-with-downtime and checked-in-status of notifications/alerts.py).
AvailableIsReady ==
    \A rm \in Rooms : (room[rm] = "available" /\ rm \notin saved)
        => /\ ~InHouse(rm)
           /\ \A k \in Tickets : (ticket[k].room = rm /\ ticket[k].downtime)
                                 => ticket[k].status \notin OpenDowntime

\* A room marked occupied has a guest, also when two stays have shared it or
\* a guest was moved away (occupied-without-stay of notifications/alerts.py).
OccupiedHasGuest ==
    \A rm \in Rooms : (room[rm] = "occupied" /\ rm \notin saved) => InHouse(rm)

\* A room a guest has left has a cleaning task that is still to be done, also
\* when tasks were queued, reopened or completed during the stay.
DirtyRoomQueued ==
    \A rm \in dirty : \E t \in Tasks :
        /\ task[t].room = rm /\ task[t].kind = "cleaning"
        /\ task[t].status \in {"pending", "in_progress"}

\* The calendar follows the tickets: a closed ticket does not bar sales any
\* more, an open downtime ticket has had its block (which only a manager lifts).
BlockFollowsTicket ==
    \A k \in Tickets :
        /\ ticket[k].status \in {"none", "approved", "cancelled"} => block[k].status # "active"
        /\ (ticket[k].downtime /\ ticket[k].status \in OpenDowntime) => block[k].status # "none"

\* No guest is given a room, at check-in or by a move, that is down and whose
\* block still stands, though the reservation commands never look at tickets.
NotIntoRepairs ==
    [][\A g \in Guests, k \in Tickets :
          (/\ stay'[g].status = "checked_in"
           /\ <<stay'[g].status, stay'[g].room>> # <<stay[g].status, stay[g].room>>
           /\ ticket[k].room = stay'[g].room /\ ticket[k].downtime
           /\ ticket[k].status \in OpenDowntime)
          => block[k].status = "released"]_vars

\* docs/03-roles-and-workflows.md: check-in requires an assigned ready room.  A
\* room in which another guest still is, is not ready.
CheckInToReadyRoom ==
    [][\A g \in Guests : (stay[g].status = "confirmed" /\ stay'[g].status = "checked_in")
                         => ~InHouse(stay[g].room)]_vars

\* docs/08-quality-security-and-operations.md: checkout, dirty room,
\* housekeeping, inspection, available.  A room that the commands have made
\* available was cleaned after its last guest left.
AvailableIsClean ==
    \A rm \in Rooms : (room[rm] = "available" /\ rm \notin saved) => rm \notin dirty
=============================================================================
