--------------------------- MODULE RoomStateProofs ---------------------------
(***************************************************************************)
(* Proofs about RoomState, for any rooms, stays, tasks and tickets, and    *)
(* about Desk, which gives its commands.                                   *)
(***************************************************************************)
EXTENDS Desk, TLAPS

\* A task or a ticket that was entered has a room.
RowsExist ==
    /\ \A t \in Tasks : task[t].status # "none" => task[t].room \in Rooms
    /\ \A k \in Tickets : ticket[k].status # "none" => ticket[k].room \in Rooms

TypeInv == TypeOK /\ RowsExist

\* What BlockFollowsTicket needs to be kept, and NotIntoRepairs: only downtime
\* tickets block the calendar, and not from a date to come.
BlocksInv ==
    /\ BlockFollowsTicket
    /\ \A k \in Tickets : /\ ~ticket[k].downtime => block[k].status # "active"
                          /\ block[k].from <= today

\* The inductive invariant.
IInv == TypeInv /\ AvailableIsReady /\ OccupiedHasGuest /\ DirtyRoomQueued /\ BlocksInv

-----------------------------------------------------------------------------
(* Initial states *)

LEMMA Initially == Init => IInv
<1> SUFFICES ASSUME Init PROVE IInv
  OBVIOUS
<1>1. TypeInv
  BY CalendarAssumption DEF Init, TypeInv, TypeOK, RowsExist, RoomStatus, OpenDowntime
<1>2. AvailableIsReady
  BY DEF Init, AvailableIsReady, InHouse, OpenDowntime
<1>3. OccupiedHasGuest /\ DirtyRoomQueued
  BY DEF Init, OccupiedHasGuest, DirtyRoomQueued
<1>4. BlocksInv
  BY DEF Init, BlocksInv, BlockFollowsTicket, OpenDowntime
<1> QED BY <1>1, <1>2, <1>3, <1>4 DEF IInv

-----------------------------------------------------------------------------
(* Steps.  The lemmas below share the split into the actions of Next.        *)

\* The commands on a reservation, a task or a ticket.
StayStep == \E g \in Guests : \/ CheckIn(g) \/ CheckOut(g) \/ Drop(g)
                              \/ \E rm \in Rooms : MoveConfirmed(g, rm) \/ MoveInHouse(g, rm)
TaskStep == \E t \in Tasks :
               \/ \E rm \in Busy, kind \in {"cleaning", "inspection"} : CreateTask(t, rm, kind)
               \/ StartTask(t) \/ CompleteTask(t) \/ VerifyTask(t) \/ ReopenTask(t)
TicketStep == \E k \in Tickets :
                 \/ \E rm \in Busy, d \in BOOLEAN : ReportTicket(k, rm, d)
                 \/ AdvanceTicket(k) \/ ApproveTicket(k) \/ CancelTicket(k)
                 \/ ReopenTicket(k) \/ ReleaseBlock(k)
OtherStep == (\E rm \in Busy, s \in RoomStatus : EditRoom(rm, s)) \/ Midnight

LEMMA StepKinds == [Next]_vars => \/ StayStep \/ TaskStep \/ TicketStep \/ OtherStep
                                  \/ UNCHANGED vars
  BY DEF Next, StayStep, TaskStep, TicketStep, OtherStep

\* The rows of a table are well typed.
RoomRows == room \in [Rooms -> RoomStatus] /\ saved \in SUBSET Rooms
TaskRows ==
    /\ task \in [Tasks -> [status : {"none", "pending", "in_progress", "completed", "verified"},
                           room : Rooms \cup {None},
                           kind : {"none", "cleaning", "inspection"}]]
    /\ \A t \in Tasks : task[t].status # "none" => task[t].room \in Rooms
TicketRows ==
    /\ ticket \in [Tickets -> [status : OpenDowntime \cup {"none", "approved", "cancelled"},
                               room : Rooms \cup {None}, downtime : BOOLEAN]]
    /\ \A k \in Tickets : ticket[k].status # "none" => ticket[k].room \in Rooms
BlockRows == block \in [Tickets -> [status : {"none", "active", "released"}, from : Nat]]
RestRows ==
    /\ stay \in [Guests -> [status : {"confirmed", "checked_in", "ended"}, room : Rooms]]
    /\ today \in Nat
    /\ dirty \in SUBSET Rooms

LEMMA TypeParts == TypeInv <=> RoomRows /\ TaskRows /\ TicketRows /\ BlockRows /\ RestRows
  BY DEF TypeInv, TypeOK, RowsExist, RoomRows, TaskRows, TicketRows, BlockRows, RestRows

LEMMA TypePartsNext ==
    RoomRows' /\ TaskRows' /\ TicketRows' /\ BlockRows' /\ RestRows' => TypeInv'
  BY DEF TypeInv, TypeOK, RowsExist, RoomRows, TaskRows, TicketRows, BlockRows, RestRows

\* A command's write of a status to a room.
LEMMA SetRoomType ==
    ASSUME RoomRows, NEW rm \in Rooms, NEW s \in RoomStatus, SetRoom(rm, s)
    PROVE  RoomRows'
  BY DEF RoomRows, SetRoom

\* A new task is well typed and leaves the others alone.
LEMMA NewTaskType ==
    ASSUME TaskRows, NEW t \in Tasks, NEW rm \in Rooms,
           NEW kind \in {"cleaning", "inspection"}, NewTask(t, rm, kind)
    PROVE  /\ TaskRows'
           /\ \A u \in Tasks \ {t} : task'[u] = task[u]
           /\ task'[t] = [status |-> "pending", room |-> rm, kind |-> kind]
           /\ task[t].status = "none"
  BY DEF TaskRows, NewTask

LEMMA TypeStep == TypeInv /\ [Next]_vars => TypeInv'
<1> SUFFICES ASSUME TypeInv, [Next]_vars PROVE TypeInv'
  OBVIOUS
<1>0. RoomRows /\ TaskRows /\ TicketRows /\ BlockRows /\ RestRows
  BY TypeParts
<1>a. "available" \in RoomStatus /\ "housekeeping" \in RoomStatus
      /\ "occupied" \in RoomStatus /\ "maintenance" \in RoomStatus
  BY DEF RoomStatus
<1> SUFFICES RoomRows' /\ TaskRows' /\ TicketRows' /\ BlockRows' /\ RestRows'
  BY TypePartsNext
<1>1. CASE StayStep
  <2> PICK g \in Guests : \/ CheckIn(g) \/ CheckOut(g) \/ Drop(g)
                          \/ \E rm \in Rooms : MoveConfirmed(g, rm) \/ MoveInHouse(g, rm)
    BY <1>1 DEF StayStep
  <2>0. stay[g].room \in Rooms
    BY <1>0 DEF RestRows
  <2>1. CASE CheckIn(g)
    <3>1. RoomRows'
      BY <1>0, <1>a, <2>0, <2>1, SetRoomType DEF CheckIn
    <3> QED BY <1>0, <2>1, <3>1 DEF CheckIn, RestRows, TaskRows, TicketRows, BlockRows
  <2>2. CASE CheckOut(g)
    <3>1. RoomRows'
      BY <1>0, <1>a, <2>0, <2>2, SetRoomType DEF CheckOut
    <3>2. TaskRows'
      <4>1. CASE UNCHANGED task
        BY <1>0, <4>1 DEF TaskRows
      <4>2. CASE \E t \in Tasks : NewTask(t, stay[g].room, "cleaning")
        BY <1>0, <2>0, <4>2, NewTaskType
      <4> QED BY <2>2, <4>1, <4>2 DEF CheckOut
    <3> QED BY <1>0, <2>0, <2>2, <3>1, <3>2 DEF CheckOut, RestRows, TicketRows, BlockRows
  <2>3. CASE Drop(g)
    BY <1>0, <2>3 DEF Drop, RoomRows, RestRows, TaskRows, TicketRows, BlockRows
  <2>4. ASSUME NEW rm \in Rooms, MoveConfirmed(g, rm)
        PROVE  RoomRows' /\ TaskRows' /\ TicketRows' /\ BlockRows' /\ RestRows'
    BY <1>0, <2>4 DEF MoveConfirmed, RoomRows, RestRows, TaskRows, TicketRows, BlockRows
  <2>5. ASSUME NEW rm \in Rooms, MoveInHouse(g, rm)
        PROVE  RoomRows' /\ TaskRows' /\ TicketRows' /\ BlockRows' /\ RestRows'
    <3>1. RoomRows'
      BY <1>0, <1>a, <2>0, <2>5 DEF MoveInHouse, RoomRows
    <3>2. TaskRows'
      BY <1>0, <2>0, <2>5, NewTaskType DEF MoveInHouse
    <3> QED BY <1>0, <2>0, <2>5, <3>1, <3>2 DEF MoveInHouse, RestRows, TicketRows, BlockRows
  <2> QED BY <2>1, <2>2, <2>3, <2>4, <2>5
<1>2. CASE TaskStep
  <2> PICK t \in Tasks :
         \/ \E rm \in Busy, kind \in {"cleaning", "inspection"} : CreateTask(t, rm, kind)
         \/ StartTask(t) \/ CompleteTask(t) \/ VerifyTask(t) \/ ReopenTask(t)
    BY <1>2 DEF TaskStep
  <2>0. TicketRows' /\ BlockRows' /\ RestRows'
    BY <1>0 DEF TicketRows, BlockRows, RestRows, CreateTask, StartTask, CompleteTask,
                VerifyTask, ReopenTask
  <2>1. ASSUME NEW rm \in Busy, NEW kind \in {"cleaning", "inspection"}, CreateTask(t, rm, kind)
        PROVE  RoomRows' /\ TaskRows'
    <3>1. rm \in Rooms /\ NewTask(t, rm, kind)
      BY <2>1, BoundAssumption DEF CreateTask
    <3> QED BY <1>0, <2>1, <3>1, NewTaskType DEF CreateTask, RoomRows
  <2>r. task[t].status # "none" => task[t].room \in Rooms
    BY <1>0 DEF TaskRows
  <2>2. CASE task[t].status # "none" /\ TaskRows' /\ SetRoom(task[t].room, "available")
    BY <1>0, <1>a, <2>0, <2>r, <2>2, SetRoomType
  <2>3. CASE task[t].status # "none" /\ TaskRows' /\ SetRoom(task[t].room, "housekeeping")
    BY <1>0, <1>a, <2>0, <2>r, <2>3, SetRoomType
  <2>4. CASE TaskRows' /\ UNCHANGED <<room, saved>>
    BY <1>0, <2>0, <2>4 DEF RoomRows
  <2>5. CASE StartTask(t)
    <3>1. TaskRows' /\ task[t].status # "none"
      BY <1>0, <2>5 DEF StartTask, TaskRows
    <3> QED BY <2>0, <2>3, <2>4, <2>5, <3>1 DEF StartTask
  <2>6. CASE CompleteTask(t)
    <3>1. TaskRows'
      BY <1>0, <2>6 DEF CompleteTask, TaskRows
    <3> QED BY <2>0, <2>4, <2>6, <3>1 DEF CompleteTask
  <2>7. CASE VerifyTask(t)
    <3>1. TaskRows' /\ task[t].status # "none"
      BY <1>0, <2>7 DEF VerifyTask, TaskRows
    <3> QED BY <2>0, <2>2, <2>4, <2>7, <3>1 DEF VerifyTask
  <2>8. CASE ReopenTask(t)
    <3>1. TaskRows' /\ task[t].status # "none"
      BY <1>0, <2>8 DEF ReopenTask, TaskRows
    <3> QED BY <2>0, <2>3, <2>8, <3>1 DEF ReopenTask
  <2> QED BY <2>0, <2>1, <2>5, <2>6, <2>7, <2>8
<1>3. CASE TicketStep
  <2> PICK k \in Tickets :
         \/ \E rm \in Busy, d \in BOOLEAN : ReportTicket(k, rm, d)
         \/ AdvanceTicket(k) \/ ApproveTicket(k) \/ CancelTicket(k)
         \/ ReopenTicket(k) \/ ReleaseBlock(k)
    BY <1>3 DEF TicketStep
  <2>0. RestRows'
    BY <1>0 DEF RestRows, ReportTicket, AdvanceTicket, ApproveTicket, CancelTicket,
                ReopenTicket, ReleaseBlock
  <2>1. ASSUME NEW rm \in Busy, NEW d \in BOOLEAN, ReportTicket(k, rm, d)
        PROVE  RoomRows' /\ TaskRows' /\ TicketRows' /\ BlockRows'
    <3>0. rm \in Rooms
      BY BoundAssumption
    <3>1. TaskRows' /\ TicketRows'
      BY <1>0, <2>1, <3>0 DEF ReportTicket, TaskRows, TicketRows, OpenDowntime
    <3>2. BlockRows'
      BY <1>0, <2>1 DEF ReportTicket, BlockRows, RestRows
    <3>3. RoomRows'
      <4>1. CASE SetRoom(rm, "maintenance")
        BY <1>0, <1>a, <3>0, <4>1, SetRoomType
      <4>2. CASE UNCHANGED <<room, saved>>
        BY <1>0, <4>2 DEF RoomRows
      <4> QED BY <2>1, <4>1, <4>2 DEF ReportTicket
    <3> QED BY <3>1, <3>2, <3>3
  <2>2. CASE AdvanceTicket(k)
    BY <1>0, <2>0, <2>2
    DEF AdvanceTicket, RoomRows, TaskRows, TicketRows, BlockRows, OpenDowntime
  <2>3. ASSUME ApproveTicket(k) \/ CancelTicket(k) \/ ReopenTicket(k)
        PROVE  TicketRows' /\ BlockRows' /\ ticket[k].room \in Rooms
    <3>1. TicketRows' /\ ticket[k].room \in Rooms
      BY <1>0, <2>3 DEF ApproveTicket, CancelTicket, ReopenTicket, TicketRows, OpenDowntime
    <3>2. BlockRows'
      BY <1>0, <2>3 DEF ApproveTicket, CancelTicket, ReopenTicket, Unblock, BlockRows, RestRows
    <3> QED BY <3>1, <3>2
  <2>4. CASE ApproveTicket(k)
    <3>1. CASE UNCHANGED <<room, saved, task>>
      BY <1>0, <2>0, <2>3, <2>4, <3>1 DEF RoomRows, TaskRows
    <3>2. CASE /\ SetRoom(ticket[k].room, "housekeeping")
               /\ \E t \in Tasks : NewTask(t, ticket[k].room, "inspection")
      BY <1>0, <1>a, <2>0, <2>3, <2>4, <3>2, SetRoomType, NewTaskType
    <3> QED BY <2>4, <3>1, <3>2 DEF ApproveTicket
  <2>5. CASE CancelTicket(k)
    <3>1. TaskRows'
      BY <1>0, <2>5 DEF CancelTicket, TaskRows
    <3>2. CASE SetRoom(ticket[k].room, "housekeeping")
      BY <1>0, <1>a, <2>0, <2>3, <2>5, <3>1, <3>2, SetRoomType
    <3>3. CASE UNCHANGED <<room, saved>>
      BY <1>0, <2>0, <2>3, <2>5, <3>1, <3>3 DEF RoomRows
    <3> QED BY <2>5, <3>2, <3>3 DEF CancelTicket
  <2>6. CASE ReopenTicket(k)
    <3>1. TaskRows' /\ SetRoom(ticket[k].room, "maintenance")
      BY <1>0, <2>6 DEF ReopenTicket, TaskRows
    <3> QED BY <1>0, <1>a, <2>0, <2>3, <2>6, <3>1, SetRoomType
  <2>7. CASE ReleaseBlock(k)
    BY <1>0, <2>0, <2>7 DEF ReleaseBlock, Unblock, RoomRows, TaskRows, TicketRows, BlockRows
  <2> QED BY <2>0, <2>1, <2>2, <2>4, <2>5, <2>6, <2>7
<1>4. CASE OtherStep
  BY <1>0, <1>4, BoundAssumption
  DEF OtherStep, EditRoom, Midnight, RoomRows, TaskRows, TicketRows, BlockRows, RestRows
<1>5. CASE UNCHANGED vars
  BY <1>0, <1>5 DEF vars, RoomRows, TaskRows, TicketRows, BlockRows, RestRows
<1> QED BY <1>1, <1>2, <1>3, <1>4, <1>5, StepKinds

-----------------------------------------------------------------------------
(* Occupied rooms have a guest *)

LEMMA OccupiedStep == IInv /\ [Next]_vars => OccupiedHasGuest'
<1> SUFFICES ASSUME IInv, [Next]_vars PROVE OccupiedHasGuest'
  OBVIOUS
<1> USE DEF IInv, TypeInv, TypeOK, RowsExist, OccupiedHasGuest, InHouse
<1>1. CASE StayStep
  <2> PICK g \in Guests : \/ CheckIn(g) \/ CheckOut(g) \/ Drop(g)
                          \/ \E rm \in Rooms : MoveConfirmed(g, rm) \/ MoveInHouse(g, rm)
    BY <1>1 DEF StayStep
  <2>1. CASE CheckIn(g)
    BY <2>1 DEF CheckIn, SetRoom
  <2>2. CASE CheckOut(g)
    BY <2>2 DEF CheckOut, SetRoom
  <2>3. CASE Drop(g)
    BY <2>3 DEF Drop
  <2>4. ASSUME NEW rm \in Rooms, MoveConfirmed(g, rm) PROVE OccupiedHasGuest'
    BY <2>4 DEF MoveConfirmed
  <2>5. ASSUME NEW rm \in Rooms, MoveInHouse(g, rm) PROVE OccupiedHasGuest'
    BY <2>5 DEF MoveInHouse
  <2> QED BY <2>1, <2>2, <2>3, <2>4, <2>5
<1>2. CASE TaskStep
  BY <1>2 DEF TaskStep, CreateTask, StartTask, CompleteTask, VerifyTask, ReopenTask, SetRoom
<1>3. CASE TicketStep
  BY <1>3 DEF TicketStep, ReportTicket, AdvanceTicket, ApproveTicket, CancelTicket,
              ReopenTicket, ReleaseBlock, SetRoom
<1>4. CASE OtherStep
  BY <1>4 DEF OtherStep, EditRoom, Midnight
<1>5. CASE UNCHANGED vars
  BY <1>5 DEF vars
<1> QED BY <1>1, <1>2, <1>3, <1>4, <1>5, StepKinds

-----------------------------------------------------------------------------
(* Rooms that the commands left available are ready *)

\* Only what the commands on the room's tickets and stays do can matter.
LEMMA ReadyStep == IInv /\ [Next]_vars => AvailableIsReady'
<1> SUFFICES ASSUME IInv, [Next]_vars PROVE AvailableIsReady'
  OBVIOUS
<1> USE DEF IInv, TypeInv, TypeOK, RowsExist, AvailableIsReady, InHouse, OpenDowntime
<1>1. CASE StayStep
  <2> PICK g \in Guests : \/ CheckIn(g) \/ CheckOut(g) \/ Drop(g)
                          \/ \E rm \in Rooms : MoveConfirmed(g, rm) \/ MoveInHouse(g, rm)
    BY <1>1 DEF StayStep
  <2>1. CASE CheckIn(g)
    BY <2>1 DEF CheckIn, SetRoom
  <2>2. CASE CheckOut(g)
    BY <2>2 DEF CheckOut, SetRoom
  <2>3. CASE Drop(g)
    BY <2>3 DEF Drop
  <2>4. ASSUME NEW rm \in Rooms, MoveConfirmed(g, rm) PROVE AvailableIsReady'
    BY <2>4 DEF MoveConfirmed
  <2>5. ASSUME NEW rm \in Rooms, MoveInHouse(g, rm) PROVE AvailableIsReady'
    BY <2>5 DEF MoveInHouse
  <2> QED BY <2>1, <2>2, <2>3, <2>4, <2>5
<1>2. CASE TaskStep
  <2> PICK t \in Tasks :
         \/ \E rm \in Busy, kind \in {"cleaning", "inspection"} : CreateTask(t, rm, kind)
         \/ StartTask(t) \/ CompleteTask(t) \/ VerifyTask(t) \/ ReopenTask(t)
    BY <1>2 DEF TaskStep
  <2>1. CASE VerifyTask(t)
    \* the inspection releases a room that is empty and has no downtime
    BY <2>1, BoundAssumption DEF VerifyTask, Downtime, SetRoom
  <2> QED BY <2>1 DEF CreateTask, StartTask, CompleteTask, ReopenTask, SetRoom
<1>3. CASE TicketStep
  <2> PICK k \in Tickets :
         \/ \E rm \in Busy, d \in BOOLEAN : ReportTicket(k, rm, d)
         \/ AdvanceTicket(k) \/ ApproveTicket(k) \/ CancelTicket(k)
         \/ ReopenTicket(k) \/ ReleaseBlock(k)
    BY <1>3 DEF TicketStep
  <2>1. ASSUME NEW rm \in Busy, NEW d \in BOOLEAN, ReportTicket(k, rm, d)
        PROVE  AvailableIsReady'
    BY <2>1, BoundAssumption DEF ReportTicket, SetRoom
  <2>2. CASE AdvanceTicket(k)
    BY <2>2 DEF AdvanceTicket
  <2>3. CASE ApproveTicket(k)
    BY <2>3 DEF ApproveTicket, SetRoom
  <2>4. CASE CancelTicket(k)
    BY <2>4 DEF CancelTicket, SetRoom
  <2>5. CASE ReopenTicket(k)
    BY <2>5 DEF ReopenTicket, SetRoom
  <2>6. CASE ReleaseBlock(k)
    BY <2>6 DEF ReleaseBlock
  <2> QED BY <2>1, <2>2, <2>3, <2>4, <2>5, <2>6
<1>4. CASE OtherStep
  BY <1>4 DEF OtherStep, EditRoom, Midnight
<1>5. CASE UNCHANGED vars
  BY <1>5 DEF vars
<1> QED BY <1>1, <1>2, <1>3, <1>4, <1>5, StepKinds

-----------------------------------------------------------------------------
(* Dirty rooms are queued for cleaning *)

\* Task t is a cleaning of rm that is still to be done.
Awaits(t, rm) ==
    /\ task[t].room = rm /\ task[t].kind = "cleaning"
    /\ task[t].status \in {"pending", "in_progress"}

\* A new task takes no other task off the queue.
LEMMA NewTaskKeeps ==
    ASSUME TypeInv, NEW t \in Tasks, NEW kind, NEW to \in Rooms, NewTask(t, to, kind)
    PROVE  /\ \A u \in Tasks, rm \in Rooms : Awaits(u, rm) => Awaits(u, rm)'
           /\ kind = "cleaning" => Awaits(t, to)'
  BY DEF TypeInv, TypeOK, NewTask, Awaits

\* Rooms that were dirty stay queued when their tasks stay on the queue.
LEMMA QueueKept ==
    ASSUME TypeInv, DirtyRoomQueued, dirty' \subseteq dirty,
           \A u \in Tasks, rm \in Rooms : Awaits(u, rm) => Awaits(u, rm)'
    PROVE  DirtyRoomQueued'
  BY DEF TypeInv, TypeOK, DirtyRoomQueued, Awaits

\* A room becomes dirty together with a task for it, and clean with its end.
LEMMA QueuedStep == IInv /\ [Next]_vars => DirtyRoomQueued'
<1> SUFFICES ASSUME IInv, [Next]_vars PROVE DirtyRoomQueued'
  OBVIOUS
<1>0. TypeInv /\ DirtyRoomQueued
  BY DEF IInv
<1>a. ASSUME UNCHANGED task, dirty' \subseteq dirty PROVE DirtyRoomQueued'
  BY <1>0, <1>a, QueueKept DEF Awaits
<1>b. ASSUME NEW rm \in Rooms, dirty' = dirty \cup {rm},
             \E t \in Tasks : NewTask(t, rm, "cleaning")
      PROVE  DirtyRoomQueued'
  <2> PICK t \in Tasks : NewTask(t, rm, "cleaning")
    BY <1>b
  <2>1. \A u \in Tasks, rx \in Rooms : Awaits(u, rx) => Awaits(u, rx)'
    BY <1>0, NewTaskKeeps
  <2>2. Awaits(t, rm)'
    BY <1>0, NewTaskKeeps
  <2> QED BY <1>0, <1>b, <2>1, <2>2 DEF DirtyRoomQueued, Awaits, TypeInv, TypeOK
<1>1. CASE StayStep
  <2> PICK g \in Guests : \/ CheckIn(g) \/ CheckOut(g) \/ Drop(g)
                          \/ \E rm \in Rooms : MoveConfirmed(g, rm) \/ MoveInHouse(g, rm)
    BY <1>1 DEF StayStep
  <2>0. stay[g].room \in Rooms
    BY <1>0 DEF TypeInv, TypeOK
  <2>1. CASE CheckIn(g) \/ Drop(g) \/ \E rm \in Rooms : MoveConfirmed(g, rm)
    BY <1>a, <2>1 DEF CheckIn, Drop, MoveConfirmed
  <2>2. CASE CheckOut(g)
    <3>1. CASE CleaningQueued(stay[g].room) /\ UNCHANGED task
      BY <1>0, <2>2, <3>1 DEF CheckOut, CleaningQueued, DirtyRoomQueued
    <3>2. CASE \E t \in Tasks : NewTask(t, stay[g].room, "cleaning")
      BY <1>b, <2>0, <2>2, <3>2 DEF CheckOut
    <3> QED BY <2>2, <3>1, <3>2 DEF CheckOut
  <2>3. ASSUME NEW rm \in Rooms, MoveInHouse(g, rm) PROVE DirtyRoomQueued'
    BY <1>b, <2>0, <2>3 DEF MoveInHouse
  <2> QED BY <2>1, <2>2, <2>3
<1>2. CASE TaskStep
  <2> PICK t \in Tasks :
         \/ \E rm \in Busy, kind \in {"cleaning", "inspection"} : CreateTask(t, rm, kind)
         \/ StartTask(t) \/ CompleteTask(t) \/ VerifyTask(t) \/ ReopenTask(t)
    BY <1>2 DEF TaskStep
  <2>1. ASSUME NEW rm \in Busy, NEW kind \in {"cleaning", "inspection"}, CreateTask(t, rm, kind)
        PROVE  DirtyRoomQueued'
    BY <1>0, <2>1, BoundAssumption, NewTaskKeeps, QueueKept DEF CreateTask
  <2>2. CASE CompleteTask(t)
    \* a completed cleaning takes its room off both
    BY <1>0, <2>2 DEF CompleteTask, DirtyRoomQueued, TypeInv, TypeOK
  <2>3. ASSUME StartTask(t) \/ VerifyTask(t) \/ ReopenTask(t)
        PROVE  \A u \in Tasks, rm \in Rooms : Awaits(u, rm) => Awaits(u, rm)'
    <3>1. task \in [Tasks -> [status : {"none", "pending", "in_progress", "completed", "verified"},
                              room : Rooms \cup {None},
                              kind : {"none", "cleaning", "inspection"}]]
      BY <1>0 DEF TypeInv, TypeOK
    <3>2. CASE StartTask(t)
      <4>1. task' = [task EXCEPT ![t].status = "in_progress"]
        BY <3>2 DEF StartTask
      <4> QED BY <3>1, <4>1 DEF Awaits
    <3>3. CASE VerifyTask(t) \/ ReopenTask(t)
      <4>1. /\ task[t].status \in {"completed", "verified"}
            /\ \E s : task' = [task EXCEPT ![t].status = s]
        BY <3>3 DEF VerifyTask, ReopenTask
      <4> QED BY <3>1, <4>1 DEF Awaits
    <3> QED BY <2>3, <3>2, <3>3
  <2>4. StartTask(t) \/ VerifyTask(t) \/ ReopenTask(t) => dirty' \subseteq dirty
    BY DEF StartTask, VerifyTask, ReopenTask
  <2> QED BY <1>0, <2>1, <2>2, <2>3, <2>4, QueueKept
<1>3. CASE TicketStep
  <2> PICK k \in Tickets :
         \/ \E rm \in Busy, d \in BOOLEAN : ReportTicket(k, rm, d)
         \/ AdvanceTicket(k) \/ ApproveTicket(k) \/ CancelTicket(k)
         \/ ReopenTicket(k) \/ ReleaseBlock(k)
    BY <1>3 DEF TicketStep
  <2>1. CASE ApproveTicket(k)
    <3>1. ticket[k].room \in Rooms
      BY <1>0, <2>1 DEF ApproveTicket, TypeInv, RowsExist
    <3>2. CASE \E t \in Tasks : NewTask(t, ticket[k].room, "inspection")
      BY <1>0, <2>1, <3>1, <3>2, NewTaskKeeps, QueueKept DEF ApproveTicket
    <3> QED BY <1>a, <2>1, <3>2 DEF ApproveTicket
  <2> QED BY <1>a, <2>1 DEF ReportTicket, AdvanceTicket, CancelTicket, ReopenTicket, ReleaseBlock
<1>4. CASE OtherStep
  BY <1>a, <1>4 DEF OtherStep, EditRoom, Midnight
<1>5. CASE UNCHANGED vars
  BY <1>a, <1>5 DEF vars
<1> QED BY <1>1, <1>2, <1>3, <1>4, <1>5, StepKinds

-----------------------------------------------------------------------------
(* The calendar follows the tickets *)

\* A ticket and its block are written by the same commands.
LEMMA BlocksStep == IInv /\ [Next]_vars => BlocksInv'
<1> SUFFICES ASSUME IInv, [Next]_vars PROVE BlocksInv'
  OBVIOUS
<1> USE DEF IInv, TypeInv, TypeOK, BlocksInv, BlockFollowsTicket, OpenDowntime
<1>1. CASE StayStep
  BY <1>1 DEF StayStep, CheckIn, CheckOut, Drop, MoveConfirmed, MoveInHouse
<1>2. CASE TaskStep
  BY <1>2 DEF TaskStep, CreateTask, StartTask, CompleteTask, VerifyTask, ReopenTask
<1>3. CASE TicketStep
  <2> PICK k \in Tickets :
         \/ \E rm \in Busy, d \in BOOLEAN : ReportTicket(k, rm, d)
         \/ AdvanceTicket(k) \/ ApproveTicket(k) \/ CancelTicket(k)
         \/ ReopenTicket(k) \/ ReleaseBlock(k)
    BY <1>3 DEF TicketStep
  <2>1. ASSUME NEW rm \in Busy, NEW d \in BOOLEAN, ReportTicket(k, rm, d)
        PROVE  BlocksInv'
    BY <2>1 DEF ReportTicket
  <2>2. CASE AdvanceTicket(k)
    BY <2>2 DEF AdvanceTicket
  <2>3. CASE ApproveTicket(k)
    BY <2>3 DEF ApproveTicket, Unblock
  <2>4. CASE CancelTicket(k)
    BY <2>4 DEF CancelTicket, Unblock
  <2>5. CASE ReopenTicket(k)
    BY <2>5 DEF ReopenTicket
  <2>6. CASE ReleaseBlock(k)
    BY <2>6 DEF ReleaseBlock, Unblock
  <2> QED BY <2>1, <2>2, <2>3, <2>4, <2>5, <2>6
<1>4. CASE OtherStep
  BY <1>4 DEF OtherStep, EditRoom, Midnight
<1>5. CASE UNCHANGED vars
  BY <1>5 DEF vars
<1> QED BY <1>1, <1>2, <1>3, <1>4, <1>5, StepKinds

-----------------------------------------------------------------------------
(* The theorems *)

LEMMA Inductive == IInv /\ [Next]_vars => IInv'
<1> SUFFICES ASSUME IInv, [Next]_vars PROVE IInv'
  OBVIOUS
<1>1. TypeInv'
  BY TypeStep DEF IInv
<1> QED BY <1>1, ReadyStep, OccupiedStep, QueuedStep, BlocksStep DEF IInv

\* The inductive invariant holds in every reachable state.
THEOREM Invariance == Spec => []IInv
  BY Initially, Inductive, PTL DEF Spec

\* Every reachable state is well typed.
THEOREM TypeCorrect == Spec => []TypeOK
<1>1. IInv => TypeOK
  BY DEF IInv, TypeInv
<1> QED BY <1>1, Invariance, PTL

\* A room the commands have made available is empty and out of repair
\* (the releases of verify_housekeeping_task and the guards of the others).
THEOREM ReadyWhenAvailable == Spec => []AvailableIsReady
<1>1. IInv => AvailableIsReady
  BY DEF IInv
<1> QED BY <1>1, Invariance, PTL

\* A room the commands have marked occupied has a guest (check-in, move, check-out).
THEOREM OccupiedByGuest == Spec => []OccupiedHasGuest
<1>1. IInv => OccupiedHasGuest
  BY DEF IInv
<1> QED BY <1>1, Invariance, PTL

\* A room that a guest has left waits for a cleaning until one is completed.
THEOREM DirtyQueued == Spec => []DirtyRoomQueued
<1>1. IInv => DirtyRoomQueued
  BY DEF IInv
<1> QED BY <1>1, Invariance, PTL

\* Blocks end with their tickets, and open downtime has had one.
THEOREM BlocksFollow == Spec => []BlockFollowsTicket
<1>1. IInv => BlockFollowsTicket
  BY DEF IInv, BlocksInv
<1> QED BY <1>1, Invariance, PTL

\* What a step that gives a guest a room has validated: no block of the room
\* stands, for one that stands began by today and has no end.
LEMMA GivenRoom ==
    ASSUME IInv, [Next]_vars, NEW g \in Guests, stay'[g].status = "checked_in",
           <<stay'[g].status, stay'[g].room>> # <<stay[g].status, stay[g].room>>
    PROVE  \A k \in Tickets : ticket[k].room = stay'[g].room => block[k].status # "active"
<1>0. /\ stay \in [Guests -> [status : {"confirmed", "checked_in", "ended"}, room : Rooms]]
      /\ today \in Nat
      /\ \A k \in Tickets : block[k].from \in Nat /\ block[k].from <= today
  BY DEF IInv, TypeInv, TypeOK, BlocksInv
<1>1. ASSUME NEW rm, ValidStay(g, rm)
      PROVE  \A k \in Tickets : ticket[k].room = rm => block[k].status # "active"
  <2>1. Dates[g].in \in Nat /\ Dates[g].out \in Nat /\ Dates[g].in < Dates[g].out
    BY CalendarAssumption
  <2>2. today < Dates[g].out
    BY <1>0, <1>1, <2>1 DEF ValidStay
  <2>3. \A k \in Tickets : block[k].from < Dates[g].out
    BY <1>0, <2>1, <2>2
  <2> QED BY <1>1, <2>3 DEF ValidStay, Blocked
<1>2. stay' # stay
  OBVIOUS
<1>3. StayStep
  BY <1>2, StepKinds
  DEF TaskStep, CreateTask, StartTask, CompleteTask, VerifyTask, ReopenTask,
      TicketStep, ReportTicket, AdvanceTicket, ApproveTicket, CancelTicket,
      ReopenTicket, ReleaseBlock, OtherStep, EditRoom, Midnight, vars
<1> PICK h \in Guests : \/ CheckIn(h) \/ CheckOut(h) \/ Drop(h)
                        \/ \E rm \in Rooms : MoveConfirmed(h, rm) \/ MoveInHouse(h, rm)
  BY <1>3 DEF StayStep
<1>4. CASE CheckIn(h)
  <2>1. ValidStay(h, stay[h].room) /\ h = g /\ stay'[g].room = stay[g].room
    BY <1>0, <1>4 DEF CheckIn
  <2> QED BY <1>1, <2>1
<1>5. ASSUME NEW rm \in Rooms, MoveInHouse(h, rm)
      PROVE  \A k \in Tickets : ticket[k].room = stay'[g].room => block[k].status # "active"
  <2>1. ValidStay(h, rm) /\ h = g /\ stay'[g].room = rm
    BY <1>0, <1>5 DEF MoveInHouse
  <2> QED BY <1>1, <2>1
<1>6. CASE CheckOut(h) \/ Drop(h) \/ \E rm \in Rooms : MoveConfirmed(h, rm)
  BY <1>0, <1>6 DEF CheckOut, Drop, MoveConfirmed
<1> QED BY <1>4, <1>5, <1>6

\* No guest is put into a room under repair whose block still stands, though
\* check_in and move_reservation_room never read a ticket.
THEOREM KeptOutOfRepairs == Spec => NotIntoRepairs
<1> DEFINE Kept == \A g \in Guests, k \in Tickets :
          (/\ stay'[g].status = "checked_in"
           /\ <<stay'[g].status, stay'[g].room>> # <<stay[g].status, stay[g].room>>
           /\ ticket[k].room = stay'[g].room /\ ticket[k].downtime
           /\ ticket[k].status \in OpenDowntime)
          => block[k].status = "released"
<1>1. IInv /\ [Next]_vars => Kept
  <2>1. IInv => \A k \in Tickets :
            /\ block[k].status \in {"none", "active", "released"}
            /\ (ticket[k].downtime /\ ticket[k].status \in OpenDowntime)
                  => block[k].status # "none"
    BY DEF IInv, TypeInv, TypeOK, BlocksInv, BlockFollowsTicket
  <2> QED BY <2>1, GivenRoom
<1>2. IInv /\ [Next]_vars => [Kept]_vars
  BY <1>1
<1> QED BY <1>2, Invariance, PTL DEF Spec, NotIntoRepairs

-----------------------------------------------------------------------------
(* The desk *)

\* The pages and view sets give commands of the services and nothing else, whatever
\* roles they ask for.
LEMMA DeskCommands == [DeskNext]_vars => [Next]_vars
<1> SUFFICES ASSUME DeskNext PROVE Next
  OBVIOUS
<1>1. ASSUME NEW g \in Guests, ReservationDesk(g) PROVE Next
  BY <1>1 DEF ReservationDesk, Next
<1>2. ASSUME NEW g \in Guests, NEW rm \in Rooms, MoveDesk(g, rm) PROVE Next
  BY <1>2 DEF MoveDesk, Next
<1>3. ASSUME NEW t \in Tasks, NEW rm \in Busy, NEW kind \in {"cleaning", "inspection"},
             PortalHousekeeping(t, rm, kind)
      PROVE  Next
  BY <1>3 DEF PortalHousekeeping, Next
<1>4. ASSUME NEW t \in Tasks, PortalHousekeepingAction(t) PROVE Next
  BY <1>4 DEF PortalHousekeepingAction, HousekeepingTaskViewSet, Next
<1>5. ASSUME NEW k \in Tickets, NEW rm \in Busy, NEW d \in BOOLEAN, PortalMaintenance(k, rm, d)
      PROVE  Next
  BY <1>5 DEF PortalMaintenance, Next
<1>6. ASSUME NEW k \in Tickets, PortalMaintenanceAction(k) \/ ReleaseDesk(k) PROVE Next
  BY <1>6 DEF PortalMaintenanceAction, MaintenanceTicketViewSet, ReleaseDesk, Next
<1>7. ASSUME NEW rm \in Busy, NEW s \in RoomStatus, PortalRoomEdit(rm, s) PROVE Next
  BY <1>7 DEF PortalRoomEdit, Next
<1>8. CASE Midnight
  BY <1>8 DEF Next
<1> QED BY <1>1, <1>2, <1>3, <1>4, <1>5, <1>6, <1>7, <1>8 DEF DeskNext

\* The desk is a user of the services: what they keep, it keeps.
THEOREM DeskGivesCommands == DeskSpec => Spec
  BY DeskCommands, PTL DEF DeskSpec, Spec

\* So the rooms are as their rows say for whoever works at the desk, as the run has it.
THEOREM RoomsHoldAtDesk ==
    DeskSpec => /\ [](TypeOK /\ AvailableIsReady /\ OccupiedHasGuest /\ DirtyRoomQueued
                      /\ BlockFollowsTicket)
                /\ NotIntoRepairs
  BY DeskGivesCommands, TypeCorrect, ReadyWhenAvailable, OccupiedByGuest, DirtyQueued,
     BlocksFollow, KeptOutOfRepairs, PTL
=============================================================================
