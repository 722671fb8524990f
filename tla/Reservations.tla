---------------------------- MODULE Reservations ----------------------------
(***************************************************************************)
(* The sale of room nights: apps/reservations/services.py, pricing.py and  *)
(* apps/rooms/inventory.py on MariaDB at READ COMMITTED.                   *)
(*                                                                         *)
(* A command of the services is a database transaction.  It is modelled in *)
(* two steps.  Begin...  takes the row locks (select_for_update), reads    *)
(* and validates; Commit... writes and releases the locks.  Between them   *)
(* other requests, the clock and the scheduled job that expires holds go   *)
(* on.  A command whose validation raises leaves no trace (the atomic      *)
(* block is rolled back), so it is not a step; a command that fails later  *)
(* (deadlock victim, lost connection, killed worker) is Rollback.          *)
(*                                                                         *)
(* Dates are natural numbers.  The minutes of a quote's lifetime are       *)
(* abstracted to the set of quotes whose expires_at has passed.            *)
(***************************************************************************)
EXTENDS Naturals, FiniteSets

CONSTANTS
    Rooms,
    Resv,          \* primary keys of reservations
    Quotes,        \* primary keys of quotes, each with the hold made with it
    PromoQuotes,   \* the quotes asked for with the promotion code
    UsageLimit,    \* usage_limit of that promotion
    Blocks,        \* primary keys of inventory blocks
    ManualBlocks,  \* the blocks entered by hand (empty source_model, source_id)
    Stays,         \* requested date ranges, records [in, out]
    Txns,          \* database connections with a transaction
    Job,           \* the worker that runs the scheduled job expire_inventory_holds
    Viewers,       \* the page views of public_rooms, which expire holds as well
    None,          \* no row: NULL
    LastDay,       \* bound: the clock stops at this date
    Closable       \* bound: the rooms that may be taken off sale

ASSUME StaysAssumption == Stays \subseteq [in : Nat, out : Nat]
ASSUME NoneAssumption ==
    None \notin Rooms \cup Resv \cup Quotes \cup Blocks \cup Stays
ASSUME SubsetAssumption ==
    PromoQuotes \subseteq Quotes /\ ManualBlocks \subseteq Blocks /\ Closable \subseteq Rooms
ASSUME KeysAssumption == Resv \cap Quotes = {}   \* keys of different tables
ASSUME LimitAssumption == UsageLimit \in Nat /\ LastDay \in Nat

VARIABLES
    res,      \* reservations: status, room and stay
    quote,    \* quotes: status, room, stay and converted reservation
    hold,     \* status of the inventory hold of each quote
    lapsed,   \* the quotes (and holds) whose expires_at has passed
    block,    \* inventory blocks: status, room and dates
    closed,   \* the rooms that are not active or not sellable
    used,     \* times_used of the promotion
    today,    \* timezone.localdate()
    txn,      \* what each open transaction has locked and validated
    sweep     \* the runs of expire_stale_holds: the next statement and the ids

Sweepers == Viewers \cup {Job}

vars == <<res, quote, hold, lapsed, block, closed, used, today, txn, sweep>>

-----------------------------------------------------------------------------
(* Rows *)

BlockingStatuses == {"pending", "confirmed", "checked_in"}
Terminal == {"checked_out", "cancelled", "no_show"}
ResStatus == {"none"} \cup BlockingStatuses \cup Terminal
QuoteStatus == {"none", "active", "converted", "expired", "cancelled"}
HoldStatus == {"none", "active", "converted", "released", "expired"}

ReservationRow == [status : ResStatus, room : Rooms \cup {None}, stay : Stays \cup {None}]
QuoteRow == [status : QuoteStatus, room : Rooms \cup {None}, stay : Stays \cup {None},
             resv : Resv \cup {None}]
BlockRow == [status : {"none", "active", "released"}, room : Rooms \cup {None},
             stay : Stays \cup {None}]

\* The dict `allowed` of transition_reservation.
Actions == {"confirm", "check_in", "check_out", "cancel", "no_show"}
AllowedFrom == [confirm |-> {"pending"}, check_in |-> {"confirmed"},
                check_out |-> {"checked_in"}, cancel |-> {"pending", "confirmed"},
                no_show |-> {"confirmed"}]
\* Mutant: a status that the model's choices do not list.
Mut_NextStatus == [confirm |-> "confirmed", check_in |-> "checked_in",
                   check_out |-> "checked_out", cancel |-> "canceled",
                   no_show |-> "no_show"]
NextStatus == [confirm |-> "confirmed", check_in |-> "checked_in",
               check_out |-> "checked_out", cancel |-> "cancelled",
               no_show |-> "no_show"]

\* An open transaction: the command, the rows it has locked (rooms, and the
\* reservation or quote row) and the values it will write.  A new row's key
\* is reserved from the start, as an auto-increment key is.
Kinds == {"idle", "create", "quote", "convert", "move", "amend", "block"} \cup Actions
Command == [kind : Kinds, locks : SUBSET Rooms, res : Resv \cup {None},
            quote : Quotes \cup {None}, block : Blocks \cup {None},
            room : Rooms \cup {None}, stay : Stays \cup {None}, stale : SUBSET Quotes]
Idle == [kind |-> "idle", locks |-> {}, res |-> None, quote |-> None, block |-> None,
         room |-> None, stay |-> None, stale |-> {}]

\* A run of expire_stale_holds that has not begun.
NoSweep == [at |-> "read", ids |-> {}]

TypeOK ==
    /\ res \in [Resv -> ReservationRow]
    /\ quote \in [Quotes -> QuoteRow]
    /\ hold \in [Quotes -> HoldStatus]
    /\ lapsed \in SUBSET Quotes
    /\ block \in [Blocks -> BlockRow]
    /\ closed \in SUBSET Rooms
    /\ used \in Nat
    /\ today \in Nat
    /\ txn \in [Txns -> Command]
    /\ sweep \in [Sweepers -> [at : {"read", "holds", "quotes"}, ids : SUBSET Quotes]]

Init ==
    /\ res = [r \in Resv |-> [status |-> "none", room |-> None, stay |-> None]]
    /\ quote = [q \in Quotes |-> [status |-> "none", room |-> None, stay |-> None,
                                  resv |-> None]]
    /\ hold = [q \in Quotes |-> "none"]
    /\ lapsed = {}
    /\ block = [b \in Blocks |-> [status |-> "none", room |-> None, stay |-> None]]
    /\ closed = {}
    /\ used = 0
    /\ today = 0
    /\ txn = [t \in Txns |-> Idle]
    /\ sweep = [p \in Sweepers |-> NoSweep]

-----------------------------------------------------------------------------
(* Locks *)

\* Mutant: the room is read without select_for_update.
Mut_RoomFree(rm) == TRUE
RoomFree(rm) == \A t \in Txns : rm \notin txn[t].locks
ReservationFree(r) == \A t \in Txns : txn[t].res # r
\* Mutant: the quote is read without select_for_update.
Mut_QuoteFree(q) == TRUE
QuoteFree(q) == \A t \in Txns : txn[t].quote # q
\* A command that names the promotion locks its row: a quote asked for with
\* the code, and the conversion of such a quote.
\* Mutant: the promotion is read without select_for_update.
Mut_PromotionFree(q) == TRUE
PromotionFree(q) == q \in PromoQuotes => \A t \in Txns : txn[t].quote \notin PromoQuotes
BlockFree(b) == \A t \in Txns : txn[t].block # b

-----------------------------------------------------------------------------
(* Validation *)

Overlap(s, u) == s.in < u.out /\ u.in < s.out

Occupies(r, rm, s) ==
    res[r].status \in BlockingStatuses /\ res[r].room = rm /\ Overlap(res[r].stay, s)

Holds(q, rm, s) ==
    /\ hold[q] = "active" /\ q \notin lapsed
    /\ quote[q].room = rm /\ Overlap(quote[q].stay, s)

Bars(b, rm, s) ==
    block[b].status = "active" /\ block[b].room = rm /\ Overlap(block[b].stay, s)

\* Mutant: holds of other quotes are not looked at.
Mut_ValidStay(rm, s, self, own, past) ==
    /\ past \/ s.in >= today
    /\ s.in < s.out
    /\ rm \notin closed
    /\ \A r \in Resv \ {self} : ~Occupies(r, rm, s)
    /\ \A b \in Blocks : ~Bars(b, rm, s)

\* _validate_stay(room, dates, exclude_id, exclude_quote_id, allow_past_arrival).
\* The occupancy limit only rejects requests and is not modelled.
ValidStay(rm, s, self, own, past) ==
    /\ past \/ s.in >= today
    /\ s.in < s.out
    /\ rm \notin closed
    /\ \A r \in Resv \ {self} : ~Occupies(r, rm, s)
    /\ \A q \in Quotes \ {own} : ~Holds(q, rm, s)
    /\ \A b \in Blocks : ~Bars(b, rm, s)

PromotionOpen(q) == q \in PromoQuotes => used < UsageLimit

-----------------------------------------------------------------------------
(* Commands: locks, reads and checks *)

Open(t, cmd) ==
    /\ txn[t] = Idle
    /\ txn' = [txn EXCEPT ![t] = cmd]
    /\ UNCHANGED <<res, quote, hold, lapsed, block, closed, used, today, sweep>>

\* create_reservation, called by the front desk, the API and the waitlist.
BeginCreate(t, r, rm, s) ==
    /\ res[r].status = "none" /\ ReservationFree(r)
    /\ RoomFree(rm)
    /\ ValidStay(rm, s, None, None, FALSE)
    /\ Open(t, [Idle EXCEPT !.kind = "create", !.locks = {rm}, !.res = r,
                            !.room = rm, !.stay = s])

\* create_quote.  Its call of expire_stale_holds reads the stale ids here; the
\* two updates are part of the same transaction and appear at the commit.
BeginQuote(t, q, rm, s) ==
    /\ quote[q].status = "none" /\ QuoteFree(q)
    /\ RoomFree(rm) /\ PromotionFree(q) /\ PromotionOpen(q)
    /\ ValidStay(rm, s, None, None, FALSE)
    /\ Open(t, [Idle EXCEPT !.kind = "quote", !.locks = {rm}, !.quote = q, !.room = rm,
                            !.stay = s,
                            !.stale = {p \in Quotes : hold[p] = "active" /\ p \in lapsed}])

\* convert_quote up to and including the checks of create_reservation.  The
\* first query joins the room and the hold, so it locks all three rows.  The
\* branch that marks an expired quote raises afterwards and is rolled back.
BeginConvert(t, q, r) ==
    /\ QuoteFree(q)
    /\ quote[q].status = "active" /\ q \notin lapsed
    /\ res[r].status = "none" /\ ReservationFree(r)
    /\ RoomFree(quote[q].room) /\ PromotionFree(q) /\ PromotionOpen(q)
    /\ ValidStay(quote[q].room, quote[q].stay, None, q, FALSE)
    /\ Open(t, [Idle EXCEPT !.kind = "convert", !.locks = {quote[q].room}, !.res = r,
                            !.quote = q, !.room = quote[q].room, !.stay = quote[q].stay])

\* transition_reservation.  Confirmation and check-in validate the stay again.
\* (Check-in also asks for half of the invoice to be paid, which only rejects.)
BeginTransition(t, r, a) ==
    /\ ReservationFree(r)
    /\ res[r].status \in AllowedFrom[a]
    /\ RoomFree(res[r].room)
    /\ a \in {"confirm", "check_in"} => ValidStay(res[r].room, res[r].stay, r, None, FALSE)
    /\ Open(t, [Idle EXCEPT !.kind = a, !.locks = {res[r].room}, !.res = r])

\* move_reservation_room: both rooms are locked, the target is validated.
BeginMove(t, r, rm) ==
    /\ ReservationFree(r)
    /\ res[r].status \in {"confirmed", "checked_in"}
    /\ RoomFree(res[r].room) /\ RoomFree(rm)
    /\ rm # res[r].room
    /\ ValidStay(rm, res[r].stay, None, None, FALSE)
    /\ Open(t, [Idle EXCEPT !.kind = "move", !.locks = {res[r].room, rm}, !.res = r,
                            !.room = rm, !.stay = res[r].stay])

\* Mutant: neither the reservation nor its room is read with select_for_update.
Mut_BeginAmend(t, r, s) ==
    LET checkedIn == res[r].status = "checked_in" IN
    /\ res[r].status \in BlockingStatuses
    /\ ValidStay(res[r].room, s, r, None, checkedIn)
    /\ checkedIn => s.in = res[r].stay.in
    /\ Open(t, [Idle EXCEPT !.kind = "amend", !.res = r, !.room = res[r].room, !.stay = s])

\* amend_reservation_stay.
BeginAmend(t, r, s) ==
    LET checkedIn == res[r].status = "checked_in" IN
    /\ ReservationFree(r)
    /\ res[r].status \in BlockingStatuses
    /\ RoomFree(res[r].room)
    /\ ValidStay(res[r].room, s, r, None, checkedIn)
    /\ checkedIn => s.in = res[r].stay.in
    /\ Open(t, [Idle EXCEPT !.kind = "amend", !.locks = {res[r].room}, !.res = r,
                            !.room = res[r].room, !.stay = s])

\* Mutant: the room row is not locked while a block is entered.
Mut_BeginBlock(t, b, rm, s) ==
    /\ block[b].status = "none" /\ BlockFree(b)
    /\ s.in < s.out
    /\ Open(t, [Idle EXCEPT !.kind = "block", !.block = b, !.room = rm, !.stay = s])

\* create_inventory_block: only a block of the same source is in the way;
\* reservations and holds are not looked at.
BeginBlock(t, b, rm, s) ==
    /\ block[b].status = "none" /\ BlockFree(b)
    /\ RoomFree(rm)
    /\ s.in < s.out
    /\ b \in ManualBlocks => \A m \in ManualBlocks : ~Bars(m, rm, s)
    /\ Open(t, [Idle EXCEPT !.kind = "block", !.locks = {rm}, !.block = b,
                            !.room = rm, !.stay = s])

-----------------------------------------------------------------------------
(* Commands: writes *)

Close(t, kinds) ==
    /\ txn[t].kind \in kinds
    /\ txn' = [txn EXCEPT ![t] = Idle]

NewReservation(c) == [status |-> "pending", room |-> c.room, stay |-> c.stay]

CommitCreate(t) ==
    LET c == txn[t] IN
    /\ Close(t, {"create"})
    /\ res' = [res EXCEPT ![c.res] = NewReservation(c)]
    /\ UNCHANGED <<quote, hold, lapsed, block, closed, used, today, sweep>>

CommitConvert(t) ==
    LET c == txn[t] IN
    /\ Close(t, {"convert"})
    /\ res' = [res EXCEPT ![c.res] = NewReservation(c)]
    /\ quote' = [quote EXCEPT ![c.quote].status = "converted", ![c.quote].resv = c.res]
    /\ hold' = [hold EXCEPT ![c.quote] = "converted"]
    /\ used' = IF c.quote \in PromoQuotes THEN used + 1 ELSE used
    /\ UNCHANGED <<lapsed, block, closed, today, sweep>>

\* Mutant: only the quotes are updated.
Mut_ExpireHolds(ids) == hold
\* The two updates of expire_stale_holds for the given ids: every hold, and
\* the quotes that are still active.
ExpireHolds(ids) == [q \in Quotes |-> IF q \in ids THEN "expired" ELSE hold[q]]
ExpireQuotes(ids) ==
    [q \in Quotes |-> IF q \in ids /\ quote[q].status = "active"
                      THEN [quote[q] EXCEPT !.status = "expired"] ELSE quote[q]]

\* create_quote: its expiry updates wait for the conversions that hold the rows.
CommitQuote(t) ==
    LET c == txn[t] IN
    /\ \A q \in c.stale : QuoteFree(q)
    /\ Close(t, {"quote"})
    /\ quote' = [ExpireQuotes(c.stale) EXCEPT
                    ![c.quote] = [status |-> "active", room |-> c.room, stay |-> c.stay,
                                  resv |-> None]]
    /\ hold' = [ExpireHolds(c.stale) EXCEPT ![c.quote] = "active"]
    /\ UNCHANGED <<res, lapsed, block, closed, used, today, sweep>>

CommitTransition(t) ==
    LET c == txn[t] IN
    /\ Close(t, Actions)
    /\ res' = [res EXCEPT ![c.res].status = NextStatus[c.kind]]
    /\ UNCHANGED <<quote, hold, lapsed, block, closed, used, today, sweep>>

CommitMove(t) ==
    LET c == txn[t] IN
    /\ Close(t, {"move"})
    /\ res' = [res EXCEPT ![c.res].room = c.room]
    /\ UNCHANGED <<quote, hold, lapsed, block, closed, used, today, sweep>>

CommitAmend(t) ==
    LET c == txn[t] IN
    /\ Close(t, {"amend"})
    /\ res' = [res EXCEPT ![c.res].stay = c.stay]
    /\ UNCHANGED <<quote, hold, lapsed, block, closed, used, today, sweep>>

CommitBlock(t) ==
    \E b \in Blocks :
        /\ txn[t].block = b
        /\ Close(t, {"block"})
        /\ block' = [block EXCEPT ![b] =
                        [status |-> "active", room |-> txn[t].room, stay |-> txn[t].stay]]
        /\ UNCHANGED <<res, quote, hold, lapsed, closed, used, today, sweep>>

\* An exception after the locks were taken: a deadlock victim, a lost
\* connection, a killed worker.  Nothing of the transaction remains.
Rollback(t) ==
    /\ txn[t].kind # "idle"
    /\ txn' = [txn EXCEPT ![t] = Idle]
    /\ UNCHANGED <<res, quote, hold, lapsed, block, closed, used, today, sweep>>

-----------------------------------------------------------------------------
(* Commands on a single row, and the scheduled job *)

\* release_quote: the guest leaves, or the e-mail verification fails.
ReleaseQuote(q) ==
    /\ QuoteFree(q)
    /\ quote[q].status = "active"
    /\ quote' = [quote EXCEPT ![q].status = "cancelled"]
    /\ hold' = [hold EXCEPT ![q] = IF @ = "active" THEN "released" ELSE @]
    /\ UNCHANGED <<res, lapsed, block, closed, used, today, txn, sweep>>

\* release_inventory_block.
ReleaseBlock(b) ==
    /\ block[b].status = "active"
    /\ block' = [block EXCEPT ![b].status = "released"]
    /\ UNCHANGED <<res, quote, hold, lapsed, closed, used, today, txn, sweep>>

\* A manager saves the room with is_active or is_sellable changed.
SetSellable(rm) ==
    /\ RoomFree(rm)
    /\ closed' = IF rm \in closed THEN closed \ {rm} ELSE closed \cup {rm}
    /\ UNCHANGED <<res, quote, hold, lapsed, block, used, today, txn, sweep>>

\* expire_stale_holds run by the job or by a search for rooms: three statements,
\* each its own transaction, of processes that know nothing of each other.
SweepRead(p) ==
    /\ sweep[p].at = "read"
    /\ \E q \in Quotes : hold[q] = "active" /\ q \in lapsed
    /\ sweep' = [sweep EXCEPT ![p] =
                   [at |-> "holds", ids |-> {q \in Quotes : hold[q] = "active" /\ q \in lapsed}]]
    /\ UNCHANGED <<res, quote, hold, lapsed, block, closed, used, today, txn>>

SweepHolds(p) ==
    /\ sweep[p].at = "holds"
    /\ \A q \in sweep[p].ids : QuoteFree(q)
    /\ hold' = ExpireHolds(sweep[p].ids)
    /\ sweep' = [sweep EXCEPT ![p].at = "quotes"]
    /\ UNCHANGED <<res, quote, lapsed, block, closed, used, today, txn>>

SweepQuotes(p) ==
    /\ sweep[p].at = "quotes"
    /\ \A q \in sweep[p].ids : QuoteFree(q)
    /\ quote' = ExpireQuotes(sweep[p].ids)
    /\ sweep' = [sweep EXCEPT ![p] = NoSweep]
    /\ UNCHANGED <<res, hold, lapsed, block, closed, used, today, txn>>

\* The process that serves a page view is killed between two of the statements.
SweepDies(p) ==
    /\ sweep[p].at # "read"
    /\ sweep' = [sweep EXCEPT ![p] = NoSweep]
    /\ UNCHANGED <<res, quote, hold, lapsed, block, closed, used, today, txn>>

-----------------------------------------------------------------------------
(* Time *)

\* The expires_at of a quote and its hold passes.
Lapse(q) ==
    /\ hold[q] = "active" /\ q \notin lapsed
    /\ lapsed' = lapsed \cup {q}
    /\ UNCHANGED <<res, quote, hold, block, closed, used, today, txn, sweep>>

Midnight ==
    /\ today < LastDay
    /\ today' = today + 1
    /\ UNCHANGED <<res, quote, hold, lapsed, block, closed, used, txn, sweep>>

-----------------------------------------------------------------------------

Begin(t) ==
    \/ \E r \in Resv, rm \in Rooms, s \in Stays : BeginCreate(t, r, rm, s)
    \/ \E q \in Quotes, rm \in Rooms, s \in Stays : BeginQuote(t, q, rm, s)
    \/ \E q \in Quotes, r \in Resv : BeginConvert(t, q, r)
    \/ \E r \in Resv, a \in Actions : BeginTransition(t, r, a)
    \/ \E r \in Resv, rm \in Rooms : BeginMove(t, r, rm)
    \/ \E r \in Resv, s \in Stays : BeginAmend(t, r, s)
    \/ \E b \in Blocks, rm \in Rooms, s \in Stays : BeginBlock(t, b, rm, s)

Commit(t) ==
    \/ CommitCreate(t)
    \/ CommitQuote(t)
    \/ CommitConvert(t)
    \/ CommitTransition(t)
    \/ CommitMove(t)
    \/ CommitAmend(t)
    \/ CommitBlock(t)

Sweep(p) == SweepRead(p) \/ SweepHolds(p) \/ SweepQuotes(p)

Next ==
    \/ \E t \in Txns : Begin(t) \/ Commit(t) \/ Rollback(t)
    \/ \E q \in Quotes : ReleaseQuote(q) \/ Lapse(q)
    \/ \E b \in Blocks : ReleaseBlock(b)
    \/ \E rm \in Closable : SetSellable(rm)
    \/ \E p \in Sweepers : Sweep(p)
    \/ \E p \in Viewers : SweepDies(p)
    \/ Midnight

Spec == Init /\ [][Next]_vars

-----------------------------------------------------------------------------
(* Properties *)

\* Two reservations that block inventory never have a night of one room in
\* common, however requests interleave.  This is the first check of
\* apps/frontend/reconciliation.py (_reservation_conflicts).
NoDoubleBooking ==
    \A r1, r2 \in Resv : (r1 # r2 /\ res[r1].status \in BlockingStatuses)
                          => ~Occupies(r2, res[r1].room, res[r1].stay)

\* A room held for somebody's unexpired quote is held against everyone: no
\* reservation and no other unexpired hold has one of its nights
\* (_active_hold_conflicts of reconciliation.py, and more).
HoldsExclusive ==
    \A q \in Quotes : (hold[q] = "active" /\ q \notin lapsed) =>
        /\ \A r \in Resv : ~Occupies(r, quote[q].room, quote[q].stay)
        /\ \A p \in Quotes \ {q} : ~Holds(p, quote[q].room, quote[q].stay)

\* The rows beside a quote agree with it.  A guest who sees a valid quote has the room
\* held, and a quote that was converted, cancelled or expired holds nothing, although
\* expiry updates the two tables in separate transactions, is run by several processes
\* at once and may die in between.  times_used of the promotion counts the conversions
\* that used it and stays within usage_limit when conversions race for the last use.
QuoteRowsAgree ==
    /\ \A q \in Quotes :
          /\ (quote[q].status = "active" /\ q \notin lapsed) => hold[q] = "active"
          /\ quote[q].status # "active" => hold[q] # "active"
    /\ used = Cardinality({q \in PromoQuotes : quote[q].status = "converted"})
    /\ used <= UsageLimit

\* A decided quote is decided for good: it is not converted a second time, not
\* expired or cancelled after its conversion, not converted after its release.
QuoteDecidedOnce ==
    [][\A q \in Quotes : quote[q].status \in {"converted", "cancelled", "expired"}
                         => quote'[q] = quote[q]]_vars

\* A reservation that has ended is never touched again: a move, an amendment or
\* a transition that was under way when it ended does not write to it.
EndedStaysFrozen ==
    [][\A r \in Resv : res[r].status \in Terminal => res'[r] = res[r]]_vars

\* A booking or a hold never newly takes nights of a room that is blocked or
\* off sale at that moment, even when the block is entered while it is made.
OnSale(rm, s) == rm \notin closed /\ \A b \in Blocks : ~Bars(b, rm, s)
SoldOnlyOpen ==
    [][/\ \A r \in Resv :
            (/\ res'[r].status \in BlockingStatuses
             /\ \/ <<res'[r].room, res'[r].stay>> # <<res[r].room, res[r].stay>>
                \/ res[r].status \notin BlockingStatuses)
            => OnSale(res'[r].room, res'[r].stay)
       /\ \A q \in Quotes : (hold'[q] = "active" /\ hold[q] # "active")
            => OnSale(quote'[q].room, quote'[q].stay)]_vars

\* The nights a row of the database claims.
Claim(c) ==
    IF c \in Resv
    THEN IF res[c].status \in BlockingStatuses
         THEN {res[c].room} \X (res[c].stay.in .. (res[c].stay.out - 1)) ELSE {}
    ELSE IF hold[c] = "active" /\ c \notin lapsed
         THEN {quote[c].room} \X (quote[c].stay.in .. (quote[c].stay.out - 1)) ELSE {}

Calendar == INSTANCE RoomNights WITH
                Claimants <- Resv \cup Quotes, claims <- [c \in Resv \cup Quotes |-> Claim(c)]

\* The services implement the calendar of RoomNights: every committed command
\* trades nights of one claimant for free ones, or hands a quote's nights to
\* its reservation with no moment at which someone else could take them.
ImplementsCalendar == Calendar!Spec

\* Every hold whose time has passed is eventually marked expired or otherwise
\* closed, whatever transactions come and go (the job expire_inventory_holds).
LapsedHoldsEnd ==
    \A q \in Quotes : (hold[q] = "active" /\ q \in lapsed) ~> hold[q] # "active"
=============================================================================
