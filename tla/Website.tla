-------------------------------- MODULE Website --------------------------------
(***************************************************************************)
(* Who asks for the commands of Reservations: the booking pages of the     *)
(* website (room_detail, public_quote_confirm and portal_verify_booking of *)
(* apps/frontend/views.py with apps/frontend/security.py), the waitlist,   *)
(* and the desk and the API.                                               *)
(*                                                                         *)
(* A visitor asks for a quote and confirms it, either signed in or with a  *)
(* code that is sent to his address.  The browser session knows the quote; *)
(* it is saved after the transaction of the request, so a request that is  *)
(* lost in between leaves the old session.  A browser makes one request at *)
(* a time.  The limit on sending codes, and a mail server that fails, are  *)
(* a refusal at any time.                                                  *)
(***************************************************************************)
EXTENDS Reservations

CONSTANTS
    Browsers,      \* browser sessions
    AddressOf,     \* the e-mail address that each enters
    Passworded,    \* the addresses whose account has a usable password
    Waiters,       \* primary keys of waitlist entries
    MaxAttempts,   \* BOOKING_OTP_MAX_ATTEMPTS
    DeskKinds      \* bound: the commands that the desk and the API give

Addresses == {AddressOf[b] : b \in Browsers}

ASSUME WebAssumption ==
    /\ MaxAttempts \in Nat \ {0} /\ DeskKinds \subseteq Kinds /\ Passworded \subseteq Addresses
    /\ None \notin Browsers \cup Waiters \cup Addresses /\ Browsers \cap Waiters = {}

VARIABLES
    browser,     \* what each session knows
    asks,        \* what the transaction is for: a browser, a waitlist entry, or None
    guestOf,     \* the guest of each reservation that the website made
    accounts,    \* the addresses with a guest account
    waitlist     \* waitlist entries

webVars == <<browser, asks, guestOf, accounts, waitlist>>

-----------------------------------------------------------------------------

\* pending_quote_booking, booking_request_data (`verifying`, its quote) with the wrong
\* codes so far, whether the code has expired, and whether the visitor is signed in.
SessionRow == [pending : Quotes \cup {None}, verifying : Quotes \cup {None},
               tries : 0 .. MaxAttempts, late : BOOLEAN, in : BOOLEAN]

\* `missed`: offered, and the offer has run out.  Nothing marks it expired.
WaitlistEntry == [status : {"none", "waiting", "offered", "missed", "converted"},
                  stay : Stays \cup {None}, resv : Resv \cup {None}]

WebTypeOK ==
    /\ TypeOK
    /\ browser \in [Browsers -> SessionRow]
    /\ asks \in [Txns -> Browsers \cup Waiters \cup {None}]
    /\ guestOf \in [Resv -> Addresses \cup {None}]
    /\ accounts \in SUBSET Addresses
    /\ waitlist \in [Waiters -> WaitlistEntry]

WebInit ==
    /\ Init
    /\ browser \in [Browsers -> {[pending |-> None, verifying |-> None, tries |-> 0,
                                  late |-> FALSE, in |-> i] : i \in BOOLEAN}]
    /\ asks = [t \in Txns |-> None]
    /\ guestOf = [r \in Resv |-> None]
    /\ accounts = Passworded \cup {AddressOf[b] : b \in {c \in Browsers : browser[c].in}}
    /\ waitlist = [w \in Waiters |-> [status |-> "none", stay |-> None, resv |-> None]]

\* No request of the browser, or for the entry, is under way.
Free(x) == \A t \in Txns : asks[t] # x

Asks(t, x) == asks' = [asks EXCEPT ![t] = x]

\* clear_booking_verification
Cleared(session) == [session EXCEPT !.verifying = None, !.tries = 0, !.late = FALSE]

\* release_quote: a quote that is decided stays as it is.
Release(q) ==
    \/ ReleaseQuote(q)
    \/ QuoteFree(q) /\ quote[q].status # "active" /\ UNCHANGED vars

-----------------------------------------------------------------------------
(* The booking pages *)

\* BookingRequestForm.clean looks at the calendar without a lock, and does not look at the
\* holds; create_quote looks again behind the lock.
BookingRequestForm(rm, s) ==
    /\ rm \notin closed
    /\ today <= s.in /\ s.in < s.out
    /\ \A r \in Resv : ~Occupies(r, rm, s)
    /\ \A k \in Blocks : ~Bars(k, rm, s)

\* room_detail
RoomDetail(b, t, q, rm, s) ==
    /\ Free(b) /\ Asks(t, b)
    /\ BookingRequestForm(rm, s)
    /\ BeginQuote(t, q, rm, s)
    /\ UNCHANGED <<browser, guestOf, accounts, waitlist>>

SessionStep == UNCHANGED <<asks, guestOf, accounts, waitlist>>

\* public_quote_confirm: the visitor cancels, or is too late.
LeaveQuote(b) ==
    LET q == browser[b].pending IN
    /\ Free(b) /\ q # None
    /\ Release(q)
    /\ browser' = [browser EXCEPT ![b].pending = None]
    /\ SessionStep

Confirms(b) ==
    LET q == browser[b].pending IN
    Free(b) /\ q # None /\ quote[q].status = "active" /\ q \notin lapsed

\* Mutant: the quote stays in pending_quote_booking, where it can be cancelled.
Mut_SendCode(b) ==
    /\ Confirms(b) /\ ~browser[b].in
    /\ browser' = [browser EXCEPT ![b] = [Cleared(@) EXCEPT !.verifying = browser[b].pending]]
    /\ SessionStep /\ UNCHANGED vars
\* begin_booking_verification, and the mail is on its way.
SendCode(b) ==
    /\ Confirms(b) /\ ~browser[b].in
    /\ browser' = [browser EXCEPT ![b] = [Cleared(@) EXCEPT !.verifying = browser[b].pending,
                                                            !.pending = None]]
    /\ SessionStep /\ UNCHANGED vars

\* Too many requests for a code, or the mail fails: then there is no verification at all.
RefuseCode(b) ==
    /\ Confirms(b) /\ ~browser[b].in
    /\ Release(browser[b].pending)
    /\ \/ UNCHANGED browser
       \/ browser' = [browser EXCEPT ![b] = Cleared(@)]
    /\ SessionStep

\* A visitor who is signed in confirms.
ConfirmSignedIn(b, t, r) ==
    /\ Confirms(b) /\ browser[b].in
    /\ BeginConvert(t, browser[b].pending, r) /\ Asks(t, b)
    /\ UNCHANGED <<browser, guestOf, accounts, waitlist>>

\* portal_verify_booking: another code is sent; when that fails the old one stays.
ResendCode(b) ==
    /\ Free(b) /\ browser[b].verifying # None
    /\ browser' = [browser EXCEPT ![b].tries = 0, ![b].late = FALSE]
    /\ SessionStep /\ UNCHANGED vars

\* check_booking_verification finds a code that has expired, or one wrong code too many:
\* the verification ends, and the quote with it.
EndVerification(b) ==
    LET q == browser[b].verifying IN
    /\ Free(b) /\ q # None
    /\ browser[b].late \/ browser[b].tries + 1 = MaxAttempts
    /\ Release(q)
    /\ browser' = [browser EXCEPT ![b] = Cleared(@)]
    /\ SessionStep

WrongCode(b) ==
    /\ Free(b) /\ browser[b].verifying # None
    /\ ~browser[b].late /\ browser[b].tries + 1 < MaxAttempts
    /\ browser' = [browser EXCEPT ![b].tries = @ + 1]
    /\ SessionStep /\ UNCHANGED vars

RightCode(b) ==
    Free(b) /\ browser[b].verifying # None /\ ~browser[b].late

\* portal_verify_booking with the right code.
VerifyBooking(b, t, r) ==
    /\ RightCode(b)
    /\ BeginConvert(t, browser[b].verifying, r) /\ Asks(t, b)
    /\ UNCHANGED <<browser, guestOf, accounts, waitlist>>

\* The right code, and convert_quote refuses: the new account remains.
VerifyTooLate(b) ==
    LET q == browser[b].verifying IN
    /\ RightCode(b) /\ QuoteFree(q)
    /\ \/ quote[q].status # "active" \/ q \in lapsed \/ ~PromotionOpen(q)
       \/ ~ValidStay(quote[q].room, quote[q].stay, None, q, FALSE)
    /\ browser' = [browser EXCEPT ![b] = Cleared(@)]
    /\ accounts' = accounts \cup {AddressOf[b]}
    /\ UNCHANGED vars /\ UNCHANGED <<asks, guestOf, waitlist>>

\* The code is sent after the quote was made, and both are good for ten minutes.
CodeLapses(b) ==
    /\ browser[b].verifying \in lapsed /\ ~browser[b].late
    /\ browser' = [browser EXCEPT ![b].late = TRUE]
    /\ SessionStep /\ UNCHANGED vars

\* The session after the transaction: the new quote, or no quote any more; whoever has
\* proven his address and has a password is signed in.
Saved(b, t) ==
    LET q == txn[t].quote
        session == browser[b]
    IN  IF txn[t].kind = "quote" THEN [session EXCEPT !.pending = q]
        ELSE IF session.pending = q THEN [session EXCEPT !.pending = None]
        ELSE [Cleared(session) EXCEPT !.in = @ \/ AddressOf[b] \in Passworded]

\* The end of a request, with the session saved or lost.
WebCommit(b, t) ==
    /\ asks[t] = b /\ Asks(t, None)
    /\ \/ CommitQuote(t) /\ UNCHANGED <<guestOf, accounts>>
       \/ /\ CommitConvert(t)
          /\ guestOf' = [guestOf EXCEPT ![txn[t].res] = AddressOf[b]]
          /\ accounts' = accounts \cup {AddressOf[b]}
    /\ browser' = [browser EXCEPT ![b] = Saved(b, t)] \/ UNCHANGED browser
    /\ UNCHANGED waitlist

-----------------------------------------------------------------------------
(* The waitlist *)

WaitStep == UNCHANGED <<browser, guestOf, accounts>>

JoinWaitlist(w, s) ==
    /\ waitlist[w].status = "none"
    /\ waitlist' = [waitlist EXCEPT ![w].status = "waiting", ![w].stay = s]
    /\ WaitStep /\ UNCHANGED asks /\ UNCHANGED vars

\* offer_waitlist_entry
OfferWaitlist(w) ==
    /\ waitlist[w].status = "waiting"
    /\ waitlist' = [waitlist EXCEPT ![w].status = "offered"]
    /\ WaitStep /\ UNCHANGED asks /\ UNCHANGED vars

OfferLapses(w) ==
    /\ waitlist[w].status = "offered"
    /\ waitlist' = [waitlist EXCEPT ![w].status = "missed"]
    /\ WaitStep /\ UNCHANGED asks /\ UNCHANGED vars

\* convert_waitlist_entry, through create_reservation.
ConvertWaitlist(w, t, r, rm) ==
    /\ Free(w) /\ Asks(t, w)
    /\ waitlist[w].status = "offered"
    /\ BeginCreate(t, r, rm, waitlist[w].stay)
    /\ WaitStep /\ UNCHANGED waitlist

WaitlistCommit(w, t) ==
    /\ asks[t] = w /\ Asks(t, None)
    /\ CommitCreate(t)
    /\ waitlist' = [waitlist EXCEPT ![w].status = "converted", ![w].resv = txn[t].res]
    /\ WaitStep

-----------------------------------------------------------------------------
(* The desk, the API and the jobs: every command of Reservations but release_quote, *)
(* which only the website calls.                                                    *)

WebRollback(t) ==
    Rollback(t) /\ Asks(t, None) /\ UNCHANGED <<browser, guestOf, accounts, waitlist>>

DeskCommit(t) == asks[t] = None /\ Commit(t) /\ UNCHANGED webVars

\* ReservationViewSet, and the pages for reservations of the portal
ReservationViewSet(t) ==
    \/ \E r \in Resv, rm \in Rooms, s \in Stays : BeginCreate(t, r, rm, s)
    \/ \E r \in Resv, a \in Actions : BeginTransition(t, r, a)
    \/ \E r \in Resv, rm \in Rooms : BeginMove(t, r, rm)
    \/ \E r \in Resv, s \in Stays : BeginAmend(t, r, s)

BookingQuoteViewSet(t) ==
    \/ \E q \in Quotes, rm \in Rooms, s \in Stays : BeginQuote(t, q, rm, s)
    \/ \E q \in Quotes, r \in Resv : BeginConvert(t, q, r)

\* portal_rooms and InventoryBlockViewSet
PortalRooms(t) == \E b \in Blocks, rm \in Rooms, s \in Stays : BeginBlock(t, b, rm, s)

\* portal_room_delete; portal_room_edit does that and the opposite.
PortalRoomDelete(rm) == rm \notin closed /\ SetSellable(rm)
PortalRoomEdit(rm) == SetSellable(rm)

\* public_rooms expires stale holds before it lists rooms.
PublicRooms(v) == Sweep(v) \/ SweepDies(v)

Desk ==
    /\ \/ \E t \in Txns : /\ asks[t] = None
                          /\ ReservationViewSet(t) \/ BookingQuoteViewSet(t) \/ PortalRooms(t)
                          /\ txn'[t].kind \in DeskKinds
       \/ \E q \in Quotes : Lapse(q)
       \/ \E b \in Blocks : ReleaseBlock(b)
       \/ \E rm \in Closable : PortalRoomEdit(rm) \/ PortalRoomDelete(rm)
       \/ Sweep(Job)
       \/ \E v \in Viewers : PublicRooms(v)
       \/ Midnight
    /\ UNCHANGED webVars

WebNext ==
    \/ \E b \in Browsers :
          \/ LeaveQuote(b) \/ SendCode(b) \/ RefuseCode(b) \/ ResendCode(b)
          \/ EndVerification(b) \/ WrongCode(b) \/ VerifyTooLate(b) \/ CodeLapses(b)
          \/ \E t \in Txns :
                \/ \E q \in Quotes, rm \in Rooms, s \in Stays : RoomDetail(b, t, q, rm, s)
                \/ \E r \in Resv : ConfirmSignedIn(b, t, r) \/ VerifyBooking(b, t, r)
                \/ WebCommit(b, t)
    \/ \E w \in Waiters :
          \/ OfferWaitlist(w) \/ OfferLapses(w)
          \/ \E s \in Stays : JoinWaitlist(w, s)
          \/ \E t \in Txns :
                \/ \E r \in Resv, rm \in Rooms : ConvertWaitlist(w, t, r, rm)
                \/ WaitlistCommit(w, t)
    \/ \E t \in Txns : WebRollback(t) \/ DeskCommit(t)
    \/ Desk

allVars == <<vars, webVars>>

WebSpec == WebInit /\ [][WebNext]_allVars

\* Every request ends, whoever made it.
RequestEnds(t) ==
    \/ DeskCommit(t) \/ WebRollback(t)
    \/ \E b \in Browsers : WebCommit(b, t)
    \/ \E w \in Waiters : WaitlistCommit(w, t)

\* A statement of the job waits for row locks only, and the database ends every
\* transaction: the job is scheduled every few minutes and its lock is recovered.
WebFairSpec ==
    /\ WebSpec
    /\ WF_allVars(Sweep(Job) /\ UNCHANGED webVars)
    /\ \A t \in Txns : WF_allVars(RequestEnds(t))

-----------------------------------------------------------------------------
(* Properties *)

\* Whoever is asked for a code still has the room he was quoted: until his ten minutes
\* are over the quote is neither released nor expired, and when it has been converted
\* (in a request whose session was lost, or by the staff) no other visitor has it.
AskedHasRoom ==
    \A b \in Browsers :
        LET q == browser[b].verifying IN
        (q # None /\ q \notin lapsed) =>
            \/ quote[q].status = "active"
            \/ /\ quote[q].status = "converted"
               /\ guestOf[quote[q].resv] \in {AddressOf[b], None}
=============================================================================
