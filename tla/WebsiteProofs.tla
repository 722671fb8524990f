---------------------------- MODULE WebsiteProofs ----------------------------
(***************************************************************************)
(* Theorems about Website: it asks for commands of Reservations and for    *)
(* nothing else, so what is proved of those holds here; and a visitor who  *)
(* is asked for a code keeps his room.                                     *)
(***************************************************************************)
EXTENDS Website, ReservationsProofs

-----------------------------------------------------------------------------
(* What sessions and waitlist entries refer to exists. *)

SessionsTyped ==
    /\ browser \in [Browsers -> SessionRow]
    /\ waitlist \in [Waiters -> WaitlistEntry]
    /\ \A w \in Waiters : waitlist[w].status # "none" => waitlist[w].stay \in Stays
    /\ asks \in [Txns -> Browsers \cup Waiters \cup {None}]
    /\ \A t \in Txns : asks[t] \in Waiters => waitlist[asks[t]].status # "none"

\* Every step of the website is a step of the services, or none.
LEMMA StepOfServices ==
    ASSUME IInv, SessionsTyped, [WebNext]_allVars
    PROVE  [Next]_vars
<1> USE DEF SessionsTyped
<1>1. \A b \in Browsers : /\ browser[b].pending # None => browser[b].pending \in Quotes
                          /\ browser[b].verifying # None => browser[b].verifying \in Quotes
  BY DEF SessionRow
<1>2. ASSUME NEW q \in Quotes, Release(q) PROVE [Next]_vars
  BY <1>2 DEF Release, Next
<1>3. ASSUME NEW t \in Txns, Begin(t) \/ Commit(t) \/ Rollback(t) PROVE [Next]_vars
  BY <1>3 DEF Next
<1>4. ASSUME NEW b \in Browsers,
             \/ LeaveQuote(b) \/ SendCode(b) \/ RefuseCode(b) \/ ResendCode(b)
             \/ EndVerification(b) \/ WrongCode(b) \/ VerifyTooLate(b) \/ CodeLapses(b)
      PROVE  [Next]_vars
  BY <1>1, <1>2, <1>4 DEF LeaveQuote, SendCode, RefuseCode, Confirms, ResendCode, EndVerification,
                          WrongCode, VerifyTooLate, CodeLapses
<1>5. ASSUME NEW b \in Browsers, NEW t \in Txns,
             \/ \E q \in Quotes, rm \in Rooms, s \in Stays : RoomDetail(b, t, q, rm, s)
             \/ \E r \in Resv : ConfirmSignedIn(b, t, r) \/ VerifyBooking(b, t, r)
             \/ WebCommit(b, t)
      PROVE  [Next]_vars
  BY <1>1, <1>3, <1>5 DEF RoomDetail, ConfirmSignedIn, VerifyBooking, Confirms, RightCode, WebCommit,
                          Begin, Commit
<1>6. ASSUME NEW w \in Waiters,
             \/ OfferWaitlist(w) \/ OfferLapses(w)
             \/ \E s \in Stays : JoinWaitlist(w, s)
      PROVE  [Next]_vars
  BY <1>6 DEF OfferWaitlist, OfferLapses, JoinWaitlist
<1>7. ASSUME NEW w \in Waiters, NEW t \in Txns,
             \/ \E r \in Resv, rm \in Rooms : ConvertWaitlist(w, t, r, rm)
             \/ WaitlistCommit(w, t)
      PROVE  [Next]_vars
  BY <1>3, <1>7 DEF ConvertWaitlist, WaitlistCommit, Begin, Commit
<1>8. ASSUME NEW t \in Txns, WebRollback(t) \/ DeskCommit(t) PROVE [Next]_vars
  BY <1>3, <1>8 DEF WebRollback, DeskCommit
<1>9. ASSUME Desk PROVE [Next]_vars
  BY <1>3, <1>9 DEF Desk, ReservationViewSet, BookingQuoteViewSet, PortalRooms, PortalRoomEdit,
                    PortalRoomDelete, PublicRooms, Sweepers, Begin, Next
<1>10. CASE UNCHANGED allVars
  BY <1>10 DEF allVars
<1> QED BY <1>4, <1>5, <1>6, <1>7, <1>8, <1>9, <1>10 DEF WebNext

LEMMA SessionFields ==
    ASSUME NEW session \in SessionRow, NEW q \in Quotes \cup {None},
           NEW n \in 0 .. MaxAttempts, NEW l \in BOOLEAN, NEW i \in BOOLEAN
    PROVE  /\ [session EXCEPT !.pending = q] \in SessionRow
           /\ [session EXCEPT !.verifying = q] \in SessionRow
           /\ [session EXCEPT !.tries = n] \in SessionRow
           /\ [session EXCEPT !.late = l] \in SessionRow
           /\ [session EXCEPT !.in = i] \in SessionRow
           /\ [session EXCEPT !.tries = n, !.late = l] \in SessionRow
           /\ [session EXCEPT !.verifying = q, !.pending = None] \in SessionRow
           /\ [session EXCEPT !.verifying = q, !.tries = n, !.late = l] \in SessionRow
  BY DEF SessionRow

LEMMA ClearedTyped ==
    ASSUME NEW session \in SessionRow
    PROVE  Cleared(session) \in SessionRow
<1>1. 0 \in 0 .. MaxAttempts
  BY WebAssumption
<1> QED BY <1>1, SessionFields DEF Cleared

\* A session refers to quotes that are rows, and so does what it is saved as.
LEMMA SavedTyped ==
    ASSUME IInv, SessionsTyped, NEW b \in Browsers, NEW t \in Txns,
           txn[t].kind = "quote" => txn[t].quote \in Quotes
    PROVE  Saved(b, t) \in SessionRow
<1>1. browser[b] \in SessionRow /\ 0 \in 0 .. MaxAttempts
  BY WebAssumption DEF SessionsTyped
<1>2. txn[t].kind = "quote" => [browser[b] EXCEPT !.pending = txn[t].quote] \in SessionRow
  BY <1>1, SessionFields
<1>3. [browser[b] EXCEPT !.pending = None] \in SessionRow
  BY <1>1, SessionFields
<1>4. ASSUME NEW i \in BOOLEAN PROVE [Cleared(browser[b]) EXCEPT !.in = i] \in SessionRow
  <2>1. Cleared(browser[b]) \in SessionRow
    BY <1>1, ClearedTyped
  <2> QED BY <1>1, <2>1, SessionFields
<1>5. [Cleared(browser[b]) EXCEPT !.in = @ \/ AddressOf[b] \in Passworded] \in SessionRow
  <2> DEFINE i == Cleared(browser[b]).in \/ AddressOf[b] \in Passworded
  <2>1. i \in BOOLEAN
    OBVIOUS
  <2> HIDE DEF i
  <2>2. [Cleared(browser[b]) EXCEPT !.in = i] \in SessionRow
    BY <1>4, <2>1
  <2> QED BY <2>2, Zenon DEF i
<1> QED BY <1>2, <1>3, <1>5 DEF Saved

LEMMA SessionsStep ==
    ASSUME IInv, SessionsTyped, [WebNext]_allVars
    PROVE  SessionsTyped'
<1> USE DEF SessionsTyped
<1>1. \A b \in Browsers : Cleared(browser[b]) \in SessionRow
  BY ClearedTyped
<1>2. ASSUME NEW b \in Browsers,
             \/ LeaveQuote(b) \/ SendCode(b) \/ RefuseCode(b) \/ ResendCode(b)
             \/ EndVerification(b) \/ WrongCode(b) \/ VerifyTooLate(b) \/ CodeLapses(b)
      PROVE  SessionsTyped'
  <2>1. UNCHANGED <<asks, waitlist>>
    BY <1>2 DEF LeaveQuote, SendCode, RefuseCode, ResendCode, EndVerification, WrongCode,
                VerifyTooLate, CodeLapses, SessionStep
  <2>2. \/ UNCHANGED browser
        \/ \E session \in SessionRow : browser' = [browser EXCEPT ![b] = session]
    <3>1. /\ browser[b] \in SessionRow /\ Cleared(browser[b]) \in SessionRow
          /\ 0 \in 0 .. MaxAttempts
      BY <1>1, WebAssumption
    <3>2. CASE LeaveQuote(b)
      BY <3>1, <3>2, SessionFields DEF LeaveQuote
    <3>3. CASE ResendCode(b) \/ CodeLapses(b)
      BY <3>1, <3>3, SessionFields DEF ResendCode, CodeLapses
    <3>4. CASE SendCode(b)
      <4>1. browser[b].pending \in Quotes \cup {None}
        BY <3>1 DEF SessionRow
      <4> QED BY <3>1, <3>4, <4>1, SessionFields DEF SendCode
    <3>5. CASE RefuseCode(b) \/ EndVerification(b) \/ VerifyTooLate(b)
      BY <3>1, <3>5 DEF RefuseCode, EndVerification, VerifyTooLate
    <3>6. CASE WrongCode(b)
      <4>1. browser[b].tries + 1 \in 0 .. MaxAttempts
        BY <3>1, <3>6, WebAssumption DEF WrongCode, SessionRow
      <4> QED BY <3>1, <3>6, <4>1, SessionFields DEF WrongCode
    <3> QED BY <1>2, <3>2, <3>3, <3>4, <3>5, <3>6
  <2> QED BY <2>1, <2>2
<1>3. ASSUME NEW b \in Browsers, NEW t \in Txns,
             \/ \E q \in Quotes, rm \in Rooms, s \in Stays : RoomDetail(b, t, q, rm, s)
             \/ \E r \in Resv : ConfirmSignedIn(b, t, r) \/ VerifyBooking(b, t, r)
      PROVE  SessionsTyped'
  BY <1>3, WebAssumption DEF RoomDetail, ConfirmSignedIn, VerifyBooking, Asks
<1>4. ASSUME NEW b \in Browsers, NEW t \in Txns, WebCommit(b, t) PROVE SessionsTyped'
  <2>1. Saved(b, t) \in SessionRow
    BY <1>4, SavedTyped DEF IInv, TypeInv, Shape
  <2> QED BY <1>4, <2>1, WebAssumption DEF WebCommit, Asks
<1>5. ASSUME NEW w \in Waiters,
             \/ OfferWaitlist(w) \/ OfferLapses(w)
             \/ \E s \in Stays : JoinWaitlist(w, s)
      PROVE  SessionsTyped'
  <2>1. UNCHANGED <<browser, asks>>
    BY <1>5 DEF OfferWaitlist, OfferLapses, JoinWaitlist, WaitStep
  <2>2. PICK old \in WaitlistEntry : old = waitlist[w]
    OBVIOUS
  <2>3. PICK entry \in WaitlistEntry :
            /\ waitlist' = [waitlist EXCEPT ![w] = entry]
            /\ entry.status # "none" /\ entry.stay \in Stays
    <3>1. CASE OfferWaitlist(w) \/ OfferLapses(w)
      <4>1. old.status # "none" /\ old.stay \in Stays
        BY <2>2, <3>1 DEF OfferWaitlist, OfferLapses
      <4>2. PICK status \in {"offered", "missed"} :
                waitlist' = [waitlist EXCEPT ![w] = [old EXCEPT !.status = status]]
        BY <2>2, <3>1 DEF OfferWaitlist, OfferLapses
      <4> DEFINE entry == [old EXCEPT !.status = status]
      <4>3. entry \in WaitlistEntry /\ entry.status # "none" /\ entry.stay \in Stays
        BY <2>2, <4>1 DEF WaitlistEntry
      <4> QED BY <4>2, <4>3
    <3>2. ASSUME NEW s \in Stays, JoinWaitlist(w, s)
          PROVE  \E entry \in WaitlistEntry :
                    /\ waitlist' = [waitlist EXCEPT ![w] = entry]
                    /\ entry.status # "none" /\ entry.stay \in Stays
      <4> DEFINE entry == [old EXCEPT !.status = "waiting", !.stay = s]
      <4>1. waitlist' = [waitlist EXCEPT ![w] = entry]
        BY <2>2, <3>2 DEF JoinWaitlist
      <4>2. entry \in WaitlistEntry /\ entry.status # "none" /\ entry.stay \in Stays
        BY <2>2 DEF WaitlistEntry
      <4> QED BY <4>1, <4>2
    <3> QED BY <1>5, <3>1, <3>2
  <2> QED BY <2>1, <2>3
<1>6. ASSUME NEW w \in Waiters, NEW t \in Txns,
             \/ \E r \in Resv, rm \in Rooms : ConvertWaitlist(w, t, r, rm)
             \/ WaitlistCommit(w, t)
      PROVE  SessionsTyped'
  <2>1. CASE \E r \in Resv, rm \in Rooms : ConvertWaitlist(w, t, r, rm)
    BY <2>1 DEF ConvertWaitlist, WaitStep, Asks
  <2>2. CASE WaitlistCommit(w, t)
    <3>1. /\ txn[t].res \in Resv /\ waitlist[w] \in WaitlistEntry
          /\ waitlist[w].status # "none" /\ waitlist[w].stay \in Stays
      BY <2>2 DEF WaitlistCommit, CommitCreate, Close, IInv, TypeInv, Shape, OnReservation
    <3>2. asks' = [asks EXCEPT ![t] = None] /\ UNCHANGED browser
      BY <2>2 DEF WaitlistCommit, WaitStep, Asks
    <3> DEFINE entry == [waitlist[w] EXCEPT !.status = "converted", !.resv = txn[t].res]
    <3>3. entry \in WaitlistEntry /\ entry.stay = waitlist[w].stay /\ entry.status = "converted"
      BY <3>1 DEF WaitlistEntry
    <3>4. waitlist' = [waitlist EXCEPT ![w] = entry]
      BY <2>2 DEF WaitlistCommit
    <3> HIDE DEF entry
    <3> QED BY <3>1, <3>2, <3>3, <3>4, WebAssumption
  <2> QED BY <1>6, <2>1, <2>2
<1>7. ASSUME NEW t \in Txns, WebRollback(t) \/ DeskCommit(t) PROVE SessionsTyped'
  BY <1>7, WebAssumption DEF WebRollback, DeskCommit, Asks, webVars
<1>8. CASE Desk \/ UNCHANGED allVars
  BY <1>8 DEF Desk, webVars, allVars
<1> QED BY <1>2, <1>3, <1>4, <1>5, <1>6, <1>7, <1>8 DEF WebNext

LEMMA SessionsStart == WebInit => SessionsTyped
<1> SUFFICES ASSUME WebInit PROVE SessionsTyped
  OBVIOUS
<1>1. \A i \in BOOLEAN : [pending |-> None, verifying |-> None, tries |-> 0, late |-> FALSE,
                         in |-> i] \in SessionRow
  BY WebAssumption DEF SessionRow
<1>2. browser \in [Browsers -> SessionRow]
  BY <1>1 DEF WebInit
<1> QED BY <1>2, WebAssumption DEF WebInit, SessionsTyped, WaitlistEntry

\* The website, the waitlist, the desk and the API do nothing to rooms and quotes but
\* what the services do.
THEOREM WebsiteUsesServices == WebSpec => Spec
<1>1. WebInit => Init
  BY DEF WebInit
<1>2. IInv /\ SessionsTyped /\ [WebNext]_allVars => IInv' /\ SessionsTyped' /\ [Next]_vars
  BY StepOfServices, SessionsStep, Inductive
<1> QED BY <1>1, <1>2, Initially, SessionsStart, PTL DEF WebSpec, Spec
-----------------------------------------------------------------------------
(* Rows stay, and a valid quote is ended only by its release or conversion. *)

\* A converted quote has its reservation.
ConversionKept ==
    \A q \in Quotes : quote[q].status = "converted" =>
        quote[q].resv \in Resv /\ res[quote[q].resv].status # "none"

LEMMA RowsStay ==
    ASSUME IInv, [Next]_vars
    PROVE  /\ lapsed \subseteq lapsed'
           /\ \A r \in Resv : res[r].status # "none" => res'[r].status # "none"
<1> USE DEF IInv
<1>1. ASSUME NEW t \in Txns, Commit(t), NEW r \in Resv, res[r].status # "none"
      PROVE  res'[r].status # "none"
  <2>1. CASE res' = res
    BY <1>1, <2>1
  <2>2. CASE CommitCreate(t) \/ CommitConvert(t)
    <3>1. txn[t].res # r
      BY <1>1, <2>2 DEF CommitCreate, CommitConvert, Close, AllReady, Ready
    <3> QED BY <1>1, <2>2, <3>1 DEF CommitCreate, CommitConvert, TypeInv, TypeOK
  <2>3. CASE CommitTransition(t)
    <3>1. txn[t].kind \in Actions /\ NextStatus[txn[t].kind] # "none"
      BY <2>3 DEF CommitTransition, Close, Actions, NextStatus
    <3>2. res' = [res EXCEPT ![txn[t].res].status = NextStatus[txn[t].kind]]
      BY <2>3 DEF CommitTransition
    <3>3. res \in [Resv -> ReservationRow]
      BY DEF TypeInv, TypeOK
    <3> QED BY <1>1, <3>1, <3>2, <3>3 DEF ReservationRow
  <2>4. CASE CommitMove(t) \/ CommitAmend(t)
    <3>1. res \in [Resv -> ReservationRow]
      BY DEF TypeInv, TypeOK
    <3> QED BY <1>1, <2>4, <3>1 DEF CommitMove, CommitAmend, ReservationRow
  <2> QED BY <1>1, <2>1, <2>2, <2>3, <2>4 DEF Commit, CommitQuote, CommitBlock
<1>2. (\E t \in Txns : Commit(t)) \/ UNCHANGED res
  BY BeginOpens
  DEF Next, Open, Rollback, ReleaseQuote, Lapse, ReleaseBlock, SetSellable, Sweep, SweepRead,
      SweepHolds, SweepQuotes, SweepDies, Midnight, vars
<1>3. lapsed \subseteq lapsed'
  BY BeginOpens
  DEF Next, Commit, Open, CommitCreate, CommitQuote, CommitConvert, CommitTransition, CommitMove,
      CommitAmend, CommitBlock, Rollback, ReleaseQuote, Lapse, ReleaseBlock, SetSellable, Sweep,
      SweepRead, SweepHolds, SweepQuotes, SweepDies, Midnight, vars
<1> QED BY <1>1, <1>2, <1>3

\* The steps of Next by what they do to quotes.
QuietStep ==
    \/ \E t \in Txns : \/ Begin(t) \/ Rollback(t) \/ CommitCreate(t) \/ CommitQuote(t)
                       \/ CommitTransition(t) \/ CommitMove(t) \/ CommitAmend(t) \/ CommitBlock(t)
    \/ \E q \in Quotes : Lapse(q)
    \/ \E b \in Blocks : ReleaseBlock(b)
    \/ \E rm \in Rooms : SetSellable(rm)
    \/ \E p \in Sweepers : Sweep(p) \/ SweepDies(p)
    \/ Midnight
    \/ UNCHANGED vars

\* The quote of a commit of create_quote, and a quote that expires.
LEMMA QuietQuotes ==
    ASSUME IInv, QInv, QuietStep, NEW q \in Quotes
    PROVE  \/ quote'[q] = quote[q]
           \/ quote[q].status = "none" /\ quote'[q].status = "active"
           \/ q \in lapsed /\ quote[q].status = "active" /\ quote'[q].status = "expired"
<1> USE DEF IInv, QInv
<1>1. quote[q] \in QuoteRow /\ [quote[q] EXCEPT !.status = "expired"].status = "expired"
  BY DEF TypeInv, TypeOK, QuoteRow
<1>2. ASSUME NEW t \in Txns, CommitQuote(t)
      PROVE  \/ quote'[q] = quote[q]
             \/ quote[q].status = "none" /\ quote'[q].status = "active"
             \/ q \in lapsed /\ quote[q].status = "active" /\ quote'[q].status = "expired"
  <2>1. quote[txn[t].quote].status = "none" /\ txn[t].stale \subseteq lapsed
    BY <1>2 DEF CommitQuote, Close, AllReady, Ready, StaleLapsed
  <2>2. CASE q = txn[t].quote
    BY <1>2, <2>1, <2>2, ExpiryUpdates DEF CommitQuote, TypeInv
  <2>3. CASE q # txn[t].quote
    <3>1. quote'[q] = ExpireQuotes(txn[t].stale)[q]
      BY <1>2, <2>3, ExpiryUpdates DEF CommitQuote, TypeInv
    <3> QED BY <1>1, <2>1, <3>1 DEF ExpireQuotes
  <2> QED BY <2>2, <2>3
<1>3. ASSUME NEW p \in Sweepers, SweepQuotes(p)
      PROVE  \/ quote'[q] = quote[q]
             \/ q \in lapsed /\ quote[q].status = "active" /\ quote'[q].status = "expired"
  BY <1>1, <1>3 DEF SweepQuotes, ExpireQuotes, StaleLapsed
<1>4. \/ \E t \in Txns : CommitQuote(t)
      \/ \E p \in Sweepers : SweepQuotes(p)
      \/ UNCHANGED quote
  BY BeginOpens
  DEF QuietStep, Open, CommitCreate, CommitTransition, CommitMove, CommitAmend, CommitBlock,
      Rollback, Lapse, ReleaseBlock, SetSellable, Sweep, SweepRead, SweepHolds, SweepDies,
      Midnight, vars
<1> QED BY <1>2, <1>3, <1>4

\* A conversion takes an active quote and a new reservation.
LEMMA ConvertQuotes ==
    ASSUME IInv, NEW t \in Txns, CommitConvert(t)
    PROVE  /\ txn[t].quote \in Quotes /\ txn[t].res \in Resv
           /\ quote[txn[t].quote].status = "active" /\ res[txn[t].res].status = "none"
           /\ quote'[txn[t].quote].status = "converted" /\ quote'[txn[t].quote].resv = txn[t].res
           /\ \A q \in Quotes \ {txn[t].quote} : quote'[q] = quote[q]
           /\ \A r \in Resv \ {txn[t].res} : res'[r] = res[r]
           /\ res'[txn[t].res].status = "pending"
<1>1. /\ txn[t].kind = "convert" /\ txn[t].quote \in Quotes /\ txn[t].res \in Resv
      /\ quote[txn[t].quote].status = "active" /\ quote[txn[t].quote] \in QuoteRow
      /\ res[txn[t].res].status = "none"
  BY DEF CommitConvert, Close, IInv, TypeInv, TypeOK, Shape, OnReservation, AllReady, Ready
<1>2. res' = [res EXCEPT ![txn[t].res] = NewReservation(txn[t])]
  BY DEF CommitConvert
<1>3. \A q \in Quotes \ {txn[t].quote} : quote'[q] = quote[q]
  BY DEF CommitConvert, IInv, TypeInv, TypeOK
<1>4. /\ quote'[txn[t].quote].status = "converted"
      /\ quote'[txn[t].quote].resv = txn[t].res
  BY <1>1 DEF CommitConvert, IInv, TypeInv, TypeOK, QuoteRow
<1>5. res \in [Resv -> ReservationRow]
  BY DEF IInv, TypeInv, TypeOK
<1> QED BY <1>1, <1>2, <1>3, <1>4, <1>5 DEF NewReservation

LEMMA StepOfQuotes ==
    ASSUME [Next]_vars
    PROVE  \/ QuietStep
           \/ \E q \in Quotes : ReleaseQuote(q)
           \/ \E t \in Txns : CommitConvert(t)
  BY SubsetAssumption DEF Next, QuietStep, Commit, Sweepers

LEMMA ReleasedQuote ==
    ASSUME IInv, NEW q \in Quotes, ReleaseQuote(q)
    PROVE  /\ quote'[q].status = "cancelled"
           /\ \A p \in Quotes \ {q} : quote'[p] = quote[p]
           /\ UNCHANGED <<res, lapsed, txn>>
<1>1. quote \in [Quotes -> QuoteRow]
  BY DEF IInv, TypeInv, TypeOK
<1> QED BY <1>1 DEF ReleaseQuote, QuoteRow

LEMMA ConversionStep ==
    ASSUME IInv, QInv, ConversionKept, [Next]_vars
    PROVE  ConversionKept' /\ \A q \in Quotes : quote[q].status # "none" => quote'[q].status # "none"
<1>1. \A r \in Resv : res[r].status # "none" => res'[r].status # "none"
  BY RowsStay
<1>2. CASE QuietStep
  BY <1>1, <1>2, QuietQuotes DEF ConversionKept
<1>3. ASSUME NEW q \in Quotes, ReleaseQuote(q)
      PROVE  ConversionKept' /\ \A p \in Quotes : quote[p].status # "none" => quote'[p].status # "none"
  BY <1>1, <1>3, ReleasedQuote DEF ConversionKept
<1>4. ASSUME NEW t \in Txns, CommitConvert(t)
      PROVE  ConversionKept' /\ \A p \in Quotes : quote[p].status # "none" => quote'[p].status # "none"
  BY <1>1, <1>4, ConvertQuotes DEF ConversionKept
<1> QED BY <1>2, <1>3, <1>4, StepOfQuotes

-----------------------------------------------------------------------------
(* Who knows a quote.  Each quote is known to one session, which asked for  *)
(* it, in one place of it; and a conversion that a session asked for takes  *)
(* a quote it knows.                                                        *)

Known(b) == {browser[b].pending, browser[b].verifying} \ {None}

Apart ==
    /\ \A a, b \in Browsers : a # b => Known(a) \cap Known(b) = {}
    /\ \A b \in Browsers : browser[b].pending = browser[b].verifying => browser[b].pending = None
KnownExist == \A b \in Browsers : \A q \in Known(b) : quote[q].status # "none"
OneRequest == \A t, u \in Txns : (t # u /\ asks[t] = asks[u]) => asks[t] = None
Mine ==
    \A t \in Txns : (asks[t] \in Browsers /\ txn[t].kind = "convert")
                     => txn[t].quote \in Known(asks[t])
GuestsLater ==
    DOMAIN guestOf = Resv /\ \A r \in Resv : res[r].status = "none" => guestOf[r] = None

WInv == Apart /\ KnownExist /\ OneRequest /\ Mine /\ GuestsLater /\ AskedHasRoom

All == IInv /\ QInv /\ ConversionKept /\ SessionsTyped /\ WInv

\* Steps of the services that no session is saved after.
LEMMA QuietKeeps ==
    ASSUME All, [Next]_vars, QuietStep, UNCHANGED <<browser, guestOf>>
    PROVE  Apart' /\ KnownExist' /\ GuestsLater' /\ AskedHasRoom'
<1> USE DEF All, WInv
<1>1. \A b \in Browsers : Known(b) \subseteq Quotes /\ Known(b)' = Known(b)
  BY DEF Known, SessionsTyped, SessionRow
<1>2. Apart' /\ KnownExist'
  BY <1>1, ConversionStep DEF Apart, KnownExist
<1>3. GuestsLater'
  BY RowsStay DEF GuestsLater
<1>4. AskedHasRoom'
  <2> SUFFICES ASSUME NEW b \in Browsers, browser[b].verifying # None,
                      browser[b].verifying \notin lapsed'
               PROVE  quote'[browser[b].verifying] = quote[browser[b].verifying]
    BY RowsStay DEF AskedHasRoom
  <2>1. browser[b].verifying \in Quotes \ lapsed
    BY RowsStay DEF SessionsTyped, SessionRow
  <2>2. quote[browser[b].verifying].status # "none"
    BY DEF KnownExist, Known
  <2> QED BY <2>1, <2>2, QuietQuotes
<1> QED BY <1>2, <1>3, <1>4

\* A conversion for the session that knows the quote, or for the staff.
LEMMA ConvertKeeps ==
    ASSUME All, [Next]_vars, NEW t \in Txns, CommitConvert(t),
           \A b \in Browsers : browser'[b].verifying \in {browser[b].verifying, None},
           \/ asks[t] = None /\ UNCHANGED guestOf
           \/ /\ asks[t] \in Browsers
              /\ guestOf' = [guestOf EXCEPT ![txn[t].res] = AddressOf[asks[t]]]
    PROVE  GuestsLater' /\ AskedHasRoom'
<1> USE DEF All, WInv
<1>1. /\ txn[t].kind = "convert" /\ txn[t].res \in Resv /\ res[txn[t].res].status = "none"
      /\ guestOf[txn[t].res] = None
      /\ res'[txn[t].res].status # "none"
      /\ DOMAIN guestOf' = Resv
      /\ \A r \in Resv \ {txn[t].res} : guestOf'[r] = guestOf[r]
  BY ConvertQuotes DEF CommitConvert, Close, GuestsLater
<1>2. GuestsLater'
  BY <1>1, RowsStay DEF GuestsLater
<1>3. AskedHasRoom'
  <2> SUFFICES ASSUME NEW b \in Browsers, NEW q, q = browser'[b].verifying, q # None,
                      q \notin lapsed'
               PROVE  \/ quote'[q].status = "active"
                      \/ /\ quote'[q].status = "converted"
                         /\ guestOf'[quote'[q].resv] \in {AddressOf[b], None}
    BY DEF AskedHasRoom
  <2>1. q \in Quotes \ lapsed /\ q \in Known(b) /\ q = browser[b].verifying
    BY RowsStay DEF SessionsTyped, SessionRow, Known
  <2>2. CASE q = txn[t].quote
    <3>1. quote'[q].status = "converted" /\ quote'[q].resv = txn[t].res
      BY <2>2, ConvertQuotes
    <3>2. CASE asks[t] = None /\ UNCHANGED guestOf
      BY <1>1, <3>1, <3>2
    <3>3. CASE /\ asks[t] \in Browsers
               /\ guestOf' = [guestOf EXCEPT ![txn[t].res] = AddressOf[asks[t]]]
      <4>1. asks[t] = b
        BY <1>1, <2>1, <2>2, <3>3 DEF Mine, Apart
      <4>2. guestOf'[txn[t].res] = AddressOf[b]
        BY <1>1, <3>3, <4>1 DEF GuestsLater
      <4> QED BY <3>1, <4>2
    <3> QED BY <3>2, <3>3
  <2>3. CASE q # txn[t].quote
    <3>1. quote'[q] = quote[q]
      BY <2>1, <2>3, ConvertQuotes
    <3>2. \/ quote[q].status = "active"
          \/ /\ quote[q].status = "converted"
             /\ guestOf[quote[q].resv] \in {AddressOf[b], None}
      BY <2>1 DEF AskedHasRoom
    <3>3. quote[q].status = "converted" => quote[q].resv \in Resv \ {txn[t].res}
      BY <1>1, <2>1 DEF ConversionKept
    <3> QED BY <1>1, <3>1, <3>2, <3>3
  <2> QED BY <2>2, <2>3
<1> QED BY <1>2, <1>3

\* What a step does to the requests when no session is saved.
LEMMA RequestsKeep ==
    ASSUME All, UNCHANGED browser, NEW t \in Txns,
           \/ asks' = asks
           \/ \E x : asks' = [asks EXCEPT ![t] = x] /\ (x = None \/ \A u \in Txns : asks[u] # x),
           \A u \in Txns : \/ txn'[u] = txn[u] /\ asks'[u] = asks[u]
                          \/ txn'[u].kind # "convert" \/ asks'[u] \notin Browsers
                          \/ txn'[u].quote \in Known(asks'[u])
    PROVE  OneRequest' /\ Mine'
<1>1. OneRequest'
  BY DEF All, WInv, OneRequest, SessionsTyped
<1>2. \A b \in Browsers : Known(b)' = Known(b)
  BY DEF Known
<1>3. Mine'
  BY <1>2 DEF All, WInv, Mine
<1> QED BY <1>1, <1>3

LEMMA BeginTxn ==
    ASSUME IInv, NEW t \in Txns, Begin(t)
    PROVE  \A u \in Txns \ {t} : txn'[u] = txn[u]
  BY BeginOpens DEF Open, IInv, TypeInv, TypeOK

LEMMA CommitTxn ==
    ASSUME IInv, NEW t \in Txns, Commit(t) \/ Rollback(t)
    PROVE  \A u \in Txns : txn'[u] = IF u = t THEN Idle ELSE txn[u]
  BY DEF Commit, CommitCreate, CommitQuote, CommitConvert, CommitTransition, CommitMove, CommitAmend,
         CommitBlock, Close, Rollback, IInv, TypeInv, TypeOK

\* A request of the website, or of the waitlist, begins.
LEMMA BeginRequestKeeps ==
    ASSUME All, [WebNext]_allVars, NEW t \in Txns,
           \/ \E b \in Browsers :
                \/ \E q \in Quotes, rm \in Rooms, s \in Stays : RoomDetail(b, t, q, rm, s)
                \/ \E r \in Resv : ConfirmSignedIn(b, t, r) \/ VerifyBooking(b, t, r)
           \/ \E w \in Waiters, r \in Resv, rm \in Rooms : ConvertWaitlist(w, t, r, rm)
    PROVE  WInv'
<1> USE DEF All
<1>1. [Next]_vars
  BY StepOfServices
<1>2. UNCHANGED <<browser, guestOf>>
  BY DEF RoomDetail, ConfirmSignedIn, VerifyBooking, ConvertWaitlist, WaitStep
<1>3. \E x : asks' = [asks EXCEPT ![t] = x] /\ \A u \in Txns : asks[u] # x
  BY DEF RoomDetail, ConfirmSignedIn, VerifyBooking, ConvertWaitlist, RightCode, Confirms, Free, Asks
<1>4. Begin(t)
  BY DEF RoomDetail, ConfirmSignedIn, VerifyBooking, ConvertWaitlist, RightCode, Confirms, Begin,
         SessionsTyped, SessionRow
<1>5. \A u \in Txns \ {t} : txn'[u] = txn[u] /\ asks'[u] = asks[u]
  BY <1>3, <1>4, BeginTxn DEF SessionsTyped
<1>6. \/ txn'[t].kind # "convert" \/ asks'[t] \notin Browsers
      \/ txn'[t].quote \in Known(asks'[t])
  <2>1. ASSUME NEW b \in Browsers, NEW q, NEW r \in Resv, q \in Known(b),
               BeginConvert(t, q, r), Asks(t, b)
        PROVE  txn'[t].quote \in Known(asks'[t])
    <3>1. q \in Quotes /\ txn'[t].quote = q
      BY <2>1 DEF BeginConvert, Open, Idle, Known, SessionsTyped, SessionRow, IInv, TypeInv, TypeOK
    <3> QED BY <2>1, <3>1 DEF Asks, SessionsTyped
  <2>2. ASSUME NEW b \in Browsers, NEW q \in Quotes, NEW rm \in Rooms, NEW s \in Stays,
               RoomDetail(b, t, q, rm, s)
        PROVE  txn'[t].kind # "convert"
    BY <2>2 DEF RoomDetail, BeginQuote, Open, Idle, IInv, TypeInv, TypeOK
  <2>3. ASSUME NEW w \in Waiters, NEW r \in Resv, NEW rm \in Rooms, ConvertWaitlist(w, t, r, rm)
        PROVE  asks'[t] \notin Browsers
    BY <2>3, WebAssumption DEF ConvertWaitlist, Asks, SessionsTyped
  <2>4. \A b \in Browsers : /\ Confirms(b) => browser[b].pending \in Known(b)
                            /\ RightCode(b) => browser[b].verifying \in Known(b)
    BY DEF Confirms, RightCode, Known
  <2> QED BY <2>1, <2>2, <2>3, <2>4 DEF ConfirmSignedIn, VerifyBooking
<1>7. OneRequest' /\ Mine'
  <2>1. \A u \in Txns : \/ txn'[u] = txn[u] /\ asks'[u] = asks[u]
                        \/ txn'[u].kind # "convert" \/ asks'[u] \notin Browsers
                        \/ txn'[u].quote \in Known(asks'[u])
    BY <1>5, <1>6
  <2> QED BY <1>2, <1>3, <2>1, RequestsKeep
<1> QED BY <1>1, <1>2, <1>4, <1>7, QuietKeeps DEF QuietStep, WInv

\* A request of the desk, the API or the waitlist ends, or any request fails.
LEMMA EndRequestKeeps ==
    ASSUME All, [WebNext]_allVars, NEW t \in Txns,
           DeskCommit(t) \/ WebRollback(t) \/ \E w \in Waiters : WaitlistCommit(w, t)
    PROVE  WInv'
<1> USE DEF All
<1>1. [Next]_vars
  BY StepOfServices
<1>2. /\ UNCHANGED <<browser, guestOf>>
      /\ asks' = asks \/ asks' = [asks EXCEPT ![t] = None]
  BY DEF DeskCommit, WebRollback, WaitlistCommit, WaitStep, Asks, webVars
<1>3. Commit(t) \/ Rollback(t)
  BY DEF DeskCommit, WebRollback, WaitlistCommit, Commit
<1>4. OneRequest' /\ Mine'
  <2>1. \A u \in Txns : \/ txn'[u] = txn[u] /\ asks'[u] = asks[u]
                        \/ txn'[u].kind # "convert"
    BY <1>2, <1>3, CommitTxn DEF Idle, SessionsTyped
  <2> QED BY <1>2, <2>1, RequestsKeep
<1>5. CASE CommitConvert(t) /\ asks[t] = None
  <2>1. \A b \in Browsers : Known(b) \subseteq Quotes /\ Known(b)' = Known(b)
    BY <1>2 DEF Known, SessionsTyped, SessionRow
  <2>2. Apart' /\ KnownExist'
    BY <1>1, <1>2, <2>1, ConversionStep DEF WInv, Apart, KnownExist
  <2>3. UNCHANGED guestOf /\ \A b \in Browsers : browser'[b].verifying = browser[b].verifying
    BY <1>2
  <2> QED BY <1>1, <1>4, <1>5, <2>2, <2>3, ConvertKeeps DEF WInv
<1>6. CASE QuietStep
  BY <1>1, <1>2, <1>4, <1>6, QuietKeeps DEF WInv
<1> QED BY <1>5, <1>6 DEF DeskCommit, WebRollback, WaitlistCommit, Commit, QuietStep

LEMMA DeskKeeps == ASSUME All, Desk PROVE WInv'
<1> USE DEF All
<1>1. UNCHANGED <<browser, guestOf, asks>>
  BY DEF Desk, webVars
<1>2. QuietStep
  BY SubsetAssumption DEF Desk, ReservationViewSet, BookingQuoteViewSet, PortalRooms, PortalRoomEdit,
     PortalRoomDelete, PublicRooms, Sweepers, Begin, QuietStep
<1>3. [Next]_vars
  <2>1. [WebNext]_allVars
    BY DEF WebNext
  <2> QED BY <2>1, StepOfServices
<1>4. \A u \in Txns : txn'[u] = txn[u] \/ asks[u] = None
  <2>1. ASSUME NEW t \in Txns, asks[t] = None, Begin(t)
        PROVE  \A u \in Txns : txn'[u] = txn[u] \/ asks[u] = None
    BY <2>1, BeginTxn
  <2>2. \/ \E t \in Txns : asks[t] = None /\ Begin(t)
        \/ UNCHANGED txn
    BY DEF Desk, ReservationViewSet, BookingQuoteViewSet, PortalRooms, PortalRoomEdit,
           PortalRoomDelete, PublicRooms, Begin, Lapse, ReleaseBlock, SetSellable, Sweep,
           SweepRead, SweepHolds, SweepQuotes, SweepDies, Midnight
  <2> QED BY <2>1, <2>2
<1>5. OneRequest' /\ Mine'
  BY <1>1, <1>4, WebAssumption DEF WInv, OneRequest, Mine, Known
<1> QED BY <1>1, <1>2, <1>3, <1>5, QuietKeeps DEF WInv

\* A session that is saved knows no quote that it did not know.
LEMMA SessionKeeps ==
    ASSUME All, [Next]_vars, NEW b \in Browsers, Free(b),
           UNCHANGED <<asks, guestOf, txn>>,
           \A a \in Browsers \ {b} : browser'[a] = browser[a],
           Known(b)' \subseteq Known(b),
           browser'[b].pending = browser'[b].verifying => browser'[b].pending = None
    PROVE  Apart' /\ KnownExist' /\ OneRequest' /\ Mine' /\ GuestsLater'
<1> USE DEF All, WInv
<1>1. \A a \in Browsers : Known(a) \subseteq Quotes /\ Known(a)' \subseteq Known(a)
  <2>1. \A a \in Browsers : Known(a) \subseteq Quotes
    BY DEF Known, SessionsTyped, SessionRow
  <2>2. ASSUME NEW a \in Browsers \ {b} PROVE Known(a)' = Known(a)
    BY DEF Known
  <2> QED BY <2>1, <2>2
<1>2. Apart'
  BY <1>1 DEF Apart
<1>3. KnownExist'
  BY <1>1, ConversionStep DEF KnownExist
<1>4. OneRequest'
  BY DEF OneRequest
<1>5. Mine'
  <2>1. \A t \in Txns : asks[t] # b
    BY DEF Free
  <2>2. \A a \in Browsers \ {b} : Known(a)' = Known(a)
    BY DEF Known
  <2> QED BY <2>1, <2>2 DEF Mine
<1>6. GuestsLater'
  BY RowsStay DEF GuestsLater
<1> QED BY <1>2, <1>3, <1>4, <1>5, <1>6

\* What a session is asked for after the step it was asked for before, or it is the quote
\* that is confirmed now; and no quote is written, or one that nobody is asked for.
LEMMA AskedKept ==
    ASSUME All, [Next]_vars, SessionsTyped', UNCHANGED guestOf,
           \A b \in Browsers :
              \/ browser'[b].verifying \in {browser[b].verifying, None}
              \/ quote[browser'[b].verifying].status = "active",
           \A b \in Browsers : LET q == browser'[b].verifying IN q \in Quotes => quote'[q] = quote[q]
    PROVE  AskedHasRoom'
<1> USE DEF All, WInv
<1> SUFFICES ASSUME NEW b \in Browsers, NEW q, q = browser'[b].verifying, q # None,
                    q \notin lapsed'
             PROVE  \/ quote'[q].status = "active"
                    \/ /\ quote'[q].status = "converted"
                       /\ guestOf[quote'[q].resv] \in {AddressOf[b], None}
  BY DEF AskedHasRoom
<1>1. q \in Quotes \ lapsed /\ quote'[q] = quote[q]
  BY RowsStay DEF SessionsTyped, SessionRow
<1> QED BY <1>1 DEF AskedHasRoom

LEMMA SessionStepKeeps ==
    ASSUME All, [WebNext]_allVars, NEW b \in Browsers,
           \/ LeaveQuote(b) \/ SendCode(b) \/ RefuseCode(b) \/ ResendCode(b)
           \/ EndVerification(b) \/ WrongCode(b) \/ VerifyTooLate(b) \/ CodeLapses(b)
    PROVE  WInv'
<1> USE DEF All
<1>1. [Next]_vars /\ SessionsTyped'
  BY StepOfServices, SessionsStep
<1>2. browser[b] \in SessionRow
  BY DEF SessionsTyped
<1> DEFINE old == browser[b]
           new == browser'[b]
<1>3. /\ Cleared(old).pending = old.pending /\ Cleared(old).verifying = None
      /\ [Cleared(old) EXCEPT !.verifying = old.pending, !.pending = None].pending = None
      /\ [Cleared(old) EXCEPT !.verifying = old.pending, !.pending = None].verifying = old.pending
      /\ [old EXCEPT !.pending = None].pending = None
      /\ [old EXCEPT !.pending = None].verifying = old.verifying
  BY <1>2 DEF Cleared, SessionRow
<1>4. \A a \in Browsers \ {b} : browser'[a] = browser[a]
  BY DEF LeaveQuote, SendCode, RefuseCode, ResendCode, EndVerification, WrongCode, VerifyTooLate,
         CodeLapses, SessionsTyped
<1>5. UNCHANGED <<asks, guestOf, txn>>
  BY DEF LeaveQuote, SendCode, RefuseCode, ResendCode, EndVerification, WrongCode, VerifyTooLate,
         CodeLapses, SessionStep, Release, ReleaseQuote, vars
<1>6. \/ LeaveQuote(b) /\ new.pending = None /\ new.verifying = old.verifying
      \/ SendCode(b) /\ new.pending = None /\ new.verifying = old.pending
      \/ RefuseCode(b) /\ new.pending = old.pending /\ new.verifying \in {old.verifying, None}
      \/ /\ EndVerification(b) \/ VerifyTooLate(b)
         /\ new.pending = old.pending /\ new.verifying = None
      \/ /\ ResendCode(b) \/ WrongCode(b) \/ CodeLapses(b)
         /\ new.pending = old.pending /\ new.verifying = old.verifying
  <2>1. CASE LeaveQuote(b)
    BY <1>3, <2>1 DEF LeaveQuote, SessionsTyped
  <2>2. CASE SendCode(b)
    BY <1>3, <2>2 DEF SendCode, SessionsTyped
  <2>3. CASE RefuseCode(b)
    BY <1>3, <2>3 DEF RefuseCode, SessionsTyped
  <2>4. CASE EndVerification(b) \/ VerifyTooLate(b)
    BY <1>3, <2>4 DEF EndVerification, VerifyTooLate, SessionsTyped
  <2>5. CASE ResendCode(b) \/ WrongCode(b) \/ CodeLapses(b)
    BY <1>2, <2>5 DEF ResendCode, WrongCode, CodeLapses, SessionsTyped, SessionRow
  <2> QED BY <2>1, <2>2, <2>3, <2>4, <2>5
<1>7. Apart' /\ KnownExist' /\ OneRequest' /\ Mine' /\ GuestsLater'
  <2>1. new.pending = new.verifying => new.pending = None
    BY <1>6 DEF WInv, Apart
  <2>2. Known(b)' \subseteq Known(b)
    BY <1>6 DEF Known
  <2>3. Free(b) \/ CodeLapses(b)
    BY DEF LeaveQuote, SendCode, Confirms, RefuseCode, ResendCode, EndVerification, WrongCode,
           VerifyTooLate, RightCode
  <2>4. CASE Free(b)
    BY <1>1, <1>4, <1>5, <2>1, <2>2, <2>4, SessionKeeps
  <2>5. CASE CodeLapses(b)
    <3>1. \A a \in Browsers : Known(a)' = Known(a)
      BY <1>4, <1>2, <2>5 DEF CodeLapses, Known, SessionsTyped, SessionRow
    <3>2. UNCHANGED vars
      BY <2>5 DEF CodeLapses
    <3>3. Apart'
      BY <1>4, <2>1, <3>1 DEF WInv, Apart
    <3> QED BY <1>5, <3>1, <3>2, <3>3 DEF WInv, KnownExist, OneRequest, Mine, GuestsLater, vars
  <2> QED BY <2>3, <2>4, <2>5
<1>8. AskedHasRoom'
  <2>1. \/ UNCHANGED quote
        \/ /\ LeaveQuote(b) \/ RefuseCode(b)
           /\ old.pending \in Quotes /\ ReleaseQuote(old.pending)
        \/ EndVerification(b) /\ old.verifying \in Quotes /\ ReleaseQuote(old.verifying)
    BY <1>2 DEF LeaveQuote, SendCode, Confirms, RefuseCode, ResendCode, EndVerification, WrongCode,
                VerifyTooLate, CodeLapses, Release, vars, SessionRow
  <2>2. ASSUME NEW a \in Browsers, browser'[a].verifying \in Quotes
        PROVE  quote'[browser'[a].verifying] = quote[browser'[a].verifying]
    <3>1. \/ a = b /\ new.verifying \in {old.verifying, old.pending}
          \/ a # b /\ browser'[a].verifying \in Known(a)
      BY <1>4, <1>6, <2>2, NoneAssumption DEF Known
    <3>2. CASE /\ LeaveQuote(b) \/ RefuseCode(b)
               /\ old.pending \in Quotes /\ ReleaseQuote(old.pending)
      <4>1. old.pending \in Known(b) /\ old.pending # old.verifying
        BY <3>2, NoneAssumption DEF Known, WInv, Apart
      <4>2. a = b => new.verifying # old.pending
        <5>1. new.verifying \in {old.verifying, None}
          BY <1>3, <3>2 DEF LeaveQuote, RefuseCode, SessionsTyped
        <5> QED BY <3>2, <4>1, <5>1, NoneAssumption
      <4>3. browser'[a].verifying # old.pending
        BY <3>1, <4>1, <4>2 DEF WInv, Apart
      <4> QED BY <2>2, <3>2, <4>3, ReleasedQuote
    <3>3. CASE EndVerification(b) /\ old.verifying \in Quotes /\ ReleaseQuote(old.verifying)
      <4>1. old.verifying \in Known(b)
        BY <3>3, NoneAssumption DEF Known
      <4>2. a # b
        BY <2>2, <3>3, <1>3, NoneAssumption DEF EndVerification, SessionsTyped
      <4>3. browser'[a].verifying # old.verifying
        BY <3>1, <4>1, <4>2 DEF WInv, Apart
      <4> QED BY <2>2, <3>3, <4>3, ReleasedQuote
    <3> QED BY <2>1, <2>2, <3>2, <3>3
  <2>3. ASSUME NEW a \in Browsers
        PROVE  \/ browser'[a].verifying \in {browser[a].verifying, None}
               \/ quote[browser'[a].verifying].status = "active"
    BY <1>4, <1>6 DEF SendCode, Confirms
  <2> QED BY <1>1, <1>5, <2>2, <2>3, AskedKept
<1> QED BY <1>7, <1>8 DEF WInv

\* The session is saved after the transaction, or lost.
LEMMA WebCommitKeeps ==
    ASSUME All, [WebNext]_allVars, NEW b \in Browsers, NEW t \in Txns, WebCommit(b, t)
    PROVE  WInv'
<1> USE DEF All
<1>1. [Next]_vars /\ SessionsTyped'
  BY StepOfServices, SessionsStep
<1>2. /\ asks[t] = b /\ asks' = [asks EXCEPT ![t] = None]
      /\ \A a \in Browsers \ {b} : browser'[a] = browser[a]
      /\ browser'[b] = browser[b] \/ browser'[b] = Saved(b, t)
  BY DEF WebCommit, Asks, SessionsTyped
<1>3. \A u \in Txns : /\ txn'[u] = IF u = t THEN Idle ELSE txn[u]
                      /\ asks'[u] = IF u = t THEN None ELSE asks[u]
  BY <1>2, CommitTxn DEF WebCommit, Commit, SessionsTyped
<1>4. OneRequest'
  BY <1>3 DEF WInv, OneRequest
<1>5. \A u \in Txns : asks'[u] # b
  BY <1>2, <1>3, WebAssumption DEF WInv, OneRequest
<1>6. Mine'
  <2>1. \A a \in Browsers \ {b} : Known(a)' = Known(a)
    BY <1>2 DEF Known
  <2> QED BY <1>3, <1>5, <2>1, WebAssumption DEF WInv, Mine
<1> DEFINE old == browser[b]
           new == browser'[b]
           q == txn[t].quote
<1>7. old \in SessionRow
  BY DEF SessionsTyped
<1>8. CASE CommitQuote(t) /\ UNCHANGED guestOf
  <2>1. txn[t].kind = "quote" /\ q \in Quotes /\ quote[q].status = "none"
    BY <1>8 DEF CommitQuote, Close, IInv, TypeInv, Shape, AllReady, Ready
  <2>2. new.verifying = old.verifying /\ new.pending \in {old.pending, q}
    BY <1>2, <1>7, <2>1 DEF Saved, SessionRow
  <2>3. quote'[q].status # "none"
    BY <1>8, <2>1, ExpiryUpdates DEF CommitQuote, IInv, TypeInv
  <2>4. \A a \in Browsers : q \notin Known(a) /\ Known(a) \subseteq Quotes
    BY <2>1 DEF WInv, KnownExist, Known, SessionsTyped, SessionRow
  <2>5. Known(b)' \subseteq Known(b) \cup {q}
    BY <2>2 DEF Known
  <2>6. \A a \in Browsers \ {b} : Known(a)' = Known(a)
    BY <1>2 DEF Known
  <2>7. q # None /\ old.verifying # q
    BY <2>1, <2>4, NoneAssumption DEF Known
  <2>8. Apart'
    <3>1. \A a \in Browsers : browser'[a].pending = browser'[a].verifying
                             => browser'[a].pending = None
      BY <1>2, <2>2, <2>7 DEF WInv, Apart
    <3> QED BY <2>4, <2>5, <2>6, <3>1 DEF WInv, Apart
  <2>9. KnownExist'
    BY <1>1, <2>3, <2>4, <2>5, <2>6, ConversionStep DEF WInv, KnownExist
  <2>10. QuietStep
    BY <1>8 DEF QuietStep
  <2>11. GuestsLater'
    BY <1>1, <1>8, RowsStay DEF WInv, GuestsLater
  <2>12. AskedHasRoom'
    <3>1. \A a \in Browsers : browser'[a].verifying = browser[a].verifying
      BY <1>2, <2>2
    <3> SUFFICES ASSUME NEW a \in Browsers, browser[a].verifying # None,
                        browser[a].verifying \notin lapsed'
                 PROVE  quote'[browser[a].verifying] = quote[browser[a].verifying]
      BY <1>1, <1>8, <3>1, RowsStay DEF WInv, AskedHasRoom
    <3>2. browser[a].verifying \in Quotes \ lapsed
      BY <1>1, RowsStay DEF SessionsTyped, SessionRow
    <3>3. quote[browser[a].verifying].status # "none"
      BY DEF WInv, KnownExist, Known
    <3> QED BY <2>10, <3>2, <3>3, QuietQuotes
  <2> QED BY <1>4, <1>6, <2>8, <2>9, <2>11, <2>12 DEF WInv
<1>9. CASE CommitConvert(t) /\ guestOf' = [guestOf EXCEPT ![txn[t].res] = AddressOf[b]]
  <2>1. txn[t].kind = "convert"
    BY <1>9 DEF CommitConvert, Close
  <2>2. /\ new.verifying \in {old.verifying, None} /\ new.pending \in {old.pending, None}
    BY <1>2, <1>7, <2>1 DEF Saved, Cleared, SessionRow
  <2>3. \A a \in Browsers : /\ browser'[a].verifying \in {browser[a].verifying, None}
                            /\ Known(a)' \subseteq Known(a) /\ Known(a) \subseteq Quotes
    BY <1>2, <2>2 DEF Known, SessionsTyped, SessionRow
  <2>4. Apart'
    <3>1. \A a \in Browsers : browser'[a].pending = browser'[a].verifying
                             => browser'[a].pending = None
      BY <1>2, <2>2 DEF WInv, Apart
    <3> QED BY <2>3, <3>1 DEF WInv, Apart
  <2>5. KnownExist'
    BY <1>1, <2>3, ConversionStep DEF WInv, KnownExist
  <2>6. GuestsLater' /\ AskedHasRoom'
    BY <1>1, <1>2, <1>9, <2>3, ConvertKeeps
  <2> QED BY <1>4, <1>6, <2>4, <2>5, <2>6 DEF WInv
<1> QED BY <1>8, <1>9 DEF WebCommit

-----------------------------------------------------------------------------
(* Theorem *)

LEMMA WebStart == WebInit => QInv /\ ConversionKept /\ WInv
<1> SUFFICES ASSUME WebInit PROVE QInv /\ ConversionKept /\ WInv
  OBVIOUS
<1>1. Init /\ QInv
  BY QuotesStart DEF WebInit
<1>2. ConversionKept
  BY <1>1 DEF Init, ConversionKept
<1>3. \A b \in Browsers : Known(b) = {} /\ browser[b].pending = None /\ browser[b].verifying = None
  BY DEF WebInit, Known
<1>4. Apart /\ KnownExist /\ AskedHasRoom
  BY <1>3 DEF Apart, KnownExist, AskedHasRoom
<1>5. OneRequest /\ Mine /\ GuestsLater
  BY WebAssumption DEF WebInit, OneRequest, Mine, GuestsLater
<1> QED BY <1>1, <1>2, <1>4, <1>5 DEF WInv

LEMMA WebStep == ASSUME All, [WebNext]_allVars PROVE All'
<1>1. IInv' /\ QInv' /\ ConversionKept' /\ SessionsTyped'
  BY StepOfServices, SessionsStep, Inductive, QuotesStep, ConversionStep DEF All
<1>2. WInv'
  <2>1. CASE UNCHANGED allVars
    BY <2>1 DEF allVars, webVars, vars, All, WInv, Apart, KnownExist, OneRequest, Mine, GuestsLater,
                AskedHasRoom, Known
  <2>2. ASSUME NEW w \in Waiters,
               \/ OfferWaitlist(w) \/ OfferLapses(w)
               \/ \E s \in Stays : JoinWaitlist(w, s)
        PROVE  WInv'
    <3>1. UNCHANGED <<browser, guestOf, asks>> /\ UNCHANGED vars
      BY <2>2 DEF OfferWaitlist, OfferLapses, JoinWaitlist, WaitStep
    <3> QED BY <3>1 DEF vars, All, WInv, Apart, KnownExist, OneRequest, Mine, GuestsLater,
                        AskedHasRoom, Known
  <2>3. CASE Desk
    BY <2>3, DeskKeeps
  <2> QED BY <2>1, <2>2, <2>3, SessionStepKeeps, BeginRequestKeeps, EndRequestKeeps, WebCommitKeeps
          DEF WebNext
<1> QED BY <1>1, <1>2 DEF All

\* For any number of visitors, quotes and connections, whoever is asked for a code and is
\* in time still has his room, or has booked it.
THEOREM AskedKeepsRoom == WebSpec => []AskedHasRoom
<1>1. WebInit => All
  <2>1. WebInit => Init
    BY DEF WebInit
  <2> QED BY <2>1, Initially, SessionsStart, WebStart DEF All
<1>2. All /\ [WebNext]_allVars => All'
  BY WebStep
<1>3. All => AskedHasRoom
  BY DEF All, WInv
<1> QED BY <1>1, <1>2, <1>3, PTL DEF WebSpec

\* What is proved of the services holds for the visitors of the website, as the runs have
\* it: their quotes and holds agree, holds are exclusive, only open rooms are sold, and
\* a decided quote stays decided.
THEOREM ServicesHoldOnline ==
    WebSpec => /\ [](NoDoubleBooking /\ HoldsExclusive /\ QuoteRowsAgree)
               /\ SoldOnlyOpen /\ QuoteDecidedOnce /\ EndedStaysFrozen
  BY WebsiteUsesServices, NeverDoubleBooked, HeldForOne, QuotesConsistent, OnlyOpenSold,
     DecidedForGood, EndedForGood, PTL
=============================================================================
