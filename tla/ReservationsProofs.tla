------------------------- MODULE ReservationsProofs -------------------------
(***************************************************************************)
(* Theorems about Reservations, for every set of rooms, rows, connections  *)
(* and date ranges: first what concerns the rows one at a time, then what  *)
(* needs both rows of a quote, the quote with its hold and the use of its  *)
(* promotion; that nothing is sold that is off sale; and that the services *)
(* implement the calendar of RoomNights.                                   *)
(***************************************************************************)
EXTENDS Reservations, FiniteSetTheorems, TLAPS

-----------------------------------------------------------------------------
(* Types.  TypeOK alone is not inductive: a row may hold no room only while *)
(* it does not exist, and a command carries the keys its writes use.        *)

Sales == {"create", "quote", "convert", "move", "amend"}
OnReservation == {"create", "convert", "move", "amend"} \cup Actions

RowsExist ==
    /\ \A r \in Resv : res[r].status # "none" => res[r].room \in Rooms /\ res[r].stay \in Stays
    /\ \A q \in Quotes :
          quote[q].status # "none" => quote[q].room \in Rooms /\ quote[q].stay \in Stays

Shape(c) ==
    /\ c.kind \in Sales \cup {"block"} => c.room \in c.locks
    /\ c.kind \in Sales \cup {"block"} => c.room \in Rooms /\ c.stay \in Stays
    /\ c.kind \in OnReservation => c.res \in Resv
    /\ c.kind \notin OnReservation => c.res = None
    /\ c.kind \in {"quote", "convert"} => c.quote \in Quotes
    /\ c.kind \notin {"quote", "convert"} => c.quote = None
    /\ c.kind = "block" => c.block \in Blocks

TypeInv == /\ TypeOK
           /\ RowsExist
           /\ \A t \in Txns : Shape(txn[t])

-----------------------------------------------------------------------------
(* The inductive invariant.  What a command has read while it holds its row *)
(* locks is still true when it writes: its rows are as it saw them (Ready), *)
(* and the nights it is about to take are free (Clear).                     *)

LocksExclusive ==
    \A t, u \in Txns : t # u =>
        /\ txn[t].locks \cap txn[u].locks = {}
        /\ txn[t].res = txn[u].res => txn[t].res = None
        /\ txn[t].quote = txn[u].quote => txn[t].quote = None

Ready(c) ==
    /\ c.kind \in {"create", "convert"} => res[c.res].status = "none"
    /\ c.kind \in Actions => res[c.res].status \in AllowedFrom[c.kind]
    /\ c.kind = "move" => res[c.res].status \in {"confirmed", "checked_in"}
                          /\ res[c.res].stay = c.stay
    /\ c.kind = "amend" => res[c.res].status \in BlockingStatuses /\ res[c.res].room = c.room
    /\ c.kind = "quote" => quote[c.quote].status = "none"
    /\ c.kind = "convert" => /\ quote[c.quote].status = "active"
                             /\ quote[c.quote].room = c.room /\ quote[c.quote].stay = c.stay

Clear(c) ==
    c.kind \in Sales =>
        /\ \A r \in Resv \ {c.res} : ~Occupies(r, c.room, c.stay)
        /\ \A q \in Quotes \ {c.quote} : ~Holds(q, c.room, c.stay)

\* The rows of a new command are locked by no other.
Fresh(c) ==
    \A u \in Txns : /\ txn[u].locks \cap c.locks = {}
                    /\ txn[u].res = c.res => c.res = None
                    /\ txn[u].quote = c.quote => c.quote = None

AllReady == \A t \in Txns : Ready(txn[t])
AllClear == \A t \in Txns : Clear(txn[t])

IInv == TypeInv /\ LocksExclusive /\ AllReady /\ AllClear /\ NoDoubleBooking /\ HoldsExclusive

-----------------------------------------------------------------------------
(* Types *)

LEMMA IdleShape == Idle \in Command /\ Shape(Idle)
  BY DEF Idle, Command, Kinds, Shape, Sales, OnReservation, Actions

\* Every Begin opens a command of the right shape that has its rows to itself
\* and whose checks hold.
Sound(c) == c \in Command /\ Shape(c) /\ Fresh(c) /\ Ready(c) /\ Clear(c)

LEMMA BeginOpens ==
    ASSUME TypeInv, NEW t \in Txns, Begin(t)
    PROVE  \E cmd : Sound(cmd) /\ Open(t, cmd)
<1> USE DEF Command, Kinds, Idle, Shape, Sales, OnReservation, Actions, Sound
<1>1. ASSUME NEW r \in Resv, NEW rm \in Rooms, NEW s \in Stays, BeginCreate(t, r, rm, s)
      PROVE  \E cmd : Sound(cmd) /\ Open(t, cmd)
  <2> DEFINE cmd == [Idle EXCEPT !.kind = "create", !.locks = {rm}, !.res = r,
                                 !.room = rm, !.stay = s]
  <2>1. cmd \in Command /\ Shape(cmd)
    OBVIOUS
  <2>2. Fresh(cmd)
    BY <1>1 DEF BeginCreate, Fresh, RoomFree, ReservationFree
  <2>3. Ready(cmd) /\ Clear(cmd)
    BY <1>1, NoneAssumption DEF BeginCreate, Ready, Clear, ValidStay
  <2> QED BY <1>1, <2>1, <2>2, <2>3 DEF BeginCreate
<1>2. ASSUME NEW q \in Quotes, NEW rm \in Rooms, NEW s \in Stays, BeginQuote(t, q, rm, s)
      PROVE  \E cmd : Sound(cmd) /\ Open(t, cmd)
  <2> DEFINE cmd == [Idle EXCEPT !.kind = "quote", !.locks = {rm}, !.quote = q, !.room = rm,
                            !.stay = s,
                            !.stale = {p \in Quotes : hold[p] = "active" /\ p \in lapsed}]
  <2>1. cmd \in Command /\ Shape(cmd)
    OBVIOUS
  <2>2. Fresh(cmd)
    BY <1>2 DEF BeginQuote, Fresh, RoomFree, QuoteFree
  <2>3. Ready(cmd) /\ Clear(cmd)
    BY <1>2, NoneAssumption DEF BeginQuote, Ready, Clear, ValidStay
  <2> QED BY <1>2, <2>1, <2>2, <2>3 DEF BeginQuote
<1>3. ASSUME NEW q \in Quotes, NEW r \in Resv, BeginConvert(t, q, r)
      PROVE  \E cmd : Sound(cmd) /\ Open(t, cmd)
  <2> DEFINE cmd == [Idle EXCEPT !.kind = "convert", !.locks = {quote[q].room}, !.res = r,
                            !.quote = q, !.room = quote[q].room, !.stay = quote[q].stay]
  <2>1. quote[q].room \in Rooms /\ quote[q].stay \in Stays
    BY <1>3 DEF BeginConvert, TypeInv, RowsExist
  <2>2. cmd \in Command /\ Shape(cmd)
    BY <2>1
  <2>3. Fresh(cmd)
    BY <1>3 DEF BeginConvert, Fresh, RoomFree, QuoteFree, ReservationFree
  <2>4. Ready(cmd) /\ Clear(cmd)
    BY <1>3, NoneAssumption DEF BeginConvert, Ready, Clear, ValidStay
  <2> QED BY <1>3, <2>2, <2>3, <2>4 DEF BeginConvert
<1>4. ASSUME NEW r \in Resv, NEW a \in Actions, BeginTransition(t, r, a)
      PROVE  \E cmd : Sound(cmd) /\ Open(t, cmd)
  <2> DEFINE cmd == [Idle EXCEPT !.kind = a, !.locks = {res[r].room}, !.res = r]
  <2>1. res[r].room \in Rooms
    BY <1>4 DEF BeginTransition, AllowedFrom, TypeInv, RowsExist
  <2>2. cmd \in Command /\ Shape(cmd)
    BY <2>1
  <2>3. Fresh(cmd)
    BY <1>4 DEF BeginTransition, Fresh, RoomFree, ReservationFree
  <2>4. Ready(cmd) /\ Clear(cmd)
    BY <1>4 DEF BeginTransition, Ready, Clear
  <2> QED BY <1>4, <2>2, <2>3, <2>4 DEF BeginTransition
<1>5. ASSUME NEW r \in Resv, NEW rm \in Rooms, BeginMove(t, r, rm)
      PROVE  \E cmd : Sound(cmd) /\ Open(t, cmd)
  <2> DEFINE cmd == [Idle EXCEPT !.kind = "move", !.locks = {res[r].room, rm}, !.res = r,
                            !.room = rm, !.stay = res[r].stay]
  <2>1. res[r].room \in Rooms /\ res[r].stay \in Stays
    BY <1>5 DEF BeginMove, TypeInv, RowsExist
  <2>2. cmd \in Command /\ Shape(cmd)
    BY <2>1
  <2>3. Fresh(cmd)
    BY <1>5 DEF BeginMove, Fresh, RoomFree, ReservationFree
  <2>4. Ready(cmd) /\ Clear(cmd)
    BY <1>5, NoneAssumption DEF BeginMove, Ready, Clear, ValidStay
  <2> QED BY <1>5, <2>2, <2>3, <2>4 DEF BeginMove
<1>6. ASSUME NEW r \in Resv, NEW s \in Stays, BeginAmend(t, r, s)
      PROVE  \E cmd : Sound(cmd) /\ Open(t, cmd)
  <2> DEFINE cmd == [Idle EXCEPT !.kind = "amend", !.locks = {res[r].room}, !.res = r,
                            !.room = res[r].room, !.stay = s]
  <2>1. res[r].room \in Rooms
    BY <1>6 DEF BeginAmend, BlockingStatuses, TypeInv, RowsExist
  <2>2. cmd \in Command /\ Shape(cmd)
    BY <2>1
  <2>3. Fresh(cmd)
    BY <1>6 DEF BeginAmend, Fresh, RoomFree, ReservationFree
  <2>4. Ready(cmd) /\ Clear(cmd)
    BY <1>6 DEF BeginAmend, Ready, Clear, ValidStay
  <2> QED BY <1>6, <2>2, <2>3, <2>4 DEF BeginAmend
<1>7. ASSUME NEW b \in Blocks, NEW rm \in Rooms, NEW s \in Stays, BeginBlock(t, b, rm, s)
      PROVE  \E cmd : Sound(cmd) /\ Open(t, cmd)
  <2> DEFINE cmd == [Idle EXCEPT !.kind = "block", !.locks = {rm}, !.block = b,
                            !.room = rm, !.stay = s]
  <2>1. cmd \in Command /\ Shape(cmd)
    OBVIOUS
  <2>2. Fresh(cmd)
    BY <1>7 DEF BeginBlock, Fresh, RoomFree
  <2>3. Ready(cmd) /\ Clear(cmd)
    BY <1>7 DEF BeginBlock, Ready, Clear
  <2> QED BY <1>7, <2>1, <2>2, <2>3 DEF BeginBlock
<1> QED BY <1>1, <1>2, <1>3, <1>4, <1>5, <1>6, <1>7 DEF Begin

LEMMA TypeInit == Init => TypeInv
<1> SUFFICES ASSUME Init PROVE TypeInv
  OBVIOUS
<1>1. TypeOK
  BY IdleShape DEF Init, NoSweep, TypeOK, ReservationRow, QuoteRow, BlockRow, ResStatus, QuoteStatus,
                   HoldStatus
<1>2. RowsExist
  BY DEF Init, RowsExist
<1>3. \A t \in Txns : Shape(txn[t])
  BY IdleShape DEF Init
<1> QED BY <1>1, <1>2, <1>3 DEF TypeInv

\* After a command closed, every command is still well formed.
LEMMA CloseType ==
    ASSUME TypeInv, NEW t \in Txns, txn' = [txn EXCEPT ![t] = Idle]
    PROVE  txn' \in [Txns -> Command] /\ \A u \in Txns : Shape(txn'[u])
  BY IdleShape DEF TypeInv, TypeOK

\* The expiry updates keep the rows' types, rooms and date ranges; they bring no
\* quote into being and make no hold active.
LEMMA ExpiryUpdates ==
    ASSUME TypeOK, NEW ids
    PROVE  /\ ExpireQuotes(ids) \in [Quotes -> QuoteRow]
           /\ ExpireHolds(ids) \in [Quotes -> HoldStatus]
           /\ \A q \in Quotes :
                 /\ ExpireQuotes(ids)[q].room = quote[q].room
                 /\ ExpireQuotes(ids)[q].stay = quote[q].stay
                 /\ ExpireQuotes(ids)[q].status = "none" <=> quote[q].status = "none"
                 /\ ExpireHolds(ids)[q] = "active" => hold[q] = "active"
<1>1. \A q \in Quotes : quote[q] \in QuoteRow /\ hold[q] \in HoldStatus
  BY DEF TypeOK
<1>2. \A q \in Quotes : [quote[q] EXCEPT !.status = "expired"] \in QuoteRow
  BY <1>1 DEF QuoteRow, QuoteStatus
<1>3. \A q \in Quotes : /\ [quote[q] EXCEPT !.status = "expired"].room = quote[q].room
                        /\ [quote[q] EXCEPT !.status = "expired"].stay = quote[q].stay
                        /\ [quote[q] EXCEPT !.status = "expired"].status = "expired"
  BY <1>1 DEF QuoteRow
<1>4. ExpireQuotes(ids) \in [Quotes -> QuoteRow]
  BY <1>1, <1>2 DEF ExpireQuotes
<1>5. ExpireHolds(ids) \in [Quotes -> HoldStatus]
  BY <1>1 DEF ExpireHolds, HoldStatus
<1> QED BY <1>3, <1>4, <1>5 DEF ExpireQuotes, ExpireHolds

LEMMA TypeStep ==
    ASSUME TypeInv, AllReady, [Next]_vars
    PROVE  TypeInv'
<1> USE DEF TypeInv
<1>1. ASSUME NEW t \in Txns, Begin(t) PROVE TypeInv'
  <2>1. PICK cmd : Sound(cmd) /\ Open(t, cmd)
    BY <1>1, BeginOpens
  <2> QED BY <2>1 DEF Open, TypeOK, RowsExist, Sound
<1>2. ASSUME NEW t \in Txns, CommitCreate(t) PROVE TypeInv'
  <2>1. txn' \in [Txns -> Command] /\ \A u \in Txns : Shape(txn'[u])
    BY <1>2, CloseType DEF CommitCreate, Close
  <2>2. txn[t].res \in Resv /\ txn[t].room \in Rooms /\ txn[t].stay \in Stays
    BY <1>2 DEF CommitCreate, Close, Shape, Sales, OnReservation
  <2>3. res' \in [Resv -> ReservationRow]
    BY <1>2, <2>2 DEF CommitCreate, TypeOK, ReservationRow, NewReservation, ResStatus,
                      BlockingStatuses
  <2>4. RowsExist'
    BY <1>2, <2>2 DEF CommitCreate, RowsExist, NewReservation, TypeOK
  <2> QED BY <1>2, <2>1, <2>3, <2>4 DEF CommitCreate, TypeOK
<1>3. ASSUME NEW t \in Txns, CommitQuote(t) PROVE TypeInv'
  <2>1. txn' \in [Txns -> Command] /\ \A u \in Txns : Shape(txn'[u])
    BY <1>3, CloseType DEF CommitQuote, Close
  <2>2. txn[t].quote \in Quotes /\ txn[t].room \in Rooms /\ txn[t].stay \in Stays
    BY <1>3 DEF CommitQuote, Close, Shape, Sales
  <2> DEFINE ids == txn[t].stale
             row == [status |-> "active", room |-> txn[t].room, stay |-> txn[t].stay,
                     resv |-> None]
  <2>3. /\ quote' = [ExpireQuotes(ids) EXCEPT ![txn[t].quote] = row]
        /\ hold' = [ExpireHolds(ids) EXCEPT ![txn[t].quote] = "active"]
        /\ UNCHANGED <<res, lapsed, block, closed, used, today, sweep>>
    BY <1>3 DEF CommitQuote
  <2>4. row \in QuoteRow /\ "active" \in HoldStatus
    BY <2>2 DEF QuoteRow, QuoteStatus, HoldStatus
  <2>5. quote' \in [Quotes -> QuoteRow] /\ hold' \in [Quotes -> HoldStatus]
    <3> HIDE DEF row
    <3> QED BY <2>2, <2>3, <2>4, ExpiryUpdates
  <2>6. ASSUME NEW q \in Quotes, quote'[q].status # "none"
        PROVE  quote'[q].room \in Rooms /\ quote'[q].stay \in Stays
    BY <2>2, <2>3, <2>6, ExpiryUpdates DEF RowsExist
  <2>7. RowsExist'
    BY <2>3, <2>6 DEF RowsExist
  <2> QED BY <2>1, <2>3, <2>5, <2>7 DEF TypeOK
<1>4. ASSUME NEW t \in Txns, CommitConvert(t) PROVE TypeInv'
  <2>1. txn' \in [Txns -> Command] /\ \A u \in Txns : Shape(txn'[u])
    BY <1>4, CloseType DEF CommitConvert, Close
  <2>2. /\ txn[t].quote \in Quotes /\ txn[t].room \in Rooms /\ txn[t].stay \in Stays
        /\ txn[t].res \in Resv
    BY <1>4 DEF CommitConvert, Close, Shape, Sales, OnReservation
  <2>3. /\ quote' \in [Quotes -> QuoteRow] /\ hold' \in [Quotes -> HoldStatus]
        /\ res' \in [Resv -> ReservationRow] /\ used' \in Nat
    <3>1. hold' \in [Quotes -> HoldStatus] /\ used' \in Nat
      BY <1>4, <2>2 DEF CommitConvert, TypeOK, HoldStatus
    <3>2. res' \in [Resv -> ReservationRow]
      <4>1. NewReservation(txn[t]) \in ReservationRow
        BY <2>2 DEF NewReservation, ReservationRow, ResStatus, BlockingStatuses
      <4>2. res' = [res EXCEPT ![txn[t].res] = NewReservation(txn[t])]
        BY <1>4 DEF CommitConvert
      <4>3. res \in [Resv -> ReservationRow]
        BY DEF TypeOK
      <4> HIDE DEF TypeInv
      <4> QED BY <4>1, <4>2, <4>3
    <3>3. quote' \in [Quotes -> QuoteRow]
      <4>1. PICK old \in QuoteRow : old = quote[txn[t].quote]
        BY <2>2 DEF TypeOK
      <4> DEFINE new == [old EXCEPT !.status = "converted", !.resv = txn[t].res]
      <4>2. quote' = [quote EXCEPT ![txn[t].quote] = new]
        BY <1>4, <4>1 DEF CommitConvert
      <4>3. quote \in [Quotes -> QuoteRow]
        BY DEF TypeOK
      <4> HIDE DEF TypeInv
      <4>4. new \in QuoteRow
        BY <2>2 DEF QuoteRow, QuoteStatus
      <4> HIDE DEF new
      <4> QED BY <4>2, <4>3, <4>4
    <3> QED BY <3>1, <3>2, <3>3
  <2>4. quote[txn[t].quote].room \in Rooms /\ quote[txn[t].quote].stay \in Stays
    BY <1>4, <2>2 DEF CommitConvert, Close, AllReady, Ready, RowsExist
  <2>5. RowsExist'
    BY <1>4, <2>2, <2>4 DEF CommitConvert, RowsExist, TypeOK, NewReservation, QuoteRow,
                            ReservationRow
  <2> QED BY <1>4, <2>1, <2>3, <2>5 DEF CommitConvert, TypeOK
<1>5. ASSUME NEW t \in Txns, CommitTransition(t) PROVE TypeInv'
  <2>1. txn' \in [Txns -> Command] /\ \A u \in Txns : Shape(txn'[u])
    BY <1>5, CloseType DEF CommitTransition, Close
  <2>2. /\ txn[t].res \in Resv /\ txn[t].kind \in Actions
        /\ res[txn[t].res].status # "none"
    BY <1>5 DEF CommitTransition, Close, Shape, OnReservation, AllReady, Ready, AllowedFrom,
                Actions
  <2>3. NextStatus[txn[t].kind] \in ResStatus
    BY <2>2 DEF NextStatus, Actions, ResStatus, BlockingStatuses, Terminal
  <2>4. res' \in [Resv -> ReservationRow]
    <3>1. res \in [Resv -> ReservationRow]
      BY DEF TypeOK
    <3>2. res' = [res EXCEPT ![txn[t].res].status = NextStatus[txn[t].kind]]
      BY <1>5 DEF CommitTransition
    <3> HIDE DEF TypeInv
    <3> QED BY <2>2, <2>3, <3>1, <3>2 DEF ReservationRow
  <2>5. RowsExist'
    BY <1>5, <2>2 DEF CommitTransition, RowsExist, TypeOK, ReservationRow
  <2> QED BY <1>5, <2>1, <2>4, <2>5 DEF CommitTransition, TypeOK
<1>6. ASSUME NEW t \in Txns, CommitMove(t) \/ CommitAmend(t) PROVE TypeInv'
  <2>1. txn' \in [Txns -> Command] /\ \A u \in Txns : Shape(txn'[u])
    BY <1>6, CloseType DEF CommitMove, CommitAmend, Close
  <2>2. txn[t].res \in Resv /\ txn[t].room \in Rooms /\ txn[t].stay \in Stays
    BY <1>6 DEF CommitMove, CommitAmend, Close, Shape, Sales, OnReservation
  <2>3. res' \in [Resv -> ReservationRow]
    BY <1>6, <2>2 DEF CommitMove, CommitAmend, TypeOK, ReservationRow
  <2>4. RowsExist'
    <3>1. /\ UNCHANGED quote
          /\ \/ res' = [res EXCEPT ![txn[t].res].room = txn[t].room]
             \/ res' = [res EXCEPT ![txn[t].res].stay = txn[t].stay]
      BY <1>6 DEF CommitMove, CommitAmend
    <3>2. res \in [Resv -> ReservationRow] /\ RowsExist
      BY DEF TypeOK
    <3>3. ASSUME NEW r \in Resv, res'[r].status # "none"
          PROVE  res'[r].room \in Rooms /\ res'[r].stay \in Stays
      <4> HIDE DEF TypeInv
      <4>1. CASE r = txn[t].res
        BY <2>2, <3>1, <3>2, <3>3, <4>1 DEF RowsExist, ReservationRow
      <4>2. CASE r # txn[t].res
        BY <2>2, <3>1, <3>2, <3>3, <4>2 DEF RowsExist
      <4> QED BY <4>1, <4>2
    <3> QED BY <3>1, <3>2, <3>3 DEF RowsExist
  <2> QED BY <1>6, <2>1, <2>3, <2>4 DEF CommitMove, CommitAmend, TypeOK
<1>7. ASSUME NEW t \in Txns, CommitBlock(t) PROVE TypeInv'
  <2>1. txn' \in [Txns -> Command] /\ \A u \in Txns : Shape(txn'[u])
    BY <1>7, CloseType DEF CommitBlock, Close
  <2>2. txn[t].room \in Rooms /\ txn[t].stay \in Stays /\ txn[t].block \in Blocks
    BY <1>7 DEF CommitBlock, Close, Shape
  <2>3. block' \in [Blocks -> BlockRow]
    BY <1>7, <2>2 DEF CommitBlock, TypeOK, BlockRow
  <2> QED BY <1>7, <2>1, <2>3 DEF CommitBlock, TypeOK, RowsExist
<1>8. ASSUME NEW t \in Txns, Rollback(t) PROVE TypeInv'
  <2>1. txn' \in [Txns -> Command] /\ \A u \in Txns : Shape(txn'[u])
    BY <1>8, CloseType DEF Rollback
  <2> QED BY <1>8, <2>1 DEF Rollback, TypeOK, RowsExist
<1>9. ASSUME NEW q \in Quotes, ReleaseQuote(q) PROVE TypeInv'
  <2>1. /\ quote' = [quote EXCEPT ![q].status = "cancelled"] /\ quote[q].status # "none"
        /\ hold' = [hold EXCEPT ![q] = IF @ = "active" THEN "released" ELSE @]
        /\ UNCHANGED <<res, lapsed, block, closed, used, today, txn, sweep>>
    BY <1>9 DEF ReleaseQuote
  <2>2. quote' \in [Quotes -> QuoteRow]
    <3>1. quote \in [Quotes -> QuoteRow]
      BY DEF TypeOK
    <3> HIDE DEF TypeInv
    <3> QED BY <2>1, <3>1 DEF QuoteRow, QuoteStatus
  <2>3. hold' \in [Quotes -> HoldStatus]
    BY <2>1 DEF TypeOK, HoldStatus
  <2>4. RowsExist'
    BY <2>1 DEF RowsExist, TypeOK, QuoteRow
  <2> QED BY <2>1, <2>2, <2>3, <2>4 DEF TypeOK
<1>10. ASSUME NEW q \in Quotes, Lapse(q) PROVE TypeInv'
  BY <1>10 DEF Lapse, TypeOK, RowsExist
<1>11. ASSUME NEW b \in Blocks, ReleaseBlock(b) PROVE TypeInv'
  BY <1>11 DEF ReleaseBlock, TypeOK, RowsExist, BlockRow
<1>12. ASSUME NEW rm \in Rooms, SetSellable(rm) PROVE TypeInv'
  BY <1>12 DEF SetSellable, TypeOK, RowsExist
<1>13. ASSUME NEW p \in Sweepers, Sweep(p) \/ SweepDies(p) PROVE TypeInv'
  <2>1. sweep' \in [Sweepers -> [at : {"read", "holds", "quotes"}, ids : SUBSET Quotes]]
    BY <1>13 DEF Sweep, SweepRead, SweepHolds, SweepQuotes, SweepDies, NoSweep, TypeOK
  <2>2. quote' \in [Quotes -> QuoteRow] /\ hold' \in [Quotes -> HoldStatus]
    BY <1>13, ExpiryUpdates
    DEF Sweep, SweepRead, SweepHolds, SweepQuotes, SweepDies, TypeOK
  <2>3. RowsExist'
    BY <1>13, ExpiryUpdates
    DEF Sweep, SweepRead, SweepHolds, SweepQuotes, SweepDies, RowsExist
  <2> QED BY <1>13, <2>1, <2>2, <2>3
          DEF Sweep, SweepRead, SweepHolds, SweepQuotes, SweepDies, TypeOK
<1>14. ASSUME Midnight PROVE TypeInv'
  BY <1>14 DEF Midnight, TypeOK, RowsExist
<1>15. CASE UNCHANGED vars
  BY <1>15 DEF vars, TypeOK, RowsExist
<1> QED
  BY <1>1, <1>2, <1>3, <1>4, <1>5, <1>6, <1>7, <1>8, <1>9, <1>10, <1>11, <1>12, <1>13, <1>14,
     <1>15, SubsetAssumption DEF Next, Commit, Sweepers

-----------------------------------------------------------------------------
(* What a step may do to the claims on rooms *)

\* Outside R and Q, a step takes no nights: a row that blocks a room after it
\* blocked the same nights of it before.
TakesOnly(R, Q) ==
    /\ \A r \in Resv \ R : res'[r].status \in BlockingStatuses =>
          /\ res[r].status \in BlockingStatuses
          /\ res'[r].room = res[r].room /\ res'[r].stay = res[r].stay
    /\ \A q \in Quotes \ Q : (hold'[q] = "active" /\ q \notin lapsed') =>
          /\ hold[q] = "active" /\ q \notin lapsed
          /\ quote'[q].room = quote[q].room /\ quote'[q].stay = quote[q].stay

\* The step writes the nights command c has validated, and no others.
Sells(c) ==
    /\ c.kind \in Sales
    /\ IF c.kind = "quote"
       THEN /\ TakesOnly({}, {c.quote})
            /\ quote'[c.quote].room = c.room /\ quote'[c.quote].stay = c.stay
       ELSE /\ TakesOnly({c.res}, {})
            /\ res'[c.res].room = c.room /\ res'[c.res].stay = c.stay
            /\ c.kind = "convert" => hold'[c.quote] # "active"

\* A transaction that goes on finds the rows it has locked untouched.
Undisturbed(c) ==
    /\ c.kind \in OnReservation => res'[c.res] = res[c.res]
    /\ c.kind \in {"quote", "convert"} => quote'[c.quote] = quote[c.quote]

Ends(t) ==
    /\ txn' = [txn EXCEPT ![t] = Idle]
    /\ \A u \in Txns \ {t} : Undisturbed(txn[u])

StepKinds ==
    \/ \E t \in Txns : Begin(t)
    \/ TakesOnly({}, {}) /\ txn' = txn /\ \A u \in Txns : Undisturbed(txn[u])
    \/ \E t \in Txns : Ends(t) /\ (TakesOnly({}, {}) \/ Sells(txn[t]))

\* A reservation row is written by the command that has locked it.
LEMMA ResLocked ==
    ASSUME TypeInv, LocksExclusive, NEW t \in Txns, NEW row,
           txn[t].kind \in OnReservation,
           res' = [res EXCEPT ![txn[t].res] = row],
           UNCHANGED quote, NEW u \in Txns \ {t}
    PROVE  Undisturbed(txn[u])
<1>1. txn[t].res \in Resv /\ txn[t].res # None
  BY NoneAssumption DEF TypeInv, Shape
<1>2. txn[u].res # txn[t].res
  BY <1>1 DEF LocksExclusive
<1>3. txn[u].kind \in OnReservation => txn[u].res \in Resv
  BY DEF TypeInv, Shape
<1> QED BY <1>2, <1>3 DEF Undisturbed, TypeInv, TypeOK

\* The commits one by one.
LEMMA CommitKinds ==
    ASSUME IInv, NEW t \in Txns, Commit(t)
    PROVE  Ends(t) /\ (TakesOnly({}, {}) \/ Sells(txn[t]))
<1> DEFINE c == txn[t]
<1> USE DEF IInv
<1>1. ASSUME CommitCreate(t) PROVE Ends(t) /\ Sells(c)
  <2>1. c.kind = "create" /\ c.res \in Resv
    BY <1>1 DEF CommitCreate, Close, TypeInv, Shape, OnReservation
  <2>2. Ends(t)
    BY <1>1, <2>1, ResLocked DEF CommitCreate, Close, Ends, OnReservation
  <2>3. TakesOnly({c.res}, {}) /\ res'[c.res].room = c.room /\ res'[c.res].stay = c.stay
    BY <1>1, <2>1 DEF CommitCreate, TakesOnly, TypeInv, TypeOK, NewReservation
  <2> QED BY <2>1, <2>2, <2>3 DEF Sells, Sales
<1>2. ASSUME CommitConvert(t) PROVE Ends(t) /\ Sells(c)
  <2>1. c.kind = "convert" /\ c.res \in Resv /\ c.quote \in Quotes
    BY <1>2 DEF CommitConvert, Close, TypeInv, Shape, OnReservation
  <2>2. \A u \in Txns \ {t} : txn[u].res # c.res /\ txn[u].quote # c.quote
    BY <2>1, NoneAssumption DEF LocksExclusive
  <2>3. Ends(t)
    BY <1>2, <2>1, <2>2 DEF CommitConvert, Close, Ends, Undisturbed, TypeInv, TypeOK, Shape
  <2>4. /\ TakesOnly({c.res}, {}) /\ res'[c.res].room = c.room /\ res'[c.res].stay = c.stay
        /\ hold'[c.quote] # "active"
    BY <1>2, <2>1 DEF CommitConvert, TakesOnly, TypeInv, TypeOK, NewReservation
  <2> QED BY <2>1, <2>3, <2>4 DEF Sells, Sales
<1>3. ASSUME CommitQuote(t) PROVE Ends(t) /\ Sells(c)
  <2>1. c.kind = "quote" /\ c.quote \in Quotes
    BY <1>3 DEF CommitQuote, Close, TypeInv, Shape
  <2> DEFINE row == [status |-> "active", room |-> c.room, stay |-> c.stay, resv |-> None]
  <2>2. /\ quote' = [ExpireQuotes(c.stale) EXCEPT ![c.quote] = row]
        /\ hold' = [ExpireHolds(c.stale) EXCEPT ![c.quote] = "active"]
        /\ UNCHANGED <<res, lapsed>>
        /\ txn' = [txn EXCEPT ![t] = Idle]
        /\ \A q \in c.stale : \A u \in Txns : txn[u].quote # q
    BY <1>3 DEF CommitQuote, Close, QuoteFree
  <2>3. \A u \in Txns \ {t} : txn[u].quote # c.quote
    BY <2>1, NoneAssumption DEF LocksExclusive
  <2>4. \A q \in Quotes : q \notin c.stale => ExpireQuotes(c.stale)[q] = quote[q]
    BY DEF ExpireQuotes
  <2>5. \A q \in Quotes \ {c.quote} : /\ quote'[q] = ExpireQuotes(c.stale)[q]
                                      /\ hold'[q] = ExpireHolds(c.stale)[q]
    BY <2>2, ExpiryUpdates DEF TypeInv
  <2>6. quote'[c.quote].room = c.room /\ quote'[c.quote].stay = c.stay
    BY <2>1, <2>2, ExpiryUpdates DEF TypeInv
  <2>7. ASSUME NEW u \in Txns \ {t} PROVE Undisturbed(txn[u])
    <3>1. txn[u].kind \in {"quote", "convert"} => txn[u].quote \in Quotes
      BY DEF TypeInv, Shape
    <3> QED BY <2>2, <2>3, <2>4, <2>5, <3>1 DEF Undisturbed
  <2>8. TakesOnly({}, {c.quote})
    BY <2>2, <2>5, ExpiryUpdates DEF TakesOnly, TypeInv
  <2> QED BY <2>1, <2>2, <2>6, <2>7, <2>8 DEF Ends, Sells, Sales
<1>4. ASSUME CommitTransition(t) PROVE Ends(t) /\ TakesOnly({}, {})
  <2>1. c.kind \in Actions /\ c.kind \in OnReservation /\ c.res \in Resv
    BY <1>4 DEF CommitTransition, Close, TypeInv, Shape, OnReservation
  <2>2. Ends(t)
    BY <1>4, <2>1, ResLocked DEF CommitTransition, Close, Ends
  <2>3. res[c.res].status \in AllowedFrom[c.kind]
    BY <2>1 DEF AllReady, Ready
  <2>4. NextStatus[c.kind] \in BlockingStatuses => res[c.res].status \in BlockingStatuses
    BY <2>1, <2>3 DEF NextStatus, AllowedFrom, Actions, BlockingStatuses
  <2> QED BY <1>4, <2>1, <2>2, <2>4
          DEF CommitTransition, TakesOnly, TypeInv, TypeOK, ReservationRow
<1>5. ASSUME CommitMove(t) PROVE Ends(t) /\ Sells(c)
  <2>1. c.kind = "move" /\ c.res \in Resv /\ res[c.res].stay = c.stay
    BY <1>5 DEF CommitMove, Close, TypeInv, Shape, OnReservation, AllReady, Ready
  <2>2. Ends(t)
    BY <1>5, <2>1, ResLocked DEF CommitMove, Close, Ends, OnReservation
  <2>3. TakesOnly({c.res}, {}) /\ res'[c.res].room = c.room /\ res'[c.res].stay = c.stay
    BY <1>5, <2>1 DEF CommitMove, TakesOnly, TypeInv, TypeOK, ReservationRow
  <2> QED BY <2>1, <2>2, <2>3 DEF Sells, Sales
<1>6. ASSUME CommitAmend(t) PROVE Ends(t) /\ Sells(c)
  <2>1. c.kind = "amend" /\ c.res \in Resv /\ res[c.res].room = c.room
    BY <1>6 DEF CommitAmend, Close, TypeInv, Shape, OnReservation, AllReady, Ready
  <2>2. Ends(t)
    BY <1>6, <2>1, ResLocked DEF CommitAmend, Close, Ends, OnReservation
  <2>3. TakesOnly({c.res}, {}) /\ res'[c.res].room = c.room /\ res'[c.res].stay = c.stay
    BY <1>6, <2>1 DEF CommitAmend, TakesOnly, TypeInv, TypeOK, ReservationRow
  <2> QED BY <2>1, <2>2, <2>3 DEF Sells, Sales
<1>7. ASSUME CommitBlock(t) PROVE Ends(t) /\ TakesOnly({}, {})
  BY <1>7 DEF CommitBlock, Close, Ends, TakesOnly, Undisturbed
<1> QED BY <1>1, <1>2, <1>3, <1>4, <1>5, <1>6, <1>7 DEF Commit

\* Every step begins a command, ends one, or leaves the commands alone.
LEMMA StepCases ==
    ASSUME IInv, [Next]_vars
    PROVE  StepKinds
<1> USE DEF IInv, StepKinds
<1>1. ASSUME NEW t \in Txns, Rollback(t) PROVE StepKinds
  BY <1>1 DEF Rollback, Ends, TakesOnly, Undisturbed
<1>2. ASSUME NEW q \in Quotes, ReleaseQuote(q) PROVE StepKinds
  <2>1. \A p \in Quotes \ {q} : quote'[p] = quote[p] /\ hold'[p] = hold[p]
    BY <1>2 DEF ReleaseQuote, TypeInv, TypeOK
  <2>2. hold'[q] # "active"
    BY <1>2 DEF ReleaseQuote, TypeInv, TypeOK
  <2>3. TakesOnly({}, {})
    BY <1>2, <2>1, <2>2 DEF ReleaseQuote, TakesOnly
  <2>4. \A u \in Txns : Undisturbed(txn[u])
    BY <1>2, <2>1 DEF ReleaseQuote, QuoteFree, Undisturbed, TypeInv, Shape
  <2> QED BY <1>2, <2>3, <2>4 DEF ReleaseQuote
<1>3. ASSUME NEW q \in Quotes, Lapse(q) PROVE StepKinds
  BY <1>3 DEF Lapse, TakesOnly, Undisturbed
<1>4. ASSUME NEW b \in Blocks, ReleaseBlock(b) PROVE StepKinds
  BY <1>4 DEF ReleaseBlock, TakesOnly, Undisturbed
<1>5. ASSUME NEW rm \in Rooms, SetSellable(rm) PROVE StepKinds
  BY <1>5 DEF SetSellable, TakesOnly, Undisturbed
<1>6. ASSUME NEW p \in Sweepers, SweepRead(p) \/ SweepDies(p) PROVE StepKinds
  BY <1>6 DEF SweepRead, SweepDies, TakesOnly, Undisturbed
<1>7. ASSUME NEW p \in Sweepers, SweepHolds(p) PROVE StepKinds
  <2>1. \A q \in Quotes : hold'[q] = "active" => hold[q] = "active"
    BY <1>7, ExpiryUpdates DEF SweepHolds, TypeInv
  <2> QED BY <1>7, <2>1 DEF SweepHolds, TakesOnly, Undisturbed
<1>8. ASSUME NEW p \in Sweepers, SweepQuotes(p) PROVE StepKinds
  <2>1. \A q \in Quotes : q \notin sweep[p].ids => quote'[q] = quote[q]
    BY <1>8 DEF SweepQuotes, ExpireQuotes
  <2>2. \A q \in Quotes : quote'[q].room = quote[q].room /\ quote'[q].stay = quote[q].stay
    BY <1>8, ExpiryUpdates DEF SweepQuotes, TypeInv
  <2>3. \A u \in Txns : Undisturbed(txn[u])
    BY <1>8, <2>1 DEF SweepQuotes, QuoteFree, Undisturbed, TypeInv, Shape
  <2> QED BY <1>8, <2>2, <2>3 DEF SweepQuotes, TakesOnly
<1>9. ASSUME Midnight PROVE StepKinds
  BY <1>9 DEF Midnight, TakesOnly, Undisturbed
<1>10. CASE UNCHANGED vars
  BY <1>10 DEF vars, TakesOnly, Undisturbed
<1> QED
  BY <1>1, <1>2, <1>3, <1>4, <1>5, <1>6, <1>7, <1>8, <1>9, <1>10, CommitKinds, SubsetAssumption
  DEF Next, Sweep, Sweepers

-----------------------------------------------------------------------------
(* The parts of the invariant, step by step *)

LEMMA OverlapSym == ASSUME NEW s, NEW u PROVE Overlap(s, u) <=> Overlap(u, s)
  BY DEF Overlap

LEMMA LocksStep ==
    ASSUME IInv, StepKinds, TypeInv'
    PROVE  LocksExclusive'
<1>1. ASSUME NEW t \in Txns, Begin(t) PROVE LocksExclusive'
  <2>1. PICK cmd : Sound(cmd) /\ Open(t, cmd)
    BY <1>1, BeginOpens DEF IInv
  <2>2. txn'[t] = cmd /\ \A u \in Txns \ {t} : txn'[u] = txn[u]
    BY <2>1 DEF Open, IInv, TypeInv, TypeOK
  <2> QED BY <2>1, <2>2 DEF Sound, Fresh, LocksExclusive, IInv
<1>2. ASSUME txn' = txn PROVE LocksExclusive'
  BY <1>2 DEF LocksExclusive, IInv
<1>3. ASSUME NEW t \in Txns, Ends(t) PROVE LocksExclusive'
  <2>1. txn'[t] = Idle /\ \A u \in Txns \ {t} : txn'[u] = txn[u]
    BY <1>3 DEF Ends, IInv, TypeInv, TypeOK
  <2> QED BY <2>1 DEF Idle, LocksExclusive, IInv
<1> QED BY <1>1, <1>2, <1>3 DEF StepKinds

\* An undisturbed command finds its rows as it has read them.
LEMMA ReadyKept ==
    ASSUME NEW c, Ready(c), Undisturbed(c)
    PROVE  /\ c.kind \in {"create", "convert"} => res'[c.res].status = "none"
           /\ c.kind \in Actions => res'[c.res].status \in AllowedFrom[c.kind]
           /\ c.kind = "move" => res'[c.res].status \in {"confirmed", "checked_in"}
                                 /\ res'[c.res].stay = c.stay
           /\ c.kind = "amend" => res'[c.res].status \in BlockingStatuses
                                  /\ res'[c.res].room = c.room
           /\ c.kind = "quote" => quote'[c.quote].status = "none"
           /\ c.kind = "convert" => /\ quote'[c.quote].status = "active"
                                    /\ quote'[c.quote].room = c.room
                                    /\ quote'[c.quote].stay = c.stay
  BY DEF Ready, Undisturbed, OnReservation

LEMMA ReadyStep ==
    ASSUME IInv, StepKinds
    PROVE  AllReady'
<1> USE DEF IInv
<1>1. ASSUME NEW t \in Txns, Begin(t) PROVE AllReady'
  <2>1. PICK cmd : Sound(cmd) /\ Open(t, cmd)
    BY <1>1, BeginOpens
  <2>2. txn'[t] = cmd /\ \A u \in Txns \ {t} : txn'[u] = txn[u]
    BY <2>1 DEF Open, TypeInv, TypeOK
  <2>3. UNCHANGED <<res, quote>>
    BY <2>1 DEF Open
  <2> QED BY <2>1, <2>2, <2>3 DEF Sound, AllReady, Ready
<1>2. ASSUME txn' = txn, \A u \in Txns : Undisturbed(txn[u]) PROVE AllReady'
  BY <1>2, ReadyKept DEF AllReady, Ready
<1>3. ASSUME NEW t \in Txns, Ends(t) PROVE AllReady'
  <2>1. txn'[t] = Idle /\ \A u \in Txns \ {t} : txn'[u] = txn[u]
    BY <1>3 DEF Ends, TypeInv, TypeOK
  <2>2. ASSUME NEW u \in Txns \ {t} PROVE Ready(txn[u])'
    <3>1. Ready(txn[u]) /\ Undisturbed(txn[u])
      BY <1>3 DEF Ends, AllReady
    <3>2. txn'[u] = txn[u]
      BY <2>1
    <3> QED BY <3>1, <3>2, ReadyKept DEF Ready
  <2>3. Ready(txn[t])'
    BY <2>1 DEF Idle, Ready, Actions
  <2> QED BY <2>2, <2>3 DEF AllReady
<1> QED BY <1>1, <1>2, <1>3 DEF StepKinds

\* The nights of c are free after the step.
StaysClear(c) ==
    /\ \A r \in Resv \ {c.res} :
          ~(/\ res'[r].status \in BlockingStatuses
            /\ res'[r].room = c.room /\ Overlap(res'[r].stay, c.stay))
    /\ \A q \in Quotes \ {c.quote} :
          ~(/\ hold'[q] = "active" /\ q \notin lapsed'
            /\ quote'[q].room = c.room /\ Overlap(quote'[q].stay, c.stay))

\* The nights a waiting command has validated stay free: another command that
\* commits in between has locked another room.
LEMMA ClearKept ==
    ASSUME IInv, NEW t \in Txns, NEW u \in Txns \ {t},
           TakesOnly({}, {}) \/ Sells(txn[t]),
           txn[u].kind \in Sales
    PROVE  StaysClear(txn[u])
<1> DEFINE c == txn[t]
           d == txn[u]
<1>1. Clear(d)
  BY DEF IInv, AllClear
<1> HIDE DEF d
<1>2. CASE TakesOnly({}, {})
  <2>1. ASSUME NEW r \in Resv \ {d.res}, res'[r].status \in BlockingStatuses,
               res'[r].room = d.room, Overlap(res'[r].stay, d.stay)
        PROVE  FALSE
    BY <1>1, <1>2, <2>1 DEF d, Clear, TakesOnly, Occupies
  <2>2. ASSUME NEW q \in Quotes \ {d.quote}, hold'[q] = "active", q \notin lapsed',
               quote'[q].room = d.room, Overlap(quote'[q].stay, d.stay)
        PROVE  FALSE
    BY <1>1, <1>2, <2>2 DEF d, Clear, TakesOnly, Holds
  <2> QED BY <2>1, <2>2 DEF d, StaysClear
<1>3. CASE Sells(c)
  <2>1. c.kind \in Sales /\ c.room \in c.locks /\ d.room \in d.locks
    BY <1>3 DEF d, Sells, IInv, TypeInv, Shape
  <2>2. c.room # d.room
    BY <2>1 DEF d, IInv, LocksExclusive
  <2>3. ASSUME NEW r \in Resv \ {d.res}, res'[r].status \in BlockingStatuses,
               res'[r].room = d.room, Overlap(res'[r].stay, d.stay)
        PROVE  FALSE
    BY <1>1, <1>3, <2>2, <2>3 DEF d, Clear, Sells, TakesOnly, Occupies
  <2>4. ASSUME NEW q \in Quotes \ {d.quote}, hold'[q] = "active", q \notin lapsed',
               quote'[q].room = d.room, Overlap(quote'[q].stay, d.stay)
        PROVE  FALSE
    BY <1>1, <1>3, <2>2, <2>4 DEF d, Clear, Sells, TakesOnly, Holds
  <2> QED BY <2>3, <2>4 DEF d, StaysClear
<1> QED BY <1>2, <1>3

LEMMA ClearStep ==
    ASSUME IInv, StepKinds
    PROVE  AllClear'
<1>1. ASSUME NEW t \in Txns, Begin(t) PROVE AllClear'
  <2>1. PICK cmd : Sound(cmd) /\ Open(t, cmd)
    BY <1>1, BeginOpens DEF IInv
  <2>2. txn'[t] = cmd /\ \A u \in Txns \ {t} : txn'[u] = txn[u]
    BY <2>1 DEF Open, IInv, TypeInv, TypeOK
  <2>3. UNCHANGED <<res, quote, hold, lapsed>>
    BY <2>1 DEF Open
  <2>4. \A u \in Txns : Clear(txn'[u])
    BY <2>1, <2>2 DEF Sound, IInv, AllClear
  <2> QED BY <2>3, <2>4 DEF AllClear, Clear, Occupies, Holds
<1>2. ASSUME txn' = txn, TakesOnly({}, {}) PROVE AllClear'
  <2>1. ASSUME NEW u \in Txns, txn[u].kind \in Sales
        PROVE  StaysClear(txn[u])
    BY <1>2, <2>1 DEF IInv, AllClear, Clear, TakesOnly, Occupies, Holds, StaysClear
  <2> QED BY <1>2, <2>1 DEF AllClear, Clear, Occupies, Holds, StaysClear
<1>3. ASSUME NEW t \in Txns, Ends(t), TakesOnly({}, {}) \/ Sells(txn[t]) PROVE AllClear'
  <2>1. txn'[t] = Idle /\ \A u \in Txns \ {t} : txn'[u] = txn[u]
    BY <1>3 DEF Ends, IInv, TypeInv, TypeOK
  <2>2. ASSUME NEW u \in Txns, txn'[u].kind \in Sales
        PROVE  StaysClear(txn'[u])
    <3>1. u # t /\ txn'[u] = txn[u]
      BY <2>1, <2>2 DEF Idle, Sales
    <3> QED BY <1>3, <2>2, <3>1, ClearKept
  <2> QED BY <2>2 DEF AllClear, Clear, Occupies, Holds, StaysClear
<1> QED BY <1>1, <1>2, <1>3 DEF StepKinds

\* A step that ends no command, or ends one whose nights are clear, books no
\* night twice and takes no night that is held.
LEMMA BookingStep ==
    ASSUME IInv, NEW t \in Txns, TakesOnly({}, {}) \/ Sells(txn[t])
    PROVE  NoDoubleBooking' /\ HoldsExclusive'
<1> DEFINE c == txn[t]
<1>1. CASE TakesOnly({}, {})
  BY <1>1 DEF IInv, TakesOnly, NoDoubleBooking, HoldsExclusive, Occupies, Holds
<1>2. CASE Sells(c)
  <2>1. Clear(c) /\ c.kind \in Sales
    BY <1>2 DEF IInv, AllClear, Sells
  <2>2. c.kind = "quote" => c.res \notin Resv
    BY NoneAssumption DEF IInv, TypeInv, Shape, OnReservation, Actions
  <2>3. (c.kind # "quote" /\ c.kind # "convert") => c.quote \notin Quotes
    BY NoneAssumption DEF IInv, TypeInv, Shape
  <2>4. ASSUME NEW r1 \in Resv, NEW r2 \in Resv, r1 # r2,
               res'[r1].status \in BlockingStatuses, res'[r2].status \in BlockingStatuses,
               res'[r2].room = res'[r1].room, Overlap(res'[r2].stay, res'[r1].stay)
        PROVE  FALSE
    BY <1>2, <2>1, <2>2, <2>4, OverlapSym
    DEF Clear, Sells, TakesOnly, Occupies, IInv, NoDoubleBooking
  <2>5. ASSUME NEW q \in Quotes, NEW r \in Resv,
               hold'[q] = "active", q \notin lapsed', res'[r].status \in BlockingStatuses,
               res'[r].room = quote'[q].room, Overlap(res'[r].stay, quote'[q].stay)
        PROVE  FALSE
    BY <1>2, <2>1, <2>2, <2>3, <2>5, OverlapSym
    DEF Clear, Sells, TakesOnly, Occupies, Holds, IInv, HoldsExclusive
  <2>6. ASSUME NEW q \in Quotes, NEW p \in Quotes \ {q},
               hold'[q] = "active", q \notin lapsed', hold'[p] = "active", p \notin lapsed',
               quote'[p].room = quote'[q].room, Overlap(quote'[p].stay, quote'[q].stay)
        PROVE  FALSE
    BY <1>2, <2>1, <2>3, <2>6, OverlapSym
    DEF Clear, Sells, TakesOnly, Holds, IInv, HoldsExclusive
  <2> QED BY <2>4, <2>5, <2>6 DEF NoDoubleBooking, HoldsExclusive, Occupies, Holds
<1> QED BY <1>1, <1>2

LEMMA Inductive ==
    ASSUME IInv, [Next]_vars
    PROVE  IInv'
<1>1. StepKinds
  BY StepCases
<1>2. TypeInv'
  BY TypeStep DEF IInv
<1>3. LocksExclusive' /\ AllReady' /\ AllClear'
  BY <1>1, <1>2, LocksStep, ReadyStep, ClearStep
<1>4. NoDoubleBooking' /\ HoldsExclusive'
  <2>1. ASSUME NEW t \in Txns, Begin(t) PROVE NoDoubleBooking' /\ HoldsExclusive'
    <3>1. UNCHANGED <<res, quote, hold, lapsed>>
      BY <2>1, BeginOpens DEF IInv, Open
    <3> QED BY <3>1 DEF IInv, NoDoubleBooking, HoldsExclusive, Occupies, Holds
  <2>2. ASSUME TakesOnly({}, {}) PROVE NoDoubleBooking' /\ HoldsExclusive'
    BY <2>2 DEF IInv, TakesOnly, NoDoubleBooking, HoldsExclusive, Occupies, Holds
  <2> QED BY <1>1, <2>1, <2>2, BookingStep DEF StepKinds
<1> QED BY <1>2, <1>3, <1>4 DEF IInv

LEMMA Initially == Init => IInv
<1> SUFFICES ASSUME Init PROVE IInv
  OBVIOUS
<1>1. TypeInv
  BY TypeInit
<1>2. LocksExclusive
  BY DEF Init, LocksExclusive, Idle
<1>3. AllReady /\ AllClear
  BY DEF Init, AllReady, AllClear, Ready, Clear, Idle, Sales, Actions
<1>4. NoDoubleBooking /\ HoldsExclusive
  BY DEF Init, NoDoubleBooking, HoldsExclusive, BlockingStatuses
<1> QED BY <1>1, <1>2, <1>3, <1>4 DEF IInv

-----------------------------------------------------------------------------
(* Theorems *)

\* The inductive invariant of the reservation services.
THEOREM Invariance == Spec => []IInv
<1>1. Init => IInv
  BY Initially
<1>2. IInv /\ [Next]_vars => IInv'
  BY Inductive
<1> QED BY <1>1, <1>2, PTL DEF Spec

\* Every row and every command has its type (the models' choices and foreign
\* keys), whatever the interleaving.
THEOREM TypeCorrect == Spec => []TypeOK
<1>1. IInv => TypeOK
  BY DEF IInv, TypeInv
<1> QED BY <1>1, Invariance, PTL

\* No room is booked twice for one night by create_reservation, convert_quote,
\* move_reservation_room, amend_reservation_stay and transition_reservation, for
\* any number of rooms, requests and date ranges.
THEOREM NeverDoubleBooked == Spec => []NoDoubleBooking
<1>1. IInv => NoDoubleBooking
  BY DEF IInv
<1> QED BY <1>1, Invariance, PTL

\* A room that is held for an unexpired quote is neither booked nor held for
\* anyone else.
THEOREM HeldForOne == Spec => []HoldsExclusive
<1>1. IInv => HoldsExclusive
  BY DEF IInv
<1> QED BY <1>1, Invariance, PTL

-----------------------------------------------------------------------------
(* What is decided stays decided *)

\* A command never writes the row of a reservation that has ended.
LEMMA EndedStep ==
    ASSUME IInv, [Next]_vars, NEW r \in Resv, res[r].status \in Terminal
    PROVE  res'[r] = res[r]
<1> USE DEF IInv
<1>1. ASSUME NEW t \in Txns, res' # res, Commit(t) PROVE res'[r] = res[r]
  <2>1. /\ txn[t].kind \in {"create", "convert", "move", "amend"} \cup Actions
        /\ \E row : res' = [res EXCEPT ![txn[t].res] = row]
    BY <1>1 DEF Commit, CommitCreate, CommitQuote, CommitConvert, CommitTransition, CommitMove,
                CommitAmend, CommitBlock, Close
  <2>2. res[txn[t].res].status \notin Terminal
    BY <2>1 DEF AllReady, Ready, Terminal, BlockingStatuses, AllowedFrom, Actions
  <2> QED BY <2>1, <2>2 DEF TypeInv, TypeOK
<1>2. ASSUME NEW t \in Txns, Begin(t) PROVE res'[r] = res[r]
  BY <1>2, BeginOpens DEF Open
<1>3. ASSUME NEW t \in Txns, Rollback(t) PROVE res'[r] = res[r]
  BY <1>3 DEF Rollback
<1>4. ASSUME NEW q \in Quotes, ReleaseQuote(q) \/ Lapse(q) PROVE res'[r] = res[r]
  BY <1>4 DEF ReleaseQuote, Lapse
<1>5. ASSUME NEW b \in Blocks, ReleaseBlock(b) PROVE res'[r] = res[r]
  BY <1>5 DEF ReleaseBlock
<1>6. ASSUME NEW rm \in Rooms, SetSellable(rm) PROVE res'[r] = res[r]
  BY <1>6 DEF SetSellable
<1>7. ASSUME \/ \E p \in Sweepers : Sweep(p) \/ SweepDies(p)
             \/ Midnight \/ UNCHANGED vars
      PROVE  res'[r] = res[r]
  BY <1>7 DEF Sweep, SweepRead, SweepHolds, SweepQuotes, SweepDies, Midnight, vars
<1> QED BY <1>1, <1>2, <1>3, <1>4, <1>5, <1>6, <1>7, SubsetAssumption
        DEF Next, Sweepers

\* A reservation that was checked out, cancelled or marked as a no-show is never
\* written again by a move, an amendment or a transition that was under way.
THEOREM EndedForGood == Spec => EndedStaysFrozen
<1>1. IInv /\ [Next]_vars =>
          [\A r \in Resv : res[r].status \in Terminal => res'[r] = res[r]]_vars
  BY EndedStep
<1> QED BY <1>1, Invariance, PTL DEF Spec, EndedStaysFrozen

\* No step rewrites a quote that was converted, cancelled or expired.
LEMMA DecidedStep ==
    ASSUME IInv, [Next]_vars, NEW q \in Quotes,
           quote[q].status \in {"converted", "cancelled", "expired"}
    PROVE  quote'[q] = quote[q]
<1> USE DEF IInv
<1>1. ASSUME NEW t \in Txns, CommitQuote(t) PROVE quote'[q] = quote[q]
  <2>1. txn[t].quote # q
    BY <1>1 DEF CommitQuote, Close, AllReady, Ready
  <2>2. quote'[q] = ExpireQuotes(txn[t].stale)[q]
    BY <1>1, <2>1, ExpiryUpdates DEF CommitQuote, TypeInv
  <2> QED BY <2>2 DEF ExpireQuotes
<1>2. ASSUME NEW t \in Txns, CommitConvert(t) PROVE quote'[q] = quote[q]
  <2>1. txn[t].quote # q
    BY <1>2 DEF CommitConvert, Close, AllReady, Ready
  <2> QED BY <1>2, <2>1 DEF CommitConvert, TypeInv, TypeOK
<1>3. ASSUME NEW t \in Txns,
             CommitCreate(t) \/ CommitTransition(t) \/ CommitMove(t) \/ CommitAmend(t)
             \/ CommitBlock(t) \/ Rollback(t)
      PROVE  quote'[q] = quote[q]
  BY <1>3 DEF CommitCreate, CommitTransition, CommitMove, CommitAmend, CommitBlock, Rollback
<1>4. ASSUME NEW t \in Txns, Begin(t) PROVE quote'[q] = quote[q]
  BY <1>4, BeginOpens DEF Open
<1>5. ASSUME NEW p \in Quotes, ReleaseQuote(p) PROVE quote'[q] = quote[q]
  BY <1>5 DEF ReleaseQuote, TypeInv, TypeOK
<1>6. ASSUME NEW p \in Sweepers, SweepQuotes(p) PROVE quote'[q] = quote[q]
  BY <1>6 DEF SweepQuotes, ExpireQuotes
<1>7. ASSUME NEW p \in Quotes, Lapse(p) PROVE quote'[q] = quote[q]
  BY <1>7 DEF Lapse
<1>8. ASSUME NEW b \in Blocks, ReleaseBlock(b) PROVE quote'[q] = quote[q]
  BY <1>8 DEF ReleaseBlock
<1>9. ASSUME NEW rm \in Rooms, SetSellable(rm) PROVE quote'[q] = quote[q]
  BY <1>9 DEF SetSellable
<1>10. ASSUME \/ \E p \in Sweepers : SweepRead(p) \/ SweepHolds(p) \/ SweepDies(p)
              \/ Midnight \/ UNCHANGED vars
       PROVE  quote'[q] = quote[q]
  BY <1>10 DEF SweepRead, SweepHolds, SweepDies, Midnight, vars
<1> QED BY <1>1, <1>2, <1>3, <1>4, <1>5, <1>6, <1>7, <1>8, <1>9, <1>10, SubsetAssumption
        DEF Next, Commit, Sweep, Sweepers

\* A quote is converted at most once, and neither the expiry job nor a guest who
\* leaves changes a quote that has been decided.
THEOREM DecidedForGood == Spec => QuoteDecidedOnce
<1>1. IInv /\ [Next]_vars =>
          [\A q \in Quotes : quote[q].status \in {"converted", "cancelled", "expired"}
                             => quote'[q] = quote[q]]_vars
  BY DecidedStep
<1> QED BY <1>1, Invariance, PTL DEF Spec, QuoteDecidedOnce

-----------------------------------------------------------------------------
(* Quotes with their holds and promotions.  What expiry has read stays      *)
(* expirable: the ids in its hands have lapsed, and once their holds are    *)
(* written none is active.                                                  *)

Converted == {q \in PromoQuotes : quote[q].status = "converted"}

PairsAgree ==
    \A q \in Quotes :
        /\ (quote[q].status = "active" /\ q \notin lapsed) => hold[q] = "active"
        /\ quote[q].status # "active" => hold[q] # "active"

LapsedExist == \A q \in lapsed : quote[q].status # "none"

StaleLapsed ==
    /\ \A t \in Txns : txn[t].stale \subseteq lapsed
    /\ \A p \in Sweepers : /\ sweep[p].ids \subseteq lapsed
                           /\ sweep[p].at = "quotes" => \A q \in sweep[p].ids : hold[q] # "active"

\* One command at a time has the promotion, and a conversion has found a use left.
LastUse ==
    /\ \A t, u \in Txns : (t # u /\ txn[t].quote \in PromoQuotes) => txn[u].quote \notin PromoQuotes
    /\ \A t \in Txns : (txn[t].kind = "convert" /\ txn[t].quote \in PromoQuotes)
                       => used < UsageLimit

Counted == IsFiniteSet(Converted) /\ used = Cardinality(Converted) /\ used <= UsageLimit

QInv == PairsAgree /\ LapsedExist /\ StaleLapsed /\ LastUse /\ Counted

-----------------------------------------------------------------------------
(* What a step does to the two rows of a quote *)

\* Nothing of the quotes is written, and the ids and commands stay as they are or end.
Aside ==
    /\ UNCHANGED <<quote, hold, lapsed, used>>
    /\ \A t \in Txns : txn'[t] = txn[t] \/ txn'[t] = Idle
    /\ \A p \in Sweepers : sweep'[p] = sweep[p] \/ sweep'[p] = NoSweep

LEMMA AsideSteps ==
    ASSUME IInv,
           \/ \E t \in Txns : \/ CommitCreate(t) \/ CommitTransition(t) \/ CommitMove(t)
                              \/ CommitAmend(t) \/ CommitBlock(t) \/ Rollback(t)
           \/ \E b \in Blocks : ReleaseBlock(b)
           \/ \E rm \in Rooms : SetSellable(rm)
           \/ \E p \in Sweepers : SweepDies(p)
           \/ Midnight
           \/ UNCHANGED vars
    PROVE  Aside
<1>1. txn \in [Txns -> Command] /\ DOMAIN sweep = Sweepers
  BY DEF IInv, TypeInv, TypeOK
<1>2. ASSUME NEW p \in Sweepers, SweepDies(p) PROVE Aside
  BY <1>1, <1>2 DEF SweepDies, Aside
<1>3. ASSUME NEW t \in Txns,
             \/ CommitCreate(t) \/ CommitTransition(t) \/ CommitMove(t)
             \/ CommitAmend(t) \/ CommitBlock(t) \/ Rollback(t)
      PROVE  Aside
  BY <1>1, <1>3 DEF CommitCreate, CommitTransition, CommitMove, CommitAmend, CommitBlock, Rollback,
                    Close, Aside
<1>4. ASSUME \/ \E b \in Blocks : ReleaseBlock(b)
             \/ \E rm \in Rooms : SetSellable(rm)
             \/ Midnight \/ UNCHANGED vars
      PROVE  Aside
  BY <1>4 DEF ReleaseBlock, SetSellable, Midnight, vars, Aside
<1> QED BY <1>2, <1>3, <1>4

LEMMA AsideKeeps == ASSUME QInv, Aside PROVE QInv'
<1>1. PairsAgree' /\ LapsedExist'
  BY DEF QInv, PairsAgree, LapsedExist, Aside
<1>2. StaleLapsed'
  BY DEF QInv, StaleLapsed, Aside, Idle, NoSweep
<1>3. Idle.quote \notin PromoQuotes /\ Idle.kind # "convert"
  BY NoneAssumption, SubsetAssumption DEF Idle
<1>4. LastUse'
  BY <1>3 DEF QInv, LastUse, Aside
<1>5. Counted'
  <2>1. Converted' = Converted
    BY DEF Aside, Converted
  <2> QED BY <2>1 DEF Aside, QInv, Counted
<1> QED BY <1>1, <1>2, <1>4, <1>5 DEF QInv

\* Every Begin has the promotion its command names to itself, with a use left.
Booked(c) ==
    /\ c.stale \subseteq lapsed
    /\ c.quote \in PromoQuotes => PromotionFree(c.quote) /\ used < UsageLimit

LEMMA BeginBooks ==
    ASSUME IInv, NEW t \in Txns, Begin(t)
    PROVE  \E cmd : Booked(cmd) /\ Open(t, cmd)
<1>1. Idle.quote \notin PromoQuotes
  BY NoneAssumption, SubsetAssumption DEF Idle
<1>2. ASSUME NEW q \in Quotes, NEW rm \in Rooms, NEW s \in Stays, BeginQuote(t, q, rm, s)
      PROVE  \E cmd : Booked(cmd) /\ Open(t, cmd)
  <2> DEFINE cmd == [Idle EXCEPT !.kind = "quote", !.locks = {rm}, !.quote = q, !.room = rm,
                            !.stay = s,
                            !.stale = {p \in Quotes : hold[p] = "active" /\ p \in lapsed}]
  <2>1. cmd.quote = q /\ cmd.stale \subseteq lapsed
    BY DEF Idle
  <2>2. Booked(cmd)
    BY <1>2, <2>1 DEF BeginQuote, Booked, PromotionOpen
  <2> QED BY <1>2, <2>2 DEF BeginQuote
<1>3. ASSUME NEW q \in Quotes, NEW r \in Resv, BeginConvert(t, q, r)
      PROVE  \E cmd : Booked(cmd) /\ Open(t, cmd)
  <2> DEFINE cmd == [Idle EXCEPT !.kind = "convert", !.locks = {quote[q].room}, !.res = r,
                            !.quote = q, !.room = quote[q].room, !.stay = quote[q].stay]
  <2>1. cmd.quote = q /\ cmd.stale = {}
    BY DEF Idle
  <2>2. Booked(cmd)
    BY <1>3, <2>1 DEF BeginConvert, Booked, PromotionOpen
  <2> QED BY <1>3, <2>2 DEF BeginConvert
<1>4. ASSUME NEW r \in Resv, NEW rm \in Rooms, NEW s \in Stays, BeginCreate(t, r, rm, s)
      PROVE  \E cmd : Booked(cmd) /\ Open(t, cmd)
  <2> DEFINE cmd == [Idle EXCEPT !.kind = "create", !.locks = {rm}, !.res = r,
                                 !.room = rm, !.stay = s]
  <2>1. Booked(cmd)
    BY <1>1 DEF Idle, Booked
  <2> QED BY <1>4, <2>1 DEF BeginCreate
<1>5. ASSUME NEW r \in Resv, NEW a \in Actions, BeginTransition(t, r, a)
      PROVE  \E cmd : Booked(cmd) /\ Open(t, cmd)
  <2> DEFINE cmd == [Idle EXCEPT !.kind = a, !.locks = {res[r].room}, !.res = r]
  <2>1. Booked(cmd)
    BY <1>1 DEF Idle, Booked
  <2> QED BY <1>5, <2>1 DEF BeginTransition
<1>6. ASSUME NEW r \in Resv, NEW rm \in Rooms, BeginMove(t, r, rm)
      PROVE  \E cmd : Booked(cmd) /\ Open(t, cmd)
  <2> DEFINE cmd == [Idle EXCEPT !.kind = "move", !.locks = {res[r].room, rm}, !.res = r,
                            !.room = rm, !.stay = res[r].stay]
  <2>1. Booked(cmd)
    BY <1>1 DEF Idle, Booked
  <2> QED BY <1>6, <2>1 DEF BeginMove
<1>7. ASSUME NEW r \in Resv, NEW s \in Stays, BeginAmend(t, r, s)
      PROVE  \E cmd : Booked(cmd) /\ Open(t, cmd)
  <2> DEFINE cmd == [Idle EXCEPT !.kind = "amend", !.locks = {res[r].room}, !.res = r,
                            !.room = res[r].room, !.stay = s]
  <2>1. Booked(cmd)
    BY <1>1 DEF Idle, Booked
  <2> QED BY <1>7, <2>1 DEF BeginAmend
<1>8. ASSUME NEW b \in Blocks, NEW rm \in Rooms, NEW s \in Stays, BeginBlock(t, b, rm, s)
      PROVE  \E cmd : Booked(cmd) /\ Open(t, cmd)
  <2> DEFINE cmd == [Idle EXCEPT !.kind = "block", !.locks = {rm}, !.block = b,
                            !.room = rm, !.stay = s]
  <2>1. Booked(cmd)
    BY <1>1 DEF Idle, Booked
  <2> QED BY <1>8, <2>1 DEF BeginBlock
<1> QED BY <1>2, <1>3, <1>4, <1>5, <1>6, <1>7, <1>8 DEF Begin

LEMMA BeginKeeps == ASSUME IInv, QInv, NEW t \in Txns, Begin(t) PROVE QInv'
<1>1. PICK cmd : Booked(cmd) /\ Open(t, cmd)
  BY BeginBooks
<1>2. txn' = [txn EXCEPT ![t] = cmd] /\ UNCHANGED <<quote, hold, lapsed, used, sweep>>
  BY <1>1 DEF Open
<1>3. txn'[t] = cmd /\ \A u \in Txns \ {t} : txn'[u] = txn[u]
  BY <1>2 DEF IInv, TypeInv, TypeOK
<1>4. PairsAgree' /\ LapsedExist'
  BY <1>2 DEF QInv, PairsAgree, LapsedExist
<1>5. StaleLapsed'
  BY <1>1, <1>2, <1>3 DEF QInv, StaleLapsed, Booked
<1>6. LastUse'
  BY <1>1, <1>2, <1>3 DEF QInv, LastUse, Booked, PromotionFree
<1>7. Counted'
  <2>1. Converted' = Converted
    BY <1>2 DEF Converted
  <2> QED BY <1>2, <2>1 DEF QInv, Counted
<1> QED BY <1>4, <1>5, <1>6, <1>7 DEF QInv

-----------------------------------------------------------------------------
(* The steps that write quotes and holds *)

\* A step that turns no hold active that has an id in the hands of a sweeper.
LEMMA StaleKept ==
    ASSUME StaleLapsed, lapsed \subseteq lapsed',
           \A t \in Txns : txn'[t] = txn[t] \/ txn'[t] = Idle,
           UNCHANGED sweep,
           \A q \in lapsed : hold'[q] = "active" => hold[q] = "active"
    PROVE  StaleLapsed'
<1>1. \A t \in Txns : txn'[t].stale \subseteq lapsed'
  BY DEF StaleLapsed, Idle
<1>2. \A p \in Sweepers : sweep'[p].ids \subseteq lapsed'
  BY DEF StaleLapsed
<1>3. ASSUME NEW p \in Sweepers, sweep'[p].at = "quotes", NEW q \in sweep'[p].ids
      PROVE  hold'[q] # "active"
  BY <1>3 DEF StaleLapsed
<1> QED BY <1>1, <1>2, <1>3 DEF StaleLapsed

\* The end of a command, or no command, leaves the promotion's lock exclusive.
LEMMA LastUseKept ==
    ASSUME LastUse, UNCHANGED used, \A t \in Txns : txn'[t] = txn[t] \/ txn'[t] = Idle
    PROVE  LastUse'
<1>1. Idle.quote \notin PromoQuotes /\ Idle.kind # "convert"
  BY NoneAssumption, SubsetAssumption DEF Idle
<1> QED BY <1>1 DEF LastUse

LEMMA CommitQuoteKeeps == ASSUME IInv, QInv, NEW t \in Txns, CommitQuote(t) PROVE QInv'
<1> DEFINE c == txn[t]
<1> USE DEF IInv, QInv
<1>1. c.quote \in Quotes /\ quote[c.quote].status = "none" /\ c.stale \subseteq lapsed
  BY DEF CommitQuote, Close, TypeInv, Shape, AllReady, Ready, StaleLapsed
<1>2. /\ \A u \in Txns : txn'[u] = txn[u] \/ txn'[u] = Idle
      /\ UNCHANGED <<lapsed, used, sweep>>
  BY DEF CommitQuote, Close, TypeInv, TypeOK
<1>3. ASSUME NEW q \in Quotes, q # c.quote
      PROVE  /\ quote'[q] = ExpireQuotes(c.stale)[q]
             /\ hold'[q] = ExpireHolds(c.stale)[q]
  BY <1>3, ExpiryUpdates DEF CommitQuote, TypeInv
<1>4. quote'[c.quote].status = "active" /\ hold'[c.quote] = "active"
  BY <1>1, ExpiryUpdates DEF CommitQuote, TypeInv
<1>5. ASSUME NEW q \in Quotes, q # c.quote
      PROVE  IF q \in c.stale
             THEN /\ hold'[q] = "expired"
                  /\ quote'[q].status = IF quote[q].status = "active" THEN "expired"
                                        ELSE quote[q].status
             ELSE hold'[q] = hold[q] /\ quote'[q] = quote[q]
  <2>1. quote[q] \in QuoteRow
    BY DEF TypeInv, TypeOK
  <2>2. [quote[q] EXCEPT !.status = "expired"].status = "expired"
    BY <2>1 DEF QuoteRow
  <2> QED BY <1>3, <1>5, <2>2 DEF ExpireQuotes, ExpireHolds
<1>6. PairsAgree'
  BY <1>1, <1>2, <1>4, <1>5 DEF PairsAgree
<1>7. LapsedExist'
  BY <1>2, <1>4, <1>5 DEF LapsedExist, TypeInv, TypeOK
<1>8. StaleLapsed'
  <2>1. \A q \in lapsed : q \in Quotes /\ q # c.quote
    BY <1>1 DEF LapsedExist, TypeInv, TypeOK
  <2> QED BY <1>2, <1>5, <2>1, StaleKept
<1>9. LastUse'
  BY <1>2, LastUseKept
<1>10. Counted'
  <2>1. \A q \in Quotes : quote'[q].status = "converted" <=> quote[q].status = "converted"
    BY <1>1, <1>4, <1>5
  <2>2. Converted' = Converted
    BY <2>1, SubsetAssumption DEF Converted
  <2> QED BY <1>2, <2>2 DEF Counted
<1> QED BY <1>6, <1>7, <1>8, <1>9, <1>10

LEMMA CommitConvertKeeps == ASSUME IInv, QInv, NEW t \in Txns, CommitConvert(t) PROVE QInv'
<1> DEFINE c == txn[t]
<1> USE DEF IInv, QInv
<1>1. /\ c.kind = "convert" /\ c.quote \in Quotes
      /\ quote[c.quote].status = "active" /\ quote[c.quote] \in QuoteRow
  BY DEF CommitConvert, Close, TypeInv, TypeOK, Shape, AllReady, Ready
<1>2. /\ txn' = [txn EXCEPT ![t] = Idle]
      /\ UNCHANGED <<lapsed, sweep>>
      /\ \A q \in Quotes \ {c.quote} : quote'[q] = quote[q] /\ hold'[q] = hold[q]
      /\ used' = IF c.quote \in PromoQuotes THEN used + 1 ELSE used
  BY DEF CommitConvert, Close, TypeInv, TypeOK
<1>3. quote'[c.quote].status = "converted" /\ hold'[c.quote] = "converted"
  BY <1>1 DEF CommitConvert, TypeInv, TypeOK, QuoteRow
<1>4. \A u \in Txns : txn'[u] = IF u = t THEN Idle ELSE txn[u]
  BY <1>2 DEF TypeInv, TypeOK
<1>5. PairsAgree' /\ LapsedExist'
  BY <1>2, <1>3 DEF PairsAgree, LapsedExist, TypeInv, TypeOK
<1>6. StaleLapsed'
  BY <1>2, <1>3, <1>4, StaleKept DEF TypeInv, TypeOK
<1>7. LastUse'
  <2>1. Idle.quote \notin PromoQuotes /\ Idle.kind # "convert"
    BY NoneAssumption, SubsetAssumption DEF Idle
  <2>2. c.quote \in PromoQuotes => \A u \in Txns \ {t} : txn[u].quote \notin PromoQuotes
    BY DEF LastUse
  <2> QED BY <1>2, <1>4, <2>1, <2>2 DEF LastUse
<1>8. Counted'
  <2>1. CASE c.quote \in PromoQuotes
    <3>1. Converted' = Converted \cup {c.quote} /\ c.quote \notin Converted
      BY <1>1, <1>2, <1>3, <2>1, SubsetAssumption DEF Converted
    <3>2. IsFiniteSet(Converted') /\ Cardinality(Converted') = Cardinality(Converted) + 1
      BY <3>1, FS_AddElement DEF Counted
    <3>3. used < UsageLimit /\ used \in Nat
      BY <1>1, <2>1 DEF LastUse, TypeInv, TypeOK
    <3> QED BY <1>2, <2>1, <3>2, <3>3, LimitAssumption DEF Counted
  <2>2. CASE c.quote \notin PromoQuotes
    <3>1. Converted' = Converted
      BY <1>2, <2>2, SubsetAssumption DEF Converted
    <3> QED BY <1>2, <2>2, <3>1 DEF Counted
  <2> QED BY <2>1, <2>2
<1> QED BY <1>5, <1>6, <1>7, <1>8

\* release_quote writes the two rows of an active quote together.
LEMMA ReleaseKeeps == ASSUME IInv, QInv, NEW q \in Quotes, ReleaseQuote(q) PROVE QInv'
<1> USE DEF IInv, QInv
<1>1. /\ quote[q].status = "active" /\ quote[q] \in QuoteRow
      /\ UNCHANGED <<lapsed, used, txn, sweep>>
      /\ \A p \in Quotes \ {q} : quote'[p] = quote[p] /\ hold'[p] = hold[p]
  BY DEF ReleaseQuote, TypeInv, TypeOK
<1>2. quote'[q].status = "cancelled" /\ hold'[q] # "active"
  BY <1>1 DEF ReleaseQuote, TypeInv, TypeOK, QuoteRow
<1>3. PairsAgree' /\ LapsedExist'
  BY <1>1, <1>2 DEF PairsAgree, LapsedExist, TypeInv, TypeOK
<1>4. StaleLapsed'
  BY <1>1, <1>2, StaleKept DEF TypeInv, TypeOK
<1>5. LastUse'
  BY <1>1, LastUseKept
<1>6. Counted'
  <2>1. Converted' = Converted
    BY <1>1, <1>2, SubsetAssumption DEF Converted
  <2> QED BY <1>1, <2>1 DEF Counted
<1> QED BY <1>3, <1>4, <1>5, <1>6

LEMMA LapseKeeps == ASSUME IInv, QInv, NEW q \in Quotes, Lapse(q) PROVE QInv'
<1> USE DEF IInv, QInv
<1>1. /\ UNCHANGED <<quote, hold, used, txn, sweep>>
      /\ lapsed' = lapsed \cup {q} /\ hold[q] = "active"
  BY DEF Lapse
<1>2. PairsAgree' /\ LapsedExist'
  BY <1>1 DEF PairsAgree, LapsedExist
<1>3. StaleLapsed'
  BY <1>1, StaleKept
<1>4. LastUse'
  BY <1>1, LastUseKept
<1>5. Counted'
  <2>1. Converted' = Converted
    BY <1>1 DEF Converted
  <2> QED BY <1>1, <2>1 DEF Counted
<1> QED BY <1>2, <1>3, <1>4, <1>5

\* Each statement of expire_stale_holds, whoever else is between two of them.
LEMMA SweepKeeps == ASSUME IInv, QInv, NEW p \in Sweepers, Sweep(p) PROVE QInv'
<1> DEFINE ids == sweep[p].ids
<1> USE DEF IInv, QInv
<1>1. /\ UNCHANGED <<lapsed, used, txn>> /\ ids \subseteq lapsed
      /\ \A u \in Sweepers \ {p} : sweep'[u] = sweep[u]
  BY DEF Sweep, SweepRead, SweepHolds, SweepQuotes, StaleLapsed, TypeInv, TypeOK
<1>2. LastUse'
  BY <1>1, LastUseKept
<1>3. CASE SweepRead(p)
  <2>1. /\ UNCHANGED <<quote, hold>>
        /\ sweep'[p].at = "holds" /\ sweep'[p].ids \subseteq lapsed
    BY <1>3 DEF SweepRead, TypeInv, TypeOK
  <2>2. PairsAgree' /\ LapsedExist'
    BY <1>1, <2>1 DEF PairsAgree, LapsedExist
  <2>3. StaleLapsed'
    BY <1>1, <2>1 DEF StaleLapsed
  <2>4. Converted' = Converted
    BY <2>1 DEF Converted
  <2> QED BY <1>1, <1>2, <2>2, <2>3, <2>4 DEF Counted
<1>4. CASE SweepHolds(p)
  <2>1. /\ UNCHANGED quote
        /\ \A q \in Quotes : hold'[q] = IF q \in ids THEN "expired" ELSE hold[q]
        /\ sweep'[p].ids = ids
    BY <1>4 DEF SweepHolds, ExpireHolds, TypeInv, TypeOK
  <2>2. PairsAgree' /\ LapsedExist'
    BY <1>1, <2>1 DEF PairsAgree, LapsedExist
  <2>3. StaleLapsed'
    <3>1. ASSUME NEW u \in Sweepers, sweep'[u].at = "quotes", NEW q \in sweep'[u].ids
          PROVE  q \in Quotes /\ hold'[q] # "active"
      BY <1>1, <2>1, <3>1 DEF StaleLapsed, TypeInv, TypeOK
    <3> QED BY <1>1, <2>1, <3>1 DEF StaleLapsed
  <2>4. Converted' = Converted
    BY <2>1 DEF Converted
  <2> QED BY <1>1, <1>2, <2>2, <2>3, <2>4 DEF Counted
<1>5. CASE SweepQuotes(p)
  <2>1. /\ UNCHANGED hold /\ sweep'[p] = NoSweep
        /\ \A q \in ids : hold[q] # "active"
    BY <1>5 DEF SweepQuotes, StaleLapsed, TypeInv, TypeOK
  <2>2. ASSUME NEW q \in Quotes
        PROVE  quote'[q].status = IF q \in ids /\ quote[q].status = "active" THEN "expired"
                                  ELSE quote[q].status
    <3>1. quote[q] \in QuoteRow
      BY DEF TypeInv, TypeOK
    <3>2. [quote[q] EXCEPT !.status = "expired"].status = "expired"
      BY <3>1 DEF QuoteRow
    <3> QED BY <1>5, <3>2 DEF SweepQuotes, ExpireQuotes
  <2>3. PairsAgree' /\ LapsedExist'
    BY <1>1, <2>1, <2>2 DEF PairsAgree, LapsedExist, TypeInv, TypeOK
  <2>4. StaleLapsed'
    BY <1>1, <2>1 DEF StaleLapsed, NoSweep
  <2>5. Converted' = Converted
    BY <2>2, SubsetAssumption DEF Converted
  <2> QED BY <1>1, <1>2, <2>3, <2>4, <2>5 DEF Counted
<1> QED BY <1>3, <1>4, <1>5 DEF Sweep

-----------------------------------------------------------------------------
(* Theorems *)

LEMMA QuotesStart == Init => QInv
<1> SUFFICES ASSUME Init PROVE QInv
  OBVIOUS
<1>1. PairsAgree /\ LapsedExist /\ StaleLapsed
  BY DEF Init, PairsAgree, LapsedExist, StaleLapsed, Idle, NoSweep
<1>2. LastUse
  BY NoneAssumption, SubsetAssumption DEF Init, Idle, LastUse
<1>3. Counted
  <2>1. Converted = {}
    BY SubsetAssumption DEF Init, Converted
  <2> QED BY <2>1, FS_EmptySet, LimitAssumption DEF Init, Counted
<1> QED BY <1>1, <1>2, <1>3 DEF QInv

LEMMA QuotesStep == IInv /\ QInv /\ [Next]_vars => QInv'
<1> SUFFICES ASSUME IInv, QInv, [Next]_vars PROVE QInv'
  OBVIOUS
<1>1. ASSUME NEW t \in Txns, Begin(t) \/ CommitQuote(t) \/ CommitConvert(t) PROVE QInv'
  BY <1>1, BeginKeeps, CommitQuoteKeeps, CommitConvertKeeps
<1>2. ASSUME NEW q \in Quotes, ReleaseQuote(q) \/ Lapse(q) PROVE QInv'
  BY <1>2, ReleaseKeeps, LapseKeeps
<1>3. ASSUME NEW p \in Sweepers, Sweep(p) PROVE QInv'
  BY <1>3, SweepKeeps
<1>4. ASSUME Aside PROVE QInv'
  BY <1>4, AsideKeeps
<1> QED BY <1>1, <1>2, <1>3, <1>4, AsideSteps, SubsetAssumption DEF Next, Commit, Sweepers

\* However conversions, releases, lapses and any number of expiry runs interleave, and
\* wherever a run dies, a quote and its hold agree and every use of the promotion is
\* counted and paid for by a conversion.
THEOREM QuotesConsistent == Spec => []QuoteRowsAgree
<1>1. IInv /\ QInv => QuoteRowsAgree
  BY DEF QInv, PairsAgree, Counted, Converted, QuoteRowsAgree
<1> QED BY <1>1, QuotesStart, QuotesStep, Invariance, PTL DEF Spec


-----------------------------------------------------------------------------
(* Nothing is sold that is off sale.  A manager who closes the room or      *)
(* blocks it needs the row lock that a command has held since it looked.    *)

StillOnSale ==
    \A t \in Txns : txn[t].kind \in Sales => OnSale(txn[t].room, txn[t].stay)

\* Every Begin has found the room it wants on sale.
LEMMA BeginOnSale ==
    ASSUME IInv, NEW t \in Txns, Begin(t)
    PROVE  \E cmd : /\ cmd.kind \in Sales => OnSale(cmd.room, cmd.stay)
                    /\ Open(t, cmd)
<1> USE DEF Idle, Sales, ValidStay, OnSale
<1>1. ASSUME NEW r \in Resv, NEW rm \in Rooms, NEW s \in Stays, BeginCreate(t, r, rm, s)
      PROVE  OnSale(rm, s)
  BY <1>1 DEF BeginCreate
<1>2. ASSUME NEW q \in Quotes, NEW rm \in Rooms, NEW s \in Stays, BeginQuote(t, q, rm, s)
      PROVE  OnSale(rm, s)
  BY <1>2 DEF BeginQuote
<1>3. ASSUME NEW q \in Quotes, NEW r \in Resv, BeginConvert(t, q, r)
      PROVE  OnSale(quote[q].room, quote[q].stay)
  BY <1>3 DEF BeginConvert
<1>4. ASSUME NEW r \in Resv, NEW rm \in Rooms, BeginMove(t, r, rm)
      PROVE  OnSale(rm, res[r].stay)
  BY <1>4 DEF BeginMove
<1>5. ASSUME NEW r \in Resv, NEW s \in Stays, BeginAmend(t, r, s)
      PROVE  OnSale(res[r].room, s)
  BY <1>5 DEF BeginAmend
<1> HIDE DEF ValidStay, OnSale
<1>6. ASSUME NEW r \in Resv, NEW a \in Actions, BeginTransition(t, r, a)
      PROVE  \E cmd : cmd.kind \notin Sales /\ Open(t, cmd)
  BY <1>6 DEF BeginTransition, Actions
<1>7. ASSUME NEW b \in Blocks, NEW rm \in Rooms, NEW s \in Stays, BeginBlock(t, b, rm, s)
      PROVE  \E cmd : cmd.kind \notin Sales /\ Open(t, cmd)
  BY <1>7 DEF BeginBlock
<1>8. CASE \E r \in Resv, rm \in Rooms, s \in Stays : BeginCreate(t, r, rm, s)
  BY <1>1, <1>8 DEF BeginCreate
<1>9. CASE \E q \in Quotes, rm \in Rooms, s \in Stays : BeginQuote(t, q, rm, s)
  BY <1>2, <1>9 DEF BeginQuote
<1>10. CASE \E q \in Quotes, r \in Resv : BeginConvert(t, q, r)
  BY <1>3, <1>10 DEF BeginConvert
<1>11. CASE \E r \in Resv, rm \in Rooms : BeginMove(t, r, rm)
  BY <1>4, <1>11 DEF BeginMove
<1>12. CASE \E r \in Resv, s \in Stays : BeginAmend(t, r, s)
  BY <1>5, <1>12 DEF BeginAmend
<1> QED BY <1>6, <1>7, <1>8, <1>9, <1>10, <1>11, <1>12 DEF Begin

\* A step that neither begins a command nor closes or blocks a room takes nothing off sale.
LEMMA OnSaleKept ==
    ASSUME IInv, StillOnSale,
           \A t \in Txns : txn'[t] = txn[t] \/ txn'[t] = Idle,
           \A rm \in closed' \ closed : RoomFree(rm),
           \A b \in Blocks : (block'[b].status = "active" /\ block'[b] # block[b])
                              => \E t \in Txns : /\ txn'[t] = Idle
                                                 /\ block'[b].room \in txn[t].locks
    PROVE  StillOnSale'
<1> SUFFICES ASSUME NEW t \in Txns, txn'[t].kind \in Sales
             PROVE  /\ txn'[t].room \notin closed'
                    /\ \A b \in Blocks : ~(/\ block'[b].status = "active"
                                           /\ block'[b].room = txn'[t].room
                                           /\ Overlap(block'[b].stay, txn'[t].stay))
  BY DEF StillOnSale, OnSale, Bars
<1>1. txn'[t] = txn[t]
  BY DEF Idle, Sales
<1>2. OnSale(txn[t].room, txn[t].stay) /\ txn[t].room \in txn[t].locks
  BY <1>1 DEF StillOnSale, IInv, TypeInv, Shape
<1>3. txn[t].room \notin closed'
  BY <1>2 DEF OnSale, RoomFree
<1>4. ASSUME NEW b \in Blocks, block'[b].status = "active", block'[b].room = txn[t].room,
             block'[b] # block[b]
      PROVE  FALSE
  <2>1. PICK u \in Txns : txn'[u] = Idle /\ block'[b].room \in txn[u].locks
    BY <1>4
  <2>2. u # t
    BY <1>1, <2>1 DEF Idle, Sales
  <2> QED BY <1>2, <1>4, <2>1, <2>2 DEF IInv, LocksExclusive
<1>5. \A b \in Blocks : block'[b] = block[b] => ~(/\ block'[b].status = "active"
                                                  /\ block'[b].room = txn[t].room
                                                  /\ Overlap(block'[b].stay, txn[t].stay))
  BY <1>2 DEF OnSale, Bars
<1> QED BY <1>1, <1>3, <1>4, <1>5

LEMMA OnSaleStep == IInv /\ StillOnSale /\ [Next]_vars => StillOnSale'
<1> SUFFICES ASSUME IInv, StillOnSale, [Next]_vars PROVE StillOnSale'
  OBVIOUS
<1>1. txn \in [Txns -> Command]
  BY DEF IInv, TypeInv, TypeOK
<1>2. ASSUME NEW t \in Txns, Begin(t) PROVE StillOnSale'
  <2>1. PICK cmd : (cmd.kind \in Sales => OnSale(cmd.room, cmd.stay)) /\ Open(t, cmd)
    BY <1>2, BeginOnSale
  <2>2. txn'[t] = cmd /\ \A u \in Txns \ {t} : txn'[u] = txn[u]
    BY <1>1, <2>1 DEF Open
  <2>3. UNCHANGED <<closed, block>>
    BY <2>1 DEF Open
  <2> QED BY <2>1, <2>2, <2>3 DEF StillOnSale, OnSale, Bars
<1>3. ASSUME NEW t \in Txns, CommitBlock(t) PROVE StillOnSale'
  <2>1. PICK b \in Blocks : /\ txn[t].block = b
                            /\ block' = [block EXCEPT ![b] = [status |-> "active",
                                           room |-> txn[t].room, stay |-> txn[t].stay]]
    BY <1>3 DEF CommitBlock
  <2>2. txn' = [txn EXCEPT ![t] = Idle] /\ closed' = closed /\ txn[t].kind = "block"
    BY <1>3 DEF CommitBlock, Close
  <2>3. txn[t].room \in txn[t].locks
    BY <2>2 DEF IInv, TypeInv, Shape
  <2>4. \A c \in Blocks : block'[c] # block[c] => block'[c].room = txn[t].room
    BY <2>1 DEF IInv, TypeInv, TypeOK
  <2> QED BY <1>1, <2>2, <2>3, <2>4, OnSaleKept
<1>4. ASSUME NEW b \in Blocks, ReleaseBlock(b) PROVE StillOnSale'
  <2>1. \A c \in Blocks : block'[c] # block[c] => block'[c].status = "released"
    BY <1>4 DEF ReleaseBlock, IInv, TypeInv, TypeOK, BlockRow
  <2> QED BY <1>4, <2>1, OnSaleKept DEF ReleaseBlock
<1>5. ASSUME NEW rm \in Rooms, SetSellable(rm) PROVE StillOnSale'
  BY <1>5, OnSaleKept DEF SetSellable
<1>6. ASSUME NEW t \in Txns,
             \/ CommitCreate(t) \/ CommitQuote(t) \/ CommitConvert(t) \/ CommitTransition(t)
             \/ CommitMove(t) \/ CommitAmend(t) \/ Rollback(t)
      PROVE  StillOnSale'
  <2>1. txn' = [txn EXCEPT ![t] = Idle] /\ UNCHANGED <<closed, block>>
    BY <1>6 DEF CommitCreate, CommitQuote, CommitConvert, CommitTransition, CommitMove,
                CommitAmend, Rollback, Close
  <2> QED BY <1>1, <2>1, OnSaleKept
<1>7. ASSUME \/ \E q \in Quotes : ReleaseQuote(q) \/ Lapse(q)
             \/ \E p \in Sweepers : Sweep(p) \/ SweepDies(p)
             \/ Midnight \/ UNCHANGED vars
      PROVE  StillOnSale'
  <2>1. UNCHANGED <<txn, closed, block>>
    BY <1>7 DEF ReleaseQuote, Lapse, Sweep, SweepRead, SweepHolds, SweepQuotes, SweepDies,
                Midnight, vars
  <2> QED BY <2>1 DEF StillOnSale, OnSale, Bars
<1> QED BY <1>2, <1>3, <1>4, <1>5, <1>6, <1>7, SubsetAssumption DEF Next, Commit, Sweepers

\* A row that newly takes nights is the row of a command that has validated them.
Sold ==
    /\ \A r \in Resv :
          (/\ res'[r].status \in BlockingStatuses
           /\ \/ <<res'[r].room, res'[r].stay>> # <<res[r].room, res[r].stay>>
              \/ res[r].status \notin BlockingStatuses)
          => OnSale(res'[r].room, res'[r].stay)
    /\ \A q \in Quotes : (hold'[q] = "active" /\ hold[q] # "active")
          => OnSale(quote'[q].room, quote'[q].stay)

LEMMA SoldStep == IInv /\ StillOnSale /\ [Next]_vars => Sold
<1> SUFFICES ASSUME IInv, StillOnSale, [Next]_vars PROVE Sold
  OBVIOUS
<1>1. ASSUME NEW q \in Quotes, hold'[q] = "active", hold[q] # "active"
      PROVE  \E t \in Txns : CommitQuote(t) /\ q = txn[t].quote
  <2>1. \A ids : ExpireHolds(ids)[q] # "active"
    BY <1>1 DEF ExpireHolds
  <2>2. hold \in [Quotes -> HoldStatus]
    BY DEF IInv, TypeInv, TypeOK
  <2>3. ASSUME NEW t \in Txns, CommitQuote(t) PROVE q = txn[t].quote
    BY <1>1, <2>1, <2>3 DEF CommitQuote, ExpireHolds
  <2>4. hold' # hold
    BY <1>1
  <2>5. ASSUME NEW t \in Txns, CommitConvert(t) PROVE FALSE
    BY <1>1, <2>2, <2>5 DEF CommitConvert
  <2>6. ASSUME NEW p \in Quotes, ReleaseQuote(p) PROVE FALSE
    BY <1>1, <2>2, <2>6 DEF ReleaseQuote
  <2>7. ASSUME NEW p \in Sweepers, Sweep(p) PROVE FALSE
    BY <1>1, <2>1, <2>7 DEF Sweep, SweepRead, SweepHolds, SweepQuotes
  <2>8. ASSUME NEW t \in Txns, Begin(t) PROVE FALSE
    BY <2>4, <2>8, BeginOpens DEF IInv, Open
  <2> QED BY <2>3, <2>4, <2>5, <2>6, <2>7, <2>8, SubsetAssumption
          DEF Next, Commit, CommitCreate, CommitTransition, CommitMove, CommitAmend, CommitBlock,
              Rollback, Lapse, ReleaseBlock, SetSellable, SweepDies, Midnight, vars, Sweepers
<1>2. ASSUME NEW q \in Quotes, hold'[q] = "active", hold[q] # "active"
      PROVE  OnSale(quote'[q].room, quote'[q].stay)
  <2>1. PICK t \in Txns : CommitQuote(t) /\ q = txn[t].quote
    BY <1>1, <1>2
  <2>2. txn[t].kind = "quote"
    BY <2>1 DEF CommitQuote, Close
  <2>3. quote'[q].room = txn[t].room /\ quote'[q].stay = txn[t].stay
    BY <2>1, <2>2, ExpiryUpdates DEF CommitQuote, IInv, TypeInv
  <2> QED BY <2>2, <2>3 DEF StillOnSale, Sales
<1>3. ASSUME NEW r \in Resv, res'[r].status \in BlockingStatuses,
             \/ <<res'[r].room, res'[r].stay>> # <<res[r].room, res[r].stay>>
             \/ res[r].status \notin BlockingStatuses
      PROVE  OnSale(res'[r].room, res'[r].stay)
  <2>1. ~TakesOnly({}, {})
    BY <1>3 DEF TakesOnly
  <2>2. \A t \in Txns : ~Begin(t)
    BY <1>3, BeginOpens DEF Open, IInv
  <2>3. PICK t \in Txns : Sells(txn[t])
    BY <2>1, <2>2, StepCases DEF StepKinds
  <2>4. r = txn[t].res /\ res'[r].room = txn[t].room /\ res'[r].stay = txn[t].stay
    BY <1>3, <2>3 DEF Sells, TakesOnly
  <2> QED BY <2>3, <2>4 DEF Sells, StillOnSale
<1> QED BY <1>2, <1>3 DEF Sold

LEMMA OnSaleStart == Init => StillOnSale
  BY DEF Init, StillOnSale, Idle, Sales

\* No booking, move, amendment or hold ever newly takes nights of a room that is blocked
\* or off sale when it is written, although managers close and block rooms at any time.
THEOREM OnlyOpenSold == Spec => SoldOnlyOpen
<1>1. IInv /\ StillOnSale /\ [Next]_vars => [Sold]_vars
  BY SoldStep
<1> QED BY <1>1, OnSaleStart, OnSaleStep, Invariance, PTL DEF Spec, SoldOnlyOpen, Sold

-----------------------------------------------------------------------------
(* The calendar.  A step of the services trades the nights of one claimant, *)
(* hands a quote's nights to its reservation, or leaves every claim alone.  *)

Claimants == Resv \cup Quotes
NightsOf(rm, s) == {rm} \X (s.in .. (s.out - 1))

\* Two stays of different rooms, or that do not overlap, have no night in common.
LEMMA Disjoint ==
    ASSUME NEW rm, NEW rn, NEW s \in Stays, NEW u \in Stays, ~(rm = rn /\ Overlap(s, u))
    PROVE  NightsOf(rm, s) \cap NightsOf(rn, u) = {}
<1> SUFFICES ASSUME NEW x \in NightsOf(rm, s), x \in NightsOf(rn, u) PROVE FALSE
  OBVIOUS
<1>1. x[1] = rm /\ x[1] = rn /\ x[2] \in s.in .. (s.out - 1) /\ x[2] \in u.in .. (u.out - 1)
  BY DEF NightsOf
<1>2. s.in \in Nat /\ s.out \in Nat /\ u.in \in Nat /\ u.out \in Nat
  BY StaysAssumption
<1>3. s.in < u.out /\ u.in < s.out
  BY <1>1, <1>2
<1> QED BY <1>1, <1>3 DEF Overlap

\* What a reservation and a quote claim, before and after a step.
LEMMA ClaimOf ==
    /\ \A r \in Resv : /\ res[r].status \in BlockingStatuses
                             => Claim(r) = NightsOf(res[r].room, res[r].stay)
                       /\ res[r].status \notin BlockingStatuses => Claim(r) = {}
    /\ \A q \in Quotes : /\ (hold[q] = "active" /\ q \notin lapsed)
                               => Claim(q) = NightsOf(quote[q].room, quote[q].stay)
                         /\ ~(hold[q] = "active" /\ q \notin lapsed) => Claim(q) = {}
  BY KeysAssumption DEF Claim, NightsOf

LEMMA ClaimAfter ==
    /\ \A r \in Resv : /\ res'[r].status \in BlockingStatuses
                             => Claim(r)' = NightsOf(res'[r].room, res'[r].stay)
                       /\ res'[r].status \notin BlockingStatuses => Claim(r)' = {}
    /\ \A q \in Quotes : /\ (hold'[q] = "active" /\ q \notin lapsed')
                               => Claim(q)' = NightsOf(quote'[q].room, quote'[q].stay)
                         /\ ~(hold'[q] = "active" /\ q \notin lapsed') => Claim(q)' = {}
  BY KeysAssumption DEF Claim, NightsOf

\* A row that a step leaves alone claims what it claimed.
LEMMA SameClaim ==
    /\ \A r \in Resv : res'[r] = res[r] => Claim(r)' = Claim(r)
    /\ \A q \in Quotes : (/\ hold'[q] = "active" <=> hold[q] = "active"
                          /\ q \in lapsed' <=> q \in lapsed
                          /\ quote'[q].room = quote[q].room /\ quote'[q].stay = quote[q].stay)
                         => Claim(q)' = Claim(q)
  BY KeysAssumption DEF Claim

Claimed == [c \in Claimants |-> Claim(c)]

LEMMA Traded ==
    ASSUME NEW c \in Claimants, NEW new \in Calendar!Claims, Claim(c)' = new,
           \A d \in Claimants \ {c} : Claim(d)' = Claim(d) /\ Claim(d) \cap new = {}
    PROVE  Calendar!Next
<1>1. \A d \in Claimants \ {c} : Claimed[d] \cap new = {}
  BY DEF Claimed
<1>2. Claimed' = [Claimed EXCEPT ![c] = new]
  BY DEF Claimed
<1>3. Calendar!Exchange(c, new)
  BY <1>1, <1>2 DEF Calendar!Exchange, Claimed, Claimants
<1> QED BY <1>3 DEF Calendar!Next, Claimants

LEMMA Handed ==
    ASSUME NEW c \in Claimants, NEW d \in Claimants, c # d, Claim(d) = {},
           Claim(d)' = Claim(c), Claim(c)' = {},
           \A e \in Claimants \ {c, d} : Claim(e)' = Claim(e)
    PROVE  Calendar!Next
<1>1. Claimed' = [Claimed EXCEPT ![d] = Claimed[c], ![c] = {}]
  BY DEF Claimed
<1>2. Calendar!HandOver(c, d)
  BY <1>1 DEF Calendar!HandOver, Claimed, Claimants
<1> QED BY <1>2 DEF Calendar!Next, Claimants

LEMMA Undone ==
    ASSUME \A c \in Claimants : Claim(c)' = Claim(c)
    PROVE  Claimed' = Claimed
  BY DEF Claimed

LEMMA NightsClaimable ==
    /\ {} \in Calendar!Claims
    /\ \A rm \in Rooms, s \in Stays : NightsOf(rm, s) \in Calendar!Claims
  BY DEF Calendar!Claims, Calendar!Nights, NightsOf

CalendarStep == Calendar!Next \/ Claimed' = Claimed

\* A command's nights are claimed by nobody but the rows it writes.
LEMMA ClearNights ==
    ASSUME IInv, QInv, NEW c, Clear(c), c.kind \in Sales, c.room \in Rooms, c.stay \in Stays
    PROVE  \A d \in Claimants \ {c.res, c.quote} : Claim(d) \cap NightsOf(c.room, c.stay) = {}
<1>1. ASSUME NEW r \in Resv, r # c.res
      PROVE  Claim(r) \cap NightsOf(c.room, c.stay) = {}
  <2>1. CASE res[r].status \in BlockingStatuses
    <3>1. res[r].stay \in Stays
      BY <2>1 DEF BlockingStatuses, IInv, TypeInv, RowsExist
    <3>2. ~(res[r].room = c.room /\ Overlap(res[r].stay, c.stay))
      BY <1>1, <2>1 DEF Clear, Occupies
    <3> QED BY <2>1, <3>1, <3>2, ClaimOf, Disjoint
  <2> QED BY <2>1, ClaimOf
<1>2. ASSUME NEW q \in Quotes, q # c.quote
      PROVE  Claim(q) \cap NightsOf(c.room, c.stay) = {}
  <2>1. CASE hold[q] = "active" /\ q \notin lapsed
    <3>1. quote[q].stay \in Stays
      BY <2>1 DEF IInv, TypeInv, RowsExist, QInv, PairsAgree
    <3>2. ~(quote[q].room = c.room /\ Overlap(quote[q].stay, c.stay))
      BY <1>2, <2>1 DEF Clear, Holds
    <3> QED BY <2>1, <3>1, <3>2, ClaimOf, Disjoint
  <2> QED BY <2>1, ClaimOf
<1> QED BY <1>1, <1>2 DEF Claimants

\* A command on one reservation trades its nights.
LEMMA ReservationTrades ==
    ASSUME IInv, QInv, NEW t \in Txns,
           CommitCreate(t) \/ CommitTransition(t) \/ CommitMove(t) \/ CommitAmend(t)
    PROVE  CalendarStep
<1> DEFINE c == txn[t]
<1>1. UNCHANGED <<quote, hold, lapsed>>
  BY DEF CommitCreate, CommitTransition, CommitMove, CommitAmend
<1>2. c.kind \in OnReservation /\ c.res \in Resv /\ c.quote \notin Quotes
  BY NoneAssumption DEF CommitCreate, CommitTransition, CommitMove, CommitAmend, Close, IInv,
                        TypeInv, Shape, OnReservation, Actions
<1> PICK r \in Resv : r = c.res
  BY <1>2
<1>3. \A d \in Resv \ {r} : res'[d] = res[d]
  BY DEF CommitCreate, CommitTransition, CommitMove, CommitAmend, IInv, TypeInv, TypeOK
<1>4. \A d \in Claimants \ {r} : Claim(d)' = Claim(d)
  BY <1>1, <1>3, SameClaim DEF Claimants
<1>5. CASE TakesOnly({}, {})
  <2>1. CASE res'[r].status \in BlockingStatuses
    BY <1>2, <1>4, <1>5, <2>1, ClaimOf, ClaimAfter, Undone DEF CalendarStep, TakesOnly, Claimants
  <2>2. CASE res'[r].status \notin BlockingStatuses
    <3>1. Claim(r)' = {}
      BY <1>2, <2>2, ClaimAfter
    <3> QED BY <1>2, <1>4, <3>1, NightsClaimable, Traded DEF CalendarStep, Claimants
  <2> QED BY <2>1, <2>2
<1>6. CASE Sells(c)
  <2>1. /\ c.kind \in Sales /\ c.kind # "quote" /\ c.room \in Rooms /\ c.stay \in Stays
        /\ res'[r].room = c.room /\ res'[r].stay = c.stay /\ Clear(c)
    BY <1>2, <1>6 DEF Sells, OnReservation, Actions, IInv, TypeInv, Shape, AllClear
  <2>2. \A d \in Claimants \ {r} : Claim(d) \cap NightsOf(c.room, c.stay) = {}
    <3>1. c.quote \notin Claimants \/ c.quote = None
      BY <1>2, <2>1 DEF IInv, TypeInv, Shape, CommitCreate, CommitTransition, CommitMove,
                        CommitAmend, Close, Actions
    <3>2. None \notin Claimants
      BY NoneAssumption DEF Claimants
    <3> QED BY <2>1, <3>1, <3>2, ClearNights
  <2>3. Claim(r)' = NightsOf(c.room, c.stay) \/ Claim(r)' = {}
    BY <1>2, <2>1, ClaimAfter
  <2>4. \A d \in Claimants \ {r} : Claim(d) \cap Claim(r)' = {}
    BY <2>2, <2>3
  <2>5. Claim(r)' \in Calendar!Claims
    BY <2>1, <2>3, NightsClaimable
  <2> QED BY <1>2, <1>4, <2>4, <2>5, Traded DEF CalendarStep, Claimants
<1> QED BY <1>5, <1>6, CommitKinds DEF Commit

\* A conversion hands the nights of its quote to the reservation; if the quote has
\* lapsed since it was validated, the reservation takes them while they are free.
LEMMA ConversionHands ==
    ASSUME IInv, QInv, NEW t \in Txns, CommitConvert(t)
    PROVE  CalendarStep
<1> DEFINE c == txn[t]
<1>1. /\ c.kind = "convert" /\ c.res \in Resv /\ c.quote \in Quotes
      /\ c.room \in Rooms /\ c.stay \in Stays
  BY DEF CommitConvert, Close, IInv, TypeInv, Shape, OnReservation, Sales
<1>2. /\ res[c.res].status = "none"
      /\ quote[c.quote].room = c.room /\ quote[c.quote].stay = c.stay
  BY <1>1 DEF IInv, AllReady, Ready
<1> PICK r \in Resv, q \in Quotes : r = c.res /\ q = c.quote
  BY <1>1
<1>3. r # q
  BY KeysAssumption
<1>4. \A d \in Claimants \ {r, q} : Claim(d)' = Claim(d)
  BY SameClaim DEF CommitConvert, IInv, TypeInv, TypeOK, Claimants
<1>5. Claim(r) = {} /\ Claim(q)' = {}
  <2>1. hold'[q] # "active"
    BY <1>1 DEF CommitConvert, IInv, TypeInv, TypeOK
  <2> QED BY <1>1, <1>2, <2>1, ClaimOf, ClaimAfter DEF BlockingStatuses
<1>6. Claim(r)' = NightsOf(c.room, c.stay)
  <2>1. res'[r] = NewReservation(c)
    BY <1>1 DEF CommitConvert, IInv, TypeInv, TypeOK
  <2> QED BY <1>1, <2>1, ClaimAfter DEF NewReservation, BlockingStatuses
<1>7. CASE hold[q] = "active" /\ q \notin lapsed
  <2>1. Claim(q) = NightsOf(c.room, c.stay)
    BY <1>1, <1>2, <1>7, ClaimOf
  <2> QED BY <1>1, <1>3, <1>4, <1>5, <1>6, <2>1, Handed DEF CalendarStep, Claimants
<1>8. CASE ~(hold[q] = "active" /\ q \notin lapsed)
  <2>1. Claim(q) = {}
    BY <1>1, <1>8, ClaimOf
  <2>2. \A d \in Claimants \ {r, q} : Claim(d) \cap NightsOf(c.room, c.stay) = {}
    BY <1>1, ClearNights DEF IInv, AllClear, Sales
  <2>3. \A d \in Claimants \ {r} : /\ Claim(d)' = Claim(d)
                                   /\ Claim(d) \cap NightsOf(c.room, c.stay) = {}
    BY <1>4, <1>5, <2>1, <2>2
  <2>4. NightsOf(c.room, c.stay) \in Calendar!Claims
    BY <1>1, NightsClaimable
  <2> QED BY <1>6, <2>3, <2>4, Traded DEF CalendarStep, Claimants
<1> QED BY <1>7, <1>8

\* A new quote takes its nights; the holds that it expires had lapsed and claimed none.
LEMMA QuoteTrades ==
    ASSUME IInv, QInv, NEW t \in Txns, CommitQuote(t)
    PROVE  CalendarStep
<1> DEFINE c == txn[t]
<1>1. c.kind = "quote" /\ c.quote \in Quotes /\ c.room \in Rooms /\ c.stay \in Stays /\ c.res = None
  BY DEF CommitQuote, Close, IInv, TypeInv, Shape, OnReservation, Sales, Actions
<1> PICK q \in Quotes : q = c.quote
  BY <1>1
<1>2. c.stale \subseteq lapsed
  BY DEF QInv, StaleLapsed
<1>3. /\ UNCHANGED <<res, lapsed>>
      /\ quote'[q].room = c.room /\ quote'[q].stay = c.stay
      /\ \A p \in Quotes \ {q} : /\ quote'[p] = ExpireQuotes(c.stale)[p]
                                 /\ hold'[p] = ExpireHolds(c.stale)[p]
  <2>1. TypeOK
    BY DEF IInv, TypeInv
  <2>2. /\ ExpireQuotes(c.stale) \in [Quotes -> QuoteRow]
        /\ ExpireHolds(c.stale) \in [Quotes -> HoldStatus]
    BY <2>1, ExpiryUpdates
  <2> HIDE DEF c
  <2> QED BY <2>2 DEF c, CommitQuote
<1>4. ASSUME NEW p \in Quotes \ {q} PROVE Claim(p)' = Claim(p)
  <2>1. CASE p \in lapsed
    BY <1>3, <2>1, ClaimOf, ClaimAfter
  <2>2. CASE p \notin lapsed
    <3>1. quote'[p] = quote[p] /\ hold'[p] = hold[p]
      BY <1>2, <1>3, <2>2 DEF ExpireQuotes, ExpireHolds
    <3> QED BY <1>3, <3>1, SameClaim
  <2> QED BY <2>1, <2>2
<1>5. \A d \in Claimants \ {q} : Claim(d)' = Claim(d)
  BY <1>3, <1>4, SameClaim DEF Claimants
<1>6. Claim(q)' = NightsOf(c.room, c.stay) \/ Claim(q)' = {}
  BY <1>1, <1>3, ClaimAfter
<1>7. \A d \in Claimants \ {q} : Claim(d) \cap NightsOf(c.room, c.stay) = {}
  <2>1. None \notin Claimants
    BY NoneAssumption DEF Claimants
  <2> QED BY <1>1, <2>1, ClearNights DEF IInv, AllClear, Sales
<1> QED BY <1>1, <1>5, <1>6, <1>7, NightsClaimable, Traded DEF CalendarStep, Claimants

\* A quote that is given up, or whose time passes, gives its nights back.
LEMMA QuoteGives ==
    ASSUME IInv, NEW q \in Quotes, ReleaseQuote(q) \/ Lapse(q)
    PROVE  CalendarStep
<1>1. ~(hold'[q] = "active" /\ q \notin lapsed')
  BY DEF ReleaseQuote, Lapse, IInv, TypeInv, TypeOK
<1>2. Claim(q)' = {}
  BY <1>1, ClaimAfter
<1>3. \A d \in Claimants \ {q} : Claim(d)' = Claim(d)
  BY SameClaim DEF ReleaseQuote, Lapse, IInv, TypeInv, TypeOK, Claimants
<1> QED BY <1>2, <1>3, NightsClaimable, Traded DEF CalendarStep, Claimants

\* Expiry writes rows that claimed nothing, in whichever order its statements run.
LEMMA SweepAside ==
    ASSUME IInv, QInv, NEW p \in Sweepers, Sweep(p)
    PROVE  CalendarStep
<1>1. sweep[p].ids \subseteq lapsed
  BY DEF QInv, StaleLapsed
<1>2. UNCHANGED <<res, lapsed>>
  BY DEF Sweep, SweepRead, SweepHolds, SweepQuotes
<1>3. ASSUME NEW q \in Quotes PROVE Claim(q)' = Claim(q)
  <2>1. CASE q \in lapsed
    BY <1>2, <2>1, ClaimOf, ClaimAfter
  <2>2. CASE q \notin lapsed
    <3>1. quote'[q] = quote[q] /\ hold'[q] = hold[q]
      BY <1>1, <2>2 DEF Sweep, SweepRead, SweepHolds, SweepQuotes, ExpireQuotes, ExpireHolds
    <3> QED BY <1>2, <3>1, SameClaim
  <2> QED BY <2>1, <2>2
<1> QED BY <1>2, <1>3, SameClaim, Undone DEF CalendarStep, Claimants

LEMMA CalendarSteps == IInv /\ QInv /\ [Next]_vars => CalendarStep
<1> SUFFICES ASSUME IInv, QInv, [Next]_vars PROVE CalendarStep
  OBVIOUS
<1>1. ASSUME UNCHANGED <<res, quote, hold, lapsed>> PROVE CalendarStep
  BY <1>1, SameClaim, Undone DEF CalendarStep, Claimants
<1>2. ASSUME NEW t \in Txns, Begin(t) PROVE CalendarStep
  BY <1>1, <1>2, BeginOpens DEF IInv, Open
<1>3. ASSUME NEW t \in Txns, Commit(t) PROVE CalendarStep
  BY <1>1, <1>3, ReservationTrades, ConversionHands, QuoteTrades DEF Commit, CommitBlock
<1>4. ASSUME \/ \E t \in Txns : Rollback(t)
             \/ \E b \in Blocks : ReleaseBlock(b)
             \/ \E rm \in Rooms : SetSellable(rm)
             \/ \E p \in Sweepers : SweepDies(p)
             \/ Midnight \/ UNCHANGED vars
      PROVE  CalendarStep
  BY <1>1, <1>4 DEF Rollback, ReleaseBlock, SetSellable, SweepDies, Midnight, vars
<1> QED BY <1>2, <1>3, <1>4, QuoteGives, SweepAside, SubsetAssumption DEF Next, Sweepers

LEMMA CalendarStart == Init => Calendar!Init
<1> SUFFICES ASSUME Init PROVE \A c \in Claimants : Claim(c) = {}
  BY DEF Calendar!Init, Claimants
<1> QED BY ClaimOf DEF Init, Claimants, BlockingStatuses

\* The services implement the calendar of RoomNights: the claims of the reservation and
\* hold rows start empty, and every committed step exchanges the nights of one claimant
\* for free ones, or hands a quote's nights over to its reservation, or is a stutter.
THEOREM CalendarImplemented == Spec => ImplementsCalendar
<1>1. IInv /\ QInv /\ [Next]_vars => [Calendar!Next]_Claimed
  BY CalendarSteps DEF CalendarStep
<1>2. Claimed = [c \in Resv \cup Quotes |-> Claim(c)]
  BY DEF Claimed, Claimants
<1>3. [Calendar!Next]_Claimed => [Calendar!Next]_([c \in Resv \cup Quotes |-> Claim(c)])
  BY DEF Claimed, Claimants
<1> QED BY <1>1, <1>3, CalendarStart, QuotesStart, QuotesStep, Invariance, PTL
        DEF Spec, ImplementsCalendar, Calendar!Spec
=============================================================================
