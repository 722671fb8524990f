--------------------------------- MODULE Stock ---------------------------------
(***************************************************************************)
(* The operational stock ledger: the stock part of                         *)
(* apps/housekeeping/services.py and models.py.                            *)
(*                                                                         *)
(* A command is a transaction: it begins by looking its idempotency key up *)
(* without a lock, then locks rows one by one (a movement the item and     *)
(* then the location, a transfer both locations by primary key and then    *)
(* the item), reads the balances, and at last writes balances and ledger   *)
(* rows and commits.  The lock of the balance row is left out: whoever     *)
(* writes it holds its item.  Two transactions may wait on each other;     *)
(* the database then rolls one back, as a crash does.                      *)
(***************************************************************************)
EXTENDS Staff, Integers, Sequences, FiniteSets

CONSTANTS
    Items, CategoryOf,   \* stock items, all active, and their category
    Locations,           \* primary keys of the active locations
    MoveKeys,            \* idempotency keys of movements
    TransferKeys,        \* idempotency keys of transfers
    Quantities,          \* the quantities that are entered
    Clerks,              \* database connections with a stock command
    LedgerBound          \* bound: no command begins on a ledger this long

ASSUME StockAssumption ==
    /\ Locations \subseteq Nat /\ IsFiniteSet(Locations)
    /\ Items \cap Locations = {}
    /\ Quantities \subseteq Nat \ {0}
    /\ CategoryOf \in [Items -> {"linen", "minibar", "housekeeping", "maintenance", "other"}]
    /\ MoveKeys \cap TransferKeys = {}

VARIABLES
    balance,   \* StockBalance.quantity of each item at each location
    ledger,    \* the StockMovement rows in the order of their primary keys
    clerk      \* the open transactions

stockVars == <<balance, ledger, clerk>>

-----------------------------------------------------------------------------
(* Rows *)

Incoming == {"receipt", "adjustment_add"}
Manual == Incoming \cup {"issue", "waste", "adjustment_remove"}

\* `key` is the reference of a movement and the transfer_reference of a leg.
MovementRow == [item : Items, location : Locations, delta : Int, resulting : Nat,
                key : MoveKeys \cup TransferKeys]

\* What a transaction will write, the rows it holds, those it has to lock yet, and
\* the balances of its item that it has read.
Order == [kind : {"movement", "transfer"}, key : MoveKeys \cup TransferKeys, item : Items,
          from : Locations, to : Locations, delta : Int]
Zero == [l \in Locations |-> 0]
Quiet == [cmd |-> {}, held |-> {}, want |-> <<>>, seen |-> Zero]

StockTypeOK ==
    /\ balance \in [Items \X Locations -> Nat]
    /\ ledger \in Seq(MovementRow)
    /\ clerk \in [Clerks -> [cmd : SUBSET Order, held : SUBSET (Items \cup Locations),
                             want : Seq(Items \cup Locations), seen : [Locations -> Nat]]]

StockInit ==
    /\ balance = [il \in Items \X Locations |-> 0]
    /\ ledger = <<>>
    /\ clerk = [t \in Clerks |-> Quiet]

-----------------------------------------------------------------------------
(* Commands *)

\* _authorize_stock; the choices of StockMovementForm say the same.
AuthorizeStock(u, i, type) ==
    \/ HasRole(u, Management)
    \/ /\ type \in {"issue", "waste", "transfer"}
       /\ \/ HasRole(u, {"housekeeping"}) /\ CategoryOf[i] \in {"linen", "housekeeping"}
          \/ HasRole(u, {"receptionist"}) /\ CategoryOf[i] \in {"minibar", "other"}

Known(key) == \E n \in DOMAIN ledger : ledger[n].key = key

BeginStock(t, cmd, order) ==
    /\ clerk[t] = Quiet
    /\ ~Known(cmd.key)
    /\ Len(ledger) < LedgerBound
    /\ clerk' = [clerk EXCEPT ![t].cmd = {cmd}, ![t].want = order]
    /\ UNCHANGED <<balance, ledger>>

\* record_stock_movement: a key that is known returns its row and writes nothing.
RecordMovement(t, u, key, i, l, type, q) ==
    /\ AuthorizeStock(u, i, type)
    /\ BeginStock(t, [kind |-> "movement", key |-> key, item |-> i, from |-> l, to |-> l,
                      delta |-> IF type \in Incoming THEN q ELSE -q], <<i, l>>)

\* Mutant: the locations are locked in the order in which they were given.
Mut_TransferOrder(i, s, d) == <<s, d, i>>
\* order_by('pk'), and the item when the first leg is posted.
TransferOrder(i, s, d) == IF s < d THEN <<s, d, i>> ELSE <<d, s, i>>

\* transfer_stock
TransferStock(t, u, key, i, s, d, q) ==
    /\ s # d
    /\ AuthorizeStock(u, i, "transfer")
    /\ BeginStock(t, [kind |-> "transfer", key |-> key, item |-> i, from |-> s, to |-> d,
                      delta |-> q], TransferOrder(i, s, d))

\* What a transaction has read once it holds its last row.
Reads(t) ==
    IF Len(clerk[t].want) > 1 THEN clerk[t].seen
    ELSE [l \in Locations |-> balance[(CHOOSE c \in clerk[t].cmd : TRUE).item, l]]

\* Mutant: the rows are read without select_for_update.
Mut_LockNext(t) ==
    /\ clerk[t].want # <<>>
    /\ clerk' = [clerk EXCEPT ![t].want = Tail(@), ![t].seen = Reads(t)]
    /\ UNCHANGED <<balance, ledger>>

\* select_for_update on the next row.
LockNext(t) ==
    /\ clerk[t].want # <<>>
    /\ \A o \in Clerks : Head(clerk[t].want) \notin clerk[o].held
    /\ clerk' = [clerk EXCEPT ![t].held = @ \cup {Head(clerk[t].want)},
                              ![t].want = Tail(@), ![t].seen = Reads(t)]
    /\ UNCHANGED <<balance, ledger>>

-----------------------------------------------------------------------------
(* Posting *)

\* The ledger row that _post_stock_delta creates, by what the transaction has read.
Leg(t, c, l, delta) == [item |-> c.item, location |-> l, delta |-> delta,
                        resulting |-> clerk[t].seen[l] + delta, key |-> c.key]

Commits(t, c) ==
    /\ clerk[t].cmd = {c} /\ clerk[t].want = <<>>
    /\ clerk' = [clerk EXCEPT ![t] = Quiet]

\* The reference is unique: the later of two inserts fails (AbortStock).
PostMovement(t, c) ==
    /\ c.kind = "movement"
    /\ Commits(t, c)
    /\ ~Known(c.key)
    /\ clerk[t].seen[c.from] + c.delta >= 0
    /\ balance' = [balance EXCEPT ![<<c.item, c.from>>] = clerk[t].seen[c.from] + c.delta]
    /\ ledger' = Append(ledger, Leg(t, c, c.from, c.delta))

\* The transfer_reference of the two legs is not.
PostTransfer(t, c) ==
    /\ c.kind = "transfer"
    /\ Commits(t, c)
    /\ clerk[t].seen[c.from] >= c.delta
    /\ balance' = [balance EXCEPT ![<<c.item, c.from>>] = clerk[t].seen[c.from] - c.delta,
                                  ![<<c.item, c.to>>] = clerk[t].seen[c.to] + c.delta]
    /\ ledger' = ledger \o <<Leg(t, c, c.from, -c.delta), Leg(t, c, c.to, c.delta)>>

\* A check that fails after the locks, the deadlock victim, or a crash.
AbortStock(t) ==
    /\ clerk[t] # Quiet
    /\ clerk' = [clerk EXCEPT ![t] = Quiet]
    /\ UNCHANGED <<balance, ledger>>

\* portal_stock: the form's movement_type decides which command is called.
PortalStock(t, u, i, l, q) ==
    /\ HasRole(u, Management \cup {"receptionist", "housekeeping"})
    /\ \/ \E key \in MoveKeys, type \in Manual : RecordMovement(t, u, key, i, l, type, q)
       \/ \E key \in TransferKeys, d \in Locations : TransferStock(t, u, key, i, l, d, q)

StockNext ==
    \E t \in Clerks :
        \/ \E u \in Staff, i \in Items, l \in Locations, q \in Quantities :
              PortalStock(t, u, i, l, q)
        \/ LockNext(t)
        \/ \E c \in clerk[t].cmd : PostMovement(t, c) \/ PostTransfer(t, c)
        \/ AbortStock(t)

StockSpec == StockInit /\ [][StockNext]_stockVars

-----------------------------------------------------------------------------
(* Properties *)

\* What row n left at its item's location: its own delta on what the latest
\* earlier row there left, or on nothing.
SamePlace(m, n) ==
    ledger[m].item = ledger[n].item /\ ledger[m].location = ledger[n].location
Follows(m, n) ==
    m < n /\ SamePlace(m, n) /\ \A k \in m + 1 .. n - 1 : ~SamePlace(k, n)

\* The ledger explains every balance: the rows of an item at a location, read in
\* order, lead from nothing by their deltas from one resulting_balance to the
\* next, never below zero, and the last of them is the balance that is kept.
LedgerExplainsBalance ==
    /\ \A n \in DOMAIN ledger :
          /\ \A m \in DOMAIN ledger :
                Follows(m, n) => ledger[n].resulting = ledger[m].resulting + ledger[n].delta
          /\ (\A m \in 1 .. n - 1 : ~SamePlace(m, n)) => ledger[n].resulting = ledger[n].delta
          /\ (\A m \in n + 1 .. Len(ledger) : ~SamePlace(m, n))
             => balance[ledger[n].item, ledger[n].location] = ledger[n].resulting
    /\ \A i \in Items, l \in Locations :
          (\A n \in DOMAIN ledger : ledger[n].item # i \/ ledger[n].location # l)
          => balance[i, l] = 0

\* t waits for a row that u holds.
Waits(t, u) == clerk[t].want # <<>> /\ Head(clerk[t].want) \in clerk[u].held

\* "Lock locations in a stable order to reduce transfer deadlock risk": transfers
\* never wait on each other in a circle, whatever they move and in whichever
\* direction; in every deadlock there is a movement.
NoTransferCycle ==
    \A S \in SUBSET {t \in Clerks : \E c \in clerk[t].cmd : c.kind = "transfer"} :
        S # {} => \E t \in S : \A u \in S : ~Waits(t, u)
=============================================================================
