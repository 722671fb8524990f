--------------------------- MODULE ComponentProofs ---------------------------
(***************************************************************************)
(* Proofs about the components of the back office that share nothing but   *)
(* the users, each about the specification of one component alone;         *)
(* BackOfficeProofs shows that they keep what is proved here when they run *)
(* together.                                                               *)
(*                                                                         *)
(*   Cashier     payments, drawers and shifts agree, and no report of a    *)
(*               shift is wrong                                            *)
(*   Guests      chains of merged accounts end, and no account is          *)
(*               anonymized while a stay or a legal hold of it stands      *)
(*   AuditChain  the rows of the audit log continue each other             *)
(*   Contacts    what is marked as synchronised is so at the provider      *)
(*   Stock       the ledger explains every balance, and transfers do not   *)
(*               wait for each other in a circle                           *)
(*   Access      no code is accepted twice, and no guarded page is served  *)
(*               around the second factor                                  *)
(*   Books       what was closed of a day stays closed                     *)
(***************************************************************************)
EXTENDS Cashier, Guests, AuditChain, Stock, Access, Contacts, Books, SumTheorems

-----------------------------------------------------------------------------
(* The cashier: payments, drawers and shifts.  The inductive invariant says what the     *)
(* locks of a command protect until it commits, and what the sums come to.               *)

Net(p) == payment[p].amount - Refunded(p)

\* Rows that do not exist weigh nothing, and a refund is of a payment.
RowsExist ==
    /\ \A p \in Payments :
          IF payment[p].status = "none"
          THEN payment[p].invoice = None /\ payment[p].amount = 0 /\ payment[p].shift = None
          ELSE payment[p].invoice \in Invoices /\ payment[p].amount # 0
    /\ \A f \in Refunds :
          IF refund[f].payment = None
          THEN refund[f].amount = 0 /\ refund[f].shift = None
          ELSE payment[refund[f].payment].status # "none"
    /\ \A s \in Shifts : shift[s].status = "none" => cash[s] = 0

Shape(c) ==
    /\ c.kind = "open" => c.shift \in Shifts /\ c.terminal \in Terminals
    /\ c.kind = "close" => c.shift \in Shifts
    /\ c.kind \in {"pay", "refund"} =>
          c.payment \in Payments /\ c.invoice \in Invoices /\ c.amount \in Nat \ {0}
    /\ c.kind = "refund" => c.refund \in Refunds
    /\ c.kind # "open" => c.terminal = None
    /\ c.kind \notin {"pay", "refund"} => c.invoice = None

\* One transaction works on a terminal, an invoice, or the end of a shift.
Exclusive ==
    \A t, u \in Txns : t # u =>
        /\ txn[t].terminal = txn[u].terminal => txn[t].terminal = None
        /\ txn[t].invoice = txn[u].invoice => txn[t].invoice = None
        /\ (txn[t].kind \in {"open", "close"} /\ txn[u].kind = txn[t].kind)
              => txn[t].shift # txn[u].shift

\* What a transaction has read and will rely on.
Ready(c) ==
    /\ c.kind = "open" =>
          /\ shift[c.shift].status = "none"
          /\ \A s \in Shifts : shift[s].status = "open" => shift[s].terminal # c.terminal
    /\ c.kind = "close" => shift[c.shift].status = "open" /\ c.amount = cash[c.shift]
    /\ (c.kind \in {"pay", "refund"} /\ c.shift # None) => shift[c.shift].status # "none"
    /\ c.kind = "pay" => c.amount <= Total[c.invoice] - paid[c.invoice]
    /\ c.kind = "refund" => /\ payment[c.payment].status # "none"
                            /\ payment[c.payment].invoice = c.invoice
                            /\ c.amount <= Net(c.payment)

\* The invoice is paid with what is left of its payments: what is never negative.
NetPaid ==
    \A i \in Invoices :
        paid[i] = SumFunctionOnSet([p \in Payments |-> Net(p)],
                                   {p \in Payments : payment[p].invoice = i})

Shapes == \A t \in Txns : Shape(txn[t])
AllReady == \A t \in Txns : Ready(txn[t])

DrawerInv == TypeOK /\ RowsExist /\ Shapes /\ Exclusive /\ AllReady /\ OneShiftPerTerminal

IInv == DrawerInv /\ NetPaid /\ PaymentsTrue /\ CashMatchesPayments

-----------------------------------------------------------------------------
(* Sums of the rows *)

LEMMA SomeFinite ==
    /\ \A S \in SUBSET Payments : IsFiniteSet(S)
    /\ \A S \in SUBSET Refunds : IsFiniteSet(S)
  BY TablesAssumption, FS_Subset

LEMMA SumTypes ==
    ASSUME TypeOK
    PROVE  /\ \A p \in Payments : Refunded(p) \in Nat /\ Net(p) \in Int
           /\ \A S \in SUBSET Payments :
                 SumFunctionOnSet([p \in Payments |-> payment[p].amount], S) \in Nat
           /\ \A S \in SUBSET Refunds :
                 SumFunctionOnSet([f \in Refunds |-> refund[f].amount], S) \in Nat
           /\ SumFunctionOnSet(cash, Shifts) \in Int
<1> DEFINE amounts == [p \in Payments |-> payment[p].amount]
           sums == [f \in Refunds |-> refund[f].amount]
<1>1. \A p \in Payments : amounts[p] \in Nat
  BY DEF TypeOK, PaymentRow
<1>2. \A f \in Refunds : sums[f] \in Nat
  BY DEF TypeOK, RefundRow
<1>3. \A s \in Shifts : cash[s] \in Int
  BY DEF TypeOK
<1>4. \A p \in Payments : payment[p].amount \in Nat
  BY DEF TypeOK, PaymentRow
<1> HIDE DEF amounts, sums
<1>5. \A S \in SUBSET Payments : SumFunctionOnSet(amounts, S) \in Nat
  BY <1>1, SomeFinite, SumNat
<1>6. \A S \in SUBSET Refunds : SumFunctionOnSet(sums, S) \in Nat
  BY <1>2, SomeFinite, SumNat
<1>7. SumFunctionOnSet(cash, Shifts) \in Int
  BY <1>3, TablesAssumption, SumInt
<1>8. \A p \in Payments : Refunded(p) \in Nat
  BY <1>6 DEF Refunded, sums
<1>9. \A p \in Payments : Net(p) \in Int
  BY <1>4, <1>8 DEF Net
<1> QED BY <1>5, <1>6, <1>7, <1>8, <1>9 DEF amounts, sums

-----------------------------------------------------------------------------
(* Beginning and giving up *)

Fresh(c) ==
    \A u \in Txns : /\ txn[u].terminal = c.terminal => c.terminal = None
                    /\ txn[u].invoice = c.invoice => c.invoice = None
                    /\ (c.kind \in {"open", "close"} /\ txn[u].kind = c.kind)
                          => txn[u].shift # c.shift

Sound(c) == c \in Command /\ Shape(c) /\ Fresh(c) /\ Ready(c)

Begin(t) ==
    \/ \E s \in Shifts, d \in Terminals, u \in Cashiers, float \in Floats :
          BeginOpen(t, s, d, u, float)
    \/ \E s \in Shifts : BeginClose(t, s)
    \/ \E p \in Payments, i \in Invoices, u \in Cashiers, s \in Shifts \cup {None},
          amount \in Amounts : BeginPay(t, p, i, u, s, amount)
    \/ \E f \in Refunds, p \in Payments, u \in Cashiers, s \in Shifts \cup {None},
          amount \in Amounts : BeginRefund(t, f, p, u, s, amount)

LEMMA BeginOpens ==
    ASSUME DrawerInv, NEW t \in Txns, Begin(t)
    PROVE  \E cmd : Sound(cmd) /\ Open(t, cmd)
<1> USE DEF Command, Idle, Shape, Sound
<1>0. /\ \A float \in Floats : float \in Int
      /\ \A amount \in Amounts : amount \in Int /\ amount \in Nat \ {0}
  BY AmountsAssumption
<1>1. ASSUME NEW s \in Shifts, NEW d \in Terminals, NEW u \in Cashiers, NEW float \in Floats,
             BeginOpen(t, s, d, u, float)
      PROVE  \E cmd : Sound(cmd) /\ Open(t, cmd)
  <2> DEFINE cmd == [Idle EXCEPT !.kind = "open", !.shift = s, !.terminal = d, !.cashier = u,
                                 !.amount = float]
  <2>1. cmd \in Command /\ Shape(cmd)
    BY <1>0
  <2>2. Fresh(cmd)
    BY <1>1 DEF BeginOpen, ShiftTaken, TerminalFree, Fresh
  <2>3. Ready(cmd)
    BY <1>1 DEF BeginOpen, ShiftTaken, Ready
  <2> QED BY <1>1, <2>1, <2>2, <2>3 DEF BeginOpen
<1>2. ASSUME NEW s \in Shifts, BeginClose(t, s)
      PROVE  \E cmd : Sound(cmd) /\ Open(t, cmd)
  <2> DEFINE cmd == [Idle EXCEPT !.kind = "close", !.shift = s, !.amount = cash[s]]
  <2>1. cmd \in Command /\ Shape(cmd)
    BY DEF DrawerInv, TypeOK
  <2>2. Fresh(cmd)
    BY <1>2 DEF BeginClose, ShiftFree, Fresh
  <2>3. Ready(cmd)
    BY <1>2 DEF BeginClose, Ready
  <2> QED BY <1>2, <2>1, <2>2, <2>3 DEF BeginClose
<1>3. ASSUME NEW p \in Payments, NEW i \in Invoices, NEW u \in Cashiers,
             NEW s \in Shifts \cup {None}, NEW amount \in Amounts,
             BeginPay(t, p, i, u, s, amount)
      PROVE  \E cmd : Sound(cmd) /\ Open(t, cmd)
  <2> DEFINE cmd == [Idle EXCEPT !.kind = "pay", !.payment = p, !.invoice = i, !.shift = s,
                                 !.amount = amount]
  <2>1. cmd \in Command /\ Shape(cmd)
    <3>1. amount \in Int /\ amount \in Nat \ {0}
      BY <1>0
    <3>2. cmd \in Command
      BY <3>1
    <3>3. Shape(cmd)
      BY <3>1
    <3> QED BY <3>2, <3>3
  <2>2. Fresh(cmd)
    BY <1>3 DEF BeginPay, InvoiceFree, Fresh
  <2>3. Ready(cmd)
    BY <1>3 DEF BeginPay, ShiftFor, Ready
  <2> QED BY <1>3, <2>1, <2>2, <2>3 DEF BeginPay
<1>4. ASSUME NEW f \in Refunds, NEW p \in Payments, NEW u \in Cashiers,
             NEW s \in Shifts \cup {None}, NEW amount \in Amounts,
             BeginRefund(t, f, p, u, s, amount)
      PROVE  \E cmd : Sound(cmd) /\ Open(t, cmd)
  <2> DEFINE cmd == [Idle EXCEPT !.kind = "refund", !.refund = f, !.payment = p, !.shift = s,
                                 !.invoice = payment[p].invoice, !.amount = amount]
  <2>1. payment[p].status # "none" /\ payment[p].invoice \in Invoices
    BY <1>4 DEF BeginRefund, DrawerInv, RowsExist
  <2>2. cmd \in Command /\ Shape(cmd)
    <3>1. amount \in Int /\ amount \in Nat \ {0}
      BY <1>0
    <3>2. cmd \in Command
      BY <2>1, <3>1
    <3>3. Shape(cmd)
      BY <2>1, <3>1
    <3> QED BY <3>2, <3>3
  <2>3. Fresh(cmd)
    BY <1>4 DEF BeginRefund, InvoiceFree, Fresh
  <2>4. Ready(cmd)
    BY <1>4, <2>1 DEF BeginRefund, ShiftFor, Ready, Net
  <2> QED BY <1>4, <2>2, <2>3, <2>4 DEF BeginRefund
<1> QED BY <1>1, <1>2, <1>3, <1>4 DEF Begin

LEMMA IdleSound == Idle \in Command /\ Shape(Idle) /\ Ready(Idle)
  BY DEF Idle, Command, Shape, Ready

\* What does not read the transactions.
LEMMA DataSame ==
    ASSUME UNCHANGED <<shift, cash, paid, payment, refund, manual>>
    PROVE  /\ NetPaid => NetPaid'
           /\ PaymentsTrue => PaymentsTrue'
           /\ CashMatchesPayments => CashMatchesPayments'
           /\ RowsExist => RowsExist'
           /\ OneShiftPerTerminal => OneShiftPerTerminal'
           /\ \A c : Ready(c) => Ready(c)'
  BY DEF NetPaid, Net, Refunded, PaymentsTrue, Recalculated, CashMatchesPayments, RowsExist,
         OneShiftPerTerminal, Ready

LEMMA BeginStep ==
    ASSUME IInv, NEW t \in Txns, Begin(t)
    PROVE  IInv'
<1> USE DEF IInv, DrawerInv
<1>1. PICK cmd : Sound(cmd) /\ Open(t, cmd)
  BY BeginOpens
<1>2. UNCHANGED <<shift, cash, paid, payment, refund, manual>>
  BY <1>1 DEF Open
<1>3. txn'[t] = cmd /\ \A u \in Txns \ {t} : txn'[u] = txn[u]
  BY <1>1 DEF Open, TypeOK
<1>4. TypeOK'
  BY <1>1, <1>2 DEF TypeOK, Open, Sound
<1>5. Shapes'
  BY <1>1, <1>3 DEF Shapes, Sound
<1>6. Exclusive'
  BY <1>1, <1>3 DEF Exclusive, Sound, Fresh
<1>7. AllReady'
  BY <1>1, <1>2, <1>3, DataSame DEF AllReady, Sound
<1> QED BY <1>2, <1>4, <1>5, <1>6, <1>7, DataSame

\* A transaction that ends, by its commit or not, leaves the locks of the others alone.
LEMMA EndLocks ==
    ASSUME DrawerInv, NEW t \in Txns, txn' = [txn EXCEPT ![t] = Idle]
    PROVE  /\ txn' \in [Txns -> Command] /\ Shapes' /\ Exclusive'
           /\ txn'[t] = Idle /\ \A u \in Txns \ {t} : txn'[u] = txn[u]
<1> USE DEF DrawerInv
<1>1. txn \in [Txns -> Command]
  BY DEF TypeOK
<1>2. txn'[t] = Idle /\ \A u \in Txns \ {t} : txn'[u] = txn[u]
  BY <1>1
<1>3. txn' \in [Txns -> Command]
  BY <1>1, IdleSound
<1>4. Shapes'
  BY <1>2, IdleSound DEF Shapes
<1>5. Exclusive'
  BY <1>2 DEF Exclusive, Idle
<1> QED BY <1>2, <1>3, <1>4, <1>5

LEMMA RollbackStep ==
    ASSUME IInv, NEW t \in Txns, Rollback(t)
    PROVE  IInv'
<1> USE DEF IInv
<1>1. UNCHANGED <<shift, cash, paid, payment, refund, manual>>
  BY DEF Rollback
<1>2. txn' \in [Txns -> Command] /\ Shapes' /\ Exclusive'
      /\ txn'[t] = Idle /\ \A u \in Txns \ {t} : txn'[u] = txn[u]
  BY EndLocks DEF Rollback
<1>3. TypeOK'
  BY <1>1, <1>2 DEF TypeOK, DrawerInv
<1>4. AllReady'
  BY <1>1, <1>2, DataSame, IdleSound DEF AllReady, DrawerInv
<1> QED BY <1>1, <1>2, <1>3, <1>4, DataSame DEF DrawerInv

LEMMA StutterStep ==
    ASSUME IInv, UNCHANGED vars
    PROVE  IInv'
<1> USE DEF IInv, DrawerInv
<1>1. UNCHANGED <<shift, cash, paid, payment, refund, manual>> /\ txn' = txn
  BY DEF vars
<1>2. TypeOK' /\ Shapes' /\ Exclusive'
  BY <1>1 DEF TypeOK, Shapes, Exclusive
<1>3. AllReady'
  BY <1>1, DataSame DEF AllReady
<1> QED BY <1>1, <1>2, <1>3, DataSame

-----------------------------------------------------------------------------
(* Shifts *)

\* Steps that leave invoices, payments and refunds alone leave their figures alone.
LEMMA FiguresSame ==
    ASSUME UNCHANGED <<paid, payment, refund>>
    PROVE  /\ NetPaid => NetPaid'
           /\ PaymentsTrue => PaymentsTrue'
           /\ \A p : Net(p)' = Net(p)
  BY DEF NetPaid, Net, Refunded, PaymentsTrue, Recalculated

\* One drawer changes by as much as the floats and manual movements.
LEMMA CashMoves ==
    ASSUME TypeOK, CashMatchesPayments, NEW s \in Shifts, NEW amount \in Int,
           cash' = [cash EXCEPT ![s] = cash[s] + amount], manual' = manual + amount,
           UNCHANGED <<payment, refund>>
    PROVE  CashMatchesPayments'
<1> DEFINE pays == SumFunctionOnSet([p \in Payments |-> payment[p].amount],
                                    {p \in Payments : payment[p].shift # None})
           refs == SumFunctionOnSet([f \in Refunds |-> refund[f].amount],
                                    {f \in Refunds : refund[f].shift # None})
<1>1. \A o \in Shifts : cash[o] \in Int /\ cash'[o] \in Int
  BY DEF TypeOK
<1>2. cash'[s] = cash[s] + amount /\ \A o \in Shifts \ {s} : cash'[o] = cash[o]
  BY DEF TypeOK
<1>3. SumFunctionOnSet(cash', Shifts) = SumFunctionOnSet(cash, Shifts) + cash'[s] - cash[s]
  <2> DEFINE v == cash'
             w == cash
  <2>1. IsFiniteSet(Shifts)
    BY TablesAssumption
  <2>2. \A o \in Shifts : w[o] \in Int /\ v[o] \in Int
    BY <1>1
  <2>3. \A o \in Shifts \ {s} : v[o] = w[o]
    BY <1>2
  <2> HIDE DEF v, w
  <2>4. SumFunctionOnSet(v, Shifts) = SumFunctionOnSet(w, Shifts) + v[s] - w[s]
    BY <2>1, <2>2, <2>3, SumChanged
  <2> QED BY <2>4 DEF v, w
<1>4. /\ SumFunctionOnSet(cash, Shifts) \in Int /\ manual \in Int
      /\ pays \in Nat /\ refs \in Nat
  BY SumTypes DEF TypeOK
<1>5. SumFunctionOnSet(cash, Shifts) = manual + pays - refs
  BY DEF CashMatchesPayments
<1>6. pays' = pays /\ refs' = refs
  OBVIOUS
<1>7. SumFunctionOnSet(cash', Shifts) = manual' + pays - refs
  <2> HIDE DEF pays, refs
  <2> QED BY <1>1, <1>2, <1>3, <1>4, <1>5
<1> QED BY <1>6, <1>7 DEF CashMatchesPayments

LEMMA MovementStep ==
    ASSUME IInv, NEW s \in Shifts, NEW amount \in Int, Movement(s, amount)
    PROVE  IInv'
<1> USE DEF IInv, DrawerInv
<1>1. UNCHANGED <<shift, paid, payment, refund, txn>>
  BY DEF Movement
<1>2. cash' = [cash EXCEPT ![s] = cash[s] + amount] /\ manual' = manual + amount
  BY DEF Movement
<1>3. TypeOK'
  BY <1>1, <1>2 DEF TypeOK
<1>4. RowsExist' /\ Shapes' /\ Exclusive' /\ OneShiftPerTerminal'
  <2>1. \A o \in Shifts : shift[o].status = "none" => cash'[o] = cash[o]
    BY <1>2 DEF Movement, TypeOK
  <2> QED BY <1>1, <2>1 DEF RowsExist, Shapes, Exclusive, OneShiftPerTerminal
<1>5. AllReady'
  <2>1. ASSUME NEW u \in Txns, txn[u].kind = "close" PROVE cash'[txn[u].shift] = cash[txn[u].shift]
    BY <1>2, <2>1 DEF Movement, ShiftFree, TypeOK
  <2> QED BY <1>1, <2>1, FiguresSame DEF AllReady, Ready
<1> QED BY <1>1, <1>2, <1>3, <1>4, <1>5, FiguresSame, CashMoves

LEMMA CommitOpenStep ==
    ASSUME IInv, NEW t \in Txns, CommitOpen(t)
    PROVE  IInv'
<1> USE DEF IInv, DrawerInv
<1> DEFINE c == txn[t]
           new == [status |-> "open", terminal |-> c.terminal, cashier |-> c.cashier,
                   expected |-> c.amount]
<1>1. /\ c.kind = "open" /\ c.shift \in Shifts /\ c.terminal \in Terminals /\ c \in Command
      /\ shift[c.shift].status = "none"
      /\ \A s \in Shifts : shift[s].status = "open" => shift[s].terminal # c.terminal
  BY DEF CommitOpen, Close, Shapes, Shape, AllReady, Ready, TypeOK
<1>2. c.amount \in Int /\ new \in ShiftRow
  BY <1>1 DEF Command, ShiftRow
<1>3. /\ shift' = [shift EXCEPT ![c.shift] = new] /\ cash' = [cash EXCEPT ![c.shift] = c.amount]
      /\ manual' = manual + c.amount /\ UNCHANGED <<paid, payment, refund>>
      /\ txn' = [txn EXCEPT ![t] = Idle]
  BY DEF CommitOpen, Close
<1>4. txn' \in [Txns -> Command] /\ Shapes' /\ Exclusive'
      /\ txn'[t] = Idle /\ \A u \in Txns \ {t} : txn'[u] = txn[u]
  BY <1>3, EndLocks
<1>5. TypeOK'
  <2> HIDE DEF new
  <2> QED BY <1>1, <1>2, <1>3, <1>4 DEF TypeOK
<1>6. /\ shift'[c.shift].status = "open" /\ shift'[c.shift].terminal = c.terminal
      /\ \A s \in Shifts \ {c.shift} : shift'[s] = shift[s] /\ cash'[s] = cash[s]
  BY <1>1, <1>3 DEF TypeOK
<1>7. RowsExist' /\ OneShiftPerTerminal'
  BY <1>1, <1>3, <1>6 DEF RowsExist, OneShiftPerTerminal
<1>8. ASSUME NEW u \in Txns \ {t} PROVE Ready(txn[u])'
  <2>1. txn'[u] = txn[u] /\ Ready(txn[u]) /\ Shape(txn[u])
    BY <1>4 DEF AllReady, Shapes
  <2>2. txn[u].kind = "open" => txn[u].shift # c.shift /\ txn[u].terminal # c.terminal
    BY <1>1, <2>1, NoneAssumption DEF Exclusive
  <2>3. txn[u].kind = "close" => txn[u].shift # c.shift
    BY <1>1, <2>1 DEF Ready
  <2>4. \A p : Net(p)' = Net(p)
    BY <1>3, FiguresSame
  <2>5. txn[u].kind = "open" =>
          /\ shift'[txn[u].shift].status = "none"
          /\ \A s \in Shifts : shift'[s].status = "open" => shift'[s].terminal # txn[u].terminal
    BY <1>6, <2>1, <2>2 DEF Ready, Shape
  <2>6. txn[u].kind = "close" => /\ shift'[txn[u].shift].status = "open"
                                 /\ txn[u].amount = cash'[txn[u].shift]
    BY <1>6, <2>1, <2>3 DEF Ready, Shape
  <2>7. (txn[u].kind \in {"pay", "refund"} /\ txn[u].shift # None)
           => shift'[txn[u].shift].status # "none"
    <3>1. txn[u].shift \in Shifts \cup {None}
      BY DEF TypeOK, Command
    <3> QED BY <1>6, <2>1, <3>1 DEF Ready
  <2> QED BY <1>3, <2>1, <2>4, <2>5, <2>6, <2>7 DEF Ready
<1>9. AllReady'
  BY <1>4, <1>8, IdleSound DEF AllReady, Idle, Ready
<1>10. cash[c.shift] + c.amount = c.amount
  BY <1>1, <1>2 DEF RowsExist
<1>11. CashMatchesPayments'
  BY <1>1, <1>2, <1>3, <1>10, CashMoves
<1> QED BY <1>3, <1>4, <1>5, <1>7, <1>9, <1>11, FiguresSame

LEMMA CommitCloseStep ==
    ASSUME IInv, NEW t \in Txns, CommitClose(t)
    PROVE  IInv'
<1> USE DEF IInv, DrawerInv
<1> DEFINE c == txn[t]
<1>1. /\ c.kind = "close" /\ c.shift \in Shifts /\ c.amount \in Int
      /\ shift[c.shift].status = "open"
  BY DEF CommitClose, Close, Shapes, Shape, AllReady, Ready, TypeOK, Command
<1>2. /\ shift' = [shift EXCEPT ![c.shift].status = "closed", ![c.shift].expected = c.amount]
      /\ UNCHANGED <<cash, paid, payment, refund, manual>>
      /\ txn' = [txn EXCEPT ![t] = Idle]
  BY DEF CommitClose, Close
<1>3. txn' \in [Txns -> Command] /\ Shapes' /\ Exclusive'
      /\ txn'[t] = Idle /\ \A u \in Txns \ {t} : txn'[u] = txn[u]
  BY <1>2, EndLocks
<1>0. /\ shift \in [Shifts -> ShiftRow] /\ shift' \in [Shifts -> ShiftRow]
      /\ shift'[c.shift].status = "closed"
      /\ \A s \in Shifts \ {c.shift} : shift'[s] = shift[s]
  <2>1. shift \in [Shifts -> ShiftRow]
    BY DEF TypeOK
  <2> HIDE DEF c, IInv, DrawerInv
  <2> QED BY <1>1, <1>2, <2>1 DEF ShiftRow
<1>4. TypeOK'
  BY <1>0, <1>2, <1>3 DEF TypeOK
<1>5. /\ shift'[c.shift].status = "closed"
      /\ \A s \in Shifts \ {c.shift} : shift'[s] = shift[s]
  BY <1>0
<1>6. RowsExist' /\ OneShiftPerTerminal'
  <2>1. \A s \in Shifts : /\ shift'[s].status = "none" => shift[s].status = "none"
                          /\ shift'[s].status = "open" => shift'[s] = shift[s]
    BY <1>5
  <2>2. RowsExist'
    BY <1>2, <2>1 DEF RowsExist
  <2> QED BY <2>1, <2>2 DEF OneShiftPerTerminal
<1>7. ASSUME NEW u \in Txns \ {t}, NEW d, d = txn[u] PROVE Ready(d)'
  <2>1. Ready(d) /\ Shape(d) /\ d \in Command
    BY <1>7 DEF AllReady, Shapes, TypeOK
  <2>2. d.kind \in {"open", "close"} => d.shift # c.shift
    BY <1>1, <1>7, <2>1 DEF Exclusive, Ready
  <2>3. \A p : Net(p)' = Net(p)
    BY <1>2, FiguresSame
  <2>4. (d.kind \in {"pay", "refund"} /\ d.shift # None)
           => shift'[d.shift].status # "none"
    <3>1. d.shift \in Shifts \cup {None}
      BY <2>1 DEF Command
    <3> QED BY <1>5, <2>1, <3>1 DEF Ready
  <2>5. d.kind = "open" =>
          /\ shift'[d.shift].status = "none"
          /\ \A s \in Shifts : shift'[s].status = "open" => shift'[s].terminal # d.terminal
    BY <1>5, <2>1, <2>2 DEF Ready, Shape
  <2>6. d.kind = "close" => /\ shift'[d.shift].status = "open"
                                 /\ d.amount = cash'[d.shift]
    BY <1>2, <1>5, <2>1, <2>2 DEF Ready, Shape
  <2> QED BY <1>2, <2>1, <2>3, <2>4, <2>5, <2>6 DEF Ready
<1>8. AllReady'
  BY <1>3, <1>7, IdleSound DEF AllReady, Idle, Ready
<1>9. CashMatchesPayments'
  BY <1>2 DEF CashMatchesPayments
<1> QED BY <1>2, <1>3, <1>4, <1>6, <1>8, <1>9, FiguresSame

-----------------------------------------------------------------------------
(* Payments *)

PaySum(j) == SumFunctionOnSet([p \in Payments |-> payment[p].amount],
                              {p \in Payments : payment[p].invoice = j})
RefSum(j) == SumFunctionOnSet([f \in Refunds |-> refund[f].amount],
                {f \in Refunds : refund[f].payment # None
                                 /\ payment[refund[f].payment].invoice = j})
NetOf(j) == SumFunctionOnSet([p \in Payments |-> Net(p)],
                             {p \in Payments : payment[p].invoice = j})
PayCash == SumFunctionOnSet([p \in Payments |-> payment[p].amount],
                            {p \in Payments : payment[p].shift # None})
RefCash == SumFunctionOnSet([f \in Refunds |-> refund[f].amount],
                            {f \in Refunds : refund[f].shift # None})

\* The drawers change by what a cash payment or refund moves, the others by nothing.
LEMMA DrawerSum ==
    ASSUME TypeOK, NEW s \in Shifts \cup {None}, NEW amount \in Int, AddCash(s, amount)
    PROVE  /\ cash' \in [Shifts -> Int]
           /\ SumFunctionOnSet(cash', Shifts)
                = SumFunctionOnSet(cash, Shifts) + IF s = None THEN 0 ELSE amount
<1>1. cash \in [Shifts -> Int] /\ SumFunctionOnSet(cash, Shifts) \in Int
  BY SumTypes DEF TypeOK
<1>2. CASE s = None
  BY <1>1, <1>2 DEF AddCash
<1>3. CASE s # None
  <2>1. s \in Shifts /\ cash' = [cash EXCEPT ![s] = cash[s] + amount]
    BY <1>3 DEF AddCash
  <2>2. \A o \in Shifts : cash[o] \in Int /\ cash'[o] \in Int
    BY <1>1, <2>1
  <2>3. cash'[s] = cash[s] + amount /\ \A o \in Shifts \ {s} : cash'[o] = cash[o]
    BY <1>1, <2>1
  <2> DEFINE v == cash'
             w == cash
  <2>4. IsFiniteSet(Shifts)
    BY TablesAssumption
  <2>5. /\ \A o \in Shifts : w[o] \in Int /\ v[o] \in Int
        /\ \A o \in Shifts \ {s} : v[o] = w[o]
        /\ v[s] = w[s] + amount
    BY <2>2, <2>3
  <2>6. SumFunctionOnSet(w, Shifts) \in Int
    BY <1>1
  <2> HIDE DEF v, w
  <2>7. SumFunctionOnSet(v, Shifts) = SumFunctionOnSet(w, Shifts) + v[s] - w[s]
    BY <2>1, <2>4, <2>5, SumChanged
  <2>8. SumFunctionOnSet(v, Shifts) = SumFunctionOnSet(w, Shifts) + amount
    BY <2>1, <2>5, <2>6, <2>7
  <2> QED BY <1>1, <1>3, <2>1, <2>8 DEF v, w
<1> QED BY <1>2, <1>3

\* A new payment row adds its amount to its invoice, and to the cash when it is cash.
LEMMA PaymentAdds ==
    ASSUME TypeOK, RowsExist,
           NEW p \in Payments, NEW i \in Invoices, NEW a \in Nat \ {0},
           NEW s \in Shifts \cup {None}, payment[p].status = "none",
           payment' = [payment EXCEPT ![p] = [status |-> "completed", invoice |-> i,
                                              amount |-> a, shift |-> s]],
           UNCHANGED refund
    PROVE  /\ payment' \in [Payments -> PaymentRow]
           /\ payment'[p].status = "completed" /\ payment'[p].invoice = i
           /\ payment'[p].amount = a /\ payment'[p].shift = s
           /\ \A q \in Payments \ {p} : payment'[q] = payment[q]
           /\ Refunded(p) = 0
           /\ \A q : Refunded(q)' = Refunded(q)
           /\ PaySum(i)' = PaySum(i) + a /\ NetOf(i)' = NetOf(i) + a
           /\ \A j \in Invoices \ {i} : PaySum(j)' = PaySum(j) /\ NetOf(j)' = NetOf(j)
           /\ \A j \in Invoices : RefSum(j)' = RefSum(j)
           /\ PayCash' = PayCash + (IF s = None THEN 0 ELSE a)
           /\ RefCash' = RefCash
<1> DEFINE new == [status |-> "completed", invoice |-> i, amount |-> a, shift |-> s]
           P(j) == {q \in Payments : payment[q].invoice = j}
           w == [q \in Payments |-> payment[q].amount]
           v == [q \in Payments |-> payment'[q].amount]
           n == [q \in Payments |-> Net(q)]
           m == [q \in Payments |-> Net(q)']
           R(j) == {f \in Refunds : refund[f].payment # None
                                    /\ payment[refund[f].payment].invoice = j}
<1>1. payment \in [Payments -> PaymentRow] /\ refund \in [Refunds -> RefundRow]
  BY DEF TypeOK
<1>2. new \in PaymentRow
  BY DEF PaymentRow
<1>3. /\ payment' \in [Payments -> PaymentRow] /\ payment'[p] = new
      /\ \A q \in Payments \ {p} : payment'[q] = payment[q]
  <2> HIDE DEF new
  <2> QED BY <1>1, <1>2 DEF new
<1>4. payment[p].invoice = None /\ payment[p].amount = 0 /\ payment[p].shift = None
  BY DEF RowsExist
<1>5. \A f \in Refunds : refund[f].payment # p
                         /\ (refund[f].payment # None => refund[f].payment \in Payments \ {p})
  <2>1. \A f \in Refunds : refund[f].payment \in Payments \cup {None}
    BY <1>1 DEF RefundRow
  <2> QED BY <2>1, NoneAssumption DEF RowsExist
<1>6. \A q : Refunded(q)' = Refunded(q)
  BY DEF Refunded
<1>7. Refunded(p) = 0
  <2>1. {f \in Refunds : refund[f].payment = p} = {}
    BY <1>5
  <2> QED BY <2>1, SumNothing DEF Refunded
<1>8. /\ \A j \in Invoices : P(j) \in SUBSET Payments /\ p \notin P(j) /\ IsFiniteSet(P(j))
      /\ \A j \in Invoices \ {i} : P(j)' = P(j)
      /\ P(i)' = P(i) \cup {p}
  <2>1. \A j \in Invoices : p \notin P(j)
    BY <1>4, NoneAssumption
  <2>2. \A j \in Invoices : P(j)' = IF j = i THEN P(j) \cup {p} ELSE P(j)
    BY <1>3, <2>1
  <2> QED BY <2>1, <2>2, SomeFinite
<1>9. /\ \A q \in Payments : w[q] \in Int /\ v[q] \in Int /\ n[q] \in Int
      /\ \A q \in Payments \ {p} : v[q] = w[q] /\ m[q] = n[q]
      /\ v[p] = a /\ m[p] = a
  <2>1. \A q \in Payments : w[q] \in Int /\ v[q] \in Int
    BY <1>1, <1>3 DEF PaymentRow
  <2>2. \A q \in Payments : n[q] \in Int
    BY SumTypes
  <2>3. \A q \in Payments : Net(q)' = payment'[q].amount - Refunded(q)'
    BY DEF Net
  <2>4. \A q \in Payments \ {p} : v[q] = w[q] /\ m[q] = n[q]
    BY <1>3, <1>6, <2>3 DEF Net
  <2>5. v[p] = a /\ m[p] = a
    BY <1>3, <1>6, <1>7, <2>3
  <2> QED BY <2>1, <2>2, <2>4, <2>5
<1>10. PaySum(i)' = PaySum(i) + a /\ NetOf(i)' = NetOf(i) + a
  <2> DEFINE Pi == P(i)
  <2>1. IsFiniteSet(Pi) /\ p \notin Pi /\ Pi \subseteq Payments
    BY <1>8
  <2>2. PaySum(i)' = SumFunctionOnSet(v, Pi \cup {p}) /\ PaySum(i) = SumFunctionOnSet(w, Pi)
    BY <1>8 DEF PaySum
  <2>3. NetOf(i)' = SumFunctionOnSet(m, Pi \cup {p}) /\ NetOf(i) = SumFunctionOnSet(n, Pi)
    BY <1>8 DEF NetOf
  <2> HIDE DEF Pi, v, w, m, n
  <2>4. SumFunctionOnSet(v, Pi \cup {p}) = SumFunctionOnSet(w, Pi) + v[p]
    BY <1>9, <2>1, SumAdded
  <2>5. SumFunctionOnSet(m, Pi \cup {p}) = SumFunctionOnSet(n, Pi) + m[p]
    BY <1>9, <2>1, SumAdded
  <2> QED BY <1>9, <2>2, <2>3, <2>4, <2>5
<1>11. ASSUME NEW j \in Invoices \ {i} PROVE PaySum(j)' = PaySum(j) /\ NetOf(j)' = NetOf(j)
  <2> DEFINE Pj == P(j)
  <2>1. IsFiniteSet(Pj) /\ p \notin Pj /\ Pj \subseteq Payments
    BY <1>8
  <2>2. PaySum(j)' = SumFunctionOnSet(v, Pj) /\ PaySum(j) = SumFunctionOnSet(w, Pj)
    BY <1>8 DEF PaySum
  <2>3. NetOf(j)' = SumFunctionOnSet(m, Pj) /\ NetOf(j) = SumFunctionOnSet(n, Pj)
    BY <1>8 DEF NetOf
  <2> HIDE DEF Pj, v, w, m, n
  <2>4. SumFunctionOnSet(v, Pj) = SumFunctionOnSet(w, Pj)
    BY <1>9, <2>1, SumSame
  <2>5. SumFunctionOnSet(m, Pj) = SumFunctionOnSet(n, Pj)
    BY <1>9, <2>1, SumSame
  <2> QED BY <2>2, <2>3, <2>4, <2>5
<1>12. ASSUME NEW j \in Invoices PROVE RefSum(j)' = RefSum(j)
  <2>1. R(j)' = R(j)
    BY <1>3, <1>5
  <2> QED BY <2>1 DEF RefSum
<1>13. PayCash' = PayCash + (IF s = None THEN 0 ELSE a)
  <2> DEFINE C == {q \in Payments : payment[q].shift # None}
  <2>1. IsFiniteSet(C) /\ p \notin C /\ C \subseteq Payments
    BY <1>4, SomeFinite
  <2>2. C' = IF s = None THEN C ELSE C \cup {p}
    BY <1>3, <2>1
  <2>3. PayCash = SumFunctionOnSet(w, C) /\ PayCash' = SumFunctionOnSet(v, C')
    BY DEF PayCash
  <2>4. SumFunctionOnSet(w, C) \in Int
    BY SumTypes
  <2> HIDE DEF C, v, w
  <2>5. SumFunctionOnSet(v, C \cup {p}) = SumFunctionOnSet(w, C) + v[p]
    BY <1>9, <2>1, SumAdded
  <2>6. SumFunctionOnSet(v, C) = SumFunctionOnSet(w, C)
    BY <1>9, <2>1, SumSame
  <2> QED BY <1>9, <2>2, <2>3, <2>4, <2>5, <2>6
<1>14. RefCash' = RefCash
  BY DEF RefCash
<1> QED BY <1>3, <1>6, <1>7, <1>10, <1>11, <1>12, <1>13, <1>14

\* The invariants, in terms of the sums above.
LEMMA SumsAgree ==
    /\ NetPaid <=> \A i \in Invoices : paid[i] = NetOf(i)
    /\ \A i : Recalculated(i, payment, refund) = PaySum(i) - RefSum(i)
    /\ CashMatchesPayments <=> SumFunctionOnSet(cash, Shifts) = manual + PayCash - RefCash
  BY DEF NetPaid, NetOf, Recalculated, PaySum, RefSum, CashMatchesPayments, PayCash, RefCash

\* A commit that moves cash waits until nobody closes the shift it refers to.
LEMMA ClosingKept ==
    ASSUME DrawerInv, NEW s \in Shifts \cup {None}, NEW amount \in Int, AddCash(s, amount),
           s # None => ShiftFree(s) /\ shift[s].status # "none"
    PROVE  /\ \A o \in Shifts : shift[o].status = "none" => cash'[o] = cash[o]
           /\ \A u \in Txns : txn[u].kind = "close" => cash'[txn[u].shift] = cash[txn[u].shift]
<1>1. cash \in [Shifts -> Int]
  BY DEF DrawerInv, TypeOK
<1>2. CASE s = None
  BY <1>2 DEF AddCash
<1>3. CASE s # None
  <2>1. s \in Shifts /\ \A o \in Shifts \ {s} : cash'[o] = cash[o]
    BY <1>1, <1>3 DEF AddCash
  <2>2. \A u \in Txns : txn[u].kind = "close" => txn[u].shift \in Shifts \ {s}
    BY <1>3 DEF ShiftFree, DrawerInv, Shapes, Shape
  <2> QED BY <1>3, <2>1, <2>2
<1> QED BY <1>2, <1>3

LEMMA CommitPayStep ==
    ASSUME IInv, NEW t \in Txns, CommitPay(t)
    PROVE  IInv'
<1>1. PICK p \in Payments, i \in Invoices, a \in Nat \ {0}, s \in Shifts \cup {None} :
         txn[t].payment = p /\ txn[t].invoice = i /\ txn[t].amount = a /\ txn[t].shift = s
  <2>1. Shape(txn[t]) /\ txn[t].kind = "pay" /\ txn[t] \in Command
    BY DEF CommitPay, Close, IInv, DrawerInv, Shapes, TypeOK
  <2> QED BY <2>1 DEF Shape, Command
<1>2. /\ payment[p].status = "none"
      /\ payment' = [payment EXCEPT ![p] = [status |-> "completed", invoice |-> i,
                                            amount |-> a, shift |-> s]]
      /\ AddCash(s, a)
      /\ paid' = [paid EXCEPT ![i] = Recalculated(i, payment', refund)]
      /\ UNCHANGED <<shift, refund, manual>> /\ txn' = [txn EXCEPT ![t] = Idle]
      /\ s # None => ShiftFree(s)
  BY <1>1 DEF CommitPay, Close
<1>3. a <= Total[i] - paid[i] /\ (s # None => shift[s].status # "none")
  BY <1>1 DEF CommitPay, Close, IInv, DrawerInv, AllReady, Ready
<1>4. TypeOK /\ RowsExist /\ DrawerInv /\ paid \in [Invoices -> Nat] /\ a \in Int
  BY DEF IInv, DrawerInv, TypeOK
<1>5. /\ payment' \in [Payments -> PaymentRow]
      /\ payment'[p].status = "completed" /\ payment'[p].invoice = i
      /\ payment'[p].amount = a /\ payment'[p].shift = s
      /\ \A q \in Payments \ {p} : payment'[q] = payment[q]
      /\ Refunded(p) = 0
      /\ \A q : Refunded(q)' = Refunded(q)
      /\ PaySum(i)' = PaySum(i) + a /\ NetOf(i)' = NetOf(i) + a
      /\ \A j \in Invoices \ {i} : PaySum(j)' = PaySum(j) /\ NetOf(j)' = NetOf(j)
      /\ \A j \in Invoices : RefSum(j)' = RefSum(j)
      /\ PayCash' = PayCash + (IF s = None THEN 0 ELSE a)
      /\ RefCash' = RefCash
  BY <1>2, <1>4, PaymentAdds
<1>6. /\ \A j : Recalculated(j, payment, refund) = PaySum(j) - RefSum(j)
      /\ \A j : Recalculated(j, payment', refund') = PaySum(j)' - RefSum(j)'
  BY DEF Recalculated, PaySum, RefSum
<1>7. \A j \in Invoices : /\ paid[j] = PaySum(j) - RefSum(j) /\ paid[j] = NetOf(j)
                          /\ paid[j] <= Total[j] /\ paid[j] \in Nat /\ Total[j] \in Nat
                          /\ PaySum(j) \in Nat /\ RefSum(j) \in Nat
  <2>1. \A j \in Invoices : PaySum(j) \in Nat /\ RefSum(j) \in Nat
    BY <1>4, SumTypes DEF PaySum, RefSum
  <2> QED BY <1>4, <1>6, <2>1, SumsAgree, TotalAssumption DEF IInv, PaymentsTrue
<1>8. /\ paid'[i] = paid[i] + a /\ \A j \in Invoices \ {i} : paid'[j] = paid[j]
      /\ paid' \in [Invoices -> Nat]
  <2>1. Recalculated(i, payment', refund) = paid[i] + a
    <3>1. refund' = refund
      BY <1>2
    <3>2. Recalculated(i, payment', refund) = PaySum(i)' - RefSum(i)'
      BY <1>6, <3>1
    <3> QED BY <1>4, <1>5, <1>7, <3>2
  <2> DEFINE r == Recalculated(i, payment', refund)
  <2>2. paid' = [paid EXCEPT ![i] = r]
    BY <1>2
  <2> HIDE DEF r
  <2>3. r \in Nat
    BY <1>4, <1>7, <2>1 DEF r
  <2>4. paid' \in [Invoices -> Nat] /\ paid'[i] = r /\ \A j \in Invoices \ {i} : paid'[j] = paid[j]
    BY <1>4, <2>2, <2>3
  <2> QED BY <2>1, <2>4 DEF r
<1>9. txn' \in [Txns -> Command] /\ Shapes' /\ Exclusive'
      /\ txn'[t] = Idle /\ \A u \in Txns \ {t} : txn'[u] = txn[u]
  BY <1>2, <1>4, EndLocks
<1>10. /\ cash' \in [Shifts -> Int]
       /\ SumFunctionOnSet(cash', Shifts)
            = SumFunctionOnSet(cash, Shifts) + IF s = None THEN 0 ELSE a
  BY <1>2, <1>4, DrawerSum
<1>11. /\ \A o \in Shifts : shift[o].status = "none" => cash'[o] = cash[o]
       /\ \A u \in Txns : txn[u].kind = "close" => cash'[txn[u].shift] = cash[txn[u].shift]
  BY <1>2, <1>3, <1>4, ClosingKept
<1>12. TypeOK'
  BY <1>2, <1>4, <1>5, <1>8, <1>9, <1>10 DEF TypeOK
<1>13. RowsExist'
  <2>1. \A q \in Payments : IF payment'[q].status = "none"
                            THEN payment'[q].invoice = None /\ payment'[q].amount = 0
                                 /\ payment'[q].shift = None
                            ELSE payment'[q].invoice \in Invoices /\ payment'[q].amount # 0
    BY <1>4, <1>5 DEF RowsExist
  <2>2. \A f \in Refunds : IF refund[f].payment = None
                           THEN refund[f].amount = 0 /\ refund[f].shift = None
                           ELSE payment'[refund[f].payment].status # "none"
    <3>1. \A f \in Refunds : refund[f].payment \in Payments \cup {None}
      BY <1>4 DEF TypeOK, RefundRow
    <3> QED BY <1>4, <1>5, <3>1 DEF RowsExist
  <2> QED BY <1>2, <1>4, <1>11, <2>1, <2>2 DEF RowsExist
<1>14. OneShiftPerTerminal'
  BY <1>2 DEF IInv, DrawerInv, OneShiftPerTerminal
<1>15. ASSUME NEW u \in Txns \ {t}, NEW d, d = txn[u] PROVE Ready(d)'
  <2>1. Ready(d) /\ Shape(d)
    BY <1>4, <1>15 DEF DrawerInv, AllReady, Shapes
  <2>2. d.kind \in {"pay", "refund"} => d.invoice \in Invoices \ {i}
    BY <1>1, <1>4, <1>15, <2>1, NoneAssumption DEF DrawerInv, Exclusive, Shape
  <2>3. d.kind = "refund" => /\ payment'[d.payment] = payment[d.payment]
                             /\ Net(d.payment)' = Net(d.payment)
    <3>1. d.kind = "refund" => d.payment \in Payments \ {p}
      BY <1>2, <2>1 DEF Ready, Shape
    <3> QED BY <1>5, <3>1 DEF Net
  <2>4. d.kind = "close" => cash'[d.shift] = cash[d.shift]
    BY <1>11, <1>15
  <2> QED BY <1>2, <1>8, <2>1, <2>2, <2>3, <2>4 DEF Ready
<1>16. AllReady'
  BY <1>9, <1>15, IdleSound DEF AllReady, Idle, Ready
<1>17. NetPaid'
  <2>1. \A j \in Invoices : paid'[j] = NetOf(j)'
    BY <1>5, <1>7, <1>8
  <2> QED BY <2>1 DEF NetPaid, NetOf
<1>18. PaymentsTrue'
  <2>1. \A j \in Invoices : paid'[j] = PaySum(j)' - RefSum(j)' /\ paid'[j] <= Total[j]
    BY <1>3, <1>5, <1>7, <1>8
  <2>2. \A q \in Payments : payment'[q].status # "none" =>
          /\ Refunded(q)' <= payment'[q].amount
          /\ payment'[q].status = "refunded" <=> Refunded(q)' = payment'[q].amount
    BY <1>5 DEF IInv, PaymentsTrue
  <2> QED BY <1>6, <2>1, <2>2 DEF PaymentsTrue
<1>19. CashMatchesPayments'
  <2>1. /\ PayCash \in Nat /\ RefCash \in Nat /\ manual \in Int
        /\ SumFunctionOnSet(cash, Shifts) \in Int
    BY <1>4, SumTypes DEF PayCash, RefCash, TypeOK
  <2>2. SumFunctionOnSet(cash, Shifts) = manual + PayCash - RefCash
    BY SumsAgree DEF IInv
  <2>3. SumFunctionOnSet(cash', Shifts) = manual' + PayCash' - RefCash'
    BY <1>2, <1>5, <1>10, <2>1, <2>2
  <2> QED BY <2>3 DEF CashMatchesPayments, PayCash, RefCash
<1> QED BY <1>9, <1>12, <1>13, <1>14, <1>16, <1>17, <1>18, <1>19 DEF IInv, DrawerInv

-----------------------------------------------------------------------------
(* Refunds *)

\* The rows that a refund writes: payment p, of invoice i, becomes st.
Repays(f, p, i, a, s, st) ==
    /\ f \in Refunds /\ p \in Payments /\ i \in Invoices /\ a \in Nat \ {0}
    /\ s \in Shifts \cup {None} /\ st \in {"completed", "refunded"}
    /\ refund[f].payment = None /\ payment[p].status # "none" /\ payment[p].invoice = i
    /\ payment' = [payment EXCEPT ![p].status = st]
    /\ refund' = [refund EXCEPT ![f] = [payment |-> p, amount |-> a, shift |-> s]]

\* What becomes of the sums.
RefundsFrom(f, p, i, a, s, st) ==
    /\ payment' \in [Payments -> PaymentRow] /\ refund' \in [Refunds -> RefundRow]
    /\ \A q \in Payments : /\ payment'[q].invoice = payment[q].invoice
                           /\ payment'[q].amount = payment[q].amount
                           /\ payment'[q].shift = payment[q].shift
    /\ payment'[p].status = st /\ \A q \in Payments \ {p} : payment'[q] = payment[q]
    /\ refund'[f].payment = p /\ \A g \in Refunds \ {f} : refund'[g] = refund[g]
    /\ Refunded(p)' = Refunded(p) + a
    /\ \A q \in Payments \ {p} : Refunded(q)' = Refunded(q)
    /\ NetOf(i)' = NetOf(i) - a /\ RefSum(i)' = RefSum(i) + a
    /\ \A j \in Invoices \ {i} : NetOf(j)' = NetOf(j) /\ RefSum(j)' = RefSum(j)
    /\ \A j \in Invoices : PaySum(j)' = PaySum(j)
    /\ PayCash' = PayCash
    /\ RefCash' = RefCash + (IF s = None THEN 0 ELSE a)

\* A new refund row takes its amount from its payment and from the payment's invoice, and
\* from the cash when the payment was cash.
LEMMA RefundTakes ==
    ASSUME TypeOK, RowsExist, NEW f, NEW p, NEW i, NEW a, NEW s, NEW st,
           Repays(f, p, i, a, s, st)
    PROVE  RefundsFrom(f, p, i, a, s, st)
<1> USE DEF Repays
<1> DEFINE new == [payment |-> p, amount |-> a, shift |-> s]
           P(j) == {q \in Payments : payment[q].invoice = j}
           A(q) == {g \in Refunds : refund[g].payment = q}
           R(j) == {g \in Refunds : refund[g].payment # None
                                    /\ payment[refund[g].payment].invoice = j}
           w == [g \in Refunds |-> refund[g].amount]
           v == [g \in Refunds |-> refund'[g].amount]
           n == [q \in Payments |-> Net(q)]
           m == [q \in Payments |-> Net(q)']
<1>1. payment \in [Payments -> PaymentRow] /\ refund \in [Refunds -> RefundRow] /\ a \in Int
  BY DEF TypeOK
<1>2. new \in RefundRow
  BY DEF RefundRow
<1>3. /\ refund' \in [Refunds -> RefundRow] /\ refund'[f] = new
      /\ \A g \in Refunds \ {f} : refund'[g] = refund[g]
  <2> HIDE DEF new
  <2> QED BY <1>1, <1>2 DEF new
<1>4. /\ payment' \in [Payments -> PaymentRow]
      /\ payment'[p].status = st /\ \A q \in Payments \ {p} : payment'[q] = payment[q]
      /\ payment'[p].invoice = i /\ payment'[p].amount = payment[p].amount
      /\ payment'[p].shift = payment[p].shift
  BY <1>1 DEF PaymentRow
<1>5. \A q \in Payments : /\ payment'[q].invoice = payment[q].invoice
                          /\ payment'[q].amount = payment[q].amount
                          /\ payment'[q].shift = payment[q].shift
  BY <1>4
<1>6. /\ refund[f].shift = None /\ refund[f].amount = 0
      /\ \A g \in Refunds : refund[g].payment \in Payments \cup {None}
      /\ \A g \in Refunds : refund'[g].payment \in Payments \cup {None}
      /\ None \notin Payments
  BY <1>1, <1>3, NoneAssumption DEF RowsExist, RefundRow
<1>7. /\ \A g \in Refunds : w[g] \in Int /\ v[g] \in Int
      /\ \A g \in Refunds \ {f} : v[g] = w[g]
      /\ v[f] = a
  BY <1>1, <1>3 DEF RefundRow
<1>8. /\ Refunded(p)' = Refunded(p) + a
      /\ \A q \in Payments \ {p} : Refunded(q)' = Refunded(q)
  <2>1. ASSUME NEW q \in Payments \ {p} PROVE Refunded(q)' = Refunded(q)
    <3> DEFINE Aq == A(q)
    <3>1. Aq' = Aq
      BY <1>3, <1>6
    <3>2. IsFiniteSet(Aq) /\ f \notin Aq /\ Aq \subseteq Refunds
      BY <1>6, SomeFinite
    <3>3. Refunded(q)' = SumFunctionOnSet(v, Aq) /\ Refunded(q) = SumFunctionOnSet(w, Aq)
      BY <3>1 DEF Refunded
    <3> HIDE DEF Aq, v, w
    <3>4. SumFunctionOnSet(w, Aq) = SumFunctionOnSet(v, Aq)
      BY <1>7, <3>2, SumSame
    <3> QED BY <3>3, <3>4
  <2>2. Refunded(p)' = Refunded(p) + a
    <3> DEFINE Ap == A(p)
    <3>1. Ap' = Ap \cup {f}
      BY <1>3, <1>6
    <3>2. IsFiniteSet(Ap) /\ f \notin Ap /\ Ap \subseteq Refunds
      BY <1>6, SomeFinite
    <3>3. Refunded(p)' = SumFunctionOnSet(v, Ap \cup {f}) /\ Refunded(p) = SumFunctionOnSet(w, Ap)
      BY <3>1 DEF Refunded
    <3> HIDE DEF Ap, v, w
    <3>4. SumFunctionOnSet(v, Ap \cup {f}) = SumFunctionOnSet(w, Ap) + v[f]
      BY <1>7, <3>2, SumAdded
    <3> QED BY <1>7, <3>3, <3>4
  <2> QED BY <2>1, <2>2
<1>9. /\ \A q \in Payments : n[q] \in Int /\ m[q] \in Int
      /\ \A q \in Payments \ {p} : m[q] = n[q]
      /\ m[p] = n[p] - a
  <2>1. \A q \in Payments : n[q] \in Int /\ Refunded(q) \in Nat /\ payment[q].amount \in Nat
    BY <1>1, SumTypes DEF PaymentRow
  <2>2. /\ \A q \in Payments : n[q] = payment[q].amount - Refunded(q)
        /\ \A q \in Payments : m[q] = payment'[q].amount - Refunded(q)'
    BY DEF Net
  <2> HIDE DEF n, m
  <2>3. \A q \in Payments \ {p} : m[q] = n[q]
    BY <1>4, <1>8, <2>2
  <2>4. m[p] = n[p] - a
    BY <1>1, <1>4, <1>8, <2>1, <2>2
  <2> QED BY <1>1, <2>1, <2>3, <2>4
<1>10. \A j \in Invoices : P(j)' = P(j) /\ P(j) \subseteq Payments /\ IsFiniteSet(P(j))
  <2>1. \A j \in Invoices : P(j) \in SUBSET Payments
    OBVIOUS
  <2> QED BY <1>5, <2>1, SomeFinite
<1>11. ASSUME NEW j \in Invoices PROVE PaySum(j)' = PaySum(j)
  <2> DEFINE x == [q \in Payments |-> payment[q].amount]
  <2>1. x' = x
    BY <1>5
  <2>2. PaySum(j)' = SumFunctionOnSet(x', P(j)') /\ PaySum(j) = SumFunctionOnSet(x, P(j))
    BY DEF PaySum
  <2> QED BY <1>10, <2>1, <2>2
<1>12. NetOf(i)' = NetOf(i) - a
  <2> DEFINE Pi == P(i)
  <2>1. IsFiniteSet(Pi) /\ p \in Pi /\ Pi \subseteq Payments
    BY <1>10
  <2>2. NetOf(i)' = SumFunctionOnSet(m, Pi) /\ NetOf(i) = SumFunctionOnSet(n, Pi)
    BY <1>10 DEF NetOf
  <2> HIDE DEF Pi, m, n
  <2>3. SumFunctionOnSet(m, Pi) = SumFunctionOnSet(n, Pi) + m[p] - n[p]
    BY <1>9, <2>1, SumChanged
  <2>4. SumFunctionOnSet(n, Pi) \in Int /\ n[p] \in Int
    BY <1>9, <2>1, SumInt
  <2> QED BY <1>1, <1>9, <2>2, <2>3, <2>4
<1>13. ASSUME NEW j \in Invoices \ {i} PROVE NetOf(j)' = NetOf(j)
  <2> DEFINE Pj == P(j)
  <2>1. IsFiniteSet(Pj) /\ p \notin Pj /\ Pj \subseteq Payments
    BY <1>10
  <2>2. NetOf(j)' = SumFunctionOnSet(m, Pj) /\ NetOf(j) = SumFunctionOnSet(n, Pj)
    BY <1>10 DEF NetOf
  <2> HIDE DEF Pj, m, n
  <2>3. SumFunctionOnSet(m, Pj) = SumFunctionOnSet(n, Pj)
    BY <1>9, <2>1, SumSame
  <2> QED BY <2>2, <2>3
<1>14. RefSum(i)' = RefSum(i) + a
  <2> DEFINE Ri == R(i)
  <2>1. IsFiniteSet(Ri) /\ f \notin Ri /\ Ri \subseteq Refunds
    BY SomeFinite
  <2>2. Ri' = Ri \cup {f}
    BY <1>3, <1>5, <1>6
  <2>3. RefSum(i)' = SumFunctionOnSet(v, Ri \cup {f}) /\ RefSum(i) = SumFunctionOnSet(w, Ri)
    BY <2>2 DEF RefSum
  <2> HIDE DEF Ri, v, w
  <2>4. SumFunctionOnSet(v, Ri \cup {f}) = SumFunctionOnSet(w, Ri) + v[f]
    BY <1>7, <2>1, SumAdded
  <2> QED BY <1>7, <2>3, <2>4
<1>15. ASSUME NEW j \in Invoices \ {i} PROVE RefSum(j)' = RefSum(j)
  <2> DEFINE Rj == R(j)
  <2>1. IsFiniteSet(Rj) /\ f \notin Rj /\ Rj \subseteq Refunds
    BY SomeFinite
  <2>2. Rj' = Rj
    BY <1>3, <1>5, <1>6
  <2>3. RefSum(j)' = SumFunctionOnSet(v, Rj) /\ RefSum(j) = SumFunctionOnSet(w, Rj)
    BY <2>2 DEF RefSum
  <2> HIDE DEF Rj, v, w
  <2>4. SumFunctionOnSet(v, Rj) = SumFunctionOnSet(w, Rj)
    BY <1>7, <2>1, SumSame
  <2> QED BY <2>3, <2>4
<1>16. PayCash' = PayCash
  <2> DEFINE C == {q \in Payments : payment[q].shift # None}
             x == [q \in Payments |-> payment[q].amount]
  <2>1. C' = C /\ x' = x
    BY <1>5
  <2> QED BY <2>1 DEF PayCash
<1>17. RefCash' = RefCash + (IF s = None THEN 0 ELSE a)
  <2> DEFINE C == {g \in Refunds : refund[g].shift # None}
  <2>1. IsFiniteSet(C) /\ f \notin C /\ C \subseteq Refunds
    BY <1>6, SomeFinite
  <2>2. C' = IF s = None THEN C ELSE C \cup {f}
    BY <1>3, <2>1
  <2>3. RefCash = SumFunctionOnSet(w, C) /\ RefCash' = SumFunctionOnSet(v, C')
    BY DEF RefCash
  <2>4. SumFunctionOnSet(w, C) \in Int
    BY SumTypes
  <2> HIDE DEF C, v, w
  <2>5. SumFunctionOnSet(v, C \cup {f}) = SumFunctionOnSet(w, C) + v[f]
    BY <1>7, <2>1, SumAdded
  <2>6. SumFunctionOnSet(v, C) = SumFunctionOnSet(w, C)
    BY <1>7, <2>1, SumSame
  <2> QED BY <1>7, <2>2, <2>3, <2>4, <2>5, <2>6
<1> QED BY <1>3, <1>4, <1>5, <1>8, <1>11, <1>12, <1>13, <1>14, <1>15, <1>16, <1>17 DEF RefundsFrom

LEMMA CommitRefundStep ==
    ASSUME IInv, NEW t \in Txns, CommitRefund(t)
    PROVE  IInv'
<1>1. PICK f \in Refunds, p \in Payments, i \in Invoices, a \in Nat \ {0},
           s \in Shifts \cup {None} :
         /\ txn[t].refund = f /\ txn[t].payment = p /\ txn[t].invoice = i /\ txn[t].amount = a
         /\ txn[t].shift = s
  <2>1. Shape(txn[t]) /\ txn[t].kind = "refund" /\ txn[t] \in Command
    BY DEF CommitRefund, Close, IInv, DrawerInv, Shapes, TypeOK
  <2> QED BY <2>1 DEF Shape, Command
<1>2. /\ refund[f].payment = None
      /\ refund' = [refund EXCEPT ![f] = [payment |-> p, amount |-> a, shift |-> s]]
      /\ payment' = [payment EXCEPT ![p].status =
                        IF Refunded(p) + a = payment[p].amount
                        THEN "refunded" ELSE payment[p].status]
      /\ AddCash(s, -a)
      /\ paid' = [paid EXCEPT ![i] = Recalculated(i, payment', refund')]
      /\ UNCHANGED <<shift, manual>> /\ txn' = [txn EXCEPT ![t] = Idle]
      /\ s # None => ShiftFree(s)
  BY <1>1 DEF CommitRefund, Close
<1>3. /\ payment[p].status # "none" /\ payment[p].invoice = i /\ a <= Net(p)
      /\ s # None => shift[s].status # "none"
  BY <1>1 DEF CommitRefund, Close, IInv, DrawerInv, AllReady, Ready
<1>4. /\ TypeOK /\ RowsExist /\ DrawerInv /\ paid \in [Invoices -> Nat]
      /\ a \in Int /\ a > 0 /\ -a \in Int
  BY DEF IInv, DrawerInv, TypeOK
<1>5. PICK st \in {"completed", "refunded"} :
         st = IF Refunded(p) + a = payment[p].amount THEN "refunded" ELSE payment[p].status
  BY <1>3, <1>4 DEF TypeOK, PaymentRow
<1>0. payment' = [payment EXCEPT ![p].status = st]
  BY <1>2, <1>5
<1>6. RefundsFrom(f, p, i, a, s, st)
  <2>1. Repays(f, p, i, a, s, st)
    BY <1>0, <1>2, <1>3, <1>5 DEF Repays
  <2> QED BY <1>4, <2>1, RefundTakes
<1> USE DEF RefundsFrom
<1>7. \A j : Recalculated(j, payment', refund') = PaySum(j)' - RefSum(j)'
  BY DEF Recalculated, PaySum, RefSum
<1>8. \A j \in Invoices : /\ paid[j] = PaySum(j) - RefSum(j) /\ paid[j] = NetOf(j)
                          /\ paid[j] <= Total[j] /\ paid[j] \in Nat /\ Total[j] \in Nat
                          /\ PaySum(j) \in Nat /\ RefSum(j) \in Nat
  <2>1. \A j \in Invoices : PaySum(j) \in Nat /\ RefSum(j) \in Nat
    BY <1>4, SumTypes DEF PaySum, RefSum
  <2> QED BY <1>4, <2>1, SumsAgree, TotalAssumption DEF IInv, PaymentsTrue
<1>9. \A q \in Payments : payment'[q].status # "none" =>
          /\ Refunded(q)' <= payment'[q].amount
          /\ payment'[q].status = "refunded" <=> Refunded(q)' = payment'[q].amount
  <2>1. \A q \in Payments : payment[q].status # "none" =>
          /\ Refunded(q) <= payment[q].amount
          /\ payment[q].status = "refunded" <=> Refunded(q) = payment[q].amount
    BY DEF IInv, PaymentsTrue
  <2>2. Refunded(p) \in Nat /\ payment[p].amount \in Nat
    BY <1>4, SumTypes DEF TypeOK, PaymentRow
  <2>3. Refunded(p) + a <= payment[p].amount
    BY <1>3, <1>4, <2>2 DEF Net
  <2>4. st = "refunded" <=> Refunded(p) + a = payment[p].amount
    BY <1>3, <1>4, <1>5, <2>1, <2>2, <2>3
  <2> QED BY <1>6, <2>1, <2>3, <2>4
<1>10. NetOf(i)' \in Nat
  <2> DEFINE Pi == {q \in Payments : payment'[q].invoice = i}
             m == [q \in Payments |-> Net(q)']
  <2>1. IsFiniteSet(Pi)
    <3>1. Pi \in SUBSET Payments
      OBVIOUS
    <3> QED BY <3>1, SomeFinite
  <2>2. \A q \in Payments : Refunded(q)' \in Nat /\ payment'[q].amount \in Nat
    <3>1. \A q \in Payments : Refunded(q) \in Nat
      BY <1>4, SumTypes
    <3> QED BY <1>4, <1>6, <3>1 DEF PaymentRow
  <2>3. \A q \in Pi : payment'[q].status # "none"
    <3>1. \A q \in Payments : payment[q].status = "none" => payment[q].invoice # i
      BY <1>4, NoneAssumption DEF RowsExist
    <3> QED BY <1>5, <1>6, <3>1
  <2>4. \A q \in Pi : m[q] \in Nat
    <3>1. \A q \in Payments : m[q] = payment'[q].amount - Refunded(q)'
      BY DEF Net
    <3> HIDE DEF m
    <3> QED BY <1>9, <2>2, <2>3, <3>1
  <2>5. NetOf(i)' = SumFunctionOnSet(m, Pi)
    BY DEF NetOf
  <2> HIDE DEF Pi, m
  <2> QED BY <2>1, <2>4, <2>5, SumNat
<1>11. /\ paid'[i] = paid[i] - a /\ \A j \in Invoices \ {i} : paid'[j] = paid[j]
       /\ paid' \in [Invoices -> Nat]
  <2> DEFINE r == Recalculated(i, payment', refund')
  <2>1. r = paid[i] - a
    <3>1. r = PaySum(i)' - RefSum(i)'
      BY <1>7
    <3> HIDE DEF r
    <3> QED BY <1>4, <1>6, <1>8, <3>1
  <2>2. paid' = [paid EXCEPT ![i] = r]
    BY <1>2
  <2> HIDE DEF r
  <2>3. r \in Nat
    BY <1>6, <1>8, <1>10, <2>1
  <2>4. paid' \in [Invoices -> Nat] /\ paid'[i] = r /\ \A j \in Invoices \ {i} : paid'[j] = paid[j]
    BY <1>4, <2>2, <2>3
  <2> QED BY <2>1, <2>4
<1>12. txn' \in [Txns -> Command] /\ Shapes' /\ Exclusive'
       /\ txn'[t] = Idle /\ \A u \in Txns \ {t} : txn'[u] = txn[u]
  BY <1>2, <1>4, EndLocks
<1>13. /\ cash' \in [Shifts -> Int]
       /\ SumFunctionOnSet(cash', Shifts)
            = SumFunctionOnSet(cash, Shifts) + IF s = None THEN 0 ELSE -a
  BY <1>2, <1>4, DrawerSum
<1>14. /\ \A o \in Shifts : shift[o].status = "none" => cash'[o] = cash[o]
       /\ \A u \in Txns : txn[u].kind = "close" => cash'[txn[u].shift] = cash[txn[u].shift]
  BY <1>2, <1>3, <1>4, ClosingKept
<1>15. TypeOK'
  BY <1>2, <1>4, <1>6, <1>11, <1>12, <1>13 DEF TypeOK
<1>16. RowsExist'
  <2>1. \A q \in Payments : IF payment'[q].status = "none"
                            THEN payment'[q].invoice = None /\ payment'[q].amount = 0
                                 /\ payment'[q].shift = None
                            ELSE payment'[q].invoice \in Invoices /\ payment'[q].amount # 0
    BY <1>3, <1>4, <1>5, <1>6 DEF RowsExist
  <2>2. \A g \in Refunds : IF refund'[g].payment = None
                           THEN refund'[g].amount = 0 /\ refund'[g].shift = None
                           ELSE payment'[refund'[g].payment].status # "none"
    <3>1. \A g \in Refunds : refund[g].payment \in Payments \cup {None}
      BY <1>4 DEF TypeOK, RefundRow
    <3>2. p # None
      BY NoneAssumption
    <3> QED BY <1>4, <1>5, <1>6, <3>1, <3>2 DEF RowsExist
  <2> QED BY <1>2, <1>4, <1>14, <2>1, <2>2 DEF RowsExist
<1>17. OneShiftPerTerminal'
  BY <1>2 DEF IInv, DrawerInv, OneShiftPerTerminal
<1>18. ASSUME NEW u \in Txns \ {t}, NEW d, d = txn[u] PROVE Ready(d)'
  <2>1. Ready(d) /\ Shape(d)
    BY <1>4, <1>18 DEF DrawerInv, AllReady, Shapes
  <2>2. d.kind \in {"pay", "refund"} => d.invoice \in Invoices \ {i}
    BY <1>1, <1>4, <1>18, <2>1, NoneAssumption DEF DrawerInv, Exclusive, Shape
  <2>3. d.kind = "refund" => /\ payment'[d.payment] = payment[d.payment]
                             /\ Net(d.payment)' = Net(d.payment)
    <3>1. d.kind = "refund" => d.payment \in Payments \ {p}
      BY <1>3, <2>1, <2>2 DEF Ready, Shape
    <3> QED BY <1>6, <3>1 DEF Net
  <2>4. d.kind = "close" => cash'[d.shift] = cash[d.shift]
    BY <1>14, <1>18
  <2> QED BY <1>2, <1>11, <2>1, <2>2, <2>3, <2>4 DEF Ready
<1>19. AllReady'
  BY <1>12, <1>18, IdleSound DEF AllReady, Idle, Ready
<1>20. NetPaid'
  <2>1. \A j \in Invoices : paid'[j] = NetOf(j)'
    BY <1>6, <1>8, <1>11
  <2> QED BY <2>1 DEF NetPaid, NetOf
<1>21. PaymentsTrue'
  <2>1. \A j \in Invoices : paid'[j] = PaySum(j)' - RefSum(j)' /\ paid'[j] <= Total[j]
    BY <1>4, <1>6, <1>8, <1>11
  <2> QED BY <1>7, <1>9, <2>1 DEF PaymentsTrue
<1>22. CashMatchesPayments'
  <2>1. /\ PayCash \in Nat /\ RefCash \in Nat /\ manual \in Int
        /\ SumFunctionOnSet(cash, Shifts) \in Int
    BY <1>4, SumTypes DEF PayCash, RefCash, TypeOK
  <2>2. SumFunctionOnSet(cash, Shifts) = manual + PayCash - RefCash
    BY SumsAgree DEF IInv
  <2>3. /\ UNCHANGED manual /\ PayCash' = PayCash
        /\ RefCash' = RefCash + (IF s = None THEN 0 ELSE a)
    BY <1>2, <1>6
  <2> HIDE DEF RefundsFrom
  <2>4. SumFunctionOnSet(cash', Shifts) = manual' + PayCash' - RefCash'
    <3>1. CASE s = None
      BY <1>13, <2>1, <2>2, <2>3, <3>1
    <3>2. CASE s # None
      BY <1>4, <1>13, <2>1, <2>2, <2>3, <3>2
    <3> QED BY <3>1, <3>2
  <2> QED BY <2>4 DEF CashMatchesPayments, PayCash, RefCash
<1> QED BY <1>12, <1>15, <1>16, <1>17, <1>19, <1>20, <1>21, <1>22 DEF IInv, DrawerInv

-----------------------------------------------------------------------------
(* The theorems *)

LEMMA Initially == Init => IInv
<1> SUFFICES ASSUME Init PROVE IInv
  OBVIOUS
<1>1. TypeOK
  BY IdleSound DEF Init, TypeOK, ShiftRow, PaymentRow, RefundRow
<1>2. RowsExist /\ Shapes /\ Exclusive /\ AllReady /\ OneShiftPerTerminal
  BY IdleSound DEF Init, RowsExist, Shapes, Exclusive, AllReady, OneShiftPerTerminal, Idle
<1>3. /\ \A j \in Invoices : {p \in Payments : payment[p].invoice = j} = {}
      /\ {p \in Payments : payment[p].shift # None} = {}
      /\ {f \in Refunds : refund[f].shift # None} = {}
      /\ \A j \in Invoices : {f \in Refunds : refund[f].payment # None
                                  /\ payment[refund[f].payment].invoice = j} = {}
  BY NoneAssumption DEF Init
<1>4. /\ \A j \in Invoices : NetOf(j) = 0 /\ PaySum(j) = 0 /\ RefSum(j) = 0
      /\ PayCash = 0 /\ RefCash = 0
  BY <1>3, SumNothing DEF NetOf, PaySum, RefSum, PayCash, RefCash
<1>5. SumFunctionOnSet(cash, Shifts) = 0
  <2>1. \A s \in Shifts : cash[s] = 0
    BY DEF Init
  <2> QED BY <2>1, TablesAssumption, SumZeros
<1>6. \A i \in Invoices : paid[i] = 0 /\ Total[i] \in Nat
  BY TotalAssumption DEF Init
<1>7. \A p \in Payments : payment[p].status = "none"
  BY DEF Init
<1>8. manual = 0
  BY DEF Init
<1>9. NetPaid /\ CashMatchesPayments
  BY <1>4, <1>5, <1>6, <1>8, SumsAgree
<1>10. PaymentsTrue
  BY <1>4, <1>6, <1>7, SumsAgree DEF PaymentsTrue
<1> QED BY <1>1, <1>2, <1>9, <1>10 DEF IInv, DrawerInv

LEMMA Inductive == IInv /\ [Next]_vars => IInv'
<1> SUFFICES ASSUME IInv, [Next]_vars PROVE IInv'
  OBVIOUS
<1>1. ASSUME NEW t \in Txns, NEW u \in Cashiers, PortalCashier(t, u) PROVE IInv'
  BY <1>1, BeginStep DEF PortalCashier, Begin
<1>2. ASSUME NEW t \in Txns, NEW u \in Cashiers, CashierShiftViewSet(t, u) PROVE IInv'
  <2>1. ASSUME NEW s \in Shifts, BeginClose(t, s) PROVE IInv'
    BY <2>1, BeginStep DEF Begin
  <2>2. ASSUME NEW s \in Shifts, NEW amount \in Amounts,
               Movement(s, amount) \/ Movement(s, -amount)
        PROVE  IInv'
    <3>1. amount \in Int /\ -amount \in Int
      BY AmountsAssumption
    <3> QED BY <2>2, <3>1, MovementStep
  <2> QED BY <1>2, <2>1, <2>2 DEF CashierShiftViewSet
<1>3. ASSUME NEW t \in Txns, NEW u \in Cashiers, PortalPayments(t, u) PROVE IInv'
  BY <1>3, BeginStep DEF PortalPayments, Begin
<1>4. ASSUME NEW t \in Txns, NEW u \in Cashiers, PaymentViewSet(t, u) PROVE IInv'
  BY <1>4, BeginStep DEF PaymentViewSet, Begin
<1>5. CASE Next
  BY <1>1, <1>2, <1>3, <1>4, <1>5, CommitOpenStep, CommitCloseStep, CommitPayStep,
     CommitRefundStep, RollbackStep DEF Next
<1>6. CASE UNCHANGED vars
  BY <1>6, StutterStep
<1> QED BY <1>5, <1>6

\* Rows, locks and sums fit each other in every reachable state.
THEOREM Invariance == Spec => []IInv
  BY Initially, Inductive, PTL DEF Spec

\* The variables keep their types: in particular no invoice is ever paid with less than
\* nothing, whatever is refunded.
THEOREM TypeCorrect == Spec => []TypeOK
<1>1. IInv => TypeOK
  BY DEF IInv, DrawerInv
<1> QED BY <1>1, Invariance, PTL

\* open_cashier_shift, close_cashier_shift: because the terminal is locked, two drawers are
\* never open at one terminal.
THEOREM OneDrawer == Spec => []OneShiftPerTerminal
<1>1. IInv => OneShiftPerTerminal
  BY DEF IInv, DrawerInv
<1> QED BY <1>1, Invariance, PTL

\* record_payment, refund_payment: because both lock the invoice until they commit, it is
\* never paid beyond its total and no payment is refunded beyond its amount.
THEOREM PaymentsAddUp == Spec => []PaymentsTrue
<1>1. IInv => PaymentsTrue
  BY DEF IInv
<1> QED BY <1>1, Invariance, PTL

\* The drawers of all shifts together hold what the payments, the refunds and the manual
\* movements say: every row moves cash once, in the transaction that writes it.
THEOREM CashAddsUp == Spec => []CashMatchesPayments
<1>1. IInv => CashMatchesPayments
  BY DEF IInv
<1> QED BY <1>1, Invariance, PTL

\* close_cashier_shift: what is inserted while a shift is being closed waits, so the sum
\* that was read is the sum when the shift is closed.
THEOREM ZReportSums == Spec => ZReportComplete
<1> DEFINE Closes == \A s \in Shifts : (shift[s].status = "open" /\ shift'[s].status = "closed")
                                       => shift'[s].expected = cash'[s]
<1>1. ASSUME IInv, [Next]_vars PROVE Closes
  <2>1. ASSUME UNCHANGED shift PROVE Closes
    BY <2>1
  <2>2. ASSUME NEW t \in Txns, CommitOpen(t) PROVE Closes
    BY <1>1, <2>2 DEF CommitOpen, IInv, DrawerInv, TypeOK
  <2>3. ASSUME NEW t \in Txns, CommitClose(t) PROVE Closes
    <3> DEFINE c == txn[t]
    <3>1. c.kind = "close" /\ c.shift \in Shifts /\ c.amount = cash[c.shift] /\ cash' = cash
      BY <1>1, <2>3 DEF CommitClose, Close, IInv, DrawerInv, Shapes, Shape, AllReady, Ready
    <3>2. shift' = [shift EXCEPT ![c.shift].status = "closed", ![c.shift].expected = c.amount]
      BY <2>3 DEF CommitClose
    <3>3. shift \in [Shifts -> ShiftRow]
      BY <1>1 DEF IInv, DrawerInv, TypeOK
    <3> HIDE DEF c
    <3>4. /\ shift'[c.shift].expected = c.amount
          /\ \A s \in Shifts \ {c.shift} : shift'[s] = shift[s]
      BY <3>1, <3>2, <3>3 DEF ShiftRow
    <3> QED BY <3>1, <3>4
  <2> QED
    <3>1. ASSUME NEW t \in Txns, NEW cmd, Open(t, cmd) PROVE UNCHANGED shift
      BY <3>1 DEF Open
    <3>2. ASSUME NEW t \in Txns, NEW u \in Cashiers,
                 PortalCashier(t, u) \/ CashierShiftViewSet(t, u)
                 \/ PortalPayments(t, u) \/ PaymentViewSet(t, u)
          PROVE  UNCHANGED shift
      BY <3>1, <3>2 DEF PortalCashier, CashierShiftViewSet, PortalPayments, PaymentViewSet,
           BeginOpen, BeginClose, BeginPay, BeginRefund, Movement
    <3>3. ASSUME NEW t \in Txns, CommitPay(t) \/ CommitRefund(t) \/ Rollback(t)
          PROVE  UNCHANGED shift
      BY <3>3 DEF CommitPay, CommitRefund, Rollback
    <3>4. UNCHANGED vars => UNCHANGED shift
      BY DEF vars
    <3> HIDE DEF Closes
    <3> QED BY <1>1, <2>1, <2>2, <2>3, <3>2, <3>3, <3>4 DEF Next
<1>2. IInv /\ [Next]_vars => [Closes]_vars
  BY <1>1
<1> QED BY <1>2, Invariance, PTL DEF Spec, ZReportComplete

-----------------------------------------------------------------------------
(* Accounts, their merging and their anonymization.  Both theorems rest on the locks:    *)
(* what a merge or an execution has checked when it began still holds when it writes,    *)
(* because whoever could change it needs the account.  update_me takes none before it    *)
(* saves; it can do no harm here because it starts from accounts that are active, and    *)
(* those are neither merged nor anonymized.                                              *)

Taken(o) == {office[o].for, office[o].duplicate} \ {None}

\* A merge and an execution have their accounts for themselves; a reservation that is
\* inserted shares its account with others.
GuestLocks ==
    \A o, p \in Offices :
        (o # p /\ office[o].kind \in {"merge", "execute"}) => Taken(o) \cap Taken(p) = {}

\* Active accounts stand for themselves and have not been anonymized; such is what
\* update_me starts from.
StandsAlone(rec) == rec.active => rec.into = None /\ ~rec.anonymized
ActiveStands ==
    \A g \in Guests :
        /\ StandsAlone(account[g])
        /\ \A rec \in draft[g] : rec.into = None /\ ~rec.anonymized

\* What an open transaction works on is there, and what it has checked still holds.
WorkIsReady(o) ==
    /\ office[o].kind = "book" => office[o].for \in Guests /\ office[o].booking \in Bookings
    /\ office[o].kind = "merge" =>
          /\ office[o].for \in Guests /\ office[o].duplicate \in Guests
          /\ Mergeable(office[o].for, office[o].duplicate)
    /\ office[o].kind = "execute" =>
          /\ office[o].for \in Guests /\ office[o].request \in Requests
          /\ request[office[o].request].status # "none"
          /\ request[office[o].request].type = "anonymize" => ~Blocked(office[o].for)
WorkReady == \A o \in Offices : WorkIsReady(o)

RequestsOfGuests == \A r \in Requests : request[r].status # "none" => request[r].guest \in Guests

GuestInv ==
    /\ GuestTypeOK /\ GuestLocks /\ ActiveStands /\ WorkReady /\ RequestsOfGuests /\ MergesEnd

-----------------------------------------------------------------------------
(* Types *)

LEMMA GuestTypes == ASSUME GuestTypeOK, RequestsOfGuests, WorkReady, [GuestNext]_guestVars
                    PROVE  GuestTypeOK'
<1>1. CASE UNCHANGED guestVars
  BY <1>1 DEF guestVars, GuestTypeOK
<1>2. ASSUME NEW o \in Offices, NEW b \in Bookings, NEW g \in Guests, BeginBooking(o, b, g)
      PROVE  GuestTypeOK'
  BY <1>2 DEF BeginBooking, BeginWork, GuestTypeOK, GuestWork, NoWork
<1>3. ASSUME NEW o \in Offices, NEW u \in Staff, NEW p \in Guests, NEW d \in Guests,
             BeginMerge(o, u, p, d)
      PROVE  GuestTypeOK'
  BY <1>3 DEF BeginMerge, BeginWork, GuestTypeOK, GuestWork, NoWork
<1>4. ASSUME NEW u \in Staff, NEW r \in Requests, NEW decision \in {"approved", "rejected"},
             ReviewRequest(u, r, decision)
      PROVE  GuestTypeOK'
  BY <1>4 DEF ReviewRequest, GuestTypeOK, RequestRow
<1>5. ASSUME NEW o \in Offices, NEW u \in Staff, NEW r \in Requests, BeginExecute(o, u, r)
      PROVE  GuestTypeOK'
  <2>1. request[r].guest \in Guests
    BY <1>5 DEF BeginExecute, RequestsOfGuests
  <2> QED BY <1>5, <2>1 DEF BeginExecute, BeginWork, GuestTypeOK, GuestWork, NoWork
<1>6. ASSUME NEW r \in Requests, NEW g \in Guests, NEW type \in {"export", "anonymize"},
             SubmitRequest(r, g, type)
      PROVE  GuestTypeOK'
  BY <1>6 DEF SubmitRequest, GuestTypeOK, RequestRow
<1>7. ASSUME NEW o \in Offices, CommitBooking(o) PROVE GuestTypeOK'
  BY <1>7 DEF CommitBooking, EndWork, GuestTypeOK, GuestWork, NoWork, BookingRow, WorkReady, WorkIsReady
<1>8. ASSUME NEW o \in Offices, CommitMerge(o) PROVE GuestTypeOK'
  <2>1. office[o].for \in Guests /\ office[o].duplicate \in Guests
    BY <1>8 DEF CommitMerge, EndWork, WorkReady, WorkIsReady
  <2>2. office' \in [Offices -> GuestWork] /\ request' = request /\ draft' = draft
    BY <1>8 DEF CommitMerge, EndWork, GuestTypeOK, GuestWork, NoWork
  <2>3. account' \in [Guests -> AccountRow]
    <3> DEFINE p == office[o].for
               d == office[o].duplicate
               data == account[p].personal \/ account[d].personal
               filled == [account[p] EXCEPT !.personal = data]
               first == [account EXCEPT ![p] = filled]
               ended == [first[d] EXCEPT !.active = FALSE, !.into = p]
    <3>1. filled \in AccountRow
      <4>1. data \in BOOLEAN
        OBVIOUS
      <4> HIDE DEF data
      <4> QED BY <2>1, <4>1 DEF GuestTypeOK, AccountRow
    <3>2. first \in [Guests -> AccountRow]
      <4> HIDE DEF filled
      <4> QED BY <2>1, <3>1 DEF GuestTypeOK
    <3>3. ended \in AccountRow
      <4>1. first[d] \in AccountRow
        BY <2>1, <3>2
      <4> HIDE DEF first
      <4> QED BY <2>1, <4>1 DEF AccountRow
    <3>4. account' = [first EXCEPT ![d] = ended]
      BY <1>8, <2>1 DEF CommitMerge, GuestTypeOK, AccountRow
    <3> HIDE DEF first, ended
    <3> QED BY <2>1, <3>2, <3>3, <3>4
  <2>4. booking' \in [Bookings -> BookingRow] /\ merges' \subseteq Guests
    BY <1>8, <2>1 DEF CommitMerge, GuestTypeOK, BookingRow
  <2> QED BY <2>2, <2>3, <2>4 DEF GuestTypeOK
<1>9. ASSUME NEW o \in Offices, CommitExecute(o) PROVE GuestTypeOK'
  <2>1. office[o].for \in Guests /\ office[o].request \in Requests
    BY <1>9 DEF CommitExecute, EndWork, WorkReady, WorkIsReady
  <2>2. office' \in [Offices -> GuestWork] /\ UNCHANGED <<booking, merges, draft>>
    BY <1>9 DEF CommitExecute, EndWork, GuestTypeOK, GuestWork, NoWork
  <2>3. account' \in [Guests -> AccountRow]
    <3> DEFINE g == office[o].for
               blank == [account[g] EXCEPT !.personal = FALSE, !.active = FALSE,
                                            !.anonymized = TRUE]
    <3>1. blank \in AccountRow
      <4>1. PICK old \in AccountRow : old = account[g]
        BY <2>1 DEF GuestTypeOK
      <4> HIDE DEF GuestTypeOK, g
      <4> QED BY <4>1 DEF AccountRow
    <3>2. account' = account \/ account' = [account EXCEPT ![g] = blank]
      BY <1>9, <2>1 DEF CommitExecute, GuestTypeOK, AccountRow
    <3> HIDE DEF blank
    <3> QED BY <2>1, <3>1, <3>2 DEF GuestTypeOK
  <2>4. request' \in [Requests -> RequestRow]
    BY <1>9, <2>1 DEF CommitExecute, GuestTypeOK, RequestRow
  <2> QED BY <2>2, <2>3, <2>4 DEF GuestTypeOK
<1>10. ASSUME NEW o \in Offices, RollBackWork(o) PROVE GuestTypeOK'
  BY <1>10 DEF RollBackWork, GuestTypeOK, GuestWork, NoWork
<1>11. ASSUME NEW b \in Bookings, EndBooking(b) PROVE GuestTypeOK'
  BY <1>11 DEF EndBooking, GuestTypeOK, BookingRow
<1>12. ASSUME NEW g \in Guests, SaveProfile(g) PROVE GuestTypeOK'
  <2> DEFINE rec == [account[g] EXCEPT !.personal = TRUE]
  <2>1. rec \in AccountRow
    BY DEF GuestTypeOK, AccountRow
  <2>2. account' = [account EXCEPT ![g] = rec]
    BY <1>12 DEF SaveProfile
  <2> HIDE DEF rec
  <2> QED BY <1>12, <2>1, <2>2 DEF SaveProfile, GuestTypeOK
<1>13. ASSUME NEW g \in Guests, BeginUpdate(g) PROVE GuestTypeOK'
  BY <1>13 DEF BeginUpdate, GuestTypeOK
<1>14. ASSUME NEW g \in Guests, SaveUpdate(g) PROVE GuestTypeOK'
  <2>1. PICK rec \in draft[g] :
              account' = [account EXCEPT ![g] = [rec EXCEPT !.personal = TRUE]]
    BY <1>14 DEF SaveUpdate
  <2>2. rec \in AccountRow
    BY <2>1 DEF GuestTypeOK
  <2> QED BY <1>14, <2>1, <2>2 DEF SaveUpdate, GuestTypeOK, AccountRow
<1>15. ASSUME NEW u \in Staff, NEW g \in Guests, NEW hold \in BOOLEAN, SetLegalHold(u, g, hold)
       PROVE  GuestTypeOK'
  BY <1>15 DEF SetLegalHold, GuestTypeOK, AccountRow
<1> QED BY <1>1, <1>2, <1>3, <1>4, <1>5, <1>6, <1>7, <1>8, <1>9, <1>10, <1>11, <1>12, <1>13,
           <1>14, <1>15 DEF GuestNext, PortalGuests, PortalPrivacy

-----------------------------------------------------------------------------
(* Locks *)

\* How a step moves a transaction.
BeginsWork(o) ==
    /\ office[o] = NoWork
    /\ \/ office'[o].kind \in {"merge", "execute"} /\ \A g \in Taken(o)' : AccountFree(g)
       \/ office'[o].kind = "book" /\ \A g \in Taken(o)' : Referable(g)
EndsWork(o) == office'[o] = NoWork

LEMMA OneOfficeWorks == ASSUME GuestTypeOK, [GuestNext]_guestVars
                  PROVE  \/ office' = office
                         \/ \E o \in Offices : /\ BeginsWork(o) \/ EndsWork(o)
                                               /\ \A p \in Offices \ {o} : office'[p] = office[p]
<1>1. CASE office' = office
  BY <1>1
<1>2. ASSUME NEW o \in Offices, NEW b \in Bookings, NEW g \in Guests, BeginBooking(o, b, g)
      PROVE  BeginsWork(o) /\ \A p \in Offices \ {o} : office'[p] = office[p]
  BY <1>2 DEF BeginBooking, BeginWork, NoWork, BeginsWork, Taken, GuestTypeOK
<1>3. ASSUME NEW o \in Offices, NEW u \in Staff, NEW p \in Guests, NEW d \in Guests,
             BeginMerge(o, u, p, d)
      PROVE  BeginsWork(o) /\ \A q \in Offices \ {o} : office'[q] = office[q]
  BY <1>3 DEF BeginMerge, BeginWork, NoWork, BeginsWork, Taken, GuestTypeOK
<1>4. ASSUME NEW o \in Offices, NEW u \in Staff, NEW r \in Requests, BeginExecute(o, u, r)
      PROVE  BeginsWork(o) /\ \A q \in Offices \ {o} : office'[q] = office[q]
  BY <1>4 DEF BeginExecute, BeginWork, NoWork, BeginsWork, Taken, GuestTypeOK
<1>5. ASSUME NEW o \in Offices,
             CommitBooking(o) \/ CommitMerge(o) \/ CommitExecute(o) \/ RollBackWork(o)
      PROVE  EndsWork(o) /\ \A q \in Offices \ {o} : office'[q] = office[q]
  <2>1. office' = [office EXCEPT ![o] = NoWork]
    BY <1>5 DEF CommitBooking, CommitMerge, CommitExecute, RollBackWork, EndWork
  <2> QED BY <2>1 DEF EndsWork, GuestTypeOK
<1> QED
  BY <1>1, <1>2, <1>3, <1>4, <1>5
     DEF GuestNext, PortalGuests, PortalPrivacy, ReviewRequest, SubmitRequest, EndBooking,
         SaveProfile, BeginUpdate, SaveUpdate, SetLegalHold, guestVars

LEMMA GuestLocksKept == ASSUME GuestTypeOK, GuestLocks, [GuestNext]_guestVars PROVE GuestLocks'
<1>1. CASE office' = office
  BY <1>1 DEF GuestLocks, Taken
<1>2. ASSUME NEW o \in Offices, BeginsWork(o), \A p \in Offices \ {o} : office'[p] = office[p]
      PROVE  GuestLocks'
  <2> SUFFICES ASSUME NEW x \in Offices, NEW y \in Offices, x # y,
                      office'[x].kind \in {"merge", "execute"}
               PROVE  Taken(x)' \cap Taken(y)' = {}
    BY DEF GuestLocks
  <2>1. CASE x # o /\ y # o
    BY <1>2, <2>1 DEF GuestLocks, Taken
  <2>2. CASE x = o
    BY <1>2, <2>2 DEF BeginsWork, AccountFree, Taken
  <2>3. CASE y = o
    <3>1. Taken(x)' = Taken(x) /\ office[x].kind \in {"merge", "execute"}
      BY <1>2, <2>3 DEF Taken
    <3> QED BY <1>2, <2>3, <3>1 DEF BeginsWork, AccountFree, Referable, Taken
  <2> QED BY <2>1, <2>2, <2>3
<1>3. ASSUME NEW o \in Offices, EndsWork(o), \A p \in Offices \ {o} : office'[p] = office[p]
      PROVE  GuestLocks'
  BY <1>3 DEF EndsWork, GuestLocks, Taken, NoWork
<1> QED BY <1>1, <1>2, <1>3, OneOfficeWorks

-----------------------------------------------------------------------------
(* What was checked still holds *)

\* A step leaves alone what the transaction o has checked.
LeavesAlone(o) ==
    /\ \A g \in Taken(o) : /\ account'[g].into = account[g].into
                          /\ account'[g].legal_hold = account[g].legal_hold
    /\ \A b \in Bookings : (booking'[b].active /\ booking'[b].guest = office[o].for)
                          => booking[b].active /\ booking[b].guest = office[o].for
    /\ \A r \in Requests : request[r].status # "none" =>
          request'[r].status # "none" /\ request'[r].type = request[r].type

LEMMA ReadyKept ==
    ASSUME NEW o \in Offices, WorkIsReady(o), office'[o] = office[o],
           office[o].kind \in {"merge", "execute"} => LeavesAlone(o)
    PROVE  WorkIsReady(o)'
<1>1. CASE office[o].kind = "merge"
  <2>1. office[o].for \in Taken(o) /\ office[o].duplicate \in Taken(o)
    BY <1>1, GuestsAssumption DEF WorkIsReady, Taken
  <2> QED BY <1>1, <2>1 DEF WorkIsReady, LeavesAlone, Mergeable
<1>2. CASE office[o].kind = "execute"
  <2>1. office[o].for \in Taken(o)
    BY <1>2, GuestsAssumption DEF WorkIsReady, Taken
  <2>2. ~Blocked(office[o].for) => ~Blocked(office[o].for)'
    BY <1>2, <2>1 DEF LeavesAlone, Blocked
  <2> QED BY <1>2, <2>1, <2>2 DEF WorkIsReady, LeavesAlone
<1>3. CASE office[o].kind \notin {"merge", "execute"}
  BY <1>3 DEF WorkIsReady
<1> QED BY <1>1, <1>2, <1>3

\* Whoever locks no account, or has locked others, leaves the account of o alone.
LEMMA OthersLeave ==
    ASSUME GuestTypeOK, GuestLocks, WorkReady, [GuestNext]_guestVars,
           NEW o \in Offices, office[o].kind \in {"merge", "execute"}, office'[o] = office[o]
    PROVE  LeavesAlone(o)
<1> USE DEF LeavesAlone
<1>0. Taken(o) \subseteq Guests
  BY DEF Taken, GuestTypeOK, GuestWork
<1>1. CASE UNCHANGED <<account, booking, request>>
  BY <1>1
<1>2. ASSUME NEW p \in Offices, CommitBooking(p) PROVE LeavesAlone(o)
  <2>1. p # o /\ office[p].for \in Taken(p) /\ Taken(o) \cap Taken(p) = {}
    BY <1>2, GuestsAssumption DEF CommitBooking, EndWork, WorkReady, WorkIsReady, Taken, GuestLocks
  <2>2. office[p].for # office[o].for
    BY <2>1 DEF Taken
  <2> QED BY <1>2, <2>2 DEF CommitBooking, GuestTypeOK, BookingRow
<1>3. ASSUME NEW p \in Offices, CommitMerge(p) PROVE LeavesAlone(o)
  <2>1. p # o
    <3>1. office'[p] = NoWork /\ office[p].kind = "merge"
      BY <1>3 DEF CommitMerge, EndWork, GuestTypeOK
    <3> QED BY <3>1 DEF NoWork
  <2>2. office[p].for \in Taken(p) /\ office[p].duplicate \in Taken(p)
    BY <1>3, GuestsAssumption DEF CommitMerge, EndWork, WorkReady, WorkIsReady, Taken
  <2>3. Taken(o) \cap Taken(p) = {}
    BY <2>1 DEF GuestLocks
  <2>4. \A g \in Taken(o) : account'[g] = account[g]
    <3> DEFINE q == office[p].for
               d == office[p].duplicate
               data == account[q].personal \/ account[d].personal
    <3>1. account' = [account EXCEPT ![q].personal = data, ![d].active = FALSE, ![d].into = q]
      BY <1>3 DEF CommitMerge
    <3>2. q \notin Taken(o) /\ d \notin Taken(o)
      BY <2>2, <2>3
    <3> HIDE DEF q, d, data
    <3> QED BY <1>0, <3>1, <3>2 DEF GuestTypeOK
  <2>5. office[p].for # office[o].for
    BY <2>2, <2>3 DEF Taken
  <2>6. \A b \in Bookings : (booking'[b].active /\ booking'[b].guest = office[o].for)
                          => booking[b].active /\ booking[b].guest = office[o].for
    BY <1>3, <2>5 DEF CommitMerge, GuestTypeOK, BookingRow
  <2>7. request' = request
    BY <1>3 DEF CommitMerge
  <2> QED BY <2>4, <2>6, <2>7
<1>4. ASSUME NEW p \in Offices, CommitExecute(p) PROVE LeavesAlone(o)
  <2>1. p # o
    <3>1. office'[p] = NoWork /\ office[p].kind = "execute"
      BY <1>4 DEF CommitExecute, EndWork, GuestTypeOK
    <3> QED BY <3>1 DEF NoWork
  <2>2. office[p].for \in Taken(p) /\ Taken(o) \cap Taken(p) = {}
    BY <1>4, <2>1, GuestsAssumption
       DEF CommitExecute, EndWork, WorkReady, WorkIsReady, Taken, GuestLocks
  <2>3. \A g \in Taken(o) : account'[g] = account[g]
    BY <1>0, <1>4, <2>2 DEF CommitExecute, GuestTypeOK
  <2>4. \A r \in Requests : request[r].status # "none" =>
           request'[r].status # "none" /\ request'[r].type = request[r].type
    BY <1>4 DEF CommitExecute, GuestTypeOK, RequestRow
  <2> QED BY <1>4, <2>3, <2>4 DEF CommitExecute
<1>5. ASSUME NEW b \in Bookings, EndBooking(b) PROVE LeavesAlone(o)
  BY <1>5 DEF EndBooking, GuestTypeOK, BookingRow
<1>6. ASSUME NEW g \in Guests, \/ SaveProfile(g) \/ SaveUpdate(g)
                              \/ \E u \in Staff, hold \in BOOLEAN : SetLegalHold(u, g, hold)
      PROVE  LeavesAlone(o)
  <2>1. g \notin Taken(o)
    BY <1>6 DEF SaveProfile, SaveUpdate, SetLegalHold, AccountFree, Taken
  <2>2. \A h \in Guests \ {g} : account'[h] = account[h]
    BY <1>6 DEF SaveProfile, SaveUpdate, SetLegalHold, GuestTypeOK
  <2> QED BY <1>0, <1>6, <2>1, <2>2 DEF SaveProfile, SaveUpdate, SetLegalHold
<1>7. ASSUME NEW r \in Requests,
             \/ \E u \in Staff, d \in {"approved", "rejected"} : ReviewRequest(u, r, d)
             \/ \E g \in Guests, type \in {"export", "anonymize"} : SubmitRequest(r, g, type)
      PROVE  LeavesAlone(o)
  BY <1>7 DEF ReviewRequest, SubmitRequest, GuestTypeOK, RequestRow
<1> QED
  BY <1>1, <1>2, <1>3, <1>4, <1>5, <1>6, <1>7
     DEF GuestNext, PortalGuests, PortalPrivacy, BeginBooking, BeginMerge, BeginExecute,
         BeginWork, RollBackWork, BeginUpdate, guestVars

LEMMA OfficeStep ==
    ASSUME GuestTypeOK, GuestLocks, WorkReady, RequestsOfGuests, [GuestNext]_guestVars
    PROVE  WorkReady'
<1> SUFFICES ASSUME NEW o \in Offices PROVE WorkIsReady(o)'
  BY DEF WorkReady
<1>1. CASE office'[o] = office[o]
  BY <1>1, ReadyKept, OthersLeave DEF WorkReady
<1>2. CASE office'[o] = NoWork
  BY <1>2 DEF WorkIsReady, NoWork
<1>3. ASSUME NEW b \in Bookings, NEW g \in Guests, BeginBooking(o, b, g) PROVE WorkIsReady(o)'
  BY <1>3 DEF BeginBooking, BeginWork, NoWork, WorkIsReady, GuestTypeOK
<1>4. ASSUME NEW u \in Staff, NEW p \in Guests, NEW d \in Guests, BeginMerge(o, u, p, d)
      PROVE  WorkIsReady(o)'
  BY <1>4 DEF BeginMerge, BeginWork, NoWork, WorkIsReady, GuestTypeOK, Mergeable
<1>5. ASSUME NEW u \in Staff, NEW r \in Requests, BeginExecute(o, u, r) PROVE WorkIsReady(o)'
  <2>1. request[r].guest \in Guests /\ request[r].status # "none"
    BY <1>5 DEF BeginExecute, RequestsOfGuests
  <2> QED BY <1>5, <2>1 DEF BeginExecute, BeginWork, NoWork, WorkIsReady, GuestTypeOK, Blocked
<1>6. \/ office'[o] = office[o] \/ office'[o] = NoWork
      \/ \E b \in Bookings, g \in Guests : BeginBooking(o, b, g)
      \/ \E u \in Staff, p, d \in Guests : BeginMerge(o, u, p, d)
      \/ \E u \in Staff, r \in Requests : BeginExecute(o, u, r)
  <2>1. CASE UNCHANGED guestVars
    BY <2>1 DEF guestVars
  <2>2. ASSUME NEW p \in Offices, p # o,
               \/ \E b \in Bookings, g \in Guests : BeginBooking(p, b, g)
               \/ \E u \in Staff, q, d \in Guests : BeginMerge(p, u, q, d)
               \/ \E u \in Staff, r \in Requests : BeginExecute(p, u, r)
        PROVE  office'[o] = office[o]
    BY <2>2 DEF BeginBooking, BeginMerge, BeginExecute, BeginWork, GuestTypeOK
  <2>3. ASSUME NEW p \in Offices,
               CommitBooking(p) \/ CommitMerge(p) \/ CommitExecute(p) \/ RollBackWork(p)
        PROVE  office'[o] = office[o] \/ office'[o] = NoWork
    BY <2>3 DEF CommitBooking, CommitMerge, CommitExecute, RollBackWork, EndWork, GuestTypeOK
  <2> QED
    BY <2>1, <2>2, <2>3
       DEF GuestNext, PortalGuests, PortalPrivacy, ReviewRequest, SubmitRequest, EndBooking,
           SaveProfile, BeginUpdate, SaveUpdate, SetLegalHold
<1> QED BY <1>1, <1>2, <1>3, <1>4, <1>5, <1>6

LEMMA RequestStep ==
    ASSUME GuestTypeOK, WorkReady, RequestsOfGuests, [GuestNext]_guestVars
    PROVE  RequestsOfGuests'
<1>1. CASE UNCHANGED request
  BY <1>1 DEF RequestsOfGuests
<1>2. ASSUME NEW u \in Staff, NEW r \in Requests, NEW d \in {"approved", "rejected"},
             ReviewRequest(u, r, d)
      PROVE  RequestsOfGuests'
  BY <1>2 DEF ReviewRequest, GuestTypeOK, RequestRow, RequestsOfGuests
<1>3. ASSUME NEW r \in Requests, NEW g \in Guests, NEW type \in {"export", "anonymize"},
             SubmitRequest(r, g, type)
      PROVE  RequestsOfGuests'
  BY <1>3 DEF SubmitRequest, GuestTypeOK, RequestRow, RequestsOfGuests
<1>4. ASSUME NEW o \in Offices, CommitExecute(o) PROVE RequestsOfGuests'
  <2>1. office[o].request \in Requests /\ request[office[o].request].status # "none"
    BY <1>4 DEF CommitExecute, EndWork, WorkReady, WorkIsReady
  <2> QED BY <1>4, <2>1 DEF CommitExecute, GuestTypeOK, RequestRow, RequestsOfGuests
<1> QED
  BY <1>1, <1>2, <1>3, <1>4
     DEF GuestNext, PortalGuests, PortalPrivacy, BeginBooking, BeginMerge, BeginExecute,
         BeginWork, CommitBooking, CommitMerge, RollBackWork, EndBooking, SaveProfile,
         BeginUpdate, SaveUpdate, SetLegalHold, guestVars

-----------------------------------------------------------------------------
(* Accounts *)

LEMMA StandsKept ==
    ASSUME GuestTypeOK, WorkReady, ActiveStands, [GuestNext]_guestVars
    PROVE  ActiveStands'
<1>1. CASE UNCHANGED <<account, draft>>
  BY <1>1 DEF ActiveStands, StandsAlone
<1>2. ASSUME NEW o \in Offices, CommitMerge(o) PROVE ActiveStands'
  <2> DEFINE p == office[o].for
             d == office[o].duplicate
             data == account[p].personal \/ account[d].personal
  <2>1. account' = [account EXCEPT ![p].personal = data, ![d].active = FALSE, ![d].into = p]
    BY <1>2 DEF CommitMerge
  <2>2. p \in Guests /\ d \in Guests /\ draft' = draft
    BY <1>2 DEF CommitMerge, EndWork, WorkReady, WorkIsReady
  <2> HIDE DEF p, d, data
  <2>3. \A g \in Guests \ {d} :
           /\ account'[g].active = account[g].active /\ account'[g].into = account[g].into
           /\ account'[g].anonymized = account[g].anonymized
    BY <2>1, <2>2 DEF GuestTypeOK, AccountRow
  <2>4. ~account'[d].active
    BY <2>1, <2>2 DEF GuestTypeOK, AccountRow
  <2> QED BY <2>2, <2>3, <2>4 DEF ActiveStands, StandsAlone
<1>3. ASSUME NEW o \in Offices, CommitExecute(o) PROVE ActiveStands'
  <2> DEFINE g == office[o].for
  <2>1. account' = account
        \/ account' = [account EXCEPT ![g].personal = FALSE, ![g].active = FALSE,
                                      ![g].anonymized = TRUE]
    BY <1>3 DEF CommitExecute
  <2>2. g \in Guests /\ draft' = draft
    BY <1>3 DEF CommitExecute, EndWork, WorkReady, WorkIsReady
  <2> HIDE DEF g
  <2>3. \A h \in Guests \ {g} : account'[h] = account[h]
    BY <2>1, <2>2 DEF GuestTypeOK
  <2>4. account' = account \/ ~account'[g].active
    BY <2>1, <2>2 DEF GuestTypeOK, AccountRow
  <2> QED BY <2>2, <2>3, <2>4 DEF ActiveStands, StandsAlone
<1>4. ASSUME NEW g \in Guests, \/ SaveProfile(g)
                              \/ \E u \in Staff, hold \in BOOLEAN : SetLegalHold(u, g, hold)
      PROVE  ActiveStands'
  <2>1. \A h \in Guests : /\ account'[h].active = account[h].active
                          /\ account'[h].into = account[h].into
                          /\ account'[h].anonymized = account[h].anonymized
    BY <1>4 DEF SaveProfile, SetLegalHold, GuestTypeOK, AccountRow
  <2>2. draft' = draft
    BY <1>4 DEF SaveProfile, SetLegalHold
  <2> QED BY <2>1, <2>2 DEF ActiveStands, StandsAlone
<1>5. ASSUME NEW g \in Guests, BeginUpdate(g) PROVE ActiveStands'
  <2>1. account' = account /\ account[g].active
    BY <1>5 DEF BeginUpdate
  <2>2. \A h \in Guests : draft'[h] = IF h = g THEN {account[g]} ELSE draft[h]
    BY <1>5 DEF BeginUpdate, GuestTypeOK
  <2> QED BY <2>1, <2>2 DEF ActiveStands, StandsAlone
<1>6. ASSUME NEW g \in Guests, SaveUpdate(g) PROVE ActiveStands'
  <2>1. PICK rec \in draft[g] :
              account' = [account EXCEPT ![g] = [rec EXCEPT !.personal = TRUE]]
    BY <1>6 DEF SaveUpdate
  <2>2. rec \in AccountRow /\ rec.into = None /\ ~rec.anonymized
    BY <2>1 DEF GuestTypeOK, ActiveStands
  <2>3. account'[g].into = None /\ ~account'[g].anonymized
    BY <2>1, <2>2 DEF GuestTypeOK, AccountRow
  <2>4. \A h \in Guests \ {g} : account'[h] = account[h]
    BY <2>1 DEF GuestTypeOK
  <2>5. \A h \in Guests : draft'[h] \subseteq draft[h]
    BY <1>6 DEF SaveUpdate, GuestTypeOK
  <2> QED BY <2>3, <2>4, <2>5 DEF ActiveStands, StandsAlone
<1> QED
  BY <1>1, <1>2, <1>3, <1>4, <1>5, <1>6
     DEF GuestNext, PortalGuests, PortalPrivacy, BeginBooking, BeginMerge, BeginExecute,
         BeginWork, CommitBooking, RollBackWork, EndBooking, ReviewRequest, SubmitRequest,
         guestVars

\* A merge lets an account that led nowhere lead to another one that leads nowhere; no
\* other step lets an account lead anywhere else.
LEMMA MergesEndKept ==
    ASSUME GuestTypeOK, WorkReady, ActiveStands, MergesEnd, [GuestNext]_guestVars
    PROVE  MergesEnd'
<1> SUFFICES ASSUME NEW S \in SUBSET Guests, S # {}, \A g \in S : account'[g].into # None
             PROVE  \E g \in S : account'[g].into \notin S
  BY DEF MergesEnd
<1>1. CASE \A g \in S : account'[g].into = account[g].into
  BY <1>1 DEF MergesEnd
<1>2. ASSUME NEW o \in Offices, CommitMerge(o)
      PROVE  \E g \in S : account'[g].into \notin S
  <2> DEFINE p == office[o].for
             d == office[o].duplicate
             data == account[p].personal \/ account[d].personal
  <2>1. account' = [account EXCEPT ![p].personal = data, ![d].active = FALSE, ![d].into = p]
    BY <1>2 DEF CommitMerge
  <2>2. p \in Guests /\ d \in Guests /\ p # d /\ account[p].into = None
    BY <1>2 DEF CommitMerge, EndWork, WorkReady, WorkIsReady, Mergeable
  <2> HIDE DEF p, d, data
  <2>3. \A g \in Guests : account'[g].into = IF g = d THEN p ELSE account[g].into
    BY <2>1, <2>2 DEF GuestTypeOK, AccountRow
  <2>4. p \notin S
    BY <2>2, <2>3
  <2>5. CASE d \in S
    BY <2>3, <2>4, <2>5
  <2>6. CASE d \notin S
    BY <1>1, <2>3, <2>6
  <2> QED BY <2>5, <2>6
<1>3. ASSUME NEW g \in Guests, SaveUpdate(g) PROVE \E h \in S : account'[h].into \notin S
  <2>1. PICK rec \in draft[g] :
              account' = [account EXCEPT ![g] = [rec EXCEPT !.personal = TRUE]]
    BY <1>3 DEF SaveUpdate
  <2>2. rec \in AccountRow /\ rec.into = None
    BY <2>1 DEF GuestTypeOK, ActiveStands
  <2>3. account'[g].into = None
    BY <2>1, <2>2 DEF GuestTypeOK, AccountRow
  <2>4. \A h \in Guests \ {g} : account'[h] = account[h]
    BY <2>1 DEF GuestTypeOK
  <2> QED BY <1>1, <2>3, <2>4
<1>4. ASSUME NEW o \in Offices, CommitExecute(o) PROVE \E h \in S : account'[h].into \notin S
  <2>1. \A g \in S : account'[g].into = account[g].into
    BY <1>4 DEF CommitExecute, GuestTypeOK, AccountRow
  <2> QED BY <1>1, <2>1
<1>5. ASSUME NEW g \in Guests, \/ SaveProfile(g)
                              \/ \E u \in Staff, hold \in BOOLEAN : SetLegalHold(u, g, hold)
      PROVE  \E h \in S : account'[h].into \notin S
  <2>1. \A h \in S : account'[h].into = account[h].into
    BY <1>5 DEF SaveProfile, SetLegalHold, GuestTypeOK, AccountRow
  <2> QED BY <1>1, <2>1
<1> QED
  BY <1>1, <1>2, <1>3, <1>4, <1>5
     DEF GuestNext, PortalGuests, PortalPrivacy, BeginBooking, BeginMerge, BeginExecute,
         BeginWork, CommitBooking, RollBackWork, EndBooking, ReviewRequest, SubmitRequest,
         BeginUpdate, guestVars

-----------------------------------------------------------------------------
(* Theorems *)

LEMMA GuestsStart == GuestInit => GuestInv
<1> SUFFICES ASSUME GuestInit PROVE GuestInv
  OBVIOUS
<1>1. GuestTypeOK
  BY DEF GuestInit, GuestTypeOK, AccountRow, BookingRow, RequestRow, GuestWork, NoWork
<1>2. GuestLocks /\ WorkReady
  BY DEF GuestInit, GuestLocks, WorkReady, WorkIsReady, NoWork
<1>3. ActiveStands /\ RequestsOfGuests
  BY DEF GuestInit, ActiveStands, StandsAlone, RequestsOfGuests
<1>4. MergesEnd
  BY DEF GuestInit, MergesEnd
<1> QED BY <1>1, <1>2, <1>3, <1>4 DEF GuestInv

\* The inductive invariant, for any number of accounts, stays, requests and connections.
THEOREM GuestInvariance == GuestSpec => []GuestInv
<1>1. GuestInv /\ [GuestNext]_guestVars => GuestInv'
  BY GuestTypes, GuestLocksKept, OfficeStep, RequestStep, StandsKept, MergesEndKept DEF GuestInv
<1> QED BY <1>1, GuestsStart, PTL DEF GuestSpec

\* However merges and saved forms overlap, every account leads to one that stands for
\* the guest: merge_guest_accounts looks at both accounts under their locks.
THEOREM MergedAccountsEnd == GuestSpec => []MergesEnd
<1>1. GuestInv => MergesEnd
  BY DEF GuestInv
<1> QED BY <1>1, GuestInvariance, PTL

LEMMA OnlyExecutionErases ==
    ASSUME GuestInv, [GuestNext]_guestVars, NEW g \in Guests,
           account'[g].anonymized, ~account[g].anonymized
    PROVE  ~Blocked(g)
<1>1. ASSUME NEW o \in Offices, CommitExecute(o) PROVE ~Blocked(g)
  <2> DEFINE h == office[o].for
  <2>1. CASE request[office[o].request].type = "anonymize"
    <3>1. ~Blocked(h) /\ h \in Guests
      BY <1>1, <2>1 DEF CommitExecute, EndWork, GuestInv, WorkReady, WorkIsReady
    <3>2. account' = [account EXCEPT ![h].personal = FALSE, ![h].active = FALSE,
                                     ![h].anonymized = TRUE]
      BY <1>1, <2>1 DEF CommitExecute
    <3> HIDE DEF h
    <3>3. g # h => account'[g] = account[g]
      BY <3>2 DEF GuestInv, GuestTypeOK
    <3> QED BY <3>1, <3>3
  <2>2. CASE request[office[o].request].type # "anonymize"
    BY <1>1, <2>2 DEF CommitExecute
  <2> QED BY <2>1, <2>2
<1>2. ASSUME NEW o \in Offices, CommitMerge(o) PROVE FALSE
  <2> DEFINE p == office[o].for
             d == office[o].duplicate
             data == account[p].personal \/ account[d].personal
  <2>1. account' = [account EXCEPT ![p].personal = data, ![d].active = FALSE, ![d].into = p]
    BY <1>2 DEF CommitMerge
  <2> HIDE DEF p, d, data
  <2>2. account'[g].anonymized = account[g].anonymized
    BY <2>1 DEF GuestInv, GuestTypeOK, AccountRow
  <2> QED BY <2>2
<1>3. ASSUME NEW h \in Guests, SaveUpdate(h) PROVE FALSE
  <2>1. PICK rec \in draft[h] :
              account' = [account EXCEPT ![h] = [rec EXCEPT !.personal = TRUE]]
    BY <1>3 DEF SaveUpdate
  <2>2. rec \in AccountRow /\ ~rec.anonymized
    BY <2>1 DEF GuestInv, GuestTypeOK, ActiveStands
  <2>3. ~account'[h].anonymized
    BY <2>1, <2>2 DEF GuestInv, GuestTypeOK, AccountRow
  <2>4. g # h => account'[g] = account[g]
    BY <2>1 DEF GuestInv, GuestTypeOK
  <2> QED BY <2>3, <2>4
<1>4. ASSUME NEW h \in Guests, \/ SaveProfile(h)
                              \/ \E u \in Staff, hold \in BOOLEAN : SetLegalHold(u, h, hold)
      PROVE  FALSE
  <2>1. account'[g].anonymized = account[g].anonymized
    BY <1>4 DEF SaveProfile, SetLegalHold, GuestInv, GuestTypeOK, AccountRow
  <2> QED BY <2>1
<1>5. CASE account' = account
  BY <1>5
<1> QED
  BY <1>1, <1>2, <1>3, <1>4, <1>5
     DEF GuestNext, PortalGuests, PortalPrivacy, BeginBooking, BeginMerge, BeginExecute,
         BeginWork, CommitBooking, RollBackWork, EndBooking, ReviewRequest, SubmitRequest,
         BeginUpdate, guestVars

\* No account is anonymized while a stay of it is active or a legal hold is on it, also
\* if they were written while execute_privacy_request ran.
THEOREM ErasedOnlyIfFree == GuestSpec => ErasedWithoutStay
<1>1. GuestInv /\ [GuestNext]_guestVars
      => [\A g \in Guests : (account'[g].anonymized /\ ~account[g].anonymized)
                            => ~Blocked(g)]_guestVars
  BY OnlyExecutionErases
<1> QED BY <1>1, GuestInvariance, PTL DEF GuestSpec, ErasedWithoutStay

-----------------------------------------------------------------------------
(* The chained audit log *)

\* Rows that continue a head one after the other.
ChainedFrom(h, rows) ==
    \A n \in DOMAIN rows :
        /\ rows[n].sequence = h.sequence + n
        /\ rows[n].previous = IF n = 1 THEN h.hash ELSE rows[n - 1].hash
        /\ Len(rows[n].hash) = h.sequence + n
        /\ SubSeq(rows[n].hash, 1, h.sequence + n - 1) = rows[n].previous

\* The head that rows leave behind.
HeadAfter(h, rows) == IF rows = <<>> THEN h ELSE HeadAt(rows[Len(rows)])

NewHead == [sequence |-> 0, hash |-> ZeroHash]

AuditInv ==
    /\ AuditTypeOK
    /\ ChainedFrom(NewHead, log) /\ head = HeadAfter(NewHead, log)
    /\ \A w \in Writers :
          IF writer[w].locked
          THEN /\ HeadFree(w) /\ ChainedFrom(head, writer[w].rows)
               /\ writer[w].head = HeadAfter(head, writer[w].rows)
          ELSE writer[w] = NoWriter
    /\ verifying.rows \subseteq Rows
    /\ verifying.verdict = "mismatch" => verifying.rows # Rows

\* A chain verifies against the head it leaves.
LEMMA ChainVerifies ==
    ASSUME NEW rows \in Seq(AuditRow), ChainedFrom(NewHead, rows)
    PROVE  Verifies({rows[n] : n \in DOMAIN rows}, HeadAfter(NewHead, rows))
<1> DEFINE set == {rows[n] : n \in DOMAIN rows}
           h == HeadAfter(NewHead, rows)
<1>1. /\ DOMAIN rows = 1 .. Len(rows) /\ Len(rows) \in Nat
      /\ \A n \in DOMAIN rows : rows[n] \in AuditRow /\ rows[n].sequence = n
  BY DEF ChainedFrom, NewHead
<1>2. h.sequence = Len(rows)
  BY <1>1 DEF HeadAfter, HeadAt, NewHead
<1>3. {rec.sequence : rec \in set} = 1 .. Len(rows)
  BY <1>1
<1>4. ASSUME NEW n \in 1 .. Len(rows) PROVE Continues(set, n)
  <2>1. rows[n] \in set /\ rows[n].sequence = n
    BY <1>1
  <2>2. rows[n].previous = IF n = 1 THEN ZeroHash
                           ELSE (CHOOSE r \in set : r.sequence = n - 1).hash
    <3>1. CASE n = 1
      BY <1>1, <3>1 DEF ChainedFrom, NewHead
    <3>2. CASE n # 1
      <4>1. n - 1 \in DOMAIN rows /\ rows[n - 1] \in set /\ rows[n - 1].sequence = n - 1
        BY <1>1, <3>2
      <4>2. \A r \in set : r.sequence = n - 1 => r = rows[n - 1]
        BY <1>1
      <4>3. (CHOOSE r \in set : r.sequence = n - 1) = rows[n - 1]
        <5> HIDE DEF set
        <5> QED BY <4>1, <4>2
      <4>4. rows[n].previous = rows[n - 1].hash
        BY <1>1, <3>2 DEF ChainedFrom
      <4> HIDE DEF set
      <4> QED BY <3>2, <4>3, <4>4
    <3> QED BY <3>1, <3>2
  <2>3. Len(rows[n].hash) = n /\ SubSeq(rows[n].hash, 1, n - 1) = rows[n].previous
    BY <1>1 DEF ChainedFrom, NewHead
  <2> HIDE DEF set
  <2> QED BY <2>1, <2>2, <2>3 DEF Continues
<1>5. IF set = {} THEN h.hash = ZeroHash
      ELSE \E rec \in set : rec.sequence = h.sequence /\ rec.hash = h.hash
  <2>1. CASE rows = <<>>
    BY <2>1 DEF HeadAfter, NewHead
  <2>2. CASE rows # <<>>
    <3>1. Len(rows) \in DOMAIN rows /\ rows[Len(rows)] \in set
      BY <1>1, <2>2
    <3>2. h = HeadAt(rows[Len(rows)])
      BY <2>2 DEF HeadAfter
    <3> HIDE DEF set
    <3> QED BY <3>1, <3>2 DEF HeadAt
  <2> QED BY <2>1, <2>2
<1> HIDE DEF set, h
<1> QED BY <1>2, <1>3, <1>4, <1>5 DEF Verifies, set, h

\* Two chains, the second from the head of the first, are one.
LEMMA ChainsJoin ==
    ASSUME NEW rows \in Seq(AuditRow), NEW more \in Seq(AuditRow), NEW h \in HeadRow,
           ChainedFrom(h, rows), ChainedFrom(HeadAfter(h, rows), more)
    PROVE  /\ ChainedFrom(h, rows \o more)
           /\ HeadAfter(h, rows \o more) = HeadAfter(HeadAfter(h, rows), more)
<1> DEFINE k == Len(rows)
           all == rows \o more
           g == HeadAfter(h, rows)
<1>1. /\ k \in Nat /\ Len(more) \in Nat /\ Len(all) = k + Len(more)
      /\ \A n \in 1 .. k : all[n] = rows[n]
      /\ \A n \in k + 1 .. k + Len(more) : all[n] = more[n - k]
      /\ all \in Seq(AuditRow)
  OBVIOUS
<1>2. h.sequence \in Nat /\ g.sequence = h.sequence + k
      /\ g.hash = IF k = 0 THEN h.hash ELSE rows[k].hash
  <2>1. h.sequence \in Nat
    BY DEF HeadRow
  <2>2. CASE rows = <<>>
    BY <2>1, <2>2 DEF HeadAfter
  <2>3. CASE rows # <<>>
    <3>1. k \in DOMAIN rows /\ k # 0
      BY <2>3
    <3> QED BY <2>1, <2>3, <3>1 DEF HeadAfter, HeadAt, ChainedFrom
  <2> QED BY <2>2, <2>3
<1>3. \A n \in DOMAIN more : all[k + n] = more[n]
  BY <1>1
<1> HIDE DEF all, g, k
<1>4. ASSUME NEW n \in DOMAIN all
      PROVE  /\ all[n].sequence = h.sequence + n
             /\ all[n].previous = IF n = 1 THEN h.hash ELSE all[n - 1].hash
             /\ Len(all[n].hash) = h.sequence + n
             /\ SubSeq(all[n].hash, 1, h.sequence + n - 1) = all[n].previous
  <2>1. n \in 1 .. k + Len(more)
    BY <1>1
  <2>2. CASE n <= k
    <3>1. n \in DOMAIN rows /\ all[n] = rows[n] /\ (n # 1 => all[n - 1] = rows[n - 1])
      BY <1>1, <2>1, <2>2 DEF k
    <3> QED BY <3>1 DEF ChainedFrom
  <2>3. CASE n > k
    <3> DEFINE m == n - k
    <3>1. m \in DOMAIN more /\ all[n] = more[m]
      <4>1. k \in Nat /\ Len(more) \in Nat
        BY <1>1
      <4>2. n \in k + 1 .. k + Len(more) /\ m \in 1 .. Len(more)
        BY <2>1, <2>3, <4>1
      <4>3. all[n] = more[m]
        BY <1>1, <4>2
      <4>4. DOMAIN more = 1 .. Len(more)
        OBVIOUS
      <4> QED BY <4>2, <4>3, <4>4
    <3>2. /\ more[m].sequence = g.sequence + m
          /\ more[m].previous = IF m = 1 THEN g.hash ELSE more[m - 1].hash
          /\ Len(more[m].hash) = g.sequence + m
          /\ SubSeq(more[m].hash, 1, g.sequence + m - 1) = more[m].previous
      BY <3>1 DEF ChainedFrom, g
    <3>3. g.sequence + m = h.sequence + n /\ g.sequence + m - 1 = h.sequence + n - 1
      BY <1>1, <1>2, <2>1
    <3>4. more[m].previous = IF n = 1 THEN h.hash ELSE all[n - 1].hash
      <4>1. CASE m = 1
        <5>1. n - 1 = k /\ (n = 1 <=> k = 0)
          BY <1>1, <2>1, <4>1
        <5>2. k # 0 => all[k] = rows[k]
          BY <1>1
        <5> HIDE DEF m
        <5> QED BY <1>2, <3>2, <4>1, <5>1, <5>2
      <4>2. CASE m # 1
        <5>1. n # 1 /\ n - 1 \in k + 1 .. k + Len(more) /\ n - 1 - k = m - 1
          BY <1>1, <2>1, <2>3, <4>2
        <5>2. all[n - 1] = more[m - 1]
          BY <1>1, <5>1
        <5> HIDE DEF m
        <5> QED BY <3>2, <4>2, <5>1, <5>2
      <4> QED BY <4>1, <4>2
    <3> HIDE DEF m
    <3> QED BY <3>1, <3>2, <3>3, <3>4
  <2> QED BY <1>1, <2>1, <2>2, <2>3
<1>5. ChainedFrom(h, all)
  BY <1>4 DEF ChainedFrom
<1>6. HeadAfter(h, all) = HeadAfter(g, more)
  <2>1. CASE more = <<>>
    BY <1>1, <2>1 DEF HeadAfter, all, g
  <2>2. CASE more # <<>>
    <3>1. Len(more) # 0 /\ all # <<>> /\ all[Len(all)] = more[Len(more)]
      BY <1>1, <2>2
    <3> QED BY <2>2, <3>1 DEF HeadAfter
  <2> QED BY <2>1, <2>2
<1> QED BY <1>5, <1>6 DEF all, g

\* The hash of a head is as long as the chain below it.
LEMMA HeadWhole ==
    ASSUME NEW rows \in Seq(AuditRow), NEW h \in HeadRow, Len(h.hash) = h.sequence,
           ChainedFrom(h, rows)
    PROVE  Len(HeadAfter(h, rows).hash) = HeadAfter(h, rows).sequence
<1>1. CASE rows = <<>>
  BY <1>1 DEF HeadAfter
<1>2. CASE rows # <<>>
  <2>1. Len(rows) \in DOMAIN rows
    BY <1>2
  <2> QED BY <1>2, <2>1 DEF HeadAfter, HeadAt, ChainedFrom
<1> QED BY <1>1, <1>2

LEMMA NoWriterTyped ==
    /\ NoWriter \in [locked : BOOLEAN, head : HeadRow, rows : Seq(AuditRow)]
    /\ ~NoWriter.locked
  BY DEF NoWriter, HeadRow, ZeroHash

LEMMA AuditAppendKeeps ==
    ASSUME AuditInv, NEW w \in Writers, NEW event \in Events, AppendEvent(w, event)
    PROVE  AuditInv'
<1> USE DEF AuditInv, AuditTypeOK
<1> DEFINE read == IF writer[w].locked THEN writer[w].head ELSE head
           rec == Chained(read, event)
           new == [locked |-> TRUE, head |-> HeadAt(rec), rows |-> Append(writer[w].rows, rec)]
           old == writer[w].rows
<1>1. /\ UNCHANGED <<log, head, verifying>> /\ HeadFree(w)
      /\ writer' = [writer EXCEPT ![w] = new]
  BY DEF AppendEvent
<1>2. /\ old \in Seq(AuditRow) /\ read \in HeadRow /\ head \in HeadRow
      /\ ChainedFrom(head, old) /\ read = HeadAfter(head, old)
  <2>1. CASE writer[w].locked
    BY <2>1
  <2>2. CASE ~writer[w].locked
    <3>1. old = <<>>
      BY <2>2 DEF NoWriter
    <3> QED BY <2>2, <3>1 DEF ChainedFrom, HeadAfter
  <2> QED BY <2>1, <2>2
<1>3. rec \in AuditRow /\ HeadAt(rec) \in HeadRow
  BY <1>2 DEF Chained, HeadAt, AuditRow, HeadRow
<1>4. ChainedFrom(read, <<rec>>) /\ HeadAfter(read, <<rec>>) = HeadAt(rec)
  <2>1. /\ NewHead \in HeadRow /\ Len(NewHead.hash) = NewHead.sequence
        /\ log \in Seq(AuditRow)
    BY DEF NewHead, HeadRow, ZeroHash
  <2>2. Len(head.hash) = head.sequence
    BY <2>1, HeadWhole
  <2>3. Len(read.hash) = read.sequence
    <3> HIDE DEF read, old
    <3> QED BY <1>2, <2>2, HeadWhole
  <2>4. read.hash \in Seq(Events) /\ read.sequence \in Nat
    <3> HIDE DEF read
    <3> QED BY <1>2 DEF HeadRow
  <2>5. /\ rec.sequence = read.sequence + 1 /\ rec.previous = read.hash
        /\ rec.hash = Append(read.hash, event)
    BY DEF Chained
  <2>6. /\ Len(Append(read.hash, event)) = read.sequence + 1
        /\ SubSeq(Append(read.hash, event), 1, read.sequence) = read.hash
    <3> HIDE DEF read
    <3>1. Append(read.hash, event) \in Seq(Events)
      BY <2>4
    <3>2. \A n \in 1 .. read.sequence : Append(read.hash, event)[n] = read.hash[n]
      BY <2>3, <2>4
    <3> QED BY <2>3, <2>4, <3>1, <3>2
  <2> HIDE DEF rec, read
  <2>7. <<rec>>[1] = rec /\ DOMAIN <<rec>> = {1} /\ Len(<<rec>>) = 1 /\ <<rec>> # <<>>
    OBVIOUS
  <2>8. HeadAfter(read, <<rec>>) = HeadAt(rec)
    BY <2>7 DEF HeadAfter
  <2>9. /\ Len(rec.hash) = read.sequence + 1
        /\ SubSeq(rec.hash, 1, read.sequence + 1 - 1) = rec.previous
    <3>1. read.sequence + 1 - 1 = read.sequence
      BY <2>4
    <3> QED BY <2>5, <2>6, <3>1
  <2> QED BY <2>5, <2>7, <2>8, <2>9 DEF ChainedFrom
<1>5. /\ Append(old, rec) \in Seq(AuditRow)
      /\ ChainedFrom(head, Append(old, rec))
      /\ HeadAfter(head, Append(old, rec)) = HeadAt(rec)
  <2>1. Append(old, rec) = old \o <<rec>> /\ <<rec>> \in Seq(AuditRow)
    BY <1>2, <1>3
  <2> HIDE DEF rec, old, read, AuditInv, AuditTypeOK
  <2>2. /\ ChainedFrom(head, old \o <<rec>>)
        /\ HeadAfter(head, old \o <<rec>>) = HeadAfter(HeadAfter(head, old), <<rec>>)
    BY <1>2, <1>4, <2>1, ChainsJoin
  <2>3. Append(old, rec) \in Seq(AuditRow)
    BY <1>2, <1>3
  <2> QED BY <1>2, <1>4, <2>1, <2>2, <2>3
<1>6. /\ new \in [locked : BOOLEAN, head : HeadRow, rows : Seq(AuditRow)]
      /\ new.locked /\ new.rows = Append(old, rec) /\ new.head = HeadAt(rec)
  <2> HIDE DEF rec, old
  <2> QED BY <1>3, <1>5 DEF old
<1> HIDE DEF new, rec, old, read
<1>7. /\ writer' \in [Writers -> [locked : BOOLEAN, head : HeadRow, rows : Seq(AuditRow)]]
      /\ writer'[w] = new /\ \A o \in Writers \ {w} : writer'[o] = writer[o]
  BY <1>1, <1>6
<1>8. \A o \in Writers \ {w} : ~writer[o].locked /\ writer[o] = NoWriter
  BY <1>1 DEF HeadFree
<1>9. \A o \in Writers :
          IF writer'[o].locked
          THEN /\ HeadFree(o)' /\ ChainedFrom(head, writer'[o].rows)
               /\ writer'[o].head = HeadAfter(head, writer'[o].rows)
          ELSE writer'[o] = NoWriter
  <2>1. HeadFree(w)'
    BY <1>7, <1>8 DEF HeadFree
  <2>2. \A o \in Writers \ {w} : ~writer'[o].locked /\ writer'[o] = NoWriter
    BY <1>7, <1>8
  <2> HIDE DEF AuditInv, AuditTypeOK
  <2> QED BY <1>5, <1>6, <1>7, <2>1, <2>2
<1>10. Rows' = Rows
  BY <1>1 DEF Rows
<1> QED BY <1>1, <1>7, <1>9, <1>10

LEMMA AuditCommitKeeps ==
    ASSUME AuditInv, NEW w \in Writers, CommitAppends(w)
    PROVE  AuditInv'
<1> USE DEF AuditInv, AuditTypeOK
<1> DEFINE more == writer[w].rows
<1>1. /\ log' = log \o more /\ head' = writer[w].head /\ UNCHANGED verifying
      /\ writer' = [writer EXCEPT ![w] = NoWriter] /\ writer[w].locked
  BY DEF CommitAppends
<1>2. /\ HeadFree(w) /\ ChainedFrom(HeadAfter(NewHead, log), more)
      /\ head' = HeadAfter(HeadAfter(NewHead, log), more)
  BY <1>1
<1>3. /\ log \in Seq(AuditRow) /\ more \in Seq(AuditRow) /\ NewHead \in HeadRow
      /\ ChainedFrom(NewHead, log)
  BY DEF NewHead, HeadRow, ZeroHash
<1>4. /\ ChainedFrom(NewHead, log') /\ head' = HeadAfter(NewHead, log')
      /\ log' \in Seq(AuditRow) /\ head' \in HeadRow
  <2>1. /\ ChainedFrom(NewHead, log \o more)
        /\ HeadAfter(NewHead, log \o more) = HeadAfter(HeadAfter(NewHead, log), more)
    BY <1>2, <1>3, ChainsJoin
  <2>2. writer[w].head \in HeadRow /\ log \o more \in Seq(AuditRow)
    BY <1>3
  <2> QED BY <1>1, <1>2, <2>1, <2>2
<1>5. /\ writer' \in [Writers -> [locked : BOOLEAN, head : HeadRow, rows : Seq(AuditRow)]]
      /\ writer'[w] = NoWriter /\ \A o \in Writers \ {w} : writer'[o] = writer[o]
  BY <1>1, NoWriterTyped
<1>6. \A o \in Writers : writer'[o] = NoWriter /\ ~writer'[o].locked
  BY <1>2, <1>5, NoWriterTyped DEF HeadFree
<1>7. Rows \subseteq Rows'
  <2> HIDE DEF more
  <2>1. \A n \in DOMAIN log : n \in DOMAIN log' /\ log'[n] = log[n]
    BY <1>1, <1>3
  <2> QED BY <2>1 DEF Rows
<1>8. /\ verifying'.rows \subseteq Rows'
      /\ verifying'.verdict = "mismatch" => verifying'.rows # Rows'
  BY <1>1, <1>7
<1> QED BY <1>1, <1>4, <1>5, <1>6, <1>8

LEMMA AuditRollBackKeeps ==
    ASSUME AuditInv, NEW w \in Writers, RollBackAppends(w)
    PROVE  AuditInv'
<1> USE DEF AuditInv, AuditTypeOK
<1>1. /\ UNCHANGED <<log, head, verifying>> /\ writer[w].locked
      /\ writer' = [writer EXCEPT ![w] = NoWriter]
  BY DEF RollBackAppends
<1>2. /\ writer' \in [Writers -> [locked : BOOLEAN, head : HeadRow, rows : Seq(AuditRow)]]
      /\ writer'[w] = NoWriter /\ \A o \in Writers \ {w} : writer'[o] = writer[o]
  BY <1>1, NoWriterTyped
<1>3. \A o \in Writers : writer'[o] = NoWriter /\ ~writer'[o].locked
  BY <1>1, <1>2, NoWriterTyped DEF HeadFree
<1>4. Rows' = Rows
  BY <1>1 DEF Rows
<1> QED BY <1>1, <1>2, <1>3, <1>4

\* A verification that reads the head before anything was committed finds no fault.
LEMMA AuditVerifyKeeps ==
    ASSUME AuditInv, ReadLog \/ ReadHead
    PROVE  AuditInv'
<1> USE DEF AuditInv, AuditTypeOK
<1>1. UNCHANGED <<log, head, writer>>
  BY DEF ReadLog, ReadHead
<1>2. Rows' = Rows
  BY <1>1 DEF Rows
<1>3. \A rec \in Rows : rec \in AuditRow
  BY DEF Rows
<1>4. Verifies(Rows, head)
  BY ChainVerifies DEF Rows
<1>5. /\ \A rec \in verifying'.rows : rec \in AuditRow
      /\ verifying'.verdict \in {"none", "reading", "valid", "mismatch"}
      /\ verifying'.rows \subseteq Rows
      /\ verifying'.verdict = "mismatch" => verifying'.rows # Rows
  <2>1. CASE ReadLog
    BY <1>3, <2>1 DEF ReadLog
  <2>2. CASE ReadHead
    <3> DEFINE verdict == IF Verifies(verifying.rows, head) THEN "valid" ELSE "mismatch"
    <3>1. verifying' = [verifying EXCEPT !.verdict = verdict] /\ verifying.verdict = "reading"
      BY <2>2 DEF ReadHead
    <3>2. verdict \in {"valid", "mismatch"} /\ (verdict = "mismatch" => verifying.rows # Rows)
      BY <1>4
    <3> HIDE DEF verdict
    <3>3. verifying'.rows = verifying.rows /\ verifying'.verdict = verdict
      BY <3>1
    <3> QED BY <3>2, <3>3
  <2> QED BY <2>1, <2>2
<1> QED BY <1>1, <1>2, <1>5 DEF HeadFree

LEMMA AuditInductive == AuditInv /\ [AuditNext]_auditVars => AuditInv'
<1> SUFFICES ASSUME AuditInv, [AuditNext]_auditVars PROVE AuditInv'
  OBVIOUS
<1>1. CASE AuditNext
  BY <1>1, AuditAppendKeeps, AuditCommitKeeps, AuditRollBackKeeps, AuditVerifyKeeps
     DEF AuditNext, AuditRequest
<1>2. CASE UNCHANGED auditVars
  BY <1>2 DEF auditVars, AuditInv, AuditTypeOK, HeadFree, Rows
<1> QED BY <1>1, <1>2

LEMMA AuditInitially == AuditInit => AuditInv
<1> SUFFICES ASSUME AuditInit PROVE AuditInv
  OBVIOUS
<1>1. AuditTypeOK
  BY NoWriterTyped DEF AuditInit, AuditTypeOK, HeadRow, ZeroHash, NoVerdict
<1>2. ChainedFrom(NewHead, log) /\ head = HeadAfter(NewHead, log)
  BY DEF AuditInit, ChainedFrom, HeadAfter, NewHead
<1> QED BY <1>1, <1>2, NoWriterTyped DEF AuditInit, AuditInv, NoVerdict

THEOREM AuditInvariance == AuditSpec => []AuditInv
  BY AuditInitially, AuditInductive, PTL DEF AuditSpec

\* AuditLog.save and verify_audit_chain: because the head is locked from the first append to
\* the end of the transaction, the committed rows are one chain that ends at the head,
\* however many transactions append, commit and fail; a verification beside them is wrong
\* only about rows that came after it had read.
THEOREM ChainAlwaysHolds == AuditSpec => []ChainHolds
<1>1. ASSUME AuditInv PROVE ChainHolds
  <2>1. Verifies(Rows, head)
    BY <1>1, ChainVerifies DEF Rows, AuditInv, AuditTypeOK
  <2> QED BY <1>1, <2>1 DEF ChainHolds, AuditInv
<1> QED BY <1>1, AuditInvariance, PTL

-----------------------------------------------------------------------------
(* Contacts at the provider *)

ContactInv ==
    /\ ContactTypeOK
    /\ sync.scan # {} => sync.due = {} /\ sync.call = None
    /\ \A e \in Emails \ erased :
          /\ e \in sync.due \/ sync.call = e => contact[e].status \in {"pending", "deferred"}
          /\ e \in sync.due => sync.call # e
          /\ contact[e].status \in {"synced", "suppressed"}
             => contact[e].desired = (contact[e].status = "synced") /\ listed[e] = contact[e].desired
          /\ sync.call = e /\ sync.outcome = "ok" => listed[e] = sync.desired

LEMMA ConsentBoolean ==
    \A e \in Emails : Consent(e) \in BOOLEAN
  BY DEF Consent

SyncRow == [scan : SUBSET Emails, due : SUBSET Emails, call : Emails \cup {None},
            desired : BOOLEAN, outcome : Outcomes]

\* The job has no call open; what it has to process and to scan.
Idles(rec, due, scan) ==
    rec \in SyncRow /\ rec.call = None /\ rec.due = due /\ rec.scan = scan

LEMMA ContactRestTyped ==
    ASSUME NEW D \in SUBSET Emails
    PROVE  /\ Idles(Rest, {}, {})
           /\ Idles([Rest EXCEPT !.due = D], D, {})
           /\ Idles([Rest EXCEPT !.scan = D], {}, D)
  BY DEF Rest, Outcomes, Idles, SyncRow

\* What becomes of a record when its status and its consent are written.
LEMMA ContactRowTyped ==
    ASSUME NEW rec \in ContactRow, NEW c \in BOOLEAN,
           NEW s \in {"pending", "synced", "deferred", "failed", "suppressed"}
    PROVE  /\ [rec EXCEPT !.status = s, !.desired = c] \in ContactRow
           /\ [rec EXCEPT !.desired = c, !.status = s] \in ContactRow
           /\ [rec EXCEPT !.status = s, !.desired = c].status = s
  BY DEF ContactRow

\* A request writes what it was asked for, and nothing that the job looks at.
LEMMA ContactServeTyped ==
    ASSUME ContactInv, NEW v \in Visits, NEW e \in Emails,
           NEW values \in Seq({"active", "inactive", "grant", "withdraw", "lift"} \cup Reasons),
           Serve(v, e, values)
    PROVE  ContactInv'
<1> DEFINE list == [n \in DOMAIN values |-> [email |-> e, value |-> values[n]]]
<1>1. \A n \in DOMAIN values : [email |-> e, value |-> values[n]] \in Writes
  BY DEF Writes
<1>2. DOMAIN values = 1 .. Len(values) /\ Len(values) \in Nat
  OBVIOUS
<1>3. list \in Seq(Writes)
  BY <1>1, <1>2
<1> HIDE DEF list
<1>4. /\ visit' = [visit EXCEPT ![v] = list]
      /\ UNCHANGED <<subscription, preference, suppression, contact, listed, sync, erased>>
  BY DEF Serve, ConsentWritten, list
<1>5. visit' \in [Visits -> Seq(Writes)]
  BY <1>3, <1>4 DEF ContactInv, ContactTypeOK
<1> QED BY <1>4, <1>5 DEF ContactInv, ContactTypeOK

LEMMA ContactRequestKeeps ==
    ASSUME ContactInv, NEW v \in Visits, NEW e \in Emails,
           \/ Subscribe(v, e)
           \/ \E u \in Staff : NewsletterAction(v, u, e)
           \/ \E reason \in Reasons : ProviderEvent(v, e, reason)
    PROVE  ContactInv'
<1> DEFINE V == {"active", "inactive", "grant", "withdraw", "lift"} \cup Reasons
<1>1. CASE Subscribe(v, e)
  <2>1. <<"active", "grant", "lift">> \in Seq(V)
    OBVIOUS
  <2> QED BY <1>1, <2>1, ContactServeTyped DEF Subscribe
<1>2. ASSUME NEW u \in Staff, NewsletterAction(v, u, e) PROVE ContactInv'
  <2>1. /\ <<"active", "grant">> \in Seq(V) /\ <<"inactive">> \in Seq(V)
        /\ <<"inactive", "withdraw", "manual">> \in Seq(V)
    BY DEF Reasons
  <2> QED BY <1>2, <2>1, ContactServeTyped DEF NewsletterAction
<1>3. ASSUME NEW reason \in Reasons, ProviderEvent(v, e, reason) PROVE ContactInv'
  <2>1. CASE reason = "unsubscribe"
    <3>1. <<reason, "withdraw">> \in Seq(V)
      OBVIOUS
    <3> QED BY <1>3, <2>1, <3>1, ContactServeTyped DEF ProviderEvent
  <2>2. CASE reason # "unsubscribe"
    <3>1. <<reason>> \in Seq(V)
      OBVIOUS
    <3> QED BY <1>3, <2>2, <3>1, ContactServeTyped DEF ProviderEvent
  <2> QED BY <2>1, <2>2
<1> QED BY <1>1, <1>2, <1>3

LEMMA ContactWriteKeeps ==
    ASSUME ContactInv, NEW v \in Visits, WriteNext(v) \/ DropVisit(v)
    PROVE  ContactInv'
<1> USE DEF ContactInv, ContactTypeOK
<1>1. UNCHANGED <<contact, listed, sync, erased>>
  BY DEF WriteNext, DropVisit, ConsentWritten
<1>2. CASE WriteNext(v)
  <2>1. visit[v] # <<>> /\ visit[v] \in Seq(Writes) /\ Head(visit[v]) \in Writes
        /\ Tail(visit[v]) \in Seq(Writes)
    BY <1>2 DEF WriteNext
  <2> DEFINE e == Head(visit[v]).email
             value == Head(visit[v]).value
  <2>2. e \in Emails /\ value \in {"active", "inactive", "grant", "withdraw", "lift"} \cup Reasons
    BY <2>1 DEF Writes
  <2>3. visit' \in [Visits -> Seq(Writes)]
    BY <1>2, <2>1 DEF WriteNext
  <2> HIDE DEF e, value
  <2>4. subscription' \in [Emails -> SubscriptionStates]
    BY <1>2, <2>2 DEF WriteNext, e, value
  <2>5. preference' \in [Emails -> BOOLEAN]
    BY <1>2, <2>2 DEF WriteNext, e, value
  <2>6. suppression' \in [Emails -> Reasons \cup {None}]
    <3>1. suppression' = CASE value \in Reasons -> [suppression EXCEPT ![e] = value]
                           [] value = "lift" /\ suppression[e] \in {"manual", "unsubscribe"}
                              -> [suppression EXCEPT ![e] = None]
                           [] OTHER -> suppression
      BY <1>2 DEF WriteNext, e, value
    <3>2. "lift" \notin Reasons
      BY DEF Reasons
    <3> QED BY <2>2, <3>1, <3>2
  <2> QED BY <1>1, <2>3, <2>4, <2>5, <2>6
<1>3. CASE DropVisit(v)
  <2>1. visit' \in [Visits -> Seq(Writes)]
    BY <1>3 DEF DropVisit
  <2> QED BY <1>1, <1>3, <2>1 DEF DropVisit
<1> QED BY <1>2, <1>3

LEMMA ContactEraseKeeps ==
    ASSUME ContactInv, NEW u \in Staff, NEW e \in Emails, EraseContact(u, e)
    PROVE  ContactInv'
<1> USE DEF ContactInv, ContactTypeOK
<1>1. /\ subscription' \in [Emails -> SubscriptionStates] /\ preference' \in [Emails -> BOOLEAN]
      /\ suppression' \in [Emails -> Reasons \cup {None}]
  BY DEF EraseContact, SubscriptionStates, Reasons
<1>2. contact' \in [Emails -> ContactRow] /\ \A f \in Emails \ {e} : contact'[f] = contact[f]
  <2> DEFINE rec == [contact[e] EXCEPT !.desired = FALSE, !.status = "suppressed"]
  <2>1. contact[e] \in ContactRow /\ rec \in ContactRow
    BY ContactRowTyped
  <2>2. \/ contact' = [contact EXCEPT ![e] = rec]
        \/ contact' = [contact EXCEPT ![e] = contact[e]]
    BY DEF EraseContact
  <2> HIDE DEF rec
  <2> QED BY <2>1, <2>2
<1>3. /\ erased' = erased \cup {e} /\ sync.call # e
      /\ UNCHANGED <<listed, visit, sync>>
  BY DEF EraseContact
<1> QED BY <1>1, <1>2, <1>3

LEMMA ContactPassKeeps ==
    ASSUME ContactInv, BeginPass \/ DropPass
    PROVE  ContactInv'
<1> USE DEF ContactInv, ContactTypeOK
<1>1. UNCHANGED <<subscription, preference, suppression, visit, erased, contact, listed>>
  BY DEF BeginPass, DropPass, JobStep
<1>2. PICK S \in SUBSET Emails : Idles(sync', {}, S)
  <2>1. CASE BeginPass
    BY <2>1, ContactRestTyped DEF BeginPass
  <2>2. CASE DropPass
    BY <2>2, ContactRestTyped DEF DropPass
  <2> QED BY <2>1, <2>2
<1> QED BY <1>1, <1>2, ContactsAssumption DEF Idles, SyncRow

LEMMA ContactScanKeeps ==
    ASSUME ContactInv, NEW e \in Emails, Scan(e)
    PROVE  ContactInv'
<1> USE DEF ContactInv, ContactTypeOK
<1>1. /\ e \in sync.scan /\ sync.due = {} /\ sync.call = None
      /\ UNCHANGED <<subscription, preference, suppression, visit, erased, listed>>
  BY DEF Scan, JobStep
<1>2. /\ contact' \in [Emails -> ContactRow]
      /\ \A f \in Emails : \/ contact'[f] = contact[f]
                           \/ contact'[f].status = "pending"
  <2> DEFINE rec == [contact[e] EXCEPT !.status = "pending", !.desired = Consent(e)]
  <2>1. contact[e] \in ContactRow /\ rec \in ContactRow /\ rec.status = "pending"
    <3>1. contact[e] \in ContactRow
      OBVIOUS
    <3>2. PICK c \in BOOLEAN : c = Consent(e)
      BY ConsentBoolean
    <3> HIDE DEF ContactInv, ContactTypeOK
    <3> QED BY <3>1, <3>2, ContactRowTyped
  <2>2. \/ contact' = contact
        \/ contact' = [contact EXCEPT ![e].status = "pending", ![e].desired = Consent(e)]
    <3> HIDE DEF ContactInv, ContactTypeOK
    <3> QED BY DEF Scan
  <2>3. [contact EXCEPT ![e].status = "pending", ![e].desired = Consent(e)]
        = [contact EXCEPT ![e] = rec]
    <3> DEFINE c == Consent(e)
    <3> HIDE DEF c
    <3> QED OBVIOUS
  <2>4. contact \in [Emails -> ContactRow]
    OBVIOUS
  <2> HIDE DEF rec, ContactInv, ContactTypeOK
  <2>5. CASE contact' = contact
    BY <2>4, <2>5
  <2>6. CASE contact' = [contact EXCEPT ![e] = rec]
    BY <2>1, <2>4, <2>6
  <2> QED BY <2>2, <2>3, <2>5, <2>6
<1>3. CASE sync.scan = {e}
  <2>1. PICK D \in Due(contact') : sync' = [Rest EXCEPT !.due = D]
    BY <1>3 DEF Scan
  <2>2. D \in SUBSET Emails /\ \A f \in D : contact'[f].status \in {"pending", "deferred"}
    BY DEF Due
  <2>3. Idles(sync', D, {})
    BY <2>1, <2>2, ContactRestTyped
  <2> HIDE DEF ContactInv, ContactTypeOK
  <2>4. ContactTypeOK'
    BY <1>1, <1>2, <2>2, <2>3 DEF ContactInv, ContactTypeOK, Idles, SyncRow
  <2>5. \A f \in Emails \ erased :
           contact'[f].status \in {"synced", "suppressed"}
           => contact'[f].desired = (contact'[f].status = "synced") /\ listed[f] = contact'[f].desired
    BY <1>2 DEF ContactInv
  <2> QED BY <1>1, <2>2, <2>3, <2>4, <2>5, ContactsAssumption DEF ContactInv, Idles
<1>4. CASE sync.scan # {e}
  <2>1. sync' = [sync EXCEPT !.scan = @ \ {e}]
    BY <1>4 DEF Scan
  <2>2. /\ sync' \in [scan : SUBSET Emails, due : SUBSET Emails, call : Emails \cup {None},
                      desired : BOOLEAN, outcome : Outcomes]
        /\ sync'.due = {} /\ sync'.call = None
    BY <1>1, <2>1
  <2>3. \A f \in Emails \ erased :
           contact'[f].status \in {"synced", "suppressed"}
           => contact'[f].desired = (contact'[f].status = "synced") /\ listed[f] = contact'[f].desired
    BY <1>2
  <2> QED BY <1>1, <1>2, <2>2, <2>3, ContactsAssumption
<1> QED BY <1>3, <1>4

LEMMA ContactCallKeeps ==
    ASSUME ContactInv, NEW e \in Emails, NEW outcome \in Outcomes \ {"open"},
           CallProvider(e, outcome)
    PROVE  ContactInv'
<1> USE DEF ContactInv, ContactTypeOK
<1>1. /\ e \in sync.due /\ sync.call = None
      /\ UNCHANGED <<subscription, preference, suppression, visit, erased, contact>>
      /\ sync' = [sync EXCEPT !.due = @ \ {e}, !.call = e, !.desired = Consent(e),
                              !.outcome = outcome]
  BY DEF CallProvider, JobStep
<1>2. /\ listed' \in [Emails -> BOOLEAN] /\ \A f \in Emails \ {e} : listed'[f] = listed[f]
      /\ outcome = "ok" => listed'[e] = Consent(e)
  BY ConsentBoolean DEF CallProvider
<1>3. /\ sync' \in [scan : SUBSET Emails, due : SUBSET Emails, call : Emails \cup {None},
                    desired : BOOLEAN, outcome : Outcomes]
      /\ sync'.scan = sync.scan /\ sync'.due = sync.due \ {e} /\ sync'.call = e
      /\ sync'.desired = Consent(e) /\ sync'.outcome = outcome
  BY <1>1, ConsentBoolean
<1>4. sync.scan = {}
  BY <1>1
<1> QED BY <1>1, <1>2, <1>3, <1>4

LEMMA ContactSaveKeeps ==
    ASSUME ContactInv, SaveContact
    PROVE  ContactInv'
<1> USE DEF ContactInv, ContactTypeOK
<1> DEFINE e == sync.call
           tries == IF contact[e].tries < MaxTries THEN contact[e].tries + 1 ELSE MaxTries
<1>1. /\ e \in Emails
      /\ contact' = [contact EXCEPT ![e] = [status |-> Settled(tries), tries |-> tries,
                                            desired |-> sync.desired]]
      /\ sync' = [Rest EXCEPT !.due = sync.due]
      /\ UNCHANGED <<subscription, preference, suppression, visit, erased, listed>>
  BY DEF SaveContact, JobStep
<1>2. tries \in 0 .. MaxTries
  <2>1. contact[e].tries \in 0 .. MaxTries /\ MaxTries \in Nat
    BY <1>1, ContactsAssumption DEF ContactRow
  <2> QED BY <2>1
<1>3. /\ Settled(tries) \in {"synced", "suppressed", "deferred", "failed"}
      /\ Settled(tries) \in {"synced", "suppressed"}
         => sync.outcome = "ok" /\ sync.desired = (Settled(tries) = "synced")
  <2> HIDE DEF tries
  <2>1. sync.desired \in BOOLEAN
    OBVIOUS
  <2>2. CASE sync.outcome = "ok"
    BY <2>1, <2>2 DEF Settled
  <2>3. CASE sync.outcome = "lost" /\ tries < MaxTries
    BY <2>1, <2>3 DEF Settled
  <2>4. CASE sync.outcome # "ok" /\ ~(sync.outcome = "lost" /\ tries < MaxTries)
    BY <2>1, <2>4 DEF Settled
  <2> QED BY <2>2, <2>3, <2>4
<1> HIDE DEF tries, e
<1>4. /\ contact' \in [Emails -> ContactRow] /\ \A f \in Emails \ {e} : contact'[f] = contact[f]
      /\ contact'[e].status = Settled(tries) /\ contact'[e].desired = sync.desired
  BY <1>1, <1>2, <1>3 DEF ContactRow
<1>5. Idles(sync', sync.due, {})
  BY <1>1, ContactRestTyped
<1>6. /\ sync' \in [scan : SUBSET Emails, due : SUBSET Emails, call : Emails \cup {None},
                    desired : BOOLEAN, outcome : Outcomes]
      /\ sync'.scan = {} /\ sync'.call = None /\ sync'.due = sync.due
  BY <1>5 DEF Idles, SyncRow
<1>7. ASSUME NEW f \in Emails \ erased, contact'[f].status \in {"synced", "suppressed"}
      PROVE  /\ contact'[f].desired = (contact'[f].status = "synced")
             /\ listed[f] = contact'[f].desired
  <2>1. CASE f = e
    BY <1>3, <1>4, <1>7, <2>1 DEF e
  <2>2. CASE f # e
    BY <1>4, <1>7, <2>2
  <2> QED BY <2>1, <2>2
<1>8. \A f \in Emails \ erased : f \in sync.due => contact'[f].status \in {"pending", "deferred"}
  BY <1>4 DEF e
<1>9. ContactTypeOK'
  BY <1>1, <1>4, <1>6
<1> HIDE DEF ContactTypeOK
<1> QED BY <1>1, <1>6, <1>7, <1>8, <1>9, ContactsAssumption

THEOREM ContactInvariance == ContactSpec => []ContactInv
<1>1. ContactInit => ContactInv
  <2> SUFFICES ASSUME ContactInit PROVE ContactInv
    OBVIOUS
  <2>1. [status |-> "none", desired |-> FALSE, tries |-> 0] \in ContactRow
    BY ContactsAssumption DEF ContactRow
  <2>2. <<>> \in Seq(Writes) /\ sync.due = {} /\ sync.scan = {} /\ sync.call = None
    BY DEF ContactInit, Rest
  <2>3. contact \in [Emails -> ContactRow] /\ \A e \in Emails : contact[e].status = "none"
    BY <2>1 DEF ContactInit
  <2>4. ContactTypeOK
    BY <2>2, <2>3, ContactRestTyped
       DEF ContactInit, ContactTypeOK, SubscriptionStates, Idles, SyncRow
  <2> QED BY <2>2, <2>3, <2>4, ContactsAssumption DEF ContactInv
<1>2. ContactInv /\ [ContactNext]_contactVars => ContactInv'
  <2> SUFFICES ASSUME ContactInv, [ContactNext]_contactVars PROVE ContactInv'
    OBVIOUS
  <2>1. CASE UNCHANGED contactVars
    BY <2>1 DEF contactVars, ContactInv, ContactTypeOK
  <2>2. CASE ContactNext
    BY <2>2, ContactRequestKeeps, ContactWriteKeeps, ContactEraseKeeps, ContactPassKeeps,
       ContactScanKeeps, ContactCallKeeps, ContactSaveKeeps
       DEF ContactNext
  <2> QED BY <2>1, <2>2
<1> QED BY <1>1, <1>2, PTL DEF ContactSpec

\* While no call is open, a record that says synced or suppressed says what the provider
\* holds, however many addresses and requests there are (SyncedAtProvider).
THEOREM ProviderAgrees == ContactSpec => []SyncedAtProvider
<1>1. ContactInv => SyncedAtProvider
  BY DEF ContactInv, SyncedAtProvider
<1> QED BY <1>1, ContactInvariance, PTL

-----------------------------------------------------------------------------
(* The stock ledger *)

SameIn(rows, m, n) ==
    rows[m].item = rows[n].item /\ rows[m].location = rows[n].location

\* LedgerExplainsBalance of any rows and balances.
Explains(rows, kept) ==
    /\ \A n \in DOMAIN rows :
          /\ \A m \in DOMAIN rows :
                m < n /\ SameIn(rows, m, n) /\ (\A k \in m + 1 .. n - 1 : ~SameIn(rows, k, n))
                => rows[n].resulting = rows[m].resulting + rows[n].delta
          /\ (\A m \in 1 .. n - 1 : ~SameIn(rows, m, n)) => rows[n].resulting = rows[n].delta
          /\ (\A m \in n + 1 .. Len(rows) : ~SameIn(rows, m, n))
             => kept[<<rows[n].item, rows[n].location>>] = rows[n].resulting
    /\ \A i \in Items, l \in Locations :
          (\A n \in DOMAIN rows : rows[n].item # i \/ rows[n].location # l)
          => kept[<<i, l>>] = 0

\* A rec that puts its delta on the balance that is kept leaves it explained.
LEMMA PostExplains ==
    ASSUME NEW rows \in Seq(MovementRow), NEW kept \in [Items \X Locations -> Nat],
           Explains(rows, kept), NEW rec \in MovementRow,
           rec.resulting = kept[<<rec.item, rec.location>>] + rec.delta
    PROVE  Explains(Append(rows, rec),
                    [kept EXCEPT ![<<rec.item, rec.location>>] = rec.resulting])
<1> DEFINE all == Append(rows, rec)
           last == Len(rows) + 1
           new == [kept EXCEPT ![<<rec.item, rec.location>>] = rec.resulting]
<1>1. /\ Len(rows) \in Nat /\ DOMAIN rows = 1 .. Len(rows) /\ all \in Seq(MovementRow)
      /\ Len(all) = last /\ DOMAIN all = 1 .. last /\ all[last] = rec
      /\ \A n \in 1 .. Len(rows) : all[n] = rows[n]
  OBVIOUS
<1>2. /\ rec.item \in Items /\ rec.location \in Locations
      /\ \A n \in 1 .. Len(rows) : rows[n].item \in Items /\ rows[n].location \in Locations
  <2>1. \A n \in 1 .. Len(rows) : rows[n] \in MovementRow
    BY <1>1
  <2> QED BY <2>1 DEF MovementRow
<1>3. /\ new[<<rec.item, rec.location>>] = rec.resulting
      /\ \A i \in Items, l \in Locations :
            i # rec.item \/ l # rec.location => new[<<i, l>>] = kept[<<i, l>>]
  BY <1>2
<1>4. \A m, n \in 1 .. Len(rows) : SameIn(all, m, n) <=> SameIn(rows, m, n)
  BY <1>1 DEF SameIn
<1>5. \A m \in 1 .. Len(rows) :
         SameIn(all, m, last) <=> (rows[m].item = rec.item /\ rows[m].location = rec.location)
  BY <1>1 DEF SameIn
<1> HIDE DEF all, new
<1>6. ASSUME NEW n \in 1 .. Len(rows)
      PROVE  /\ \A m \in DOMAIN all :
                   m < n /\ SameIn(all, m, n) /\ (\A k \in m + 1 .. n - 1 : ~SameIn(all, k, n))
                   => all[n].resulting = all[m].resulting + all[n].delta
             /\ (\A m \in 1 .. n - 1 : ~SameIn(all, m, n)) => all[n].resulting = all[n].delta
             /\ (\A m \in n + 1 .. Len(all) : ~SameIn(all, m, n))
                => new[<<all[n].item, all[n].location>>] = all[n].resulting
  <2>1. ASSUME NEW m \in DOMAIN all, m < n, SameIn(all, m, n),
               \A k \in m + 1 .. n - 1 : ~SameIn(all, k, n)
        PROVE  all[n].resulting = all[m].resulting + all[n].delta
    <3>1. m \in 1 .. Len(rows) /\ SameIn(rows, m, n)
      BY <1>1, <1>4, <2>1
    <3>2. \A k \in m + 1 .. n - 1 : k \in 1 .. Len(rows) /\ ~SameIn(rows, k, n)
      BY <1>1, <1>4, <2>1, <3>1
    <3>3. rows[n].resulting = rows[m].resulting + rows[n].delta
      BY <1>1, <2>1, <3>1, <3>2 DEF Explains
    <3> QED BY <1>1, <3>1, <3>3
  <2>2. ASSUME \A m \in 1 .. n - 1 : ~SameIn(all, m, n)
        PROVE  all[n].resulting = all[n].delta
    <3>1. \A m \in 1 .. n - 1 : m \in 1 .. Len(rows) /\ ~SameIn(rows, m, n)
      BY <1>1, <1>4, <2>2
    <3> QED BY <1>1, <3>1 DEF Explains
  <2>3. ASSUME \A m \in n + 1 .. Len(all) : ~SameIn(all, m, n)
        PROVE  new[<<all[n].item, all[n].location>>] = all[n].resulting
    <3>1. \A m \in n + 1 .. Len(rows) : ~SameIn(rows, m, n)
      BY <1>1, <1>4, <2>3
    <3>2. ~SameIn(all, last, n)
      BY <1>1, <2>3
    <3>3. rows[n].item # rec.item \/ rows[n].location # rec.location
      BY <1>1, <3>2 DEF SameIn
    <3>4. kept[<<rows[n].item, rows[n].location>>] = rows[n].resulting
      BY <1>1, <3>1 DEF Explains
    <3> QED BY <1>1, <1>2, <1>3, <3>3, <3>4
  <2> QED BY <2>1, <2>2, <2>3
<1>7. /\ \A m \in DOMAIN all :
            m < last /\ SameIn(all, m, last)
            /\ (\A k \in m + 1 .. last - 1 : ~SameIn(all, k, last))
            => all[last].resulting = all[m].resulting + all[last].delta
      /\ (\A m \in 1 .. last - 1 : ~SameIn(all, m, last)) => all[last].resulting = all[last].delta
      /\ new[<<all[last].item, all[last].location>>] = all[last].resulting
  <2>1. ASSUME NEW m \in DOMAIN all, m < last, SameIn(all, m, last),
               \A k \in m + 1 .. last - 1 : ~SameIn(all, k, last)
        PROVE  all[last].resulting = all[m].resulting + all[last].delta
    <3>1. m \in 1 .. Len(rows) /\ rows[m].item = rec.item /\ rows[m].location = rec.location
      BY <1>1, <1>5, <2>1
    <3>2. \A k \in m + 1 .. Len(rows) : ~SameIn(rows, k, m)
      <4> SUFFICES ASSUME NEW k \in m + 1 .. Len(rows) PROVE ~SameIn(rows, k, m)
        OBVIOUS
      <4>1. k \in 1 .. Len(rows) /\ k \in m + 1 .. last - 1
        BY <1>1, <3>1
      <4> QED BY <1>5, <2>1, <3>1, <4>1 DEF SameIn
    <3>3. kept[<<rec.item, rec.location>>] = rows[m].resulting
      BY <1>1, <3>1, <3>2 DEF Explains
    <3> QED BY <1>1, <3>1, <3>3
  <2>2. ASSUME \A m \in 1 .. last - 1 : ~SameIn(all, m, last)
        PROVE  all[last].resulting = all[last].delta
    <3>1. \A m \in DOMAIN rows : rows[m].item # rec.item \/ rows[m].location # rec.location
      BY <1>1, <1>5, <2>2
    <3>2. kept[<<rec.item, rec.location>>] = 0
      BY <1>2, <3>1 DEF Explains
    <3>3. rec.delta \in Int
      BY DEF MovementRow
    <3> QED BY <1>1, <3>2, <3>3
  <2> QED BY <1>1, <1>3, <2>1, <2>2
<1>8. ASSUME NEW i \in Items, NEW l \in Locations,
             \A n \in DOMAIN all : all[n].item # i \/ all[n].location # l
      PROVE  new[<<i, l>>] = 0
  <2>1. \A n \in DOMAIN rows : rows[n].item # i \/ rows[n].location # l
    BY <1>1, <1>8
  <2>2. i # rec.item \/ l # rec.location
    BY <1>1, <1>8
  <2> QED BY <1>3, <2>1, <2>2 DEF Explains
<1>9. ASSUME NEW n \in DOMAIN all
      PROVE  /\ \A m \in DOMAIN all :
                   m < n /\ SameIn(all, m, n) /\ (\A k \in m + 1 .. n - 1 : ~SameIn(all, k, n))
                   => all[n].resulting = all[m].resulting + all[n].delta
             /\ (\A m \in 1 .. n - 1 : ~SameIn(all, m, n)) => all[n].resulting = all[n].delta
             /\ (\A m \in n + 1 .. Len(all) : ~SameIn(all, m, n))
                => new[<<all[n].item, all[n].location>>] = all[n].resulting
  <2>1. n \in 1 .. Len(rows) \/ n = last
    BY <1>1
  <2>2. CASE n \in 1 .. Len(rows)
    BY <1>6, <2>2
  <2>3. CASE n = last
    BY <1>7, <2>3
  <2> QED BY <2>1, <2>2, <2>3
<1> QED BY <1>8, <1>9 DEF Explains, all, new

-----------------------------------------------------------------------------
(* The open transactions *)

Lockable == Items \cup Locations

ClerkRow == [cmd : SUBSET Order, held : SUBSET Lockable, want : Seq(Lockable),
             seen : [Locations -> Nat]]

\* How far a movement of an item at a location, or a transfer between the locations
\* a < b, has come: what it has locked and what it has to lock yet.
MovementAt(rec, i, l) ==
    \/ rec.want = <<i, l>> /\ rec.held = {}
    \/ rec.want = <<l>> /\ rec.held = {i}
    \/ rec.want = <<>> /\ rec.held = {i, l}
TransferAt(rec, i, a, b) ==
    \/ rec.want = <<a, b, i>> /\ rec.held = {}
    \/ rec.want = <<b, i>> /\ rec.held = {a}
    \/ rec.want = <<i>> /\ rec.held = {a, b}
    \/ rec.want = <<>> /\ rec.held = {a, b, i}

\* A transaction that has the command c.
Carries(rec, c) ==
    /\ rec.cmd = {c}
    /\ c.kind = "movement" => MovementAt(rec, c.item, c.from)
    /\ c.kind = "transfer" =>
          /\ c.delta \in Nat
          /\ \/ c.from < c.to /\ TransferAt(rec, c.item, c.from, c.to)
             \/ c.to < c.from /\ TransferAt(rec, c.item, c.to, c.from)
    /\ rec.want = <<>> => \A l \in Locations : rec.seen[l] = balance[<<c.item, l>>]

StockInv ==
    /\ balance \in [Items \X Locations -> Nat]
    /\ ledger \in Seq(MovementRow)
    /\ clerk \in [Clerks -> ClerkRow]
    /\ \A t \in Clerks : clerk[t] = Quiet \/ \E c \in Order : Carries(clerk[t], c)
    /\ \A t, u \in Clerks : t # u => clerk[t].held \cap clerk[u].held = {}
    /\ Explains(ledger, balance)

LEMMA QuietTyped ==
    /\ Quiet \in ClerkRow /\ Quiet.cmd = {} /\ Quiet.held = {} /\ Quiet.want = <<>>
    /\ Zero \in [Locations -> Nat]
<1>1. Zero \in [Locations -> Nat]
  BY DEF Zero
<1>2. Quiet \in ClerkRow
  BY <1>1 DEF Quiet, ClerkRow
<1> QED BY <1>1, <1>2 DEF Quiet

LEMMA ShortLists ==
    ASSUME NEW x \in Lockable, NEW y \in Lockable, NEW z \in Lockable
    PROVE  /\ <<x, y, z>> \in Seq(Lockable) /\ <<x, y>> \in Seq(Lockable)
           /\ <<x>> \in Seq(Lockable) /\ <<>> \in Seq(Lockable)
           /\ Head(<<x, y, z>>) = x /\ Head(<<x, y>>) = x /\ Head(<<x>>) = x
           /\ Tail(<<x, y, z>>) = <<y, z>> /\ Tail(<<x, y>>) = <<y>> /\ Tail(<<x>>) = <<>>
           /\ Len(<<x, y, z>>) = 3 /\ Len(<<x, y>>) = 2 /\ Len(<<x>>) = 1
           /\ <<x, y, z>> # <<>> /\ <<x, y>> # <<>> /\ <<x>> # <<>>
  OBVIOUS

\* A step of one transaction that leaves the balances alone.
LEMMA ClerkStep ==
    ASSUME StockInv, NEW t \in Clerks, NEW rec \in ClerkRow,
           clerk' = [clerk EXCEPT ![t] = rec], UNCHANGED <<balance, ledger>>,
           rec = Quiet \/ \E c \in Order : Carries(rec, c),
           \A u \in Clerks \ {t} : rec.held \cap clerk[u].held = {}
    PROVE  StockInv'
<1>1. /\ clerk' \in [Clerks -> ClerkRow] /\ clerk'[t] = rec
      /\ \A u \in Clerks \ {t} : clerk'[u] = clerk[u]
  BY DEF StockInv
<1>2. ASSUME NEW u \in Clerks PROVE clerk'[u] = Quiet \/ (\E c \in Order : Carries(clerk[u], c))'
  <2>1. ASSUME NEW c \in Order, Carries(clerk'[u], c) PROVE Carries(clerk[u], c)'
    BY <2>1 DEF Carries
  <2>2. CASE u = t
    BY <1>1, <2>1, <2>2
  <2>3. CASE u # t
    <3>1. clerk'[u] = clerk[u]
      BY <1>1, <2>3
    <3>2. clerk[u] = Quiet \/ \E c \in Order : Carries(clerk[u], c)
      BY DEF StockInv
    <3> QED BY <2>1, <3>1, <3>2
  <2> QED BY <2>2, <2>3
<1>3. \A u, v \in Clerks : u # v => clerk'[u].held \cap clerk'[v].held = {}
  BY <1>1 DEF StockInv
<1>4. /\ balance' \in [Items \X Locations -> Nat] /\ ledger' \in Seq(MovementRow)
      /\ Explains(ledger', balance')
  BY DEF StockInv
<1> QED BY <1>1, <1>2, <1>3, <1>4 DEF StockInv, Explains, SameIn

LEMMA StockBeginKeeps ==
    ASSUME StockInv, NEW t \in Clerks, NEW c \in Order, NEW locks \in Seq(Lockable),
           BeginStock(t, c, locks), Carries([Quiet EXCEPT !.cmd = {c}, !.want = locks], c)
    PROVE  StockInv'
<1> DEFINE rec == [Quiet EXCEPT !.cmd = {c}, !.want = locks]
<1>1. clerk' = [clerk EXCEPT ![t] = rec] /\ UNCHANGED <<balance, ledger>> /\ t \in DOMAIN clerk
  BY DEF BeginStock, StockInv
<1>2. rec \in ClerkRow /\ rec.held = {}
  BY QuietTyped DEF ClerkRow, Quiet
<1> HIDE DEF rec
<1>3. Carries(rec, c)
  BY DEF rec
<1> QED BY <1>1, <1>2, <1>3, ClerkStep

LEMMA MovementKeeps ==
    ASSUME StockInv, NEW t \in Clerks, NEW u \in Staff, NEW key \in MoveKeys, NEW i \in Items,
           NEW l \in Locations, NEW type \in Manual, NEW q \in Quantities,
           RecordMovement(t, u, key, i, l, type, q)
    PROVE  StockInv'
<1> DEFINE c == [kind |-> "movement", key |-> key, item |-> i, from |-> l, to |-> l,
                 delta |-> IF type \in Incoming THEN q ELSE -q]
<1>1. c \in Order
  BY StockAssumption DEF Order
<1>2. BeginStock(t, c, <<i, l>>)
  BY DEF RecordMovement
<1>3. <<i, l>> \in Seq(Lockable) /\ <<i, l>> # <<>>
  BY ShortLists DEF Lockable
<1>4. /\ c.kind = "movement" /\ c.item = i /\ c.from = l
  OBVIOUS
<1> HIDE DEF c
<1>5. Carries([Quiet EXCEPT !.cmd = {c}, !.want = <<i, l>>], c)
  BY <1>3, <1>4 DEF Carries, MovementAt, Quiet
<1> QED BY <1>1, <1>2, <1>3, <1>5, StockBeginKeeps

LEMMA TransferKeeps ==
    ASSUME StockInv, NEW t \in Clerks, NEW u \in Staff, NEW key \in TransferKeys, NEW i \in Items,
           NEW s \in Locations, NEW d \in Locations, NEW q \in Quantities,
           TransferStock(t, u, key, i, s, d, q)
    PROVE  StockInv'
<1> DEFINE c == [kind |-> "transfer", key |-> key, item |-> i, from |-> s, to |-> d,
                 delta |-> q]
           locks == TransferOrder(i, s, d)
<1>1. c \in Order /\ q \in Nat /\ s \in Nat /\ d \in Nat
  BY StockAssumption DEF Order
<1>2. BeginStock(t, c, locks) /\ s # d
  BY DEF TransferStock
<1>3. locks \in Seq(Lockable) /\ locks # <<>>
  BY ShortLists DEF TransferOrder, Lockable
<1>4. /\ c.kind = "transfer" /\ c.item = i /\ c.from = s /\ c.to = d /\ c.delta = q
  OBVIOUS
<1> DEFINE rec == [Quiet EXCEPT !.cmd = {c}, !.want = locks]
<1>5. rec.cmd = {c} /\ rec.want = locks /\ rec.held = {}
  BY DEF Quiet
<1> HIDE DEF c, rec
<1>6. Carries(rec, c)
  <2>1. CASE s < d
    <3>1. locks = <<s, d, i>>
      BY <2>1 DEF TransferOrder
    <3>2. TransferAt(rec, c.item, c.from, c.to) /\ c.from < c.to
      BY <1>4, <1>5, <2>1, <3>1 DEF TransferAt
    <3> QED BY <1>1, <1>3, <1>4, <1>5, <3>2 DEF Carries
  <2>2. CASE d < s
    <3>1. locks = <<d, s, i>>
      BY <1>1, <2>2 DEF TransferOrder
    <3> QED BY <1>1, <1>3, <1>4, <1>5, <2>2, <3>1 DEF Carries, TransferAt
  <2> QED BY <1>1, <1>2, <2>1, <2>2
<1> HIDE DEF locks
<1> QED BY <1>1, <1>2, <1>3, <1>6, StockBeginKeeps DEF rec

LEMMA StockAbortKeeps ==
    ASSUME StockInv, NEW t \in Clerks, AbortStock(t)
    PROVE  StockInv'
  BY QuietTyped, ClerkStep DEF AbortStock

\* One lock further.
LEMMA MovementOn ==
    ASSUME NEW old, NEW rec, NEW i \in Items, NEW l \in Locations,
           old.want # <<>>, rec.held = old.held \cup {Head(old.want)}, rec.want = Tail(old.want),
           MovementAt(old, i, l)
    PROVE  MovementAt(rec, i, l) /\ (rec.want = <<>> => Len(old.want) = 1)
<1>1. /\ Head(<<i, l>>) = i /\ Tail(<<i, l>>) = <<l>> /\ <<l>> # <<>>
      /\ Head(<<l>>) = l /\ Tail(<<l>>) = <<>> /\ Len(<<l>>) = 1
  BY ShortLists DEF Lockable
<1>2. CASE old.want = <<i, l>> /\ old.held = {}
  <2>1. rec.want = <<l>> /\ rec.held = {i}
    BY <1>1, <1>2
  <2> QED BY <1>1, <2>1 DEF MovementAt
<1>3. CASE old.want = <<l>> /\ old.held = {i}
  <2>1. rec.want = <<>> /\ rec.held = {i, l} /\ Len(old.want) = 1
    BY <1>1, <1>3
  <2> QED BY <2>1 DEF MovementAt
<1> QED BY <1>2, <1>3 DEF MovementAt

LEMMA TransferOn ==
    ASSUME NEW old, NEW rec, NEW i \in Items, NEW a \in Locations, NEW b \in Locations,
           old.want # <<>>, rec.held = old.held \cup {Head(old.want)}, rec.want = Tail(old.want),
           TransferAt(old, i, a, b)
    PROVE  TransferAt(rec, i, a, b) /\ (rec.want = <<>> => Len(old.want) = 1)
<1>1. /\ Head(<<a, b, i>>) = a /\ Tail(<<a, b, i>>) = <<b, i>> /\ <<b, i>> # <<>>
      /\ Head(<<b, i>>) = b /\ Tail(<<b, i>>) = <<i>> /\ <<i>> # <<>>
      /\ Head(<<i>>) = i /\ Tail(<<i>>) = <<>> /\ Len(<<i>>) = 1
  BY ShortLists DEF Lockable
<1>2. CASE old.want = <<a, b, i>> /\ old.held = {}
  <2>1. rec.want = <<b, i>> /\ rec.held = {a}
    BY <1>1, <1>2
  <2> QED BY <1>1, <2>1 DEF TransferAt
<1>3. CASE old.want = <<b, i>> /\ old.held = {a}
  <2>1. rec.want = <<i>> /\ rec.held = {a, b}
    BY <1>1, <1>3
  <2> QED BY <1>1, <2>1 DEF TransferAt
<1>4. CASE old.want = <<i>> /\ old.held = {a, b}
  <2>1. rec.want = <<>> /\ rec.held = {a, b, i} /\ Len(old.want) = 1
    BY <1>1, <1>4
  <2> QED BY <2>1 DEF TransferAt
<1> QED BY <1>2, <1>3, <1>4 DEF TransferAt

LEMMA LastRead ==
    ASSUME NEW want \in Seq(Lockable), NEW seen, NEW kept, NEW reads,
           reads = IF Len(want) > 1 THEN seen ELSE kept
    PROVE  (reads = seen \/ reads = kept) /\ (Len(want) = 1 => reads = kept)
<1>1. PICK n \in Nat : n = Len(want)
  OBVIOUS
<1>2. CASE n = 1
  <2>1. ~(n > 1)
    BY <1>2
  <2> QED BY <1>1, <2>1
<1>3. CASE n # 1
  BY <1>1, <1>3
<1> QED BY <1>2, <1>3

\* The next lock: nobody else holds the rec, and with the last one the balances of the
\* item are read.
LEMMA StockLockKeeps ==
    ASSUME StockInv, NEW t \in Clerks, LockNext(t)
    PROVE  StockInv'
<1> DEFINE old == clerk[t]
           rec == [old EXCEPT !.held = @ \cup {Head(old.want)}, !.want = Tail(@),
                              !.seen = Reads(t)]
<1>1. /\ old.want # <<>> /\ \A o \in Clerks : Head(old.want) \notin clerk[o].held
      /\ UNCHANGED <<balance, ledger>> /\ old \in ClerkRow
      /\ clerk' = [clerk EXCEPT ![t] = rec]
  BY DEF LockNext, StockInv
<1>2. old # Quiet
  BY <1>1, QuietTyped
<1>3. PICK c \in Order : Carries(old, c)
  BY <1>2 DEF StockInv
<1>4. c.item \in Items /\ c.from \in Locations /\ c.to \in Locations
  BY DEF Order
<1>5. old.cmd = {c} /\ (CHOOSE x \in old.cmd : TRUE) = c
  BY <1>3 DEF Carries
<1>6. /\ Reads(t) \in [Locations -> Nat]
      /\ Len(old.want) = 1 => \A l \in Locations : Reads(t)[l] = balance[<<c.item, l>>]
  <2>1. \A l \in Locations : balance[<<c.item, l>>] \in Nat
    BY <1>4 DEF StockInv
  <2> DEFINE f == [l \in Locations |-> balance[<<c.item, l>>]]
  <2>2. Reads(t) = IF Len(old.want) > 1 THEN old.seen ELSE f
    BY <1>5 DEF Reads
  <2>3. old.seen \in [Locations -> Nat] /\ old.want \in Seq(Lockable)
    BY <1>1 DEF ClerkRow
  <2>4. f \in [Locations -> Nat] /\ \A l \in Locations : f[l] = balance[<<c.item, l>>]
    BY <2>1
  <2> HIDE DEF f
  <2>5. /\ Reads(t) = old.seen \/ Reads(t) = f
        /\ Len(old.want) = 1 => Reads(t) = f
    BY <2>2, <2>3, LastRead
  <2> QED BY <2>3, <2>4, <2>5
<1> HIDE DEF old
<1>7. /\ rec.cmd = old.cmd /\ rec.held = old.held \cup {Head(old.want)}
      /\ rec.want = Tail(old.want) /\ rec.seen = Reads(t)
  BY <1>1 DEF ClerkRow
<1>8. rec \in ClerkRow
  <2>1. Head(old.want) \in Lockable /\ Tail(old.want) \in Seq(Lockable)
    BY <1>1 DEF ClerkRow
  <2> QED BY <1>1, <1>6, <2>1 DEF ClerkRow
<1> HIDE DEF rec
<1>9. Carries(rec, c)
  <2>1. CASE c.kind = "movement"
    <3>1. MovementAt(old, c.item, c.from)
      BY <1>3, <2>1 DEF Carries
    <3>2. MovementAt(rec, c.item, c.from) /\ (rec.want = <<>> => Len(old.want) = 1)
      BY <1>1, <1>4, <1>7, <3>1, MovementOn
    <3> QED BY <1>5, <1>6, <1>7, <2>1, <3>2 DEF Carries
  <2>2. CASE c.kind = "transfer"
    <3>1. ASSUME NEW a \in Locations, NEW b \in Locations, TransferAt(old, c.item, a, b)
          PROVE  TransferAt(rec, c.item, a, b) /\ (rec.want = <<>> => Len(old.want) = 1)
      BY <1>1, <1>4, <1>7, <3>1, TransferOn
    <3>2. /\ c.delta \in Nat
          /\ \/ c.from < c.to /\ TransferAt(old, c.item, c.from, c.to)
             \/ c.to < c.from /\ TransferAt(old, c.item, c.to, c.from)
      BY <1>3, <2>2 DEF Carries
    <3>3. /\ \/ c.from < c.to /\ TransferAt(rec, c.item, c.from, c.to)
             \/ c.to < c.from /\ TransferAt(rec, c.item, c.to, c.from)
          /\ rec.want = <<>> => Len(old.want) = 1
      BY <1>4, <3>1, <3>2
    <3> QED BY <1>5, <1>6, <1>7, <2>2, <3>2, <3>3 DEF Carries
  <2> QED BY <2>1, <2>2 DEF Order
<1>10. \A u \in Clerks \ {t} : rec.held \cap clerk[u].held = {}
  BY <1>1, <1>7 DEF StockInv, old
<1> QED BY <1>1, <1>8, <1>9, <1>10, ClerkStep

-----------------------------------------------------------------------------
(* Posting *)

\* Who is about to post holds the item, and has read its balances.
LEMMA ReadyHolds ==
    ASSUME StockInv, NEW t \in Clerks, NEW c \in Order, clerk[t].cmd = {c},
           clerk[t].want = <<>>
    PROVE  /\ c.item \in clerk[t].held
           /\ \A l \in Locations : clerk[t].seen[l] = balance[<<c.item, l>>]
           /\ c.kind = "transfer" => c.from # c.to /\ c.delta \in Nat
<1>1. clerk[t] # Quiet
  BY QuietTyped
<1>2. Carries(clerk[t], c)
  <2>1. PICK x \in Order : Carries(clerk[t], x)
    BY <1>1 DEF StockInv
  <2>2. x = c
    BY <2>1 DEF Carries
  <2> QED BY <2>1, <2>2
<1>3. c.item \in Items /\ c.from \in Locations /\ c.to \in Locations
  BY DEF Order
<1>4. \A i, l, a, b : /\ <<i, l>> # <<>> /\ <<l>> # <<>> /\ <<a, b, i>> # <<>>
                      /\ <<b, i>> # <<>> /\ <<i>> # <<>>
  OBVIOUS
<1>5. CASE c.kind = "movement"
  <2>1. MovementAt(clerk[t], c.item, c.from)
    BY <1>2, <1>5 DEF Carries
  <2>2. clerk[t].held = {c.item, c.from}
    BY <1>4, <2>1 DEF MovementAt
  <2> QED BY <1>2, <1>5, <2>2 DEF Carries
<1>6. CASE c.kind = "transfer"
  <2>1. /\ c.delta \in Nat /\ c.from \in Nat /\ c.to \in Nat
        /\ \/ c.from < c.to /\ TransferAt(clerk[t], c.item, c.from, c.to)
           \/ c.to < c.from /\ TransferAt(clerk[t], c.item, c.to, c.from)
    BY <1>2, <1>3, <1>6, StockAssumption DEF Carries
  <2>2. c.from # c.to /\ clerk[t].held = {c.from, c.to, c.item}
    BY <1>4, <2>1 DEF TransferAt
  <2> QED BY <1>2, <2>1, <2>2 DEF Carries
<1> QED BY <1>5, <1>6 DEF Order

\* A commit ends the transaction; the others hold other items, and what they have read
\* stays true.
LEMMA PostStep ==
    ASSUME StockInv, NEW t \in Clerks, NEW c \in Order, Commits(t, c),
           ledger' \in Seq(MovementRow), balance' \in [Items \X Locations -> Nat],
           \A i \in Items \ {c.item}, l \in Locations : balance'[<<i, l>>] = balance[<<i, l>>],
           Explains(ledger', balance')
    PROVE  StockInv'
<1>1. clerk[t].cmd = {c} /\ clerk[t].want = <<>> /\ clerk' = [clerk EXCEPT ![t] = Quiet]
  BY DEF Commits
<1>2. /\ clerk' \in [Clerks -> ClerkRow] /\ clerk'[t] = Quiet
      /\ \A u \in Clerks \ {t} : clerk'[u] = clerk[u]
  BY <1>1, QuietTyped DEF StockInv
<1>3. \A u, v \in Clerks : u # v => clerk'[u].held \cap clerk'[v].held = {}
  BY <1>2, QuietTyped DEF StockInv
<1>4. ASSUME NEW u \in Clerks \ {t}, clerk[u] # Quiet
      PROVE  (\E x \in Order : Carries(clerk[u], x))'
  <2>1. PICK x \in Order : Carries(clerk[u], x)
    BY <1>4 DEF StockInv
  <2>2. clerk'[u] = clerk[u]
    BY <1>2
  <2>3. ASSUME clerk[u].want = <<>>
        PROVE  \A l \in Locations : clerk[u].seen[l] = balance'[<<x.item, l>>]
    <3>1. x.item \in clerk[u].held /\ clerk[u].cmd = {x}
      BY <2>1, <2>3, ReadyHolds DEF Carries
    <3>2. c.item \in clerk[t].held
      BY <1>1, ReadyHolds
    <3>3. x.item # c.item /\ x.item \in Items
      BY <3>1, <3>2 DEF StockInv, Order
    <3>4. \A l \in Locations : clerk[u].seen[l] = balance[<<x.item, l>>]
      BY <2>1, <2>3 DEF Carries
    <3> QED BY <3>3, <3>4
  <2>4. Carries(clerk[u], x)'
    BY <2>1, <2>2, <2>3 DEF Carries
  <2> QED BY <2>4
<1>5. \A u \in Clerks : clerk'[u] = Quiet \/ (\E x \in Order : Carries(clerk[u], x))'
  BY <1>2, <1>4
<1> QED BY <1>2, <1>3, <1>5 DEF StockInv, Explains, SameIn

LEMMA LegTyped ==
    ASSUME StockInv, NEW t \in Clerks, NEW c \in Order, clerk[t].cmd = {c},
           clerk[t].want = <<>>, NEW l \in Locations, NEW delta \in Int,
           clerk[t].seen[l] + delta >= 0
    PROVE  /\ Leg(t, c, l, delta) \in MovementRow
           /\ Leg(t, c, l, delta).item = c.item /\ Leg(t, c, l, delta).location = l
           /\ Leg(t, c, l, delta).delta = delta
           /\ Leg(t, c, l, delta).resulting = balance[<<c.item, l>>] + delta
<1>1. clerk[t].seen[l] = balance[<<c.item, l>>] /\ c.item \in Items
  BY ReadyHolds DEF Order
<1>2. balance[<<c.item, l>>] \in Nat
  BY <1>1 DEF StockInv
<1>3. clerk[t].seen[l] + delta \in Nat
  BY <1>1, <1>2
<1> QED BY <1>1, <1>3 DEF Leg, MovementRow, Order

LEMMA PostMovementKeeps ==
    ASSUME StockInv, NEW t \in Clerks, NEW c \in Order, PostMovement(t, c)
    PROVE  StockInv'
<1>1. /\ Commits(t, c) /\ clerk[t].cmd = {c} /\ clerk[t].want = <<>>
      /\ clerk[t].seen[c.from] + c.delta >= 0
      /\ balance' = [balance EXCEPT ![<<c.item, c.from>>] = clerk[t].seen[c.from] + c.delta]
      /\ ledger' = Append(ledger, Leg(t, c, c.from, c.delta))
  BY DEF PostMovement, Commits
<1>2. c.item \in Items /\ c.from \in Locations /\ c.delta \in Int
  BY DEF Order
<1> DEFINE leg == Leg(t, c, c.from, c.delta)
<1>3. /\ leg \in MovementRow /\ leg.item = c.item /\ leg.location = c.from
      /\ leg.delta = c.delta /\ leg.resulting = balance[<<c.item, c.from>>] + c.delta
  BY <1>1, <1>2, LegTyped
<1>4. leg.resulting = clerk[t].seen[c.from] + c.delta /\ leg.resulting \in Nat
  BY <1>3 DEF Leg, MovementRow
<1> HIDE DEF leg
<1>5. balance' = [balance EXCEPT ![<<leg.item, leg.location>>] = leg.resulting]
  BY <1>1, <1>3, <1>4
<1>6. ledger' = Append(ledger, leg) /\ ledger' \in Seq(MovementRow)
  BY <1>1, <1>3 DEF StockInv, leg
<1>7. Explains(ledger', balance')
  BY <1>3, <1>5, <1>6, PostExplains DEF StockInv
<1>8. /\ balance' \in [Items \X Locations -> Nat]
      /\ \A i \in Items \ {c.item}, l \in Locations : balance'[<<i, l>>] = balance[<<i, l>>]
  BY <1>2, <1>3, <1>4, <1>5 DEF StockInv
<1> QED BY <1>1, <1>6, <1>7, <1>8, PostStep

LEMMA PostTransferKeeps ==
    ASSUME StockInv, NEW t \in Clerks, NEW c \in Order, PostTransfer(t, c)
    PROVE  StockInv'
<1> DEFINE out == Leg(t, c, c.from, -c.delta)
           in == Leg(t, c, c.to, c.delta)
           mid == [balance EXCEPT ![<<c.item, c.from>>] = out.resulting]
<1>1. /\ Commits(t, c) /\ clerk[t].cmd = {c} /\ clerk[t].want = <<>> /\ c.kind = "transfer"
      /\ clerk[t].seen[c.from] >= c.delta
      /\ balance' = [balance EXCEPT ![<<c.item, c.from>>] = clerk[t].seen[c.from] - c.delta,
                                    ![<<c.item, c.to>>] = clerk[t].seen[c.to] + c.delta]
      /\ ledger' = ledger \o <<out, in>>
  BY DEF PostTransfer, Commits
<1>2. /\ c.item \in Items /\ c.from \in Locations /\ c.to \in Locations /\ c.delta \in Nat
      /\ c.from # c.to
  BY <1>1, ReadyHolds DEF Order
<1>3. /\ clerk[t].seen[c.from] \in Nat /\ clerk[t].seen[c.to] \in Nat
      /\ clerk[t].seen[c.from] = balance[<<c.item, c.from>>]
      /\ clerk[t].seen[c.to] = balance[<<c.item, c.to>>]
  <2>1. \A l \in Locations : clerk[t].seen[l] = balance[<<c.item, l>>]
    BY <1>1, ReadyHolds
  <2>2. \A l \in Locations : balance[<<c.item, l>>] \in Nat
    BY <1>2 DEF StockInv
  <2> QED BY <1>2, <2>1, <2>2
<1>4. /\ clerk[t].seen[c.from] + (-c.delta) >= 0 /\ clerk[t].seen[c.to] + c.delta >= 0
      /\ -c.delta \in Int /\ c.delta \in Int
      /\ clerk[t].seen[c.from] + (-c.delta) = clerk[t].seen[c.from] - c.delta
  <2> DEFINE before == clerk[t].seen[c.from]
             after == clerk[t].seen[c.to]
             moved == c.delta
  <2>1. before \in Nat /\ after \in Nat /\ moved \in Nat /\ before >= moved
    BY <1>1, <1>2, <1>3
  <2> HIDE DEF before, after, moved
  <2>2. before + (-moved) >= 0 /\ after + moved >= 0 /\ -moved \in Int /\ moved \in Int
        /\ before + (-moved) = before - moved
    BY <2>1
  <2> QED BY <2>2 DEF before, after, moved
<1>5. /\ out \in MovementRow /\ out.item = c.item /\ out.location = c.from
      /\ out.delta = -c.delta /\ out.resulting = balance[<<c.item, c.from>>] + (-c.delta)
  BY <1>1, <1>2, <1>4, LegTyped
<1>6. /\ in \in MovementRow /\ in.item = c.item /\ in.location = c.to
      /\ in.delta = c.delta /\ in.resulting = balance[<<c.item, c.to>>] + c.delta
  BY <1>1, <1>2, <1>4, LegTyped
<1>7. out.resulting \in Nat /\ in.resulting \in Nat
  BY <1>5, <1>6 DEF MovementRow
<1> HIDE DEF out, in
<1>8. mid \in [Items \X Locations -> Nat] /\ mid[<<c.item, c.to>>] = balance[<<c.item, c.to>>]
  BY <1>2, <1>7 DEF StockInv
<1>9. balance' = [mid EXCEPT ![<<c.item, c.to>>] = in.resulting]
  <2>1. /\ clerk[t].seen[c.from] - c.delta = out.resulting
        /\ clerk[t].seen[c.to] + c.delta = in.resulting
    BY <1>3, <1>4, <1>5, <1>6
  <2>2. balance' = [balance EXCEPT ![<<c.item, c.from>>] = out.resulting,
                                   ![<<c.item, c.to>>] = in.resulting]
    BY <1>1, <2>1
  <2> QED BY <2>2
<1>10. mid = [balance EXCEPT ![<<out.item, out.location>>] = out.resulting]
  BY <1>5
<1> HIDE DEF mid
<1>11. Append(ledger, out) \in Seq(MovementRow) /\ Explains(Append(ledger, out), mid)
  <2>1. out.resulting = balance[<<out.item, out.location>>] + out.delta
    BY <1>5
  <2>2. Append(ledger, out) \in Seq(MovementRow)
    BY <1>5 DEF StockInv
  <2> QED BY <1>5, <1>10, <2>1, <2>2, PostExplains DEF StockInv
<1>12. ledger' = Append(Append(ledger, out), in) /\ ledger' \in Seq(MovementRow)
  BY <1>1, <1>5, <1>6 DEF StockInv
<1>13. Explains(ledger', balance')
  BY <1>6, <1>8, <1>9, <1>11, <1>12, PostExplains
<1>14. /\ balance' \in [Items \X Locations -> Nat]
       /\ \A i \in Items \ {c.item}, l \in Locations : balance'[<<i, l>>] = balance[<<i, l>>]
  BY <1>2, <1>7, <1>8, <1>9 DEF StockInv, mid
<1> QED BY <1>1, <1>12, <1>13, <1>14, PostStep

THEOREM StockInvariance == StockSpec => []StockInv
<1>1. StockInit => StockInv
  <2> SUFFICES ASSUME StockInit PROVE StockInv
    OBVIOUS
  <2>1. /\ balance \in [Items \X Locations -> Nat]
        /\ \A i \in Items, l \in Locations : balance[<<i, l>>] = 0
    BY DEF StockInit
  <2>2. /\ clerk \in [Clerks -> ClerkRow]
        /\ \A t \in Clerks : clerk[t] = Quiet /\ clerk[t].held = {}
    BY QuietTyped DEF StockInit
  <2>3. ledger = <<>> /\ ledger \in Seq(MovementRow) /\ DOMAIN ledger = {}
    BY DEF StockInit
  <2>4. Explains(ledger, balance)
    BY <2>1, <2>3 DEF Explains
  <2> QED BY <2>1, <2>2, <2>3, <2>4 DEF StockInv
<1>2. StockInv /\ [StockNext]_stockVars => StockInv'
  <2> SUFFICES ASSUME StockInv, [StockNext]_stockVars PROVE StockInv'
    OBVIOUS
  <2>1. CASE UNCHANGED stockVars
    BY <2>1 DEF stockVars, StockInv, Explains, SameIn, Carries
  <2>2. ASSUME NEW t \in Clerks, NEW u \in Staff, NEW i \in Items, NEW l \in Locations,
               NEW q \in Quantities, PortalStock(t, u, i, l, q)
        PROVE  StockInv'
    BY <2>2, MovementKeeps, TransferKeeps DEF PortalStock
  <2>3. ASSUME NEW t \in Clerks, NEW c \in clerk[t].cmd, PostMovement(t, c) \/ PostTransfer(t, c)
        PROVE  StockInv'
    <3>1. c \in Order
      BY DEF StockInv, ClerkRow
    <3> QED BY <2>3, <3>1, PostMovementKeeps, PostTransferKeeps
  <2> QED BY <2>1, <2>2, <2>3, StockLockKeeps, StockAbortKeeps DEF StockNext
<1> QED BY <1>1, <1>2, PTL DEF StockSpec

\* The ledger explains every balance, however commands overlap: the rows of an item at a
\* location lead by their deltas from nothing to the balance that is kept, never below
\* zero (LedgerExplainsBalance).
THEOREM BalancesExplained == StockSpec => []LedgerExplainsBalance
<1>1. StockInv => LedgerExplainsBalance
  <2> SUFFICES ASSUME StockInv PROVE LedgerExplainsBalance
    OBVIOUS
  <2>1. Explains(ledger, balance)
    BY DEF StockInv
  <2> QED BY <2>1 DEF Explains, SameIn, LedgerExplainsBalance, Follows, SamePlace
<1> QED BY <1>1, StockInvariance, PTL

-----------------------------------------------------------------------------
(* Waiting *)

LEMMA LargestNumber ==
    ASSUME NEW S \in SUBSET Nat, IsFiniteSet(S)
    PROVE  \A T \in SUBSET S : T # {} => \E m \in T : \A x \in T : x <= m
<1> DEFINE G == {T \in SUBSET S : T # {} => \E m \in T : \A x \in T : x <= m}
<1>1. ASSUME NEW T \in SUBSET S, \A x \in T : T \ {x} \in G
      PROVE  T \in G
  <2> SUFFICES ASSUME T # {} PROVE \E m \in T : \A x \in T : x <= m
    OBVIOUS
  <2>1. PICK y \in T : TRUE
    OBVIOUS
  <2>2. T \ {y} \in G /\ y \in Nat
    BY <1>1
  <2>3. CASE T \ {y} = {}
    BY <2>2, <2>3
  <2>4. CASE T \ {y} # {}
    <3>1. PICK m \in T \ {y} : \A x \in T \ {y} : x <= m
      BY <2>2, <2>4
    <3>2. m \in Nat /\ \A x \in T : x \in Nat
      OBVIOUS
    <3>3. CASE y <= m
      BY <3>1, <3>2, <3>3
    <3>4. CASE ~(y <= m)
      <4>1. \A x \in T : x <= y
        BY <2>2, <3>1, <3>2, <3>4
      <4> QED BY <4>1
    <3> QED BY <3>3, <3>4
  <2> QED BY <2>3, <2>4
<1> HIDE DEF G
<1>2. \A T \in SUBSET S : T \in G
  BY <1>1, SubsetInduction
<1> QED BY <1>2 DEF G

\* A transfer that waits, waits for the item, or for a location above those it holds; one
\* that holds its item waits for nothing.
LEMMA TransferWaits ==
    ASSUME StockInv, NEW t \in Clerks, NEW c \in clerk[t].cmd, c.kind = "transfer"
    PROVE  /\ clerk[t].want # <<>> => Head(clerk[t].want) \in Lockable
           /\ clerk[t].want # <<>> => clerk[t].held \subseteq Locations
           /\ \A x \in Locations :
                 clerk[t].want # <<>> /\ Head(clerk[t].want) = x
                 => \A y \in clerk[t].held : y \in Locations /\ y < x
<1>1. clerk[t] # Quiet
  BY QuietTyped
<1>2. c \in Order /\ Carries(clerk[t], c)
  <2>1. PICK x \in Order : Carries(clerk[t], x)
    BY <1>1 DEF StockInv
  <2>2. x = c
    BY <2>1 DEF Carries
  <2> QED BY <2>1, <2>2
<1>3. /\ c.item \in Items /\ c.from \in Locations /\ c.to \in Locations
      /\ c.item \notin Locations /\ Locations \subseteq Nat
  BY <1>2, StockAssumption DEF Order
<1>4. ASSUME NEW a \in Locations, NEW b \in Locations, a < b, TransferAt(clerk[t], c.item, a, b)
      PROVE  /\ clerk[t].want # <<>> => Head(clerk[t].want) \in Lockable
             /\ clerk[t].want # <<>> => clerk[t].held \subseteq Locations
             /\ \A x \in Locations :
                   clerk[t].want # <<>> /\ Head(clerk[t].want) = x
                   => \A y \in clerk[t].held : y \in Locations /\ y < x
  <2>1. /\ Head(<<a, b, c.item>>) = a /\ Head(<<b, c.item>>) = b /\ Head(<<c.item>>) = c.item
    BY <1>3, ShortLists DEF Lockable
  <2>2. CASE clerk[t].want = <<a, b, c.item>> /\ clerk[t].held = {}
    BY <2>1, <2>2 DEF Lockable
  <2>3. CASE clerk[t].want = <<b, c.item>> /\ clerk[t].held = {a}
    BY <1>4, <2>1, <2>3 DEF Lockable
  <2>4. CASE clerk[t].want = <<c.item>> /\ clerk[t].held = {a, b}
    BY <1>3, <2>1, <2>4 DEF Lockable
  <2>5. CASE clerk[t].want = <<>>
    BY <2>5
  <2> QED BY <1>4, <2>2, <2>3, <2>4, <2>5 DEF TransferAt
<1>5. \/ c.from < c.to /\ TransferAt(clerk[t], c.item, c.from, c.to)
      \/ c.to < c.from /\ TransferAt(clerk[t], c.item, c.to, c.from)
  BY <1>2 DEF Carries
<1> QED BY <1>3, <1>4, <1>5

\* Transfers never wait on each other in a circle: among transfers that all wait, the one
\* that waits for the last location waits for none of the others (NoTransferCycle).
THEOREM TransfersEnd == StockSpec => []NoTransferCycle
<1>1. StockInv => NoTransferCycle
  <2> SUFFICES ASSUME StockInv,
                      NEW S \in SUBSET {t \in Clerks : \E c \in clerk[t].cmd : c.kind = "transfer"},
                      S # {}, \A t \in S : \E u \in S : Waits(t, u)
               PROVE  FALSE
    BY DEF NoTransferCycle
  <2>1. \A t \in S : t \in Clerks /\ \E c \in clerk[t].cmd : c.kind = "transfer"
    OBVIOUS
  <2>2. ASSUME NEW t \in S
        PROVE  /\ clerk[t].want # <<>> /\ Head(clerk[t].want) \in Locations
               /\ \E u \in S : Head(clerk[t].want) < Head(clerk[u].want)
    <3>1. PICK u \in S : clerk[t].want # <<>> /\ Head(clerk[t].want) \in clerk[u].held
      BY DEF Waits
    <3>2. clerk[u].want # <<>>
      BY DEF Waits
    <3>3. clerk[u].held \subseteq Locations
      BY <2>1, <3>2, TransferWaits
    <3>4. Head(clerk[u].want) \in Locations
      <4>1. PICK v \in S : Head(clerk[u].want) \in clerk[v].held
        BY DEF Waits
      <4>2. clerk[v].want # <<>>
        BY DEF Waits
      <4> QED BY <2>1, <4>1, <4>2, TransferWaits
    <3>5. Head(clerk[t].want) < Head(clerk[u].want)
      BY <2>1, <3>1, <3>2, <3>4, TransferWaits
    <3> QED BY <3>1, <3>3, <3>5
  <2> DEFINE heads == {Head(clerk[t].want) : t \in S}
  <2>3. heads \in SUBSET Locations /\ heads # {}
    BY <2>2
  <2>4. PICK m \in heads : \A x \in heads : x <= m
    BY <2>3, LargestNumber, StockAssumption
  <2>5. PICK t \in S : m = Head(clerk[t].want)
    OBVIOUS
  <2>6. PICK u \in S : m < Head(clerk[u].want)
    BY <2>2, <2>5
  <2>7. Head(clerk[u].want) \in heads /\ Head(clerk[u].want) \in Nat /\ m \in Nat
    BY <2>3, StockAssumption
  <2> HIDE DEF heads
  <2> QED BY <2>4, <2>6, <2>7
<1> QED BY <1>1, StockInvariance, PTL

-----------------------------------------------------------------------------
(* Sessions and the second factor *)

\* A code that was accepted belongs to a secret that has been replaced, or reset, or it is
\* used up in the device.
UsedUp(code, rec) ==
    /\ code.secret <= rec.secret
    /\ code.secret = rec.secret =>
          /\ rec.status # "pending"
          /\ rec.status = "confirmed" =>
                IF code.kind = "totp" THEN code.n <= rec.last ELSE code.n \notin rec.recovery

\* An open verification has the device for itself, as it read it.
ChecksAlone ==
    \A b \in Browsers :
        check[b].user # None =>
            /\ device[check[b].user].status = "confirmed"
            /\ check[b].read = device[check[b].user]
            /\ \A o \in Browsers \ {b} : check[o].user # check[b].user

VerifiedProven(rec) == rec.verified # None => rec.verified \in rec.proven

AccessInv ==
    /\ AccessTypeOK
    /\ \A u \in Members : device[u].status # "none" => device[u].secret # 0
    /\ ChecksAlone
    /\ \A code \in accepted : UsedUp(code, device[code.user])
    /\ reused = {}
    /\ \A b \in Browsers : VerifiedProven(session[b])

-----------------------------------------------------------------------------

LEMMA AccessConstants ==
    /\ Members \subseteq Staff /\ None \notin Members
    /\ RecoveryCodes \in Nat /\ LockSteps \in Nat /\ PendingSteps \in Nat /\ Secrets \in Nat
    /\ LastStep \in Nat
  BY AccessAssumption, NullAssumption

LEMMA NewRowsTyped ==
    /\ NewSession \in SessionRow /\ VerifiedProven(NewSession)
    /\ NoDevice \in DeviceRow
  BY AccessConstants DEF NewSession, SessionRow, VerifiedProven, NoDevice, DeviceRow

\* A session that somebody logs in to is typed, and proven if it was.
LEMMA LoginTyped ==
    ASSUME AccessInv, NEW b \in Browsers, NEW u \in Members
    PROVE  /\ Login(b, u) \in SessionRow /\ VerifiedProven(Login(b, u))
           /\ AwaitsCode(b, u) \in SessionRow /\ VerifiedProven(AwaitsCode(b, u))
           /\ [MfaLogin(b, u) EXCEPT !.proven = @ \cup {u}] \in SessionRow
           /\ VerifiedProven([MfaLogin(b, u) EXCEPT !.proven = @ \cup {u}])
<1>1. session[b] \in SessionRow /\ VerifiedProven(session[b]) /\ now \in Nat
  BY AccessConstants DEF AccessInv, AccessTypeOK
<1>2. Login(b, u) \in SessionRow /\ VerifiedProven(Login(b, u))
  <2>1. CASE session[b].user \in {None, u}
    BY <1>1, <2>1 DEF Login, SessionRow, VerifiedProven
  <2>2. CASE session[b].user \notin {None, u}
    BY <2>2, NewRowsTyped, AccessConstants DEF Login, SessionRow, VerifiedProven, NewSession
  <2> QED BY <2>1, <2>2
<1>3. AwaitsCode(b, u) \in SessionRow /\ VerifiedProven(AwaitsCode(b, u))
  <2>1. PICK t \in Nat : t = now + PendingSteps
    BY <1>1, AccessConstants
  <2>2. AwaitsCode(b, u) = [session[b] EXCEPT !.pending = u, !.until = t]
    BY <2>1 DEF AwaitsCode
  <2>3. PICK rec \in SessionRow : rec = session[b] /\ VerifiedProven(rec)
    BY <1>1
  <2>4. /\ [rec EXCEPT !.pending = u, !.until = t] \in SessionRow
        /\ VerifiedProven([rec EXCEPT !.pending = u, !.until = t])
    BY <2>3 DEF SessionRow, VerifiedProven
  <2> QED BY <2>2, <2>3, <2>4
<1>4. PICK rec \in SessionRow : Login(b, u) = rec
  BY <1>2
<1>5. /\ [MfaLogin(b, u) EXCEPT !.proven = @ \cup {u}] \in SessionRow
      /\ VerifiedProven([MfaLogin(b, u) EXCEPT !.proven = @ \cup {u}])
  BY <1>4, AccessConstants DEF MfaLogin, SessionRow, VerifiedProven
<1> QED BY <1>2, <1>3, <1>5

\* What a step has to keep when it leaves the devices, the checks and the codes alone.
LEMMA SessionKeeps ==
    ASSUME AccessInv, NEW b \in Browsers, NEW rec \in SessionRow, VerifiedProven(rec),
           session' = [session EXCEPT ![b] = rec], member' \in [Members -> MemberRow],
           UNCHANGED <<now, device, check, accepted, reused>>
    PROVE  AccessInv'
<1>1. session' \in [Browsers -> SessionRow]
  BY DEF AccessInv, AccessTypeOK
<1>2. AccessTypeOK'
  BY <1>1 DEF AccessInv, AccessTypeOK
<1>3. \A o \in Browsers : VerifiedProven(session'[o])
  BY DEF AccessInv, AccessTypeOK
<1> QED BY <1>2, <1>3 DEF AccessInv, ChecksAlone

LEMMA AccountKeeps ==
    ASSUME AccessInv, member' \in [Members -> MemberRow], AccountStep
    PROVE  AccessInv'
  BY DEF AccessInv, AccessTypeOK, AccountStep, ChecksAlone

LEMMA StampedTyped ==
    ASSUME AccessInv, NEW u \in Members
    PROVE  /\ Stamped(u) \in [Members -> MemberRow] /\ Registered(u) \in [Members -> MemberRow]
           /\ [member EXCEPT ![u].password = TRUE, ![u].link = FALSE] \in [Members -> MemberRow]
           /\ [member EXCEPT ![u].link = TRUE] \in [Members -> MemberRow]
           /\ \A status \in {"active", "inactive"} :
                 [member EXCEPT ![u].status = status] \in [Members -> MemberRow]
<1>1. PICK old \in MemberRow : old = member[u] /\ member \in [Members -> MemberRow]
  BY DEF AccessInv, AccessTypeOK
<1>2. \A new \in MemberRow : [member EXCEPT ![u] = new] \in [Members -> MemberRow]
  BY <1>1
<1>3. [old EXCEPT !.link = FALSE] \in MemberRow /\ [old EXCEPT !.link = TRUE] \in MemberRow
  BY <1>1 DEF MemberRow
<1>4. [old EXCEPT !.status = "active", !.password = TRUE] \in MemberRow
  BY <1>1 DEF MemberRow
<1>5. [old EXCEPT !.password = TRUE, !.link = FALSE] \in MemberRow
  BY <1>1 DEF MemberRow
<1>6. \A status \in {"active", "inactive"} : [old EXCEPT !.status = status] \in MemberRow
  BY <1>1 DEF MemberRow
<1>7. Stamped(u) \in [Members -> MemberRow]
  BY <1>1, <1>2, <1>3 DEF Stamped
<1>8. Registered(u) \in [Members -> MemberRow]
  BY <1>1, <1>2, <1>4 DEF Registered
<1>9. [member EXCEPT ![u].password = TRUE, ![u].link = FALSE] \in [Members -> MemberRow]
  <2>1. [member EXCEPT ![u].password = TRUE, ![u].link = FALSE]
        = [member EXCEPT ![u] = [old EXCEPT !.password = TRUE, !.link = FALSE]]
    BY <1>1
  <2> QED BY <1>2, <1>5, <2>1
<1>10. [member EXCEPT ![u].link = TRUE] \in [Members -> MemberRow]
  <2>1. [member EXCEPT ![u].link = TRUE] = [member EXCEPT ![u] = [old EXCEPT !.link = TRUE]]
    BY <1>1
  <2> QED BY <1>2, <1>3, <2>1
<1>11. ASSUME NEW status \in {"active", "inactive"}
       PROVE  [member EXCEPT ![u].status = status] \in [Members -> MemberRow]
  <2>1. [member EXCEPT ![u].status = status]
        = [member EXCEPT ![u] = [old EXCEPT !.status = status]]
    BY <1>1
  <2> QED BY <1>2, <1>6, <2>1
<1> QED BY <1>7, <1>8, <1>9, <1>10, <1>11

-----------------------------------------------------------------------------
(* Sessions and accounts *)

LEMMA SessionsKeep ==
    ASSUME AccessInv, NEW b \in Browsers, NEW u \in Members,
           \/ SignIn(b, u) \/ SetPassword(b, u) \/ SignUp(b, u) \/ Logout(b) \/ TurnAway(b)
           \/ VerifyBooking(b, u) \/ AdminSignIn(b, u)
    PROVE  AccessInv'
<1>1. CASE SignIn(b, u)
  <2>1. PICK rec \in SessionRow : VerifiedProven(rec) /\ SessionStep(b, rec)
    BY <1>1, LoginTyped DEF SignIn
  <2>2. member' \in [Members -> MemberRow]
    <3>1. member' = member \/ member' = Stamped(u)
      BY <1>1 DEF SignIn
    <3>2. member \in [Members -> MemberRow]
      BY DEF AccessInv, AccessTypeOK
    <3> QED BY <3>1, <3>2, StampedTyped
  <2> QED BY <2>1, <2>2, SessionKeeps DEF SessionStep
<1>2. CASE SetPassword(b, u)
  <2>1. PICK rec \in SessionRow : VerifiedProven(rec) /\ SessionStep(b, rec)
    BY <1>2, LoginTyped DEF SetPassword
  <2>2. member' \in [Members -> MemberRow]
    BY <1>2, StampedTyped DEF SetPassword
  <2> QED BY <2>1, <2>2, SessionKeeps DEF SessionStep
<1>3. CASE SignUp(b, u)
  <2>1. PICK rec \in SessionRow : VerifiedProven(rec) /\ SessionStep(b, rec)
    BY <1>3, LoginTyped DEF SignUp
  <2>2. member' \in [Members -> MemberRow]
    BY <1>3, StampedTyped DEF SignUp
  <2> QED BY <2>1, <2>2, SessionKeeps DEF SessionStep
<1>4. CASE Logout(b) \/ TurnAway(b)
  <2>1. SessionStep(b, NewSession) /\ member' \in [Members -> MemberRow]
    BY <1>4 DEF Logout, TurnAway, AccessInv, AccessTypeOK
  <2> QED BY <2>1, NewRowsTyped, SessionKeeps DEF SessionStep
<1>5. CASE VerifyBooking(b, u)
  <2>1. PICK rec \in SessionRow : VerifiedProven(rec) /\ SessionStep(b, rec)
    <3>1. session[b] \in SessionRow /\ VerifiedProven(session[b])
      BY DEF AccessInv, AccessTypeOK
    <3> QED BY <1>5, <3>1, LoginTyped DEF VerifyBooking
  <2>2. CASE member' = Stamped(u)
    BY <2>1, <2>2, StampedTyped, SessionKeeps DEF SessionStep
  <2>3. ASSUME NEW booked \in BOOLEAN,
               member' = [member EXCEPT ![u].status = IF @ = "none" THEN "active" ELSE @,
                                        ![u].link = @ \/ booked]
        PROVE  AccessInv'
    <3>1. PICK old \in MemberRow : old = member[u] /\ member \in [Members -> MemberRow]
      BY DEF AccessInv, AccessTypeOK
    <3>2. PICK status \in {"none", "active", "inactive"}, link \in BOOLEAN :
            /\ status = IF old.status = "none" THEN "active" ELSE old.status
            /\ link = (old.link \/ booked)
      BY DEF MemberRow
    <3>3. [old EXCEPT !.status = status, !.link = link] \in MemberRow
      BY DEF MemberRow
    <3>4. member' = [member EXCEPT ![u] = [old EXCEPT !.status = status, !.link = link]]
      BY <2>3, <3>1, <3>2
    <3>5. member' \in [Members -> MemberRow]
      BY <3>1, <3>3, <3>4
    <3> QED BY <2>1, <3>5, SessionKeeps DEF SessionStep
  <2> QED BY <1>5, <2>2, <2>3 DEF VerifyBooking
<1>6. CASE AdminSignIn(b, u)
  BY <1>6, LoginTyped, StampedTyped, SessionKeeps DEF AdminSignIn, SessionStep
<1> QED BY <1>1, <1>2, <1>3, <1>4, <1>5, <1>6

LEMMA AccountsKeep ==
    ASSUME AccessInv,
           \/ \E b \in Browsers, u \in Members : PasswordReset(b, u)
           \/ \E actor \in Staff, u \in Members :
                 \/ PortalStaff(actor, u) \/ ResendInvite(actor, u)
                 \/ \E on \in BOOLEAN : StaffAction(actor, u, on)
           \/ \E actor \in Staff \cup {None}, u \in Members : UserProfileViewSet(actor, u)
           \/ EnsureDefaultUsers
    PROVE  AccessInv'
<1>1. CASE \E b \in Browsers, u \in Members : PasswordReset(b, u)
  BY <1>1, StampedTyped, AccountKeeps DEF PasswordReset
<1>2. ASSUME NEW actor \in Staff, NEW u \in Members, PortalStaff(actor, u)
      PROVE  AccessInv'
  <2>1. PICK old \in MemberRow : old = member[u] /\ member \in [Members -> MemberRow]
    BY DEF AccessInv, AccessTypeOK
  <2>2. [old EXCEPT !.status = "active", !.link = TRUE] \in MemberRow
    BY DEF MemberRow
  <2>3. member' = [member EXCEPT ![u] = [old EXCEPT !.status = "active", !.link = TRUE]]
    BY <1>2, <2>1 DEF PortalStaff
  <2>4. member' \in [Members -> MemberRow]
    BY <2>1, <2>2, <2>3
  <2> QED BY <1>2, <2>4, AccountKeeps DEF PortalStaff
<1>3. ASSUME NEW actor \in Staff, NEW u \in Members, ResendInvite(actor, u)
      PROVE  AccessInv'
  BY <1>3, StampedTyped, AccountKeeps DEF ResendInvite
<1>4. ASSUME NEW actor \in Staff, NEW u \in Members, NEW on \in BOOLEAN,
             StaffAction(actor, u, on)
      PROVE  AccessInv'
  BY <1>4, StampedTyped, AccountKeeps DEF StaffAction
<1>5. ASSUME NEW actor \in Staff \cup {None}, NEW u \in Members, UserProfileViewSet(actor, u)
      PROVE  AccessInv'
  <2>1. AccountStep
    BY <1>5 DEF UserProfileViewSet
  <2>2. CASE member' = Registered(u)
    BY <2>1, <2>2, StampedTyped, AccountKeeps
  <2>3. ASSUME NEW status \in {"active", "inactive"},
               member' = [member EXCEPT ![u].status = status]
        PROVE  AccessInv'
    <3>1. member' \in [Members -> MemberRow]
      BY <2>3, StampedTyped
    <3> QED BY <2>1, <3>1, AccountKeeps
  <2> QED BY <1>5, <2>2, <2>3 DEF UserProfileViewSet
<1>6. CASE EnsureDefaultUsers
  <2>1. member' \in [Members -> MemberRow]
    <3>1. member \in [Members -> MemberRow]
      BY DEF AccessInv, AccessTypeOK
    <3>2. ASSUME NEW u \in Members
          PROVE  [member[u] EXCEPT !.status = "active", !.password = TRUE,
                                   !.link = member[u].link /\ member[u].password,
                                   !.site = RoleOf[u] # "guest"] \in MemberRow
      <4>1. member[u] \in MemberRow
        BY <3>1
      <4>2. PICK c \in BOOLEAN, site \in BOOLEAN :
              c = (member[u].link /\ member[u].password) /\ site = (RoleOf[u] # "guest")
        OBVIOUS
      <4> QED BY <4>1, <4>2 DEF MemberRow
    <3> QED BY <1>6, <3>1, <3>2 DEF EnsureDefaultUsers
  <2> QED BY <1>6, <2>1, AccountKeeps DEF EnsureDefaultUsers
<1> QED BY <1>1, <1>2, <1>3, <1>4, <1>5, <1>6

-----------------------------------------------------------------------------
(* Devices *)

\* Whoever enrols, or waits to, is a member.
LEMMA EnrolsMember ==
    ASSUME AccessInv, NEW b \in Browsers
    PROVE  /\ Enrols(b) # None => Enrols(b) \in Members
           /\ PendingUser(b) # None => PendingUser(b) \in Members
  BY DEF Enrols, PendingUser, LoggedIn, AccessInv, AccessTypeOK, SessionRow

LEMMA BeginEnrolmentKeeps ==
    ASSUME AccessInv, NEW b \in Browsers, BeginEnrolment(b)
    PROVE  AccessInv'
<1>1. PICK u \in Members :
        /\ device[u].status = "none" /\ device[u].secret < Secrets
        /\ device' = [device EXCEPT ![u].status = "pending", ![u].secret = @ + 1]
  BY EnrolsMember DEF BeginEnrolment
<1>2. UNCHANGED <<now, member, session, check, accepted, reused>>
  BY DEF BeginEnrolment, DeviceStep
<1>3. PICK rec \in DeviceRow : rec = [device[u] EXCEPT !.status = "pending", !.secret = @ + 1]
  BY <1>1, AccessConstants DEF AccessInv, AccessTypeOK, DeviceRow
<1>4. /\ rec.status = "pending" /\ rec.secret = device[u].secret + 1
      /\ device' = [device EXCEPT ![u] = rec] /\ device[u] \in DeviceRow
  BY <1>1, <1>3 DEF AccessInv, AccessTypeOK, DeviceRow
<1>5. AccessTypeOK'
  BY <1>2, <1>4 DEF AccessInv, AccessTypeOK
<1>6. \A v \in Members : device'[v].status # "none" => device'[v].secret # 0
  BY <1>4 DEF AccessInv, AccessTypeOK, DeviceRow
<1>7. ChecksAlone'
  BY <1>1, <1>2, <1>4 DEF AccessInv, AccessTypeOK, ChecksAlone
<1>8. ASSUME NEW code \in accepted
      PROVE  UsedUp(code, device'[code.user])
  <2>1. code \in Code /\ UsedUp(code, device[code.user])
    BY <1>8 DEF AccessInv, AccessTypeOK
  <2>2. code.user \in Members /\ code.secret \in Nat
    BY <2>1, AccessConstants DEF Code
  <2>3. CASE code.user = u
    BY <1>4, <2>1, <2>2, <2>3 DEF UsedUp, DeviceRow, AccessInv, AccessTypeOK
  <2>4. CASE code.user # u
    BY <1>4, <2>1, <2>2, <2>4 DEF AccessInv, AccessTypeOK
  <2> QED BY <2>3, <2>4
<1> QED BY <1>2, <1>5, <1>6, <1>7, <1>8 DEF AccessInv

\* A device that takes an accepted code: what is accepted stays used up.
LEMMA CodeKeeps ==
    ASSUME AccessInv, NEW u \in Members, NEW rec \in DeviceRow, NEW code \in Code,
           code \notin accepted, Accept(code), code.user = u, UsedUp(code, rec),
           device' = [device EXCEPT ![u] = rec],
           rec.status = "confirmed", rec.secret = device[u].secret, rec.secret # 0,
           \/ device[u].status = "pending"
           \/ /\ device[u].status = "confirmed"
              /\ rec.last >= device[u].last /\ rec.recovery \subseteq device[u].recovery
    PROVE  /\ accepted' \subseteq Code /\ reused' = {}
           /\ device' \in [Members -> DeviceRow]
           /\ \A v \in Members : device'[v].status # "none" => device'[v].secret # 0
           /\ \A c \in accepted' : UsedUp(c, device'[c.user])
<1>1. accepted' = accepted \cup {code} /\ reused' = {}
  BY DEF Accept, AccessInv
<1>2. device \in [Members -> DeviceRow] /\ accepted \subseteq Code
  BY DEF AccessInv, AccessTypeOK
<1>3. \A v \in Members : device'[v].status # "none" => device'[v].secret # 0
  BY <1>2 DEF AccessInv
<1>4. ASSUME NEW c \in accepted
      PROVE  UsedUp(c, device'[c.user])
  <2>1. c \in Code /\ UsedUp(c, device[c.user])
    BY <1>2, <1>4 DEF AccessInv
  <2>2. /\ c.user \in Members /\ c.secret \in Nat /\ c.n \in Int
        /\ c.kind \in {"totp", "recovery"}
    BY <2>1, AccessConstants DEF Code
  <2>3. CASE c.user = u
    <3>1. /\ device'[u] = rec /\ device[u] \in DeviceRow
          /\ rec.last \in Int /\ device[u].last \in Int /\ rec.secret \in Nat
      BY <1>2 DEF DeviceRow
    <3>2. UsedUp(c, device[u])
      BY <2>1, <2>3
    <3> QED BY <2>2, <2>3, <3>1, <3>2 DEF UsedUp
  <2>4. CASE c.user # u
    BY <1>2, <2>1, <2>2, <2>4
  <2> QED BY <2>3, <2>4
<1>5. device'[code.user] = rec
  BY <1>2
<1> QED BY <1>1, <1>2, <1>3, <1>4, <1>5
LEMMA ShownCodes ==
    ASSUME AccessInv, NEW u \in Members, NEW rec \in DeviceRow, rec.secret # 0,
           NEW at \in 0 .. LastStep, NEW code \in Shown(u, rec, at)
    PROVE  /\ code \in Code /\ code.user = u /\ code.secret = rec.secret
           /\ code.kind = "totp" /\ code.n \in Nat
<1>1. PICK k \in {k \in at - 1 .. at + 1 : k >= 0} :
        code = [user |-> u, secret |-> rec.secret, kind |-> "totp", n |-> k]
  BY DEF Shown
<1>2. k \in Nat
  BY <1>1, AccessConstants
<1>3. rec.secret \in 1 .. Secrets
  BY AccessConstants DEF DeviceRow
<1> QED BY <1>1, <1>2, <1>3 DEF Code

LEMMA LeftCodes ==
    ASSUME NEW u \in Members, NEW rec \in DeviceRow, rec.secret # 0, NEW code \in Left(u, rec)
    PROVE  /\ code \in Code /\ code.user = u /\ code.secret = rec.secret
           /\ code.kind = "recovery" /\ code.n \in rec.recovery
<1>1. PICK k \in rec.recovery :
        code = [user |-> u, secret |-> rec.secret, kind |-> "recovery", n |-> k]
  BY DEF Left
<1>2. k \in 1 .. RecoveryCodes /\ rec.secret \in 1 .. Secrets
  BY AccessConstants DEF DeviceRow
<1> QED BY <1>1, <1>2 DEF Code

LEMMA ConfirmKeeps ==
    ASSUME AccessInv, NEW b \in Browsers, NEW code \in Code, NEW u \in Members,
           u = Enrols(b), code \in Shown(u, device[u], now), ConfirmEnrolment(b, code)
    PROVE  AccessInv'
<1> DEFINE rec == [device[u] EXCEPT !.status = "confirmed", !.last = code.n,
                       !.recovery = 1 .. RecoveryCodes, !.failed = 0, !.locked = 0]
<1>1. /\ device[u] \in DeviceRow /\ device \in [Members -> DeviceRow]
      /\ device[u].status = "pending" /\ DeviceFree(u) /\ check[b] = NoCheck
      /\ device[u].secret # 0 /\ Accept(code) /\ UNCHANGED <<now, check>>
      /\ now \in 0 .. LastStep
  BY DEF ConfirmEnrolment, AccessInv, AccessTypeOK
<1>2. device' = [device EXCEPT ![u] = rec]
  BY <1>1 DEF ConfirmEnrolment
<1>3. /\ code.user = u /\ code.secret = device[u].secret /\ code.kind = "totp"
      /\ code.n \in Nat
  BY <1>1, ShownCodes
<1>4. code \notin accepted
  BY <1>1, <1>3 DEF AccessInv, UsedUp
<1>5. /\ rec \in DeviceRow /\ rec.status = "confirmed" /\ rec.secret = device[u].secret
      /\ rec.last = code.n
  <2>1. PICK old \in DeviceRow : old = device[u]
    BY <1>1
  <2>2. PICK n \in Nat : n = code.n
    BY <1>3
  <2>3. PICK all \in SUBSET (1 .. RecoveryCodes) : all = 1 .. RecoveryCodes
    OBVIOUS
  <2>4. rec = [old EXCEPT !.status = "confirmed", !.last = n, !.recovery = all,
                   !.failed = 0, !.locked = 0]
    BY <2>1, <2>2, <2>3
  <2> HIDE DEF rec
  <2>5. rec = [status |-> "confirmed", secret |-> old.secret, last |-> n, recovery |-> all,
               failed |-> 0, locked |-> 0]
    BY <2>4 DEF DeviceRow
  <2>6. rec \in DeviceRow
    <3>1. old.secret \in 0 .. Secrets
      BY DEF DeviceRow
    <3> QED BY <2>5, <3>1 DEF DeviceRow
  <2>7. rec.status = "confirmed" /\ rec.secret = old.secret /\ rec.last = n
    BY <2>5
  <2> QED BY <2>1, <2>2, <2>6, <2>7
<1>6. UsedUp(code, rec)
  BY <1>1, <1>3, <1>5, AccessConstants DEF UsedUp, DeviceRow
<1> HIDE DEF rec
<1>7. /\ accepted' \subseteq Code /\ reused' = {}
      /\ device' \in [Members -> DeviceRow]
      /\ \A v \in Members : device'[v].status # "none" => device'[v].secret # 0
      /\ \A c \in accepted' : UsedUp(c, device'[c.user])
  BY <1>1, <1>2, <1>3, <1>4, <1>5, <1>6, CodeKeeps
<1>8. /\ session' \in [Browsers -> SessionRow] /\ member' \in [Members -> MemberRow]
      /\ \A o \in Browsers : VerifiedProven(session'[o])
  <2> DEFINE login == IF LoggedIn(b) = None THEN MfaLogin(b, u) ELSE session[b]
  <2>1. session' = [session EXCEPT ![b] = [login EXCEPT !.proven = @ \cup {u}]]
    BY DEF ConfirmEnrolment
  <2>2. PICK fresh \in SessionRow : VerifiedProven(fresh) /\ session' = [session EXCEPT ![b] = fresh]
    <3>1. CASE LoggedIn(b) = None
      BY <2>1, <3>1, LoginTyped
    <3>2. CASE LoggedIn(b) # None
      <4>1. PICK old \in SessionRow : old = session[b] /\ VerifiedProven(old)
        BY DEF AccessInv, AccessTypeOK
      <4>2. [old EXCEPT !.proven = @ \cup {u}] \in SessionRow
        BY AccessConstants DEF SessionRow
      <4>3. VerifiedProven([old EXCEPT !.proven = @ \cup {u}])
        BY <4>1 DEF SessionRow, VerifiedProven
      <4>4. session' = [session EXCEPT ![b] = [old EXCEPT !.proven = @ \cup {u}]]
        BY <2>1, <3>2, <4>1
      <4> QED BY <4>2, <4>3, <4>4
    <3> QED BY <3>1, <3>2
  <2>3. member' = Stamped(u) \/ member' = member
    BY DEF ConfirmEnrolment
  <2>4. member' \in [Members -> MemberRow]
    BY <2>3, StampedTyped DEF AccessInv, AccessTypeOK
  <2> QED BY <2>2, <2>4 DEF AccessInv, AccessTypeOK
<1>9. ChecksAlone'
  BY <1>1, <1>2 DEF AccessInv, ChecksAlone, DeviceFree
<1> QED BY <1>1, <1>7, <1>8, <1>9 DEF AccessInv, AccessTypeOK

\* A verification can begin when nobody else verifies that device.
LEMMA BeginVerifyKeeps ==
    ASSUME AccessInv, NEW b \in Browsers, NEW u \in Members, NEW api \in BOOLEAN,
           BeginVerify(b, u, api)
    PROVE  AccessInv'
<1> DEFINE begun == [user |-> u, read |-> device[u], at |-> now, api |-> api]
<1>1. /\ check' = [check EXCEPT ![b] = begun] /\ DeviceFree(u)
      /\ device[u].status = "confirmed"
      /\ UNCHANGED <<now, member, device, session, accepted, reused>>
  BY DEF BeginVerify
<1>2. begun \in [user : Members \cup {None}, read : DeviceRow, at : 0 .. LastStep, api : BOOLEAN]
  BY DEF AccessInv, AccessTypeOK
<1>3. begun.user = u /\ begun.read = device[u]
  OBVIOUS
<1> HIDE DEF begun
<1>4. AccessTypeOK'
  BY <1>1, <1>2 DEF AccessInv, AccessTypeOK
<1>5. ChecksAlone'
  <2> SUFFICES ASSUME NEW o \in Browsers, check'[o].user # None
               PROVE  /\ device[check'[o].user].status = "confirmed"
                      /\ check'[o].read = device[check'[o].user]
                      /\ \A p \in Browsers \ {o} : check'[p].user # check'[o].user
    BY <1>1 DEF ChecksAlone
  <2>1. CASE o = b
    BY <1>1, <1>3, <2>1 DEF AccessInv, AccessTypeOK, DeviceFree
  <2>2. CASE o # b
    BY <1>1, <1>3, <2>2 DEF AccessInv, AccessTypeOK, DeviceFree, ChecksAlone
  <2> QED BY <2>1, <2>2
<1> QED BY <1>1, <1>4, <1>5 DEF AccessInv

\* The end of a verification leaves the others to themselves.
LEMMA CheckEnds ==
    ASSUME AccessInv, NEW b \in Browsers, NEW rec \in DeviceRow, check[b].user # None,
           check' = [check EXCEPT ![b] = NoCheck],
           device' = [device EXCEPT ![check[b].user] = rec]
    PROVE  /\ ChecksAlone'
           /\ check' \in [Browsers -> [user : Members \cup {None}, read : DeviceRow,
                                       at : 0 .. LastStep, api : BOOLEAN]]
<1>1. /\ check \in [Browsers -> [user : Members \cup {None}, read : DeviceRow,
                                 at : 0 .. LastStep, api : BOOLEAN]]
      /\ device \in [Members -> DeviceRow]
  BY DEF AccessInv, AccessTypeOK
<1>2. NoCheck \in [user : Members \cup {None}, read : DeviceRow, at : 0 .. LastStep,
                   api : BOOLEAN]
  BY NewRowsTyped, AccessConstants DEF NoCheck
<1>3. ASSUME NEW o \in Browsers, check'[o].user # None
      PROVE  /\ device'[check'[o].user].status = "confirmed"
             /\ check'[o].read = device'[check'[o].user]
             /\ \A p \in Browsers \ {o} : check'[p].user # check'[o].user
  <2>1. o # b /\ check'[o] = check[o] /\ check[o].user \in Members
    BY <1>1, <1>3 DEF NoCheck
  <2>2. check[o].user # check[b].user
    BY <2>1 DEF AccessInv, ChecksAlone
  <2>3. \A p \in Browsers \ {o} : check'[p].user # check[o].user
    BY <1>1, <1>3, <2>1 DEF AccessInv, ChecksAlone, NoCheck
  <2> QED BY <1>1, <1>3, <2>1, <2>2, <2>3 DEF AccessInv, ChecksAlone
<1> QED BY <1>1, <1>2, <1>3 DEF ChecksAlone

LEMMA VerifiedKeeps ==
    ASSUME AccessInv, NEW b \in Browsers, NEW code, Verified(b, code)
    PROVE  AccessInv'
<1>1. PICK u \in Members : u = check[b].user
  BY DEF Verified, AccessInv, AccessTypeOK
<1>2. /\ device[u] \in DeviceRow /\ device \in [Members -> DeviceRow]
      /\ device[u].status = "confirmed" /\ device[u].secret # 0 /\ check[b].read = device[u]
      /\ Accept(code) /\ UNCHANGED now /\ check[b].at \in 0 .. LastStep /\ u # None
      /\ check' = [check EXCEPT ![b] = NoCheck]
  BY <1>1, AccessConstants DEF Verified, AccessInv, AccessTypeOK, ChecksAlone
<1> DEFINE rec == [device[u] EXCEPT
                       !.failed = 0, !.locked = 0,
                       !.last = IF code.kind = "totp" THEN code.n ELSE device[u].last,
                       !.recovery = device[u].recovery
                                    \ (IF code.kind = "recovery" THEN {code.n} ELSE {})]
<1>3. device' = [device EXCEPT ![u] = rec]
  BY <1>1, <1>2 DEF Verified
<1>4. \/ code \in Shown(u, device[u], check[b].at) /\ code.n > device[u].last
      \/ code \in Left(u, device[u])
  BY <1>1, <1>2 DEF Verified, ValidCodes
<1>5. /\ code \in Code /\ code.user = u /\ code.secret = device[u].secret
      /\ code.kind = "totp" => code.n \in Nat /\ code.n > device[u].last
      /\ code.kind # "totp" => code.kind = "recovery" /\ code.n \in device[u].recovery
  BY <1>2, <1>4, ShownCodes, LeftCodes
<1>6. code \notin accepted
  <2>1. code \in accepted => UsedUp(code, device[u])
    BY <1>5 DEF AccessInv
  <2>2. device[u].last \in Int
    BY <1>2 DEF DeviceRow
  <2> QED BY <1>2, <1>5, <2>1, <2>2 DEF UsedUp
<1>7. /\ rec \in DeviceRow /\ rec.status = "confirmed" /\ rec.secret = device[u].secret
      /\ rec.recovery \subseteq device[u].recovery
      /\ code.kind = "totp" => rec.last = code.n
      /\ code.kind # "totp" => rec.last = device[u].last /\ code.n \notin rec.recovery
  <2>1. PICK old \in DeviceRow : old = device[u]
    BY <1>2
  <2>2. PICK l \in Int : l = IF code.kind = "totp" THEN code.n ELSE old.last
    BY <1>5 DEF DeviceRow
  <2>3. PICK left \in SUBSET old.recovery :
          left = old.recovery \ (IF code.kind = "recovery" THEN {code.n} ELSE {})
    OBVIOUS
  <2>4. rec = [old EXCEPT !.failed = 0, !.locked = 0, !.last = l, !.recovery = left]
    BY <2>1, <2>2, <2>3
  <2> HIDE DEF rec
  <2>5. /\ rec \in DeviceRow /\ rec.status = old.status /\ rec.secret = old.secret
        /\ rec.recovery = left /\ rec.last = l
    BY <2>4 DEF DeviceRow
  <2> QED BY <1>2, <1>5, <2>1, <2>2, <2>3, <2>5
<1> HIDE DEF rec
<1>8. rec.last >= device[u].last /\ UsedUp(code, rec)
  BY <1>2, <1>5, <1>7, AccessConstants DEF DeviceRow, UsedUp
<1>9. /\ accepted' \subseteq Code /\ reused' = {}
      /\ device' \in [Members -> DeviceRow]
      /\ \A v \in Members : device'[v].status # "none" => device'[v].secret # 0
      /\ \A c \in accepted' : UsedUp(c, device'[c.user])
  BY <1>2, <1>3, <1>5, <1>6, <1>7, <1>8, CodeKeeps
<1>10. /\ session' \in [Browsers -> SessionRow] /\ member' \in [Members -> MemberRow]
       /\ \A o \in Browsers : VerifiedProven(session'[o])
  <2>1. CASE check[b].api
    BY <2>1 DEF Verified, AccessInv, AccessTypeOK
  <2>2. CASE ~check[b].api
    <3>1. PICK fresh \in SessionRow :
            VerifiedProven(fresh) /\ session' = [session EXCEPT ![b] = fresh]
      BY <1>1, <2>2, LoginTyped DEF Verified
    <3>2. member' \in [Members -> MemberRow]
      BY <1>1, <2>2, StampedTyped DEF Verified
    <3> QED BY <3>1, <3>2 DEF AccessInv, AccessTypeOK
  <2> QED BY <2>1, <2>2
<1>11. /\ ChecksAlone'
       /\ check' \in [Browsers -> [user : Members \cup {None}, read : DeviceRow,
                                   at : 0 .. LastStep, api : BOOLEAN]]
  BY <1>1, <1>2, <1>3, <1>7, CheckEnds
<1> QED BY <1>2, <1>9, <1>10, <1>11 DEF AccessInv, AccessTypeOK

\* A device that changes its counters only.
LEMMA CountersKeep ==
    ASSUME AccessInv, NEW u \in Members, NEW rec \in DeviceRow,
           rec.status = device[u].status, rec.secret = device[u].secret,
           rec.last = device[u].last, rec.recovery = device[u].recovery,
           device' = [device EXCEPT ![u] = rec], UNCHANGED <<accepted, reused>>
    PROVE  /\ \A v \in Members : device'[v].status # "none" => device'[v].secret # 0
           /\ \A c \in accepted' : UsedUp(c, device'[c.user])
<1>1. device \in [Members -> DeviceRow] /\ accepted \subseteq Code
  BY DEF AccessInv, AccessTypeOK
<1>2. \A v \in Members : device'[v].status # "none" => device'[v].secret # 0
  BY <1>1 DEF AccessInv
<1>3. ASSUME NEW c \in accepted PROVE UsedUp(c, device'[c.user])
  <2>1. c.user \in Members /\ UsedUp(c, device[c.user])
    BY <1>1, <1>3 DEF AccessInv, Code
  <2>2. CASE c.user = u
    BY <1>1, <2>1, <2>2 DEF UsedUp
  <2>3. CASE c.user # u
    BY <1>1, <2>1, <2>3
  <2> QED BY <2>2, <2>3
<1> QED BY <1>2, <1>3

LEMMA RefusedKeeps ==
    ASSUME AccessInv, NEW b \in Browsers, Refused(b)
    PROVE  AccessInv'
<1>1. PICK u \in Members : u = check[b].user
  BY DEF Refused, AccessInv, AccessTypeOK
<1>2. /\ device[u] \in DeviceRow /\ device \in [Members -> DeviceRow] /\ u # None
      /\ check[b].read \in DeviceRow /\ now \in Nat
      /\ check' = [check EXCEPT ![b] = NoCheck]
      /\ UNCHANGED <<now, member, session, accepted, reused>>
  BY <1>1, AccessConstants DEF Refused, AccessInv, AccessTypeOK
<1> DEFINE failed == check[b].read.failed + 1
           rec == [device[u] EXCEPT
                      !.failed = IF failed >= MaxAttempts THEN 0 ELSE failed,
                      !.locked = IF failed >= MaxAttempts THEN now + LockSteps ELSE @]
<1>3. device' = [device EXCEPT ![u] = rec]
  BY <1>1, <1>2 DEF Refused
<1>4. failed \in Nat
  BY <1>2 DEF DeviceRow
<1> HIDE DEF failed
<1>5. /\ rec \in DeviceRow
      /\ rec.status = device[u].status /\ rec.secret = device[u].secret
      /\ rec.last = device[u].last /\ rec.recovery = device[u].recovery
  <2>1. PICK old \in DeviceRow : old = device[u]
    BY <1>2
  <2>2. PICK f \in Nat : f = IF failed >= MaxAttempts THEN 0 ELSE failed
    BY <1>4
  <2>3. PICK l \in Nat : l = IF failed >= MaxAttempts THEN now + LockSteps ELSE old.locked
    BY <1>2, AccessConstants DEF DeviceRow
  <2>4. rec = [old EXCEPT !.failed = f, !.locked = l]
    BY <2>1, <2>2, <2>3
  <2> HIDE DEF rec
  <2> QED BY <2>1, <2>4 DEF DeviceRow
<1> HIDE DEF rec
<1>6. /\ ChecksAlone'
      /\ check' \in [Browsers -> [user : Members \cup {None}, read : DeviceRow,
                                  at : 0 .. LastStep, api : BOOLEAN]]
  BY <1>1, <1>2, <1>3, <1>5, CheckEnds
<1>7. /\ \A v \in Members : device'[v].status # "none" => device'[v].secret # 0
      /\ \A c \in accepted' : UsedUp(c, device'[c.user])
  BY <1>2, <1>3, <1>5, CountersKeep
<1> QED BY <1>2, <1>3, <1>5, <1>6, <1>7 DEF AccessInv, AccessTypeOK

LEMMA ResetKeeps ==
    ASSUME AccessInv, NEW actor \in Staff, NEW u \in Members, ResetMfa(actor, u)
    PROVE  AccessInv'
<1> DEFINE rec == [NoDevice EXCEPT !.secret = device[u].secret]
<1>1. /\ device \in [Members -> DeviceRow] /\ device[u] \in DeviceRow /\ DeviceFree(u)
      /\ device' = [device EXCEPT ![u] = rec]
      /\ UNCHANGED <<now, member, session, check, accepted, reused>>
      /\ accepted \subseteq Code
  BY DEF ResetMfa, DeviceStep, AccessInv, AccessTypeOK
<1>2. rec \in DeviceRow /\ rec.status = "none" /\ rec.secret = device[u].secret
  BY <1>1 DEF DeviceRow, NoDevice
<1> HIDE DEF rec
<1>3. \A v \in Members : device'[v].status # "none" => device'[v].secret # 0
  BY <1>1, <1>2 DEF AccessInv
<1>4. ASSUME NEW c \in accepted PROVE UsedUp(c, device'[c.user])
  <2>1. c.user \in Members /\ UsedUp(c, device[c.user])
    BY <1>1, <1>4 DEF AccessInv, Code
  <2>2. CASE c.user = u
    BY <1>1, <1>2, <2>1, <2>2 DEF UsedUp
  <2>3. CASE c.user # u
    BY <1>1, <2>1, <2>3
  <2> QED BY <2>2, <2>3
<1>5. ChecksAlone'
  BY <1>1, <1>2 DEF AccessInv, ChecksAlone, DeviceFree
<1> QED BY <1>1, <1>2, <1>3, <1>4, <1>5 DEF AccessInv, AccessTypeOK

-----------------------------------------------------------------------------

LEMMA AccessInitially == AccessInit => AccessInv
  BY NewRowsTyped, AccessConstants
     DEF AccessInit, AccessInv, AccessTypeOK, NoMember, MemberRow, NoCheck, NoDevice,
         ChecksAlone, VerifiedProven, NewSession

LEMMA AccessInductive == AccessInv /\ [AccessNext]_accessVars => AccessInv'
<1> SUFFICES ASSUME AccessInv, [AccessNext]_accessVars PROVE AccessInv'
  OBVIOUS
<1>1. ASSUME NEW b \in Browsers, NEW u \in Members,
             \/ SignIn(b, u) \/ SetPassword(b, u) \/ SignUp(b, u)
             \/ VerifyBooking(b, u) \/ AdminSignIn(b, u)
      PROVE  AccessInv'
  BY <1>1, SessionsKeep
<1>2. ASSUME NEW b \in Browsers, Logout(b) \/ TurnAway(b)
      PROVE  AccessInv'
  <2>1. PICK u \in Members : TRUE
    BY <1>2 DEF Logout, TurnAway, LetIn, LoggedIn, AccessInv, AccessTypeOK, SessionRow
  <2> QED BY <1>2, <2>1, SessionsKeep
<1>3. ASSUME NEW b \in Browsers, NEW u \in Members, PasswordReset(b, u)
      PROVE  AccessInv'
  BY <1>3, AccountsKeep
<1>4. ASSUME NEW b \in Browsers, NEW u \in Members, NEW code \in Shown(u, device[u], now),
             ConfirmEnrolment(b, code)
      PROVE  AccessInv'
  <2>1. PICK v \in Members : v = Enrols(b)
    BY <1>4, EnrolsMember DEF ConfirmEnrolment
  <2>2. code \in Shown(v, device[v], now) /\ device[v].status = "pending"
    BY <1>4, <2>1 DEF ConfirmEnrolment
  <2>3. device[v] \in DeviceRow /\ device[v].secret # 0 /\ now \in 0 .. LastStep
    BY <2>2 DEF AccessInv, AccessTypeOK
  <2>4. code \in Code
    BY <2>2, <2>3, ShownCodes
  <2> QED BY <1>4, <2>1, <2>2, <2>4, ConfirmKeeps
<1>5. ASSUME NEW b \in Browsers, NEW u \in Members, LoginSerializer(b, u)
      PROVE  AccessInv'
  BY <1>5, BeginVerifyKeeps DEF LoginSerializer
<1>6. ASSUME NEW b \in Browsers, PortalMfaChallenge(b)
      PROVE  AccessInv'
  BY <1>6, BeginVerifyKeeps, EnrolsMember DEF PortalMfaChallenge
<1>7. ASSUME NEW b \in Browsers,
             \/ BeginEnrolment(b) \/ Refused(b)
             \/ \E code \in ValidCodes(b) : Verified(b, code)
      PROVE  AccessInv'
  BY <1>7, BeginEnrolmentKeeps, RefusedKeeps, VerifiedKeeps
<1>8. ASSUME NEW actor \in Staff, NEW u \in Members,
             \/ PortalStaff(actor, u) \/ ResendInvite(actor, u)
             \/ \E on \in BOOLEAN : StaffAction(actor, u, on)
      PROVE  AccessInv'
  BY <1>8, AccountsKeep
<1>9. ASSUME NEW actor \in Staff, NEW u \in Members, ResetMfa(actor, u)
      PROVE  AccessInv'
  BY <1>9, ResetKeeps
<1>10. CASE \/ \E actor \in Staff \cup {None}, u \in Members : UserProfileViewSet(actor, u)
            \/ EnsureDefaultUsers
  BY <1>10, AccountsKeep
<1>11. CASE Tick
  BY <1>11, AccessConstants DEF Tick, AccessInv, AccessTypeOK, ChecksAlone
<1>12. CASE UNCHANGED accessVars
  BY <1>12 DEF accessVars, AccessInv, AccessTypeOK, ChecksAlone
<1> QED BY <1>1, <1>2, <1>3, <1>4, <1>5, <1>6, <1>7, <1>8, <1>9, <1>10, <1>11, <1>12
        DEF AccessNext

\* Devices, codes and sessions fit each other in every reachable state.
THEOREM AccessInvariance == AccessSpec => []AccessInv
  BY AccessInitially, AccessInductive, PTL DEF AccessSpec

\* verify_mfa_code, confirm_mfa_enrollment: because the device is locked while a code is
\* compared, no code is accepted twice, in however many sessions it is typed in.
THEOREM CodesOnce == AccessSpec => []CodeAcceptedOnce
<1>1. AccessInv => CodeAcceptedOnce
  BY DEF AccessInv, CodeAcceptedOnce
<1> QED BY <1>1, AccessInvariance, PTL

\* StaffMFASessionMiddleware and the views that log in: in whatever order people sign in,
\* enrol, switch accounts, follow links, book and use the Django admin, a guarded page is
\* served to a member of staff with a device only in a session that has proven the device.
\* Nothing is said of the exempt paths: the API is one of them.
THEOREM SecondFactorProven == AccessSpec => []PortalProven
<1>1. ASSUME AccessInv PROVE PortalProven
  <2> SUFFICES ASSUME NEW path \in GuardedPrefixes, NEW b \in Browsers, LoggedIn(b) # None,
                      LetIn(b, path), HasRole(LoggedIn(b), MfaStaff),
                      device[LoggedIn(b)].status = "confirmed"
               PROVE  LoggedIn(b) \in session[b].proven
    BY DEF PortalProven, ProvenAt
  <2>1. path \notin ExemptPrefixes
    BY DEF GuardedPrefixes, ExemptPrefixes
  <2>2. session[b].verified = LoggedIn(b)
    BY <2>1 DEF LetIn, StaffMfaRequired
  <2> QED BY <1>1, <2>2 DEF AccessInv, VerifiedProven
<1> QED BY <1>1, AccessInvariance, PTL

-----------------------------------------------------------------------------
(* The closing of days *)

\* What was read of a day or a period, and still holds of it.
DayOver(d) ==
    /\ d < today
    /\ \A k \in Drawers : row[k].day <= d => row[k].over
    /\ \A s \in Sojourns :
          sojourn[s].status = "checked_in" => d < sojourn[s].out \/ sojourn[s].amended

StillTrue(r) ==
    /\ r.figures.day <= today
    /\ r.kind \in {"audit", "pack"} =>
          /\ r.end < today
          /\ r.figures.revenue = Revenue(r.end, r.end)
          /\ r.figures.expenses \subseteq Expenses(r.end)
          /\ \A s \in Sojourns :
                (s \in r.figures.rooms <=> s \in Occupied(r.end)) \/ sojourn[s].amended
    /\ r.kind = "audit" =>
          /\ DayOver(r.end)
          /\ \A s \in Sojourns : sojourn[s].status = "confirmed" => r.end < sojourn[s].in
    /\ r.kind = "tax" /\ r.end < r.figures.day => r.figures.revenue = Revenue(r.start, r.end)
    /\ r.kind = "bank" /\ r.end + 1 < r.figures.day => LedgerBalance(r.end) <= r.figures.balance

BooksInv ==
    /\ BooksTypeOK
    /\ \A s \in Sojourns :
          /\ sojourn[s].status # "none" => sojourn[s].in < sojourn[s].out
          /\ sojourn[s].amended => sojourn[s].status \in {"checked_in", "checked_out"}
    /\ \A k \in Dated : row[k].day = Never => ~row[k].over
    /\ \A r \in reports : StillTrue(r)
    /\ \A a \in Auditors :
          /\ auditor[a].step = "read" => StillTrue(auditor[a])
          /\ auditor[a].step = "begun" /\ auditor[a].kind \in {"audit", "pack"} =>
                auditor[a].start = auditor[a].end /\ auditor[a].end < today
          /\ auditor[a].step = "begun" /\ auditor[a].kind = "audit" => DayOver(auditor[a].end)

-----------------------------------------------------------------------------

AuditorRow == [kind : ReportKinds, start : Days, end : Days, step : {"idle", "begun", "read"},
               figures : Figures]

\* What happens to the dated rows: one is written, with a date of its kind, or comes to
\* its end.
RowsGo ==
    /\ row' \in [Dated -> DatedRow]
    /\ \A k \in Dated :
          \/ row'[k].day = row[k].day /\ (row[k].over => row'[k].over)
          \/ /\ row[k].day = Never /\ row'[k].day \in Days /\ row'[k].over = row[k].over
             /\ k \in Drawers \cup Postings => row'[k].day = today
             /\ k \in Tills => row'[k].day >= today - 1
    /\ \A k \in Dated : row'[k].day = Never => row'[k].over = row[k].over

LEMMA BooksConstants ==
    /\ LastDay \in Nat /\ Never \in Nat /\ Days \subseteq Nat /\ Never \notin Days
    /\ \A d \in Days : d < Never
    /\ IsFiniteSet(Sojourns) /\ IsFiniteSet(Dated)
    /\ IsFiniteSet(Postings) /\ IsFiniteSet(Tills) /\ IsFiniteSet(Bills)
    /\ Drawers \subseteq Dated /\ Postings \subseteq Dated
    /\ Tills \subseteq Dated /\ Bills \subseteq Dated
<1>1. LastDay \in Nat /\ IsFiniteSet(Sojourns) /\ IsFiniteSet(Dated)
  BY BooksAssumption
<1>2. /\ Drawers \subseteq Dated /\ Postings \subseteq Dated
      /\ Tills \subseteq Dated /\ Bills \subseteq Dated
  BY DEF Dated
<1>3. IsFiniteSet(Postings) /\ IsFiniteSet(Tills) /\ IsFiniteSet(Bills)
  BY <1>1, <1>2, FS_Subset
<1> QED BY <1>1, <1>2, <1>3 DEF Never, Days

\* The figures of a number of rows are numbers.
LEMMA Counted ==
    ASSUME NEW start, NEW end
    PROVE  /\ Revenue(start, end) \in Nat /\ LedgerBalance(end) \in Int
<1>1. IsFiniteSet({k \in Postings : Between(row[k].day, start, end)})
  BY BooksConstants, FS_Subset
<1>2. /\ IsFiniteSet({k \in Tills : row[k].day <= end /\ ~row[k].over})
      /\ IsFiniteSet({k \in Bills : row[k].day <= end /\ row[k].over})
  BY BooksConstants, FS_Subset
<1>3. /\ Cardinality({k \in Postings : Between(row[k].day, start, end)}) \in Nat
      /\ Cardinality({k \in Tills : row[k].day <= end /\ ~row[k].over}) \in Nat
      /\ Cardinality({k \in Bills : row[k].day <= end /\ row[k].over}) \in Nat
  BY <1>1, <1>2, FS_CardinalityType
<1> QED BY <1>3 DEF Revenue, LedgerBalance

LEMMA UseRowGoes == ASSUME BooksInv, UseRow PROVE RowsGo
<1>1. row \in [Dated -> DatedRow] /\ today \in Days
  BY DEF BooksInv, BooksTypeOK
<1>2. ASSUME NEW k \in Dated, NEW d \in Days, row[k].day = Never,
             row' = [row EXCEPT ![k].day = d],
             k \in Drawers \cup Postings => d = today, k \in Tills => d >= today - 1
      PROVE  RowsGo
  <2>1. PICK old \in DatedRow : row[k] = old
    BY <1>1
  <2>2. PICK new \in DatedRow : new = [old EXCEPT !.day = d]
    BY DEF DatedRow
  <2>3. new.day = d /\ new.over = old.over
    BY <2>2 DEF DatedRow
  <2>4. row' = [row EXCEPT ![k] = new]
    BY <1>2, <2>1, <2>2
  <2>5. row' \in [Dated -> DatedRow] /\ row'[k] = new /\ \A m \in Dated \ {k} : row'[m] = row[m]
    BY <1>1, <2>4
  <2>6. d # Never
    BY BooksConstants
  <2> QED BY <1>2, <2>1, <2>3, <2>5, <2>6 DEF RowsGo
<1>3. ASSUME NEW k \in Dated, EndRow(k)
      PROVE  RowsGo
  <2>1. PICK old \in DatedRow : row[k] = old /\ old.day # Never
    BY <1>1, <1>3 DEF EndRow
  <2>2. PICK new \in DatedRow : new = [old EXCEPT !.over = TRUE]
    BY DEF DatedRow
  <2>3. new.day = old.day /\ new.over
    BY <2>2 DEF DatedRow
  <2>4. row' = [row EXCEPT ![k] = new]
    BY <1>3, <2>1, <2>2 DEF EndRow
  <2>5. row' \in [Dated -> DatedRow] /\ row'[k] = new /\ \A m \in Dated \ {k} : row'[m] = row[m]
    BY <1>1, <2>4
  <2> QED BY <2>1, <2>3, <2>5 DEF RowsGo
<1>4. ASSUME NEW k \in Drawers, UseDrawer(k)
      PROVE  RowsGo
  <2>1. k \in Dated /\ k \notin Tills
    BY BooksConstants, BooksAssumption
  <2> QED BY <1>1, <1>2, <1>3, <1>4, <2>1 DEF UseDrawer, NewRow
<1>5. ASSUME NEW k \in Postings, PostCharge(k)
      PROVE  RowsGo
  <2>1. k \in Dated /\ k \notin Tills
    BY BooksConstants, BooksAssumption
  <2> QED BY <1>1, <1>2, <1>5, <2>1 DEF PostCharge, NewRow
<1>6. ASSUME NEW k \in Tills, UseTill(k)
      PROVE  RowsGo
  <2>1. k \in Dated /\ k \notin Drawers \cup Postings
    BY BooksConstants, BooksAssumption
  <2>2. \A d \in {today, today - 1} \cap Days : d >= today - 1
    BY <1>1, BooksConstants
  <2> QED BY <1>1, <1>2, <1>3, <1>6, <2>1, <2>2 DEF UseTill, NewRow
<1>7. ASSUME NEW k \in Bills, UseBill(k)
      PROVE  RowsGo
  <2>1. k \in Dated /\ k \notin Drawers \cup Postings \cup Tills
    BY BooksConstants, BooksAssumption
  <2> QED BY <1>2, <1>3, <1>7, <2>1 DEF UseBill, NewRow
<1> QED BY <1>4, <1>5, <1>6, <1>7 DEF UseRow

\* The revenue of a period that is over does not change any more.
LEMMA RevenueStays ==
    ASSUME BooksInv, RowsGo, NEW start \in Days, NEW end \in Days, end < today
    PROVE  Revenue(start, end)' = Revenue(start, end)
<1>1. /\ today \in Nat /\ end \in Nat /\ end < Never /\ Never \in Nat /\ start \in Nat
  BY BooksConstants DEF BooksInv, BooksTypeOK
<1>2. ASSUME NEW k \in Postings
      PROVE  Between(row'[k].day, start, end) <=> Between(row[k].day, start, end)
  <2>1. k \in Dated
    BY BooksConstants
  <2>2. row'[k].day = row[k].day \/ (row[k].day = Never /\ row'[k].day = today)
    BY <2>1 DEF RowsGo
  <2> QED BY <1>1, <2>2 DEF Between
<1>3. {k \in Postings : Between(row'[k].day, start, end)}
      = {k \in Postings : Between(row[k].day, start, end)}
  BY <1>2
<1> QED BY <1>3 DEF Revenue, Between

\* The balance at the end of a day that is over for a day only falls.
LEMMA BalanceFalls ==
    ASSUME BooksInv, RowsGo, NEW end \in Days, end + 1 < today
    PROVE  LedgerBalance(end)' <= LedgerBalance(end)
<1> DEFINE tills == {k \in Tills : row[k].day <= end /\ ~row[k].over}
           tillsNow == {k \in Tills : row'[k].day <= end /\ ~row'[k].over}
           bills == {k \in Bills : row[k].day <= end /\ row[k].over}
           billsNow == {k \in Bills : row'[k].day <= end /\ row'[k].over}
<1>1. /\ today \in Nat /\ end \in Nat /\ end < Never /\ Never \in Nat
  BY BooksConstants DEF BooksInv, BooksTypeOK
<1>2. row \in [Dated -> DatedRow]
  BY DEF BooksInv, BooksTypeOK
<1>3. \A k \in Dated : row[k].day \in Nat /\ row[k].over \in BOOLEAN
  BY <1>1, <1>2, BooksConstants DEF DatedRow
<1>4. ASSUME NEW k \in Tills, row'[k].day <= end, ~row'[k].over
      PROVE  row[k].day <= end /\ ~row[k].over
  <2>1. k \in Dated
    BY BooksConstants
  <2>2. CASE row'[k].day = row[k].day /\ (row[k].over => row'[k].over)
    BY <1>4, <2>2
  <2>3. CASE row'[k].day >= today - 1 /\ row'[k].day \in Days
    <3>1. row'[k].day \in Nat
      BY <2>3, BooksConstants
    <3> QED BY <1>1, <1>4, <2>3, <3>1
  <2> QED BY <1>4, <2>1, <2>2, <2>3 DEF RowsGo
<1>5. ASSUME NEW k \in Bills, row[k].day <= end, row[k].over
      PROVE  row'[k].day <= end /\ row'[k].over
  <2>1. k \in Dated /\ row[k].day # Never
    BY <1>1, <1>5, BooksConstants
  <2> QED BY <1>5, <2>1 DEF RowsGo
<1>6. /\ tillsNow \subseteq tills /\ bills \subseteq billsNow
      /\ IsFiniteSet(tills) /\ IsFiniteSet(billsNow) /\ IsFiniteSet(bills)
      /\ IsFiniteSet(tillsNow)
  <2>1. tillsNow \subseteq tills /\ bills \subseteq billsNow
    BY <1>4, <1>5
  <2>2. tills \subseteq Tills /\ tillsNow \subseteq Tills /\ billsNow \subseteq Bills
        /\ bills \subseteq Bills
    OBVIOUS
  <2> HIDE DEF tills, tillsNow, bills, billsNow
  <2> QED BY <2>1, <2>2, BooksConstants, FS_Subset
<1>7. LedgerBalance(end) = Cardinality(tills) - Cardinality(bills)
      /\ LedgerBalance(end)' = Cardinality(tillsNow) - Cardinality(billsNow)
  BY DEF LedgerBalance
<1> HIDE DEF tills, tillsNow, bills, billsNow
<1>8. Cardinality(tillsNow) <= Cardinality(tills) /\ Cardinality(bills) <= Cardinality(billsNow)
  BY <1>6, FS_Subset
<1>9. /\ Cardinality(tills) \in Nat /\ Cardinality(tillsNow) \in Nat
      /\ Cardinality(bills) \in Nat /\ Cardinality(billsNow) \in Nat
  BY <1>6, FS_CardinalityType
<1> QED BY <1>7, <1>8, <1>9

\* Both balances are numbers.
LEMMA BalanceTyped ==
    ASSUME NEW end
    PROVE  LedgerBalance(end) \in Int /\ LedgerBalance(end)' \in Int
<1>1. LedgerBalance(end) \in Int
  BY Counted
<1>2. /\ IsFiniteSet({k \in Tills : row'[k].day <= end /\ ~row'[k].over})
      /\ IsFiniteSet({k \in Bills : row'[k].day <= end /\ row'[k].over})
  BY BooksConstants, FS_Subset
<1>3. /\ Cardinality({k \in Tills : row'[k].day <= end /\ ~row'[k].over}) \in Nat
      /\ Cardinality({k \in Bills : row'[k].day <= end /\ row'[k].over}) \in Nat
  BY <1>2, FS_CardinalityType
<1> QED BY <1>1, <1>3 DEF LedgerBalance
\* What happens to a reservation: it is booked from today on, arrives on its day or before,
\* ends, or is amended; while the guest is there, that is marked.
SojournGoes(was, is) ==
    \/ is = was
    \/ /\ was.status = "none" /\ is.status = "confirmed" /\ is.amended = was.amended
       /\ today <= is.in /\ is.in < is.out
    \/ /\ was.status = "confirmed" /\ is.status \in {"confirmed", "checked_in"}
       /\ today <= is.in /\ is.in < is.out
       /\ is.amended => is.status = "checked_in"
    \/ /\ was.status = "checked_in" /\ is.status = "checked_out"
       /\ is.in = was.in /\ is.out = was.out /\ is.amended = was.amended
    \/ /\ was.status = "confirmed" /\ is.status = "gone"
       /\ is.in = was.in /\ is.out = was.out /\ is.amended = was.amended
    \/ /\ was.status = "checked_in" /\ is.status = "checked_in"
       /\ is.amended = TRUE /\ is.in < is.out

SojournsGo ==
    /\ sojourn' \in [Sojourns -> SojournRow]
    /\ \A s \in Sojourns : SojournGoes(sojourn[s], sojourn'[s])

BusinessGoes ==
    today' \in Days /\ today <= today' /\ RowsGo /\ SojournsGo

LEMMA SojournTyped ==
    ASSUME NEW rec \in SojournRow
    PROVE  /\ rec.in \in Nat /\ rec.out \in Nat /\ rec.amended \in BOOLEAN
           /\ rec.status \in {"none", "confirmed", "checked_in", "checked_out", "gone"}
  BY BooksConstants DEF SojournRow

LEMMA SojournStepGoes ==
    ASSUME BooksInv, NEW s \in Sojourns, NEW new \in SojournRow, SojournStep(s, new),
           SojournGoes(sojourn[s], new)
    PROVE  SojournsGo
<1>1. sojourn \in [Sojourns -> SojournRow] /\ sojourn' = [sojourn EXCEPT ![s] = new]
  BY DEF BooksInv, BooksTypeOK, SojournStep
<1>2. sojourn' \in [Sojourns -> SojournRow]
  BY <1>1
<1>3. \A o \in Sojourns : SojournGoes(sojourn[o], sojourn'[o])
  BY <1>1 DEF SojournGoes
<1> QED BY <1>2, <1>3 DEF SojournsGo

LEMMA SojournActions ==
    ASSUME BooksInv, NEW s \in Sojourns, NEW in \in Days, NEW out \in Days,
           Arrive(s) \/ Depart(s) \/ BookSojourn(s, in, out) \/ AmendSojourn(s, in, out)
    PROVE  SojournsGo /\ UNCHANGED <<today, row, reports, auditor>>
<1>1. UNCHANGED <<today, row, reports, auditor>>
  BY DEF Arrive, Depart, BookSojourn, AmendSojourn, SojournStep
<1>2. PICK old \in SojournRow : old = sojourn[s]
  BY DEF BooksInv, BooksTypeOK
<1>3. /\ old.status # "none" => old.in < old.out
      /\ old.amended => old.status \in {"checked_in", "checked_out"}
  BY <1>2 DEF BooksInv
<1>4. CASE Arrive(s)
  <2>1. PICK new \in SojournRow : new = [old EXCEPT !.status = "checked_in"]
    BY DEF SojournRow
  <2>2. /\ new.status = "checked_in" /\ new.in = old.in /\ new.out = old.out
        /\ new.amended = old.amended
    BY <2>1 DEF SojournRow
  <2>3. SojournStep(s, new) /\ old.status = "confirmed" /\ today <= old.in
    BY <1>2, <1>4, <2>1 DEF Arrive
  <2> QED BY <1>1, <1>2, <1>3, <2>2, <2>3, SojournStepGoes DEF SojournGoes
<1>5. CASE Depart(s) /\ old.status = "checked_in"
  <2>1. PICK new \in SojournRow : new = [old EXCEPT !.status = "checked_out"]
    BY DEF SojournRow
  <2>2. /\ new.status = "checked_out" /\ new.in = old.in /\ new.out = old.out
        /\ new.amended = old.amended
    BY <2>1 DEF SojournRow
  <2>3. SojournStep(s, new)
    BY <1>2, <1>5, <2>1 DEF Depart
  <2> QED BY <1>1, <1>2, <1>5, <2>2, <2>3, SojournStepGoes DEF SojournGoes
<1>6. CASE Depart(s) /\ old.status = "confirmed"
  <2>1. PICK new \in SojournRow : new = [old EXCEPT !.status = "gone"]
    BY DEF SojournRow
  <2>2. /\ new.status = "gone" /\ new.in = old.in /\ new.out = old.out
        /\ new.amended = old.amended
    BY <2>1 DEF SojournRow
  <2>3. SojournStep(s, new)
    BY <1>2, <1>6, <2>1 DEF Depart
  <2> QED BY <1>1, <1>2, <1>6, <2>2, <2>3, SojournStepGoes DEF SojournGoes
<1>7. CASE BookSojourn(s, in, out)
  <2>1. PICK new \in SojournRow :
          new = [old EXCEPT !.status = "confirmed", !.in = in, !.out = out]
    BY DEF SojournRow
  <2>2. /\ new.status = "confirmed" /\ new.in = in /\ new.out = out
        /\ new.amended = old.amended
    BY <2>1 DEF SojournRow
  <2>3. SojournStep(s, new) /\ old.status = "none" /\ today <= in /\ in < out
    BY <1>2, <1>7, <2>1 DEF BookSojourn
  <2> QED BY <1>1, <1>2, <2>2, <2>3, SojournStepGoes DEF SojournGoes
<1>8. CASE AmendSojourn(s, in, out)
  <2>1. PICK here \in BOOLEAN : here = (old.status = "checked_in")
    OBVIOUS
  <2>2. PICK new \in SojournRow : new = [old EXCEPT !.in = in, !.out = out, !.amended = here]
    BY DEF SojournRow
  <2>3. new.status = old.status /\ new.in = in /\ new.out = out /\ new.amended = here
    BY <2>2 DEF SojournRow
  <2>4. /\ SojournStep(s, new) /\ in < out
        /\ old.status = "checked_in" \/ (old.status = "confirmed" /\ today <= in)
    BY <1>2, <1>8, <2>1, <2>2 DEF AmendSojourn
  <2> QED BY <1>1, <1>2, <1>3, <2>1, <2>3, <2>4, SojournStepGoes DEF SojournGoes
<1>9. Depart(s) => old.status \in {"checked_in", "confirmed"}
  BY <1>2 DEF Depart
<1> QED BY <1>4, <1>5, <1>6, <1>7, <1>8, <1>9

-----------------------------------------------------------------------------
(* What has been found of a day stays true *)

LEMMA DayStays ==
    ASSUME BooksInv, BusinessGoes, NEW d \in Days, DayOver(d)
    PROVE  DayOver(d)'
<1>1. /\ today \in Nat /\ today' \in Nat /\ today <= today' /\ d \in Nat /\ d < today
      /\ d < Never /\ Never \in Nat
  BY BooksConstants DEF BooksInv, BooksTypeOK, BusinessGoes, DayOver
<1>2. ASSUME NEW k \in Drawers, row'[k].day <= d
      PROVE  row'[k].over
  <2>1. k \in Dated
    BY BooksConstants
  <2>2. CASE row'[k].day = row[k].day /\ (row[k].over => row'[k].over)
    BY <1>2, <2>2 DEF DayOver
  <2>3. CASE row'[k].day = today
    BY <1>1, <1>2, <2>3
  <2> QED BY <2>1, <2>2, <2>3 DEF BusinessGoes, RowsGo
<1>3. ASSUME NEW s \in Sojourns, sojourn'[s].status = "checked_in"
      PROVE  d < sojourn'[s].out \/ sojourn'[s].amended
  <2>1. PICK was \in SojournRow : was = sojourn[s]
    BY DEF BooksInv, BooksTypeOK
  <2>2. PICK is \in SojournRow : is = sojourn'[s]
    BY DEF BusinessGoes, SojournsGo
  <2>3. SojournGoes(was, is) /\ is.status = "checked_in"
    BY <1>3, <2>1, <2>2 DEF BusinessGoes, SojournsGo
  <2>4. is.in \in Nat /\ is.out \in Nat
    BY SojournTyped
  <2>5. was.status = "checked_in" => d < was.out \/ was.amended
    BY <2>1 DEF DayOver
  <2>6. d < is.out \/ is.amended
    BY <1>1, <2>3, <2>4, <2>5 DEF SojournGoes
  <2> QED BY <2>2, <2>6
<1> QED BY <1>1, <1>2, <1>3 DEF DayOver

\* Who slept there in a night that is over, unless an amendment says otherwise.
LEMMA NightStays ==
    ASSUME BooksInv, BusinessGoes, NEW d \in Days, d < today, NEW s \in Sojourns
    PROVE  sojourn'[s].amended \/ (~sojourn[s].amended /\ (s \in Occupied(d)' <=> s \in Occupied(d)))
<1>1. /\ today \in Nat /\ d \in Nat
  BY BooksConstants DEF BooksInv, BooksTypeOK
<1>2. PICK was \in SojournRow : was = sojourn[s]
  BY DEF BooksInv, BooksTypeOK
<1>3. PICK is \in SojournRow : is = sojourn'[s]
  BY DEF BusinessGoes, SojournsGo
<1>4. SojournGoes(was, is)
  BY <1>2, <1>3 DEF BusinessGoes, SojournsGo
<1>5. /\ was.amended => was.status \in {"checked_in", "checked_out"}
      /\ was.status # "none" => was.in < was.out
  BY <1>2 DEF BooksInv
<1>6. /\ s \in Occupied(d) <=> /\ was.status \in {"checked_in", "checked_out"}
                               /\ was.in <= d /\ d < was.out
      /\ s \in Occupied(d)' <=> /\ is.status \in {"checked_in", "checked_out"}
                                /\ is.in <= d /\ d < is.out
  BY <1>2, <1>3 DEF Occupied
<1>7. is.amended \/ (~was.amended /\ (s \in Occupied(d)' <=> s \in Occupied(d)))
  BY <1>1, <1>4, <1>5, <1>6, SojournTyped DEF SojournGoes
<1> QED BY <1>2, <1>3, <1>7

\* Fields that reports and open transactions share.
ReportTyped(r) ==
    r.kind \in ReportKinds /\ r.start \in Days /\ r.end \in Days /\ r.figures \in Figures

LEMMA FiguresStay ==
    ASSUME BooksInv, BusinessGoes, NEW r, ReportTyped(r), StillTrue(r)
    PROVE  StillTrue(r)'
<1>1. PICK figures \in Figures : figures = r.figures
  BY DEF ReportTyped
<1>2. /\ figures.day \in Days /\ figures.revenue \in Nat /\ figures.balance \in Int
      /\ figures.rooms \subseteq Sojourns /\ figures.expenses \subseteq Bills
  BY DEF Figures
<1>3. /\ today \in Nat /\ today' \in Nat /\ today <= today' /\ r.end \in Nat
      /\ r.end \in Days /\ r.start \in Days /\ figures.day \in Nat
      /\ figures.day <= today /\ r.end < Never /\ Never \in Nat
  BY <1>1, <1>2, BooksConstants
     DEF BooksInv, BooksTypeOK, BusinessGoes, ReportTyped, StillTrue
<1>4. figures.day <= today'
  BY <1>3
<1>5. CASE r.kind \in {"audit", "pack"}
  <2>1. /\ r.end < today /\ figures.revenue = Revenue(r.end, r.end)
        /\ figures.expenses \subseteq Expenses(r.end)
        /\ \A s \in Sojourns :
              (s \in figures.rooms <=> s \in Occupied(r.end)) \/ sojourn[s].amended
    BY <1>1, <1>5 DEF StillTrue
  <2>2. r.end < today' /\ figures.revenue = Revenue(r.end, r.end)'
    BY <1>3, <2>1, RevenueStays DEF BusinessGoes
  <2>3. figures.expenses \subseteq Expenses(r.end)'
    <3> SUFFICES ASSUME NEW k \in figures.expenses PROVE k \in Expenses(r.end)'
      OBVIOUS
    <3>1. k \in Bills /\ k \in Dated /\ row[k].day = r.end /\ row[k].over
      BY <1>2, <2>1, BooksConstants DEF Expenses
    <3>2. row[k].day # Never
      BY <1>3, <3>1
    <3>3. row'[k].day = r.end /\ row'[k].over
      BY <3>1, <3>2 DEF BusinessGoes, RowsGo
    <3> QED BY <3>1, <3>3 DEF Expenses
  <2>4. \A s \in Sojourns :
           (s \in figures.rooms <=> s \in Occupied(r.end)') \/ sojourn'[s].amended
    BY <1>3, <2>1, NightStays
  <2>5. r.kind = "audit" =>
           /\ DayOver(r.end)'
           /\ \A s \in Sojourns : sojourn'[s].status = "confirmed" => r.end < sojourn'[s].in
    <3> SUFFICES ASSUME r.kind = "audit"
                 PROVE  /\ DayOver(r.end)'
                        /\ \A s \in Sojourns :
                              sojourn'[s].status = "confirmed" => r.end < sojourn'[s].in
      OBVIOUS
    <3>1. DayOver(r.end)'
      <4>1. PICK d \in Days : d = r.end
        BY <1>3
      <4>2. DayOver(d)
        BY <4>1 DEF StillTrue
      <4>3. DayOver(d)'
        BY <4>2, DayStays
      <4> QED BY <4>1, <4>3 DEF DayOver
    <3>2. ASSUME NEW s \in Sojourns, sojourn'[s].status = "confirmed"
          PROVE  r.end < sojourn'[s].in
      <4>1. PICK was \in SojournRow : was = sojourn[s]
        BY DEF BooksInv, BooksTypeOK
      <4>2. PICK is \in SojournRow : is = sojourn'[s]
        BY DEF BusinessGoes, SojournsGo
      <4>3. SojournGoes(was, is) /\ is.status = "confirmed"
        BY <3>2, <4>1, <4>2 DEF BusinessGoes, SojournsGo
      <4>4. was.status = "confirmed" => r.end < was.in
        BY <4>1 DEF StillTrue
      <4>5. r.end < is.in
        BY <1>3, <2>1, <4>3, <4>4, SojournTyped DEF SojournGoes
      <4> QED BY <4>2, <4>5
    <3> QED BY <3>1, <3>2
  <2> QED BY <1>1, <1>4, <1>5, <2>2, <2>3, <2>4, <2>5 DEF StillTrue, DayOver
<1>6. CASE r.kind = "tax"
  <2>1. r.end < figures.day => figures.revenue = Revenue(r.start, r.end)'
    <3> SUFFICES ASSUME r.end < figures.day PROVE figures.revenue = Revenue(r.start, r.end)'
      OBVIOUS
    <3>1. figures.revenue = Revenue(r.start, r.end) /\ r.end < today
      BY <1>1, <1>3, <1>6 DEF StillTrue
    <3>2. Revenue(r.start, r.end)' = Revenue(r.start, r.end)
      BY <1>3, <3>1, RevenueStays DEF BusinessGoes
    <3> QED BY <3>1, <3>2
  <2> QED BY <1>1, <1>4, <1>6, <2>1 DEF StillTrue
<1>7. CASE r.kind = "bank"
  <2>1. ASSUME r.end + 1 < figures.day
        PROVE  LedgerBalance(r.end)' <= figures.balance
    <3>1. r.end + 1 < today /\ LedgerBalance(r.end) <= figures.balance
      BY <1>1, <1>3, <1>7, <2>1 DEF StillTrue
    <3>2. LedgerBalance(r.end)' <= LedgerBalance(r.end)
      BY <1>3, <3>1, BalanceFalls DEF BusinessGoes
    <3>3. LedgerBalance(r.end) \in Int /\ LedgerBalance(r.end)' \in Int
      BY BalanceTyped DEF BusinessGoes
    <3> QED BY <1>2, <3>1, <3>2, <3>3
  <2> QED BY <1>1, <1>4, <1>7, <2>1 DEF StillTrue
<1> QED BY <1>5, <1>6, <1>7 DEF ReportTyped, ReportKinds
\* A step of the business leaves what the reports and the open transactions say true.
LEMMA BusinessKeeps ==
    ASSUME BooksInv, BusinessGoes, UNCHANGED <<reports, auditor>>
    PROVE  BooksInv'
<1>1. BooksTypeOK'
  BY DEF BooksInv, BooksTypeOK, BusinessGoes, RowsGo, SojournsGo
<1>2. ASSUME NEW s \in Sojourns
      PROVE  /\ sojourn'[s].status # "none" => sojourn'[s].in < sojourn'[s].out
             /\ sojourn'[s].amended => sojourn'[s].status \in {"checked_in", "checked_out"}
  <2>1. PICK was \in SojournRow : was = sojourn[s]
    BY DEF BooksInv, BooksTypeOK
  <2>2. PICK is \in SojournRow : is = sojourn'[s]
    BY DEF BusinessGoes, SojournsGo
  <2>3. SojournGoes(was, is)
    BY <2>1, <2>2 DEF BusinessGoes, SojournsGo
  <2>4. /\ was.status # "none" => was.in < was.out
        /\ was.amended => was.status \in {"checked_in", "checked_out"}
    BY <2>1 DEF BooksInv
  <2>5. /\ is.status # "none" => is.in < is.out
        /\ is.amended => is.status \in {"checked_in", "checked_out"}
    BY <2>3, <2>4, SojournTyped DEF SojournGoes
  <2> QED BY <2>2, <2>5
<1>3. \A k \in Dated : row'[k].day = Never => ~row'[k].over
  BY BooksConstants DEF BooksInv, BusinessGoes, RowsGo
<1>4. ASSUME NEW r \in reports PROVE StillTrue(r)'
  <2>1. ReportTyped(r) /\ StillTrue(r)
    BY <1>4 DEF BooksInv, BooksTypeOK, ReportRow, ReportTyped
  <2> QED BY <2>1, FiguresStay
<1>5. ASSUME NEW a \in Auditors
      PROVE  /\ auditor[a].step = "read" => StillTrue(auditor[a])'
             /\ auditor[a].step = "begun" /\ auditor[a].kind \in {"audit", "pack"} =>
                   auditor[a].start = auditor[a].end /\ auditor[a].end < today'
             /\ auditor[a].step = "begun" /\ auditor[a].kind = "audit" => DayOver(auditor[a].end)'
  <2>1. PICK r \in AuditorRow : r = auditor[a]
    BY DEF BooksInv, BooksTypeOK, AuditorRow
  <2>2. ReportTyped(r)
    BY DEF AuditorRow, ReportTyped
  <2>3. r.step = "read" => StillTrue(r)'
    BY <2>1, <2>2, FiguresStay DEF BooksInv
  <2>4. r.step = "begun" /\ r.kind \in {"audit", "pack"} => r.start = r.end /\ r.end < today
    BY <2>1 DEF BooksInv
  <2>5. r.step = "begun" /\ r.kind \in {"audit", "pack"} => r.end < today'
    BY <2>2, <2>4, BooksConstants DEF BooksInv, BooksTypeOK, BusinessGoes, ReportTyped
  <2>6. r.step = "begun" /\ r.kind = "audit" => DayOver(r.end)'
    <3> SUFFICES ASSUME r.step = "begun", r.kind = "audit" PROVE DayOver(r.end)'
      OBVIOUS
    <3>1. PICK d \in Days : d = r.end
      BY <2>2 DEF ReportTyped
    <3>2. DayOver(d)
      BY <2>1, <3>1 DEF BooksInv
    <3>3. DayOver(d)'
      BY <3>2, DayStays
    <3> QED BY <3>1, <3>3 DEF DayOver
  <2>7. auditor'[a] = r
    BY <2>1
  <2> QED BY <2>1, <2>3, <2>4, <2>5, <2>6, <2>7 DEF StillTrue, DayOver
<1> QED BY <1>1, <1>2, <1>3, <1>4, <1>5 DEF BooksInv

-----------------------------------------------------------------------------
(* Reports *)

\* What a step of one transaction has to show.
AuditorFine(r) ==
    /\ r.step = "read" => StillTrue(r)
    /\ r.step = "begun" /\ r.kind \in {"audit", "pack"} => r.start = r.end /\ r.end < today
    /\ r.step = "begun" /\ r.kind = "audit" => DayOver(r.end)

LEMMA AuditorStep ==
    ASSUME BooksInv, NEW a \in Auditors, NEW r \in AuditorRow, AuditorFine(r),
           auditor' = [auditor EXCEPT ![a] = r], UnchangedBusiness,
           reports' \subseteq ReportRow, \A rep \in reports' : StillTrue(rep)
    PROVE  BooksInv'
<1>1. auditor \in [Auditors -> AuditorRow]
  BY DEF BooksInv, BooksTypeOK, AuditorRow
<1>2. BooksTypeOK'
  BY <1>1 DEF BooksInv, BooksTypeOK, AuditorRow, UnchangedBusiness
<1>3. \A o \in Auditors : AuditorFine(auditor[o])
  BY DEF BooksInv, AuditorFine
<1>4. \A o \in Auditors : AuditorFine(auditor'[o])
  BY <1>1, <1>3
<1>5. /\ today' = today /\ row' = row /\ sojourn' = sojourn
  BY DEF UnchangedBusiness
<1>6. ASSUME NEW x PROVE (StillTrue(x) => StillTrue(x)') /\ (AuditorFine(x) => AuditorFine(x)')
  BY <1>5 DEF StillTrue, AuditorFine, DayOver, Revenue, Occupied, Expenses, LedgerBalance
<1>7. \A rep \in reports' : StillTrue(rep)'
  BY <1>6
<1>8. ASSUME NEW o \in Auditors
      PROVE  AuditorFine(auditor[o])'
  <2>1. PICK x : x = auditor'[o]
    OBVIOUS
  <2>2. AuditorFine(x)'
    BY <1>4, <1>6, <2>1
  <2> QED BY <2>1, <2>2 DEF AuditorFine, StillTrue, DayOver
<1> QED BY <1>2, <1>5, <1>7, <1>8 DEF BooksInv, AuditorFine

LEMMA NoReportTyped ==
    NoFigures \in Figures /\ Unread \in AuditorRow /\ AuditorFine(Unread)
<1>1. 0 \in Days
  BY BooksConstants DEF Days
<1>2. NoFigures \in Figures
  BY <1>1 DEF NoFigures, Figures
<1> QED BY <1>1, <1>2 DEF Unread, AuditorRow, AuditorFine, ReportKinds

LEMMA BeginKeepsBooks ==
    ASSUME BooksInv, NEW a \in Auditors, NEW kind \in ReportKinds, NEW start \in Days,
           NEW end \in Days, BeginReport(a, kind, start, end),
           kind \in {"audit", "pack"} => start = end /\ end < today,
           kind = "audit" => DayOver(end)
    PROVE  BooksInv'
<1> DEFINE begun == [kind |-> kind, start |-> start, end |-> end, step |-> "begun",
                     figures |-> NoFigures]
<1>1. /\ auditor' = [auditor EXCEPT ![a] = begun] /\ UnchangedBusiness
      /\ reports' = reports
  BY DEF BeginReport
<1>2. begun \in AuditorRow /\ AuditorFine(begun)
  BY NoReportTyped DEF AuditorRow, AuditorFine
<1> HIDE DEF begun
<1> QED BY <1>1, <1>2, AuditorStep DEF BooksInv, BooksTypeOK

LEMMA BeginsKeep ==
    ASSUME BooksInv, NEW a \in Auditors, NEW start \in Days, NEW end \in Days,
           \/ BeginAudit(a, end) \/ BeginPack(a, end)
           \/ BeginTax(a, start, end) \/ BeginBank(a, start, end)
    PROVE  BooksInv'
<1>1. CASE BeginAudit(a, end)
  <2>1. DayOver(end)
    BY <1>1 DEF BeginAudit, DayOver
  <2> QED BY <1>1, <2>1, BeginKeepsBooks DEF BeginAudit, ReportKinds
<1>2. CASE BeginPack(a, end)
  BY <1>2, BeginKeepsBooks DEF BeginPack, ReportKinds
<1>3. CASE BeginTax(a, start, end)
  BY <1>3, BeginKeepsBooks DEF BeginTax, ReportKinds
<1>4. CASE BeginBank(a, start, end)
  BY <1>4, BeginKeepsBooks DEF BeginBank, ReportKinds
<1> QED BY <1>1, <1>2, <1>3, <1>4

\* The figures that a transaction has read are true in that moment.
LEMMA ReadKeeps ==
    ASSUME BooksInv, NEW a \in Auditors, NEW kind \in ReportKinds, NEW figures \in Figures,
           ReadFigures(a, kind, figures),
           \A old \in AuditorRow : old = auditor[a] /\ old.kind = kind =>
              \A r \in AuditorRow :
                 /\ r.kind = kind /\ r.start = old.start /\ r.end = old.end
                 /\ r.figures.day = today /\ r.figures.rooms = figures.rooms
                 /\ r.figures.revenue = figures.revenue
                 /\ r.figures.expenses = figures.expenses
                 /\ r.figures.balance = figures.balance
                 => StillTrue(r)
    PROVE  BooksInv'
<1>1. PICK old \in AuditorRow : old = auditor[a] /\ old.kind = kind /\ old.step = "begun"
  BY DEF ReadFigures, BooksInv, BooksTypeOK, AuditorRow
<1>2. today \in Days
  BY DEF BooksInv, BooksTypeOK
<1>3. PICK dated \in Figures : dated = [figures EXCEPT !.day = today]
  BY <1>2 DEF Figures
<1>4. /\ dated.day = today /\ dated.rooms = figures.rooms /\ dated.revenue = figures.revenue
      /\ dated.expenses = figures.expenses /\ dated.balance = figures.balance
  BY <1>3 DEF Figures
<1>5. PICK r \in AuditorRow : r = [old EXCEPT !.step = "read", !.figures = dated]
  BY DEF AuditorRow
<1>6. /\ r.step = "read" /\ r.figures = dated /\ r.kind = kind /\ r.start = old.start
      /\ r.end = old.end
  BY <1>1, <1>5 DEF AuditorRow
<1>7. AuditorFine(r)
  BY <1>1, <1>4, <1>6 DEF AuditorFine
<1>8. auditor' = [auditor EXCEPT ![a] = r] /\ UnchangedBusiness /\ reports' = reports
  BY <1>1, <1>3, <1>5 DEF ReadFigures
<1> QED BY <1>7, <1>8, AuditorStep DEF BooksInv, BooksTypeOK

LEMMA MetricsTyped ==
    ASSUME BooksInv, NEW d \in Days
    PROVE  /\ DailyMetrics(d) \in Figures
           /\ DailyMetrics(d).rooms = Occupied(d) /\ DailyMetrics(d).revenue = Revenue(d, d)
           /\ DailyMetrics(d).expenses = Expenses(d)
<1>1. Occupied(d) \subseteq Sojourns /\ Expenses(d) \subseteq Bills /\ Revenue(d, d) \in Nat
  BY Counted DEF Occupied, Expenses
<1>2. PICK rooms \in SUBSET Sojourns : rooms = Occupied(d)
  BY <1>1
<1>3. PICK expenses \in SUBSET Bills : expenses = Expenses(d)
  BY <1>1
<1>4. PICK revenue \in Nat : revenue = Revenue(d, d)
  BY <1>1
<1>5. PICK empty \in Figures : empty = NoFigures
  BY NoReportTyped
<1>6. PICK first \in Figures : first = [empty EXCEPT !.rooms = rooms]
  BY DEF Figures
<1>7. PICK second \in Figures : second = [first EXCEPT !.revenue = revenue]
  BY DEF Figures
<1>8. PICK third \in Figures : third = [second EXCEPT !.expenses = expenses]
  BY DEF Figures
<1>9. first.rooms = rooms
  BY <1>6 DEF Figures
<1>10. second.rooms = rooms /\ second.revenue = revenue
  BY <1>7, <1>9 DEF Figures
<1>11. third.rooms = rooms /\ third.revenue = revenue /\ third.expenses = expenses
  BY <1>8, <1>10 DEF Figures
<1>12. DailyMetrics(d) = third
  BY <1>2, <1>3, <1>4, <1>5, <1>6, <1>7, <1>8 DEF DailyMetrics
<1> QED BY <1>2, <1>3, <1>4, <1>11, <1>12

LEMMA ReadMetricsKeeps ==
    ASSUME BooksInv, NEW a \in Auditors, ReadAudit(a) \/ ReadPack(a)
    PROVE  BooksInv'
<1>1. PICK old \in AuditorRow :
        /\ old = auditor[a] /\ old.step = "begun" /\ old.kind \in {"audit", "pack"}
        /\ ReadFigures(a, old.kind, DailyMetrics(old.start))
        /\ old.kind = "audit" =>
              \A s \in Sojourns : sojourn[s].status = "confirmed" => old.start < sojourn[s].in
  BY DEF ReadAudit, ReadPack, ReadFigures, BooksInv, BooksTypeOK, AuditorRow
<1>2. /\ old.start = old.end /\ old.end < today /\ old.start \in Days /\ today \in Days
      /\ old.kind = "audit" => DayOver(old.end)
  BY <1>1 DEF BooksInv, BooksTypeOK, AuditorRow
<1>3. /\ DailyMetrics(old.start) \in Figures
      /\ DailyMetrics(old.start).rooms = Occupied(old.start)
      /\ DailyMetrics(old.start).revenue = Revenue(old.start, old.start)
      /\ DailyMetrics(old.start).expenses = Expenses(old.start)
  BY <1>2, MetricsTyped
<1>4. ASSUME NEW r \in AuditorRow, r.kind = old.kind, r.start = old.start, r.end = old.end,
             r.figures.day = today, r.figures.rooms = Occupied(old.start),
             r.figures.revenue = Revenue(old.start, old.start),
             r.figures.expenses = Expenses(old.start)
      PROVE  StillTrue(r)
  <2>1. today <= today
    BY <1>2, BooksConstants
  <2> QED BY <1>1, <1>2, <1>4, <2>1 DEF StillTrue
<1> QED BY <1>1, <1>3, <1>4, ReadKeeps DEF ReportKinds

LEMMA ReadTaxKeeps ==
    ASSUME BooksInv, NEW a \in Auditors, ReadTax(a)
    PROVE  BooksInv'
<1>1. PICK old \in AuditorRow : old = auditor[a]
  BY DEF BooksInv, BooksTypeOK, AuditorRow
<1>2. PICK sum \in Nat : sum = Revenue(old.start, old.end)
  BY Counted
<1>3. PICK empty \in Figures : empty = NoFigures
  BY NoReportTyped
<1>4. PICK figures \in Figures : figures = [empty EXCEPT !.revenue = sum]
  BY DEF Figures
<1>5. figures.revenue = sum
  BY <1>4 DEF Figures
<1>6. ReadFigures(a, "tax", figures)
  BY <1>1, <1>2, <1>3, <1>4 DEF ReadTax
<1>7. ASSUME NEW r \in AuditorRow, r.kind = "tax", r.start = old.start, r.end = old.end,
             r.figures.day = today, r.figures.revenue = sum
      PROVE  StillTrue(r)
  <2>1. today <= today
    BY BooksConstants DEF BooksInv, BooksTypeOK
  <2> QED BY <1>2, <1>7, <2>1 DEF StillTrue
<1> QED BY <1>1, <1>5, <1>6, <1>7, ReadKeeps DEF ReportKinds

LEMMA ReadBankKeeps ==
    ASSUME BooksInv, NEW a \in Auditors, ReadBank(a)
    PROVE  BooksInv'
<1>1. PICK old \in AuditorRow : old = auditor[a]
  BY DEF BooksInv, BooksTypeOK, AuditorRow
<1>2. PICK sum \in Int : sum = LedgerBalance(old.end)
  BY Counted
<1>3. PICK empty \in Figures : empty = NoFigures
  BY NoReportTyped
<1>4. PICK figures \in Figures : figures = [empty EXCEPT !.balance = sum]
  BY DEF Figures
<1>5. figures.balance = sum
  BY <1>4 DEF Figures
<1>6. ReadFigures(a, "bank", figures)
  BY <1>1, <1>2, <1>3, <1>4 DEF ReadBank
<1>7. ASSUME NEW r \in AuditorRow, r.kind = "bank", r.start = old.start, r.end = old.end,
             r.figures.day = today, r.figures.balance = sum
      PROVE  StillTrue(r)
  <2>1. today <= today /\ sum <= sum
    BY BooksConstants DEF BooksInv, BooksTypeOK
  <2> QED BY <1>2, <1>7, <2>1 DEF StillTrue
<1> QED BY <1>1, <1>5, <1>6, <1>7, ReadKeeps DEF ReportKinds

LEMMA InsertKeeps ==
    ASSUME BooksInv, NEW a \in Auditors, InsertReport(a)
    PROVE  BooksInv'
<1>1. PICK r \in AuditorRow : r = auditor[a] /\ r.step = "read"
  BY DEF InsertReport, BooksInv, BooksTypeOK, AuditorRow
<1> DEFINE rep == [kind |-> r.kind, start |-> r.start, end |-> r.end, figures |-> r.figures]
<1>2. reports' = reports \cup {rep} /\ UnchangedBusiness
      /\ auditor' = [auditor EXCEPT ![a] = Unread]
  BY <1>1 DEF InsertReport
<1>3. rep \in ReportRow
  BY DEF AuditorRow, ReportRow
<1>4. StillTrue(rep)
  <2>1. StillTrue(r)
    BY <1>1 DEF BooksInv
  <2>2. rep.kind = r.kind /\ rep.start = r.start /\ rep.end = r.end /\ rep.figures = r.figures
    OBVIOUS
  <2> HIDE DEF rep
  <2> QED BY <2>1, <2>2 DEF StillTrue
<1> HIDE DEF rep
<1> QED BY <1>2, <1>3, <1>4, NoReportTyped, AuditorStep DEF BooksInv, BooksTypeOK

LEMMA DropKeeps ==
    ASSUME BooksInv, NEW a \in Auditors, DropReport(a)
    PROVE  BooksInv'
  BY NoReportTyped, AuditorStep DEF DropReport, BooksInv, BooksTypeOK

-----------------------------------------------------------------------------

LEMMA BooksInitially == BooksInit => BooksInv
<1> SUFFICES ASSUME BooksInit PROVE BooksInv
  OBVIOUS
<1>1. 0 \in Days
  BY BooksConstants DEF Days
<1>2. BooksTypeOK
  BY <1>1, NoReportTyped DEF BooksInit, BooksTypeOK, SojournRow, DatedRow, AuditorRow
<1> QED BY <1>2 DEF BooksInit, BooksInv, Unread

\* Nothing goes on with the rows or the reservations.
LEMMA NothingGoes ==
    ASSUME BooksInv
    PROVE  (row' = row => RowsGo) /\ (sojourn' = sojourn => SojournsGo)
  BY DEF BooksInv, BooksTypeOK, RowsGo, SojournsGo, SojournGoes

LEMMA BooksInductive == BooksInv /\ [BooksNext]_booksVars => BooksInv'
<1> SUFFICES ASSUME BooksInv, [BooksNext]_booksVars PROVE BooksInv'
  OBVIOUS
<1>0. today \in Days /\ today \in Nat /\ today <= today
  BY BooksConstants DEF BooksInv, BooksTypeOK
<1>1. CASE NextDay
  <2>1. today' \in Days /\ today <= today'
    BY <1>0, <1>1, BooksConstants DEF NextDay, Days
  <2> QED BY <1>1, <2>1, NothingGoes, BusinessKeeps DEF NextDay, BusinessGoes
<1>2. ASSUME NEW s \in Sojourns, NEW in \in Days, NEW out \in Days,
             Arrive(s) \/ Depart(s) \/ BookSojourn(s, in, out) \/ AmendSojourn(s, in, out)
      PROVE  BooksInv'
  BY <1>0, <1>2, SojournActions, NothingGoes, BusinessKeeps DEF BusinessGoes
<1>3. CASE UseRow
  <2>1. RowsGo /\ UNCHANGED <<today, sojourn, reports, auditor>>
    BY <1>3, UseRowGoes DEF UseRow
  <2> QED BY <1>0, <2>1, NothingGoes, BusinessKeeps DEF BusinessGoes
<1>4. ASSUME NEW a \in Auditors, NEW d \in Days,
             BeginPack(a, d) \/ \E u \in Staff : PortalNightAudit(a, u, d)
      PROVE  BooksInv'
  BY <1>4, BeginsKeep DEF PortalNightAudit
<1>5. ASSUME NEW a \in Auditors, NEW u \in Staff, NEW start \in Days, NEW end \in Days,
             PortalFinanceControls(a, u, start, end)
      PROVE  BooksInv'
  BY <1>5, BeginsKeep DEF PortalFinanceControls
<1>6. ASSUME NEW a \in Auditors,
             \/ ReadAudit(a) \/ ReadPack(a) \/ ReadTax(a) \/ ReadBank(a)
             \/ InsertReport(a) \/ DropReport(a)
      PROVE  BooksInv'
  BY <1>6, ReadMetricsKeeps, ReadTaxKeeps, ReadBankKeeps, InsertKeeps, DropKeeps
<1>7. CASE UNCHANGED booksVars
  BY <1>0, <1>7, NothingGoes, BusinessKeeps DEF booksVars, BusinessGoes
<1>8. ASSUME NEW s \in Sojourns, Arrive(s) \/ Depart(s)
      PROVE  BooksInv'
  BY <1>0, <1>2, <1>8
<1> QED BY <1>1, <1>2, <1>3, <1>4, <1>5, <1>6, <1>7, <1>8 DEF BooksNext

\* What was read of a day and what was written of it stay true.
THEOREM BooksInvariance == BooksSpec => []BooksInv
  BY BooksInitially, BooksInductive, PTL DEF BooksSpec

\* run_night_audit, generate_management_pack, prepare_tax_liability and
\* reconcile_bank_account: although none of them locks anything, a day that was closed
\* stays closed, whatever is booked, amended, charged, paid and refunded in between and
\* afterwards.
THEOREM ClosedForGood == BooksSpec => []ClosedDaysHold
<1>1. ASSUME BooksInv, NEW r \in reports
      PROVE  StillTrue(r)
  BY <1>1 DEF BooksInv
<1>2. BooksInv => ClosedDaysHold
  BY <1>1 DEF ClosedDaysHold, StillTrue, DayOver
<1> QED BY <1>2, BooksInvariance, PTL

=============================================================================
