------------------------------- MODULE Cashier -------------------------------
(***************************************************************************)
(* Cashier shifts, payments and refunds: apps/payments/services.py, on     *)
(* MariaDB at READ COMMITTED.                                              *)
(*                                                                         *)
(* As in Reservations, a command is a transaction of two steps: Begin...   *)
(* locks, reads and validates, Commit... writes and releases.  The open    *)
(* shift of a cashier is read without a lock (get_open_shift).  Inserting  *)
(* a payment or a cash movement takes a shared lock on the row of its      *)
(* shift (the foreign key), so it waits for a transaction that closes the  *)
(* shift, and then goes ahead.                                             *)
(*                                                                         *)
(* Amounts are whole units.  Rows are identified by the idempotency key    *)
(* they are created with; a request whose key is known changes nothing.    *)
(* Receipts are not modelled, the folio and the journal are in Folio.      *)
(***************************************************************************)
EXTENDS Staff, Integers, FiniteSets, Functions

CONSTANTS
    Terminals,   \* the active terminals
    Cashiers,    \* bound: the users who come to the desk
    Shifts,      \* primary keys of shifts
    Invoices,
    Total,       \* the total of each invoice
    Payments,    \* idempotency keys of payments
    Refunds,     \* idempotency keys of refunds, all keys numbers
    Amounts,     \* the amounts that are entered
    Floats,      \* the opening floats that are entered
    Txns,        \* database connections with a transaction
    CashBound    \* bound: a manual movement keeps the cash within it

ASSUME AmountsAssumption ==
    Amounts \subseteq Nat \ {0} /\ Floats \subseteq Nat /\ CashBound \in Nat
ASSUME KeysAssumption == Shifts \cup Payments \cup Refunds \subseteq Nat
ASSUME TablesAssumption == IsFiniteSet(Shifts) /\ IsFiniteSet(Payments) /\ IsFiniteSet(Refunds)
ASSUME CashiersAssumption == Cashiers \subseteq Staff
ASSUME TotalAssumption == Total \in [Invoices -> Nat]
ASSUME NoneAssumption == None \notin Terminals \cup Shifts \cup Invoices
                                     \cup Payments \cup Refunds

VARIABLES
    shift,     \* cashier shifts: status, terminal, cashier and expected_cash
    cash,      \* the sum of the cash movements of each shift (expected cash so far)
    paid,      \* Invoice.amount_paid; the balance is the rest of the total
    payment,   \* payments: status, invoice, amount and shift (None: not cash)
    refund,    \* refunds: payment, amount and shift
    manual,    \* auxiliary: the sum of all floats, paid-ins and paid-outs
    txn        \* what each open transaction has locked and validated

vars == <<shift, cash, paid, payment, refund, manual, txn>>

-----------------------------------------------------------------------------
(* Rows *)

\* `closed` stands for closed and approved: the approval only adds a name.
ShiftRow == [status : {"none", "open", "closed"}, terminal : Terminals \cup {None},
             cashier : Cashiers \cup {None}, expected : Int]
PaymentRow == [status : {"none", "completed", "refunded"}, invoice : Invoices \cup {None},
               amount : Nat, shift : Shifts \cup {None}]
RefundRow == [payment : Payments \cup {None}, amount : Nat, shift : Shifts \cup {None}]

\* An open transaction: the rows it has locked or will insert, and the values
\* it has read.  A transaction that closes a shift keeps what it expects in amount.
Command == [kind : {"idle", "open", "pay", "refund", "close"},
            shift : Shifts \cup {None}, terminal : Terminals \cup {None},
            cashier : Cashiers \cup {None}, invoice : Invoices \cup {None},
            payment : Payments \cup {None}, refund : Refunds \cup {None}, amount : Int]
Idle == [kind |-> "idle", shift |-> None, terminal |-> None, cashier |-> None,
         invoice |-> None, payment |-> None, refund |-> None, amount |-> 0]

TypeOK ==
    /\ shift \in [Shifts -> ShiftRow]
    /\ cash \in [Shifts -> Int]
    /\ paid \in [Invoices -> Nat]
    /\ payment \in [Payments -> PaymentRow]
    /\ refund \in [Refunds -> RefundRow]
    /\ manual \in Int
    /\ txn \in [Txns -> Command]

Init ==
    /\ shift = [s \in Shifts |-> [status |-> "none", terminal |-> None, cashier |-> None,
                                  expected |-> 0]]
    /\ cash = [s \in Shifts |-> 0]
    /\ paid = [i \in Invoices |-> 0]
    /\ payment = [p \in Payments |-> [status |-> "none", invoice |-> None, amount |-> 0,
                                      shift |-> None]]
    /\ refund = [f \in Refunds |-> [payment |-> None, amount |-> 0, shift |-> None]]
    /\ manual = 0
    /\ txn = [t \in Txns |-> Idle]

-----------------------------------------------------------------------------
(* Locks and reads *)

\* Mutant: the terminal is read without select_for_update.
Mut_TerminalFree(d) == TRUE
TerminalFree(d) == \A t \in Txns : txn[t].terminal # d
\* Mutant: the invoice is read without select_for_update.
Mut_InvoiceFree(i) == TRUE
\* record_payment and refund_payment (by its join) lock the invoice.
InvoiceFree(i) == \A t \in Txns : txn[t].invoice # i
\* Mutant: the shift that is closed is read without select_for_update.
Mut_ShiftFree(s) == TRUE
\* Nobody is closing the shift: its row can be locked, or referred to.
ShiftFree(s) == \A t \in Txns : txn[t].kind = "close" => txn[t].shift # s

Refunded(p) ==
    SumFunctionOnSet([f \in Refunds |-> refund[f].amount],
                     {f \in Refunds : refund[f].payment = p})

\* get_open_shift, for cash; other methods have no shift.
ShiftFor(c, s) ==
    \/ s = None
    \/ s \in Shifts /\ shift[s].status = "open" /\ shift[s].cashier = c

Open(t, cmd) ==
    /\ txn[t] = Idle
    /\ txn' = [txn EXCEPT ![t] = cmd]
    /\ UNCHANGED <<shift, cash, paid, payment, refund, manual>>

Close(t, kind) ==
    /\ txn[t].kind = kind
    /\ txn' = [txn EXCEPT ![t] = Idle]

\* Bound: keys come into use in their order, which names them and rules out nothing.
ShiftTaken(s) == shift[s].status # "none" \/ \E t \in Txns : txn[t].shift = s
PaymentTaken(p) == payment[p].status # "none" \/ \E t \in Txns : txn[t].payment = p
RefundTaken(f) == refund[f].payment # None \/ \E t \in Txns : txn[t].refund = f

-----------------------------------------------------------------------------
(* Shifts *)

\* open_cashier_shift: only the terminal is locked.
BeginOpen(t, s, d, c, float) ==
    /\ ~ShiftTaken(s) /\ \A o \in Shifts : o < s => ShiftTaken(o)
    /\ TerminalFree(d)
    /\ \A o \in Shifts : shift[o].status = "open"
                         => shift[o].terminal # d /\ shift[o].cashier # c
    /\ Open(t, [Idle EXCEPT !.kind = "open", !.shift = s, !.terminal = d, !.cashier = c,
                            !.amount = float])

CommitOpen(t) ==
    LET c == txn[t] IN
    /\ Close(t, "open")
    /\ shift' = [shift EXCEPT ![c.shift] = [status |-> "open", terminal |-> c.terminal,
                                            cashier |-> c.cashier, expected |-> c.amount]]
    /\ cash' = [cash EXCEPT ![c.shift] = c.amount]
    /\ manual' = manual + c.amount
    /\ UNCHANGED <<paid, payment, refund>>

\* record_manual_cash_movement: paid_in, or paid_out when the amount is negative.
Movement(s, amount) ==
    /\ ShiftFree(s)
    /\ shift[s].status = "open"
    /\ cash[s] + amount \in -CashBound .. CashBound
    /\ cash' = [cash EXCEPT ![s] = @ + amount]
    /\ manual' = manual + amount
    /\ UNCHANGED <<shift, paid, payment, refund, txn>>

\* close_cashier_shift: the row is locked, then the movements are summed.
BeginClose(t, s) ==
    /\ ShiftFree(s)
    /\ shift[s].status = "open"
    /\ Open(t, [Idle EXCEPT !.kind = "close", !.shift = s, !.amount = cash[s]])

CommitClose(t) ==
    LET c == txn[t] IN
    /\ Close(t, "close")
    /\ shift' = [shift EXCEPT ![c.shift].status = "closed", ![c.shift].expected = c.amount]
    /\ UNCHANGED <<cash, paid, payment, refund, manual>>

-----------------------------------------------------------------------------
(* Payments and refunds *)

\* The key is looked up before the invoice is locked and may have been used by
\* then: the insert decides.
BeginPay(t, p, i, c, s, amount) ==
    /\ \A o \in Payments : o < p => PaymentTaken(o)
    /\ InvoiceFree(i)
    /\ amount <= Total[i] - paid[i]
    /\ ShiftFor(c, s)
    /\ Open(t, [Idle EXCEPT !.kind = "pay", !.payment = p, !.invoice = i, !.shift = s,
                            !.amount = amount])

\* _recalculate_invoice: all payments less all refunds of the invoice.
Recalculated(i, pay, ref) ==
    SumFunctionOnSet([p \in Payments |-> pay[p].amount], {p \in Payments : pay[p].invoice = i})
    - SumFunctionOnSet([f \in Refunds |-> ref[f].amount],
          {f \in Refunds : ref[f].payment # None /\ pay[ref[f].payment].invoice = i})

AddCash(s, amount) == cash' = IF s = None THEN cash ELSE [cash EXCEPT ![s] = @ + amount]

\* Mutant: nothing makes the idempotency key unique.
Mut_CommitPay(t) ==
    LET c == txn[t] IN
    /\ Close(t, "pay")
    /\ c.shift # None => ShiftFree(c.shift)
    /\ payment' = [payment EXCEPT ![c.payment] =
                      [status |-> "completed", invoice |-> c.invoice, amount |-> c.amount,
                       shift |-> c.shift]]
    /\ AddCash(c.shift, c.amount)
    /\ paid' = [paid EXCEPT ![c.invoice] = Recalculated(c.invoice, payment', refund)]
    /\ UNCHANGED <<shift, refund, manual>>

\* The unique idempotency key makes the later of two inserts fail (Rollback).
CommitPay(t) ==
    LET c == txn[t] IN
    /\ Close(t, "pay")
    /\ payment[c.payment].status = "none"
    /\ c.shift # None => ShiftFree(c.shift)
    /\ payment' = [payment EXCEPT ![c.payment] =
                      [status |-> "completed", invoice |-> c.invoice, amount |-> c.amount,
                       shift |-> c.shift]]
    /\ AddCash(c.shift, c.amount)
    /\ paid' = [paid EXCEPT ![c.invoice] = Recalculated(c.invoice, payment', refund)]
    /\ UNCHANGED <<shift, refund, manual>>

\* The payment, its invoice and its folio are locked by one joined query; a cash
\* payment is refunded from the open shift of whoever refunds it.
BeginRefund(t, f, p, c, s, amount) ==
    /\ \A o \in Refunds : o < f => RefundTaken(o)
    /\ payment[p].status \in {"completed", "refunded"}
    /\ InvoiceFree(payment[p].invoice)
    /\ amount <= payment[p].amount - Refunded(p)
    /\ (s = None) <=> (payment[p].shift = None)
    /\ ShiftFor(c, s)
    /\ Open(t, [Idle EXCEPT !.kind = "refund", !.refund = f, !.payment = p, !.shift = s,
                            !.invoice = payment[p].invoice, !.amount = amount])

CommitRefund(t) ==
    LET c == txn[t] IN
    /\ Close(t, "refund")
    /\ refund[c.refund].payment = None
    /\ c.shift # None => ShiftFree(c.shift)
    /\ refund' = [refund EXCEPT ![c.refund] =
                     [payment |-> c.payment, amount |-> c.amount, shift |-> c.shift]]
    /\ AddCash(c.shift, -c.amount)
    /\ payment' = [payment EXCEPT ![c.payment].status =
                      IF Refunded(c.payment) + c.amount = payment[c.payment].amount
                      THEN "refunded" ELSE @]
    /\ paid' = [paid EXCEPT ![c.invoice] = Recalculated(c.invoice, payment', refund')]
    /\ UNCHANGED <<shift, manual>>

Rollback(t) ==
    /\ txn[t].kind # "idle"
    /\ txn' = [txn EXCEPT ![t] = Idle]
    /\ UNCHANGED <<shift, cash, paid, payment, refund, manual>>

-----------------------------------------------------------------------------

(* The portal and the API *)

\* portal_cashier: the user opens a shift of his own, and closes the one he has.
PortalCashier(t, u) ==
    /\ HasRole(u, StaffRoles)
    /\ \E s \in Shifts :
          \/ \E d \in Terminals, float \in Floats : BeginOpen(t, s, d, u, float)
          \/ shift[s].cashier = u /\ BeginClose(t, s)

\* What CashierShiftViewSet adds to it: management closes the shift of anybody, and
\* takes cash in and out.
CashierShiftViewSet(t, u) ==
    /\ HasRole(u, Management)
    /\ \E s \in Shifts :
          \/ shift[s].cashier # u /\ BeginClose(t, s)
          \/ \E amount \in Amounts : Movement(s, amount) \/ Movement(s, -amount)

\* portal_payments.  (Its roles admit guests, who see their payments, and its form is
\* for STAFF_ROLES: what is left is the front office, as in the API.)
PortalPayments(t, u) ==
    /\ HasRole(u, FrontOffice)
    /\ \E p \in Payments, i \in Invoices, s \in Shifts \cup {None}, amount \in Amounts :
          BeginPay(t, p, i, u, s, amount)

\* PaymentViewSet.refund: the portal has no refunds.
PaymentViewSet(t, u) ==
    /\ HasRole(u, Management)
    /\ \E f \in Refunds, p \in Payments, s \in Shifts \cup {None}, amount \in Amounts :
          BeginRefund(t, f, p, u, s, amount)

Next ==
    \E t \in Txns :
       \/ \E u \in Cashiers : \/ PortalCashier(t, u) \/ CashierShiftViewSet(t, u)
                             \/ PortalPayments(t, u) \/ PaymentViewSet(t, u)
       \/ CommitOpen(t) \/ CommitClose(t) \/ CommitPay(t) \/ CommitRefund(t)
       \/ Rollback(t)

Spec == Init /\ [][Next]_vars

-----------------------------------------------------------------------------
(* Properties *)

\* However payments and refunds interleave: what an invoice says was paid is what its
\* payments say, less their refunds, and never more than its total; a payment is refunded
\* at most once over, by any number of refunds in any shifts, and is marked refunded
\* exactly when nothing of it is left.
PaymentsTrue ==
    /\ \A i \in Invoices :
          /\ paid[i] = Recalculated(i, payment, refund)
          /\ paid[i] <= Total[i]
    /\ \A p \in Payments : payment[p].status # "none" =>
          /\ Refunded(p) <= payment[p].amount
          /\ payment[p].status = "refunded" <=> Refunded(p) = payment[p].amount

\* A terminal's drawer belongs to one open shift.
OneShiftPerTerminal ==
    \A s, o \in Shifts :
        (s # o /\ shift[s].status = "open" /\ shift[o].status = "open")
        => shift[s].terminal # shift[o].terminal

\* The drawers hold what the cash payments brought less what cash refunds took,
\* plus floats and manual movements: a retried request takes no money twice.
CashMatchesPayments ==
    SumFunctionOnSet(cash, Shifts)
    = manual
      + SumFunctionOnSet([p \in Payments |-> payment[p].amount],
                         {p \in Payments : payment[p].shift # None})
      - SumFunctionOnSet([f \in Refunds |-> refund[f].amount],
                         {f \in Refunds : refund[f].shift # None})

\* The expected cash of a Z report counts every movement of the shift that was
\* recorded before the shift was closed.
ZReportComplete ==
    [][\A s \in Shifts : (shift[s].status = "open" /\ shift'[s].status = "closed")
                         => shift'[s].expected = cash'[s]]_vars

\* docs/03-roles-and-workflows.md: the shift locks after close.  No payment,
\* refund or movement is recorded on a shift that has been closed.
ShiftLocksAfterClose ==
    [][\A s \in Shifts : shift[s].status = "closed" => cash'[s] = cash[s]]_vars

\* The check of open_cashier_shift: a cashier has at most one open shift.
OneShiftPerCashier ==
    \A s, o \in Shifts :
        (s # o /\ shift[s].status = "open" /\ shift[o].status = "open")
        => shift[s].cashier # shift[o].cashier
=============================================================================
