---------------------------- MODULE Reconciliation ----------------------------
(***************************************************************************)
(* The reports that look at all of the books at once:                      *)
(* apps/frontend/reconciliation.py, which launch_readiness and the command *)
(* of the same name run, the controls of apps/billing/financial_audit.py   *)
(* and the figures of apps/frontend/reporting.py.  They write nothing; so  *)
(* here they are operators on the states of the components.                *)
(*                                                                         *)
(* The periods of the reports take in everything.  Migrations, receipts,   *)
(* the counted cash and the sums that a check constraint holds are left    *)
(* out.  (The audit chain is the subject of AuditChain.)                   *)
(***************************************************************************)
EXTENDS Cashier, Stock, Folio, Casework

CONSTANTS
    TableDays,   \* the dates in the table of reservations
    TableRows    \* bound: its length

ASSUME ReconciliationAssumption == TableDays \subseteq Nat /\ TableRows \in Nat

VARIABLE table   \* the blocking reservations of one room, in the order of their arrival

TableRow == {r \in [in : TableDays, out : TableDays] : r.in < r.out}
Tables == UNION {{rows \in [1 .. n -> TableRow] :
                     \A k \in 2 .. n : rows[k - 1].in <= rows[k].in} : n \in 0 .. TableRows}

-----------------------------------------------------------------------------
(* Double bookings *)

Later(rows, previous, n) == IF rows[n].out > rows[previous].out THEN n ELSE previous

\* _reservation_conflicts, and _active_hold_conflicts over the active holds: one pass,
\* which compares each row with the one that so far ends last.
Compared(rows, acc, n) ==
    IF acc.previous # 0 /\ rows[acc.previous].out > rows[n].in
    THEN [previous |-> Later(rows, acc.previous, n),
          found |-> acc.found \cup {<<acc.previous, n>>}]
    ELSE [acc EXCEPT !.previous = n]

ConflictScan(rows) ==
    LET scan[n \in 0 .. Len(rows)] ==
          IF n = 0 THEN [previous |-> 0, found |-> {}] ELSE Compared(rows, scan[n - 1], n)
    IN  scan

ReservationConflicts(rows) == ConflictScan(rows)[Len(rows)].found

-----------------------------------------------------------------------------
(* The system reconciliation *)

\* What refund_payment leaves at completed: not refunded in full.
CompletedPayments ==
    {p \in PaymentIds : payment_of[p].stay # None /\ RefundedOf(p) < payment_of[p].amount}
RefundRows == {f \in RefundIds : refund_of[f].payment # None}
ChargeEntries == {e \in entries : e.type \notin {"payment", "refund"}}
Expenditures == {c \in Cases : case[c].kind = "expenditure"}
PaidExpenses == {c \in Expenditures : case[c].status = "paid"}

Debits(j) == SumFunctionOnSet(j.lines, {a \in Accounts : j.lines[a] > 0})
Credits(j) == -SumFunctionOnSet(j.lines, {a \in Accounts : j.lines[a] < 0})
Unbalanced == {j \in journal : Debits(j) <= 0 \/ Debits(j) # Credits(j)}

PaymentsOffFolio == {p \in CompletedPayments : payment_of[p].stay \notin folios}
UnjournaledPayments ==
    {p \in CompletedPayments : ~Posted(<<"receipt", p, payment_of[p].amount>>)}
UnjournaledCharges == {e \in ChargeEntries : ~Posted(<<"folio-journal", e.key>>)}
UnjournaledExpenses == {c \in PaidExpenses : ~Posted(<<"expenditure-journal", c>>)}

\* reconcile_system: the rows that each of its issues lists.
Issues ==
    [reservation_conflicts |-> ReservationConflicts(table),
     payments_missing_folio |-> PaymentsOffFolio,
     payments_missing_ledger_entry |-> {p \in CompletedPayments : ~Keyed(<<"payment", p>>)},
     payments_missing_journal |-> UnjournaledPayments,
     refunds_missing_journal |->
        {f \in RefundRows : ~Posted(<<"refund", refund_of[f].payment, f>>)},
     charges_missing_journal |-> UnjournaledCharges,
     refund_overages |->
        {p \in PaymentIds : RefundedOf(p) > payment_of[p].amount}
        \cup {p \in Payments : Refunded(p) > payment[p].amount},
     unbalanced_journals |-> Unbalanced,
     paid_expenditures_missing_journal |-> UnjournaledExpenses,
     expenditures_missing_status_event |-> {c \in Expenditures : history[c] = <<>>},
     negative_stock |-> {il \in Items \X Locations : balance[il] < 0}]

-----------------------------------------------------------------------------
(* The financial controls and the report *)

AmountOf(ps) == SumFunctionOnSet([p \in PaymentIds |-> payment_of[p].amount], ps)
RefundSum == SumFunctionOnSet([f \in RefundIds |-> refund_of[f].amount], RefundRows)
Charged(type) ==
    SumOf({e \in entries : e.type = type /\ e.amount > 0})
\* The debits less the credits of an account.
AccountSum(a) == SumFunctionOnSet([j \in journal |-> j.lines[a]], journal)

\* collect_financial_controls: the exceptions it raises ...
Exceptions ==
    {x \in {"open_shift"} : \E s \in Shifts : shift[s].status = "open"}
    \cup {x \in {"missing_folio_link"} : PaymentsOffFolio # {}}
    \cup {x \in {"missing_payment_journal"} : UnjournaledPayments # {}}
    \cup {x \in {"missing_charge_journal"} : UnjournaledCharges # {}}
    \cup {x \in {"unbalanced_journal"} : Unbalanced # {}}
    \cup {x \in {"missing_expense_journal"} : UnjournaledExpenses # {}}
    \cup {x \in {"expenses_awaiting_review"} :
             \E c \in Expenditures : case[c].status = "submitted"}

\* ... and its figures.  (The folio debits and credits are one number, what the journal
\* comes to is zero where no entry is unbalanced.)
Metrics ==
    [folio_balance |-> SumOf(entries),
     net_collections |-> AmountOf(CompletedPayments) - RefundSum,
     tax_payable |-> -AccountSum("2100"),
     input_tax_recoverable |-> AccountSum("1150"),
     expense_cash_outflow |-> Cardinality(PaidExpenses) * (NetSum + TaxSum)]

\* calculate_financial_report
Report ==
    [room_revenue |-> Charged("accommodation"),
     service_revenue |-> Charged("service"),
     tax_collected |-> Charged("tax"),
     total_revenue |-> Charged("accommodation") + Charged("service") - RefundSum,
     payments_collected |-> AmountOf(CompletedPayments),
     input_tax_paid |-> Cardinality(PaidExpenses) * TaxSum]

-----------------------------------------------------------------------------
(* Properties *)

Overlaps(r, q) == r.in < q.out /\ q.in < r.out

\* The scan reports overlapping rows only, and every row that overlaps an earlier one.
ScanFindsAll ==
    LET found == ReservationConflicts(table) IN
    /\ \A pair \in found : Overlaps(table[pair[1]], table[pair[2]])
    /\ \A n \in DOMAIN table : (\E k \in 1 .. n - 1 : Overlaps(table[k], table[n]))
                               => \E pair \in found : pair[2] = n

\* Whatever the program does itself, its reconciliation finds nothing, but for the
\* double bookings that the table was given, and the controls find only what is not
\* finished yet.  The figures of the two reports agree with the journal: the revenue
\* and the taxes are what their accounts were credited, and the collections what came
\* to the till, less the payments that were refunded in full (the refund is taken off,
\* and the payment is not counted any more).
Reconciled ==
    LET issues == Issues
        metrics == Metrics
        report == Report
        fully == {p \in PaymentIds : payment_of[p].stay # None} \ CompletedPayments
    IN  /\ ScanFindsAll
        /\ \A issue \in DOMAIN issues \ {"reservation_conflicts"} : issues[issue] = {}
        /\ Exceptions \subseteq {"open_shift", "expenses_awaiting_review"}
        /\ metrics.tax_payable = report.tax_collected
        /\ metrics.input_tax_recoverable = report.input_tax_paid
        /\ -AccountSum("4000") = report.room_revenue
        /\ -AccountSum("4100") = report.service_revenue
        /\ metrics.folio_balance = AccountSum("1100")
        /\ AccountSum("1010") + AccountSum("1020") + metrics.expense_cash_outflow
           = metrics.net_collections + AmountOf(fully)
=============================================================================
