--------------------------------- MODULE Books ---------------------------------
(***************************************************************************)
(* Closing a day: the night audit and the manager pack of                  *)
(* apps/frontend/reporting.py, and the tax liabilities and bank            *)
(* reconciliations of apps/billing/ledger.py.  Each is a row that is       *)
(* written once for a day or a period and keeps the figures of that        *)
(* moment, while stays, shifts, postings, payments and expenditures go on. *)
(*                                                                         *)
(* A report is a transaction of three steps, without a lock: it looks      *)
(* whether the row is there and checks, checks and reads, and inserts.     *)
(* What the others do is one step each; only their dates are kept, and     *)
(* sums count the rows.                                                    *)
(***************************************************************************)
EXTENDS Staff, Integers, FiniteSets

CONSTANTS
    LastDay,     \* bound: the days are 0 .. LastDay
    Sojourns,    \* reservations
    Drawers,     \* cashier shifts
    Postings,    \* folio charges
    Tills,       \* payments, each may be refunded
    Bills,       \* expenditures that are approved
    RowBound,    \* bound: how many of all of these come about
    Auditors,    \* database connections with a report
    ReportBound  \* bound: the reports

Dated == Drawers \cup Postings \cup Tills \cup Bills

ASSUME BooksAssumption ==
    /\ {LastDay, RowBound, ReportBound} \subseteq Nat
    /\ IsFiniteSet(Sojourns) /\ IsFiniteSet(Dated)
    /\ Drawers \cap (Postings \cup Tills \cup Bills) = {}
    /\ Postings \cap (Tills \cup Bills) = {} /\ Tills \cap Bills = {}

VARIABLES
    today,
    sojourn,     \* the reservations: status and dates
    row,         \* the other rows: the date of each; and is it over: a shift that is
                 \* closed, a payment that is refunded, an expenditure that is paid
    reports,     \* the reports: night audits, packs, liabilities, reconciliations
    auditor      \* the open transactions

booksVars == <<today, sojourn, row, reports, auditor>>

-----------------------------------------------------------------------------
(* Rows *)

Days == 0 .. LastDay
Never == LastDay + 1

\* `amended`: while the guest was there.
SojournRow == [status : {"none", "confirmed", "checked_in", "checked_out", "gone"},
               in : Days \cup {Never}, out : Days \cup {Never}, amended : BOOLEAN]
DatedRow == [day : Days \cup {Never}, over : BOOLEAN]

ReportKinds == {"audit", "pack", "tax", "bank"}

\* DailyMetricSnapshot and ManagementPack, TaxLiability, BankReconciliation: the period
\* (a day for the first two), and the figures with the day on which they were read.
Figures == [day : Days, rooms : SUBSET Sojourns, revenue : Nat, expenses : SUBSET Bills,
            balance : Int]
NoFigures == [day |-> 0, rooms |-> {}, revenue |-> 0, expenses |-> {}, balance |-> 0]
ReportRow == [kind : ReportKinds, start : Days, end : Days, figures : Figures]

\* An open transaction: the report without its figures, then with them.
Unread == [kind |-> "audit", start |-> 0, end |-> 0, step |-> "idle", figures |-> NoFigures]

BooksTypeOK ==
    /\ today \in Days
    /\ sojourn \in [Sojourns -> SojournRow]
    /\ row \in [Dated -> DatedRow]
    /\ reports \subseteq ReportRow
    /\ auditor \in [Auditors -> [kind : ReportKinds, start : Days, end : Days,
                                 step : {"idle", "begun", "read"}, figures : Figures]]

BooksInit ==
    /\ today = 0
    /\ sojourn = [s \in Sojourns |-> [status |-> "none", in |-> Never, out |-> Never,
                                     amended |-> FALSE]]
    /\ row = [k \in Dated |-> [day |-> Never, over |-> FALSE]]
    /\ reports = {}
    /\ auditor = [a \in Auditors |-> Unread]

-----------------------------------------------------------------------------
(* What goes on *)

\* Bound: there is room for another row.
RoomForRow == Cardinality({s \in Sojourns : sojourn[s].status # "none"})
              + Cardinality({k \in Dated : row[k].day # Never}) < RowBound

NextDay ==
    /\ today < LastDay
    /\ today' = today + 1
    /\ UNCHANGED <<sojourn, row, reports, auditor>>

SojournStep(s, new) ==
    /\ sojourn' = [sojourn EXCEPT ![s] = new]
    /\ UNCHANGED <<today, row, reports, auditor>>

\* create_reservation, with the dates of _validate_stay.  (Pending and confirmed are one
\* status here.)
BookSojourn(s, in, out) ==
    /\ sojourn[s].status = "none" /\ RoomForRow
    /\ today <= in /\ in < out
    /\ SojournStep(s, [sojourn[s] EXCEPT !.status = "confirmed", !.in = in, !.out = out])

\* Mutant: a guest may be checked in after the day of arrival.
Mut_Arrive(s) ==
    /\ sojourn[s].status = "confirmed"
    /\ SojournStep(s, [sojourn[s] EXCEPT !.status = "checked_in"])
\* transition_reservation: a check-in is validated as a new stay is, before its day too.
Arrive(s) ==
    /\ sojourn[s].status = "confirmed"
    /\ today <= sojourn[s].in
    /\ SojournStep(s, [sojourn[s] EXCEPT !.status = "checked_in"])

\* check_out, and cancel or no_show.
Depart(s) ==
    \/ /\ sojourn[s].status = "checked_in"
       /\ SojournStep(s, [sojourn[s] EXCEPT !.status = "checked_out"])
    \/ /\ sojourn[s].status = "confirmed"
       /\ SojournStep(s, [sojourn[s] EXCEPT !.status = "gone"])

\* amend_reservation_stay: the arrival stays once the guest is there, and the departure
\* may then be in the past.
AmendSojourn(s, in, out) ==
    /\ in < out
    /\ \/ sojourn[s].status = "confirmed" /\ today <= in
       \/ sojourn[s].status = "checked_in" /\ in = sojourn[s].in
    /\ SojournStep(s, [sojourn[s] EXCEPT !.in = in, !.out = out,
                                         !.amended = sojourn[s].status = "checked_in"])

\* A new row is written, or one of this kind comes to its end.
NewRow(k, day) == row[k].day = Never /\ RoomForRow /\ row' = [row EXCEPT ![k].day = day]
EndRow(k) == row[k].day # Never /\ row' = [row EXCEPT ![k].over = TRUE]

\* Each of these is a transaction that leaves the rest alone.
\* open_cashier_shift and close_cashier_shift
UseDrawer(k) == NewRow(k, today) \/ EndRow(k)

\* post_folio_entry
PostCharge(k) == NewRow(k, today)

\* record_payment and refund_payment: post_payment_journal takes the date from a time in
\* UTC, where the first hour of a day is still the day before; and it dates a refund
\* with the day of its payment.
UseTill(k) == (\E day \in {today, today - 1} \cap Days : NewRow(k, day)) \/ EndRow(k)

\* submit_expenditure takes any business date; the payment is posted with that date.
UseBill(k) == (\E day \in Days : NewRow(k, day)) \/ EndRow(k)

UseRow ==
    /\ \/ \E k \in Drawers : UseDrawer(k)
       \/ \E k \in Postings : PostCharge(k)
       \/ \E k \in Tills : UseTill(k)
       \/ \E k \in Bills : UseBill(k)
    /\ UNCHANGED <<today, sojourn, reports, auditor>>

-----------------------------------------------------------------------------
(* Figures *)

\* Reservations that have a room in the night of day d, by their dates.
Occupied(d) == {s \in Sojourns : /\ sojourn[s].status \in {"checked_in", "checked_out"}
                                 /\ sojourn[s].in <= d /\ d < sojourn[s].out}

Between(day, start, end) == start <= day /\ day <= end

Revenue(start, end) == Cardinality({k \in Postings : Between(row[k].day, start, end)})
Expenses(d) == {k \in Bills : row[k].day = d /\ row[k].over}

\* The balance of the ledger account at the end of a day.
LedgerBalance(end) ==
    Cardinality({k \in Tills : row[k].day <= end /\ ~row[k].over})
    - Cardinality({k \in Bills : row[k].day <= end /\ row[k].over})

\* calculate_daily_metrics
DailyMetrics(d) == [NoFigures EXCEPT !.rooms = Occupied(d), !.revenue = Revenue(d, d),
                                     !.expenses = Expenses(d)]

-----------------------------------------------------------------------------
(* Reports *)

There(kind, start, end) ==
    \E r \in reports : r.kind = kind /\ r.start = start /\ r.end = end

UnchangedBusiness == UNCHANGED <<today, sojourn, row>>

BeginReport(a, kind, start, end) ==
    /\ auditor[a] = Unread
    /\ Cardinality(reports) < ReportBound
    /\ ~There(kind, start, end)
    /\ auditor' = [auditor EXCEPT ![a] = [kind |-> kind, start |-> start, end |-> end,
                                          step |-> "begun", figures |-> NoFigures]]
    /\ UNCHANGED reports /\ UnchangedBusiness

\* run_night_audit, up to the unresolved departures.
BeginAudit(a, d) ==
    /\ d < today
    /\ \A k \in Drawers : row[k].day <= d => row[k].over
    /\ \A s \in Sojourns : sojourn[s].status = "checked_in" => d < sojourn[s].out
    /\ BeginReport(a, "audit", d, d)

\* generate_management_pack, which the job calls for yesterday, and the portal and the
\* command for any day before today.
BeginPack(a, d) == d < today /\ BeginReport(a, "pack", d, d)

\* prepare_tax_liability and reconcile_bank_account: the period need not have ended.
BeginTax(a, start, end) == start <= end /\ BeginReport(a, "tax", start, end)
BeginBank(a, start, end) == start <= end /\ BeginReport(a, "bank", start, end)

ReadFigures(a, kind, figures) ==
    /\ auditor[a].step = "begun" /\ auditor[a].kind = kind
    /\ auditor' = [auditor EXCEPT ![a].step = "read",
                                   ![a].figures = [figures EXCEPT !.day = today]]
    /\ UNCHANGED reports /\ UnchangedBusiness

\* The unresolved arrivals, and the metrics.
ReadAudit(a) ==
    LET d == auditor[a].start IN
    /\ \A s \in Sojourns : sojourn[s].status = "confirmed" => d < sojourn[s].in
    /\ ReadFigures(a, "audit", DailyMetrics(d))

ReadPack(a) == ReadFigures(a, "pack", DailyMetrics(auditor[a].start))

\* The liability is what was charged in the period: there has to be some.
ReadTax(a) ==
    LET sum == Revenue(auditor[a].start, auditor[a].end) IN
    sum > 0 /\ ReadFigures(a, "tax", [NoFigures EXCEPT !.revenue = sum])

ReadBank(a) == ReadFigures(a, "bank", [NoFigures EXCEPT !.balance = LedgerBalance(auditor[a].end)])

\* The unique constraints; there is none on the tax liabilities.
Insertable(kind, start, end) == kind = "tax" \/ ~There(kind, start, end)

InsertReport(a) ==
    LET r == auditor[a] IN
    /\ r.step = "read"
    /\ Insertable(r.kind, r.start, r.end)
    /\ reports' = reports \cup {[kind |-> r.kind, start |-> r.start, end |-> r.end,
                                 figures |-> r.figures]}
    /\ auditor' = [auditor EXCEPT ![a] = Unread]
    /\ UnchangedBusiness

\* A check or an insert fails, or the process dies.
DropReport(a) ==
    /\ auditor[a] # Unread
    /\ auditor' = [auditor EXCEPT ![a] = Unread]
    /\ UNCHANGED reports /\ UnchangedBusiness

-----------------------------------------------------------------------------
(* The portal *)

\* portal_night_audit
PortalNightAudit(a, u, d) == HasRole(u, Management) /\ BeginAudit(a, d)

\* portal_finance_controls; prepare_tax_liability and reconcile_bank_account do not take
\* managers.  The bank accounts are left out: there is one.
PortalFinanceControls(a, u, start, end) ==
    HasRole(u, {"admin", "accountant"}) /\ (BeginTax(a, start, end) \/ BeginBank(a, start, end))

BooksNext ==
    \/ NextDay
    \/ \E s \in Sojourns :
          \/ Arrive(s) \/ Depart(s)
          \/ \E in, out \in Days : BookSojourn(s, in, out) \/ AmendSojourn(s, in, out)
    \/ UseRow
    \/ \E a \in Auditors :
          \/ \E d \in Days : BeginPack(a, d) \/ \E u \in Staff : PortalNightAudit(a, u, d)
          \/ \E u \in Staff, start, end \in Days : PortalFinanceControls(a, u, start, end)
          \/ ReadAudit(a) \/ ReadPack(a) \/ ReadTax(a) \/ ReadBank(a)
          \/ InsertReport(a) \/ DropReport(a)

BooksSpec == BooksInit /\ [][BooksNext]_booksVars

-----------------------------------------------------------------------------
(* Properties *)

\* A day that has been closed stays closed, whatever goes on after its night audit: no
\* shift of it is open, no arrival of it is confirmed, no departure of it is due, and its
\* figures stay those of the snapshot, and of the manager pack, but for two things: an
\* amendment may move the departure of a guest who is there across the day, and an
\* expenditure of the day may be paid later.  What a tax liability says of a period that
\* was over is what was charged in it; what a reconciliation says, at the end of a period
\* that was over for a day, only falls: refunds and expenditures are posted back into it.
ClosedDaysHold ==
    \A r \in reports :
       /\ r.kind = "audit" =>
             /\ \A k \in Drawers : row[k].day <= r.end => row[k].over
             /\ \A s \in Sojourns :
                   /\ sojourn[s].status = "confirmed" => r.end < sojourn[s].in
                   /\ sojourn[s].status = "checked_in" => r.end < sojourn[s].out \/ sojourn[s].amended
       /\ r.kind \in {"audit", "pack"} =>
             /\ r.figures.revenue = Revenue(r.end, r.end)
             /\ r.figures.expenses \subseteq Expenses(r.end)
             /\ \A s \in Sojourns :
                   (s \in r.figures.rooms <=> s \in Occupied(r.end)) \/ sojourn[s].amended
       /\ r.kind = "tax" /\ r.end < r.figures.day => r.figures.revenue = Revenue(r.start, r.end)
       /\ r.kind = "bank" /\ r.end + 1 < r.figures.day => LedgerBalance(r.end) <= r.figures.balance
=============================================================================
