# A verification of the Grace Day Inn system

The system is a Django monolith that runs a small hotel: it sells room nights, checks guests in
and out, takes their money, keeps the books and the stock, and writes to guests. Several people, a
website and a scheduled job work on the same rows at the same time. What keeps them apart are
database transactions on MariaDB at READ COMMITTED (`src/gracedayinn/settings/base.py:128`) and the
row locks (`select_for_update`) that the service functions take. This project models those
services, checks them with TLC on small instances, and proves with TLAPS, for every value of the
constants, all of the properties of the passing runs but two, which are liveness.

`PROJECT.json` maps every definition to the lines it stands for, lists the components with their
status, the runs, the mutants, the hazards with the properties that would catch them, the findings
and the theorems.

## 1. Inventory

| component | state it keeps | operations | what is hard |
|---|---|---|---|
| `apps/reservations/services.py` | reservations, room assignments, status and amendment history, waitlist, discounts | create, confirm, check in, check out, cancel, no-show, move, amend, waitlist, discount | two requests for one room; commands on a row that changed meanwhile; moves lock two rooms |
| `apps/reservations/pricing.py` | quotes, inventory holds, `Promotion.times_used` | create, convert, release, expire | conversion against expiry (three separate statements, in several processes) and release; the last use of a promotion |
| `apps/rooms` | rooms (status, active, sellable), inventory blocks, rates | block, release, CRUD | blocks entered while a room is being sold |
| `apps/housekeeping/services.py` | tasks, tickets, incidents, lost property, stock | task and ticket life cycles, stock movements and transfers | many writers of `Room.status`; transfers that lock two locations; retries |
| `apps/payments/services.py` | shifts, cash movements, payments, refunds, print jobs | open, pay, refund, paid in/out, close | the open shift is read without a lock; partial refunds; retried payments |
| `apps/billing` | invoices, folios, journal, VAT, expenditure, audit cases, liabilities, bank reconciliations | ensure invoice and folio, post, correct, approve, prepare, reconcile | postings keyed for idempotency; reservation, folio, invoice and journal must agree; figures of a day that goes on changing |
| `apps/notifications` | jobs, messages, delivery events, suppressions, contacts, alerts, inquiries | run due jobs, send, retry, webhook, synchronise contacts | leases that time out, crash after sending, events twice or out of order, requests without a transaction |
| `apps/services` | service orders | order workflow, posting to the folio | retried postings, edits of completed orders |
| `apps/accounts` | users, roles, second factor, privacy requests, guest merging | sign in, enrol, verify, merge, anonymize | replay of codes; merges that overlap; API calls that save a row as it was read |
| `apps/frontend` | portal and website views, browser sessions, audit log, reports, night audit, content | call the services; a few views write rooms directly | requests lost between transaction and session; stale forms; a hash chain inside the transactions of others |
| `deploy`, `gracedayinn` | settings, cron | | isolation level, five-minute schedule |

How they interact: portal views and API views call the service functions; a service calls others
inside its own transaction (a conversion creates a reservation; a check-out creates a cleaning
task; a downtime ticket enters an inventory block; a payment posts to folio and journal). The only
asynchronous part is `run_scheduled_jobs`, started by cron every five minutes, which expires holds,
sends mail, synchronises contacts and evaluates alerts. Shared rows are the interface between the
components; messages go only to the mail provider, and it posts its events back.

What makes each correct:

* reservations and quotes: no night of a room is sold or held twice; a hold passes to its
  reservation without a gap; what is decided stays decided; a promotion is not overused; who is
  asked for a code still has the room;
* room state: an available room has no guest and no open repair, an occupied one has a guest, what
  a guest left dirty is queued, no guest is put into a room under repair;
* cashier: drawers, invoices and payments agree, no payment is refunded beyond its amount;
* stock: the ledger explains every balance, and transfers do not wait in a circle;
* folio and journal: every posting has its cause and its journal entry, once; a cancelled stay
  leaves the fee (and, if it was amended, two kinds of lines that are named);
* cases (incidents, inquiries, expenditures, privacy requests ...): the status is that of the
  history, every step was permitted to its actor, nobody approves his own expenditure;
* outbox: a queued mail is sent or given up, whoever crashes; an event counts once;
* contacts: what is marked synchronised is so at the provider;
* accounts: a code works once; logins that ask for no second factor exist, and the middleware keeps
  their sessions from the pages of the portal (not from the API, section 6); merges end; no account
  is anonymized while a stay or a legal hold stands;
* audit log: the rows continue each other;
* closing of days: what was reported of a day that is over stays true.

## 2. Modules

| module | what it is |
|---|---|
| `RoomNights` | abstract specification: claimants exchange nights of a calendar, none claimed twice |
| `Reservations` | reservations, quotes, holds, promotion, blocks; every command in two steps with its locks |
| `Website` | who asks for the commands of `Reservations`: browser sessions, verification codes, waitlist, desk |
| `RoomState` | `Room.status` and everything that writes it |
| `Desk` | who gives the commands of `RoomState`: portal pages and API with their roles |
| `Outbox` | the scheduled job, the messages it sends, the provider and its events |
| `Staff`, `Ledger` | what the back office shares: users and role checks; the double-entry journal |
| `Cashier` | shifts, payments, refunds, cash movements |
| `Stock` | movements and transfers with their row locks, the stock ledger |
| `Folio` | price of a stay, invoice, folio, journal; amendments, cancellations, discounts, orders |
| `Casework` | incidents, lost property, inquiries, queries, alerts, privacy requests, expenditures, audits |
| `Contacts` | consent, and the contacts kept at the provider |
| `Access` | accounts, portal sessions, the second factor |
| `AuditChain` | the hash chain of the audit log |
| `Guests` | merging and anonymizing guest accounts |
| `Reconciliation` | the reports that compare all books, as operators |
| `Books` | night audit, manager pack, tax liabilities, bank reconciliations |
| `BackOffice` | composes the eleven above |
| `MC...` | instances and symmetry for TLC |
| `...Proofs`, `SumTheorems` | TLAPS proofs, see section 5 |

`Website` EXTENDS `Reservations` and takes every step of it by a request of somebody; `Desk` does
the same with `RoomState`. `BackOffice` composes components that read nothing of each other but the
users and, for folio and casework, the journal. So a behaviour of it is one of one component,
chosen at the start (`focus`), and TLC's states are the sum and not the product of theirs; that
nothing is lost by this is what `ComponentsStayTrue` and `SharedInvariance` prove (section 5).

### Reservations and Website

A service function is a transaction in two steps. `Begin...` takes the row locks, reads and
validates; its guard is the conjunction of the function's early raises, and it stores in `txn`
which rows are locked and what will be written. `Commit...` writes and releases. A command whose
validation raises is rolled back as a whole and is no step; a failure after the locks (deadlock
victim, lost connection, killed worker) is `Rollback`. Between the two steps other requests, the
expiry and time go on: a quote may lapse and midnight may pass after the validation. The locks of a
command are taken at once: in the code they are taken one after the other, and where that order
leads to a deadlock the database rolls one command back, which `Rollback` covers; reads come after
the last lock. The code also locks rows the model does not need (the room type by
`select_related`), which only forbids interleavings that the model allows.

| code | model |
|---|---|
| `_validate_stay` | `ValidStay` (dates, room on sale, reservations, holds, blocks) |
| `create_reservation`, `create_quote`, `convert_quote` | `BeginCreate`/`CommitCreate`, `BeginQuote`/`CommitQuote`, `BeginConvert`/`CommitConvert` |
| `transition_reservation`, `move_reservation_room`, `amend_reservation_stay` | `BeginTransition`..., `BeginMove`..., `BeginAmend`... |
| `create_inventory_block`, `release_inventory_block`, `release_quote` | `BeginBlock`/`CommitBlock`, `ReleaseBlock`, `ReleaseQuote` |
| `expire_stale_holds` outside a transaction | `SweepRead`, `SweepHolds`, `SweepQuotes`; `SweepDies` for a page view that is killed |
| `portal_room_edit` (active, sellable) | `SetSellable` |
| `room_detail`, `public_quote_confirm`, `portal_verify_booking` | `RoomDetail`, `ConfirmSignedIn`, `SendCode`, `WrongCode`, `VerifyBooking`, ... |
| saving the session after the transaction | `Saved` in `WebCommit`; a lost request is `WebRollback` or leaves the old session |
| `convert_waitlist_entry`, `offer_waitlist_entry` | `ConvertWaitlist`/`WaitlistCommit`, `OfferWaitlist` |

Dates are numbers. The lifetime of a quote is abstracted to the set `lapsed` of quotes whose
`expires_at` has passed. Prices, guest counts (they only reject) and histories are left out. One
browser makes one request at a time.

### RoomState and Desk

Commands that write `Room.status` lock their own row and then the room before they read anything
else, so each is one step. `dirty` (rooms a guest left that were not cleaned since) and `saved`
(rooms whose status was last written by an edit) are auxiliary: no guard reads them. `EditRoom` is
the portal form or the API writing any status at any time; the properties about status except
rooms in `saved`, because nothing in the code protects them. `ValidStay` is `_validate_stay` for
the fixed reservations of the instance. An early check-out leaves a stay in the calendar, as in the
code. `Desk` adds for every command the pages and view sets that give it and the roles they ask for.

### Outbox

`sender` is what each process does: a request that has queued a message and sends it at once, a
worker that has claimed the job (`Claim`), or the command `process_email_outbox`, which needs no
claim. `ReadDue` lists the keys; `Take` locks a row and looks again; between `Take` and `Settle` the
transaction is open and the provider is called (`Call`). The provider is external: it takes a
message or refuses it, the answer may be lost after it took it, and it posts each of its events
until it is answered. A webhook call is three commits, `HookRecord`, `HookStatus`, `HookSuppress`;
it may die between them (`HookCrash`). Time is three flags: the job is due, its lock is older than
thirty minutes, the backoff of a message is over.

### Cashier

Commands in two steps again. The open shift of a cash payment is read without a lock by
`get_open_shift`, as in the code. Inserting a movement takes a shared lock on the shift row because
of the foreign key: the insert waits for a transaction that is closing the shift (`ShiftFree`) and
then goes ahead, without looking at the status again. `paid` is set by `_recalculate_invoice`
(`Recalculated`), which sums the rows; it is not an increment. `manual` is auxiliary. After a full
refund `net_collections` of the reports counts the payment as refunded and the refund once more;
nothing in the repository says otherwise, so the model repeats it without a property.

### Stock, Casework, Contacts, Access, AuditChain, Guests

`Stock` takes row locks one by one, in the code's order (a movement the item and then the location,
a transfer both locations by key and then the item), so that waiting in a circle can be seen: a
movement and a transfer can wait on each other, and the database then rolls one back (`AbortStock`);
transfers alone cannot (`NoTransferCycle`). `Casework` is one workflow over tables of rules, one
table for each service, with the lock, the checks and then the writes. `Contacts` follows requests
that write row after row without a transaction, and a job that locks a record while the provider
is called, which may time out after it took effect. `Access` counts time in the 30-second steps of
the authenticator; verifying a code is a transaction that begins with the lock of the device and
ends with the login. Whom the middleware serves depends on the path (`LetIn`): the paths it exempts,
`/api/` among them, are served to every session (`ExemptPrefixes`), on the others a session of staff
that has not verified its user is logged out (`TurnAway`). Two logins ask for no code: the end of a
booking (`VerifyBooking`, for whichever account has the address; staff, too) and the sign-in of the
Django admin (`AdminSignIn`, for the users with `is_staff`, kept in `site`). `proven` is auxiliary:
whose codes were accepted in the session. `AuditChain` appends inside the transactions of callers that may fail; the
verification reads log and head in two queries. In `Guests` a merge and an execution of a privacy
request are transactions; the users' API saves every field as it was read, which is why no property
says that an anonymized account stays anonymized.

### Folio, Ledger, Reconciliation, Books

In `Folio` a service call is one step: its transaction locks the reservation, the order, the
request, the invoice or the payment that it changes, and what it posts has a unique external key.
That is an assumption about atomicity, not a result; overlapping payments, where it would matter
most, are the subject of `Cashier`. `opened` is auxiliary: the prices a stay had when its folio was
made. Amounts are whole units and the assumed rates leave none to
round. `Reconciliation` states what `reconciliation.py`, the controls of `financial_audit.py` and
the figures of `reporting.py` compute; its table of reservations is set up in every way at the start.
In `Books` a report is a transaction of three steps without a lock, and what others do meanwhile
is one step each; only dates are kept and sums count rows. After a cancellation the tax liability
keeps the tax of the lines that were reversed, and two liabilities of one period can be prepared:
both are modelled as they are, no document says otherwise.

## 3. Runs

| run | instance | what it shows |
|---|---|---|
| `Reservations_moves` | 2 rooms, 2 reservations, 1 quote, 2 nights, 2 transactions, one midnight | no double booking, ended stays are frozen, and the services implement `RoomNights` |
| `Website_quotes` | 2 visitors, 2 rooms, 2 quotes with one promotion use, 1 night, job and one page view | quotes and holds agree, who is asked for a code has the room, decisions last |
| `Website_blocks` | 1 room that is blocked and taken off sale, 1 reservation, 2 quotes, 1 waiter | holds are exclusive, only open rooms are sold, and under fairness lapsed holds end |
| `Desk_ready` | 2 guests with consecutive nights, 2 rooms, 2 tasks, 1 ticket | rooms are ready, occupied, queued and blocked as their rows say |
| `Outbox_mail` | 1 message, 2 processes, 1 webhook call, 2 kinds of events, 2 attempts, 1 crash or exception | retries budgeted, events applied once, no unprovoked second sending; under fairness every mail is decided |
| `BackOffice` | section 4 | the nineteen properties of the back office |
| `Desk_checkin`, `Desk_clean`, `Cashier_close`, `Cashier_shifts`, `Contacts_erased`, `Access_api` | smallest that shows it | a violation each, section 6 |

Every property of a passing run has a mutant in `PROJECT.json`: a version of one mapped definition
with a plausible bug (a lock not taken, a check left out, a status not reset) under which TLC finds
the property violated.

## 4. Bounds, symmetry and fairness

A conflict over a row is between two transactions, so two connections and two claimants of each
kind that meet reach every pair of commands in every order. In particular:

* `Reservations`: two nights give equal, nested, adjacent and disjoint stays, and the empty range
  exercises the date check; one midnight (`LastDay`) separates past from future arrivals; a move
  needs two rooms; a promotion limit of 1 with two quotes is the race for the last use. `Closable`:
  rooms that are taken off sale. `DeskKinds`: which commands the desk gives beside the website;
  in `Website_quotes` conversions only, in `Website_blocks` all. `Viewers`: page views that expire
  holds; one beside the job makes two expiries overlap.
* `Desk`: `Busy` is the room that staff enter tasks, tickets and edits for; keys are used once.
* `Outbox`: two processes are a worker and the one that takes its job or sends beside it. Messages
  share nothing but the job and the address. Two attempts give a first, a retry and a last.
  `MaxCrashes`, `Events` bound what goes wrong.
* `Cashier`: an invoice of two units and amounts of one and two make partial, full and excessive
  payments and refunds; keys are taken in their order (an auto-increment key, `ShiftTaken` and the
  like); `CashBound = 0` keeps the cash of manual movements within what payments made.
* `Stock`: one item at two locations is a transfer in both directions against a movement;
  `LedgerBound = 4` rows. `Casework`: `HistoryBound = 4` events reach every status of every kind.
  `AuditChain`: `LogBound = 3`. `Books`: four days, `RowBound = 2` rows and one report
  (`ReportBound`) at a time; reports do not read each other.
* `Folio`: one stay of one night at two VAT rates, with a discount, an order, a payment and two
  refunds; one amendment or correction (`Repeats`), one item (`ItemBound`), four entries
  (`EntryBound`): nothing that is posted for one stay reads the postings of another.
* `Access`: two sessions of two members, one secret, one step of the clock (`LastStep`), no recovery
  codes (`RecoveryCodes = 0` in `BackOffice`; that each of those is accepted once is proved, for any
  number of them, and not checked; `Access_api` has one), a sign-in that lapses at once
  (`PendingSteps = 0`), one wrong code until the lock; the device is required from its confirmation
  on (`MfaRequired = FALSE`), so that sessions begun before it are met, too; the manager is who gets
  mail (`Linked`). `Contacts`: one address, because the rows of two addresses never meet. `Guests`:
  two accounts merge into each other or not at all.
* `Reconciliation`: tables of three reservations (`TableRows`) over four days, in all their ways.

The bounds are conjuncts of the guards and constants of the modules: what is proved is proved for
every value of them. Deadlock is not checked: when the keys are used up and the clock has stopped an
instance comes to rest. Symmetry is used in runs that check no liveness, over keys that no constant
or key order distinguishes (connections, and quotes on the website).

Fairness is assumed for liveness only. `WebFairSpec` (for `LapsedHoldsEnd`): the steps of the
expiry job, because cron starts it every five minutes and a stale lock of it is recovered after
thirty; and the end of every open transaction, because the database ends it. Page views may be
killed in their expiry, and nothing is assumed of guests or staff. `FairSpec` of `Outbox` (for
`QueuedDecided`): time passes, stale locks are recovered, a job that can be claimed again and again
is claimed (strong fairness of `Claim`, because others may hold it in between), and a process at
work goes on or dies, because the call of the provider has a timeout. The runner disables a job
after five failures in a row; the assumption is that this does not happen for good.

## 5. What is proved

Each component has an inductive invariant that TLC checked before it was proved; its theorem
`...Invariance` says `Spec => []Inv`, and the properties follow. The values of the constants are
arbitrary within the named assumptions of the modules: keys of different tables and `None` differ,
limits are numbers, tables over which something is summed or counted are finite
(`TablesAssumption`, `StockAssumption`, `BooksAssumption`), locations and guests are locked in the
order of their keys, which are numbers, and a VAT rate of zero is allowed (`FolioAssumption`: the
rate is zero until one is entered).

| module | theorems about |
|---|---|
| `ReservationsProofs` | `TypeOK`, `NoDoubleBooking`, `HoldsExclusive`, `EndedStaysFrozen`, `QuoteDecidedOnce`, `QuoteRowsAgree`, `SoldOnlyOpen`, the refinement `ImplementsCalendar` |
| `WebsiteProofs` | `WebSpec => Spec`, and with it the properties of `Reservations` for visitors; `AskedHasRoom` |
| `RoomStateProofs` | `TypeOK`, `AvailableIsReady`, `OccupiedHasGuest`, `DirtyRoomQueued`, `BlockFollowsTicket`, `NotIntoRepairs`; `DeskSpec => Spec`, and with it the same for the desk (`Desk`) |
| `OutboxProofs` | `TypeOK`, `RetriesBudgeted`, `EventAppliedOnce`, `SentAgainOnlyIfDeferred` |
| `SumTheorems` | sums over finite sets: nothing, one more, one changed, two disjoint sets, elements renamed, two weights together |
| `ComponentProofs` | `PaymentsTrue`, `OneShiftPerTerminal`, `CashMatchesPayments`, `ZReportComplete`, `MergesEnd`, `ErasedWithoutStay`, `ChainHolds`, `SyncedAtProvider`, `LedgerExplainsBalance`, `NoTransferCycle`, `CodeAcceptedOnce`, `PortalProven`, `ClosedDaysHold` |
| `BackOfficeProofs` | `HistoryExplainsStatus`, `EachEntryJournaled`, `FolioExplained`, `CancellationLeavesFee`, and the composition |
| `ReconciliationProofs` | `BooksReconciled` |

Why the invariants must be stronger than the properties:

* **Reservations** (`IInv`). A transaction validates in one step and writes in another, so what it
  will write must be known to be free still. `LocksExclusive`: two open transactions have no row in
  common. `AllReady`: the row an open command works on is as its validation found it. `AllClear`:
  the nights it is going to claim are claimed by nobody else, kept because whoever could take them
  needs the lock of the room. `HoldsExclusive` is part of the induction: a conversion hands the
  nights of a hold to a reservation.
* **Quotes** (`QInv`). What an expiry has listed has lapsed and is no open quote's; the use of a
  promotion counts the converted quotes (a cardinality, by `FiniteSetTheorems`) and the lock of the
  promotion leaves room for the one being converted. `StillOnSale`: a room is on sale until whoever
  looked has written. The refinement maps every step of `Spec` to a step of `RoomNights` or none.
* **Website** (`WInv`). The quotes that two sessions know are apart, a session that waits for an
  answer has one request, and its quote is its own.
* **RoomState** (`IInv`). Only downtime tickets block the calendar, and no block starts in the future:
  so the validation of a stay sees every block that stands.
* **Outbox** (`IInv`). `RowsLocked`: nothing else writes the status of a message that is being sent.
  `Budget`: each hand-over is an attempt on record, one to be recorded, or lost with its process.
  `Excused`: an accepted message is open again only after a report. `Once`: an event that is stored
  is applied by the call that stored it.
* **Cashier** (`IInv`). What an open transaction has read still holds; an invoice is paid what its
  payments are worth after refunds (`NetPaid`), taken payment by payment, beside the two separate
  sums of the property; the sum a closing transaction has read is that of the rows until it commits.
* **Guests** (`GuestInv`). What is merged into others is the account of nobody who is active; an
  open merge or execution holds its accounts, and no step of another leaves them otherwise.
* **AuditChain** (`AuditInv`). The rows of an open transaction continue the head it found.
* **Contacts** (`ContactInv`). What the job has listed or is calling for is pending or deferred, so no
  record says `synced` while a call for its address is under way.
* **Stock** (`StockInv`). Every transaction is at one of the places of its kind's lock order and
  nobody shares what it holds; once it has its locks, the balances that it read are true. The
  location with the greatest key that anybody in a circle waits for ends the circle.
* **Access** (`AccessInv`). An open verification has the device for itself, as it read it; every
  code ever accepted is used up, or of a secret that was replaced; who is verified has proven it.
  That is why the comparison of the middleware is enough on the paths it guards: the logins without a
  code leave `verified` as it was or empty. Of the exempt paths the theorem says nothing, and on
  `/api/` the property is false (`Access_api`).
* **Books** (`BooksInv`). `StillTrue` for each report and for what an open one has read; `DayOver` for a
  night audit that has looked.
* **Casework** (`CaseInv`). The event of an open transaction is permitted from the status the
  case still has, and the transaction has the case for itself.
* **Folio** (`FolioInv`). Every entry has its cause in the rows and causes that are due have posted,
  under unique keys; the journal rows of the folio kinds are the image of the entries; a price is
  the sum of its lines, or of the nights alone after an amendment without a rate plan; the prices a
  folio was opened with are those of the lines charged then (`opened`); the entries of a stay itself
  come to the price, or to the fee once it is cancelled, plus the late lines (`LateLines`).
* **Reconciliation** (`SharedInv`, `ReportInv`, with the invariants of cashier and stock). The journal
  entries that no folio stands behind are those of the expenditures, finitely many; a payment and a
  refund are on the folio as they are in their tables. So the journal is the entries and the paid
  expenditures over again, and the sum of an account is split by where its rows come from and by
  the type of the entries, which is how the reports sum. The scan for double bookings is right by
  induction over the rows: the row it compares with is the one that ends last so far.

Sums: the library's induction theorems take an operator and cannot be used, so `SumTheorems` does
the induction over the set of subsets of a finite set, which is well founded.

The composition (`BackOfficeProofs`): `ComponentsStayTrue` shows that `BackSpec` implies the
specification of each component that shares nothing, because a step of the whole is a step of one
and leaves the others alone; so all theorems about those hold of the whole. Folio and casework
write to one journal; `SharedInvariance` proves both invariants together, because the rows that one
adds (`FolioAdds`, `CaseAdds`) are of kinds that the other's invariant does not speak of.
`BackOfficeTyped`, `SharedJournalHolds`, `MoneyAndStockHold`, `RecordsHold` and `StepsHold` state
the properties of the run for the whole.

Only model-checked: `LapsedHoldsEnd` and `QueuedDecided`, liveness under fairness, out of the prover's
reach. Every other property of a passing run is stated by a theorem.

## 6. Findings

1. Check-in does not ask for a ready room, though `docs/03-roles-and-workflows.md:42` requires one:
   with consecutive bookings of one room both guests can be in it (`Desk_checkin`).
2. A room is made available while it waits to be cleaned, when an older inspection is verified
   (`Desk_clean`; `docs/08-quality-security-and-operations.md:24`).
3. A cash payment can land on a closed shift, after the Z report
   (`Cashier_close`; `docs/03-roles-and-workflows.md:55`).
4. A cashier can have two open shifts (`Cashier_shifts`; the check of `open_cashier_shift`).
5. The address of an anonymized guest stays a marketing contact at the provider, with a record that
   says suppressed (`Contacts_erased`; `docs/11-implementation-log.md:499`).
6. Staff who book a room with an e-mailed code, or sign in to the Django admin with a password, get a
   session without the second factor, and the API serves it (`Access_api`;
   `docs/21-mfa-and-token-operations.md:15`).

Three more came out of modelling and are named by the exception of a property that holds:

* A message that was accepted and then reported as deferred is sent again by a worker that had listed
  it before (`SentAgainOnlyIfDeferred`; `docs/07-integrations-and-communications.md:12` has only
  transient failures retried).
* A stay that was amended and is cancelled may owe more than its fee (`CancellationLeavesFee`; of a
  stay that was not amended `reservations/tests_commercial.py:68` says that it owes the fee). There are
  two kinds of such lines (`LateLines`): a line that was zero when the folio was opened and is charged
  after an amendment has posted the difference; and the VAT of a stay without a rate plan that was
  amended before it had a folio, when nothing is posted and the new total has no VAT
  (`reservations/services.py:350-353`). Every other line is covered.
* A stay that is amended after a day was closed changes what was reported of it (`ClosedDaysHold`).

And one is in the model without a property: `docs/07-integrations-and-communications.md:69` says that
webhooks out of order converge to the correct state, but the status of a message is that of the event
handled last (`HookStatus`; `notifications/webhooks.py:60-67`), so a delay that is reported after the
delivery leaves the message as deferred.

## 7. Not modelled, and why

Content pages, billboard, gallery, exports, backups and dashboards read or are plain CRUD. Chat,
receipt printing, task assignment, search filters and timeline entries have no rule that relates two
rows. API tokens and the sign-in throttle only reject. Deactivating a room is in `Reservations`
(`SetSellable`), not in `RoomState`. Concurrent requests of one browser session, forms that no page
posts, and saving a `Payment` in the admin are left out. Settings give the isolation level and the
schedule that the models assume.

Left out beside the modelled commands, so that what is shown does not extend to them:

* an event of the provider without a message id: it would match a message that was never accepted,
  whose id is empty, too (`notifications/webhooks.py:39,46`); in `Outbox` every event carries its id;
* the view set of promotions (`rooms/views.py:104`) and the PATCH of the users' API by an
  administrator save a row as they read it, `times_used` and `merged_into` included:
  `QuoteRowsAgree` and `MergesEnd` are about the other writers;
* two passes of the contact synchronisation at once, after its job was taken over
  (`notifications/jobs.py:39`): `Contacts` has one pass at a time, beside all the requests;
* closing a folio, which only an edit in the admin does: `Correct` takes every folio to be open.

## 8. Plan

Every safety and action property of the runs is proved. What is left, in this order:

1. more abstract specifications beside `RoomNights`, with their refinements proved: a mail that is
   queued and decided (`Outbox`), a journal to which balanced entries are added once (`Folio` and
   `Casework`);
2. the promises that the hazards without a property would need, should the repository state them:
   events without a message id, the rank of suppression reasons, the fields that forms overwrite.
