\* Two connections wherever transactions overlap.  Cashier: one terminal and two shifts of it,
\* an invoice of two units, two payments and two refunds.  Stock: one item at two
\* locations.  Folio: one stay of a night, a discount, a service order, a payment, two refunds.
SPECIFICATION BackSpec
CONSTANTS
    None = None
    Staff <- MCStaff
    RoleOf <- MCRoles
    Terminals = {d1}
    Cashiers <- MCCashiers
    Shifts = {1, 2}
    Invoices = {i1}
    Total <- MCTotal
    Payments = {1, 2}
    Refunds = {1, 2}
    Amounts = {1, 2}
    Floats = {1}
    Txns = {t1, t2}
    CashBound = 0
    Items = {i1}
    CategoryOf <- MCCategory
    Locations = {1, 2}
    MoveKeys = {k1, k2}
    TransferKeys = {x1}
    Quantities = {1}
    Clerks = {t1, t2}
    LedgerBound = 4
    Stays = {s1}
    Nights = {1}
    NightRate = 2
    VatRates = {0, 100}
    Promos = {0}
    Extras = {2}
    FeePercents = {50}
    Discounts = {d1}
    DiscountSums = {1}
    Orders = {o1}
    ItemPrice = 1
    ItemBound = 1
    PaymentIds = {q1}
    MethodOf <- MCMethod
    RefundIds = {1, 2}
    Sums = {1, 2}
    CorrectionSums = {1}
    Repeats = 1
    EntryBound = 4
    Cases = {w1}
    Desks = {t1, t2}
    NetSum = 2
    TaxSum = 1
    PaidWith = "cash"
    HistoryBound = 4
    Emails = {m1}
    Visits = {v1}
    MaxTries = 2
    Members <- MCMembers
    DefaultUsers <- MCDefault
    Linked <- MCDefault
    Browsers = {t1, t2}
    MfaRequired = FALSE
    RecoveryCodes = 0
    MaxAttempts = 1
    LockSteps = 1
    PendingSteps = 0
    LastStep = 1
    Secrets = 1
    Events = {e1, e2}
    Writers = {t1, t2}
    LogBound = 3
    Guests = {1, 2}
    Bookings = {b1}
    Requests = {r1}
    Offices = {t1, t2}
    TableDays = {0, 1, 2, 3}
    TableRows = 3
    LastDay = 2
    Sojourns = {s1}
    Drawers = {1}
    Postings = {2}
    Tills = {3}
    Bills = {4}
    RowBound = 2
    Auditors = {d1}
    ReportBound = 1
SYMMETRY Symmetry
CHECK_DEADLOCK FALSE
INVARIANTS BackTypeOK PaymentsTrue OneShiftPerTerminal CashMatchesPayments
    LedgerExplainsBalance NoTransferCycle EachEntryJournaled FolioExplained CancellationLeavesFee HistoryExplainsStatus
    BooksReconciled ClosedDaysHold SyncedAtProvider CodeAcceptedOnce PortalProven ChainHolds MergesEnd
PROPERTIES ZReportComplete ErasedWithoutStay
