\* One room that is blocked, taken off sale and put back while it is quoted, booked and
\* offered to the waitlist, and the expiry job under fairness (hence no symmetry).
SPECIFICATION WebFairSpec
CONSTANTS
    Rooms = {r1}
    Resv = {b1}
    Quotes = {q1, q2}
    PromoQuotes = {}
    UsageLimit = 0
    Blocks = {k1}
    ManualBlocks = {k1}
    Stays <- MCNight
    Txns = {t1, t2}
    Job = job
    Viewers = {s1}
    None = None
    LastDay = 1
    Closable = {r1}
    Browsers = {}
    AddressOf <- MCAddress
    Passworded = {}
    Waiters = {w1}
    MaxAttempts = 1
    DeskKinds <- Kinds
CHECK_DEADLOCK FALSE
INVARIANTS HoldsExclusive
PROPERTIES SoldOnlyOpen LapsedHoldsEnd
