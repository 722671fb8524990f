\* Two quotes with the last use of a promotion, for two rooms and one night:
\* conversion, release and expiry of quotes against each other.
SPECIFICATION WebSpec
CONSTANTS
    Rooms = {r1, r2}
    Resv = {b1, b2}
    Quotes = {q1, q2}
    PromoQuotes = {q1, q2}
    UsageLimit = 1
    Blocks = {}
    ManualBlocks = {}
    Stays <- MCNight
    Txns = {t1, t2}
    Job = job
    Viewers = {s1}
    None = None
    LastDay = 0
    Closable = {}
    Browsers = {v1, v2}
    AddressOf <- MCAddress
    Passworded = {v1}
    Waiters = {}
    MaxAttempts = 2
    DeskKinds = {"convert"}
SYMMETRY Symmetry
CHECK_DEADLOCK FALSE
INVARIANTS QuoteRowsAgree AskedHasRoom
PROPERTIES QuoteDecidedOnce
