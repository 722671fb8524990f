\* Two rooms, two reservations and one quote over two nights and a midnight:
\* creation, conversion, moves, amendments and transitions against each other.
SPECIFICATION Spec
CONSTANTS
    Rooms = {r1, r2}
    Resv = {b1, b2}
    Quotes = {q1}
    PromoQuotes = {}
    UsageLimit = 0
    Blocks = {}
    ManualBlocks = {}
    Stays <- MCStays
    Txns = {t1, t2}
    Job = job
    Viewers = {}
    None = None
    LastDay = 1
    Closable = {}
SYMMETRY Symmetry
CHECK_DEADLOCK FALSE
INVARIANTS TypeOK NoDoubleBooking
PROPERTIES EndedStaysFrozen ImplementsCalendar
