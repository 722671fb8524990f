\* Two guests, two rooms, two housekeeping tasks and one ticket, with
\* edits of one room in between.
SPECIFICATION DeskSpec
CONSTANTS
    g1 = g1
    g2 = g2
    r1 = r1
    Rooms = {r1, r2}
    Guests = {g1, g2}
    Home <- MCHome
    Dates <- MCDates
    Tasks = {t1, t2}
    Tickets = {k1}
    Busy = {r1}
    LastDay = 1
    None = None
    Staff <- MCStaff
    RoleOf <- MCRoles
SYMMETRY Symmetry
CHECK_DEADLOCK FALSE
INVARIANTS TypeOK AvailableIsReady OccupiedHasGuest DirtyRoomQueued BlockFollowsTicket
PROPERTIES NotIntoRepairs
