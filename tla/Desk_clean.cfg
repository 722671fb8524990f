\* A stay with a cleaning during it and one after it.
SPECIFICATION DeskSpec
CONSTANTS
    g1 = g1
    g2 = g2
    r1 = r1
    Rooms = {r1, r2}
    Guests = {g1, g2}
    Home <- MCHome
    Dates <- MCDates
    Tasks = {t1, t2}
    Tickets = {}
    Busy = {r1}
    LastDay = 1
    None = None
    Staff <- MCStaff
    RoleOf <- MCRoles
CHECK_DEADLOCK FALSE
INVARIANT AvailableIsClean
