\* Two guests with consecutive nights in one room.
SPECIFICATION DeskSpec
CONSTANTS
    g1 = g1
    g2 = g2
    r1 = r1
    Rooms = {r1, r2}
    Guests = {g1, g2}
    Home <- MCHome
    Dates <- MCDates
    Tasks = {t1}
    Tickets = {}
    Busy = {r1}
    LastDay = 1
    None = None
    Staff <- MCStaff
    RoleOf <- MCRoles
CHECK_DEADLOCK FALSE
PROPERTY CheckInToReadyRoom
