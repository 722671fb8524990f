\* One address, one request at a time, and the job.
SPECIFICATION ContactSpec
CONSTANTS
    None = None
    Staff <- MCStaff
    RoleOf <- MCRoles
    Emails = {m1}
    Visits = {v1}
    MaxTries = 2
CHECK_DEADLOCK FALSE
INVARIANT SuppressedAtProvider
