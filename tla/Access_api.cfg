\* The manager and two browsers; one enrolment with one recovery code.
SPECIFICATION AccessSpec
CONSTANTS
    None = None
    Staff <- MCStaff
    RoleOf <- MCRoles
    Members <- MCMembers
    DefaultUsers <- MCMembers
    Linked <- MCMembers
    Browsers = {b1, b2}
    MfaRequired = TRUE
    RecoveryCodes = 1
    MaxAttempts = 2
    LockSteps = 1
    PendingSteps = 0
    LastStep = 1
    Secrets = 1
CHECK_DEADLOCK FALSE
INVARIANT ApiProven
