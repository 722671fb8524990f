\* One message, two processes, webhook calls, one crash or exception.
SPECIFICATION FairSpec
CONSTANTS
    Messages = {m1}
    Marketing = {m1}
    Senders = {p1, p2}
    Hooks = {h1}
    Events = {"soft_bounce", "complaint"}
    MaxAttempts = 2
    MaxFailures = 1
    MaxCrashes = 1
    None = None
CHECK_DEADLOCK FALSE
INVARIANTS TypeOK RetriesBudgeted EventAppliedOnce
PROPERTIES SentAgainOnlyIfDeferred QueuedDecided
