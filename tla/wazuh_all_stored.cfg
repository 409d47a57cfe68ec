SPECIFICATION FairSpec
CONSTANTS
    Alerts = {a1, a2, bad, no}
    Malformed = {bad}
    Unstorable = {no}
    BatchSize = 1
    MaxPages = 2
    Overlap = 1
    FirstWindow = 1
    Lateness = 2
    RunTime = 2
    MaxTime = 2
    FailureKinds = {"request", "bulk_create", "crash"}
    MaxFailures = 1
    None = None
    Idle = Idle
PROPERTIES
    HonestPoll
    EventuallyStored
