\* A cron run and one by hand, which may overlap; a retention of one day, over three days.
SPECIFICATION Spec
CONSTANTS
    Nightly = {n1}
    ByHand = {h1}
    RetentionDays = 1
    Faults = {"tiny", "unreadable", "foreign"}
    LastDay = 3
    MaxRuns = 3
CHECK_DEADLOCK FALSE
INVARIANTS TypeOK HeartbeatMeansRestorable NoSilentEnd
