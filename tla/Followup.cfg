\* One run at a time and what earlier runs left behind; a failed read of the settings is looser.
SPECIFICATION MCSpec
CONSTANTS
    Runs = {r1}
    MaxFollowups = 1
    MinDays = 2
    DefaultMax = 2
    DefaultDays = 1
    LastDay = 3
    MaxRows = 2
INVARIANTS TypeOK WithinMaximum SpacedApart BringsNews ReplyEndsTheCadence
