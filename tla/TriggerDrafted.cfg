\* Two handlers at once, one of them lost, a message neither of them wrote, and the sweep.
SPECIFICATION Spec
CONSTANTS
    Triggers = {t1, t2}
    Others = {o1}
    SampleRate = 10
    SweepRuns = TRUE
    MaxLosses = 1
SYMMETRY TriggerSymmetry
INVARIANTS  DeadlinesAreReviewed HeldIsReviewed FirstSendIsSampled
CHECK_DEADLOCK FALSE
