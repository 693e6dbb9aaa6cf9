\* One console request and one dispatch at a time, and calls that never arrive: what the promises
\* rest on.
SPECIFICATION FairSpec
CONSTANTS
    Messages = {m1, m2}
    Routes = {}
    Sweepers = {s1}
    Operators = {u1}
    Revisions = {"rev"}
    MaxEscalations = 1
    MaxCrashes = 0
PROPERTIES LifeRefined SweepSettles
