\* The sweep overlaps a dispatch call that is merely slow.
SPECIFICATION Spec
CONSTANTS
    Messages = {m1}
    Routes = {r1}
    Sweepers = {s1}
    Operators = {u1}
    Revisions = {"rev"}
    MaxEscalations = 1
    MaxCrashes = 0
INVARIANT AtMostOneSend
