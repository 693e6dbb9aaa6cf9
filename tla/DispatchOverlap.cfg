\* One message, and everything that can overlap on it.
SPECIFICATION Spec
CONSTANTS
    Messages = {m1}
    Routes = {r1}
    Sweepers = {s1}
    Operators = {u1, u2}
    Revisions = {"rev"}
    MaxEscalations = 1
    MaxCrashes = 1
INVARIANTS OriginalIsAgentText NothingLeavesUndecided AuthorshipKept PauseStopsAutonomousSend
    EscalationStopsSend CleanApprovalsBacked
SYMMETRY Symmetric
