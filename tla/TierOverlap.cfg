\* Two transactions on one account, overlapping or not.
SPECIFICATION Spec
CONSTANTS
    Clients = {c1, c2}
    Scores = {60, 80}
    Rules = {"pricing_question", "negative_sentiment"}
    Threshold = 2
    MaxEscalations = 2
    MaxApprovals = 3
SYMMETRY Symmetric
INVARIANTS NoApprovalLost EscalatedIsNotTierOne ProgressMatchesTimeline TimelineExplainsTier
PROPERTIES OnlyEarned
