------------------------------- MODULE Policy -------------------------------
(***************************************************************************)
(* The pure decisions of packages/domain: which tier a trigger recommends, *)
(* whether one message may leave unreviewed, whether a reply escalates,    *)
(* and what the tier-changing transactions write to the account row.  No   *)
(* state: the state machines apply these operators to what they have read. *)
(***************************************************************************)
EXTENDS Schema

(***************************************************************************)
(* Tiering.                                                                *)
(***************************************************************************)
BaseTier(icpScore, confidence) == IF icpScore >= 70 /\ confidence = "high" THEN 1 ELSE 2

\* The rollout overlay and the compliance cap only ever lower a base Tier 1 to Tier 2.
RecommendTier(earned, icpScore, confidence, compliance) ==
    IF BaseTier(icpScore, confidence) = 1 /\ earned /\ ~compliance THEN 1 ELSE 2

\* The score judgment promotion asks for: the recommendation with the overlay suppressed.
ScoreQualifies(icpScore) == RecommendTier(TRUE, icpScore, "high", FALSE) = 1

(***************************************************************************)
(* What the tier-changing transactions write.  "seen" is the account row   *)
(* as the transaction read it, "acct" the row its update finds.            *)
(***************************************************************************)
\* Bug: one clean approval short.
PromotionOffByOne(acct, icpScore, threshold) ==
    /\ acct.tier # 1
    /\ acct.cleanApprovals + 1 >= threshold
    /\ ScoreQualifies(icpScore)

PromotionEarned(acct, icpScore, threshold) ==
    /\ acct.tier # 1
    /\ acct.cleanApprovals >= threshold
    /\ ScoreQualifies(icpScore)

AfterCleanApproval(acct, icpScore, threshold) ==
    LET counted == [tier |-> acct.tier, cleanApprovals |-> acct.cleanApprovals + 1]
    IN  IF PromotionEarned(counted, icpScore, threshold)
        THEN [tier |-> 1, cleanApprovals |-> counted.cleanApprovals]
        ELSE counted

TrustDamagingRules == {"negative_sentiment", "relationship_conflict"}

\* Bugs: Tier 1 is kept; progress is kept; progress is lost whatever rule fired.
EscalationKeepsTierOne(acct, seen, rule) ==
    [tier |-> IF seen.tier = 2 THEN 3 ELSE acct.tier,
     cleanApprovals |->
         IF rule \in TrustDamagingRules /\ seen.cleanApprovals > 0
         THEN 0 ELSE acct.cleanApprovals]

EscalationKeepsProgress(acct, seen, rule) ==
    [tier |-> IF seen.tier # 3 THEN 3 ELSE acct.tier, cleanApprovals |-> acct.cleanApprovals]

EscalationAlwaysResets(acct, seen, rule) ==
    [tier |-> IF seen.tier # 3 THEN 3 ELSE acct.tier, cleanApprovals |-> 0]

AfterEscalation(acct, seen, rule) ==
    [tier |-> IF seen.tier # 3 THEN 3 ELSE acct.tier,
     cleanApprovals |->
         IF rule \in TrustDamagingRules /\ seen.cleanApprovals > 0
         THEN 0 ELSE acct.cleanApprovals]

\* An account at Tier 1 keeps its tier; any other takes the recommended one.
AfterTrigger(acct, seen, recommended) ==
    IF seen.tier = 1 \/ seen.tier = recommended
    THEN acct
    ELSE [tier |-> recommended, cleanApprovals |-> acct.cleanApprovals]

(***************************************************************************)
(* The autonomous-send gate.  The order of the reasons is the code's.      *)
(***************************************************************************)
EvaluateAutonomousSend(enabled, escalated, compliance, confidence, hasEmail) ==
    IF ~hasEmail THEN "no_contact_email"
    ELSE IF ~enabled THEN "autonomous_paused_hold"
    ELSE IF escalated THEN "escalation_hold"
    ELSE IF compliance THEN "compliance_deadline_content"
    ELSE IF confidence # "high" THEN "low_confidence_hold"
    ELSE "send"

HoldReasons == {"autonomous_paused_hold", "escalation_hold", "compliance_deadline_content",
                "low_confidence_hold"}

\* The roll is Math.random() in whole percents, 0..99.
ShouldSampleSend(ratePercent, isFirst, roll) == isFirst \/ roll < ratePercent

(***************************************************************************)
(* The hard-trigger decision on a classified reply.  "none" is the answer  *)
(* that nothing fires; every failure to classify escalates as uncertain.   *)
(***************************************************************************)
ConfidenceRank == [low |-> 1, mid |-> 2, high |-> 3]
FloorRank == [Low |-> 1, Medium |-> 2, High |-> 3]

BelowFloor(answer, floor) ==
    answer.rule = "negative_sentiment" /\ ConfidenceRank[answer.confidence] < FloorRank[floor]

DecideHardTrigger(answer, floor) ==
    IF ~answer.parsed \/ answer.confidence = "low" THEN "classification_uncertain"
    ELSE IF ~answer.english THEN "non_english_language"
    ELSE IF ~answer.fires \/ answer.rule = "none" THEN "none"
    ELSE IF BelowFloor(answer, floor) THEN "classification_uncertain"
    ELSE answer.rule
=============================================================================
