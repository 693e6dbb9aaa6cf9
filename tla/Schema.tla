------------------------------- MODULE Schema -------------------------------
(***************************************************************************)
(* The enumerations of the Prisma schema and the few names the application *)
(* code compares against.  Every other module takes its values from here.  *)
(***************************************************************************)
EXTENDS Naturals

MessageRole == {"agent_draft", "agent_sent", "buyer_inbound", "human_reply"}

MessageStatus == {"pending_review", "approved", "rejected", "sent", "needs_triage"}

Tiers == 1..3

Confidence == {"high", "mid", "low"}

TriggerStatus ==
    {"new", "processing", "drafted", "superseded", "needs_triage", "sequence_ended"}

SentimentFloor == {"Low", "Medium", "High"}

\* The rules a classification can fire; the schema also names two rules no code path raises.
HardTriggerRule ==
    {"pricing_question", "technical_compliance_question", "negative_sentiment",
     "relationship_conflict", "non_english_language", "classification_uncertain"}

TierHistoryEventType ==
    {"create", "clean_approval", "promote", "demote", "escalate", "hold_at_tier",
     "current_draft", "manual_override"}

\* Message.decidedBy: nobody yet, a named console user, or the worker itself.
SystemDecider == "system (autonomous)"
Deciders == {"nobody", "human", SystemDecider}
=============================================================================
