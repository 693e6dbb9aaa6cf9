---------------------------- MODULE AccountTier ----------------------------
(***************************************************************************)
(* One account's standing: its tier, the clean approvals it has earned and *)
(* the Tier History that explains them, under the transactions that write  *)
(* them.                                                                   *)
(*                                                                         *)
(* Every transaction runs at Postgres' default isolation, read committed:  *)
(* it reads the account row without a lock, decides, and later updates the *)
(* row by id.  Nobody sees its writes before it commits and an update      *)
(* waits for the row's lock, so a transaction is two steps here: what it   *)
(* read, and what it commits.  Others commit in between.                   *)
(***************************************************************************)
EXTENDS Policy

CONSTANTS
    Clients,         \* transactions that may be in progress at the same time
    Scores,          \* the values Account.icpScore takes
    Rules,           \* the hard-trigger rules that fire
    Threshold,       \* Setting.tier1PromotionThreshold
    MaxEscalations,  \* bound: none opens once so many were opened
    MaxApprovals     \* bound: none is sent once so many were counted

ASSUME AccountTierAssumption ==
    /\ Scores \subseteq 0..100
    /\ Rules \subseteq HardTriggerRule
    /\ Threshold \in Nat \ {0}
    /\ MaxEscalations \in Nat /\ MaxApprovals \in Nat

VARIABLES
    account,     \* currentTier and cleanApprovalsCount
    icpScore,
    active,      \* active escalations of the account
    opened,      \* escalations ever opened
    event,       \* the newest TierHistoryEvent about the account's tier, not one draft's
    pc, seen,    \* each transaction: its kind, and the account row as it read it
    rule,        \* each escalation: the rule that fired
    target,      \* each override: the tier asked for
    since,       \* each send: how many escalations there were when its message was written
    counted,     \* clean_approval events
    credit,      \* history: clean approvals since Tier History last announced a reset
    overlapped   \* history: a transaction began while another one was in progress

clientVars == <<pc, seen, rule, target, since>>
vars == <<account, icpScore, active, opened, event, clientVars, counted, credit, overlapped>>

Account == [tier: Tiers, cleanApprovals: Nat]
Event == [eventType: TierHistoryEventType, fromTier: Tiers, toTier: Tiers]
NoRule == "none"
NoTarget == 0
Unread == [tier |-> 2, cleanApprovals |-> 0]

Recorded(eventType, fromTier, toTier) ==
    event' = [eventType |-> eventType, fromTier |-> fromTier, toTier |-> toTier]

Init ==
    /\ account = [tier |-> 2, cleanApprovals |-> 0]
    /\ icpScore \in Scores
    /\ active = 0 /\ opened = 0
    /\ event = [eventType |-> "create", fromTier |-> 2, toTier |-> 2]
    /\ pc = [c \in Clients |-> "idle"]
    /\ seen = [c \in Clients |-> Unread]
    /\ rule = [c \in Clients |-> NoRule]
    /\ target = [c \in Clients |-> NoTarget]
    /\ since = [c \in Clients |-> 0]
    /\ counted = 0 /\ credit = 0 /\ overlapped = FALSE

Overlap(c) == overlapped' = (overlapped \/ \E d \in Clients \ {c} : pc[d] # "idle")

\* The transaction reads the row; what it decides from it, it writes at its commit.
Begin(c, kind, hardTrigger, tier) ==
    /\ pc[c] = "idle"
    /\ pc' = [pc EXCEPT ![c] = kind]
    /\ seen' = [seen EXCEPT ![c] = account]
    /\ rule' = [rule EXCEPT ![c] = hardTrigger]
    /\ target' = [target EXCEPT ![c] = tier]
    /\ Overlap(c)
    /\ UNCHANGED <<account, icpScore, active, opened, event, since, counted, credit>>

End(c) ==
    /\ pc' = [pc EXCEPT ![c] = "idle"]
    /\ seen' = [seen EXCEPT ![c] = Unread]
    /\ rule' = [rule EXCEPT ![c] = NoRule]
    /\ target' = [target EXCEPT ![c] = NoTarget]
    /\ since' = [since EXCEPT ![c] = 0]

(***************************************************************************)
(* A hard trigger fires: openEscalation.                                   *)
(***************************************************************************)
BeginEscalation(c) ==
    /\ opened < MaxEscalations
    /\ \E fired \in Rules : Begin(c, "escalate", fired, NoTarget)

CommitEscalation(c) ==
    /\ pc[c] = "escalate"
    /\ account' = AfterEscalation(account, seen[c], rule[c])
    /\ active' = active + 1
    /\ opened' = opened + 1
    /\ Recorded("escalate", seen[c].tier, 3)
    /\ credit' = IF rule[c] \in TrustDamagingRules THEN 0 ELSE credit
    /\ End(c)
    /\ UNCHANGED <<icpScore, counted, overlapped>>

\* Resolving closes the escalation and leaves the tier alone.
ResolveEscalation ==
    /\ active > 0
    /\ active' = active - 1
    /\ UNCHANGED <<account, icpScore, opened, event, clientVars, counted, credit, overlapped>>

(***************************************************************************)
(* An unedited Tier 2 draft goes out: the dispatch finds no active         *)
(* escalation, sends, and recordCleanApproval looks for an escalation      *)
(* since the message was written before it counts.                         *)
(***************************************************************************)
SendUnedited(c) ==
    /\ pc[c] = "idle" /\ active = 0 /\ counted < MaxApprovals
    /\ pc' = [pc EXCEPT ![c] = "signal"]
    /\ Overlap(c)
    /\ \E written \in 0..opened : since' = [since EXCEPT ![c] = written]
    /\ UNCHANGED <<account, icpScore, active, opened, event, seen, rule, target, counted, credit>>

CheckNegativeSignal(c) ==
    /\ pc[c] = "signal"
    /\ IF opened > since[c]
       THEN End(c)
       ELSE pc' = [pc EXCEPT ![c] = "count"] /\ UNCHANGED <<seen, rule, target, since>>
    /\ UNCHANGED <<account, icpScore, active, opened, event, counted, credit, overlapped>>

\* The increment locks the row: from here to the commit the transaction reads its own write.
CountCleanApproval(c) ==
    /\ pc[c] = "count"
    /\ account' = AfterCleanApproval(account, icpScore, Threshold)
    /\ IF account'.tier = account.tier
       THEN Recorded("clean_approval", account.tier, account.tier)
       ELSE Recorded("promote", account.tier, 1)
    /\ counted' = counted + 1
    /\ credit' = credit + 1
    /\ End(c)
    /\ UNCHANGED <<icpScore, active, opened, overlapped>>

(***************************************************************************)
(* A trigger arrives: the account's particulars are upserted, then         *)
(* recordIncomingTrigger tiers it.                                         *)
(***************************************************************************)
UpsertAccount ==
    /\ \E score \in Scores \ {icpScore} : icpScore' = score
    /\ UNCHANGED <<account, active, opened, event, clientVars, counted, credit, overlapped>>

BeginTrigger(c) == Begin(c, "trigger", NoRule, NoTarget)

\* An account read at Tier 1 keeps its tier, and the event says what this draft is held at.
CommitTrigger(c) ==
    /\ pc[c] = "trigger"
    /\ \E confidence \in Confidence, compliance \in BOOLEAN :
          LET recommended == RecommendTier(seen[c].tier = 1, icpScore, confidence, compliance)
          IN  /\ account' = AfterTrigger(account, seen[c], recommended)
              /\ IF seen[c].tier = 1 THEN UNCHANGED event
                 ELSE Recorded("hold_at_tier", seen[c].tier, recommended)
    /\ End(c)
    /\ UNCHANGED <<icpScore, active, opened, counted, credit, overlapped>>

(***************************************************************************)
(* A human overrides the tier, to 2 or 3.  The check and the read come     *)
(* before the transaction.                                                 *)
(***************************************************************************)
BeginChangeTier(c) ==
    \E tier \in {2, 3} : account.tier # tier /\ Begin(c, "override", NoRule, tier)

\* Bug: the event has its tiers the wrong way round.
CommitChangeTierBackwards(c) ==
    /\ pc[c] = "override"
    /\ account' = [tier |-> target[c], cleanApprovals |-> account.cleanApprovals]
    /\ Recorded("manual_override", target[c], seen[c].tier)
    /\ End(c)
    /\ UNCHANGED <<icpScore, active, opened, counted, credit, overlapped>>

CommitChangeTier(c) ==
    /\ pc[c] = "override"
    /\ account' = [tier |-> target[c], cleanApprovals |-> account.cleanApprovals]
    /\ Recorded("manual_override", seen[c].tier, target[c])
    /\ End(c)
    /\ UNCHANGED <<icpScore, active, opened, counted, credit, overlapped>>

\* A transaction fails, or its process dies: nothing of it stays.
RollBack(c) ==
    /\ pc[c] # "idle"
    /\ End(c)
    /\ UNCHANGED <<account, icpScore, active, opened, event, counted, credit, overlapped>>

ClientStep(c) ==
    \/ BeginEscalation(c) \/ CommitEscalation(c)
    \/ SendUnedited(c) \/ CheckNegativeSignal(c) \/ CountCleanApproval(c)
    \/ BeginTrigger(c) \/ CommitTrigger(c)
    \/ BeginChangeTier(c) \/ CommitChangeTier(c)
    \/ RollBack(c)

Next == ResolveEscalation \/ UpsertAccount \/ \E c \in Clients : ClientStep(c)

Spec == Init /\ [][Next]_vars

(***************************************************************************)
(* What survives every interleaving of the transactions.                   *)
(***************************************************************************)
Kinds == {"idle", "escalate", "signal", "count", "trigger", "override"}

\* Every variable has its type, and a transaction in progress has what its kind needs.
TypeOK ==
    /\ account \in Account
    /\ icpScore \in Scores
    /\ active \in Nat /\ opened \in Nat /\ counted \in Nat /\ credit \in Nat
    /\ event \in Event
    /\ pc \in [Clients -> Kinds]
    /\ seen \in [Clients -> Account]
    /\ rule \in [Clients -> HardTriggerRule \cup {NoRule}]
    /\ target \in [Clients -> {NoTarget, 2, 3}]
    /\ \A c \in Clients : /\ pc[c] = "escalate" => rule[c] \in Rules
                          /\ pc[c] = "override" => target[c] # NoTarget
    /\ since \in [Clients -> Nat]
    /\ overlapped \in BOOLEAN

\* Sends, escalations and overrides that overlap never lose a clean approval: the account has at
\* least the approvals recorded since the last reset its history shows.
NoApprovalLost == account.cleanApprovals >= credit

\* Earning is the only route to Tier 1: however stale the row a transaction decided on, an account
\* reaches Tier 1 only by a promotion, with the approvals and the score it asks for.
OnlyEarned ==
    [][account.tier # 1 /\ account'.tier = 1 =>
          /\ event'.eventType = "promote"
          /\ account'.cleanApprovals >= Threshold /\ ScoreQualifies(icpScore)]_vars

(***************************************************************************)
(* What holds until transactions on the account first overlap.  Nothing in *)
(* the code keeps them from overlapping.                                   *)
(***************************************************************************)
\* While an escalation is active the account is not at Tier 1.
EscalatedIsNotTierOne == ~overlapped /\ active > 0 => account.tier # 1

\* The progress toward Tier 1 is what Tier History says: the clean approvals since the last reset
\* it announces.
ProgressMatchesTimeline == ~overlapped => account.cleanApprovals = credit

\* The newest tier event explains the account's tier.
TimelineExplainsTier == ~overlapped => event.toTier = account.tier

(***************************************************************************)
(* What open-escalation.ts:25-26 says of every interleaving: hard triggers *)
(* "override tier, always".                                                *)
(***************************************************************************)
\* Whatever overlaps, an account with an active escalation is not at Tier 1.  It does not hold.
HardTriggersAlwaysOverride == active > 0 => account.tier # 1
=============================================================================
