------------------------- MODULE AccountTierProofs -------------------------
(***************************************************************************)
(* What holds of AccountTier however many transactions overlap on the      *)
(* account: its types, that no clean approval is lost, and that Tier 1 is  *)
(* only ever earned; and what the tier, the progress and the timeline have *)
(* to do with each other until the first overlap.                          *)
(***************************************************************************)
EXTENDS AccountTier, TLAPS

(***************************************************************************)
(* Lemmas: what each kind of transaction writes to the account row, given  *)
(* the row it finds and any row it may have read.                          *)
(***************************************************************************)
\* An escalation leaves an account row, never one at Tier 1 that was not, and takes approvals away
\* only for a trust-damaging rule.
LEMMA EscalationWrites ==
    ASSUME NEW acct \in Account, NEW read \in Account, NEW fired \in HardTriggerRule
    PROVE  LET after == AfterEscalation(acct, read, fired)
           IN  /\ after \in Account
               /\ after.tier = 1 => acct.tier = 1
               /\ fired \notin TrustDamagingRules => after.cleanApprovals = acct.cleanApprovals
BY DEF AfterEscalation, Account, Tiers

\* A trigger leaves an account row, with its approvals, never one at Tier 1 that was not: the row
\* it read was at Tier 1, and nothing is written, or its recommendation is Tier 2.
LEMMA TriggerWrites ==
    ASSUME NEW acct \in Account, NEW read \in Account, NEW score, NEW confidence, NEW compliance
    PROVE  LET recommended == RecommendTier(read.tier = 1, score, confidence, compliance)
               after == AfterTrigger(acct, read, recommended)
           IN  /\ recommended \in {1, 2}
               /\ after \in Account
               /\ after.tier = 1 => acct.tier = 1
               /\ after.cleanApprovals = acct.cleanApprovals
BY DEF RecommendTier, AfterTrigger, Account, Tiers

\* A clean approval leaves an account row with one approval more, at its tier or at an earned Tier 1.
LEMMA ApprovalWrites ==
    ASSUME NEW acct \in Account, NEW score, NEW threshold
    PROVE  LET after == AfterCleanApproval(acct, score, threshold)
           IN  /\ after \in Account
               /\ after.cleanApprovals = acct.cleanApprovals + 1
               /\ \/ after.tier = acct.tier
                  \/ after.tier = 1 /\ after.cleanApprovals >= threshold /\ ScoreQualifies(score)
BY DEF AfterCleanApproval, PromotionEarned, Account, Tiers

(***************************************************************************)
(* The theorems.                                                           *)
(***************************************************************************)
\* Every reachable state has the types of the schema, for any set of overlapping transactions.
THEOREM TypeCorrect == Spec => []TypeOK
<1>1. Init => TypeOK
  <2> SUFFICES ASSUME Init PROVE TypeOK
    OBVIOUS
  <2>1. account \in Account /\ event \in Event /\ Unread \in Account
    BY DEF Init, Account, Event, Tiers, TierHistoryEventType, Unread
  <2>2. QED
    BY <2>1, AccountTierAssumption DEF Init, TypeOK, Kinds, NoRule, NoTarget
<1>2. TypeOK /\ [Next]_vars => TypeOK'
  <2> SUFFICES ASSUME TypeOK, [Next]_vars PROVE TypeOK'
    OBVIOUS
  <2> USE AccountTierAssumption DEF TypeOK, clientVars, Kinds
  <2>0. Unread \in Account
    BY DEF Unread, Account, Tiers
  <2>1. ASSUME NEW c \in Clients, BeginEscalation(c) PROVE TypeOK'
    BY <2>1 DEF BeginEscalation, Begin, Overlap
  <2>2. ASSUME NEW c \in Clients, CommitEscalation(c) PROVE TypeOK'
    <3>1. rule[c] \in HardTriggerRule /\ seen[c] \in Account
      BY <2>2 DEF CommitEscalation
    <3>2. account' \in Account
      BY <2>2, <3>1, EscalationWrites DEF CommitEscalation
    <3>3. event' \in Event
      BY <2>2, <3>1 DEF CommitEscalation, Recorded, Event, Account, Tiers, TierHistoryEventType
    <3>4. QED
      BY <2>0, <2>2, <3>2, <3>3 DEF CommitEscalation, End
  <2>3. ASSUME NEW c \in Clients, SendUnedited(c) PROVE TypeOK'
    BY <2>3 DEF SendUnedited, Overlap
  <2>4. ASSUME NEW c \in Clients, CheckNegativeSignal(c) PROVE TypeOK'
    BY <2>0, <2>4 DEF CheckNegativeSignal, End
  <2>5. ASSUME NEW c \in Clients, CountCleanApproval(c) PROVE TypeOK'
    <3>1. account' \in Account
      BY <2>5, ApprovalWrites DEF CountCleanApproval
    <3>2. event' \in Event
      BY <2>5 DEF CountCleanApproval, Recorded, Event, Account, Tiers, TierHistoryEventType
    <3>3. QED
      BY <2>0, <2>5, <3>1, <3>2 DEF CountCleanApproval, End
  <2>6. ASSUME NEW c \in Clients, BeginTrigger(c) PROVE TypeOK'
    BY <2>6 DEF BeginTrigger, Begin, Overlap
  <2>7. ASSUME NEW c \in Clients, CommitTrigger(c) PROVE TypeOK'
    <3>1. PICK confidence \in Confidence, compliance \in BOOLEAN :
            LET recommended == RecommendTier(seen[c].tier = 1, icpScore, confidence, compliance)
            IN  /\ account' = AfterTrigger(account, seen[c], recommended)
                /\ IF seen[c].tier = 1 THEN UNCHANGED event
                   ELSE Recorded("hold_at_tier", seen[c].tier, recommended)
      BY <2>7 DEF CommitTrigger
    <3>2. account' \in Account
      BY <3>1, TriggerWrites
    <3>3. event' \in Event
      <4>1. CASE seen[c].tier = 1
        BY <3>1, <4>1
      <4>2. CASE seen[c].tier # 1
        <5> DEFINE recommended == RecommendTier(FALSE, icpScore, confidence, compliance)
        <5>1. recommended \in {1, 2} /\ seen[c].tier \in Tiers
          BY DEF RecommendTier, Account
        <5>2. Recorded("hold_at_tier", seen[c].tier, recommended)
          BY <3>1, <4>2
        <5> HIDE DEF recommended
        <5>3. QED
          BY <5>1, <5>2 DEF Recorded, Event, Tiers, TierHistoryEventType
      <4>3. QED
        BY <4>1, <4>2
    <3>4. End(c) /\ UNCHANGED <<icpScore, active, opened, counted, credit, overlapped>>
      BY <2>7 DEF CommitTrigger
    <3>5. QED
      BY <2>0, <3>2, <3>3, <3>4 DEF End
  <2>8. ASSUME NEW c \in Clients, BeginChangeTier(c) PROVE TypeOK'
    BY <2>8 DEF BeginChangeTier, Begin, Overlap, NoTarget
  <2>9. ASSUME NEW c \in Clients, CommitChangeTier(c) PROVE TypeOK'
    <3>1. target[c] \in {2, 3}
      BY <2>9 DEF CommitChangeTier
    <3>2. account' \in Account /\ event' \in Event
      BY <2>9, <3>1 DEF CommitChangeTier, Recorded, Event, Account, Tiers, TierHistoryEventType
    <3>3. QED
      BY <2>0, <2>9, <3>2 DEF CommitChangeTier, End
  <2>10. ASSUME NEW c \in Clients, RollBack(c) PROVE TypeOK'
    BY <2>0, <2>10 DEF RollBack, End
  <2>11. CASE ResolveEscalation
    BY <2>11 DEF ResolveEscalation
  <2>12. CASE UpsertAccount
    BY <2>12 DEF UpsertAccount
  <2>13. CASE UNCHANGED vars
    BY <2>13 DEF vars
  <2>14. QED
    BY <2>1, <2>2, <2>3, <2>4, <2>5, <2>6, <2>7, <2>8, <2>9, <2>10, <2>11, <2>12, <2>13
       DEF Next, ClientStep
<1>3. QED
  BY <1>1, <1>2, PTL DEF Spec

\* However sends, escalations, triggers and overrides overlap, the account keeps at least the clean
\* approvals recorded since the last reset Tier History announces.
THEOREM ApprovalsKept == Spec => []NoApprovalLost
<1>1. Init => NoApprovalLost
  BY DEF Init, NoApprovalLost
<1>2. TypeOK /\ NoApprovalLost /\ [Next]_vars => NoApprovalLost'
  <2> SUFFICES ASSUME TypeOK, NoApprovalLost, [Next]_vars PROVE NoApprovalLost'
    OBVIOUS
  <2> USE DEF NoApprovalLost
  <2>1. ASSUME NEW c \in Clients, CommitEscalation(c) PROVE NoApprovalLost'
    <3>1. rule[c] \in HardTriggerRule /\ seen[c] \in Account /\ account \in Account
      BY <2>1, AccountTierAssumption DEF CommitEscalation, TypeOK
    <3>2. CASE rule[c] \in TrustDamagingRules
      BY <2>1, <3>1, <3>2, EscalationWrites DEF CommitEscalation, Account
    <3>3. CASE rule[c] \notin TrustDamagingRules
      BY <2>1, <3>1, <3>3, EscalationWrites DEF CommitEscalation, Account
    <3>4. QED
      BY <3>2, <3>3
  <2>2. ASSUME NEW c \in Clients, CountCleanApproval(c) PROVE NoApprovalLost'
    BY <2>2, ApprovalWrites DEF CountCleanApproval, TypeOK, Account
  <2>3. ASSUME NEW c \in Clients, CommitTrigger(c) PROVE NoApprovalLost'
    BY <2>3, TriggerWrites DEF CommitTrigger, TypeOK
  <2>4. ASSUME NEW c \in Clients, CommitChangeTier(c) PROVE NoApprovalLost'
    BY <2>4 DEF CommitChangeTier
  <2>5. CASE UNCHANGED <<account, credit>>
    BY <2>5
  <2>6. QED
    BY <2>1, <2>2, <2>3, <2>4, <2>5
       DEF Next, ClientStep, BeginEscalation, SendUnedited, CheckNegativeSignal, BeginTrigger,
           BeginChangeTier, RollBack, Begin, ResolveEscalation, UpsertAccount, vars
<1>3. QED
  BY TypeCorrect, <1>1, <1>2, PTL DEF Spec

\* No transaction, however stale the row it read, brings an account to Tier 1 except a promotion
\* with the approvals and the score it asks for.
THEOREM TierOneIsEarned == Spec => OnlyEarned
<1> DEFINE Earned == account.tier # 1 /\ account'.tier = 1 =>
                        /\ event'.eventType = "promote"
                        /\ account'.cleanApprovals >= Threshold /\ ScoreQualifies(icpScore)
<1>1. TypeOK /\ [Next]_vars => [Earned]_vars
  <2> SUFFICES ASSUME TypeOK, Next, account.tier # 1, account'.tier = 1
               PROVE  /\ event'.eventType = "promote"
                      /\ account'.cleanApprovals >= Threshold /\ ScoreQualifies(icpScore)
    BY DEF vars
  <2>1. ASSUME NEW c \in Clients, CommitEscalation(c) PROVE FALSE
    <3>1. rule[c] \in HardTriggerRule /\ seen[c] \in Account /\ account \in Account
      BY <2>1, AccountTierAssumption DEF CommitEscalation, TypeOK
    <3>2. QED
      BY <2>1, <3>1, EscalationWrites DEF CommitEscalation
  <2>2. ASSUME NEW c \in Clients, CommitTrigger(c) PROVE FALSE
    BY <2>2, TriggerWrites DEF CommitTrigger, TypeOK
  <2>3. ASSUME NEW c \in Clients, CommitChangeTier(c) PROVE FALSE
    BY <2>3 DEF CommitChangeTier, TypeOK, NoTarget
  <2>4. ASSUME NEW c \in Clients, CountCleanApproval(c)
        PROVE  /\ event'.eventType = "promote"
               /\ account'.cleanApprovals >= Threshold /\ ScoreQualifies(icpScore)
    BY <2>4, ApprovalWrites DEF CountCleanApproval, Recorded, TypeOK
  <2>5. CASE UNCHANGED account
    BY <2>5
  <2>6. QED
    BY <2>1, <2>2, <2>3, <2>4, <2>5
       DEF Next, ClientStep, BeginEscalation, SendUnedited, CheckNegativeSignal, BeginTrigger,
           BeginChangeTier, RollBack, Begin, ResolveEscalation, UpsertAccount
<1>2. QED
  BY TypeCorrect, <1>1, PTL DEF Spec, OnlyEarned

(***************************************************************************)
(* Until the first overlap: a transaction is alone, so the row it read is  *)
(* still the row, and a send that found no escalation still finds none.    *)
(***************************************************************************)
Deciding == {"escalate", "trigger", "override"}
Sending == {"signal", "count"}

Consistent ==
    /\ \A c, d \in Clients : pc[c] # "idle" /\ pc[d] # "idle" => c = d
    /\ \A c \in Clients : /\ pc[c] \in Deciding => seen[c] = account
                          /\ pc[c] \in Sending => active = 0
    /\ active > 0 => account.tier # 1
    /\ account.cleanApprovals = credit
    /\ event.toTier = account.tier

SerialInv == ~overlapped => Consistent

\* A transaction that begins alone starts from the row as it is.
LEMMA BeginSerial ==
    ASSUME TypeOK, SerialInv, NEW c \in Clients, pc[c] = "idle", Overlap(c), NEW kind,
           pc' = [pc EXCEPT ![c] = kind], UNCHANGED <<account, active, event, credit>>,
           kind \in Deciding => seen'[c] = account, kind \in Sending => active = 0,
           \A d \in Clients \ {c} : seen'[d] = seen[d]
    PROVE  SerialInv'
<1> SUFFICES ASSUME ~overlapped' PROVE Consistent'
  BY DEF SerialInv
<1>1. Consistent /\ \A d \in Clients \ {c} : pc[d] = "idle"
  BY DEF Overlap, SerialInv
<1>2. \A d \in Clients : pc'[d] = IF d = c THEN kind ELSE "idle"
  BY <1>1 DEF TypeOK
<1>3. QED
  BY <1>1, <1>2 DEF Consistent, Deciding, Sending

\* A transaction that ends alone leaves nobody at work.
LEMMA EndSerial ==
    ASSUME TypeOK, SerialInv, NEW c \in Clients, pc[c] # "idle", End(c), UNCHANGED overlapped,
           ~overlapped => /\ active' > 0 => account'.tier # 1
                          /\ account'.cleanApprovals = credit'
                          /\ event'.toTier = account'.tier
    PROVE  SerialInv'
<1> SUFFICES ASSUME ~overlapped PROVE Consistent'
  BY DEF SerialInv
<1>1. \A d \in Clients \ {c} : pc[d] = "idle"
  BY DEF SerialInv, Consistent
<1>2. \A d \in Clients : pc'[d] = "idle"
  BY <1>1 DEF TypeOK, End
<1>3. QED
  BY <1>2 DEF Consistent, Deciding, Sending

\* No step breaks the agreement of tier, progress and timeline before transactions overlap.
LEMMA SerialInvariant == Spec => []SerialInv
<1>1. Init => SerialInv
  BY DEF Init, SerialInv, Consistent, Deciding, Sending
<1>2. TypeOK /\ SerialInv /\ [Next]_vars => SerialInv'
  <2> SUFFICES ASSUME TypeOK, SerialInv, [Next]_vars PROVE SerialInv'
    OBVIOUS
  <2>1. ASSUME NEW c \in Clients, NEW kind \in Deciding, NEW fired, NEW tier,
               Begin(c, kind, fired, tier)
        PROVE  SerialInv'
    <3>1. seen'[c] = account /\ \A d \in Clients \ {c} : seen'[d] = seen[d]
      BY <2>1 DEF Begin, TypeOK
    <3>2. QED
      BY <2>1, <3>1, BeginSerial DEF Begin, Deciding, Sending
  <2>2. ASSUME NEW c \in Clients, CommitEscalation(c) PROVE SerialInv'
    <3>1. ASSUME ~overlapped
          PROVE  /\ account'.tier = 3 /\ event'.toTier = 3
                 /\ account'.cleanApprovals = credit'
      <4>1. seen[c] = account /\ account.cleanApprovals = credit
        BY <2>2, <3>1 DEF CommitEscalation, SerialInv, Consistent, Deciding
      <4>2. account' = AfterEscalation(account, account, rule[c]) /\ event'.toTier = 3
        BY <2>2, <4>1 DEF CommitEscalation, Recorded
      <4>3. account.cleanApprovals \in Nat
        BY DEF TypeOK, Account
      <4>4. QED
        BY <2>2, <4>1, <4>2, <4>3 DEF CommitEscalation, AfterEscalation
    <3>2. QED
      BY <2>2, <3>1, EndSerial DEF CommitEscalation
  <2>3. ASSUME NEW c \in Clients, SendUnedited(c) PROVE SerialInv'
    BY <2>3, BeginSerial DEF SendUnedited, Deciding
  <2>4. ASSUME NEW c \in Clients, CheckNegativeSignal(c) PROVE SerialInv'
    <3>1. CASE End(c)
      BY <2>4, <3>1, EndSerial DEF CheckNegativeSignal, SerialInv, Consistent
    <3>2. CASE pc' = [pc EXCEPT ![c] = "count"] /\ UNCHANGED seen
      <4>1. \A d \in Clients : /\ pc'[d] = IF d = c THEN "count" ELSE pc[d]
                               /\ seen'[d] = seen[d]
        BY <3>2 DEF TypeOK
      <4>2. pc[c] = "signal" /\ UNCHANGED <<account, active, event, credit, overlapped>>
        BY <2>4 DEF CheckNegativeSignal
      <4>3. QED
        BY <4>1, <4>2 DEF SerialInv, Consistent, Deciding, Sending
    <3>3. QED
      BY <2>4, <3>1, <3>2 DEF CheckNegativeSignal
  <2>5. ASSUME NEW c \in Clients, CountCleanApproval(c) PROVE SerialInv'
    <3>1. ASSUME ~overlapped
          PROVE  /\ ~(active' > 0) /\ account'.cleanApprovals = credit'
                 /\ event'.toTier = account'.tier
      <4>1. active = 0 /\ account.cleanApprovals = credit
        BY <2>5, <3>1 DEF CountCleanApproval, SerialInv, Consistent, Sending
      <4>2. /\ account'.cleanApprovals = account.cleanApprovals + 1
            /\ account'.tier = account.tier \/ account'.tier = 1
        BY <2>5, ApprovalWrites DEF CountCleanApproval, TypeOK
      <4>3. event'.toTier = account'.tier
        BY <2>5, <4>2 DEF CountCleanApproval, Recorded
      <4>4. QED
        BY <2>5, <4>1, <4>2, <4>3 DEF CountCleanApproval
    <3>2. QED
      BY <2>5, <3>1, EndSerial DEF CountCleanApproval
  <2>6. ASSUME NEW c \in Clients, CommitTrigger(c) PROVE SerialInv'
    <3>1. PICK confidence \in Confidence, compliance \in BOOLEAN :
            LET recommended == RecommendTier(seen[c].tier = 1, icpScore, confidence, compliance)
            IN  /\ account' = AfterTrigger(account, seen[c], recommended)
                /\ IF seen[c].tier = 1 THEN UNCHANGED event
                   ELSE Recorded("hold_at_tier", seen[c].tier, recommended)
      BY <2>6 DEF CommitTrigger
    <3>2. ASSUME ~overlapped
          PROVE  /\ active' > 0 => account'.tier # 1
                 /\ account'.cleanApprovals = credit'
                 /\ event'.toTier = account'.tier
      <4>1. seen[c] = account /\ Consistent
        BY <2>6, <3>2 DEF CommitTrigger, SerialInv, Consistent, Deciding
      <4>2. account'.tier = 1 => account.tier = 1
        BY <3>1, TriggerWrites DEF TypeOK
      <4>3. account'.cleanApprovals = account.cleanApprovals
        BY <3>1, TriggerWrites DEF TypeOK
      <4>4. event'.toTier = account'.tier
        BY <3>1, <4>1 DEF AfterTrigger, Recorded, Consistent
      <4>5. QED
        BY <2>6, <4>1, <4>2, <4>3, <4>4 DEF CommitTrigger, Consistent
    <3>3. QED
      BY <2>6, <3>2, EndSerial DEF CommitTrigger
  <2>7. ASSUME NEW c \in Clients, CommitChangeTier(c) PROVE SerialInv'
    <3>1. target[c] \in {2, 3}
      BY <2>7 DEF CommitChangeTier, TypeOK
    <3>2. QED
      BY <2>7, <3>1, EndSerial DEF CommitChangeTier, Recorded, SerialInv, Consistent
  <2>8. ASSUME NEW c \in Clients, RollBack(c) PROVE SerialInv'
    BY <2>8, EndSerial DEF RollBack, SerialInv, Consistent
  <2>9. CASE ResolveEscalation
    <3>1. /\ active > 0 /\ active' = active - 1 /\ active \in Nat
          /\ UNCHANGED <<account, event, pc, seen, credit, overlapped>>
      BY <2>9 DEF ResolveEscalation, clientVars, TypeOK
    <3>2. QED
      BY <3>1 DEF SerialInv, Consistent
  <2>10. CASE UpsertAccount
    BY <2>10 DEF UpsertAccount, clientVars, SerialInv, Consistent
  <2>11. CASE UNCHANGED vars
    BY <2>11 DEF vars, clientVars, SerialInv, Consistent
  <2>12. QED
    BY <2>1, <2>2, <2>3, <2>4, <2>5, <2>6, <2>7, <2>8, <2>9, <2>10, <2>11
       DEF Next, ClientStep, BeginEscalation, BeginTrigger, BeginChangeTier, Deciding
<1>3. QED
  BY TypeCorrect, <1>1, <1>2, PTL DEF Spec

\* Until two transactions overlap, an account with an active escalation is not at Tier 1, whatever
\* sequence of sends, promotions, triggers and overrides came before and after it.
THEOREM EscalationOverrides == Spec => []EscalatedIsNotTierOne
<1>1. SerialInv => EscalatedIsNotTierOne
  BY DEF SerialInv, Consistent, EscalatedIsNotTierOne
<1>2. QED
  BY SerialInvariant, <1>1, PTL

\* Until two transactions overlap, the progress toward Tier 1 is the clean approvals recorded since
\* the last reset that Tier History announces.
THEOREM ProgressIsTheTimelines == Spec => []ProgressMatchesTimeline
<1>1. SerialInv => ProgressMatchesTimeline
  BY DEF SerialInv, Consistent, ProgressMatchesTimeline
<1>2. QED
  BY SerialInvariant, <1>1, PTL

\* Until two transactions overlap, the newest tier event names the tier the account has.
THEOREM TierIsTheTimelines == Spec => []TimelineExplainsTier
<1>1. SerialInv => TimelineExplainsTier
  BY DEF SerialInv, Consistent, TimelineExplainsTier
<1>2. QED
  BY SerialInvariant, <1>1, PTL
=============================================================================
