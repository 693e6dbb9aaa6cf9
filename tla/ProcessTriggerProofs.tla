------------------------ MODULE ProcessTriggerProofs ------------------------
(***************************************************************************)
(* What holds of ProcessTrigger for any finite number of triggers of an    *)
(* account, any sample rate, and any losses: the type invariant, that      *)
(* deadlines and held drafts are reviewed, that a trigger tells what       *)
(* became of it, and that the first unreviewed send is sampled where no    *)
(* other message at Tier 1 came before it and the sweep did not send it.   *)
(***************************************************************************)
EXTENDS ProcessTrigger, FiniteSetTheorems, TLAPS

(***************************************************************************)
(* Lemmas.                                                                 *)
(***************************************************************************)
\* The account's messages are those of the triggers and the others, and no message is both.
LEMMA Ids == /\ Triggers \subseteq MessageIds /\ Others \subseteq MessageIds
             /\ \A r \in MessageIds : r \in Triggers \/ r \in Others
             /\ \A t \in Triggers, o \in Others : t # o
BY ProcessTriggerAssumption DEF MessageIds

\* The count of sends at Tier 1 is a number.
LEMMA CountType == Cardinality(SentAtTier1) \in Nat
<1>1. IsFiniteSet(MessageIds)
  BY ProcessTriggerAssumption, FS_Union DEF MessageIds
<1>2. IsFiniteSet(SentAtTier1)
  BY <1>1, FS_Subset DEF SentAtTier1
<1>3. QED
  BY <1>2, FS_CardinalityType

\* A handler that moves on keeps its shape, with what it has read so far or something new.
LEMMA HandlerMoves ==
    ASSUME NEW h \in [Triggers -> Handler], NEW t \in Triggers, NEW step \in Steps
    PROVE  /\ [h EXCEPT ![t].step = step] \in [Triggers -> Handler]
           /\ [h EXCEPT ![t] = Fresh(step)] \in [Triggers -> Handler]
           /\ \A confidence \in Confidence :
                 [h EXCEPT ![t].confidence = confidence, ![t].step = step] \in [Triggers -> Handler]
           /\ \A open \in BOOLEAN :
                 [h EXCEPT ![t].open = open, ![t].step = step] \in [Triggers -> Handler]
           /\ \A prior \in Nat :
                 [h EXCEPT ![t] = [Fresh(step) EXCEPT !.prior = prior]] \in [Triggers -> Handler]
           /\ \A read \in Tiers :
                 [h EXCEPT ![t] = [Fresh(step) EXCEPT !.tier = read]] \in [Triggers -> Handler]
           /\ \A read \in Tiers, email \in BOOLEAN :
                 [h EXCEPT ![t] = [Fresh(step) EXCEPT !.tier = read, !.email = email]]
                    \in [Triggers -> Handler]
<1>1. Fresh(step) \in Handler
  BY DEF Handler, Fresh, Confidence, Tiers
<1>2. /\ \A read \in Tiers, email \in BOOLEAN :
            [Fresh(step) EXCEPT !.tier = read, !.email = email] \in Handler
      /\ \A read \in Tiers : [Fresh(step) EXCEPT !.tier = read] \in Handler
      /\ \A prior \in Nat : [Fresh(step) EXCEPT !.prior = prior] \in Handler
  BY <1>1 DEF Handler
<1>3. [h EXCEPT ![t].step = step] \in [Triggers -> Handler]
  BY DEF Handler
<1>4. \A confidence \in Confidence :
         [h EXCEPT ![t].confidence = confidence, ![t].step = step] \in [Triggers -> Handler]
  BY DEF Handler
<1>5. \A open \in BOOLEAN :
         [h EXCEPT ![t].open = open, ![t].step = step] \in [Triggers -> Handler]
  BY DEF Handler
<1>6. QED
  BY <1>1, <1>2, <1>3, <1>4, <1>5

\* What a step creates, sends or decides leaves a Message row.
LEMMA MessageMoves ==
    ASSUME NEW m \in [MessageIds -> MessageRow], NEW t \in MessageIds
    PROVE  /\ \A status \in MessageStatus :
                 /\ [m EXCEPT ![t].status = status] \in [MessageIds -> MessageRow]
                 /\ [m EXCEPT ![t].status = status, ![t].decidedBy = "human"]
                       \in [MessageIds -> MessageRow]
           /\ \A status \in MessageStatus, tierContext \in Tiers, decidedBy \in Deciders,
                 held \in BOOLEAN :
                 [m EXCEPT ![t] = [status |-> status, tierContext |-> tierContext,
                                   decidedBy |-> decidedBy, held |-> held]]
                    \in [MessageIds -> MessageRow]
BY DEF MessageRow, Deciders

\* What each action does to its own handler; it leaves every other trigger's alone.
LEMMA Effects ==
    ASSUME TypeOK, NEW u \in Triggers
    PROVE  /\ RecordIncomingTrigger(u) => handler'[u].step = "called"
           /\ Lose(u) => handler'[u].step = "dead"
           /\ FindTrigger(u) => handler'[u].step = "draft"
           /\ DraftMessage(u) => /\ handler'[u].step \in {"triage", "file", "gate"}
                                 /\ handler'[u].step = "file" => handler'[u].tier # 1
           /\ ReadSettings(u) => handler'[u].step = "escalation"
           /\ Decide(u) => /\ handler'[u].step \in {"approve", "hold", "triage"}
                           /\ handler'[u].step = "approve" => ~trigger[u].compliance
           /\ FileForReview(u) \/ HoldForApproval(u) \/ Sample(u) => handler'[u].step = "close"
           /\ ApproveAutonomously(u) => handler'[u].step = "count"
           /\ CountPriorSends(u) => /\ handler'[u].step = "dispatch"
                                    /\ handler'[u].prior = Cardinality(SentAtTier1)
           /\ Dispatch(u) => /\ handler'[u].step \in {"sample", "close"}
                             /\ handler'[u].step = "sample" =>
                                   /\ handler'[u].prior = handler[u].prior
                                   /\ message[u].status = "approved" /\ MaySend(u) /\ Send(u)
                             /\ handler'[u].step = "close" => UNCHANGED <<message, first, preceded>>
           /\ NeedsTriage(u) \/ Drafted(u) => handler'[u].step = "done"
           /\ RecordIncomingTrigger(u) \/ Lose(u) \/ Handle(u) =>
                 \A t \in Triggers \ {u} : handler'[t] = handler[t]
<1> USE DEF GoTo, Fresh
<1>0. handler \in [Triggers -> Handler] /\ handler[u] \in Handler
  BY DEF TypeOK
<1>1. RecordIncomingTrigger(u) => handler'[u].step = "called"
  BY <1>0 DEF RecordIncomingTrigger
<1>2. Lose(u) => handler'[u].step = "dead"
  BY <1>0 DEF Lose
<1>3. FindTrigger(u) => handler'[u].step = "draft"
  BY <1>0 DEF FindTrigger
<1>4. DraftMessage(u) => /\ handler'[u].step \in {"triage", "file", "gate"}
                         /\ handler'[u].step = "file" => handler'[u].tier # 1
  <2>1. CASE GoTo(u, "triage")
    BY <1>0, <2>1
  <2>2. CASE /\ handler[u].tier # 1
             /\ handler' = [handler EXCEPT ![u] = [Fresh("file") EXCEPT !.tier = handler[u].tier]]
    <3>1. handler'[u] = [Fresh("file") EXCEPT !.tier = handler[u].tier]
      BY <1>0, <2>2
    <3>2. handler'[u].step = "file" /\ handler'[u].tier = handler[u].tier
      BY <3>1
    <3>3. QED
      BY <2>2, <3>2
  <2>3. ASSUME NEW confidence \in Confidence,
               handler' = [handler EXCEPT ![u].confidence = confidence, ![u].step = "gate"]
        PROVE  handler'[u].step = "gate"
    BY <1>0, <2>3 DEF Handler
  <2>4. QED
    BY <2>1, <2>2, <2>3 DEF DraftMessage
<1>5. ReadSettings(u) => handler'[u].step = "escalation"
  BY <1>0 DEF ReadSettings, Handler
<1>6. Decide(u) => /\ handler'[u].step \in {"approve", "hold", "triage"}
                   /\ handler'[u].step = "approve" => ~trigger[u].compliance
  <2> DEFINE decision == EvaluateAutonomousSend(handler[u].open, blocked, trigger[u].compliance,
                                                handler[u].confidence, handler[u].email)
             step == IF decision = "send" THEN "approve"
                     ELSE IF decision \in HoldReasons THEN "hold" ELSE "triage"
  <2>1. trigger[u].compliance \in BOOLEAN
    BY DEF TypeOK, TriggerRow
  <2>2. decision = "send" => ~trigger[u].compliance
    BY <2>1 DEF EvaluateAutonomousSend
  <2>3. Decide(u) => handler' = [handler EXCEPT ![u] = Fresh(step)]
    BY DEF Decide
  <2>4. step \in {"approve", "hold", "triage"} /\ (step = "approve" => decision = "send")
    OBVIOUS
  <2> HIDE DEF decision, step
  <2>5. Decide(u) => handler'[u].step = step
    BY <1>0, <2>3
  <2>6. QED
    BY <2>2, <2>4, <2>5
<1>7. FileForReview(u) \/ HoldForApproval(u) \/ Sample(u) => handler'[u].step = "close"
  <2>1. FileForReview(u) \/ HoldForApproval(u) \/ Sample(u) => GoTo(u, "close")
    BY DEF FileForReview, HoldForApproval, Sample
  <2>2. QED
    BY <1>0, <2>1
<1>8. ApproveAutonomously(u) => handler'[u].step = "count"
  BY <1>0 DEF ApproveAutonomously, Handler
<1>9. CountPriorSends(u) => /\ handler'[u].step = "dispatch"
                            /\ handler'[u].prior = Cardinality(SentAtTier1)
  BY <1>0 DEF CountPriorSends, Handler
<1>10. Dispatch(u) => /\ handler'[u].step \in {"sample", "close"}
                      /\ handler'[u].step = "sample" =>
                            /\ handler'[u].prior = handler[u].prior
                            /\ message[u].status = "approved" /\ MaySend(u) /\ Send(u)
                      /\ handler'[u].step = "close" => UNCHANGED <<message, first, preceded>>
  <2> SUFFICES ASSUME Dispatch(u)
               PROVE  /\ handler'[u].step \in {"sample", "close"}
                      /\ handler'[u].step = "sample" =>
                            /\ handler'[u].prior = handler[u].prior
                            /\ message[u].status = "approved" /\ MaySend(u) /\ Send(u)
                      /\ handler'[u].step = "close" => UNCHANGED <<message, first, preceded>>
    OBVIOUS
  <2>2. CASE message[u].status = "approved" /\ MaySend(u)
    <3>1. Send(u) /\ handler' = [handler EXCEPT ![u].step = "sample"]
      BY <2>2 DEF Dispatch
    <3>2. handler'[u].step = "sample" /\ handler'[u].prior = handler[u].prior
      BY <1>0, <3>1 DEF Handler
    <3>3. QED
      BY <2>2, <3>1, <3>2
  <2>3. CASE ~(message[u].status = "approved" /\ MaySend(u))
    <3>1. handler'[u].step = "close" /\ UNCHANGED <<message, first, preceded>>
      BY <1>0, <2>3 DEF Dispatch
    <3>2. QED
      BY <3>1
  <2>4. QED
    BY <2>2, <2>3
<1>11. NeedsTriage(u) \/ Drafted(u) => handler'[u].step = "done"
  BY <1>0 DEF NeedsTriage, Drafted, End
<1>12. RecordIncomingTrigger(u) \/ Lose(u) \/ Handle(u) =>
          \A t \in Triggers \ {u} : handler'[t] = handler[t]
  BY <1>0 DEF RecordIncomingTrigger, Lose, Handle, FindTrigger, DraftMessage, ReadSettings, Decide,
     FileForReview, HoldForApproval, ApproveAutonomously, CountPriorSends, Dispatch, Sample,
     NeedsTriage, Drafted, End
<1>13. QED
  BY <1>1, <1>2, <1>3, <1>4, <1>5, <1>6, <1>7, <1>8, <1>9, <1>10, <1>11, <1>12

\* What a message holds after a change of its status, with or without a human's decision.
LEMMA AfterChange ==
    ASSUME NEW m \in [MessageIds -> MessageRow], NEW u \in MessageIds, NEW t \in MessageIds, NEW status
    PROVE  /\ LET g == [m EXCEPT ![u].status = status]
              IN  /\ g[t].status = IF t = u THEN status ELSE m[t].status
                  /\ g[t].decidedBy = m[t].decidedBy /\ g[t].held = m[t].held
                  /\ g[t].tierContext = m[t].tierContext
                  /\ t # u => g[t] = m[t]
           /\ LET g == [m EXCEPT ![u].status = status, ![u].decidedBy = "human"]
              IN  /\ g[t].status = IF t = u THEN status ELSE m[t].status
                  /\ g[t].decidedBy = IF t = u THEN "human" ELSE m[t].decidedBy
                  /\ g[t].held = m[t].held /\ g[t].tierContext = m[t].tierContext
                  /\ t # u => g[t] = m[t]
<1>1. CASE t = u
  BY <1>1 DEF MessageRow
<1>2. CASE t # u
  BY <1>2
<1>3. QED
  BY <1>1, <1>2

(***************************************************************************)
(* The type invariant.                                                     *)
(***************************************************************************)
\* Every reachable state has the shape the schema and the handler give it.
THEOREM TypeCorrect == Spec => []TypeOK
<1>1. Init => TypeOK
  <2> SUFFICES ASSUME Init PROVE TypeOK
    OBVIOUS
  <2>1. Fresh("unborn") \in Handler
    BY DEF Handler, Fresh, Steps, Tiers, Confidence
  <2>2. NoMessage \in MessageRow
    BY DEF MessageRow, NoMessage, Tiers, Deciders
  <2>3. [status |-> "absent", compliance |-> FALSE] \in TriggerRow
    BY DEF TriggerRow
  <2>4. QED
    BY <2>1, <2>2, <2>3 DEF Init, TypeOK
<1>2. TypeOK /\ [Next]_vars => TypeOK'
  <2> SUFFICES ASSUME TypeOK, [Next]_vars PROVE TypeOK'
    OBVIOUS
  <2> USE Ids DEF TypeOK, account, Environment, Rows, history
  <2>0. \A s \in {"called", "dead", "draft", "triage", "file", "gate", "escalation", "hold",
                  "approve", "count", "dispatch", "sample", "close", "done"} : s \in Steps
    BY DEF Steps
  <2>1. ASSUME NEW t \in Triggers, RecordIncomingTrigger(t) PROVE TypeOK'
    <3>1. handler' \in [Triggers -> Handler]
      BY <2>0, <2>1, HandlerMoves DEF RecordIncomingTrigger, GoTo
    <3>2. trigger' \in [Triggers -> TriggerRow]
      BY <2>1 DEF RecordIncomingTrigger, TriggerRow, TriggerStatus
    <3>3. QED
      BY <2>1, <3>1, <3>2 DEF RecordIncomingTrigger, Tiers
  <2>2. ASSUME NEW t \in Triggers, Lose(t) PROVE TypeOK'
    <3>1. handler' \in [Triggers -> Handler]
      BY <2>0, <2>2, HandlerMoves DEF Lose, GoTo
    <3>2. QED
      BY <2>2, <3>1 DEF Lose
  <2>3. ASSUME NEW t \in Triggers, FindTrigger(t) PROVE TypeOK'
    <3>1. handler' \in [Triggers -> Handler]
      BY <2>0, <2>3, HandlerMoves DEF FindTrigger
    <3>2. QED
      BY <2>3, <3>1 DEF FindTrigger
  <2>4. ASSUME NEW t \in Triggers, DraftMessage(t) PROVE TypeOK'
    <3>1. handler' \in [Triggers -> Handler]
      <4>1. CASE GoTo(t, "triage")
        BY <2>0, <4>1, HandlerMoves DEF GoTo
      <4>2. CASE handler' = [handler EXCEPT ![t] = [Fresh("file") EXCEPT !.tier = handler[t].tier]]
        <5>1. handler[t].tier \in Tiers
          BY DEF Handler
        <5>2. QED
          BY <2>0, <4>2, <5>1, HandlerMoves
      <4>3. ASSUME NEW confidence \in Confidence,
                   handler' = [handler EXCEPT ![t].confidence = confidence, ![t].step = "gate"]
            PROVE  handler' \in [Triggers -> Handler]
        BY <2>0, <4>3, HandlerMoves
      <4>4. QED
        BY <2>4, <4>1, <4>2, <4>3 DEF DraftMessage
    <3>2. QED
      BY <2>4, <3>1 DEF DraftMessage
  <2>5. ASSUME NEW t \in Triggers, ReadSettings(t) PROVE TypeOK'
    <3>1. PICK open \in BOOLEAN :
            handler' = [handler EXCEPT ![t].open = open, ![t].step = "escalation"]
      BY <2>5 DEF ReadSettings
    <3>2. handler' \in [Triggers -> Handler]
      BY <2>0, <3>1, HandlerMoves
    <3>3. QED
      BY <2>5, <3>2 DEF ReadSettings
  <2>6. ASSUME NEW t \in Triggers, Decide(t) PROVE TypeOK'
    <3>1. PICK step \in {"approve", "hold", "triage"} : GoTo(t, step)
      BY <2>6 DEF Decide
    <3>2. handler' \in [Triggers -> Handler]
      BY <2>0, <3>1, HandlerMoves DEF GoTo
    <3>3. QED
      BY <2>6, <3>2 DEF Decide
  <2>7. ASSUME NEW t \in Triggers, NEW step \in Steps, GoTo(t, step)
        PROVE  handler' \in [Triggers -> Handler]
    BY <2>7, HandlerMoves DEF GoTo
  <2>8. ASSUME NEW t \in MessageIds, NEW status \in MessageStatus, NEW tierContext \in Tiers,
               NEW decidedBy \in Deciders, NEW held \in BOOLEAN,
               Create(t, status, tierContext, decidedBy, held)
        PROVE  message' \in [MessageIds -> MessageRow]
    BY <2>8, MessageMoves DEF Create
  <2>9. "pending_review" \in MessageStatus /\ "approved" \in MessageStatus /\ "nobody" \in Deciders
        /\ SystemDecider \in Deciders /\ 1 \in Tiers /\ 2 \in Tiers
    BY DEF MessageStatus, Deciders, Tiers
  <2>10. ASSUME NEW t \in Triggers, FileForReview(t) PROVE TypeOK'
    <3>1. handler[t].tier \in Tiers
      BY DEF Handler
    <3>2. handler' \in [Triggers -> Handler] /\ message' \in [MessageIds -> MessageRow]
      BY <2>0, <2>7, <2>8, <2>9, <2>10, <3>1 DEF FileForReview
    <3>3. QED
      BY <2>10, <3>2 DEF FileForReview
  <2>11. ASSUME NEW t \in Triggers, HoldForApproval(t) PROVE TypeOK'
    <3>1. handler' \in [Triggers -> Handler] /\ message' \in [MessageIds -> MessageRow]
      BY <2>0, <2>7, <2>8, <2>9, <2>11 DEF HoldForApproval
    <3>2. QED
      BY <2>11, <3>1 DEF HoldForApproval
  <2>12. ASSUME NEW t \in Triggers, ApproveAutonomously(t) PROVE TypeOK'
    <3>1. handler' \in [Triggers -> Handler] /\ message' \in [MessageIds -> MessageRow]
      BY <2>0, <2>7, <2>8, <2>9, <2>12 DEF ApproveAutonomously
    <3>2. QED
      BY <2>12, <3>1 DEF ApproveAutonomously
  <2>13. ASSUME NEW t \in Triggers, CountPriorSends(t) PROVE TypeOK'
    <3>1. Cardinality(SentAtTier1) \in Nat
      BY CountType
    <3>2. handler' \in [Triggers -> Handler]
      BY <2>0, <2>13, <3>1, HandlerMoves DEF CountPriorSends
    <3>3. QED
      BY <2>13, <3>2 DEF CountPriorSends
  <2>14. ASSUME NEW t \in MessageIds, Send(t)
         PROVE  /\ message' \in [MessageIds -> MessageRow]
                /\ first' \subseteq MessageIds /\ preceded' \in BOOLEAN
    <3>1. message' \in [MessageIds -> MessageRow]
      BY <2>14, MessageMoves DEF Send, MessageStatus
    <3>2. QED
      BY <2>14, <3>1 DEF Send
  <2>15. ASSUME NEW t \in Triggers, Dispatch(t) PROVE TypeOK'
    <3>1. handler' \in [Triggers -> Handler]
      <4>1. \/ GoTo(t, "close")
            \/ handler' = [handler EXCEPT ![t].step = "sample"]
        BY <2>15 DEF Dispatch
      <4>2. "close" \in Steps /\ "sample" \in Steps
        BY <2>0
      <4>3. CASE GoTo(t, "close")
        BY <2>7, <4>2, <4>3
      <4>4. CASE handler' = [handler EXCEPT ![t].step = "sample"]
        BY <4>2, <4>4, HandlerMoves
      <4>5. QED
        BY <4>1, <4>3, <4>4
    <3>2. /\ message' \in [MessageIds -> MessageRow]
          /\ first' \subseteq MessageIds /\ preceded' \in BOOLEAN
      BY <2>14, <2>15 DEF Dispatch
    <3>3. QED
      BY <2>15, <3>1, <3>2 DEF Dispatch
  <2>16. ASSUME NEW t \in Triggers, Sample(t) PROVE TypeOK'
    <3>1. handler' \in [Triggers -> Handler]
      BY <2>0, <2>7, <2>16 DEF Sample
    <3>2. QED
      BY <2>16, <3>1 DEF Sample
  <2>17. ASSUME NEW t \in Triggers, NEW status \in TriggerStatus, End(t, status) PROVE TypeOK'
    <3>1. handler' \in [Triggers -> Handler]
      BY <2>0, <2>17, HandlerMoves DEF End, GoTo
    <3>2. trigger' \in [Triggers -> TriggerRow]
      BY <2>17 DEF End, TriggerRow
    <3>3. QED
      BY <2>17, <3>1, <3>2 DEF End
  <2>18. ASSUME NEW t \in Triggers, NeedsTriage(t) \/ Drafted(t) PROVE TypeOK'
    BY <2>17, <2>18 DEF NeedsTriage, Drafted, TriggerStatus
  <2>19. CASE ChangeTier
    BY <2>19 DEF ChangeTier
  <2>20. CASE OpenEscalation
    BY <2>20 DEF OpenEscalation, Tiers
  <2>21. CASE ResolveEscalation
    BY <2>21 DEF ResolveEscalation
  <2>22. CASE SwitchAutonomousSending
    BY <2>22 DEF SwitchAutonomousSending
  <2>23. CASE UpsertContact
    BY <2>23 DEF UpsertContact
  <2>24. ASSUME NEW o \in Others, ReceiveInbound(o) \/ ComposeAndSend(o)
                   \/ \E t \in Triggers : FollowUp(t, o)
         PROVE  TypeOK'
    <3>1. \E status \in {"sent", "approved"}, decidedBy \in {"nobody", "human", SystemDecider},
             held \in BOOLEAN : Create(o, status, 1, decidedBy, held)
      BY <2>24 DEF ReceiveInbound, ComposeAndSend, FollowUp, Store
    <3>2. message' \in [MessageIds -> MessageRow]
      <4>1. PICK status \in {"sent", "approved"}, decidedBy \in {"nobody", "human", SystemDecider},
                 held \in BOOLEAN : Create(o, status, 1, decidedBy, held)
        BY <3>1
      <4>2. status \in MessageStatus /\ decidedBy \in Deciders
        BY <4>1 DEF MessageStatus, Deciders
      <4>3. QED
        BY <2>8, <2>9, <4>1, <4>2
    <3>3. CASE ReceiveInbound(o)
      BY <3>2, <3>3 DEF ReceiveInbound
    <3>4. CASE ComposeAndSend(o)
      BY <3>2, <3>4 DEF ComposeAndSend
    <3>5. CASE \E t \in Triggers : FollowUp(t, o)
      BY <3>2, <3>5 DEF FollowUp
    <3>6. QED
      BY <2>24, <3>3, <3>4, <3>5
  <2>25. ASSUME NEW t \in Triggers, Review(t) PROVE TypeOK'
    <3>1. PICK status \in MessageStatus :
            message' = [message EXCEPT ![t].status = status, ![t].decidedBy = "human"]
      BY <2>25 DEF Review, MessageStatus
    <3>2. message' \in [MessageIds -> MessageRow]
      BY <3>1, MessageMoves
    <3>3. QED
      BY <2>25, <3>2 DEF Review
  <2>26. ASSUME NEW t \in MessageIds, DispatchApproved(t) PROVE TypeOK'
    BY <2>14, <2>26 DEF DispatchApproved
  <2>27. ASSUME NEW t \in MessageIds, Reconcile(t) PROVE TypeOK'
    <3>1. /\ message' \in [MessageIds -> MessageRow]
          /\ first' \subseteq MessageIds /\ preceded' \in BOOLEAN /\ swept' \subseteq MessageIds
      <4>1. CASE MaySend(t)
        BY <2>14, <2>27, <4>1 DEF Reconcile
      <4>2. CASE ~MaySend(t)
        <5>1. message' = [message EXCEPT ![t].status = "needs_triage"] /\ UNCHANGED history
          BY <2>27, <4>2 DEF Reconcile
        <5>2. "needs_triage" \in MessageStatus
          BY DEF MessageStatus
        <5>3. QED
          BY <5>1, <5>2, MessageMoves
      <4>3. QED
        BY <4>1, <4>2
    <3>2. QED
      BY <2>27, <3>1 DEF Reconcile
  <2>28. CASE UNCHANGED vars
    BY <2>28 DEF vars
  <2>29. ASSUME NEW t \in Triggers, EndFollowups(t) PROVE TypeOK'
    <3>1. trigger' \in [Triggers -> TriggerRow]
      BY <2>29 DEF EndFollowups, TriggerRow, TriggerStatus
    <3>2. QED
      BY <2>29, <3>1 DEF EndFollowups
  <2>30. QED
    BY <2>1, <2>2, <2>3, <2>4, <2>5, <2>6, <2>10, <2>11, <2>12, <2>13, <2>15, <2>16, <2>18, <2>19,
       <2>20, <2>21, <2>22, <2>23, <2>24, <2>25, <2>26, <2>27, <2>28, <2>29
       DEF Next, Surroundings, Handle
<1>3. QED
  BY <1>1, <1>2, PTL DEF Spec

(***************************************************************************)
(* Review: what a handler in flight carries about its message.             *)
(***************************************************************************)
\* A handler about to approve has passed the deadline rule, and whatever the worker decided bears
\* no hold, cites no deadline and is past review; nothing moves on undecided.
Cleared(t) ==
    /\ handler[t].step = "unborn" => message[t] = NoMessage
    /\ handler[t].step = "approve" => ~trigger[t].compliance
    /\ message[t].decidedBy = SystemDecider =>
          ~trigger[t].compliance /\ ~message[t].held /\ message[t].status # "pending_review"
    /\ message[t].status \in {"approved", "sent"} => message[t].decidedBy # "nobody"

ReviewInv == \A t \in Triggers : Cleared(t)

\* It holds initially and every step keeps it.
LEMMA ReviewInvariant == Spec => []ReviewInv
<1>0. NoMessage.status = "absent" /\ NoMessage.decidedBy = "nobody" /\ SystemDecider # "nobody"
  BY DEF NoMessage, SystemDecider
<1>1. Init => ReviewInv
  <2>1. Init => \A t \in Triggers : message[t] = NoMessage /\ handler[t].step = "unborn"
    BY Ids DEF Init, Fresh
  <2>2. QED
    BY <1>0, <2>1 DEF ReviewInv, Cleared
<1> USE Ids
<1>2. TypeOK /\ ReviewInv /\ [Next]_vars => ReviewInv'
  <2> SUFFICES ASSUME TypeOK, ReviewInv, [Next]_vars, NEW t \in Triggers PROVE Cleared(t)'
    BY DEF ReviewInv
  <2>0. /\ Cleared(t) /\ \A u \in Triggers : Cleared(u)
        /\ message \in [MessageIds -> MessageRow] /\ message[t] \in MessageRow
        /\ trigger \in [Triggers -> TriggerRow]
    BY DEF ReviewInv, TypeOK
  <2>1. ASSUME NEW u \in Triggers, UNCHANGED <<message, trigger>>, handler'[u].step # "unborn",
               handler'[u].step = "approve" => ~trigger[u].compliance,
               t # u => handler'[t] = handler[t]
        PROVE  Cleared(t)'
    BY <2>0, <2>1 DEF Cleared
  <2>2. ASSUME NEW u \in Triggers, RecordIncomingTrigger(u) PROVE Cleared(t)'
    <3>1. t # u => trigger'[t] = trigger[t]
      BY <2>0, <2>2 DEF RecordIncomingTrigger
    <3>2. UNCHANGED message /\ handler[u].step = "unborn"
      BY <2>2 DEF RecordIncomingTrigger
    <3>3. handler'[u].step = "called" /\ (t # u => handler'[t] = handler[t])
      BY <2>2, Effects
    <3>4. CASE t = u
      BY <1>0, <2>0, <3>2, <3>3, <3>4 DEF Cleared
    <3>5. CASE t # u
      BY <2>0, <3>1, <3>2, <3>3, <3>5 DEF Cleared
    <3>6. QED
      BY <3>4, <3>5
  <2>3. ASSUME NEW u \in Triggers,
               Lose(u) \/ FindTrigger(u) \/ DraftMessage(u) \/ ReadSettings(u) \/ Decide(u)
                  \/ CountPriorSends(u) \/ Sample(u)
        PROVE  Cleared(t)'
    <3>1. UNCHANGED <<message, trigger>>
      BY <2>3 DEF Lose, FindTrigger, DraftMessage, ReadSettings, Decide, CountPriorSends, Sample
    <3>2. /\ handler'[u].step # "unborn"
          /\ handler'[u].step = "approve" => ~trigger[u].compliance
          /\ t # u => handler'[t] = handler[t]
      BY <2>3, Effects DEF Handle
    <3>3. QED
      BY <2>1, <3>1, <3>2
  <2>4. ASSUME NEW u \in Triggers, NEW held, NEW tierContext,
               Create(u, "pending_review", tierContext, "nobody", held),
               UNCHANGED trigger, handler'[u].step = "close", t # u => handler'[t] = handler[t]
        PROVE  Cleared(t)'
    <3>1. CASE t = u
      BY <2>0, <2>4, <3>1 DEF Create, Cleared, SystemDecider
    <3>2. CASE t # u
      BY <2>0, <2>4, <3>2 DEF Create, Cleared
    <3>3. QED
      BY <3>1, <3>2
  <2>5. ASSUME NEW u \in Triggers, FileForReview(u) \/ HoldForApproval(u) PROVE Cleared(t)'
    <3>1. \E tierContext, held : Create(u, "pending_review", tierContext, "nobody", held)
      BY <2>5 DEF FileForReview, HoldForApproval
    <3>2. UNCHANGED trigger
      BY <2>5 DEF FileForReview, HoldForApproval
    <3>3. handler'[u].step = "close" /\ (t # u => handler'[t] = handler[t])
      BY <2>5, Effects DEF Handle
    <3>4. QED
      BY <2>4, <3>1, <3>2, <3>3
  <2>6. ASSUME NEW u \in Triggers, ApproveAutonomously(u) PROVE Cleared(t)'
    <3>1. /\ Create(u, "approved", 1, SystemDecider, FALSE) /\ UNCHANGED trigger
          /\ handler[u].step = "approve"
      BY <2>6 DEF ApproveAutonomously, At
    <3>2. handler'[u].step = "count" /\ (t # u => handler'[t] = handler[t])
      BY <2>6, Effects DEF Handle
    <3>3. CASE t = u
      BY <2>0, <3>1, <3>2, <3>3 DEF Create, Cleared, SystemDecider
    <3>4. CASE t # u
      BY <2>0, <3>1, <3>2, <3>4 DEF Create, Cleared
    <3>5. QED
      BY <3>3, <3>4
  <2>7. ASSUME NEW u \in MessageIds, NEW status \in {"sent", "needs_triage"},
               message[u].status = "approved", message' = [message EXCEPT ![u].status = status],
               UNCHANGED trigger,
               handler'[t].step \in {"unborn", "approve"} => handler'[t].step = handler[t].step
        PROVE  Cleared(t)'
    <3>1. CASE t = u
      BY <2>0, <2>7, <3>1, AfterChange DEF Cleared, NoMessage
    <3>2. CASE t # u
      BY <2>0, <2>7, <3>2, AfterChange DEF Cleared
    <3>3. QED
      BY <3>1, <3>2
  <2>8. ASSUME NEW u \in Triggers, Dispatch(u) PROVE Cleared(t)'
    <3>1. UNCHANGED trigger
      BY <2>8 DEF Dispatch
    <3>2. handler'[u].step \in {"sample", "close"} /\ (t # u => handler'[t] = handler[t])
      BY <2>8, Effects DEF Handle
    <3>3. CASE handler'[u].step = "sample"
      BY <2>7, <2>8, <3>1, <3>2, <3>3, Effects DEF Send
    <3>4. CASE handler'[u].step = "close"
      BY <2>1, <2>8, <3>1, <3>2, <3>4, Effects
    <3>5. QED
      BY <3>2, <3>3, <3>4
  <2>9. ASSUME NEW u \in Triggers, NeedsTriage(u) \/ Drafted(u) PROVE Cleared(t)'
    <3>1. UNCHANGED message /\ \A v \in Triggers : trigger'[v].compliance = trigger[v].compliance
      <4>1. PICK status : trigger' = [trigger EXCEPT ![u].status = status]
        BY <2>9 DEF NeedsTriage, Drafted, End
      <4>2. \A v \in Triggers : trigger'[v].compliance = trigger[v].compliance
        BY <2>0, <4>1 DEF TriggerRow
      <4>3. QED
        BY <2>9, <4>2 DEF NeedsTriage, Drafted, End
    <3>2. handler'[u].step = "done" /\ (t # u => handler'[t] = handler[t])
      BY <2>9, Effects DEF Handle
    <3>3. QED
      BY <2>0, <3>1, <3>2 DEF Cleared
  <2>10. ASSUME NEW u \in Triggers, Review(u) PROVE Cleared(t)'
    <3>1. PICK status \in {"rejected", "approved"} :
            message' = [message EXCEPT ![u].status = status, ![u].decidedBy = "human"]
      BY <2>10 DEF Review
    <3>2. message[u].status = "pending_review" /\ UNCHANGED <<trigger, handler>>
      BY <2>10 DEF Review, Rows
    <3>3. CASE t = u
      <4>1. message'[u].status = status /\ message'[u].decidedBy = "human"
        BY <2>0, <3>1 DEF MessageRow
      <4>2. handler[u].step # "unborn" /\ UNCHANGED <<trigger, handler>>
        BY <1>0, <2>0, <3>2 DEF Cleared
      <4>3. QED
        BY <2>0, <3>3, <4>1, <4>2 DEF Cleared, SystemDecider
    <3>4. CASE t # u
      BY <2>0, <3>1, <3>2, <3>4, AfterChange DEF Cleared
    <3>5. QED
      BY <3>3, <3>4
  <2>11. ASSUME NEW u \in MessageIds, DispatchApproved(u) PROVE Cleared(t)'
    BY <2>7, <2>11 DEF DispatchApproved, Send, Rows
  <2>12. ASSUME NEW u \in MessageIds, Reconcile(u) PROVE Cleared(t)'
    <3>1. message[u].status = "approved" /\ UNCHANGED <<trigger, handler>>
      BY <2>12 DEF Reconcile, Rows
    <3>2. \E status \in {"sent", "needs_triage"} : message' = [message EXCEPT ![u].status = status]
      BY <2>12 DEF Reconcile, Send
    <3>3. QED
      BY <2>7, <3>1, <3>2
  <2>13. CASE UNCHANGED <<message, trigger, handler>>
    BY <2>0, <2>13 DEF Cleared
  <2>14. ASSUME NEW o \in Others, ReceiveInbound(o) \/ ComposeAndSend(o)
                   \/ \E u \in Triggers : FollowUp(u, o)
         PROVE  Cleared(t)'
    <3>1. UNCHANGED <<trigger, handler>> /\ message'[t] = message[t]
      BY <2>0, <2>14 DEF ReceiveInbound, ComposeAndSend, FollowUp, Store, Create, Rows
    <3>2. QED
      BY <2>0, <3>1 DEF Cleared
  <2>15. ASSUME NEW u \in Triggers, EndFollowups(u) PROVE Cleared(t)'
    <3>1. PICK status : trigger' = [trigger EXCEPT ![u].status = status]
      BY <2>15 DEF EndFollowups
    <3>2. trigger'[t].compliance = trigger[t].compliance
      BY <2>0, <3>1 DEF TriggerRow
    <3>3. UNCHANGED <<message, handler>>
      BY <2>15 DEF EndFollowups
    <3>4. QED
      BY <2>0, <3>2, <3>3 DEF Cleared
  <2>16. QED
    BY <2>2, <2>3, <2>5, <2>6, <2>8, <2>9, <2>10, <2>11, <2>12, <2>13, <2>14, <2>15
       DEF Next, Surroundings, Handle, ChangeTier, OpenEscalation, ResolveEscalation,
           SwitchAutonomousSending, UpsertContact, Rows, vars
<1>3. QED
  BY TypeCorrect, <1>1, <1>2, PTL DEF Spec

\* Whatever changes while a draft is made, and whichever path sends it, a message about a
\* compliance deadline reaches no buyer without a human's decision.
THEOREM DeadlineReviewed == Spec => []DeadlinesAreReviewed
<1>1. ReviewInv => DeadlinesAreReviewed
  BY DEF ReviewInv, Cleared, DeadlinesAreReviewed, Unreviewed
<1>2. QED
  BY ReviewInvariant, <1>1, PTL

\* A held draft is neither approved nor sent before a human decided on it.
THEOREM HoldsAreReviewed == Spec => []HeldIsReviewed
<1>1. TypeOK /\ ReviewInv => HeldIsReviewed
  BY Ids DEF ReviewInv, Cleared, HeldIsReviewed, TypeOK, MessageRow, Deciders
<1>2. QED
  BY TypeCorrect, ReviewInvariant, <1>1, PTL

(***************************************************************************)
(* The outcome: what a trigger says became of it.                          *)
(***************************************************************************)
\* Up to the statement that files, holds or approves a draft there is no message, from there on
\* there is one, and the trigger speaks of its outcome only once its handler is done.
Drafting == {"unborn", "called", "draft", "gate", "escalation", "triage", "file", "hold", "approve"}
Filed == {"count", "dispatch", "sample", "close"}
Outcomes == {"drafted", "needs_triage", "sequence_ended"}

Truthful(t) ==
    /\ handler[t].step \in Drafting => message[t].status = "absent"
    /\ handler[t].step \in Filed => message[t].status # "absent"
    /\ trigger[t].status \in Outcomes => handler[t].step = "done"
    /\ trigger[t].status = "drafted" => message[t].status # "absent"
    /\ trigger[t].status = "needs_triage" => message[t].status \in {"absent", "sent"}
    /\ trigger[t].status = "sequence_ended" => Sent(t)
    /\ trigger[t].status \in {"absent", "processing"} \cup Outcomes

OutcomeInv == \A t \in Triggers : Truthful(t)

\* It holds initially and every step keeps it: only a trigger's own handler creates its message,
\* and nothing that changes a message takes it away.
LEMMA OutcomeInvariant == Spec => []OutcomeInv
<1>1. Init => OutcomeInv
  <2>1. Init => \A t \in Triggers : /\ message[t].status = "absent" /\ handler[t].step = "unborn"
                                    /\ trigger[t].status = "absent"
    BY Ids DEF Init, Fresh, NoMessage
  <2>2. QED
    BY <2>1 DEF OutcomeInv, Truthful, Filed, Outcomes
<1> USE Ids
<1>2. TypeOK /\ OutcomeInv /\ [Next]_vars => OutcomeInv'
  <2> SUFFICES ASSUME TypeOK, OutcomeInv, [Next]_vars, NEW t \in Triggers PROVE Truthful(t)'
    BY DEF OutcomeInv
  <2>0. /\ \A u \in Triggers : Truthful(u)
        /\ message \in [MessageIds -> MessageRow] /\ trigger \in [Triggers -> TriggerRow]
    BY DEF OutcomeInv, TypeOK
  <2>1. ASSUME NEW u \in Triggers, UNCHANGED <<message, trigger>>,
               t # u => handler'[t] = handler[t],
               handler[u].step \notin {"done"},
               handler'[u].step \in Drafting => handler[u].step \in Drafting,
               handler'[u].step \in Filed => handler[u].step \in Filed
        PROVE  Truthful(t)'
    <3>1. CASE t = u
      BY <2>0, <2>1, <3>1 DEF Truthful, Sent
    <3>2. CASE t # u
      BY <2>0, <2>1, <3>2 DEF Truthful, Sent
    <3>3. QED
      BY <3>1, <3>2
  <2>2. ASSUME NEW u \in Triggers, RecordIncomingTrigger(u) PROVE Truthful(t)'
    <3>1. UNCHANGED message /\ handler[u].step = "unborn"
      BY <2>2 DEF RecordIncomingTrigger
    <3>2. handler'[u].step = "called" /\ (t # u => handler'[t] = handler[t])
      BY <2>2, Effects
    <3>3. trigger'[u].status = "processing" /\ (t # u => trigger'[t] = trigger[t])
      BY <2>0, <2>2 DEF RecordIncomingTrigger
    <3>4. CASE t = u
      BY <2>0, <3>1, <3>2, <3>3, <3>4 DEF Truthful, Drafting, Filed, Outcomes
    <3>5. CASE t # u
      BY <2>0, <3>1, <3>2, <3>3, <3>5 DEF Truthful, Sent
    <3>6. QED
      BY <3>4, <3>5
  <2>3. ASSUME NEW u \in Triggers, Lose(u) PROVE Truthful(t)'
    <3>1. UNCHANGED <<message, trigger>> /\ handler[u].step # "done"
      BY <2>3 DEF Lose
    <3>2. handler'[u].step = "dead" /\ (t # u => handler'[t] = handler[t])
      BY <2>3, Effects
    <3>3. QED
      BY <2>1, <3>1, <3>2 DEF Drafting, Filed
  <2>4. ASSUME NEW u \in Triggers,
               FindTrigger(u) \/ DraftMessage(u) \/ ReadSettings(u) \/ Decide(u)
        PROVE  Truthful(t)'
    <3>1. /\ UNCHANGED <<message, trigger>>
          /\ handler[u].step \in {"called", "draft", "gate", "escalation"}
      BY <2>4 DEF FindTrigger, DraftMessage, ReadSettings, Decide, Environment, At
    <3>2. /\ handler'[u].step \in {"draft", "triage", "file", "gate", "escalation", "approve", "hold"}
          /\ t # u => handler'[t] = handler[t]
      BY <2>4, Effects DEF Handle
    <3>3. QED
      BY <2>1, <3>1, <3>2 DEF Drafting, Filed
  <2>5. ASSUME NEW u \in Triggers, CountPriorSends(u) \/ Sample(u) PROVE Truthful(t)'
    <3>1. UNCHANGED <<message, trigger>> /\ handler[u].step \in {"count", "sample"}
      BY <2>5 DEF CountPriorSends, Sample, Environment, At
    <3>2. handler'[u].step \in {"dispatch", "close"} /\ (t # u => handler'[t] = handler[t])
      BY <2>5, Effects DEF Handle
    <3>3. QED
      BY <2>1, <3>1, <3>2 DEF Drafting, Filed
  <2>6. ASSUME NEW u \in Triggers, FileForReview(u) \/ HoldForApproval(u) \/ ApproveAutonomously(u)
        PROVE  Truthful(t)'
    <3>1. UNCHANGED trigger /\ handler[u].step \in {"file", "hold", "approve"}
      BY <2>6 DEF FileForReview, HoldForApproval, ApproveAutonomously, At
    <3>2. handler'[u].step \in {"close", "count"} /\ (t # u => handler'[t] = handler[t])
      BY <2>6, Effects DEF Handle
    <3>3. message'[u].status # "absent" /\ (t # u => message'[t] = message[t])
      BY <2>0, <2>6 DEF FileForReview, HoldForApproval, ApproveAutonomously, Create
    <3>4. trigger[u].status \notin Outcomes
      BY <2>0, <3>1 DEF Truthful
    <3>5. CASE t = u
      BY <2>0, <3>1, <3>2, <3>3, <3>4, <3>5 DEF Truthful, Sent, Drafting, Filed, Outcomes
    <3>6. CASE t # u
      BY <2>0, <3>1, <3>2, <3>3, <3>6 DEF Truthful, Sent
    <3>7. QED
      BY <3>5, <3>6
  <2>7. ASSUME NEW u \in Triggers, NEW status \in {"drafted", "needs_triage"}, End(u, status),
               handler[u].step \in (IF status = "drafted" THEN Filed ELSE Drafting)
        PROVE  Truthful(t)'
    <3>1. UNCHANGED message
      BY <2>7 DEF End
    <3>2. /\ handler'[u].step = "done" /\ (t # u => handler'[t] = handler[t])
          /\ trigger'[u].status = status /\ (t # u => trigger'[t] = trigger[t])
      BY <2>0, <2>7 DEF End, GoTo, Fresh, TypeOK
    <3>3. CASE t = u
      BY <2>0, <2>7, <3>1, <3>2, <3>3 DEF Truthful, Drafting, Filed, Outcomes
    <3>4. CASE t # u
      BY <2>0, <3>1, <3>2, <3>4 DEF Truthful, Sent
    <3>5. QED
      BY <3>3, <3>4
  <2>8. ASSUME NEW u \in Triggers, NeedsTriage(u) \/ Drafted(u) PROVE Truthful(t)'
    BY <2>7, <2>8 DEF NeedsTriage, Drafted, At, Drafting, Filed
  <2>9. ASSUME NEW u \in MessageIds, NEW status, status # "absent",
               message[u].status \in {"pending_review", "approved"},
               message'[t].status = IF t = u THEN status ELSE message[t].status,
               UNCHANGED <<trigger, handler>>
        PROVE  Truthful(t)'
    BY <2>0, <2>9 DEF Truthful, Sent
  <2>10. ASSUME NEW u \in Triggers, Dispatch(u) PROVE Truthful(t)'
    <3>1. UNCHANGED trigger /\ handler[u].step = "dispatch"
      BY <2>10 DEF Dispatch, At
    <3>2. handler'[u].step \in {"sample", "close"} /\ (t # u => handler'[t] = handler[t])
      BY <2>10, Effects DEF Handle
    <3>3. \/ UNCHANGED message
          \/ message' = [message EXCEPT ![u].status = "sent"]
      BY <2>10 DEF Dispatch, Send
    <3>4. /\ t # u => message'[t].status = message[t].status
          /\ message[t].status # "absent" => message'[t].status # "absent"
      <4>1. CASE UNCHANGED message
        BY <4>1
      <4>2. CASE message' = [message EXCEPT ![u].status = "sent"]
        <5>1. message'[t].status = IF t = u THEN "sent" ELSE message[t].status
          BY <2>0, <4>2, AfterChange
        <5>2. QED
          BY <5>1
      <4>3. QED
        BY <3>3, <4>1, <4>2
    <3>5. CASE t = u
      BY <2>0, <3>1, <3>2, <3>4, <3>5 DEF Truthful, Sent, Drafting, Filed, Outcomes
    <3>6. CASE t # u
      BY <2>0, <3>1, <3>2, <3>4, <3>6 DEF Truthful, Sent
    <3>7. QED
      BY <3>5, <3>6
  <2>11. ASSUME NEW u \in Triggers, Review(u) PROVE Truthful(t)'
    <3>1. UNCHANGED <<trigger, handler>> /\ message[u].status = "pending_review"
      BY <2>11 DEF Review, Rows
    <3>2. PICK status \in {"rejected", "approved"} :
            message' = [message EXCEPT ![u].status = status, ![u].decidedBy = "human"]
      BY <2>11 DEF Review
    <3>3. message'[t].status = IF t = u THEN status ELSE message[t].status
      BY <2>0, <3>2, AfterChange
    <3>4. QED
      BY <2>9, <3>1, <3>2, <3>3
  <2>12. ASSUME NEW u \in MessageIds, DispatchApproved(u) \/ Reconcile(u) PROVE Truthful(t)'
    <3>1. UNCHANGED <<trigger, handler>> /\ message[u].status = "approved"
      BY <2>12 DEF DispatchApproved, Reconcile, Rows
    <3>2. PICK status \in {"sent", "needs_triage"} : message' = [message EXCEPT ![u].status = status]
      BY <2>12 DEF DispatchApproved, Reconcile, Send
    <3>3. message'[t].status = IF t = u THEN status ELSE message[t].status
      BY <2>0, <3>2, AfterChange
    <3>4. QED
      BY <2>9, <3>1, <3>2, <3>3
  <2>13. CASE UNCHANGED <<message, trigger, handler>>
    BY <2>0, <2>13 DEF Truthful, Sent
  <2>14. ASSUME NEW o \in Others, ReceiveInbound(o) \/ ComposeAndSend(o)
                   \/ \E u \in Triggers : FollowUp(u, o)
         PROVE  Truthful(t)'
    <3>1. UNCHANGED <<trigger, handler>> /\ message'[t] = message[t]
      BY <2>0, <2>14 DEF ReceiveInbound, ComposeAndSend, FollowUp, Store, Create, Rows
    <3>2. QED
      BY <2>0, <3>1 DEF Truthful, Sent
  <2>15. ASSUME NEW u \in Triggers, EndFollowups(u) PROVE Truthful(t)'
    <3>1. PICK status \in {"sequence_ended", "needs_triage"} :
            trigger' = [trigger EXCEPT ![u].status = status]
      BY <2>15 DEF EndFollowups
    <3>2. trigger'[u].status = status /\ (t # u => trigger'[t] = trigger[t])
      BY <2>0, <3>1 DEF TriggerRow
    <3>3. UNCHANGED <<message, handler>> /\ Sent(u) /\ trigger[u].status \in Outcomes
      BY <2>0, <2>15 DEF EndFollowups, FollowsUp, Truthful
    <3>4. CASE t = u
      BY <2>0, <3>1, <3>2, <3>3, <3>4 DEF Truthful, Outcomes, Sent
    <3>5. CASE t # u
      BY <2>0, <3>2, <3>3, <3>5 DEF Truthful, Sent
    <3>6. QED
      BY <3>4, <3>5
  <2>16. QED
    BY <2>2, <2>3, <2>4, <2>5, <2>6, <2>8, <2>10, <2>11, <2>12, <2>13, <2>14, <2>15
       DEF Next, Surroundings, Handle, ChangeTier, OpenEscalation, ResolveEscalation,
           SwitchAutonomousSending, UpsertContact, Rows, vars
<1>3. QED
  BY TypeCorrect, <1>1, <1>2, PTL DEF Spec

\* However its handler ended and whoever acted meanwhile, the follow-up job too, a trigger that
\* says drafted has its message, and of one handed to triage nothing waits unsent.
THEOREM OutcomeIsTrue == Spec => []TriggerTellsTheOutcome
<1>1. OutcomeInv => TriggerTellsTheOutcome
  BY DEF OutcomeInv, Truthful, TriggerTellsTheOutcome
<1>2. QED
  BY OutcomeInvariant, <1>1, PTL

(***************************************************************************)
(* The first send: what a handler has counted, and who was first.          *)
(***************************************************************************)
\* Nobody sent anything unreviewed yet, and no other message at Tier 1 went out.
Quiet == first = {} /\ \A o \in Others : ~Sent(o)

\* A handler on its way to its dispatch counted nothing if all is quiet so far, and one that sent
\* the first itself is still on its way to sample what it sent, or did.
Own == first \ swept
CountedRight(t) ==
    /\ handler[t].step = "file" => handler[t].tier # 1
    /\ message[t].tierContext = 1 =>
          message[t].decidedBy = SystemDecider /\ message[t].status # "pending_review"
    /\ message[t].tierContext = 1 /\ Sent(t) => first # {}
    /\ handler[t].step = "dispatch" /\ Quiet => handler[t].prior = 0
    /\ t \in Own =>
          /\ handler[t].step \in {"sample", "close", "done", "dead"}
          /\ ~preceded /\ handler[t].step = "sample" => handler[t].prior = 0
          /\ ~preceded /\ handler[t].step \in {"close", "done"} => t \in sampled

FirstInv == \A t \in Triggers : CountedRight(t)

\* FirstInv is inductive, given the types: nothing takes back a send.
LEMMA FirstInvariant == Spec => []FirstInv
<1>0. NoMessage.tierContext = 2 /\ NoMessage.status = "absent" /\ SystemDecider # "human"
  BY DEF NoMessage, SystemDecider
<1> USE Ids
<1>1. Init => FirstInv
  <2> SUFFICES ASSUME Init PROVE FirstInv
    OBVIOUS
  <2>1. \A t \in Triggers : message[t] = NoMessage /\ handler[t].step = "unborn"
    BY DEF Init, Fresh
  <2>2. first = {}
    BY DEF Init
  <2>3. QED
    BY <1>0, <2>1, <2>2 DEF FirstInv, CountedRight, Own
<1>2. ASSUME TypeOK, FirstInv, [Next]_vars PROVE FirstInv'
  <2> USE <1>2
  <2>0. /\ \A t \in Triggers : CountedRight(t)
        /\ message \in [MessageIds -> MessageRow]
    BY DEF FirstInv, TypeOK
  <2>1. ASSUME NEW u \in Triggers, UNCHANGED <<message, first, preceded, swept>>,
               sampled \subseteq sampled',
               \A t \in Triggers \ {u} : handler'[t] = handler[t],
               handler'[u].step = "file" => handler'[u].tier # 1,
               handler'[u].step = "dispatch" /\ Quiet => handler'[u].prior = 0,
               u \in Own => \/ handler'[u].step = "dead"
                            \/ /\ handler'[u].step \in {"close", "done"}
                               /\ ~preceded => u \in sampled'
        PROVE  FirstInv'
    <3>1. ASSUME NEW t \in Triggers PROVE CountedRight(t)'
      <4>1. CASE t = u
        BY <2>0, <2>1, <4>1 DEF CountedRight, Own, Sent, Quiet
      <4>2. CASE t # u
        BY <2>0, <2>1, <4>2 DEF CountedRight, Own, Sent, Quiet
      <4>3. QED
        BY <4>1, <4>2
    <3>2. QED
      BY <3>1 DEF FirstInv
  <2>2. ASSUME NEW u \in Triggers, RecordIncomingTrigger(u) \/ FindTrigger(u) \/ DraftMessage(u)
                  \/ ReadSettings(u) \/ Decide(u)
        PROVE  FirstInv'
    <3>1. UNCHANGED <<message, first, preceded, swept, sampled>>
      BY <2>2 DEF RecordIncomingTrigger, FindTrigger, DraftMessage, ReadSettings, Decide,
         Environment, history
    <3>2. /\ \A t \in Triggers \ {u} : handler'[t] = handler[t]
          /\ handler'[u].step = "file" => handler'[u].tier # 1
          /\ handler'[u].step # "dispatch"
      BY <2>2, Effects DEF Handle
    <3>3. handler[u].step \notin {"sample", "close", "done", "dead"}
      BY <2>2 DEF RecordIncomingTrigger, FindTrigger, DraftMessage, ReadSettings, Decide, At
    <3>4. u \notin Own
      BY <2>0, <3>3 DEF CountedRight, Own
    <3>5. QED
      BY <2>1, <3>1, <3>2, <3>4
  <2>3. ASSUME NEW u \in Triggers, Lose(u) PROVE FirstInv'
    <3>1. UNCHANGED <<message, first, preceded, swept, sampled>>
      BY <2>3 DEF Lose, history
    <3>2. handler' = [handler EXCEPT ![u] = Fresh("dead")]
      BY <2>3 DEF Lose, GoTo
    <3>3. handler'[u].step = "dead" /\ \A t \in Triggers \ {u} : handler'[t] = handler[t]
      BY <3>2 DEF TypeOK, Fresh
    <3>4. QED
      BY <2>1, <3>1, <3>3
  <2>4. ASSUME NEW u \in Triggers, CountPriorSends(u) PROVE FirstInv'
    <3>1. UNCHANGED <<message, first, preceded, swept, sampled>> /\ handler[u].step = "count"
      BY <2>4 DEF CountPriorSends, Environment, history, At
    <3>2. Quiet => SentAtTier1 = {}
      BY <2>0 DEF SentAtTier1, CountedRight, Own, Quiet
    <3>3. Quiet => Cardinality(SentAtTier1) = 0
      BY <3>2, FS_EmptySet
    <3>4. u \notin Own
      BY <2>0, <3>1 DEF CountedRight, Own
    <3>5. QED
      BY <2>1, <2>4, <3>1, <3>3, <3>4, Effects DEF Handle
  <2>5. ASSUME NEW u \in Triggers, Sample(u) PROVE FirstInv'
    <3>1. UNCHANGED <<message, first, preceded, swept>> /\ handler[u].step = "sample"
      BY <2>5 DEF Sample, Environment, history, At
    <3>2. sampled \subseteq sampled' /\ (handler[u].prior = 0 => u \in sampled')
      BY <2>5 DEF Sample, ShouldSampleSend
    <3>3. u \in Own /\ ~preceded => handler[u].prior = 0
      BY <2>0, <3>1 DEF CountedRight, Own
    <3>4. QED
      BY <2>1, <2>5, <3>1, <3>2, <3>3, Effects DEF Handle
  <2>6. ASSUME NEW u \in Triggers, NeedsTriage(u) \/ Drafted(u) PROVE FirstInv'
    <3>1. UNCHANGED <<message, first, preceded, swept, sampled>> /\ handler[u].step \in {"triage", "close"}
      BY <2>6 DEF NeedsTriage, Drafted, End, Environment, history, At
    <3>2. u \in Own /\ ~preceded => u \in sampled
      BY <2>0, <3>1 DEF CountedRight, Own
    <3>3. QED
      BY <2>1, <2>6, <3>1, <3>2, Effects DEF Handle
  <2>7. ASSUME NEW u \in Triggers, NEW status, NEW tierContext, NEW decidedBy, NEW held,
               Create(u, status, tierContext, decidedBy, held), status \in {"pending_review", "approved"},
               tierContext = 1 => decidedBy = SystemDecider /\ status = "approved",
               UNCHANGED <<sampled, first, preceded, swept>>, u \notin Own,
               \A t \in Triggers \ {u} : handler'[t] = handler[t],
               handler'[u].step \in {"close", "count"}
        PROVE  FirstInv'
    <3>1. \A o \in Others : message'[o] = message[o]
      BY <2>0, <2>7 DEF Create
    <3>2. ASSUME NEW t \in Triggers PROVE CountedRight(t)'
      <4>1. CASE t = u
        BY <2>0, <2>7, <4>1 DEF CountedRight, Own, Sent, Create
      <4>2. CASE t # u
        BY <2>0, <2>7, <3>1, <4>2 DEF CountedRight, Own, Sent, Create, Quiet
      <4>3. QED
        BY <4>1, <4>2
    <3>3. QED
      BY <3>2 DEF FirstInv
  <2>8. ASSUME NEW u \in Triggers, FileForReview(u) PROVE FirstInv'
    <3>1. /\ Create(u, "pending_review", handler[u].tier, "nobody", FALSE)
          /\ UNCHANGED <<sampled, first, preceded, swept>> /\ handler[u].step = "file"
      BY <2>8 DEF FileForReview, Environment, history, At
    <3>2. handler[u].tier # 1 /\ u \notin Own
      BY <2>0, <3>1 DEF CountedRight, Own
    <3>3. QED
      BY <2>7, <2>8, <3>1, <3>2, Effects DEF Handle
  <2>9. ASSUME NEW u \in Triggers, HoldForApproval(u) PROVE FirstInv'
    <3>1. /\ \E held \in BOOLEAN : Create(u, "pending_review", 2, "nobody", held)
          /\ UNCHANGED <<sampled, first, preceded, swept>> /\ handler[u].step = "hold"
      BY <2>9 DEF HoldForApproval, Environment, history, At
    <3>2. u \notin Own
      BY <2>0, <3>1 DEF CountedRight, Own
    <3>3. QED
      BY <2>7, <2>9, <3>1, <3>2, Effects DEF Handle
  <2>10. ASSUME NEW u \in Triggers, ApproveAutonomously(u) PROVE FirstInv'
    <3>1. /\ Create(u, "approved", 1, SystemDecider, FALSE)
          /\ UNCHANGED <<sampled, first, preceded, swept>> /\ handler[u].step = "approve"
      BY <2>10 DEF ApproveAutonomously, Environment, history, At
    <3>2. u \notin Own
      BY <2>0, <3>1 DEF CountedRight, Own
    <3>3. QED
      BY <2>7, <2>10, <3>1, <3>2, Effects DEF Handle
  <2>11. ASSUME NEW u \in MessageIds, NEW status \in {"sent", "needs_triage"},
                message[u].status = "approved", message' = [message EXCEPT ![u].status = status]
         PROVE  /\ \A t \in MessageIds :
                      /\ message'[t].status = IF t = u THEN status ELSE message[t].status
                      /\ message'[t].tierContext = message[t].tierContext
                      /\ message'[t].decidedBy = message[t].decidedBy
                /\ Quiet' => (\A o \in Others : ~Sent(o))
    <3>1. \A t \in MessageIds : /\ message'[t].status = IF t = u THEN status ELSE message[t].status
                                /\ message'[t].tierContext = message[t].tierContext
                                /\ message'[t].decidedBy = message[t].decidedBy
      BY <2>0, <2>11, AfterChange
    <3>2. QED
      BY <2>11, <3>1 DEF Quiet, Sent
  <2>12. ASSUME NEW u \in Triggers, Dispatch(u) PROVE FirstInv'
    <3>1. UNCHANGED <<sampled, swept>> /\ handler[u].step = "dispatch"
      BY <2>12 DEF Dispatch, Environment, history, At
    <3>2. /\ \A t \in Triggers \ {u} : handler'[t] = handler[t]
          /\ handler'[u].step \in {"sample", "close"}
          /\ handler'[u].step = "sample" => handler'[u].prior = handler[u].prior
      BY <2>12, Effects DEF Handle
    <3>3. u \notin Own
      BY <2>0, <3>1 DEF CountedRight, Own
    <3>4. CASE handler'[u].step = "close"
      BY <2>1, <2>12, <3>1, <3>2, <3>3, <3>4, Effects
    <3>5. CASE handler'[u].step = "sample"
      <4>1. Send(u) /\ message[u].status = "approved"
        BY <2>12, <3>5, Effects
      <4>2. message' = [message EXCEPT ![u].status = "sent"]
        BY <4>1 DEF Send
      <4>3. /\ first \subseteq first' /\ first' \subseteq first \cup {u}
            /\ first # {} => preceded' = preceded
            /\ u \in Own' => first = {} /\ (~preceded' => Quiet)
            /\ message[u].decidedBy = SystemDecider => first' # {}
        BY <3>1, <3>3, <4>1 DEF Send, Own, Quiet
      <4>4. CountedRight(u)'
        BY <2>0, <2>11, <3>1, <3>2, <3>5, <4>1, <4>2, <4>3 DEF CountedRight, Own, Sent
      <4>5. ASSUME NEW t \in Triggers \ {u} PROVE CountedRight(t)'
        <5>1. Quiet' => Quiet
          BY <2>11, <4>1, <4>2, <4>3 DEF Quiet
        <5>2. t \in Own' => t \in Own /\ preceded' = preceded
          BY <3>1, <4>3 DEF Own
        <5>3. QED
          BY <2>0, <2>11, <3>1, <3>2, <4>1, <4>2, <4>3, <5>1, <5>2 DEF CountedRight, Sent
      <4>6. QED
        BY <4>4, <4>5 DEF FirstInv
    <3>6. QED
      BY <3>2, <3>4, <3>5
  <2>13. ASSUME NEW u \in Triggers, Review(u) PROVE FirstInv'
    <3>1. /\ UNCHANGED <<handler, sampled, first, preceded, swept>>
          /\ message[u].status = "pending_review" /\ message[u].tierContext # 1
      BY <2>0, <2>13 DEF Review, Rows, history, CountedRight, Own
    <3>2. PICK status \in {"rejected", "approved"} :
            message' = [message EXCEPT ![u].status = status, ![u].decidedBy = "human"]
      BY <2>13 DEF Review
    <3>3. ASSUME NEW t \in MessageIds
          PROVE  /\ message'[t].tierContext = message[t].tierContext
                 /\ t # u => message'[t] = message[t]
      BY <2>0, <3>2, AfterChange
    <3>4. Quiet' => Quiet
      BY <3>1, <3>3 DEF Quiet, Sent
    <3>5. ASSUME NEW t \in Triggers PROVE CountedRight(t)'
      BY <2>0, <3>1, <3>3, <3>4 DEF CountedRight, Own, Sent
    <3>6. QED
      BY <3>5 DEF FirstInv
  <2>14. ASSUME NEW u \in MessageIds, DispatchApproved(u) PROVE FirstInv'
    <3>1. /\ UNCHANGED <<handler, sampled, swept>> /\ message[u].status = "approved"
          /\ message' = [message EXCEPT ![u].status = "sent"]
          /\ first \subseteq first' /\ first' \subseteq first \cup {u}
          /\ first # {} => preceded' = preceded
      BY <2>14 DEF DispatchApproved, Send, Rows
    <3>2. Quiet' => Quiet
      BY <2>11, <3>1 DEF Quiet
    <3>3. u \in Triggers => message[u].tierContext # 1 /\ first' = first /\ preceded' = preceded
      BY <1>0, <2>0, <2>14 DEF DispatchApproved, Send, CountedRight
    <3>4. ASSUME NEW t \in Triggers PROVE CountedRight(t)'
      <4>1. t \in Own' => t \in Own /\ preceded' = preceded
        BY <3>1, <3>3 DEF Own
      <4>2. QED
        BY <2>0, <2>11, <3>1, <3>2, <3>3, <4>1 DEF CountedRight, Sent
    <3>5. QED
      BY <3>4 DEF FirstInv
  <2>15. ASSUME NEW u \in MessageIds, Reconcile(u) PROVE FirstInv'
    <3>1. /\ UNCHANGED <<handler, sampled>> /\ message[u].status = "approved"
          /\ first \subseteq first' /\ first' \subseteq first \cup {u} /\ swept \subseteq swept'
          /\ first # {} => preceded' = preceded
      BY <2>15 DEF Reconcile, Send, Rows, history
    <3>2. PICK status \in {"sent", "needs_triage"} :
            /\ message' = [message EXCEPT ![u].status = status]
            /\ status = "sent" =>
                  /\ u \in swept'
                  /\ message[u].decidedBy = SystemDecider => first' # {}
            /\ status # "sent" => UNCHANGED history
      BY <2>15 DEF Reconcile, Send
    <3>3. Quiet' => Quiet
      BY <2>11, <3>1, <3>2 DEF Quiet
    <3>4. ASSUME NEW t \in Triggers PROVE CountedRight(t)'
      <4>1. t \in Own' => t \in Own /\ preceded' = preceded
        BY <3>1, <3>2 DEF Own, history
      <4>2. QED
        BY <2>0, <2>11, <3>1, <3>2, <3>3, <4>1 DEF CountedRight, Sent
    <3>5. QED
      BY <3>4 DEF FirstInv
  <2>16. ASSUME NEW o \in Others, ReceiveInbound(o) \/ ComposeAndSend(o)
                   \/ \E u \in Triggers : FollowUp(u, o)
         PROVE  FirstInv'
    <3>1. /\ UNCHANGED <<handler, sampled, first, preceded, swept>>
          /\ message[o].status = "absent"
          /\ \A r \in MessageIds \ {o} : message'[r] = message[r]
      BY <2>0, <2>16 DEF ReceiveInbound, ComposeAndSend, FollowUp, Store, Create, Rows, history
    <3>2. Quiet' => Quiet
      BY <3>1 DEF Quiet, Sent
    <3>3. ASSUME NEW t \in Triggers PROVE CountedRight(t)'
      BY <2>0, <3>1, <3>2 DEF CountedRight, Own, Sent
    <3>4. QED
      BY <3>3 DEF FirstInv
  <2>17. CASE UNCHANGED <<message, handler, sampled, first, preceded, swept>>
    BY <2>0, <2>17 DEF FirstInv, CountedRight, Own, Sent, Quiet
  <2>18. QED
    BY <2>2, <2>3, <2>4, <2>5, <2>6, <2>8, <2>9, <2>10, <2>12, <2>13, <2>14, <2>15, <2>16, <2>17
       DEF Next, Surroundings, Handle, ChangeTier, OpenEscalation, ResolveEscalation,
           SwitchAutonomousSending, UpsertContact, EndFollowups, Rows, history, vars
<1>3. QED
  BY TypeCorrect, <1>1, <1>2, PTL DEF Spec

\* However many triggers of an account are processed at once, and whatever the sample rate, the
\* account's first unreviewed send, when it is a trigger's, is sampled, unless its handler died, the
\* sweep did the sending, or a follow-up or a reply at Tier 1 had gone out before and was counted.
THEOREM FirstIsSampled == Spec => []FirstSendIsSampled
<1>1. TypeOK /\ FirstInv => FirstSendIsSampled
  BY DEF FirstInv, CountedRight, Own, FirstSendIsSampled, TypeOK
<1>2. QED
  BY TypeCorrect, FirstInvariant, <1>1, PTL
=============================================================================
