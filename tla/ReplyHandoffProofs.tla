------------------------- MODULE ReplyHandoffProofs -------------------------
(***************************************************************************)
(* What holds of ReplyHandoff for any letters, any number of posts, any    *)
(* escalations and any users at the desk: the type invariant, that no      *)
(* reply slips through, that replies and escalations name each other, and  *)
(* that an escalation is resolved once.                                    *)
(***************************************************************************)
EXTENDS ReplyHandoff, FiniteSetTheorems, TLAPS

(***************************************************************************)
(* Lemmas.                                                                 *)
(***************************************************************************)
HandlerSteps ==
    {"absent", "called", "classify", "decide", "open", "link", "harmless", "escalated", "lost"}
UserRow == [step: {"idle", "compose_send", "note", "dispatch"},
            escalation: Escalations \cup {NoEscalation}]

\* A classification that moves on keeps its shape.
LEMMA HandlerMoves ==
    ASSUME NEW h \in [Messages -> Handler], NEW m \in Messages, NEW step \in HandlerSteps
    PROVE  /\ [h EXCEPT ![m].step = step] \in [Messages -> Handler]
           /\ \A floor \in SentimentFloor :
                 [h EXCEPT ![m].step = step, ![m].floor = floor] \in [Messages -> Handler]
           /\ \A answer \in Answer :
                 [h EXCEPT ![m].step = step, ![m].answer = answer] \in [Messages -> Handler]
           /\ \A rule \in HardTriggerRule \cup {NoRule} :
                 [h EXCEPT ![m].rule = rule, ![m].floor = "Medium", ![m].step = step]
                    \in [Messages -> Handler]
           /\ \A e \in Escalations :
                 [h EXCEPT ![m].step = step, ![m].escalation = e] \in [Messages -> Handler]
           /\ [h EXCEPT ![m] = [Unborn EXCEPT !.step = step]] \in [Messages -> Handler]
<1>0. h[m] \in Handler /\ "Medium" \in SentimentFloor
  BY DEF SentimentFloor
<1>1. [h EXCEPT ![m].step = step] \in [Messages -> Handler]
  BY DEF Handler, HandlerSteps
<1>2. \A floor \in SentimentFloor :
         [h EXCEPT ![m].step = step, ![m].floor = floor] \in [Messages -> Handler]
  BY DEF Handler, HandlerSteps
<1>3. \A answer \in Answer :
         [h EXCEPT ![m].step = step, ![m].answer = answer] \in [Messages -> Handler]
  BY DEF Handler, HandlerSteps
<1>4. \A rule \in HardTriggerRule \cup {NoRule} :
         [h EXCEPT ![m].rule = rule, ![m].floor = "Medium", ![m].step = step] \in [Messages -> Handler]
  BY <1>0 DEF Handler, HandlerSteps
<1>5. \A e \in Escalations :
         [h EXCEPT ![m].step = step, ![m].escalation = e] \in [Messages -> Handler]
  BY DEF Handler, HandlerSteps
<1>6. NoAnswer \in Answer
  BY DEF NoAnswer, Answer, Confidence
<1>7. [Unborn EXCEPT !.step = step] \in Handler
  BY <1>6 DEF Unborn, Handler, HandlerSteps, SentimentFloor
<1>8. QED
  BY <1>1, <1>2, <1>3, <1>4, <1>5, <1>7

\* The hard triggers answer with a rule, or with none only to a reply understood as English, with
\* some confidence, in which no named rule fires.
LEMMA DecisionIsSafe ==
    ASSUME NEW answer \in Answer, NEW floor
    PROVE  /\ DecideHardTrigger(answer, floor) \in HardTriggerRule \cup {NoRule}
           /\ DecideHardTrigger(answer, floor) = "none" =>
                 /\ answer.parsed /\ answer.english /\ answer.confidence # "low"
                 /\ ~answer.fires \/ answer.rule = NoRule
<1>1. answer.rule \in {"pricing_question", "negative_sentiment", "none"}
  BY DEF Answer, NoRule
<1>2. CASE ~answer.parsed \/ answer.confidence = "low" \/ ~answer.english
  BY <1>2 DEF DecideHardTrigger, HardTriggerRule
<1>3. CASE /\ answer.parsed /\ answer.confidence # "low" /\ answer.english
           /\ ~answer.fires \/ answer.rule = "none"
  BY <1>3 DEF DecideHardTrigger, NoRule
<1>4. CASE answer.english /\ answer.fires /\ answer.rule # "none"
           /\ answer.parsed /\ answer.confidence # "low"
  <2>1. DecideHardTrigger(answer, floor) \in {"classification_uncertain", answer.rule}
    BY <1>4 DEF DecideHardTrigger
  <2>2. QED
    BY <1>1, <1>4, <2>1 DEF HardTriggerRule
<1>5. QED
  BY <1>2, <1>3, <1>4

\* What each step of a classification does to its own handler; it leaves the others alone.
LEMMA Effects ==
    ASSUME TypeOK, NEW m \in Messages
    PROVE  /\ \A l \in Letters : ReceiveInbound(m, l) => handler'[m].step = "called"
           /\ LoseClassification(m) => handler'[m].step = "lost"
           /\ FindMessage(m) => handler'[m].step = "classify"
           /\ ClassifyInboundReply(m) => handler'[m].step = "decide"
           /\ Decide(m) =>
                 /\ handler'[m].answer = handler[m].answer
                 /\ \/ handler'[m].step = "open" /\ UNCHANGED answered
                    \/ /\ handler'[m].step = "harmless"
                       /\ DecideHardTrigger(handler[m].answer, handler[m].floor) = "none"
                       /\ answered' = answered \cup {inbound[m].letter}
           /\ OpenEscalation(m) => handler'[m].step = "link"
           /\ LinkMessage(m) => handler'[m].step = "escalated"
           /\ (\E l \in Letters : ReceiveInbound(m, l)) \/ LoseClassification(m) \/ FindMessage(m)
                 \/ ClassifyInboundReply(m) \/ Decide(m) \/ OpenEscalation(m) \/ LinkMessage(m)
              => \A n \in Messages \ {m} : handler'[n] = handler[n]
<1>0. handler \in [Messages -> Handler] /\ handler[m] \in Handler
  BY DEF TypeOK
<1>1. \A l \in Letters : ReceiveInbound(m, l) => handler'[m].step = "called"
  BY <1>0 DEF ReceiveInbound, GoTo, Handler
<1>2. LoseClassification(m) => handler'[m].step = "lost"
  BY <1>0 DEF LoseClassification, End, Unborn
<1>3. FindMessage(m) => handler'[m].step = "classify"
  BY <1>0 DEF FindMessage, Handler
<1>4. ClassifyInboundReply(m) => handler'[m].step = "decide"
  BY <1>0 DEF ClassifyInboundReply, Handler
<1>5. ASSUME Decide(m)
      PROVE  /\ handler'[m].answer = handler[m].answer
             /\ \/ handler'[m].step = "open" /\ UNCHANGED answered
                \/ /\ handler'[m].step = "harmless"
                   /\ DecideHardTrigger(handler[m].answer, handler[m].floor) = "none"
                   /\ answered' = answered \cup {inbound[m].letter}
  <2> DEFINE rule == DecideHardTrigger(handler[m].answer, handler[m].floor)
             step == IF rule = "none" THEN "harmless" ELSE "open"
  <2>1. /\ handler' = [handler EXCEPT ![m].rule = rule, ![m].floor = "Medium", ![m].step = step]
        /\ answered' = IF rule = "none" THEN answered \cup {inbound[m].letter} ELSE answered
    BY <1>5 DEF Decide
  <2> HIDE DEF rule
  <2>2. handler'[m].answer = handler[m].answer /\ handler'[m].step = step
    BY <1>0, <2>1 DEF Handler
  <2>3. QED
    BY <2>1, <2>2 DEF rule
<1>6. OpenEscalation(m) => handler'[m].step = "link"
  BY <1>0 DEF OpenEscalation, Handler
<1>7. LinkMessage(m) => handler'[m].step = "escalated"
  BY <1>0 DEF LinkMessage, End, Unborn
<1>8. (\E l \in Letters : ReceiveInbound(m, l)) \/ LoseClassification(m) \/ FindMessage(m)
         \/ ClassifyInboundReply(m) \/ Decide(m) \/ OpenEscalation(m) \/ LinkMessage(m)
      => \A n \in Messages \ {m} : handler'[n] = handler[n]
  BY <1>0 DEF ReceiveInbound, LoseClassification, FindMessage, ClassifyInboundReply, Decide,
     OpenEscalation, LinkMessage, GoTo, End
<1>9. QED
  BY <1>1, <1>2, <1>3, <1>4, <1>5, <1>6, <1>7, <1>8

(***************************************************************************)
(* The type invariant.                                                     *)
(***************************************************************************)
\* A handler has a stored reply to work on: what its poster is told concerns a real letter.
Lettered == \A m \in Messages : handler[m].step # "absent" => inbound[m].letter \in Letters

\* The types are inductive together with it.
LEMMA TypeInvariant == Spec => [](TypeOK /\ Lettered)
<1>1. Init => TypeOK /\ Lettered
  <2> SUFFICES ASSUME Init PROVE TypeOK /\ Lettered
    OBVIOUS
  <2>1. Unborn \in Handler /\ Unborn.step = "absent"
    BY DEF Unborn, NoAnswer, Answer, Handler, Confidence, SentimentFloor
  <2>2. NoRow \in EscalationRow /\ [letter |-> NoLetter, escalation |-> NoEscalation] \in InboundRow
    BY DEF NoRow, EscalationRow, InboundRow
  <2>3. Free \in UserRow /\ Free.step = "idle"
    BY DEF Free, UserRow
  <2>4. TypeOK
    BY <2>1, <2>2, <2>3 DEF Init, TypeOK, UserRow
  <2>5. Lettered
    BY <2>1 DEF Init, Lettered
  <2>6. QED
    BY <2>4, <2>5
<1>2. TypeOK /\ Lettered /\ [Next]_vars => TypeOK' /\ Lettered'
  <2> SUFFICES ASSUME TypeOK, Lettered, [Next]_vars PROVE TypeOK' /\ Lettered'
    OBVIOUS
  <2> USE DEF Desk, Flow
  <2>0. /\ answered \subseteq Letters /\ inbound \in [Messages -> InboundRow]
        /\ handler \in [Messages -> Handler] /\ escalation \in [Escalations -> EscalationRow]
        /\ resolution \subseteq Escalations
        /\ reply \in [Escalations -> {"absent", "approved", "sent", "needs_triage"}]
        /\ composed \in [Escalations -> Nat] /\ user \in [Users -> UserRow]
    BY DEF TypeOK, UserRow
  <2>1. /\ "called" \in HandlerSteps /\ "classify" \in HandlerSteps /\ "decide" \in HandlerSteps
        /\ "open" \in HandlerSteps /\ "link" \in HandlerSteps /\ "harmless" \in HandlerSteps
        /\ "escalated" \in HandlerSteps /\ "lost" \in HandlerSteps
    BY DEF HandlerSteps
  <2>2. ASSUME NEW m \in Messages, UNCHANGED <<inbound, escalation, Desk>>,
               handler' \in [Messages -> Handler], answered' \subseteq Letters,
               handler[m].step # "absent", \A n \in Messages \ {m} : handler'[n] = handler[n]
        PROVE  TypeOK' /\ Lettered'
    <3>1. TypeOK'
      BY <2>2 DEF TypeOK
    <3>2. Lettered'
      BY <2>2 DEF Lettered
    <3>3. QED
      BY <3>1, <3>2
  <2>3. ASSUME NEW m \in Messages, NEW l \in Letters, ReceiveInbound(m, l)
        PROVE  TypeOK' /\ Lettered'
    <3>1. handler' \in [Messages -> Handler]
      BY <2>0, <2>1, <2>3, HandlerMoves DEF ReceiveInbound, GoTo
    <3>2. inbound' \in [Messages -> InboundRow]
      BY <2>0, <2>3 DEF ReceiveInbound, InboundRow
    <3>3. TypeOK'
      BY <2>3, <3>1, <3>2 DEF ReceiveInbound, TypeOK
    <3>4. inbound'[m].letter = l /\ \A n \in Messages \ {m} : inbound'[n] = inbound[n]
      BY <2>0, <2>3 DEF ReceiveInbound, InboundRow
    <3>5. \A n \in Messages \ {m} : handler'[n] = handler[n]
      BY <2>3, Effects
    <3>6. Lettered'
      BY <3>4, <3>5 DEF Lettered
    <3>7. QED
      BY <3>3, <3>6
  <2>4. ASSUME NEW m \in Messages, LoseClassification(m) PROVE TypeOK' /\ Lettered'
    <3>1. handler' \in [Messages -> Handler]
      BY <2>0, <2>1, <2>4, HandlerMoves DEF LoseClassification, End
    <3>2. QED
      BY <2>0, <2>2, <2>4, <3>1, Effects DEF LoseClassification
  <2>5. ASSUME NEW m \in Messages, FindMessage(m) PROVE TypeOK' /\ Lettered'
    <3>1. PICK floor \in SentimentFloor :
            handler' = [handler EXCEPT ![m].step = "classify", ![m].floor = floor]
      BY <2>5 DEF FindMessage
    <3>2. handler' \in [Messages -> Handler]
      BY <2>0, <2>1, <3>1, HandlerMoves
    <3>3. QED
      BY <2>0, <2>2, <2>5, <3>2, Effects DEF FindMessage, At
  <2>6. ASSUME NEW m \in Messages, ClassifyInboundReply(m) PROVE TypeOK' /\ Lettered'
    <3>1. NoAnswer \in Answer
      BY DEF NoAnswer, Answer, Confidence
    <3>2. PICK answer \in Answer :
            handler' = [handler EXCEPT ![m].step = "decide", ![m].answer = answer]
      BY <2>6, <3>1 DEF ClassifyInboundReply
    <3>3. handler' \in [Messages -> Handler]
      BY <2>0, <2>1, <3>2, HandlerMoves
    <3>4. QED
      BY <2>0, <2>2, <2>6, <3>3, Effects DEF ClassifyInboundReply, At
  <2>7. ASSUME NEW m \in Messages, Decide(m) PROVE TypeOK' /\ Lettered'
    <3> DEFINE rule == DecideHardTrigger(handler[m].answer, handler[m].floor)
               step == IF rule = "none" THEN "harmless" ELSE "open"
    <3>1. handler' = [handler EXCEPT ![m].rule = rule, ![m].floor = "Medium", ![m].step = step]
      BY <2>7 DEF Decide
    <3>2. handler[m].answer \in Answer
      BY <2>0 DEF Handler
    <3>3. rule \in HardTriggerRule \cup {NoRule}
      BY <3>2, DecisionIsSafe
    <3>4. step \in HandlerSteps
      BY <2>1
    <3> HIDE DEF rule, step
    <3>5. handler' \in [Messages -> Handler]
      BY <2>0, <3>1, <3>3, <3>4, HandlerMoves
    <3>6. handler[m].step # "absent" /\ inbound[m].letter \in Letters
      BY <2>7 DEF Decide, At, Lettered
    <3>7. answered' \subseteq Letters
      BY <2>0, <2>7, <3>6, Effects
    <3>8. QED
      BY <2>2, <2>7, <3>5, <3>6, <3>7, Effects DEF Decide
  <2>8. ASSUME NEW m \in Messages, OpenEscalation(m) PROVE TypeOK' /\ Lettered'
    <3>1. PICK e \in Escalations :
            /\ escalation' = [escalation EXCEPT ![e] = [status |-> "active", message |-> m,
                                                        rule |-> handler[m].rule,
                                                        repeatOf |-> NoEscalation]]
            /\ handler' = [handler EXCEPT ![m].step = "link", ![m].escalation = e]
      BY <2>8 DEF OpenEscalation
    <3>2. handler' \in [Messages -> Handler]
      BY <2>0, <2>1, <3>1, HandlerMoves
    <3>3. handler[m].rule \in HardTriggerRule \cup {NoRule}
      BY <2>0 DEF Handler
    <3>4. [status |-> "active", message |-> m, rule |-> handler[m].rule,
           repeatOf |-> NoEscalation] \in EscalationRow
      BY <3>3 DEF EscalationRow
    <3>5. escalation' \in [Escalations -> EscalationRow] /\ escalation'[e].status = "active"
          /\ \A f \in Escalations \ {e} : escalation'[f] = escalation[f]
      BY <2>0, <3>1, <3>4
    <3>6. \A u \in Users : user[u].step # "idle" =>
             escalation'[user[u].escalation].status # "absent"
      BY <3>5 DEF TypeOK
    <3>7. TypeOK'
      BY <2>8, <3>2, <3>5, <3>6 DEF OpenEscalation, TypeOK
    <3>8. Lettered'
      BY <2>8, Effects DEF OpenEscalation, At, Lettered
    <3>9. QED
      BY <3>7, <3>8
  <2>9. ASSUME NEW m \in Messages, LinkMessage(m) PROVE TypeOK' /\ Lettered'
    <3>1. handler' \in [Messages -> Handler]
      BY <2>0, <2>1, <2>9, HandlerMoves DEF LinkMessage, End
    <3>2. handler[m].escalation \in Escalations \cup {NoEscalation}
      BY <2>0 DEF Handler
    <3>3. inbound' = [inbound EXCEPT ![m].escalation = handler[m].escalation]
      BY <2>9 DEF LinkMessage
    <3>4. inbound' \in [Messages -> InboundRow]
      BY <2>0, <3>2, <3>3 DEF InboundRow
    <3>5. \A n \in Messages : inbound'[n].letter = inbound[n].letter
      BY <2>0, <3>3 DEF InboundRow
    <3>6. inbound[m].letter \in Letters /\ handler[m].step # "absent"
      BY <2>9 DEF LinkMessage, At, Lettered
    <3>7. TypeOK'
      BY <2>0, <2>9, <3>1, <3>4, <3>6 DEF LinkMessage, TypeOK
    <3>8. Lettered'
      BY <2>9, <3>5, <3>6, Effects DEF Lettered
    <3>9. QED
      BY <3>7, <3>8
  <2>10. ASSUME UNCHANGED Flow, TypeOK' PROVE TypeOK' /\ Lettered'
    BY <2>10 DEF Lettered
  <2>11. ASSUME NEW u \in Users, NEW e \in Escalations, BeginResolve(u, e) PROVE TypeOK'
    <3>1. PICK action \in {"compose_send", "note"} :
            user' = [user EXCEPT ![u] = [step |-> action, escalation |-> e]]
      BY <2>11 DEF BeginResolve
    <3>2. user' \in [Users -> UserRow] /\ user'[u].escalation = e
          /\ \A v \in Users \ {u} : user'[v] = user[v]
      BY <2>0, <3>1 DEF UserRow
    <3>3. escalation[e].status = "active"
      BY <2>11 DEF BeginResolve
    <3>4. \A v \in Users :
             user'[v].step # "idle" => /\ user'[v].escalation \in Escalations
                                       /\ escalation[user'[v].escalation].status # "absent"
      BY <3>2, <3>3 DEF TypeOK
    <3>5. QED
      BY <2>11, <3>2, <3>4 DEF BeginResolve, TypeOK, UserRow
  <2>12. ASSUME NEW u \in Users, Leave(u)
         PROVE  /\ user' \in [Users -> UserRow]
                /\ \A v \in Users : user'[v] = user[v] \/ user'[v].step = "idle"
    BY <2>0, <2>12 DEF Leave, Free, UserRow
  <2>13. ASSUME NEW u \in Users, RollBack(u) \/ LoseRequest(u) PROVE TypeOK'
    <3>1. Leave(u) /\ UNCHANGED <<Flow, escalation, resolution, reply, composed>>
      BY <2>13 DEF RollBack, LoseRequest
    <3>2. \A v \in Users :
             user'[v].step # "idle" => /\ user'[v].escalation \in Escalations
                                       /\ escalation[user'[v].escalation].status # "absent"
      BY <2>12, <3>1 DEF TypeOK
    <3>3. QED
      BY <2>12, <3>1, <3>2 DEF TypeOK, UserRow
  <2>14. ASSUME NEW u \in Users, Resolve(u) PROVE TypeOK'
    <3> DEFINE e == user[u].escalation
    <3>1. e \in Escalations
      BY <2>14 DEF Resolve, TypeOK
    <3>2. escalation' = [escalation EXCEPT ![e].status = "resolved"]
          /\ resolution' = resolution \cup {e} /\ UNCHANGED Flow
      BY <2>14 DEF Resolve
    <3>3. /\ escalation' \in [Escalations -> EscalationRow] /\ escalation'[e].status = "resolved"
          /\ \A f \in Escalations \ {e} : escalation'[f] = escalation[f]
      BY <2>0, <3>1, <3>2 DEF EscalationRow
    <3>4. /\ reply' \in [Escalations -> {"absent", "approved", "sent", "needs_triage"}]
          /\ composed' \in [Escalations -> Nat]
      BY <2>0, <2>14 DEF Resolve
    <3>5. /\ user' \in [Users -> UserRow]
          /\ \A v \in Users : user'[v].step = "idle" \/ /\ user'[v].escalation = user[v].escalation
                                                        /\ user[v].step # "idle"
      <4>1. CASE Leave(u)
        BY <2>12, <4>1
      <4>2. CASE user' = [user EXCEPT ![u].step = "dispatch"]
        BY <2>0, <2>14, <4>2 DEF Resolve, UserRow
      <4>3. QED
        BY <2>14, <4>1, <4>2 DEF Resolve
    <3>6. \A v \in Users :
             user'[v].step # "idle" => /\ user'[v].escalation \in Escalations
                                       /\ escalation'[user'[v].escalation].status # "absent"
      BY <3>3, <3>5 DEF TypeOK
    <3>7. QED
      BY <2>0, <3>1, <3>2, <3>3, <3>4, <3>5, <3>6 DEF TypeOK, UserRow
  <2>15. ASSUME NEW u \in Users, DispatchReply(u) PROVE TypeOK'
    <3>1. Leave(u) /\ UNCHANGED <<Flow, escalation, resolution, composed>>
      BY <2>15 DEF DispatchReply
    <3>2. reply' \in [Escalations -> {"absent", "approved", "sent", "needs_triage"}]
      BY <2>0, <2>15 DEF DispatchReply
    <3>3. \A v \in Users :
             user'[v].step # "idle" => /\ user'[v].escalation \in Escalations
                                       /\ escalation[user'[v].escalation].status # "absent"
      BY <2>12, <3>1 DEF TypeOK
    <3>4. QED
      BY <2>12, <3>1, <3>2, <3>3 DEF TypeOK, UserRow
  <2>16. ASSUME NEW e \in Escalations, Reconcile(e) PROVE TypeOK'
    <3>1. reply' \in [Escalations -> {"absent", "approved", "sent", "needs_triage"}]
      BY <2>0, <2>16 DEF Reconcile
    <3>2. QED
      BY <2>16, <3>1 DEF Reconcile, TypeOK
  <2>17. ASSUME NEW e \in Escalations, NEW other \in Escalations \cup {NoEscalation},
                escalation' = [escalation EXCEPT ![e].repeatOf = other],
                UNCHANGED <<Flow, resolution, reply, composed, user>>
         PROVE  TypeOK'
    <3>1. /\ escalation' \in [Escalations -> EscalationRow]
          /\ \A f \in Escalations : escalation'[f].status = escalation[f].status
      BY <2>0, <2>17 DEF EscalationRow
    <3>2. QED
      BY <2>17, <3>1 DEF TypeOK
  <2>18. ASSUME NEW e \in Escalations, LinkRepeat(e) \/ Unlink(e) PROVE TypeOK'
    BY <2>0, <2>17, <2>18 DEF LinkRepeat, Unlink
  <2>19. CASE UNCHANGED vars
    BY <2>19 DEF vars, TypeOK, Lettered
  <2>20. ASSUME NEW u \in Users, \/ \E e \in Escalations : BeginResolve(u, e)
                                 \/ Resolve(u) \/ RollBack(u) \/ LoseRequest(u) \/ DispatchReply(u)
         PROVE  TypeOK' /\ Lettered'
    <3>1. UNCHANGED Flow
      BY <2>20 DEF BeginResolve, Resolve, RollBack, LoseRequest, DispatchReply
    <3>2. QED
      BY <2>10, <2>11, <2>13, <2>14, <2>15, <2>20, <3>1
  <2>21. ASSUME NEW e \in Escalations, Reconcile(e) \/ LinkRepeat(e) \/ Unlink(e)
         PROVE  TypeOK' /\ Lettered'
    <3>1. UNCHANGED Flow
      BY <2>21 DEF Reconcile, LinkRepeat, Unlink
    <3>2. QED
      BY <2>10, <2>16, <2>18, <2>21, <3>1
  <2>22. QED
    BY <2>3, <2>4, <2>5, <2>6, <2>7, <2>8, <2>9, <2>19, <2>20, <2>21 DEF Next
<1>3. QED
  BY <1>1, <1>2, PTL DEF Spec

\* Every reachable state has the shape the schema and the two flows give it, and a request at work
\* has an escalation that exists.
THEOREM TypeCorrect == Spec => []TypeOK
<1>1. TypeOK /\ Lettered => TypeOK
  OBVIOUS
<1>2. QED
  BY TypeInvariant, <1>1, PTL

(***************************************************************************)
(* The inductive invariant.                                                *)
(***************************************************************************)
\* Before its handler opened one a reply has no escalation, and never more than one; a handler about
\* to link holds the one it opened.
Unopened == {"absent", "called", "classify", "decide", "open", "harmless"}

Opened(m) ==
    /\ handler[m].step \in Unopened => \A e \in Escalations : escalation[e].message # m
    /\ \A e, f \in Escalations : escalation[e].message = m /\ escalation[f].message = m => e = f
    /\ At(m, "link") => /\ handler[m].escalation \in Escalations
                        /\ escalation[handler[m].escalation].message = m
    /\ inbound[m].escalation # NoEscalation => escalation[inbound[m].escalation].message = m

\* A row that does not exist says nothing.
RowsExist == \A e \in Escalations : escalation[e].status = "absent" => escalation[e] = NoRow

\* A reply is composed with a resolution or not at all.
Closed(e) ==
    /\ e \in resolution <=> escalation[e].status = "resolved"
    /\ e \notin resolution => composed[e] = 0
    /\ composed[e] \in {0, 1} /\ (composed[e] = 1 <=> reply[e] # "absent")

HandoffInv ==
    /\ \A m \in Messages : Opened(m)
    /\ RowsExist
    /\ \A e \in Escalations : Closed(e)
    /\ NothingSlipsThrough

\* A reply is settled when it was understood as harmless or its escalation exists.
Settled(m) ==
    \/ At(m, "harmless") /\ Harmless(m)
    \/ \E e \in Escalations : escalation[e].message = m /\ escalation[e].status # "absent"

\* A step that leaves every settled reply settled, with its letter, lets no answer slip through.
LEMMA StillSettled ==
    ASSUME NothingSlipsThrough, answered' \subseteq answered \cup {inbound[m].letter : m \in Messages},
           \A m \in Messages : Settled(m) => Settled(m)' /\ inbound'[m].letter = inbound[m].letter,
           \A l \in answered' \ answered :
              \E m \in Messages : inbound'[m].letter = l /\ Settled(m)'
    PROVE  NothingSlipsThrough'
<1> SUFFICES ASSUME NEW l \in answered' PROVE \E m \in Messages : inbound'[m].letter = l /\ Settled(m)'
  BY DEF NothingSlipsThrough, Settled
<1>1. CASE l \in answered
  <2>1. PICK m \in Messages : inbound[m].letter = l /\ Settled(m)
    BY <1>1 DEF NothingSlipsThrough, Settled
  <2>2. QED
    BY <2>1
<1>2. CASE l \notin answered
  BY <1>2
<1>3. QED
  BY <1>1, <1>2

\* A step at the desk that resolves at most, opens nothing and keeps the rows closed properly.
LEMMA DeskStep ==
    ASSUME TypeOK, HandoffInv, UNCHANGED <<answered, inbound, handler>>,
           \A e \in Escalations : /\ escalation'[e].message = escalation[e].message
                                  /\ escalation'[e].status = "absent" => escalation'[e] = escalation[e]
                                  /\ escalation'[e].status = "absent" <=> escalation[e].status = "absent",
           \A e \in Escalations : Closed(e)'
    PROVE  HandoffInv'
<1>1. inbound \in [Messages -> InboundRow] /\ handler \in [Messages -> Handler]
  BY DEF TypeOK
<1>2. ASSUME NEW m \in Messages PROVE Opened(m)'
  <2>1. inbound[m].escalation \in Escalations \cup {NoEscalation}
    BY <1>1 DEF InboundRow
  <2>2. Opened(m)
    BY DEF HandoffInv
  <2>3. QED
    BY <2>1, <2>2 DEF Opened, At
<1>3. RowsExist'
  BY DEF HandoffInv, RowsExist
<1>4. NothingSlipsThrough'
  BY StillSettled DEF HandoffInv, Settled, At, Harmless
<1>5. QED
  BY <1>2, <1>3, <1>4 DEF HandoffInv

\* The invariant holds initially, and every step keeps it.
LEMMA HandoffInvariant == Spec => []HandoffInv
<1>1. Init => HandoffInv
  <2> SUFFICES ASSUME Init PROVE HandoffInv
    OBVIOUS
  <2>1. \A e \in Escalations : escalation[e] = NoRow /\ composed[e] = 0 /\ reply[e] = "absent"
    BY DEF Init
  <2>2. NoRow.message = NoMessage /\ NoRow.status = "absent" /\ resolution = {} /\ answered = {}
    BY DEF Init, NoRow
  <2>3. \A m \in Messages : handler[m].step = "absent" /\ inbound[m].escalation = NoEscalation
    BY DEF Init, Unborn
  <2>4. \A m \in Messages : Opened(m)
    BY <2>1, <2>2, <2>3, NoneIsNoRow DEF Opened, At
  <2>5. \A e \in Escalations : Closed(e)
    BY <2>1, <2>2 DEF Closed
  <2>6. RowsExist /\ NothingSlipsThrough
    BY <2>1, <2>2 DEF RowsExist, NothingSlipsThrough
  <2>7. QED
    BY <2>4, <2>5, <2>6 DEF HandoffInv
<1>2. TypeOK /\ Lettered /\ HandoffInv /\ [Next]_vars => HandoffInv'
  <2> SUFFICES ASSUME TypeOK, Lettered, HandoffInv, [Next]_vars PROVE HandoffInv'
    OBVIOUS
  <2> USE DEF Desk, Flow
  <2>0. /\ \A m \in Messages : Opened(m)
        /\ \A e \in Escalations : Closed(e)
        /\ RowsExist /\ NothingSlipsThrough
        /\ inbound \in [Messages -> InboundRow] /\ handler \in [Messages -> Handler]
        /\ escalation \in [Escalations -> EscalationRow] /\ resolution \subseteq Escalations
    BY DEF HandoffInv, TypeOK
  <2>1. ASSUME UNCHANGED <<resolution, composed, reply>>,
               \A e \in Escalations : \/ escalation'[e].status = escalation[e].status
                                      \/ /\ escalation[e].status = "absent"
                                         /\ escalation'[e].status = "active"
        PROVE  \A e \in Escalations : Closed(e)'
    BY <2>0, <2>1 DEF Closed
  <2>2. ASSUME NEW m \in Messages, UNCHANGED <<inbound, escalation, Desk>>,
               handler[m].step \notin {"absent", "harmless"}, handler'[m].step # "link",
               handler'[m].step \in Unopened => handler[m].step \in Unopened,
               \A n \in Messages \ {m} : handler'[n] = handler[n],
               \/ UNCHANGED answered
               \/ /\ answered' = answered \cup {inbound[m].letter}
                  /\ handler'[m].step = "harmless" /\ Harmless(m)'
        PROVE  HandoffInv'
    <3>1. ASSUME NEW n \in Messages PROVE Opened(n)'
      <4>1. CASE n = m
        BY <2>0, <2>2, <4>1 DEF Opened, At
      <4>2. CASE n # m
        BY <2>0, <2>2, <4>2 DEF Opened, At
      <4>3. QED
        BY <4>1, <4>2
    <3>2. \A n \in Messages : Settled(n) => Settled(n)' /\ inbound'[n].letter = inbound[n].letter
      BY <2>2 DEF Settled, At, Harmless
    <3>3. NothingSlipsThrough'
      <4>1. CASE UNCHANGED answered
        BY <2>0, <3>2, <4>1, StillSettled
      <4>2. CASE ~UNCHANGED answered
        <5>1. inbound'[m].letter = inbound[m].letter /\ Settled(m)'
          BY <2>2, <4>2 DEF Settled, At
        <5>2. QED
          BY <2>0, <2>2, <3>2, <4>2, <5>1, StillSettled
      <4>3. QED
        BY <4>1, <4>2
    <3>4. QED
      BY <2>0, <2>1, <2>2, <3>1, <3>3 DEF HandoffInv, RowsExist
  <2>3. ASSUME NEW m \in Messages, LoseClassification(m) PROVE HandoffInv'
    BY <2>2, <2>3, Effects DEF LoseClassification, Unopened
  <2>4. ASSUME NEW m \in Messages, FindMessage(m) \/ ClassifyInboundReply(m) PROVE HandoffInv'
    <3>1. /\ UNCHANGED <<answered, inbound, escalation, Desk>>
          /\ handler[m].step \in {"called", "classify"}
      BY <2>4 DEF FindMessage, ClassifyInboundReply, At
    <3>2. /\ handler'[m].step \in {"classify", "decide"}
          /\ \A n \in Messages \ {m} : handler'[n] = handler[n]
      BY <2>4, Effects
    <3>3. QED
      BY <2>2, <3>1, <3>2 DEF Unopened
  <2>5. ASSUME NEW m \in Messages, Decide(m) PROVE HandoffInv'
    <3>1. UNCHANGED <<inbound, escalation, Desk>> /\ handler[m].step = "decide"
      BY <2>5 DEF Decide, At
    <3>2. /\ handler'[m].step \in {"open", "harmless"}
          /\ handler'[m].answer = handler[m].answer
          /\ \A n \in Messages \ {m} : handler'[n] = handler[n]
          /\ \/ UNCHANGED answered
             \/ /\ answered' = answered \cup {inbound[m].letter}
                /\ handler'[m].step = "harmless"
                /\ DecideHardTrigger(handler[m].answer, handler[m].floor) = "none"
      BY <2>5, Effects
    <3>3. handler[m].answer \in Answer
      BY <2>0 DEF Handler
    <3>4. DecideHardTrigger(handler[m].answer, handler[m].floor) = "none" => Harmless(m)'
      BY <3>2, <3>3, DecisionIsSafe DEF Harmless
    <3>5. QED
      BY <2>2, <3>1, <3>2, <3>4 DEF Unopened
  <2>6. ASSUME NEW m \in Messages, NEW l \in Letters, ReceiveInbound(m, l) PROVE HandoffInv'
    <3>1. /\ handler[m].step = "absent" /\ UNCHANGED <<answered, escalation, Desk>>
          /\ inbound' = [inbound EXCEPT ![m].letter = l]
      BY <2>6 DEF ReceiveInbound, At
    <3>2. handler'[m].step = "called" /\ \A n \in Messages \ {m} : handler'[n] = handler[n]
      BY <2>6, Effects
    <3>3. \A n \in Messages : /\ inbound'[n].escalation = inbound[n].escalation
                              /\ n # m => inbound'[n] = inbound[n]
      BY <2>0, <3>1 DEF InboundRow
    <3>4. ASSUME NEW n \in Messages PROVE Opened(n)'
      <4>1. CASE n = m
        BY <2>0, <3>1, <3>2, <3>3, <4>1 DEF Opened, At, Unopened
      <4>2. CASE n # m
        BY <2>0, <3>1, <3>2, <3>3, <4>2 DEF Opened, At
      <4>3. QED
        BY <4>1, <4>2
    <3>5. ~Settled(m)
      BY <2>0, <3>1 DEF Settled, At, Opened, Unopened
    <3>6. \A n \in Messages : Settled(n) => Settled(n)' /\ inbound'[n].letter = inbound[n].letter
      BY <3>1, <3>2, <3>3, <3>5 DEF Settled, At, Harmless
    <3>7. NothingSlipsThrough'
      BY <2>0, <3>1, <3>6, StillSettled
    <3>8. QED
      BY <2>0, <2>1, <3>1, <3>4, <3>7 DEF HandoffInv, RowsExist
  <2>7. ASSUME NEW m \in Messages, OpenEscalation(m) PROVE HandoffInv'
    <3>1. UNCHANGED <<answered, inbound, Desk>> /\ handler[m].step = "open"
      BY <2>7 DEF OpenEscalation, At
    <3>2. PICK e \in Escalations :
            /\ escalation[e].status = "absent"
            /\ escalation' = [escalation EXCEPT ![e] = [status |-> "active", message |-> m,
                                                        rule |-> handler[m].rule,
                                                        repeatOf |-> NoEscalation]]
            /\ handler' = [handler EXCEPT ![m].step = "link", ![m].escalation = e]
      BY <2>7 DEF OpenEscalation
    <3>3. /\ escalation'[e].status = "active" /\ escalation'[e].message = m
          /\ \A f \in Escalations \ {e} : escalation'[f] = escalation[f]
      BY <2>0, <3>2
    <3>4. /\ handler'[m].step = "link" /\ handler'[m].escalation = e
          /\ \A n \in Messages \ {m} : handler'[n] = handler[n]
      BY <2>0, <3>2 DEF Handler
    <3>5. escalation[e].message = NoMessage
      BY <2>0, <3>2 DEF RowsExist, NoRow
    <3>6. \A f \in Escalations : escalation[f].message # m
      BY <2>0, <3>1 DEF Opened, Unopened
    <3>7. ASSUME NEW n \in Messages PROVE Opened(n)'
      <4>1. inbound[n].escalation # NoEscalation =>
               inbound[n].escalation \in Escalations /\ escalation[inbound[n].escalation].message = n
        BY <2>0 DEF Opened, InboundRow
      <4>2. inbound[n].escalation # NoEscalation => inbound[n].escalation # e /\ n # m
        BY <3>5, <3>6, <4>1, NoneIsNoRow
      <4>3. inbound'[n].escalation # NoEscalation => escalation'[inbound'[n].escalation].message = n
        BY <3>1, <3>3, <4>1, <4>2
      <4>4. CASE n = m
        BY <3>3, <3>4, <3>6, <4>3, <4>4 DEF Opened, At, Unopened
      <4>5. CASE n # m
        BY <2>0, <3>3, <3>4, <3>5, <4>3, <4>5, NoneIsNoRow DEF Opened, At
      <4>6. QED
        BY <4>4, <4>5
    <3>8. \A n \in Messages : Settled(n) => Settled(n)' /\ inbound'[n].letter = inbound[n].letter
      BY <3>1, <3>2, <3>3, <3>4 DEF Settled, At, Harmless
    <3>9. NothingSlipsThrough'
      BY <2>0, <3>1, <3>8, StillSettled
    <3>10. RowsExist'
      BY <2>0, <3>3 DEF RowsExist
    <3>11. QED
      BY <2>1, <3>1, <3>2, <3>3, <3>7, <3>9, <3>10 DEF HandoffInv
  <2>8. ASSUME NEW m \in Messages, LinkMessage(m) PROVE HandoffInv'
    <3>1. /\ handler[m].step = "link" /\ UNCHANGED <<escalation, Desk>>
          /\ answered' = answered \cup {inbound[m].letter}
          /\ inbound' = [inbound EXCEPT ![m].escalation = handler[m].escalation]
      BY <2>8 DEF LinkMessage, At
    <3>2. handler'[m].step = "escalated" /\ \A n \in Messages \ {m} : handler'[n] = handler[n]
      BY <2>8, Effects
    <3>3. \A n \in Messages : /\ inbound'[n].letter = inbound[n].letter
                              /\ inbound'[n].escalation =
                                    IF n = m THEN handler[m].escalation ELSE inbound[n].escalation
      BY <2>0, <3>1 DEF InboundRow
    <3>4. /\ handler[m].escalation \in Escalations
          /\ escalation[handler[m].escalation].message = m
      BY <2>0, <3>1 DEF Opened, At
    <3>5. ASSUME NEW n \in Messages PROVE Opened(n)'
      <4>1. CASE n = m
        BY <2>0, <3>1, <3>2, <3>3, <3>4, <4>1 DEF Opened, At, Unopened
      <4>2. CASE n # m
        BY <2>0, <3>1, <3>2, <3>3, <4>2 DEF Opened, At
      <4>3. QED
        BY <4>1, <4>2
    <3>6. escalation[handler[m].escalation].status # "absent"
      BY <2>0, <3>4, NoneIsNoRow DEF RowsExist, NoRow
    <3>7. \A n \in Messages : Settled(n) => Settled(n)' /\ inbound'[n].letter = inbound[n].letter
      BY <3>1, <3>2, <3>3 DEF Settled, At, Harmless
    <3>8. Settled(m)'
      BY <3>1, <3>4, <3>6 DEF Settled
    <3>9. NothingSlipsThrough'
      BY <2>0, <3>1, <3>3, <3>7, <3>8, StillSettled
    <3>10. QED
      BY <2>0, <2>1, <3>1, <3>5, <3>9 DEF HandoffInv, RowsExist
  <2>9. ASSUME UNCHANGED <<answered, inbound, handler, escalation, resolution, composed>>,
               \A e \in Escalations : reply'[e] = "absent" <=> reply[e] = "absent"
        PROVE  HandoffInv'
    <3>1. \A e \in Escalations : Closed(e)'
      BY <2>0, <2>9 DEF Closed
    <3>2. QED
      BY <2>9, <3>1, DeskStep
  <2>10. ASSUME NEW u \in Users, \/ \E e \in Escalations : BeginResolve(u, e)
                                 \/ RollBack(u) \/ LoseRequest(u)
         PROVE  HandoffInv'
    BY <2>9, <2>10 DEF BeginResolve, RollBack, LoseRequest
  <2>11. reply \in [Escalations -> {"absent", "approved", "sent", "needs_triage"}]
         /\ composed \in [Escalations -> Nat]
    BY DEF TypeOK
  <2>12. ASSUME NEW u \in Users, DispatchReply(u) PROVE HandoffInv'
    <3>1. UNCHANGED <<answered, inbound, handler, escalation, resolution, composed>>
      BY <2>12 DEF DispatchReply
    <3>2. user[u].escalation \in Escalations
      BY <2>12 DEF DispatchReply, TypeOK
    <3>3. \A e \in Escalations : reply'[e] = "absent" <=> reply[e] = "absent"
      BY <2>11, <2>12, <3>2 DEF DispatchReply
    <3>4. QED
      BY <2>9, <3>1, <3>3
  <2>13. ASSUME NEW f \in Escalations, Reconcile(f) PROVE HandoffInv'
    <3>1. UNCHANGED <<answered, inbound, handler, escalation, resolution, composed>>
      BY <2>13 DEF Reconcile
    <3>2. \A e \in Escalations : reply'[e] = "absent" <=> reply[e] = "absent"
      BY <2>11, <2>13 DEF Reconcile
    <3>3. QED
      BY <2>9, <3>1, <3>2
  <2>14. ASSUME NEW u \in Users, Resolve(u) PROVE HandoffInv'
    <3> DEFINE c == user[u].escalation
    <3>1. /\ c \in Escalations /\ escalation[c].status # "absent"
          /\ c \notin resolution /\ UNCHANGED <<answered, inbound, handler>>
          /\ resolution' = resolution \cup {c}
          /\ escalation' = [escalation EXCEPT ![c].status = "resolved"]
      BY <2>14 DEF Resolve, TypeOK
    <3>2. \/ UNCHANGED <<reply, composed>>
          \/ /\ reply' = [reply EXCEPT ![c] = "approved"]
             /\ composed' = [composed EXCEPT ![c] = @ + 1]
      BY <2>14 DEF Resolve
    <3> HIDE DEF c
    <3>3. \A e \in Escalations :
             /\ escalation'[e].message = escalation[e].message
             /\ escalation'[e].status = IF e = c THEN "resolved" ELSE escalation[e].status
             /\ e # c => escalation'[e] = escalation[e]
      BY <2>0, <3>1 DEF EscalationRow
    <3>4. composed[c] = 0 /\ reply[c] = "absent"
      BY <2>0, <2>11, <3>1 DEF Closed
    <3>5. ASSUME NEW e \in Escalations PROVE Closed(e)'
      <4>1. CASE e = c
        BY <2>0, <2>11, <3>1, <3>2, <3>3, <3>4, <4>1 DEF Closed
      <4>2. CASE e # c
        BY <2>0, <2>11, <3>1, <3>2, <3>3, <4>2 DEF Closed
      <4>3. QED
        BY <4>1, <4>2
    <3>6. QED
      BY <3>1, <3>3, <3>5, DeskStep
  <2>15. ASSUME NEW c \in Escalations, NEW other \in Escalations \cup {NoEscalation},
                escalation[c].status # "absent",
                escalation' = [escalation EXCEPT ![c].repeatOf = other],
                UNCHANGED <<Flow, resolution, reply, composed>>
         PROVE  HandoffInv'
    <3>1. \A e \in Escalations :
             /\ escalation'[e].message = escalation[e].message
             /\ escalation'[e].status = escalation[e].status
             /\ e # c => escalation'[e] = escalation[e]
      BY <2>0, <2>15 DEF EscalationRow
    <3>2. \A e \in Escalations : Closed(e)'
      BY <2>1, <2>15, <3>1
    <3>3. QED
      BY <2>15, <3>1, <3>2, DeskStep
  <2>16. ASSUME NEW e \in Escalations, LinkRepeat(e) \/ Unlink(e) PROVE HandoffInv'
    <3>1. escalation[e].status # "absent"
      BY <2>0, <2>16 DEF LinkRepeat, Unlink, RowsExist, NoRow
    <3>2. PICK other \in Escalations \cup {NoEscalation} :
            escalation' = [escalation EXCEPT ![e].repeatOf = other]
      BY <2>0, <2>16 DEF LinkRepeat, Unlink
    <3>3. UNCHANGED <<Flow, resolution, reply, composed>>
      BY <2>16 DEF LinkRepeat, Unlink
    <3>4. QED
      BY <2>15, <3>1, <3>2, <3>3
  <2>17. CASE UNCHANGED vars
    BY <2>9, <2>17 DEF vars
  <2>18. QED
    BY <2>3, <2>4, <2>5, <2>6, <2>7, <2>8, <2>10, <2>12, <2>13, <2>14, <2>16, <2>17 DEF Next
<1>3. QED
  BY TypeInvariant, <1>1, <1>2, PTL DEF Spec

(***************************************************************************)
(* What the handoff promises.                                              *)
(***************************************************************************)
\* Whatever attempts are lost, however often a letter is posted again and wherever the sentiment
\* floor moves, a letter its poster was told is settled was read, with some confidence and as
\* English, as one in which no named rule fires, or a human has it.
THEOREM SettledOrWithAHuman == Spec => []NothingSlipsThrough
<1>1. HandoffInv => NothingSlipsThrough
  BY DEF HandoffInv
<1>2. QED
  BY HandoffInvariant, <1>1, PTL

\* However many replies of an account are classified at once, each names its own escalation and
\* opened no other.
THEOREM EachReplyItsEscalation == Spec => []RepliesNameTheirEscalation
<1>1. HandoffInv => RepliesNameTheirEscalation
  <2> SUFFICES ASSUME HandoffInv, NEW m \in Messages
               PROVE  /\ inbound[m].escalation # NoEscalation =>
                            escalation[inbound[m].escalation].message = m
                      /\ Cardinality({e \in Escalations : escalation[e].message = m}) <= 1
    BY DEF RepliesNameTheirEscalation
  <2> DEFINE own == {e \in Escalations : escalation[e].message = m}
  <2>1. Opened(m)
    BY DEF HandoffInv
  <2>2. \A e, f \in own : e = f
    BY <2>1 DEF Opened
  <2>3. CASE own = {}
    BY <2>1, <2>3, FS_EmptySet DEF Opened
  <2>4. CASE own # {}
    <3>1. PICK e : e \in own
      BY <2>4
    <3>2. own = {e}
      BY <2>2, <3>1
    <3>3. Cardinality(own) = 1
      BY <3>2, FS_Singleton
    <3>4. QED
      BY <2>1, <3>3 DEF Opened
  <2>5. QED
    BY <2>3, <2>4
<1>2. QED
  BY HandoffInvariant, <1>1, PTL

\* Any number of users may resolve an escalation at the same time: it is closed once, with one
\* reply at most.
THEOREM ResolvedByOne == Spec => []ResolvedOnce
<1>1. HandoffInv => ResolvedOnce
  BY DEF HandoffInv, Closed, ResolvedOnce
<1>2. QED
  BY HandoffInvariant, <1>1, PTL
=============================================================================
