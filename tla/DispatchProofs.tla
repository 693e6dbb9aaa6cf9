--------------------------- MODULE DispatchProofs ---------------------------
(***************************************************************************)
(* What holds of Dispatch for any number of messages, dispatch calls,      *)
(* sweepers, console requests, escalations and crashes: the type           *)
(* invariant, and six safety properties, each through an invariant that    *)
(* adds what the handlers in flight carry with them.  The last part is     *)
(* about one request and one dispatch at a time: they carry out the life   *)
(* of a message that MessageLife promises, and send it at most once.       *)
(***************************************************************************)
EXTENDS DispatchLife, FiniteSetTheorems, TLAPS

(***************************************************************************)
(* Lemmas: what the helpers write has the right shape.                     *)
(***************************************************************************)
\* A row any of the creating handlers inserts is a Message row.
LEMMA NewRowType ==
    ASSUME NEW role \in MessageRole, NEW status \in MessageStatus, NEW tierContext \in Tiers,
           NEW decidedBy \in Deciders
    PROVE  NewRow(role, status, tierContext, decidedBy) \in Row
BY DEF NewRow, Row, Bodies

\* Every update the code makes to a Message row, by a statement that names some of its columns,
\* leaves a Message row.
LEMMA RowUpdates ==
    ASSUME NEW row \in Row, NEW flag \in BOOLEAN
    PROVE  /\ [row EXCEPT !.due = TRUE] \in Row
           /\ [row EXCEPT !.signal = flag] \in Row
           /\ [row EXCEPT !.status = "needs_triage"] \in Row
           /\ \A status \in {"approved", "rejected"} :
                 [row EXCEPT !.status = status, !.decidedBy = "human", !.due = FALSE] \in Row
           /\ \A body \in Revisions, original \in Bodies \cup {NoBody} :
                 [row EXCEPT !.body = body, !.originalBody = original, !.edited = TRUE] \in Row
           /\ \A role \in MessageRole :
                 [row EXCEPT !.status = "sent", !.sentAt = TRUE, !.role = role] \in Row
BY DEF Row, Bodies, MessageStatus, Deciders

\* The shape of the variables every step of a dispatch or a sweep writes.
WorkersTyped ==
    /\ pc \in [Workers -> WorkerSteps]
    /\ job \in [Workers -> Messages \cup {NoMessage}]
    /\ \A w \in Workers : pc[w] # "idle" => job[w] \in Messages
    /\ window \in [Workers -> [enabled: BOOLEAN, clear: BOOLEAN]]

\* The shape of the variables every console request writes.
RequestsTyped ==
    /\ opPc \in [Operators -> RequestSteps]
    /\ opMsg \in [Operators -> Messages \cup {NoMessage}]
    /\ \A u \in Operators : opPc[u] # "idle" => opMsg[u] \in Messages
    /\ keep \in [Operators -> Bodies \cup {NoBody}]

\* A worker that ends, answered, crashed or done, leaves well-typed worker variables.
LEMMA FinishType ==
    ASSUME NEW w \in Workers, TypeOK, Finish(w) PROVE WorkersTyped'
BY DEF TypeOK, Finish, WorkersTyped, WorkerSteps, NoWindow

\* So does one that goes on to a later step of the same dispatch.
LEMMA GoToType ==
    ASSUME NEW w \in Workers, NEW step \in WorkerSteps, TypeOK, pc[w] # "idle", GoTo(w, step)
    PROVE  WorkersTyped'
BY DEF TypeOK, GoTo, WorkersTyped

\* So does one that refuses, whether it ends (a route) or goes on to flag the message (a sweep).
LEMMA RefuseType ==
    ASSUME NEW w \in Workers, TypeOK, pc[w] # "idle", Refuse(w) PROVE WorkersTyped'
<1>1. CASE GoTo(w, "flag")
  BY <1>1, GoToType DEF WorkerSteps
<1>2. CASE Finish(w)
  BY <1>2, FinishType
<1>3. QED
  BY <1>1, <1>2 DEF Refuse

\* A worker that drops its copy of the row it read keeps the copies well typed.
LEMMA ForgetType ==
    ASSUME NEW w \in Workers, TypeOK, Forget(w) PROVE seen' \in [Workers -> Snapshot]
BY DEF TypeOK, Forget, Snapshot, NoSnapshot, MessageRole, Deciders

\* A console request that answers leaves well-typed request variables.
LEMMA EndRequestType ==
    ASSUME NEW u \in Operators, TypeOK, EndRequest(u) PROVE RequestsTyped'
BY DEF TypeOK, EndRequest, RequestsTyped, RequestSteps

(***************************************************************************)
(* The theorems.  Each proof of an induction step has one step per action. *)
(***************************************************************************)
\* Every reachable state has the shape the schema and the handlers give it.
THEOREM TypeCorrect == Spec => []TypeOK
<1>1. Init => TypeOK
  BY DispatchAssumption DEF Init, TypeOK, Absent, NewRow, Row, Snapshot, NoSnapshot, NoWindow,
     WorkerSteps, RequestSteps, Bodies, MessageRole, MessageStatus, Tiers, Deciders
<1>2. TypeOK /\ [Next]_vars => TypeOK'
  <2> SUFFICES ASSUME TypeOK, [Next]_vars PROVE TypeOK'
    OBVIOUS
  <2> USE DispatchAssumption DEF TypeOK, requestVars, workerVars, policyVars, outcomeVars
  <2>1. ASSUME NEW m \in Messages, DraftForReview(m) PROVE TypeOK'
    BY <2>1, NewRowType DEF DraftForReview, Tiers, MessageRole, MessageStatus, Deciders
  <2>2. ASSUME NEW m \in Messages, DraftAutonomously(m) PROVE TypeOK'
    BY <2>2, NewRowType DEF DraftAutonomously, Tiers, MessageRole, MessageStatus, Deciders
  <2>3. ASSUME NEW m \in Messages, ComposeAndSend(m) PROVE TypeOK'
    BY <2>3, NewRowType DEF ComposeAndSend, CloseEscalation, Tiers, MessageRole, MessageStatus,
       Deciders
  <2>4. CASE OpenEscalation
    <3>1. \A m \in Messages : Exists(m) \in BOOLEAN
      BY DEF Exists
    <3>2. msg' \in [Messages -> Row]
      BY <2>4, <3>1, RowUpdates DEF OpenEscalation
    <3>3. /\ active' \in Nat /\ opened' \in Nat
          /\ UNCHANGED <<calls, crashes, requestVars, workerVars, hasEmail, enabled, outcomeVars>>
      BY <2>4 DEF OpenEscalation
    <3>4. QED
      BY <3>2, <3>3
  <2>5. CASE MarkResolved
    BY <2>5 DEF MarkResolved, CloseEscalation
  <2>6. CASE PauseAutonomous
    BY <2>6 DEF PauseAutonomous
  <2>7. CASE ResumeAutonomous
    BY <2>7 DEF ResumeAutonomous
  <2>8. CASE UpsertContact
    BY <2>8 DEF UpsertContact
  <2>9. ASSUME NEW m \in Messages, LoseCall(m) PROVE TypeOK'
    BY <2>9 DEF LoseCall
  <2>10. ASSUME NEW r \in Routes, NEW m \in Messages, ReceiveCall(r, m) PROVE TypeOK'
    BY <2>10 DEF ReceiveCall, Start, WorkerSteps, Workers
  <2>11. ASSUME NEW m \in Messages, DecisionAges(m) PROVE TypeOK'
    BY <2>11, RowUpdates DEF DecisionAges
  <2>12. ASSUME NEW u \in Operators, NEW m \in Messages, BeginEdit(u, m) PROVE TypeOK'
    BY <2>12 DEF BeginEdit, Begin, RequestSteps, Bodies, Row
  <2>13. ASSUME NEW u \in Operators, NEW m \in Messages, BeginReject(u, m) PROVE TypeOK'
    BY <2>13 DEF BeginReject, Begin, RequestSteps, Bodies
  <2>14. ASSUME NEW u \in Operators, NEW m \in Messages, BeginApprove(u, m) PROVE TypeOK'
    BY <2>14 DEF BeginApprove, Begin, RequestSteps, Bodies
  <2>15. ASSUME NEW u \in Operators, EditDraft(u) PROVE TypeOK'
    <3>1. RequestsTyped'
      BY <2>15, EndRequestType DEF EditDraft
    <3>2. PICK body \in Revisions :
            msg' = [msg EXCEPT ![opMsg[u]] =
                       [@ EXCEPT !.body = body, !.originalBody = keep[u], !.edited = TRUE]]
      BY <2>15 DEF EditDraft
    <3>3. opMsg[u] \in Messages /\ keep[u] \in Bodies \cup {NoBody}
      BY <2>15 DEF EditDraft
    <3>4. msg' \in [Messages -> Row]
      BY <3>2, <3>3, RowUpdates
    <3>5. QED
      BY <2>15, <3>1, <3>4 DEF EditDraft, RequestsTyped
  <2>16. ASSUME NEW u \in Operators, RejectDraft(u) PROVE TypeOK'
    <3>1. RequestsTyped'
      BY <2>16, EndRequestType DEF RejectDraft
    <3>2. QED
      BY <2>16, <3>1, RowUpdates DEF RejectDraft, RequestsTyped, Decide
  <2>17. ASSUME NEW u \in Operators, RequireAgentSendAllowed(u) PROVE TypeOK'
    BY <2>17 DEF RequireAgentSendAllowed, EndRequest, RequestSteps
  <2>18. ASSUME NEW u \in Operators, ApproveDraft(u) PROVE TypeOK'
    <3>1. RequestsTyped'
      BY <2>18, EndRequestType DEF ApproveDraft
    <3>2. msg' \in [Messages -> Row]
      BY <2>18, RowUpdates DEF ApproveDraft, Decide
    <3>3. calls' \in [Messages -> Nat]
      BY <2>18 DEF ApproveDraft
    <3>4. QED
      BY <2>18, <3>1, <3>2, <3>3 DEF ApproveDraft, RequestsTyped
  <2>19. ASSUME NEW w \in Workers, ReadMessage(w) PROVE TypeOK'
    <3>1. WorkersTyped'
      BY <2>19, FinishType, RefuseType, GoToType DEF ReadMessage, WorkerSteps
    <3>2. seen' \in [Workers -> Snapshot]
      BY <2>19 DEF ReadMessage, Row, Snapshot, Workers
    <3>3. QED
      BY <2>19, <3>1, <3>2 DEF ReadMessage, WorkersTyped
  <2>20. ASSUME NEW w \in Workers, CheckSettings(w) PROVE TypeOK'
    <3>1. WorkersTyped'
      BY <2>20, RefuseType, GoToType DEF CheckSettings, WorkerSteps
    <3>2. seen' \in [Workers -> Snapshot]
      BY <2>20, ForgetType DEF CheckSettings
    <3>3. QED
      BY <2>20, <3>1, <3>2 DEF CheckSettings, WorkersTyped
  <2>21. ASSUME NEW w \in Workers, CheckEscalation(w) PROVE TypeOK'
    <3>1. WorkersTyped'
      BY <2>21, RefuseType, GoToType DEF CheckEscalation, WorkerSteps
    <3>2. seen' \in [Workers -> Snapshot]
      BY <2>21, ForgetType DEF CheckEscalation, CheckEscalation
    <3>3. QED
      BY <2>21, <3>1, <3>2 DEF CheckEscalation, WorkersTyped
  <2>22. ASSUME NEW w \in Workers, RecordSent(w) PROVE TypeOK'
    <3>1. WorkersTyped'
      BY <2>22, GoToType DEF RecordSent, WorkerSteps
    <3>2. seen' \in [Workers -> Snapshot]
      BY <2>22, ForgetType DEF RecordSent, RecordSent
    <3>3. QED
      BY <2>22, <3>1, <3>2, RowUpdates DEF RecordSent, WorkersTyped, Snapshot, MessageRole
  <2>23. ASSUME NEW w \in Workers, ReadForCleanApproval(w) PROVE TypeOK'
    <3>1. WorkersTyped'
      BY <2>23, FinishType, GoToType DEF ReadForCleanApproval, WorkerSteps
    <3>3. QED
      BY <2>23, <3>1 DEF ReadForCleanApproval, WorkersTyped
  <2>24. ASSUME NEW w \in Workers, CheckNegativeSignal(w) PROVE TypeOK'
    <3>1. WorkersTyped'
      BY <2>24, FinishType, GoToType DEF CheckNegativeSignal, WorkerSteps
    <3>3. QED
      BY <2>24, <3>1 DEF CheckNegativeSignal, WorkersTyped
  <2>25. ASSUME NEW w \in Workers, CountCleanApproval(w) PROVE TypeOK'
    <3>1. WorkersTyped'
      BY <2>25, FinishType DEF CountCleanApproval, WorkerSteps
    <3>3. QED
      BY <2>25, <3>1 DEF CountCleanApproval, WorkersTyped
  <2>26. ASSUME NEW w \in Workers, Crash(w) PROVE TypeOK'
    <3>1. WorkersTyped'
      BY <2>26, FinishType DEF Crash, WorkerSteps
    <3>2. seen' \in [Workers -> Snapshot]
      BY <2>26, ForgetType DEF Crash, Crash
    <3>3. QED
      BY <2>26, <3>1, <3>2 DEF Crash, WorkersTyped
  <2>27. ASSUME NEW s \in Sweepers, StartSweep(s) PROVE TypeOK'
    BY <2>27 DEF StartSweep, Stuck
  <2>28. ASSUME NEW s \in Sweepers, RetryNext(s) PROVE TypeOK'
    BY <2>28 DEF RetryNext, Start, WorkerSteps, Workers
  <2>29. ASSUME NEW s \in Sweepers, FlagForHuman(s) PROVE TypeOK'
    <3>1. WorkersTyped'
      BY <2>29, FinishType DEF FlagForHuman, Workers
    <3>3. QED
      BY <2>29, <3>1, RowUpdates DEF FlagForHuman, WorkersTyped, Workers
  <2>30. CASE UNCHANGED vars
    BY <2>30 DEF vars
  <2>. QED
    BY <2>1, <2>2, <2>3, <2>4, <2>5, <2>6, <2>7, <2>8, <2>9, <2>10, <2>11, <2>12, <2>13, <2>14,
       <2>15, <2>16, <2>17, <2>18, <2>19, <2>20, <2>21, <2>22, <2>23, <2>24, <2>25, <2>26, <2>27,
       <2>28, <2>29, <2>30 DEF Next, Arrival, Surroundings, Delivery, CallEnds, ConsoleStep,
       DispatchStep, SweepStep
<1>3. QED
  BY <1>1, <1>2, PTL DEF Spec

\* An edit in flight carries the text to keep as the original.
OriginalInv ==
    /\ OriginalIsAgentText
    /\ \A m \in Messages : msg[m].status = "pending_review" => msg[m].body # ReplyText
    /\ \A u \in Operators : opPc[u] = "edit" => keep[u] = DraftText

\* originalBody is the text the row was created with, for any number of overlapping edits.
THEOREM OriginalTextKept == Spec => []OriginalIsAgentText
<1>1. Init => OriginalInv
  <2>1. ASSUME Init
        PROVE  \A m \in Messages : /\ msg[m].originalBody = NoBody /\ msg[m].body = DraftText
                                   /\ msg[m].edited = FALSE
    BY <2>1 DEF Init, Absent, NewRow
  <2>2. ASSUME Init PROVE \A u \in Operators : opPc[u] = "idle"
    BY <2>2 DEF Init
  <2>3. QED
    BY <2>1, <2>2, DispatchAssumption DEF OriginalInv, OriginalIsAgentText, NoBody, DraftText,
       ReplyText
<1>2. TypeOK /\ OriginalInv /\ [Next]_vars => OriginalInv'
  <2> SUFFICES ASSUME TypeOK, OriginalInv, [Next]_vars PROVE OriginalInv'
    OBVIOUS
  <2> USE DispatchAssumption DEF TypeOK, OriginalInv, OriginalIsAgentText, requestVars, workerVars,
         policyVars, outcomeVars, Row
  <2>1. ASSUME NEW m \in Messages, DraftForReview(m) PROVE OriginalInv'
    <3>1. PICK tierContext \in {2, 3} :
            msg' = [msg EXCEPT
                      ![m] = NewRow("agent_draft", "pending_review", tierContext, "nobody")]
      BY <2>1 DEF DraftForReview
    <3>2. /\ msg'[m].originalBody = NoBody /\ msg'[m].body = DraftText
          /\ msg'[m].edited = FALSE
          /\ \A other \in Messages \ {m} : msg'[other] = msg[other]
      BY <3>1 DEF NewRow
    <3>3. UNCHANGED <<opPc, keep>>
      BY <2>1 DEF DraftForReview
    <3>4. ASSUME NEW other \in Messages
          PROVE  /\ msg'[other].originalBody \in {NoBody, DraftText}
                 /\ msg'[other].edited <=> msg'[other].originalBody = DraftText
                 /\ msg'[other].body \in Revisions => msg'[other].edited
                 /\ msg'[other].status = "pending_review" => msg'[other].body # ReplyText
      <4>1. CASE other = m
        BY <3>2, <4>1 DEF NoBody, DraftText, ReplyText
      <4>2. CASE other # m
        BY <3>2, <4>2
      <4>3. QED
        BY <4>1, <4>2
    <3>5. QED
      BY <3>3, <3>4
  <2>2. ASSUME NEW m \in Messages, DraftAutonomously(m) PROVE OriginalInv'
    BY <2>2 DEF DraftAutonomously, NewRow, Exists, NoBody, DraftText, ReplyText
  <2>3. ASSUME NEW m \in Messages, ComposeAndSend(m) PROVE OriginalInv'
    <3>1. PICK tierContext \in Tiers :
            msg' = [msg EXCEPT ![m] = NewRow("human_reply", "approved", tierContext, "human")]
      BY <2>3 DEF ComposeAndSend
    <3>2. /\ msg'[m].originalBody = NoBody /\ msg'[m].body = ReplyText
          /\ msg'[m].edited = FALSE /\ msg'[m].status = "approved"
          /\ \A other \in Messages \ {m} : msg'[other] = msg[other]
      BY <3>1 DEF NewRow
    <3>3. UNCHANGED <<opPc, keep>>
      BY <2>3 DEF ComposeAndSend
    <3>4. ASSUME NEW other \in Messages
          PROVE  /\ msg'[other].originalBody \in {NoBody, DraftText}
                 /\ msg'[other].edited <=> msg'[other].originalBody = DraftText
                 /\ msg'[other].body \in Revisions => msg'[other].edited
                 /\ msg'[other].status = "pending_review" => msg'[other].body # ReplyText
      <4>1. CASE other = m
        BY <3>2, <4>1 DEF NoBody, DraftText, ReplyText
      <4>2. CASE other # m
        BY <3>2, <4>2
      <4>3. QED
        BY <4>1, <4>2
    <3>5. QED
      BY <3>3, <3>4
  <2>4. CASE OpenEscalation
    <3>1. \A m \in Messages :
            /\ msg'[m].originalBody = msg[m].originalBody /\ msg'[m].body = msg[m].body
            /\ msg'[m].edited = msg[m].edited /\ msg'[m].status = msg[m].status
      BY <2>4 DEF OpenEscalation
    <3>2. UNCHANGED <<opPc, keep>>
      BY <2>4 DEF OpenEscalation
    <3>3. QED
      BY <3>1, <3>2
  <2>5. CASE MarkResolved
    BY <2>5 DEF MarkResolved
  <2>6. CASE PauseAutonomous
    BY <2>6 DEF PauseAutonomous
  <2>7. CASE ResumeAutonomous
    BY <2>7 DEF ResumeAutonomous
  <2>8. CASE UpsertContact
    BY <2>8 DEF UpsertContact
  <2>9. ASSUME NEW m \in Messages, LoseCall(m) PROVE OriginalInv'
    BY <2>9 DEF LoseCall
  <2>10. ASSUME NEW r \in Routes, NEW m \in Messages, ReceiveCall(r, m) PROVE OriginalInv'
    BY <2>10 DEF ReceiveCall
  <2>11. ASSUME NEW m \in Messages, DecisionAges(m) PROVE OriginalInv'
    BY <2>11 DEF DecisionAges
  <2>12. ASSUME NEW u \in Operators, NEW m \in Messages, BeginEdit(u, m) PROVE OriginalInv'
    <3>1. IF msg[m].originalBody # NoBody THEN msg[m].originalBody = DraftText
                                        ELSE msg[m].body = DraftText
      BY <2>12 DEF BeginEdit, Begin, Bodies, NoBody, DraftText
    <3>2. keep'[u] = DraftText
      BY <2>12, <3>1 DEF BeginEdit, Begin
    <3>3. UNCHANGED msg /\ \A v \in Operators \ {u} : opPc'[v] = opPc[v] /\ keep'[v] = keep[v]
      BY <2>12 DEF BeginEdit, Begin
    <3>4. QED
      BY <3>2, <3>3
  <2>13. ASSUME NEW u \in Operators, NEW m \in Messages, BeginReject(u, m) PROVE OriginalInv'
    BY <2>13 DEF BeginReject, Begin
  <2>14. ASSUME NEW u \in Operators, NEW m \in Messages, BeginApprove(u, m) PROVE OriginalInv'
    BY <2>14 DEF BeginApprove, Begin
  <2>15. ASSUME NEW u \in Operators, EditDraft(u) PROVE OriginalInv'
    BY <2>15 DEF EditDraft, EndRequest
  <2>16. ASSUME NEW u \in Operators, RejectDraft(u) PROVE OriginalInv'
    BY <2>16 DEF RejectDraft, Decide, EndRequest
  <2>17. ASSUME NEW u \in Operators, RequireAgentSendAllowed(u) PROVE OriginalInv'
    BY <2>17 DEF RequireAgentSendAllowed, EndRequest
  <2>18. ASSUME NEW u \in Operators, ApproveDraft(u) PROVE OriginalInv'
    BY <2>18 DEF ApproveDraft, Decide, EndRequest
  <2>19. ASSUME NEW w \in Workers, ReadMessage(w) PROVE OriginalInv'
    BY <2>19 DEF ReadMessage
  <2>20. ASSUME NEW w \in Workers, CheckSettings(w) PROVE OriginalInv'
    BY <2>20 DEF CheckSettings
  <2>21. ASSUME NEW w \in Workers, CheckEscalation(w) PROVE OriginalInv'
    BY <2>21 DEF CheckEscalation
  <2>22. ASSUME NEW w \in Workers, RecordSent(w) PROVE OriginalInv'
    BY <2>22 DEF RecordSent
  <2>23. ASSUME NEW w \in Workers, ReadForCleanApproval(w) PROVE OriginalInv'
    BY <2>23 DEF ReadForCleanApproval
  <2>24. ASSUME NEW w \in Workers, CheckNegativeSignal(w) PROVE OriginalInv'
    BY <2>24 DEF CheckNegativeSignal
  <2>25. ASSUME NEW w \in Workers, CountCleanApproval(w) PROVE OriginalInv'
    BY <2>25 DEF CountCleanApproval
  <2>26. ASSUME NEW w \in Workers, Crash(w) PROVE OriginalInv'
    BY <2>26 DEF Crash
  <2>27. ASSUME NEW s \in Sweepers, StartSweep(s) PROVE OriginalInv'
    BY <2>27 DEF StartSweep
  <2>28. ASSUME NEW s \in Sweepers, RetryNext(s) PROVE OriginalInv'
    BY <2>28 DEF RetryNext
  <2>29. ASSUME NEW s \in Sweepers, FlagForHuman(s) PROVE OriginalInv'
    BY <2>29 DEF FlagForHuman
  <2>30. CASE UNCHANGED vars
    BY <2>30 DEF vars
  <2>. QED
    BY <2>1, <2>2, <2>3, <2>4, <2>5, <2>6, <2>7, <2>8, <2>9, <2>10, <2>11, <2>12, <2>13, <2>14,
       <2>15, <2>16, <2>17, <2>18, <2>19, <2>20, <2>21, <2>22, <2>23, <2>24, <2>25, <2>26, <2>27,
       <2>28, <2>29, <2>30 DEF Next, Arrival, Surroundings, Delivery, CallEnds,
       ConsoleStep, DispatchStep, SweepStep
<1>3. OriginalInv => OriginalIsAgentText
  BY DEF OriginalInv, OriginalIsAgentText
<1>4. QED
  BY TypeCorrect, <1>1, <1>2, <1>3, PTL DEF Spec

\* A worker past its read holds a message that was decided on; a row not yet written is blank.
Holding == {"settings", "escalation", "record"}

DecisionInv ==
    /\ NothingLeavesUndecided
    /\ \A m \in Messages :
          /\ msg[m].status \in {"approved", "sent"} => msg[m].decidedBy # "nobody"
          /\ msg[m].status = "absent" =>
                msg[m].decidedBy = "nobody" /\ rendered[m] = 0 /\ ~msg[m].sentAt
    /\ \A w \in Workers : pc[w] \in Holding => msg[job[w]].decidedBy # "nobody"

\* No interleaving sends a message nobody decided on.
THEOREM DecisionBeforeSend == Spec => []NothingLeavesUndecided
<1>1. Init => DecisionInv
  BY DispatchAssumption DEF Init, DecisionInv, NothingLeavesUndecided, Absent, NewRow, Holding
<1>2. TypeOK /\ DecisionInv /\ [Next]_vars => DecisionInv'
  <2> SUFFICES ASSUME TypeOK, DecisionInv, [Next]_vars PROVE DecisionInv'
    OBVIOUS
  <2> USE DispatchAssumption DEF TypeOK, DecisionInv, NothingLeavesUndecided, Holding, requestVars,
         workerVars, policyVars, outcomeVars, Row, SystemDecider
  <2>1. ASSUME NEW m \in Messages, DraftForReview(m) PROVE DecisionInv'
    BY <2>1 DEF DraftForReview, NewRow, Exists
  <2>2. ASSUME NEW m \in Messages, DraftAutonomously(m) PROVE DecisionInv'
    BY <2>2 DEF DraftAutonomously, NewRow, Exists
  <2>3. ASSUME NEW m \in Messages, ComposeAndSend(m) PROVE DecisionInv'
    BY <2>3 DEF ComposeAndSend, NewRow, Exists, CloseEscalation
  <2>4. CASE OpenEscalation
    <3>1. \A m \in Messages :
            /\ msg'[m].role = msg[m].role /\ msg'[m].sentAt = msg[m].sentAt
            /\ msg'[m].status = msg[m].status /\ msg'[m].decidedBy = msg[m].decidedBy
      BY <2>4 DEF OpenEscalation
    <3>2. UNCHANGED <<pc, job, seen, rendered>>
      BY <2>4 DEF OpenEscalation
    <3>3. QED
      BY <3>1, <3>2
  <2>5. CASE MarkResolved
    BY <2>5 DEF MarkResolved
  <2>6. CASE PauseAutonomous
    BY <2>6 DEF PauseAutonomous
  <2>7. CASE ResumeAutonomous
    BY <2>7 DEF ResumeAutonomous
  <2>8. CASE UpsertContact
    BY <2>8 DEF UpsertContact
  <2>9. ASSUME NEW m \in Messages, LoseCall(m) PROVE DecisionInv'
    BY <2>9 DEF LoseCall
  <2>10. ASSUME NEW r \in Routes, NEW m \in Messages, ReceiveCall(r, m) PROVE DecisionInv'
    BY <2>10 DEF ReceiveCall, Start, Workers
  <2>11. ASSUME NEW m \in Messages, DecisionAges(m) PROVE DecisionInv'
    BY <2>11 DEF DecisionAges
  <2>12. ASSUME NEW u \in Operators, NEW m \in Messages, BeginEdit(u, m) PROVE DecisionInv'
    BY <2>12 DEF BeginEdit, Begin
  <2>13. ASSUME NEW u \in Operators, NEW m \in Messages, BeginReject(u, m) PROVE DecisionInv'
    BY <2>13 DEF BeginReject, Begin
  <2>14. ASSUME NEW u \in Operators, NEW m \in Messages, BeginApprove(u, m) PROVE DecisionInv'
    BY <2>14 DEF BeginApprove, Begin
  <2>15. ASSUME NEW u \in Operators, EditDraft(u) PROVE DecisionInv'
    BY <2>15 DEF EditDraft, EndRequest
  <2>16. ASSUME NEW u \in Operators, RejectDraft(u) PROVE DecisionInv'
    BY <2>16 DEF RejectDraft, Decide, EndRequest
  <2>17. ASSUME NEW u \in Operators, RequireAgentSendAllowed(u) PROVE DecisionInv'
    BY <2>17 DEF RequireAgentSendAllowed, EndRequest
  <2>18. ASSUME NEW u \in Operators, ApproveDraft(u) PROVE DecisionInv'
    BY <2>18 DEF ApproveDraft, Decide, EndRequest
  <2>19. ASSUME NEW w \in Workers, ReadMessage(w) PROVE DecisionInv'
    BY <2>19 DEF ReadMessage, Finish, Refuse, GoTo, Workers
  <2>20. ASSUME NEW w \in Workers, CheckSettings(w) PROVE DecisionInv'
    BY <2>20 DEF CheckSettings, Refuse, Finish, GoTo, Forget, Workers
  <2>21. ASSUME NEW w \in Workers, CheckEscalation(w) PROVE DecisionInv'
    BY <2>21 DEF CheckEscalation, Refuse, Finish, GoTo, Forget, Workers
  <2>22. ASSUME NEW w \in Workers, RecordSent(w) PROVE DecisionInv'
    BY <2>22 DEF RecordSent, GoTo, Forget, Workers
  <2>23. ASSUME NEW w \in Workers, ReadForCleanApproval(w) PROVE DecisionInv'
    <3>1. UNCHANGED <<msg, rendered>> /\ (GoTo(w, "signal") \/ Finish(w))
      BY <2>23 DEF ReadForCleanApproval
    <3>2. CASE GoTo(w, "signal")
      BY <3>1, <3>2 DEF GoTo
    <3>3. CASE Finish(w)
      BY <3>1, <3>3 DEF Finish
    <3>4. QED
      BY <3>1, <3>2, <3>3
  <2>24. ASSUME NEW w \in Workers, CheckNegativeSignal(w) PROVE DecisionInv'
    <3>1. UNCHANGED <<msg, rendered>> /\ (GoTo(w, "count") \/ Finish(w))
      BY <2>24 DEF CheckNegativeSignal
    <3>2. CASE GoTo(w, "count")
      BY <3>1, <3>2 DEF GoTo
    <3>3. CASE Finish(w)
      BY <3>1, <3>3 DEF Finish
    <3>4. QED
      BY <3>1, <3>2, <3>3
  <2>25. ASSUME NEW w \in Workers, CountCleanApproval(w) PROVE DecisionInv'
    BY <2>25 DEF CountCleanApproval, Finish, Workers
  <2>26. ASSUME NEW w \in Workers, Crash(w) PROVE DecisionInv'
    BY <2>26 DEF Crash, Finish, Forget, Workers
  <2>27. ASSUME NEW s \in Sweepers, StartSweep(s) PROVE DecisionInv'
    BY <2>27 DEF StartSweep
  <2>28. ASSUME NEW s \in Sweepers, RetryNext(s) PROVE DecisionInv'
    BY <2>28 DEF RetryNext, Start, Workers
  <2>29. ASSUME NEW s \in Sweepers, FlagForHuman(s) PROVE DecisionInv'
    BY <2>29 DEF FlagForHuman, Finish, Workers
  <2>30. CASE UNCHANGED vars
    BY <2>30 DEF vars
  <2>. QED
    BY <2>1, <2>2, <2>3, <2>4, <2>5, <2>6, <2>7, <2>8, <2>9, <2>10, <2>11, <2>12, <2>13, <2>14,
       <2>15, <2>16, <2>17, <2>18, <2>19, <2>20, <2>21, <2>22, <2>23, <2>24, <2>25, <2>26, <2>27,
       <2>28, <2>29, <2>30 DEF Next, Arrival, Surroundings, Delivery, CallEnds,
       ConsoleStep, DispatchStep, SweepStep
<1>3. DecisionInv => NothingLeavesUndecided
  BY DEF DecisionInv, NothingLeavesUndecided
<1>4. QED
  BY TypeCorrect, <1>1, <1>2, <1>3, PTL DEF Spec

\* A worker past its read still knows whether a human wrote the message.
AuthorInv ==
    /\ AuthorshipKept
    /\ \A m \in Messages :
          /\ msg[m].role # "buyer_inbound"
          /\ msg[m].status = "absent" => msg[m].role = "agent_draft" /\ ~msg[m].sentAt
          /\ msg[m].status = "pending_review" => msg[m].role # "human_reply"
    /\ \A u \in Operators :
          opPc[u] = "edit" => msg[opMsg[u]].status # "absent" /\ msg[opMsg[u]].role # "human_reply"
    /\ \A w \in Workers :
          pc[w] \in Holding =>
             /\ msg[job[w]].status # "absent"
             /\ seen[w].role # "buyer_inbound"
             /\ seen[w].role = "human_reply" <=> msg[job[w]].role = "human_reply"

\* Sending never turns a human's reply into the agent's, nor leaves an agent's send unmarked.
THEOREM AuthorshipIsKept == Spec => []AuthorshipKept
<1>1. Init => AuthorInv
  <2>1. ASSUME Init
        PROVE  \A m \in Messages : /\ msg[m].role = "agent_draft" /\ msg[m].body = DraftText
                                   /\ msg[m].status = "absent" /\ msg[m].sentAt = FALSE
    BY <2>1 DEF Init, Absent, NewRow
  <2>2. ASSUME Init PROVE /\ \A u \in Operators : opPc[u] = "idle"
                          /\ \A w \in Workers : pc[w] = "idle"
    BY <2>2 DEF Init
  <2>3. QED
    BY <2>1, <2>2 DEF AuthorInv, AuthorshipKept, Holding, DraftText, ReplyText
<1>2. TypeOK /\ AuthorInv /\ [Next]_vars => AuthorInv'
  <2> SUFFICES ASSUME TypeOK, AuthorInv, [Next]_vars PROVE AuthorInv'
    OBVIOUS
  <2> USE DispatchAssumption DEF TypeOK, AuthorInv, AuthorshipKept, Holding, requestVars,
         workerVars, policyVars, outcomeVars, Row, Snapshot, MessageRole
  <2>1. ASSUME NEW m \in Messages, DraftForReview(m) PROVE AuthorInv'
    <3>1. /\ msg'[m].role = "agent_draft" /\ msg'[m].body = DraftText
          /\ msg'[m].status = "pending_review" /\ msg'[m].sentAt = FALSE
          /\ \A other \in Messages \ {m} : msg'[other] = msg[other]
      BY <2>1 DEF DraftForReview, NewRow
    <3>2. msg[m].status = "absent" /\ UNCHANGED <<pc, job, seen, opPc, opMsg>>
      BY <2>1 DEF DraftForReview, Exists
    <3>3. ASSUME NEW other \in Messages
          PROVE
            /\ msg'[other].role # "buyer_inbound"
            /\ msg'[other].role = "human_reply" <=> msg'[other].body = ReplyText
            /\ msg'[other].role # "human_reply"
                  => (msg'[other].role = "agent_sent" <=> msg'[other].sentAt)
            /\ msg'[other].status = "absent"
                  => msg'[other].role = "agent_draft" /\ ~msg'[other].sentAt
            /\ msg'[other].status = "pending_review" => msg'[other].role # "human_reply"
      <4>1. CASE other = m
        BY <3>1, <4>1 DEF DraftText, ReplyText
      <4>2. CASE other # m
        BY <3>1, <4>2
      <4>3. QED
        BY <4>1, <4>2
    <3>4. \A v \in Operators : opPc[v] = "edit" => opMsg[v] # m
      BY <3>2
    <3>5. \A w \in Workers : pc[w] \in Holding => job[w] # m
      BY <3>2
    <3>6. \A v \in Operators :
            opPc'[v] = "edit" => msg'[opMsg'[v]].status # "absent"
                                 /\ msg'[opMsg'[v]].role # "human_reply"
      BY <3>1, <3>2, <3>4
    <3>7. \A w \in Workers : pc'[w] \in Holding => msg'[job'[w]] = msg[job[w]]
      BY <3>1, <3>2, <3>5
    <3>8. QED
      BY <3>2, <3>3, <3>6, <3>7
  <2>2. ASSUME NEW m \in Messages, DraftAutonomously(m) PROVE AuthorInv'
    <3>1. /\ msg'[m].role = "agent_draft" /\ msg'[m].body = DraftText
          /\ msg'[m].status = "approved" /\ msg'[m].sentAt = FALSE
          /\ \A other \in Messages \ {m} : msg'[other] = msg[other]
      BY <2>2 DEF DraftAutonomously, NewRow
    <3>2. msg[m].status = "absent" /\ UNCHANGED <<pc, job, seen, opPc, opMsg>>
      BY <2>2 DEF DraftAutonomously, Exists
    <3>3. ASSUME NEW other \in Messages
          PROVE
            /\ msg'[other].role # "buyer_inbound"
            /\ msg'[other].role = "human_reply" <=> msg'[other].body = ReplyText
            /\ msg'[other].role # "human_reply"
                  => (msg'[other].role = "agent_sent" <=> msg'[other].sentAt)
            /\ msg'[other].status = "absent"
                  => msg'[other].role = "agent_draft" /\ ~msg'[other].sentAt
            /\ msg'[other].status = "pending_review" => msg'[other].role # "human_reply"
      <4>1. CASE other = m
        BY <3>1, <4>1 DEF DraftText, ReplyText
      <4>2. CASE other # m
        BY <3>1, <4>2
      <4>3. QED
        BY <4>1, <4>2
    <3>4. \A v \in Operators : opPc[v] = "edit" => opMsg[v] # m
      BY <3>2
    <3>5. \A w \in Workers : pc[w] \in Holding => job[w] # m
      BY <3>2
    <3>6. \A v \in Operators :
            opPc'[v] = "edit" => msg'[opMsg'[v]].status # "absent"
                                 /\ msg'[opMsg'[v]].role # "human_reply"
      BY <3>1, <3>2, <3>4
    <3>7. \A w \in Workers : pc'[w] \in Holding => msg'[job'[w]] = msg[job[w]]
      BY <3>1, <3>2, <3>5
    <3>8. QED
      BY <3>2, <3>3, <3>6, <3>7
  <2>3. ASSUME NEW m \in Messages, ComposeAndSend(m) PROVE AuthorInv'
    BY <2>3 DEF ComposeAndSend, NewRow, Exists, CloseEscalation
  <2>4. CASE OpenEscalation
    <3>1. \A m \in Messages :
            /\ msg'[m].role = msg[m].role /\ msg'[m].sentAt = msg[m].sentAt
            /\ msg'[m].status = msg[m].status /\ msg'[m].body = msg[m].body
      BY <2>4 DEF OpenEscalation
    <3>2. UNCHANGED <<pc, job, seen, opPc, opMsg>>
      BY <2>4 DEF OpenEscalation
    <3>3. QED
      BY <3>1, <3>2
  <2>5. CASE MarkResolved
    BY <2>5 DEF MarkResolved
  <2>6. CASE PauseAutonomous
    BY <2>6 DEF PauseAutonomous
  <2>7. CASE ResumeAutonomous
    BY <2>7 DEF ResumeAutonomous
  <2>8. CASE UpsertContact
    BY <2>8 DEF UpsertContact
  <2>9. ASSUME NEW m \in Messages, LoseCall(m) PROVE AuthorInv'
    BY <2>9 DEF LoseCall
  <2>10. ASSUME NEW r \in Routes, NEW m \in Messages, ReceiveCall(r, m) PROVE AuthorInv'
    BY <2>10 DEF ReceiveCall, Start, Workers
  <2>11. ASSUME NEW m \in Messages, DecisionAges(m) PROVE AuthorInv'
    BY <2>11 DEF DecisionAges
  <2>12. ASSUME NEW u \in Operators, NEW m \in Messages, BeginEdit(u, m) PROVE AuthorInv'
    BY <2>12 DEF BeginEdit, Begin
  <2>13. ASSUME NEW u \in Operators, NEW m \in Messages, BeginReject(u, m) PROVE AuthorInv'
    BY <2>13 DEF BeginReject, Begin
  <2>14. ASSUME NEW u \in Operators, NEW m \in Messages, BeginApprove(u, m) PROVE AuthorInv'
    BY <2>14 DEF BeginApprove, Begin
  <2>15. ASSUME NEW u \in Operators, EditDraft(u) PROVE AuthorInv'
    BY <2>15 DEF EditDraft, EndRequest
  <2>16. ASSUME NEW u \in Operators, RejectDraft(u) PROVE AuthorInv'
    BY <2>16 DEF RejectDraft, Decide, EndRequest
  <2>17. ASSUME NEW u \in Operators, RequireAgentSendAllowed(u) PROVE AuthorInv'
    BY <2>17 DEF RequireAgentSendAllowed, EndRequest
  <2>18. ASSUME NEW u \in Operators, ApproveDraft(u) PROVE AuthorInv'
    BY <2>18 DEF ApproveDraft, Decide, EndRequest
  <2>19. ASSUME NEW w \in Workers, ReadMessage(w) PROVE AuthorInv'
    BY <2>19 DEF ReadMessage, Finish, Refuse, GoTo, Workers
  <2>20. ASSUME NEW w \in Workers, CheckSettings(w) PROVE AuthorInv'
    BY <2>20 DEF CheckSettings, Refuse, Finish, GoTo, Forget, Workers
  <2>21. ASSUME NEW w \in Workers, CheckEscalation(w) PROVE AuthorInv'
    BY <2>21 DEF CheckEscalation, Refuse, Finish, GoTo, Forget, Workers
  <2>22. ASSUME NEW w \in Workers, RecordSent(w) PROVE AuthorInv'
    BY <2>22 DEF RecordSent, GoTo, Forget, Workers
  <2>23. ASSUME NEW w \in Workers, ReadForCleanApproval(w) PROVE AuthorInv'
    <3>1. UNCHANGED <<msg, opPc, opMsg, seen>> /\ (GoTo(w, "signal") \/ Finish(w))
      BY <2>23 DEF ReadForCleanApproval
    <3>2. CASE GoTo(w, "signal")
      BY <3>1, <3>2 DEF GoTo
    <3>3. CASE Finish(w)
      BY <3>1, <3>3 DEF Finish
    <3>4. QED
      BY <3>1, <3>2, <3>3
  <2>24. ASSUME NEW w \in Workers, CheckNegativeSignal(w) PROVE AuthorInv'
    <3>1. UNCHANGED <<msg, opPc, opMsg, seen>> /\ (GoTo(w, "count") \/ Finish(w))
      BY <2>24 DEF CheckNegativeSignal
    <3>2. CASE GoTo(w, "count")
      BY <3>1, <3>2 DEF GoTo
    <3>3. CASE Finish(w)
      BY <3>1, <3>3 DEF Finish
    <3>4. QED
      BY <3>1, <3>2, <3>3
  <2>25. ASSUME NEW w \in Workers, CountCleanApproval(w) PROVE AuthorInv'
    BY <2>25 DEF CountCleanApproval, Finish, Workers
  <2>26. ASSUME NEW w \in Workers, Crash(w) PROVE AuthorInv'
    BY <2>26 DEF Crash, Finish, Forget, Workers
  <2>27. ASSUME NEW s \in Sweepers, StartSweep(s) PROVE AuthorInv'
    BY <2>27 DEF StartSweep
  <2>28. ASSUME NEW s \in Sweepers, RetryNext(s) PROVE AuthorInv'
    BY <2>28 DEF RetryNext, Start, Workers
  <2>29. ASSUME NEW s \in Sweepers, FlagForHuman(s) PROVE AuthorInv'
    BY <2>29 DEF FlagForHuman, Finish, Workers
  <2>30. CASE UNCHANGED vars
    BY <2>30 DEF vars
  <2>. QED
    BY <2>1, <2>2, <2>3, <2>4, <2>5, <2>6, <2>7, <2>8, <2>9, <2>10, <2>11, <2>12, <2>13, <2>14,
       <2>15, <2>16, <2>17, <2>18, <2>19, <2>20, <2>21, <2>22, <2>23, <2>24, <2>25, <2>26, <2>27,
       <2>28, <2>29, <2>30 DEF Next, Arrival, Surroundings, Delivery, CallEnds,
       ConsoleStep, DispatchStep, SweepStep
<1>3. AuthorInv => AuthorshipKept
  BY DEF AuthorInv, AuthorshipKept
<1>4. QED
  BY TypeCorrect, <1>1, <1>2, <1>3, PTL DEF Spec

\* What holds now is in the window of every running dispatch, and a dispatch past a check has
\* seen what the check asked for.
WindowInv ==
    /\ \A w \in Workers :
          /\ pc[w] # "idle" /\ enabled => window[w].enabled
          /\ pc[w] # "idle" /\ active = 0 => window[w].clear
          /\ pc[w] \in {"escalation", "record"} /\ seen[w].decidedBy = SystemDecider
                => window[w].enabled
          /\ pc[w] = "record" => window[w].clear

\* No step of any handler breaks what the windows record.
LEMMA WindowInvariant == Spec => []WindowInv
<1>1. Init => WindowInv
  BY DispatchAssumption DEF Init, WindowInv, NoWindow
<1>2. TypeOK /\ WindowInv /\ [Next]_vars => WindowInv'
  <2> SUFFICES ASSUME TypeOK, WindowInv, [Next]_vars PROVE WindowInv'
    OBVIOUS
  <2> USE DispatchAssumption DEF TypeOK, WindowInv, requestVars, workerVars, policyVars,
         outcomeVars, Snapshot, NoWindow
  <2>1. ASSUME NEW m \in Messages, DraftForReview(m) PROVE WindowInv'
    BY <2>1 DEF DraftForReview, NewRow, Exists
  <2>2. ASSUME NEW m \in Messages, DraftAutonomously(m) PROVE WindowInv'
    BY <2>2 DEF DraftAutonomously, NewRow, Exists
  <2>3. ASSUME NEW m \in Messages, ComposeAndSend(m) PROVE WindowInv'
    <3>1. \A w \in Workers :
            /\ window'[w].enabled = window[w].enabled
            /\ window'[w].clear = (window[w].clear \/ (pc[w] # "idle" /\ active = 1))
      BY <2>3 DEF ComposeAndSend, CloseEscalation
    <3>2. /\ active > 0 /\ active' = active - 1
          /\ UNCHANGED <<pc, seen, enabled>>
      BY <2>3 DEF ComposeAndSend, CloseEscalation
    <3>3. active' = 0 => active = 1
      BY <3>2
    <3>4. QED
      BY <3>1, <3>2, <3>3
  <2>4. CASE OpenEscalation
    BY <2>4 DEF OpenEscalation
  <2>5. CASE MarkResolved
    <3>1. \A w \in Workers :
            /\ window'[w].enabled = window[w].enabled
            /\ window'[w].clear = (window[w].clear \/ (pc[w] # "idle" /\ active = 1))
      BY <2>5 DEF MarkResolved, CloseEscalation
    <3>2. /\ active > 0 /\ active' = active - 1
          /\ UNCHANGED <<pc, seen, enabled>>
      BY <2>5 DEF MarkResolved, CloseEscalation
    <3>3. active' = 0 => active = 1
      BY <3>2
    <3>4. QED
      BY <3>1, <3>2, <3>3
  <2>6. CASE PauseAutonomous
    BY <2>6 DEF PauseAutonomous
  <2>7. CASE ResumeAutonomous
    BY <2>7 DEF ResumeAutonomous
  <2>8. CASE UpsertContact
    BY <2>8 DEF UpsertContact
  <2>9. ASSUME NEW m \in Messages, LoseCall(m) PROVE WindowInv'
    BY <2>9 DEF LoseCall
  <2>10. ASSUME NEW r \in Routes, NEW m \in Messages, ReceiveCall(r, m) PROVE WindowInv'
    <3>1. /\ pc' = [pc EXCEPT ![r] = "read"] /\ UNCHANGED <<active, enabled, seen>>
          /\ window' = [window EXCEPT ![r] = [enabled |-> enabled, clear |-> ~Blocked]]
      BY <2>10 DEF ReceiveCall, Start
    <3>2. /\ \A w \in Workers \ {r} : window'[w] = window[w] /\ pc'[w] = pc[w]
          /\ window'[r].enabled = enabled /\ window'[r].clear = ~Blocked /\ pc'[r] = "read"
      BY <3>1 DEF Workers
    <3>3. active = 0 => ~Blocked
      BY DEF Blocked
    <3>4. QED
      BY <3>1, <3>2, <3>3
  <2>11. ASSUME NEW m \in Messages, DecisionAges(m) PROVE WindowInv'
    BY <2>11 DEF DecisionAges
  <2>12. ASSUME NEW u \in Operators, NEW m \in Messages, BeginEdit(u, m) PROVE WindowInv'
    BY <2>12 DEF BeginEdit, Begin
  <2>13. ASSUME NEW u \in Operators, NEW m \in Messages, BeginReject(u, m) PROVE WindowInv'
    BY <2>13 DEF BeginReject, Begin
  <2>14. ASSUME NEW u \in Operators, NEW m \in Messages, BeginApprove(u, m) PROVE WindowInv'
    BY <2>14 DEF BeginApprove, Begin
  <2>15. ASSUME NEW u \in Operators, EditDraft(u) PROVE WindowInv'
    BY <2>15 DEF EditDraft, EndRequest
  <2>16. ASSUME NEW u \in Operators, RejectDraft(u) PROVE WindowInv'
    BY <2>16 DEF RejectDraft, Decide, EndRequest
  <2>17. ASSUME NEW u \in Operators, RequireAgentSendAllowed(u) PROVE WindowInv'
    BY <2>17 DEF RequireAgentSendAllowed, EndRequest
  <2>18. ASSUME NEW u \in Operators, ApproveDraft(u) PROVE WindowInv'
    BY <2>18 DEF ApproveDraft, Decide, EndRequest
  <2>19. ASSUME NEW w \in Workers, ReadMessage(w) PROVE WindowInv'
    BY <2>19 DEF ReadMessage, Finish, Refuse, GoTo, Workers
  <2>20. ASSUME NEW w \in Workers, CheckSettings(w) PROVE WindowInv'
    BY <2>20 DEF CheckSettings, Refuse, Finish, GoTo, Forget, Workers
  <2>21. ASSUME NEW w \in Workers, CheckEscalation(w) PROVE WindowInv'
    BY <2>21 DEF CheckEscalation, Refuse, Finish, GoTo, Forget, Workers, Blocked
  <2>22. ASSUME NEW w \in Workers, RecordSent(w) PROVE WindowInv'
    BY <2>22 DEF RecordSent, GoTo, Forget, Workers
  <2>23. ASSUME NEW w \in Workers, ReadForCleanApproval(w) PROVE WindowInv'
    BY <2>23 DEF ReadForCleanApproval, GoTo, Finish, Workers
  <2>24. ASSUME NEW w \in Workers, CheckNegativeSignal(w) PROVE WindowInv'
    BY <2>24 DEF CheckNegativeSignal, GoTo, Finish, Workers
  <2>25. ASSUME NEW w \in Workers, CountCleanApproval(w) PROVE WindowInv'
    BY <2>25 DEF CountCleanApproval, Finish, Workers
  <2>26. ASSUME NEW w \in Workers, Crash(w) PROVE WindowInv'
    BY <2>26 DEF Crash, Finish, Forget, Workers
  <2>27. ASSUME NEW s \in Sweepers, StartSweep(s) PROVE WindowInv'
    BY <2>27 DEF StartSweep
  <2>28. ASSUME NEW s \in Sweepers, RetryNext(s) PROVE WindowInv'
    <3>1. /\ pc' = [pc EXCEPT ![s] = "read"] /\ UNCHANGED <<active, enabled, seen>>
          /\ window' = [window EXCEPT ![s] = [enabled |-> enabled, clear |-> ~Blocked]]
      BY <2>28 DEF RetryNext, Start
    <3>2. /\ \A w \in Workers \ {s} : window'[w] = window[w] /\ pc'[w] = pc[w]
          /\ window'[s].enabled = enabled /\ window'[s].clear = ~Blocked /\ pc'[s] = "read"
      BY <3>1 DEF Workers
    <3>3. active = 0 => ~Blocked
      BY DEF Blocked
    <3>4. QED
      BY <3>1, <3>2, <3>3
  <2>29. ASSUME NEW s \in Sweepers, FlagForHuman(s) PROVE WindowInv'
    BY <2>29 DEF FlagForHuman, Finish, Workers
  <2>30. CASE UNCHANGED vars
    BY <2>30 DEF vars
  <2>. QED
    BY <2>1, <2>2, <2>3, <2>4, <2>5, <2>6, <2>7, <2>8, <2>9, <2>10, <2>11, <2>12, <2>13, <2>14,
       <2>15, <2>16, <2>17, <2>18, <2>19, <2>20, <2>21, <2>22, <2>23, <2>24, <2>25, <2>26, <2>27,
       <2>28, <2>29, <2>30 DEF Next, Arrival, Surroundings, Delivery, CallEnds,
       ConsoleStep, DispatchStep, SweepStep
<1>3. QED
  BY TypeCorrect, <1>1, <1>2, PTL DEF Spec

\* The kill switch stops every autonomous dispatch it spans.
THEOREM PauseIsEffective == Spec => []PauseStopsAutonomousSend
<1>1. WindowInv => PauseStopsAutonomousSend
  BY DEF WindowInv, PauseStopsAutonomousSend
<1>2. QED
  BY WindowInvariant, <1>1, PTL

\* An open escalation stops every dispatch it spans, whoever decided to send.
THEOREM EscalationIsEffective == Spec => []EscalationStopsSend
<1>1. WindowInv => EscalationStopsSend
  BY DEF WindowInv, EscalationStopsSend
<1>2. QED
  BY WindowInvariant, <1>1, PTL

(***************************************************************************)
(* Clean approvals.  A dispatch that has rendered a mail owes at most one  *)
(* of them until it ends: what was counted and what is owed never add up   *)
(* to more than the mails.  The workers need not be finitely many.         *)
(***************************************************************************)
Owing == {"record", "clean", "signal", "count"}
Debtors(m) == {w \in Workers : pc[w] \in Owing /\ job[w] = m}

CleanInv ==
    /\ \A m \in Messages :
          /\ IsFiniteSet(Debtors(m))
          /\ counted[m] + Cardinality(Debtors(m)) <= rendered[m]
          /\ counted[m] > 0 => msg[m].sentAt /\ msg[m].tierContext = 2
          /\ msg[m].status = "absent" => ~msg[m].sentAt
    /\ \A w \in Workers :
          /\ pc[w] \in {"clean", "signal", "count"} => msg[job[w]].sentAt
          /\ pc[w] \in {"signal", "count"} => msg[job[w]].tierContext = 2
          /\ pc[w] \in {"settings", "escalation", "record"} => msg[job[w]].status # "absent"

\* A step that moves no worker and takes no row back keeps the account of clean approvals.
LEMMA QuietStep ==
    ASSUME TypeOK, CleanInv, UNCHANGED <<pc, job, rendered, counted>>,
           \A m \in Messages :
              /\ msg'[m].sentAt = msg[m].sentAt
              /\ msg[m].status # "absent" => /\ msg'[m].status # "absent"
                                             /\ msg'[m].tierContext = msg[m].tierContext
    PROVE  CleanInv'
<1>1. ASSUME NEW m \in Messages PROVE Debtors(m)' = Debtors(m)
  BY DEF Debtors
<1>2. ASSUME NEW m \in Messages, msg[m].sentAt
      PROVE  msg'[m].sentAt /\ msg'[m].tierContext = msg[m].tierContext
  BY <1>2 DEF CleanInv
<1>3. QED
  BY <1>1, <1>2 DEF CleanInv, TypeOK

\* Where a dispatch ends, its debt is gone and no other changes.
LEMMA FinishDebt ==
    ASSUME TypeOK, NEW w \in Workers, Finish(w), NEW m \in Messages
    PROVE  Debtors(m)' = Debtors(m) \ {w}
BY DEF TypeOK, Finish, Debtors, Owing

\* A worker that neither joins nor leaves those who owe leaves every debt as it is.
LEMMA SameDebt ==
    ASSUME TypeOK, NEW w \in Workers, NEW step, UNCHANGED job,
           pc' = [pc EXCEPT ![w] = step], step \in Owing <=> pc[w] \in Owing, NEW m \in Messages
    PROVE  Debtors(m)' = Debtors(m)
BY DEF TypeOK, Debtors

\* A debt that shrinks keeps what was counted and what is owed within the mails.
LEMMA SmallerDebt ==
    ASSUME TypeOK, CleanInv, NEW w, NEW m \in Messages
    PROVE  /\ IsFiniteSet(Debtors(m) \ {w})
           /\ counted[m] + Cardinality(Debtors(m) \ {w}) <= rendered[m]
           /\ w \in Debtors(m) => counted[m] + 1 + Cardinality(Debtors(m) \ {w}) <= rendered[m]
<1>1. IsFiniteSet(Debtors(m)) /\ counted[m] + Cardinality(Debtors(m)) <= rendered[m]
  BY DEF CleanInv
<1>2. /\ IsFiniteSet(Debtors(m) \ {w})
      /\ Cardinality(Debtors(m) \ {w}) =
            IF w \in Debtors(m) THEN Cardinality(Debtors(m)) - 1 ELSE Cardinality(Debtors(m))
  BY <1>1, FS_RemoveElement
<1>3. Cardinality(Debtors(m)) \in Nat /\ counted[m] \in Nat /\ rendered[m] \in Nat
  BY <1>1, FS_CardinalityType DEF TypeOK
<1>4. QED
  BY <1>1, <1>2, <1>3

\* A dispatch that ends without counting keeps the account of clean approvals.
LEMMA FinishStep ==
    ASSUME TypeOK, CleanInv, NEW w \in Workers, Finish(w), UNCHANGED <<msg, rendered, counted>>
    PROVE  CleanInv'
<1>1. ASSUME NEW m \in Messages
      PROVE  IsFiniteSet(Debtors(m)') /\ counted[m] + Cardinality(Debtors(m)') <= rendered[m]
  BY FinishDebt, SmallerDebt
<1>2. \A v \in Workers : pc'[v] # "idle" => pc'[v] = pc[v] /\ job'[v] = job[v]
  BY DEF Finish, TypeOK
<1>3. QED
  BY <1>1, <1>2 DEF CleanInv

\* A worker that goes on without a debt, to a step its row justifies, keeps it too.
LEMMA GoOnStep ==
    ASSUME TypeOK, CleanInv, NEW w \in Workers, NEW step, UNCHANGED <<job, msg, rendered, counted>>,
           pc' = [pc EXCEPT ![w] = step], step \in Owing <=> pc[w] \in Owing,
           step \in {"clean", "signal", "count"} => msg[job[w]].sentAt,
           step \in {"signal", "count"} => msg[job[w]].tierContext = 2,
           step \in {"settings", "escalation", "record"} => msg[job[w]].status # "absent"
    PROVE  CleanInv'
<1>1. ASSUME NEW m \in Messages PROVE Debtors(m)' = Debtors(m)
  BY SameDebt
<1>2. \A v \in Workers : pc'[v] = IF v = w THEN step ELSE pc[v]
  BY DEF TypeOK
<1>3. QED
  BY <1>1, <1>2 DEF CleanInv

\* Each clean approval is backed by a mail of its own, however many dispatches and sweeps of a
\* message overlap, and for a message written at Tier 2.
THEOREM CleanApprovalsAreBacked == Spec => []CleanApprovalsBacked
<1>1. Init => CleanInv
  <2> SUFFICES ASSUME Init PROVE CleanInv
    OBVIOUS
  <2>1. ASSUME NEW m \in Messages
        PROVE  IsFiniteSet(Debtors(m)) /\ Cardinality(Debtors(m)) = 0
    <3>1. Debtors(m) = {}
      BY DEF Init, Debtors, Owing
    <3>2. QED
      BY <3>1, FS_EmptySet
  <2>2. \A m \in Messages : msg[m].sentAt = FALSE /\ counted[m] = 0 /\ rendered[m] = 0
    BY DEF Init, Absent, NewRow
  <2>3. \A w \in Workers : pc[w] = "idle"
    BY DEF Init
  <2>4. QED
    BY <2>1, <2>2, <2>3 DEF CleanInv
<1>2. TypeOK /\ CleanInv /\ [Next]_vars => CleanInv'
  <2> SUFFICES ASSUME TypeOK, CleanInv, [Next]_vars PROVE CleanInv'
    OBVIOUS
  <2> USE DEF requestVars, workerVars, policyVars, outcomeVars
  <2>1. ASSUME NEW m \in Messages,
               DraftForReview(m) \/ DraftAutonomously(m) \/ ComposeAndSend(m)
        PROVE  CleanInv'
    <3>1. /\ msg'[m].sentAt = FALSE /\ msg'[m].status # "absent"
          /\ \A other \in Messages \ {m} : msg'[other] = msg[other]
      <4>1. CASE DraftForReview(m)
        BY <4>1 DEF DraftForReview, NewRow, TypeOK
      <4>2. CASE DraftAutonomously(m)
        BY <4>2 DEF DraftAutonomously, NewRow, TypeOK
      <4>3. CASE ComposeAndSend(m)
        BY <4>3 DEF ComposeAndSend, NewRow, TypeOK
      <4>4. QED
        BY <2>1, <4>1, <4>2, <4>3
    <3>2. UNCHANGED <<pc, job, rendered, counted>> /\ msg[m].status = "absent"
      BY <2>1 DEF DraftForReview, DraftAutonomously, ComposeAndSend, CloseEscalation, Exists
    <3>3. msg[m].sentAt = FALSE
      BY <3>2 DEF CleanInv, TypeOK, Row
    <3>4. \A other \in Messages :
             /\ msg'[other].sentAt = msg[other].sentAt
             /\ msg[other].status # "absent" => msg'[other] = msg[other]
      BY <3>1, <3>2, <3>3
    <3>5. QED
      BY <3>2, <3>4, QuietStep
  <2>2. CASE OpenEscalation
    BY <2>2, QuietStep DEF OpenEscalation, TypeOK, Row
  <2>3. CASE MarkResolved
    BY <2>3, QuietStep DEF MarkResolved, CloseEscalation
  <2>4. CASE PauseAutonomous \/ ResumeAutonomous \/ UpsertContact
    BY <2>4, QuietStep DEF PauseAutonomous, ResumeAutonomous, UpsertContact
  <2>5. ASSUME NEW m \in Messages, LoseCall(m) PROVE CleanInv'
    BY <2>5, QuietStep DEF LoseCall
  <2>6. ASSUME NEW m \in Messages, NEW w \in Workers, Start(w, m),
               UNCHANGED <<msg, rendered, counted>>
        PROVE  CleanInv'
    <3>1. pc[w] = "idle" /\ \A v \in Workers : /\ pc'[v] = IF v = w THEN "read" ELSE pc[v]
                                               /\ v # w => job'[v] = job[v]
      BY <2>6 DEF Start, TypeOK
    <3>2. ASSUME NEW n \in Messages PROVE Debtors(n)' = Debtors(n)
      BY <3>1 DEF Debtors, Owing
    <3>3. QED
      BY <2>6, <3>1, <3>2 DEF CleanInv
  <2>7. ASSUME NEW m \in Messages, DecisionAges(m) PROVE CleanInv'
    BY <2>7, QuietStep DEF DecisionAges, TypeOK, Row
  <2>8. ASSUME NEW u \in Operators, NEW m \in Messages,
               BeginEdit(u, m) \/ BeginReject(u, m) \/ BeginApprove(u, m)
        PROVE  CleanInv'
    BY <2>8, QuietStep DEF BeginEdit, BeginReject, BeginApprove, Begin
  <2>9. ASSUME NEW u \in Operators, EditDraft(u) PROVE CleanInv'
    <3>1. \A m \in Messages : /\ msg'[m].sentAt = msg[m].sentAt
                             /\ msg'[m].tierContext = msg[m].tierContext
                             /\ msg'[m].status = msg[m].status
      BY <2>9 DEF EditDraft, TypeOK, Row
    <3>2. QED
      BY <2>9, <3>1, QuietStep DEF EditDraft
  <2>10. ASSUME NEW u \in Operators, RejectDraft(u) \/ ApproveDraft(u) PROVE CleanInv'
    <3>1. PICK status \in {"approved", "rejected"} : Decide(opMsg[u], status)
      BY <2>10 DEF RejectDraft, ApproveDraft
    <3>2. \A m \in Messages : /\ msg'[m].sentAt = msg[m].sentAt
                             /\ msg'[m].tierContext = msg[m].tierContext
                             /\ msg'[m].status \in {msg[m].status, status}
      BY <3>1 DEF Decide, TypeOK, Row
    <3>3. UNCHANGED <<pc, job, rendered, counted>>
      BY <2>10 DEF RejectDraft, ApproveDraft
    <3>4. QED
      BY <3>2, <3>3, QuietStep
  <2>11. ASSUME NEW u \in Operators, RequireAgentSendAllowed(u) PROVE CleanInv'
    BY <2>11, QuietStep DEF RequireAgentSendAllowed
  <2>12. ASSUME NEW w \in Workers, pc[w] \in {"read", "settings", "escalation"}, Refuse(w),
                UNCHANGED <<msg, rendered, counted>>
         PROVE  CleanInv'
    BY <2>12, FinishStep, GoOnStep DEF Refuse, GoTo, Owing
  <2>13. ASSUME NEW w \in Workers, ReadMessage(w) PROVE CleanInv'
    <3>1. UNCHANGED <<msg, rendered, counted>> /\ pc[w] = "read"
      BY <2>13 DEF ReadMessage
    <3>2. CASE GoTo(w, "settings") \/ GoTo(w, "escalation")
      <4>1. CASE msg[job[w]].status = "approved"
        BY <3>1, <3>2, <4>1, GoOnStep DEF GoTo, Owing
      <4>2. CASE msg[job[w]].status # "approved"
        BY <2>13, <3>1, <4>2, <2>12, FinishStep DEF ReadMessage
      <4>3. QED
        BY <4>1, <4>2
    <3>3. CASE Finish(w) \/ Refuse(w)
      BY <3>1, <3>3, <2>12, FinishStep
    <3>4. QED
      BY <2>13, <3>2, <3>3 DEF ReadMessage
  <2>14. ASSUME NEW w \in Workers, CheckSettings(w) PROVE CleanInv'
    <3>1. UNCHANGED <<msg, rendered, counted>> /\ pc[w] = "settings"
          /\ (GoTo(w, "escalation") \/ Refuse(w))
      BY <2>14 DEF CheckSettings
    <3>2. msg[job[w]].status # "absent"
      BY <3>1 DEF CleanInv
    <3>3. QED
      BY <3>1, <3>2, <2>12, GoOnStep DEF GoTo, Owing
  <2>15. ASSUME NEW w \in Workers, CheckEscalation(w) PROVE CleanInv'
    <3>1. pc[w] = "escalation" /\ job[w] \in Messages /\ msg[job[w]].status # "absent"
          /\ UNCHANGED <<msg, counted>>
      BY <2>15 DEF CheckEscalation, CleanInv, TypeOK
    <3>2. CASE Refuse(w) /\ UNCHANGED rendered
      BY <3>1, <3>2, <2>12
    <3>3. CASE rendered' = [rendered EXCEPT ![job[w]] = @ + 1] /\ GoTo(w, "record")
      <4>1. \A v \in Workers : pc'[v] = (IF v = w THEN "record" ELSE pc[v]) /\ job'[v] = job[v]
        BY <3>3 DEF GoTo, TypeOK
      <4>2. ASSUME NEW m \in Messages
            PROVE  Debtors(m)' = IF m = job[w] THEN Debtors(m) \cup {w} ELSE Debtors(m)
        BY <3>1, <4>1 DEF Debtors, Owing
      <4>3. ASSUME NEW m \in Messages
            PROVE  IsFiniteSet(Debtors(m)') /\ counted[m] + Cardinality(Debtors(m)') <= rendered'[m]
        <5>1. IsFiniteSet(Debtors(m)) /\ counted[m] + Cardinality(Debtors(m)) <= rendered[m]
          BY DEF CleanInv
        <5>2. rendered'[m] = IF m = job[w] THEN rendered[m] + 1 ELSE rendered[m]
          BY <3>3 DEF TypeOK
        <5>3. /\ IsFiniteSet(Debtors(m) \cup {w})
              /\ Cardinality(Debtors(m) \cup {w}) \in
                    {Cardinality(Debtors(m)), Cardinality(Debtors(m)) + 1}
          BY <5>1, FS_AddElement
        <5>4. Cardinality(Debtors(m)) \in Nat /\ counted[m] \in Nat /\ rendered[m] \in Nat
          BY <5>1, FS_CardinalityType DEF TypeOK
        <5>5. QED
          BY <4>2, <5>1, <5>2, <5>3, <5>4
      <4>4. QED
        BY <3>1, <4>1, <4>3 DEF CleanInv
    <3>4. QED
      BY <2>15, <3>2, <3>3 DEF CheckEscalation
  <2>16. ASSUME NEW w \in Workers, RecordSent(w) PROVE CleanInv'
    <3>1. pc[w] = "record" /\ job[w] \in Messages /\ UNCHANGED <<rendered, counted, job>>
          /\ pc' = [pc EXCEPT ![w] = "clean"]
      BY <2>16 DEF RecordSent, GoTo, TypeOK
    <3>2. /\ msg'[job[w]].sentAt = TRUE /\ msg'[job[w]].status = "sent"
          /\ msg'[job[w]].tierContext = msg[job[w]].tierContext
          /\ \A m \in Messages \ {job[w]} : msg'[m] = msg[m]
      BY <2>16, <3>1 DEF RecordSent, TypeOK, Row
    <3>3. ASSUME NEW m \in Messages PROVE Debtors(m)' = Debtors(m)
      BY <3>1, SameDebt DEF Owing
    <3>4. \A m \in Messages :
             /\ msg[m].sentAt => msg'[m].sentAt
             /\ msg'[m].tierContext = msg[m].tierContext
             /\ msg[m].status # "absent" => msg'[m].status # "absent"
             /\ msg'[m].status = "absent" => ~msg'[m].sentAt
      BY <3>2 DEF CleanInv
    <3>5. \A v \in Workers : pc'[v] = IF v = w THEN "clean" ELSE pc[v]
      BY <3>1 DEF TypeOK
    <3>6. QED
      BY <3>1, <3>2, <3>3, <3>4, <3>5 DEF CleanInv, TypeOK
  <2>17. ASSUME NEW w \in Workers, ReadForCleanApproval(w) PROVE CleanInv'
    <3>1. msg[job[w]].sentAt
      BY <2>17 DEF ReadForCleanApproval, CleanInv
    <3>2. QED
      BY <2>17, <3>1, FinishStep, GoOnStep DEF ReadForCleanApproval, GoTo, Owing
  <2>18. ASSUME NEW w \in Workers, CheckNegativeSignal(w) PROVE CleanInv'
    <3>1. msg[job[w]].sentAt /\ msg[job[w]].tierContext = 2
      BY <2>18 DEF CheckNegativeSignal, CleanInv
    <3>2. QED
      BY <2>18, <3>1, FinishStep, GoOnStep DEF CheckNegativeSignal, GoTo, Owing
  <2>19. ASSUME NEW w \in Workers, CountCleanApproval(w) PROVE CleanInv'
    <3>1. pc[w] = "count" /\ job[w] \in Messages /\ Finish(w) /\ UNCHANGED <<msg, rendered>>
          /\ counted' = [counted EXCEPT ![job[w]] = @ + 1]
      BY <2>19 DEF CountCleanApproval, TypeOK
    <3>2. msg[job[w]].sentAt /\ msg[job[w]].tierContext = 2
      BY <3>1 DEF CleanInv
    <3>3. ASSUME NEW m \in Messages
          PROVE  /\ IsFiniteSet(Debtors(m)') /\ counted'[m] + Cardinality(Debtors(m)') <= rendered[m]
                 /\ counted'[m] > 0 => msg[m].sentAt /\ msg[m].tierContext = 2
      <4>1. Debtors(m)' = Debtors(m) \ {w}
        BY <3>1, FinishDebt
      <4>2. counted'[m] = IF m = job[w] THEN counted[m] + 1 ELSE counted[m]
        BY <3>1 DEF TypeOK
      <4>3. m = job[w] => w \in Debtors(m)
        BY <3>1 DEF Debtors, Owing
      <4>4. QED
        BY <3>2, <4>1, <4>2, <4>3, SmallerDebt DEF CleanInv
    <3>4. \A v \in Workers : pc'[v] # "idle" => pc'[v] = pc[v] /\ job'[v] = job[v]
      BY <3>1 DEF Finish, TypeOK
    <3>5. QED
      BY <3>1, <3>3, <3>4 DEF CleanInv
  <2>20. ASSUME NEW w \in Workers, Crash(w) PROVE CleanInv'
    BY <2>20, FinishStep DEF Crash
  <2>21. ASSUME NEW s \in Sweepers, StartSweep(s) PROVE CleanInv'
    BY <2>21, QuietStep DEF StartSweep
  <2>22. ASSUME NEW s \in Sweepers, FlagForHuman(s) PROVE CleanInv'
    <3>1. pc[s] = "flag" /\ s \in Workers /\ job[s] \in Messages /\ Finish(s)
          /\ UNCHANGED <<rendered, counted>>
      BY <2>22 DEF FlagForHuman, TypeOK, Workers
    <3>2. \A m \in Messages :
             /\ msg'[m].sentAt = msg[m].sentAt /\ msg'[m].tierContext = msg[m].tierContext
             /\ msg[m].status # "absent" => msg'[m].status # "absent"
      BY <2>22 DEF FlagForHuman, TypeOK, Row
    <3>3. ASSUME NEW m \in Messages
          PROVE  /\ IsFiniteSet(Debtors(m)')
                 /\ counted'[m] + Cardinality(Debtors(m)') <= rendered'[m]
                 /\ counted'[m] > 0 => msg'[m].sentAt /\ msg'[m].tierContext = 2
                 /\ msg'[m].status = "absent" => ~msg'[m].sentAt
      BY <3>1, <3>2, FinishDebt, SmallerDebt DEF CleanInv
    <3>4. ASSUME NEW v \in Workers, pc'[v] # "idle"
          PROVE  /\ pc'[v] = pc[v] /\ job'[v] = job[v]
                 /\ msg'[job[v]].sentAt = msg[job[v]].sentAt
                 /\ msg'[job[v]].tierContext = msg[job[v]].tierContext
                 /\ msg[job[v]].status # "absent" => msg'[job[v]].status # "absent"
      BY <3>1, <3>2, <3>4 DEF Finish, TypeOK
    <3>5. QED
      BY <3>3, <3>4 DEF CleanInv
  <2>23. CASE UNCHANGED vars
    BY <2>23, QuietStep DEF vars
  <2>24. ASSUME NEW m \in Messages, NEW r \in Routes, ReceiveCall(r, m) PROVE CleanInv'
    BY <2>24, <2>6 DEF ReceiveCall, Workers
  <2>25. ASSUME NEW s \in Sweepers, RetryNext(s) PROVE CleanInv'
    BY <2>25, <2>6 DEF RetryNext, Workers, TypeOK
  <2>. QED
    BY <2>1, <2>2, <2>3, <2>4, <2>5, <2>7, <2>8, <2>9, <2>10, <2>11, <2>13, <2>14, <2>15, <2>16,
       <2>17, <2>18, <2>19, <2>20, <2>21, <2>22, <2>23, <2>24, <2>25
       DEF Next, Arrival, Surroundings, Delivery, CallEnds, ConsoleStep, DispatchStep, SweepStep
<1>3. TypeOK /\ CleanInv => CleanApprovalsBacked
  <2> SUFFICES ASSUME TypeOK, CleanInv, NEW m \in Messages PROVE counted[m] <= rendered[m]
    BY DEF CleanInv, CleanApprovalsBacked
  <2>1. counted[m] + Cardinality(Debtors(m)) <= rendered[m] /\ Cardinality(Debtors(m)) \in Nat
    BY FS_CardinalityType DEF CleanInv
  <2>2. QED
    BY <2>1 DEF TypeOK
<1>4. QED
  BY TypeCorrect, <1>1, <1>2, <1>3, PTL DEF Spec

(***************************************************************************)
(* One request and one dispatch at a time carry out the life of a message. *)
(***************************************************************************)
OneAtATime ==
    /\ \A v, w \in Workers : v = w
    /\ \A t, u \in Operators : t = u
    /\ MaxCrashes = 0

\* A mail that left is recorded, or about to be; what a dispatch past its read, a sweep's list and a
\* request rely on is still so.
RecordedOrAboutToBe ==
    \A m \in Messages :
        rendered[m] = 0 \/ msg[m].status = "sent" \/ \E w \in Workers : pc[w] = "record" /\ job[w] = m

DispatchHolds ==
    \A w \in Workers :
        /\ pc[w] \in {"settings", "escalation", "flag"} =>
              msg[job[w]].status = "approved" /\ rendered[job[w]] = 0
        /\ pc[w] = "record" => msg[job[w]].status = "approved" /\ rendered[job[w]] = 1

SweepHolds ==
    \A s \in Sweepers :
        /\ pc[s] = "read" => msg[job[s]].status = "approved"
        /\ pc[s] # "idle" => job[s] \notin todo[s]
        /\ \A m \in todo[s] : msg[m].status = "approved"

RequestHolds == \A u \in Operators : opPc[u] # "idle" => msg[opMsg[u]].status = "pending_review"

CarriedOut == RecordedOrAboutToBe /\ DispatchHolds /\ SweepHolds /\ RequestHolds

\* A step of the surroundings: no row changes its status, no mail leaves, nobody moves on.
LEMMA Bystander ==
    ASSUME CarriedOut, TypeOK,
           \A m \in Messages : msg'[m].status = msg[m].status,
           UNCHANGED <<rendered, pc, job, todo, opPc, opMsg>>
    PROVE  CarriedOut'
<1> USE DEF TypeOK, CarriedOut
<1>1. RecordedOrAboutToBe'
  BY DEF RecordedOrAboutToBe
<1>2. DispatchHolds'
  BY DEF DispatchHolds
<1>3. SweepHolds'
  BY DEF SweepHolds, Workers
<1>4. RequestHolds'
  BY DEF RequestHolds
<1>5. QED
  BY <1>1, <1>2, <1>3, <1>4

\* A row changes its status, and no dispatch, list or request relied on what it was.
LEMMA RowMoves ==
    ASSUME CarriedOut, TypeOK, NEW m \in Messages,
           msg[m].status \notin {"approved", "sent"},
           \A other \in Messages : other # m => msg'[other].status = msg[other].status,
           UNCHANGED <<rendered, pc, job, todo>>,
           \A u \in Operators : opPc'[u] # "idle" =>
               opPc[u] # "idle" /\ opMsg'[u] = opMsg[u] /\ opMsg[u] # m
    PROVE  CarriedOut'
<1> USE DEF TypeOK, Workers
<1>1. RecordedOrAboutToBe'
  BY DEF CarriedOut, RecordedOrAboutToBe, DispatchHolds
<1>2. DispatchHolds'
  BY DEF CarriedOut, DispatchHolds
<1>3. SweepHolds'
  BY DEF CarriedOut, SweepHolds
<1>4. RequestHolds'
  BY DEF CarriedOut, RequestHolds
<1>5. QED
  BY <1>1, <1>2, <1>3, <1>4 DEF CarriedOut

\* Nothing is written or sent; the one dispatch or sweep there is goes on.
LEMMA WorkerMoves ==
    ASSUME CarriedOut, TypeOK, OneAtATime, NEW w \in Workers, pc[w] # "record",
           UNCHANGED <<msg, rendered, opPc, opMsg>>,
           pc'[w] # "record",
           pc'[w] \in {"settings", "escalation", "flag"} =>
               /\ job'[w] \in Messages
               /\ msg[job'[w]].status = "approved" /\ rendered[job'[w]] = 0,
           w \in Sweepers =>
               /\ pc'[w] = "read" => msg[job'[w]].status = "approved"
               /\ pc'[w] # "idle" => job'[w] \notin todo'[w]
               /\ todo'[w] \subseteq Messages
               /\ \A m \in todo'[w] : msg[m].status = "approved"
    PROVE  CarriedOut'
<1>1. \A v \in Workers : v = w
  BY DEF OneAtATime
<1>2. RecordedOrAboutToBe'
  BY <1>1 DEF CarriedOut, RecordedOrAboutToBe
<1>3. DispatchHolds'
  BY <1>1 DEF DispatchHolds
<1>4. SweepHolds'
  BY <1>1 DEF SweepHolds, Workers
<1>5. RequestHolds'
  BY DEF CarriedOut, RequestHolds
<1>6. QED
  BY <1>2, <1>3, <1>4, <1>5 DEF CarriedOut

\* While one request and one dispatch run at a time, and none is killed, each relies on what is so.
LEMMA CarriedOutInvariant == ASSUME OneAtATime PROVE Spec => []CarriedOut
<1> USE DispatchAssumption
<1>1. Init => CarriedOut
  BY DEF Init, CarriedOut, RecordedOrAboutToBe, DispatchHolds, SweepHolds, RequestHolds, Workers
<1>2. TypeOK /\ CarriedOut /\ [Next]_vars => CarriedOut'
  <2> SUFFICES ASSUME TypeOK, CarriedOut, [Next]_vars PROVE CarriedOut'
    OBVIOUS
  <2> USE DEF requestVars, workerVars, policyVars, outcomeVars
  <2>1. ASSUME NEW m \in Messages,
               DraftForReview(m) \/ DraftAutonomously(m) \/ ComposeAndSend(m)
        PROVE  CarriedOut'
    <3>1. /\ msg[m].status = "absent" /\ UNCHANGED <<rendered, pc, job, todo, opPc, opMsg>>
          /\ \A other \in Messages : other # m => msg'[other].status = msg[other].status
      BY <2>1 DEF DraftForReview, DraftAutonomously, ComposeAndSend, CloseEscalation, Exists, TypeOK
    <3>2. \A u \in Operators : opPc[u] # "idle" => opMsg[u] # m
      BY <3>1 DEF CarriedOut, RequestHolds
    <3>3. QED
      BY <3>1, <3>2, RowMoves
  <2>2. CASE Surroundings
    <3>1. \A m \in Messages : msg'[m].status = msg[m].status
      BY <2>2 DEF Surroundings, OpenEscalation, MarkResolved, PauseAutonomous, ResumeAutonomous,
                  UpsertContact, TypeOK, Row
    <3>2. UNCHANGED <<rendered, pc, job, todo, opPc, opMsg>>
      BY <2>2 DEF Surroundings, OpenEscalation, MarkResolved, CloseEscalation, PauseAutonomous,
                  ResumeAutonomous, UpsertContact
    <3>3. QED
      BY <3>1, <3>2, Bystander
  <2>3. ASSUME NEW m \in Messages, LoseCall(m) PROVE CarriedOut'
    BY <2>3, Bystander DEF LoseCall
  <2>4. ASSUME NEW m \in Messages, NEW r \in Routes, ReceiveCall(r, m) PROVE CarriedOut'
    <3>1. r \in Workers /\ r \notin Sweepers
      BY DEF Workers
    <3>2. pc[r] = "idle" /\ pc'[r] = "read" /\ UNCHANGED <<msg, rendered, opPc, opMsg>>
      BY <2>4, <3>1 DEF ReceiveCall, Start, TypeOK
    <3>3. QED
      BY <3>1, <3>2, WorkerMoves
  <2>5. ASSUME NEW m \in Messages, DecisionAges(m) PROVE CarriedOut'
    <3>1. \A other \in Messages : msg'[other].status = msg[other].status
      BY <2>5 DEF DecisionAges, TypeOK, Row
    <3>2. QED
      BY <2>5, <3>1, Bystander DEF DecisionAges
  <2>6. ASSUME NEW u \in Operators, NEW m \in Messages,
               BeginEdit(u, m) \/ BeginReject(u, m) \/ BeginApprove(u, m)
        PROVE  CarriedOut'
    <3>1. /\ msg[m].status = "pending_review" /\ opMsg'[u] = m
          /\ UNCHANGED <<msg, rendered, pc, job, todo>>
      BY <2>6 DEF BeginEdit, BeginReject, BeginApprove, Begin, TypeOK
    <3>2. \A v \in Operators : v = u
      BY DEF OneAtATime
    <3>3. RequestHolds'
      BY <3>1, <3>2 DEF RequestHolds
    <3>4. QED
      BY <3>1, <3>3 DEF CarriedOut, RecordedOrAboutToBe, DispatchHolds, SweepHolds
  <2>7. ASSUME NEW u \in Operators, EditDraft(u) PROVE CarriedOut'
    <3>1. /\ opPc[u] # "idle" /\ opPc'[u] = "idle"
          /\ UNCHANGED <<rendered, pc, job, todo>>
          /\ \A other \in Messages : msg'[other].status = msg[other].status
      BY <2>7 DEF EditDraft, EndRequest, TypeOK, Row
    <3>2. opMsg[u] \in Messages /\ msg[opMsg[u]].status = "pending_review"
      BY <3>1 DEF TypeOK, CarriedOut, RequestHolds
    <3>3. \A v \in Operators : opPc'[v] = "idle"
      BY <3>1 DEF OneAtATime
    <3>4. QED
      BY <3>1, <3>2, <3>3, RowMoves
  <2>8. ASSUME NEW u \in Operators, RejectDraft(u) \/ ApproveDraft(u) PROVE CarriedOut'
    <3>1. /\ opPc[u] # "idle" /\ opPc'[u] = "idle"
          /\ UNCHANGED <<rendered, pc, job, todo>>
          /\ \A other \in Messages : other # opMsg[u] => msg'[other].status = msg[other].status
      BY <2>8 DEF RejectDraft, ApproveDraft, Decide, EndRequest, TypeOK
    <3>2. opMsg[u] \in Messages /\ msg[opMsg[u]].status = "pending_review"
      BY <3>1 DEF TypeOK, CarriedOut, RequestHolds
    <3>3. \A v \in Operators : opPc'[v] = "idle"
      BY <3>1 DEF OneAtATime
    <3>4. QED
      BY <3>1, <3>2, <3>3, RowMoves
  <2>9. ASSUME NEW u \in Operators, RequireAgentSendAllowed(u) PROVE CarriedOut'
    <3>1. /\ opPc[u] = "gate" /\ UNCHANGED <<msg, rendered, pc, job, todo>>
          /\ opPc'[u] = "idle" \/ opMsg'[u] = opMsg[u]
      BY <2>9 DEF RequireAgentSendAllowed, EndRequest, TypeOK
    <3>2. \A v \in Operators : v = u
      BY DEF OneAtATime
    <3>3. RequestHolds'
      BY <3>1, <3>2 DEF CarriedOut, RequestHolds
    <3>4. QED
      BY <3>1, <3>3 DEF CarriedOut, RecordedOrAboutToBe, DispatchHolds, SweepHolds
  <2>10. ASSUME NEW w \in Workers, ReadMessage(w) PROVE CarriedOut'
    <3>1. /\ pc[w] = "read" /\ UNCHANGED <<msg, rendered, opPc, opMsg, todo>>
          /\ job[w] \in Messages
      BY <2>10 DEF ReadMessage, TypeOK
    <3>2. msg[job[w]].status = "approved" => rendered[job[w]] = 0
      BY <3>1 DEF CarriedOut, RecordedOrAboutToBe, OneAtATime
    <3>3. /\ w \in Sweepers => msg[job[w]].status = "approved"
          /\ w \in Sweepers => job[w] \notin todo[w]
          /\ w \in Sweepers => \A m \in todo[w] : msg[m].status = "approved"
          /\ w \in Sweepers => todo[w] \subseteq Messages
      BY <3>1 DEF CarriedOut, SweepHolds, TypeOK
    <3>4. \/ pc'[w] = "idle"
          \/ /\ msg[job[w]].status = "approved" /\ job'[w] = job[w]
             /\ pc'[w] \in {"settings", "escalation", "flag"}
      BY <2>10, <3>1, <3>3 DEF ReadMessage, Finish, Refuse, GoTo, TypeOK
    <3>5. QED
      BY <3>1, <3>2, <3>3, <3>4, WorkerMoves
  <2>11. ASSUME NEW w \in Workers, CheckSettings(w) PROVE CarriedOut'
    <3>1. /\ pc[w] = "settings" /\ UNCHANGED <<msg, rendered, opPc, opMsg, todo>>
          /\ job[w] \in Messages /\ msg[job[w]].status = "approved" /\ rendered[job[w]] = 0
      BY <2>11 DEF CheckSettings, TypeOK, CarriedOut, DispatchHolds
    <3>2. w \in Sweepers => /\ job[w] \notin todo[w] /\ todo[w] \subseteq Messages
                            /\ \A m \in todo[w] : msg[m].status = "approved"
      BY <3>1 DEF CarriedOut, SweepHolds, TypeOK
    <3>3. pc'[w] = "idle" \/ (job'[w] = job[w] /\ pc'[w] \in {"escalation", "flag"})
      BY <2>11 DEF CheckSettings, Refuse, Finish, GoTo, TypeOK
    <3>4. QED
      BY <3>1, <3>2, <3>3, WorkerMoves
  <2>12. ASSUME NEW w \in Workers, CheckEscalation(w) PROVE CarriedOut'
    <3>1. /\ pc[w] = "escalation" /\ UNCHANGED <<msg, opPc, opMsg, todo>>
          /\ job[w] \in Messages /\ msg[job[w]].status = "approved" /\ rendered[job[w]] = 0
      BY <2>12 DEF CheckEscalation, TypeOK, CarriedOut, DispatchHolds
    <3>2. w \in Sweepers => /\ job[w] \notin todo[w] /\ todo[w] \subseteq Messages
                            /\ \A m \in todo[w] : msg[m].status = "approved"
      BY <3>1 DEF CarriedOut, SweepHolds, TypeOK
    <3>3. CASE Refuse(w) /\ UNCHANGED rendered
      <4>1. pc'[w] = "idle" \/ (job'[w] = job[w] /\ pc'[w] = "flag")
        BY <3>3 DEF Refuse, Finish, GoTo, TypeOK
      <4>2. QED
        BY <3>1, <3>2, <3>3, <4>1, WorkerMoves
    <3>4. CASE GoTo(w, "record") /\ rendered' = [rendered EXCEPT ![job[w]] = @ + 1]
      <4>1. pc'[w] = "record" /\ job' = job /\ \A v \in Workers : v = w
        BY <3>4 DEF GoTo, TypeOK, OneAtATime
      <4>2. rendered'[job[w]] = 1 /\ \A m \in Messages : m # job[w] => rendered'[m] = rendered[m]
        BY <3>1, <3>4 DEF TypeOK
      <4>3. RecordedOrAboutToBe'
        BY <3>1, <4>1, <4>2 DEF CarriedOut, RecordedOrAboutToBe
      <4>4. DispatchHolds'
        BY <3>1, <4>1, <4>2 DEF DispatchHolds
      <4>5. SweepHolds'
        BY <3>1, <3>2, <4>1 DEF SweepHolds, Workers
      <4>6. RequestHolds'
        BY <3>1 DEF CarriedOut, RequestHolds
      <4>7. QED
        BY <4>3, <4>4, <4>5, <4>6 DEF CarriedOut
    <3>5. QED
      BY <2>12, <3>3, <3>4 DEF CheckEscalation
  <2>13. ASSUME NEW w \in Workers, RecordSent(w) PROVE CarriedOut'
    <3>1. /\ pc[w] = "record" /\ pc'[w] = "clean" /\ UNCHANGED <<rendered, opPc, opMsg, job, todo>>
          /\ job[w] \in Messages /\ msg[job[w]].status = "approved"
      BY <2>13 DEF RecordSent, GoTo, TypeOK, CarriedOut, DispatchHolds
    <3>2. /\ msg'[job[w]].status = "sent"
          /\ \A m \in Messages : m # job[w] => msg'[m].status = msg[m].status
      BY <2>13, <3>1 DEF RecordSent, TypeOK, Row
    <3>3. \A v \in Workers : v = w
      BY DEF OneAtATime
    <3>4. RecordedOrAboutToBe'
      BY <3>1, <3>2, <3>3 DEF CarriedOut, RecordedOrAboutToBe
    <3>5. DispatchHolds'
      BY <3>1, <3>3 DEF DispatchHolds
    <3>6. SweepHolds'
      BY <3>1, <3>2, <3>3 DEF CarriedOut, SweepHolds, Workers, TypeOK
    <3>7. RequestHolds'
      BY <3>1, <3>2 DEF CarriedOut, RequestHolds, TypeOK
    <3>8. QED
      BY <3>4, <3>5, <3>6, <3>7 DEF CarriedOut
  <2>14. ASSUME NEW w \in Workers,
                ReadForCleanApproval(w) \/ CheckNegativeSignal(w) \/ CountCleanApproval(w)
         PROVE  CarriedOut'
    <3>1. /\ pc[w] \in {"clean", "signal", "count"}
          /\ UNCHANGED <<msg, rendered, opPc, opMsg, todo>>
          /\ pc'[w] = "idle" \/ (job'[w] = job[w] /\ pc'[w] \in {"signal", "count"})
      BY <2>14 DEF ReadForCleanApproval, CheckNegativeSignal, CountCleanApproval, Finish, GoTo,
         TypeOK
    <3>2. w \in Sweepers => /\ job[w] \notin todo[w] /\ todo[w] \subseteq Messages
                            /\ \A m \in todo[w] : msg[m].status = "approved"
      BY <3>1 DEF CarriedOut, SweepHolds, TypeOK
    <3>3. QED
      BY <3>1, <3>2, WorkerMoves
  <2>15. ASSUME NEW w \in Workers, Crash(w) PROVE CarriedOut'
    BY <2>15 DEF Crash, OneAtATime, TypeOK
  <2>16. ASSUME NEW s \in Sweepers, StartSweep(s) PROVE CarriedOut'
    <3>1. /\ pc[s] = "idle" /\ UNCHANGED <<msg, rendered, opPc, opMsg, pc, job>>
          /\ todo'[s] = Stuck /\ s \in Workers
      BY <2>16 DEF StartSweep, TypeOK, Workers
    <3>2. Stuck \subseteq Messages /\ \A m \in Stuck : msg[m].status = "approved"
      BY DEF Stuck
    <3>3. QED
      BY <3>1, <3>2, WorkerMoves
  <2>17. ASSUME NEW s \in Sweepers, RetryNext(s) PROVE CarriedOut'
    <3>1. PICK m \in todo[s] : Start(s, m) /\ todo' = [todo EXCEPT ![s] = @ \ {m}]
      BY <2>17 DEF RetryNext
    <3>2. /\ pc[s] = "idle" /\ pc'[s] = "read" /\ job'[s] = m /\ s \in Workers
          /\ UNCHANGED <<msg, rendered, opPc, opMsg>> /\ todo'[s] = todo[s] \ {m}
      BY <2>17, <3>1 DEF RetryNext, Start, TypeOK, Workers
    <3>3. todo[s] \subseteq Messages /\ \A n \in todo[s] : msg[n].status = "approved"
      BY DEF TypeOK, CarriedOut, SweepHolds
    <3>4. QED
      BY <3>1, <3>2, <3>3, WorkerMoves
  <2>18. ASSUME NEW s \in Sweepers, FlagForHuman(s) PROVE CarriedOut'
    <3>1. /\ s \in Workers /\ pc[s] = "flag" /\ pc'[s] = "idle"
          /\ UNCHANGED <<rendered, opPc, opMsg, todo>>
          /\ job[s] \in Messages /\ msg[job[s]].status = "approved" /\ rendered[job[s]] = 0
      BY <2>18 DEF FlagForHuman, Finish, TypeOK, Workers, CarriedOut, DispatchHolds
    <3>2. \A m \in Messages : m # job[s] => msg'[m].status = msg[m].status
      BY <2>18, <3>1 DEF FlagForHuman, TypeOK
    <3>3. \A v \in Workers : v = s
      BY <3>1 DEF OneAtATime
    <3>4. RecordedOrAboutToBe'
      BY <3>1, <3>2, <3>3 DEF CarriedOut, RecordedOrAboutToBe
    <3>5. DispatchHolds'
      BY <3>1, <3>3 DEF DispatchHolds
    <3>6. SweepHolds'
      BY <3>1, <3>2, <3>3 DEF CarriedOut, SweepHolds, Workers, TypeOK
    <3>7. RequestHolds'
      BY <3>1, <3>2 DEF CarriedOut, RequestHolds, TypeOK
    <3>8. QED
      BY <3>4, <3>5, <3>6, <3>7 DEF CarriedOut
  <2>19. CASE UNCHANGED vars
    BY <2>19, Bystander DEF vars
  <2>20. QED
    BY <2>1, <2>2, <2>3, <2>4, <2>5, <2>6, <2>7, <2>8, <2>9, <2>10, <2>11, <2>12, <2>13, <2>14,
       <2>15, <2>16, <2>17, <2>18, <2>19
       DEF Next, Arrival, Delivery, CallEnds, ConsoleStep, DispatchStep, SweepStep
<1>3. QED
  BY TypeCorrect, <1>1, <1>2, PTL DEF Spec

(***************************************************************************)
(* The refinement: what each handler's step does to the life of the        *)
(* message it is about.  A step of anything else is a stutter.             *)
(***************************************************************************)
\* A row is written that was not there.
LEMMA WrittenStep ==
    ASSUME TypeOK, NEW m \in Messages, NEW row \in Row, msg[m].status = "absent",
           row.status \in {"pending_review", "approved"},
           msg' = [msg EXCEPT ![m] = row], UNCHANGED rendered
    PROVE  Life!LifeNext
<1>1. Life!Write(m)
  <2>1. Life!Move(m, "absent", "pending_review") \/ Life!Move(m, "absent", "approved")
    BY DEF Life!Move, TypeOK
  <2>2. Life!Rewrite(m)
    BY DEF Life!Rewrite, TypeOK, Row
  <2>3. QED
    BY <2>1, <2>2 DEF Life!Write
<1>2. QED
  BY <1>1 DEF Life!LifeNext

\* A step after which every row has the status and the text it had, and no mail left, does not show.
LEMMA HiddenStep ==
    ASSUME \A m \in Messages : msg'[m].status = msg[m].status /\ msg'[m].body = msg[m].body,
           UNCHANGED rendered
    PROVE  UNCHANGED Life!life
BY DEF Life!life

\* An edit replaces the text of a draft still under review.
LEMMA EditedStep ==
    ASSUME TypeOK, CarriedOut, NEW u \in Operators, EditDraft(u) PROVE Life!LifeNext
<1>1. PICK m \in Messages : m = opMsg[u] /\ msg[m].status = "pending_review"
  BY DEF EditDraft, TypeOK, CarriedOut, RequestHolds
<1>2. PICK body \in Revisions :
         msg' = [msg EXCEPT ![m] =
                     [@ EXCEPT !.body = body, !.originalBody = keep[u], !.edited = TRUE]]
  BY <1>1 DEF EditDraft
<1>3. /\ \A n \in Messages : msg'[n].status = msg[n].status
      /\ \A n \in Messages : msg'[n].body = IF n = m THEN body ELSE msg[n].body
  BY <1>1, <1>2 DEF TypeOK, Row
<1>4. Life!Rewrite(m)
  BY <1>1, <1>3 DEF Life!Rewrite, Bodies
<1>5. UNCHANGED <<[n \in Messages |-> msg[n].status], rendered>>
  BY <1>3 DEF EditDraft, outcomeVars
<1>6. Life!Edit(m)
  BY <1>1, <1>4, <1>5 DEF Life!Edit
<1>7. QED
  BY <1>1, <1>6 DEF Life!LifeNext

\* A decision is taken on a draft still under review, and only its status shows.
LEMMA DecidedStep ==
    ASSUME TypeOK, CarriedOut, NEW u \in Operators, RejectDraft(u) \/ ApproveDraft(u)
    PROVE  Life!LifeNext
<1>1. opMsg[u] \in Messages /\ msg[opMsg[u]].status = "pending_review"
  BY DEF RejectDraft, ApproveDraft, TypeOK, CarriedOut, RequestHolds
<1>2. PICK status \in {"rejected", "approved"} : Decide(opMsg[u], status)
  BY DEF RejectDraft, ApproveDraft
<1>3. Life!Move(opMsg[u], "pending_review", status)
  BY <1>1, <1>2 DEF Life!Move, Decide, TypeOK, Row
<1>4. UNCHANGED <<[m \in Messages |-> msg[m].body], rendered>>
  BY <1>1, <1>2 DEF Decide, RejectDraft, ApproveDraft, TypeOK, Row, outcomeVars
<1>5. QED
  BY <1>1, <1>3, <1>4 DEF Life!LifeNext, Life!Decide

\* The mail that leaves is the first of its message, and the message is approved.
LEMMA MailedStep ==
    ASSUME TypeOK, CarriedOut, NEW w \in Workers, CheckEscalation(w)
    PROVE  Life!LifeNext \/ UNCHANGED <<msg, rendered>>
<1>1. job[w] \in Messages /\ msg[job[w]].status = "approved" /\ rendered[job[w]] = 0
  BY DEF CheckEscalation, TypeOK, CarriedOut, DispatchHolds
<1>2. CASE UNCHANGED rendered
  BY <1>2 DEF CheckEscalation
<1>3. CASE rendered' = [rendered EXCEPT ![job[w]] = @ + 1]
  <2>1. rendered' = [rendered EXCEPT ![job[w]] = 1] /\ UNCHANGED msg
    BY <1>1, <1>3 DEF CheckEscalation
  <2>2. Life!Mail(job[w])
    BY <1>1, <2>1 DEF Life!Mail
  <2>3. QED
    BY <1>1, <2>2 DEF Life!LifeNext
<1>4. QED
  BY <1>2, <1>3 DEF CheckEscalation

\* "sent" is written on an approved message whose one mail left.
LEMMA SettledStep ==
    ASSUME TypeOK, CarriedOut, NEW w \in Workers, RecordSent(w) PROVE Life!LifeNext
<1>1. job[w] \in Messages /\ msg[job[w]].status = "approved" /\ rendered[job[w]] = 1
  BY DEF RecordSent, TypeOK, CarriedOut, DispatchHolds
<1>2. Life!Move(job[w], "approved", "sent")
  BY <1>1 DEF Life!Move, RecordSent, TypeOK, Row
<1>3. UNCHANGED <<[m \in Messages |-> msg[m].body], rendered>>
  BY <1>1 DEF RecordSent, TypeOK, Row, outcomeVars
<1>4. QED
  BY <1>1, <1>2, <1>3 DEF Life!LifeNext, Life!Settle

\* A human is asked to look at an approved message no mail left for.
LEMMA HandedOverStep ==
    ASSUME TypeOK, CarriedOut, NEW s \in Sweepers, FlagForHuman(s) PROVE Life!LifeNext
<1>1. job[s] \in Messages /\ msg[job[s]].status = "approved" /\ rendered[job[s]] = 0
  BY DEF FlagForHuman, TypeOK, Workers, CarriedOut, DispatchHolds
<1>2. Life!Move(job[s], "approved", "needs_triage")
  BY <1>1 DEF Life!Move, FlagForHuman, TypeOK, Row
<1>3. UNCHANGED <<[m \in Messages |-> msg[m].body], rendered>>
  BY <1>1 DEF FlagForHuman, TypeOK, Row, outcomeVars
<1>4. QED
  BY <1>1, <1>2, <1>3 DEF Life!LifeNext, Life!HandOver

\* Dispatch implements the promised life of a message for any number of messages and escalations,
\* and calls lost at will, as long as one console request and one dispatch or sweep run at a time
\* and none is killed: every step maps to a step of the life or to none.
THEOREM LifeIsCarriedOut == ASSUME OneAtATime PROVE Spec => LifeRefined
<1>1. Init => Life!LifeInit
  BY DEF Init, Life!LifeInit, Absent, NewRow, Bodies
<1>2. TypeOK /\ CarriedOut /\ [Next]_vars => [Life!LifeNext]_Life!life
  <2> SUFFICES ASSUME TypeOK, CarriedOut, [Next]_vars
               PROVE  Life!LifeNext \/ UNCHANGED Life!life
    OBVIOUS
  <2> USE DEF requestVars, workerVars, policyVars, outcomeVars
  <2>1. ASSUME NEW m \in Messages, DraftForReview(m) PROVE Life!LifeNext
    <3>1. PICK tierContext \in {2, 3} :
             msg' = [msg EXCEPT ![m] = NewRow("agent_draft", "pending_review", tierContext, "nobody")]
      BY <2>1 DEF DraftForReview
    <3> DEFINE row == NewRow("agent_draft", "pending_review", tierContext, "nobody")
    <3>2. row \in Row
      BY NewRowType DEF MessageRole, MessageStatus, Tiers, Deciders
    <3>3. row.status = "pending_review"
      BY DEF NewRow
    <3>4. QED
      BY <2>1, <3>1, <3>2, <3>3, WrittenStep DEF DraftForReview, Exists
  <2>2. ASSUME NEW m \in Messages, DraftAutonomously(m) PROVE Life!LifeNext
    <3> DEFINE row == NewRow("agent_draft", "approved", 1, SystemDecider)
    <3>1. row \in Row
      BY NewRowType DEF MessageRole, MessageStatus, Tiers, Deciders
    <3>2. row.status = "approved"
      BY DEF NewRow
    <3>3. QED
      BY <2>2, <3>1, <3>2, WrittenStep DEF DraftAutonomously, Exists
  <2>3. ASSUME NEW m \in Messages, ComposeAndSend(m) PROVE Life!LifeNext
    <3>1. PICK tierContext \in Tiers :
             msg' = [msg EXCEPT ![m] = NewRow("human_reply", "approved", tierContext, "human")]
      BY <2>3 DEF ComposeAndSend
    <3> DEFINE row == NewRow("human_reply", "approved", tierContext, "human")
    <3>2. row \in Row
      BY NewRowType DEF MessageRole, MessageStatus, Deciders
    <3>3. row.status = "approved"
      BY DEF NewRow
    <3>4. QED
      BY <2>3, <3>1, <3>2, <3>3, WrittenStep DEF ComposeAndSend, Exists
  <2>4. CASE Surroundings
    <3>1. \A m \in Messages : msg'[m].status = msg[m].status /\ msg'[m].body = msg[m].body
      BY <2>4 DEF Surroundings, OpenEscalation, MarkResolved, PauseAutonomous, ResumeAutonomous,
                  UpsertContact, TypeOK, Row
    <3>2. UNCHANGED rendered
      BY <2>4 DEF Surroundings, OpenEscalation, MarkResolved, PauseAutonomous, ResumeAutonomous,
                  UpsertContact
    <3>3. QED
      BY <3>1, <3>2, HiddenStep
  <2>5. ASSUME NEW m \in Messages, DecisionAges(m) PROVE UNCHANGED Life!life
    <3>1. \A n \in Messages : msg'[n].status = msg[n].status /\ msg'[n].body = msg[n].body
      BY <2>5 DEF DecisionAges, TypeOK, Row
    <3>2. QED
      BY <2>5, <3>1, HiddenStep DEF DecisionAges
  <2>6. CASE UNCHANGED <<msg, rendered>>
    BY <2>6, HiddenStep
  <2>7. CASE Delivery
    BY <2>6, <2>7 DEF Delivery, CallEnds, LoseCall, ReceiveCall
  <2>8. ASSUME NEW u \in Operators, ConsoleStep(u) PROVE Life!LifeNext \/ UNCHANGED Life!life
    <3>1. CASE EditDraft(u)
      BY <3>1, EditedStep
    <3>2. CASE RejectDraft(u) \/ ApproveDraft(u)
      BY <3>2, DecidedStep
    <3>3. CASE RequireAgentSendAllowed(u)
      BY <2>6, <3>3 DEF RequireAgentSendAllowed
    <3>4. CASE \E m \in Messages : BeginEdit(u, m) \/ BeginReject(u, m) \/ BeginApprove(u, m)
      BY <2>6, <3>4 DEF BeginEdit, BeginReject, BeginApprove, Begin
    <3>5. QED
      BY <2>8, <3>1, <3>2, <3>3, <3>4 DEF ConsoleStep
  <2>9. ASSUME NEW w \in Workers, DispatchStep(w) \/ Crash(w)
        PROVE  Life!LifeNext \/ UNCHANGED Life!life
    <3>1. CASE CheckEscalation(w)
      BY <2>6, <3>1, MailedStep
    <3>2. CASE RecordSent(w)
      BY <3>2, SettledStep
    <3>3. CASE ReadMessage(w) \/ CheckSettings(w) \/ Crash(w)
      BY <2>6, <3>3 DEF ReadMessage, CheckSettings, Crash
    <3>4. CASE ReadForCleanApproval(w) \/ CheckNegativeSignal(w) \/ CountCleanApproval(w)
      BY <2>6, <3>4 DEF ReadForCleanApproval, CheckNegativeSignal, CountCleanApproval
    <3>5. QED
      BY <2>9, <3>1, <3>2, <3>3, <3>4 DEF DispatchStep
  <2>10. ASSUME NEW s \in Sweepers, SweepStep(s) PROVE Life!LifeNext \/ UNCHANGED Life!life
    <3>1. CASE FlagForHuman(s)
      BY <3>1, HandedOverStep
    <3>2. CASE StartSweep(s) \/ RetryNext(s)
      BY <2>6, <3>2 DEF StartSweep, RetryNext
    <3>3. QED
      BY <2>10, <3>1, <3>2 DEF SweepStep
  <2>11. CASE UNCHANGED vars
    BY <2>6, <2>11 DEF vars
  <2>12. QED
    BY <2>1, <2>2, <2>3, <2>4, <2>5, <2>7, <2>8, <2>9, <2>10, <2>11 DEF Next, Arrival
<1>3. QED
  BY TypeCorrect, CarriedOutInvariant, <1>1, <1>2, PTL DEF Spec, LifeRefined, Life!LifeSpec

\* What the life promises, Dispatch then keeps.
LifeInv == Life!LifeTypeOK /\ Life!StatusTellsTheMail

\* A message that moves leaves the others where they are.
LEMMA MovedMessage ==
    ASSUME NEW m \in Messages, NEW from, NEW to \in Life!Statuses, Life!Move(m, from, to), LifeInv,
           UNCHANGED rendered, rendered[m] = 0, to # "sent"
    PROVE  /\ [n \in Messages |-> msg[n].status]' \in [Messages -> Life!Statuses]
           /\ Life!StatusTellsTheMail'
<1>1. \A n \in Messages : msg'[n].status = IF n = m THEN to ELSE msg[n].status
  BY DEF Life!Move
<1>2. \A n \in Messages : msg[n].status \in Life!Statuses /\ rendered[n] \in Nat
  BY DEF LifeInv, Life!LifeTypeOK
<1>3. [n \in Messages |-> msg[n].status]' \in [Messages -> Life!Statuses]
  BY <1>1, <1>2
<1>4. Life!StatusTellsTheMail'
  BY <1>1, <1>2 DEF LifeInv, Life!StatusTellsTheMail
<1>5. QED
  BY <1>3, <1>4

\* Every step of a message's life keeps the types and the truth of its status.
LEMMA LifeStep == ASSUME LifeInv, [Life!LifeNext]_Life!life PROVE LifeInv'
<1> USE DEF LifeInv, Life!LifeTypeOK, Life!StatusTellsTheMail, Life!Statuses
<1>1. ASSUME NEW m \in Messages, Life!Write(m) PROVE LifeInv'
  <2>1. PICK to \in {"pending_review", "approved"} : Life!Move(m, "absent", to)
    BY <1>1 DEF Life!Write
  <2>2. rendered[m] = 0 /\ UNCHANGED rendered
    BY <1>1, <2>1 DEF Life!Write, Life!Move
  <2>3. [n \in Messages |-> msg[n].body]' \in [Messages -> Bodies]
    BY <1>1 DEF Life!Write, Life!Rewrite
  <2>4. QED
    BY <2>1, <2>2, <2>3, MovedMessage
<1>2. ASSUME NEW m \in Messages, Life!Edit(m) PROVE LifeInv'
  BY <1>2 DEF Life!Edit, Life!Rewrite
<1>3. ASSUME NEW m \in Messages, Life!Decide(m) PROVE LifeInv'
  <2>1. PICK to \in {"approved", "rejected"} : Life!Move(m, "pending_review", to)
    BY <1>3 DEF Life!Decide
  <2>2. rendered[m] = 0 /\ UNCHANGED rendered
    BY <1>3, <2>1 DEF Life!Decide, Life!Move
  <2>3. [n \in Messages |-> msg[n].body]' \in [Messages -> Bodies]
    BY <1>3 DEF Life!Decide
  <2>4. QED
    BY <2>1, <2>2, <2>3, MovedMessage
<1>4. ASSUME NEW m \in Messages, Life!Mail(m) PROVE LifeInv'
  BY <1>4 DEF Life!Mail
<1>5. ASSUME NEW m \in Messages, Life!Settle(m) PROVE LifeInv'
  BY <1>5 DEF Life!Settle, Life!Move
<1>6. ASSUME NEW m \in Messages, Life!HandOver(m) PROVE LifeInv'
  BY <1>6 DEF Life!HandOver, Life!Move
<1>7. CASE UNCHANGED Life!life
  BY <1>7 DEF Life!life
<1> QED
  BY <1>1, <1>2, <1>3, <1>4, <1>5, <1>6, <1>7 DEF Life!LifeNext

\* A sent message went out exactly once and a message handed to a human not at all, by the promised
\* life alone: what carrying it out is worth to a dispatcher.
THEOREM StatusIsTrue == Life!LifeSpec => []Life!StatusTellsTheMail
<1>1. Life!LifeInit => LifeInv
  BY DEF Life!LifeInit, LifeInv, Life!LifeTypeOK, Life!StatusTellsTheMail, Life!Statuses
<1>2. LifeInv /\ [Life!LifeNext]_Life!life => LifeInv'
  BY LifeStep
<1>3. LifeInv => Life!StatusTellsTheMail
  BY DEF LifeInv
<1> QED
  BY <1>1, <1>2, <1>3, PTL DEF Life!LifeSpec

\* One request and one dispatch at a time, a message goes out at most once.  DispatchTwice shows
\* what two dispatches at a time do.
THEOREM OneAtATimeSendsOnce == ASSUME OneAtATime PROVE Spec => []AtMostOneSend
<1>1. Spec => Life!LifeSpec
  BY LifeIsCarriedOut DEF LifeRefined
<1>2. TypeOK /\ Life!StatusTellsTheMail => AtMostOneSend
  BY DEF Life!StatusTellsTheMail, AtMostOneSend, TypeOK, Row, MessageStatus
<1>3. QED
  BY TypeCorrect, StatusIsTrue, <1>1, <1>2, PTL
=============================================================================
