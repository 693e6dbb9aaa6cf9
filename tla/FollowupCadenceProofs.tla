----------------------- MODULE FollowupCadenceProofs -----------------------
(***************************************************************************)
(* What holds of FollowupCadence for any runs of the job at the same time, *)
(* any maximum and any interval: the type invariant, the three promises of *)
(* the cadence as long as no follow-up was piled on another, and that a    *)
(* run which begins after the buyer's reply writes nothing.                *)
(***************************************************************************)
EXTENDS FollowupCadence, SequenceTheorems, TLAPS

(***************************************************************************)
(* Lemmas.                                                                 *)
(***************************************************************************)
\* A row added to a sequence of rows leaves the others where they were.
LEMMA Grows ==
    ASSUME NEW S, NEW seq \in Seq(S), NEW e \in S
    PROVE  /\ Append(seq, e) \in Seq(S) /\ Append(seq, e) # <<>>
           /\ Len(seq) \in Nat /\ Len(Append(seq, e)) = Len(seq) + 1
           /\ DOMAIN seq = 1..Len(seq) /\ DOMAIN Append(seq, e) = 1..(Len(seq) + 1)
           /\ \A n \in DOMAIN seq : Append(seq, e)[n] = seq[n]
           /\ Append(seq, e)[Len(seq) + 1] = e
<1>1. Append(seq, e) \in Seq(S)
  BY AppendProperties
<1>2. QED
  BY <1>1, AppendProperties, LenProperties

\* A change of one row leaves a sequence of rows.
LEMMA Rewritten ==
    ASSUME NEW seq \in Seq(FollowupRow), NEW k \in DOMAIN seq, NEW rowStatus \in MessageStatus,
           NEW rows, \/ rows = [seq EXCEPT ![k].status = rowStatus]
                     \/ rows = [seq EXCEPT ![k].status = rowStatus, ![k].decidedBy = "human"]
    PROVE  rows \in Seq(FollowupRow) /\ DOMAIN rows = DOMAIN seq /\ seq # <<>>
<1>1. seq[k] \in FollowupRow /\ k \in 1..Len(seq)
  BY LenProperties, ElementOfSeq
<1>2. PICK row \in FollowupRow : rows = [seq EXCEPT ![k] = row]
  BY <1>1 DEF FollowupRow, Deciders
<1>3. rows \in Seq(FollowupRow) /\ Len(rows) = Len(seq)
  BY <1>1, <1>2, ExceptSeq
<1>4. DOMAIN rows = 1..Len(rows) /\ DOMAIN seq = 1..Len(seq)
  BY <1>3, LenProperties
<1>5. QED
  BY <1>1, <1>3, <1>4, EmptySeq

\* It changes that row's status and, with a human's decision, who decided.
LEMMA RowAfter ==
    ASSUME NEW seq \in Seq(FollowupRow), NEW k \in DOMAIN seq, NEW j \in DOMAIN seq, NEW rowStatus
    PROVE  /\ LET rows == [seq EXCEPT ![k].status = rowStatus]
              IN  /\ rows[j].cites = seq[j].cites /\ rows[j].fallback = seq[j].fallback
                  /\ rows[j].status = IF j = k THEN rowStatus ELSE seq[j].status
           /\ LET rows == [seq EXCEPT ![k].status = rowStatus, ![k].decidedBy = "human"]
              IN  /\ rows[j].cites = seq[j].cites /\ rows[j].fallback = seq[j].fallback
                  /\ rows[j].status = IF j = k THEN rowStatus ELSE seq[j].status
<1>1. seq[k] \in FollowupRow
  BY LenProperties, ElementOfSeq
<1>2. CASE j = k
  BY <1>1, <1>2 DEF FollowupRow
<1>3. CASE j # k
  BY <1>3
<1>4. QED
  BY <1>2, <1>3

\* A run that moves on keeps its shape, with what it has read so far or something new.
LEMMA RunMoves ==
    ASSUME NEW f \in [Runs -> Run], NEW r \in Runs, NEW step \in Steps
    PROVE  /\ [f EXCEPT ![r].step = step] \in [Runs -> Run]
           /\ \A cites \in Nat : [f EXCEPT ![r].cites = cites, ![r].step = step] \in [Runs -> Run]
           /\ \A row \in Nat : [f EXCEPT ![r].step = step, ![r].row = row] \in [Runs -> Run]
<1>1. [f EXCEPT ![r].step = step] \in [Runs -> Run]
  BY DEF Run
<1>2. \A cites \in Nat : [f EXCEPT ![r].cites = cites, ![r].step = step] \in [Runs -> Run]
  BY DEF Run
<1>3. \A row \in Nat : [f EXCEPT ![r].step = step, ![r].row = row] \in [Runs -> Run]
  BY DEF Run
<1>4. QED
  BY <1>1, <1>2, <1>3

\* A run that has read the settings keeps its shape.
LEMMA RunReads ==
    ASSUME NEW f \in [Runs -> Run], NEW r \in Runs, NEW step \in Steps,
           NEW open \in BOOLEAN, NEW fallback \in BOOLEAN, NEW answered \in BOOLEAN
    PROVE  [f EXCEPT ![r].step = step, ![r].open = open, ![r].fallback = fallback,
                     ![r].answered = answered] \in [Runs -> Run]
<1> DEFINE g == [f EXCEPT ![r].step = step, ![r].open = open]
<1>1. g \in [Runs -> Run]
  BY DEF Run
<1> HIDE DEF g
<1>2. [g EXCEPT ![r].fallback = fallback, ![r].answered = answered] \in [Runs -> Run]
  BY <1>1 DEF Run
<1>3. QED
  BY <1>2 DEF g

\* So does one that has found a candidate,
LEMMA RunFinds ==
    ASSUME NEW f \in [Runs -> Run], NEW r \in Runs, NEW step \in Steps,
           NEW last \in Nat, NEW email \in BOOLEAN
    PROVE  [f EXCEPT ![r].step = step, ![r].last = last, ![r].email = email] \in [Runs -> Run]
BY DEF Run

\* one that has a draft,
LEMMA RunDrafts ==
    ASSUME NEW f \in [Runs -> Run], NEW r \in Runs, NEW step \in Steps,
           NEW confidence \in Confidence
    PROVE  [f EXCEPT ![r].step = step, ![r].confidence = confidence] \in [Runs -> Run]
BY DEF Run

\* and one that has a decision.
LEMMA RunDecides ==
    ASSUME NEW f \in [Runs -> Run], NEW r \in Runs, NEW step \in Steps
    PROVE  [f EXCEPT ![r].open = FALSE, ![r].email = FALSE, ![r].confidence = "low",
                     ![r].step = step] \in [Runs -> Run]
<1> DEFINE g == [f EXCEPT ![r].open = FALSE, ![r].email = FALSE]
<1>1. g \in [Runs -> Run]
  BY DEF Run
<1> HIDE DEF g
<1>2. [g EXCEPT ![r].confidence = "low", ![r].step = step] \in [Runs -> Run]
  BY <1>1 DEF Run, Confidence
<1>3. QED
  BY <1>2 DEF g

\* A run that ended, or has yet to begin, is one too.
LEMMA IdleRun == Idle \in Run /\ Idle.step = "idle" /\ Idle.answered = FALSE
BY DEF Idle, Run, Steps, Confidence

\* What a run read at its start stays with it.
Kept(r) == run'[r].answered = run[r].answered /\ run'[r].fallback = run[r].fallback

\* What each statement of the job does to its own run; it leaves every other run alone.
LEMMA Effects ==
    ASSUME TypeOK, NEW r \in Runs
    PROVE  /\ ReadSettings(r) => run'[r].step = "candidates" /\ run'[r].answered = replied
           /\ FindCandidates(r) =>
                 \/ run'[r] = Idle
                 \/ /\ sent # <<>> /\ run'[r].step = "reply" /\ run'[r].last = Len(sent)
                    /\ Kept(r)
           /\ CheckReply(r) =>
                 \/ run'[r] = Idle
                 \/ /\ ~replied /\ Due(run[r].last, run[r].fallback) /\ run'[r].step = "facts"
                    /\ run'[r].last = run[r].last /\ Kept(r)
           /\ NewFactsSince(r) =>
                 /\ run'[r].last = run[r].last /\ Kept(r)
                 /\ \/ run'[r].step = "ended"
                    \/ /\ run'[r].step = "draft" /\ news > sent[run[r].last].known
                       /\ run'[r].cites = news
           /\ DraftMessage(r) \/ Decide(r) =>
                 \/ run'[r] = Idle
                 \/ /\ run'[r].step \in {"gate", "approve", "hold", "triage"}
                    /\ run'[r].last = run[r].last /\ run'[r].cites = run[r].cites
                    /\ Kept(r)
           /\ ApproveAutonomously(r) =>
                 /\ run'[r].step = "dispatch" /\ run'[r].last = run[r].last
                 /\ Kept(r) /\ run'[r].row = Len(followup')
           /\ EndSequence(r) \/ NeedsTriage(r) \/ HoldForApproval(r) \/ DispatchFollowup(r) \/ Crash(r)
                 => run'[r] = Idle
           /\ Job(r) => \A q \in Runs \ {r} : run'[q] = run[q]
<1> USE DEF Kept
<1>0. run \in [Runs -> Run] /\ run[r] \in Run
  BY DEF TypeOK
<1>1. ReadSettings(r) => run'[r].step = "candidates" /\ run'[r].answered = replied
  BY <1>0 DEF ReadSettings, Run
<1>2. FindCandidates(r) =>
         \/ run'[r] = Idle
         \/ /\ sent # <<>> /\ run'[r].step = "reply" /\ run'[r].last = Len(sent)
            /\ Kept(r)
  BY <1>0 DEF FindCandidates, Stop, Run
<1>3. CheckReply(r) =>
         \/ run'[r] = Idle
         \/ /\ ~replied /\ Due(run[r].last, run[r].fallback) /\ run'[r].step = "facts"
            /\ run'[r].last = run[r].last /\ Kept(r)
  BY <1>0 DEF CheckReply, GoTo, Stop, Run
<1>4. NewFactsSince(r) =>
         /\ run'[r].last = run[r].last /\ Kept(r)
         /\ \/ run'[r].step = "ended"
            \/ /\ run'[r].step = "draft" /\ news > sent[run[r].last].known
               /\ run'[r].cites = news
  BY <1>0 DEF NewFactsSince, Run
<1>5. DraftMessage(r) =>
         \/ run'[r] = Idle
         \/ /\ run'[r].step = "gate"
            /\ run'[r].last = run[r].last /\ run'[r].cites = run[r].cites
            /\ Kept(r)
  BY <1>0 DEF DraftMessage, Stop, Run
<1>6. ASSUME Decide(r)
      PROVE  /\ run'[r].step \in {"approve", "hold", "triage"}
             /\ run'[r].last = run[r].last /\ run'[r].cites = run[r].cites
             /\ Kept(r)
  <2>1. PICK step \in {"approve", "hold", "triage"} :
          run' = [run EXCEPT ![r].open = FALSE, ![r].email = FALSE, ![r].confidence = "low",
                             ![r].step = step]
    BY <1>6 DEF Decide
  <2>2. QED
    BY <1>0, <2>1 DEF Run
<1>7. ApproveAutonomously(r) =>
         /\ run'[r].step = "dispatch" /\ run'[r].last = run[r].last
         /\ Kept(r) /\ run'[r].row = Len(followup')
  BY <1>0 DEF ApproveAutonomously, Run
<1>8. EndSequence(r) \/ NeedsTriage(r) \/ HoldForApproval(r) \/ DispatchFollowup(r) \/ Crash(r)
         => run'[r] = Idle
  BY <1>0 DEF EndSequence, NeedsTriage, HoldForApproval, DispatchFollowup, Crash, Stop
<1>9. Job(r) => \A q \in Runs \ {r} : run'[q] = run[q]
  BY <1>0 DEF Job, ReadSettings, FindCandidates, CheckReply, NewFactsSince, EndSequence,
     DraftMessage,
     Decide, NeedsTriage, HoldForApproval, ApproveAutonomously, DispatchFollowup, Crash, Stop, GoTo
<1>10. QED
  BY <1>1, <1>2, <1>3, <1>4, <1>5, <1>6, <1>7, <1>8, <1>9

(***************************************************************************)
(* The type invariant.                                                     *)
(***************************************************************************)
\* Every reachable state has the shape the schema and the job give it, and a run about to dispatch
\* has a follow-up to dispatch.
THEOREM TypeCorrect == Spec => []TypeOK
<1>1. Init => TypeOK
  <2> SUFFICES ASSUME Init PROVE TypeOK
    OBVIOUS
  <2>1. followup \in Seq(FollowupRow) /\ sent \in Seq(SentRow)
    BY EmptySeq DEF Init
  <2>2. run \in [Runs -> Run] /\ \A r \in Runs : run[r].step # "dispatch"
    BY IdleRun DEF Init
  <2>3. /\ enabled \in BOOLEAN /\ blocked \in BOOLEAN /\ hasEmail \in BOOLEAN
        /\ replied \in BOOLEAN /\ piled \in BOOLEAN
    BY DEF Init
  <2>4. day \in Nat /\ news \in Nat /\ tier \in Tiers /\ status = "drafted"
    BY DEF Init, Tiers
  <2>5. deadline \in BOOLEAN
    BY DEF Init
  <2>6. QED
    BY <2>1, <2>2, <2>3, <2>4, <2>5 DEF TypeOK, At
<1>2. TypeOK /\ [Next]_vars => TypeOK'
  <2> SUFFICES ASSUME TypeOK, [Next]_vars PROVE TypeOK'
    OBVIOUS
  <2> USE DEF account, trigger, Surroundings, Rows
  <2>0. /\ run \in [Runs -> Run] /\ followup \in Seq(FollowupRow) /\ sent \in Seq(SentRow)
        /\ \A r \in Runs : run[r].step = "dispatch" => run[r].row \in DOMAIN followup
    BY DEF TypeOK, At
  <2>s. /\ "candidates" \in Steps /\ "reply" \in Steps /\ "facts" \in Steps /\ "ended" \in Steps
        /\ "draft" \in Steps /\ "gate" \in Steps /\ "triage" \in Steps /\ "hold" \in Steps
        /\ "approve" \in Steps /\ "dispatch" \in Steps /\ "idle" \in Steps
    BY DEF Steps
  <2>1. ASSUME UNCHANGED <<day, account, news, trigger, followup, sent, piled>>,
               NEW r \in Runs, run' \in [Runs -> Run], run'[r].step # "dispatch",
               \A q \in Runs \ {r} : run'[q] = run[q]
        PROVE  TypeOK'
    <3>1. \A q \in Runs : run'[q].step = "dispatch" => run'[q].row \in DOMAIN followup
      BY <2>0, <2>1
    <3>2. QED
      BY <2>1, <3>1 DEF TypeOK, At
  <2>8. ASSUME NEW r \in Runs, Stop(r) PROVE run' \in [Runs -> Run] /\ run'[r].step # "dispatch"
    BY <2>0, <2>8, IdleRun DEF Stop
  <2>2. ASSUME NEW r \in Runs, ReadSettings(r) PROVE TypeOK'
    <3>1. PICK open \in BOOLEAN, fallback \in BOOLEAN :
            run' = [run EXCEPT ![r].step = "candidates", ![r].open = open,
                               ![r].fallback = fallback, ![r].answered = replied]
      BY <2>2 DEF ReadSettings, TypeOK
    <3>2. run' \in [Runs -> Run]
      BY <2>0, <2>s, <3>1, RunReads DEF TypeOK
    <3>3. QED
      BY <2>1, <2>2, <3>2, Effects DEF Job, ReadSettings
  <2>3. ASSUME NEW r \in Runs, FindCandidates(r) PROVE TypeOK'
    <3>1. Len(sent) \in Nat
      BY <2>0, LenProperties
    <3>2. run' \in [Runs -> Run]
      <4>1. CASE Stop(r)
        BY <2>8, <4>1
      <4>2. CASE run' = [run EXCEPT ![r].step = "reply", ![r].last = Len(sent), ![r].email = hasEmail]
        BY <2>0, <2>s, <3>1, <4>2, RunFinds DEF TypeOK
      <4>3. QED
        BY <2>3, <4>1, <4>2 DEF FindCandidates
    <3>3. run'[r].step # "dispatch"
      BY <2>3, Effects, IdleRun
    <3>4. QED
      BY <2>1, <2>3, <3>2, <3>3, Effects DEF Job, FindCandidates
  <2>4. ASSUME NEW r \in Runs, CheckReply(r) PROVE TypeOK'
    <3>1. run' \in [Runs -> Run]
      <4>1. CASE GoTo(r, "facts")
        BY <2>0, <2>s, <4>1, RunMoves DEF GoTo
      <4>2. QED
        BY <2>4, <2>8, <4>1 DEF CheckReply
    <3>2. run'[r].step # "dispatch"
      BY <2>4, Effects, IdleRun
    <3>3. QED
      BY <2>1, <2>4, <3>1, <3>2, Effects DEF Job, CheckReply
  <2>5. ASSUME NEW r \in Runs, NewFactsSince(r) PROVE TypeOK'
    <3>1. PICK step \in Steps :
            run' = [run EXCEPT ![r].cites = news, ![r].step = step]
      BY <2>s, <2>5 DEF NewFactsSince
    <3>2. run' \in [Runs -> Run]
      BY <2>0, <2>s, <3>1, RunMoves DEF TypeOK
    <3>3. QED
      BY <2>1, <2>5, <3>2, Effects DEF Job, NewFactsSince
  <2>6. ASSUME NEW r \in Runs, DraftMessage(r) PROVE TypeOK'
    <3>1. run' \in [Runs -> Run]
      <4>1. ASSUME NEW confidence \in Confidence,
                   run' = [run EXCEPT ![r].step = "gate", ![r].confidence = confidence]
            PROVE  run' \in [Runs -> Run]
        BY <2>0, <2>s, <4>1, RunDrafts
      <4>2. QED
        BY <2>6, <2>8, <4>1 DEF DraftMessage
    <3>2. run'[r].step # "dispatch"
      BY <2>6, Effects, IdleRun
    <3>3. QED
      BY <2>1, <2>6, <3>1, <3>2, Effects DEF Job, DraftMessage
  <2>7. ASSUME NEW r \in Runs, Decide(r) PROVE TypeOK'
    <3>1. PICK step \in Steps :
            run' = [run EXCEPT ![r].open = FALSE, ![r].email = FALSE, ![r].confidence = "low",
                               ![r].step = step]
      BY <2>s, <2>7 DEF Decide
    <3>2. run' \in [Runs -> Run]
      BY <2>0, <2>s, <3>1, RunDecides
    <3>3. run'[r].step # "dispatch"
      BY <2>7, Effects, IdleRun
    <3>4. QED
      BY <2>1, <2>7, <3>2, <3>3, Effects DEF Job, Decide
  <2>9. ASSUME NEW r \in Runs, EndSequence(r) \/ NeedsTriage(r) PROVE TypeOK'
    <3>1. /\ UNCHANGED <<day, account, news, deadline, followup, sent, piled>>
          /\ status' \in {"sequence_ended", "needs_triage"}
          /\ Stop(r)
      BY <2>9 DEF EndSequence, NeedsTriage
    <3>2. \A q \in Runs \ {r} : run'[q] = run[q]
      BY <2>9, Effects DEF Job
    <3>3. \A q \in Runs : run'[q].step = "dispatch" => run'[q].row \in DOMAIN followup
      BY <2>0, <2>8, <3>1, <3>2
    <3>4. QED
      BY <2>8, <3>1, <3>3 DEF TypeOK, At
  <2>10. ASSUME NEW r \in Runs, Crash(r) PROVE TypeOK'
    BY <2>1, <2>8, <2>10, Effects DEF Job, Crash
  <2>11. ASSUME NEW r \in Runs, NEW rowStatus \in MessageStatus, NEW decider \in Deciders,
                Create(r, rowStatus, decider)
         PROVE  /\ followup' \in Seq(FollowupRow) /\ piled' \in BOOLEAN
                /\ DOMAIN followup \subseteq DOMAIN followup' /\ Len(followup') \in DOMAIN followup'
    <3>1. [status |-> rowStatus, decidedBy |-> decider, cites |-> run[r].cites,
           fallback |-> run[r].fallback] \in FollowupRow
      BY <2>0 DEF FollowupRow, Run
    <3>2. QED
      BY <2>0, <2>11, <3>1, Grows DEF Create
  <2>12. "pending_review" \in MessageStatus /\ "approved" \in MessageStatus /\ "nobody" \in Deciders
         /\ SystemDecider \in Deciders
    BY DEF MessageStatus, Deciders
  <2>13. ASSUME NEW r \in Runs, HoldForApproval(r) PROVE TypeOK'
    <3>1. /\ UNCHANGED <<day, account, news, trigger, sent>> /\ Stop(r)
          /\ Create(r, "pending_review", "nobody")
      BY <2>13 DEF HoldForApproval
    <3>2. /\ followup' \in Seq(FollowupRow) /\ piled' \in BOOLEAN
          /\ DOMAIN followup \subseteq DOMAIN followup'
      BY <2>11, <2>12, <3>1
    <3>3. \A q \in Runs \ {r} : run'[q] = run[q]
      BY <2>13, Effects DEF Job
    <3>4. \A q \in Runs : run'[q].step = "dispatch" => run'[q].row \in DOMAIN followup'
      BY <2>0, <2>8, <3>1, <3>2, <3>3
    <3>5. QED
      BY <2>8, <3>1, <3>2, <3>4 DEF TypeOK, At
  <2>14. ASSUME NEW r \in Runs, ApproveAutonomously(r) PROVE TypeOK'
    <3>1. UNCHANGED <<day, account, news, trigger, sent>> /\ Create(r, "approved", SystemDecider)
      BY <2>14 DEF ApproveAutonomously
    <3>2. /\ followup' \in Seq(FollowupRow) /\ piled' \in BOOLEAN
          /\ DOMAIN followup \subseteq DOMAIN followup' /\ Len(followup') \in DOMAIN followup'
      BY <2>11, <2>12, <3>1
    <3>3. run' = [run EXCEPT ![r].step = "dispatch", ![r].row = Len(followup')]
      BY <2>14 DEF ApproveAutonomously
    <3>4. Len(followup') \in Nat
      BY <3>2, LenProperties
    <3>5. run' \in [Runs -> Run]
      BY <2>0, <2>s, <3>3, <3>4, RunMoves
    <3>6. \A q \in Runs \ {r} : run'[q] = run[q]
      BY <2>14, Effects DEF Job
    <3>7. run'[r].row = Len(followup')
      BY <2>14, Effects
    <3>8. \A q \in Runs : run'[q].step = "dispatch" => run'[q].row \in DOMAIN followup'
      BY <2>0, <3>2, <3>6, <3>7
    <3>9. QED
      BY <3>1, <3>2, <3>5, <3>8 DEF TypeOK, At
  <2>15. ASSUME NEW k \in DOMAIN followup, Send(k)
         PROVE  /\ followup' \in Seq(FollowupRow) /\ DOMAIN followup' = DOMAIN followup
                /\ sent' \in Seq(SentRow)
    <3>1. followup' \in Seq(FollowupRow) /\ DOMAIN followup' = DOMAIN followup
      <4>1. followup' = [followup EXCEPT ![k].status = "sent"] /\ "sent" \in MessageStatus
        BY <2>15 DEF Send, MessageStatus
      <4>2. QED
        BY <2>0, <4>1, Rewritten
    <3>2. k \in Nat
      BY <2>0, LenProperties
    <3>3. [row |-> k, day |-> day, known |-> news] \in SentRow
      BY <3>2 DEF SentRow, TypeOK
    <3>4. QED
      BY <2>0, <2>15, <3>1, <3>3, Grows DEF Send
  <2>16. ASSUME NEW r \in Runs, DispatchFollowup(r) PROVE TypeOK'
    <3>1. run[r].row \in DOMAIN followup
      BY <2>0, <2>16 DEF DispatchFollowup, At
    <3>2. UNCHANGED <<day, account, news, trigger, piled>> /\ Stop(r)
      BY <2>16 DEF DispatchFollowup
    <3>3. Send(run[r].row) \/ UNCHANGED <<followup, sent>>
      BY <2>16 DEF DispatchFollowup
    <3>4. /\ followup' \in Seq(FollowupRow) /\ DOMAIN followup' = DOMAIN followup
          /\ sent' \in Seq(SentRow)
      BY <2>0, <2>15, <3>1, <3>3
    <3>5. \A q \in Runs \ {r} : run'[q] = run[q]
      BY <2>16, Effects DEF Job
    <3>6. \A q \in Runs : run'[q].step = "dispatch" => run'[q].row \in DOMAIN followup'
      BY <2>0, <2>8, <3>2, <3>4, <3>5
    <3>7. QED
      BY <2>8, <3>2, <3>4, <3>6 DEF TypeOK, At
  <2>17. ASSUME NEW k \in DOMAIN followup, DispatchRow(k) PROVE TypeOK'
    BY <2>15, <2>17 DEF DispatchRow, TypeOK, At
  <2>18. ASSUME NEW k \in DOMAIN followup, Review(k) \/ FlagForHuman(k) PROVE TypeOK'
    <3>1. UNCHANGED <<day, account, news, trigger, sent, run, piled>>
      BY <2>18 DEF Review, FlagForHuman
    <3>2. PICK rowStatus \in MessageStatus :
            \/ followup' = [followup EXCEPT ![k].status = rowStatus]
            \/ followup' = [followup EXCEPT ![k].status = rowStatus, ![k].decidedBy = "human"]
      BY <2>18 DEF Review, FlagForHuman, MessageStatus
    <3>3. followup' \in Seq(FollowupRow) /\ DOMAIN followup' = DOMAIN followup
      BY <2>0, <3>2, Rewritten
    <3>4. QED
      BY <3>1, <3>3 DEF TypeOK, At
  <2>19. CASE NextDay
    BY <2>19 DEF NextDay, TypeOK, At
  <2>20. CASE SendOutreach
    <3>1. [row |-> Outreach, day |-> day, known |-> news] \in SentRow
      BY DEF SentRow, Outreach, TypeOK
    <3>2. sent' \in Seq(SentRow)
      BY <2>20, <3>1 DEF SendOutreach
    <3>3. QED
      BY <2>20, <3>2 DEF SendOutreach, TypeOK, At
  <2>21. CASE NewFact
    BY <2>21 DEF NewFact, TypeOK, At
  <2>22. CASE ReceiveInbound
    BY <2>22 DEF ReceiveInbound, TypeOK, At
  <2>23. CASE OpenEscalation \/ ResolveEscalation \/ Promote
    <3>1. UNCHANGED <<day, enabled, hasEmail, replied, news, Rows>>
      BY <2>23 DEF OpenEscalation, ResolveEscalation, Promote
    <3>2. tier' \in Tiers
      BY <2>23 DEF OpenEscalation, ResolveEscalation, Promote, TypeOK, Tiers
    <3>3. blocked' \in BOOLEAN
      <4>1. blocked' = TRUE \/ blocked' = FALSE \/ blocked' = blocked
        BY <2>23 DEF OpenEscalation, ResolveEscalation, Promote
      <4>2. QED
        BY <4>1 DEF TypeOK
    <3>4. QED
      BY <3>1, <3>2, <3>3 DEF TypeOK, At
  <2>24. CASE SwitchAutonomousSending \/ UpsertContact
    BY <2>24 DEF SwitchAutonomousSending, UpsertContact, TypeOK, At
  <2>25. CASE UNCHANGED vars
    BY <2>25 DEF vars, TypeOK, At
  <2>26. QED
    BY <2>2, <2>3, <2>4, <2>5, <2>6, <2>7, <2>9, <2>10, <2>13, <2>14, <2>16, <2>17, <2>18, <2>19,
       <2>20, <2>21, <2>22, <2>23, <2>24, <2>25 DEF Next, Job
<1>3. QED
  BY <1>1, <1>2, PTL DEF Spec

(***************************************************************************)
(* The inductive invariant.                                                *)
(***************************************************************************)
\* What a run in flight has read stays true of the messages sent before it: they are only added to,
\* and days only pass.
Located == Steps \ {"idle", "candidates"}
Passed == {"facts", "draft", "gate", "hold", "approve"}
Informed == {"draft", "gate", "hold", "approve"}

Reads(r) ==
    /\ run[r].step \in Located => run[r].last \in DOMAIN sent
    /\ run[r].step \in Passed => Due(run[r].last, run[r].fallback)
    /\ run[r].step \in Informed => run[r].cites > sent[run[r].last].known
    /\ run[r].answered => replied /\ run[r].step \in {"candidates", "reply"}

\* Where nothing was piled up, the one follow-up that may still go out keeps all three promises
\* against the last message sent.
NextInLine ==
    ~piled =>
        /\ \A j, k \in Open : j = k
        /\ \A k \in Open : Due(Len(sent), followup[k].fallback) /\ followup[k].cites > sent[Len(sent)].known

RowsKnown ==
    /\ followup # <<>> => sent # <<>>
    /\ \A n \in Followups : sent[n].row \in DOMAIN followup

Promises == WithinMaximum /\ SpacedApart /\ BringsNews

CadenceInv == (\A r \in Runs : Reads(r)) /\ RowsKnown /\ NextInLine /\ Promises

\* What the types say of the rows and the days, where the arithmetic needs it.
LEMMA Numbers ==
    ASSUME TypeOK
    PROVE  /\ day \in Nat /\ news \in Nat
           /\ \A fallback \in BOOLEAN : Maximum(fallback) \in Nat /\ Interval(fallback) \in Nat
           /\ Len(sent) \in Nat /\ DOMAIN sent = 1..Len(sent) /\ DOMAIN followup = 1..Len(followup)
           /\ sent # <<>> => Len(sent) \in DOMAIN sent
           /\ \A n \in DOMAIN sent : sent[n].day \in Nat /\ sent[n].known \in Nat
           /\ \A k \in DOMAIN followup : followup[k].cites \in Nat /\ followup[k].fallback \in BOOLEAN
           /\ \A r \in Runs : /\ run[r].last \in Nat /\ run[r].cites \in Nat
                             /\ run[r].step \in Steps /\ run[r].fallback \in BOOLEAN
<1>1. sent \in Seq(SentRow) /\ followup \in Seq(FollowupRow) /\ run \in [Runs -> Run]
  BY DEF TypeOK
<1>2. /\ Len(sent) \in Nat /\ DOMAIN sent = 1..Len(sent) /\ DOMAIN followup = 1..Len(followup)
      /\ sent # <<>> => Len(sent) \in Nat \ {0}
  BY <1>1, LenProperties, EmptySeq
<1>3. \A n \in DOMAIN sent : sent[n] \in SentRow
  BY <1>1, <1>2, ElementOfSeq
<1>4. \A k \in DOMAIN followup : followup[k] \in FollowupRow
  BY <1>1, <1>2, ElementOfSeq
<1>5. \A r \in Runs : /\ run[r].last \in Nat /\ run[r].cites \in Nat
                      /\ run[r].step \in Steps /\ run[r].fallback \in BOOLEAN
  BY <1>1 DEF Run
<1>6. QED
  BY <1>2, <1>3, <1>4, <1>5, FollowupAssumption DEF TypeOK, SentRow, FollowupRow, Maximum, Interval

\* A run left alone still reads true when days pass, a reply comes in or a message is sent.
LEMMA StillReads ==
    ASSUME TypeOK, NEW r \in Runs, Reads(r), run'[r] = run[r],
           day' \in Nat, day' >= day, replied => replied',
           DOMAIN sent \subseteq DOMAIN sent', \A n \in DOMAIN sent : sent'[n] = sent[n]
    PROVE  Reads(r)'
<1> USE Numbers
<1>1. run[r].step \in Passed \cup Informed => run[r].step \in Located
  BY DEF Located, Passed, Informed, Steps
<1>2. run'[r].step \in Located => run'[r].last \in DOMAIN sent'
  BY DEF Reads
<1>3. ASSUME run'[r].step \in Passed PROVE Due(run[r].last, run[r].fallback)'
  <2>1. run[r].last \in DOMAIN sent /\ Due(run[r].last, run[r].fallback)
    BY <1>1, <1>3 DEF Reads
  <2>2. sent'[run[r].last] = sent[run[r].last]
    BY <2>1
  <2>3. QED
    BY <2>1, <2>2 DEF Due
<1>4. run'[r].step \in Informed => run'[r].cites > sent'[run'[r].last].known
  BY <1>1 DEF Reads
<1>5. run'[r].answered => replied' /\ run'[r].step \in {"candidates", "reply"}
  BY DEF Reads
<1>6. QED
  BY <1>2, <1>3, <1>4, <1>5 DEF Reads

\* A run that ended has nothing to read.
LEMMA EndedReads == ASSUME NEW r \in Runs, run'[r] = Idle PROVE Reads(r)'
BY IdleRun DEF Reads, Located, Passed, Informed

\* A step that writes no row and sends nothing keeps the invariant if its own run reads true.
LEMMA QuietStep ==
    ASSUME TypeOK, CadenceInv, UNCHANGED <<followup, sent, piled>>,
           day' \in Nat, day' >= day, replied => replied',
           \A r \in Runs : run'[r] = run[r] \/ Reads(r)'
    PROVE  CadenceInv'
<1> USE Numbers
<1>1. \A r \in Runs : Reads(r)'
  BY StillReads DEF CadenceInv
<1>2. RowsKnown' /\ Promises'
  BY DEF CadenceInv, RowsKnown, Promises, WithinMaximum, SpacedApart, BringsNews, Followups
<1>3. ASSUME ~piled', NEW j \in Open', NEW k \in Open' PROVE j = k
  BY <1>3 DEF CadenceInv, NextInLine, Open
<1>4. ASSUME ~piled', NEW k \in Open'
      PROVE  Due(Len(sent), followup[k].fallback)' /\ followup'[k].cites > sent'[Len(sent')].known
  <2>1. k \in Open /\ k \in DOMAIN followup
    BY <1>4 DEF Open
  <2>2. Due(Len(sent), followup[k].fallback) /\ followup[k].cites > sent[Len(sent)].known /\ sent # <<>>
    BY <1>4, <2>1 DEF CadenceInv, NextInLine, RowsKnown
  <2> DEFINE gap == Interval(followup[k].fallback)
  <2>3. gap \in Nat /\ Len(sent) \in DOMAIN sent /\ sent[Len(sent)].day \in Nat
    BY <2>1, <2>2
  <2>4. /\ Len(sent) - 1 < Maximum(followup[k].fallback)
        /\ day - sent[Len(sent)].day >= gap
    BY <2>2 DEF Due
  <2> HIDE DEF gap
  <2>5. day' - sent[Len(sent)].day >= gap
    BY <2>3, <2>4
  <2>6. Due(Len(sent), followup[k].fallback)'
    BY <2>4, <2>5 DEF Due, gap
  <2>7. QED
    BY <2>2, <2>6
<1>5. QED
  BY <1>1, <1>2, <1>3, <1>4 DEF CadenceInv, NextInLine

\* A human's decision on a follow-up, or the sweep's flag, opens no row and changes no citation.
LEMMA DecideStep ==
    ASSUME TypeOK, CadenceInv, UNCHANGED <<day, replied, sent, run, piled>>,
           followup # <<>>, DOMAIN followup' = DOMAIN followup, Open' \subseteq Open,
           \A k \in DOMAIN followup : /\ followup'[k].cites = followup[k].cites
                                       /\ followup'[k].fallback = followup[k].fallback
    PROVE  CadenceInv'
<1> USE Numbers
<1>1. \A r \in Runs : Reads(r)'
  BY StillReads DEF CadenceInv
<1>2. RowsKnown'
  BY DEF CadenceInv, RowsKnown, Followups
<1>3. Promises'
  BY DEF CadenceInv, RowsKnown, Promises, WithinMaximum, SpacedApart, BringsNews, Followups
<1>4. ASSUME ~piled', NEW j \in Open', NEW k \in Open'
      PROVE  j = k /\ Due(Len(sent), followup[k].fallback)' /\ followup'[k].cites > sent'[Len(sent')].known
  <2>1. j \in Open /\ k \in Open /\ k \in DOMAIN followup
    BY <1>4 DEF Open
  <2>2. j = k /\ Due(Len(sent), followup[k].fallback) /\ followup[k].cites > sent[Len(sent)].known
    BY <1>4, <2>1 DEF CadenceInv, NextInLine
  <2>3. QED
    BY <2>1, <2>2 DEF Due
<1>5. QED
  BY <1>1, <1>2, <1>3, <1>4 DEF CadenceInv, NextInLine

\* A follow-up is written: unless it is piled on another, it is the only open one, and it keeps the
\* promises because its run read the last message that was sent.
LEMMA CreateStep ==
    ASSUME TypeOK, CadenceInv, NEW r \in Runs, run[r].step \in {"hold", "approve"},
           NEW rowStatus \in MessageStatus, NEW decider \in Deciders, Create(r, rowStatus, decider),
           UNCHANGED <<day, replied, sent>>,
           Reads(r)', \A q \in Runs \ {r} : run'[q] = run[q]
    PROVE  CadenceInv'
<1> USE Numbers
<1> DEFINE row == [status |-> rowStatus, decidedBy |-> decider, cites |-> run[r].cites,
                  fallback |-> run[r].fallback]
<1>1. row \in FollowupRow /\ row.cites = run[r].cites /\ row.fallback = run[r].fallback
  BY DEF FollowupRow
<1>2. followup' = Append(followup, row) /\ followup \in Seq(FollowupRow)
  BY DEF Create, TypeOK
<1> HIDE DEF row
<1>3. /\ followup' # <<>> /\ DOMAIN followup' = 1..(Len(followup) + 1) /\ Len(followup) \in Nat
      /\ \A k \in DOMAIN followup : followup'[k] = followup[k]
      /\ followup'[Len(followup) + 1] = row
  BY <1>1, <1>2, Grows
<1>4. /\ run[r].last \in DOMAIN sent /\ Due(run[r].last, run[r].fallback)
      /\ run[r].cites > sent[run[r].last].known
  BY DEF CadenceInv, Reads, Located, Passed, Informed, Steps
<1>5. \A q \in Runs : Reads(q)'
  BY StillReads DEF CadenceInv
<1>6. sent # <<>>
  BY <1>4
<1>7. RowsKnown'
  BY <1>3, <1>6 DEF CadenceInv, RowsKnown, Followups
<1>8. piled => piled'
  BY DEF Create
<1>9. Promises'
  BY <1>3, <1>8 DEF CadenceInv, RowsKnown, Promises, WithinMaximum, SpacedApart, BringsNews,
     Followups
<1>10. ASSUME ~piled' PROVE NextInLine'
  <2>1. Open = {} /\ run[r].last = Len(sent)
    BY <1>10 DEF Create
  <2>2. \A k \in Open' : k = Len(followup) + 1
    BY <1>3, <2>1 DEF Open
  <2>3. ASSUME NEW k \in Open' PROVE Due(Len(sent), followup[k].fallback)' /\ followup'[k].cites > sent'[Len(sent')].known
    BY <1>1, <1>3, <1>4, <2>1, <2>2 DEF Due
  <2>4. QED
    BY <2>2, <2>3 DEF NextInLine
<1>11. NextInLine'
  BY <1>10 DEF NextInLine
<1>12. QED
  BY <1>5, <1>7, <1>9, <1>11 DEF CadenceInv

\* A follow-up goes out, by its own run, a console request or the sweep: where nothing was piled up
\* it was the only open one, and it kept the promises all the time it waited.
LEMMA SendStep ==
    ASSUME TypeOK, CadenceInv, NEW k \in DOMAIN followup, MaySend(k), Send(k),
           UNCHANGED <<day, replied, piled>>,
           \A r \in Runs : run'[r] = run[r] \/ run'[r] = Idle
    PROVE  CadenceInv'
<1> USE Numbers
<1> DEFINE row == [row |-> k, day |-> day, known |-> news]
           last == Len(sent)
<1>1. row \in SentRow /\ row.row = k /\ row.day = day /\ row.known = news
  BY DEF SentRow
<1>2. sent' = Append(sent, row) /\ sent \in Seq(SentRow)
  BY DEF Send, TypeOK
<1> HIDE DEF row
<1>3. /\ sent' # <<>> /\ Len(sent') = last + 1 /\ DOMAIN sent' = 1..(last + 1)
      /\ \A n \in DOMAIN sent : sent'[n] = sent[n]
      /\ sent'[last + 1] = row
  BY <1>1, <1>2, Grows
<1>4. /\ DOMAIN followup' = DOMAIN followup /\ followup # <<>>
      /\ \A j \in DOMAIN followup : /\ followup'[j].cites = followup[j].cites
                                    /\ followup'[j].fallback = followup[j].fallback
                                    /\ followup'[j].status = IF j = k THEN "sent" ELSE followup[j].status
  <2>1. followup' = [followup EXCEPT ![k].status = "sent"] /\ "sent" \in MessageStatus
    BY DEF Send, MessageStatus
  <2>2. followup \in Seq(FollowupRow)
    BY DEF TypeOK
  <2>3. DOMAIN followup' = DOMAIN followup /\ followup # <<>>
    BY <2>1, <2>2, Rewritten
  <2>4. ASSUME NEW j \in DOMAIN followup
        PROVE  /\ followup'[j].cites = followup[j].cites
               /\ followup'[j].fallback = followup[j].fallback
               /\ followup'[j].status = IF j = k THEN "sent" ELSE followup[j].status
    BY <2>1, <2>2, RowAfter
  <2>5. QED
    BY <2>3, <2>4
<1>5. \A r \in Runs : Reads(r)'
  BY <1>3, StillReads, EndedReads DEF CadenceInv
<1>6. sent # <<>> /\ last \in DOMAIN sent /\ last > 0
  BY <1>4 DEF CadenceInv, RowsKnown
<1>7. RowsKnown'
  <2>1. ASSUME NEW n \in Followups' PROVE sent'[n].row \in DOMAIN followup'
    <3>1. CASE n = last + 1
      BY <1>1, <1>3, <1>4, <3>1
    <3>2. CASE n # last + 1
      <4>1. n \in DOMAIN sent /\ n \in Followups
        BY <1>3, <2>1, <3>2 DEF Followups
      <4>2. QED
        BY <1>3, <1>4, <4>1 DEF CadenceInv, RowsKnown
    <3>3. QED
      BY <3>1, <3>2
  <2>2. QED
    BY <1>3, <2>1 DEF RowsKnown
<1>8. CASE piled'
  BY <1>5, <1>7, <1>8 DEF CadenceInv, NextInLine, Promises, WithinMaximum, SpacedApart, BringsNews
<1>9. CASE ~piled'
  <2>1. k \in Open
    BY DEF MaySend, Open
  <2>2. /\ \A j \in Open : j = k
        /\ Due(last, followup[k].fallback) /\ followup[k].cites > sent[last].known
    BY <1>9, <2>1 DEF CadenceInv, NextInLine
  <2>3. Open' = {}
    BY <1>4, <2>2 DEF Open
  <2>4. ASSUME NEW n \in Followups'
        PROVE  /\ n - 1 <= Maximum(followup'[sent'[n].row].fallback)
               /\ sent'[n].day - sent'[n - 1].day >= Interval(followup'[sent'[n].row].fallback)
               /\ followup'[sent'[n].row].cites > sent'[n - 1].known
    <3>1. CASE n = last + 1
      <4>1. n - 1 = last /\ sent'[n - 1] = sent[last] /\ sent'[n] = row
        BY <1>3, <1>6, <3>1
      <4>2. /\ last - 1 < Maximum(followup[k].fallback)
            /\ day - sent[last].day >= Interval(followup[k].fallback)
        BY <2>2 DEF Due
      <4>3. Maximum(followup[k].fallback) \in Nat /\ last \in Nat
        OBVIOUS
      <4>4. last <= Maximum(followup[k].fallback)
        BY <4>2, <4>3
      <4>5. QED
        BY <1>1, <1>4, <2>2, <4>1, <4>2, <4>4
    <3>2. CASE n # last + 1
      <4>1. n \in DOMAIN sent /\ n - 1 \in DOMAIN sent /\ n \in Followups
        BY <1>3, <2>4, <3>2 DEF Followups
      <4>2. sent'[n] = sent[n] /\ sent'[n - 1] = sent[n - 1]
        BY <1>3, <4>1
      <4>3. sent[n].row \in DOMAIN followup
        BY <4>1 DEF CadenceInv, RowsKnown
      <4>4. n - 1 <= Maximum(followup[sent[n].row].fallback)
        BY <1>9, <4>1 DEF CadenceInv, Promises, WithinMaximum
      <4>5. sent[n].day - sent[n - 1].day >= Interval(followup[sent[n].row].fallback)
        BY <1>9, <4>1 DEF CadenceInv, Promises, SpacedApart
      <4>6. followup[sent[n].row].cites > sent[n - 1].known
        BY <1>9, <4>1 DEF CadenceInv, Promises, BringsNews
      <4>7. QED
        BY <1>4, <4>2, <4>3, <4>4, <4>5, <4>6
    <3>3. QED
      BY <3>1, <3>2
  <2>5. Promises'
    BY <2>4 DEF Promises, WithinMaximum, SpacedApart, BringsNews
  <2>6. NextInLine'
    BY <2>3 DEF NextInLine
  <2>7. QED
    BY <1>5, <1>7, <2>5, <2>6 DEF CadenceInv
<1>10. QED
  BY <1>8, <1>9

\* The invariant holds initially, and every step keeps it.
LEMMA CadenceInvariant == Spec => []CadenceInv
<1>1. Init => CadenceInv
  <2> SUFFICES ASSUME Init PROVE CadenceInv
    OBVIOUS
  <2>1. sent = <<>> /\ followup = <<>> /\ piled = FALSE /\ run = [r \in Runs |-> Idle]
    BY DEF Init
  <2>2. Followups = {} /\ Open = {} /\ Len(sent) = 0
    BY <2>1 DEF Followups, Open
  <2>3. \A r \in Runs : Reads(r)
    BY <2>1, IdleRun DEF Reads, Located, Passed, Informed
  <2>4. RowsKnown /\ NextInLine
    BY <2>1, <2>2 DEF RowsKnown, NextInLine
  <2>5. Promises
    BY <2>2, FollowupAssumption DEF Promises, WithinMaximum, SpacedApart, BringsNews
  <2>6. QED
    BY <2>3, <2>4, <2>5 DEF CadenceInv
<1>2. TypeOK /\ CadenceInv /\ [Next]_vars => CadenceInv'
  <2> SUFFICES ASSUME TypeOK, CadenceInv, [Next]_vars PROVE CadenceInv'
    OBVIOUS
  <2> USE DEF account, trigger, Surroundings, Rows, Kept
  <2>0. /\ day \in Nat /\ day >= day
        /\ \A r \in Runs : Reads(r)
    BY Numbers DEF CadenceInv
  <2>1. ASSUME NEW r \in Runs, Job(r), Reads(r)', UNCHANGED <<day, replied, followup, sent, piled>>
        PROVE  CadenceInv'
    <3>1. \A q \in Runs : run'[q] = run[q] \/ Reads(q)'
      BY <2>1, Effects
    <3>2. QED
      BY <2>0, <2>1, <3>1, QuietStep
  <2>2. ASSUME NEW r \in Runs, ReadSettings(r) PROVE CadenceInv'
    <3>1. Reads(r)'
      BY <2>2, Effects DEF Reads, Located, Passed, Informed, ReadSettings
    <3>2. QED
      BY <2>1, <2>2, <3>1 DEF Job, ReadSettings
  <2>3. ASSUME NEW r \in Runs, FindCandidates(r) PROVE CadenceInv'
    <3>1. UNCHANGED <<day, replied, sent, followup, piled>> /\ run[r].step = "candidates"
      BY <2>3 DEF FindCandidates, At
    <3>2. Reads(r)'
      <4>1. CASE run'[r] = Idle
        BY <4>1, EndedReads
      <4>2. CASE run'[r] # Idle
        <5>1. /\ sent # <<>> /\ run'[r].step = "reply" /\ run'[r].last = Len(sent)
              /\ Kept(r)
          BY <2>3, <4>2, Effects
        <5>2. Len(sent) \in DOMAIN sent
          BY <5>1, Numbers
        <5>3. QED
          BY <2>0, <3>1, <5>1, <5>2 DEF Reads, Passed, Informed
      <4>3. QED
        BY <4>1, <4>2
    <3>3. QED
      BY <2>1, <2>3, <3>1, <3>2 DEF Job
  <2>4. ASSUME NEW r \in Runs, CheckReply(r) PROVE CadenceInv'
    <3>1. UNCHANGED <<day, replied, sent, followup, piled>> /\ run[r].step = "reply"
      BY <2>4 DEF CheckReply, At
    <3>2. Reads(r)'
      <4>1. CASE run'[r] = Idle
        BY <4>1, EndedReads
      <4>2. CASE run'[r] # Idle
        <5>1. /\ ~replied /\ Due(run[r].last, run[r].fallback) /\ run'[r].step = "facts"
              /\ run'[r].last = run[r].last /\ Kept(r)
          BY <2>4, <4>2, Effects
        <5>2. run[r].last \in DOMAIN sent /\ ~run[r].answered
          BY <2>0, <3>1, <5>1 DEF Reads, Located, Steps
        <5>3. Due(run[r].last, run[r].fallback)'
          BY <3>1, <5>1 DEF Due
        <5>4. QED
          BY <3>1, <5>1, <5>2, <5>3 DEF Reads, Informed
      <4>3. QED
        BY <4>1, <4>2
    <3>3. QED
      BY <2>1, <2>4, <3>1, <3>2 DEF Job
  <2>5. ASSUME NEW r \in Runs, UNCHANGED <<day, replied, sent>>,
               run[r].step \in Located \ {"reply"},
               run'[r].step \in Located \ {"facts", "reply"},
               run'[r].last = run[r].last, Kept(r),
               run'[r].step \in Informed =>
                  /\ run[r].step \in Passed
                  /\ run'[r].cites > sent[run[r].last].known
        PROVE  Reads(r)'
    <3>1. run[r].last \in DOMAIN sent /\ ~run[r].answered
      BY <2>0, <2>5 DEF Reads, Located
    <3>2. run[r].step \in Passed => Due(run[r].last, run[r].fallback)
      BY <2>0 DEF Reads
    <3>3. run'[r].step \in Passed => run'[r].step \in Informed
      BY <2>5 DEF Passed, Informed
    <3>4. Due(run[r].last, run[r].fallback) => Due(run[r].last, run[r].fallback)'
      BY <2>5 DEF Due
    <3>5. run'[r].step \in Passed => Due(run'[r].last, run'[r].fallback)
      BY <2>5, <3>2, <3>3
    <3>6. QED
      BY <2>5, <3>1, <3>2, <3>3, <3>4 DEF Reads, Due
  <2>6. ASSUME NEW r \in Runs, NewFactsSince(r) PROVE CadenceInv'
    <3>1. UNCHANGED <<day, replied, sent, followup, piled>> /\ run[r].step = "facts"
      BY <2>6 DEF NewFactsSince, At
    <3>2. /\ run'[r].last = run[r].last /\ Kept(r)
          /\ run'[r].step \in {"ended", "draft"}
          /\ run'[r].step = "draft" => run'[r].cites > sent[run[r].last].known
      BY <2>6, Effects
    <3>3. Reads(r)'
      BY <2>5, <3>1, <3>2 DEF Located, Passed, Informed, Steps
    <3>4. QED
      BY <2>1, <2>6, <3>1, <3>3 DEF Job
  <2>7. ASSUME NEW r \in Runs, DraftMessage(r) \/ Decide(r) PROVE CadenceInv'
    <3>1. UNCHANGED <<day, replied, sent, followup, piled>> /\ run[r].step \in {"draft", "gate"}
      BY <2>7 DEF DraftMessage, Decide, At
    <3>2. Reads(r)'
      <4>1. CASE run'[r] = Idle
        BY <4>1, EndedReads
      <4>2. CASE run'[r] # Idle
        <5>1. /\ run'[r].step \in {"gate", "approve", "hold", "triage"}
              /\ run'[r].last = run[r].last /\ run'[r].cites = run[r].cites
              /\ Kept(r)
          BY <2>7, <4>2, Effects
        <5>2. run[r].cites > sent[run[r].last].known
          BY <2>0, <3>1 DEF Reads, Informed
        <5>3. QED
          BY <2>5, <3>1, <5>1, <5>2 DEF Located, Passed, Informed, Steps
      <4>3. QED
        BY <4>1, <4>2
    <3>3. QED
      BY <2>1, <2>7, <3>1, <3>2 DEF Job
  <2>8. ASSUME NEW r \in Runs, EndSequence(r) \/ NeedsTriage(r) \/ Crash(r) PROVE CadenceInv'
    <3>1. UNCHANGED <<day, replied, followup, sent, piled>> /\ run'[r] = Idle
      BY <2>8, Effects DEF EndSequence, NeedsTriage, Crash
    <3>2. Reads(r)'
      BY <3>1, EndedReads
    <3>3. QED
      BY <2>1, <2>8, <3>1, <3>2 DEF Job
  <2>9. "pending_review" \in MessageStatus /\ "approved" \in MessageStatus /\ "nobody" \in Deciders
        /\ SystemDecider \in Deciders
    BY DEF MessageStatus, Deciders
  <2>10. ASSUME NEW r \in Runs, HoldForApproval(r) PROVE CadenceInv'
    <3>1. /\ UNCHANGED <<day, replied, sent>> /\ Create(r, "pending_review", "nobody")
          /\ run[r].step = "hold"
      BY <2>10 DEF HoldForApproval, At
    <3>2. Reads(r)'
      BY <2>10, Effects, EndedReads
    <3>3. \A q \in Runs \ {r} : run'[q] = run[q]
      BY <2>10, Effects DEF Job
    <3>4. QED
      BY <2>9, <3>1, <3>2, <3>3, CreateStep
  <2>11. ASSUME NEW r \in Runs, ApproveAutonomously(r) PROVE CadenceInv'
    <3>1. /\ UNCHANGED <<day, replied, sent>> /\ Create(r, "approved", SystemDecider)
          /\ run[r].step = "approve"
      BY <2>11 DEF ApproveAutonomously, At
    <3>2. /\ run'[r].step = "dispatch" /\ run'[r].last = run[r].last
          /\ Kept(r)
      BY <2>11, Effects
    <3>3. Reads(r)'
      BY <2>5, <3>1, <3>2 DEF Located, Informed, Steps
    <3>4. \A q \in Runs \ {r} : run'[q] = run[q]
      BY <2>11, Effects DEF Job
    <3>5. QED
      BY <2>9, <3>1, <3>3, <3>4, CreateStep
  <2>12. ASSUME NEW r \in Runs, DispatchFollowup(r) PROVE CadenceInv'
    <3>1. run[r].row \in DOMAIN followup
      BY <2>12 DEF DispatchFollowup, TypeOK
    <3>2. UNCHANGED <<day, account, news, trigger, piled>> /\ run'[r] = Idle
      BY <2>12, Effects DEF DispatchFollowup
    <3>3. \A q \in Runs : run'[q] = run[q] \/ run'[q] = Idle
      BY <2>12, <3>2, Effects DEF Job
    <3>4. CASE MaySend(run[r].row)
      <4>1. Send(run[r].row)
        BY <2>12, <3>4 DEF DispatchFollowup
      <4>2. QED
        BY <3>1, <3>2, <3>3, <3>4, <4>1, SendStep
    <3>5. CASE ~MaySend(run[r].row)
      <4>1. UNCHANGED <<followup, sent>>
        BY <2>12, <3>5 DEF DispatchFollowup
      <4>2. Reads(r)'
        BY <3>2, EndedReads
      <4>3. QED
        BY <2>1, <2>12, <3>2, <4>1, <4>2 DEF Job
    <3>6. QED
      BY <3>4, <3>5
  <2>13. ASSUME NEW k \in DOMAIN followup, DispatchRow(k) PROVE CadenceInv'
    <3>1. MaySend(k) /\ Send(k) /\ UNCHANGED <<day, account, news, trigger, run, piled>>
      BY <2>13 DEF DispatchRow
    <3>2. QED
      BY <3>1, SendStep
  <2>14. ASSUME NEW k \in DOMAIN followup, Review(k) \/ FlagForHuman(k) PROVE CadenceInv'
    <3>1. /\ UNCHANGED <<day, account, news, trigger, sent, run, piled>>
          /\ followup[k].status \in {"pending_review", "approved"}
      BY <2>14 DEF Review, FlagForHuman
    <3>2. PICK rowStatus \in MessageStatus :
            \/ followup' = [followup EXCEPT ![k].status = rowStatus]
            \/ followup' = [followup EXCEPT ![k].status = rowStatus, ![k].decidedBy = "human"]
      BY <2>14 DEF Review, FlagForHuman, MessageStatus
    <3>3. followup \in Seq(FollowupRow)
      BY DEF TypeOK
    <3>4. DOMAIN followup' = DOMAIN followup /\ followup # <<>>
      BY <3>2, <3>3, Rewritten
    <3>5. ASSUME NEW j \in DOMAIN followup
          PROVE  /\ followup'[j].cites = followup[j].cites
                 /\ followup'[j].fallback = followup[j].fallback
                 /\ j # k => followup'[j].status = followup[j].status
      <4>1. CASE followup' = [followup EXCEPT ![k].status = rowStatus]
        BY <3>3, <4>1, RowAfter
      <4>2. CASE followup' = [followup EXCEPT ![k].status = rowStatus, ![k].decidedBy = "human"]
        BY <3>3, <4>2, RowAfter
      <4>3. QED
        BY <3>2, <4>1, <4>2
    <3>6. k \in Open /\ Open' \subseteq Open
      BY <3>1, <3>4, <3>5 DEF Open
    <3>7. QED
      BY <3>1, <3>4, <3>5, <3>6, DecideStep
  <2>15. ASSUME UNCHANGED <<followup, sent, run, piled>>, day' \in Nat, day' >= day,
                replied => replied'
         PROVE  CadenceInv'
    BY <2>15, QuietStep
  <2>16. CASE NextDay \/ NewFact
    BY <2>0, <2>15, <2>16, Numbers DEF NextDay, NewFact
  <2>17. CASE ReceiveInbound
    BY <2>0, <2>15, <2>17 DEF ReceiveInbound
  <2>18. CASE OpenEscalation \/ ResolveEscalation \/ Promote \/ SwitchAutonomousSending
              \/ UpsertContact \/ UNCHANGED vars
    <3>1. UNCHANGED <<day, replied, followup, sent, run, piled>>
      BY <2>18 DEF OpenEscalation, ResolveEscalation, Promote, SwitchAutonomousSending,
                   UpsertContact, vars
    <3>2. QED
      BY <2>0, <2>15, <3>1
  <2>19. CASE SendOutreach
    <3>1. /\ sent = <<>> /\ UNCHANGED <<day, account, news, trigger, followup, run, piled>>
          /\ sent' = <<[row |-> Outreach, day |-> day, known |-> news]>>
      BY <2>19 DEF SendOutreach
    <3>2. followup = <<>> /\ DOMAIN sent = {}
      BY <3>1 DEF CadenceInv, RowsKnown
    <3>3. Len(sent') = 1 /\ sent' # <<>> /\ Followups' = {} /\ Open' = {}
      BY <3>1, <3>2 DEF Followups, Open
    <3>4. \A r \in Runs : Reads(r)'
      BY <2>0, <3>1, <3>2, StillReads
    <3>5. RowsKnown' /\ NextInLine'
      BY <3>3 DEF RowsKnown, NextInLine
    <3>6. Promises'
      BY <3>3, FollowupAssumption DEF Promises, WithinMaximum, SpacedApart, BringsNews
    <3>7. QED
      BY <3>4, <3>5, <3>6 DEF CadenceInv
  <2>20. QED
    BY <2>2, <2>3, <2>4, <2>6, <2>7, <2>8, <2>10, <2>11, <2>12, <2>13, <2>14, <2>16, <2>17, <2>18,
       <2>19 DEF Next, Job
<1>3. QED
  BY TypeCorrect, <1>1, <1>2, PTL DEF Spec

(***************************************************************************)
(* What the cadence promises.                                              *)
(***************************************************************************)
\* However many runs overlap and whoever sends a held follow-up however late, as long as none was
\* piled on another each follow-up is within the maximum its run read, the configured one or, after
\* a failed read, the default.
THEOREM NeverMoreThanTheMaximum == Spec => []WithinMaximum
<1>1. CadenceInv => WithinMaximum
  BY DEF CadenceInv, Promises
<1>2. QED
  BY CadenceInvariant, <1>1, PTL

\* Under the same condition each is at least the interval its run read after the message before it.
THEOREM NeverTooSoon == Spec => []SpacedApart
<1>1. CadenceInv => SpacedApart
  BY DEF CadenceInv, Promises
<1>2. QED
  BY CadenceInvariant, <1>1, PTL

\* Under the same condition every follow-up cites a fact newer than the message before it.
THEOREM NeverWithoutNews == Spec => []BringsNews
<1>1. CadenceInv => BringsNews
  BY DEF CadenceInv, Promises
<1>2. QED
  BY CadenceInvariant, <1>1, PTL

\* A run that begins after the buyer's reply never writes a follow-up.
THEOREM NothingAfterTheReply == Spec => []ReplyEndsTheCadence
<1>1. CadenceInv => ReplyEndsTheCadence
  BY DEF CadenceInv, Reads, ReplyEndsTheCadence
<1>2. QED
  BY CadenceInvariant, <1>1, PTL
=============================================================================
