--------------------------- MODULE ProcessTrigger ---------------------------
(***************************************************************************)
(* Flow 1: a trigger becomes at most one drafted message.  The console     *)
(* records the trigger and calls the worker once; the worker's handler     *)
(* reads the trigger with its account, asks the model for a draft and,     *)
(* statement by statement, files the draft for review, holds it, or clears *)
(* it and sends it with nobody reading it.                                 *)
(*                                                                         *)
(* The handler keeps the account it read before the model call to the end. *)
(* Around it the tier moves, the kill switch is thrown, escalations open,  *)
(* buyers reply, humans review and the sweep retries; other triggers of    *)
(* the account are processed at the same time.  A dispatch is one step     *)
(* here: its own interleavings are the subject of Dispatch.                *)
(***************************************************************************)
EXTENDS Policy, FiniteSets

CONSTANTS
    Triggers,      \* triggers of the account
    SampleRate,    \* Setting.tier1AuditSampleRate, in percent
    SweepRuns,     \* whether the reconciliation job runs
    Others,        \* bound: the account's Tier 1 messages that no handler here writes
    MaxLosses      \* bound: calls lost and handlers killed in a behaviour

ASSUME ProcessTriggerAssumption ==
    /\ IsFiniteSet(Triggers) /\ IsFiniteSet(Others)
    /\ Triggers \cap Others = {}
    /\ SampleRate \in 0..100
    /\ SweepRuns \in BOOLEAN
    /\ MaxLosses \in Nat

VARIABLES
    tier, enabled, blocked, hasEmail,  \* the account and the kill switch, as they are now
    trigger,     \* the Trigger rows
    message,     \* the message each trigger produced, and the others
    handler,     \* each trigger's handler: its step and what it has read
    sampled,     \* triggers whose message has an AuditSample row
    losses,
    first,       \* history: the message that was the account's first unreviewed send
    preceded,    \* history: when it went out one of Others had been sent
    swept        \* history: messages the sweep sent

account == <<tier, enabled, blocked, hasEmail>>
history == <<first, preceded, swept>>
vars == <<account, trigger, message, handler, sampled, losses, history>>

MessageIds == Triggers \cup Others

TriggerRow == [status: {"absent"} \cup TriggerStatus, compliance: BOOLEAN]

MessageRow ==
    [status: {"absent"} \cup MessageStatus, tierContext: Tiers, decidedBy: Deciders, held: BOOLEAN]
NoMessage == [status |-> "absent", tierContext |-> 2, decidedBy |-> "nobody", held |-> FALSE]

Steps == {"unborn", "called", "draft", "gate", "escalation", "triage", "file", "hold", "approve",
          "count", "dispatch", "sample", "close", "done", "dead"}

\* What a handler works from: the account as its first query found it, and then each answer, for
\* as long as a later step looks at it.
Handler == [step: Steps, tier: Tiers, email: BOOLEAN, confidence: Confidence, open: BOOLEAN,
            prior: Nat]
Fresh(step) == [step |-> step, tier |-> 2, email |-> FALSE, confidence |-> "low", open |-> FALSE,
                prior |-> 0]

Init ==
    /\ tier \in Tiers /\ enabled \in BOOLEAN /\ blocked = FALSE /\ hasEmail \in BOOLEAN
    /\ trigger = [t \in Triggers |-> [status |-> "absent", compliance |-> FALSE]]
    /\ message = [r \in MessageIds |-> NoMessage]
    /\ handler = [t \in Triggers |-> Fresh("unborn")]
    /\ sampled = {} /\ losses = 0
    /\ first = {} /\ preceded = FALSE /\ swept = {}

At(t, step) == handler[t].step = step
GoTo(t, step) == handler' = [handler EXCEPT ![t] = Fresh(step)]

(***************************************************************************)
(* The console: TriggersService.receiveTrigger.                            *)
(***************************************************************************)
\* An account not at Tier 1 leaves at Tier 2: no new account has earned more.
RecordIncomingTrigger(t) ==
    /\ handler[t].step = "unborn"
    /\ \E compliance \in BOOLEAN :
           trigger' = [trigger EXCEPT ![t] = [status |-> "processing", compliance |-> compliance]]
    /\ tier' = IF tier = 1 THEN 1 ELSE 2
    /\ GoTo(t, "called")
    /\ UNCHANGED <<enabled, blocked, hasEmail, message, sampled, losses, history>>

\* The console dies before the call, the worker is down, or the handler's process is killed.
Lose(t) ==
    /\ losses < MaxLosses
    /\ handler[t].step \notin {"unborn", "done", "dead"}
    /\ GoTo(t, "dead")
    /\ losses' = losses + 1
    /\ UNCHANGED <<account, trigger, message, sampled, history>>

(***************************************************************************)
(* The worker's handler.                                                   *)
(***************************************************************************)
Environment == <<account, losses>>

FindTrigger(t) ==
    /\ At(t, "called")
    /\ handler' = [handler EXCEPT ![t] = [Fresh("draft") EXCEPT !.tier = tier, !.email = hasEmail]]
    /\ UNCHANGED <<Environment, trigger, message, sampled, history>>

\* The model abstains or the call fails, or there is a draft with the model's own confidence.
DraftMessage(t) ==
    /\ At(t, "draft")
    /\ \/ GoTo(t, "triage")
       \/ /\ handler[t].tier # 1
          /\ handler' = [handler EXCEPT ![t] = [Fresh("file") EXCEPT !.tier = handler[t].tier]]
       \/ /\ handler[t].tier = 1
          /\ \E confidence \in Confidence :
                handler' = [handler EXCEPT ![t].confidence = confidence, ![t].step = "gate"]
    /\ UNCHANGED <<Environment, trigger, message, sampled, history>>

\* A read that fails counts as paused.
ReadSettings(t) ==
    /\ At(t, "gate")
    /\ \E open \in {enabled, FALSE} :
           handler' = [handler EXCEPT ![t].open = open, ![t].step = "escalation"]
    /\ UNCHANGED <<Environment, trigger, message, sampled, history>>

\* Bug: the gate forgets the deadline rule.
DecideWithoutRule5(t) ==
    /\ At(t, "escalation")
    /\ LET decision == EvaluateAutonomousSend(handler[t].open, blocked, FALSE,
                                              handler[t].confidence, handler[t].email)
       IN  GoTo(t, IF decision = "send" THEN "approve"
                   ELSE IF decision \in HoldReasons THEN "hold" ELSE "triage")
    /\ UNCHANGED <<Environment, trigger, message, sampled, history>>

Decide(t) ==
    /\ At(t, "escalation")
    /\ LET decision == EvaluateAutonomousSend(handler[t].open, blocked, trigger[t].compliance,
                                              handler[t].confidence, handler[t].email)
       IN  GoTo(t, IF decision = "send" THEN "approve"
                   ELSE IF decision \in HoldReasons THEN "hold" ELSE "triage")
    /\ UNCHANGED <<Environment, trigger, message, sampled, history>>

Create(t, status, tierContext, decidedBy, held) ==
    message' = [message EXCEPT ![t] = [status |-> status, tierContext |-> tierContext,
                                       decidedBy |-> decidedBy, held |-> held]]

\* An account below Tier 1: every draft waits for a human.
FileForReview(t) ==
    /\ At(t, "file")
    /\ Create(t, "pending_review", handler[t].tier, "nobody", FALSE)
    /\ GoTo(t, "close")
    /\ UNCHANGED <<Environment, trigger, sampled, history>>

\* Bug: a held draft is approved like any other.
HoldApproved(t) ==
    /\ At(t, "hold")
    /\ Create(t, "approved", 2, SystemDecider, TRUE)
    /\ GoTo(t, "close")
    /\ UNCHANGED <<Environment, trigger, sampled, history>>

HoldForApproval(t) ==
    /\ At(t, "hold")
    /\ Create(t, "pending_review", 2, "nobody", TRUE)
    /\ GoTo(t, "close")
    /\ UNCHANGED <<Environment, trigger, sampled, history>>

ApproveAutonomously(t) ==
    /\ At(t, "approve")
    /\ Create(t, "approved", 1, SystemDecider, FALSE)
    /\ GoTo(t, "count")
    /\ UNCHANGED <<Environment, trigger, sampled, history>>

Sent(t) == message[t].status = "sent"
Unreviewed(t) == Sent(t) /\ message[t].decidedBy = SystemDecider
SentAtTier1 == {r \in MessageIds : message[r].tierContext = 1 /\ Sent(r)}

\* Every row sent at Tier 1 counts: a follow-up, a colleague's reply and a buyer's too.
CountPriorSends(t) ==
    /\ At(t, "count")
    /\ handler' = [handler EXCEPT ![t] =
                     [Fresh("dispatch") EXCEPT !.prior = Cardinality(SentAtTier1)]]
    /\ UNCHANGED <<Environment, trigger, message, sampled, history>>

\* What a dispatch refuses of an approved message, and what it does to one it lets pass.
MaySend(t) == hasEmail /\ ~blocked /\ (message[t].decidedBy = SystemDecider => enabled)

Send(t) ==
    /\ message' = [message EXCEPT ![t].status = "sent"]
    /\ IF message[t].decidedBy = SystemDecider /\ first = {}
       THEN first' = {t} /\ preceded' = \E o \in Others : Sent(o)
       ELSE UNCHANGED <<first, preceded>>

\* A message the sweep sent or flagged meanwhile is not sent again, nor sampled.
Dispatch(t) ==
    /\ At(t, "dispatch")
    /\ IF message[t].status = "approved" /\ MaySend(t)
       THEN Send(t) /\ handler' = [handler EXCEPT ![t].step = "sample"]
       ELSE GoTo(t, "close") /\ UNCHANGED <<message, first, preceded>>
    /\ UNCHANGED <<Environment, trigger, sampled, swept>>

\* Bug: the first send is left to the dice as well.
SampleByRate(t) ==
    /\ At(t, "sample")
    /\ \E roll \in {0, 99} :
           sampled' = IF ShouldSampleSend(SampleRate, FALSE, roll) THEN sampled \cup {t}
                      ELSE sampled
    /\ GoTo(t, "close")
    /\ UNCHANGED <<Environment, trigger, message, history>>

Sample(t) ==
    /\ At(t, "sample")
    /\ \E roll \in {0, 99} :
           sampled' = IF ShouldSampleSend(SampleRate, handler[t].prior = 0, roll)
                      THEN sampled \cup {t} ELSE sampled
    /\ GoTo(t, "close")
    /\ UNCHANGED <<Environment, trigger, message, history>>

End(t, status) ==
    /\ trigger' = [trigger EXCEPT ![t].status = status]
    /\ GoTo(t, "done")
    /\ UNCHANGED <<Environment, message, sampled, history>>

\* Bug: what could not be drafted is filed as drafted.
NeedsTriageAsDrafted(t) == At(t, "triage") /\ End(t, "drafted")

NeedsTriage(t) == At(t, "triage") /\ End(t, "needs_triage")
Drafted(t) == At(t, "close") /\ End(t, "drafted")

Handle(t) ==
    \/ FindTrigger(t) \/ DraftMessage(t) \/ ReadSettings(t) \/ Decide(t)
    \/ FileForReview(t) \/ HoldForApproval(t) \/ ApproveAutonomously(t)
    \/ CountPriorSends(t) \/ Dispatch(t) \/ Sample(t)
    \/ NeedsTriage(t) \/ Drafted(t)

(***************************************************************************)
(* What moves around the handlers.                                         *)
(***************************************************************************)
Rows == <<trigger, handler, sampled, losses>>

\* A promotion, a human's override, or another trigger's tiering.
ChangeTier ==
    /\ \E other \in Tiers \ {tier} : tier' = other
    /\ UNCHANGED <<enabled, blocked, hasEmail, Rows, message, history>>

OpenEscalation ==
    /\ ~blocked /\ blocked' = TRUE /\ tier' = 3
    /\ UNCHANGED <<enabled, hasEmail, Rows, message, history>>

ResolveEscalation ==
    /\ blocked /\ blocked' = FALSE
    /\ UNCHANGED <<tier, enabled, hasEmail, Rows, message, history>>

SwitchAutonomousSending ==
    /\ enabled' = ~enabled
    /\ UNCHANGED <<tier, blocked, hasEmail, Rows, message, history>>

UpsertContact ==
    /\ hasEmail' = ~hasEmail
    /\ UNCHANGED <<tier, enabled, blocked, Rows, message, history>>

\* A message at Tier 1 that no handler here writes.
Store(o, status, decidedBy) ==
    /\ message[o].status = "absent"
    /\ Create(o, status, 1, decidedBy, FALSE)

\* A buyer's reply is stored as sent, at the account's tier.
ReceiveInbound(o) ==
    /\ tier = 1 /\ Store(o, "sent", "nobody")
    /\ UNCHANGED <<account, Rows, history>>

\* A colleague resolves an escalation with a reply, written at the account's tier.
ComposeAndSend(o) ==
    /\ tier = 1 /\ Store(o, "approved", "human")
    /\ blocked /\ blocked' = FALSE
    /\ UNCHANGED <<tier, enabled, hasEmail, Rows, history>>

(***************************************************************************)
(* The daily follow-up job on a trigger it read as drafted, with its       *)
(* outreach sent.  It too works from what it read before its model call:   *)
(* the tier, the switch and the escalations may have changed since.        *)
(***************************************************************************)
FollowsUp(t) == trigger[t].status \notin {"absent", "processing"} /\ Sent(t)

\* Nothing new to say ends the sequence; no address on the account hands the trigger to triage.
EndFollowups(t) ==
    /\ FollowsUp(t)
    /\ \E status \in {"sequence_ended", "needs_triage"} :
           trigger' = [trigger EXCEPT ![t].status = status]
    /\ UNCHANGED <<account, message, handler, sampled, losses, history>>

FollowUp(t, o) ==
    /\ FollowsUp(t) /\ ~trigger[t].compliance
    /\ Store(o, "approved", SystemDecider)
    /\ UNCHANGED <<account, Rows, history>>

\* A human decides a draft: rejected, or approved and then dispatched.
Review(t) ==
    /\ message[t].status = "pending_review"
    /\ \/ message' = [message EXCEPT ![t].status = "rejected", ![t].decidedBy = "human"]
       \/ /\ ~blocked
          /\ message' = [message EXCEPT ![t].status = "approved", ![t].decidedBy = "human"]
    /\ UNCHANGED <<account, Rows, history>>

\* The dispatch after a human's decision, and the follow-up job's own.
DispatchApproved(r) ==
    /\ message[r].status = "approved" /\ MaySend(r)
    /\ r \in Others \/ message[r].decidedBy = "human"
    /\ Send(r)
    /\ UNCHANGED <<account, Rows, swept>>

\* The reconciliation job retries a message left approved once, then flags it.
Reconcile(r) ==
    /\ SweepRuns /\ message[r].status = "approved"
    /\ IF MaySend(r)
       THEN Send(r) /\ swept' = swept \cup {r}
       ELSE message' = [message EXCEPT ![r].status = "needs_triage"] /\ UNCHANGED history
    /\ UNCHANGED <<account, Rows>>

Surroundings ==
    \/ ChangeTier \/ OpenEscalation \/ ResolveEscalation \/ SwitchAutonomousSending
    \/ UpsertContact
    \/ \E o \in Others :
          ReceiveInbound(o) \/ ComposeAndSend(o) \/ \E t \in Triggers : FollowUp(t, o)
    \/ \E t \in Triggers : Review(t) \/ EndFollowups(t)
    \/ \E r \in MessageIds : DispatchApproved(r) \/ Reconcile(r)

Next ==
    \/ Surroundings
    \/ \E t \in Triggers : RecordIncomingTrigger(t) \/ Handle(t) \/ Lose(t)

Spec == Init /\ [][Next]_vars

(***************************************************************************)
(* Properties.                                                             *)
(***************************************************************************)
\* Every variable has the shape the schema and the handler give it, the count of prior sends too.
TypeOK ==
    /\ tier \in Tiers /\ enabled \in BOOLEAN /\ blocked \in BOOLEAN /\ hasEmail \in BOOLEAN
    /\ trigger \in [Triggers -> TriggerRow]
    /\ message \in [MessageIds -> MessageRow]
    /\ handler \in [Triggers -> Handler]
    /\ sampled \subseteq Triggers /\ losses \in Nat
    /\ first \subseteq MessageIds /\ preceded \in BOOLEAN /\ swept \subseteq MessageIds

\* What a trigger says became of it is true: one that says drafted has its message, however its
\* handler ended; of one handed to triage nothing waits unsent, neither a draft to review nor an
\* approval, whether its handler handed it over or a follow-up job did.
TriggerTellsTheOutcome ==
    \A t \in Triggers :
        /\ trigger[t].status = "drafted" => message[t].status # "absent"
        /\ trigger[t].status = "needs_triage" => message[t].status \in {"absent", "sent"}
        /\ trigger[t].status = "sequence_ended" => Sent(t)

\* A vessel's compliance deadline never reaches a buyer unread: whatever else changes while the
\* draft is made, and whichever path sends it, a human decided on it.
DeadlinesAreReviewed == \A t \in Triggers : Unreviewed(t) => ~trigger[t].compliance

\* A held draft waits for a human: neither its handler, nor the sweep, nor a later switch of the
\* settings sends it with the hold still on record and nobody having decided.
HeldIsReviewed ==
    \A t \in Triggers :
        message[t].held /\ message[t].status \in {"approved", "sent"}
            => message[t].decidedBy = "human"

\* The account's first unreviewed send, when it is a trigger's, is sampled whatever the rate, unless
\* the sweep sent it or a follow-up, a colleague's or a buyer's reply at Tier 1 had been sent
\* before: triggers of the account are processed at once, and each counts the others' sends first.
FirstSendIsSampled ==
    ~preceded =>
        \A t \in (first \cap Triggers) \ swept : handler[t].step = "done" => t \in sampled
=============================================================================
