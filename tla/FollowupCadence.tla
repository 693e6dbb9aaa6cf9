-------------------------- MODULE FollowupCadence --------------------------
(***************************************************************************)
(* The follow-up cadence of one trigger: the daily job that writes to a    *)
(* Tier 1 buyer again when there is news, at most MaxFollowups times and   *)
(* at least MinDays apart.                                                 *)
(*                                                                         *)
(* A run takes its settings, the tier, the contacts and the messages sent  *)
(* so far from queries at its start, and works from them through a model   *)
(* call for every trigger of every account.  Meanwhile days pass, news and *)
(* replies come in, humans review what earlier runs held, and another run  *)
(* may be under way.                                                       *)
(***************************************************************************)
EXTENDS Policy, Sequences

CONSTANTS
    Runs,          \* runs of the job that may be in progress at the same time
    MaxFollowups,  \* Setting.maxFollowups
    MinDays,       \* Setting.minDaysBetweenFollowups
    DefaultMax,    \* the maximum of a run that could not read the settings (2 in the code)
    DefaultDays,   \* its interval (5 in the code)
    LastDay,       \* bound: the last day of a behaviour
    MaxRows        \* bound: follow-ups written in a behaviour

ASSUME FollowupAssumption ==
    /\ MaxFollowups \in Nat /\ MinDays \in Nat /\ DefaultMax \in Nat /\ DefaultDays \in Nat
    /\ LastDay \in Nat /\ MaxRows \in Nat

VARIABLES
    day,
    tier, enabled, blocked, hasEmail,  \* the account and the kill switch, as they are now
    replied,       \* whether the account has a buyer_inbound message
    news,          \* how many facts newFactsSince could ever find, in the order they came
    deadline,      \* Trigger.hasComplianceDeadlineContent
    status,        \* Trigger.status
    followup,      \* the follow-up rows of the trigger, in the order they were written
    sent,          \* the trigger's sent messages by sentAt, the outreach first
    run,           \* each run of the job: its step and what it has read
    piled          \* history: a follow-up was written beside another, or from a stale reading

account == <<tier, enabled, blocked, hasEmail, replied>>
trigger == <<deadline, status>>
vars == <<day, account, news, trigger, followup, sent, run, piled>>

\* `fallback` is a history field: the run that wrote the row could not read the settings.
FollowupRow ==
    [status: MessageStatus, decidedBy: Deciders, cites: Nat, fallback: BOOLEAN]
Outreach == 0    \* the row number of the message the follow-ups follow
SentRow == [row: Nat, day: Nat, known: Nat]

Steps == {"idle", "candidates", "reply", "facts", "ended", "draft", "gate", "triage", "hold",
          "approve", "dispatch"}

\* What a run works from: sent messages, email and settings at its start, then its answers.
Run == [step: Steps, open: BOOLEAN, fallback: BOOLEAN, email: BOOLEAN, last: Nat, cites: Nat,
        confidence: Confidence, row: Nat, answered: BOOLEAN]
Idle == [step |-> "idle", open |-> FALSE, fallback |-> FALSE, email |-> FALSE, last |-> 0,
         cites |-> 0, confidence |-> "low", row |-> 0, answered |-> FALSE]

Init ==
    /\ day = 0
    /\ tier = 1 /\ enabled = TRUE /\ blocked = FALSE /\ hasEmail = TRUE /\ replied = FALSE
    /\ news = 0
    /\ deadline \in BOOLEAN /\ status = "drafted"
    /\ followup = <<>> /\ sent = <<>>
    /\ run = [r \in Runs |-> Idle]
    /\ piled = FALSE

At(r, step) == run[r].step = step
GoTo(r, step) == run' = [run EXCEPT ![r].step = step]
Stop(r) == run' = [run EXCEPT ![r] = Idle]
Surroundings == <<day, account, news>>

(***************************************************************************)
(* The job, statement by statement.                                        *)
(***************************************************************************)
\* Settings that cannot be read count as paused, and leave the run with the default limits.
ReadSettings(r) ==
    /\ At(r, "idle")
    /\ \E failed \in BOOLEAN :
           run' = [run EXCEPT ![r].step = "candidates", ![r].open = enabled /\ ~failed,
                              ![r].fallback = failed, ![r].answered = replied]
    /\ UNCHANGED <<Surroundings, trigger, followup, sent, piled>>

FindCandidates(r) ==
    /\ At(r, "candidates")
    /\ IF status = "drafted" /\ tier = 1 /\ sent # <<>>
       THEN run' = [run EXCEPT ![r].step = "reply", ![r].last = Len(sent), ![r].email = hasEmail]
       ELSE Stop(r)
    /\ UNCHANGED <<Surroundings, trigger, followup, sent, piled>>

Maximum(fallback) == IF fallback THEN DefaultMax ELSE MaxFollowups
Interval(fallback) == IF fallback THEN DefaultDays ELSE MinDays

\* Bug: the maximum counts the outreach out.
DueOnceMore(n, fallback) ==
    n - 1 <= Maximum(fallback) /\ day - sent[n].day >= Interval(fallback)

\* Bug: the interval is not looked at.
DueAnyDay(n, fallback) == n - 1 < Maximum(fallback)

\* Two of the gates that need no news, after n messages: the maximum and the interval.
Due(n, fallback) == n - 1 < Maximum(fallback) /\ day - sent[n].day >= Interval(fallback)

\* Bug: the buyer's reply is not looked for.
CheckDueOnly(r) ==
    /\ At(r, "reply")
    /\ IF Due(run[r].last, run[r].fallback) THEN GoTo(r, "facts") ELSE Stop(r)
    /\ UNCHANGED <<Surroundings, trigger, followup, sent, piled>>

CheckReply(r) ==
    /\ At(r, "reply")
    /\ IF ~replied /\ Due(run[r].last, run[r].fallback) THEN GoTo(r, "facts") ELSE Stop(r)
    /\ UNCHANGED <<Surroundings, trigger, followup, sent, piled>>

\* Bug: every fact is news.
LocateAnyFacts(r) ==
    /\ At(r, "facts")
    /\ run' = [run EXCEPT ![r].cites = news, ![r].step = IF news > 0 THEN "draft" ELSE "ended"]
    /\ UNCHANGED <<Surroundings, trigger, followup, sent, piled>>

\* The facts later than the last sent message, as the run read it.
NewFactsSince(r) ==
    /\ At(r, "facts")
    /\ run' = [run EXCEPT ![r].cites = news,
                          ![r].step = IF news > sent[run[r].last].known THEN "draft" ELSE "ended"]
    /\ UNCHANGED <<Surroundings, trigger, followup, sent, piled>>

EndSequence(r) ==
    /\ At(r, "ended")
    /\ status' = "sequence_ended"
    /\ Stop(r)
    /\ UNCHANGED <<Surroundings, deadline, followup, sent, piled>>

\* No draft leaves everything as it was, for the next run.
DraftMessage(r) ==
    /\ At(r, "draft")
    /\ \/ Stop(r)
       \/ \E confidence \in Confidence :
             run' = [run EXCEPT ![r].step = "gate", ![r].confidence = confidence]
    /\ UNCHANGED <<Surroundings, trigger, followup, sent, piled>>

Decide(r) ==
    /\ At(r, "gate")
    /\ LET decision == EvaluateAutonomousSend(run[r].open, blocked, deadline,
                                              run[r].confidence, run[r].email)
       IN  run' = [run EXCEPT ![r].open = FALSE, ![r].email = FALSE, ![r].confidence = "low",
                              ![r].step = IF decision = "send" THEN "approve"
                                          ELSE IF decision \in HoldReasons THEN "hold" ELSE "triage"]
    /\ UNCHANGED <<Surroundings, trigger, followup, sent, piled>>

NeedsTriage(r) ==
    /\ At(r, "triage")
    /\ status' = "needs_triage"
    /\ Stop(r)
    /\ UNCHANGED <<Surroundings, deadline, followup, sent, piled>>

Open == {k \in DOMAIN followup : followup[k].status \in {"pending_review", "approved"}}

Create(r, rowStatus, decider) ==
    /\ Len(followup) < MaxRows
    /\ followup' = Append(followup, [status |-> rowStatus, decidedBy |-> decider,
                                     cites |-> run[r].cites, fallback |-> run[r].fallback])
    /\ piled' = (piled \/ Open # {} \/ run[r].last # Len(sent))

HoldForApproval(r) ==
    /\ At(r, "hold")
    /\ Create(r, "pending_review", "nobody")
    /\ Stop(r)
    /\ UNCHANGED <<Surroundings, trigger, sent>>

\* Bug: the row is named before it is written.
ApproveBeforeWriting(r) ==
    /\ At(r, "approve")
    /\ Create(r, "approved", SystemDecider)
    /\ run' = [run EXCEPT ![r].step = "dispatch", ![r].row = Len(followup)]
    /\ UNCHANGED <<Surroundings, trigger, sent>>

ApproveAutonomously(r) ==
    /\ At(r, "approve")
    /\ Create(r, "approved", SystemDecider)
    /\ run' = [run EXCEPT ![r].step = "dispatch", ![r].row = Len(followup')]
    /\ UNCHANGED <<Surroundings, trigger, sent>>

(***************************************************************************)
(* The dispatch of one row, in one step: see Dispatch.                     *)
(***************************************************************************)
MaySend(k) ==
    /\ followup[k].status = "approved"
    /\ hasEmail /\ ~blocked /\ (followup[k].decidedBy = SystemDecider => enabled)

Send(k) ==
    /\ followup' = [followup EXCEPT ![k].status = "sent"]
    /\ sent' = Append(sent, [row |-> k, day |-> day, known |-> news])

DispatchFollowup(r) ==
    /\ At(r, "dispatch")
    /\ IF MaySend(run[r].row) THEN Send(run[r].row) ELSE UNCHANGED <<followup, sent>>
    /\ Stop(r)
    /\ UNCHANGED <<Surroundings, trigger, piled>>

\* The run is killed, or throws: nothing after its last query happens.
Crash(r) ==
    /\ ~At(r, "idle")
    /\ Stop(r)
    /\ UNCHANGED <<day, account, news, trigger, followup, sent, piled>>

Job(r) ==
    \/ ReadSettings(r) \/ FindCandidates(r) \/ CheckReply(r) \/ NewFactsSince(r)
    \/ EndSequence(r) \/ DraftMessage(r) \/ Decide(r) \/ NeedsTriage(r)
    \/ HoldForApproval(r) \/ ApproveAutonomously(r) \/ DispatchFollowup(r) \/ Crash(r)

(***************************************************************************)
(* What moves around the job.                                              *)
(***************************************************************************)
Rows == <<trigger, followup, sent, run, piled>>

\* Days are counted from the outreach.
NextDay ==
    /\ day < LastDay /\ sent # <<>> /\ day' = day + 1
    /\ UNCHANGED <<account, news, Rows>>

\* The outreach itself goes out, dispatched by the request or the handler that approved it.
SendOutreach ==
    /\ sent = <<>> /\ hasEmail /\ ~blocked
    /\ sent' = <<[row |-> Outreach, day |-> day, known |-> news]>>
    /\ UNCHANGED <<day, account, news, trigger, followup, run, piled>>

\* Another trigger, a vessel's particulars or the relationship summary.
NewFact ==
    /\ news <= MaxFollowups /\ news' = news + 1
    /\ UNCHANGED <<day, account, Rows>>

ReceiveInbound ==
    /\ ~replied /\ sent # <<>> /\ replied' = TRUE
    /\ UNCHANGED <<day, tier, enabled, blocked, hasEmail, news, Rows>>

OpenEscalation ==
    /\ ~blocked /\ blocked' = TRUE /\ tier' = 3
    /\ UNCHANGED <<day, enabled, hasEmail, replied, news, Rows>>

ResolveEscalation ==
    /\ blocked /\ blocked' = FALSE
    /\ UNCHANGED <<day, tier, enabled, hasEmail, replied, news, Rows>>

\* An escalated account earns its way back to Tier 1.
Promote ==
    /\ tier # 1 /\ tier' = 1
    /\ UNCHANGED <<day, enabled, blocked, hasEmail, replied, news, Rows>>

SwitchAutonomousSending ==
    /\ enabled' = ~enabled
    /\ UNCHANGED <<day, tier, blocked, hasEmail, replied, news, Rows>>

UpsertContact ==
    /\ hasEmail' = ~hasEmail
    /\ UNCHANGED <<day, tier, enabled, blocked, replied, news, Rows>>

Review(k) ==
    /\ followup[k].status = "pending_review"
    /\ \/ followup' = [followup EXCEPT ![k].status = "rejected", ![k].decidedBy = "human"]
       \/ /\ ~blocked
          /\ followup' = [followup EXCEPT ![k].status = "approved", ![k].decidedBy = "human"]
    /\ UNCHANGED <<day, account, news, trigger, sent, run, piled>>

\* A console request dispatches what a human approved; the sweep, whatever is left approved.
DispatchRow(k) ==
    /\ MaySend(k)
    /\ Send(k)
    /\ UNCHANGED <<day, account, news, trigger, run, piled>>

FlagForHuman(k) ==
    /\ followup[k].status = "approved" /\ ~MaySend(k)
    /\ followup' = [followup EXCEPT ![k].status = "needs_triage"]
    /\ UNCHANGED <<day, account, news, trigger, sent, run, piled>>

Next ==
    \/ \E r \in Runs : Job(r)
    \/ NextDay \/ SendOutreach \/ NewFact \/ ReceiveInbound
    \/ OpenEscalation \/ ResolveEscalation \/ Promote
    \/ SwitchAutonomousSending \/ UpsertContact
    \/ \E k \in DOMAIN followup : Review(k) \/ DispatchRow(k) \/ FlagForHuman(k)

Spec == Init /\ [][Next]_vars

(***************************************************************************)
(* Properties.                                                             *)
(***************************************************************************)
\* Every variable has its shape, and a run that dispatches has a follow-up to dispatch.
TypeOK ==
    /\ day \in Nat /\ tier \in Tiers /\ news \in Nat
    /\ enabled \in BOOLEAN /\ blocked \in BOOLEAN /\ hasEmail \in BOOLEAN /\ replied \in BOOLEAN
    /\ deadline \in BOOLEAN /\ piled \in BOOLEAN
    /\ status \in {"drafted", "sequence_ended", "needs_triage"}
    /\ followup \in Seq(FollowupRow) /\ sent \in Seq(SentRow)
    /\ run \in [Runs -> Run]
    /\ \A r \in Runs : At(r, "dispatch") => run[r].row \in DOMAIN followup

Followups == {n \in DOMAIN sent : n > 1}

\* As long as no follow-up is written while an earlier one is undecided or unsent, each that goes
\* out, whoever approves it and however long it waits for that, is within the maximum of the run
\* that wrote it: the configured one, or the default if the settings could not be read.
WithinMaximum ==
    ~piled => \A n \in Followups : n - 1 <= Maximum(followup[sent[n].row].fallback)

\* Under the same condition no message of a sequence follows another closer than that run's interval.
SpacedApart ==
    ~piled => \A n \in Followups :
                 sent[n].day - sent[n - 1].day >= Interval(followup[sent[n].row].fallback)

\* Under the same condition each follow-up that goes out cites a fact that no message before it
\* could have known: never a bare "just checking in".
BringsNews == ~piled => \A n \in Followups : followup[sent[n].row].cites > sent[n - 1].known

\* A run that begins after the buyer's reply writes no follow-up, whatever else it reads stale.
ReplyEndsTheCadence ==
    \A r \in Runs : run[r].answered => run[r].step \notin {"hold", "approve", "dispatch"}
=============================================================================
