------------------------------ MODULE Dispatch ------------------------------
(***************************************************************************)
(* One account's outbound messages: the console's review decisions, the    *)
(* dispatch of what was approved, the sweep that retries what got stuck,   *)
(* and the Clean Approval a send earns.                                    *)
(*                                                                         *)
(* Nothing here is serialized.  A console request checks a row and then    *)
(* updates it by id; a dispatch reads the row, the settings and the        *)
(* escalations in separate queries, renders the mail, and only then        *)
(* records the send.  Each database statement, or transaction, is a step,  *)
(* so requests, dispatches and sweeps interleave between any two of them.  *)
(* What these steps do to the account row is the subject of AccountTier.   *)
(***************************************************************************)
EXTENDS Schema, FiniteSets

CONSTANTS
    Messages,        \* Message rows of the account
    Routes,          \* concurrent runs of /internal/dispatch-message
    Sweepers,        \* concurrent runs of the reconciliation job
    Operators,       \* concurrent console requests
    Revisions,       \* bodies a human may put in place of the first
    MaxEscalations,  \* bound: escalations opened in a behaviour
    MaxCrashes       \* bound: handlers killed in a behaviour

Workers == Routes \cup Sweepers

DraftText == "draft text"    \* the body the agent drafted
ReplyText == "reply text"    \* the body a human composed
Bodies == {DraftText, ReplyText} \cup Revisions
NoBody == "no body"
NoMessage == "no message"

ASSUME DispatchAssumption ==
    /\ Routes \cap Sweepers = {}
    /\ DraftText \notin Revisions /\ ReplyText \notin Revisions /\ NoBody \notin Revisions
    /\ NoMessage \notin Messages
    /\ MaxEscalations \in Nat
    /\ MaxCrashes \in Nat

VARIABLES
    msg,          \* the Message rows
    hasEmail,     \* whether any contact of the account has an email
    enabled,      \* Setting.autonomousSendingEnabled
    active,       \* how many active, send-blocking escalations there are
    opened,       \* how many escalations were ever opened
    calls,        \* dispatch calls on their way to the worker, per message
    pc, job, seen,  \* each worker: next step, message, the row as it read it
    todo,         \* each sweeper: stuck messages it still has to retry
    opPc, opMsg, keep,  \* each console request: next step, message, originalBody to write
    crashes,
    rendered,     \* mails that left, per message
    counted,      \* clean_approval events, per message
    window        \* history: what each worker's current dispatch could have observed

requestVars == <<opPc, opMsg, keep>>
workerVars == <<pc, job, seen, todo, window>>
policyVars == <<hasEmail, enabled, active, opened>>
outcomeVars == <<rendered, counted>>
vars == <<msg, calls, crashes, requestVars, workerVars, policyVars, outcomeVars>>

(***************************************************************************)
(* A row keeps of its timestamps what the code compares: whether decidedAt *)
(* is older than the sweep's cutoff (due), and whether an escalation was   *)
(* created at or after createdAt (signal).  sentAt is whether it is set.   *)
(***************************************************************************)
Row == [role: MessageRole, status: MessageStatus \cup {"absent"}, tierContext: Tiers,
        decidedBy: Deciders, edited: BOOLEAN, body: Bodies, originalBody: Bodies \cup {NoBody},
        sentAt: BOOLEAN, due: BOOLEAN, signal: BOOLEAN]

NewRow(role, status, tierContext, decidedBy) ==
    [role |-> role, status |-> status, tierContext |-> tierContext, decidedBy |-> decidedBy,
     body |-> IF role = "human_reply" THEN ReplyText ELSE DraftText,
     originalBody |-> NoBody, edited |-> FALSE,
     sentAt |-> FALSE, due |-> FALSE, signal |-> FALSE]

Absent == NewRow("agent_draft", "absent", 2, "nobody")

\* What a dispatch keeps of the row it read: never read again before the send.
Snapshot == [role: MessageRole, decidedBy: Deciders, email: BOOLEAN]
NoSnapshot == [role |-> "agent_draft", decidedBy |-> "nobody", email |-> FALSE]

NoWindow == [enabled |-> FALSE, clear |-> FALSE]

Exists(m) == msg[m].status # "absent"
Blocked == active > 0

Init ==
    /\ msg = [m \in Messages |-> Absent]
    /\ hasEmail \in BOOLEAN /\ enabled \in BOOLEAN
    /\ active = 0 /\ opened = 0
    /\ calls = [m \in Messages |-> 0]
    /\ pc = [w \in Workers |-> "idle"]
    /\ job = [w \in Workers |-> NoMessage]
    /\ seen = [w \in Workers |-> NoSnapshot]
    /\ todo = [s \in Sweepers |-> {}]
    /\ opPc = [u \in Operators |-> "idle"]
    /\ opMsg = [u \in Operators |-> NoMessage]
    /\ keep = [u \in Operators |-> NoBody]
    /\ crashes = 0
    /\ rendered = [m \in Messages |-> 0] /\ counted = [m \in Messages |-> 0]
    /\ window = [w \in Workers |-> NoWindow]

(***************************************************************************)
(* Rows arrive: the worker drafts for review or approves its own draft,    *)
(* and a human resolving an escalation writes a reply.  The tier a drafting *)
(* handler acts on was read before its model call, so it is not tied to    *)
(* the account's tier now.                                                 *)
(***************************************************************************)
DraftForReview(m) ==
    /\ ~Exists(m)
    /\ \E tierContext \in {2, 3} :
           msg' = [msg EXCEPT ![m] = NewRow("agent_draft", "pending_review", tierContext, "nobody")]
    /\ UNCHANGED <<calls, crashes, requestVars, workerVars, policyVars, outcomeVars>>

DraftAutonomously(m) ==
    /\ ~Exists(m)
    /\ msg' = [msg EXCEPT ![m] = NewRow("agent_draft", "approved", 1, SystemDecider)]
    /\ calls' = [calls EXCEPT ![m] = @ + 1]
    /\ UNCHANGED <<crashes, requestVars, workerVars, policyVars, outcomeVars>>

\* One active escalation fewer; once none is left a dispatch may find the account clear.
CloseEscalation ==
    /\ active > 0
    /\ active' = active - 1
    /\ window' = [w \in Workers |->
                     [enabled |-> window[w].enabled,
                      clear |-> window[w].clear \/ (pc[w] # "idle" /\ active = 1)]]

MarkResolved ==
    /\ CloseEscalation
    /\ UNCHANGED <<msg, calls, crashes, requestVars, pc, job, seen, todo, hasEmail, enabled,
                   opened, outcomeVars>>

ComposeAndSend(m) ==
    /\ ~Exists(m)
    /\ CloseEscalation
    /\ \E tierContext \in Tiers :
           msg' = [msg EXCEPT ![m] = NewRow("human_reply", "approved", tierContext, "human")]
    /\ calls' = [calls EXCEPT ![m] = @ + 1]
    /\ UNCHANGED <<crashes, requestVars, pc, job, seen, todo, hasEmail, enabled,
                   opened, outcomeVars>>

(***************************************************************************)
(* The rest of the system, as dispatch observes it.                        *)
(***************************************************************************)
OpenEscalation ==
    /\ opened < MaxEscalations
    /\ opened' = opened + 1
    /\ active' = active + 1
    /\ msg' = [m \in Messages |-> [msg[m] EXCEPT !.signal = Exists(m)]]
    /\ UNCHANGED <<calls, crashes, requestVars, workerVars, hasEmail, enabled, outcomeVars>>

PauseAutonomous ==
    /\ enabled
    /\ enabled' = FALSE
    /\ UNCHANGED <<msg, calls, crashes, requestVars, workerVars, hasEmail, active,
                   opened, outcomeVars>>

ResumeAutonomous ==
    /\ ~enabled
    /\ enabled' = TRUE
    /\ window' = [w \in Workers |-> [enabled |-> pc[w] # "idle", clear |-> window[w].clear]]
    /\ UNCHANGED <<msg, calls, crashes, requestVars, pc, job, seen, todo, hasEmail,
                   active, opened, outcomeVars>>

\* A trigger's contact may add an email, or overwrite the only one with null.
UpsertContact ==
    /\ hasEmail' = ~hasEmail
    /\ UNCHANGED <<msg, calls, crashes, requestVars, workerVars, enabled, active,
                   opened, outcomeVars>>

\* Time passes: a decision is now older than the sweep's cutoff.
DecisionAges(m) ==
    /\ msg[m].status = "approved" /\ ~msg[m].due
    /\ msg' = [msg EXCEPT ![m].due = TRUE]
    /\ UNCHANGED <<calls, crashes, requestVars, workerVars, policyVars, outcomeVars>>

(***************************************************************************)
(* Console requests: check the row, then update it by id.                  *)
(***************************************************************************)
\* Bug: the status check is missing.
BeginAnyStatus(u, m, step, original) ==
    /\ opPc[u] = "idle" /\ Exists(m)
    /\ opPc' = [opPc EXCEPT ![u] = step]
    /\ opMsg' = [opMsg EXCEPT ![u] = m]
    /\ keep' = [keep EXCEPT ![u] = original]
    /\ UNCHANGED <<msg, calls, crashes, workerVars, policyVars, outcomeVars>>

Begin(u, m, step, original) ==
    /\ opPc[u] = "idle"
    /\ msg[m].status = "pending_review"
    /\ opPc' = [opPc EXCEPT ![u] = step]
    /\ opMsg' = [opMsg EXCEPT ![u] = m]
    /\ keep' = [keep EXCEPT ![u] = original]
    /\ UNCHANGED <<msg, calls, crashes, workerVars, policyVars, outcomeVars>>

\* Bug: the second edit keeps the first revision as the original.
BeginEditOfCurrentBody(u, m) == Begin(u, m, "edit", msg[m].body)

BeginEdit(u, m) ==
    Begin(u, m, "edit", IF msg[m].originalBody # NoBody THEN msg[m].originalBody ELSE msg[m].body)
BeginReject(u, m) == Begin(u, m, "reject", NoBody)
BeginApprove(u, m) == Begin(u, m, "gate", NoBody)

EndRequest(u) ==
    /\ opPc' = [opPc EXCEPT ![u] = "idle"]
    /\ opMsg' = [opMsg EXCEPT ![u] = NoMessage]
    /\ keep' = [keep EXCEPT ![u] = NoBody]

EditDraft(u) ==
    /\ opPc[u] = "edit"
    /\ \E body \in Revisions :
           msg' = [msg EXCEPT ![opMsg[u]] =
                       [@ EXCEPT !.body = body, !.originalBody = keep[u], !.edited = TRUE]]
    /\ EndRequest(u)
    /\ UNCHANGED <<calls, crashes, workerVars, policyVars, outcomeVars>>

\* Bug: the decider is not recorded.
DecideAnonymously(m, status) ==
    msg' = [msg EXCEPT ![m] = [@ EXCEPT !.status = status, !.due = FALSE]]

\* The decision overwrites whatever the row holds by now; decidedAt is fresh again.
Decide(m, status) ==
    msg' = [msg EXCEPT ![m] = [@ EXCEPT !.status = status, !.decidedBy = "human", !.due = FALSE]]

RejectDraft(u) ==
    /\ opPc[u] = "reject"
    /\ Decide(opMsg[u], "rejected")
    /\ EndRequest(u)
    /\ UNCHANGED <<calls, crashes, workerVars, policyVars, outcomeVars>>

RequireAgentSendAllowed(u) ==
    /\ opPc[u] = "gate"
    /\ \/ /\ ~Blocked
          /\ opPc' = [opPc EXCEPT ![u] = "approve"]
          /\ UNCHANGED <<opMsg, keep>>
       \/ Blocked /\ EndRequest(u)
    /\ UNCHANGED <<msg, calls, crashes, workerVars, policyVars, outcomeVars>>

\* The dispatch call is fired and not awaited.
ApproveDraft(u) ==
    /\ opPc[u] = "approve"
    /\ Decide(opMsg[u], "approved")
    /\ calls' = [calls EXCEPT ![opMsg[u]] = @ + 1]
    /\ EndRequest(u)
    /\ UNCHANGED <<crashes, workerVars, policyVars, outcomeVars>>

ConsoleStep(u) ==
    \/ \E m \in Messages : BeginEdit(u, m) \/ BeginReject(u, m) \/ BeginApprove(u, m)
    \/ EditDraft(u) \/ RejectDraft(u) \/ RequireAgentSendAllowed(u) \/ ApproveDraft(u)

(***************************************************************************)
(* dispatchMessage, one step per database statement.  A route's run ends   *)
(* with its answer; a sweeper's run that neither sent the message nor      *)
(* found it sent goes on to flag it.                                       *)
(***************************************************************************)
Start(w, m) ==
    /\ pc[w] = "idle"
    /\ pc' = [pc EXCEPT ![w] = "read"]
    /\ job' = [job EXCEPT ![w] = m]
    /\ window' = [window EXCEPT ![w] = [enabled |-> enabled, clear |-> ~Blocked]]

\* The call reaches the worker ...
ReceiveCall(r, m) ==
    /\ calls[m] > 0
    /\ calls' = [calls EXCEPT ![m] = @ - 1]
    /\ Start(r, m)
    /\ UNCHANGED <<msg, crashes, requestVars, seen, todo, policyVars, outcomeVars>>

\* ... or does not: the caller only logs the failure.
LoseCall(m) ==
    /\ calls[m] > 0
    /\ calls' = [calls EXCEPT ![m] = @ - 1]
    /\ UNCHANGED <<msg, crashes, requestVars, workerVars, policyVars, outcomeVars>>

GoTo(w, step) ==
    /\ pc' = [pc EXCEPT ![w] = step]
    /\ UNCHANGED <<job, window>>

Finish(w) ==
    /\ pc' = [pc EXCEPT ![w] = "idle"]
    /\ job' = [job EXCEPT ![w] = NoMessage]
    /\ window' = [window EXCEPT ![w] = NoWindow]

\* Bug: the sweep drops what it could not send.
RefuseUnflagged(w) == Finish(w)

Refuse(w) == IF w \in Sweepers THEN GoTo(w, "flag") ELSE Finish(w)

Forget(w) == seen' = [seen EXCEPT ![w] = NoSnapshot]

ReadMessage(w) ==
    /\ pc[w] = "read"
    /\ LET row == msg[job[w]] IN
       \/ /\ row.status = "sent"
          /\ Finish(w) /\ UNCHANGED seen
       \/ /\ row.status \notin {"sent", "approved"}
          /\ Refuse(w) /\ UNCHANGED seen
       \/ /\ row.status = "approved"
          /\ seen' = [seen EXCEPT ![w] = [role |-> row.role, decidedBy |-> row.decidedBy,
                                         email |-> hasEmail]]
          /\ GoTo(w, IF row.decidedBy = SystemDecider THEN "settings" ELSE "escalation")
    /\ UNCHANGED <<msg, calls, crashes, requestVars, todo, policyVars, outcomeVars>>

\* Bug: the switch is checked when drafting only.
CheckNoSettings(w) ==
    /\ pc[w] = "settings"
    /\ GoTo(w, "escalation") /\ UNCHANGED seen
    /\ UNCHANGED <<msg, calls, crashes, requestVars, todo, policyVars, outcomeVars>>

\* Paused, or the settings could not be read: both refuse.
CheckSettings(w) ==
    /\ pc[w] = "settings"
    /\ \/ enabled /\ GoTo(w, "escalation") /\ UNCHANGED seen
       \/ Refuse(w) /\ Forget(w)
    /\ UNCHANGED <<msg, calls, crashes, requestVars, todo, policyVars, outcomeVars>>

\* Bug: escalations are checked at approval only.
CheckAddressOnly(w) ==
    /\ pc[w] = "escalation" /\ seen[w].email
    /\ rendered' = [rendered EXCEPT ![job[w]] = @ + 1]
    /\ GoTo(w, "record") /\ UNCHANGED seen
    /\ UNCHANGED <<msg, calls, crashes, requestVars, todo, policyVars, counted>>

\* With nothing blocking and an address in the snapshot the mail is rendered at once.
CheckEscalation(w) ==
    /\ pc[w] = "escalation"
    /\ \/ /\ Blocked \/ ~seen[w].email
          /\ Refuse(w) /\ Forget(w) /\ UNCHANGED rendered
       \/ /\ ~Blocked /\ seen[w].email
          /\ rendered' = [rendered EXCEPT ![job[w]] = @ + 1]
          /\ GoTo(w, "record") /\ UNCHANGED seen
    /\ UNCHANGED <<msg, calls, crashes, requestVars, todo, policyVars, counted>>

\* Bug: every send is recorded as the agent's.
RecordAgentSent(w) ==
    /\ pc[w] = "record"
    /\ msg' = [msg EXCEPT ![job[w]] =
                  [@ EXCEPT !.status = "sent", !.sentAt = TRUE, !.role = "agent_sent"]]
    /\ GoTo(w, "clean") /\ Forget(w)
    /\ UNCHANGED <<calls, crashes, requestVars, todo, policyVars, outcomeVars>>

RecordSent(w) ==
    /\ pc[w] = "record"
    /\ msg' = [msg EXCEPT ![job[w]] =
                  [@ EXCEPT !.status = "sent", !.sentAt = TRUE,
                            !.role = IF seen[w].role = "agent_draft" THEN "agent_sent"
                                     ELSE seen[w].role]]
    /\ GoTo(w, "clean") /\ Forget(w)
    /\ UNCHANGED <<calls, crashes, requestVars, todo, policyVars, outcomeVars>>

(***************************************************************************)
(* recordCleanApproval, read committed: the message, then the escalations, *)
(* then the increment and its clean_approval event.                        *)
(***************************************************************************)
\* Bug: a message that was never a Tier 2 draft counts as well.
ReadEditedOnly(w) ==
    /\ pc[w] = "clean"
    /\ IF ~msg[job[w]].edited THEN GoTo(w, "signal") ELSE Finish(w)
    /\ UNCHANGED <<msg, calls, crashes, requestVars, seen, todo, policyVars, outcomeVars>>

ReadForCleanApproval(w) ==
    /\ pc[w] = "clean"
    /\ IF msg[job[w]].tierContext = 2 /\ ~msg[job[w]].edited
       THEN GoTo(w, "signal") ELSE Finish(w)
    /\ UNCHANGED <<msg, calls, crashes, requestVars, seen, todo, policyVars, outcomeVars>>

CheckNegativeSignal(w) ==
    /\ pc[w] = "signal"
    /\ IF msg[job[w]].signal THEN Finish(w) ELSE GoTo(w, "count")
    /\ UNCHANGED <<msg, calls, crashes, requestVars, seen, todo, policyVars, outcomeVars>>

CountCleanApproval(w) ==
    /\ pc[w] = "count"
    /\ counted' = [counted EXCEPT ![job[w]] = @ + 1]
    /\ Finish(w)
    /\ UNCHANGED <<msg, calls, crashes, requestVars, seen, todo, policyVars,
                   rendered>>

(***************************************************************************)
(* The reconciliation job: list what is stuck, then retry one by one.      *)
(***************************************************************************)
Stuck == {m \in Messages : msg[m].status = "approved" /\ ~msg[m].sentAt /\ msg[m].due}

StartSweep(s) ==
    /\ pc[s] = "idle" /\ todo[s] = {} /\ Stuck # {}
    /\ todo' = [todo EXCEPT ![s] = Stuck]
    /\ UNCHANGED <<msg, calls, crashes, requestVars, pc, job, seen, window, policyVars,
                   outcomeVars>>

RetryNext(s) ==
    /\ \E m \in todo[s] :
           /\ Start(s, m)
           /\ todo' = [todo EXCEPT ![s] = @ \ {m}]
    /\ UNCHANGED <<msg, calls, crashes, requestVars, seen, policyVars, outcomeVars>>

FlagForHuman(s) ==
    /\ pc[s] = "flag"
    /\ msg' = [msg EXCEPT ![job[s]].status = "needs_triage"]
    /\ Finish(s)
    /\ UNCHANGED <<calls, crashes, requestVars, seen, todo, policyVars, outcomeVars>>

\* The process dies between two statements; what it had committed stays.
Crash(w) ==
    /\ crashes < MaxCrashes
    /\ pc[w] # "idle" \/ (w \in Sweepers /\ todo[w] # {})
    /\ crashes' = crashes + 1
    /\ Finish(w) /\ Forget(w)
    /\ todo' = [s \in Sweepers |-> IF s = w THEN {} ELSE todo[s]]
    /\ UNCHANGED <<msg, calls, requestVars, policyVars, outcomeVars>>

DispatchStep(w) ==
    \/ ReadMessage(w) \/ CheckSettings(w) \/ CheckEscalation(w) \/ RecordSent(w)
    \/ ReadForCleanApproval(w) \/ CheckNegativeSignal(w) \/ CountCleanApproval(w)

SweepStep(s) == StartSweep(s) \/ RetryNext(s) \/ FlagForHuman(s)

Arrival == \E m \in Messages : DraftForReview(m) \/ DraftAutonomously(m) \/ ComposeAndSend(m)

Surroundings ==
    \/ OpenEscalation \/ MarkResolved \/ PauseAutonomous \/ ResumeAutonomous \/ UpsertContact

CallEnds(m) == LoseCall(m) \/ \E r \in Routes : ReceiveCall(r, m)

Delivery == \E m \in Messages : CallEnds(m)

Next ==
    \/ Arrival \/ Surroundings \/ Delivery
    \/ \E m \in Messages : DecisionAges(m)
    \/ \E u \in Operators : ConsoleStep(u)
    \/ \E w \in Workers : DispatchStep(w) \/ Crash(w)
    \/ \E s \in Sweepers : SweepStep(s)

Spec == Init /\ [][Next]_vars

(***************************************************************************)
(* What runs goes on: a handler or a sweep that has started takes its next *)
(* step, and a call on its way arrives or is lost.  Nothing obliges a      *)
(* sweep to start (deploy/crontab schedules none), a human to act, a call  *)
(* to arrive, or an escalation to be resolved.                             *)
(***************************************************************************)
Fairness ==
    /\ \A w \in Workers : WF_vars(DispatchStep(w))
    /\ \A s \in Sweepers : WF_vars(RetryNext(s) \/ FlagForHuman(s))
    /\ \A m \in Messages : WF_vars(CallEnds(m))

FairSpec == Spec /\ Fairness

(***************************************************************************)
(* Properties.                                                             *)
(***************************************************************************)
WorkerSteps == {"idle", "read", "settings", "escalation", "record", "clean", "signal", "count",
                "flag"}
RequestSteps == {"idle", "edit", "reject", "gate", "approve"}

\* Every variable has the shape the schema and the handlers give it, and a running worker has a job.
TypeOK ==
    /\ msg \in [Messages -> Row]
    /\ hasEmail \in BOOLEAN /\ enabled \in BOOLEAN
    /\ active \in Nat /\ opened \in Nat /\ crashes \in Nat
    /\ calls \in [Messages -> Nat]
    /\ pc \in [Workers -> WorkerSteps]
    /\ job \in [Workers -> Messages \cup {NoMessage}]
    /\ \A w \in Workers : pc[w] # "idle" => job[w] \in Messages
    /\ seen \in [Workers -> Snapshot]
    /\ todo \in [Sweepers -> SUBSET Messages]
    /\ opPc \in [Operators -> RequestSteps]
    /\ opMsg \in [Operators -> Messages \cup {NoMessage}]
    /\ \A u \in Operators : opPc[u] # "idle" => opMsg[u] \in Messages
    /\ keep \in [Operators -> Bodies \cup {NoBody}]
    /\ rendered \in [Messages -> Nat] /\ counted \in [Messages -> Nat]
    /\ window \in [Workers -> [enabled: BOOLEAN, clear: BOOLEAN]]

\* originalBody is the agent's text, however many edits overlap: two console users who both opened
\* the unedited draft, or one who opened it after the other's save, never record a human revision
\* as the agent's words; and a body that is not the author's own is always marked edited.
OriginalIsAgentText ==
    \A m \in Messages :
        /\ msg[m].originalBody \in {NoBody, DraftText}
        /\ msg[m].edited <=> msg[m].originalBody = DraftText
        /\ msg[m].body \in Revisions => msg[m].edited

\* No mail leaves for a message nobody decided on, and a decider of record stays on every sent
\* row, whatever requests, sweeps and flags overtook each other on the way.
NothingLeavesUndecided ==
    \A m \in Messages :
        (rendered[m] > 0 \/ msg[m].sentAt) => msg[m].decidedBy # "nobody"

\* The record of who wrote what: the sender's stale copy of the role neither turns a human's reply
\* into the agent's message nor the reverse, and agent_sent marks exactly the agent's messages that
\* went out, even when a late decision or flag has moved their status on.
AuthorshipKept ==
    \A m \in Messages :
        /\ msg[m].role = "human_reply" <=> msg[m].body = ReplyText
        /\ msg[m].role # "human_reply" => (msg[m].role = "agent_sent" <=> msg[m].sentAt)

\* The kill switch: a dispatch that starts while autonomous sending is paused, and finds it paused
\* until it ends, does not send an autonomous message.  The history variable says what the
\* dispatch could have seen at some moment since it started.
PauseStopsAutonomousSend ==
    \A w \in Workers :
        pc[w] = "record" /\ seen[w].decidedBy = SystemDecider => window[w].enabled

\* The escalation guard: no dispatch sends if the account was escalated from its start to its end.
EscalationStopsSend == \A w \in Workers : pc[w] = "record" => window[w].clear

\* Each clean approval is backed by a mail of its own, for a message written at Tier 2.  A crash, a
\* retry or an overlapping sweep can lose a clean approval, never invent one.
CleanApprovalsBacked ==
    \A m \in Messages :
        /\ counted[m] <= rendered[m]
        /\ counted[m] > 0 => msg[m].sentAt /\ msg[m].tierContext = 2

\* A message goes out at most once.
AtMostOneSend == \A m \in Messages : rendered[m] <= 1

\* A message that a sweep found stuck is sent or handed to a human, whatever refuses it on the way:
\* the switch, an escalation, or a missing address that may come and go while the sweep works
\* through its list.
SweepSettles ==
    \A s \in Sweepers, m \in Messages : m \in todo[s] ~> msg[m].status # "approved"
=============================================================================
