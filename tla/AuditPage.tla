----------------------------- MODULE AuditPage -----------------------------
(***************************************************************************)
(* The Send Audit page of a tab and the samples it marks.  The page lists  *)
(* the newest samples once when it is mounted and again after each verdict *)
(* of its own; any error takes the place of the page until it is left.     *)
(***************************************************************************)
EXTENDS BrowserSession, FiniteSets

CONSTANTS
    PageSize,   \* PAGE_SIZE: only the first page is ever asked for
    MaxSamples  \* bound: samples drawn

ASSUME AuditPageAssumption == PageSize \in Nat \ {0} /\ MaxSamples \in Nat

VARIABLES
    samples,    \* reviewStatus of the samples drawn so far, oldest first
    list,       \* the page's state, while it is mounted
    disturbed   \* history: another reviewer, a new sample or overlapping calls since the mount

audit == <<samples, list, disturbed>>

ReviewStatus == {"unreviewed", "fine", "concerning"}
Verdicts == {"fine", "concerning"}
AuditKinds == {"samples", "mark"}

Drawn == DOMAIN samples
Row == [id: 1 .. MaxSamples, reviewStatus: ReviewStatus]
NoList == [mounted |-> FALSE, loaded |-> FALSE, error |-> FALSE, rows |-> {}]

FirstPage ==
    {[id |-> n, reviewStatus |-> samples[n]] : n \in {k \in Drawn : k + PageSize > Cardinality(Drawn)}}

Collections == UNION {[1 .. n -> ReviewStatus] : n \in 0 .. MaxSamples}

InitAudit == samples = <<>> /\ list = NoList /\ disturbed = FALSE

(***************************************************************************)
(* The page.  Others draw and mark samples between its visits.             *)
(***************************************************************************)
MountAudit ==
    /\ ~list.mounted
    /\ \E s \in Slots : Free(s) /\ calls' = [calls EXCEPT ![s] = Ask("samples", NoText, 0)]
    /\ list' = [NoList EXCEPT !.mounted = TRUE]
    /\ disturbed' = (UnderWay(AuditKinds) # {})
    /\ samples' \in IF UnderWay({"mark"}) = {} THEN Collections ELSE {samples}
    /\ UNCHANGED session

LeaveAudit ==
    /\ list' = NoList /\ disturbed' = FALSE
    /\ samples' = IF \E s \in Slots : calls'[s].kind = "mark" THEN samples ELSE <<>>

Mark ==
    /\ list.loaded /\ ~list.error
    /\ \E row \in list.rows, verdict \in Verdicts, s \in Slots :
          /\ Free(s)
          /\ calls' = [calls EXCEPT ![s] = [Ask("mark", NoText, row.id) EXCEPT !.text = verdict]]
    /\ disturbed' = (disturbed \/ UnderWay(AuditKinds) # {})
    /\ UNCHANGED <<session, samples, list>>

(***************************************************************************)
(* The server, and those who use it beside the page.                       *)
(***************************************************************************)
Asked(s, kind) == calls[s].kind = kind /\ calls[s].reply = "sent" /\ calls[s].token # NoToken

ListSamples(s) ==
    /\ Asked(s, "samples")
    /\ Answer(s, [calls[s] EXCEPT !.reply = "ok", !.rows = FirstPage], PageOnly)
    /\ UNCHANGED <<session, audit>>

\* Found, then updated: a verdict replaces any other.
MarkSample(s) ==
    /\ Asked(s, "mark")
    /\ samples' = [samples EXCEPT ![calls[s].sample] = calls[s].text]
    /\ Answer(s, [calls[s] EXCEPT !.reply = "ok"], Tab)
    /\ UNCHANGED <<session, list, disturbed>>

\* Another reviewer marks a sample, or the worker draws one.  Bound: once in a visit.
OtherVerdict ==
    /\ list.mounted /\ ~disturbed
    /\ \E n \in Drawn, verdict \in Verdicts : samples' = [samples EXCEPT ![n] = verdict]
    /\ disturbed' = TRUE
    /\ UNCHANGED <<session, calls, list>>

DrawSample ==
    /\ list.mounted /\ ~disturbed /\ Cardinality(Drawn) < MaxSamples
    /\ samples' = [n \in 1 .. Cardinality(Drawn) + 1 |-> IF n \in Drawn THEN samples[n] ELSE "unreviewed"]
    /\ disturbed' = TRUE
    /\ UNCHANGED <<session, calls, list>>

(***************************************************************************)
(* The answers.                                                            *)
(***************************************************************************)
\* Bug: the page trusts its own verdict and does not ask again.
MarkWithoutRefresh(s) ==
    /\ calls[s].kind = "mark" /\ calls[s].reply = "ok"
    /\ Done(s) /\ UNCHANGED <<session, audit>>

\* A verdict that was recorded is followed by a new list, with the token of now.
Refresh(s) ==
    /\ calls[s].kind = "mark" /\ calls[s].reply = "ok"
    /\ calls' = [calls EXCEPT ![s] = [Ask("samples", NoText, 0) EXCEPT !.to = calls[s].to]]
    /\ UNCHANGED <<session, audit>>

HearSamples(s) ==
    /\ calls[s].kind = "samples" /\ calls[s].reply = "ok"
    /\ list' = [list EXCEPT !.loaded = TRUE, !.rows = calls[s].rows]
    /\ Done(s) /\ UNCHANGED <<session, samples, disturbed>>

FailAudit(s) ==
    /\ calls[s].kind \in AuditKinds /\ Fail(s)
    /\ list' = IF calls[s].to = "page" THEN [list EXCEPT !.error = TRUE] ELSE list
    /\ UNCHANGED <<session, samples, disturbed>>

AuditServer ==
    \/ OtherVerdict \/ DrawSample
    \/ \E s \in Slots : ListSamples(s) \/ MarkSample(s)
=============================================================================
