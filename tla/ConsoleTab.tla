----------------------------- MODULE ConsoleTab -----------------------------
(***************************************************************************)
(* A tab of the console: the session, and the one screen that is mounted   *)
(* while the session lasts.  Leaving a screen, or the session, unmounts    *)
(* the page; what the page had asked for goes on, and a session that comes *)
(* back mounts the screen afresh.                                          *)
(*                                                                         *)
(* The queue stands for the screens without state of their own here; the   *)
(* settings screen is the subject of ConsoleSettings.                      *)
(***************************************************************************)
EXTENDS ReviewPage, AuditPage

VARIABLES
    screen,
    visited     \* bound: the screen visited beside the queue, one in a behaviour

Screens == {"queue", "account", "sendaudit"}

vars == <<session, calls, review, audit, screen, visited>>

TabInit ==
    /\ Init /\ InitReview /\ InitAudit
    /\ screen = "queue" /\ visited \in Screens \ {"queue"}

Leave == LeaveReview /\ LeaveAudit
Stay == UNCHANGED <<review, audit>>

\* The gate, or an empty document, replaces the console.
InSession ==
    /\ SessionStep
    /\ IF view' = "authenticated" THEN Stay ELSE Leave
    /\ IF view' = "loading" THEN screen' = "queue" ELSE UNCHANGED screen

ReloadTab == Reload /\ Leave /\ screen' = "queue"

\* Bug: the page that is left goes on listening.
NavigateUncancelled ==
    /\ view = "authenticated"
    /\ screen' \in {"queue", visited} \ {screen}
    /\ UNCHANGED calls
    /\ Leave /\ UNCHANGED session

Navigate ==
    /\ view = "authenticated"
    /\ screen' \in {"queue", visited} \ {screen}
    /\ calls' = Unmounted
    /\ Leave /\ UNCHANGED session

\* A page asks at once; bound: the slots it needs are free.
Mount ==
    /\ view = "authenticated" /\ UNCHANGED screen
    /\ \/ screen = "account" /\ MountReview /\ UNCHANGED audit
       \/ screen = "sendaudit" /\ MountAudit /\ UNCHANGED review

OnAccount ==
    /\ ReviewUse \/ ReviewServer \/ \E s \in Slots : HearReview(s) \/ FailReview(s)
    /\ UNCHANGED <<audit, screen>>

OnSendAudit ==
    /\ Mark \/ AuditServer \/ \E s \in Slots : Refresh(s) \/ HearSamples(s) \/ FailAudit(s)
    /\ UNCHANGED <<review, screen>>

AnyCall ==
    /\ \E s \in Slots : RefuseToken(s)
    /\ UNCHANGED <<review, audit, screen>>

Next ==
    /\ InSession \/ ReloadTab \/ Navigate \/ Mount \/ OnAccount \/ OnSendAudit \/ AnyCall
    /\ UNCHANGED visited

Spec == TabInit /\ [][Next]_vars

(***************************************************************************)
(* Properties.                                                             *)
(***************************************************************************)
Call == [kind: Kinds \cup {"none"}, text: Texts \cup Verdicts \cup {NoText}, sample: 0 .. MaxSamples,
         token: 0 .. MaxTokens, to: {"page", "tab", "nobody"},
         reply: {"none", "sent", "checked", "ok", "refused", "unauthorized"},
         yes: BOOLEAN, rows: SUBSET Row]

\* Every variable has its shape; the tab has a token exactly while it shows the console; pages, and
\* calls that pages wait for, exist only then; and no more than one page is mounted.
TypeOK ==
    /\ view \in Views /\ token \in {NoToken, issued} /\ stored \in {NoToken, issued}
    /\ view = "authenticated" <=> token # NoToken
    /\ issued \in 0 .. MaxTokens /\ refused \in BOOLEAN /\ doubt \in BOOLEAN
    /\ justLoggedOut \in BOOLEAN /\ renewing \in BOOLEAN /\ lapsed \in BOOLEAN
    /\ calls \in [Slots -> Call]
    /\ page \in Page /\ list.rows \subseteq Row /\ screen \in Screens
    /\ draft.body \in Texts
    /\ page.mounted \/ list.mounted => view = "authenticated"
    /\ ~(page.mounted /\ list.mounted)
    /\ \A s \in Slots : calls[s].to = "page" => page.mounted \/ list.mounted

\* A token that the tab was told is refused never opens the console again: not by a reload, and not
\* by a user that session storage still holds.
RefusedTokenStaysOut == view = "authenticated" => ~refused

\* Approving sends what the page showed at the click, although the approval does not say what that
\* was: answers may be late or lost, the page left and mounted again, the session renewed between.
\* Not covered are an edit that was cancelled, which stays on show unsaved, a save that overlaps
\* another call, and another reviewer.
ApprovesAsShown ==
    [][\A s \in Slots :
          calls[s].kind = "approve" /\ calls[s].reply = "checked" /\ calls'[s].reply # "checked"
             /\ ~doubt => draft'.body = calls[s].text]_vars

\* Once its calls are answered the Send Audit page shows the verdicts on record, if nobody else
\* touched the samples and it had one call under way at a time.
AuditShowsVerdicts ==
    list.loaded /\ ~list.error /\ ~disturbed /\ UnderWay(AuditKinds) = {} => list.rows = FirstPage
=============================================================================
