-------------------------- MODULE ConsoleSettings --------------------------
(***************************************************************************)
(* The Settings screen: the kill switch of autonomous sending and the      *)
(* advanced settings behind a confirmation, as several admins use them.    *)
(*                                                                         *)
(* A click sends a request; the server serves it from the one settings     *)
(* row, at some later moment; the answer comes after that, or is lost.     *)
(* The server keeps no session: what a page asked for is written also when *)
(* the page was left or gave the request up.  A page shows what its last   *)
(* answer said and never asks again.  Its buttons do not wait for the      *)
(* answer of the one before, and calls overtake each other.                *)
(***************************************************************************)
EXTENDS Naturals

CONSTANTS
    Admins,      \* console users with the admin role, each with one page
    Fields,      \* the advanced settings
    Values,      \* the values a field of theirs takes
    Reasons,     \* reasons an admin gives for a pause
    Requests     \* bound: calls that may be under way at the same time

NoReason == "none"
NoAdmin == "nobody"
NoChange == {}

ASSUME ConsoleSettingsAssumption ==
    Values # {} /\ NoReason \notin Reasons /\ NoAdmin \notin Admins

VARIABLES
    setting,    \* the settings row
    panel,      \* each admin's page
    request,    \* the calls under way, on their way to the server or back
    interfered  \* history: since the page was opened, a write that it was not told of changed the
                \* row, two calls of its own were under way at once, or its form was edited with
                \* a proposal asked for or shown

settingsVars == <<setting, panel, request, interfered>>

Advanced == [Fields -> Values]
Switch == [enabled: BOOLEAN, reason: Reasons \cup {NoReason}]
Change == [field: Fields, from: Values, to: Values]
SettingsRow == [advanced: Advanced, enabled: BOOLEAN, reason: Reasons \cup {NoReason}]
Panel == [open: BOOLEAN, loaded: BOOLEAN, shown: Switch, form: Advanced, diff: SUBSET Change,
          asking: BOOLEAN]

\* What a call asks for until it is served, then what it answers.  A call that is not live has no
\* page to answer.  With a confirm goes, as history, the change that was on show.
RequestKinds == {"load", "pause", "basic", "proposal", "confirm", "notice", "resume"}
Request == [admin: Admins \cup {NoAdmin}, live: BOOLEAN, stage: {"free", "sent", "answered"},
            kind: RequestKinds, switch: Switch, form: Advanced, diff: SUBSET Change]

SwitchOf(row) == [enabled |-> row.enabled, reason |-> row.reason]
Off == [enabled |-> FALSE, reason |-> NoReason]
Defaults == [f \in Fields |-> CHOOSE v \in Values : TRUE]
Closed == [open |-> FALSE, loaded |-> FALSE, shown |-> Off, form |-> Defaults,
           diff |-> NoChange, asking |-> FALSE]
NoRequest == [admin |-> NoAdmin, live |-> FALSE, stage |-> "free", kind |-> "load", switch |-> Off,
              form |-> Defaults, diff |-> NoChange]

\* The row as ensureRow creates it: autonomous sending starts switched off, for no stated reason.
SettingsInit ==
    /\ setting = [advanced |-> Defaults, enabled |-> FALSE, reason |-> NoReason]
    /\ panel = [a \in Admins |-> Closed]
    /\ request = [q \in Requests |-> NoRequest]
    /\ interfered = [a \in Admins |-> FALSE]

(***************************************************************************)
(* The page: what an admin clicks.                                         *)
(***************************************************************************)
Mine(a) == {q \in Requests : request[q].admin = a /\ request[q].live}

Send(a, asked) ==
    \E q \in Requests :
        /\ request[q].stage = "free"
        /\ request' = [request EXCEPT ![q] = asked]

Requested(a, kind) ==
    [NoRequest EXCEPT !.admin = a, !.live = TRUE, !.stage = "sent", !.kind = kind]

\* Nothing but "Loading" is on the page until the first answer.
Press(a, asked) ==
    /\ panel[a].loaded
    /\ Send(a, asked)
    /\ interfered' = [interfered EXCEPT ![a] = @ \/ Mine(a) # {}]
    /\ UNCHANGED <<setting, panel>>

Open(a) ==
    /\ ~panel[a].open
    /\ Send(a, Requested(a, "load"))
    /\ panel' = [panel EXCEPT ![a] = [Closed EXCEPT !.open = TRUE]]
    /\ interfered' = [interfered EXCEPT ![a] = FALSE]
    /\ UNCHANGED setting

\* Answers to a page that is gone reach nobody; requests it sent are served all the same.
Close(a) ==
    /\ panel[a].open
    /\ panel' = [panel EXCEPT ![a] = Closed]
    /\ request' = [q \in Requests |->
                     IF q \notin Mine(a) THEN request[q]
                     ELSE IF request[q].stage = "sent" THEN [request[q] EXCEPT !.live = FALSE]
                     ELSE NoRequest]
    /\ interfered' = [interfered EXCEPT ![a] = FALSE]
    /\ UNCHANGED setting

ClickPause(a) ==
    /\ panel[a].shown.enabled
    /\ \E reason \in Reasons : Press(a, [Requested(a, "pause") EXCEPT !.switch.reason = reason])

ClickResume(a) ==
    /\ ~panel[a].shown.enabled /\ ~panel[a].asking
    /\ Press(a, Requested(a, "notice"))

ClickConfirmResume(a) ==
    /\ ~panel[a].shown.enabled /\ panel[a].asking
    /\ Press(a, Requested(a, "resume"))

ClickSave(a) == Press(a, Requested(a, "basic"))

\* A proposal without a change leaves the page as if there were none.
Confirming(a) == panel[a].diff # NoChange

ClickSaveAdvanced(a) ==
    /\ ~Confirming(a)
    /\ Press(a, [Requested(a, "proposal") EXCEPT !.form = panel[a].form])

\* The form as it is now goes to the server, not the values the proposal was made for.
Confirm(a) == [Requested(a, "confirm") EXCEPT !.form = panel[a].form, !.diff = panel[a].diff]

\* Bug: the form is written whether or not a proposal is shown.
ConfirmUnproposed(a) == Press(a, Confirm(a))

ClickConfirm(a) == Confirming(a) /\ Press(a, Confirm(a))

EditForm(a) ==
    /\ panel[a].loaded
    /\ \E f \in Fields, v \in Values :
          /\ v # panel[a].form[f]
          /\ panel' = [panel EXCEPT ![a].form[f] = v]
    /\ interfered' = [interfered EXCEPT ![a] =
                        @ \/ Confirming(a) \/ \E q \in Mine(a) : request[q].kind = "proposal"]
    /\ UNCHANGED <<setting, request>>

Dismiss(a) ==
    /\ \/ Confirming(a) /\ panel' = [panel EXCEPT ![a].diff = NoChange]
       \/ panel[a].asking /\ ~panel[a].shown.enabled /\ panel' = [panel EXCEPT ![a].asking = FALSE]
    /\ UNCHANGED <<setting, request, interfered>>

(***************************************************************************)
(* The server: each request reads or writes the row at one moment.         *)
(***************************************************************************)
Diff(before, after) ==
    {[field |-> f, from |-> before[f], to |-> after[f]] :
        f \in {g \in Fields : before[g] # after[g]}}

At(q, kind) == request[q].stage = "sent" /\ request[q].kind = kind

Respond(q, answer) ==
    request' = [request EXCEPT ![q] = IF request[q].live THEN answer ELSE NoRequest]

\* What an answer with the whole row tells: its page uses the switch, and the form as it loads.
Told(q, row) ==
    [NoRequest EXCEPT !.admin = request[q].admin, !.live = TRUE, !.stage = "answered",
                      !.kind = request[q].kind, !.switch = SwitchOf(row)]

Write(q, row) ==
    /\ setting' = row
    /\ Respond(q, Told(q, row))
    /\ interfered' = [a \in Admins |-> interfered[a]
                        \/ (row # setting /\ panel[a].open /\ q \notin Mine(a))]
    /\ UNCHANGED panel

ReadSettings(q) ==
    /\ At(q, "load")
    /\ Respond(q, [Told(q, setting) EXCEPT !.form = setting.advanced])
    /\ UNCHANGED <<setting, panel, interfered>>

PauseAutonomous(q) ==
    /\ At(q, "pause")
    /\ Write(q, [setting EXCEPT !.enabled = FALSE, !.reason = request[q].switch.reason])

ProposeResumeAutonomous(q) ==
    /\ At(q, "notice")
    /\ Respond(q, [request[q] EXCEPT !.stage = "answered"])
    /\ UNCHANGED <<setting, panel, interfered>>

\* Bug: sending resumes with the pause reason still on record.
ResumeKeepingReason(q) ==
    /\ At(q, "resume")
    /\ Write(q, [setting EXCEPT !.enabled = TRUE])

ConfirmResumeAutonomous(q) ==
    /\ At(q, "resume")
    /\ Write(q, [setting EXCEPT !.enabled = TRUE, !.reason = NoReason])

\* The two basic settings are written as they are in the form; only the answer matters here.
SaveBasic(q) == At(q, "basic") /\ Write(q, setting)

\* The dry run: what would change, and nothing is written.
ProposeAdvanced(q) ==
    /\ At(q, "proposal")
    /\ Respond(q, [request[q] EXCEPT !.stage = "answered",
                                     !.diff = Diff(setting.advanced, request[q].form)])
    /\ UNCHANGED <<setting, panel, interfered>>

ConfirmAdvanced(q) ==
    /\ At(q, "confirm")
    /\ Write(q, [setting EXCEPT !.advanced = request[q].form])

(***************************************************************************)
(* Answers.  What they carry is what the row was when they were sent.      *)
(***************************************************************************)
\* Bug: the answer to a pause or a save is not shown.
DeliverSilently(q) ==
    LET a == request[q].admin
    IN  /\ request[q].stage = "answered"
        /\ panel' = CASE request[q].kind = "load" ->
                          [panel EXCEPT ![a].loaded = TRUE, ![a].shown = request[q].switch,
                                        ![a].form = request[q].form]
                     [] request[q].kind = "proposal" -> [panel EXCEPT ![a].diff = request[q].diff]
                     [] request[q].kind = "notice" -> [panel EXCEPT ![a].asking = TRUE]
                     [] request[q].kind \in {"pause", "basic"} -> panel
                     [] request[q].kind = "confirm" ->
                          [panel EXCEPT ![a].shown = request[q].switch, ![a].diff = NoChange]
                     [] request[q].kind = "resume" ->
                          [panel EXCEPT ![a].shown = request[q].switch, ![a].asking = FALSE]
        /\ request' = [request EXCEPT ![q] = NoRequest]
        /\ UNCHANGED <<setting, interfered>>

Deliver(q) ==
    LET a == request[q].admin
    IN  /\ request[q].stage = "answered"
        /\ panel' = CASE request[q].kind = "load" ->
                          [panel EXCEPT ![a].loaded = TRUE, ![a].shown = request[q].switch,
                                        ![a].form = request[q].form]
                     [] request[q].kind = "proposal" -> [panel EXCEPT ![a].diff = request[q].diff]
                     [] request[q].kind = "notice" -> [panel EXCEPT ![a].asking = TRUE]
                     [] request[q].kind \in {"pause", "basic"} ->
                          [panel EXCEPT ![a].shown = request[q].switch]
                     [] request[q].kind = "confirm" ->
                          [panel EXCEPT ![a].shown = request[q].switch, ![a].diff = NoChange]
                     [] request[q].kind = "resume" ->
                          [panel EXCEPT ![a].shown = request[q].switch, ![a].asking = FALSE]
        /\ request' = [request EXCEPT ![q] = NoRequest]
        /\ UNCHANGED <<setting, interfered>>

\* A call fails: its request never gets there, its answer is lost or bad, or the page gives up
\* waiting and the request goes on.  The page says nothing of it.
FailRequest(q) ==
    /\ request[q].stage # "free"
    /\ \/ request' = [request EXCEPT ![q] = NoRequest]
       \/ /\ request[q].live /\ request[q].stage = "sent"
          /\ request' = [request EXCEPT ![q].live = FALSE]
    /\ interfered' = [a \in Admins |-> interfered[a]
                        \/ (/\ q \in Mine(a) /\ request[q].stage = "answered"
                            /\ request[q].kind \in {"pause", "resume", "confirm"})]
    /\ UNCHANGED <<setting, panel>>

AdminStep(a) ==
    \/ Open(a) \/ Close(a) \/ ClickPause(a) \/ ClickResume(a) \/ ClickConfirmResume(a)
    \/ ClickSave(a) \/ ClickSaveAdvanced(a) \/ ClickConfirm(a) \/ EditForm(a) \/ Dismiss(a)

Handle(q) ==
    \/ ReadSettings(q) \/ PauseAutonomous(q) \/ ProposeResumeAutonomous(q)
    \/ ConfirmResumeAutonomous(q) \/ SaveBasic(q) \/ ProposeAdvanced(q) \/ ConfirmAdvanced(q)

SettingsNext ==
    \/ \E a \in Admins : AdminStep(a)
    \/ \E q \in Requests : Handle(q) \/ Deliver(q) \/ FailRequest(q)

SettingsSpec == SettingsInit /\ [][SettingsNext]_settingsVars

(***************************************************************************)
(* Properties.                                                             *)
(***************************************************************************)
\* Every variable has its shape, a sending system has no pause reason on record, and only an open
\* page has calls of its own.
SettingsTypeOK ==
    /\ setting \in SettingsRow
    /\ setting.enabled => setting.reason = NoReason
    /\ panel \in [Admins -> Panel]
    /\ request \in [Requests -> Request]
    /\ interfered \in [Admins -> BOOLEAN]
    /\ \A a \in Admins : Mine(a) # {} => panel[a].open

\* A call of an open page is served.
Served(q) == request[q].live /\ request[q].stage = "sent" /\ request'[q].stage = "answered"

\* A confirmation writes the difference the admin was shown, field for field, if nothing interfered
\* with the page since it was opened: no write it was not told of, no two calls of its own at once,
\* no edit beside a proposal.
WrittenAsShown ==
    [][\A q \in Requests :
          /\ Served(q) /\ setting'.advanced # setting.advanced
          /\ ~interfered[request[q].admin]
          => request[q].diff = Diff(setting.advanced, setting'.advanced)]_settingsVars

\* A loaded page with no call under way tells the state of the kill switch and why it is paused,
\* whatever calls of its failed on their way and whatever brought it there, unless a write that it
\* was not told of changed the row: another admin's, a late one of a page that was left or of a
\* request given up, or its own with the answer lost.
PageTellsTheSwitch ==
    \A a \in Admins :
        panel[a].loaded /\ ~interfered[a] /\ Mine(a) = {} => panel[a].shown = SwitchOf(setting)
=============================================================================
