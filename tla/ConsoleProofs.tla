--------------------------- MODULE ConsoleProofs ---------------------------
(***************************************************************************)
(* What holds of the console's screens for any calls under way, any tokens *)
(* and any texts.                                                          *)
(***************************************************************************)
EXTENDS ConsoleTab, ConsoleSettings, FiniteSetTheorems, TLAPS

(***************************************************************************)
(* Calls, one by one.                                                      *)
(***************************************************************************)
ReviewKinds == DraftKinds \cup {"account", "escalations"}

\* A draft's call has a text of a draft, a verdict is a verdict, and only those are answered who
\* wait.
Proper(call) ==
    /\ call \in Call
    /\ call.kind \in DraftKinds => call.text \in Texts
    /\ call.kind = "account" /\ call.yes => call.text \in Texts
    /\ call.kind = "mark" => call.text \in Verdicts
    /\ call.kind \in ReviewKinds => call.text \in Texts \cup {NoText}
    /\ call.reply = "checked" => call.kind \in DraftKinds
    /\ call.reply = "ok" => call.to = "page" \/ (call.to = "tab" /\ call.kind = "mark")
    /\ call.reply \in {"refused", "unauthorized"} => call.to # "nobody"
    /\ call.kind = "none" => call.to = "nobody" /\ call.reply = "none"

\* The call goes on, or is over, and is heard by no more than before.
GoesOn(next, call) ==
    \/ next = NoCall
    \/ /\ next.kind = call.kind /\ next.text = call.text /\ next.reply = call.reply
       /\ next.yes = call.yes /\ next.rows = call.rows
       /\ next.to = "page" => call.to = "page"
       /\ next.to # "nobody" => call.to # "nobody"

(***************************************************************************)
(* The shape of the tab.                                                   *)
(***************************************************************************)
\* The token of the tab and the one in storage are the newest or none, and the console is open
\* exactly while there is a token.
SessionShape ==
    /\ view \in Views /\ issued \in 0 .. MaxTokens
    /\ token \in {NoToken, issued} /\ stored \in {NoToken, issued}
    /\ view = "authenticated" <=> token # NoToken
    /\ justLoggedOut \in BOOLEAN /\ renewing \in BOOLEAN /\ lapsed \in BOOLEAN
    /\ refused \in BOOLEAN

DraftRow == [status: {"pending_review", "approved", "rejected"}, body: Texts]

\* A loaded page is mounted, and a draft it shows has a text.
ReviewShape ==
    /\ draft \in DraftRow /\ escalated \in BOOLEAN /\ doubt \in BOOLEAN
    /\ page \in Page
    /\ page.loaded => page.mounted
    /\ page.pending => page.draftBody \in Texts

AuditShape ==
    /\ samples \in Collections /\ disturbed \in BOOLEAN
    /\ list \in [mounted: BOOLEAN, loaded: BOOLEAN, error: BOOLEAN, rows: SUBSET Row]
    /\ list.loaded => list.mounted

\* A call that a page waits for is one of the page that is mounted.
Heard(call) ==
    call.to = "page" => \/ call.kind \in AuditKinds /\ list.mounted
                        \/ call.kind \in ReviewKinds /\ page.mounted

CallsShape ==
    /\ calls \in [Slots -> Call]
    /\ \A s \in Slots : Proper(calls[s]) /\ Heard(calls[s])

\* A page is mounted only on its own screen of an open console.
ScreenShape ==
    /\ screen \in Screens /\ visited \in Screens
    /\ page.mounted => view = "authenticated" /\ screen = "account"
    /\ list.mounted => view = "authenticated" /\ screen = "sendaudit"

Shape == SessionShape /\ ReviewShape /\ AuditShape /\ CallsShape /\ ScreenShape

(***************************************************************************)
(* Refused tokens.                                                         *)
(***************************************************************************)
\* While somebody waits for an answer, the token it may condemn is the one on show, or storage has
\* none, or it has run out; and a refused token is gone from the tab and from storage, or has run
\* out.
TokensInv ==
    /\ \A s \in Slots :
          calls[s].to # "nobody" => view = "authenticated" \/ stored = NoToken \/ lapsed
    /\ refused => view # "authenticated" /\ (stored = NoToken \/ lapsed)

(***************************************************************************)
(* Approvals.                                                              *)
(***************************************************************************)
\* A save under way is the only call about the draft, and a page that waits for it has the editor
\* open; once written, it is what the draft says.
SavesAlone ==
    \A s \in Slots : calls[s].kind = "edit" =>
        /\ \A t \in Slots : calls[t].kind \in DraftKinds => t = s
        /\ page.mounted => page.editing
        /\ calls[s].reply = "ok" => calls[s].text = draft.body

\* Until the page has loaded it has asked for the account once, and for nothing of the draft.
LoadsFirst ==
    \A s \in Slots :
        /\ calls[s].kind = "account" /\ calls[s].to = "page" =>
              /\ ~page.loaded
              /\ \A t \in Slots : calls[t].kind = "account" /\ calls[t].to = "page" => t = s
              /\ calls[s].reply = "ok" /\ calls[s].yes => calls[s].text = draft.body
        /\ calls[s].kind \in DraftKinds /\ page.mounted => page.loaded

\* What the page shows, outside the editor, and what an approval was clicked on, is the draft.
ShownIsDraft ==
    /\ page.loaded /\ page.pending /\ ~page.editing => page.draftBody = draft.body
    /\ \A s \in Slots : calls[s].kind = "approve" => calls[s].text = draft.body

ReviewInv == ~doubt => SavesAlone /\ LoadsFirst /\ ShownIsDraft

(***************************************************************************)
(* The list of samples.                                                    *)
(***************************************************************************)
\* A mounted page that nobody disturbed has one call under way at most, and waits for it unless an
\* error is on show; what it was answered, and what it shows between calls, is the first page.
AuditInv ==
    list.mounted /\ ~disturbed =>
        /\ \A s, t \in UnderWay(AuditKinds) : s = t
        /\ \A s \in UnderWay(AuditKinds) :
              /\ calls[s].kind = "samples" /\ calls[s].reply = "ok" => calls[s].rows = FirstPage
              /\ ~list.error => calls[s].to = "page"
        /\ list.loaded /\ ~list.error /\ UnderWay(AuditKinds) = {} => list.rows = FirstPage

TabInv == Shape /\ TokensInv /\ ReviewInv /\ AuditInv
(***************************************************************************)
(* What a step may make of a call.                                         *)
(***************************************************************************)
LEMMA NoCallIsProper ==
    /\ Proper(NoCall)
    /\ NoCall.to = "nobody" /\ NoCall.kind = "none" /\ NoCall.reply = "none" /\ NoCall.yes = FALSE
BY BrowserSessionAssumption, AuditPageAssumption
   DEF Proper, NoCall, Call, NoToken, DraftKinds, ReviewKinds, Row

\* A page asks.
LEMMA AskFields ==
    ASSUME NEW kind \in Kinds, NEW text \in Texts \cup {NoText}, NEW sample \in 0 .. MaxSamples,
           token \in 0 .. MaxTokens, NEW STATE call, call = Ask(kind, text, sample)
    PROVE  /\ call \in Call /\ call.kind = kind /\ call.text = text /\ call.to = "page"
           /\ call.reply = "sent" /\ call.yes = FALSE
<1>1. NoCall \in Call /\ NoCall.yes = FALSE
  BY NoCallIsProper DEF Proper
<1> QED
  BY <1>1 DEF Ask, Call

LEMMA AskIsProper ==
    ASSUME NEW kind \in Kinds, NEW text \in Texts \cup {NoText}, token \in 0 .. MaxTokens,
           kind \in DraftKinds => text \in Texts, kind # "mark",
           NEW STATE call, call = Ask(kind, text, 0)
    PROVE  /\ call \in Call /\ Proper(call) /\ call.kind = kind /\ call.text = text
           /\ call.to = "page" /\ call.reply = "sent"
<1>1. 0 \in 0 .. MaxSamples
  BY AuditPageAssumption
<1>2. call \in Call
  BY <1>1, AskFields
<1>3. /\ call.kind = kind /\ call.text = text /\ call.to = "page" /\ call.reply = "sent"
      /\ call.yes = FALSE
  BY <1>1, <1>2, AskFields DEF Call
<1>4. kind # "none"
  BY DEF Kinds, Writes
<1> QED
  BY <1>2, <1>3, <1>4 DEF Proper, ReviewKinds, Call

\* A verdict is sent.
LEMMA VerdictIsProper ==
    ASSUME NEW verdict \in Verdicts, NEW n \in 1 .. MaxSamples, token \in 0 .. MaxTokens,
           NEW STATE call, call = [Ask("mark", NoText, n) EXCEPT !.text = verdict]
    PROVE  /\ call \in Call /\ Proper(call) /\ call.kind = "mark" /\ call.to = "page"
           /\ call.reply = "sent"
<1> DEFINE asked == Ask("mark", NoText, n)
<1>1. n \in 0 .. MaxSamples /\ "mark" \in Kinds /\ NoText \in Texts \cup {NoText}
  BY AuditPageAssumption DEF Kinds, Writes
<1>2. asked \in Call
  BY <1>1, AskFields
<1>3. asked.kind = "mark" /\ asked.to = "page" /\ asked.reply = "sent"
  BY <1>1, <1>2, AskFields DEF Call
<1>4. call = [asked EXCEPT !.text = verdict]
  OBVIOUS
<1> HIDE DEF asked
<1>5. call \in Call
  BY <1>2, <1>4 DEF Call
<1>6. call.kind = "mark" /\ call.to = "page" /\ call.reply = "sent" /\ call.text = verdict
  BY <1>2, <1>3, <1>4 DEF Call
<1> QED
  BY <1>5, <1>6 DEF Proper, ReviewKinds, DraftKinds

\* The list is asked for again, for whoever waited for the verdict.
LEMMA AgainIsProper ==
    ASSUME NEW STATE to, to \in {"page", "tab"}, token \in 0 .. MaxTokens,
           NEW STATE call, call = [Ask("samples", NoText, 0) EXCEPT !.to = to]
    PROVE  /\ call \in Call /\ Proper(call) /\ call.kind = "samples" /\ call.to = to
           /\ call.reply = "sent"
<1> DEFINE asked == Ask("samples", NoText, 0)
<1>1. 0 \in 0 .. MaxSamples /\ "samples" \in Kinds /\ NoText \in Texts \cup {NoText}
  BY AuditPageAssumption DEF Kinds
<1>2. asked \in Call
  BY <1>1, AskFields
<1>3. asked.kind = "samples" /\ asked.to = "page" /\ asked.reply = "sent"
  <2> HIDE DEF asked
  <2>1. asked = Ask("samples", NoText, 0)
    BY DEF asked
  <2> QED
    BY <1>1, <1>2, <2>1, AskFields DEF Call
<1>4. call = [asked EXCEPT !.to = to]
  OBVIOUS
<1> HIDE DEF asked
<1>5. call \in Call
  BY <1>2, <1>4 DEF Call
<1>6. call.kind = "samples" /\ call.to = to /\ call.reply = "sent"
  BY <1>2, <1>3, <1>4 DEF Call
<1> QED
  BY <1>5, <1>6 DEF Proper, ReviewKinds, DraftKinds

\* Whoever waits for a call changes, unless it was told.
LEMMA ReaddressedIsProper ==
    ASSUME NEW STATE call, Proper(call), NEW to \in {"page", "tab", "nobody"}, call.kind # "none",
           call.reply = "ok" => to = "tab" /\ call.kind = "mark",
           call.reply \in {"refused", "unauthorized"} => to # "nobody",
           NEW STATE next, next = [call EXCEPT !.to = to]
    PROVE  /\ next \in Call /\ Proper(next) /\ next.to = to /\ next.kind = call.kind
           /\ next.reply = call.reply /\ next.text = call.text /\ next.yes = call.yes
           /\ next.rows = call.rows
BY DEF Proper, Call

\* How far a call is changes.
LEMMA RepliedIsProper ==
    ASSUME NEW STATE call, Proper(call), call.kind # "none",
           NEW reply \in {"sent", "checked", "refused", "unauthorized", "ok"},
           reply = "checked" => call.kind \in DraftKinds,
           reply = "ok" => call.to = "page" \/ (call.to = "tab" /\ call.kind = "mark"),
           reply \in {"refused", "unauthorized"} => call.to # "nobody",
           NEW STATE next, next = [call EXCEPT !.reply = reply]
    PROVE  /\ next \in Call /\ Proper(next) /\ next.to = call.to /\ next.kind = call.kind
           /\ next.reply = reply /\ next.text = call.text /\ next.yes = call.yes
           /\ next.rows = call.rows
BY DEF Proper, Call

\* A call that is over, or that the client stops waiting for.
LEMMA NoCallGoesOn == ASSUME NEW call PROVE GoesOn(NoCall, call)
BY DEF GoesOn

LEMMA DroppedGoesOn ==
    ASSUME NEW s \in Slots, Proper(calls[s])
    PROVE  /\ Proper(Dropped(s)) /\ GoesOn(Dropped(s), calls[s]) /\ Dropped(s).to = "nobody"
           /\ Dropped(s) = NoCall \/ calls[s].kind \in Writes
<1>1. CASE calls[s].kind \in Writes /\ calls[s].reply \in {"sent", "checked"}
  <2> DEFINE next == [calls[s] EXCEPT !.to = "nobody"]
  <2>1. Dropped(s) = next
    BY <1>1 DEF Dropped
  <2>2. calls[s].kind # "none" /\ calls[s].reply \notin {"ok", "refused", "unauthorized"}
    BY <1>1 DEF Writes
  <2>3. /\ Proper(next) /\ next.to = "nobody" /\ next.kind = calls[s].kind
        /\ next.reply = calls[s].reply /\ next.text = calls[s].text /\ next.yes = calls[s].yes
        /\ next.rows = calls[s].rows
    BY <2>2, ReaddressedIsProper
  <2> HIDE DEF next
  <2> QED
    BY <1>1, <2>1, <2>3 DEF GoesOn
<1>2. CASE ~(calls[s].kind \in Writes /\ calls[s].reply \in {"sent", "checked"})
  BY <1>2, NoCallIsProper, NoCallGoesOn DEF Dropped
<1> QED
  BY <1>1, <1>2

LEMMA AbandonedGoesOn ==
    ASSUME NEW s \in Slots, Proper(calls[s])
    PROVE  Proper(Abandoned[s]) /\ GoesOn(Abandoned[s], calls[s]) /\ Abandoned[s].to = "nobody"
BY DroppedGoesOn DEF Abandoned

LEMMA UnmountedGoesOn ==
    ASSUME NEW s \in Slots, Proper(calls[s])
    PROVE  Proper(Unmounted[s]) /\ GoesOn(Unmounted[s], calls[s]) /\ Unmounted[s].to # "page"
<1>1. CASE calls[s].to = "nobody"
  <2>1. Unmounted[s] = calls[s]
    BY <1>1 DEF Unmounted, Proper
  <2> QED
    BY <1>1, <2>1 DEF GoesOn
<1>2. CASE /\ calls[s].to # "nobody"
           /\ calls[s].reply = "refused" \/ (calls[s].reply = "ok" /\ calls[s].kind # "mark")
  BY <1>2, NoCallIsProper, NoCallGoesOn DEF Unmounted
<1>3. CASE /\ calls[s].to # "nobody" /\ calls[s].reply # "refused"
           /\ ~(calls[s].reply = "ok" /\ calls[s].kind # "mark")
  <2> DEFINE next == [calls[s] EXCEPT !.to = "tab"]
  <2>1. Unmounted[s] = next
    BY <1>3 DEF Unmounted
  <2>2. calls[s].kind # "none"
    BY <1>3 DEF Proper
  <2>3. /\ Proper(next) /\ next.to = "tab" /\ next.kind = calls[s].kind
        /\ next.reply = calls[s].reply /\ next.text = calls[s].text /\ next.yes = calls[s].yes
        /\ next.rows = calls[s].rows
    BY <1>3, <2>2, ReaddressedIsProper
  <2> HIDE DEF next
  <2> QED
    BY <1>3, <2>1, <2>3 DEF GoesOn
<1> QED
  BY <1>1, <1>2, <1>3

(***************************************************************************)
(* What becomes of the session.                                            *)
(***************************************************************************)
AllGoOn ==
    /\ calls' \in [Slots -> Call]
    /\ \A s \in Slots : Proper(calls'[s]) /\ GoesOn(calls'[s], calls[s])

LEMMA KeptGoesOn == ASSUME CallsShape, UNCHANGED calls PROVE AllGoOn
BY DEF CallsShape, AllGoOn, GoesOn

LEMMA AllAbandoned ==
    ASSUME CallsShape, calls' = Abandoned
    PROVE  AllGoOn /\ \A s \in Slots : calls'[s].to = "nobody"
<1>1. \A s \in Slots :
         Proper(Abandoned[s]) /\ GoesOn(Abandoned[s], calls[s]) /\ Abandoned[s].to = "nobody"
  BY AbandonedGoesOn DEF CallsShape
<1>2. Abandoned \in [Slots -> Call]
  BY <1>1 DEF Abandoned, Proper
<1> QED
  BY <1>1, <1>2 DEF AllGoOn

LEMMA AllUnmounted ==
    ASSUME CallsShape, calls' = Unmounted
    PROVE  AllGoOn /\ \A s \in Slots : calls'[s].to # "page"
<1>1. \A s \in Slots :
         Proper(Unmounted[s]) /\ GoesOn(Unmounted[s], calls[s]) /\ Unmounted[s].to # "page"
  BY UnmountedGoesOn DEF CallsShape
<1>2. Unmounted \in [Slots -> Call]
  BY <1>1 DEF Unmounted, Proper
<1> QED
  BY <1>1, <1>2 DEF AllGoOn

LEMMA AllUnmountedButOne ==
    ASSUME CallsShape, NEW t \in Slots, calls' = [Unmounted EXCEPT ![t] = NoCall]
    PROVE  AllGoOn /\ \A s \in Slots : calls'[s].to # "page"
<1>1. \A s \in Slots :
         Proper(Unmounted[s]) /\ GoesOn(Unmounted[s], calls[s]) /\ Unmounted[s].to # "page"
  BY UnmountedGoesOn DEF CallsShape
<1>2. Unmounted \in [Slots -> Call]
  BY <1>1 DEF Unmounted, Proper
<1>3. Proper(NoCall) /\ NoCall \in Call /\ NoCall.to # "page"
  BY NoCallIsProper DEF Proper
<1>4. calls' \in [Slots -> Call]
  BY <1>2, <1>3
<1>5. \A s \in Slots : calls'[s] = IF s = t THEN NoCall ELSE Unmounted[s]
  BY <1>2
<1> QED
  BY <1>1, <1>3, <1>4, <1>5, NoCallGoesOn DEF AllGoOn

\* One call is over.
LEMMA OneIsDone ==
    ASSUME CallsShape, NEW t \in Slots, Done(t)
    PROVE  /\ AllGoOn /\ calls'[t] = NoCall
           /\ \A s \in Slots \ {t} : calls'[s] = calls[s]
<1>1. Proper(NoCall) /\ NoCall \in Call
  BY NoCallIsProper DEF Proper
<1>2. calls' \in [Slots -> Call] /\ \A s \in Slots : calls'[s] = IF s = t THEN NoCall ELSE calls[s]
  BY <1>1 DEF Done, CallsShape
<1>3. \A s \in Slots : GoesOn(calls[s], calls[s])
  BY DEF GoesOn
<1> QED
  BY <1>1, <1>2, <1>3, NoCallGoesOn DEF AllGoOn, CallsShape

\* The session changes: no page that stays has its calls touched, and no page goes on waiting when
\* the console is closed.
LEMMA SessionKeepsCalls ==
    ASSUME Shape, SessionStep
    PROVE  /\ AllGoOn
           /\ view' = "authenticated" /\ (page.mounted \/ list.mounted) => calls' = calls
           /\ view' # "authenticated" => \A s \in Slots : calls'[s].to # "page"
<1> USE DEF Shape
<1>0. view # "authenticated" => ~page.mounted /\ ~list.mounted /\ \A s \in Slots : calls[s].to # "page"
  BY DEF ScreenShape, CallsShape, Heard
<1>1. CASE UNCHANGED calls /\ view' = view
  BY <1>0, <1>1, KeptGoesOn
<1>2. CASE UNCHANGED calls /\ view # "authenticated"
  BY <1>0, <1>2, KeptGoesOn
<1>3. CASE calls' = Abandoned /\ view # "authenticated"
  BY <1>0, <1>3, AllAbandoned
<1>4. CASE calls' = Abandoned /\ view' # "authenticated"
  BY <1>4, AllAbandoned
<1>5. CASE calls' = Unmounted /\ view' # "authenticated"
  BY <1>5, AllUnmounted
<1>6. ASSUME NEW s \in Slots, calls' = [Unmounted EXCEPT ![s] = NoCall], view' # "authenticated"
      PROVE  /\ AllGoOn
             /\ view' # "authenticated" => \A t \in Slots : calls'[t].to # "page"
  BY <1>6, AllUnmountedButOne
<1>7. ASSUME NEW s \in Slots, Done(s), view # "authenticated", UNCHANGED view
      PROVE  /\ AllGoOn
             /\ view' # "authenticated" => \A t \in Slots : calls'[t].to # "page"
  BY <1>0, <1>7, OneIsDone, NoCallIsProper
<1>8. ASSUME NEW s \in Slots, ReportUnauthorized(s)
      PROVE  /\ AllGoOn /\ view' # "authenticated"
             /\ view' # "authenticated" => \A t \in Slots : calls'[t].to # "page"
  BY <1>6, <1>7, <1>8 DEF ReportUnauthorized
<1>9. CASE SigninRedirectCallback
  BY <1>3, <1>9 DEF SigninRedirectCallback
<1>10. CASE InitAuth
  BY <1>2, <1>10 DEF InitAuth
<1>11. CASE Login
  BY <1>2, <1>11 DEF Login
<1>12. CASE SignoutRedirect
  BY <1>1, <1>4, <1>12 DEF SignoutRedirect, NewDocument
<1>13. CASE EndSilentRenew
  <2>1. view' = "authenticated" \/ view' = view
    BY <1>13 DEF EndSilentRenew, UserLoaded
  <2>2. UNCHANGED calls
    BY <1>13 DEF EndSilentRenew
  <2> QED
    BY <1>1, <1>2, <2>1, <2>2
<1>14. CASE AccessTokenExpired
  BY <1>5, <1>14 DEF AccessTokenExpired
<1>15. CASE Logout \/ BeginSilentRenew
  BY <1>1, <1>15 DEF Logout, BeginSilentRenew
<1> QED
  BY <1>8, <1>9, <1>10, <1>11, <1>12, <1>13, <1>14, <1>15 DEF SessionStep

LEMMA SessionKeepsShape == ASSUME SessionShape, SessionStep PROVE SessionShape'
<1> USE BrowserSessionAssumption DEF SessionShape, Views, NoToken
<1>0. ASSUME UserLoaded PROVE /\ view' = "authenticated" /\ token' = issued' /\ stored' = issued'
                              /\ issued' \in 0 .. MaxTokens /\ issued' # 0
                              /\ lapsed' = FALSE /\ refused' = FALSE
  <2>1. issued \in 0 .. MaxTokens /\ issued < MaxTokens /\ issued' = issued + 1
    BY <1>0 DEF UserLoaded
  <2>2. issued' \in 0 .. MaxTokens /\ issued' # 0
    BY <2>1
  <2> QED
    BY <1>0, <2>2 DEF UserLoaded
<1>1. CASE SigninRedirectCallback
  BY <1>0, <1>1 DEF SigninRedirectCallback
<1>2. CASE InitAuth
  BY <1>2 DEF InitAuth
<1>3. CASE Login
  BY <1>3 DEF Login
<1>4. CASE Logout
  BY <1>4 DEF Logout
<1>5. CASE SignoutRedirect
  BY <1>5 DEF SignoutRedirect, NewDocument
<1>6. CASE BeginSilentRenew
  BY <1>6 DEF BeginSilentRenew
<1>7. CASE EndSilentRenew
  BY <1>0, <1>7 DEF EndSilentRenew
<1>8. CASE AccessTokenExpired
  BY <1>8 DEF AccessTokenExpired
<1>9. ASSUME NEW s \in Slots, ReportUnauthorized(s) PROVE SessionShape'
  BY <1>9 DEF ReportUnauthorized
<1> QED
  BY <1>1, <1>2, <1>3, <1>4, <1>5, <1>6, <1>7, <1>8, <1>9 DEF SessionStep

\* While somebody waits, storage tells whether the console comes back with the token of the call.
LEMMA SessionKeepsTokens == ASSUME Shape, TokensInv, SessionStep PROVE TokensInv'
<1> USE DEF TokensInv
<1>0. AllGoOn
  BY SessionKeepsCalls
<1>1. \A s \in Slots : calls'[s].to # "nobody" => calls[s].to # "nobody"
  BY <1>0, NoCallIsProper DEF AllGoOn, GoesOn
<1>2. ASSUME UserLoaded PROVE TokensInv'
  BY <1>2 DEF UserLoaded
<1>3. CASE SigninRedirectCallback
  <2>1. calls' = Abandoned
    BY <1>3 DEF SigninRedirectCallback
  <2>2. \A s \in Slots : calls'[s].to = "nobody"
    BY <2>1, AllAbandoned DEF Shape
  <2>3. UserLoaded \/ (view' = "landing" /\ UNCHANGED <<stored, lapsed, refused>>)
    BY <1>3 DEF SigninRedirectCallback
  <2> QED
    BY <1>2, <2>2, <2>3
<1>4. CASE InitAuth
  BY <1>4 DEF InitAuth
<1>5. CASE Login
  BY <1>5 DEF Login
<1>6. CASE Logout \/ BeginSilentRenew
  BY <1>6 DEF Logout, BeginSilentRenew
<1>7. CASE SignoutRedirect
  BY <1>1, <1>7 DEF SignoutRedirect, NewDocument
<1>8. CASE EndSilentRenew
  BY <1>2, <1>8 DEF EndSilentRenew
<1>9. CASE AccessTokenExpired
  BY <1>1, <1>9 DEF AccessTokenExpired
<1>10. ASSUME NEW s \in Slots, ReportUnauthorized(s) PROVE TokensInv'
  <2>1. calls[s].to # "nobody"
    BY <1>10 DEF ReportUnauthorized
  <2> QED
    BY <1>1, <1>10, <2>1 DEF ReportUnauthorized
<1> QED
  BY <1>3, <1>4, <1>5, <1>6, <1>7, <1>8, <1>9, <1>10 DEF SessionStep

\* Where the session stays, only an open console asks.
LEMMA TokensStay ==
    ASSUME TokensInv, UNCHANGED session,
           \A s \in Slots :
              calls'[s].to # "nobody" => calls[s].to # "nobody" \/ view = "authenticated"
    PROVE  TokensInv'
BY DEF TokensInv, session

(***************************************************************************)
(* What the other steps make of the calls.                                 *)
(***************************************************************************)
AllProper == calls \in [Slots -> Call] /\ \A s \in Slots : Proper(calls[s])

\* One call changes.
OneChanges(t) ==
    /\ calls' \in [Slots -> Call]
    /\ Proper(calls'[t])
    /\ \A s \in Slots \ {t} : calls'[s] = calls[s]

LEMMA OneBecomes ==
    ASSUME CallsShape, NEW t \in Slots, NEW STATE call, call \in Call, Proper(call),
           calls' = [calls EXCEPT ![t] = call]
    PROVE  OneChanges(t) /\ calls'[t] = call
BY DEF CallsShape, OneChanges

\* A call that is answered says so to those who wait, and is over otherwise.
LEMMA OneIsAnswered ==
    ASSUME CallsShape, NEW t \in Slots, NEW heard, NEW STATE next,
           calls[t].to \in heard => next \in Call /\ Proper(next),
           Answer(t, next, heard)
    PROVE  /\ OneChanges(t)
           /\ calls'[t] = IF calls[t].to \in heard THEN next ELSE NoCall
<1>1. CASE calls[t].to \in heard
  BY <1>1, OneBecomes DEF Answer
<1>2. CASE calls[t].to \notin heard
  <2>1. Proper(NoCall) /\ NoCall \in Call
    BY NoCallIsProper DEF Proper
  <2> QED
    BY <1>2, <2>1, OneBecomes DEF Answer
<1> QED
  BY <1>1, <1>2

\* The shape of the calls follows from that of the one that changes.
LEMMA OneKeepsShape ==
    ASSUME CallsShape, NEW t \in Slots, OneChanges(t),
           calls'[t].to = "page" =>
              \/ calls'[t].kind \in AuditKinds /\ list.mounted
              \/ calls'[t].kind \in ReviewKinds /\ page.mounted,
           list.mounted => list'.mounted, page.mounted => page'.mounted
    PROVE  CallsShape'
<1>1. ASSUME NEW s \in Slots PROVE Proper(calls'[s]) /\ Heard(calls[s])'
  <2>1. CASE s = t
    BY <2>1 DEF OneChanges, Heard
  <2>2. CASE s # t
    BY <2>2 DEF OneChanges, Heard, CallsShape
  <2> QED
    BY <2>1, <2>2
<1> QED
  BY <1>1 DEF CallsShape, OneChanges, Proper, Call

LEMMA OneIsDoneShape ==
    ASSUME CallsShape, NEW t \in Slots, Done(t) PROVE OneChanges(t) /\ calls'[t] = NoCall
BY OneIsDone DEF OneChanges, AllGoOn

\* The API refuses a token.
LEMMA RefuseTokenDoes ==
    ASSUME CallsShape, NEW t \in Slots, RefuseToken(t)
    PROVE  /\ OneChanges(t)
           /\ \/ calls[t].to = "nobody" /\ calls'[t] = NoCall
              \/ /\ calls'[t].kind = calls[t].kind /\ calls'[t].to = calls[t].to
                 /\ calls'[t].text = calls[t].text /\ calls'[t].yes = calls[t].yes
                 /\ calls'[t].rows = calls[t].rows /\ calls'[t].reply = "unauthorized"
<1> DEFINE next == [calls[t] EXCEPT !.reply = "unauthorized"]
<1>1. calls[t].reply = "sent" /\ Answer(t, next, Tab)
  BY DEF RefuseToken
<1>2. Proper(calls[t]) /\ calls[t].kind # "none"
  BY <1>1 DEF CallsShape, Proper
<1>3. next = [calls[t] EXCEPT !.reply = "unauthorized"]
  OBVIOUS
<1> HIDE DEF next
<1>4. CASE calls[t].to = "nobody"
  <2>1. calls[t].to \notin Tab
    BY <1>4 DEF Tab
  <2> QED
    BY <1>1, <1>4, <2>1, OneIsAnswered
<1>5. CASE calls[t].to # "nobody"
  <2>1. next \in Call /\ Proper(next)
    BY <1>2, <1>3, <1>5, RepliedIsProper
  <2>2. /\ next.kind = calls[t].kind /\ next.to = calls[t].to /\ next.text = calls[t].text
        /\ next.yes = calls[t].yes /\ next.rows = calls[t].rows /\ next.reply = "unauthorized"
    BY <1>2, <1>3, <1>5, RepliedIsProper DEF Proper, Call
  <2>3. calls[t].to \in Tab
    BY <1>2, <1>5 DEF Tab, Proper, Call
  <2> QED
    BY <1>1, <2>1, <2>2, <2>3, OneIsAnswered
<1> QED
  BY <1>4, <1>5

\* The connection of a call fails.
LEMMA FailDoes ==
    ASSUME CallsShape, NEW t \in Slots, Fail(t)
    PROVE  OneChanges(t) /\ GoesOn(calls'[t], calls[t]) /\ calls'[t].to = "nobody"
<1>1. Proper(calls[t])
  BY DEF CallsShape
<1>2. /\ Proper(Dropped(t)) /\ GoesOn(Dropped(t), calls[t]) /\ Dropped(t).to = "nobody"
  BY <1>1, DroppedGoesOn
<1>3. Proper(NoCall) /\ GoesOn(NoCall, calls[t]) /\ NoCall.to = "nobody"
  BY NoCallIsProper, NoCallGoesOn
<1>4. CASE calls' = [calls EXCEPT ![t] = Dropped(t)]
  <2>1. Dropped(t) \in Call
    BY <1>2 DEF Proper
  <2> QED
    BY <1>2, <1>4, <2>1, OneBecomes
<1>5. CASE Done(t)
  BY <1>3, <1>5, OneIsDoneShape
<1> QED
  BY <1>4, <1>5 DEF Fail

LEMMA ClickDoes ==
    ASSUME Shape, NEW kind \in DraftKinds, Click(kind)
    PROVE  /\ page.loaded /\ page.pending /\ UNCHANGED <<session, draft, escalated>>
           /\ \E t \in Slots :
                 /\ calls[t] = NoCall /\ OneChanges(t)
                 /\ calls'[t].kind = kind /\ calls'[t].text = page.draftBody
                 /\ calls'[t].to = "page" /\ calls'[t].reply = "sent"
<1>1. page.loaded /\ page.pending /\ UNCHANGED <<session, draft, escalated>>
  BY DEF Click, DraftOnShow
<1>2. PICK t \in Slots : Free(t) /\ calls' = [calls EXCEPT ![t] = Ask(kind, page.draftBody, 0)]
  BY DEF Click
<1>3. PICK text \in Texts : text = page.draftBody
  BY <1>1 DEF Shape, ReviewShape
<1>4. kind \in Kinds /\ kind # "mark" /\ text \in Texts \cup {NoText} /\ token \in 0 .. MaxTokens
  BY BrowserSessionAssumption DEF DraftKinds, Kinds, Writes, Shape, SessionShape, NoToken
<1> DEFINE call == Ask(kind, text, 0)
<1>5. call \in Call /\ Proper(call)
  BY <1>3, <1>4, AskIsProper
<1>6. call.kind = kind /\ call.text = text /\ call.to = "page" /\ call.reply = "sent"
  <2> HIDE DEF call
  <2>1. call = Ask(kind, text, 0)
    BY DEF call
  <2> QED
    BY <1>3, <1>4, <1>5, <2>1, AskIsProper DEF Call
<1>7. calls' = [calls EXCEPT ![t] = call]
  BY <1>2, <1>3
<1> HIDE DEF call
<1>8. OneChanges(t) /\ calls'[t] = call
  BY <1>5, <1>7, OneBecomes DEF Shape
<1> QED
  BY <1>1, <1>2, <1>3, <1>6, <1>8 DEF Free

\* An account is told as it is when the server looks.
LEMMA GetDetailDoes ==
    ASSUME CallsShape, ReviewShape, NEW t \in Slots, GetDetail(t)
    PROVE  /\ OneChanges(t) /\ calls[t].kind = "account"
           /\ \/ calls'[t] = NoCall
              \/ /\ calls'[t].kind = "account" /\ calls'[t].reply = "ok"
                 /\ calls[t].to = "page" /\ calls'[t].to = "page"
                 /\ calls'[t].yes => calls'[t].text = draft.body
<1> DEFINE pending == draft.status = "pending_review"
           body == IF pending THEN draft.body ELSE NoText
           next == [calls[t] EXCEPT !.reply = "ok", !.yes = pending, !.text = body]
<1>1. calls[t].kind = "account" /\ Answer(t, next, PageOnly)
  BY DEF GetDetail, Serve
<1>2. Proper(calls[t]) /\ calls[t] \in Call
  BY DEF CallsShape, Proper
<1>3. pending \in BOOLEAN /\ body \in Texts \cup {NoText} /\ (pending => body = draft.body)
  BY DEF ReviewShape, DraftRow
<1>4. pending => body \in Texts
  BY <1>3 DEF ReviewShape, DraftRow
<1>5. next = [calls[t] EXCEPT !.reply = "ok", !.yes = pending, !.text = body]
  OBVIOUS
<1> HIDE DEF next, body, pending
<1>6. /\ next \in Call /\ next.kind = "account" /\ next.reply = "ok" /\ next.to = calls[t].to
      /\ next.yes = pending /\ next.text = body
  BY <1>1, <1>2, <1>3, <1>5 DEF Call
<1>7. calls[t].to = "page" => Proper(next)
  BY <1>3, <1>4, <1>6 DEF Proper, DraftKinds
<1>8. CASE calls[t].to = "page"
  <2>1. OneChanges(t) /\ calls'[t] = next
    BY <1>1, <1>6, <1>7, <1>8, OneIsAnswered DEF PageOnly
  <2> QED
    BY <1>1, <1>3, <1>6, <1>8, <2>1
<1>9. CASE calls[t].to # "page"
  BY <1>1, <1>9, OneIsAnswered DEF PageOnly
<1> QED
  BY <1>8, <1>9

LEMMA ListEscalationsDoes ==
    ASSUME CallsShape, ReviewShape, NEW t \in Slots, ListEscalations(t)
    PROVE  /\ OneChanges(t) /\ calls[t].kind = "escalations"
           /\ \/ calls'[t] = NoCall
              \/ calls'[t].kind = "escalations" /\ calls[t].to = "page" /\ calls'[t].to = "page"
<1> DEFINE next == [calls[t] EXCEPT !.reply = "ok", !.yes = escalated]
<1>1. calls[t].kind = "escalations" /\ Answer(t, next, PageOnly)
  BY DEF ListEscalations, Serve
<1>2. Proper(calls[t]) /\ calls[t] \in Call
  BY DEF CallsShape, Proper
<1>3. escalated \in BOOLEAN
  BY DEF ReviewShape
<1>4. next = [calls[t] EXCEPT !.reply = "ok", !.yes = escalated]
  OBVIOUS
<1> HIDE DEF next
<1>5. /\ next \in Call /\ next.kind = "escalations" /\ next.reply = "ok" /\ next.to = calls[t].to
      /\ next.text = calls[t].text
  BY <1>1, <1>2, <1>3, <1>4 DEF Call
<1>6. calls[t].to = "page" => Proper(next)
  BY <1>1, <1>2, <1>5 DEF Proper, DraftKinds
<1>7. CASE calls[t].to = "page"
  <2>1. OneChanges(t) /\ calls'[t] = next
    BY <1>1, <1>5, <1>6, <1>7, OneIsAnswered DEF PageOnly
  <2> QED
    BY <1>1, <1>5, <1>7, <2>1
<1>8. CASE calls[t].to # "page"
  BY <1>1, <1>8, OneIsAnswered DEF PageOnly
<1> QED
  BY <1>7, <1>8

\* A draft's call is checked, or refused, or nobody is there to be told.
LEMMA CheckDraftDoes ==
    ASSUME CallsShape, NEW t \in Slots, CheckDraft(t)
    PROVE  /\ OneChanges(t) /\ calls[t].kind \in DraftKinds /\ calls[t].reply = "sent"
           /\ \/ calls'[t] = NoCall
              \/ /\ calls'[t].kind = calls[t].kind /\ calls'[t].text = calls[t].text
                 /\ calls'[t].to = calls[t].to /\ calls'[t].reply \in {"checked", "refused"}
<1>1. calls[t].kind \in DraftKinds /\ calls[t].reply = "sent"
  BY DEF CheckDraft, Serve
<1>2. Proper(calls[t]) /\ calls[t].kind # "none"
  BY <1>1 DEF CallsShape, DraftKinds
<1>3. CASE calls' = [calls EXCEPT ![t].reply = "checked"]
  <2> DEFINE next == [calls[t] EXCEPT !.reply = "checked"]
  <2>1. next = [calls[t] EXCEPT !.reply = "checked"]
    OBVIOUS
  <2>2. calls' = [calls EXCEPT ![t] = next]
    BY <1>3
  <2> HIDE DEF next
  <2>3. next \in Call /\ Proper(next)
    BY <1>1, <1>2, <2>1, RepliedIsProper
  <2>4. /\ next.kind = calls[t].kind /\ next.text = calls[t].text /\ next.to = calls[t].to
        /\ next.reply = "checked"
    BY <1>1, <1>2, <2>1, <2>3, RepliedIsProper DEF Proper, Call
  <2> QED
    BY <1>1, <2>2, <2>3, <2>4, OneBecomes
<1>4. CASE Answer(t, [calls[t] EXCEPT !.reply = "refused"], PageOnly)
  <2> DEFINE next == [calls[t] EXCEPT !.reply = "refused"]
  <2>1. next = [calls[t] EXCEPT !.reply = "refused"] /\ Answer(t, next, PageOnly)
    BY <1>4
  <2> HIDE DEF next
  <2>2. CASE calls[t].to = "page"
    <3>1. next \in Call /\ Proper(next)
      BY <1>1, <1>2, <2>1, <2>2, RepliedIsProper
    <3>2. /\ next.kind = calls[t].kind /\ next.text = calls[t].text /\ next.to = calls[t].to
          /\ next.reply = "refused"
      BY <1>1, <1>2, <2>1, <2>2, <3>1, RepliedIsProper DEF Proper, Call
    <3>3. OneChanges(t) /\ calls'[t] = next
      BY <2>1, <2>2, <3>1, OneIsAnswered DEF PageOnly
    <3> QED
      BY <1>1, <3>2, <3>3
  <2>3. CASE calls[t].to # "page"
    BY <1>1, <2>1, <2>3, OneIsAnswered DEF PageOnly
  <2> QED
    BY <2>2, <2>3
<1> QED
  BY <1>3, <1>4 DEF CheckDraft

\* A draft's call is carried out.
LEMMA WriteDraftDoes ==
    ASSUME CallsShape, NEW t \in Slots, WriteDraft(t)
    PROVE  /\ OneChanges(t) /\ calls[t].kind \in DraftKinds
           /\ calls[t].kind = "edit" => draft' = [draft EXCEPT !.body = calls[t].text]
           /\ calls[t].kind = "approve" => draft' = [draft EXCEPT !.status = "approved"]
           /\ calls[t].kind = "reject" => draft' = [draft EXCEPT !.status = "rejected"]
           /\ \/ calls'[t] = NoCall
              \/ /\ calls'[t].kind = calls[t].kind /\ calls'[t].text = calls[t].text
                 /\ calls[t].to = "page" /\ calls'[t].to = "page" /\ calls'[t].reply = "ok"
<1>1. calls[t].reply = "checked"
  BY DEF WriteDraft
<1>2. Proper(calls[t]) /\ calls[t].kind \in DraftKinds
  BY <1>1 DEF CallsShape, Proper
<1>3. calls[t].kind # "none"
  BY <1>2 DEF DraftKinds
<1> DEFINE next == [calls[t] EXCEPT !.reply = "ok"]
<1>4. next = [calls[t] EXCEPT !.reply = "ok"] /\ Answer(t, next, PageOnly)
  BY DEF WriteDraft
<1> HIDE DEF next
<1>5. /\ calls[t].kind = "edit" => draft' = [draft EXCEPT !.body = calls[t].text]
      /\ calls[t].kind = "approve" => draft' = [draft EXCEPT !.status = "approved"]
      /\ calls[t].kind = "reject" => draft' = [draft EXCEPT !.status = "rejected"]
  BY DEF WriteDraft
<1>6. CASE calls[t].to = "page"
  <2>1. next \in Call /\ Proper(next)
    BY <1>2, <1>3, <1>4, <1>6, RepliedIsProper
  <2>2. /\ next.kind = calls[t].kind /\ next.text = calls[t].text /\ next.to = "page"
        /\ next.reply = "ok"
    BY <1>2, <1>3, <1>4, <1>6, <2>1, RepliedIsProper DEF Proper, Call
  <2>3. OneChanges(t) /\ calls'[t] = next
    BY <1>4, <1>6, <2>1, OneIsAnswered DEF PageOnly
  <2> QED
    BY <1>2, <1>5, <1>6, <2>2, <2>3
<1>7. CASE calls[t].to # "page"
  BY <1>2, <1>4, <1>5, <1>7, OneIsAnswered DEF PageOnly
<1> QED
  BY <1>6, <1>7

\* The account page asks for two things at once.
LEMMA MountReviewDoes ==
    ASSUME Shape, MountReview
    PROVE  /\ AllProper'
           /\ \E s, t \in Slots :
                 /\ s # t /\ calls[s] = NoCall /\ calls[t] = NoCall
                 /\ calls'[s].kind = "account" /\ calls'[s].to = "page"
                 /\ calls'[s].reply = "sent"
                 /\ calls'[t].kind = "escalations" /\ calls'[t].to = "page"
                 /\ \A r \in Slots \ {s, t} : calls'[r] = calls[r]
<1>1. PICK s, t \in Slots :
         /\ s # t /\ Free(s) /\ Free(t)
         /\ calls' = [calls EXCEPT ![s] = Ask("account", NoText, 0),
                                   ![t] = Ask("escalations", NoText, 0)]
  BY DEF MountReview
<1>2. token \in 0 .. MaxTokens /\ "account" \in Kinds /\ "escalations" \in Kinds
  BY BrowserSessionAssumption DEF Kinds, Shape, SessionShape, NoToken
<1>3. NoText \in Texts \cup {NoText} /\ "account" \notin DraftKinds /\ "escalations" \notin DraftKinds
  BY DEF DraftKinds
<1> DEFINE one == Ask("account", NoText, 0)
           two == Ask("escalations", NoText, 0)
<1>4. one \in Call /\ Proper(one) /\ two \in Call /\ Proper(two)
  BY <1>2, <1>3, AskIsProper
<1>5. one = Ask("account", NoText, 0) /\ two = Ask("escalations", NoText, 0)
  OBVIOUS
<1>6. calls' = [calls EXCEPT ![s] = one, ![t] = two]
  BY <1>1
<1> HIDE DEF one, two
<1>7. one.kind = "account" /\ one.to = "page" /\ one.reply = "sent"
  BY <1>2, <1>3, <1>4, <1>5, AskIsProper DEF Call
<1>8. two.kind = "escalations" /\ two.to = "page"
  BY <1>2, <1>3, <1>4, <1>5, AskIsProper DEF Call
<1>9. /\ calls' \in [Slots -> Call] /\ calls'[s] = one /\ calls'[t] = two
      /\ \A r \in Slots \ {s, t} : calls'[r] = calls[r]
  BY <1>1, <1>4, <1>6 DEF Shape, CallsShape
<1>10. ASSUME NEW r \in Slots PROVE Proper(calls'[r])
  <2>1. CASE r = s
    BY <1>4, <1>9, <2>1
  <2>2. CASE r = t
    BY <1>4, <1>9, <2>2
  <2>3. CASE r # s /\ r # t
    BY <1>9, <2>3 DEF Shape, CallsShape
  <2> QED
    BY <2>1, <2>2, <2>3
<1> QED
  BY <1>1, <1>7, <1>8, <1>9, <1>10 DEF AllProper, Free

LEMMA MountAuditDoes ==
    ASSUME Shape, MountAudit
    PROVE  \E t \in Slots :
              /\ calls[t] = NoCall /\ OneChanges(t)
              /\ calls'[t].kind = "samples" /\ calls'[t].to = "page" /\ calls'[t].reply = "sent"
<1>1. PICK t \in Slots : Free(t) /\ calls' = [calls EXCEPT ![t] = Ask("samples", NoText, 0)]
  BY DEF MountAudit
<1>2. token \in 0 .. MaxTokens /\ "samples" \in Kinds
  BY BrowserSessionAssumption DEF Kinds, Shape, SessionShape, NoToken
<1>3. NoText \in Texts \cup {NoText} /\ "samples" \notin DraftKinds
  BY DEF DraftKinds
<1> DEFINE call == Ask("samples", NoText, 0)
<1>4. call \in Call /\ Proper(call)
  BY <1>2, <1>3, AskIsProper
<1>5. call = Ask("samples", NoText, 0) /\ calls' = [calls EXCEPT ![t] = call]
  BY <1>1
<1> HIDE DEF call
<1>6. call.kind = "samples" /\ call.to = "page" /\ call.reply = "sent"
  BY <1>2, <1>3, <1>4, <1>5, AskIsProper DEF Call
<1>7. OneChanges(t) /\ calls'[t] = call
  BY <1>4, <1>5, OneBecomes DEF Shape
<1> QED
  BY <1>1, <1>6, <1>7 DEF Free

LEMMA MarkDoes ==
    ASSUME Shape, Mark
    PROVE  \E t \in Slots :
              /\ calls[t] = NoCall /\ OneChanges(t)
              /\ calls'[t].kind = "mark" /\ calls'[t].to = "page" /\ calls'[t].reply = "sent"
<1>1. PICK row \in list.rows, verdict \in Verdicts, t \in Slots :
         /\ Free(t)
         /\ calls' = [calls EXCEPT ![t] = [Ask("mark", NoText, row.id) EXCEPT !.text = verdict]]
  BY DEF Mark
<1>2. row \in Row
  BY <1>1 DEF Shape, AuditShape
<1>3. PICK n \in 1 .. MaxSamples : n = row.id
  BY <1>2 DEF Row
<1>4. token \in 0 .. MaxTokens
  BY BrowserSessionAssumption DEF Shape, SessionShape, NoToken
<1> DEFINE call == [Ask("mark", NoText, n) EXCEPT !.text = verdict]
<1>5. call = [Ask("mark", NoText, n) EXCEPT !.text = verdict] /\ calls' = [calls EXCEPT ![t] = call]
  BY <1>1, <1>3
<1> HIDE DEF call
<1>6. call \in Call /\ Proper(call)
  BY <1>4, <1>5, VerdictIsProper
<1>7. call.kind = "mark" /\ call.to = "page" /\ call.reply = "sent"
  BY <1>4, <1>5, <1>6, VerdictIsProper DEF Call
<1>8. OneChanges(t) /\ calls'[t] = call
  BY <1>5, <1>6, OneBecomes DEF Shape
<1> QED
  BY <1>1, <1>7, <1>8 DEF Free

\* The page that is told of its verdict asks for the list again; so does the tab without it.
LEMMA RefreshDoes ==
    ASSUME Shape, NEW t \in Slots, Refresh(t)
    PROVE  /\ OneChanges(t) /\ calls[t].kind = "mark"
           /\ calls[t].to \in {"page", "tab"} /\ calls'[t].to = calls[t].to
           /\ calls'[t].kind = "samples" /\ calls'[t].reply = "sent"
<1> DEFINE call == [Ask("samples", NoText, 0) EXCEPT !.to = calls[t].to]
<1>1. /\ calls[t].kind = "mark" /\ calls[t].reply = "ok"
      /\ call = [Ask("samples", NoText, 0) EXCEPT !.to = calls[t].to]
      /\ calls' = [calls EXCEPT ![t] = call]
  BY DEF Refresh
<1>2. calls[t].to \in {"page", "tab"}
  BY <1>1 DEF Shape, CallsShape, Proper
<1>3. token \in 0 .. MaxTokens
  BY BrowserSessionAssumption DEF Shape, SessionShape, NoToken
<1> HIDE DEF call
<1>4. call \in Call /\ Proper(call)
  BY <1>1, <1>2, <1>3, AgainIsProper
<1>5. call.kind = "samples" /\ call.to = calls[t].to /\ call.reply = "sent"
  BY <1>1, <1>2, <1>3, <1>4, AgainIsProper DEF Call
<1>6. OneChanges(t) /\ calls'[t] = call
  BY <1>1, <1>4, OneBecomes DEF Shape
<1> QED
  BY <1>1, <1>2, <1>5, <1>6

\* What the page lists are samples.
LEMMA FirstPageIsRows == ASSUME AuditShape PROVE FirstPage \in SUBSET Row
<1>1. PICK n \in 0 .. MaxSamples : samples \in [1 .. n -> ReviewStatus]
  BY DEF AuditShape, Collections
<1>2. ASSUME NEW k \in Drawn PROVE [id |-> k, reviewStatus |-> samples[k]] \in Row
  <2>1. k \in 1 .. n /\ samples[k] \in ReviewStatus
    BY <1>1 DEF Drawn
  <2>2. k \in 1 .. MaxSamples
    BY <1>1, <2>1, AuditPageAssumption
  <2> QED
    BY <2>1, <2>2 DEF Row
<1> QED
  BY <1>2 DEF FirstPage

LEMMA ListSamplesDoes ==
    ASSUME Shape, NEW t \in Slots, ListSamples(t)
    PROVE  /\ OneChanges(t) /\ calls[t].kind = "samples"
           /\ \/ calls'[t] = NoCall /\ calls[t].to # "page"
              \/ /\ calls'[t].kind = "samples" /\ calls[t].to = "page" /\ calls'[t].to = "page"
                 /\ calls'[t].reply = "ok" /\ calls'[t].rows = FirstPage
<1> DEFINE rows == FirstPage
           next == [calls[t] EXCEPT !.reply = "ok", !.rows = rows]
<1>1. calls[t].kind = "samples" /\ Answer(t, next, PageOnly)
  BY DEF ListSamples, Asked
<1>2. Proper(calls[t]) /\ calls[t] \in Call
  BY DEF Shape, CallsShape, Proper
<1>3. rows \in SUBSET Row /\ rows = FirstPage
  BY FirstPageIsRows DEF Shape
<1>4. next = [calls[t] EXCEPT !.reply = "ok", !.rows = rows]
  OBVIOUS
<1> HIDE DEF next, rows
<1>5. /\ next \in Call /\ next.kind = "samples" /\ next.reply = "ok" /\ next.to = calls[t].to
      /\ next.rows = rows
  BY <1>1, <1>2, <1>3, <1>4 DEF Call
<1>6. calls[t].to = "page" => Proper(next)
  BY <1>5 DEF Proper, DraftKinds, ReviewKinds
<1>7. CASE calls[t].to = "page"
  <2>1. OneChanges(t) /\ calls'[t] = next
    BY <1>1, <1>5, <1>6, <1>7, OneIsAnswered DEF PageOnly, Shape
  <2> QED
    BY <1>1, <1>3, <1>5, <1>7, <2>1
<1>8. CASE calls[t].to # "page"
  BY <1>1, <1>8, OneIsAnswered DEF PageOnly, Shape
<1> QED
  BY <1>7, <1>8

LEMMA MarkSampleDoes ==
    ASSUME Shape, NEW t \in Slots, MarkSample(t)
    PROVE  /\ OneChanges(t) /\ calls[t].kind = "mark" /\ calls[t].text \in Verdicts
           /\ \/ calls'[t] = NoCall /\ calls[t].to = "nobody"
              \/ calls'[t].kind = "mark" /\ calls'[t].to = calls[t].to /\ calls[t].to # "nobody"
<1> DEFINE next == [calls[t] EXCEPT !.reply = "ok"]
<1>1. /\ calls[t].kind = "mark" /\ Answer(t, next, Tab)
      /\ next = [calls[t] EXCEPT !.reply = "ok"]
  BY DEF MarkSample, Asked
<1>2. Proper(calls[t]) /\ calls[t].kind # "none"
  BY <1>1 DEF Shape, CallsShape
<1>3. calls[t].text \in Verdicts /\ calls[t].to \in {"page", "tab", "nobody"}
  BY <1>1, <1>2 DEF Proper, Call
<1> HIDE DEF next
<1>4. CASE calls[t].to # "nobody"
  <2>1. next \in Call /\ Proper(next)
    BY <1>1, <1>2, <1>3, <1>4, RepliedIsProper
  <2>2. next.kind = calls[t].kind /\ next.to = calls[t].to
    BY <1>1, <1>2, <1>3, <1>4, <2>1, RepliedIsProper DEF Proper, Call
  <2>3. OneChanges(t) /\ calls'[t] = next
    BY <1>1, <1>3, <1>4, <2>1, OneIsAnswered DEF Tab, Shape
  <2> QED
    BY <1>1, <1>3, <1>4, <2>2, <2>3
<1>5. CASE calls[t].to = "nobody"
  <2>1. calls[t].to \notin Tab
    BY <1>5 DEF Tab
  <2> QED
    BY <1>1, <1>3, <1>5, <2>1, OneIsAnswered DEF Shape
<1> QED
  BY <1>4, <1>5

(***************************************************************************)
(* The shape is kept.                                                      *)
(***************************************************************************)
LEMMA NoSamples == <<>> \in Collections
<1>1. 0 \in 0 .. MaxSamples
  BY AuditPageAssumption
<1>2. <<>> \in [1 .. 0 -> ReviewStatus]
  OBVIOUS
<1> QED
  BY <1>1, <1>2 DEF Collections

LEMMA LeaveKeepsShape ==
    ASSUME Shape, AllGoOn, \A s \in Slots : calls'[s].to # "page", Leave
    PROVE  ReviewShape' /\ AuditShape' /\ CallsShape' /\ ~page'.mounted /\ ~list'.mounted
<1>1. CallsShape'
  BY DEF AllGoOn, CallsShape, Heard
<1>2. page' = NoPage /\ list' = NoList /\ disturbed' = FALSE
  BY DEF Leave, LeaveReview, LeaveAudit
<1>3. /\ NoPage \in Page /\ ~NoPage.mounted /\ ~NoPage.loaded /\ ~NoPage.pending
  BY DEF NoPage, Page, Decisions
<1>4. /\ NoList \in [mounted: BOOLEAN, loaded: BOOLEAN, error: BOOLEAN, rows: SUBSET Row]
      /\ ~NoList.mounted /\ ~NoList.loaded
  BY DEF NoList
<1>5. NewDraft \in DraftRow
  BY ReviewPageAssumption DEF NewDraft, DraftRow
<1>6. draft' \in DraftRow /\ escalated' \in BOOLEAN /\ doubt' \in BOOLEAN
  BY <1>5 DEF Leave, LeaveReview, Shape, ReviewShape
<1>7. samples' \in Collections
  BY NoSamples DEF Leave, LeaveAudit, Shape, AuditShape
<1> QED
  BY <1>1, <1>2, <1>3, <1>4, <1>6, <1>7 DEF ReviewShape, AuditShape

\* The review page's own steps and the server's.
LEMMA ReviewUseKeepsShape ==
    ASSUME Shape, ReviewUse, UNCHANGED audit
    PROVE  ReviewShape' /\ CallsShape' /\ UNCHANGED session /\ page'.mounted = page.mounted
<1> USE DEF Shape
<1>0. UNCHANGED list
  BY DEF audit
<1>1. ASSUME NEW kind \in DraftKinds, Click(kind), UNCHANGED page, doubt' \in BOOLEAN
      PROVE  ReviewShape' /\ CallsShape' /\ UNCHANGED session /\ page'.mounted = page.mounted
  <2>1. PICK t \in Slots : /\ OneChanges(t) /\ calls'[t].kind = kind
                           /\ calls'[t].to = "page"
    BY <1>1, ClickDoes
  <2>2. page.mounted /\ UNCHANGED <<session, draft, escalated>>
    BY <1>1, ClickDoes DEF ReviewShape
  <2>3. CallsShape'
    BY <1>1, <2>1, <2>2, <1>0, OneKeepsShape DEF ReviewKinds
  <2> QED
    BY <1>1, <2>2, <2>3 DEF ReviewShape, session
<1>3. CASE Edit
  <2> DEFINE next == [page EXCEPT !.editing = TRUE]
  <2>1. Local(next) /\ next = [page EXCEPT !.editing = TRUE] /\ UNCHANGED doubt
    BY <1>3 DEF Edit
  <2> HIDE DEF next
  <2>2. /\ next \in Page /\ next.mounted = page.mounted /\ next.loaded = page.loaded
        /\ next.pending => next.draftBody \in Texts
    BY <2>1 DEF Page, ReviewShape
  <2> QED
    BY <1>0, <2>1, <2>2 DEF Local, ReviewShape, CallsShape, Heard
<1>4. CASE Type
  <2>1. PICK text \in Revisions : Local([page EXCEPT !.draftBody = text]) /\ UNCHANGED doubt
    BY <1>4 DEF Type
  <2>2. text \in Texts
    BY ReviewPageAssumption
  <2>3. /\ page' \in Page /\ page'.mounted = page.mounted /\ page'.loaded = page.loaded
        /\ page'.draftBody \in Texts
    BY <2>1, <2>2 DEF Page, ReviewShape, Local
  <2> QED
    BY <1>0, <2>1, <2>3 DEF Local, ReviewShape, CallsShape, Heard
<1>5. CASE Cancel
  <2>1. Local([page EXCEPT !.editing = FALSE]) /\ doubt' = TRUE
    BY <1>5 DEF Cancel
  <2>2. /\ page' \in Page /\ page'.mounted = page.mounted /\ page'.loaded = page.loaded
        /\ page'.pending => page'.draftBody \in Texts
    BY <2>1 DEF Page, ReviewShape, Local
  <2> QED
    BY <1>0, <2>1, <2>2 DEF Local, ReviewShape, CallsShape, Heard
<1>6. CASE Save
  <2>1. Click("edit") /\ UNCHANGED page /\ doubt' \in BOOLEAN
    BY <1>6 DEF Save, ReviewShape
  <2> QED
    BY <1>1, <2>1 DEF DraftKinds
<1>7. CASE Approve
  BY <1>1, <1>7 DEF Approve, ReviewShape, DraftKinds
<1>8. CASE Reject
  BY <1>1, <1>8 DEF Reject, ReviewShape, DraftKinds
<1> QED
  BY <1>3, <1>4, <1>5, <1>6, <1>7, <1>8 DEF ReviewUse

LEMMA ReviewServerKeepsShape ==
    ASSUME Shape, ReviewServer, UNCHANGED audit
    PROVE  ReviewShape' /\ CallsShape' /\ UNCHANGED session /\ UNCHANGED page
<1> USE DEF Shape
<1>0. UNCHANGED list
  BY DEF audit
<1>1. CASE OtherReviewer
  <2>1. draft' \in DraftRow
    <3>1. CASE \E text \in Revisions : draft' = [draft EXCEPT !.body = text]
      BY <3>1, ReviewPageAssumption DEF ReviewShape, DraftRow
    <3>2. CASE \E status \in {"approved", "rejected"} : draft' = [draft EXCEPT !.status = status]
      BY <3>2 DEF ReviewShape, DraftRow
    <3> QED
      BY <1>1, <3>1, <3>2 DEF OtherReviewer
  <2> QED
    BY <1>0, <1>1, <2>1 DEF OtherReviewer, ReviewShape, CallsShape, Heard
<1>2. CASE ChangeEscalation
  BY <1>0, <1>2 DEF ChangeEscalation, ReviewShape, CallsShape, Heard
<1>3. ASSUME NEW t \in Slots, GetDetail(t)
      PROVE  ReviewShape' /\ CallsShape' /\ UNCHANGED session /\ UNCHANGED page
  <2>1. /\ OneChanges(t) /\ calls[t].kind = "account"
        /\ \/ calls'[t] = NoCall
           \/ calls'[t].kind = "account" /\ calls[t].to = "page"
    BY <1>3, GetDetailDoes
  <2>2. UNCHANGED <<session, review>>
    BY <1>3 DEF GetDetail
  <2>3. calls'[t].to = "page" => calls'[t].kind \in ReviewKinds /\ page.mounted
    BY <2>1, NoCallIsProper DEF CallsShape, Heard, ReviewKinds, AuditKinds
  <2>4. CallsShape'
    BY <2>1, <2>2, <2>3, <1>0, OneKeepsShape DEF review
  <2> QED
    BY <2>2, <2>4 DEF review, ReviewShape
<1>4. ASSUME NEW t \in Slots, ListEscalations(t)
      PROVE  ReviewShape' /\ CallsShape' /\ UNCHANGED session /\ UNCHANGED page
  <2>1. /\ OneChanges(t) /\ calls[t].kind = "escalations"
        /\ \/ calls'[t] = NoCall
           \/ calls'[t].kind = "escalations" /\ calls[t].to = "page"
    BY <1>4, ListEscalationsDoes
  <2>2. UNCHANGED <<session, review>>
    BY <1>4 DEF ListEscalations
  <2>3. calls'[t].to = "page" => calls'[t].kind \in ReviewKinds /\ page.mounted
    BY <2>1, NoCallIsProper DEF CallsShape, Heard, ReviewKinds, AuditKinds
  <2> QED
    BY <2>2, <2>1, <2>3, <1>0, OneKeepsShape DEF review, ReviewShape
<1>5. ASSUME NEW t \in Slots, CheckDraft(t)
      PROVE  ReviewShape' /\ CallsShape' /\ UNCHANGED session /\ UNCHANGED page
  <2>1. /\ OneChanges(t) /\ calls[t].kind \in DraftKinds
        /\ \/ calls'[t] = NoCall
           \/ calls'[t].kind = calls[t].kind /\ calls[t].to = calls'[t].to
    BY <1>5, CheckDraftDoes
  <2>2. UNCHANGED <<session, review>>
    BY <1>5 DEF CheckDraft
  <2>3. calls'[t].to = "page" => calls'[t].kind \in ReviewKinds /\ page.mounted
    BY <2>1, NoCallIsProper DEF CallsShape, Heard, ReviewKinds, AuditKinds, DraftKinds
  <2> QED
    BY <2>2, <2>1, <2>3, <1>0, OneKeepsShape DEF review, ReviewShape
<1>6. ASSUME NEW t \in Slots, WriteDraft(t)
      PROVE  ReviewShape' /\ CallsShape' /\ UNCHANGED session /\ UNCHANGED page
  <2>1. /\ OneChanges(t) /\ calls[t].kind \in DraftKinds
        /\ calls[t].kind = "edit" => draft' = [draft EXCEPT !.body = calls[t].text]
        /\ calls[t].kind = "approve" => draft' = [draft EXCEPT !.status = "approved"]
        /\ calls[t].kind = "reject" => draft' = [draft EXCEPT !.status = "rejected"]
        /\ \/ calls'[t] = NoCall
           \/ calls'[t].kind = calls[t].kind /\ calls[t].to = "page"
    BY <1>6, WriteDraftDoes
  <2>2. UNCHANGED <<session, escalated, page, doubt>>
    BY <1>6 DEF WriteDraft
  <2>3. calls'[t].to = "page" => calls'[t].kind \in ReviewKinds /\ page.mounted
    BY <2>1, NoCallIsProper DEF CallsShape, Heard, ReviewKinds, AuditKinds, DraftKinds
  <2>4. PICK text \in Texts : text = calls[t].text
    BY <2>1 DEF CallsShape, Proper
  <2>5. draft' \in DraftRow
    BY <2>1, <2>4 DEF ReviewShape, DraftRow, DraftKinds
  <2> QED
    BY <2>2, <2>1, <2>3, <2>5, <1>0, OneKeepsShape DEF ReviewShape
<1> QED
  BY <1>1, <1>2, <1>3, <1>4, <1>5, <1>6 DEF ReviewServer

\* The page is told: it was mounted, and what it shows is of its kind.
LEMMA HearReviewKeepsShape ==
    ASSUME Shape, NEW t \in Slots, HearReview(t), UNCHANGED audit
    PROVE  ReviewShape' /\ CallsShape' /\ UNCHANGED session /\ page'.mounted = page.mounted
<1> USE DEF Shape
<1>1. /\ calls[t].to = "page" /\ calls[t].kind \in ReviewKinds
      /\ page' = Show(t) \/ UNCHANGED page
      /\ calls[t].reply \in {"ok", "refused"}
      /\ Done(t) /\ UNCHANGED <<session, draft, escalated, doubt>>
  BY DEF HearReview, ReviewKinds
<1>2. page.mounted /\ Proper(calls[t])
  BY <1>1 DEF CallsShape, Heard, ReviewKinds, DraftKinds, AuditKinds
<1>3. OneChanges(t) /\ calls'[t] = NoCall
  BY <1>1, OneIsDoneShape
<1>4. /\ page' \in Page /\ page'.mounted = page.mounted
      /\ page'.pending => page'.draftBody \in Texts
  <2>1. CASE UNCHANGED page
    BY <2>1 DEF ReviewShape
  <2>2. CASE page' = Show(t)
    <3>1. PICK text \in Texts \cup {NoText} : text = calls[t].text
      BY <1>1, <1>2 DEF Proper
    <3>2. PICK yes \in BOOLEAN : yes = calls[t].yes
      BY <1>2 DEF Proper, Call
    <3>3. CASE calls[t].kind = "account"
      <4>1. page' = [page EXCEPT !.loaded = TRUE, !.pending = yes, !.draftBody = text]
        BY <2>2, <3>1, <3>2, <3>3 DEF Show
      <4>2. yes => text \in Texts
        BY <1>2, <3>1, <3>2, <3>3 DEF Proper
      <4> QED
        BY <4>1, <4>2 DEF ReviewShape, Page
    <3>4. CASE calls[t].kind = "escalations"
      BY <2>2, <3>2, <3>4 DEF Show, ReviewShape, Page
    <3>5. CASE calls[t].kind = "edit"
      <4>1. page' = [page EXCEPT !.draftBody = text, !.editing = FALSE]
        BY <2>2, <3>1, <3>5 DEF Show
      <4>2. text \in Texts
        BY <1>2, <3>1, <3>5 DEF Proper, DraftKinds
      <4> QED
        BY <4>1, <4>2 DEF ReviewShape, Page
    <3>6. CASE calls[t].kind = "approve"
      BY <2>2, <3>6 DEF Show, ReviewShape, Page, Decisions
    <3>7. CASE calls[t].kind = "reject"
      BY <2>2, <3>7 DEF Show, ReviewShape, Page, Decisions
    <3> QED
      BY <1>1, <3>3, <3>4, <3>5, <3>6, <3>7 DEF ReviewKinds, DraftKinds
  <2> QED
    BY <1>1, <2>1, <2>2
<1>5. UNCHANGED list /\ calls'[t].to # "page"
  BY <1>3, NoCallIsProper DEF audit
<1> QED
  BY <1>1, <1>2, <1>3, <1>4, <1>5, OneKeepsShape DEF ReviewShape

LEMMA FailReviewKeepsShape ==
    ASSUME Shape, NEW t \in Slots, FailReview(t), UNCHANGED audit
    PROVE  ReviewShape' /\ CallsShape' /\ UNCHANGED session /\ UNCHANGED page
<1>1. OneChanges(t) /\ calls'[t].to = "nobody"
  BY FailDoes DEF FailReview, Shape
<1>2. UNCHANGED <<session, review>> /\ UNCHANGED list
  BY DEF FailReview, audit
<1> QED
  BY <1>1, <1>2, OneKeepsShape DEF Shape, review, ReviewShape

LEMMA MountReviewKeepsShape ==
    ASSUME Shape, MountReview, UNCHANGED audit
    PROVE  ReviewShape' /\ CallsShape' /\ UNCHANGED session /\ page'.mounted
<1> USE DEF Shape
<1>1. /\ page' = [NoPage EXCEPT !.mounted = TRUE] /\ UNCHANGED session /\ UNCHANGED list
      /\ doubt' \in BOOLEAN /\ draft' \in DraftRow /\ escalated' \in BOOLEAN
  BY DEF MountReview, audit, ReviewShape, DraftRow
<1>2. /\ page' \in Page /\ page'.mounted /\ ~page'.loaded /\ ~page'.pending
  BY <1>1 DEF NoPage, Page, Decisions
<1>3. CallsShape'
  <2>1. AllProper'
    BY MountReviewDoes
  <2>2. PICK s, t \in Slots :
           /\ calls'[s].kind = "account" /\ calls'[t].kind = "escalations"
           /\ \A r \in Slots \ {s, t} : calls'[r] = calls[r]
    BY MountReviewDoes
  <2>3. ASSUME NEW r \in Slots PROVE Heard(calls[r])'
    <3>1. CASE r = s \/ r = t
      BY <1>2, <2>2, <3>1 DEF Heard, ReviewKinds
    <3>2. CASE r # s /\ r # t
      BY <1>1, <1>2, <2>2, <3>2 DEF Heard, CallsShape
    <3> QED
      BY <3>1, <3>2
  <2> QED
    BY <2>1, <2>3 DEF CallsShape, AllProper
<1> QED
  BY <1>1, <1>2, <1>3 DEF ReviewShape

\* The Send Audit page and its samples.
LEMMA SamplesStay ==
    ASSUME AuditShape, NEW n, NEW STATE verdict, verdict \in ReviewStatus,
           samples' = [samples EXCEPT ![n] = verdict]
    PROVE  samples' \in Collections
<1>1. PICK m \in 0 .. MaxSamples : samples \in [1 .. m -> ReviewStatus]
  BY DEF AuditShape, Collections
<1>2. samples' \in [1 .. m -> ReviewStatus]
  BY <1>1
<1> QED
  BY <1>2 DEF Collections

LEMMA OneMoreSample ==
    ASSUME AuditShape, DrawSample
    PROVE  samples' \in Collections
<1>1. PICK m \in 0 .. MaxSamples : samples \in [1 .. m -> ReviewStatus]
  BY DEF AuditShape, Collections
<1>2. Drawn = 1 .. m
  BY <1>1 DEF Drawn
<1>3. Cardinality(Drawn) = m
  <2>1. m \in Nat /\ 1 \in Int /\ m \in Int
    BY <1>1
  <2>2. Cardinality(1 .. m) = IF 1 > m THEN 0 ELSE m - 1 + 1
    BY <2>1, FS_Interval
  <2> QED
    BY <1>2, <2>1, <2>2
<1>4. m + 1 \in 0 .. MaxSamples
  BY <1>1, <1>3, AuditPageAssumption DEF DrawSample
<1>5. samples' = [n \in 1 .. m + 1 |-> IF n \in Drawn THEN samples[n] ELSE "unreviewed"]
  BY <1>3 DEF DrawSample
<1>6. samples' \in [1 .. m + 1 -> ReviewStatus]
  <2>1. ASSUME NEW n \in 1 .. m + 1
        PROVE  (IF n \in Drawn THEN samples[n] ELSE "unreviewed") \in ReviewStatus
    BY <1>1, <1>2 DEF ReviewStatus
  <2> QED
    BY <1>5, <2>1
<1> QED
  BY <1>4, <1>6 DEF Collections

LEMMA MountAuditKeepsShape ==
    ASSUME Shape, MountAudit, UNCHANGED review
    PROVE  AuditShape' /\ CallsShape' /\ UNCHANGED session /\ list'.mounted
<1> USE DEF Shape
<1>1. list' = [NoList EXCEPT !.mounted = TRUE] /\ UNCHANGED session /\ UNCHANGED page
  BY DEF MountAudit, review
<1>2. samples' \in Collections /\ disturbed' \in BOOLEAN
  BY DEF MountAudit, AuditShape
<1>3. /\ list' \in [mounted: BOOLEAN, loaded: BOOLEAN, error: BOOLEAN, rows: SUBSET Row]
      /\ list'.mounted /\ ~list'.loaded
  BY <1>1 DEF NoList
<1>4. PICK t \in Slots : OneChanges(t) /\ calls'[t].kind = "samples" /\ calls'[t].to = "page"
  BY MountAuditDoes
<1>5. CallsShape'
  <2>1. ASSUME NEW s \in Slots PROVE Proper(calls'[s]) /\ Heard(calls[s])'
    <3>1. CASE s = t
      BY <1>3, <1>4, <3>1 DEF OneChanges, Heard, AuditKinds
    <3>2. CASE s # t
      BY <1>1, <1>3, <1>4, <3>2 DEF OneChanges, Heard, CallsShape
    <3> QED
      BY <3>1, <3>2
  <2> QED
    BY <1>4, <2>1 DEF CallsShape, OneChanges
<1> QED
  BY <1>1, <1>2, <1>3, <1>5 DEF AuditShape

LEMMA OnSendAuditKeepsShape ==
    ASSUME Shape, OnSendAudit
    PROVE  /\ ReviewShape' /\ AuditShape' /\ CallsShape' /\ UNCHANGED session
           /\ list'.mounted = list.mounted
<1> USE DEF Shape
<1>0. UNCHANGED review /\ UNCHANGED page
  BY DEF OnSendAudit, review
<1>1. CASE Mark
  <2>1. PICK t \in Slots : OneChanges(t) /\ calls'[t].kind = "mark"
    BY <1>1, MarkDoes
  <2>2. list.mounted /\ UNCHANGED <<session, samples, list>> /\ disturbed' \in BOOLEAN
    BY <1>1 DEF Mark, AuditShape
  <2>3. CallsShape'
    BY <1>0, <2>1, <2>2, OneKeepsShape DEF AuditKinds
  <2> QED
    BY <1>0, <2>2, <2>3 DEF AuditShape, ReviewShape, review
<1>2. CASE OtherVerdict
  <2>1. PICK n \in Drawn, verdict \in Verdicts : samples' = [samples EXCEPT ![n] = verdict]
    BY <1>2 DEF OtherVerdict
  <2>2. verdict \in ReviewStatus
    BY DEF Verdicts, ReviewStatus
  <2>3. samples' \in Collections
    BY <2>1, <2>2, SamplesStay
  <2> QED
    BY <1>0, <1>2, <2>3 DEF OtherVerdict, AuditShape, ReviewShape, review, CallsShape, Heard
<1>3. CASE DrawSample
  <2>1. samples' \in Collections
    BY <1>3, OneMoreSample
  <2> QED
    BY <1>0, <1>3, <2>1 DEF DrawSample, AuditShape, ReviewShape, review, CallsShape, Heard
<1>4. ASSUME NEW t \in Slots, OneChanges(t), UNCHANGED session,
             calls'[t].to = "page" => calls'[t].kind \in AuditKinds /\ list.mounted,
             list'.mounted = list.mounted, AuditShape'
      PROVE  /\ ReviewShape' /\ AuditShape' /\ CallsShape' /\ UNCHANGED session
             /\ list'.mounted = list.mounted
  <2>1. CallsShape'
    BY <1>0, <1>4, OneKeepsShape
  <2> QED
    BY <1>0, <1>4, <2>1 DEF ReviewShape, review
<1>5. ASSUME NEW t \in Slots, ListSamples(t)
      PROVE  /\ ReviewShape' /\ AuditShape' /\ CallsShape' /\ UNCHANGED session
             /\ list'.mounted = list.mounted
  <2>1. /\ OneChanges(t) /\ calls[t].kind = "samples"
        /\ \/ calls'[t] = NoCall
           \/ calls'[t].kind = "samples" /\ calls[t].to = "page"
    BY <1>5, ListSamplesDoes
  <2>2. calls'[t].to = "page" => calls'[t].kind \in AuditKinds /\ list.mounted
    BY <2>1, NoCallIsProper DEF CallsShape, Heard, ReviewKinds, DraftKinds, AuditKinds
  <2>3. AuditShape' /\ UNCHANGED session /\ list'.mounted = list.mounted
    BY <1>5 DEF ListSamples, audit, AuditShape
  <2> QED
    BY <1>4, <2>1, <2>2, <2>3
<1>6. ASSUME NEW t \in Slots, MarkSample(t)
      PROVE  /\ ReviewShape' /\ AuditShape' /\ CallsShape' /\ UNCHANGED session
             /\ list'.mounted = list.mounted
  <2>1. /\ OneChanges(t) /\ calls[t].kind = "mark" /\ calls[t].text \in Verdicts
        /\ \/ calls'[t] = NoCall
           \/ calls'[t].kind = "mark" /\ calls'[t].to = calls[t].to
    BY <1>6, MarkSampleDoes
  <2>2. calls'[t].to = "page" => calls'[t].kind \in AuditKinds /\ list.mounted
    BY <2>1, NoCallIsProper DEF CallsShape, Heard, ReviewKinds, DraftKinds, AuditKinds
  <2>3. UNCHANGED <<session, list, disturbed>>
    BY <1>6 DEF MarkSample
  <2>4. samples' \in Collections
    <3>1. PICK verdict \in Verdicts : verdict = calls[t].text
      BY <2>1
    <3>2. PICK n : n = calls[t].sample
      OBVIOUS
    <3>3. samples' = [samples EXCEPT ![n] = verdict]
      BY <1>6, <3>1, <3>2 DEF MarkSample
    <3>4. verdict \in ReviewStatus
      BY DEF Verdicts, ReviewStatus
    <3> QED
      BY <3>3, <3>4, SamplesStay
  <2>5. AuditShape'
    BY <2>3, <2>4 DEF AuditShape
  <2> QED
    BY <1>4, <2>1, <2>2, <2>3, <2>5
<1>7. ASSUME NEW t \in Slots, Refresh(t)
      PROVE  /\ ReviewShape' /\ AuditShape' /\ CallsShape' /\ UNCHANGED session
             /\ list'.mounted = list.mounted
  <2>1. /\ OneChanges(t) /\ calls[t].kind = "mark" /\ calls'[t].to = calls[t].to
        /\ calls'[t].kind = "samples"
    BY <1>7, RefreshDoes
  <2>2. calls'[t].to = "page" => calls'[t].kind \in AuditKinds /\ list.mounted
    BY <2>1 DEF CallsShape, Heard, ReviewKinds, DraftKinds, AuditKinds
  <2>3. AuditShape' /\ UNCHANGED session /\ list'.mounted = list.mounted
    BY <1>7 DEF Refresh, audit, AuditShape
  <2> QED
    BY <1>4, <2>1, <2>2, <2>3
<1>8. ASSUME NEW t \in Slots, HearSamples(t)
      PROVE  /\ ReviewShape' /\ AuditShape' /\ CallsShape' /\ UNCHANGED session
             /\ list'.mounted = list.mounted
  <2>1. /\ calls[t].kind = "samples" /\ calls[t].reply = "ok"
        /\ Done(t) /\ UNCHANGED <<session, samples, disturbed>>
    BY <1>8 DEF HearSamples
  <2>2. OneChanges(t) /\ calls'[t] = NoCall
    BY <2>1, OneIsDoneShape
  <2>3. list.mounted
    BY <2>1 DEF CallsShape, Proper, Heard, ReviewKinds, DraftKinds
  <2>4. PICK rows \in SUBSET Row : rows = calls[t].rows
    BY DEF CallsShape, Call
  <2>5. list' = [list EXCEPT !.loaded = TRUE, !.rows = rows]
    BY <1>8, <2>4 DEF HearSamples
  <2>6. AuditShape' /\ list'.mounted = list.mounted
    BY <2>1, <2>3, <2>5 DEF AuditShape
  <2> QED
    BY <1>4, <2>1, <2>2, <2>6, NoCallIsProper
<1>9. ASSUME NEW t \in Slots, FailAudit(t)
      PROVE  /\ ReviewShape' /\ AuditShape' /\ CallsShape' /\ UNCHANGED session
             /\ list'.mounted = list.mounted
  <2>1. OneChanges(t) /\ calls'[t].to = "nobody"
    BY <1>9, FailDoes DEF FailAudit
  <2>2. UNCHANGED <<session, samples, disturbed>>
    BY <1>9 DEF FailAudit
  <2>3. AuditShape' /\ list'.mounted = list.mounted
    BY <1>9, <2>2 DEF FailAudit, AuditShape
  <2> QED
    BY <1>4, <2>1, <2>2, <2>3
<1> QED
  BY <1>1, <1>2, <1>3, <1>5, <1>6, <1>7, <1>8, <1>9 DEF OnSendAudit, AuditServer

\* Every step of the tab keeps the shape.
LEMMA ShapeStep == ASSUME Shape, [Next]_vars PROVE Shape'
<1> USE DEF Shape
<1>0. UNCHANGED visited
  BY DEF Next, vars
<1>1. CASE InSession
  <2>1. SessionStep /\ SessionShape' /\ AllGoOn
    BY <1>1, SessionKeepsShape, SessionKeepsCalls DEF InSession
  <2>2. CASE view' = "authenticated"
    <3>1. UNCHANGED <<review, audit>> /\ UNCHANGED screen
      BY <1>1, <2>2 DEF InSession, Stay
    <3>2. page.mounted \/ list.mounted => calls' = calls
      BY <2>1, <2>2, SessionKeepsCalls
    <3>3. view # "authenticated" => ~page.mounted /\ ~list.mounted
      BY DEF ScreenShape
    <3>4. CallsShape'
      <4>1. CASE page.mounted \/ list.mounted
        BY <3>1, <3>2, <4>1 DEF CallsShape, Heard, review, audit
      <4>2. CASE ~page.mounted /\ ~list.mounted
        <5>1. \A s \in Slots : calls[s].to # "page"
          BY <4>2 DEF CallsShape, Heard
        <5>2. \A s \in Slots : calls'[s].to # "page"
          BY <2>1, <5>1, NoCallIsProper DEF AllGoOn, GoesOn
        <5> QED
          BY <2>1, <5>2 DEF CallsShape, Heard, AllGoOn
      <4> QED
        BY <4>1, <4>2
    <3> QED
      BY <1>0, <2>1, <2>2, <3>1, <3>4 DEF review, audit, ReviewShape, AuditShape, ScreenShape
  <2>3. CASE view' # "authenticated"
    <3>1. Leave /\ \A s \in Slots : calls'[s].to # "page"
      BY <1>1, <2>1, <2>3, SessionKeepsCalls DEF InSession
    <3>2. screen' \in Screens
      BY <1>1 DEF InSession, ScreenShape, Screens
    <3> QED
      BY <1>0, <2>1, <3>1, <3>2, LeaveKeepsShape DEF ScreenShape
  <2> QED
    BY <2>2, <2>3
<1>2. CASE ReloadTab
  <2>1. calls' = Abandoned /\ Leave /\ screen' = "queue"
    BY <1>2 DEF ReloadTab, Reload, NewDocument
  <2>2. AllGoOn /\ \A s \in Slots : calls'[s].to # "page"
    BY <2>1, AllAbandoned
  <2>3. SessionShape'
    BY <1>2 DEF ReloadTab, Reload, NewDocument, SessionShape, Views, NoToken
  <2> QED
    BY <1>0, <2>1, <2>2, <2>3, LeaveKeepsShape DEF ScreenShape, Screens
<1>3. CASE Navigate
  <2>1. calls' = Unmounted /\ Leave /\ UNCHANGED session
    BY <1>3 DEF Navigate
  <2>2. AllGoOn /\ \A s \in Slots : calls'[s].to # "page"
    BY <2>1, AllUnmounted
  <2>3. screen' \in Screens
    BY <1>3 DEF Navigate, ScreenShape, Screens
  <2> QED
    BY <1>0, <2>1, <2>2, <2>3, LeaveKeepsShape DEF ScreenShape, SessionShape, session
<1>4. CASE Mount
  <2>1. CASE screen = "account" /\ MountReview /\ UNCHANGED audit
    BY <1>0, <1>4, <2>1, MountReviewKeepsShape
       DEF Mount, audit, AuditShape, ScreenShape, SessionShape, session
  <2>2. CASE screen = "sendaudit" /\ MountAudit /\ UNCHANGED review
    BY <1>0, <1>4, <2>2, MountAuditKeepsShape
       DEF Mount, review, ReviewShape, ScreenShape, SessionShape, session
  <2> QED
    BY <1>4, <2>1, <2>2 DEF Mount
<1>5. CASE OnAccount
  <2>1. UNCHANGED audit /\ UNCHANGED screen
    BY <1>5 DEF OnAccount
  <2>2. ReviewShape' /\ CallsShape' /\ UNCHANGED session /\ page'.mounted = page.mounted
    BY <1>5, <2>1, ReviewUseKeepsShape, ReviewServerKeepsShape, HearReviewKeepsShape,
       FailReviewKeepsShape DEF OnAccount
  <2> QED
    BY <1>0, <2>1, <2>2 DEF audit, AuditShape, ScreenShape, SessionShape, session
<1>6. CASE OnSendAudit
  <2>1. UNCHANGED review /\ UNCHANGED screen
    BY <1>6 DEF OnSendAudit
  <2> QED
    BY <1>0, <1>6, <2>1, OnSendAuditKeepsShape DEF review, ScreenShape, SessionShape, session
<1>7. CASE AnyCall
  <2>1. PICK t \in Slots : RefuseToken(t)
    BY <1>7 DEF AnyCall
  <2>2. UNCHANGED <<review, audit, screen>> /\ UNCHANGED session
    BY <1>7, <2>1 DEF AnyCall, RefuseToken
  <2>3. /\ OneChanges(t)
        /\ calls'[t] = NoCall \/ (calls'[t].kind = calls[t].kind /\ calls'[t].to = calls[t].to)
    BY <2>1, RefuseTokenDoes
  <2>4. calls'[t].to = "page" => \/ calls'[t].kind \in AuditKinds /\ list.mounted
                                 \/ calls'[t].kind \in ReviewKinds /\ page.mounted
    BY <2>3, NoCallIsProper DEF CallsShape, Heard
  <2>5. CallsShape'
    BY <2>2, <2>3, <2>4, OneKeepsShape DEF review, audit
  <2> QED
    BY <1>0, <2>2, <2>5 DEF review, audit, ReviewShape, AuditShape, ScreenShape, SessionShape,
       session
<1>8. CASE UNCHANGED vars
  BY <1>0, <1>8 DEF vars, review, audit, session, ReviewShape, AuditShape, ScreenShape,
     SessionShape,
              CallsShape, Heard
<1> QED
  BY <1>1, <1>2, <1>3, <1>4, <1>5, <1>6, <1>7, <1>8 DEF Next

LEMMA ShapeInit == ASSUME TabInit PROVE Shape
<1> USE DEF TabInit
<1>1. SessionShape
  <2>1. 0 \in 0 .. MaxTokens
    BY BrowserSessionAssumption
  <2> QED
    BY <2>1 DEF Init, SessionShape, Views, NoToken
<1>2. ReviewShape /\ ~page.mounted
  BY ReviewPageAssumption
     DEF InitReview, ReviewShape, NoPage, Page, Decisions, NewDraft, DraftRow
<1>3. AuditShape /\ ~list.mounted
  BY NoSamples DEF InitAudit, AuditShape, NoList
<1>4. NoCall \in Call /\ Proper(NoCall) /\ NoCall.to # "page"
  BY NoCallIsProper DEF Proper
<1>5. CallsShape
  BY <1>4 DEF Init, CallsShape, Heard
<1>6. ScreenShape
  BY <1>2, <1>3 DEF ScreenShape, Screens
<1> QED
  BY <1>1, <1>2, <1>3, <1>5, <1>6 DEF Shape

LEMMA ShapeInvariant == Spec => []Shape
BY ShapeInit, ShapeStep, PTL DEF Spec

\* A tab has a token exactly while it shows the console, no more than one page is mounted, and only
\* a mounted page waits for calls, whatever calls are late or lost.
THEOREM TabTypeCorrect == Spec => []TypeOK
<1>1. Shape => TypeOK
  <2> SUFFICES ASSUME Shape PROVE TypeOK
    OBVIOUS
  <2> USE DEF Shape
  <2>1. SessionShape /\ ReviewShape /\ AuditShape /\ CallsShape /\ ScreenShape
    OBVIOUS
  <2>2. draft.body \in Texts /\ list.rows \subseteq Row
    BY DEF ReviewShape, AuditShape, DraftRow
  <2> QED
    BY <2>1, <2>2
       DEF TypeOK, SessionShape, ReviewShape, CallsShape, Heard, ScreenShape
<1> QED
  BY ShapeInvariant, <1>1, PTL

(***************************************************************************)
(* Refused tokens stay out, and the console closes for a cause.            *)
(***************************************************************************)
LEMMA NoMoreWait ==
    ASSUME TokensInv, UNCHANGED session, NEW t \in Slots, OneChanges(t),
           calls'[t].to # "nobody" => calls[t].to # "nobody" \/ view = "authenticated"
    PROVE  TokensInv'
<1>1. ASSUME NEW s \in Slots, calls'[s].to # "nobody"
      PROVE  calls[s].to # "nobody" \/ view = "authenticated"
  BY <1>1 DEF OneChanges
<1> QED
  BY <1>1, TokensStay

LEMMA ReviewServerKeepsTokens == ASSUME Shape, TokensInv, ReviewServer PROVE TokensInv'
<1> USE DEF Shape
<1>1. CASE OtherReviewer \/ ChangeEscalation
  BY <1>1, TokensStay DEF OtherReviewer, ChangeEscalation
<1>2. ASSUME NEW t \in Slots, GetDetail(t) PROVE TokensInv'
  <2>1. UNCHANGED session
    BY <1>2 DEF GetDetail
  <2>2. OneChanges(t) /\ (calls'[t] = NoCall \/ calls[t].to = "page")
    BY <1>2, GetDetailDoes
  <2> QED
    BY <2>1, <2>2, NoMoreWait, NoCallIsProper
<1>3. ASSUME NEW t \in Slots, ListEscalations(t) PROVE TokensInv'
  <2>1. UNCHANGED session
    BY <1>3 DEF ListEscalations
  <2>2. OneChanges(t) /\ (calls'[t] = NoCall \/ calls[t].to = "page")
    BY <1>3, ListEscalationsDoes
  <2> QED
    BY <2>1, <2>2, NoMoreWait, NoCallIsProper
<1>4. ASSUME NEW t \in Slots, CheckDraft(t) PROVE TokensInv'
  <2>1. UNCHANGED session
    BY <1>4 DEF CheckDraft
  <2>2. OneChanges(t) /\ (calls'[t] = NoCall \/ calls'[t].to = calls[t].to)
    BY <1>4, CheckDraftDoes
  <2> QED
    BY <2>1, <2>2, NoMoreWait, NoCallIsProper
<1>5. ASSUME NEW t \in Slots, WriteDraft(t) PROVE TokensInv'
  <2>1. UNCHANGED session
    BY <1>5 DEF WriteDraft
  <2>2. OneChanges(t) /\ (calls'[t] = NoCall \/ calls[t].to = "page")
    BY <1>5, WriteDraftDoes
  <2> QED
    BY <2>1, <2>2, NoMoreWait, NoCallIsProper
<1> QED
  BY <1>1, <1>2, <1>3, <1>4, <1>5 DEF ReviewServer

LEMMA OnAccountKeepsTokens == ASSUME Shape, TokensInv, OnAccount PROVE TokensInv'
<1> USE DEF Shape
<1>1. CASE ReviewUse
  <2>1. page.mounted
    BY <1>1 DEF ReviewUse, Edit, Type, Cancel, Save, Approve, Reject, Click, DraftOnShow,
       ReviewShape
  <2>2. view = "authenticated"
    BY <2>1 DEF ScreenShape
  <2>3. UNCHANGED session
    BY <1>1 DEF ReviewUse, Edit, Type, Cancel, Save, Approve, Reject, Click, Local
  <2> QED
    BY <2>2, <2>3, TokensStay
<1>2. ASSUME NEW t \in Slots, HearReview(t) \/ FailReview(t) PROVE TokensInv'
  <2>1. OneChanges(t) /\ calls'[t].to = "nobody" /\ UNCHANGED session
    BY <1>2, OneIsDoneShape, FailDoes, NoCallIsProper DEF HearReview, FailReview
  <2> QED
    BY <2>1, NoMoreWait
<1> QED
  BY <1>1, <1>2, ReviewServerKeepsTokens DEF OnAccount

LEMMA OnSendAuditKeepsTokens == ASSUME Shape, TokensInv, OnSendAudit PROVE TokensInv'
<1> USE DEF Shape
<1>0. UNCHANGED session
  BY OnSendAuditKeepsShape
<1>1. CASE Mark
  <2>1. view = "authenticated"
    BY <1>1 DEF Mark, AuditShape, ScreenShape
  <2> QED
    BY <1>0, <2>1, TokensStay
<1>2. CASE OtherVerdict \/ DrawSample
  BY <1>0, <1>2, TokensStay DEF OtherVerdict, DrawSample
<1>3. ASSUME NEW t \in Slots,
             ListSamples(t) \/ MarkSample(t) \/ Refresh(t) \/ HearSamples(t) \/ FailAudit(t)
      PROVE  TokensInv'
  <2>1. OneChanges(t) /\ (calls'[t].to # "nobody" => calls[t].to # "nobody")
    <3>1. CASE ListSamples(t)
      BY <3>1, ListSamplesDoes, NoCallIsProper
    <3>2. CASE MarkSample(t)
      BY <3>2, MarkSampleDoes, NoCallIsProper
    <3>3. CASE Refresh(t)
      BY <3>3, RefreshDoes
    <3>4. CASE HearSamples(t)
      BY <3>4, OneIsDoneShape, NoCallIsProper DEF HearSamples
    <3>5. CASE FailAudit(t)
      BY <3>5, FailDoes DEF FailAudit
    <3> QED
      BY <1>3, <3>1, <3>2, <3>3, <3>4, <3>5
  <2> QED
    BY <1>0, <2>1, NoMoreWait
<1> QED
  BY <1>1, <1>2, <1>3 DEF OnSendAudit, AuditServer

LEMMA TokensStep == ASSUME Shape, TokensInv, [Next]_vars PROVE TokensInv'
<1> USE DEF Shape
<1>1. CASE InSession
  BY <1>1, SessionKeepsTokens DEF InSession
<1>2. CASE ReloadTab
  <2>1. /\ calls' = Abandoned /\ view' = "loading"
        /\ UNCHANGED <<stored, lapsed, refused>>
    BY <1>2 DEF ReloadTab, Reload, NewDocument
  <2>2. \A s \in Slots : calls'[s].to = "nobody"
    BY <2>1, AllAbandoned
  <2> QED
    BY <2>1, <2>2 DEF TokensInv
<1>3. CASE Navigate \/ Mount
  <2>1. view = "authenticated" /\ UNCHANGED session
    BY <1>3 DEF Navigate, Mount, MountReview, MountAudit
  <2> QED
    BY <2>1, TokensStay
<1>4. CASE AnyCall
  <2>1. PICK t \in Slots : RefuseToken(t)
    BY <1>4 DEF AnyCall
  <2>2. UNCHANGED session
    BY <2>1 DEF RefuseToken
  <2>3. /\ OneChanges(t)
        /\ calls'[t] = NoCall \/ calls'[t].to = calls[t].to
    BY <2>1, RefuseTokenDoes
  <2> QED
    BY <2>2, <2>3, NoMoreWait, NoCallIsProper
<1>5. CASE UNCHANGED vars
  BY <1>5, TokensStay DEF vars
<1> QED
  BY <1>1, <1>2, <1>3, <1>4, <1>5, OnAccountKeepsTokens, OnSendAuditKeepsTokens DEF Next

\* Whatever a refused token was sent with, no reload and no stored user opens the console with it,
\* for any calls under way, renewals and reloads.
THEOREM RefusedTokensStayOut == Spec => []RefusedTokenStaysOut
<1>1. TabInit => TokensInv
  BY NoCallIsProper DEF TabInit, Init, TokensInv
<1>2. TokensInv => RefusedTokenStaysOut
  BY DEF TokensInv, RefusedTokenStaysOut
<1> QED
  BY ShapeInvariant, TokensStep, <1>1, <1>2, PTL DEF Spec

(***************************************************************************)
(* Approvals approve what was shown.                                       *)
(***************************************************************************)
KeptForReview(s) ==
    \/ calls'[s].kind \notin DraftKinds \cup {"account"}
    \/ /\ calls'[s].kind = calls[s].kind /\ calls'[s].text = calls[s].text
       /\ calls'[s].kind = "account" => calls'[s].yes = calls[s].yes
       /\ calls'[s].to = "page" => calls[s].to = "page"
       /\ calls'[s].reply = "ok" => calls[s].reply = "ok"

LEMMA GoingOnIsKept ==
    ASSUME NEW s \in Slots, GoesOn(calls'[s], calls[s]) PROVE KeptForReview(s)
BY NoCallIsProper DEF GoesOn, KeptForReview, DraftKinds

\* Calls that no more is asked or told of change nothing.
LEMMA ReviewKept ==
    ASSUME ReviewInv, \A s \in Slots : KeptForReview(s), UNCHANGED <<draft, page, doubt>>
    PROVE  ReviewInv'
<1> SUFFICES ASSUME ~doubt' PROVE SavesAlone' /\ LoadsFirst' /\ ShownIsDraft'
  BY DEF ReviewInv
<1>1. SavesAlone /\ LoadsFirst /\ ShownIsDraft
  BY DEF ReviewInv
<1>2. SavesAlone'
  BY <1>1 DEF SavesAlone, KeptForReview, DraftKinds
<1>3. LoadsFirst'
  BY <1>1 DEF LoadsFirst, KeptForReview, DraftKinds
<1>4. ShownIsDraft'
  BY <1>1 DEF ShownIsDraft, KeptForReview, DraftKinds
<1> QED
  BY <1>2, <1>3, <1>4

\* A page that is left shows nothing.
LEMMA ReviewLeft ==
    ASSUME ReviewInv, \A s \in Slots : KeptForReview(s) /\ calls'[s].to # "page", LeaveReview
    PROVE  ReviewInv'
<1> SUFFICES ASSUME ~doubt' PROVE SavesAlone' /\ LoadsFirst' /\ ShownIsDraft'
  BY DEF ReviewInv
<1>1. ~page'.mounted /\ ~page'.loaded
  BY DEF LeaveReview, NoPage
<1>2. LoadsFirst'
  BY <1>1 DEF LoadsFirst
<1>3. CASE \E s \in Slots : calls'[s].kind \in DraftKinds
  <2>1. SavesAlone /\ ShownIsDraft /\ UNCHANGED draft
    BY <1>3 DEF ReviewInv, LeaveReview
  <2>2. SavesAlone'
    BY <1>1, <2>1 DEF SavesAlone, KeptForReview, DraftKinds
  <2>3. ShownIsDraft'
    BY <1>1, <2>1 DEF ShownIsDraft, KeptForReview, DraftKinds
  <2> QED
    BY <1>2, <2>2, <2>3
<1>4. CASE \A s \in Slots : calls'[s].kind \notin DraftKinds
  BY <1>1, <1>2, <1>4 DEF SavesAlone, ShownIsDraft, DraftKinds
<1> QED
  BY <1>3, <1>4

\* One call that is not about the draft changes.
LEMMA OneKept ==
    ASSUME ReviewInv, NEW t \in Slots, OneChanges(t), KeptForReview(t),
           UNCHANGED <<draft, page, doubt>>
    PROVE  ReviewInv'
<1>1. \A s \in Slots : KeptForReview(s)
  BY DEF OneChanges, KeptForReview
<1> QED
  BY <1>1, ReviewKept

LEMMA MountReviewKeepsReview == ASSUME Shape, ReviewInv, MountReview PROVE ReviewInv'
<1> SUFFICES ASSUME ~doubt' PROVE SavesAlone' /\ LoadsFirst' /\ ShownIsDraft'
  BY DEF ReviewInv
<1>1. PICK s, t \in Slots :
         /\ s # t /\ calls[s] = NoCall /\ calls[t] = NoCall
         /\ calls'[s].kind = "account" /\ calls'[s].reply = "sent"
         /\ calls'[t].kind = "escalations"
         /\ \A r \in Slots \ {s, t} : calls'[r] = calls[r]
  BY MountReviewDoes
<1>2. \A r \in Slots : calls[r].kind \notin DraftKinds
  BY DEF MountReview, UnderWay
<1>3. ~page.mounted /\ ~page'.loaded
  BY DEF MountReview, NoPage
<1>4. \A r \in Slots : calls[r].kind = "account" => calls[r].to # "page"
  BY <1>3 DEF Shape, CallsShape, Heard, AuditKinds
<1>5. \A r \in Slots : calls'[r].kind \notin DraftKinds
  BY <1>1, <1>2 DEF DraftKinds
<1>6. \A r \in Slots : calls'[r].kind = "account" /\ calls'[r].to = "page" => r = s
  BY <1>1, <1>4
<1> QED
  BY <1>1, <1>3, <1>5, <1>6 DEF SavesAlone, LoadsFirst, ShownIsDraft, DraftKinds

\* A click on what the page shows: it is the draft, and nothing else is under way when it is a save.
LEMMA ClickKeepsReview ==
    ASSUME Shape, ReviewInv, NEW kind \in DraftKinds, Click(kind), UNCHANGED page,
           kind # "edit" => ~page.editing /\ UNCHANGED doubt,
           kind = "edit" => page.editing /\ doubt' = (doubt \/ UnderWay(DraftKinds) # {})
    PROVE  ReviewInv'
<1> SUFFICES ASSUME ~doubt' PROVE SavesAlone' /\ LoadsFirst' /\ ShownIsDraft'
  BY DEF ReviewInv
<1>1. SavesAlone /\ LoadsFirst /\ ShownIsDraft
  BY DEF ReviewInv
<1>2. page.loaded /\ page.pending /\ page.mounted /\ UNCHANGED draft
  BY ClickDoes DEF Shape, ReviewShape
<1>3. PICK t \in Slots :
         /\ calls[t] = NoCall
         /\ calls'[t].kind = kind /\ calls'[t].text = page.draftBody /\ calls'[t].reply = "sent"
         /\ \A s \in Slots \ {t} : calls'[s] = calls[s]
  BY ClickDoes DEF OneChanges
<1>4. kind \in {"edit", "approve", "reject"}
  BY DEF DraftKinds
<1>5. LoadsFirst'
  BY <1>1, <1>2, <1>3, <1>4 DEF LoadsFirst
<1>6. CASE kind = "edit"
  <2>1. \A s \in Slots : calls[s].kind \notin DraftKinds
    BY <1>6 DEF UnderWay
  <2> QED
    BY <1>1, <1>2, <1>3, <1>5, <1>6, <2>1 DEF SavesAlone, ShownIsDraft, DraftKinds
<1>7. CASE kind # "edit"
  <2>1. \A s \in Slots : calls[s].kind # "edit"
    BY <1>1, <1>2, <1>7 DEF SavesAlone
  <2>2. page.draftBody = draft.body
    BY <1>1, <1>2, <1>7 DEF ShownIsDraft
  <2>3. SavesAlone'
    BY <1>3, <1>4, <1>7, <2>1 DEF SavesAlone
  <2>4. ShownIsDraft'
    BY <1>1, <1>2, <1>3, <1>7, <2>2 DEF ShownIsDraft
  <2> QED
    BY <1>5, <2>3, <2>4
<1> QED
  BY <1>6, <1>7

LEMMA ReviewUseKeepsReview == ASSUME Shape, ReviewInv, ReviewUse PROVE ReviewInv'
<1>1. CASE Edit
  <2>1. /\ UNCHANGED <<calls, draft, doubt>> /\ page.loaded /\ ~page.editing
        /\ page' = [page EXCEPT !.editing = TRUE]
    BY <1>1 DEF Edit, Local, DraftOnShow
  <2>2. /\ page'.editing /\ page'.mounted = page.mounted /\ page'.loaded = page.loaded
    BY <2>1 DEF Shape, ReviewShape, Page
  <2> QED
    BY <2>1, <2>2 DEF ReviewInv, SavesAlone, LoadsFirst, ShownIsDraft
<1>2. CASE Type
  <2>1. PICK text \in Revisions : Local([page EXCEPT !.draftBody = text])
    BY <1>2 DEF Type
  <2>2. /\ UNCHANGED <<calls, draft, doubt>> /\ page.editing
        /\ page' = [page EXCEPT !.draftBody = text]
    BY <1>2, <2>1 DEF Type, Local
  <2>3. page'.editing /\ page'.mounted = page.mounted /\ page'.loaded = page.loaded
    BY <2>2 DEF Shape, ReviewShape, Page
  <2> QED
    BY <2>2, <2>3 DEF ReviewInv, SavesAlone, LoadsFirst, ShownIsDraft
<1>3. CASE Cancel
  BY <1>3 DEF Cancel, ReviewInv
<1>4. CASE Save
  BY <1>4, ClickKeepsReview DEF Save, DraftKinds
<1>5. CASE Approve
  BY <1>5, ClickKeepsReview DEF Approve, Deciding, DraftKinds
<1>6. CASE Reject
  BY <1>6, ClickKeepsReview DEF Reject, Deciding, DraftKinds
<1> QED
  BY <1>1, <1>2, <1>3, <1>4, <1>5, <1>6 DEF ReviewUse

LEMMA GetDetailKeepsReview ==
    ASSUME Shape, ReviewInv, NEW t \in Slots, GetDetail(t) PROVE ReviewInv'
<1> SUFFICES ASSUME ~doubt' PROVE SavesAlone' /\ LoadsFirst' /\ ShownIsDraft'
  BY DEF ReviewInv
<1>1. UNCHANGED <<draft, page, doubt>>
  BY DEF GetDetail, review
<1>2. SavesAlone /\ LoadsFirst /\ ShownIsDraft
  BY <1>1 DEF ReviewInv
<1>3. /\ calls[t].kind = "account" /\ calls'[t].kind \in {"account", "none"}
      /\ calls'[t].kind = "account" =>
            /\ calls[t].to = "page"
            /\ calls'[t].yes => calls'[t].text = draft.body
      /\ \A s \in Slots \ {t} : calls'[s] = calls[s]
  BY GetDetailDoes, NoCallIsProper DEF Shape, OneChanges
<1>4. SavesAlone'
  BY <1>1, <1>2, <1>3 DEF SavesAlone, DraftKinds
<1>5. LoadsFirst'
  BY <1>1, <1>2, <1>3 DEF LoadsFirst, DraftKinds
<1>6. ShownIsDraft'
  BY <1>1, <1>2, <1>3 DEF ShownIsDraft
<1> QED
  BY <1>4, <1>5, <1>6

\* A save is alone, and its page keeps the editor open; the other calls leave the text.
LEMMA WriteDraftKeepsReview ==
    ASSUME Shape, ReviewInv, NEW t \in Slots, WriteDraft(t) PROVE ReviewInv'
<1> SUFFICES ASSUME ~doubt' PROVE SavesAlone' /\ LoadsFirst' /\ ShownIsDraft'
  BY DEF ReviewInv
<1>1. UNCHANGED <<page, doubt>>
  BY DEF WriteDraft
<1>2. SavesAlone /\ LoadsFirst /\ ShownIsDraft
  BY <1>1 DEF ReviewInv
<1>3. /\ calls[t].kind \in DraftKinds
      /\ calls'[t] = NoCall
         \/ (calls'[t].kind = calls[t].kind /\ calls'[t].text = calls[t].text)
      /\ \A s \in Slots \ {t} : calls'[s] = calls[s]
  BY WriteDraftDoes DEF Shape, OneChanges
<1>4. /\ NoCall.kind \notin DraftKinds \cup {"account"}
  BY NoCallIsProper DEF DraftKinds
<1>5. CASE calls[t].kind = "edit"
  <2>1. draft'.body = calls[t].text
    <3>1. draft' = [draft EXCEPT !.body = calls[t].text]
      BY <1>5, WriteDraftDoes DEF Shape
    <3>2. draft \in DraftRow
      BY DEF Shape, ReviewShape
    <3> QED
      BY <3>1, <3>2 DEF DraftRow
  <2>2. \A s \in Slots \ {t} : calls[s].kind \notin DraftKinds
    BY <1>2, <1>5 DEF SavesAlone
  <2>3. page.mounted => page.editing /\ page.loaded
    BY <1>2, <1>3, <1>5 DEF SavesAlone, LoadsFirst
  <2>4. SavesAlone'
    BY <1>1, <1>3, <1>4, <1>5, <2>1, <2>2, <2>3 DEF SavesAlone, DraftKinds
  <2>5. \A s \in Slots : ~(calls[s].kind = "account" /\ calls[s].to = "page")
    BY <1>2, <2>3 DEF LoadsFirst, Shape, CallsShape, Heard, AuditKinds
  <2>6. LoadsFirst'
    BY <1>1, <1>3, <1>4, <1>5, <2>2, <2>3, <2>5 DEF LoadsFirst, DraftKinds
  <2>7. ShownIsDraft'
    BY <1>1, <1>3, <1>4, <1>5, <2>2, <2>3 DEF ShownIsDraft, DraftKinds, Shape, ReviewShape
  <2> QED
    BY <2>4, <2>6, <2>7
<1>6. CASE calls[t].kind # "edit"
  <2>1. draft'.body = draft.body
    <3>1. \/ draft' = [draft EXCEPT !.status = "approved"]
          \/ draft' = [draft EXCEPT !.status = "rejected"]
      BY <1>3, <1>6, WriteDraftDoes DEF Shape, DraftKinds
    <3>2. draft \in DraftRow
      BY DEF Shape, ReviewShape
    <3> QED
      BY <3>1, <3>2 DEF DraftRow
  <2>2. SavesAlone'
    BY <1>1, <1>2, <1>3, <1>4, <1>6, <2>1 DEF SavesAlone, DraftKinds
  <2>3. LoadsFirst'
    BY <1>1, <1>2, <1>3, <1>4, <1>6, <2>1 DEF LoadsFirst, DraftKinds
  <2>4. ShownIsDraft'
    BY <1>1, <1>2, <1>3, <1>4, <1>6, <2>1 DEF ShownIsDraft, DraftKinds
  <2> QED
    BY <2>2, <2>3, <2>4
<1> QED
  BY <1>5, <1>6

\* The page loads what the draft says, and closes the editor on what the draft says.
LEMMA HearReviewKeepsReview ==
    ASSUME Shape, ReviewInv, NEW t \in Slots, HearReview(t) PROVE ReviewInv'
<1> SUFFICES ASSUME ~doubt' PROVE SavesAlone' /\ LoadsFirst' /\ ShownIsDraft'
  BY DEF ReviewInv
<1>1. /\ UNCHANGED <<draft, doubt>> /\ calls[t].to = "page" /\ calls[t].kind \in ReviewKinds
      /\ (calls[t].reply = "ok" /\ page' = Show(t)) \/ UNCHANGED page
  BY DEF HearReview, ReviewKinds
<1>2. SavesAlone /\ LoadsFirst /\ ShownIsDraft
  BY <1>1 DEF ReviewInv
<1>3. /\ calls'[t].kind = "none"
      /\ \A s \in Slots \ {t} : calls'[s] = calls[s]
  BY OneIsDoneShape, NoCallIsProper DEF HearReview, OneChanges, Shape
<1>4. page \in Page /\ page.mounted /\ page.loaded \in BOOLEAN
  BY <1>1
     DEF Shape, ReviewShape, CallsShape, Heard, ReviewKinds, DraftKinds, AuditKinds, Page
<1>5. CASE UNCHANGED page
  BY <1>1, <1>2, <1>3, <1>5 DEF SavesAlone, LoadsFirst, ShownIsDraft, DraftKinds
<1>6. CASE calls[t].kind = "account" /\ calls[t].reply = "ok" /\ page' = Show(t)
  <2>1. page' = [page EXCEPT !.loaded = TRUE, !.pending = calls[t].yes, !.draftBody = calls[t].text]
    BY <1>6 DEF Show
  <2>2. /\ page'.loaded /\ page'.mounted /\ page'.pending = calls[t].yes
        /\ page'.draftBody = calls[t].text /\ page'.editing = page.editing
    BY <1>4, <2>1 DEF Page
  <2>3. \A s \in Slots : calls[s].kind \notin DraftKinds
    BY <1>1, <1>2, <1>4, <1>6 DEF LoadsFirst
  <2>4. \A s \in Slots : calls'[s].kind \notin DraftKinds
    BY <1>3, <2>3 DEF DraftKinds
  <2>5. \A s \in Slots : ~(calls'[s].kind = "account" /\ calls'[s].to = "page")
    BY <1>1, <1>2, <1>3, <1>6 DEF LoadsFirst
  <2>6. page'.pending => page'.draftBody = draft'.body
    BY <1>1, <1>2, <1>6, <2>2 DEF LoadsFirst
  <2> QED
    BY <2>2, <2>4, <2>5, <2>6 DEF SavesAlone, LoadsFirst, ShownIsDraft, DraftKinds
<1>7. CASE calls[t].kind = "edit" /\ calls[t].reply = "ok" /\ page' = Show(t)
  <2>1. page' = [page EXCEPT !.draftBody = calls[t].text, !.editing = FALSE]
    BY <1>7 DEF Show
  <2>2. /\ page'.loaded = page.loaded /\ page'.mounted /\ page'.draftBody = calls[t].text
    BY <1>4, <2>1 DEF Page
  <2>3. calls[t].text = draft.body
    BY <1>2, <1>7 DEF SavesAlone
  <2>4. \A s \in Slots : calls'[s].kind \notin DraftKinds
    BY <1>2, <1>3, <1>7 DEF SavesAlone, DraftKinds
  <2>5. LoadsFirst'
    BY <1>1, <1>2, <1>3, <2>2, <2>4 DEF LoadsFirst
  <2> QED
    BY <1>1, <2>2, <2>3, <2>4, <2>5 DEF SavesAlone, ShownIsDraft, DraftKinds
<1>8. CASE calls[t].kind \in {"escalations", "approve", "reject"} /\ page' = Show(t)
  <2>1. \/ page' = [page EXCEPT !.escalation = calls[t].yes]
        \/ page' = [page EXCEPT !.decision = "approved"]
        \/ page' = [page EXCEPT !.decision = "rejected"]
    BY <1>8 DEF Show
  <2>2. /\ page'.loaded = page.loaded /\ page'.mounted /\ page'.draftBody = page.draftBody
        /\ page'.editing = page.editing /\ page'.pending = page.pending
    BY <1>4, <2>1 DEF Page
  <2> QED
    BY <1>1, <1>2, <1>3, <1>4, <2>2 DEF SavesAlone, LoadsFirst, ShownIsDraft, DraftKinds
<1> QED
  BY <1>1, <1>5, <1>6, <1>7, <1>8 DEF ReviewKinds, DraftKinds

LEMMA OnAccountKeepsReview == ASSUME Shape, ReviewInv, OnAccount PROVE ReviewInv'
<1>1. CASE OtherReviewer
  BY <1>1 DEF OtherReviewer, ReviewInv
<1>2. CASE ChangeEscalation
  BY <1>2, ReviewKept DEF ChangeEscalation, KeptForReview
<1>3. ASSUME NEW t \in Slots, ListEscalations(t) PROVE ReviewInv'
  BY <1>3, ListEscalationsDoes, NoCallIsProper, OneKept
     DEF ListEscalations, review, Shape, KeptForReview, DraftKinds
<1>4. ASSUME NEW t \in Slots, CheckDraft(t) PROVE ReviewInv'
  <2>1. UNCHANGED <<draft, page, doubt>>
    BY <1>4 DEF CheckDraft, review
  <2>2. /\ OneChanges(t) /\ calls[t].kind \in DraftKinds
        /\ \/ calls'[t] = NoCall
           \/ /\ calls'[t].kind = calls[t].kind /\ calls'[t].text = calls[t].text
              /\ calls'[t].to = calls[t].to /\ calls'[t].reply # "ok"
    BY <1>4, CheckDraftDoes DEF Shape
  <2> QED
    BY <2>1, <2>2, NoCallIsProper, OneKept DEF KeptForReview, DraftKinds
<1>5. ASSUME NEW t \in Slots, FailReview(t) PROVE ReviewInv'
  <2>1. UNCHANGED <<draft, page, doubt>> /\ Fail(t)
    BY <1>5 DEF FailReview, review
  <2>2. OneChanges(t) /\ GoesOn(calls'[t], calls[t])
    BY <2>1, FailDoes DEF Shape
  <2> QED
    BY <2>1, <2>2, GoingOnIsKept, OneKept
<1> QED
  BY <1>1, <1>2, <1>3, <1>4, <1>5, ReviewUseKeepsReview, GetDetailKeepsReview,
     WriteDraftKeepsReview, HearReviewKeepsReview DEF OnAccount, ReviewServer

\* Calls go on, are asked, answered and lost, and pages come and go: what is shown and what is
\* approved stay the draft's text unless doubt is on record.
LEMMA ReviewStep == ASSUME Shape, ReviewInv, [Next]_vars PROVE ReviewInv'
<1> USE DEF Shape
<1>1. CASE InSession
  <2>1. AllGoOn /\ SessionStep
    BY <1>1, SessionKeepsCalls DEF InSession
  <2>2. \A s \in Slots : KeptForReview(s)
    BY <2>1, GoingOnIsKept DEF AllGoOn
  <2>3. CASE view' = "authenticated"
    BY <1>1, <2>2, <2>3, ReviewKept DEF InSession, Stay, review
  <2>4. CASE view' # "authenticated"
    BY <1>1, <2>1, <2>2, <2>4, SessionKeepsCalls, ReviewLeft DEF InSession, Leave
  <2> QED
    BY <2>3, <2>4
<1>2. CASE ReloadTab
  <2>1. calls' = Abandoned /\ LeaveReview
    BY <1>2 DEF ReloadTab, Reload, NewDocument, Leave
  <2>2. AllGoOn /\ \A s \in Slots : calls'[s].to # "page"
    BY <2>1, AllAbandoned
  <2> QED
    BY <2>1, <2>2, GoingOnIsKept, ReviewLeft DEF AllGoOn
<1>3. CASE Navigate
  <2>1. calls' = Unmounted /\ LeaveReview
    BY <1>3 DEF Navigate, Leave
  <2>2. AllGoOn /\ \A s \in Slots : calls'[s].to # "page"
    BY <2>1, AllUnmounted
  <2> QED
    BY <2>1, <2>2, GoingOnIsKept, ReviewLeft DEF AllGoOn
<1>4. CASE MountAudit /\ UNCHANGED review
  <2>1. PICK t \in Slots : OneChanges(t) /\ calls'[t].kind = "samples"
    BY <1>4, MountAuditDoes
  <2> QED
    BY <1>4, <2>1, OneKept DEF review, KeptForReview, DraftKinds
<1>5. CASE OnSendAudit
  <2>1. UNCHANGED <<draft, page, doubt>>
    BY <1>5 DEF OnSendAudit, review
  <2>2. CASE Mark
    <3>1. PICK t \in Slots : OneChanges(t) /\ calls'[t].kind = "mark"
      BY <2>2, MarkDoes
    <3> QED
      BY <2>1, <3>1, OneKept DEF KeptForReview, DraftKinds
  <2>3. CASE OtherVerdict \/ DrawSample
    BY <2>1, <2>3, ReviewKept DEF OtherVerdict, DrawSample, KeptForReview
  <2>4. ASSUME NEW t \in Slots,
               ListSamples(t) \/ MarkSample(t) \/ Refresh(t) \/ HearSamples(t) \/ FailAudit(t)
        PROVE  ReviewInv'
    <3>1. OneChanges(t) /\ calls'[t].kind \notin DraftKinds \cup {"account"}
      <4>1. CASE ListSamples(t)
        BY <4>1, ListSamplesDoes, NoCallIsProper DEF DraftKinds
      <4>2. CASE MarkSample(t)
        BY <4>2, MarkSampleDoes, NoCallIsProper DEF DraftKinds
      <4>3. CASE Refresh(t)
        BY <4>3, RefreshDoes DEF DraftKinds
      <4>4. CASE HearSamples(t)
        BY <4>4, OneIsDoneShape, NoCallIsProper DEF HearSamples, DraftKinds
      <4>5. CASE FailAudit(t)
        <5>1. calls[t].kind \in AuditKinds /\ Fail(t)
          BY <4>5 DEF FailAudit
        <5>2. OneChanges(t) /\ GoesOn(calls'[t], calls[t])
          BY <5>1, FailDoes
        <5> QED
          BY <5>1, <5>2, NoCallIsProper DEF GoesOn, AuditKinds, DraftKinds
      <4> QED
        BY <2>4, <4>1, <4>2, <4>3, <4>4, <4>5
    <3> QED
      BY <2>1, <3>1, OneKept DEF KeptForReview
  <2> QED
    BY <1>5, <2>2, <2>3, <2>4 DEF OnSendAudit, AuditServer
<1>6. CASE AnyCall
  <2>1. PICK t \in Slots : RefuseToken(t)
    BY <1>6 DEF AnyCall
  <2>2. UNCHANGED <<draft, page, doubt>>
    BY <1>6 DEF AnyCall, review
  <2> QED
    BY <2>1, <2>2, RefuseTokenDoes, NoCallIsProper, OneKept DEF KeptForReview, DraftKinds
<1>7. CASE UNCHANGED vars
  BY <1>7, ReviewKept DEF vars, review, KeptForReview
<1> QED
  BY <1>1, <1>2, <1>3, <1>4, <1>5, <1>6, <1>7, MountReviewKeepsReview, OnAccountKeepsReview
     DEF Next, Mount

LEMMA ReviewInvariant == Spec => [](Shape /\ ReviewInv)
<1>1. TabInit => ReviewInv
  BY NoCallIsProper
     DEF TabInit, Init, InitReview, ReviewInv, SavesAlone, LoadsFirst, ShownIsDraft, DraftKinds, NoPage
<1> QED
  BY ShapeInvariant, ReviewStep, <1>1, PTL DEF Spec

\* An approval that was checked stays so, whoever leaves or loses it, until it is carried out.
LEMMA CheckedApprovalStays ==
    ASSUME Shape, [Next]_vars, NEW t \in Slots,
           calls[t].kind = "approve", calls[t].reply = "checked", ~WriteDraft(t)
    PROVE  calls'[t].reply = "checked"
<1> USE DEF Shape
<1>1. Proper(calls[t]) /\ calls[t] \in Call /\ calls[t] # NoCall /\ "approve" \in Writes
  BY NoCallIsProper DEF CallsShape, Proper, Writes
<1>2. ASSUME NEW u \in Slots, OneChanges(u), calls[u] = NoCall \/ calls[u].reply # "checked"
      PROVE  calls'[t].reply = "checked"
  BY <1>1, <1>2 DEF OneChanges
<1>3. Dropped(t).reply = "checked"
  BY <1>1 DEF Dropped, Call
<1>4. Unmounted[t].reply = "checked"
  <2>1. CASE calls[t].to = "nobody"
    BY <2>1 DEF Unmounted
  <2>2. CASE calls[t].to # "nobody"
    BY <1>1, <2>2 DEF Unmounted, Call
  <2> QED
    BY <2>1, <2>2
<1>5. Abandoned[t].reply = "checked"
  BY <1>3 DEF Abandoned
<1>6. CASE calls' = Abandoned
  BY <1>5, <1>6
<1>7. CASE calls' = Unmounted
  BY <1>4, <1>7
<1>8. CASE UNCHANGED calls
  BY <1>8
<1>9. ASSUME NEW s \in Slots, ReportUnauthorized(s) PROVE calls'[t].reply = "checked"
  <2>1. s # t
    BY <1>9 DEF ReportUnauthorized
  <2>2. CASE calls' = [Unmounted EXCEPT ![s] = NoCall]
    BY <1>4, <2>1, <2>2 DEF Unmounted
  <2>3. CASE Done(s)
    BY <1>2, <2>1, <2>3, OneIsDoneShape DEF OneChanges
  <2> QED
    BY <1>9, <2>2, <2>3 DEF ReportUnauthorized
<1>10. CASE InSession
  BY <1>6, <1>7, <1>8, <1>9, <1>10
     DEF InSession, SessionStep, SigninRedirectCallback, InitAuth, Login, Logout, SignoutRedirect,
         NewDocument, BeginSilentRenew, EndSilentRenew, AccessTokenExpired
<1>11. CASE ReloadTab \/ Navigate
  BY <1>6, <1>7, <1>11 DEF ReloadTab, Reload, NewDocument, Navigate
<1>12. CASE Mount
  <2>1. CASE MountReview
    BY <1>1, <2>1, MountReviewDoes
  <2>2. CASE MountAudit
    BY <1>2, <2>2, MountAuditDoes
  <2> QED
    BY <1>12, <2>1, <2>2 DEF Mount
<1>13. CASE ReviewUse
  <2>1. ASSUME NEW kind \in DraftKinds, Click(kind) PROVE calls'[t].reply = "checked"
    BY <1>2, <2>1, ClickDoes
  <2>2. CASE Save \/ Approve \/ Reject
    BY <2>1, <2>2 DEF Save, Approve, Reject, DraftKinds
  <2>3. CASE Edit \/ Type \/ Cancel
    BY <1>8, <2>3 DEF Edit, Type, Cancel, Local
  <2> QED
    BY <1>13, <2>2, <2>3 DEF ReviewUse
<1>14. CASE ReviewServer
  <2>1. CASE OtherReviewer \/ ChangeEscalation
    BY <1>8, <2>1 DEF OtherReviewer, ChangeEscalation
  <2>2. ASSUME NEW u \in Slots, GetDetail(u) \/ ListEscalations(u) \/ CheckDraft(u)
        PROVE  calls'[t].reply = "checked"
    <3>1. calls[u].reply = "sent"
      BY <2>2 DEF GetDetail, ListEscalations, CheckDraft, Serve
    <3>2. OneChanges(u)
      BY <2>2, GetDetailDoes, ListEscalationsDoes, CheckDraftDoes
    <3> QED
      BY <1>2, <3>1, <3>2
  <2>3. ASSUME NEW u \in Slots, WriteDraft(u) PROVE calls'[t].reply = "checked"
    <3>1. u # t /\ OneChanges(u)
      BY <2>3, WriteDraftDoes
    <3> QED
      BY <3>1 DEF OneChanges
  <2> QED
    BY <1>14, <2>1, <2>2, <2>3 DEF ReviewServer
<1>15. ASSUME NEW u \in Slots, HearReview(u) PROVE calls'[t].reply = "checked"
  BY <1>2, <1>15, OneIsDoneShape DEF HearReview
<1>16. ASSUME NEW u \in Slots, Fail(u) PROVE calls'[t].reply = "checked"
  <2>1. CASE u = t
    <3>1. calls' = [calls EXCEPT ![t] = Dropped(t)]
      BY <1>16, <2>1 DEF Fail
    <3> QED
      BY <1>3, <3>1 DEF CallsShape
  <2>2. CASE u # t
    BY <1>16, <2>2, FailDoes DEF OneChanges
  <2> QED
    BY <2>1, <2>2
<1>17. CASE OnAccount
  BY <1>13, <1>14, <1>15, <1>16, <1>17 DEF OnAccount, FailReview
<1>18. CASE Mark
  BY <1>2, <1>18, MarkDoes
<1>19. CASE OtherVerdict \/ DrawSample
  BY <1>8, <1>19 DEF OtherVerdict, DrawSample
<1>20. ASSUME NEW u \in Slots, ListSamples(u) \/ MarkSample(u) \/ Refresh(u) \/ HearSamples(u)
       PROVE  calls'[t].reply = "checked"
  <2>1. calls[u].reply # "checked"
    BY <1>20 DEF ListSamples, MarkSample, Asked, Refresh, HearSamples
  <2>2. CASE HearSamples(u)
    BY <1>2, <2>1, <2>2, OneIsDoneShape DEF HearSamples
  <2>3. CASE ListSamples(u) \/ MarkSample(u) \/ Refresh(u)
    BY <1>2, <2>1, <2>3, ListSamplesDoes, MarkSampleDoes, RefreshDoes
  <2> QED
    BY <1>20, <2>2, <2>3
<1>21. CASE OnSendAudit
  BY <1>16, <1>18, <1>19, <1>20, <1>21 DEF OnSendAudit, AuditServer, FailAudit
<1>22. CASE AnyCall
  BY <1>2, <1>22, RefuseTokenDoes DEF AnyCall, RefuseToken
<1>23. CASE UNCHANGED vars
  BY <1>8, <1>23 DEF vars
<1> QED
  BY <1>10, <1>11, <1>12, <1>17, <1>21, <1>22, <1>23 DEF Next

\* What is approved is what the page showed at the click, for any texts and any number of calls
\* under way: an approval names only the message, and the text it stands for is the draft's until
\* the approval is carried out.  Left in doubt are another reviewer's edits, an edit cancelled and
\* a save that overlaps another call.
THEOREM ApprovalsAreAsShown == Spec => ApprovesAsShown
<1>1. ASSUME Shape, ReviewInv, [Next]_vars, NEW t \in Slots, ~doubt,
             calls[t].kind = "approve", calls[t].reply = "checked", calls'[t].reply # "checked"
      PROVE  draft'.body = calls[t].text
  <2>1. draft.body = calls[t].text
    BY <1>1 DEF ReviewInv, ShownIsDraft
  <2>2. draft' = [draft EXCEPT !.status = "approved"]
    BY <1>1, CheckedApprovalStays, WriteDraftDoes DEF Shape
  <2>3. draft \in DraftRow
    BY <1>1 DEF Shape, ReviewShape
  <2> QED
    BY <2>1, <2>2, <2>3 DEF DraftRow
<1>2. Shape /\ ReviewInv /\ [Next]_vars =>
         \A s \in Slots :
            calls[s].kind = "approve" /\ calls[s].reply = "checked" /\ calls'[s].reply # "checked"
               /\ ~doubt => draft'.body = calls[s].text
  BY <1>1
<1> QED
  BY ReviewInvariant, <1>2, PTL DEF Spec, ApprovesAsShown

(***************************************************************************)
(* The list shows the verdicts on record.                                  *)
(***************************************************************************)
KeptForAudit(s) ==
    \/ calls[s].kind \notin AuditKinds /\ calls'[s].kind \notin AuditKinds
    \/ calls'[s] = calls[s]

LEMMA AuditKept ==
    ASSUME AuditInv, UNCHANGED audit, \A s \in Slots : KeptForAudit(s) PROVE AuditInv'
<1>1. UNCHANGED <<list, disturbed, FirstPage>>
  BY DEF audit, FirstPage, Drawn
<1>2. UnderWay(AuditKinds)' = UnderWay(AuditKinds)
  BY DEF UnderWay, KeptForAudit
<1>3. \A s \in UnderWay(AuditKinds) : calls'[s] = calls[s]
  BY DEF UnderWay, KeptForAudit
<1> QED
  BY <1>1, <1>2, <1>3 DEF AuditInv

LEMMA OneKeptForAudit ==
    ASSUME AuditInv, UNCHANGED audit, NEW t \in Slots, OneChanges(t),
           calls[t].kind \notin AuditKinds, calls'[t].kind \notin AuditKinds
    PROVE  AuditInv'
BY AuditKept DEF OneChanges, KeptForAudit

\* The page's only call goes on, or is over when nothing that is on show depends on it.
LEMMA OneForAudit ==
    ASSUME AuditInv, NEW t \in Slots, OneChanges(t), calls[t].kind \in AuditKinds,
           UNCHANGED <<list, disturbed>>, list.mounted, ~disturbed,
           calls'[t].kind \in AuditKinds =>
              /\ calls'[t].kind = "samples" /\ calls'[t].reply = "ok" => calls'[t].rows = FirstPage'
              /\ ~list.error => calls'[t].to = "page",
           calls'[t].kind \notin AuditKinds => list.error
    PROVE  AuditInv'
<1>1. \A s \in Slots : calls[s].kind \in AuditKinds => s = t
  BY DEF AuditInv, UnderWay
<1>2. \A s \in Slots : calls'[s].kind \in AuditKinds => s = t
  BY <1>1 DEF OneChanges
<1>3. \A s \in UnderWay(AuditKinds)' : s = t
  BY <1>2 DEF UnderWay
<1>4. CASE calls'[t].kind \in AuditKinds
  <2>1. t \in UnderWay(AuditKinds)'
    BY <1>4 DEF UnderWay
  <2> QED
    BY <1>3, <1>4, <2>1 DEF AuditInv
<1>5. CASE calls'[t].kind \notin AuditKinds
  <2>1. UnderWay(AuditKinds)' = {}
    BY <1>2, <1>5 DEF UnderWay
  <2> QED
    BY <1>5, <2>1 DEF AuditInv
<1> QED
  BY <1>4, <1>5

\* A page that asks alone.
LEMMA FirstForAudit ==
    ASSUME NEW t \in Slots, OneChanges(t), UnderWay(AuditKinds) = {},
           calls'[t].kind \in AuditKinds, calls'[t].to = "page", calls'[t].reply = "sent"
    PROVE  AuditInv'
<1>1. \A s \in Slots : calls'[s].kind \in AuditKinds => s = t
  BY DEF OneChanges, UnderWay
<1>2. UnderWay(AuditKinds)' = {t}
  BY <1>1 DEF UnderWay
<1> QED
  BY <1>2 DEF AuditInv

LEMMA OnSendAuditKeepsAudit == ASSUME Shape, AuditInv, OnSendAudit PROVE AuditInv'
<1> USE DEF Shape
<1> SUFFICES ASSUME list'.mounted, ~disturbed' PROVE AuditInv'
  BY DEF AuditInv
<1>0. list.mounted
  BY OnSendAuditKeepsShape
<1>1. CASE Mark
  <2>1. UnderWay(AuditKinds) = {}
    BY <1>1 DEF Mark
  <2>2. PICK t \in Slots :
           OneChanges(t) /\ calls'[t].kind = "mark" /\ calls'[t].to = "page" /\ calls'[t].reply = "sent"
    BY <1>1, MarkDoes
  <2> QED
    BY <2>1, <2>2, FirstForAudit DEF AuditKinds
<1>2. CASE OtherVerdict \/ DrawSample
  BY <1>2 DEF OtherVerdict, DrawSample
<1>3. ASSUME NEW t \in Slots, ListSamples(t) PROVE AuditInv'
  <2>1. UNCHANGED <<list, disturbed, FirstPage>>
    BY <1>3 DEF ListSamples, audit, FirstPage, Drawn
  <2>2. t \in UnderWay(AuditKinds) /\ calls[t].kind \in AuditKinds
    BY <1>3, ListSamplesDoes DEF UnderWay, AuditKinds
  <2>3. calls[t].to # "page" => list.error
    BY <1>0, <2>1, <2>2 DEF AuditInv
  <2>4. OneChanges(t)
    BY <1>3, ListSamplesDoes
  <2>5. CASE calls'[t] = NoCall /\ calls[t].to # "page"
    BY <1>0, <2>1, <2>2, <2>3, <2>4, <2>5, OneForAudit, NoCallIsProper DEF AuditKinds
  <2>6. CASE calls'[t].kind = "samples" /\ calls'[t].to = "page" /\ calls'[t].rows = FirstPage
    BY <1>0, <2>1, <2>2, <2>4, <2>6, OneForAudit DEF AuditKinds
  <2> QED
    BY <1>3, <2>5, <2>6, ListSamplesDoes
<1>4. ASSUME NEW t \in Slots, MarkSample(t) PROVE AuditInv'
  <2>1. UNCHANGED <<list, disturbed>>
    BY <1>4 DEF MarkSample
  <2>2. t \in UnderWay(AuditKinds) /\ calls[t].kind \in AuditKinds
    BY <1>4, MarkSampleDoes DEF UnderWay, AuditKinds
  <2>3. calls[t].to # "page" => list.error
    BY <1>0, <2>1, <2>2 DEF AuditInv
  <2>4. OneChanges(t)
    BY <1>4, MarkSampleDoes
  <2>5. CASE calls'[t] = NoCall /\ calls[t].to = "nobody"
    BY <1>0, <2>1, <2>2, <2>3, <2>4, <2>5, OneForAudit, NoCallIsProper DEF AuditKinds
  <2>6. CASE calls'[t].kind = "mark" /\ calls'[t].to = calls[t].to
    BY <1>0, <2>1, <2>2, <2>3, <2>4, <2>6, OneForAudit DEF AuditKinds
  <2> QED
    BY <1>4, <2>5, <2>6, MarkSampleDoes
<1>5. ASSUME NEW t \in Slots, Refresh(t) PROVE AuditInv'
  <2>1. UNCHANGED <<list, disturbed, FirstPage>>
    BY <1>5 DEF Refresh, audit, FirstPage, Drawn
  <2>2. /\ OneChanges(t) /\ calls[t].kind = "mark" /\ calls'[t].to = calls[t].to
        /\ calls'[t].kind = "samples" /\ calls'[t].reply = "sent"
    BY <1>5, RefreshDoes
  <2>3. t \in UnderWay(AuditKinds) /\ calls[t].kind \in AuditKinds
    BY <2>2 DEF UnderWay, AuditKinds
  <2>4. calls[t].to # "page" => list.error
    BY <1>0, <2>1, <2>3 DEF AuditInv
  <2> QED
    BY <1>0, <2>1, <2>2, <2>3, <2>4, OneForAudit DEF AuditKinds
<1>6. ASSUME NEW t \in Slots, HearSamples(t) PROVE AuditInv'
  <2>1. /\ calls[t].kind = "samples" /\ calls[t].reply = "ok"
        /\ Done(t) /\ UNCHANGED <<samples, disturbed>>
        /\ list' = [list EXCEPT !.loaded = TRUE, !.rows = calls[t].rows]
    BY <1>6 DEF HearSamples
  <2>2. UNCHANGED FirstPage
    BY <2>1 DEF FirstPage, Drawn
  <2>3. t \in UnderWay(AuditKinds)
    BY <2>1 DEF UnderWay, AuditKinds
  <2>4. calls[t].rows = FirstPage /\ \A s \in Slots \ {t} : calls[s].kind \notin AuditKinds
    BY <1>0, <2>1, <2>3 DEF AuditInv, UnderWay
  <2>5. calls'[t] = NoCall /\ \A s \in Slots \ {t} : calls'[s] = calls[s]
    BY <2>1, OneIsDoneShape DEF OneChanges
  <2>6. UnderWay(AuditKinds)' = {}
    BY <2>4, <2>5, NoCallIsProper DEF UnderWay, AuditKinds
  <2>7. list'.rows = FirstPage'
    BY <2>1, <2>2, <2>4 DEF AuditShape
  <2> QED
    BY <2>6, <2>7 DEF AuditInv
<1>7. ASSUME NEW t \in Slots, FailAudit(t) PROVE AuditInv'
  <2>1. /\ calls[t].kind \in AuditKinds /\ Fail(t) /\ UNCHANGED <<samples, disturbed>>
        /\ list' = IF calls[t].to = "page" THEN [list EXCEPT !.error = TRUE] ELSE list
    BY <1>7 DEF FailAudit
  <2>2. OneChanges(t) /\ GoesOn(calls'[t], calls[t])
    BY <2>1, FailDoes
  <2>3. UNCHANGED FirstPage
    BY <2>1 DEF FirstPage, Drawn
  <2>4. t \in UnderWay(AuditKinds)
    BY <2>1 DEF UnderWay
  <2>5. list'.error
    <3>1. calls[t].to # "page" => list.error
      BY <1>0, <2>1, <2>4 DEF AuditInv
    <3> QED
      BY <2>1, <3>1 DEF AuditShape
  <2>6. \A s \in UnderWay(AuditKinds) : s = t
    BY <1>0, <2>1, <2>4 DEF AuditInv
  <2>7. \A s \in UnderWay(AuditKinds)' : s = t
    BY <2>1, <2>2, <2>6 DEF UnderWay, OneChanges
  <2>8. calls'[t].kind = "samples" /\ calls'[t].reply = "ok" => calls'[t].rows = FirstPage
    <3>1. calls[t].kind = "samples" /\ calls[t].reply = "ok" => calls[t].rows = FirstPage
      BY <1>0, <2>1, <2>4 DEF AuditInv
    <3> QED
      BY <2>2, <3>1, NoCallIsProper DEF GoesOn
  <2> QED
    BY <2>3, <2>5, <2>7, <2>8 DEF AuditInv
<1> QED
  BY <1>1, <1>2, <1>3, <1>4, <1>5, <1>6, <1>7 DEF OnSendAudit, AuditServer

LEMMA OnAccountKeepsAudit == ASSUME Shape, AuditInv, OnAccount PROVE AuditInv'
<1> USE DEF Shape
<1>0. UNCHANGED audit
  BY DEF OnAccount
<1>1. NoCall.kind \notin AuditKinds /\ DraftKinds \cap AuditKinds = {}
  BY NoCallIsProper DEF DraftKinds, AuditKinds
<1>2. ASSUME NEW kind \in DraftKinds, Click(kind) PROVE AuditInv'
  <2>1. PICK t \in Slots : calls[t] = NoCall /\ OneChanges(t) /\ calls'[t].kind = kind
    BY <1>2, ClickDoes
  <2> QED
    BY <1>0, <1>1, <2>1, OneKeptForAudit
<1>3. CASE Save \/ Approve \/ Reject
  BY <1>2, <1>3 DEF Save, Approve, Reject, DraftKinds
<1>4. CASE Edit \/ Type \/ Cancel \/ OtherReviewer \/ ChangeEscalation
  BY <1>0, <1>4, AuditKept
     DEF Edit, Type, Cancel, Local, OtherReviewer, ChangeEscalation, KeptForAudit
<1>5. ASSUME NEW t \in Slots, GetDetail(t) \/ ListEscalations(t) PROVE AuditInv'
  <2>1. /\ OneChanges(t) /\ calls[t].kind \in {"account", "escalations"}
        /\ calls'[t] = NoCall \/ calls'[t].kind = calls[t].kind
    BY <1>5, GetDetailDoes, ListEscalationsDoes
  <2> QED
    BY <1>0, <1>1, <2>1, OneKeptForAudit DEF AuditKinds
<1>6. ASSUME NEW t \in Slots, CheckDraft(t) \/ WriteDraft(t) PROVE AuditInv'
  <2>1. /\ OneChanges(t) /\ calls[t].kind \in DraftKinds
        /\ calls'[t] = NoCall \/ calls'[t].kind = calls[t].kind
    BY <1>6, CheckDraftDoes, WriteDraftDoes
  <2> QED
    BY <1>0, <1>1, <2>1, OneKeptForAudit
<1>7. ASSUME NEW t \in Slots, HearReview(t) \/ FailReview(t) PROVE AuditInv'
  <2>1. calls[t].kind \notin AuditKinds
    BY <1>7 DEF HearReview, FailReview, DraftKinds, AuditKinds
  <2>2. OneChanges(t) /\ (calls'[t] = NoCall \/ GoesOn(calls'[t], calls[t]))
    BY <1>7, OneIsDoneShape, FailDoes DEF HearReview, FailReview
  <2>3. calls'[t].kind \notin AuditKinds
    BY <1>1, <2>1, <2>2 DEF GoesOn
  <2> QED
    BY <1>0, <2>1, <2>2, <2>3, OneKeptForAudit
<1> QED
  BY <1>3, <1>4, <1>5, <1>6, <1>7 DEF OnAccount, ReviewUse, ReviewServer

LEMMA AuditStep == ASSUME Shape, AuditInv, [Next]_vars PROVE AuditInv'
<1> USE DEF Shape
<1>1. CASE Leave
  BY <1>1 DEF Leave, LeaveAudit, NoList, AuditInv
<1>2. CASE InSession
  <2>1. CASE view' = "authenticated"
    <3>1. UNCHANGED audit /\ SessionStep
      BY <1>2, <2>1 DEF InSession, Stay
    <3>2. CASE list.mounted
      BY <2>1, <3>1, <3>2, SessionKeepsCalls, AuditKept DEF KeptForAudit
    <3>3. CASE ~list.mounted
      BY <3>1, <3>3 DEF AuditInv, audit
    <3> QED
      BY <3>2, <3>3
  <2> QED
    BY <1>1, <1>2, <2>1 DEF InSession
<1>3. CASE ReloadTab \/ Navigate
  BY <1>1, <1>3 DEF ReloadTab, Navigate
<1>4. CASE MountReview /\ UNCHANGED audit
  <2>1. PICK s, t \in Slots :
           /\ calls[s] = NoCall /\ calls[t] = NoCall
           /\ calls'[s].kind = "account" /\ calls'[t].kind = "escalations"
           /\ \A r \in Slots \ {s, t} : calls'[r] = calls[r]
    BY <1>4, MountReviewDoes
  <2>2. \A r \in Slots : KeptForAudit(r)
    BY <2>1, NoCallIsProper DEF KeptForAudit, AuditKinds
  <2> QED
    BY <1>4, <2>2, AuditKept
<1>5. CASE MountAudit
  <2> SUFFICES ASSUME ~disturbed' PROVE AuditInv'
    BY DEF AuditInv
  <2>1. UnderWay(AuditKinds) = {}
    BY <1>5 DEF MountAudit
  <2>2. PICK t \in Slots : /\ OneChanges(t) /\ calls'[t].kind = "samples"
                           /\ calls'[t].to = "page" /\ calls'[t].reply = "sent"
    BY <1>5, MountAuditDoes
  <2> QED
    BY <2>1, <2>2, FirstForAudit DEF AuditKinds
<1>6. CASE AnyCall
  <2>1. PICK t \in Slots : RefuseToken(t)
    BY <1>6 DEF AnyCall
  <2>2. /\ OneChanges(t)
        /\ \/ calls[t].to = "nobody" /\ calls'[t] = NoCall
           \/ /\ calls'[t].kind = calls[t].kind /\ calls'[t].to = calls[t].to
              /\ calls'[t].rows = calls[t].rows /\ calls'[t].reply = "unauthorized"
    BY <2>1, RefuseTokenDoes
  <2>3. UNCHANGED audit /\ UNCHANGED <<list, disturbed>>
    BY <1>6 DEF AnyCall, audit
  <2>4. CASE calls[t].kind \notin AuditKinds
    BY <2>2, <2>3, <2>4, OneKeptForAudit, NoCallIsProper DEF AuditKinds
  <2>5. CASE calls[t].kind \in AuditKinds /\ list.mounted /\ ~disturbed
    <3>1. ~list.error => calls[t].to = "page"
      BY <2>5 DEF AuditInv, UnderWay
    <3> QED
      BY <2>2, <2>3, <2>5, <3>1, OneForAudit, NoCallIsProper DEF AuditKinds
  <2>6. CASE ~list.mounted \/ disturbed
    BY <2>3, <2>6 DEF AuditInv
  <2> QED
    BY <2>4, <2>5, <2>6
<1>7. CASE UNCHANGED vars
  BY <1>7, AuditKept DEF vars, audit, KeptForAudit
<1> QED
  BY <1>2, <1>3, <1>4, <1>5, <1>6, <1>7, OnAccountKeepsAudit, OnSendAuditKeepsAudit
     DEF Next, Mount

\* Once its calls are answered the Send Audit page shows the verdicts on record, for any page size
\* and any number of samples, unless somebody else marked them or its calls overlapped: marks, new
\* lists, lost answers, refused tokens and visits may follow each other in any order.
THEOREM AuditPageIsTrue == Spec => []AuditShowsVerdicts
<1>1. TabInit => AuditInv
  BY DEF TabInit, InitAudit, NoList, AuditInv
<1>2. Shape /\ AuditInv => AuditShowsVerdicts
  BY DEF Shape, AuditShape, AuditInv, AuditShowsVerdicts
<1> QED
  BY ShapeInvariant, AuditStep, <1>1, <1>2, PTL DEF Spec

(***************************************************************************)
(* The Settings screen.                                                    *)
(***************************************************************************)
\* A live call is one of an open page, and only live calls are answered.
SettingsShape ==
    /\ setting \in SettingsRow
    /\ setting.enabled => setting.reason = NoReason
    /\ panel \in [Admins -> Panel]
    /\ request \in [Requests -> Request]
    /\ interfered \in [Admins -> BOOLEAN]
    /\ \A a \in Admins : panel[a].loaded => panel[a].open
    /\ \A q \in Requests :
          /\ request[q].live => /\ request[q].stage # "free" /\ request[q].admin \in Admins
                                /\ panel[request[q].admin].open
          /\ request[q].stage = "answered" => request[q].live

\* What a page has on show is so: the switch, and what confirming its form would change.
SwitchKnown(pane) == pane.loaded => pane.shown = SwitchOf(setting)
ChangeKnown(pane) ==
    pane.diff # NoChange => pane.loaded /\ pane.diff = Diff(setting.advanced, pane.form)

\* A page that waits for one call knows what it knew while the call is on its way, and knows it
\* from the call and what is on show once the server has answered.
CallKnown(call, pane) ==
    /\ (call.kind = "load") = ~pane.loaded
    /\ call.stage = "sent" =>
          /\ SwitchKnown(pane) /\ ChangeKnown(pane)
          /\ call.kind = "proposal" => call.form = pane.form
          /\ call.kind = "confirm" => call.diff = Diff(setting.advanced, call.form)
    /\ call.stage = "answered" =>
          /\ call.kind \in {"proposal", "notice", "basic"} => SwitchKnown(pane)
          /\ call.kind \notin {"proposal", "notice"} => call.switch = SwitchOf(setting)
          /\ call.kind # "confirm" => ChangeKnown(pane)
          /\ call.kind = "proposal" => call.diff = Diff(setting.advanced, pane.form)

\* An admin nothing interfered with waits for one answer at most, and knows the row from the page
\* and that answer.
Informed(a) ==
    panel[a].open /\ ~interfered[a] =>
        /\ \A q, r \in Mine(a) : q = r
        /\ Mine(a) = {} => SwitchKnown(panel[a]) /\ ChangeKnown(panel[a])
        /\ \A q \in Mine(a) : CallKnown(request[q], panel[a])

SettingsInv == SettingsShape /\ \A a \in Admins : Informed(a)

\* What the operators on rows and calls return has its shape.
LEMMA SettingsRows ==
    /\ Defaults \in Advanced /\ Off \in Switch /\ Closed \in Panel /\ NoRequest \in Request
    /\ \A row \in SettingsRow : SwitchOf(row) \in Switch
    /\ \A before, after \in Advanced : Diff(before, after) \in SUBSET Change
<1>1. PICK v \in Values : v = CHOOSE w \in Values : TRUE
  BY ConsoleSettingsAssumption
<1>2. Defaults \in Advanced
  BY <1>1 DEF Defaults, Advanced
<1>3. Off \in Switch
  BY DEF Off, Switch
<1>4. Closed \in Panel
  BY <1>2, <1>3 DEF Closed, Panel, NoChange
<1>5. NoRequest \in Request
  BY <1>2, <1>3 DEF NoRequest, Request, RequestKinds, NoChange
<1>6. ASSUME NEW row \in SettingsRow
      PROVE SwitchOf(row) \in Switch
  BY DEF SettingsRow, SwitchOf, Switch
<1>7. ASSUME NEW before \in Advanced, NEW after \in Advanced, NEW change \in Diff(before, after)
      PROVE change \in Change
  BY DEF Diff, Change, Advanced
<1> QED
  BY <1>2, <1>3, <1>4, <1>5, <1>6, <1>7

\* A call as its page sends it.
LEMMA SentCall ==
    ASSUME NEW a \in Admins, NEW kind \in RequestKinds
    PROVE /\ Requested(a, kind) \in Request /\ Requested(a, kind).admin = a
          /\ Requested(a, kind).live /\ Requested(a, kind).stage = "sent"
          /\ Requested(a, kind).kind = kind
BY SettingsRows DEF Requested, Request, NoRequest

\* An answer with the row.
LEMMA ToldCall ==
    ASSUME SettingsShape, NEW q \in Requests, NEW STATE row, row \in SettingsRow,
           NEW STATE call, call = Told(q, row)
    PROVE /\ call \in Request /\ call.admin = request[q].admin
          /\ call.live /\ call.stage = "answered" /\ call.kind = request[q].kind
          /\ call.switch = SwitchOf(row)
<1>1. request[q] \in Request /\ NoRequest \in Request /\ SwitchOf(row) \in Switch
  BY SettingsRows DEF SettingsShape
<1>2. request[q].admin \in Admins \cup {NoAdmin} /\ request[q].kind \in RequestKinds
  BY <1>1 DEF Request
<1> QED
  BY <1>1, <1>2 DEF Told, Request

\* One call changes: the others are whose they were.
LEMMA OneCallChanges ==
    ASSUME SettingsShape, NEW q \in Requests, NEW STATE call, call \in Request,
           request' = [request EXCEPT ![q] = call]
    PROVE /\ request' \in [Requests -> Request] /\ request'[q] = call
          /\ \A r \in Requests : r # q => request'[r] = request[r]
          /\ \A a \in Admins : \A r \in Requests :
                r \in Mine(a)' <=> IF r = q THEN call.admin = a /\ call.live ELSE r \in Mine(a)
<1>1. request' \in [Requests -> Request] /\ request'[q] = call
  BY DEF SettingsShape
<1>2. \A r \in Requests : r # q => request'[r] = request[r]
  BY DEF SettingsShape
<1> QED
  BY <1>1, <1>2 DEF Mine

\* The shape after a step that changes one call and opens no page.
LEMMA ShapeStays ==
    ASSUME SettingsShape, NEW q \in Requests, NEW STATE call, call \in Request,
           request' = [request EXCEPT ![q] = call],
           call.live => /\ call.stage # "free" /\ call.admin \in Admins
                        /\ panel[call.admin].open,
           call.stage = "answered" => call.live,
           setting' \in SettingsRow, setting'.enabled => setting'.reason = NoReason,
           panel' \in [Admins -> Panel], interfered' \in [Admins -> BOOLEAN],
           \A a \in Admins : /\ panel'[a].open = panel[a].open
                             /\ panel'[a].loaded => panel'[a].open
    PROVE SettingsShape'
<1>1. /\ request' \in [Requests -> Request] /\ request'[q] = call
      /\ \A r \in Requests : r # q => request'[r] = request[r]
  BY OneCallChanges
<1>2. ASSUME NEW r \in Requests
      PROVE /\ request'[r].live => /\ request'[r].stage # "free" /\ request'[r].admin \in Admins
                                   /\ panel'[request'[r].admin].open
            /\ request'[r].stage = "answered" => request'[r].live
  <2>1. CASE r = q
    BY <1>1, <2>1
  <2>2. CASE r # q
    BY <1>1, <2>2 DEF SettingsShape
  <2> QED
    BY <2>1, <2>2
<1> QED
  BY <1>1, <1>2 DEF SettingsShape

\* The shape after a step that changes a page only.
LEMMA ShapeOfPage ==
    ASSUME SettingsShape, NEW a \in Admins, NEW STATE next, next \in Panel,
           next.open = panel[a].open, next.loaded = panel[a].loaded,
           panel' = [panel EXCEPT ![a] = next], interfered' \in [Admins -> BOOLEAN],
           setting' = setting, request' = request
    PROVE SettingsShape'
<1>1. /\ panel' \in [Admins -> Panel]
      /\ \A b \in Admins : panel'[b].open = panel[b].open /\ panel'[b].loaded = panel[b].loaded
  BY DEF SettingsShape
<1> QED
  BY <1>1 DEF SettingsShape

\* An admin with the same page, the same calls and the same row knows the same.
LEMMA StaysInformed ==
    ASSUME SettingsInv, NEW a \in Admins, setting' = setting, panel'[a] = panel[a],
           interfered'[a] = interfered[a],
           \A r \in Requests : r \in Mine(a)' <=> r \in Mine(a),
           \A r \in Mine(a) : request'[r] = request[r]
    PROVE Informed(a)'
<1>1. Informed(a)
  BY DEF SettingsInv
<1>2. Mine(a)' = Mine(a)
  BY DEF Mine
<1>3. ASSUME NEW r \in Mine(a), CallKnown(request[r], panel[a])
      PROVE CallKnown(request[r], panel[a])'
  BY <1>3 DEF CallKnown, SwitchKnown, ChangeKnown
<1>4. SwitchKnown(panel[a]) => SwitchKnown(panel[a])'
  BY DEF SwitchKnown
<1>5. ChangeKnown(panel[a]) => ChangeKnown(panel[a])'
  BY DEF ChangeKnown
<1> QED
  BY <1>1, <1>2, <1>3, <1>4, <1>5 DEF Informed

\* A page that was told nothing and has heard nothing: every other admin, when a call of one
\* admin changes.
LEMMA OthersStayInformed ==
    ASSUME SettingsInv, NEW q \in Requests, NEW STATE call, call \in Request,
           request' = [request EXCEPT ![q] = call], setting' = setting,
           NEW b \in Admins, q \notin Mine(b), ~(call.admin = b /\ call.live),
           panel'[b] = panel[b], interfered'[b] = interfered[b]
    PROVE Informed(b)'
<1>1. SettingsShape
  BY DEF SettingsInv
<1>2. /\ \A r \in Requests : r # q => request'[r] = request[r]
      /\ \A r \in Requests :
            r \in Mine(b)' <=> IF r = q THEN call.admin = b /\ call.live ELSE r \in Mine(b)
  BY <1>1, OneCallChanges
<1>3. \A r \in Requests : r \in Mine(b)' <=> r \in Mine(b)
  BY <1>2
<1>4. \A r \in Mine(b) : request'[r] = request[r]
  BY <1>2 DEF Mine
<1> QED
  BY <1>3, <1>4, StaysInformed

\* A click sends a call that says what the page has on show.
LEMMA PressKeepsInv ==
    ASSUME SettingsInv, NEW a \in Admins, NEW STATE asked, asked \in Request, Press(a, asked),
           asked.admin = a, asked.live, asked.stage = "sent", asked.kind # "load",
           asked.kind = "proposal" => asked.form = panel[a].form,
           asked.kind = "confirm" => /\ asked.form = panel[a].form /\ asked.diff = panel[a].diff
                                     /\ panel[a].diff # NoChange
    PROVE SettingsInv'
<1>1. SettingsShape
  BY DEF SettingsInv
<1>2. PICK q \in Requests : request[q].stage = "free" /\ request' = [request EXCEPT ![q] = asked]
  BY DEF Press, Send
<1>3. /\ panel[a].loaded /\ panel[a].open /\ setting' = setting /\ panel' = panel
      /\ interfered' = [interfered EXCEPT ![a] = interfered[a] \/ Mine(a) # {}]
  BY <1>1 DEF Press, SettingsShape
<1>4. ~request[q].live
  BY <1>1, <1>2 DEF SettingsShape
<1>5. interfered' \in [Admins -> BOOLEAN]
  BY <1>1, <1>3 DEF SettingsShape
<1>6. SettingsShape'
  <2>1. /\ setting' \in SettingsRow /\ (setting'.enabled => setting'.reason = NoReason)
        /\ panel' \in [Admins -> Panel]
        /\ \A b \in Admins : panel'[b].open = panel[b].open /\ (panel'[b].loaded => panel'[b].open)
    BY <1>1, <1>3 DEF SettingsShape
  <2> QED
    BY <1>1, <1>2, <1>3, <1>5, <2>1, ShapeStays
<1>7. ASSUME NEW b \in Admins
      PROVE Informed(b)'
  <2>1. CASE b # a
    <3>1. interfered'[b] = interfered[b] /\ q \notin Mine(b) /\ panel'[b] = panel[b]
      BY <1>1, <1>3, <1>4, <2>1 DEF SettingsShape, Mine
    <3> QED
      BY <1>2, <1>3, <2>1, <3>1, OthersStayInformed
  <2>2. CASE b = a /\ interfered'[a]
    BY <2>2 DEF Informed
  <2>3. CASE b = a /\ ~interfered'[a]
    <3>1. ~interfered[a] /\ Mine(a) = {}
      BY <1>1, <1>3, <2>3 DEF SettingsShape
    <3>2. SwitchKnown(panel[a]) /\ ChangeKnown(panel[a])
      BY <1>3, <3>1 DEF SettingsInv, Informed
    <3>3. request'[q] = asked /\ \A r \in Requests : r \in Mine(a)' <=> r = q
      BY <1>1, <1>2, <3>1, OneCallChanges
    <3>4. SwitchKnown(panel[a])' /\ ChangeKnown(panel[a])'
      BY <1>3, <3>2 DEF SwitchKnown, ChangeKnown
    <3>5. CallKnown(request[q], panel[a])'
      BY <1>3, <3>2, <3>3, <3>4 DEF CallKnown, ChangeKnown
    <3>6. \A r \in Mine(a)' : r = q
      BY <3>3 DEF Mine
    <3> QED
      BY <2>3, <3>3, <3>5, <3>6 DEF Informed
  <2> QED
    BY <2>1, <2>2, <2>3
<1> QED
  BY <1>6, <1>7 DEF SettingsInv

\* The server answers from the row as it is, and leaves it as it is.
LEMMA AnswerKeepsInv ==
    ASSUME SettingsInv, NEW q \in Requests, NEW STATE answer, answer \in Request,
           request[q].stage = "sent", Respond(q, answer),
           answer.admin = request[q].admin, answer.live, answer.stage = "answered",
           answer.kind = request[q].kind,
           \/ answer.kind = "load" /\ answer.switch = SwitchOf(setting)
           \/ answer.kind = "notice"
           \/ answer.kind = "proposal" /\ answer.diff = Diff(setting.advanced, request[q].form),
           UNCHANGED <<setting, panel, interfered>>
    PROVE SettingsInv'
<1> DEFINE call == IF request[q].live THEN answer ELSE NoRequest
<1>1. SettingsShape
  BY DEF SettingsInv
<1>2. /\ call \in Request /\ (call.live => call = answer /\ request[q].live)
      /\ (~call.live => call = NoRequest /\ ~request[q].live)
  BY SettingsRows DEF NoRequest
<1>3. request' = [request EXCEPT ![q] = call]
  BY DEF Respond
<1> HIDE DEF call
<1>4. /\ call.live => /\ call.stage # "free" /\ call.admin \in Admins /\ panel[call.admin].open
      /\ call.stage = "answered" => call.live
  BY <1>1, <1>2 DEF SettingsShape, NoRequest
<1>5. SettingsShape'
  <2>1. /\ setting' \in SettingsRow /\ (setting'.enabled => setting'.reason = NoReason)
        /\ panel' \in [Admins -> Panel] /\ interfered' \in [Admins -> BOOLEAN]
        /\ \A b \in Admins : panel'[b].open = panel[b].open /\ (panel'[b].loaded => panel'[b].open)
    BY <1>1 DEF SettingsShape
  <2> QED
    BY <1>1, <1>2, <1>3, <1>4, <2>1, ShapeStays
<1>6. ASSUME NEW b \in Admins
      PROVE Informed(b)'
  <2>1. CASE q \notin Mine(b)
    <3>1. ~(call.admin = b /\ call.live)
      BY <1>2, <2>1 DEF Mine
    <3> QED
      BY <1>2, <1>3, <2>1, <3>1, OthersStayInformed
  <2>2. CASE q \in Mine(b) /\ ~(panel[b].open /\ ~interfered[b])
    BY <2>2 DEF Informed
  <2>3. CASE q \in Mine(b) /\ panel[b].open /\ ~interfered[b]
    <3>1. request[q].live /\ request[q].admin = b
      BY <2>3 DEF Mine
    <3>2. call = answer
      BY <1>2, <3>1
    <3>3. (\A r \in Mine(b) : r = q) /\ CallKnown(request[q], panel[b])
      BY <2>3 DEF SettingsInv, Informed
    <3>4. request'[q] = answer /\ \A r \in Requests : r \in Mine(b)' <=> r = q
      BY <1>1, <1>2, <1>3, <2>3, <3>1, <3>2, <3>3, OneCallChanges
    <3>5. SwitchKnown(panel[b])' /\ ChangeKnown(panel[b])'
      BY <3>3 DEF CallKnown, SwitchKnown, ChangeKnown
    <3>6. CallKnown(request[q], panel[b])'
      BY <3>3, <3>4, <3>5 DEF CallKnown
    <3>7. \A r \in Mine(b)' : r = q
      BY <3>4 DEF Mine
    <3> QED
      BY <3>4, <3>6, <3>7 DEF Informed
  <2> QED
    BY <2>1, <2>2, <2>3
<1> QED
  BY <1>5, <1>6 DEF SettingsInv

\* The server writes: the page that asked is told, and every other one is interfered with unless
\* nothing changes.
LEMMA WriteKeepsInv ==
    ASSUME SettingsInv, NEW q \in Requests, NEW STATE row, row \in SettingsRow,
           row.enabled => row.reason = NoReason, request[q].stage = "sent",
           request[q].kind \in {"pause", "resume", "basic", "confirm"},
           request[q].kind # "confirm" => row.advanced = setting.advanced,
           request[q].kind = "basic" => row = setting, Write(q, row)
    PROVE SettingsInv'
<1> DEFINE told == Told(q, row)
           call == IF request[q].live THEN told ELSE NoRequest
<1>1. SettingsShape
  BY DEF SettingsInv
<1>2. /\ told \in Request /\ told.admin = request[q].admin /\ told.live
      /\ told.stage = "answered" /\ told.kind = request[q].kind /\ told.switch = SwitchOf(row)
  BY <1>1, ToldCall
<1> HIDE DEF told
<1>3. /\ call \in Request /\ (call.live => call = told /\ request[q].live)
      /\ (~call.live => call = NoRequest /\ ~request[q].live)
  BY <1>2, SettingsRows DEF NoRequest
<1>4. /\ request' = [request EXCEPT ![q] = call] /\ setting' = row /\ panel' = panel
      /\ interfered' = [a \in Admins |-> interfered[a]
                          \/ (row # setting /\ panel[a].open /\ q \notin Mine(a))]
  BY DEF Write, Respond, told
<1> HIDE DEF call
<1>5. /\ call.live => /\ call.stage # "free" /\ call.admin \in Admins /\ panel[call.admin].open
      /\ call.stage = "answered" => call.live
  BY <1>1, <1>2, <1>3 DEF SettingsShape, NoRequest
<1>6. /\ interfered' \in [Admins -> BOOLEAN]
      /\ \A b \in Admins : interfered'[b] =
            (interfered[b] \/ (row # setting /\ panel[b].open /\ q \notin Mine(b)))
  <2>1. interfered \in [Admins -> BOOLEAN] /\ \A b \in Admins : panel[b].open \in BOOLEAN
    BY <1>1 DEF SettingsShape, Panel
  <2> QED
    BY <1>4, <2>1
<1>7. SettingsShape'
  <2>1. /\ panel' \in [Admins -> Panel]
        /\ \A b \in Admins : panel'[b].open = panel[b].open /\ (panel'[b].loaded => panel'[b].open)
    BY <1>1, <1>4 DEF SettingsShape
  <2> QED
    BY <1>1, <1>3, <1>4, <1>5, <1>6, <2>1, ShapeStays
<1>8. ASSUME NEW b \in Admins
      PROVE Informed(b)'
  <2>1. CASE ~panel[b].open \/ interfered'[b]
    BY <1>4, <2>1 DEF Informed
  <2>2. CASE q \notin Mine(b) /\ panel[b].open /\ ~interfered'[b]
    <3>1. ~(call.admin = b /\ call.live)
      BY <1>2, <1>3, <2>2 DEF Mine
    <3>2. setting' = setting /\ interfered'[b] = interfered[b]
      BY <1>1, <1>4, <1>6, <2>2 DEF SettingsShape
    <3> QED
      BY <1>3, <1>4, <2>2, <3>1, <3>2, OthersStayInformed
  <2>3. CASE q \in Mine(b) /\ panel[b].open /\ ~interfered'[b]
    <3>1. request[q].live /\ request[q].admin = b /\ ~interfered[b]
      BY <1>6, <2>3 DEF Mine
    <3>2. call = told
      BY <1>3, <3>1
    <3>3. (\A r \in Mine(b) : r = q) /\ CallKnown(request[q], panel[b])
      BY <2>3, <3>1 DEF SettingsInv, Informed
    <3>4. request'[q] = told /\ \A r \in Requests : r \in Mine(b)' <=> r = q
      BY <1>1, <1>2, <1>3, <1>4, <3>1, <3>2, <3>3, <2>3, OneCallChanges
    <3>5. told.kind # "confirm" => ChangeKnown(panel[b])'
      BY <1>2, <1>4, <3>3 DEF CallKnown, ChangeKnown
    <3>6. told.kind = "basic" => SwitchKnown(panel[b])'
      BY <1>2, <1>4, <3>3 DEF CallKnown, SwitchKnown
    <3>7. CallKnown(request[q], panel[b])'
      BY <1>2, <1>4, <3>3, <3>4, <3>5, <3>6 DEF CallKnown
    <3>8. \A r \in Mine(b)' : r = q
      BY <3>4 DEF Mine
    <3> QED
      BY <3>4, <3>7, <3>8 DEF Informed
  <2> QED
    BY <2>1, <2>2, <2>3
<1> QED
  BY <1>7, <1>8 DEF SettingsInv

\* A page that is opened waits for the row.
LEMMA OpenKeepsInv ==
    ASSUME SettingsInv, NEW a \in Admins, Open(a)
    PROVE SettingsInv'
<1> DEFINE opened == [Closed EXCEPT !.open = TRUE]
           asked == Requested(a, "load")
<1>1. SettingsShape
  BY DEF SettingsInv
<1>2. opened \in Panel /\ opened.open /\ ~opened.loaded /\ opened.diff = NoChange
  BY SettingsRows DEF Panel, Closed
<1>3. /\ asked \in Request /\ asked.admin = a /\ asked.live /\ asked.stage = "sent"
      /\ asked.kind = "load"
  BY SentCall DEF RequestKinds
<1>4. PICK q \in Requests : request[q].stage = "free" /\ request' = [request EXCEPT ![q] = asked]
  BY DEF Open, Send
<1>5. /\ ~panel[a].open /\ panel' = [panel EXCEPT ![a] = opened]
      /\ interfered' = [interfered EXCEPT ![a] = FALSE] /\ setting' = setting
  BY DEF Open
<1> HIDE DEF opened, asked
<1>6. /\ panel' \in [Admins -> Panel] /\ interfered' \in [Admins -> BOOLEAN]
      /\ panel'[a] = opened /\ ~interfered'[a]
      /\ \A b \in Admins : b # a => panel'[b] = panel[b] /\ interfered'[b] = interfered[b]
  BY <1>1, <1>2, <1>5 DEF SettingsShape
<1>7. ~request[q].live /\ Mine(a) = {}
  BY <1>1, <1>4, <1>5 DEF SettingsShape, Mine
<1>8. /\ request' \in [Requests -> Request] /\ request'[q] = asked
      /\ \A r \in Requests : r # q => request'[r] = request[r]
  BY <1>1, <1>3, <1>4, OneCallChanges
<1>9. SettingsShape'
  <2>1. ASSUME NEW r \in Requests
        PROVE /\ request'[r].live => /\ request'[r].stage # "free" /\ request'[r].admin \in Admins
                                     /\ panel'[request'[r].admin].open
              /\ request'[r].stage = "answered" => request'[r].live
    <3>1. CASE r = q
      BY <1>2, <1>3, <1>6, <1>8, <3>1
    <3>2. CASE r # q
      <4>1. request'[r].live => request[r].admin # a
        BY <1>1, <1>5, <1>8, <3>2 DEF SettingsShape
      <4> QED
        BY <1>1, <1>6, <1>8, <3>2, <4>1 DEF SettingsShape
    <3> QED
      BY <3>1, <3>2
  <2>2. \A b \in Admins : panel'[b].loaded => panel'[b].open
    BY <1>1, <1>2, <1>6 DEF SettingsShape
  <2>3. setting' \in SettingsRow /\ (setting'.enabled => setting'.reason = NoReason)
    BY <1>1, <1>5 DEF SettingsShape
  <2> QED
    BY <1>6, <1>8, <2>1, <2>2, <2>3 DEF SettingsShape
<1>10. ASSUME NEW b \in Admins
       PROVE Informed(b)'
  <2>1. CASE b # a
    <3>1. q \notin Mine(b) /\ ~(asked.admin = b /\ asked.live)
      BY <1>3, <1>7, <2>1 DEF Mine
    <3> QED
      BY <1>3, <1>4, <1>5, <1>6, <2>1, <3>1, OthersStayInformed
  <2>2. CASE b = a
    <3>1. \A r \in Requests : r \in Mine(a)' <=> r = q
      BY <1>1, <1>3, <1>4, <1>7, OneCallChanges
    <3>2. CallKnown(request[q], panel[a])'
      BY <1>2, <1>3, <1>6, <1>8 DEF CallKnown, SwitchKnown, ChangeKnown
    <3>3. \A r \in Mine(a)' : r = q
      BY <3>1 DEF Mine
    <3> QED
      BY <2>2, <3>1, <3>2, <3>3 DEF Informed
  <2> QED
    BY <2>1, <2>2
<1> QED
  BY <1>9, <1>10 DEF SettingsInv

\* A page that is closed waits for nothing; what it asked for goes on without it.
LEMMA CloseKeepsInv ==
    ASSUME SettingsInv, NEW a \in Admins, Close(a)
    PROVE SettingsInv'
<1>1. SettingsShape
  BY DEF SettingsInv
<1>2. /\ panel' = [panel EXCEPT ![a] = Closed] /\ interfered' = [interfered EXCEPT ![a] = FALSE]
      /\ setting' = setting
      /\ request' = [q \in Requests |->
                       IF q \notin Mine(a) THEN request[q]
                       ELSE IF request[q].stage = "sent" THEN [request[q] EXCEPT !.live = FALSE]
                       ELSE NoRequest]
  BY DEF Close
<1>3. Closed \in Panel /\ ~Closed.open /\ ~Closed.loaded
  BY SettingsRows DEF Closed
<1>4. /\ panel' \in [Admins -> Panel] /\ interfered' \in [Admins -> BOOLEAN]
      /\ panel'[a] = Closed
      /\ \A b \in Admins : b # a => panel'[b] = panel[b] /\ interfered'[b] = interfered[b]
  BY <1>1, <1>2, <1>3 DEF SettingsShape
<1>5. ASSUME NEW q \in Requests
      PROVE /\ request'[q] \in Request
            /\ q \notin Mine(a) => request'[q] = request[q]
            /\ q \in Mine(a) => ~request'[q].live /\ request'[q].stage # "answered"
  <2>1. request[q] \in Request /\ NoRequest \in Request
    BY <1>1, SettingsRows DEF SettingsShape
  <2>2. CASE q \notin Mine(a)
    BY <1>2, <2>1, <2>2
  <2>3. CASE q \in Mine(a) /\ request[q].stage = "sent"
    <3>1. request'[q] = [request[q] EXCEPT !.live = FALSE]
      BY <1>2, <2>3
    <3> QED
      BY <2>1, <2>3, <3>1 DEF Request
  <2>4. CASE q \in Mine(a) /\ request[q].stage # "sent"
    BY <1>2, <2>1, <2>4 DEF NoRequest
  <2> QED
    BY <2>2, <2>3, <2>4
<1>6. request' \in [Requests -> Request]
  BY <1>2, <1>5
<1>7. SettingsShape'
  <2>1. ASSUME NEW q \in Requests
        PROVE /\ request'[q].live => /\ request'[q].stage # "free" /\ request'[q].admin \in Admins
                                     /\ panel'[request'[q].admin].open
              /\ request'[q].stage = "answered" => request'[q].live
    <3>1. CASE q \in Mine(a)
      BY <1>5, <3>1
    <3>2. CASE q \notin Mine(a)
      <4>1. request'[q] = request[q] /\ (request[q].live => request[q].admin # a)
        BY <1>5, <3>2 DEF Mine
      <4> QED
        BY <1>1, <1>4, <4>1 DEF SettingsShape
    <3> QED
      BY <3>1, <3>2
  <2>2. \A b \in Admins : panel'[b].loaded => panel'[b].open
    BY <1>1, <1>3, <1>4 DEF SettingsShape
  <2>3. setting' \in SettingsRow /\ (setting'.enabled => setting'.reason = NoReason)
    BY <1>1, <1>2 DEF SettingsShape
  <2> QED
    BY <1>4, <1>6, <2>1, <2>2, <2>3 DEF SettingsShape
<1>8. ASSUME NEW b \in Admins
      PROVE Informed(b)'
  <2>1. CASE b = a
    BY <1>3, <1>4, <2>1 DEF Informed
  <2>2. CASE b # a
    <3>1. \A r \in Requests : r \in Mine(b)' <=> r \in Mine(b)
      BY <1>5, <2>2 DEF Mine
    <3>2. \A r \in Mine(b) : request'[r] = request[r]
      BY <1>5, <2>2 DEF Mine
    <3> QED
      BY <1>2, <1>4, <2>2, <3>1, <3>2, StaysInformed
  <2> QED
    BY <2>1, <2>2
<1> QED
  BY <1>7, <1>8 DEF SettingsInv

\* A step of one page that asks nothing and hears nothing, and leaves it knowing what it knew.
LEMMA PageKeepsInv ==
    ASSUME SettingsInv, NEW a \in Admins, NEW STATE next, next \in Panel,
           next.open = panel[a].open, next.loaded = panel[a].loaded,
           next.shown = panel[a].shown,
           panel' = [panel EXCEPT ![a] = next], interfered' \in [Admins -> BOOLEAN],
           \A b \in Admins : b # a => interfered'[b] = interfered[b],
           ~interfered'[a] =>
              /\ ~interfered[a]
              /\ ChangeKnown(panel[a]) => ChangeKnown(next)
              /\ \/ next.form = panel[a].form
                 \/ \A q \in Mine(a) : request[q].kind # "proposal",
           setting' = setting, request' = request
    PROVE SettingsInv'
<1>1. SettingsShape
  BY DEF SettingsInv
<1>2. SettingsShape'
  BY <1>1, ShapeOfPage
<1>3. panel'[a] = next /\ \A b \in Admins : b # a => panel'[b] = panel[b]
  BY <1>1 DEF SettingsShape
<1>4. \A b \in Admins : Mine(b)' = Mine(b)
  BY DEF Mine
<1>5. ASSUME NEW b \in Admins
      PROVE Informed(b)'
  <2>1. CASE b # a
    BY <1>3, <1>4, <2>1, StaysInformed
  <2>2. CASE b = a /\ (~panel[a].open \/ interfered'[a])
    BY <1>3, <2>2 DEF Informed
  <2>3. CASE b = a /\ panel[a].open /\ ~interfered'[a]
    <3>1. Informed(a) /\ ~interfered[a]
      BY <2>3 DEF SettingsInv
    <3>2. SwitchKnown(panel[a]) => SwitchKnown(panel[a])'
      BY <1>3 DEF SwitchKnown
    <3>3. ChangeKnown(panel[a]) => ChangeKnown(panel[a])'
      BY <1>3, <2>3 DEF ChangeKnown
    <3>4. ASSUME NEW q \in Mine(a), CallKnown(request[q], panel[a])
          PROVE CallKnown(request[q], panel[a])'
      <4>1. next.form = panel[a].form \/ request[q].kind # "proposal"
        BY <2>3
      <4> QED
        BY <1>3, <3>2, <3>3, <3>4, <4>1 DEF CallKnown
    <3> QED
      BY <1>4, <2>3, <3>1, <3>2, <3>3, <3>4 DEF Informed
  <2> QED
    BY <2>1, <2>2, <2>3
<1> QED
  BY <1>2, <1>5 DEF SettingsInv

\* An edit beside a proposal interferes; any other finds no change on show.
LEMMA EditKeepsInv ==
    ASSUME SettingsInv, NEW a \in Admins, EditForm(a)
    PROVE SettingsInv'
<1>1. SettingsShape
  BY DEF SettingsInv
<1>2. PICK f \in Fields, v \in Values : panel' = [panel EXCEPT ![a].form[f] = v]
  BY DEF EditForm
<1> DEFINE next == [panel[a] EXCEPT !.form = [panel[a].form EXCEPT ![f] = v]]
<1>3. panel[a] \in Panel /\ panel[a].form \in Advanced
  BY <1>1 DEF SettingsShape, Panel
<1>4. [panel[a].form EXCEPT ![f] = v] \in Advanced
  BY <1>3 DEF Advanced
<1>5. /\ next \in Panel /\ next.open = panel[a].open /\ next.loaded = panel[a].loaded
      /\ next.shown = panel[a].shown /\ next.diff = panel[a].diff
  BY <1>3, <1>4 DEF Panel
<1>6. panel' = [panel EXCEPT ![a] = next]
  BY <1>2
<1> HIDE DEF next
<1>7. /\ setting' = setting /\ request' = request
      /\ interfered' = [interfered EXCEPT ![a] = interfered[a]
            \/ Confirming(a) \/ \E q \in Mine(a) : request[q].kind = "proposal"]
  BY DEF EditForm
<1>8. /\ interfered' \in [Admins -> BOOLEAN]
      /\ \A b \in Admins : b # a => interfered'[b] = interfered[b]
      /\ ~interfered'[a] => /\ ~interfered[a] /\ panel[a].diff = NoChange
                            /\ \A q \in Mine(a) : request[q].kind # "proposal"
  BY <1>1, <1>7 DEF SettingsShape, Confirming
<1>9. ~interfered'[a] => ChangeKnown(next)
  BY <1>5, <1>8 DEF ChangeKnown
<1> QED
  BY <1>5, <1>6, <1>7, <1>8, <1>9, PageKeepsInv

\* Nothing on show is known of no change.
LEMMA DismissKeepsInv ==
    ASSUME SettingsInv, NEW a \in Admins, Dismiss(a)
    PROVE SettingsInv'
<1>1. SettingsShape
  BY DEF SettingsInv
<1>2. panel[a] \in Panel
  BY <1>1 DEF SettingsShape
<1>3. setting' = setting /\ request' = request /\ interfered' = interfered
  BY DEF Dismiss
<1>4. interfered' \in [Admins -> BOOLEAN]
  BY <1>1, <1>3 DEF SettingsShape
<1>5. CASE panel' = [panel EXCEPT ![a].diff = NoChange]
  <2> DEFINE next == [panel[a] EXCEPT !.diff = NoChange]
  <2>1. /\ next \in Panel /\ next.open = panel[a].open /\ next.loaded = panel[a].loaded
        /\ next.shown = panel[a].shown /\ next.form = panel[a].form /\ next.diff = NoChange
    BY <1>2 DEF Panel, NoChange
  <2>2. panel' = [panel EXCEPT ![a] = next]
    BY <1>5
  <2> HIDE DEF next
  <2>3. ChangeKnown(next)
    BY <2>1 DEF ChangeKnown
  <2> QED
    BY <1>3, <1>4, <2>1, <2>2, <2>3, PageKeepsInv
<1>6. CASE panel' = [panel EXCEPT ![a].asking = FALSE]
  <2> DEFINE next == [panel[a] EXCEPT !.asking = FALSE]
  <2>1. /\ next \in Panel /\ next.open = panel[a].open /\ next.loaded = panel[a].loaded
        /\ next.shown = panel[a].shown /\ next.form = panel[a].form /\ next.diff = panel[a].diff
    BY <1>2 DEF Panel
  <2>2. panel' = [panel EXCEPT ![a] = next]
    BY <1>6
  <2> HIDE DEF next
  <2>3. ChangeKnown(panel[a]) => ChangeKnown(next)
    BY <2>1 DEF ChangeKnown
  <2> QED
    BY <1>3, <1>4, <2>1, <2>2, <2>3, PageKeepsInv
<1> QED
  BY <1>5, <1>6 DEF Dismiss

\* What an answer makes of its page.
LEMMA DeliveredPanel ==
    ASSUME SettingsShape, NEW q \in Requests, NEW a \in Admins, a = request[q].admin,
           panel[a].open, Deliver(q)
    PROVE \E next \in Panel :
             /\ panel' = [panel EXCEPT ![a] = next]
             /\ next.open = panel[a].open
             /\ next.loaded = (panel[a].loaded \/ request[q].kind = "load")
             /\ next.shown = IF request[q].kind \in {"proposal", "notice"} THEN panel[a].shown
                             ELSE request[q].switch
             /\ request[q].kind # "load" => next.form = panel[a].form
             /\ next.diff = CASE request[q].kind = "proposal" -> request[q].diff
                              [] request[q].kind = "confirm" -> NoChange
                              [] OTHER -> panel[a].diff
<1> DEFINE call == request[q]
<1>1. panel' = CASE call.kind = "load" ->
                      [panel EXCEPT ![a].loaded = TRUE, ![a].shown = call.switch,
                                    ![a].form = call.form]
                 [] call.kind = "proposal" -> [panel EXCEPT ![a].diff = call.diff]
                 [] call.kind = "notice" -> [panel EXCEPT ![a].asking = TRUE]
                 [] call.kind \in {"pause", "basic"} -> [panel EXCEPT ![a].shown = call.switch]
                 [] call.kind = "confirm" ->
                      [panel EXCEPT ![a].shown = call.switch, ![a].diff = NoChange]
                 [] call.kind = "resume" ->
                      [panel EXCEPT ![a].shown = call.switch, ![a].asking = FALSE]
  BY DEF Deliver
<1>2. call \in Request /\ panel[a] \in Panel
  BY DEF SettingsShape
<1> HIDE DEF call
<1>3. /\ call.kind \in {"load", "pause", "basic", "proposal", "confirm", "notice", "resume"}
      /\ call.switch \in Switch /\ call.form \in Advanced
      /\ call.diff \in SUBSET Change /\ NoChange \in SUBSET Change
  BY <1>2 DEF Request, RequestKinds, NoChange
<1>4. \E next \in Panel :
         /\ panel' = [panel EXCEPT ![a] = next]
         /\ next.open = panel[a].open
         /\ next.loaded = (panel[a].loaded \/ call.kind = "load")
         /\ next.shown = IF call.kind \in {"proposal", "notice"} THEN panel[a].shown
                         ELSE call.switch
         /\ call.kind # "load" => next.form = panel[a].form
         /\ next.diff = CASE call.kind = "proposal" -> call.diff
                          [] call.kind = "confirm" -> NoChange
                          [] OTHER -> panel[a].diff
  <2>1. CASE call.kind = "load"
    <3> DEFINE next == [panel[a] EXCEPT !.loaded = TRUE, !.shown = call.switch, !.form = call.form]
    <3>1. panel' = [panel EXCEPT ![a] = next]
      BY <1>1, <2>1
    <3>2. /\ next \in Panel /\ next.open = panel[a].open /\ next.loaded
          /\ next.shown = call.switch /\ next.diff = panel[a].diff
      BY <1>2, <1>3 DEF Panel
    <3> QED
      BY <2>1, <3>1, <3>2
  <2>2. CASE call.kind = "proposal"
    <3> DEFINE next == [panel[a] EXCEPT !.diff = call.diff]
    <3>1. panel' = [panel EXCEPT ![a] = next]
      BY <1>1, <2>2
    <3>2. /\ next \in Panel /\ next.open = panel[a].open /\ next.loaded = panel[a].loaded
          /\ next.shown = panel[a].shown /\ next.form = panel[a].form /\ next.diff = call.diff
      BY <1>2, <1>3 DEF Panel
    <3>3. panel[a].loaded \in BOOLEAN
      BY <1>2 DEF Panel
    <3> HIDE DEF next
    <3> QED
      BY <2>2, <3>1, <3>2, <3>3
  <2>3. CASE call.kind = "notice"
    <3> DEFINE next == [panel[a] EXCEPT !.asking = TRUE]
    <3>1. panel' = [panel EXCEPT ![a] = next]
      BY <1>1, <2>3
    <3>2. /\ next \in Panel /\ next.open = panel[a].open /\ next.loaded = panel[a].loaded
          /\ next.shown = panel[a].shown /\ next.form = panel[a].form
          /\ next.diff = panel[a].diff
      BY <1>2 DEF Panel
    <3>3. panel[a].loaded \in BOOLEAN
      BY <1>2 DEF Panel
    <3> HIDE DEF next
    <3> QED
      BY <2>3, <3>1, <3>2, <3>3
  <2>4. CASE call.kind \in {"pause", "basic"}
    <3> DEFINE next == [panel[a] EXCEPT !.shown = call.switch]
    <3>1. panel' = [panel EXCEPT ![a] = next]
      BY <1>1, <2>4
    <3>2. /\ next \in Panel /\ next.open = panel[a].open /\ next.loaded = panel[a].loaded
          /\ next.shown = call.switch /\ next.form = panel[a].form
          /\ next.diff = panel[a].diff
      BY <1>2, <1>3 DEF Panel
    <3>3. panel[a].loaded \in BOOLEAN
      BY <1>2 DEF Panel
    <3> HIDE DEF next
    <3> QED
      BY <2>4, <3>1, <3>2, <3>3
  <2>5. CASE call.kind = "confirm"
    <3> DEFINE next == [panel[a] EXCEPT !.shown = call.switch, !.diff = NoChange]
    <3>1. panel' = [panel EXCEPT ![a] = next]
      BY <1>1, <2>5
    <3>2. /\ next \in Panel /\ next.open = panel[a].open /\ next.loaded = panel[a].loaded
          /\ next.shown = call.switch /\ next.form = panel[a].form /\ next.diff = NoChange
      BY <1>2, <1>3 DEF Panel
    <3>3. panel[a].loaded \in BOOLEAN
      BY <1>2 DEF Panel
    <3> HIDE DEF next
    <3> QED
      BY <2>5, <3>1, <3>2, <3>3
  <2>6. CASE call.kind = "resume"
    <3> DEFINE next == [panel[a] EXCEPT !.shown = call.switch, !.asking = FALSE]
    <3>1. panel' = [panel EXCEPT ![a] = next]
      BY <1>1, <2>6
    <3>2. /\ next \in Panel /\ next.open = panel[a].open /\ next.loaded = panel[a].loaded
          /\ next.shown = call.switch /\ next.form = panel[a].form
          /\ next.diff = panel[a].diff
      BY <1>2, <1>3 DEF Panel
    <3>3. panel[a].loaded \in BOOLEAN
      BY <1>2 DEF Panel
    <3> HIDE DEF next
    <3> QED
      BY <2>6, <3>1, <3>2, <3>3
  <2> QED
    BY <1>3, <2>1, <2>2, <2>3, <2>4, <2>5, <2>6
<1> QED
  BY <1>4 DEF call

\* A call that is over is nobody's.
LEMMA SlotFreed ==
    /\ NoRequest \in Request /\ ~NoRequest.live /\ NoRequest.stage = "free"
BY SettingsRows DEF NoRequest

\* The one answer a page waits for leaves it knowing what the answer said.
LEMMA DeliverKeepsInv ==
    ASSUME SettingsInv, NEW q \in Requests, Deliver(q)
    PROVE SettingsInv'
<1> DEFINE a == request[q].admin
<1>1. SettingsShape
  BY DEF SettingsInv
<1>2. /\ request[q].stage = "answered" /\ request' = [request EXCEPT ![q] = NoRequest]
      /\ setting' = setting /\ interfered' = interfered
  BY DEF Deliver
<1>3. request[q].live /\ a \in Admins /\ panel[a].open
  BY <1>1, <1>2 DEF SettingsShape
<1>4. PICK next \in Panel :
         /\ panel' = [panel EXCEPT ![a] = next]
         /\ next.open = panel[a].open
         /\ next.loaded = (panel[a].loaded \/ request[q].kind = "load")
         /\ next.shown = IF request[q].kind \in {"proposal", "notice"} THEN panel[a].shown
                         ELSE request[q].switch
         /\ request[q].kind # "load" => next.form = panel[a].form
         /\ next.diff = CASE request[q].kind = "proposal" -> request[q].diff
                          [] request[q].kind = "confirm" -> NoChange
                          [] OTHER -> panel[a].diff
  BY <1>1, <1>3, DeliveredPanel
<1>5. q \in Mine(a)
  BY <1>3 DEF Mine
<1> HIDE DEF a
<1>6. /\ panel' \in [Admins -> Panel] /\ panel'[a] = next
      /\ \A b \in Admins : b # a => panel'[b] = panel[b]
  BY <1>1, <1>3, <1>4 DEF SettingsShape
<1>7. SettingsShape'
  <2>1. /\ setting' \in SettingsRow /\ (setting'.enabled => setting'.reason = NoReason)
        /\ interfered' \in [Admins -> BOOLEAN]
    BY <1>1, <1>2 DEF SettingsShape
  <2>2. \A b \in Admins : panel'[b].open = panel[b].open /\ (panel'[b].loaded => panel'[b].open)
    BY <1>1, <1>3, <1>4, <1>6 DEF SettingsShape
  <2> QED
    BY <1>1, <1>2, <1>6, <2>1, <2>2, SlotFreed, ShapeStays
<1>8. ASSUME NEW b \in Admins
      PROVE Informed(b)'
  <2>1. CASE b # a
    <3>1. q \notin Mine(b)
      BY <2>1 DEF Mine, a
    <3> QED
      BY <1>2, <1>6, <2>1, <3>1, SlotFreed, OthersStayInformed
  <2>2. CASE b = a /\ interfered[a]
    BY <1>2, <2>2 DEF Informed
  <2>3. CASE b = a /\ ~interfered[b]
    <3>1. (\A r \in Mine(b) : r = q) /\ CallKnown(request[q], panel[b])
      BY <1>3, <1>5, <2>3 DEF SettingsInv, Informed
    <3>2. Mine(b)' = {}
      <4>1. \A r \in Requests : r \notin Mine(b)'
        BY <2>3, <1>1, <1>2, <1>3, <3>1, SlotFreed, OneCallChanges
      <4> QED
        BY <4>1 DEF Mine
    <3>3. SwitchKnown(panel[b])'
      BY <2>3, <1>2, <1>4, <1>6, <3>1 DEF CallKnown, SwitchKnown
    <3>4. ChangeKnown(panel[b])'
      <4>1. CASE request[q].kind = "proposal"
        BY <2>3, <1>2, <1>4, <1>6, <3>1, <4>1 DEF CallKnown, ChangeKnown
      <4>2. CASE request[q].kind = "confirm"
        BY <2>3, <1>2, <1>4, <1>6, <4>2 DEF ChangeKnown
      <4>3. CASE request[q].kind = "load"
        BY <2>3, <1>2, <1>4, <1>6, <3>1, <4>3 DEF CallKnown, ChangeKnown
      <4>4. CASE request[q].kind \notin {"proposal", "confirm", "load"}
        BY <2>3, <1>2, <1>4, <1>6, <3>1, <4>4 DEF CallKnown, ChangeKnown
      <4> QED
        BY <4>1, <4>2, <4>3, <4>4
    <3> QED
      BY <2>3, <3>2, <3>3, <3>4 DEF Informed
  <2> QED
    BY <2>1, <2>2, <2>3
<1> QED
  BY <1>7, <1>8 DEF SettingsInv

\* A call that fails leaves its page knowing what it knew, unless its own write went unanswered.
LEMMA FailKeepsInv ==
    ASSUME SettingsInv, NEW q \in Requests, FailRequest(q)
    PROVE SettingsInv'
<1>1. SettingsShape
  BY DEF SettingsInv
<1>2. request[q] \in Request
  BY <1>1 DEF SettingsShape
<1>3. PICK call \in Request :
         /\ request' = [request EXCEPT ![q] = call]
         /\ ~call.live /\ call.stage # "answered"
  <2>1. CASE request' = [request EXCEPT ![q] = NoRequest]
    BY <2>1, SlotFreed
  <2>2. CASE request[q].stage = "sent" /\ request' = [request EXCEPT ![q].live = FALSE]
    <3> DEFINE call == [request[q] EXCEPT !.live = FALSE]
    <3>1. request' = [request EXCEPT ![q] = call]
      BY <2>2
    <3>2. call \in Request /\ ~call.live /\ call.stage = "sent"
      BY <1>2, <2>2 DEF Request
    <3> QED
      BY <3>1, <3>2
  <2> QED
    BY <2>1, <2>2 DEF FailRequest
<1>4. /\ setting' = setting /\ panel' = panel
      /\ interfered' = [a \in Admins |-> interfered[a]
            \/ (/\ q \in Mine(a) /\ request[q].stage = "answered"
                /\ request[q].kind \in {"pause", "resume", "confirm"})]
  BY DEF FailRequest
<1>5. /\ interfered' \in [Admins -> BOOLEAN]
      /\ \A b \in Admins : interfered'[b] = (interfered[b]
            \/ (/\ q \in Mine(b) /\ request[q].stage = "answered"
                /\ request[q].kind \in {"pause", "resume", "confirm"}))
  <2>1. interfered \in [Admins -> BOOLEAN]
    BY <1>1 DEF SettingsShape
  <2> QED
    BY <1>4, <2>1
<1>6. SettingsShape'
  <2>1. /\ setting' \in SettingsRow /\ (setting'.enabled => setting'.reason = NoReason)
        /\ panel' \in [Admins -> Panel]
        /\ \A b \in Admins : panel'[b].open = panel[b].open /\ (panel'[b].loaded => panel'[b].open)
    BY <1>1, <1>4 DEF SettingsShape
  <2> QED
    BY <1>1, <1>3, <1>5, <2>1, ShapeStays
<1>7. ASSUME NEW b \in Admins
      PROVE Informed(b)'
  <2>1. CASE q \notin Mine(b)
    <3>1. interfered'[b] = interfered[b]
      BY <1>1, <1>5, <2>1 DEF SettingsShape
    <3> QED
      BY <1>3, <1>4, <2>1, <3>1, OthersStayInformed
  <2>2. CASE q \in Mine(b) /\ (~panel[b].open \/ interfered'[b])
    BY <1>4, <2>2 DEF Informed
  <2>3. CASE q \in Mine(b) /\ panel[b].open /\ ~interfered'[b]
    <3>1. /\ ~interfered[b]
          /\ request[q].stage = "answered" => request[q].kind \notin {"pause", "resume", "confirm"}
      BY <1>5, <2>3
    <3>2. (\A r \in Mine(b) : r = q) /\ CallKnown(request[q], panel[b])
      BY <2>3, <3>1 DEF SettingsInv, Informed
    <3>3. request[q].stage \in {"sent", "answered"} /\ request[q].kind \in RequestKinds
      BY <1>1, <1>2, <2>3 DEF SettingsShape, Request, Mine
    <3>4. SwitchKnown(panel[b]) /\ ChangeKnown(panel[b])
      BY <3>1, <3>2, <3>3 DEF CallKnown, SwitchKnown, RequestKinds
    <3>5. SwitchKnown(panel[b])' /\ ChangeKnown(panel[b])'
      BY <1>4, <3>4 DEF SwitchKnown, ChangeKnown
    <3>6. Mine(b)' = {}
      <4>1. \A r \in Requests : r \notin Mine(b)'
        BY <1>1, <1>3, <3>2, OneCallChanges
      <4> QED
        BY <4>1 DEF Mine
    <3> QED
      BY <3>5, <3>6 DEF Informed
  <2> QED
    BY <2>1, <2>2, <2>3
<1> QED
  BY <1>6, <1>7 DEF SettingsInv

LEMMA SettingsInvInit == SettingsInit => SettingsInv
<1> SUFFICES ASSUME SettingsInit
             PROVE SettingsInv
  OBVIOUS
<1>1. setting \in SettingsRow /\ ~setting.enabled
  BY SettingsRows DEF SettingsInit, SettingsRow
<1>2. panel \in [Admins -> Panel] /\ \A a \in Admins : ~panel[a].open /\ ~panel[a].loaded
  BY SettingsRows DEF SettingsInit, Closed
<1>3. request \in [Requests -> Request] /\ \A q \in Requests : request[q] = NoRequest
  BY SlotFreed DEF SettingsInit
<1>4. interfered \in [Admins -> BOOLEAN]
  BY DEF SettingsInit
<1> QED
  BY <1>1, <1>2, <1>3, <1>4, SlotFreed DEF SettingsInv, SettingsShape, Informed

\* Every click of every page says what the page has on show.
LEMMA ClickKeepsInv ==
    ASSUME SettingsInv, NEW a \in Admins,
           \/ ClickPause(a) \/ ClickResume(a) \/ ClickConfirmResume(a)
           \/ ClickSave(a) \/ ClickSaveAdvanced(a) \/ ClickConfirm(a)
    PROVE SettingsInv'
<1>1. panel[a] \in Panel
  BY DEF SettingsInv, SettingsShape
<1>2. panel[a].form \in Advanced /\ panel[a].diff \in SUBSET Change
  BY <1>1 DEF Panel
<1>3. ASSUME NEW kind \in {"notice", "resume", "basic"}, Press(a, Requested(a, kind))
      PROVE SettingsInv'
  BY <1>3, SentCall, PressKeepsInv DEF RequestKinds
<1>4. CASE ClickPause(a)
  <2>1. PICK reason \in Reasons :
           Press(a, [Requested(a, "pause") EXCEPT !.switch.reason = reason])
    BY <1>4 DEF ClickPause
  <2> DEFINE asked == [Requested(a, "pause") EXCEPT !.switch.reason = reason]
  <2>2. /\ asked \in Request /\ asked.admin = a /\ asked.live /\ asked.stage = "sent"
        /\ asked.kind = "pause"
    BY SentCall DEF Request, RequestKinds, Switch
  <2>3. Press(a, asked)
    BY <2>1
  <2> HIDE DEF asked
  <2> QED
    BY <2>2, <2>3, PressKeepsInv
<1>5. CASE ClickSaveAdvanced(a)
  <2> DEFINE asked == [Requested(a, "proposal") EXCEPT !.form = panel[a].form]
  <2>1. /\ asked \in Request /\ asked.admin = a /\ asked.live /\ asked.stage = "sent"
        /\ asked.kind = "proposal" /\ asked.form = panel[a].form
    BY <1>2, SentCall DEF Request, RequestKinds
  <2>2. Press(a, asked)
    BY <1>5 DEF ClickSaveAdvanced
  <2> HIDE DEF asked
  <2> QED
    BY <2>1, <2>2, PressKeepsInv
<1>6. CASE ClickConfirm(a)
  <2> DEFINE blank == Requested(a, "confirm")
             asked == [blank EXCEPT !.form = panel[a].form, !.diff = panel[a].diff]
  <2>1. /\ blank \in Request /\ blank.admin = a /\ blank.live /\ blank.stage = "sent"
        /\ blank.kind = "confirm"
    BY SentCall DEF RequestKinds
  <2>2. Press(a, asked) /\ panel[a].diff # NoChange
    BY <1>6 DEF ClickConfirm, Confirming, Confirm
  <2> HIDE DEF blank
  <2>3. /\ asked \in Request /\ asked.admin = a /\ asked.live /\ asked.stage = "sent"
        /\ asked.kind = "confirm" /\ asked.form = panel[a].form /\ asked.diff = panel[a].diff
    BY <1>2, <2>1 DEF Request
  <2> HIDE DEF asked
  <2> QED
    BY <2>2, <2>3, PressKeepsInv
<1> QED
  BY <1>3, <1>4, <1>5, <1>6 DEF ClickResume, ClickConfirmResume, ClickSave

\* A write is that of a pause, of a resume, of the basic settings, or of a confirm, which writes
\* the form it was sent with.
LEMMA WhatIsWritten ==
    ASSUME SettingsShape, NEW q \in Requests,
           \/ PauseAutonomous(q) \/ ConfirmResumeAutonomous(q) \/ SaveBasic(q)
           \/ ConfirmAdvanced(q)
    PROVE \E row \in SettingsRow :
             /\ Write(q, row)
             /\ row.enabled => row.reason = NoReason
             /\ request[q].stage = "sent"
             /\ request[q].kind \in {"pause", "resume", "basic", "confirm"}
             /\ request[q].kind # "confirm" => row.advanced = setting.advanced
             /\ request[q].kind = "confirm" => row.advanced = request[q].form
             /\ request[q].kind = "basic" => row = setting
<1>1. setting \in SettingsRow /\ (setting.enabled => setting.reason = NoReason)
  BY DEF SettingsShape
<1>2. request[q] \in Request
  BY DEF SettingsShape
<1>3. request[q].switch.reason \in Reasons \cup {NoReason} /\ request[q].form \in Advanced
  BY <1>2 DEF Request, Switch
<1>4. CASE PauseAutonomous(q)
  <2> DEFINE row == [setting EXCEPT !.enabled = FALSE, !.reason = request[q].switch.reason]
  <2>1. row \in SettingsRow /\ ~row.enabled /\ row.advanced = setting.advanced
    BY <1>1, <1>3 DEF SettingsRow
  <2>2. Write(q, row) /\ request[q].stage = "sent" /\ request[q].kind = "pause"
    BY <1>4 DEF PauseAutonomous, At
  <2> HIDE DEF row
  <2> QED
    BY <2>1, <2>2
<1>5. CASE ConfirmResumeAutonomous(q)
  <2> DEFINE row == [setting EXCEPT !.enabled = TRUE, !.reason = NoReason]
  <2>1. row \in SettingsRow /\ row.reason = NoReason /\ row.advanced = setting.advanced
    BY <1>1 DEF SettingsRow
  <2>2. Write(q, row) /\ request[q].stage = "sent" /\ request[q].kind = "resume"
    BY <1>5 DEF ConfirmResumeAutonomous, At
  <2> HIDE DEF row
  <2> QED
    BY <2>1, <2>2
<1>6. CASE SaveBasic(q)
  BY <1>1, <1>6 DEF SaveBasic, At
<1>7. CASE ConfirmAdvanced(q)
  <2> DEFINE row == [setting EXCEPT !.advanced = request[q].form]
  <2>1. /\ row \in SettingsRow /\ (row.enabled => row.reason = NoReason)
        /\ row.advanced = request[q].form
    BY <1>1, <1>3 DEF SettingsRow
  <2>2. Write(q, row) /\ request[q].stage = "sent" /\ request[q].kind = "confirm"
    BY <1>7 DEF ConfirmAdvanced, At
  <2> HIDE DEF row
  <2> QED
    BY <2>1, <2>2
<1> QED
  BY <1>4, <1>5, <1>6, <1>7

\* Whatever the server does with a request.
LEMMA HandleKeepsInv ==
    ASSUME SettingsInv, NEW q \in Requests, Handle(q)
    PROVE SettingsInv'
<1>1. SettingsShape
  BY DEF SettingsInv
<1>2. request[q] \in Request /\ setting \in SettingsRow
  BY <1>1 DEF SettingsShape
<1>3. setting.advanced \in Advanced /\ request[q].form \in Advanced
  BY <1>2 DEF SettingsRow, Request
<1>4. CASE ReadSettings(q)
  <2> DEFINE told == Told(q, setting)
             answer == [told EXCEPT !.form = setting.advanced]
  <2>1. /\ told \in Request /\ told.admin = request[q].admin /\ told.live
        /\ told.stage = "answered" /\ told.kind = request[q].kind
        /\ told.switch = SwitchOf(setting)
    BY <1>1, <1>2, ToldCall
  <2>2. /\ Respond(q, answer) /\ request[q].stage = "sent" /\ request[q].kind = "load"
        /\ UNCHANGED <<setting, panel, interfered>>
    BY <1>4 DEF ReadSettings, At
  <2> HIDE DEF told
  <2>3. /\ answer \in Request /\ answer.admin = told.admin /\ answer.live
        /\ answer.stage = "answered" /\ answer.kind = told.kind /\ answer.switch = told.switch
    BY <1>3, <2>1 DEF Request
  <2> HIDE DEF answer
  <2> QED
    BY <2>1, <2>2, <2>3, AnswerKeepsInv
<1>5. CASE ProposeResumeAutonomous(q)
  <2> DEFINE answer == [request[q] EXCEPT !.stage = "answered", !.live = TRUE]
             given == [request[q] EXCEPT !.stage = "answered"]
  <2>1. /\ Respond(q, given) /\ request[q].stage = "sent" /\ request[q].kind = "notice"
        /\ UNCHANGED <<setting, panel, interfered>>
    BY <1>5 DEF ProposeResumeAutonomous, At
  <2>2. /\ answer \in Request /\ answer.admin = request[q].admin /\ answer.live
        /\ answer.stage = "answered" /\ answer.kind = request[q].kind
    BY <1>2 DEF Request
  <2>3. request[q].live => answer = given
    BY <1>2 DEF Request
  <2>4. Respond(q, answer)
    BY <2>1, <2>3 DEF Respond
  <2> HIDE DEF answer, given
  <2> QED
    BY <2>1, <2>2, <2>4, AnswerKeepsInv
<1>6. CASE ProposeAdvanced(q)
  <2> DEFINE change == Diff(setting.advanced, request[q].form)
             answer == [request[q] EXCEPT !.stage = "answered", !.live = TRUE, !.diff = change]
             given == [request[q] EXCEPT !.stage = "answered", !.diff = change]
  <2>1. /\ Respond(q, given) /\ request[q].stage = "sent" /\ request[q].kind = "proposal"
        /\ UNCHANGED <<setting, panel, interfered>>
    BY <1>6 DEF ProposeAdvanced, At
  <2>2. change \in SUBSET Change
    BY <1>3, SettingsRows
  <2> HIDE DEF change
  <2>3. /\ answer \in Request /\ answer.admin = request[q].admin /\ answer.live
        /\ answer.stage = "answered" /\ answer.kind = request[q].kind /\ answer.diff = change
    BY <1>2, <2>2 DEF Request
  <2>4. request[q].live => answer = given
    BY <1>2 DEF Request
  <2>5. Respond(q, answer)
    BY <2>1, <2>4 DEF Respond
  <2> HIDE DEF answer, given
  <2> QED
    BY <2>1, <2>3, <2>5, AnswerKeepsInv DEF change
<1>7. CASE \/ PauseAutonomous(q) \/ ConfirmResumeAutonomous(q) \/ SaveBasic(q)
           \/ ConfirmAdvanced(q)
  <2>1. PICK row \in SettingsRow :
           /\ Write(q, row)
           /\ row.enabled => row.reason = NoReason
           /\ request[q].stage = "sent"
           /\ request[q].kind \in {"pause", "resume", "basic", "confirm"}
           /\ request[q].kind # "confirm" => row.advanced = setting.advanced
           /\ request[q].kind = "basic" => row = setting
    BY <1>1, <1>7, WhatIsWritten
  <2> QED
    BY <2>1, WriteKeepsInv
<1> QED
  BY <1>4, <1>5, <1>6, <1>7 DEF Handle

\* Every step of every page and of the server: one action, or none.
LEMMA SettingsInvStep == SettingsInv /\ [SettingsNext]_settingsVars => SettingsInv'
<1> SUFFICES ASSUME SettingsInv, [SettingsNext]_settingsVars
             PROVE SettingsInv'
  OBVIOUS
<1>1. CASE UNCHANGED settingsVars
  BY <1>1 DEF SettingsInv, SettingsShape, Informed, Mine, CallKnown, SwitchKnown, ChangeKnown,
              settingsVars
<1>2. ASSUME NEW a \in Admins, AdminStep(a)
      PROVE SettingsInv'
  BY <1>2, OpenKeepsInv, CloseKeepsInv, ClickKeepsInv, EditKeepsInv, DismissKeepsInv DEF AdminStep
<1>3. ASSUME NEW q \in Requests, Handle(q) \/ Deliver(q) \/ FailRequest(q)
      PROVE SettingsInv'
  BY <1>3, HandleKeepsInv, DeliverKeepsInv, FailKeepsInv
<1> QED
  BY <1>1, <1>2, <1>3 DEF SettingsNext

LEMMA SettingsInvariant == SettingsSpec => []SettingsInv
BY SettingsInvInit, SettingsInvStep, PTL DEF SettingsSpec

\* Every variable of the Settings screen keeps its shape, a sending system has no pause reason on
\* record, and only an open page has calls of its own, for any admins, fields, values and calls.
THEOREM SettingsTypeCorrect == SettingsSpec => []SettingsTypeOK
<1>1. SettingsInv => SettingsTypeOK
  BY DEF SettingsInv, SettingsShape, SettingsTypeOK, Mine
<1> QED
  BY SettingsInvariant, <1>1, PTL

\* A page shows whether the system sends and why it does not, once nothing of its own is under way
\* and unless a write it was not told of changed the row: for any admins and any calls that cross,
\* fail, lose their answer or outlive their page.
THEOREM TheSwitchIsTold == SettingsSpec => []PageTellsTheSwitch
<1>1. SettingsInv => PageTellsTheSwitch
  BY DEF SettingsInv, SettingsShape, Informed, SwitchKnown, PageTellsTheSwitch
<1> QED
  BY SettingsInvariant, <1>1, PTL

\* A step that answers a live call and changes the advanced settings serves that call, a confirm.
LEMMA ConfirmWritesAsShown ==
    ASSUME SettingsInv, SettingsNext, NEW q \in Requests, Served(q),
           setting'.advanced # setting.advanced, ~interfered[request[q].admin]
    PROVE request[q].diff = Diff(setting.advanced, setting'.advanced)
<1> DEFINE a == request[q].admin
<1>1. SettingsShape
  BY DEF SettingsInv
<1>2. a \in Admins /\ panel[a].open /\ q \in Mine(a)
  BY <1>1 DEF SettingsShape, Served, Mine
<1> HIDE DEF a
<1>3. PICK r \in Requests : \/ PauseAutonomous(r) \/ ConfirmResumeAutonomous(r)
                            \/ SaveBasic(r) \/ ConfirmAdvanced(r)
  <2>1. ASSUME NEW b \in Admins, AdminStep(b)
        PROVE setting' = setting
    BY <2>1 DEF AdminStep, Open, Close, ClickPause, ClickResume, ClickConfirmResume, ClickSave,
                ClickSaveAdvanced, ClickConfirm, Press, EditForm, Dismiss
  <2>2. ASSUME NEW r \in Requests, \/ Deliver(r) \/ FailRequest(r) \/ ReadSettings(r)
                                   \/ ProposeResumeAutonomous(r) \/ ProposeAdvanced(r)
        PROVE setting' = setting
    BY <2>2 DEF Deliver, FailRequest, ReadSettings, ProposeResumeAutonomous, ProposeAdvanced
  <2> QED
    BY <2>1, <2>2 DEF SettingsNext, Handle
<1>4. PICK row \in SettingsRow :
         /\ Write(r, row)
         /\ request[r].kind # "confirm" => row.advanced = setting.advanced
         /\ request[r].kind = "confirm" => row.advanced = request[r].form
  BY <1>1, <1>3, WhatIsWritten
<1>5. setting' = row /\ request[r].kind = "confirm" /\ row.advanced = request[r].form
  BY <1>4 DEF Write
<1>6. r = q
  <2>1. r # q => request'[q] = request[q]
    BY <1>1, <1>4 DEF Write, Respond, SettingsShape
  <2> QED
    BY <2>1 DEF Served
<1>7. CallKnown(request[q], panel[a])
  BY <1>2 DEF SettingsInv, Informed, a
<1>8. request[q].diff = Diff(setting.advanced, request[q].form)
  BY <1>5, <1>6, <1>7 DEF CallKnown, Served
<1> QED
  BY <1>5, <1>6, <1>8

\* What an admin confirms is what was shown: unless something interfered since the page was opened,
\* a confirm changes exactly the fields the confirmation listed, from and to what it listed.
THEOREM ConfirmsAreAsShown == SettingsSpec => WrittenAsShown
<1>1. SettingsInv /\ [SettingsNext]_settingsVars =>
        [\A q \in Requests :
            /\ Served(q) /\ setting'.advanced # setting.advanced
            /\ ~interfered[request[q].admin]
            => request[q].diff = Diff(setting.advanced, setting'.advanced)]_settingsVars
  BY ConfirmWritesAsShown
<1> QED
  BY SettingsInvariant, <1>1, PTL DEF SettingsSpec, WrittenAsShown
=============================================================================
