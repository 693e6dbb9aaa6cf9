--------------------------- MODULE BrowserSession ---------------------------
(***************************************************************************)
(* One browser tab of the console: its session with Keycloak (authStore,   *)
(* the gate) and the calls its pages have under way (apiFetch).            *)
(*                                                                         *)
(* A call carries the token the tab had when it was sent.  Its answer may  *)
(* come after the token was renewed, after the page that asked was left,   *)
(* after the session ended, or not at all.  The client library, Keycloak   *)
(* and the clocks are external: a token is known by its number, the        *)
(* browser's clock says when the newest has run out, and the API may       *)
(* refuse any token at any time.                                           *)
(***************************************************************************)
EXTENDS Naturals

CONSTANTS
    Slots,      \* bound: calls under way at once
    MaxTokens,  \* bound: tokens issued in a behaviour
    Texts       \* texts a draft may have

NoToken == 0
NoText == "no text"

ASSUME BrowserSessionAssumption == MaxTokens \in Nat /\ NoText \notin Texts

VARIABLES
    view,           \* what the gate shows, or "authenticated": the console
    token,          \* the access token of state.user
    stored,         \* the token of the user in session storage
    justLoggedOut,  \* the logout flag in session storage
    renewing,       \* a silent renewal is under way
    issued,         \* tokens issued so far
    lapsed,         \* whether the newest token has run out by the browser's clock
    calls,          \* the calls under way
    refused         \* history: whether a 401 for the newest token has reached the tab

session == <<view, token, stored, justLoggedOut, renewing, issued, lapsed, refused>>

Views == {"loading", "landing", "redirecting", "authenticated", "loggedOut", "expired"}

\* A call, for whom its answer is, and how far it is: "sent", "checked" by the server, or answered
\* ("ok", "refused", "unauthorized").  The other fields are what is asked and answered.
NoCall ==
    [kind |-> "none", text |-> NoText, sample |-> 0, token |-> NoToken, to |-> "nobody",
     reply |-> "none", yes |-> FALSE, rows |-> {}]

Writes == {"edit", "approve", "reject", "mark"}
Kinds == Writes \cup {"account", "escalations", "samples"}

Init ==
    /\ view = "loading" /\ token = NoToken /\ stored = NoToken
    /\ justLoggedOut = FALSE /\ renewing = FALSE
    /\ issued = 0 /\ lapsed = FALSE /\ refused = FALSE
    /\ calls = [s \in Slots |-> NoCall]

Free(s) == calls[s] = NoCall
Ask(kind, text, sample) ==
    [NoCall EXCEPT !.kind = kind, !.text = text, !.sample = sample, !.token = token,
                   !.to = "page", !.reply = "sent"]
UnderWay(kinds) == {s \in Slots : calls[s].kind \in kinds}

\* The client stops waiting.  The server goes on with what may change something there.
Dropped(s) ==
    IF calls[s].kind \in Writes /\ calls[s].reply \in {"sent", "checked"}
    THEN [calls[s] EXCEPT !.to = "nobody"] ELSE NoCall

\* The page that asked is left: the tab still hears of a 401, and a verdict is still followed by a
\* new list.  The document is left: nobody hears anything.
Unmounted ==
    [s \in Slots |-> CASE calls[s].to = "nobody" -> calls[s]
                       [] calls[s].reply = "refused" -> NoCall
                       [] calls[s].reply = "ok" /\ calls[s].kind # "mark" -> NoCall
                       [] OTHER -> [calls[s] EXCEPT !.to = "tab"]]
Abandoned == [s \in Slots |-> Dropped(s)]

(***************************************************************************)
(* A document loads, and initAuth decides what to show first.              *)
(***************************************************************************)
NewDocument ==
    /\ view' = "loading" /\ token' = NoToken /\ renewing' = FALSE
    /\ calls' = Abandoned

Reload == NewDocument /\ UNCHANGED <<stored, justLoggedOut, issued, lapsed, refused>>

UserLoaded ==
    /\ issued < MaxTokens
    /\ issued' = issued + 1 /\ lapsed' = FALSE /\ refused' = FALSE
    /\ stored' = issued' /\ token' = issued' /\ view' = "authenticated"

\* Back from Keycloak with a code: the callback comes before the logout flag is looked at.
SigninRedirectCallback ==
    /\ view = "redirecting"
    /\ \/ UserLoaded
       \/ view' = "landing" /\ token' = NoToken /\ UNCHANGED <<stored, issued, lapsed, refused>>
    /\ renewing' = FALSE /\ calls' = Abandoned
    /\ UNCHANGED justLoggedOut

InitAuth ==
    /\ view = "loading"
    /\ justLoggedOut' = FALSE
    /\ CASE justLoggedOut                           -> view' = "loggedOut" /\ token' = NoToken
         [] ~justLoggedOut /\ stored = NoToken      -> view' = "landing" /\ token' = NoToken
         [] ~justLoggedOut /\ stored # NoToken /\ lapsed -> view' = "expired" /\ token' = NoToken
         [] OTHER                                   -> view' = "authenticated" /\ token' = stored
    /\ UNCHANGED <<stored, renewing, issued, lapsed, calls, refused>>

(***************************************************************************)
(* The buttons.  A redirect may fail: the document stays as it was.        *)
(***************************************************************************)
Login ==
    /\ view \in {"landing", "loggedOut", "expired"}
    /\ view' = "redirecting"
    /\ UNCHANGED <<token, stored, justLoggedOut, renewing, issued, lapsed, calls, refused>>

Logout ==
    /\ view = "authenticated"
    /\ justLoggedOut' = TRUE
    /\ UNCHANGED <<view, token, stored, renewing, issued, lapsed, calls, refused>>

\* The user is removed before the redirect is tried.
SignoutRedirect ==
    /\ view # "loading" /\ justLoggedOut
    /\ stored' = NoToken
    /\ NewDocument \/ UNCHANGED <<view, token, renewing, calls>>
    /\ UNCHANGED <<justLoggedOut, issued, lapsed, refused>>

(***************************************************************************)
(* The client library's timers: renewal ahead of the end, and the end.     *)
(* They need a stored user, and initAuth is over before they fire.         *)
(***************************************************************************)
BeginSilentRenew ==
    /\ view # "loading" /\ stored # NoToken /\ ~lapsed /\ ~renewing /\ issued < MaxTokens
    /\ renewing' = TRUE
    /\ UNCHANGED <<view, token, stored, justLoggedOut, issued, lapsed, calls, refused>>

EndSilentRenew ==
    /\ renewing /\ renewing' = FALSE
    /\ UserLoaded \/ UNCHANGED <<view, token, stored, issued, lapsed, refused>>
    /\ UNCHANGED <<justLoggedOut, calls>>

\* The user of an expired token stays in storage.
AccessTokenExpired ==
    /\ view # "loading" /\ stored # NoToken
    /\ lapsed' = TRUE /\ view' = "expired" /\ token' = NoToken
    /\ calls' = Unmounted
    /\ UNCHANGED <<stored, justLoggedOut, renewing, issued, refused>>

(***************************************************************************)
(* What may happen to any call.                                            *)
(***************************************************************************)
Done(s) == calls' = [calls EXCEPT ![s] = NoCall]

\* The server answers, to the page or to the tab, if either waits.
Answer(s, answer, heard) ==
    calls' = [calls EXCEPT ![s] = IF calls[s].to \in heard THEN answer ELSE NoCall]
PageOnly == {"page"}
Tab == {"page", "tab"}

RefuseToken(s) ==
    /\ calls[s].reply = "sent"
    /\ Answer(s, [calls[s] EXCEPT !.reply = "unauthorized"], Tab)
    /\ UNCHANGED session

\* The connection fails: what was asked is not done, or still under way, or done.
Fail(s) ==
    /\ calls[s].to # "nobody" /\ calls[s].reply \in {"sent", "checked", "ok"}
    /\ \/ calls' = [calls EXCEPT ![s] = Dropped(s)]
       \/ calls[s].reply = "sent" /\ Done(s)

\* Bug: the user of a refused token stays in storage.
KeepRefusedUser(s) ==
    /\ calls[s].to # "nobody" /\ calls[s].reply = "unauthorized"
    /\ refused' = (refused \/ calls[s].token = issued)
    /\ IF view = "authenticated"
       THEN /\ view' = "expired" /\ token' = NoToken
            /\ calls' = [Unmounted EXCEPT ![s] = NoCall]
       ELSE Done(s) /\ UNCHANGED <<view, token>>
    /\ UNCHANGED <<stored, justLoggedOut, renewing, issued, lapsed>>

\* A 401 ends the session on show, whichever token the call was sent with.
ReportUnauthorized(s) ==
    /\ calls[s].to # "nobody" /\ calls[s].reply = "unauthorized"
    /\ refused' = (refused \/ calls[s].token = issued)
    /\ IF view = "authenticated"
       THEN /\ view' = "expired" /\ token' = NoToken /\ stored' = NoToken
            /\ calls' = [Unmounted EXCEPT ![s] = NoCall]
       ELSE Done(s) /\ UNCHANGED <<view, token, stored>>
    /\ UNCHANGED <<justLoggedOut, renewing, issued, lapsed>>

SessionStep ==
    \/ SigninRedirectCallback \/ InitAuth \/ Login \/ Logout
    \/ SignoutRedirect \/ BeginSilentRenew \/ EndSilentRenew \/ AccessTokenExpired
    \/ \E s \in Slots : ReportUnauthorized(s)
=============================================================================
