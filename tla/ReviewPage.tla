----------------------------- MODULE ReviewPage -----------------------------
(***************************************************************************)
(* The account page of a tab, and the draft under review that it shows:    *)
(* load, edit, save, approve, reject.  The draft's row may change under    *)
(* the page, by other reviewers or by the page's own earlier calls.        *)
(*                                                                         *)
(* An approval names the message, never its text.  A save is a check and   *)
(* a write, as in Dispatch; what happens after an approval is there too.   *)
(***************************************************************************)
EXTENDS BrowserSession

CONSTANTS FirstDraft, Revisions  \* the agent's text, and what a human may type

ASSUME ReviewPageAssumption == {FirstDraft} \cup Revisions \subseteq Texts

VARIABLES
    draft,      \* the Message row: its status and its body
    escalated,  \* whether the account has an active escalation
    page,       \* the account page's state, while it is mounted
    doubt       \* history: the page may not show what the server has: since it was mounted an edit
                \* was cancelled, a save overlapped another call, or another reviewer acted

review == <<draft, escalated, page, doubt>>

Decisions == {"none", "approved", "rejected"}
Page == [mounted: BOOLEAN, loaded: BOOLEAN, pending: BOOLEAN, draftBody: Texts \cup {NoText},
         editing: BOOLEAN, escalation: BOOLEAN, decision: Decisions]

NoPage == [mounted |-> FALSE, loaded |-> FALSE, pending |-> FALSE, draftBody |-> NoText,
           editing |-> FALSE, escalation |-> FALSE, decision |-> "none"]

DraftKinds == {"edit", "approve", "reject"}
NewDraft == [status |-> "pending_review", body |-> FirstDraft]

InitReview ==
    /\ draft = NewDraft /\ escalated = FALSE
    /\ page = NoPage /\ doubt = FALSE

(***************************************************************************)
(* The page.  Its two loads answer in any order.  With no call of an       *)
(* earlier visit under way any account may be the one that is opened.      *)
(***************************************************************************)
MountReview ==
    /\ ~page.mounted
    /\ \E s, t \in Slots :
          /\ s # t /\ Free(s) /\ Free(t)
          /\ calls' = [calls EXCEPT ![s] = Ask("account", NoText, 0),
                                    ![t] = Ask("escalations", NoText, 0)]
    /\ page' = [NoPage EXCEPT !.mounted = TRUE]
    /\ doubt' = (UnderWay(DraftKinds) # {})
    /\ IF UnderWay(DraftKinds) = {}
       THEN /\ draft' \in [status: {"pending_review", "approved"}, body: Texts]
            /\ escalated' \in BOOLEAN
       ELSE UNCHANGED <<draft, escalated>>
    /\ UNCHANGED session

\* What becomes of the draft matters no more.
LeaveReview ==
    /\ page' = NoPage
    /\ IF \E s \in Slots : calls'[s].kind \in DraftKinds
       THEN UNCHANGED <<draft, escalated, doubt>>
       ELSE draft' = NewDraft /\ escalated' = FALSE /\ doubt' = FALSE

\* An active escalation takes the place of the draft and its buttons.
DraftOnShow == page.loaded /\ page.pending /\ ~page.escalation

Local(update) == page' = update /\ UNCHANGED <<session, calls, draft, escalated>>

Edit ==
    /\ DraftOnShow /\ page.decision = "none" /\ ~page.editing
    /\ Local([page EXCEPT !.editing = TRUE]) /\ UNCHANGED doubt

Type ==
    /\ DraftOnShow /\ page.editing
    /\ \E text \in Revisions : Local([page EXCEPT !.draftBody = text])
    /\ UNCHANGED doubt

\* What was typed stays in draftBody, and on show.
Cancel ==
    /\ DraftOnShow /\ page.editing
    /\ Local([page EXCEPT !.editing = FALSE])
    /\ doubt' = TRUE

Click(kind) ==
    /\ DraftOnShow
    /\ \E s \in Slots :
          Free(s) /\ calls' = [calls EXCEPT ![s] = Ask(kind, page.draftBody, 0)]
    /\ UNCHANGED <<session, draft, escalated>>

\* Bug: the editor closes before the save is answered.
SaveAndClose ==
    /\ page.editing /\ Click("edit")
    /\ page' = [page EXCEPT !.editing = FALSE]
    /\ doubt' = (doubt \/ UnderWay(DraftKinds) # {})

\* The editor stays open until the save is answered.
Save ==
    /\ page.editing /\ Click("edit")
    /\ doubt' = (doubt \/ UnderWay(DraftKinds) # {})
    /\ UNCHANGED page

Deciding == ~page.editing /\ page.decision = "none"
Approve == Deciding /\ Click("approve") /\ UNCHANGED <<page, doubt>>
Reject == Deciding /\ Click("reject") /\ UNCHANGED <<page, doubt>>

(***************************************************************************)
(* The server.                                                             *)
(***************************************************************************)
Serve(s, kind) == calls[s].kind = kind /\ calls[s].reply = "sent" /\ calls[s].token # NoToken

\* The newest message that is pending, if any.
GetDetail(s) ==
    /\ Serve(s, "account")
    /\ LET pending == draft.status = "pending_review" IN
       Answer(s, [calls[s] EXCEPT !.reply = "ok", !.yes = pending,
                                  !.text = IF pending THEN draft.body ELSE NoText], PageOnly)
    /\ UNCHANGED <<session, review>>

ListEscalations(s) ==
    /\ Serve(s, "escalations")
    /\ Answer(s, [calls[s] EXCEPT !.reply = "ok", !.yes = escalated], PageOnly)
    /\ UNCHANGED <<session, review>>

CheckDraft(s) ==
    /\ \E kind \in DraftKinds : Serve(s, kind)
    /\ IF draft.status = "pending_review" /\ (calls[s].kind = "approve" => ~escalated)
       THEN calls' = [calls EXCEPT ![s].reply = "checked"]
       ELSE Answer(s, [calls[s] EXCEPT !.reply = "refused"], PageOnly)
    /\ UNCHANGED <<session, review>>

\* The write goes by the message's id, whatever became of the row since the check.
WriteDraft(s) ==
    /\ calls[s].reply = "checked"
    /\ draft' = CASE calls[s].kind = "edit"    -> [draft EXCEPT !.body = calls[s].text]
                  [] calls[s].kind = "approve" -> [draft EXCEPT !.status = "approved"]
                  [] calls[s].kind = "reject"  -> [draft EXCEPT !.status = "rejected"]
    /\ Answer(s, [calls[s] EXCEPT !.reply = "ok"], PageOnly)
    /\ UNCHANGED <<session, escalated, page, doubt>>

\* Another reviewer edits or decides; the page is not told.  Bound: once in a visit.
OtherReviewer ==
    /\ page.mounted /\ ~doubt /\ draft.status = "pending_review"
    /\ \/ \E text \in Revisions : draft' = [draft EXCEPT !.body = text]
       \/ \E status \in {"approved", "rejected"} : draft' = [draft EXCEPT !.status = status]
    /\ doubt' = TRUE
    /\ UNCHANGED <<session, calls, escalated, page>>

\* An escalation opens, or the last one is resolved.
ChangeEscalation ==
    /\ escalated' = ~escalated
    /\ UNCHANGED <<session, calls, draft, page, doubt>>

(***************************************************************************)
(* The answers.  A call that is refused or fails leaves the page as it is. *)
(***************************************************************************)
Show(s) ==
    LET call == calls[s] IN
    CASE call.kind = "account" ->
             [page EXCEPT !.loaded = TRUE, !.pending = call.yes, !.draftBody = call.text]
      [] call.kind = "escalations" -> [page EXCEPT !.escalation = call.yes]
      [] call.kind = "edit" -> [page EXCEPT !.draftBody = call.text, !.editing = FALSE]
      [] call.kind = "approve" -> [page EXCEPT !.decision = "approved"]
      [] call.kind = "reject" -> [page EXCEPT !.decision = "rejected"]

HearReview(s) ==
    /\ calls[s].to = "page" /\ calls[s].kind \in DraftKinds \cup {"account", "escalations"}
    /\ \/ calls[s].reply = "ok" /\ page' = Show(s)
       \/ calls[s].reply = "refused" /\ UNCHANGED page
    /\ Done(s)
    /\ UNCHANGED <<session, draft, escalated, doubt>>

FailReview(s) ==
    /\ calls[s].kind \in DraftKinds \cup {"account", "escalations"} /\ Fail(s)
    /\ UNCHANGED <<session, review>>

ReviewUse == Edit \/ Type \/ Cancel \/ Save \/ Approve \/ Reject
ReviewServer ==
    \/ OtherReviewer \/ ChangeEscalation
    \/ \E s \in Slots : GetDetail(s) \/ ListEscalations(s) \/ CheckDraft(s) \/ WriteDraft(s)
=============================================================================
