---------------------------- MODULE ReplyHandoff ----------------------------
(***************************************************************************)
(* Flow 2: a buyer's reply is stored, classified by the model and, unless  *)
(* it is harmless, handed to a human as an escalation; a console user      *)
(* resolves the escalation, with a reply of their own or without.          *)
(*                                                                         *)
(* The program outside that posts replies may post one again when it got   *)
(* no answer.  The classification is a call of the worker's, lost when     *)
(* either process dies.  Two users may resolve one escalation at the same  *)
(* time; only the unique key of resolutions.escalation_id stands between   *)
(* them.                                                                   *)
(***************************************************************************)
EXTENDS Policy, FiniteSets

CONSTANTS
    Letters,      \* replies the buyer wrote
    Messages,     \* buyer_inbound rows, one for each post
    Escalations,  \* escalation rows
    Users         \* console users, each with one request at a time

ASSUME ReplyHandoffAssumption ==
    /\ IsFiniteSet(Escalations)
    /\ Messages \cap Letters = {} /\ Messages \cap Escalations = {}

NoLetter == "no letter"
NoMessage == "no message"
NoEscalation == "no escalation"
NoRule == "none"

ASSUME NoneIsNoRow == NoMessage \notin Messages /\ NoEscalation \notin Escalations

VARIABLES
    answered,    \* letters whose poster got an answer
    inbound,     \* the inbound rows: their letter, and the escalation they led to
    handler,     \* each row's classification: its step and what it has read
    escalation,  \* the escalation rows
    resolution,  \* the resolution of each escalation
    reply,       \* each escalation's human_reply row
    composed,    \* human_reply rows written for each escalation
    user         \* each console request: its step and its escalation

vars == <<answered, inbound, handler, escalation, resolution, reply, composed, user>>

\* The schema lets an answer fire and name no rule.  A language left empty counts as English.
Answer == [parsed: BOOLEAN, english: BOOLEAN, fires: BOOLEAN,
           rule: {"pricing_question", "negative_sentiment", NoRule}, confidence: Confidence]
NoAnswer == [parsed |-> FALSE, english |-> FALSE, fires |-> FALSE,
             rule |-> "pricing_question", confidence |-> "low"]

InboundRow == [letter: Letters \cup {NoLetter}, escalation: Escalations \cup {NoEscalation}]
Handler ==
    [step: {"absent", "called", "classify", "decide", "open", "link", "harmless", "escalated", "lost"},
     floor: SentimentFloor, answer: Answer, rule: HardTriggerRule \cup {NoRule},
     escalation: Escalations \cup {NoEscalation}]
Unborn == [step |-> "absent", floor |-> "Medium", answer |-> NoAnswer, rule |-> NoRule,
           escalation |-> NoEscalation]
EscalationRow ==
    [status: {"absent", "active", "resolved"}, message: Messages \cup {NoMessage},
     rule: HardTriggerRule \cup {NoRule}, repeatOf: Escalations \cup {NoEscalation}]
NoRow == [status |-> "absent", message |-> NoMessage, rule |-> NoRule, repeatOf |-> NoEscalation]

Free == [step |-> "idle", escalation |-> NoEscalation]

Init ==
    /\ answered = {}
    /\ inbound = [m \in Messages |-> [letter |-> NoLetter, escalation |-> NoEscalation]]
    /\ handler = [m \in Messages |-> Unborn]
    /\ escalation = [e \in Escalations |-> NoRow]
    /\ resolution = {}
    /\ reply = [e \in Escalations |-> "absent"]
    /\ composed = [e \in Escalations |-> 0]
    /\ user = [u \in Users |-> Free]

Active == {e \in Escalations : escalation[e].status = "active"}

(***************************************************************************)
(* Receiving and classifying a reply.                                      *)
(***************************************************************************)
At(m, step) == handler[m].step = step
GoTo(m, step) == handler' = [handler EXCEPT ![m].step = step]
End(m, step) == handler' = [handler EXCEPT ![m] = [Unborn EXCEPT !.step = step]]
Desk == <<resolution, reply, composed, user>>

\* Every post stores a row of its own, also the second post of a letter.
ReceiveInbound(m, l) ==
    /\ At(m, "absent") /\ l \notin answered
    /\ inbound' = [inbound EXCEPT ![m].letter = l]
    /\ GoTo(m, "called")
    /\ UNCHANGED <<answered, escalation, Desk>>

\* The console or the worker dies, or a query of theirs fails: the poster gets no answer.
LoseClassification(m) ==
    /\ handler[m].step \in {"called", "classify", "decide", "open", "link"}
    /\ End(m, "lost")
    /\ UNCHANGED <<answered, inbound, escalation, Desk>>

\* The sentiment floor is whatever the settings say at this moment.
FindMessage(m) ==
    /\ At(m, "called")
    /\ \E floor \in SentimentFloor :
           handler' = [handler EXCEPT ![m].step = "classify", ![m].floor = floor]
    /\ UNCHANGED <<answered, inbound, escalation, Desk>>

\* Both attempts fail, or the output does not parse, or there is an answer.
ClassifyInboundReply(m) ==
    /\ At(m, "classify")
    /\ \E answer \in {a \in Answer : a.parsed} \cup {NoAnswer} :
           handler' = [handler EXCEPT ![m].step = "decide", ![m].answer = answer]
    /\ UNCHANGED <<answered, inbound, escalation, Desk>>

\* Bug: without an answer nothing fires.
DecideOnAnswers(m) ==
    /\ At(m, "decide")
    /\ LET rule == IF handler[m].answer.parsed
                   THEN DecideHardTrigger(handler[m].answer, handler[m].floor) ELSE "none"
       IN  /\ handler' = [handler EXCEPT ![m].rule = rule, ![m].floor = "Medium",
                                         ![m].step = IF rule = "none" THEN "harmless" ELSE "open"]
           /\ answered' = IF rule = "none" THEN answered \cup {inbound[m].letter} ELSE answered
    /\ UNCHANGED <<inbound, escalation, Desk>>

\* A harmless reply is answered here; the text for the human never fails, so it is left out.
Decide(m) ==
    /\ At(m, "decide")
    /\ LET rule == DecideHardTrigger(handler[m].answer, handler[m].floor)
       IN  /\ handler' = [handler EXCEPT ![m].rule = rule, ![m].floor = "Medium",
                                         ![m].step = IF rule = "none" THEN "harmless" ELSE "open"]
           /\ answered' = IF rule = "none" THEN answered \cup {inbound[m].letter} ELSE answered
    /\ UNCHANGED <<inbound, escalation, Desk>>

OpenEscalation(m) ==
    /\ At(m, "open")
    /\ \E e \in Escalations :
          /\ escalation[e].status = "absent"
          /\ escalation' = [escalation EXCEPT ![e] = [status |-> "active", message |-> m,
                                                      rule |-> handler[m].rule,
                                                      repeatOf |-> NoEscalation]]
          /\ handler' = [handler EXCEPT ![m].step = "link", ![m].escalation = e]
    /\ UNCHANGED <<answered, inbound, Desk>>

\* Bug: the reply is linked to whatever escalation of the account is active.
LinkToActive(m) ==
    /\ At(m, "link")
    /\ \E e \in Active : inbound' = [inbound EXCEPT ![m].escalation = e]
    /\ End(m, "escalated")
    /\ answered' = answered \cup {inbound[m].letter}
    /\ UNCHANGED <<escalation, Desk>>

LinkMessage(m) ==
    /\ At(m, "link")
    /\ inbound' = [inbound EXCEPT ![m].escalation = handler[m].escalation]
    /\ End(m, "escalated")
    /\ answered' = answered \cup {inbound[m].letter}
    /\ UNCHANGED <<escalation, Desk>>

(***************************************************************************)
(* Resolving an escalation.                                                *)
(***************************************************************************)
Flow == <<answered, inbound, handler>>
Leave(u) == user' = [user EXCEPT ![u] = Free]

\* Bug: the escalation is not looked up.
BeginResolveUnfound(u, e) ==
    /\ user[u].step = "idle" /\ escalation[e].status # "resolved"
    /\ \E action \in {"compose_send", "note"} :
           user' = [user EXCEPT ![u] = [step |-> action, escalation |-> e]]
    /\ UNCHANGED <<Flow, escalation, resolution, reply, composed>>

BeginResolve(u, e) ==
    /\ user[u].step = "idle" /\ escalation[e].status = "active"
    /\ \E action \in {"compose_send", "note"} :
           user' = [user EXCEPT ![u] = [step |-> action, escalation |-> e]]
    /\ UNCHANGED <<Flow, escalation, resolution, reply, composed>>

\* The transaction writes the reply, then the resolution, then the status.  Where a resolution
\* exists the second insert fails and takes the reply back with it.
Resolve(u) ==
    LET e == user[u].escalation
    IN  /\ user[u].step \in {"compose_send", "note"} /\ e \notin resolution
        /\ resolution' = resolution \cup {e}
        /\ escalation' = [escalation EXCEPT ![e].status = "resolved"]
        /\ IF user[u].step = "compose_send"
           THEN /\ reply' = [reply EXCEPT ![e] = "approved"]
                /\ composed' = [composed EXCEPT ![e] = @ + 1]
                /\ user' = [user EXCEPT ![u].step = "dispatch"]
           ELSE /\ Leave(u)
                /\ UNCHANGED <<reply, composed>>
        /\ UNCHANGED Flow

\* Bug: the reply is written in a transaction of its own.
RollBackResolutionOnly(u) ==
    LET e == user[u].escalation
    IN  /\ user[u].step \in {"compose_send", "note"} /\ e \in resolution
        /\ composed' = IF user[u].step = "compose_send" THEN [composed EXCEPT ![e] = @ + 1] ELSE composed
        /\ Leave(u)
        /\ UNCHANGED <<Flow, escalation, resolution, reply>>

RollBack(u) ==
    /\ user[u].step \in {"compose_send", "note"} /\ user[u].escalation \in resolution
    /\ Leave(u)
    /\ UNCHANGED <<Flow, escalation, resolution, reply, composed>>

\* The process dies before the commit or before the call.
LoseRequest(u) ==
    /\ user[u].step # "idle"
    /\ Leave(u)
    /\ UNCHANGED <<Flow, escalation, resolution, reply, composed>>

\* A reply is dispatched like any message: not while another escalation of the account is active,
\* and not without a contact's email, which the account may have at this moment or not.
DispatchReply(u) ==
    LET e == user[u].escalation
    IN  /\ user[u].step = "dispatch"
        /\ \/ reply[e] = "approved" /\ Active = {} /\ reply' = [reply EXCEPT ![e] = "sent"]
           \/ UNCHANGED reply
        /\ Leave(u)
        /\ UNCHANGED <<Flow, escalation, resolution, composed>>

\* The sweep finds a reply left approved.
Reconcile(e) ==
    /\ reply[e] = "approved"
    /\ \/ Active = {} /\ reply' = [reply EXCEPT ![e] = "sent"]
       \/ reply' = [reply EXCEPT ![e] = "needs_triage"]
    /\ UNCHANGED <<Flow, escalation, resolution, composed, user>>

\* A user marks an escalation as a repeat of a resolution the account already has, or takes it back.
LinkRepeat(e) ==
    /\ escalation[e].status # "absent"
    /\ \E other \in resolution : escalation' = [escalation EXCEPT ![e].repeatOf = other]
    /\ UNCHANGED <<Flow, resolution, reply, composed, user>>

Unlink(e) ==
    /\ escalation[e].repeatOf # NoEscalation
    /\ escalation' = [escalation EXCEPT ![e].repeatOf = NoEscalation]
    /\ UNCHANGED <<Flow, resolution, reply, composed, user>>

Next ==
    \/ \E m \in Messages :
          \/ \E l \in Letters : ReceiveInbound(m, l)
          \/ LoseClassification(m) \/ FindMessage(m) \/ ClassifyInboundReply(m)
          \/ Decide(m) \/ OpenEscalation(m) \/ LinkMessage(m)
    \/ \E u \in Users :
          \/ \E e \in Escalations : BeginResolve(u, e)
          \/ Resolve(u) \/ RollBack(u) \/ LoseRequest(u) \/ DispatchReply(u)
    \/ \E e \in Escalations : Reconcile(e) \/ LinkRepeat(e) \/ Unlink(e)

Spec == Init /\ [][Next]_vars

(***************************************************************************)
(* Properties.                                                             *)
(***************************************************************************)
\* Every variable has its shape, and a request at work has an escalation that exists.
TypeOK ==
    /\ answered \subseteq Letters
    /\ inbound \in [Messages -> InboundRow]
    /\ handler \in [Messages -> Handler]
    /\ escalation \in [Escalations -> EscalationRow]
    /\ resolution \subseteq Escalations
    /\ reply \in [Escalations -> {"absent", "approved", "sent", "needs_triage"}]
    /\ composed \in [Escalations -> Nat]
    /\ user \in [Users -> [step: {"idle", "compose_send", "note", "dispatch"},
                           escalation: Escalations \cup {NoEscalation}]]
    /\ \A u \in Users :
          user[u].step # "idle" => /\ user[u].escalation \in Escalations
                                   /\ escalation[user[u].escalation].status # "absent"

\* A letter its poster was told is settled was understood with some confidence, as English and with
\* no rule that fires and is named, or a human has it, whatever attempts were lost on the way and
\* however the sentiment floor moved.
Harmless(m) ==
    LET answer == handler[m].answer
    IN  /\ answer.parsed /\ answer.english /\ answer.confidence # "low"
        /\ ~answer.fires \/ answer.rule = NoRule

NothingSlipsThrough ==
    \A l \in answered : \E m \in Messages :
        /\ inbound[m].letter = l
        /\ \/ At(m, "harmless") /\ Harmless(m)
           \/ \E e \in Escalations : escalation[e].message = m /\ escalation[e].status # "absent"

\* A reply and its escalation name each other, and a stored reply opens at most one escalation,
\* whatever is lost between the two writes and however many escalations are active.
RepliesNameTheirEscalation ==
    \A m \in Messages :
        /\ inbound[m].escalation # NoEscalation => escalation[inbound[m].escalation].message = m
        /\ Cardinality({e \in Escalations : escalation[e].message = m}) <= 1

\* Two users who resolve one escalation at the same time close it once, and the buyer gets one
\* reply at most: a resolution exists exactly where the escalation is resolved, and the reply of
\* the one who came second goes back with their transaction.
ResolvedOnce ==
    \A e \in Escalations :
        /\ e \in resolution <=> escalation[e].status = "resolved"
        /\ composed[e] <= 1
        /\ composed[e] = 1 <=> reply[e] # "absent"
=============================================================================
