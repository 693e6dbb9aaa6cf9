---------------------------- MODULE MessageLife ----------------------------
(***************************************************************************)
(* What the life of an outbound message promises, whatever handlers carry  *)
(* it out: a text that only review may change, one decision, and then one  *)
(* mail that ends in "sent", or no mail and a human who looks at it.       *)
(* Dispatch is the system that should keep this promise; DispatchLife says *)
(* how its variables tell the story.                                       *)
(***************************************************************************)
EXTENDS Naturals

CONSTANTS Messages, Texts

VARIABLES
    status,  \* where the message is in its life
    text,    \* the text its recipient gets, once there is a message
    mails    \* mails that left

life == <<status, text, mails>>

Statuses == {"absent", "pending_review", "approved", "rejected", "needs_triage", "sent"}

LifeInit ==
    /\ status = [m \in Messages |-> "absent"]
    /\ text \in [Messages -> Texts]
    /\ mails = [m \in Messages |-> 0]

Move(m, from, to) == status[m] = from /\ status' = [status EXCEPT ![m] = to]

Rewrite(m) == \E t \in Texts : text' = [text EXCEPT ![m] = t]

\* Written for review, or approved with its writing: by the agent at Tier 1, or by a human.
Write(m) ==
    /\ Move(m, "absent", "pending_review") \/ Move(m, "absent", "approved")
    /\ Rewrite(m) /\ UNCHANGED mails

Edit(m) == status[m] = "pending_review" /\ Rewrite(m) /\ UNCHANGED <<status, mails>>

Decide(m) ==
    /\ Move(m, "pending_review", "approved") \/ Move(m, "pending_review", "rejected")
    /\ UNCHANGED <<text, mails>>

Mail(m) ==
    /\ status[m] = "approved" /\ mails[m] = 0
    /\ mails' = [mails EXCEPT ![m] = 1]
    /\ UNCHANGED <<status, text>>

Settle(m) == mails[m] = 1 /\ Move(m, "approved", "sent") /\ UNCHANGED <<text, mails>>

HandOver(m) == mails[m] = 0 /\ Move(m, "approved", "needs_triage") /\ UNCHANGED <<text, mails>>

LifeNext ==
    \E m \in Messages : Write(m) \/ Edit(m) \/ Decide(m) \/ Mail(m) \/ Settle(m) \/ HandOver(m)

LifeSpec == LifeInit /\ [][LifeNext]_life

LifeTypeOK ==
    /\ status \in [Messages -> Statuses]
    /\ text \in [Messages -> Texts]
    /\ mails \in [Messages -> Nat]

\* The status tells the truth about the mail: a sent message went out exactly once, one that was
\* never approved or that a human was asked to look at did not go out.
StatusTellsTheMail ==
    \A m \in Messages :
        /\ status[m] = "sent" => mails[m] = 1
        /\ status[m] = "approved" => mails[m] <= 1
        /\ status[m] \notin {"approved", "sent"} => mails[m] = 0
=============================================================================
