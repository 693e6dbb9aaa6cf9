---------------------------- MODULE DispatchLife ----------------------------
(***************************************************************************)
(* Dispatch, seen as the life of its messages.  The mapping reads the rows *)
(* and the mails; requests, dispatches, sweeps, calls and escalations are  *)
(* how the life is carried out and do not show.                            *)
(***************************************************************************)
EXTENDS Dispatch

Life == INSTANCE MessageLife WITH
    Texts <- Bodies,
    status <- [m \in Messages |-> msg[m].status],
    text <- [m \in Messages |-> msg[m].body],
    mails <- rendered

\* One console request and one dispatch at a time, with calls that never arrive, carry out the
\* promised life of a message: no text changes after its approval, no decision is taken back, and
\* at most one mail leaves, before "sent" and never before "needs_triage".
LifeRefined == Life!LifeSpec
=============================================================================
