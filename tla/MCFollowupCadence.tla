------------------------- MODULE MCFollowupCadence -------------------------
(***************************************************************************)
(* Small instances of FollowupCadence for TLC.  The numbers come from the  *)
(* cfgs.                                                                   *)
(***************************************************************************)
EXTENDS FollowupCadence

\* A trigger without compliance deadline content: one with it can only be held, as a draft of low
\* confidence is, so that each of its behaviours is, in all that the properties see, one of these.
MCInit == Init /\ ~deadline

MCSpec == MCInit /\ [][Next]_vars
=============================================================================
