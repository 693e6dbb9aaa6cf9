--------------------------- MODULE MCReplyHandoff ---------------------------
(***************************************************************************)
(* Small instances of ReplyHandoff for TLC.  The sets come from the cfgs.  *)
(***************************************************************************)
EXTENDS ReplyHandoff, TLC

Symmetric == Permutations(Messages) \cup Permutations(Escalations) \cup Permutations(Users)
=============================================================================
