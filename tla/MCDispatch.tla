----------------------------- MODULE MCDispatch -----------------------------
(***************************************************************************)
(* Small instances of Dispatch for TLC.  The sets come from the cfgs.      *)
(***************************************************************************)
EXTENDS DispatchLife, TLC

Symmetric == Permutations(Messages) \cup Permutations(Routes) \cup Permutations(Operators)
=============================================================================
