------------------------- MODULE MCConsoleSettings -------------------------
(***************************************************************************)
(* Small instances of ConsoleSettings for TLC.  The sets come from the     *)
(* cfgs.                                                                   *)
(***************************************************************************)
EXTENDS ConsoleSettings, TLC

Symmetric == Permutations(Admins) \cup Permutations(Fields) \cup Permutations(Requests)
=============================================================================
