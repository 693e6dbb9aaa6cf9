---------------------------- MODULE MCConsoleTab ----------------------------
(***************************************************************************)
(* A small instance of ConsoleTab for TLC.  The sets come from the cfg.    *)
(***************************************************************************)
EXTENDS ConsoleTab, TLC

Symmetric == Permutations(Slots)
=============================================================================
