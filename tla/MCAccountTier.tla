--------------------------- MODULE MCAccountTier ---------------------------
(***************************************************************************)
(* Small instances of AccountTier for TLC.  The sets come from the cfgs.   *)
(***************************************************************************)
EXTENDS AccountTier, TLC

Symmetric == Permutations(Clients)
=============================================================================
