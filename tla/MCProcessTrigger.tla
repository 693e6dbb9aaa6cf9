--------------------------- MODULE MCProcessTrigger ---------------------------
(***************************************************************************)
(* Small instances of ProcessTrigger: the triggers are interchangeable.    *)
(***************************************************************************)
EXTENDS ProcessTrigger, TLC

TriggerSymmetry == Permutations(Triggers)
=============================================================================
