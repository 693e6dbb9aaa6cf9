-------------------------- MODULE MCNightlyBackup --------------------------
(***************************************************************************)
(* Small instances of NightlyBackup for TLC.  The sets come from the cfgs. *)
(***************************************************************************)
EXTENDS NightlyBackup
=============================================================================
