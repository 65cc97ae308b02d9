------------------------------ MODULE MCUpdater ------------------------------
(***************************************************************************)
(* Three calls, each an update to one of three pinned images or a          *)
(* rollback, one of the images unhealthy, and two faults: a crash in the   *)
(* middle of a restore, a rollback that starts after another update.       *)
(***************************************************************************)
EXTENDS Updater
=============================================================================
