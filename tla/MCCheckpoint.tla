----------------------------- MODULE MCCheckpoint -----------------------------
(***************************************************************************)
(* Values for the run of Checkpoint.                                       *)
(***************************************************************************)
EXTENDS Checkpoint

BothModes == {"baseline", "checkpoint"}
=============================================================================
