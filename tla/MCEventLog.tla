------------------------------ MODULE MCEventLog ------------------------------
(***************************************************************************)
(* Values for the run of EventLog.                                         *)
(***************************************************************************)
EXTENDS EventLog, TLC

CONSTANT Ids

\* Every event of a step, right or wrong, up to sequence 3, and one of unknown kind.
Events ==
  [event_id : Ids, sequence : 1 .. 3, kind : {"step_started", "step_completed"}]
    \cup [event_id : Ids, sequence : {2}, kind : {"step_failed"}]

\* Ids are only compared with one another.
Symmetry == Permutations(Ids)
=============================================================================
