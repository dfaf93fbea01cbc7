------------------------------- MODULE CommitGap -------------------------------
(***************************************************************************)
(* execute_pending_step of lab07.py: a worker process executes a pending   *)
(* step at the external service and then records its completion in the     *)
(* step's state file.  Workers die at any point, in particular between the *)
(* commit and the record, and are invoked again until the step is          *)
(* completed.  The baseline knows only the state file; the treatment asks  *)
(* the service about the operation's identity before it commits.           *)
(*                                                                         *)
(* The harness invokes one worker at a time (subprocess.run), which works  *)
(* on one step; the steps of a run share the service.                      *)
(***************************************************************************)
EXTENDS Integers, Sequences, FiniteSets, OperationIdentity

CONSTANTS
  Modes,        \* the modes to run, "baseline" and "treatment"
  RunId, Step,
  None,
  MaxCrashes    \* bound on the crashes

ASSUME GapParameters ==
  /\ Modes \subseteq {"baseline", "treatment"}
  /\ RunId \in Seq(STRING) /\ Step \subseteq Seq(STRING) /\ IsFiniteSet(Step)
  /\ None \notin Step /\ \A s \in Step : stable_operation_id(RunId, s) # None
  /\ None \notin Nat

ASSUME GapBounds == MaxCrashes \in Nat

Operations == {stable_operation_id(RunId, s) : s \in Step}

INSTANCE ExternalService WITH Operation <- Operations

VARIABLES
  mode,         \* the mode of this run, fixed
  status,       \* status[s] in the state file of step s
  service,      \* the service's file
  worker,       \* the step the running worker executes, None between workers
  pc,           \* where that worker is
  crashes,      \* how many workers died
  gapCrashes    \* history: how many died with the effect made, unrecorded

vars == <<mode, status, service, worker, pc, crashes, gapCrashes>>

OperationOf(s) == stable_operation_id(RunId, s)

\* initialize_step_state for every step; the service has no file yet.
Init ==
  /\ mode \in Modes
  /\ status = [s \in Step |-> "pending"]
  /\ service = EmptyService
  /\ worker = None
  /\ pc = "idle"
  /\ crashes = 0
  /\ gapCrashes = 0

\* Mutant of Start: the worker claims the step in its state file, for good.
Start_Claims(s) ==
  /\ worker = None
  /\ status[s] = "pending"
  /\ status' = [status EXCEPT ![s] = "running"]
  /\ worker' = s
  /\ pc' = IF mode = "baseline" THEN "committing" ELSE "reconciling"
  /\ UNCHANGED <<mode, service, crashes, gapCrashes>>

\* A worker is invoked and reads the state file; on a completed step it returns
\* at once, which changes nothing.
Start(s) ==
  /\ worker = None
  /\ status[s] = "pending"
  /\ worker' = s
  /\ pc' = IF mode = "baseline" THEN "committing" ELSE "reconciling"
  /\ UNCHANGED <<mode, status, service, crashes, gapCrashes>>

\* Mutant of Reconcile: the answer of the service is not used.
Reconcile_Ignored(s) ==
  /\ worker = s /\ pc = "reconciling"
  /\ service' = reconcile(service, OperationOf(s))
  /\ pc' = "committing"
  /\ UNCHANGED <<mode, status, worker, crashes, gapCrashes>>

Reconcile(s) ==
  /\ worker = s /\ pc = "reconciling"
  /\ service' = reconcile(service, OperationOf(s))
  /\ pc' = IF Committed(service, OperationOf(s)) THEN "recording" ELSE "committing"
  /\ UNCHANGED <<mode, status, worker, crashes, gapCrashes>>

\* Mutant of Commit: an unkeyed write in every mode.
Commit_Unkeyed(s) ==
  /\ worker = s /\ pc = "committing"
  /\ service' = commit_unkeyed(service)
  /\ pc' = "recording"
  /\ UNCHANGED <<mode, status, worker, crashes, gapCrashes>>

Commit(s) ==
  /\ worker = s /\ pc = "committing"
  /\ service' = IF mode = "baseline" THEN commit_unkeyed(service)
                                     ELSE commit_idempotent(service, OperationOf(s))
  /\ pc' = "recording"
  /\ UNCHANGED <<mode, status, worker, crashes, gapCrashes>>

\* The state file is replaced and the worker exits.
Record(s) ==
  /\ worker = s /\ pc = "recording"
  /\ status' = [status EXCEPT ![s] = "completed"]
  /\ worker' = None /\ pc' = "idle"
  /\ UNCHANGED <<mode, service, crashes, gapCrashes>>

\* The worker dies; the files keep their last contents.
Crash ==
  /\ worker # None
  /\ crashes < MaxCrashes
  /\ crashes' = crashes + 1
  /\ gapCrashes' = IF pc = "recording" THEN gapCrashes + 1 ELSE gapCrashes
  /\ worker' = None /\ pc' = "idle"
  /\ UNCHANGED <<mode, status, service>>

Work(s) == Reconcile(s) \/ Commit(s) \/ Record(s)

Next == Crash \/ \E s \in Step : Start(s) \/ Work(s)

Spec == Init /\ [][Next]_vars

\* Whoever operates the run invokes a worker for a pending step again, and a
\* worker that is not killed goes on.
FairSpec ==
  /\ Spec
  /\ \A s \in Step : WF_vars(Start(s)) /\ WF_vars(Work(s))
-----------------------------------------------------------------------------
(* Properties                                                              *)

TypeOK ==
  /\ mode \in Modes
  /\ status \in [Step -> {"pending", "completed"}]
  /\ service \in ServiceType
  /\ worker \in Step \cup {None}
  /\ pc \in {"idle", "reconciling", "committing", "recording"}
  /\ (worker = None) <=> (pc = "idle")
  /\ crashes \in Nat /\ gapCrashes \in Nat

Completed == {s \in Step : status[s] = "completed"}

CommittedSteps == {s \in Step : Committed(service, OperationOf(s))}

\* In the treatment a step is recorded as completed, or about to be, only when
\* its operation has its effect: the checkpoint never runs ahead of the service
\* (lab07.py: "advance only after success or reconciled success is known").
CompletedIsCommitted ==
  mode = "treatment" =>
    /\ Completed \subseteq CommittedSteps
    /\ pc = "recording" => worker \in CommittedSteps
    /\ IndexMatchesEffects(service)

\* The well-formed state: a worker runs exactly when a step is worked on, and the
\* checkpoint, the service's index and its effects agree.
GapInv == TypeOK /\ CompletedIsCommitted

\* What the crash gap costs.  Replaying from the checkpoint alone makes exactly
\* one more effect for each death between commit and record; with operation
\* identity and reconciliation there are as many effects as committed steps.
EffectsAccountedFor ==
  Len(service.effects) =
    IF mode = "baseline"
    THEN Cardinality(Completed) + gapCrashes + (IF pc = "recording" THEN 1 ELSE 0)
    ELSE Cardinality(CommittedSteps)

\* "Reconciliation before replay": however often the treatment is killed and
\* invoked again, the service sees one write call per operation, and it comes
\* right after a reconciliation of that operation.
ReconciledBeforeWrite ==
  mode = "treatment" =>
    \A i \in DOMAIN service.calls :
      service.calls[i].kind = "write" =>
        /\ i > 1
        /\ service.calls[i - 1] =
             [kind |-> "reconcile", operation_id |-> service.calls[i].operation_id]
        /\ \A j \in 1 .. i - 1 : service.calls[j] # service.calls[i]

\* Finitely many deaths do not keep a step from being completed.
EveryStepCompletes == \A s \in Step : <>(status[s] = "completed")

\* The treatment implements the at-most-once sink; the baseline's effects, which
\* have no identity, are not the sink's.
Sink == INSTANCE EffectSink WITH
  Operation <- Operations,
  effects <- IF mode = "treatment" THEN service.effects ELSE <<>>

SinkSpec == Sink!Spec
=============================================================================
