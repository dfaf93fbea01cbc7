------------------------------ MODULE Checkpoint ------------------------------
(***************************************************************************)
(* The worker, the effect log and the CheckpointStore of lab04.py.  A      *)
(* worker process runs the steps of its task in order; for each it appends *)
(* an effect and, in the checkpoint mode, saves a checkpoint.  It may die  *)
(* anywhere and is invoked again.  The lab only kills it after both writes *)
(* of a step; a death between the two is what its QUESTION.md leaves open. *)
(*                                                                         *)
(* Workers run one at a time.  Several tasks may be given the same files,  *)
(* and the checkpoint file may be damaged between two reads of it.         *)
(***************************************************************************)
EXTENDS Integers, Sequences, FiniteSets

CONSTANTS
  Modes,        \* the modes to run, "baseline" and "checkpoint"
  Task,         \* task ids
  TotalSteps,   \* total_steps
  None,
  Damaged,      \* a checkpoint file that fails a check of load
  MaxCrashes,   \* bound on the crashes
  MaxDamages    \* bound on the damages to the checkpoint file

ASSUME CheckpointParameters ==
  /\ Modes \subseteq {"baseline", "checkpoint"}
  /\ TotalSteps \in Nat
  /\ None \notin Task /\ Damaged # None

\* An intact checkpoint is told from a missing and from a damaged one.
ASSUME NoneIsNothing ==
  None \notin [task : Task, next_step : Nat] /\ Damaged \notin [task : Task, next_step : Nat]

ASSUME CheckpointBounds == MaxCrashes \in Nat /\ MaxDamages \in Nat

VARIABLES
  mode,         \* the mode of this run, fixed
  effects,      \* the effect log, oldest first
  saved,        \* the checkpoint file: None, Damaged, or what it holds
  task, step,   \* the task of the running worker, None without one, and its step
  pc,           \* where it is
  exits,        \* how the last worker of each task ended
  crashes, damages,
  redo,         \* history: deaths that made the effect of a step be repeated
  owner         \* history: the task that saved the checkpoint file last

vars == <<mode, effects, saved, task, step, pc, exits, crashes, damages, redo, owner>>

Step == 0 .. TotalSteps - 1

Init ==
  /\ mode \in Modes
  /\ effects = <<>> /\ saved = None
  /\ task = None /\ step = 0 /\ pc = "idle"
  /\ exits = [t \in Task |-> "none"]
  /\ crashes = 0 /\ damages = 0
  /\ redo = [t \in Task |-> [s \in Step |-> 0]] /\ owner = None

\* Mutants of Loadable: any intact checkpoint will do; there must be one.
Loadable_AnyTask(t) == saved # Damaged

Loadable_Exists(t) == saved \notin {None, Damaged} /\ saved.task = t

\* load raises for a damaged file, the worker for the checkpoint of another task.
Loadable(t) == saved # Damaged /\ (saved # None => saved.task = t)

\* The step after `s - 1`, or the end.
At(s) == step' = s /\ pc' = IF s < TotalSteps THEN "appending" ELSE "ending"

\* Mutant of StartStep: the checkpoint names the step that is done.
StartStep_Next ==
  IF mode = "baseline" \/ saved = None THEN 0 ELSE saved.next_step + 1

StartStep == IF mode = "baseline" \/ saved = None THEN 0 ELSE saved.next_step

\* A worker is invoked for a task and finds where to go on.  That the task is not done
\* (here and in Refuse) is an assumption on who invokes it: the worker does not look, and
\* the baseline would run a finished task again.
Start(t) ==
  /\ pc = "idle" /\ exits[t] # "done"
  /\ mode = "baseline" \/ Loadable(t)
  /\ task' = t /\ At(StartStep)
  /\ UNCHANGED <<mode, effects, saved, exits, crashes, damages, redo, owner>>

\* It exits with "checkpoint error" before it does anything.
Refuse(t) ==
  /\ pc = "idle" /\ exits[t] # "done"
  /\ mode = "checkpoint" /\ ~ Loadable(t)
  /\ exits' = [exits EXCEPT ![t] = "error"]
  /\ UNCHANGED <<mode, effects, saved, task, step, pc, crashes, damages, redo, owner>>

AppendEffect ==
  /\ pc = "appending"
  /\ effects' = Append(effects, [task_id |-> task, step |-> step])
  /\ IF mode = "checkpoint" THEN pc' = "saving" /\ UNCHANGED step ELSE At(step + 1)
  /\ UNCHANGED <<mode, saved, task, exits, crashes, damages, redo, owner>>

\* Mutant of Save: nothing is saved before the last step is done.
Save_AtTheEnd ==
  /\ pc = "saving"
  /\ saved' = IF step + 1 = TotalSteps THEN [task |-> task, next_step |-> step + 1] ELSE saved
  /\ owner' = IF step + 1 = TotalSteps THEN task ELSE owner
  /\ At(step + 1)
  /\ UNCHANGED <<mode, effects, task, exits, crashes, damages, redo>>

Save ==
  /\ pc = "saving"
  /\ saved' = [task |-> task, next_step |-> step + 1] /\ owner' = task
  /\ At(step + 1)
  /\ UNCHANGED <<mode, effects, task, exits, crashes, damages, redo>>

End ==
  /\ pc = "ending"
  /\ exits' = [exits EXCEPT ![task] = "done"]
  /\ task' = None /\ step' = 0 /\ pc' = "idle"
  /\ UNCHANGED <<mode, effects, saved, crashes, damages, redo, owner>>

\* The steps the dying worker did that no checkpoint tells of.
Forgotten == {s \in Step : IF mode = "baseline" THEN s < step ELSE pc = "saving" /\ s = step}

\* The worker dies with os._exit or is killed; both files keep their contents.
Crash ==
  /\ pc # "idle" /\ crashes < MaxCrashes
  /\ crashes' = crashes + 1
  /\ redo' = [redo EXCEPT ![task] = [s \in Step |-> IF s \in Forgotten THEN @[s] + 1 ELSE @[s]]]
  /\ task' = None /\ step' = 0 /\ pc' = "idle"
  /\ UNCHANGED <<mode, effects, saved, exits, damages, owner>>

Damage ==
  /\ saved \notin {None, Damaged} /\ damages < MaxDamages
  /\ damages' = damages + 1
  /\ saved' = Damaged
  /\ UNCHANGED <<mode, effects, task, step, pc, exits, crashes, redo, owner>>

Work == AppendEffect \/ Save \/ End

Next == Work \/ Crash \/ Damage \/ \E t \in Task : Start(t) \/ Refuse(t)

Spec == Init /\ [][Next]_vars

\* Somebody invokes a worker for a task that is not done, and a worker goes on.
FairSpec ==
  /\ Spec /\ WF_vars(Work)
  /\ \A t \in Task : WF_vars(Start(t)) /\ WF_vars(Refuse(t))
-----------------------------------------------------------------------------
(* Properties                                                              *)

TypeOK ==
  /\ mode \in Modes
  /\ effects \in Seq([task_id : Task, step : Step])
  /\ saved \in {None, Damaged} \cup [task : Task, next_step : 1 .. TotalSteps]
  /\ task \in Task \cup {None} /\ step \in 0 .. TotalSteps
  /\ pc \in {"idle", "appending", "saving", "ending"}
  /\ task = None <=> pc = "idle"
  /\ exits \in [Task -> {"none", "done", "error"}]
  /\ crashes \in Nat /\ damages \in Nat
  /\ redo \in [Task -> [Step -> Nat]] /\ owner \in Task \cup {None}

Intact == saved \notin {None, Damaged}

\* How often the effect of step s of t is in the log.
Count(t, s) == Cardinality({i \in DOMAIN effects : effects[i] = [task_id |-> t, step |-> s]})

\* The step is done and the program knows it: by its checkpoint, by the position of
\* the running worker or by the worker's exit.
Known(t, s) ==
  \/ exits[t] = "done"
  \/ task = t /\ (s < step \/ (pc = "saving" /\ s = step))
  \/ mode = "checkpoint" /\ Intact /\ saved.task = t /\ s < saved.next_step

\* Each effect is in the log once, and once more for every death that made the
\* program forget it: in the checkpoint mode only a death between the effect and
\* its checkpoint, in the baseline every death (labs/04 RESULT.md, QUESTION.md).
EffectsAccountedFor ==
  saved # Damaged =>
    \A t \in Task, s \in Step :
      Count(t, s) = redo[t][s] + (IF Known(t, s) THEN 1 ELSE 0)

\* The well-formed state: types, and a log that is accounted for.
CheckpointInv == TypeOK /\ EffectsAccountedFor

\* The earlier effects of the task that made the effect i.
Before(i) == {j \in 1 .. i - 1 : effects[j].task_id = effects[i].task_id}

\* "Restart resumes from the next uncommitted step": whatever dies, the log of a
\* checkpointed task goes through its steps in order from step 0, repeats a step
\* only at once, and skips none.
ResumesInOrder ==
  mode = "checkpoint" =>
    \A i \in DOMAIN effects :
      /\ Before(i) = {} => effects[i].step = 0
      /\ \A j \in Before(i) :
           (\A k \in Before(i) : k <= j) => effects[i].step - effects[j].step \in {0, 1}

\* A checkpoint belongs to the task that saved it.  Whatever is invoked on its file,
\* intact or damaged, only the owner's workers replace it or add an effect; and
\* once it is found damaged with no worker running, none runs again: the file stays
\* as it is, and so does the log, until somebody else mends it.
ForeignUntouched ==
  /\ [][ mode = "checkpoint" /\ (effects' # effects \/ saved' # saved) =>
           Damage \/ owner \in {None, task} ]_vars
  /\ [](saved = Damaged /\ pc = "idle" => [](saved = Damaged /\ pc = "idle"))

\* With finitely many deaths each task is done in the end, unless its checkpoint
\* was damaged or another task owns the file.
EveryTaskEnds ==
  \A t \in Task :
    <>(exits[t] = "done" \/ saved = Damaged \/ (Intact /\ saved.task # t))
=============================================================================
