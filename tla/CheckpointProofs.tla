--------------------------- MODULE CheckpointProofs ---------------------------
(***************************************************************************)
(* Proofs about Checkpoint, for every set of tasks, any number of steps    *)
(* and any number of deaths and damages: each effect in the log is         *)
(* accounted for, a checkpointed task goes through its steps in order, and *)
(* a foreign or damaged checkpoint is left as it is.                       *)
(***************************************************************************)
EXTENDS Checkpoint, FiniteSetTheorems, TLAPS

-----------------------------------------------------------------------------
(* The inductive invariant                                                 *)

\* Where the worker is, against its checkpoint and its exit: in the checkpoint mode
\* an intact file is the running worker's own and names the step it is at.
Position ==
  /\ mode = "baseline" => saved = None
  /\ pc = "saving" => mode = "checkpoint"
  /\ pc \in {"appending", "saving"} => step < TotalSteps
  /\ pc = "ending" => step = TotalSteps
  /\ task # None => exits[task] # "done"
  /\ mode = "checkpoint" /\ task # None =>
       /\ saved = None => step = 0
       /\ Intact => saved.task = task /\ saved.next_step = step

Accounted(t, s) == Count(t, s) = redo[t][s] + (IF Known(t, s) THEN 1 ELSE 0)

\* While a worker runs the log is accounted for even if the checkpoint is damaged:
\* the worker does not read it again, and its next save mends it.
LogAccountedFor ==
  saved # Damaged \/ task # None => \A t \in Task, s \in Step : Accounted(t, s)

\* A worker of t is running, or may be started when the running one is gone.
MayRun(t) == task = t \/ saved = None \/ (task = None /\ Intact /\ saved.task = t)

\* The step at which it goes on.
Resume(t) == IF task = t THEN step ELSE StartStep

Saving(t) == task = t /\ pc = "saving"

IsLast(i, t) ==
  /\ i \in DOMAIN effects /\ effects[i].task_id = t
  /\ \A j \in DOMAIN effects : effects[j].task_id = t => j <= i

\* The last effect of a task is of the step at which it resumes or of the one before.
MeetsResume(t) ==
  /\ \A i \in DOMAIN effects :
       IsLast(i, t) =>
         IF Saving(t) THEN effects[i].step = step
         ELSE effects[i].step \in {Resume(t) - 1, Resume(t)}
  /\ (\A i \in DOMAIN effects : effects[i].task_id # t) => Resume(t) = 0 /\ ~ Saving(t)

LogMeetsResume == mode = "checkpoint" => \A t \in Task : MayRun(t) => MeetsResume(t)

IInv == TypeOK /\ Position /\ LogAccountedFor /\ LogMeetsResume /\ ResumesInOrder

-----------------------------------------------------------------------------
(* The log                                                                 *)

\* What Append keeps of a sequence, and what it adds.
LEMMA AppendFacts ==
  ASSUME NEW S, NEW q \in Seq(S), NEW e \in S
  PROVE  /\ Len(q) \in Nat /\ DOMAIN q = 1 .. Len(q) /\ Len(q) + 1 \notin DOMAIN q
         /\ DOMAIN Append(q, e) = DOMAIN q \cup {Len(q) + 1}
         /\ \A i \in DOMAIN q : Append(q, e)[i] = q[i]
         /\ Append(q, e)[Len(q) + 1] = e
  OBVIOUS

Effect(t, s) == [task_id |-> t, step |-> s]

\* An effect is counted for its own task and step.
LEMMA CountOfAppended ==
  ASSUME TypeOK, task \in Task, step \in Step,
         effects' = Append(effects, Effect(task, step))
  PROVE  \A t \in Task, s \in Step :
           /\ Count(t, s) \in Nat
           /\ Count(t, s)' = Count(t, s) + (IF t = task /\ s = step THEN 1 ELSE 0)
<1> SUFFICES ASSUME NEW t \in Task, NEW s \in Step
             PROVE  /\ Count(t, s) \in Nat
                    /\ Count(t, s)' = Count(t, s) + (IF t = task /\ s = step THEN 1 ELSE 0)
  OBVIOUS
<1> DEFINE n == Len(effects) + 1
           at == {i \in DOMAIN effects : effects[i] = Effect(t, s)}
           at_next == {i \in DOMAIN effects' : effects'[i] = Effect(t, s)}
<1>1. /\ Len(effects) \in Nat /\ DOMAIN effects = 1 .. Len(effects)
      /\ DOMAIN effects' = DOMAIN effects \cup {n} /\ n \notin DOMAIN effects
      /\ effects'[n] = Effect(task, step)
      /\ \A i \in DOMAIN effects : effects'[i] = effects[i]
  <2> DEFINE E == [task_id : Task, step : Step]
             e == Effect(task, step)
  <2>1. effects \in Seq(E) /\ e \in E /\ effects' = Append(effects, e)
    BY DEF TypeOK, Effect
  <2> HIDE DEF E, e
  <2>2. /\ Len(effects) \in Nat /\ DOMAIN effects = 1 .. Len(effects) /\ n \notin DOMAIN effects
        /\ DOMAIN Append(effects, e) = DOMAIN effects \cup {n}
        /\ \A i \in DOMAIN effects : Append(effects, e)[i] = effects[i]
        /\ Append(effects, e)[n] = e
    BY <2>1, AppendFacts
  <2> QED
    BY <2>1, <2>2 DEF e
<1>2. IsFiniteSet(at) /\ Cardinality(at) \in Nat
  <2>1. IsFiniteSet(DOMAIN effects)
    BY <1>1, FS_Interval
  <2> QED
    BY <2>1, FS_Subset, FS_CardinalityType
<1>3. Effect(task, step) = Effect(t, s) <=> t = task /\ s = step
  BY DEF Effect
<1>4. at_next = IF t = task /\ s = step THEN at \cup {n} ELSE at
  BY <1>1, <1>3
<1>5. n \notin at
  BY <1>1
<1>6. Cardinality(at_next) = Cardinality(at) + (IF t = task /\ s = step THEN 1 ELSE 0)
  <2> HIDE DEF at, at_next, n
  <2>1. Cardinality(at \cup {n}) = Cardinality(at) + 1
    BY <1>2, <1>5, FS_AddElement
  <2> QED
    BY <1>2, <1>4, <2>1
<1>7. Count(t, s) = Cardinality(at) /\ Count(t, s)' = Cardinality(at_next)
  BY DEF Count, Effect
<1> QED
  BY <1>2, <1>6, <1>7

\* What stays as it is in a step that does not append.
LEMMA SameLog ==
  ASSUME effects' = effects
  PROVE  \A t \in Task, s \in Step : Count(t, s)' = Count(t, s)
  BY DEF Count

-----------------------------------------------------------------------------
(* Types and positions                                                     *)

\* A step is a number, and so is the one after it or the number of steps.
LEMMA StepFacts == \A s \in Step : s \in Nat /\ s < TotalSteps /\ s + 1 \in 1 .. TotalSteps
  BY CheckpointParameters DEF Step

\* A worker starts at a step of its task, or at the end.
LEMMA StartStepFacts ==
  ASSUME TypeOK, NEW t \in Task, mode = "baseline" \/ Loadable(t)
  PROVE  StartStep \in 0 .. TotalSteps
<1>1. TotalSteps \in Nat
  BY CheckpointParameters
<1>2. CASE mode = "baseline" \/ saved = None
  BY <1>1, <1>2 DEF StartStep
<1>3. CASE mode # "baseline" /\ saved # None
  <2>1. saved # Damaged
    BY <1>3 DEF Loadable
  <2>2. saved \in [task : Task, next_step : 1 .. TotalSteps]
    BY <1>3, <2>1 DEF TypeOK
  <2>3. saved.next_step \in 0 .. TotalSteps
    BY <1>1, <2>2
  <2> QED
    BY <1>3, <2>3 DEF StartStep
<1> QED
  BY <1>2, <1>3

\* Types are preserved.
LEMMA TypeStep ==
  ASSUME TypeOK, Position, [Next]_vars
  PROVE  TypeOK'
<1> USE CheckpointParameters
<1>1. ASSUME NEW t \in Task, Start(t) PROVE TypeOK'
  BY <1>1, StartStepFacts DEF Start, At, TypeOK
<1>2. ASSUME NEW t \in Task, Refuse(t) PROVE TypeOK'
  BY <1>2 DEF Refuse, TypeOK
<1>3. CASE AppendEffect
  <2>1. task \in Task /\ step \in Step /\ step \in Nat
    BY <1>3 DEF AppendEffect, TypeOK, Position, Step
  <2>2. effects' \in Seq([task_id : Task, step : Step])
    BY <1>3, <2>1 DEF AppendEffect, TypeOK
  <2>3. step' \in 0 .. TotalSteps /\ pc' \in {"appending", "saving", "ending"}
    BY <1>3, <2>1 DEF AppendEffect, At, TypeOK, Step
  <2> QED
    BY <1>3, <2>1, <2>2, <2>3 DEF AppendEffect, TypeOK
<1>4. CASE Save
  <2>1. task \in Task /\ step \in Step
    BY <1>4 DEF Save, TypeOK, Position, Step
  <2>2. saved' \in [task : Task, next_step : 1 .. TotalSteps]
    BY <1>4, <2>1 DEF Save, Step
  <2>3. step' \in 0 .. TotalSteps /\ pc' \in {"appending", "ending"}
    BY <1>4, <2>1 DEF Save, At, Step
  <2> QED
    BY <1>4, <2>1, <2>2, <2>3 DEF Save, TypeOK
<1>5. CASE End
  BY <1>5 DEF End, TypeOK
<1>6. CASE Crash
  <2>1. task \in Task /\ redo[task] \in [Step -> Nat]
    BY <1>6 DEF Crash, TypeOK
  <2>2. redo' \in [Task -> [Step -> Nat]]
    <3>1. [s \in Step |-> IF s \in Forgotten THEN redo[task][s] + 1 ELSE redo[task][s]]
            \in [Step -> Nat]
      BY <2>1
    <3> QED
      BY <1>6, <3>1 DEF Crash, TypeOK
  <2> QED
    BY <1>6, <2>2 DEF Crash, TypeOK
<1>7. CASE Damage
  BY <1>7 DEF Damage, TypeOK
<1>8. CASE UNCHANGED vars
  BY <1>8 DEF vars, TypeOK
<1> QED
  BY <1>1, <1>2, <1>3, <1>4, <1>5, <1>6, <1>7, <1>8 DEF Next, Work

\* The position of the worker agrees with its file after every step.
LEMMA PositionStep ==
  ASSUME TypeOK, Position, TypeOK', [Next]_vars
  PROVE  Position'
<1> USE CheckpointParameters
<1>1. ASSUME NEW t \in Task, Start(t) PROVE Position'
  BY <1>1, StartStepFacts DEF Start, At, StartStep, Loadable, TypeOK, Position, Intact
<1>2. ASSUME NEW t \in Task, Refuse(t) PROVE Position'
  BY <1>2 DEF Refuse, TypeOK, Position, Intact
<1>3. CASE AppendEffect
  BY <1>3 DEF AppendEffect, At, TypeOK, Position, Intact
<1>4. CASE Save
  <2>1. /\ saved' = [task |-> task, next_step |-> step + 1] /\ task \in Task /\ step \in Nat
        /\ mode = "checkpoint" /\ step < TotalSteps
        /\ saved'.task = task /\ saved'.next_step = step + 1
    BY <1>4 DEF Save, TypeOK, Position
  <2>2. mode' = "checkpoint" /\ task' = task /\ exits' = exits
    BY <1>4, <2>1 DEF Save
  <2>3. saved' # None /\ saved' # Damaged
    BY <2>1, NoneIsNothing
  <2> QED
    BY <1>4, <2>1, <2>2, <2>3 DEF Save, At, Position, Intact
<1>5. CASE End
  BY <1>5 DEF End, TypeOK, Position, Intact
<1>6. CASE Crash
  BY <1>6 DEF Crash, TypeOK, Position, Intact
<1>7. CASE Damage
  BY <1>7 DEF Damage, TypeOK, Position, Intact
<1>8. CASE UNCHANGED vars
  BY <1>8 DEF vars, TypeOK, Position, Intact
<1> QED
  BY <1>1, <1>2, <1>3, <1>4, <1>5, <1>6, <1>7, <1>8 DEF Next, Work

-----------------------------------------------------------------------------
(* Every effect is accounted for                                           *)

\* A step that appends nothing, kills nobody and changes nothing the program knows.
LEMMA AccountsKept ==
  ASSUME LogAccountedFor, effects' = effects, redo' = redo,
         saved # Damaged \/ task # None,
         \A t \in Task, s \in Step : Known(t, s)' <=> Known(t, s)
  PROVE  LogAccountedFor'
<1> SUFFICES ASSUME NEW t \in Task, NEW s \in Step PROVE Accounted(t, s)'
  BY DEF LogAccountedFor
<1>1. Accounted(t, s)
  BY DEF LogAccountedFor
<1> QED
  BY <1>1, SameLog DEF Accounted

\* The program knows neither more nor less when a worker starts where its checkpoint
\* says, or saves the step it has just done, or ends.
LEMMA StartKnows ==
  ASSUME TypeOK, Position, NEW t \in Task, Start(t)
  PROVE  /\ saved # Damaged
         /\ \A u \in Task, s \in Step : Known(u, s)' <=> Known(u, s)
<1> USE CheckpointParameters
<1>1. saved # Damaged
  BY DEF Start, Loadable, Position, TypeOK
<1> SUFFICES ASSUME NEW u \in Task, NEW s \in Step PROVE Known(u, s)' <=> Known(u, s)
  BY <1>1
<1>2. /\ task = None /\ task' = t /\ exits' = exits /\ mode' = mode /\ saved' = saved
      /\ step' = StartStep /\ pc' # "saving"
  BY DEF Start, At, TypeOK
<1>3. Known(u, s)' <=> \/ exits[u] = "done"
                       \/ u = t /\ s < StartStep
                       \/ mode = "checkpoint" /\ Intact /\ saved.task = u /\ s < saved.next_step
  BY <1>2 DEF Known, Intact
<1>4. Known(u, s) <=> \/ exits[u] = "done"
                      \/ mode = "checkpoint" /\ Intact /\ saved.task = u /\ s < saved.next_step
  BY <1>2 DEF Known
<1>5. CASE mode = "baseline" \/ saved = None
  BY <1>3, <1>4, <1>5, StepFacts DEF StartStep, Intact, Position
<1>6. CASE mode = "checkpoint" /\ saved # None
  <2>1. Intact /\ saved.task = t /\ StartStep = saved.next_step
    BY <1>1, <1>6 DEF Start, Loadable, Intact, StartStep
  <2> QED
    BY <1>3, <1>4, <1>6, <2>1
<1> QED
  BY <1>5, <1>6 DEF TypeOK

\* Saving a checkpoint makes nothing known that was not: it names the step that was
\* executed.
LEMMA SaveKnows ==
  ASSUME TypeOK, Position, Save
  PROVE  \A u \in Task, s \in Step : Known(u, s)' <=> Known(u, s)
<1> USE CheckpointParameters
<1> SUFFICES ASSUME NEW u \in Task, NEW s \in Step PROVE Known(u, s)' <=> Known(u, s)
  OBVIOUS
<1>1. /\ task \in Task /\ task' = task /\ exits' = exits /\ mode' = mode /\ mode = "checkpoint"
      /\ step' = step + 1 /\ pc = "saving" /\ pc' # "saving" /\ step \in Nat /\ s \in Nat
  BY StepFacts DEF Save, At, TypeOK, Position
<1>2. saved'.task = task /\ saved'.next_step = step + 1
  BY DEF Save
<1>3. saved' # None /\ saved' # Damaged
  BY <1>1, NoneIsNothing DEF Save
<1>4. Known(u, s)' <=> exits[u] = "done" \/ (u = task /\ s < step + 1)
  BY <1>1, <1>2, <1>3 DEF Known, Intact
<1>5. Known(u, s) <=> \/ exits[u] = "done" \/ (u = task /\ (s < step \/ s = step))
                      \/ Intact /\ saved.task = u /\ s < saved.next_step
  BY <1>1 DEF Known
<1>6. Intact => saved.task = task /\ saved.next_step = step
  BY <1>1 DEF Position, TypeOK
<1> QED
  BY <1>1, <1>4, <1>5, <1>6

\* Nor does ending the task, for all of its steps were executed.
LEMMA EndKnows ==
  ASSUME TypeOK, Position, End
  PROVE  \A u \in Task, s \in Step : Known(u, s)' <=> Known(u, s)
<1> USE CheckpointParameters
<1> SUFFICES ASSUME NEW u \in Task, NEW s \in Step PROVE Known(u, s)' <=> Known(u, s)
  OBVIOUS
<1>1. /\ task \in Task /\ task' = None /\ mode' = mode /\ saved' = saved
      /\ pc = "ending" /\ step = TotalSteps /\ s < TotalSteps
      /\ exits' = [exits EXCEPT ![task] = "done"]
  BY StepFacts DEF End, TypeOK, Position
<1>2. exits'[u] = "done" <=> u = task \/ exits[u] = "done"
  BY <1>1 DEF TypeOK
<1>3. Known(u, s)' <=> \/ u = task \/ exits[u] = "done"
                       \/ mode = "checkpoint" /\ Intact /\ saved.task = u /\ s < saved.next_step
  BY <1>1, <1>2 DEF Known, Intact
<1> QED
  BY <1>1, <1>3 DEF Known

\* An append makes known exactly what it adds.
LEMMA AppendAccounts ==
  ASSUME TypeOK, Position, LogAccountedFor, AppendEffect
  PROVE  LogAccountedFor'
<1> USE CheckpointParameters
<1>1. /\ task \in Task /\ task' = task /\ exits' = exits /\ mode' = mode /\ saved' = saved
      /\ redo' = redo /\ step \in Step /\ step \in Nat
      /\ effects' = Append(effects, Effect(task, step))
  BY DEF AppendEffect, TypeOK, Position, Step, Effect
<1>2. mode = "checkpoint" => step' = step /\ pc' = "saving"
  BY DEF AppendEffect
<1>3. mode = "baseline" => step' = step + 1 /\ pc' # "saving" /\ saved = None
  BY DEF AppendEffect, At, Position
<1>4. pc = "appending" /\ task # None /\ exits[task] # "done"
  BY <1>1 DEF AppendEffect, Position
<1> SUFFICES ASSUME NEW u \in Task, NEW s \in Step PROVE Accounted(u, s)'
  BY DEF LogAccountedFor
<1>5. Accounted(u, s) /\ redo[u][s] \in Nat
  BY <1>4 DEF LogAccountedFor, TypeOK
<1>6. /\ Count(u, s) \in Nat
      /\ Count(u, s)' = Count(u, s) + (IF u = task /\ s = step THEN 1 ELSE 0)
  BY <1>1, CountOfAppended
<1>7. Known(u, s)' <=> Known(u, s) \/ (u = task /\ s = step)
  <2>1. CASE mode = "checkpoint"
    BY <1>1, <1>2, <1>4, <2>1 DEF Known, Intact
  <2>2. CASE mode = "baseline"
    <3>1. Known(u, s)' <=> exits[u] = "done" \/ (u = task /\ s < step + 1)
      BY <1>1, <1>3, <2>2 DEF Known
    <3>2. Known(u, s) <=> exits[u] = "done" \/ (u = task /\ s < step)
      BY <1>1, <1>4, <2>2 DEF Known
    <3>3. s \in Nat
      BY StepFacts
    <3> QED
      BY <1>1, <3>1, <3>2, <3>3
  <2> QED
    BY <2>1, <2>2 DEF TypeOK
<1>8. ~ (u = task /\ s = step /\ Known(u, s))
  <2>1. Intact /\ mode = "checkpoint" => saved.next_step = step
    BY <1>4 DEF Position
  <2> QED
    BY <1>1, <1>4, <2>1 DEF Known
<1> QED
  BY <1>1, <1>5, <1>6, <1>7, <1>8 DEF Accounted

\* A death makes the program forget exactly the steps that redo counts.
LEMMA CrashAccounts ==
  ASSUME TypeOK, Position, LogAccountedFor, Crash
  PROVE  LogAccountedFor'
<1> USE CheckpointParameters
<1>1. /\ task \in Task /\ task' = None /\ exits' = exits /\ mode' = mode /\ saved' = saved
      /\ pc # "idle" /\ effects' = effects /\ task # None /\ exits[task] # "done"
      /\ step \in 0 .. TotalSteps
      /\ redo' = [redo EXCEPT ![task] =
                    [s \in Step |-> IF s \in Forgotten THEN @[s] + 1 ELSE @[s]]]
  BY DEF Crash, TypeOK, Position
<1> SUFFICES ASSUME saved # Damaged, NEW u \in Task, NEW s \in Step PROVE Accounted(u, s)'
  BY <1>1 DEF LogAccountedFor
<1>2. Accounted(u, s) /\ redo[u][s] \in Nat
  BY <1>1 DEF LogAccountedFor, TypeOK
<1>3. redo'[u][s] = redo[u][s] + (IF u = task /\ s \in Forgotten THEN 1 ELSE 0)
  <2>1. CASE u = task
    BY <1>1, <1>2, <2>1 DEF TypeOK
  <2>2. CASE u # task
    BY <1>1, <1>2, <2>2 DEF TypeOK
  <2> QED
    BY <2>1, <2>2
<1>4. Known(u, s)' <=> \/ exits[u] = "done"
                       \/ mode = "checkpoint" /\ Intact /\ saved.task = u /\ s < saved.next_step
  BY <1>1 DEF Known, Intact
<1>5. Known(u, s) <=> Known(u, s)' \/ (u = task /\ s \in Forgotten)
  <2>1. CASE mode = "baseline"
    BY <1>1, <1>4, <2>1 DEF Known, Forgotten, Position
  <2>2. CASE mode = "checkpoint"
    <3>1. s \in Forgotten <=> pc = "saving" /\ s = step
      BY <2>2 DEF Forgotten
    <3>2. /\ saved = None => step = 0
          /\ Intact => saved.task = task /\ saved.next_step = step
      BY <1>1, <2>2 DEF Position
    <3>3. s \in Nat
      BY StepFacts
    <3> QED
      BY <1>1, <1>4, <2>2, <3>1, <3>2, <3>3 DEF Known, Intact
  <2> QED
    BY <2>1, <2>2 DEF TypeOK
<1>6. ~ (Known(u, s)' /\ u = task /\ s \in Forgotten)
  BY <1>1, <1>4, StepFacts DEF Forgotten, Position, Intact
<1>7. Count(u, s)' = Count(u, s)
  BY <1>1, SameLog
<1> QED
  BY <1>2, <1>3, <1>5, <1>6, <1>7 DEF Accounted

\* Every effect in the log stays accounted for.
LEMMA AccountsStep ==
  ASSUME TypeOK, Position, LogAccountedFor, [Next]_vars
  PROVE  LogAccountedFor'
<1> USE CheckpointParameters
<1>1. ASSUME NEW t \in Task, Start(t) PROVE LogAccountedFor'
  BY <1>1, StartKnows, AccountsKept DEF Start
<1>2. ASSUME NEW t \in Task, Refuse(t) PROVE LogAccountedFor'
  <2>1. /\ exits' = [exits EXCEPT ![t] = "error"] /\ exits[t] # "done" /\ UNCHANGED redo
        /\ UNCHANGED <<mode, effects, saved, task, step, pc>>
    BY <1>2 DEF Refuse
  <2>2. \A u \in Task, s \in Step : Known(u, s)' <=> Known(u, s)
    BY <2>1 DEF Known, Intact, TypeOK
  <2>3. CASE saved # Damaged
    BY <2>1, <2>2, <2>3, AccountsKept
  <2>4. CASE saved = Damaged
    BY <1>2, <2>1, <2>4 DEF Refuse, TypeOK, LogAccountedFor
  <2> QED
    BY <2>3, <2>4
<1>3. CASE AppendEffect
  BY <1>3, AppendAccounts
<1>4. CASE Save
  BY <1>4, SaveKnows, AccountsKept DEF Save, TypeOK
<1>5. CASE End
  <2>1. /\ task # None /\ UNCHANGED <<effects, redo>>
    BY <1>5 DEF End, TypeOK
  <2> QED
    BY <1>5, <2>1, EndKnows, AccountsKept
<1>6. CASE Crash
  BY <1>6, CrashAccounts
<1>7. CASE Damage
  <2>1. /\ saved' = Damaged /\ saved # Damaged /\ Intact
        /\ UNCHANGED <<mode, effects, task, step, pc, exits, redo>>
    BY <1>7 DEF Damage, Intact
  <2>2. CASE task = None
    BY <2>1, <2>2 DEF LogAccountedFor
  <2>3. CASE task # None
    <3>1. \A u \in Task, s \in Step : Known(u, s)' <=> Known(u, s)
      BY <2>1, <2>3 DEF Known, Intact, Position
    <3> QED
      BY <2>1, <2>3, <3>1, AccountsKept
  <2> QED
    BY <2>2, <2>3
<1>8. CASE UNCHANGED vars
  <2>1. \A u \in Task, s \in Step : Known(u, s)' <=> Known(u, s)
    BY <1>8 DEF vars, Known, Intact
  <2>2. CASE saved # Damaged \/ task # None
    BY <1>8, <2>1, <2>2, AccountsKept DEF vars
  <2>3. CASE ~ (saved # Damaged \/ task # None)
    BY <1>8, <2>3 DEF vars, LogAccountedFor
  <2> QED
    BY <2>2, <2>3
<1> QED
  BY <1>1, <1>2, <1>3, <1>4, <1>5, <1>6, <1>7, <1>8 DEF Next, Work

-----------------------------------------------------------------------------
(* The log goes through the steps in order                                 *)

\* Where a task resumes is kept, or the task may not run any more.
LEMMA MeetsKept ==
  ASSUME NEW t \in Task, MeetsResume(t), effects' = effects,
         Resume(t)' = Resume(t), ~ Saving(t), ~ Saving(t)'
  PROVE  MeetsResume(t)'
<1>1. \A i : IsLast(i, t)' <=> IsLast(i, t)
  BY DEF IsLast
<1> QED
  BY <1>1 DEF MeetsResume

\* The steps that move nothing but the worker: it starts, ends or is refused.
LEMMA MeetsWhenMoved ==
  ASSUME TypeOK, Position, LogMeetsResume,
         \/ \E t \in Task : Start(t) \/ Refuse(t)
         \/ End \/ Damage \/ UNCHANGED vars
  PROVE  LogMeetsResume'
<1> USE CheckpointParameters
<1> SUFFICES ASSUME mode' = "checkpoint", NEW t \in Task, MayRun(t)'
             PROVE  MeetsResume(t)'
  BY DEF LogMeetsResume
<1>1. mode = "checkpoint" /\ effects' = effects
  BY DEF Start, Refuse, End, Damage, vars
<1>2. MayRun(t) /\ Resume(t)' = Resume(t) /\ (Saving(t)' <=> Saving(t))
  <2>1. ASSUME NEW u \in Task, Start(u)
        PROVE  MayRun(t) /\ Resume(t)' = Resume(t) /\ (Saving(t)' <=> Saving(t))
    BY <1>1, <2>1 DEF Start, At, MayRun, Resume, StartStep, Saving, Loadable, Intact, TypeOK
  <2>2. ASSUME NEW u \in Task, Refuse(u)
        PROVE  MayRun(t) /\ Resume(t)' = Resume(t) /\ (Saving(t)' <=> Saving(t))
    BY <1>1, <2>2 DEF Refuse, MayRun, Resume, StartStep, Saving, Intact
  <2>3. CASE End
    BY <1>1, <2>3 DEF End, MayRun, Resume, StartStep, Saving, Intact, TypeOK, Position
  <2>4. CASE Damage
    BY <1>1, <2>4 DEF Damage, MayRun, Resume, StartStep, Saving, Intact, TypeOK
  <2>5. CASE UNCHANGED vars
    BY <1>1, <2>5 DEF vars, MayRun, Resume, StartStep, Saving, Intact
  <2> QED
    BY <2>1, <2>2, <2>3, <2>4, <2>5
<1>3. \A i : IsLast(i, t)' <=> IsLast(i, t)
  BY <1>1 DEF IsLast
<1>4. MeetsResume(t)
  BY <1>1, <1>2 DEF LogMeetsResume
<1>5. ~ Saving(t) \/ step' = step
  BY DEF Saving, Start, Refuse, End, Damage, vars
<1> QED
  BY <1>1, <1>2, <1>3, <1>4, <1>5 DEF MeetsResume

\* A save moves the step at which its task resumes past the effect just logged.
LEMMA MeetsWhenSaved ==
  ASSUME TypeOK, Position, LogMeetsResume, Save
  PROVE  LogMeetsResume'
<1> USE CheckpointParameters
<1> SUFFICES ASSUME NEW t \in Task, MayRun(t)' PROVE MeetsResume(t)'
  BY DEF LogMeetsResume
<1>1. /\ task \in Task /\ task' = task /\ mode = "checkpoint" /\ effects' = effects
      /\ step' = step + 1 /\ pc = "saving" /\ pc' # "saving" /\ step \in Nat
      /\ saved' = [task |-> task, next_step |-> step + 1]
  BY DEF Save, At, TypeOK, Position
<1>2. saved' # None
  BY <1>1, NoneIsNothing
<1>3. t = task
  BY <1>1, <1>2 DEF MayRun
<1>4. MeetsResume(t) /\ Saving(t)
  BY <1>1, <1>3 DEF LogMeetsResume, MayRun, Saving
<1>5. Resume(t)' = step + 1 /\ ~ Saving(t)'
  BY <1>1, <1>3 DEF Resume, Saving
<1>6. \A i : IsLast(i, t)' <=> IsLast(i, t)
  BY <1>1 DEF IsLast
<1> QED
  BY <1>1, <1>4, <1>5, <1>6 DEF MeetsResume

\* A worker that dies before its save leaves its effect as that of the step to redo.
LEMMA MeetsWhenCrashed ==
  ASSUME TypeOK, Position, LogMeetsResume, Crash
  PROVE  LogMeetsResume'
<1> USE CheckpointParameters
<1> SUFFICES ASSUME mode' = "checkpoint", NEW t \in Task, MayRun(t)'
             PROVE  MeetsResume(t)'
  BY DEF LogMeetsResume
<1>1. /\ mode = "checkpoint" /\ effects' = effects /\ task \in Task /\ task' = None
      /\ saved' = saved /\ pc' = "idle" /\ step \in Nat
  BY DEF Crash, TypeOK, Position
<1>2. /\ saved = None => step = 0
      /\ Intact => saved.task = task /\ saved.next_step = step
  BY <1>1 DEF Position
<1>3. saved = None \/ (Intact /\ saved.task = t)
  BY <1>1 DEF MayRun, Intact
<1>4. MeetsResume(t)
  BY <1>1, <1>2, <1>3 DEF LogMeetsResume, MayRun
<1>5. ~ Saving(t)' /\ Resume(t)' = Resume(t)
  BY <1>1, <1>2, <1>3 DEF Saving, Resume, StartStep, Intact
<1>6. \A i : IsLast(i, t)' <=> IsLast(i, t)
  BY <1>1 DEF IsLast
<1>7. Saving(t) => step = Resume(t)
  BY DEF Saving, Resume
<1> QED
  BY <1>1, <1>4, <1>5, <1>6, <1>7 DEF MeetsResume

\* The new effect is the last of its task, and those of the other tasks are not moved.
LEMMA LastOfAppended ==
  ASSUME TypeOK, task \in Task, step \in Step,
         effects' = Append(effects, Effect(task, step)), task' = task
  PROVE  LET n == Len(effects) + 1 IN
         /\ \A i : IsLast(i, task)' <=> i = n
         /\ effects'[n] = Effect(task, step)
         /\ \A t \in Task \ {task} :
              /\ \A i : IsLast(i, t)' <=> IsLast(i, t)
              /\ \A i : IsLast(i, t) => effects'[i] = effects[i]
<1> DEFINE n == Len(effects) + 1
<1>1. /\ Len(effects) \in Nat /\ DOMAIN effects = 1 .. Len(effects)
      /\ DOMAIN effects' = DOMAIN effects \cup {n} /\ n \notin DOMAIN effects
      /\ effects'[n] = Effect(task, step)
      /\ \A i \in DOMAIN effects : effects'[i] = effects[i]
  BY AppendFacts DEF TypeOK, Effect
<1>2. effects'[n].task_id = task
  BY <1>1 DEF Effect
<1>3. \A i : IsLast(i, task)' <=> i = n
  <2>1. n \in DOMAIN effects' /\ \A j \in DOMAIN effects' : j \in Nat /\ j <= n
    BY <1>1
  <2> HIDE DEF n
  <2>2. ASSUME NEW i, IsLast(i, task)' PROVE i = n
    <3>1. i \in DOMAIN effects' /\ n <= i
      BY <1>2, <2>1, <2>2 DEF IsLast
    <3> QED
      BY <2>1, <3>1
  <2>3. ASSUME NEW i, i = n PROVE IsLast(i, task)'
    BY <1>2, <2>1, <2>3 DEF IsLast
  <2> QED
    BY <2>2, <2>3
<1>4. ASSUME NEW t \in Task \ {task}, NEW i
      PROVE  (IsLast(i, t)' <=> IsLast(i, t)) /\ (IsLast(i, t) => effects'[i] = effects[i])
  BY <1>1, <1>2, <1>4 DEF IsLast
<1> QED
  BY <1>1, <1>3, <1>4

\* An append in the checkpoint mode leaves its effect to be saved.
LEMMA MeetsWhenAppended ==
  ASSUME TypeOK, Position, LogMeetsResume, AppendEffect
  PROVE  LogMeetsResume'
<1> USE CheckpointParameters
<1> SUFFICES ASSUME mode' = "checkpoint", NEW t \in Task, MayRun(t)'
             PROVE  MeetsResume(t)'
  BY DEF LogMeetsResume
<1>1. /\ mode = "checkpoint" /\ task \in Task /\ task' = task /\ step' = step /\ saved' = saved
      /\ step \in Step /\ step \in Nat /\ pc = "appending" /\ pc' = "saving"
      /\ effects' = Append(effects, Effect(task, step))
  BY DEF AppendEffect, TypeOK, Position, Step, Effect
<1>2. CASE t = task
  BY <1>1, <1>2, LastOfAppended DEF MeetsResume, Saving, Effect, IsLast
<1>3. CASE t # task
  <2>1. MeetsResume(t)
    BY <1>1, <1>3 DEF LogMeetsResume, MayRun, Intact
  <2>2. ~ Saving(t) /\ ~ Saving(t)' /\ Resume(t)' = Resume(t)
    BY <1>1, <1>3 DEF Saving, Resume, StartStep
  <2>3. /\ \A i : IsLast(i, t)' <=> IsLast(i, t)
        /\ \A i : IsLast(i, t) => effects'[i] = effects[i] /\ i \in DOMAIN effects
    BY <1>1, <1>3, LastOfAppended DEF IsLast
  <2>4. (\A i \in DOMAIN effects' : effects'[i].task_id # t) =>
          \A i \in DOMAIN effects : effects[i].task_id # t
    BY <1>1, AppendFacts DEF TypeOK, Effect
  <2> QED
    BY <2>1, <2>2, <2>3, <2>4 DEF MeetsResume, IsLast
<1> QED
  BY <1>2, <1>3

\* Where each task resumes agrees with its last effect after every step.
LEMMA MeetsStep ==
  ASSUME TypeOK, Position, LogMeetsResume, [Next]_vars
  PROVE  LogMeetsResume'
  BY MeetsWhenMoved, MeetsWhenSaved, MeetsWhenCrashed, MeetsWhenAppended DEF Next, Work

\* A step that does not append leaves the log in order.
LEMMA OrderKept ==
  ASSUME ResumesInOrder, effects' = effects, mode' = mode
  PROVE  ResumesInOrder'
<1>1. \A i : Before(i)' = Before(i)
  BY DEF Before
<1> QED
  BY <1>1 DEF ResumesInOrder

\* An appended effect is of the step after the last effect of its task, or repeats it.
LEMMA OrderWhenAppended ==
  ASSUME TypeOK, Position, LogMeetsResume, ResumesInOrder, AppendEffect
  PROVE  ResumesInOrder'
<1> USE CheckpointParameters
<1> PICK n : n = Len(effects) + 1
  OBVIOUS
<1> SUFFICES ASSUME mode' = "checkpoint" PROVE ResumesInOrder'
  BY DEF ResumesInOrder
<1>1. /\ mode = "checkpoint" /\ task \in Task /\ step \in Step /\ step \in Nat
      /\ pc = "appending" /\ effects' = Append(effects, Effect(task, step))
  BY DEF AppendEffect, TypeOK, Position, Step, Effect
<1>2. /\ Len(effects) \in Nat /\ DOMAIN effects = 1 .. Len(effects)
      /\ DOMAIN effects' = DOMAIN effects \cup {n} /\ n \notin DOMAIN effects
      /\ effects'[n] = Effect(task, step)
      /\ \A i \in DOMAIN effects : effects'[i] = effects[i]
  BY <1>1, AppendFacts DEF TypeOK, Effect
<1>3. \A i \in DOMAIN effects : Before(i)' = Before(i) /\ Before(i) \subseteq DOMAIN effects
  BY <1>2 DEF Before
<1>4. Before(n)' = {j \in DOMAIN effects : effects[j].task_id = task}
  <2>1. 1 .. n - 1 = DOMAIN effects
    BY <1>2
  <2>2. effects'[n].task_id = task
    BY <1>2 DEF Effect
  <2> QED
    BY <1>2, <2>1, <2>2 DEF Before
<1>5. MeetsResume(task) /\ Resume(task) = step /\ ~ Saving(task)
  BY <1>1 DEF LogMeetsResume, MayRun, Resume, Saving
<1>6. effects'[n].step = step
  BY <1>2 DEF Effect
<1>7. Before(n)' = {} => effects'[n].step = 0
  BY <1>4, <1>5, <1>6 DEF MeetsResume
<1>8. ASSUME NEW j \in Before(n)', \A k \in Before(n)' : k <= j
      PROVE  effects'[n].step - effects'[j].step \in {0, 1}
  <2>1. IsLast(j, task)
    BY <1>4, <1>8 DEF IsLast
  <2>2. effects[j].step \in {step - 1, step}
    BY <1>5, <2>1 DEF MeetsResume, IsLast
  <2>3. effects'[j] = effects[j]
    BY <1>2, <1>4
  <2> QED
    BY <1>1, <1>6, <2>2, <2>3
<1>9. ASSUME NEW i \in DOMAIN effects
      PROVE  /\ Before(i)' = {} => effects'[i].step = 0
             /\ \A j \in Before(i)' :
                  (\A k \in Before(i)' : k <= j) => effects'[i].step - effects'[j].step \in {0, 1}
  <2>1. \A j \in Before(i) : effects'[j] = effects[j]
    BY <1>2, <1>3
  <2> QED
    BY <1>1, <1>2, <1>3, <2>1 DEF ResumesInOrder
<1> QED
  BY <1>2, <1>7, <1>8, <1>9 DEF ResumesInOrder

\* Steps resume in order: only appending an effect could break it.
LEMMA OrderStep ==
  ASSUME TypeOK, Position, LogMeetsResume, ResumesInOrder, [Next]_vars
  PROVE  ResumesInOrder'
<1>1. CASE AppendEffect
  BY <1>1, OrderWhenAppended
<1>2. CASE ~ AppendEffect
  BY <1>2, OrderKept DEF Next, Work, Start, Refuse, Save, End, Crash, Damage, vars
<1> QED
  BY <1>1, <1>2

-----------------------------------------------------------------------------
(* The theorems                                                            *)

\* The files are empty and nothing was done.
LEMMA InitIInv == Init => IInv
<1> SUFFICES ASSUME Init PROVE IInv
  OBVIOUS
<1> USE CheckpointParameters DEF Init
<1>1. TypeOK /\ Position
  BY DEF TypeOK, Position
<1>2. LogAccountedFor
  <2> SUFFICES ASSUME NEW t \in Task, NEW s \in Step PROVE Accounted(t, s)
    BY DEF LogAccountedFor
  <2>1. {i \in DOMAIN effects : effects[i] = [task_id |-> t, step |-> s]} = {}
    OBVIOUS
  <2>2. Count(t, s) = 0
    BY <2>1, FS_EmptySet DEF Count
  <2>3. ~ Known(t, s) /\ redo[t][s] = 0
    BY DEF Known, Intact
  <2> QED
    BY <2>2, <2>3 DEF Accounted
<1>3. LogMeetsResume
  BY DEF LogMeetsResume, MeetsResume, IsLast, Saving, Resume, StartStep
<1>4. ResumesInOrder
  BY DEF ResumesInOrder
<1> QED
  BY <1>1, <1>2, <1>3, <1>4 DEF IInv

\* The strengthening is inductive: the log is accounted for and in order at every
\* moment of every history of starts, deaths, saves and damages.
THEOREM InductiveInvariant == Spec => []IInv
<1>1. IInv /\ [Next]_vars => IInv'
  BY TypeStep, PositionStep, AccountsStep, MeetsStep, OrderStep DEF IInv
<1> QED
  BY <1>1, InitIInv, PTL DEF Spec

\* Each effect is in the log once, and once more for every death that made the
\* program forget it (worker, lab04.py).
THEOREM LogIsAccountedFor == Spec => []CheckpointInv
<1>1. IInv => CheckpointInv
  BY DEF IInv, CheckpointInv, EffectsAccountedFor, LogAccountedFor, Accounted
<1> QED
  BY <1>1, InductiveInvariant, PTL

\* A checkpointed task goes through its steps in order, however often it dies
\* ("restart resumes from the next uncommitted step").
THEOREM TasksResumeInOrder == Spec => []ResumesInOrder
<1>1. IInv => ResumesInOrder
  BY DEF IInv
<1> QED
  BY <1>1, InductiveInvariant, PTL

-----------------------------------------------------------------------------
(* A checkpoint belongs to the task that saved it                          *)

\* An intact file is its owner's, and so is the worker that runs beside the file; without
\* a file nobody owns it.
Ownership ==
  /\ saved = None => owner = None
  /\ Intact => saved.task = owner
  /\ mode = "checkpoint" /\ task # None => owner \in {None, task}

\* A worker is only started by the owner, and only saves its own task's checkpoint.
LEMMA OwnershipStep ==
  ASSUME TypeOK, Ownership, [Next]_vars
  PROVE  Ownership'
<1> USE CheckpointParameters
<1>1. ASSUME NEW t \in Task, Start(t) PROVE Ownership'
  BY <1>1 DEF Start, Loadable, Ownership, Intact
<1>2. ASSUME NEW t \in Task, Refuse(t) PROVE Ownership'
  BY <1>2 DEF Refuse, Ownership, Intact
<1>3. CASE Save
  <2>1. task \in Task /\ step + 1 \in Nat /\ saved' = [task |-> task, next_step |-> step + 1]
    BY <1>3 DEF Save, TypeOK
  <2>2. saved' # None /\ saved'.task = task
    BY <2>1, NoneIsNothing
  <2> QED
    BY <1>3, <2>2 DEF Save, Ownership, Intact
<1>4. CASE AppendEffect \/ End \/ Crash
  BY <1>4 DEF AppendEffect, End, Crash, Ownership, Intact
<1>5. CASE Damage
  BY <1>5 DEF Damage, Ownership, Intact
<1>6. CASE UNCHANGED vars
  BY <1>6 DEF vars, Ownership, Intact
<1> QED
  BY <1>1, <1>2, <1>3, <1>4, <1>5, <1>6 DEF Next, Work

\* Only the owner's workers replace a checkpoint or add an effect beside it, and with
\* a damaged one and no worker nothing happens any more (CheckpointStore.load, worker).
THEOREM ForeignIsUntouched == Spec => ForeignUntouched
<1> DEFINE Owned == mode = "checkpoint" /\ (effects' # effects \/ saved' # saved) =>
                      Damage \/ owner \in {None, task}
           Stuck == saved = Damaged /\ pc = "idle"
<1>1. Init => Ownership
  BY CheckpointParameters DEF Init, Ownership, Intact
<1>2. Spec => []Ownership
  <2>1. IInv /\ Ownership /\ [Next]_vars => Ownership'
    BY OwnershipStep DEF IInv
  <2> QED
    BY <1>1, <2>1, InductiveInvariant, PTL DEF Spec
<1>3. IInv /\ Ownership /\ [Next]_vars => [Owned]_vars
  <2> SUFFICES ASSUME TypeOK, Ownership, Next, mode = "checkpoint", ~ Damage,
                      effects' # effects \/ saved' # saved
               PROVE  owner \in {None, task}
    BY DEF IInv
  <2>1. AppendEffect \/ Save
    BY DEF Next, Work, Start, Refuse, End, Crash
  <2>2. task # None
    BY <2>1 DEF AppendEffect, Save, TypeOK
  <2> QED
    BY <2>2 DEF Ownership
<1>4. IInv /\ Stuck /\ [Next]_vars => Stuck'
  <2> SUFFICES ASSUME TypeOK, Position, Stuck, [Next]_vars PROVE Stuck'
    BY DEF IInv
  <2>1. mode = "checkpoint"
    BY CheckpointParameters DEF Position, TypeOK
  <2>2. ~ Work /\ ~ Crash /\ ~ Damage
    BY DEF Work, AppendEffect, Save, End, Crash, Damage
  <2>3. ASSUME NEW t \in Task PROVE ~ Start(t)
    BY <2>1 DEF Start, Loadable
  <2>4. CASE \E t \in Task : Refuse(t)
    BY <2>4 DEF Refuse
  <2>5. CASE UNCHANGED vars
    BY <2>5 DEF vars
  <2> QED
    BY <2>2, <2>3, <2>4, <2>5 DEF Next
<1>5. Spec => [][Owned]_vars
  BY <1>2, <1>3, InductiveInvariant, PTL DEF Spec
<1>6. Spec => [](Stuck => []Stuck)
  BY <1>4, InductiveInvariant, PTL DEF Spec
<1> QED
  BY <1>5, <1>6 DEF ForeignUntouched
=============================================================================
