----------------------------- MODULE DagScheduler -----------------------------
(***************************************************************************)
(* The executions of lab10.py and its ExecutionRecorder.  In the mode      *)
(* "bounded", execute_bounded_dag, a main thread submits ready tasks to a  *)
(* pool of threads and waits for the first to finish; the threads run the  *)
(* tasks and record their outcome.  "sequential" and "naive" are the       *)
(* baseline and the planted scheduler that ignores dependencies.           *)
(*                                                                         *)
(* The threads change the recorder under its lock; the main thread reads   *)
(* `failed` and `completed` without it, one pending task after another,    *)
(* while the threads go on.  One membership test is atomic (the            *)
(* interpreter lock) and the sets only grow, so reading all dependencies   *)
(* of one task is one action and reading the next task another.            *)
(***************************************************************************)
EXTENDS Integers, Sequences, FiniteSets

CONSTANTS
  Modes,        \* the modes to run
  Task,         \* task ids; their order as numbers is the order sorted() gives
  MaxWorkers,   \* max_workers
  Graph,        \* the dependency graphs to run in each mode, cyclic ones included
  FailSet       \* the sets of failing tasks to run

ASSUME DagParameters ==
  /\ Modes \subseteq {"bounded", "sequential", "naive"}
  /\ Task \subseteq Nat /\ IsFiniteSet(Task)
  /\ MaxWorkers \in Nat \ {0}
  /\ Graph \in [Modes -> SUBSET [Task -> SUBSET Task]]
  /\ FailSet \subseteq SUBSET Task

VARIABLES
  mode,         \* which execution this is, fixed
  deps, fails,  \* the tasks: dependencies and Task.fail
  \* the main thread
  phase,        \* the scans "blocked" and "ready", "in turn" (other modes), "done"
  todo,         \* the pending tasks the scan, or the execution in turn, has not reached
  pending, ready,
  running,      \* the tasks of the futures not collected yet
  \* the pool: stage[t] of the submitted call recorder.run(t)
  stage,
  \* the recorder
  completed, failed, started, violations,
  busy,         \* recorder.running
  max_concurrency

tasks == <<mode, deps, fails>>
main == <<phase, todo, pending, ready, running>>
recorder == <<completed, failed, started, violations, busy, max_concurrency>>
vars == <<tasks, main, stage, recorder>>

FirstPhase == IF mode = "bounded" THEN "blocked" ELSE "in turn"

Init ==
  /\ mode \in Modes /\ deps \in Graph[mode] /\ fails \in FailSet
  /\ phase = FirstPhase /\ todo = Task /\ pending = Task /\ ready = {} /\ running = {}
  /\ stage = [t \in Task |-> "none"]
  /\ completed = {} /\ failed = {} /\ started = <<>> /\ violations = <<>>
  /\ busy = 0 /\ max_concurrency = 0

-----------------------------------------------------------------------------
(* The main thread                                                         *)

\* Mutant of Runnable: one completed dependency is enough.
Runnable_Any(t) == deps[t] = {} \/ deps[t] \cap completed # {}

Runnable(t) == deps[t] \subseteq completed

\* pending -= blocked_by_failure, one task of the set at a time.
ScanBlocked(t) ==
  /\ phase = "blocked" /\ t \in todo
  /\ todo' = todo \ {t}
  /\ pending' = IF deps[t] \cap failed # {} THEN pending \ {t} ELSE pending
  /\ UNCHANGED <<tasks, phase, ready, running, stage, recorder>>

BlockedScanned ==
  /\ phase = "blocked" /\ todo = {}
  /\ phase' = "ready" /\ todo' = pending /\ ready' = {}
  /\ UNCHANGED <<tasks, pending, running, stage, recorder>>

ScanReady(t) ==
  /\ phase = "ready" /\ t \in todo
  /\ todo' = todo \ {t}
  /\ ready' = IF Runnable(t) THEN ready \cup {t} ELSE ready
  /\ UNCHANGED <<tasks, phase, pending, running, stage, recorder>>

CanSubmit == ready # {} /\ Cardinality(running) < MaxWorkers

\* The least ready task is handed to the pool.
Submit(t) ==
  /\ phase = "ready" /\ todo = {} /\ CanSubmit
  /\ t \in ready /\ \A u \in ready : t <= u
  /\ ready' = ready \ {t} /\ pending' = pending \ {t} /\ running' = running \cup {t}
  /\ stage' = [stage EXCEPT ![t] = "queued"]
  /\ UNCHANGED <<tasks, phase, todo, recorder>>

\* Nothing can be submitted and nothing runs: the loop is left, whatever is pending.
Break ==
  /\ phase = "ready" /\ todo = {} /\ ~ CanSubmit /\ running = {}
  /\ phase' = "done"
  /\ UNCHANGED <<tasks, todo, pending, ready, running, stage, recorder>>

\* The next iteration of the loop, or its end.
Loop ==
  IF pending = {} /\ running' = {}
  THEN phase' = "done" /\ UNCHANGED todo
  ELSE phase' = "blocked" /\ todo' = pending

Resolved == {t \in running : stage[t] = "resolved"}

\* Mutant of Collect: the loop ends when nothing is left to submit.
Collect_LeavesRunning ==
  /\ phase = "ready" /\ todo = {} /\ ~ CanSubmit
  /\ Resolved # {}
  /\ running' = running \ Resolved
  /\ IF pending = {} THEN phase' = "done" /\ UNCHANGED todo
                     ELSE phase' = "blocked" /\ todo' = pending
  /\ UNCHANGED <<tasks, pending, ready, stage, recorder>>

\* Mutant of Collect: a failed future is never taken out of `running`.
Collect_Successes ==
  /\ phase = "ready" /\ todo = {} /\ ~ CanSubmit
  /\ Resolved # {}
  /\ running' = running \ (Resolved \cap completed)
  /\ Loop
  /\ UNCHANGED <<tasks, pending, ready, stage, recorder>>

\* wait(..., FIRST_COMPLETED) returns every future that is done by then; their
\* failures are swallowed.
Collect ==
  /\ phase = "ready" /\ todo = {} /\ ~ CanSubmit
  /\ Resolved # {}
  /\ running' = running \ Resolved
  /\ Loop
  /\ UNCHANGED <<tasks, pending, ready, stage, recorder>>

-----------------------------------------------------------------------------
(* The main thread of the other executions, which go through the tasks in  *)
(* their order                                                             *)

\* The task whose turn it is.
InTurn(t) == phase = "in turn" /\ t \in todo /\ \A u \in todo : t <= u

\* execute_sequential passes over a task with a failed dependency.
PassOver(t) ==
  /\ mode = "sequential" /\ InTurn(t) /\ running = {}
  /\ deps[t] \cap failed # {}
  /\ todo' = todo \ {t}
  /\ UNCHANGED <<tasks, phase, pending, ready, running, stage, recorder>>

\* It runs another itself; execute_naive_parallel_all gives every task to the pool.
Launch(t) ==
  /\ InTurn(t)
  /\ mode = "sequential" => running = {} /\ deps[t] \cap failed = {}
  /\ todo' = todo \ {t} /\ running' = running \cup {t}
  /\ stage' = [stage EXCEPT ![t] = "queued"]
  /\ UNCHANGED <<tasks, phase, pending, ready, recorder>>

\* A call of recorder.run, or future.result(), returns; its failure is swallowed.
Returned(t) ==
  /\ phase = "in turn" /\ t \in running /\ stage[t] = "resolved"
  /\ mode = "naive" => todo = {} /\ \A u \in running : t <= u
  /\ running' = running \ {t}
  /\ UNCHANGED <<tasks, phase, todo, pending, ready, stage, recorder>>

AllReturned ==
  /\ phase = "in turn" /\ todo = {} /\ running = {}
  /\ phase' = "done"
  /\ UNCHANGED <<tasks, todo, pending, ready, running, stage, recorder>>

Main ==
  \/ \E t \in Task : ScanBlocked(t) \/ ScanReady(t) \/ Submit(t)
  \/ BlockedScanned \/ Break \/ Collect
  \/ \E t \in Task : PassOver(t) \/ Launch(t) \/ Returned(t)
  \/ AllReturned

-----------------------------------------------------------------------------
(* A pool thread in ExecutionRecorder.run(t)                               *)

Threads == {t \in Task : stage[t] \in {"sleeping", "recorded", "left"}}

\* Larger(a, b): Python's max of two numbers.
Larger(a, b) == IF a >= b THEN a ELSE b

\* How many calls of the recorder can be under way: the pool's max_workers, or the
\* main thread's one.
Workers == CASE mode = "bounded" -> MaxWorkers [] mode = "naive" -> 3 [] OTHER -> 1

\* A free thread takes the call and enters the first locked block.
Begin(t) ==
  /\ stage[t] = "queued" /\ Cardinality(Threads) < Workers
  /\ violations' = IF deps[t] \subseteq completed THEN violations ELSE Append(violations, t)
  /\ busy' = busy + 1
  /\ max_concurrency' = Larger(max_concurrency, busy')
  /\ started' = Append(started, t)
  /\ stage' = [stage EXCEPT ![t] = "sleeping"]
  /\ UNCHANGED <<tasks, main, completed, failed>>

\* The task's work is over and its outcome recorded.
Finish(t) ==
  /\ stage[t] = "sleeping"
  /\ IF t \in fails
     THEN failed' = failed \cup {t} /\ UNCHANGED completed
     ELSE completed' = completed \cup {t} /\ UNCHANGED failed
  /\ stage' = [stage EXCEPT ![t] = "recorded"]
  /\ UNCHANGED <<tasks, main, started, violations, busy, max_concurrency>>

\* Mutant of Leave: a failing task is not counted out.
Leave_NotFailed(t) ==
  /\ stage[t] = "recorded"
  /\ busy' = IF t \in failed THEN busy ELSE busy - 1
  /\ stage' = [stage EXCEPT ![t] = "left"]
  /\ UNCHANGED <<tasks, main, completed, failed, started, violations, max_concurrency>>

\* The `finally` block.
Leave(t) ==
  /\ stage[t] = "recorded"
  /\ busy' = busy - 1
  /\ stage' = [stage EXCEPT ![t] = "left"]
  /\ UNCHANGED <<tasks, main, completed, failed, started, violations, max_concurrency>>

\* The pool sets the future's result or exception and wakes the main thread.
Resolve(t) ==
  /\ stage[t] = "left"
  /\ stage' = [stage EXCEPT ![t] = "resolved"]
  /\ UNCHANGED <<tasks, main, recorder>>

Thread(t) == Begin(t) \/ Finish(t) \/ Leave(t) \/ Resolve(t)

Next == Main \/ \E t \in Task : Thread(t)

Spec == Init /\ [][Next]_vars

\* Threads are scheduled, and a task's work (a sleep) takes finite time.
FairSpec == Spec /\ WF_vars(Main) /\ \A t \in Task : WF_vars(Thread(t))

-----------------------------------------------------------------------------
(* Properties                                                              *)

TypeOK ==
  /\ mode \in Modes /\ deps \in [Task -> SUBSET Task] /\ fails \subseteq Task
  /\ phase \in {"blocked", "ready", "in turn", "done"}
  /\ todo \subseteq pending /\ pending \subseteq Task
  /\ ready \subseteq Task /\ running \subseteq Task
  /\ stage \in [Task -> {"none", "queued", "sleeping", "recorded", "left", "resolved"}]
  /\ completed \subseteq Task \ fails /\ failed \subseteq fails
  /\ started \in Seq(Task) /\ violations \in Seq(Task)
  /\ busy \in Nat /\ max_concurrency \in Nat

StartedSet == {started[i] : i \in DOMAIN started}

\* The bounded execution never shows the recorder a dependency violation; in each
\* its concurrency counter is exact and within bounds, although it is decremented
\* later than the outcome is recorded and the main thread may act in between.
WithinBounds ==
  /\ mode = "bounded" => violations = <<>>
  /\ busy = Cardinality({t \in Task : stage[t] \in {"sleeping", "recorded"}})
  /\ max_concurrency <= Workers

\* The well-formed state of the scheduler and its recorder.
SchedulerInv == TypeOK /\ WithinBounds

\* The tasks that do not fail and depend, directly or not, on none that fails,
\* nor on themselves: the least set with each task that does not fail and depends on
\* tasks of the set only.
Closed(S) == \A t \in Task \ fails : deps[t] \subseteq S => t \in S
Completable == {t \in Task : \A S \in SUBSET Task : Closed(S) => t \in S}

\* "When A fails, B may still complete because it is independent, but C must never start"
\* (labs/10-concurrent-dag/RESULT.md:17), and the recorder's `dependency_violations` are a
\* sufficient check of that for every graph: whichever way the tasks were executed, no task ran twice and none is running, and if no
\* violation was recorded, then each task that can complete has, each failing task
\* that could start has failed, and all others were never started.
FinalOutcome ==
  phase = "done" =>
    /\ running = {} /\ busy = 0
    /\ Len(started) = Cardinality(StartedSet)
    /\ violations = <<>> =>
         /\ completed = Completable
         /\ failed = {t \in fails : deps[t] \subseteq Completable}
         /\ StartedSet = completed \cup failed

\* Each execution ends for every graph, cyclic ones included, and every failure.
Terminates == <>(phase = "done")

\* The bounded execution is as promised; the others promise nothing.
Visible(S) == IF mode = "bounded" THEN S ELSE {}
Promise == INSTANCE TaskGraph WITH
  started <- Visible(StartedSet), completed <- Visible(completed), failed <- Visible(failed)
GraphSpec == Promise!Spec
=============================================================================
