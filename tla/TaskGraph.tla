------------------------------- MODULE TaskGraph -------------------------------
(***************************************************************************)
(* What lab 10 promises of the execution of a dependency graph: a task     *)
(* starts once, only after all its dependencies completed successfully,    *)
(* and at most MaxWorkers tasks are under way at a time.  How ready tasks  *)
(* are found, queued and awaited is left to the scheduler.                 *)
(***************************************************************************)
EXTENDS Naturals, FiniteSets

CONSTANTS Task, MaxWorkers

VARIABLES
  deps,         \* deps[t]: the tasks t depends on, fixed
  fails,        \* the tasks that fail when run, fixed
  started, completed, failed

vars == <<deps, fails, started, completed, failed>>

Init ==
  /\ deps \in [Task -> SUBSET Task] /\ fails \in SUBSET Task
  /\ started = {} /\ completed = {} /\ failed = {}

UnderWay == started \ (completed \cup failed)

Start(t) ==
  /\ t \notin started
  /\ deps[t] \subseteq completed
  /\ Cardinality(UnderWay) < MaxWorkers
  /\ started' = started \cup {t}
  /\ UNCHANGED <<deps, fails, completed, failed>>

Finish(t) ==
  /\ t \in UnderWay
  /\ IF t \in fails
     THEN failed' = failed \cup {t} /\ UNCHANGED completed
     ELSE completed' = completed \cup {t} /\ UNCHANGED failed
  /\ UNCHANGED <<deps, fails, started>>

Next == \E t \in Task : Start(t) \/ Finish(t)

Spec == Init /\ [][Next]_vars
=============================================================================
