---------------------------- MODULE MCDagScheduler ----------------------------
(***************************************************************************)
(* Values for the runs of DagScheduler.                                    *)
(***************************************************************************)
EXTENDS DagScheduler

Three == 1 .. 3
AllModes == {"bounded", "sequential", "naive"}

\* Every graph for the executions that read it; those whose dependencies precede
\* their tasks, the lab's among them, for the one that ignores it.
AllGraphs ==
  [m \in Modes |->
     IF m = "naive" THEN {d \in [Task -> SUBSET Task] : \A t \in Task : d[t] \subseteq 1 .. t - 1}
                    ELSE [Task -> SUBSET Task]]
AnyFailures == SUBSET Task
=============================================================================
