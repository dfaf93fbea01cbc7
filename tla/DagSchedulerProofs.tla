-------------------------- MODULE DagSchedulerProofs --------------------------
(***************************************************************************)
(* Proofs about DagScheduler, for every finite set of tasks, every graph,  *)
(* cyclic ones included, every set of failing tasks and any number of      *)
(* workers: the recorder's counter is exact and within bounds, the bounded *)
(* execution keeps the promise of TaskGraph, an execution that recorded no *)
(* violation ends with exactly what can complete completed, and the        *)
(* reports of two executions differ at most in the order of the starts and *)
(* in the concurrency that was measured.                                   *)
(***************************************************************************)
EXTENDS DagFingerprint, FiniteSetTheorems, TLAPS

-----------------------------------------------------------------------------
(* The inductive invariant                                                 *)

\* The calls inside the recorder's two locked blocks.
Busy == {t \in Task : stage[t] \in {"sleeping", "recorded"}}

\* The recorder's sets and the main thread's futures say where each call is.
StagesAgree ==
  /\ StartedSet = {t \in Task : stage[t] \notin {"none", "queued"}}
  /\ completed \cup failed = {t \in Task : stage[t] \in {"recorded", "left", "resolved"}}
  /\ Len(started) = Cardinality(StartedSet)
  /\ \A t \in Task : stage[t] \notin {"none", "resolved"} => t \in running
  /\ phase = "done" => running = {}

\* In the bounded execution whatever was found ready stays runnable, a pending task
\* was not submitted, and a task that is neither was blocked by a failure.  While
\* nothing runs, a task the scan passed over is still not runnable.
BoundedInv ==
  mode = "bounded" =>
    /\ phase \in {"blocked", "ready", "done"}
    /\ \A t \in ready : Runnable(t)
    /\ \A t \in Task : stage[t] # "none" => Runnable(t)
    /\ \A t \in pending : stage[t] = "none"
    /\ phase = "ready" => ready \subseteq pending
    /\ \A t \in Task \ pending : stage[t] # "none" \/ deps[t] \cap failed # {}
    /\ phase = "ready" /\ running = {} => \A t \in pending \ (todo \cup ready) : ~ Runnable(t)
    /\ phase = "done" => \A t \in pending : ~ Runnable(t)

\* The other executions reach each task once.
InTurnInv ==
  mode # "bounded" => phase \in {"in turn", "done"} /\ \A t \in todo : stage[t] = "none"

IInv == TypeOK /\ WithinBounds /\ StagesAgree /\ BoundedInv /\ InTurnInv

\* The executions that go in turn pass over a task only if it is blocked, and end
\* when they went through all of them.
Reached ==
  mode # "bounded" =>
    /\ \A t \in Task \ todo : stage[t] # "none" \/ deps[t] \cap failed # {}
    /\ phase = "done" => todo = {}

\* While no violation is recorded, whatever ran was runnable, and only what can
\* complete has.
Audited ==
  violations = <<>> =>
    /\ \A t \in Task : stage[t] \notin {"none", "queued"} => Runnable(t)
    /\ completed \subseteq Completable

-----------------------------------------------------------------------------
(* Helpers                                                                 *)

\* Sets of tasks are finite, and counting one task more or less is exact.
LEMMA CountedTasks ==
  ASSUME NEW S \in SUBSET Task
  PROVE  /\ IsFiniteSet(S) /\ Cardinality(S) \in Nat
         /\ \A t \in Task \ S : Cardinality(S \cup {t}) = Cardinality(S) + 1
         /\ \A t \in S : Cardinality(S \ {t}) = Cardinality(S) - 1
<1>1. IsFiniteSet(S)
  BY DagParameters, FS_Subset
<1> QED
  BY <1>1, FS_CardinalityType, FS_AddElement, FS_RemoveElement

\* A subset of the tasks has no more elements than the set around it.
LEMMA FewerTasks ==
  ASSUME NEW S \in SUBSET Task, NEW T \in SUBSET S
  PROVE  Cardinality(T) <= Cardinality(S)
  BY CountedTasks, FS_Subset

\* A recorder that appends t to `started` has started one task more.
LEMMA StartedOneMore ==
  ASSUME TypeOK, NEW t \in Task, started' = Append(started, t)
  PROVE  /\ started' \in Seq(Task) /\ Len(started') = Len(started) + 1
         /\ StartedSet' = StartedSet \cup {t}
<1>1. /\ started \in Seq(Task) /\ Len(started) \in Nat
      /\ DOMAIN started = 1 .. Len(started)
  <2>1. started \in Seq(Task)
    BY DEF TypeOK
  <2> QED
    BY <2>1
<1>2. /\ started' \in Seq(Task) /\ Len(started') = Len(started) + 1
      /\ DOMAIN started' = 1 .. Len(started) + 1
      /\ \A i \in 1 .. Len(started) : started'[i] = started[i]
      /\ started'[Len(started) + 1] = t
  BY <1>1
<1> QED
  BY <1>1, <1>2 DEF StartedSet

\* What WithinBounds and StagesAgree say of the recorder survives a step of the main
\* thread that leaves the recorder and every stage alone.
LEMMA RecorderUnchanged ==
  ASSUME IInv, UNCHANGED <<tasks, stage, recorder>>
  PROVE  /\ WithinBounds'
         /\ StartedSet' = StartedSet
         /\ (StartedSet = {t \in Task : stage[t] \notin {"none", "queued"}})'
         /\ (completed \cup failed = {t \in Task : stage[t] \in {"recorded", "left", "resolved"}})'
         /\ (Len(started) = Cardinality(StartedSet))'
         /\ \A t \in Task : Runnable(t)' <=> Runnable(t)
  BY DEF IInv, WithinBounds, StagesAgree, StartedSet, Workers, Runnable, tasks, recorder

\* The kind of execution and its tasks stay what they are.
LEMMA ModeIsFixed == [Next]_vars => UNCHANGED <<mode, deps, fails>>
  BY DEF Next, Main, Thread, ScanBlocked, BlockedScanned, ScanReady, Submit, Break, Collect, PassOver,
     Launch, Returned, AllReturned, Begin, Finish, Leave, Resolve, vars, tasks

\* There is room for a call of the recorder.
LEMMA WorkersPositive == Workers \in Nat /\ Workers >= 1
<1>1. CASE mode = "bounded"
  BY <1>1, DagParameters DEF Workers
<1>2. CASE mode = "naive"
  BY <1>2 DEF Workers
<1>3. CASE mode # "bounded" /\ mode # "naive"
  BY <1>3 DEF Workers
<1> QED
  BY <1>1, <1>2, <1>3

\* TaskGraph counts as DagScheduler does.
LEMMA SameCardinality == \A S : Promise!Cardinality(S) = Cardinality(S)
  BY DEF Promise!Cardinality, Cardinality

-----------------------------------------------------------------------------
(* The main thread                                                         *)

\* No task was handed out.
LEMMA InitIInv == Init => IInv
<1> SUFFICES ASSUME Init PROVE IInv
  OBVIOUS
<1>1. TypeOK
  <2>1. mode \in Modes /\ deps \in [Task -> SUBSET Task] /\ fails \subseteq Task
    BY DagParameters DEF Init
  <2>2. phase \in {"blocked", "ready", "in turn", "done"}
    BY DEF Init, FirstPhase
  <2>3. started \in Seq(Task) /\ violations \in Seq(Task)
    BY DEF Init
  <2> QED
    BY <2>1, <2>2, <2>3 DEF Init, TypeOK
<1>2. StartedSet = {} /\ {t \in Task : stage[t] \in {"sleeping", "recorded"}} = {}
  BY DEF Init, StartedSet
<1>3. Cardinality({}) = 0
  BY FS_EmptySet
<1>4. WithinBounds
  <2>1. violations = <<>> /\ busy = 0 /\ max_concurrency = 0
    BY DEF Init
  <2>2. busy = Cardinality({t \in Task : stage[t] \in {"sleeping", "recorded"}})
    BY <1>2, <1>3, <2>1
  <2>3. max_concurrency <= Workers
    BY <2>1, WorkersPositive
  <2> QED
    BY <2>1, <2>2, <2>3 DEF WithinBounds
<1>5. StagesAgree
  BY <1>2, <1>3 DEF Init, StagesAgree, FirstPhase
<1>6. BoundedInv /\ InTurnInv
  BY DEF Init, BoundedInv, InTurnInv, FirstPhase, Runnable
<1> QED
  BY <1>1, <1>4, <1>5, <1>6 DEF IInv

\* The scan for blocked tasks gives up pending ones only.
LEMMA ScanBlockedKeeps ==
  ASSUME IInv, NEW t \in Task, ScanBlocked(t)
  PROVE  IInv'
<1> USE DEF IInv
<1>1. UNCHANGED <<tasks, phase, ready, running, stage, recorder>>
  BY DEF ScanBlocked
<1>2. TypeOK'
  BY <1>1 DEF ScanBlocked, TypeOK, tasks, recorder
<1>3. StagesAgree'
  BY <1>1, RecorderUnchanged DEF StagesAgree
<1>4. BoundedInv'
  <2>1. phase = "blocked" /\ phase' = "blocked"
    BY DEF ScanBlocked
  <2>2. pending' \subseteq pending /\ \A u \in pending \ pending' : deps[u] \cap failed # {}
    BY DEF ScanBlocked
  <2>3. \A u \in Task : Runnable(u)' <=> Runnable(u)
    BY <1>1, RecorderUnchanged
  <2>4. UNCHANGED <<mode, deps, failed>>
    BY <1>1 DEF tasks, recorder
  <2> QED
    BY <1>1, <2>1, <2>2, <2>3, <2>4 DEF BoundedInv, TypeOK
<1>5. InTurnInv'
  BY <1>1 DEF ScanBlocked, InTurnInv, tasks
<1> QED
  BY <1>1, <1>2, <1>3, <1>4, <1>5, RecorderUnchanged

\* The scan for ready tasks begins with those still pending.
LEMMA BlockedScannedKeeps ==
  ASSUME IInv, BlockedScanned
  PROVE  IInv'
<1> USE DEF IInv
<1>1. UNCHANGED <<tasks, stage, recorder>>
  BY DEF BlockedScanned
<1>2. TypeOK'
  BY <1>1 DEF BlockedScanned, TypeOK, tasks, recorder
<1>3. StagesAgree'
  BY <1>1, RecorderUnchanged DEF BlockedScanned, StagesAgree
<1>4. BoundedInv'
  BY <1>1, RecorderUnchanged DEF BlockedScanned, BoundedInv, tasks, recorder
<1>5. InTurnInv'
  BY <1>1 DEF BlockedScanned, InTurnInv, tasks
<1> QED
  BY <1>1, <1>2, <1>3, <1>4, <1>5, RecorderUnchanged

\* A task found ready has its dependencies completed, and keeps them so.
LEMMA ScanReadyKeeps ==
  ASSUME IInv, NEW t \in Task, ScanReady(t)
  PROVE  IInv'
<1> USE DEF IInv
<1>1. UNCHANGED <<tasks, phase, pending, running, stage, recorder>>
  BY DEF ScanReady
<1>2. TypeOK'
  BY <1>1 DEF ScanReady, TypeOK, tasks, recorder
<1>3. StagesAgree'
  BY <1>1, RecorderUnchanged DEF StagesAgree
<1>4. BoundedInv'
  BY <1>1, RecorderUnchanged DEF ScanReady, BoundedInv, TypeOK, tasks, recorder
<1>5. InTurnInv'
  BY <1>1 DEF ScanReady, InTurnInv, tasks
<1> QED
  BY <1>1, <1>2, <1>3, <1>4, <1>5, RecorderUnchanged

\* The loop is left only when nothing is ready, nothing runs and the scan is over.
LEMMA BreakKeeps ==
  ASSUME IInv, Break
  PROVE  IInv'
<1> USE DEF IInv
<1>1. UNCHANGED <<tasks, todo, pending, ready, running, stage, recorder>>
  BY DEF Break
<1>2. TypeOK'
  BY <1>1 DEF Break, TypeOK, tasks, recorder
<1>3. StagesAgree'
  BY <1>1, RecorderUnchanged DEF Break, StagesAgree
<1>4. ready = {} /\ running = {} /\ todo = {} /\ phase = "ready"
  BY FS_EmptySet, DagParameters DEF Break, CanSubmit
<1>5. BoundedInv'
  <2>1. phase' = "done"
    BY DEF Break
  <2>2. \A u \in Task : Runnable(u)' <=> Runnable(u)
    BY <1>1, RecorderUnchanged
  <2>3. UNCHANGED <<mode, deps, failed>>
    BY <1>1 DEF tasks, recorder
  <2> QED
    BY <1>1, <1>4, <2>1, <2>2, <2>3 DEF BoundedInv, TypeOK
<1>6. InTurnInv'
  BY <1>1 DEF Break, InTurnInv, tasks
<1> QED
  BY <1>1, <1>2, <1>3, <1>5, <1>6, RecorderUnchanged

\* Collected tasks have been counted out of the recorder.
LEMMA CollectKeeps ==
  ASSUME IInv, Collect
  PROVE  IInv'
<1> USE DEF IInv
<1>1. /\ UNCHANGED <<tasks, pending, ready, stage, recorder>>
      /\ running' = running \ Resolved /\ phase = "ready"
      /\ \/ phase' = "done" /\ todo' = todo /\ pending = {} /\ running' = {}
         \/ phase' = "blocked" /\ todo' = pending
  BY DEF Collect, Loop
<1>2. TypeOK'
  BY <1>1 DEF TypeOK, tasks, recorder
<1>3. StagesAgree'
  <2>1. \A t \in Task : stage[t] \notin {"none", "resolved"} => t \in running'
    BY <1>1 DEF StagesAgree, Resolved
  <2> QED
    BY <1>1, <2>1, RecorderUnchanged DEF StagesAgree
<1>4. BoundedInv'
  <2>1. \A u \in Task : Runnable(u)' <=> Runnable(u)
    BY <1>1, RecorderUnchanged
  <2>2. UNCHANGED <<mode, deps, failed>>
    BY <1>1 DEF tasks, recorder
  <2> QED
    BY <1>1, <2>1, <2>2 DEF BoundedInv, TypeOK
<1>5. InTurnInv'
  BY <1>1 DEF InTurnInv, tasks
<1> QED
  BY <1>1, <1>2, <1>3, <1>4, <1>5, RecorderUnchanged

\* PassOver, Returned and AllReturned, in the executions that go in turn.
LEMMA PassOverKeeps ==
  ASSUME IInv, NEW t \in Task, PassOver(t)
  PROVE  IInv'
<1> USE DEF IInv
<1>1. /\ UNCHANGED <<tasks, phase, pending, ready, running, stage, recorder>>
      /\ mode = "sequential" /\ todo' = todo \ {t}
  BY DEF PassOver
<1>2. TypeOK' /\ StagesAgree'
  BY <1>1, RecorderUnchanged DEF TypeOK, StagesAgree, tasks, recorder
<1>3. BoundedInv' /\ InTurnInv'
  BY <1>1 DEF BoundedInv, InTurnInv, tasks
<1> QED
  BY <1>1, <1>2, <1>3, RecorderUnchanged

\* So has a task whose call returned.
LEMMA ReturnedKeeps ==
  ASSUME IInv, NEW t \in Task, Returned(t)
  PROVE  IInv'
<1> USE DEF IInv
<1>1. /\ UNCHANGED <<tasks, phase, todo, pending, ready, stage, recorder>>
      /\ phase = "in turn" /\ stage[t] = "resolved" /\ running' = running \ {t}
  BY DEF Returned
<1>2. mode # "bounded"
  BY <1>1 DEF BoundedInv
<1>3. TypeOK' /\ StagesAgree'
  BY <1>1, RecorderUnchanged DEF TypeOK, StagesAgree, tasks, recorder
<1>4. BoundedInv' /\ InTurnInv'
  BY <1>1, <1>2 DEF BoundedInv, InTurnInv, tasks
<1> QED
  BY <1>1, <1>3, <1>4, RecorderUnchanged

\* The other executions end with nothing in the pool.
LEMMA AllReturnedKeeps ==
  ASSUME IInv, AllReturned
  PROVE  IInv'
<1> USE DEF IInv
<1>1. /\ UNCHANGED <<tasks, todo, pending, ready, running, stage, recorder>>
      /\ phase = "in turn" /\ phase' = "done" /\ running = {}
  BY DEF AllReturned
<1>2. mode # "bounded"
  BY <1>1 DEF BoundedInv
<1>3. TypeOK' /\ StagesAgree'
  BY <1>1, RecorderUnchanged DEF TypeOK, StagesAgree, tasks, recorder
<1>4. BoundedInv' /\ InTurnInv'
  BY <1>1, <1>2 DEF BoundedInv, InTurnInv, tasks
<1> QED
  BY <1>1, <1>3, <1>4, RecorderUnchanged

\* Handing t to the pool: its stage goes from none to queued, which no set of the
\* recorder notices.
LEMMA QueuedIsUnseen ==
  ASSUME IInv, NEW t \in Task, stage[t] = "none",
         stage' = [stage EXCEPT ![t] = "queued"], running' = running \cup {t},
         UNCHANGED <<tasks, phase, recorder>>, phase # "done"
  PROVE  WithinBounds' /\ StagesAgree'
<1> USE DEF IInv
<1>1. \A u \in Task : stage'[u] = IF u = t THEN "queued" ELSE stage[u]
  BY DEF TypeOK
<1>2. {u \in Task : stage'[u] \in {"sleeping", "recorded"}}
        = {u \in Task : stage[u] \in {"sleeping", "recorded"}}
  BY <1>1
<1>3. {u \in Task : stage'[u] \notin {"none", "queued"}}
        = {u \in Task : stage[u] \notin {"none", "queued"}}
  BY <1>1
<1>4. {u \in Task : stage'[u] \in {"recorded", "left", "resolved"}}
        = {u \in Task : stage[u] \in {"recorded", "left", "resolved"}}
  BY <1>1
<1>5. WithinBounds'
  BY <1>2 DEF WithinBounds, Workers, tasks, recorder
<1>6. StartedSet' = StartedSet
  BY DEF StartedSet, recorder
<1> QED
  BY <1>1, <1>3, <1>4, <1>5, <1>6 DEF StagesAgree, recorder

\* A ready task that is submitted is one more in the pool, below the bound.
LEMMA SubmitKeeps ==
  ASSUME IInv, NEW t \in Task, Submit(t)
  PROVE  IInv'
<1> USE DEF IInv
<1>1. /\ UNCHANGED <<tasks, phase, todo, recorder>>
      /\ phase = "ready" /\ todo = {} /\ t \in ready
      /\ ready' = ready \ {t} /\ pending' = pending \ {t} /\ running' = running \cup {t}
      /\ stage' = [stage EXCEPT ![t] = "queued"]
  BY DEF Submit
<1>2. mode = "bounded"
  BY <1>1 DEF InTurnInv
<1>3. stage[t] = "none"
  BY <1>1, <1>2 DEF BoundedInv
<1>4. TypeOK'
  BY <1>1 DEF TypeOK, tasks, recorder
<1>5. WithinBounds' /\ StagesAgree'
  BY <1>1, <1>3, QueuedIsUnseen
<1>6. BoundedInv'
  <2>1. \A u \in Task : stage'[u] = IF u = t THEN "queued" ELSE stage[u]
    BY <1>1 DEF TypeOK
  <2>2. \A u \in Task : Runnable(u)' <=> Runnable(u)
    BY <1>1 DEF Runnable, tasks, recorder
  <2>3. Runnable(t) /\ running' # {} /\ ready \subseteq pending
    BY <1>1, <1>2 DEF BoundedInv
  <2> QED
    BY <1>1, <1>2, <2>1, <2>2, <2>3 DEF BoundedInv, TypeOK, tasks, recorder
<1>7. InTurnInv'
  BY <1>1, <1>2 DEF InTurnInv, tasks
<1> QED
  BY <1>4, <1>5, <1>6, <1>7

\* A task that is launched in turn was not in the pool before.
LEMMA LaunchKeeps ==
  ASSUME IInv, NEW t \in Task, Launch(t)
  PROVE  IInv'
<1> USE DEF IInv
<1>1. /\ UNCHANGED <<tasks, phase, pending, ready, recorder>>
      /\ phase = "in turn" /\ t \in todo
      /\ todo' = todo \ {t} /\ running' = running \cup {t}
      /\ stage' = [stage EXCEPT ![t] = "queued"]
  BY DEF Launch, InTurn
<1>2. mode # "bounded"
  BY <1>1 DEF BoundedInv
<1>3. stage[t] = "none"
  BY <1>1, <1>2 DEF InTurnInv
<1>4. TypeOK'
  BY <1>1 DEF TypeOK, tasks, recorder
<1>5. WithinBounds' /\ StagesAgree'
  BY <1>1, <1>3, QueuedIsUnseen
<1>6. BoundedInv' /\ InTurnInv'
  BY <1>1, <1>2 DEF BoundedInv, InTurnInv, TypeOK, tasks
<1> QED
  BY <1>4, <1>5, <1>6


-----------------------------------------------------------------------------
(* The pool's threads                                                      *)

\* Recording an outcome, leaving the recorder or resolving a future takes t from one
\* stage to a later one.
LEMMA StageOf ==
  ASSUME TypeOK, NEW t \in Task,
         NEW v \in {"none", "queued", "sleeping", "recorded", "left", "resolved"},
         stage' = [stage EXCEPT ![t] = v]
  PROVE  /\ stage' \in [Task -> {"none", "queued", "sleeping", "recorded", "left", "resolved"}]
         /\ \A u \in Task : stage'[u] = IF u = t THEN v ELSE stage[u]
  BY DEF TypeOK

\* The recorder's two sets only grow, so what was runnable stays so; a step of a
\* thread is one of a running task.
LEMMA ThreadKeepsMain ==
  ASSUME IInv, UNCHANGED <<tasks, main>>, completed \subseteq completed', failed \subseteq failed',
         NEW t \in Task, stage[t] \notin {"none", "resolved"},
         NEW v \in {"sleeping", "recorded", "left", "resolved"},
         stage' = [stage EXCEPT ![t] = v]
  PROVE  /\ BoundedInv' /\ InTurnInv'
         /\ \A u \in Task : stage'[u] \notin {"none", "resolved"} => u \in running'
         /\ (phase = "done" => running = {})'
<1> USE DEF IInv
<1>1. \A u \in Task : stage'[u] = IF u = t THEN v ELSE stage[u]
  BY StageOf
<1>2. UNCHANGED <<mode, deps, phase, todo, pending, ready, running>>
  BY DEF tasks, main
<1>3. t \in running /\ phase # "done"
  BY DEF StagesAgree
<1>4. \A u \in Task : Runnable(u) => Runnable(u)'
  BY <1>2 DEF Runnable
<1>5. BoundedInv'
  <2> SUFFICES ASSUME mode = "bounded" PROVE BoundedInv'
    BY <1>2 DEF BoundedInv
  <2>1. /\ phase \in {"blocked", "ready", "done"}
        /\ \A u \in ready : u \in Task /\ Runnable(u)
        /\ \A u \in Task : stage[u] # "none" => Runnable(u)
        /\ \A u \in pending : stage[u] = "none"
        /\ phase = "ready" => ready \subseteq pending
        /\ \A u \in Task \ pending : stage[u] # "none" \/ deps[u] \cap failed # {}
    BY DEF BoundedInv, TypeOK
  <2>2. t \notin pending /\ pending \subseteq Task
    BY <2>1 DEF TypeOK
  <2>3. \A u \in Task : stage'[u] # "none" => Runnable(u)'
    BY <1>1, <1>4, <2>1
  <2>4. \A u \in pending : stage'[u] = "none"
    BY <1>1, <2>1, <2>2
  <2>5. \A u \in Task \ pending : stage'[u] # "none" \/ deps[u] \cap failed' # {}
    BY <1>1, <2>1
  <2>6. \A u \in ready : Runnable(u)'
    BY <1>4, <2>1
  <2> QED
    BY <1>2, <1>3, <2>1, <2>3, <2>4, <2>5, <2>6 DEF BoundedInv
<1>6. InTurnInv'
  BY <1>1, <1>2 DEF InTurnInv, TypeOK
<1>7. \A u \in Task : stage'[u] \notin {"none", "resolved"} => u \in running'
  BY <1>1, <1>2 DEF StagesAgree
<1> QED
  BY <1>2, <1>3, <1>5, <1>6, <1>7

\* A bounded execution never shows the recorder a violation.
LEMMA BeginKeeps ==
  ASSUME IInv, NEW t \in Task, Begin(t)
  PROVE  IInv'
<1> USE DEF IInv
<1>1. /\ stage[t] = "queued" /\ stage' = [stage EXCEPT ![t] = "sleeping"]
      /\ UNCHANGED <<tasks, main, completed, failed>>
      /\ busy' = busy + 1 /\ max_concurrency' = Larger(max_concurrency, busy + 1)
      /\ started' = Append(started, t)
      /\ violations' = (IF deps[t] \subseteq completed THEN violations ELSE Append(violations, t))
      /\ Cardinality(Threads) < Workers
  BY DEF Begin
<1>2. \A u \in Task : stage'[u] = IF u = t THEN "sleeping" ELSE stage[u]
  BY <1>1, StageOf
<1>3. Busy' = Busy \cup {t} /\ t \notin Busy
  BY <1>1, <1>2 DEF Busy
<1>4. Cardinality(Busy') = Cardinality(Busy) + 1 /\ Cardinality(Busy) \in Nat
  BY <1>3, CountedTasks DEF Busy
<1>5. busy = Cardinality(Busy) /\ max_concurrency <= Workers /\ busy \in Nat /\ max_concurrency \in Nat
  BY DEF WithinBounds, Busy, TypeOK
<1>6. busy + 1 <= Workers
  <2>1. Busy \subseteq Threads /\ Threads \subseteq Task
    BY DEF Busy, Threads
  <2>2. Cardinality(Busy) <= Cardinality(Threads) /\ Cardinality(Threads) \in Nat
    BY <2>1, FewerTasks, CountedTasks
  <2> QED
    BY <1>1, <1>4, <1>5, <2>2, WorkersPositive
<1>7. max_concurrency' \in Nat /\ max_concurrency' <= Workers
  BY <1>1, <1>5, <1>6, WorkersPositive DEF Larger
<1>8. /\ started' \in Seq(Task) /\ Len(started') = Len(started) + 1
      /\ StartedSet' = StartedSet \cup {t}
  BY <1>1, StartedOneMore
<1>9. violations' \in Seq(Task)
  <2>1. violations \in Seq(Task)
    BY DEF TypeOK
  <2> QED
    BY <1>1, <2>1
<1>10. TypeOK'
  <2>1. stage' \in [Task -> {"none", "queued", "sleeping", "recorded", "left", "resolved"}]
    BY <1>1, StageOf
  <2>2. busy' \in Nat
    BY <1>1, <1>5
  <2> QED
    BY <1>1, <1>7, <1>8, <1>9, <2>1, <2>2 DEF TypeOK, tasks, main
<1>11. WithinBounds'
  <2>1. mode = "bounded" => violations' = <<>>
    BY <1>1 DEF WithinBounds, BoundedInv, Runnable
  <2>2. busy' = Cardinality(Busy')
    BY <1>1, <1>4, <1>5
  <2>3. mode' = mode /\ Workers' = Workers
    BY <1>1 DEF Workers, tasks
  <2> QED
    BY <1>7, <2>1, <2>2, <2>3 DEF WithinBounds, Busy
<1>12. BoundedInv' /\ InTurnInv'
       /\ (\A u \in Task : stage'[u] \notin {"none", "resolved"} => u \in running')
       /\ (phase = "done" => running = {})'
  BY <1>1, ThreadKeepsMain
<1>13. StagesAgree'
  <2>1. StartedSet' = {u \in Task : stage'[u] \notin {"none", "queued"}}
    BY <1>2, <1>8 DEF StagesAgree
  <2>2. {u \in Task : stage'[u] \in {"recorded", "left", "resolved"}}
          = {u \in Task : stage[u] \in {"recorded", "left", "resolved"}}
    BY <1>1, <1>2
  <2>3. (completed \cup failed)' = completed \cup failed
    BY <1>1
  <2>4. t \notin StartedSet /\ StartedSet \subseteq Task
    BY <1>1 DEF StagesAgree
  <2>5. Len(started') = Cardinality(StartedSet')
    BY <1>8, <2>4, CountedTasks DEF StagesAgree
  <2> QED
    BY <1>12, <2>1, <2>2, <2>3, <2>5 DEF StagesAgree
<1> QED
  BY <1>10, <1>11, <1>12, <1>13

\* Recording an outcome counts nobody in or out.
LEMMA FinishKeeps ==
  ASSUME IInv, NEW t \in Task, Finish(t)
  PROVE  IInv'
<1> USE DEF IInv
<1>1. /\ stage[t] = "sleeping" /\ stage' = [stage EXCEPT ![t] = "recorded"]
      /\ UNCHANGED <<tasks, main, started, violations, busy, max_concurrency>>
      /\ \/ t \in fails /\ failed' = failed \cup {t} /\ completed' = completed
         \/ t \notin fails /\ completed' = completed \cup {t} /\ failed' = failed
  BY DEF Finish
<1>2. \A u \in Task : stage'[u] = IF u = t THEN "recorded" ELSE stage[u]
  BY <1>1, StageOf
<1>3. TypeOK'
  BY <1>1, StageOf DEF TypeOK, tasks, main
<1>4. WithinBounds'
  <2>1. {u \in Task : stage'[u] \in {"sleeping", "recorded"}}
          = {u \in Task : stage[u] \in {"sleeping", "recorded"}}
    BY <1>1, <1>2
  <2> QED
    BY <1>1, <2>1 DEF WithinBounds, Workers, tasks
<1>5. BoundedInv' /\ InTurnInv'
      /\ (\A u \in Task : stage'[u] \notin {"none", "resolved"} => u \in running')
      /\ (phase = "done" => running = {})'
  BY <1>1, ThreadKeepsMain
<1>6. StagesAgree'
  <2>1. StartedSet' = StartedSet
    BY <1>1 DEF StartedSet
  <2>2. {u \in Task : stage'[u] \notin {"none", "queued"}}
          = {u \in Task : stage[u] \notin {"none", "queued"}}
    BY <1>1, <1>2
  <2>3. (completed \cup failed)' = {u \in Task : stage'[u] \in {"recorded", "left", "resolved"}}
    BY <1>1, <1>2 DEF StagesAgree
  <2> QED
    BY <1>1, <1>5, <2>1, <2>2, <2>3 DEF StagesAgree
<1> QED
  BY <1>3, <1>4, <1>5, <1>6

\* Leaving the recorder counts one out.
LEMMA LeaveKeeps ==
  ASSUME IInv, NEW t \in Task, Leave(t)
  PROVE  IInv'
<1> USE DEF IInv
<1>1. /\ stage[t] = "recorded" /\ stage' = [stage EXCEPT ![t] = "left"]
      /\ busy' = busy - 1
      /\ UNCHANGED <<tasks, main, completed, failed, started, violations, max_concurrency>>
  BY DEF Leave
<1>2. \A u \in Task : stage'[u] = IF u = t THEN "left" ELSE stage[u]
  BY <1>1, StageOf
<1>3. Busy' = Busy \ {t} /\ t \in Busy
  BY <1>1, <1>2 DEF Busy
<1>4. busy = Cardinality(Busy) /\ busy' = Cardinality(Busy')
  <2>1. busy = Cardinality(Busy)
    BY DEF WithinBounds, Busy
  <2>2. Cardinality(Busy') = Cardinality(Busy) - 1
    BY <1>3, CountedTasks DEF Busy
  <2> QED
    BY <1>1, <2>1, <2>2
<1>5. busy' \in Nat
  <2>1. Busy' \in SUBSET Task
    BY DEF Busy
  <2> QED
    BY <1>4, <2>1, CountedTasks
<1>6. TypeOK'
  BY <1>1, <1>5, StageOf DEF TypeOK, tasks, main
<1>7. WithinBounds'
  BY <1>1, <1>4 DEF WithinBounds, Busy, Workers, tasks
<1>8. BoundedInv' /\ InTurnInv'
      /\ (\A u \in Task : stage'[u] \notin {"none", "resolved"} => u \in running')
      /\ (phase = "done" => running = {})'
  BY <1>1, ThreadKeepsMain
<1>9. StagesAgree'
  <2>1. StartedSet' = StartedSet
    BY <1>1 DEF StartedSet
  <2>2. /\ {u \in Task : stage'[u] \notin {"none", "queued"}}
             = {u \in Task : stage[u] \notin {"none", "queued"}}
        /\ {u \in Task : stage'[u] \in {"recorded", "left", "resolved"}}
             = {u \in Task : stage[u] \in {"recorded", "left", "resolved"}}
    BY <1>1, <1>2
  <2> QED
    BY <1>1, <1>8, <2>1, <2>2 DEF StagesAgree
<1> QED
  BY <1>6, <1>7, <1>8, <1>9

\* The future that resolves was counted out before.
LEMMA ResolveKeeps ==
  ASSUME IInv, NEW t \in Task, Resolve(t)
  PROVE  IInv'
<1> USE DEF IInv
<1>1. /\ stage[t] = "left" /\ stage' = [stage EXCEPT ![t] = "resolved"]
      /\ UNCHANGED <<tasks, main, recorder>>
  BY DEF Resolve
<1>2. \A u \in Task : stage'[u] = IF u = t THEN "resolved" ELSE stage[u]
  BY <1>1, StageOf
<1>3. TypeOK'
  BY <1>1, StageOf DEF TypeOK, tasks, main, recorder
<1>4. WithinBounds'
  <2>1. {u \in Task : stage'[u] \in {"sleeping", "recorded"}}
          = {u \in Task : stage[u] \in {"sleeping", "recorded"}}
    BY <1>1, <1>2
  <2> QED
    BY <1>1, <2>1 DEF WithinBounds, Workers, tasks, recorder
<1>5. BoundedInv' /\ InTurnInv'
      /\ (\A u \in Task : stage'[u] \notin {"none", "resolved"} => u \in running')
      /\ (phase = "done" => running = {})'
  BY <1>1, ThreadKeepsMain DEF recorder
<1>6. StagesAgree'
  <2>1. StartedSet' = StartedSet
    BY <1>1 DEF StartedSet, recorder
  <2>2. /\ {u \in Task : stage'[u] \notin {"none", "queued"}}
             = {u \in Task : stage[u] \notin {"none", "queued"}}
        /\ {u \in Task : stage'[u] \in {"recorded", "left", "resolved"}}
             = {u \in Task : stage[u] \in {"recorded", "left", "resolved"}}
    BY <1>1, <1>2
  <2> QED
    BY <1>1, <1>5, <2>1, <2>2 DEF StagesAgree, recorder
<1> QED
  BY <1>3, <1>4, <1>5, <1>6

\* Every step keeps the strengthening.
LEMMA StepKeeps == IInv /\ [Next]_vars => IInv'
<1> SUFFICES ASSUME IInv, [Next]_vars PROVE IInv'
  OBVIOUS
<1>1. ASSUME NEW t \in Task, ScanBlocked(t) \/ ScanReady(t) \/ Submit(t)
      PROVE  IInv'
  BY <1>1, ScanBlockedKeeps, ScanReadyKeeps, SubmitKeeps
<1>2. CASE BlockedScanned \/ Break \/ Collect
  BY <1>2, BlockedScannedKeeps, BreakKeeps, CollectKeeps
<1>3. ASSUME NEW t \in Task, PassOver(t) \/ Launch(t) \/ Returned(t)
      PROVE  IInv'
  BY <1>3, PassOverKeeps, LaunchKeeps, ReturnedKeeps
<1>4. CASE AllReturned
  BY <1>4, AllReturnedKeeps
<1>5. ASSUME NEW t \in Task, Thread(t)
      PROVE  IInv'
  BY <1>5, BeginKeeps, FinishKeeps, LeaveKeeps, ResolveKeeps DEF Thread
<1>6. CASE UNCHANGED vars
  <2>1. UNCHANGED <<tasks, main, stage, recorder>>
    BY <1>6 DEF vars
  <2>2. TypeOK' /\ StagesAgree' /\ BoundedInv' /\ InTurnInv'
    BY <2>1, RecorderUnchanged
       DEF IInv, TypeOK, StagesAgree, BoundedInv, InTurnInv, tasks, main, recorder
  <2> QED
    BY <2>1, <2>2, RecorderUnchanged DEF IInv
<1> QED
  BY <1>1, <1>2, <1>3, <1>4, <1>5, <1>6 DEF Next, Main

-----------------------------------------------------------------------------
(* The outcome                                                             *)

\* At the start nothing was reached and nothing ran.
LEMMA InitOutcome == Init => Reached /\ Audited
<1> SUFFICES ASSUME Init PROVE Reached /\ Audited
  OBVIOUS
<1>1. todo = Task /\ phase = FirstPhase /\ completed = {} /\ stage = [t \in Task |-> "none"]
  BY DEF Init
<1> QED
  BY <1>1 DEF Reached, Audited, FirstPhase

\* A task leaves the turn by being launched, or with a failed dependency, which
\* stays failed.
LEMMA ReachedStep == IInv /\ Reached /\ [Next]_vars => Reached'
<1> SUFFICES ASSUME IInv, Reached, [Next]_vars, mode # "bounded" PROVE Reached'
  BY ModeIsFixed DEF Reached
<1> USE DEF IInv
<1>1. phase \in {"in turn", "done"}
  BY DEF InTurnInv
<1>2. CASE UNCHANGED vars
  BY <1>2 DEF Reached, vars, tasks, main, recorder
<1>3. ASSUME NEW t \in Task, Thread(t)
      PROVE  Reached'
  <2>1. UNCHANGED <<tasks, main>> /\ failed \subseteq failed'
    BY <1>3 DEF Thread, Begin, Finish, Leave, Resolve, recorder
  <2>2. \A u \in Task : stage[u] # "none" => stage'[u] # "none"
    BY <1>3 DEF Thread, Begin, Finish, Leave, Resolve, TypeOK
  <2> QED
    BY <2>1, <2>2 DEF Reached, tasks, main
<1>4. ASSUME NEW t \in Task, PassOver(t) \/ Launch(t) \/ Returned(t)
      PROVE  Reached'
  <2>1. /\ UNCHANGED <<tasks, recorder, phase>> /\ phase = "in turn"
        /\ \/ todo' = todo
           \/ todo' = todo \ {t} /\ (stage'[t] # "none" \/ deps[t] \cap failed # {})
    BY <1>4 DEF PassOver, Launch, Returned, InTurn, TypeOK
  <2>2. \A u \in Task : stage[u] # "none" => stage'[u] # "none"
    BY <1>4 DEF PassOver, Launch, Returned, TypeOK
  <2>3. mode' = mode /\ deps' = deps /\ failed' = failed /\ phase' # "done"
    BY <2>1 DEF tasks, recorder
  <2>4. \A u \in Task \ todo : stage'[u] # "none" \/ deps[u] \cap failed # {}
    BY <2>2 DEF Reached
  <2>5. \A u \in Task \ todo' : stage'[u] # "none" \/ deps[u] \cap failed # {}
    BY <2>1, <2>4
  <2> QED
    BY <2>3, <2>5 DEF Reached
<1>5. CASE AllReturned
  BY <1>5 DEF AllReturned, Reached, tasks, recorder
<1>6. ASSUME NEW t \in Task
      PROVE  ~ (ScanBlocked(t) \/ ScanReady(t) \/ Submit(t) \/ BlockedScanned \/ Break \/ Collect)
  BY <1>1 DEF ScanBlocked, ScanReady, Submit, BlockedScanned, Break, Collect
<1>7. ~ (BlockedScanned \/ Break \/ Collect)
  BY <1>1 DEF BlockedScanned, Break, Collect
<1> QED
  BY <1>2, <1>3, <1>4, <1>5, <1>6, <1>7 DEF Next, Main

\* A recorded violation stays recorded.  Without one, a thread begins a runnable task,
\* and its completion keeps `completed` within every closed set.
LEMMA AuditedStep == IInv /\ Audited /\ [Next]_vars => Audited'
<1> SUFFICES ASSUME IInv, Audited, [Next]_vars, violations' = <<>> PROVE Audited'
  BY DEF Audited
<1> USE DEF IInv
<1>1. deps' = deps /\ fails' = fails /\ Completable' = Completable
  BY ModeIsFixed DEF Completable, Closed
<1>2. /\ UNCHANGED violations => \A t \in Task : stage[t] \notin {"none", "queued"} => Runnable(t)
      /\ UNCHANGED violations => completed \subseteq Completable
  BY DEF Audited
<1>3. ASSUME UNCHANGED recorder,
             \A u \in Task : stage'[u] \notin {"none", "queued"} => stage[u] \notin {"none", "queued"}
      PROVE  Audited'
  BY <1>1, <1>2, <1>3 DEF Audited, Runnable, recorder
<1>4. CASE Main \/ UNCHANGED vars
  <2>1. UNCHANGED recorder
    BY <1>4 DEF Main, ScanBlocked, BlockedScanned, ScanReady, Submit, Break, Collect, PassOver,
         Launch, Returned, AllReturned, vars
  <2>2. \/ UNCHANGED stage
        \/ \E t \in Task : stage' = [stage EXCEPT ![t] = "queued"]
    BY <1>4 DEF Main, ScanBlocked, BlockedScanned, ScanReady, Submit, Break, Collect, PassOver,
         Launch, Returned, AllReturned, vars
  <2> QED
    BY <1>3, <2>1, <2>2 DEF TypeOK
<1>5. ASSUME NEW t \in Task, Begin(t)
      PROVE  Audited'
  <2>1. /\ UNCHANGED <<completed, failed>> /\ stage' = [stage EXCEPT ![t] = "sleeping"]
        /\ violations' = (IF deps[t] \subseteq completed THEN violations ELSE Append(violations, t))
    BY <1>5 DEF Begin
  <2>2. Append(violations, t) # <<>>
    <3>1. violations \in Seq(Task)
      BY DEF TypeOK
    <3>2. Len(Append(violations, t)) = Len(violations) + 1 /\ Len(violations) \in Nat
      BY <3>1
    <3> QED
      BY <3>2
  <2>3. deps[t] \subseteq completed /\ UNCHANGED violations
    BY <2>1, <2>2
  <2>4. \A u \in Task : stage'[u] = IF u = t THEN "sleeping" ELSE stage[u]
    BY <2>1, StageOf
  <2> QED
    BY <1>1, <1>2, <2>1, <2>3, <2>4 DEF Audited, Runnable
<1>6. ASSUME NEW t \in Task, Finish(t)
      PROVE  Audited'
  <2>1. /\ UNCHANGED violations /\ stage[t] = "sleeping"
        /\ stage' = [stage EXCEPT ![t] = "recorded"]
        /\ \/ completed' = completed
           \/ completed' = completed \cup {t} /\ t \notin fails
    BY <1>6 DEF Finish
  <2>2. Runnable(t)
    BY <1>2, <2>1
  <2>3. t \notin fails => t \in Completable
    <3> SUFFICES ASSUME t \notin fails, NEW S \in SUBSET Task, Closed(S) PROVE t \in S
      BY DEF Completable
    <3>1. deps[t] \subseteq S
      BY <1>2, <2>1, <2>2 DEF Runnable, Completable
    <3> QED
      BY <3>1 DEF Closed
  <2>4. completed \subseteq completed' /\ completed' \subseteq Completable
    BY <1>2, <2>1, <2>3
  <2>5. \A u \in Task : stage'[u] = IF u = t THEN "recorded" ELSE stage[u]
    BY <2>1, StageOf
  <2> QED
    BY <1>1, <1>2, <2>1, <2>4, <2>5 DEF Audited, Runnable
<1>7. ASSUME NEW t \in Task, Leave(t) \/ Resolve(t)
      PROVE  Audited'
  <2>1. /\ UNCHANGED <<completed, violations>> /\ stage[t] \in {"recorded", "left"}
        /\ stage' = [stage EXCEPT ![t] = "left"] \/ stage' = [stage EXCEPT ![t] = "resolved"]
    BY <1>7 DEF Leave, Resolve, recorder
  <2>2. \A u \in Task : u # t => stage'[u] = stage[u]
    BY <2>1 DEF TypeOK
  <2> QED
    BY <1>1, <1>2, <2>1, <2>2 DEF Audited, Runnable
<1> QED
  BY <1>4, <1>5, <1>6, <1>7 DEF Next, Thread

\* At the end exactly the runnable tasks were started: `completed` is closed, and so
\* holds all that can complete.
LEMMA OutcomeAtEnd == IInv /\ Reached /\ Audited => FinalOutcome
<1> SUFFICES ASSUME IInv, Reached, Audited, phase = "done" PROVE FinalOutcome
  BY DEF FinalOutcome
<1> USE DEF IInv
<1>1. running = {} /\ \A t \in Task : stage[t] \in {"none", "resolved"}
  BY DEF StagesAgree
<1>2. busy = 0
  <2>1. {t \in Task : stage[t] \in {"sleeping", "recorded"}} = {}
    BY <1>1
  <2> QED
    BY <2>1, FS_EmptySet DEF WithinBounds
<1>3. /\ StartedSet = completed \cup failed
      /\ StartedSet = {t \in Task : stage[t] # "none"}
  BY <1>1 DEF StagesAgree
<1>4. completed \subseteq Task \ fails /\ failed \subseteq fails /\ fails \subseteq Task
  BY DEF TypeOK
<1>5. ASSUME violations = <<>>
      PROVE  /\ completed = Completable
             /\ failed = {t \in fails : deps[t] \subseteq Completable}
  <2>1. ASSUME NEW t \in Task, Runnable(t)
        PROVE  stage[t] # "none"
    <3>1. deps[t] \cap failed = {}
      BY <1>4, <2>1 DEF Runnable
    <3>2. CASE mode = "bounded"
      BY <2>1, <3>1, <3>2 DEF BoundedInv
    <3>3. CASE mode # "bounded"
      BY <3>1, <3>3 DEF Reached
    <3> QED
      BY <3>2, <3>3
  <2>2. \A t \in Task : stage[t] # "none" => Runnable(t)
    BY <1>1, <1>5 DEF Audited
  <2>3. completed \cup failed = {t \in Task : deps[t] \subseteq completed}
    BY <1>3, <2>1, <2>2 DEF Runnable
  <2>4. Closed(completed)
    BY <1>4, <2>3 DEF Closed
  <2>5. Completable \subseteq completed
    BY <1>4, <2>4 DEF Completable
  <2>6. completed = Completable
    BY <1>5, <2>5 DEF Audited
  <2>7. failed = {t \in fails : deps[t] \subseteq completed}
    BY <1>4, <2>3
  <2> QED
    BY <2>6, <2>7
<1> QED
  BY <1>1, <1>2, <1>3, <1>5 DEF FinalOutcome, StagesAgree

-----------------------------------------------------------------------------
(* Theorems                                                                *)

\* The inductive invariant holds in every reachable state.
THEOREM InductiveInvariant == Spec => []IInv
  BY InitIInv, StepKeeps, PTL DEF Spec

\* The bounded execution shows the recorder no dependency violation, and in every
\* execution the recorder's counter is exact and its maximum within the number of
\* workers (ExecutionRecorder.run), for every graph and every interleaving.
THEOREM RecorderIsExact == Spec => []SchedulerInv
<1>1. IInv => SchedulerInv
  BY DEF IInv, SchedulerInv
<1> QED
  BY <1>1, InductiveInvariant, PTL

\* A failed branch blocks its dependents and nothing else (test_failed_branch_blocks_...,
\* test_lab10.py:27), in each of the three executions that recorded no dependency violation, for every graph: what
\* completed is exactly what can complete, what failed is exactly what fails behind it,
\* nothing else was started, and nothing ran twice or still runs.
THEOREM OutcomeIsFinal == Spec => []FinalOutcome
<1>1. Init => Reached /\ Audited
  BY InitOutcome
<1>2. IInv /\ Reached /\ Audited /\ [Next]_vars => (Reached /\ Audited)'
  BY ReachedStep, AuditedStep
<1>3. IInv /\ Reached /\ Audited => FinalOutcome
  BY OutcomeAtEnd
<1> QED
  BY <1>1, <1>2, <1>3, InductiveInvariant, PTL DEF Spec

\* The bounded execution keeps the promise of TaskGraph: whatever threads and main
\* thread interleave, a task starts once, after all its dependencies completed, and
\* at most MaxWorkers tasks are under way.
THEOREM ImplementsTaskGraph == Spec => GraphSpec
<1> DEFINE seen == <<deps, fails, Visible(StartedSet), Visible(completed), Visible(failed)>>
<1>1. Init => Promise!Init
  <2> SUFFICES ASSUME Init PROVE Promise!Init
    OBVIOUS
  <2>1. deps \in [Task -> SUBSET Task] /\ fails \in SUBSET Task
    BY DagParameters DEF Init
  <2>2. Visible(StartedSet) = {} /\ Visible(completed) = {} /\ Visible(failed) = {}
    BY DEF Init, StartedSet, Visible
  <2> QED
    BY <2>1, <2>2 DEF Promise!Init
<1>2. IInv /\ [Next]_vars => [Promise!Next]_seen
  <2> SUFFICES ASSUME IInv, [Next]_vars PROVE [Promise!Next]_seen
    OBVIOUS
  <2>1. ASSUME NEW t \in Task, Begin(t), mode = "bounded"
        PROVE  Promise!Start(t)
    <3>1. /\ stage[t] = "queued" /\ UNCHANGED <<tasks, completed, failed>>
          /\ started' = Append(started, t) /\ Cardinality(Threads) < Workers
      BY <2>1 DEF Begin
    <3>2. /\ StartedSet' = StartedSet \cup {t} /\ t \notin StartedSet
      BY <3>1, StartedOneMore DEF IInv, StagesAgree
    <3>3. Runnable(t)
      BY <2>1, <3>1 DEF IInv, BoundedInv
    <3>4. Cardinality(StartedSet \ (completed \cup failed)) < MaxWorkers
      <4>1. /\ StartedSet \ (completed \cup failed) \subseteq Threads
            /\ Threads \subseteq Task
        BY DEF IInv, StagesAgree, TypeOK, Threads
      <4>2. /\ Cardinality(StartedSet \ (completed \cup failed)) <= Cardinality(Threads)
            /\ Cardinality(Threads) \in Nat
            /\ Cardinality(StartedSet \ (completed \cup failed)) \in Nat
        BY <4>1, FewerTasks, CountedTasks
      <4>3. Workers = MaxWorkers
        BY <2>1 DEF Workers
      <4> QED
        BY <3>1, <4>2, <4>3, DagParameters
    <3>5. /\ Visible(StartedSet) = StartedSet /\ Visible(StartedSet)' = StartedSet'
          /\ Visible(completed) = completed /\ Visible(completed)' = completed'
          /\ Visible(failed) = failed /\ Visible(failed)' = failed'
      BY <2>1, <3>1 DEF Visible, tasks
    <3>6. Promise!UnderWay = StartedSet \ (completed \cup failed)
      BY <3>5 DEF Promise!UnderWay
    <3> QED
      BY <3>1, <3>2, <3>3, <3>4, <3>5, <3>6, SameCardinality DEF Promise!Start, Runnable, tasks
  <2>2. ASSUME NEW t \in Task, Finish(t), mode = "bounded"
        PROVE  Promise!Finish(t)
    <3>1. /\ stage[t] = "sleeping" /\ UNCHANGED <<tasks, started>>
          /\ IF t \in fails
             THEN failed' = failed \cup {t} /\ UNCHANGED completed
             ELSE completed' = completed \cup {t} /\ UNCHANGED failed
      BY <2>2 DEF Finish
    <3>2. StartedSet' = StartedSet
      BY <3>1 DEF StartedSet
    <3>3. t \in StartedSet \ (completed \cup failed)
      BY <3>1 DEF IInv, StagesAgree
    <3> QED
      BY <2>2, <3>1, <3>2, <3>3 DEF Promise!Finish, Promise!UnderWay, Visible, tasks
  <2>3. ASSUME NEW t \in Task, Begin(t) \/ Finish(t), mode # "bounded"
        PROVE  UNCHANGED seen
    BY <2>3 DEF Begin, Finish, Visible, tasks
  <2>4. CASE UNCHANGED <<tasks, completed, failed, started>>
    BY <2>4 DEF Visible, StartedSet, tasks
  <2>5. ASSUME NEW t \in Task, Leave(t) \/ Resolve(t)
        PROVE  UNCHANGED <<tasks, completed, failed, started>>
    BY <2>5 DEF Leave, Resolve, recorder
  <2>6. CASE Main \/ UNCHANGED vars
    <3>1. UNCHANGED <<tasks, recorder>>
      BY <2>6 DEF Main, ScanBlocked, BlockedScanned, ScanReady, Submit, Break, Collect, PassOver,
           Launch, Returned, AllReturned, vars
    <3> QED
      BY <2>4, <3>1 DEF recorder
  <2> QED
    BY <2>1, <2>2, <2>3, <2>4, <2>5, <2>6 DEF Next, Thread, Promise!Next
<1> QED
  BY <1>1, <1>2, InductiveInvariant, PTL DEF Spec, GraphSpec, Promise!Spec, Promise!vars

-----------------------------------------------------------------------------
(* The reports of two executions                                           *)

\* A report of the bounded scheduler says what is determined by the tasks.
Determined(report) ==
  /\ report.completed = Completable
  /\ report.failed = {t \in fails : deps[t] \subseteq Completable}
  /\ report.dependency_violations = <<>>
  /\ StartedIn(report) = report.completed \cup report.failed
  /\ Len(report.started) = Cardinality(StartedIn(report))
  /\ report.max_concurrency \in IF report.started = <<>> THEN {0} ELSE 1 .. MaxWorkers

\* The concurrency was measured as soon as a task was started.
Measured == max_concurrency = 0 <=> started = <<>>

SuiteIInv ==
  /\ IInv /\ Reached /\ Audited /\ Measured
  /\ mode \in Modes /\ deps \in Graph[mode] /\ fails \in FailSet
  /\ reports \in Seq([max_concurrency : Nat, completed : SUBSET Task, failed : SUBSET Task,
                      started : Seq(Task), dependency_violations : Seq(Task)])
  /\ mode = "bounded" => \A i \in DOMAIN reports : Determined(reports[i])

\* The finished execution's report is determined.
LEMMA ReportDetermined ==
  ASSUME IInv, Reached, Audited, Measured, phase = "done", mode = "bounded"
  PROVE  Determined(Report)
<1>1. FinalOutcome /\ violations = <<>>
  BY OutcomeAtEnd DEF IInv, WithinBounds
<1>2. StartedIn(Report) = StartedSet
  BY DEF StartedIn, Report, StartedSet
<1>3. Report.max_concurrency \in IF Report.started = <<>> THEN {0} ELSE 1 .. MaxWorkers
  BY DagParameters DEF IInv, TypeOK, WithinBounds, Workers, Measured, Report
<1> QED
  BY <1>1, <1>2, <1>3 DEF FinalOutcome, Determined, Report

\* A start is counted, and nothing else starts a task.
LEMMA MeasuredStep ==
  ASSUME IInv, Measured, [Next]_vars
  PROVE  Measured'
<1>1. ASSUME NEW t \in Task, Begin(t) PROVE Measured'
  <2>1. busy \in Nat /\ max_concurrency \in Nat /\ started \in Seq(Task)
    BY DEF IInv, TypeOK
  <2>2. max_concurrency' # 0
    BY <1>1, <2>1 DEF Begin, Larger
  <2>3. started' # <<>>
    BY <1>1, <2>1 DEF Begin
  <2> QED
    BY <2>2, <2>3 DEF Measured
<1>2. CASE UNCHANGED <<started, max_concurrency>>
  BY <1>2 DEF Measured
<1> QED
  BY <1>1, <1>2
     DEF Next, Main, Thread, ScanBlocked, ScanReady, Submit, BlockedScanned, Break, Collect,
         PassOver, Launch, Returned, AllReturned, Finish, Leave, Resolve, recorder, vars

\* The invariants hold whenever the scheduler starts afresh.
LEMMA FreshAgain == Init' => (IInv /\ Reached /\ Audited /\ Measured)'
<1>1. Init => IInv /\ Reached /\ Audited /\ Measured
  BY InitIInv, InitOutcome DEF Init, Measured
<1> QED
  BY <1>1, PTL

\* What a report says is judged by the tasks alone.
LEMMA StaysDetermined ==
  ASSUME NEW report, Determined(report), mode' = mode, deps' = deps, fails' = fails,
         NEW i, reports'[i] = report
  PROVE  Determined(reports[i])'
<1>1. Completable' = Completable
  BY DEF Completable, Closed
<1>2. {t \in fails : deps[t] \subseteq Completable}' = {t \in fails : deps[t] \subseteq Completable}
  BY <1>1
<1>3. StartedIn(reports[i])' = StartedIn(report)
  BY DEF StartedIn
<1> QED
  BY <1>1, <1>2, <1>3 DEF Determined

\* The suite's second execution begins as the first did.
LEMMA RerunKeeps ==
  ASSUME SuiteIInv, Rerun
  PROVE  SuiteIInv'
<1>1. Init'
  BY DEF SuiteIInv, Rerun, Init, tasks, FirstPhase
<1>2. (IInv /\ Reached /\ Audited /\ Measured)'
  BY <1>1, FreshAgain
<1>3. Report \in [max_concurrency : Nat, completed : SUBSET Task, failed : SUBSET Task,
                  started : Seq(Task), dependency_violations : Seq(Task)]
  BY DEF SuiteIInv, IInv, TypeOK, Report
<1>4. /\ reports' = Append(reports, Report) /\ phase = "done"
      /\ mode' = mode /\ deps' = deps /\ fails' = fails
  BY DEF Rerun, tasks
<1>5. ASSUME mode = "bounded", NEW i \in DOMAIN reports' PROVE Determined(reports[i])'
  <2>1. reports'[i] = Report \/ (i \in DOMAIN reports /\ reports'[i] = reports[i])
    BY <1>3, <1>4 DEF SuiteIInv
  <2>2. Determined(Report) /\ (i \in DOMAIN reports => Determined(reports[i]))
    BY <1>4, <1>5, ReportDetermined DEF SuiteIInv
  <2> QED
    BY <1>4, <2>1, <2>2, StaysDetermined
<1> QED
  BY <1>2, <1>3, <1>4, <1>5 DEF SuiteIInv

\* Whatever the schedules of two executions of the suite were, their reports differ at most
\* in the order in which the tasks were started and in max_concurrency (_report).
THEOREM ReportsDifferInSchedule == SuiteSpec => []ReportsAgree
<1>1. SuiteInit => SuiteIInv
  BY InitIInv, InitOutcome DEF SuiteInit, Init, SuiteIInv, Measured
<1>2. SuiteIInv /\ [SuiteNext]_allVars => SuiteIInv'
  <2> SUFFICES ASSUME SuiteIInv, [SuiteNext]_allVars PROVE SuiteIInv'
    OBVIOUS
  <2>1. CASE [Next]_vars /\ UNCHANGED reports
    <3>1. IInv' /\ Reached' /\ Audited' /\ Measured'
      BY <2>1, StepKeeps, ReachedStep, AuditedStep, MeasuredStep DEF SuiteIInv
    <3>2. mode' = mode /\ deps' = deps /\ fails' = fails /\ reports' = reports
      BY <2>1, ModeIsFixed
    <3>3. ASSUME mode = "bounded", NEW i \in DOMAIN reports PROVE Determined(reports[i])'
      <4>1. Determined(reports[i])
        BY <3>3 DEF SuiteIInv
      <4> QED
        BY <3>2, <4>1, StaysDetermined
    <3> QED
      BY <3>1, <3>2, <3>3 DEF SuiteIInv
  <2> QED
    BY <2>1, RerunKeeps DEF SuiteNext, allVars
<1>3. SuiteIInv => ReportsAgree
  BY DEF SuiteIInv, Determined, ReportsAgree
<1> QED
  BY <1>1, <1>2, <1>3, PTL DEF SuiteSpec
=============================================================================
