# agent-execution-lab: TLA+ models and proofs

The repository is a series of small labs on executing agent actions safely: retries and idempotency, checkpoints, the
gap between an external commit and its checkpoint, pauses for a human, a dependency scheduler, worker leases. Each lab
runs a deliberately broken *baseline* against a *treatment* and reports what happened. The tests run a few fixed
schedules. This directory models the labs' mechanisms under every schedule of small instances (TLC), and proves for
all instances (TLAPS) every safety property and refinement that those runs check.

Paths below are relative to the repository; `lab11.py` stands for `src/agent_execution_lab/lab11.py`.

## 1. Inventory

| Part | State | Operations | Interacts through | What is hard |
|---|---|---|---|---|
| Lease store (`lab11.py:56-93`) | `lease.json`: next token, step, owner, token, expiry | `acquire`, `snapshot` | an exclusive `flock` on a lock file | expiry judged by an argument read before the lock; takeover; tokens outlive their lease |
| Fenced effect service (`lab11.py:96-139`) | `effects.json` | `commit` | takes the *lease's* lock, reads the lease | a late commit of a superseded owner; the same worker id twice; duplicate commits |
| Leased and baseline workers, `_spawn_pair` (`lab11.py:142-219`) | process memory, result lines | worker functions behind a barrier | store, service, results file | death in any gap, both workers racing |
| Operation identity (`lab07.py:31-32`) | none | `stable_operation_id` | used by labs 7, 9 and 11 | two steps must not share an identity |
| External service (`lab07.py:46-91`) | one JSON file: effects, index by operation, calls | `commit_unkeyed`, `commit_idempotent`, `reconcile` | file replaced atomically, no lock | index and effects must agree after any crash |
| Pending step (`lab07.py:35-44, 97-124`) | state file per step | `execute_pending_step` | external service | death between commit and checkpoint |
| Approval service (`lab09.py:27-70`) | approval file: requests, decisions, next number, decision count | `request`, `decide`, `decision` | worker and human replace the same file | lost updates, repeated or contradicting decisions |
| Pausing worker (`lab09.py:73-134`) | pause record | `run_worker` | approval and external service | death between any two writes; resuming under the same identity |
| DAG execution (`lab10.py:15-135`) | recorder (locked), main thread's locals, thread pool | `execute_sequential`, `execute_bounded_dag`, `execute_naive_parallel_all` | lock; unlocked reads of the recorder by the main thread; futures | reads racing updates, blocked and cyclic tasks, the worker bound |
| Architecture suite (`eval_suite.py`) | report and fingerprint | `run_architecture_eval_suite` | calls labs 7 to 11 | is the fingerprint a function of the seed? |
| Agent loop (`lab01.py:89-218`) | a record per run: status, steps, events, failures; the tool's call count | `AgentLoop.run` (asyncio), `FakeTool.execute` | policy, tool under a timeout | step budget, a tool that hangs, every error path leaving the record consistent, a tool shared by runs |
| Tool gateway (`lab02.py`) | service records by key | `ToolGateway.write` (asyncio), `direct_write` | tool service | a timeout against a late write; concurrent calls |
| Ambiguous write (`lab03.py`) | service effects by key | `blind_retry`, `safe_write` | fake ambiguous service | response lost after the commit |
| Checkpointed worker (`lab04.py`) | checkpoint file, effect log | `save`, `load`, `append_effect`, `worker` | files | death between effect and checkpoint, damaged checkpoints |
| Sandboxed trials (`lab05.py`) | a workspace per trial | sandbox factory, trials | directories | one trial seeing another's output |
| Event log (`lab08.py`) | a file with one event per line | `append`, `replay` | its file | duplicates, reordering, gaps, conflicting events, a writer that dies in a line |
| Eval harness (`lab06.py`) | none | runs labs 1 to 5, compares numbers | calls | none: sequential |
| `__init__.py` | none | re-exports | none | none |

What makes each part correct:

- **Lease and sink.** Only one unexpired lease of a step at a time; effects appear in token order and once per
  operation; "committed" is never said of an effect that is not in the file; a race without expiry has one winner.
- **Commit gap.** The checkpoint is never ahead of the service; one write call and one effect per operation; each
  pending step is completed at last. The baseline's damage is exactly one effect per death in the gap.
- **Pause.** No privileged effect without the approval of its own request; decisions are neither lost nor reversed; a
  requested pause ends with a recorded rejection, or with the approved effect, made exactly once.
- **DAG.** No task before its dependencies, none twice, never more than `max_workers`; the loop returns for every
  graph, and by then everything that can complete has, and nothing else started.
- **Suite.** Two runs with one seed have the same fingerprint (which is false: finding 3).
- **Tool gateway.** A denial or a timeout has no write behind it; calls under one key, concurrent or repeated, share
  one effect and one answer; each call that its caller did not abandon leaves exactly one audit event. The direct
  baseline writes once per call.
- **Ambiguous write.** A key is written once however many responses are lost; a call that fails has written nothing.
- **Checkpointed worker.** Steps run in order without gaps; exactly those effects are repeated that a death made the
  program forget; a damaged or foreign checkpoint stops the worker, which leaves it as it is.
- **Event log.** Replay is a function of the set of events and refuses gaps, conflicts and damaged lines; it hides no
  appended event, and a state it has told is never taken back.
- **Lab 11's experiment.** Nobody passes the barrier without the other; `_spawn_pair` returns results of a finished
  race only; the suite's verdict on the pair is the same for every schedule; without fencing a step is duplicated
  across a takeover and in no other way.
- **Agent loop.** Never more steps than the budget, one tool call per step that calls and none after a failure; an
  injected failure hits its own call, or one that another run's call overlaps; trace, steps and metrics tell the same
  story; every run ends, though a tool may hang.

The list of hazards, each at its line and with the properties that cover it, is in `PROJECT.json`.

## 2. Modules

```
OperationIdentity ── used by WorkerLease, CommitGap, HitlPause
EffectSink   (abstract: an operation takes effect at most once)
  ^ implemented by FencedSink, CommitGap (treatment), HitlPause, SafeWrite, ToolGateway
FencedSink   (abstract: epochs; only the current epoch makes effects)
  ^ implemented by WorkerLease ── extended by WorkerRace (the experiment's processes)
                     ^ implemented by LeaseLock, which extends it (the bodies step by step, under the lock)
ExternalService (operators on the service's record) ── instantiated by CommitGap, HitlPause
Subsequences (the keyed writes among all writes) ── extended by SafeWrite, ToolGateway
Checkpoint   (stands alone: without identities there is no sink to implement)
EventLog     (stands alone: the algorithm of replay against a declarative reference)
AgentLoop    (stands alone: one service, the tool, whose answers are not effects)
TaskGraph    (abstract: executing a dependency graph)
  ^ implemented by DagScheduler ── extended by DagFingerprint (two executions in the suite)
```

Each component's proofs are in a module of their own that extends it: `WorkerLeaseProofs` (with `WorkerRace`,
`LeaseLock` and `FencedSink`), `CommitGapProofs`, `HitlPauseProofs`, `DagSchedulerProofs` (with `DagFingerprint`),
`CheckpointProofs`, `KeyedWriteProofs` (`ToolGateway` and, as an instance, `SafeWrite`, whose refinements rest on the
same lemmas about subsequences), `AgentLoopProofs` and `EventLogProofs`.

Each `MC*` module only gives values to constants of the module it extends. Operators whose name has a suffix after an
underscore and whose comment begins with "Mutant of" are faulty variants of the next definition. They are not part of
a specification; they document, for each property, a plausible bug that the property detects.

### WorkerLease (lab 11)

`lease` is `lease.json`, `effects` is `effects.json`, `results` the set of distinct lines of `results.jsonl`. `grants`
is a history variable: `grants[t]` is what was granted with token `t`. `clock` is real time, `local[p].now` the
reading a call carries, any value within `Skew` of the clock at the moment the worker reads it.

| Action | Code |
|---|---|
| `CallAcquire` | worker starts, reads its clock, is about to wait for the lock |
| `AcquireRefused`, `AcquireGranted` | the body of `LeaseStore.acquire` under the lock |
| `CallCommit` | worker reads its clock again, is about to wait for the lock |
| `CommitRejected`, `CommitDuplicate`, `CommitEffect` | the three returns of `FencedEffectService.commit` |
| `Report` | the line in `results.jsonl`, the worker's end |
| `Crash` | the process dies at any point outside an atomic file replacement |
| `Tick` | time passes |

A body is one action because it runs whole under one exclusive lock, and writes its file last through an atomic
replacement: if the process dies inside, the file is the old one or the new one and the memory is lost, which is a
`Crash` before or after the action. That this is so is not only argued but checked and proved: `LeaseLock` takes the
bodies apart. The lab's workers pass the constants `now=0` and `now=1`; a caller of the store may pass any clock, and
the model lets it. Worker ids are shared between processes, since nothing in the code makes them unique.

### WorkerRace (lab 11, its verdict in the suite)

Extends `WorkerLease` by the experiment around the store. A behaviour follows one `scenario`:

- `free`: the steps of `WorkerLease` as they are (`FreeSteps`), of which the lab's takeover timeline is one.
- `leased`, `baseline`: `_spawn_pair`. `StartProcess` starts the pair in order; `Barrier` is the wait of a process,
  the second of which lets both go on. A process that is dead when the second comes does not count: one killed before
  it came was never counted, and for one killed asleep the second waits in vain, because `notify_all` waits for those
  it wakes. The history variable `passed` keeps who got past the barrier, so that `PassedTogether` can tell a process
  killed since from one killed before it came. A leased worker then makes the store's and the sink's steps with the
  constants 0 and 1 for its readings (`LeasedWorks`) and reports; a baseline worker appends its effect
  (`BaselineCommits`). Meanwhile the main process joins them in turn: `Joined`, or `JoinTimesOut`, which kills the
  process it waits for and raises whatever the other one does. `Dies` is a kill from outside. `stage` says how far a
  process is, `main` and `turn` where the main process is, and `lines` is the baseline's `effects.jsonl`.
- `unfenced`: owners of leases append to `UnfencedEffectService` (`CommitUnfenced`); `lines` is its file.

`claim_passed` is the part of `_lab11_comparison` that is about the pair. `ClaimHolds` says more than that it can
pass: once `_spawn_pair` has returned it passes in every state, however late the files are read, unless a worker was
killed, and then it does not. If `_spawn_pair` raises, it promises nothing: the other process may go on.

### LeaseLock (lab 11, under the lock)

Extends `WorkerRace` by the steps inside `acquire` and `commit`. `holder` is the process that has the `flock` on the
lease's lock file, `at[p]` says how far `p` is in a body, and `memory[p]` is the copy of the file it read last. What
`WorkerLease` has as one action is here a path through several, and anybody else may step in between:

| Action | Code |
|---|---|
| `Lock` | `fcntl.flock(LOCK_EX)` returns; until then the process waits, having read its clock |
| `ReadLease` | `_read_locked`, the first line of both bodies |
| `RefuseLease` | `acquire` finds the lease active and returns `None` |
| `ReplaceLease` | `os.replace` of `lease.json` by the updated copy |
| `RejectCommit` | `commit` finds the lease not authoritative and returns `False` |
| `ReadEffects` | `commit` found it authoritative and reads `effects.json` |
| `FindDuplicate` | the operation is among the effects read: `commit` returns `True` |
| `ReplaceEffects` | `os.replace` of `effects.json` by the updated copy |
| `Unlock` | the `finally` clause of `_exclusive_lock`, on every way out |
| `Dropped` | with `Crash`, `Dies` or `JoinTimesOut`: the process dies anywhere, and the kernel drops its lock |

The decisions and the new contents (`Active`, `Granted`, `Authoritative`, `AlreadyCommitted`, `EffectOf`) are the
operators of `WorkerLease`, applied to `memory[p]` instead of the file. The scenarios are those of `WorkerRace`
(`OwnerSteps`, `HarnessSteps`). `CallsAreAtomic` says that the whole implements `RaceSpec`: the steps at which a body
decides for a return, or replaces its file, are its action, and the others are not seen. It quotes the comment in
`FencedEffectService.commit`; if the sink locked a file of its own, it would be false. A temporary file is named after
its process, so that two never share one; what a dead process leaves of it nobody reads.

### ExternalService, CommitGap (lab 7)

`ExternalService` has the methods of `FileExternalService` as operators from record to record. `CommitGap` has one
`status` per step (the state file), the service's record and the one running worker. `mode` is chosen initially.
`Start` reads the state file, `Reconcile` and `Commit` are the service calls, `Record` replaces the state file.
`Crash` may happen before each of them. `gapCrashes` is a history variable counting deaths between commit and record.
One worker runs at a time because the experiment invokes workers through `subprocess.run`.

### HitlPause (lab 9)

`approvals` is the file of `FileApprovalService`, `pause` the pause record, `service` the external service, `memory`
what the running worker holds. `request` and `decide` load the file, change the copy and replace the file without a
lock; each is therefore two actions (`RequestLoads`/`RequestSaves`, `HumanLoads`/`HumanSaves` or `HumanConflicts`),
and the human's decision may fall between the worker's two. `overlap` says whether the human may act while a worker
runs. The lab's own experiment acts between workers only; both are run. In the treatment the approval id is a function
of the operation id and is written to the pause record first (`WritePause`); in the baseline it is the next number and
lives in memory.

### DagScheduler, TaskGraph, DagFingerprint (lab 10, suite)

The main thread reads `failed` and `completed` without the recorder's lock while pool threads add to them. Its two set
comprehensions are therefore loops of one action per pending task (`ScanBlocked`, `ScanReady`), in any order. Reading
all dependencies of one task is one action: the sets only grow and each task's condition is monotone in them, so
reading the members one by one can only give the answer of an instant in between. `Submit` hands the least ready task
to the pool, `Collect` is `wait(FIRST_COMPLETED)` with all futures resolved by then, `Break` leaves the loop. A pool
thread goes through `Begin` (first locked block), `Finish` (the outcome), `Leave` (the `finally` block) and `Resolve`
(the future's result); the windows between them are where the main thread can see a completed task that is still
counted as running.

`mode` also selects the two other executions, which take the tasks in their order: `execute_sequential` passes over a
task with a failed dependency (`PassOver`) and runs the others one by one (`Launch`, `Returned`);
`execute_naive_parallel_all` launches all and then waits for each. They share the recorder and its invariants.
`FinalOutcome` is about all three and says that the recorder's `dependency_violations` are a sufficient check: an
execution that recorded none did exactly what the bounded one promises. (The sequential one may run a task behind one
it passed over; the recorder tells.) The tasks that can complete, `Completable`, are a least fixed point, stated as
the intersection of all sets closed under "all its dependencies are in the set and it does not fail".

`DagFingerprint` runs the fixture twice, as two runs of the suite do, and keeps both reports. `ReportsAgree` says what
they do have in common, for every graph: the tasks that completed, failed, were started and violated a dependency.
They may differ in the order of `started` and in `max_concurrency`, which lies between one and `MaxWorkers` if
anything was started. (`eval_suite.py:101` requires two for `treatment.normal`; the reports with a failure and of the
naive execution are hashed whatever they measured.)

### AgentLoop (lab 1)

`status`, `steps`, `events` and `tool_failures` are the fields of each run's `RunRecord`; `steps[r]` holds what became
of each decision. The policy is free to answer anything at each step, which covers every `ScriptedPolicy`, and may
raise (`DecideRaises`). Runs are coroutines of one event loop and may share a tool: `ExecuteBegins` and `ExecuteEnds`
are `FakeTool.execute` before and after its delay, and a tool that is never fair to end models one that hangs.
`Timeout` is the timer of `asyncio.wait_for`. What the code does between two suspensions is one action or several with
nothing shared in between. `number` is a history variable: the number each call had when it began, which the tool does
not remember; it looks at `calls` again after the delay. When runs share the tool, another run's call may therefore
make the wrong call fail, or none. `FailsAsInjected` says how far a failure strays: a call can only have seen the
counts from its own number to the last before its run's next call (`Seen`), and one of these must be injected if it
failed, or not if it did not. For a run alone with its tool `Seen` is the call's own number and the statement is
exact. The timeout is taken to be positive: with none left, `asyncio.wait_for` cancels a call that never began to
count. `NoHiddenRetry` says that `number` is a bijection between the calls that steps account for and the numbers the
tool has given: nothing else called it. `Trace` is the event sequence that a list of steps and a final status
determine.

### ToolGateway (lab 2)

Each caller has one request, any combination of action, value and key, well-formed or not, through the gateway or by
`direct_write`, which skips checks, key, timeout and audit; it may make its call again when it was answered, timed out
or abandoned. `Deny`, `Call`, `Write` (the service's write after its delay), `Timeout` and `Return` are the ways
through `ToolGateway.write`; `Abandon` is the way out of it that the gateway does not handle: the caller is cancelled
from outside, or the key is one that no dictionary takes (`Unhashable`), which passes the check for a missing key and
raises in the service (`lab02.py:17`). It leaves no write and no audit event; the history variable `abandoned` counts
such calls. The write and the audit event are two actions because `asyncio.wait_for` of Python 3.11, the oldest
version the project accepts, runs the write in its own task; in no version does it report a timeout for a write that
was done. The service's only await is before its write, and `NoEffectBehindTimeout` rests on that: a service that
suspends after its commit is what `labs/02-tool-gateway/RESULT.md:7` leaves to lab 3 ("ambiguous
timeout-after-commit"). `writes` keeps for each write the call that made it.

### SafeWrite (lab 3)

`writes` and `by_key` are the fields of `FakeAmbiguousService`. Each attempt ends as `Answered`, `FailedBefore` or
`LostResponse`, freely chosen: the service's list of `modes`. A caller without a key is a call of `blind_retry_write`,
or of `safe_write` with an empty key, for which the reconciliation finds nothing and the retry is as blind. `lost` is
a history variable.

### Checkpoint (lab 4)

`saved` is the checkpoint file: absent, damaged, or a task and its next step. A worker is `Start`ed, which reads the
file, or `Refuse`d; then `AppendEffect` and `Save` alternate. `Damage` replaces the file by one that `load` rejects.
Which of `load`'s checks rejects it makes no difference to what follows. `redo` is a history variable: how often a
death made the program forget that the effect of a step is in the log. `owner`, also history, is the task that last
saved the file; `ForeignUntouched` says with it that only that task, or damage from outside, replaces the file or adds
effects while it lies there, and that a damaged file which no worker holds is left, with no worker running on it, for
ever. That a task which is done is not started again is an assumption on the caller: the worker has no such check
(`lab04.py:84-105`), and started again it would find the checkpoint past its last step and end, or, as the baseline,
run all its steps again.

### EventLog (lab 8)

`log` holds what each line of the file reads as: an event, or `Torn` for a line that does not parse. `append` writes a
line; `AppendDies` leaves a part of it, or all of it but the newline, and the next event is then written behind it on
the same line (`Glued`), which no longer parses. `replay` is the operator of that name, built from what the code does
in turn: `Conflicting`, `Canonical` (the orders that `sorted` may give, more than one if a number occurs twice),
`Contiguous`, and `Reduced`, the loop over `Reduce`; and `Replay` opens the log and remembers the answer in the
history variable `known`. `acked` is the set of events whose `append` returned. `History` is the reference: the sets
of events that are a history of a step. The baseline `apply_mutable_snapshot` is applied to the arrivals in the file's
order.

## 3. Runs

| Run | Instance | Shows |
|---|---|---|
| `lease_takeover` | `LeaseLock`, all four scenarios; 2 processes, 2 starts each, 2 worker ids, TTL 2, skew 1, clock to 2, 1 crash | The bodies taken apart do what their actions do (`CallsAreAtomic`); every property of `WorkerLease`, the refinement `FencedSpec`, the cost of an unfenced sink, the barrier, the verdict on the pair |
| `lease_two_steps` (violation) | 3 processes, 2 steps in one store, no skew, no crash | A lease of one step is overwritten by a request for another (finding 1) |
| `commit_gap` | both modes, 2 steps, 4 crashes | Exactly-once in the treatment, exactly `gapCrashes` extra effects in the baseline, completion in both |
| `hitl_pause` | treatment with overlap, baseline with and without, 3 crashes anywhere, 4 deliveries, 3 numbered requests, 3 service calls | Approval before effect, final decisions, at most one effect, an end of every requested pause |
| `hitl_lost_request` (violation) | treatment, 1 crash | A pause that is never resolved (finding 2) |
| `safe_write` | 3 callers, 2 keys or none, 3 attempts | One write per key, results that exist, failures without effects, the cost of blind retry |
| `tool_gateway` | 2 callers, all pairs of 30 requests (6 of them direct), 3 calls each | No write behind a timeout or denial, one audit event per call not abandoned, one effect and answer per key, one write per direct call |
| `agent_loop` | 2 runs with one tool, budgets 0 to 2, 4 sets of failing calls | Budget, no hidden retry, a consistent record, failures where a call saw an injected one, every run ends |
| `checkpoint` | both modes, 2 tasks on the same files, 3 steps, 3 crashes, 1 damage | Exact account of repeated effects, order, foreign and damaged files left alone, completion |
| `event_log` | 3 ids, sequences 1 to 3, both kinds and an unknown one, 4 lines | Replay against the reference, no event hidden by a torn line, answers that stay |
| `dag_all_graphs` | all 512 graphs on 3 tasks with all 8 sets of failures, 2 threads, for the bounded and the sequential execution; the naive one on the 8 graphs in task order | Safety of every schedule, refinement of `TaskGraph` by the bounded execution, the outcome of each that records no violation, termination |
| `dag_same_report` (violation) | the lab's fixture, executed twice | Two reports differ in `started` or `max_concurrency` (finding 3) |

Each module has one type invariant, `TypeOK`. It is checked as a part of the invariant that describes the module's
well-formed states (`LeaseInv`, `RaceInv`, `GapInv`, `PauseInv`, `SchedulerInv`, `WriteInv`, `GatewayInv`,
`CheckpointInv`, `LogInv`, `LoopInv`), beside statements that are checked there because others build on them: durable
answers in `LeaseInv`, one decision per request in `PauseInv`, permitted writes in `GatewayInv`.

**Bounds.** A takeover needs two owners and an expired lease: a clock that can pass one TTL, and two processes that
can restart, give a stale owner, its successor and a third acquirer, under equal or different ids; a skew of one tick
makes readings from before and after the real time. The one crash may come between any two steps of a body, with the
lock held, and the other process is then waiting for it, or reads what was left. Four crashes for two steps allow a
step to be killed in the gap more than once and after another step was completed. Three crashes, three baseline
requests and four deliveries allow a decision repeated, a contradicting decision, and a restart after each of them.
Three callers on two keys give a shared key next to an independent one, or two keyless calls next to a keyed one; two
concurrent gateway callers with three calls each give every overlap of a timed-out call, its repetition and a rival
under its key. Three steps and three deaths let a task die in the gap of one step twice, or of different steps. Four
lines hold the two events of a step with two duplicates, conflicts or torn lines between them; every legal history has
two events, so a third sequence number is already wrong. The ids of events are symmetric: replay only compares them
with one another. Three tasks give chains, forks, joins, self-loops and cycles; with two threads more can be ready
than may run. The naive execution reads no dependency except to record a violation, so graphs in task order show all
it can do. Two agent runs are the least that share a tool; two steps give a failure in the first, in the last and in
none, and a budget used up before any of them. All bounds (`MaxTime`, `MaxStarts`, `MaxCrashes`, `MaxRequests`,
`MaxDeliveries`, `MaxDamages`, `MaxCalls`, `MaxArrivals`) are constants that appear only in guards. Deadlock is not
checked: in each model the system stops when its work, or a bound, is used up.

**Fairness.**

- `CommitGap`: weak fairness of the worker and of `Start`. Someone invokes the worker again while a step is pending,
  as the experiment does. The number of crashes is finite by its bound.
- `HitlPause`: the same, and weak fairness of the human, who answers requests that are in the file. An unanswered
  request rightly waits for ever, so no statement about the end of the wait holds without this.
- `AgentLoop`: weak fairness of each coroutine, which includes the timer of a call under way, and none of the tool's
  answer: the event loop runs what can go on, and a tool may hang.
- `WorkerLease`, `WorkerRace`, `LeaseLock`, `SafeWrite`, `ToolGateway` and `EventLog` have no liveness property: their
  calls go through a bounded number of steps and wait for nobody but, in lab 11, the holder of the lock, who waits for
  nobody.
- `Checkpoint`: as for `CommitGap`, for each task.
- `DagScheduler`: weak fairness of the main thread and of each pool thread; a task's work is a `sleep`.

**What could be mistaken for a promise.** `ExclusiveStepLease` is about a store that leases one step. `RacesSettle` is
about races in which no clock can have reached the expiry, as in the lab. `PauseInv`'s one decision per request and
`DecisionsAreFinal` exclude the baseline with an overlapping human: there a second request, loaded before a decision
and saved after it, does lose the decision. `SinkSpec` of `SafeWrite` and of `ToolGateway` is about keyed writes only.
A key that is reused for another payload is answered with the first payload's result by both fake services; no
property excludes that. `RequestedIsSettled` starts from a request that was saved; from the pause record alone it is
false (finding 2).

## 4. Findings

1. **A lease store holds one lease, whatever step is asked for** (`lab11.py:72`). The exclusivity the lab's question
   promises per step fails when two steps use one store; the sink stays fenced and at-most-once, which is proved.
2. **A pause without a request** (`lab09.py:114`). A worker that dies between writing the pause record and requesting
   the approval leaves a wait that no human sees and no restart repairs.
3. **The fingerprint depends on the schedule** (`eval_suite.py:109`). `started` is in the hashed report in the order
   in which threads took a lock (`lab10.py:35`), and so is `max_concurrency` (`lab10.py:34`): in the fixture with a
   failing A it is one if A fails before B begins, and two otherwise. The sets of completed, failed, violating and
   started tasks cannot differ; the graph and the failures alone determine them (theorem `ReportsDifferInSchedule`).

## 5. Proofs

Every property of section 3's passing runs except the five liveness properties is a theorem, for every value of the
constants. There is no bound on the number of workers, callers, runs, tasks, steps, crashes or events. The proofs use
induction over behaviours only: find the strengthening `IInv`, show that the initial states satisfy it and that every
action keeps it, and read the property off it. A refinement theorem adds that each step, between states of `IInv`, is
a step of the abstract specification or leaves its variables alone.

| Module | Theorem | Says |
|---|---|---|
| `WorkerLeaseProofs` | `LeaseInvariant`, `TypeCorrect`, `DurableAnswers` | `Spec => []LeaseInv` and two of its conjuncts |
| | `ImplementsFencedSink` | `Spec => FencedSpec` |
| | `LeaseIsExclusive` | `[]ExclusiveStepLease` for a store with one step |
| | `RaceInvariant`, `RaceKeepsLease`, `RaceIsWellFormed` | the experiment keeps `LeaseInv` and has `RaceInv` |
| | `BarrierHolds` | `[]PassedTogether`, for any number of processes at the barrier |
| | `RaceImplementsFencedSink`, `RaceLeaseIsExclusive` | the same two results for `RaceSpec` |
| | `RacesAreSettled` | `[]RacesSettle`, for one step and any number of workers |
| | `VerdictIsDeterminate` | `[]ClaimHolds`, for one step, the pair, and a lease that outlives the commit |
| | `CallsTakenApartAreAtomic` | `LockSpec => CallsAreAtomic`: the lock makes an action of each body |
| | `LeaseUnderTheLock` | `LockSpec` keeps `LeaseInv` and `RaceInv` and implements the fenced sink |
| | `RacesUnderTheLock`, `VerdictUnderTheLock` | `ExclusiveStepLease`, `RacesSettle` and `ClaimHolds` for `LockSpec` |
| | `SinkInvariant`, `ImplementsEffectSink` | a fenced sink is at-most-once and in the order of epochs, and is an `EffectSink` |
| `CommitGapProofs` | `CheckpointFollowsService` | `[]GapInv` |
| | `ReconciliationBeforeReplay` | `[]ReconciledBeforeWrite` |
| | `CostOfTheGap` | `[]EffectsAccountedFor`: one extra effect per death in the gap, or none |
| | `ImplementsSink` | the treatment implements `EffectSink` |
| `HitlPauseProofs` | `PauseIsSound`, `OnlyApprovedEffects` | `[]PauseInv`, `[]EffectIsApproved` |
| | `BaselineIsStuck` | `[]BaselineLosesApprovals` |
| | `NoDecisionIsLost` | `DecisionsAreFinal` |
| | `ImplementsSink` | the pause implements `EffectSink` |
| `DagSchedulerProofs` | `RecorderIsExact` | `[]SchedulerInv` |
| | `OutcomeIsFinal` | `[]FinalOutcome`, for the three ways to execute a graph |
| | `ImplementsTaskGraph` | the bounded scheduler implements `TaskGraph` |
| | `ReportsDifferInSchedule` | `[]ReportsAgree` for two executions in the suite: what finding 3 leaves intact |
| `CheckpointProofs` | `LogIsAccountedFor`, `TasksResumeInOrder` | `[]CheckpointInv`, `[]ResumesInOrder` |
| | `ForeignIsUntouched` | `ForeignUntouched` |
| `KeyedWriteProofs` | `OnlyPermittedEffects`, `TimeoutsAreClean`, `EveryCallIsAudited` | `GatewayInv`, `NoEffectBehindTimeout`, `CallsAccountedFor` |
| | `ResultsAreWritten`, `CostOfBlindRetry` | `WriteInv` of `SafeWrite`, and its conjunct `WritesAccountedFor` |
| | `GatewayImplementsSink`, `SafeWriteImplementsSink` | both services implement `EffectSink` for their keys |
| `AgentLoopProofs` | `BudgetAndNoRetry`, `RecordTellsRun`, `FailsOnInjectedCalls` | `NoHiddenRetry`, `TraceTellsRun`, `LoopInv` |
| `EventLogProofs` | `NoEventIsHidden`, `ReplayIsFunctionOfSet` | `[]LogInv`, `[]ReplayIsReference` |
| | `SnapshotIsLastArrival`, `AnswersStay` | `[]SnapshotFollowsLastArrival` (not in a run), `StateNeverRegresses` |

Each module also has its inductive invariant as a theorem (`InductiveInvariant`, or `LeaseInvariant`, `RaceInvariant`,
`LockInvariant`, `GatewayInvariant`, `SafeInvariant`). What the checked properties of `SafeWrite` say is proved of an
instance of it, `Safe`, in the module of the gateway's proofs: the theorems name them `Safe!WriteInv` and
`Safe!SinkSpec`.

### Assumptions

They are the named `ASSUME`s of the modules, which TLC evaluates in the runs. Ids are sequences of symbols; a
placeholder (`None`, `Bad`, `NoKey`, `Torn`, `Damaged`) is none of the values it is to be told from, as Python's
`None` is neither a string, a number nor a record, nor a process (`LockParameters`: nobody holds the lock); bounds are
naturals; `Ttl` and `Skew` are naturals; `MaxWorkers` and the attempts of `safe_write` are at least one, as is a
caller's number of calls; tasks, callers and the pending steps are finite sets. Some theorems have hypotheses of their
own:

- *One step per store* (`LeaseIsExclusive`, `RaceLeaseIsExclusive`, `RacesAreSettled`, `VerdictIsDeterminate` and the
  two with `UnderTheLock` that follow from them). It is what the lab does, and it is needed: `lease_two_steps` is the
  counterexample.
- *The workers are the pair* and *`Ttl > 1`* (`VerdictIsDeterminate`, `VerdictUnderTheLock`). `_spawn_pair` starts two
  processes; the lab acquires at 0 with a lease of 10 and commits at 1 (`lab11.py:188, 196`).
- `SafeInvariant` and those after it repeat the assumption of `SafeWrite` about `MaxAttempts`, because they are about
  an instance of it, with a set of callers and of keys like the gateway's; the others follow from the gateway's
  assumptions.

### The argument, module by module

**WorkerLease.** No property of the sink is inductive alone. `FencedSpec` needs that a commit that passes
`Authoritative` carries the newest token. The lease file says so only if it is the last grant (`LeaseIsLastGrant`),
and the worker's copy of a token was really granted to it, for its own step (`TokensWereGranted`): without this an
owner of one step could carry the token of another. Then an authoritative worker's token is the number of grants
(lemma `AuthorityIsLast`), effects have non-decreasing tokens, and one more effect of the newest token keeps them so.
That the effect is not a duplicate comes from the guard; that looking up the operation id finds every earlier effect
of the *step* comes from operation identity being injective in the step (lemma `SameRunIdentity`), which is also what
makes an acknowledged duplicate durable (`AnswerIsDone`). `CommittedIsDurable` is kept by every step because grants
and effects only grow (`GrowsKeeps`, `DoneByStable`). Exclusivity needs one more step-invariant
(`SupersededHasExpired`): an earlier grant has expired up to the skew. It holds initially, the clock only moves
forward, and a new grant finds the file's lease expired by a reading that is at most `Skew` ahead (`ReadingsAreOld`).
A reading taken long before the lock only delays the takeover.

**WorkerRace.** The unfenced sink makes one effect per grant at most because no two processes carry one token
(`TokensHeldOnce`), and `_spawn_pair` starts and joins in order (`HarnessInOrder`). These two, with `LeaseInv`,
`RaceInv` and `PassedTogether`, are inductive (`RaceIInv`): whoever passes was put into `passed` together with all
others, by the last to come, which found each of them asleep and alive. A race in which nobody is killed and no
reading can have reached an expiry (`Calm`) goes through four phases, and the proof of `RacesSettle` is that it is
always in one (`RaceHasPhase`): nobody has the lease; its owner holds it; the effect is made and its owner told; the
owner has reported. In each the one token is carried by one process, so every other process can only be refused. For
the verdict, what a process of the pair has done when it exits, and what it takes to be killed, is an invariant too
(`ExitsAreComplete`); then "joined" means that both have reported, and the pair's results are those of a settled race.
In the baseline the effects are as many as the processes that exited.

**LeaseLock.** The invariant (`LockInv`) says of each process what it knows (`Knows`): it is inside a body exactly if
it has the lock; the lease it has read is the one in the file; and once it has read the effects, they too are those in
the file, *and the lease in the file is still the one that made it authoritative*, of which it has no copy any more.
Others cannot disturb this, since only the holder replaces either file (`KnowsKept`, `BodyKeeps`), and a death takes
the knowledge with it (`ApartKeeps`). Then a step that decides on the copy decides on the file, and is the body's
action (`BodyMaps`); the others change nothing that `WorkerRace` has, so each step maps to a step of it or a stutter
(`LockStepMaps`). One fact more is needed: owners at the unfenced sink are never in `commit` (`NeverFenced`). The last
clause of the invariant is where the *one* lock for two files matters: with a lock of its own, a sink between its two
reads would not know that its lease still stands. All theorems about `RaceSpec` carry over.

**FencedSink.** `Perform` appends the newest epoch, so epochs stay in order; everything else of `EffectSink` is its
guard. The composition of this theorem with `ImplementsFencedSink` is what lab 11 promises in addition to labs 7 and
9.

**CommitGap.** `GapInv` says that completed steps are committed. It is kept only because the worker is at `pending`
when it writes (`WorkerIsPending`), a baseline never asks the service (`BaselineNeverAsks`), and what the call log
holds of writes was looked for and not found, and is committed now (`WritesFollowReconcile`). The account of the
baseline counts completed steps, deaths in the gap, and the effect of a worker that is in the gap now: a death moves
that one from the last to the second, a record to the first. In the treatment a commit adds an effect and a step whose
identity is in the index, and no other step, since identities of different steps differ (`IdentityTellsSteps`).

**HitlPause.** Both actors load the approval file, change a copy and replace the file. The invariant says what a copy
may miss: a worker's copy is behind the file by decisions, the human's copy is not behind in decisions but may miss
requests (`CopiesInOrder`), and where decisions must be final a copy is the file (`CopiesAreCurrent`). In the
treatment this is so because the request is the first thing that happens to the file: until the pause record has its
request, nobody else can have changed it (`TreatmentInv`). `EffectIsApproved` follows from the decision that a
committing worker holds being that of its own request. In the baseline without overlap the worker always holds a new,
undecided request when the human is gone (`BaselineInv`), so it makes no effect whatever was approved.
`DecisionsAreFinal` is proved as what an action may do.

**DagScheduler.** What the main thread found in an earlier scan is still true when it uses it: `Runnable` is monotone
in `completed`, which only grows (`BoundedInv`). The recorder's counts are exact because each call is at one stage of
its thread, from which the recorder's sets can be computed (`StagesAgree`); `busy` is then a cardinality, bounded by
the futures, which are bounded by the workers. The delicate part is that the loop does not leave a task that could
run: the main thread may have passed over a task just before its last dependency was recorded. It leaves only when
nothing is running, and a task that was passed over while nothing is running is still not runnable, since no thread is
left to change it (the clause of `BoundedInv` about `pending \ (todo \cup ready)`). That gives the outcome for this
mode. For all three, `Audited` says that while no violation is recorded only completable tasks complete: if `S` is
closed, the dependencies of a runnable task were completed, hence in `S`, hence so is the task. At the end the set of
completed tasks is itself closed (`OutcomeAtEnd`), hence contains `Completable`. The sets in a report of the bounded
execution are therefore determined by the tasks (`ReportDetermined`), what it measured is between one and the workers
(`Measured`), and the suite's second execution starts from the same state as the first (`RerunKeeps`). `TaskGraph` is
implemented because `Begin` finds its task runnable.

**Checkpoint.** A death forgets the effect of a step exactly if it comes between the effect and its save. The account
is stated with what the program *knows*: the count of an effect is `redo` plus one if the running worker or the file
still tells of it (`LogAccountedFor`). It must hold also while the file is damaged, as long as a worker runs: that
worker does not read the file again and its next save mends it. The order of steps needs where the last effect of a
task is in relation to where it would resume (`LogMeetsResume`), for the tasks that may run at all (`MayRun`): a
damaged or foreign file stops a task for good, and then its log is left alone. `ForeignUntouched` needs in addition
that the task at work is the one that last saved the file, if any did (`Ownership`).

**ToolGateway, SafeWrite.** The index of each service is of its keyed writes (`IndexIsOfWrites`), calls in flight were
checked (`CallsWereChecked`), and the account of direct and blind writes is a sum over finite sets. The abstract sink
sees the subsequence of keyed writes. That appending an element to a sequence appends it to the subsequence, or leaves
it alone, is the main lemma of the module; `Subsequences` defines selection by counting so that it can be proved.

**AgentLoop.** A run is going on, has used up its budget, or ended with its last step (`RunOK`); in each case status,
number of steps, number of calls, failures and the trace so far are determined. Runs interact through the tool's
counter alone: each call has its own number (`NumberedOnce`), none above the count, so the count that a call sees when
it ends is among those of `Seen` (`LooksAtTheLast`); another run's call only adds to them (`OthersSeeMore`), and the
run's own next call closes them (`BeginningCloses`).

**EventLog.** Until a line is damaged the file has every acknowledged event, and the last state that was told is the
state of a subset of its events (`Kept`); a damaged line stays, and no replay succeeds any more. That replay computes
the reference is not an invariant of behaviours but a fact about loops over sequences of any length. The lemmas
`LoopExists` (such a loop has a state after each step), `RaisesStays` and `ReductionEnds` prove it: a reduction that
does not raise has at most two steps, so only three kinds of canonical order remain. The induction is over the set of
numbers with the property, from the well-foundedness of `<` (`SetInduction`). Theorems of the libraries that take a
property as an operator parameter cannot be instantiated by the provers used here.

### Left to TLC

Liveness under fairness: `EveryStepCompletes`, `RequestedIsSettled`, `EveryTaskEnds`, `EveryRunEnds`, `Terminates`.
The three runs that expect a violation. TLC checks on small instances everything that is proved, too, and for each
property shows that a plausible bug would violate it.

## 6. Not modelled

- What `flock` and `os.replace` do inside: that one process at a time has the lock, that it is dropped when the
  process dies, and that a file is replaced at once, is what the operating system promises and `LeaseLock` assumes.
  The locks of `_append_json_line`, whose body is one append; two unsynchronised writers of one temporary file;
  damaged JSON.
- Lab 5: sequential methods of a few lines on a directory tree. Whether a path stays inside the root after resolution,
  and what copying and removing a tree leave, is decided by the file system; a trial has no step another could come
  between.
- The `operation_id` of an event, which `replay` reports and does not use: a log with the events of several operations
  is reduced as one history. Whether a write that dies leaves a part of its line is up to the operating system; the
  model lets it.
- Payloads and messages of labs 2 and 3 beyond who wrote them; the metrics of `safe_write`.
- `lab06.py` and the grading in `eval_suite.py` other than of lab 11's pair: sequential comparisons of the numbers of
  deterministic reports. Wall-clock times, messages, formatting and command-line entry points.
- That the timed join ends a wait at the barrier for a process that died: a join with a timeout returns by what it is,
  and `LockSpec` has no fairness. A tool timeout that is not positive (lab 1).

## 7. Plan

In order of importance; done items are described above.

1. *Done:* lease and fencing (`FencedSink`, `WorkerLease`), with invariant, refinement and exclusivity proved.
2. *Done:* commit gap, human pause, bounded DAG, fingerprint: modelled and checked.
3. *Done:* the first labs' write paths (`SafeWrite`, `ToolGateway`, `Checkpoint`): modelled and checked.
4. *Done:* `EventLog` (lab 8): `append` and `replay` against a reference, `apply_mutable_snapshot` as the baseline.
5. *Done:* `AgentLoop` (lab 1), and the direct baseline of lab 2.
6. *Done:* `WorkerRace` (rest of lab 11) and the sequential and naive executions of lab 10.
7. *Done:* proofs for every modelled component: each safety invariant and action property that a passing run checks,
   and each refinement.
8. *Done:* `LeaseLock`: `acquire` and `commit` at the granularity of lock, read, replace and unlock, shown by TLC and
   proved to implement `WorkerRace`, which makes its theorems theirs; and what two reports of the suite have in
   common.

Not planned: liveness proofs, which are beyond this prover; labs 5 and 6 (section 6).
