------------------------------ MODULE WorkerRace ------------------------------
(***************************************************************************)
(* The experiment of lab11.py around the lease store: _spawn_pair starts   *)
(* two processes that meet at a barrier and joins them with a timeout;     *)
(* they run _leased_worker or _baseline_worker.  In the scenario           *)
(* "unfenced" lease owners commit to the planted UnfencedEffectService     *)
(* instead, and in "free" they are WorkerLease's, without a harness.       *)
(***************************************************************************)
EXTENDS WorkerLease, FiniteSets

CONSTANTS
  Scenarios,    \* which of "free", "unfenced", "baseline" and "leased" to run
  Pair,         \* the two processes in the order _spawn_pair starts them
  PairId        \* the worker id of each

ASSUME PairParameters ==
  /\ Pair \in Seq(Process) /\ Len(Pair) = 2 /\ Pair[1] # Pair[2]
  /\ PairId \in [Process -> WorkerId]

VARIABLES
  scenario,     \* fixed
  main,         \* _spawn_pair: "spawning", "joining", "returned" or "raised"
  turn,         \* the index of the process it is about to start or join
  stage,        \* how far each process of the pair is
  lines,        \* effects.jsonl of the baseline and of the unfenced sink
  passed        \* history: the processes that the barrier let through

harness == <<scenario, main, turn, passed>>
raceVars == <<vars, harness, stage, lines>>

RaceInit ==
  /\ Init
  /\ scenario \in Scenarios
  /\ main = "spawning" /\ turn = 1
  /\ stage = [p \in Process |-> "unborn"]
  /\ lines = <<>> /\ passed = {}

Alive(p) == stage[p] \in {"started", "waiting", "passed"}

Ends(p, how) == stage' = [stage EXCEPT ![p] = how]

\* _append_json_line to effects.jsonl.
AppendLine(worker_id, token) ==
  lines' = Append(lines, [worker_id |-> worker_id, token |-> token])

-----------------------------------------------------------------------------
(* The processes of the pair                                               *)

\* p arrives at the barrier; with the last one, those that sleep there go on.
ArrivesAt(p, last) ==
  /\ stage[p] = "started"
  /\ stage' = IF last
              THEN [q \in Process |-> IF q = p \/ stage[q] = "waiting" THEN "passed" ELSE stage[q]]
              ELSE [stage EXCEPT ![p] = "waiting"]
  /\ passed' = passed \cup {q \in Process : stage'[q] = "passed"}
  /\ UNCHANGED <<vars, scenario, main, turn, lines>>

\* Mutant of Barrier: a process that is dead need not come.
Barrier_CountsTheDead(p) ==
  ArrivesAt(p, \A q \in Process \ {p} : stage[q] \in {"waiting", "killed"})

\* Barrier(2).wait: the first sleeps, and the second wakes it and both go on.  One that
\* died before it came is never counted.  One that died in its sleep is, but the
\* second then waits for it to wake (notify_all of multiprocessing's Condition).
Barrier(p) == ArrivesAt(p, \A q \in Process \ {p} : stage[q] = "waiting")

\* _baseline_worker: the state it read before the barrier was "ready", and nobody
\* ever writes another.
BaselineCommits(p) ==
  /\ scenario = "baseline" /\ stage[p] = "passed"
  /\ AppendLine(PairId[p], None)
  /\ Ends(p, "exited")
  /\ UNCHANGED <<vars, harness>>

\* _leased_worker: one acquire at time 0 and, with a token, one commit at time 1.
LeasedCalls(p) ==
  \/ starts[p] = 0 /\ (\E s \in Step : CallAcquire(p, PairId[p], s)) /\ local'[p].now = 0
  \/ CallCommit(p) /\ local'[p].now = 1

LeasedWorks(p) ==
  /\ scenario = "leased" /\ stage[p] = "passed"
  /\ \/ LeasedCalls(p) \/ AcquireRefused(p) \/ AcquireGranted(p)
     \/ CommitRejected(p) \/ CommitDuplicate(p) \/ CommitEffect(p)
  /\ UNCHANGED <<harness, stage, lines>>

LeasedReports(p) ==
  /\ scenario = "leased" /\ stage[p] = "passed"
  /\ Report(p)
  /\ Ends(p, "exited")
  /\ UNCHANGED <<harness, lines>>

\* The process is killed: its memory is lost.
Killed(p) ==
  /\ Alive(p)
  /\ Ends(p, "killed")
  /\ pc' = [pc EXCEPT ![p] = "down"] /\ local' = [local EXCEPT ![p] = NoCall]
  /\ crashes' = crashes + 1
  /\ UNCHANGED <<clock, shared, starts, grants, lines>>

Dies(p) == crashes < MaxCrashes /\ Killed(p) /\ UNCHANGED harness

-----------------------------------------------------------------------------
(* _spawn_pair                                                             *)

StartProcess ==
  /\ main = "spawning"
  /\ stage' = [stage EXCEPT ![Pair[turn]] = "started"]
  /\ IF turn = 2 THEN main' = "joining" /\ turn' = 1 ELSE turn' = turn + 1 /\ UNCHANGED main
  /\ UNCHANGED <<vars, scenario, lines, passed>>

\* Mutant of Joined: it is enough that one of them has ended.
Joined_First ==
  /\ main = "joining" /\ stage[Pair[turn]] \in {"exited", "killed"}
  /\ main' = "returned"
  /\ UNCHANGED <<vars, scenario, turn, stage, lines, passed>>

\* process.join returned in time; after the second the exit codes are returned.
Joined ==
  /\ main = "joining" /\ stage[Pair[turn]] \in {"exited", "killed"}
  /\ IF turn = 2 THEN main' = "returned" /\ UNCHANGED turn ELSE turn' = 2 /\ UNCHANGED main
  /\ UNCHANGED <<vars, scenario, stage, lines, passed>>

\* It timed out: the process is terminated and an error raised, whatever the other does.
JoinTimesOut ==
  /\ main = "joining" /\ Killed(Pair[turn])
  /\ main' = "raised"
  /\ UNCHANGED <<scenario, turn, passed>>

PairSteps ==
  /\ scenario \in {"baseline", "leased"}
  /\ \/ StartProcess \/ Joined \/ JoinTimesOut
     \/ \E p \in Process :
          Barrier(p) \/ BaselineCommits(p) \/ LeasedWorks(p) \/ LeasedReports(p) \/ Dies(p)

-----------------------------------------------------------------------------
(* Lease owners at the unfenced sink                                       *)

\* Mutant of CommitUnfenced: the owner goes on holding its token and commits again.
CommitUnfenced_Again(p) ==
  /\ pc[p] = "holding"
  /\ AppendLine(local[p].worker_id, local[p].token)
  /\ UNCHANGED <<clock, shared, bounds, grants, pc, local>>

\* UnfencedEffectService.commit takes any token.
CommitUnfenced(p) ==
  /\ pc[p] = "holding"
  /\ AppendLine(local[p].worker_id, local[p].token)
  /\ pc' = [pc EXCEPT ![p] = "down"] /\ local' = [local EXCEPT ![p] = NoCall]
  /\ UNCHANGED <<clock, shared, bounds, grants>>

UnfencedSteps ==
  /\ scenario = "unfenced"
  /\ UNCHANGED <<harness, stage>>
  /\ \/ \E p \in Process : CommitUnfenced(p)
     \/ /\ UNCHANGED lines
        /\ \/ Tick
           \/ \E p \in Process :
                \/ \E w \in WorkerId, s \in Step : CallAcquire(p, w, s)
                \/ AcquireRefused(p) \/ AcquireGranted(p) \/ Report(p) \/ Crash(p)

FreeSteps == scenario = "free" /\ Next /\ UNCHANGED <<harness, stage, lines>>

RaceNext == FreeSteps \/ UnfencedSteps \/ PairSteps

RaceSpec == RaceInit /\ [][RaceNext]_raceVars

-----------------------------------------------------------------------------
(* Properties                                                              *)

RaceTypeOK ==
  /\ scenario \in Scenarios
  /\ main \in {"spawning", "joining", "returned", "raised"} /\ turn \in {1, 2}
  /\ stage \in [Process -> {"unborn", "started", "waiting", "passed", "exited", "killed"}]
  /\ lines \in Seq([worker_id : WorkerId, token : Nat \cup {None}])
  /\ passed \subseteq Process

\* What is missing without fencing, and what is not: the unfenced sink has at most
\* one effect for each grant, made by its owner, so that it duplicates a step only
\* across a takeover (labs/11 RESULT.md, "expiry without fencing").
UnfencedCost ==
  scenario = "unfenced" =>
    /\ \A i, j \in DOMAIN lines : lines[i].token = lines[j].token => i = j
    /\ \A i \in DOMAIN lines :
         lines[i].token \in DOMAIN grants /\ grants[lines[i].token].owner = lines[i].worker_id

\* A race among callers of the store or in the lab's pair, with a sink that fences,
\* is settled: one owner, told of the one effect.
RacesSettle == scenario # "unfenced" => RaceSettled

\* The well-formed state of the experiment.
RaceInv == RaceTypeOK /\ UnfencedCost

\* No worker gets past the barrier alone: one that did so was let through with the other
\* one, and a partner that has been killed since had come to the barrier too.  So
\* a worker whose partner dies first does not run on as if there were no race.
PassedTogether ==
  /\ \A p \in Process : stage[p] \in {"passed", "exited"} => p \in passed
  /\ passed # {} => passed = Process

\* int(process.exitcode or 0): a process that has not ended counts as one that returned 0.
ReturnCodes == [p \in Process |-> IF stage[p] = "killed" THEN -9 ELSE 0]

tokens_granted == Cardinality({r \in results : r.token # None})
authoritative_commits == Cardinality({r \in results : r.committed})

\* The part of _lab11_comparison's verdict that is about the pair.
claim_passed ==
  /\ \A p \in Process : ReturnCodes[p] = 0
  /\ scenario = "baseline" => Len(lines) = 2
  /\ scenario = "leased" => Len(effects) = 1 /\ tokens_granted = 1 /\ authoritative_commits = 1

\* "Which worker wins the race is intentionally nondeterministic", the verdict is
\* not: once _spawn_pair has returned, the suite's claim holds, whatever the schedule
\* was and however late the files are read, unless a worker was killed.
ClaimHolds ==
  main = "returned" => (claim_passed <=> \A p \in Process : stage[p] = "exited")
=============================================================================
