------------------------------- MODULE LeaseLock -------------------------------
(***************************************************************************)
(* LeaseStore.acquire and FencedEffectService.commit of lab11.py step by   *)
(* step: each takes the flock of the lease's lock file, reads a file,      *)
(* decides on the copy it read, replaces a file and gives the lock up.     *)
(* Between these steps time passes, other processes run up to the lock,    *)
(* and the process may be killed, which gives up the lock for it.          *)
(*                                                                         *)
(* WorkerLease has each body as one action.  Here it is shown that the     *)
(* lock makes it so: the action happens when the body decides or replaces  *)
(* its file, and its other steps are not seen.                             *)
(***************************************************************************)
EXTENDS WorkerRace

ASSUME LockParameters == None \notin Process

VARIABLES
  holder,       \* the process that has the flock, or None
  at,           \* how far each process is in a body
  memory        \* the file each process read last in its body

lockVars == <<holder, at, memory>>
lockRaceVars == <<raceVars, lockVars>>

LockInit ==
  /\ RaceInit
  /\ holder = None
  /\ at = [p \in Process |-> "outside"]
  /\ memory = [p \in Process |-> None]

-----------------------------------------------------------------------------
(* The bodies under the lock                                               *)

Outside(p) == at[p] = "outside" /\ UNCHANGED lockVars

\* Mutant of Lock: the sink locks a file of its own.
Lock_OfTheSink(p) ==
  /\ at[p] = "outside" /\ pc[p] \in {"acquiring", "committing"}
  /\ holder = None \/ pc[p] = "committing"
  /\ holder' = p
  /\ at' = [at EXCEPT ![p] = "locked"]
  /\ UNCHANGED <<memory, vars>>

\* fcntl.flock(LOCK_EX) returns.
Lock(p) ==
  /\ at[p] = "outside" /\ pc[p] \in {"acquiring", "committing"}
  /\ holder = None
  /\ holder' = p
  /\ at' = [at EXCEPT ![p] = "locked"]
  /\ UNCHANGED <<memory, vars>>

\* p has read a file and keeps its contents.
Reads(p, contents, next) ==
  /\ memory' = [memory EXCEPT ![p] = contents]
  /\ at' = [at EXCEPT ![p] = next]
  /\ UNCHANGED <<holder, vars>>

ReadLease(p) == at[p] = "locked" /\ Reads(p, lease, "has lease")

ReadEffects(p) ==
  /\ at[p] = "has lease" /\ pc[p] = "committing"
  /\ Authoritative(memory[p], p)
  /\ Reads(p, effects, "has effects")

\* The body of p reaches a return statement.
Returns(p) ==
  /\ at' = [at EXCEPT ![p] = "leaving"]
  /\ memory' = [memory EXCEPT ![p] = None]
  /\ UNCHANGED holder

RefuseLease(p) ==
  /\ at[p] = "has lease" /\ pc[p] = "acquiring"
  /\ Active(memory[p], p)
  /\ pc' = [pc EXCEPT ![p] = "reporting"]
  /\ Returns(p)
  /\ UNCHANGED <<clock, shared, local, bounds, grants>>

\* os.replace(tmp, lease.json)
ReplaceLease(p) ==
  /\ at[p] = "has lease" /\ pc[p] = "acquiring"
  /\ ~ Active(memory[p], p)
  /\ lease' = Granted(memory[p], p)
  /\ grants' = Append(grants, [step_id |-> local[p].step_id, owner |-> local[p].worker_id,
                               expires_at |-> local[p].now + Ttl])
  /\ local' = [local EXCEPT ![p].token = memory[p].next_token]
  /\ pc' = [pc EXCEPT ![p] = "holding"]
  /\ Returns(p)
  /\ UNCHANGED <<clock, effects, results, bounds>>

RejectCommit(p) ==
  /\ at[p] = "has lease" /\ pc[p] = "committing"
  /\ ~ Authoritative(memory[p], p)
  /\ Answer(p, FALSE) /\ Returns(p)
  /\ UNCHANGED effects

FindDuplicate(p) ==
  /\ at[p] = "has effects"
  /\ AlreadyCommitted(memory[p], p)
  /\ Answer(p, TRUE) /\ Returns(p)
  /\ UNCHANGED effects

\* os.replace(tmp, effects.json)
ReplaceEffects(p) ==
  /\ at[p] = "has effects"
  /\ ~ AlreadyCommitted(memory[p], p)
  /\ effects' = Append(memory[p], EffectOf(p))
  /\ Answer(p, TRUE) /\ Returns(p)

\* The finally clause of _exclusive_lock.
Unlock(p) ==
  /\ at[p] = "leaving"
  /\ holder' = None
  /\ at' = [at EXCEPT ![p] = "outside"]
  /\ UNCHANGED <<memory, vars>>

Body(p) ==
  \/ Lock(p) \/ ReadLease(p) \/ ReadEffects(p)
  \/ RefuseLease(p) \/ ReplaceLease(p)
  \/ RejectCommit(p) \/ FindDuplicate(p) \/ ReplaceEffects(p)
  \/ Unlock(p)

\* The kernel drops the lock of a process that died, and its memory is lost.
Dropped(p) ==
  /\ holder' = IF holder = p THEN None ELSE holder
  /\ at' = [at EXCEPT ![p] = "outside"]
  /\ memory' = [memory EXCEPT ![p] = None]

-----------------------------------------------------------------------------
(* The scenarios of WorkerRace, with the bodies taken apart                *)

OwnerSteps ==
  /\ scenario \in {"free", "unfenced"}
  /\ UNCHANGED <<harness, stage>>
  /\ \/ Tick /\ UNCHANGED <<lines, lockVars>>
     \/ \E p \in Process :
          \/ (\E w \in WorkerId, s \in Step : CallAcquire(p, w, s)) /\ Outside(p) /\ UNCHANGED lines
          \/ Body(p) /\ UNCHANGED lines
          \/ scenario = "free" /\ CallCommit(p) /\ Outside(p) /\ UNCHANGED lines
          \/ scenario = "unfenced" /\ CommitUnfenced(p) /\ Outside(p)
          \/ Report(p) /\ Outside(p) /\ UNCHANGED lines
          \/ Crash(p) /\ Dropped(p) /\ UNCHANGED lines

LeasedBody(p) ==
  /\ scenario = "leased" /\ stage[p] = "passed"
  /\ Body(p) \/ (LeasedCalls(p) /\ Outside(p))
  /\ UNCHANGED <<harness, stage, lines>>

HarnessSteps ==
  /\ scenario \in {"baseline", "leased"}
  /\ \/ (StartProcess \/ Joined) /\ UNCHANGED lockVars
     \/ JoinTimesOut /\ Dropped(Pair[turn])
     \/ \E p \in Process :
          \/ (Barrier(p) \/ BaselineCommits(p) \/ LeasedReports(p)) /\ Outside(p)
          \/ LeasedBody(p)
          \/ Dies(p) /\ Dropped(p)

LockNext == OwnerSteps \/ HarnessSteps

LockSpec == LockInit /\ [][LockNext]_lockRaceVars

-----------------------------------------------------------------------------
(* Properties                                                              *)

\* "Lease mutation and effect authorization share one lock, so a stale owner cannot
\* pass validation while a newer token is being installed" (the comment in
\* FencedEffectService.commit): the bodies taken apart, with deaths between any two of
\* their steps, do what WorkerRace does, where each is one action.
CallsAreAtomic == RaceSpec
=============================================================================
