----------------------------- MODULE WorkerLease -----------------------------
(***************************************************************************)
(* The lease store, the fenced effect service and the leased workers of    *)
(* lab11.py.  A worker process takes the lease of a step, commits the      *)
(* step's effect with the token it was given and reports the outcome.      *)
(*                                                                         *)
(* LeaseStore.acquire and FencedEffectService.commit each run whole under  *)
(* the lease file's exclusive lock and replace their file atomically, so   *)
(* each is one action.  What is not under the lock is: `now` is an         *)
(* argument, read from some clock before the call waits for the lock, and  *)
(* the token travels between the calls in the worker's memory.  Time may   *)
(* pass, other workers may run and the worker may die in each gap.         *)
(***************************************************************************)
EXTENDS Integers, Sequences, OperationIdentity

CONSTANTS
  Process,      \* worker processes; a restarted worker is another process
  WorkerId,     \* the worker ids they run under, possibly shared
  RunId,        \* the run all steps belong to
  Step,         \* the step ids leased through this one store
  Ttl,          \* the lease duration workers ask for
  Skew,         \* how far a worker's clock may be from `clock`
  None,         \* Python's None
  MaxTime,      \* bound on the clock
  MaxStarts,    \* bound on the starts of each process
  MaxCrashes    \* bound on the crashes of all processes

ASSUME LeaseParameters ==
  /\ RunId \in Seq(STRING) /\ Step \subseteq Seq(STRING)
  /\ Ttl \in Nat /\ Skew \in Nat
  /\ None \notin Int \cup WorkerId \cup Step

ASSUME LeaseBounds == MaxTime \in Nat /\ MaxStarts \in Nat /\ MaxCrashes \in Nat

VARIABLES
  clock,        \* real time
  lease,        \* lease.json
  effects,      \* effects.json, oldest first
  results,      \* the distinct lines of results.jsonl
  pc,           \* where each process is
  local,        \* the arguments and answers each process holds in memory
  starts,       \* how often each process was started
  crashes,      \* how many crashes there were
  grants        \* history: grants[t] is what was granted with token t

shared == <<lease, effects, results>>
bounds == <<starts, crashes>>
vars == <<clock, shared, pc, local, bounds, grants>>

Operations == {stable_operation_id(RunId, s) : s \in Step}
Readings == (clock - Skew) .. (clock + Skew)

FreshLease ==
  [next_token |-> 1, step_id |-> None, owner |-> None, token |-> None, expires_at |-> None]

NoCall ==
  [worker_id |-> None, step_id |-> None, now |-> 0, token |-> None, committed |-> FALSE]

Init ==
  /\ clock = 0
  /\ lease = FreshLease
  /\ effects = <<>>
  /\ results = {}
  /\ pc = [p \in Process |-> "down"]
  /\ local = [p \in Process |-> NoCall]
  /\ starts = [p \in Process |-> 0]
  /\ crashes = 0
  /\ grants = <<>>

Tick ==
  /\ clock < MaxTime
  /\ clock' = clock + 1
  /\ UNCHANGED <<shared, pc, local, bounds, grants>>

-----------------------------------------------------------------------------
(* LeaseStore.acquire                                                      *)

\* Mutants of Active: a worker may re-enter its own lease; a lease is
\* taken over one tick before it expires.
Active_Reentrant(state, p) ==
  /\ state.owner # None /\ state.owner # local[p].worker_id
  /\ state.step_id = local[p].step_id
  /\ state.expires_at # None /\ state.expires_at > local[p].now

Active_EarlyByOne(state, p) ==
  /\ state.owner # None
  /\ state.step_id = local[p].step_id
  /\ state.expires_at # None /\ state.expires_at > local[p].now + 1

\* Somebody holds an unexpired lease of the step p asks for.
Active(state, p) ==
  /\ state.owner # None
  /\ state.step_id = local[p].step_id
  /\ state.expires_at # None /\ state.expires_at > local[p].now

\* A worker starts: it reads its clock and waits for the lock in acquire.
CallAcquire(p, w, s) ==
  /\ pc[p] = "down"
  /\ starts[p] < MaxStarts
  /\ \E now \in Readings :
       local' = [local EXCEPT ![p] = [NoCall EXCEPT !.worker_id = w, !.step_id = s, !.now = now]]
  /\ pc' = [pc EXCEPT ![p] = "acquiring"]
  /\ starts' = [starts EXCEPT ![p] = @ + 1]
  /\ UNCHANGED <<clock, shared, crashes, grants>>

AcquireRefused(p) ==
  /\ pc[p] = "acquiring"
  /\ Active(lease, p)
  /\ pc' = [pc EXCEPT ![p] = "reporting"]
  /\ UNCHANGED <<clock, shared, local, bounds, grants>>

\* Mutant of Granted: the store forgets to advance next_token.
Granted_TokenReused(state, p) ==
  [next_token |-> state.next_token, step_id |-> local[p].step_id,
   owner |-> local[p].worker_id, token |-> state.next_token,
   expires_at |-> local[p].now + Ttl]

\* What acquire writes to lease.json when it grants the lease to p.
Granted(state, p) ==
  [next_token |-> state.next_token + 1, step_id |-> local[p].step_id,
   owner |-> local[p].worker_id, token |-> state.next_token,
   expires_at |-> local[p].now + Ttl]

AcquireGranted(p) ==
  /\ pc[p] = "acquiring"
  /\ ~ Active(lease, p)
  /\ lease' = Granted(lease, p)
  /\ grants' = Append(grants, [step_id |-> local[p].step_id, owner |-> local[p].worker_id,
                               expires_at |-> local[p].now + Ttl])
  /\ local' = [local EXCEPT ![p].token = lease.next_token]
  /\ pc' = [pc EXCEPT ![p] = "holding"]
  /\ UNCHANGED <<clock, effects, results, bounds>>

-----------------------------------------------------------------------------
(* FencedEffectService.commit                                              *)

\* Mutant of Authoritative: the owner is checked without its token.
Authoritative_NoToken(state, p) ==
  /\ state.step_id = local[p].step_id
  /\ state.owner = local[p].worker_id
  /\ state.expires_at # None /\ state.expires_at > local[p].now

\* p's owner id and token are those of the unexpired current lease.
Authoritative(state, p) ==
  /\ state.step_id = local[p].step_id
  /\ state.owner = local[p].worker_id
  /\ state.token = local[p].token
  /\ state.expires_at # None /\ state.expires_at > local[p].now

OperationOf(p) == stable_operation_id(RunId, local[p].step_id)

AlreadyCommitted(recorded, p) ==
  \E i \in DOMAIN recorded : recorded[i].operation_id = OperationOf(p)

EffectOf(p) ==
  [step_id |-> local[p].step_id, operation_id |-> OperationOf(p),
   worker_id |-> local[p].worker_id, token |-> local[p].token]

\* The worker reads its clock again and waits for the lock in commit.
CallCommit(p) ==
  /\ pc[p] = "holding"
  /\ \E now \in Readings : local' = [local EXCEPT ![p].now = now]
  /\ pc' = [pc EXCEPT ![p] = "committing"]
  /\ UNCHANGED <<clock, shared, bounds, grants>>

\* Answer(p, c): commit releases the lock and returns c.
Answer(p, c) ==
  /\ local' = [local EXCEPT ![p].committed = c]
  /\ pc' = [pc EXCEPT ![p] = "reporting"]
  /\ UNCHANGED <<clock, lease, results, bounds, grants>>

CommitRejected(p) ==
  /\ pc[p] = "committing"
  /\ ~ Authoritative(lease, p)
  /\ Answer(p, FALSE)
  /\ UNCHANGED effects

CommitDuplicate(p) ==
  /\ pc[p] = "committing"
  /\ Authoritative(lease, p)
  /\ AlreadyCommitted(effects, p)
  /\ Answer(p, TRUE)
  /\ UNCHANGED effects

CommitEffect(p) ==
  /\ pc[p] = "committing"
  /\ Authoritative(lease, p)
  /\ ~ AlreadyCommitted(effects, p)
  /\ effects' = Append(effects, EffectOf(p))
  /\ Answer(p, TRUE)

-----------------------------------------------------------------------------
(* The end of a worker                                                     *)

\* _leased_worker appends its outcome to results.jsonl and exits.
Report(p) ==
  /\ pc[p] = "reporting"
  /\ results' = results \cup {[worker_id |-> local[p].worker_id, token |-> local[p].token,
                               committed |-> local[p].committed]}
  /\ pc' = [pc EXCEPT ![p] = "down"]
  /\ local' = [local EXCEPT ![p] = NoCall]
  /\ UNCHANGED <<clock, lease, effects, bounds, grants>>

\* A process dies; the kernel drops its lock, its memory is lost.
Crash(p) ==
  /\ pc[p] # "down"
  /\ crashes < MaxCrashes
  /\ crashes' = crashes + 1
  /\ pc' = [pc EXCEPT ![p] = "down"]
  /\ local' = [local EXCEPT ![p] = NoCall]
  /\ UNCHANGED <<clock, shared, starts, grants>>

Worker(p) ==
  \/ AcquireRefused(p) \/ AcquireGranted(p)
  \/ CallCommit(p)
  \/ CommitRejected(p) \/ CommitDuplicate(p) \/ CommitEffect(p)
  \/ Report(p)

Next ==
  \/ Tick
  \/ \E p \in Process :
       \/ \E w \in WorkerId, s \in Step : CallAcquire(p, w, s)
       \/ Worker(p)
       \/ Crash(p)

Spec == Init /\ [][Next]_vars

-----------------------------------------------------------------------------
(* Properties                                                              *)

LeaseType ==
  [next_token : Nat \ {0}, step_id : Step \cup {None}, owner : WorkerId \cup {None},
   token : Nat \cup {None}, expires_at : Int \cup {None}]

EffectType == [step_id : Step, operation_id : Operations, worker_id : WorkerId, token : Nat]

GrantType == [step_id : Step, owner : WorkerId, expires_at : Int]

LocalType ==
  [worker_id : WorkerId \cup {None}, step_id : Step \cup {None}, now : Int,
   token : Nat \cup {None}, committed : BOOLEAN]

TypeOK ==
  /\ clock \in Nat
  /\ lease \in LeaseType
  /\ effects \in Seq(EffectType)
  /\ results \subseteq [worker_id : WorkerId, token : Nat \cup {None}, committed : BOOLEAN]
  /\ pc \in [Process -> {"down", "acquiring", "holding", "committing", "reporting"}]
  /\ local \in [Process -> LocalType]
  /\ starts \in [Process -> Nat]
  /\ crashes \in Nat
  /\ grants \in Seq(GrantType)

\* The lease file is the last grant: its token is the number of grants.
LeaseIsLastGrant ==
  /\ lease.next_token = Len(grants) + 1
  /\ IF grants = <<>>
     THEN lease.owner = None /\ lease.token = None /\ lease.expires_at = None
     ELSE LET g == grants[Len(grants)] IN
          /\ lease.step_id = g.step_id /\ lease.owner = g.owner
          /\ lease.token = Len(grants) /\ lease.expires_at = g.expires_at

\* The token a worker holds in memory was granted for its call, and a worker
\* that asked for no lease yet, or was refused one, has none.
TokenWasGranted(p) ==
  LET c == local[p] IN
  /\ pc[p] # "down" => c.worker_id # None /\ c.step_id # None
  /\ pc[p] \in {"acquiring", "down"} => c.token = None /\ ~ c.committed
  /\ pc[p] \in {"holding", "committing"} => c.token # None /\ ~ c.committed
  /\ c.token # None =>
       /\ c.token \in DOMAIN grants
       /\ grants[c.token].step_id = c.step_id
       /\ grants[c.token].owner = c.worker_id

TokensWereGranted == \A p \in Process : TokenWasGranted(p)

\* Readings are of the past or of a clock that is fast by at most Skew.
ReadingsAreOld == \A p \in Process : pc[p] # "down" => local[p].now <= clock + Skew

\* The step with token t has taken effect by the owner of t or an earlier one.
DoneBy(t) ==
  /\ t \in DOMAIN grants
  /\ \E i \in DOMAIN effects :
       effects[i].step_id = grants[t].step_id /\ effects[i].token <= t

\* A worker is told "committed" only of an effect that is in effects.json, made
\* under its own or an earlier token of the step; neither a crash nor a takeover
\* between commit's answer and the report can make the answer untrue
\* (FencedEffectService.commit).
CommittedIsDurable ==
  /\ \A r \in results : r.committed => r.token # None /\ DoneBy(r.token)
  /\ \A p \in Process : local[p].committed => local[p].token # None /\ DoneBy(local[p].token)

\* Tokens fence: effects were made by owners of granted leases in token order,
\* and an operation has one effect (the sink of lab 11's treatment).
EffectWasOwned(e) ==
  /\ e.token \in DOMAIN grants
  /\ grants[e.token].owner = e.worker_id /\ grants[e.token].step_id = e.step_id
  /\ e.operation_id = stable_operation_id(RunId, e.step_id)

EffectsAreFenced ==
  /\ \A i \in DOMAIN effects : EffectWasOwned(effects[i])
  /\ \A i, j \in DOMAIN effects :
       /\ i <= j => effects[i].token <= effects[j].token
       /\ effects[i].operation_id = effects[j].operation_id => i = j

\* The inductive invariant behind the theorems of WorkerLeaseProofs.
LeaseInv ==
  /\ TypeOK /\ LeaseIsLastGrant /\ TokensWereGranted /\ ReadingsAreOld
  /\ EffectsAreFenced /\ CommittedIsDurable

\* "Exclusive step lease; expiry permits takeover": a step is granted again only
\* when the earlier grant has expired, up to the error of the workers' clocks
\* (LeaseStore.acquire).  Time that passes between reading the clock and getting
\* the lock does not weaken this.
ExclusiveStepLease ==
  \A i, j \in DOMAIN grants :
    i < j /\ grants[i].step_id = grants[j].step_id => grants[i].expires_at <= clock + Skew

\* The race of the lab, workers of one step within one lease: once all started
\* workers have reported, none was killed and no clock can have shown the lease
\* expired, exactly one of them got a token, its commit was acknowledged, and the
\* step has its one effect.
RaceSettled ==
  ( /\ \A p \in Process : pc[p] = "down"
    /\ \E p \in Process : starts[p] > 0
    /\ crashes = 0
    /\ \A i \in DOMAIN grants : clock + Skew < grants[i].expires_at ) =>
  /\ \E r \in results : r.token # None /\ r.committed
  /\ \A r1, r2 \in results : r1.token # None /\ r2.token # None => r1 = r2
  /\ Len(effects) = 1

\* The abstract sink: an epoch is a token, and the workers' calls, clocks and
\* deaths are invisible to it.
Fenced == INSTANCE FencedSink WITH
  Operation <- Operations,
  epoch <- lease.next_token - 1,
  effects <- [i \in DOMAIN effects |-> <<effects[i].operation_id, effects[i].token>>]

\* Leases and effects together implement the fenced, at-most-once sink.
FencedSpec == Fenced!Spec
=============================================================================
