---------------------------- MODULE CommitGapProofs ----------------------------
(***************************************************************************)
(* Proofs about CommitGap, for every finite set of steps and any number of *)
(* deaths: the checkpoint never runs ahead of the service, the treatment   *)
(* writes once per operation and only after it reconciled, the cost of the *)
(* gap is exact, and the treatment implements the at-most-once sink.       *)
(***************************************************************************)
EXTENDS CommitGap, FiniteSetTheorems, TLAPS

-----------------------------------------------------------------------------
(* The inductive invariant                                                 *)

\* A running worker's step is still pending: it was when the worker started, and
\* nobody else writes the state file.
WorkerIsPending == worker # None => status[worker] = "pending"

\* The baseline does not reconcile.
BaselineNeverAsks == mode = "baseline" => pc # "reconciling"

\* A treatment worker about to commit has just reconciled, and found nothing; a
\* key that was written once is committed.
WritesFollowReconcile ==
  mode = "treatment" =>
    /\ pc = "committing" =>
         /\ worker \notin CommittedSteps
         /\ service.calls # <<>>
         /\ service.calls[Len(service.calls)] =
              [kind |-> "reconcile", operation_id |-> OperationOf(worker)]
    /\ \A i \in DOMAIN service.calls :
         service.calls[i].kind = "write" =>
           /\ service.calls[i].operation_id \in Operations
           /\ Committed(service, service.calls[i].operation_id)

IInv ==
  /\ TypeOK
  /\ CompletedIsCommitted
  /\ WorkerIsPending
  /\ BaselineNeverAsks
  /\ WritesFollowReconcile
  /\ ReconciledBeforeWrite
  /\ EffectsAccountedFor

-----------------------------------------------------------------------------
(* Sequences and identities                                                *)

\* What Append keeps of a sequence, and what it adds (the call log and the
\* effects of the service only grow at their end).
LEMMA AppendFacts ==
  ASSUME NEW S, NEW q \in Seq(S), NEW e \in S
  PROVE  /\ Append(q, e) \in Seq(S)
         /\ Len(Append(q, e)) = Len(q) + 1
         /\ DOMAIN Append(q, e) = DOMAIN q \cup {Len(q) + 1}
         /\ \A i \in DOMAIN q : i # Len(q) + 1 /\ Append(q, e)[i] = q[i]
         /\ Append(q, e)[Len(q) + 1] = e
  OBVIOUS

\* Within a run, two steps with one stable_operation_id are the same step.
LEMMA IdentityTellsSteps ==
  ASSUME NEW r \in Seq(STRING), NEW s1 \in Seq(STRING), NEW s2 \in Seq(STRING),
         stable_operation_id(r, s1) = stable_operation_id(r, s2)
  PROVE  s1 = s2
<1> DEFINE prefix == r \o <<Separator>>
           Symbol == STRING \cup {Separator}
<1>1. /\ r \in Seq(Symbol) /\ s1 \in Seq(Symbol) /\ s2 \in Seq(Symbol)
      /\ <<Separator>> \in Seq(Symbol)
  OBVIOUS
<1> HIDE DEF Symbol
<1>2. prefix \in Seq(Symbol) /\ Len(prefix) \in Nat
  BY <1>1
<1>3. prefix \o s1 = prefix \o s2
  BY DEF stable_operation_id
<1> HIDE DEF prefix
<1>4. Len(s1) = Len(s2)
  BY <1>1, <1>2, <1>3
<1>5. ASSUME NEW i \in 1 .. Len(s1) PROVE s1[i] = s2[i]
  <2>1. (prefix \o s1)[Len(prefix) + i] = s1[i] /\ (prefix \o s2)[Len(prefix) + i] = s2[i]
    BY <1>1, <1>2, <1>4
  <2> QED
    BY <1>3, <2>1
<1> QED
  BY <1>1, <1>4, <1>5

-----------------------------------------------------------------------------
(* The operations of FileExternalService                                   *)

\* An entry of the call log.
CallType == [kind : {"write", "reconcile"}, operation_id : Operations \cup {None}]

\* A service is its three fields.
LEMMA ServiceFields ==
  ASSUME NEW svc \in ServiceType
  PROVE  /\ svc = [calls |-> svc.calls, effects |-> svc.effects, operations |-> svc.operations]
         /\ svc.calls \in Seq(CallType)
         /\ svc.effects \in Seq(Operations \cup {None})
         /\ svc.operations \in [Operations -> Nat \cup {None}]
  BY DEF ServiceType, CallType

\* A service without a file has no calls, no effects and an index that agrees.
LEMMA EmptyServiceFacts ==
  EmptyService \in ServiceType /\ IndexMatchesEffects(EmptyService)
  BY DEF EmptyService, ServiceType, IndexMatchesEffects, Committed

\* _load, append to calls, _save: every operation logs its call.
LEMMA CalledFacts ==
  ASSUME NEW svc \in ServiceType, NEW kind \in {"write", "reconcile"},
         NEW op \in Operations \cup {None}
  PROVE  /\ Called(svc, kind, op) \in ServiceType
         /\ Called(svc, kind, op).calls = Append(svc.calls, [kind |-> kind, operation_id |-> op])
         /\ Called(svc, kind, op).effects = svc.effects
         /\ Called(svc, kind, op).operations = svc.operations
<1> DEFINE c == [kind |-> kind, operation_id |-> op]
<1>1. Append(svc.calls, c) \in Seq(CallType)
  BY ServiceFields, AppendFacts DEF CallType
<1>2. Called(svc, kind, op) = [svc EXCEPT !.calls = Append(svc.calls, c)]
  BY DEF Called
<1> HIDE DEF c
<1>3. Called(svc, kind, op) = [calls |-> Append(svc.calls, c), effects |-> svc.effects,
                               operations |-> svc.operations]
  BY <1>2, ServiceFields
<1> QED
  BY <1>1, <1>3, ServiceFields DEF ServiceType, CallType, c

\* commit_unkeyed makes one effect more, under no key.
LEMMA UnkeyedFacts ==
  ASSUME NEW svc \in ServiceType
  PROVE  /\ commit_unkeyed(svc) \in ServiceType
         /\ commit_unkeyed(svc).effects = Append(svc.effects, None)
         /\ commit_unkeyed(svc).operations = svc.operations
<1> DEFINE called == Called(svc, "write", None)
<1>1. /\ called \in ServiceType /\ called.effects = svc.effects
      /\ called.operations = svc.operations
  BY CalledFacts
<1>2. commit_unkeyed(svc) = [called EXCEPT !.effects = Append(@, None)]
  BY DEF commit_unkeyed
<1> HIDE DEF called
<1>3. commit_unkeyed(svc) = [calls |-> called.calls, effects |-> Append(svc.effects, None),
                             operations |-> svc.operations]
  BY <1>1, <1>2, ServiceFields
<1>4. Append(svc.effects, None) \in Seq(Operations \cup {None})
  BY ServiceFields
<1> QED
  BY <1>1, <1>3, <1>4, ServiceFields DEF ServiceType, CallType

\* commit_idempotent logs a write call; it makes and indexes an effect exactly
\* when the key has none.
LEMMA IdempotentFacts ==
  ASSUME NEW svc \in ServiceType, NEW op \in Operations
  PROVE  /\ commit_idempotent(svc, op) \in ServiceType
         /\ commit_idempotent(svc, op).calls =
              Append(svc.calls, [kind |-> "write", operation_id |-> op])
         /\ Committed(svc, op) =>
              /\ commit_idempotent(svc, op).effects = svc.effects
              /\ commit_idempotent(svc, op).operations = svc.operations
         /\ ~ Committed(svc, op) =>
              /\ commit_idempotent(svc, op).effects = Append(svc.effects, op)
              /\ commit_idempotent(svc, op).operations =
                   [svc.operations EXCEPT ![op] = Len(svc.effects)]
<1> DEFINE called == Called(svc, "write", op)
<1>1. /\ called \in ServiceType /\ called.effects = svc.effects
      /\ called.operations = svc.operations
      /\ called.calls = Append(svc.calls, [kind |-> "write", operation_id |-> op])
  BY CalledFacts
<1>2. CASE Committed(svc, op)
  BY <1>1, <1>2 DEF commit_idempotent
<1>3. CASE ~ Committed(svc, op)
  <2> DEFINE index == [called.operations EXCEPT ![op] = Len(svc.effects)]
  <2>1. commit_idempotent(svc, op) =
          [called EXCEPT !.effects = Append(called.effects, op), !.operations = index]
    BY <1>3 DEF commit_idempotent
  <2>2. index = [svc.operations EXCEPT ![op] = Len(svc.effects)]
    BY <1>1
  <2> HIDE DEF called, index
  <2>3. commit_idempotent(svc, op) =
          [calls |-> called.calls, effects |-> Append(svc.effects, op),
           operations |-> [svc.operations EXCEPT ![op] = Len(svc.effects)]]
    BY <1>1, <2>1, <2>2, ServiceFields
  <2>4. /\ Append(svc.effects, op) \in Seq(Operations \cup {None})
        /\ [svc.operations EXCEPT ![op] = Len(svc.effects)] \in [Operations -> Nat \cup {None}]
    BY ServiceFields
  <2> QED
    BY <1>1, <1>3, <2>3, <2>4, ServiceFields DEF ServiceType, CallType
<1> QED
  BY <1>2, <1>3

\* With an index that agrees with the effects, a key that reconcile does not find
\* has no effect.
LEMMA UncommittedHasNoEffect ==
  ASSUME NEW svc \in ServiceType, IndexMatchesEffects(svc), None \notin Operations, None \notin Nat,
         NEW op \in Operations, ~ Committed(svc, op)
  PROVE  \A i \in DOMAIN svc.effects : svc.effects[i] # op
<1> SUFFICES ASSUME NEW i \in DOMAIN svc.effects, svc.effects[i] = op
             PROVE  FALSE
  OBVIOUS
<1>1. svc.operations[op] = i - 1
  BY DEF IndexMatchesEffects
<1>2. i \in Nat \ {0}
  BY ServiceFields
<1> QED
  BY <1>1, <1>2 DEF Committed

\* commit_idempotent keeps the index in agreement with the effects, and afterwards
\* reconcile finds the key, and every key it found before.
LEMMA IdempotentIndex ==
  ASSUME NEW svc \in ServiceType, IndexMatchesEffects(svc), None \notin Operations, None \notin Nat,
         NEW op \in Operations
  PROVE  /\ IndexMatchesEffects(commit_idempotent(svc, op))
         /\ \A o \in Operations :
              Committed(commit_idempotent(svc, op), o) <=> Committed(svc, o) \/ o = op
<1> DEFINE new == commit_idempotent(svc, op)
           n == Len(svc.effects)
<1>1. CASE Committed(svc, op)
  <2>1. new.effects = svc.effects /\ new.operations = svc.operations
    BY <1>1, IdempotentFacts
  <2> QED
    BY <1>1, <2>1 DEF IndexMatchesEffects, Committed
<1>2. CASE ~ Committed(svc, op)
  <2>1. /\ new.effects = Append(svc.effects, op)
        /\ new.operations = [svc.operations EXCEPT ![op] = n]
    BY <1>2, IdempotentFacts
  <2>2. /\ DOMAIN new.effects = DOMAIN svc.effects \cup {n + 1}
        /\ \A i \in DOMAIN svc.effects : i # n + 1 /\ new.effects[i] = svc.effects[i]
        /\ new.effects[n + 1] = op
        /\ n \in Nat
    BY <2>1, ServiceFields, AppendFacts
  <2>3. /\ new.operations[op] = n
        /\ \A o \in Operations : o # op => new.operations[o] = svc.operations[o]
    BY <2>1, ServiceFields
  <2> HIDE DEF new
  <2>4. \A o \in Operations : Committed(new, o) <=> Committed(svc, o) \/ o = op
    BY <2>2, <2>3 DEF Committed
  <2>5. ASSUME NEW o \in Operations, Committed(new, o)
        PROVE  /\ new.operations[o] + 1 \in DOMAIN new.effects
               /\ new.effects[new.operations[o] + 1] = o
    BY <2>2, <2>3, <2>4, <2>5 DEF IndexMatchesEffects
  <2>6. ASSUME NEW i \in DOMAIN new.effects, new.effects[i] # None
        PROVE  new.operations[new.effects[i]] = i - 1
    <3>1. CASE i = n + 1
      BY <2>2, <2>3, <3>1
    <3>2. CASE i \in DOMAIN svc.effects
      <4>1. svc.effects[i] \in Operations /\ svc.effects[i] # op
        BY <1>2, <2>2, <2>6, <3>2, UncommittedHasNoEffect, ServiceFields
      <4> QED
        BY <2>2, <2>3, <2>6, <3>2, <4>1 DEF IndexMatchesEffects
    <3> QED
      BY <2>2, <3>1, <3>2
  <2> QED
    BY <2>4, <2>5, <2>6 DEF IndexMatchesEffects, new
<1> QED
  BY <1>1, <1>2

-----------------------------------------------------------------------------
(* Steps and their operations                                              *)

\* The operations of two steps differ, and none is None.
LEMMA OperationFacts ==
  /\ None \notin Operations /\ None \notin Nat /\ None \notin Step
  /\ \A s \in Step : OperationOf(s) \in Operations
  /\ \A s1, s2 \in Step : OperationOf(s1) = OperationOf(s2) => s1 = s2
<1>1. /\ None \notin Operations /\ None \notin Nat /\ None \notin Step
      /\ \A s \in Step : OperationOf(s) \in Operations
  BY GapParameters DEF Operations, OperationOf
<1>2. ASSUME NEW s1 \in Step, NEW s2 \in Step, OperationOf(s1) = OperationOf(s2)
      PROVE  s1 = s2
  <2>1. stable_operation_id(RunId, s1) = stable_operation_id(RunId, s2)
    BY <1>2 DEF OperationOf
  <2>2. RunId \in Seq(STRING) /\ s1 \in Seq(STRING) /\ s2 \in Seq(STRING)
    BY GapParameters
  <2> QED
    BY <2>1, <2>2, IdentityTellsSteps
<1> QED
  BY <1>1, <1>2

\* reconcile only logs its call.
LEMMA ReconcileFacts ==
  ASSUME TypeOK, NEW op \in Operations
  PROVE  /\ reconcile(service, op) \in ServiceType
         /\ reconcile(service, op).calls =
              Append(service.calls, [kind |-> "reconcile", operation_id |-> op])
         /\ reconcile(service, op).effects = service.effects
         /\ reconcile(service, op).operations = service.operations
  BY CalledFacts DEF TypeOK, reconcile

\* What the steps of CommitGap know of the service's fields.
LEMMA ServiceShape ==
  ASSUME TypeOK
  PROVE  /\ service.calls \in Seq([kind : {"write", "reconcile"},
                                   operation_id : Operations \cup {None}])
         /\ service.effects \in Seq(Operations \cup {None})
         /\ service.operations \in [Operations -> Nat \cup {None}]
  BY DEF TypeOK, ServiceType

\* The steps are finitely many, so the completed and the committed ones are counted.
LEMMA CountedSteps ==
  /\ IsFiniteSet(Completed) /\ IsFiniteSet(CommittedSteps)
  /\ Cardinality(Completed) \in Nat /\ Cardinality(CommittedSteps) \in Nat
<1>1. IsFiniteSet(Completed) /\ IsFiniteSet(CommittedSteps)
  BY GapParameters, FS_Subset DEF Completed, CommittedSteps
<1> QED
  BY <1>1, FS_CardinalityType

-----------------------------------------------------------------------------
(* The inductive invariant holds initially and is kept by every action     *)

\* No step was tried and no effect made.
LEMMA InitIInv == Init => IInv
<1> SUFFICES ASSUME Init PROVE IInv
  OBVIOUS
<1>1. TypeOK
  BY EmptyServiceFacts, GapBounds DEF Init, TypeOK
<1>2. service.calls = <<>> /\ service.effects = <<>>
  BY DEF Init, EmptyService
<1>3. Completed = {} /\ CommittedSteps = {}
  <2>1. \A op \in Operations : ~ Committed(service, op)
    BY DEF Init, EmptyService, Committed
  <2> QED
    BY <2>1, OperationFacts DEF Init, Completed, CommittedSteps
<1>4. CompletedIsCommitted
  BY <1>3, EmptyServiceFacts DEF Init, CompletedIsCommitted
<1>5. WorkerIsPending /\ BaselineNeverAsks /\ WritesFollowReconcile /\ ReconciledBeforeWrite
  BY <1>2 DEF Init, WorkerIsPending, BaselineNeverAsks, WritesFollowReconcile, ReconciledBeforeWrite
<1>6. EffectsAccountedFor
  BY <1>2, <1>3, FS_EmptySet DEF Init, EffectsAccountedFor
<1> QED
  BY <1>1, <1>4, <1>5, <1>6 DEF IInv

\* Start and Crash leave the files alone and only move the worker.
LEMMA StartKeeps ==
  ASSUME IInv, NEW s \in Step, Start(s)
  PROVE  IInv'
<1> USE DEF IInv
<1>1. UNCHANGED <<Completed, CommittedSteps, service, status, mode>>
  BY DEF Start, Completed, CommittedSteps
<1>2. TypeOK'
  BY OperationFacts DEF TypeOK, Start
<1>3. CompletedIsCommitted' /\ WorkerIsPending' /\ BaselineNeverAsks'
  BY <1>1 DEF TypeOK, CompletedIsCommitted, WorkerIsPending, BaselineNeverAsks, Start
<1>4. WritesFollowReconcile' /\ ReconciledBeforeWrite'
  BY <1>1 DEF TypeOK, WritesFollowReconcile, ReconciledBeforeWrite, Start
<1>5. EffectsAccountedFor'
  BY <1>1 DEF TypeOK, EffectsAccountedFor, Start
<1> QED
  BY <1>2, <1>3, <1>4, <1>5

\* A death forgets the worker, and counts if it comes in the gap.
LEMMA CrashKeeps ==
  ASSUME IInv, Crash
  PROVE  IInv'
<1> USE DEF IInv
<1>1. UNCHANGED <<Completed, CommittedSteps, service, status, mode>>
  BY DEF Crash, Completed, CommittedSteps
<1>2. TypeOK'
  BY OperationFacts DEF TypeOK, Crash
<1>3. CompletedIsCommitted' /\ WorkerIsPending' /\ BaselineNeverAsks'
  BY <1>1 DEF TypeOK, CompletedIsCommitted, WorkerIsPending, BaselineNeverAsks, Crash
<1>4. WritesFollowReconcile' /\ ReconciledBeforeWrite'
  BY <1>1 DEF TypeOK, WritesFollowReconcile, ReconciledBeforeWrite, Crash
<1>5. EffectsAccountedFor'
  BY <1>1, CountedSteps DEF TypeOK, EffectsAccountedFor, Crash
<1> QED
  BY <1>2, <1>3, <1>4, <1>5

\* Asking the service adds a call that makes no effect.
LEMMA ReconcileKeeps ==
  ASSUME IInv, NEW s \in Step, Reconcile(s)
  PROVE  IInv'
<1> DEFINE op == OperationOf(s)
           c == [kind |-> "reconcile", operation_id |-> op]
           n == Len(service.calls) + 1
<1> USE DEF IInv
<1>1. /\ op \in Operations
      /\ service' \in ServiceType
      /\ service'.calls = Append(service.calls, c)
      /\ service'.effects = service.effects
      /\ service'.operations = service.operations
  BY OperationFacts, ReconcileFacts DEF Reconcile
<1>2. /\ DOMAIN service'.calls = DOMAIN service.calls \cup {n}
      /\ \A i \in DOMAIN service.calls : i # n /\ service'.calls[i] = service.calls[i]
      /\ service'.calls[n] = c /\ Len(service'.calls) = n
      /\ DOMAIN service.calls = 1 .. Len(service.calls) /\ Len(service.calls) \in Nat
  <2>1. c \in [kind : {"write", "reconcile"}, operation_id : Operations \cup {None}]
    BY <1>1
  <2> HIDE DEF c
  <2> QED
    BY <1>1, <2>1, ServiceShape, AppendFacts
<1>3. UNCHANGED <<Completed, CommittedSteps, status, mode, worker>>
  BY <1>1 DEF Reconcile, Completed, CommittedSteps, Committed
<1>4. TypeOK'
  BY <1>1, OperationFacts DEF TypeOK, Reconcile
<1>5. CompletedIsCommitted'
  <2>1. IndexMatchesEffects(service)' <=> IndexMatchesEffects(service)
    BY <1>1 DEF IndexMatchesEffects, Committed
  <2> QED
    BY <1>3, <2>1 DEF CompletedIsCommitted, CommittedSteps, Reconcile
<1>6. WorkerIsPending' /\ BaselineNeverAsks'
  BY <1>3 DEF WorkerIsPending, BaselineNeverAsks, Reconcile
<1>7. WritesFollowReconcile'
  <2>1. pc' = "committing" => s \notin CommittedSteps
    BY DEF Reconcile, CommittedSteps
  <2>2. service'.calls # <<>>
    BY <1>2
  <2>3. \A o \in Operations : Committed(service', o) <=> Committed(service, o)
    BY <1>1 DEF Committed
  <2> QED
    BY <1>1, <1>2, <1>3, <2>1, <2>2, <2>3 DEF WritesFollowReconcile, Reconcile
<1>8. ReconciledBeforeWrite'
  <2> SUFFICES ASSUME mode = "treatment",
                      NEW i \in DOMAIN service'.calls, service'.calls[i].kind = "write"
               PROVE  /\ i > 1
                      /\ service'.calls[i - 1] =
                           [kind |-> "reconcile", operation_id |-> service'.calls[i].operation_id]
                      /\ \A j \in 1 .. i - 1 : service'.calls[j] # service'.calls[i]
    BY <1>3 DEF ReconciledBeforeWrite
  <2>1. i \in DOMAIN service.calls
    BY <1>2
  <2>2. \A j \in 1 .. i : service'.calls[j] = service.calls[j]
    BY <1>2, <2>1
  <2>3. i \in 1 .. i /\ service.calls[i].kind = "write"
    BY <1>2, <2>1
  <2>4. /\ i > 1
        /\ service.calls[i - 1] =
             [kind |-> "reconcile", operation_id |-> service.calls[i].operation_id]
        /\ \A j \in 1 .. i - 1 : service.calls[j] # service.calls[i]
    BY <2>1, <2>3 DEF ReconciledBeforeWrite
  <2>5. i - 1 \in 1 .. i /\ 1 .. i - 1 \subseteq 1 .. i
    BY <1>2, <2>1, <2>4
  <2> HIDE DEF IInv
  <2> QED
    BY <2>2, <2>3, <2>4, <2>5
<1>9. EffectsAccountedFor'
  BY <1>1, <1>3 DEF EffectsAccountedFor, BaselineNeverAsks, Reconcile
<1> QED
  BY <1>4, <1>5, <1>6, <1>7, <1>8, <1>9

\* The baseline's commit makes one effect more, without a key.
LEMMA BaselineCommitKeeps ==
  ASSUME IInv, NEW s \in Step, Commit(s), mode = "baseline"
  PROVE  IInv'
<1> USE DEF IInv
<1>1. /\ service' \in ServiceType
      /\ service'.effects = Append(service.effects, None)
      /\ service'.operations = service.operations
  BY UnkeyedFacts DEF Commit, TypeOK
<1>2. Len(service'.effects) = Len(service.effects) + 1
  BY <1>1, ServiceShape
<1>3. UNCHANGED <<Completed, status, mode, worker>>
  BY DEF Commit, Completed
<1>4. TypeOK'
  BY <1>1, OperationFacts DEF TypeOK, Commit
<1>5. EffectsAccountedFor'
  BY <1>2, <1>3, CountedSteps DEF EffectsAccountedFor, Commit, TypeOK
<1> QED
  BY <1>3, <1>4, <1>5
     DEF CompletedIsCommitted, WorkerIsPending, BaselineNeverAsks, WritesFollowReconcile,
         ReconciledBeforeWrite, Commit

\* The treatment's commit follows a reconcile that found nothing: it makes the one
\* effect of the step.
LEMMA TreatmentCommitKeeps ==
  ASSUME IInv, NEW s \in Step, Commit(s), mode = "treatment"
  PROVE  IInv'
<1> DEFINE op == OperationOf(s)
           c == [kind |-> "write", operation_id |-> op]
           n == Len(service.calls) + 1
<1> USE DEF IInv
<1>1. /\ op \in Operations /\ ~ Committed(service, op)
      /\ service' = commit_idempotent(service, op)
      /\ worker = s /\ service.calls # <<>>
      /\ service.calls[Len(service.calls)] = [kind |-> "reconcile", operation_id |-> op]
  BY OperationFacts DEF Commit, WritesFollowReconcile, CommittedSteps
<1>2. /\ service' \in ServiceType
      /\ service'.calls = Append(service.calls, c)
      /\ service'.effects = Append(service.effects, op)
  BY <1>1, IdempotentFacts DEF TypeOK
<1>3. /\ IndexMatchesEffects(service')
      /\ \A o \in Operations : Committed(service', o) <=> Committed(service, o) \/ o = op
  BY <1>1, OperationFacts, IdempotentIndex DEF TypeOK, CompletedIsCommitted
<1>4. /\ DOMAIN service'.calls = DOMAIN service.calls \cup {n}
      /\ \A i \in DOMAIN service.calls : i # n /\ service'.calls[i] = service.calls[i]
      /\ service'.calls[n] = c
      /\ DOMAIN service.calls = 1 .. Len(service.calls) /\ Len(service.calls) \in Nat
  <2>1. c \in [kind : {"write", "reconcile"}, operation_id : Operations \cup {None}]
    BY <1>1
  <2> HIDE DEF c
  <2> QED
    BY <1>2, <2>1, ServiceShape, AppendFacts
<1>5. UNCHANGED <<Completed, status, mode, worker>> /\ pc' = "recording"
  BY DEF Commit, Completed
<1>6. CommittedSteps' = CommittedSteps \cup {s} /\ s \notin CommittedSteps
  BY <1>1, <1>3, OperationFacts DEF CommittedSteps
<1>7. TypeOK'
  BY <1>2, OperationFacts DEF TypeOK, Commit
<1>8. CompletedIsCommitted'
  BY <1>1, <1>3, <1>5, <1>6 DEF CompletedIsCommitted
<1>9. WorkerIsPending' /\ BaselineNeverAsks'
  BY <1>5 DEF WorkerIsPending, BaselineNeverAsks
<1>10. WritesFollowReconcile'
  <2>1. ASSUME NEW i \in DOMAIN service'.calls, service'.calls[i].kind = "write"
        PROVE  /\ service'.calls[i].operation_id \in Operations
               /\ Committed(service', service'.calls[i].operation_id)
    <3>1. CASE i = n
      BY <1>1, <1>3, <1>4, <3>1
    <3>2. CASE i \in DOMAIN service.calls
      BY <1>3, <1>4, <2>1, <3>2 DEF WritesFollowReconcile
    <3> QED
      BY <1>4, <3>1, <3>2
  <2> QED
    BY <1>5, <2>1 DEF WritesFollowReconcile
<1>11. ReconciledBeforeWrite'
  <2>1. ASSUME NEW i \in DOMAIN service'.calls, service'.calls[i].kind = "write"
        PROVE  /\ i > 1
               /\ service'.calls[i - 1] =
                    [kind |-> "reconcile", operation_id |-> service'.calls[i].operation_id]
               /\ \A j \in 1 .. i - 1 : service'.calls[j] # service'.calls[i]
    <3>1. CASE i = n
      <4>1. n > 1 /\ n - 1 \in DOMAIN service.calls /\ service'.calls[n - 1] = service.calls[n - 1]
        BY <1>1, <1>4, ServiceShape
      <4>2. service'.calls[n - 1] = [kind |-> "reconcile", operation_id |-> op]
        BY <1>1, <1>4, <4>1
      <4>3. ASSUME NEW j \in DOMAIN service.calls, service.calls[j] = c
            PROVE  FALSE
        BY <1>1, <4>3 DEF WritesFollowReconcile
      <4>4. \A j \in 1 .. n - 1 : service'.calls[j] # c
        BY <1>4, <4>3
      <4> QED
        BY <1>4, <3>1, <4>1, <4>2, <4>4
    <3>2. CASE i \in DOMAIN service.calls
      <4>1. /\ i > 1
            /\ service.calls[i - 1] =
                 [kind |-> "reconcile", operation_id |-> service.calls[i].operation_id]
            /\ \A j \in 1 .. i - 1 : service.calls[j] # service.calls[i]
        BY <1>4, <2>1, <3>2 DEF ReconciledBeforeWrite
      <4>2. \A j \in 1 .. i - 1 : j \in DOMAIN service.calls
        BY <1>4, <3>2
      <4>3. i - 1 \in 1 .. i - 1
        BY <1>4, <3>2, <4>1
      <4> HIDE DEF n
      <4> QED
        BY <1>4, <3>2, <4>1, <4>2, <4>3
    <3> QED
      BY <1>4, <3>1, <3>2
  <2> QED
    BY <2>1 DEF ReconciledBeforeWrite
<1>12. EffectsAccountedFor'
  <2>1. Len(service'.effects) = Len(service.effects) + 1
    BY <1>2, ServiceShape
  <2>2. Cardinality(CommittedSteps') = Cardinality(CommittedSteps) + 1
    BY <1>6, CountedSteps, FS_AddElement
  <2> QED
    BY <1>5, <2>1, <2>2 DEF EffectsAccountedFor
<1> QED
  BY <1>7, <1>8, <1>9, <1>10, <1>11, <1>12

\* Saving the checkpoint makes a committed step a completed one.
LEMMA RecordKeeps ==
  ASSUME IInv, NEW s \in Step, Record(s)
  PROVE  IInv'
<1> USE DEF IInv
<1>1. /\ worker = s /\ status[s] = "pending" /\ pc = "recording"
      /\ UNCHANGED <<mode, service, CommittedSteps, gapCrashes>>
  BY OperationFacts DEF Record, WorkerIsPending, CommittedSteps
<1>2. Completed' = Completed \cup {s} /\ s \notin Completed
  BY <1>1 DEF Record, Completed, TypeOK
<1>3. TypeOK'
  BY OperationFacts DEF TypeOK, Record
<1>4. CompletedIsCommitted'
  BY <1>1, <1>2 DEF CompletedIsCommitted, Record
<1>5. WorkerIsPending' /\ BaselineNeverAsks' /\ WritesFollowReconcile'
      /\ ReconciledBeforeWrite'
  BY <1>1 DEF WorkerIsPending, BaselineNeverAsks, WritesFollowReconcile, ReconciledBeforeWrite, Record
<1>6. EffectsAccountedFor'
  <2>1. Cardinality(Completed') = Cardinality(Completed) + 1
    BY <1>2, CountedSteps, FS_AddElement
  <2> QED
    BY <1>1, <2>1, CountedSteps DEF EffectsAccountedFor, Record, TypeOK
<1> QED
  BY <1>3, <1>4, <1>5, <1>6

-----------------------------------------------------------------------------
(* Theorems                                                                *)

\* The inductive invariant holds in every reachable state.
THEOREM InductiveInvariant == Spec => []IInv
<1>1. IInv /\ [Next]_vars => IInv'
  <2> SUFFICES ASSUME IInv, [Next]_vars PROVE IInv'
    OBVIOUS
  <2>1. CASE Crash
    BY <2>1, CrashKeeps
  <2>2. ASSUME NEW s \in Step, Start(s) PROVE IInv'
    BY <2>2, StartKeeps
  <2>3. ASSUME NEW s \in Step, Reconcile(s) PROVE IInv'
    BY <2>3, ReconcileKeeps
  <2>4. ASSUME NEW s \in Step, Commit(s) PROVE IInv'
    BY <2>4, BaselineCommitKeeps, TreatmentCommitKeeps, GapParameters DEF IInv, TypeOK
  <2>5. ASSUME NEW s \in Step, Record(s) PROVE IInv'
    BY <2>5, RecordKeeps
  <2>6. CASE UNCHANGED vars
    BY <2>6 DEF vars, IInv, TypeOK, CompletedIsCommitted, WorkerIsPending, BaselineNeverAsks,
         WritesFollowReconcile, ReconciledBeforeWrite, EffectsAccountedFor, Completed, CommittedSteps, Committed,
         IndexMatchesEffects
  <2> QED
    BY <2>1, <2>2, <2>3, <2>4, <2>5, <2>6 DEF Next, Work
<1> QED
  BY InitIInv, <1>1, PTL DEF Spec

\* The checkpoint never runs ahead of the service: whatever workers die, a step
\* that is recorded as completed has its effect (execute_pending_step).
THEOREM CheckpointFollowsService == Spec => []GapInv
<1>1. IInv => GapInv
  BY DEF IInv, GapInv
<1> QED
  BY <1>1, InductiveInvariant, PTL

\* However often the treatment is killed and invoked again, an operation is written
\* once, right after a reconciliation that did not find it.
THEOREM ReconciliationBeforeReplay == Spec => []ReconciledBeforeWrite
<1>1. IInv => ReconciledBeforeWrite
  BY DEF IInv
<1> QED
  BY <1>1, InductiveInvariant, PTL

\* What the gap costs, for any number of deaths: the baseline repeats the effect
\* once for each death between commit and record, the treatment never.
THEOREM CostOfTheGap == Spec => []EffectsAccountedFor
<1>1. IInv => EffectsAccountedFor
  BY DEF IInv
<1> QED
  BY <1>1, InductiveInvariant, PTL

\* The treatment implements the at-most-once sink of EffectSink: a step of a worker
\* performs an operation that was never performed, or changes no effect.
THEOREM ImplementsSink == Spec => SinkSpec
<1> DEFINE shown == IF mode = "treatment" THEN service.effects ELSE <<>>
<1>1. Init => Sink!Init
  BY DEF Init, EmptyService, Sink!Init
<1>2. IInv /\ [Next]_vars => [Sink!Next]_shown
  <2> SUFFICES ASSUME IInv, [Next]_vars PROVE [Sink!Next]_shown
    OBVIOUS
  <2>1. ASSUME NEW s \in Step, Commit(s), mode = "treatment"
        PROVE  Sink!Perform(OperationOf(s)) /\ OperationOf(s) \in Operations
    <3>1. OperationOf(s) \in Operations /\ ~ Committed(service, OperationOf(s))
      BY <2>1, OperationFacts DEF Commit, IInv, WritesFollowReconcile, CommittedSteps
    <3>2. /\ service \in ServiceType /\ IndexMatchesEffects(service)
          /\ service' = commit_idempotent(service, OperationOf(s)) /\ mode' = "treatment"
      BY <2>1 DEF Commit, IInv, TypeOK, CompletedIsCommitted
    <3>3. service'.effects = Append(service.effects, OperationOf(s))
      BY <3>1, <3>2, IdempotentFacts
    <3>4. \A i \in DOMAIN service.effects : service.effects[i] # OperationOf(s)
      BY <3>1, <3>2, OperationFacts, UncommittedHasNoEffect
    <3> QED
      BY <2>1, <3>1, <3>2, <3>3, <3>4 DEF Sink!Perform, Sink!Performed
  <2>2. ASSUME NEW s \in Step, Reconcile(s)
        PROVE  shown' = shown
    <3>1. service'.effects = service.effects
      BY <2>2, OperationFacts, ReconcileFacts DEF Reconcile, IInv
    <3> QED
      BY <2>2, <3>1 DEF Reconcile
  <2>3. ASSUME NEW s \in Step, Commit(s), mode # "treatment"
        PROVE  shown' = shown
    BY <2>3 DEF Commit
  <2>4. CASE UNCHANGED <<mode, service>>
    BY <2>4
  <2> QED
    BY <2>1, <2>2, <2>3, <2>4 DEF Next, Work, Start, Record, Crash, vars, Sink!Next
<1> QED
  BY <1>1, <1>2, InductiveInvariant, PTL DEF Spec, SinkSpec, Sink!Spec
=============================================================================
