---------------------------- MODULE HitlPauseProofs ----------------------------
(***************************************************************************)
(* Proofs about HitlPause, for every number of requests, deliveries and    *)
(* deaths, with the human acting at any time: the privileged effect has    *)
(* the human's approval, decisions are final where no request saves over   *)
(* them, and the resumed worker implements the at-most-once sink.          *)
(***************************************************************************)
EXTENDS HitlPause, FiniteSetTheorems, TLAPS

stable_id == stable_approval_id(operation_id)

-----------------------------------------------------------------------------
(* The inductive invariant                                                 *)

\* Any copy of the approval file decides only what was requested, and numbers
\* its requests in order.
DataOK(data) ==
  /\ \A id \in ApprovalId : data.decisions[id] # None => id \in data.requests
  /\ mode = "baseline" =>
       \A n \in 1 .. MaxRequests : numbered_id(n) \in data.requests => n < data.next_id

DataInv == DataOK(approvals) /\ DataOK(memory.loaded) /\ DataOK(human.loaded)

\* Every decision in a is in b.
Keeps(a, b) ==
  \A id \in ApprovalId : a.decisions[id] # None => b.decisions[id] = a.decisions[id]

\* The worker's copy is behind the file, and the file is not ahead of the copy the
\* human is about to replace it with: only the human decides.
CopiesInOrder ==
  /\ pc = "requesting" /\ mode = "baseline" => approvals.next_id <= MaxRequests
  /\ pc = "saving" =>
       /\ Keeps(memory.loaded, approvals)
       /\ approvals.next_id <= memory.loaded.next_id
       /\ mode = "baseline" => memory.loaded.next_id <= MaxRequests
       /\ memory.approval_id = RequestId(memory.loaded)
  /\ pc \in {"looking", "recording", "committing"} => memory.approval_id \in ApprovalId
  /\ human.at = "deciding" =>
       /\ Keeps(approvals, human.loaded)
       /\ human.loaded.next_id <= approvals.next_id
       /\ human.id \in human.loaded.requests /\ human.decision \in Decision

\* Where decisions are kept, no copy about to be saved is stale.
CopiesAreCurrent ==
  /\ ~ overlap => pc = "idle" \/ human.at = "idle"
  /\ KeepsDecisions =>
       /\ pc = "saving" => memory.loaded = approvals
       /\ human.at = "deciding" => human.loaded = approvals

\* The treatment requests once, right after it wrote its pause record, and goes on
\* only with the decision of that request.
TreatmentInv ==
  mode = "treatment" =>
    /\ pause = None \/ pc \in {"requesting", "saving"} =>
         approvals = NoApprovals /\ human.at = "idle" /\ service.effects = <<>>
    /\ pc = "pausing" => pause = None
    /\ pc \notin {"idle", "pausing"} => pause # None
    /\ pause # None => pause.approval_id = stable_id
    /\ pc \in {"looking", "recording", "committing"} => memory.approval_id = stable_id
    /\ pc \in {"recording", "committing"} =>
         memory.decision # None /\ memory.decision = approvals.decisions[stable_id]
    /\ pc = "committing" => memory.decision = "approved" /\ pause.status = "approved"

\* A baseline worker goes on with an approval of the request it just made; a copy it
\* saves holds the approval behind an earlier effect.
BaselineInv ==
  mode = "baseline" =>
    /\ pc \notin {"pausing", "recording"} /\ pause = None
    /\ pc = "committing" => approvals.decisions[memory.approval_id] = "approved"
    /\ pc = "saving" /\ service.effects # <<>> =>
         \E id \in ApprovalId : memory.loaded.decisions[id] = "approved"
    /\ ~ overlap =>
         /\ service.effects = <<>> /\ pc # "committing"
         /\ pc = "looking" => approvals.decisions[memory.approval_id] = None

IInv ==
  /\ TypeOK /\ DataInv /\ CopiesInOrder /\ CopiesAreCurrent
  /\ TreatmentInv /\ BaselineInv
  /\ PauseAgrees /\ OneDecisionPerRequest /\ EffectIsApproved
  /\ IndexMatchesEffects(service)

-----------------------------------------------------------------------------
(* The operations of FileExternalService                                   *)

\* An entry of the call log.
CallType == [kind : {"write", "reconcile"}, operation_id : {operation_id, None}]

\* A service is its three fields.
LEMMA ServiceFields ==
  ASSUME NEW svc \in ServiceType
  PROVE  /\ svc = [calls |-> svc.calls, effects |-> svc.effects, operations |-> svc.operations]
         /\ svc.calls \in Seq(CallType)
         /\ svc.effects \in Seq({operation_id, None})
         /\ svc.operations \in [{operation_id} -> Nat \cup {None}]
  BY DEF ServiceType, CallType

\* A service without a file has no calls, no effects and an index that agrees.
LEMMA EmptyServiceFacts ==
  EmptyService \in ServiceType /\ IndexMatchesEffects(EmptyService)
  BY DEF EmptyService, ServiceType, IndexMatchesEffects, Committed

\* _load, append to calls, _save: every operation logs its call.
LEMMA CalledFacts ==
  ASSUME NEW svc \in ServiceType, NEW kind \in {"write", "reconcile"},
         NEW op \in {operation_id, None}
  PROVE  /\ Called(svc, kind, op) \in ServiceType
         /\ Called(svc, kind, op).calls = Append(svc.calls, [kind |-> kind, operation_id |-> op])
         /\ Called(svc, kind, op).effects = svc.effects
         /\ Called(svc, kind, op).operations = svc.operations
<1> DEFINE c == [kind |-> kind, operation_id |-> op]
<1>1. Append(svc.calls, c) \in Seq(CallType)
  <2>1. svc.calls \in Seq(CallType) /\ c \in CallType
    BY ServiceFields DEF CallType
  <2> HIDE DEF c
  <2> QED
    BY <2>1
<1>2. Called(svc, kind, op) = [svc EXCEPT !.calls = Append(svc.calls, c)]
  BY DEF Called
<1> HIDE DEF c
<1>3. Called(svc, kind, op) = [calls |-> Append(svc.calls, c), effects |-> svc.effects,
                               operations |-> svc.operations]
  BY <1>2, ServiceFields
<1> QED
  BY <1>1, <1>3, ServiceFields DEF ServiceType, CallType, c

\* commit_idempotent logs a write call; it makes and indexes an effect exactly
\* when the key has none.
LEMMA IdempotentFacts ==
  ASSUME NEW svc \in ServiceType, NEW op \in {operation_id}
  PROVE  /\ commit_idempotent(svc, op) \in ServiceType
         /\ commit_idempotent(svc, op).calls =
              Append(svc.calls, [kind |-> "write", operation_id |-> op])
         /\ Committed(svc, op) =>
              /\ commit_idempotent(svc, op).effects = svc.effects
              /\ commit_idempotent(svc, op).operations = svc.operations
         /\ ~ Committed(svc, op) =>
              /\ commit_idempotent(svc, op).effects = Append(svc.effects, op)
              /\ commit_idempotent(svc, op).operations =
                   [svc.operations EXCEPT ![op] = Len(svc.effects)]
<1> DEFINE called == Called(svc, "write", op)
<1>1. /\ called \in ServiceType /\ called.effects = svc.effects
      /\ called.operations = svc.operations
      /\ called.calls = Append(svc.calls, [kind |-> "write", operation_id |-> op])
  BY CalledFacts
<1>2. CASE Committed(svc, op)
  BY <1>1, <1>2 DEF commit_idempotent
<1>3. CASE ~ Committed(svc, op)
  <2> DEFINE index == [called.operations EXCEPT ![op] = Len(svc.effects)]
  <2>1. commit_idempotent(svc, op) =
          [called EXCEPT !.effects = Append(called.effects, op), !.operations = index]
    BY <1>3 DEF commit_idempotent
  <2>2. index = [svc.operations EXCEPT ![op] = Len(svc.effects)]
    BY <1>1
  <2> HIDE DEF called, index
  <2>3. commit_idempotent(svc, op) =
          [calls |-> called.calls, effects |-> Append(svc.effects, op),
           operations |-> [svc.operations EXCEPT ![op] = Len(svc.effects)]]
    BY <1>1, <2>1, <2>2, ServiceFields
  <2>4. /\ Append(svc.effects, op) \in Seq({operation_id, None})
        /\ [svc.operations EXCEPT ![op] = Len(svc.effects)] \in [{operation_id} -> Nat \cup {None}]
    BY ServiceFields
  <2> QED
    BY <1>1, <1>3, <2>3, <2>4, ServiceFields DEF ServiceType, CallType
<1> QED
  BY <1>2, <1>3

\* With an index that agrees with the effects, a key that reconcile does not find
\* has no effect.
LEMMA UncommittedHasNoEffect ==
  ASSUME NEW svc \in ServiceType, IndexMatchesEffects(svc), None \notin {operation_id}, None \notin Nat,
         NEW op \in {operation_id}, ~ Committed(svc, op)
  PROVE  \A i \in DOMAIN svc.effects : svc.effects[i] # op
<1> SUFFICES ASSUME NEW i \in DOMAIN svc.effects, svc.effects[i] = op
             PROVE  FALSE
  OBVIOUS
<1>1. svc.operations[op] = i - 1
  BY DEF IndexMatchesEffects
<1>2. i \in Nat \ {0}
  BY ServiceFields
<1> QED
  BY <1>1, <1>2 DEF Committed

\* commit_idempotent keeps the index in agreement with the effects, and afterwards
\* reconcile finds the key, and every key it found before.
LEMMA IdempotentIndex ==
  ASSUME NEW svc \in ServiceType, IndexMatchesEffects(svc), None \notin {operation_id}, None \notin Nat,
         NEW op \in {operation_id}
  PROVE  /\ IndexMatchesEffects(commit_idempotent(svc, op))
         /\ \A o \in {operation_id} :
              Committed(commit_idempotent(svc, op), o) <=> Committed(svc, o) \/ o = op
<1> DEFINE new == commit_idempotent(svc, op)
           n == Len(svc.effects)
<1>1. CASE Committed(svc, op)
  <2>1. new.effects = svc.effects /\ new.operations = svc.operations
    BY <1>1, IdempotentFacts
  <2> QED
    BY <1>1, <2>1 DEF IndexMatchesEffects, Committed
<1>2. CASE ~ Committed(svc, op)
  <2>1. /\ new.effects = Append(svc.effects, op)
        /\ new.operations = [svc.operations EXCEPT ![op] = n]
    BY <1>2, IdempotentFacts
  <2>2. /\ DOMAIN new.effects = DOMAIN svc.effects \cup {n + 1}
        /\ \A i \in DOMAIN svc.effects : i # n + 1 /\ new.effects[i] = svc.effects[i]
        /\ new.effects[n + 1] = op
        /\ n \in Nat
    BY <2>1, ServiceFields
  <2>3. /\ new.operations[op] = n
        /\ \A o \in {operation_id} : o # op => new.operations[o] = svc.operations[o]
    BY <2>1, ServiceFields
  <2> HIDE DEF new
  <2>4. \A o \in {operation_id} : Committed(new, o) <=> Committed(svc, o) \/ o = op
    BY <2>2, <2>3 DEF Committed
  <2>5. ASSUME NEW o \in {operation_id}, Committed(new, o)
        PROVE  /\ new.operations[o] + 1 \in DOMAIN new.effects
               /\ new.effects[new.operations[o] + 1] = o
    BY <2>2, <2>3, <2>4, <2>5 DEF IndexMatchesEffects
  <2>6. ASSUME NEW i \in DOMAIN new.effects, new.effects[i] # None
        PROVE  new.operations[new.effects[i]] = i - 1
    <3>1. CASE i = n + 1
      BY <2>2, <2>3, <3>1
    <3>2. CASE i \in DOMAIN svc.effects
      <4>1. svc.effects[i] \in {operation_id} /\ svc.effects[i] # op
        BY <1>2, <2>2, <2>6, <3>2, UncommittedHasNoEffect, ServiceFields
      <4> QED
        BY <2>2, <2>3, <2>6, <3>2, <4>1 DEF IndexMatchesEffects
    <3> QED
      BY <2>2, <3>1, <3>2
  <2> QED
    BY <2>4, <2>5, <2>6 DEF IndexMatchesEffects, new
<1> QED
  BY <1>1, <1>2

-----------------------------------------------------------------------------
(* Approvals                                                               *)

\* Numbered approval ids are told apart by their numbers.
LEMMA ApprovalIds ==
  /\ stable_id \in ApprovalId
  /\ \A n \in 1 .. MaxRequests : numbered_id(n) \in ApprovalId
  /\ \A m, n \in Nat : numbered_id(m) = numbered_id(n) => m = n
  BY DEF stable_id, ApprovalId, numbered_id

\* There are finitely many approval ids, so decisions can be counted.
LEMMA ApprovalIdIsFinite == IsFiniteSet(ApprovalId)
<1> DEFINE Numbered == {numbered_id(n) : n \in 1 .. MaxRequests}
           f == [n \in 1 .. MaxRequests |-> numbered_id(n)]
<1>1. f \in Surjection(1 .. MaxRequests, Numbered)
  BY DEF Surjection
<1>2. IsFiniteSet(1 .. MaxRequests)
  BY HitlBounds, FS_Interval
<1>3. IsFiniteSet(Numbered)
  BY <1>1, <1>2, FS_Surjection
<1>4. IsFiniteSet({stable_approval_id(operation_id)})
  BY FS_Singleton
<1> QED
  BY <1>3, <1>4, FS_Union DEF ApprovalId

\* The scenario never changes.
LEMMA ScenarioFacts ==
  ASSUME TypeOK
  PROVE  mode \in {"baseline", "treatment"} /\ overlap \in BOOLEAN
  BY HitlParameters DEF TypeOK

\* The approval file is its four fields.
LEMMA ApprovalsFields ==
  ASSUME NEW data \in ApprovalsType
  PROVE  /\ data.next_id \in Nat \ {0} /\ data.requests \subseteq ApprovalId
         /\ data.decisions \in [ApprovalId -> Decision \cup {None}]
         /\ data.decision_writes \in Nat
  BY DEF ApprovalsType

\* An empty approval file.
LEMMA NoApprovalsFacts ==
  /\ NoApprovals \in ApprovalsType /\ DataOK(NoApprovals)
  /\ NoApprovals.requests = {}
  /\ \A id \in ApprovalId : NoApprovals.decisions[id] = None
  BY DEF NoApprovals, ApprovalsType, DataOK

\* request adds a request and keeps every decision.
LEMMA RequestFacts ==
  ASSUME TypeOK, NEW data \in ApprovalsType, DataOK(data),
         mode = "baseline" => data.next_id <= MaxRequests
  PROVE  /\ RequestId(data) \in ApprovalId
         /\ request(data) \in ApprovalsType /\ DataOK(request(data))
         /\ request(data).decisions = data.decisions
         /\ request(data).decision_writes = data.decision_writes
         /\ request(data).requests = data.requests \cup {RequestId(data)}
         /\ data.next_id <= request(data).next_id
<1> DEFINE n == IF mode = "baseline" THEN data.next_id + 1 ELSE data.next_id
<1>1. RequestId(data) \in ApprovalId
  BY ApprovalIds, ApprovalsFields, HitlBounds DEF RequestId, stable_id
<1>2. request(data) = [next_id |-> n, requests |-> data.requests \cup {RequestId(data)},
                       decisions |-> data.decisions, decision_writes |-> data.decision_writes]
  <2> DEFINE all == data.requests \cup {RequestId(data)}
  <2>1. request(data) = [data EXCEPT !.next_id = n, !.requests = all]
    BY DEF request
  <2> HIDE DEF n, all
  <2>2. request(data) = [next_id |-> n, requests |-> all, decisions |-> data.decisions,
                         decision_writes |-> data.decision_writes]
    BY <2>1 DEF ApprovalsType
  <2> QED
    BY <2>2 DEF all
<1>3. request(data) \in ApprovalsType
  BY <1>1, <1>2, ApprovalsFields DEF ApprovalsType
<1>4. DataOK(request(data))
  <2>1. ASSUME NEW k \in 1 .. MaxRequests, mode = "baseline",
               numbered_id(k) \in data.requests \cup {RequestId(data)}
        PROVE  k < n
    <3>1. CASE numbered_id(k) \in data.requests
      BY <2>1, <3>1, ApprovalsFields DEF DataOK
    <3>2. CASE numbered_id(k) = RequestId(data)
      BY <2>1, <3>2, ApprovalIds, ApprovalsFields DEF RequestId
    <3> QED
      BY <2>1, <3>1, <3>2
  <2> HIDE DEF n
  <2> QED
    BY <1>2, <2>1 DEF DataOK
<1> QED
  BY <1>1, <1>2, <1>3, <1>4, ApprovalsFields

\* decide gives a request its decision, once.
LEMMA DecideFacts ==
  ASSUME TypeOK, NEW data \in ApprovalsType, DataOK(data),
         NEW id \in data.requests, NEW d \in Decision
  PROVE  /\ decide(data, id, d) \in ApprovalsType /\ DataOK(decide(data, id, d))
         /\ decide(data, id, d).next_id = data.next_id
         /\ decide(data, id, d).requests = data.requests
         /\ Keeps(data, decide(data, id, d))
         /\ data.decisions[id] # None => decide(data, id, d) = data
         /\ data.decisions[id] = None =>
              /\ decide(data, id, d).decisions = [data.decisions EXCEPT ![id] = d]
              /\ decide(data, id, d).decision_writes = data.decision_writes + 1
<1>1. id \in ApprovalId
  BY ApprovalsFields
<1>2. CASE data.decisions[id] # None
  BY <1>2 DEF decide, Keeps
<1>3. CASE data.decisions[id] = None
  <2> DEFINE new == [data.decisions EXCEPT ![id] = d]
  <2>1. decide(data, id, d) =
          [data EXCEPT !.decisions = new, !.decision_writes = data.decision_writes + 1]
    BY <1>3 DEF decide
  <2>2. /\ new \in [ApprovalId -> Decision \cup {None}]
        /\ \A o \in ApprovalId : new[o] = IF o = id THEN d ELSE data.decisions[o]
    BY <1>1, ApprovalsFields
  <2> HIDE DEF new
  <2>3. decide(data, id, d) =
          [next_id |-> data.next_id, requests |-> data.requests, decisions |-> new,
           decision_writes |-> data.decision_writes + 1]
    BY <2>1 DEF ApprovalsType
  <2>4. decide(data, id, d) \in ApprovalsType
    BY <2>2, <2>3, ApprovalsFields DEF ApprovalsType
  <2>5. DataOK(decide(data, id, d))
    BY <2>2, <2>3 DEF DataOK
  <2>6. Keeps(data, decide(data, id, d))
    BY <1>3, <2>2, <2>3 DEF Keeps
  <2> QED
    BY <1>3, <2>3, <2>4, <2>5, <2>6 DEF new
<1> QED
  BY <1>2, <1>3


\* A worker, and a human, that have loaded nothing.
LEMMA NothingLoaded ==
  /\ NoMemory.approval_id = None /\ NoMemory.loaded = NoApprovals /\ NoMemory.decision = None
  /\ NobodyDecides.at = "idle" /\ NobodyDecides.loaded = NoApprovals
  /\ NoMemory \in [approval_id : ApprovalId \cup {None}, loaded : ApprovalsType,
                   decision : Decision \cup {None}]
  /\ NobodyDecides \in [at : {"idle", "deciding"}, id : ApprovalId \cup {None},
                        decision : Decision \cup {None}, loaded : ApprovalsType]
  BY NoApprovalsFacts DEF NoMemory, NobodyDecides

\* Properties of the files alone survive a step that leaves the files alone.
LEMMA FilesUnchanged ==
  ASSUME IInv, UNCHANGED <<fixed, approvals, pause, service>>
  PROVE  PauseAgrees' /\ OneDecisionPerRequest' /\ EffectIsApproved' /\ IndexMatchesEffects(service)'
  BY DEF IInv, fixed, PauseAgrees, OneDecisionPerRequest, KeepsDecisions, EffectIsApproved, Approved,
         IndexMatchesEffects, Committed

-----------------------------------------------------------------------------
(* The inductive invariant holds initially and is kept by every action     *)

\* Nothing was requested, decided or done.
LEMMA InitIInv == Init => IInv
<1> SUFFICES ASSUME Init PROVE IInv
  OBVIOUS
<1>1. <<mode, overlap>> \in Scenarios
  BY HitlParameters DEF Init
<1>2. TypeOK
  BY <1>1, EmptyServiceFacts, NoApprovalsFacts, NothingLoaded DEF Init, TypeOK
<1>3. service.effects = <<>> /\ IndexMatchesEffects(service)
  BY EmptyServiceFacts DEF Init, EmptyService
<1>4. DataInv
  BY NoApprovalsFacts, NothingLoaded DEF Init, DataInv
<1>5. CopiesInOrder /\ CopiesAreCurrent
  BY NothingLoaded DEF Init, CopiesInOrder, CopiesAreCurrent
<1>6. TreatmentInv /\ BaselineInv
  BY <1>3, NothingLoaded DEF Init, TreatmentInv, BaselineInv
<1>7. PauseAgrees /\ EffectIsApproved
  BY <1>3 DEF Init, PauseAgrees, EffectIsApproved
<1>8. OneDecisionPerRequest
  <2>1. {id \in ApprovalId : approvals.decisions[id] # None} = {} /\ approvals.decision_writes = 0
    BY NoApprovalsFacts DEF Init, NoApprovals
  <2> QED
    BY <2>1, FS_EmptySet DEF OneDecisionPerRequest
<1> QED
  BY <1>2, <1>3, <1>4, <1>5, <1>6, <1>7, <1>8 DEF IInv

\* A worker that starts has the pause record in memory, or will ask anew.
LEMMA StartKeeps ==
  ASSUME IInv, Start
  PROVE  IInv'
<1> USE DEF IInv
<1>1. memory'.loaded = NoApprovals /\ memory'.decision = None
  BY NothingLoaded DEF Start, NoMemory
<1>2. TypeOK'
  <2>1. pause # None => pause.approval_id \in ApprovalId
    BY DEF TypeOK, PauseType
  <2>2. memory' \in [approval_id : ApprovalId \cup {None}, loaded : ApprovalsType,
                     decision : Decision \cup {None}]
    BY <2>1, NothingLoaded DEF Start
  <2> QED
    BY <2>2 DEF Start, TypeOK, fixed
<1>3. DataInv'
  BY <1>1, NoApprovalsFacts DEF Start, DataInv, DataOK, fixed
<1>4. pc' = "looking" => /\ mode = "treatment" /\ pause # None
                         /\ memory'.approval_id = pause.approval_id
  BY ScenarioFacts, NothingLoaded DEF Start, NoMemory
<1>5. CopiesInOrder'
  BY <1>4, NothingLoaded DEF Start, CopiesInOrder, fixed, Keeps, TypeOK, PauseType
<1>6. CopiesAreCurrent'
  BY DEF Start, CopiesAreCurrent, KeepsDecisions, InTurn, fixed
<1>7. TreatmentInv'
  BY <1>4 DEF Start, TreatmentInv, fixed
<1>8. BaselineInv'
  BY <1>4 DEF Start, BaselineInv, fixed
<1> QED
  BY <1>2, <1>3, <1>5, <1>6, <1>7, <1>8, FilesUnchanged DEF Start

\* The pause record binds the operation to its approval id before anything is asked.
LEMMA WritePauseKeeps ==
  ASSUME IInv, WritePause
  PROVE  IInv'
<1> USE DEF IInv
<1>1. /\ mode = "treatment" /\ pause = None
      /\ approvals = NoApprovals /\ human.at = "idle" /\ service.effects = <<>>
  BY ScenarioFacts DEF WritePause, TreatmentInv, BaselineInv
<1>2. /\ pause' \in PauseType /\ pause' # None
      /\ pause'.approval_id = stable_id /\ pause'.decision = None /\ pause'.status = "waiting"
  BY ApprovalIds, NoneIsNothing DEF WritePause, PauseType, stable_id
<1>3. TypeOK'
  BY <1>2 DEF WritePause, TypeOK, fixed
<1>4. DataInv' /\ CopiesInOrder' /\ CopiesAreCurrent'
  BY <1>1 DEF WritePause, DataInv, DataOK, CopiesInOrder, CopiesAreCurrent, KeepsDecisions, fixed
<1>5. TreatmentInv' /\ BaselineInv'
  BY <1>1, <1>2 DEF WritePause, TreatmentInv, BaselineInv, fixed
<1>6. PauseAgrees' /\ OneDecisionPerRequest' /\ EffectIsApproved' /\ IndexMatchesEffects(service)'
  BY <1>1, <1>2 DEF WritePause, PauseAgrees, OneDecisionPerRequest, KeepsDecisions, EffectIsApproved,
       IndexMatchesEffects, Committed, fixed
<1> QED
  BY <1>3, <1>4, <1>5, <1>6

\* What a worker loads before its request is the file at that time.
LEMMA RequestLoadsKeeps ==
  ASSUME IInv, RequestLoads
  PROVE  IInv'
<1> USE DEF IInv
<1>1. /\ memory' = [memory EXCEPT !.approval_id = RequestId(approvals), !.loaded = approvals]
      /\ memory'.loaded = approvals /\ memory'.approval_id = RequestId(approvals)
      /\ approvals \in ApprovalsType /\ mode' = mode
  BY DEF RequestLoads, TypeOK, fixed
<1>2. mode = "baseline" => approvals.next_id <= MaxRequests
  BY DEF RequestLoads, CopiesInOrder
<1>3. RequestId(approvals) \in ApprovalId
  BY <1>1, <1>2, RequestFacts DEF DataInv
<1>4. TypeOK'
  BY <1>1, <1>3 DEF RequestLoads, TypeOK, fixed
<1>5. DataInv'
  BY <1>1 DEF RequestLoads, DataInv, DataOK, fixed
<1>6. CopiesInOrder'
  <2>1. approvals.next_id <= approvals.next_id
    BY <1>1, ApprovalsFields
  <2>2. RequestId(memory.loaded)' = RequestId(approvals)
    BY <1>1 DEF RequestId
  <2> QED
    BY <1>1, <1>2, <2>1, <2>2 DEF RequestLoads, CopiesInOrder, Keeps, fixed
<1>7. CopiesAreCurrent'
  BY <1>1 DEF RequestLoads, CopiesAreCurrent, KeepsDecisions, fixed
<1>8. TreatmentInv'
  BY DEF RequestLoads, TreatmentInv, fixed
<1>9. BaselineInv'
  BY <1>1 DEF RequestLoads, BaselineInv, EffectIsApproved, Approved, fixed
<1> QED
  BY <1>4, <1>5, <1>6, <1>7, <1>8, <1>9, FilesUnchanged DEF RequestLoads

\* The request replaces the approval file by the copy that was loaded before.
LEMMA RequestSavesKeeps ==
  ASSUME IInv, RequestSaves
  PROVE  IInv'
<1> USE DEF IInv
<1>1. /\ memory.loaded \in ApprovalsType
      /\ approvals' = request(memory.loaded)
      /\ approvals'.decisions = memory.loaded.decisions
      /\ approvals'.decision_writes = memory.loaded.decision_writes
      /\ approvals'.requests = memory.loaded.requests \cup {memory.approval_id}
      /\ approvals' \in ApprovalsType /\ DataOK(approvals')
      /\ memory.loaded.next_id <= approvals'.next_id
      /\ memory.approval_id \in ApprovalId /\ memory.approval_id = RequestId(memory.loaded)
  <2>1. memory.loaded \in ApprovalsType /\ DataOK(memory.loaded)
    BY DEF TypeOK, DataInv
  <2>2. /\ mode = "baseline" => memory.loaded.next_id <= MaxRequests
        /\ memory.approval_id = RequestId(memory.loaded)
    BY DEF RequestSaves, CopiesInOrder
  <2> QED
    BY <2>1, <2>2, RequestFacts DEF RequestSaves
<1>2. TypeOK'
  BY <1>1 DEF RequestSaves, TypeOK, fixed
<1>3. DataInv'
  BY <1>1 DEF RequestSaves, DataInv, DataOK, fixed
<1>4. CopiesInOrder'
  <2>1. ASSUME human.at = "deciding"
        PROVE  Keeps(approvals', human.loaded) /\ human.loaded.next_id <= approvals'.next_id
    <3>1. Keeps(memory.loaded, approvals) /\ Keeps(approvals, human.loaded)
      BY <2>1 DEF RequestSaves, CopiesInOrder
    <3>2. Keeps(approvals', human.loaded)
      BY <1>1, <3>1 DEF Keeps
    <3>3. /\ human.loaded.next_id <= approvals.next_id
          /\ approvals.next_id <= memory.loaded.next_id
          /\ human.loaded \in ApprovalsType /\ approvals \in ApprovalsType
      BY <2>1 DEF RequestSaves, CopiesInOrder, TypeOK
    <3>4. human.loaded.next_id <= approvals'.next_id
      BY <1>1, <3>3, ApprovalsFields
    <3> QED
      BY <3>2, <3>4
  <2> QED
    BY <1>1, <2>1 DEF RequestSaves, CopiesInOrder, Keeps, fixed
<1>5. CopiesAreCurrent'
  BY ScenarioFacts DEF RequestSaves, CopiesAreCurrent, KeepsDecisions, TreatmentInv, fixed
<1>6. TreatmentInv'
  BY <1>1 DEF RequestSaves, TreatmentInv, RequestId, stable_id, fixed
<1>7. BaselineInv'
  <2>1. ASSUME mode = "baseline"
        PROVE  memory.loaded.decisions[memory.approval_id] = None
    <3>1. memory.approval_id = numbered_id(memory.loaded.next_id)
      BY <1>1, <2>1 DEF RequestId
    <3>2. memory.loaded.next_id \in 1 .. MaxRequests
      BY <1>1, <2>1, ApprovalsFields, HitlBounds DEF CopiesInOrder, RequestSaves
    <3>3. memory.approval_id \notin memory.loaded.requests
      BY <1>1, <2>1, <3>1, <3>2 DEF DataInv, DataOK
    <3> QED
      BY <1>1, <3>3 DEF DataInv, DataOK
  <2> QED
    BY <1>1, <2>1 DEF RequestSaves, BaselineInv, fixed
<1>8. PauseAgrees'
  <2>1. CASE mode = "treatment"
    BY <1>1, <2>1 DEF RequestSaves, PauseAgrees, CopiesAreCurrent, KeepsDecisions
  <2>2. CASE mode = "baseline"
    BY <2>2 DEF RequestSaves, PauseAgrees, BaselineInv
  <2> QED
    BY <2>1, <2>2, ScenarioFacts
<1>9. OneDecisionPerRequest'
  BY <1>1 DEF RequestSaves, OneDecisionPerRequest, KeepsDecisions, CopiesAreCurrent, fixed
<1>10. EffectIsApproved'
  <2>1. CASE mode = "treatment"
    BY <2>1 DEF RequestSaves, EffectIsApproved, TreatmentInv
  <2>2. ASSUME mode = "baseline", service.effects # <<>>
        PROVE  \E id \in ApprovalId : Approved(id)'
    BY <1>1, <1>3, <2>2, NoneIsNothing DEF RequestSaves, BaselineInv, Approved, DataInv, DataOK, Decision
  <2> QED
    BY <2>1, <2>2, ScenarioFacts DEF RequestSaves, EffectIsApproved, fixed
<1>11. IndexMatchesEffects(service)'
  BY DEF RequestSaves, IndexMatchesEffects, Committed
<1> QED
  BY <1>2, <1>3, <1>4, <1>5, <1>6, <1>7, <1>8, <1>9, <1>10, <1>11


\* A worker goes on only with a decision it read; the file is not changed.
LEMMA LookupKeeps ==
  ASSUME IInv, Lookup
  PROVE  IInv'
<1> DEFINE d == approvals.decisions[memory.approval_id]
<1> USE DEF IInv
<1>1. /\ memory.approval_id \in ApprovalId
      /\ d \in Decision \cup {None}
      /\ pc = "looking"
      /\ UNCHANGED <<fixed, approvals, pause, service, human>>
  BY ApprovalsFields DEF Lookup, CopiesInOrder, TypeOK
<1>2. \/ mode = "baseline" /\ d = "approved" /\ pc' = "committing" /\ memory' = memory
      \/ mode = "treatment" /\ d # None /\ pc' = "recording"
         /\ memory' = [memory EXCEPT !.decision = d]
      \/ pc' = "idle" /\ memory' = NoMemory
  BY ScenarioFacts DEF Lookup, Exit
<1>3. TypeOK'
  BY <1>1, <1>2, NothingLoaded DEF Lookup, TypeOK, fixed
<1>4. DataInv'
  BY <1>1, <1>2, NoApprovalsFacts, NothingLoaded DEF DataInv, DataOK, TypeOK, fixed
<1>5. CopiesInOrder'
  BY <1>1, <1>2, NothingLoaded DEF CopiesInOrder, Keeps, TypeOK, fixed
<1>6. CopiesAreCurrent'
  BY <1>1, <1>2, NothingLoaded DEF CopiesAreCurrent, KeepsDecisions, fixed
<1>7. TreatmentInv'
  BY <1>1, <1>2, NothingLoaded DEF TreatmentInv, TypeOK, fixed
<1>8. BaselineInv'
  BY <1>1, <1>2, NothingLoaded, NoneIsNothing DEF BaselineInv, Decision, fixed
<1> QED
  BY <1>1, <1>3, <1>4, <1>5, <1>6, <1>7, <1>8, FilesUnchanged

\* What the worker copies into the pause record is the decision in the file.
LEMMA RecordDecisionKeeps ==
  ASSUME IInv, RecordDecision
  PROVE  IInv'
<1> USE DEF IInv
<1>1. /\ mode = "treatment" /\ pause # None /\ pause.approval_id = stable_id
      /\ memory.decision \in Decision
      /\ memory.decision = approvals.decisions[stable_id]
      /\ memory.approval_id = stable_id
      /\ UNCHANGED <<fixed, approvals, service, human>>
  BY ScenarioFacts DEF RecordDecision, TreatmentInv, BaselineInv, TypeOK
<1>2. /\ pause' \in PauseType /\ pause' # None
      /\ pause'.approval_id = stable_id /\ pause'.decision = memory.decision
      /\ pause'.status = memory.decision
  BY <1>1, NoneIsNothing DEF RecordDecision, TypeOK, PauseType
<1>3. \/ memory.decision = "approved" /\ pc' = "committing" /\ memory' = memory
      \/ pc' = "idle" /\ memory' = NoMemory
  BY DEF RecordDecision, Exit
<1>4. TypeOK'
  BY <1>1, <1>2, <1>3, NothingLoaded DEF RecordDecision, TypeOK, fixed
<1>5. DataInv'
  BY <1>1, <1>3, NoApprovalsFacts, NothingLoaded DEF DataInv, DataOK, fixed
<1>6. CopiesInOrder' /\ CopiesAreCurrent'
  BY <1>1, <1>3, ApprovalIds DEF RecordDecision, CopiesInOrder, CopiesAreCurrent, KeepsDecisions, fixed
<1>7. TreatmentInv' /\ BaselineInv'
  BY <1>1, <1>2, <1>3, NoneIsNothing DEF RecordDecision, TreatmentInv, BaselineInv, fixed
<1>8. PauseAgrees' /\ OneDecisionPerRequest' /\ IndexMatchesEffects(service)'
  BY <1>1, <1>2 DEF PauseAgrees, OneDecisionPerRequest, KeepsDecisions, IndexMatchesEffects,
       Committed, fixed
<1>9. EffectIsApproved'
  BY <1>1, <1>2 DEF EffectIsApproved, Approved, fixed, stable_id
<1> QED
  BY <1>4, <1>5, <1>6, <1>7, <1>8, <1>9

\* What Perform does to the service.
LEMMA PerformFacts ==
  ASSUME IInv, Perform
  PROVE  /\ service' \in ServiceType /\ IndexMatchesEffects(service)'
         /\ \/ service'.effects = service.effects
            \/ /\ \A i \in DOMAIN service.effects : service.effects[i] # operation_id
               /\ service'.effects = Append(service.effects, operation_id)
<1> USE DEF IInv
<1>1. /\ service \in ServiceType /\ IndexMatchesEffects(service)
      /\ service' = commit_idempotent(service, operation_id)
      /\ None \notin {operation_id} /\ None \notin Nat /\ operation_id \in {operation_id}
  BY NoneIsNothing DEF Perform, TypeOK
<1>2. service' \in ServiceType
  BY <1>1, IdempotentFacts
<1>3. IndexMatchesEffects(service')
  BY <1>1, IdempotentIndex
<1>4. CASE Committed(service, operation_id)
  BY <1>1, <1>2, <1>3, <1>4, IdempotentFacts DEF IndexMatchesEffects, Committed
<1>5. CASE ~ Committed(service, operation_id)
  <2>1. \A i \in DOMAIN service.effects : service.effects[i] # operation_id
    BY <1>1, <1>5, UncommittedHasNoEffect
  <2>2. service'.effects = Append(service.effects, operation_id)
    BY <1>1, <1>5, IdempotentFacts
  <2> QED
    BY <1>2, <1>3, <2>1, <2>2 DEF IndexMatchesEffects, Committed
<1> QED
  BY <1>4, <1>5

\* The effect is made for a decision that was read as approved.
LEMMA PerformKeeps ==
  ASSUME IInv, Perform
  PROVE  IInv'
<1> USE DEF IInv
<1>1. /\ pc = "committing" /\ pc' = "idle" /\ memory' = NoMemory
      /\ UNCHANGED <<fixed, approvals, pause, human>>
  BY DEF Perform, Exit
<1>2. TypeOK'
  BY <1>1, PerformFacts, NothingLoaded DEF Perform, TypeOK, fixed
<1>3. DataInv'
  BY <1>1, NoApprovalsFacts, NothingLoaded DEF DataInv, DataOK, fixed
<1>4. CopiesInOrder' /\ CopiesAreCurrent'
  BY <1>1 DEF CopiesInOrder, CopiesAreCurrent, KeepsDecisions, fixed
<1>5. TreatmentInv' /\ BaselineInv'
  BY <1>1 DEF TreatmentInv, BaselineInv, fixed
<1>6. PauseAgrees' /\ OneDecisionPerRequest'
  BY <1>1 DEF PauseAgrees, OneDecisionPerRequest, KeepsDecisions, fixed
<1>7. EffectIsApproved'
  <2>1. CASE mode = "treatment"
    <3>1. /\ pause # None /\ pause.status = "approved"
          /\ approvals.decisions[stable_id] = "approved"
      BY <1>1, <2>1 DEF TreatmentInv
    <3>2. Approved(stable_id)
      BY <3>1, ApprovalIds, NoneIsNothing DEF DataInv, DataOK, Approved, Decision
    <3> QED
      BY <1>1, <2>1, <3>1, <3>2 DEF EffectIsApproved, Approved, stable_id, fixed
  <2>2. CASE mode = "baseline"
    <3>1. /\ memory.approval_id \in ApprovalId
          /\ approvals.decisions[memory.approval_id] = "approved"
      BY <1>1, <2>2 DEF BaselineInv, CopiesInOrder
    <3>2. Approved(memory.approval_id)
      BY <3>1, NoneIsNothing DEF DataInv, DataOK, Approved, Decision
    <3> QED
      BY <1>1, <2>2, <3>1, <3>2 DEF EffectIsApproved, Approved, fixed
  <2> QED
    BY <2>1, <2>2, ScenarioFacts
<1> QED
  BY <1>2, <1>3, <1>4, <1>5, <1>6, <1>7, PerformFacts

\* A death forgets what the worker had read.
LEMMA CrashKeeps ==
  ASSUME IInv, Crash
  PROVE  IInv'
<1> USE DEF IInv
<1>1. /\ pc' = "idle" /\ memory' = NoMemory
      /\ UNCHANGED <<fixed, approvals, pause, service, human>>
  BY DEF Crash, Exit
<1>2. TypeOK'
  BY <1>1, NothingLoaded DEF Crash, TypeOK, fixed
<1>3. DataInv'
  BY <1>1, NoApprovalsFacts, NothingLoaded DEF DataInv, DataOK, fixed
<1>4. CopiesInOrder' /\ CopiesAreCurrent'
  BY <1>1 DEF CopiesInOrder, CopiesAreCurrent, KeepsDecisions, fixed
<1>5. TreatmentInv' /\ BaselineInv'
  BY <1>1 DEF TreatmentInv, BaselineInv, fixed
<1> QED
  BY <1>1, <1>2, <1>3, <1>4, <1>5, FilesUnchanged

\* What the human loads is the file at that time.
LEMMA HumanLoadsKeeps ==
  ASSUME IInv, NEW id \in ApprovalId, NEW d \in Decision, HumanLoads(id, d)
  PROVE  IInv'
<1> USE DEF IInv
<1>1. /\ human'.at = "deciding" /\ human'.id = id /\ human'.decision = d
      /\ human'.loaded = approvals /\ id \in approvals.requests
      /\ approvals \in ApprovalsType
      /\ UNCHANGED <<fixed, approvals, pause, service, pc, memory>>
  BY DEF HumanLoads, TypeOK
<1>2. TypeOK'
  BY DEF HumanLoads, TypeOK, fixed
<1>3. DataInv'
  BY <1>1 DEF DataInv, DataOK, fixed
<1>4. CopiesInOrder'
  <2>1. approvals.next_id <= approvals.next_id
    BY <1>1, ApprovalsFields
  <2> QED
    BY <1>1, <2>1 DEF CopiesInOrder, RequestId, Keeps, fixed
<1>5. CopiesAreCurrent'
  BY <1>1 DEF HumanLoads, CopiesAreCurrent, KeepsDecisions, fixed
<1>6. TreatmentInv' /\ BaselineInv'
  BY <1>1, NoApprovalsFacts DEF HumanLoads, TreatmentInv, BaselineInv, fixed
<1> QED
  BY <1>1, <1>2, <1>3, <1>4, <1>5, <1>6, FilesUnchanged

\* A human who finds another decision changes nothing.
LEMMA HumanConflictsKeeps ==
  ASSUME IInv, HumanConflicts
  PROVE  IInv'
<1> USE DEF IInv
<1>1. /\ human' = NobodyDecides /\ human'.at = "idle" /\ human'.loaded = NoApprovals
      /\ UNCHANGED <<fixed, approvals, pause, service, pc, memory>>
  BY NothingLoaded DEF HumanConflicts
<1>2. TypeOK'
  BY <1>1, NothingLoaded DEF HumanConflicts, TypeOK, fixed
<1>3. DataInv'
  BY <1>1, NoApprovalsFacts DEF DataInv, DataOK, fixed
<1>4. CopiesInOrder'
  BY <1>1 DEF CopiesInOrder, RequestId, Keeps, fixed
<1>5. CopiesAreCurrent' /\ TreatmentInv' /\ BaselineInv'
  BY <1>1 DEF CopiesAreCurrent, KeepsDecisions, TreatmentInv, BaselineInv, fixed
<1> QED
  BY <1>1, <1>2, <1>3, <1>4, <1>5, FilesUnchanged


\* What the human's save does to the approval file, and that it loses no decision.
LEMMA HumanSavesFacts ==
  ASSUME IInv, HumanSaves
  PROVE  /\ approvals' = decide(human.loaded, human.id, human.decision)
         /\ approvals' \in ApprovalsType /\ DataOK(approvals')
         /\ approvals'.next_id = human.loaded.next_id
         /\ Keeps(approvals, approvals')
         /\ human.id \in ApprovalId /\ human.decision \in Decision
         /\ UNCHANGED <<fixed, pause, service, pc, memory>>
         /\ human' = NobodyDecides
<1> USE DEF IInv
<1>1. /\ human.loaded \in ApprovalsType /\ DataOK(human.loaded)
      /\ human.id \in human.loaded.requests /\ human.decision \in Decision
      /\ Keeps(approvals, human.loaded)
  BY DEF HumanSaves, TypeOK, DataInv, CopiesInOrder
<1>2. /\ approvals' = decide(human.loaded, human.id, human.decision)
      /\ approvals' \in ApprovalsType /\ DataOK(approvals')
      /\ approvals'.next_id = human.loaded.next_id
      /\ Keeps(human.loaded, approvals')
  BY <1>1, DecideFacts DEF HumanSaves
<1>3. Keeps(approvals, approvals')
  BY <1>1, <1>2 DEF Keeps
<1> QED
  BY <1>1, <1>2, <1>3, ApprovalsFields DEF HumanSaves

\* The human's decision is saved over a pending one.
LEMMA HumanSavesKeeps ==
  ASSUME IInv, HumanSaves
  PROVE  IInv'
<1> USE DEF IInv
<1>1. /\ approvals' \in ApprovalsType /\ DataOK(approvals')
      /\ approvals'.next_id = human.loaded.next_id
      /\ Keeps(approvals, approvals')
      /\ UNCHANGED <<fixed, pause, service, pc, memory>>
      /\ human'.at = "idle" /\ human'.loaded = NoApprovals
      /\ human.at = "deciding"
  BY HumanSavesFacts, NothingLoaded DEF HumanSaves
<1>2. TypeOK'
  BY <1>1, NothingLoaded DEF HumanSaves, TypeOK, fixed
<1>3. DataInv'
  BY <1>1, NoApprovalsFacts DEF DataInv, DataOK, fixed
<1>4. CopiesInOrder'
  <2>1. /\ human.loaded.next_id <= approvals.next_id /\ human.loaded.next_id \in Nat
        /\ approvals.next_id \in Nat /\ memory.loaded.next_id \in Nat
    BY <1>1, ApprovalsFields DEF CopiesInOrder, TypeOK
  <2>2. mode = "baseline" /\ pc = "requesting" => approvals'.next_id <= MaxRequests
    BY <1>1, <2>1, HitlBounds DEF CopiesInOrder
  <2>3. pc = "saving" => approvals'.next_id <= memory.loaded.next_id
    BY <1>1, <2>1 DEF CopiesInOrder
  <2>4. pc = "saving" => Keeps(memory.loaded, approvals')
    BY <1>1 DEF CopiesInOrder, Keeps
  <2>5. RequestId(memory.loaded)' = RequestId(memory.loaded)
    BY <1>1 DEF RequestId, fixed
  <2> HIDE DEF IInv
  <2> QED
    BY <1>1, <2>2, <2>3, <2>4, <2>5 DEF CopiesInOrder, IInv, Keeps, fixed
<1>5. CopiesAreCurrent'
  <2>1. mode = "treatment" => pc # "saving"
    BY <1>1 DEF TreatmentInv
  <2> QED
    BY <1>1, <2>1, ScenarioFacts DEF CopiesAreCurrent, KeepsDecisions, fixed
<1>6. TreatmentInv'
  BY <1>1, ApprovalIds DEF TreatmentInv, Keeps, fixed
<1>7. BaselineInv'
  BY <1>1, NoneIsNothing DEF BaselineInv, CopiesInOrder, CopiesAreCurrent, Keeps, Decision, fixed
<1>8. PauseAgrees'
  <2>1. pause # None => pause \in PauseType
    BY DEF TypeOK
  <2> QED
    BY <1>1, <2>1, NoneIsNothing DEF PauseAgrees, PauseType, Keeps
<1>9. OneDecisionPerRequest'
  <2> SUFFICES ASSUME KeepsDecisions PROVE OneDecisionPerRequest'
    BY <1>1 DEF OneDecisionPerRequest, KeepsDecisions, fixed
  <2> DEFINE Decided == {id \in ApprovalId : approvals.decisions[id] # None}
  <2>1. /\ human.loaded = approvals /\ approvals \in ApprovalsType /\ DataOK(approvals)
        /\ human.id \in approvals.requests /\ human.decision \in Decision
        /\ human.id \in ApprovalId
    BY <1>1, HumanSavesFacts DEF CopiesAreCurrent, CopiesInOrder, DataInv, TypeOK
  <2>2. approvals.decision_writes = Cardinality(Decided)
    BY DEF OneDecisionPerRequest
  <2>3. approvals' = decide(approvals, human.id, human.decision)
    BY <2>1, HumanSavesFacts
  <2>4. CASE approvals.decisions[human.id] # None
    <3>1. approvals' = approvals
      BY <2>1, <2>3, <2>4, DecideFacts
    <3> QED
      BY <2>2, <3>1 DEF OneDecisionPerRequest
  <2>5. CASE approvals.decisions[human.id] = None
    <3>1. /\ approvals'.decisions = [approvals.decisions EXCEPT ![human.id] = human.decision]
          /\ approvals'.decision_writes = approvals.decision_writes + 1
      BY <2>1, <2>3, <2>5, DecideFacts
    <3>2. Decided' = Decided \cup {human.id} /\ human.id \notin Decided
      BY <2>1, <2>5, <3>1, ApprovalsFields, NoneIsNothing
    <3>3. IsFiniteSet(Decided)
      BY ApprovalIdIsFinite, FS_Subset
    <3>4. Cardinality(Decided \cup {human.id}) = Cardinality(Decided) + 1
      BY <3>2, <3>3, FS_AddElement
    <3> QED
      BY <2>2, <3>1, <3>2, <3>4 DEF OneDecisionPerRequest
  <2> QED
    BY <2>4, <2>5
<1>10. EffectIsApproved'
  <2>1. \A id \in ApprovalId : Approved(id) => Approved(id)'
    BY <1>1, NoneIsNothing DEF Approved, Keeps, DataOK, Decision
  <2> QED
    BY <1>1, <2>1, ApprovalIds DEF EffectIsApproved, stable_id, fixed
<1>11. IndexMatchesEffects(service)'
  BY <1>1 DEF IndexMatchesEffects, Committed
<1> QED
  BY <1>2, <1>3, <1>4, <1>5, <1>6, <1>7, <1>8, <1>9, <1>10, <1>11

\* Every step keeps the strengthening.
LEMMA StepKeeps == IInv /\ [Next]_vars => IInv'
<1> SUFFICES ASSUME IInv, [Next]_vars PROVE IInv'
  OBVIOUS
<1>1. CASE Start
  BY <1>1, StartKeeps
<1>2. CASE Work
  BY <1>2, WritePauseKeeps, RequestLoadsKeeps, RequestSavesKeeps, LookupKeeps, RecordDecisionKeeps,
     PerformKeeps DEF Work
<1>3. CASE Crash
  BY <1>3, CrashKeeps
<1>4. CASE Human
  BY <1>4, HumanLoadsKeeps, HumanConflictsKeeps, HumanSavesKeeps DEF Human
<1>5. CASE UNCHANGED vars
  <2>1. TypeOK' /\ DataInv' /\ CopiesInOrder' /\ CopiesAreCurrent' /\ TreatmentInv' /\ BaselineInv'
    BY <1>5 DEF IInv, vars, fixed, TypeOK, DataInv, DataOK, CopiesInOrder, Keeps, RequestId,
         CopiesAreCurrent, KeepsDecisions, TreatmentInv, BaselineInv
  <2> QED
    BY <1>5, <2>1, FilesUnchanged DEF IInv, vars
<1> QED
  BY <1>1, <1>2, <1>3, <1>4, <1>5 DEF Next

-----------------------------------------------------------------------------
(* Theorems                                                                *)

\* The inductive invariant holds in every reachable state.
THEOREM InductiveInvariant == Spec => []IInv
  BY InitIInv, StepKeeps, PTL DEF Spec

\* The pause record and the approval file agree on the decision, and a request has
\* at most one, however often it is delivered (run_worker, FileApprovalService).
THEOREM PauseIsSound == Spec => []PauseInv
<1>1. IInv => PauseInv
  BY DEF IInv, PauseInv
<1> QED
  BY <1>1, InductiveInvariant, PTL

\* The privileged effect happens only with the human's approval, which still stands
\* afterwards, although the approval file is replaced without a lock.
THEOREM OnlyApprovedEffects == Spec => []EffectIsApproved
<1>1. IInv => EffectIsApproved
  BY DEF IInv
<1> QED
  BY <1>1, InductiveInvariant, PTL

\* A baseline worker that is resumed only between the human's calls never uses an
\* approval of an earlier request.
THEOREM BaselineIsStuck == Spec => []BaselineLosesApprovals
<1>1. IInv => BaselineLosesApprovals
  BY DEF IInv, BaselineInv, BaselineLosesApprovals
<1> QED
  BY <1>1, InductiveInvariant, PTL

\* In the treatment, and in the baseline while the human waits for the worker, no step
\* loses or reverses a decision.
THEOREM NoDecisionIsLost == Spec => DecisionsAreFinal
<1> DEFINE Kept ==
      \A id \in ApprovalId :
        KeepsDecisions /\ approvals.decisions[id] # None =>
          approvals'.decisions[id] = approvals.decisions[id]
<1>1. IInv /\ [Next]_vars => [Kept]_vars
  <2> SUFFICES ASSUME IInv, [Next]_vars PROVE Kept \/ UNCHANGED vars
    OBVIOUS
  <2>1. CASE approvals' = approvals
    BY <2>1
  <2>2. CASE RequestSaves
    <3>1. /\ memory.loaded \in ApprovalsType /\ DataOK(memory.loaded)
          /\ approvals' = request(memory.loaded)
          /\ mode = "baseline" => memory.loaded.next_id <= MaxRequests
          /\ KeepsDecisions => memory.loaded = approvals
      BY <2>2 DEF IInv, TypeOK, DataInv, RequestSaves, CopiesInOrder, CopiesAreCurrent
    <3>2. approvals'.decisions = memory.loaded.decisions
      BY <3>1, RequestFacts DEF IInv
    <3> QED
      BY <3>1, <3>2
  <2>3. CASE HumanSaves
    BY <2>3, HumanSavesFacts DEF Keeps
  <2> QED
    BY <2>1, <2>2, <2>3 DEF Next, Start, Work, WritePause, RequestLoads, Lookup, RecordDecision,
         Perform, Crash, Human, HumanLoads, HumanConflicts, vars
<1> QED
  BY <1>1, InductiveInvariant, PTL DEF Spec, DecisionsAreFinal

\* The resumed worker implements the at-most-once sink: the privileged step takes
\* effect once, however often workers die and resume.
THEOREM ImplementsSink == Spec => SinkSpec
<1>1. Init => Sink!Init
  BY DEF Init, EmptyService, Sink!Init
<1>2. IInv /\ [Next]_vars => [Sink!Next]_(service.effects)
  <2> SUFFICES ASSUME IInv, [Next]_vars PROVE [Sink!Next]_(service.effects)
    OBVIOUS
  <2>1. CASE Perform
    <3>1. CASE service'.effects = service.effects
      BY <3>1
    <3>2. CASE /\ \A i \in DOMAIN service.effects : service.effects[i] # operation_id
               /\ service'.effects = Append(service.effects, operation_id)
      BY <3>2 DEF Sink!Next, Sink!Perform, Sink!Performed
    <3> QED
      BY <2>1, <3>1, <3>2, PerformFacts
  <2>2. CASE UNCHANGED service
    BY <2>2
  <2> QED
    BY <2>1, <2>2 DEF Next, Start, Work, WritePause, RequestLoads, RequestSaves, Lookup,
         RecordDecision, Crash, Human, HumanLoads, HumanConflicts, HumanSaves, vars
<1> QED
  BY <1>1, <1>2, InductiveInvariant, PTL DEF Spec, SinkSpec, Sink!Spec
=============================================================================
