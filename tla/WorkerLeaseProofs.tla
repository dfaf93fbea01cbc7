-------------------------- MODULE WorkerLeaseProofs --------------------------
(***************************************************************************)
(* Proofs about WorkerLease, the fenced sink and WorkerRace, for every set *)
(* of processes, worker ids and steps, every lease duration and clock      *)
(* skew, and any number of starts and crashes: LeaseInv is inductive, the  *)
(* leased workers implement the fenced sink, and with one step in the      *)
(* store a lease is exclusive; the fenced sink implements the plain one;   *)
(* and the experiment around the lease keeps all this, settles its races   *)
(* and ends with one verdict on the pair, whatever the schedule.           *)
(***************************************************************************)
EXTENDS LeaseLock, FiniteSetTheorems, TLAPS

-----------------------------------------------------------------------------
(* Helpers                                                                 *)

\* What Append keeps of a sequence, and what it adds.
LEMMA AppendFacts ==
  ASSUME NEW S, NEW q \in Seq(S), NEW e \in S
  PROVE  /\ Append(q, e) \in Seq(S)
         /\ Len(Append(q, e)) = Len(q) + 1
         /\ DOMAIN Append(q, e) = DOMAIN q \cup {Len(q) + 1}
         /\ \A i \in DOMAIN q : i # Len(q) + 1 /\ Append(q, e)[i] = q[i]
         /\ Append(q, e)[Len(q) + 1] = e
  OBVIOUS

\* effects and grants only grow at their end.
Grows ==
  /\ effects' = effects \/ \E e \in EffectType : effects' = Append(effects, e)
  /\ grants' = grants \/ \E g \in GrantType : grants' = Append(grants, g)

\* Growing keeps every element, at its place.
LEMMA GrowsKeeps ==
  ASSUME TypeOK, Grows
  PROVE  /\ \A i \in DOMAIN effects : i \in DOMAIN effects' /\ effects'[i] = effects[i]
         /\ \A t \in DOMAIN grants : t \in DOMAIN grants' /\ grants'[t] = grants[t]
<1>1. \A i \in DOMAIN effects : i \in DOMAIN effects' /\ effects'[i] = effects[i]
  BY AppendFacts DEF TypeOK, Grows
<1>2. \A t \in DOMAIN grants : t \in DOMAIN grants' /\ grants'[t] = grants[t]
  BY AppendFacts DEF TypeOK, Grows
<1> QED
  BY <1>1, <1>2

\* What was done stays done.
LEMMA DoneByStable ==
  ASSUME TypeOK, Grows
  PROVE  \A t : DoneBy(t) => DoneBy(t)'
  BY GrowsKeeps DEF DoneBy

\* The lease of an owner is the last grant.
LEMMA LeaseFacts ==
  ASSUME TypeOK, LeaseIsLastGrant
  PROVE  /\ Len(grants) \in Nat /\ lease.next_token = Len(grants) + 1
         /\ lease.expires_at # None =>
              /\ Len(grants) \in DOMAIN grants
              /\ lease.token = Len(grants)
              /\ lease.owner = grants[Len(grants)].owner
              /\ lease.step_id = grants[Len(grants)].step_id
              /\ lease.expires_at = grants[Len(grants)].expires_at
  BY DEF TypeOK, LeaseIsLastGrant

\* Within a run the operation identity tells steps apart.
LEMMA SameRunIdentity ==
  ASSUME NEW r \in Seq(STRING), NEW s1 \in Seq(STRING), NEW s2 \in Seq(STRING),
         stable_operation_id(r, s1) = stable_operation_id(r, s2)
  PROVE  s1 = s2
<1> DEFINE pre == r \o <<Separator>>
           S == STRING \cup {Separator}
<1>0. /\ r \in Seq(S) /\ s1 \in Seq(S) /\ s2 \in Seq(S)
      /\ <<Separator>> \in Seq(S)
  OBVIOUS
<1> HIDE DEF S
<1>1. pre \in Seq(S) /\ Len(pre) \in Nat
  BY <1>0
<1>2. pre \o s1 = pre \o s2
  BY DEF stable_operation_id
<1> HIDE DEF pre
<1>3. Len(pre) + Len(s1) = Len(pre) + Len(s2)
  BY <1>0, <1>1, <1>2
<1>4. Len(s1) = Len(s2)
  BY <1>0, <1>1, <1>3
<1>5. ASSUME NEW i \in 1 .. Len(s1) PROVE s1[i] = s2[i]
  <2>1. (pre \o s1)[Len(pre) + i] = s1[i] /\ (pre \o s2)[Len(pre) + i] = s2[i]
    BY <1>0, <1>1, <1>4
  <2> QED
    BY <1>2, <2>1
<1> QED
  BY <1>4, <1>5

-----------------------------------------------------------------------------
(* The inductive invariant                                                 *)

\* The store is fresh and nobody carries a token.
LEMMA InitInv == Init => LeaseInv
<1> SUFFICES ASSUME Init PROVE LeaseInv
  OBVIOUS
<1>1. TypeOK
  BY LeaseParameters DEF Init, TypeOK, FreshLease, NoCall, LeaseType, LocalType
<1>2. LeaseIsLastGrant
  BY DEF Init, LeaseIsLastGrant, FreshLease
<1>3. TokensWereGranted /\ ReadingsAreOld
  BY DEF Init, TokensWereGranted, TokenWasGranted, ReadingsAreOld, NoCall
<1>4. EffectsAreFenced /\ CommittedIsDurable
  BY DEF Init, EffectsAreFenced, CommittedIsDurable, NoCall
<1> QED
  BY <1>1, <1>2, <1>3, <1>4 DEF LeaseInv

\* Types are preserved, and the histories only grow.
LEMMA TypeStep ==
  ASSUME TypeOK, LeaseIsLastGrant, TokensWereGranted, [Next]_vars
  PROVE  TypeOK' /\ Grows
<1> USE LeaseParameters DEF TypeOK, Grows, shared, bounds
<1>1. CASE Tick
  BY <1>1 DEF Tick
<1>2. ASSUME NEW p \in Process, NEW w \in WorkerId, NEW s \in Step, CallAcquire(p, w, s)
      PROVE  TypeOK' /\ Grows
  <2>1. PICK now \in Readings :
          local' = [local EXCEPT ![p] = [NoCall EXCEPT !.worker_id = w, !.step_id = s, !.now = now]]
    BY <1>2 DEF CallAcquire
  <2>2. now \in Int
    BY DEF Readings
  <2>3. [NoCall EXCEPT !.worker_id = w, !.step_id = s, !.now = now] \in LocalType
    BY <2>2 DEF NoCall, LocalType
  <2>4. local' \in [Process -> LocalType]
    BY <2>1, <2>3
  <2>5. pc' \in [Process -> {"down", "acquiring", "holding", "committing", "reporting"}]
    BY <1>2 DEF CallAcquire
  <2>6. starts' \in [Process -> Nat]
    BY <1>2 DEF CallAcquire
  <2> QED
    BY <1>2, <2>4, <2>5, <2>6 DEF CallAcquire
<1>3. ASSUME NEW p \in Process, AcquireRefused(p)
      PROVE  TypeOK' /\ Grows
  BY <1>3 DEF AcquireRefused
<1>4. ASSUME NEW p \in Process, AcquireGranted(p)
      PROVE  TypeOK' /\ Grows
  <2> DEFINE g == [step_id |-> local[p].step_id, owner |-> local[p].worker_id,
                   expires_at |-> local[p].now + Ttl]
  <2>1. local[p].step_id \in Step /\ local[p].worker_id \in WorkerId /\ local[p].now \in Int
    BY <1>4 DEF AcquireGranted, TokensWereGranted, TokenWasGranted, LocalType
  <2>2. g \in GrantType
    BY <2>1 DEF GrantType
  <2>3. grants' = Append(grants, g) /\ grants' \in Seq(GrantType)
    BY <1>4, <2>2, AppendFacts DEF AcquireGranted
  <2>4. lease' \in LeaseType
    <3>1. lease.next_token \in Nat \ {0} /\ lease.next_token + 1 \in Nat \ {0}
      BY DEF LeaseType
    <3>2. local[p].now + Ttl \in Int
      BY <2>1
    <3>3. lease' = Granted(lease, p)
      BY <1>4 DEF AcquireGranted
    <3> QED
      BY <2>1, <3>1, <3>2, <3>3 DEF Granted, LeaseType
  <2>5. local' \in [Process -> LocalType]
    <3>1. lease.next_token \in Nat
      BY DEF LeaseType
    <3>2. [local[p] EXCEPT !.token = lease.next_token] \in LocalType
      BY <3>1 DEF LocalType
    <3>3. local' = [local EXCEPT ![p] = [local[p] EXCEPT !.token = lease.next_token]]
      BY <1>4 DEF AcquireGranted
    <3> QED
      BY <3>2, <3>3
  <2> QED
    BY <1>4, <2>2, <2>3, <2>4, <2>5 DEF AcquireGranted
<1>5. ASSUME NEW p \in Process, CallCommit(p)
      PROVE  TypeOK' /\ Grows
  <2>1. PICK now \in Readings : local' = [local EXCEPT ![p].now = now]
    BY <1>5 DEF CallCommit
  <2>2. now \in Int
    BY DEF Readings
  <2>3. local' \in [Process -> LocalType]
    BY <2>1, <2>2 DEF LocalType
  <2> QED
    BY <1>5, <2>3 DEF CallCommit
<1>6. ASSUME NEW p \in Process, CommitRejected(p)
      PROVE  TypeOK' /\ Grows
  BY <1>6 DEF CommitRejected, Answer, LocalType
<1>7. ASSUME NEW p \in Process, CommitDuplicate(p)
      PROVE  TypeOK' /\ Grows
  BY <1>7 DEF CommitDuplicate, Answer, LocalType
<1>8. ASSUME NEW p \in Process, CommitEffect(p)
      PROVE  TypeOK' /\ Grows
  <2> DEFINE e == [step_id |-> local[p].step_id, operation_id |-> OperationOf(p),
                   worker_id |-> local[p].worker_id, token |-> local[p].token]
  <2>1. /\ local[p].step_id \in Step /\ local[p].worker_id \in WorkerId
        /\ local[p].token \in Nat
    BY <1>8 DEF CommitEffect, TokensWereGranted, TokenWasGranted, LocalType
  <2>2. e \in EffectType
    BY <2>1 DEF EffectType, OperationOf, Operations
  <2>3. effects' = Append(effects, e) /\ effects' \in Seq(EffectType)
    BY <1>8, <2>2, AppendFacts DEF CommitEffect, EffectOf
  <2>4. local' \in [Process -> LocalType]
    BY <1>8 DEF CommitEffect, Answer, LocalType
  <2> QED
    BY <1>8, <2>2, <2>3, <2>4 DEF CommitEffect, Answer
<1>9. ASSUME NEW p \in Process, Report(p)
      PROVE  TypeOK' /\ Grows
  <2>1. /\ local[p].worker_id \in WorkerId
        /\ local[p].token \in Nat \cup {None} /\ local[p].committed \in BOOLEAN
    BY <1>9 DEF Report, TokensWereGranted, TokenWasGranted, LocalType
  <2>2. local' \in [Process -> LocalType]
    BY <1>9 DEF Report, NoCall, LocalType
  <2> QED
    BY <1>9, <2>1, <2>2 DEF Report
<1>10. ASSUME NEW p \in Process, Crash(p)
       PROVE  TypeOK' /\ Grows
  BY <1>10 DEF Crash, NoCall, LocalType
<1>11. CASE UNCHANGED vars
  BY <1>11 DEF vars
<1> QED
  BY <1>1, <1>2, <1>3, <1>4, <1>5, <1>6, <1>7, <1>8, <1>9, <1>10, <1>11 DEF Next, Worker

\* lease.json stays the last grant: acquire writes both.
LEMMA LastGrantStep ==
  ASSUME TypeOK, LeaseIsLastGrant, TokensWereGranted, [Next]_vars
  PROVE  LeaseIsLastGrant'
<1>1. ASSUME NEW p \in Process, AcquireGranted(p)
      PROVE  LeaseIsLastGrant'
  <2> DEFINE g == [step_id |-> local[p].step_id, owner |-> local[p].worker_id,
                   expires_at |-> local[p].now + Ttl]
  <2>1. g \in GrantType
    BY <1>1, LeaseParameters
       DEF AcquireGranted, TypeOK, TokensWereGranted, TokenWasGranted, LocalType, GrantType
  <2>2. /\ grants' = Append(grants, g)
        /\ Len(grants') = Len(grants) + 1 /\ grants'[Len(grants')] = g
        /\ Len(grants) \in Nat
    BY <1>1, <2>1, AppendFacts DEF AcquireGranted, TypeOK
  <2>3. grants' # <<>>
    BY <2>2
  <2>4. /\ lease.next_token = Len(grants) + 1
        /\ lease' = Granted(lease, p)
    BY <1>1 DEF AcquireGranted, LeaseIsLastGrant
  <2> QED
    BY <2>2, <2>3, <2>4 DEF LeaseIsLastGrant, Granted
<1>2. CASE UNCHANGED <<lease, grants>>
  BY <1>2 DEF LeaseIsLastGrant
<1> QED
  BY <1>1, <1>2 DEF Next, Worker, Tick, CallAcquire, AcquireRefused, CallCommit, CommitRejected,
       CommitDuplicate, CommitEffect, Report, Crash, Answer, vars, shared

\* What a step of p leaves alone in the other processes.
LEMMA OthersUnchanged ==
  ASSUME TypeOK, [Next]_vars, NEW q \in Process,
         \A w \in WorkerId, s \in Step : ~ CallAcquire(q, w, s),
         ~ Worker(q), ~ Crash(q)
  PROVE  local'[q] = local[q] /\ pc'[q] = pc[q]
<1>1. CASE Tick \/ UNCHANGED vars
  BY <1>1 DEF Tick, vars
<1>2. ASSUME NEW p \in Process, p # q, NEW w \in WorkerId, NEW s \in Step, CallAcquire(p, w, s)
      PROVE  local'[q] = local[q] /\ pc'[q] = pc[q]
  <2>1. PICK now \in Readings :
          local' = [local EXCEPT ![p] = [NoCall EXCEPT !.worker_id = w, !.step_id = s, !.now = now]]
    BY <1>2 DEF CallAcquire
  <2> QED
    BY <1>2, <2>1 DEF CallAcquire, TypeOK
<1>3. ASSUME NEW p \in Process, p # q, Worker(p) \/ Crash(p)
      PROVE  local'[q] = local[q] /\ pc'[q] = pc[q]
  <2>1. CASE CallCommit(p)
    <3>1. PICK now \in Readings : local' = [local EXCEPT ![p].now = now]
      BY <2>1 DEF CallCommit
    <3> QED
      BY <1>3, <2>1, <3>1 DEF CallCommit, TypeOK
  <2>2. CASE AcquireRefused(p) \/ AcquireGranted(p) \/ Report(p) \/ Crash(p)
    BY <1>3, <2>2 DEF AcquireRefused, AcquireGranted, Report, Crash, TypeOK
  <2>3. CASE CommitRejected(p) \/ CommitDuplicate(p) \/ CommitEffect(p)
    BY <1>3, <2>3 DEF CommitRejected, CommitDuplicate, CommitEffect, Answer, TypeOK
  <2> QED
    BY <1>3, <2>1, <2>2, <2>3 DEF Worker
<1> QED
  BY <1>1, <1>2, <1>3 DEF Next

\* A token is carried by whoever it was granted to, until the call ends.
LEMMA TokensStep ==
  ASSUME TypeOK, LeaseIsLastGrant, TokensWereGranted, [Next]_vars
  PROVE  TokensWereGranted'
<1> SUFFICES ASSUME NEW q \in Process PROVE TokenWasGranted(q)'
  BY DEF TokensWereGranted
<1> Grows
  BY TypeStep
<1>a. \A t \in DOMAIN grants : t \in DOMAIN grants' /\ grants'[t] = grants[t]
  BY GrowsKeeps
<1>b. TokenWasGranted(q)
  BY DEF TokensWereGranted
<1>1. CASE local'[q] = local[q] /\ pc'[q] = pc[q]
  BY <1>1, <1>a, <1>b DEF TokenWasGranted
<1>2. ASSUME NEW w \in WorkerId, NEW s \in Step, CallAcquire(q, w, s)
      PROVE  TokenWasGranted(q)'
  <2>1. PICK now \in Readings :
          local' = [local EXCEPT ![q] = [NoCall EXCEPT !.worker_id = w, !.step_id = s, !.now = now]]
    BY <1>2 DEF CallAcquire
  <2>2. local'[q] = [NoCall EXCEPT !.worker_id = w, !.step_id = s, !.now = now]
    BY <2>1 DEF TypeOK
  <2>3. /\ local'[q].worker_id = w /\ local'[q].step_id = s
        /\ local'[q].token = None /\ local'[q].committed = FALSE
    BY <2>2 DEF NoCall
  <2>4. pc'[q] = "acquiring"
    BY <1>2 DEF CallAcquire, TypeOK
  <2> QED
    BY <2>3, <2>4, LeaseParameters DEF TokenWasGranted
<1>3. CASE AcquireRefused(q)
  BY <1>3, <1>b DEF AcquireRefused, TokenWasGranted, TypeOK
<1>4. CASE AcquireGranted(q)
  <2> DEFINE g == [step_id |-> local[q].step_id, owner |-> local[q].worker_id,
                   expires_at |-> local[q].now + Ttl]
  <2>1. g \in GrantType
    BY <1>4, <1>b, LeaseParameters DEF AcquireGranted, TypeOK, TokenWasGranted, LocalType, GrantType
  <2>2. Len(grants) + 1 \in DOMAIN grants' /\ grants'[Len(grants) + 1] = g
    BY <1>4, <2>1, AppendFacts DEF AcquireGranted, TypeOK
  <2>3. lease.next_token = Len(grants) + 1 /\ Len(grants) \in Nat
    BY LeaseFacts
  <2>4. /\ local'[q] = [local[q] EXCEPT !.token = lease.next_token]
        /\ pc'[q] = "holding" /\ pc[q] = "acquiring"
    BY <1>4 DEF AcquireGranted, TypeOK
  <2>5. /\ local'[q].token = Len(grants) + 1
        /\ local'[q].step_id = local[q].step_id
        /\ local'[q].worker_id = local[q].worker_id
        /\ local'[q].committed = local[q].committed
    BY <2>3, <2>4 DEF TypeOK, LocalType
  <2> QED
    BY <1>b, <2>2, <2>3, <2>4, <2>5, LeaseParameters DEF TokenWasGranted
<1>5. CASE CallCommit(q)
  BY <1>5, <1>b DEF CallCommit, TokenWasGranted, TypeOK, LocalType
<1>6. CASE CommitRejected(q)
  BY <1>6, <1>b, <1>a DEF CommitRejected, Answer, TokenWasGranted, TypeOK, LocalType
<1>7. CASE CommitDuplicate(q)
  BY <1>7, <1>b, <1>a DEF CommitDuplicate, Answer, TokenWasGranted, TypeOK, LocalType
<1>8. CASE CommitEffect(q)
  BY <1>8, <1>b, <1>a DEF CommitEffect, Answer, TokenWasGranted, TypeOK, LocalType
<1>9. CASE Report(q) \/ Crash(q)
  BY <1>9 DEF Report, Crash, NoCall, TokenWasGranted, TypeOK
<1> QED
  BY <1>1, <1>2, <1>3, <1>4, <1>5, <1>6, <1>7, <1>8, <1>9, OthersUnchanged DEF Worker

\* Time does not go back.
LEMMA ClockStep ==
  ASSUME TypeOK, [Next]_vars
  PROVE  clock' \in Nat /\ clock <= clock'
<1>1. CASE Tick
  BY <1>1 DEF Tick, TypeOK
<1>2. CASE UNCHANGED clock
  BY <1>2 DEF TypeOK
<1> QED
  BY <1>1, <1>2 DEF Next, Worker, CallAcquire, AcquireRefused, AcquireGranted, CallCommit,
       CommitRejected, CommitDuplicate, CommitEffect, Report, Crash, Answer, vars

\* A reading stays of the past, however long the worker waits for the lock.
LEMMA ReadingsStep ==
  ASSUME TypeOK, ReadingsAreOld, [Next]_vars
  PROVE  ReadingsAreOld'
<1> SUFFICES ASSUME NEW q \in Process, pc'[q] # "down"
             PROVE  local'[q].now <= clock' + Skew
  BY DEF ReadingsAreOld
<1>a. clock \in Nat /\ Skew \in Nat /\ local[q].now \in Int
  BY LeaseParameters DEF TypeOK, LocalType
<1>b. clock' \in Nat /\ clock <= clock'
  BY ClockStep
<1>1. CASE local'[q].now = local[q].now /\ pc[q] # "down"
  BY <1>1, <1>a, <1>b DEF ReadingsAreOld
<1>2. CASE local'[q].now \in Readings
  BY <1>2, <1>a, <1>b DEF Readings
<1>3. ASSUME NEW w \in WorkerId, NEW s \in Step, CallAcquire(q, w, s)
      PROVE  local'[q].now \in Readings
  <2>1. PICK now \in Readings :
          local' = [local EXCEPT ![q] = [NoCall EXCEPT !.worker_id = w, !.step_id = s, !.now = now]]
    BY <1>3 DEF CallAcquire
  <2> QED
    BY <2>1 DEF NoCall, TypeOK
<1>4. CASE Worker(q)
  <2>1. CASE CallCommit(q)
    <3>1. PICK now \in Readings : local' = [local EXCEPT ![q].now = now]
      BY <2>1 DEF CallCommit
    <3>2. local'[q].now = now
      BY <3>1 DEF TypeOK, LocalType
    <3> QED
      BY <3>2, <1>2
  <2>2. CASE Report(q)
    BY <2>2 DEF Report, TypeOK
  <2>3. CASE AcquireRefused(q) \/ AcquireGranted(q)
    BY <2>3, <1>1 DEF AcquireRefused, AcquireGranted, TypeOK, LocalType
  <2>4. CASE CommitRejected(q) \/ CommitDuplicate(q) \/ CommitEffect(q)
    BY <2>4, <1>1 DEF CommitRejected, CommitDuplicate, CommitEffect, Answer, TypeOK, LocalType
  <2> QED
    BY <1>4, <2>1, <2>2, <2>3, <2>4 DEF Worker
<1>5. CASE Crash(q)
  BY <1>5 DEF Crash, TypeOK
<1>6. CASE local'[q] = local[q] /\ pc'[q] = pc[q]
  BY <1>6, <1>1
<1> QED
  BY <1>2, <1>3, <1>4, <1>5, <1>6, OthersUnchanged

\* Whoever passes commit's check holds the last token granted.
LEMMA AuthorityIsLast ==
  ASSUME TypeOK, LeaseIsLastGrant, TokensWereGranted,
         NEW p \in Process, pc[p] = "committing", Authoritative(lease, p)
  PROVE  /\ Len(grants) \in DOMAIN grants
         /\ local[p].token = Len(grants)
         /\ grants[Len(grants)].owner = local[p].worker_id
         /\ grants[Len(grants)].step_id = local[p].step_id
         /\ local[p].worker_id \in WorkerId /\ local[p].step_id \in Step
  BY LeaseFacts, LeaseParameters
     DEF Authoritative, TokensWereGranted, TokenWasGranted, TypeOK, LocalType

\* An effect is made with the last token, so effects stay in token order and unique.
LEMMA FencedStep ==
  ASSUME TypeOK, LeaseIsLastGrant, TokensWereGranted, EffectsAreFenced, [Next]_vars
  PROVE  EffectsAreFenced'
<1> Grows /\ TypeOK'
  BY TypeStep
<1>a. \A t \in DOMAIN grants : t \in DOMAIN grants' /\ grants'[t] = grants[t]
  BY GrowsKeeps
<1>1. CASE effects' = effects
  BY <1>1, <1>a DEF EffectsAreFenced, EffectWasOwned
<1>2. ASSUME NEW p \in Process, CommitEffect(p)
      PROVE  EffectsAreFenced'
  <2> DEFINE e == [step_id |-> local[p].step_id, operation_id |-> OperationOf(p),
                   worker_id |-> local[p].worker_id, token |-> local[p].token]
             n == Len(effects) + 1
  <2>1. /\ Len(grants) \in DOMAIN grants /\ local[p].token = Len(grants)
        /\ grants[Len(grants)].owner = local[p].worker_id
        /\ grants[Len(grants)].step_id = local[p].step_id
        /\ local[p].worker_id \in WorkerId /\ local[p].step_id \in Step
    BY <1>2, AuthorityIsLast DEF CommitEffect
  <2>2. e \in EffectType
    BY <2>1 DEF EffectType, OperationOf, Operations, TypeOK
  <2>3. /\ DOMAIN effects' = DOMAIN effects \cup {n}
        /\ \A i \in DOMAIN effects : i # n /\ effects'[i] = effects[i]
        /\ effects'[n] = e
        /\ DOMAIN effects = 1 .. Len(effects) /\ Len(effects) \in Nat
    BY <1>2, <2>2, AppendFacts DEF CommitEffect, EffectOf, TypeOK
  <2>4. grants' = grants
    BY <1>2 DEF CommitEffect, Answer
  <2>5. EffectWasOwned(e)
    BY <2>1 DEF EffectWasOwned, OperationOf
  <2>6. \A i \in DOMAIN effects :
          /\ effects[i].token <= e.token
          /\ effects[i].operation_id # e.operation_id
    <3>1. \A i \in DOMAIN effects : effects[i].token <= Len(grants)
      BY DEF EffectsAreFenced, EffectWasOwned, TypeOK
    <3>2. \A i \in DOMAIN effects : effects[i].operation_id # OperationOf(p)
      BY <1>2 DEF CommitEffect, AlreadyCommitted
    <3> QED
      BY <3>1, <3>2, <2>1
  <2> HIDE DEF e
  <2>7. \A i \in DOMAIN effects' : EffectWasOwned(effects'[i])
    BY <2>3, <2>5 DEF EffectsAreFenced
  <2>8. \A i \in DOMAIN effects' : EffectWasOwned(effects[i])'
    BY <2>4, <2>7 DEF EffectWasOwned
  <2>9. e.token \in Nat
    BY <2>2 DEF EffectType
  <2>10. ASSUME NEW i \in DOMAIN effects', NEW j \in DOMAIN effects'
         PROVE  /\ i <= j => effects'[i].token <= effects'[j].token
                /\ effects'[i].operation_id = effects'[j].operation_id => i = j
    <3>1. CASE i \in DOMAIN effects /\ j \in DOMAIN effects
      BY <2>3, <3>1 DEF EffectsAreFenced
    <3>2. CASE i = n
      BY <2>3, <2>6, <2>9, <3>2
    <3>3. CASE i \in DOMAIN effects /\ j = n
      BY <2>3, <2>6, <3>3
    <3> QED
      BY <2>3, <3>1, <3>2, <3>3
  <2> QED
    BY <2>8, <2>10 DEF EffectsAreFenced
<1> QED
  BY <1>1, <1>2 DEF Next, Worker, Tick, CallAcquire, AcquireRefused, AcquireGranted, CallCommit,
       CommitRejected, CommitDuplicate, Report, Crash, vars, shared

\* Every answer commit gives is backed by effects.json.
LEMMA AnswerIsDone ==
  ASSUME TypeOK, LeaseIsLastGrant, TokensWereGranted, EffectsAreFenced, [Next]_vars,
         NEW p \in Process, CommitDuplicate(p) \/ CommitEffect(p),
         NEW t, t = local[p].token
  PROVE  t # None /\ DoneBy(t)'
<1>a. Grows
  BY TypeStep
<1>b. grants' = grants
  BY DEF CommitDuplicate, CommitEffect, Answer
<1>1. /\ Len(grants) \in DOMAIN grants /\ local[p].token = Len(grants)
      /\ grants[Len(grants)].step_id = local[p].step_id
      /\ local[p].step_id \in Step /\ local[p].worker_id \in WorkerId
  BY AuthorityIsLast DEF CommitDuplicate, CommitEffect
<1>2. local[p].token # None
  BY <1>1, LeaseParameters DEF TypeOK
<1>3. CASE CommitDuplicate(p)
  <2>1. PICK i \in DOMAIN effects : effects[i].operation_id = OperationOf(p)
    BY <1>3 DEF CommitDuplicate, AlreadyCommitted
  <2>2. EffectWasOwned(effects[i]) /\ effects[i].step_id \in Step
    <3>1. effects[i] \in EffectType
      BY DEF TypeOK
    <3> QED
      BY <3>1 DEF EffectsAreFenced, EffectType
  <2>3. effects[i].step_id = local[p].step_id
    BY <1>1, <2>1, <2>2, SameRunIdentity, LeaseParameters DEF EffectWasOwned, OperationOf
  <2>4. effects[i].token <= Len(grants)
    BY <2>2 DEF EffectWasOwned, TypeOK
  <2> QED
    BY <1>1, <1>2, <1>b, <1>3, <2>3, <2>4 DEF DoneBy, CommitDuplicate
<1>4. CASE CommitEffect(p)
  <2> DEFINE e == [step_id |-> local[p].step_id, operation_id |-> OperationOf(p),
                   worker_id |-> local[p].worker_id, token |-> local[p].token]
             n == Len(effects) + 1
  <2>1. e \in EffectType
    BY <1>1 DEF EffectType, OperationOf, Operations, TypeOK
  <2>2. n \in DOMAIN effects' /\ effects'[n] = e
    BY <1>4, <2>1, AppendFacts DEF CommitEffect, EffectOf, TypeOK
  <2>3. effects'[n].step_id = grants'[local[p].token].step_id /\ effects'[n].token <= local[p].token
    BY <1>1, <1>b, <2>2 DEF TypeOK
  <2>4. local[p].token \in DOMAIN grants'
    BY <1>1, <1>b
  <2> QED
    BY <1>2, <2>2, <2>3, <2>4 DEF DoneBy
<1> QED
  BY <1>3, <1>4

\* An answer that was true when it was given stays true.
LEMMA DurableStep ==
  ASSUME TypeOK, LeaseIsLastGrant, TokensWereGranted, EffectsAreFenced, CommittedIsDurable,
         [Next]_vars
  PROVE  CommittedIsDurable'
<1>a. \A t : DoneBy(t) => DoneBy(t)'
  BY TypeStep, DoneByStable
<1>1. ASSUME NEW r \in results', r.committed
      PROVE  r.token # None /\ DoneBy(r.token)'
  <2>1. CASE r \in results
    BY <1>a, <1>1, <2>1 DEF CommittedIsDurable
  <2>2. ASSUME NEW p \in Process, Report(p),
               r = [worker_id |-> local[p].worker_id, token |-> local[p].token,
                    committed |-> local[p].committed]
        PROVE  r.token # None /\ DoneBy(r.token)'
    BY <1>a, <1>1, <2>2 DEF CommittedIsDurable
  <2> QED
    BY <2>1, <2>2 DEF Next, Worker, Tick, CallAcquire, AcquireRefused, AcquireGranted, CallCommit,
         CommitRejected, CommitDuplicate, CommitEffect, Report, Crash, Answer, vars, shared
<1>2. ASSUME NEW q \in Process, local'[q].committed
      PROVE  /\ local'[q].token # None
             /\ DoneBy(local[q].token)'
  <2>1. CASE local'[q] = local[q]
    BY <1>a, <1>2, <2>1 DEF CommittedIsDurable, DoneBy
  <2>2. CASE CommitDuplicate(q) \/ CommitEffect(q)
    <3>1. local'[q].token = local[q].token
      BY <2>2 DEF CommitDuplicate, CommitEffect, Answer, TypeOK, LocalType
    <3> QED
      BY <2>2, <3>1, AnswerIsDone DEF DoneBy
  <2>3. CASE AcquireRefused(q)
    BY <2>1, <2>3 DEF AcquireRefused
  <2>4. TokenWasGranted(q)'
    BY TokensStep DEF TokensWereGranted
  <2>5. CASE pc'[q] # "reporting"
    BY <1>2, <2>4, <2>5, TypeStep DEF TokenWasGranted, TypeOK
  <2>6. CASE CommitRejected(q)
    BY <1>2, <2>6 DEF CommitRejected, Answer, TypeOK, LocalType
  <2>7. ASSUME NEW w \in WorkerId, NEW s \in Step, CallAcquire(q, w, s)
        PROVE  pc'[q] # "reporting"
    BY <2>7 DEF CallAcquire, TypeOK
  <2>8. CASE AcquireGranted(q) \/ CallCommit(q) \/ Report(q) \/ Crash(q)
    BY <2>8, <2>5 DEF AcquireGranted, CallCommit, Report, Crash, TypeOK
  <2> QED
    BY <2>1, <2>2, <2>3, <2>5, <2>6, <2>7, <2>8, OthersUnchanged DEF Worker
<1> QED
  BY <1>1, <1>2 DEF CommittedIsDurable

\* Every step of the store, the sink and the workers keeps the strengthening.
LEMMA LeaseStep ==
  ASSUME LeaseInv, [Next]_vars
  PROVE  LeaseInv'
  BY TypeStep, LastGrantStep, TokensStep, ReadingsStep, FencedStep, DurableStep DEF LeaseInv

\* LeaseInv holds in every reachable state: tokens are unique and belong to the
\* worker that carries them, effects are fenced, answers are durable
\* (LeaseStore.acquire, FencedEffectService.commit, _leased_worker).
THEOREM LeaseInvariant == Spec => []LeaseInv
<1>1. LeaseInv /\ [Next]_vars => LeaseInv'
  BY LeaseStep
<1> QED
  BY InitInv, <1>1, PTL DEF Spec

\* The variables of WorkerLease keep their types.
THEOREM TypeCorrect == Spec => []TypeOK
<1>1. LeaseInv => TypeOK
  BY DEF LeaseInv
<1> QED
  BY <1>1, LeaseInvariant, PTL

\* A worker that was told its commit succeeded, and every such line of
\* results.jsonl, is backed by an effect of the step, whatever crashes, clocks
\* and takeovers did in between.
THEOREM DurableAnswers == Spec => []CommittedIsDurable
<1>1. LeaseInv => CommittedIsDurable
  BY DEF LeaseInv
<1> QED
  BY <1>1, LeaseInvariant, PTL

-----------------------------------------------------------------------------
(* Leases and effects implement the fenced sink                            *)

\* A grant begins an epoch of the sink, an effect is its Perform, all else is invisible.
LEMMA FencedStepMaps ==
  ASSUME LeaseInv, [Next]_vars
  PROVE  [Fenced!Next]_(Fenced!vars)
<1> DEFINE image == [i \in DOMAIN effects |-> <<effects[i].operation_id, effects[i].token>>]
<1> USE DEF LeaseInv
<1>1. ASSUME NEW p \in Process, AcquireGranted(p)
      PROVE  Fenced!Grant
  <2>1. lease'.next_token = lease.next_token + 1 /\ lease.next_token \in Nat
    BY <1>1 DEF AcquireGranted, Granted, TypeOK, LeaseType
  <2>2. effects' = effects
    BY <1>1 DEF AcquireGranted
  <2> QED
    BY <2>1, <2>2 DEF Fenced!Grant
<1>2. ASSUME NEW p \in Process, CommitEffect(p)
      PROVE  \E op \in Operations : Fenced!Perform(op)
  <2> DEFINE e == [step_id |-> local[p].step_id, operation_id |-> OperationOf(p),
                   worker_id |-> local[p].worker_id, token |-> local[p].token]
             n == Len(effects) + 1
  <2>1. /\ Len(grants) \in DOMAIN grants /\ local[p].token = Len(grants)
        /\ local[p].step_id \in Step /\ local[p].worker_id \in WorkerId
        /\ lease.next_token = Len(grants) + 1
    BY <1>2, AuthorityIsLast, LeaseFacts DEF CommitEffect
  <2>2. lease.next_token - 1 = local[p].token /\ lease.next_token - 1 > 0
    BY <2>1 DEF TypeOK
  <2>3. OperationOf(p) \in Operations
    BY <2>1 DEF OperationOf, Operations
  <2>4. e \in EffectType
    BY <2>1, <2>3 DEF EffectType, TypeOK
  <2>5. /\ DOMAIN effects' = DOMAIN effects \cup {n}
        /\ \A i \in DOMAIN effects : i # n /\ effects'[i] = effects[i]
        /\ effects'[n] = e
        /\ DOMAIN effects = 1 .. Len(effects) /\ Len(effects) \in Nat
    BY <1>2, <2>4, AppendFacts DEF CommitEffect, EffectOf, TypeOK
  <2>6. image' = Append(image, <<OperationOf(p), local[p].token>>)
    <3>1. image \in Seq(Operations \X Nat) /\ Len(image) = Len(effects)
      <4>1. \A i \in DOMAIN effects : effects[i] \in EffectType
        BY DEF TypeOK
      <4>2. \A i \in 1 .. Len(effects) : image[i] \in Operations \X Nat
        BY <4>1, <2>5 DEF EffectType
      <4>3. image \in [1 .. Len(effects) -> Operations \X Nat]
        BY <4>2, <2>5
      <4> HIDE DEF image
      <4>4. image \in Seq(Operations \X Nat)
        BY <4>3, <2>5
      <4>5. Len(image) = Len(effects)
        BY <4>3, <4>4, <2>5
      <4> QED
        BY <4>4, <4>5
    <3>2. <<OperationOf(p), local[p].token>> \in Operations \X Nat
      BY <2>1, <2>3 DEF TypeOK
    <3>3. /\ DOMAIN Append(image, <<OperationOf(p), local[p].token>>) = DOMAIN effects \cup {n}
          /\ \A i \in DOMAIN effects :
               Append(image, <<OperationOf(p), local[p].token>>)[i] = image[i]
          /\ Append(image, <<OperationOf(p), local[p].token>>)[n] = <<OperationOf(p), local[p].token>>
      BY <2>5, <3>1, <3>2, AppendFacts
    <3> QED
      BY <2>5, <3>1, <3>2, <3>3
  <2>7. ~ Fenced!Performed(OperationOf(p))
    BY <1>2 DEF CommitEffect, AlreadyCommitted, Fenced!Performed
  <2>8. lease' = lease
    BY <1>2 DEF CommitEffect, Answer
  <2> QED
    BY <2>2, <2>3, <2>6, <2>7, <2>8 DEF Fenced!Perform
<1>3. CASE UNCHANGED <<lease, effects>>
  BY <1>3 DEF Fenced!vars
<1> QED
  BY <1>1, <1>2, <1>3 DEF Next, Worker, Tick, CallAcquire, AcquireRefused, CallCommit,
       CommitRejected, CommitDuplicate, Report, Crash, Answer, vars, shared, Fenced!Next

\* The leased workers implement the fenced, at-most-once sink: for all numbers of
\* workers, clocks and crashes a superseded owner has no effect and a step has at
\* most one.
THEOREM ImplementsFencedSink == Spec => FencedSpec
<1>1. Init => Fenced!Init
  BY DEF Init, FreshLease, Fenced!Init
<1>2. LeaseInv /\ [Next]_vars => [Fenced!Next]_(Fenced!vars)
  BY FencedStepMaps
<1> QED
  BY <1>1, <1>2, LeaseInvariant, PTL DEF Spec, FencedSpec, Fenced!Spec

-----------------------------------------------------------------------------
(* Exclusive leases                                                        *)

\* With one step in the store, all grants but the last have expired.
SupersededHasExpired ==
  \A i \in DOMAIN grants : i < Len(grants) => grants[i].expires_at <= clock + Skew

\* A grant to another worker comes only after the last one has expired.
LEMMA SupersededStep ==
  ASSUME \A s1, s2 \in Step : s1 = s2,
         LeaseInv, SupersededHasExpired, [Next]_vars
  PROVE  SupersededHasExpired'
<1> USE DEF LeaseInv
<1>a. clock \in Nat /\ Skew \in Nat /\ clock' \in Nat /\ clock <= clock'
  BY ClockStep, LeaseParameters DEF TypeOK
<1>b. \A i \in DOMAIN grants :
        /\ grants[i].expires_at \in Int
        /\ grants[i].step_id \in Step /\ grants[i].owner \in WorkerId
  <2>1. \A i \in DOMAIN grants : grants[i] \in GrantType
    BY DEF TypeOK
  <2> QED
    BY <2>1 DEF GrantType
<1>1. CASE grants' = grants
  BY <1>1, <1>a, <1>b DEF SupersededHasExpired
<1>2. ASSUME NEW p \in Process, AcquireGranted(p)
      PROVE  SupersededHasExpired'
  <2> DEFINE g == [step_id |-> local[p].step_id, owner |-> local[p].worker_id,
                   expires_at |-> local[p].now + Ttl]
  <2>1. /\ local[p].step_id \in Step /\ local[p].now \in Int
        /\ local[p].now <= clock + Skew
        /\ g \in GrantType
    BY <1>2, LeaseParameters
       DEF AcquireGranted, TypeOK, TokensWereGranted, TokenWasGranted, ReadingsAreOld,
           LocalType, GrantType
  <2>2. /\ Len(grants') = Len(grants) + 1 /\ Len(grants) \in Nat
        /\ DOMAIN grants' = DOMAIN grants \cup {Len(grants) + 1}
        /\ \A i \in DOMAIN grants : grants'[i] = grants[i]
    BY <1>2, <2>1, AppendFacts DEF AcquireGranted, TypeOK
  <2>3. ASSUME Len(grants) \in DOMAIN grants
        PROVE  grants[Len(grants)].expires_at <= clock + Skew
    <3>1. /\ lease.owner # None
          /\ lease.step_id = grants[Len(grants)].step_id
          /\ lease.expires_at = grants[Len(grants)].expires_at
          /\ lease.expires_at # None
      <4>1. grants # <<>>
        BY <2>3
      <4>2. /\ lease.owner = grants[Len(grants)].owner
            /\ lease.step_id = grants[Len(grants)].step_id
            /\ lease.expires_at = grants[Len(grants)].expires_at
        BY <4>1 DEF LeaseIsLastGrant
      <4> QED
        BY <2>3, <1>b, <4>2, LeaseParameters
    <3>2. lease.step_id = local[p].step_id
      BY <1>b, <2>1, <2>3, <3>1
    <3>3. ~ (lease.expires_at > local[p].now)
      BY <1>2, <3>1, <3>2 DEF AcquireGranted, Active
    <3> QED
      BY <1>a, <1>b, <2>1, <2>3, <3>1, <3>3
  <2>4. clock' = clock
    BY <1>2 DEF AcquireGranted
  <2>5. ASSUME NEW i \in DOMAIN grants', i < Len(grants')
        PROVE  grants'[i].expires_at <= clock' + Skew
    <3>1. i \in DOMAIN grants /\ i <= Len(grants)
      BY <2>2, <2>5 DEF TypeOK
    <3> QED
      BY <2>2, <2>3, <2>4, <3>1 DEF SupersededHasExpired, TypeOK
  <2> QED
    BY <2>5 DEF SupersededHasExpired
<1> QED
  BY <1>1, <1>2 DEF Next, Worker, Tick, CallAcquire, AcquireRefused, CallCommit,
       CommitRejected, CommitDuplicate, CommitEffect, Report, Crash, Answer, vars

\* With one step in the store, as in the lab, no step is leased again before its
\* earlier lease has expired, up to the error of the workers' clocks and however
\* long a worker waits for the lock (LeaseStore.acquire).
THEOREM LeaseIsExclusive ==
  ASSUME \A s1, s2 \in Step : s1 = s2
  PROVE  Spec => []ExclusiveStepLease
<1>1. Init => SupersededHasExpired
  BY DEF Init, SupersededHasExpired
<1>2. LeaseInv /\ SupersededHasExpired /\ [Next]_vars => SupersededHasExpired'
  BY SupersededStep
<1>3. LeaseInv /\ SupersededHasExpired => ExclusiveStepLease
  BY DEF LeaseInv, TypeOK, SupersededHasExpired, ExclusiveStepLease
<1> QED
  BY <1>1, <1>2, <1>3, LeaseInvariant, PTL DEF Spec

-----------------------------------------------------------------------------
(* The experiment: the lease                                               *)

\* The pair is of two processes.
LEMMA PairFacts == Pair[1] \in Process /\ Pair[2] \in Process /\ Pair[1] # Pair[2]
<1>1. Pair \in Seq(Process) /\ Len(Pair) = 2 /\ Pair[1] # Pair[2]
  BY PairParameters
<1>2. \A i \in DOMAIN Pair : Pair[i] \in Process
  BY <1>1
<1>3. 1 \in DOMAIN Pair /\ 2 \in DOMAIN Pair
  BY <1>1
<1> QED
  BY <1>1, <1>2, <1>3

\* p is killed, or its call ends without a report.
Vanishes(p) ==
  /\ pc' = [pc EXCEPT ![p] = "down"] /\ local' = [local EXCEPT ![p] = NoCall]
  /\ UNCHANGED <<clock, shared, starts, grants>>
  /\ crashes' = crashes + 1 \/ (crashes' = crashes /\ scenario = "unfenced")

\* To the lease, a step of the experiment is one of the workers, none, or a process that
\* vanishes.
LEMMA RaceSteps ==
  ASSUME RaceTypeOK, [RaceNext]_raceVars
  PROVE  /\ scenario' = scenario
         /\ [Next]_vars \/ \E p \in Process : Vanishes(p)
<1>1. CASE FreeSteps \/ UNCHANGED raceVars
  BY <1>1 DEF FreeSteps, harness, raceVars
<1>2. CASE UnfencedSteps
  <2>1. scenario' = scenario /\ scenario = "unfenced"
    BY <1>2 DEF UnfencedSteps, harness
  <2>2. ASSUME NEW p \in Process, CommitUnfenced(p) PROVE Vanishes(p)
    BY <2>1, <2>2 DEF CommitUnfenced, Vanishes, bounds
  <2> QED
    BY <1>2, <2>1, <2>2 DEF UnfencedSteps, Next, Worker
<1>3. CASE PairSteps
  <2>1. CASE StartProcess \/ Joined
    BY <2>1 DEF StartProcess, Joined
  <2>2. CASE JoinTimesOut
    <3>1. Pair[turn] \in Process
      BY PairFacts DEF RaceTypeOK
    <3>2. Vanishes(Pair[turn])
      BY <2>2 DEF JoinTimesOut, Killed, Vanishes
    <3> QED
      BY <2>2, <3>1, <3>2 DEF JoinTimesOut
  <2>3. ASSUME NEW p \in Process,
               Barrier(p) \/ BaselineCommits(p) \/ LeasedWorks(p) \/ LeasedReports(p) \/ Dies(p)
        PROVE  scenario' = scenario /\ ([Next]_vars \/ Vanishes(p))
    <3>1. CASE Barrier(p) \/ BaselineCommits(p)
      BY <3>1 DEF Barrier, ArrivesAt, BaselineCommits, harness
    <3>2. CASE LeasedWorks(p)
      <4>1. CASE LeasedCalls(p)
        <5>1. PairId[p] \in WorkerId
          BY PairParameters
        <5>2. CallCommit(p) \/ \E s \in Step : CallAcquire(p, PairId[p], s)
          BY <4>1 DEF LeasedCalls
        <5>3. Next
          BY <5>1, <5>2 DEF Next, Worker
        <5> QED
          BY <3>2, <5>3 DEF LeasedWorks, harness
      <4>2. CASE Worker(p)
        BY <3>2, <4>2 DEF LeasedWorks, harness, Next
      <4> QED
        BY <3>2, <4>1, <4>2 DEF LeasedWorks, Worker
    <3>4. CASE LeasedReports(p)
      BY <3>4 DEF LeasedReports, harness, Next, Worker
    <3>3. CASE Dies(p)
      BY <3>3 DEF Dies, Killed, Vanishes, harness
    <3> QED
      BY <2>3, <3>1, <3>2, <3>3, <3>4
  <2> QED
    BY <1>3, <2>1, <2>2, <2>3 DEF PairSteps
<1> QED
  BY <1>1, <1>2, <1>3 DEF RaceNext

\* A process that vanishes leaves its token and its answer unused.
LEMMA VanishKeeps ==
  ASSUME LeaseInv, NEW p \in Process, Vanishes(p)
  PROVE  LeaseInv'
<1> USE DEF LeaseInv
<1>1. /\ clock' = clock /\ lease' = lease /\ effects' = effects /\ results' = results
      /\ grants' = grants /\ starts' = starts /\ crashes' \in Nat
  BY DEF Vanishes, shared, TypeOK
<1>2. /\ pc' \in [Process -> {"down", "acquiring", "holding", "committing", "reporting"}]
      /\ pc'[p] = "down" /\ \A q \in Process \ {p} : pc'[q] = pc[q]
  BY DEF Vanishes, TypeOK
<1>3. /\ local' \in [Process -> LocalType]
      /\ local'[p] = NoCall /\ \A q \in Process \ {p} : local'[q] = local[q]
  <2>1. NoCall \in LocalType
    BY DEF NoCall, LocalType
  <2>2. local' = [local EXCEPT ![p] = NoCall] /\ local \in [Process -> LocalType]
    BY DEF Vanishes, TypeOK
  <2> QED
    BY <2>1, <2>2
<1>4. NoCall.token = None /\ ~ NoCall.committed
  BY DEF NoCall
<1>5. TypeOK'
  BY <1>1, <1>2, <1>3 DEF TypeOK
<1>6. LeaseIsLastGrant' /\ EffectsAreFenced'
  BY <1>1 DEF LeaseIsLastGrant, EffectsAreFenced, EffectWasOwned
<1>7. TokensWereGranted'
  BY <1>1, <1>2, <1>3, <1>4 DEF TokensWereGranted, TokenWasGranted
<1>8. ReadingsAreOld'
  BY <1>1, <1>2, <1>3 DEF ReadingsAreOld
<1>9. CommittedIsDurable'
  BY <1>1, <1>3, <1>4 DEF CommittedIsDurable, DoneBy
<1> QED
  BY <1>5, <1>6, <1>7, <1>8, <1>9

\* No step of the experiment breaks the strengthening of the lease.
LEMMA RaceLeaseStep ==
  ASSUME RaceTypeOK, LeaseInv, [RaceNext]_raceVars
  PROVE  LeaseInv'
  BY RaceSteps, LeaseStep, VanishKeeps

-----------------------------------------------------------------------------
(* The experiment: its well-formed state                                   *)

\* A line of effects.jsonl.
LineType == [worker_id : WorkerId, token : Nat \cup {None}]

\* The variables of the harness keep their types.
LEMMA RaceTypeStep ==
  ASSUME RaceTypeOK, LeaseInv, [RaceNext]_raceVars
  PROVE  RaceTypeOK'
<1>1. /\ scenario' \in Scenarios /\ turn \in {1, 2}
      /\ main \in {"spawning", "joining", "returned", "raised"}
      /\ stage \in [Process -> {"unborn", "started", "waiting", "passed", "exited", "killed"}]
      /\ lines \in Seq(LineType)
  BY RaceSteps DEF RaceTypeOK, LineType
<1>2. main' \in {"spawning", "joining", "returned", "raised"} /\ turn' \in {1, 2}
  <2>1. CASE StartProcess
    BY <1>1, <2>1 DEF StartProcess
  <2>2. CASE Joined
    BY <1>1, <2>2 DEF Joined
  <2>3. CASE JoinTimesOut
    BY <1>1, <2>3 DEF JoinTimesOut
  <2>4. CASE main' = main /\ turn' = turn
    BY <1>1, <2>4
  <2> QED
    BY <2>1, <2>2, <2>3, <2>4
       DEF RaceNext, FreeSteps, UnfencedSteps, PairSteps, Barrier, ArrivesAt, BaselineCommits, LeasedWorks,
           LeasedReports, Dies, harness, raceVars
<1>3. stage' \in [Process -> {"unborn", "started", "waiting", "passed", "exited", "killed"}]
  <2>1. CASE StartProcess
    <3>1. Pair[turn] \in Process
      BY <1>1, PairFacts
    <3> QED
      BY <1>1, <2>1, <3>1 DEF StartProcess
  <2>2. CASE JoinTimesOut
    BY <1>1, <2>2 DEF JoinTimesOut, Killed, Ends
  <2>3. ASSUME NEW p \in Process, Barrier(p)
        PROVE  stage' \in [Process -> {"unborn", "started", "waiting", "passed", "exited", "killed"}]
    BY <1>1, <2>3 DEF Barrier, ArrivesAt
  <2>4. ASSUME NEW p \in Process, BaselineCommits(p) \/ LeasedReports(p) \/ Dies(p)
        PROVE  stage' \in [Process -> {"unborn", "started", "waiting", "passed", "exited", "killed"}]
    BY <1>1, <2>4 DEF BaselineCommits, LeasedReports, Dies, Killed, Ends
  <2>5. CASE stage' = stage
    BY <1>1, <2>5
  <2> QED
    BY <2>1, <2>2, <2>3, <2>4, <2>5
       DEF RaceNext, FreeSteps, UnfencedSteps, PairSteps, Joined, LeasedWorks, raceVars
<1>4. lines' \in Seq(LineType)
  <2>1. ASSUME NEW p \in Process, BaselineCommits(p)
        PROVE  lines' \in Seq(LineType)
    <3>1. [worker_id |-> PairId[p], token |-> None] \in LineType
      BY PairParameters DEF LineType
    <3> QED
      BY <1>1, <2>1, <3>1 DEF BaselineCommits, AppendLine
  <2>2. ASSUME NEW p \in Process, CommitUnfenced(p)
        PROVE  lines' \in Seq(LineType)
    <3>1. local[p].worker_id \in WorkerId /\ local[p].token \in Nat \cup {None}
      BY <2>2 DEF CommitUnfenced, LeaseInv, TypeOK, LocalType, TokensWereGranted, TokenWasGranted
    <3>2. [worker_id |-> local[p].worker_id, token |-> local[p].token] \in LineType
      BY <3>1 DEF LineType
    <3> QED
      BY <1>1, <2>2, <3>2 DEF CommitUnfenced, AppendLine
  <2>3. CASE lines' = lines
    BY <1>1, <2>3
  <2> QED
    BY <2>1, <2>2, <2>3
       DEF RaceNext, FreeSteps, UnfencedSteps, PairSteps, StartProcess, Joined, JoinTimesOut,
           Barrier, ArrivesAt, LeasedWorks, LeasedReports, Dies, Killed, raceVars
<1>5. passed' \subseteq Process
  <2>1. passed' = passed \/ \E p \in Process : Barrier(p)
    BY DEF RaceNext, FreeSteps, UnfencedSteps, PairSteps, StartProcess, Joined, JoinTimesOut,
           BaselineCommits, LeasedWorks, LeasedReports, Dies, harness, raceVars
  <2> QED
    BY <2>1 DEF Barrier, ArrivesAt, RaceTypeOK
<1> QED
  BY <1>1, <1>2, <1>3, <1>4, <1>5 DEF RaceTypeOK, LineType

\* At the unfenced sink a token is carried by one owner, until it commits with it.
TokensHeldOnce ==
  scenario = "unfenced" =>
    \A p \in Process :
      pc[p] = "holding" =>
        /\ \A i \in DOMAIN lines : lines[i].token # local[p].token
        /\ \A q \in Process \ {p} : pc[q] = "holding" => local[q].token # local[p].token

\* So no token commits twice there, whoever takes over (UnfencedEffectService.commit).
LEMMA UnfencedStep ==
  ASSUME RaceTypeOK, LeaseInv, UnfencedCost, TokensHeldOnce, [RaceNext]_raceVars
  PROVE  UnfencedCost' /\ TokensHeldOnce'
<1> SUFFICES ASSUME scenario' = "unfenced" PROVE UnfencedCost' /\ TokensHeldOnce'
  BY DEF UnfencedCost, TokensHeldOnce
<1>1. scenario = "unfenced"
  BY RaceSteps
<1>2. UnfencedSteps \/ UNCHANGED raceVars
  BY <1>1 DEF RaceNext, FreeSteps, PairSteps
<1>3. /\ \A i, j \in DOMAIN lines : lines[i].token = lines[j].token => i = j
      /\ \A i \in DOMAIN lines :
           lines[i].token \in DOMAIN grants /\ grants[lines[i].token].owner = lines[i].worker_id
  BY <1>1 DEF UnfencedCost
<1>4. \A p \in Process :
        pc[p] = "holding" =>
          /\ \A i \in DOMAIN lines : lines[i].token # local[p].token
          /\ \A q \in Process \ {p} : pc[q] = "holding" => local[q].token # local[p].token
          /\ local[p].token \in DOMAIN grants /\ grants[local[p].token].owner = local[p].worker_id
  BY <1>1 DEF TokensHeldOnce, LeaseInv, TokensWereGranted, TokenWasGranted
<1>5. /\ pc \in [Process -> {"down", "acquiring", "holding", "committing", "reporting"}]
      /\ local \in [Process -> LocalType] /\ lines \in Seq(LineType) /\ grants \in Seq(GrantType)
      /\ lease.next_token = Len(grants) + 1
  BY DEF LeaseInv, TypeOK, RaceTypeOK, LineType, LeaseIsLastGrant
<1>6. ASSUME NEW p \in Process, CommitUnfenced(p)
      PROVE  UnfencedCost' /\ TokensHeldOnce'
  <2> DEFINE e == [worker_id |-> local[p].worker_id, token |-> local[p].token]
             n == Len(lines) + 1
  <2>1. e \in LineType
    BY <1>6 DEF CommitUnfenced, LineType, LeaseInv, TypeOK, LocalType, TokensWereGranted,
                TokenWasGranted
  <2>2. /\ DOMAIN lines' = DOMAIN lines \cup {n} /\ lines'[n] = e
        /\ \A i \in DOMAIN lines : i # n /\ lines'[i] = lines[i]
    BY <1>5, <1>6, <2>1, AppendFacts DEF CommitUnfenced, AppendLine
  <2>3. /\ pc[p] = "holding" /\ grants' = grants
        /\ pc'[p] = "down" /\ \A q \in Process \ {p} : pc'[q] = pc[q] /\ local'[q] = local[q]
    BY <1>5, <1>6 DEF CommitUnfenced
  <2> HIDE DEF n
  <2>4. UnfencedCost'
    BY <1>3, <1>4, <2>2, <2>3 DEF UnfencedCost
  <2>5. TokensHeldOnce'
    BY <1>4, <2>2, <2>3 DEF TokensHeldOnce
  <2> QED
    BY <2>4, <2>5
<1>7. ASSUME NEW p \in Process, AcquireGranted(p), lines' = lines
      PROVE  UnfencedCost' /\ TokensHeldOnce'
  <2> DEFINE g == [step_id |-> local[p].step_id, owner |-> local[p].worker_id,
                   expires_at |-> local[p].now + Ttl]
             n == Len(grants) + 1
  <2>1. g \in GrantType
    BY <1>7, LeaseParameters
       DEF AcquireGranted, LeaseInv, TypeOK, TokensWereGranted, TokenWasGranted, LocalType, GrantType
  <2>2. /\ DOMAIN grants' = DOMAIN grants \cup {n}
        /\ \A i \in DOMAIN grants : i # n /\ grants'[i] = grants[i]
    BY <1>5, <1>7, <2>1, AppendFacts DEF AcquireGranted
  <2>3. /\ pc'[p] = "holding" /\ local'[p].token = n
        /\ \A q \in Process \ {p} : pc'[q] = pc[q] /\ local'[q] = local[q]
    BY <1>5, <1>7 DEF AcquireGranted, LocalType
  <2> HIDE DEF n
  <2>4. UnfencedCost'
    BY <1>3, <1>7, <2>2 DEF UnfencedCost
  <2>5. TokensHeldOnce'
    BY <1>3, <1>4, <1>7, <2>2, <2>3 DEF TokensHeldOnce
  <2> QED
    BY <2>4, <2>5
<1>8. CASE /\ lines' = lines /\ grants' = grants
           /\ \A q \in Process : pc'[q] = "holding" => pc[q] = "holding" /\ local'[q] = local[q]
  BY <1>3, <1>4, <1>8 DEF UnfencedCost, TokensHeldOnce
<1>9. ASSUME NEW p \in Process, lines' = lines,
             \/ \E w \in WorkerId, s \in Step : CallAcquire(p, w, s)
             \/ AcquireRefused(p) \/ Report(p) \/ Crash(p)
      PROVE  UnfencedCost' /\ TokensHeldOnce'
  <2>1. grants' = grants /\ pc'[p] # "holding"
    BY <1>5, <1>9 DEF CallAcquire, AcquireRefused, Report, Crash
  <2>2. \A q \in Process \ {p} : pc'[q] = pc[q] /\ local'[q] = local[q]
    <3>1. ASSUME NEW w \in WorkerId, NEW s \in Step, CallAcquire(p, w, s)
          PROVE  \E c : local' = [local EXCEPT ![p] = c]
      BY <3>1 DEF CallAcquire
    <3> QED
      BY <1>5, <1>9, <3>1 DEF CallAcquire, AcquireRefused, Report, Crash
  <2> QED
    BY <1>8, <1>9, <2>1, <2>2
<1>10. CASE lines' = lines /\ (Tick \/ UNCHANGED raceVars)
  BY <1>8, <1>10 DEF Tick, raceVars, vars
<1> QED
  BY <1>2, <1>6, <1>7, <1>9, <1>10 DEF UnfencedSteps, raceVars

\* A process of the pair has come to its end.
Ended(p) == stage[p] \in {"exited", "killed"}

\* _spawn_pair starts both processes, and returns after both have ended.
HarnessInOrder ==
  /\ main = "spawning" => \A i \in turn .. 2 : stage[Pair[i]] = "unborn"
  /\ main = "joining" /\ turn = 2 => Ended(Pair[1])
  /\ main = "returned" => Ended(Pair[1]) /\ Ended(Pair[2])
  /\ scenario \in {"free", "unfenced"} => main = "spawning"

\* So nobody passes the barrier before both were started, nor alone.
LEMMA TogetherStep ==
  ASSUME RaceTypeOK, PassedTogether, HarnessInOrder, [RaceNext]_raceVars
  PROVE  PassedTogether' /\ HarnessInOrder'
<1>1. /\ turn \in {1, 2} /\ Pair[1] \in Process /\ Pair[2] \in Process /\ Pair[1] # Pair[2]
      /\ stage \in [Process -> {"unborn", "started", "waiting", "passed", "exited", "killed"}]
      /\ scenario' = scenario
  BY PairFacts, RaceSteps DEF RaceTypeOK
<1>2. CASE main' = main /\ turn' = turn /\ stage' = stage /\ passed' = passed
  BY <1>1, <1>2 DEF PassedTogether, HarnessInOrder, Ended
<1>3. CASE scenario \in {"baseline", "leased"} /\ StartProcess
  <2>1. /\ main = "spawning" /\ stage[Pair[turn]] = "unborn"
        /\ stage'[Pair[turn]] = "started"
        /\ \A q \in Process \ {Pair[turn]} : stage'[q] = stage[q]
    BY <1>1, <1>3 DEF StartProcess, HarnessInOrder
  <2>2. PassedTogether'
    BY <1>1, <1>3, <2>1 DEF StartProcess, PassedTogether
  <2>3. CASE turn = 1
    <3>1. main' = "spawning" /\ turn' = 2 /\ stage[Pair[2]] = "unborn"
      BY <1>3, <2>1, <2>3 DEF StartProcess, HarnessInOrder
    <3>2. stage'[Pair[2]] = "unborn"
      BY <1>1, <2>1, <2>3, <3>1
    <3> QED
      BY <1>1, <1>3, <2>2, <3>1, <3>2 DEF HarnessInOrder
  <2>4. CASE turn = 2
    BY <1>1, <1>3, <2>2, <2>4 DEF StartProcess, HarnessInOrder
  <2> QED
    BY <1>1, <2>3, <2>4
<1>4. CASE scenario \in {"baseline", "leased"} /\ Joined
  BY <1>1, <1>4 DEF Joined, PassedTogether, HarnessInOrder, Ended
<1>5. ASSUME scenario \in {"baseline", "leased"}, NEW p \in Process, Barrier(p)
      PROVE  PassedTogether' /\ HarnessInOrder'
  <2>1. /\ main' = main /\ turn' = turn /\ stage[p] = "started"
        /\ passed' = passed \cup {q \in Process : stage'[q] = "passed"}
    BY <1>5 DEF Barrier, ArrivesAt, harness
  <2>2. CASE \A q \in Process \ {p} : stage[q] = "waiting"
    <3>1. \A q \in Process : stage'[q] = "passed" /\ stage[q] \in {"started", "waiting"}
      BY <1>5, <2>1, <2>2 DEF Barrier, ArrivesAt
    <3>2. (main = "joining" /\ turn = 1) \/ main = "raised"
      BY <1>1, <3>1 DEF HarnessInOrder, Ended, RaceTypeOK
    <3> QED
      BY <1>1, <1>5, <2>1, <3>1, <3>2 DEF PassedTogether, HarnessInOrder
  <2>3. CASE ~ \A q \in Process \ {p} : stage[q] = "waiting"
    <3>1. stage'[p] = "waiting" /\ \A q \in Process \ {p} : stage'[q] = stage[q]
      BY <1>1, <1>5, <2>3 DEF Barrier, ArrivesAt
    <3> QED
      BY <1>1, <1>5, <2>1, <3>1 DEF PassedTogether, HarnessInOrder, Ended
  <2> QED
    BY <2>2, <2>3
<1>6. ASSUME scenario \in {"baseline", "leased"}, NEW p \in Process, NEW h \in {"exited", "killed"},
             Ends(p, h), h = "exited" => stage[p] = "passed", Alive(p), turn' = turn,
             passed' = passed, main' = main \/ main' = "raised"
      PROVE  PassedTogether' /\ HarnessInOrder'
  <2>1. stage'[p] = h /\ \A q \in Process \ {p} : stage'[q] = stage[q]
    BY <1>1, <1>6 DEF Ends
  <2> QED
    BY <1>1, <1>6, <2>1 DEF Alive, PassedTogether, HarnessInOrder, Ended
<1>7. CASE scenario \in {"baseline", "leased"} /\ JoinTimesOut
  BY <1>1, <1>6, <1>7 DEF JoinTimesOut, Killed
<1>8. ASSUME scenario \in {"baseline", "leased"}, NEW p \in Process,
             BaselineCommits(p) \/ LeasedReports(p) \/ Dies(p)
      PROVE  PassedTogether' /\ HarnessInOrder'
  BY <1>6, <1>8 DEF BaselineCommits, LeasedReports, Dies, Killed, Alive, harness
<1> QED
  BY <1>2, <1>3, <1>4, <1>5, <1>7, <1>8
     DEF RaceNext, FreeSteps, UnfencedSteps, PairSteps, LeasedWorks, harness, raceVars

\* What RaceInv needs to be inductive, for every value of the constants.
RaceIInv == LeaseInv /\ RaceInv /\ PassedTogether /\ TokensHeldOnce /\ HarnessInOrder

\* Nothing was started, written or granted.
LEMMA RaceInitInv == RaceInit => RaceIInv
<1> SUFFICES ASSUME RaceInit PROVE RaceIInv
  OBVIOUS
<1>1. LeaseInv
  BY InitInv DEF RaceInit
<1>2. RaceTypeOK /\ UnfencedCost /\ PassedTogether
  BY DEF RaceInit, RaceTypeOK, UnfencedCost, PassedTogether
<1>3. TokensHeldOnce
  BY DEF RaceInit, Init, TokensHeldOnce
<1>4. HarnessInOrder
  <2>1. \A i \in 1 .. 2 : Pair[i] \in Process
    <3>1. \A i \in 1 .. 2 : i = 1 \/ i = 2
      OBVIOUS
    <3> QED
      BY <3>1, PairFacts
  <2> QED
    BY <2>1 DEF RaceInit, HarnessInOrder
<1> QED
  BY <1>1, <1>2, <1>3, <1>4 DEF RaceIInv, RaceInv

\* It holds in every state of the experiment, for any schedule, deaths and timeouts.
THEOREM RaceInvariant == RaceSpec => []RaceIInv
<1>1. RaceIInv /\ [RaceNext]_raceVars => RaceIInv'
  BY RaceLeaseStep, RaceTypeStep, UnfencedStep, TogetherStep DEF RaceIInv, RaceInv
<1> QED
  BY RaceInitInv, <1>1, PTL DEF RaceSpec

\* The lease store and the sink keep LeaseInv in the experiment too, where workers are
\* killed by the harness or commit past the store.
THEOREM RaceKeepsLease == RaceSpec => []LeaseInv
<1>1. RaceIInv => LeaseInv
  BY DEF RaceIInv
<1> QED
  BY <1>1, RaceInvariant, PTL

\* The unfenced sink makes at most one effect for each grant, by its owner
\* (UnfencedEffectService.commit).
THEOREM RaceIsWellFormed == RaceSpec => []RaceInv
<1>1. RaceIInv => RaceInv
  BY DEF RaceIInv
<1> QED
  BY <1>1, RaceInvariant, PTL

\* Who got past the barrier of _spawn_pair did so with all others, those included that
\* were killed since; beside one that died before it came, nobody does.
THEOREM BarrierHolds == RaceSpec => []PassedTogether
<1>1. RaceIInv => PassedTogether
  BY DEF RaceIInv
<1> QED
  BY <1>1, RaceInvariant, PTL

\* The experiment implements the fenced sink in every scenario: what goes past it in the
\* "unfenced" one goes to another file.
THEOREM RaceImplementsFencedSink == RaceSpec => FencedSpec
<1>1. RaceInit => Fenced!Init
  BY DEF RaceInit, Init, FreshLease, Fenced!Init
<1>2. RaceIInv /\ [RaceNext]_raceVars => [Fenced!Next]_(Fenced!vars)
  <2> SUFFICES ASSUME RaceIInv, [RaceNext]_raceVars PROVE [Fenced!Next]_(Fenced!vars)
    OBVIOUS
  <2>1. LeaseInv /\ RaceTypeOK
    BY DEF RaceIInv, RaceInv
  <2>2. CASE [Next]_vars
    BY <2>1, <2>2, FencedStepMaps
  <2>3. ASSUME NEW p \in Process, Vanishes(p) PROVE UNCHANGED Fenced!vars
    BY <2>3 DEF Vanishes, shared, Fenced!vars
  <2> QED
    BY <2>1, <2>2, <2>3, RaceSteps
<1> QED
  BY <1>1, <1>2, RaceInvariant, PTL DEF RaceSpec, FencedSpec, Fenced!Spec

\* With one step in the store, a lease is exclusive in the experiment too.
THEOREM RaceLeaseIsExclusive ==
  ASSUME \A s1, s2 \in Step : s1 = s2
  PROVE  RaceSpec => []ExclusiveStepLease
<1>1. RaceInit => SupersededHasExpired
  BY DEF RaceInit, Init, SupersededHasExpired
<1>2. RaceIInv /\ SupersededHasExpired /\ [RaceNext]_raceVars => SupersededHasExpired'
  <2> SUFFICES ASSUME RaceIInv, SupersededHasExpired, [RaceNext]_raceVars
               PROVE  SupersededHasExpired'
    OBVIOUS
  <2>1. LeaseInv /\ RaceTypeOK
    BY DEF RaceIInv, RaceInv
  <2>2. CASE [Next]_vars
    BY <2>1, <2>2, SupersededStep
  <2>3. ASSUME NEW p \in Process, Vanishes(p) PROVE SupersededHasExpired'
    BY <2>3 DEF Vanishes, SupersededHasExpired
  <2> QED
    BY <2>1, <2>2, <2>3, RaceSteps
<1>3. RaceIInv /\ SupersededHasExpired => ExclusiveStepLease
  BY DEF RaceIInv, LeaseInv, TypeOK, SupersededHasExpired, ExclusiveStepLease
<1> QED
  BY <1>1, <1>2, <1>3, RaceInvariant, PTL DEF RaceSpec

-----------------------------------------------------------------------------
(* The experiment: its races are settled                                   *)

\* The pair's readings: acquire is called at 0 and commit at 1.
LeasedTimes ==
  scenario = "leased" =>
    /\ \A p \in Process :
         /\ pc[p] # "down" => local[p].now \in {0, 1}
         /\ pc[p] = "acquiring" => local[p].now = 0
    /\ \A i \in DOMAIN grants : grants[i].expires_at = Ttl

\* The times are arguments of _leased_worker's two calls.
LEMMA TimesStep ==
  ASSUME RaceTypeOK, LeaseInv, LeasedTimes, [RaceNext]_raceVars
  PROVE  LeasedTimes'
<1> SUFFICES ASSUME scenario' = "leased" PROVE LeasedTimes'
  BY DEF LeasedTimes
<1>1. /\ scenario = "leased" /\ (PairSteps \/ UNCHANGED raceVars)
      /\ pc \in [Process -> {"down", "acquiring", "holding", "committing", "reporting"}]
      /\ local \in [Process -> LocalType] /\ grants \in Seq(GrantType)
  BY RaceSteps DEF LeaseInv, TypeOK, RaceNext, FreeSteps, UnfencedSteps
<1>2. /\ \A p \in Process : /\ pc[p] # "down" => local[p].now \in {0, 1}
                            /\ pc[p] = "acquiring" => local[p].now = 0
      /\ \A i \in DOMAIN grants : grants[i].expires_at = Ttl
  BY <1>1 DEF LeasedTimes
<1>3. CASE /\ grants' = grants
           /\ \E p \in Process :
                /\ \A q \in Process \ {p} : pc'[q] = pc[q] /\ local'[q] = local[q]
                /\ \/ pc'[p] = "down"
                   \/ local'[p].now = 0
                   \/ local'[p].now = 1 /\ pc'[p] # "acquiring"
                   \/ local'[p].now = local[p].now /\ pc[p] # "down" /\ pc'[p] # "acquiring"
  BY <1>2, <1>3 DEF LeasedTimes
<1>4. CASE grants' = grants /\ pc' = pc /\ local' = local
  BY <1>2, <1>4 DEF LeasedTimes
<1>5. ASSUME NEW p \in Process, Vanishes(p) PROVE LeasedTimes'
  <2>1. grants' = grants /\ pc'[p] = "down"
    BY <1>1, <1>5 DEF Vanishes
  <2>2. \A q \in Process \ {p} : pc'[q] = pc[q] /\ local'[q] = local[q]
    BY <1>1, <1>5 DEF Vanishes
  <2> QED
    BY <1>3, <2>1, <2>2
<1>6. ASSUME NEW p \in Process, LeasedCalls(p) PROVE LeasedTimes'
  <2>1. grants' = grants
    BY <1>6 DEF LeasedCalls, CallAcquire, CallCommit
  <2>2. \A q \in Process \ {p} : pc'[q] = pc[q] /\ local'[q] = local[q]
    <3>1. \E c : local' = [local EXCEPT ![p] = c]
      BY <1>6 DEF LeasedCalls, CallAcquire, CallCommit
    <3> QED
      BY <1>1, <1>6, <3>1 DEF LeasedCalls, CallAcquire, CallCommit
  <2>3. local'[p].now = 0 \/ (local'[p].now = 1 /\ pc'[p] # "acquiring")
    BY <1>1, <1>6 DEF LeasedCalls, CallCommit
  <2> QED
    BY <1>3, <2>1, <2>2, <2>3
<1>7. ASSUME NEW p \in Process, AcquireGranted(p) PROVE LeasedTimes'
  <2> DEFINE g == [step_id |-> local[p].step_id, owner |-> local[p].worker_id,
                   expires_at |-> local[p].now + Ttl]
             n == Len(grants) + 1
  <2>1. g \in GrantType
    BY <1>7, LeaseParameters
       DEF AcquireGranted, LeaseInv, TypeOK, TokensWereGranted, TokenWasGranted, LocalType, GrantType
  <2>2. local[p].now = 0 /\ g.expires_at = Ttl
    BY <1>2, <1>7, LeaseParameters DEF AcquireGranted
  <2>3. /\ DOMAIN grants' = DOMAIN grants \cup {n} /\ grants'[n] = g
        /\ \A i \in DOMAIN grants : grants'[i] = grants[i]
    BY <1>1, <1>7, <2>1, AppendFacts DEF AcquireGranted
  <2>4. /\ pc'[p] = "holding" /\ local'[p].now = local[p].now
        /\ \A q \in Process \ {p} : pc'[q] = pc[q] /\ local'[q] = local[q]
    BY <1>1, <1>7 DEF AcquireGranted, LocalType
  <2> HIDE DEF g, n
  <2> QED
    BY <1>2, <2>2, <2>3, <2>4 DEF LeasedTimes
<1>8. ASSUME NEW p \in Process,
             AcquireRefused(p) \/ CommitRejected(p) \/ CommitDuplicate(p) \/ CommitEffect(p)
      PROVE  LeasedTimes'
  <2>1. /\ grants' = grants /\ pc[p] # "down" /\ pc'[p] = "reporting"
        /\ local'[p].now = local[p].now
        /\ \A q \in Process \ {p} : pc'[q] = pc[q] /\ local'[q] = local[q]
    BY <1>1, <1>8 DEF AcquireRefused, CommitRejected, CommitDuplicate, CommitEffect, Answer,
                      LocalType
  <2> QED
    BY <1>3, <2>1
<1>9. ASSUME NEW p \in Process, Report(p) PROVE LeasedTimes'
  <2>1. grants' = grants /\ pc'[p] = "down"
    BY <1>1, <1>9 DEF Report
  <2>2. \A q \in Process \ {p} : pc'[q] = pc[q] /\ local'[q] = local[q]
    BY <1>1, <1>9 DEF Report
  <2> QED
    BY <1>3, <2>1, <2>2
<1>10. CASE UNCHANGED vars
  BY <1>4, <1>10 DEF vars
<1>11. CASE JoinTimesOut
  <2>1. Pair[turn] \in Process /\ Vanishes(Pair[turn])
    BY <1>11, PairFacts DEF RaceTypeOK, JoinTimesOut, Killed, Vanishes
  <2> QED
    BY <1>5, <2>1
<1>12. ASSUME NEW p \in Process, Dies(p) PROVE LeasedTimes'
  BY <1>5, <1>12 DEF Dies, Killed, Vanishes
<1>13. ASSUME NEW p \in Process, LeasedWorks(p) \/ LeasedReports(p) PROVE LeasedTimes'
  BY <1>6, <1>7, <1>8, <1>9, <1>13 DEF LeasedWorks, LeasedReports
<1> QED
  BY <1>1, <1>10, <1>11, <1>12, <1>13
     DEF PairSteps, StartProcess, Joined, Barrier, ArrivesAt, BaselineCommits, raceVars

\* No worker was killed, and no reading of a clock can have shown a lease expired: none is
\* that late yet or, in the lab's pair, acquire is called at 0 and commit at 1.
Calm ==
  /\ scenario # "unfenced" /\ crashes = 0
  /\ \/ scenario = "leased" /\ Ttl > 1
     \/ \A i \in DOMAIN grants : clock + Skew < grants[i].expires_at

\* p carries the one token there is.
Sole(p) ==
  /\ local[p].token # None
  /\ \A q \in Process \ {p} : local[q].token = None

Untold == \A r \in results : r.token = None

\* How far a calm race is: nobody has the lease yet, ...
Unclaimed ==
  /\ grants = <<>> /\ effects = <<>> /\ results = {}
  /\ \A p \in Process : pc[p] = "acquiring" \/ (pc[p] = "down" /\ starts[p] = 0)

\* ... its owner holds it, ...
Claimed ==
  /\ Len(grants) = 1 /\ effects = <<>> /\ Untold
  /\ \E p \in Process : pc[p] \in {"holding", "committing"} /\ Sole(p)

\* ... the effect is made and its owner told, ...
Acknowledged ==
  /\ Len(grants) = 1 /\ Len(effects) = 1 /\ Untold
  /\ \E p \in Process : pc[p] = "reporting" /\ local[p].committed /\ Sole(p)

\* ... or the owner has reported it.
Told ==
  /\ Len(grants) = 1 /\ Len(effects) = 1
  /\ \A p \in Process : local[p].token = None
  /\ \E r \in results :
       /\ r.token # None /\ r.committed
       /\ \A s \in results : s.token # None => s = r

RaceHasPhase == Calm => Unclaimed \/ Claimed \/ Acknowledged \/ Told

\* In a calm race every reading that is compared is before every expiry.
LEMMA LiveReadings ==
  ASSUME LeaseInv, LeasedTimes, Calm, NEW p \in Process, pc[p] # "down", NEW i \in DOMAIN grants
  PROVE  local[p].now < grants[i].expires_at
<1>1. /\ local[p].now \in Int /\ clock \in Nat /\ Skew \in Nat /\ Ttl \in Nat
      /\ local[p].now <= clock + Skew
  BY LeaseParameters DEF LeaseInv, TypeOK, LocalType, ReadingsAreOld
<1>2. grants[i].expires_at \in Int
  <2>1. grants[i] \in GrantType
    BY DEF LeaseInv, TypeOK
  <2> QED
    BY <2>1 DEF GrantType
<1>3. CASE scenario = "leased" /\ Ttl > 1
  BY <1>1, <1>3 DEF LeasedTimes
<1>4. CASE clock + Skew < grants[i].expires_at
  BY <1>1, <1>2, <1>4
<1> QED
  BY <1>3, <1>4 DEF Calm

\* A calm race was calm before, and no process vanished from it.
LEMMA CalmBefore ==
  ASSUME RaceTypeOK, LeaseInv, [RaceNext]_raceVars, Calm'
  PROVE  Calm /\ crashes' = 0 /\ [Next]_vars
<1>1. scenario' = scenario /\ scenario # "unfenced" /\ crashes' = 0 /\ crashes \in Nat
  BY RaceSteps DEF Calm, LeaseInv, TypeOK
<1>2. [Next]_vars
  BY <1>1, RaceSteps DEF Vanishes
<1>3. crashes = 0
  <2>1. \A p \in Process : ~ Crash(p)
    <3>1. crashes + 1 # 0
      BY <1>1
    <3> QED
      BY <1>1, <3>1 DEF Crash
  <2>2. crashes' = crashes
    BY <1>2, <2>1 DEF Next, Worker, Tick, CallAcquire, AcquireRefused, AcquireGranted, CallCommit,
         CommitRejected, CommitDuplicate, CommitEffect, Report, Answer, vars, bounds
  <2> QED
    BY <1>1, <2>2
<1>4. Grows
  BY <1>2, TypeStep DEF LeaseInv
<1>5. \A t \in DOMAIN grants : t \in DOMAIN grants' /\ grants'[t] = grants[t]
  BY <1>4, GrowsKeeps DEF LeaseInv
<1>6. clock \in Nat /\ clock' \in Nat /\ clock <= clock' /\ Skew \in Nat
  BY <1>2, ClockStep, LeaseParameters DEF LeaseInv, TypeOK
<1>7. ASSUME \A i \in DOMAIN grants' : clock' + Skew < grants'[i].expires_at,
             NEW i \in DOMAIN grants
      PROVE  clock + Skew < grants[i].expires_at
  <2>1. grants[i].expires_at \in Int
    <3>1. grants[i] \in GrantType
      BY DEF LeaseInv, TypeOK
    <3> QED
      BY <3>1 DEF GrantType
  <2>2. clock' + Skew < grants[i].expires_at
    BY <1>5, <1>7
  <2> QED
    BY <1>6, <2>1, <2>2
<1> QED
  BY <1>1, <1>2, <1>3, <1>7 DEF Calm

\* What a process that carries no token does, does not change the phase once there is a grant.
LEMMA QuietStep ==
  ASSUME Claimed \/ Acknowledged \/ Told, NEW q \in Process,
         grants' = grants, effects' = effects, results \subseteq results',
         \A r \in results' \ results : r.token = None,
         local[q].token = None, local'[q].token = None,
         \A p \in Process \ {q} : pc'[p] = pc[p] /\ local'[p] = local[p]
  PROVE  (Claimed \/ Acknowledged \/ Told)'
<1>1. \A p \in Process : Sole(p) => p # q /\ Sole(p)'
  BY DEF Sole
<1>2. Untold => Untold'
  BY DEF Untold
<1>3. Claimed => Claimed'
  BY <1>1, <1>2 DEF Claimed
<1>4. Acknowledged => Acknowledged'
  BY <1>1, <1>2 DEF Acknowledged
<1>5. Told => Told'
  BY DEF Told
<1> QED
  BY <1>3, <1>4, <1>5

\* Each step of a calm race, of workers of one step, is a step of its phases.
LEMMA PhaseStep ==
  ASSUME \A s1, s2 \in Step : s1 = s2,
         RaceTypeOK, LeaseInv, RaceHasPhase, LeasedTimes, [RaceNext]_raceVars
  PROVE  RaceHasPhase'
<1> SUFFICES ASSUME Calm' PROVE (Unclaimed \/ Claimed \/ Acknowledged \/ Told)'
  BY DEF RaceHasPhase
<1>1. Calm /\ crashes' = 0 /\ [Next]_vars
  BY CalmBefore
<1>2. Unclaimed \/ Claimed \/ Acknowledged \/ Told
  BY <1>1 DEF RaceHasPhase
<1>3. /\ pc \in [Process -> {"down", "acquiring", "holding", "committing", "reporting"}]
      /\ local \in [Process -> LocalType] /\ grants \in Seq(GrantType)
      /\ effects \in Seq(EffectType) /\ starts \in [Process -> Nat] /\ crashes \in Nat
      /\ None \notin Int \cup WorkerId \cup Step
  BY LeaseParameters DEF LeaseInv, TypeOK
<1>4. /\ Unclaimed => Len(grants) = 0
      /\ ~ Unclaimed => Len(grants) = 1 /\ 1 \in DOMAIN grants /\ grants # <<>>
  BY <1>2, <1>3 DEF Unclaimed, Claimed, Acknowledged, Told
<1>5. \A p \in Process :
        /\ pc[p] \in {"acquiring", "down"} => local[p].token = None
        /\ pc[p] \in {"holding", "committing"} =>
             local[p].token # None /\ local[p].token \in DOMAIN grants
        /\ local[p].token # None =>
             /\ grants[local[p].token].step_id = local[p].step_id
             /\ grants[local[p].token].owner = local[p].worker_id
        /\ pc[p] # "down" => local[p].worker_id \in WorkerId /\ local[p].step_id \in Step
  BY <1>3 DEF LeaseInv, TokensWereGranted, TokenWasGranted, LocalType
<1>6. ~ Unclaimed =>
        /\ lease.owner = grants[1].owner /\ lease.step_id = grants[1].step_id
        /\ lease.token = 1 /\ lease.expires_at = grants[1].expires_at
        /\ lease.owner # None /\ lease.expires_at # None /\ grants[1].step_id \in Step
  <2> SUFFICES ASSUME ~ Unclaimed
               PROVE  /\ lease.owner = grants[1].owner /\ lease.step_id = grants[1].step_id
                      /\ lease.token = 1 /\ lease.expires_at = grants[1].expires_at
                      /\ lease.owner # None /\ lease.expires_at # None /\ grants[1].step_id \in Step
    OBVIOUS
  <2>1. grants[1] \in GrantType
    BY <1>3, <1>4
  <2>2. grants[1].step_id \in Step /\ grants[1].owner # None /\ grants[1].expires_at # None
    BY <1>3, <2>1 DEF GrantType
  <2> QED
    BY <1>4, <2>2 DEF LeaseInv, LeaseIsLastGrant
<1>7. ASSUME ~ Unclaimed, NEW p \in Process, pc[p] # "down"
      PROVE  lease.step_id = local[p].step_id /\ lease.expires_at > local[p].now
  <2>1. local[p].now < grants[1].expires_at
    BY <1>1, <1>4, <1>7, LiveReadings
  <2>2. local[p].now \in Int /\ grants[1].expires_at \in Int
    <3>1. grants[1] \in GrantType
      BY <1>3, <1>4, <1>7
    <3> QED
      BY <1>3, <3>1 DEF GrantType, LocalType
  <2> QED
    BY <1>5, <1>6, <1>7, <2>1, <2>2
<1>8. CASE Tick \/ UNCHANGED vars
  BY <1>2, <1>8 DEF Tick, vars, shared, bounds, Unclaimed, Claimed, Acknowledged, Told, Sole, Untold
<1>9. ASSUME NEW q \in Process, NEW w \in WorkerId, NEW s \in Step, CallAcquire(q, w, s)
      PROVE  (Unclaimed \/ Claimed \/ Acknowledged \/ Told)'
  <2>1. PICK now \in Readings :
          local' = [local EXCEPT ![q] = [NoCall EXCEPT !.worker_id = w, !.step_id = s, !.now = now]]
    BY <1>9 DEF CallAcquire
  <2>2. /\ pc[q] = "down" /\ pc'[q] = "acquiring" /\ local'[q].token = None
        /\ \A p \in Process \ {q} : pc'[p] = pc[p] /\ local'[p] = local[p] /\ starts'[p] = starts[p]
        /\ grants' = grants /\ effects' = effects /\ results' = results
    BY <1>3, <1>9, <2>1 DEF CallAcquire, NoCall, shared
  <2>3. Unclaimed => Unclaimed'
    BY <2>2 DEF Unclaimed
  <2> QED
    BY <1>2, <1>5, <2>2, <2>3, QuietStep
<1>10. ASSUME NEW q \in Process, AcquireRefused(q)
       PROVE  (Unclaimed \/ Claimed \/ Acknowledged \/ Told)'
  <2>1. ~ Unclaimed
    BY <1>10, <1>3 DEF AcquireRefused, Active, LeaseInv, LeaseIsLastGrant, Unclaimed
  <2>2. /\ local' = local /\ local[q].token = None
        /\ \A p \in Process \ {q} : pc'[p] = pc[p]
        /\ grants' = grants /\ effects' = effects /\ results' = results
    BY <1>3, <1>5, <1>10 DEF AcquireRefused, shared
  <2> QED
    BY <1>2, <2>1, <2>2, QuietStep
<1>11. ASSUME NEW q \in Process, AcquireGranted(q)
       PROVE  (Unclaimed \/ Claimed \/ Acknowledged \/ Told)'
  <2> DEFINE g == [step_id |-> local[q].step_id, owner |-> local[q].worker_id,
                   expires_at |-> local[q].now + Ttl]
  <2>1. pc[q] = "acquiring" /\ ~ Active(lease, q) /\ lease.next_token = Len(grants) + 1
    BY <1>11 DEF AcquireGranted, LeaseInv, LeaseIsLastGrant
  <2>2. Unclaimed
    BY <1>6, <1>7, <2>1 DEF Active
  <2>3. g \in GrantType
    BY <1>3, <1>5, <2>1, LeaseParameters DEF LocalType, GrantType
  <2>4. Len(grants') = 1
    BY <1>3, <1>4, <1>11, <2>2, <2>3, AppendFacts DEF AcquireGranted
  <2>5. /\ pc'[q] = "holding" /\ local'[q].token # None
        /\ \A p \in Process \ {q} : local'[p] = local[p]
        /\ effects' = effects /\ results' = results
    BY <1>3, <1>4, <1>11, <2>1, <2>2 DEF AcquireGranted, LocalType
  <2>6. Sole(q)'
    BY <1>5, <2>2, <2>5 DEF Sole, Unclaimed
  <2> QED
    BY <2>2, <2>4, <2>5, <2>6 DEF Unclaimed, Claimed, Untold
<1>12. ASSUME NEW q \in Process, CallCommit(q)
       PROVE  (Unclaimed \/ Claimed \/ Acknowledged \/ Told)'
  <2>1. PICK now \in Readings : local' = [local EXCEPT ![q].now = now]
    BY <1>12 DEF CallCommit
  <2>2. /\ pc[q] = "holding" /\ pc'[q] = "committing" /\ local'[q].token = local[q].token
        /\ \A p \in Process \ {q} : pc'[p] = pc[p] /\ local'[p] = local[p]
        /\ grants' = grants /\ effects' = effects /\ results' = results
    BY <1>3, <1>12, <2>1 DEF CallCommit, LocalType, shared
  <2>3. Claimed /\ Sole(q)
    BY <1>2, <1>5, <2>2 DEF Unclaimed, Claimed, Acknowledged, Told, Sole
  <2>4. Sole(q)'
    BY <2>2, <2>3 DEF Sole
  <2> QED
    BY <2>2, <2>3, <2>4 DEF Claimed, Untold
<1>13. ASSUME NEW q \in Process, pc[q] = "committing"
       PROVE  Claimed /\ Sole(q) /\ Authoritative(lease, q) /\ ~ AlreadyCommitted(effects, q)
  <2>1. Claimed /\ Sole(q)
    BY <1>2, <1>5, <1>13 DEF Unclaimed, Claimed, Acknowledged, Told, Sole
  <2>2. ~ Unclaimed
    BY <1>13 DEF Unclaimed
  <2>3. local[q].token = 1
    BY <1>3, <1>4, <1>5, <1>13, <2>2
  <2>4. Authoritative(lease, q)
    BY <1>5, <1>6, <1>7, <1>13, <2>2, <2>3 DEF Authoritative
  <2>5. ~ AlreadyCommitted(effects, q)
    BY <2>1 DEF Claimed, AlreadyCommitted
  <2> QED
    BY <2>1, <2>4, <2>5
<1>14. ASSUME NEW q \in Process, CommitRejected(q) \/ CommitDuplicate(q)
       PROVE  (Unclaimed \/ Claimed \/ Acknowledged \/ Told)'
  BY <1>13, <1>14 DEF CommitRejected, CommitDuplicate
<1>15. ASSUME NEW q \in Process, CommitEffect(q)
       PROVE  (Unclaimed \/ Claimed \/ Acknowledged \/ Told)'
  <2> DEFINE e == [step_id |-> local[q].step_id, operation_id |-> OperationOf(q),
                   worker_id |-> local[q].worker_id, token |-> local[q].token]
  <2>1. pc[q] = "committing" /\ Claimed /\ Sole(q)
    BY <1>13, <1>15 DEF CommitEffect
  <2>2. e \in EffectType
    <3>1. local[q].token \in Nat
      BY <1>3, <1>5, <2>1
    <3> QED
      BY <1>5, <2>1, <3>1 DEF EffectType, OperationOf, Operations
  <2>3. Len(effects') = 1
    <3>1. effects' = Append(effects, e) /\ Len(effects) = 0
      BY <1>15, <2>1 DEF CommitEffect, EffectOf, Claimed
    <3> QED
      BY <1>3, <2>2, <3>1, AppendFacts
  <2>4. /\ pc'[q] = "reporting" /\ local'[q].committed /\ local'[q].token = local[q].token
        /\ \A p \in Process \ {q} : local'[p] = local[p]
        /\ grants' = grants /\ results' = results
    BY <1>3, <1>15 DEF CommitEffect, Answer, LocalType
  <2>5. Sole(q)'
    BY <2>1, <2>4 DEF Sole
  <2> QED
    BY <2>1, <2>3, <2>4, <2>5 DEF Claimed, Acknowledged, Untold
<1>16. ASSUME NEW q \in Process, Report(q)
       PROVE  (Unclaimed \/ Claimed \/ Acknowledged \/ Told)'
  <2> DEFINE r == [worker_id |-> local[q].worker_id, token |-> local[q].token,
                   committed |-> local[q].committed]
  <2>1. /\ pc[q] = "reporting" /\ results' = results \cup {r}
        /\ local'[q].token = None
        /\ \A p \in Process \ {q} : pc'[p] = pc[p] /\ local'[p] = local[p]
        /\ grants' = grants /\ effects' = effects
    BY <1>3, <1>16 DEF Report, NoCall
  <2>2. r.token = local[q].token /\ r.committed = local[q].committed
    OBVIOUS
  <2> HIDE DEF r
  <2>3. ~ Unclaimed
    BY <2>1 DEF Unclaimed
  <2>4. CASE local[q].token = None
    BY <1>2, <2>1, <2>2, <2>3, <2>4, QuietStep
  <2>5. CASE local[q].token # None
    <3>1. Acknowledged /\ Sole(q) /\ local[q].committed
      BY <1>2, <2>1, <2>3, <2>5 DEF Claimed, Acknowledged, Told, Sole
    <3>2. \A p \in Process : local'[p].token = None
      BY <2>1, <3>1 DEF Sole
    <3>3. \E x \in results' : /\ x.token # None /\ x.committed
                              /\ \A s \in results' : s.token # None => s = x
      BY <2>1, <2>2, <3>1 DEF Acknowledged, Untold, Sole
    <3> QED
      BY <2>1, <3>1, <3>2, <3>3 DEF Acknowledged, Told
  <2> QED
    BY <2>4, <2>5
<1>17. \A q \in Process : ~ Crash(q)
  <2>1. crashes + 1 # 0
    BY <1>3
  <2> QED
    BY <1>1, <2>1 DEF Crash
<1> QED
  BY <1>1, <1>8, <1>9, <1>10, <1>11, <1>12, <1>14, <1>15, <1>16, <1>17 DEF Next, Worker

\* What a process of the pair has done when it exits, and
\* what it takes to be killed.
ExitsAreComplete ==
  /\ scenario = "leased" =>
       /\ crashes # 0 => \E p \in Process : stage[p] = "killed"
       /\ \A p \in Process :
            /\ stage[p] = "exited" => pc[p] = "down" /\ starts[p] > 0
            /\ pc[p] # "down" => stage[p] = "passed" /\ starts[p] > 0
  /\ scenario = "baseline" =>
       Len(lines) = Cardinality({p \in Process : stage[p] = "exited"})

\* In a leased pair: a process exits after its report.
LEMMA LeasedExits ==
  ASSUME RaceTypeOK, LeaseInv, HarnessInOrder, ExitsAreComplete, [RaceNext]_raceVars,
         scenario = "leased"
  PROVE  /\ crashes' # 0 => \E p \in Process : stage'[p] = "killed"
         /\ \A p \in Process :
              /\ stage'[p] = "exited" => pc'[p] = "down" /\ starts'[p] > 0
              /\ pc'[p] # "down" => stage'[p] = "passed" /\ starts'[p] > 0
<1> DEFINE Goal == /\ crashes' # 0 => \E p \in Process : stage'[p] = "killed"
                   /\ \A p \in Process :
                        /\ stage'[p] = "exited" => pc'[p] = "down" /\ starts'[p] > 0
                        /\ pc'[p] # "down" => stage'[p] = "passed" /\ starts'[p] > 0
<1>1. /\ crashes # 0 => \E p \in Process : stage[p] = "killed"
      /\ \A p \in Process :
           /\ stage[p] = "exited" => pc[p] = "down" /\ starts[p] > 0
           /\ pc[p] # "down" => stage[p] = "passed" /\ starts[p] > 0
  BY DEF ExitsAreComplete
<1>2. /\ pc \in [Process -> {"down", "acquiring", "holding", "committing", "reporting"}]
      /\ starts \in [Process -> Nat] /\ turn \in {1, 2} /\ Pair[turn] \in Process
      /\ stage \in [Process -> {"unborn", "started", "waiting", "passed", "exited", "killed"}]
  BY PairFacts DEF LeaseInv, TypeOK, RaceTypeOK
<1>3. CASE stage' = stage /\ pc' = pc /\ starts' = starts /\ crashes' = crashes
  BY <1>1, <1>3
<1>4. CASE StartProcess
  <2>1. stage[Pair[turn]] = "unborn"
    BY <1>2, <1>4 DEF StartProcess, HarnessInOrder
  <2>2. /\ stage'[Pair[turn]] = "started"
        /\ \A p \in Process \ {Pair[turn]} : stage'[p] = stage[p]
        /\ pc' = pc /\ starts' = starts /\ crashes' = crashes
    BY <1>2, <1>4 DEF StartProcess, vars, bounds
  <2> QED
    BY <1>1, <1>2, <2>1, <2>2
<1>5. ASSUME NEW p \in Process, Barrier(p) PROVE Goal
  <2>1. pc' = pc /\ starts' = starts /\ crashes' = crashes /\ stage[p] = "started"
    BY <1>5 DEF Barrier, ArrivesAt, vars, bounds
  <2>2. CASE \A q \in Process \ {p} : stage[q] = "waiting"
    <3>1. \A q \in Process : stage'[q] = "passed" /\ stage[q] \in {"started", "waiting"}
      BY <1>5, <2>1, <2>2 DEF Barrier, ArrivesAt
    <3> QED
      BY <1>1, <2>1, <3>1
  <2>3. CASE ~ \A q \in Process \ {p} : stage[q] = "waiting"
    <3>1. stage'[p] = "waiting" /\ \A q \in Process \ {p} : stage'[q] = stage[q]
      BY <1>2, <1>5, <2>3 DEF Barrier, ArrivesAt
    <3> QED
      BY <1>1, <2>1, <3>1
  <2> QED
    BY <2>2, <2>3
<1>6. ASSUME NEW p \in Process, LeasedWorks(p) PROVE Goal
  <2>1. stage' = stage /\ stage[p] = "passed" /\ crashes' = crashes
    BY <1>6 DEF LeasedWorks, LeasedCalls, CallAcquire, CallCommit, AcquireRefused, AcquireGranted,
                CommitRejected, CommitDuplicate, CommitEffect, Answer, bounds
  <2>2. \A q \in Process \ {p} : pc'[q] = pc[q] /\ starts'[q] = starts[q]
    BY <1>2, <1>6 DEF LeasedWorks, LeasedCalls, CallAcquire, CallCommit, AcquireRefused,
                      AcquireGranted, CommitRejected, CommitDuplicate, CommitEffect, Answer, bounds
  <2>3. starts'[p] > 0
    <3>1. ASSUME NEW s \in Step, CallAcquire(p, PairId[p], s) PROVE starts'[p] > 0
      BY <1>2, <3>1 DEF CallAcquire
    <3>2. ASSUME pc[p] # "down", starts' = starts PROVE starts'[p] > 0
      BY <1>1, <3>2
    <3> QED
      BY <1>6, <3>1, <3>2 DEF LeasedWorks, LeasedCalls, CallCommit, AcquireRefused, AcquireGranted,
           CommitRejected, CommitDuplicate, CommitEffect, Answer, bounds
  <2> QED
    BY <1>1, <2>1, <2>2, <2>3
<1>7. ASSUME NEW p \in Process, LeasedReports(p) PROVE Goal
  <2>1. /\ pc[p] = "reporting" /\ pc'[p] = "down" /\ stage[p] = "passed" /\ stage'[p] = "exited"
        /\ \A q \in Process \ {p} : pc'[q] = pc[q] /\ stage'[q] = stage[q]
        /\ starts' = starts /\ crashes' = crashes
    BY <1>2, <1>7 DEF LeasedReports, Report, Ends, bounds
  <2> QED
    BY <1>1, <2>1
<1>8. ASSUME NEW p \in Process, Killed(p) PROVE Goal
  <2>1. /\ pc'[p] = "down" /\ stage'[p] = "killed" /\ starts' = starts
        /\ \A q \in Process \ {p} : pc'[q] = pc[q] /\ stage'[q] = stage[q]
    BY <1>2, <1>8 DEF Killed, Ends
  <2> QED
    BY <1>1, <2>1
<1>9. CASE JoinTimesOut
  BY <1>2, <1>8, <1>9 DEF JoinTimesOut
<1>10. ASSUME NEW p \in Process, Dies(p) PROVE Goal
  BY <1>8, <1>10 DEF Dies
<1>11. CASE Joined \/ UNCHANGED raceVars
  BY <1>3, <1>11 DEF Joined, raceVars, vars, bounds
<1>12. PairSteps \/ UNCHANGED raceVars
  BY DEF RaceNext, FreeSteps, UnfencedSteps
<1> QED
  BY <1>4, <1>5, <1>6, <1>7, <1>9, <1>10, <1>11, <1>12 DEF PairSteps, BaselineCommits

\* In a baseline pair: each process that exits has written its line.
LEMMA BaselineExits ==
  ASSUME IsFiniteSet(Process),
         RaceTypeOK, HarnessInOrder, ExitsAreComplete, [RaceNext]_raceVars, scenario = "baseline"
  PROVE  Len(lines') = Cardinality({p \in Process : stage'[p] = "exited"})
<1> DEFINE exited == {p \in Process : stage[p] = "exited"}
<1>1. /\ Len(lines) = Cardinality(exited) /\ lines \in Seq(LineType)
      /\ turn \in {1, 2} /\ Pair[turn] \in Process
      /\ stage \in [Process -> {"unborn", "started", "waiting", "passed", "exited", "killed"}]
  BY PairFacts DEF ExitsAreComplete, RaceTypeOK, LineType
<1>2. CASE lines' = lines /\ \A p \in Process : stage'[p] = "exited" <=> stage[p] = "exited"
  BY <1>1, <1>2
<1>3. CASE StartProcess
  <2>1. stage[Pair[turn]] = "unborn"
    BY <1>1, <1>3 DEF StartProcess, HarnessInOrder
  <2>2. /\ lines' = lines /\ stage'[Pair[turn]] = "started"
        /\ \A p \in Process \ {Pair[turn]} : stage'[p] = stage[p]
    BY <1>1, <1>3 DEF StartProcess
  <2> QED
    BY <1>2, <2>1, <2>2
<1>4. ASSUME NEW p \in Process, Barrier(p) PROVE lines' = lines /\ (exited' = exited)
  <2>1. lines' = lines /\ stage[p] = "started"
    BY <1>4 DEF Barrier, ArrivesAt
  <2>2. CASE \A q \in Process \ {p} : stage[q] = "waiting"
    <3>1. \A q \in Process : stage'[q] = "passed" /\ stage[q] \in {"started", "waiting"}
      BY <1>4, <2>1, <2>2 DEF Barrier, ArrivesAt
    <3> QED
      BY <2>1, <3>1
  <2>3. CASE ~ \A q \in Process \ {p} : stage[q] = "waiting"
    <3>1. stage'[p] = "waiting" /\ \A q \in Process \ {p} : stage'[q] = stage[q]
      BY <1>1, <1>4, <2>3 DEF Barrier, ArrivesAt
    <3> QED
      BY <2>1, <3>1
  <2> QED
    BY <2>2, <2>3
<1>5. ASSUME NEW p \in Process, BaselineCommits(p)
      PROVE  Len(lines') = Cardinality({q \in Process : stage'[q] = "exited"})
  <2>1. [worker_id |-> PairId[p], token |-> None] \in LineType
    BY PairParameters DEF LineType
  <2>2. Len(lines') = Len(lines) + 1
    BY <1>1, <1>5, <2>1, AppendFacts DEF BaselineCommits, AppendLine
  <2>3. {q \in Process : stage'[q] = "exited"} = exited \cup {p} /\ p \notin exited
    BY <1>1, <1>5 DEF BaselineCommits, Ends
  <2>4. IsFiniteSet(exited)
    BY FS_Subset
  <2> QED
    BY <1>1, <2>2, <2>3, <2>4, FS_AddElement
<1>6. ASSUME NEW p \in Process, Killed(p) PROVE lines' = lines /\ (exited' = exited)
  BY <1>1, <1>6 DEF Killed, Ends, Alive
<1>7. CASE JoinTimesOut
  BY <1>1, <1>6, <1>7 DEF JoinTimesOut
<1>8. ASSUME NEW p \in Process, Dies(p) PROVE lines' = lines /\ (exited' = exited)
  BY <1>6, <1>8 DEF Dies
<1>9. CASE Joined \/ UNCHANGED raceVars
  BY <1>1, <1>9 DEF Joined, raceVars
<1>10. PairSteps \/ UNCHANGED raceVars
  BY DEF RaceNext, FreeSteps, UnfencedSteps
<1> QED
  BY <1>1, <1>3, <1>4, <1>5, <1>7, <1>8, <1>9, <1>10 DEF PairSteps, LeasedWorks, LeasedReports

\* What RacesSettle needs to be inductive, for workers of one step.
SettleIInv == RaceIInv /\ RaceHasPhase /\ LeasedTimes

\* The phases of a race are passed through in any interleaving.
LEMMA RacePhases ==
  ASSUME \A s1, s2 \in Step : s1 = s2
  PROVE  RaceSpec => []SettleIInv
<1>1. RaceInit => RaceHasPhase /\ LeasedTimes
  BY DEF RaceInit, Init, RaceHasPhase, Unclaimed, LeasedTimes
<1>2. RaceIInv /\ RaceHasPhase /\ LeasedTimes /\ [RaceNext]_raceVars => (RaceHasPhase /\ LeasedTimes)'
  BY PhaseStep, TimesStep DEF RaceIInv, RaceInv
<1> QED
  BY <1>1, <1>2, RaceInvariant, PTL DEF RaceSpec, SettleIInv

\* Once every worker has reported, a calm race has one owner, and it was told of the one
\* effect (LeaseStore.acquire, FencedEffectService.commit, _leased_worker).
THEOREM RacesAreSettled ==
  ASSUME \A s1, s2 \in Step : s1 = s2
  PROVE  RaceSpec => []RacesSettle
<1>1. SettleIInv => RacesSettle
  <2> SUFFICES ASSUME SettleIInv, scenario # "unfenced",
                      \A p \in Process : pc[p] = "down", NEW p \in Process, starts[p] > 0,
                      crashes = 0, \A i \in DOMAIN grants : clock + Skew < grants[i].expires_at
               PROVE  /\ \E r \in results : r.token # None /\ r.committed
                      /\ \A r1, r2 \in results : r1.token # None /\ r2.token # None => r1 = r2
                      /\ Len(effects) = 1
    BY DEF RacesSettle, RaceSettled
  <2>1. Unclaimed \/ Claimed \/ Acknowledged \/ Told
    BY DEF SettleIInv, RaceHasPhase, Calm
  <2>2. starts[p] # 0
    OBVIOUS
  <2>3. Told
    BY <2>1, <2>2 DEF Unclaimed, Claimed, Acknowledged
  <2> QED
    BY <2>3 DEF Told
<1> QED
  BY <1>1, RacePhases, PTL

\* Once _spawn_pair has returned, the suite's verdict on the pair is that nobody was killed,
\* whatever the schedule was (_lab11_comparison): for two processes, one step and a lease
\* that is longer than the time of its commit, as in the lab.
THEOREM VerdictIsDeterminate ==
  ASSUME \A s1, s2 \in Step : s1 = s2, Process = {Pair[1], Pair[2]}, Ttl > 1
  PROVE  RaceSpec => []ClaimHolds
<1> DEFINE exited == {p \in Process : stage[p] = "exited"}
<1>1. IsFiniteSet(Process) /\ Cardinality(Process) = 2
  <2>1. IsFiniteSet({Pair[1]}) /\ Cardinality({Pair[1]}) = 1
    BY FS_Singleton
  <2>2. Process = {Pair[1]} \cup {Pair[2]} /\ Pair[2] \notin {Pair[1]}
    BY PairFacts
  <2>3. IsFiniteSet({Pair[1]} \cup {Pair[2]}) /\ Cardinality({Pair[1]} \cup {Pair[2]}) = 1 + 1
    BY <2>1, <2>2, FS_AddElement
  <2> QED
    BY <2>2, <2>3
<1>2. RaceInit => ExitsAreComplete
  <2> SUFFICES ASSUME RaceInit PROVE ExitsAreComplete
    OBVIOUS
  <2>1. exited = {} /\ Len(lines) = 0 /\ crashes = 0 /\ \A p \in Process : pc[p] = "down"
    BY DEF RaceInit, Init
  <2>2. \A p \in Process : stage[p] # "exited"
    BY DEF RaceInit
  <2> QED
    BY <2>1, <2>2, FS_EmptySet DEF ExitsAreComplete
<1>3. SettleIInv /\ ExitsAreComplete /\ [RaceNext]_raceVars => ExitsAreComplete'
  <2> SUFFICES ASSUME SettleIInv, ExitsAreComplete, [RaceNext]_raceVars PROVE ExitsAreComplete'
    OBVIOUS
  <2>1. RaceTypeOK /\ LeaseInv /\ HarnessInOrder
    BY DEF SettleIInv, RaceIInv, RaceInv
  <2>2. scenario' = scenario
    BY <2>1, RaceSteps
  <2> QED
    BY <1>1, <2>1, <2>2, LeasedExits, BaselineExits DEF ExitsAreComplete
<1>4. SettleIInv /\ ExitsAreComplete => ClaimHolds
  <2> SUFFICES ASSUME SettleIInv, ExitsAreComplete, main = "returned"
               PROVE  claim_passed <=> \A p \in Process : stage[p] = "exited"
    BY DEF ClaimHolds
  <2>1. \A p \in Process : stage[p] \in {"exited", "killed"}
    BY DEF SettleIInv, RaceIInv, HarnessInOrder, Ended
  <2>2. \A p \in Process : ReturnCodes[p] = IF stage[p] = "killed" THEN -9 ELSE 0
    BY DEF ReturnCodes
  <2>3. claim_passed => \A p \in Process : stage[p] = "exited"
    BY <2>1, <2>2 DEF claim_passed
  <2>4. ASSUME \A p \in Process : stage[p] = "exited"
        PROVE  claim_passed
    <3>1. \A p \in Process : ReturnCodes[p] = 0
      BY <2>2, <2>4
    <3>2. scenario = "baseline" => Len(lines) = 2
      <4>1. exited = Process
        BY <2>4
      <4> QED
        BY <1>1, <4>1 DEF ExitsAreComplete
    <3>3. ASSUME scenario = "leased"
          PROVE  Len(effects) = 1 /\ tokens_granted = 1 /\ authoritative_commits = 1
      <4>1. Pair[1] \in Process /\ \A p \in Process : pc[p] = "down" /\ starts[p] > 0 /\ starts[p] # 0
        BY <2>4, <3>3, PairFacts DEF ExitsAreComplete
      <4>2. Calm
        BY <2>4, <3>3 DEF ExitsAreComplete, Calm
      <4>3. Told
        BY <4>1, <4>2 DEF SettleIInv, RaceHasPhase, Unclaimed, Claimed, Acknowledged
      <4>4. PICK r \in results : /\ r.token # None /\ r.committed
                                 /\ \A s \in results : s.token # None => s = r
        BY <4>3 DEF Told
      <4>5. \A s \in results : s.committed => s.token # None
        BY DEF SettleIInv, RaceIInv, LeaseInv, CommittedIsDurable
      <4>6. {s \in results : s.token # None} = {r} /\ {s \in results : s.committed} = {r}
        BY <4>4, <4>5
      <4> QED
        BY <4>3, <4>6, FS_Singleton DEF Told, tokens_granted, authoritative_commits
    <3> QED
      BY <3>1, <3>2, <3>3 DEF claim_passed
  <2> QED
    BY <2>3, <2>4
<1> QED
  BY <1>2, <1>3, <1>4, RacePhases, PTL DEF RaceSpec

-----------------------------------------------------------------------------
(* The lock makes an action of each body                                   *)

\* What p has read under the lock is what the file still holds.
Knows(p) ==
  /\ at[p] # "outside" <=> holder = p
  /\ at[p] \in {"locked", "has lease"} => pc[p] \in {"acquiring", "committing"}
  /\ at[p] = "has lease" => memory[p] = lease
  /\ at[p] = "has effects" =>
       /\ pc[p] = "committing" /\ memory[p] = effects
       /\ Authoritative(lease, p)

\* Lease owners at the unfenced sink never call commit of the fenced one.
NeverFenced == scenario = "unfenced" => \A p \in Process : pc[p] # "committing"

LockInv ==
  /\ holder \in Process \cup {None}
  /\ at \in [Process -> {"outside", "locked", "has lease", "has effects", "leaving"}]
  /\ memory = [p \in Process |-> memory[p]]
  /\ NeverFenced
  /\ \A p \in Process : Knows(p)

LockIInv == RaceIInv /\ LockInv

\* Nobody has the lock.
LEMMA LockInitInv == LockInit => LockIInv
<1> SUFFICES ASSUME LockInit PROVE LockIInv
  OBVIOUS
<1>1. RaceIInv /\ NeverFenced
  BY RaceInitInv DEF LockInit, RaceInit, Init, NeverFenced
<1>2. /\ holder = None /\ at = [p \in Process |-> "outside"]
      /\ memory = [p \in Process |-> None]
  BY DEF LockInit
<1>3. \A p \in Process : Knows(p)
  BY <1>2, LockParameters DEF Knows
<1> QED
  BY <1>1, <1>2, <1>3 DEF LockIInv, LockInv

\* A step of a body is seen only when it decides or replaces its file: it is then the
\* body's action in WorkerLease, taken on the files as they are.
LEMMA BodyMaps ==
  ASSUME NEW p \in Process, Knows(p), Body(p)
  PROVE  \/ UNCHANGED vars
         \/ AcquireRefused(p) \/ AcquireGranted(p)
         \/ CommitRejected(p) \/ CommitDuplicate(p) \/ CommitEffect(p)
<1> USE DEF Knows
<1>1. CASE Lock(p) \/ ReadLease(p) \/ ReadEffects(p) \/ Unlock(p)
  BY <1>1 DEF Lock, ReadLease, ReadEffects, Unlock, Reads
<1>2. CASE RefuseLease(p)
  BY <1>2 DEF RefuseLease, AcquireRefused
<1>3. CASE ReplaceLease(p)
  BY <1>3 DEF ReplaceLease, AcquireGranted
<1>4. CASE RejectCommit(p)
  BY <1>4 DEF RejectCommit, CommitRejected
<1>5. CASE FindDuplicate(p)
  BY <1>5 DEF FindDuplicate, CommitDuplicate
<1>6. CASE ReplaceEffects(p)
  BY <1>6 DEF ReplaceEffects, CommitEffect
<1> QED
  BY <1>1, <1>2, <1>3, <1>4, <1>5, <1>6 DEF Body

\* With the bodies taken apart the experiment does what WorkerRace does.
LEMMA LockStepMaps ==
  ASSUME LockInv, [LockNext]_lockRaceVars
  PROVE  [RaceNext]_raceVars
<1>1. ASSUME NEW p \in Process, Body(p)
      PROVE  \/ UNCHANGED vars
             \/ AcquireRefused(p) \/ AcquireGranted(p)
             \/ pc[p] = "committing" /\ (CommitRejected(p) \/ CommitDuplicate(p) \/ CommitEffect(p))
  BY <1>1, BodyMaps DEF LockInv, CommitRejected, CommitDuplicate, CommitEffect
<1>2. CASE OwnerSteps
  <2>1. scenario \in {"free", "unfenced"} /\ UNCHANGED <<harness, stage>>
    BY <1>2 DEF OwnerSteps
  <2>2. CASE Tick /\ UNCHANGED lines
    BY <2>1, <2>2 DEF RaceNext, FreeSteps, UnfencedSteps, Next
  <2>3. ASSUME NEW p \in Process, UNCHANGED lines,
               \/ \E w \in WorkerId, s \in Step : CallAcquire(p, w, s)
               \/ Report(p) \/ Crash(p)
               \/ scenario = "free" /\ CallCommit(p)
        PROVE  RaceNext
    BY <2>1, <2>3 DEF RaceNext, FreeSteps, UnfencedSteps, Next, Worker
  <2>4. ASSUME NEW p \in Process, UNCHANGED lines, Body(p)
        PROVE  [RaceNext]_raceVars
    <3>1. CASE UNCHANGED vars
      BY <2>1, <2>4, <3>1 DEF raceVars
    <3>2. CASE AcquireRefused(p) \/ AcquireGranted(p)
      BY <2>1, <2>4, <3>2 DEF RaceNext, FreeSteps, UnfencedSteps, Next, Worker
    <3>3. CASE pc[p] = "committing" /\ (CommitRejected(p) \/ CommitDuplicate(p) \/ CommitEffect(p))
      <4>1. scenario = "free"
        BY <2>1, <3>3 DEF LockInv, NeverFenced
      <4> QED
        BY <2>1, <2>4, <3>3, <4>1 DEF RaceNext, FreeSteps, Next, Worker
    <3> QED
      BY <1>1, <2>4, <3>1, <3>2, <3>3
  <2>5. ASSUME NEW p \in Process, scenario = "unfenced", CommitUnfenced(p)
        PROVE  RaceNext
    BY <2>1, <2>5 DEF RaceNext, UnfencedSteps
  <2> QED
    BY <1>2, <2>2, <2>3, <2>4, <2>5 DEF OwnerSteps
<1>3. CASE HarnessSteps
  <2>1. scenario \in {"baseline", "leased"}
    BY <1>3 DEF HarnessSteps
  <2>2. CASE StartProcess \/ Joined \/ JoinTimesOut
    BY <2>1, <2>2 DEF RaceNext, PairSteps
  <2>3. ASSUME NEW p \in Process, Barrier(p) \/ BaselineCommits(p) \/ LeasedReports(p) \/ Dies(p)
        PROVE  RaceNext
    BY <2>1, <2>3 DEF RaceNext, PairSteps
  <2>4. ASSUME NEW p \in Process, LeasedBody(p)
        PROVE  [RaceNext]_raceVars
    <3>1. /\ scenario = "leased" /\ stage[p] = "passed" /\ UNCHANGED <<harness, stage, lines>>
          /\ Body(p) \/ LeasedCalls(p)
      BY <2>4 DEF LeasedBody
    <3>2. CASE UNCHANGED vars
      BY <3>1, <3>2 DEF raceVars
    <3>3. CASE ~ UNCHANGED vars
      <4>1. LeasedWorks(p)
        BY <1>1, <3>1, <3>3 DEF LeasedWorks
      <4> QED
        BY <2>1, <4>1 DEF RaceNext, PairSteps
    <3> QED
      BY <3>2, <3>3
  <2> QED
    BY <1>3, <2>2, <2>3, <2>4 DEF HarnessSteps
<1>4. CASE UNCHANGED lockRaceVars
  BY <1>4 DEF lockRaceVars
<1> QED
  BY <1>2, <1>3, <1>4 DEF LockNext

\* A step outside the bodies of p: the files and the other processes are left alone.
Apart(p) ==
  /\ lease' = lease /\ effects' = effects
  /\ \A q \in Process \ {p} : pc'[q] = pc[q] /\ local'[q] = local[q]

LEMMA ApartSteps ==
  ASSUME TypeOK, NEW p \in Process,
         \/ \E w \in WorkerId, s \in Step : CallAcquire(p, w, s)
         \/ CallCommit(p) \/ CommitUnfenced(p) \/ Report(p) \/ Crash(p) \/ Killed(p)
         \/ UNCHANGED vars
  PROVE  Apart(p)
<1> USE DEF Apart, TypeOK, shared
<1>1. ASSUME NEW w \in WorkerId, NEW s \in Step, CallAcquire(p, w, s) PROVE Apart(p)
  <2>1. PICK c : local' = [local EXCEPT ![p] = c]
    BY <1>1 DEF CallAcquire
  <2> QED
    BY <1>1, <2>1 DEF CallAcquire
<1>2. CASE CallCommit(p)
  <2>1. PICK now : local' = [local EXCEPT ![p].now = now]
    BY <1>2 DEF CallCommit
  <2> QED
    BY <1>2, <2>1 DEF CallCommit
<1>3. CASE CommitUnfenced(p) \/ Report(p) \/ Crash(p) \/ Killed(p)
  BY <1>3 DEF CommitUnfenced, Report, Crash, Killed
<1>4. CASE UNCHANGED vars
  BY <1>4 DEF vars
<1> QED
  BY <1>1, <1>2, <1>3, <1>4

\* What q knows is not disturbed by a step that leaves q alone, and the files too if q is
\* in a body.
LEMMA KnowsKept ==
  ASSUME NEW q \in Process, Knows(q),
         pc'[q] = pc[q], local'[q] = local[q], at'[q] = at[q], memory'[q] = memory[q],
         at[q] # "outside" => lease' = lease /\ effects' = effects,
         holder' = q <=> holder = q
  PROVE  Knows(q)'
  BY DEF Knows, Authoritative

\* Who is outside knows nothing, and needs to know nothing.
LEMMA OutsideKnows ==
  ASSUME NEW q \in Process, at'[q] = "outside", holder' # q
  PROVE  Knows(q)'
  BY DEF Knows

\* A step apart from the bodies, by a process outside or one that loses the lock with its life.
LEMMA ApartKeeps ==
  ASSUME LockInv, NEW p \in Process, Apart(p), Outside(p) \/ Dropped(p)
  PROVE  /\ holder' \in Process \cup {None}
         /\ at' \in [Process -> {"outside", "locked", "has lease", "has effects", "leaving"}]
         /\ memory' = [q \in Process |-> memory'[q]]
         /\ \A q \in Process : Knows(q)'
<1> USE DEF LockInv, Outside, Dropped, lockVars
<1>1. /\ holder' \in Process \cup {None}
      /\ at' \in [Process -> {"outside", "locked", "has lease", "has effects", "leaving"}]
      /\ memory' = [q \in Process |-> memory'[q]]
  OBVIOUS
<1>2. at'[p] = "outside" /\ holder' # p
  BY LockParameters DEF Knows
<1>3. ASSUME NEW q \in Process \ {p} PROVE Knows(q)'
  <2>1. at'[q] = at[q] /\ memory'[q] = memory[q] /\ (holder' = q <=> holder = q)
    BY LockParameters
  <2> QED
    BY <2>1, KnowsKept DEF Apart
<1> QED
  BY <1>1, <1>2, <1>3, OutsideKnows

\* Under the lock only its holder reads and replaces the files.
LEMMA BodyKeeps ==
  ASSUME TypeOK, LockInv, NEW p \in Process, Body(p)
  PROVE  /\ holder' \in Process \cup {None}
         /\ at' \in [Process -> {"outside", "locked", "has lease", "has effects", "leaving"}]
         /\ memory' = [q \in Process |-> memory'[q]]
         /\ \A q \in Process : Knows(q)'
<1>1. /\ holder' \in Process \cup {None}
      /\ at' \in [Process -> {"outside", "locked", "has lease", "has effects", "leaving"}]
      /\ memory' = [q \in Process |-> memory'[q]]
  BY DEF LockInv, Body, Lock, ReadLease, ReadEffects, Reads, RefuseLease, ReplaceLease,
         RejectCommit, FindDuplicate, ReplaceEffects, Returns, Unlock
<1>2. \A q \in Process : Knows(q)
  BY DEF LockInv
<1>3. holder = p \/ (holder = None /\ Lock(p))
  BY <1>2 DEF Body, Lock, ReadLease, ReadEffects, RefuseLease, ReplaceLease,
         RejectCommit, FindDuplicate, ReplaceEffects, Unlock, Knows
<1>4. holder' = p \/ (holder' = None /\ Unlock(p))
  BY <1>3 DEF Body, Lock, ReadLease, ReadEffects, Reads, RefuseLease, ReplaceLease,
         RejectCommit, FindDuplicate, ReplaceEffects, Returns, Unlock
<1>5. ASSUME NEW q \in Process \ {p} PROVE Knows(q)'
  <2>1. at'[q] = at[q] /\ pc'[q] = pc[q] /\ local'[q] = local[q] /\ memory'[q] = memory[q]
    BY DEF LockInv, TypeOK, Body, Lock, ReadLease, ReadEffects, Reads, RefuseLease, ReplaceLease,
           RejectCommit, FindDuplicate, ReplaceEffects, Returns, Unlock, Answer, vars
  <2>2. holder # q /\ holder' # q
    BY <1>3, <1>4, LockParameters
  <2>3. at[q] = "outside"
    BY <1>2, <2>2 DEF Knows
  <2> QED
    BY <1>2, <2>1, <2>2, <2>3, KnowsKept
<1>6. Knows(p)'
  <2> USE DEF LockInv, TypeOK
  <2>1. CASE Lock(p)
    BY <2>1, LockParameters DEF Lock, Knows, vars
  <2>2. CASE ReadLease(p)
    BY <1>2, <2>2 DEF ReadLease, Reads, Knows, vars, shared
  <2>3. CASE ReadEffects(p)
    <3>1. /\ holder' = p /\ at'[p] = "has effects" /\ memory'[p] = effects
          /\ UNCHANGED <<lease, effects, pc, local>>
      BY <1>2, <2>3 DEF ReadEffects, Reads, Knows, vars, shared
    <3>2. pc[p] = "committing" /\ Authoritative(lease, p)
      BY <1>2, <2>3 DEF ReadEffects, Knows
    <3> QED
      BY <3>1, <3>2 DEF Knows, Authoritative
  <2>4. CASE RefuseLease(p) \/ ReplaceLease(p) \/ RejectCommit(p) \/ FindDuplicate(p) \/ ReplaceEffects(p)
    <3>1. at'[p] = "leaving" /\ holder' = holder /\ holder = p
      BY <1>2, <2>4 DEF RefuseLease, ReplaceLease, RejectCommit, FindDuplicate, ReplaceEffects,
                        Returns, Knows
    <3> QED
      BY <3>1 DEF Knows
  <2>5. CASE Unlock(p)
    BY <2>5, LockParameters DEF Unlock, Knows
  <2> QED
    BY <2>1, <2>2, <2>3, <2>4, <2>5 DEF Body
<1> QED
  BY <1>1, <1>5, <1>6

\* Owners at the unfenced sink go on not to call the fenced one.
LEMMA NeverFencedStep ==
  ASSUME RaceTypeOK, TypeOK, NeverFenced, [RaceNext]_raceVars
  PROVE  NeverFenced'
<1> SUFFICES ASSUME scenario' = "unfenced", NEW q \in Process PROVE pc'[q] # "committing"
  BY DEF NeverFenced
<1>1. scenario = "unfenced" /\ pc[q] # "committing"
  BY RaceSteps DEF NeverFenced
<1>2. UnfencedSteps \/ UNCHANGED raceVars
  BY <1>1 DEF RaceNext, FreeSteps, PairSteps
<1> QED
  BY <1>1, <1>2 DEF UnfencedSteps, CommitUnfenced, Tick, CallAcquire, AcquireRefused,
       AcquireGranted, Report, Crash, TypeOK, raceVars, vars

\* A step of the experiment is one of a body, one apart from them, or the harness's own.
LEMMA LockStep ==
  ASSUME LockIInv, [LockNext]_lockRaceVars
  PROVE  LockIInv' /\ [RaceNext]_raceVars
<1>1. [RaceNext]_raceVars
  BY LockStepMaps DEF LockIInv
<1>2. RaceTypeOK /\ TypeOK /\ LockInv /\ NeverFenced
  BY DEF LockIInv, RaceIInv, RaceInv, LeaseInv, LockInv
<1>3. RaceIInv'
  BY <1>1, RaceLeaseStep, RaceTypeStep, UnfencedStep, TogetherStep DEF LockIInv, RaceIInv, RaceInv
<1>4. NeverFenced'
  BY <1>1, <1>2, NeverFencedStep
<1>5. ASSUME NEW p \in Process, Body(p)
      PROVE  LockIInv'
  <2>1. LockInv'
    BY <1>2, <1>4, <1>5, BodyKeeps DEF LockInv
  <2> QED
    BY <1>3, <2>1 DEF LockIInv
<1>6. ASSUME NEW p \in Process, Apart(p), Outside(p) \/ Dropped(p)
      PROVE  LockIInv'
  <2>1. LockInv'
    BY <1>2, <1>4, <1>6, ApartKeeps DEF LockInv
  <2> QED
    BY <1>3, <2>1 DEF LockIInv
<1>7. CASE UNCHANGED <<lease, effects, pc, local, lockVars>>
  <2>1. \A q \in Process : Knows(q)'
    BY <1>2, <1>7, KnowsKept DEF LockInv, lockVars
  <2>2. LockInv'
    BY <1>2, <1>4, <1>7, <2>1 DEF LockInv, lockVars
  <2> QED
    BY <1>1, <1>3, <2>2 DEF LockIInv
<1>8. CASE OwnerSteps
  <2>1. ASSUME NEW p \in Process,
               \/ (\E w \in WorkerId, s \in Step : CallAcquire(p, w, s)) /\ Outside(p)
               \/ CallCommit(p) /\ Outside(p)
               \/ CommitUnfenced(p) /\ Outside(p)
               \/ Report(p) /\ Outside(p)
               \/ Crash(p) /\ Dropped(p)
        PROVE  Apart(p) /\ (Outside(p) \/ Dropped(p))
    BY <1>2, <2>1, ApartSteps
  <2>2. CASE Tick /\ UNCHANGED lockVars
    BY <1>7, <2>2 DEF Tick, shared
  <2> QED
    BY <1>5, <1>6, <1>8, <1>1, <2>1, <2>2 DEF OwnerSteps
<1>9. CASE HarnessSteps
  <2>1. CASE (StartProcess \/ Joined) /\ UNCHANGED lockVars
    BY <1>7, <2>1 DEF StartProcess, Joined, vars, shared
  <2>2. CASE JoinTimesOut /\ Dropped(Pair[turn])
    <3>1. Pair[turn] \in Process /\ Killed(Pair[turn])
      BY <1>2, <2>2, PairFacts DEF JoinTimesOut, RaceTypeOK
    <3> QED
      BY <1>1, <1>2, <1>6, <2>2, <3>1, ApartSteps
  <2>3. ASSUME NEW p \in Process,
               \/ (Barrier(p) \/ BaselineCommits(p) \/ LeasedReports(p)) /\ Outside(p)
               \/ Dies(p) /\ Dropped(p)
               \/ LeasedCalls(p) /\ Outside(p)
        PROVE  Apart(p) /\ (Outside(p) \/ Dropped(p))
    <3>1. \/ \E w \in WorkerId, s \in Step : CallAcquire(p, w, s)
          \/ CallCommit(p) \/ Report(p) \/ Killed(p) \/ UNCHANGED vars
      <4>1. CASE LeasedCalls(p)
        BY <4>1, PairParameters DEF LeasedCalls
      <4>2. CASE ~ LeasedCalls(p)
        BY <2>3, <4>2 DEF Barrier, ArrivesAt, BaselineCommits, LeasedReports, Dies
      <4> QED
        BY <4>1, <4>2
    <3> QED
      BY <1>2, <2>3, <3>1, ApartSteps
  <2>4. ASSUME NEW p \in Process, LeasedBody(p)
        PROVE  Body(p) \/ (LeasedCalls(p) /\ Outside(p))
    BY <2>4 DEF LeasedBody
  <2> QED
    BY <1>1, <1>5, <1>6, <1>9, <2>1, <2>2, <2>3, <2>4 DEF HarnessSteps
<1>10. CASE UNCHANGED lockRaceVars
  BY <1>7, <1>10 DEF lockRaceVars, raceVars, vars, shared
<1> QED
  BY <1>1, <1>8, <1>9, <1>10 DEF LockNext

\* What a body read under the lock is what the file holds until the body ends, whoever dies
\* (_exclusive_lock).
THEOREM LockInvariant == LockSpec => []LockIInv
<1>1. LockIInv /\ [LockNext]_lockRaceVars => LockIInv'
  BY LockStep
<1> QED
  BY LockInitInv, <1>1, PTL DEF LockSpec

\* acquire and commit are atomic: one lock for the lease and for the effects makes one
\* action of each, so a stale owner cannot pass validation while a newer token is being
\* installed (LeaseStore.acquire, FencedEffectService.commit).
THEOREM CallsTakenApartAreAtomic == LockSpec => CallsAreAtomic
<1>1. LockInit => RaceInit
  BY DEF LockInit
<1>2. LockIInv /\ [LockNext]_lockRaceVars => [RaceNext]_raceVars
  BY LockStep
<1> QED
  BY <1>1, <1>2, LockInvariant, PTL DEF LockSpec, CallsAreAtomic, RaceSpec

\* So what the bodies guarantee as actions they guarantee step by step: the lease and the
\* answers, the well-formed experiment and the fenced sink.
THEOREM LeaseUnderTheLock == LockSpec => [](LeaseInv /\ RaceInv) /\ FencedSpec
<1>1. LockSpec => RaceSpec
  BY CallsTakenApartAreAtomic DEF CallsAreAtomic
<1> QED
  BY <1>1, RaceKeepsLease, RaceIsWellFormed, RaceImplementsFencedSink, PTL

\* And with one step in the store, its exclusive lease and its settled races.
THEOREM RacesUnderTheLock ==
  ASSUME \A s1, s2 \in Step : s1 = s2
  PROVE  LockSpec => [](ExclusiveStepLease /\ RacesSettle)
<1>1. LockSpec => RaceSpec
  BY CallsTakenApartAreAtomic DEF CallsAreAtomic
<1> QED
  BY <1>1, RaceLeaseIsExclusive, RacesAreSettled, PTL

\* And the suite's verdict on the pair (_lab11_comparison).
THEOREM VerdictUnderTheLock ==
  ASSUME \A s1, s2 \in Step : s1 = s2, Process = {Pair[1], Pair[2]}, Ttl > 1
  PROVE  LockSpec => []ClaimHolds
<1>1. LockSpec => RaceSpec
  BY CallsTakenApartAreAtomic DEF CallsAreAtomic
<1> QED
  BY <1>1, VerdictIsDeterminate, PTL

-----------------------------------------------------------------------------
(* What the fenced sink promises in turn                                   *)

\* The sink's effects as FencedSink and as EffectSink see them, and its epoch.
FencedEffects == [i \in DOMAIN effects |-> <<effects[i].operation_id, effects[i].token>>]
Epoch == lease.next_token - 1
PlainEffects == [i \in DOMAIN FencedEffects |-> FencedEffects[i][1]]

\* Effects of different operations in non-decreasing epochs up to the present one.
InOrder(f, e) ==
  /\ \A i \in DOMAIN f : f[i][2] <= e
  /\ \A i, j \in DOMAIN f : i <= j => f[i][2] <= f[j][2]
  /\ \A i, j \in DOMAIN f : f[i][1] = f[j][1] => i = j

SinkInv ==
  /\ Epoch \in Nat /\ FencedEffects \in Seq(Operations \X Nat)
  /\ InOrder(FencedEffects, Epoch)

\* A new effect of another operation, made in the last epoch, keeps the order.
LEMMA PerformInOrder ==
  ASSUME NEW Op, NEW e \in Nat, NEW f \in Seq(Op \X Nat), NEW op \in Op,
         InOrder(f, e), \A i \in DOMAIN f : f[i][1] # op
  PROVE  /\ Append(f, <<op, e>>) \in Seq(Op \X Nat)
         /\ InOrder(Append(f, <<op, e>>), e)
<1> DEFINE g == Append(f, <<op, e>>)
<1> USE DEF InOrder
<1> DEFINE n == Len(f) + 1
<1>1. /\ g \in Seq(Op \X Nat)
      /\ DOMAIN g = DOMAIN f \cup {n}
      /\ \A i \in DOMAIN f : i < n /\ g[i] = f[i]
      /\ g[n] = <<op, e>> /\ n \in Nat
  OBVIOUS
<1> HIDE DEF g, n
<1>2. \A i \in DOMAIN g : g[i][2] <= e
  BY <1>1
<1>3. \A i, j \in DOMAIN g : g[i][1] = g[j][1] => i = j
  BY <1>1
<1>4. ASSUME NEW i \in DOMAIN g, NEW j \in DOMAIN g, i <= j
      PROVE  g[i][2] <= g[j][2]
  <2>1. CASE j \in DOMAIN f
    <3>1. i \in DOMAIN f
      BY <1>1, <1>4, <2>1
    <3> QED
      BY <1>1, <1>4, <2>1, <3>1
  <2>2. CASE j = n
    BY <1>1, <1>2, <2>2
  <2> QED
    BY <1>1, <2>1, <2>2
<1> QED
  BY <1>1, <1>2, <1>3, <1>4 DEF g

\* Leaving out the epochs of a sequence of effects, and of one more effect.
LEMMA EpochsForgotten ==
  ASSUME NEW Op, NEW e \in Nat, NEW f \in Seq(Op \X Nat), NEW op \in Op,
         NEW g, g = Append(f, <<op, e>>)
  PROVE  [i \in DOMAIN g |-> g[i][1]] = Append([i \in DOMAIN f |-> f[i][1]], op)
<1> DEFINE n == Len(f) + 1
           ops == [i \in DOMAIN f |-> f[i][1]]
           more == [i \in DOMAIN g |-> g[i][1]]
<1>1. /\ DOMAIN g = 1 .. n
      /\ \A i \in DOMAIN f : i # n /\ g[i] = f[i]
      /\ g[n] = <<op, e>> /\ n \in Nat
      /\ DOMAIN f = 1 .. Len(f) /\ Len(f) \in Nat
  OBVIOUS
<1>2. ops \in [1 .. Len(f) -> Op]
  BY <1>1
<1>3. ops \in Seq(Op) /\ Len(ops) = Len(f)
  <2> HIDE DEF ops
  <2>1. Len(f) \in Nat
    BY <1>1
  <2>2. \A m \in Nat : \A h \in [1 .. m -> Op] : h \in Seq(Op) /\ Len(h) = m
    OBVIOUS
  <2> QED
    BY <1>2, <2>1, <2>2
<1>4. /\ Append(ops, op) \in Seq(Op) /\ DOMAIN Append(ops, op) = 1 .. n
      /\ \A i \in DOMAIN f : Append(ops, op)[i] = ops[i]
      /\ Append(ops, op)[n] = op
  <2> HIDE DEF ops
  <2> QED
    BY <1>1, <1>3
<1>5. \A i \in 1 .. n : more[i] = Append(ops, op)[i]
  <2> TAKE i \in 1 .. n
  <2>1. i \in DOMAIN f \/ i = n
    BY <1>1
  <2> QED
    BY <1>1, <1>4, <2>1
<1>6. more \in [1 .. n -> Op]
  BY <1>1
<1>7. Append(ops, op) \in [1 .. n -> Op]
  <2> DEFINE q == Append(ops, op)
  <2>1. q \in Seq(Op) /\ Len(q) = n
    <3> HIDE DEF ops
    <3> QED
      BY <1>1, <1>3
  <2> HIDE DEF q, n
  <2>2. q \in [1 .. n -> Op]
    BY <2>1
  <2> QED
    BY <2>2 DEF q
<1> HIDE DEF more, ops
<1>8. more = Append(ops, op)
  BY <1>5, <1>6, <1>7
<1> QED
  BY <1>8 DEF more, ops

\* The strengthening is kept by grants and by effects.
LEMMA SinkStep ==
  ASSUME SinkInv, [Fenced!Next]_(Fenced!vars)
  PROVE  SinkInv'
<1>1. CASE Fenced!Grant
  <2>1. Epoch' = Epoch + 1 /\ FencedEffects' = FencedEffects
    BY <1>1 DEF Fenced!Grant, Epoch, FencedEffects
  <2> QED
    BY <2>1 DEF SinkInv, InOrder
<1>2. ASSUME NEW op \in Operations, Fenced!Perform(op)
      PROVE  SinkInv'
  <2>1. Epoch' = Epoch /\ FencedEffects' = Append(FencedEffects, <<op, Epoch>>)
    BY <1>2 DEF Fenced!Perform, Epoch, FencedEffects
  <2>2. \A i \in DOMAIN FencedEffects : FencedEffects[i][1] # op
    BY <1>2 DEF Fenced!Perform, Fenced!Performed, FencedEffects
  <2>3. /\ Append(FencedEffects, <<op, Epoch>>) \in Seq(Operations \X Nat)
        /\ InOrder(Append(FencedEffects, <<op, Epoch>>), Epoch)
    BY <2>2, PerformInOrder DEF SinkInv
  <2> QED
    BY <2>1, <2>3 DEF SinkInv
<1>3. CASE UNCHANGED Fenced!vars
  <2>1. Epoch' = Epoch /\ FencedEffects' = FencedEffects
    BY <1>3 DEF Fenced!vars, Epoch, FencedEffects
  <2> QED
    BY <2>1 DEF SinkInv
<1> QED
  BY <1>1, <1>2, <1>3 DEF Fenced!Next

\* The sink is fresh.
LEMMA SinkInit ==
  ASSUME Fenced!Init
  PROVE  SinkInv /\ Fenced!Sink!Init
<1>1. Epoch = 0 /\ FencedEffects = <<>>
  BY DEF Fenced!Init, Epoch, FencedEffects
<1>2. PlainEffects = <<>>
  BY <1>1 DEF PlainEffects
<1> QED
  BY <1>1, <1>2 DEF SinkInv, InOrder, Fenced!Sink!Init, PlainEffects, FencedEffects

\* Whatever implements the fenced sink makes at most one effect per operation, and a
\* superseded epoch never acts after its successor (FencedEffectService).
THEOREM SinkInvariant == FencedSpec => [](Fenced!AtMostOnce /\ Fenced!EpochsInOrder)
<1>1. SinkInv => Fenced!AtMostOnce /\ Fenced!EpochsInOrder
  BY DEF SinkInv, InOrder, FencedEffects, Fenced!AtMostOnce, Fenced!EpochsInOrder
<1> QED
  BY <1>1, SinkInit, SinkStep, PTL DEF FencedSpec, Fenced!Spec

\* Forgetting the epochs leaves EffectSink: fencing adds an order of owners to the
\* at-most-once sink that the other labs provide, and takes nothing away.
THEOREM ImplementsEffectSink == FencedSpec => Fenced!Sink!Spec
<1>2. SinkInv /\ [Fenced!Next]_(Fenced!vars) => SinkInv' /\ [Fenced!Sink!Next]_PlainEffects
  <2> SUFFICES ASSUME SinkInv, [Fenced!Next]_(Fenced!vars)
               PROVE  [Fenced!Sink!Next]_PlainEffects
    BY SinkStep
  <2>1. CASE Fenced!Grant
    BY <2>1 DEF Fenced!Grant, PlainEffects, FencedEffects
  <2>2. ASSUME NEW op \in Operations, Fenced!Perform(op)
        PROVE  Fenced!Sink!Perform(op)
    <3>1. FencedEffects' = Append(FencedEffects, <<op, Epoch>>)
      BY <2>2 DEF Fenced!Perform, Epoch, FencedEffects
    <3>2. PlainEffects' = Append(PlainEffects, op)
      <4>1. Epoch \in Nat /\ FencedEffects \in Seq(Operations \X Nat)
        BY DEF SinkInv
      <4> QED
        BY <3>1, <4>1, EpochsForgotten DEF PlainEffects
    <3>3. \A i \in DOMAIN PlainEffects : PlainEffects[i] # op
      BY <2>2 DEF Fenced!Perform, Fenced!Performed, PlainEffects, FencedEffects
    <3> QED
      BY <3>2, <3>3 DEF Fenced!Sink!Perform, Fenced!Sink!Performed, PlainEffects, FencedEffects
  <2>3. CASE UNCHANGED Fenced!vars
    BY <2>3 DEF Fenced!vars, PlainEffects, FencedEffects
  <2> QED
    BY <2>1, <2>2, <2>3 DEF Fenced!Next, Fenced!Sink!Next
<1> QED
  BY <1>2, SinkInit, PTL DEF FencedSpec, Fenced!Spec, Fenced!Sink!Spec, PlainEffects, FencedEffects
=============================================================================
