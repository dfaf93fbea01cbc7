--------------------------- MODULE KeyedWriteProofs ---------------------------
(***************************************************************************)
(* Proofs about ToolGateway and SafeWrite, the labs that write through a   *)
(* service with idempotency keys, for every set of callers, actions and    *)
(* keys and every number of calls and attempts: what they promise about    *)
(* the writes, and that both services are the at-most-once sink.  The two  *)
(* share the lemmas about the keyed writes, so they share this module:     *)
(* SafeWrite is an instance, with a state of its own but for pc and        *)
(* writes, which only have the same names.                                 *)
(***************************************************************************)
EXTENDS ToolGateway, FiniteSetTheorems, TLAPS

CONSTANT MaxAttempts

VARIABLES key, by_key, attempt, result, lost

Safe == INSTANCE SafeWrite WITH NoKey <- Bad

-----------------------------------------------------------------------------
(* Sequences and their selected elements                                   *)

\* What Append keeps of a sequence, and what it adds.
LEMMA AppendFacts ==
  ASSUME NEW S, NEW q \in Seq(S), NEW e \in S
  PROVE  /\ Append(q, e) \in Seq(S) /\ Len(Append(q, e)) = Len(q) + 1
         /\ Len(q) \in Nat /\ DOMAIN q = 1 .. Len(q) /\ Len(q) + 1 \notin DOMAIN q
         /\ DOMAIN Append(q, e) = DOMAIN q \cup {Len(q) + 1}
         /\ \A i \in DOMAIN q : Append(q, e)[i] = q[i]
         /\ Append(q, e)[Len(q) + 1] = e
  OBVIOUS

\* The selected places are finitely many, and an appended element is one more of
\* them if it is in the set.
LEMMA PlacesAppended ==
  ASSUME NEW U, NEW q \in Seq(U), NEW e \in U, NEW S
  PROVE  /\ IsFiniteSet(Places(q, S)) /\ Cardinality(Places(q, S)) \in Nat
         /\ Places(q, S) \subseteq DOMAIN q
         /\ e \in S =>
              /\ Places(Append(q, e), S) = Places(q, S) \cup {Len(q) + 1}
              /\ Cardinality(Places(Append(q, e), S)) = Cardinality(Places(q, S)) + 1
         /\ e \notin S => Places(Append(q, e), S) = Places(q, S)
<1>1. IsFiniteSet(DOMAIN q)
  BY AppendFacts, FS_Interval
<1>2. Places(q, S) \subseteq DOMAIN q
  BY DEF Places
<1>3. IsFiniteSet(Places(q, S)) /\ Cardinality(Places(q, S)) \in Nat
  BY <1>1, <1>2, FS_Subset, FS_CardinalityType
<1>4. e \notin S => Places(Append(q, e), S) = Places(q, S)
  BY AppendFacts DEF Places
<1>5. e \in S => Places(Append(q, e), S) = Places(q, S) \cup {Len(q) + 1}
  BY AppendFacts DEF Places
<1>6. Len(q) + 1 \notin Places(q, S)
  BY AppendFacts DEF Places
<1>7. Cardinality(Places(q, S) \cup {Len(q) + 1}) = Cardinality(Places(q, S)) + 1
  BY <1>3, <1>6, FS_AddElement
<1> QED
  BY <1>2, <1>3, <1>4, <1>5, <1>7

\* Every selected element has its place.
Counted(q, S) ==
  \A n \in 1 .. Cardinality(Places(q, S)) : Nth(q, S, n) # {}

\* The place that an appended element of S takes is the next one, and the others
\* keep theirs.
LEMMA NthAppended ==
  ASSUME NEW U, NEW q \in Seq(U), NEW e \in U, NEW S, Counted(q, S)
  PROVE  LET more == Append(q, e)
             c == Cardinality(Places(q, S)) IN
         /\ c \in Nat
         /\ \A n \in 1 .. c : Nth(more, S, n) = Nth(q, S, n)
         /\ e \in S => Nth(more, S, c + 1) = {Len(q) + 1}
         /\ Counted(more, S)
<1> DEFINE more == Append(q, e)
           c == Cardinality(Places(q, S))
           new == Len(q) + 1
<1>1. /\ IsFiniteSet(Places(q, S)) /\ c \in Nat /\ Places(q, S) \subseteq DOMAIN q
      /\ e \in S => Places(more, S) = Places(q, S) \cup {new} /\ Cardinality(Places(more, S)) = c + 1
      /\ e \notin S => Places(more, S) = Places(q, S)
  BY PlacesAppended
<1>2. DOMAIN q = 1 .. Len(q) /\ Len(q) \in Nat /\ new \notin DOMAIN q
  BY AppendFacts
<1> HIDE DEF more, c
<1>3. ASSUME NEW i \in Places(q, S)
      PROVE  PlacesUpTo(more, S, i) = PlacesUpTo(q, S, i)
  BY <1>1, <1>2 DEF PlacesUpTo
<1>4. ASSUME NEW i \in Places(q, S)
      PROVE  Cardinality(PlacesUpTo(q, S, i)) \in Nat /\ Cardinality(PlacesUpTo(q, S, i)) <= c
  <2>1. PlacesUpTo(q, S, i) \subseteq Places(q, S)
    BY DEF PlacesUpTo
  <2> QED
    BY <1>1, <2>1, FS_Subset, FS_CardinalityType DEF c
<1>5. e \in S => PlacesUpTo(more, S, new) = Places(more, S)
  BY <1>1, <1>2 DEF PlacesUpTo
<1>6. ASSUME NEW n \in 1 .. c PROVE Nth(more, S, n) = Nth(q, S, n)
  <2>1. CASE e \in S
    <3>1. Cardinality(PlacesUpTo(more, S, new)) # n
      <4>1. Cardinality(PlacesUpTo(more, S, new)) = c + 1
        BY <1>1, <1>5, <2>1
      <4> QED
        BY <1>1, <4>1
    <3>2. \A i \in Places(q, S) :
            i \in Nth(more, S, n) <=> i \in Nth(q, S, n)
      BY <1>1, <1>3, <2>1 DEF Nth
    <3> QED
      BY <1>1, <2>1, <3>1, <3>2 DEF Nth
  <2>2. CASE e \notin S
    BY <1>1, <1>3, <2>2 DEF Nth
  <2> QED
    BY <2>1, <2>2
<1>7. ASSUME e \in S PROVE Nth(more, S, c + 1) = {new}
  <2>1. new \in Nth(more, S, c + 1)
    BY <1>1, <1>5, <1>7 DEF Nth
  <2>2. \A i \in Places(q, S) : i \notin Nth(more, S, c + 1)
    BY <1>1, <1>3, <1>4 DEF Nth
  <2> QED
    BY <1>1, <1>7, <2>1, <2>2 DEF Nth
<1>8. Counted(more, S)
  <2> SUFFICES ASSUME NEW n \in 1 .. Cardinality(Places(more, S)) PROVE Nth(more, S, n) # {}
    BY DEF Counted
  <2>1. CASE n \in 1 .. c
    BY <1>6, <2>1 DEF Counted, c
  <2>2. CASE n \notin 1 .. c
    <3>1. e \in S /\ n = c + 1
      BY <1>1, <2>2 DEF c
    <3> QED
      BY <1>7, <3>1
  <2> QED
    BY <2>1, <2>2
<1> QED
  BY <1>1, <1>6, <1>7, <1>8 DEF more, c

\* The selected elements are elements of the sequence, and an appended one is
\* appended to them, or they stay the same.
LEMMA SelectedAppended ==
  ASSUME NEW U, NEW q \in Seq(U), NEW e \in U, NEW S, Counted(q, S)
  PROVE  LET more == Append(q, e)
             c == Cardinality(Places(q, S)) IN
         /\ c \in Nat /\ DOMAIN Selected(q, S) = 1 .. c
         /\ \A n \in 1 .. c : \E i \in DOMAIN q : q[i] \in S /\ Selected(q, S)[n] = q[i]
         /\ e \notin S => Selected(more, S) = Selected(q, S)
         /\ e \in S => /\ DOMAIN Selected(more, S) = 1 .. c + 1
                       /\ \A n \in 1 .. c : Selected(more, S)[n] = Selected(q, S)[n]
                       /\ Selected(more, S)[c + 1] = e
<1> DEFINE more == Append(q, e)
           c == Cardinality(Places(q, S))
           new == Len(q) + 1
<1>1. /\ c \in Nat
      /\ \A n \in 1 .. c : Nth(more, S, n) = Nth(q, S, n)
      /\ e \in S => Nth(more, S, c + 1) = {new} /\ Cardinality(Places(more, S)) = c + 1
      /\ e \notin S => Cardinality(Places(more, S)) = c
  BY NthAppended, PlacesAppended
<1>2. \A i \in DOMAIN q : more[i] = q[i]
  BY AppendFacts
<1>3. more[new] = e
  BY AppendFacts
<1> HIDE DEF more, new
<1>4. ASSUME NEW n \in 1 .. c
      PROVE  /\ NthPlace(q, S, n) \in DOMAIN q /\ q[NthPlace(q, S, n)] \in S
             /\ NthPlace(more, S, n) = NthPlace(q, S, n)
  <2>1. NthPlace(q, S, n) \in Nth(q, S, n)
    BY DEF Counted, NthPlace
  <2>2. NthPlace(more, S, n) = NthPlace(q, S, n)
    BY <1>1 DEF NthPlace
  <2> QED
    BY <2>1, <2>2 DEF Nth, Places
<1>5. e \in S => NthPlace(more, S, c + 1) = new
  BY <1>1 DEF NthPlace
<1>6. /\ Selected(q, S) = [n \in 1 .. c |-> q[NthPlace(q, S, n)]]
      /\ e \in S => Selected(more, S) = [n \in 1 .. c + 1 |-> more[NthPlace(more, S, n)]]
      /\ e \notin S => Selected(more, S) = [n \in 1 .. c |-> more[NthPlace(more, S, n)]]
  BY <1>1 DEF Selected
<1> HIDE DEF c
<1>7. \A n \in 1 .. c : more[NthPlace(more, S, n)] = q[NthPlace(q, S, n)]
  BY <1>2, <1>4
<1>8. \A n \in 1 .. c : \E i \in DOMAIN q : q[i] \in S /\ Selected(q, S)[n] = q[i]
  BY <1>4, <1>6
<1>9. e \notin S => Selected(more, S) = Selected(q, S)
  BY <1>6, <1>7
<1>10. ASSUME e \in S
       PROVE  /\ DOMAIN Selected(more, S) = 1 .. c + 1
              /\ \A n \in 1 .. c : Selected(more, S)[n] = Selected(q, S)[n]
              /\ Selected(more, S)[c + 1] = e
  <2>1. /\ DOMAIN Selected(more, S) = 1 .. c + 1
        /\ \A n \in 1 .. c + 1 : Selected(more, S)[n] = more[NthPlace(more, S, n)]
    BY <1>6, <1>10
  <2>2. c + 1 \in 1 .. c + 1 /\ \A n \in 1 .. c : n \in 1 .. c + 1
    BY <1>1
  <2> QED
    BY <1>3, <1>5, <1>6, <1>7, <1>10, <2>1, <2>2
<1>11. DOMAIN Selected(q, S) = 1 .. c
  BY <1>6
<1> QED
  BY <1>1, <1>8, <1>9, <1>10, <1>11 DEF more, c

\* A write under a key, and the keys of such writes in order: the effects of Sink.
KeyedType == [caller : Caller, key : Key]
KeysOf(q) == [n \in DOMAIN Selected(q, KeyedType) |-> Selected(q, KeyedType)[n].key]

\* A write under a new key is one more effect of the at-most-once sink, and a write
\* without a key is none.
LEMMA KeysAppended ==
  ASSUME NEW U, NEW q \in Seq(U), NEW e \in U, Counted(q, KeyedType)
  PROVE  /\ e \notin KeyedType => KeysOf(Append(q, e)) = KeysOf(q)
         /\ e \in KeyedType => KeysOf(Append(q, e)) = Append(KeysOf(q), e.key)
         /\ \A n \in DOMAIN KeysOf(q) :
              \E i \in DOMAIN q : q[i] \in KeyedType /\ KeysOf(q)[n] = q[i].key
<1> DEFINE c == Cardinality(Places(q, KeyedType))
           more == Append(q, e)
           sel == Selected(q, KeyedType)
           next == Selected(more, KeyedType)
<1>1. /\ c \in Nat /\ DOMAIN sel = 1 .. c
      /\ \A n \in 1 .. c : \E i \in DOMAIN q : q[i] \in KeyedType /\ sel[n] = q[i]
      /\ e \notin KeyedType => next = sel
      /\ e \in KeyedType => /\ DOMAIN next = 1 .. c + 1
                            /\ \A n \in 1 .. c : next[n] = sel[n]
                            /\ next[c + 1] = e
  BY SelectedAppended
<1>2. KeysOf(q) = [n \in DOMAIN sel |-> sel[n].key] /\ KeysOf(more) = [n \in DOMAIN next |-> next[n].key]
  BY DEF KeysOf
<1> HIDE DEF c, more, sel, next
<1>3. e \notin KeyedType => KeysOf(more) = KeysOf(q)
  BY <1>1, <1>2
<1>4. \A n \in DOMAIN KeysOf(q) : \E i \in DOMAIN q : q[i] \in KeyedType /\ KeysOf(q)[n] = q[i].key
  BY <1>1, <1>2
<1>5. ASSUME e \in KeyedType PROVE KeysOf(more) = Append(KeysOf(q), e.key)
  <2>1. e.key \in Key /\ \A n \in 1 .. c : sel[n].key \in Key
    BY <1>1, <1>5 DEF KeyedType
  <2>2. KeysOf(q) \in [1 .. c -> Key]
    BY <1>1, <1>2, <2>1
  <2>3. KeysOf(q) \in Seq(Key) /\ Len(KeysOf(q)) = c
    BY <1>1, <2>2
  <2>4. /\ DOMAIN Append(KeysOf(q), e.key) = 1 .. c + 1
        /\ \A n \in 1 .. c : Append(KeysOf(q), e.key)[n] = sel[n].key
        /\ Append(KeysOf(q), e.key)[c + 1] = e.key
        /\ Append(KeysOf(q), e.key) \in Seq(Key)
    BY <1>1, <1>2, <2>1, <2>3
  <2>5. /\ DOMAIN KeysOf(more) = 1 .. c + 1
        /\ \A n \in 1 .. c : KeysOf(more)[n] = sel[n].key
        /\ KeysOf(more)[c + 1] = e.key
    BY <1>1, <1>2, <1>5
  <2>6. KeysOf(more) = [n \in 1 .. c + 1 |-> KeysOf(more)[n]]
    BY <1>1, <1>2, <1>5
  <2>7. Append(KeysOf(q), e.key) = [n \in 1 .. c + 1 |-> Append(KeysOf(q), e.key)[n]]
    <3> DEFINE a == Append(KeysOf(q), e.key)
    <3>1. a \in Seq(Key) /\ Len(a) = c + 1
      BY <2>1, <2>3
    <3> HIDE DEF a
    <3>2. a = [n \in 1 .. c + 1 |-> a[n]]
      BY <3>1
    <3> QED
      BY <3>2 DEF a
  <2>8. \A n \in 1 .. c + 1 : KeysOf(more)[n] = Append(KeysOf(q), e.key)[n]
    BY <1>1, <2>4, <2>5
  <2> QED
    BY <2>6, <2>7, <2>8
<1> QED
  BY <1>3, <1>4, <1>5 DEF more

-----------------------------------------------------------------------------
(* The gateway: the inductive invariant                                    *)

\* The index of the service is of its keyed writes: one write for each key.
IndexIsOfWrites ==
  /\ \A k \in Key : results[k] # 0 => writes[results[k]].key = k
  /\ \A i \in DOMAIN writes : writes[i].key # Bad => results[writes[i].key] = i

\* A call of the gateway that was begun was checked, and so was one that is audited as
\* allowed.
CallsWereChecked ==
  /\ \A c \in Caller :
       /\ pc[c] = "ready" => calls[c] < MaxCalls
       /\ ~ request[c].direct /\ pc[c] \notin {"ready", "denied"} => Verdict(request[c]) = "valid"
       /\ pc[c] \in {"written", "answered"} => request[c].key # Unhashable
  /\ \A i \in DOMAIN audit : audit[i].allowed => request[audit[i].caller].key \in Key

IInv ==
  /\ GatewayInv /\ NoEffectBehindTimeout /\ CallsAccountedFor
  /\ IndexIsOfWrites /\ CallsWereChecked /\ Counted(writes, KeyedType)

PlaceOfCall == {"ready", "denied", "writing", "timed_out", "written", "answered", "abandoned"}

WriteType == [caller : Caller, key : Key \cup {Bad}]
EventType == [caller : Caller, allowed : BOOLEAN, reason : Reason]

\* The types, one by one.
LEMMA TypeFacts ==
  ASSUME TypeOK
  PROVE  /\ request \in [Caller -> Request]
         /\ writes \in Seq(WriteType) /\ Len(writes) \in Nat /\ DOMAIN writes = 1 .. Len(writes)
         /\ results \in [Key -> 0 .. Len(writes)] /\ answer \in [Caller -> 0 .. Len(writes)]
         /\ pc \in [Caller -> PlaceOfCall]
         /\ calls \in [Caller -> 0 .. MaxCalls] /\ abandoned \in [Caller -> Nat]
         /\ audit \in Seq(EventType) /\ Len(audit) \in Nat /\ DOMAIN audit = 1 .. Len(audit)
<1>1. /\ request \in [Caller -> Request]
      /\ writes \in Seq(WriteType)
      /\ results \in [Key -> 0 .. Len(writes)] /\ answer \in [Caller -> 0 .. Len(writes)]
      /\ pc \in [Caller -> PlaceOfCall]
      /\ calls \in [Caller -> 0 .. MaxCalls] /\ abandoned \in [Caller -> Nat]
      /\ audit \in Seq(EventType)
  BY Zenon DEF TypeOK, WriteType, EventType, PlaceOfCall
<1>2. /\ Len(writes) \in Nat /\ DOMAIN writes = 1 .. Len(writes)
      /\ Len(audit) \in Nat /\ DOMAIN audit = 1 .. Len(audit)
  BY <1>1
<1> QED
  BY <1>1, <1>2

\* What the checks of execute let through, and what they give as reasons.
LEMMA VerdictFacts ==
  ASSUME NEW r \in Request
  PROVE  /\ Verdict(r) \in (Reason \ {"allowed"}) \cup {"valid"}
         /\ Verdict(r) = "valid" =>
              /\ ~ r.direct /\ r.action \in allowed_actions
              /\ r.value = "good" /\ r.key \in Key \cup {Unhashable}
         /\ r.direct => r.key = Bad
         /\ r.key \in Key \cup {Bad, Unhashable}
  BY GatewayParameters DEF Verdict, Reason, Request

\* service.write: the earlier write under the key, a write under a new key, or one
\* without a key.
LEMMA WriteFacts ==
  ASSUME TypeOK, IndexIsOfWrites, NEW c \in Caller, Write(c)
  PROVE  LET k == request[c].key
             n == Len(writes) + 1 IN
         /\ pc[c] = "writing" /\ pc' = [pc EXCEPT ![c] = "written"]
         /\ UNCHANGED <<request, calls, audit, abandoned>>
         /\ k \in Key \cup {Bad} /\ n \in Nat /\ n # 0
         /\ \/ /\ k \in Key /\ results[k] \in DOMAIN writes
               /\ answer' = [answer EXCEPT ![c] = results[k]]
               /\ writes' = writes /\ results' = results
            \/ /\ k \in Key /\ results[k] = 0
               /\ answer' = [answer EXCEPT ![c] = n]
               /\ writes' = Append(writes, [caller |-> c, key |-> k])
               /\ results' = [results EXCEPT ![k] = n]
            \/ /\ k = Bad
               /\ answer' = [answer EXCEPT ![c] = n]
               /\ writes' = Append(writes, [caller |-> c, key |-> k])
               /\ results' = results
<1> DEFINE k == request[c].key
           n == Len(writes) + 1
<1>1. /\ pc[c] = "writing" /\ pc' = [pc EXCEPT ![c] = "written"]
      /\ UNCHANGED <<request, calls, audit, abandoned>>
      /\ k \in Key \cup {Bad} /\ n \in Nat /\ n # 0 /\ DOMAIN writes = 1 .. Len(writes)
      /\ Bad \notin Key
  BY VerdictFacts, GatewayParameters, TypeFacts DEF Write
<1>2. /\ answer' = [answer EXCEPT ![c] = IF Known(k) # 0 THEN Known(k) ELSE n]
      /\ writes' = IF Known(k) # 0 THEN writes ELSE Append(writes, [caller |-> c, key |-> k])
      /\ results' = IF k = Bad THEN results ELSE [results EXCEPT ![k] = answer'[c]]
  BY DEF Write
<1>3. answer'[c] = IF Known(k) # 0 THEN Known(k) ELSE n
  BY <1>2 DEF TypeOK
<1> HIDE DEF k, n
<1>4. CASE k = Bad
  BY <1>1, <1>2, <1>4 DEF Known, n, k
<1>5. CASE k \in Key /\ results[k] # 0
  <2>1. Known(k) = results[k] /\ results[k] \in 1 .. Len(writes)
    BY <1>1, <1>5, TypeFacts DEF Known
  <2>2. results' = [results EXCEPT ![k] = results[k]]
    BY <1>1, <1>2, <1>3, <1>5, <2>1
  <2>3. results' = results
    BY <1>5, <2>2 DEF TypeOK
  <2> QED
    BY <1>1, <1>2, <1>5, <2>1, <2>3 DEF n, k
<1>6. CASE k \in Key /\ results[k] = 0
  <2>1. Known(k) = 0
    BY <1>1, <1>6 DEF Known
  <2> QED
    BY <1>1, <1>2, <1>3, <1>6, <2>1 DEF n, k
<1> QED
  BY <1>1, <1>4, <1>5, <1>6

\* An audited event is one more of its caller and reason.
LEMMA AuditFacts ==
  ASSUME TypeOK, NEW c \in Caller, NEW r \in Reason, Audit(c, r)
  PROVE  LET e == [caller |-> c, allowed |-> r = "allowed", reason |-> r]
             n == Len(audit) + 1 IN
         /\ audit' = Append(audit, e) /\ e \in EventType /\ audit' \in Seq(EventType)
         /\ DOMAIN audit' = DOMAIN audit \cup {n} /\ n \notin DOMAIN audit
         /\ \A i \in DOMAIN audit : audit'[i] = audit[i]
         /\ audit'[n] = e
<1> DEFINE e == [caller |-> c, allowed |-> r = "allowed", reason |-> r]
<1>1. e \in EventType
  BY DEF EventType
<1>2. audit' = Append(audit, e)
  BY DEF Audit
<1> HIDE DEF e
<1> QED
  BY <1>1, <1>2, TypeFacts, AppendFacts DEF e

\* Types are preserved.
LEMMA TypeStep ==
  ASSUME IInv, [Next]_vars
  PROVE  TypeOK'
<1> USE DEF IInv, GatewayInv
<1>1. ASSUME NEW c \in Caller, Deny(c) PROVE TypeOK'
  <2>1. Verdict(request[c]) \in Reason /\ calls[c] + 1 \in 0 .. MaxCalls
    BY <1>1, VerdictFacts, GatewayBounds, TypeFacts DEF Deny, CallsWereChecked
  <2>2. audit' \in Seq(EventType)
    BY <1>1, <2>1, AuditFacts DEF Deny
  <2> QED
    BY <1>1, <2>1, <2>2 DEF Deny, TypeOK, service, EventType, PlaceOfCall
<1>2. ASSUME NEW c \in Caller, Call(c) PROVE TypeOK'
  <2>1. calls[c] + 1 \in 0 .. MaxCalls
    BY <1>2, GatewayBounds, TypeFacts DEF Call, CallsWereChecked
  <2> QED
    BY <1>2, <2>1 DEF Call, TypeOK, service, PlaceOfCall
<1>3. ASSUME NEW c \in Caller, Write(c) PROVE TypeOK'
  <2> DEFINE n == Len(writes) + 1
             e == [caller |-> c, key |-> request[c].key]
  <2>1. e \in WriteType
    BY <1>3, WriteFacts DEF WriteType
  <2>2. /\ pc' \in [Caller -> PlaceOfCall]
        /\ UNCHANGED <<request, calls, audit, abandoned>>
    BY <1>3, WriteFacts DEF TypeOK, PlaceOfCall
  <2>3. /\ writes' \in Seq(WriteType) /\ results' \in [Key -> 0 .. Len(writes')]
        /\ answer' \in [Caller -> 0 .. Len(writes')]
    <3>1. /\ writes \in Seq(WriteType) /\ results \in [Key -> 0 .. Len(writes)]
          /\ answer \in [Caller -> 0 .. Len(writes)] /\ Len(writes) \in Nat
          /\ DOMAIN writes = 1 .. Len(writes)
      BY TypeFacts
    <3>2. CASE /\ writes' = writes /\ results' = results
               /\ \E i \in DOMAIN writes : answer' = [answer EXCEPT ![c] = i]
      BY <3>1, <3>2
    <3>3. CASE /\ writes' = Append(writes, e) /\ answer' = [answer EXCEPT ![c] = n]
               /\ results' = results \/ \E k \in Key : results' = [results EXCEPT ![k] = n]
      <4>1. writes' \in Seq(WriteType) /\ Len(writes') = Len(writes) + 1
        BY <2>1, <3>1, <3>3
      <4>2. 0 .. Len(writes) \subseteq 0 .. Len(writes') /\ n \in 0 .. Len(writes')
        BY <3>1, <4>1
      <4> HIDE DEF n
      <4>3. answer' \in [Caller -> 0 .. Len(writes')]
        BY <3>1, <3>3, <4>2
      <4>4. results' \in [Key -> 0 .. Len(writes')]
        BY <3>1, <3>3, <4>2
      <4> QED
        BY <4>1, <4>3, <4>4
    <3> QED
      BY <1>3, <3>2, <3>3, WriteFacts
  <2> QED
    BY <2>2, <2>3 DEF TypeOK, WriteType, PlaceOfCall
<1>4. ASSUME NEW c \in Caller, Timeout(c) PROVE TypeOK'
  <2>1. audit' \in Seq(EventType)
    BY <1>4, AuditFacts DEF Timeout, Reason
  <2> QED
    BY <1>4, <2>1 DEF Timeout, TypeOK, service, EventType, PlaceOfCall
<1>5. ASSUME NEW c \in Caller, Return(c) PROVE TypeOK'
  <2>1. audit' \in Seq(EventType)
    BY <1>5, AuditFacts DEF Return, Reason, TypeOK, EventType
  <2> QED
    BY <1>5, <2>1 DEF Return, TypeOK, service, EventType, PlaceOfCall
<1>6. ASSUME NEW c \in Caller, Repeat(c) PROVE TypeOK'
  <2>1. 0 \in 0 .. Len(writes)
    BY TypeFacts
  <2>2. /\ pc' \in [Caller -> PlaceOfCall]
        /\ answer' \in [Caller -> 0 .. Len(writes)]
    BY <1>6, <2>1, TypeFacts DEF Repeat, PlaceOfCall
  <2> QED
    BY <1>6, <2>2 DEF Repeat, TypeOK, service, PlaceOfCall
<1>7. ASSUME NEW c \in Caller, Abandon(c) PROVE TypeOK'
  BY <1>7 DEF Abandon, TypeOK, service, PlaceOfCall
<1>8. CASE UNCHANGED vars
  BY <1>8 DEF vars, service, TypeOK
<1> QED
  BY <1>1, <1>2, <1>3, <1>4, <1>5, <1>6, <1>7, <1>8 DEF Next, Gateway

\* What an action of the call of c leaves alone in the other calls.
LEMMA OthersKeep ==
  ASSUME TypeOK, IndexIsOfWrites, NEW c \in Caller, Gateway(c) \/ Repeat(c),
         NEW d \in Caller, d # c
  PROVE  /\ pc'[d] = pc[d] /\ calls'[d] = calls[d] /\ answer'[d] = answer[d]
         /\ abandoned'[d] = abandoned[d]
<1>1. CASE Write(c)
  <2>1. answer' = [answer EXCEPT ![c] = answer'[c]]
    BY <1>1, TypeFacts DEF Write
  <2> QED
    BY <1>1, <2>1, TypeFacts DEF Write
<1>2. CASE Deny(c) \/ Call(c) \/ Timeout(c) \/ Return(c) \/ Abandon(c) \/ Repeat(c)
  BY <1>2, TypeFacts DEF Deny, Call, Timeout, Return, Abandon, Repeat
<1> QED
  BY <1>1, <1>2 DEF Gateway

\* Every action but Write leaves the service alone.
LEMMA ServiceKept ==
  ASSUME NEW c \in Caller, Gateway(c) \/ Repeat(c), ~ Write(c)
  PROVE  writes' = writes /\ results' = results
  BY DEF Gateway, Deny, Call, Timeout, Return, Abandon, Repeat, service

\* A call's request does not change.
LEMMA RequestKept ==
  ASSUME NEW c \in Caller, Gateway(c) \/ Repeat(c)
  PROVE  request' = request
  BY DEF Gateway, Deny, Call, Write, Timeout, Return, Abandon, Repeat

\* A write keeps the earlier writes and answers, and its own answer is that of its key.
LEMMA WriteKeeps ==
  ASSUME TypeOK, IndexIsOfWrites, NEW c \in Caller, Write(c)
  PROVE  /\ \A i \in DOMAIN writes : i \in DOMAIN writes' /\ writes'[i] = writes[i]
         /\ \A i \in DOMAIN writes' \ DOMAIN writes :
              i = Len(writes) + 1 /\ writes'[i] = [caller |-> c, key |-> request[c].key]
         /\ \A k \in Key : results[k] # 0 => results'[k] = results[k]
         /\ request[c].key \in Key =>
              /\ answer'[c] # 0 /\ answer'[c] = results'[request[c].key]
              /\ writes'[answer'[c]].key = request[c].key
<1> DEFINE k == request[c].key
           e == [caller |-> c, key |-> k]
           n == Len(writes) + 1
<1>1. /\ k \in Key \cup {Bad} /\ Bad \notin Key /\ n \in Nat /\ n # 0 /\ e.key = k
      /\ answer \in [Caller -> 0 .. Len(writes)] /\ results \in [Key -> 0 .. Len(writes)]
      /\ DOMAIN writes = 1 .. Len(writes) /\ Len(writes) \in Nat
  BY WriteFacts, TypeFacts, GatewayParameters
<1>2. e \in WriteType
  BY <1>1 DEF WriteType
<1>3. /\ DOMAIN Append(writes, e) = DOMAIN writes \cup {n} /\ n \notin DOMAIN writes
      /\ \A i \in DOMAIN writes : Append(writes, e)[i] = writes[i]
      /\ Append(writes, e)[n] = e
  BY <1>2, AppendFacts, TypeFacts
<1>4. \A j \in Key : results[j] # 0 => results[j] \in DOMAIN writes /\ writes[results[j]].key = j
  BY <1>1 DEF IndexIsOfWrites
<1> HIDE DEF k, n, e
<1>5. CASE /\ k \in Key /\ results[k] \in DOMAIN writes
           /\ answer' = [answer EXCEPT ![c] = results[k]]
           /\ writes' = writes /\ results' = results
  <2>1. answer'[c] = results[k] /\ results[k] # 0
    BY <1>1, <1>5
  <2> QED
    BY <1>4, <1>5, <2>1 DEF k
<1>6. CASE /\ k \in Key /\ results[k] = 0
           /\ answer' = [answer EXCEPT ![c] = n]
           /\ writes' = Append(writes, e) /\ results' = [results EXCEPT ![k] = n]
  <2>1. answer'[c] = n /\ results'[k] = n /\ writes'[n].key = k
    BY <1>1, <1>3, <1>6
  <2>2. \A j \in Key : results[j] # 0 => results'[j] = results[j]
    BY <1>1, <1>6
  <2> QED
    BY <1>1, <1>3, <1>6, <2>1, <2>2 DEF k, e, n
<1>7. CASE /\ k = Bad /\ writes' = Append(writes, e) /\ results' = results
  BY <1>1, <1>3, <1>7 DEF k, e, n
<1> QED
  BY <1>5, <1>6, <1>7, WriteFacts DEF k, n, e

\* The index stays that of the keyed writes.
LEMMA IndexStep ==
  ASSUME IInv, [Next]_vars
  PROVE  IndexIsOfWrites'
<1> USE DEF IInv, GatewayInv
<1>1. ASSUME NEW c \in Caller, Write(c) PROVE IndexIsOfWrites'
  <2> DEFINE k == request[c].key
             e == [caller |-> c, key |-> k]
             n == Len(writes) + 1
  <2>1. /\ DOMAIN writes = 1 .. Len(writes) /\ Len(writes) \in Nat /\ n # 0 /\ n \notin DOMAIN writes
        /\ \A i \in DOMAIN writes : writes[i].key \in Key \cup {Bad}
        /\ results \in [Key -> 0 .. Len(writes)] /\ k \in Key \cup {Bad} /\ Bad \notin Key
    <3>1. \A i \in DOMAIN writes : writes[i] \in WriteType
      BY TypeFacts
    <3>2. \A i \in DOMAIN writes : writes[i].key \in Key \cup {Bad}
      BY <3>1 DEF WriteType
    <3>3. DOMAIN writes = 1 .. Len(writes) /\ Len(writes) \in Nat /\ n # 0 /\ n \notin DOMAIN writes
      BY TypeFacts
    <3> QED
      BY <1>1, <3>2, <3>3, WriteFacts, TypeFacts, GatewayParameters
  <2>2. /\ \A i \in DOMAIN writes : writes'[i] = writes[i]
        /\ DOMAIN writes \subseteq DOMAIN writes'
        /\ \A i \in DOMAIN writes' \ DOMAIN writes : i = n /\ writes'[i].key = k
        /\ \A j \in Key : results[j] # 0 => results'[j] = results[j]
    BY <1>1, WriteKeeps
  <2>3. \A j \in Key : j # k => results'[j] = results[j]
    BY <1>1, <2>1, WriteFacts
  <2>4. k \in Key => results'[k] # 0 /\ writes'[results'[k]].key = k
    BY <1>1, WriteKeeps
  <2>5. \A i \in DOMAIN writes' \ DOMAIN writes : k \in Key => results'[k] = i
    <3>1. (writes' = writes) \/ (k \in Key => results'[k] = n)
      BY <1>1, <2>1, WriteFacts
    <3> QED
      BY <2>2, <3>1
  <2>6. \A i \in DOMAIN writes : writes[i].key # Bad => results[writes[i].key] = i /\ i # 0
    BY <2>1 DEF IndexIsOfWrites
  <2>7. ASSUME NEW j \in Key, results'[j] # 0 PROVE writes'[results'[j]].key = j
    <3>1. CASE j = k
      BY <2>4, <3>1
    <3>2. CASE j # k
      <4>1. results[j] \in DOMAIN writes /\ writes[results[j]].key = j
        BY <2>1, <2>3, <2>7, <3>2 DEF IndexIsOfWrites
      <4> QED
        BY <2>2, <2>3, <3>2, <4>1
    <3> QED
      BY <3>1, <3>2
  <2>8. ASSUME NEW i \in DOMAIN writes', writes'[i].key # Bad PROVE results'[writes'[i].key] = i
    <3>1. CASE i \in DOMAIN writes
      BY <2>1, <2>2, <2>6, <2>8, <3>1
    <3>2. CASE i \notin DOMAIN writes
      BY <2>1, <2>2, <2>5, <2>8, <3>2
    <3> QED
      BY <3>1, <3>2
  <2> QED
    BY <2>7, <2>8 DEF IndexIsOfWrites
<1>2. CASE writes' = writes /\ results' = results
  BY <1>2 DEF IndexIsOfWrites
<1> QED
  BY <1>1, <1>2, ServiceKept DEF Next, vars, service

-----------------------------------------------------------------------------
(* The gateway: each part of the invariant is kept                         *)

\* The audit grows by the events of the calls that end, and only Return allows.
LEMMA AuditKeeps ==
  ASSUME TypeOK, NEW c \in Caller, Gateway(c) \/ Repeat(c)
  PROVE  /\ \A i \in DOMAIN audit : i \in DOMAIN audit' /\ audit'[i] = audit[i]
         /\ \A i \in DOMAIN audit' \ DOMAIN audit :
              /\ audit'[i].caller = c /\ ~ request[c].direct
              /\ audit'[i].allowed => Return(c)
         /\ Return(c) /\ ~ request[c].direct =>
              \E i \in DOMAIN audit' : audit'[i].caller = c /\ audit'[i].reason = "allowed"
<1>1. ASSUME NEW r \in Reason, Audit(c, r), ~ request[c].direct, r = "allowed" <=> Return(c)
      PROVE  /\ \A i \in DOMAIN audit : i \in DOMAIN audit' /\ audit'[i] = audit[i]
             /\ \A i \in DOMAIN audit' \ DOMAIN audit :
                  /\ audit'[i].caller = c /\ ~ request[c].direct
                  /\ audit'[i].allowed => Return(c)
             /\ Return(c) =>
                  \E i \in DOMAIN audit' : audit'[i].caller = c /\ audit'[i].reason = "allowed"
  <2> DEFINE e == [caller |-> c, allowed |-> r = "allowed", reason |-> r]
             n == Len(audit) + 1
  <2>1. /\ DOMAIN audit' = DOMAIN audit \cup {n} /\ n \notin DOMAIN audit
        /\ \A i \in DOMAIN audit : audit'[i] = audit[i]
        /\ audit'[n] = e
    BY <1>1, AuditFacts
  <2>2. e.caller = c /\ e.reason = r
    OBVIOUS
  <2>3. e.allowed => Return(c)
    BY <1>1
  <2> HIDE DEF e, n
  <2> QED
    BY <1>1, <2>1, <2>2, <2>3
<1>2. CASE Deny(c)
  <2>1. /\ Verdict(request[c]) \in Reason \ {"allowed"} /\ ~ request[c].direct
        /\ Audit(c, Verdict(request[c]))
    BY <1>2, VerdictFacts, TypeFacts DEF Deny
  <2>2. ~ Return(c)
    BY <1>2 DEF Deny, Return
  <2> QED
    BY <1>1, <2>1, <2>2
<1>3. CASE Timeout(c)
  <2>1. Audit(c, "timeout") /\ "timeout" \in Reason /\ ~ request[c].direct /\ ~ Return(c)
    BY <1>3 DEF Timeout, Return, Reason
  <2> QED
    BY <1>1, <2>1
<1>4. CASE Return(c) /\ ~ request[c].direct
  <2>1. Audit(c, "allowed") /\ "allowed" \in Reason
    BY <1>4 DEF Return, Reason
  <2> QED
    BY <1>1, <1>4, <2>1
<1>5. CASE (Return(c) /\ request[c].direct) \/ Call(c) \/ Write(c) \/ Abandon(c) \/ Repeat(c)
  <2>1. audit' = audit
    BY <1>5 DEF Return, Call, Write, Abandon, Repeat
  <2>2. ~ (Return(c) /\ ~ request[c].direct)
    BY <1>5 DEF Return, Call, Write, Abandon, Repeat
  <2> QED
    BY <2>1, <2>2
<1> QED
  BY <1>2, <1>3, <1>4, <1>5 DEF Gateway

\* Calls are checked before they write, and have not used up their number.
LEMMA CheckedStep ==
  ASSUME IInv, [Next]_vars
  PROVE  CallsWereChecked'
<1> USE DEF IInv, GatewayInv
<1>1. ASSUME NEW c \in Caller, Gateway(c) \/ Repeat(c) PROVE CallsWereChecked'
  <2>1. request' = request
    BY <1>1, RequestKept
  <2>2. \A d \in Caller \ {c} : pc'[d] = pc[d] /\ calls'[d] = calls[d]
    BY <1>1, OthersKeep
  <2>3. /\ pc'[c] = "ready" => calls'[c] < MaxCalls
        /\ ~ request[c].direct /\ pc'[c] \notin {"ready", "denied"} => Verdict(request[c]) = "valid"
        /\ pc'[c] \in {"written", "answered"} => request[c].key # Unhashable
    BY <1>1, TypeFacts
       DEF CallsWereChecked, Gateway, Deny, Call, Write, Timeout, Return, Abandon, Repeat
  <2>4. ASSUME NEW i \in DOMAIN audit', audit'[i].allowed
        PROVE  request[audit'[i].caller].key \in Key
    <3>1. CASE i \in DOMAIN audit
      BY <1>1, <2>4, <3>1, AuditKeeps DEF CallsWereChecked
    <3>2. CASE i \notin DOMAIN audit
      <4>1. audit'[i].caller = c /\ ~ request[c].direct /\ Return(c)
        BY <1>1, <2>4, <3>2, AuditKeeps
      <4>2. Verdict(request[c]) = "valid" /\ request[c].key # Unhashable
        BY <4>1 DEF Return, CallsWereChecked
      <4> QED
        BY <4>1, <4>2, VerdictFacts, TypeFacts
    <3> QED
      BY <3>1, <3>2
  <2> QED
    BY <2>1, <2>2, <2>3, <2>4 DEF CallsWereChecked
<1>2. CASE UNCHANGED vars
  BY <1>2 DEF vars, CallsWereChecked
<1> QED
  BY <1>1, <1>2 DEF Next

\* Nothing is written for a payload that is malformed or not permitted.
LEMMA PermittedStep ==
  ASSUME IInv, [Next]_vars
  PROVE  OnlyPermittedWrites'
<1> USE DEF IInv, GatewayInv
<1>1. ASSUME NEW c \in Caller, Gateway(c) \/ Repeat(c) PROVE OnlyPermittedWrites'
  <2>1. request' = request
    BY <1>1, RequestKept
  <2>2. ASSUME NEW i \in DOMAIN writes', ~ request[writes'[i].caller].direct
        PROVE  /\ request[writes'[i].caller].action \in allowed_actions
               /\ request[writes'[i].caller].value = "good"
    <3>1. CASE i \in DOMAIN writes /\ writes'[i] = writes[i]
      BY <2>2, <3>1 DEF OnlyPermittedWrites
    <3>2. CASE i \notin DOMAIN writes \/ writes'[i] # writes[i]
      <4>1. Write(c)
        BY <1>1, <2>2, <3>2, ServiceKept
      <4>2. writes'[i].caller = c
        BY <2>2, <3>2, <4>1, WriteKeeps
      <4>3. Verdict(request[c]) = "valid"
        BY <2>2, <4>1, <4>2 DEF Write, CallsWereChecked
      <4> QED
        BY <4>2, <4>3, VerdictFacts, TypeFacts
    <3> QED
      BY <3>1, <3>2
  <2>3. \A k \in Key : results[k] # 0 => results'[k] # 0
    BY <1>1, ServiceKept, WriteKeeps
  <2>4. ASSUME NEW i \in DOMAIN audit', audit'[i].allowed
        PROVE  results'[request[audit'[i].caller].key] # 0
    <3>1. CASE i \in DOMAIN audit
      BY <1>1, <2>3, <2>4, <3>1, AuditKeeps DEF OnlyPermittedWrites, CallsWereChecked
    <3>2. CASE i \notin DOMAIN audit
      <4>1. audit'[i].caller = c /\ ~ request[c].direct /\ Return(c)
        BY <1>1, <2>4, <3>2, AuditKeeps
      <4>2. results[request[c].key] # 0
        BY <4>1 DEF Return, SameKeySameAnswer
      <4> QED
        BY <4>1, <4>2 DEF Return, service
    <3> QED
      BY <3>1, <3>2
  <2> QED
    BY <2>1, <2>2, <2>4 DEF OnlyPermittedWrites
<1>2. CASE UNCHANGED vars
  BY <1>2 DEF vars, service, OnlyPermittedWrites
<1> QED
  BY <1>1, <1>2 DEF Next

\* Nobody's answer is taken back by a write of another.
LEMMA AnswerStep ==
  ASSUME IInv, [Next]_vars
  PROVE  SameKeySameAnswer'
<1> USE DEF IInv, GatewayInv
<1>1. ASSUME NEW c \in Caller, Gateway(c) \/ Repeat(c) PROVE SameKeySameAnswer'
  <2>1. request' = request
    BY <1>1, RequestKept
  <2> SUFFICES ASSUME NEW d \in Caller, pc'[d] \in {"written", "answered"}, ~ request[d].direct
               PROVE  /\ answer'[d] # 0 /\ writes'[answer'[d]].key = request[d].key
                      /\ answer'[d] = results'[request[d].key]
    BY <2>1 DEF SameKeySameAnswer
  <2>2. CASE d = c /\ Write(c)
    <3>1. request[c].key \in Key
      BY <2>2, VerdictFacts, TypeFacts DEF Write, CallsWereChecked
    <3> QED
      BY <2>2, <3>1, WriteKeeps
  <2>3. CASE d # c \/ ~ Write(c)
    <3>1. pc[d] \in {"written", "answered"} /\ answer'[d] = answer[d]
      BY <1>1, <2>3, OthersKeep, TypeFacts DEF Gateway, Deny, Call, Timeout, Return, Abandon, Repeat
    <3>2. /\ answer[d] # 0 /\ writes[answer[d]].key = request[d].key
          /\ answer[d] = results[request[d].key]
      BY <3>1 DEF SameKeySameAnswer
    <3>3. request[d].key \in Key
      BY <3>1, VerdictFacts, TypeFacts DEF CallsWereChecked
    <3>4. answer[d] \in DOMAIN writes
      BY <3>2, TypeFacts
    <3>5. results'[request[d].key] = results[request[d].key] /\ writes'[answer[d]] = writes[answer[d]]
      BY <1>1, <3>2, <3>3, <3>4, ServiceKept, WriteKeeps
    <3> QED
      BY <3>1, <3>2, <3>5
  <2> QED
    BY <2>2, <2>3
<1>2. CASE UNCHANGED vars
  BY <1>2 DEF vars, service, SameKeySameAnswer
<1> QED
  BY <1>1, <1>2 DEF Next

\* A write stays in a call that is on its way to an "allowed" event.
LEMMA TimeoutStep ==
  ASSUME IInv, [Next]_vars
  PROVE  NoEffectBehindTimeout'
<1> USE DEF IInv, GatewayInv
<1>1. ASSUME NEW c \in Caller, Gateway(c) \/ Repeat(c) PROVE NoEffectBehindTimeout'
  <2>1. request' = request
    BY <1>1, RequestKept
  <2> SUFFICES ASSUME NEW d \in Caller, WritesOf(d)' # {}, ~ request[d].direct
               PROVE  pc'[d] = "written" \/ Events(d, "allowed")' # {}
    BY <2>1 DEF NoEffectBehindTimeout
  <2>2. CASE d = c /\ Write(c)
    BY <2>2, TypeFacts DEF Write
  <2>3. CASE d # c \/ ~ Write(c)
    <3>1. WritesOf(d) # {}
      <4>1. PICK i \in DOMAIN writes' : writes'[i].caller = d
        BY DEF WritesOf
      <4>2. i \in DOMAIN writes /\ writes'[i] = writes[i]
        BY <1>1, <2>3, <4>1, ServiceKept, WriteKeeps
      <4> QED
        BY <4>1, <4>2 DEF WritesOf
    <3>2. pc[d] = "written" \/ Events(d, "allowed") # {}
      BY <3>1 DEF NoEffectBehindTimeout
    <3>3. CASE Events(d, "allowed") # {}
      BY <1>1, <3>3, AuditKeeps DEF Events
    <3>4. CASE pc[d] = "written" /\ d = c /\ Return(c)
      BY <1>1, <3>4, AuditKeeps DEF Events
    <3>5. CASE pc[d] = "written" /\ ~ (d = c /\ Return(c))
      BY <1>1, <3>5, OthersKeep DEF Gateway, Deny, Call, Write, Timeout, Abandon, Repeat
    <3> QED
      BY <3>2, <3>3, <3>4, <3>5
  <2> QED
    BY <2>2, <2>3
<1>2. CASE UNCHANGED vars
  BY <1>2 DEF vars, service, NoEffectBehindTimeout, WritesOf, Events
<1> QED
  BY <1>1, <1>2 DEF Next

-----------------------------------------------------------------------------
(* The gateway: every call is accounted for                                *)

Audited(d) == Cardinality({i \in DOMAIN audit : audit[i].caller = d})

EventsBy(d) == {e \in EventType : e.caller = d}
WritesBy(d) == {w \in WriteType : w.caller = d}

\* Counting the events and the writes of a caller is counting selected places.
LEMMA CountsArePlaces ==
  ASSUME NEW d
  PROVE  /\ audit \in Seq(EventType) => Audited(d) = Cardinality(Places(audit, EventsBy(d)))
         /\ writes \in Seq(WriteType) => WritesOf(d) = Places(writes, WritesBy(d))
<1>1. ASSUME audit \in Seq(EventType)
      PROVE  {i \in DOMAIN audit : audit[i].caller = d} = Places(audit, EventsBy(d))
  <2>1. \A i \in DOMAIN audit : audit[i] \in EventType
    BY <1>1
  <2> QED
    BY <2>1 DEF Places, EventsBy
<1>2. ASSUME writes \in Seq(WriteType)
      PROVE  WritesOf(d) = Places(writes, WritesBy(d))
  <2>1. \A i \in DOMAIN writes : writes[i] \in WriteType
    BY <1>2
  <2> QED
    BY <2>1 DEF Places, WritesBy, WritesOf
<1> QED
  BY <1>1, <1>2 DEF Audited

\* An audited event counts for its caller.
LEMMA AuditCounted ==
  ASSUME TypeOK, NEW c \in Caller, NEW r \in Reason, Audit(c, r), NEW d \in Caller
  PROVE  /\ Audited(d) \in Nat
         /\ d = c => Audited(d)' = Audited(d) + 1
         /\ d # c => Audited(d)' = Audited(d)
<1> DEFINE e == [caller |-> c, allowed |-> r = "allowed", reason |-> r]
<1>1. /\ audit' = Append(audit, e) /\ e \in EventType /\ audit' \in Seq(EventType)
      /\ audit \in Seq(EventType)
  BY AuditFacts, TypeFacts
<1>2. e.caller = c
  OBVIOUS
<1>3. Audited(d) = Cardinality(Places(audit, EventsBy(d)))
  BY <1>1, CountsArePlaces
<1>4. Audited(d)' = Cardinality(Places(audit', EventsBy(d)))
  <2>1. \A i \in DOMAIN audit' : audit'[i] \in EventType
    BY <1>1
  <2>2. {i \in DOMAIN audit' : audit'[i].caller = d} = Places(audit', EventsBy(d))
    BY <2>1 DEF Places, EventsBy
  <2> QED
    BY <2>2 DEF Audited
<1>5. e \in EventsBy(d) <=> d = c
  BY <1>1, <1>2 DEF EventsBy
<1> HIDE DEF e
<1> QED
  BY <1>1, <1>3, <1>4, <1>5, PlacesAppended

\* A write without a key counts for its caller, and no write for another.
LEMMA WriteCounted ==
  ASSUME TypeOK, IndexIsOfWrites, NEW c \in Caller, Write(c), NEW d \in Caller
  PROVE  /\ Cardinality(WritesOf(d)) \in Nat
         /\ d = c /\ request[c].direct =>
              Cardinality(WritesOf(d)') = Cardinality(WritesOf(d)) + 1
         /\ d # c => WritesOf(d)' = WritesOf(d)
<1> DEFINE e == [caller |-> c, key |-> request[c].key]
<1>1. e \in WriteType /\ e.caller = c /\ writes \in Seq(WriteType)
  BY WriteFacts, TypeFacts DEF WriteType
<1>2. /\ writes' = writes \/ writes' = Append(writes, e)
      /\ request[c].direct => writes' = Append(writes, e)
  <2>1. request[c].direct => request[c].key = Bad /\ Bad \notin Key
    BY VerdictFacts, TypeFacts, GatewayParameters
  <2> QED
    BY <2>1, WriteFacts
<1>3. e \in WritesBy(d) <=> d = c
  BY <1>1 DEF WritesBy
<1>4. WritesOf(d) = Places(writes, WritesBy(d))
  BY <1>1, CountsArePlaces
<1> HIDE DEF e
<1>5. writes' \in Seq(WriteType)
  BY <1>1, <1>2
<1>6. WritesOf(d)' = Places(writes', WritesBy(d))
  <2>1. \A i \in DOMAIN writes' : writes'[i] \in WriteType
    BY <1>5
  <2> QED
    BY <2>1 DEF Places, WritesBy, WritesOf
<1>7. Cardinality(Places(writes, WritesBy(d))) \in Nat
  BY <1>1, PlacesAppended
<1>8. d # c => Places(Append(writes, e), WritesBy(d)) = Places(writes, WritesBy(d))
  BY <1>1, <1>3, PlacesAppended
<1>9. d = c => Cardinality(Places(Append(writes, e), WritesBy(d))) =
                 Cardinality(Places(writes, WritesBy(d))) + 1
  BY <1>1, <1>3, PlacesAppended
<1> QED
  BY <1>2, <1>4, <1>6, <1>7, <1>8, <1>9

\* Both counts are numbers.
LEMMA CountsAreNumbers ==
  ASSUME TypeOK, NEW d
  PROVE  Audited(d) \in Nat /\ Cardinality(WritesOf(d)) \in Nat
<1>1. writes \in Seq(WriteType) /\ audit \in Seq(EventType)
  BY TypeFacts
<1>2. /\ Audited(d) = Cardinality(Places(audit, EventsBy(d)))
      /\ WritesOf(d) = Places(writes, WritesBy(d))
  BY <1>1, CountsArePlaces
<1>3. IsFiniteSet(Places(audit, EventsBy(d))) /\ IsFiniteSet(Places(writes, WritesBy(d)))
  <2>1. IsFiniteSet(1 .. Len(audit)) /\ IsFiniteSet(1 .. Len(writes))
    BY TypeFacts, FS_Interval
  <2>2. /\ Places(audit, EventsBy(d)) \subseteq 1 .. Len(audit)
        /\ Places(writes, WritesBy(d)) \subseteq 1 .. Len(writes)
    BY TypeFacts DEF Places
  <2> QED
    BY <2>1, <2>2, FS_Subset
<1> QED
  BY <1>2, <1>3, FS_CardinalityType

\* The account of one call.
Account(c) ==
  IF request[c].direct
  THEN /\ Audited(c) = 0
       /\ Cardinality(WritesOf(c)) + abandoned[c] = calls[c] - (IF pc[c] = "writing" THEN 1 ELSE 0)
  ELSE Audited(c) + abandoned[c] = calls[c] - (IF pc[c] \in {"writing", "written"} THEN 1 ELSE 0)

\* Each step of a call balances its own account and leaves those of the others alone.
LEMMA AccountsStep ==
  ASSUME IInv, [Next]_vars
  PROVE  CallsAccountedFor'
<1> USE DEF IInv, GatewayInv
<1>0. \A d \in Caller : Account(d)
  BY DEF CallsAccountedFor, Account, Audited
<1>1. ASSUME NEW c \in Caller, Gateway(c) \/ Repeat(c) PROVE CallsAccountedFor'
  <2> SUFFICES ASSUME NEW d \in Caller PROVE Account(d)'
    BY DEF CallsAccountedFor, Account, Audited
  <2>1. request' = request /\ Account(d) /\ calls[d] \in Nat /\ abandoned[d] \in Nat
    BY <1>0, <1>1, RequestKept, TypeFacts
  <2>2. CASE d # c
    <3>1. pc'[d] = pc[d] /\ calls'[d] = calls[d] /\ abandoned'[d] = abandoned[d]
      BY <1>1, <2>2, OthersKeep
    <3>2. Cardinality(WritesOf(d)') = Cardinality(WritesOf(d))
      <4>1. CASE Write(c)
        BY <2>2, <4>1, WriteCounted
      <4>2. CASE ~ Write(c)
        BY <1>1, <4>2, ServiceKept DEF WritesOf
      <4> QED
        BY <4>1, <4>2
    <3>3. Audited(d)' = Audited(d)
      <4>1. audit' = audit \/ \E r \in Reason : Audit(c, r)
        <5>1. CASE Deny(c)
          BY <5>1, VerdictFacts, TypeFacts DEF Deny, Reason
        <5>2. CASE Call(c) \/ Write(c) \/ Timeout(c) \/ Return(c) \/ Abandon(c) \/ Repeat(c)
          BY <5>2 DEF Call, Write, Timeout, Return, Abandon, Repeat, Reason
        <5> QED
          BY <1>1, <5>1, <5>2 DEF Gateway
      <4>2. CASE audit' = audit
        BY <4>2 DEF Audited
      <4> QED
        BY <2>2, <4>1, <4>2, AuditCounted
    <3> QED
      BY <2>1, <3>1, <3>2, <3>3 DEF Account
  <2>3. CASE d = c /\ Deny(c)
    <3>1. Verdict(request[c]) \in Reason
      BY <2>3, VerdictFacts, TypeFacts DEF Deny
    <3>2. Audited(d)' = Audited(d) + 1 /\ Audited(d) \in Nat
      BY <2>3, <3>1, AuditCounted DEF Deny
    <3>3. /\ pc[d] = "ready" /\ pc'[d] = "denied" /\ calls'[d] = calls[d] + 1
          /\ ~ request[d].direct /\ abandoned' = abandoned
      BY <2>3, TypeFacts DEF Deny
    <3> QED
      BY <2>1, <3>2, <3>3 DEF Account
  <2>4. CASE d = c /\ Call(c)
    <3>1. /\ pc[d] = "ready" /\ pc'[d] = "writing" /\ calls'[d] = calls[d] + 1
          /\ writes' = writes /\ audit' = audit /\ abandoned' = abandoned
      BY <2>4, TypeFacts DEF Call, service
    <3>2. Audited(d)' = Audited(d) /\ WritesOf(d)' = WritesOf(d)
      BY <3>1 DEF Audited, WritesOf
    <3> QED
      BY <2>1, <3>1, <3>2 DEF Account
  <2>5. CASE d = c /\ Write(c)
    <3>1. /\ pc[d] = "writing" /\ pc'[d] = "written" /\ calls'[d] = calls[d] /\ audit' = audit
          /\ abandoned' = abandoned
      BY <2>5, TypeFacts DEF Write
    <3>2. Audited(d)' = Audited(d)
      BY <3>1 DEF Audited
    <3>3. /\ Cardinality(WritesOf(d)) \in Nat
          /\ request[d].direct => Cardinality(WritesOf(d)') = Cardinality(WritesOf(d)) + 1
      BY <2>5, WriteCounted
    <3> QED
      BY <2>1, <3>1, <3>2, <3>3 DEF Account
  <2>6. CASE d = c /\ (Timeout(c) \/ (Return(c) /\ ~ request[c].direct))
    <3>1. \E r \in Reason : Audit(c, r)
      BY <2>6 DEF Timeout, Return, Reason
    <3>2. Audited(d)' = Audited(d) + 1 /\ Audited(d) \in Nat
      BY <2>6, <3>1, AuditCounted
    <3>3. /\ pc[d] \in {"writing", "written"} /\ pc'[d] \in {"timed_out", "answered"}
          /\ calls'[d] = calls[d] /\ ~ request[d].direct /\ abandoned' = abandoned
      BY <2>6, TypeFacts DEF Timeout, Return
    <3> QED
      BY <2>1, <3>2, <3>3 DEF Account
  <2>7. CASE d = c /\ ((Return(c) /\ request[c].direct) \/ Repeat(c))
    <3>1. /\ pc[d] \in {"written", "answered", "timed_out", "abandoned"}
          /\ pc'[d] \in {"answered", "ready"} /\ abandoned' = abandoned
          /\ pc[d] # "written" \/ request[d].direct
          /\ calls'[d] = calls[d] /\ writes' = writes /\ audit' = audit
      BY <2>7, TypeFacts DEF Return, Repeat, service
    <3>2. Audited(d)' = Audited(d) /\ WritesOf(d)' = WritesOf(d)
      BY <3>1 DEF Audited, WritesOf
    <3> QED
      BY <2>1, <3>1, <3>2 DEF Account
  <2>8. CASE d = c /\ Abandon(c)
    <3>1. /\ pc[d] = "writing" /\ pc'[d] = "abandoned" /\ abandoned'[d] = abandoned[d] + 1
          /\ calls'[d] = calls[d] /\ writes' = writes /\ audit' = audit
      BY <2>8, TypeFacts DEF Abandon, service
    <3>2. Audited(d)' = Audited(d) /\ WritesOf(d)' = WritesOf(d)
      BY <3>1 DEF Audited, WritesOf
    <3>3. /\ Account(d) <=> IF request[d].direct
                           THEN Audited(d) = 0 /\ Cardinality(WritesOf(d)) + abandoned[d] = calls[d] - 1
                           ELSE Audited(d) + abandoned[d] = calls[d] - 1
          /\ Account(d)' <=> IF request[d].direct
                            THEN /\ Audited(d) = 0
                                 /\ Cardinality(WritesOf(d)) + (abandoned[d] + 1) = calls[d]
                            ELSE Audited(d) + (abandoned[d] + 1) = calls[d]
      BY <2>1, <3>1, <3>2 DEF Account
    <3>4. Cardinality(WritesOf(d)) \in Nat /\ Audited(d) \in Nat
      BY CountsAreNumbers
    <3> QED
      BY <2>1, <3>3, <3>4
  <2> QED
    BY <1>1, <2>2, <2>3, <2>4, <2>5, <2>6, <2>7, <2>8 DEF Gateway
<1>2. CASE UNCHANGED vars
  BY <1>2 DEF vars, service, CallsAccountedFor, WritesOf
<1> QED
  BY <1>1, <1>2 DEF Next

-----------------------------------------------------------------------------
(* The gateway: the theorems                                               *)

\* The writes that Sink counts keep their places.
LEMMA CountedStep ==
  ASSUME IInv, [Next]_vars
  PROVE  Counted(writes, KeyedType)'
<1> USE DEF IInv, GatewayInv
<1>1. writes' = writes \/ \E e \in WriteType : writes' = Append(writes, e)
  <2>1. ASSUME NEW c \in Caller, Write(c)
        PROVE  writes' = writes \/ \E e \in WriteType : writes' = Append(writes, e)
    BY <2>1, WriteFacts DEF WriteType
  <2> QED
    BY <2>1, ServiceKept DEF Next, vars, service
<1>2. KeyedType' = KeyedType
  BY DEF KeyedType
<1>3. CASE writes' = writes
  BY <1>2, <1>3
<1>4. ASSUME NEW e \in WriteType, writes' = Append(writes, e)
      PROVE  Counted(writes', KeyedType)
  BY <1>4, NthAppended, TypeFacts
<1> QED
  BY <1>1, <1>2, <1>3, <1>4

\* Nothing was called, written or audited.
LEMMA InitIInv == Init => IInv
<1> SUFFICES ASSUME Init PROVE IInv
  OBVIOUS
<1> USE GatewayBounds, GatewayParameters DEF Init
<1>1. TypeOK
  BY DEF TypeOK
<1>2. OnlyPermittedWrites /\ SameKeySameAnswer /\ NoEffectBehindTimeout
  BY DEF OnlyPermittedWrites, SameKeySameAnswer, NoEffectBehindTimeout, WritesOf
<1>3. IndexIsOfWrites /\ CallsWereChecked
  BY DEF IndexIsOfWrites, CallsWereChecked
<1>4. CallsAccountedFor
  <2> SUFFICES ASSUME NEW c \in Caller PROVE Account(c)
    BY DEF CallsAccountedFor, Account, Audited
  <2>1. {i \in DOMAIN audit : audit[i].caller = c} = {} /\ WritesOf(c) = {}
    BY DEF WritesOf
  <2> QED
    BY <2>1, FS_EmptySet DEF Account, Audited
<1>5. Counted(writes, KeyedType)
  <2>1. Places(writes, KeyedType) = {}
    BY DEF Places
  <2>2. Cardinality(Places(writes, KeyedType)) = 0
    BY <2>1, FS_EmptySet
  <2> QED
    BY <2>2 DEF Counted
<1> QED
  BY <1>1, <1>2, <1>3, <1>4, <1>5 DEF IInv, GatewayInv

\* The strengthening is inductive, however the calls of one event loop interleave.
THEOREM GatewayInvariant == Spec => []IInv
<1>1. IInv /\ [Next]_vars => IInv'
  BY TypeStep, PermittedStep, AnswerStep, TimeoutStep, AccountsStep, IndexStep, CheckedStep,
     CountedStep DEF IInv, GatewayInv
<1> QED
  BY <1>1, InitIInv, PTL DEF Spec

\* Nothing is written for a payload that is malformed or not permitted, and all calls
\* of one key are told of its one effect (ToolGateway.write).
THEOREM OnlyPermittedEffects == Spec => []GatewayInv
<1>1. IInv => GatewayInv
  BY DEF IInv
<1> QED
  BY <1>1, GatewayInvariant, PTL

\* A call that was only ever denied, timed out or abandoned has no write behind it.
THEOREM TimeoutsAreClean == Spec => []NoEffectBehindTimeout
<1>1. IInv => NoEffectBehindTimeout
  BY DEF IInv
<1> QED
  BY <1>1, GatewayInvariant, PTL

\* Every call of the gateway has exactly one audit event, unless it is not finished or
\* was abandoned, and every call of the direct baseline a write of its own instead.
THEOREM EveryCallIsAudited == Spec => []CallsAccountedFor
<1>1. IInv => CallsAccountedFor
  BY DEF IInv
<1> QED
  BY <1>1, GatewayInvariant, PTL

\* The keyed writes, in order, are those that Sink sees.
LEMMA SinkEffects == KeysOf(writes) = [i \in DOMAIN KeyedWrites |-> KeyedWrites[i].key]
  BY DEF KeysOf, KeyedWrites, KeyedType

\* Whatever runs at the same time, and past the gateway, the service is the at-most-once
\* sink of the idempotency keys (FakeExternalService.write).
THEOREM GatewayImplementsSink == Spec => SinkSpec
<1> DEFINE made == [i \in DOMAIN KeyedWrites |-> KeyedWrites[i].key]
<1>1. Init => Sink!Init
  <2> SUFFICES ASSUME Init PROVE made = <<>>
    BY DEF Sink!Init
  <2>1. Places(writes, KeyedType) = {}
    BY DEF Init, Places
  <2>2. Cardinality(Places(writes, KeyedType)) = 0
    BY <2>1, FS_EmptySet
  <2>3. DOMAIN Selected(writes, KeyedType) = {}
    BY <2>2 DEF Selected
  <2>4. DOMAIN made = {}
    BY <2>3 DEF KeyedWrites, KeyedType
  <2> HIDE DEF made
  <2>5. made = [i \in {} |-> made[i]]
    BY <2>4 DEF made
  <2> QED
    BY <2>5
<1>2. IInv /\ [Next]_vars => [Sink!Next]_made
  <2> SUFFICES ASSUME IInv, [Next]_vars PROVE [Sink!Next]_made
    OBVIOUS
  <2>1. CASE writes' = writes
    BY <2>1 DEF KeyedWrites
  <2>2. ASSUME NEW c \in Caller, Write(c), writes' # writes PROVE Sink!Next \/ UNCHANGED made
    <3> DEFINE k == request[c].key
               e == [caller |-> c, key |-> k]
    <3>1. /\ writes' = Append(writes, e) /\ writes \in Seq(WriteType) /\ e \in WriteType
          /\ k = Bad \/ (k \in Key /\ results[k] = 0)
      BY <2>2, WriteFacts, TypeFacts DEF IInv, GatewayInv, WriteType
    <3>2. made' = KeysOf(writes') /\ made = KeysOf(writes)
      BY SinkEffects DEF KeysOf, KeyedWrites, KeyedType
    <3>3. CASE k = Bad
      <4>1. e \notin KeyedType
        BY <3>3, GatewayParameters DEF KeyedType
      <4> QED
        BY <3>1, <3>2, <4>1, KeysAppended DEF IInv
    <3>4. CASE k \in Key /\ results[k] = 0
      <4>1. e \in KeyedType /\ e.key = k
        BY <3>4 DEF KeyedType
      <4>2. KeysOf(writes') = Append(KeysOf(writes), k)
        BY <3>1, <4>1, KeysAppended DEF IInv
      <4>3. \A n \in DOMAIN KeysOf(writes) : KeysOf(writes)[n] # k
        <5> SUFFICES ASSUME NEW n \in DOMAIN KeysOf(writes), KeysOf(writes)[n] = k PROVE FALSE
          OBVIOUS
        <5>1. PICK i \in DOMAIN writes : writes[i] \in KeyedType /\ writes[i].key = k
          BY <3>1, KeysAppended DEF IInv
        <5>2. results[k] = i /\ i # 0
          BY <3>4, <5>1, GatewayParameters, TypeFacts DEF IInv, GatewayInv, IndexIsOfWrites
        <5> QED
          BY <3>4, <5>2
      <4>4. made' = Append(made, k) /\ \A n \in DOMAIN made : made[n] # k
        BY <3>2, <4>2, <4>3
      <4> HIDE DEF k, e
      <4>5. \E op \in Key :
              /\ ~ \E n \in DOMAIN made : made[n] = op
              /\ made' = Append(made, op)
        BY <3>4, <4>4
      <4> QED
        BY <4>5 DEF Sink!Next, Sink!Perform, Sink!Performed
    <3> QED
      BY <3>1, <3>3, <3>4
  <2> QED
    BY <2>1, <2>2, ServiceKept DEF Next, vars, service
<1> QED
  BY <1>1, <1>2, GatewayInvariant, PTL DEF Spec, SinkSpec, Sink!Spec

-----------------------------------------------------------------------------
(* safe_write and blind_retry_write: the inductive invariant               *)

\* The instance has operators of its own for the ones of the libraries it extends.
LEMMA SameOperators ==
  /\ \A S : Safe!Cardinality(S) = Cardinality(S)
  /\ \A q, S : Safe!Selected(q, S) = Selected(q, S)
<1>1. \A S : Safe!Cardinality(S) = Cardinality(S)
  BY DEF Safe!Cardinality, Cardinality
<1>2. \A q, S : Safe!Places(q, S) = Places(q, S)
  BY DEF Safe!Places, Places
<1>3. \A q, S, i : Safe!PlacesUpTo(q, S, i) = PlacesUpTo(q, S, i)
  BY <1>2 DEF Safe!PlacesUpTo, PlacesUpTo
<1>4. \A q, S, n : Safe!Nth(q, S, n) = Nth(q, S, n)
  BY <1>1, <1>2, <1>3 DEF Safe!Nth, Nth
<1>5. \A q, S, n : Safe!NthPlace(q, S, n) = NthPlace(q, S, n)
  BY <1>4 DEF Safe!NthPlace, NthPlace
<1>6. \A q, S : Safe!Selected(q, S) = Selected(q, S)
  BY <1>1, <1>2, <1>5 DEF Safe!Selected, Selected
<1> QED
  BY <1>1, <1>6

\* by_key is the index of the keyed writes, and a write is under its caller's key.
SafeIndexIsOfWrites ==
  /\ \A k \in Key : by_key[k] # 0 => writes[by_key[k]].key = k
  /\ \A i \in DOMAIN writes :
       /\ writes[i].key = key[writes[i].caller]
       /\ writes[i].key # Bad => by_key[writes[i].key] = i

\* A call has an attempt left while it is trying, and lost no more than it made.
AttemptsLeft ==
  \A c \in Caller :
    (pc[c] = "ready" => attempt[c] < MaxAttempts) /\ lost[c] <= attempt[c]

SafeIInv ==
  /\ Safe!WriteInv /\ Safe!WritesAccountedFor
  /\ SafeIndexIsOfWrites /\ AttemptsLeft /\ Counted(writes, KeyedType)

\* The types, one by one.
LEMMA SafeTypes ==
  ASSUME Safe!TypeOK
  PROVE  /\ key \in [Caller -> Key \cup {Bad}]
         /\ writes \in Seq(WriteType) /\ Len(writes) \in Nat /\ DOMAIN writes = 1 .. Len(writes)
         /\ \A i \in DOMAIN writes : writes[i] \in WriteType
         /\ by_key \in [Key -> 0 .. Len(writes)] /\ result \in [Caller -> 0 .. Len(writes)]
         /\ pc \in [Caller -> {"ready", "returned", "raised"}]
         /\ attempt \in [Caller -> 0 .. MaxAttempts] /\ lost \in [Caller -> 0 .. MaxAttempts]
<1>1. /\ key \in [Caller -> Key \cup {Bad}]
      /\ writes \in Seq(WriteType)
      /\ by_key \in [Key -> 0 .. Len(writes)] /\ result \in [Caller -> 0 .. Len(writes)]
      /\ pc \in [Caller -> {"ready", "returned", "raised"}]
      /\ attempt \in [Caller -> 0 .. MaxAttempts] /\ lost \in [Caller -> 0 .. MaxAttempts]
  BY DEF Safe!TypeOK, WriteType
<1> QED
  BY <1>1

\* service.write of lab 3: the earlier write under the key, a write under a new key, or
\* one without a key; and where in the service it is.
LEMMA SafeWriteFacts ==
  ASSUME Safe!TypeOK, NEW c \in Caller, Safe!Write(c)
  PROVE  LET k == key[c]
             n == Len(writes) + 1
             e == [caller |-> c, key |-> k] IN
         \/ /\ k \in Key /\ by_key[k] \in DOMAIN writes /\ Safe!WrittenAt(c) = by_key[k]
            /\ writes' = writes /\ by_key' = by_key
         \/ /\ k \in Key /\ by_key[k] = 0 /\ Safe!WrittenAt(c) = n
            /\ writes' = Append(writes, e) /\ by_key' = [by_key EXCEPT ![k] = n]
         \/ /\ k = Bad /\ Safe!WrittenAt(c) = n
            /\ writes' = Append(writes, e) /\ by_key' = by_key
<1> DEFINE k == key[c]
           n == Len(writes) + 1
           e == [caller |-> c, key |-> k]
<1>1. /\ k \in Key \cup {Bad} /\ Bad \notin Key
      /\ DOMAIN writes = 1 .. Len(writes) /\ by_key \in [Key -> 0 .. Len(writes)]
  BY SafeTypes, GatewayParameters
<1>2. /\ Safe!Keyed(c) <=> k \in Key
      /\ Safe!Found(c) <=> k \in Key /\ by_key[k] # 0
  BY <1>1 DEF Safe!Keyed, Safe!Found
<1>3. Safe!WrittenAt(c) = IF Safe!Found(c) THEN by_key[k] ELSE n
  BY DEF Safe!WrittenAt
<1>4. /\ writes' = IF Safe!Found(c) THEN writes ELSE Append(writes, e)
      /\ by_key' = IF Safe!Keyed(c) THEN [by_key EXCEPT ![k] = Safe!WrittenAt(c)] ELSE by_key
  BY DEF Safe!Write
<1> HIDE DEF n, e, k
<1>5. CASE k \in Key /\ by_key[k] # 0
  <2>1. by_key[k] \in DOMAIN writes
    BY <1>1, <1>5 DEF k
  <2>2. by_key' = [by_key EXCEPT ![k] = by_key[k]]
    BY <1>2, <1>3, <1>4, <1>5
  <2>3. by_key' = by_key
    BY <1>1, <1>5, <2>2
  <2> QED
    BY <1>2, <1>3, <1>4, <1>5, <2>1, <2>3 DEF k, n, e
<1>6. CASE k \in Key /\ by_key[k] = 0
  BY <1>2, <1>3, <1>4, <1>6 DEF k, n, e
<1>7. CASE k = Bad
  BY <1>1, <1>2, <1>3, <1>4, <1>7 DEF k, n, e
<1> QED
  BY <1>1, <1>5, <1>6, <1>7 DEF k

\* What a write adds and keeps, and what it says of its own key.
LEMMA SafeWriteKeeps ==
  ASSUME Safe!TypeOK, SafeIndexIsOfWrites, NEW c \in Caller, Safe!Write(c)
  PROVE  /\ writes' \in Seq(WriteType) /\ by_key' \in [Key -> 0 .. Len(writes')]
         /\ 0 .. Len(writes) \subseteq 0 .. Len(writes')
         /\ DOMAIN writes \subseteq DOMAIN writes'
         /\ \A i \in DOMAIN writes : writes'[i] = writes[i]
         /\ \A i \in DOMAIN writes' \ DOMAIN writes :
              i = Safe!WrittenAt(c) /\ writes'[i] = [caller |-> c, key |-> key[c]]
         /\ Safe!WrittenAt(c) \in DOMAIN writes' /\ Safe!WrittenAt(c) # 0
         /\ writes'[Safe!WrittenAt(c)].key = key[c]
         /\ key[c] \in Key => by_key'[key[c]] = Safe!WrittenAt(c)
         /\ \A k \in Key : k # key[c] \/ by_key[k] # 0 => by_key'[k] = by_key[k]
         /\ SafeIndexIsOfWrites' \/ key' # key
<1> DEFINE k == key[c]
           n == Len(writes) + 1
           e == [caller |-> c, key |-> k]
           at == Safe!WrittenAt(c)
<1>1. /\ k \in Key \cup {Bad} /\ Bad \notin Key /\ e.key = k /\ e.caller = c
      /\ DOMAIN writes = 1 .. Len(writes) /\ Len(writes) \in Nat /\ n # 0
      /\ by_key \in [Key -> 0 .. Len(writes)] /\ writes \in Seq(WriteType)
      /\ \A i \in DOMAIN writes : writes[i].key \in Key \cup {Bad}
  <2>1. \A i \in DOMAIN writes : writes[i].key \in Key \cup {Bad}
    BY SafeTypes DEF WriteType
  <2> QED
    BY <2>1, SafeTypes, GatewayParameters
<1>2. e \in WriteType
  BY <1>1 DEF WriteType
<1>3. /\ DOMAIN Append(writes, e) = DOMAIN writes \cup {n} /\ n \notin DOMAIN writes
      /\ \A i \in DOMAIN writes : Append(writes, e)[i] = writes[i]
      /\ Append(writes, e)[n] = e /\ Append(writes, e) \in Seq(WriteType)
      /\ Len(Append(writes, e)) = n
  BY <1>1, <1>2, AppendFacts
<1>4. \A j \in Key : by_key[j] # 0 => by_key[j] \in DOMAIN writes /\ writes[by_key[j]].key = j
  BY <1>1 DEF SafeIndexIsOfWrites
<1>5. \A i \in DOMAIN writes : /\ writes[i].key = key[writes[i].caller]
                               /\ writes[i].key # Bad => by_key[writes[i].key] = i
  BY DEF SafeIndexIsOfWrites
<1>6. 0 .. Len(writes) \subseteq 0 .. n /\ n \in 0 .. n /\ \A i \in DOMAIN writes : i # 0
  BY <1>1
<1> HIDE DEF k, n, e, at
<1>7. CASE /\ k \in Key /\ by_key[k] \in DOMAIN writes /\ at = by_key[k]
           /\ writes' = writes /\ by_key' = by_key
  <2>1. writes[at].key = k
    BY <1>4, <1>6, <1>7
  <2> QED
    BY <1>1, <1>4, <1>5, <1>6, <1>7, <2>1 DEF k, e, at, SafeIndexIsOfWrites
<1>8. CASE /\ k \in Key /\ by_key[k] = 0 /\ at = n
           /\ writes' = Append(writes, e) /\ by_key' = [by_key EXCEPT ![k] = n]
  <2>1. by_key' \in [Key -> 0 .. n] /\ by_key'[k] = n /\ \A j \in Key \ {k} : by_key'[j] = by_key[j]
    BY <1>1, <1>6, <1>8
  <2>2. \A i \in DOMAIN writes : writes[i].key # k
    BY <1>1, <1>5, <1>6, <1>8
  <2>3. \A j \in Key : by_key'[j] # 0 => writes'[by_key'[j]].key = j
    BY <1>1, <1>3, <1>4, <1>8, <2>1
  <2>4. ASSUME key' = key, NEW i \in DOMAIN writes'
        PROVE  /\ writes'[i].key = key[writes'[i].caller]
               /\ writes'[i].key # Bad => by_key'[writes'[i].key] = i
    <3>1. CASE i \in DOMAIN writes
      BY <1>1, <1>3, <1>5, <1>8, <2>1, <2>2, <3>1
    <3>2. CASE i = n
      BY <1>1, <1>3, <1>8, <2>1, <3>2 DEF k
    <3> QED
      BY <1>3, <1>8, <3>1, <3>2
  <2>5. SafeIndexIsOfWrites' \/ key' # key
    BY <2>3, <2>4 DEF SafeIndexIsOfWrites
  <2> QED
    BY <1>1, <1>3, <1>6, <1>8, <2>1, <2>5 DEF k, e, at
<1>9. CASE /\ k = Bad /\ at = n /\ writes' = Append(writes, e) /\ by_key' = by_key
  <2>1. by_key' \in [Key -> 0 .. n]
    BY <1>1, <1>6, <1>9
  <2>2. \A j \in Key : by_key[j] # 0 => writes'[by_key[j]].key = j
    BY <1>3, <1>4, <1>9
  <2>3. ASSUME key' = key, NEW i \in DOMAIN writes'
        PROVE  /\ writes'[i].key = key[writes'[i].caller]
               /\ writes'[i].key # Bad => by_key[writes'[i].key] = i
    <3>1. CASE i \in DOMAIN writes
      BY <1>3, <1>5, <1>9, <3>1
    <3>2. CASE i = n
      BY <1>1, <1>3, <1>9, <3>2 DEF k
    <3> QED
      BY <1>3, <1>9, <3>1, <3>2
  <2>4. SafeIndexIsOfWrites' \/ key' # key
    BY <1>9, <2>2, <2>3 DEF SafeIndexIsOfWrites
  <2> QED
    BY <1>1, <1>3, <1>6, <1>9, <2>1, <2>4 DEF k, e, at
<1> QED
  BY <1>7, <1>8, <1>9, SafeWriteFacts DEF k, n, e, at

\* An attempt that ends its call with an answer.
Told(c) ==
  /\ Safe!Write(c) /\ Safe!WrittenAt(c) \in 0 .. Len(writes')
  /\ pc' = [pc EXCEPT ![c] = "returned"] /\ result' = [result EXCEPT ![c] = Safe!WrittenAt(c)]
  /\ lost' = lost \/ (key[c] \in Key /\ lost' = [lost EXCEPT ![c] = @ + 1])

\* An attempt that is taken for a failure.  It wrote if it lost its response without a key.
Missed(c) ==
  /\ \/ UNCHANGED <<writes, by_key, lost>>
     \/ key[c] = Bad /\ Safe!Write(c) /\ lost' = [lost EXCEPT ![c] = @ + 1]
  /\ result' = result
  /\ \/ pc' = [pc EXCEPT ![c] = "raised"]
     \/ pc' = [pc EXCEPT ![c] = "ready"] /\ attempt[c] + 1 < MaxAttempts

\* The three outcomes of an attempt in the loop of safe_write are of these two kinds.
LEMMA SafeAttempts ==
  ASSUME SafeIInv, MaxAttempts \in Nat, NEW c \in Caller, Safe!Attempt(c)
  PROVE  /\ pc[c] = "ready" /\ attempt[c] \in Nat /\ attempt[c] < MaxAttempts
         /\ lost[c] \in Nat /\ lost[c] <= attempt[c]
         /\ attempt' = [attempt EXCEPT ![c] = @ + 1] /\ key' = key
         /\ Told(c) \/ Missed(c)
<1> USE DEF SafeIInv, Safe!WriteInv
<1>1. pc[c] = "ready" /\ key' = key /\ attempt' = [attempt EXCEPT ![c] = @ + 1]
  BY DEF Safe!Attempt, Safe!Answered, Safe!FailedBefore, Safe!LostResponse, Safe!Returns,
         Safe!NextTry
<1>2. attempt[c] \in 0 .. MaxAttempts /\ lost[c] \in 0 .. MaxAttempts
  BY SafeTypes
<1>3. attempt[c] < MaxAttempts /\ lost[c] <= attempt[c]
  BY <1>1 DEF AttemptsLeft
<1>4. attempt'[c] = attempt[c] + 1
  BY <1>1, SafeTypes
<1>5. Safe!NextTry(c) => \/ pc' = [pc EXCEPT ![c] = "raised"]
                         \/ pc' = [pc EXCEPT ![c] = "ready"] /\ attempt[c] + 1 < MaxAttempts
  BY <1>4 DEF Safe!NextTry
<1>6. Safe!Keyed(c) <=> key[c] \in Key
  BY SafeTypes, GatewayParameters DEF Safe!Keyed
<1>12. key[c] \in Key \cup {Bad}
  BY SafeTypes
<1>7. Safe!Write(c) => Safe!WrittenAt(c) \in 0 .. Len(writes')
  <2> SUFFICES ASSUME Safe!Write(c) PROVE Safe!WrittenAt(c) \in 0 .. Len(writes')
    OBVIOUS
  <2>1. Safe!WrittenAt(c) \in DOMAIN writes' /\ writes' \in Seq(WriteType)
    BY SafeWriteKeeps
  <2> QED
    BY <2>1
<1> HIDE DEF SafeIInv, Safe!WriteInv
<1>8. ASSUME Safe!Answered(c) PROVE Told(c) \/ Missed(c)
  <2>1. /\ Safe!Write(c) /\ pc' = [pc EXCEPT ![c] = "returned"]
        /\ result' = [result EXCEPT ![c] = Safe!WrittenAt(c)] /\ lost' = lost
    BY <1>8 DEF Safe!Answered, Safe!Returns
  <2> QED
    BY <1>7, <2>1 DEF Told
<1>9. ASSUME Safe!FailedBefore(c) PROVE Told(c) \/ Missed(c)
  <2>1. writes' = writes /\ by_key' = by_key /\ lost' = lost /\ result' = result /\ Safe!NextTry(c)
    BY <1>9 DEF Safe!FailedBefore
  <2> QED
    BY <1>5, <2>1 DEF Missed
<1>10. ASSUME Safe!LostResponse(c) PROVE Told(c) \/ Missed(c)
  <2>1. Safe!Write(c) /\ lost' = [lost EXCEPT ![c] = @ + 1]
    BY <1>10 DEF Safe!LostResponse
  <2>2. CASE key[c] \in Key
    <3>1. /\ pc' = [pc EXCEPT ![c] = "returned"]
          /\ result' = [result EXCEPT ![c] = Safe!WrittenAt(c)]
      BY <1>6, <1>10, <2>2 DEF Safe!LostResponse, Safe!Returns
    <3> QED
      BY <1>7, <2>1, <2>2, <3>1 DEF Told
  <2>3. CASE key[c] = Bad
    <3>1. Safe!NextTry(c) /\ result' = result
      BY <1>6, <1>10, <2>3, GatewayParameters DEF Safe!LostResponse
    <3> QED
      BY <1>5, <2>1, <2>3, <3>1 DEF Missed
  <2> QED
    BY <1>12, <2>2, <2>3
<1>11. Told(c) \/ Missed(c)
  BY <1>8, <1>9, <1>10 DEF Safe!Attempt
<1> QED
  BY <1>1, <1>2, <1>3, <1>11

\* The types are kept, and so is a spare attempt.
LEMMA SafeTypeStep ==
  ASSUME SafeIInv, MaxAttempts \in Nat, NEW c \in Caller, Safe!Attempt(c)
  PROVE  Safe!TypeOK' /\ AttemptsLeft' /\ SafeIndexIsOfWrites'
<1> USE DEF SafeIInv, Safe!WriteInv
<1>1. /\ pc[c] = "ready" /\ attempt[c] \in Nat /\ attempt[c] < MaxAttempts
      /\ lost[c] \in Nat /\ lost[c] <= attempt[c]
      /\ attempt' = [attempt EXCEPT ![c] = @ + 1] /\ key' = key
      /\ Told(c) \/ Missed(c)
  BY SafeAttempts
<1>2. /\ writes' \in Seq(WriteType) /\ by_key' \in [Key -> 0 .. Len(writes')]
      /\ 0 .. Len(writes) \subseteq 0 .. Len(writes') /\ SafeIndexIsOfWrites'
  <2>1. CASE Safe!Write(c)
    BY <1>1, <2>1, SafeWriteKeeps
  <2>2. CASE UNCHANGED <<writes, by_key>>
    BY <1>1, <2>2, SafeTypes DEF SafeIndexIsOfWrites
  <2> QED
    BY <1>1, <2>1, <2>2 DEF Told, Missed
<1>3. /\ result' \in [Caller -> 0 .. Len(writes')]
      /\ pc' \in [Caller -> {"ready", "returned", "raised"}]
  <2>1. result \in [Caller -> 0 .. Len(writes')]
    BY <1>2, SafeTypes
  <2>2. CASE Told(c)
    <3>1. Safe!WrittenAt(c) \in 0 .. Len(writes')
      BY <2>2 DEF Told
    <3>2. result' = [result EXCEPT ![c] = Safe!WrittenAt(c)] /\ pc' = [pc EXCEPT ![c] = "returned"]
      BY <2>2 DEF Told
    <3> QED
      BY <2>1, <3>1, <3>2, SafeTypes
  <2>3. CASE Missed(c)
    BY <2>1, <2>3, SafeTypes DEF Missed
  <2> QED
    BY <1>1, <2>2, <2>3
<1>4. attempt[c] + 1 \in 0 .. MaxAttempts /\ lost[c] + 1 \in 0 .. MaxAttempts
  BY <1>1
<1>5. attempt' \in [Caller -> 0 .. MaxAttempts]
  BY <1>1, <1>4, SafeTypes
<1>6. lost' = lost \/ lost' = [lost EXCEPT ![c] = @ + 1]
  BY <1>1 DEF Told, Missed
<1>7. lost' \in [Caller -> 0 .. MaxAttempts]
  BY <1>4, <1>6, SafeTypes
<1>8. Safe!TypeOK'
  BY <1>1, <1>2, <1>3, <1>5, <1>7, SafeTypes DEF Safe!TypeOK, WriteType
<1>9. AttemptsLeft'
  <2> SUFFICES ASSUME NEW d \in Caller
               PROVE  (pc'[d] = "ready" => attempt'[d] < MaxAttempts) /\ lost'[d] <= attempt'[d]
    BY DEF AttemptsLeft
  <2>1. CASE d = c
    <3>1. attempt'[d] = attempt[c] + 1 /\ lost'[d] \in {lost[c], lost[c] + 1}
      BY <1>1, <1>6, <2>1, SafeTypes
    <3>2. pc'[d] = "ready" => attempt[c] + 1 < MaxAttempts
      BY <1>1, <2>1, SafeTypes DEF Told, Missed
    <3> QED
      BY <1>1, <3>1, <3>2
  <2>2. CASE d # c
    <3>1. attempt'[d] = attempt[d] /\ lost'[d] = lost[d] /\ pc'[d] = pc[d]
      BY <1>1, <1>6, <2>2, SafeTypes DEF Told, Missed
    <3> QED
      BY <3>1 DEF AttemptsLeft
  <2> QED
    BY <2>1, <2>2
<1> QED
  BY <1>2, <1>8, <1>9

\* Each answer names a write under the caller's key, its own or an earlier one.
LEMMA SafeResultStep ==
  ASSUME SafeIInv, MaxAttempts \in Nat, NEW c \in Caller, Safe!Attempt(c)
  PROVE  Safe!ResultIsWritten'
<1> SUFFICES ASSUME NEW d \in Caller, pc'[d] = "returned"
             PROVE  result'[d] # 0 /\ writes'[result'[d]].key = key'[d]
  BY DEF Safe!ResultIsWritten
<1>1. Safe!TypeOK /\ Safe!ResultIsWritten /\ SafeIndexIsOfWrites
  BY DEF SafeIInv, Safe!WriteInv
<1>2. pc[c] = "ready" /\ key' = key /\ (Told(c) \/ Missed(c))
  BY SafeAttempts
<1>3. CASE d = c
  <2>1. Told(c)
    BY <1>1, <1>2, <1>3, SafeTypes DEF Missed
  <2>2. result'[d] = Safe!WrittenAt(c)
    BY <1>1, <1>3, <2>1, SafeTypes DEF Told
  <2>3. Safe!WrittenAt(c) # 0 /\ writes'[Safe!WrittenAt(c)].key = key[c]
    BY <1>1, <2>1, SafeWriteKeeps DEF Told
  <2> QED
    BY <1>2, <1>3, <2>2, <2>3
<1>4. CASE d # c
  <2>1. pc[d] = "returned" /\ result'[d] = result[d]
    BY <1>1, <1>2, <1>4, SafeTypes DEF Told, Missed
  <2>2. result[d] # 0 /\ writes[result[d]].key = key[d]
    BY <1>1, <2>1 DEF Safe!ResultIsWritten
  <2>3. result[d] \in DOMAIN writes
    <3>1. result[d] \in 0 .. Len(writes) /\ DOMAIN writes = 1 .. Len(writes) /\ Len(writes) \in Nat
      BY <1>1, SafeTypes
    <3> QED
      BY <2>2, <3>1
  <2>4. writes'[result[d]] = writes[result[d]]
    BY <1>1, <1>2, <2>3, SafeWriteKeeps DEF Told, Missed
  <2> QED
    BY <1>2, <2>1, <2>2, <2>4
<1> QED
  BY <1>3, <1>4

\* A write without a key counts for its caller, and no write for another.
LEMMA SafeWriteCounted ==
  ASSUME Safe!TypeOK, NEW c \in Caller, Safe!Write(c), NEW d \in Caller
  PROVE  /\ Cardinality(Safe!WritesOf(d)) \in Nat
         /\ d = c /\ key[c] = Bad =>
              Cardinality(Safe!WritesOf(d)') = Cardinality(Safe!WritesOf(d)) + 1
         /\ d # c => Safe!WritesOf(d)' = Safe!WritesOf(d)
         /\ Counted(writes, KeyedType) => Counted(writes', KeyedType)
<1> DEFINE e == [caller |-> c, key |-> key[c]]
<1>1. e \in WriteType /\ e.caller = c /\ writes \in Seq(WriteType)
  BY SafeTypes DEF WriteType
<1>2. /\ writes' = writes \/ writes' = Append(writes, e)
      /\ key[c] = Bad => writes' = Append(writes, e)
  BY SafeWriteFacts, SafeTypes, GatewayParameters
<1>3. e \in WritesBy(d) <=> d = c
  BY <1>1 DEF WritesBy
<1>4. Safe!WritesOf(d) = Places(writes, WritesBy(d))
  <2>1. \A i \in DOMAIN writes : writes[i] \in WriteType
    BY <1>1
  <2> QED
    BY <2>1 DEF Places, WritesBy, Safe!WritesOf
<1> HIDE DEF e
<1>5. writes' \in Seq(WriteType)
  BY <1>1, <1>2
<1>6. Safe!WritesOf(d)' = Places(writes', WritesBy(d))
  <2>1. \A i \in DOMAIN writes' : writes'[i] \in WriteType
    BY <1>5
  <2> QED
    BY <2>1 DEF Places, WritesBy, Safe!WritesOf
<1>7. Cardinality(Places(writes, WritesBy(d))) \in Nat
  BY <1>1, PlacesAppended
<1>8. d # c => Places(Append(writes, e), WritesBy(d)) = Places(writes, WritesBy(d))
  BY <1>1, <1>3, PlacesAppended
<1>9. d = c => Cardinality(Places(Append(writes, e), WritesBy(d))) =
                 Cardinality(Places(writes, WritesBy(d))) + 1
  BY <1>1, <1>3, PlacesAppended
<1>10. Counted(writes, KeyedType) => Counted(writes', KeyedType)
  BY <1>1, <1>2, NthAppended
<1> QED
  BY <1>2, <1>4, <1>6, <1>7, <1>8, <1>9, <1>10

\* The account of one call of safe_write or blind_retry_write.
SafeAccount(d) ==
  /\ key[d] \in Key /\ pc[d] # "returned" => Safe!WritesOf(d) = {} /\ lost[d] = 0
  /\ key[d] = Bad =>
       /\ pc[d] = "returned" => Cardinality(Safe!WritesOf(d)) = lost[d] + 1
       /\ pc[d] # "returned" => Cardinality(Safe!WritesOf(d)) = lost[d]

\* The accounts of all calls are WritesAccountedFor.
LEMMA SafeAccounts ==
  Safe!TypeOK => (Safe!WritesAccountedFor <=> \A d \in Caller : SafeAccount(d))
<1> SUFFICES ASSUME Safe!TypeOK PROVE Safe!WritesAccountedFor <=> \A d \in Caller : SafeAccount(d)
  OBVIOUS
<1>1. \A d \in Caller : key[d] \in Key \cup {Bad} /\ lost[d] \in 0 .. MaxAttempts
  BY SafeTypes
<1>2. Bad \notin Key
  BY GatewayParameters
<1>3. ASSUME NEW d \in Caller
      PROVE  (IF Safe!Keyed(d)
              THEN pc[d] # "returned" => Safe!WritesOf(d) = {} /\ lost[d] = 0
              ELSE Safe!Cardinality(Safe!WritesOf(d)) =
                     lost[d] + (IF pc[d] = "returned" THEN 1 ELSE 0))
             <=> SafeAccount(d)
  <2>1. Safe!Cardinality(Safe!WritesOf(d)) = Cardinality(Safe!WritesOf(d))
    BY SameOperators
  <2>2. lost[d] + 0 = lost[d]
    BY <1>1
  <2> QED
    BY <1>1, <1>2, <2>1, <2>2 DEF Safe!Keyed, SafeAccount
<1> QED
  BY <1>3 DEF Safe!WritesAccountedFor

\* Each attempt balances the account of its call and leaves those of the others alone.
LEMMA SafeAccountsStep ==
  ASSUME SafeIInv, MaxAttempts \in Nat, NEW c \in Caller, Safe!Attempt(c)
  PROVE  Safe!WritesAccountedFor' /\ Counted(writes, KeyedType)'
<1>1. /\ Safe!TypeOK /\ Safe!TypeOK' /\ SafeIndexIsOfWrites /\ Counted(writes, KeyedType)
      /\ \A d \in Caller : SafeAccount(d)
  BY SafeTypeStep, SafeAccounts DEF SafeIInv, Safe!WriteInv
<1>2. pc[c] = "ready" /\ lost[c] \in Nat /\ key' = key /\ (Told(c) \/ Missed(c))
  BY SafeAttempts
<1>3. Counted(writes, KeyedType)'
  <2>1. KeyedType' = KeyedType
    BY DEF KeyedType
  <2> QED
    BY <1>1, <1>2, <2>1, SafeWriteCounted DEF Told, Missed
<1>4. ASSUME NEW d \in Caller PROVE SafeAccount(d)'
  <2>1. CASE d # c
    <3>1. pc'[d] = pc[d] /\ lost'[d] = lost[d]
      BY <1>1, <1>2, <2>1, SafeTypes DEF Told, Missed
    <3>2. Safe!WritesOf(d)' = Safe!WritesOf(d)
      <4>1. CASE Safe!Write(c)
        BY <1>1, <2>1, <4>1, SafeWriteCounted
      <4>2. CASE writes' = writes
        BY <4>2 DEF Safe!WritesOf
      <4> QED
        BY <1>2, <4>1, <4>2 DEF Told, Missed
    <3> QED
      BY <1>1, <1>2, <3>1, <3>2 DEF SafeAccount
  <2>2. CASE d = c /\ Told(c)
    <3>1. pc'[d] = "returned" /\ (key[c] = Bad => lost' = lost)
      BY <1>1, <2>2, SafeTypes, GatewayParameters DEF Told
    <3>2. key[c] = Bad => Cardinality(Safe!WritesOf(d)') = Cardinality(Safe!WritesOf(d)) + 1
      BY <1>1, <2>2, SafeWriteCounted DEF Told
    <3>3. key[c] = Bad => Cardinality(Safe!WritesOf(d)) = lost[d]
      BY <1>1, <1>2, <2>2 DEF SafeAccount
    <3> QED
      BY <1>2, <2>2, <3>1, <3>2, <3>3 DEF SafeAccount
  <2>3. CASE d = c /\ Missed(c)
    <3>1. pc'[d] # "returned" /\ pc[d] # "returned"
      BY <1>1, <1>2, <2>3, SafeTypes DEF Missed
    <3>2. CASE writes' = writes /\ lost' = lost
      <4>1. Safe!WritesOf(d)' = Safe!WritesOf(d)
        BY <3>2 DEF Safe!WritesOf
      <4> QED
        BY <1>1, <1>2, <3>1, <3>2, <4>1 DEF SafeAccount
    <3>3. CASE key[c] = Bad /\ Safe!Write(c) /\ lost' = [lost EXCEPT ![c] = @ + 1]
      <4>1. lost'[d] = lost[d] + 1
        BY <1>1, <2>3, <3>3, SafeTypes
      <4>2. Cardinality(Safe!WritesOf(d)') = Cardinality(Safe!WritesOf(d)) + 1
        BY <1>1, <2>3, <3>3, SafeWriteCounted
      <4>3. Cardinality(Safe!WritesOf(d)) = lost[d]
        BY <1>1, <2>3, <3>1, <3>3 DEF SafeAccount
      <4> QED
        BY <1>2, <2>3, <3>1, <3>3, <4>1, <4>2, <4>3, GatewayParameters DEF SafeAccount
    <3> QED
      BY <2>3, <3>2, <3>3 DEF Missed
  <2> QED
    BY <1>2, <2>1, <2>2, <2>3
<1>5. (Safe!TypeOK => (Safe!WritesAccountedFor <=> \A d \in Caller : SafeAccount(d)))'
  BY SafeAccounts, PTL
<1> QED
  BY <1>1, <1>3, <1>4, <1>5

\* Nothing was written.
LEMMA SafeInit ==
  ASSUME MaxAttempts \in Nat \ {0}, Safe!Init
  PROVE  SafeIInv
<1> USE DEF Safe!Init
<1>1. Safe!TypeOK
  BY DEF Safe!TypeOK
<1>2. Safe!ResultIsWritten /\ SafeIndexIsOfWrites /\ AttemptsLeft
  BY DEF Safe!ResultIsWritten, SafeIndexIsOfWrites, AttemptsLeft
<1>3. \A d \in Caller : SafeAccount(d)
  <2> SUFFICES ASSUME NEW d \in Caller PROVE SafeAccount(d)
    OBVIOUS
  <2>1. Safe!WritesOf(d) = {}
    BY DEF Safe!WritesOf
  <2> QED
    BY <2>1, FS_EmptySet DEF SafeAccount
<1>4. Counted(writes, KeyedType)
  <2>1. Places(writes, KeyedType) = {}
    BY DEF Places
  <2>2. Cardinality(Places(writes, KeyedType)) = 0
    BY <2>1, FS_EmptySet
  <2> QED
    BY <2>2 DEF Counted
<1> QED
  BY <1>1, <1>2, <1>3, <1>4, SafeAccounts DEF SafeIInv, Safe!WriteInv

-----------------------------------------------------------------------------
(* safe_write and blind_retry_write: the theorems                          *)

\* Every attempt keeps the strengthening, and so does waiting.
LEMMA SafeStep ==
  ASSUME MaxAttempts \in Nat, SafeIInv, [Safe!Next]_(Safe!vars)
  PROVE  SafeIInv'
<1>1. ASSUME NEW c \in Caller, Safe!Attempt(c) PROVE SafeIInv'
  BY <1>1, SafeTypeStep, SafeResultStep, SafeAccountsStep DEF SafeIInv, Safe!WriteInv
<1>2. CASE UNCHANGED Safe!vars
  <2>1. /\ key' = key /\ writes' = writes /\ by_key' = by_key /\ pc' = pc
        /\ attempt' = attempt /\ result' = result /\ lost' = lost
    BY <1>2 DEF Safe!vars
  <2>2. Safe!TypeOK' /\ Safe!ResultIsWritten'
    BY <2>1 DEF SafeIInv, Safe!WriteInv, Safe!TypeOK, Safe!ResultIsWritten
  <2>3. Safe!WritesAccountedFor'
    BY <2>1 DEF SafeIInv, Safe!WritesAccountedFor, Safe!WritesOf, Safe!Keyed
  <2>4. SafeIndexIsOfWrites' /\ AttemptsLeft' /\ Counted(writes, KeyedType)'
    BY <2>1 DEF SafeIInv, SafeIndexIsOfWrites, AttemptsLeft, KeyedType
  <2> QED
    BY <2>2, <2>3, <2>4 DEF SafeIInv, Safe!WriteInv
<1> QED
  BY <1>1, <1>2 DEF Safe!Next

\* The strengthening is inductive, for every sequence of faults and any number of calls that
\* share their keys.
THEOREM SafeInvariant ==
  ASSUME MaxAttempts \in Nat \ {0}
  PROVE  Safe!Spec => []SafeIInv
<1>1. Safe!Init => SafeIInv
  BY SafeInit
<1>2. SafeIInv /\ [Safe!Next]_(Safe!vars) => SafeIInv'
  BY SafeStep
<1> QED
  BY <1>1, <1>2, PTL DEF Safe!Spec

\* A caller is told of a write that is there and made under its own key (safe_write,
\* FakeAmbiguousService.write and read_by_idempotency_key).
THEOREM ResultsAreWritten ==
  ASSUME MaxAttempts \in Nat \ {0}
  PROVE  Safe!Spec => []Safe!WriteInv
<1>1. SafeIInv => Safe!WriteInv
  BY DEF SafeIInv
<1> QED
  BY <1>1, SafeInvariant, PTL

\* A keyed call that raises has written nothing, and blind_retry_write makes one more
\* write than it reports for each lost response.
THEOREM CostOfBlindRetry ==
  ASSUME MaxAttempts \in Nat \ {0}
  PROVE  Safe!Spec => []Safe!WritesAccountedFor
<1>1. SafeIInv => Safe!WritesAccountedFor
  BY DEF SafeIInv
<1> QED
  BY <1>1, SafeInvariant, PTL

\* The effects Sink stands for are the keys of the keyed writes.
LEMMA SafeEffects ==
  KeysOf(writes) = [i \in DOMAIN Safe!KeyedWrites |-> Safe!KeyedWrites[i].key]
<1>1. Safe!KeyedWrites = Selected(writes, KeyedType)
  BY SameOperators DEF Safe!KeyedWrites, KeyedType
<1> QED
  BY <1>1 DEF KeysOf

\* However many callers share a key, the service is the at-most-once sink of the
\* idempotency keys (FakeAmbiguousService.write).
THEOREM SafeWriteImplementsSink ==
  ASSUME MaxAttempts \in Nat \ {0}
  PROVE  Safe!Spec => Safe!SinkSpec
<1> DEFINE made == [i \in DOMAIN Safe!KeyedWrites |-> Safe!KeyedWrites[i].key]
<1>1. Safe!Init => Safe!Sink!Init
  <2> SUFFICES ASSUME Safe!Init PROVE made = <<>>
    BY DEF Safe!Sink!Init
  <2>1. Places(writes, KeyedType) = {}
    BY DEF Safe!Init, Places
  <2>2. Cardinality(Places(writes, KeyedType)) = 0
    BY <2>1, FS_EmptySet
  <2>3. DOMAIN Selected(writes, KeyedType) = {}
    BY <2>2 DEF Selected
  <2>4. DOMAIN made = {}
    BY <2>3, SameOperators DEF Safe!KeyedWrites, KeyedType
  <2> HIDE DEF made
  <2>5. made = [i \in {} |-> made[i]]
    BY <2>4 DEF made
  <2> QED
    BY <2>5
<1>2. SafeIInv /\ [Safe!Next]_(Safe!vars) => [Safe!Sink!Next]_made
  <2> SUFFICES ASSUME SafeIInv, [Safe!Next]_(Safe!vars) PROVE [Safe!Sink!Next]_made
    OBVIOUS
  <2>1. /\ Safe!TypeOK /\ SafeIndexIsOfWrites /\ Counted(writes, KeyedType)
        /\ writes \in Seq(WriteType)
    BY SafeTypes DEF SafeIInv, Safe!WriteInv
  <2>2. made' = KeysOf(writes') /\ made = KeysOf(writes)
    <3>1. Safe!KeyedWrites' = Selected(writes', KeyedType)
      BY SameOperators DEF Safe!KeyedWrites, KeyedType
    <3> QED
      BY <3>1, SafeEffects DEF KeysOf
  <2>3. CASE writes' = writes
    BY <2>2, <2>3
  <2>4. ASSUME NEW c \in Caller, Safe!Write(c), writes' # writes
        PROVE  Safe!Sink!Next \/ UNCHANGED made
    <3> DEFINE k == key[c]
               e == [caller |-> c, key |-> k]
    <3>1. /\ writes' = Append(writes, e) /\ e \in WriteType
          /\ k = Bad \/ (k \in Key /\ by_key[k] = 0)
      BY <2>1, <2>4, SafeWriteFacts, SafeTypes DEF WriteType
    <3>2. CASE k = Bad
      <4>1. e \notin KeyedType
        BY <3>2, GatewayParameters DEF KeyedType
      <4> QED
        BY <2>1, <2>2, <3>1, <4>1, KeysAppended
    <3>3. CASE k \in Key /\ by_key[k] = 0
      <4>1. e \in KeyedType /\ e.key = k
        BY <3>3 DEF KeyedType
      <4>2. KeysOf(writes') = Append(KeysOf(writes), k)
        BY <2>1, <3>1, <4>1, KeysAppended
      <4>3. \A n \in DOMAIN KeysOf(writes) : KeysOf(writes)[n] # k
        <5> SUFFICES ASSUME NEW n \in DOMAIN KeysOf(writes), KeysOf(writes)[n] = k PROVE FALSE
          OBVIOUS
        <5>1. PICK i \in DOMAIN writes : writes[i] \in KeyedType /\ writes[i].key = k
          BY <2>1, KeysAppended
        <5>2. by_key[k] = i /\ i # 0
          BY <2>1, <3>3, <5>1, GatewayParameters, SafeTypes DEF SafeIndexIsOfWrites
        <5> QED
          BY <3>3, <5>2
      <4>4. made' = Append(made, k) /\ \A n \in DOMAIN made : made[n] # k
        BY <2>2, <4>2, <4>3
      <4> HIDE DEF k, e
      <4>5. \E op \in Key :
              /\ ~ \E n \in DOMAIN made : made[n] = op
              /\ made' = Append(made, op)
        BY <3>3, <4>4
      <4> QED
        BY <4>5 DEF Safe!Sink!Next, Safe!Sink!Perform, Safe!Sink!Performed
    <3> QED
      BY <3>1, <3>2, <3>3
  <2>5. writes' = writes \/ \E c \in Caller : Safe!Write(c)
    BY DEF Safe!Next, Safe!vars, Safe!Attempt, Safe!Answered, Safe!FailedBefore,
           Safe!LostResponse
  <2> QED
    BY <2>3, <2>4, <2>5
<1> QED
  BY <1>1, <1>2, SafeInvariant, PTL DEF Safe!Spec, Safe!SinkSpec, Safe!Sink!Spec
=============================================================================
