----------------------------- MODULE ToolGateway -----------------------------
(***************************************************************************)
(* ToolGateway and FakeExternalService of lab02.py: concurrent calls of    *)
(* one event loop that are checked, written to a slow service under a      *)
(* timeout, and audited.  direct_write, the baseline, hands whatever it is *)
(* given to the service, without a key, a timeout or an audit; here it may *)
(* do so beside the gateway.                                               *)
(*                                                                         *)
(* A call suspends in service.write before the write, and the timeout      *)
(* cancels it there.  asyncio.wait_for of Python 3.11 runs the write in a  *)
(* task of its own, so that other calls may run between the write and the  *)
(* audit; later versions do both at once, which is one of the orders here. *)
(***************************************************************************)
EXTENDS Integers, Sequences, FiniteSets, Subsequences

CONSTANTS
  Caller,           \* callers; each makes one request and may repeat it
  Action,           \* the actions a payload may name
  allowed_actions,  \* the permitted ones
  Key,              \* the idempotency keys
  Bad,              \* a missing, empty or ill-typed action or value; a missing or empty key
  Unhashable,       \* any other key that is no dictionary key, a list for example
  MaxCalls          \* bound on the calls of each caller

ASSUME GatewayParameters ==
  /\ IsFiniteSet(Caller) /\ allowed_actions \subseteq Action
  /\ Bad \notin Action \cup Key \cup {"good"} /\ Unhashable \notin Key \cup {Bad}

ASSUME GatewayBounds == MaxCalls \in Nat \ {0}

VARIABLES
  request,      \* request[c]: by direct_write or not; action, good value or not, key
  writes,       \* service.writes: here whose call wrote, and under which key
  results,      \* service.idempotency_results: the index of the write, or 0
  pc, calls,    \* where the call of c is, and how many calls c made
  answer,       \* the index of the write a call was told of, or 0
  audit,        \* the gateway's audit events
  abandoned     \* history: the calls of c that ended without an answer or an event

service == <<writes, results>>
vars == <<request, service, pc, calls, answer, audit, abandoned>>

\* direct_write gives no key.
Request ==
  {r \in [direct : BOOLEAN, action : Action \cup {Bad}, value : {"good", Bad},
          key : Key \cup {Bad, Unhashable}] : r.direct => r.key = Bad}

Init ==
  /\ request \in [Caller -> Request]
  /\ writes = <<>> /\ results = [k \in Key |-> 0]
  /\ pc = [c \in Caller |-> "ready"] /\ calls = [c \in Caller |-> 0]
  /\ answer = [c \in Caller |-> 0]
  /\ audit = <<>> /\ abandoned = [c \in Caller |-> 0]

Audit(c, r) == audit' = Append(audit, [caller |-> c, allowed |-> r = "allowed", reason |-> r])

\* Mutant of Verdict: the permission is not checked.
Verdict_AnyAction(r) ==
  IF r.action = Bad THEN "invalid_action"
  ELSE IF r.value = Bad THEN "invalid_value"
  ELSE IF r.key = Bad THEN "missing_idempotency_key"
  ELSE "valid"

\* The checks in their order; the first that fails is the reason audited.
Verdict(r) ==
  IF r.action = Bad THEN "invalid_action"
  ELSE IF r.value = Bad THEN "invalid_value"
  ELSE IF r.action \notin allowed_actions THEN "unauthorized_action"
  ELSE IF r.key = Bad THEN "missing_idempotency_key"
  ELSE "valid"

Deny(c) ==
  /\ pc[c] = "ready" /\ ~ request[c].direct
  /\ Verdict(request[c]) # "valid"
  /\ Audit(c, Verdict(request[c]))
  /\ pc' = [pc EXCEPT ![c] = "denied"] /\ calls' = [calls EXCEPT ![c] = @ + 1]
  /\ UNCHANGED <<request, service, answer, abandoned>>

Call(c) ==
  /\ pc[c] = "ready"
  /\ request[c].direct \/ Verdict(request[c]) = "valid"
  /\ pc' = [pc EXCEPT ![c] = "writing"] /\ calls' = [calls EXCEPT ![c] = @ + 1]
  /\ UNCHANGED <<request, service, answer, audit, abandoned>>

\* Mutant of Known: the key is not looked up.
Known_Never(k) == 0

\* The earlier write under the key, or 0.
Known(k) == IF k = Bad THEN 0 ELSE results[k]

\* service.write after its delay.
Write(c) ==
  /\ pc[c] = "writing" /\ request[c].key # Unhashable
  /\ LET k == request[c].key IN
     /\ answer' = [answer EXCEPT ![c] = IF Known(k) # 0 THEN Known(k) ELSE Len(writes) + 1]
     /\ writes' = IF Known(k) # 0 THEN writes ELSE Append(writes, [caller |-> c, key |-> k])
     /\ results' = IF k = Bad THEN results ELSE [results EXCEPT ![k] = answer'[c]]
  /\ pc' = [pc EXCEPT ![c] = "written"]
  /\ UNCHANGED <<request, calls, audit, abandoned>>

\* Mutant of Timeout: the write is not cancelled and goes on after the answer.
Timeout_WriteGoesOn(c) ==
  /\ pc[c] \in {"writing", "written"} /\ ~ request[c].direct
  /\ Audit(c, "timeout")
  /\ pc' = [pc EXCEPT ![c] = "timed_out"]
  /\ UNCHANGED <<request, service, calls, answer, abandoned>>

\* wait_for cancels the write in its delay; a write that is done is returned.
Timeout(c) ==
  /\ pc[c] = "writing" /\ ~ request[c].direct
  /\ Audit(c, "timeout")
  /\ pc' = [pc EXCEPT ![c] = "timed_out"]
  /\ UNCHANGED <<request, service, calls, answer, abandoned>>

\* Mutant of Return: the answer is not audited.
Return_Unaudited(c) ==
  /\ pc[c] = "written"
  /\ pc' = [pc EXCEPT ![c] = "answered"]
  /\ UNCHANGED <<request, service, calls, answer, audit, abandoned>>

Return(c) ==
  /\ pc[c] = "written"
  /\ IF request[c].direct THEN UNCHANGED audit ELSE Audit(c, "allowed")
  /\ pc' = [pc EXCEPT ![c] = "answered"]
  /\ UNCHANGED <<request, service, calls, answer, abandoned>>

\* The delay ends in another way than by a write or the timeout: the task of the caller
\* is cancelled, or the look-up of an unhashable key raises a TypeError.  write has no
\* clause for either, and does not audit them.
Abandon(c) ==
  /\ pc[c] = "writing"
  /\ abandoned' = [abandoned EXCEPT ![c] = @ + 1]
  /\ pc' = [pc EXCEPT ![c] = "abandoned"]
  /\ UNCHANGED <<request, service, calls, answer, audit>>

\* A caller whose call timed out, was abandoned or answered makes it again.
Repeat(c) ==
  /\ pc[c] \in {"timed_out", "abandoned", "answered"} /\ calls[c] < MaxCalls
  /\ pc' = [pc EXCEPT ![c] = "ready"] /\ answer' = [answer EXCEPT ![c] = 0]
  /\ UNCHANGED <<request, service, calls, audit, abandoned>>

Gateway(c) == Deny(c) \/ Call(c) \/ Write(c) \/ Timeout(c) \/ Return(c) \/ Abandon(c)

Next == \E c \in Caller : Gateway(c) \/ Repeat(c)

Spec == Init /\ [][Next]_vars

-----------------------------------------------------------------------------
(* Properties                                                              *)

Reason ==
  {"allowed", "timeout", "invalid_action", "invalid_value", "unauthorized_action",
   "missing_idempotency_key"}

TypeOK ==
  /\ request \in [Caller -> Request]
  /\ writes \in Seq([caller : Caller, key : Key \cup {Bad}]) /\ results \in [Key -> 0 .. Len(writes)]
  /\ pc \in [Caller -> {"ready", "denied", "writing", "timed_out", "written", "answered",
                         "abandoned"}]
  /\ calls \in [Caller -> 0 .. MaxCalls] /\ answer \in [Caller -> 0 .. Len(writes)]
  /\ audit \in Seq([caller : Caller, allowed : BOOLEAN, reason : Reason])
  /\ abandoned \in [Caller -> Nat]

WritesOf(c) == {i \in DOMAIN writes : writes[i].caller = c}
Events(c, r) == {i \in DOMAIN audit : audit[i].caller = c /\ audit[i].reason = r}

\* A call that was only ever denied, timed out or abandoned has no write behind it: the
\* effect of a timed-out call is made by its repetition, if at all.  It rests on the only
\* await of this service, before the write; a service that suspends after its commit is
\* what labs/02-tool-gateway/RESULT.md leaves to lab 3 ("ambiguous timeout-after-commit").
NoEffectBehindTimeout ==
  \A c \in Caller :
    WritesOf(c) # {} /\ ~ request[c].direct =>
      pc[c] = "written" \/ Events(c, "allowed") # {}

\* "Structured allow/deny audit events": every call of the gateway that is denied, times
\* out or is answered has exactly one event, and one that is not finished or was
\* abandoned none.  A direct call has a write of its own instead, unless it is not
\* finished or was abandoned, and no event.
CallsAccountedFor ==
  \A c \in Caller :
    LET audited == Cardinality({i \in DOMAIN audit : audit[i].caller = c}) IN
    IF request[c].direct
    THEN /\ audited = 0
         /\ Cardinality(WritesOf(c)) + abandoned[c] = calls[c] - (IF pc[c] = "writing" THEN 1 ELSE 0)
    ELSE audited + abandoned[c] = calls[c] - (IF pc[c] \in {"writing", "written"} THEN 1 ELSE 0)

\* Whatever calls run at the same time, the gateway writes nothing for a payload that
\* is malformed or not permitted, and an "allowed" event is one of a written effect.
OnlyPermittedWrites ==
  /\ \A i \in DOMAIN writes :
       LET r == request[writes[i].caller] IN
       ~ r.direct => r.action \in allowed_actions /\ r.value = "good"
  /\ \A i \in DOMAIN audit : audit[i].allowed => results[request[audit[i].caller].key] # 0

\* The calls made under one key, at once or after one another, are all told of the
\* one effect made under it.
SameKeySameAnswer ==
  \A c \in Caller :
    pc[c] \in {"written", "answered"} /\ ~ request[c].direct =>
      /\ answer[c] # 0 /\ writes[answer[c]].key = request[c].key
      /\ answer[c] = results[request[c].key]

\* The well-formed state: types, permitted writes only, and one effect behind all
\* answers of a key.
GatewayInv == TypeOK /\ OnlyPermittedWrites /\ SameKeySameAnswer

\* The keyed writes, in order: the service is the at-most-once sink, an operation
\* being a key, whatever is written past the gateway meanwhile.
KeyedWrites == Selected(writes, [caller : Caller, key : Key])
Sink == INSTANCE EffectSink WITH
  Operation <- Key, effects <- [i \in DOMAIN KeyedWrites |-> KeyedWrites[i].key]

SinkSpec == Sink!Spec
=============================================================================
