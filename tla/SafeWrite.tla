------------------------------ MODULE SafeWrite ------------------------------
(***************************************************************************)
(* safe_write, blind_retry_write and FakeAmbiguousService of lab03.py:     *)
(* callers that write through a service that may fail before the commit    *)
(* or lose its response after the commit.                                  *)
(*                                                                         *)
(* Several callers run in one event loop and share the service.  Neither   *)
(* service.write nor read_by_idempotency_key suspends, so an attempt with  *)
(* its reconciliation is one action; a call of safe_write suspends only in *)
(* the backoff between two attempts, where the others may run.             *)
(* blind_retry_write never suspends, but an attempt of it reads nothing    *)
(* that others write, so that letting others run between its attempts      *)
(* changes none of its answers.                                            *)
(***************************************************************************)
EXTENDS Integers, Sequences, FiniteSets, Subsequences

CONSTANTS
  Caller,       \* the calls of safe_write or blind_retry_write
  Key,          \* the idempotency keys
  NoKey,        \* the empty key, or none: the service treats both as no key
  MaxAttempts   \* max_attempts

ASSUME SafeWriteParameters ==
  /\ IsFiniteSet(Caller) /\ NoKey \notin Key
  /\ MaxAttempts \in Nat \ {0}

VARIABLES
  key,          \* key[c]: the key c writes under, fixed
  writes,       \* service.writes: here who wrote, and under which key
  by_key,       \* service.by_key: the index of the write, 0 without one
  pc,           \* "ready" for an attempt, or how the call ended
  attempt,      \* the attempts a call has made
  result,       \* the write a call was told of, 0 without one
  lost          \* history: how many of its attempts lost their response

vars == <<key, writes, by_key, pc, attempt, result, lost>>

\* A call without a key is one of blind_retry_write, or of safe_write with "".
Init ==
  /\ key \in [Caller -> Key \cup {NoKey}]
  /\ writes = <<>>
  /\ by_key = [k \in Key |-> 0]
  /\ pc = [c \in Caller |-> "ready"]
  /\ attempt = [c \in Caller |-> 0]
  /\ result = [c \in Caller |-> 0]
  /\ lost = [c \in Caller |-> 0]

Keyed(c) == key[c] # NoKey

-----------------------------------------------------------------------------
(* FakeAmbiguousService.write, when it does not fail before the commit     *)

Found(c) == Keyed(c) /\ by_key[key[c]] # 0

WrittenAt(c) == IF Found(c) THEN by_key[key[c]] ELSE Len(writes) + 1

\* Mutant of Write: the result is not kept under the key.
Write_Unindexed(c) ==
  /\ writes' = IF Found(c) THEN writes ELSE Append(writes, [caller |-> c, key |-> key[c]])
  /\ UNCHANGED by_key

Write(c) ==
  /\ writes' = IF Found(c) THEN writes ELSE Append(writes, [caller |-> c, key |-> key[c]])
  /\ by_key' = IF Keyed(c) THEN [by_key EXCEPT ![key[c]] = WrittenAt(c)] ELSE by_key

-----------------------------------------------------------------------------
(* An attempt of the call c                                                *)

\* The attempt failed: back off, or raise its error after the last one.
NextTry(c) ==
  /\ attempt' = [attempt EXCEPT ![c] = @ + 1]
  /\ pc' = [pc EXCEPT ![c] = IF attempt'[c] < MaxAttempts THEN "ready" ELSE "raised"]

Returns(c, i) ==
  /\ attempt' = [attempt EXCEPT ![c] = @ + 1]
  /\ pc' = [pc EXCEPT ![c] = "returned"]
  /\ result' = [result EXCEPT ![c] = i]

\* The service answers.
Answered(c) ==
  /\ pc[c] = "ready"
  /\ Write(c)
  /\ Returns(c, WrittenAt(c))
  /\ UNCHANGED <<key, lost>>

\* "precommit_failure": nothing was written.
FailedBefore(c) ==
  /\ pc[c] = "ready"
  /\ NextTry(c)
  /\ UNCHANGED <<key, writes, by_key, result, lost>>

\* Mutant of LostResponse: a lost response is taken for a failure.
LostResponse_Retried(c) ==
  /\ pc[c] = "ready"
  /\ Write(c)
  /\ lost' = [lost EXCEPT ![c] = @ + 1]
  /\ NextTry(c)
  /\ UNCHANGED <<key, result>>

\* "postcommit_timeout": written, but the response is lost.  With a key, reading
\* by the key finds the write; without one, the blind retry goes on, and so does
\* safe_write with an empty key, which finds nothing.
LostResponse(c) ==
  /\ pc[c] = "ready"
  /\ Write(c)
  /\ lost' = [lost EXCEPT ![c] = @ + 1]
  /\ IF Keyed(c) THEN Returns(c, WrittenAt(c)) ELSE NextTry(c) /\ UNCHANGED result
  /\ UNCHANGED key

Attempt(c) == Answered(c) \/ FailedBefore(c) \/ LostResponse(c)

Next == \E c \in Caller : Attempt(c)

Spec == Init /\ [][Next]_vars

-----------------------------------------------------------------------------
(* Properties                                                              *)

TypeOK ==
  /\ key \in [Caller -> Key \cup {NoKey}]
  /\ writes \in Seq([caller : Caller, key : Key \cup {NoKey}])
  /\ by_key \in [Key -> 0 .. Len(writes)]
  /\ pc \in [Caller -> {"ready", "returned", "raised"}]
  /\ attempt \in [Caller -> 0 .. MaxAttempts]
  /\ result \in [Caller -> 0 .. Len(writes)]
  /\ lost \in [Caller -> 0 .. MaxAttempts]

WritesOf(c) == {i \in DOMAIN writes : writes[i].caller = c}

\* A result is that of a write made under the caller's own key: no call is told of
\* an effect that is not there, or of somebody else's operation.
ResultIsWritten ==
  \A c \in Caller :
    pc[c] = "returned" => result[c] # 0 /\ writes[result[c]].key = key[c]

\* "Retry only known pre-commit failures": a keyed call that raises, or that is
\* still trying, has written nothing, so nothing has to be undone and a later call
\* under the key is safe.  Without a key, what blind retry costs: each lost response
\* is one more physical write than the one the call returns, even if it raises.
WritesAccountedFor ==
  \A c \in Caller :
    IF Keyed(c)
    THEN pc[c] # "returned" => WritesOf(c) = {} /\ lost[c] = 0
    ELSE Cardinality(WritesOf(c)) = lost[c] + (IF pc[c] = "returned" THEN 1 ELSE 0)

\* The well-formed state: results point to the right writes, and every write is the
\* result of a call or the price of a lost response.
WriteInv == TypeOK /\ ResultIsWritten /\ WritesAccountedFor

\* The keyed writes, in order: the at-most-once sink, an operation being a key.
KeyedWrites == Selected(writes, [caller : Caller, key : Key])
Sink == INSTANCE EffectSink WITH
  Operation <- Key, effects <- [i \in DOMAIN KeyedWrites |-> KeyedWrites[i].key]

\* However many callers share a key, their operation is written at most once.
SinkSpec == Sink!Spec
=============================================================================
