--------------------------- MODULE AgentLoopProofs ---------------------------
(***************************************************************************)
(* Proofs about lab 1, for any number of runs that share a tool, every     *)
(* step budget and every set of injected failures: the strengthening       *)
(* IInv says where each run stands, from which the budget, the number of   *)
(* calls and the story of the trace follow.                                *)
(***************************************************************************)
EXTENDS AgentLoop, SequenceTheorems, FiniteSetTheorems, TLAPS

-----------------------------------------------------------------------------
(* Events of a trace                                                       *)

\* What Append keeps of a sequence, and what it adds.
LEMMA AppendFacts ==
  ASSUME NEW S, NEW q \in Seq(S), NEW e \in S
  PROVE  /\ Append(q, e) \in Seq(S)
         /\ Len(Append(q, e)) = Len(q) + 1
         /\ DOMAIN Append(q, e) = DOMAIN q \cup {Len(q) + 1}
         /\ \A i \in DOMAIN q : i # Len(q) + 1 /\ Append(q, e)[i] = q[i]
         /\ Append(q, e)[Len(q) + 1] = e
  OBVIOUS

\* Events put one after another.
LEMMA ConcatFacts ==
  ASSUME NEW S, NEW q \in Seq(S), NEW t \in Seq(S)
  PROVE  /\ q \o t \in Seq(S) /\ Len(q \o t) = Len(q) + Len(t)
         /\ \A i \in 1 .. Len(q) : (q \o t)[i] = q[i]
         /\ \A i \in 1 .. Len(t) : (q \o t)[Len(q) + i] = t[i]
  OBVIOUS

\* Two events, one after the other.
LEMMA TwoEvents ==
  ASSUME NEW S, NEW a \in S, NEW b \in S
  PROVE  <<a>> \o <<b>> = <<a, b>>
<1> DEFINE q == <<a>> \o <<b>>
<1>1. q \in Seq(S) /\ Len(q) = 2 /\ q[1] = a /\ q[1 + 1] = b
  BY ConcatFacts
<1> HIDE DEF q
<1>2. q = <<q[1], q[2]>>
  BY <1>1
<1>3. q = <<a, b>>
  BY <1>1, <1>2
<1> QED
  BY <1>3 DEF q

\* One event, then two.
LEMMA ThreeEvents ==
  ASSUME NEW S, NEW a \in S, NEW b \in S, NEW c \in S
  PROVE  <<a>> \o <<b, c>> = <<a, b, c>>
<1> DEFINE q == <<a>> \o <<b, c>>
<1>1. /\ <<a>> \in Seq(S) /\ <<b, c>> \in Seq(S) /\ Len(<<a>>) = 1 /\ Len(<<b, c>>) = 2
      /\ <<a>>[1] = a /\ <<b, c>>[1] = b /\ <<b, c>>[2] = c
  OBVIOUS
<1>2. q \in Seq(S) /\ Len(q) = 3 /\ q[1] = a
  BY <1>1, ConcatFacts
<1>3. q[1 + 1] = b /\ q[1 + 2] = c
  BY <1>1, ConcatFacts
<1> HIDE DEF q
<1>4. q[1] = a /\ q[2] = b /\ q[3] = c
  BY <1>2, <1>3
<1>5. q = <<q[1], q[2], q[3]>>
  BY <1>2
<1>6. q = <<a, b, c>>
  BY <1>4, <1>5
<1> QED
  BY <1>6 DEF q

\* Two events, then one.
LEMMA AppendThird ==
  ASSUME NEW S, NEW a \in S, NEW b \in S, NEW c \in S
  PROVE  <<a, b>> \o <<c>> = <<a, b, c>>
<1> DEFINE q == <<a, b>> \o <<c>>
<1>1. /\ <<a, b>> \in Seq(S) /\ <<c>> \in Seq(S) /\ Len(<<a, b>>) = 2 /\ Len(<<c>>) = 1
      /\ <<a, b>>[1] = a /\ <<a, b>>[2] = b /\ <<c>>[1] = c
  OBVIOUS
<1>2. q \in Seq(S) /\ Len(q) = 3 /\ q[1] = a /\ q[2] = b
  BY <1>1, ConcatFacts
<1>3. q[2 + 1] = c
  BY <1>1, ConcatFacts
<1> HIDE DEF q
<1>4. q[3] = c
  BY <1>3
<1>5. q = <<q[1], q[2], q[3]>>
  BY <1>2
<1>6. q = <<a, b, c>>
  BY <1>2, <1>4, <1>5
<1> QED
  BY <1>6 DEF q

\* The step of the event at a place among the observations, and which of its three.
LEMMA ThreeEach ==
  ASSUME NEW n \in Nat, NEW k \in 1 .. 3 * n
  PROVE  (k - 1) \div 3 \in 0 .. n - 1 /\ (k - 1) % 3 \in {0, 1, 2}
  OBVIOUS

\* The three events after those of n steps are of the next step.
LEMMA NextThree ==
  ASSUME NEW n \in Nat, NEW j \in {1, 2, 3}
  PROVE  (3 * n + j - 1) \div 3 = n /\ (3 * n + j - 1) % 3 = j - 1
  OBVIOUS

\* An observed step has three events.
LEMMA ObservedEvents ==
  ASSUME NEW i \in Nat
  PROVE  /\ StepEvents(i, "observed") =
              <<Event("decision", i), Event("tool_started", i), Event("tool_succeeded", i)>>
         /\ StepEvents(i, "observed") \in Seq(EventType)
         /\ \A j \in {1, 2, 3} : StepEvents(i, "observed")[j] \in EventType
<1> DEFINE d == Event("decision", i)
           t == Event("tool_started", i)
           s == Event("tool_succeeded", i)
<1>1. d \in EventType /\ t \in EventType /\ s \in EventType
  BY DEF Event, EventType
<1>2. StepEvents(i, "observed") = <<d>> \o <<t, s>>
  BY DEF StepEvents
<1> HIDE DEF d, t, s
<1>3. <<d>> \o <<t, s>> = <<d, t, s>>
  BY <1>1, ThreeEvents
<1>4. <<d, t, s>> \in Seq(EventType) /\ \A j \in {1, 2, 3} : <<d, t, s>>[j] \in EventType
  BY <1>1
<1> QED
  BY <1>2, <1>3, <1>4 DEF d, t, s

\* The observations of n steps are 3 * n events.
LEMMA ObservationsType ==
  ASSUME NEW n \in Nat
  PROVE  Observations(n) \in Seq(EventType) /\ Len(Observations(n)) = 3 * n
<1>1. \A k \in 1 .. 3 * n :
        StepEvents((k - 1) \div 3, "observed")[((k - 1) % 3) + 1] \in EventType
  <2> TAKE k \in 1 .. 3 * n
  <2>1. (k - 1) \div 3 \in Nat /\ ((k - 1) % 3) + 1 \in {1, 2, 3}
    BY ThreeEach
  <2> QED
    BY <2>1, ObservedEvents
<1>2. 3 * n \in Nat
  OBVIOUS
<1> QED
  BY <1>1, <1>2 DEF Observations

\* Nothing was observed at first.
LEMMA NoObservations == Observations(0) = <<>>
  BY DEF Observations

\* One more observed step is three more events.
LEMMA ObservationsGrow ==
  ASSUME NEW n \in Nat
  PROVE  Observations(n + 1) = Observations(n) \o StepEvents(n, "observed")
<1> DEFINE more == Observations(n) \o StepEvents(n, "observed")
<1>1. /\ Observations(n) \in Seq(EventType) /\ Len(Observations(n)) = 3 * n
      /\ Observations(n + 1) \in Seq(EventType) /\ Len(Observations(n + 1)) = 3 * (n + 1)
  BY ObservationsType
<1>2. /\ StepEvents(n, "observed") \in Seq(EventType)
      /\ Len(StepEvents(n, "observed")) = 3
  BY ObservedEvents
<1>3. more \in Seq(EventType) /\ Len(more) = 3 * (n + 1)
  <2>1. more \in Seq(EventType) /\ Len(more) = Len(Observations(n)) + Len(StepEvents(n, "observed"))
    BY <1>1, <1>2, ConcatFacts
  <2>2. 3 * (n + 1) = 3 * n + 3
    OBVIOUS
  <2> HIDE DEF more
  <2>3. Len(more) = 3 * n + 3
    BY <1>1, <1>2, <2>1
  <2> QED
    BY <2>1, <2>2, <2>3
<1>4. ASSUME NEW k \in 1 .. 3 * (n + 1)
      PROVE  Observations(n + 1)[k] = more[k]
  <2>1. CASE k <= 3 * n
    <3>1. Observations(n + 1)[k] = Observations(n)[k]
      BY <2>1 DEF Observations
    <3> QED
      BY <1>1, <1>2, <2>1, <3>1
  <2>2. CASE k > 3 * n
    <3>1. PICK j \in {1, 2, 3} : k = 3 * n + j
      BY <2>2
    <3>2. more[k] = StepEvents(n, "observed")[j]
      BY <1>1, <1>2, <3>1
    <3>3. (k - 1) \div 3 = n /\ ((k - 1) % 3) + 1 = j
      BY <3>1, NextThree
    <3>4. Observations(n + 1)[k] = StepEvents(n, "observed")[j]
      BY <3>3 DEF Observations
    <3> QED
      BY <3>2, <3>4
  <2>3. k <= 3 * n \/ k > 3 * n
    OBVIOUS
  <2> QED
    BY <2>1, <2>2, <2>3
<1> DEFINE obs == Observations(n + 1)
           m == 3 * (n + 1)
<1>5. /\ obs \in Seq(EventType) /\ Len(obs) = m
      /\ more \in Seq(EventType) /\ Len(more) = m
      /\ \A k \in 1 .. m : obs[k] = more[k]
  BY <1>1, <1>3, <1>4
<1> HIDE DEF more, obs, m
<1>6. obs = more
  BY <1>5
<1> QED
  BY <1>6 DEF more, obs

-----------------------------------------------------------------------------
(* The inductive invariant                                                 *)

Started == <<Event("run_started", None)>>

\* The trace of a run that has only observed, and its beginnings of a call.
SoFar(r) == Started \o Observations(Len(steps[r]))
CallBegun(r) == <<Event("decision", Index(r)), Event("tool_started", Index(r))>>

AllObserved(r) == \A i \in DOMAIN steps[r] : steps[r][i] = "observed"

\* A run that goes on, or was left by an exception of its policy.
Going(r) ==
  /\ status[r] = "running" /\ tool_failures[r] = 0
  /\ AllObserved(r)
  /\ Len(steps[r]) + (IF InCall(r) THEN 1 ELSE 0) <= max_steps[r]
  /\ Len(number[r]) = Len(steps[r]) + (IF pc[r] = "executing" THEN 1 ELSE 0)
  /\ pc[r] = "new" => steps[r] = <<>> /\ events[r] = <<>>
  /\ pc[r] \in {"deciding", "raised"} => events[r] = SoFar(r)
  /\ InCall(r) => events[r] = SoFar(r) \o CallBegun(r)

\* A run that used up its budget, each step of it an observation.
UsedUp(r) ==
  /\ status[r] = "budget_exhausted" /\ tool_failures[r] = 0
  /\ AllObserved(r)
  /\ Len(steps[r]) = max_steps[r] /\ Len(number[r]) = Len(steps[r])

Failed(outcome) == outcome \in {"error", "timeout"}

\* A run whose last step ended it: the others are observations, and the last is a
\* call only if it failed as one.
Ended(r) ==
  LET n == Len(steps[r])
  IN  /\ n > 0 /\ n <= max_steps[r]
      /\ \A i \in 1 .. n - 1 : steps[r][i] = "observed"
      /\ steps[r][n] # "observed"
      /\ status[r] = IF steps[r][n] = "final" THEN "succeeded" ELSE "failed"
      /\ tool_failures[r] = IF Failed(steps[r][n]) THEN 1 ELSE 0
      /\ Len(number[r]) = IF Failed(steps[r][n]) THEN n ELSE n - 1

\* The trace of a run up to its last event.
Told(outcomes, ending) ==
  Started \o
    (IF ending = "budget_exhausted"
     THEN Observations(Len(outcomes)) \o <<Event("step_budget_exhausted", None)>>
     ELSE Observations(Len(outcomes) - 1)
            \o StepEvents(Len(outcomes) - 1, outcomes[Len(outcomes)]))

Over(r) == pc[r] \in {"finishing", "finished"}

RunOK(r) ==
  /\ ~ Over(r) => Going(r)
  /\ Over(r) => UsedUp(r) \/ Ended(r)
  /\ pc[r] = "finishing" => events[r] = Told(steps[r], status[r])
  /\ pc[r] = "finished" => events[r] = Trace(steps[r], status[r])

\* Every call of the tool has its own number.
NumberedOnce ==
  /\ \A call \in CallsMade : NumberOf(call) \in 1 .. calls
  /\ \A c, d \in CallsMade : NumberOf(c) = NumberOf(d) => c = d
  /\ \A n \in 1 .. calls : \E call \in CallsMade : NumberOf(call) = n

IInv ==
  /\ TypeOK
  /\ \A r \in Run : RunOK(r)
  /\ NumberedOnce /\ FailsAsInjected

\* The types, one by one.
LEMMA TypeFacts ==
  ASSUME TypeOK, NEW r \in Run
  PROVE  /\ max_steps[r] \in Nat /\ steps[r] \in Seq(Outcome) /\ Len(steps[r]) \in Nat
         /\ events[r] \in Seq(EventType) /\ number[r] \in Seq(Nat) /\ Len(number[r]) \in Nat
         /\ tool_failures[r] \in Nat /\ calls \in Nat
         /\ DOMAIN steps[r] = 1 .. Len(steps[r]) /\ DOMAIN number[r] = 1 .. Len(number[r])
<1>1. max_steps[r] \in Nat
  BY LoopParameters DEF TypeOK
<1>2. /\ steps[r] \in Seq(Outcome) /\ events[r] \in Seq(EventType)
      /\ number[r] \in Seq(Nat) /\ tool_failures[r] \in Nat /\ calls \in Nat
  BY DEF TypeOK
<1> QED
  BY <1>1, <1>2

\* Every kind of event that is emitted is one.
LEMMA EventTypes ==
  ASSUME NEW i \in Nat \cup {None}
  PROVE  /\ Event("run_started", i) \in EventType /\ Event("decision", i) \in EventType
         /\ Event("tool_started", i) \in EventType /\ Event("tool_succeeded", i) \in EventType
         /\ Event("tool_failed", i) \in EventType /\ Event("run_succeeded", i) \in EventType
         /\ Event("run_failed", i) \in EventType /\ Event("run_finished", i) \in EventType
         /\ Event("step_budget_exhausted", i) \in EventType
  BY DEF Event, EventType

\* What a policy can end a run with.
LEMMA Verdicts ==
  /\ DOMAIN Verdict = {"final", "invalid", "unknown"}
  /\ Verdict["final"] = [status |-> "succeeded", event |-> "run_succeeded"]
  /\ Verdict["invalid"] = [status |-> "failed", event |-> "run_failed"]
  /\ Verdict["unknown"] = [status |-> "failed", event |-> "tool_failed"]
  BY DEF Verdict

\* The fields of a run stay as they are.
SameRun(q) ==
  /\ max_steps'[q] = max_steps[q] /\ status'[q] = status[q] /\ steps'[q] = steps[q]
  /\ events'[q] = events[q] /\ tool_failures'[q] = tool_failures[q]
  /\ pc'[q] = pc[q] /\ number'[q] = number[q]

\* An action of a run leaves the fields of the others alone.
LEMMA OthersKeep ==
  ASSUME TypeOK, NEW r \in Run, Loop(r) \/ ExecuteEnds(r), NEW q \in Run \ {r}
  PROVE  SameRun(q)
<1> USE DEF TypeOK, SameRun, Goto, Emit, record
<1>1. CASE StartRun(r) \/ Exhaust(r) \/ DecideRaises(r) \/ DecideTool(r) \/ Finish(r)
  BY <1>1 DEF StartRun, Exhaust, DecideRaises, DecideTool, Finish
<1>2. ASSUME NEW d \in DOMAIN Verdict, DecideEnd(r, d)
      PROVE  SameRun(q)
  BY <1>2 DEF DecideEnd
<1>3. CASE ExecuteBegins(r)
  BY <1>3 DEF ExecuteBegins
<1>4. CASE Timeout(r)
  BY <1>4 DEF Timeout, Fail
<1>5. CASE ExecuteEnds(r)
  BY <1>5 DEF ExecuteEnds, Fail, Observe
<1> QED
  BY <1>1, <1>2, <1>3, <1>4, <1>5 DEF Loop

\* What is known of a run is about its own fields.
LEMMA SameRunOK ==
  ASSUME NEW q \in Run, SameRun(q), RunOK(q)
  PROVE  RunOK(q)'
  BY DEF SameRun, RunOK, Over, Going, UsedUp, Ended, AllObserved, InCall, SoFar, CallBegun, Index

\* What a run emits is put behind its events.
LEMMA EmitFacts ==
  ASSUME TypeOK, NEW r \in Run, NEW es \in Seq(EventType), Emit(r, es)
  PROVE  events'[r] = events[r] \o es /\ events' \in [Run -> Seq(EventType)]
<1>1. events'[r] = events[r] \o es
  BY DEF TypeOK, Emit
<1>2. events[r] \o es \in Seq(EventType)
  BY TypeFacts, ConcatFacts
<1> QED
  BY <1>1, <1>2 DEF TypeOK, Emit

\* A step that is recorded is put behind the others.
LEMMA StepFacts ==
  ASSUME TypeOK, NEW r \in Run, NEW o \in Outcome, steps' = [steps EXCEPT ![r] = Append(@, o)]
  PROVE  /\ steps' \in [Run -> Seq(Outcome)]
         /\ Len(steps'[r]) = Len(steps[r]) + 1
         /\ DOMAIN steps'[r] = DOMAIN steps[r] \cup {Len(steps[r]) + 1}
         /\ \A i \in DOMAIN steps[r] : i # Len(steps[r]) + 1 /\ steps'[r][i] = steps[r][i]
         /\ steps'[r][Len(steps[r]) + 1] = o
         /\ Len(steps[r]) \in Nat /\ DOMAIN steps[r] = 1 .. Len(steps[r])
<1>1. steps'[r] = Append(steps[r], o) /\ steps[r] \in Seq(Outcome)
  BY DEF TypeOK
<1>2. Append(steps[r], o) \in Seq(Outcome)
  BY <1>1
<1> QED
  BY <1>1, <1>2, AppendFacts DEF TypeOK

-----------------------------------------------------------------------------
(* The traces                                                              *)

\* The observations with what is emitted behind them.
LEMMA TraceTypes ==
  ASSUME NEW n \in Nat
  PROVE  /\ Started \in Seq(EventType) /\ Observations(n) \in Seq(EventType)
         /\ Started \o Observations(n) \in Seq(EventType)
         /\ \A es \in Seq(EventType) :
              (Started \o Observations(n)) \o es = Started \o (Observations(n) \o es)
<1>1. Started \in Seq(EventType)
  <2>1. Event("run_started", None) \in EventType
    BY DEF Event, EventType
  <2> QED
    BY <2>1 DEF Started
<1>2. Observations(n) \in Seq(EventType)
  BY ObservationsType
<1>3. Started \o Observations(n) \in Seq(EventType)
  BY <1>1, <1>2, ConcatFacts
<1>4. ASSUME NEW es \in Seq(EventType)
      PROVE  (Started \o Observations(n)) \o es = Started \o (Observations(n) \o es)
  BY <1>1, <1>2, ConcatAssociative
<1> QED
  BY <1>1, <1>2, <1>3, <1>4

\* The events of a step that ends a run, after those that it began with.
LEMMA LastStepEvents ==
  ASSUME NEW i \in Nat
  PROVE  /\ \A o \in {"error", "timeout"} :
              StepEvents(i, o) =
                <<Event("decision", i), Event("tool_started", i)>> \o <<Event("tool_failed", i)>>
         /\ \A d \in DOMAIN Verdict :
              StepEvents(i, d) = <<Event("decision", i), Event(Verdict[d].event, i)>>
         /\ StepEvents(i, "observed") =
              <<Event("decision", i), Event("tool_started", i)>> \o <<Event("tool_succeeded", i)>>
<1> DEFINE d == Event("decision", i)
           t == Event("tool_started", i)
           f == Event("tool_failed", i)
           s == Event("tool_succeeded", i)
           rs == Event("run_succeeded", i)
           rf == Event("run_failed", i)
<1>1. /\ d \in EventType /\ t \in EventType /\ f \in EventType /\ s \in EventType
      /\ rs \in EventType /\ rf \in EventType
  BY EventTypes
<1>2. /\ \A o \in {"error", "timeout"} : StepEvents(i, o) = <<d>> \o <<t, f>>
      /\ StepEvents(i, "observed") = <<d>> \o <<t, s>>
      /\ StepEvents(i, "final") = <<d>> \o <<rs>>
      /\ StepEvents(i, "invalid") = <<d>> \o <<rf>>
      /\ StepEvents(i, "unknown") = <<d>> \o <<f>>
  BY DEF StepEvents
<1> HIDE DEF d, t, f, s, rs, rf
<1>3. <<d, t>> \o <<f>> = <<d, t, f>> /\ <<d, t>> \o <<s>> = <<d, t, s>>
  BY <1>1, AppendThird
<1>4. <<d>> \o <<t, f>> = <<d, t, f>> /\ <<d>> \o <<t, s>> = <<d, t, s>>
  BY <1>1, ThreeEvents
<1>5. <<d>> \o <<rs>> = <<d, rs>> /\ <<d>> \o <<rf>> = <<d, rf>> /\ <<d>> \o <<f>> = <<d, f>>
  BY <1>1, TwoEvents
<1>6. \A v \in DOMAIN Verdict : StepEvents(i, v) = <<d, Event(Verdict[v].event, i)>>
  BY <1>2, <1>5, Verdicts DEF rs, rf, f
<1> QED
  BY <1>2, <1>3, <1>4, <1>6 DEF d, t, f, s

\* A run that stands after its observations and emits a last step, or that its
\* budget is used up, has the trace that Told gives.
LEMMA ToldFacts ==
  ASSUME NEW n \in Nat, NEW outcomes, NEW ending
  PROVE  /\ Len(outcomes) = n /\ ending = "budget_exhausted" =>
              Told(outcomes, ending) =
                (Started \o Observations(n)) \o <<Event("step_budget_exhausted", None)>>
         /\ Len(outcomes) = n + 1 /\ ending # "budget_exhausted"
              /\ StepEvents(n, outcomes[n + 1]) \in Seq(EventType) =>
              Told(outcomes, ending) =
                (Started \o Observations(n)) \o StepEvents(n, outcomes[n + 1])
<1>1. <<Event("step_budget_exhausted", None)>> \in Seq(EventType)
  <2>1. Event("step_budget_exhausted", None) \in EventType
    BY DEF Event, EventType
  <2> QED
    BY <2>1
<1>2. ASSUME Len(outcomes) = n, ending = "budget_exhausted"
      PROVE  Told(outcomes, ending) =
               (Started \o Observations(n)) \o <<Event("step_budget_exhausted", None)>>
  BY <1>1, <1>2, TraceTypes DEF Told
<1>3. ASSUME Len(outcomes) = n + 1, ending # "budget_exhausted",
             StepEvents(n, outcomes[n + 1]) \in Seq(EventType)
      PROVE  Told(outcomes, ending) =
               (Started \o Observations(n)) \o StepEvents(n, outcomes[n + 1])
  <2>1. Len(outcomes) - 1 = n
    BY <1>3
  <2>2. Told(outcomes, ending) = Started \o (Observations(n) \o StepEvents(n, outcomes[n + 1]))
    BY <1>3, <2>1 DEF Told
  <2> QED
    BY <1>3, <2>2, TraceTypes
<1> QED
  BY <1>2, <1>3

\* Trace is Told with its last event.
LEMMA TraceIsTold ==
  ASSUME NEW outcomes, NEW ending
  PROVE  Trace(outcomes, ending) = Told(outcomes, ending) \o <<Event("run_finished", None)>>
  BY DEF Trace, Told, Started

-----------------------------------------------------------------------------
(* The steps of a run                                                      *)

\* What the actions emit are events.
LEMMA Emissions ==
  ASSUME NEW n \in Nat
  PROVE  /\ <<Event("decision", n), Event("tool_started", n)>> \in Seq(EventType)
         /\ <<Event("tool_succeeded", n)>> \in Seq(EventType)
         /\ <<Event("tool_failed", n)>> \in Seq(EventType)
         /\ \A d \in DOMAIN Verdict :
              <<Event("decision", n), Event(Verdict[d].event, n)>> \in Seq(EventType)
         /\ <<Event("run_started", None)>> \in Seq(EventType)
         /\ <<Event("run_finished", None)>> \in Seq(EventType)
         /\ <<Event("step_budget_exhausted", None)>> \in Seq(EventType)
<1>1. \A a, b \in EventType : <<a>> \in Seq(EventType) /\ <<a, b>> \in Seq(EventType)
  OBVIOUS
<1>2. /\ <<Event("decision", n), Event("tool_started", n)>> \in Seq(EventType)
      /\ <<Event("tool_succeeded", n)>> \in Seq(EventType)
      /\ <<Event("tool_failed", n)>> \in Seq(EventType)
      /\ \A d \in DOMAIN Verdict :
           <<Event("decision", n), Event(Verdict[d].event, n)>> \in Seq(EventType)
  <2>1. /\ Event("decision", n) \in EventType /\ Event("tool_started", n) \in EventType
        /\ Event("tool_succeeded", n) \in EventType /\ Event("tool_failed", n) \in EventType
        /\ \A d \in DOMAIN Verdict : Event(Verdict[d].event, n) \in EventType
    BY EventTypes, Verdicts
  <2> QED
    BY <1>1, <2>1
<1>3. /\ <<Event("run_started", None)>> \in Seq(EventType)
      /\ <<Event("run_finished", None)>> \in Seq(EventType)
      /\ <<Event("step_budget_exhausted", None)>> \in Seq(EventType)
  <2>1. /\ Event("run_started", None) \in EventType /\ Event("run_finished", None) \in EventType
        /\ Event("step_budget_exhausted", None) \in EventType
    BY DEF Event, EventType
  <2> QED
    BY <1>1, <2>1
<1> QED
  BY <1>2, <1>3

\* Types are preserved.
LEMMA TypeStep ==
  ASSUME TypeOK, NEW r \in Run, Loop(r) \/ ExecuteEnds(r)
  PROVE  TypeOK'
<1> DEFINE n == Len(steps[r])
<1>1. n \in Nat /\ Index(r) = n
  BY TypeFacts DEF Index
<1>3. /\ <<Event("decision", n), Event("tool_started", n)>> \in Seq(EventType)
      /\ <<Event("tool_succeeded", n)>> \in Seq(EventType)
      /\ <<Event("tool_failed", n)>> \in Seq(EventType)
      /\ \A d \in DOMAIN Verdict :
           <<Event("decision", n), Event(Verdict[d].event, n)>> \in Seq(EventType)
  BY <1>1, Emissions
<1>4. /\ <<Event("run_started", None)>> \in Seq(EventType)
      /\ <<Event("run_finished", None)>> \in Seq(EventType)
      /\ <<Event("step_budget_exhausted", None)>> \in Seq(EventType)
  BY <1>1, Emissions
<1>5. CASE StartRun(r)
  <2>1. events' \in [Run -> Seq(EventType)]
    BY <1>4, <1>5, EmitFacts DEF StartRun
  <2> QED
    BY <1>5, <2>1 DEF StartRun, TypeOK, Goto
<1>6. CASE Exhaust(r)
  <2>1. events' \in [Run -> Seq(EventType)]
    BY <1>4, <1>6, EmitFacts DEF Exhaust
  <2> QED
    BY <1>6, <2>1 DEF Exhaust, TypeOK, Goto
<1>7. CASE DecideRaises(r)
  BY <1>7 DEF DecideRaises, TypeOK, Goto, record
<1>8. CASE DecideTool(r)
  <2>1. Emit(r, <<Event("decision", n), Event("tool_started", n)>>)
    BY <1>1, <1>8 DEF DecideTool
  <2>2. events' \in [Run -> Seq(EventType)]
    BY <1>3, <2>1, EmitFacts
  <2> QED
    BY <1>8, <2>2 DEF DecideTool, TypeOK, Goto
<1>9. CASE Finish(r)
  <2>1. events' \in [Run -> Seq(EventType)]
    BY <1>4, <1>9, EmitFacts DEF Finish
  <2> QED
    BY <1>9, <2>1 DEF Finish, TypeOK, Goto
<1>10. ASSUME NEW d \in DOMAIN Verdict, DecideEnd(r, d)
       PROVE  TypeOK'
  <2>1. Emit(r, <<Event("decision", n), Event(Verdict[d].event, n)>>)
    BY <1>1, <1>10 DEF DecideEnd
  <2>2. events' \in [Run -> Seq(EventType)]
    BY <1>3, <2>1, EmitFacts
  <2>3. steps' \in [Run -> Seq(Outcome)]
    BY <1>10, StepFacts DEF DecideEnd, Outcome
  <2>4. Verdict[d].status \in {"succeeded", "failed"}
    BY Verdicts
  <2>5. status' \in [Run -> {"running", "succeeded", "failed", "budget_exhausted"}]
    BY <1>10, <2>4 DEF DecideEnd, TypeOK
  <2> QED
    BY <1>10, <2>2, <2>3, <2>5 DEF DecideEnd, TypeOK, Goto
<1>11. CASE ExecuteBegins(r)
  <2>1. calls' \in Nat /\ calls' = calls + 1
    BY <1>11 DEF ExecuteBegins, TypeOK
  <2>2. number' = [number EXCEPT ![r] = Append(@, calls')] /\ number[r] \in Seq(Nat)
    BY <1>11, TypeFacts DEF ExecuteBegins
  <2>3. Append(number[r], calls') \in Seq(Nat)
    BY <2>1, <2>2
  <2>4. number' \in [Run -> Seq(Nat)]
    BY <2>2, <2>3 DEF TypeOK
  <2> QED
    BY <1>11, <2>1, <2>4 DEF ExecuteBegins, TypeOK, Goto, record
<1>12. ASSUME NEW how \in {"error", "timeout"}, Fail(r, how),
              UNCHANGED <<max_steps, fail_on_calls, calls, number>>
       PROVE  TypeOK'
  <2>1. Emit(r, <<Event("tool_failed", n)>>)
    BY <1>1, <1>12 DEF Fail
  <2>2. events' \in [Run -> Seq(EventType)]
    BY <1>3, <2>1, EmitFacts
  <2>3. steps' \in [Run -> Seq(Outcome)]
    BY <1>12, StepFacts DEF Fail, Outcome
  <2>4. tool_failures' \in [Run -> Nat]
    BY <1>12, TypeFacts DEF Fail, TypeOK
  <2> QED
    BY <1>12, <2>2, <2>3, <2>4 DEF Fail, TypeOK, Goto
<1>13. CASE Observe(r) /\ UNCHANGED <<max_steps, fail_on_calls, calls, number>>
  <2>1. Emit(r, <<Event("tool_succeeded", n)>>)
    BY <1>1, <1>13 DEF Observe
  <2>2. events' \in [Run -> Seq(EventType)]
    BY <1>3, <2>1, EmitFacts
  <2>3. steps' \in [Run -> Seq(Outcome)]
    BY <1>13, StepFacts DEF Observe, Outcome
  <2> QED
    BY <1>13, <2>2, <2>3 DEF Observe, TypeOK, Goto
<1>14. CASE Timeout(r)
  BY <1>12, <1>14 DEF Timeout
<1>15. CASE ExecuteEnds(r)
  BY <1>12, <1>13, <1>15 DEF ExecuteEnds
<1> QED
  BY <1>5, <1>6, <1>7, <1>8, <1>9, <1>10, <1>11, <1>14, <1>15 DEF Loop

\* A run starts with its first event and no step.
LEMMA StartKeeps ==
  ASSUME IInv, NEW r \in Run, StartRun(r)
  PROVE  RunOK(r)'
<1> USE DEF IInv
<1>1. /\ pc[r] = "new" /\ pc'[r] = "deciding" /\ status'[r] = status[r]
      /\ steps'[r] = steps[r] /\ tool_failures'[r] = tool_failures[r]
      /\ number'[r] = number[r] /\ max_steps'[r] = max_steps[r]
  BY DEF StartRun, Goto, TypeOK
<1>2. Going(r) /\ steps[r] = <<>> /\ events[r] = <<>>
  BY <1>1 DEF RunOK, Over, Going
<1>3. events'[r] = <<>> \o Started
  BY <1>2, EmitFacts, Emissions DEF StartRun, Started
<1>4. Started \in Seq(EventType) /\ Observations(0) = <<>>
  BY TraceTypes, NoObservations
<1>5. <<>> \o Started = Started /\ Started \o <<>> = Started
  BY <1>4
<1>6. events'[r] = SoFar(r)'
  BY <1>1, <1>2, <1>3, <1>4, <1>5 DEF SoFar
<1>7. Going(r)'
  BY <1>1, <1>2, <1>6 DEF Going, AllObserved, InCall
<1> QED
  BY <1>1, <1>7 DEF RunOK, Over

\* A run that has used up its budget has observed in every step.
LEMMA ExhaustKeeps ==
  ASSUME IInv, NEW r \in Run, Exhaust(r)
  PROVE  RunOK(r)'
<1> DEFINE n == Len(steps[r])
<1> USE DEF IInv
<1>1. /\ pc[r] = "deciding" /\ pc'[r] = "finishing" /\ status'[r] = "budget_exhausted"
      /\ steps'[r] = steps[r] /\ tool_failures'[r] = tool_failures[r]
      /\ number'[r] = number[r] /\ max_steps'[r] = max_steps[r]
  BY DEF Exhaust, Goto, TypeOK
<1>2. Going(r) /\ events[r] = SoFar(r)
  BY <1>1 DEF RunOK, Over, Going
<1>3. /\ n \in Nat /\ max_steps[r] \in Nat /\ Len(number[r]) \in Nat
      /\ n >= max_steps[r] /\ n <= max_steps[r] /\ Len(number[r]) = n
  BY <1>1, <1>2, TypeFacts DEF Going, InCall, Exhaust, Exhausted
<1>4. UsedUp(r)'
  BY <1>1, <1>2, <1>3 DEF UsedUp, Going, AllObserved
<1>5. events'[r] = SoFar(r) \o <<Event("step_budget_exhausted", None)>>
  BY <1>2, <1>3, EmitFacts, Emissions DEF Exhaust
<1>6. events'[r] = Told(steps'[r], status'[r])
  BY <1>1, <1>3, <1>5, ToldFacts DEF SoFar
<1> QED
  BY <1>1, <1>4, <1>6 DEF RunOK, Over

\* An exception of the policy leaves the record as it is.
LEMMA RaisesKeeps ==
  ASSUME IInv, NEW r \in Run, DecideRaises(r)
  PROVE  RunOK(r)'
<1>1. /\ pc[r] = "deciding" /\ pc'[r] = "raised" /\ UNCHANGED <<record, number, max_steps>>
  BY DEF DecideRaises, Goto, IInv, TypeOK
<1>2. Going(r) /\ events[r] = SoFar(r)
  BY <1>1 DEF IInv, RunOK, Over, Going
<1>3. Going(r)'
  BY <1>1, <1>2 DEF Going, AllObserved, InCall, SoFar, record
<1> QED
  BY <1>1, <1>3 DEF RunOK, Over

\* A call is begun within the budget.
LEMMA DecideToolKeeps ==
  ASSUME IInv, NEW r \in Run, DecideTool(r)
  PROVE  RunOK(r)'
<1> DEFINE n == Len(steps[r])
<1> USE DEF IInv
<1>1. /\ pc[r] = "deciding" /\ pc'[r] = "calling" /\ status'[r] = status[r]
      /\ steps'[r] = steps[r] /\ tool_failures'[r] = tool_failures[r]
      /\ number'[r] = number[r] /\ max_steps'[r] = max_steps[r]
  BY DEF DecideTool, Goto, TypeOK
<1>2. Going(r) /\ events[r] = SoFar(r)
  BY <1>1 DEF RunOK, Over, Going
<1>3. n \in Nat /\ max_steps[r] \in Nat /\ n + 1 <= max_steps[r]
  BY TypeFacts DEF DecideTool, Exhausted
<1>4. events'[r] = SoFar(r) \o CallBegun(r)
  BY <1>2, <1>3, EmitFacts, Emissions DEF DecideTool, CallBegun, Index
<1>5. Going(r)'
  BY <1>1, <1>2, <1>3, <1>4 DEF Going, AllObserved, InCall, SoFar, CallBegun, Index
<1> QED
  BY <1>1, <1>5 DEF RunOK, Over

\* The last event completes the trace.
LEMMA FinishKeeps ==
  ASSUME IInv, NEW r \in Run, Finish(r)
  PROVE  RunOK(r)'
<1> USE DEF IInv
<1>1. /\ pc[r] = "finishing" /\ pc'[r] = "finished" /\ status'[r] = status[r]
      /\ steps'[r] = steps[r] /\ tool_failures'[r] = tool_failures[r]
      /\ number'[r] = number[r] /\ max_steps'[r] = max_steps[r]
  BY DEF Finish, Goto, TypeOK
<1>2. (UsedUp(r) \/ Ended(r)) /\ events[r] = Told(steps[r], status[r])
  BY <1>1 DEF RunOK, Over
<1>3. events'[r] = Told(steps[r], status[r]) \o <<Event("run_finished", None)>>
  BY <1>2, EmitFacts, Emissions DEF Finish
<1>4. events'[r] = Trace(steps'[r], status'[r])
  BY <1>1, <1>3, TraceIsTold
<1>5. UsedUp(r)' \/ Ended(r)'
  BY <1>1, <1>2 DEF UsedUp, Ended, AllObserved
<1> QED
  BY <1>1, <1>4, <1>5 DEF RunOK, Over

\* The call gets its number.
LEMMA BeginsKeeps ==
  ASSUME IInv, NEW r \in Run, ExecuteBegins(r)
  PROVE  RunOK(r)'
<1> USE DEF IInv
<1>1. /\ pc[r] = "calling" /\ pc'[r] = "executing" /\ UNCHANGED <<record, max_steps>>
      /\ number'[r] = Append(number[r], calls')
  BY DEF ExecuteBegins, Goto, TypeOK
<1>2. Going(r)
  BY <1>1 DEF RunOK, Over
<1>3. Len(number'[r]) = Len(number[r]) + 1 /\ Len(number[r]) \in Nat
  BY <1>1, TypeFacts
<1>4. /\ status' = status /\ steps' = steps /\ events' = events
      /\ tool_failures' = tool_failures /\ max_steps' = max_steps
  BY <1>1 DEF record
<1>5. SoFar(r)' = SoFar(r) /\ CallBegun(r)' = CallBegun(r)
  BY <1>4 DEF SoFar, CallBegun, Index
<1>6. Len(number[r]) = Len(steps[r]) /\ Len(steps[r]) \in Nat
  BY <1>1, <1>2, TypeFacts DEF Going
<1>7. Going(r)'
  BY <1>1, <1>2, <1>3, <1>4, <1>5, <1>6 DEF Going, AllObserved, InCall
<1> QED
  BY <1>1, <1>7 DEF RunOK, Over

\* A step that ends its run: a decision, or a call that failed.
LEMMA EndKeeps ==
  ASSUME IInv, NEW r \in Run, AllObserved(r), NEW o \in Outcome \ {"observed"},
         steps' = [steps EXCEPT ![r] = Append(@, o)],
         max_steps' = max_steps, number' = number,
         Len(steps[r]) + 1 <= max_steps[r],
         pc'[r] = "finishing",
         status'[r] = IF o = "final" THEN "succeeded" ELSE "failed",
         tool_failures'[r] = IF Failed(o) THEN 1 ELSE 0,
         Len(number[r]) = Len(steps[r]) + (IF Failed(o) THEN 1 ELSE 0),
         StepEvents(Len(steps[r]), o) \in Seq(EventType),
         events'[r] = SoFar(r) \o StepEvents(Len(steps[r]), o)
  PROVE  RunOK(r)'
<1> DEFINE n == Len(steps[r])
<1>1. /\ Len(steps'[r]) = n + 1 /\ n \in Nat
      /\ DOMAIN steps[r] = 1 .. n /\ \A i \in 1 .. n : steps'[r][i] = steps[r][i]
      /\ steps'[r][n + 1] = o
  BY StepFacts DEF IInv
<1>2. \A i \in 1 .. n : steps'[r][i] = "observed"
  BY <1>1 DEF AllObserved
<1>3. Ended(r)'
  <2>1. (n + 1) - 1 = n /\ n + 1 > 0
    BY <1>1
  <2>2. \A i \in 1 .. (n + 1) - 1 : steps'[r][i] = "observed"
    BY <1>2, <2>1
  <2>3. /\ tool_failures'[r] = IF Failed(o) THEN 1 ELSE 0
        /\ Len(number'[r]) = IF Failed(o) THEN n + 1 ELSE (n + 1) - 1
    <3>1. number'[r] = number[r]
      OBVIOUS
    <3>2. CASE Failed(o)
      BY <1>1, <3>1, <3>2
    <3>3. CASE ~ Failed(o)
      BY <1>1, <3>1, <3>3
    <3> QED
      BY <3>2, <3>3
  <2> QED
    BY <1>1, <2>1, <2>2, <2>3 DEF Ended
<1>4. events'[r] = Told(steps'[r], status'[r])
  <2>1. status'[r] # "budget_exhausted"
    OBVIOUS
  <2> QED
    BY <1>1, <2>1, ToldFacts DEF SoFar
<1> QED
  BY <1>3, <1>4 DEF RunOK, Over

\* A run in a call has observed all its steps and begun the next.
LEMMA ExecutingFacts ==
  ASSUME IInv, NEW r \in Run, pc[r] = "executing"
  PROVE  /\ AllObserved(r) /\ status[r] = "running" /\ tool_failures[r] = 0
         /\ Len(steps[r]) \in Nat /\ max_steps[r] \in Nat /\ Len(steps[r]) + 1 <= max_steps[r]
         /\ Len(number[r]) = Len(steps[r]) + 1
         /\ events[r] = SoFar(r) \o CallBegun(r)
  BY TypeFacts DEF IInv, RunOK, Over, Going, InCall

\* What a run emits in a call is put behind the two events that began it.
LEMMA CallEvents ==
  ASSUME IInv, NEW r \in Run, pc[r] = "executing", NEW e \in EventType, Emit(r, <<e>>)
  PROVE  events'[r] = SoFar(r) \o (CallBegun(r) \o <<e>>) /\ CallBegun(r) \o <<e>> \in Seq(EventType)
<1> DEFINE n == Len(steps[r])
<1>1. n \in Nat /\ events[r] = SoFar(r) \o CallBegun(r)
  BY ExecutingFacts
<1>2. SoFar(r) \in Seq(EventType) /\ CallBegun(r) \in Seq(EventType) /\ <<e>> \in Seq(EventType)
  <2>1. SoFar(r) \in Seq(EventType)
    BY <1>1, TraceTypes DEF SoFar
  <2>2. CallBegun(r) \in Seq(EventType)
    BY <1>1, Emissions DEF CallBegun, Index
  <2> QED
    BY <2>1, <2>2
<1>3. events'[r] = (SoFar(r) \o CallBegun(r)) \o <<e>>
  BY <1>1, <1>2, EmitFacts DEF IInv
<1> QED
  BY <1>2, <1>3, ConcatAssociative, ConcatFacts

\* A call that fails or times out is the last step.
LEMMA FailKeeps ==
  ASSUME IInv, NEW r \in Run, pc[r] = "executing", NEW how \in {"error", "timeout"},
         Fail(r, how), UNCHANGED <<max_steps, fail_on_calls, calls, number>>
  PROVE  RunOK(r)'
<1> DEFINE n == Len(steps[r])
           f == Event("tool_failed", n)
<1>1. /\ AllObserved(r) /\ tool_failures[r] = 0 /\ n \in Nat /\ n + 1 <= max_steps[r]
      /\ Len(number[r]) = n + 1
  BY ExecutingFacts
<1>2. f \in EventType /\ Emit(r, <<f>>)
  BY <1>1, EventTypes DEF Fail, Index
<1>3. events'[r] = SoFar(r) \o StepEvents(n, how) /\ StepEvents(n, how) \in Seq(EventType)
  BY <1>1, <1>2, CallEvents, LastStepEvents DEF CallBegun, Index
<1>4. /\ pc'[r] = "finishing" /\ status'[r] = "failed" /\ tool_failures'[r] = 1
      /\ steps' = [steps EXCEPT ![r] = Append(@, how)] /\ max_steps' = max_steps
      /\ number' = number
  BY <1>1 DEF Fail, Goto, IInv, TypeOK
<1>5. how \in Outcome \ {"observed"} /\ how # "final" /\ Failed(how)
  BY DEF Outcome, Failed
<1> QED
  BY <1>1, <1>3, <1>4, <1>5, EndKeeps

\* A call that succeeds is one more observed step.
LEMMA ObserveKeeps ==
  ASSUME IInv, NEW r \in Run, pc[r] = "executing", Observe(r),
         UNCHANGED <<max_steps, fail_on_calls, calls, number>>
  PROVE  RunOK(r)'
<1> DEFINE n == Len(steps[r])
           s == Event("tool_succeeded", n)
<1>1. /\ AllObserved(r) /\ tool_failures[r] = 0 /\ status[r] = "running" /\ n \in Nat
      /\ n + 1 <= max_steps[r] /\ Len(number[r]) = n + 1
  BY ExecutingFacts
<1>2. s \in EventType /\ Emit(r, <<s>>)
  BY <1>1, EventTypes DEF Observe, Index
<1>3. events'[r] = SoFar(r) \o StepEvents(n, "observed") /\ StepEvents(n, "observed") \in Seq(EventType)
  BY <1>1, <1>2, CallEvents, LastStepEvents DEF CallBegun, Index
<1>4. /\ pc'[r] = "deciding" /\ status'[r] = "running" /\ tool_failures'[r] = 0
      /\ steps' = [steps EXCEPT ![r] = Append(@, "observed")] /\ max_steps' = max_steps
      /\ number' = number
  BY <1>1 DEF Observe, Goto, IInv, TypeOK
<1>5. /\ Len(steps'[r]) = n + 1
      /\ DOMAIN steps'[r] = DOMAIN steps[r] \cup {n + 1}
      /\ \A i \in DOMAIN steps[r] : steps'[r][i] = steps[r][i]
      /\ steps'[r][n + 1] = "observed"
  BY <1>4, StepFacts DEF IInv, Outcome
<1>6. AllObserved(r)'
  BY <1>1, <1>5 DEF AllObserved
<1>7. events'[r] = SoFar(r)'
  <2>1. Observations(n + 1) = Observations(n) \o StepEvents(n, "observed")
    BY <1>1, ObservationsGrow
  <2>2. events'[r] = Started \o (Observations(n) \o StepEvents(n, "observed"))
    BY <1>1, <1>3, TraceTypes DEF SoFar
  <2> QED
    BY <1>5, <2>1, <2>2 DEF SoFar
<1>8. Going(r)'
  BY <1>1, <1>4, <1>5, <1>6, <1>7 DEF Going, InCall
<1> QED
  BY <1>4, <1>8 DEF RunOK, Over

\* A final answer or an invalid decision is the last step.
LEMMA DecideEndKeeps ==
  ASSUME IInv, NEW r \in Run, NEW d \in DOMAIN Verdict, DecideEnd(r, d)
  PROVE  RunOK(r)'
<1> DEFINE n == Len(steps[r])
<1>1. Going(r) /\ pc[r] = "deciding" /\ events[r] = SoFar(r)
  BY DEF DecideEnd, IInv, RunOK, Over, Going
<1>2. /\ AllObserved(r) /\ tool_failures[r] = 0 /\ n \in Nat /\ max_steps[r] \in Nat
      /\ n + 1 <= max_steps[r] /\ Len(number[r]) = n
  BY <1>1, TypeFacts DEF Going, InCall, DecideEnd, Exhausted, IInv
<1>3. /\ StepEvents(n, d) = <<Event("decision", n), Event(Verdict[d].event, n)>>
      /\ StepEvents(n, d) \in Seq(EventType)
  BY <1>2, LastStepEvents, Emissions
<1>4. events'[r] = SoFar(r) \o StepEvents(n, d)
  BY <1>1, <1>3, EmitFacts DEF DecideEnd, Index, IInv
<1>5. d \in {"final", "invalid", "unknown"} /\ d \in Outcome \ {"observed"} /\ ~ Failed(d)
  BY Verdicts DEF Outcome, Failed
<1>6. Verdict[d].status = IF d = "final" THEN "succeeded" ELSE "failed"
  BY <1>5, Verdicts
<1>7. /\ pc'[r] = "finishing" /\ tool_failures'[r] = 0
      /\ status'[r] = IF d = "final" THEN "succeeded" ELSE "failed"
      /\ steps' = [steps EXCEPT ![r] = Append(@, d)] /\ max_steps' = max_steps
      /\ number' = number
  BY <1>2, <1>6 DEF DecideEnd, Goto, IInv, TypeOK
<1>8. /\ Len(number[r]) = n + (IF Failed(d) THEN 1 ELSE 0)
      /\ tool_failures'[r] = IF Failed(d) THEN 1 ELSE 0
  BY <1>2, <1>5, <1>7
<1> QED
  BY <1>2, <1>3, <1>4, <1>5, <1>7, <1>8, EndKeeps

-----------------------------------------------------------------------------
(* The tool's calls                                                        *)

\* A call of a run is one of its numbers.
LEMMA CallFacts ==
  ASSUME NEW c
  PROVE  /\ c \in CallsMade <=> \E r \in Run : \E i \in DOMAIN number[r] : c = <<r, i>>
         /\ \A r \in Run : \A i \in DOMAIN number[r] :
              <<r, i>> \in CallsMade /\ NumberOf(<<r, i>>) = number[r][i]
<1>1. c \in CallsMade <=> \E r \in Run : c \in {r} \X DOMAIN number[r]
  BY DEF CallsMade
<1>2. \A r \in Run : c \in {r} \X DOMAIN number[r] <=> \E i \in DOMAIN number[r] : c = <<r, i>>
  OBVIOUS
<1>3. \A r \in Run : \A i \in DOMAIN number[r] : <<r, i>> \in CallsMade
  BY DEF CallsMade
<1>4. \A r \in Run : \A i \in DOMAIN number[r] : NumberOf(<<r, i>>) = number[r][i]
  BY DEF NumberOf
<1> QED
  BY <1>1, <1>2, <1>3, <1>4

\* Only the beginning of a call touches the numbers.
LEMMA OnlyBeginsCounts ==
  ASSUME NEW r \in Run, Loop(r) \/ ExecuteEnds(r)
  PROVE  ExecuteBegins(r) \/ (UNCHANGED <<calls, number>>)
  BY DEF Loop, StartRun, Exhaust, DecideRaises, DecideTool, Finish, DecideEnd, Timeout, ExecuteEnds

\* The next number goes to the call that begins.
LEMMA NumberingStep ==
  ASSUME IInv, NEW r \in Run, Loop(r) \/ ExecuteEnds(r)
  PROVE  NumberedOnce'
<1> USE DEF NumberOf
<1>1. CASE UNCHANGED <<calls, number>>
  BY <1>1 DEF IInv, NumberedOnce, CallsMade, NumberOf
<1>2. CASE ExecuteBegins(r)
  <2> DEFINE k == Len(number[r]) + 1
             new == <<r, k>>
  <2>1. /\ calls \in Nat /\ calls' = calls + 1
        /\ number'[r] = Append(number[r], calls + 1) /\ number[r] \in Seq(Nat)
        /\ \A q \in Run \ {r} : number'[q] = number[q]
    BY <1>2, TypeFacts DEF ExecuteBegins, IInv, TypeOK
  <2>2. /\ DOMAIN number'[r] = DOMAIN number[r] \cup {k}
        /\ \A i \in DOMAIN number[r] : i # k /\ number'[r][i] = number[r][i]
        /\ number'[r][k] = calls + 1 /\ Len(number'[r]) = k
    BY <2>1, AppendFacts
  <2>3. /\ CallsMade' = CallsMade \cup {new} /\ new \notin CallsMade
        /\ \A c \in CallsMade : number'[c[1]][c[2]] = NumberOf(c)
        /\ number'[new[1]][new[2]] = calls + 1
    <3>1. \A q \in Run : DOMAIN number[q] \subseteq DOMAIN number'[q]
      BY <2>1, <2>2
    <3>2. ASSUME NEW c \in CallsMade
          PROVE  c \in CallsMade' /\ number'[c[1]][c[2]] = NumberOf(c) /\ c # new
      <4>0. PICK q \in Run : \E i \in DOMAIN number[q] : c = <<q, i>>
        BY CallFacts
      <4>1. PICK i \in DOMAIN number[q] : c = <<q, i>>
        BY <4>0
      <4>2. number'[q][i] = number[q][i] /\ <<q, i>> # new
        BY <2>1, <2>2
      <4> QED
        BY <3>1, <4>1, <4>2 DEF CallsMade, NumberOf
    <3>3. ASSUME NEW c \in CallsMade'
          PROVE  c \in CallsMade \/ c = new
      <4>1. PICK q \in Run : c \in {q} \X DOMAIN number'[q]
        BY <3>3 DEF CallsMade
      <4>2. PICK i \in DOMAIN number'[q] : c = <<q, i>>
        BY <4>1
      <4>3. i \in DOMAIN number[q] \/ c = new
        BY <2>1, <2>2, <4>2
      <4> QED
        BY <4>2, <4>3, CallFacts
    <3>4. new \in CallsMade' /\ number'[new[1]][new[2]] = calls + 1
      <4>1. new \in {r} \X DOMAIN number'[r]
        BY <2>2
      <4>2. new[1] = r /\ new[2] = k
        OBVIOUS
      <4> QED
        BY <2>2, <4>1, <4>2 DEF CallsMade
    <3> QED
      BY <3>2, <3>3, <3>4
  <2>4. /\ \A call \in CallsMade : NumberOf(call) \in 1 .. calls
        /\ \A c, d \in CallsMade : NumberOf(c) = NumberOf(d) => c = d
        /\ \A n \in 1 .. calls : \E call \in CallsMade : NumberOf(call) = n
    BY DEF IInv, NumberedOnce
  <2> HIDE DEF new, k
  <2>5. \A c \in CallsMade' : number'[c[1]][c[2]] \in 1 .. calls'
    BY <2>1, <2>3, <2>4
  <2>6. ASSUME NEW c \in CallsMade', NEW d \in CallsMade', number'[c[1]][c[2]] = number'[d[1]][d[2]]
        PROVE  c = d
    <3>1. \A e \in CallsMade : NumberOf(e) # calls + 1
      BY <2>1, <2>4
    <3> QED
      BY <2>3, <2>4, <2>6, <3>1
  <2>7. ASSUME NEW n \in 1 .. calls'
        PROVE  \E c \in CallsMade' : number'[c[1]][c[2]] = n
    <3>1. n \in 1 .. calls \/ n = calls + 1
      BY <2>1
    <3> QED
      BY <2>3, <2>4, <3>1
  <2> QED
    BY <2>5, <2>6, <2>7 DEF NumberedOnce
<1> QED
  BY <1>1, <1>2, OnlyBeginsCounts

\* How the outcomes of a run's calls agree with the failures injected.
AsInjected(r) ==
  \A i \in DOMAIN number[r] \cap DOMAIN steps[r] :
    /\ steps[r][i] = "error" => Seen(r, i) \cap fail_on_calls # {}
    /\ steps[r][i] = "observed" => ~ (Seen(r, i) \subseteq fail_on_calls)

\* A call that another run begins only adds to what the others may have seen.
LEMMA OthersSeeMore ==
  ASSUME IInv, NEW r \in Run, Loop(r) \/ ExecuteEnds(r), NEW q \in Run \ {r}
  PROVE  AsInjected(q)'
<1>1. number'[q] = number[q] /\ steps'[q] = steps[q]
  BY OthersKeep DEF SameRun, IInv
<1>2. fail_on_calls' = fail_on_calls
  BY DEF Loop, StartRun, Exhaust, DecideRaises, DecideTool, Finish, DecideEnd, ExecuteBegins,
         Timeout, ExecuteEnds
<1>3. calls \in Nat /\ calls' \in {calls, calls + 1}
  BY OnlyBeginsCounts, TypeFacts DEF ExecuteBegins, IInv
<1>4. ASSUME NEW i \in DOMAIN number[q]
      PROVE  Seen(q, i) \subseteq Seen(q, i)'
  <2>1. number[q] \in Seq(Nat) /\ number[q][i] \in Nat
    BY TypeFacts DEF IInv
  <2> QED
    BY <1>1, <1>3, <2>1 DEF Seen
<1>5. AsInjected(q)
  BY DEF IInv, FailsAsInjected, AsInjected
<1> QED
  BY <1>1, <1>2, <1>4, <1>5 DEF AsInjected

\* The next call of a run closes what its last one may have seen.
LEMMA BeginningCloses ==
  ASSUME IInv, NEW r \in Run, ExecuteBegins(r)
  PROVE  AsInjected(r)'
<1>1. /\ steps'[r] = steps[r] /\ number'[r] = Append(number[r], calls + 1)
      /\ calls' = calls + 1 /\ calls \in Nat /\ number[r] \in Seq(Nat)
      /\ fail_on_calls' = fail_on_calls
  BY TypeFacts DEF ExecuteBegins, record, IInv, TypeOK
<1>2. Len(number[r]) = Len(steps[r]) /\ DOMAIN steps[r] = 1 .. Len(steps[r])
  <2>1. pc[r] = "calling"
    BY DEF ExecuteBegins
  <2>2. Going(r)
    BY <2>1 DEF IInv, RunOK, Over
  <2> QED
    BY <2>1, <2>2, TypeFacts DEF IInv, Going
<1>3. /\ Len(number'[r]) = Len(number[r]) + 1
      /\ \A i \in DOMAIN number[r] : number'[r][i] = number[r][i]
      /\ number'[r][Len(number[r]) + 1] = calls + 1
      /\ DOMAIN number[r] = 1 .. Len(number[r]) /\ Len(number[r]) \in Nat
  BY <1>1, AppendFacts
<1>4. ASSUME NEW i \in DOMAIN steps[r]
      PROVE  i \in DOMAIN number[r] /\ Seen(r, i)' = Seen(r, i)
  <2>1. i \in 1 .. Len(number[r])
    BY <1>2
  <2>2. CASE i = Len(number[r])
    BY <1>1, <1>3, <2>1, <2>2 DEF Seen
  <2>3. CASE i < Len(number[r])
    <3>1. i + 1 \in DOMAIN number[r] /\ i # Len(number'[r])
      BY <1>3, <2>1, <2>3
    <3> QED
      BY <1>3, <2>1, <2>3, <3>1 DEF Seen
  <2> QED
    BY <1>3, <2>1, <2>2, <2>3
<1>5. AsInjected(r)
  BY DEF IInv, FailsAsInjected, AsInjected
<1> QED
  BY <1>1, <1>4, <1>5 DEF AsInjected

\* The step that is added fails as what its call saw.
LEMMA StepAgrees ==
  ASSUME IInv, NEW r \in Run, NEW o \in Outcome,
         UNCHANGED <<number, calls, fail_on_calls>>,
         steps' = [steps EXCEPT ![r] = Append(@, o)],
         LET i == Len(steps[r]) + 1
         IN  i \in DOMAIN number[r] =>
               /\ o = "error" => Seen(r, i) \cap fail_on_calls # {}
               /\ o = "observed" => ~ (Seen(r, i) \subseteq fail_on_calls)
  PROVE  AsInjected(r)'
<1>1. /\ DOMAIN steps'[r] = DOMAIN steps[r] \cup {Len(steps[r]) + 1}
      /\ \A j \in DOMAIN steps[r] : steps'[r][j] = steps[r][j]
      /\ steps'[r][Len(steps[r]) + 1] = o
  BY StepFacts DEF IInv
<1>2. AsInjected(r)
  BY DEF IInv, FailsAsInjected, AsInjected
<1>3. \A i : Seen(r, i)' = Seen(r, i)
  BY DEF Seen
<1> QED
  BY <1>1, <1>2, <1>3 DEF AsInjected

\* The tool compares its injected failures with the number of the last call begun, which
\* is among those that the call may have seen.
LEMMA LooksAtTheLast ==
  ASSUME IInv, NEW r \in Run, ExecuteEnds(r)
  PROVE  AsInjected(r)'
<1> DEFINE i == Len(steps[r]) + 1
<1>1. pc[r] = "executing" /\ Len(number[r]) = i /\ i \in DOMAIN number[r]
  BY ExecutingFacts, TypeFacts DEF ExecuteEnds, IInv
<1>2. calls \in Seen(r, i)
  <2>1. <<r, i>> \in CallsMade /\ NumberOf(<<r, i>>) = number[r][i]
    BY <1>1 DEF CallsMade, NumberOf
  <2>2. number[r][i] \in 1 .. calls /\ calls \in Nat
    BY <2>1, TypeFacts DEF IInv, NumberedOnce
  <2> QED
    BY <1>1, <2>2 DEF Seen
<1> HIDE DEF i
<1>3. CASE calls \in fail_on_calls
  BY <1>2, <1>3, StepAgrees DEF ExecuteEnds, Fail, Outcome, i
<1>4. CASE calls \notin fail_on_calls
  BY <1>2, <1>4, StepAgrees DEF ExecuteEnds, Observe, Outcome, i
<1> QED
  BY <1>3, <1>4

\* A failure strays no further than the calls that were begun meanwhile.
LEMMA FailuresStep ==
  ASSUME IInv, NEW r \in Run, Loop(r) \/ ExecuteEnds(r)
  PROVE  FailsAsInjected'
<1> SUFFICES AsInjected(r)'
  BY OthersSeeMore DEF FailsAsInjected, AsInjected
<1>1. CASE ExecuteBegins(r)
  BY <1>1, BeginningCloses
<1>2. CASE ExecuteEnds(r)
  BY <1>2, LooksAtTheLast
<1>3. ASSUME NEW d \in DOMAIN Verdict, DecideEnd(r, d)
      PROVE  AsInjected(r)'
  BY <1>3, StepAgrees, Verdicts DEF DecideEnd, Outcome
<1>4. CASE Timeout(r)
  BY <1>4, StepAgrees DEF Timeout, Fail, Outcome
<1>5. CASE StartRun(r) \/ Exhaust(r) \/ DecideRaises(r) \/ DecideTool(r) \/ Finish(r)
  <2>1. UNCHANGED <<number, calls, fail_on_calls, steps>>
    BY <1>5 DEF StartRun, Exhaust, DecideRaises, DecideTool, Finish, record
  <2>2. AsInjected(r)
    BY DEF IInv, FailsAsInjected, AsInjected
  <2> QED
    BY <2>1, <2>2 DEF AsInjected, Seen
<1> QED
  BY <1>1, <1>2, <1>3, <1>4, <1>5 DEF Loop

-----------------------------------------------------------------------------
(* The theorems                                                            *)

\* No run has begun.
LEMMA InitIInv == Init => IInv
<1> SUFFICES ASSUME Init PROVE IInv
  OBVIOUS
<1>1. TypeOK
  BY DEF Init, TypeOK
<1>2. ASSUME NEW r \in Run PROVE RunOK(r)
  <2>1. max_steps[r] \in Nat
    BY <1>1, TypeFacts
  <2> QED
    BY <2>1 DEF Init, RunOK, Over, Going, AllObserved, InCall
<1>3. CallsMade = {}
  BY DEF Init, CallsMade
<1>4. NumberedOnce
  BY <1>3 DEF Init, NumberedOnce
<1>5. FailsAsInjected
  BY DEF Init, FailsAsInjected
<1> QED
  BY <1>1, <1>2, <1>4, <1>5 DEF IInv

\* Each action of a run keeps what is known of that run, and of the others.
LEMMA RunStep ==
  ASSUME IInv, NEW r \in Run, Loop(r) \/ ExecuteEnds(r), NEW q \in Run
  PROVE  RunOK(q)'
<1>1. CASE q # r
  <2>1. SameRun(q) /\ RunOK(q)
    BY <1>1, OthersKeep DEF IInv
  <2> QED
    BY <2>1, SameRunOK
<1>2. CASE q = r
  <2>1. CASE StartRun(r)
    BY <1>2, <2>1, StartKeeps
  <2>2. CASE Exhaust(r)
    BY <1>2, <2>2, ExhaustKeeps
  <2>3. CASE DecideRaises(r)
    BY <1>2, <2>3, RaisesKeeps
  <2>4. CASE DecideTool(r)
    BY <1>2, <2>4, DecideToolKeeps
  <2>5. CASE Finish(r)
    BY <1>2, <2>5, FinishKeeps
  <2>6. ASSUME NEW d \in DOMAIN Verdict, DecideEnd(r, d)
        PROVE  RunOK(q)'
    BY <1>2, <2>6, DecideEndKeeps
  <2>7. CASE ExecuteBegins(r)
    BY <1>2, <2>7, BeginsKeeps
  <2>8. CASE Timeout(r)
    BY <1>2, <2>8, FailKeeps DEF Timeout
  <2>9. CASE ExecuteEnds(r)
    BY <1>2, <2>9, FailKeeps, ObserveKeeps DEF ExecuteEnds
  <2> QED
    BY <2>1, <2>2, <2>3, <2>4, <2>5, <2>6, <2>7, <2>8, <2>9 DEF Loop
<1> QED
  BY <1>1, <1>2

\* The strengthening is inductive, however the runs interleave at the tool.
THEOREM InductiveInvariant == Spec => []IInv
<1>1. IInv /\ [Next]_vars => IInv'
  <2> SUFFICES ASSUME IInv, [Next]_vars PROVE IInv'
    OBVIOUS
  <2>1. ASSUME NEW r \in Run, Loop(r) \/ ExecuteEnds(r)
        PROVE  IInv'
    <3>1. TypeOK'
      BY <2>1, TypeStep DEF IInv
    <3>2. \A q \in Run : RunOK(q)'
      BY <2>1, RunStep
    <3> QED
      BY <2>1, <3>1, <3>2, NumberingStep, FailuresStep DEF IInv
  <2>2. CASE UNCHANGED vars
    <3>1. /\ TypeOK' /\ NumberedOnce' /\ FailsAsInjected'
      BY <2>2 DEF vars, record, IInv, TypeOK, NumberedOnce, CallsMade, NumberOf,
                  FailsAsInjected, Seen
    <3>2. ASSUME NEW q \in Run PROVE RunOK(q)'
      BY <2>2, SameRunOK DEF vars, record, SameRun, IInv
    <3> QED
      BY <3>1, <3>2 DEF IInv
  <2> QED
    BY <2>1, <2>2 DEF Next
<1> QED
  BY InitIInv, <1>1, PTL DEF Spec

\* The record is well-formed, and a call fails or succeeds as some call that was begun
\* since it did itself is injected or not, although the tool looks at its counter again
\* after the delay (FakeTool.execute).
THEOREM FailsOnInjectedCalls == Spec => []LoopInv
<1>1. IInv => LoopInv
  BY DEF IInv, LoopInv
<1> QED
  BY <1>1, InductiveInvariant, PTL

\* The calls among the steps of a run are counted by their places: all of them, but for a
\* last step that is none.
LEMMA AttemptsAre ==
  ASSUME TypeOK, NEW r \in Run, NEW m \in Nat, m <= Len(steps[r]),
         \A i \in 1 .. m : steps[r][i] \in Called,
         \A i \in DOMAIN steps[r] : i > m => steps[r][i] \notin Called
  PROVE  Attempts(r) = m
<1>1. DOMAIN steps[r] = 1 .. Len(steps[r]) /\ Len(steps[r]) \in Nat
  BY TypeFacts
<1>2. {i \in DOMAIN steps[r] : steps[r][i] \in Called} = 1 .. m
  BY <1>1
<1>3. Cardinality(1 .. m) = m
  BY FS_Interval
<1> QED
  BY <1>2, <1>3 DEF Attempts

\* A run never exceeds its budget, and each call of the tool is of one step: nothing is
\* called again behind the record's back (AgentLoop.run).
THEOREM BudgetAndNoRetry == Spec => []NoHiddenRetry
<1>1. IInv => NoHiddenRetry
  <2> SUFFICES ASSUME IInv PROVE NoHiddenRetry
    OBVIOUS
  <2>1. ASSUME NEW r \in Run
        PROVE  /\ Len(steps[r]) + (IF InCall(r) THEN 1 ELSE 0) <= max_steps[r]
               /\ Len(number[r]) = Attempts(r) + (IF pc[r] = "executing" THEN 1 ELSE 0)
               /\ \A i \in DOMAIN steps[r] : steps[r][i] # "observed" => i = Len(steps[r])
    <3> DEFINE n == Len(steps[r])
    <3>1. n \in Nat /\ DOMAIN steps[r] = 1 .. n /\ TypeOK /\ max_steps[r] \in Nat
      BY TypeFacts DEF IInv
    <3>2. CASE AllObserved(r)
      <4>1. Attempts(r) = n
        BY <3>1, <3>2, AttemptsAre DEF AllObserved, Called
      <4>2. Going(r) \/ (UsedUp(r) /\ Over(r)) \/ (Ended(r) /\ Over(r))
        BY DEF IInv, RunOK
      <4>3. ~ Ended(r)
        BY <3>1, <3>2 DEF Ended, AllObserved
      <4>4. \A i \in DOMAIN steps[r] : steps[r][i] # "observed" => i = n
        BY <3>2 DEF AllObserved
      <4>5. CASE Going(r)
        BY <4>1, <4>4, <4>5 DEF Going
      <4>6. CASE UsedUp(r) /\ Over(r)
        <5>1. n = max_steps[r] /\ Len(number[r]) = n /\ ~ InCall(r) /\ pc[r] # "executing"
          BY <4>6 DEF UsedUp, Over, InCall
        <5> QED
          BY <3>1, <4>1, <4>4, <5>1
      <4> QED
        BY <4>2, <4>3, <4>5, <4>6
    <3>3. CASE ~ AllObserved(r)
      <4>1. Ended(r) /\ Over(r)
        BY <3>3 DEF IInv, RunOK, Going, UsedUp
      <4>2. /\ n > 0 /\ n <= max_steps[r] /\ ~ InCall(r) /\ pc[r] # "executing"
            /\ \A i \in 1 .. n - 1 : steps[r][i] = "observed"
            /\ steps[r][n] # "observed"
            /\ Len(number[r]) = IF Failed(steps[r][n]) THEN n ELSE n - 1
        BY <4>1 DEF Ended, Over, InCall
      <4>3. Attempts(r) = Len(number[r])
        <5>1. CASE Failed(steps[r][n])
          <6>1. \A i \in 1 .. n : steps[r][i] \in Called
            BY <3>1, <4>2, <5>1 DEF Failed, Called
          <6> QED
            BY <3>1, <4>2, <5>1, <6>1, AttemptsAre
        <5>2. CASE ~ Failed(steps[r][n])
          <6>1. \A i \in 1 .. n - 1 : steps[r][i] \in Called
            BY <4>2 DEF Called
          <6>2. \A i \in DOMAIN steps[r] : i > n - 1 => steps[r][i] \notin Called
            BY <3>1, <4>2, <5>2 DEF Failed, Called
          <6>3. n - 1 \in Nat /\ n - 1 <= n
            BY <3>1, <4>2
          <6> QED
            BY <3>1, <4>2, <5>2, <6>1, <6>2, <6>3, AttemptsAre
        <5> QED
          BY <5>1, <5>2
      <4>4. Len(number[r]) \in Nat
        BY TypeFacts DEF IInv
      <4> QED
        BY <3>1, <4>2, <4>3, <4>4
    <3> QED
      BY <3>2, <3>3
  <2>2. [call \in CallsMade |-> NumberOf(call)] \in Bijection(CallsMade, 1 .. calls)
    BY DEF IInv, NumberedOnce, Bijection, Injection, Surjection, IsInjective
  <2> QED
    BY <2>1, <2>2 DEF NoHiddenRetry
<1> QED
  BY <1>1, InductiveInvariant, PTL

\* The trace, the steps and the metrics of a finished run tell the same story
\* (AgentLoop.run).
THEOREM RecordTellsRun == Spec => []TraceTellsRun
<1>1. IInv => TraceTellsRun
  <2> SUFFICES ASSUME IInv, NEW r \in Run, pc[r] = "finished"
               PROVE  /\ status[r] = Ending(r)
                      /\ events[r] = Trace(steps[r], status[r])
                      /\ tool_failures[r] =
                           Cardinality({i \in DOMAIN steps[r] : steps[r][i] \in {"error", "timeout"}})
    BY DEF TraceTellsRun
  <2> DEFINE n == Len(steps[r])
             F == {i \in DOMAIN steps[r] : steps[r][i] \in {"error", "timeout"}}
  <2>1. /\ n \in Nat /\ DOMAIN steps[r] = 1 .. n /\ steps[r] \in Seq(Outcome)
    BY TypeFacts DEF IInv
  <2>2. events[r] = Trace(steps[r], status[r]) /\ (UsedUp(r) \/ Ended(r))
    BY DEF IInv, RunOK, Over
  <2>3. CASE UsedUp(r)
    <3>1. F = {}
      BY <2>3 DEF UsedUp, AllObserved
    <3>2. steps[r] = <<>> \/ Last(steps[r]) = "observed"
      BY <2>1, <2>3 DEF UsedUp, AllObserved, Last
    <3> QED
      BY <2>2, <2>3, <3>1, <3>2, FS_EmptySet DEF UsedUp, Ending
  <2>4. CASE Ended(r)
    <3>1. /\ n > 0 /\ steps[r][n] # "observed"
          /\ \A i \in 1 .. n - 1 : steps[r][i] = "observed"
          /\ status[r] = IF steps[r][n] = "final" THEN "succeeded" ELSE "failed"
          /\ tool_failures[r] = IF Failed(steps[r][n]) THEN 1 ELSE 0
      BY <2>4 DEF Ended
    <3>2. status[r] = Ending(r)
      BY <2>1, <3>1 DEF Ending, Last
    <3>3. \A i \in DOMAIN steps[r] : i = n \/ i \in 1 .. n - 1
      BY <2>1
    <3>4. CASE Failed(steps[r][n])
      <4>1. F = {n}
        BY <2>1, <3>1, <3>3, <3>4 DEF Failed
      <4> QED
        BY <2>2, <3>1, <3>2, <3>4, <4>1, FS_Singleton
    <3>5. CASE ~ Failed(steps[r][n])
      <4>1. F = {}
        BY <2>1, <3>1, <3>3, <3>5 DEF Failed
      <4> QED
        BY <2>2, <3>1, <3>2, <3>5, <4>1, FS_EmptySet
    <3> QED
      BY <3>4, <3>5
  <2> QED
    BY <2>2, <2>3, <2>4
<1> QED
  BY <1>1, InductiveInvariant, PTL
=============================================================================
