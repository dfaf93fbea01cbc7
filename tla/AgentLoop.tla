------------------------------ MODULE AgentLoop ------------------------------
(***************************************************************************)
(* AgentLoop.run of lab01.py with FakeTool: runs of the loop, each a       *)
(* coroutine, ask a policy for decisions and call a tool under a timeout   *)
(* until the policy gives a final answer, something fails or the step      *)
(* budget is used up.  The policy answers anything at any time, as a       *)
(* ScriptedPolicy may with one script or another, and may raise; the runs  *)
(* may share their tool, whose call may take any time or never end.        *)
(***************************************************************************)
EXTENDS Integers, FiniteSets, SequencesExt

CONSTANTS
  Run,          \* the runs
  Budgets,      \* the values of max_steps to try
  FailOnCalls,  \* the sets of calls, numbered from 1, that are to fail
  None

ASSUME LoopParameters ==
  /\ Budgets \subseteq Nat
  /\ FailOnCalls \subseteq SUBSET Nat
  /\ None \notin Nat

VARIABLES
  max_steps,     \* per run, fixed
  fail_on_calls, \* the tool's failures, fixed
  calls,         \* the tool's calls
  status, steps, events, tool_failures,  \* the RunRecord of each run; steps[r] holds
                                         \* what became of each decision
  pc,            \* where each run is
  number         \* history: the numbers its calls had when they began

record == <<status, steps, events, tool_failures>>
vars == <<max_steps, fail_on_calls, calls, record, pc, number>>

Init ==
  /\ max_steps \in [Run -> Budgets] /\ fail_on_calls \in FailOnCalls
  /\ calls = 0
  /\ status = [r \in Run |-> "running"] /\ steps = [r \in Run |-> <<>>]
  /\ events = [r \in Run |-> <<>>] /\ tool_failures = [r \in Run |-> 0]
  /\ pc = [r \in Run |-> "new"]
  /\ number = [r \in Run |-> <<>>]

Goto(r, where) == pc' = [pc EXCEPT ![r] = where]

Event(type, step_index) == [event_type |-> type, step_index |-> step_index]

\* _emit, of several events one after another.
Emit(r, es) == events' = [events EXCEPT ![r] = @ \o es]

\* The index of the step being worked on.
Index(r) == Len(steps[r])

StartRun(r) ==
  /\ pc[r] = "new"
  /\ Emit(r, <<Event("run_started", None)>>)
  /\ Goto(r, "deciding")
  /\ UNCHANGED <<max_steps, fail_on_calls, calls, status, steps, tool_failures, number>>

Exhausted(r) == Len(steps[r]) >= max_steps[r]

Exhaust(r) ==
  /\ pc[r] = "deciding" /\ Exhausted(r)
  /\ status' = [status EXCEPT ![r] = "budget_exhausted"]
  /\ Emit(r, <<Event("step_budget_exhausted", None)>>)
  /\ Goto(r, "finishing")
  /\ UNCHANGED <<max_steps, fail_on_calls, calls, steps, tool_failures, number>>

\* What the policy decided, if not on a call: a final output, neither that nor a
\* tool (a script that is used up), or a tool that does not exist.
Verdict ==
  [final |-> [status |-> "succeeded", event |-> "run_succeeded"],
   invalid |-> [status |-> "failed", event |-> "run_failed"],
   unknown |-> [status |-> "failed", event |-> "tool_failed"]]

DecideEnd(r, d) ==
  /\ pc[r] = "deciding" /\ ~ Exhausted(r)
  /\ status' = [status EXCEPT ![r] = Verdict[d].status]
  /\ steps' = [steps EXCEPT ![r] = Append(@, d)]
  /\ Emit(r, <<Event("decision", Index(r)), Event(Verdict[d].event, Index(r))>>)
  /\ Goto(r, "finishing")
  /\ UNCHANGED <<max_steps, fail_on_calls, calls, tool_failures, number>>

\* policy.decide raises, and with it run: the record is lost to the caller.
DecideRaises(r) ==
  /\ pc[r] = "deciding" /\ ~ Exhausted(r)
  /\ Goto(r, "raised")
  /\ UNCHANGED <<max_steps, fail_on_calls, calls, record, number>>

DecideTool(r) ==
  /\ pc[r] = "deciding" /\ ~ Exhausted(r)
  /\ Emit(r, <<Event("decision", Index(r)), Event("tool_started", Index(r))>>)
  /\ Goto(r, "calling")
  /\ UNCHANGED <<max_steps, fail_on_calls, calls, status, steps, tool_failures, number>>

-----------------------------------------------------------------------------
(* FakeTool.execute, and how the loop takes its outcome                    *)

ExecuteBegins(r) ==
  /\ pc[r] = "calling"
  /\ calls' = calls + 1
  /\ number' = [number EXCEPT ![r] = Append(@, calls')]
  /\ Goto(r, "executing")
  /\ UNCHANGED <<max_steps, fail_on_calls, record>>

Observe(r) ==
  /\ steps' = [steps EXCEPT ![r] = Append(@, "observed")]
  /\ Emit(r, <<Event("tool_succeeded", Index(r))>>)
  /\ Goto(r, "deciding")
  /\ UNCHANGED <<status, tool_failures>>

\* Mutants of Fail: a timeout is not counted; the call is made again, and only
\* counted.
Fail_TimeoutUncounted(r, how) ==
  /\ tool_failures' = [tool_failures EXCEPT ![r] = IF how = "error" THEN @ + 1 ELSE @]
  /\ status' = [status EXCEPT ![r] = "failed"]
  /\ steps' = [steps EXCEPT ![r] = Append(@, how)]
  /\ Emit(r, <<Event("tool_failed", Index(r))>>)
  /\ Goto(r, "finishing")

Fail_Retries(r, how) ==
  /\ tool_failures' = [tool_failures EXCEPT ![r] = @ + 1]
  /\ Goto(r, "calling")
  /\ UNCHANGED <<status, steps, events>>

Fail(r, how) ==
  /\ tool_failures' = [tool_failures EXCEPT ![r] = @ + 1]
  /\ status' = [status EXCEPT ![r] = "failed"]
  /\ steps' = [steps EXCEPT ![r] = Append(@, how)]
  /\ Emit(r, <<Event("tool_failed", Index(r))>>)
  /\ Goto(r, "finishing")

\* Mutant of ExecuteEnds: the calls are numbered from 0.
ExecuteEnds_FromZero(r) ==
  /\ pc[r] = "executing"
  /\ IF calls - 1 \in fail_on_calls THEN Fail(r, "error") ELSE Observe(r)
  /\ UNCHANGED <<max_steps, fail_on_calls, calls, number>>

\* After its delay the tool looks at the number of calls again, not at its own.
ExecuteEnds(r) ==
  /\ pc[r] = "executing"
  /\ IF calls \in fail_on_calls THEN Fail(r, "error") ELSE Observe(r)
  /\ UNCHANGED <<max_steps, fail_on_calls, calls, number>>

\* Mutant of Timeout: the timer is over when the tool begins.
Timeout_NotExecuting(r) ==
  /\ pc[r] = "calling"
  /\ Fail(r, "timeout")
  /\ UNCHANGED <<max_steps, fail_on_calls, calls, number>>

\* asyncio.wait_for gives up and cancels the call, which has begun: tool_timeout_seconds
\* is taken to be positive (with none left, wait_for cancels a call that never began).
Timeout(r) ==
  /\ pc[r] = "executing"
  /\ Fail(r, "timeout")
  /\ UNCHANGED <<max_steps, fail_on_calls, calls, number>>

Finish(r) ==
  /\ pc[r] = "finishing"
  /\ Emit(r, <<Event("run_finished", None)>>)
  /\ Goto(r, "finished")
  /\ UNCHANGED <<max_steps, fail_on_calls, calls, status, steps, tool_failures, number>>

\* The segments of run that the event loop schedules; a tool's call may never end.
Loop(r) ==
  \/ StartRun(r) \/ Exhaust(r) \/ DecideRaises(r) \/ DecideTool(r) \/ Finish(r)
  \/ \E d \in DOMAIN Verdict : DecideEnd(r, d)
  \/ ExecuteBegins(r) \/ Timeout(r)

Next == \E r \in Run : Loop(r) \/ ExecuteEnds(r)

Spec == Init /\ [][Next]_vars

\* The event loop runs every coroutine that can go on, and its timers expire.
FairSpec == Spec /\ \A r \in Run : WF_vars(Loop(r))
-----------------------------------------------------------------------------
(* Properties                                                              *)

Outcome == {"observed", "error", "timeout"} \cup DOMAIN Verdict

EventType ==
  [event_type : {"run_started", "decision", "tool_started", "tool_succeeded", "tool_failed",
                 "run_succeeded", "run_failed", "step_budget_exhausted", "run_finished"},
   step_index : Nat \cup {None}]

TypeOK ==
  /\ max_steps \in [Run -> Budgets] /\ fail_on_calls \in FailOnCalls
  /\ calls \in Nat
  /\ status \in [Run -> {"running", "succeeded", "failed", "budget_exhausted"}]
  /\ steps \in [Run -> Seq(Outcome)]
  /\ events \in [Run -> Seq(EventType)]
  /\ tool_failures \in [Run -> Nat]
  /\ pc \in [Run -> {"new", "deciding", "calling", "executing", "finishing",
                     "finished", "raised"}]
  /\ number \in [Run -> Seq(Nat)]

Called == {"observed", "error", "timeout"}
InCall(r) == pc[r] \in {"calling", "executing"}

Attempts(r) == Cardinality({i \in DOMAIN steps[r] : steps[r][i] \in Called})

\* The calls of the runs, and the number that the tool gave to each.
CallsMade == UNION {{r} \X DOMAIN number[r] : r \in Run}
NumberOf(call) == number[call[1]][call[2]]

\* "Explicit steps, timeout, budget": a run never has more steps than its budget,
\* and the tool was called once for each step that called it and not again: a
\* failure is the last step of its run (labs/01 RESULT.md, "no hidden retry"), and
\* the tool counted each call of a run once, however many runs share it.
NoHiddenRetry ==
  /\ \A r \in Run :
       /\ Len(steps[r]) + (IF InCall(r) THEN 1 ELSE 0) <= max_steps[r]
       /\ Len(number[r]) = Attempts(r) + (IF pc[r] = "executing" THEN 1 ELSE 0)
       /\ \A i \in DOMAIN steps[r] : steps[r][i] # "observed" => i = Len(steps[r])
  /\ [call \in CallsMade |-> NumberOf(call)] \in Bijection(CallsMade, 1 .. calls)

\* The events that tell of one step.
StepEvents(i, outcome) ==
  <<Event("decision", i)>> \o
  CASE outcome = "observed" -> <<Event("tool_started", i), Event("tool_succeeded", i)>>
    [] outcome \in {"error", "timeout"} -> <<Event("tool_started", i), Event("tool_failed", i)>>
    [] outcome = "final" -> <<Event("run_succeeded", i)>>
    [] outcome = "invalid" -> <<Event("run_failed", i)>>
    [] outcome = "unknown" -> <<Event("tool_failed", i)>>

\* The events of the first n steps, all of them observed: three for each.
Observations(n) ==
  [k \in 1 .. 3 * n |-> StepEvents((k - 1) \div 3, "observed")[((k - 1) % 3) + 1]]

\* The trace of a run that has the given steps and status, begun and finished.  Only
\* its last step may be anything but observed.
Trace(outcomes, ending) ==
  LET n == Len(outcomes)
  IN  <<Event("run_started", None)>>
        \o (IF ending = "budget_exhausted"
            THEN Observations(n) \o <<Event("step_budget_exhausted", None)>>
            ELSE Observations(n - 1) \o StepEvents(n - 1, outcomes[n]))
        \o <<Event("run_finished", None)>>

\* The status that the last step determines.
Ending(r) ==
  IF steps[r] = <<>> \/ Last(steps[r]) = "observed" THEN "budget_exhausted"
  ELSE IF Last(steps[r]) = "final" THEN "succeeded" ELSE "failed"

\* Of a finished run the trace, the steps and the metrics tell the same story: one
\* can be computed from the other, and exactly the failed calls were counted.
TraceTellsRun ==
  \A r \in Run :
    pc[r] = "finished" =>
      /\ status[r] = Ending(r)
      /\ events[r] = Trace(steps[r], status[r])
      /\ tool_failures[r] =
           Cardinality({i \in DOMAIN steps[r] : steps[r][i] \in {"error", "timeout"}})

\* The numbers of calls that a call of a run may have seen when it ended: from its own
\* to the last one before the run called again.
Seen(r, i) ==
  number[r][i] .. (IF i = Len(number[r]) THEN calls ELSE number[r][i + 1] - 1)

\* "Deterministic tool used to physically inject success, failure": a call fails only if
\* an injected one was made since it began, and succeeds only if some other was, its own
\* counted.  Of a run that has the tool for itself this is exact, since each of its calls
\* sees its own number alone; of runs that share it, it says how far a failure strays.
FailsAsInjected ==
  \A r \in Run : \A i \in DOMAIN number[r] \cap DOMAIN steps[r] :
    /\ steps[r][i] = "error" => Seen(r, i) \cap fail_on_calls # {}
    /\ steps[r][i] = "observed" => ~ (Seen(r, i) \subseteq fail_on_calls)

\* The well-formed state: types, and failures where they were injected.
LoopInv == TypeOK /\ FailsAsInjected

\* Every run ends, however the policy answers and although a tool may hang.
EveryRunEnds == \A r \in Run : <>(pc[r] \in {"finished", "raised"})
=============================================================================
