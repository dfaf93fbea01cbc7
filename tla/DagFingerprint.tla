---------------------------- MODULE DagFingerprint ----------------------------
(***************************************************************************)
(* Lab 10 inside the architecture suite of eval_suite.py: the suite runs   *)
(* the bounded scheduler on its fixture and hashes the report, without its *)
(* wall time, into the semantic fingerprint.  Here the suite runs twice on *)
(* the same tasks and the two reports are kept.                            *)
(***************************************************************************)
EXTENDS DagScheduler

VARIABLE reports        \* what _report returned, one per finished execution

allVars == <<vars, reports>>

SuiteInit == Init /\ reports = <<>>

\* _report: the outcome as sorted lists (sets here), the rest as recorded.
Report ==
  [max_concurrency |-> max_concurrency, completed |-> completed, failed |-> failed,
   started |-> started, dependency_violations |-> violations]

\* The execution is over; its report is kept and the suite is run again.
Rerun ==
  /\ phase = "done" /\ Len(reports) < 2
  /\ reports' = Append(reports, Report)
  /\ phase' = FirstPhase /\ todo' = Task /\ pending' = Task /\ ready' = {} /\ running' = {}
  /\ stage' = [t \in Task |-> "none"]
  /\ completed' = {} /\ failed' = {} /\ started' = <<>> /\ violations' = <<>>
  /\ busy' = 0 /\ max_concurrency' = 0
  /\ UNCHANGED tasks

SuiteNext == (Next /\ UNCHANGED reports) \/ Rerun

SuiteSpec == SuiteInit /\ [][SuiteNext]_allVars

\* "Re-running the same seed must produce the same semantic evidence fingerprint"
\* (labs/06-eval-harness/QUESTION.md; test_eval_suite.py asserts it): the reports
\* of two executions of the same tasks are equal.
SameReport == Len(reports) = 2 => reports[1] = reports[2]

StartedIn(report) == {report.started[i] : i \in DOMAIN report.started}

\* What the tasks do determine, whatever the schedule was: two reports of the bounded
\* scheduler have the same completed, failed and (no) violating tasks and started the
\* same ones, each once.  So two fingerprints can differ in the order of `started` and
\* in max_concurrency, which is one at least if a task was started (_report).
ReportsAgree ==
  mode = "bounded" =>
    \A i, j \in DOMAIN reports :
      /\ reports[i].completed = reports[j].completed
      /\ reports[i].failed = reports[j].failed
      /\ reports[i].dependency_violations = reports[j].dependency_violations
      /\ StartedIn(reports[i]) = StartedIn(reports[j])
      /\ Len(reports[i].started) = Cardinality(StartedIn(reports[i]))
      /\ reports[i].max_concurrency \in IF reports[i].started = <<>> THEN {0} ELSE 1 .. MaxWorkers
=============================================================================
