------------------------------- MODULE HitlPause -------------------------------
(***************************************************************************)
(* The human approval pause of lab09.py: run_worker, FileApprovalService   *)
(* and the human who decides.  A worker asks for approval of the           *)
(* privileged step and performs it once it is approved; it exits whenever  *)
(* there is no decision yet and is invoked again later.  The baseline      *)
(* numbers its requests and remembers the number only in memory.  The      *)
(* treatment writes a pause record that binds the operation to a stable    *)
(* approval id before it asks.                                             *)
(*                                                                         *)
(* Workers run one at a time.  The approval file has no lock: the worker's *)
(* request and the human's decision each load it, change the copy and      *)
(* replace the file, so each is two actions here.  With `overlap` the human  *)
(* may act while a worker runs; without it, as in run_hitl_experiment,     *)
(* only between two workers.                                               *)
(***************************************************************************)
EXTENDS Integers, Sequences, FiniteSets, OperationIdentity

CONSTANTS
  Scenarios,        \* the pairs <<mode, overlap>> to run
  RunId, Step,      \* the run and its privileged step
  CrashPoints,      \* the values of pc at which a worker may die
  None,
  MaxCrashes,       \* bound on the crashes
  MaxRequests,      \* bound on the numbered approval requests
  MaxDeliveries,    \* bound on the human's calls of decide
  MaxCalls          \* bound on the calls of the external service

ASSUME HitlParameters ==
  /\ Scenarios \subseteq {"baseline", "treatment"} \X BOOLEAN
  /\ RunId \in Seq(STRING) /\ Step \in Seq(STRING)
  /\ CrashPoints \subseteq
       {"pausing", "requesting", "saving", "looking", "recording", "committing"}

ASSUME HitlBounds ==
  MaxCrashes \in Nat /\ MaxRequests \in Nat /\ MaxDeliveries \in Nat /\ MaxCalls \in Nat

operation_id == stable_operation_id(RunId, Step)
Decision == {"approved", "rejected"}

\* Approval ids are "approval-<n>" or "approval:<operation id>".
numbered_id(n) == <<"approval-", n>>
stable_approval_id(op) == <<"approval:", op>>
ApprovalId == {stable_approval_id(operation_id)} \cup {numbered_id(n) : n \in 1 .. MaxRequests}

\* The contents of the pause file.
PauseType ==
  [operation_id : {operation_id}, approval_id : ApprovalId,
   status : {"waiting"} \cup Decision, decision : Decision \cup {None}]

\* Python's None is neither an identifier nor a number, a decision or a record.
ASSUME NoneIsNothing ==
  /\ None \notin Nat /\ None # operation_id
  /\ None \notin Decision /\ None \notin ApprovalId /\ None \notin PauseType

INSTANCE ExternalService WITH Operation <- {operation_id}

VARIABLES
  mode,         \* "baseline" or "treatment", fixed
  overlap,      \* whether the human may act while a worker runs, fixed
  approvals,    \* the file of FileApprovalService
  pause,        \* the durable pause record, None without one
  service,      \* the file of FileExternalService
  pc,           \* where the worker is, "idle" between workers
  memory,       \* the worker's approval_id, loaded approvals and decision
  human,        \* the human's call of decide
  deliveries,   \* how often the human called decide
  crashes       \* how many workers died

fixed == <<mode, overlap>>
vars == <<fixed, approvals, pause, service, pc, memory, human, deliveries, crashes>>

NoApprovals ==
  [next_id |-> 1, requests |-> {}, decisions |-> [id \in ApprovalId |-> None],
   decision_writes |-> 0]
NoMemory == [approval_id |-> None, loaded |-> NoApprovals, decision |-> None]
NobodyDecides == [at |-> "idle", id |-> None, decision |-> None, loaded |-> NoApprovals]

Init ==
  /\ \E s \in Scenarios : mode = s[1] /\ overlap = s[2]
  /\ approvals = NoApprovals
  /\ pause = None
  /\ service = EmptyService
  /\ pc = "idle"
  /\ memory = NoMemory
  /\ human = NobodyDecides
  /\ deliveries = 0
  /\ crashes = 0

-----------------------------------------------------------------------------
(* FileApprovalService: what request and decide make of the data they loaded *)

\* Mutant of RequestId: a later baseline worker finds the first request again.
RequestId_First(data) ==
  IF mode = "baseline" THEN numbered_id(1) ELSE stable_approval_id(operation_id)

RequestId(data) ==
  IF mode = "baseline" THEN numbered_id(data.next_id) ELSE stable_approval_id(operation_id)

request(data) ==
  [data EXCEPT !.next_id = IF mode = "baseline" THEN @ + 1 ELSE @,
               !.requests = @ \cup {RequestId(data)}]

\* Mutant of decide: a repeated decision is counted.
decide_CountsAll(data, id, d) ==
  [data EXCEPT !.decisions[id] = IF @ = None THEN d ELSE @,
               !.decision_writes = @ + 1]

\* An equal decision changes nothing; a conflicting one raises, see HumanConflicts.
decide(data, id, d) ==
  IF data.decisions[id] = None
  THEN [data EXCEPT !.decisions[id] = d, !.decision_writes = @ + 1]
  ELSE data

-----------------------------------------------------------------------------
(* run_worker                                                              *)

InTurn == overlap \/ human.at = "idle"

\* A worker is invoked; in the treatment it reads the pause record first.
Start ==
  /\ pc = "idle" /\ InTurn
  /\ Len(service.calls) < MaxCalls
  /\ mode = "baseline" => approvals.next_id <= MaxRequests
  /\ IF mode = "baseline"
     THEN pc' = "requesting" /\ memory' = NoMemory
     ELSE IF pause = None
          THEN pc' = "pausing" /\ memory' = NoMemory
          ELSE pc' = "looking" /\ memory' = [NoMemory EXCEPT !.approval_id = pause.approval_id]
  /\ UNCHANGED <<fixed, approvals, pause, service, human, deliveries, crashes>>

WritePause ==
  /\ pc = "pausing"
  /\ pause' = [operation_id |-> operation_id, approval_id |-> stable_approval_id(operation_id),
               status |-> "waiting", decision |-> None]
  /\ pc' = "requesting"
  /\ UNCHANGED <<fixed, approvals, service, memory, human, deliveries, crashes>>

RequestLoads ==
  /\ pc = "requesting"
  /\ memory' = [memory EXCEPT !.approval_id = RequestId(approvals), !.loaded = approvals]
  /\ pc' = "saving"
  /\ UNCHANGED <<fixed, approvals, pause, service, human, deliveries, crashes>>

RequestSaves ==
  /\ pc = "saving"
  /\ approvals' = request(memory.loaded)
  /\ pc' = "looking"
  /\ UNCHANGED <<fixed, pause, service, memory, human, deliveries, crashes>>

\* The worker exits and forgets.
Exit == pc' = "idle" /\ memory' = NoMemory

\* The baseline goes on when it reads an approval and exits otherwise; the
\* treatment exits when it reads no decision.
Lookup ==
  /\ pc = "looking"
  /\ LET d == approvals.decisions[memory.approval_id] IN
     IF mode = "baseline"
     THEN IF d = "approved" THEN pc' = "committing" /\ UNCHANGED memory ELSE Exit
     ELSE IF d = None
          THEN Exit
          ELSE pc' = "recording" /\ memory' = [memory EXCEPT !.decision = d]
  /\ UNCHANGED <<fixed, approvals, pause, service, human, deliveries, crashes>>

\* Mutant of RecordDecision: any decision lets the worker go on.
RecordDecision_AnyGoesOn ==
  /\ pc = "recording"
  /\ pause' = [pause EXCEPT !.decision = memory.decision, !.status = memory.decision]
  /\ pc' = "committing" /\ UNCHANGED memory
  /\ UNCHANGED <<fixed, approvals, service, human, deliveries, crashes>>

RecordDecision ==
  /\ pc = "recording"
  /\ pause' = [pause EXCEPT !.decision = memory.decision, !.status = memory.decision]
  /\ IF memory.decision = "approved" THEN pc' = "committing" /\ UNCHANGED memory ELSE Exit
  /\ UNCHANGED <<fixed, approvals, service, human, deliveries, crashes>>

\* Mutant of Perform: the worker goes back to waiting.
Perform_Waits ==
  /\ pc = "committing"
  /\ Exit
  /\ UNCHANGED <<fixed, approvals, pause, service, human, deliveries, crashes>>

Perform ==
  /\ pc = "committing"
  /\ service' = commit_idempotent(service, operation_id)
  /\ Exit
  /\ UNCHANGED <<fixed, approvals, pause, human, deliveries, crashes>>

Crash ==
  /\ pc \in CrashPoints
  /\ crashes < MaxCrashes
  /\ crashes' = crashes + 1
  /\ Exit
  /\ UNCHANGED <<fixed, approvals, pause, service, human, deliveries>>

-----------------------------------------------------------------------------
(* The human, who sees the requests in the approval file                   *)

HumanLoads(id, d) ==
  /\ human.at = "idle" /\ (overlap \/ pc = "idle")
  /\ deliveries < MaxDeliveries
  /\ id \in approvals.requests
  /\ human' = [at |-> "deciding", id |-> id, decision |-> d, loaded |-> approvals]
  /\ deliveries' = deliveries + 1
  /\ UNCHANGED <<fixed, approvals, pause, service, pc, memory, crashes>>

\* The decision contradicts an earlier one: decide raises and saves nothing.
HumanConflicts ==
  /\ human.at = "deciding"
  /\ human.loaded.decisions[human.id] \notin {None, human.decision}
  /\ human' = NobodyDecides
  /\ UNCHANGED <<fixed, approvals, pause, service, pc, memory, deliveries, crashes>>

\* Mutant of HumanSaves: no conflict is detected, the last decision wins.
HumanSaves_LastWins ==
  /\ human.at = "deciding"
  /\ approvals' = [decide(human.loaded, human.id, human.decision) EXCEPT
                    !.decisions[human.id] = human.decision]
  /\ human' = NobodyDecides
  /\ UNCHANGED <<fixed, pause, service, pc, memory, deliveries, crashes>>

HumanSaves ==
  /\ human.at = "deciding"
  /\ human.loaded.decisions[human.id] \in {None, human.decision}
  /\ approvals' = decide(human.loaded, human.id, human.decision)
  /\ human' = NobodyDecides
  /\ UNCHANGED <<fixed, pause, service, pc, memory, deliveries, crashes>>

-----------------------------------------------------------------------------
Work ==
  \/ WritePause \/ RequestLoads \/ RequestSaves
  \/ Lookup \/ RecordDecision \/ Perform

Human ==
  \/ \E id \in ApprovalId, d \in Decision : HumanLoads(id, d)
  \/ HumanConflicts \/ HumanSaves

Next == Start \/ Work \/ Crash \/ Human

Spec == Init /\ [][Next]_vars

\* Somebody invokes the worker again, a running worker goes on, and the human
\* answers the requests there are.
FairSpec == Spec /\ WF_vars(Start) /\ WF_vars(Work) /\ WF_vars(Human)

-----------------------------------------------------------------------------
(* Properties                                                              *)

ApprovalsType ==
  [next_id : Nat \ {0}, requests : SUBSET ApprovalId,
   decisions : [ApprovalId -> Decision \cup {None}], decision_writes : Nat]

TypeOK ==
  /\ <<mode, overlap>> \in Scenarios
  /\ approvals \in ApprovalsType
  /\ pause \in PauseType \cup {None}
  /\ service \in ServiceType
  /\ pc \in {"idle", "pausing", "requesting", "saving", "looking", "recording", "committing"}
  /\ memory \in [approval_id : ApprovalId \cup {None}, loaded : ApprovalsType,
                 decision : Decision \cup {None}]
  /\ human \in [at : {"idle", "deciding"}, id : ApprovalId \cup {None},
                decision : Decision \cup {None}, loaded : ApprovalsType]
  /\ deliveries \in Nat /\ crashes \in Nat

Approved(id) == id \in approvals.requests /\ approvals.decisions[id] = "approved"

\* The privileged effect happens only with the human's approval, in the treatment
\* of exactly the request bound to the operation, and the approval still stands
\* afterwards (run_worker: "only when the decision is approved").
EffectIsApproved ==
  service.effects # <<>> =>
    /\ mode = "baseline" => \E id \in ApprovalId : Approved(id)
    /\ mode = "treatment" => /\ Approved(stable_approval_id(operation_id))
                             /\ pause # None /\ pause.status = "approved"

\* What the pause record says of the decision is what the human decided, although
\* it is copied there from a file that others replace.
PauseAgrees ==
  pause # None /\ (pause.decision # None \/ pause.status # "waiting") =>
    /\ pause.decision = approvals.decisions[pause.approval_id]
    /\ pause.status = pause.decision

\* Only the baseline's repeated requests, made while the human may act, can save
\* over a decision: they load the approvals before it and replace the file after.
KeepsDecisions == mode = "treatment" \/ ~ overlap

\* "Human decision delivered twice: one durable decision" (labs/09 RESULT.md).
OneDecisionPerRequest ==
  KeepsDecisions =>
  approvals.decision_writes = Cardinality({id \in ApprovalId : approvals.decisions[id] # None})

\* The well-formed state: types, two files that agree on the decision, and one
\* decision for each request that has any.
PauseInv == TypeOK /\ PauseAgrees /\ OneDecisionPerRequest

\* A decision is never lost or reversed: not by a conflicting delivery, and not
\* by a request that saves a copy of the approvals loaded before the decision.
DecisionsAreFinal ==
  [][\A id \in ApprovalId :
       KeepsDecisions /\ approvals.decisions[id] # None =>
         approvals'.decisions[id] = approvals.decisions[id]]_vars

\* Baseline: a worker that finds no decision on its own new request never
\* benefits from the approvals of requests that earlier workers made.
BaselineLosesApprovals ==
  mode = "baseline" /\ ~ overlap => service.effects = <<>>

Resolved == pause # None /\ pause.status # "waiting"

\* Treatment: once the request is in the approval file, the wait for the human ends,
\* whatever number of workers die on the way: with a recorded rejection, or with an
\* approval and the privileged effect.
RequestedIsSettled ==
  (mode = "treatment" /\ stable_approval_id(operation_id) \in approvals.requests)
    ~> ((pause # None /\ pause.status = "rejected") \/ service.effects # <<>>)

\* "After restart, the worker reuses the same approval identity, consumes the human
\* decision" (labs/09 QUESTION.md): every pause of the treatment is resolved.
PauseResolves == (mode = "treatment" /\ pause # None) ~> Resolved

\* The privileged step has at most one effect, however often the worker resumes.
Sink == INSTANCE EffectSink WITH Operation <- {operation_id}, effects <- service.effects
SinkSpec == Sink!Spec
=============================================================================
