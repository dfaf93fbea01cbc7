--------------------------- MODULE ExternalService ---------------------------
(***************************************************************************)
(* FileExternalService of lab07.py: the fake external service whose file   *)
(* outlives the workers.  A service is a record of its call log, its       *)
(* effects (an effect is its operation id, its effect_id its place) and    *)
(* the index of keyed operations.  Each operation loads the file, changes  *)
(* it and replaces it atomically; labs 7 and 9 run one worker at a time,   *)
(* so an operation is a function from a service to a service.              *)
(***************************************************************************)
EXTENDS Naturals, Sequences

CONSTANTS
  Operation,    \* the keys under which effects are committed
  None          \* Python's None

EmptyService ==
  [calls |-> <<>>, effects |-> <<>>, operations |-> [op \in Operation |-> None]]

Called(svc, kind, op) ==
  [svc EXCEPT !.calls = Append(@, [kind |-> kind, operation_id |-> op])]

\* What reconcile returns is not None.
Committed(svc, op) == svc.operations[op] # None

commit_unkeyed(svc) ==
  [Called(svc, "write", None) EXCEPT !.effects = Append(@, None)]

\* Mutant of commit_idempotent: the key of a new effect is not remembered.
commit_idempotent_Forgets(svc, op) ==
  [Called(svc, "write", op) EXCEPT !.effects = Append(@, op)]

commit_idempotent(svc, op) ==
  IF Committed(svc, op)
  THEN Called(svc, "write", op)
  ELSE [Called(svc, "write", op) EXCEPT
          !.effects = Append(@, op),
          !.operations[op] = Len(svc.effects)]

reconcile(svc, op) == Called(svc, "reconcile", op)

ServiceType ==
  [calls : Seq([kind : {"write", "reconcile"}, operation_id : Operation \cup {None}]),
   effects : Seq(Operation \cup {None}),
   operations : [Operation -> Nat \cup {None}]]

\* The index and the effects agree: a key points at its one effect.
IndexMatchesEffects(svc) ==
  /\ \A op \in Operation : Committed(svc, op) =>
       svc.operations[op] + 1 \in DOMAIN svc.effects
         /\ svc.effects[svc.operations[op] + 1] = op
  /\ \A i \in DOMAIN svc.effects :
       svc.effects[i] # None => svc.operations[svc.effects[i]] = i - 1
=============================================================================
