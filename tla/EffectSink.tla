------------------------------ MODULE EffectSink ------------------------------
(***************************************************************************)
(* What a sink of side effects promises to the labs that execute a step    *)
(* through it: an effect, once made, is never undone, and an operation has *)
(* at most one effect however often it is attempted, retried or replayed.  *)
(* CommitGap, HitlPause, SafeWrite and ToolGateway implement this          *)
(* specification, and FencedSink refines it for the leased workers.        *)
(***************************************************************************)
EXTENDS Naturals, Sequences

CONSTANT Operation

VARIABLE effects        \* the operations that took effect, oldest first

Performed(op) == \E i \in DOMAIN effects : effects[i] = op

Init == effects = <<>>

Perform(op) ==
  /\ ~ Performed(op)
  /\ effects' = Append(effects, op)

Next == \E op \in Operation : Perform(op)

Spec == Init /\ [][Next]_effects

\* No operation takes effect twice.
AtMostOnce == \A i, j \in DOMAIN effects : effects[i] = effects[j] => i = j
==============================================================================
