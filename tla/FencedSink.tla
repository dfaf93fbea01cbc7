------------------------------ MODULE FencedSink ------------------------------
(***************************************************************************)
(* What lab 11 promises of leases and effects together.  Ownership passes  *)
(* through numbered epochs (the fencing tokens); an effect is always made  *)
(* in the current epoch, so whoever was granted an earlier one is fenced   *)
(* off, and an operation has at most one effect across all epochs.         *)
(***************************************************************************)
EXTENDS Naturals, Sequences

CONSTANT Operation

VARIABLES
  epoch,        \* the number of ownership grants so far
  effects       \* <<operation, epoch>> pairs, oldest first

vars == <<epoch, effects>>

Performed(op) == \E i \in DOMAIN effects : effects[i][1] = op

Init == epoch = 0 /\ effects = <<>>

Grant ==
  /\ epoch' = epoch + 1
  /\ UNCHANGED effects

Perform(op) ==
  /\ epoch > 0
  /\ ~ Performed(op)
  /\ effects' = Append(effects, <<op, epoch>>)
  /\ UNCHANGED epoch

Next == Grant \/ \E op \in Operation : Perform(op)

Spec == Init /\ [][Next]_vars

\* No operation takes effect twice, whichever epochs attempted it.
AtMostOnce == \A i, j \in DOMAIN effects : effects[i][1] = effects[j][1] => i = j

\* An owner that was superseded never acts after its successor: effects carry
\* non-decreasing epochs.
EpochsInOrder == \A i, j \in DOMAIN effects : i <= j => effects[i][2] <= effects[j][2]

\* The operations alone, to compare with EffectSink.
Sink == INSTANCE EffectSink WITH effects <- [i \in DOMAIN effects |-> effects[i][1]]
==============================================================================
