--------------------------- MODULE MCDagFingerprint ---------------------------
(***************************************************************************)
(* Values for the runs of DagFingerprint: lab 10's fixture with A failing  *)
(* or not.                                                                 *)
(***************************************************************************)
EXTENDS DagFingerprint, TLC

Three == 1 .. 3
LabFixture == [m \in Modes |-> {(1 :> {}) @@ (2 :> {}) @@ (3 :> {1, 2})}]
LabFailures == {{}, {1}}
=============================================================================
