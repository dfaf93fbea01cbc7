----------------------------- MODULE MCCommitGap -----------------------------
(***************************************************************************)
(* Values for the runs of CommitGap.                                       *)
(***************************************************************************)
EXTENDS CommitGap

run_1 == <<"run-1">>
TwoSteps == {<<"step-1">>, <<"step-2">>}
BothModes == {"baseline", "treatment"}
=============================================================================
