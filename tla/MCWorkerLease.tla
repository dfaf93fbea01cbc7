---------------------------- MODULE MCWorkerLease ----------------------------
(***************************************************************************)
(* Values for the runs of WorkerLease.                                     *)
(***************************************************************************)
EXTENDS WorkerLease

run_1 == <<"run-1">>
OneStep == {<<"step-1">>}
TwoSteps == {<<"step-1">>, <<"step-2">>}
=============================================================================
