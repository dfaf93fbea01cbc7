----------------------------- MODULE MCLeaseLock ------------------------------
(***************************************************************************)
(* Values for the run of LeaseLock.                                        *)
(***************************************************************************)
EXTENDS LeaseLock, TLC

CONSTANTS p1, p2, a, b

run_1 == <<"run-1">>
OneStep == {<<"step-1">>}

AllScenarios == {"free", "unfenced", "baseline", "leased"}
InOrder == <<p1, p2>>
Names == p1 :> a @@ p2 :> b
=============================================================================
