----------------------------- MODULE MCAgentLoop -----------------------------
(***************************************************************************)
(* Values for the run of AgentLoop.                                        *)
(***************************************************************************)
EXTENDS AgentLoop

UpToTwo == 0 .. 2
SomeFailures == {{}, {1}, {2}, {1, 3}}
=============================================================================
