-------------------------- MODULE OperationIdentity --------------------------
(***************************************************************************)
(* The stable operation identity of lab07.py, reused by labs 08, 09 and    *)
(* 11: the string "run_id:step_id".  An identifier is a sequence of        *)
(* symbols and the identity is their concatenation around the separator,   *)
(* so that two pairs of identifiers can collide exactly when the strings   *)
(* of the program do.                                                      *)
(***************************************************************************)
EXTENDS Sequences

Separator == ":"

stable_operation_id(run_id, step_id) == run_id \o <<Separator>> \o step_id
==============================================================================
