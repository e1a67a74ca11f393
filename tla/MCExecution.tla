---------------------------- MODULE MCExecution ----------------------------
(***************************************************************************)
(* The execution runtime with one session and two kill calls.              *)
(***************************************************************************)
EXTENDS Execution
=============================================================================
