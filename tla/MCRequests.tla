---------------------------- MODULE MCRequests -----------------------------
(***************************************************************************)
(* The programs of MCInterrupts, with the unanswered calls counted.        *)
(***************************************************************************)
EXTENDS MCInterrupts, CPURequests
=============================================================================
