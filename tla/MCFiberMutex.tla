---------------------------- MODULE MCFiberMutex ----------------------------
(* The instance of FiberMutex for TLC.                                       *)
EXTENDS FiberMutex
=============================================================================
