------------------------------ MODULE MCDispatch ------------------------------
(* A program for Dispatch: handlers of question wait for an answer, those of *)
(* answer and of kill do not wait, and nobody waits for a question.          *)
EXTENDS Dispatch

CONSTANTS question, answer

Uses == {<<Main, question>>, <<question, Kill>>}
Waits == {<<Main, answer>>, <<question, answer>>}

(* The program keeps to the discipline that the theorems of DispatchProofs   *)
(* about handlers ask for.                                                   *)
ASSUME ProgramAssumption == Discipline
===============================================================================
