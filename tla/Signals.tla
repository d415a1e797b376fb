------------------------------- MODULE Signals -------------------------------
(***************************************************************************)
(* What a fiberize Condition promises: waiters are released in the order   *)
(* they came, a signal releases exactly one of those that wait, and one    *)
(* that was released but leaves by an exception passes its signal on.      *)
(***************************************************************************)
CONSTANT Tasks

VARIABLES
  waiting,   \* the tasks that wait
  ahead,     \* for each of them, those that came before it and still wait
  released,  \* the tasks that were signalled and did not return yet
  failed     \* those of both to which an exception happened

vars == <<waiting, ahead, released, failed>>

Init ==
  /\ waiting = {}
  /\ ahead = [t \in Tasks |-> {}]
  /\ released = {}
  /\ failed = {}

(* t is no longer in the line.                                             *)
StepOut(t) ==
  /\ waiting' = waiting \ {t}
  /\ ahead' = [u \in Tasks |-> IF u = t THEN {} ELSE ahead[u] \ {t}]

Await(t) ==
  /\ t \notin waiting \union released
  /\ waiting' = waiting \union {t}
  /\ ahead' = [ahead EXCEPT ![t] = waiting]
  /\ UNCHANGED <<released, failed>>

(* A signal that meets nobody has no effect.                               *)
Signal ==
  \E u \in waiting :
    /\ ahead[u] = {}
    /\ StepOut(u)
    /\ released' = released \union {u}
    /\ UNCHANGED failed

Return(t) ==
  /\ t \in released \ failed
  /\ released' = released \ {t}
  /\ UNCHANGED <<waiting, ahead, failed>>

(* An event handler threw.                                                 *)
Fail(t) ==
  /\ t \in (waiting \union released) \ failed
  /\ failed' = failed \union {t}
  /\ UNCHANGED <<waiting, ahead, released>>

(* The waiter leaves, or its signal goes on to the next one.               *)
Leave(t) ==
  /\ t \in failed
  /\ failed' = failed \ {t}
  /\ \/ /\ t \in waiting
        /\ StepOut(t)
        /\ UNCHANGED released
     \/ /\ t \in released
        /\ \E u \in waiting :
             /\ ahead[u] = {}
             /\ StepOut(u)
             /\ released' = (released \ {t}) \union {u}
     \/ /\ t \in released
        /\ waiting = {}
        /\ released' = released \ {t}
        /\ UNCHANGED <<waiting, ahead>>

Next == Signal \/ \E t \in Tasks : Await(t) \/ Return(t) \/ Fail(t) \/ Leave(t)

Spec == Init /\ [][Next]_vars
=============================================================================
