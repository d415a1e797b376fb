------------------------------- MODULE FairLock -------------------------------
(***************************************************************************)
(* What a mutex promises: at most one task owns it, those that have to     *)
(* wait get it in the order in which they asked for it, and a task that    *)
(* changes its mind leaves the others their places.                        *)
(***************************************************************************)
CONSTANTS Tasks, NoTask

VARIABLES
  owner,    \* the task that owns the mutex, or NoTask
  waiting,  \* the tasks that wait for it
  ahead     \* for each of them, those that asked before it and still wait

vars == <<owner, waiting, ahead>>

Init ==
  /\ owner \in Tasks \union {NoTask}
  /\ waiting = {}
  /\ ahead = [t \in Tasks |-> {}]

(* t is no longer in the line.                                             *)
StepOut(t) ==
  /\ waiting' = waiting \ {t}
  /\ ahead' = [u \in Tasks |-> IF u = t THEN {} ELSE ahead[u] \ {t}]

Acquire(t) ==
  /\ owner = NoTask
  /\ owner' = t
  /\ UNCHANGED <<waiting, ahead>>

Ask(t) ==
  /\ owner \notin {t, NoTask}
  /\ t \notin waiting
  /\ waiting' = waiting \union {t}
  /\ ahead' = [ahead EXCEPT ![t] = waiting]
  /\ UNCHANGED owner

Leave(t) ==
  /\ t \in waiting
  /\ StepOut(t)
  /\ UNCHANGED owner

Release(t) ==
  /\ owner = t
  /\ \/ waiting = {} /\ owner' = NoTask /\ UNCHANGED <<waiting, ahead>>
     \/ \E u \in waiting : ahead[u] = {} /\ owner' = u /\ StepOut(u)

Next == \E t \in Tasks : Acquire(t) \/ Ask(t) \/ Leave(t) \/ Release(t)

Spec == Init /\ [][Next]_vars
=============================================================================
