------------------------------- MODULE Promise -------------------------------
(***************************************************************************)
(* fiberize's Promise: an optional result, the spinlock it shares with a   *)
(* Condition, and complete and await on top of them.  The first complete   *)
(* wins; it stores the result before it wakes anybody, and the others are  *)
(* turned away, so a task that comes later does not wait at all.  It is    *)
(* the promise of a future: what it stores is a Result.                    *)
(***************************************************************************)
EXTENDS FiberCondition, Result

CONSTANT NoValue   \* boost::none, and "nothing yet"

ASSUME PromiseAssumption ==
  /\ NoValue \notin Outcomes
  /\ \A o \in Outcomes : NoValue \notin {HoldValue(o), HoldException(o)}

VARIABLES
  result,   \* the promise's result, under the spinlock
  got,      \* the result that await returned to a task last
  outcome   \* history: what the function whose complete was the first did

promiseVars == <<vars, result, got, outcome>>

PInit ==
  /\ Init
  /\ result = NoValue
  /\ got = [t \in Tasks |-> NoValue]
  /\ outcome = NoValue

\* Mutant: the check that the promise is still empty is missing.
CompleteAgain(t) ==
  \E o \in Outcomes :
    /\ result' = Copy(ResultOf(o))
    /\ outcome' = IF outcome = NoValue THEN o ELSE outcome
    /\ SignalAll(t)
    /\ UNCHANGED got

\* Mutant: the waiters are woken although storing the result threw.
CompleteWithoutResult(t) ==
  /\ result = NoValue
  /\ SignalAll(t)
  /\ UNCHANGED <<result, got, outcome>>

(* complete; a complete that fails (the promise is not empty, or storing   *)
(* the result throws) changes nothing.                                     *)
Complete(t) ==
  \E o \in Outcomes :
    /\ result = NoValue
    /\ result' = Copy(ResultOf(o))
    /\ outcome' = o
    /\ SignalAll(t)
    /\ UNCHANGED got

(* await: a result that is there is copied at once.                        *)
AwaitResult(t) ==
  \/ /\ result # NoValue
     /\ pc[t] = "idle"
     /\ got' = [got EXCEPT ![t] = Copy(result)]
     /\ UNCHANGED <<vars, result, outcome>>
  \/ /\ result = NoValue
     /\ Await(t)
     /\ UNCHANGED <<result, got, outcome>>

(* The return of the condition's await.                                    *)
GetResult(t) ==
  /\ Return(t)
  /\ got' = [got EXCEPT ![t] = Copy(result)]
  /\ UNCHANGED <<result, outcome>>

PProceed(t) == (Proceed(t) /\ UNCHANGED <<result, got, outcome>>) \/ GetResult(t)

PNext == \E t \in Tasks :
  \/ PProceed(t) \/ Complete(t) \/ AwaitResult(t)
  \/ (Stop(t) \/ Disturb(t)) /\ UNCHANGED <<result, got, outcome>>

PSpec == PInit /\ [][PNext]_promiseVars

(* Tasks that are awake go on, and those that hold a permit wake up.       *)
PFairSpec == PSpec /\ \A t \in Tasks : WF_promiseVars(PProceed(t))

-----------------------------------------------------------------------------
(* promise.hpp:102: a task that returns from the condition's await reads   *)
(* the optional without a check: the signal it came by, forwarded by a     *)
(* waiter that gave up or not, is one of a complete promise.               *)
WokenByResult == \A t \in Tasks : pc[t] = "woken" => result # NoValue

(* Whoever asks, and whenever he comes, the outcome that was first is his: *)
(* get() returns the value the function returned, or throws what it threw. *)
OneResult ==
  [][/\ outcome # NoValue => outcome' = outcome
     /\ \A t \in Tasks : got'[t] # got[t] =>
          /\ Returns(got'[t]) = {outcome} \cap Values
          /\ Throws(got'[t]) = {outcome} \cap Exceptions]_promiseVars

(* Once the promise is complete, everyone who waits for it leaves, with    *)
(* the result or with an exception of his own, whoever comes, is signalled *)
(* and gives up between two rounds of signalAll.                           *)
EveryoneServed ==
  \A t \in Tasks : (result # NoValue /\ pc[t] \in InAwait) ~> ~(pc[t] \in InAwait)

(* complete comes to its end: the queue it empties does not grow again.    *)
CompleteReturns ==
  \A t \in Tasks : (pc[t] \in {"waking", "looping"}) ~> (pc[t] = "idle")
=============================================================================
