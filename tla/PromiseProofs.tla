---------------------------- MODULE PromiseProofs ----------------------------
(***************************************************************************)
(* Proofs about Promise, for any tasks, values and exceptions: nobody is   *)
(* woken before the result is there, and all that get it get the same.     *)
(***************************************************************************)
EXTENDS Promise, FiberConditionProofs

(* While the promise is empty no ticket has come up, and nobody is about   *)
(* to signal: the first `complete` stores the result before its signalAll, *)
(* and only a signalled waiter signals in turn.                            *)
QuietWhileEmpty ==
  result = NoValue => released = 0 /\ \A t \in Tasks : pc[t] \notin {"waking", "looping"}

TicketsDrawn == \A t \in Tasks : pc[t] \in InAwait => ticket[t] >= 1

(* What is stored is what the first function to finish did.                *)
StoredIsOutcome ==
  \/ outcome = NoValue /\ result = NoValue
  \/ outcome \in Outcomes /\ result = Copy(ResultOf(outcome))

PInv == IInv /\ QuietWhileEmpty /\ TicketsDrawn /\ StoredIsOutcome

LEMMA PromiseInit ==
  ASSUME PInit
  PROVE  PInv
<1>1. IInv
  BY InitInvariant DEF PInit
<1>2. QuietWhileEmpty /\ TicketsDrawn /\ StoredIsOutcome
  BY DEF PInit, Init, QuietWhileEmpty, TicketsDrawn, StoredIsOutcome, InAwait
<1>3. QED
  BY <1>1, <1>2 DEF PInv

(* A promise's step is one of its condition's, or none.                    *)
LEMMA ConditionSteps ==
  ASSUME [PNext]_promiseVars
  PROVE  [Next]_vars
<1>1. CASE UNCHANGED promiseVars
  BY <1>1 DEF promiseVars
<1>2. ASSUME NEW t \in Tasks,
             PProceed(t) \/ Complete(t) \/ AwaitResult(t) \/ Stop(t) \/ Disturb(t)
      PROVE  [Next]_vars
  BY <1>2 DEF PProceed, GetResult, Complete, AwaitResult, Next
<1>3. QED
  BY <1>1, <1>2 DEF PNext

(* The condition alone draws tickets from 1 up.                            *)
LEMMA TicketsStep ==
  ASSUME IInv, TicketsDrawn, [Next]_vars
  PROVE  TicketsDrawn'
<1> SUFFICES ASSUME NEW u \in Tasks, pc'[u] \in InAwait
             PROVE  ticket'[u] >= 1
  BY DEF TicketsDrawn
<1>1. pc \in [Tasks -> Point] /\ ticket \in [Tasks -> 0 .. nextTicket - 1]
  BY DEF IInv, TypeOK
<1>2. nextTicket >= 1
  BY DEF IInv, TypeOK, TicketsMatch
<1>3. CASE UNCHANGED vars
  BY <1>3 DEF TicketsDrawn, vars, callVars
<1>4. ASSUME NEW t \in Tasks, Await(t) PROVE ticket'[u] >= 1
  <2>1. CASE u = t
    BY <1>1, <1>2, <1>4, <2>1 DEF Await
  <2>2. CASE u # t
    BY <1>1, <1>4, <2>2 DEF Await, Goto, TicketsDrawn
  <2>3. QED
    BY <2>1, <2>2
(* No other step lets a task into await, or changes a ticket in there.     *)
<1> DEFINE Stays == pc[u] \in InAwait /\ ticket'[u] = ticket[u]
<1>5. ASSUME NEW t \in Tasks, Test(t) \/ Drain(t) \/ Suspend(t) \/ Resumed(t)
      PROVE  Stays
  BY <1>1, <1>5 DEF Test, Drain, Suspend, Resumed, Goto, InAwait
<1>6. ASSUME NEW t \in Tasks, Process(t)
      PROVE  Stays
  BY <1>1, <1>6 DEF Process, InAwait
<1>7. ASSUME NEW t \in Tasks, Stop(t) \/ Disturb(t)
      PROVE  Stays
  BY <1>7 DEF Stop, Disturb, callVars
<1>8. ASSUME NEW t \in Tasks, SignalOne(t),
             ticket' = ticket \/ ticket' = [ticket EXCEPT ![t] = 0]
      PROVE  Stays
  <2>1. pc' \in {[pc EXCEPT ![t] = "waking"], [pc EXCEPT ![t] = "idle"]}
    BY <1>8 DEF SignalOne, Goto
  <2>2. u # t
    BY <1>1, <2>1 DEF InAwait
  <2>3. QED
    BY <1>1, <1>8, <2>1, <2>2
<1>9. ASSUME NEW t \in Tasks, GiveUp(t) \/ Return(t) \/ ResumeWakee(t)
      PROVE  Stays
  <2>1. CASE GiveUp(t) /\ SignalOne(t)
    BY <1>8, <2>1 DEF GiveUp
  <2>2. CASE GiveUp(t) /\ Goto(t, "idle")
    BY <1>1, <2>2 DEF GiveUp, Goto, InAwait
  <2>3. CASE Return(t)
    BY <1>1, <2>3 DEF Return, Goto, InAwait
  <2>4. CASE ResumeWakee(t)
    BY <1>1, <2>4 DEF ResumeWakee, Goto, InAwait
  <2>5. QED
    BY <1>9, <2>1, <2>2, <2>3, <2>4 DEF GiveUp
<1>10. ASSUME NEW t \in Tasks, Signal(t) \/ SignalAll(t) \/ SignalNext(t)
       PROVE  Stays
  BY <1>8, <1>10 DEF Signal, SignalAll, SignalNext
<1>11. CASE Stays
  BY <1>1, <1>11 DEF TicketsDrawn
<1>12. CASE Next
  <2>1. ASSUME NEW t \in Tasks, Proceed(t) PROVE Stays
    BY <1>5, <1>6, <1>9, <1>10, <2>1 DEF Proceed
  <2>2. QED
    BY <1>4, <1>7, <1>9, <1>10, <1>11, <1>12, <2>1 DEF Next
<1>13. QED
  BY <1>3, <1>12

(* The first signal of a promise's condition comes out of `complete`.      *)
LEMMA QuietStep ==
  ASSUME IInv, QuietWhileEmpty, TicketsDrawn, [PNext]_promiseVars
  PROVE  QuietWhileEmpty'
<1> SUFFICES ASSUME result' = NoValue
             PROVE  released' = 0 /\ \A u \in Tasks : pc'[u] \notin {"waking", "looping"}
  BY DEF QuietWhileEmpty
<1>1. pc \in [Tasks -> Point]
  BY DEF IInv, TypeOK
<1>2. ASSUME NEW t \in Tasks PROVE ~Complete(t)
  <2>1. \A o \in Outcomes : Copy(ResultOf(o)) # NoValue
    BY PromiseAssumption DEF Copy, ResultOf, HoldValue, HoldException
  <2>2. QED
    BY <2>1 DEF Complete
<1>3. result = NoValue
  BY <1>2 DEF PNext, PProceed, GetResult, AwaitResult, promiseVars
<1>4. released = 0 /\ \A u \in Tasks : pc[u] \notin {"waking", "looping"}
  BY <1>3 DEF QuietWhileEmpty
<1>5. CASE UNCHANGED promiseVars
  BY <1>4, <1>5 DEF promiseVars, vars, condVars, callVars
<1>6. ASSUME NEW t \in Tasks, Proceed(t) \/ Return(t) \/ AwaitResult(t) \/ Stop(t) \/ Disturb(t)
      PROVE  released' = 0 /\ \A u \in Tasks : pc'[u] \notin {"waking", "looping"}
  <2>1. CASE Test(t) \/ Drain(t) \/ Suspend(t) \/ Resumed(t) \/ Return(t)
    BY <1>1, <1>4, <2>1 DEF Test, Drain, Suspend, Resumed, Return, Goto, condVars
  <2>2. CASE Process(t)
    BY <1>1, <1>4, <2>2 DEF Process, condVars
  <2>3. CASE GiveUp(t)
    <3>1. released < ticket[t]
      <4>1. ticket[t] >= 1
        BY <2>3 DEF GiveUp, TicketsDrawn, InAwait
      <4>2. QED
        BY <1>4, <4>1 DEF IInv, TypeOK
    <3>2. ~(released >= ticket[t])
      BY <3>1 DEF IInv, TypeOK
    <3>3. QED
      BY <1>1, <1>4, <2>3, <3>1, <3>2 DEF GiveUp, Goto
  <2>4. CASE SignalNext(t) \/ ResumeWakee(t)
    BY <1>4, <2>4 DEF SignalNext, ResumeWakee
  <2>5. CASE AwaitResult(t)
    BY <1>1, <1>3, <1>4, <2>5 DEF AwaitResult, Await, Goto
  <2>6. CASE Stop(t) \/ Disturb(t)
    BY <1>4, <2>6 DEF Stop, Disturb, condVars, callVars
  <2>7. QED
    BY <1>6, <2>1, <2>2, <2>3, <2>4, <2>5, <2>6 DEF Proceed
<1>7. QED
  BY <1>2, <1>5, <1>6 DEF PNext, PProceed, GetResult

LEMMA OutcomeStep ==
  ASSUME StoredIsOutcome, [PNext]_promiseVars
  PROVE  StoredIsOutcome'
<1>1. CASE UNCHANGED <<result, outcome>>
  BY <1>1 DEF StoredIsOutcome
<1>2. ASSUME NEW t \in Tasks, Complete(t) PROVE StoredIsOutcome'
  BY <1>2 DEF Complete, StoredIsOutcome
<1>3. QED
  BY <1>1, <1>2 DEF PNext, PProceed, GetResult, AwaitResult, promiseVars

LEMMA PromiseInductive ==
  ASSUME PInv, [PNext]_promiseVars
  PROVE  PInv'
<1>1. [Next]_vars
  BY ConditionSteps
<1>2. IInv'
  BY <1>1, Inductive DEF PInv
<1>3. TicketsDrawn'
  BY <1>1, TicketsStep DEF PInv
<1>4. QuietWhileEmpty'
  BY QuietStep DEF PInv
<1>5. StoredIsOutcome'
  BY OutcomeStep DEF PInv
<1>6. QED
  BY <1>2, <1>3, <1>4, <1>5 DEF PInv

LEMMA WokenNotEmpty ==
  ASSUME PInv
  PROVE  WokenByResult
<1> SUFFICES ASSUME NEW t \in Tasks, pc[t] = "woken", result = NoValue
             PROVE  FALSE
  BY DEF WokenByResult
<1>1. released >= ticket[t] /\ ticket[t] >= 1
  BY DEF PInv, IInv, WokenWasSignalled, TicketsDrawn, InAwait
<1>2. released = 0 /\ ticket[t] \in Int
  BY DEF PInv, IInv, TypeOK, QuietWhileEmpty
<1>3. QED
  BY <1>1, <1>2

(* A copy of the stored result gives or throws what the outcome was.       *)
LEMMA CopyKeepsOutcome ==
  ASSUME NEW o \in Outcomes
  PROVE  /\ Copy(Copy(ResultOf(o))) = Copy(ResultOf(o))
         /\ Returns(Copy(ResultOf(o))) = {o} \cap Values
         /\ Throws(Copy(ResultOf(o))) = {o} \cap Exceptions
<1>1. CASE o \in Values
  <2>1. o \notin Exceptions
    BY <1>1, OutcomeAssumption
  <2>2. QED
    BY <1>1, <2>1 DEF Copy, ResultOf, HoldValue, HoldException, Returns, Throws
<1>2. CASE o \notin Values
  BY <1>2 DEF Outcomes, Copy, ResultOf, HoldValue, HoldException, Returns, Throws
<1>3. QED
  BY <1>1, <1>2

LEMMA OneResultStep ==
  ASSUME PInv, [PNext]_promiseVars
  PROVE  /\ outcome # NoValue => outcome' = outcome
         /\ \A t \in Tasks : got'[t] # got[t] =>
              /\ Returns(got'[t]) = {outcome} \cap Values
              /\ Throws(got'[t]) = {outcome} \cap Exceptions
<1>1. outcome # NoValue => outcome' = outcome
  <2>1. outcome # NoValue => result # NoValue
    BY PromiseAssumption
       DEF PInv, StoredIsOutcome, Copy, ResultOf, HoldValue, HoldException
  <2>2. QED
    BY <2>1 DEF PNext, PProceed, GetResult, AwaitResult, Complete, promiseVars
<1>2. ASSUME NEW t \in Tasks, got'[t] # got[t]
      PROVE  /\ Returns(got'[t]) = {outcome} \cap Values
             /\ Throws(got'[t]) = {outcome} \cap Exceptions
  <2>1. PICK u \in Tasks : result # NoValue /\ got' = [got EXCEPT ![u] = Copy(result)]
    <3>1. PICK u \in Tasks : GetResult(u) \/ (AwaitResult(u) /\ result # NoValue)
      BY <1>2 DEF PNext, PProceed, Complete, AwaitResult, promiseVars
    <3>2. CASE GetResult(u)
      BY <3>2, WokenNotEmpty DEF GetResult, Return, WokenByResult
    <3>3. CASE AwaitResult(u) /\ result # NoValue
      BY <3>3 DEF AwaitResult
    <3>4. QED
      BY <3>1, <3>2, <3>3
  <2>2. got'[t] = Copy(result)
    BY <1>2, <2>1
  <2>3. outcome \in Outcomes /\ result = Copy(ResultOf(outcome))
    BY <2>1 DEF PInv, StoredIsOutcome
  <2>4. QED
    BY <2>2, <2>3, CopyKeepsOutcome
<1>3. QED
  BY <1>1, <1>2

-----------------------------------------------------------------------------
(* The inductive invariant of the promise and its condition together.     *)
THEOREM PromiseInvariance == PSpec => []PInv
<1>1. PInit => PInv
  BY PromiseInit
<1>2. PInv /\ [PNext]_promiseVars => PInv'
  BY PromiseInductive
<1>3. QED
  BY <1>1, <1>2, PTL DEF PSpec

(* The unchecked read of the optional at the end of await never finds it   *)
(* empty, whoever forwarded the signal.                                    *)
THEOREM AwaitFindsAResult == PSpec => []WokenByResult
<1>1. PInv => WokenByResult
  BY WokenNotEmpty
<1>2. QED
  BY <1>1, PromiseInvariance, PTL

(* All that await a promise get the outcome that was first.                *)
THEOREM AllGetTheFirstResult == PSpec => OneResult
<1>1. PInv /\ [PNext]_promiseVars =>
        [/\ outcome # NoValue => outcome' = outcome
         /\ \A t \in Tasks : got'[t] # got[t] =>
              /\ Returns(got'[t]) = {outcome} \cap Values
              /\ Throws(got'[t]) = {outcome} \cap Exceptions]_promiseVars
  BY OneResultStep
<1>2. QED
  BY <1>1, PromiseInvariance, PTL DEF PSpec, OneResult
===============================================================================
