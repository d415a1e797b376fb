---------------------------- MODULE FiberCondition ----------------------------
(***************************************************************************)
(* fiberize's Condition, used by tasks that hold its spinlock.  Waiters    *)
(* draw tickets and queue up, as in the mutex; a signal pops waiters until *)
(* it finds one that did not give up, and drops the spinlock while it      *)
(* resumes it, so that signalAll is a loop others can get into.            *)
(*                                                                         *)
(* An action is one critical section of the spinlock, one look at          *)
(* `released`, or one step of Parking, the contract of the schedulers.     *)
(***************************************************************************)
EXTENDS Integers, Sequences, FiniteSets

CONSTANTS
  Tasks,        \* tasks that use the condition
  NoTask,       \* the null pointer
  MaxTicket,    \* bound on the tickets drawn
  MaxCredit,    \* bound on events and foreign resumes
  Quitters      \* tasks whose handlers may call context::stop

ASSUME ConditionAssumption ==
  /\ NoTask \notin Tasks
  /\ IsFiniteSet(Tasks)
  /\ MaxTicket \in Nat
  /\ MaxCredit \in Nat
  /\ Quitters \subseteq Tasks

VARIABLES
  (* Condition, under the spinlock; released is also read without it *)
  released, nextTicket, queue,
  (* the calls of await, signal and signalAll: where they are, their locals, *)
  (* and whether a signaller is in signalAll *)
  pc, ticket, wakee, all,
  (* the tasks as Parking sees them *)
  phase, permit, mail, quit,
  credit

condVars == <<released, nextTicket, queue>>
callVars == <<pc, ticket, wakee, all>>
taskVars == <<phase, permit, mail, quit>>
vars == <<condVars, callVars, taskVars, credit>>

Park == INSTANCE Parking

(* await is at its loop's head ("test"), in context::process, at the       *)
(* second look ("retest"), in suspend ("parking", "parked"), in its catch  *)
(* block ("failed") or at its last lock ("woken"); a signaller is between  *)
(* its unlock and its resume ("waking"), or signalAll goes on ("looping"). *)
Point == {"idle", "test", "processing", "retest", "parking", "parked",
          "failed", "woken", "waking", "looping"}
InAwait == {"test", "processing", "retest", "parking", "parked", "failed", "woken"}

Goto(t, point) == pc' = [pc EXCEPT ![t] = point]

Init ==
  /\ released = 0
  /\ nextTicket = 1
  /\ queue = << >>
  /\ pc = [t \in Tasks |-> "idle"]
  /\ ticket = [t \in Tasks |-> 0]
  /\ wakee = [t \in Tasks |-> NoTask]
  /\ all = [t \in Tasks |-> FALSE]
  /\ phase = [t \in Tasks |-> "awake"]
  /\ permit = [t \in Tasks |-> FALSE]
  /\ mail = [t \in Tasks |-> 0]
  /\ quit = [t \in Tasks |-> FALSE]
  /\ credit = MaxCredit

-----------------------------------------------------------------------------
\* Mutant: ++nextTicket instead of nextTicket++.
AwaitLate(t) ==
  /\ pc[t] = "idle"
  /\ nextTicket <= MaxTicket
  /\ queue' = Append(queue, t)
  /\ ticket' = [ticket EXCEPT ![t] = nextTicket + 1]
  /\ nextTicket' = nextTicket + 1
  /\ Goto(t, "test")
  /\ UNCHANGED <<released, wakee, all, taskVars, credit>>

(* await, up to its unlock.                                                *)
Await(t) ==
  /\ pc[t] = "idle"
  /\ nextTicket <= MaxTicket
  /\ queue' = Append(queue, t)
  /\ ticket' = [ticket EXCEPT ![t] = nextTicket]
  /\ nextTicket' = nextTicket + 1
  /\ Goto(t, "test")
  /\ UNCHANGED <<released, wakee, all, taskVars, credit>>

\* Mutant: the second look at released is missing.
TestOnce(t) ==
  /\ pc[t] \in {"test", "retest"}
  /\ Goto(t, IF pc[t] = "retest" THEN "parking"
             ELSE IF released >= ticket[t] THEN "woken" ELSE "processing")
  /\ UNCHANGED <<condVars, ticket, wakee, all, taskVars, credit>>

(* The two looks at released, without the spinlock.                        *)
Test(t) ==
  /\ pc[t] \in {"test", "retest"}
  /\ Goto(t, IF released >= ticket[t] THEN "woken"
             ELSE IF pc[t] = "test" THEN "processing" ELSE "parking")
  /\ UNCHANGED <<condVars, ticket, wakee, all, taskVars, credit>>

(* context::process: an event is dispatched, and its handler may throw.    *)
Process(t) ==
  /\ pc[t] = "processing"
  /\ ~quit[t]
  /\ Park!Take(t)
  /\ pc' \in {pc, [pc EXCEPT ![t] = "failed"]}
  /\ UNCHANGED <<condVars, ticket, wakee, all, credit>>

(* A handler calls context::stop.                                          *)
Stop(t) ==
  /\ pc[t] = "processing"
  /\ t \in Quitters
  /\ ~quit[t]
  /\ UNCHANGED phase
  /\ Park!Quit(t)
  /\ UNCHANGED <<condVars, callVars, credit>>

(* The mailbox is empty, or the task was stopped: process returns.         *)
Drain(t) ==
  /\ pc[t] = "processing"
  /\ UNCHANGED phase
  /\ Park!GiveBack(t)
  /\ Goto(t, "retest")
  /\ UNCHANGED <<condVars, ticket, wakee, all, credit>>

Suspend(t) ==
  /\ pc[t] = "parking"
  /\ Park!Sleep(t)
  /\ Goto(t, "parked")
  /\ UNCHANGED <<condVars, ticket, wakee, all, credit>>

Resumed(t) ==
  /\ pc[t] = "parked"
  /\ Park!Wake(t)
  /\ Goto(t, "test")
  /\ UNCHANGED <<condVars, ticket, wakee, all, credit>>

(* The end of await, with the spinlock held again.                         *)
Return(t) ==
  /\ pc[t] = "woken"
  /\ ticket' = [ticket EXCEPT ![t] = 0]
  /\ Goto(t, "idle")
  /\ UNCHANGED <<condVars, wakee, all, taskVars, credit>>

\* Mutant: the front of the queue is not popped.
SignalWithoutPop(t) ==
  \/ \E k \in 1 .. Len(queue) :
       /\ queue[k] # NoTask
       /\ \A i \in 1 .. k - 1 : queue[i] = NoTask
       /\ wakee' = [wakee EXCEPT ![t] = queue[k]]
       /\ Goto(t, "waking")
       /\ UNCHANGED <<released, queue>>
  \/ /\ \A i \in 1 .. Len(queue) : queue[i] = NoTask
     /\ Goto(t, "idle")
     /\ UNCHANGED <<released, queue, wakee>>

(* The loop of signal and signalAll, from one resume to the next: those    *)
(* that gave up are dropped, and the first of the others is released.      *)
SignalOne(t) ==
  \/ \E k \in 1 .. Len(queue) :
       /\ queue[k] # NoTask
       /\ \A i \in 1 .. k - 1 : queue[i] = NoTask
       /\ released' = released + k
       /\ queue' = SubSeq(queue, k + 1, Len(queue))
       /\ wakee' = [wakee EXCEPT ![t] = queue[k]]
       /\ Goto(t, "waking")
  \/ /\ \A i \in 1 .. Len(queue) : queue[i] = NoTask
     /\ released' = released + Len(queue)
     /\ queue' = << >>
     /\ Goto(t, "idle")
     /\ UNCHANGED wakee

Signal(t) ==
  /\ pc[t] = "idle"
  /\ SignalOne(t)
  /\ UNCHANGED <<nextTicket, ticket, all, taskVars, credit>>

SignalAll(t) ==
  /\ pc[t] = "idle"
  /\ SignalOne(t)
  /\ all' = [all EXCEPT ![t] = (pc'[t] = "waking")]
  /\ UNCHANGED <<nextTicket, ticket, taskVars, credit>>

(* signalAll has the spinlock again and looks at the queue as it is now.   *)
SignalNext(t) ==
  /\ pc[t] = "looping"
  /\ SignalOne(t)
  /\ all' = [all EXCEPT ![t] = (pc'[t] = "waking")]
  /\ UNCHANGED <<nextTicket, ticket, taskVars, credit>>

\* Mutant: signalAll stops at its first waiter.
WakeOnly(t) ==
  /\ pc[t] = "waking"
  /\ Park!Poke(wakee[t])
  /\ wakee' = [wakee EXCEPT ![t] = NoTask]
  /\ all' = [all EXCEPT ![t] = FALSE]
  /\ Goto(t, "idle")
  /\ UNCHANGED <<condVars, ticket, credit>>

(* The resume, without the spinlock: the task may be anywhere by now.      *)
ResumeWakee(t) ==
  /\ pc[t] = "waking"
  /\ Park!Poke(wakee[t])
  /\ wakee' = [wakee EXCEPT ![t] = NoTask]
  /\ Goto(t, IF all[t] THEN "looping" ELSE "idle")
  /\ UNCHANGED <<condVars, ticket, all, credit>>

\* Mutants: the signal is not passed on; the wrong slot is cleared.
GiveUpEating(t) ==
  /\ pc[t] = "failed"
  /\ queue' = IF released < ticket[t]
                THEN [queue EXCEPT ![ticket[t] - released] = NoTask] ELSE queue
  /\ ticket' = [ticket EXCEPT ![t] = 0]
  /\ Goto(t, "idle")
  /\ UNCHANGED <<released, nextTicket, wakee, all, taskVars, credit>>
GiveUpFirstSlot(t) ==
  /\ pc[t] = "failed"
  /\ released < ticket[t]
  /\ queue' = [queue EXCEPT ![1] = NoTask]
  /\ ticket' = [ticket EXCEPT ![t] = 0]
  /\ Goto(t, "idle")
  /\ UNCHANGED <<released, nextTicket, wakee, all, taskVars, credit>>

(* await's catch block: leave the queue, or pass the signal on.  Either    *)
(* way the exception leaves await with the spinlock released.              *)
GiveUp(t) ==
  /\ pc[t] = "failed"
  /\ \/ /\ released < ticket[t]
        /\ queue' = [queue EXCEPT ![ticket[t] - released] = NoTask]
        /\ Goto(t, "idle")
        /\ UNCHANGED <<released, wakee>>
     \/ released >= ticket[t] /\ SignalOne(t)
  /\ ticket' = [ticket EXCEPT ![t] = 0]
  /\ UNCHANGED <<nextTicket, all, taskVars, credit>>

(* Events, and resumes meant for something else.                           *)
Disturb(t) ==
  /\ credit > 0
  /\ credit' = credit - 1
  /\ Park!Post(t) \/ Park!Poke(t)
  /\ UNCHANGED <<condVars, callVars>>

-----------------------------------------------------------------------------
(* What goes on by itself once it began, Return left to the user.          *)
Proceed(t) ==
  \/ Test(t) \/ Process(t) \/ Drain(t) \/ Suspend(t) \/ Resumed(t)
  \/ GiveUp(t) \/ SignalNext(t) \/ ResumeWakee(t)

Next == \E t \in Tasks :
  \/ Proceed(t) \/ Return(t) \/ Await(t) \/ Signal(t) \/ SignalAll(t)
  \/ Stop(t) \/ Disturb(t)

Spec == Init /\ [][Next]_vars

-----------------------------------------------------------------------------
(* Properties                                                              *)

(* The variables have the types the code declares.                         *)
TypeOK ==
  /\ released \in Nat
  /\ nextTicket \in Nat
  /\ queue \in Seq(Tasks \union {NoTask})
  /\ pc \in [Tasks -> Point]
  /\ ticket \in [Tasks -> 0 .. nextTicket - 1]
  /\ wakee \in [Tasks -> Tasks \union {NoTask}]
  /\ all \in [Tasks -> BOOLEAN]
  /\ phase \in [Tasks -> {"awake", "asleep"}]
  /\ permit \in [Tasks -> BOOLEAN]
  /\ mail \in [Tasks -> Nat]
  /\ quit \in [Tasks -> BOOLEAN]
  /\ credit \in Nat

Waits(t) == pc[t] \in InAwait /\ released < ticket[t]
Signalled(t) == pc[t] \in InAwait /\ released >= ticket[t]

(* condition.cpp:54: the index in the queue that follows from a ticket and *)
(* from released is the task's own, however many came, went and gave up.   *)
TicketsMatch ==
  /\ released + Len(queue) + 1 = nextTicket
  /\ \A t \in Tasks : Waits(t) =>
       /\ ticket[t] - released \in 1 .. Len(queue)
       /\ queue[ticket[t] - released] = t
  /\ \A i \in 1 .. Len(queue) :
       queue[i] # NoTask => Waits(queue[i]) /\ ticket[queue[i]] = released + i

(* The comment in await(): wherever the signal meets the waiter, it does   *)
(* not sleep on it: it holds a permit, or is about to be resumed.          *)
NoSleepingWinner ==
  \A t \in Tasks : Signalled(t) /\ pc[t] \in {"parking", "parked"} =>
    permit[t] \/ \E u \in Tasks : pc[u] = "waking" /\ wakee[u] = t


-----------------------------------------------------------------------------
(* The refinement: a signal releases exactly one waiter, in order, and is  *)
(* not lost with one that gives up, before or after it was signalled.      *)
Waiting == {t \in Tasks : Waits(t)}

(* Who is signalled before t: tickets are drawn in the order of arrival.   *)
Ahead(t) == IF Waits(t) THEN {u \in Tasks : Waits(u) /\ ticket[u] < ticket[t]} ELSE {}

Abstract == INSTANCE Signals
  WITH waiting <- Waiting,
       ahead <- [t \in Tasks |-> Ahead(t)],
       released <- {t \in Tasks : Signalled(t)},
       failed <- {t \in Tasks : pc[t] = "failed"}

ImplementsSignals == Abstract!Spec
=============================================================================
