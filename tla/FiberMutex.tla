------------------------------ MODULE FiberMutex ------------------------------
(***************************************************************************)
(* fiberize's Mutex: a lock that suspends tasks instead of OS threads.     *)
(* Contenders draw tickets and queue up; the owner hands the mutex over by *)
(* popping the first of them, increasing `released` and resuming the task, *)
(* which may have noticed `released` before, or may have given up because  *)
(* an event handler threw while it waited.                                 *)
(*                                                                         *)
(* An action is one critical section of the mutex's spinlock, one look at  *)
(* `released`, or one step of Parking, the contract of the schedulers.     *)
(***************************************************************************)
EXTENDS Integers, Sequences, FiniteSets

CONSTANTS
  Tasks,        \* tasks that use the mutex
  NoTask,       \* the null pointer
  MaxTicket,    \* bound on the tickets drawn
  MaxCredit,    \* bound on events and foreign resumes
  Quitters      \* tasks whose handlers may call context::stop

ASSUME MutexAssumption ==
  /\ NoTask \notin Tasks
  /\ IsFiniteSet(Tasks)
  /\ MaxTicket \in Nat
  /\ MaxCredit \in Nat
  /\ Quitters \subseteq Tasks

VARIABLES
  (* Mutex, under its spinlock; released is also read without it *)
  locked, released, nextTicket, queue,
  (* the calls of lock and unlock: where they are, and their locals *)
  pc, ticket, wakee,
  (* the tasks as Parking sees them *)
  phase, permit, mail, quit,
  credit

mutexVars == <<locked, released, nextTicket, queue>>
callVars  == <<pc, ticket, wakee>>
taskVars  == <<phase, permit, mail, quit>>
vars == <<mutexVars, callVars, taskVars, credit>>

Park == INSTANCE Parking

(* "test": the head of lock's loop; "processing": in context::process;     *)
(* "retest": behind it; "parking", "parked": in suspend; "failed": a       *)
(* handler threw; "waking": unlock between the spinlock and resume.        *)
Point == {"idle", "test", "processing", "retest", "parking", "parked",
          "failed", "holding", "waking"}
InLock == {"test", "processing", "retest", "parking", "parked", "failed"}

Goto(t, point) == pc' = [pc EXCEPT ![t] = point]

(* Mutex(bool locked): the creator may own the mutex from the beginning.   *)
Init ==
  /\ \E creator \in Tasks \union {NoTask} :
       /\ locked = (creator # NoTask)
       /\ pc = [t \in Tasks |-> IF t = creator THEN "holding" ELSE "idle"]
  /\ released = 0
  /\ nextTicket = 1
  /\ queue = << >>
  /\ ticket = [t \in Tasks |-> 0]
  /\ wakee = [t \in Tasks |-> NoTask]
  /\ phase = [t \in Tasks |-> "awake"]
  /\ permit = [t \in Tasks |-> FALSE]
  /\ mail = [t \in Tasks |-> 0]
  /\ quit = [t \in Tasks |-> FALSE]
  /\ credit = MaxCredit

-----------------------------------------------------------------------------
(* lock without contention, and try_lock, which changes nothing else.      *)
LockFree(t) ==
  /\ pc[t] = "idle"
  /\ ~locked
  /\ locked' = TRUE
  /\ Goto(t, "holding")
  /\ UNCHANGED <<released, nextTicket, queue, ticket, wakee, taskVars, credit>>

\* Mutant: ++nextTicket instead of nextTicket++.
ContendLate(t) ==
  /\ pc[t] = "idle"
  /\ locked
  /\ nextTicket <= MaxTicket
  /\ queue' = Append(queue, t)
  /\ ticket' = [ticket EXCEPT ![t] = nextTicket + 1]
  /\ nextTicket' = nextTicket + 1
  /\ Goto(t, "test")
  /\ UNCHANGED <<locked, released, wakee, taskVars, credit>>

(* lock with contention.                                                   *)
Contend(t) ==
  /\ pc[t] = "idle"
  /\ locked
  /\ nextTicket <= MaxTicket
  /\ queue' = Append(queue, t)
  /\ ticket' = [ticket EXCEPT ![t] = nextTicket]
  /\ nextTicket' = nextTicket + 1
  /\ Goto(t, "test")
  /\ UNCHANGED <<locked, released, wakee, taskVars, credit>>

\* Mutant: the second look at released is missing.
TestOnce(t) ==
  /\ pc[t] \in {"test", "retest"}
  /\ Goto(t, IF pc[t] = "retest" THEN "parking"
             ELSE IF released >= ticket[t] THEN "holding" ELSE "processing")
  /\ UNCHANGED <<mutexVars, ticket, wakee, taskVars, credit>>

(* The two looks at released, without the spinlock.                        *)
Test(t) ==
  /\ pc[t] \in {"test", "retest"}
  /\ Goto(t, IF released >= ticket[t] THEN "holding"
             ELSE IF pc[t] = "test" THEN "processing" ELSE "parking")
  /\ UNCHANGED <<mutexVars, ticket, wakee, taskVars, credit>>

(* context::process: an event is dispatched, and its handler may throw.    *)
Process(t) ==
  /\ pc[t] = "processing"
  /\ ~quit[t]
  /\ Park!Take(t)
  /\ pc' \in {pc, [pc EXCEPT ![t] = "failed"]}
  /\ UNCHANGED <<mutexVars, ticket, wakee, credit>>

(* A handler calls context::stop.                                          *)
Stop(t) ==
  /\ pc[t] = "processing"
  /\ t \in Quitters
  /\ ~quit[t]
  /\ UNCHANGED phase
  /\ Park!Quit(t)
  /\ UNCHANGED <<mutexVars, callVars, credit>>

(* The mailbox is empty, or the task was stopped: process returns.         *)
Drain(t) ==
  /\ pc[t] = "processing"
  /\ UNCHANGED phase
  /\ Park!GiveBack(t)
  /\ Goto(t, "retest")
  /\ UNCHANGED <<mutexVars, ticket, wakee, credit>>

Suspend(t) ==
  /\ pc[t] = "parking"
  /\ Park!Sleep(t)
  /\ Goto(t, "parked")
  /\ UNCHANGED <<mutexVars, ticket, wakee, credit>>

Resumed(t) ==
  /\ pc[t] = "parked"
  /\ Park!Wake(t)
  /\ Goto(t, "test")
  /\ UNCHANGED <<mutexVars, ticket, wakee, credit>>

\* Mutants: the mutex is marked as free although it is handed over; it is
\* set free and the first waiter dropped without being released.
HandOverAndFree(t) ==
  /\ queue # << >>
  /\ released' = released + 1
  /\ queue' = Tail(queue)
  /\ wakee' = [wakee EXCEPT ![t] = Head(queue)]
  /\ locked' = FALSE
  /\ Goto(t, IF Head(queue) = NoTask THEN "idle" ELSE "waking")
HandOverToNobody(t) ==
  /\ queue' = IF queue = << >> THEN queue ELSE Tail(queue)
  /\ locked' = FALSE
  /\ Goto(t, "idle")
  /\ UNCHANGED <<released, wakee>>

(* unlock, with the spinlock held by t: those that gave up are dropped, and *)
(* the first of the others is released; only its ticket makes a waiter see *)
(* a difference, so the increments count as one.                           *)
HandOver(t) ==
  \/ \E k \in 1 .. Len(queue) :
       /\ queue[k] # NoTask
       /\ \A i \in 1 .. k - 1 : queue[i] = NoTask
       /\ released' = released + k
       /\ queue' = SubSeq(queue, k + 1, Len(queue))
       /\ wakee' = [wakee EXCEPT ![t] = queue[k]]
       /\ Goto(t, "waking")
       /\ UNCHANGED locked
  \/ /\ \A i \in 1 .. Len(queue) : queue[i] = NoTask
     /\ released' = released + Len(queue)
     /\ queue' = << >>
     /\ locked' = FALSE
     /\ Goto(t, "idle")
     /\ UNCHANGED wakee

Unlock(t) ==
  /\ pc[t] = "holding"
  /\ HandOver(t)
  /\ UNCHANGED <<nextTicket, ticket, taskVars, credit>>

\* Mutants: the mutex is not passed on; the wrong slot is cleared.
GiveUpEating(t) ==
  /\ pc[t] = "failed"
  /\ queue' = IF released < ticket[t]
                THEN [queue EXCEPT ![ticket[t] - released] = NoTask] ELSE queue
  /\ Goto(t, "idle")
  /\ UNCHANGED <<locked, released, nextTicket, ticket, wakee, taskVars, credit>>
GiveUpFirstSlot(t) ==
  /\ pc[t] = "failed"
  /\ released < ticket[t]
  /\ queue' = [queue EXCEPT ![1] = NoTask]
  /\ Goto(t, "idle")
  /\ UNCHANGED <<locked, released, nextTicket, ticket, wakee, taskVars, credit>>

(* lock's catch block: leave the queue, or pass the mutex on.              *)
GiveUp(t) ==
  /\ pc[t] = "failed"
  /\ \/ /\ released < ticket[t]
        /\ queue' = [queue EXCEPT ![ticket[t] - released] = NoTask]
        /\ Goto(t, "idle")
        /\ UNCHANGED <<locked, released, wakee>>
     \/ released >= ticket[t] /\ HandOver(t)
  /\ UNCHANGED <<nextTicket, ticket, taskVars, credit>>

(* The resume at the end of unlock, for a task that may be anywhere by now. *)
ResumeWakee(t) ==
  /\ pc[t] = "waking"
  /\ Park!Poke(wakee[t])
  /\ wakee' = [wakee EXCEPT ![t] = NoTask]
  /\ Goto(t, "idle")
  /\ UNCHANGED <<mutexVars, ticket, credit>>

(* Events, and resumes meant for something else.                           *)
Disturb(t) ==
  /\ credit > 0
  /\ credit' = credit - 1
  /\ Park!Post(t) \/ Park!Poke(t)
  /\ UNCHANGED <<mutexVars, callVars>>

-----------------------------------------------------------------------------
Step(t) ==
  \/ Test(t) \/ Process(t) \/ Drain(t) \/ Suspend(t) \/ Resumed(t)
  \/ GiveUp(t) \/ Unlock(t) \/ ResumeWakee(t)

Next == \E t \in Tasks : Step(t) \/ LockFree(t) \/ Contend(t) \/ Stop(t) \/ Disturb(t)

Spec == Init /\ [][Next]_vars

(* A task that is awake goes on, one that holds the mutex unlocks it, and  *)
(* the schedulers keep the promise of Parking.                             *)
FairSpec == Spec /\ \A t \in Tasks : WF_vars(Step(t))

-----------------------------------------------------------------------------
(* Properties                                                              *)

(* The variables have the types the code declares.                         *)
TypeOK ==
  /\ locked \in BOOLEAN
  /\ released \in Nat
  /\ nextTicket \in Nat
  /\ queue \in Seq(Tasks \union {NoTask})
  /\ pc \in [Tasks -> Point]
  /\ ticket \in [Tasks -> 0 .. nextTicket - 1]
  /\ wakee \in [Tasks -> Tasks \union {NoTask}]
  /\ phase \in [Tasks -> {"awake", "asleep"}]
  /\ permit \in [Tasks -> BOOLEAN]
  /\ mail \in [Tasks -> Nat]
  /\ quit \in [Tasks -> BOOLEAN]
  /\ credit \in Nat

Waits(t) == pc[t] \in InLock /\ released < ticket[t]

(* Handed over, whether the task knows it yet or not.                      *)
Owns(t) == pc[t] = "holding" \/ (pc[t] \in InLock /\ released >= ticket[t])

(* The mutex has one owner while it is locked, and none otherwise: it is   *)
(* not owned twice, and not lost by a hand-over to a task that gives up.   *)
OneOwner ==
  /\ \A t, u \in Tasks : Owns(t) /\ Owns(u) => t = u
  /\ locked <=> \E t \in Tasks : Owns(t)

(* mutex.cpp:66: the index in the queue that follows from a ticket and     *)
(* from released is the task's own, however many came, went and gave up.   *)
TicketsMatch ==
  /\ released + Len(queue) + 1 = nextTicket
  /\ \A t \in Tasks : Waits(t) =>
       /\ ticket[t] - released \in 1 .. Len(queue)
       /\ queue[ticket[t] - released] = t
  /\ \A i \in 1 .. Len(queue) :
       queue[i] # NoTask => Waits(queue[i]) /\ ticket[queue[i]] = released + i

(* The comment in lock(): whenever the condition arrives, the task does    *)
(* not sleep on it. A task that was given the mutex is awake, holds a      *)
(* permit, or is about to be resumed.                                      *)
NoSleepingOwner ==
  \A t \in Tasks : Owns(t) /\ (pc[t] = "parked" \/ pc[t] = "parking") =>
    permit[t] \/ \E u \in Tasks : pc[u] = "waking" /\ wakee[u] = t

(* Every task that waits gets the mutex, or throws.                        *)
WaitersServed ==
  \A t \in Tasks : Waits(t) ~> ~(pc[t] \in InLock)

-----------------------------------------------------------------------------
(* The refinement: FairLock, and the schedulers' contract.                 *)
Only(S) == IF S = {} THEN NoTask ELSE CHOOSE t \in S : TRUE
Owner == Only({t \in Tasks : Owns(t)})

Waiting == {t \in Tasks : Waits(t)}

(* Who gets the mutex before t: tickets are drawn in the order of arrival. *)
Ahead(t) == IF Waits(t) THEN {u \in Tasks : Waits(u) /\ ticket[u] < ticket[t]} ELSE {}

Lock == INSTANCE FairLock
  WITH owner <- Owner, waiting <- Waiting, ahead <- [t \in Tasks |-> Ahead(t)]

ImplementsFairLock == Lock!Spec
=============================================================================
