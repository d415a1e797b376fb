------------------------------- MODULE TaskLife -------------------------------
(* The life of a task from its builder to its deletion, and the references   *)
(* that keep its memory (builder-inl.hpp, tasktraits.hpp, runner.cpp,        *)
(* task.hpp, localfiberref.hpp, scheduler.cpp, mailbox.cpp).                 *)
(*                                                                           *)
(* A reference here is one LocalFiberRef object, the thing that counts in    *)
(* Task::refCount. Copies of a FiberRef share it: they lie on stacks, in     *)
(* closures kept by a task and in payloads of events, and the last of them   *)
(* drops the task. How a task gets from a queue to a worker, waits and wakes *)
(* up is Scheduling's; here a task is run when it is scheduled.              *)
EXTENDS Integers, Sequences, FiniteSets

CONSTANTS
  Tasks, Main,   \* tasks that may be built, and the fiberized main thread
  Actors,        \* tasks that listen when their function is over
  Futures,       \* tasks that leave a result
  OSThreads,     \* tasks configured with osthread()
  EarlyUse,      \* references are used before the thread of a task is up
  Refs,          \* the references there is memory for
  MaxMail,       \* bound: events in a mailbox
  NoTask, Void   \* no task; the payload of an event without data

ASSUME TasksAssumption ==
  /\ Main \notin Tasks /\ NoTask \notin Tasks \union {Main}
  /\ Void \notin Refs
  /\ IsFiniteSet(Tasks) /\ IsFiniteSet(Refs) /\ MaxMail \in Nat
  /\ Actors \union Futures \union OSThreads \subseteq Tasks

VARIABLES
  status,        \* Task::status, with the stages of its end told apart
  scheduled,     \* Task::scheduled: it lies in a queue of a worker
  thread,        \* the OS thread of a task: "none", "spawned", or "up" and
                 \* the task pinned to it
  runners,       \* how many threads of control are in the task's code
  refCount,      \* Task::refCount
  mail,          \* payloads in the mailbox
  cleared,       \* how many of them Mailbox::clear has freed
  clearEnd,      \* the end of the mailbox that clear iterates up to
  target,        \* the task of a reference, NoTask when there is none
  hold,          \* references on the stack of a task
  kept,          \* references in closures: its function and its handlers
  building,      \* the task somebody has created and not yet launched
  completed,     \* futures that have called Promise::complete
  result,        \* futures whose promise has got a result by that
  awaiting,      \* the future somebody waits for
  shuttingDown,  \* FiberSystem::shuttingDown_
  aborted        \* an assert failed, a payload was freed twice or iterators
                 \* were used that are none: the program is gone

vars == <<status, scheduled, thread, runners, refCount, mail, cleared, clearEnd,
          target, hold, kept, building, completed, result, awaiting,
          shuttingDown, aborted>>

Owners == Tasks \union {Main}
Statuses == {"none", "starting", "running", "listening", "closing",
             "clearing", "unbinding", "dead", "deleting", "deleted"}

Ended == {"closing", "clearing", "unbinding", "dead"}
Gone  == {"deleting", "deleted"}

Init ==
  /\ status = [t \in Tasks |-> "none"]
  /\ scheduled = [t \in Tasks |-> FALSE]
  /\ thread = [t \in Tasks |-> "none"]
  /\ runners = [t \in Tasks |-> 0]
  /\ refCount = [t \in Tasks |-> 0]
  /\ mail = [t \in Tasks |-> <<>>]
  /\ cleared = [t \in Tasks |-> 0] /\ clearEnd = [t \in Tasks |-> 0]
  /\ target = [r \in Refs |-> NoTask]
  /\ hold = [o \in Owners |-> {}]
  /\ kept = [t \in Tasks |-> {}]
  /\ building = [o \in Owners |-> NoTask]
  /\ completed = {} /\ result = {}
  /\ awaiting = [o \in Owners |-> NoTask]
  /\ shuttingDown = FALSE /\ aborted = FALSE

(* Somebody whose code goes on.                                              *)
Executes(o) ==
  /\ ~aborted /\ building[o] = NoTask /\ awaiting[o] = NoTask
  /\ o # Main => runners[o] > 0 /\ status[o] \notin Ended \union Gone

-------------------------------------------------------------------------------
(* References.                                                               *)

(* The places where a copy of r lies.                                        *)
Copies(r) ==
  Cardinality({o \in Owners : r \in hold[o]})
    + Cardinality({t \in Tasks : r \in kept[t]})
    + Cardinality({e \in Tasks \X (1..MaxMail) :
                     /\ e[2] \in (cleared[e[1]] + 1)..Len(mail[e[1]])
                     /\ mail[e[1]][e[2]] = r})

Holds(o, t) == \E r \in hold[o] : target[r] = t
Free(r) == target[r] = NoTask

(* Task::grab by a new LocalFiberRef.                                        *)
NewRef(r, t) ==
  /\ Free(r)
  /\ target' = [target EXCEPT ![r] = t]
  /\ refCount' = [refCount EXCEPT ![t] = @ + 1]

(* Task::drop: the last reference to a dead task deletes it.                 *)
Drop(t) ==
  /\ refCount' = [refCount EXCEPT ![t] = @ - 1]
  /\ status' = IF refCount[t] = 1 /\ status[t] \in Ended
               THEN [status EXCEPT ![t] = "deleting"] ELSE status

(* A copy goes. With the last one the LocalFiberRef goes, and drops.         *)
Forget(p) ==
  IF p # Void /\ Copies(p) = 1
  THEN /\ target' = [target EXCEPT ![p] = NoTask]
       /\ Drop(target[p])
  ELSE UNCHANGED <<target, refCount, status>>

(* context::self.                                                            *)
Self(t, r) ==
  /\ Executes(t)
  /\ NewRef(r, t)
  /\ hold' = [hold EXCEPT ![t] = @ \union {r}]
  /\ UNCHANGED <<status, scheduled, thread, runners, mail, cleared, clearEnd,
                 kept, building, completed, result, awaiting, shuttingDown,
                 aborted>>

(* A handler is bound that captures a reference.                             *)
Capture(t, r) ==
  /\ Executes(t)
  /\ r \in hold[t] \ kept[t]
  /\ kept' = [kept EXCEPT ![t] = @ \union {r}]
  /\ UNCHANGED <<status, scheduled, thread, runners, refCount, mail, cleared,
                 clearEnd, target, hold, building, completed, result, awaiting,
                 shuttingDown, aborted>>

Release(o, r) ==
  /\ Executes(o)
  /\ r \in hold[o]
  /\ hold' = [hold EXCEPT ![o] = @ \ {r}]
  /\ Forget(r)
  /\ UNCHANGED <<scheduled, thread, runners, mail, cleared, clearEnd, kept,
                 building, completed, result, awaiting, shuttingDown, aborted>>

-------------------------------------------------------------------------------
(* Builder::run and run_.                                                    *)

(* Mutant: the reference is made and the task not grabbed.                   *)
WithUncountedRef(o, t) ==
  \E r \in Refs : /\ Free(r)
                  /\ target' = [target EXCEPT ![r] = t]
                  /\ hold' = [hold EXCEPT ![o] = @ \union {r}]
                  /\ UNCHANGED refCount

WithRef(o, t) ==
  \E r \in Refs : /\ NewRef(r, t)
                  /\ hold' = [hold EXCEPT ![o] = @ \union {r}]

(* The task is made, with copies of some references in its closure, and for  *)
(* run() a reference to it BEFORE it starts. After shutdown() nothing is     *)
(* made, and the reference given is to /dev/null.                            *)
Create(o, t, captured) ==
  /\ Executes(o) /\ ~shuttingDown
  /\ status[t] = "none"
  /\ captured \subseteq hold[o]
  /\ status' = [status EXCEPT ![t] = "starting"]
  /\ kept' = [kept EXCEPT ![t] = captured]
  /\ building' = [building EXCEPT ![o] = t]
  /\ WithRef(o, t) \/ UNCHANGED <<target, refCount, hold>>
  /\ UNCHANGED <<scheduled, thread, runners, mail, cleared, clearEnd,
                 completed, result, awaiting, shuttingDown, aborted>>

(* Nobody sets the status of a task that its OS thread runs, and an assert   *)
(* of SingleTaskScheduler finds it starting. A build without asserts goes    *)
(* on, and sets it.                                                          *)
FoundStarting(t) ==
  \/ aborted' = TRUE /\ UNCHANGED status
  \/ status' = [status EXCEPT ![t] = "running"] /\ UNCHANGED aborted

(* SingleTaskScheduler::resume.                                              *)
ResumeThread(t) ==
  /\ IF status[t] = "starting" /\ ~scheduled[t] THEN FoundStarting(t)
     ELSE UNCHANGED <<status, aborted>>
  /\ UNCHANGED scheduled

(* A task that waits for a worker is put into the queue of one.              *)
Enqueue(t, waits) ==
  /\ scheduled' = IF waits THEN [scheduled EXCEPT ![t] = TRUE] ELSE scheduled
  /\ UNCHANGED <<status, aborted>>

(* Mutant: a task that runs is put into a queue as well.                     *)
ResumeRunning(t) ==
  IF thread[t] = "up" THEN ResumeThread(t)
  ELSE Enqueue(t, status[t] \in {"starting", "listening", "running"})

(* context::detail::resume: a task that is pinned to its thread is left to   *)
(* that one, the others go to a worker.                                      *)
Resume(t) ==
  IF thread[t] = "up" THEN ResumeThread(t)
  ELSE Enqueue(t, status[t] \in {"starting", "listening"})

(* runner_: a microthread is resumed, an OS thread is spawned. run() returns.*)
Launch(o) ==
  LET t == building[o]
  IN  /\ t # NoTask /\ ~aborted
      /\ building' = [building EXCEPT ![o] = NoTask]
      /\ IF t \in OSThreads
         THEN /\ thread' = [thread EXCEPT ![t] = "spawned"]
              /\ UNCHANGED <<status, scheduled, aborted>>
         ELSE Resume(t) /\ UNCHANGED thread
      /\ UNCHANGED <<runners, refCount, mail, cleared, clearEnd, target, hold,
                     kept, completed, result, awaiting, shuttingDown>>

Shutdown(o) ==
  /\ Executes(o) /\ ~shuttingDown
  /\ shuttingDown' = TRUE
  /\ UNCHANGED <<status, scheduled, thread, runners, refCount, mail, cleared,
                 clearEnd, target, hold, kept, building, completed, result,
                 awaiting, aborted>>

-------------------------------------------------------------------------------
(* Running.                                                                  *)

(* A worker takes the task from its queue.                                   *)
Start(t) ==
  /\ ~aborted /\ scheduled[t]
  /\ scheduled' = [scheduled EXCEPT ![t] = FALSE]
  /\ status' = [status EXCEPT ![t] = "running"]
  /\ runners' = [runners EXCEPT ![t] = @ + 1]
  /\ UNCHANGED <<thread, refCount, mail, cleared, clearEnd, target, hold, kept,
                 building, completed, result, awaiting, shuttingDown, aborted>>

(* runTaskAsOSThread: only in the new thread is the task pinned to it.       *)
StartThread(t) ==
  /\ ~aborted /\ thread[t] = "spawned"
  /\ thread' = [thread EXCEPT ![t] = "up"]
  /\ runners' = [runners EXCEPT ![t] = @ + 1]
  /\ UNCHANGED <<status, scheduled, refCount, mail, cleared, clearEnd, target,
                 hold, kept, building, completed, result, awaiting,
                 shuttingDown, aborted>>

(* SingleTaskScheduler::suspend, by a task that its OS thread runs and that  *)
(* waits for the first time, or the resume of what it waits for.             *)
SuspendThread(t) ==
  /\ ~aborted /\ thread[t] = "up" /\ status[t] = "starting"
  /\ FoundStarting(t)
  /\ UNCHANGED <<scheduled, thread, runners, refCount, mail, cleared, clearEnd,
                 target, hold, kept, building, completed, result, awaiting,
                 shuttingDown>>

(* FiberRef::send: into the mailbox, also of a task that is dead, and also   *)
(* while the mailbox is being cleared, whose iterators this invalidates: it  *)
(* goes well or wrong. A payload may hold a reference.                       *)
Send(o, t, payload) ==
  /\ Executes(o) /\ Holds(o, t)
  /\ EarlyUse \/ t \notin OSThreads \/ thread[t] = "up"
  /\ payload \in hold[o] \union {Void}
  /\ Len(mail[t]) < MaxMail
  /\ mail' = [mail EXCEPT ![t] = Append(@, payload)]
  /\ \/ Resume(t)
     \/ /\ status[t] = "clearing" /\ aborted' = TRUE
        /\ UNCHANGED <<status, scheduled>>
  /\ UNCHANGED <<thread, runners, refCount, cleared, clearEnd, target, hold,
                 kept, building, completed, result, awaiting, shuttingDown>>

(* An event is dispatched and its payload freed; the handler may have copied *)
(* the reference in it.                                                      *)
Receive(t) ==
  LET payload == Head(mail[t])
      copied == IF payload = Void THEN {} ELSE {payload}
  IN  /\ Executes(t) /\ mail[t] # <<>>
      /\ mail' = [mail EXCEPT ![t] = Tail(@)]
      /\ \/ /\ hold' = [hold EXCEPT ![t] = @ \union copied]
            /\ IF copied \subseteq hold[t] THEN Forget(payload)
               ELSE UNCHANGED <<target, refCount, status>>
         \/ Forget(payload) /\ UNCHANGED hold
      /\ UNCHANGED <<scheduled, thread, runners, cleared, clearEnd, kept,
                     building, completed, result, awaiting, shuttingDown,
                     aborted>>

(* FutureRef::await on the promise in the task.                              *)
Await(o, t) ==
  /\ Executes(o) /\ Holds(o, t) /\ t \in Futures /\ t # o
  /\ awaiting' = [awaiting EXCEPT ![o] = t]
  /\ UNCHANGED <<status, scheduled, thread, runners, refCount, mail, cleared,
                 clearEnd, target, hold, kept, building, completed, result,
                 shuttingDown, aborted>>

Awaited(o) ==
  /\ ~aborted /\ awaiting[o] \in result
  /\ awaiting' = [awaiting EXCEPT ![o] = NoTask]
  /\ UNCHANGED <<status, scheduled, thread, runners, refCount, mail, cleared,
                 clearEnd, target, hold, kept, building, completed, result,
                 shuttingDown, aborted>>

-------------------------------------------------------------------------------
(* The end.                                                                  *)

(* A future completes its promise when its function returned or threw: the   *)
(* stack of the function is unwound by then. Promise::complete returns false *)
(* when the result cannot be stored, and the future goes on to its end.      *)
Complete(t) ==
  /\ Executes(t) /\ t \in Futures \ completed
  /\ hold[t] = {}
  /\ completed' = completed \union {t}
  /\ result' \in {result, result \union {t}}
  /\ UNCHANGED <<status, scheduled, thread, runners, refCount, mail, cleared,
                 clearEnd, target, hold, kept, building, awaiting,
                 shuttingDown, aborted>>

(* The function of an actor is over and its mailbox empty.                   *)
Listen(t) ==
  /\ Executes(t) /\ t \in Actors \ OSThreads
  /\ hold[t] = {} /\ mail[t] = <<>>
  /\ status' = [status EXCEPT ![t] = "listening"]
  /\ runners' = [runners EXCEPT ![t] = @ - 1]
  /\ UNCHANGED <<scheduled, thread, refCount, mail, cleared, clearEnd, target,
                 hold, kept, building, completed, result, awaiting,
                 shuttingDown, aborted>>

(* Mutant: the dying task does not hold on to itself.                        *)
HoldNothing(t) == UNCHANGED refCount

HoldItself(t) == refCount' = [refCount EXCEPT ![t] = @ + 1]

(* Scheduler::kill of a task that stopped, or that an exception left. When   *)
(* references are left the task is Dead and takes one itself while what it   *)
(* kept and its mailbox are destroyed outside the lock: the last references  *)
(* may be in there.                                                          *)
Terminate(t) ==
  /\ Executes(t)
  /\ hold[t] = {} /\ (t \in Futures => t \in completed)
  /\ runners' = [runners EXCEPT ![t] = @ - 1]
  /\ IF refCount[t] = 0
     THEN /\ status' = [status EXCEPT ![t] = "deleting"]
          /\ UNCHANGED <<refCount, scheduled>>
     ELSE /\ status' = [status EXCEPT ![t] = "closing"]
          /\ HoldItself(t)
          /\ scheduled' = [scheduled EXCEPT ![t] = FALSE]
  /\ UNCHANGED <<thread, mail, cleared, clearEnd, target, hold, kept, building,
                 completed, result, awaiting, shuttingDown, aborted>>

(* What a task keeps is destroyed, by kill or by its destructor.             *)
ForgetKept(t) ==
  /\ ~aborted /\ status[t] \in {"closing", "unbinding", "deleting"}
  /\ \E r \in kept[t] :
       /\ kept' = [kept EXCEPT ![t] = @ \ {r}]
       /\ Forget(r)
  /\ UNCHANGED <<scheduled, thread, runners, mail, cleared, clearEnd, hold,
                 building, completed, result, awaiting, shuttingDown, aborted>>

(* Mailbox::clear takes the bounds of the deque, under no lock, frees the     *)
(* payloads up to there and leaves the events where they are.                *)
ClearBegins(t) ==
  /\ ~aborted /\ status[t] = "closing"
  /\ status' = [status EXCEPT ![t] = "clearing"]
  /\ clearEnd' = [clearEnd EXCEPT ![t] = Len(mail[t])]
  /\ UNCHANGED <<scheduled, thread, runners, refCount, mail, cleared, target,
                 hold, kept, building, completed, result, awaiting,
                 shuttingDown, aborted>>

ClearMail(t) ==
  /\ ~aborted /\ status[t] = "clearing" /\ cleared[t] < clearEnd[t]
  /\ cleared' = [cleared EXCEPT ![t] = @ + 1]
  /\ Forget(mail[t][cleared[t] + 1])
  /\ UNCHANGED <<scheduled, thread, runners, mail, clearEnd, hold, kept,
                 building, completed, result, awaiting, shuttingDown, aborted>>

(* An event that came since the clearing began stays in the mailbox.         *)
ClearEnds(t) ==
  /\ ~aborted /\ status[t] = "clearing" /\ cleared[t] = clearEnd[t]
  /\ status' = [status EXCEPT ![t] = "unbinding"]
  /\ UNCHANGED <<scheduled, thread, runners, refCount, mail, cleared, clearEnd,
                 target, hold, kept, building, completed, result, awaiting,
                 shuttingDown, aborted>>

(* Mutant: kill does not look whether its reference was the last.            *)
NeverLastOne(t) == FALSE

LastOne(t) == refCount[t] = 1

(* kill takes the lock again and gives its own reference back.               *)
Close(t) ==
  /\ ~aborted /\ status[t] = "unbinding" /\ kept[t] = {}
  /\ refCount' = [refCount EXCEPT ![t] = @ - 1]
  /\ status' = [status EXCEPT ![t] = IF LastOne(t) THEN "deleting"
                                     ELSE "dead"]
  /\ UNCHANGED <<scheduled, thread, runners, mail, cleared, clearEnd, target,
                 hold, kept, building, completed, result, awaiting,
                 shuttingDown, aborted>>

(* The destructor of the mailbox clears it once more.                        *)
DestroyMail(t) ==
  /\ ~aborted /\ status[t] = "deleting" /\ mail[t] # <<>>
  /\ \/ /\ cleared[t] > 0 /\ Head(mail[t]) # Void
        /\ aborted' = TRUE
        /\ UNCHANGED <<mail, cleared, target, refCount, status>>
     \/ /\ cleared[t] > 0 /\ Head(mail[t]) = Void
        /\ mail' = [mail EXCEPT ![t] = Tail(@)]
        /\ cleared' = [cleared EXCEPT ![t] = @ - 1]
        /\ UNCHANGED <<target, refCount, status, aborted>>
     \/ /\ cleared[t] = 0
        /\ mail' = [mail EXCEPT ![t] = Tail(@)]
        /\ Forget(Head(mail[t]))
        /\ UNCHANGED <<cleared, aborted>>
  /\ UNCHANGED <<scheduled, thread, runners, clearEnd, hold, kept, building,
                 completed, result, awaiting, shuttingDown>>

Delete(t) ==
  /\ ~aborted /\ status[t] = "deleting" /\ kept[t] = {} /\ mail[t] = <<>>
  /\ status' = [status EXCEPT ![t] = "deleted"]
  /\ UNCHANGED <<scheduled, thread, runners, refCount, mail, cleared, clearEnd,
                 target, hold, kept, building, completed, result, awaiting,
                 shuttingDown, aborted>>

(* The OS thread of the task is over. Its scheduler unpins the task, and     *)
(* writes into its memory even when kill has just deleted it; nothing reads  *)
(* that pin again.                                                           *)
ThreadEnds(t) ==
  /\ ~aborted /\ thread[t] = "up" /\ status[t] \in {"dead", "deleted"}
  /\ thread' = [thread EXCEPT ![t] = "none"]
  /\ UNCHANGED <<status, scheduled, runners, refCount, mail, cleared, clearEnd,
                 target, hold, kept, building, completed, result, awaiting,
                 shuttingDown, aborted>>

-------------------------------------------------------------------------------
Next ==
  \/ \E o \in Owners :
       \/ Launch(o) \/ Shutdown(o) \/ Awaited(o)
       \/ \E r \in Refs : Release(o, r)
       \/ \E t \in Tasks :
            \/ Await(o, t)
            \/ \E c \in SUBSET hold[o] : Create(o, t, c)
            \/ \E p \in hold[o] \union {Void} : Send(o, t, p)
  \/ \E t \in Tasks :
       \/ Start(t) \/ StartThread(t) \/ SuspendThread(t) \/ Receive(t)
       \/ Complete(t) \/ Listen(t) \/ Terminate(t) \/ ForgetKept(t)
       \/ ClearBegins(t) \/ ClearMail(t) \/ ClearEnds(t)
       \/ Close(t) \/ ThreadEnds(t) \/ DestroyMail(t) \/ Delete(t)
       \/ \E r \in Refs : Self(t, r) \/ Capture(t, r)

Spec == Init /\ [][Next]_vars

-------------------------------------------------------------------------------
(* Properties                                                                *)

(* The counters stay in range, and a payload is freed by clear only in a     *)
(* mailbox that has it.                                                      *)
TypeOK ==
  /\ status \in [Tasks -> Statuses]
  /\ scheduled \in [Tasks -> BOOLEAN]
  /\ thread \in [Tasks -> {"none", "spawned", "up"}]
  /\ runners \in [Tasks -> 0..1]
  /\ refCount \in [Tasks -> Nat]
  /\ mail \in [Tasks -> Seq(Refs \union {Void})]
  /\ cleared \in [Tasks -> Nat] /\ \A t \in Tasks : cleared[t] <= Len(mail[t])
  /\ clearEnd \in [Tasks -> Nat]
  /\ target \in [Refs -> Tasks \union {NoTask}]
  /\ hold \in [Owners -> SUBSET Refs] /\ kept \in [Tasks -> SUBSET Refs]
  /\ building \in [Owners -> Tasks \union {NoTask}]
  /\ completed \subseteq Futures /\ result \subseteq completed
  /\ awaiting \in [Owners -> Futures \union {NoTask}]
  /\ shuttingDown \in BOOLEAN /\ aborted \in BOOLEAN

(* A task is never deleted under those who can still reach it: a copy of a   *)
(* reference, wherever it lies, code that runs it, a queue that has it, or   *)
(* the kill that is still tearing it down (task.hpp:191-198,                 *)
(* scheduler.cpp:45-63, builder-inl.hpp:40-45).                              *)
ReachableStays ==
  \A t \in Tasks : status[t] \in Gone =>
    /\ runners[t] = 0 /\ ~scheduled[t]
    /\ \A r \in Refs : Copies(r) > 0 => target[r] # t
    /\ \A o \in Owners : awaiting[o] # t

(* A dead task that no reference counts is deleted at once by whoever was    *)
(* last, kill or drop: none is left behind with nobody to delete it          *)
(* (task.hpp:191-198, scheduler.cpp:57-62).                                  *)
NoneLeftBehind ==
  \A t \in Tasks : status[t] = "dead" => \E r \in Refs : target[r] = t

(* A task configured as an OS thread is executed by that thread, once        *)
(* (builder.hpp:188-196).                                                    *)
RunsOnItsThread ==
  \A t \in OSThreads : runners[t] > 0 => thread[t] = "up" /\ runners[t] = 1

===============================================================================
