------------------------- MODULE SchedulingInvariant -------------------------
(***************************************************************************)
(* The inductive invariant of Scheduling: what every program point of a    *)
(* worker says about the tasks it holds, what every place says about the   *)
(* tasks in it, and what the wake-up protocol says about the mailboxes.    *)
(***************************************************************************)
EXTENDS Scheduling

(* A worker that has a task on its hands, and one whose task is running.   *)
HoldsTask == {"picked", "landed", "enter", "run", "suspend", "ending"}
Executing == {"run", "suspend", "ending"}

(* A worker stands on an unowned stack exactly when no task of its own is  *)
(* left to be suspended, except on the way from one stack to another.      *)
WorkerControl(w) ==
  /\ pc[w] \in WorkerPoint
  /\ pc[w] \in HoldsTask => currentTask[w] # NoTask
  /\ pc[w] = "scan" => currentTask[w] = NoTask
  /\ pc[w] \in Executing \union {"enter"} => suspendingTask[w] = NoTask /\ ~unowned[w]
  /\ pc[w] = "loop" => unowned[w]
  /\ pc[w] \in {"scan", "picked", "landed"} =>
       (unowned[w] <=> suspendingTask[w] = NoTask)
  /\ currentTask[w] \notin Threads /\ suspendingTask[w] \notin Threads

(* A thread's task never leaves its scheduler. Only the threads of         *)
(* runTaskAsOSThread begin, poll and end.                                  *)
Up(th) == pc[th] \notin {"new", "ended"}
ThreadControl(th) ==
  /\ pc[th] \in ThreadPoint
  /\ pin[th] = IF Up(th) THEN th ELSE NoPin
  /\ pc[th] \in {"new", "poll", "ended"} => th \in OSThreads

(* No task but its own gets pinned to a thread.                            *)
ControlOK ==
  /\ \A w \in Workers : WorkerControl(w)
  /\ \A th \in Threads : ThreadControl(th)
  /\ \A t \in Tasks \ Threads : pin[t] \notin Threads

(* A task to be run, and one that runs or is about to be suspended.        *)
Waiting(t) ==
  scheduled[t] /\ status[t] \in {"Starting", "Listening", "Suspended"} /\ t \notin Threads
Executed(t) == ~scheduled[t] /\ status[t] = "Running"

QueuesWait ==
  \A w \in Workers, c \in Priority : \A i \in 1 .. Len(queue[w][c]) : Waiting(queue[w][c][i])
PushesWait == \A r \in pushes : Waiting(r.task)

WorkerPlaces(w) ==
  /\ suspendingTask[w] # NoTask => Executed(suspendingTask[w])
  /\ pc[w] \in Executing => Executed(currentTask[w])
  /\ Picked(w) => Waiting(currentTask[w])
  /\ pc[w] \in {"landed", "enter"} => status[currentTask[w]] = "Suspended"
  /\ currentTask[w] # NoTask => Waiting(currentTask[w]) \/ Executed(currentTask[w])

ThreadPlaces(th) ==
  /\ status[th] \in {"Starting", "Running", "Suspended", "Dead"} /\ ~scheduled[th]
  /\ status[th] = "Starting" => th \in OSThreads /\ pc[th] # "blocked"
  /\ status[th] = "Suspended" => pc[th] = "blocked" /\ ~resumed[th]
  /\ status[th] = "Dead" <=> pc[th] = "ended"

PlacesOK ==
  /\ QueuesWait /\ PushesWait
  /\ \A w \in Workers : WorkerPlaces(w)
  /\ \A th \in Threads : ThreadPlaces(th)

(* A task that gave up waiting for events without a wake-up has none left. *)
Settled(t) == woken[t] \/ mail[t] = 0 \/ stopped[t]

HeldSettled(w) ==
  /\ suspendingTask[w] # NoTask => Settled(suspendingTask[w])
  /\ pc[w] \in {"suspend", "ending"} => Settled(currentTask[w])

WakeupsOK ==
  /\ \A w \in Workers : HeldSettled(w)
  /\ \A th \in Threads : pc[th] = "suspend" => Settled(th)
  /\ NoLostWakeup

(* The context of a task is saved before the jump to another stack.        *)
SavedOK ==
  /\ \A w \in Workers :
       suspendingTask[w] # NoTask /\ pc[w] \in {"loop", "landed", "stopped"} =>
         stack[suspendingTask[w]] = "saved"
  /\ SavedBeforeVisible

(* The state of every task agrees with the places that know of it, so that *)
(* a step of one worker cannot disturb what another is doing.              *)
IInv == /\ TypeOK /\ ControlOK
        /\ PlacesOK /\ NoDoubleScheduling /\ NoTaskForgotten
        /\ WakeupsOK /\ PinnedStaysHome /\ SavedOK
=============================================================================
