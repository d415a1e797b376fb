----------------------------- MODULE Scheduling -----------------------------
(***************************************************************************)
(* The multitasking schedulers of fiberize: OS threads ("workers") that    *)
(* run fibers and actors on pooled stacks, steal from each other, and      *)
(* suspend and resume tasks; together with fiberized threads and with      *)
(* tasks started on OS threads of their own, each of which has a scheduler *)
(* of its own.                                                             *)
(*                                                                         *)
(* An action is what the code does between two points at which another     *)
(* thread can interfere: one critical section of a task spinlock or of a   *)
(* queue mutex, with the thread-private code around it.                    *)
(***************************************************************************)
EXTENDS Integers, Sequences, FiniteSets

CONSTANTS
  Workers,          \* multitask schedulers
  Threads,          \* single task schedulers, each with its task
  OSThreads,        \* those of tasks run by runTaskAsOSThread; the others are
                    \* fiberized threads
  Fibers,           \* tasks that die when their function returns
  Actors,           \* tasks that listen for events when their function returns
  NoTask, NoPin,    \* the null pointers
  SameStreakLimit,  \* sameStreakLimit, 64 in the code
  StashSize,        \* stashSize, 256 in the code
  DequeueRounds,    \* passes over the own queues in dequeue, 2 in the code
  StealTries,       \* stealTries, 2 in the code
  MaxMail,          \* bound on a mailbox
  MaxCredit,        \* bound on sends, resumes and yields in a behaviour
  FreeYielders,     \* tasks that may yield without limit
  Stoppers,         \* tasks that may call context::stop
  Stoppable         \* workers that may be asked to stop

Tasks == Threads \union Fibers \union Actors
Procs == Workers \union Threads

ASSUME DisjointAssumption ==
  /\ Workers \intersect Tasks = {}
  /\ Threads \intersect (Fibers \union Actors) = {}
  /\ Fibers \intersect Actors = {}
  /\ OSThreads \subseteq Threads
  /\ IsFiniteSet(Workers)
  /\ NoTask \notin Tasks
  /\ NoPin \notin Procs

ASSUME BoundsAssumption ==
  /\ SameStreakLimit \in Nat \ {0}
  /\ StashSize \in Nat \ {0}
  /\ DequeueRounds \in Nat \ {0}
  /\ StealTries \in Nat
  /\ MaxMail \in Nat
  /\ MaxCredit \in Nat
  /\ FreeYielders \subseteq Tasks
  /\ Stoppers \subseteq Tasks
  /\ Stoppable \subseteq Workers

Priority == {"soft", "hard"}
Other(c) == IF c = "soft" THEN "hard" ELSE "soft"
Status == {"Starting", "Running", "Suspended", "Listening", "Dead"}

VARIABLES
  (* Task, written under its spinlock *)
  status,      \* TaskStatus
  scheduled,   \* in a queue, on its way to one, or picked from one
  woken,       \* resumes # resumesExpected
  stopped,     \* the task asked to be terminated
  mail,        \* number of events in the mailbox
  (* Task, written by the task or by the scheduler that holds it *)
  pin,         \* the scheduler a ScopedPin ties it to
  stack,       \* "none", or the pooled stack it has, with the context in use
               \* or saved
  frame,       \* what runs at the bottom of the stack: "main" or "listen";
               \* for an OS thread "listen" is the polling loop
  (* the shared queues, and the pushes decided on but not yet made *)
  queue, pushes,
  (* MultiTaskScheduler *)
  currentTask, suspendingTask, unowned, stash, sameStreak, stopping,
  scan,        \* where the search through the queues has come to
  (* SingleTaskScheduler *)
  resumed,
  (* the program counter of every OS thread, and the bound on activity *)
  pc, credit,
  live         \* history: stacks allocated and not yet freed

lockedVars == <<status, scheduled, woken, stopped, mail>>
ownVars    == <<pin, stack, frame>>
queueVars  == <<queue, pushes>>
stackVars  == <<unowned, stash, live>>
loopVars   == <<currentTask, suspendingTask, sameStreak, scan>>
vars == <<lockedVars, ownVars, queueVars, stackVars, loopVars, stopping,
          resumed, pc, credit>>

WorkerPoint == {"loop", "scan", "picked", "landed", "enter", "run",
                "suspend", "ending", "stopped"}
ThreadPoint == {"new", "run", "suspend", "blocked", "poll", "ended"}
Scan  == [prefer : Priority, step : Nat, victim : Workers]
Push  == [by : Procs, task : Tasks, at : Workers, class : Priority]

(* A proc between releasing a task's spinlock and its push_front.          *)
Pushing(p) == \E r \in pushes : r.by = p
At(p, point) == pc[p] = point /\ ~Pushing(p)
Goto(p, point) == pc' = [pc EXCEPT ![p] = point]

Running(p) == IF p \in Threads THEN p ELSE currentTask[p]
ClassOf(t) == IF status[t] = "Suspended" THEN "hard" ELSE "soft"

(* References to a task are used once it was scheduled or its thread is up. *)
Spawned(t) == IF t \in Threads THEN pc[t] # "new"
              ELSE status[t] # "Starting" \/ scheduled[t]

(* The tasks that begin Running, on the thread that called fiberize().     *)
Fiberized == Threads \ OSThreads

Init ==
  /\ status = [t \in Tasks |-> IF t \in Fiberized THEN "Running" ELSE "Starting"]
  /\ scheduled = [t \in Tasks |-> FALSE]
  /\ woken = [t \in Tasks |-> FALSE]
  /\ stopped = [t \in Tasks |-> FALSE]
  /\ mail = [t \in Tasks |-> 0]
  /\ pin = [t \in Tasks |-> IF t \in Fiberized THEN t ELSE NoPin]
  /\ stack = [t \in Tasks |-> "none"]
  /\ frame = [t \in Tasks |-> "main"]
  /\ queue = [w \in Workers |-> [c \in Priority |-> << >>]]
  /\ pushes = {}
  /\ currentTask = [w \in Workers |-> NoTask]
  /\ suspendingTask = [w \in Workers |-> NoTask]
  /\ unowned = [w \in Workers |-> TRUE]
  /\ stash = [w \in Workers |-> 0]
  /\ live = Cardinality(Workers)
  /\ sameStreak = [w \in Workers |-> 0]
  /\ scan = [w \in Workers |-> [prefer |-> "soft", step |-> 0, victim |-> w]]
  /\ stopping = [w \in Workers |-> FALSE]
  /\ resumed = [th \in Threads |-> FALSE]
  /\ pc = [p \in Procs |-> IF p \in Workers THEN "loop"
                          ELSE IF p \in OSThreads THEN "new" ELSE "run"]
  /\ credit = MaxCredit

-----------------------------------------------------------------------------
(* Resuming                                                                *)

(* MultiTaskScheduler::resume of w, called by p with t's spinlock held.    *)
Schedule(p, t, w) ==
  /\ scheduled' = [scheduled EXCEPT ![t] = TRUE]
  /\ pushes' = pushes \union
       {[by |-> p, task |-> t, at |-> w, class |-> ClassOf(t)]}

\* Mutants: a check of resume() is missing.
ResumableTwice(t) == status[t] \in {"Starting", "Listening", "Suspended"}
ResumableWhileRunning(t) == status[t] # "Dead" /\ ~scheduled[t]
ResumableUnlessListening(t) == status[t] \in {"Starting", "Suspended"} /\ ~scheduled[t]

(* Running and scheduled tasks are not resumed, only marked as woken.      *)
Resumable(t) ==
  status[t] \in {"Starting", "Listening", "Suspended"} /\ ~scheduled[t]

(* context::detail::resume(t), called by p: a task goes to the scheduler it *)
(* is pinned to, else to that of the caller, else to a random worker.      *)
ResumeTask(p, t) ==
  /\ woken' = [woken EXCEPT ![t] = TRUE]
  /\ \/ /\ ~Resumable(t)
        /\ UNCHANGED <<status, scheduled, pushes, resumed>>
     \/ /\ Resumable(t)
        /\ pin[t] \notin Threads
        /\ \E w \in IF pin[t] \in Workers THEN {pin[t]}
                    ELSE IF p \in Workers THEN {p} ELSE Workers :
             Schedule(p, t, w)
        /\ UNCHANGED <<status, resumed>>
     \/ \* SingleTaskScheduler::resume, which goes on in a build without asserts
        /\ Resumable(t)
        /\ pin[t] \in Threads
        /\ status' = [status EXCEPT ![pin[t]] = "Running"]
        /\ resumed' = [resumed EXCEPT ![pin[t]] = TRUE]
        /\ UNCHANGED <<scheduled, pushes>>

(* push_front under the queue mutex.                                       *)
PushFront(q, t) == <<t>> \o q

FinishPush(p) ==
  /\ \E r \in pushes :
       /\ r.by = p
       /\ queue' = [queue EXCEPT ![r.at][r.class] = PushFront(@, r.task)]
       /\ pushes' = pushes \ {r}
  /\ UNCHANGED <<lockedVars, ownVars, stackVars, loopVars, stopping, resumed,
                 pc, credit>>

(* Code that may resume others: a running task, or an IO callback out of a *)
(* poll, which a worker makes at the top of both of its loops, a thread    *)
(* while it is blocked, and an OS thread in its polling loop.              *)
MayResume(p) ==
  \E point \in {"run", "suspend", "loop", "blocked", "poll"} : At(p, point)

Spawn(p, t) ==
  /\ At(p, "run")
  /\ t \notin Threads /\ ~Spawned(t)
  /\ ResumeTask(p, t)
  /\ UNCHANGED <<stopped, mail, ownVars, queue, stackVars, loopVars, stopping,
                 pc, credit>>

Send(p, t) ==
  /\ MayResume(p)
  /\ Spawned(t)
  /\ mail[t] < MaxMail
  /\ credit > 0
  /\ credit' = credit - 1
  /\ mail' = [mail EXCEPT ![t] = @ + 1]
  /\ ResumeTask(p, t)
  /\ UNCHANGED <<stopped, ownVars, queue, stackVars, loopVars, stopping, pc>>

(* A wake-up without an event: Mutex::unlock, Condition::signal, or the    *)
(* completion of an awaited IO request.                                    *)
Resume(p, t) ==
  /\ MayResume(p)
  /\ Spawned(t)
  /\ credit > 0
  /\ credit' = credit - 1
  /\ ResumeTask(p, t)
  /\ UNCHANGED <<stopped, mail, ownVars, queue, stackVars, loopVars, stopping,
                 pc>>

-----------------------------------------------------------------------------
(* What a running task does                                                *)

(* One event dequeued under the spinlock and dispatched outside of it.     *)
Dispatch(p) ==
  LET t == Running(p) IN
  /\ At(p, "run")
  /\ mail[t] > 0
  /\ mail' = [mail EXCEPT ![t] = @ - 1]
  /\ UNCHANGED <<status, scheduled, woken, stopped, ownVars, queueVars,
                 stackVars, loopVars, stopping, resumed, pc, credit>>

\* Mutant: process returns without looking for the events that are left.
DrainedOrNot(t) == TRUE

(* process and processUntil stop at an empty mailbox, process also once    *)
(* the task was stopped.                                                   *)
Drained(t) == mail[t] = 0 \/ stopped[t]

(* The end of process or of a pass of processUntil, on the way to suspend. *)
Await(p) ==
  LET t == Running(p) IN
  /\ At(p, "run")
  /\ Drained(t)
  /\ woken' = [woken EXCEPT ![t] = FALSE]
  /\ Goto(p, "suspend")
  /\ UNCHANGED <<status, scheduled, stopped, mail, ownVars, queueVars,
                 stackVars, loopVars, stopping, resumed, credit>>

(* MultiTaskScheduler::yield: resumesExpected is set to a value resumes    *)
(* never has.                                                              *)
Yield(w) ==
  LET t == currentTask[w] IN
  /\ At(w, "run")
  /\ \/ t \in FreeYielders /\ UNCHANGED credit
     \/ t \notin FreeYielders /\ credit > 0 /\ credit' = credit - 1
  /\ woken' = [woken EXCEPT ![t] = TRUE]
  /\ Goto(w, "suspend")
  /\ UNCHANGED <<status, scheduled, stopped, mail, ownVars, queueVars,
                 stackVars, loopVars, stopping, resumed>>

(* ScopedPin: constructor and destructor.                                  *)
PinTask(w) ==
  LET t == currentTask[w] IN
  /\ At(w, "run")
  /\ pin[t] = NoPin
  /\ pin' = [pin EXCEPT ![t] = w]
  /\ UNCHANGED <<lockedVars, stack, frame, queueVars, stackVars, loopVars,
                 stopping, resumed, pc, credit>>

UnpinTask(w) ==
  LET t == currentTask[w] IN
  /\ At(w, "run")
  /\ pin[t] # NoPin
  /\ pin' = [pin EXCEPT ![t] = NoPin]
  /\ UNCHANGED <<lockedVars, stack, frame, queueVars, stackVars, loopVars,
                 stopping, resumed, pc, credit>>

(* context::stop.                                                          *)
StopTask(p) ==
  LET t == Running(p) IN
  /\ At(p, "run")
  /\ t \in Stoppers
  /\ ~stopped[t]
  /\ stopped' = [stopped EXCEPT ![t] = TRUE]
  /\ UNCHANGED <<status, scheduled, woken, mail, ownVars, queueVars, stackVars,
                 loopVars, stopping, resumed, pc, credit>>

(* A fiber's function returned or threw: FiberTraits stop the task.        *)
ReturnFiber(w) ==
  LET t == currentTask[w] IN
  /\ At(w, "run")
  /\ t \in Fibers
  /\ pin[t] = NoPin
  /\ stopped' = [stopped EXCEPT ![t] = TRUE]
  /\ Goto(w, "ending")
  /\ UNCHANGED <<status, scheduled, woken, mail, ownVars, queueVars, stackVars,
                 loopVars, stopping, resumed, credit>>

(* An actor's function returned or threw, and the events that were pending *)
(* have been processed.                                                    *)
ReturnActor(w) ==
  LET t == currentTask[w] IN
  /\ At(w, "run")
  /\ t \in Actors /\ frame[t] = "main"
  /\ pin[t] = NoPin
  /\ Drained(t)
  /\ woken' = [woken EXCEPT ![t] = FALSE]
  /\ Goto(w, "ending")
  /\ UNCHANGED <<status, scheduled, stopped, mail, ownVars, queueVars, stackVars,
                 loopVars, stopping, resumed, credit>>

(* The rest of unownedLoop's pass, under the spinlock of the task t: kill  *)
(* a stopped task, let another one listen and requeue it when it was woken *)
(* since it last looked into its mailbox.                                  *)
Retire(w, t) ==
  /\ \/ /\ stopped'[t]
        /\ status' = [status EXCEPT ![t] = "Dead"]
        /\ scheduled' = [scheduled EXCEPT ![t] = FALSE]
        /\ UNCHANGED pushes
     \/ /\ ~stopped'[t]
        /\ status' = [status EXCEPT ![t] = "Listening"]
        /\ scheduled' = [scheduled EXCEPT ![t] = woken'[t]]
        /\ pushes' = IF woken'[t]
             THEN pushes \union
                    {[by |-> w, task |-> t, at |-> w, class |-> "soft"]}
             ELSE pushes
  /\ currentTask' = [currentTask EXCEPT ![w] = NoTask]
  /\ unowned' = [unowned EXCEPT ![w] = TRUE]
  /\ stack' = [stack EXCEPT ![t] = "none"]
  /\ Goto(w, "loop")
  /\ UNCHANGED <<mail, pin, frame, queue, stash, live, suspendingTask,
                 sameStreak, scan, stopping, resumed, credit>>

(* runnable->run() is back.                                                *)
FinishMain(w) ==
  /\ At(w, "ending")
  /\ UNCHANGED <<stopped, woken>>
  /\ Retire(w, currentTask[w])

(* process(lock) is back with the spinlock still held, or threw.           *)
FinishListening(w) ==
  LET t == currentTask[w] IN
  /\ At(w, "run")
  /\ frame[t] = "listen"
  /\ pin[t] = NoPin
  /\ \/ /\ Drained(t)
        /\ woken' = [woken EXCEPT ![t] = FALSE]
        /\ UNCHANGED stopped
     \/ /\ stopped' = [stopped EXCEPT ![t] = TRUE]
        /\ UNCHANGED woken
  /\ Retire(w, t)

-----------------------------------------------------------------------------
(* SingleTaskScheduler::suspend, and the threads of runTaskAsOSThread.     *)

\* Mutant: an earlier resume is left in the flag.
SuspendThreadResumed(th) ==
  /\ At(th, "suspend")
  /\ \/ /\ woken[th]
        /\ Goto(th, "run")
        /\ UNCHANGED status
     \/ /\ ~woken[th]
        /\ status' = [status EXCEPT ![th] = "Suspended"]
        /\ Goto(th, "blocked")
  /\ UNCHANGED <<scheduled, woken, stopped, mail, ownVars, queueVars, stackVars,
                 loopVars, stopping, resumed, credit>>

SuspendThread(th) ==
  /\ At(th, "suspend")
  /\ \/ /\ woken[th]
        /\ Goto(th, "run")
        /\ UNCHANGED <<status, resumed>>
     \/ /\ ~woken[th]
        /\ status' = [status EXCEPT ![th] = "Suspended"]
        /\ resumed' = [resumed EXCEPT ![th] = FALSE]
        /\ Goto(th, "blocked")
  /\ UNCHANGED <<scheduled, woken, stopped, mail, ownVars, queueVars, stackVars,
                 loopVars, stopping, credit>>

WakeThread(th) ==
  /\ At(th, "blocked")
  /\ resumed[th]
  /\ Goto(th, "run")
  /\ UNCHANGED <<lockedVars, ownVars, queueVars, stackVars, loopVars, stopping,
                 resumed, credit>>

(* The new thread pins the task to its scheduler and runs it. The status   *)
(* stays Starting. TaskLife has the time until the thread is up.           *)
SpawnThread(p, th) ==
  /\ At(p, "run")
  /\ pc[th] = "new"
  /\ pin' = [pin EXCEPT ![th] = th]
  /\ Goto(th, "run")
  /\ UNCHANGED <<lockedVars, stack, frame, queueVars, stackVars, loopVars,
                 stopping, resumed, credit>>

(* runnable->run() is back: the task was stopped by its traits, or is an   *)
(* actor and has processed what was pending.                               *)
ReturnThread(th) ==
  /\ At(th, "run")
  /\ frame[th] = "main"
  /\ \/ /\ stopped' = [stopped EXCEPT ![th] = TRUE]
        /\ UNCHANGED woken
     \/ /\ Drained(th)
        /\ woken' = [woken EXCEPT ![th] = FALSE]
        /\ UNCHANGED stopped
  /\ Goto(th, "poll")
  /\ UNCHANGED <<status, scheduled, mail, ownVars, queueVars, stackVars,
                 loopVars, stopping, resumed, credit>>

(* The polling loop: process(lock) for a mailbox that has events.          *)
ProcessMail(th) ==
  /\ At(th, "poll")
  /\ ~stopped[th] /\ mail[th] > 0
  /\ frame' = [frame EXCEPT ![th] = "listen"]
  /\ Goto(th, "run")
  /\ UNCHANGED <<lockedVars, pin, stack, queueVars, stackVars, loopVars,
                 stopping, resumed, credit>>

MailProcessed(th) ==
  /\ At(th, "run")
  /\ frame[th] = "listen"
  /\ Drained(th)
  /\ woken' = [woken EXCEPT ![th] = FALSE]
  /\ Goto(th, "poll")
  /\ UNCHANGED <<status, scheduled, stopped, mail, ownVars, queueVars,
                 stackVars, loopVars, stopping, resumed, credit>>

(* kill, and the destructor of the scheduler, which unpins the task.       *)
KillThread(th) ==
  /\ status' = [status EXCEPT ![th] = "Dead"]
  /\ scheduled' = [scheduled EXCEPT ![th] = FALSE]
  /\ pin' = [pin EXCEPT ![th] = NoPin]
  /\ Goto(th, "ended")
  /\ UNCHANGED <<woken, stopped, mail, stack, frame, queueVars, stackVars,
                 loopVars, stopping, resumed, credit>>

EndThread(th)   == At(th, "poll") /\ stopped[th] /\ KillThread(th)
(* A handler threw in process(lock): the loop is left and nothing stopped. *)
ThrowThread(th) == At(th, "run") /\ frame[th] = "listen" /\ KillThread(th)

-----------------------------------------------------------------------------
(* MultiTaskScheduler: stacks                                              *)

\* Mutants: a stack is handed out and kept; the limit is off by one.
StashPeek(w) ==
  /\ UNCHANGED stash
  /\ live' = IF stash[w] > 0 THEN live ELSE live + 1
StashPutOneMore(w) ==
  /\ stash' = [stash EXCEPT ![w] = IF @ <= StashSize THEN @ + 1 ELSE @]
  /\ live' = IF stash[w] <= StashSize THEN live ELSE live - 1

StashGet(w) ==
  /\ stash' = [stash EXCEPT ![w] = IF @ > 0 THEN @ - 1 ELSE 0]
  /\ live' = IF stash[w] > 0 THEN live ELSE live + 1

StashPut(w) ==
  /\ stash' = [stash EXCEPT ![w] = IF @ < StashSize THEN @ + 1 ELSE @]
  /\ live' = IF stash[w] < StashSize THEN live ELSE live - 1

\* Mutant: a task is suspended without a second look at its resumes.
SuspendWithoutRecheck(w) ==
  LET t == suspendingTask[w] IN
  /\ status' = [u \in Tasks |-> IF u = t THEN "Suspended" ELSE status[u]]
  /\ suspendingTask' = [suspendingTask EXCEPT ![w] = NoTask]
  /\ UNCHANGED <<scheduled, pushes>>

(* Once control is on another stack the context of the suspending task is  *)
(* saved, and only then may others find the task suspended.                *)
FinishSuspending(w) ==
  LET t == suspendingTask[w] IN
  \/ /\ t = NoTask
     /\ UNCHANGED <<status, scheduled, pushes, suspendingTask>>
  \/ /\ t # NoTask
     /\ status' = [status EXCEPT ![t] = "Suspended"]
     /\ scheduled' = [scheduled EXCEPT ![t] = woken[t]]
     /\ pushes' = IF woken[t]
          THEN pushes \union
                 {[by |-> w, task |-> t, at |-> w, class |-> "hard"]}
          ELSE pushes
     /\ suspendingTask' = [suspendingTask EXCEPT ![w] = NoTask]

\* Mutant: the preferred class is always searched first.
NeverFlip(w, preferred) ==
  /\ sameStreak' = [sameStreak EXCEPT ![w] =
       IF @ >= SameStreakLimit THEN 0 ELSE @]
  /\ scan' = [scan EXCEPT ![w] = [prefer |-> preferred, step |-> 0, victim |-> w]]

(* choosePriority, and the start of a search with the outcome.             *)
ChoosePriority(w, preferred) ==
  LET flip == sameStreak[w] >= SameStreakLimit IN
  /\ sameStreak' = [sameStreak EXCEPT ![w] = IF flip THEN 0 ELSE @]
  /\ scan' = [scan EXCEPT ![w] =
       [prefer |-> IF flip THEN Other(preferred) ELSE preferred,
        step |-> 0, victim |-> w]]

-----------------------------------------------------------------------------
(* MultiTaskScheduler: the loops.  A worker in ownedLoop stands on the     *)
(* stack of the task it suspends, one in unownedLoop on its unowned stack. *)

\* Mutant: the task is suspended while its stack is still in use.
SuspendTooEarly(w) ==
  /\ At(w, "suspend")
  /\ ~stopping[w]
  /\ suspendingTask' = [suspendingTask EXCEPT ![w] = currentTask[w]]
  /\ currentTask' = [currentTask EXCEPT ![w] = NoTask]
  /\ status' = [status EXCEPT ![currentTask[w]] = "Suspended"]
  /\ ChoosePriority(w, "hard")
  /\ Goto(w, "scan")
  /\ UNCHANGED <<scheduled, woken, stopped, mail, ownVars, queueVars, stackVars,
                 stopping, resumed, credit>>

(* ownedLoop, up to the search.                                            *)
OwnedLoop(w) ==
  /\ At(w, "suspend")
  /\ ~stopping[w]
  /\ suspendingTask' = [suspendingTask EXCEPT ![w] = currentTask[w]]
  /\ currentTask' = [currentTask EXCEPT ![w] = NoTask]
  /\ ChoosePriority(w, "hard")
  /\ Goto(w, "scan")
  /\ UNCHANGED <<lockedVars, ownVars, queueVars, stackVars, stopping, resumed,
                 credit>>

(* unownedLoop, up to the search, which is skipped when ownedLoop left a   *)
(* task to start.                                                          *)
UnownedLoop(w) ==
  /\ At(w, "loop")
  /\ ~stopping[w]
  /\ FinishSuspending(w)
  /\ ChoosePriority(w, "soft")
  /\ Goto(w, IF currentTask[w] = NoTask THEN "scan" ELSE "picked")
  /\ UNCHANGED <<woken, stopped, mail, ownVars, queue, stackVars, currentTask,
                 stopping, resumed, credit>>

OwnSteps  == 2 * DequeueRounds
LastStep  == OwnSteps + 2 * StealTries
ScanClass(w) == IF scan[w].step % 2 = 0 THEN scan[w].prefer
                ELSE Other(scan[w].prefer)

(* The next place to look at: the own queue, or that of a victim, drawn    *)
(* for every try and asked for both classes.                               *)
Victims(w) ==
  IF scan[w].step < OwnSteps THEN {w}
  ELSE IF scan[w].step % 2 = 0 THEN Workers ELSE {scan[w].victim}

Last(q) == q[Len(q)]

\* Mutants: popping one task too many; stealing pinned tasks.
DropTwo(q) == SubSeq(q, 1, Len(q) - 2)
CanDequeuePinned(w, v, c) == queue[v][c] # << >>

DropLast(q) == SubSeq(q, 1, Len(q) - 1)

CanDequeue(w, v, c) ==
  /\ queue[v][c] # << >>
  /\ scan[w].step < OwnSteps \/ pin[Last(queue[v][c])] = NoPin

(* The owner takes from the front.                                         *)
Dequeue(w) ==
  LET c == ScanClass(w) IN
  /\ At(w, "scan")
  /\ scan[w].step < OwnSteps
  /\ CanDequeue(w, w, c)
  /\ currentTask' = [currentTask EXCEPT ![w] = Head(queue[w][c])]
  /\ queue' = [queue EXCEPT ![w][c] = Tail(@)]
  /\ Goto(w, "picked")
  /\ UNCHANGED <<lockedVars, ownVars, pushes, stackVars, suspendingTask,
                 sameStreak, scan, stopping, resumed, credit>>

(* A thief takes from the back, and only a task that is not pinned.        *)
Steal(w) ==
  LET c == ScanClass(w) IN
  /\ At(w, "scan")
  /\ scan[w].step \in OwnSteps .. LastStep - 1
  /\ \E v \in Victims(w) :
       /\ CanDequeue(w, v, c)
       /\ currentTask' = [currentTask EXCEPT ![w] = Last(queue[v][c])]
       /\ queue' = [queue EXCEPT ![v][c] = DropLast(@)]
  /\ Goto(w, "picked")
  /\ UNCHANGED <<lockedVars, ownVars, pushes, stackVars, suspendingTask,
                 sameStreak, scan, stopping, resumed, credit>>

FindNothing(w) ==
  /\ At(w, "scan")
  /\ scan[w].step < LastStep
  /\ \E v \in Victims(w) :
       /\ ~CanDequeue(w, v, ScanClass(w))
       /\ scan' = [scan EXCEPT ![w] =
            [prefer |-> scan[w].prefer, step |-> scan[w].step + 1,
             victim |-> IF scan[w].step % 2 = 0 THEN v ELSE w]]
  /\ UNCHANGED <<lockedVars, ownVars, queueVars, stackVars, currentTask,
                 suspendingTask, sameStreak, stopping, resumed, pc, credit>>

(* ownedLoop jumps to an unowned stack, because there is nothing to run or *)
(* the task to run needs a stack of its own.                               *)
SwitchToUnowned(w) ==
  /\ ~unowned[w]
  /\ \/ At(w, "scan") /\ scan[w].step = LastStep
     \/ At(w, "picked") /\ status[currentTask[w]] # "Suspended"
  /\ StashGet(w)
  /\ unowned' = [unowned EXCEPT ![w] = TRUE]
  /\ sameStreak' = [sameStreak EXCEPT ![w] = 0]
  /\ stack' = [stack EXCEPT ![suspendingTask[w]] = "saved"]
  /\ Goto(w, "loop")
  /\ UNCHANGED <<lockedVars, pin, frame, queueVars, currentTask,
                 suspendingTask, scan, stopping, resumed, credit>>

(* unownedLoop found nothing and goes round.                               *)
Spin(w) ==
  /\ unowned[w]
  /\ At(w, "scan")
  /\ scan[w].step = LastStep
  /\ Goto(w, "loop")
  /\ UNCHANGED <<lockedVars, ownVars, queueVars, stackVars, loopVars, stopping,
                 resumed, credit>>

(* Either loop jumps to the stack of a suspended task; the stack it was on *)
(* is saved first.                                                         *)
SwitchToTask(w) ==
  LET t == currentTask[w]
      s == suspendingTask[w] IN
  /\ At(w, "picked")
  /\ status[t] = "Suspended"
  /\ stack' = [u \in Tasks |-> IF u = t THEN "live"
                               ELSE IF u = s /\ ~unowned[w] THEN "saved"
                               ELSE stack[u]]
  /\ sameStreak' = [sameStreak EXCEPT ![w] = IF unowned[w] THEN 0 ELSE @ + 1]
  /\ Goto(w, "landed")
  /\ UNCHANGED <<lockedVars, pin, frame, queueVars, stackVars, currentTask,
                 suspendingTask, scan, stopping, resumed, credit>>

(* ownedLoop after the jump, on the stack of the task to resume.           *)
Land(w) ==
  /\ At(w, "landed")
  /\ FinishSuspending(w)
  /\ \/ unowned[w] /\ StashPut(w)
     \/ ~unowned[w] /\ UNCHANGED <<stash, live>>
  /\ unowned' = [unowned EXCEPT ![w] = FALSE]
  /\ Goto(w, "enter")
  /\ UNCHANGED <<woken, stopped, mail, ownVars, queue, currentTask, sameStreak,
                 scan, stopping, resumed, credit>>

Enter(w) ==
  LET t == currentTask[w] IN
  /\ At(w, "enter")
  /\ status' = [status EXCEPT ![t] = "Running"]
  /\ scheduled' = [scheduled EXCEPT ![t] = FALSE]
  /\ Goto(w, "run")
  /\ UNCHANGED <<woken, stopped, mail, ownVars, queueVars, stackVars, loopVars,
                 stopping, resumed, credit>>

(* unownedLoop gives its stack to a new or listening task.                 *)
StartTask(w) ==
  LET t == currentTask[w] IN
  /\ At(w, "picked")
  /\ unowned[w]
  /\ status[t] # "Suspended"
  /\ sameStreak' = [sameStreak EXCEPT ![w] = @ + 1]
  /\ unowned' = [unowned EXCEPT ![w] = FALSE]
  /\ stack' = [stack EXCEPT ![t] = "live"]
  /\ frame' = [frame EXCEPT ![t] = IF status[t] = "Starting" THEN "main" ELSE "listen"]
  /\ status' = [status EXCEPT ![t] = "Running"]
  /\ scheduled' = [scheduled EXCEPT ![t] = FALSE]
  /\ Goto(w, "run")
  /\ UNCHANGED <<woken, stopped, mail, pin, queueVars, stash, live, currentTask,
                 suspendingTask, scan, stopping, resumed, credit>>

(* FiberSystem's destructor tells the schedulers to stop; each goes back   *)
(* to its initial context, which stashes the unowned stack it came from.   *)
RequestStop(w) ==
  /\ w \in Stoppable
  /\ ~stopping[w]
  /\ stopping' = [stopping EXCEPT ![w] = TRUE]
  /\ UNCHANGED <<lockedVars, ownVars, queueVars, stackVars, loopVars, resumed,
                 pc, credit>>

StopWorker(w) ==
  /\ stopping[w]
  /\ At(w, "loop") \/ At(w, "suspend")
  /\ \/ unowned[w] /\ StashPut(w)
     \/ ~unowned[w] /\ UNCHANGED <<stash, live>>
  /\ stack' = [t \in Tasks |-> IF pc[w] = "suspend" /\ t = currentTask[w]
                               THEN "saved" ELSE stack[t]]
  /\ unowned' = [unowned EXCEPT ![w] = FALSE]
  /\ Goto(w, "stopped")
  /\ UNCHANGED <<lockedVars, pin, frame, queueVars, loopVars, stopping, resumed,
                 credit>>

-----------------------------------------------------------------------------
WorkerLoop(w) ==
  \/ OwnedLoop(w) \/ UnownedLoop(w)
  \/ Dequeue(w) \/ Steal(w) \/ FindNothing(w)
  \/ SwitchToUnowned(w) \/ Spin(w) \/ SwitchToTask(w)
  \/ Land(w) \/ Enter(w) \/ StartTask(w)
  \/ FinishMain(w) \/ StopWorker(w)

ThreadLoop(th) ==
  \/ SuspendThread(th) \/ WakeThread(th)
  \/ ProcessMail(th) \/ EndThread(th)

ThreadCode(th) == ReturnThread(th) \/ MailProcessed(th) \/ ThrowThread(th)

TaskCode(w) ==
  \/ Yield(w) \/ PinTask(w) \/ UnpinTask(w)
  \/ ReturnFiber(w) \/ ReturnActor(w) \/ FinishListening(w)

Next ==
  \/ \E p \in Procs :
       \/ FinishPush(p) \/ Dispatch(p) \/ Await(p) \/ StopTask(p)
       \/ \E t \in Tasks : Spawn(p, t) \/ Send(p, t) \/ Resume(p, t)
       \/ \E th \in OSThreads : SpawnThread(p, th)
  \/ \E w \in Workers : WorkerLoop(w) \/ TaskCode(w) \/ RequestStop(w)
  \/ \E th \in Threads : ThreadLoop(th)
  \/ \E th \in OSThreads : ThreadCode(th)

Spec == Init /\ [][Next]_vars

(* Every OS thread keeps running, and a task neither computes forever nor  *)
(* leaves its events alone: it goes on dispatching them, or waits.         *)
Fairness ==
  /\ \A p \in Procs : WF_vars(FinishPush(p)) /\ WF_vars(Dispatch(p) \/ Await(p))
  /\ \A w \in Workers : WF_vars(WorkerLoop(w))
  /\ \A th \in Threads : WF_vars(ThreadLoop(th))

FairSpec == Spec /\ Fairness

(* The same, when a free yielder does nothing but yield.                   *)
YieldFairness ==
  \A w \in Workers :
    WF_vars(currentTask[w] \in FreeYielders /\ Yield(w))

-----------------------------------------------------------------------------
(* Properties                                                              *)

(* The variables have the types the code declares.                         *)
TypeOK ==
  /\ status \in [Tasks -> Status]
  /\ scheduled \in [Tasks -> BOOLEAN]
  /\ woken \in [Tasks -> BOOLEAN]
  /\ stopped \in [Tasks -> BOOLEAN]
  /\ mail \in [Tasks -> Nat]
  /\ pin \in [Tasks -> Procs \union {NoPin}]
  /\ stack \in [Tasks -> {"none", "live", "saved"}]
  /\ frame \in [Tasks -> {"main", "listen"}]
  /\ queue \in [Workers -> [Priority -> Seq(Tasks)]]
  /\ pushes \subseteq Push
  /\ currentTask \in [Workers -> Tasks \union {NoTask}]
  /\ suspendingTask \in [Workers -> Tasks \union {NoTask}]
  /\ unowned \in [Workers -> BOOLEAN]
  /\ stash \in [Workers -> 0 .. StashSize]
  /\ live \in Int
  /\ sameStreak \in [Workers -> Nat]
  /\ stopping \in [Workers -> BOOLEAN]
  /\ scan \in [Workers -> Scan]
  /\ resumed \in [Threads -> BOOLEAN]
  /\ pc \in [Procs -> WorkerPoint \union ThreadPoint]
  /\ credit \in Nat

(* A task picked from a queue that was not entered yet.                    *)
PickPoints == {"loop", "picked", "landed", "enter"}
Picked(w) == currentTask[w] # NoTask /\ pc[w] \in PickPoints
Queued(t) == \E w \in Workers, c \in Priority :
               \E i \in 1 .. Len(queue[w][c]) : queue[w][c][i] = t
Pushed(t) == \E r \in pushes : r.task = t

(* The asserts and the __builtin_unreachable branches of the loops of the  *)
(* workers, and the asserts of resume and suspend for fiberized threads,   *)
(* which wake only what sleeps. The task of an OS thread is created        *)
(* Starting, nobody makes it Running, and so its first suspension or       *)
(* resume fails them (singletaskscheduler.cpp:28 and :39). Without asserts *)
(* that step changes its status, and from then on it keeps them as well.   *)
AssertionsHold ==
  /\ \A w \in Workers :
       /\ suspendingTask[w] # NoTask =>
            status[suspendingTask[w]] = "Running" /\ ~scheduled[suspendingTask[w]]
       /\ pc[w] = "picked" =>
            /\ status[currentTask[w]] \in {"Starting", "Listening", "Suspended"}
            /\ scheduled[currentTask[w]]
       /\ pc[w] \in {"landed", "enter"} =>
            status[currentTask[w]] = "Suspended" /\ scheduled[currentTask[w]]
       /\ pc[w] \in {"run", "suspend", "ending"} =>
            status[currentTask[w]] = "Running" /\ ~scheduled[currentTask[w]]
  /\ \A th \in Threads :
       /\ ~scheduled[th]
       /\ th \in Fiberized => status[th] \in {"Running", "Suspended"}
       /\ status[th] = "Suspended" => pc[th] = "blocked" /\ ~resumed[th]
       /\ pc[th] = "suspend" /\ status[th] # "Starting" => status[th] = "Running"

OnceInQueues ==
  \A v, w \in Workers, c, d \in Priority :
    \A i \in 1 .. Len(queue[v][c]), j \in 1 .. Len(queue[w][d]) :
      queue[v][c][i] = queue[w][d][j] => v = w /\ c = d /\ i = j

OncePushed ==
  \A r \in pushes : ~Queued(r.task) /\ \A s \in pushes : r.task = s.task => r = s

HeldNotWaiting ==
  \A w \in Workers :
    currentTask[w] # NoTask => ~Queued(currentTask[w]) /\ ~Pushed(currentTask[w])

HeldOnce ==
  \A v, w \in Workers :
    /\ currentTask[v] = currentTask[w] /\ currentTask[v] # NoTask => v = w
    /\ suspendingTask[v] = suspendingTask[w] /\ suspendingTask[v] # NoTask => v = w
    /\ currentTask[v] = suspendingTask[w] => currentTask[v] = NoTask

(* No task is in two queues, in two places of one, or held by two workers, *)
(* so no two workers ever run the same task.                               *)
NoDoubleScheduling ==
  OnceInQueues /\ OncePushed /\ HeldNotWaiting /\ HeldOnce

(* A task marked as scheduled is in a queue, on its way to one, or in the  *)
(* hands of a worker about to run it: resume() ignores such a task, so one *)
(* that is marked and nowhere would never run again.                       *)
NoTaskForgotten ==
  \A t \in Tasks :
    scheduled[t] => Queued(t) \/ Pushed(t)
                      \/ \E w \in Workers : currentTask[w] = t

(* The protocol of resumes and resumesExpected: whatever arrives between   *)
(* the last look into the mailbox and the moment the task sleeps wakes it. *)
NoLostWakeup ==
  \A t \in Tasks :
    status[t] \in {"Suspended", "Listening"} /\ ~scheduled[t] =>
      ~woken[t] /\ (mail[t] = 0 \/ stopped[t])

(* A suspended task is visible to other workers only after its context is  *)
(* saved: nobody jumps to a stack that is still in use.                    *)
SavedBeforeVisible ==
  /\ \A t \in Fibers \union Actors : status[t] = "Suspended" =>
       \/ stack[t] = "saved"
       \/ \E w \in Workers : currentTask[w] = t /\ pc[w] \in {"landed", "enter"}
  /\ \A w \in Workers : pc[w] = "picked" /\ status[currentTask[w]] = "Suspended"
       => stack[currentTask[w]] = "saved"

Home(t, w) == pin[t] \in {w, NoPin}

(* A pinned task is only ever queued at and run by the worker it is tied   *)
(* to, which is what makes its use of that worker's IO loop safe.          *)
PinnedStaysHome ==
  /\ \A w \in Workers : /\ currentTask[w] # NoTask => Home(currentTask[w], w)
                        /\ suspendingTask[w] # NoTask => Home(suspendingTask[w], w)
  /\ \A w \in Workers, c \in Priority : \A i \in 1 .. Len(queue[w][c]) :
       Home(queue[w][c][i], w)
  /\ \A r \in pushes : Home(r.task, r.at)

(* No stack is lost or used twice: every stack allocated and not freed is  *)
(* the unowned stack of a worker, belongs to a task, or is in a stash.     *)
UnownedStacks == {w \in Workers : unowned[w]}
TaskStacks == {t \in Fibers \union Actors : stack[t] # "none"}
StashedStacks == {s \in Workers \X (1 .. StashSize) : s[2] <= stash[s[1]]}
StacksConserved ==
  live = Cardinality(UnownedStacks) + Cardinality(TaskStacks)
           + Cardinality(StashedStacks)

(* Between the loops of a worker that keeps running, a class of tasks does *)
(* not starve the other one.                                               *)
SoftNotStarved ==
  \A t \in Fibers \union Actors :
    (status[t] = "Starting" /\ scheduled[t]) ~> status[t] # "Starting"

(* The activity being bounded, every event ends up dispatched, unless its  *)
(* receiver stops first.                                                   *)
Delivered ==
  \A t \in Tasks :
    mail[t] > 0 ~> mail[t] = 0 \/ stopped[t] \/ status[t] = "Dead"

(* scheduler.hpp:48 of yield: "but eventually reschedule this task".       *)
YieldersRunAgain ==
  \A t \in FreeYielders :
    (status[t] = "Suspended" /\ scheduled[t]) ~> status[t] = "Running"

-----------------------------------------------------------------------------
(* The refinement: what the code of tasks sees of the schedulers.          *)
Phase(t) ==
  IF t \in Threads
  THEN (IF pc[t] = "new" THEN "new" ELSE IF pc[t] = "blocked" THEN "asleep"
        ELSE IF pc[t] = "ended" THEN "dead" ELSE "awake")
  ELSE IF ~Spawned(t) THEN "new"
  ELSE IF status[t] = "Running" THEN "awake"
  ELSE IF status[t] = "Dead" THEN "dead"
  ELSE "asleep"

Parked == INSTANCE Parking
  WITH phase <- [t \in Tasks |-> Phase(t)], permit <- woken, quit <- stopped

(* A task sleeps and wakes by its permit only, wherever it is run.         *)
ImplementsParking == Parked!Spec
ImplementsFairParking == Parked!FairSpec
=============================================================================
