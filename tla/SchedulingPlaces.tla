--------------------------- MODULE SchedulingPlaces ---------------------------
(***************************************************************************)
(* Lemmas about Scheduling, step by step: the variables keep their types   *)
(* and every worker its part of the control; every task marked as          *)
(* scheduled is in exactly one queue, push or pair of hands, and every     *)
(* task is in a state that its place is prepared for.                      *)
(***************************************************************************)
EXTENDS SchedulingInvariant, TLAPS, FiniteSetTheorems, SequenceTheorems

USE DisjointAssumption, BoundsAssumption

(* The variables have their types when the program starts.                 *)
LEMMA InitType == Init => TypeOK
<1> SUFFICES ASSUME Init PROVE TypeOK
  OBVIOUS
<1>1. live \in Int
  BY FS_CardinalityType DEF Init
<1>2. queue \in [Workers -> [Priority -> Seq(Tasks)]]
  BY DEF Init
<1>3. scan \in [Workers -> Scan]
  BY DEF Init, Scan, Priority
<1>4. pin \in [Tasks -> Procs \union {NoPin}]
  BY DEF Init, Procs, Tasks, Fiberized
<1>5. pc \in [Procs -> WorkerPoint \union ThreadPoint]
  BY DEF Init, WorkerPoint, ThreadPoint
<1>6. QED
  BY <1>1, <1>2, <1>3, <1>4, <1>5 DEF Init, TypeOK, Status

(* The search looks at one of the two classes, at some worker.             *)
LEMMA ScanType ==
  ASSUME TypeOK, NEW w \in Workers
  PROVE  ScanClass(w) \in Priority /\ Victims(w) \subseteq Workers
  BY DEF TypeOK, ScanClass, Other, Scan, Priority, Victims

(* Popping either end of a queue yields a task and a queue.                *)
LEMMA QueueType ==
  ASSUME NEW q \in Seq(Tasks), q # << >>
  PROVE  /\ Head(q) \in Tasks /\ Tail(q) \in Seq(Tasks)
         /\ Last(q) \in Tasks /\ DropLast(q) \in Seq(Tasks)
  BY DEF Last, DropLast

(* context::detail::resume keeps the types of what it writes.              *)
LEMMA ResumeType ==
  ASSUME TypeOK, NEW p \in Procs, NEW t \in Tasks, ResumeTask(p, t)
  PROVE  /\ status' \in [Tasks -> Status] /\ scheduled' \in [Tasks -> BOOLEAN]
         /\ woken' \in [Tasks -> BOOLEAN] /\ pushes' \subseteq Push
         /\ resumed' \in [Threads -> BOOLEAN]
<1>1. woken' \in [Tasks -> BOOLEAN]
  BY DEF TypeOK, ResumeTask
<1>2. CASE ~Resumable(t)
  BY <1>1, <1>2 DEF TypeOK, ResumeTask
<1>3. CASE Resumable(t) /\ pin[t] \notin Threads
  <2>1. PICK w \in Workers : Schedule(p, t, w) /\ UNCHANGED <<status, resumed>>
    BY <1>3, DisjointAssumption DEF TypeOK, ResumeTask
  <2>2. ClassOf(t) \in Priority
    BY DEF ClassOf, Priority
  <2>3. pushes' \subseteq Push
    BY <2>1, <2>2 DEF TypeOK, Schedule, Push
  <2>4. QED
    BY <1>1, <2>1, <2>3 DEF TypeOK, Schedule
<1>4. CASE Resumable(t) /\ pin[t] \in Threads
  <2> DEFINE th == pin[t]
  <2>1. th \in Threads /\ th \in Tasks
    BY <1>4 DEF Tasks
  <2>2. /\ status' = [status EXCEPT ![th] = "Running"]
        /\ resumed' = [resumed EXCEPT ![th] = TRUE]
        /\ UNCHANGED <<scheduled, pushes>>
    BY <1>4 DEF ResumeTask
  <2> HIDE DEF th
  <2>3. status' \in [Tasks -> Status] /\ resumed' \in [Threads -> BOOLEAN]
    BY <2>1, <2>2 DEF TypeOK, Status
  <2>4. QED
    BY <1>1, <2>2, <2>3 DEF TypeOK
<1>5. QED
  BY <1>2, <1>3, <1>4

(* So does the part of the loops that suspends the task left behind.       *)
LEMMA FinishSuspendingType ==
  ASSUME TypeOK, NEW w \in Workers, FinishSuspending(w)
  PROVE  /\ status' \in [Tasks -> Status]
         /\ scheduled' \in [Tasks -> BOOLEAN]
         /\ pushes' \subseteq Push
         /\ suspendingTask' \in [Workers -> Tasks \union {NoTask}]
<1>1. CASE suspendingTask[w] = NoTask
  BY <1>1 DEF TypeOK, FinishSuspending
<1>2. CASE suspendingTask[w] # NoTask
  <2> DEFINE t == suspendingTask[w]
  <2>1. t \in Tasks /\ woken[t] \in BOOLEAN
    BY <1>2 DEF TypeOK
  <2>2. scheduled' \in [Tasks -> BOOLEAN]
    <3> HIDE DEF t
    <3>1. scheduled' = [scheduled EXCEPT ![t] = woken[t]]
      BY <1>2 DEF FinishSuspending, t
    <3> QED BY <2>1, <3>1 DEF TypeOK
  <2>3. pushes' \subseteq Push
    BY <1>2, <2>1 DEF TypeOK, FinishSuspending, Push, Procs, Priority
  <2>4. QED
    BY <1>2, <2>1, <2>2, <2>3 DEF TypeOK, FinishSuspending, Status
<1>3. QED
  BY <1>1, <1>2

(* A stash of stacks never exceeds its limit.                              *)
LEMMA StashPutType ==
  ASSUME TypeOK, NEW w \in Workers, StashPut(w)
  PROVE  stash' \in [Workers -> 0 .. StashSize] /\ live' \in Int
<1>1. stash[w] \in 0 .. StashSize /\ live \in Int
  BY DEF TypeOK
<1>2. (IF stash[w] < StashSize THEN stash[w] + 1 ELSE stash[w]) \in 0 .. StashSize
  BY <1>1
<1>3. QED
  BY <1>1, <1>2 DEF TypeOK, StashPut

(* The end of a pass of unownedLoop keeps the types of what it writes.     *)
LEMMA RetireType ==
  ASSUME TypeOK, NEW w \in Workers, NEW t \in Tasks, Retire(w, t),
         woken' \in [Tasks -> BOOLEAN]
  PROVE  /\ status' \in [Tasks -> Status]
         /\ scheduled' \in [Tasks -> BOOLEAN]
         /\ pushes' \subseteq Push
         /\ stack' \in [Tasks -> {"none", "live", "saved"}]
<1>1. status' \in [Tasks -> Status] /\ stack' \in [Tasks -> {"none", "live", "saved"}]
  BY DEF TypeOK, Retire, Status
<1>2. scheduled' \in [Tasks -> BOOLEAN]
  <2>1. \E b \in BOOLEAN : scheduled' = [scheduled EXCEPT ![t] = b]
    <3>1. woken'[t] \in BOOLEAN
      OBVIOUS
    <3> QED BY <3>1 DEF Retire
  <2> QED BY <2>1 DEF TypeOK
<1>3. pushes' \subseteq Push
  <2>1. pushes' \subseteq pushes \union {[by |-> w, task |-> t, at |-> w, class |-> "soft"]}
    BY DEF Retire
  <2>2. [by |-> w, task |-> t, at |-> w, class |-> "soft"] \in Push
    BY DEF Push, Procs, Priority
  <2> QED BY <2>1, <2>2 DEF TypeOK
<1>4. QED
  BY <1>1, <1>2, <1>3

(* The search stays a search when a queue has nothing to offer.            *)
LEMMA FindNothingType ==
  ASSUME TypeOK, NEW w \in Workers, FindNothing(w)
  PROVE  scan' \in [Workers -> Scan]
<1>1. PICK v \in Victims(w) : scan' = [scan EXCEPT ![w] =
            [prefer |-> scan[w].prefer, step |-> scan[w].step + 1,
             victim |-> IF scan[w].step % 2 = 0 THEN v ELSE w]]
  BY DEF FindNothing
<1>2. v \in Workers /\ scan[w] \in Scan
  BY ScanType DEF TypeOK
<1>3. [prefer |-> scan[w].prefer, step |-> scan[w].step + 1,
             victim |-> IF scan[w].step % 2 = 0 THEN v ELSE w] \in Scan
  BY <1>2 DEF Scan
<1> QED BY <1>1, <1>3 DEF TypeOK

(* Dequeuing yields a task and leaves queues.                              *)
LEMMA DequeueType ==
  ASSUME TypeOK, NEW w \in Workers, Dequeue(w)
  PROVE  currentTask' \in [Workers -> Tasks \union {NoTask}] /\ queue' \in [Workers -> [Priority -> Seq(Tasks)]]
<1> DEFINE c == ScanClass(w)
<1>1. c \in Priority /\ queue[w][c] \in Seq(Tasks) /\ queue[w][c] # << >>
  BY ScanType DEF TypeOK, Dequeue, CanDequeue
<1>2. Head(queue[w][c]) \in Tasks /\ Tail(queue[w][c]) \in Seq(Tasks)
  BY <1>1, QueueType
<1> HIDE DEF c
<1>3. /\ currentTask' = [currentTask EXCEPT ![w] = Head(queue[w][c])]
      /\ queue' = [queue EXCEPT ![w][c] = Tail(queue[w][c])]
  BY DEF Dequeue, c
<1> QED BY <1>1, <1>2, <1>3 DEF TypeOK

(* Stealing yields a task and leaves queues.                               *)
LEMMA StealType ==
  ASSUME TypeOK, NEW w \in Workers, Steal(w)
  PROVE  currentTask' \in [Workers -> Tasks \union {NoTask}] /\ queue' \in [Workers -> [Priority -> Seq(Tasks)]]
<1> DEFINE c == ScanClass(w)
<1>0. PICK v \in Victims(w) : /\ CanDequeue(w, v, c)
       /\ currentTask' = [currentTask EXCEPT ![w] = Last(queue[v][c])]
       /\ queue' = [queue EXCEPT ![v][c] = DropLast(queue[v][c])]
  BY DEF Steal
<1>1. v \in Workers /\ c \in Priority /\ queue[v][c] \in Seq(Tasks) /\ queue[v][c] # << >>
  BY <1>0, ScanType DEF TypeOK, CanDequeue
<1>2. Last(queue[v][c]) \in Tasks /\ DropLast(queue[v][c]) \in Seq(Tasks)
  BY <1>1, QueueType
<1> HIDE DEF c
<1> QED BY <1>0, <1>1, <1>2 DEF TypeOK

(* Every step of the schedulers keeps the types.                           *)
LEMMA TypeStep ==
  ASSUME TypeOK, ControlOK, Next
  PROVE  TypeOK'
<1> USE DEF TypeOK, lockedVars, ownVars, queueVars, stackVars, loopVars, Goto, At
<1>1. ASSUME NEW p \in Procs, FinishPush(p) PROVE TypeOK'
  BY SMTT(40), <1>1 DEF FinishPush, PushFront, Push
<1>2. ASSUME NEW p \in Procs, Dispatch(p) PROVE TypeOK'
  BY <1>2 DEF Dispatch, ControlOK, WorkerControl, Running, HoldsTask, Procs,
     Tasks
<1>3. ASSUME NEW p \in Procs, Await(p) PROVE TypeOK'
  BY <1>3 DEF Await, ThreadPoint
<1>4. ASSUME NEW p \in Procs, StopTask(p) PROVE TypeOK'
  BY <1>4 DEF StopTask
<1>5. ASSUME NEW p \in Procs, NEW t \in Tasks, Spawn(p, t) PROVE TypeOK'
  <2>1. ResumeTask(p, t)
    BY <1>5 DEF Spawn
  <2>2. /\ status' \in [Tasks -> Status] /\ scheduled' \in [Tasks -> BOOLEAN]
        /\ woken' \in [Tasks -> BOOLEAN] /\ pushes' \subseteq Push
        /\ resumed' \in [Threads -> BOOLEAN]
    BY <2>1, ResumeType
  <2>3. QED
    BY <1>5, <2>1, <2>2 DEF Spawn
<1>6. ASSUME NEW p \in Procs, NEW t \in Tasks, Send(p, t) PROVE TypeOK'
  <2>1. ResumeTask(p, t)
    BY <1>6 DEF Send
  <2>2. /\ status' \in [Tasks -> Status] /\ scheduled' \in [Tasks -> BOOLEAN]
        /\ woken' \in [Tasks -> BOOLEAN] /\ pushes' \subseteq Push
        /\ resumed' \in [Threads -> BOOLEAN]
    BY <2>1, ResumeType
  <2>3. mail' \in [Tasks -> Nat]
    BY <1>6 DEF Send
  <2>4. credit' \in Nat
    BY <1>6 DEF Send
  <2>5. QED
    BY <1>6, <2>1, <2>2, <2>3, <2>4 DEF Send
<1>7. ASSUME NEW p \in Procs, NEW t \in Tasks, Resume(p, t) PROVE TypeOK'
  <2>1. ResumeTask(p, t)
    BY <1>7 DEF Resume
  <2>2. /\ status' \in [Tasks -> Status] /\ scheduled' \in [Tasks -> BOOLEAN]
        /\ woken' \in [Tasks -> BOOLEAN] /\ pushes' \subseteq Push
        /\ resumed' \in [Threads -> BOOLEAN]
    BY <2>1, ResumeType
  <2>3. credit' \in Nat
    BY <1>7 DEF Resume
  <2>4. QED
    BY <1>7, <2>1, <2>2, <2>3 DEF Resume
<1>8. ASSUME NEW w \in Workers, OwnedLoop(w) PROVE TypeOK'
  <2>1. suspendingTask' \in [Workers -> Tasks \union {NoTask}]
    BY <1>8 DEF OwnedLoop
  <2>2. currentTask' \in [Workers -> Tasks \union {NoTask}]
    BY <1>8 DEF OwnedLoop
  <2>3. sameStreak' \in [Workers -> Nat] /\ scan' \in [Workers -> Scan]
    BY <1>8 DEF OwnedLoop, ChoosePriority, Scan, Priority, Other
  <2>4. pc' \in [Procs -> WorkerPoint \union ThreadPoint]
    BY <1>8 DEF OwnedLoop, Procs, WorkerPoint
  <2>5. QED
    BY <1>8, <2>1, <2>2, <2>3, <2>4 DEF OwnedLoop, ChoosePriority
<1>9. ASSUME NEW w \in Workers, UnownedLoop(w) PROVE TypeOK'
  <2>1. FinishSuspending(w)
    BY <1>9 DEF UnownedLoop
  <2>2. /\ status' \in [Tasks -> Status] /\ scheduled' \in [Tasks -> BOOLEAN]
        /\ pushes' \subseteq Push
        /\ suspendingTask' \in [Workers -> Tasks \union {NoTask}]
    BY <2>1, FinishSuspendingType
  <2>3. sameStreak' \in [Workers -> Nat] /\ scan' \in [Workers -> Scan]
    BY <1>9 DEF UnownedLoop, ChoosePriority, Scan, Priority, Other
  <2>4. pc' \in [Procs -> WorkerPoint \union ThreadPoint]
    BY <1>9 DEF UnownedLoop, Procs, WorkerPoint
  <2>5. QED
    BY <1>9, <2>2, <2>3, <2>4 DEF UnownedLoop
<1>10. ASSUME NEW w \in Workers, Dequeue(w) PROVE TypeOK'
  <2>1. /\ currentTask' \in [Workers -> Tasks \union {NoTask}]
        /\ queue' \in [Workers -> [Priority -> Seq(Tasks)]]
    BY <1>10, DequeueType
  <2>2. pc' \in [Procs -> WorkerPoint \union ThreadPoint]
    BY <1>10 DEF Dequeue, Procs, WorkerPoint
  <2>3. QED
    BY <1>10, <2>1, <2>2 DEF Dequeue
<1>11. ASSUME NEW w \in Workers, Steal(w) PROVE TypeOK'
  <2>1. /\ currentTask' \in [Workers -> Tasks \union {NoTask}]
        /\ queue' \in [Workers -> [Priority -> Seq(Tasks)]]
    BY <1>11, StealType
  <2>2. pc' \in [Procs -> WorkerPoint \union ThreadPoint]
    BY <1>11 DEF Steal, Procs, WorkerPoint
  <2>3. QED
    BY <1>11, <2>1, <2>2 DEF Steal
<1>12. ASSUME NEW w \in Workers, FindNothing(w) PROVE TypeOK'
  <2>1. scan' \in [Workers -> Scan]
    BY <1>12, FindNothingType
  <2>2. QED
    BY <1>12, <2>1 DEF FindNothing
<1>13. ASSUME NEW w \in Workers, SwitchToUnowned(w) PROVE TypeOK'
  <2>1. sameStreak' \in [Workers -> Nat]
    BY <1>13 DEF SwitchToUnowned
  <2>2. pc' \in [Procs -> WorkerPoint \union ThreadPoint]
    BY <1>13 DEF SwitchToUnowned, Procs, WorkerPoint
  <2>3. stash' \in [Workers -> 0 .. StashSize] /\ live' \in Int
    BY <1>13 DEF SwitchToUnowned, StashGet
  <2>4. stack' \in [Tasks -> {"none", "live", "saved"}]
    BY <1>13 DEF SwitchToUnowned
  <2>5. unowned' \in [Workers -> BOOLEAN]
    BY <1>13 DEF SwitchToUnowned
  <2>6. QED
    BY <1>13, <2>1, <2>2, <2>3, <2>4, <2>5 DEF SwitchToUnowned
<1>14. ASSUME NEW w \in Workers, Spin(w) PROVE TypeOK'
  BY <1>14 DEF Spin, Procs, WorkerPoint
<1>15. ASSUME NEW w \in Workers, SwitchToTask(w) PROVE TypeOK'
  BY <1>15 DEF SwitchToTask, Procs, WorkerPoint
<1>16. ASSUME NEW w \in Workers, Land(w) PROVE TypeOK'
  <2>1. FinishSuspending(w)
    BY <1>16 DEF Land
  <2>2. /\ status' \in [Tasks -> Status] /\ scheduled' \in [Tasks -> BOOLEAN]
        /\ pushes' \subseteq Push
        /\ suspendingTask' \in [Workers -> Tasks \union {NoTask}]
    BY <2>1, FinishSuspendingType
  <2>3. stash' \in [Workers -> 0 .. StashSize] /\ live' \in Int
    BY <1>16, StashPutType DEF Land
  <2>4. unowned' \in [Workers -> BOOLEAN]
    BY <1>16 DEF Land
  <2>5. pc' \in [Procs -> WorkerPoint \union ThreadPoint]
    BY <1>16 DEF Land, Procs, WorkerPoint
  <2>6. QED
    BY <1>16, <2>2, <2>3, <2>4, <2>5 DEF Land
<1>17. ASSUME NEW w \in Workers, Enter(w) PROVE TypeOK'
  BY <1>17 DEF Enter, Procs, WorkerPoint, Status
<1>18. ASSUME NEW w \in Workers, StartTask(w) PROVE TypeOK'
  <2>1. sameStreak' \in [Workers -> Nat]
    BY <1>18 DEF StartTask
  <2>2. pc' \in [Procs -> WorkerPoint \union ThreadPoint]
    BY <1>18 DEF StartTask, Procs, WorkerPoint
  <2>3. status' \in [Tasks -> Status] /\ scheduled' \in [Tasks -> BOOLEAN]
    BY <1>18 DEF StartTask, Status
  <2>4. stack' \in [Tasks -> {"none", "live", "saved"}]
    BY <1>18 DEF StartTask
  <2>5. frame' \in [Tasks -> {"main", "listen"}]
    BY <1>18 DEF StartTask
  <2>6. unowned' \in [Workers -> BOOLEAN]
    BY <1>18 DEF StartTask
  <2>7. QED
    BY <1>18, <2>1, <2>2, <2>3, <2>4, <2>5, <2>6 DEF StartTask
<1>19. ASSUME NEW w \in Workers, FinishMain(w) PROVE TypeOK'
  <2>1. stopped' \in [Tasks -> BOOLEAN] /\ woken' \in [Tasks -> BOOLEAN]
    BY <1>19 DEF FinishMain
  <2>2. currentTask[w] \in Tasks /\ Retire(w, currentTask[w])
    BY <1>19 DEF FinishMain, ControlOK, WorkerControl, HoldsTask
  <2>3. /\ status' \in [Tasks -> Status] /\ scheduled' \in [Tasks -> BOOLEAN]
        /\ pushes' \subseteq Push
        /\ stack' \in [Tasks -> {"none", "live", "saved"}]
    BY <2>1, <2>2, RetireType
  <2>4. currentTask' \in [Workers -> Tasks \union {NoTask}]
    BY <2>2 DEF Retire
  <2>5. unowned' \in [Workers -> BOOLEAN]
    BY <2>2 DEF Retire
  <2>6. pc' \in [Procs -> WorkerPoint \union ThreadPoint]
    BY <2>2 DEF Retire, Procs, WorkerPoint
  <2>7. QED
    BY <1>19, <2>1, <2>2, <2>3, <2>4, <2>5, <2>6 DEF FinishMain, Retire
<1>20. ASSUME NEW w \in Workers, StopWorker(w) PROVE TypeOK'
  <2>1. stash' \in [Workers -> 0 .. StashSize] /\ live' \in Int
    BY <1>20, StashPutType DEF StopWorker
  <2>2. stack' \in [Tasks -> {"none", "live", "saved"}]
    BY <1>20 DEF StopWorker
  <2>3. unowned' \in [Workers -> BOOLEAN]
    BY <1>20 DEF StopWorker
  <2>4. pc' \in [Procs -> WorkerPoint \union ThreadPoint]
    BY <1>20 DEF StopWorker, Procs, WorkerPoint
  <2>5. QED
    BY <1>20, <2>1, <2>2, <2>3, <2>4 DEF StopWorker
<1>21. ASSUME NEW w \in Workers, Yield(w) PROVE TypeOK'
  <2>1. credit' \in Nat
    BY <1>21 DEF Yield
  <2>2. pc' \in [Procs -> WorkerPoint \union ThreadPoint]
    BY <1>21 DEF Yield, Procs, WorkerPoint
  <2>3. woken' \in [Tasks -> BOOLEAN]
    BY <1>21 DEF Yield
  <2>4. QED
    BY <1>21, <2>1, <2>2, <2>3 DEF Yield
<1>22. ASSUME NEW w \in Workers, PinTask(w) PROVE TypeOK'
  BY <1>22 DEF PinTask, Procs
<1>23. ASSUME NEW w \in Workers, UnpinTask(w) PROVE TypeOK'
  BY <1>23 DEF UnpinTask, Procs
<1>24. ASSUME NEW w \in Workers, ReturnFiber(w) PROVE TypeOK'
  BY <1>24 DEF ReturnFiber, Procs, WorkerPoint
<1>25. ASSUME NEW w \in Workers, ReturnActor(w) PROVE TypeOK'
  BY <1>25 DEF ReturnActor, Procs, WorkerPoint
<1>26. ASSUME NEW w \in Workers, FinishListening(w) PROVE TypeOK'
  <2>1. stopped' \in [Tasks -> BOOLEAN] /\ woken' \in [Tasks -> BOOLEAN]
    BY <1>26 DEF FinishListening
  <2>2. currentTask[w] \in Tasks /\ Retire(w, currentTask[w])
    BY <1>26 DEF FinishListening, ControlOK, WorkerControl, HoldsTask
  <2>3. /\ status' \in [Tasks -> Status] /\ scheduled' \in [Tasks -> BOOLEAN]
        /\ pushes' \subseteq Push
        /\ stack' \in [Tasks -> {"none", "live", "saved"}]
    BY <2>1, <2>2, RetireType
  <2>4. currentTask' \in [Workers -> Tasks \union {NoTask}]
    BY <2>2 DEF Retire
  <2>5. unowned' \in [Workers -> BOOLEAN]
    BY <2>2 DEF Retire
  <2>6. pc' \in [Procs -> WorkerPoint \union ThreadPoint]
    BY <2>2 DEF Retire, Procs, WorkerPoint
  <2>7. QED
    BY <1>26, <2>1, <2>2, <2>3, <2>4, <2>5, <2>6 DEF FinishListening, Retire
<1>27. ASSUME NEW w \in Workers, RequestStop(w) PROVE TypeOK'
  BY <1>27 DEF RequestStop
<1>28. ASSUME NEW th \in Threads, SuspendThread(th) PROVE TypeOK'
  <2>1. status' \in [Tasks -> Status]
    BY <1>28 DEF SuspendThread, Status, Tasks
  <2>2. woken' \in [Tasks -> BOOLEAN]
    BY <1>28 DEF SuspendThread
  <2>3. resumed' \in [Threads -> BOOLEAN]
    BY <1>28 DEF SuspendThread
  <2>4. pc' \in [Procs -> WorkerPoint \union ThreadPoint]
    BY <1>28 DEF SuspendThread, Procs, ThreadPoint
  <2>5. QED
    BY <1>28, <2>1, <2>2, <2>3, <2>4 DEF SuspendThread
<1>29. ASSUME NEW th \in Threads, WakeThread(th) PROVE TypeOK'
  BY <1>29 DEF WakeThread, Procs, ThreadPoint
<1>30. ASSUME NEW p \in Procs, NEW th \in OSThreads, SpawnThread(p, th) PROVE TypeOK'
  <2>1. pin' \in [Tasks -> Procs \union {NoPin}]
    BY <1>30 DEF SpawnThread, Procs
  <2>2. pc' \in [Procs -> WorkerPoint \union ThreadPoint]
    BY <1>30 DEF SpawnThread, ThreadPoint
  <2>3. QED
    BY <1>30, <2>1, <2>2 DEF SpawnThread
<1>31. ASSUME NEW th \in Threads, ReturnThread(th) \/ MailProcessed(th) PROVE TypeOK'
  <2>1. stopped' \in [Tasks -> BOOLEAN] /\ woken' \in [Tasks -> BOOLEAN]
    BY <1>31 DEF ReturnThread, MailProcessed
  <2>2. pc' \in [Procs -> WorkerPoint \union ThreadPoint]
    BY <1>31 DEF ReturnThread, MailProcessed, ThreadPoint
  <2>3. QED
    BY <1>31, <2>1, <2>2 DEF ReturnThread, MailProcessed
<1>32. ASSUME NEW th \in Threads, ProcessMail(th) PROVE TypeOK'
  <2>1. frame' \in [Tasks -> {"main", "listen"}]
    BY <1>32 DEF ProcessMail
  <2>2. pc' \in [Procs -> WorkerPoint \union ThreadPoint]
    BY <1>32 DEF ProcessMail, ThreadPoint
  <2>3. QED
    BY <1>32, <2>1, <2>2 DEF ProcessMail
<1>33. ASSUME NEW th \in Threads, KillThread(th) PROVE TypeOK'
  <2>1. status' \in [Tasks -> Status] /\ scheduled' \in [Tasks -> BOOLEAN]
    BY <1>33 DEF KillThread, Status
  <2>2. pin' \in [Tasks -> Procs \union {NoPin}]
    BY <1>33 DEF KillThread
  <2>3. pc' \in [Procs -> WorkerPoint \union ThreadPoint]
    BY <1>33 DEF KillThread, ThreadPoint
  <2>4. QED
    BY <1>33, <2>1, <2>2, <2>3 DEF KillThread
<1>34. QED
  BY <1>1, <1>2, <1>3, <1>4, <1>5, <1>6, <1>7, <1>8, <1>9, <1>10, <1>11,
     <1>12, <1>13, <1>14, <1>15, <1>16, <1>17, <1>18, <1>19, <1>20, <1>21,
     <1>22, <1>23, <1>24, <1>25, <1>26, <1>27, <1>28, <1>29, <1>30, <1>31,
     <1>32, <1>33 DEF Next, WorkerLoop, ThreadLoop, ThreadCode,
     EndThread, ThrowThread, TaskCode

(* A step that leaves registers and pins alone keeps the control invariant.*)
LEMMA ControlFrame ==
  ASSUME ControlOK, UNCHANGED <<pc, currentTask, suspendingTask, unowned, pin>>
  PROVE  ControlOK'
  BY DEF ControlOK, WorkerControl, ThreadControl, Up

(* A step of one worker keeps it if it keeps it for that worker.           *)
LEMMA WorkerFrame ==
  ASSUME TypeOK, ControlOK, NEW w \in Workers,
         UNCHANGED pin, WorkerControl(w)', \E point \in WorkerPoint : Goto(w, point),
         \A v \in Workers \ {w} :
           /\ currentTask'[v] = currentTask[v]
           /\ suspendingTask'[v] = suspendingTask[v]
           /\ unowned'[v] = unowned[v]
  PROVE  ControlOK'
<1>1. ASSUME NEW v \in Workers \ {w} PROVE WorkerControl(v)'
  BY DEF TypeOK, ControlOK, WorkerControl, Goto, Procs
<1>2. ASSUME NEW th \in Threads PROVE ThreadControl(th)'
  <2>1. pc'[th] = pc[th] /\ pin'[th] = pin[th]
    BY DEF TypeOK, Goto, Procs, Tasks
  <2>2. QED
    BY <2>1 DEF ControlOK, ThreadControl, Up
<1>3. QED
  BY <1>1, <1>2 DEF ControlOK

(* Pinning a task that is not a thread's does not disturb the threads.     *)
LEMMA RepinFrame ==
  ASSUME TypeOK, ControlOK, NEW t, t \notin Threads, NEW x, x \notin Threads,
         pin' = [pin EXCEPT ![t] = x],
         UNCHANGED <<pc, currentTask, suspendingTask, unowned>>
  PROVE  ControlOK'
<1>1. \A u \in Tasks : pin'[u] \in {pin[u], x} /\ (u # t => pin'[u] = pin[u])
  BY DEF TypeOK
<1>2. ASSUME NEW th \in Threads PROVE ThreadControl(th)'
  <2>1. pin'[th] = pin[th]
    BY <1>1 DEF Tasks
  <2>2. QED
    BY <2>1 DEF ControlOK, ThreadControl, Up
<1>3. ASSUME NEW w \in Workers PROVE WorkerControl(w)'
  BY DEF ControlOK, WorkerControl
<1>4. \A u \in Tasks \ Threads : pin'[u] \notin Threads
  BY <1>1 DEF ControlOK
<1>5. QED
  BY <1>2, <1>3, <1>4 DEF ControlOK

(* And so does a step of one thread.                                       *)
LEMMA ThreadFrame ==
  ASSUME TypeOK, ControlOK, NEW th \in Threads,
         ThreadControl(th)', \E point \in ThreadPoint : Goto(th, point),
         UNCHANGED <<currentTask, suspendingTask, unowned>>,
         \A t \in Tasks \ {th} : pin'[t] = pin[t]
  PROVE  ControlOK'
<1>1. \A p \in Procs \ {th} : pc'[p] = pc[p]
  BY DEF TypeOK, Goto
<1>2. ASSUME NEW w \in Workers PROVE WorkerControl(w)'
  <2>1. pc'[w] = pc[w]
    BY <1>1 DEF Procs, Tasks
  <2>2. QED
    BY <2>1 DEF ControlOK, WorkerControl
<1>3. ASSUME NEW h \in Threads PROVE ThreadControl(h)'
  <2>1. CASE h = th
    BY <2>1
  <2>2. CASE h # th
    <3>1. pc'[h] = pc[h] /\ pin'[h] = pin[h]
      BY <1>1, <2>2 DEF Procs, Tasks
    <3>2. QED
      BY <3>1 DEF ControlOK, ThreadControl, Up
  <2>3. QED
    BY <2>1, <2>2
<1>4. QED
  BY <1>2, <1>3 DEF ControlOK

(* No step takes a worker to a program point that its registers contradict,*)
(* and no task but a thread itself gets pinned to a thread.                *)
LEMMA ControlStep ==
  ASSUME TypeOK, TypeOK', ControlOK, PlacesOK, Next
  PROVE  ControlOK'
<1> USE DEF lockedVars, ownVars, queueVars, stackVars, loopVars
<1>1. ASSUME NEW p \in Procs, FinishPush(p) PROVE ControlOK'
  BY <1>1, ControlFrame DEF FinishPush
<1>2. ASSUME NEW p \in Procs, Dispatch(p) PROVE ControlOK'
  BY <1>2, ControlFrame DEF Dispatch
<1>3. ASSUME NEW p \in Procs, Await(p) PROVE ControlOK'
  <2>1. UNCHANGED <<currentTask, suspendingTask, unowned, pin>> /\ Goto(p, "suspend")
        /\ pc[p] = "run" /\ pc'[p] = "suspend"
    BY <1>3 DEF Await, At, Goto, TypeOK
  <2>2. CASE p \in Workers
    <3>1. WorkerControl(p)'
      BY <2>1, <2>2 DEF ControlOK, WorkerControl, HoldsTask, Executing, WorkerPoint
    <3>2. QED
      BY <2>1, <2>2, <3>1, WorkerFrame DEF WorkerPoint
  <2>3. CASE p \in Threads
    <3>1. ThreadControl(p)'
      BY <2>1, <2>3 DEF ControlOK, ThreadControl, Up, ThreadPoint
    <3>2. QED
      BY <2>1, <2>3, <3>1, ThreadFrame DEF ThreadPoint
  <2>4. QED
    BY <2>2, <2>3 DEF Procs
<1>4. ASSUME NEW p \in Procs, StopTask(p) PROVE ControlOK'
  BY <1>4, ControlFrame DEF StopTask
<1>5. ASSUME NEW p \in Procs, NEW t \in Tasks, Spawn(p, t) PROVE ControlOK'
  BY <1>5, ControlFrame DEF Spawn
<1>6. ASSUME NEW p \in Procs, NEW t \in Tasks, Send(p, t) PROVE ControlOK'
  BY <1>6, ControlFrame DEF Send
<1>7. ASSUME NEW p \in Procs, NEW t \in Tasks, Resume(p, t) PROVE ControlOK'
  BY <1>7, ControlFrame DEF Resume
<1>8. ASSUME NEW w \in Workers, OwnedLoop(w) PROVE ControlOK'
  <2>1. WorkerControl(w)'
    BY <1>8 DEF OwnedLoop, ChoosePriority, WorkerControl, HoldsTask,
       Executing, WorkerPoint, TypeOK, ControlOK, Goto, At, Procs
  <2>2. QED
    BY <1>8, <2>1, WorkerFrame DEF OwnedLoop, ChoosePriority, TypeOK,
       WorkerPoint, Procs
<1>9. ASSUME NEW w \in Workers, UnownedLoop(w) PROVE ControlOK'
  <2>1. suspendingTask'[w] = NoTask
    BY <1>9 DEF UnownedLoop, FinishSuspending, TypeOK
  <2>2. pc'[w] = (IF currentTask[w] = NoTask THEN "scan" ELSE "picked")
    BY <1>9 DEF UnownedLoop, Goto, TypeOK, Procs
  <2>3. currentTask' = currentTask /\ unowned'[w] = unowned[w] /\ pc[w] = "loop"
    BY <1>9 DEF UnownedLoop, At, TypeOK
  <2>4. WorkerControl(w) /\ NoTask \notin Threads
    BY DEF ControlOK, Tasks
  <2>5. WorkerControl(w)'
    BY <2>1, <2>2, <2>3, <2>4 DEF WorkerControl, HoldsTask, Executing,
       WorkerPoint
  <2>6. \A v \in Workers \ {w} : suspendingTask'[v] = suspendingTask[v]
    BY <1>9 DEF UnownedLoop, FinishSuspending, TypeOK
  <2>7. \A v \in Workers \ {w} : unowned'[v] = unowned[v]
    BY <1>9 DEF UnownedLoop, TypeOK
  <2>8. UNCHANGED pin /\ \E point \in WorkerPoint : Goto(w, point)
    BY <1>9 DEF UnownedLoop, WorkerPoint
  <2>9. QED
    BY <2>3, <2>5, <2>6, <2>7, <2>8, WorkerFrame
<1>10. ASSUME NEW w \in Workers, Dequeue(w) PROVE ControlOK'
  <2>1. currentTask'[w] \in Tasks \ Threads
    <3> DEFINE c == ScanClass(w)
               q == queue[w][c]
    <3>1. c \in Priority /\ q \in Seq(Tasks) /\ q # << >>
      BY <1>10, ScanType DEF Dequeue, CanDequeue, TypeOK
    <3>2. Waiting(q[1]) /\ q[1] \in Tasks
      BY <3>1 DEF PlacesOK, QueuesWait
    <3>3. currentTask'[w] = q[1]
      BY <1>10 DEF Dequeue, TypeOK
    <3>4. QED
      BY <3>2, <3>3 DEF Waiting
  <2>2. WorkerControl(w)'
    BY <1>10, <2>1 DEF Dequeue, WorkerControl, HoldsTask, Executing,
       WorkerPoint, TypeOK, ControlOK, Goto, At, Procs
  <2>3. QED
    BY <1>10, <2>2, WorkerFrame DEF Dequeue, TypeOK, WorkerPoint, Procs
<1>11. ASSUME NEW w \in Workers, Steal(w) PROVE ControlOK'
  <2>1. currentTask'[w] \in Tasks \ Threads
    <3> DEFINE c == ScanClass(w)
    <3>1. PICK v \in Victims(w) :
            /\ queue[v][c] # << >>
            /\ currentTask' = [currentTask EXCEPT ![w] = Last(queue[v][c])]
      BY <1>11 DEF Steal, CanDequeue
    <3> DEFINE q == queue[v][c]
    <3>2. v \in Workers /\ c \in Priority /\ q \in Seq(Tasks) /\ q # << >>
      BY SMTT(40), <3>1, ScanType DEF TypeOK
    <3>3. Waiting(q[Len(q)]) /\ q[Len(q)] \in Tasks
      BY <3>2 DEF PlacesOK, QueuesWait
    <3>4. currentTask'[w] = q[Len(q)]
      BY <3>1 DEF TypeOK, Last
    <3>5. QED
      BY <3>3, <3>4 DEF Waiting
  <2>2. WorkerControl(w)'
    BY <1>11, <2>1 DEF Steal, WorkerControl, HoldsTask, Executing,
       WorkerPoint, TypeOK, ControlOK, Goto, At, Procs
  <2>3. QED
    BY <1>11, <2>2, WorkerFrame DEF Steal, TypeOK, WorkerPoint, Procs
<1>12. ASSUME NEW w \in Workers, FindNothing(w) PROVE ControlOK'
  BY <1>12, ControlFrame DEF FindNothing
<1>13. ASSUME NEW w \in Workers, SwitchToUnowned(w) PROVE ControlOK'
  <2>1. WorkerControl(w)'
    BY <1>13 DEF SwitchToUnowned, StashGet, WorkerControl, HoldsTask,
       Executing, WorkerPoint, TypeOK, ControlOK, Goto, At, Procs
  <2>2. QED
    BY <1>13, <2>1, WorkerFrame DEF SwitchToUnowned, StashGet, TypeOK,
       WorkerPoint, Procs
<1>14. ASSUME NEW w \in Workers, Spin(w) PROVE ControlOK'
  <2>1. WorkerControl(w)'
    BY <1>14 DEF Spin, WorkerControl, HoldsTask, Executing, WorkerPoint,
       TypeOK, ControlOK, Goto, At, Procs
  <2>2. QED
    BY <1>14, <2>1, WorkerFrame DEF Spin, TypeOK, WorkerPoint, Procs
<1>15. ASSUME NEW w \in Workers, SwitchToTask(w) PROVE ControlOK'
  <2>1. WorkerControl(w)'
    BY <1>15 DEF SwitchToTask, WorkerControl, HoldsTask, Executing,
       WorkerPoint, TypeOK, ControlOK, Goto, At, Procs
  <2>2. QED
    BY <1>15, <2>1, WorkerFrame DEF SwitchToTask, TypeOK, WorkerPoint, Procs
<1>16. ASSUME NEW w \in Workers, Land(w) PROVE ControlOK'
  <2>1. suspendingTask'[w] = NoTask
    BY <1>16 DEF Land, FinishSuspending, TypeOK
  <2>2. pc'[w] = "enter"
    BY <1>16 DEF Land, Goto, TypeOK, Procs
  <2>3. currentTask' = currentTask /\ ~unowned'[w] /\ pc[w] = "landed"
    BY <1>16 DEF Land, At, TypeOK
  <2>4. WorkerControl(w) /\ NoTask \notin Threads
    BY DEF ControlOK, Tasks
  <2>5. WorkerControl(w)'
    BY <2>1, <2>2, <2>3, <2>4 DEF WorkerControl, HoldsTask, Executing,
       WorkerPoint
  <2>6. \A v \in Workers \ {w} : suspendingTask'[v] = suspendingTask[v]
    BY <1>16 DEF Land, FinishSuspending, TypeOK
  <2>7. \A v \in Workers \ {w} : unowned'[v] = unowned[v]
    BY <1>16 DEF Land, TypeOK
  <2>8. UNCHANGED pin /\ \E point \in WorkerPoint : Goto(w, point)
    BY <1>16 DEF Land, WorkerPoint
  <2>9. QED
    BY <2>3, <2>5, <2>6, <2>7, <2>8, WorkerFrame
<1>17. ASSUME NEW w \in Workers, Enter(w) PROVE ControlOK'
  <2>1. WorkerControl(w)'
    BY <1>17 DEF Enter, WorkerControl, HoldsTask, Executing, WorkerPoint,
       TypeOK, ControlOK, Goto, At, Procs
  <2>2. QED
    BY <1>17, <2>1, WorkerFrame DEF Enter, TypeOK, WorkerPoint, Procs
<1>18. ASSUME NEW w \in Workers, StartTask(w) PROVE ControlOK'
  <2>1. WorkerControl(w)'
    BY <1>18 DEF StartTask, WorkerControl, HoldsTask, Executing, WorkerPoint,
       TypeOK, ControlOK, Goto, At, Procs
  <2>2. QED
    BY <1>18, <2>1, WorkerFrame DEF StartTask, TypeOK, WorkerPoint, Procs
<1>19. ASSUME NEW w \in Workers, FinishMain(w) PROVE ControlOK'
  <2>1. WorkerControl(w)'
    BY <1>19 DEF FinishMain, Retire, WorkerControl, HoldsTask, Executing,
       WorkerPoint, TypeOK, ControlOK, Goto, At, Procs
  <2>2. QED
    BY <1>19, <2>1, WorkerFrame DEF FinishMain, Retire, TypeOK, WorkerPoint,
       Procs
<1>20. ASSUME NEW w \in Workers, StopWorker(w) PROVE ControlOK'
  <2>1. WorkerControl(w)'
    BY <1>20 DEF StopWorker, StashPut, WorkerControl, HoldsTask, Executing,
       WorkerPoint, TypeOK, ControlOK, Goto, At, Procs
  <2>2. QED
    BY <1>20, <2>1, WorkerFrame DEF StopWorker, StashPut, TypeOK, WorkerPoint,
       Procs
<1>21. ASSUME NEW w \in Workers, Yield(w) PROVE ControlOK'
  <2>1. WorkerControl(w)'
    BY <1>21 DEF Yield, WorkerControl, HoldsTask, Executing, WorkerPoint,
       TypeOK, ControlOK, Goto, At, Procs
  <2>2. QED
    BY <1>21, <2>1, WorkerFrame DEF Yield, TypeOK, WorkerPoint, Procs
<1>22. ASSUME NEW w \in Workers, PinTask(w) PROVE ControlOK'
  <2>1. currentTask[w] \notin Threads
    BY DEF ControlOK, WorkerControl
  <2>2. pin' = [pin EXCEPT ![currentTask[w]] = w] /\ w \notin Threads
    BY <1>22 DEF PinTask, Tasks, Procs
  <2>3. UNCHANGED <<pc, currentTask, suspendingTask, unowned>>
    BY <1>22 DEF PinTask
  <2>4. QED
    BY <2>1, <2>2, <2>3, RepinFrame
<1>23. ASSUME NEW w \in Workers, UnpinTask(w) PROVE ControlOK'
  <2>1. currentTask[w] \notin Threads
    BY DEF ControlOK, WorkerControl
  <2>2. pin' = [pin EXCEPT ![currentTask[w]] = NoPin] /\ NoPin \notin Threads
    BY <1>23 DEF UnpinTask, Tasks, Procs
  <2>3. UNCHANGED <<pc, currentTask, suspendingTask, unowned>>
    BY <1>23 DEF UnpinTask
  <2>4. QED
    BY <2>1, <2>2, <2>3, RepinFrame
<1>24. ASSUME NEW w \in Workers, ReturnFiber(w) PROVE ControlOK'
  <2>1. WorkerControl(w)'
    BY <1>24 DEF ReturnFiber, WorkerControl, HoldsTask, Executing,
       WorkerPoint, TypeOK, ControlOK, Goto, At, Procs
  <2>2. QED
    BY <1>24, <2>1, WorkerFrame DEF ReturnFiber, TypeOK, WorkerPoint, Procs
<1>25. ASSUME NEW w \in Workers, ReturnActor(w) PROVE ControlOK'
  <2>1. WorkerControl(w)'
    BY <1>25 DEF ReturnActor, WorkerControl, HoldsTask, Executing,
       WorkerPoint, TypeOK, ControlOK, Goto, At, Procs
  <2>2. QED
    BY <1>25, <2>1, WorkerFrame DEF ReturnActor, TypeOK, WorkerPoint, Procs
<1>26. ASSUME NEW w \in Workers, FinishListening(w) PROVE ControlOK'
  <2>1. WorkerControl(w)'
    BY <1>26 DEF FinishListening, Retire, WorkerControl, HoldsTask, Executing,
       WorkerPoint, TypeOK, ControlOK, Goto, At, Procs
  <2>2. QED
    BY <1>26, <2>1, WorkerFrame DEF FinishListening, Retire, TypeOK,
       WorkerPoint, Procs
<1>27. ASSUME NEW w \in Workers, RequestStop(w) PROVE ControlOK'
  BY <1>27, ControlFrame DEF RequestStop
<1>28. ASSUME NEW th \in Threads, SuspendThread(th) \/ WakeThread(th) PROVE ControlOK'
  <2>1. PICK point \in {"run", "blocked"} : Goto(th, point)
    BY <1>28 DEF SuspendThread, WakeThread
  <2>2. UNCHANGED <<currentTask, suspendingTask, unowned, pin>>
    BY <1>28 DEF SuspendThread, WakeThread
  <2>3. pc'[th] = point /\ Up(th) /\ point \in ThreadPoint
    BY <1>28, <2>1 DEF SuspendThread, WakeThread, At, Goto, Up, TypeOK, Procs, ThreadPoint
  <2>4. ThreadControl(th)'
    BY <2>2, <2>3 DEF ControlOK, ThreadControl, Up
  <2>5. QED
    BY <2>1, <2>2, <2>3, <2>4, ThreadFrame
<1>29. ASSUME NEW p \in Procs, NEW th \in OSThreads, SpawnThread(p, th) PROVE ControlOK'
  <2>1. Goto(th, "run") /\ pin' = [pin EXCEPT ![th] = th]
        /\ UNCHANGED <<currentTask, suspendingTask, unowned>>
    BY <1>29 DEF SpawnThread
  <2>2. pc'[th] = "run" /\ pin'[th] = th /\ th \in Threads
    BY <2>1 DEF Goto, TypeOK, Procs, Tasks
  <2>3. ThreadControl(th)'
    BY <2>2 DEF ThreadControl, Up, ThreadPoint
  <2>4. \A t \in Tasks \ {th} : pin'[t] = pin[t]
    BY <2>1 DEF TypeOK
  <2>5. QED
    BY <2>1, <2>2, <2>3, <2>4, ThreadFrame DEF ThreadPoint
<1>30. ASSUME NEW th \in OSThreads, ReturnThread(th) \/ MailProcessed(th) \/ ProcessMail(th)
       PROVE  ControlOK'
  <2>1. PICK point \in {"run", "poll"} : Goto(th, point)
    BY <1>30 DEF ReturnThread, MailProcessed, ProcessMail
  <2>2. UNCHANGED <<currentTask, suspendingTask, unowned, pin>>
    BY <1>30 DEF ReturnThread, MailProcessed, ProcessMail
  <2>3. pc'[th] = point /\ Up(th) /\ point \in ThreadPoint /\ th \in Threads
    BY <1>30, <2>1 DEF ReturnThread, MailProcessed, ProcessMail, At, Goto, Up, TypeOK,
       Procs, ThreadPoint
  <2>4. ThreadControl(th)'
    BY <2>2, <2>3 DEF ControlOK, ThreadControl, Up
  <2>5. QED
    BY <2>1, <2>2, <2>3, <2>4, ThreadFrame
<1>31. ASSUME NEW th \in OSThreads, KillThread(th) PROVE ControlOK'
  <2>1. Goto(th, "ended") /\ pin' = [pin EXCEPT ![th] = NoPin]
        /\ UNCHANGED <<currentTask, suspendingTask, unowned>>
    BY <1>31 DEF KillThread
  <2>2. pc'[th] = "ended" /\ pin'[th] = NoPin /\ th \in Threads
    BY <2>1 DEF Goto, TypeOK, Procs, Tasks
  <2>3. ThreadControl(th)'
    BY <2>2 DEF ThreadControl, Up, ThreadPoint
  <2>4. \A t \in Tasks \ {th} : pin'[t] = pin[t]
    BY <2>1 DEF TypeOK
  <2>5. QED
    BY <2>1, <2>2, <2>3, <2>4, ThreadFrame DEF ThreadPoint
<1>32. \A th \in Threads : pc[th] = "poll" => th \in OSThreads
  BY DEF ControlOK, ThreadControl
<1>33. ASSUME NEW th \in Threads, ThreadLoop(th) PROVE ControlOK'
  BY <1>28, <1>30, <1>31, <1>32, <1>33 DEF ThreadLoop, ProcessMail, EndThread, At
<1>34. QED
  BY <1>1, <1>2, <1>3, <1>4, <1>5, <1>6, <1>7, <1>8, <1>9, <1>10, <1>11,
     <1>12, <1>13, <1>14, <1>15, <1>16, <1>17, <1>18, <1>19, <1>20, <1>21,
     <1>22, <1>23, <1>24, <1>25, <1>26, <1>27, <1>29, <1>30, <1>31, <1>33
     DEF Next, WorkerLoop, ThreadCode, ThrowThread, TaskCode

-----------------------------------------------------------------------------
(* Where the tasks are, and what that says about them.                     *)
PlacementOK == PlacesOK /\ NoDoubleScheduling /\ NoTaskForgotten

(* Places are not disturbed by a step that touches none of them.           *)
LEMMA QueueFrame ==
  ASSUME UNCHANGED queue
  PROVE  (OnceInQueues => OnceInQueues') /\ \A t \in Tasks : Queued(t)' <=> Queued(t)
  BY DEF OnceInQueues, Queued

(* Nor is their uniqueness.                                                *)
LEMMA PlaceFrame ==
  ASSUME NoDoubleScheduling, NoTaskForgotten, TypeOK,
         UNCHANGED <<queue, pushes, currentTask, suspendingTask, scheduled>>
  PROVE  NoDoubleScheduling' /\ NoTaskForgotten'
<1>1. OnceInQueues' /\ \A t \in Tasks : Queued(t)' <=> Queued(t)
  BY QueueFrame DEF NoDoubleScheduling
<1>2. \A t \in Tasks : Pushed(t)' <=> Pushed(t)
  BY DEF Pushed
<1>3. OncePushed' /\ HeldNotWaiting'
  BY <1>1, <1>2 DEF TypeOK, NoDoubleScheduling, OncePushed, HeldNotWaiting, Push
<1>4. HeldOnce'
  BY DEF NoDoubleScheduling, HeldOnce
<1>5. NoTaskForgotten'
  BY <1>1, <1>2 DEF NoTaskForgotten
<1>6. QED
  BY <1>1, <1>3, <1>4, <1>5 DEF NoDoubleScheduling

(* A task that resume() may schedule is in no queue, under no push and in  *)
(* no hand: the check of status and scheduled says all that.               *)
LEMMA Nowhere ==
  ASSUME TypeOK, ControlOK, PlacementOK, NEW t \in Tasks, ~Waiting(t)
  PROVE  /\ ~Queued(t) /\ ~Pushed(t)
         /\ ~Executed(t) =>
              \A w \in Workers : currentTask[w] # t /\ suspendingTask[w] # t
<1>1. ~Queued(t)
  BY DEF PlacementOK, PlacesOK, QueuesWait, Queued
<1>2. ~Pushed(t)
  BY DEF PlacementOK, PlacesOK, PushesWait, Pushed
<1>3. QED
  BY <1>1, <1>2 DEF PlacementOK, PlacesOK, WorkerPlaces

(* Scheduling one task that was nowhere keeps every task in one place.     *)
LEMMA PushStep ==
  ASSUME TypeOK, PlacementOK, NEW t \in Tasks, ~Queued(t), ~Pushed(t),
         UNCHANGED queue, pushes \subseteq pushes', pushes' \subseteq Push,
         \A u \in Tasks \ {t} : status'[u] = status[u]
           /\ scheduled'[u] = scheduled[u],
         \A r \in pushes' \ pushes : r.task = t /\ Waiting(t)',
         \A r, s \in pushes' \ pushes : r = s
  PROVE  /\ QueuesWait' /\ PushesWait' /\ OnceInQueues' /\ OncePushed'
         /\ \A u \in Tasks : Queued(u)' <=> Queued(u)
         /\ \A u \in Tasks \ {t} : Pushed(u)' <=> Pushed(u)
<1>1. OnceInQueues' /\ \A u \in Tasks : Queued(u)' <=> Queued(u)
  BY QueueFrame DEF PlacementOK, NoDoubleScheduling
<1>2. QueuesWait'
  BY DEF PlacementOK, PlacesOK, QueuesWait, Waiting, Queued, TypeOK
<1>3. \A u \in Tasks \ {t} : Pushed(u)' <=> Pushed(u)
  BY DEF Pushed, Push, TypeOK
<1>4. PushesWait'
  <2>1. \A r \in pushes : r.task # t /\ r.task \in Tasks
    BY DEF Pushed, TypeOK, Push
  <2>2. QED
    BY <2>1 DEF PlacementOK, PlacesOK, PushesWait, Waiting
<1>5. OncePushed'
  <2>1. \A r \in pushes : r.task # t /\ r.task \in Tasks
    BY DEF Pushed, TypeOK, Push
  <2>2. QED
    BY <1>1, <2>1 DEF PlacementOK, NoDoubleScheduling, OncePushed
<1>6. QED
  BY <1>1, <1>2, <1>3, <1>4, <1>5

(* q is what is left of s without its element k, the later ones moved by   *)
(* d.                                                                      *)
Removed(s, q, k, d) ==
  /\ Len(q) = Len(s) - 1
  /\ \A i \in 1 .. Len(q) : i + d \in 1 .. Len(s) /\ i + d # k /\ q[i] = s[i + d]
  /\ \A i \in 1 .. Len(s) : i = k \/ \E j \in 1 .. Len(q) : q[j] = s[i]

(* One queue becomes q and the others stay.                                *)
QueueReplaced(v, c, q) == queue' = [queue EXCEPT ![v][c] = q]

(* The owner of a queue removes its first element,                         *)
LEMMA RemoveHead ==
  ASSUME NEW s \in Seq(Tasks), s # << >>
  PROVE  Removed(s, Tail(s), 1, 1) /\ 1 \in 1 .. Len(s)
<1>1. Len(Tail(s)) = Len(s) - 1 /\ Len(s) \in Nat /\ Len(s) # 0
  OBVIOUS
<1>2. \A i \in 1 .. Len(Tail(s)) : Tail(s)[i] = s[i + 1]
  OBVIOUS
<1>3. ASSUME NEW i \in 1 .. Len(s), i # 1
      PROVE  \E j \in 1 .. Len(Tail(s)) : Tail(s)[j] = s[i]
  <2>1. i - 1 \in 1 .. Len(Tail(s)) /\ (i - 1) + 1 = i
    BY <1>1, <1>3
  <2>2. Tail(s)[i - 1] = s[(i - 1) + 1]
    BY <1>2, <2>1
  <2>3. QED
    BY <2>1, <2>2
<1>4. QED
  BY <1>1, <1>2, <1>3 DEF Removed

(* a thief its last one.                                                   *)
LEMMA RemoveLast ==
  ASSUME NEW s \in Seq(Tasks), s # << >>
  PROVE  Removed(s, DropLast(s), Len(s), 0) /\ Len(s) \in 1 .. Len(s)
<1>1. Len(s) \in Nat /\ Len(s) # 0
  OBVIOUS
<1>4. Len(DropLast(s)) = Len(s) - 1
  <2>1. \A i \in 1 .. Len(s) - 1 : s[i] \in Tasks
    BY <1>1
  <2>2. PICK n \in Int : n = Len(s) - 1 /\ 1 \in Int
    BY <1>1
  <2>3. Len(SubSeq(s, 1, n)) = IF 1 <= n THEN n - 1 + 1 ELSE 0
    <3>1. \A i \in 1 .. n : s[i] \in Tasks
      BY <2>1, <2>2
    <3>2. QED
      BY <2>2, <3>1, SubSeqProperties
  <2>4. QED
    BY <1>1, <2>2, <2>3 DEF DropLast
<1>2. \A i \in 1 .. Len(s) - 1 : DropLast(s)[i] = s[i]
  BY DEF DropLast
<1>3. QED
  BY <1>1, <1>2, <1>4 DEF Removed

(* The positions of a queue, and the task at one of them.                  *)
Slots(w, c) == 1 .. Len(queue[w][c])
Slot(w, c, i) == queue[w][c][i]

(* A task has one position in one queue.                                   *)
LEMMA SlotDistinct ==
  ASSUME PlacementOK, NEW x \in Workers, NEW y \in Workers, NEW e \in Priority,
         NEW f \in Priority,
         NEW i \in Slots(x, e), NEW j \in Slots(y, f), Slot(x, e, i) = Slot(y, f, j)
  PROVE  x = y /\ e = f /\ i = j
  BY DEF PlacementOK, NoDoubleScheduling, OnceInQueues, Slots, Slot

(* Moving a task from a queue into the hands of a worker that holds none   *)
(* keeps every task in one place.                                          *)
LEMMA TakeStep ==
  ASSUME TypeOK, ControlOK, PlacementOK, NEW v \in Workers, NEW w \in Workers,
         NEW c \in Priority,
         currentTask[w] = NoTask,
         UNCHANGED <<status, scheduled, pushes, suspendingTask, resumed>>,
         NEW d \in {0, 1}, NEW k \in 1 .. Len(queue[v][c]), NEW q \in Seq(Tasks),
         Removed(queue[v][c], q, k, d),
         QueueReplaced(v, c, q),
         NEW t \in Tasks, t = queue[v][c][k],
         currentTask' = [currentTask EXCEPT ![w] = t],
         Goto(w, "picked")
  PROVE  PlacementOK'
<1>0. Queued(t) /\ Waiting(t)
  BY DEF TypeOK, PlacementOK, PlacesOK, QueuesWait, Queued
<1>1. \A x \in Workers, e \in Priority : ~(x = v /\ e = c) =>
        queue'[x][e] = queue[x][e]
  BY DEF TypeOK, QueueReplaced
<1>2. queue'[v][c] = q
  BY DEF TypeOK, QueueReplaced
<1>18. /\ queue \in [Workers -> [Priority -> Seq(Tasks)]]
       /\ queue' \in [Workers -> [Priority -> Seq(Tasks)]]
  BY DEF TypeOK, QueueReplaced
<1>3. ASSUME NEW x \in Workers, NEW e \in Priority, NEW i \in Slots(x, e)'
      PROVE  /\ i \in Nat
             /\ \E j \in Slots(x, e) :
                  /\ Slot(x, e, i)' = Slot(x, e, j)
                  /\ x = v /\ e = c => j = i + d /\ j # k
                  /\ ~(x = v /\ e = c) => j = i
  <2>0. i \in Nat
    BY <1>18 DEF Slots
  <2>1. CASE x = v /\ e = c
    <3>1. i \in 1 .. Len(q)
      BY <1>2, <2>1 DEF Slots
    <3>2. i + d \in 1 .. Len(queue[v][c]) /\ i + d # k /\ q[i] = queue[v][c][i + d]
      BY <3>1 DEF Removed
    <3>3. QED
      BY <1>2, <2>0, <2>1, <3>2 DEF Slots, Slot
  <2>2. CASE ~(x = v /\ e = c)
    BY <1>1, <2>0, <2>2 DEF Slots, Slot
  <2>3. QED
    BY <2>1, <2>2
<1>4. OnceInQueues'
  <2> SUFFICES ASSUME NEW x \in Workers, NEW y \in Workers, NEW e \in Priority,
  NEW f \in Priority,
                 NEW i \in Slots(x, e)', NEW j \in Slots(y, f)',
                 Slot(x, e, i)' = Slot(y, f, j)'
               PROVE  x = y /\ e = f /\ i = j
    BY DEF OnceInQueues, Slots, Slot
  <2>1. PICK m \in Slots(x, e) :
          /\ Slot(x, e, i)' = Slot(x, e, m)
          /\ x = v /\ e = c => m = i + d
          /\ ~(x = v /\ e = c) => m = i
    BY <1>3
  <2>2. PICK n \in Slots(y, f) :
          /\ Slot(y, f, j)' = Slot(y, f, n)
          /\ y = v /\ f = c => n = j + d
          /\ ~(y = v /\ f = c) => n = j
    BY <1>3
  <2>3. x = y /\ e = f /\ m = n
    <3>1. Slot(x, e, m) = Slot(y, f, n)
      BY <2>1, <2>2
    <3> QED BY <3>1, SlotDistinct
  <2>4. i \in Nat /\ j \in Nat
    BY <1>3
  <2>5. QED
    BY <2>1, <2>2, <2>3, <2>4
<1>5. QueuesWait'
  <2>1. ASSUME NEW x \in Workers, NEW e \in Priority, NEW i \in Slots(x, e)'
        PROVE  \E j \in Slots(x, e) : Slot(x, e, i)' = Slot(x, e, j)
    BY <1>3
  <2>2. ASSUME NEW x \in Workers, NEW e \in Priority, NEW j \in Slots(x, e)
        PROVE  Waiting(Slot(x, e, j))
    BY DEF PlacementOK, PlacesOK, QueuesWait, Slots, Slot
  <2>3. ASSUME NEW x \in Workers, NEW e \in Priority, NEW i \in Slots(x, e)',
        NEW u, u = Slot(x, e, i)'
        PROVE  Waiting(u)'
    BY <2>1, <2>2, <2>3 DEF Waiting
  <2>4. QED
    BY <2>3 DEF QueuesWait, Waiting, Slots, Slot
<1>6. \A u \in Tasks : Queued(u)' => Queued(u)
  <2> SUFFICES ASSUME NEW u \in Tasks, NEW x \in Workers, NEW e \in Priority,
                 NEW i \in Slots(x, e)', Slot(x, e, i)' = u
               PROVE  \E j \in Slots(x, e) : Slot(x, e, j) = u
    BY DEF Queued, Slots, Slot
  <2> QED BY <1>3
<1>7. ~Queued(t)'
  <2> SUFFICES ASSUME NEW x \in Workers, NEW e \in Priority, NEW i \in Slots(x, e)',
                 Slot(x, e, i)' = t
               PROVE  FALSE
    BY DEF Queued, Slots, Slot
  <2>1. PICK m \in Slots(x, e) :
          /\ Slot(x, e, i)' = Slot(x, e, m)
          /\ x = v /\ e = c => m # k
    BY <1>3
  <2>2. k \in Slots(v, c) /\ t = Slot(v, c, k)
    BY DEF Slots, Slot
  <2>3. x = v /\ e = c /\ m = k
    <3>1. Slot(x, e, m) = Slot(v, c, k)
      BY <2>1, <2>2
    <3>2. \A j \in Slots(v, c) :
            Slot(x, e, m) = Slot(v, c, j) => x = v /\ e = c /\ m = j
      BY <2>1, SlotDistinct
    <3> QED BY <2>2, <3>1, <3>2
  <2>4. QED
    BY <2>1, <2>3
<1>8. \A u \in Tasks \ {t} : Queued(u) => Queued(u)'
  <2> SUFFICES ASSUME NEW u \in Tasks \ {t}, NEW x \in Workers, NEW e \in Priority,
                 NEW i \in Slots(x, e), Slot(x, e, i) = u
               PROVE  \E j \in Slots(x, e)' : Slot(x, e, j)' = u
    BY DEF Queued, Slots, Slot
  <2>1. CASE x = v /\ e = c
    <3>1. i # k
      BY <2>1 DEF Slot
    <3>2. \E j \in 1 .. Len(q) : q[j] = queue[v][c][i]
      BY <2>1, <3>1 DEF Removed, Slots
    <3>3. QED
      BY <1>2, <2>1, <3>2 DEF Slots, Slot
  <2>2. CASE ~(x = v /\ e = c)
    BY <1>1, <2>2 DEF Slots, Slot
  <2>3. QED
    BY <2>1, <2>2
<1>9. \A u \in Tasks : Pushed(u)' <=> Pushed(u)
  BY DEF Pushed
<1>10. ~Pushed(t) /\ \A x \in Workers : currentTask[x] # t /\ suspendingTask[x] # t
  BY <1>0 DEF PlacementOK, PlacesOK, NoDoubleScheduling, OncePushed,
     HeldNotWaiting, WorkerPlaces, Waiting, Executed, Pushed
<1>11. \A x \in Workers : currentTask'[x] = IF x = w THEN t ELSE currentTask[x]
  BY DEF TypeOK
<1>12. OncePushed' /\ HeldNotWaiting' /\ HeldOnce'
  <2>1. OncePushed'
    BY <1>6 DEF PlacementOK, NoDoubleScheduling, OncePushed, TypeOK, Push
  <2>2. HeldNotWaiting'
    <3>1. ASSUME NEW x \in Workers, NEW y \in Tasks, y = currentTask'[x]
          PROVE  ~Queued(y)' /\ ~Pushed(y)'
      BY <1>0, <1>6, <1>7, <1>9, <1>10, <1>11, <3>1 DEF PlacementOK,
         NoDoubleScheduling, HeldNotWaiting
    <3>2. \A x \in Workers : currentTask'[x] \in Tasks \union {NoTask}
      BY <1>11 DEF TypeOK
    <3> QED BY <3>1, <3>2 DEF HeldNotWaiting, Queued, Pushed
  <2>3. HeldOnce'
    BY <1>10, <1>11 DEF PlacementOK, NoDoubleScheduling, HeldOnce
  <2>4. QED
    BY <2>1, <2>2, <2>3
<1>13. NoTaskForgotten'
  BY <1>8, <1>9, <1>11 DEF PlacementOK, NoTaskForgotten
<1>14. PushesWait'
  BY DEF PlacementOK, PlacesOK, PushesWait, Waiting
<1>15. ASSUME NEW x \in Workers PROVE WorkerPlaces(x)'
  BY SMTT(40), <1>0, <1>11 DEF PlacementOK, PlacesOK, WorkerPlaces, Waiting, Executed,
     Picked, PickPoints, Executing, Goto, TypeOK, Procs
<1>16. ASSUME NEW th \in Threads PROVE ThreadPlaces(th)'
  BY DEF PlacementOK, PlacesOK, ThreadPlaces, Goto, TypeOK, Procs, Tasks
<1>17. QED
  BY <1>4, <1>5, <1>12, <1>13, <1>14, <1>15, <1>16 DEF PlacementOK, PlacesOK,
     NoDoubleScheduling

(* push_front puts the task first and moves the others up by one.          *)
LEMMA PushFrontIndex ==
  ASSUME NEW s \in Seq(Tasks), NEW t \in Tasks
  PROVE  /\ PushFront(s, t) \in Seq(Tasks)
         /\ Len(PushFront(s, t)) = Len(s) + 1
         /\ PushFront(s, t)[1] = t
         /\ \A i \in 1 .. Len(s) : PushFront(s, t)[i + 1] = s[i]
         /\ \A i \in 2 .. Len(s) + 1 : PushFront(s, t)[i] = s[i - 1]
  BY DEF PushFront

(* The push that resume() decided on moves the task into its queue, and    *)
(* nothing is ever lost between the spinlock and the mutex.                *)
LEMMA FinishPushStep ==
  ASSUME TypeOK, ControlOK, PlacementOK, NEW p \in Procs, FinishPush(p)
  PROVE  PlacementOK'
<1>1. PICK r \in pushes :
        /\ queue' = [queue EXCEPT ![r.at][r.class] = PushFront(@, r.task)]
        /\ pushes' = pushes \ {r}
  BY DEF FinishPush
<1>2. PICK t \in Tasks, v \in Workers, c \in Priority : t = r.task /\ v = r.at
        /\ c = r.class
  BY DEF TypeOK, Push
<1>3. PICK s \in Seq(Tasks) : s = queue[v][c]
  BY DEF TypeOK
<1>4. /\ queue'[v][c] = PushFront(s, t)
      /\ \A x \in Workers, e \in Priority : ~(x = v /\ e = c) =>
           queue'[x][e] = queue[x][e]
  BY <1>1, <1>2, <1>3 DEF TypeOK
<1>5. Pushed(t) /\ ~Queued(t) /\ Waiting(t) /\ \A x \in Workers : currentTask[x] # t
  BY <1>1, <1>2 DEF Pushed, PlacementOK, PlacesOK, PushesWait,
     NoDoubleScheduling, OncePushed, HeldNotWaiting
<1>6. ~Pushed(t)' /\ \A u \in Tasks \ {t} : Pushed(u)' <=> Pushed(u)
  BY <1>1, <1>2 DEF Pushed, PlacementOK, NoDoubleScheduling, OncePushed, TypeOK,
     Push
<1>7. UNCHANGED <<status, scheduled, currentTask, suspendingTask, pc, resumed>>
  BY DEF FinishPush, lockedVars, loopVars
<1>20. 1 \in Slots(v, c)' /\ Slot(v, c, 1)' = t
  <2>1. PushFront(s, t) \in Seq(Tasks) /\ Len(PushFront(s, t)) \in Nat \ {0}
    BY PushFrontIndex
  <2>2. QED
    BY <1>4, <2>1, PushFrontIndex DEF Slots, Slot
<1>8. ASSUME NEW x \in Workers, NEW e \in Priority, NEW i \in Slots(x, e)'
      PROVE  /\ i \in Nat
             /\ \/ x = v /\ e = c /\ i = 1 /\ Slot(x, e, i)' = t
                \/ \E j \in Slots(x, e) :
                     /\ Slot(x, e, i)' = Slot(x, e, j)
                     /\ x = v /\ e = c => i = j + 1
                     /\ ~(x = v /\ e = c) => i = j
  <2>1. CASE x = v /\ e = c
    <3>1. i \in 1 .. Len(s) + 1
      BY <1>4, <2>1, PushFrontIndex DEF Slots
    <3>2. CASE i = 1
      BY <1>20, <2>1, <3>2
    <3>3. CASE i # 1
      <4>1. i \in 2 .. Len(s) + 1 /\ i - 1 \in 1 .. Len(s)
        BY <3>1, <3>3
      <4>2. PushFront(s, t)[i] = s[i - 1]
        BY <4>1, PushFrontIndex
      <4>3. QED
        BY <1>3, <1>4, <2>1, <4>1, <4>2 DEF Slots, Slot
    <3>4. QED
      BY <3>2, <3>3
  <2>2. CASE ~(x = v /\ e = c)
    <3>1. queue'[x][e] = queue[x][e]
      BY <1>4, <2>2
    <3>2. Slots(x, e)' = Slots(x, e) /\ Slot(x, e, i)' = Slot(x, e, i)
      BY <3>1 DEF Slots, Slot
    <3>3. Slots(x, e) \subseteq Nat
      BY DEF Slots
    <3>4. QED
      BY <2>2, <3>2, <3>3
  <2>3. QED
    BY <2>1, <2>2
<1>9. OnceInQueues'
  <2> SUFFICES ASSUME NEW x \in Workers, NEW y \in Workers, NEW e \in Priority,
  NEW f \in Priority,
                 NEW i \in Slots(x, e)', NEW j \in Slots(y, f)',
                 Slot(x, e, i)' = Slot(y, f, j)'
               PROVE  x = y /\ e = f /\ i = j
    BY DEF OnceInQueues, Slots, Slot
  <2>0. \A z \in Workers, g \in Priority : \A m \in Slots(z, g) : Slot(z, g, m) # t
    BY <1>5 DEF Queued, Slots, Slot
  <2>1. CASE Slot(x, e, i)' = t
    <3>1. x = v /\ e = c /\ i = 1
      BY <1>8, <2>0, <2>1
    <3>4. Slot(y, f, j)' = t
      BY <2>1
    <3>2. y = v /\ f = c /\ j = 1
      BY <1>8, <2>0, <3>4
    <3>3. QED
      BY <3>1, <3>2
  <2>2. CASE Slot(x, e, i)' # t
    <3>1. PICK m \in Slots(x, e) :
            /\ Slot(x, e, i)' = Slot(x, e, m)
            /\ x = v /\ e = c => i = m + 1
            /\ ~(x = v /\ e = c) => i = m
      BY <1>8, <2>2
    <3>2. PICK n \in Slots(y, f) :
            /\ Slot(y, f, j)' = Slot(y, f, n)
            /\ y = v /\ f = c => j = n + 1
            /\ ~(y = v /\ f = c) => j = n
      BY <1>8, <2>2
    <3>3. x = y /\ e = f /\ m = n
      <4>1. Slot(x, e, m) = Slot(y, f, n)
        BY <3>1, <3>2
      <4> QED BY <4>1, SlotDistinct
    <3>4. QED
      BY <3>1, <3>2, <3>3
  <2>3. QED
    BY <2>1, <2>2
<1>10. QueuesWait'
  <2>1. ASSUME NEW x \in Workers, NEW e \in Priority, NEW j \in Slots(x, e)
        PROVE  Waiting(Slot(x, e, j))
    BY DEF PlacementOK, PlacesOK, QueuesWait, Slots, Slot
  <2>2. ASSUME NEW x \in Workers, NEW e \in Priority, NEW i \in Slots(x, e)',
        NEW u, u = Slot(x, e, i)'
        PROVE  Waiting(u)'
    BY <1>5, <1>7, <1>8, <2>1, <2>2 DEF Waiting
  <2>3. QED
    BY <2>2 DEF QueuesWait, Waiting, Slots, Slot
<1>11. \A u \in Tasks \ {t} : Queued(u)' => Queued(u)
  <2> SUFFICES ASSUME NEW u \in Tasks \ {t}, NEW x \in Workers, NEW e \in Priority,
                 NEW i \in Slots(x, e)', Slot(x, e, i)' = u
               PROVE  \E j \in Slots(x, e) : Slot(x, e, j) = u
    BY DEF Queued, Slots, Slot
  <2> QED BY <1>8
<1>12. \A u \in Tasks : Queued(u) => Queued(u)'
  <2> SUFFICES ASSUME NEW u \in Tasks, NEW x \in Workers, NEW e \in Priority,
                 NEW i \in Slots(x, e), Slot(x, e, i) = u
               PROVE  \E j \in Slots(x, e)' : Slot(x, e, j)' = u
    BY DEF Queued, Slots, Slot
  <2>1. CASE x = v /\ e = c
    <3>1. i \in 1 .. Len(s) /\ i + 1 \in 1 .. Len(s) + 1
      BY <1>3, <2>1 DEF Slots
    <3>2. PushFront(s, t)[i + 1] = s[i]
      BY <3>1, PushFrontIndex
    <3>3. i + 1 \in Slots(x, e)'
      BY <1>4, <2>1, <3>1, PushFrontIndex DEF Slots
    <3>4. Slot(x, e, i + 1)' = u
      BY <1>3, <1>4, <2>1, <3>2 DEF Slot
    <3>5. QED
      BY <3>3, <3>4
  <2>2. CASE ~(x = v /\ e = c)
    BY <1>4, <2>2 DEF Slots, Slot
  <2>3. QED
    BY <2>1, <2>2
<1>13. Queued(t)'
  BY <1>20 DEF Queued, Slots, Slot
<1>14. OncePushed' /\ HeldNotWaiting' /\ HeldOnce'
  <2>1. OncePushed'
    <3>1. ASSUME NEW q \in pushes', NEW u \in Tasks, u = q.task
          PROVE  ~Queued(u)' /\ \A z \in pushes' : u = z.task => q = z
      <4>1. u # t
        BY <1>6, <3>1 DEF Pushed
      <4>2. QED
        BY <1>1, <1>11, <3>1, <4>1 DEF PlacementOK, NoDoubleScheduling, OncePushed
    <3>2. \A q \in pushes' : q.task \in Tasks
      BY <1>1 DEF TypeOK, Push
    <3>3. QED
      BY <3>1, <3>2 DEF OncePushed, Queued
  <2>2. HeldNotWaiting'
    <3>1. ASSUME NEW x \in Workers, NEW u \in Tasks, u = currentTask[x]
          PROVE  ~Queued(u)' /\ ~Pushed(u)'
      BY <1>5, <1>6, <1>11, <3>1 DEF PlacementOK, NoDoubleScheduling, HeldNotWaiting
    <3>2. \A x \in Workers : currentTask'[x] \in Tasks \union {NoTask}
      BY <1>7 DEF TypeOK
    <3>3. QED
      BY <1>7, <3>1, <3>2 DEF HeldNotWaiting, Queued, Pushed
  <2>3. HeldOnce'
    BY <1>7 DEF PlacementOK, NoDoubleScheduling, HeldOnce
  <2>4. QED
    BY <2>1, <2>2, <2>3
<1>15. NoTaskForgotten'
  BY <1>6, <1>7, <1>12, <1>13 DEF PlacementOK, NoTaskForgotten
<1>16. PushesWait'
  BY <1>1, <1>7 DEF PlacementOK, PlacesOK, PushesWait, Waiting
<1>17. ASSUME NEW x \in Workers PROVE WorkerPlaces(x)'
  BY <1>7 DEF PlacementOK, PlacesOK, WorkerPlaces, Waiting, Executed, Picked
<1>18. ASSUME NEW th \in Threads PROVE ThreadPlaces(th)'
  BY <1>7 DEF PlacementOK, PlacesOK, ThreadPlaces
<1>19. QED
  BY <1>9, <1>10, <1>14, <1>15, <1>16, <1>17, <1>18 DEF PlacementOK, PlacesOK,
     NoDoubleScheduling

(* Dequeuing from the own queue keeps every task in one place.             *)
LEMMA DequeueStep ==
  ASSUME TypeOK, ControlOK, PlacementOK, NEW w \in Workers, Dequeue(w)
  PROVE  PlacementOK'
<1>1. PICK c \in Priority : c = ScanClass(w)
  BY ScanType
<1>2. PICK s \in Seq(Tasks) : s = queue[w][c] /\ s # << >>
  BY <1>1 DEF TypeOK, Dequeue, CanDequeue
<1>3. Removed(queue[w][c], Tail(s), 1, 1) /\ 1 \in 1 .. Len(queue[w][c])
        /\ Tail(s) \in Seq(Tasks)
  BY <1>2, RemoveHead, QueueType
<1>4. QueueReplaced(w, c, Tail(s))
        /\ UNCHANGED <<status, scheduled, pushes, suspendingTask, resumed>>
  BY <1>1, <1>2 DEF Dequeue, QueueReplaced, lockedVars, TypeOK
<1>5. PICK t \in Tasks : t = queue[w][c][1]
        /\ currentTask' = [currentTask EXCEPT ![w] = t]
  <2>1. Head(s) \in Tasks /\ Head(s) = s[1]
    BY <1>2
  <2>2. QED
    BY <1>1, <1>2, <2>1 DEF Dequeue
<1>6. currentTask[w] = NoTask /\ Goto(w, "picked")
  BY DEF Dequeue, At, ControlOK, WorkerControl
<1>7. QED
  BY <1>3, <1>4, <1>5, <1>6, TakeStep

(* So does stealing from the back of another queue.                        *)
LEMMA StealStep ==
  ASSUME TypeOK, ControlOK, PlacementOK, NEW w \in Workers, Steal(w)
  PROVE  PlacementOK'
<1>1. PICK c \in Priority : c = ScanClass(w)
  BY ScanType
<1>2. PICK v \in Workers :
        /\ CanDequeue(w, v, c)
        /\ currentTask' = [currentTask EXCEPT ![w] = Last(queue[v][c])]
        /\ queue' = [queue EXCEPT ![v][c] = DropLast(queue[v][c])]
  BY <1>1, ScanType DEF Steal
<1>3. PICK s \in Seq(Tasks) : s = queue[v][c] /\ s # << >>
  BY <1>2 DEF TypeOK, CanDequeue
<1>4. /\ Removed(queue[v][c], DropLast(s), Len(s), 0)
      /\ Len(s) \in 1 .. Len(queue[v][c]) /\ DropLast(s) \in Seq(Tasks)
  BY <1>3, RemoveLast, QueueType
<1>5. QueueReplaced(v, c, DropLast(s))
        /\ UNCHANGED <<status, scheduled, pushes, suspendingTask, resumed>>
  BY <1>2, <1>3 DEF Steal, QueueReplaced, lockedVars
<1>6. PICK t \in Tasks : t = queue[v][c][Len(s)]
        /\ currentTask' = [currentTask EXCEPT ![w] = t]
  BY <1>2, <1>3, QueueType DEF Last
<1>7. currentTask[w] = NoTask /\ Goto(w, "picked")
  BY DEF Steal, At, ControlOK, WorkerControl
<1>8. QED
  BY <1>4, <1>5, <1>6, <1>7, TakeStep

(* Only program points and unrelated variables change.                     *)
LEMMA PlacementFrame ==
  ASSUME TypeOK, PlacementOK,
         UNCHANGED <<status, scheduled, queue, pushes, currentTask,
         suspendingTask>>,
         \A v \in Workers : WorkerPlaces(v)', \A th \in Threads : ThreadPlaces(th)'
  PROVE  PlacementOK'
<1>1. NoDoubleScheduling' /\ NoTaskForgotten'
  BY PlaceFrame DEF PlacementOK
<1>2. (QueuesWait /\ PushesWait)'
  BY DEF PlacementOK, PlacesOK, QueuesWait, PushesWait, Waiting
<1>3. QED
  BY <1>1, <1>2 DEF PlacementOK, PlacesOK

(* One task changes its state in the hands of at most one worker, and may  *)
(* be pushed.                                                              *)
LEMMA OneTaskStep ==
  ASSUME TypeOK, PlacementOK, NEW t \in Tasks, ~Queued(t), ~Pushed(t),
         UNCHANGED queue, pushes \subseteq pushes', pushes' \subseteq Push,
         \A u \in Tasks \ {t} : status'[u] = status[u]
           /\ scheduled'[u] = scheduled[u],
         \A r \in pushes' \ pushes : r.task = t /\ Waiting(t)',
         \A r, s \in pushes' \ pushes : r = s,
         \A v \in Workers : currentTask'[v] \in {currentTask[v], NoTask},
         \A v \in Workers : suspendingTask'[v] \in {suspendingTask[v], NoTask},
         \A u \in Tasks \ {t} : (\E v \in Workers : currentTask[v] = u)
                                  => (\E v \in Workers : currentTask'[v] = u),
         (\E v \in Workers : currentTask'[v] = t) => pushes' = pushes,
         scheduled'[t] =>
           (\E r \in pushes' : r.task = t) \/ (\E v \in Workers :
             currentTask'[v] = t),
         \A v \in Workers : WorkerPlaces(v)', \A th \in Threads : ThreadPlaces(th)'
  PROVE  PlacementOK'
<1>1. /\ QueuesWait' /\ PushesWait' /\ OnceInQueues' /\ OncePushed'
      /\ \A u \in Tasks : Queued(u)' <=> Queued(u)
      /\ \A u \in Tasks \ {t} : Pushed(u)' <=> Pushed(u)
  BY PushStep
<1>2. HeldNotWaiting'
  <2>1. ASSUME NEW x \in Workers, NEW u \in Tasks, u = currentTask'[x]
        PROVE  ~Queued(u)' /\ ~Pushed(u)'
    <3>1. u = currentTask[x]
      BY <2>1
    <3>2. ~Queued(u) /\ ~Pushed(u)
      BY <3>1 DEF PlacementOK, NoDoubleScheduling, HeldNotWaiting
    <3>3. CASE u = t
      <4>1. ~Pushed(u)'
        BY <2>1, <3>2, <3>3 DEF Pushed
      <4>2. QED
        BY <1>1, <3>2, <4>1
    <3>4. CASE u # t
      BY <1>1, <3>2, <3>4
    <3>5. QED
      BY <3>3, <3>4
  <2>2. \A x \in Workers : currentTask'[x] \in Tasks \union {NoTask}
    BY DEF TypeOK
  <2>3. QED
    BY <2>1, <2>2 DEF HeldNotWaiting, Queued, Pushed
<1>3. HeldOnce'
  BY DEF PlacementOK, NoDoubleScheduling, HeldOnce
<1>4. NoTaskForgotten'
  <2>1. ASSUME NEW u \in Tasks, scheduled'[u]
        PROVE  Queued(u)' \/ Pushed(u)' \/ \E w \in Workers : currentTask'[w] = u
    <3>1. CASE u = t
      BY <2>1, <3>1 DEF Pushed
    <3>2. CASE u # t
      BY <1>1, <2>1, <3>2 DEF PlacementOK, NoTaskForgotten
    <3>3. QED
      BY <3>1, <3>2
  <2>2. QED
    BY <2>1 DEF NoTaskForgotten
<1>5. QED
  BY <1>1, <1>2, <1>3, <1>4 DEF PlacementOK, PlacesOK, NoDoubleScheduling

(* What a worker knows of its tasks is not disturbed by a change of        *)
(* another task.                                                           *)
LEMMA WorkerKeeps ==
  ASSUME TypeOK, ControlOK, PlacementOK, NEW v \in Workers, NEW t \in Tasks,
         currentTask[v] # t, suspendingTask[v] # t,
         currentTask'[v] = currentTask[v],
         suspendingTask'[v] = suspendingTask[v], pc'[v] = pc[v],
         \A u \in Tasks \ {t} : status'[u] = status[u]
           /\ scheduled'[u] = scheduled[u]
  PROVE  WorkerPlaces(v)'
<1>1. currentTask[v] \in (Tasks \ {t}) \union {NoTask}
        /\ suspendingTask[v] \in (Tasks \ {t}) \union {NoTask}
  BY DEF TypeOK
<1>2. CASE currentTask[v] = NoTask
  BY <1>1, <1>2 DEF PlacementOK, PlacesOK, WorkerPlaces, Executed, Executing,
     Picked, ControlOK, WorkerControl, HoldsTask
<1>3. CASE currentTask[v] # NoTask
  <2>1. status'[currentTask[v]] = status[currentTask[v]]
          /\ scheduled'[currentTask[v]] = scheduled[currentTask[v]]
    BY <1>1, <1>3
  <2>2. QED
    BY <1>1, <1>3, <2>1 DEF PlacementOK, PlacesOK, WorkerPlaces, Waiting,
       Executed, Picked
<1>4. QED
  BY <1>2, <1>3

(* The task of a thread that was started, if a resume finds it at all, is  *)
(* pinned to its thread.                                                   *)
LEMMA PinnedThread ==
  ASSUME ControlOK, PlacesOK, NEW t \in Threads, pc[t] # "new", Resumable(t)
  PROVE  pin[t] = t
<1>1. status[t] # "Dead"
  BY DEF Resumable
<1>2. pc[t] # "ended"
  BY <1>1 DEF PlacesOK, ThreadPlaces
<1>3. QED
  BY <1>2 DEF ControlOK, ThreadControl, Up

(* context::detail::resume keeps every task in one place, whoever calls    *)
(* it.                                                                     *)
LEMMA ResumeStep ==
  ASSUME TypeOK, ControlOK, PlacementOK, NEW p \in Procs, NEW t \in Tasks,
         t \in Threads => pc[t] # "new", ResumeTask(p, t),
         pushes' \subseteq Push, UNCHANGED <<queue, currentTask, suspendingTask,
         pc>>
  PROVE  PlacementOK'
<1> USE DEF PlacementOK
<1>1. CASE ~Resumable(t)
  <2>1. UNCHANGED <<status, scheduled, pushes, resumed>>
    BY <1>1 DEF ResumeTask
  <2>2. ASSUME NEW v \in Workers PROVE WorkerPlaces(v)'
    BY <2>1 DEF PlacesOK, WorkerPlaces, Waiting, Executed, Picked
  <2>3. ASSUME NEW th \in Threads PROVE ThreadPlaces(th)'
    BY <2>1 DEF PlacesOK, ThreadPlaces
  <2>4. QED
    BY <2>1, <2>2, <2>3, PlacementFrame
<1>2. CASE Resumable(t)
  <2>1. /\ ~Queued(t) /\ ~Pushed(t)
        /\ \A w \in Workers : currentTask[w] # t /\ suspendingTask[w] # t
    BY <1>2, Nowhere DEF Resumable, Waiting, Executed
  <2>2. CASE pin[t] \notin Threads
    <3>1. PICK w \in Workers : Schedule(p, t, w) /\ UNCHANGED <<status, resumed>>
      BY <1>2, <2>2 DEF TypeOK, ResumeTask
    <3>8. t \notin Threads
      BY <1>2, <2>2, PinnedThread
    <3>2. /\ t \notin Threads
          /\ scheduled'[t] /\ \A u \in Tasks \ {t} : scheduled'[u] = scheduled[u]
          /\ status' = status /\ resumed' = resumed
      BY <3>1, <3>8 DEF Schedule, TypeOK
    <3>3. Waiting(t)'
      BY <1>2, <3>2 DEF Waiting, Resumable
    <3>4. PICK r : r.task = t /\ pushes' = pushes \union {r}
      BY <3>1 DEF Schedule
    <3>5. ASSUME NEW v \in Workers PROVE WorkerPlaces(v)'
      BY <2>1, <3>2 DEF PlacesOK, WorkerPlaces, Waiting, Executed, Executing,
         Picked, TypeOK,
           ControlOK, WorkerControl, HoldsTask
    <3>6. ASSUME NEW th \in Threads PROVE ThreadPlaces(th)'
      BY <3>2 DEF PlacesOK, ThreadPlaces, Tasks
    <3>7. QED
      BY <2>1, <3>2, <3>3, <3>4, <3>5, <3>6, OneTaskStep
  <2>3. CASE pin[t] \in Threads
    <3>9. t \in Threads
      BY <2>3 DEF ControlOK
    <3>1. t \in Threads /\ pin[t] = t
      BY <1>2, <3>9, PinnedThread
    <3>2. /\ UNCHANGED <<scheduled, pushes>>
            /\ status' = [status EXCEPT ![t] = "Running"]
          /\ resumed' = [resumed EXCEPT ![t] = TRUE]
      BY <1>2, <2>3, <3>1 DEF ResumeTask
    <3>3. ~scheduled[t]
      BY <1>2 DEF Resumable
    <3>4. ASSUME NEW v \in Workers PROVE WorkerPlaces(v)'
      BY <2>1, <3>2 DEF PlacesOK, WorkerPlaces, Waiting, Executed, Picked, TypeOK
    <3>8. status[t] # "Dead"
      BY <1>2 DEF Resumable
    <3>5. ASSUME NEW th \in Threads PROVE ThreadPlaces(th)'
      <4>1. CASE th = t
        BY <3>2, <3>8, <4>1 DEF PlacesOK, ThreadPlaces, TypeOK, Tasks
      <4>2. CASE th # t
        BY <3>2, <4>2 DEF PlacesOK, ThreadPlaces, TypeOK, Tasks
      <4>3. QED
        BY <4>1, <4>2
    <3>6. \A u \in Tasks \ {t} : status'[u] = status[u]
      BY <3>2 DEF TypeOK
    <3>7. QED
      BY <2>1, <3>2, <3>3, <3>4, <3>5, <3>6, OneTaskStep
  <2>4. QED
    BY <2>2, <2>3
<1>3. QED
  BY <1>1, <1>2

(* The lambda that ends a suspension does, too: it requeues the task       *)
(* exactly when it was woken meanwhile.                                    *)
LEMMA FinishSuspendingStep ==
  ASSUME TypeOK, ControlOK, PlacementOK, NEW w \in Workers, FinishSuspending(w),
         pushes' \subseteq Push, UNCHANGED <<queue, currentTask, resumed>>,
         NEW point \in {"scan", "picked", "enter"}, Goto(w, point),
         point = "scan" => currentTask[w] = NoTask,
         point = "picked" => Waiting(currentTask[w]),
         point = "enter" => pc[w] = "landed"
  PROVE  PlacementOK'
<1> USE DEF PlacementOK
<1>0. \A v \in Workers : pc'[v] = IF v = w THEN point ELSE pc[v]
  BY DEF TypeOK, Goto, Procs
<1>9. ASSUME NEW th \in Threads PROVE pc'[th] = pc[th]
  BY DEF TypeOK, Goto, Procs, Tasks
<1>1. CASE suspendingTask[w] = NoTask
  <2>1. UNCHANGED <<status, scheduled, pushes, suspendingTask>>
    BY <1>1 DEF FinishSuspending
  <2>2. ASSUME NEW v \in Workers PROVE WorkerPlaces(v)'
    BY <1>0, <2>1 DEF PlacesOK, WorkerPlaces, Waiting, Executed, Executing,
       Picked, PickPoints,
         ControlOK, WorkerControl, HoldsTask
  <2>3. ASSUME NEW th \in Threads PROVE ThreadPlaces(th)'
    BY <1>9, <2>1 DEF PlacesOK, ThreadPlaces
  <2>4. QED
    BY <2>1, <2>2, <2>3, PlacementFrame
<1>2. CASE suspendingTask[w] # NoTask
  <2>1. PICK t \in Tasks : t = suspendingTask[w]
    BY <1>2 DEF TypeOK
  <2>2. Executed(t) /\ t \notin Threads
    BY <1>2, <2>1 DEF PlacesOK, WorkerPlaces, ControlOK, WorkerControl
  <2>3. ~Queued(t) /\ ~Pushed(t)
    BY <2>2, Nowhere DEF Waiting, Executed
  <2>4. \A v \in Workers : currentTask[v] # t /\ (v # w => suspendingTask[v] # t)
    BY <1>2, <2>1 DEF NoDoubleScheduling, HeldOnce
  <2>5. /\ status' = [status EXCEPT ![t] = "Suspended"]
        /\ scheduled' = [scheduled EXCEPT ![t] = woken[t]]
        /\ suspendingTask' = [suspendingTask EXCEPT ![w] = NoTask]
    BY <1>2, <2>1 DEF FinishSuspending
  <2>6. \A u \in Tasks \ {t} : status'[u] = status[u]
          /\ scheduled'[u] = scheduled[u]
    BY <2>5 DEF TypeOK
  <2>7. PICK r : r.task = t /\ pushes' = IF woken[t]
          THEN pushes \union {r} ELSE pushes
    <3>1. pushes' = IF woken[t]
            THEN pushes \union {[by |-> w, task |-> t, at |-> w, class |-> "hard"]}
                    ELSE pushes
      BY <1>2, <2>1 DEF FinishSuspending
    <3>2. QED
      BY <3>1
  <2>8. status'[t] = "Suspended" /\ scheduled'[t] = woken[t] /\ woken[t] \in BOOLEAN
    BY <2>5 DEF TypeOK
  <2>9. woken[t] => Waiting(t)'
    BY <2>2, <2>8 DEF Waiting
  <2>10. \A v \in Workers : suspendingTask'[v] = IF v = w
           THEN NoTask ELSE suspendingTask[v]
    BY <2>5 DEF TypeOK
  <2>11. ASSUME NEW v \in Workers PROVE WorkerPlaces(v)'
    <3>1. CASE v = w
      <4>1. currentTask[w] # NoTask => currentTask[w] \in Tasks \ {t}
        BY <2>4 DEF TypeOK
      <4>2. QED
        BY <1>0, <2>6, <2>10, <3>1, <4>1 DEF PlacesOK, WorkerPlaces, Waiting,
           Executed, Executing,
             Picked, PickPoints, ControlOK, WorkerControl, HoldsTask
    <3>2. CASE v # w
      BY <1>0, <2>4, <2>6, <2>10, <3>2, WorkerKeeps
    <3>3. QED
      BY <3>1, <3>2
  <2>12. ASSUME NEW th \in Threads PROVE ThreadPlaces(th)'
    BY <1>9, <2>2, <2>6 DEF PlacesOK, ThreadPlaces, Tasks
  <2>13. QED
    BY <2>3, <2>4, <2>6, <2>7, <2>8, <2>9, <2>10, <2>11, <2>12, OneTaskStep
<1>3. QED
  BY <1>1, <1>2

(* So does the end of a pass of unownedLoop, which kills, parks or         *)
(* requeues the task.                                                      *)
LEMMA RetireStep ==
  ASSUME TypeOK, ControlOK, PlacementOK, NEW w \in Workers, NEW t \in Tasks,
         Retire(w, t),
         pushes' \subseteq Push, t = currentTask[w], Executed(t),
         suspendingTask[w] = NoTask,
         woken' \in [Tasks -> BOOLEAN], stopped' \in [Tasks -> BOOLEAN]
  PROVE  PlacementOK'
<1> USE DEF PlacementOK
<1>1. \A v \in Workers : pc'[v] = IF v = w THEN "loop" ELSE pc[v]
  BY DEF Retire, TypeOK, Goto, Procs
<1>2. ASSUME NEW th \in Threads PROVE pc'[th] = pc[th]
  BY DEF Retire, TypeOK, Goto, Procs, Tasks
<1>3. ~Queued(t) /\ ~Pushed(t) /\ t \notin Threads
  BY Nowhere DEF Waiting, Executed, ControlOK, WorkerControl
<1>4. \A v \in Workers : suspendingTask[v] # t /\ (v # w => currentTask[v] # t)
  BY DEF NoDoubleScheduling, HeldOnce, TypeOK
<1>5. \A v \in Workers : currentTask'[v] = IF v = w THEN NoTask ELSE currentTask[v]
  BY DEF Retire, TypeOK
<1>6. UNCHANGED <<queue, suspendingTask, resumed>>
  BY DEF Retire
<1>7. \A u \in Tasks \ {t} : status'[u] = status[u] /\ scheduled'[u] = scheduled[u]
  BY DEF Retire, TypeOK
<1>8. ASSUME NEW v \in Workers PROVE WorkerPlaces(v)'
  <2>1. CASE v = w
    BY <1>1, <1>5, <1>6, <2>1 DEF WorkerPlaces, Executing, Picked
  <2>2. CASE v # w
    BY <1>1, <1>4, <1>5, <1>6, <1>7, <2>2, WorkerKeeps
  <2>3. QED
    BY <2>1, <2>2
<1>9. ASSUME NEW th \in Threads PROVE ThreadPlaces(th)'
  BY <1>2, <1>3, <1>6, <1>7 DEF PlacesOK, ThreadPlaces, Tasks
<1>10. \/ scheduled'[t] = FALSE /\ pushes' = pushes
       \/ /\ Waiting(t)'
          /\ \E r : r.task = t /\ pushes' = pushes \union {r}
  <2>1. woken'[t] \in BOOLEAN /\ stopped'[t] \in BOOLEAN
    OBVIOUS
  <2>2. CASE stopped'[t] \/ ~woken'[t]
    BY <2>1, <2>2 DEF Retire, TypeOK
  <2>3. CASE ~stopped'[t] /\ woken'[t]
    <3>1. /\ status' = [status EXCEPT ![t] = "Listening"]
          /\ scheduled' = [scheduled EXCEPT ![t] = TRUE]
          /\ pushes' = pushes \union {[by |-> w, task |-> t, at |-> w,
               class |-> "soft"]}
      BY <2>3 DEF Retire
    <3>2. Waiting(t)'
      BY <1>3, <3>1 DEF Waiting, TypeOK
    <3>3. QED
      BY <3>1, <3>2
  <2>4. QED
    BY <2>1, <2>2, <2>3
<1>11. QED
  BY <1>3, <1>4, <1>5, <1>6, <1>7, <1>8, <1>9, <1>10, OneTaskStep

(* A worker that starts or continues its task takes the mark off it.       *)
LEMMA EnterStep ==
  ASSUME TypeOK, ControlOK, PlacementOK, NEW w \in Workers, NEW t \in Tasks,
         t = currentTask[w], Waiting(t), suspendingTask[w] = NoTask,
         status' = [status EXCEPT ![t] = "Running"],
         scheduled' = [scheduled EXCEPT ![t] = FALSE],
         Goto(w, "run"), UNCHANGED <<queue, pushes, currentTask, suspendingTask,
         resumed>>
  PROVE  PlacementOK'
<1> USE DEF PlacementOK
<1>1. \A v \in Workers : pc'[v] = IF v = w THEN "run" ELSE pc[v]
  BY DEF TypeOK, Goto, Procs
<1>2. ASSUME NEW th \in Threads PROVE pc'[th] = pc[th]
  BY DEF TypeOK, Goto, Procs, Tasks
<1>3. ~Queued(t) /\ ~Pushed(t) /\ t \notin Threads
  BY DEF Waiting, NoDoubleScheduling, HeldNotWaiting
<1>4. \A v \in Workers : suspendingTask[v] # t /\ (v # w => currentTask[v] # t)
  BY DEF NoDoubleScheduling, HeldOnce, TypeOK
<1>5. \A u \in Tasks \ {t} : status'[u] = status[u] /\ scheduled'[u] = scheduled[u]
  BY DEF TypeOK
<1>6. status'[t] = "Running" /\ ~scheduled'[t]
  BY DEF TypeOK
<1>7. ASSUME NEW v \in Workers PROVE WorkerPlaces(v)'
  <2>1. CASE v = w
    BY <1>1, <1>6, <2>1 DEF WorkerPlaces, Executed, Picked, PickPoints
  <2>2. CASE v # w
    BY <1>1, <1>4, <1>5, <2>2, WorkerKeeps
  <2>3. QED
    BY <2>1, <2>2
<1>8. ASSUME NEW th \in Threads PROVE ThreadPlaces(th)'
  BY <1>2, <1>3, <1>5 DEF PlacesOK, ThreadPlaces, Tasks
<1>9. pushes' \subseteq Push
  BY DEF TypeOK
<1>10. QED
  BY <1>3, <1>5, <1>6, <1>7, <1>8, <1>9, OneTaskStep

(* ownedLoop moves the current task to the register of the one to suspend. *)
LEMMA OwnedLoopStep ==
  ASSUME TypeOK, ControlOK, PlacementOK, NEW w \in Workers, OwnedLoop(w)
  PROVE  PlacementOK'
<1> USE DEF PlacementOK
<1>1. PICK t \in Tasks : t = currentTask[w]
  BY DEF OwnedLoop, TypeOK, ControlOK, WorkerControl, HoldsTask, At
<1>2. suspendingTask[w] = NoTask /\ Executed(t)
  BY <1>1 DEF OwnedLoop, At, ControlOK, WorkerControl, Executing, PlacesOK,
     WorkerPlaces
<1>3. UNCHANGED <<status, scheduled, queue, pushes>>
  BY DEF OwnedLoop, lockedVars, queueVars
<1>4. \A v \in Workers : /\ currentTask'[v] = IF v = w THEN NoTask ELSE currentTask[v]
                         /\ suspendingTask'[v] = IF v = w
                              THEN t ELSE suspendingTask[v]
                         /\ pc'[v] = IF v = w THEN "scan" ELSE pc[v]
  BY <1>1 DEF OwnedLoop, TypeOK, Goto, Procs
<1>5. ASSUME NEW v \in Workers PROVE WorkerPlaces(v)'
  BY <1>2, <1>3, <1>4 DEF PlacesOK, WorkerPlaces, Waiting, Executed, Executing,
     Picked, PickPoints
<1>6. ASSUME NEW th \in Threads PROVE ThreadPlaces(th)'
  BY <1>3 DEF OwnedLoop, TypeOK, Goto, Procs, Tasks, PlacesOK, ThreadPlaces
<1>7. OnceInQueues' /\ \A u \in Tasks : Queued(u)' <=> Queued(u)
  BY <1>3, QueueFrame DEF NoDoubleScheduling
<1>8. \A u \in Tasks : Pushed(u)' <=> Pushed(u)
  BY <1>3 DEF Pushed
<1>9. OncePushed'
  BY <1>3, <1>7 DEF NoDoubleScheduling, OncePushed, TypeOK, Push
<1>10. HeldNotWaiting'
  BY <1>3, <1>4 DEF NoDoubleScheduling, HeldNotWaiting, Queued, Pushed
<1>11. HeldOnce'
  BY SMTT(40), <1>1, <1>4 DEF NoDoubleScheduling, HeldOnce, TypeOK
<1>12. NoTaskForgotten'
  <2>1. ASSUME NEW u \in Tasks, scheduled'[u]
        PROVE  Queued(u)' \/ Pushed(u)' \/ \E v \in Workers : currentTask'[v] = u
    <3>1. scheduled[u] /\ u # t
      BY <1>2, <1>3, <2>1 DEF Executed
    <3>2. QED
      BY <1>1, <1>4, <1>7, <1>8, <3>1 DEF NoTaskForgotten
  <2>2. QED
    BY <2>1 DEF NoTaskForgotten
<1>13. (QueuesWait /\ PushesWait)'
  BY <1>3 DEF PlacesOK, QueuesWait, PushesWait, Waiting
<1>14. QED
  BY <1>5, <1>6, <1>7, <1>9, <1>10, <1>11, <1>12, <1>13 DEF PlacesOK,
     NoDoubleScheduling

(* Every step of the schedulers keeps every task in one place, in a state  *)
(* fit for that place.                                                     *)
LEMMA PlacementStep ==
  ASSUME TypeOK, ControlOK, PlacementOK, Next
  PROVE  PlacementOK'
<1> USE DEF lockedVars, ownVars, queueVars, stackVars, loopVars
<1>0. TypeOK'
  BY TypeStep
<1>1. ASSUME NEW p \in Procs, FinishPush(p) PROVE PlacementOK'
  BY <1>1, FinishPushStep
<1>2. ASSUME NEW p \in Procs, Dispatch(p) PROVE PlacementOK'
  <2>1. ASSUME NEW v \in Workers PROVE WorkerPlaces(v)'
    BY <1>2 DEF Dispatch, PlacementOK, TypeOK, ControlOK, WorkerControl, At,
       Goto, Procs, Tasks, PlacesOK, WorkerPlaces, Waiting, Executed, Picked,
       PickPoints, HoldsTask, Executing
  <2>2. ASSUME NEW th \in Threads PROVE ThreadPlaces(th)'
    BY <1>2 DEF Dispatch, PlacementOK, TypeOK, ControlOK, At, Goto, Procs, Tasks,
       PlacesOK, ThreadPlaces, Running
  <2>3. QED
    BY <1>2, <2>1, <2>2, PlacementFrame DEF Dispatch
<1>3. ASSUME NEW p \in Procs, Await(p) PROVE PlacementOK'
  <2>1. ASSUME NEW v \in Workers PROVE WorkerPlaces(v)'
    BY <1>3 DEF Await, PlacementOK, TypeOK, ControlOK, WorkerControl, At, Goto,
       Procs, Tasks, PlacesOK, WorkerPlaces, Waiting, Executed, Picked,
       PickPoints, HoldsTask, Executing
  <2>2. ASSUME NEW th \in Threads PROVE ThreadPlaces(th)'
    BY <1>3 DEF Await, PlacementOK, TypeOK, ControlOK, At, Goto, Procs, Tasks,
       PlacesOK, ThreadPlaces, Running
  <2>3. QED
    BY <1>3, <2>1, <2>2, PlacementFrame DEF Await
<1>4. ASSUME NEW p \in Procs, StopTask(p) PROVE PlacementOK'
  <2>1. ASSUME NEW v \in Workers PROVE WorkerPlaces(v)'
    BY <1>4 DEF StopTask, PlacementOK, TypeOK, ControlOK, WorkerControl, At,
       Goto, Procs, Tasks, PlacesOK, WorkerPlaces, Waiting, Executed, Picked,
       PickPoints, HoldsTask, Executing
  <2>2. ASSUME NEW th \in Threads PROVE ThreadPlaces(th)'
    BY <1>4 DEF StopTask, PlacementOK, TypeOK, ControlOK, At, Goto, Procs, Tasks,
       PlacesOK, ThreadPlaces, Running
  <2>3. QED
    BY <1>4, <2>1, <2>2, PlacementFrame DEF StopTask
<1>5. ASSUME NEW p \in Procs, NEW t \in Tasks, Spawn(p, t) PROVE PlacementOK'
  <2>1. ResumeTask(p, t) /\ UNCHANGED <<queue, currentTask, suspendingTask, pc>>
    BY <1>5 DEF Spawn
  <2>2. pushes' \subseteq Push
    BY <1>0 DEF TypeOK
  <2>3. t \in Threads => pc[t] # "new"
    BY <1>5 DEF Spawn
  <2>4. QED
    BY <2>1, <2>2, <2>3, ResumeStep
<1>6. ASSUME NEW p \in Procs, NEW t \in Tasks, Send(p, t) PROVE PlacementOK'
  <2>1. ResumeTask(p, t) /\ UNCHANGED <<queue, currentTask, suspendingTask, pc>>
    BY <1>6 DEF Send
  <2>2. pushes' \subseteq Push
    BY <1>0 DEF TypeOK
  <2>3. t \in Threads => pc[t] # "new"
    BY <1>6 DEF Send, Spawned
  <2>4. QED
    BY <2>1, <2>2, <2>3, ResumeStep
<1>7. ASSUME NEW p \in Procs, NEW t \in Tasks, Resume(p, t) PROVE PlacementOK'
  <2>1. ResumeTask(p, t) /\ UNCHANGED <<queue, currentTask, suspendingTask, pc>>
    BY <1>7 DEF Resume
  <2>2. pushes' \subseteq Push
    BY <1>0 DEF TypeOK
  <2>3. t \in Threads => pc[t] # "new"
    BY <1>7 DEF Resume, Spawned
  <2>4. QED
    BY <2>1, <2>2, <2>3, ResumeStep
<1>8. ASSUME NEW w \in Workers, OwnedLoop(w) PROVE PlacementOK'
  BY <1>8, OwnedLoopStep
<1>9. ASSUME NEW w \in Workers, UnownedLoop(w) PROVE PlacementOK'
  <2>1. PICK point \in {"scan", "picked"} :
          Goto(w, point) /\ point = IF currentTask[w] = NoTask
            THEN "scan" ELSE "picked"
    BY <1>9 DEF UnownedLoop
  <2>2. FinishSuspending(w) /\ UNCHANGED <<queue, currentTask, resumed>>
          /\ pc[w] = "loop"
    BY <1>9 DEF UnownedLoop, At
  <2>3. point = "picked" => Waiting(currentTask[w])
    BY <2>1, <2>2 DEF PlacementOK, PlacesOK, WorkerPlaces, Picked, PickPoints
  <2>4. pushes' \subseteq Push
    BY <1>0 DEF TypeOK
  <2>5. QED
    BY <2>1, <2>2, <2>3, <2>4, FinishSuspendingStep
<1>10. ASSUME NEW w \in Workers, Dequeue(w) PROVE PlacementOK'
  BY <1>10, DequeueStep
<1>11. ASSUME NEW w \in Workers, Steal(w) PROVE PlacementOK'
  BY <1>11, StealStep
<1>12. ASSUME NEW w \in Workers, FindNothing(w) PROVE PlacementOK'
  <2>1. ASSUME NEW v \in Workers PROVE WorkerPlaces(v)'
    BY <1>12 DEF FindNothing, PlacementOK, TypeOK, ControlOK, WorkerControl, At,
       Goto, Procs, Tasks, PlacesOK, WorkerPlaces, Waiting, Executed, Picked,
       PickPoints, HoldsTask, Executing
  <2>2. ASSUME NEW th \in Threads PROVE ThreadPlaces(th)'
    BY <1>12 DEF FindNothing, PlacementOK, TypeOK, ControlOK, At, Goto, Procs,
       Tasks, PlacesOK, ThreadPlaces, Running
  <2>3. QED
    BY <1>12, <2>1, <2>2, PlacementFrame DEF FindNothing
<1>13. ASSUME NEW w \in Workers, SwitchToUnowned(w) PROVE PlacementOK'
  <2>1. ASSUME NEW v \in Workers PROVE WorkerPlaces(v)'
    BY <1>13 DEF SwitchToUnowned, PlacementOK, TypeOK, ControlOK, WorkerControl,
       At, Goto, Procs, Tasks, PlacesOK, WorkerPlaces, Waiting, Executed, Picked,
       PickPoints, HoldsTask, Executing
  <2>2. ASSUME NEW th \in Threads PROVE ThreadPlaces(th)'
    BY <1>13 DEF SwitchToUnowned, PlacementOK, TypeOK, ControlOK, At, Goto,
       Procs, Tasks, PlacesOK, ThreadPlaces, Running
  <2>3. QED
    BY <1>13, <2>1, <2>2, PlacementFrame DEF SwitchToUnowned
<1>14. ASSUME NEW w \in Workers, Spin(w) PROVE PlacementOK'
  <2>1. ASSUME NEW v \in Workers PROVE WorkerPlaces(v)'
    BY <1>14 DEF Spin, PlacementOK, TypeOK, ControlOK, WorkerControl, At, Goto,
       Procs, Tasks, PlacesOK, WorkerPlaces, Waiting, Executed, Picked,
       PickPoints, HoldsTask, Executing
  <2>2. ASSUME NEW th \in Threads PROVE ThreadPlaces(th)'
    BY <1>14 DEF Spin, PlacementOK, TypeOK, ControlOK, At, Goto, Procs, Tasks,
       PlacesOK, ThreadPlaces, Running
  <2>3. QED
    BY <1>14, <2>1, <2>2, PlacementFrame DEF Spin
<1>15. ASSUME NEW w \in Workers, SwitchToTask(w) PROVE PlacementOK'
  <2>1. ASSUME NEW v \in Workers PROVE WorkerPlaces(v)'
    BY <1>15 DEF SwitchToTask, PlacementOK, TypeOK, ControlOK, WorkerControl, At,
       Goto, Procs, Tasks, PlacesOK, WorkerPlaces, Waiting, Executed, Picked,
       PickPoints, HoldsTask, Executing
  <2>2. ASSUME NEW th \in Threads PROVE ThreadPlaces(th)'
    BY <1>15 DEF SwitchToTask, PlacementOK, TypeOK, ControlOK, At, Goto, Procs,
       Tasks, PlacesOK, ThreadPlaces, Running
  <2>3. QED
    BY <1>15, <2>1, <2>2, PlacementFrame DEF SwitchToTask
<1>16. ASSUME NEW w \in Workers, Land(w) PROVE PlacementOK'
  <2>1. Goto(w, "enter") /\ FinishSuspending(w)
          /\ UNCHANGED <<queue, currentTask, resumed>> /\ pc[w] = "landed"
    BY <1>16 DEF Land, At
  <2>2. pushes' \subseteq Push
    BY <1>0 DEF TypeOK
  <2>3. QED
    BY <2>1, <2>2, FinishSuspendingStep
<1>17. ASSUME NEW w \in Workers, Enter(w) PROVE PlacementOK'
  <2>1. PICK t \in Tasks : t = currentTask[w] /\ Waiting(t)
          /\ suspendingTask[w] = NoTask
    BY <1>17 DEF Enter, At, TypeOK, ControlOK, WorkerControl, HoldsTask,
       PlacementOK, PlacesOK, WorkerPlaces,
         Picked, PickPoints
  <2>2. QED
    BY <1>17, <2>1, EnterStep DEF Enter
<1>18. ASSUME NEW w \in Workers, StartTask(w) PROVE PlacementOK'
  <2>1. PICK t \in Tasks : t = currentTask[w] /\ Waiting(t)
          /\ suspendingTask[w] = NoTask
    BY <1>18 DEF StartTask, At, TypeOK, ControlOK, WorkerControl, HoldsTask,
       PlacementOK, PlacesOK, WorkerPlaces,
         Picked, PickPoints
  <2>2. QED
    BY <1>18, <2>1, EnterStep DEF StartTask
<1>19. ASSUME NEW w \in Workers, FinishMain(w) PROVE PlacementOK'
  <2>1. PICK t \in Tasks : t = currentTask[w] /\ Executed(t)
          /\ suspendingTask[w] = NoTask
    BY <1>19 DEF FinishMain, At, TypeOK, ControlOK, WorkerControl, HoldsTask,
       Executing, PlacementOK, PlacesOK, WorkerPlaces
  <2>2. Retire(w, t)
    BY <1>19, <2>1 DEF FinishMain
  <2>3. pushes' \subseteq Push /\ woken' \in [Tasks -> BOOLEAN]
          /\ stopped' \in [Tasks -> BOOLEAN]
    BY <1>0 DEF TypeOK
  <2>4. QED
    BY <2>1, <2>2, <2>3, RetireStep
<1>20. ASSUME NEW w \in Workers, StopWorker(w) PROVE PlacementOK'
  <2>1. ASSUME NEW v \in Workers PROVE WorkerPlaces(v)'
    BY <1>20 DEF StopWorker, PlacementOK, TypeOK, ControlOK, WorkerControl, At,
       Goto, Procs, Tasks, PlacesOK, WorkerPlaces, Waiting, Executed, Picked,
       PickPoints, HoldsTask, Executing
  <2>2. ASSUME NEW th \in Threads PROVE ThreadPlaces(th)'
    BY <1>20 DEF StopWorker, PlacementOK, TypeOK, ControlOK, At, Goto, Procs,
       Tasks, PlacesOK, ThreadPlaces, Running
  <2>3. QED
    BY <1>20, <2>1, <2>2, PlacementFrame DEF StopWorker
<1>21. ASSUME NEW w \in Workers, Yield(w) PROVE PlacementOK'
  <2>1. ASSUME NEW v \in Workers PROVE WorkerPlaces(v)'
    BY <1>21 DEF Yield, PlacementOK, TypeOK, ControlOK, WorkerControl, At, Goto,
       Procs, Tasks, PlacesOK, WorkerPlaces, Waiting, Executed, Picked,
       PickPoints, HoldsTask, Executing
  <2>2. ASSUME NEW th \in Threads PROVE ThreadPlaces(th)'
    BY <1>21 DEF Yield, PlacementOK, TypeOK, ControlOK, At, Goto, Procs, Tasks,
       PlacesOK, ThreadPlaces, Running
  <2>3. QED
    BY <1>21, <2>1, <2>2, PlacementFrame DEF Yield
<1>22. ASSUME NEW w \in Workers, PinTask(w) PROVE PlacementOK'
  <2>1. ASSUME NEW v \in Workers PROVE WorkerPlaces(v)'
    BY <1>22 DEF PinTask, PlacementOK, TypeOK, ControlOK, WorkerControl, At,
       Goto, Procs, Tasks, PlacesOK, WorkerPlaces, Waiting, Executed, Picked,
       PickPoints, HoldsTask, Executing
  <2>2. ASSUME NEW th \in Threads PROVE ThreadPlaces(th)'
    BY <1>22 DEF PinTask, PlacementOK, TypeOK, ControlOK, At, Goto, Procs, Tasks,
       PlacesOK, ThreadPlaces, Running
  <2>3. QED
    BY <1>22, <2>1, <2>2, PlacementFrame DEF PinTask
<1>23. ASSUME NEW w \in Workers, UnpinTask(w) PROVE PlacementOK'
  <2>1. ASSUME NEW v \in Workers PROVE WorkerPlaces(v)'
    BY <1>23 DEF UnpinTask, PlacementOK, TypeOK, ControlOK, WorkerControl, At,
       Goto, Procs, Tasks, PlacesOK, WorkerPlaces, Waiting, Executed, Picked,
       PickPoints, HoldsTask, Executing
  <2>2. ASSUME NEW th \in Threads PROVE ThreadPlaces(th)'
    BY <1>23 DEF UnpinTask, PlacementOK, TypeOK, ControlOK, At, Goto, Procs,
       Tasks, PlacesOK, ThreadPlaces, Running
  <2>3. QED
    BY <1>23, <2>1, <2>2, PlacementFrame DEF UnpinTask
<1>24. ASSUME NEW w \in Workers, ReturnFiber(w) PROVE PlacementOK'
  <2>1. ASSUME NEW v \in Workers PROVE WorkerPlaces(v)'
    BY <1>24 DEF ReturnFiber, PlacementOK, TypeOK, ControlOK, WorkerControl, At,
       Goto, Procs, Tasks, PlacesOK, WorkerPlaces, Waiting, Executed, Picked,
       PickPoints, HoldsTask, Executing
  <2>2. ASSUME NEW th \in Threads PROVE ThreadPlaces(th)'
    BY <1>24 DEF ReturnFiber, PlacementOK, TypeOK, ControlOK, At, Goto, Procs,
       Tasks, PlacesOK, ThreadPlaces, Running
  <2>3. QED
    BY <1>24, <2>1, <2>2, PlacementFrame DEF ReturnFiber
<1>25. ASSUME NEW w \in Workers, ReturnActor(w) PROVE PlacementOK'
  <2>1. ASSUME NEW v \in Workers PROVE WorkerPlaces(v)'
    BY <1>25 DEF ReturnActor, PlacementOK, TypeOK, ControlOK, WorkerControl, At,
       Goto, Procs, Tasks, PlacesOK, WorkerPlaces, Waiting, Executed, Picked,
       PickPoints, HoldsTask, Executing
  <2>2. ASSUME NEW th \in Threads PROVE ThreadPlaces(th)'
    BY <1>25 DEF ReturnActor, PlacementOK, TypeOK, ControlOK, At, Goto, Procs,
       Tasks, PlacesOK, ThreadPlaces, Running
  <2>3. QED
    BY <1>25, <2>1, <2>2, PlacementFrame DEF ReturnActor
<1>26. ASSUME NEW w \in Workers, FinishListening(w) PROVE PlacementOK'
  <2>1. PICK t \in Tasks : t = currentTask[w] /\ Executed(t)
          /\ suspendingTask[w] = NoTask
    BY <1>26 DEF FinishListening, At, TypeOK, ControlOK, WorkerControl,
       HoldsTask, Executing, PlacementOK, PlacesOK, WorkerPlaces
  <2>2. Retire(w, t)
    BY <1>26, <2>1 DEF FinishListening
  <2>3. pushes' \subseteq Push /\ woken' \in [Tasks -> BOOLEAN]
          /\ stopped' \in [Tasks -> BOOLEAN]
    BY <1>0 DEF TypeOK
  <2>4. QED
    BY <2>1, <2>2, <2>3, RetireStep
<1>27. ASSUME NEW w \in Workers, RequestStop(w) PROVE PlacementOK'
  <2>1. ASSUME NEW v \in Workers PROVE WorkerPlaces(v)'
    BY <1>27 DEF RequestStop, PlacementOK, TypeOK, ControlOK, WorkerControl, At,
       Goto, Procs, Tasks, PlacesOK, WorkerPlaces, Waiting, Executed, Picked,
       PickPoints, HoldsTask, Executing
  <2>2. ASSUME NEW th \in Threads PROVE ThreadPlaces(th)'
    BY <1>27 DEF RequestStop, PlacementOK, TypeOK, ControlOK, At, Goto, Procs,
       Tasks, PlacesOK, ThreadPlaces, Running
  <2>3. QED
    BY <1>27, <2>1, <2>2, PlacementFrame DEF RequestStop
<1>28. ASSUME NEW th \in Threads, SuspendThread(th) PROVE PlacementOK'
  <2>1. th \in Tasks /\ ~scheduled[th]
    BY DEF Tasks, PlacementOK, PlacesOK, ThreadPlaces
  <2>2. /\ ~Queued(th) /\ ~Pushed(th)
        /\ \A v \in Workers : currentTask[v] # th /\ suspendingTask[v] # th
    BY <2>1, Nowhere DEF Waiting, ControlOK, WorkerControl
  <2>3. \A u \in Tasks \ {th} : status'[u] = status[u]
    BY <1>28 DEF SuspendThread, TypeOK
  <2>4. UNCHANGED <<scheduled, queue, pushes, currentTask, suspendingTask>>
          /\ \A v \in Workers : pc'[v] = pc[v]
    BY <1>28 DEF SuspendThread, TypeOK, Goto, Procs, Tasks
  <2>5. ASSUME NEW v \in Workers PROVE WorkerPlaces(v)'
    BY <2>1, <2>2, <2>3, <2>4, WorkerKeeps
  <2>6. ASSUME NEW h \in Threads PROVE ThreadPlaces(h)'
    <3>1. CASE h = th
      BY <1>28, <2>1, <3>1 DEF SuspendThread, TypeOK, Goto, Procs, Tasks, At,
         PlacementOK, PlacesOK, ThreadPlaces
    <3>2. CASE h # th
      BY <1>28, <2>3, <3>2 DEF SuspendThread, TypeOK, Goto, Procs, Tasks,
         PlacementOK, PlacesOK, ThreadPlaces
    <3>3. QED
      BY <3>1, <3>2
  <2>7. pushes' \subseteq Push
    BY <1>0 DEF TypeOK
  <2>8. QED
    BY <2>1, <2>2, <2>3, <2>4, <2>5, <2>6, <2>7, OneTaskStep
<1>29. ASSUME NEW th \in Threads, WakeThread(th) PROVE PlacementOK'
  <2>1. ASSUME NEW v \in Workers PROVE WorkerPlaces(v)'
    BY <1>29 DEF WakeThread, PlacementOK, TypeOK, Goto, Procs, Tasks, PlacesOK,
       WorkerPlaces, Waiting, Executed, Picked
  <2>2. ASSUME NEW h \in Threads PROVE ThreadPlaces(h)'
    BY <1>29 DEF WakeThread, PlacementOK, TypeOK, At, Goto, Procs, Tasks,
       PlacesOK, ThreadPlaces
  <2>3. QED
    BY <1>29, <2>1, <2>2, PlacementFrame DEF WakeThread
<1>30. ASSUME NEW th \in Threads, NEW from \in {"new", "run", "poll"}, pc[th] = from,
              NEW point \in {"run", "poll"}, Goto(th, point),
              UNCHANGED <<status, scheduled, queueVars, loopVars, resumed>>
       PROVE  PlacementOK'
  <2>1. UNCHANGED <<status, scheduled, queue, pushes, currentTask, suspendingTask>>
    BY <1>30
  <2>2. pc'[th] = point /\ \A q \in Procs \ {th} : pc'[q] = pc[q]
    BY <1>30 DEF TypeOK, Goto, Procs
  <2>3. ASSUME NEW v \in Workers PROVE WorkerPlaces(v)'
    <3>1. pc'[v] = pc[v]
      BY <2>2 DEF Procs, Tasks
    <3>2. QED
      BY <2>1, <3>1 DEF PlacementOK, PlacesOK, WorkerPlaces, Waiting, Executed, Picked
  <2>4. ASSUME NEW h \in Threads PROVE ThreadPlaces(h)'
    <3>1. CASE h = th
      BY <1>30, <2>1, <2>2, <3>1 DEF PlacementOK, PlacesOK, ThreadPlaces
    <3>2. CASE h # th
      <4>1. pc'[h] = pc[h]
        BY <2>2, <3>2 DEF Procs
      <4>2. QED
        BY <1>30, <2>1, <4>1 DEF PlacementOK, PlacesOK, ThreadPlaces
    <3>3. QED
      BY <3>1, <3>2
  <2>5. QED
    BY <2>1, <2>3, <2>4, PlacementFrame
<1>31. ASSUME NEW p \in Procs, NEW th \in OSThreads, SpawnThread(p, th) PROVE PlacementOK'
  <2>1. th \in Threads /\ pc[th] = "new" /\ Goto(th, "run")
        /\ UNCHANGED <<status, scheduled, queueVars, loopVars, resumed>>
    BY <1>31 DEF SpawnThread
  <2>2. QED
    BY <1>30, <2>1
<1>32. ASSUME NEW th \in Threads, ReturnThread(th) \/ MailProcessed(th) PROVE PlacementOK'
  <2>1. pc[th] = "run" /\ Goto(th, "poll")
        /\ UNCHANGED <<status, scheduled, queueVars, loopVars, resumed>>
    BY <1>32 DEF ReturnThread, MailProcessed, At
  <2>2. QED
    BY <1>30, <2>1
<1>33. ASSUME NEW th \in Threads, ProcessMail(th) PROVE PlacementOK'
  <2>1. pc[th] = "poll" /\ Goto(th, "run")
        /\ UNCHANGED <<status, scheduled, queueVars, loopVars, resumed>>
    BY <1>33 DEF ProcessMail, At
  <2>2. QED
    BY <1>30, <2>1
<1>34. ASSUME NEW th \in Threads, KillThread(th) PROVE PlacementOK'
  <2>1. th \in Tasks /\ ~scheduled[th]
    BY DEF Tasks, PlacementOK, PlacesOK, ThreadPlaces
  <2>2. /\ ~Queued(th) /\ ~Pushed(th)
        /\ \A v \in Workers : currentTask[v] # th /\ suspendingTask[v] # th
    BY <2>1, Nowhere DEF Waiting, ControlOK, WorkerControl
  <2>3. /\ status' = [status EXCEPT ![th] = "Dead"]
        /\ scheduled' = [scheduled EXCEPT ![th] = FALSE]
        /\ UNCHANGED <<queue, pushes, currentTask, suspendingTask, resumed>>
        /\ Goto(th, "ended")
    BY <1>34 DEF KillThread
  <2>4. \A u \in Tasks \ {th} : status'[u] = status[u] /\ scheduled'[u] = scheduled[u]
    BY <2>3 DEF TypeOK
  <2>5. status'[th] = "Dead" /\ ~scheduled'[th]
    BY <2>1, <2>3 DEF TypeOK
  <2>6. pc'[th] = "ended" /\ \A q \in Procs \ {th} : pc'[q] = pc[q]
    BY <2>3 DEF TypeOK, Goto, Procs
  <2>7. ASSUME NEW v \in Workers PROVE WorkerPlaces(v)'
    <3>1. pc'[v] = pc[v]
      BY <2>6 DEF Procs, Tasks
    <3>2. QED
      BY <2>1, <2>2, <2>3, <2>4, <3>1, WorkerKeeps
  <2>8. ASSUME NEW h \in Threads PROVE ThreadPlaces(h)'
    <3>1. CASE h = th
      BY <2>5, <2>6, <3>1 DEF ThreadPlaces
    <3>2. CASE h # th
      <4>1. pc'[h] = pc[h] /\ status'[h] = status[h] /\ scheduled'[h] = scheduled[h]
        BY <2>4, <2>6, <3>2 DEF Procs, Tasks
      <4>2. QED
        BY <2>3, <4>1 DEF PlacementOK, PlacesOK, ThreadPlaces
    <3>3. QED
      BY <3>1, <3>2
  <2>9. pushes' \subseteq Push
    BY <1>0 DEF TypeOK
  <2>10. QED
    BY <2>1, <2>2, <2>3, <2>4, <2>5, <2>7, <2>8, <2>9, OneTaskStep
<1>35. QED
  BY <1>1, <1>2, <1>3, <1>4, <1>5, <1>6, <1>7, <1>8, <1>9, <1>10, <1>11, <1>12,
     <1>13, <1>14, <1>15, <1>16, <1>17, <1>18, <1>19, <1>20, <1>21, <1>22, <1>23,
     <1>24, <1>25, <1>26, <1>27, <1>28, <1>29, <1>31, <1>32, <1>33, <1>34
     DEF Next, WorkerLoop, ThreadLoop, ThreadCode, EndThread, ThrowThread, TaskCode
=============================================================================
