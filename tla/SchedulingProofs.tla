--------------------------- MODULE SchedulingProofs ---------------------------
(***************************************************************************)
(* What the multitasking schedulers guarantee for any number of workers,   *)
(* threads, fibers and actors, and any limits: the invariant of            *)
(* SchedulingInvariant is inductive, and implies the safety properties.    *)
(***************************************************************************)
EXTENDS SchedulingPlaces

USE DisjointAssumption, BoundsAssumption

(* A task that sleeps, or listens, until somebody resumes it.              *)
AsleepUnscheduled(u) == status[u] \in {"Suspended", "Listening"} /\ ~scheduled[u]

(* A worker that keeps its tasks, or lets go of them, keeps them settled.  *)
LEMMA HeldKept ==
  ASSUME TypeOK, ControlOK, TypeOK', ControlOK', WakeupsOK,
         \A u \in Tasks : Settled(u) => Settled(u)',
         NEW v \in Workers, suspendingTask'[v] \in {suspendingTask[v], NoTask},
         pc'[v] \in {"suspend", "ending"} =>
           pc[v] \in {"suspend", "ending"} /\ currentTask'[v] = currentTask[v]
  PROVE  HeldSettled(v)'
<1>1. ASSUME NEW u \in Tasks, u = suspendingTask'[v] PROVE Settled(u)'
  BY <1>1 DEF WakeupsOK, HeldSettled
<1>2. ASSUME NEW u \in Tasks, u = currentTask'[v], pc'[v] \in {"suspend", "ending"}
      PROVE Settled(u)'
  BY <1>2 DEF WakeupsOK, HeldSettled
<1>3. suspendingTask'[v] \in Tasks \union {NoTask}
  BY DEF TypeOK
<1>4. pc'[v] \in {"suspend", "ending"} => currentTask'[v] \in Tasks
  BY DEF TypeOK, ControlOK, WorkerControl, HoldsTask
<1>5. QED
  BY <1>1, <1>2, <1>3, <1>4 DEF HeldSettled, Settled

(* No lost wake-up, when no task falls asleep unless it is settled and not *)
(* woken.                                                                  *)
LEMMA SleepersKept ==
  ASSUME NoLostWakeup, TypeOK',
         \A u \in Tasks : Settled(u) => Settled(u)',
         \A u \in Tasks : AsleepUnscheduled(u)' =>
           ~woken'[u] /\ (AsleepUnscheduled(u) \/ Settled(u))
  PROVE  NoLostWakeup'
<1>1. ASSUME NEW u \in Tasks, AsleepUnscheduled(u)'
      PROVE  ~woken'[u] /\ (mail'[u] = 0 \/ stopped'[u])
  <2>1. ~woken'[u] /\ Settled(u)'
    BY <1>1 DEF NoLostWakeup, AsleepUnscheduled, Settled
  <2>2. QED
    BY <2>1 DEF Settled
<1>2. QED
  BY <1>1 DEF NoLostWakeup, AsleepUnscheduled

(* context::detail::resume settles its task and puts none to sleep.        *)
LEMMA ResumeSettles ==
  ASSUME TypeOK, ControlOK, PlacementOK, NoLostWakeup, NEW p \in Procs,
         NEW t \in Tasks, ResumeTask(p, t),
         UNCHANGED stopped, \A u \in Tasks \ {t} : mail'[u] = mail[u]
  PROVE  /\ \A u \in Tasks : Settled(u) => Settled(u)'
         /\ \A u \in Tasks : AsleepUnscheduled(u)' =>
              ~woken'[u] /\ AsleepUnscheduled(u)
<1>1. woken' = [woken EXCEPT ![t] = TRUE]
  BY DEF ResumeTask
<1>2. \A u \in Tasks : Settled(u) => Settled(u)'
  BY <1>1 DEF Settled, TypeOK
<1>3. ~AsleepUnscheduled(t)'
  <2>1. CASE ~Resumable(t)
    BY <2>1 DEF ResumeTask, Resumable, AsleepUnscheduled
  <2>2. CASE Resumable(t) /\ pin[t] \notin Threads
    BY <2>2 DEF ResumeTask, Schedule, AsleepUnscheduled, TypeOK
  <2>3. CASE Resumable(t) /\ pin[t] \in Threads
    <3>1. pin[t] = t
      BY <2>3 DEF ControlOK, ThreadControl, Procs
    <3>2. QED
      BY <2>3, <3>1 DEF ResumeTask, AsleepUnscheduled, TypeOK
  <2>4. QED
    BY <2>1, <2>2, <2>3
<1>4. ASSUME NEW u \in Tasks \ {t}
      PROVE  status'[u] = status[u] /\ scheduled'[u] = scheduled[u] /\ woken'[u] = woken[u]
  <2>1. CASE ~Resumable(t)
    BY <1>1, <2>1 DEF ResumeTask, TypeOK
  <2>2. CASE Resumable(t) /\ pin[t] \notin Threads
    BY <1>1, <2>2 DEF ResumeTask, Schedule, TypeOK
  <2>3. CASE Resumable(t) /\ pin[t] \in Threads
    <3>1. pin[t] = t
      BY <2>3 DEF ControlOK, ThreadControl, Procs
    <3>2. QED
      BY <1>1, <2>3, <3>1 DEF ResumeTask, TypeOK
  <2>4. QED
    BY <2>1, <2>2, <2>3
<1>5. QED
  BY <1>2, <1>3, <1>4 DEF AsleepUnscheduled, NoLostWakeup

(* No task changes, and what workers do to their registers unsettles none. *)
LEMMA WakeupFrame ==
  ASSUME TypeOK, ControlOK, TypeOK', ControlOK', WakeupsOK, UNCHANGED lockedVars,
         \A v \in Workers : suspendingTask'[v] \in {suspendingTask[v], NoTask},
         \A v \in Workers : pc'[v] \in {"suspend", "ending"} =>
           pc[v] \in {"suspend", "ending"} /\ currentTask'[v] = currentTask[v],
         \A h \in Threads : pc'[h] = "suspend" => pc[h] = "suspend"
  PROVE  WakeupsOK'
<1>1. \A u \in Tasks : Settled(u) => Settled(u)'
  BY DEF lockedVars, Settled
<1>2. \A v \in Workers : HeldSettled(v)'
  BY <1>1, HeldKept
<1>3. \A h \in Threads : pc'[h] = "suspend" => Settled(h)'
  BY <1>1 DEF WakeupsOK, Tasks
<1>4. NoLostWakeup'
  BY DEF WakeupsOK, NoLostWakeup, lockedVars
<1>5. QED
  BY <1>2, <1>3, <1>4 DEF WakeupsOK

(* No step loses a wake-up: a task that sleeps was not resumed, and left   *)
(* no event behind, since it last looked.                                  *)
LEMMA WakeupStep ==
  ASSUME TypeOK, ControlOK, PlacementOK, WakeupsOK, TypeOK', ControlOK', Next
  PROVE  WakeupsOK'
<1> USE DEF lockedVars, ownVars, queueVars, stackVars, loopVars
<1>1. ASSUME NEW p \in Procs, FinishPush(p) PROVE WakeupsOK'
  BY <1>1, WakeupFrame DEF FinishPush
<1>2. ASSUME NEW p \in Procs, Dispatch(p) PROVE WakeupsOK'
  <2>1. \A u \in Tasks : Settled(u) => Settled(u)'
    BY <1>2 DEF Dispatch, Running, Drained, ControlOK, WorkerControl, HoldsTask,
       Settled, TypeOK
  <2>2. NoLostWakeup'
    <3>1. \A u \in Tasks : AsleepUnscheduled(u)' =>
            ~woken'[u] /\ (AsleepUnscheduled(u) \/ Settled(u))
      BY <1>2 DEF Dispatch, PlacementOK, PlacesOK, WorkerPlaces, ThreadPlaces,
         Executed, Executing, Running, AsleepUnscheduled, Settled, WakeupsOK,
         HeldSettled, NoLostWakeup, TypeOK, At
    <3>2. QED
      BY <2>1, <3>1, SleepersKept DEF WakeupsOK
  <2>3. ASSUME NEW v \in Workers PROVE HeldSettled(v)'
    BY <1>2, <2>1, HeldKept DEF Dispatch, TypeOK, Goto, Procs, Tasks, At
  <2>4. ASSUME NEW h \in Threads, pc'[h] = "suspend" PROVE Settled(h)'
    BY <1>2, <2>1, <2>4 DEF Dispatch, WakeupsOK, TypeOK, Goto, Procs, Tasks, At
  <2>5. QED
    BY <2>2, <2>3, <2>4 DEF WakeupsOK
<1>3. ASSUME NEW p \in Procs, Await(p) PROVE WakeupsOK'
  <2>1. \A u \in Tasks : Settled(u) => Settled(u)'
    BY <1>3 DEF Await, Running, Drained, ControlOK, WorkerControl, HoldsTask,
       Settled, TypeOK
  <2>2. NoLostWakeup'
    <3>1. \A u \in Tasks : AsleepUnscheduled(u)' =>
            ~woken'[u] /\ (AsleepUnscheduled(u) \/ Settled(u))
      BY <1>3 DEF Await, PlacementOK, PlacesOK, WorkerPlaces, ThreadPlaces,
         Executed, Executing, Running, AsleepUnscheduled, Settled, WakeupsOK,
         HeldSettled, NoLostWakeup, TypeOK, At
    <3>2. QED
      BY <2>1, <3>1, SleepersKept DEF WakeupsOK
  <2>3. ASSUME NEW v \in Workers PROVE HeldSettled(v)'
    <3>1. CASE v = p
      BY <1>3, <3>1 DEF Await, HeldSettled, Settled, Drained, Running, WakeupsOK,
         ControlOK, WorkerControl, HoldsTask, Executing, TypeOK, Goto, Procs,
         Tasks, At
    <3>2. CASE v # p
      BY <1>3, <2>1, <3>2, HeldKept DEF Await, TypeOK, Goto, Procs, Tasks, At
    <3>3. QED
      BY <3>1, <3>2
  <2>4. ASSUME NEW h \in Threads, pc'[h] = "suspend" PROVE Settled(h)'
    BY <1>3, <2>1, <2>4 DEF Await, Running, Drained, Settled, WakeupsOK, TypeOK,
       Goto, Procs, Tasks, At
  <2>5. QED
    BY <2>2, <2>3, <2>4 DEF WakeupsOK
<1>4. ASSUME NEW p \in Procs, StopTask(p) PROVE WakeupsOK'
  <2>1. \A u \in Tasks : Settled(u) => Settled(u)'
    BY <1>4 DEF StopTask, Running, Drained, ControlOK, WorkerControl, HoldsTask,
       Settled, TypeOK
  <2>2. NoLostWakeup'
    <3>1. \A u \in Tasks : AsleepUnscheduled(u)' =>
            ~woken'[u] /\ (AsleepUnscheduled(u) \/ Settled(u))
      BY <1>4 DEF StopTask, PlacementOK, PlacesOK, WorkerPlaces, ThreadPlaces,
         Executed, Executing, Running, AsleepUnscheduled, Settled, WakeupsOK,
         HeldSettled, NoLostWakeup, TypeOK, At
    <3>2. QED
      BY <2>1, <3>1, SleepersKept DEF WakeupsOK
  <2>3. ASSUME NEW v \in Workers PROVE HeldSettled(v)'
    BY <1>4, <2>1, HeldKept DEF StopTask, TypeOK, Goto, Procs, Tasks, At
  <2>4. ASSUME NEW h \in Threads, pc'[h] = "suspend" PROVE Settled(h)'
    BY <1>4, <2>1, <2>4 DEF StopTask, WakeupsOK, TypeOK, Goto, Procs, Tasks, At
  <2>5. QED
    BY <2>2, <2>3, <2>4 DEF WakeupsOK
<1>5. ASSUME NEW p \in Procs, NEW t \in Tasks, Spawn(p, t) PROVE WakeupsOK'
  <2>1. /\ \A u \in Tasks : Settled(u) => Settled(u)'
        /\ \A u \in Tasks : AsleepUnscheduled(u)' =>
             ~woken'[u] /\ AsleepUnscheduled(u)
    BY <1>5, ResumeSettles DEF Spawn, WakeupsOK, TypeOK
  <2>2. NoLostWakeup'
    BY <2>1, SleepersKept DEF WakeupsOK
  <2>3. ASSUME NEW v \in Workers PROVE HeldSettled(v)'
    BY <1>5, <2>1, HeldKept DEF Spawn, TypeOK, Goto, Procs, Tasks, At
  <2>4. ASSUME NEW h \in Threads, pc'[h] = "suspend" PROVE Settled(h)'
    BY <1>5, <2>1, <2>4 DEF Spawn, WakeupsOK, TypeOK, Goto, Procs, Tasks, At
  <2>5. QED
    BY <2>2, <2>3, <2>4 DEF WakeupsOK
<1>6. ASSUME NEW p \in Procs, NEW t \in Tasks, Send(p, t) PROVE WakeupsOK'
  <2>1. /\ \A u \in Tasks : Settled(u) => Settled(u)'
        /\ \A u \in Tasks : AsleepUnscheduled(u)' =>
             ~woken'[u] /\ AsleepUnscheduled(u)
    BY <1>6, ResumeSettles DEF Send, WakeupsOK, TypeOK
  <2>2. NoLostWakeup'
    BY <2>1, SleepersKept DEF WakeupsOK
  <2>3. ASSUME NEW v \in Workers PROVE HeldSettled(v)'
    BY <1>6, <2>1, HeldKept DEF Send, TypeOK, Goto, Procs, Tasks, At
  <2>4. ASSUME NEW h \in Threads, pc'[h] = "suspend" PROVE Settled(h)'
    BY <1>6, <2>1, <2>4 DEF Send, WakeupsOK, TypeOK, Goto, Procs, Tasks, At
  <2>5. QED
    BY <2>2, <2>3, <2>4 DEF WakeupsOK
<1>7. ASSUME NEW p \in Procs, NEW t \in Tasks, Resume(p, t) PROVE WakeupsOK'
  <2>1. /\ \A u \in Tasks : Settled(u) => Settled(u)'
        /\ \A u \in Tasks : AsleepUnscheduled(u)' =>
             ~woken'[u] /\ AsleepUnscheduled(u)
    BY <1>7, ResumeSettles DEF Resume, WakeupsOK, TypeOK
  <2>2. NoLostWakeup'
    BY <2>1, SleepersKept DEF WakeupsOK
  <2>3. ASSUME NEW v \in Workers PROVE HeldSettled(v)'
    BY <1>7, <2>1, HeldKept DEF Resume, TypeOK, Goto, Procs, Tasks, At
  <2>4. ASSUME NEW h \in Threads, pc'[h] = "suspend" PROVE Settled(h)'
    BY <1>7, <2>1, <2>4 DEF Resume, WakeupsOK, TypeOK, Goto, Procs, Tasks, At
  <2>5. QED
    BY <2>2, <2>3, <2>4 DEF WakeupsOK
<1>8. ASSUME NEW w \in Workers, OwnedLoop(w) PROVE WakeupsOK'
  <2>1. \A u \in Tasks : Settled(u) => Settled(u)'
    BY <1>8 DEF OwnedLoop, Settled, TypeOK
  <2>2. NoLostWakeup'
    <3>1. \A u \in Tasks : AsleepUnscheduled(u)' =>
            ~woken'[u] /\ (AsleepUnscheduled(u) \/ Settled(u))
      BY <1>8 DEF OwnedLoop, PlacementOK, PlacesOK, WorkerPlaces, ThreadPlaces,
         Executed, Executing, Running, AsleepUnscheduled, Settled, WakeupsOK,
         HeldSettled, NoLostWakeup, TypeOK, At
    <3>2. QED
      BY <2>1, <3>1, SleepersKept DEF WakeupsOK
  <2>3. ASSUME NEW v \in Workers PROVE HeldSettled(v)'
    <3>1. CASE v = w
      BY <1>8, <3>1 DEF OwnedLoop, HeldSettled, Settled, Drained, Running,
         WakeupsOK, ControlOK, WorkerControl, HoldsTask, Executing, TypeOK, Goto,
         Procs, Tasks, At
    <3>2. CASE v # w
      BY SMTT(40), <1>8, <2>1, <3>2, HeldKept DEF OwnedLoop, TypeOK, Goto, Procs, Tasks, At
    <3>3. QED
      BY <3>1, <3>2
  <2>4. ASSUME NEW h \in Threads, pc'[h] = "suspend" PROVE Settled(h)'
    BY <1>8, <2>1, <2>4 DEF OwnedLoop, WakeupsOK, TypeOK, Goto, Procs, Tasks, At
  <2>5. QED
    BY <2>2, <2>3, <2>4 DEF WakeupsOK
<1>9. ASSUME NEW w \in Workers, UnownedLoop(w) PROVE WakeupsOK'
  <2>1. \A u \in Tasks : Settled(u) => Settled(u)'
    BY <1>9 DEF UnownedLoop, FinishSuspending, Settled, TypeOK
  <2>2. NoLostWakeup'
    <3>1. \A u \in Tasks : AsleepUnscheduled(u)' =>
            ~woken'[u] /\ (AsleepUnscheduled(u) \/ Settled(u))
      BY <1>9 DEF UnownedLoop, FinishSuspending, PlacementOK, PlacesOK,
         WorkerPlaces, ThreadPlaces, Executed, Executing, Running,
         AsleepUnscheduled, Settled, WakeupsOK, HeldSettled, NoLostWakeup,
         TypeOK, At
    <3>2. QED
      BY <2>1, <3>1, SleepersKept DEF WakeupsOK
  <2>3. ASSUME NEW v \in Workers PROVE HeldSettled(v)'
    <3>1. suspendingTask'[v] \in {suspendingTask[v], NoTask}
      BY <1>9 DEF UnownedLoop, FinishSuspending, TypeOK
    <3>2. pc'[v] = IF v = w THEN IF currentTask[w] = NoTask
            THEN "scan" ELSE "picked" ELSE pc[v]
      BY <1>9 DEF UnownedLoop, TypeOK, Goto, Procs
    <3>3. v # w => currentTask'[v] = currentTask[v]
      BY <1>9 DEF UnownedLoop, TypeOK
    <3>4. QED
      BY <2>1, <3>1, <3>2, <3>3, HeldKept
  <2>4. ASSUME NEW h \in Threads, pc'[h] = "suspend" PROVE Settled(h)'
    BY <1>9, <2>1, <2>4 DEF UnownedLoop, WakeupsOK, TypeOK, Goto, Procs, Tasks, At
  <2>5. QED
    BY <2>2, <2>3, <2>4 DEF WakeupsOK
<1>10. ASSUME NEW w \in Workers, Dequeue(w) PROVE WakeupsOK'
  <2>1. UNCHANGED lockedVars /\ suspendingTask' = suspendingTask
    BY <1>10 DEF Dequeue
  <2>2. \A v \in Workers : pc'[v] \in {"suspend", "ending"} =>
          v # w /\ pc'[v] = pc[v]
    BY <1>10 DEF Dequeue, Goto, TypeOK, Procs
  <2>3. \A v \in Workers \ {w} : currentTask'[v] = currentTask[v]
    BY <1>10 DEF Dequeue, TypeOK
  <2>4. \A h \in Threads : pc'[h] = "suspend" => pc[h] = "suspend"
    BY <1>10 DEF Dequeue, Goto, TypeOK, Procs, Tasks
  <2>5. QED
    BY <2>1, <2>2, <2>3, <2>4, WakeupFrame
<1>11. ASSUME NEW w \in Workers, Steal(w) PROVE WakeupsOK'
  <2>1. UNCHANGED lockedVars /\ suspendingTask' = suspendingTask
    BY <1>11 DEF Steal
  <2>2. \A v \in Workers : pc'[v] \in {"suspend", "ending"} =>
          v # w /\ pc'[v] = pc[v]
    BY <1>11 DEF Steal, Goto, TypeOK, Procs
  <2>3. \A v \in Workers \ {w} : currentTask'[v] = currentTask[v]
    BY <1>11 DEF Steal, TypeOK
  <2>4. \A h \in Threads : pc'[h] = "suspend" => pc[h] = "suspend"
    BY <1>11 DEF Steal, Goto, TypeOK, Procs, Tasks
  <2>5. QED
    BY <2>1, <2>2, <2>3, <2>4, WakeupFrame
<1>12. ASSUME NEW w \in Workers, FindNothing(w) PROVE WakeupsOK'
  BY <1>12, WakeupFrame DEF FindNothing
<1>13. ASSUME NEW w \in Workers, SwitchToUnowned(w) PROVE WakeupsOK'
  <2>1. UNCHANGED lockedVars /\ suspendingTask' = suspendingTask
    BY <1>13 DEF SwitchToUnowned
  <2>2. \A v \in Workers : pc'[v] \in {"suspend", "ending"} =>
          v # w /\ pc'[v] = pc[v]
    BY <1>13 DEF SwitchToUnowned, Goto, TypeOK, Procs
  <2>3. \A v \in Workers \ {w} : currentTask'[v] = currentTask[v]
    BY <1>13 DEF SwitchToUnowned, TypeOK
  <2>4. \A h \in Threads : pc'[h] = "suspend" => pc[h] = "suspend"
    BY <1>13 DEF SwitchToUnowned, Goto, TypeOK, Procs, Tasks
  <2>5. QED
    BY <2>1, <2>2, <2>3, <2>4, WakeupFrame
<1>14. ASSUME NEW w \in Workers, Spin(w) PROVE WakeupsOK'
  <2>1. UNCHANGED lockedVars /\ suspendingTask' = suspendingTask
    BY <1>14 DEF Spin
  <2>2. \A v \in Workers : pc'[v] \in {"suspend", "ending"} =>
          v # w /\ pc'[v] = pc[v]
    BY <1>14 DEF Spin, Goto, TypeOK, Procs
  <2>3. \A v \in Workers \ {w} : currentTask'[v] = currentTask[v]
    BY <1>14 DEF Spin, TypeOK
  <2>4. \A h \in Threads : pc'[h] = "suspend" => pc[h] = "suspend"
    BY <1>14 DEF Spin, Goto, TypeOK, Procs, Tasks
  <2>5. QED
    BY <2>1, <2>2, <2>3, <2>4, WakeupFrame
<1>15. ASSUME NEW w \in Workers, SwitchToTask(w) PROVE WakeupsOK'
  <2>1. UNCHANGED lockedVars /\ suspendingTask' = suspendingTask
    BY <1>15 DEF SwitchToTask
  <2>2. \A v \in Workers : pc'[v] \in {"suspend", "ending"} =>
          v # w /\ pc'[v] = pc[v]
    BY <1>15 DEF SwitchToTask, Goto, TypeOK, Procs
  <2>3. \A v \in Workers \ {w} : currentTask'[v] = currentTask[v]
    BY <1>15 DEF SwitchToTask, TypeOK
  <2>4. \A h \in Threads : pc'[h] = "suspend" => pc[h] = "suspend"
    BY <1>15 DEF SwitchToTask, Goto, TypeOK, Procs, Tasks
  <2>5. QED
    BY <2>1, <2>2, <2>3, <2>4, WakeupFrame
<1>16. ASSUME NEW w \in Workers, Land(w) PROVE WakeupsOK'
  <2>1. \A u \in Tasks : Settled(u) => Settled(u)'
    BY <1>16 DEF Land, FinishSuspending, Settled, TypeOK
  <2>2. NoLostWakeup'
    <3>1. \A u \in Tasks : AsleepUnscheduled(u)' =>
            ~woken'[u] /\ (AsleepUnscheduled(u) \/ Settled(u))
      BY <1>16 DEF Land, FinishSuspending, PlacementOK, PlacesOK, WorkerPlaces,
         ThreadPlaces, Executed, Executing, Running, AsleepUnscheduled, Settled,
         WakeupsOK, HeldSettled, NoLostWakeup, TypeOK, At
    <3>2. QED
      BY <2>1, <3>1, SleepersKept DEF WakeupsOK
  <2>3. ASSUME NEW v \in Workers PROVE HeldSettled(v)'
    BY SMTT(40), <1>16, <2>1, HeldKept DEF Land, FinishSuspending, TypeOK, Goto, Procs,
       Tasks, At
  <2>4. ASSUME NEW h \in Threads, pc'[h] = "suspend" PROVE Settled(h)'
    BY <1>16, <2>1, <2>4 DEF Land, WakeupsOK, TypeOK, Goto, Procs, Tasks, At
  <2>5. QED
    BY <2>2, <2>3, <2>4 DEF WakeupsOK
<1>17. ASSUME NEW w \in Workers, Enter(w) PROVE WakeupsOK'
  <2>1. \A u \in Tasks : Settled(u) => Settled(u)'
    BY <1>17 DEF Enter, Settled, TypeOK
  <2>2. NoLostWakeup'
    <3>1. \A u \in Tasks : AsleepUnscheduled(u)' =>
            ~woken'[u] /\ (AsleepUnscheduled(u) \/ Settled(u))
      BY <1>17 DEF Enter, PlacementOK, PlacesOK, WorkerPlaces, ThreadPlaces,
         Executed, Executing, Running, AsleepUnscheduled, Settled, WakeupsOK,
         HeldSettled, NoLostWakeup, TypeOK, At
    <3>2. QED
      BY <2>1, <3>1, SleepersKept DEF WakeupsOK
  <2>3. ASSUME NEW v \in Workers PROVE HeldSettled(v)'
    BY <1>17, <2>1, HeldKept DEF Enter, TypeOK, Goto, Procs, Tasks, At
  <2>4. ASSUME NEW h \in Threads, pc'[h] = "suspend" PROVE Settled(h)'
    BY <1>17, <2>1, <2>4 DEF Enter, WakeupsOK, TypeOK, Goto, Procs, Tasks, At
  <2>5. QED
    BY <2>2, <2>3, <2>4 DEF WakeupsOK
<1>18. ASSUME NEW w \in Workers, StartTask(w) PROVE WakeupsOK'
  <2>1. \A u \in Tasks : Settled(u) => Settled(u)'
    BY <1>18 DEF StartTask, Settled, TypeOK
  <2>2. NoLostWakeup'
    <3>1. \A u \in Tasks : AsleepUnscheduled(u)' =>
            ~woken'[u] /\ (AsleepUnscheduled(u) \/ Settled(u))
      BY <1>18 DEF StartTask, PlacementOK, PlacesOK, WorkerPlaces, ThreadPlaces,
         Executed, Executing, Running, AsleepUnscheduled, Settled, WakeupsOK,
         HeldSettled, NoLostWakeup, TypeOK, At
    <3>2. QED
      BY <2>1, <3>1, SleepersKept DEF WakeupsOK
  <2>3. ASSUME NEW v \in Workers PROVE HeldSettled(v)'
    BY <1>18, <2>1, HeldKept DEF StartTask, TypeOK, Goto, Procs, Tasks, At
  <2>4. ASSUME NEW h \in Threads, pc'[h] = "suspend" PROVE Settled(h)'
    BY <1>18, <2>1, <2>4 DEF StartTask, WakeupsOK, TypeOK, Goto, Procs, Tasks, At
  <2>5. QED
    BY <2>2, <2>3, <2>4 DEF WakeupsOK
<1>19. ASSUME NEW w \in Workers, FinishMain(w) PROVE WakeupsOK'
  <2>1. \A u \in Tasks : Settled(u) => Settled(u)'
    BY <1>19 DEF FinishMain, Retire, Settled, TypeOK
  <2>2. NoLostWakeup'
    <3>1. \A u \in Tasks : AsleepUnscheduled(u)' =>
            ~woken'[u] /\ (AsleepUnscheduled(u) \/ Settled(u))
      BY <1>19 DEF FinishMain, Retire, PlacementOK, PlacesOK, WorkerPlaces,
         ThreadPlaces, Executed, Executing, Running, AsleepUnscheduled, Settled,
         WakeupsOK, HeldSettled, NoLostWakeup, TypeOK, At
    <3>2. QED
      BY <2>1, <3>1, SleepersKept DEF WakeupsOK
  <2>3. ASSUME NEW v \in Workers PROVE HeldSettled(v)'
    BY SMTT(40), <1>19, <2>1, HeldKept DEF FinishMain, Retire, TypeOK, Goto, Procs, Tasks, At
  <2>4. ASSUME NEW h \in Threads, pc'[h] = "suspend" PROVE Settled(h)'
    BY <1>19, <2>1, <2>4 DEF FinishMain, Retire, WakeupsOK, TypeOK, Goto, Procs,
       Tasks, At
  <2>5. QED
    BY <2>2, <2>3, <2>4 DEF WakeupsOK
<1>20. ASSUME NEW w \in Workers, StopWorker(w) PROVE WakeupsOK'
  <2>1. UNCHANGED lockedVars /\ suspendingTask' = suspendingTask
    BY <1>20 DEF StopWorker
  <2>2. \A v \in Workers : pc'[v] \in {"suspend", "ending"} =>
          v # w /\ pc'[v] = pc[v]
    BY <1>20 DEF StopWorker, Goto, TypeOK, Procs
  <2>3. \A v \in Workers \ {w} : currentTask'[v] = currentTask[v]
    BY <1>20 DEF StopWorker, TypeOK
  <2>4. \A h \in Threads : pc'[h] = "suspend" => pc[h] = "suspend"
    BY <1>20 DEF StopWorker, Goto, TypeOK, Procs, Tasks
  <2>5. QED
    BY <2>1, <2>2, <2>3, <2>4, WakeupFrame
<1>21. ASSUME NEW w \in Workers, Yield(w) PROVE WakeupsOK'
  <2>1. \A u \in Tasks : Settled(u) => Settled(u)'
    BY <1>21 DEF Yield, Settled, TypeOK
  <2>2. NoLostWakeup'
    <3>1. \A u \in Tasks : AsleepUnscheduled(u)' =>
            ~woken'[u] /\ (AsleepUnscheduled(u) \/ Settled(u))
      BY <1>21 DEF Yield, PlacementOK, PlacesOK, WorkerPlaces, ThreadPlaces,
         Executed, Executing, Running, AsleepUnscheduled, Settled, WakeupsOK,
         HeldSettled, NoLostWakeup, TypeOK, At
    <3>2. QED
      BY <2>1, <3>1, SleepersKept DEF WakeupsOK
  <2>3. ASSUME NEW v \in Workers PROVE HeldSettled(v)'
    <3>1. CASE v = w
      BY <1>21, <3>1 DEF Yield, HeldSettled, Settled, Drained, Running,
         WakeupsOK, ControlOK, WorkerControl, HoldsTask, Executing, TypeOK, Goto,
         Procs, Tasks, At
    <3>2. CASE v # w
      BY <1>21, <2>1, <3>2, HeldKept DEF Yield, TypeOK, Goto, Procs, Tasks, At
    <3>3. QED
      BY <3>1, <3>2
  <2>4. ASSUME NEW h \in Threads, pc'[h] = "suspend" PROVE Settled(h)'
    BY <1>21, <2>1, <2>4 DEF Yield, WakeupsOK, TypeOK, Goto, Procs, Tasks, At
  <2>5. QED
    BY <2>2, <2>3, <2>4 DEF WakeupsOK
<1>22. ASSUME NEW w \in Workers, PinTask(w) PROVE WakeupsOK'
  BY <1>22, WakeupFrame DEF PinTask
<1>23. ASSUME NEW w \in Workers, UnpinTask(w) PROVE WakeupsOK'
  BY <1>23, WakeupFrame DEF UnpinTask
<1>24. ASSUME NEW w \in Workers, ReturnFiber(w) PROVE WakeupsOK'
  <2>1. \A u \in Tasks : Settled(u) => Settled(u)'
    BY <1>24 DEF ReturnFiber, Settled, TypeOK
  <2>2. NoLostWakeup'
    <3>1. \A u \in Tasks : AsleepUnscheduled(u)' =>
            ~woken'[u] /\ (AsleepUnscheduled(u) \/ Settled(u))
      BY <1>24 DEF ReturnFiber, PlacementOK, PlacesOK, WorkerPlaces,
         ThreadPlaces, Executed, Executing, Running, AsleepUnscheduled, Settled,
         WakeupsOK, HeldSettled, NoLostWakeup, TypeOK, At
    <3>2. QED
      BY <2>1, <3>1, SleepersKept DEF WakeupsOK
  <2>3. ASSUME NEW v \in Workers PROVE HeldSettled(v)'
    <3>1. CASE v = w
      BY <1>24, <3>1 DEF ReturnFiber, HeldSettled, Settled, Drained, Running,
         WakeupsOK, ControlOK, WorkerControl, HoldsTask, Executing, TypeOK, Goto,
         Procs, Tasks, At
    <3>2. CASE v # w
      BY <1>24, <2>1, <3>2, HeldKept DEF ReturnFiber, TypeOK, Goto, Procs, Tasks, At
    <3>3. QED
      BY <3>1, <3>2
  <2>4. ASSUME NEW h \in Threads, pc'[h] = "suspend" PROVE Settled(h)'
    BY <1>24, <2>1, <2>4 DEF ReturnFiber, WakeupsOK, TypeOK, Goto, Procs, Tasks, At
  <2>5. QED
    BY <2>2, <2>3, <2>4 DEF WakeupsOK
<1>25. ASSUME NEW w \in Workers, ReturnActor(w) PROVE WakeupsOK'
  <2>1. \A u \in Tasks : Settled(u) => Settled(u)'
    BY <1>25 DEF ReturnActor, Drained, Settled, TypeOK
  <2>2. NoLostWakeup'
    <3>1. \A u \in Tasks : AsleepUnscheduled(u)' =>
            ~woken'[u] /\ (AsleepUnscheduled(u) \/ Settled(u))
      BY <1>25 DEF ReturnActor, Drained, PlacementOK, PlacesOK, WorkerPlaces,
         ThreadPlaces, Executed, Executing, Running, AsleepUnscheduled, Settled,
         WakeupsOK, HeldSettled, NoLostWakeup, TypeOK, At
    <3>2. QED
      BY <2>1, <3>1, SleepersKept DEF WakeupsOK
  <2>3. ASSUME NEW v \in Workers PROVE HeldSettled(v)'
    <3>1. CASE v = w
      BY <1>25, <3>1 DEF ReturnActor, HeldSettled, Settled, Drained, Running,
         WakeupsOK, ControlOK, WorkerControl, HoldsTask, Executing, TypeOK, Goto,
         Procs, Tasks, At
    <3>2. CASE v # w
      BY <1>25, <2>1, <3>2, HeldKept DEF ReturnActor, TypeOK, Goto, Procs, Tasks, At
    <3>3. QED
      BY <3>1, <3>2
  <2>4. ASSUME NEW h \in Threads, pc'[h] = "suspend" PROVE Settled(h)'
    BY <1>25, <2>1, <2>4 DEF ReturnActor, WakeupsOK, TypeOK, Goto, Procs, Tasks, At
  <2>5. QED
    BY <2>2, <2>3, <2>4 DEF WakeupsOK
<1>26. ASSUME NEW w \in Workers, FinishListening(w) PROVE WakeupsOK'
  <2>1. \A u \in Tasks : Settled(u) => Settled(u)'
    BY <1>26 DEF FinishListening, Retire, Drained, Settled, TypeOK
  <2>2. NoLostWakeup'
    <3>1. \A u \in Tasks : AsleepUnscheduled(u)' =>
            ~woken'[u] /\ (AsleepUnscheduled(u) \/ Settled(u))
      BY <1>26 DEF FinishListening, Retire, Drained, PlacementOK, PlacesOK,
         WorkerPlaces, ThreadPlaces, Executed, Executing, Running,
         AsleepUnscheduled, Settled, WakeupsOK, HeldSettled, NoLostWakeup,
         TypeOK, At
    <3>2. QED
      BY <2>1, <3>1, SleepersKept DEF WakeupsOK
  <2>3. ASSUME NEW v \in Workers PROVE HeldSettled(v)'
    BY SMTT(40), <1>26, <2>1, HeldKept DEF FinishListening, Retire, Drained, TypeOK, Goto,
       Procs, Tasks, At
  <2>4. ASSUME NEW h \in Threads, pc'[h] = "suspend" PROVE Settled(h)'
    BY <1>26, <2>1, <2>4 DEF FinishListening, Retire, Drained, WakeupsOK, TypeOK,
       Goto, Procs, Tasks, At
  <2>5. QED
    BY <2>2, <2>3, <2>4 DEF WakeupsOK
<1>27. ASSUME NEW w \in Workers, RequestStop(w) PROVE WakeupsOK'
  BY <1>27, WakeupFrame DEF RequestStop
<1>28. ASSUME NEW th \in Threads, SuspendThread(th) PROVE WakeupsOK'
  <2>1. \A u \in Tasks : Settled(u) => Settled(u)'
    BY <1>28 DEF SuspendThread, Settled, TypeOK
  <2>2. NoLostWakeup'
    <3>1. \A u \in Tasks : AsleepUnscheduled(u)' =>
            ~woken'[u] /\ (AsleepUnscheduled(u) \/ Settled(u))
      BY <1>28 DEF SuspendThread, PlacementOK, PlacesOK, WorkerPlaces,
         ThreadPlaces, Executed, Executing, Running, AsleepUnscheduled, Settled,
         WakeupsOK, HeldSettled, NoLostWakeup, TypeOK, At
    <3>2. QED
      BY <2>1, <3>1, SleepersKept DEF WakeupsOK
  <2>3. ASSUME NEW v \in Workers PROVE HeldSettled(v)'
    BY <1>28, <2>1, HeldKept DEF SuspendThread, TypeOK, Goto, Procs, Tasks, At
  <2>4. ASSUME NEW h \in Threads, pc'[h] = "suspend" PROVE Settled(h)'
    BY <1>28, <2>1, <2>4 DEF SuspendThread, WakeupsOK, TypeOK, Goto, Procs,
       Tasks, At
  <2>5. QED
    BY <2>2, <2>3, <2>4 DEF WakeupsOK
<1>29. ASSUME NEW th \in Threads, WakeThread(th) PROVE WakeupsOK'
  BY <1>29, WakeupFrame DEF WakeThread, Goto, TypeOK, Procs, Tasks
<1>30. ASSUME NEW p \in Procs, NEW th \in OSThreads, SpawnThread(p, th) PROVE WakeupsOK'
  BY <1>30, WakeupFrame DEF SpawnThread, Goto, TypeOK, Procs, Tasks
<1>31. ASSUME NEW th \in Threads, ReturnThread(th) \/ MailProcessed(th) PROVE WakeupsOK'
  <2>1. \A u \in Tasks : Settled(u) => Settled(u)'
    BY <1>31 DEF ReturnThread, MailProcessed, Drained, Settled, TypeOK
  <2>2. NoLostWakeup'
    <3>1. \A u \in Tasks : AsleepUnscheduled(u)' =>
            ~woken'[u] /\ AsleepUnscheduled(u)
      BY <1>31 DEF ReturnThread, MailProcessed, AsleepUnscheduled, WakeupsOK,
         NoLostWakeup, TypeOK
    <3>2. QED
      BY <2>1, <3>1, SleepersKept DEF WakeupsOK
  <2>3. ASSUME NEW v \in Workers PROVE HeldSettled(v)'
    BY <1>31, <2>1, HeldKept DEF ReturnThread, MailProcessed, TypeOK, Goto, Procs,
       Tasks, At
  <2>4. ASSUME NEW h \in Threads, pc'[h] = "suspend" PROVE Settled(h)'
    BY <1>31, <2>1, <2>4 DEF ReturnThread, MailProcessed, WakeupsOK, TypeOK, Goto,
       Procs, Tasks, At
  <2>5. QED
    BY <2>2, <2>3, <2>4 DEF WakeupsOK
<1>32. ASSUME NEW th \in Threads, ProcessMail(th) PROVE WakeupsOK'
  BY <1>32, WakeupFrame DEF ProcessMail, Goto, TypeOK, Procs, Tasks
<1>33. ASSUME NEW th \in Threads, KillThread(th) PROVE WakeupsOK'
  <2>1. \A u \in Tasks : Settled(u) => Settled(u)'
    BY <1>33 DEF KillThread, Settled, TypeOK
  <2>2. NoLostWakeup'
    <3>1. \A u \in Tasks : AsleepUnscheduled(u)' =>
            ~woken'[u] /\ AsleepUnscheduled(u)
      BY <1>33 DEF KillThread, AsleepUnscheduled, WakeupsOK, NoLostWakeup, TypeOK,
         Tasks
    <3>2. QED
      BY <2>1, <3>1, SleepersKept DEF WakeupsOK
  <2>3. ASSUME NEW v \in Workers PROVE HeldSettled(v)'
    BY <1>33, <2>1, HeldKept DEF KillThread, TypeOK, Goto, Procs, Tasks
  <2>4. ASSUME NEW h \in Threads, pc'[h] = "suspend" PROVE Settled(h)'
    BY <1>33, <2>1, <2>4 DEF KillThread, WakeupsOK, TypeOK, Goto, Procs, Tasks
  <2>5. QED
    BY <2>2, <2>3, <2>4 DEF WakeupsOK
<1>34. (\E th \in Threads : ThreadLoop(th)) => WakeupsOK'
  BY <1>28, <1>29, <1>32, <1>33 DEF ThreadLoop, EndThread
<1>35. (\E th \in OSThreads : ThreadCode(th)) => WakeupsOK'
  BY <1>31, <1>33 DEF ThreadCode, ThrowThread
<1>36. QED
  BY <1>1, <1>2, <1>3, <1>4, <1>5, <1>6, <1>7, <1>8, <1>9, <1>10, <1>11, <1>12,
     <1>13, <1>14, <1>15, <1>16, <1>17, <1>18, <1>19, <1>20, <1>21, <1>22, <1>23,
     <1>24, <1>25, <1>26, <1>27, <1>30, <1>34, <1>35 DEF Next, WorkerLoop, TaskCode

(* The part of PinnedStaysHome about the queues.                           *)
QueuesHome == \A w \in Workers, c \in Priority :
  \A i \in 1 .. Len(queue[w][c]) : Home(queue[w][c][i], w)

HandsHome(w) == /\ currentTask[w] # NoTask => Home(currentTask[w], w)
                /\ suspendingTask[w] # NoTask => Home(suspendingTask[w], w)

(* Queues and pins are left alone.                                         *)
LEMMA QueuesHomeFrame ==
  ASSUME PinnedStaysHome, UNCHANGED <<pin, queue>>
  PROVE  QueuesHome'
  BY DEF PinnedStaysHome, QueuesHome, Home

(* One queue is replaced by one whose tasks are at home there.             *)
LEMMA QueuesHomeStep ==
  ASSUME PinnedStaysHome, TypeOK, UNCHANGED pin, NEW v \in Workers,
         NEW c \in Priority,
         NEW s \in Seq(Tasks), QueueReplaced(v, c, s),
         \A i \in 1 .. Len(s) : \/ \E j \in 1 .. Len(queue[v][c]) : s[i] = queue[v][c][j]
                                \/ Home(s[i], v)
  PROVE  QueuesHome'
<1>1. /\ queue'[v][c] = s
      /\ \A x \in Workers, e \in Priority : ~(x = v /\ e = c) =>
           queue'[x][e] = queue[x][e]
  BY DEF QueueReplaced, TypeOK
<1>2. ASSUME NEW i \in 1 .. Len(s) PROVE Home(s[i], v)
  BY <1>2 DEF PinnedStaysHome
<1>3. ASSUME NEW x \in Workers, NEW e \in Priority, NEW i \in 1 .. Len(queue'[x][e])
      PROVE  pin[queue'[x][e][i]] \in {x, NoPin}
  <2>1. CASE x = v /\ e = c
    BY <1>1, <1>2, <2>1 DEF Home
  <2>2. CASE ~(x = v /\ e = c)
    BY <1>1, <2>2 DEF PinnedStaysHome, Home
  <2>3. QED
    BY <2>1, <2>2
<1>4. QED
  BY <1>3 DEF QueuesHome, Home

(* The pin of a task changes that is in no queue.                          *)
LEMMA QueuesHomeAlone ==
  ASSUME PinnedStaysHome, TypeOK, NEW t \in Tasks, ~Queued(t), UNCHANGED queue,
         \A u \in Tasks \ {t} : pin'[u] = pin[u]
  PROVE  QueuesHome'
<1>1. ASSUME NEW x \in Workers, NEW e \in Priority, NEW i \in 1 .. Len(queue[x][e])
      PROVE  queue[x][e][i] \in Tasks \ {t}
  BY DEF TypeOK, Queued
<1>2. QED
  BY <1>1 DEF PinnedStaysHome, QueuesHome, Home

(* Queues and pins are left alone, and workers keep the tasks they hold.   *)
LEMMA HomeFrame ==
  ASSUME TypeOK, PinnedStaysHome, UNCHANGED <<pin, queue, pushes>>,
         \A v \in Workers : currentTask'[v] \in {currentTask[v], NoTask},
         \A v \in Workers :
           suspendingTask'[v] \in {suspendingTask[v], currentTask[v], NoTask}
  PROVE  PinnedStaysHome'
<1>1. QueuesHome'
  BY QueuesHomeFrame
<1>2. ASSUME NEW v \in Workers
      PROVE  /\ currentTask'[v] # NoTask => Home(currentTask[v], v)'
             /\ suspendingTask'[v] # NoTask => Home(suspendingTask[v], v)'
  BY DEF PinnedStaysHome, Home
<1>3. \A r \in pushes' : Home(r.task, r.at)'
  BY DEF PinnedStaysHome, Home
<1>4. QED
  BY <1>1, <1>2, <1>3 DEF PinnedStaysHome, QueuesHome

(* A thread's task is in no queue and no worker's hands: its pin may go.   *)
LEMMA HomeOfThread ==
  ASSUME TypeOK, ControlOK, PlacementOK, PinnedStaysHome, NEW th \in Threads,
         UNCHANGED <<queue, pushes, currentTask, suspendingTask>>,
         \A u \in Tasks \ {th} : pin'[u] = pin[u]
  PROVE  PinnedStaysHome'
<1>1. ASSUME NEW v \in Workers, NEW c \in Priority, NEW i \in 1 .. Len(queue[v][c])
      PROVE  Home(queue[v][c][i], v)'
  <2>1. PICK q \in Seq(Tasks) : q = queue[v][c]
    BY DEF TypeOK
  <2>2. q[i] \in Tasks \ {th}
    BY <1>1, <2>1 DEF PlacementOK, PlacesOK, QueuesWait, Waiting
  <2>3. QED
    BY <1>1, <2>1, <2>2 DEF PinnedStaysHome, Home
<1>2. ASSUME NEW r \in pushes PROVE Home(r.task, r.at)'
  <2>1. r.task \in Tasks \ {th}
    BY <1>2 DEF PlacementOK, PlacesOK, PushesWait, Waiting, TypeOK, Push
  <2>2. QED
    BY <1>2, <2>1 DEF PinnedStaysHome, Home
<1>3. ASSUME NEW v \in Workers
      PROVE  /\ currentTask[v] # NoTask => Home(currentTask[v], v)'
             /\ suspendingTask[v] # NoTask => Home(suspendingTask[v], v)'
  <2>1. /\ currentTask[v] # NoTask => currentTask[v] \in Tasks \ {th}
        /\ suspendingTask[v] # NoTask => suspendingTask[v] \in Tasks \ {th}
    BY DEF TypeOK, ControlOK, WorkerControl
  <2>2. QED
    BY <2>1 DEF PinnedStaysHome, Home
<1>4. QED
  BY <1>1, <1>2, <1>3 DEF PinnedStaysHome, Home

(* A pinned task stays with its worker: resume() sends it there, thieves   *)
(* leave it alone, and a pin is taken only while the task runs.            *)
LEMMA HomeStep ==
  ASSUME TypeOK, ControlOK, PlacementOK, PinnedStaysHome, TypeOK', ControlOK', Next
  PROVE  PinnedStaysHome'
<1> USE DEF lockedVars, ownVars, queueVars, stackVars, loopVars
<1>1. ASSUME NEW p \in Procs, FinishPush(p) PROVE PinnedStaysHome'
  <2>1. PICK r \in pushes :
          /\ queue' = [queue EXCEPT ![r.at][r.class] = PushFront(@, r.task)]
          /\ pushes' = pushes \ {r}
               /\ UNCHANGED <<pin, currentTask, suspendingTask>>
    BY <1>1 DEF FinishPush
  <2>2. PICK t \in Tasks, v \in Workers, c \in Priority : t = r.task
          /\ v = r.at /\ c = r.class
    BY DEF TypeOK, Push
  <2>3. PICK s \in Seq(Tasks) : s = queue[v][c]
    BY DEF TypeOK
  <2>4. QueueReplaced(v, c, PushFront(s, t)) /\ PushFront(s, t) \in Seq(Tasks)
    BY <2>1, <2>2, <2>3, PushFrontIndex DEF QueueReplaced
  <2>5. ASSUME NEW i \in 1 .. Len(PushFront(s, t))
        PROVE  \/ \E j \in 1 .. Len(queue[v][c]) : PushFront(s, t)[i] = queue[v][c][j]
               \/ Home(PushFront(s, t)[i], v)
    <3>1. CASE i = 1
      <4>1. Home(t, v)
        BY <2>2 DEF PinnedStaysHome
      <4>2. PushFront(s, t)[1] = t
        BY PushFrontIndex
      <4>3. QED
        BY <3>1, <4>1, <4>2
    <3>2. CASE i # 1
      <4>1. i \in 2 .. Len(s) + 1 /\ i - 1 \in 1 .. Len(s)
        BY <3>2, PushFrontIndex
      <4>2. PushFront(s, t)[i] = s[i - 1]
        BY <4>1, PushFrontIndex
      <4>3. QED
        BY <2>3, <4>1, <4>2
    <3>3. QED
      BY <3>1, <3>2
  <2>6. QueuesHome'
    BY <2>1, <2>4, <2>5, QueuesHomeStep
  <2>7. QED
    BY <2>1, <2>6 DEF PinnedStaysHome, QueuesHome, Home
<1>2. ASSUME NEW p \in Procs, Dispatch(p) PROVE PinnedStaysHome'
  BY <1>2, HomeFrame DEF Dispatch
<1>3. ASSUME NEW p \in Procs, Await(p) PROVE PinnedStaysHome'
  BY <1>3, HomeFrame DEF Await
<1>4. ASSUME NEW p \in Procs, StopTask(p) PROVE PinnedStaysHome'
  BY <1>4, HomeFrame DEF StopTask
<1>5. ASSUME NEW p \in Procs, NEW t \in Tasks, Spawn(p, t) PROVE PinnedStaysHome'
  <2>1. ResumeTask(p, t) /\ UNCHANGED <<pin, queue, currentTask, suspendingTask>>
    BY <1>5 DEF Spawn
  <2>2. QueuesHome'
    BY <2>1, QueuesHomeFrame
  <2>3. \A r \in pushes' \ pushes : Home(r.task, r.at)
    BY <2>1 DEF ResumeTask, Schedule, Home, TypeOK, Tasks, Procs
  <2>4. QED
    BY <2>1, <2>2, <2>3 DEF PinnedStaysHome, QueuesHome, Home
<1>6. ASSUME NEW p \in Procs, NEW t \in Tasks, Send(p, t) PROVE PinnedStaysHome'
  <2>1. ResumeTask(p, t) /\ UNCHANGED <<pin, queue, currentTask, suspendingTask>>
    BY <1>6 DEF Send
  <2>2. QueuesHome'
    BY <2>1, QueuesHomeFrame
  <2>3. \A r \in pushes' \ pushes : Home(r.task, r.at)
    BY <2>1 DEF ResumeTask, Schedule, Home, TypeOK, Tasks, Procs
  <2>4. QED
    BY <2>1, <2>2, <2>3 DEF PinnedStaysHome, QueuesHome, Home
<1>7. ASSUME NEW p \in Procs, NEW t \in Tasks, Resume(p, t) PROVE PinnedStaysHome'
  <2>1. ResumeTask(p, t) /\ UNCHANGED <<pin, queue, currentTask, suspendingTask>>
    BY <1>7 DEF Resume
  <2>2. QueuesHome'
    BY <2>1, QueuesHomeFrame
  <2>3. \A r \in pushes' \ pushes : Home(r.task, r.at)
    BY <2>1 DEF ResumeTask, Schedule, Home, TypeOK, Tasks, Procs
  <2>4. QED
    BY <2>1, <2>2, <2>3 DEF PinnedStaysHome, QueuesHome, Home
<1>8. ASSUME NEW w \in Workers, OwnedLoop(w) PROVE PinnedStaysHome'
  BY <1>8, HomeFrame DEF OwnedLoop, TypeOK
<1>9. ASSUME NEW w \in Workers, UnownedLoop(w) PROVE PinnedStaysHome'
  <2>1. QueuesHome'
    BY <1>9, QueuesHomeFrame DEF UnownedLoop
  <2>2. \A r \in pushes' : Home(r.task, r.at)'
    BY <1>9 DEF UnownedLoop, FinishSuspending, PinnedStaysHome, Home
  <2>3. pin' = pin /\ currentTask' = currentTask
    BY <1>9 DEF UnownedLoop
  <2>4. \A v \in Workers : suspendingTask'[v] \in {suspendingTask[v], NoTask}
    BY <1>9 DEF UnownedLoop, FinishSuspending, TypeOK
  <2>5. QED
    BY <2>1, <2>2, <2>3, <2>4 DEF PinnedStaysHome, QueuesHome, Home
<1>10. ASSUME NEW w \in Workers, Dequeue(w) PROVE PinnedStaysHome'
  <2>1. PICK c \in Priority : c = ScanClass(w)
    BY ScanType
  <2>2. PICK s \in Seq(Tasks) : s = queue[w][c] /\ s # << >>
    BY <1>10, <2>1 DEF TypeOK, Dequeue, CanDequeue
  <2>3. QueueReplaced(w, c, Tail(s)) /\ Tail(s) \in Seq(Tasks)
          /\ UNCHANGED <<pin, pushes, suspendingTask>>
    BY <1>10, <2>1, <2>2, QueueType DEF Dequeue, QueueReplaced, TypeOK
  <2>4. 1 \in 1 .. Len(s) /\ Head(s) = s[1]
          /\ \A i \in 1 .. Len(Tail(s)) : Tail(s)[i] = s[i + 1]
               /\ i + 1 \in 1 .. Len(s)
    BY <2>2
  <2>5. QueuesHome'
    BY <2>2, <2>3, <2>4, QueuesHomeStep
  <2>6. Home(Head(s), w)
    BY <2>2, <2>4 DEF PinnedStaysHome
  <2>7. currentTask' = [currentTask EXCEPT ![w] = Head(s)]
    BY <1>10, <2>1, <2>2 DEF Dequeue
  <2>8. ASSUME NEW x \in Workers PROVE HandsHome(x)'
    <3>1. CASE x = w
      BY <2>3, <2>6, <2>7, <3>1 DEF PinnedStaysHome, Home, TypeOK, HandsHome
    <3>2. CASE x # w
      <4>1. HandsHome(x)
        BY DEF PinnedStaysHome, HandsHome
      <4>2. currentTask'[x] = currentTask[x]
        BY <2>7, <3>2 DEF TypeOK
      <4>3. QED
        BY <2>3, <4>1, <4>2 DEF HandsHome, Home
    <3>3. QED
      BY <3>1, <3>2
  <2>9. \A r \in pushes' : Home(r.task, r.at)'
    BY <2>3 DEF PinnedStaysHome, Home
  <2>10. QED
    BY <2>5, <2>8, <2>9 DEF PinnedStaysHome, QueuesHome, HandsHome
<1>11. ASSUME NEW w \in Workers, Steal(w) PROVE PinnedStaysHome'
  <2>1. PICK c \in Priority : c = ScanClass(w)
    BY ScanType
  <2>2. PICK v \in Workers :
          /\ CanDequeue(w, v, c)
          /\ currentTask' = [currentTask EXCEPT ![w] = Last(queue[v][c])]
          /\ queue' = [queue EXCEPT ![v][c] = DropLast(queue[v][c])]
    BY <1>11, <2>1, ScanType DEF Steal
  <2>3. PICK s \in Seq(Tasks) : s = queue[v][c] /\ s # << >>
    BY <2>2 DEF TypeOK, CanDequeue
  <2>4. QueueReplaced(v, c, DropLast(s)) /\ DropLast(s) \in Seq(Tasks)
          /\ UNCHANGED <<pin, pushes, suspendingTask>>
    BY <1>11, <2>2, <2>3, QueueType DEF Steal, QueueReplaced
  <2>5. \A i \in 1 .. Len(DropLast(s)) : i + 0 \in 1 .. Len(s)
          /\ DropLast(s)[i] = s[i + 0]
    BY <2>3, RemoveLast DEF Removed
  <2>6. QueuesHome'
    BY <2>3, <2>4, <2>5, QueuesHomeStep
  <2>7. pin[Last(queue[v][c])] = NoPin
    <3>1. ~(scan[w].step < OwnSteps)
      <4>1. OwnSteps \in Int /\ LastStep \in Int
        BY DEF OwnSteps, LastStep
      <4>2. scan[w].step \in OwnSteps .. LastStep - 1
        BY <1>11 DEF Steal
      <4>3. QED
        BY <4>1, <4>2
    <3>2. QED
      BY <2>2, <3>1 DEF CanDequeue
  <2>8. \A x \in Workers : /\ currentTask'[x] # NoTask => pin'[currentTask'[x]] \in {x, NoPin}
                           /\ suspendingTask'[x] # NoTask =>
                                pin'[suspendingTask'[x]] \in {x, NoPin}
    BY SMTT(40), <2>2, <2>4, <2>7 DEF PinnedStaysHome, Home, TypeOK
  <2>9. QED
    BY <2>4, <2>6, <2>8 DEF PinnedStaysHome, QueuesHome, Home
<1>12. ASSUME NEW w \in Workers, FindNothing(w) PROVE PinnedStaysHome'
  BY <1>12, HomeFrame DEF FindNothing
<1>13. ASSUME NEW w \in Workers, SwitchToUnowned(w) PROVE PinnedStaysHome'
  BY <1>13, HomeFrame DEF SwitchToUnowned
<1>14. ASSUME NEW w \in Workers, Spin(w) PROVE PinnedStaysHome'
  BY <1>14, HomeFrame DEF Spin
<1>15. ASSUME NEW w \in Workers, SwitchToTask(w) PROVE PinnedStaysHome'
  BY <1>15, HomeFrame DEF SwitchToTask
<1>16. ASSUME NEW w \in Workers, Land(w) PROVE PinnedStaysHome'
  <2>1. QueuesHome'
    BY <1>16, QueuesHomeFrame DEF Land, FinishSuspending
  <2>2. \A r \in pushes' : Home(r.task, r.at)'
    BY <1>16 DEF Land, FinishSuspending, PinnedStaysHome, Home, TypeOK,
       ControlOK, WorkerControl, At, HoldsTask
  <2>3. \A v \in Workers : /\ currentTask'[v] # NoTask => Home(currentTask[v], v)'
                           /\ suspendingTask'[v] # NoTask =>
                                Home(suspendingTask[v], v)'
    BY <1>16 DEF Land, FinishSuspending, PinnedStaysHome, Home, TypeOK
  <2>4. QED
    BY <2>1, <2>2, <2>3 DEF PinnedStaysHome, QueuesHome, Home
<1>17. ASSUME NEW w \in Workers, Enter(w) PROVE PinnedStaysHome'
  BY <1>17, HomeFrame DEF Enter
<1>18. ASSUME NEW w \in Workers, StartTask(w) PROVE PinnedStaysHome'
  BY <1>18, HomeFrame DEF StartTask
<1>19. ASSUME NEW w \in Workers, FinishMain(w) PROVE PinnedStaysHome'
  <2>1. QueuesHome'
    BY <1>19, QueuesHomeFrame DEF FinishMain, Retire
  <2>2. \A r \in pushes' : Home(r.task, r.at)'
    BY <1>19 DEF FinishMain, Retire, PinnedStaysHome, Home, TypeOK, ControlOK,
       WorkerControl, At, HoldsTask
  <2>3. \A v \in Workers : /\ currentTask'[v] # NoTask => Home(currentTask[v], v)'
                           /\ suspendingTask'[v] # NoTask =>
                                Home(suspendingTask[v], v)'
    BY <1>19 DEF FinishMain, Retire, PinnedStaysHome, Home, TypeOK
  <2>4. QED
    BY <2>1, <2>2, <2>3 DEF PinnedStaysHome, QueuesHome, Home
<1>20. ASSUME NEW w \in Workers, StopWorker(w) PROVE PinnedStaysHome'
  BY <1>20, HomeFrame DEF StopWorker
<1>21. ASSUME NEW w \in Workers, Yield(w) PROVE PinnedStaysHome'
  BY <1>21, HomeFrame DEF Yield
<1>22. ASSUME NEW w \in Workers, PinTask(w) PROVE PinnedStaysHome'
  <2>1. PICK t \in Tasks : t = currentTask[w]
    BY <1>22 DEF PinTask, At, TypeOK, ControlOK, WorkerControl, HoldsTask
  <2>2. /\ ~Queued(t) /\ ~Pushed(t)
        /\ \A v \in Workers : suspendingTask[v] # t /\ (v # w => currentTask[v] # t)
    <3>1. ~Queued(t) /\ ~Pushed(t)
      BY <2>1 DEF PlacementOK, NoDoubleScheduling, HeldNotWaiting
    <3>2. \A v \in Workers : suspendingTask[v] # t /\ (v # w => currentTask[v] # t)
      BY <2>1 DEF PlacementOK, NoDoubleScheduling, HeldOnce
    <3>3. QED
      BY <3>1, <3>2
  <2>3. UNCHANGED <<queue, pushes, currentTask, suspendingTask>>
          /\ pin' = [pin EXCEPT ![t] = w]
    BY <1>22, <2>1 DEF PinTask
  <2>4. pin'[t] \in {w, NoPin} /\ \A u \in Tasks \ {t} : pin'[u] = pin[u]
    BY <2>3 DEF TypeOK
  <2>5. QueuesHome'
    BY <2>2, <2>3, <2>4, QueuesHomeAlone
  <2>6. \A r \in pushes : r.task \in Tasks \ {t}
    BY <2>2 DEF Pushed, TypeOK, Push
  <2>7. ASSUME NEW v \in Workers, currentTask[v] # NoTask
        PROVE pin'[currentTask[v]] \in {v, NoPin}
    <3>1. CASE v = w
      BY <2>1, <2>4, <3>1
    <3>2. CASE v # w
      BY <2>2, <2>4, <2>7, <3>2 DEF PinnedStaysHome, Home, TypeOK
    <3>3. QED
      BY <3>1, <3>2
  <2>8. ASSUME NEW v \in Workers, suspendingTask[v] # NoTask
        PROVE pin'[suspendingTask[v]] \in {v, NoPin}
    BY <2>2, <2>4, <2>8 DEF PinnedStaysHome, Home, TypeOK
  <2>9. QED
    BY <2>3, <2>4, <2>5, <2>6, <2>7, <2>8 DEF PinnedStaysHome, QueuesHome, Home
<1>23. ASSUME NEW w \in Workers, UnpinTask(w) PROVE PinnedStaysHome'
  <2>1. PICK t \in Tasks : t = currentTask[w]
    BY <1>23 DEF UnpinTask, At, TypeOK, ControlOK, WorkerControl, HoldsTask
  <2>2. /\ ~Queued(t) /\ ~Pushed(t)
        /\ \A v \in Workers : suspendingTask[v] # t /\ (v # w => currentTask[v] # t)
    <3>1. ~Queued(t) /\ ~Pushed(t)
      BY <2>1 DEF PlacementOK, NoDoubleScheduling, HeldNotWaiting
    <3>2. \A v \in Workers : suspendingTask[v] # t /\ (v # w => currentTask[v] # t)
      BY <2>1 DEF PlacementOK, NoDoubleScheduling, HeldOnce
    <3>3. QED
      BY <3>1, <3>2
  <2>3. UNCHANGED <<queue, pushes, currentTask, suspendingTask>>
          /\ pin' = [pin EXCEPT ![t] = NoPin]
    BY <1>23, <2>1 DEF UnpinTask
  <2>4. pin'[t] \in {w, NoPin} /\ \A u \in Tasks \ {t} : pin'[u] = pin[u]
    BY <2>3 DEF TypeOK
  <2>5. QueuesHome'
    BY <2>2, <2>3, <2>4, QueuesHomeAlone
  <2>6. \A r \in pushes : r.task \in Tasks \ {t}
    BY <2>2 DEF Pushed, TypeOK, Push
  <2>7. ASSUME NEW v \in Workers, currentTask[v] # NoTask
        PROVE pin'[currentTask[v]] \in {v, NoPin}
    <3>1. CASE v = w
      BY <2>1, <2>4, <3>1
    <3>2. CASE v # w
      BY <2>2, <2>4, <2>7, <3>2 DEF PinnedStaysHome, Home, TypeOK
    <3>3. QED
      BY <3>1, <3>2
  <2>8. ASSUME NEW v \in Workers, suspendingTask[v] # NoTask
        PROVE pin'[suspendingTask[v]] \in {v, NoPin}
    BY <2>2, <2>4, <2>8 DEF PinnedStaysHome, Home, TypeOK
  <2>9. QED
    BY <2>3, <2>4, <2>5, <2>6, <2>7, <2>8 DEF PinnedStaysHome, QueuesHome, Home
<1>24. ASSUME NEW w \in Workers, ReturnFiber(w) PROVE PinnedStaysHome'
  BY <1>24, HomeFrame DEF ReturnFiber
<1>25. ASSUME NEW w \in Workers, ReturnActor(w) PROVE PinnedStaysHome'
  BY <1>25, HomeFrame DEF ReturnActor
<1>26. ASSUME NEW w \in Workers, FinishListening(w) PROVE PinnedStaysHome'
  <2>1. QueuesHome'
    BY <1>26, QueuesHomeFrame DEF FinishListening, Retire
  <2>2. \A r \in pushes' : Home(r.task, r.at)'
    BY <1>26 DEF FinishListening, Retire, PinnedStaysHome, Home, TypeOK,
       ControlOK, WorkerControl, At, HoldsTask
  <2>3. \A v \in Workers : /\ currentTask'[v] # NoTask => Home(currentTask[v], v)'
                           /\ suspendingTask'[v] # NoTask =>
                                Home(suspendingTask[v], v)'
    BY <1>26 DEF FinishListening, Retire, PinnedStaysHome, Home, TypeOK
  <2>4. QED
    BY <2>1, <2>2, <2>3 DEF PinnedStaysHome, QueuesHome, Home
<1>27. ASSUME NEW w \in Workers, RequestStop(w) PROVE PinnedStaysHome'
  BY <1>27, HomeFrame DEF RequestStop
<1>28. ASSUME NEW th \in Threads, SuspendThread(th) PROVE PinnedStaysHome'
  BY <1>28, HomeFrame DEF SuspendThread
<1>29. ASSUME NEW th \in Threads, WakeThread(th) PROVE PinnedStaysHome'
  BY <1>29, HomeFrame DEF WakeThread
<1>30. ASSUME NEW p \in Procs, NEW th \in OSThreads, SpawnThread(p, th)
       PROVE  PinnedStaysHome'
  <2>1. th \in Threads /\ \A u \in Tasks \ {th} : pin'[u] = pin[u]
    BY <1>30 DEF SpawnThread, TypeOK
  <2>2. QED
    BY <1>30, <2>1, HomeOfThread DEF SpawnThread
<1>31. ASSUME NEW th \in Threads, ReturnThread(th) \/ MailProcessed(th)
       PROVE  PinnedStaysHome'
  BY <1>31, HomeFrame DEF ReturnThread, MailProcessed
<1>32. ASSUME NEW th \in Threads, ProcessMail(th) PROVE PinnedStaysHome'
  BY <1>32, HomeFrame DEF ProcessMail
<1>33. ASSUME NEW th \in Threads, KillThread(th) PROVE PinnedStaysHome'
  <2>1. \A u \in Tasks \ {th} : pin'[u] = pin[u]
    BY <1>33 DEF KillThread, TypeOK
  <2>2. QED
    BY <1>33, <2>1, HomeOfThread DEF KillThread
<1>34. (\E th \in Threads : ThreadLoop(th)) => PinnedStaysHome'
  BY <1>28, <1>29, <1>32, <1>33 DEF ThreadLoop, EndThread
<1>35. (\E th \in OSThreads : ThreadCode(th)) => PinnedStaysHome'
  BY <1>31, <1>33 DEF ThreadCode, ThrowThread
<1>36. QED
  BY <1>1, <1>2, <1>3, <1>4, <1>5, <1>6, <1>7, <1>8, <1>9, <1>10, <1>11, <1>12,
     <1>13, <1>14, <1>15, <1>16, <1>17, <1>18, <1>19, <1>20, <1>21, <1>22, <1>23,
     <1>24, <1>25, <1>26, <1>27, <1>30, <1>34, <1>35 DEF Next, WorkerLoop, TaskCode

(* The context of a suspended task is saved when its worker has jumped.    *)
SavedOnceLeft ==
  \A w \in Workers : suspendingTask[w] # NoTask
    /\ pc[w] \in {"loop", "landed", "stopped"} =>
    stack[suspendingTask[w]] = "saved"
(* A task that other workers may see suspended is saved, unless one of     *)
(* them is entering it.                                                    *)
SavedUnlessEntered ==
  \A t \in Fibers \union Actors : status[t] = "Suspended" =>
    stack[t] = "saved" \/ \E w \in Workers : currentTask[w] = t
      /\ pc[w] \in {"landed", "enter"}

(* Both together say that nobody jumps to a stack in use.                  *)
LEMMA SavedFromParts ==
  ASSUME TypeOK, ControlOK, PlacementOK, SavedOnceLeft, SavedUnlessEntered
  PROVE  SavedOK
<1>1. ASSUME NEW w \in Workers, pc[w] = "picked",
      status[currentTask[w]] = "Suspended"
      PROVE  stack[currentTask[w]] = "saved"
  <2>1. PICK t \in Fibers \union Actors : t = currentTask[w]
    BY <1>1 DEF TypeOK, ControlOK, WorkerControl, HoldsTask, Tasks
  <2>2. \A v \in Workers : currentTask[v] = t => v = w
    BY <2>1 DEF PlacementOK, NoDoubleScheduling, HeldOnce, Tasks
  <2>3. QED
    BY <1>1, <2>1, <2>2 DEF SavedUnlessEntered
<1>2. QED
  BY <1>1 DEF SavedOK, SavedBeforeVisible, SavedOnceLeft, SavedUnlessEntered

(* The second part, for a step of a worker that is entering no task.       *)
LEMMA SavedKept ==
  ASSUME SavedUnlessEntered, NEW w \in Workers, pc[w] \notin {"landed", "enter"},
         \A v \in Workers \ {w} : currentTask'[v] = currentTask[v]
           /\ pc'[v] = pc[v],
         \A u \in Fibers \union Actors : status'[u] = "Suspended" =>
           status[u] = "Suspended" /\ stack'[u] = stack[u]
  PROVE  SavedUnlessEntered'
  BY DEF SavedUnlessEntered

(* Every step keeps both: a task is marked as suspended only after the     *)
(* jump that saves its context.                                            *)
LEMMA SavedStep ==
  ASSUME TypeOK, ControlOK, PlacementOK, SavedOK, TypeOK', ControlOK', Next
  PROVE  SavedOnceLeft' /\ SavedUnlessEntered'
<1> USE DEF lockedVars, ownVars, queueVars, stackVars, loopVars
<1>0. SavedOnceLeft /\ SavedUnlessEntered
  BY DEF SavedOK, SavedBeforeVisible, SavedOnceLeft, SavedUnlessEntered
<1>1. ASSUME NEW p \in Procs, FinishPush(p)
      PROVE SavedOnceLeft' /\ SavedUnlessEntered'
  BY <1>0, <1>1 DEF FinishPush, SavedOnceLeft, SavedUnlessEntered
<1>2. ASSUME NEW p \in Procs, Dispatch(p)
      PROVE SavedOnceLeft' /\ SavedUnlessEntered'
  BY <1>0, <1>2 DEF Dispatch, SavedOnceLeft, SavedUnlessEntered
<1>3. ASSUME NEW p \in Procs, Await(p) PROVE SavedOnceLeft' /\ SavedUnlessEntered'
  <2>1. SavedOnceLeft'
    BY <1>0, <1>3 DEF Await, SavedOnceLeft, TypeOK, ControlOK, WorkerControl,
       HoldsTask, Executing, Goto, At, Procs, Tasks
  <2>2. SavedUnlessEntered'
    BY <1>0, <1>3 DEF Await, SavedOnceLeft, SavedUnlessEntered, TypeOK,
       ControlOK, WorkerControl, HoldsTask, Executing, Goto, At, Procs, Tasks
  <2>3. QED
    BY <2>1, <2>2
<1>4. ASSUME NEW p \in Procs, StopTask(p)
      PROVE SavedOnceLeft' /\ SavedUnlessEntered'
  BY <1>0, <1>4 DEF StopTask, SavedOnceLeft, SavedUnlessEntered
<1>5. ASSUME NEW p \in Procs, NEW t \in Tasks, Spawn(p, t)
      PROVE SavedOnceLeft' /\ SavedUnlessEntered'
  <2>1. \A u \in Fibers \union Actors : status'[u] = status[u]
    BY <1>5 DEF Spawn, ResumeTask, TypeOK, ControlOK, Tasks
  <2>2. QED
    BY <1>0, <1>5, <2>1 DEF Spawn, SavedOnceLeft, SavedUnlessEntered
<1>6. ASSUME NEW p \in Procs, NEW t \in Tasks, Send(p, t)
      PROVE SavedOnceLeft' /\ SavedUnlessEntered'
  <2>1. \A u \in Fibers \union Actors : status'[u] = status[u]
    BY <1>6 DEF Send, ResumeTask, TypeOK, ControlOK, Tasks
  <2>2. QED
    BY <1>0, <1>6, <2>1 DEF Send, SavedOnceLeft, SavedUnlessEntered
<1>7. ASSUME NEW p \in Procs, NEW t \in Tasks, Resume(p, t)
      PROVE SavedOnceLeft' /\ SavedUnlessEntered'
  <2>1. \A u \in Fibers \union Actors : status'[u] = status[u]
    BY <1>7 DEF Resume, ResumeTask, TypeOK, ControlOK, Tasks
  <2>2. QED
    BY <1>0, <1>7, <2>1 DEF Resume, SavedOnceLeft, SavedUnlessEntered
<1>8. ASSUME NEW w \in Workers, OwnedLoop(w)
      PROVE SavedOnceLeft' /\ SavedUnlessEntered'
  <2>1. SavedOnceLeft'
    BY <1>0, <1>8 DEF OwnedLoop, SavedOnceLeft, TypeOK, ControlOK, WorkerControl,
       HoldsTask, Executing, Goto, At, Procs, Tasks
  <2>2. pc[w] \notin {"landed", "enter"}
          /\ \A v \in Workers \ {w} : currentTask'[v] = currentTask[v]
               /\ pc'[v] = pc[v]
    BY <1>8 DEF OwnedLoop, At, Goto, TypeOK, Procs
  <2>3. \A u \in Fibers \union Actors : status'[u] = "Suspended" =>
          status[u] = "Suspended" /\ stack'[u] = stack[u]
    BY <1>8 DEF OwnedLoop, TypeOK, Tasks
  <2>4. QED
    BY <1>0, <2>1, <2>2, <2>3, SavedKept
<1>9. ASSUME NEW w \in Workers, UnownedLoop(w)
      PROVE SavedOnceLeft' /\ SavedUnlessEntered'
  <2>1. SavedOnceLeft'
    BY <1>0, <1>9 DEF UnownedLoop, FinishSuspending, SavedOnceLeft, TypeOK,
       ControlOK, WorkerControl, HoldsTask, Executing, Goto, At, Procs, Tasks
  <2>2. SavedUnlessEntered'
    BY <1>0, <1>9 DEF UnownedLoop, FinishSuspending, SavedOnceLeft,
       SavedUnlessEntered, TypeOK, ControlOK, WorkerControl, HoldsTask,
       Executing, Goto, At, Procs, Tasks
  <2>3. QED
    BY <2>1, <2>2
<1>10. ASSUME NEW w \in Workers, Dequeue(w)
       PROVE SavedOnceLeft' /\ SavedUnlessEntered'
  <2>1. SavedOnceLeft'
    BY <1>0, <1>10 DEF Dequeue, SavedOnceLeft, TypeOK, ControlOK, WorkerControl,
       HoldsTask, Executing, Goto, At, Procs, Tasks
  <2>2. pc[w] \notin {"landed", "enter"}
          /\ \A v \in Workers \ {w} : currentTask'[v] = currentTask[v]
               /\ pc'[v] = pc[v]
    BY <1>10 DEF Dequeue, At, Goto, TypeOK, Procs
  <2>3. \A u \in Fibers \union Actors : status'[u] = "Suspended" =>
          status[u] = "Suspended" /\ stack'[u] = stack[u]
    BY <1>10 DEF Dequeue, TypeOK, Tasks
  <2>4. QED
    BY <1>0, <2>1, <2>2, <2>3, SavedKept
<1>11. ASSUME NEW w \in Workers, Steal(w)
       PROVE SavedOnceLeft' /\ SavedUnlessEntered'
  <2>1. SavedOnceLeft'
    BY <1>0, <1>11 DEF Steal, SavedOnceLeft, TypeOK, ControlOK, WorkerControl,
       HoldsTask, Executing, Goto, At, Procs, Tasks
  <2>2. pc[w] \notin {"landed", "enter"}
          /\ \A v \in Workers \ {w} : currentTask'[v] = currentTask[v]
               /\ pc'[v] = pc[v]
    BY <1>11 DEF Steal, At, Goto, TypeOK, Procs
  <2>3. \A u \in Fibers \union Actors : status'[u] = "Suspended" =>
          status[u] = "Suspended" /\ stack'[u] = stack[u]
    BY <1>11 DEF Steal, TypeOK, Tasks
  <2>4. QED
    BY <1>0, <2>1, <2>2, <2>3, SavedKept
<1>12. ASSUME NEW w \in Workers, FindNothing(w)
       PROVE SavedOnceLeft' /\ SavedUnlessEntered'
  BY <1>0, <1>12 DEF FindNothing, SavedOnceLeft, SavedUnlessEntered
<1>13. ASSUME NEW w \in Workers, SwitchToUnowned(w)
       PROVE SavedOnceLeft' /\ SavedUnlessEntered'
  <2>1. SavedOnceLeft'
    BY <1>0, <1>13 DEF SwitchToUnowned, SavedOnceLeft, TypeOK, ControlOK,
       WorkerControl, HoldsTask, Executing, Goto, At, Procs, Tasks
  <2>2. SavedUnlessEntered'
    BY <1>0, <1>13 DEF SwitchToUnowned, SavedOnceLeft, SavedUnlessEntered,
       TypeOK, ControlOK, WorkerControl, HoldsTask, Executing, Goto, At, Procs,
       Tasks
  <2>3. QED
    BY <2>1, <2>2
<1>14. ASSUME NEW w \in Workers, Spin(w) PROVE SavedOnceLeft' /\ SavedUnlessEntered'
  <2>1. SavedOnceLeft'
    BY <1>0, <1>14 DEF Spin, SavedOnceLeft, TypeOK, ControlOK, WorkerControl,
       HoldsTask, Executing, Goto, At, Procs, Tasks
  <2>2. SavedUnlessEntered'
    BY <1>0, <1>14 DEF Spin, SavedOnceLeft, SavedUnlessEntered, TypeOK,
       ControlOK, WorkerControl, HoldsTask, Executing, Goto, At, Procs, Tasks
  <2>3. QED
    BY <2>1, <2>2
<1>15. ASSUME NEW w \in Workers, SwitchToTask(w)
       PROVE SavedOnceLeft' /\ SavedUnlessEntered'
  <2>1. SavedOnceLeft'
    BY <1>0, <1>15 DEF SwitchToTask, PlacementOK, NoDoubleScheduling, HeldOnce,
       SavedOnceLeft, TypeOK, ControlOK, WorkerControl, HoldsTask, Executing,
       Goto, At, Procs, Tasks
  <2>2. SavedUnlessEntered'
    BY <1>0, <1>15 DEF SwitchToTask, PlacementOK, NoDoubleScheduling, HeldOnce,
       SavedOnceLeft, SavedUnlessEntered, TypeOK, ControlOK, WorkerControl,
       HoldsTask, Executing, Goto, At, Procs, Tasks
  <2>3. QED
    BY <2>1, <2>2
<1>16. ASSUME NEW w \in Workers, Land(w) PROVE SavedOnceLeft' /\ SavedUnlessEntered'
  <2>1. SavedOnceLeft'
    BY <1>0, <1>16 DEF Land, FinishSuspending, SavedOnceLeft, TypeOK, ControlOK,
       WorkerControl, HoldsTask, Executing, Goto, At, Procs, Tasks
  <2>2. SavedUnlessEntered'
    BY <1>0, <1>16 DEF Land, FinishSuspending, SavedOnceLeft, SavedUnlessEntered,
       TypeOK, ControlOK, WorkerControl, HoldsTask, Executing, Goto, At, Procs,
       Tasks
  <2>3. QED
    BY <2>1, <2>2
<1>17. ASSUME NEW w \in Workers, Enter(w)
       PROVE SavedOnceLeft' /\ SavedUnlessEntered'
  <2>1. SavedOnceLeft'
    BY <1>0, <1>17 DEF Enter, SavedOnceLeft, TypeOK, ControlOK, WorkerControl,
       HoldsTask, Executing, Goto, At, Procs, Tasks
  <2>2. SavedUnlessEntered'
    BY <1>0, <1>17 DEF Enter, SavedOnceLeft, SavedUnlessEntered, TypeOK,
       ControlOK, WorkerControl, HoldsTask, Executing, Goto, At, Procs, Tasks
  <2>3. QED
    BY <2>1, <2>2
<1>18. ASSUME NEW w \in Workers, StartTask(w)
       PROVE SavedOnceLeft' /\ SavedUnlessEntered'
  <2>1. SavedOnceLeft'
    BY <1>0, <1>18 DEF StartTask, PlacementOK, NoDoubleScheduling, HeldOnce,
       SavedOnceLeft, TypeOK, ControlOK, WorkerControl, HoldsTask, Executing,
       Goto, At, Procs, Tasks
  <2>2. SavedUnlessEntered'
    BY <1>0, <1>18 DEF StartTask, PlacementOK, NoDoubleScheduling, HeldOnce,
       SavedOnceLeft, SavedUnlessEntered, TypeOK, ControlOK, WorkerControl,
       HoldsTask, Executing, Goto, At, Procs, Tasks
  <2>3. QED
    BY <2>1, <2>2
<1>19. ASSUME NEW w \in Workers, FinishMain(w)
       PROVE SavedOnceLeft' /\ SavedUnlessEntered'
  <2>1. SavedOnceLeft'
    BY <1>0, <1>19 DEF FinishMain, Retire, PlacementOK, NoDoubleScheduling,
       HeldOnce, SavedOnceLeft, TypeOK, ControlOK, WorkerControl, HoldsTask,
       Executing, Goto, At, Procs, Tasks
  <2>2. pc[w] \notin {"landed", "enter"}
          /\ \A v \in Workers \ {w} : currentTask'[v] = currentTask[v]
               /\ pc'[v] = pc[v]
    BY <1>19 DEF FinishMain, Retire, At, Goto, TypeOK, Procs
  <2>3. \A u \in Fibers \union Actors : status'[u] = "Suspended" =>
          status[u] = "Suspended" /\ stack'[u] = stack[u]
    BY <1>19 DEF FinishMain, Retire, TypeOK, Tasks
  <2>4. QED
    BY <1>0, <2>1, <2>2, <2>3, SavedKept
<1>20. ASSUME NEW w \in Workers, StopWorker(w)
       PROVE SavedOnceLeft' /\ SavedUnlessEntered'
  <2>1. SavedOnceLeft'
    BY <1>0, <1>20 DEF StopWorker, PlacementOK, NoDoubleScheduling, HeldOnce,
       PlacesOK, WorkerPlaces, Executed, Executing, SavedOnceLeft, TypeOK,
       ControlOK, WorkerControl, HoldsTask, Executing, Goto, At, Procs, Tasks
  <2>2. SavedUnlessEntered'
    BY <1>0, <1>20 DEF StopWorker, PlacementOK, NoDoubleScheduling, HeldOnce,
       PlacesOK, WorkerPlaces, Executed, Executing, SavedOnceLeft,
       SavedUnlessEntered, TypeOK, ControlOK, WorkerControl, HoldsTask,
       Executing, Goto, At, Procs, Tasks
  <2>3. QED
    BY <2>1, <2>2
<1>21. ASSUME NEW w \in Workers, Yield(w)
       PROVE SavedOnceLeft' /\ SavedUnlessEntered'
  <2>1. SavedOnceLeft'
    BY <1>0, <1>21 DEF Yield, SavedOnceLeft, TypeOK, ControlOK, WorkerControl,
       HoldsTask, Executing, Goto, At, Procs, Tasks
  <2>2. SavedUnlessEntered'
    BY <1>0, <1>21 DEF Yield, SavedOnceLeft, SavedUnlessEntered, TypeOK,
       ControlOK, WorkerControl, HoldsTask, Executing, Goto, At, Procs, Tasks
  <2>3. QED
    BY <2>1, <2>2
<1>22. ASSUME NEW w \in Workers, PinTask(w)
       PROVE SavedOnceLeft' /\ SavedUnlessEntered'
  BY <1>0, <1>22 DEF PinTask, SavedOnceLeft, SavedUnlessEntered
<1>23. ASSUME NEW w \in Workers, UnpinTask(w)
       PROVE SavedOnceLeft' /\ SavedUnlessEntered'
  BY <1>0, <1>23 DEF UnpinTask, SavedOnceLeft, SavedUnlessEntered
<1>24. ASSUME NEW w \in Workers, ReturnFiber(w)
       PROVE SavedOnceLeft' /\ SavedUnlessEntered'
  <2>1. SavedOnceLeft'
    BY <1>0, <1>24 DEF ReturnFiber, SavedOnceLeft, TypeOK, ControlOK,
       WorkerControl, HoldsTask, Executing, Goto, At, Procs, Tasks
  <2>2. SavedUnlessEntered'
    BY <1>0, <1>24 DEF ReturnFiber, SavedOnceLeft, SavedUnlessEntered, TypeOK,
       ControlOK, WorkerControl, HoldsTask, Executing, Goto, At, Procs, Tasks
  <2>3. QED
    BY <2>1, <2>2
<1>25. ASSUME NEW w \in Workers, ReturnActor(w)
       PROVE SavedOnceLeft' /\ SavedUnlessEntered'
  <2>1. SavedOnceLeft'
    BY <1>0, <1>25 DEF ReturnActor, SavedOnceLeft, TypeOK, ControlOK,
       WorkerControl, HoldsTask, Executing, Goto, At, Procs, Tasks
  <2>2. SavedUnlessEntered'
    BY <1>0, <1>25 DEF ReturnActor, SavedOnceLeft, SavedUnlessEntered, TypeOK,
       ControlOK, WorkerControl, HoldsTask, Executing, Goto, At, Procs, Tasks
  <2>3. QED
    BY <2>1, <2>2
<1>26. ASSUME NEW w \in Workers, FinishListening(w)
       PROVE SavedOnceLeft' /\ SavedUnlessEntered'
  <2>1. SavedOnceLeft'
    BY <1>0, <1>26 DEF FinishListening, Retire, PlacementOK, NoDoubleScheduling,
       HeldOnce, SavedOnceLeft, TypeOK, ControlOK, WorkerControl, HoldsTask,
       Executing, Goto, At, Procs, Tasks
  <2>2. pc[w] \notin {"landed", "enter"}
          /\ \A v \in Workers \ {w} : currentTask'[v] = currentTask[v]
               /\ pc'[v] = pc[v]
    BY <1>26 DEF FinishListening, Retire, At, Goto, TypeOK, Procs
  <2>3. \A u \in Fibers \union Actors : status'[u] = "Suspended" =>
          status[u] = "Suspended" /\ stack'[u] = stack[u]
    BY <1>26 DEF FinishListening, Retire, TypeOK, Tasks
  <2>4. QED
    BY <1>0, <2>1, <2>2, <2>3, SavedKept
<1>27. ASSUME NEW w \in Workers, RequestStop(w)
       PROVE SavedOnceLeft' /\ SavedUnlessEntered'
  BY <1>0, <1>27 DEF RequestStop, SavedOnceLeft, SavedUnlessEntered
<1>28. ASSUME NEW th \in Threads, SuspendThread(th)
       PROVE SavedOnceLeft' /\ SavedUnlessEntered'
  <2>1. /\ \A u \in Fibers \union Actors : status'[u] = status[u]
        /\ \A v \in Workers : pc'[v] = pc[v]
        /\ UNCHANGED <<currentTask, suspendingTask, stack>>
    BY <1>28 DEF SuspendThread, Goto, TypeOK, Tasks, Procs
  <2>2. QED
    BY <1>0, <2>1 DEF SavedOnceLeft, SavedUnlessEntered
<1>29. ASSUME NEW th \in Threads, WakeThread(th)
       PROVE SavedOnceLeft' /\ SavedUnlessEntered'
  <2>1. /\ \A u \in Fibers \union Actors : status'[u] = status[u]
        /\ \A v \in Workers : pc'[v] = pc[v]
        /\ UNCHANGED <<currentTask, suspendingTask, stack>>
    BY <1>29 DEF WakeThread, Goto, TypeOK, Tasks, Procs
  <2>2. QED
    BY <1>0, <2>1 DEF SavedOnceLeft, SavedUnlessEntered
<1>30. ASSUME NEW p \in Procs, NEW th \in OSThreads, SpawnThread(p, th)
       PROVE SavedOnceLeft' /\ SavedUnlessEntered'
  <2>1. /\ \A u \in Fibers \union Actors : status'[u] = status[u]
        /\ \A v \in Workers : pc'[v] = pc[v]
        /\ UNCHANGED <<currentTask, suspendingTask, stack>>
    BY <1>30 DEF SpawnThread, Goto, TypeOK, Tasks, Procs
  <2>2. QED
    BY <1>0, <2>1 DEF SavedOnceLeft, SavedUnlessEntered
<1>31. ASSUME NEW th \in Threads,
              ReturnThread(th) \/ MailProcessed(th) \/ ProcessMail(th) \/ KillThread(th)
       PROVE SavedOnceLeft' /\ SavedUnlessEntered'
  <2>1. /\ \A u \in Fibers \union Actors : status'[u] = status[u]
        /\ \A v \in Workers : pc'[v] = pc[v]
        /\ UNCHANGED <<currentTask, suspendingTask, stack>>
    BY <1>31 DEF ReturnThread, MailProcessed, ProcessMail, KillThread, Goto, TypeOK,
       Tasks, Procs
  <2>2. QED
    BY <1>0, <2>1 DEF SavedOnceLeft, SavedUnlessEntered
<1>32. (\E th \in Threads : ThreadLoop(th)) => SavedOnceLeft' /\ SavedUnlessEntered'
  BY <1>28, <1>29, <1>31 DEF ThreadLoop, EndThread
<1>33. (\E th \in OSThreads : ThreadCode(th)) => SavedOnceLeft' /\ SavedUnlessEntered'
  BY <1>31 DEF ThreadCode, ThrowThread
<1>34. QED
  BY <1>1, <1>2, <1>3, <1>4, <1>5, <1>6, <1>7, <1>8, <1>9, <1>10, <1>11, <1>12,
     <1>13, <1>14, <1>15, <1>16, <1>17, <1>18, <1>19, <1>20, <1>21, <1>22, <1>23,
     <1>24, <1>25, <1>26, <1>27, <1>30, <1>32, <1>33 DEF Next, WorkerLoop, TaskCode

-----------------------------------------------------------------------------
(* When the program starts, no worker holds a task and no task waits.      *)
LEMMA InitInvariant == Init => IInv
<1> SUFFICES ASSUME Init PROVE IInv
  OBVIOUS
<1>1. TypeOK
  BY InitType
<1>2. ControlOK
  <2>1. ASSUME NEW w \in Workers PROVE WorkerControl(w)
    BY DEF Init, WorkerControl, HoldsTask, Executing, WorkerPoint, Procs, Tasks
  <2>2. ASSUME NEW th \in Threads PROVE ThreadControl(th)
    BY DEF Init, ThreadControl, Up, Fiberized, ThreadPoint, Procs, Tasks
  <2>3. \A t \in Tasks \ Threads : pin[t] \notin Threads
    BY DEF Init, Fiberized, Procs
  <2>4. QED
    BY <2>1, <2>2, <2>3 DEF ControlOK
<1>3. \A w \in Workers, c \in Priority : queue[w][c] = << >> /\ Len(queue[w][c]) = 0
  BY DEF Init
<1>4. /\ pushes = {}
      /\ \A w \in Workers : currentTask[w] = NoTask /\ suspendingTask[w] = NoTask
  BY DEF Init
<1>5. \A w \in Workers : pc[w] = "loop"
  BY DEF Init, Procs, Tasks
<1>6. PlacesOK
  <2>1. \A w \in Workers : WorkerPlaces(w)
    BY <1>4, <1>5 DEF WorkerPlaces, Executing, Picked
  <2>2. \A th \in Threads : ThreadPlaces(th)
    BY DEF Init, ThreadPlaces, Fiberized, Tasks, Procs
  <2>3. QED
    BY <1>3, <1>4, <2>1, <2>2 DEF PlacesOK, QueuesWait, PushesWait
<1>7. NoDoubleScheduling
  BY <1>3, <1>4
    DEF NoDoubleScheduling, OnceInQueues, OncePushed, HeldNotWaiting, HeldOnce
<1>8. NoTaskForgotten
  BY DEF Init, NoTaskForgotten
<1>9. WakeupsOK
  <2>1. \A t \in Tasks : mail[t] = 0 /\ status[t] \notin {"Suspended", "Listening"}
    BY DEF Init
  <2>2. \A w \in Workers : HeldSettled(w)
    BY <1>4, <1>5 DEF HeldSettled
  <2>3. \A th \in Threads : Settled(th)
    BY <2>1 DEF Settled, Tasks
  <2>4. QED
    BY <2>1, <2>2, <2>3 DEF WakeupsOK, NoLostWakeup
<1>10. PinnedStaysHome
  BY <1>3, <1>4 DEF PinnedStaysHome
<1>11. SavedOK
  BY <1>4, <1>5 DEF Init, SavedOK, SavedBeforeVisible, Tasks
<1>12. QED
  BY <1>1, <1>2, <1>6, <1>7, <1>8, <1>9, <1>10, <1>11 DEF IInv

(* A step of the environment changes nothing the invariant speaks of.      *)
LEMMA InvariantStutters ==
  ASSUME IInv, UNCHANGED vars
  PROVE  IInv'
<1> USE DEF vars, lockedVars, ownVars, queueVars, stackVars, loopVars
<1>1. TypeOK' /\ ControlOK'
  BY DEF IInv, TypeOK, ControlOK, WorkerControl, ThreadControl, Up
<1>2. PlacesOK'
  BY DEF IInv, PlacesOK, QueuesWait, PushesWait, WorkerPlaces, ThreadPlaces, Picked,
         Waiting, Executed
<1>3. NoDoubleScheduling' /\ NoTaskForgotten'
  BY DEF IInv, NoDoubleScheduling, OnceInQueues, OncePushed, HeldNotWaiting, HeldOnce,
         NoTaskForgotten, Queued, Pushed
<1>4. WakeupsOK'
  BY DEF IInv, WakeupsOK, HeldSettled, Settled, NoLostWakeup
<1>5. PinnedStaysHome'
  BY DEF IInv, PinnedStaysHome, Home
<1>6. SavedOK'
  BY DEF IInv, SavedOK, SavedBeforeVisible
<1>7. QED
  BY <1>1, <1>2, <1>3, <1>4, <1>5, <1>6 DEF IInv

(* A consequence of the parts of an invariant follows in the next state, too. *)
LEMMA SavedFromPartsNext ==
  (TypeOK /\ ControlOK /\ PlacementOK /\ SavedOnceLeft /\ SavedUnlessEntered)' => SavedOK'
<1>1. TypeOK /\ ControlOK /\ PlacementOK /\ SavedOnceLeft /\ SavedUnlessEntered => SavedOK
  BY SavedFromParts
<1>2. QED
  BY <1>1, PTL

(* Every step keeps the whole invariant.                                   *)
LEMMA InvariantStep == IInv /\ [Next]_vars => IInv'
<1>1. ASSUME IInv, Next PROVE IInv'
  <2>1. /\ TypeOK /\ ControlOK /\ PlacesOK /\ PlacementOK
        /\ WakeupsOK /\ PinnedStaysHome /\ SavedOK
    BY <1>1 DEF IInv, PlacementOK
  <2>2. TypeOK'
    BY <1>1, <2>1, TypeStep
  <2>3. ControlOK'
    BY <1>1, <2>1, <2>2, ControlStep
  <2>4. PlacementOK'
    BY <1>1, <2>1, PlacementStep
  <2>5. WakeupsOK'
    BY <1>1, <2>1, <2>2, <2>3, WakeupStep
  <2>6. PinnedStaysHome'
    BY <1>1, <2>1, <2>2, <2>3, <2>4, HomeStep
  <2>7. SavedOK'
    <3>1. SavedOnceLeft' /\ SavedUnlessEntered'
      BY <1>1, <2>1, <2>2, <2>3, <2>4, SavedStep
    <3>2. QED
      BY <2>2, <2>3, <2>4, <3>1, SavedFromPartsNext
  <2>8. QED
    BY <2>2, <2>3, <2>4, <2>5, <2>6, <2>7 DEF IInv, PlacementOK
<1>2. QED
  BY <1>1, InvariantStutters

(* In every execution the state of every task agrees with the queues,      *)
(* pushes and workers that know of it, with the program points of those    *)
(* workers, and with the wake-ups and events it was sent.                  *)
THEOREM Invariance == Spec => []IInv
<1>1. QED
  BY InitInvariant, InvariantStep, PTL DEF Spec

(* Every variable has the type the code declares.                          *)
THEOREM TypeCorrect == Spec => []TypeOK
<1>1. IInv => TypeOK
  BY DEF IInv
<1>2. QED
  BY <1>1, Invariance, PTL

(* No task is queued twice, held twice, or queued while a worker holds it: *)
(* no two workers ever run the same fiber or actor.                        *)
THEOREM NeverScheduledTwice == Spec => []NoDoubleScheduling
<1>1. IInv => NoDoubleScheduling
  BY DEF IInv
<1>2. QED
  BY <1>1, Invariance, PTL

(* A task marked as scheduled is never dropped, whoever takes, steals or   *)
(* requeues it: the mark, which keeps resume() away, is always true.       *)
THEOREM NeverForgotten == Spec => []NoTaskForgotten
<1>1. IInv => NoTaskForgotten
  BY DEF IInv
<1>2. QED
  BY <1>1, Invariance, PTL

(* resumes and resumesExpected lose no wake-up: a task never sleeps on an  *)
(* event or a resume that came after its last look into the mailbox.       *)
THEOREM NeverLosesWakeups == Spec => []NoLostWakeup
<1>1. IInv => NoLostWakeup
  BY DEF IInv, WakeupsOK
<1>2. QED
  BY <1>1, Invariance, PTL

(* A scoped pin holds: a pinned task is queued, held and run only by the   *)
(* scheduler it is pinned to.                                              *)
THEOREM PinsHold == Spec => []PinnedStaysHome
<1>1. IInv => PinnedStaysHome
  BY DEF IInv
<1>2. QED
  BY <1>1, Invariance, PTL

(* No worker jumps to a stack that another one has not left yet.           *)
THEOREM StacksSavedFirst == Spec => []SavedBeforeVisible
<1>1. IInv => SavedBeforeVisible
  BY DEF IInv, SavedOK
<1>2. QED
  BY <1>1, Invariance, PTL

(* No assert of a worker fails, none of its unreachable branches is        *)
(* reached, and the asserts of a fiberized thread hold; a thread of        *)
(* runTaskAsOSThread keeps its own once it has left Starting, the status   *)
(* in which they fail.                                                     *)
THEOREM AssertsNeverFail == Spec => []AssertionsHold
<1>1. ASSUME IInv PROVE AssertionsHold
  <2>1. ASSUME NEW w \in Workers, suspendingTask[w] # NoTask
        PROVE  status[suspendingTask[w]] = "Running" /\ ~scheduled[suspendingTask[w]]
    BY <1>1, <2>1 DEF IInv, PlacesOK, WorkerPlaces, Executed
  <2>2. ASSUME NEW w \in Workers, pc[w] \in {"picked", "landed", "enter"}
        PROVE  Waiting(currentTask[w])
    BY <1>1, <2>2 DEF IInv, ControlOK, WorkerControl, HoldsTask, PlacesOK, WorkerPlaces,
                      Picked, PickPoints
  <2>3. ASSUME NEW w \in Workers, pc[w] \in {"landed", "enter"}
        PROVE  status[currentTask[w]] = "Suspended"
    BY <1>1, <2>3 DEF IInv, PlacesOK, WorkerPlaces
  <2>4. ASSUME NEW w \in Workers, pc[w] \in {"run", "suspend", "ending"}
        PROVE  status[currentTask[w]] = "Running" /\ ~scheduled[currentTask[w]]
    BY <1>1, <2>4 DEF IInv, PlacesOK, WorkerPlaces, Executing, Executed
  <2>5. ASSUME NEW th \in Threads
        PROVE  /\ ~scheduled[th]
               /\ th \in Fiberized => status[th] \in {"Running", "Suspended"}
               /\ status[th] = "Suspended" => pc[th] = "blocked" /\ ~resumed[th]
               /\ pc[th] = "suspend" /\ status[th] # "Starting" =>
                    status[th] = "Running"
    BY <1>1, <2>5 DEF IInv, ControlOK, ThreadControl, PlacesOK, ThreadPlaces, Fiberized
  <2>6. QED
    BY <2>1, <2>2, <2>3, <2>4, <2>5 DEF AssertionsHold, Waiting
<1>2. QED
  BY <1>1, Invariance, PTL

-----------------------------------------------------------------------------
(* What is on its way to run was resumed: the mark and the flag by which a *)
(* scheduler wakes a task are set only together with the wake-up itself.   *)
WokenFirst ==
  /\ \A t \in Tasks : scheduled[t] => woken[t]
  /\ \A th \in Threads : pc[th] = "blocked" /\ resumed[th] => woken[th]

(* The task that a scheduler runs, or is about to suspend, is awake.       *)
LEMMA RunnerAwake ==
  ASSUME IInv, NEW p \in Procs, pc[p] \in Executing
  PROVE  /\ Running(p) \in Tasks /\ ~scheduled[Running(p)]
         /\ p \in Workers => status[Running(p)] = "Running"
         /\ Phase(Running(p)) = "awake"
         /\ p \in Workers => Running(p) = currentTask[p] /\ Running(p) \notin Threads
         /\ p \in Threads => Running(p) = p
<1>1. CASE p \in Threads
  BY <1>1 DEF IInv, PlacesOK, ThreadPlaces, Running, Phase, Executing, Tasks
<1>2. CASE p \in Workers
  <2>1. /\ p \notin Threads /\ Running(p) = currentTask[p]
        /\ currentTask[p] \in Tasks \ Threads
    BY <1>2 DEF IInv, TypeOK, ControlOK, WorkerControl, HoldsTask, Executing, Running, Tasks
  <2>2. Executed(currentTask[p])
    BY <1>2 DEF IInv, PlacesOK, WorkerPlaces
  <2>3. QED
    BY <2>1, <2>2 DEF Executed, Phase, Spawned
<1>3. QED
  BY <1>1, <1>2 DEF Procs

(* The phases as Parking sees them, all together.                          *)
PhaseOf == [t \in Tasks |-> Phase(t)]

(* A thread stays where it is, or goes on without sleeping or ending.      *)
ThreadAlike(th) ==
  pc'[th] = pc[th] \/ {pc[th], pc'[th]} \subseteq {"run", "suspend", "poll"}

(* A task keeps its phase with its status and its mark.                    *)
LEMMA PhaseKept ==
  ASSUME NEW t \in Tasks, status'[t] = status[t], scheduled'[t] = scheduled[t],
         t \in Threads => ThreadAlike(t)
  PROVE  Phase(t)' = Phase(t)
  BY DEF Phase, Spawned, ThreadAlike

LEMMA PhasesKept ==
  ASSUME UNCHANGED <<status, scheduled>>, \A th \in Threads : ThreadAlike(th)
  PROVE  PhaseOf' = PhaseOf
  BY PhaseKept DEF PhaseOf

(* One task changes its phase.                                             *)
LEMMA PhaseSet ==
  ASSUME NEW t \in Tasks, \A u \in Tasks \ {t} : Phase(u)' = Phase(u)
  PROVE  PhaseOf' = [PhaseOf EXCEPT ![t] = Phase(t)']
  BY DEF PhaseOf

(* A step of a worker that moves on leaves the threads where they are.     *)
LEMMA WorkerMoves ==
  ASSUME IInv, NEW w \in Workers, NEW point, Goto(w, point)
  PROVE  /\ \A th \in Threads : pc'[th] = pc[th]
         /\ \A th \in Threads : ThreadAlike(th)
  BY DEF IInv, TypeOK, Goto, Procs, Tasks, ThreadAlike

(* Whoever is resumed keeps its phase, except that the first resume makes  *)
(* a new task sleep until a scheduler takes it.                            *)
LEMMA ResumePhases ==
  ASSUME IInv, NEW p \in Procs, NEW t \in Tasks, ResumeTask(p, t), pc' = pc,
         t \in Threads => pc[t] # "new"
  PROVE  /\ woken' = [woken EXCEPT ![t] = TRUE]
         /\ PhaseOf' = [PhaseOf EXCEPT ![t] =
              IF PhaseOf[t] = "new" THEN "asleep" ELSE PhaseOf[t]]
<1>1. woken' = [woken EXCEPT ![t] = TRUE]
  BY DEF ResumeTask
<1>2. /\ pin[t] \in Threads => t \in Threads /\ pin[t] = t
      /\ Resumable(t) => (t \in Threads <=> pin[t] \in Threads)
  <2>1. pin[t] \in Threads => t \in Threads /\ pin[t] = t
    BY DEF IInv, ControlOK, ThreadControl, Procs
  <2>2. t \in Threads /\ Resumable(t) => pin[t] \in Threads
    BY DEF IInv, ControlOK, ThreadControl, Up, PlacesOK, ThreadPlaces, Resumable
  <2>3. QED
    BY <2>1, <2>2
<1>3. PhaseOf[t] = "new" => Resumable(t)
  BY DEF PhaseOf, Phase, Spawned, Resumable
<1>4. CASE ~Resumable(t)
  <2>1. PhaseOf' = PhaseOf
    BY <1>4, PhasesKept DEF ResumeTask, ThreadAlike
  <2>2. QED
    BY <1>1, <1>3, <1>4, <2>1 DEF PhaseOf
<1>5. CASE Resumable(t) /\ pin[t] \notin Threads
  <2>1. status' = status /\ scheduled' = [scheduled EXCEPT ![t] = TRUE]
    BY <1>5 DEF ResumeTask, Schedule
  <2>2. \A u \in Tasks \ {t} : Phase(u)' = Phase(u)
    BY <2>1, PhaseKept DEF IInv, TypeOK, ThreadAlike
  <2>3. PhaseOf' = [PhaseOf EXCEPT ![t] = Phase(t)']
    BY <2>2, PhaseSet
  <2>4. Phase(t)' = "asleep" /\ Phase(t) \in {"new", "asleep"}
    BY <1>2, <1>5, <2>1 DEF Phase, Spawned, Resumable, IInv, TypeOK
  <2>5. QED
    BY <1>1, <2>3, <2>4 DEF PhaseOf
<1>6. CASE Resumable(t) /\ pin[t] \in Threads
  <2>1. status' = [status EXCEPT ![t] = "Running"] /\ scheduled' = scheduled
    BY <1>2, <1>6 DEF ResumeTask
  <2>2. \A u \in Tasks : Phase(u)' = Phase(u)
    BY <1>2, <1>6, <2>1 DEF Phase, Spawned, IInv, TypeOK
  <2>3. PhaseOf' = PhaseOf /\ PhaseOf[t] # "new"
    BY <1>2, <1>6, <2>2 DEF PhaseOf, Phase
  <2>4. QED
    BY <1>1, <2>3 DEF PhaseOf
<1>7. QED
  BY <1>4, <1>5, <1>6

(* A resume marks only what it wakes.                                      *)
LEMMA ResumeKeepsWoken ==
  ASSUME IInv, WokenFirst, NEW p \in Procs, NEW t \in Tasks, ResumeTask(p, t), pc' = pc
  PROVE  WokenFirst'
<1>1. woken' = [woken EXCEPT ![t] = TRUE]
  BY DEF ResumeTask
<1>2. \A u \in Tasks : u # t => scheduled'[u] = scheduled[u]
  BY DEF ResumeTask, Schedule, IInv, TypeOK
<1>3. \A th \in Threads : th # t => resumed'[th] = resumed[th]
  <2>1. pin[t] \in Threads => pin[t] = t
    BY DEF IInv, ControlOK, ThreadControl, Procs
  <2>2. QED
    BY <2>1 DEF ResumeTask, Schedule, IInv, TypeOK
<1>4. woken'[t] /\ \A u \in Tasks : u # t => woken'[u] = woken[u]
  BY <1>1 DEF IInv, TypeOK
<1>5. QED
  BY <1>2, <1>3, <1>4 DEF WokenFirst, Tasks

LEMMA ResumeMapped ==
  ASSUME IInv, WokenFirst, NEW p \in Procs, NEW t \in Tasks, ResumeTask(p, t),
         UNCHANGED <<mail, stopped, pc>>, t \in Threads => pc[t] # "new"
  PROVE  WokenFirst' /\ Parked!Poke(t)
<1>1. /\ woken' = [woken EXCEPT ![t] = TRUE]
      /\ PhaseOf' = [PhaseOf EXCEPT ![t] =
           IF PhaseOf[t] = "new" THEN "asleep" ELSE PhaseOf[t]]
  BY ResumePhases
<1>2. WokenFirst'
  BY <1>1, ResumeKeepsWoken
<1>3. Parked!Poke(t)
  BY <1>1 DEF Parked!Poke, PhaseOf
<1>4. QED
  BY <1>2, <1>3

(* Nothing that WokenFirst speaks of changes, or a thread wakes up.        *)
LEMMA WokenFirstSame ==
  ASSUME WokenFirst, UNCHANGED <<scheduled, woken, resumed>>,
         \A th \in Threads : pc'[th] = "blocked" => pc[th] = "blocked"
  PROVE  WokenFirst'
  BY DEF WokenFirst

(* A worker changes the mark and the wake-up of one task, not a thread's.  *)
LEMMA WokenFirstOne ==
  ASSUME IInv, WokenFirst, NEW t \in Tasks, resumed' = resumed,
         \A u \in Tasks \ {t} : scheduled'[u] = scheduled[u] /\ woken'[u] = woken[u],
         scheduled'[t] => woken'[t],
         \A th \in Threads : pc'[th] = "blocked" => pc[th] = "blocked" /\ th # t
  PROVE  WokenFirst'
  BY DEF WokenFirst, Tasks

(* So does every step.                                                     *)
LEMMA WokenFirstStep ==
  ASSUME IInv, WokenFirst, Next
  PROVE  WokenFirst'
<1> USE DEF lockedVars, ownVars, queueVars, stackVars, loopVars
<1>1. ASSUME NEW p \in Procs, FinishPush(p) \/ Dispatch(p) \/ StopTask(p) PROVE WokenFirst'
  BY <1>1, WokenFirstSame DEF FinishPush, Dispatch, StopTask
<1>2. ASSUME NEW p \in Procs, NEW t \in Tasks, Spawn(p, t) \/ Send(p, t) \/ Resume(p, t)
      PROVE  WokenFirst'
  BY <1>2, ResumeKeepsWoken DEF Spawn, Send, Resume
<1>3. ASSUME NEW p \in Procs, Await(p) PROVE WokenFirst'
  <2>1. PICK t \in Tasks : t = Running(p) /\ ~scheduled[t]
    BY <1>3, RunnerAwake DEF Await, At, Executing
  <2>2. \A th \in Threads : pc'[th] = "blocked" => pc[th] = "blocked" /\ th # t
    BY <1>3, <2>1, RunnerAwake DEF Await, At, Executing, Goto, Procs, IInv, TypeOK
  <2>3. \A u \in Tasks \ {t} : scheduled'[u] = scheduled[u] /\ woken'[u] = woken[u]
    BY <1>3, <2>1 DEF Await, IInv, TypeOK
  <2>4. ~scheduled'[t] /\ resumed' = resumed
    BY <1>3, <2>1 DEF Await
  <2>5. QED
    BY <2>2, <2>3, <2>4, WokenFirstOne
<1>4. ASSUME NEW w \in Workers,
             \/ OwnedLoop(w) \/ Dequeue(w) \/ Steal(w) \/ FindNothing(w)
             \/ SwitchToUnowned(w) \/ Spin(w) \/ SwitchToTask(w) \/ StopWorker(w)
             \/ PinTask(w) \/ UnpinTask(w) \/ ReturnFiber(w) \/ RequestStop(w)
      PROVE  WokenFirst'
  <2>1. UNCHANGED <<scheduled, woken, resumed>>
    BY <1>4 DEF OwnedLoop, Dequeue, Steal, FindNothing, SwitchToUnowned, Spin,
       SwitchToTask, StopWorker, PinTask, UnpinTask, ReturnFiber, RequestStop
  <2>2. pc' = pc \/ \E point \in WorkerPoint : Goto(w, point)
    BY <1>4 DEF OwnedLoop, Dequeue, Steal, FindNothing, SwitchToUnowned, Spin,
       SwitchToTask, StopWorker, PinTask, UnpinTask, ReturnFiber, RequestStop, WorkerPoint
  <2>3. QED
    BY <2>1, <2>2, WorkerMoves, WokenFirstSame
<1>5. ASSUME NEW w \in Workers, Yield(w) \/ ReturnActor(w) PROVE WokenFirst'
  <2>1. PICK t \in Tasks : t = currentTask[w] /\ ~scheduled[t] /\ t \notin Threads
    BY <1>5, RunnerAwake DEF Yield, ReturnActor, At, Executing, Procs
  <2>2. \E point \in WorkerPoint : Goto(w, point)
    BY <1>5 DEF Yield, ReturnActor, WorkerPoint
  <2>3. \A u \in Tasks \ {t} : scheduled'[u] = scheduled[u] /\ woken'[u] = woken[u]
    BY <1>5, <2>1 DEF Yield, ReturnActor, IInv, TypeOK
  <2>4. ~scheduled'[t] /\ resumed' = resumed
    BY <1>5, <2>1 DEF Yield, ReturnActor
  <2>5. QED
    BY <2>1, <2>2, <2>3, <2>4, WorkerMoves, WokenFirstOne
<1>6. ASSUME NEW w \in Workers, UnownedLoop(w) \/ Land(w) PROVE WokenFirst'
  <2>1. FinishSuspending(w) /\ woken' = woken /\ resumed' = resumed
    BY <1>6 DEF UnownedLoop, Land
  <2>2. \A th \in Threads : pc'[th] = pc[th]
    <3>1. \E point \in WorkerPoint : Goto(w, point)
      BY <1>6 DEF UnownedLoop, Land, WorkerPoint
    <3>2. QED
      BY <3>1, WorkerMoves
  <2>3. CASE suspendingTask[w] = NoTask
    BY <2>1, <2>2, <2>3, WokenFirstSame DEF FinishSuspending
  <2>4. CASE suspendingTask[w] # NoTask
    <3>1. PICK t \in Tasks : t = suspendingTask[w] /\ t \notin Threads
      BY <2>4 DEF IInv, TypeOK, ControlOK, WorkerControl
    <3>2. scheduled' = [scheduled EXCEPT ![t] = woken[t]]
      BY <2>1, <2>4, <3>1 DEF FinishSuspending
    <3>3. scheduled'[t] = woken[t] /\ \A u \in Tasks \ {t} : scheduled'[u] = scheduled[u]
      BY <3>2 DEF IInv, TypeOK
    <3>4. QED
      BY <2>1, <2>2, <3>1, <3>3, WokenFirstOne
  <2>5. QED
    BY <2>3, <2>4
<1>7. ASSUME NEW w \in Workers, Enter(w) \/ StartTask(w) PROVE WokenFirst'
  <2>1. PICK t \in Tasks : t = currentTask[w] /\ t \notin Threads
    BY <1>7 DEF Enter, StartTask, At, IInv, TypeOK, ControlOK, WorkerControl, HoldsTask
  <2>2. \E point \in WorkerPoint : Goto(w, point)
    BY <1>7 DEF Enter, StartTask, WorkerPoint
  <2>3. /\ \A u \in Tasks \ {t} : scheduled'[u] = scheduled[u] /\ woken'[u] = woken[u]
        /\ ~scheduled'[t] /\ resumed' = resumed
    BY <1>7, <2>1 DEF Enter, StartTask, IInv, TypeOK
  <2>4. QED
    BY <2>1, <2>2, <2>3, WorkerMoves, WokenFirstOne
<1>8. ASSUME NEW w \in Workers, FinishMain(w) \/ FinishListening(w) PROVE WokenFirst'
  <2>1. PICK t \in Tasks : t = currentTask[w] /\ t \notin Threads
    BY <1>8, RunnerAwake DEF FinishMain, FinishListening, At, Executing, Procs
  <2>2. Retire(w, t) /\ \A u \in Tasks \ {t} : woken'[u] = woken[u]
    BY <1>8, <2>1 DEF FinishMain, FinishListening, IInv, TypeOK
  <2>3. Goto(w, "loop") /\ resumed' = resumed
    BY <2>2 DEF Retire
  <2>4. /\ scheduled'[t] => woken'[t]
        /\ \A u \in Tasks \ {t} : scheduled'[u] = scheduled[u]
    BY <2>2 DEF Retire, IInv, TypeOK
  <2>5. QED
    BY <2>1, <2>2, <2>3, <2>4, WorkerMoves, WokenFirstOne
<1>9. ASSUME NEW th \in Threads, SuspendThread(th) PROVE WokenFirst'
  <2>1. CASE woken[th]
    BY <1>9, <2>1, WokenFirstSame DEF SuspendThread, Goto, IInv, TypeOK, Procs, Tasks
  <2>2. CASE ~woken[th]
    <3>1. /\ UNCHANGED <<scheduled, woken>> /\ ~resumed'[th]
          /\ \A h \in Threads \ {th} : resumed'[h] = resumed[h] /\ pc'[h] = pc[h]
      BY <1>9, <2>2 DEF SuspendThread, Goto, IInv, TypeOK, Procs, Tasks
    <3>2. QED
      BY <3>1 DEF WokenFirst
  <2>3. QED
    BY <2>1, <2>2
<1>10. ASSUME NEW th \in Threads, WakeThread(th) PROVE WokenFirst'
  BY <1>10, WokenFirstSame DEF WakeThread, Goto, IInv, TypeOK, Procs, Tasks
<1>11. ASSUME NEW p \in Procs, NEW th \in OSThreads, SpawnThread(p, th)
       PROVE  WokenFirst'
  BY <1>11, WokenFirstSame DEF SpawnThread, Goto, IInv, TypeOK, Procs, Tasks
<1>12. ASSUME NEW th \in Threads, ReturnThread(th) \/ MailProcessed(th) PROVE WokenFirst'
  <2>1. th \in Tasks /\ ~scheduled[th]
    BY DEF Tasks, IInv, PlacesOK, ThreadPlaces
  <2>2. /\ \A h \in Threads : pc'[h] = "blocked" => pc[h] = "blocked" /\ h # th
        /\ \A u \in Tasks \ {th} : scheduled'[u] = scheduled[u] /\ woken'[u] = woken[u]
        /\ ~scheduled'[th] /\ resumed' = resumed
    BY <1>12, <2>1 DEF ReturnThread, MailProcessed, Goto, IInv, TypeOK, Procs, Tasks
  <2>3. QED
    BY <2>1, <2>2, WokenFirstOne
<1>13. ASSUME NEW th \in Threads, ProcessMail(th) PROVE WokenFirst'
  BY <1>13, WokenFirstSame DEF ProcessMail, Goto, IInv, TypeOK, Procs, Tasks
<1>14. ASSUME NEW th \in Threads, KillThread(th) PROVE WokenFirst'
  <2>1. /\ \A h \in Threads : pc'[h] = "blocked" => pc[h] = "blocked" /\ h # th
        /\ \A u \in Tasks \ {th} : scheduled'[u] = scheduled[u] /\ woken'[u] = woken[u]
        /\ ~scheduled'[th] /\ resumed' = resumed /\ th \in Tasks
    BY <1>14 DEF KillThread, Goto, IInv, TypeOK, Procs, Tasks
  <2>2. QED
    BY <2>1, WokenFirstOne
<1>15. (\E th \in Threads : ThreadLoop(th)) => WokenFirst'
  BY <1>9, <1>10, <1>13, <1>14 DEF ThreadLoop, EndThread
<1>16. (\E th \in OSThreads : ThreadCode(th)) => WokenFirst'
  BY <1>12, <1>14 DEF ThreadCode, ThrowThread
<1>17. QED
  BY <1>1, <1>2, <1>3, <1>4, <1>5, <1>6, <1>7, <1>8, <1>11, <1>15, <1>16
     DEF Next, WorkerLoop, TaskCode

(* A step of the schedulers that Parking does not see.                     *)
LEMMA Unseen ==
  ASSUME UNCHANGED <<status, scheduled, woken, mail, stopped>>,
         \A th \in Threads : ThreadAlike(th)
  PROVE  [Parked!Next]_Parked!vars
<1>1. PhaseOf' = PhaseOf
  BY PhasesKept
<1>2. QED
  BY <1>1 DEF Parked!vars, PhaseOf

(* The task that a worker runs or waits to run changes, and no other.      *)
LEMMA OnlyTask ==
  ASSUME IInv, NEW w \in Workers, NEW point, Goto(w, point), NEW t \in Tasks \ Threads,
         \A u \in Tasks \ {t} : status'[u] = status[u] /\ scheduled'[u] = scheduled[u]
  PROVE  PhaseOf' = [PhaseOf EXCEPT ![t] = Phase(t)']
  BY WorkerMoves, PhaseKept, PhaseSet

(* A task that stops its scheduler's worker goes to sleep, awake until now *)
(* and with nothing left to look at unless it was resumed.                 *)
LEMMA SuspendingMapped ==
  ASSUME IInv, NEW w \in Workers, NEW point, Goto(w, point), FinishSuspending(w),
         UNCHANGED <<woken, mail, stopped>>
  PROVE  [Parked!Next]_Parked!vars
<1>1. CASE suspendingTask[w] = NoTask
  BY <1>1, WorkerMoves, Unseen DEF FinishSuspending
<1>2. CASE suspendingTask[w] # NoTask
  <2>1. PICK t \in Tasks \ Threads : t = suspendingTask[w]
    BY <1>2 DEF IInv, TypeOK, ControlOK, WorkerControl
  <2>2. /\ status' = [status EXCEPT ![t] = "Suspended"]
        /\ scheduled' = [scheduled EXCEPT ![t] = woken[t]]
    BY <1>2, <2>1 DEF FinishSuspending
  <2>3. PhaseOf' = [PhaseOf EXCEPT ![t] = Phase(t)']
    BY <2>2, OnlyTask DEF IInv, TypeOK
  <2>4. Phase(t)' = "asleep"
    BY <2>1, <2>2 DEF Phase, Spawned, IInv, TypeOK
  <2>5. Phase(t) = "awake" /\ Settled(t)
    BY <1>2, <2>1
      DEF IInv, PlacesOK, WorkerPlaces, Executed, Phase, Spawned, WakeupsOK, HeldSettled
  <2>6. Parked!Sleep(t)
    BY <2>3, <2>4, <2>5 DEF Parked!Sleep, Parked!Drained, PhaseOf, Settled
  <2>7. QED
    BY <2>6 DEF Parked!Next, Parked!Step
<1>3. QED
  BY <1>1, <1>2

(* A worker enters a task, or starts it: the task was resumed.             *)
LEMMA EnterMapped ==
  ASSUME IInv, WokenFirst, NEW w \in Workers, Enter(w) \/ StartTask(w)
  PROVE  \E t \in Tasks : Parked!Wake(t)
<1> USE DEF lockedVars, ownVars, queueVars, stackVars, loopVars
<1>1. PICK t \in Tasks \ Threads : t = currentTask[w]
  BY DEF Enter, StartTask, At, IInv, TypeOK, ControlOK, WorkerControl, HoldsTask
<1>2. Waiting(t) /\ Phase(t) = "asleep"
  BY <1>1 DEF Enter, StartTask, At, IInv, PlacesOK, WorkerPlaces, Picked, PickPoints,
              Waiting, Phase, Spawned
<1>3. /\ status' = [status EXCEPT ![t] = "Running"]
      /\ scheduled' = [scheduled EXCEPT ![t] = FALSE]
      /\ Goto(w, "run") /\ UNCHANGED <<woken, mail, stopped>>
  BY <1>1 DEF Enter, StartTask
<1>4. PhaseOf' = [PhaseOf EXCEPT ![t] = Phase(t)'] /\ Phase(t)' = "awake"
  <2>1. PhaseOf' = [PhaseOf EXCEPT ![t] = Phase(t)']
    BY <1>3, OnlyTask DEF IInv, TypeOK
  <2>2. Phase(t)' = "awake"
    BY <1>3 DEF Phase, Spawned, IInv, TypeOK
  <2>3. QED
    BY <2>1, <2>2
<1>5. woken[t]
  BY <1>2 DEF WokenFirst, Waiting
<1>6. QED
  BY <1>2, <1>3, <1>4, <1>5 DEF Parked!Wake, PhaseOf

(* A task that retires is dead or listens.                                 *)
LEMMA RetirePhases ==
  ASSUME IInv, NEW w \in Workers, NEW t \in Tasks \ Threads, Retire(w, t)
  PROVE  PhaseOf' = [PhaseOf EXCEPT ![t] = IF stopped'[t] THEN "dead" ELSE "asleep"]
<1>1. PhaseOf' = [PhaseOf EXCEPT ![t] = Phase(t)']
  BY OnlyTask DEF Retire, IInv, TypeOK
<1>2. Phase(t)' = IF stopped'[t] THEN "dead" ELSE "asleep"
  BY DEF Retire, Phase, Spawned, IInv, TypeOK
<1>3. QED
  BY <1>1, <1>2

LEMMA FinishMainMapped ==
  ASSUME IInv, NEW w \in Workers, FinishMain(w)
  PROVE  [Parked!Next]_Parked!vars
<1>1. PICK t \in Tasks \ Threads : t = currentTask[w] /\ Phase(t) = "awake"
  BY RunnerAwake DEF FinishMain, At, Executing, Procs
<1>2. Retire(w, t) /\ UNCHANGED <<stopped, woken, mail>>
  BY <1>1 DEF FinishMain, Retire
<1>3. PhaseOf' = [PhaseOf EXCEPT ![t] = IF stopped[t] THEN "dead" ELSE "asleep"]
  BY <1>2, RetirePhases
<1>4. Settled(t)
  BY <1>1 DEF IInv, WakeupsOK, HeldSettled, FinishMain, At
<1>5. Parked!Die(t) \/ Parked!Sleep(t)
  BY <1>1, <1>2, <1>3, <1>4
    DEF Parked!Die, Parked!Sleep, Parked!Drained, PhaseOf, Settled
<1>6. QED
  BY <1>5 DEF Parked!Next, Parked!Step

LEMMA FinishListeningMapped ==
  ASSUME IInv, NEW w \in Workers, FinishListening(w)
  PROVE  [Parked!Next]_Parked!vars
<1>1. PICK t \in Tasks \ Threads : t = currentTask[w] /\ Phase(t) = "awake"
  BY RunnerAwake DEF FinishListening, At, Executing, Procs
<1>2. Retire(w, t) /\ mail' = mail
  BY <1>1 DEF FinishListening, Retire
<1>3. PhaseOf' = [PhaseOf EXCEPT ![t] = IF stopped'[t] THEN "dead" ELSE "asleep"]
  BY <1>2, RetirePhases
<1>4. CASE Drained(t) /\ woken' = [woken EXCEPT ![t] = FALSE] /\ stopped' = stopped
  <2>1. Parked!Die(t) \/ Parked!GiveBack(t)
    BY <1>1, <1>2, <1>3, <1>4
      DEF Parked!Die, Parked!GiveBack, Parked!Drained, Drained, PhaseOf
  <2>2. QED
    BY <2>1 DEF Parked!Next, Parked!Step
<1>5. CASE stopped' = [stopped EXCEPT ![t] = TRUE] /\ woken' = woken
  <2>1. stopped'[t]
    BY <1>5 DEF IInv, TypeOK
  <2>2. Parked!Quit(t)
    BY <1>1, <1>2, <1>3, <1>5, <2>1 DEF Parked!Quit, PhaseOf
  <2>3. QED
    BY <2>2 DEF Parked!Next, Parked!Step
<1>6. QED
  BY <1>1, <1>4, <1>5 DEF FinishListening

(* What running code does changes no phase.                                *)
LEMMA RunMapped ==
  ASSUME IInv, NEW p \in Procs,
         \/ Dispatch(p) \/ Await(p) \/ StopTask(p)
         \/ p \in Workers /\ (Yield(p) \/ ReturnFiber(p) \/ ReturnActor(p))
  PROVE  \E t \in Tasks : Parked!Step(t)
<1>1. PICK t \in Tasks :
        /\ t = Running(p)
        /\ p \in Workers => currentTask[p] = t
        /\ PhaseOf[t] = "awake"
  BY RunnerAwake DEF Dispatch, Await, StopTask, Yield, ReturnFiber, ReturnActor, At,
                     Executing, PhaseOf
<1>2. PhaseOf' = PhaseOf
  <2>1. UNCHANGED <<status, scheduled>>
    BY DEF Dispatch, Await, StopTask, Yield, ReturnFiber, ReturnActor, lockedVars
  <2>2. \A th \in Threads : ThreadAlike(th)
    <3>1. pc[p] = "run"
      BY DEF Dispatch, Await, StopTask, Yield, ReturnFiber, ReturnActor, At
    <3>2. CASE Dispatch(p) \/ StopTask(p)
      BY <3>2 DEF Dispatch, StopTask, ThreadAlike
    <3>3. CASE Await(p)
      BY <3>1, <3>3 DEF Await, Goto, IInv, TypeOK, ThreadAlike, Procs
    <3>4. CASE p \in Workers /\ (Yield(p) \/ ReturnFiber(p) \/ ReturnActor(p))
      <4>1. \E point \in {"suspend", "ending"} : Goto(p, point)
        BY <3>4 DEF Yield, ReturnFiber, ReturnActor
      <4>2. QED
        BY <3>4, <4>1, WorkerMoves
    <3>5. QED
      BY <3>2, <3>3, <3>4
  <2>3. QED
    BY <2>1, <2>2, PhasesKept
<1>3. CASE Dispatch(p)
  BY <1>1, <1>2, <1>3 DEF Dispatch, Parked!Step, Parked!Take, PhaseOf
<1>4. CASE Await(p)
  BY <1>1, <1>2, <1>4
    DEF Await, Drained, Parked!Step, Parked!GiveBack, Parked!Drained, PhaseOf
<1>5. CASE StopTask(p)
  BY <1>1, <1>2, <1>5 DEF StopTask, Parked!Step, Parked!Quit, PhaseOf
<1>6. CASE p \in Workers /\ Yield(p)
  BY <1>1, <1>2, <1>6 DEF Yield, Parked!Step, Parked!Poke, PhaseOf
<1>7. CASE p \in Workers /\ ReturnFiber(p)
  BY <1>1, <1>2, <1>7 DEF ReturnFiber, Parked!Step, Parked!Quit, PhaseOf
<1>8. CASE p \in Workers /\ ReturnActor(p)
  BY <1>1, <1>2, <1>8
    DEF ReturnActor, Drained, Parked!Step, Parked!GiveBack, Parked!Drained, PhaseOf
<1>9. QED
  BY <1>3, <1>4, <1>5, <1>6, <1>7, <1>8

(* A thread falls asleep unless it was woken, and wakes when it is.        *)
LEMMA ThreadMapped ==
  ASSUME IInv, WokenFirst, NEW th \in Threads, SuspendThread(th) \/ WakeThread(th)
  PROVE  [Parked!Next]_Parked!vars
<1>1. th \in Tasks /\ th \in Procs
  BY DEF Tasks, Procs
<1>2. CASE SuspendThread(th) /\ woken[th]
  <2>1. UNCHANGED <<status, scheduled, woken, mail, stopped>>
    BY <1>2 DEF SuspendThread
  <2>2. pc[th] = "suspend" /\ pc' = [pc EXCEPT ![th] = "run"]
    BY <1>2 DEF SuspendThread, At, Goto
  <2>3. \A h \in Threads : ThreadAlike(h)
    BY <1>1, <2>2 DEF IInv, TypeOK, ThreadAlike
  <2>4. QED
    BY <2>1, <2>3, Unseen
<1>3. CASE SuspendThread(th) /\ ~woken[th]
  <2>1. /\ status' = [status EXCEPT ![th] = "Suspended"]
        /\ pc' = [pc EXCEPT ![th] = "blocked"]
        /\ UNCHANGED <<scheduled, woken, mail, stopped>>
    BY <1>3 DEF SuspendThread, Goto
  <2>2. \A u \in Tasks \ {th} : Phase(u)' = Phase(u)
    BY <1>1, <2>1 DEF Phase, Spawned, IInv, TypeOK
  <2>3. PhaseOf' = [PhaseOf EXCEPT ![th] = Phase(th)']
    BY <1>1, <2>2, PhaseSet
  <2>4. Phase(th)' = "asleep"
    BY <1>1, <2>1 DEF Phase, IInv, TypeOK
  <2>5. Settled(th) /\ Phase(th) = "awake"
    BY <1>3 DEF IInv, WakeupsOK, SuspendThread, At, Phase
  <2>6. Parked!Sleep(th)
    BY <1>1, <2>1, <2>3, <2>4, <2>5 DEF Parked!Sleep, Parked!Drained, PhaseOf, Settled
  <2>7. QED
    BY <1>1, <2>6 DEF Parked!Next, Parked!Step
<1>4. CASE WakeThread(th)
  <2>1. /\ pc[th] = "blocked" /\ resumed[th] /\ pc' = [pc EXCEPT ![th] = "run"]
        /\ UNCHANGED <<status, scheduled, woken, mail, stopped>>
    BY <1>4 DEF WakeThread, At, Goto, lockedVars
  <2>2. \A u \in Tasks \ {th} : Phase(u)' = Phase(u)
    BY <1>1, <2>1 DEF Phase, Spawned, IInv, TypeOK
  <2>3. PhaseOf' = [PhaseOf EXCEPT ![th] = Phase(th)']
    BY <1>1, <2>2, PhaseSet
  <2>4. Phase(th)' = "awake" /\ Phase(th) = "asleep" /\ woken[th]
    BY <1>1, <2>1 DEF Phase, IInv, TypeOK, WokenFirst
  <2>5. Parked!Wake(th)
    BY <1>1, <2>1, <2>3, <2>4 DEF Parked!Wake, PhaseOf
  <2>6. QED
    BY <1>1, <2>5 DEF Parked!Next, Parked!Step
<1>5. QED
  BY <1>2, <1>3, <1>4

(* A thread of runTaskAsOSThread: it begins awake, gives its permit back   *)
(* or quits when its function or process is done, and dies out of its      *)
(* polling loop or of an exception.                                        *)
LEMMA ThreadPhases ==
  ASSUME IInv, NEW th \in Threads, NEW point, Goto(th, point),
         \A u \in Tasks \ {th} : status'[u] = status[u] /\ scheduled'[u] = scheduled[u]
  PROVE  /\ PhaseOf' = [PhaseOf EXCEPT ![th] = Phase(th)']
         /\ pc'[th] = point /\ th \in Tasks
<1>1. pc'[th] = point /\ \A h \in Threads \ {th} : pc'[h] = pc[h]
  BY DEF Goto, IInv, TypeOK, Procs, Tasks
<1>2. \A u \in Tasks \ {th} : Phase(u)' = Phase(u)
  BY <1>1 DEF Phase, Spawned
<1>3. QED
  BY <1>1, <1>2, PhaseSet DEF Tasks

LEMMA BeginMapped ==
  ASSUME IInv, NEW p \in Procs, NEW th \in OSThreads, SpawnThread(p, th)
  PROVE  [Parked!Next]_Parked!vars
<1>1. /\ th \in Threads /\ pc[th] = "new" /\ Goto(th, "run")
      /\ UNCHANGED <<status, scheduled, woken, mail, stopped>>
  BY DEF SpawnThread, lockedVars
<1>2. PhaseOf' = [PhaseOf EXCEPT ![th] = Phase(th)'] /\ pc'[th] = "run" /\ th \in Tasks
  BY <1>1, ThreadPhases
<1>3. Phase(th)' = "awake" /\ PhaseOf[th] = "new"
  BY <1>1, <1>2 DEF Phase, PhaseOf
<1>4. Parked!Begin(th)
  BY <1>1, <1>2, <1>3 DEF Parked!Begin, PhaseOf
<1>5. QED
  BY <1>2, <1>4 DEF Parked!Next, Parked!Step

LEMMA DoneMapped ==
  ASSUME IInv, NEW th \in Threads, ReturnThread(th) \/ MailProcessed(th)
  PROVE  [Parked!Next]_Parked!vars
<1>1. pc[th] = "run" /\ Goto(th, "poll") /\ UNCHANGED <<status, scheduled, mail>>
  BY DEF ReturnThread, MailProcessed, At
<1>2. PhaseOf' = PhaseOf /\ PhaseOf[th] = "awake" /\ th \in Tasks
  <2>1. \A h \in Threads : ThreadAlike(h)
    BY <1>1 DEF Goto, IInv, TypeOK, Procs, Tasks, ThreadAlike
  <2>2. QED
    BY <1>1, <2>1, PhasesKept DEF PhaseOf, Phase, Tasks
<1>3. CASE Drained(th) /\ woken' = [woken EXCEPT ![th] = FALSE] /\ stopped' = stopped
  <2>1. Parked!GiveBack(th)
    BY <1>1, <1>2, <1>3 DEF Parked!GiveBack, Parked!Drained, Drained, PhaseOf
  <2>2. QED
    BY <1>2, <2>1 DEF Parked!Next, Parked!Step
<1>4. CASE stopped' = [stopped EXCEPT ![th] = TRUE] /\ woken' = woken
  <2>1. Parked!Quit(th)
    BY <1>1, <1>2, <1>4 DEF Parked!Quit, PhaseOf
  <2>2. QED
    BY <1>2, <2>1 DEF Parked!Next, Parked!Step
<1>5. QED
  BY <1>3, <1>4 DEF ReturnThread, MailProcessed

LEMMA EndMapped ==
  ASSUME IInv, NEW th \in Threads, EndThread(th) \/ ThrowThread(th)
  PROVE  [Parked!Next]_Parked!vars
<1>1. /\ pc[th] \in {"poll", "run"} /\ Goto(th, "ended")
      /\ status' = [status EXCEPT ![th] = "Dead"]
      /\ scheduled' = [scheduled EXCEPT ![th] = FALSE]
      /\ UNCHANGED <<woken, mail, stopped>>
  BY DEF EndThread, ThrowThread, KillThread, At
<1>2. PhaseOf' = [PhaseOf EXCEPT ![th] = Phase(th)'] /\ pc'[th] = "ended" /\ th \in Tasks
  BY <1>1, ThreadPhases DEF IInv, TypeOK
<1>3. Phase(th)' = "dead" /\ PhaseOf[th] = "awake"
  BY <1>1, <1>2 DEF Phase, PhaseOf
<1>4. Parked!Fail(th)
  BY <1>1, <1>2, <1>3 DEF Parked!Fail, PhaseOf
<1>5. QED
  BY <1>2, <1>4 DEF Parked!Next, Parked!Step

(* An event goes to a task that was spawned, with a wake-up.               *)
LEMMA SendMapped ==
  ASSUME IInv, NEW p \in Procs, NEW t \in Tasks, Send(p, t)
  PROVE  Parked!Post(t)
<1>1. /\ woken' = [woken EXCEPT ![t] = TRUE]
      /\ PhaseOf' = [PhaseOf EXCEPT ![t] =
           IF PhaseOf[t] = "new" THEN "asleep" ELSE PhaseOf[t]]
  BY ResumePhases DEF Send, Spawned
<1>2. PhaseOf[t] # "new"
  BY DEF Send, PhaseOf, Phase, Spawned
<1>3. PhaseOf' = PhaseOf
  BY <1>1, <1>2 DEF PhaseOf
<1>4. QED
  BY <1>1, <1>2, <1>3 DEF Send, Parked!Post, PhaseOf

(* Every step of the schedulers is a step of Parking, or none.             *)
LEMMA ParkingStep ==
  ASSUME IInv, WokenFirst, Next
  PROVE  [Parked!Next]_Parked!vars
<1> USE DEF lockedVars, ownVars, queueVars, stackVars, loopVars
<1>1. ASSUME NEW p \in Procs, FinishPush(p) PROVE [Parked!Next]_Parked!vars
  BY <1>1, Unseen DEF FinishPush, ThreadAlike
<1>2. ASSUME NEW p \in Procs, NEW t \in Tasks, Spawn(p, t) \/ Send(p, t) \/ Resume(p, t)
      PROVE  [Parked!Next]_Parked!vars
  <2>1. Parked!Poke(t) \/ Parked!Post(t)
    BY <1>2, ResumeMapped, SendMapped DEF Spawn, Resume, Spawned
  <2>2. QED
    BY <2>1 DEF Parked!Next, Parked!Step
<1>3. ASSUME NEW p \in Procs,
             \/ Dispatch(p) \/ Await(p) \/ StopTask(p)
             \/ p \in Workers /\ (Yield(p) \/ ReturnFiber(p) \/ ReturnActor(p))
      PROVE  [Parked!Next]_Parked!vars
  BY <1>3, RunMapped DEF Parked!Next
<1>4. ASSUME NEW w \in Workers,
             \/ OwnedLoop(w) \/ Dequeue(w) \/ Steal(w) \/ FindNothing(w)
             \/ SwitchToUnowned(w) \/ Spin(w) \/ SwitchToTask(w) \/ StopWorker(w)
             \/ PinTask(w) \/ UnpinTask(w) \/ RequestStop(w)
      PROVE  [Parked!Next]_Parked!vars
  <2>1. UNCHANGED <<status, scheduled, woken, mail, stopped>>
    BY <1>4 DEF OwnedLoop, Dequeue, Steal, FindNothing, SwitchToUnowned, Spin,
       SwitchToTask, StopWorker, PinTask, UnpinTask, RequestStop
  <2>2. pc' = pc \/ \E point \in WorkerPoint : Goto(w, point)
    BY <1>4 DEF OwnedLoop, Dequeue, Steal, FindNothing, SwitchToUnowned, Spin,
       SwitchToTask, StopWorker, PinTask, UnpinTask, RequestStop, WorkerPoint
  <2>3. QED
    BY <2>1, <2>2, WorkerMoves, Unseen DEF ThreadAlike
<1>5. ASSUME NEW w \in Workers, UnownedLoop(w) \/ Land(w) PROVE [Parked!Next]_Parked!vars
  <2>1. FinishSuspending(w) /\ UNCHANGED <<woken, mail, stopped>>
    BY <1>5 DEF UnownedLoop, Land
  <2>2. \E point \in WorkerPoint : Goto(w, point)
    BY <1>5 DEF UnownedLoop, Land, WorkerPoint
  <2>3. QED
    BY <2>1, <2>2, SuspendingMapped
<1>6. ASSUME NEW w \in Workers, Enter(w) \/ StartTask(w) PROVE [Parked!Next]_Parked!vars
  BY <1>6, EnterMapped DEF Parked!Next, Parked!Step
<1>7. ASSUME NEW w \in Workers, FinishMain(w) \/ FinishListening(w)
      PROVE  [Parked!Next]_Parked!vars
  BY <1>7, FinishMainMapped, FinishListeningMapped
<1>8. ASSUME NEW th \in Threads, SuspendThread(th) \/ WakeThread(th)
      PROVE  [Parked!Next]_Parked!vars
  BY <1>8, ThreadMapped
<1>9. ASSUME NEW p \in Procs, NEW th \in OSThreads, SpawnThread(p, th)
      PROVE  [Parked!Next]_Parked!vars
  BY <1>9, BeginMapped
<1>10. ASSUME NEW th \in Threads, ProcessMail(th) PROVE [Parked!Next]_Parked!vars
  <2>1. \A h \in Threads : ThreadAlike(h)
    BY <1>10 DEF ProcessMail, At, Goto, IInv, TypeOK, Procs, Tasks, ThreadAlike
  <2>2. QED
    BY <1>10, <2>1, Unseen DEF ProcessMail
<1>11. ASSUME NEW th \in Threads, ReturnThread(th) \/ MailProcessed(th)
       PROVE  [Parked!Next]_Parked!vars
  BY <1>11, DoneMapped
<1>12. ASSUME NEW th \in Threads, EndThread(th) \/ ThrowThread(th)
       PROVE  [Parked!Next]_Parked!vars
  BY <1>12, EndMapped
<1>13. (\E th \in Threads : ThreadLoop(th)) => [Parked!Next]_Parked!vars
  BY <1>8, <1>10, <1>12 DEF ThreadLoop
<1>14. (\E th \in OSThreads : ThreadCode(th)) => [Parked!Next]_Parked!vars
  BY <1>11, <1>12 DEF ThreadCode
<1>15. QED
  BY <1>1, <1>2, <1>3, <1>4, <1>5, <1>6, <1>7, <1>9, <1>13, <1>14
     DEF Next, WorkerLoop, TaskCode, Procs

(* Nothing runs, sleeps or is marked that was not resumed first.           *)
THEOREM NeverRunsUnwoken == Spec => []WokenFirst
<1>1. Init => WokenFirst
  BY DEF Init, WokenFirst
<1>2. IInv /\ WokenFirst /\ [Next]_vars => WokenFirst'
  <2>1. ASSUME WokenFirst, UNCHANGED vars PROVE WokenFirst'
    BY <2>1, WokenFirstSame DEF vars, lockedVars
  <2>2. QED
    BY <2>1, WokenFirstStep
<1>3. QED
  BY <1>1, <1>2, Invariance, PTL DEF Spec

(* The schedulers keep the promise of Parking for any number of workers,   *)
(* threads, fibers and actors: wherever a task is queued, stolen or run, it *)
(* sleeps only with an empty mailbox or a wake-up in hand, and wakes by a  *)
(* wake-up only.                                                           *)
THEOREM SchedulingImplementsParking == Spec => ImplementsParking
<1>1. Init => Parked!Init
  <2> SUFFICES ASSUME Init PROVE Parked!Init
    OBVIOUS
  <2>1. \A t \in Tasks : Phase(t) \in {"new", "awake"}
    BY DEF Init, Phase, Spawned, Procs
  <2>2. QED
    BY <2>1 DEF Init, Parked!Init
<1>2. IInv /\ WokenFirst /\ [Next]_vars => [Parked!Next]_Parked!vars
  <2>1. ASSUME UNCHANGED vars PROVE [Parked!Next]_Parked!vars
    BY <2>1, Unseen DEF vars, lockedVars, ThreadAlike
  <2>2. QED
    BY <2>1, ParkingStep
<1>3. QED
  BY <1>1, <1>2, Invariance, NeverRunsUnwoken, PTL
     DEF Spec, ImplementsParking, Parked!Spec

-----------------------------------------------------------------------------
(* The pooled stacks: a task has one exactly while it runs or is suspended, *)
(* and every stack that is allocated has one owner.                        *)
Pooled == Fibers \union Actors

StacksTold ==
  \A t \in Pooled : stack[t] # "none" <=> status[t] \in {"Running", "Suspended"}

StacksCounted ==
  IsFiniteSet(TaskStacks) /\ IsFiniteSet(StashedStacks) /\ StacksConserved

(* Taking a stack off the stash, or allocating one.                        *)
LEMMA StashGetCounts ==
  ASSUME TypeOK, IsFiniteSet(StashedStacks), NEW w \in Workers, StashGet(w)
  PROVE  /\ IsFiniteSet(StashedStacks')
         /\ live' - Cardinality(StashedStacks') = live + 1 - Cardinality(StashedStacks)
<1>1. /\ stash' = [stash EXCEPT ![w] = IF @ > 0 THEN @ - 1 ELSE 0]
      /\ live' = IF stash[w] > 0 THEN live ELSE live + 1
  BY DEF StashGet
<1>2. stash \in [Workers -> 0 .. StashSize] /\ live \in Int
  BY DEF TypeOK
<1>3. CASE stash[w] > 0
  <2>1. StashedStacks' = StashedStacks \ {<<w, stash[w]>>}
    BY <1>1, <1>2, <1>3 DEF StashedStacks
  <2>2. <<w, stash[w]>> \in StashedStacks
    BY <1>2, <1>3 DEF StashedStacks
  <2>3. IsFiniteSet(StashedStacks') /\ Cardinality(StashedStacks) \in Nat
        /\ Cardinality(StashedStacks') = Cardinality(StashedStacks) - 1
    BY <2>1, <2>2, FS_RemoveElement, FS_CardinalityType
  <2>4. live' = live
    BY <1>1, <1>3
  <2>5. QED
    BY <1>2, <2>3, <2>4
<1>4. CASE ~(stash[w] > 0)
  <2>1. stash' = stash
    BY <1>1, <1>2, <1>4
  <2>2. StashedStacks' = StashedStacks
    BY <2>1 DEF StashedStacks
  <2>3. QED
    BY <1>1, <1>2, <1>4, <2>2, FS_CardinalityType
<1>5. QED
  BY <1>3, <1>4

(* Putting a stack on the stash, or freeing it when the stash is full.     *)
LEMMA StashPutCounts ==
  ASSUME TypeOK, IsFiniteSet(StashedStacks), NEW w \in Workers, StashPut(w)
  PROVE  /\ IsFiniteSet(StashedStacks')
         /\ live' - Cardinality(StashedStacks') = live - 1 - Cardinality(StashedStacks)
<1>1. /\ stash' = [stash EXCEPT ![w] = IF @ < StashSize THEN @ + 1 ELSE @]
      /\ live' = IF stash[w] < StashSize THEN live ELSE live - 1
  BY DEF StashPut
<1>2. stash \in [Workers -> 0 .. StashSize] /\ live \in Int
  BY DEF TypeOK
<1>3. CASE stash[w] < StashSize
  <2>1. StashedStacks' = StashedStacks \union {<<w, stash[w] + 1>>}
    BY <1>1, <1>2, <1>3 DEF StashedStacks
  <2>2. <<w, stash[w] + 1>> \notin StashedStacks
    BY <1>2, <1>3 DEF StashedStacks
  <2>3. IsFiniteSet(StashedStacks') /\ Cardinality(StashedStacks) \in Nat
        /\ Cardinality(StashedStacks') = Cardinality(StashedStacks) + 1
    BY <2>1, <2>2, FS_AddElement, FS_CardinalityType
  <2>4. live' = live
    BY <1>1, <1>3
  <2>5. QED
    BY <1>2, <2>3, <2>4
<1>4. CASE ~(stash[w] < StashSize)
  <2>1. stash' = stash
    BY <1>1, <1>2, <1>4
  <2>2. StashedStacks' = StashedStacks
    BY <2>1 DEF StashedStacks
  <2>3. QED
    BY <1>1, <1>2, <1>4, <2>2, FS_CardinalityType
<1>5. QED
  BY <1>3, <1>4

(* A worker comes to an unowned stack, or leaves it.                       *)
LEMMA UnownedCounts ==
  ASSUME TypeOK, NEW w \in Workers, NEW b \in BOOLEAN, unowned[w] # b,
         unowned' = [unowned EXCEPT ![w] = b]
  PROVE  /\ Cardinality(UnownedStacks) \in Nat
         /\ Cardinality(UnownedStacks') =
              Cardinality(UnownedStacks) + IF b THEN 1 ELSE -1
<1>1. IsFiniteSet(UnownedStacks)
  BY FS_Subset DEF UnownedStacks
<1>2. unowned \in [Workers -> BOOLEAN]
  BY DEF TypeOK
<1>3. CASE b
  <2>1. UnownedStacks' = UnownedStacks \union {w} /\ w \notin UnownedStacks
    BY <1>2, <1>3 DEF UnownedStacks
  <2>2. QED
    BY <1>1, <1>3, <2>1, FS_AddElement, FS_CardinalityType
<1>4. CASE ~b
  <2>1. UnownedStacks' = UnownedStacks \ {w} /\ w \in UnownedStacks
    BY <1>2, <1>4 DEF UnownedStacks
  <2>2. QED
    BY <1>1, <1>4, <2>1, FS_RemoveElement, FS_CardinalityType
<1>5. QED
  BY <1>3, <1>4

(* A task is given a stack, or gives its stack up.                         *)
LEMMA TaskStackCounts ==
  ASSUME TypeOK, IsFiniteSet(TaskStacks), NEW t \in Fibers \union Actors,
         NEW c \in {"none", "live", "saved"}, (stack[t] = "none") # (c = "none"),
         stack' = [stack EXCEPT ![t] = c]
  PROVE  /\ IsFiniteSet(TaskStacks') /\ Cardinality(TaskStacks) \in Nat
         /\ Cardinality(TaskStacks') =
              Cardinality(TaskStacks) + IF c = "none" THEN -1 ELSE 1
<1>1. stack \in [Tasks -> {"none", "live", "saved"}] /\ t \in Tasks
  BY DEF TypeOK, Tasks
<1>2. CASE c = "none"
  <2>1. TaskStacks' = TaskStacks \ {t} /\ t \in TaskStacks
    BY <1>1, <1>2 DEF TaskStacks, Tasks
  <2>2. QED
    BY <1>2, <2>1, FS_RemoveElement, FS_CardinalityType
<1>3. CASE c # "none"
  <2>1. TaskStacks' = TaskStacks \union {t} /\ t \notin TaskStacks
    BY <1>1, <1>3 DEF TaskStacks, Tasks
  <2>2. QED
    BY <1>3, <2>1, FS_AddElement, FS_CardinalityType
<1>4. QED
  BY <1>2, <1>3

(* A step that gives no task a stack or takes one away.                    *)
TaskStacksKept == \A t \in Fibers \union Actors : stack'[t] = "none" <=> stack[t] = "none"

LEMMA StacksKept ==
  ASSUME StacksCounted, UNCHANGED stackVars, TaskStacksKept
  PROVE  StacksCounted'
<1>1. TaskStacks' = TaskStacks
  BY DEF TaskStacks, TaskStacksKept
<1>2. UnownedStacks' = UnownedStacks /\ StashedStacks' = StashedStacks /\ live' = live
  BY DEF stackVars, UnownedStacks, StashedStacks
<1>3. QED
  BY <1>1, <1>2 DEF StacksCounted, StacksConserved

(* Either loop leaves its unowned stack to the stash, or had none.         *)
LEMMA LeavesCounted ==
  ASSUME TypeOK, StacksCounted, TaskStacksKept, NEW w \in Workers,
         \/ unowned[w] /\ StashPut(w)
         \/ ~unowned[w] /\ UNCHANGED <<stash, live>>,
         unowned' = [unowned EXCEPT ![w] = FALSE]
  PROVE  StacksCounted'
<1>1. TaskStacks' = TaskStacks
  BY DEF TaskStacks, TaskStacksKept
<1>2. CASE unowned[w]
  <2>1. /\ IsFiniteSet(StashedStacks')
        /\ live' - Cardinality(StashedStacks') = live - 1 - Cardinality(StashedStacks)
    BY <1>2, StashPutCounts DEF StacksCounted
  <2>2. /\ Cardinality(UnownedStacks) \in Nat
        /\ Cardinality(UnownedStacks') = Cardinality(UnownedStacks) - 1
    BY <1>2, UnownedCounts
  <2>3. /\ Cardinality(TaskStacks) \in Nat /\ Cardinality(StashedStacks) \in Nat
        /\ Cardinality(StashedStacks') \in Nat /\ live \in Int /\ live' \in Int
    BY <1>2, <2>1, FS_CardinalityType DEF StacksCounted, TypeOK, StashPut
  <2>4. live' = Cardinality(UnownedStacks') + Cardinality(TaskStacks)
                  + Cardinality(StashedStacks')
    BY <2>1, <2>2, <2>3 DEF StacksCounted, StacksConserved
  <2>5. QED
    BY <1>1, <2>1, <2>4 DEF StacksCounted, StacksConserved
<1>3. CASE ~unowned[w]
  <2>1. unowned' = unowned /\ stash' = stash /\ live' = live
    BY <1>3 DEF TypeOK
  <2>2. QED
    BY <2>1, StacksKept DEF stackVars
<1>4. QED
  BY <1>2, <1>3

(* ownedLoop takes an unowned stack.                                       *)
LEMMA TakesCounted ==
  ASSUME TypeOK, StacksCounted, TaskStacksKept, NEW w \in Workers,
         ~unowned[w], StashGet(w), unowned' = [unowned EXCEPT ![w] = TRUE]
  PROVE  StacksCounted'
<1>1. TaskStacks' = TaskStacks
  BY DEF TaskStacks, TaskStacksKept
<1>2. /\ IsFiniteSet(StashedStacks')
      /\ live' - Cardinality(StashedStacks') = live + 1 - Cardinality(StashedStacks)
  BY StashGetCounts DEF StacksCounted
<1>3. /\ Cardinality(UnownedStacks) \in Nat
      /\ Cardinality(UnownedStacks') = Cardinality(UnownedStacks) + 1
  BY UnownedCounts
<1>4. /\ Cardinality(TaskStacks) \in Nat /\ Cardinality(StashedStacks) \in Nat
      /\ Cardinality(StashedStacks') \in Nat /\ live \in Int /\ live' \in Int
  BY <1>2, FS_CardinalityType DEF StacksCounted, TypeOK, StashGet
<1>5. live' = Cardinality(UnownedStacks') + Cardinality(TaskStacks)
                + Cardinality(StashedStacks')
  BY <1>2, <1>3, <1>4 DEF StacksCounted, StacksConserved
<1>6. QED
  BY <1>1, <1>2, <1>5 DEF StacksCounted, StacksConserved

(* unownedLoop gives its stack to the task it starts, and gets it back     *)
(* from a task that is through.                                            *)
LEMMA GivesCounted ==
  ASSUME TypeOK, StacksCounted, NEW w \in Workers, NEW t \in Fibers \union Actors,
         NEW b \in BOOLEAN, unowned[w] # b, stack[t] = "none" <=> ~b,
         unowned' = [unowned EXCEPT ![w] = b],
         stack' = [stack EXCEPT ![t] = IF b THEN "none" ELSE "live"],
         UNCHANGED <<stash, live>>
  PROVE  StacksCounted'
<1>1. StashedStacks' = StashedStacks
  BY DEF StashedStacks
<1>2. /\ Cardinality(UnownedStacks) \in Nat
      /\ Cardinality(UnownedStacks') = Cardinality(UnownedStacks) + IF b THEN 1 ELSE -1
  BY UnownedCounts
<1>3. /\ IsFiniteSet(TaskStacks') /\ Cardinality(TaskStacks) \in Nat
      /\ Cardinality(TaskStacks') = Cardinality(TaskStacks) + IF b THEN -1 ELSE 1
  <2>1. CASE b
    <3>1. stack' = [stack EXCEPT ![t] = "none"] /\ stack[t] # "none"
      BY <2>1
    <3>2. /\ IsFiniteSet(TaskStacks') /\ Cardinality(TaskStacks) \in Nat
          /\ Cardinality(TaskStacks') = Cardinality(TaskStacks) - 1
      BY <3>1, TaskStackCounts DEF StacksCounted
    <3>3. QED
      BY <2>1, <3>2
  <2>2. CASE ~b
    <3>1. stack' = [stack EXCEPT ![t] = "live"] /\ stack[t] = "none"
      BY <2>2
    <3>2. /\ IsFiniteSet(TaskStacks') /\ Cardinality(TaskStacks) \in Nat
          /\ Cardinality(TaskStacks') = Cardinality(TaskStacks) + 1
      BY <3>1, TaskStackCounts DEF StacksCounted
    <3>3. QED
      BY <2>2, <3>2
  <2>3. QED
    BY <2>1, <2>2
<1>4. Cardinality(StashedStacks) \in Nat
  BY FS_CardinalityType DEF StacksCounted
<1>5. live' = Cardinality(UnownedStacks') + Cardinality(TaskStacks')
                + Cardinality(StashedStacks)
  BY <1>2, <1>3, <1>4 DEF StacksCounted, StacksConserved
<1>6. QED
  BY <1>1, <1>3, <1>5 DEF StacksCounted, StacksConserved

(* Having a stack, and running or being suspended, begin and end together. *)
LEMMA ToldFrame ==
  ASSUME StacksTold,
         \A t \in Pooled :
           /\ stack'[t] = "none" <=> stack[t] = "none"
           /\ status'[t] \in {"Running", "Suspended"} <=>
                status[t] \in {"Running", "Suspended"}
  PROVE  StacksTold'
  BY DEF StacksTold

LEMMA ToldOne ==
  ASSUME TypeOK, StacksTold, NEW u \in Pooled,
         NEW c \in {"none", "live"}, NEW d \in Status,
         c # "none" <=> d \in {"Running", "Suspended"},
         stack' = [stack EXCEPT ![u] = c], status' = [status EXCEPT ![u] = d]
  PROVE  StacksTold'
  BY DEF StacksTold, TypeOK, Pooled, Tasks

StacksOK == StacksTold /\ StacksCounted

(* A step that leaves the stacks alone.                                    *)
LEMMA StacksFrame ==
  ASSUME StacksOK, UNCHANGED <<stack, stackVars>>,
         \A t \in Pooled : status'[t] \in {"Running", "Suspended"} <=>
                            status[t] \in {"Running", "Suspended"}
  PROVE  StacksOK'
<1>1. StacksTold'
  BY ToldFrame DEF StacksOK
<1>2. stackVars' = stackVars /\ TaskStacksKept
  BY DEF TaskStacksKept
<1>3. QED
  BY <1>1, <1>2, StacksKept DEF StacksOK

LEMMA ResumeStacks ==
  ASSUME IInv, StacksOK, NEW p \in Procs, NEW t \in Tasks, ResumeTask(p, t),
         UNCHANGED <<stack, stackVars>>
  PROVE  StacksOK'
<1>1. status \in [Tasks -> Status] /\ Threads \subseteq Tasks
  BY DEF IInv, TypeOK, Tasks
<1>2. CASE status' = status
  BY <1>2, StacksFrame
<1>3. CASE pin[t] \in Threads /\ status' = [status EXCEPT ![pin[t]] = "Running"]
  <2>1. pin[t] \notin Pooled
    BY <1>3 DEF Pooled
  <2>2. \A u \in Pooled : status'[u] \in {"Running", "Suspended"} <=>
                            status[u] \in {"Running", "Suspended"}
    BY <1>1, <1>3, <2>1 DEF Pooled, Tasks
  <2>3. QED
    BY <2>2, StacksFrame
<1>4. QED
  BY <1>2, <1>3 DEF ResumeTask

(* A task that is suspended has been running.                              *)
LEMMA SuspendingStatus ==
  ASSUME IInv, NEW w \in Workers, FinishSuspending(w)
  PROVE  \A t \in Pooled : status'[t] \in {"Running", "Suspended"} <=>
                             status[t] \in {"Running", "Suspended"}
<1>1. suspendingTask[w] # NoTask => status[suspendingTask[w]] = "Running"
  BY DEF IInv, PlacesOK, WorkerPlaces, Executed
<1>2. status \in [Tasks -> Status]
  BY DEF IInv, TypeOK
<1>3. QED
  BY <1>1, <1>2 DEF FinishSuspending, Pooled, Tasks

LEMMA StartStacks ==
  ASSUME IInv, StacksOK, NEW w \in Workers, StartTask(w)
  PROVE  StacksOK'
<1> DEFINE t == currentTask[w]
<1>1. At(w, "picked") /\ unowned[w] /\ status[t] # "Suspended"
  BY DEF StartTask
<1>2. t \in Fibers \union Actors /\ t \in Tasks /\ status[t] \in {"Starting", "Listening"}
  <2>1. t \in Tasks \union {NoTask} /\ t # NoTask /\ t \notin Threads
    BY <1>1 DEF IInv, TypeOK, ControlOK, WorkerControl, HoldsTask, At
  <2>2. Waiting(t)
    BY <1>1, <2>1 DEF IInv, PlacesOK, WorkerPlaces, Picked, PickPoints, At
  <2>3. QED
    BY <1>1, <2>1, <2>2 DEF Waiting, Tasks
<1>3. stack[t] = "none"
  BY <1>2 DEF StacksOK, StacksTold, Pooled
<1>4. /\ unowned' = [unowned EXCEPT ![w] = FALSE]
      /\ stack' = [stack EXCEPT ![t] = "live"]
      /\ status' = [status EXCEPT ![t] = "Running"]
      /\ UNCHANGED <<stash, live>>
  BY DEF StartTask
<1>5. TypeOK
  BY DEF IInv
<1> HIDE DEF t
<1>6. StacksTold'
  BY <1>2, <1>4, <1>5, ToldOne DEF StacksOK, Status, Pooled
<1>7. stack' = [stack EXCEPT ![t] = IF FALSE THEN "none" ELSE "live"]
  BY <1>4
<1>8. StacksCounted'
  BY <1>1, <1>2, <1>3, <1>4, <1>5, <1>7, GivesCounted DEF StacksOK
<1>9. QED
  BY <1>6, <1>8 DEF StacksOK

LEMMA RetireStacks ==
  ASSUME IInv, StacksOK, NEW w \in Workers, FinishMain(w) \/ FinishListening(w)
  PROVE  StacksOK'
<1> DEFINE t == currentTask[w]
<1>1. pc[w] \in {"run", "ending"} /\ Retire(w, t)
  BY DEF FinishMain, FinishListening, At
<1>2. /\ t \in Fibers \union Actors /\ t \in Tasks /\ status[t] = "Running"
      /\ ~unowned[w]
  <2>1. t \in Tasks \union {NoTask} /\ t # NoTask /\ t \notin Threads /\ ~unowned[w]
    BY <1>1 DEF IInv, TypeOK, ControlOK, WorkerControl, HoldsTask, Executing
  <2>2. Executed(t)
    BY <1>1 DEF IInv, PlacesOK, WorkerPlaces, Executing
  <2>3. QED
    BY <2>1, <2>2 DEF Executed, Tasks
<1>3. stack[t] # "none"
  BY <1>2 DEF StacksOK, StacksTold, Pooled
<1>4. /\ unowned' = [unowned EXCEPT ![w] = TRUE]
      /\ stack' = [stack EXCEPT ![t] = "none"]
      /\ \E d \in {"Dead", "Listening"} : status' = [status EXCEPT ![t] = d]
      /\ UNCHANGED <<stash, live>>
  BY <1>1 DEF Retire
<1>5. TypeOK
  BY DEF IInv
<1> HIDE DEF t
<1>6. StacksTold'
  BY <1>2, <1>4, <1>5, ToldOne DEF StacksOK, Status, Pooled
<1>7. stack' = [stack EXCEPT ![t] = IF TRUE THEN "none" ELSE "live"]
  BY <1>4
<1>8. StacksCounted'
  BY <1>2, <1>3, <1>4, <1>5, <1>7, GivesCounted DEF StacksOK
<1>9. QED
  BY <1>6, <1>8 DEF StacksOK

(* A task that sleeps or is about to has a stack, so the context saved on  *)
(* it, or jumped to, is that of a stack that is there already.             *)
LEMMA SwitchStacks ==
  ASSUME IInv, StacksOK, NEW w \in Workers,
         SwitchToUnowned(w) \/ SwitchToTask(w) \/ StopWorker(w)
  PROVE  TaskStacksKept /\ StacksTold'
<1>1. stack \in [Tasks -> {"none", "live", "saved"}]
  BY DEF IInv, TypeOK
<1>2. suspendingTask[w] # NoTask => stack[suspendingTask[w]] # "none"
  <2>1. suspendingTask[w] # NoTask => suspendingTask[w] \in Pooled
    BY DEF IInv, TypeOK, ControlOK, WorkerControl, Pooled, Tasks
  <2>2. QED
    BY <2>1 DEF IInv, PlacesOK, WorkerPlaces, Executed, StacksOK, StacksTold
<1>3. ASSUME SwitchToUnowned(w)
      PROVE  \A u \in Tasks : stack'[u] = "none" <=> stack[u] = "none"
  <2>1. suspendingTask[w] # NoTask
    BY <1>3 DEF IInv, ControlOK, WorkerControl, SwitchToUnowned, At
  <2>2. QED
    BY <1>1, <1>2, <1>3, <2>1 DEF SwitchToUnowned
<1>4. ASSUME SwitchToTask(w)
      PROVE  \A u \in Tasks : stack'[u] = "none" <=> stack[u] = "none"
  <2>1. currentTask[w] \in Pooled /\ status[currentTask[w]] = "Suspended"
    BY <1>4 DEF IInv, TypeOK, ControlOK, WorkerControl, HoldsTask, SwitchToTask, At,
                Pooled, Tasks
  <2>2. stack[currentTask[w]] # "none"
    BY <2>1 DEF StacksOK, StacksTold
  <2>3. \A u \in Tasks : u = suspendingTask[w] => stack[u] # "none"
    BY <1>2
  <2>4. QED
    BY <1>1, <1>4, <2>2, <2>3 DEF SwitchToTask
<1>5. ASSUME StopWorker(w)
      PROVE  \A u \in Tasks : stack'[u] = "none" <=> stack[u] = "none"
  <2>1. ASSUME pc[w] = "suspend", currentTask[w] \in Tasks
        PROVE  stack[currentTask[w]] # "none"
    <3>1. currentTask[w] \in Pooled
      BY <2>1 DEF IInv, ControlOK, WorkerControl, Pooled, Tasks
    <3>2. QED
      BY <2>1, <3>1 DEF IInv, PlacesOK, WorkerPlaces, Executing, Executed, StacksOK,
                        StacksTold
  <2>2. QED
    BY <1>1, <1>5, <2>1 DEF StopWorker
<1>6. \A u \in Tasks : stack'[u] = "none" <=> stack[u] = "none"
  BY <1>3, <1>4, <1>5
<1>7. UNCHANGED status
  BY DEF SwitchToUnowned, SwitchToTask, StopWorker, lockedVars
<1>8. QED
  BY <1>6, <1>7, ToldFrame DEF StacksOK, TaskStacksKept, Tasks, Pooled

LEMMA StacksStep ==
  ASSUME IInv, StacksOK, Next
  PROVE  StacksOK'
<1>1. ASSUME NEW p \in Procs,
             FinishPush(p) \/ Dispatch(p) \/ Await(p) \/ StopTask(p)
      PROVE  StacksOK'
  <2>1. UNCHANGED <<status, stack, stackVars>>
    BY <1>1 DEF FinishPush, Dispatch, Await, StopTask, lockedVars, ownVars
  <2>2. QED
    BY <2>1, StacksFrame
<1>2. ASSUME NEW p \in Procs, NEW t \in Tasks, Spawn(p, t) \/ Send(p, t) \/ Resume(p, t)
      PROVE  StacksOK'
  <2>1. ResumeTask(p, t) /\ UNCHANGED <<stack, stackVars>>
    BY <1>2 DEF Spawn, Send, Resume, ownVars
  <2>2. QED
    BY <2>1, ResumeStacks
<1>3. ASSUME NEW w \in Workers,
             \/ OwnedLoop(w) \/ Dequeue(w) \/ Steal(w) \/ FindNothing(w) \/ Spin(w)
             \/ Yield(w) \/ PinTask(w) \/ UnpinTask(w) \/ ReturnFiber(w)
             \/ ReturnActor(w) \/ RequestStop(w)
      PROVE  StacksOK'
  <2>1. UNCHANGED <<status, stack, stackVars>>
    BY <1>3 DEF OwnedLoop, Dequeue, Steal, FindNothing, Spin, Yield, PinTask,
       UnpinTask, ReturnFiber, ReturnActor, RequestStop, lockedVars, ownVars
  <2>2. QED
    BY <2>1, StacksFrame
<1>4. ASSUME NEW w \in Workers, UnownedLoop(w) PROVE StacksOK'
  <2>1. FinishSuspending(w) /\ UNCHANGED <<stack, stackVars>>
    BY <1>4 DEF UnownedLoop, ownVars
  <2>2. QED
    BY <2>1, SuspendingStatus, StacksFrame
<1>5. ASSUME NEW w \in Workers, Enter(w) PROVE StacksOK'
  <2>1. /\ status' = [status EXCEPT ![currentTask[w]] = "Running"]
        /\ UNCHANGED <<stack, stackVars>>
    BY <1>5 DEF Enter, ownVars
  <2>2. status[currentTask[w]] = "Suspended"
    BY <1>5 DEF IInv, PlacesOK, WorkerPlaces, Enter, At
  <2>3. \A u \in Pooled : status'[u] \in {"Running", "Suspended"} <=>
                            status[u] \in {"Running", "Suspended"}
    BY <2>1, <2>2 DEF IInv, TypeOK, Pooled, Tasks
  <2>4. QED
    BY <2>1, <2>3, StacksFrame
<1>6. ASSUME NEW w \in Workers, SwitchToTask(w) PROVE StacksOK'
  <2>1. stackVars' = stackVars
    BY <1>6 DEF SwitchToTask
  <2>2. QED
    BY <1>6, <2>1, SwitchStacks, StacksKept DEF StacksOK
<1>7. ASSUME NEW w \in Workers, SwitchToUnowned(w) PROVE StacksOK'
  <2>1. /\ ~unowned[w] /\ StashGet(w) /\ unowned' = [unowned EXCEPT ![w] = TRUE]
    BY <1>7 DEF SwitchToUnowned
  <2>2. QED
    BY <1>7, <2>1, SwitchStacks, TakesCounted DEF StacksOK, IInv
<1>8. ASSUME NEW w \in Workers, Land(w) \/ StopWorker(w) PROVE StacksOK'
  <2>1. /\ \/ unowned[w] /\ StashPut(w)
           \/ ~unowned[w] /\ UNCHANGED <<stash, live>>
        /\ unowned' = [unowned EXCEPT ![w] = FALSE]
    BY <1>8 DEF Land, StopWorker
  <2>2. TaskStacksKept /\ StacksTold'
    <3>1. CASE Land(w)
      <4>1. FinishSuspending(w) /\ stack' = stack
        BY <3>1 DEF Land, ownVars
      <4>2. StacksTold'
        BY <4>1, SuspendingStatus, ToldFrame DEF StacksOK
      <4>3. QED
        BY <4>1, <4>2 DEF TaskStacksKept
    <3>2. QED
      BY <1>8, <3>1, SwitchStacks
  <2>3. QED
    BY <2>1, <2>2, LeavesCounted DEF StacksOK, IInv
<1>9. ASSUME NEW th \in Threads, ThreadLoop(th) \/ ThreadCode(th) PROVE StacksOK'
  <2>1. UNCHANGED <<stack, stackVars>>
    BY <1>9 DEF ThreadLoop, SuspendThread, WakeThread, ProcessMail, EndThread, ThreadCode,
       ReturnThread, MailProcessed, ThrowThread, KillThread, ownVars
  <2>2. \A u \in Pooled : status'[u] = status[u]
    BY <1>9 DEF ThreadLoop, SuspendThread, WakeThread, ProcessMail, EndThread, ThreadCode,
       ReturnThread, MailProcessed, ThrowThread, KillThread, lockedVars, IInv, TypeOK,
       Pooled, Tasks
  <2>3. QED
    BY <2>1, <2>2, StacksFrame
<1>10. ASSUME NEW p \in Procs, NEW th \in OSThreads, SpawnThread(p, th) PROVE StacksOK'
  BY <1>10, StacksFrame DEF SpawnThread, lockedVars
<1>11. QED
  BY <1>1, <1>2, <1>3, <1>4, <1>5, <1>6, <1>7, <1>8, <1>9, <1>10, StartStacks,
     RetireStacks DEF Next, WorkerLoop, TaskCode

(* No stack is lost or used twice: what the schedulers allocated and have  *)
(* not freed is, stack by stack, the unowned stack of a worker, the stack  *)
(* of a task, or in a stash, however tasks are switched and stolen.        *)
THEOREM NoStackIsLost == Spec => []StacksConserved
<1>1. Init => StacksOK
  <2> SUFFICES ASSUME Init PROVE StacksOK
    OBVIOUS
  <2>1. StacksTold
    BY DEF Init, StacksTold, Fiberized, Pooled, Tasks
  <2>2. TaskStacks = {} /\ UnownedStacks = Workers /\ StashedStacks = {}
    BY DEF Init, TaskStacks, UnownedStacks, StashedStacks, Tasks
  <2>3. live = Cardinality(Workers) /\ Cardinality(Workers) \in Nat
    BY FS_CardinalityType DEF Init
  <2>4. QED
    BY <2>1, <2>2, <2>3, FS_EmptySet DEF StacksOK, StacksCounted, StacksConserved
<1>2. IInv /\ StacksOK /\ [Next]_vars => StacksOK'
  <2>1. ASSUME StacksOK, UNCHANGED vars PROVE StacksOK'
    <3>1. UNCHANGED <<status, stack, stackVars>>
      BY <2>1 DEF vars, lockedVars, ownVars
    <3>2. QED
      BY <2>1, <3>1, StacksFrame
  <2>2. QED
    BY <2>1, StacksStep
<1>3. StacksOK => StacksConserved
  BY DEF StacksOK, StacksCounted
<1>4. QED
  BY <1>1, <1>2, <1>3, Invariance, PTL DEF Spec
=============================================================================
