# A TLA+ verification project for fiberize

fiberize is a C++ library of fibers, actors and events: many tasks run on a few OS
threads, communicate by messages and wait without blocking those threads. This
directory holds models of its concurrency core, the TLC configurations that check them
on small instances, and theorems about them whose proofs the TLA+ proof system checks.
Paths below are relative to the repository; `src/fiberize/src/fiberize/` is shortened to
`S/` and `src/fiberize/include/fiberize/` to `I/`.

## 1. The system: parts, state, operations

| Part | Code | State | Operations |
|---|---|---|---|
| Task | `I/detail/task.hpp` | status, scheduled, resumes and resumesExpected, stopped, mailbox, handlers, pin, saved context, stack, reference count | written by everything below, mostly under its spinlock |
| Multitask scheduler | `S/detail/multitaskscheduler.cpp` | two queues of tasks under a mutex, current and suspending task, stash of stacks, streak, last task type, IO context | resume, suspend, yield, dequeue, steal, ownedLoop, unownedLoop, start, stop |
| Single task scheduler | `S/detail/singletaskscheduler.cpp` | one task, the flag `resumed` | resume, suspend, yield |
| Context | `S/context.cpp` | the current scheduler (thread local) and its task | process, processUntil, processForever, stop, resume, suspend, dispatch of events |
| Task kinds and runners | `I/detail/tasktraits.hpp`, `S/detail/runner.cpp`, `I/builder-inl.hpp` | none | what runs before and after the user's function; start as a microthread or on an OS thread |
| Mutex, condition, promise | `S/mutex.cpp`, `S/condition.cpp`, `I/promise.hpp` | queue of waiting tasks, tickets, released, locked; the promised value | lock, try_lock, unlock; await, signal, signalAll; complete, await |
| Mailbox and references | `S/mailbox.cpp`, `S/detail/localfiberref.cpp`, `I/detail/task.hpp` | events with owned payloads, reference count | enqueue, dequeue, clear; grab, drop, send, kill |
| Handlers | `S/context.cpp`, `I/event-inl.hpp`, `I/handler.hpp` | blocks of handlers by event | bind, release, dispatch, collect garbage |
| Awaiting IO | `I/io/detail/libuvwrapper.hpp`, `S/io/*.cpp` | environments shared by a task and a libuv callback | start, await, complete, give up |
| Paths and identifiers | `S/path.cpp`, `I/path.hpp` | a counter per generator | next identifier |
| System | `I/fibersystem.hpp`, `S/fibersystem.cpp` | the schedulers and the main task | fiberize, spawn, shut down |

How they interact. A running task calls the scheduler of its thread (`suspend`, `yield`),
and resumes other tasks: `send` puts an event into a mailbox and calls
`context::detail::resume`, as do `Mutex::unlock`, `Condition::signal` and IO callbacks.
`resume` locks the task's spinlock, counts the resume, and, unless the task runs or is
already scheduled, hands it to the scheduler it is pinned to, to that of the caller, or to
a random one. That scheduler marks it as scheduled, drops the spinlock and pushes the
task into a queue under the queue's mutex. Workers take tasks from the front of their own
queues and steal from the back of others'. A task gives up its worker by `suspend`: the
worker looks for the next task on the old task's stack (`ownedLoop`), jumps to another
stack, and only there, when the old context is saved, decides under the old task's
spinlock whether it is suspended or requeued (`finishSuspending`).

What is hard about it:

* nothing happens atomically: a task is marked as scheduled before it is in a queue, and
  is still marked as running long after it gave up its worker;
* a wake-up may arrive at any point between the last look into the mailbox and the end of
  the context switch; the counters `resumes` and `resumesExpected` must not lose it;
* tasks migrate: the worker that ends a suspension, the one that resumes the task and the
  one that runs it next can be three;
* stacks are pooled, handed over with tasks, and must not be entered while in use;
* handlers throw out of every wait, so that every primitive has a way to give up in the
  middle of a hand-over;
* the lifetime of a task is a reference count, and several places keep raw pointers;
* the queues are last-in first-out for their owner: fairness needs an argument.

PROJECT.json lists each such hazard with its line and the properties that cover it.

## 2. The modules

| Module | What it is |
|---|---|
| `Parking` | The contract of suspending and resuming, as its users (mutex, condition, promise, IO, processUntil) see it: a permit per task. |
| `Scheduling` | Both schedulers and the part of `context.cpp` that suspends and resumes: the detailed specification, its properties and the refinement of `Parking`. |
| `SchedulingInvariant` | The inductive invariant of `Scheduling`. |
| `SchedulingPlaces`, `SchedulingProofs` | The proofs about `Scheduling`. |
| `MCScheduling` | Its instances for TLC. |
| `FairLock` | What a mutex promises: one owner, and those that wait get it in the order they came (a set of waiters, and for each those ahead of it). |
| `FiberMutex` | `Mutex`, over an instance of `Parking`; it implements `FairLock`. |
| `FiberMutexProofs` | The proofs about `FiberMutex`. |
| `MCFiberMutex` | Its instance for TLC. |
| `Signals` | What a condition promises: a signal releases one waiter, the first, and goes on to the next if that one leaves by an exception. |
| `FiberCondition` | `Condition`, over `Parking`; it implements `Signals`. |
| `FiberConditionProofs` | The proofs about `FiberCondition`. |
| `MCFiberCondition` | Its instance for TLC. |
| `Result` | The union of a value and an exception that a future leaves. |
| `Promise` | `Promise`, which extends `FiberCondition` by the optional result and the calls of its users. |
| `PromiseProofs` | The proofs about `Promise`, on top of those about `FiberCondition`. |
| `Dispatch` | One task: its mailbox, its handlers, and dispatches nested in one another; `MCDispatch` is its instance. |
| `DispatchProofs` | The proofs about `Dispatch`. |
| `TaskLife` | Builders, references, the end of tasks and the deletion of their memory; `MCTaskLife` has its instances. |
| `TaskLifeProofs` | The proofs about `TaskLife`. |
| `AwaitIO` | The environments that a task shares with libuv. |
| `AwaitIOProofs` | The proofs about `AwaitIO`. |

How they compose. `Scheduling` implements `Parking`; `FiberMutex`, `FiberCondition` and `AwaitIO`
use an instance of `Parking` for every suspension and every resume; `Promise` is built on
`FiberCondition` and stores a `Result`. `Dispatch` and `TaskLife` take one step each away from
scheduling: the first has one task's stack and no others, the second has many tasks whose waiting
is one step. `Dispatch` and `Scheduling` share the mailbox, as a list of paths in the one and a
number in the other.

### Scheduling and the code

An action is what one OS thread does between two points where another can interfere: one
critical section of a task's spinlock or a queue's mutex, with the thread-private code
around it. `pc` is the position of each OS thread.

| Model | Code |
|---|---|
| `status`, `scheduled`, `stopped`, `pin` | the fields of `Task` of these names |
| `woken[t]` | `resumes != resumesExpected`. Both are 64-bit and only ever compared; `resume` increments the first, `process` sets the second to it, `yield` sets it to a value `resumes` does not reach. `Task` does not initialise `resumesExpected`, but no path reads it before `process` or `yield` wrote it. |
| `mail[t]` | how many events the mailbox holds; which handlers they run is another module's matter |
| `stack[t]`, `frame[t]` | whether the task has a stack, whether its context is saved there, and whether the stack's bottom is `run()` or the listening loop |
| `queue[w][c]` | `softQueue` (new and listening tasks) and `hardQueue` (suspended ones) of a worker |
| `pushes` | resumes that have dropped the task's spinlock and not yet pushed the task |
| `currentTask`, `suspendingTask`, `stash`, `sameStreak` | the scheduler's fields; `scan` is the position in `dequeue` and `steal` with the class looked at first |
| `unowned[w]` | the worker is on a stack that belongs to no task |
| `live` | history: stacks allocated and not freed |
| `resumed`, `pc = "blocked"` | the single task scheduler's flag and its polling loop |
| `Threads`, `OSThreads`, `Fiberized` | the tasks that have a single task scheduler: those started by `runTaskAsOSThread`, which stay `Starting`, and the others, which `fiberize` creates `Running` |
| `Spawn`, `Send`, `Resume`, `FinishPush` | `context::detail::resume` and both `resume`s, called by `Builder::run`, by `send`, or by any other wake-up |
| `Dispatch`, `Await`, `Yield`, `StopTask`, `PinTask`, `UnpinTask` | `process`, its end on the way to `suspend`, `yield`, `stop`, `ScopedPin` |
| `ReturnFiber`, `ReturnActor`, `FinishMain`, `FinishListening` | the ends of `run()` and of a listening actor, and the rest of `unownedLoop`'s pass |
| `OwnedLoop`, `Dequeue`, `Steal`, `FindNothing`, `SwitchToUnowned`, `SwitchToTask`, `Land`, `Enter` | `suspend` and `ownedLoop`, one action per place where another thread can look |
| `UnownedLoop`, `Spin`, `StartTask` | `unownedLoop` |
| `RequestStop`, `StopWorker` | `stop`, and the two ways out of the loops |
| `SuspendThread`, `WakeThread` | `SingleTaskScheduler::suspend` |
| `SpawnThread`, `ReturnThread`, `ProcessMail`, `MailProcessed`, `EndThread`, `ThrowThread` | the thread of `runTaskAsOSThread` (`S/detail/runner.cpp`): pinned and running, back from `run()`, polling for events, processing them, and killed when it stopped or when an exception left the loop |

Choices worth knowing. `Dequeue` looks at the queue whose class `dequeue` would look at,
so that the order of the classes, the two passes and the number of stealing attempts are
the code's. A thief draws its victim anew for every attempt and asks it for both classes;
the generator is any choice. An IO callback resumes tasks out of `uv_run`, which a worker
calls at the head of each loop and a blocked thread while it polls, so `Resume` and
`Send` are enabled there. A task is never pinned when it is built: `Builder::pinned`
assigns to a member declared const and does not compile when it is used. The task of an OS
thread that is resumed, or suspends, while it is `Starting` goes on as in a build without
asserts (section 3 has the others). The function of a
task ends with no `ScopedPin` alive (its scope is the function's). Shutting the system
down while tasks wait leaves them where they are, as in the code.

### The refinement

`Parking` knows tasks that are new, awake, asleep or dead, a permit, a mailbox and the wish
to stop. `Scheduling` implements it with `phase` computed from `status` (a thread sleeps
while its pc says `blocked`, and its pc also says whether it is up or over) and `permit` as `woken`. So users of the schedulers may be
modelled over `Parking`: the queues, stealing, stacks and threads are invisible to them, which TLC
checks on the small instance and `SchedulingImplementsParking` proves for every one.

### FiberMutex and the code

An action is one critical section of the mutex's spinlock, one look at `released`, or one step
of `Parking`. `locked`, `released`, `nextTicket` and `queue` are the fields of `Mutex`; `ticket`
and `wakee` are the locals of `lock` and `unlock`; `pc` is the place a task is at in them.

| Model | Code (`S/mutex.cpp`) |
|---|---|
| `LockFree` | `lock` without contention, 18-25, and `try_lock`, 74-82; a `try_lock` that fails changes nothing |
| `Contend` | the way into the queue, 27-34 |
| `Test` | the two looks at `released`, 38 and 49, which are made without the spinlock |
| `Process`, `Stop`, `Drain` | `context::process`, 39: an event's handler returns, throws or calls `stop`; the mailbox is empty and the permit goes back |
| `Suspend`, `Resumed` | `suspend`, 53 |
| `GiveUp` | the catch block, 55-72: clear the slot in the queue, or pass the mutex on |
| `Unlock`, `HandOver` | `unlock` up to the spinlock's release, 84-99 and 106 |
| `ResumeWakee` | the resume behind it, 100, when the waiter may be anywhere |
| `Disturb` | sends to, and resumes of, tasks by others |

`HandOver` adds the number of entries it pops to `released` at once. The code adds one at a time
and is read in between only by waiters whose ticket is not reached, since the entries before the
last belong to tasks that have left. The instance of `Parking` is the contract the
schedulers were shown to implement, so `FiberMutex` does not mention workers.

### FiberCondition, Promise and the code

The condition is written as the mutex is. Its lock is that of the promise, a spinlock, and a call
holds it except where it gives it away.

| Model | Code (`S/condition.cpp`, `I/promise.hpp`) |
|---|---|
| `Await` | the way into the queue |
| `Test`, `Process`, `Stop`, `Drain`, `Suspend`, `Resumed` | the loop of `await`, step by step as in the mutex |
| `Return` | the loop's end, with the lock held again |
| `GiveUp` | the catch block: clear the slot, or signal the next waiter |
| `SignalOne` | the loop over the queue that skips cleared entries, shared by `signal` and `signalAll` |
| `Signal`, `SignalAll`, `SignalNext`, `ResumeWakee` | the two calls; `signalAll` unlocks, resumes and locks again for each waiter, so its loop is a step per waiter with all others in between (`pc = "looping"`) |
| `Complete`, `AwaitResult`, `GetResult` | `complete` (the check, the assignment and the first round of `signalAll`), `await` on a full and on an empty promise, and its end |
| `Copy`, `ResultOf`, `Returns`, `Throws` | `Result`'s copy constructor, `result(closure)` and what `get` does |

`Promise` uses no `signal`: `complete` is the only one to wake anybody, apart from a waiter that
passes its signal on. `outcome` is history, and so is `got`.

### Dispatch and the code

The stack of one task is a sequence of frames: code (the main function or a handler), the loops of
`process` and `processUntil`, and dispatches in progress. A dispatch is the iteration of
`dispatchEvent` over a block of handlers, so its frame has the index it is at; a handler's frame on
top of it can run loops of its own, and thus the dispatches nest.

| Model | Code |
|---|---|
| `sent`, `taken`, `freed` | the mailbox as a list with a read position, and a count of how often each payload was freed (`S/mailbox.cpp`) |
| `handlers`, `block` | the handlers with their reference counts, and the vector of each path (`I/handler.hpp`) |
| `Bind`, `CopyRef`, `DropRef` | `context::detail::bind` and `HandlerRef` |
| `Await`, `AwaitTakes`, `AwaitReturns`, `Fulfil` | `Event::await` (`I/event-inl.hpp`) with `processUntil` |
| `Process`, `LoopTakes`, `LoopEnds`, `Stop` | `process` and `stop` (`S/context.cpp`) |
| `Dequeue` | one event taken: `initializeHandlers`, `collectGarbage`, and the way into the iteration |
| `Execute`, `DispatchEnds`, `DispatchThrows`, `HandlerThrows`, `Catch` | the iteration from the last handler to the first, its end, and exceptions on their way down |
| `wild` | the iteration would read a vector that was moved or shrunk below it |

A program that binds or releases handlers of a path inside handlers of this very path, or awaits a
path whose own handlers wait, makes the iteration `wild`, calls a released closure or runs a handler twice
(TLC reaches all three if `MCDispatch` allows such uses). Nothing in the library says so; the
constants `Binds` and `Awaits` are the uses a program makes, and `Discipline` says what they must not be.
`MCDispatch` has a program that keeps to it (`ProgramAssumption`); `LatestFirst` and `AwaitTakesNext` are checked for
that one and proved for all that do. `Collect` gives a handler the place it has among the living
(`Living`, `Place`), which is where the code's two pointers put it.

### TaskLife and the code

| Model | Code |
|---|---|
| `target`, `hold`, `kept`, `mail` | the `LocalFiberRef` objects, and where copies of the `FiberRef`s lie that share them: on stacks, in closures, in payloads |
| `refCount`, `NewRef`, `Drop`, `Forget` | `Task::grab` and `drop`, `I/detail/localfiberref.hpp` |
| `Create`, `Launch` | `Builder::run` and `run_`: a reference first, then the runner |
| `Resume`, `Enqueue`, `Start` | `context::detail::resume` as far as it decides who runs a new or listening task; a worker |
| `StartThread`, `ResumeThread`, `SuspendThread`, `ThreadEnds` | `runTaskAsOSThread` and its scheduler, whose asserts find the task `Starting`: the program is over, or goes on where there are no asserts |
| `Send`, `Receive`, `Await`, `Awaited` | references and futures in use |
| `Complete`, `completed`, `result` | `Promise::complete` by a future, which may fail to store the result; the future does not look |
| `Terminate`, `ForgetKept`, `ClearBegins`, `ClearMail`, `ClearEnds`, `Close` | `Scheduler::kill`, whose clean-up runs outside the lock |
| `cleared`, `clearEnd` | how far `clear` has come, and the end of the deque it found when it began |
| `DestroyMail`, `Delete` | the destructors of a task and of its mailbox |

Facts of the code that the model has and no property is about: `clear` frees the payloads and leaves the
events (`S/mailbox.cpp:30`), so the destructor frees them again, which is `aborted`; it iterates under no lock,
so an event sent meanwhile invalidates its iterators (line 31), and `Send` then either aborts or
leaves the event to the destructor; a dead task whose
mailbox or closures hold a reference to itself that came too late is never deleted; the thread of
a task unpins it after `kill` may have deleted it (`ThreadEnds`); and a mailbox accepts events
after its clean-up. The properties of `life` speak of the behaviours before an abort, and of those in which
undefined behaviour did no harm.

### AwaitIO and the code

| Model | Code (`I/io/detail/libuvwrapper.hpp`, `S/io/sleep.cpp`) |
|---|---|
| `env[e]` | an environment: its task, the loop it is in, its plain counter, its condition |
| `uv[e]` | whether libuv has a callback to make for it, and for timers whether it is the one of `uv_close` |
| `frames[t]` | the calls in Await mode on a task's stack, with their `ScopedPin`s |
| `taskRefs`, `gone` | the environments' part of the reference count of the task |
| `StartAwait`, `StartAsync`, `StartFails` | the wrapper's three ways through, `Finish` and `Throw` the two ends of the first |
| `Dispatch`, `HandlerReturns`, `Suspend`, `Resumed` | `processUntil`, and user code that waits, over `Parking` |
| `Callback`, `CloseCallback` | the callbacks of a request and of a timer |

libuv is what the code relies on: one callback for every operation it accepted, made by the thread that
polls the loop, and not while that thread runs a task.

## 3. The runs

| Run | Instance | Shows |
|---|---|---|
| `sched_steal` | 2 workers, 1 thread, 1 fiber, 1 actor; 1 send, resume or yield, mailbox 1 | `IInv`, the safety properties one by one, and the refinement of `Parking`; 667 508 states |
| `sched_stop` | 1 worker that may be stopped at any time, a fiberized thread, a task on an OS thread, a fiber, an actor; 1 activity | types and the limit of the stash, every stack in exactly one place, the asserts (those of OS threads from their first suspension or resume on), and the refinement of `Parking` with OS threads; 457 124 states |
| `sched_live` | 2 workers, thread, actor, under fairness | events are delivered, and `Parking`'s fairness: who holds a permit wakes; 74 803 states |
| `sched_yield` | 1 worker, 2 fibers that yield for ever and a third to start | the streak limit keeps one class of tasks from starving the other; 30 718 states |
| `sched_starve` | 1 worker, 3 fibers that yield for ever | a violation, see below |
| `mutex` | 3 tasks, 4 tickets, 1 disturbance, under fairness; one task may be stopped by a handler | mutual exclusion, tickets against queue, no sleeping owner, refinement of `FairLock`; whoever waits is served or throws; 292 756 states |
| `cond` | 3 tasks, 4 tickets, 2 disturbances, all may be stopped | tickets against queue, no signalled sleeper, refinement of `Signals`; 1 754 153 states up to symmetry |
| `promise` | 3 tasks, 3 tickets, 1 disturbance, a value and an exception, under fairness | nobody reads an empty result, all read the first one with its tag, whoever waits for a complete promise leaves, `complete` returns; 120 890 states |
| `io` | 2 tasks, 2 workers, 2 operations, nested 2 deep, 2 events, under fairness | who lives how long, waiting tasks stay on their loops, every operation ends; 428 591 states |
| `dispatch` | 3 events on 3 paths, 4 handlers, 2 references to each | payloads freed once, handlers latest first and once each, an await takes the next event, a kill throws; 1 686 444 states |
| `life` | the main thread, an actor, a future on its own thread, 2 references, mailbox 1 | reachable tasks stay, dead ones go; 1 401 035 states up to symmetry |
| `life_osthread` | the same, with references used before the thread is up | a violation, see below |

The bounds. Two workers are what stealing, migration and every race over one task need: a
third one adds no new kind of step, and the proofs cover it. One activity (`MaxCredit`) beyond
the spawns and self-made pauses is enough for a wake-up to fall into every window, because
`Spawn`, `Await`, `StopTask` and the pins are not charged.
`StashSize` and `SameStreakLimit` are 1 or 2 so that the limits are reached (256 and 64 in
the code), `DequeueRounds` and `StealTries` 1 (2 and 2), the latter 0 where one worker has nobody to steal from. Workers and tasks of a kind are
symmetric in the safety runs; no symmetry is used where a liveness property is checked.
For mutex and condition three tasks give one that unlocks or signals and two in the queue, the least at
which an entry in the middle can be cleared and skipped; four tickets let a
task come back behind the others while its old resume is still on the way (the promise needs no more
than one ticket a task, since nobody waits once it is complete).
An event is what a handler needs to throw, and a foreign resume what a spurious wake-up
needs; `cond` allows both in one wait, `mutex` and `promise` one of them.
In `io` a nested operation needs two environments and a depth of two, one event to get into the
handler that starts it and one to throw out of it. In `dispatch` four handlers are the one for kill, the one of
an await and two on a block, and three events let one be taken inside the dispatch of another while a third comes.
In `life` two references to one task, or one to each, are enough for the last drop to meet
the death of either, in a stack, a closure or a payload.

Deadlock is checked in `sched_*` except `sched_stop` (a stopped system rests) and in `mutex`, where a task
that waits always has somebody to hand it the mutex. The others may rest: tasks that await a condition nobody
signals, events all taken, tasks all dead, an aborted program.

Fairness. Every OS thread keeps running, so a worker's loop, a thread's loop and a
pending push are weakly fair: the loops poll and never block. A running task is assumed to
go on: it dispatches its events or waits (`WF` of `Dispatch \/ Await`); nothing else that
tasks do is fair. In `FiberMutex` and `Promise` a task goes on while it is awake, wakes if it holds a permit
(the promise of `Parking`, which `sched_live` checks) and unlocks what it has locked; nobody is
obliged to lock, to complete, to throw or to send. In `AwaitIO` workers run what is resumed and poll their loops when
they have nothing to run, and handlers return; user code ends its turn by waiting, without which a worker
would not poll. `YieldFairness` describes tasks that do nothing but yield.

### What the checks found

`YieldersRunAgain` states the comment on `Scheduler::yield` (`I/scheduler.hpp:48`): yield to
others, "but eventually reschedule this task". The code does not do that on a system with
one scheduler: a task that yields is pushed to the front of the queue its owner takes from
(`S/detail/multitaskscheduler.cpp:65` and `:108`), so of three tasks that yield for ever two
alternate and the third waits for ever. With more schedulers only a thief can help it, and
only if it is not pinned.

`RunsOnItsThread` states the comment on `Builder::osthread` (`I/builder.hpp:189-190`): it "configures
the task to execute as an OS thread" and overrides the pinning. The reference that `run` returns may be used at
once, but the task is pinned to its thread's scheduler only by that thread
(`S/detail/runner.cpp:27-29`, `S/detail/singletaskscheduler.cpp:18`). An event sent before finds an unpinned task that is
`Starting`, so `resume` gives it to a worker (`S/context.cpp:212-238`), and the task's function runs there
as well as on its thread.

Met while modelling, each by reading rather than by a run of its own:

* The task of an OS thread runs without ever being marked as `Running`: `runTaskAsOSThread` (`S/detail/runner.cpp:27-33`)
  does not do what `I/detail/task.hpp:45-46` says of a scheduler, so its status is still `Starting` (`I/detail/task.hpp:97`), which `resume`
  lets through (`S/context.cpp:212`). The first event it gets while it runs, or its first suspension, fails an assert of its
  scheduler (`S/detail/singletaskscheduler.cpp:28` and `:39`), unless the build defines `NDEBUG`, as a Release build
  does. Without asserts that step sets the status, and from then on the asserts hold as for fiberized threads; `AssertionsHold` says
  that much and no more.
* Futures "eventually return some value" (`README.md:8`), but `Promise::complete` returns false when storing the result throws
  (`I/promise.hpp:79-84`), and `FutureTraits` ignores that (`I/detail/tasktraits.hpp:141`). The future then dies with an empty
  promise that nobody completes any more, and those that await it wait for ever. `Complete` of `TaskLife` has both outcomes.
* `Condition::await` leaves with the lock released when a handler throws (`S/condition.cpp:60`); the header
  promises it locked (`I/condition.hpp:32-33`). Its only caller, `Promise::await`, does not mind.
* An actor that handles its last events may let an exception out of `run()` (`I/detail/tasktraits.hpp:90`), although
  the runner says "This doesn't throw" (`S/detail/runner.cpp:32`).
* An actor that is killed while its function runs swallows the exception, and then goes on listening.
* The mailbox's second clean-up, described under TaskLife.

## 4. The proofs

`SchedulingProofs` proves about `Scheduling`, for any finite set of workers, any disjoint sets of threads,
fibers and actors, for OS threads among the threads, and any positive limits (the assumptions `DisjointAssumption` and
`BoundsAssumption`, which TLC evaluates too):

* `Invariance`: `Spec => []IInv`, and from it
* `TypeCorrect`, `AssertsNeverFail`, `NeverScheduledTwice`, `NeverForgotten`,
  `NeverLosesWakeups`, `PinsHold` and `StacksSavedFirst`, each a property that a run checks
  (`AssertsNeverFail` is about the workers and the fiberized threads, and about OS threads
  that have left `Starting`);
* `NeverRunsUnwoken` and `SchedulingImplementsParking`, the refinement of `Parking`;
* `NoStackIsLost`, that no stack is lost or used twice.

None of the properties is inductive. That no task is scheduled twice, for example, rests on
`resume` testing `status` and `scheduled`; so the invariant must say what these two fields
mean at every place a task can be: `Waiting` in a queue, under a push or freshly picked,
`Executed` in the hands of a worker that runs or suspends it (`PlacesOK`), and, the other way
round, that nothing else holds a task whose fields allow a resume (`Nowhere` in
`SchedulingPlaces`). `ControlOK` says what each program point knows of the registers,
`WakeupsOK` that a task on its way to sleep has a wake-up or nothing to do, and `SavedOK`
where contexts are saved.

The argument has one lemma per part of the invariant and in it one step per action:
`TypeStep`, `ControlStep` and `PlacementStep` (SchedulingPlaces), `WakeupStep`,
`HomeStep` and `SavedStep` (SchedulingProofs). In `SchedulingPlaces` the steps share a few
lemmas about what moves: `PushStep` (a task that was nowhere gets scheduled), `FinishPushStep`
(a push becomes a place in a queue), `TakeStep` (one end of a queue goes to a worker) and
`OneTaskStep` (one task changes its state in the hands of at most one worker).

The refinement needs one fact more, `WokenFirst`: a task that is marked as scheduled holds the permit it will wake
with, and so does a thread whose flag `resumed` is set. Without it `Enter`, the step at which a task
runs again, need not be `Parking`'s step of waking up. It is inductive together with `IInv` because a permit is given back by
a running task only, and that one is not scheduled. Each action then maps to one step of `Parking`
(`SuspendingMapped`, `EnterMapped`, `FinishMainMapped`, `SendMapped`, ...) or to none (`Unseen`).

`NoStackIsLost` counts. `StacksTold` says that a task has a stack exactly while it runs or is suspended; with it and `IInv` the
worker that starts a task knows that it had none, and the one that saves a context that it had one. The three
counts of `StacksConserved` then change by one at a time: a stash and a worker (`TakesCounted`, `LeavesCounted`), or a worker and
a task (`GivesCounted`). Only the sets of workers are assumed finite; that the others are belongs to the invariant.

`FiberMutexProofs` proves about `FiberMutex`, for any finite set of tasks and any bounds
(`MutexAssumption`): `MutexInvariance` (`Spec => []IInv`) and from it `MutexTypeCorrect`,
`MutualExclusion`, `TicketsFindTheirSlots` and `OwnersWake`. Here `IInv` is the conjunction of
the four properties themselves: none of them is inductive alone, but together they are. Who
owns the mutex after `unlock` follows from the tickets, which waiter that is from the queue, and
that the two agree survives a waiter that leaves only because the slot it clears is its own.
One lemma per action (`LeaveStep`, `HandToStep`, `SetFreeStep`, `ContendStep`, ...) shows this;
the actions that only move a call along share `CallStep`, and `AwakeStep` says when nobody can
have fallen asleep with the mutex.

`MutexImplementsFairLock` is the refinement, from the same invariant: waiting are the tasks that are in `lock` and whose ticket
was not reached, and ahead of one are those with smaller tickets. Whom `unlock` pops is therefore the
one with nobody ahead, the slots it skips belong to nobody, and a waiter that gives up either leaves the line or hands
on what it had been given. `FairLock` keeps no sequence, so nothing recursive is in the way of the proof.

`FiberConditionProofs` proves `ConditionInvariance`, and from it `ConditionTypeCorrect`, `WaitersFindTheirSlots`
and `WinnersWake`, from `ConditionAssumption` alone. What is new against the mutex is `WokenWasSignalled`: a task that takes the
lock to return has seen its ticket come up. Without it a task that still waits could return, and the
queue would be left with an entry no ticket leads to. One lemma, `PopStep`, serves all that pop: `signal`,
each round of `signalAll` and the waiter that passes its signal on. `ConditionImplementsSignals` is the refinement of `Signals`,
along the same lines as that of `FairLock`: every pop is a `Signal` to the one with nobody ahead, or meets nobody and is none.

`PromiseProofs` proves `PromiseInvariance`, and from it `AwaitFindsAResult` and `AllGetTheFirstResult` (an action
property), for any values and exceptions. `ConditionSteps` shows that every step of a promise is one of its
condition or none, so the condition's invariant holds without a new proof; the rest of the argument is
`QuietWhileEmpty`: as long as the promise is empty, no ticket has come up and nobody is about to signal,
since only `complete` starts signalling and it stores the result first. With `TicketsDrawn` (a waiter's ticket is at least 1)
it follows that a waiter whose ticket came up finds a result; `StoredIsOutcome` says which.

`AwaitIOProofs` proves `IOInvariance`, and from it `IOTypeCorrect`, `EnvironmentsLive` and `WaitersStayHome`, for any tasks and
workers, any finite set of operations and any depth. `Counted` says that an environment's counter is one for libuv and one
for the stack, `AwaitedOnce` that no two frames wait for the same one, so that a frame that leaves takes away
exactly that one, and `TasksCounted` that the task's counter is the number of its live environments; the steps there go through
the cardinality lemmas of `FiniteSetTheorems`. `PinnedOnce` is what `WaitersStayHome` needs: only the
outermost `ScopedPin` pinned, so only it unpins. `PushFrame`, `PopFrame`, `BeginStep` and `OwnerDropped` are the lemmas the actions share.

`DispatchProofs` proves `DispatchInvariance` and `NoPayloadLostOrFreedTwice` for any paths and for any program, one outside of the
discipline included. The loop that took an event frees its payload, and an exception takes the frame of the dispatch and that of
its loop at once; so the invariant says that a dispatch lies on its loop (`OnItsLoop`), that no event is in two dispatches
(`Distinct`), that the main function stays at the bottom (`Bottom`), and what a count is (`OneOwner`). `StackStep` is the lemma
about stacks from which all actions follow: what is below k moves on, and above it at most the event just taken comes in.

Also for any program: `TypesAreRight` and `KillsAreNeverShruggedOff`, from `FitInvariance`. Its invariant `FInv` adds that handlers and
the blocks that list them agree (`Roster`), that every frame fits the handlers and events it speaks of (`FramesFit`), and that
an unfinished dispatch of a kill still has the kill handler, the oldest of its block and never released,
before it (`KillWaits`). `CollectSifts` is the lemma on `collectGarbage`: what it returns is the subsequence of the living.

`LatestHandlersComeFirst` and `AwaitsTakeTheNext` assume `Discipline`, a condition on the constants `Binds` and `Awaits`, without which
`LatestFirst` fails (section 2). Under it dispatches nest in one way only: below the top two frames there are only dispatches to handlers
that wait, on whose paths nobody binds, releases or waits (`Nested`, `AwaitsAreQuick`). So nothing that happens above such a dispatch
moves the rest of the block it walks (`AllIntact`: a prefix of the block as it was found), and none of the iterations goes astray (`NoHarm`).
That is `LInv`. For awaits `AInv` adds that each waiting frame has a handler of its own (`OwnHandlers`), that what is dispatched above it was taken
after it began (`Later`), and how far it has got (`Awaiting`): either no event of the path came through, or one is being dispatched and
will come to this handler, or the handler has its event.

`TaskLifeProofs` proves about `TaskLife`, for any finite sets of tasks and references and any bound on mailboxes
(`TasksAssumption`; the sets are finite because references are counted), `LifeInvariance` and from it `TypesAreRight`,
`ReachableTasksStay`, `NoReferenceDangles` and `NobodyLeftBehind`. All assume `~EarlyUse`: a task on an OS thread
whose reference is used before its thread is up may be run twice, and then ends twice; this is the finding `RunsOnItsThread`,
and the run `life` has the same hypothesis. The heart of the invariant is `CountOf`: a counter is the number of
references to its task, and one more while the task is being killed. It stays so because a reference exists exactly as long as a
copy of it lies on a stack, in a closure or in the unread part of a mailbox (`RefsLie`), so only the last copy that goes drops it, and the
one who forgets it knows whether it is the last. `AwaitsHeld` is why a future is not deleted under the task that awaits it,
`LifeOf` and `BuiltOnce` who may run a task, `MailOf` what the clean-up leaves behind. Each part has its own step lemma
(`CountStep`, `LieStep`, `LifeStep`, ...), and `ForgettingForgets` says once what all the ways to lose a copy have in common.

Every safety property that a run expects to hold, and every refinement of an abstract specification without fairness, is thus
also a theorem. Only model-checked is what the proof system cannot do here: liveness (`Delivered`, `SoftNotStarved`, `WaitersServed`, `EveryoneServed`,
`CompleteReturns`, `OperationsEnd`, and `ImplementsFairParking`, which is the refinement of `Parking` with its fairness), since it needs
`ENABLED`. That processes over `Parking` see the real schedulers rests on the theorem for safety and on `sched_live` for
liveness.

## 5. Limits

Spinlocks, the queue mutex and the context switch are taken to work. The memory model is
that of the locks; the one plain field read under a foreign lock is `pin`, read by thieves
for queued tasks only, and `PinnedStaysHome` shows that nobody writes it then. In `Scheduling` events are
counted, not told apart, and the reference count of a task, exceptions that escape `run()`
and the destruction of a system with sleeping tasks are outside of it.

In `FiberMutex` and `FiberCondition` a task makes one call at a time: a handler that runs while its
task waits and that locks or signals in turn is not modelled, except as another task's call. The tasks that `unlock` and `signal`
resume through raw pointers are taken to be alive. `Dispatch` has one task, and others only send to it.
In `TaskLife` a stack is a set of references, and code between two of them is one step.

Not modelled: IO in Block mode (nothing is shared, the task keeps its worker) and `uv_timer_*` calls that fail; a
swap of schedulers (it does nothing); the assignment of a `Result`, which no path of a promise uses; identifiers, paths, the
lazy deque, buffers and the spinlock (data without interleavings); logging; tests, benchmarks and examples. The
program's end on an exception out of `run()` has no state to speak of.

## 6. What is left

1. Calls of a mutex and a condition nested in the handlers of a task that waits in them.
2. `FiberMutex` and `FiberCondition` keep their tasks alive; a composition with `TaskLife` would show where
   the raw pointers of their queues may outlive a task.
3. `TaskLife` with `EarlyUse`: which of its properties survive a task that runs twice.
