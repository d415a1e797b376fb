------------------------------- MODULE AwaitIO -------------------------------
(***************************************************************************)
(* IO on top of libuv: the environments that link an operation to the task *)
(* that asked for it, in Await mode (the task waits and goes on handling   *)
(* events, which may start operations of their own or throw) and in Async  *)
(* mode (the result comes as an event); for requests, with one callback,   *)
(* and for timers, which are closed after theirs.  Block mode shares       *)
(* nothing and is left out.                                                *)
(*                                                                         *)
(* An operation lives in the loop of the worker that started it; a worker  *)
(* polls its loop between two tasks, never while one runs.  An action is   *)
(* what a task does up to the next call that can switch or be observed, or *)
(* one callback.                                                           *)
(***************************************************************************)
EXTENDS Naturals, Sequences, FiniteSets

CONSTANTS
  Tasks,     \* tasks that do IO
  Workers,   \* schedulers, with a libuv loop each
  NoWorker,  \* the null pin
  Envs,      \* environments that may be allocated, each once
  Unused,    \* an environment that was not allocated yet
  Freed,     \* one that was deleted
  Note,      \* an event from somebody else
  MaxDepth,  \* bound on nested Await operations of a task
  MaxNotes   \* bound on the events sent by others

ASSUME IOAssumption ==
  /\ Workers # {} /\ NoWorker \notin Workers
  /\ Note \notin Envs
  /\ IsFiniteSet(Envs)
  /\ MaxDepth \in Nat
  /\ MaxNotes \in Nat

VARIABLES
  (* tasks, as Parking sees them; inbox is the mailbox *)
  phase, permit, inbox,
  at,        \* the worker a task runs on, or ran on last
  pin,       \* the worker it is pinned to
  frames,    \* the Await calls on its stack, each with its ScopedPin
  busy,      \* the code that runs on top of them is not processUntil's loop
  taskRefs,  \* Task::refCount, as far as environments hold it
  gone,      \* the tasks that were deleted
  env,       \* the environments: Unused, Freed, or their fields
  uv,        \* what libuv has to do for them
  notes

taskVars == <<phase, permit, inbox, at, pin, frames, busy>>
lifeVars == <<env, taskRefs, gone>>
vars == <<taskVars, lifeVars, uv, notes>>

Modes == {"await", "async"}
Kinds == {"request", "timer"}

(* loop is the worker whose libuv loop has the operation.                  *)
Fields == [mode : Modes, kind : Kinds, owner : Tasks, loop : Workers,
           refs : 1 .. 2, condition : BOOLEAN]
Live(e) == env[e] \notin {Unused, Freed}

ASSUME EnvsAssumption == Unused # Freed /\ {Unused, Freed} \cap Fields = {}

Park == INSTANCE Parking
  WITH mail <- [t \in Tasks |-> Len(inbox[t])], quit <- [t \in Tasks |-> FALSE]

Top(t) == frames[t][Len(frames[t])]
Awaited(t) == {frames[t][i].env : i \in 1 .. Len(frames[t])}

(* A worker runs one task at a time, and polls only when it runs none.     *)
Idle(w) == \A t \in Tasks : phase[t] = "awake" => at[t] # w

Init ==
  /\ phase = [t \in Tasks |-> "asleep"]
  /\ permit = [t \in Tasks |-> TRUE]
  /\ inbox = [t \in Tasks |-> << >>]
  /\ at = [t \in Tasks |-> CHOOSE w \in Workers : TRUE]
  /\ pin = [t \in Tasks |-> NoWorker]
  /\ frames = [t \in Tasks |-> << >>]
  /\ busy = [t \in Tasks |-> TRUE]
  /\ taskRefs = [t \in Tasks |-> 0]
  /\ gone = {}
  /\ env = [e \in Envs |-> Unused]
  /\ uv = [e \in Envs |-> "idle"]
  /\ notes = 0

-----------------------------------------------------------------------------
(* Counting references.                                                    *)

\* Mutant: every drop drops the task, too.
DropTaskToo(e, E) ==
  /\ env' = [env EXCEPT ![e] = IF E.refs = 1 THEN Freed ELSE [E EXCEPT !.refs = 1]]
  /\ taskRefs' = [taskRefs EXCEPT ![E.owner] = @ - 1]
  /\ UNCHANGED gone

(* drop of environment e, whose fields are E by now; the last one deletes  *)
(* it, and it drops its task, which is deleted if it is dead and nobody    *)
(* else holds it.                                                          *)
Drop(e, E) ==
  LET t == E.owner
      last == E.refs = 1
  IN /\ env' = [env EXCEPT ![e] = IF last THEN Freed ELSE [E EXCEPT !.refs = @ - 1]]
     /\ taskRefs' = [taskRefs EXCEPT ![t] = IF last THEN @ - 1 ELSE @]
     /\ gone' = IF last /\ taskRefs[t] = 1 /\ phase[t] = "dead"
                  THEN gone \union {t} ELSE gone

-----------------------------------------------------------------------------
(* What a task does.                                                       *)

(* User code or an event handler has the CPU.                              *)
Runs(t) == phase[t] = "awake" /\ busy[t]
(* processUntil has it, in the innermost Await.                            *)
Loops(t) == phase[t] = "awake" /\ ~busy[t]

(* The code that reads the mailbox has it: processUntil, or process when   *)
(* the task awaits no operation.                                           *)
AtMailbox(t) ==
  \/ Loops(t) /\ ~env[Top(t).env].condition
  \/ Runs(t) /\ frames[t] = << >>

(* The environment is created, libuv takes the operation, and c references *)
(* are left when the task has done its part.                               *)
Begin(t, e, mode, c) ==
  /\ Runs(t)
  /\ env[e] = Unused
  /\ \E kind \in Kinds :
       env' = [env EXCEPT ![e] = [mode |-> mode, kind |-> kind, owner |-> t,
                 loop |-> at[t], refs |-> c, condition |-> FALSE]]
  /\ uv' = [uv EXCEPT ![e] = "pending"]
  /\ taskRefs' = [taskRefs EXCEPT ![t] = @ + 1]
  /\ UNCHANGED <<phase, permit, inbox, at, gone, notes>>

\* Mutant: no reference for the callback.
StartAwaitUngrabbed(t, e) ==
  /\ Len(frames[t]) < MaxDepth
  /\ Begin(t, e, "await", 1)
  /\ pin' = [pin EXCEPT ![t] = at[t]]
  /\ frames' = [frames EXCEPT ![t] =
                  Append(@, [env |-> e, wasPinned |-> pin[t] # NoWorker])]
  /\ busy' = [busy EXCEPT ![t] = FALSE]

(* Await: one reference on the stack, one for the callback.                *)
StartAwait(t, e) ==
  /\ Len(frames[t]) < MaxDepth
  /\ Begin(t, e, "await", 2)
  /\ pin' = [pin EXCEPT ![t] = IF @ = NoWorker THEN at[t] ELSE @]
  /\ frames' = [frames EXCEPT ![t] =
                  Append(@, [env |-> e, wasPinned |-> pin[t] # NoWorker])]
  /\ busy' = [busy EXCEPT ![t] = FALSE]

(* Async: the reference on the stack is gone when the event is returned.   *)
StartAsync(t, e) ==
  /\ Begin(t, e, "async", 1)
  /\ UNCHANGED <<pin, frames, busy>>

(* libuv refuses the request: both references are dropped on the way out.  *)
StartFails(t, e) ==
  /\ Runs(t)
  /\ env[e] = Unused
  /\ env' = [env EXCEPT ![e] = Freed]
  /\ UNCHANGED <<taskVars, taskRefs, gone, uv, notes>>

(* processUntil, or process outside of any Await, dispatches an event: its *)
(* handlers run on top of the innermost Await.                             *)
Dispatch(t) ==
  /\ AtMailbox(t)
  /\ inbox[t] # << >>
  /\ inbox' = [inbox EXCEPT ![t] = Tail(@)]
  /\ Park!Take(t)
  /\ busy' = [busy EXCEPT ![t] = TRUE]
  /\ UNCHANGED <<at, pin, frames, lifeVars, uv, notes>>

HandlerReturns(t) ==
  /\ Runs(t)
  /\ frames[t] # << >>
  /\ busy' = [busy EXCEPT ![t] = FALSE]
  /\ UNCHANGED <<phase, permit, inbox, at, pin, frames, lifeVars, uv, notes>>

\* Mutant: a ScopedPin that does not remember whether it pinned.
LeaveUnpinned(t) ==
  /\ pin' = [pin EXCEPT ![t] = NoWorker]
  /\ frames' = [frames EXCEPT ![t] = SubSeq(@, 1, Len(@) - 1)]
  /\ busy' = [busy EXCEPT ![t] = TRUE]
  /\ Drop(Top(t).env, env[Top(t).env])
  /\ UNCHANGED <<phase, permit, inbox, at, uv, notes>>

(* The innermost Await leaves: its reference is dropped, then its pin.     *)
LeaveAwait(t) ==
  /\ Drop(Top(t).env, env[Top(t).env])
  /\ pin' = [pin EXCEPT ![t] = IF Top(t).wasPinned THEN @ ELSE NoWorker]
  /\ frames' = [frames EXCEPT ![t] = SubSeq(@, 1, Len(@) - 1)]
  /\ busy' = [busy EXCEPT ![t] = TRUE]
  /\ UNCHANGED <<phase, permit, inbox, at, uv, notes>>

(* The operation is complete: its value, or its error, goes to the caller. *)
Finish(t) ==
  /\ Loops(t)
  /\ env[Top(t).env].condition
  /\ LeaveAwait(t)

(* A handler throws through the Await it interrupted; the caller, which    *)
(* may be a handler of an outer Await, may let the exception pass again.   *)
Throw(t) ==
  /\ Runs(t)
  /\ frames[t] # << >>
  /\ LeaveAwait(t)

(* processUntil has no more events and suspends; so does user code that    *)
(* waits for something else.                                               *)
Suspend(t) ==
  /\ AtMailbox(t)
  /\ phase' = [phase EXCEPT ![t] = "asleep"]
  /\ UNCHANGED inbox
  /\ Park!GiveBack(t)
  /\ UNCHANGED <<at, pin, frames, busy, lifeVars, uv, notes>>

(* A worker that runs nothing resumes it; a pinned one, only its own.      *)
Resumed(t) ==
  /\ \E w \in Workers :
       /\ Idle(w)
       /\ pin[t] \in {w, NoWorker}
       /\ at' = [at EXCEPT ![t] = w]
  /\ UNCHANGED inbox
  /\ Park!Wake(t)
  /\ UNCHANGED <<pin, frames, busy, lifeVars, uv, notes>>

(* The task ends; it is deleted unless an environment still holds it.      *)
Die(t) ==
  /\ Runs(t)
  /\ frames[t] = << >>
  /\ phase' = [phase EXCEPT ![t] = "dead"]
  /\ gone' = IF taskRefs[t] = 0 THEN gone \union {t} ELSE gone
  /\ UNCHANGED <<permit, inbox, at, pin, frames, busy, env, taskRefs, uv, notes>>

-----------------------------------------------------------------------------
(* What libuv does when a worker polls.                                    *)

\* Mutant: the condition is set, but the task is not resumed.
CompletedSilently(e) ==
  LET t == env[e].owner IN
  \/ env[e].mode = "await" /\ UNCHANGED <<inbox, phase, permit>>
  \/ env[e].mode = "async" /\ inbox' = [inbox EXCEPT ![t] = Append(@, e)] /\ Park!Post(t)

(* completed: the condition is set and the task resumed, or the result is  *)
(* sent to it; After(e) are the fields then.                               *)
Completed(e) ==
  LET t == env[e].owner IN
  \/ env[e].mode = "await" /\ UNCHANGED inbox /\ Park!Poke(t)
  \/ env[e].mode = "async" /\ inbox' = [inbox EXCEPT ![t] = Append(@, e)] /\ Park!Post(t)
After(e) == [env[e] EXCEPT !.condition = (env[e].mode = "await")]

(* The callback: that of a request drops the environment, that of a timer  *)
(* has it closed first.                                                    *)
Callback(e) ==
  /\ uv[e] = "pending"
  /\ Idle(env[e].loop)
  /\ Completed(e)
  /\ \/ env[e].kind = "request" /\ uv' = [uv EXCEPT ![e] = "idle"] /\ Drop(e, After(e))
     \/ /\ env[e].kind = "timer"
        /\ uv' = [uv EXCEPT ![e] = "closing"]
        /\ env' = [env EXCEPT ![e] = After(e)]
        /\ UNCHANGED <<taskRefs, gone>>
  /\ UNCHANGED <<at, pin, frames, busy, notes>>

CloseCallback(e) ==
  /\ uv[e] = "closing"
  /\ Idle(env[e].loop)
  /\ uv' = [uv EXCEPT ![e] = "idle"]
  /\ Drop(e, env[e])
  /\ UNCHANGED <<taskVars, notes>>

(* Somebody else sends an event.                                           *)
SendNote(t) ==
  /\ notes < MaxNotes
  /\ notes' = notes + 1
  /\ t \notin gone
  /\ inbox' = [inbox EXCEPT ![t] = Append(@, Note)]
  /\ Park!Post(t)
  /\ UNCHANGED <<at, pin, frames, busy, lifeVars, uv>>

-----------------------------------------------------------------------------
(* A task goes on, and lets go of the CPU: handlers return, user code      *)
(* finishes or waits.                                                      *)
Proceed(t) == HandlerReturns(t) \/ Finish(t) \/ Dispatch(t) \/ Suspend(t)

Start(t, e) == StartAwait(t, e) \/ StartAsync(t, e) \/ StartFails(t, e)

Next ==
  \/ \E t \in Tasks : \/ Proceed(t) \/ Resumed(t) \/ Throw(t) \/ Die(t) \/ SendNote(t)
                      \/ \E e \in Envs : Start(t, e)
  \/ \E e \in Envs : Callback(e) \/ CloseCallback(e)

Spec == Init /\ [][Next]_vars

(* A worker resumes the tasks it has to, and polls its loop when it runs   *)
(* none; handlers return and user code waits or ends.                      *)
FairSpec ==
  /\ Spec
  /\ \A t \in Tasks : WF_vars(Proceed(t) \/ Resumed(t))
  /\ \A e \in Envs : WF_vars(Callback(e) \/ CloseCallback(e))

-----------------------------------------------------------------------------
(* Properties                                                              *)

(* The variables have the types the code declares.                         *)
TypeOK ==
  /\ phase \in [Tasks -> {"awake", "asleep", "dead"}]
  /\ permit \in [Tasks -> BOOLEAN]
  /\ inbox \in [Tasks -> Seq(Envs \union {Note})]
  /\ at \in [Tasks -> Workers]
  /\ pin \in [Tasks -> Workers \union {NoWorker}]
  /\ frames \in [Tasks -> Seq([env : Envs, wasPinned : BOOLEAN])]
  /\ busy \in [Tasks -> BOOLEAN]
  /\ taskRefs \in [Tasks -> Nat]
  /\ gone \subseteq Tasks
  /\ env \in [Envs -> {Unused, Freed} \union Fields]
  /\ uv \in [Envs -> {"idle", "pending", "closing"}]

(* libuvwrapper.hpp:299: an environment lives as long as libuv or the      *)
(* stack knows it and no longer, and so does the task it will resume or    *)
(* send to, whether that one waited for the end, was torn out of the wait  *)
(* by an exception, or is dead.                                            *)
LiveWhileKnown ==
  /\ \A e \in Envs :
       Live(e) <=> uv[e] # "idle" \/ \E t \in Tasks : e \in Awaited(t)
  /\ \A t \in Tasks :
       t \in gone <=> phase[t] = "dead" /\ \A e \in Envs : Live(e) => env[e].owner # t

(* The plain counter of a timer's environment, the condition processUntil  *)
(* reads without a lock and the loop itself need all of an operation on    *)
(* one thread: while a task waits, at whatever depth, it stays where it    *)
(* started every one of the operations it waits for.                       *)
AwaitsAtHome ==
  \A t \in Tasks : frames[t] # << >> =>
    pin[t] = at[t] /\ \A e \in Awaited(t) : env[e].loop = at[t]

(* An operation comes to its end: a task that awaits it gets out, however  *)
(* deep in other waits, and nothing of it is left.                         *)
OperationsEnd == \A e \in Envs : Live(e) ~> (env[e] = Freed)
=============================================================================
