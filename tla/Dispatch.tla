------------------------------- MODULE Dispatch -------------------------------
(* How one task takes events from its mailbox and runs its handlers          *)
(* (context.cpp, handler.hpp, event-inl.hpp, event.cpp).                     *)
(*                                                                           *)
(* The task is one thread of control, modelled by its call stack: the main   *)
(* function at the bottom, above it loops of process() and processUntil(),   *)
(* dispatches, and handlers that run user code and may in turn process       *)
(* events. Other tasks only append to the mailbox.                           *)
EXTENDS Integers, FiniteSets, Sequences, SequencesExt

CONSTANTS
  Paths,        \* the paths of the events the task meets
  Kill,         \* the path of the kill event
  Main,         \* stands for the main function where a handler's path stands
  Binds,        \* <<p, q>>: code run for p binds or releases handlers of q
  Awaits,       \* <<p, q>>: code run for p awaits q
  MaxEvents,    \* bound: events sent to the task
  MaxHandlers,  \* bound: handlers bound by the task
  MaxRefs       \* bound: references to one handler

ASSUME PathsAssumption == Kill \in Paths /\ Main \notin Paths
ASSUME UsesAssumption ==
  Binds \union Awaits \subseteq (Paths \union {Main}) \X Paths
ASSUME BoundsAssumption ==
  MaxEvents \in Nat /\ MaxHandlers \in Nat /\ MaxRefs \in Nat \ {0}

VARIABLES
  sent,         \* paths of the events ever put into the mailbox, in order
  taken,        \* how many of them were dequeued
  freed,        \* how often the payload of each event was freed
  thrown,       \* history: the events whose dispatch ended in an exception
  handlers,     \* every handler ever bound: its path, role and references
  block,        \* the living and dead handlers of a path, in binding order
  initialized,  \* Task::handlersInitialized
  stopped,      \* Task::stopped
  frames,       \* the call stack, its top last
  exc,          \* the exception that unwinds the stack, or "none"
  wild          \* an iteration went on in a block that was moved or freed

vars == <<sent, taken, freed, thrown, handlers, block, initialized, stopped,
          frames, exc, wild>>

Exceptions == {"none", "user", "killed", "bad_call"}

(* Stack frames. A frame of code carries the path its handler is bound to.   *)
Code(p)     == [kind |-> "code", path |-> p]
Loop        == [kind |-> "process"]
Until(h)    == [kind |-> "until", handler |-> h, got |-> 0, since |-> taken]
Iterate(e, p, hs) ==
  [kind |-> "dispatch", event |-> e, path |-> p, targets |-> hs,
   at |-> Len(hs), stale |-> FALSE]

Top == frames[Len(frames)]
Return == Front(frames)
Push(f) == Append(frames, f)
Runs(kind) == ~wild /\ exc = "none" /\ Top.kind = kind
Unwinds(kind) == ~wild /\ exc # "none" /\ Top.kind = kind
MayBind(p) == <<Top.path, p>> \in Binds

Init ==
  /\ sent = <<>> /\ taken = 0 /\ freed = <<>> /\ thrown = {}
  /\ handlers = <<>>
  /\ block = [p \in Paths |-> <<>>]
  /\ initialized = FALSE /\ stopped = FALSE
  /\ frames = <<Code(Main)>>
  /\ exc = "none"
  /\ wild = FALSE

-------------------------------------------------------------------------------
(* Handlers and the references to them.                                      *)

Alive(h) == handlers[h].refs > 0

(* A handler is appended to its block with one reference. The vector may     *)
(* have to move, which leaves every iteration over the block behind.         *)
Stale(p) == [i \in DOMAIN frames |->
  IF frames[i].kind = "dispatch" /\ frames[i].path = p
  THEN [frames[i] EXCEPT !.stale = TRUE] ELSE frames[i]]

AddHandler(p, role) ==
  /\ Len(handlers) < MaxHandlers
  /\ handlers' = Append(handlers, [path |-> p, role |-> role, refs |-> 1])
  /\ block' = [block EXCEPT ![p] = Append(@, Len(handlers) + 1)]

(* context::detail::bind. The caller keeps the reference it is given.        *)
Bind(p) ==
  /\ Runs("code") /\ MayBind(p)
  /\ AddHandler(p, "user")
  /\ frames' \in {frames, Stale(p)}
  /\ UNCHANGED <<sent, taken, freed, thrown, initialized, stopped, exc, wild>>

(* HandlerRef: copying grabs, destroying, assigning over and release() drop. *)
(* A handler nobody refers to gives up its closure and never comes back.     *)
CopyRef(h) ==
  /\ Runs("code") /\ handlers[h].role = "user" /\ MayBind(handlers[h].path)
  /\ Alive(h) /\ handlers[h].refs < MaxRefs
  /\ handlers' = [handlers EXCEPT ![h].refs = @ + 1]
  /\ UNCHANGED <<sent, taken, freed, thrown, block, initialized, stopped,
                 frames, exc, wild>>

DropRef(h) ==
  /\ Runs("code") /\ handlers[h].role = "user" /\ MayBind(handlers[h].path)
  /\ Alive(h)
  /\ handlers' = [handlers EXCEPT ![h].refs = @ - 1]
  /\ UNCHANGED <<sent, taken, freed, thrown, block, initialized, stopped,
                 frames, exc, wild>>

-------------------------------------------------------------------------------
(* What code does: the main function, or the closure of a handler.           *)

(* Event::await: bind a handler that captures the result, then processUntil. *)
Await(p) ==
  /\ Runs("code") /\ <<Top.path, p>> \in Awaits
  /\ AddHandler(p, "await")
  /\ \E now \in {frames, Stale(p)} :
       frames' = Append(now, Until(Len(handlers) + 1))
  /\ UNCHANGED <<sent, taken, freed, thrown, initialized, stopped, exc, wild>>

(* context::process: the loop of an actor, but any code that may wait may    *)
(* call it.                                                                  *)
Process ==
  /\ Runs("code") /\ \E p \in Paths : <<Top.path, p>> \in Awaits
  /\ frames' = Push(Loop)
  /\ UNCHANGED <<sent, taken, freed, thrown, handlers, block, initialized,
                 stopped, exc, wild>>

Stop ==
  /\ Runs("code") /\ ~stopped
  /\ stopped' = TRUE
  /\ UNCHANGED <<sent, taken, freed, thrown, handlers, block, initialized,
                 frames, exc, wild>>

Throw ==
  /\ Runs("code") /\ Top.path # Main
  /\ exc' = "user"
  /\ UNCHANGED <<sent, taken, freed, thrown, handlers, block, initialized,
                 stopped, frames, wild>>

(* The handler returns to the dispatch that called it.                       *)
HandlerReturns ==
  /\ Runs("code") /\ Top.path # Main
  /\ frames' = Return
  /\ UNCHANGED <<sent, taken, freed, thrown, handlers, block, initialized,
                 stopped, exc, wild>>

-------------------------------------------------------------------------------
(* Taking an event.                                                          *)

(* Mutant: the kill handler is never bound.                                  *)
WithoutKill == <<handlers, block>>

(* initializeHandlers: at the first event the kill handler is bound, after   *)
(* the handlers that are there already.                                      *)
WithKill ==
  IF initialized THEN <<handlers, block>>
  ELSE <<Append(handlers, [path |-> Kill, role |-> "kill", refs |-> 1]),
         [block EXCEPT ![Kill] = Append(@, Len(handlers) + 1)]>>

(* Mutant: dead handlers stay in the block.                                  *)
KeepDead(hs, b) == b

(* collectGarbage: the dead handlers of a block leave, the others move down  *)
(* to the place they have among the living.                                  *)
Living(hs, b) == {i \in DOMAIN b : hs[b[i]].refs > 0}
Place(hs, b, i) == Cardinality({j \in Living(hs, b) : j <= i})
Collect(hs, b) == [n \in 1..Cardinality(Living(hs, b)) |->
  b[CHOOSE i \in Living(hs, b) : Place(hs, b, i) = n]]

(* dispatchEvent up to its loop. A block without living handlers is erased,  *)
(* and the event is dropped at once.                                         *)
Dequeue ==
  LET e == taken + 1
      p == sent[e]
      hs == WithKill[1]
      living == Collect(hs, WithKill[2][p])
  IN  /\ taken < Len(sent)
      /\ taken' = e
      /\ initialized' = TRUE
      /\ handlers' = hs
      /\ block' = [WithKill[2] EXCEPT ![p] = living]
      /\ IF living = <<>>
         THEN /\ frames' = Stale(p)
              /\ freed' = [freed EXCEPT ![e] = @ + 1]
         ELSE /\ frames' = Push(Iterate(e, p, living))
              /\ UNCHANGED freed
      /\ UNCHANGED <<sent, thrown, stopped, exc, wild>>

(* process() goes on until the mailbox is empty or the task is stopped,      *)
LoopTakes == Runs("process") /\ ~stopped /\ Dequeue

LoopEnds ==
  /\ Runs("process") /\ (stopped \/ taken = Len(sent))
  /\ frames' = Return
  /\ UNCHANGED <<sent, taken, freed, thrown, handlers, block, initialized,
                 stopped, exc, wild>>

(* processUntil() until its condition holds: with an empty mailbox it waits. *)
AwaitTakes == Runs("until") /\ Top.got = 0 /\ Dequeue

(* Mutant: the reference is dropped though the handler released it already.  *)
ForgetAgain(h) == [handlers EXCEPT ![h].refs = @ - 1]

(* The reference of the awaiting function is gone when the function is left, *)
(* unless its handler has released it.                                       *)
Forget(h) == [handlers EXCEPT ![h].refs = 0]

AwaitReturns ==
  /\ Runs("until") /\ Top.got # 0
  /\ handlers' = Forget(Top.handler)
  /\ frames' = Return
  /\ UNCHANGED <<sent, taken, freed, thrown, block, initialized, stopped, exc,
                 wild>>

-------------------------------------------------------------------------------
(* dispatchEvent: the latest handler first.                                  *)

(* Mutant: the latest handler consumes the event.                            *)
LatestOnly == [frames EXCEPT ![Len(frames)].at = 0]

NextHandler == [frames EXCEPT ![Len(frames)].at = @ - 1]

(* The handler of an await stores the event, sets the condition and releases *)
(* itself.                                                                   *)
Fulfil(h) ==
  /\ handlers' = Forget(h)
  /\ frames' = [i \in DOMAIN frames |->
       IF frames[i].kind = "until" /\ frames[i].handler = h
       THEN [frames[i] EXCEPT !.got = Top.event]
       ELSE NextHandler[i]]
  /\ UNCHANGED exc

(* Calling a closure that was given up throws std::bad_function_call.        *)
Call(h) ==
  \/ /\ ~Alive(h)
     /\ exc' = "bad_call"
     /\ UNCHANGED <<handlers, frames>>
  \/ /\ Alive(h) /\ handlers[h].role = "kill"
     /\ exc' = "killed"
     /\ UNCHANGED <<handlers, frames>>
  \/ Alive(h) /\ handlers[h].role = "await" /\ Fulfil(h)
  \/ /\ Alive(h) /\ handlers[h].role = "user"
     /\ frames' = Append(NextHandler, Code(Top.path))
     /\ UNCHANGED <<handlers, exc>>

(* The iterator is good while the block has neither moved nor shrunk below   *)
(* it.                                                                       *)
Execute ==
  LET b == block[Top.path]
  IN  /\ Runs("dispatch") /\ Top.at > 0
      /\ IF Top.stale \/ Top.at > Len(b)
         THEN wild' = TRUE /\ UNCHANGED <<handlers, frames, exc>>
         ELSE Call(b[Top.at]) /\ UNCHANGED wild
      /\ UNCHANGED <<sent, taken, freed, thrown, block, initialized, stopped>>

(* After the last handler the loop that took the event frees its payload.    *)
DispatchEnds ==
  /\ Runs("dispatch") /\ Top.at = 0
  /\ frames' = Return
  /\ freed' = [freed EXCEPT ![Top.event] = @ + 1]
  /\ UNCHANGED <<sent, taken, thrown, handlers, block, initialized, stopped,
                 exc, wild>>

-------------------------------------------------------------------------------
(* An exception on its way down the stack.                                   *)

(* Mutant: the payload is forgotten when a handler throws.                   *)
DispatchThrowsAndLeaks ==
  /\ Unwinds("dispatch")
  /\ thrown' = thrown \union {Top.event}
  /\ frames' = Front(Return)
  /\ UNCHANGED <<sent, taken, freed, handlers, block, initialized, stopped, exc,
                 wild>>

(* The loop that took the event frees its payload before it rethrows, so the *)
(* frame of the loop goes with the frame of the dispatch.                    *)
DispatchThrows ==
  LET loop == frames[Len(frames) - 1]
  IN  /\ Unwinds("dispatch")
      /\ freed' = [freed EXCEPT ![Top.event] = @ + 1]
      /\ thrown' = thrown \union {Top.event}
      /\ frames' = Front(Return)
      /\ handlers' = IF loop.kind = "until" THEN Forget(loop.handler)
                     ELSE handlers
      /\ UNCHANGED <<sent, taken, block, initialized, stopped, exc, wild>>

(* A handler lets it pass, or caught it around what it called.               *)
HandlerThrows ==
  /\ Unwinds("code") /\ Top.path # Main
  /\ frames' = Return
  /\ UNCHANGED <<sent, taken, freed, thrown, handlers, block, initialized,
                 stopped, exc, wild>>

Catch ==
  /\ Unwinds("code")
  /\ exc' = "none"
  /\ UNCHANGED <<sent, taken, freed, thrown, handlers, block, initialized,
                 stopped, frames, wild>>

-------------------------------------------------------------------------------
(* Others send events: DequeMailbox::enqueue.                                *)
Send(p) ==
  /\ Len(sent) < MaxEvents
  /\ sent' = Append(sent, p)
  /\ freed' = Append(freed, 0)
  /\ UNCHANGED <<taken, thrown, handlers, block, initialized, stopped, frames,
                 exc, wild>>

Next ==
  \/ \E p \in Paths : Send(p) \/ Bind(p) \/ Await(p)
  \/ \E h \in DOMAIN handlers : CopyRef(h) \/ DropRef(h)
  \/ Process \/ Stop \/ Throw \/ HandlerReturns
  \/ LoopTakes \/ LoopEnds \/ AwaitTakes \/ AwaitReturns
  \/ Execute \/ DispatchEnds \/ DispatchThrows \/ HandlerThrows \/ Catch

Spec == Init /\ [][Next]_vars
-------------------------------------------------------------------------------
(* Properties                                                                *)

(* The state stays well formed: blocks hold handlers of their path in the    *)
(* order they were bound, and no reference is dropped twice.                 *)
TypeOK ==
  /\ sent \in Seq(Paths) /\ Len(sent) <= MaxEvents
  /\ taken \in 0..Len(sent)
  /\ freed \in [DOMAIN sent -> Nat]
  /\ thrown \subseteq 1..taken
  /\ handlers \in Seq([path : Paths, role : {"user", "await", "kill"},
                       refs : 0..MaxRefs])
  /\ DOMAIN block = Paths
  /\ \A p \in Paths : \A i \in DOMAIN block[p] :
       /\ handlers[block[p][i]].path = p
       /\ \A j \in 1..(i - 1) : block[p][j] < block[p][i]
  /\ initialized \in BOOLEAN /\ stopped \in BOOLEAN /\ wild \in BOOLEAN
  /\ frames # <<>> /\ frames[1] = Code(Main)
  /\ exc \in Exceptions

(* The payload of an event has exactly one owner: the mailbox, one dispatch  *)
(* on the stack, or nobody any more because it was freed once, whether the   *)
(* dispatch ended, threw, was nested in another, or found no handler         *)
(* (context.cpp:77-85, 121-129).                                             *)
PayloadsFreedOnce ==
  \A e \in DOMAIN sent :
    freed[e] = IF \/ e > taken
                  \/ \E i \in DOMAIN frames :
                       frames[i].kind = "dispatch" /\ frames[i].event = e
               THEN 0 ELSE 1

(* A program keeps to this discipline if handlers of a path neither bind nor *)
(* release on that path, and only the main function binds or releases        *)
(* handlers of a path whose handlers wait, and nobody awaits such a path.    *)
HandlersWait(p) == \E q \in Paths : <<p, q>> \in Awaits
Discipline ==
  /\ \A p \in Paths : <<p, p>> \notin Binds
  /\ \A p, q \in Paths : HandlersWait(q) => <<p, q>> \notin Binds
  /\ \A p \in Paths \union {Main}, q \in Paths :
       HandlersWait(q) => <<p, q>> \notin Awaits

(* An event meets each handler that lived when its dispatch began exactly    *)
(* once, the latest first, however many dispatches are nested in it, and the *)
(* iteration never reads a block that moved or calls a closure that was      *)
(* given up. It takes a program that keeps to the discipline                 *)
(* (context.cpp:153-186).                                                    *)
LatestFirst ==
  /\ ~wild /\ exc # "bad_call"
  /\ \A i \in DOMAIN frames : frames[i].kind = "dispatch" =>
       LET f == frames[i]
       IN  /\ f.at <= Len(block[f.path])
           /\ SubSeq(block[f.path], 1, f.at) = SubSeq(f.targets, 1, f.at)

(* An await returns the first event of its path that was taken after it      *)
(* began, though other loops take events between, except for events at which *)
(* a handler threw; and never an event that was taken before                 *)
(* (event-inl.hpp:16-23).                                                    *)
AwaitTakesNext ==
  \A i \in DOMAIN frames : frames[i].kind = "until" =>
    LET f == frames[i]
        p == handlers[f.handler].path
        over == {frames[j].event : j \in {j \in DOMAIN frames :
                                            frames[j].kind = "dispatch"}}
    IN  /\ f.got # 0 => f.got > f.since /\ sent[f.got] = p
        /\ \A e \in (f.since + 1)..taken :
             sent[e] = p /\ (f.got = 0 \/ e < f.got)
               => e \in thrown \union over

(* A kill is never shrugged off: a dispatch of the kill event ends only in   *)
(* an exception, and there always is one, whatever handlers the task has     *)
(* bound to it (context.cpp:49-60, 180-185).                                 *)
KillThrows ==
  [][\A e \in 1..taken' :
       sent[e] = Kill /\ freed'[e] > freed[e] => e \in thrown']_vars
===============================================================================
