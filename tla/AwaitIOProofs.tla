----------------------------- MODULE AwaitIOProofs -----------------------------
(***************************************************************************)
(* Proofs about AwaitIO, for any tasks, workers, operations and depth: an  *)
(* operation's environment and its task live exactly as long as somebody   *)
(* knows them, and a task that awaits stays on the worker it started on.   *)
(***************************************************************************)
EXTENDS AwaitIO, FiniteSetTheorems, TLAPS

Frame == [env : Envs, wasPinned : BOOLEAN]
Slots(t) == 1 .. Len(frames[t])

OnStack(e) == \E t \in Tasks : \E i \in Slots(t) : frames[t][i].env = e
Owned(t) == {e \in Envs : Live(e) /\ env[e].owner = t}

(* Every reference to an environment is accounted for.                     *)
Counted ==
  \A e \in Envs :
    /\ ~Live(e) => uv[e] = "idle" /\ ~OnStack(e)
    /\ Live(e) => env[e].refs = (IF uv[e] = "idle" THEN 0 ELSE 1)
                                  + (IF OnStack(e) THEN 1 ELSE 0)

(* An environment is awaited once, by its owner, where its loop is.        *)
AwaitedOnce ==
  \A t, u \in Tasks : \A i \in Slots(t), j \in Slots(u) :
    frames[t][i].env = frames[u][j].env => t = u /\ i = j
AwaitedByOwner ==
  \A t \in Tasks : \A i \in Slots(t) :
    env[frames[t][i].env].owner = t /\ env[frames[t][i].env].loop = at[t]

(* The outermost ScopedPin pins, the others only find the pin.             *)
PinnedOnce ==
  \A t \in Tasks :
    /\ frames[t] = << >> => pin[t] = NoWorker /\ busy[t]
    /\ frames[t] # << >> => pin[t] = at[t]
    /\ \A i \in Slots(t) : frames[t][i].wasPinned <=> i > 1

(* A live environment holds its task, which is deleted when it is dead and *)
(* no environment holds it any more.                                       *)
TasksCounted ==
  \A t \in Tasks :
    /\ taskRefs[t] = Cardinality(Owned(t))
    /\ t \in gone <=> phase[t] = "dead" /\ Owned(t) = {}

IInv == TypeOK /\ Counted /\ AwaitedOnce /\ AwaitedByOwner /\ PinnedOnce /\ TasksCounted

LEMMA InitInvariant ==
  ASSUME Init
  PROVE  IInv
<1>1. PICK w \in Workers : at = [t \in Tasks |-> w]
  BY IOAssumption DEF Init
<1>2. /\ phase = [t \in Tasks |-> "asleep"] /\ permit = [t \in Tasks |-> TRUE]
      /\ inbox = [t \in Tasks |-> << >>] /\ pin = [t \in Tasks |-> NoWorker]
      /\ frames = [t \in Tasks |-> << >>] /\ busy = [t \in Tasks |-> TRUE]
      /\ taskRefs = [t \in Tasks |-> 0] /\ gone = {}
      /\ env = [e \in Envs |-> Unused] /\ uv = [e \in Envs |-> "idle"]
  BY DEF Init
<1>3. TypeOK
  BY <1>1, <1>2 DEF TypeOK
<1>4. \A t \in Tasks : Slots(t) = {} /\ Owned(t) = {}
  BY <1>2 DEF Slots, Owned, Live
<1>5. Counted /\ AwaitedOnce /\ AwaitedByOwner
  BY <1>2, <1>4 DEF Counted, AwaitedOnce, AwaitedByOwner, OnStack, Live
<1>6. PinnedOnce
  BY <1>2, <1>4 DEF PinnedOnce
<1>7. TasksCounted
  BY <1>2, <1>4, FS_EmptySet DEF TasksCounted
<1>8. QED
  BY <1>3, <1>5, <1>6, <1>7 DEF IInv

-----------------------------------------------------------------------------
LEMMA FramesAreTyped ==
  ASSUME IInv, NEW t \in Tasks, NEW i \in Slots(t)
  PROVE  frames[t][i] \in Frame /\ frames[t][i].env \in Envs
<1>1. frames[t] \in Seq(Frame)
  BY DEF IInv, TypeOK, Frame
<1>2. frames[t][i] \in Frame
  BY <1>1 DEF Slots
<1>3. QED
  BY <1>2 DEF Frame

(* Steps that leave environments and stacks alone.                         *)
LEMMA SameStacks ==
  ASSUME IInv, UNCHANGED <<env, uv, frames>>,
         \A t \in Tasks : frames[t] # << >> => at'[t] = at[t]
  PROVE  Counted' /\ AwaitedOnce' /\ AwaitedByOwner'
<1>1. \A t \in Tasks : Slots(t)' = Slots(t)
  BY DEF Slots
<1>2. \A e \in Envs : (OnStack(e)' <=> OnStack(e)) /\ (Live(e)' <=> Live(e))
  BY <1>1 DEF OnStack, Live
<1>3. Counted'
  BY <1>2 DEF IInv, Counted
<1>4. AwaitedOnce'
  BY <1>1 DEF IInv, AwaitedOnce
<1>5. AwaitedByOwner'
  <2> SUFFICES ASSUME NEW t \in Tasks, NEW i \in Slots(t)
               PROVE  /\ env[frames[t][i].env].owner = t
                      /\ env[frames[t][i].env].loop = at'[t]
    BY <1>1 DEF AwaitedByOwner
  <2>1. frames[t] # << >>
    BY DEF Slots
  <2>2. QED
    BY <2>1 DEF IInv, AwaitedByOwner
<1>6. QED
  BY <1>3, <1>4, <1>5

(* Whose environments live, and who is dead, stays as it is.               *)
LEMMA SameOwners ==
  ASSUME TasksCounted, UNCHANGED <<taskRefs, gone>>,
         \A e \in Envs : (Live(e)' <=> Live(e)) /\ (Live(e) => env'[e].owner = env[e].owner),
         \A t \in Tasks : phase'[t] = "dead" <=> phase[t] = "dead"
  PROVE  TasksCounted'
<1>1. \A t \in Tasks : Owned(t)' = Owned(t)
  BY DEF Owned
<1>2. QED
  BY <1>1 DEF TasksCounted

(* An environment is gone, and drops its task.                             *)
LEMMA OwnerDropped ==
  ASSUME IInv, NEW e \in Envs, Live(e), ~Live(e)',
         \A d \in Envs \ {e} : env'[d] = env[d],
         NEW t \in Tasks, t = env[e].owner,
         taskRefs' = [taskRefs EXCEPT ![t] = @ - 1],
         gone' = IF taskRefs[t] = 1 /\ phase[t] = "dead" THEN gone \union {t} ELSE gone,
         phase' = phase
  PROVE  TasksCounted' /\ taskRefs' \in [Tasks -> Nat] /\ gone' \subseteq Tasks
<1>1. /\ taskRefs \in [Tasks -> Nat] /\ gone \subseteq Tasks
      /\ \A u \in Tasks : taskRefs[u] = Cardinality(Owned(u))
  BY DEF IInv, TypeOK, TasksCounted
<1>2. \A u \in Tasks \ {t} : Owned(u)' = Owned(u)
  BY DEF Owned, Live
<1>3. Owned(t)' = Owned(t) \ {e} /\ e \in Owned(t)
  BY DEF Owned, Live
<1>4. IsFiniteSet(Owned(t))
  BY IOAssumption, FS_Subset DEF Owned
<1>5. Cardinality(Owned(t)') = Cardinality(Owned(t)) - 1 /\ IsFiniteSet(Owned(t)')
  BY <1>3, <1>4, FS_RemoveElement
<1>6. taskRefs'[t] = taskRefs[t] - 1 /\ \A u \in Tasks \ {t} : taskRefs'[u] = taskRefs[u]
  BY <1>1
<1>7. Cardinality(Owned(t)') \in Nat /\ (Cardinality(Owned(t)') = 0 <=> Owned(t)' = {})
  BY <1>5, FS_EmptySet, FS_CardinalityType
<1>8. taskRefs'[t] = Cardinality(Owned(t)') /\ (taskRefs[t] = 1 <=> Owned(t)' = {})
  BY <1>1, <1>5, <1>6, <1>7
<1>9. taskRefs' \in [Tasks -> Nat]
  <2>1. \A u \in Tasks : taskRefs'[u] \in Nat
    BY <1>1, <1>6, <1>7, <1>8
  <2>2. QED
    BY <1>1, <2>1
<1>10. ASSUME NEW u \in Tasks
       PROVE  /\ taskRefs'[u] = Cardinality(Owned(u)')
              /\ u \in gone' <=> phase'[u] = "dead" /\ Owned(u)' = {}
  <2>1. CASE u = t
    <3>1. t \notin gone
      BY <1>3 DEF IInv, TasksCounted
    <3>2. QED
      BY <1>8, <2>1, <3>1
  <2>2. CASE u # t
    BY <1>1, <1>2, <1>6, <2>2 DEF IInv, TasksCounted
  <2>3. QED
    BY <2>1, <2>2
<1>11. TasksCounted'
  BY <1>10 DEF TasksCounted
<1>12. QED
  BY <1>1, <1>9, <1>11

(* What a drop does, whatever was written into the environment just before *)
(* it.                                                                     *)
LEMMA DropStep ==
  ASSUME IInv, NEW e \in Envs, Live(e), NEW E \in Fields,
         E.owner = env[e].owner, E.loop = env[e].loop, E.refs = env[e].refs,
         Drop(e, E), phase' = phase
  PROVE  /\ env' \in [Envs -> {Unused, Freed} \union Fields]
         /\ taskRefs' \in [Tasks -> Nat] /\ gone' \subseteq Tasks
         /\ \A d \in Envs \ {e} : env'[d] = env[d]
         /\ ~Live(e)' => env[e].refs = 1
         /\ Live(e)' => /\ env'[e].refs = env[e].refs - 1 /\ env[e].refs = 2
                        /\ env'[e].owner = env[e].owner /\ env'[e].loop = env[e].loop
         /\ TasksCounted'
<1>1. env \in [Envs -> {Unused, Freed} \union Fields]
  BY DEF IInv, TypeOK
<1>2. \A d \in Envs \ {e} : env'[d] = env[d]
  BY <1>1 DEF Drop
<1>3. PICK t \in Tasks : t = E.owner /\ t = env[e].owner
  BY DEF Fields
<1>4. CASE E.refs = 1
  <2>1. env' = [env EXCEPT ![e] = Freed]
    BY <1>4 DEF Drop
  <2>2. ~Live(e)' /\ env' \in [Envs -> {Unused, Freed} \union Fields]
    BY <1>1, <2>1 DEF Live
  <2>3. /\ taskRefs' = [taskRefs EXCEPT ![t] = @ - 1]
        /\ gone' = IF taskRefs[t] = 1 /\ phase[t] = "dead" THEN gone \union {t} ELSE gone
    BY <1>3, <1>4 DEF Drop
  <2>4. TasksCounted' /\ taskRefs' \in [Tasks -> Nat] /\ gone' \subseteq Tasks
    BY <1>2, <1>3, <2>2, <2>3, OwnerDropped
  <2>5. QED
    BY <1>2, <1>4, <2>2, <2>4
<1>5. CASE E.refs # 1
  <2>1. E.refs = 2
    BY <1>5 DEF Fields
  <2>2. env' = [env EXCEPT ![e] = [E EXCEPT !.refs = 1]]
    BY <2>1 DEF Drop
  <2>3. env'[e] \in Fields /\ env'[e] = [E EXCEPT !.refs = 1]
    BY <1>1, <2>2 DEF Fields
  <2>4. env' \in [Envs -> {Unused, Freed} \union Fields]
    BY <1>1, <2>2, <2>3
  <2>5. Live(e)' /\ env'[e].refs = 1 /\ env'[e].owner = E.owner /\ env'[e].loop = E.loop
    BY <2>3, EnvsAssumption DEF Live, Fields
  <2>6. taskRefs' = taskRefs /\ gone' = gone
    <3>1. taskRefs' = [taskRefs EXCEPT ![t] = @]
      BY <1>3, <1>5 DEF Drop
    <3>2. QED
      BY <1>5, <3>1 DEF Drop, IInv, TypeOK
  <2>7. TasksCounted'
    <3>1. \A d \in Envs : (Live(d)' <=> Live(d)) /\ (Live(d) => env'[d].owner = env[d].owner)
      BY <1>2, <2>5 DEF Live
    <3>2. QED
      BY <2>6, <3>1, SameOwners DEF IInv
  <2>8. QED
    BY <1>2, <2>1, <2>4, <2>5, <2>6, <2>7 DEF IInv, TypeOK
<1>6. QED
  BY <1>4, <1>5

-----------------------------------------------------------------------------
(* What Begin does for the environments, whatever the stack does.          *)
LEMMA BeginStep ==
  ASSUME IInv, NEW t \in Tasks, NEW e \in Envs, NEW mode \in Modes, NEW c \in 1 .. 2,
         Begin(t, e, mode, c)
  PROVE  /\ env' \in [Envs -> {Unused, Freed} \union Fields]
         /\ \A d \in Envs \ {e} : env'[d] = env[d] /\ uv'[d] = uv[d]
         /\ ~Live(e) /\ ~OnStack(e) /\ Live(e)'
         /\ env'[e].refs = c /\ env'[e].owner = t /\ env'[e].loop = at[t]
         /\ uv' \in [Envs -> {"idle", "pending", "closing"}] /\ uv'[e] = "pending"
         /\ taskRefs' \in [Tasks -> Nat] /\ TasksCounted'
<1>1. PICK kind \in Kinds :
        env' = [env EXCEPT ![e] = [mode |-> mode, kind |-> kind, owner |-> t,
                  loop |-> at[t], refs |-> c, condition |-> FALSE]]
  BY DEF Begin
<1>2. at[t] \in Workers /\ env \in [Envs -> {Unused, Freed} \union Fields]
        /\ uv \in [Envs -> {"idle", "pending", "closing"}]
        /\ taskRefs \in [Tasks -> Nat] /\ gone \subseteq Tasks
  BY DEF IInv, TypeOK
<1>3. /\ env'[e] \in Fields /\ env'[e].refs = c /\ env'[e].owner = t
      /\ env'[e].loop = at[t]
  BY <1>1, <1>2 DEF Fields
<1>4. env' \in [Envs -> {Unused, Freed} \union Fields]
        /\ \A d \in Envs \ {e} : env'[d] = env[d]
  BY <1>1, <1>2, <1>3
<1>5. ~Live(e) /\ Live(e)' /\ ~OnStack(e)
  BY <1>3, EnvsAssumption DEF Begin, Live, IInv, Counted
<1>6. /\ uv' \in [Envs -> {"idle", "pending", "closing"}] /\ uv'[e] = "pending"
      /\ \A d \in Envs \ {e} : uv'[d] = uv[d]
  BY <1>2 DEF Begin
<1>7. /\ taskRefs' = [taskRefs EXCEPT ![t] = @ + 1] /\ gone' = gone /\ phase' = phase
      /\ phase[t] # "dead"
  BY DEF Begin, Runs
<1>8. \A u \in Tasks \ {t} : Owned(u)' = Owned(u)
  BY <1>3, <1>4, <1>5 DEF Owned, Live
<1>9. Owned(t)' = Owned(t) \union {e} /\ e \notin Owned(t)
  BY <1>3, <1>4, <1>5 DEF Owned, Live
<1>10. Cardinality(Owned(t)') = Cardinality(Owned(t)) + 1
  <2>1. IsFiniteSet(Owned(t))
    BY IOAssumption, FS_Subset DEF Owned
  <2>2. QED
    BY <1>9, <2>1, FS_AddElement
<1>11. taskRefs' \in [Tasks -> Nat]
  BY <1>2, <1>7
<1>12. TasksCounted'
  <2> SUFFICES ASSUME NEW u \in Tasks
               PROVE  /\ taskRefs'[u] = Cardinality(Owned(u)')
                      /\ u \in gone' <=> phase'[u] = "dead" /\ Owned(u)' = {}
    BY DEF TasksCounted
  <2>1. CASE u = t
    <3>1. taskRefs[t] = Cardinality(Owned(t)) /\ taskRefs'[t] = taskRefs[t] + 1
      BY <1>2, <1>7 DEF IInv, TasksCounted
    <3>2. t \notin gone
      BY <1>7 DEF IInv, TasksCounted
    <3>3. QED
      BY <1>7, <1>10, <2>1, <3>1, <3>2
  <2>2. CASE u # t
    BY <1>2, <1>7, <1>8, <2>2 DEF IInv, TasksCounted
  <2>3. QED
    BY <2>1, <2>2
<1>13. QED
  BY <1>3, <1>4, <1>5, <1>6, <1>11, <1>12

LEMMA StartAsyncStep ==
  ASSUME IInv, NEW t \in Tasks, NEW e \in Envs, StartAsync(t, e)
  PROVE  IInv'
<1>1. /\ UNCHANGED <<pin, frames, busy, phase, permit, inbox, at, gone, notes>>
      /\ Begin(t, e, "async", 1)
  BY DEF StartAsync, Begin
<1>2. /\ env' \in [Envs -> {Unused, Freed} \union Fields]
      /\ \A d \in Envs \ {e} : env'[d] = env[d] /\ uv'[d] = uv[d]
      /\ ~OnStack(e) /\ Live(e)' /\ env'[e].refs = 1
      /\ uv' \in [Envs -> {"idle", "pending", "closing"}] /\ uv'[e] = "pending"
      /\ taskRefs' \in [Tasks -> Nat] /\ TasksCounted'
  BY <1>1, BeginStep DEF Modes
<1>3. TypeOK'
  BY <1>1, <1>2 DEF IInv, TypeOK
<1>4. \A u \in Tasks : Slots(u)' = Slots(u)
  BY <1>1 DEF Slots
<1>5. \A d \in Envs : OnStack(d)' <=> OnStack(d)
  BY <1>1, <1>4 DEF OnStack
<1>6. Counted'
  BY <1>2, <1>5 DEF IInv, Counted, Live
<1>7. AwaitedOnce'
  BY <1>1, <1>4 DEF IInv, AwaitedOnce
<1>8. AwaitedByOwner'
  <2>1. \A u \in Tasks : \A i \in Slots(u) : frames[u][i].env \in Envs \ {e}
    BY <1>2, FramesAreTyped DEF OnStack
  <2>2. QED
    BY <1>1, <1>2, <1>4, <2>1 DEF IInv, AwaitedByOwner
<1>9. PinnedOnce'
  BY <1>1, <1>4 DEF IInv, PinnedOnce
<1>10. QED
  BY <1>2, <1>3, <1>6, <1>7, <1>8, <1>9 DEF IInv

(* A new frame on top of the stack, and none else.                         *)
LEMMA PushFrame ==
  ASSUME IInv, NEW t \in Tasks, NEW f \in Frame,
         frames' = [frames EXCEPT ![t] = Append(@, f)]
  PROVE  /\ frames' \in [Tasks -> Seq(Frame)]
         /\ \A u \in Tasks \ {t} : frames'[u] = frames[u] /\ Slots(u)' = Slots(u)
         /\ Slots(t)' = Slots(t) \union {Len(frames[t]) + 1}
         /\ Len(frames[t]) + 1 \notin Slots(t)
         /\ frames'[t][Len(frames[t]) + 1] = f
         /\ \A i \in Slots(t) : frames'[t][i] = frames[t][i]
         /\ frames'[t] # << >>
         /\ Len(frames[t]) \in Nat
<1>1. frames \in [Tasks -> Seq(Frame)]
  BY DEF IInv, TypeOK, Frame
<1>2. PICK s \in Seq(Frame) : s = frames[t]
  BY <1>1
<1>3. frames'[t] = Append(s, f) /\ \A u \in Tasks \ {t} : frames'[u] = frames[u]
  BY <1>1, <1>2
<1>4. /\ Append(s, f) \in Seq(Frame) /\ Len(Append(s, f)) = Len(s) + 1
      /\ Len(s) \in Nat
      /\ Append(s, f)[Len(s) + 1] = f
      /\ \A i \in 1 .. Len(s) : Append(s, f)[i] = s[i]
  OBVIOUS
<1>5. frames' \in [Tasks -> Seq(Frame)]
  BY <1>1, <1>2, <1>4
<1>6. Slots(t)' = 1 .. Len(s) + 1 /\ Slots(t) = 1 .. Len(s)
  BY <1>2, <1>3, <1>4 DEF Slots
<1>7. Slots(t)' = Slots(t) \union {Len(s) + 1} /\ Len(s) + 1 \notin Slots(t)
  BY <1>4, <1>6
<1>8. frames'[t] # << >>
  BY <1>3, <1>4
<1>9. \A u \in Tasks \ {t} : Slots(u)' = Slots(u)
  BY <1>3 DEF Slots
<1>10. QED
  BY <1>2, <1>3, <1>4, <1>5, <1>6, <1>7, <1>8, <1>9

LEMMA StartAwaitStep ==
  ASSUME IInv, NEW t \in Tasks, NEW e \in Envs, StartAwait(t, e)
  PROVE  IInv'
<1> DEFINE n == Len(frames[t]) + 1
           f == [env |-> e, wasPinned |-> pin[t] # NoWorker]
<1>1. /\ UNCHANGED <<phase, permit, inbox, at, gone, notes>>
      /\ Begin(t, e, "await", 2)
      /\ pin' = [pin EXCEPT ![t] = IF @ = NoWorker THEN at[t] ELSE @]
      /\ frames' = [frames EXCEPT ![t] = Append(@, f)]
      /\ busy' = [busy EXCEPT ![t] = FALSE]
  BY DEF StartAwait, Begin
<1>2. /\ env' \in [Envs -> {Unused, Freed} \union Fields]
      /\ \A d \in Envs \ {e} : env'[d] = env[d] /\ uv'[d] = uv[d]
      /\ ~OnStack(e) /\ Live(e)' /\ env'[e].refs = 2
      /\ env'[e].owner = t /\ env'[e].loop = at[t]
      /\ uv' \in [Envs -> {"idle", "pending", "closing"}] /\ uv'[e] = "pending"
      /\ taskRefs' \in [Tasks -> Nat] /\ TasksCounted'
  BY <1>1, BeginStep DEF Modes
<1>3. f \in Frame
  BY DEF Frame
<1>4. /\ frames' \in [Tasks -> Seq(Frame)]
      /\ \A u \in Tasks \ {t} : frames'[u] = frames[u] /\ Slots(u)' = Slots(u)
      /\ Slots(t)' = Slots(t) \union {n}
      /\ n \notin Slots(t)
      /\ frames'[t][n] = f
      /\ \A i \in Slots(t) : frames'[t][i] = frames[t][i]
      /\ frames'[t] # << >>
      /\ n \in Nat
  <2>1. Len(frames[t]) \in Nat
    BY <1>1, <1>3, PushFrame
  <2>2. n \in Nat
    BY <2>1
  <2>3. QED
    BY <1>1, <1>3, <2>2, PushFrame
<1>5. \A u \in Tasks : \A i \in Slots(u) : frames[u][i].env \in Envs \ {e}
  BY <1>2, FramesAreTyped DEF OnStack
<1>6. TypeOK'
  <2>1. pin' \in [Tasks -> Workers \union {NoWorker}] /\ busy' \in [Tasks -> BOOLEAN]
    BY <1>1 DEF IInv, TypeOK
  <2>2. QED
    BY <1>1, <1>2, <1>4, <2>1 DEF IInv, TypeOK, Frame
<1> HIDE DEF n
<1>7. frames'[t][n].env = e
  BY <1>4
<1>8. OnStack(e)'
  BY <1>4, <1>7 DEF OnStack
<1>9. ASSUME NEW d \in Envs \ {e} PROVE OnStack(d)' <=> OnStack(d)
  <2>1. ASSUME NEW u \in Tasks, NEW i \in Slots(u), frames[u][i].env = d
        PROVE  OnStack(d)'
    <3>1. i \in Slots(u)' /\ frames'[u][i] = frames[u][i]
      BY <1>4
    <3>2. QED
      BY <2>1, <3>1 DEF OnStack
  <2>2. ASSUME NEW u \in Tasks, NEW i \in Slots(u)', frames'[u][i].env = d
        PROVE  OnStack(d)
    <3>1. i \in Slots(u) /\ frames'[u][i] = frames[u][i]
      BY <1>4, <1>7, <2>2
    <3>2. QED
      BY <2>2, <3>1 DEF OnStack
  <2>3. QED
    BY <2>1, <2>2 DEF OnStack
<1>10. Counted'
  BY <1>2, <1>8, <1>9 DEF IInv, Counted, Live
<1>11. AwaitedOnce'
  <2> SUFFICES ASSUME NEW u \in Tasks, NEW v \in Tasks,
                      NEW i \in Slots(u)', NEW j \in Slots(v)',
                      frames'[u][i].env = frames'[v][j].env
               PROVE  u = v /\ i = j
    BY DEF AwaitedOnce
  <2>1. (u = t /\ i = n) \/ (i \in Slots(u) /\ frames'[u][i] = frames[u][i])
    BY <1>4
  <2>2. (v = t /\ j = n) \/ (j \in Slots(v) /\ frames'[v][j] = frames[v][j])
    BY <1>4
  <2>3. QED
    BY <1>5, <1>7, <2>1, <2>2 DEF IInv, AwaitedOnce
<1>12. AwaitedByOwner'
  <2> SUFFICES ASSUME NEW u \in Tasks, NEW i \in Slots(u)'
               PROVE  /\ env'[frames'[u][i].env].owner = u
                      /\ env'[frames'[u][i].env].loop = at[u]
    BY <1>1 DEF AwaitedByOwner
  <2>1. CASE u = t /\ i = n
    BY <1>2, <1>7, <2>1
  <2>2. CASE i \in Slots(u) /\ frames'[u][i] = frames[u][i]
    BY <1>2, <1>5, <2>2 DEF IInv, AwaitedByOwner
  <2>3. QED
    BY <1>4, <2>1, <2>2
<1>13. PinnedOnce'
  <2>1. at[t] \in Workers /\ at[t] # NoWorker
    BY IOAssumption DEF IInv, TypeOK
  <2>2. /\ pin'[t] = at[t]
        /\ f.wasPinned <=> n > 1
        /\ \A i \in Slots(t) : frames[t][i].wasPinned <=> i > 1
    <3>1. CASE frames[t] = << >>
      <4>1. pin[t] = NoWorker /\ n = 1
        BY <3>1 DEF IInv, PinnedOnce, n
      <4>2. pin'[t] = at[t]
        BY <1>1, <4>1 DEF IInv, TypeOK
      <4>3. \A i \in Slots(t) : frames[t][i].wasPinned <=> i > 1
        BY DEF IInv, PinnedOnce
      <4>4. ~f.wasPinned
        BY <4>1
      <4>5. ~(n > 1)
        BY <4>1
      <4>6. QED
        BY <4>2, <4>3, <4>4, <4>5
    <3>2. CASE frames[t] # << >>
      <4>1. pin[t] = at[t] /\ n > 1
        <5>1. Len(frames[t]) \in Nat \ {0}
          <6>1. PICK s \in Seq(Frame) : s = frames[t]
            BY DEF IInv, TypeOK, Frame
          <6>2. QED
            BY <3>2, <6>1
        <5>2. QED
          BY <3>2, <5>1 DEF IInv, PinnedOnce, n
      <4>2. pin'[t] = at[t]
        BY <1>1, <2>1, <4>1 DEF IInv, TypeOK
      <4>3. \A i \in Slots(t) : frames[t][i].wasPinned <=> i > 1
        BY DEF IInv, PinnedOnce
      <4>4. f.wasPinned
        BY <2>1, <4>1
      <4>5. QED
        BY <4>1, <4>2, <4>3, <4>4
    <3>3. QED
      BY <3>1, <3>2
  <2>3. ASSUME NEW u \in Tasks, u # t
        PROVE  pin'[u] = pin[u] /\ busy'[u] = busy[u]
    BY <1>1, <2>3 DEF IInv, TypeOK
  <2>4. ASSUME NEW u \in Tasks
        PROVE  /\ frames'[u] = << >> => pin'[u] = NoWorker /\ busy'[u]
               /\ frames'[u] # << >> => pin'[u] = at'[u]
               /\ \A i \in Slots(u)' : frames'[u][i].wasPinned <=> i > 1
    <3>1. CASE u = t
      <4>1. pin'[t] = at'[t] /\ frames'[t] # << >>
        BY <1>1, <1>4, <2>2
      <4>2. ASSUME NEW i \in Slots(t)'
            PROVE  frames'[t][i].wasPinned <=> i > 1
        <5>1. CASE i = n
          BY <1>4, <2>2, <5>1
        <5>2. CASE i \in Slots(t)
          BY <1>4, <2>2, <5>2
        <5>3. QED
          BY <1>4, <4>2, <5>1, <5>2
      <4>3. QED
        BY <3>1, <4>1, <4>2
    <3>2. CASE u # t
      BY <1>1, <1>4, <2>3, <3>2 DEF IInv, PinnedOnce
    <3>3. QED
      BY <3>1, <3>2
  <2>5. QED
    BY <2>4 DEF PinnedOnce
<1>14. QED
  BY <1>2, <1>6, <1>10, <1>11, <1>12, <1>13 DEF IInv

(* The innermost Await's frame goes, and none else.                        *)
LEMMA PopFrame ==
  ASSUME IInv, NEW t \in Tasks, frames[t] # << >>,
         frames' = [frames EXCEPT ![t] = SubSeq(@, 1, Len(@) - 1)]
  PROVE  /\ frames' \in [Tasks -> Seq(Frame)]
         /\ \A u \in Tasks \ {t} : frames'[u] = frames[u] /\ Slots(u)' = Slots(u)
         /\ Len(frames[t]) \in Slots(t)
         /\ Slots(t)' = Slots(t) \ {Len(frames[t])}
         /\ \A i \in Slots(t)' : frames'[t][i] = frames[t][i]
         /\ frames'[t] = << >> <=> Len(frames[t]) = 1
<1>1. frames \in [Tasks -> Seq(Frame)]
  BY DEF IInv, TypeOK, Frame
<1>2. PICK s \in Seq(Frame) : s = frames[t]
  BY <1>1
<1>3. PICK n \in Nat : n = Len(s)
  OBVIOUS
<1>4. n # 0
  BY <1>2, <1>3
<1>5. PICK m \in Nat : n = m + 1
  <2>1. n - 1 \in Nat /\ n = (n - 1) + 1
    BY <1>4
  <2>2. QED
    BY <2>1
<1>6. PICK r \in Seq(Frame) : r = SubSeq(s, 1, m) /\ Len(r) = m /\ \A i \in 1 .. m : r[i] = s[i]
  <2>1. m \in 0 .. Len(s) /\ m - 1 + 1 = m /\ \A i \in Int : 1 + i - 1 = i
    BY <1>3, <1>5
  <2>2. SubSeq(s, 1, m) \in Seq(Frame) /\ Len(SubSeq(s, 1, m)) = m
    BY <2>1
  <2>3. \A i \in 1 .. m : SubSeq(s, 1, m)[i] = s[i]
    BY <2>1
  <2>4. QED
    BY <2>2, <2>3
<1>7. frames'[t] = r /\ \A u \in Tasks \ {t} : frames'[u] = frames[u]
  <2>1. Len(frames[t]) - 1 = m
    BY <1>2, <1>3, <1>5
  <2>2. QED
    BY <1>1, <1>2, <1>6, <2>1
<1>8. frames' \in [Tasks -> Seq(Frame)]
  BY <1>1, <1>6, <1>7
<1>9. Slots(t) = 1 .. n /\ Slots(t)' = 1 .. m
  BY <1>2, <1>3, <1>6, <1>7 DEF Slots
<1>10. n \in Slots(t) /\ Slots(t)' = Slots(t) \ {n}
  BY <1>5, <1>9
<1>11. frames'[t] = << >> <=> n = 1
  <2>1. r = << >> <=> m = 0
    <3>1. \A q \in Seq(Frame) : q = << >> <=> Len(q) = 0
      OBVIOUS
    <3>2. QED
      BY <1>6, <3>1
  <2>2. m = 0 <=> n = 1
    BY <1>5
  <2>3. QED
    BY <1>7, <2>1, <2>2
<1>12. \A i \in Slots(t)' : frames'[t][i] = frames[t][i]
  BY <1>2, <1>6, <1>7, <1>9
<1>13. \A u \in Tasks \ {t} : Slots(u)' = Slots(u)
  BY <1>7 DEF Slots
<1>14. QED
  BY <1>2, <1>3, <1>7, <1>8, <1>10, <1>11, <1>12, <1>13

LEMMA LeaveAwaitStep ==
  ASSUME IInv, NEW t \in Tasks, frames[t] # << >>, LeaveAwait(t)
  PROVE  IInv'
<1>0. PICK e, n : e = Top(t).env /\ n = Len(frames[t])
  OBVIOUS
<1>1. /\ Drop(e, env[e])
      /\ pin' = [pin EXCEPT ![t] = IF Top(t).wasPinned THEN @ ELSE NoWorker]
      /\ frames' = [frames EXCEPT ![t] = SubSeq(@, 1, Len(@) - 1)]
      /\ busy' = [busy EXCEPT ![t] = TRUE]
      /\ UNCHANGED <<phase, permit, inbox, at, uv, notes>>
  BY <1>0 DEF LeaveAwait
<1>2. /\ frames' \in [Tasks -> Seq(Frame)]
      /\ \A u \in Tasks \ {t} : frames'[u] = frames[u] /\ Slots(u)' = Slots(u)
      /\ n \in Slots(t)
      /\ Slots(t)' = Slots(t) \ {n}
      /\ \A i \in Slots(t)' : frames'[t][i] = frames[t][i]
      /\ frames'[t] = << >> <=> n = 1
  BY <1>0, <1>1, PopFrame
<1>3. frames[t][n].env = e /\ e \in Envs
  BY <1>0, <1>2, FramesAreTyped DEF Top
<1>4. OnStack(e) /\ Live(e)
  BY <1>2, <1>3 DEF OnStack, IInv, Counted
<1>5. env[e] \in Fields
  BY <1>3, <1>4 DEF Live, IInv, TypeOK
<1>6. /\ env' \in [Envs -> {Unused, Freed} \union Fields]
      /\ taskRefs' \in [Tasks -> Nat] /\ gone' \subseteq Tasks
      /\ \A d \in Envs \ {e} : env'[d] = env[d]
      /\ ~Live(e)' => env[e].refs = 1
      /\ Live(e)' => /\ env'[e].refs = env[e].refs - 1 /\ env[e].refs = 2
                     /\ env'[e].owner = env[e].owner /\ env'[e].loop = env[e].loop
      /\ TasksCounted'
  BY <1>1, <1>3, <1>4, <1>5, DropStep
(* The frames that stay are of other environments.                         *)
<1>7. ASSUME NEW u \in Tasks, NEW i \in Slots(u)'
      PROVE  i \in Slots(u) /\ frames'[u][i] = frames[u][i] /\ frames[u][i].env \in Envs \ {e}
  <2>1. i \in Slots(u) /\ frames'[u][i] = frames[u][i] /\ ~(u = t /\ i = n)
    BY <1>2
  <2>2. frames[u][i].env # e
    BY <1>2, <1>3, <2>1 DEF IInv, AwaitedOnce
  <2>3. QED
    BY <2>1, <2>2, FramesAreTyped
<1>8. ~OnStack(e)'
  BY <1>7 DEF OnStack
<1>9. ASSUME NEW d \in Envs \ {e} PROVE OnStack(d)' <=> OnStack(d)
  <2>1. ASSUME NEW u \in Tasks, NEW i \in Slots(u), frames[u][i].env = d
        PROVE  OnStack(d)'
    <3>1. i \in Slots(u)' /\ frames'[u][i] = frames[u][i]
      BY <1>2, <1>3, <2>1
    <3>2. QED
      BY <2>1, <3>1 DEF OnStack
  <2>2. OnStack(d)' => OnStack(d)
    BY <1>7 DEF OnStack
  <2>3. QED
    BY <2>1, <2>2 DEF OnStack
<1>10. TypeOK'
  <2>1. pin' \in [Tasks -> Workers \union {NoWorker}] /\ busy' \in [Tasks -> BOOLEAN]
    BY <1>1 DEF IInv, TypeOK
  <2>2. QED
    BY <1>1, <1>2, <1>6, <2>1 DEF IInv, TypeOK, Frame
<1>11. Counted'
  <2>1. ASSUME NEW d \in Envs \ {e}
        PROVE  /\ ~Live(d)' => uv'[d] = "idle" /\ ~OnStack(d)'
               /\ Live(d)' => env'[d].refs = (IF uv'[d] = "idle" THEN 0 ELSE 1)
                                               + (IF OnStack(d)' THEN 1 ELSE 0)
    BY <1>1, <1>6, <1>9 DEF IInv, Counted, Live
  <2>2. env[e].refs = (IF uv[e] = "idle" THEN 0 ELSE 1) + 1
    BY <1>3, <1>4 DEF IInv, Counted
  <2>3. ~Live(e)' => uv'[e] = "idle"
    BY <1>1, <1>6, <2>2
  <2>4. Live(e)' => env'[e].refs = (IF uv'[e] = "idle" THEN 0 ELSE 1) + 0
    BY <1>1, <1>6, <2>2
  <2>5. QED
    BY <1>8, <2>1, <2>3, <2>4 DEF Counted
<1>12. AwaitedOnce'
  BY <1>7 DEF IInv, AwaitedOnce
<1>13. AwaitedByOwner'
  <2> SUFFICES ASSUME NEW u \in Tasks, NEW i \in Slots(u)'
               PROVE  /\ env'[frames'[u][i].env].owner = u
                      /\ env'[frames'[u][i].env].loop = at'[u]
    BY DEF AwaitedByOwner
  <2>1. env'[frames'[u][i].env] = env[frames[u][i].env] /\ i \in Slots(u) /\ at' = at
    BY <1>1, <1>6, <1>7
  <2>2. QED
    BY <2>1 DEF IInv, AwaitedByOwner
<1>14. PinnedOnce'
  <2>1. Top(t).wasPinned <=> n > 1
    BY <1>0, <1>2 DEF IInv, PinnedOnce, Top
  <2>2. pin'[t] = IF n > 1 THEN at[t] ELSE NoWorker
    <3>1. pin'[t] = IF Top(t).wasPinned THEN at[t] ELSE NoWorker
      BY <1>1 DEF IInv, TypeOK, PinnedOnce
    <3>2. QED
      BY <2>1, <3>1
  <2>3. n > 1 <=> n # 1
    BY <1>2 DEF Slots
  <2>4. ASSUME NEW u \in Tasks
        PROVE  /\ frames'[u] = << >> => pin'[u] = NoWorker /\ busy'[u]
               /\ frames'[u] # << >> => pin'[u] = at'[u]
    <3>1. CASE u = t
      BY <1>1, <1>2, <2>2, <2>3, <3>1 DEF IInv, TypeOK
    <3>2. CASE u # t
      BY <1>1, <1>2, <3>2 DEF IInv, TypeOK, PinnedOnce
    <3>3. QED
      BY <3>1, <3>2
  <2>5. \A u \in Tasks : \A i \in Slots(u)' : frames'[u][i].wasPinned <=> i > 1
    BY <1>7 DEF IInv, PinnedOnce
  <2>6. QED
    BY <2>4, <2>5 DEF PinnedOnce
<1>15. QED
  BY <1>6, <1>10, <1>11, <1>12, <1>13, <1>14 DEF IInv

(* libuv is done with an environment, and drops it.                        *)
LEMMA UvDrops ==
  ASSUME IInv, NEW e \in Envs, uv[e] # "idle", NEW E \in Fields,
         E.owner = env[e].owner, E.loop = env[e].loop, E.refs = env[e].refs,
         Drop(e, E), uv' = [uv EXCEPT ![e] = "idle"],
         UNCHANGED <<phase, at, pin, frames, busy>>,
         permit' \in [Tasks -> BOOLEAN], inbox' \in [Tasks -> Seq(Envs \union {Note})]
  PROVE  IInv'
<1>1. Live(e)
  BY DEF IInv, Counted
<1>2. /\ env' \in [Envs -> {Unused, Freed} \union Fields]
      /\ taskRefs' \in [Tasks -> Nat] /\ gone' \subseteq Tasks
      /\ \A d \in Envs \ {e} : env'[d] = env[d]
      /\ ~Live(e)' => env[e].refs = 1
      /\ Live(e)' => /\ env'[e].refs = env[e].refs - 1 /\ env[e].refs = 2
                     /\ env'[e].owner = env[e].owner /\ env'[e].loop = env[e].loop
      /\ TasksCounted'
  BY <1>1, DropStep
<1>3. uv' \in [Envs -> {"idle", "pending", "closing"}] /\ uv'[e] = "idle"
        /\ \A d \in Envs \ {e} : uv'[d] = uv[d]
  BY DEF IInv, TypeOK
<1>4. TypeOK'
  BY <1>2, <1>3 DEF IInv, TypeOK
<1>5. \A u \in Tasks : Slots(u)' = Slots(u)
  BY DEF Slots
<1>6. \A d \in Envs : OnStack(d)' <=> OnStack(d)
  BY <1>5 DEF OnStack
<1>7. env[e].refs = 1 + (IF OnStack(e) THEN 1 ELSE 0)
  BY <1>1 DEF IInv, Counted
<1>8. Counted'
  <2>1. ASSUME NEW d \in Envs \ {e}
        PROVE  /\ ~Live(d)' => uv'[d] = "idle" /\ ~OnStack(d)'
               /\ Live(d)' => env'[d].refs = (IF uv'[d] = "idle" THEN 0 ELSE 1)
                                               + (IF OnStack(d)' THEN 1 ELSE 0)
    BY <1>2, <1>3, <1>6 DEF IInv, Counted, Live
  <2>2. ~Live(e)' => ~OnStack(e)
    BY <1>2, <1>7
  <2>3. Live(e)' => env'[e].refs = 0 + (IF OnStack(e) THEN 1 ELSE 0)
    BY <1>2, <1>7
  <2>4. QED
    BY <1>3, <1>6, <2>1, <2>2, <2>3 DEF Counted
<1>9. AwaitedOnce'
  BY <1>5 DEF IInv, AwaitedOnce
<1>10. AwaitedByOwner'
  <2> SUFFICES ASSUME NEW u \in Tasks, NEW i \in Slots(u)
               PROVE  /\ env'[frames[u][i].env].owner = u
                      /\ env'[frames[u][i].env].loop = at[u]
    BY <1>5 DEF AwaitedByOwner
  <2>1. frames[u][i].env \in Envs /\ OnStack(frames[u][i].env)
    BY FramesAreTyped DEF OnStack
  <2>2. frames[u][i].env = e => Live(e)'
    BY <1>6, <1>8, <2>1 DEF Counted
  <2>3. QED
    BY <1>2, <2>1, <2>2 DEF IInv, AwaitedByOwner
<1>11. PinnedOnce'
  BY <1>5 DEF IInv, PinnedOnce
<1>12. QED
  BY <1>2, <1>4, <1>8, <1>9, <1>10, <1>11 DEF IInv

(* The fields change, and neither references nor owner nor loop do.        *)
LEMMA FieldsChange ==
  ASSUME IInv, NEW e \in Envs, uv[e] # "idle", NEW E \in Fields,
         E.owner = env[e].owner, E.loop = env[e].loop, E.refs = env[e].refs,
         env' = [env EXCEPT ![e] = E], uv' = [uv EXCEPT ![e] = "closing"],
         UNCHANGED <<phase, at, pin, frames, busy, taskRefs, gone>>,
         permit' \in [Tasks -> BOOLEAN], inbox' \in [Tasks -> Seq(Envs \union {Note})]
  PROVE  IInv'
<1>1. Live(e) /\ uv' \in [Envs -> {"idle", "pending", "closing"}]
        /\ env' \in [Envs -> {Unused, Freed} \union Fields]
  BY DEF IInv, Counted, TypeOK
<1>2. env'[e] = E /\ uv'[e] # "idle" /\ \A d \in Envs \ {e} : env'[d] = env[d] /\ uv'[d] = uv[d]
  BY DEF IInv, TypeOK
<1>3. Live(e)' /\ \A d \in Envs : Live(d)' <=> Live(d)
  BY <1>1, <1>2, EnvsAssumption DEF Live
<1>4. \A d \in Envs : /\ env'[d].owner = env[d].owner /\ env'[d].loop = env[d].loop
                      /\ env'[d].refs = env[d].refs /\ (uv'[d] = "idle" <=> uv[d] = "idle")
  BY <1>2
<1>5. TypeOK'
  BY <1>1 DEF IInv, TypeOK
<1>6. \A u \in Tasks : Slots(u)' = Slots(u)
  BY DEF Slots
<1>7. \A d \in Envs : OnStack(d)' <=> OnStack(d)
  BY <1>6 DEF OnStack
<1>8. Counted'
  BY <1>3, <1>4, <1>7 DEF IInv, Counted
<1>9. AwaitedOnce'
  BY <1>6 DEF IInv, AwaitedOnce
<1>10. AwaitedByOwner'
  BY <1>4, <1>6, FramesAreTyped DEF IInv, AwaitedByOwner
<1>11. PinnedOnce'
  BY <1>6 DEF IInv, PinnedOnce
<1>12. TasksCounted'
  BY <1>3, <1>4, SameOwners DEF IInv
<1>13. QED
  BY <1>5, <1>8, <1>9, <1>10, <1>11, <1>12 DEF IInv

LEMMA CallbackStep ==
  ASSUME IInv, NEW e \in Envs, Callback(e) \/ CloseCallback(e)
  PROVE  IInv'
<1>1. uv[e] # "idle" /\ env[e] \in Fields /\ UNCHANGED <<at, pin, frames, busy>>
  <2>1. uv[e] # "idle" /\ UNCHANGED <<at, pin, frames, busy>>
    BY DEF Callback, CloseCallback, taskVars
  <2>2. QED
    BY <2>1 DEF IInv, TypeOK, Counted, Live
<1>2. CASE CloseCallback(e)
  BY <1>1, <1>2, UvDrops DEF CloseCallback, taskVars, IInv, TypeOK
<1>3. CASE Callback(e)
  <2>1. /\ After(e) \in Fields /\ After(e).owner = env[e].owner
        /\ After(e).loop = env[e].loop /\ After(e).refs = env[e].refs
    BY <1>1 DEF After, Fields
  <2>2. phase' = phase /\ permit' \in [Tasks -> BOOLEAN]
          /\ inbox' \in [Tasks -> Seq(Envs \union {Note})]
    <3>1. env[e].owner \in Tasks
      BY <1>1 DEF Fields
    <3>2. CASE UNCHANGED inbox /\ Park!Poke(env[e].owner)
      <4>1. phase' = phase
        BY <3>1, <3>2 DEF Park!Poke, IInv, TypeOK
      <4>2. permit' \in [Tasks -> BOOLEAN]
        BY <3>1, <3>2 DEF Park!Poke, IInv, TypeOK
      <4>3. QED
        BY <3>2, <4>1, <4>2 DEF IInv, TypeOK
    <3>3. CASE inbox' = [inbox EXCEPT ![env[e].owner] = Append(@, e)] /\ Park!Post(env[e].owner)
      <4>1. phase' = phase
        BY <3>1, <3>3 DEF Park!Post
      <4>2. permit' \in [Tasks -> BOOLEAN]
        BY <3>1, <3>3 DEF Park!Post, IInv, TypeOK
      <4>3. inbox' \in [Tasks -> Seq(Envs \union {Note})]
        BY <3>1, <3>3 DEF IInv, TypeOK
      <4>4. QED
        BY <4>1, <4>2, <4>3
    <3>4. QED
      BY <1>3, <3>2, <3>3 DEF Callback, Completed
  <2>3. CASE uv' = [uv EXCEPT ![e] = "idle"] /\ Drop(e, After(e))
    BY <1>1, <2>1, <2>2, <2>3, UvDrops
  <2>4. CASE /\ uv' = [uv EXCEPT ![e] = "closing"]
             /\ env' = [env EXCEPT ![e] = After(e)]
             /\ UNCHANGED <<taskRefs, gone>>
    BY <1>1, <2>1, <2>2, <2>4, FieldsChange
  <2>5. QED
    BY <1>3, <2>3, <2>4 DEF Callback
<1>4. QED
  BY <1>2, <1>3

(* The environment is freed before libuv ever knew it.                     *)
LEMMA StartFailsStep ==
  ASSUME IInv, NEW t \in Tasks, NEW e \in Envs, StartFails(t, e)
  PROVE  IInv'
<1>1. /\ env[e] = Unused /\ env' = [env EXCEPT ![e] = Freed]
      /\ UNCHANGED <<phase, permit, inbox, at, pin, frames, busy, taskRefs, gone, uv>>
  BY DEF StartFails, taskVars
<1>2. env' \in [Envs -> {Unused, Freed} \union Fields]
        /\ env'[e] = Freed /\ \A d \in Envs \ {e} : env'[d] = env[d]
  BY <1>1 DEF IInv, TypeOK
<1>3. ~Live(e) /\ \A d \in Envs : (Live(d)' <=> Live(d)) /\ (Live(d) => env'[d] = env[d])
  BY <1>1, <1>2 DEF Live
<1>4. TypeOK'
  BY <1>1, <1>2 DEF IInv, TypeOK
<1>5. \A u \in Tasks : Slots(u)' = Slots(u)
  BY <1>1 DEF Slots
<1>6. \A d \in Envs : OnStack(d)' <=> OnStack(d)
  BY <1>1, <1>5 DEF OnStack
<1>7. Counted'
  BY <1>1, <1>3, <1>6 DEF IInv, Counted
<1>8. AwaitedOnce'
  BY <1>1, <1>5 DEF IInv, AwaitedOnce
<1>9. AwaitedByOwner'
  <2> SUFFICES ASSUME NEW u \in Tasks, NEW i \in Slots(u)
               PROVE  /\ env'[frames[u][i].env].owner = u
                      /\ env'[frames[u][i].env].loop = at[u]
    BY <1>1, <1>5 DEF AwaitedByOwner
  <2>1. frames[u][i].env \in Envs /\ OnStack(frames[u][i].env)
    BY FramesAreTyped DEF OnStack
  <2>2. env'[frames[u][i].env] = env[frames[u][i].env]
    BY <1>3, <2>1 DEF IInv, Counted
  <2>3. QED
    BY <2>2 DEF IInv, AwaitedByOwner
<1>10. PinnedOnce'
  BY <1>1, <1>5 DEF IInv, PinnedOnce
<1>11. TasksCounted'
  BY <1>1, <1>3, SameOwners DEF IInv
<1>12. QED
  BY <1>4, <1>7, <1>8, <1>9, <1>10, <1>11 DEF IInv

(* Steps of a task that neither start nor end an operation.                *)
LEMMA TaskMoves ==
  ASSUME IInv, UNCHANGED <<pin, frames, lifeVars, uv>>,
         TypeOK',
         \A t \in Tasks : phase'[t] = "dead" <=> phase[t] = "dead",
         \A t \in Tasks : frames[t] # << >> => at'[t] = at[t],
         \A t \in Tasks : busy[t] => frames[t] # << >> \/ busy'[t]
  PROVE  IInv'
<1>1. UNCHANGED <<env, taskRefs, gone>>
  BY DEF lifeVars
<1>2. Counted' /\ AwaitedOnce' /\ AwaitedByOwner'
  BY <1>1, SameStacks
<1>3. PinnedOnce'
  <2>1. \A t \in Tasks : Slots(t)' = Slots(t)
    BY DEF Slots
  <2>2. QED
    BY <2>1 DEF IInv, PinnedOnce
<1>4. TasksCounted'
  BY <1>1, SameOwners DEF IInv, Live
<1>5. QED
  BY <1>2, <1>3, <1>4 DEF IInv

LEMMA TaskSteps ==
  ASSUME IInv, NEW t \in Tasks,
         \/ Dispatch(t) \/ HandlerReturns(t) \/ Suspend(t) \/ Resumed(t) \/ SendNote(t)
  PROVE  IInv'
<1>0. UNCHANGED <<pin, frames, lifeVars, uv>>
  BY DEF Dispatch, HandlerReturns, Suspend, Resumed, SendNote
<1>1. CASE Dispatch(t)
  <2>1. /\ inbox[t] # << >> /\ inbox' = [inbox EXCEPT ![t] = Tail(@)]
        /\ busy' = [busy EXCEPT ![t] = TRUE] /\ UNCHANGED <<phase, permit, at>>
    BY <1>1 DEF Dispatch, Park!Take
  <2>2. inbox' \in [Tasks -> Seq(Envs \union {Note})]
    BY <2>1 DEF IInv, TypeOK
  <2>3. TypeOK'
    BY <1>0, <2>1, <2>2 DEF IInv, TypeOK, lifeVars
  <2>4. \A u \in Tasks : busy[u] => busy'[u]
    BY <2>1 DEF IInv, TypeOK
  <2>5. QED
    BY <1>0, <2>1, <2>3, <2>4, TaskMoves
<1>2. CASE HandlerReturns(t)
  <2>1. /\ frames[t] # << >> /\ busy' = [busy EXCEPT ![t] = FALSE]
        /\ UNCHANGED <<phase, permit, inbox, at>>
    BY <1>2 DEF HandlerReturns
  <2>2. TypeOK'
    BY <1>0, <2>1 DEF IInv, TypeOK, lifeVars
  <2>3. \A u \in Tasks : busy[u] => frames[u] # << >> \/ busy'[u]
    BY <2>1 DEF IInv, TypeOK
  <2>4. QED
    BY <1>0, <2>1, <2>2, <2>3, TaskMoves
<1>3. CASE Suspend(t)
  <2>1. /\ phase[t] = "awake" /\ phase' = [phase EXCEPT ![t] = "asleep"]
        /\ permit' = [permit EXCEPT ![t] = FALSE] /\ UNCHANGED <<inbox, at, busy>>
    BY <1>3 DEF Suspend, Park!GiveBack
  <2>2. TypeOK'
    BY <1>0, <2>1 DEF IInv, TypeOK, lifeVars
  <2>3. \A u \in Tasks : phase'[u] = "dead" <=> phase[u] = "dead"
    BY <2>1 DEF IInv, TypeOK
  <2>4. QED
    BY <1>0, <2>1, <2>2, <2>3, TaskMoves
<1>4. CASE Resumed(t)
  <2>1. PICK w \in Workers : pin[t] \in {w, NoWorker} /\ at' = [at EXCEPT ![t] = w]
    BY <1>4 DEF Resumed
  <2>2. /\ phase[t] = "asleep" /\ phase' = [phase EXCEPT ![t] = "awake"]
        /\ UNCHANGED <<permit, inbox, busy>>
    BY <1>4 DEF Resumed, Park!Wake
  <2>3. TypeOK'
    BY <1>0, <2>1, <2>2 DEF IInv, TypeOK, lifeVars
  <2>4. \A u \in Tasks : phase'[u] = "dead" <=> phase[u] = "dead"
    BY <2>2 DEF IInv, TypeOK
  <2>5. \A u \in Tasks : frames[u] # << >> => at'[u] = at[u]
    BY <2>1, IOAssumption DEF IInv, TypeOK, PinnedOnce
  <2>6. QED
    BY <1>0, <2>2, <2>3, <2>4, <2>5, TaskMoves
<1>5. CASE SendNote(t)
  <2>1. /\ inbox' = [inbox EXCEPT ![t] = Append(@, Note)]
        /\ permit' = [permit EXCEPT ![t] = TRUE] /\ UNCHANGED <<phase, at, busy>>
    BY <1>5 DEF SendNote, Park!Post
  <2>2. inbox' \in [Tasks -> Seq(Envs \union {Note})]
    BY <2>1 DEF IInv, TypeOK
  <2>3. TypeOK'
    BY <1>0, <2>1, <2>2 DEF IInv, TypeOK, lifeVars
  <2>4. QED
    BY <1>0, <2>1, <2>3, TaskMoves
<1>6. QED
  BY <1>1, <1>2, <1>3, <1>4, <1>5

(* A task that ends is deleted unless an operation still needs it.         *)
LEMMA DieStep ==
  ASSUME IInv, NEW t \in Tasks, Die(t)
  PROVE  IInv'
<1>1. /\ phase' = [phase EXCEPT ![t] = "dead"] /\ phase[t] = "awake"
      /\ gone' = IF taskRefs[t] = 0 THEN gone \union {t} ELSE gone
      /\ UNCHANGED <<permit, inbox, at, pin, frames, busy, env, taskRefs, uv>>
  BY DEF Die, Runs
<1>2. TypeOK'
  BY <1>1 DEF IInv, TypeOK
<1>3. Counted' /\ AwaitedOnce' /\ AwaitedByOwner'
  BY <1>1, SameStacks
<1>4. PinnedOnce'
  BY <1>1 DEF IInv, PinnedOnce, Slots
<1>5. TasksCounted'
  <2>1. \A u \in Tasks : Owned(u)' = Owned(u)
    BY <1>1 DEF Owned, Live
  <2>2. taskRefs[t] = 0 <=> Owned(t) = {}
    <3>1. IsFiniteSet(Owned(t))
      BY IOAssumption, FS_Subset DEF Owned
    <3>2. QED
      BY <3>1, FS_EmptySet DEF IInv, TasksCounted
  <2>3. phase'[t] = "dead" /\ t \notin gone /\ \A u \in Tasks \ {t} : phase'[u] = phase[u]
    BY <1>1 DEF IInv, TypeOK, TasksCounted
  <2>4. ASSUME NEW u \in Tasks
        PROVE  u \in gone' <=> phase'[u] = "dead" /\ Owned(u)' = {}
    <3>1. CASE u = t
      BY <1>1, <2>1, <2>2, <2>3, <3>1
    <3>2. CASE u # t
      BY <1>1, <2>1, <2>3, <3>2 DEF IInv, TasksCounted
    <3>3. QED
      BY <3>1, <3>2
  <2>5. \A u \in Tasks : taskRefs'[u] = Cardinality(Owned(u)')
    BY <1>1, <2>1 DEF IInv, TasksCounted
  <2>6. QED
    BY <2>4, <2>5 DEF TasksCounted
<1>6. QED
  BY <1>2, <1>3, <1>4, <1>5 DEF IInv

-----------------------------------------------------------------------------
LEMMA Inductive ==
  ASSUME IInv, [Next]_vars
  PROVE  IInv'
<1>1. CASE UNCHANGED vars
  <2>1. UNCHANGED <<phase, permit, inbox, at, pin, frames, busy, lifeVars, uv>>
    BY <1>1 DEF vars, taskVars
  <2>2. TypeOK'
    BY <2>1 DEF IInv, TypeOK, lifeVars
  <2>3. QED
    BY <2>1, <2>2, TaskMoves
<1>2. ASSUME NEW t \in Tasks, Finish(t) PROVE IInv'
  <2>1. frames[t] # << >>
    BY <1>2 DEF Finish, Loops, IInv, PinnedOnce
  <2>2. QED
    BY <1>2, <2>1, LeaveAwaitStep DEF Finish
<1>3. ASSUME NEW t \in Tasks, Throw(t) PROVE IInv'
  BY <1>3, LeaveAwaitStep DEF Throw
<1>4. ASSUME NEW t \in Tasks, NEW e \in Envs, Start(t, e) PROVE IInv'
  BY <1>4, StartAwaitStep, StartAsyncStep, StartFailsStep DEF Start
<1>5. CASE Next
  BY <1>2, <1>3, <1>4, <1>5, TaskSteps, DieStep, CallbackStep DEF Next, Proceed
<1>6. QED
  BY <1>1, <1>5

(* The inductive invariant, for any number of operations and any nesting.  *)
THEOREM IOInvariance == Spec => []IInv
<1>1. Init => IInv
  BY InitInvariant
<1>2. IInv /\ [Next]_vars => IInv'
  BY Inductive
<1>3. QED
  BY <1>1, <1>2, PTL DEF Spec

(* The variables keep their types; a counter of references never goes      *)
(* below zero, and that of an environment is one or two.                   *)
THEOREM IOTypeCorrect == Spec => []TypeOK
<1>1. IInv => TypeOK
  BY DEF IInv
<1>2. QED
  BY <1>1, IOInvariance, PTL

(* The environments and tasks of the IO environments are deleted neither   *)
(* too early nor too late, whatever order callbacks, exceptions and deaths *)
(* come in.                                                                *)
THEOREM EnvironmentsLive == Spec => []LiveWhileKnown
<1>1. ASSUME IInv PROVE LiveWhileKnown
  <2>1. ASSUME NEW e \in Envs
        PROVE  Live(e) <=> uv[e] # "idle" \/ \E t \in Tasks : e \in Awaited(t)
    <3>1. OnStack(e) <=> \E t \in Tasks : e \in Awaited(t)
      BY DEF OnStack, Awaited, Slots
    <3>2. Live(e) => uv[e] # "idle" \/ OnStack(e)
      <4>1. Live(e) => env[e] \in Fields
        BY <1>1 DEF IInv, TypeOK, Live
      <4>2. \A E \in Fields : E.refs # 0
        BY DEF Fields
      <4>3. QED
        BY <1>1, <4>1, <4>2 DEF IInv, Counted
    <3>3. QED
      BY <1>1, <3>1, <3>2 DEF IInv, Counted
  <2>2. ASSUME NEW t \in Tasks
        PROVE  t \in gone <=>
                 phase[t] = "dead" /\ \A e \in Envs : Live(e) => env[e].owner # t
    <3>1. t \in gone <=> phase[t] = "dead" /\ Owned(t) = {}
      BY <1>1 DEF IInv, TasksCounted
    <3>2. Owned(t) = {} <=> \A e \in Envs : Live(e) => env[e].owner # t
      BY DEF Owned
    <3>3. QED
      BY <3>1, <3>2
  <2>3. QED
    BY <2>1, <2>2 DEF LiveWhileKnown
<1>2. QED
  BY <1>1, IOInvariance, PTL

(* A task that awaits, however deep, is pinned to the worker all of its    *)
(* operations began on, and runs on no other.                              *)
THEOREM WaitersStayHome == Spec => []AwaitsAtHome
<1>1. ASSUME IInv PROVE AwaitsAtHome
  <2> SUFFICES ASSUME NEW t \in Tasks, frames[t] # << >>
               PROVE  pin[t] = at[t] /\ \A e \in Awaited(t) : env[e].loop = at[t]
    BY DEF AwaitsAtHome
  <2>1. pin[t] = at[t]
    BY <1>1 DEF IInv, PinnedOnce
  <2>2. ASSUME NEW e \in Awaited(t) PROVE env[e].loop = at[t]
    <3>1. PICK i \in Slots(t) : e = frames[t][i].env
      BY DEF Awaited, Slots
    <3>2. QED
      BY <1>1, <3>1 DEF IInv, AwaitedByOwner
  <2>3. QED
    BY <2>1, <2>2
<1>2. QED
  BY <1>1, IOInvariance, PTL
==============================================================================
