------------------------- MODULE FiberConditionProofs -------------------------
(***************************************************************************)
(* Proofs about FiberCondition, for any finite set of tasks and any        *)
(* bounds: the queue is where the tickets say, whoever comes back from     *)
(* await was signalled, and nobody sleeps on a signal he was given.        *)
(***************************************************************************)
EXTENDS FiberCondition, TLAPS

(* A task at await's last lock has seen its ticket come up.                *)
WokenWasSignalled == \A t \in Tasks : pc[t] = "woken" => released >= ticket[t]

(* Without WokenWasSignalled, Return could drop a task that still waits,   *)
(* and the queue would hold one the tickets do not lead to.                *)
IInv == TypeOK /\ WokenWasSignalled /\ TicketsMatch /\ NoSleepingWinner

LEMMA InitInvariant ==
  ASSUME Init
  PROVE  IInv
<1>1. TypeOK
  BY ConditionAssumption DEF Init, TypeOK, Point
<1>2. TicketsMatch
  BY DEF Init, TicketsMatch, Waits, InAwait
<1>3. WokenWasSignalled /\ NoSleepingWinner
  BY DEF Init, WokenWasSignalled, NoSleepingWinner
<1>4. QED
  BY <1>1, <1>2, <1>3 DEF IInv

-----------------------------------------------------------------------------
(* A step that keeps who waits and where the queue stands keeps the match  *)
(* of tickets and slots.                                                   *)
LEMMA SameWaiters ==
  ASSUME TypeOK, TicketsMatch, UNCHANGED condVars,
         \A t \in Tasks : Waits(t)' <=> Waits(t),
         \A t \in Tasks : Waits(t) => ticket'[t] = ticket[t]
  PROVE  TicketsMatch'
<1>0. released' = released /\ nextTicket' = nextTicket /\ queue' = queue
  BY DEF condVars
<1>1. released' + Len(queue') + 1 = nextTicket'
  BY <1>0 DEF TicketsMatch
<1>2. ASSUME NEW t \in Tasks, Waits(t)'
      PROVE  ticket'[t] - released' \in 1 .. Len(queue')
               /\ queue'[ticket'[t] - released'] = t
  <2>1. Waits(t) /\ ticket'[t] = ticket[t]
    BY <1>2
  <2>2. QED
    BY <1>0, <2>1 DEF TicketsMatch
<1>3. ASSUME NEW i \in 1 .. Len(queue'), queue'[i] # NoTask
      PROVE  Waits(queue[i])' /\ ticket'[queue'[i]] = released' + i
  <2>1. PICK t \in Tasks : t = queue[i]
    BY <1>0, <1>3 DEF TypeOK
  <2>2. Waits(t) /\ ticket[t] = released + i
    BY <1>0, <1>3, <2>1 DEF TicketsMatch
  <2>3. Waits(t)' /\ queue'[i] = t /\ ticket'[t] = released' + i
    BY <1>0, <2>1, <2>2
  <2>4. QED
    BY <2>3 DEF Waits
<1>4. QED
  BY <1>1, <1>2, <1>3 DEF TicketsMatch

(* A step that signals nobody leaves nobody asleep: those about to resume  *)
(* a waiter stay so or give the permit, and permits are taken back only    *)
(* from tasks that are awake.                                              *)
LEMMA AwakeStep ==
  ASSUME NoSleepingWinner,
         \A u \in Tasks : pc'[u] \in {"parking", "parked"} /\ Signalled(u)' =>
           /\ Signalled(u) /\ pc[u] \in {"parking", "parked"}
           /\ permit[u] => permit'[u],
         \A v \in Tasks : pc[v] = "waking" =>
           \/ pc'[v] = "waking" /\ wakee'[v] = wakee[v]
           \/ wakee[v] \in Tasks => permit'[wakee[v]]
  PROVE  NoSleepingWinner'
<1> SUFFICES ASSUME NEW u \in Tasks, Signalled(u)', pc'[u] \in {"parking", "parked"}
             PROVE  permit'[u] \/ \E v \in Tasks : pc'[v] = "waking" /\ wakee'[v] = u
  BY DEF NoSleepingWinner
<1>1. Signalled(u) /\ pc[u] \in {"parking", "parked"} /\ (permit[u] => permit'[u])
  OBVIOUS
<1>2. permit[u] \/ \E v \in Tasks : pc[v] = "waking" /\ wakee[v] = u
  BY <1>1 DEF NoSleepingWinner
<1>3. QED
  BY <1>1, <1>2

(* One call moves on inside await or outside of it.                        *)
LEMMA CallStep ==
  ASSUME IInv, NEW t \in Tasks, NEW point \in Point,
         UNCHANGED <<condVars, ticket>>, Goto(t, point),
         pc[t] \in InAwait <=> point \in InAwait,
         point = "woken" => released >= ticket[t]
  PROVE  /\ WokenWasSignalled'
         /\ TicketsMatch'
         /\ \A u \in Tasks : Signalled(u)' <=> Signalled(u)
         /\ \A u \in Tasks : pc'[u] = IF u = t THEN point ELSE pc[u]
         /\ pc' \in [Tasks -> Point]
<1>1. /\ \A u \in Tasks : pc'[u] = IF u = t THEN point ELSE pc[u]
      /\ pc' \in [Tasks -> Point]
  BY DEF Goto, IInv, TypeOK
<1>2. released' = released /\ ticket' = ticket
  BY DEF condVars
<1>3. \A u \in Tasks : pc'[u] \in InAwait <=> pc[u] \in InAwait
  BY <1>1
<1>4. \A u \in Tasks : (Waits(u)' <=> Waits(u)) /\ (Signalled(u)' <=> Signalled(u))
  BY <1>2, <1>3 DEF Waits, Signalled
<1>5. TicketsMatch'
  BY <1>2, <1>4, SameWaiters DEF IInv
<1>6. WokenWasSignalled'
  BY <1>1, <1>2 DEF IInv, WokenWasSignalled
<1>7. QED
  BY <1>1, <1>4, <1>5, <1>6

-----------------------------------------------------------------------------
(* The way into the queue.                                                 *)
LEMMA AwaitStep ==
  ASSUME IInv, NEW t \in Tasks, Await(t)
  PROVE  IInv'
<1> DEFINE n == Len(queue)
<1>1. queue \in Seq(Tasks \union {NoTask}) /\ n \in Nat
  BY DEF IInv, TypeOK
<1>2. /\ queue' \in Seq(Tasks \union {NoTask})
      /\ Len(queue') = n + 1
      /\ queue'[n + 1] = t
      /\ \A i \in 1 .. n : queue'[i] = queue[i]
  BY <1>1 DEF Await
<1>3. /\ pc[t] = "idle" /\ released' = released /\ nextTicket' = nextTicket + 1
      /\ pc' = [pc EXCEPT ![t] = "test"]
      /\ ticket' = [ticket EXCEPT ![t] = nextTicket]
      /\ UNCHANGED <<wakee, all, phase, permit, mail, quit, credit>>
  BY DEF Await, Goto, taskVars
<1>4. released \in Nat /\ nextTicket \in Nat /\ nextTicket = released + n + 1
  BY DEF IInv, TypeOK, TicketsMatch
<1>5. pc'[t] = "test" /\ ticket'[t] = nextTicket
        /\ \A u \in Tasks \ {t} : pc'[u] = pc[u] /\ ticket'[u] = ticket[u]
  BY <1>3 DEF IInv, TypeOK
<1>6. TypeOK'
  <2>1. ticket' \in [Tasks -> 0 .. nextTicket' - 1]
    <3>1. \A u \in Tasks : ticket'[u] \in 0 .. nextTicket' - 1
      BY <1>3, <1>4, <1>5 DEF IInv, TypeOK
    <3>2. QED
      BY <1>3, <3>1 DEF IInv, TypeOK
  <2>2. pc' \in [Tasks -> Point] /\ nextTicket' \in Nat
    BY <1>3, <1>4 DEF IInv, TypeOK, Point
  <2>3. QED
    BY <1>2, <1>3, <2>1, <2>2 DEF IInv, TypeOK
<1>7. Waits(t)' /\ ~Waits(t)
  BY <1>3, <1>4, <1>5 DEF Waits, InAwait
<1>8. \A u \in Tasks \ {t} : (Waits(u)' <=> Waits(u)) /\ (Signalled(u)' <=> Signalled(u))
  BY <1>3, <1>5 DEF Waits, Signalled
<1>9. WokenWasSignalled'
  BY <1>3, <1>5 DEF IInv, WokenWasSignalled
<1>10. TicketsMatch'
  <2>1. released' + Len(queue') + 1 = nextTicket'
    BY <1>1, <1>2, <1>3, <1>4
  <2>2. ASSUME NEW u \in Tasks, Waits(u)'
        PROVE  ticket'[u] - released' \in 1 .. Len(queue')
                 /\ queue'[ticket'[u] - released'] = u
    <3>1. CASE u = t
      <4>1. ticket'[u] - released' = n + 1
        BY <1>1, <1>3, <1>4, <1>5, <3>1
      <4>2. QED
        BY <1>1, <1>2, <3>1, <4>1
    <3>2. CASE u # t
      <4>1. ticket[u] - released \in 1 .. n /\ queue[ticket[u] - released] = u
        BY <1>8, <2>2, <3>2 DEF IInv, TicketsMatch
      <4>2. QED
        BY <1>1, <1>2, <1>3, <1>5, <3>2, <4>1
    <3>3. QED
      BY <3>1, <3>2
  <2>3. ASSUME NEW i \in 1 .. Len(queue'), queue'[i] # NoTask
        PROVE  Waits(queue[i])' /\ ticket'[queue'[i]] = released' + i
    <3>1. CASE i = n + 1
      <4>1. queue'[i] = t
        BY <1>2, <3>1
      <4>2. ticket'[t] = released' + i /\ Waits(t)'
        BY <1>1, <1>3, <1>4, <1>5, <1>7, <3>1
      <4>3. QED
        BY <4>1, <4>2 DEF Waits
    <3>2. CASE i # n + 1
      <4>1. i \in 1 .. n /\ queue'[i] = queue[i]
        BY <1>1, <1>2, <3>2
      <4>2. Waits(queue[i]) /\ ticket[queue[i]] = released + i
        BY <2>3, <4>1 DEF IInv, TicketsMatch
      <4>3. queue[i] \in Tasks \ {t}
        BY <1>1, <1>7, <2>3, <4>1, <4>2
      <4>4. QED
        BY <1>3, <1>5, <1>8, <4>1, <4>2, <4>3
    <3>3. QED
      BY <3>1, <3>2
  <2>4. QED
    BY <2>1, <2>2, <2>3 DEF TicketsMatch
<1>11. NoSleepingWinner'
  <2>1. ASSUME NEW u \in Tasks, pc'[u] \in {"parking", "parked"}, Signalled(u)'
        PROVE  /\ Signalled(u) /\ pc[u] \in {"parking", "parked"}
               /\ permit[u] => permit'[u]
    BY <1>3, <1>5, <1>8, <2>1
  <2>2. ASSUME NEW v \in Tasks, pc[v] = "waking"
        PROVE  pc'[v] = "waking" /\ wakee'[v] = wakee[v]
    BY <1>3, <1>5, <2>2
  <2>3. QED
    BY <2>1, <2>2, AwakeStep DEF IInv
<1>12. QED
  BY <1>6, <1>9, <1>10, <1>11 DEF IInv

(* A waiter leaves: its slot is the one its ticket points at.              *)
LEMMA LeaveStep ==
  ASSUME IInv, NEW t \in Tasks, pc[t] = "failed", released < ticket[t],
         queue' = [queue EXCEPT ![ticket[t] - released] = NoTask],
         ticket' = [ticket EXCEPT ![t] = 0],
         Goto(t, "idle"),
         UNCHANGED <<released, nextTicket, wakee, all, taskVars, credit>>
  PROVE  IInv'
<1>1. PICK k \in 1 .. Len(queue) : k = ticket[t] - released /\ queue[k] = t
  BY DEF IInv, TicketsMatch, Waits, InAwait
<1>2. /\ queue' \in Seq(Tasks \union {NoTask})
      /\ Len(queue') = Len(queue)
      /\ \A i \in 1 .. Len(queue) : queue'[i] = IF i = k THEN NoTask ELSE queue[i]
  BY <1>1 DEF IInv, TypeOK
<1>3. /\ released' = released /\ nextTicket' = nextTicket
      /\ pc' = [pc EXCEPT ![t] = "idle"]
      /\ UNCHANGED <<wakee, all, phase, permit, mail, quit, credit>>
  BY DEF Goto, taskVars
<1>4. pc'[t] = "idle"
        /\ \A u \in Tasks \ {t} : pc'[u] = pc[u] /\ ticket'[u] = ticket[u]
  BY <1>3 DEF IInv, TypeOK
<1>5. ~Waits(t)' /\ ~Signalled(t)'
  BY <1>4 DEF Waits, Signalled, InAwait
<1>6. \A u \in Tasks \ {t} : (Waits(u)' <=> Waits(u)) /\ (Signalled(u)' <=> Signalled(u))
  BY <1>3, <1>4 DEF Waits, Signalled
<1>7. TypeOK'
  <2>1. ticket' \in [Tasks -> 0 .. nextTicket - 1]
    BY DEF IInv, TypeOK
  <2>2. QED
    BY <1>2, <1>3, <2>1 DEF IInv, TypeOK, Point
<1>8. WokenWasSignalled'
  BY <1>3, <1>4 DEF IInv, WokenWasSignalled
<1>9. TicketsMatch'
  <2>1. released' + Len(queue') + 1 = nextTicket'
    BY <1>2, <1>3 DEF IInv, TicketsMatch
  <2>2. ASSUME NEW u \in Tasks, Waits(u)'
        PROVE  ticket'[u] - released' \in 1 .. Len(queue')
                 /\ queue'[ticket'[u] - released'] = u
    <3>1. u # t
      BY <1>5, <2>2
    <3>2. ticket[u] - released \in 1 .. Len(queue) /\ queue[ticket[u] - released] = u
      BY <1>6, <2>2, <3>1 DEF IInv, TicketsMatch
    <3>3. ticket[u] - released # k
      BY <1>1, <3>1, <3>2
    <3>4. QED
      BY <1>2, <1>3, <1>4, <3>1, <3>2, <3>3
  <2>3. ASSUME NEW i \in 1 .. Len(queue'), queue'[i] # NoTask
        PROVE  Waits(queue[i])' /\ ticket'[queue'[i]] = released' + i
    <3>1. i \in 1 .. Len(queue) /\ i # k /\ queue'[i] = queue[i]
      BY <1>2, <2>3
    <3>2. PICK u \in Tasks : u = queue[i]
      BY <2>3, <3>1 DEF IInv, TypeOK
    <3>3. Waits(u) /\ ticket[u] = released + i
      BY <2>3, <3>1, <3>2 DEF IInv, TicketsMatch
    <3>4. u # t
      BY <1>1, <3>1, <3>3 DEF IInv, TypeOK
    <3>5. Waits(u)' /\ u = queue'[i] /\ ticket'[u] = released' + i
      BY <1>3, <1>4, <1>6, <3>1, <3>2, <3>3, <3>4
    <3>6. QED
      BY <3>5 DEF Waits
  <2>4. QED
    BY <2>1, <2>2, <2>3 DEF TicketsMatch
<1>10. NoSleepingWinner'
  <2>1. \A v \in Tasks : pc[v] = "waking" => pc'[v] = "waking" /\ wakee'[v] = wakee[v]
    BY <1>3, <1>4
  <2>2. \A u \in Tasks \ {t} : Signalled(u)' => Signalled(u)
    BY <1>6
  <2>3. QED
    BY <1>3, <1>4, <1>5, <2>1, <2>2, AwakeStep DEF IInv
<1>11. QED
  BY <1>7, <1>8, <1>9, <1>10 DEF IInv

(* The signaller does not wait itself; whoever it finds first is the only  *)
(* one whose ticket comes up, for all the slots before it are empty.       *)
LEMMA PopRoles ==
  ASSUME IInv, NEW t \in Tasks, ~Waits(t),
         NEW k \in 1 .. Len(queue), queue[k] # NoTask,
         \A i \in 1 .. k - 1 : queue[i] = NoTask,
         released' = released + k,
         Goto(t, "waking"),
         ticket' = ticket \/ ticket' = [ticket EXCEPT ![t] = 0]
  PROVE  /\ queue[k] \in Tasks \ {t}
         /\ \A u \in Tasks : Waits(u)' <=> Waits(u) /\ u # queue[k]
         /\ \A u \in Tasks :
              Signalled(u)' <=> u # t /\ (Signalled(u) \/ u = queue[k])
<1>1. PICK h \in Tasks : h = queue[k]
  BY DEF IInv, TypeOK
<1>2. Waits(h) /\ ticket[h] = released + k /\ h # t
  BY <1>1 DEF IInv, TicketsMatch
<1>3. PICK n \in Nat : n = Len(queue)
  BY DEF IInv, TypeOK
<1>4. k \in 1 .. n /\ released \in Nat /\ \A u \in Tasks : ticket[u] \in Int
  BY <1>3 DEF IInv, TypeOK
<1>7. pc'[t] = "waking"
        /\ \A u \in Tasks \ {t} : pc'[u] = pc[u] /\ ticket'[u] = ticket[u]
  BY DEF Goto, IInv, TypeOK
<1>8. ~Waits(t)' /\ ~Signalled(t)'
  BY <1>7 DEF Waits, Signalled, InAwait
<1>9. ASSUME NEW u \in Tasks, u # t
      PROVE  /\ Waits(u)' <=> Waits(u) /\ u # h
             /\ Signalled(u)' <=> Signalled(u) \/ u = h
  <2>1. pc'[u] = pc[u] /\ ticket'[u] = ticket[u] /\ ticket[u] \in Int
    BY <1>4, <1>7, <1>9
  <2>2. CASE Waits(u)
    <3>1. ticket[u] - released \in 1 .. n /\ queue[ticket[u] - released] = u
      BY <1>3, <2>2 DEF IInv, TicketsMatch
    <3>2. ~(ticket[u] - released \in 1 .. k - 1)
      BY <3>1, ConditionAssumption
    <3>3. ticket[u] - released >= k
      BY <2>1, <1>4, <3>1, <3>2
    <3>4. (ticket[u] - released = k) <=> u = h
      <4>1. ticket[h] - released = k
        BY <1>2, <1>4
      <4>2. QED
        BY <1>1, <3>1, <4>1
    <3>5. pc[u] \in InAwait /\ ~Signalled(u)
      BY <1>4, <2>1, <2>2 DEF Waits, Signalled
    <3>6. (released' >= ticket'[u]) <=> u = h
      BY <1>4, <2>1, <3>3, <3>4
    <3>7. (released' < ticket'[u]) <=> u # h
      BY <1>4, <2>1, <3>3, <3>4
    <3>8. QED
      BY <2>1, <2>2, <3>5, <3>6, <3>7 DEF Waits, Signalled
  <2>3. CASE ~Waits(u)
    <3>1. u # h
      BY <1>2, <2>3
    <3>2. CASE pc[u] \notin InAwait
      BY <2>1, <2>3, <3>1, <3>2 DEF Waits, Signalled
    <3>3. CASE pc[u] \in InAwait
      <4>1. released >= ticket[u] /\ released' >= ticket'[u] /\ ~(released' < ticket'[u])
        BY <1>4, <2>1, <2>3, <3>3 DEF Waits
      <4>2. QED
        BY <2>1, <2>3, <3>1, <3>3, <4>1 DEF Waits, Signalled
    <3>4. QED
      BY <3>2, <3>3
  <2>4. QED
    BY <2>2, <2>3
<1>10. QED
  BY <1>1, <1>2, <1>8, <1>9

LEMMA PopStep ==
  ASSUME IInv, NEW t \in Tasks, ~Waits(t), pc[t] \in {"idle", "looping", "failed"},
         NEW k \in 1 .. Len(queue), queue[k] # NoTask,
         \A i \in 1 .. k - 1 : queue[i] = NoTask,
         released' = released + k,
         queue' = SubSeq(queue, k + 1, Len(queue)),
         wakee' = [wakee EXCEPT ![t] = queue[k]],
         Goto(t, "waking"),
         ticket' = ticket \/ ticket' = [ticket EXCEPT ![t] = 0],
         all' \in [Tasks -> BOOLEAN],
         UNCHANGED <<nextTicket, taskVars, credit>>
  PROVE  IInv'
<1>1. PICK h \in Tasks : h = queue[k]
  BY DEF IInv, TypeOK
<1>2. Waits(h) /\ ticket[h] = released + k /\ h # t
  BY <1>1 DEF IInv, TicketsMatch
<1>3. PICK n \in Nat : n = Len(queue)
  BY DEF IInv, TypeOK
<1>4. k \in 1 .. n /\ released \in Nat /\ \A u \in Tasks : ticket[u] \in Int
  BY <1>3 DEF IInv, TypeOK
<1>5. /\ queue' \in Seq(Tasks \union {NoTask})
      /\ Len(queue') = n - k
      /\ \A i \in 1 .. n - k : queue'[i] = queue[k + i]
  <2>1. queue \in Seq(Tasks \union {NoTask})
    BY DEF IInv, TypeOK
  <2>2. k + 1 \in 1 .. n + 1 /\ n - (k + 1) + 1 = n - k
          /\ \A i \in Int : (k + 1) + i - 1 = k + i
    BY <1>4
  <2>3. SubSeq(queue, k + 1, n) \in Seq(Tasks \union {NoTask})
          /\ Len(SubSeq(queue, k + 1, n)) = n - k
    BY <1>3, <1>4, <2>1, <2>2
  <2>4. \A i \in 1 .. n - k : SubSeq(queue, k + 1, n)[i] = queue[k + i]
    BY <1>3, <1>4, <2>1, <2>2
  <2>5. QED
    BY <1>3, <2>3, <2>4
<1>6. /\ nextTicket' = nextTicket /\ pc' = [pc EXCEPT ![t] = "waking"]
      /\ UNCHANGED <<phase, permit, mail, quit, credit>>
  BY DEF Goto, taskVars
<1>7. pc'[t] = "waking"
        /\ \A u \in Tasks \ {t} : pc'[u] = pc[u] /\ ticket'[u] = ticket[u]
  BY <1>6 DEF IInv, TypeOK
<1>8. ~Waits(t)' /\ ~Signalled(t)'
  BY <1>7 DEF Waits, Signalled, InAwait
<1>9. ASSUME NEW u \in Tasks, u # t
      PROVE  /\ Waits(u)' <=> Waits(u) /\ u # h
             /\ Signalled(u)' <=> Signalled(u) \/ u = h
  BY <1>1, <1>9, PopRoles
<1>10. TypeOK'
  <2>1. wakee' \in [Tasks -> Tasks \union {NoTask}] /\ pc' \in [Tasks -> Point]
    BY <1>1, <1>6 DEF IInv, TypeOK, Point
  <2>2. released' \in Nat
    BY <1>4
  <2>3. ticket' \in [Tasks -> 0 .. nextTicket' - 1]
    <3>1. nextTicket \in Nat /\ nextTicket >= 1
      BY <1>3, <1>4 DEF IInv, TypeOK, TicketsMatch
    <3>2. 0 \in 0 .. nextTicket - 1 /\ ticket \in [Tasks -> 0 .. nextTicket - 1]
      BY <3>1 DEF IInv, TypeOK
    <3>3. ticket' \in [Tasks -> 0 .. nextTicket - 1]
      BY <3>2
    <3>4. QED
      BY <1>6, <3>3
  <2>4. QED
    BY <1>5, <1>6, <2>1, <2>2, <2>3 DEF IInv, TypeOK
<1>11. WokenWasSignalled'
  <2> SUFFICES ASSUME NEW u \in Tasks, pc'[u] = "woken"
               PROVE  released' >= ticket'[u]
    BY DEF WokenWasSignalled
  <2>1. u # t /\ pc[u] = "woken"
    BY <1>7
  <2>2. released >= ticket[u] /\ ticket'[u] = ticket[u]
    BY <1>7, <2>1 DEF IInv, WokenWasSignalled
  <2>3. QED
    BY <1>4, <2>2
<1>12. TicketsMatch'
  <2>1. released' + Len(queue') + 1 = nextTicket'
    <3>1. released + n + 1 = nextTicket
      BY <1>3 DEF IInv, TicketsMatch
    <3>2. QED
      BY <1>4, <1>5, <1>6, <3>1
  <2>2. ASSUME NEW u \in Tasks, Waits(u)'
        PROVE  ticket'[u] - released' \in 1 .. Len(queue')
                 /\ queue'[ticket'[u] - released'] = u
    <3>1. u # t
      BY <1>8, <2>2
    <3>2. Waits(u) /\ ticket'[u] = ticket[u] /\ released' < ticket[u]
      BY <1>7, <1>9, <2>2, <3>1 DEF Waits
    <3>3. PICK j \in 1 .. n : j = ticket[u] - released /\ queue[j] = u
      BY <1>3, <3>2 DEF IInv, TicketsMatch
    <3>4. PICK i \in 1 .. n - k : ticket'[u] - released' = i /\ k + i = j
      <4>1. ticket[u] \in Int /\ released' = released + k /\ ticket'[u] = ticket[u]
        BY <1>4, <3>2
      <4>2. j - k \in 1 .. n - k /\ k + (j - k) = j
        BY <1>4, <3>2, <3>3, <4>1
      <4>3. ticket'[u] - released' = j - k
        BY <1>4, <3>3, <4>1
      <4>4. QED
        BY <4>2, <4>3
    <3>5. queue'[i] = u /\ i \in 1 .. Len(queue')
      BY <1>5, <3>3, <3>4
    <3>6. QED
      BY <3>4, <3>5
  <2>3. ASSUME NEW i \in 1 .. Len(queue'), queue'[i] # NoTask
        PROVE  Waits(queue[i])' /\ ticket'[queue'[i]] = released' + i
    <3>1. k + i \in 1 .. n /\ i \in Nat \ {0} /\ queue'[i] = queue[k + i]
      <4>1. i \in 1 .. n - k
        BY <1>5, <2>3
      <4>2. k + i \in 1 .. n /\ i \in Nat \ {0}
        BY <1>3, <1>4, <4>1
      <4>3. QED
        BY <1>5, <4>1, <4>2
    <3>2. PICK u \in Tasks : u = queue[k + i]
      BY <1>3, <2>3, <3>1 DEF IInv, TypeOK
    <3>3. Waits(u) /\ ticket[u] = released + (k + i) /\ u # t
      BY <1>3, <2>3, <3>1, <3>2 DEF IInv, TicketsMatch
    <3>4. u # h
      BY <1>2, <1>4, <3>1, <3>3
    <3>5. Waits(u)' /\ u = queue'[i]
      BY <1>9, <3>1, <3>2, <3>3, <3>4
    <3>6. ticket'[u] = released' + i
      BY <1>4, <1>7, <3>1, <3>3
    <3>7. QED
      BY <3>5, <3>6 DEF Waits
  <2>4. QED
    BY <2>1, <2>2, <2>3 DEF TicketsMatch
<1>13. NoSleepingWinner'
  <2> SUFFICES ASSUME NEW u \in Tasks, Signalled(u)', pc'[u] \in {"parking", "parked"}
               PROVE  permit'[u] \/ \E v \in Tasks : pc'[v] = "waking" /\ wakee'[v] = u
    BY DEF NoSleepingWinner
  <2>1. u # t /\ wakee'[t] = h /\ \A v \in Tasks \ {t} : wakee'[v] = wakee[v]
    BY <1>1, <1>8 DEF IInv, TypeOK
  <2>2. CASE u = h
    BY <1>7, <2>1, <2>2
  <2>3. CASE u # h
    <3>1. Signalled(u) /\ pc[u] \in {"parking", "parked"}
      BY <1>7, <1>9, <2>1, <2>3
    <3>2. permit[u] \/ \E v \in Tasks : pc[v] = "waking" /\ wakee[v] = u
      BY <3>1 DEF IInv, NoSleepingWinner
    <3>3. QED
      BY <1>6, <1>7, <2>1, <3>2
  <2>4. QED
    BY <2>2, <2>3
<1>14. QED
  BY <1>10, <1>11, <1>12, <1>13 DEF IInv

(* The signal meets nobody.                                                *)
LEMMA NobodyRoles ==
  ASSUME IInv, NEW t \in Tasks,
         \A i \in 1 .. Len(queue) : queue[i] = NoTask,
         released' = released + Len(queue),
         Goto(t, "idle"),
         ticket' = ticket \/ ticket' = [ticket EXCEPT ![t] = 0]
  PROVE  \A u \in Tasks : /\ ~Waits(u) /\ ~Waits(u)'
                          /\ Signalled(u)' <=> Signalled(u) /\ u # t
<1>1. released \in Nat /\ Len(queue) \in Nat /\ \A u \in Tasks : ticket[u] \in Int
  BY DEF IInv, TypeOK
<1>2. pc'[t] = "idle"
        /\ \A u \in Tasks \ {t} : pc'[u] = pc[u] /\ ticket'[u] = ticket[u]
  BY DEF Goto, IInv, TypeOK
<1>3. \A u \in Tasks : ~Waits(u)
  BY ConditionAssumption DEF IInv, TicketsMatch
<1>4. ASSUME NEW u \in Tasks PROVE ~Waits(u)' /\ (Signalled(u)' <=> Signalled(u) /\ u # t)
  <2>1. CASE u = t
    BY <1>2, <2>1 DEF Waits, Signalled, InAwait
  <2>2. CASE u # t
    <3>1. CASE pc[u] \notin InAwait
      BY <1>2, <2>2, <3>1 DEF Waits, Signalled
    <3>2. CASE pc[u] \in InAwait
      <4>1. released >= ticket[u] /\ ~(released' < ticket'[u]) /\ released' >= ticket'[u]
        BY <1>1, <1>2, <1>3, <2>2, <3>2 DEF Waits
      <4>2. QED
        BY <1>2, <2>2, <3>2, <4>1 DEF Waits, Signalled
    <3>3. QED
      BY <3>1, <3>2
  <2>3. QED
    BY <2>1, <2>2
<1>5. QED
  BY <1>3, <1>4

LEMMA NobodyStep ==
  ASSUME IInv, NEW t \in Tasks, pc[t] \in {"idle", "looping", "failed"},
         \A i \in 1 .. Len(queue) : queue[i] = NoTask,
         released' = released + Len(queue),
         queue' = << >>,
         Goto(t, "idle"),
         ticket' = ticket \/ ticket' = [ticket EXCEPT ![t] = 0],
         all' \in [Tasks -> BOOLEAN],
         UNCHANGED <<nextTicket, wakee, taskVars, credit>>
  PROVE  IInv'
<1>1. released \in Nat /\ Len(queue) \in Nat /\ \A u \in Tasks : ticket[u] \in Int
  BY DEF IInv, TypeOK
<1>2. /\ nextTicket' = nextTicket /\ pc' = [pc EXCEPT ![t] = "idle"]
      /\ UNCHANGED <<wakee, phase, permit, mail, quit, credit>>
  BY DEF Goto, taskVars
<1>3. pc'[t] = "idle"
        /\ \A u \in Tasks \ {t} : pc'[u] = pc[u] /\ ticket'[u] = ticket[u]
  BY <1>2 DEF IInv, TypeOK
<1>5. \A u \in Tasks : ~Waits(u)' /\ (Signalled(u)' => Signalled(u) /\ u # t)
  BY NobodyRoles
<1>6. nextTicket = released + Len(queue) + 1
  BY DEF IInv, TicketsMatch, TypeOK
<1>7. TypeOK'
  <2>1. released' \in Nat /\ queue' \in Seq(Tasks \union {NoTask})
    BY <1>1
  <2>2. ticket' \in [Tasks -> 0 .. nextTicket' - 1]
    BY <1>1, <1>2, <1>6 DEF IInv, TypeOK
  <2>3. QED
    BY <1>2, <2>1, <2>2 DEF IInv, TypeOK, Point
<1>8. WokenWasSignalled'
  <2> SUFFICES ASSUME NEW u \in Tasks, pc'[u] = "woken"
               PROVE  released' >= ticket'[u]
    BY DEF WokenWasSignalled
  <2>1. released >= ticket[u] /\ ticket'[u] = ticket[u]
    BY <1>3 DEF IInv, WokenWasSignalled
  <2>2. QED
    BY <1>1, <2>1
<1>9. TicketsMatch'
  <2>1. Len(queue') = 0
    OBVIOUS
  <2>2. released' + Len(queue') + 1 = nextTicket'
    BY <1>1, <1>2, <1>6, <2>1
  <2>3. QED
    BY <1>5, <2>1, <2>2 DEF TicketsMatch
<1>10. NoSleepingWinner'
  <2>1. \A v \in Tasks : pc[v] = "waking" => pc'[v] = "waking" /\ wakee'[v] = wakee[v]
    BY <1>2, <1>3
  <2>2. QED
    BY <1>2, <1>3, <1>5, <2>1, AwakeStep DEF IInv
<1>11. QED
  BY <1>7, <1>8, <1>9, <1>10 DEF IInv

LEMMA SignalStep ==
  ASSUME IInv, NEW t \in Tasks, ~Waits(t), pc[t] \in {"idle", "looping", "failed"},
         SignalOne(t),
         ticket' = ticket \/ ticket' = [ticket EXCEPT ![t] = 0],
         all' \in [Tasks -> BOOLEAN],
         UNCHANGED <<nextTicket, taskVars, credit>>
  PROVE  IInv'
<1>1. CASE \E k \in 1 .. Len(queue) :
             /\ queue[k] # NoTask
             /\ \A i \in 1 .. k - 1 : queue[i] = NoTask
             /\ released' = released + k
             /\ queue' = SubSeq(queue, k + 1, Len(queue))
             /\ wakee' = [wakee EXCEPT ![t] = queue[k]]
             /\ Goto(t, "waking")
  BY <1>1, PopStep
<1>2. CASE /\ \A i \in 1 .. Len(queue) : queue[i] = NoTask
           /\ released' = released + Len(queue)
           /\ queue' = << >>
           /\ Goto(t, "idle")
           /\ UNCHANGED wakee
  BY <1>2, NobodyStep
<1>3. QED
  BY <1>1, <1>2 DEF SignalOne

-----------------------------------------------------------------------------
LEMMA TestStep ==
  ASSUME IInv, NEW t \in Tasks, Test(t)
  PROVE  IInv'
<1>1. PICK point \in Point :
        /\ Goto(t, point)
        /\ point = IF released >= ticket[t] THEN "woken"
                   ELSE IF pc[t] = "test" THEN "processing" ELSE "parking"
  BY DEF Test, Point
<1>2. /\ WokenWasSignalled' /\ TicketsMatch'
      /\ \A u \in Tasks : Signalled(u)' <=> Signalled(u)
      /\ \A u \in Tasks : pc'[u] = IF u = t THEN point ELSE pc[u]
      /\ pc' \in [Tasks -> Point]
  <2>1. pc[t] \in InAwait /\ UNCHANGED <<condVars, ticket>>
    BY DEF Test, InAwait
  <2>2. point \in InAwait /\ (point = "woken" => released >= ticket[t])
    BY <1>1 DEF InAwait
  <2>3. QED
    BY <1>1, <2>1, <2>2, CallStep
<1>3. TypeOK'
  BY <1>2 DEF IInv, TypeOK, Test, condVars, taskVars
<1>4. NoSleepingWinner'
  <2>1. point = "parking" => ~Signalled(t)
    BY <1>1 DEF Signalled
  <2>2. pc[t] # "waking" /\ point # "parked"
    BY <1>1 DEF Test
  <2>3. wakee' = wakee /\ permit' = permit
    BY DEF Test, taskVars
  <2>4. QED
    BY <1>2, <2>1, <2>2, <2>3, AwakeStep DEF IInv
<1>5. QED
  BY <1>2, <1>3, <1>4 DEF IInv

LEMMA ProcessStep ==
  ASSUME IInv, NEW t \in Tasks, Process(t)
  PROVE  IInv'
<1>1. PICK point \in {"processing", "failed"} : Goto(t, point)
  <2>1. CASE pc' = pc
    <3>1. Goto(t, "processing")
      BY <2>1 DEF Process, Goto, IInv, TypeOK
    <3>2. QED
      BY <3>1
  <2>2. CASE pc' = [pc EXCEPT ![t] = "failed"]
    BY <2>2 DEF Goto
  <2>3. QED
    BY <2>1, <2>2 DEF Process
<1>2. pc[t] = "processing" /\ UNCHANGED <<condVars, ticket>>
  BY DEF Process
<1>3. /\ WokenWasSignalled' /\ TicketsMatch'
      /\ \A u \in Tasks : Signalled(u)' <=> Signalled(u)
      /\ \A u \in Tasks : pc'[u] = IF u = t THEN point ELSE pc[u]
      /\ pc' \in [Tasks -> Point]
  <2>1. point \in Point /\ point \in InAwait /\ pc[t] \in InAwait /\ point # "woken"
    BY <1>2 DEF Point, InAwait
  <2>2. QED
    BY <1>1, <1>2, <2>1, CallStep
<1>4. TypeOK'
  <2>1. mail' \in [Tasks -> Nat]
    BY DEF IInv, TypeOK, Process, Park!Take
  <2>2. QED
    BY <1>2, <1>3, <2>1 DEF IInv, TypeOK, Process, Park!Take, condVars
<1>5. NoSleepingWinner'
  <2>1. wakee' = wakee /\ permit' = permit
    BY DEF Process, Park!Take
  <2>2. QED
    BY <1>1, <1>2, <1>3, <2>1, AwakeStep DEF IInv
<1>6. QED
  BY <1>3, <1>4, <1>5 DEF IInv

LEMMA DrainStep ==
  ASSUME IInv, NEW t \in Tasks, Drain(t)
  PROVE  IInv'
<1>1. pc[t] = "processing" /\ Goto(t, "retest") /\ UNCHANGED <<condVars, ticket, wakee, all>>
  BY DEF Drain
<1>2. /\ WokenWasSignalled' /\ TicketsMatch'
      /\ \A u \in Tasks : Signalled(u)' <=> Signalled(u)
      /\ \A u \in Tasks : pc'[u] = IF u = t THEN "retest" ELSE pc[u]
      /\ pc' \in [Tasks -> Point]
  <2>1. "retest" \in Point /\ "retest" \in InAwait /\ pc[t] \in InAwait
    BY <1>1 DEF Point, InAwait
  <2>2. QED
    BY <1>1, <2>1, CallStep
<1>3. permit' = [permit EXCEPT ![t] = FALSE]
  BY DEF Drain, Park!GiveBack
<1>4. TypeOK'
  BY <1>1, <1>2, <1>3 DEF IInv, TypeOK, Drain, Park!GiveBack, condVars
<1>5. NoSleepingWinner'
  <2>1. \A u \in Tasks \ {t} : permit'[u] = permit[u]
    BY <1>3 DEF IInv, TypeOK
  <2>2. QED
    BY <1>1, <1>2, <2>1, AwakeStep DEF IInv
<1>6. QED
  BY <1>2, <1>4, <1>5 DEF IInv

LEMMA SuspendStep ==
  ASSUME IInv, NEW t \in Tasks, Suspend(t)
  PROVE  IInv'
<1>1. pc[t] = "parking" /\ Goto(t, "parked") /\ UNCHANGED <<condVars, ticket, wakee, all>>
  BY DEF Suspend
<1>2. /\ WokenWasSignalled' /\ TicketsMatch'
      /\ \A u \in Tasks : Signalled(u)' <=> Signalled(u)
      /\ \A u \in Tasks : pc'[u] = IF u = t THEN "parked" ELSE pc[u]
      /\ pc' \in [Tasks -> Point]
  <2>1. "parked" \in Point /\ "parked" \in InAwait /\ pc[t] \in InAwait
    BY <1>1 DEF Point, InAwait
  <2>2. QED
    BY <1>1, <2>1, CallStep
<1>3. TypeOK'
  BY <1>1, <1>2 DEF IInv, TypeOK, Suspend, Park!Sleep, condVars
<1>4. NoSleepingWinner'
  <2>1. permit' = permit
    BY DEF Suspend, Park!Sleep
  <2>2. QED
    BY <1>1, <1>2, <2>1, AwakeStep DEF IInv
<1>5. QED
  BY <1>2, <1>3, <1>4 DEF IInv

LEMMA ResumedStep ==
  ASSUME IInv, NEW t \in Tasks, Resumed(t)
  PROVE  IInv'
<1>1. pc[t] = "parked" /\ Goto(t, "test") /\ UNCHANGED <<condVars, ticket, wakee, all>>
  BY DEF Resumed
<1>2. /\ WokenWasSignalled' /\ TicketsMatch'
      /\ \A u \in Tasks : Signalled(u)' <=> Signalled(u)
      /\ \A u \in Tasks : pc'[u] = IF u = t THEN "test" ELSE pc[u]
      /\ pc' \in [Tasks -> Point]
  <2>1. "test" \in Point /\ "test" \in InAwait /\ pc[t] \in InAwait
    BY <1>1 DEF Point, InAwait
  <2>2. QED
    BY <1>1, <2>1, CallStep
<1>3. TypeOK'
  BY <1>1, <1>2 DEF IInv, TypeOK, Resumed, Park!Wake, condVars
<1>4. NoSleepingWinner'
  <2>1. permit' = permit
    BY DEF Resumed, Park!Wake
  <2>2. QED
    BY <1>1, <1>2, <2>1, AwakeStep DEF IInv
<1>5. QED
  BY <1>2, <1>3, <1>4 DEF IInv

(* The signaller's wakee holds a permit from now on.                       *)
LEMMA ResumeWakeeStep ==
  ASSUME IInv, NEW t \in Tasks, ResumeWakee(t)
  PROVE  IInv'
<1>1. PICK point \in {"looping", "idle"} : Goto(t, point)
  BY DEF ResumeWakee
<1>2. pc[t] = "waking" /\ UNCHANGED <<condVars, ticket, all>>
  BY DEF ResumeWakee
<1>3. /\ WokenWasSignalled' /\ TicketsMatch'
      /\ \A u \in Tasks : Signalled(u)' <=> Signalled(u)
      /\ \A u \in Tasks : pc'[u] = IF u = t THEN point ELSE pc[u]
      /\ pc' \in [Tasks -> Point]
  <2>1. point \in Point /\ point \notin InAwait /\ pc[t] \notin InAwait /\ point # "woken"
    BY <1>2 DEF Point, InAwait
  <2>2. QED
    BY <1>1, <1>2, <2>1, CallStep
<1>4. /\ permit' = [permit EXCEPT ![wakee[t]] = TRUE]
      /\ wakee' = [wakee EXCEPT ![t] = NoTask]
  BY DEF ResumeWakee, Park!Poke
<1>5. TypeOK'
  <2>1. permit' \in [Tasks -> BOOLEAN] /\ wakee' \in [Tasks -> Tasks \union {NoTask}]
    BY <1>4 DEF IInv, TypeOK
  <2>2. phase' \in [Tasks -> {"awake", "asleep"}]
    BY DEF IInv, TypeOK, ResumeWakee, Park!Poke
  <2>3. QED
    BY <1>2, <1>3, <2>1, <2>2 DEF IInv, TypeOK, ResumeWakee, Park!Poke, condVars
<1>6. NoSleepingWinner'
  <2>1. \A u \in Tasks : permit[u] => permit'[u]
    BY <1>4 DEF IInv, TypeOK
  <2>2. \A v \in Tasks \ {t} : wakee'[v] = wakee[v]
    BY <1>4 DEF IInv, TypeOK
  <2>3. wakee[t] \in Tasks => permit'[wakee[t]]
    BY <1>4 DEF IInv, TypeOK
  <2>4. QED
    BY <1>1, <1>2, <1>3, <2>1, <2>2, <2>3, AwakeStep DEF IInv
<1>7. QED
  BY <1>3, <1>5, <1>6 DEF IInv

(* A task that returns has left the queue, so that nothing of it is left.  *)
LEMMA ReturnStep ==
  ASSUME IInv, NEW t \in Tasks, Return(t)
  PROVE  IInv'
<1>1. /\ pc[t] = "woken"
      /\ ticket' = [ticket EXCEPT ![t] = 0] /\ pc' = [pc EXCEPT ![t] = "idle"]
      /\ released' = released /\ nextTicket' = nextTicket /\ queue' = queue
      /\ UNCHANGED <<wakee, all, phase, permit, mail, quit, credit>>
  BY DEF Return, Goto, condVars, taskVars
<1>2. pc'[t] = "idle"
        /\ \A u \in Tasks \ {t} : pc'[u] = pc[u] /\ ticket'[u] = ticket[u]
  BY <1>1 DEF IInv, TypeOK
<1>3. ~Waits(t) /\ ~Waits(t)' /\ ~Signalled(t)'
  <2>1. released >= ticket[t] /\ released \in Int /\ ticket[t] \in Int
    BY <1>1 DEF IInv, TypeOK, WokenWasSignalled
  <2>2. QED
    BY <1>2, <2>1 DEF Waits, Signalled, InAwait
<1>4. \A u \in Tasks \ {t} : (Waits(u)' <=> Waits(u)) /\ (Signalled(u)' <=> Signalled(u))
  BY <1>1, <1>2 DEF Waits, Signalled
<1>5. TypeOK'
  <2>1. ticket' \in [Tasks -> 0 .. nextTicket - 1]
    <3>1. 0 \in 0 .. nextTicket - 1
      BY DEF IInv, TypeOK
    <3>2. QED
      BY <1>1, <3>1 DEF IInv, TypeOK
  <2>2. QED
    BY <1>1, <2>1 DEF IInv, TypeOK, Point
<1>6. TicketsMatch'
  <2>1. \A u \in Tasks : Waits(u)' <=> Waits(u)
    BY <1>3, <1>4
  <2>2. \A u \in Tasks : Waits(u) => ticket'[u] = ticket[u]
    BY <1>2, <1>3
  <2>3. QED
    BY <1>1, <2>1, <2>2, SameWaiters DEF IInv, condVars
<1>7. WokenWasSignalled'
  BY <1>1, <1>2 DEF IInv, WokenWasSignalled
<1>8. NoSleepingWinner'
  BY <1>1, <1>2, <1>3, <1>4, AwakeStep DEF IInv
<1>9. QED
  BY <1>5, <1>6, <1>7, <1>8 DEF IInv

(* Steps of a task's own that leave the calls where they are.              *)
LEMMA StandStill ==
  ASSUME IInv, UNCHANGED <<condVars, callVars>>,
         phase' \in [Tasks -> {"awake", "asleep"}],
         permit' \in [Tasks -> BOOLEAN],
         mail' \in [Tasks -> Nat],
         quit' \in [Tasks -> BOOLEAN],
         credit' \in Nat,
         \A u \in Tasks : permit[u] => permit'[u]
  PROVE  IInv'
<1>1. /\ released' = released /\ nextTicket' = nextTicket /\ queue' = queue
      /\ ticket' = ticket /\ pc' = pc /\ wakee' = wakee /\ all' = all
  BY DEF condVars, callVars
<1>2. TypeOK'
  BY <1>1 DEF IInv, TypeOK
<1>3. \A u \in Tasks : (Waits(u)' <=> Waits(u)) /\ (Signalled(u)' <=> Signalled(u))
  BY <1>1 DEF Waits, Signalled
<1>4. TicketsMatch'
  BY <1>1, <1>3, SameWaiters DEF IInv
<1>5. WokenWasSignalled'
  BY <1>1 DEF IInv, WokenWasSignalled
<1>6. NoSleepingWinner'
  BY <1>1, <1>3, AwakeStep DEF IInv
<1>7. QED
  BY <1>2, <1>4, <1>5, <1>6 DEF IInv

LEMMA StopStep ==
  ASSUME IInv, NEW t \in Tasks, Stop(t)
  PROVE  IInv'
<1>1. /\ UNCHANGED <<condVars, callVars, phase, permit, mail, credit>>
      /\ quit' = [quit EXCEPT ![t] = TRUE]
  BY DEF Stop, Park!Quit
<1>2. QED
  BY <1>1, StandStill DEF IInv, TypeOK

LEMMA DisturbStep ==
  ASSUME IInv, NEW t \in Tasks, Disturb(t)
  PROVE  IInv'
<1>1. /\ UNCHANGED <<condVars, callVars>>
      /\ credit' = credit - 1 /\ credit > 0
      /\ permit' = [permit EXCEPT ![t] = TRUE]
      /\ quit' = quit
      /\ mail' \in {mail, [mail EXCEPT ![t] = @ + 1]}
      /\ phase' \in {phase, [phase EXCEPT ![t] = IF @ = "new" THEN "asleep" ELSE @]}
  BY DEF Disturb, Park!Post, Park!Poke
<1>2. phase' \in [Tasks -> {"awake", "asleep"}]
  BY <1>1 DEF IInv, TypeOK
<1>3. mail' \in [Tasks -> Nat]
  <2>1. [mail EXCEPT ![t] = @ + 1] \in [Tasks -> Nat]
    BY DEF IInv, TypeOK
  <2>2. QED
    BY <1>1, <2>1 DEF IInv, TypeOK
<1>4. credit' \in Nat
  BY <1>1 DEF IInv, TypeOK
<1>5. permit' \in [Tasks -> BOOLEAN] /\ quit' \in [Tasks -> BOOLEAN]
        /\ \A u \in Tasks : permit[u] => permit'[u]
  BY <1>1 DEF IInv, TypeOK
<1>6. QED
  BY <1>1, <1>2, <1>3, <1>4, <1>5, StandStill

LEMMA GiveUpStep ==
  ASSUME IInv, NEW t \in Tasks, GiveUp(t)
  PROVE  IInv'
<1>1. CASE released < ticket[t]
  <2>1. ~(released >= ticket[t])
    BY <1>1 DEF IInv, TypeOK
  <2>2. QED
    BY <1>1, <2>1, LeaveStep DEF GiveUp
<1>2. CASE ~(released < ticket[t])
  <2>1. ~Waits(t)
    BY <1>2 DEF Waits
  <2>2. all' \in [Tasks -> BOOLEAN]
    BY DEF GiveUp, IInv, TypeOK
  <2>3. QED
    BY <1>2, <2>1, <2>2, SignalStep DEF GiveUp
<1>3. QED
  BY <1>1, <1>2

LEMMA CallSignalStep ==
  ASSUME IInv, NEW t \in Tasks, Signal(t) \/ SignalAll(t) \/ SignalNext(t)
  PROVE  IInv'
<1>1. pc[t] \in {"idle", "looping"} /\ SignalOne(t) /\ ticket' = ticket
        /\ UNCHANGED <<nextTicket, taskVars, credit>>
  BY DEF Signal, SignalAll, SignalNext
<1>2. ~Waits(t)
  BY <1>1 DEF Waits, InAwait
<1>3. all' \in [Tasks -> BOOLEAN]
  BY DEF Signal, SignalAll, SignalNext, IInv, TypeOK
<1>4. QED
  BY <1>1, <1>2, <1>3, SignalStep

-----------------------------------------------------------------------------
LEMMA Inductive ==
  ASSUME IInv, [Next]_vars
  PROVE  IInv'
<1>1. CASE UNCHANGED vars
  BY <1>1, StandStill DEF vars, taskVars, callVars, condVars, IInv, TypeOK
<1>2. ASSUME NEW t \in Tasks, Proceed(t) PROVE IInv'
  BY <1>2, TestStep, ProcessStep, DrainStep, SuspendStep, ResumedStep, GiveUpStep,
     CallSignalStep, ResumeWakeeStep DEF Proceed
<1>3. CASE Next
  BY <1>2, <1>3, ReturnStep, AwaitStep, CallSignalStep, StopStep, DisturbStep DEF Next
<1>4. QED
  BY <1>1, <1>2, <1>3

(* The inductive invariant, for every number of tasks and every bound.     *)
THEOREM ConditionInvariance == Spec => []IInv
<1>1. Init => IInv
  BY InitInvariant
<1>2. IInv /\ [Next]_vars => IInv'
  BY Inductive
<1>3. QED
  BY <1>1, <1>2, PTL DEF Spec

(* Condition's variables keep the types the code declares, and a ticket is *)
(* one that was drawn.                                                     *)
THEOREM ConditionTypeCorrect == Spec => []TypeOK
<1>1. IInv => TypeOK
  BY DEF IInv
<1>2. QED
  BY <1>1, ConditionInvariance, PTL

(* The slot that await's catch block clears is the task's own.             *)
THEOREM WaitersFindTheirSlots == Spec => []TicketsMatch
<1>1. IInv => TicketsMatch
  BY DEF IInv
<1>2. QED
  BY <1>1, ConditionInvariance, PTL

(* No task sleeps on a signal it was given without a wake-up on the way.   *)
THEOREM WinnersWake == Spec => []NoSleepingWinner
<1>1. IInv => NoSleepingWinner
  BY DEF IInv
<1>2. QED
  BY <1>1, ConditionInvariance, PTL

-----------------------------------------------------------------------------
(* The refinement. Who waits, in which order, who was signalled and to     *)
(* whom an exception happened: a step of the condition is a step of        *)
(* Signals or changes none of these.                                       *)
Line == [t \in Tasks |-> Ahead(t)]
Released == {t \in Tasks : Signalled(t)}
Failed == {t \in Tasks : pc[t] = "failed"}

LEMMA SameLine ==
  ASSUME \A t \in Tasks : Waits(t)' <=> Waits(t),
         \A t \in Tasks : Waits(t) => ticket'[t] = ticket[t]
  PROVE  Waiting' = Waiting /\ Line' = Line
<1>1. Waiting' = Waiting
  BY DEF Waiting
<1>2. ASSUME NEW t \in Tasks PROVE Ahead(t)' = Ahead(t)
  BY DEF Ahead
<1>3. QED
  BY <1>1, <1>2 DEF Line

(* One of the waiters is no longer one, and the others keep their order.   *)
LEMMA OneLess ==
  ASSUME NEW h \in Tasks,
         \A t \in Tasks : Waits(t)' <=> Waits(t) /\ t # h,
         \A t \in Tasks : Waits(t)' => ticket'[t] = ticket[t]
  PROVE  /\ Waiting' = Waiting \ {h}
         /\ Line' = [t \in Tasks |-> IF t = h THEN {} ELSE Line[t] \ {h}]
<1>1. Waiting' = Waiting \ {h}
  BY DEF Waiting
<1>2. ASSUME NEW t \in Tasks
      PROVE  Ahead(t)' = IF t = h THEN {} ELSE Ahead(t) \ {h}
  BY DEF Ahead
<1>3. QED
  BY <1>1, <1>2 DEF Line

(* The ticket drawn is larger than any ticket drawn before.                *)
LEMMA AwaitMapped ==
  ASSUME IInv, NEW t \in Tasks, Await(t)
  PROVE  Abstract!Await(t)
<1>1. /\ pc[t] = "idle" /\ released' = released
      /\ ticket'[t] = nextTicket /\ pc'[t] = "test"
      /\ \A u \in Tasks \ {t} : pc'[u] = pc[u] /\ ticket'[u] = ticket[u]
  BY DEF Await, Goto, IInv, TypeOK
<1>2. released \in Nat /\ nextTicket \in Nat /\ nextTicket > released
  <2>1. Len(queue) \in Nat /\ released \in Nat
    BY DEF IInv, TypeOK
  <2>2. QED
    BY <2>1 DEF IInv, TicketsMatch
<1>3. ~Waits(t) /\ Waits(t)' /\ ~Signalled(t) /\ ~Signalled(t)'
  BY <1>1, <1>2 DEF Waits, Signalled, InAwait
<1>4. \A u \in Tasks \ {t} : (Waits(u)' <=> Waits(u)) /\ (Signalled(u)' <=> Signalled(u))
  BY <1>1 DEF Waits, Signalled
<1>5. t \notin Waiting \union Released /\ Released' = Released /\ Failed' = Failed
  BY <1>1, <1>3, <1>4 DEF Waiting, Released, Failed
<1>6. Waiting' = Waiting \union {t}
  BY <1>3, <1>4 DEF Waiting
<1>7. Line' = [Line EXCEPT ![t] = Waiting]
  <2>1. \A u \in Tasks : ticket[u] \in Int /\ ticket[u] < nextTicket
    BY <1>2 DEF IInv, TypeOK
  <2>2. Ahead(t)' = Waiting
    <3>1. \A u \in Tasks : Waits(u)' /\ ticket'[u] < ticket'[t] <=> Waits(u)
      BY <1>1, <1>2, <1>3, <1>4, <2>1
    <3>2. QED
      BY <1>3, <3>1 DEF Ahead, Waiting
  <2>3. ASSUME NEW u \in Tasks, u # t PROVE Ahead(u)' = Ahead(u)
    <3>1. ASSUME NEW v \in Tasks, Waits(u)
          PROVE  Waits(v)' /\ ticket'[v] < ticket'[u] <=> Waits(v) /\ ticket[v] < ticket[u]
      <4>1. ~(nextTicket < ticket[u])
        BY <1>2, <2>1
      <4>2. QED
        BY <1>1, <1>3, <1>4, <2>3, <4>1
    <3>2. QED
      BY <1>4, <2>3, <3>1 DEF Ahead
  <2>4. QED
    BY <2>2, <2>3 DEF Line
<1>8. QED
  BY <1>5, <1>6, <1>7 DEF Abstract!Await, Line, Released, Failed

(* The waiter that a signal finds is the first: in front of its slot there *)
(* are only slots of tasks that left, and a smaller ticket has a slot      *)
(* further to the front.                                                   *)
LEMMA FirstInLine ==
  ASSUME IInv, NEW k \in 1 .. Len(queue), queue[k] # NoTask,
         \A i \in 1 .. k - 1 : queue[i] = NoTask
  PROVE  queue[k] \in Waiting /\ Ahead(queue[k]) = {}
<1>1. PICK h \in Tasks : h = queue[k]
  BY DEF IInv, TypeOK
<1>2. Waits(h) /\ ticket[h] = released + k
  BY <1>1 DEF IInv, TicketsMatch
<1>3. k \in Nat /\ released \in Nat /\ \A u \in Tasks : ticket[u] \in Int
  BY DEF IInv, TypeOK
<1>4. ASSUME NEW u \in Tasks, Waits(u), ticket[u] < ticket[h] PROVE FALSE
  <2>1. ticket[u] - released \in 1 .. Len(queue) /\ queue[ticket[u] - released] = u
    BY <1>4 DEF IInv, TicketsMatch
  <2>2. ticket[u] - released \in 1 .. k - 1
    BY <1>2, <1>3, <1>4, <2>1
  <2>3. QED
    BY <2>1, <2>2, ConditionAssumption
<1>5. QED
  BY <1>1, <1>2, <1>4 DEF Waiting, Ahead

(* Whoever signals, or passes on a signal of its own, releases the first   *)
(* in the line, or finds the line empty.                                   *)
LEMMA SignalMapped ==
  ASSUME IInv, NEW t \in Tasks, ~Waits(t), SignalOne(t),
         ticket' = ticket \/ ticket' = [ticket EXCEPT ![t] = 0]
  PROVE  /\ Failed' = Failed \ {t}
         /\ \/ \E h \in Waiting :
                 /\ Line[h] = {}
                 /\ Abstract!StepOut(h)
                 /\ Released' = (Released \ {t}) \union {h}
            \/ /\ Waiting = {}
               /\ UNCHANGED <<Waiting, Line>>
               /\ Released' = Released \ {t}
<1>1. Failed' = Failed \ {t}
  <2>1. PICK point \in {"idle", "waking"} : Goto(t, point)
    BY DEF SignalOne
  <2>2. \A u \in Tasks : pc'[u] = IF u = t THEN point ELSE pc[u]
    BY <2>1 DEF Goto, IInv, TypeOK
  <2>3. QED
    BY <2>2 DEF Failed
<1>2. CASE \E k \in 1 .. Len(queue) :
             /\ queue[k] # NoTask
             /\ \A i \in 1 .. k - 1 : queue[i] = NoTask
             /\ released' = released + k
             /\ Goto(t, "waking")
  <2>1. PICK k \in 1 .. Len(queue) :
          /\ queue[k] # NoTask
          /\ \A i \in 1 .. k - 1 : queue[i] = NoTask
          /\ released' = released + k
          /\ Goto(t, "waking")
    BY <1>2
  <2>2. PICK h : h = queue[k]
    OBVIOUS
  <2>3. /\ h \in Tasks \ {t}
        /\ \A u \in Tasks : Waits(u)' <=> Waits(u) /\ u # h
        /\ \A u \in Tasks : Signalled(u)' <=> u # t /\ (Signalled(u) \/ u = h)
    BY <2>1, <2>2, PopRoles
  <2>4. h \in Waiting /\ Line[h] = {}
    BY <2>1, <2>2, <2>3, FirstInLine DEF Line
  <2>5. \A u \in Tasks : Waits(u)' => ticket'[u] = ticket[u]
    BY <2>3 DEF IInv, TypeOK
  <2>6. /\ Waiting' = Waiting \ {h}
        /\ Line' = [u \in Tasks |-> IF u = h THEN {} ELSE Line[u] \ {h}]
    BY <2>3, <2>5, OneLess
  <2>7. Released' = (Released \ {t}) \union {h}
    BY <2>3 DEF Released
  <2>8. QED
    BY <1>1, <2>4, <2>6, <2>7 DEF Abstract!StepOut, Line
<1>3. CASE /\ \A i \in 1 .. Len(queue) : queue[i] = NoTask
           /\ released' = released + Len(queue)
           /\ Goto(t, "idle")
  <2>1. \A u \in Tasks : /\ ~Waits(u) /\ ~Waits(u)'
                         /\ Signalled(u)' <=> Signalled(u) /\ u # t
    BY <1>3, NobodyRoles
  <2>2. Waiting = {} /\ Released' = Released \ {t}
    BY <2>1 DEF Waiting, Released
  <2>3. Waiting' = Waiting /\ Line' = Line
    BY <2>1, SameLine
  <2>4. QED
    BY <1>1, <2>2, <2>3
<1>4. QED
  BY <1>2, <1>3 DEF SignalOne

LEMMA CallSignalMapped ==
  ASSUME IInv, NEW t \in Tasks, Signal(t) \/ SignalAll(t) \/ SignalNext(t)
  PROVE  [Abstract!Next]_Abstract!vars
<1>1. pc[t] \in {"idle", "looping"} /\ SignalOne(t) /\ ticket' = ticket
  BY DEF Signal, SignalAll, SignalNext
<1>2. ~Waits(t) /\ t \notin Released /\ t \notin Failed
  BY <1>1 DEF Waits, Signalled, InAwait, Released, Failed
<1>3. /\ Failed' = Failed
      /\ \/ \E h \in Waiting :
              /\ Line[h] = {}
              /\ Abstract!StepOut(h)
              /\ Released' = Released \union {h}
         \/ UNCHANGED <<Waiting, Line, Released>>
  BY <1>1, <1>2, SignalMapped
<1>4. Abstract!Signal \/ UNCHANGED Abstract!vars
  BY <1>3 DEF Abstract!Signal, Abstract!vars, Line, Released, Failed
<1>5. QED
  BY <1>4 DEF Abstract!Next

LEMMA GiveUpMapped ==
  ASSUME IInv, NEW t \in Tasks, GiveUp(t)
  PROVE  Abstract!Leave(t)
<1>1. /\ pc[t] = "failed" /\ t \in Failed /\ t \in Tasks
      /\ \A u \in Tasks \ {t} : ticket'[u] = ticket[u]
      /\ ticket' = [ticket EXCEPT ![t] = 0]
  BY DEF GiveUp, IInv, TypeOK, Failed
<1>2. released \in Int /\ ticket[t] \in Int
  BY DEF IInv, TypeOK
<1>3. CASE released < ticket[t]
  <2>1. released' = released /\ Goto(t, "idle")
    BY <1>2, <1>3 DEF GiveUp
  <2>2. pc'[t] = "idle" /\ \A u \in Tasks \ {t} : pc'[u] = pc[u]
    BY <2>1 DEF Goto, IInv, TypeOK
  <2>3. Waits(t) /\ ~Waits(t)' /\ ~Signalled(t)' /\ ~Signalled(t)
    BY <1>1, <1>2, <1>3, <2>2 DEF Waits, Signalled, InAwait
  <2>4. \A u \in Tasks \ {t} : (Waits(u)' <=> Waits(u)) /\ (Signalled(u)' <=> Signalled(u))
    BY <1>1, <2>1, <2>2 DEF Waits, Signalled
  <2>5. Released' = Released /\ Failed' = Failed \ {t} /\ t \in Waiting
    BY <2>2, <2>3, <2>4 DEF Released, Failed, Waiting
  <2>6. /\ Waiting' = Waiting \ {t}
        /\ Line' = [u \in Tasks |-> IF u = t THEN {} ELSE Line[u] \ {t}]
    BY <1>1, <2>3, <2>4, OneLess
  <2>7. QED
    BY <1>1, <2>5, <2>6 DEF Abstract!Leave, Abstract!StepOut, Line, Released, Failed
<1>4. CASE ~(released < ticket[t])
  <2>1. released >= ticket[t] /\ ~Waits(t) /\ SignalOne(t)
    BY <1>2, <1>4 DEF GiveUp, Waits
  <2>2. t \in Released
    BY <1>1, <2>1 DEF Released, Signalled, InAwait
  <2>3. /\ Failed' = Failed \ {t}
        /\ \/ \E h \in Waiting :
                /\ Line[h] = {}
                /\ Abstract!StepOut(h)
                /\ Released' = (Released \ {t}) \union {h}
           \/ /\ Waiting = {}
              /\ UNCHANGED <<Waiting, Line>>
              /\ Released' = Released \ {t}
    BY <1>1, <2>1, SignalMapped
  <2>4. QED
    BY <1>1, <2>2, <2>3 DEF Abstract!Leave, Line, Released, Failed
<1>5. QED
  BY <1>3, <1>4

LEMMA ReturnMapped ==
  ASSUME IInv, NEW t \in Tasks, Return(t)
  PROVE  Abstract!Return(t)
<1>1. /\ pc[t] = "woken" /\ released' = released /\ pc'[t] = "idle"
      /\ \A u \in Tasks \ {t} : pc'[u] = pc[u] /\ ticket'[u] = ticket[u]
  BY DEF Return, Goto, condVars, IInv, TypeOK
<1>2. Signalled(t) /\ ~Waits(t) /\ ~Waits(t)' /\ ~Signalled(t)'
  <2>1. released >= ticket[t] /\ released \in Int /\ ticket[t] \in Int
    BY <1>1 DEF IInv, TypeOK, WokenWasSignalled
  <2>2. QED
    BY <1>1, <2>1 DEF Waits, Signalled, InAwait
<1>3. \A u \in Tasks \ {t} : (Waits(u)' <=> Waits(u)) /\ (Signalled(u)' <=> Signalled(u))
  BY <1>1 DEF Waits, Signalled
<1>4. Released' = Released \ {t} /\ Failed' = Failed /\ t \in Released \ Failed
  BY <1>1, <1>2, <1>3 DEF Released, Failed
<1>5. Waiting' = Waiting /\ Line' = Line
  BY <1>1, <1>2, <1>3, SameLine
<1>6. QED
  BY <1>4, <1>5 DEF Abstract!Return, Line, Released, Failed

(* One call moves on, and nobody waits or is signalled that was not.       *)
LEMMA CallMapped ==
  ASSUME IInv, NEW t \in Tasks, NEW point \in Point,
         UNCHANGED <<released, ticket>>, Goto(t, point),
         pc[t] \in InAwait <=> point \in InAwait
  PROVE  /\ UNCHANGED <<Waiting, Line, Released>>
         /\ \A u \in Tasks : pc'[u] = IF u = t THEN point ELSE pc[u]
<1>1. \A u \in Tasks : pc'[u] = IF u = t THEN point ELSE pc[u]
  BY DEF Goto, IInv, TypeOK
<1>2. \A u \in Tasks : pc'[u] \in InAwait <=> pc[u] \in InAwait
  BY <1>1
<1>3. \A u \in Tasks : (Waits(u)' <=> Waits(u)) /\ (Signalled(u)' <=> Signalled(u))
  BY <1>2 DEF Waits, Signalled
<1>4. Waiting' = Waiting /\ Line' = Line
  BY <1>3, SameLine
<1>5. Released' = Released
  BY <1>3 DEF Released
<1>6. QED
  BY <1>1, <1>4, <1>5

LEMMA StillMapped ==
  ASSUME UNCHANGED <<released, ticket, pc>>
  PROVE  UNCHANGED Abstract!vars
<1>1. \A u \in Tasks : (Waits(u)' <=> Waits(u)) /\ (Signalled(u)' <=> Signalled(u))
  BY DEF Waits, Signalled
<1>2. Released' = Released /\ Failed' = Failed
  BY <1>1 DEF Released, Failed
<1>3. Waiting' = Waiting /\ Line' = Line
  BY <1>1, SameLine
<1>4. QED
  BY <1>2, <1>3 DEF Abstract!vars, Line, Released, Failed

(* An event is processed: only a handler that throws is of interest.       *)
LEMMA ProcessMapped ==
  ASSUME IInv, NEW t \in Tasks, Process(t)
  PROVE  [Abstract!Next]_Abstract!vars
<1>1. pc[t] = "processing" /\ UNCHANGED <<released, ticket>>
  BY DEF Process, condVars
<1>2. CASE pc' = pc
  BY <1>1, <1>2, StillMapped
<1>3. CASE pc' = [pc EXCEPT ![t] = "failed"]
  <2>1. Goto(t, "failed") /\ "failed" \in Point /\ "failed" \in InAwait /\ pc[t] \in InAwait
    BY <1>1, <1>3 DEF Goto, Point, InAwait
  <2>2. /\ UNCHANGED <<Waiting, Line, Released>>
        /\ \A u \in Tasks : pc'[u] = IF u = t THEN "failed" ELSE pc[u]
    BY <1>1, <2>1, CallMapped
  <2>3. Failed' = Failed \union {t}
    BY <2>2 DEF Failed
  <2>4. t \in (Waiting \union Released) \ Failed
    <3>1. released \in Int /\ ticket[t] \in Int
      BY DEF IInv, TypeOK
    <3>2. QED
      BY <1>1, <2>1, <3>1 DEF Waiting, Released, Failed, Waits, Signalled
  <2>5. Abstract!Fail(t)
    BY <2>2, <2>3, <2>4 DEF Abstract!Fail, Line, Released, Failed
  <2>6. QED
    BY <2>5 DEF Abstract!Next
<1>4. QED
  BY <1>2, <1>3 DEF Process

(* Everything else a task does changes nothing that Signals knows of.      *)
LEMMA OtherMapped ==
  ASSUME IInv, NEW t \in Tasks,
         Test(t) \/ Drain(t) \/ Suspend(t) \/ Resumed(t) \/ ResumeWakee(t)
  PROVE  UNCHANGED Abstract!vars
<1>1. PICK point \in Point \ {"failed"} :
        /\ Goto(t, point)
        /\ pc[t] \in InAwait <=> point \in InAwait
  <2>1. CASE Test(t)
    BY <2>1 DEF Test, Point, InAwait
  <2>2. CASE Drain(t)
    BY <2>2 DEF Drain, Point, InAwait
  <2>3. CASE Suspend(t)
    BY <2>3 DEF Suspend, Point, InAwait
  <2>4. CASE Resumed(t)
    BY <2>4 DEF Resumed, Point, InAwait
  <2>5. CASE ResumeWakee(t)
    BY <2>5 DEF ResumeWakee, Point, InAwait
  <2>6. QED
    BY <2>1, <2>2, <2>3, <2>4, <2>5
<1>2. pc[t] # "failed" /\ UNCHANGED <<released, ticket>>
  BY DEF Test, Drain, Suspend, Resumed, ResumeWakee, condVars
<1>3. /\ UNCHANGED <<Waiting, Line, Released>>
      /\ \A u \in Tasks : pc'[u] = IF u = t THEN point ELSE pc[u]
  BY <1>1, <1>2, CallMapped
<1>4. Failed' = Failed
  BY <1>1, <1>2, <1>3 DEF Failed
<1>5. QED
  BY <1>3, <1>4 DEF Abstract!vars, Line, Released, Failed

(* A condition of fiberize keeps the promise of Signals: whatever the      *)
(* schedulers, the handlers and the exceptions do, waiters are released in *)
(* the order they came, and no signal is spent on one that leaves.         *)
THEOREM ConditionImplementsSignals == Spec => ImplementsSignals
<1>1. Init => Abstract!Init
  <2> SUFFICES ASSUME Init PROVE Abstract!Init
    OBVIOUS
  <2>1. \A t \in Tasks : ~Waits(t) /\ ~Signalled(t) /\ pc[t] # "failed"
    BY DEF Init, Waits, Signalled, InAwait
  <2>2. Waiting = {} /\ Line = [t \in Tasks |-> {}] /\ Released = {} /\ Failed = {}
    BY <2>1 DEF Waiting, Line, Ahead, Released, Failed
  <2>3. QED
    BY <2>2 DEF Abstract!Init, Line, Released, Failed
<1>2. IInv /\ [Next]_vars => [Abstract!Next]_Abstract!vars
  <2> SUFFICES ASSUME IInv, [Next]_vars PROVE [Abstract!Next]_Abstract!vars
    OBVIOUS
  <2>1. CASE UNCHANGED vars
    BY <2>1, StillMapped DEF vars, condVars, callVars
  <2>2. ASSUME NEW t \in Tasks, Stop(t) \/ Disturb(t) PROVE UNCHANGED Abstract!vars
    BY <2>2, StillMapped DEF Stop, Disturb, condVars, callVars
  <2>3. ASSUME NEW t \in Tasks, Proceed(t) PROVE [Abstract!Next]_Abstract!vars
    BY <2>3, OtherMapped, ProcessMapped, GiveUpMapped, CallSignalMapped
       DEF Proceed, Abstract!Next
  <2>4. CASE Next
    BY <2>2, <2>3, <2>4, ReturnMapped, AwaitMapped, CallSignalMapped
       DEF Next, Abstract!Next
  <2>5. QED
    BY <2>1, <2>4
<1>3. QED
  BY <1>1, <1>2, ConditionInvariance, PTL DEF Spec, ImplementsSignals, Abstract!Spec
===============================================================================
