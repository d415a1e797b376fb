--------------------------- MODULE FiberMutexProofs ---------------------------
(***************************************************************************)
(* Proofs about FiberMutex, for any finite set of tasks and any bounds:    *)
(* the mutex has one owner, its queue is where the tickets say, and no     *)
(* task sleeps on a mutex it was given.                                    *)
(***************************************************************************)
EXTENDS FiberMutex, TLAPS

(* Mutual exclusion needs the tickets: who is released next is read off    *)
(* the queue, and who owns the mutex off its ticket.                       *)
IInv == TypeOK /\ OneOwner /\ TicketsMatch /\ NoSleepingOwner

LEMMA InitInvariant ==
  ASSUME Init
  PROVE  IInv
<1>1. PICK creator \in Tasks \union {NoTask} :
        /\ locked = (creator # NoTask)
        /\ pc = [t \in Tasks |-> IF t = creator THEN "holding" ELSE "idle"]
  BY DEF Init
<1>2. TypeOK
  <2>1. pc \in [Tasks -> Point] /\ locked \in BOOLEAN
    BY <1>1 DEF Point
  <2>2. QED
    BY <2>1, MutexAssumption DEF Init, TypeOK
<1>3. \A t \in Tasks : Owns(t) <=> t = creator
  BY <1>1 DEF Owns, InLock
<1>4. OneOwner
  BY <1>1, <1>3, MutexAssumption DEF OneOwner
<1>5. TicketsMatch
  BY <1>1 DEF Init, TicketsMatch, Waits, InLock
<1>6. NoSleepingOwner
  BY <1>1 DEF NoSleepingOwner
<1>7. QED
  BY <1>2, <1>4, <1>5, <1>6 DEF IInv

-----------------------------------------------------------------------------
(* Who waits, who owns and where the queue stands depend on four variables *)
(* and the calls' positions: a step that changes only positions keeps the  *)
(* first two parts of the invariant if it keeps who waits and who owns.    *)
LEMMA SameRoles ==
  ASSUME TypeOK, OneOwner, TicketsMatch, UNCHANGED <<mutexVars, ticket>>,
         \A t \in Tasks : (Waits(t)' <=> Waits(t)) /\ (Owns(t)' <=> Owns(t))
  PROVE  OneOwner' /\ TicketsMatch'
<1>0. /\ locked' = locked /\ released' = released /\ nextTicket' = nextTicket
      /\ queue' = queue /\ ticket' = ticket
  BY DEF mutexVars
<1>1. OneOwner'
  BY <1>0 DEF OneOwner
<1>2. TicketsMatch'
  <2>1. released' + Len(queue') + 1 = nextTicket'
    BY <1>0 DEF TicketsMatch
  <2>2. ASSUME NEW t \in Tasks, Waits(t)'
        PROVE  ticket'[t] - released' \in 1 .. Len(queue')
                 /\ queue'[ticket'[t] - released'] = t
    <3>1. Waits(t)
      BY <2>2
    <3>2. QED
      BY <1>0, <3>1 DEF TicketsMatch
  <2>3. ASSUME NEW i \in 1 .. Len(queue'), queue'[i] # NoTask
        PROVE  Waits(queue[i])' /\ ticket'[queue'[i]] = released' + i
    <3>1. PICK t \in Tasks : t = queue[i]
      BY <1>0, <2>3 DEF TypeOK
    <3>2. Waits(t) /\ ticket[t] = released + i
      BY <1>0, <2>3, <3>1 DEF TicketsMatch
    <3>3. Waits(t)' /\ queue'[i] = t
      BY <1>0, <3>1, <3>2
    <3>4. QED
      BY <1>0, <3>2, <3>3 DEF Waits
  <2>4. QED
    BY <2>1, <2>2, <2>3 DEF TicketsMatch
<1>3. QED
  BY <1>1, <1>2

(* One call moves on, and nobody's role changes.                           *)
LEMMA CallRoles ==
  ASSUME TypeOK, UNCHANGED <<released, ticket>>,
         NEW t \in Tasks, NEW point \in Point, Goto(t, point),
         \/ pc[t] \in InLock /\ point \in InLock
         \/ pc[t] \notin InLock /\ pc[t] # "holding"
              /\ point \notin InLock /\ point # "holding"
         \/ pc[t] \in InLock /\ point = "holding" /\ released >= ticket[t]
  PROVE  \A u \in Tasks : (Waits(u)' <=> Waits(u)) /\ (Owns(u)' <=> Owns(u))
<1> TAKE u \in Tasks
<1>1. CASE u # t
  BY <1>1 DEF Goto, TypeOK, Waits, Owns
<1>2. CASE u = t
  <2>1. pc'[t] = point /\ released' = released /\ ticket' = ticket
    BY DEF Goto, TypeOK
  <2>2. ticket[t] \in Int /\ released \in Int
    BY DEF TypeOK
  <2>3. QED
    BY <1>2, <2>1, <2>2 DEF Waits, Owns, InLock
<1>3. QED
  BY <1>1, <1>2

LEMMA MoveStep ==
  ASSUME TypeOK, OneOwner, TicketsMatch, UNCHANGED <<mutexVars, ticket>>,
         NEW t \in Tasks, NEW point \in Point, Goto(t, point),
         \/ pc[t] \in InLock /\ point \in InLock
         \/ pc[t] \notin InLock /\ pc[t] # "holding"
              /\ point \notin InLock /\ point # "holding"
         \/ pc[t] \in InLock /\ point = "holding" /\ released >= ticket[t]
  PROVE  OneOwner' /\ TicketsMatch'
<1>1. UNCHANGED <<released, ticket>>
  BY DEF mutexVars
<1>2. \A u \in Tasks : (Waits(u)' <=> Waits(u)) /\ (Owns(u)' <=> Owns(u))
  BY <1>1, CallRoles
<1>3. QED
  BY <1>2, SameRoles

-----------------------------------------------------------------------------
(* The way into the queue.                                                 *)
LEMMA ContendStep ==
  ASSUME IInv, NEW t \in Tasks, Contend(t)
  PROVE  IInv'
<1> DEFINE n == Len(queue)
<1>1. queue \in Seq(Tasks \union {NoTask}) /\ n \in Nat
  BY DEF IInv, TypeOK
<1>2. /\ queue' \in Seq(Tasks \union {NoTask})
      /\ Len(queue') = n + 1
      /\ queue'[n + 1] = t
      /\ \A i \in 1 .. n : queue'[i] = queue[i]
  BY <1>1 DEF Contend
<1>3. /\ released' = released /\ locked' = locked /\ nextTicket' = nextTicket + 1
      /\ pc' = [pc EXCEPT ![t] = "test"]
      /\ ticket' = [ticket EXCEPT ![t] = nextTicket]
      /\ UNCHANGED <<wakee, phase, permit, mail, quit, credit>>
  BY DEF Contend, Goto, taskVars
<1>4. released \in Nat /\ nextTicket \in Nat /\ nextTicket = released + n + 1
  BY DEF IInv, TypeOK, TicketsMatch
<1>5. pc[t] = "idle" /\ locked
  BY DEF Contend
<1>6. pc'[t] = "test" /\ ticket'[t] = nextTicket
        /\ \A u \in Tasks \ {t} : pc'[u] = pc[u] /\ ticket'[u] = ticket[u]
  BY <1>3 DEF IInv, TypeOK
<1>7. TypeOK'
  <2>1. ticket' \in [Tasks -> 0 .. nextTicket' - 1]
    <3>1. \A u \in Tasks : ticket'[u] \in 0 .. nextTicket' - 1
      BY <1>3, <1>4, <1>6 DEF IInv, TypeOK
    <3>2. QED
      BY <1>3, <3>1 DEF IInv, TypeOK
  <2>2. pc' \in [Tasks -> Point] /\ nextTicket' \in Nat
    BY <1>3, <1>4 DEF IInv, TypeOK, Point
  <2>3. QED
    BY <1>2, <1>3, <2>1, <2>2 DEF IInv, TypeOK
<1>8. Waits(t)' /\ ~Owns(t)' /\ ~Owns(t) /\ ~Waits(t)
  BY <1>3, <1>4, <1>5, <1>6 DEF Waits, Owns, InLock
<1>9. \A u \in Tasks \ {t} : (Waits(u)' <=> Waits(u)) /\ (Owns(u)' <=> Owns(u))
  BY <1>3, <1>6 DEF Waits, Owns
<1>10. OneOwner'
  BY <1>3, <1>8, <1>9 DEF IInv, OneOwner
<1>11. TicketsMatch'
  <2>1. released' + Len(queue') + 1 = nextTicket'
    BY <1>1, <1>2, <1>3, <1>4
  <2>2. ASSUME NEW u \in Tasks, Waits(u)'
        PROVE  ticket'[u] - released' \in 1 .. Len(queue')
                 /\ queue'[ticket'[u] - released'] = u
    <3>1. CASE u = t
      <4>1. ticket'[u] - released' = n + 1
        BY <1>1, <1>3, <1>4, <1>6, <3>1
      <4>2. QED
        BY <1>1, <1>2, <3>1, <4>1
    <3>2. CASE u # t
      <4>1. ticket[u] - released \in 1 .. n /\ queue[ticket[u] - released] = u
        BY <1>9, <2>2, <3>2 DEF IInv, TicketsMatch
      <4>2. QED
        BY <1>1, <1>2, <1>3, <1>6, <3>2, <4>1
    <3>3. QED
      BY <3>1, <3>2
  <2>3. ASSUME NEW i \in 1 .. Len(queue'), queue'[i] # NoTask
        PROVE  Waits(queue[i])' /\ ticket'[queue'[i]] = released' + i
    <3>1. CASE i = n + 1
      <4>1. queue'[i] = t
        BY <1>2, <3>1
      <4>2. ticket'[t] = released' + i /\ Waits(t)'
        BY <1>1, <1>3, <1>4, <1>6, <1>8, <3>1
      <4>3. QED
        BY <4>1, <4>2 DEF Waits
    <3>2. CASE i # n + 1
      <4>1. i \in 1 .. n /\ queue'[i] = queue[i]
        BY <1>1, <1>2, <3>2
      <4>2. Waits(queue[i]) /\ ticket[queue[i]] = released + i
        BY <2>3, <4>1 DEF IInv, TicketsMatch
      <4>3. queue[i] \in Tasks \ {t}
        BY <1>1, <1>8, <2>3, <4>1, <4>2
      <4>4. QED
        BY <1>3, <1>6, <1>9, <4>1, <4>2, <4>3
    <3>3. QED
      BY <3>1, <3>2
  <2>4. QED
    BY <2>1, <2>2, <2>3 DEF TicketsMatch
<1>12. NoSleepingOwner'
  <2> SUFFICES ASSUME NEW u \in Tasks, Owns(u)', pc'[u] = "parked" \/ pc'[u] = "parking"
               PROVE  permit'[u] \/ \E v \in Tasks : pc'[v] = "waking" /\ wakee'[v] = u
    BY DEF NoSleepingOwner
  <2>1. u # t
    BY <1>8
  <2>2. permit[u] \/ \E v \in Tasks : pc[v] = "waking" /\ wakee[v] = u
    BY <1>6, <1>9, <2>1 DEF IInv, NoSleepingOwner
  <2>3. \A v \in Tasks : pc[v] = "waking" => pc'[v] = "waking"
    BY <1>5, <1>6
  <2>4. QED
    BY <1>3, <2>2, <2>3
<1>13. QED
  BY <1>7, <1>10, <1>11, <1>12 DEF IInv

(* A waiter leaves: its slot is the one its ticket points at.              *)
LEMMA LeaveStep ==
  ASSUME IInv, NEW t \in Tasks, pc[t] = "failed", released < ticket[t],
         queue' = [queue EXCEPT ![ticket[t] - released] = NoTask],
         Goto(t, "idle"),
         UNCHANGED <<locked, released, nextTicket, ticket, wakee, taskVars, credit>>
  PROVE  IInv'
<1>1. PICK k \in 1 .. Len(queue) : k = ticket[t] - released /\ queue[k] = t
  BY DEF IInv, TicketsMatch, Waits, InLock
<1>2. /\ queue' \in Seq(Tasks \union {NoTask})
      /\ Len(queue') = Len(queue)
      /\ \A i \in 1 .. Len(queue) : queue'[i] = IF i = k THEN NoTask ELSE queue[i]
  BY <1>1 DEF IInv, TypeOK
<1>3. /\ locked' = locked /\ released' = released /\ nextTicket' = nextTicket
      /\ ticket' = ticket /\ pc' = [pc EXCEPT ![t] = "idle"]
      /\ UNCHANGED <<wakee, phase, permit, mail, quit, credit>>
  BY DEF Goto, taskVars
<1>4. pc'[t] = "idle" /\ \A u \in Tasks \ {t} : pc'[u] = pc[u]
  BY <1>3 DEF IInv, TypeOK
<1>5. ~Waits(t)' /\ ~Owns(t)' /\ ~Owns(t)
  <2>1. released \in Int /\ ticket[t] \in Int
    BY DEF IInv, TypeOK
  <2>2. QED
    BY <1>4, <2>1 DEF Waits, Owns, InLock
<1>6. \A u \in Tasks \ {t} : (Waits(u)' <=> Waits(u)) /\ (Owns(u)' <=> Owns(u))
  BY <1>3, <1>4 DEF Waits, Owns
<1>7. TypeOK'
  BY <1>2, <1>3 DEF IInv, TypeOK, Point
<1>8. OneOwner'
  BY <1>3, <1>5, <1>6 DEF IInv, OneOwner
<1>9. TicketsMatch'
  <2>1. released' + Len(queue') + 1 = nextTicket'
    BY <1>2, <1>3 DEF IInv, TicketsMatch
  <2>2. ASSUME NEW u \in Tasks, Waits(u)'
        PROVE  ticket'[u] - released' \in 1 .. Len(queue')
                 /\ queue'[ticket'[u] - released'] = u
    <3>1. u # t
      BY <1>5, <2>2
    <3>2. ticket[u] - released \in 1 .. Len(queue) /\ queue[ticket[u] - released] = u
      BY <1>6, <2>2, <3>1 DEF IInv, TicketsMatch
    <3>3. ticket[u] - released # k
      BY <1>1, <3>1, <3>2
    <3>4. QED
      BY <1>2, <1>3, <3>2, <3>3
  <2>3. ASSUME NEW i \in 1 .. Len(queue'), queue'[i] # NoTask
        PROVE  Waits(queue[i])' /\ ticket'[queue'[i]] = released' + i
    <3>1. i \in 1 .. Len(queue) /\ i # k /\ queue'[i] = queue[i]
      BY <1>2, <2>3
    <3>2. PICK u \in Tasks : u = queue[i]
      BY <2>3, <3>1 DEF IInv, TypeOK
    <3>3. Waits(u) /\ ticket[u] = released + i
      BY <2>3, <3>1, <3>2 DEF IInv, TicketsMatch
    <3>4. u # t
      BY <1>1, <3>1, <3>3 DEF IInv, TypeOK
    <3>5. Waits(u)' /\ u = queue'[i]
      BY <1>6, <3>1, <3>2, <3>3, <3>4
    <3>6. QED
      BY <1>3, <3>3, <3>5 DEF Waits
  <2>4. QED
    BY <2>1, <2>2, <2>3 DEF TicketsMatch
<1>10. NoSleepingOwner'
  <2>1. \A v \in Tasks : pc[v] = "waking" => pc'[v] = "waking"
    BY <1>4
  <2>2. QED
    BY <1>3, <1>4, <1>5, <1>6, <2>1 DEF IInv, NoSleepingOwner
<1>11. QED
  BY <1>7, <1>8, <1>9, <1>10 DEF IInv

(* The owner's ticket has come up, the waiters' have not.                  *)
LEMMA OwnerWaitsNot ==
  ASSUME TypeOK, NEW t \in Tasks, Owns(t)
  PROVE  ~Waits(t)
<1>1. released \in Int /\ ticket[t] \in Int
  BY DEF TypeOK
<1>2. QED
  BY <1>1 DEF Owns, Waits, InLock

(* unlock finds a waiter: everything in front of it has left, so that its  *)
(* ticket is the only one that comes up.                                   *)
LEMMA HandToRoles ==
  ASSUME IInv, NEW t \in Tasks, Owns(t),
         NEW k \in 1 .. Len(queue), queue[k] # NoTask,
         \A i \in 1 .. k - 1 : queue[i] = NoTask,
         released' = released + k,
         Goto(t, "waking"),
         UNCHANGED ticket
  PROVE  /\ queue[k] \in Tasks
         /\ \A u \in Tasks : Waits(u)' <=> Waits(u) /\ u # queue[k]
         /\ \A u \in Tasks : Owns(u)' <=> u = queue[k]
<1>1. PICK h \in Tasks : h = queue[k]
  BY DEF IInv, TypeOK
<1>2. Waits(h) /\ ticket[h] = released + k
  BY <1>1 DEF IInv, TicketsMatch
<1>3. h # t
  BY <1>2, OwnerWaitsNot DEF IInv
<1>4. PICK n \in Nat : n = Len(queue)
  BY DEF IInv, TypeOK
<1>16. k \in 1 .. n /\ released \in Nat /\ \A u \in Tasks : ticket[u] \in Int
  BY <1>4 DEF IInv, TypeOK
<1>6. ticket' = ticket /\ pc' = [pc EXCEPT ![t] = "waking"]
  BY DEF Goto
<1>7. pc'[t] = "waking" /\ \A u \in Tasks \ {t} : pc'[u] = pc[u]
  BY <1>6 DEF IInv, TypeOK
<1>8. ~Waits(t)' /\ ~Owns(t)'
  BY <1>7 DEF Waits, Owns, InLock
<1>9. ASSUME NEW u \in Tasks, u # t
      PROVE  (Waits(u)' <=> Waits(u) /\ u # h) /\ (Owns(u)' <=> u = h)
  <2>1. pc'[u] = pc[u] /\ ticket'[u] = ticket[u] /\ ticket[u] \in Int
    BY <1>16, <1>6, <1>7, <1>9
  <2>2. ~Owns(u)
    BY <1>9 DEF IInv, OneOwner
  <2>3. CASE Waits(u)
    <3>1. ticket[u] - released \in 1 .. n /\ queue[ticket[u] - released] = u
      BY <1>4, <2>3 DEF IInv, TicketsMatch
    <3>2. ~(ticket[u] - released \in 1 .. k - 1)
      BY <3>1, MutexAssumption
    <3>3. ticket[u] - released >= k
      BY <2>1, <1>16, <3>1, <3>2
    <3>4. (ticket[u] - released = k) <=> u = h
      <4>1. ticket[h] - released = k
        BY <1>2, <1>16
      <4>2. QED
        BY <1>1, <3>1, <4>1
    <3>5. pc[u] \in InLock /\ pc[u] # "holding"
      BY <2>3 DEF Waits, InLock
    <3>6. (released' >= ticket'[u]) <=> u = h
      BY <1>16, <2>1, <3>3, <3>4
    <3>7. (released' < ticket'[u]) <=> u # h
      BY <1>16, <2>1, <3>3, <3>4
    <3>8. QED
      BY <2>1, <2>3, <3>5, <3>6, <3>7 DEF Waits, Owns
  <2>4. CASE ~Waits(u)
    <3>1. pc[u] \notin InLock /\ pc[u] # "holding"
      BY <1>16, <2>1, <2>2, <2>4 DEF Waits, Owns
    <3>2. QED
      BY <1>2, <2>1, <2>4, <3>1 DEF Waits, Owns
  <2>5. QED
    BY <2>3, <2>4
<1>10. ~Waits(t)
  BY OwnerWaitsNot DEF IInv
<1>11. QED
  BY <1>1, <1>3, <1>8, <1>9, <1>10

LEMMA HandToStep ==
  ASSUME IInv, NEW t \in Tasks, Owns(t), pc[t] \in {"holding", "failed"},
         NEW k \in 1 .. Len(queue), queue[k] # NoTask,
         \A i \in 1 .. k - 1 : queue[i] = NoTask,
         released' = released + k,
         queue' = SubSeq(queue, k + 1, Len(queue)),
         wakee' = [wakee EXCEPT ![t] = queue[k]],
         Goto(t, "waking"),
         UNCHANGED <<locked, nextTicket, ticket, taskVars, credit>>
  PROVE  IInv'
<1>1. PICK h \in Tasks : h = queue[k]
  BY DEF IInv, TypeOK
<1>2. Waits(h) /\ ticket[h] = released + k
  BY <1>1 DEF IInv, TicketsMatch
<1>3. h # t
  BY <1>2, OwnerWaitsNot DEF IInv
<1>4. PICK n \in Nat : n = Len(queue)
  BY DEF IInv, TypeOK
<1>16. k \in 1 .. n /\ released \in Nat /\ \A u \in Tasks : ticket[u] \in Int
  BY <1>4 DEF IInv, TypeOK
<1>5. /\ queue' \in Seq(Tasks \union {NoTask})
      /\ Len(queue') = n - k
      /\ \A i \in 1 .. n - k : queue'[i] = queue[k + i]
  <2>1. queue \in Seq(Tasks \union {NoTask})
    BY DEF IInv, TypeOK
  <2>2. k + 1 \in 1 .. n + 1 /\ n - (k + 1) + 1 = n - k
          /\ \A i \in Int : (k + 1) + i - 1 = k + i
    BY <1>16
  <2>3. SubSeq(queue, k + 1, n) \in Seq(Tasks \union {NoTask})
          /\ Len(SubSeq(queue, k + 1, n)) = n - k
    BY <1>4, <1>16, <2>1, <2>2
  <2>4. \A i \in 1 .. n - k : SubSeq(queue, k + 1, n)[i] = queue[k + i]
    BY <1>4, <1>16, <2>1, <2>2
  <2>5. QED
    BY <1>4, <2>3, <2>4
<1>6. /\ locked' = locked /\ nextTicket' = nextTicket /\ ticket' = ticket
      /\ pc' = [pc EXCEPT ![t] = "waking"]
      /\ UNCHANGED <<phase, permit, mail, quit, credit>>
  BY DEF Goto, taskVars
<1>7. pc'[t] = "waking" /\ \A u \in Tasks \ {t} : pc'[u] = pc[u]
  BY <1>6 DEF IInv, TypeOK
<1>8. ~Waits(t)' /\ ~Owns(t)'
  BY <1>7 DEF Waits, Owns, InLock
<1>9. ASSUME NEW u \in Tasks, u # t
      PROVE  (Waits(u)' <=> Waits(u) /\ u # h) /\ (Owns(u)' <=> u = h)
  BY <1>1, <1>6, <1>9, HandToRoles
<1>10. TypeOK'
  <2>1. wakee' \in [Tasks -> Tasks \union {NoTask}] /\ pc' \in [Tasks -> Point]
    BY <1>1, <1>6 DEF IInv, TypeOK, Point
  <2>2. released' \in Nat
    BY <1>16
  <2>3. QED
    BY <1>5, <1>6, <2>1, <2>2 DEF IInv, TypeOK
<1>11. OneOwner'
  BY <1>3, <1>6, <1>8, <1>9 DEF IInv, OneOwner
<1>12. TicketsMatch'
  <2>1. released' + Len(queue') + 1 = nextTicket'
    <3>1. released + n + 1 = nextTicket
      BY <1>4 DEF IInv, TicketsMatch
    <3>2. QED
      BY <1>5, <1>6, <1>16, <3>1
  <2>2. ASSUME NEW u \in Tasks, Waits(u)'
        PROVE  ticket'[u] - released' \in 1 .. Len(queue')
                 /\ queue'[ticket'[u] - released'] = u
    <3>1. Waits(u) /\ ticket'[u] = ticket[u] /\ released' < ticket[u]
      BY <1>6, <1>8, <1>9, <2>2 DEF Waits
    <3>2. PICK j \in 1 .. n : j = ticket[u] - released /\ queue[j] = u
      BY <1>4, <3>1 DEF IInv, TicketsMatch
    <3>3. PICK i \in 1 .. n - k : ticket'[u] - released' = i /\ k + i = j
      <4>1. ticket[u] \in Int /\ released' = released + k /\ ticket'[u] = ticket[u]
        BY <1>16, <3>1
      <4>2. j - k \in 1 .. n - k /\ k + (j - k) = j
        BY <1>16, <3>1, <3>2, <4>1
      <4>3. ticket'[u] - released' = j - k
        BY <1>16, <3>2, <4>1
      <4>4. QED
        BY <4>2, <4>3
    <3>4. queue'[i] = u /\ i \in 1 .. Len(queue')
      BY <1>5, <3>2, <3>3
    <3>5. QED
      BY <3>3, <3>4
  <2>3. ASSUME NEW i \in 1 .. Len(queue'), queue'[i] # NoTask
        PROVE  Waits(queue[i])' /\ ticket'[queue'[i]] = released' + i
    <3>1. k + i \in 1 .. n /\ i \in Nat \ {0} /\ queue'[i] = queue[k + i]
      <4>1. i \in 1 .. n - k
        BY <1>5, <2>3
      <4>2. k + i \in 1 .. n /\ i \in Nat \ {0}
        BY <1>4, <1>16, <4>1
      <4>3. QED
        BY <1>5, <4>1, <4>2
    <3>2. PICK u \in Tasks : u = queue[k + i]
      BY <1>4, <2>3, <3>1 DEF IInv, TypeOK
    <3>3. Waits(u) /\ ticket[u] = released + (k + i)
      BY <1>4, <2>3, <3>1, <3>2 DEF IInv, TicketsMatch
    <3>4. u # t
      BY <3>3, OwnerWaitsNot DEF IInv
    <3>5. u # h
      BY <1>2, <1>16, <3>1, <3>3
    <3>6. Waits(u)' /\ u = queue'[i]
      BY <1>9, <3>1, <3>2, <3>3, <3>4, <3>5
    <3>7. ticket'[u] = released' + i
      BY <1>6, <1>16, <3>1, <3>3
    <3>8. QED
      BY <3>6, <3>7 DEF Waits
  <2>4. QED
    BY <2>1, <2>2, <2>3 DEF TicketsMatch
<1>13. NoSleepingOwner'
  <2>1. wakee'[t] = h
    BY <1>1 DEF IInv, TypeOK
  <2>2. QED
    BY <1>7, <1>8, <1>9, <2>1 DEF NoSleepingOwner
<1>14. QED
  BY <1>10, <1>11, <1>12, <1>13 DEF IInv

(* unlock finds nobody: the mutex is free.                                 *)
LEMMA SetFreeRoles ==
  ASSUME IInv, NEW t \in Tasks, Owns(t),
         \A i \in 1 .. Len(queue) : queue[i] = NoTask,
         released' = released + Len(queue),
         Goto(t, "idle"),
         UNCHANGED ticket
  PROVE  \A u \in Tasks : ~Waits(u) /\ ~Waits(u)' /\ ~Owns(u)'
<1>1. released \in Nat /\ Len(queue) \in Nat
  BY DEF IInv, TypeOK
<1>2. pc'[t] = "idle" /\ \A u \in Tasks \ {t} : pc'[u] = pc[u]
  BY DEF Goto, IInv, TypeOK
<1>3. \A u \in Tasks : ~Waits(u)
  BY MutexAssumption DEF IInv, TicketsMatch
<1>4. ASSUME NEW u \in Tasks PROVE ~Waits(u)' /\ ~Owns(u)'
  <2>1. CASE u = t
    BY <1>2, <2>1 DEF Waits, Owns, InLock
  <2>2. CASE u # t
    <3>1. ~Owns(u) /\ ~Waits(u) /\ ticket[u] \in Int
      BY <1>3, <2>2 DEF IInv, OneOwner, TypeOK
    <3>2. pc[u] \notin InLock /\ pc[u] # "holding"
      BY <1>1, <3>1 DEF Waits, Owns
    <3>3. QED
      BY <1>2, <2>2, <3>2 DEF Waits, Owns
  <2>3. QED
    BY <2>1, <2>2
<1>5. QED
  BY <1>3, <1>4

LEMMA SetFreeStep ==
  ASSUME IInv, NEW t \in Tasks, Owns(t), pc[t] \in {"holding", "failed"},
         \A i \in 1 .. Len(queue) : queue[i] = NoTask,
         released' = released + Len(queue),
         queue' = << >>,
         locked' = FALSE,
         Goto(t, "idle"),
         UNCHANGED <<nextTicket, ticket, wakee, taskVars, credit>>
  PROVE  IInv'
<1>1. released \in Nat /\ Len(queue) \in Nat
  BY DEF IInv, TypeOK
<1>2. /\ nextTicket' = nextTicket /\ ticket' = ticket
      /\ pc' = [pc EXCEPT ![t] = "idle"]
      /\ UNCHANGED <<wakee, phase, permit, mail, quit, credit>>
  BY DEF Goto, taskVars
<1>5. \A u \in Tasks : ~Waits(u)' /\ ~Owns(u)'
  BY <1>2, SetFreeRoles
<1>6. TypeOK'
  <2>1. released' \in Nat /\ queue' \in Seq(Tasks \union {NoTask})
    BY <1>1
  <2>2. QED
    BY <1>2, <2>1 DEF IInv, TypeOK, Point
<1>7. OneOwner'
  BY <1>5 DEF OneOwner
<1>8. TicketsMatch'
  <2>1. released' + Len(queue') + 1 = nextTicket'
    BY <1>1, <1>2 DEF IInv, TicketsMatch
  <2>2. Len(queue') = 0
    OBVIOUS
  <2>3. QED
    BY <1>5, <2>1, <2>2 DEF TicketsMatch
<1>9. NoSleepingOwner'
  BY <1>5 DEF NoSleepingOwner
<1>10. QED
  BY <1>6, <1>7, <1>8, <1>9 DEF IInv

LEMMA HandOverStep ==
  ASSUME IInv, NEW t \in Tasks, Owns(t), pc[t] \in {"holding", "failed"},
         HandOver(t), UNCHANGED <<nextTicket, ticket, taskVars, credit>>
  PROVE  IInv'
<1>1. CASE \E k \in 1 .. Len(queue) :
             /\ queue[k] # NoTask
             /\ \A i \in 1 .. k - 1 : queue[i] = NoTask
             /\ released' = released + k
             /\ queue' = SubSeq(queue, k + 1, Len(queue))
             /\ wakee' = [wakee EXCEPT ![t] = queue[k]]
             /\ Goto(t, "waking")
             /\ UNCHANGED locked
  BY <1>1, HandToStep
<1>2. CASE /\ \A i \in 1 .. Len(queue) : queue[i] = NoTask
           /\ released' = released + Len(queue)
           /\ queue' = << >>
           /\ locked' = FALSE
           /\ Goto(t, "idle")
           /\ UNCHANGED wakee
  BY <1>2, SetFreeStep
<1>3. QED
  BY <1>1, <1>2 DEF HandOver

-----------------------------------------------------------------------------
LEMMA LockFreeStep ==
  ASSUME IInv, NEW t \in Tasks, LockFree(t)
  PROVE  IInv'
<1>1. /\ pc[t] = "idle" /\ ~locked /\ locked' = TRUE
      /\ released' = released /\ nextTicket' = nextTicket /\ queue' = queue
      /\ ticket' = ticket /\ pc' = [pc EXCEPT ![t] = "holding"]
      /\ UNCHANGED <<wakee, phase, permit, mail, quit, credit>>
  BY DEF LockFree, Goto, taskVars
<1>2. pc'[t] = "holding" /\ \A u \in Tasks \ {t} : pc'[u] = pc[u]
  BY <1>1 DEF IInv, TypeOK
<1>3. Owns(t)' /\ ~Waits(t)' /\ ~Waits(t)
  BY <1>1, <1>2 DEF Owns, Waits, InLock
<1>4. \A u \in Tasks \ {t} : (Waits(u)' <=> Waits(u)) /\ ~Owns(u)'
  BY <1>1, <1>2 DEF Waits, Owns, IInv, OneOwner
<1>5. TypeOK'
  BY <1>1 DEF IInv, TypeOK, Point
<1>6. OneOwner'
  BY <1>1, <1>3, <1>4 DEF OneOwner
<1>7. TicketsMatch'
  <2>1. \A u \in Tasks : Waits(u)' <=> Waits(u)
    BY <1>3, <1>4
  <2>2. ASSUME NEW i \in 1 .. Len(queue'), queue'[i] # NoTask
        PROVE  Waits(queue[i])' /\ ticket'[queue'[i]] = released' + i
    <3>1. PICK u \in Tasks : u = queue[i]
      BY <1>1, <2>2 DEF IInv, TypeOK
    <3>2. Waits(u)' /\ u = queue'[i] /\ ticket[u] = released + i
      BY <1>1, <2>1, <2>2, <3>1 DEF IInv, TicketsMatch
    <3>3. QED
      BY <1>1, <3>2 DEF Waits
  <2>3. QED
    BY <1>1, <2>1, <2>2 DEF IInv, TicketsMatch
<1>8. NoSleepingOwner'
  BY <1>2, <1>4 DEF NoSleepingOwner
<1>9. QED
  BY <1>5, <1>6, <1>7, <1>8 DEF IInv

(* A step that keeps roles and moves no owner to bed leaves nobody asleep: *)
(* wakers stay wakers or give the permit, and permits are taken back only  *)
(* from tasks that are awake.                                              *)
LEMMA AwakeStep ==
  ASSUME NoSleepingOwner,
         \A u \in Tasks : Owns(u)' => Owns(u),
         \A u \in Tasks : pc'[u] \in {"parked", "parking"} /\ Owns(u)' =>
           /\ pc[u] \in {"parked", "parking"}
           /\ permit[u] => permit'[u],
         \A v \in Tasks : pc[v] = "waking" =>
           \/ pc'[v] = "waking" /\ wakee'[v] = wakee[v]
           \/ wakee[v] \in Tasks => permit'[wakee[v]]
  PROVE  NoSleepingOwner'
<1> SUFFICES ASSUME NEW u \in Tasks, Owns(u)', pc'[u] = "parked" \/ pc'[u] = "parking"
             PROVE  permit'[u] \/ \E v \in Tasks : pc'[v] = "waking" /\ wakee'[v] = u
  BY DEF NoSleepingOwner
<1>1. Owns(u) /\ (pc[u] = "parked" \/ pc[u] = "parking") /\ (permit[u] => permit'[u])
  OBVIOUS
<1>2. permit[u] \/ \E v \in Tasks : pc[v] = "waking" /\ wakee[v] = u
  BY <1>1 DEF NoSleepingOwner
<1>3. QED
  BY <1>1, <1>2

(* One call moves on, with the mutex untouched.                            *)
LEMMA CallStep ==
  ASSUME IInv, NEW t \in Tasks, NEW point \in Point,
         UNCHANGED <<mutexVars, ticket>>, Goto(t, point),
         \/ pc[t] \in InLock /\ point \in InLock
         \/ pc[t] \notin InLock /\ pc[t] # "holding"
              /\ point \notin InLock /\ point # "holding"
         \/ pc[t] \in InLock /\ point = "holding" /\ released >= ticket[t]
  PROVE  /\ OneOwner'
         /\ TicketsMatch'
         /\ \A u \in Tasks : Owns(u)' <=> Owns(u)
         /\ \A u \in Tasks : pc'[u] = IF u = t THEN point ELSE pc[u]
         /\ pc' \in [Tasks -> Point]
<1>1. OneOwner' /\ TicketsMatch'
  BY MoveStep DEF IInv
<1>2. /\ \A u \in Tasks : pc'[u] = IF u = t THEN point ELSE pc[u]
      /\ pc' \in [Tasks -> Point]
  BY DEF Goto, IInv, TypeOK
<1>3. ASSUME NEW u \in Tasks PROVE Owns(u)' <=> Owns(u)
  <2>1. released' = released /\ ticket' = ticket
    BY DEF mutexVars
  <2>2. released \in Int /\ ticket[u] \in Int
    BY DEF IInv, TypeOK
  <2>3. QED
    BY <1>2, <2>1, <2>2 DEF Owns, InLock
<1>4. QED
  BY <1>1, <1>2, <1>3

LEMMA TestStep ==
  ASSUME IInv, NEW t \in Tasks, Test(t)
  PROVE  IInv'
<1>1. PICK point \in Point :
        /\ Goto(t, point)
        /\ point = IF released >= ticket[t] THEN "holding"
                   ELSE IF pc[t] = "test" THEN "processing" ELSE "parking"
  BY DEF Test, Point
<1>2. /\ OneOwner' /\ TicketsMatch'
      /\ \A u \in Tasks : Owns(u)' <=> Owns(u)
      /\ \A u \in Tasks : pc'[u] = IF u = t THEN point ELSE pc[u]
      /\ pc' \in [Tasks -> Point]
  <2>1. pc[t] \in InLock /\ UNCHANGED <<mutexVars, ticket>>
    BY DEF Test, InLock
  <2>2. \/ point \in InLock
        \/ point = "holding" /\ released >= ticket[t]
    BY <1>1 DEF InLock
  <2>3. QED
    BY <1>1, <2>1, <2>2, CallStep
<1>3. TypeOK'
  BY <1>2 DEF IInv, TypeOK, Test, mutexVars, taskVars
<1>4. NoSleepingOwner'
  <2>1. point = "parking" => ~Owns(t)
    <3>1. pc[t] \in InLock /\ pc[t] # "holding"
      BY DEF Test, InLock
    <3>2. QED
      BY <1>1, <3>1 DEF Owns
  <2>2. pc[t] # "waking" /\ point # "parked"
    BY <1>1 DEF Test
  <2>3. wakee' = wakee /\ permit' = permit
    BY DEF Test, taskVars
  <2>4. QED
    BY <1>2, <2>1, <2>2, <2>3, AwakeStep DEF IInv
<1>5. QED
  BY <1>2, <1>3, <1>4 DEF IInv

LEMMA ProcessStep ==
  ASSUME IInv, NEW t \in Tasks, Process(t)
  PROVE  IInv'
<1>1. PICK point \in {"processing", "failed"} : Goto(t, point)
  <2>1. CASE pc' = pc
    <3>1. Goto(t, "processing")
      BY <2>1 DEF Process, Goto, IInv, TypeOK
    <3>2. QED
      BY <3>1
  <2>2. CASE pc' = [pc EXCEPT ![t] = "failed"]
    BY <2>2 DEF Goto
  <2>3. QED
    BY <2>1, <2>2 DEF Process
<1>2. pc[t] = "processing" /\ UNCHANGED <<mutexVars, ticket>>
  BY DEF Process
<1>3. /\ OneOwner' /\ TicketsMatch'
      /\ \A u \in Tasks : Owns(u)' <=> Owns(u)
      /\ \A u \in Tasks : pc'[u] = IF u = t THEN point ELSE pc[u]
      /\ pc' \in [Tasks -> Point]
  <2>1. point \in Point /\ point \in InLock /\ pc[t] \in InLock
    BY <1>2 DEF Point, InLock
  <2>2. QED
    BY <1>1, <1>2, <2>1, CallStep
<1>4. TypeOK'
  <2>1. mail' \in [Tasks -> Nat]
    BY DEF IInv, TypeOK, Process, Park!Take
  <2>2. QED
    BY <1>2, <1>3, <2>1 DEF IInv, TypeOK, Process, Park!Take, mutexVars
<1>5. NoSleepingOwner'
  <2>1. wakee' = wakee /\ permit' = permit
    BY DEF Process, Park!Take
  <2>2. QED
    BY <1>1, <1>2, <1>3, <2>1, AwakeStep DEF IInv
<1>6. QED
  BY <1>3, <1>4, <1>5 DEF IInv

(* Steps of a task's own that leave the calls where they are.              *)
LEMMA StandStill ==
  ASSUME IInv, UNCHANGED <<mutexVars, callVars>>,
         phase' \in [Tasks -> {"awake", "asleep"}],
         permit' \in [Tasks -> BOOLEAN],
         mail' \in [Tasks -> Nat],
         quit' \in [Tasks -> BOOLEAN],
         credit' \in Nat,
         \A u \in Tasks : permit[u] => permit'[u]
  PROVE  IInv'
<1>1. /\ locked' = locked /\ released' = released /\ nextTicket' = nextTicket
      /\ queue' = queue /\ ticket' = ticket /\ pc' = pc /\ wakee' = wakee
  BY DEF mutexVars, callVars
<1>2. TypeOK'
  BY <1>1 DEF IInv, TypeOK
<1>3. \A u \in Tasks : (Waits(u)' <=> Waits(u)) /\ (Owns(u)' <=> Owns(u))
  BY <1>1 DEF Waits, Owns
<1>4. OneOwner' /\ TicketsMatch'
  BY <1>1, <1>3, SameRoles DEF IInv
<1>5. NoSleepingOwner'
  BY <1>1, <1>3, AwakeStep DEF IInv
<1>6. QED
  BY <1>2, <1>4, <1>5 DEF IInv

LEMMA StopStep ==
  ASSUME IInv, NEW t \in Tasks, Stop(t)
  PROVE  IInv'
<1>1. /\ UNCHANGED <<mutexVars, callVars, phase, permit, mail, credit>>
      /\ quit' = [quit EXCEPT ![t] = TRUE]
  BY DEF Stop, Park!Quit
<1>2. QED
  BY <1>1, StandStill DEF IInv, TypeOK

LEMMA DisturbStep ==
  ASSUME IInv, NEW t \in Tasks, Disturb(t)
  PROVE  IInv'
<1>1. /\ UNCHANGED <<mutexVars, callVars>>
      /\ credit' = credit - 1 /\ credit > 0
      /\ permit' = [permit EXCEPT ![t] = TRUE]
      /\ quit' = quit
      /\ mail' \in {mail, [mail EXCEPT ![t] = @ + 1]}
      /\ phase' \in {phase, [phase EXCEPT ![t] = IF @ = "new" THEN "asleep" ELSE @]}
  BY DEF Disturb, Park!Post, Park!Poke
<1>2. phase' \in [Tasks -> {"awake", "asleep"}]
  BY <1>1 DEF IInv, TypeOK
<1>3. mail' \in [Tasks -> Nat] /\ credit' \in Nat
  BY <1>1 DEF IInv, TypeOK
<1>4. QED
  BY <1>1, <1>2, <1>3, StandStill DEF IInv, TypeOK

LEMMA DrainStep ==
  ASSUME IInv, NEW t \in Tasks, Drain(t)
  PROVE  IInv'
<1>1. pc[t] = "processing" /\ Goto(t, "retest") /\ UNCHANGED <<mutexVars, ticket, wakee>>
  BY DEF Drain
<1>2. /\ OneOwner' /\ TicketsMatch'
      /\ \A u \in Tasks : Owns(u)' <=> Owns(u)
      /\ \A u \in Tasks : pc'[u] = IF u = t THEN "retest" ELSE pc[u]
      /\ pc' \in [Tasks -> Point]
  <2>1. "retest" \in Point /\ "retest" \in InLock /\ pc[t] \in InLock
    BY <1>1 DEF Point, InLock
  <2>2. QED
    BY <1>1, <2>1, CallStep
<1>3. permit' = [permit EXCEPT ![t] = FALSE]
  BY DEF Drain, Park!GiveBack
<1>4. TypeOK'
  BY <1>1, <1>2, <1>3 DEF IInv, TypeOK, Drain, Park!GiveBack, mutexVars
<1>5. NoSleepingOwner'
  <2>1. \A u \in Tasks \ {t} : permit'[u] = permit[u]
    BY <1>3 DEF IInv, TypeOK
  <2>2. QED
    BY <1>1, <1>2, <2>1, AwakeStep DEF IInv
<1>6. QED
  BY <1>2, <1>4, <1>5 DEF IInv

LEMMA SuspendStep ==
  ASSUME IInv, NEW t \in Tasks, Suspend(t)
  PROVE  IInv'
<1>1. pc[t] = "parking" /\ Goto(t, "parked") /\ UNCHANGED <<mutexVars, ticket, wakee>>
  BY DEF Suspend
<1>2. /\ OneOwner' /\ TicketsMatch'
      /\ \A u \in Tasks : Owns(u)' <=> Owns(u)
      /\ \A u \in Tasks : pc'[u] = IF u = t THEN "parked" ELSE pc[u]
      /\ pc' \in [Tasks -> Point]
  <2>1. "parked" \in Point /\ "parked" \in InLock /\ pc[t] \in InLock
    BY <1>1 DEF Point, InLock
  <2>2. QED
    BY <1>1, <2>1, CallStep
<1>3. TypeOK'
  BY <1>1, <1>2 DEF IInv, TypeOK, Suspend, Park!Sleep, mutexVars
<1>4. NoSleepingOwner'
  <2>1. permit' = permit
    BY DEF Suspend, Park!Sleep
  <2>2. QED
    BY <1>1, <1>2, <2>1, AwakeStep DEF IInv
<1>5. QED
  BY <1>2, <1>3, <1>4 DEF IInv

LEMMA ResumedStep ==
  ASSUME IInv, NEW t \in Tasks, Resumed(t)
  PROVE  IInv'
<1>1. pc[t] = "parked" /\ Goto(t, "test") /\ UNCHANGED <<mutexVars, ticket, wakee>>
  BY DEF Resumed
<1>2. /\ OneOwner' /\ TicketsMatch'
      /\ \A u \in Tasks : Owns(u)' <=> Owns(u)
      /\ \A u \in Tasks : pc'[u] = IF u = t THEN "test" ELSE pc[u]
      /\ pc' \in [Tasks -> Point]
  <2>1. "test" \in Point /\ "test" \in InLock /\ pc[t] \in InLock
    BY <1>1 DEF Point, InLock
  <2>2. QED
    BY <1>1, <2>1, CallStep
<1>3. TypeOK'
  BY <1>1, <1>2 DEF IInv, TypeOK, Resumed, Park!Wake, mutexVars
<1>4. NoSleepingOwner'
  <2>1. permit' = permit
    BY DEF Resumed, Park!Wake
  <2>2. QED
    BY <1>1, <1>2, <2>1, AwakeStep DEF IInv
<1>5. QED
  BY <1>2, <1>3, <1>4 DEF IInv

(* The waker's promise is kept: its wakee holds a permit from now on.      *)
LEMMA ResumeWakeeStep ==
  ASSUME IInv, NEW t \in Tasks, ResumeWakee(t)
  PROVE  IInv'
<1>1. pc[t] = "waking" /\ Goto(t, "idle") /\ UNCHANGED <<mutexVars, ticket>>
  BY DEF ResumeWakee
<1>2. /\ OneOwner' /\ TicketsMatch'
      /\ \A u \in Tasks : Owns(u)' <=> Owns(u)
      /\ \A u \in Tasks : pc'[u] = IF u = t THEN "idle" ELSE pc[u]
      /\ pc' \in [Tasks -> Point]
  <2>1. "idle" \in Point /\ "idle" \notin InLock /\ pc[t] \notin InLock
    BY <1>1 DEF Point, InLock
  <2>2. QED
    BY <1>1, <2>1, CallStep
<1>3. /\ permit' = [permit EXCEPT ![wakee[t]] = TRUE]
      /\ wakee' = [wakee EXCEPT ![t] = NoTask]
  BY DEF ResumeWakee, Park!Poke
<1>4. TypeOK'
  <2>1. permit' \in [Tasks -> BOOLEAN] /\ wakee' \in [Tasks -> Tasks \union {NoTask}]
    BY <1>3 DEF IInv, TypeOK
  <2>2. phase' \in [Tasks -> {"awake", "asleep"}]
    BY DEF IInv, TypeOK, ResumeWakee, Park!Poke
  <2>3. QED
    BY <1>1, <1>2, <2>1, <2>2 DEF IInv, TypeOK, ResumeWakee, Park!Poke, mutexVars
<1>5. NoSleepingOwner'
  <2>1. \A u \in Tasks : permit[u] => permit'[u]
    BY <1>3 DEF IInv, TypeOK
  <2>2. \A v \in Tasks \ {t} : wakee'[v] = wakee[v]
    BY <1>3 DEF IInv, TypeOK
  <2>3. wakee[t] \in Tasks => permit'[wakee[t]]
    BY <1>3 DEF IInv, TypeOK
  <2>4. QED
    BY <1>1, <1>2, <2>1, <2>2, <2>3, AwakeStep DEF IInv
<1>6. QED
  BY <1>2, <1>4, <1>5 DEF IInv

-----------------------------------------------------------------------------
LEMMA Inductive ==
  ASSUME IInv, [Next]_vars
  PROVE  IInv'
<1>1. ASSUME NEW t \in Tasks, Unlock(t) PROVE IInv'
  BY <1>1, HandOverStep DEF Unlock, Owns
<1>2. ASSUME NEW t \in Tasks, GiveUp(t) PROVE IInv'
  <2>1. CASE released < ticket[t]
    <3>1. ~(released >= ticket[t])
      BY <2>1 DEF IInv, TypeOK
    <3>2. QED
      BY <1>2, <2>1, <3>1, LeaveStep DEF GiveUp
  <2>2. CASE ~(released < ticket[t])
    <3>1. released >= ticket[t]
      BY <2>2 DEF IInv, TypeOK
    <3>2. QED
      BY <1>2, <2>2, <3>1, HandOverStep DEF GiveUp, Owns, InLock
  <2>3. QED
    BY <2>1, <2>2
<1>3. CASE UNCHANGED vars
  BY <1>3, StandStill DEF vars, taskVars, callVars, mutexVars, IInv, TypeOK
<1>4. CASE Next
  BY <1>1, <1>2, <1>4, TestStep, ProcessStep, DrainStep, SuspendStep, ResumedStep,
     ResumeWakeeStep, LockFreeStep, ContendStep, StopStep, DisturbStep
     DEF Next, Step
<1>5. QED
  BY <1>3, <1>4

(* The inductive invariant, for every number of tasks and every bound.     *)
THEOREM MutexInvariance == Spec => []IInv
<1>1. Init => IInv
  BY InitInvariant
<1>2. IInv /\ [Next]_vars => IInv'
  BY Inductive
<1>3. QED
  BY <1>1, <1>2, PTL DEF Spec

(* Mutex's variables keep the types the code declares, and a ticket is     *)
(* always one that was drawn.                                              *)
THEOREM MutexTypeCorrect == Spec => []TypeOK
<1>1. IInv => TypeOK
  BY DEF IInv
<1>2. QED
  BY <1>1, MutexInvariance, PTL

(* Mutual exclusion: one owner while the mutex is locked, and none else.   *)
THEOREM MutualExclusion == Spec => []OneOwner
<1>1. IInv => OneOwner
  BY DEF IInv
<1>2. QED
  BY <1>1, MutexInvariance, PTL

(* The slot that lock's catch block computes is the task's own.            *)
THEOREM TicketsFindTheirSlots == Spec => []TicketsMatch
<1>1. IInv => TicketsMatch
  BY DEF IInv
<1>2. QED
  BY <1>1, MutexInvariance, PTL

(* No task sleeps on a mutex it owns without a wake-up on the way.         *)
THEOREM OwnersWake == Spec => []NoSleepingOwner
<1>1. IInv => NoSleepingOwner
  BY DEF IInv
<1>2. QED
  BY <1>1, MutexInvariance, PTL

-----------------------------------------------------------------------------
(* The refinement. Who owns the mutex, who waits and in which order: a     *)
(* step of the mutex is a step of FairLock or changes none of these.       *)
Line == [t \in Tasks |-> Ahead(t)]

LEMMA OnlyOne ==
  /\ Only({}) = NoTask
  /\ \A t : Only({t}) = t
BY DEF Only

(* Owners one by one, in this state and in the next one.                   *)
LEMMA OwnerIs ==
  ASSUME OneOwner, NEW t \in Tasks, Owns(t)
  PROVE  Owner = t
<1>1. {u \in Tasks : Owns(u)} = {t}
  BY DEF OneOwner
<1>2. QED
  BY <1>1, OnlyOne DEF Owner

LEMMA NextOwnerIs ==
  ASSUME NEW t \in Tasks, \A u \in Tasks : Owns(u)' <=> u = t
  PROVE  Owner' = t
<1>1. {u \in Tasks : Owns(u)}' = {t}
  OBVIOUS
<1>2. QED
  BY <1>1, OnlyOne DEF Owner

LEMMA NoOwner ==
  /\ (\A t \in Tasks : ~Owns(t)) => Owner = NoTask
  /\ (\A t \in Tasks : ~Owns(t)') => Owner' = NoTask
<1>1. ASSUME \A t \in Tasks : ~Owns(t) PROVE Owner = NoTask
  <2>1. {u \in Tasks : Owns(u)} = {}
    BY <1>1
  <2>2. QED
    BY <2>1, OnlyOne DEF Owner
<1>2. ASSUME \A t \in Tasks : ~Owns(t)' PROVE Owner' = NoTask
  <2>1. {u \in Tasks : Owns(u)}' = {}
    BY <1>2
  <2>2. QED
    BY <2>1, OnlyOne DEF Owner
<1>3. QED
  BY <1>1, <1>2

LEMMA SameOwner ==
  ASSUME \A t \in Tasks : Owns(t)' <=> Owns(t)
  PROVE  Owner' = Owner
<1>1. {t \in Tasks : Owns(t)}' = {t \in Tasks : Owns(t)}
  OBVIOUS
<1>2. QED
  BY <1>1 DEF Owner

LEMMA SameLine ==
  ASSUME \A t \in Tasks : Waits(t)' <=> Waits(t),
         \A t \in Tasks : Waits(t) => ticket'[t] = ticket[t]
  PROVE  Waiting' = Waiting /\ Line' = Line
<1>1. Waiting' = Waiting
  BY DEF Waiting
<1>2. ASSUME NEW t \in Tasks PROVE Ahead(t)' = Ahead(t)
  BY DEF Ahead
<1>3. QED
  BY <1>1, <1>2 DEF Line

(* One of the waiters is no longer one, and the others keep their order.   *)
LEMMA OneLess ==
  ASSUME NEW h \in Tasks,
         \A t \in Tasks : Waits(t)' <=> Waits(t) /\ t # h,
         \A t \in Tasks : Waits(t)' => ticket'[t] = ticket[t]
  PROVE  /\ Waiting' = Waiting \ {h}
         /\ Line' = [t \in Tasks |-> IF t = h THEN {} ELSE Line[t] \ {h}]
<1>1. Waiting' = Waiting \ {h}
  BY DEF Waiting
<1>2. ASSUME NEW t \in Tasks
      PROVE  Ahead(t)' = IF t = h THEN {} ELSE Ahead(t) \ {h}
  BY DEF Ahead
<1>3. QED
  BY <1>1, <1>2 DEF Line

LEMMA AcquireMapped ==
  ASSUME IInv, NEW t \in Tasks, LockFree(t)
  PROVE  Lock!Acquire(t)
<1>1. /\ pc[t] = "idle" /\ ~locked /\ released' = released /\ ticket' = ticket
      /\ pc'[t] = "holding" /\ \A u \in Tasks \ {t} : pc'[u] = pc[u]
  BY DEF LockFree, Goto, IInv, TypeOK
<1>2. \A u \in Tasks : ~Owns(u)
  BY <1>1 DEF IInv, OneOwner
<1>3. \A u \in Tasks : Owns(u)' <=> u = t
  BY <1>1, <1>2 DEF Owns
<1>4. \A u \in Tasks : Waits(u)' <=> Waits(u)
  BY <1>1 DEF Waits, InLock
<1>5. Owner = NoTask /\ Owner' = t
  BY <1>2, <1>3, NoOwner, NextOwnerIs
<1>6. Waiting' = Waiting /\ Line' = Line
  BY <1>1, <1>4, SameLine
<1>7. QED
  BY <1>5, <1>6 DEF Lock!Acquire, Line

(* The ticket drawn is larger than any ticket drawn before.                *)
LEMMA AskMapped ==
  ASSUME IInv, NEW t \in Tasks, Contend(t)
  PROVE  Lock!Ask(t)
<1>1. /\ pc[t] = "idle" /\ locked /\ released' = released
      /\ ticket'[t] = nextTicket /\ pc'[t] = "test"
      /\ \A u \in Tasks \ {t} : pc'[u] = pc[u] /\ ticket'[u] = ticket[u]
  BY DEF Contend, Goto, IInv, TypeOK
<1>2. released \in Nat /\ nextTicket \in Nat /\ nextTicket > released
  <2>1. Len(queue) \in Nat /\ released \in Nat
    BY DEF IInv, TypeOK
  <2>2. QED
    BY <2>1 DEF IInv, TicketsMatch
<1>3. ~Waits(t) /\ Waits(t)' /\ ~Owns(t) /\ ~Owns(t)'
  BY <1>1, <1>2 DEF Waits, Owns, InLock
<1>4. \A u \in Tasks \ {t} : (Waits(u)' <=> Waits(u)) /\ (Owns(u)' <=> Owns(u))
  BY <1>1 DEF Waits, Owns
<1>5. Owner' = Owner
  BY <1>3, <1>4, SameOwner
<1>6. Owner \notin {t, NoTask}
  <2>1. PICK h \in Tasks : Owns(h)
    BY <1>1 DEF IInv, OneOwner
  <2>2. Owner = h
    BY <2>1, OwnerIs DEF IInv
  <2>3. QED
    BY <1>3, <2>1, <2>2, MutexAssumption
<1>7. t \notin Waiting /\ Waiting' = Waiting \union {t}
  BY <1>3, <1>4 DEF Waiting
<1>8. Line' = [Line EXCEPT ![t] = Waiting]
  <2>1. \A u \in Tasks : ticket[u] \in Int /\ ticket[u] < nextTicket
    BY <1>2 DEF IInv, TypeOK
  <2>2. Ahead(t)' = Waiting
    <3>1. \A u \in Tasks : Waits(u)' /\ ticket'[u] < ticket'[t] <=> Waits(u)
      BY <1>1, <1>2, <1>3, <1>4, <2>1
    <3>2. QED
      BY <1>3, <3>1 DEF Ahead, Waiting
  <2>3. ASSUME NEW u \in Tasks, u # t PROVE Ahead(u)' = Ahead(u)
    <3>1. ASSUME NEW v \in Tasks, Waits(u)
          PROVE  Waits(v)' /\ ticket'[v] < ticket'[u] <=> Waits(v) /\ ticket[v] < ticket[u]
      <4>1. ~(nextTicket < ticket[u])
        BY <1>2, <2>1
      <4>2. QED
        BY <1>1, <1>3, <1>4, <2>3, <4>1
    <3>2. QED
      BY <1>4, <2>3, <3>1 DEF Ahead
  <2>4. QED
    BY <2>2, <2>3 DEF Line
<1>9. QED
  BY <1>5, <1>6, <1>7, <1>8 DEF Lock!Ask, Line

LEMMA LeaveMapped ==
  ASSUME IInv, NEW t \in Tasks, pc[t] = "failed", released < ticket[t],
         Goto(t, "idle"), UNCHANGED <<released, ticket>>
  PROVE  Lock!Leave(t)
<1>1. pc'[t] = "idle" /\ \A u \in Tasks \ {t} : pc'[u] = pc[u]
  BY DEF Goto, IInv, TypeOK
<1>2. Waits(t) /\ ~Waits(t)' /\ ~Owns(t)' /\ ~Owns(t)
  <2>1. released \in Int /\ ticket[t] \in Int
    BY DEF IInv, TypeOK
  <2>2. QED
    BY <1>1, <2>1 DEF Waits, Owns, InLock
<1>3. \A u \in Tasks \ {t} : (Waits(u)' <=> Waits(u)) /\ (Owns(u)' <=> Owns(u))
  BY <1>1 DEF Waits, Owns
<1>4. Owner' = Owner
  BY <1>2, <1>3, SameOwner
<1>5. t \in Waiting
  BY <1>2 DEF Waiting
<1>6. /\ Waiting' = Waiting \ {t}
      /\ Line' = [u \in Tasks |-> IF u = t THEN {} ELSE Line[u] \ {t}]
  BY <1>2, <1>3, OneLess
<1>7. QED
  BY <1>4, <1>5, <1>6 DEF Lock!Leave, Lock!StepOut, Line

(* The waiter that unlock finds is the first: in front of its slot there   *)
(* are only slots of tasks that left, and a smaller ticket has a slot      *)
(* further to the front.                                                   *)
LEMMA FirstInLine ==
  ASSUME IInv, NEW k \in 1 .. Len(queue), queue[k] # NoTask,
         \A i \in 1 .. k - 1 : queue[i] = NoTask
  PROVE  queue[k] \in Waiting /\ Ahead(queue[k]) = {}
<1>1. PICK h \in Tasks : h = queue[k]
  BY DEF IInv, TypeOK
<1>2. Waits(h) /\ ticket[h] = released + k
  BY <1>1 DEF IInv, TicketsMatch
<1>3. k \in Nat /\ released \in Nat /\ \A u \in Tasks : ticket[u] \in Int
  BY DEF IInv, TypeOK
<1>4. ASSUME NEW u \in Tasks, Waits(u), ticket[u] < ticket[h] PROVE FALSE
  <2>1. ticket[u] - released \in 1 .. Len(queue) /\ queue[ticket[u] - released] = u
    BY <1>4 DEF IInv, TicketsMatch
  <2>2. ticket[u] - released \in 1 .. k - 1
    BY <1>2, <1>3, <1>4, <2>1
  <2>3. QED
    BY <2>1, <2>2, MutexAssumption
<1>5. QED
  BY <1>1, <1>2, <1>4 DEF Waiting, Ahead

LEMMA ReleaseMapped ==
  ASSUME IInv, NEW t \in Tasks, Owns(t), HandOver(t), UNCHANGED ticket
  PROVE  Lock!Release(t)
<1>1. Owner = t
  BY OwnerIs DEF IInv
<1>2. CASE \E k \in 1 .. Len(queue) :
             /\ queue[k] # NoTask
             /\ \A i \in 1 .. k - 1 : queue[i] = NoTask
             /\ released' = released + k
             /\ Goto(t, "waking")
  <2>1. PICK k \in 1 .. Len(queue) :
          /\ queue[k] # NoTask
          /\ \A i \in 1 .. k - 1 : queue[i] = NoTask
          /\ released' = released + k
          /\ Goto(t, "waking")
    BY <1>2
  <2>2. PICK h : h = queue[k]
    OBVIOUS
  <2>3. /\ h \in Tasks
        /\ \A u \in Tasks : Waits(u)' <=> Waits(u) /\ u # h
        /\ \A u \in Tasks : Owns(u)' <=> u = h
    BY <2>1, <2>2, HandToRoles
  <2>4. h \in Waiting /\ Ahead(h) = {}
    BY <2>1, <2>2, FirstInLine
  <2>5. /\ Waiting' = Waiting \ {h}
        /\ Line' = [u \in Tasks |-> IF u = h THEN {} ELSE Line[u] \ {h}]
    BY <2>3, OneLess
  <2>6. Owner' = h
    BY <2>3, NextOwnerIs
  <2>7. Line[h] = {}
    BY <2>3, <2>4 DEF Line
  <2>8. QED
    BY <1>1, <2>4, <2>5, <2>6, <2>7 DEF Lock!Release, Lock!StepOut, Line
<1>3. CASE /\ \A i \in 1 .. Len(queue) : queue[i] = NoTask
           /\ released' = released + Len(queue)
           /\ Goto(t, "idle")
  <2>1. \A u \in Tasks : ~Waits(u) /\ ~Waits(u)' /\ ~Owns(u)'
    BY <1>3, SetFreeRoles
  <2>2. Waiting = {}
    BY <2>1 DEF Waiting
  <2>3. Waiting' = Waiting /\ Line' = Line
    BY <2>1, SameLine
  <2>4. Owner' = NoTask
    BY <2>1, NoOwner
  <2>5. QED
    BY <1>1, <2>2, <2>3, <2>4 DEF Lock!Release, Line
<1>4. QED
  BY <1>2, <1>3 DEF HandOver

(* Everything else a task does changes nothing that FairLock knows of.     *)
LEMMA CallMapped ==
  ASSUME IInv, NEW t \in Tasks, NEW point \in Point,
         UNCHANGED <<released, ticket>>, Goto(t, point),
         \/ pc[t] \in InLock /\ point \in InLock
         \/ pc[t] \notin InLock /\ pc[t] # "holding"
              /\ point \notin InLock /\ point # "holding"
         \/ pc[t] \in InLock /\ point = "holding" /\ released >= ticket[t]
  PROVE  UNCHANGED Lock!vars
<1>1. \A u \in Tasks : (Waits(u)' <=> Waits(u)) /\ (Owns(u)' <=> Owns(u))
  BY CallRoles DEF IInv
<1>2. Owner' = Owner
  BY <1>1, SameOwner
<1>3. Waiting' = Waiting /\ Line' = Line
  BY <1>1, SameLine
<1>4. QED
  BY <1>2, <1>3 DEF Lock!vars, Line

LEMMA StillMapped ==
  ASSUME UNCHANGED <<released, ticket, pc>>
  PROVE  UNCHANGED Lock!vars
<1>1. \A u \in Tasks : (Waits(u)' <=> Waits(u)) /\ (Owns(u)' <=> Owns(u))
  BY DEF Waits, Owns
<1>2. Owner' = Owner
  BY <1>1, SameOwner
<1>3. Waiting' = Waiting /\ Line' = Line
  BY <1>1, SameLine
<1>4. QED
  BY <1>2, <1>3 DEF Lock!vars, Line

LEMMA StepMapped ==
  ASSUME IInv, NEW t \in Tasks, Step(t)
  PROVE  [Lock!Next]_Lock!vars
<1>1. CASE Unlock(t)
  BY <1>1, ReleaseMapped DEF Unlock, Owns, Lock!Next
<1>2. CASE GiveUp(t)
  <2>1. CASE released < ticket[t]
    <3>1. ~(released >= ticket[t])
      BY <2>1 DEF IInv, TypeOK
    <3>2. QED
      BY <1>2, <2>1, <3>1, LeaveMapped DEF GiveUp, Lock!Next
  <2>2. CASE ~(released < ticket[t])
    <3>1. released >= ticket[t]
      BY <2>2 DEF IInv, TypeOK
    <3>2. QED
      BY <1>2, <2>2, <3>1, ReleaseMapped DEF GiveUp, Owns, InLock, Lock!Next
  <2>3. QED
    BY <2>1, <2>2
<1>3. CASE Test(t)
  <2>1. PICK point \in Point :
          /\ Goto(t, point)
          /\ point = IF released >= ticket[t] THEN "holding"
                     ELSE IF pc[t] = "test" THEN "processing" ELSE "parking"
    BY <1>3 DEF Test, Point
  <2>2. pc[t] \in InLock /\ UNCHANGED <<released, ticket>>
    BY <1>3 DEF Test, InLock, mutexVars
  <2>3. point \in InLock \/ (point = "holding" /\ released >= ticket[t])
    BY <2>1 DEF InLock
  <2>4. QED
    BY <2>1, <2>2, <2>3, CallMapped
<1>4. CASE Process(t)
  <2>1. PICK point \in {"processing", "failed"} : Goto(t, point)
    <3>1. CASE pc' = pc
      <4>1. Goto(t, "processing")
        BY <1>4, <3>1 DEF Process, Goto, IInv, TypeOK
      <4>2. QED
        BY <4>1
    <3>2. CASE pc' = [pc EXCEPT ![t] = "failed"]
      BY <3>2 DEF Goto
    <3>3. QED
      BY <1>4, <3>1, <3>2 DEF Process
  <2>2. pc[t] \in InLock /\ point \in InLock /\ point \in Point
          /\ UNCHANGED <<released, ticket>>
    BY <1>4 DEF Process, InLock, Point, mutexVars
  <2>3. QED
    BY <2>1, <2>2, CallMapped
<1>5. CASE Drain(t) \/ Suspend(t) \/ Resumed(t)
  <2>1. PICK point \in {"retest", "parked", "test"} : Goto(t, point)
    BY <1>5 DEF Drain, Suspend, Resumed
  <2>2. pc[t] \in InLock /\ point \in InLock /\ point \in Point
          /\ UNCHANGED <<released, ticket>>
    BY <1>5 DEF Drain, Suspend, Resumed, InLock, Point, mutexVars
  <2>3. QED
    BY <2>1, <2>2, CallMapped
<1>6. CASE ResumeWakee(t)
  <2>1. pc[t] \notin InLock /\ pc[t] # "holding" /\ "idle" \notin InLock
          /\ "idle" \in Point /\ Goto(t, "idle") /\ UNCHANGED <<released, ticket>>
    BY <1>6 DEF ResumeWakee, InLock, Point, mutexVars
  <2>2. QED
    BY <2>1, CallMapped
<1>7. QED
  BY <1>1, <1>2, <1>3, <1>4, <1>5, <1>6 DEF Step

(* A mutex of fiberize is a fair lock: whatever the schedulers, the        *)
(* handlers and the exceptions do, tasks own it one after the other and in *)
(* the order in which they asked for it.                                   *)
THEOREM MutexImplementsFairLock == Spec => ImplementsFairLock
<1>1. Init => Lock!Init
  <2> SUFFICES ASSUME Init PROVE Lock!Init
    OBVIOUS
  <2>1. PICK creator \in Tasks \union {NoTask} :
          pc = [t \in Tasks |-> IF t = creator THEN "holding" ELSE "idle"]
    BY DEF Init
  <2>2. \A t \in Tasks : ~Waits(t) /\ (Owns(t) <=> t = creator)
    BY <2>1 DEF Waits, Owns, InLock
  <2>3. Waiting = {} /\ Line = [t \in Tasks |-> {}]
    BY <2>2 DEF Waiting, Line, Ahead
  <2>4. Owner \in Tasks \union {NoTask}
    <3>1. CASE creator \in Tasks
      <4>1. {t \in Tasks : Owns(t)} = {creator}
        BY <2>2, <3>1
      <4>2. QED
        BY <3>1, <4>1, OnlyOne DEF Owner
    <3>2. CASE creator \notin Tasks
      BY <2>2, <3>2, NoOwner
    <3>3. QED
      BY <3>1, <3>2
  <2>5. QED
    BY <2>3, <2>4 DEF Lock!Init, Line
<1>2. IInv /\ [Next]_vars => [Lock!Next]_Lock!vars
  <2> SUFFICES ASSUME IInv, [Next]_vars PROVE [Lock!Next]_Lock!vars
    OBVIOUS
  <2>1. CASE UNCHANGED vars
    BY <2>1, StillMapped DEF vars, mutexVars, callVars
  <2>2. ASSUME NEW t \in Tasks, Stop(t) \/ Disturb(t) PROVE UNCHANGED Lock!vars
    BY <2>2, StillMapped DEF Stop, Disturb, mutexVars, callVars
  <2>3. CASE Next
    BY <2>2, <2>3, StepMapped, AcquireMapped, AskMapped DEF Next, Lock!Next
  <2>4. QED
    BY <2>1, <2>3
<1>3. QED
  BY <1>1, <1>2, MutexInvariance, PTL DEF Spec, ImplementsFairLock, Lock!Spec
===============================================================================
