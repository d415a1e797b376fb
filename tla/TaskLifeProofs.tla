---------------------------- MODULE TaskLifeProofs ----------------------------
(* Proofs about TaskLife for any tasks, threads, references and mailboxes:   *)
(* nobody who can still reach a task finds it deleted, and every task that   *)
(* is dead and out of reach is deleted.                                      *)
EXTENDS TaskLife, FiniteSetTheorems, TLAPS

USE TasksAssumption

(* Who runs a task, from its creation to its deletion: it lies in a queue    *)
(* only while it waits for a worker, and a task with an OS thread never.     *)
LifeOf(t) ==
  /\ runners[t] = IF status[t] = "running" \/ (status[t] = "starting" /\ thread[t] = "up")
                  THEN 1 ELSE 0
  /\ scheduled[t] => status[t] \in {"starting", "listening"} /\ t \notin OSThreads
  /\ t \in OSThreads => status[t] # "listening"
                          /\ (status[t] = "running" => thread[t] = "up")
  /\ thread[t] # "none" => t \in OSThreads /\ status[t] # "none"
  /\ thread[t] = "spawned" => status[t] = "starting"
  /\ status[t] = "none" => kept[t] = {}

(* A task is built by one, and its thread is spawned once.                   *)
BuiltOnce ==
  /\ \A o \in Owners : building[o] # NoTask =>
       /\ status[building[o]] # "none"
       /\ building[o] \in OSThreads =>
            status[building[o]] = "starting" /\ thread[building[o]] = "none"
  /\ \A o, p \in Owners : building[o] = building[p] /\ building[o] # NoTask => o = p

(* clear is a matter of kill, which iterates within the mailbox, and that    *)
(* keeps to its bound.                                                       *)
MailOf(t) ==
  /\ cleared[t] \in Nat
  /\ clearEnd[t] \in Nat /\ (status[t] = "clearing" => clearEnd[t] <= Len(mail[t]))
  /\ cleared[t] > 0 => status[t] \in Ended \union Gone
  /\ Len(mail[t]) <= MaxMail

(* The references to a task.                                                 *)
RefsTo(t) == {r \in Refs : target[r] = t}

Closing == {"closing", "clearing", "unbinding"}

(* The counter counts them, and the kill that holds on to its task.          *)
CountOf(t) ==
  /\ refCount[t] = Cardinality(RefsTo(t))
                     + (IF status[t] \in Closing THEN 1 ELSE 0)
  /\ status[t] = "dead" => RefsTo(t) # {}
  /\ status[t] \in Gone => RefsTo(t) = {}

(* A copy of a reference lies on a stack, in a closure or in a mailbox.      *)
Lies(r) ==
  \/ \E o \in Owners : r \in hold[o]
  \/ \E t \in Tasks : r \in kept[t]
  \/ \E t \in Tasks : \E i \in (cleared[t] + 1) .. Len(mail[t]) : mail[t][i] = r

(* A reference is one as long as a copy of it lies somewhere.                *)
RefsLie == \A r \in Refs : target[r] # NoTask <=> Lies(r)

(* Whoever awaits a future holds a reference to it meanwhile.                *)
AwaitsHeld == \A o \in Owners : awaiting[o] # NoTask => Holds(o, awaiting[o])

IInv ==
  /\ TypeOK
  /\ \A t \in Tasks : LifeOf(t) /\ MailOf(t) /\ CountOf(t)
  /\ BuiltOnce /\ RefsLie /\ AwaitsHeld

-------------------------------------------------------------------------------
(* The places where copies of a reference lie.                               *)
Holders(r) == {o \in Owners : r \in hold[o]}
Keepers(r) == {t \in Tasks : r \in kept[t]}
Letters(r) == {e \in Tasks \X (1..MaxMail) :
                 /\ e[2] \in (cleared[e[1]] + 1)..Len(mail[e[1]])
                 /\ mail[e[1]][e[2]] = r}

(* Copies counts them, so that it tells the last copy from the others.       *)
LEMMA LastCopy ==
  ASSUME NEW r
  PROVE  /\ Copies(r) \in Nat
         /\ Copies(r) = 0 <=> Holders(r) = {} /\ Keepers(r) = {} /\ Letters(r) = {}
         /\ Copies(r) = 1 <=>
              \/ Keepers(r) = {} /\ Letters(r) = {} /\ \E x : Holders(r) = {x}
              \/ Holders(r) = {} /\ Letters(r) = {} /\ \E x : Keepers(r) = {x}
              \/ Holders(r) = {} /\ Keepers(r) = {} /\ \E x : Letters(r) = {x}
<1>1. /\ IsFiniteSet(Owners) /\ IsFiniteSet(Tasks)
      /\ IsFiniteSet(Tasks \X (1..MaxMail))
  <2>1. IsFiniteSet(Owners)
    BY FS_AddElement DEF Owners
  <2>2. IsFiniteSet(1..MaxMail)
    BY FS_Interval
  <2>3. QED
    BY <2>1, <2>2, FS_Product
<1>2. IsFiniteSet(Holders(r)) /\ IsFiniteSet(Keepers(r)) /\ IsFiniteSet(Letters(r))
  <2>1. /\ Holders(r) \in SUBSET Owners /\ Keepers(r) \in SUBSET Tasks
        /\ Letters(r) \in SUBSET (Tasks \X (1..MaxMail))
    BY DEF Holders, Keepers, Letters
  <2>2. QED
    BY <1>1, <2>1, FS_Subset
<1>3. PICK a \in Nat, b \in Nat, c \in Nat :
        /\ a = Cardinality(Holders(r))
        /\ b = Cardinality(Keepers(r))
        /\ c = Cardinality(Letters(r))
  BY <1>2, FS_CardinalityType
<1>4. Copies(r) = a + b + c
  BY <1>3 DEF Copies, Holders, Keepers, Letters
<1>5. /\ a = 0 <=> Holders(r) = {}
      /\ b = 0 <=> Keepers(r) = {}
      /\ c = 0 <=> Letters(r) = {}
  BY <1>2, <1>3, FS_EmptySet
<1>6. /\ a = 1 <=> \E x : Holders(r) = {x}
      /\ b = 1 <=> \E x : Keepers(r) = {x}
      /\ c = 1 <=> \E x : Letters(r) = {x}
  BY <1>2, <1>3, FS_Singleton
<1>7. /\ Copies(r) \in Nat
      /\ Copies(r) = 0 <=> a = 0 /\ b = 0 /\ c = 0
      /\ Copies(r) = 1 <=> (b = 0 /\ c = 0 /\ a = 1) \/ (a = 0 /\ c = 0 /\ b = 1)
                             \/ (a = 0 /\ b = 0 /\ c = 1)
  BY <1>4
<1>8. QED
  BY <1>5, <1>6, <1>7

(* A letter that was not cleared lies in one of the places Copies looks at.  *)
LEMMA LettersLie ==
  ASSUME \A t \in Tasks : MailOf(t), \A t \in Tasks : mail[t] \in Seq(Refs \union {Void}),
         NEW r
  PROVE  /\ \A t \in Tasks : \A i \in (cleared[t] + 1)..Len(mail[t]) :
              mail[t][i] = r => <<t, i>> \in Letters(r)
         /\ \A e \in Letters(r) : /\ e[1] \in Tasks /\ e = <<e[1], e[2]>>
                                  /\ e[2] \in (cleared[e[1]] + 1)..Len(mail[e[1]])
                                  /\ mail[e[1]][e[2]] = r
<1>1. \A t \in Tasks : /\ cleared[t] \in Nat /\ Len(mail[t]) \in Nat
                       /\ Len(mail[t]) <= MaxMail
  BY DEF MailOf
<1>2. ASSUME NEW t \in Tasks, NEW i \in (cleared[t] + 1)..Len(mail[t]) PROVE i \in 1..MaxMail
  BY <1>1
<1>3. QED
  BY <1>2 DEF Letters

LEMMA SomeLetter ==
  ASSUME \A t \in Tasks : MailOf(t), \A t \in Tasks : mail[t] \in Seq(Refs \union {Void}),
         NEW r
  PROVE  Letters(r) # {} <=>
           \E t \in Tasks : \E i \in (cleared[t] + 1)..Len(mail[t]) : mail[t][i] = r
<1>1. /\ \A t \in Tasks : \A i \in (cleared[t] + 1)..Len(mail[t]) :
           mail[t][i] = r => <<t, i>> \in Letters(r)
      /\ \A e \in Letters(r) : /\ e[1] \in Tasks
                               /\ e[2] \in (cleared[e[1]] + 1)..Len(mail[e[1]])
                               /\ mail[e[1]][e[2]] = r
  BY LettersLie
<1>2. QED
  BY <1>1

-------------------------------------------------------------------------------
(* Counting references.                                                      *)

LEMMA RefsFinite ==
  ASSUME NEW t
  PROVE  /\ IsFiniteSet(RefsTo(t)) /\ Cardinality(RefsTo(t)) \in Nat
         /\ Cardinality(RefsTo(t)) = 0 <=> RefsTo(t) = {}
<1>1. RefsTo(t) \in SUBSET Refs
  BY DEF RefsTo
<1>2. QED
  BY <1>1, FS_Subset, FS_CardinalityType, FS_EmptySet

(* The count stays true, as long as the task does not begin or end its end.  *)
LEMMA CountKept ==
  ASSUME NEW t \in Tasks, CountOf(t), UNCHANGED <<target, refCount>>,
         \/ status'[t] = status[t]
         \/ status[t] \notin Ended \union Gone /\ status'[t] \notin Ended \union Gone
         \/ status[t] \in Closing /\ status'[t] \in Closing
         \/ status[t] = "deleting" /\ status'[t] = "deleted"
  PROVE  CountOf(t)'
  BY DEF CountOf, RefsTo, Closing, Ended, Gone

(* A new reference to a task that is not on its way to deletion.             *)
LEMMA NewRefCounts ==
  ASSUME TypeOK, \A t \in Tasks : CountOf(t), NEW r \in Refs, NEW t \in Tasks, NewRef(r, t),
         status[t] \notin Gone, status'[t] \notin Ended \union Gone \/ status' = status,
         \A u \in Tasks \ {t} : status'[u] = status[u],
         status[t] \notin Ended \/ status' = status
  PROVE  \A u \in Tasks : CountOf(u)' /\ refCount'[u] \in Nat
<1>1. refCount' = [refCount EXCEPT ![t] = refCount[t] + 1]
      /\ target' = [target EXCEPT ![r] = t] /\ target[r] = NoTask
  BY DEF NewRef, Free
<1>2. RefsTo(t)' = RefsTo(t) \union {r} /\ r \notin RefsTo(t)
  BY <1>1 DEF RefsTo, TypeOK
<1>3. \A u \in Tasks \ {t} : RefsTo(u)' = RefsTo(u)
  BY <1>1 DEF RefsTo, TypeOK
<1>4. Cardinality(RefsTo(t)') = Cardinality(RefsTo(t)) + 1 /\ Cardinality(RefsTo(t)) \in Nat
  BY <1>2, RefsFinite, FS_AddElement
<1>5. refCount'[t] = refCount[t] + 1 /\ \A u \in Tasks \ {t} : refCount'[u] = refCount[u]
  BY <1>1 DEF TypeOK
<1>6. CountOf(t)' /\ refCount'[t] \in Nat
  <2>1. refCount'[t] = Cardinality(RefsTo(t)')
          + (IF status'[t] \in Closing THEN 1 ELSE 0)
    BY <1>4, <1>5 DEF CountOf, Closing, Ended
  <2>2. RefsTo(t)' # {}
    BY <1>2
  <2>3. status'[t] \notin Gone
    OBVIOUS
  <2>4. QED
    BY <1>4, <2>1, <2>2, <2>3 DEF CountOf
<1>7. ASSUME NEW u \in Tasks \ {t} PROVE CountOf(u)' /\ refCount'[u] \in Nat
  BY <1>3, <1>5, <1>7 DEF CountOf, TypeOK
<1>8. QED
  BY <1>6, <1>7

(* A copy is forgotten: with the last one the reference goes, and with the   *)
(* last reference a dead task.                                               *)
LEMMA ForgetCounts ==
  ASSUME TypeOK, \A t \in Tasks : CountOf(t), NEW p \in Refs \union {Void},
         p \in Refs => target[p] # NoTask, Forget(p)
  PROVE  /\ status' \in [Tasks -> Statuses] /\ refCount' \in [Tasks -> Nat]
         /\ target' \in [Refs -> Tasks \union {NoTask}]
         /\ \A r \in Refs : target'[r] = IF r = p /\ Copies(p) = 1 THEN NoTask ELSE target[r]
         /\ \A t \in Tasks : \/ status'[t] = status[t]
                             \/ status[t] = "dead" /\ status'[t] = "deleting"
         /\ \A t \in Tasks : CountOf(t)'
<1>1. CASE ~(p # Void /\ Copies(p) = 1)
  <2>1. UNCHANGED <<target, refCount, status>>
    BY <1>1 DEF Forget
  <2>2. \A r \in Refs : ~(r = p /\ Copies(p) = 1)
    BY <1>1
  <2>3. QED
    BY <2>1, <2>2, CountKept DEF TypeOK
<1>2. CASE p # Void /\ Copies(p) = 1
  <2>1. PICK t \in Tasks : t = target[p]
    BY <1>2 DEF TypeOK
  <2>2. p \in Refs /\ target' = [target EXCEPT ![p] = NoTask]
        /\ refCount' = [refCount EXCEPT ![t] = refCount[t] - 1]
        /\ status' = IF refCount[t] = 1 /\ status[t] \in Ended
                     THEN [status EXCEPT ![t] = "deleting"] ELSE status
    BY <1>2, <2>1 DEF Forget, Drop
  <2>3. RefsTo(t)' = RefsTo(t) \ {p} /\ p \in RefsTo(t)
    BY <2>1, <2>2 DEF RefsTo, TypeOK
  <2>4. \A u \in Tasks \ {t} : RefsTo(u)' = RefsTo(u)
    BY <2>1, <2>2 DEF RefsTo, TypeOK
  <2>5. PICK n \in Nat : n = Cardinality(RefsTo(t))
    BY RefsFinite
  <2>6. /\ Cardinality(RefsTo(t)') = n - 1 /\ n >= 1
        /\ n - 1 = 0 <=> RefsTo(t)' = {}
    <3>1. IsFiniteSet(RefsTo(t))
      BY RefsFinite
    <3>2. IsFiniteSet(RefsTo(t)') /\ Cardinality(RefsTo(t)') = n - 1
      <4>1. PICK S : S = RefsTo(t)
        OBVIOUS
      <4>2. IsFiniteSet(S \ {p}) /\ Cardinality(S \ {p}) = n - 1
        BY <2>3, <2>5, <3>1, <4>1, FS_RemoveElement
      <4>3. RefsTo(t)' = S \ {p}
        BY <2>3, <4>1
      <4>4. QED
        BY <4>2, <4>3
    <3>3. Cardinality(RefsTo(t)') \in Nat /\ (Cardinality(RefsTo(t)') = 0 <=> RefsTo(t)' = {})
      BY <3>2, FS_CardinalityType, FS_EmptySet
    <3>4. QED
      BY <3>2, <3>3
  <2>7. refCount'[t] = refCount[t] - 1 /\ \A u \in Tasks \ {t} : refCount'[u] = refCount[u]
    BY <2>2 DEF TypeOK
  <2>8. refCount[t] = n + (IF status[t] \in Closing THEN 1 ELSE 0)
    BY <2>5 DEF CountOf
  <2>9. \/ status' = status /\ (status[t] = "dead" => n # 1)
        \/ status[t] = "dead" /\ status' = [status EXCEPT ![t] = "deleting"] /\ n = 1
    BY <2>2, <2>6, <2>8 DEF Closing, Ended
  <2>10. status[t] \notin Gone
    BY <2>3 DEF CountOf
  <2>11. CountOf(t)' /\ refCount'[t] \in Nat
    <3>1. CASE status' = status /\ (status[t] = "dead" => n # 1)
      BY <2>6, <2>7, <2>8, <2>10, <3>1 DEF CountOf
    <3>2. CASE status[t] = "dead" /\ status' = [status EXCEPT ![t] = "deleting"] /\ n = 1
      <4>1. status'[t] = "deleting"
        BY <3>2 DEF TypeOK
      <4>2. QED
        BY <2>6, <2>7, <2>8, <3>2, <4>1 DEF CountOf, Closing
    <3>3. QED
      BY <2>9, <3>1, <3>2
  <2>12. \A u \in Tasks \ {t} : status'[u] = status[u]
    BY <2>9 DEF TypeOK
  <2>13. ASSUME NEW u \in Tasks \ {t} PROVE CountOf(u)' /\ refCount'[u] \in Nat
    BY <2>4, <2>7, <2>12, <2>13 DEF CountOf, TypeOK
  <2>14. refCount' \in [Tasks -> Nat]
    BY <2>2, <2>11, <2>13 DEF TypeOK
  <2>15. status' \in [Tasks -> Statuses]
    BY ZenonT(40), <2>9 DEF TypeOK, Statuses
  <2>16. /\ target' \in [Refs -> Tasks \union {NoTask}]
         /\ \A r \in Refs : target'[r] = IF r = p /\ Copies(p) = 1 THEN NoTask ELSE target[r]
    BY <1>2, <2>2 DEF TypeOK
  <2>17. \A u \in Tasks : \/ status'[u] = status[u]
                          \/ status[u] = "dead" /\ status'[u] = "deleting"
    BY <2>9, <2>12 DEF TypeOK
  <2>18. QED
    BY <2>11, <2>13, <2>14, <2>15, <2>16, <2>17
<1>3. QED
  BY <1>1, <1>2
-------------------------------------------------------------------------------
(* Where copies lie.                                                         *)

(* A mailbox loses one event that was not cleared, and only that.            *)
LosesLetter(t, k) ==
  \A r \in Refs :
    /\ \A u \in Tasks : \A i \in (cleared'[u] + 1)..Len(mail'[u]) : mail'[u][i] = r =>
         \E j \in (cleared[u] + 1)..Len(mail[u]) : mail[u][j] = r /\ <<u, j>> # <<t, k>>
    /\ \A u \in Tasks : \A j \in (cleared[u] + 1)..Len(mail[u]) :
         mail[u][j] = r /\ <<u, j>> # <<t, k>> =>
           \E i \in (cleared'[u] + 1)..Len(mail'[u]) : mail'[u][i] = r

(* An event is dispatched, or freed, and the others move up.                 *)
LEMMA MailMovesUp ==
  ASSUME IInv, NEW t \in Tasks, mail[t] # <<>>, cleared[t] = 0, cleared' = cleared,
         mail' = [mail EXCEPT ![t] = Tail(mail[t])]
  PROVE  LosesLetter(t, 1)
<1> SUFFICES ASSUME NEW r \in Refs
             PROVE  /\ \A u \in Tasks : \A i \in (cleared'[u] + 1)..Len(mail'[u]) :
                         mail'[u][i] = r =>
                           \E j \in (cleared[u] + 1)..Len(mail[u]) :
                             mail[u][j] = r /\ <<u, j>> # <<t, 1>>
                    /\ \A u \in Tasks : \A j \in (cleared[u] + 1)..Len(mail[u]) :
                         mail[u][j] = r /\ <<u, j>> # <<t, 1>> =>
                           \E i \in (cleared'[u] + 1)..Len(mail'[u]) : mail'[u][i] = r
  BY DEF LosesLetter
<1>0. mail \in [Tasks -> Seq(Refs \union {Void})]
  BY DEF IInv, TypeOK
<1>1. PICK s \in Seq(Refs \union {Void}) : s = mail[t] /\ s # <<>>
  BY <1>0
<1>2. /\ Len(Tail(s)) = Len(s) - 1 /\ Len(s) \in Nat
      /\ \A i \in 1..Len(Tail(s)) : Tail(s)[i] = s[i + 1]
  BY <1>1
<1>3. mail'[t] = Tail(s) /\ \A u \in Tasks \ {t} : mail'[u] = mail[u]
  BY <1>0, <1>1
<1>4. ASSUME NEW i \in 1..Len(Tail(s)), Tail(s)[i] = r
      PROVE  \E j \in 1..Len(s) : s[j] = r /\ j # 1
  BY <1>2, <1>4
<1>5. ASSUME NEW j \in 1..Len(s), s[j] = r, j # 1
      PROVE  \E i \in 1..Len(Tail(s)) : Tail(s)[i] = r
  <2>1. j - 1 \in 1..Len(Tail(s)) /\ Tail(s)[j - 1] = s[j]
    BY <1>2, <1>5
  <2>2. QED
    BY <1>5, <2>1
<1>6. ASSUME NEW u \in Tasks, NEW i \in (cleared'[u] + 1)..Len(mail'[u]), mail'[u][i] = r
      PROVE  \E j \in (cleared[u] + 1)..Len(mail[u]) : mail[u][j] = r /\ <<u, j>> # <<t, 1>>
  <2>1. CASE u = t
    <3>0. cleared'[u] + 1 = 1 /\ mail'[u] = Tail(s)
      BY <1>3, <2>1
    <3>1. i \in 1..Len(Tail(s)) /\ Tail(s)[i] = r
      BY <1>6, <3>0
    <3>2. PICK j \in 1..Len(s) : s[j] = r /\ j # 1
      BY <1>4, <3>1
    <3>3. j \in (cleared[u] + 1)..Len(mail[u]) /\ mail[u][j] = r /\ <<u, j>> # <<t, 1>>
      BY <1>1, <2>1, <3>2
    <3>4. QED
      BY <3>3
  <2>2. CASE u # t
    BY <1>3, <1>6, <2>2
  <2>3. QED
    BY <2>1, <2>2
<1>7. ASSUME NEW u \in Tasks, NEW j \in (cleared[u] + 1)..Len(mail[u]),
             mail[u][j] = r, <<u, j>> # <<t, 1>>
      PROVE  \E i \in (cleared'[u] + 1)..Len(mail'[u]) : mail'[u][i] = r
  <2>1. CASE u = t
    <3>1. j \in 1..Len(s) /\ s[j] = r /\ j # 1
      BY <1>1, <1>7, <2>1
    <3>2. \E i \in 1..Len(Tail(s)) : Tail(s)[i] = r
      BY <1>5, <3>1
    <3>3. cleared'[u] + 1 = 1 /\ mail'[u] = Tail(s)
      BY <1>3, <2>1
    <3>4. QED
      BY <3>2, <3>3
  <2>2. CASE u # t
    BY <1>3, <1>7, <2>2
  <2>3. QED
    BY <2>1, <2>2
<1>8. QED
  BY <1>6, <1>7

(* Copies are gone after the last one is, and not before; a copy that goes   *)
(* makes no difference to other references. It goes from a stack,            *)
LEMMA LastFromStack ==
  ASSUME IInv, NEW o \in Owners, NEW p \in hold[o],
         hold' = [hold EXCEPT ![o] = hold[o] \ {p}], UNCHANGED <<kept, mail, cleared>>
  PROVE  /\ Lies(p)' <=> Copies(p) # 1
         /\ \A r \in Refs \ {p} : Lies(r)' <=> Lies(r)
<1>1. hold'[o] = hold[o] \ {p} /\ \A q \in Owners \ {o} : hold'[q] = hold[q]
  BY DEF IInv, TypeOK
<1>2. \A r \in Refs \ {p} : Lies(r)' <=> Lies(r)
  BY <1>1 DEF Lies
<1>3. Letters(p) # {} <=>
        \E t \in Tasks : \E i \in (cleared[t] + 1)..Len(mail[t]) : mail[t][i] = p
  BY SomeLetter DEF IInv, TypeOK
<1>4. Lies(p)' <=> \/ \E q \in Owners \ {o} : p \in hold[q]
                   \/ \E t \in Tasks : p \in kept[t]
                   \/ Letters(p) # {}
  BY <1>1, <1>3 DEF Lies
<1>5. o \in Holders(p)
  BY DEF Holders
<1>6. Copies(p) = 1 <=> Holders(p) = {o} /\ Keepers(p) = {} /\ Letters(p) = {}
  BY <1>5, LastCopy
<1>7. QED
  BY <1>2, <1>4, <1>5, <1>6 DEF Holders, Keepers

(* from a closure,                                                           *)
LEMMA LastFromClosure ==
  ASSUME IInv, NEW u \in Tasks, NEW p \in kept[u],
         kept' = [kept EXCEPT ![u] = kept[u] \ {p}], UNCHANGED <<hold, mail, cleared>>
  PROVE  /\ Lies(p)' <=> Copies(p) # 1
         /\ \A r \in Refs \ {p} : Lies(r)' <=> Lies(r)
<1>1. kept'[u] = kept[u] \ {p} /\ \A q \in Tasks \ {u} : kept'[q] = kept[q]
  BY DEF IInv, TypeOK
<1>2. \A r \in Refs \ {p} : Lies(r)' <=> Lies(r)
  BY <1>1 DEF Lies
<1>3. Letters(p) # {} <=>
        \E t \in Tasks : \E i \in (cleared[t] + 1)..Len(mail[t]) : mail[t][i] = p
  BY SomeLetter DEF IInv, TypeOK
<1>4. Lies(p)' <=> \/ \E o \in Owners : p \in hold[o]
                   \/ \E t \in Tasks \ {u} : p \in kept[t]
                   \/ Letters(p) # {}
  BY <1>1, <1>3 DEF Lies
<1>5. u \in Keepers(p)
  BY DEF Keepers
<1>6. Copies(p) = 1 <=> Holders(p) = {} /\ Keepers(p) = {u} /\ Letters(p) = {}
  BY <1>5, LastCopy
<1>7. QED
  BY <1>2, <1>4, <1>5, <1>6 DEF Holders, Keepers

(* or from a mailbox.                                                        *)
LEMMA LastFromMail ==
  ASSUME IInv, NEW u \in Tasks, NEW k \in (cleared[u] + 1)..Len(mail[u]),
         NEW p, p = mail[u][k], hold' = hold, kept' = kept, LosesLetter(u, k)
  PROVE  /\ p \in Refs => (Lies(p)' <=> Copies(p) # 1)
         /\ \A r \in Refs \ {p} : Lies(r)' <=> Lies(r)
<1>1. ASSUME NEW r \in Refs
      PROVE  Lies(r)' <=>
               \/ \E o \in Owners : r \in hold[o]
               \/ \E t \in Tasks : r \in kept[t]
               \/ \E t \in Tasks : \E j \in (cleared[t] + 1)..Len(mail[t]) :
                    mail[t][j] = r /\ <<t, j>> # <<u, k>>
  BY DEF Lies, LosesLetter
<1>2. ASSUME NEW r \in Refs \ {p} PROVE Lies(r)' <=> Lies(r)
  BY <1>1 DEF Lies
<1>3. ASSUME p \in Refs PROVE Lies(p)' <=> Copies(p) # 1
  <2>1. /\ \A t \in Tasks : \A i \in (cleared[t] + 1)..Len(mail[t]) :
             mail[t][i] = p => <<t, i>> \in Letters(p)
        /\ \A e \in Letters(p) : /\ e[1] \in Tasks /\ e = <<e[1], e[2]>>
                                 /\ e[2] \in (cleared[e[1]] + 1)..Len(mail[e[1]])
                                 /\ mail[e[1]][e[2]] = p
    BY LettersLie DEF IInv, TypeOK
  <2>2. <<u, k>> \in Letters(p)
    BY <2>1
  <2>3. (\E t \in Tasks : \E j \in (cleared[t] + 1)..Len(mail[t]) :
           mail[t][j] = p /\ <<t, j>> # <<u, k>>) <=> Letters(p) # {<<u, k>>}
    <3>1. ASSUME Letters(p) # {<<u, k>>}
          PROVE  \E t \in Tasks : \E j \in (cleared[t] + 1)..Len(mail[t]) :
                   mail[t][j] = p /\ <<t, j>> # <<u, k>>
      <4>1. PICK e \in Letters(p) : e # <<u, k>>
        BY <2>2, <3>1
      <4>2. QED
        BY <2>1, <4>1
    <3>2. QED
      BY <2>1, <3>1
  <2>4. Copies(p) = 1 <=> Holders(p) = {} /\ Keepers(p) = {} /\ Letters(p) = {<<u, k>>}
    <3>1. PICK e : e = <<u, k>>
      OBVIOUS
    <3>2. e \in Letters(p)
      BY <2>2, <3>1
    <3>3. Copies(p) = 1 <=> Holders(p) = {} /\ Keepers(p) = {} /\ Letters(p) = {e}
      <4>1. (\E x : Letters(p) = {x}) <=> Letters(p) = {e}
        BY <3>2
      <4>2. /\ Letters(p) # {}
            /\ Copies(p) = 1 <=>
                 \/ Keepers(p) = {} /\ Letters(p) = {} /\ \E x : Holders(p) = {x}
                 \/ Holders(p) = {} /\ Letters(p) = {} /\ \E x : Keepers(p) = {x}
                 \/ Holders(p) = {} /\ Keepers(p) = {} /\ \E x : Letters(p) = {x}
        BY <3>2, LastCopy
      <4>3. QED
        BY <4>1, <4>2
    <3>4. QED
      BY <3>1, <3>3
  <2>5. QED
    BY <1>1, <1>3, <2>3, <2>4 DEF Holders, Keepers
<1>4. QED
  BY <1>2, <1>3

(* So a reference is there as long as copies of it are.                      *)
LEMMA ForgottenLies ==
  ASSUME TypeOK, RefsLie, NEW p \in Refs \union {Void}, p \in Refs => Lies(p),
         p \in Refs => (Lies(p)' <=> Copies(p) # 1),
         \A r \in Refs \ {p} : Lies(r)' <=> Lies(r),
         \A r \in Refs : target'[r] = IF r = p /\ Copies(p) = 1 THEN NoTask ELSE target[r]
  PROVE  RefsLie'
<1>1. ASSUME NEW r \in Refs PROVE target'[r] # NoTask <=> Lies(r)'
  <2>1. CASE r = p
    BY <2>1 DEF RefsLie
  <2>2. CASE r # p
    BY <2>2 DEF RefsLie
  <2>3. QED
    BY <2>1, <2>2
<1>2. QED
  BY <1>1 DEF RefsLie
-------------------------------------------------------------------------------
(* What the actions that forget a copy have in common.                       *)
Forgets(p) ==
  /\ p \in Refs \union {Void}
  /\ p \in Refs => target[p] # NoTask
  /\ Forget(p)

(* Somebody whose code goes on has not begun to end.                         *)
LEMMA ExecutesAlive ==
  ASSUME TypeOK, NEW t \in Tasks, LifeOf(t), MailOf(t), Executes(t)
  PROVE  /\ runners[t] = 1 /\ cleared[t] = 0 /\ ~scheduled[t] /\ awaiting[t] = NoTask
         /\ status[t] \notin Ended \union Gone
         /\ \/ status[t] = "running" /\ (t \in OSThreads => thread[t] = "up")
            \/ status[t] = "starting" /\ thread[t] = "up" /\ t \in OSThreads
<1>1. /\ runners[t] > 0 /\ status[t] \notin Ended \union Gone /\ awaiting[t] = NoTask
  BY DEF Executes, Owners
<1>2. /\ runners[t] = 1
      /\ status[t] = "running" \/ (status[t] = "starting" /\ thread[t] = "up")
  BY <1>1 DEF LifeOf
<1>3. cleared[t] = 0
  BY <1>1 DEF MailOf
<1>4. QED
  BY <1>1, <1>2, <1>3 DEF LifeOf, Executes

LEMMA ReleaseForgets ==
  ASSUME IInv, NEW o \in Owners, NEW r \in Refs, Release(o, r)
  PROVE  RefsLie' /\ \E p : Forgets(p)
<1>1. r \in hold[o] /\ hold' = [hold EXCEPT ![o] = hold[o] \ {r}] /\ Forget(r)
        /\ UNCHANGED <<kept, mail, cleared>>
  BY DEF Release
<1>2. Lies(r) /\ target[r] # NoTask
  BY <1>1 DEF Lies, IInv, RefsLie
<1>3. /\ Lies(r)' <=> Copies(r) # 1
      /\ \A q \in Refs \ {r} : Lies(q)' <=> Lies(q)
  BY <1>1, LastFromStack DEF IInv
<1>4. \A q \in Refs : target'[q] = IF q = r /\ Copies(r) = 1 THEN NoTask ELSE target[q]
  BY <1>1, <1>2, ForgetCounts DEF IInv
<1>5. QED
  BY <1>1, <1>2, <1>3, <1>4, ForgottenLies DEF IInv, Forgets

LEMMA ForgetKeptForgets ==
  ASSUME IInv, NEW t \in Tasks, ForgetKept(t)
  PROVE  RefsLie' /\ \E p : Forgets(p)
<1>1. PICK r \in kept[t] : kept' = [kept EXCEPT ![t] = kept[t] \ {r}] /\ Forget(r)
  BY DEF ForgetKept
<1>2. r \in Refs /\ Lies(r) /\ target[r] # NoTask /\ UNCHANGED <<hold, mail, cleared>>
  BY DEF Lies, IInv, RefsLie, TypeOK, ForgetKept
<1>3. /\ Lies(r)' <=> Copies(r) # 1
      /\ \A q \in Refs \ {r} : Lies(q)' <=> Lies(q)
  BY <1>1, <1>2, LastFromClosure DEF IInv
<1>4. \A q \in Refs : target'[q] = IF q = r /\ Copies(r) = 1 THEN NoTask ELSE target[q]
  BY <1>1, <1>2, ForgetCounts DEF IInv
<1>5. QED
  BY <1>1, <1>2, <1>3, <1>4, ForgottenLies DEF IInv, Forgets

LEMMA ClearMailForgets ==
  ASSUME IInv, NEW t \in Tasks, ClearMail(t)
  PROVE  RefsLie' /\ \E p : Forgets(p)
<1>1. PICK k \in Nat : k = cleared[t] + 1
  BY DEF IInv, MailOf
<1>2. /\ cleared[t] < clearEnd[t] /\ clearEnd[t] <= Len(mail[t]) /\ cleared' = [cleared EXCEPT ![t] = k]
      /\ Forget(mail[t][k]) /\ UNCHANGED <<hold, kept, mail>>
  BY <1>1 DEF ClearMail, IInv, MailOf
<1>3. /\ k \in (cleared[t] + 1)..Len(mail[t]) /\ k \in 1..Len(mail[t])
      /\ \A u \in Tasks : cleared[u] \in Nat
  <2>1. Len(mail[t]) \in Nat /\ \A u \in Tasks : cleared[u] \in Nat /\ clearEnd[u] \in Nat
    BY DEF IInv, TypeOK, MailOf
  <2>2. QED
    BY <1>1, <1>2, <2>1
<1>4. PICK p \in Refs \union {Void} : p = mail[t][k]
  BY <1>3 DEF IInv, TypeOK
<1>5. p \in Refs => Lies(p) /\ target[p] # NoTask
  BY <1>3, <1>4 DEF Lies, IInv, RefsLie
<1>6. cleared'[t] = k /\ \A u \in Tasks \ {t} : cleared'[u] = cleared[u]
  <2>1. cleared \in [Tasks -> Nat]
    BY DEF IInv, TypeOK
  <2>2. QED
    BY <1>2, <2>1
<1>7. ASSUME NEW u \in Tasks, NEW i \in Int
      PROVE  i \in (cleared'[u] + 1)..Len(mail'[u]) <=>
               i \in (cleared[u] + 1)..Len(mail[u]) /\ <<u, i>> # <<t, k>>
  <2>1. Len(mail[u]) \in Nat
    BY DEF IInv, TypeOK
  <2>2. CASE u = t
    BY <1>1, <1>2, <1>6, <2>1, <2>2
  <2>3. CASE u # t
    BY <1>2, <1>6, <2>3
  <2>4. QED
    BY <2>2, <2>3
<1>8. /\ p \in Refs => (Lies(p)' <=> Copies(p) # 1)
      /\ \A r \in Refs \ {p} : Lies(r)' <=> Lies(r)
  <2>1. \A u \in Tasks : /\ Len(mail[u]) \in Nat /\ cleared[u] \in Nat
                         /\ Len(mail'[u]) \in Nat /\ cleared'[u] \in Nat
    BY <1>2, <1>3, <1>6 DEF IInv, TypeOK
  <2>2. LosesLetter(t, k)
    BY <1>2, <1>7, <2>1 DEF LosesLetter
  <2>3. QED
    BY <1>2, <1>3, <1>4, <2>2, LastFromMail
<1>9. \A q \in Refs : target'[q] = IF q = p /\ Copies(p) = 1 THEN NoTask ELSE target[q]
  BY <1>2, <1>4, <1>5, ForgetCounts DEF IInv
<1>10. QED
  BY <1>2, <1>4, <1>5, <1>8, <1>9, ForgottenLies DEF IInv, Forgets

(* The first event of a mailbox that nothing was cleared of is freed.        *)
LEMMA HeadForgets ==
  ASSUME IInv, NEW t \in Tasks, mail[t] # <<>>, cleared[t] = 0, cleared' = cleared,
         mail' = [mail EXCEPT ![t] = Tail(mail[t])], UNCHANGED <<hold, kept>>,
         Forget(Head(mail[t]))
  PROVE  RefsLie' /\ \E p : Forgets(p)
<1>1. PICK s \in Seq(Refs \union {Void}) : s = mail[t] /\ s # <<>>
  BY DEF IInv, TypeOK
<1>2. PICK p \in Refs \union {Void} : p = s[1] /\ p = Head(s)
  BY <1>1
<1>3. 1 \in (cleared[t] + 1)..Len(mail[t]) /\ p = mail[t][1] /\ Forget(p)
  BY <1>1, <1>2
<1>4. p \in Refs => Lies(p) /\ target[p] # NoTask
  BY <1>3 DEF Lies, IInv, RefsLie
<1>5. /\ p \in Refs => (Lies(p)' <=> Copies(p) # 1)
      /\ \A r \in Refs \ {p} : Lies(r)' <=> Lies(r)
  <2>1. LosesLetter(t, 1)
    BY MailMovesUp
  <2>2. PICK k : k = 1
    OBVIOUS
  <2>3. k \in (cleared[t] + 1)..Len(mail[t]) /\ p = mail[t][k] /\ LosesLetter(t, k)
    BY <1>3, <2>1, <2>2
  <2>4. QED
    BY <2>3, LastFromMail
<1>6. \A q \in Refs : target'[q] = IF q = p /\ Copies(p) = 1 THEN NoTask ELSE target[q]
  BY <1>3, <1>4, ForgetCounts DEF IInv
<1>7. QED
  BY <1>3, <1>4, <1>5, <1>6, ForgottenLies DEF IInv, Forgets
(* The event of a mailbox that clear has freed the payload of goes: no copy  *)
(* does.                                                                     *)
LEMMA ClearedGoes ==
  ASSUME IInv, NEW t \in Tasks, mail[t] # <<>>, cleared[t] > 0,
         cleared' = [cleared EXCEPT ![t] = cleared[t] - 1],
         mail' = [mail EXCEPT ![t] = Tail(mail[t])], UNCHANGED <<hold, kept, target>>
  PROVE  RefsLie'
<1>1. mail \in [Tasks -> Seq(Refs \union {Void})] /\ cleared \in [Tasks -> Nat]
  BY DEF IInv, TypeOK
<1>2. PICK s \in Seq(Refs \union {Void}) : s = mail[t] /\ s # <<>>
  BY <1>1
<1>3. PICK c \in Nat : c = cleared[t] /\ c > 0
  BY <1>1
<1>4. /\ Len(Tail(s)) = Len(s) - 1 /\ Len(s) \in Nat
      /\ \A i \in 1..Len(Tail(s)) : Tail(s)[i] = s[i + 1]
  BY <1>2
<1>5. /\ mail'[t] = Tail(s) /\ \A u \in Tasks \ {t} : mail'[u] = mail[u]
      /\ cleared'[t] = c - 1 /\ \A u \in Tasks \ {t} : cleared'[u] = cleared[u]
  BY <1>1, <1>2, <1>3
<1>6. ASSUME NEW r
      PROVE  (\E i \in c..Len(Tail(s)) : Tail(s)[i] = r)
               <=> \E j \in (c + 1)..Len(s) : s[j] = r
  <2>1. ASSUME NEW i \in c..Len(Tail(s)), Tail(s)[i] = r
        PROVE  \E j \in (c + 1)..Len(s) : s[j] = r
    <3>1. i \in 1..Len(Tail(s)) /\ i + 1 \in (c + 1)..Len(s)
      BY <1>3, <1>4
    <3>2. QED
      BY <1>4, <2>1, <3>1
  <2>2. ASSUME NEW j \in (c + 1)..Len(s), s[j] = r
        PROVE  \E i \in c..Len(Tail(s)) : Tail(s)[i] = r
    <3>1. j - 1 \in c..Len(Tail(s)) /\ j - 1 \in 1..Len(Tail(s)) /\ (j - 1) + 1 = j
      BY <1>3, <1>4
    <3>2. QED
      BY <1>4, <2>2, <3>1
  <2>3. QED
    BY <2>1, <2>2
<1>7. ASSUME NEW r, NEW u \in Tasks
      PROVE  (\E i \in (cleared'[u] + 1)..Len(mail'[u]) : mail'[u][i] = r)
               <=> \E j \in (cleared[u] + 1)..Len(mail[u]) : mail[u][j] = r
  <2>1. CASE u = t
    <3>1. /\ cleared'[u] + 1 = c /\ mail'[u] = Tail(s)
          /\ cleared[u] + 1 = c + 1 /\ mail[u] = s
      BY <1>2, <1>3, <1>5, <2>1
    <3>2. (\E i \in (cleared'[u] + 1)..Len(mail'[u]) : mail'[u][i] = r)
            <=> \E i \in c..Len(Tail(s)) : Tail(s)[i] = r
      BY Zenon, <3>1
    <3>3. (\E j \in (cleared[u] + 1)..Len(mail[u]) : mail[u][j] = r)
            <=> \E j \in (c + 1)..Len(s) : s[j] = r
      BY Zenon, <3>1
    <3>4. QED
      BY <1>6, <3>2, <3>3
  <2>2. CASE u # t
    BY <1>5, <2>2
  <2>3. QED
    BY <2>1, <2>2
<1>8. \A r \in Refs : Lies(r)' <=> Lies(r)
  BY ZenonT(40), <1>7 DEF Lies
<1>9. QED
  BY <1>8 DEF IInv, RefsLie

LEMMA DestroyForgets ==
  ASSUME IInv, NEW t \in Tasks, DestroyMail(t)
  PROVE  RefsLie' /\ ((\E p : Forgets(p)) \/ UNCHANGED <<target, refCount, status>>)
<1>1. mail[t] # <<>> /\ UNCHANGED <<hold, kept>>
  BY DEF DestroyMail
<1>2. CASE UNCHANGED <<mail, cleared, target, refCount, status>>
  BY <1>1, <1>2 DEF IInv, RefsLie, Lies
<1>3. CASE /\ cleared[t] > 0 /\ mail' = [mail EXCEPT ![t] = Tail(mail[t])]
           /\ cleared' = [cleared EXCEPT ![t] = cleared[t] - 1]
           /\ UNCHANGED <<target, refCount, status>>
  BY <1>1, <1>3, ClearedGoes
<1>4. CASE /\ cleared[t] = 0 /\ mail' = [mail EXCEPT ![t] = Tail(mail[t])]
           /\ cleared' = cleared /\ Forget(Head(mail[t]))
  BY <1>1, <1>4, HeadForgets
<1>5. QED
  BY <1>2, <1>3, <1>4 DEF DestroyMail

(* The reference in the event that is dispatched goes on to the stack.       *)
LEMMA ReceiveForgets ==
  ASSUME IInv, NEW t \in Tasks, Receive(t)
  PROVE  RefsLie' /\ ((\E p : Forgets(p)) \/ UNCHANGED <<target, refCount, status>>)
<1>1. /\ mail[t] # <<>> /\ mail' = [mail EXCEPT ![t] = Tail(mail[t])]
      /\ UNCHANGED <<cleared, kept>> /\ Executes(t)
  BY DEF Receive
<1>2. cleared[t] = 0
  BY <1>1, ExecutesAlive DEF IInv
<1>3. CASE hold' = hold /\ Forget(Head(mail[t]))
  BY <1>1, <1>2, <1>3, HeadForgets
<1>4. CASE /\ Head(mail[t]) # Void /\ Head(mail[t]) \notin hold[t]
           /\ hold' = [hold EXCEPT ![t] = hold[t] \union {Head(mail[t])}]
           /\ UNCHANGED <<target, refCount, status>>
  <2>1. PICK s \in Seq(Refs \union {Void}) : s = mail[t] /\ s # <<>>
    BY <1>1 DEF IInv, TypeOK
  <2>2. PICK p \in Refs : p = s[1] /\ p = Head(s)
    BY <1>4, <2>1
  <2>3. /\ hold'[t] = hold[t] \union {p}
        /\ \A o \in Owners \ {t} : hold'[o] = hold[o]
    BY <1>4, <2>1, <2>2 DEF IInv, TypeOK, Owners
  <2>4. LosesLetter(t, 1)
    BY <1>1, <1>2, MailMovesUp
  <2>5. Lies(p) /\ Lies(p)'
    <3>1. 1 \in (cleared[t] + 1)..Len(mail[t]) /\ mail[t][1] = p
      BY <1>2, <2>1, <2>2
    <3>2. t \in Owners /\ p \in hold'[t]
      BY <2>3 DEF Owners
    <3>3. QED
      BY <3>1, <3>2 DEF Lies
  <2>6. ASSUME NEW r \in Refs \ {p} PROVE Lies(r)' <=> Lies(r)
    <3>1. \A o \in Owners : r \in hold'[o] <=> r \in hold[o]
      BY <2>3
    <3>2. \A u \in Tasks, j \in Int : <<u, j>> = <<t, 1>> => mail[u][j] # r
      BY <2>1, <2>2
    <3>3. (\E u \in Tasks : \E i \in (cleared'[u] + 1)..Len(mail'[u]) : mail'[u][i] = r)
            <=> \E u \in Tasks : \E j \in (cleared[u] + 1)..Len(mail[u]) : mail[u][j] = r
      BY <2>4, <3>2 DEF LosesLetter
    <3>4. QED
      BY <1>1, <3>1, <3>3 DEF Lies
  <2>7. RefsLie'
    BY <1>4, <2>5, <2>6 DEF IInv, RefsLie
  <2>8. QED
    BY <1>4, <2>7
<1>5. \/ hold' = hold /\ Forget(Head(mail[t]))
      \/ /\ Head(mail[t]) # Void /\ Head(mail[t]) \notin hold[t]
         /\ hold' = [hold EXCEPT ![t] = hold[t] \union {Head(mail[t])}]
         /\ UNCHANGED <<target, refCount, status>>
  <2>1. CASE Head(mail[t]) = Void
    <3>1. hold \in [Owners -> SUBSET Refs] /\ t \in Owners
      BY DEF IInv, TypeOK, Owners
    <3>2. hold' = hold
      BY <2>1, <3>1 DEF Receive
    <3>3. QED
      BY <2>1, <3>2 DEF Receive
  <2>2. CASE Head(mail[t]) # Void /\ Head(mail[t]) \in hold[t]
    <3>1. hold \in [Owners -> SUBSET Refs] /\ t \in Owners
      BY DEF IInv, TypeOK, Owners
    <3>2. hold[t] \union {Head(mail[t])} = hold[t]
      BY <2>2
    <3>3. hold' = hold
      BY <2>2, <3>1, <3>2 DEF Receive
    <3>4. QED
      BY <2>2, <3>3 DEF Receive
  <2>3. CASE Head(mail[t]) # Void /\ Head(mail[t]) \notin hold[t]
    BY <2>3 DEF Receive
  <2>4. QED
    BY <2>1, <2>2, <2>3
<1>6. QED
  BY <1>3, <1>4, <1>5

(* A step that forgets deletes none but the dead, takes no reference but the *)
(* one that is forgotten, and counts.                                        *)
LEMMA ForgetOutcome ==
  ASSUME IInv, (\E p : Forgets(p)) \/ UNCHANGED <<target, refCount, status>>
  PROVE  /\ status' \in [Tasks -> Statuses] /\ refCount' \in [Tasks -> Nat]
         /\ target' \in [Refs -> Tasks \union {NoTask}]
         /\ \A r \in Refs : target'[r] \in {target[r], NoTask}
         /\ \A t \in Tasks : \/ status'[t] = status[t]
                             \/ status[t] = "dead" /\ status'[t] = "deleting"
         /\ \A t \in Tasks : CountOf(t)'
<1>1. CASE \E p : Forgets(p)
  BY <1>1, ForgetCounts DEF Forgets, IInv
<1>2. CASE UNCHANGED <<target, refCount, status>>
  BY <1>2, CountKept DEF IInv, TypeOK
<1>3. QED
  BY <1>1, <1>2
-------------------------------------------------------------------------------
(* Every step keeps the invariant.                                           *)

(* The actions that forget.                                                  *)
Forgetting(o) ==
  \/ \E r \in Refs : Release(o, r)
  \/ o \in Tasks /\ (Receive(o) \/ ForgetKept(o) \/ ClearMail(o) \/ DestroyMail(o))

LEMMA ForgettingForgets ==
  ASSUME IInv, NEW o \in Owners, Forgetting(o)
  PROVE  RefsLie' /\ ((\E p : Forgets(p)) \/ UNCHANGED <<target, refCount, status>>)
  BY ReleaseForgets, ForgetKeptForgets, ClearMailForgets, ReceiveForgets, DestroyForgets
     DEF Forgetting

(* The actions that count nothing.                                           *)
Uncounted(o) ==
  \/ Launch(o) \/ Shutdown(o) \/ Awaited(o)
  \/ \E t \in Tasks : Await(o, t) \/ \E p \in hold[o] \union {Void} : Send(o, t, p)
  \/ o \in Tasks /\ \/ Start(o) \/ StartThread(o) \/ SuspendThread(o) \/ Complete(o)
                    \/ Listen(o) \/ ClearBegins(o) \/ ClearEnds(o) \/ ThreadEnds(o) \/ Delete(o)
                    \/ \E r \in Refs : Capture(o, r)

(* To be resumed is to be put into a queue by those who wait for a worker,   *)
(* and for a thread that is found starting to run or fail.                   *)
LEMMA ResumeSchedules ==
  ASSUME TypeOK, NEW t \in Tasks, Resume(t), t \in OSThreads => thread[t] = "up"
  PROVE  /\ scheduled' \in [Tasks -> BOOLEAN] /\ status' \in [Tasks -> Statuses]
         /\ aborted' = aborted \/ aborted' = TRUE
         /\ \A u \in Tasks \ {t} : scheduled'[u] = scheduled[u] /\ status'[u] = status[u]
         /\ \/ status'[t] = status[t]
            \/ status[t] = "starting" /\ status'[t] = "running" /\ thread[t] = "up"
         /\ \/ scheduled'[t] = scheduled[t]
            \/ /\ status[t] \in {"starting", "listening"} /\ t \notin OSThreads
               /\ status'[t] = status[t]
<1>0. status \in [Tasks -> Statuses] /\ scheduled \in [Tasks -> BOOLEAN]
  BY DEF TypeOK
<1>1. CASE thread[t] = "up"
  <2>1. /\ scheduled' = scheduled /\ (aborted' = aborted \/ aborted' = TRUE)
        /\ \/ status' = status
           \/ status[t] = "starting" /\ status' = [status EXCEPT ![t] = "running"]
    BY Zenon, <1>1 DEF Resume, ResumeThread, FoundStarting
  <2>2. QED
    BY <1>0, <1>1, <2>1 DEF Statuses
<1>2. CASE thread[t] # "up"
  <2>1. /\ status' = status /\ aborted' = aborted
        /\ \/ scheduled' = scheduled
           \/ /\ status[t] \in {"starting", "listening"}
              /\ scheduled' = [scheduled EXCEPT ![t] = TRUE]
    BY Zenon, <1>2 DEF Resume, Enqueue
  <2>2. QED
    BY <1>0, <1>2, <2>1
<1>3. QED
  BY <1>1, <1>2

LEMMA LaunchStatus ==
  ASSUME IInv, NEW o \in Owners, Launch(o)
  PROVE  UNCHANGED <<status, aborted>>
<1>1. PICK t \in Tasks : t = building[o]
  BY DEF IInv, TypeOK, Launch
<1>2. t \notin OSThreads => thread[t] # "up"
  BY DEF IInv, LifeOf
<1>3. QED
  BY <1>1, <1>2 DEF Launch, Resume, Enqueue

LEMMA SendStatus ==
  ASSUME IInv, NEW o \in Owners, NEW t \in Tasks, NEW p, Send(o, t, p)
  PROVE  /\ status' \in [Tasks -> Statuses] /\ (aborted' = aborted \/ aborted' = TRUE)
         /\ \A u \in Tasks : \/ status'[u] = status[u]
                             \/ /\ status[u] = "starting" /\ status'[u] = "running"
                                /\ thread[u] = "up"
<1>1. status \in [Tasks -> Statuses]
  BY DEF IInv, TypeOK
<1>2. CASE Resume(t)
  <2>1. \/ status' = status
        \/ /\ status[t] = "starting" /\ thread[t] = "up"
           /\ status' = [status EXCEPT ![t] = "running"]
    BY Zenon, <1>2 DEF Resume, ResumeThread, FoundStarting, Enqueue
  <2>2. aborted' = aborted \/ aborted' = TRUE
    BY Zenon, <1>2 DEF Resume, ResumeThread, FoundStarting, Enqueue
  <2>3. QED
    BY <1>1, <2>1, <2>2 DEF Statuses
<1>3. CASE status' = status /\ aborted' = TRUE
  BY <1>1, <1>3
<1>4. QED
  BY <1>2, <1>3 DEF Send

LEMMA UncountedStatus ==
  ASSUME IInv, NEW o \in Owners, Uncounted(o)
  PROVE  /\ UNCHANGED <<target, refCount>> /\ status' \in [Tasks -> Statuses]
         /\ \A u \in Tasks :
              \/ status'[u] = status[u]
              \/ /\ status[u] \notin Ended \union Gone \union {"none"}
                 /\ status'[u] \notin Ended \union Gone \union {"none"}
              \/ status[u] = "closing" /\ status'[u] = "clearing"
              \/ status[u] = "clearing" /\ status'[u] = "unbinding"
              \/ status[u] = "deleting" /\ status'[u] = "deleted"
<1>1. CASE \/ Launch(o) \/ Shutdown(o) \/ Awaited(o) \/ \E t \in Tasks : Await(o, t)
           \/ o \in Tasks /\ \/ StartThread(o) \/ Complete(o) \/ ThreadEnds(o)
                             \/ \E r \in Refs : Capture(o, r)
  <2>1. UNCHANGED <<target, refCount, status>>
    BY <1>1, LaunchStatus DEF Launch, Shutdown, Awaited, Await, StartThread, Complete,
                              ThreadEnds, Capture
  <2>2. QED
    BY <2>1 DEF IInv, TypeOK
<1>2. CASE o \in Tasks /\ (Start(o) \/ Listen(o) \/ SuspendThread(o))
  <2>1. status[o] \notin Ended \union Gone \union {"none"}
    <3>1. CASE Start(o)
      BY <1>2, <3>1 DEF Start, IInv, LifeOf, Ended, Gone
    <3>2. CASE Listen(o)
      BY <1>2, <3>2, ExecutesAlive DEF Listen, IInv
    <3>3. CASE SuspendThread(o)
      BY <3>3 DEF SuspendThread, Ended, Gone
    <3>4. QED
      BY <1>2, <3>1, <3>2, <3>3
  <2>2. status' = status \/ \E new \in {"running", "listening"} : status' = [status EXCEPT ![o] = new]
    BY <1>2 DEF Start, Listen, SuspendThread, FoundStarting
  <2>3. UNCHANGED <<target, refCount>>
    BY <1>2 DEF Start, Listen, SuspendThread
  <2>4. status \in [Tasks -> Statuses]
    BY DEF IInv, TypeOK
  <2>5. {"running", "listening"} \subseteq Statuses
    BY DEF Statuses
  <2>6. "running" \notin Ended \union Gone \union {"none"}
        /\ "listening" \notin Ended \union Gone \union {"none"}
    BY DEF Ended, Gone
  <2>7. CASE status' = status
    BY <2>3, <2>4, <2>7
  <2>8. ASSUME NEW new \in {"running", "listening"}, status' = [status EXCEPT ![o] = new]
        PROVE  /\ status' \in [Tasks -> Statuses]
               /\ \A u \in Tasks :
                    \/ status'[u] = status[u]
                    \/ /\ status[u] \notin Ended \union Gone \union {"none"}
                       /\ status'[u] \notin Ended \union Gone \union {"none"}
    BY <1>2, <2>1, <2>4, <2>5, <2>6, <2>8
  <2>9. QED
    BY <2>2, <2>3, <2>7, <2>8
<1>3. CASE o \in Tasks /\ (ClearBegins(o) \/ ClearEnds(o) \/ Delete(o))
  BY <1>3 DEF ClearBegins, ClearEnds, Delete, IInv, TypeOK, Statuses
<1>4. CASE \E t \in Tasks : \E p \in hold[o] \union {Void} : Send(o, t, p)
  <2>1. UNCHANGED <<target, refCount>>
    BY <1>4 DEF Send
  <2>2. {"starting", "running"} \intersect (Ended \union Gone \union {"none"}) = {}
    BY DEF Ended, Gone
  <2>3. QED
    BY <1>4, <2>1, <2>2, SendStatus
<1>5. QED
  BY <1>1, <1>2, <1>3, <1>4 DEF Uncounted

LEMMA CreateEffect ==
  ASSUME IInv, NEW o \in Owners, NEW t \in Tasks, NEW c \in SUBSET hold[o], Create(o, t, c)
  PROVE  /\ status[t] = "none" /\ status'[t] = "starting"
         /\ \A u \in Tasks \ {t} : status'[u] = status[u] /\ kept'[u] = kept[u]
         /\ kept[t] = {} /\ kept'[t] = c
         /\ building'[o] = t /\ \A p \in Owners \ {o} : building'[p] = building[p]
         /\ \A p \in Owners \ {o} : hold'[p] = hold[p]
         /\ \/ UNCHANGED <<target, refCount>> /\ hold'[o] = hold[o]
            \/ \E r \in Refs : NewRef(r, t) /\ hold'[o] = hold[o] \union {r}
<1>1. status[t] = "none" /\ status'[t] = "starting" /\ kept[t] = {}
  BY DEF Create, IInv, TypeOK, LifeOf
<1>2. /\ \A u \in Tasks \ {t} : status'[u] = status[u] /\ kept'[u] = kept[u]
      /\ kept'[t] = c /\ building'[o] = t
      /\ \A p \in Owners \ {o} : building'[p] = building[p]
  BY DEF Create, IInv, TypeOK
<1>3. CASE WithRef(o, t)
  BY <1>1, <1>2, <1>3 DEF WithRef, IInv, TypeOK
<1>4. CASE UNCHANGED <<target, refCount, hold>>
  BY <1>1, <1>2, <1>4
<1>5. QED
  BY <1>3, <1>4 DEF Create

(* The end of a task keeps its counter true: kill counts itself.             *)
LEMMA TerminateCounts ==
  ASSUME IInv, NEW t \in Tasks, Terminate(t)
  PROVE  /\ status' \in [Tasks -> Statuses]
         /\ \A u \in Tasks \ {t} : status'[u] = status[u]
         /\ status'[t] \in {"closing", "deleting"}
         /\ \A u \in Tasks : CountOf(u)' /\ refCount'[u] \in Nat
<1>1. status[t] \notin Ended \union Gone
  BY ExecutesAlive DEF Terminate, IInv
<1>2. refCount[t] = Cardinality(RefsTo(t)) /\ refCount \in [Tasks -> Nat]
  BY <1>1, RefsFinite DEF IInv, CountOf, Closing, Ended, TypeOK
<1>3. target' = target /\ \A u \in Tasks : RefsTo(u)' = RefsTo(u)
  BY DEF Terminate, RefsTo
<1>4. CASE refCount[t] = 0
  <2>1. refCount' = refCount /\ status' = [status EXCEPT ![t] = "deleting"]
    BY <1>4 DEF Terminate
  <2>2. RefsTo(t) = {}
    BY <1>2, <1>4, RefsFinite
  <2>3. /\ status' \in [Tasks -> Statuses] /\ status'[t] = "deleting"
        /\ \A u \in Tasks \ {t} : status'[u] = status[u]
    BY <2>1 DEF IInv, TypeOK, Statuses
  <2>4. CountOf(t)'
    <3>1. RefsTo(t)' = {} /\ Cardinality(RefsTo(t)') = 0 /\ refCount'[t] = 0
      <4>1. RefsTo(t)' = RefsTo(t) /\ refCount'[t] = refCount[t]
        BY <1>3, <2>1
      <4>2. QED
        BY <1>2, <1>4, <2>2, <4>1
    <3>2. status'[t] \notin Closing \union {"dead"}
      BY <2>3 DEF Closing
    <3>3. QED
      BY <3>1, <3>2 DEF CountOf
  <2>5. \A u \in Tasks \ {t} : CountOf(u)'
    BY <1>3, <2>1, <2>3, CountKept DEF IInv
  <2>6. QED
    BY <1>2, <2>1, <2>3, <2>4, <2>5
<1>5. CASE refCount[t] # 0
  <2>1. /\ refCount' = [refCount EXCEPT ![t] = refCount[t] + 1]
        /\ status' = [status EXCEPT ![t] = "closing"]
    BY <1>5 DEF Terminate, HoldItself
  <2>2. /\ status' \in [Tasks -> Statuses] /\ status'[t] = "closing"
        /\ \A u \in Tasks \ {t} : status'[u] = status[u]
    BY <2>1 DEF IInv, TypeOK, Statuses
  <2>3. /\ refCount'[t] = refCount[t] + 1 /\ refCount'[t] \in Nat
        /\ \A u \in Tasks \ {t} : refCount'[u] = refCount[u]
    BY <1>2, <2>1
  <2>4. CountOf(t)'
    BY <1>2, <1>3, <2>2, <2>3 DEF CountOf, Closing, Gone
  <2>5. ASSUME NEW u \in Tasks \ {t} PROVE CountOf(u)'
    BY <1>3, <2>2, <2>3, <2>5 DEF IInv, CountOf
  <2>6. QED
    BY <1>2, <2>2, <2>3, <2>4, <2>5
<1>6. QED
  BY <1>4, <1>5

LEMMA CloseCounts ==
  ASSUME IInv, NEW t \in Tasks, Close(t)
  PROVE  /\ status' \in [Tasks -> Statuses] /\ status[t] = "unbinding"
         /\ \A u \in Tasks \ {t} : status'[u] = status[u]
         /\ status'[t] \in {"dead", "deleting"}
         /\ \A u \in Tasks : CountOf(u)' /\ refCount'[u] \in Nat
<1>1. status[t] = "unbinding" /\ refCount' = [refCount EXCEPT ![t] = refCount[t] - 1]
        /\ status' = [status EXCEPT ![t] = IF refCount[t] = 1 THEN "deleting" ELSE "dead"]
        /\ target' = target
  BY DEF Close, LastOne
<1>2. /\ status' \in [Tasks -> Statuses]
      /\ status'[t] = IF refCount[t] = 1 THEN "deleting" ELSE "dead"
      /\ \A u \in Tasks \ {t} : status'[u] = status[u]
  BY <1>1 DEF IInv, TypeOK, Statuses
<1>3. PICK n \in Nat : n = Cardinality(RefsTo(t)) /\ (n = 0 <=> RefsTo(t) = {})
  BY RefsFinite
<1>4. refCount[t] = n + 1
  BY <1>1, <1>3 DEF IInv, CountOf, Closing
<1>5. refCount'[t] = n /\ \A u \in Tasks \ {t} : refCount'[u] = refCount[u]
  BY <1>1, <1>4 DEF IInv, TypeOK
<1>6. \A u \in Tasks : RefsTo(u)' = RefsTo(u)
  BY <1>1 DEF RefsTo
<1>7. CountOf(t)'
  BY <1>2, <1>3, <1>4, <1>5, <1>6 DEF CountOf, Closing, Gone
<1>8. ASSUME NEW u \in Tasks \ {t} PROVE CountOf(u)' /\ refCount'[u] \in Nat
  BY <1>2, <1>5, <1>6, <1>8 DEF IInv, CountOf, TypeOK
<1>9. QED
  BY <1>1, <1>2, <1>5, <1>7, <1>8

(* What a step is.                                                           *)
LEMMA Steps ==
  ASSUME IInv, Next
  PROVE  \/ \E o \in Owners : Forgetting(o) \/ Uncounted(o)
         \/ \E o \in Owners, t \in Tasks : \E c \in SUBSET hold[o] : Create(o, t, c)
         \/ \E t \in Tasks : Terminate(t) \/ Close(t) \/ \E r \in Refs : Self(t, r)
<1>1. \A t \in Tasks : t \in Owners
  BY DEF Owners
<1>2. QED
  BY <1>1 DEF Next, Forgetting, Uncounted

LEMMA CountStep ==
  ASSUME IInv, Next
  PROVE  /\ \A t \in Tasks : CountOf(t)'
         /\ refCount' \in [Tasks -> Nat] /\ status' \in [Tasks -> Statuses]
<1>0. refCount \in [Tasks -> Nat] /\ status \in [Tasks -> Statuses]
  BY DEF IInv, TypeOK
<1>1. ASSUME NEW o \in Owners, Forgetting(o)
      PROVE  /\ \A t \in Tasks : CountOf(t)'
             /\ refCount' \in [Tasks -> Nat] /\ status' \in [Tasks -> Statuses]
  BY <1>1, ForgettingForgets, ForgetOutcome
<1>2. ASSUME NEW o \in Owners, Uncounted(o)
      PROVE  /\ \A t \in Tasks : CountOf(t)'
             /\ refCount' \in [Tasks -> Nat] /\ status' \in [Tasks -> Statuses]
  <2>1. \A u \in Tasks : \/ status'[u] = status[u]
                         \/ /\ status[u] \notin Ended \union Gone
                            /\ status'[u] \notin Ended \union Gone
                         \/ status[u] \in Closing /\ status'[u] \in Closing
                         \/ status[u] = "deleting" /\ status'[u] = "deleted"
    BY <1>2, UncountedStatus DEF Closing
  <2>2. QED
    BY <1>0, <1>2, <2>1, UncountedStatus, CountKept DEF IInv
<1>3. ASSUME NEW o \in Owners, NEW t \in Tasks, NEW c \in SUBSET hold[o], Create(o, t, c)
      PROVE  /\ \A u \in Tasks : CountOf(u)'
             /\ refCount' \in [Tasks -> Nat] /\ status' \in [Tasks -> Statuses]
  <2>1. /\ status[t] = "none" /\ status'[t] = "starting"
        /\ \A u \in Tasks \ {t} : status'[u] = status[u]
        /\ UNCHANGED <<target, refCount>> \/ \E r \in Refs : NewRef(r, t)
    BY <1>3, CreateEffect
  <2>2. status' \in [Tasks -> Statuses]
    BY <1>0, <1>3 DEF Create, Statuses
  <2>3. CASE UNCHANGED <<target, refCount>>
    <3>1. \A u \in Tasks : \/ status'[u] = status[u]
                           \/ /\ status[u] \notin Ended \union Gone
                              /\ status'[u] \notin Ended \union Gone
      BY <2>1 DEF Ended, Gone
    <3>2. QED
      BY <1>0, <2>2, <2>3, <3>1, CountKept DEF IInv
  <2>4. ASSUME NEW r \in Refs, NewRef(r, t)
        PROVE  (\A u \in Tasks : CountOf(u)') /\ refCount' \in [Tasks -> Nat]
    <3>1. status[t] \notin Ended \union Gone /\ status'[t] \notin Ended \union Gone
      BY <2>1 DEF Ended, Gone
    <3>2. \A u \in Tasks : CountOf(u)' /\ refCount'[u] \in Nat
      BY <2>1, <2>4, <3>1, NewRefCounts DEF IInv
    <3>3. QED
      BY <1>0, <2>4, <3>2 DEF NewRef
  <2>5. QED
    BY <2>1, <2>2, <2>3, <2>4
<1>4. ASSUME NEW t \in Tasks, Terminate(t) \/ Close(t)
      PROVE  /\ \A u \in Tasks : CountOf(u)'
             /\ refCount' \in [Tasks -> Nat] /\ status' \in [Tasks -> Statuses]
  <2>1. /\ status' \in [Tasks -> Statuses]
        /\ \A u \in Tasks : CountOf(u)' /\ refCount'[u] \in Nat
    BY <1>4, TerminateCounts, CloseCounts
  <2>2. refCount' = refCount \/ \E n : refCount' = [refCount EXCEPT ![t] = n]
    BY <1>4 DEF Terminate, Close, HoldItself
  <2>3. QED
    BY <1>0, <2>1, <2>2
<1>5. ASSUME NEW t \in Tasks, NEW r \in Refs, Self(t, r)
      PROVE  /\ \A u \in Tasks : CountOf(u)'
             /\ refCount' \in [Tasks -> Nat] /\ status' \in [Tasks -> Statuses]
  <2>1. NewRef(r, t) /\ status' = status /\ status[t] \notin Ended \union Gone
    BY <1>5, ExecutesAlive DEF Self, IInv
  <2>2. \A u \in Tasks : CountOf(u)' /\ refCount'[u] \in Nat
    BY <2>1, NewRefCounts DEF IInv
  <2>3. QED
    BY <1>0, <2>1, <2>2 DEF NewRef
<1>6. QED
  BY <1>1, <1>2, <1>3, <1>4, <1>5, Steps

(* A task nobody does anything with lives on as it did.                      *)
LEMMA LifeKept ==
  ASSUME NEW t \in Tasks, LifeOf(t), runners'[t] = runners[t], scheduled'[t] = scheduled[t],
         thread'[t] = thread[t], status'[t] = "none" => kept'[t] = kept[t],
         \/ status'[t] = status[t]
         \/ status[t] = "dead" /\ status'[t] = "deleting"
         \/ status[t] = "closing" /\ status'[t] = "clearing"
         \/ status[t] = "clearing" /\ status'[t] = "unbinding"
         \/ status[t] = "unbinding" /\ status'[t] \in {"dead", "deleting"}
         \/ status[t] = "deleting" /\ status'[t] = "deleted"
  PROVE  LifeOf(t)'
  BY DEF LifeOf

(* Who runs a task when something is done to it,                             *)
LEMMA RunLife ==
  ASSUME IInv, NEW t \in Tasks,
         Start(t) \/ StartThread(t) \/ SuspendThread(t) \/ Listen(t) \/ Terminate(t)
  PROVE  /\ \A u \in Tasks : LifeOf(u)'
         /\ runners' \in [Tasks -> 0..1] /\ scheduled' \in [Tasks -> BOOLEAN]
         /\ \A u \in Tasks \ {t} : status'[u] = status[u] /\ thread'[u] = thread[u]
<1>0. /\ runners \in [Tasks -> 0..1] /\ scheduled \in [Tasks -> BOOLEAN]
      /\ thread \in [Tasks -> {"none", "spawned", "up"}] /\ status \in [Tasks -> Statuses]
      /\ LifeOf(t) /\ kept' = kept
  BY DEF IInv, TypeOK, Start, StartThread, SuspendThread, Listen, Terminate
<1>1. /\ \A u \in Tasks \ {t} : /\ runners'[u] = runners[u] /\ scheduled'[u] = scheduled[u]
                                /\ thread'[u] = thread[u] /\ status'[u] = status[u]
  BY <1>0 DEF Start, StartThread, SuspendThread, FoundStarting, Listen, Terminate
<1>2. \A u \in Tasks \ {t} : LifeOf(u)'
  BY <1>0, <1>1, LifeKept DEF IInv
<1>3. CASE Start(t)
  <2>1. status[t] \in {"starting", "listening"} /\ t \notin OSThreads /\ runners[t] = 0
          /\ thread[t] = "none"
    BY <1>0, <1>3 DEF Start, LifeOf
  <2>2. status'[t] = "running" /\ thread' = thread /\ scheduled'[t] = FALSE /\ runners'[t] = 1
          /\ runners' \in [Tasks -> 0..1] /\ scheduled' \in [Tasks -> BOOLEAN]
    BY <1>0, <1>3, <2>1 DEF Start
  <2>3. LifeOf(t)'
    BY <2>1, <2>2 DEF LifeOf
  <2>4. QED
    BY <1>1, <1>2, <2>2, <2>3
<1>4. CASE StartThread(t)
  <2>1. status[t] = "starting" /\ t \in OSThreads /\ runners[t] = 0 /\ ~scheduled[t]
    BY <1>0, <1>4 DEF StartThread, LifeOf
  <2>2. status' = status /\ thread'[t] = "up" /\ scheduled' = scheduled /\ runners'[t] = 1
          /\ runners' \in [Tasks -> 0..1]
    BY <1>0, <1>4, <2>1 DEF StartThread
  <2>3. LifeOf(t)'
    BY <2>1, <2>2 DEF LifeOf
  <2>4. QED
    BY <1>0, <1>1, <1>2, <2>2, <2>3
<1>5. CASE Listen(t)
  <2>1. status[t] = "running" /\ t \notin OSThreads /\ runners[t] = 1 /\ ~scheduled[t]
          /\ thread[t] = "none"
    BY <1>0, <1>5, ExecutesAlive DEF Listen, LifeOf, IInv
  <2>2. status'[t] = "listening" /\ thread' = thread /\ scheduled' = scheduled
          /\ runners'[t] = 0 /\ runners' \in [Tasks -> 0..1]
    BY <1>0, <1>5, <2>1 DEF Listen
  <2>3. LifeOf(t)'
    BY <2>1, <2>2 DEF LifeOf
  <2>4. QED
    BY <1>0, <1>1, <1>2, <2>2, <2>3
<1>6. CASE Terminate(t)
  <2>1. /\ runners[t] = 1 /\ ~scheduled[t] /\ thread[t] # "spawned" /\ status[t] # "none"
        /\ thread[t] # "none" => t \in OSThreads
    BY <1>0, <1>6, ExecutesAlive DEF Terminate, LifeOf, IInv
  <2>2. /\ status'[t] \in {"closing", "deleting"} /\ thread' = thread
        /\ runners'[t] = 0 /\ runners' \in [Tasks -> 0..1]
    BY <1>0, <1>6, <2>1 DEF Terminate
  <2>3. scheduled'[t] = FALSE /\ scheduled' \in [Tasks -> BOOLEAN]
    BY <1>0, <1>6, <2>1 DEF Terminate
  <2>4. LifeOf(t)'
    BY <2>1, <2>2, <2>3 DEF LifeOf
  <2>5. QED
    BY <1>1, <1>2, <2>2, <2>3, <2>4
<1>7. CASE SuspendThread(t)
  <2>1. status[t] = "starting" /\ thread[t] = "up" /\ t \in OSThreads /\ runners[t] = 1
          /\ ~scheduled[t]
    BY <1>0, <1>7 DEF SuspendThread, LifeOf
  <2>2. status'[t] \in {"starting", "running"} /\ UNCHANGED <<scheduled, thread, runners>>
    BY <1>0, <1>7, <2>1 DEF SuspendThread, FoundStarting
  <2>3. LifeOf(t)'
    BY <2>1, <2>2 DEF LifeOf
  <2>4. QED
    BY <1>0, <1>1, <1>2, <2>2, <2>3
<1>8. QED
  BY <1>3, <1>4, <1>5, <1>6, <1>7

LEMMA LaunchLife ==
  ASSUME IInv, NEW o \in Owners, Launch(o)
  PROVE  /\ \A u \in Tasks : LifeOf(u)'
         /\ scheduled' \in [Tasks -> BOOLEAN]
         /\ thread' \in [Tasks -> {"none", "spawned", "up"}]
         /\ \A u \in Tasks : thread'[u] # thread[u] => u = building[o]
<1>0. /\ scheduled \in [Tasks -> BOOLEAN] /\ thread \in [Tasks -> {"none", "spawned", "up"}]
      /\ UNCHANGED <<status, runners, kept>>
  BY LaunchStatus DEF IInv, TypeOK, Launch
<1>1. PICK t \in Tasks : t = building[o]
  BY DEF IInv, TypeOK, Launch
<1>2. /\ LifeOf(t) /\ status[t] # "none"
      /\ t \in OSThreads => status[t] = "starting" /\ thread[t] = "none"
  BY <1>1 DEF IInv, BuiltOnce, Launch
<1>3. CASE t \in OSThreads
  <2>1. thread' = [thread EXCEPT ![t] = "spawned"] /\ scheduled' = scheduled
    BY <1>1, <1>3 DEF Launch
  <2>2. thread'[t] = "spawned" /\ \A u \in Tasks \ {t} : thread'[u] = thread[u]
    BY <1>0, <2>1
  <2>3. LifeOf(t)'
    BY <1>0, <1>2, <1>3, <2>1, <2>2 DEF LifeOf
  <2>4. \A u \in Tasks \ {t} : LifeOf(u)'
    BY <1>0, <2>1, <2>2, LifeKept DEF IInv
  <2>5. QED
    BY <1>0, <1>1, <2>1, <2>2, <2>3, <2>4
<1>4. CASE t \notin OSThreads
  <2>1. Resume(t) /\ thread' = thread
    BY <1>1, <1>4 DEF Launch
  <2>2. /\ scheduled' \in [Tasks -> BOOLEAN]
        /\ \A u \in Tasks \ {t} : scheduled'[u] = scheduled[u]
        /\ scheduled'[t] = scheduled[t] \/ status[t] \in {"starting", "listening"}
    BY <1>4, <2>1, ResumeSchedules DEF IInv
  <2>3. LifeOf(t)'
    BY <1>0, <1>2, <1>4, <2>1, <2>2 DEF LifeOf
  <2>4. \A u \in Tasks \ {t} : LifeOf(u)'
    BY <1>0, <2>1, <2>2, LifeKept DEF IInv
  <2>5. QED
    BY <1>0, <2>1, <2>2, <2>3, <2>4
<1>5. QED
  BY <1>3, <1>4

(* or something is sent to it: only when its thread is up.                   *)
LEMMA SendLife ==
  ASSUME ~EarlyUse, IInv, NEW o \in Owners, NEW t \in Tasks, NEW p, Send(o, t, p)
  PROVE  /\ \A u \in Tasks : LifeOf(u)'
         /\ scheduled' \in [Tasks -> BOOLEAN]
<1>1. (t \in OSThreads => thread[t] = "up") /\ UNCHANGED <<runners, thread, kept>> /\ LifeOf(t)
  BY DEF Send, IInv
<1>2. CASE UNCHANGED <<status, scheduled>>
  BY <1>1, <1>2, LifeKept DEF IInv, TypeOK
<1>3. CASE Resume(t)
  <2>1. /\ scheduled' \in [Tasks -> BOOLEAN]
        /\ \A u \in Tasks \ {t} : scheduled'[u] = scheduled[u] /\ status'[u] = status[u]
        /\ \/ status'[t] = status[t]
           \/ status[t] = "starting" /\ status'[t] = "running" /\ thread[t] = "up"
        /\ \/ scheduled'[t] = scheduled[t]
           \/ /\ status[t] \in {"starting", "listening"} /\ t \notin OSThreads
              /\ status'[t] = status[t]
    BY <1>1, <1>3, ResumeSchedules DEF IInv
  <2>2. LifeOf(t)'
    <3>1. CASE status'[t] = status[t]
      BY <1>1, <2>1, <3>1 DEF LifeOf
    <3>2. CASE status[t] = "starting" /\ status'[t] = "running" /\ thread[t] = "up"
      BY <1>1, <2>1, <3>2 DEF LifeOf
    <3>3. QED
      BY <2>1, <3>1, <3>2
  <2>3. \A u \in Tasks \ {t} : LifeOf(u)'
    BY <1>1, <2>1, LifeKept DEF IInv
  <2>4. QED
    BY <2>1, <2>2, <2>3
<1>4. QED
  BY <1>2, <1>3 DEF Send

LEMMA CreateLife ==
  ASSUME IInv, NEW o \in Owners, NEW t \in Tasks, NEW c \in SUBSET hold[o], Create(o, t, c)
  PROVE  \A u \in Tasks : LifeOf(u)'
<1>1. /\ status[t] = "none" /\ status'[t] = "starting"
      /\ \A u \in Tasks \ {t} : status'[u] = status[u] /\ kept'[u] = kept[u]
  BY CreateEffect
<1>2. UNCHANGED <<runners, scheduled, thread>>
  BY DEF Create
<1>3. LifeOf(t)'
  BY <1>1, <1>2 DEF LifeOf, IInv
<1>4. \A u \in Tasks \ {t} : LifeOf(u)'
  BY <1>1, <1>2, LifeKept DEF IInv
<1>5. QED
  BY <1>3, <1>4

LEMMA ThreadEndsLife ==
  ASSUME IInv, NEW t \in Tasks, ThreadEnds(t)
  PROVE  /\ \A u \in Tasks : LifeOf(u)'
         /\ thread' \in [Tasks -> {"none", "spawned", "up"}]
<1>1. /\ status[t] \in {"dead", "deleted"} /\ UNCHANGED <<runners, scheduled, status, kept>>
      /\ thread' = [thread EXCEPT ![t] = "none"] /\ thread[t] = "up"
  BY DEF ThreadEnds
<1>2. /\ thread' \in [Tasks -> {"none", "spawned", "up"}] /\ thread'[t] = "none"
      /\ \A u \in Tasks \ {t} : thread'[u] = thread[u]
  BY <1>1 DEF IInv, TypeOK
<1>3. LifeOf(t)'
  BY <1>1, <1>2 DEF LifeOf, IInv
<1>4. \A u \in Tasks \ {t} : LifeOf(u)'
  BY <1>1, <1>2, LifeKept DEF IInv
<1>5. QED
  BY <1>2, <1>3, <1>4

(* The actions that change nothing in who runs what.                         *)
LEMMA OtherLife ==
  ASSUME IInv, NEW o \in Owners,
         \/ Forgetting(o)
         \/ Shutdown(o) \/ Awaited(o) \/ \E t \in Tasks : Await(o, t)
         \/ o \in Tasks /\ \/ Complete(o) \/ ClearBegins(o) \/ ClearEnds(o) \/ Delete(o) \/ Close(o)
                           \/ \E r \in Refs : Capture(o, r) \/ Self(o, r)
  PROVE  (\A u \in Tasks : LifeOf(u)') /\ UNCHANGED <<runners, scheduled, thread>>
<1>1. UNCHANGED <<runners, scheduled, thread>>
  BY DEF Forgetting, Release, Receive, ForgetKept, ClearMail, DestroyMail, Shutdown, Awaited,
         Await, Complete, ClearBegins, ClearEnds, Delete, Close, Capture, Self
<1>2. CASE Forgetting(o)
  <2>1. \A u \in Tasks : \/ status'[u] = status[u]
                         \/ status[u] = "dead" /\ status'[u] = "deleting"
    BY <1>2, ForgettingForgets, ForgetOutcome
  <2>2. \A u \in Tasks : status'[u] = "none" => kept'[u] = kept[u]
    <3>1. CASE o \in Tasks /\ ForgetKept(o)
      <4>1. status[o] # "none" /\ \A u \in Tasks \ {o} : kept'[u] = kept[u]
        BY <3>1 DEF ForgetKept, IInv, TypeOK
      <4>2. QED
        BY <2>1, <4>1
    <3>2. CASE kept' = kept
      BY <3>2
    <3>3. QED
      BY <1>2, <3>1, <3>2 DEF Forgetting, Release, Receive, ClearMail, DestroyMail
  <2>3. QED
    BY <1>1, <2>1, <2>2, LifeKept DEF IInv
<1>3. CASE \/ Shutdown(o) \/ Awaited(o) \/ \E t \in Tasks : Await(o, t)
           \/ o \in Tasks /\ (Complete(o) \/ \E r \in Refs : Self(o, r))
  <2>1. UNCHANGED <<status, kept>>
    BY <1>3 DEF Shutdown, Awaited, Await, Complete, Self
  <2>2. QED
    BY <1>1, <2>1, LifeKept DEF IInv
<1>4. CASE o \in Tasks /\ \E r \in Refs : Capture(o, r)
  <2>1. status' = status /\ status[o] # "none"
    BY <1>4, ExecutesAlive DEF Capture, IInv
  <2>2. \A u \in Tasks \ {o} : kept'[u] = kept[u]
    BY <1>4 DEF Capture, IInv, TypeOK
  <2>3. QED
    BY <1>1, <2>1, <2>2, LifeKept DEF IInv
<1>5. CASE o \in Tasks /\ (ClearBegins(o) \/ ClearEnds(o) \/ Delete(o) \/ Close(o))
  <2>1. /\ kept' = kept
        /\ \A u \in Tasks : \/ status'[u] = status[u]
                            \/ status[u] = "closing" /\ status'[u] = "clearing"
                            \/ status[u] = "clearing" /\ status'[u] = "unbinding"
                            \/ status[u] = "unbinding" /\ status'[u] \in {"dead", "deleting"}
                            \/ status[u] = "deleting" /\ status'[u] = "deleted"
    BY <1>5 DEF ClearBegins, ClearEnds, Delete, Close, IInv, TypeOK
  <2>2. QED
    BY <1>1, <2>1, LifeKept DEF IInv
<1>6. QED
  BY <1>2, <1>3, <1>4, <1>5

LEMMA LifeStep ==
  ASSUME ~EarlyUse, IInv, Next
  PROVE  /\ \A u \in Tasks : LifeOf(u)'
         /\ runners' \in [Tasks -> 0..1] /\ scheduled' \in [Tasks -> BOOLEAN]
         /\ thread' \in [Tasks -> {"none", "spawned", "up"}]
<1>0. /\ runners \in [Tasks -> 0..1] /\ scheduled \in [Tasks -> BOOLEAN]
      /\ thread \in [Tasks -> {"none", "spawned", "up"}]
  BY DEF IInv, TypeOK
<1> DEFINE Goal == /\ \A u \in Tasks : LifeOf(u)'
                   /\ runners' \in [Tasks -> 0..1] /\ scheduled' \in [Tasks -> BOOLEAN]
                   /\ thread' \in [Tasks -> {"none", "spawned", "up"}]
<1>1. ASSUME NEW o \in Owners,
             \/ Forgetting(o)
             \/ Shutdown(o) \/ Awaited(o) \/ \E t \in Tasks : Await(o, t)
             \/ o \in Tasks /\ \/ Complete(o) \/ ClearBegins(o) \/ ClearEnds(o) \/ Delete(o) \/ Close(o)
                               \/ \E r \in Refs : Capture(o, r) \/ Self(o, r)
      PROVE  Goal
  BY <1>0, <1>1, OtherLife
<1>2. ASSUME NEW t \in Tasks,
             Start(t) \/ StartThread(t) \/ SuspendThread(t) \/ Listen(t) \/ Terminate(t)
      PROVE  Goal
  <2>1. thread' = thread \/ thread' = [thread EXCEPT ![t] = "up"]
    BY <1>2 DEF Start, StartThread, SuspendThread, Listen, Terminate
  <2>2. QED
    BY <1>0, <1>2, <2>1, RunLife
<1>3. ASSUME NEW o \in Owners, Launch(o) PROVE Goal
  <2>1. runners' = runners
    BY <1>3 DEF Launch
  <2>2. QED
    BY <1>0, <1>3, <2>1, LaunchLife
<1>4. ASSUME NEW o \in Owners, NEW t \in Tasks, NEW p, Send(o, t, p) PROVE Goal
  <2>1. UNCHANGED <<runners, thread>>
    BY <1>4 DEF Send
  <2>2. QED
    BY <1>0, <1>4, <2>1, SendLife
<1>5. ASSUME NEW o \in Owners, NEW t \in Tasks, NEW c \in SUBSET hold[o], Create(o, t, c)
      PROVE  Goal
  <2>1. UNCHANGED <<runners, scheduled, thread>>
    BY <1>5 DEF Create
  <2>2. QED
    BY <1>0, <1>5, <2>1, CreateLife
<1>6. ASSUME NEW t \in Tasks, ThreadEnds(t) PROVE Goal
  <2>1. UNCHANGED <<runners, scheduled>>
    BY <1>6 DEF ThreadEnds
  <2>2. QED
    BY <1>0, <1>6, <2>1, ThreadEndsLife
<1>7. \/ \E o \in Owners :
           \/ Forgetting(o)
           \/ Shutdown(o) \/ Awaited(o) \/ \E t \in Tasks : Await(o, t)
           \/ o \in Tasks /\ \/ Complete(o) \/ ClearBegins(o) \/ ClearEnds(o) \/ Delete(o) \/ Close(o)
                             \/ \E r \in Refs : Capture(o, r) \/ Self(o, r)
      \/ \E t \in Tasks :
           Start(t) \/ StartThread(t) \/ SuspendThread(t) \/ Listen(t) \/ Terminate(t)
      \/ \E o \in Owners : \/ Launch(o)
                           \/ \E t \in Tasks : \/ \E p \in hold[o] \union {Void} : Send(o, t, p)
                                               \/ \E c \in SUBSET hold[o] : Create(o, t, c)
      \/ \E t \in Tasks : ThreadEnds(t)
  <2>1. \A t \in Tasks : t \in Owners
    BY DEF Owners
  <2>2. QED
    BY <2>1, Steps DEF Uncounted
<1>8. Goal
  BY <1>1, <1>2, <1>3, <1>4, <1>5, <1>6, <1>7
<1>9. QED
  BY <1>8

(* A task that has begun to end goes on with that, and begins with kill.     *)
LEMMA StatusStep ==
  ASSUME IInv, Next, NEW u \in Tasks
  PROVE  /\ status[u] # "none" => status'[u] # "none"
         /\ status[u] \in Ended \union Gone => status'[u] \in Ended \union Gone
         /\ status'[u] \in Ended \union Gone => status[u] \in Ended \union Gone \/ Terminate(u)
<1>1. ASSUME NEW o \in Owners, Forgetting(o)
      PROVE  status'[u] = status[u] \/ (status[u] = "dead" /\ status'[u] = "deleting")
  BY <1>1, ForgettingForgets, ForgetOutcome
<1>2. ASSUME NEW o \in Owners, Uncounted(o)
      PROVE  \/ status'[u] = status[u]
             \/ /\ status[u] \notin Ended \union Gone \union {"none"}
                /\ status'[u] \notin Ended \union Gone \union {"none"}
             \/ status[u] = "closing" /\ status'[u] = "clearing"
             \/ status[u] = "clearing" /\ status'[u] = "unbinding"
             \/ status[u] = "deleting" /\ status'[u] = "deleted"
  BY <1>2, UncountedStatus
<1>3. ASSUME NEW o \in Owners, NEW t \in Tasks, NEW c \in SUBSET hold[o], Create(o, t, c)
      PROVE  status'[u] = status[u] \/ (status[u] = "none" /\ status'[u] = "starting")
  BY <1>3, CreateEffect
<1>4. ASSUME NEW t \in Tasks, Terminate(t)
      PROVE  status'[u] = status[u] \/ (Terminate(u) /\ status'[u] \in {"closing", "deleting"})
  BY <1>4, TerminateCounts
<1>5. ASSUME NEW t \in Tasks, Close(t)
      PROVE  status'[u] = status[u]
               \/ (status[u] = "unbinding" /\ status'[u] \in {"dead", "deleting"})
  BY <1>5, CloseCounts
<1>6. ASSUME NEW t \in Tasks, NEW r \in Refs, Self(t, r) PROVE status'[u] = status[u]
  BY <1>6 DEF Self
<1>7. status[u] = "none" => status[u] \notin Ended \union Gone
  BY DEF Ended, Gone
<1>8. \A s \in {"closing", "clearing", "unbinding", "dead", "deleting", "deleted"} :
        s \in Ended \union Gone /\ s # "none"
  BY DEF Ended, Gone
<1>9. "starting" \notin Ended \union Gone \union {"none"}
  BY DEF Ended, Gone
<1>10. QED
  BY <1>1, <1>2, <1>3, <1>4, <1>5, <1>6, <1>7, <1>8, <1>9, Steps

(* clear takes the bounds of the mailbox, and nothing is taken out of it     *)
(* meanwhile.                                                                *)
LEMMA ClearBound ==
  ASSUME IInv, Next
  PROVE  /\ clearEnd' \in [Tasks -> Nat]
         /\ \A u \in Tasks : status'[u] = "clearing" => clearEnd'[u] <= Len(mail'[u])
<1>0. /\ clearEnd \in [Tasks -> Nat] /\ mail \in [Tasks -> Seq(Refs \union {Void})]
      /\ status \in [Tasks -> Statuses]
      /\ \A u \in Tasks : /\ Len(mail[u]) \in Nat
                          /\ status[u] = "clearing" => clearEnd[u] <= Len(mail[u])
  BY DEF IInv, TypeOK, MailOf
<1>1. ASSUME NEW t \in Tasks, ClearBegins(t)
      PROVE  /\ clearEnd' \in [Tasks -> Nat]
             /\ \A u \in Tasks : status'[u] = "clearing" => clearEnd'[u] <= Len(mail'[u])
  <2>1. /\ mail' = mail /\ clearEnd' = [clearEnd EXCEPT ![t] = Len(mail[t])]
        /\ \A u \in Tasks \ {t} : status'[u] = status[u]
    BY <1>0, <1>1 DEF ClearBegins
  <2>2. PICK n \in Nat : n = Len(mail[t])
    BY <1>0
  <2>3. /\ clearEnd' \in [Tasks -> Nat] /\ clearEnd'[t] = n
        /\ \A u \in Tasks \ {t} : clearEnd'[u] = clearEnd[u]
    BY <1>0, <2>1, <2>2
  <2>4. QED
    BY <1>0, <2>1, <2>2, <2>3
<1>2. ASSUME ~\E t \in Tasks : ClearBegins(t), NEW u \in Tasks, status'[u] = "clearing"
      PROVE  status[u] = "clearing"
  <2>1. ASSUME NEW o \in Owners, Uncounted(o) PROVE status[u] = "clearing"
    <3>1. CASE \E t \in Tasks : \E p \in hold[o] \union {Void} : Send(o, t, p)
      BY <1>2, <3>1, SendStatus
    <3>2. CASE Launch(o)
      BY <1>2, <3>2, LaunchStatus
    <3>3. CASE \/ Shutdown(o) \/ Awaited(o) \/ \E t \in Tasks : Await(o, t)
               \/ /\ o \in Tasks
                  /\ \/ StartThread(o) \/ Complete(o) \/ ThreadEnds(o)
                     \/ \E r \in Refs : Capture(o, r)
      BY <1>2, <3>3 DEF Shutdown, Awaited, Await, StartThread, Complete, ThreadEnds, Capture
    <3>4. CASE /\ o \in Tasks
               /\ \/ Start(o) \/ SuspendThread(o) \/ Listen(o) \/ ClearEnds(o)
                  \/ Delete(o)
      <4>1. \/ status' = status
            \/ \E new \in {"running", "listening", "unbinding", "deleted"} :
                 status' = [status EXCEPT ![o] = new]
        BY <3>4 DEF Start, SuspendThread, FoundStarting, Listen, ClearEnds, Delete
      <4>2. QED
        BY <1>0, <1>2, <3>4, <4>1
    <3>5. QED
      BY <1>2, <2>1, <3>1, <3>2, <3>3, <3>4 DEF Uncounted
  <2>2. ASSUME NEW o \in Owners, Forgetting(o) PROVE status[u] = "clearing"
    BY <1>2, <2>2, ForgettingForgets, ForgetOutcome
  <2>3. ASSUME NEW o \in Owners, NEW t \in Tasks, NEW c \in SUBSET hold[o], Create(o, t, c)
        PROVE  status[u] = "clearing"
    BY <1>2, <2>3, CreateEffect
  <2>4. ASSUME NEW t \in Tasks, Terminate(t) \/ Close(t) \/ \E r \in Refs : Self(t, r)
        PROVE  status[u] = "clearing"
    <3>1. CASE Terminate(t)
      BY <1>2, <3>1, TerminateCounts
    <3>2. CASE Close(t)
      BY <1>2, <3>2, CloseCounts
    <3>3. CASE \E r \in Refs : Self(t, r)
      BY <1>2, <3>3 DEF Self
    <3>4. QED
      BY <2>4, <3>1, <3>2, <3>3
  <2>5. QED
    BY <2>1, <2>2, <2>3, <2>4, Steps
<1>3. ASSUME ~\E t \in Tasks : ClearBegins(t) PROVE clearEnd' = clearEnd
  BY ZenonT(40), <1>3, Steps DEF Forgetting, Uncounted, Release, Receive, ForgetKept, ClearMail,
     DestroyMail, Launch, Shutdown, Await, Awaited, Send, Start, StartThread, SuspendThread,
     Complete, Listen, ClearEnds, ThreadEnds, Delete, Capture, Create, Terminate, Close, Self
<1>4. ASSUME NEW u \in Tasks, status[u] = "clearing" 
      PROVE  Len(mail'[u]) \in Nat /\ Len(mail[u]) <= Len(mail'[u])
  <2>1. ASSUME NEW t \in Tasks, Receive(t) \/ DestroyMail(t)
        PROVE  mail'[u] = mail[u]
    <3>1. u # t
      <4>1. Receive(t) => status[t] \notin Ended
        BY ExecutesAlive DEF IInv, Receive
      <4>2. QED
        BY <1>4, <2>1, <4>1 DEF DestroyMail, Ended
    <3>2. mail' = mail \/ \E q : mail' = [mail EXCEPT ![t] = q]
      BY <2>1 DEF Receive, DestroyMail
    <3>3. QED
      BY <1>0, <3>1, <3>2
  <2>2. ASSUME NEW o \in Owners, NEW t \in Tasks, NEW p \in hold[o] \union {Void}, Send(o, t, p)
        PROVE  Len(mail'[u]) \in Nat /\ Len(mail[u]) <= Len(mail'[u])
    <3>1. mail' = [mail EXCEPT ![t] = Append(mail[t], p)] /\ p \in Refs \union {Void}
      BY <2>2 DEF Send, IInv, TypeOK
    <3>2. PICK q \in Seq(Refs \union {Void}) : q = mail[u]
      BY <1>0
    <3>3. mail'[u] = q \/ mail'[u] = Append(q, p)
      BY <1>0, <3>1, <3>2
    <3>4. Len(Append(q, p)) = Len(q) + 1 /\ Len(q) \in Nat
      BY <3>1, <3>2
    <3>5. QED
      BY <3>2, <3>3, <3>4
  <2>3. \/ \E o \in Owners, t \in Tasks : \E p \in hold[o] \union {Void} : Send(o, t, p)
        \/ \E t \in Tasks : Receive(t) \/ DestroyMail(t)
        \/ mail' = mail
    BY ZenonT(40), Steps DEF Forgetting, Uncounted, Release, ForgetKept, ClearMail, Launch,
       Shutdown, Awaited, Await, Start, StartThread, SuspendThread, Complete, Listen, ClearBegins,
       ClearEnds, ThreadEnds, Delete, Capture, Create, Terminate, Close, Self
  <2>4. mail'[u] = mail[u] => Len(mail'[u]) \in Nat /\ Len(mail[u]) <= Len(mail'[u])
    BY <1>0
  <2>5. QED
    BY <2>1, <2>2, <2>3, <2>4
<1>5. CASE ~\E t \in Tasks : ClearBegins(t)
  <2>1. ASSUME NEW u \in Tasks, status'[u] = "clearing" PROVE clearEnd'[u] <= Len(mail'[u])
    <3>1. status[u] = "clearing" /\ clearEnd'[u] = clearEnd[u]
      BY <1>2, <1>3, <1>5, <2>1
    <3>2. /\ Len(mail'[u]) \in Nat /\ Len(mail[u]) <= Len(mail'[u])
          /\ clearEnd[u] <= Len(mail[u])
      BY <1>0, <1>4, <3>1
    <3>3. PICK n \in Nat : n = Len(mail[u])
      BY <1>0
    <3>4. QED
      BY <1>0, <3>1, <3>2, <3>3
  <2>2. QED
    BY <1>0, <1>3, <1>5, <2>1
<1>6. QED
  BY <1>1, <1>5

(* What comes into mailboxes and goes out of them.                           *)
LEMMA MailStep ==
  ASSUME IInv, Next
  PROVE  /\ mail' \in [Tasks -> Seq(Refs \union {Void})] /\ cleared' \in [Tasks -> Nat]
         /\ \A u \in Tasks : MailOf(u)' /\ cleared'[u] <= Len(mail'[u])
<1>0. mail \in [Tasks -> Seq(Refs \union {Void})] /\ cleared \in [Tasks -> Nat]
  BY DEF IInv, TypeOK
<1>1. \A u \in Tasks : /\ cleared[u] \in Nat /\ Len(mail[u]) \in Nat
                       /\ cleared[u] <= Len(mail[u]) /\ Len(mail[u]) <= MaxMail
                       /\ cleared[u] > 0 => status[u] \in Ended \union Gone
  BY DEF IInv, TypeOK, MailOf
<1> DEFINE Fits(u) == /\ Len(mail'[u]) \in Nat /\ cleared'[u] <= Len(mail'[u])
                      /\ Len(mail'[u]) <= MaxMail
                      /\ cleared'[u] > 0 => status[u] \in Ended \union Gone
           Goal == /\ mail' \in [Tasks -> Seq(Refs \union {Void})] /\ cleared' \in [Tasks -> Nat]
                   /\ \A u \in Tasks : Fits(u)
<1>2. ASSUME NEW u \in Tasks, mail'[u] = mail[u], cleared'[u] = cleared[u] PROVE Fits(u)
  <2>1. PICK n : n = Len(mail[u]) /\ n = Len(mail'[u])
    BY <1>2
  <2>2. QED
    BY <1>1, <1>2, <2>1
<1>3. ASSUME UNCHANGED <<mail, cleared>> PROVE Goal
  <2>1. mail' = mail /\ cleared' = cleared
    BY <1>3
  <2>2. \A u \in Tasks : Fits(u)
    BY <1>2, <2>1
  <2>3. /\ mail' \in [Tasks -> Seq(Refs \union {Void})]
        /\ cleared' \in [Tasks -> Nat]
    BY <1>0, <2>1
  <2>4. QED
    BY <2>2, <2>3
<1>4. ASSUME NEW o \in Owners, NEW t \in Tasks, NEW p \in hold[o] \union {Void}, Send(o, t, p)
      PROVE  Goal
  <2>1. /\ mail' = [mail EXCEPT ![t] = Append(mail[t], p)] /\ cleared' = cleared
        /\ Len(mail[t]) < MaxMail /\ p \in Refs \union {Void}
    BY <1>4 DEF Send, IInv, TypeOK
  <2>2. /\ Append(mail[t], p) \in Seq(Refs \union {Void})
        /\ Len(Append(mail[t], p)) = Len(mail[t]) + 1
    BY <1>0, <2>1
  <2>3. /\ mail' \in [Tasks -> Seq(Refs \union {Void})]
        /\ mail'[t] = Append(mail[t], p) /\ \A u \in Tasks \ {t} : mail'[u] = mail[u]
    BY <1>0, <2>1, <2>2
  <2>4. PICK n \in Nat : n = Len(mail[t]) /\ Len(mail'[t]) = n + 1
    BY <1>1, <2>2, <2>3
  <2>5. Fits(t)
    BY <1>1, <2>1, <2>4
  <2>6. \A u \in Tasks \ {t} : Fits(u)
    BY <1>2, <2>1, <2>3
  <2>7. QED
    BY <1>0, <2>1, <2>3, <2>5, <2>6
<1>5. ASSUME NEW t \in Tasks, mail[t] # <<>>, mail' = [mail EXCEPT ![t] = Tail(mail[t])],
             \/ cleared' = cleared /\ cleared[t] = 0
             \/ cleared[t] > 0 /\ cleared' = [cleared EXCEPT ![t] = cleared[t] - 1]
      PROVE  Goal
  <2>1. /\ Tail(mail[t]) \in Seq(Refs \union {Void}) /\ Len(Tail(mail[t])) = Len(mail[t]) - 1
        /\ Len(mail[t]) > 0
    BY <1>0, <1>5
  <2>2. /\ mail' \in [Tasks -> Seq(Refs \union {Void})]
        /\ mail'[t] = Tail(mail[t]) /\ \A u \in Tasks \ {t} : mail'[u] = mail[u]
    BY <1>0, <1>5, <2>1
  <2>3. PICK n \in Nat : n = Len(mail[t]) /\ n > 0 /\ Len(mail'[t]) = n - 1
    BY <1>1, <2>1, <2>2
  <2>4. /\ cleared' \in [Tasks -> Nat] /\ \A u \in Tasks \ {t} : cleared'[u] = cleared[u]
        /\ \/ cleared'[t] = 0 /\ cleared[t] = 0
           \/ cleared[t] > 0 /\ cleared'[t] = cleared[t] - 1
    BY <1>0, <1>5
  <2>5. Fits(t)
    BY <1>1, <2>3, <2>4
  <2>6. \A u \in Tasks \ {t} : Fits(u)
    BY <1>2, <2>2, <2>4
  <2>7. QED
    BY <2>2, <2>4, <2>5, <2>6
<1>6. ASSUME NEW t \in Tasks, Receive(t) PROVE Goal
  <2>1. cleared[t] = 0
    BY <1>6, ExecutesAlive DEF Receive, IInv
  <2>2. /\ mail[t] # <<>> /\ mail' = [mail EXCEPT ![t] = Tail(mail[t])] /\ cleared' = cleared
    BY <1>6 DEF Receive
  <2>3. QED
    BY <1>5, <2>1, <2>2
<1>7. ASSUME NEW t \in Tasks, DestroyMail(t) PROVE Goal
  <2>1. \/ UNCHANGED <<mail, cleared>>
        \/ /\ mail[t] # <<>> /\ mail' = [mail EXCEPT ![t] = Tail(mail[t])]
           /\ \/ cleared' = cleared /\ cleared[t] = 0
              \/ cleared[t] > 0 /\ cleared' = [cleared EXCEPT ![t] = cleared[t] - 1]
    BY <1>7 DEF DestroyMail
  <2> HIDE DEF Goal
  <2>2. QED
    BY <1>3, <1>5, <2>1
<1>8. ASSUME NEW t \in Tasks, ClearMail(t) PROVE Goal
  <2>0. clearEnd[t] \in Nat /\ clearEnd[t] <= Len(mail[t]) /\ cleared[t] < clearEnd[t]
    BY <1>8 DEF ClearMail, IInv, MailOf
  <2>1. /\ mail' = mail /\ cleared' = [cleared EXCEPT ![t] = cleared[t] + 1]
        /\ cleared[t] < Len(mail[t]) /\ status[t] \in Ended \union Gone
    BY <1>1, <1>8, <2>0 DEF ClearMail, Ended
  <2>2. /\ cleared' \in [Tasks -> Nat] /\ cleared'[t] = cleared[t] + 1
        /\ \A u \in Tasks \ {t} : cleared'[u] = cleared[u]
    BY <1>0, <2>1
  <2>3. PICK n \in Nat : n = Len(mail[t]) /\ n = Len(mail'[t])
    BY <1>1, <2>1
  <2>4. Fits(t)
    BY <1>1, <2>1, <2>2, <2>3
  <2>5. \A u \in Tasks \ {t} : Fits(u)
    BY <1>2, <2>1, <2>2
  <2>6. QED
    BY <1>0, <2>1, <2>2, <2>4, <2>5
<1>9. \/ \E o \in Owners, t \in Tasks : \E p \in hold[o] \union {Void} : Send(o, t, p)
      \/ \E t \in Tasks : Receive(t) \/ DestroyMail(t) \/ ClearMail(t)
      \/ UNCHANGED <<mail, cleared>>
  BY ZenonT(40), Steps DEF Forgetting, Uncounted, Release, ForgetKept, Launch, Shutdown, Awaited,
     Await,
     Start, StartThread, SuspendThread, Complete, Listen, ClearBegins, ClearEnds, ThreadEnds, Delete, Capture, Create,
     Terminate, Close, Self
<1>10. Goal
  BY <1>3, <1>4, <1>6, <1>7, <1>8, <1>9
<1>11. \A u \in Tasks : status[u] \in Ended \union Gone => status'[u] \in Ended \union Gone
  BY StatusStep
<1>12. QED
  BY <1>10, <1>11, ClearBound DEF MailOf

(* A copy that is made is one of a reference that lies somewhere, or of a    *)
(* new one.                                                                  *)
LEMMA SelfLies ==
  ASSUME IInv, NEW t \in Tasks, NEW r \in Refs, Self(t, r)
  PROVE  RefsLie'
<1>1. /\ t \in Owners /\ t # NoTask /\ hold \in [Owners -> SUBSET Refs]
      /\ target \in [Refs -> Tasks \union {NoTask}]
      /\ UNCHANGED <<kept, mail, cleared>> /\ target' = [target EXCEPT ![r] = t]
      /\ hold' = [hold EXCEPT ![t] = hold[t] \union {r}]
  BY DEF Owners, IInv, TypeOK, Self, NewRef
<1>2. target'[r] # NoTask /\ Lies(r)'
  <2>1. r \in hold'[t]
    BY <1>1
  <2>2. QED
    BY <1>1, <2>1 DEF Lies
<1>3. \A q \in Refs \ {r} : target'[q] = target[q] /\ (Lies(q)' <=> Lies(q))
  <2>1. \A q \in Refs \ {r} : \A o \in Owners : q \in hold'[o] <=> q \in hold[o]
    BY <1>1
  <2>2. QED
    BY <1>1, <2>1 DEF Lies
<1>4. QED
  BY <1>2, <1>3 DEF IInv, RefsLie

LEMMA CaptureLies ==
  ASSUME IInv, NEW t \in Tasks, NEW r \in Refs, Capture(t, r)
  PROVE  RefsLie'
<1>1. /\ t \in Owners /\ r \in hold[t] /\ UNCHANGED <<hold, mail, cleared, target>>
      /\ kept'[t] = kept[t] \union {r} /\ \A u \in Tasks \ {t} : kept'[u] = kept[u]
  BY DEF Owners, IInv, TypeOK, Capture
<1>2. \A q \in Refs : Lies(q)' <=> Lies(q)
  BY <1>1 DEF Lies
<1>3. QED
  BY <1>1, <1>2 DEF IInv, RefsLie

LEMMA CreateLies ==
  ASSUME IInv, NEW o \in Owners, NEW t \in Tasks, NEW c \in SUBSET hold[o], Create(o, t, c)
  PROVE  RefsLie'
<1>1. /\ UNCHANGED <<mail, cleared>> /\ t # NoTask
      /\ kept[t] = {} /\ kept'[t] = c /\ \A u \in Tasks \ {t} : kept'[u] = kept[u]
      /\ \A p \in Owners \ {o} : hold'[p] = hold[p]
      /\ \/ UNCHANGED <<target, refCount>> /\ hold'[o] = hold[o]
         \/ \E r \in Refs : NewRef(r, t) /\ hold'[o] = hold[o] \union {r}
  <2>1. UNCHANGED <<mail, cleared>>
    BY DEF Create
  <2>2. QED
    BY <2>1, CreateEffect
<1>2. CASE UNCHANGED target /\ hold'[o] = hold[o]
  <2>1. \A q \in Refs : Lies(q)' <=> Lies(q)
    BY <1>1, <1>2 DEF Lies
  <2>2. QED
    BY <1>2, <2>1 DEF IInv, RefsLie
<1>3. ASSUME NEW r \in Refs, NewRef(r, t), hold'[o] = hold[o] \union {r} PROVE RefsLie'
  <2>1. target' = [target EXCEPT ![r] = t] /\ target \in [Refs -> Tasks \union {NoTask}]
    BY <1>3 DEF NewRef, IInv, TypeOK
  <2>2. target'[r] # NoTask /\ Lies(r)'
    BY <1>1, <1>3, <2>1 DEF Lies
  <2>3. \A q \in Refs \ {r} : target'[q] = target[q] /\ (Lies(q)' <=> Lies(q))
    <3>1. \A q \in Refs \ {r} : \A p \in Owners : q \in hold'[p] <=> q \in hold[p]
      BY <1>1, <1>3
    <3>2. \A q \in Refs : (\E u \in Tasks : q \in kept'[u]) =>
                            (\E u \in Tasks : q \in kept[u]) \/ q \in hold[o]
      BY <1>1
    <3>3. \A q \in Refs : (\E u \in Tasks : q \in kept[u]) => \E u \in Tasks : q \in kept'[u]
      BY <1>1
    <3>4. \A q \in Refs \ {r} : Lies(q)' <=> Lies(q)
      BY <1>1, <3>1, <3>2, <3>3 DEF Lies
    <3>5. QED
      BY <2>1, <3>4
  <2>4. QED
    BY <2>2, <2>3 DEF IInv, RefsLie
<1>4. QED
  BY <1>1, <1>2, <1>3

LEMMA SendLies ==
  ASSUME IInv, NEW o \in Owners, NEW t \in Tasks, NEW p \in hold[o] \union {Void}, Send(o, t, p)
  PROVE  RefsLie'
<1>1. /\ UNCHANGED <<hold, kept, cleared, target>> /\ p \in Refs \union {Void}
      /\ mail' = [mail EXCEPT ![t] = Append(mail[t], p)]
      /\ mail \in [Tasks -> Seq(Refs \union {Void})]
  BY DEF Send, IInv, TypeOK
<1>2. PICK s \in Seq(Refs \union {Void}) : s = mail[t]
  BY <1>1
<1>3. /\ Len(Append(s, p)) = Len(s) + 1 /\ Len(s) \in Nat
      /\ Append(s, p)[Len(s) + 1] = p
      /\ \A i \in 1..Len(s) : Append(s, p)[i] = s[i]
  BY <1>1, <1>2
<1>4. mail'[t] = Append(s, p) /\ \A u \in Tasks \ {t} : mail'[u] = mail[u]
  BY <1>1, <1>2
<1>5. PICK c \in Nat : c = cleared[t] /\ c <= Len(s)
  BY <1>2 DEF IInv, TypeOK
<1>6. ASSUME NEW r
      PROVE  (\E i \in (c + 1)..Len(Append(s, p)) : Append(s, p)[i] = r)
               <=> r = p \/ \E j \in (c + 1)..Len(s) : s[j] = r
  <2>1. \A i \in Int : i \in (c + 1)..(Len(s) + 1) <=> i = Len(s) + 1 \/ i \in (c + 1)..Len(s)
    BY <1>3, <1>5
  <2>2. \A i \in (c + 1)..Len(s) : Append(s, p)[i] = s[i]
    BY <1>3, <1>5
  <2>3. Len(s) + 1 \in Int /\ \A i \in (c + 1)..(Len(s) + 1) : i \in Int
    BY <1>3, <1>5
  <2>4. (\E i \in (c + 1)..(Len(s) + 1) : Append(s, p)[i] = r)
          <=> r = p \/ \E j \in (c + 1)..Len(s) : s[j] = r
    BY <1>3, <2>1, <2>2, <2>3
  <2>5. QED
    BY <1>3, <2>4
<1>7. ASSUME NEW r \in Refs
      PROVE  (\E u \in Tasks : \E i \in (cleared'[u] + 1)..Len(mail'[u]) : mail'[u][i] = r)
               <=> r = p \/ \E u \in Tasks : \E i \in (cleared[u] + 1)..Len(mail[u]) :
                              mail[u][i] = r
  <2>1. (\E i \in (cleared'[t] + 1)..Len(mail'[t]) : mail'[t][i] = r)
          <=> r = p \/ \E i \in (cleared[t] + 1)..Len(mail[t]) : mail[t][i] = r
    BY ZenonT(40), <1>1, <1>2, <1>4, <1>5, <1>6
  <2>2. \A u \in Tasks \ {t} : cleared'[u] = cleared[u] /\ mail'[u] = mail[u]
    BY <1>1, <1>4
  <2>3. QED
    BY Zenon, <2>1, <2>2
<1>8. \A r \in Refs : r = p => Lies(r)
  BY DEF Lies
<1>9. \A r \in Refs : Lies(r)' <=> Lies(r)
  BY <1>1, <1>7, <1>8 DEF Lies
<1>10. QED
  BY <1>1, <1>9 DEF IInv, RefsLie

LEMMA LieStep ==
  ASSUME IInv, Next
  PROVE  RefsLie'
<1>1. CASE UNCHANGED <<hold, kept, mail, cleared, target>>
  BY <1>1 DEF IInv, RefsLie, Lies
<1>2. \/ \E o \in Owners : Forgetting(o)
      \/ \E t \in Tasks, r \in Refs : Self(t, r) \/ Capture(t, r)
      \/ \E o \in Owners, t \in Tasks : \/ \E c \in SUBSET hold[o] : Create(o, t, c)
                                        \/ \E p \in hold[o] \union {Void} : Send(o, t, p)
      \/ UNCHANGED <<hold, kept, mail, cleared, target>>
  BY ZenonT(40), Steps DEF Uncounted, Launch, Shutdown, Awaited, Await, Start, StartThread, SuspendThread,
     Complete,
     Listen, ClearBegins, ClearEnds, ThreadEnds, Delete, Terminate, Close
<1>3. QED
  BY <1>1, <1>2, ForgettingForgets, SelfLies, CaptureLies, CreateLies, SendLies

(* A reference is to the same task for as long as copies of it lie around.   *)
LEMMA TargetStep ==
  ASSUME IInv, Next
  PROVE  /\ target' \in [Refs -> Tasks \union {NoTask}]
         /\ \A r \in Refs : Lies(r) /\ Lies(r)' => target'[r] = target[r]
<1>0. target \in [Refs -> Tasks \union {NoTask}]
  BY DEF IInv, TypeOK
<1>1. ASSUME NEW o \in Owners, Forgetting(o)
      PROVE  /\ target' \in [Refs -> Tasks \union {NoTask}]
             /\ \A r \in Refs : target'[r] \in {target[r], NoTask}
  BY <1>1, ForgettingForgets, ForgetOutcome
<1>2. ASSUME NEW t \in Tasks, NEW r \in Refs, NewRef(r, t)
      PROVE  /\ target' \in [Refs -> Tasks \union {NoTask}]
             /\ \A q \in Refs : target[q] = NoTask \/ target'[q] = target[q]
  BY <1>0, <1>2 DEF NewRef, Free
<1>3. \/ \E o \in Owners : Forgetting(o)
      \/ \E t \in Tasks, r \in Refs : NewRef(r, t)
      \/ target' = target
  BY ZenonT(40), Steps, CreateEffect DEF Uncounted, Launch, Shutdown, Awaited, Await, Send, Start,
     StartThread, SuspendThread, Complete, Listen, ClearBegins, ClearEnds, ThreadEnds, Delete, Capture, Terminate, Close, Self
<1>4. \A r \in Refs : Lies(r) /\ Lies(r)' => target[r] # NoTask /\ target'[r] # NoTask
  BY LieStep DEF IInv, RefsLie
<1>5. QED
  BY <1>0, <1>1, <1>2, <1>3, <1>4

(* Nothing goes from the stack of somebody who does not go on.               *)
LEMMA HoldStep ==
  ASSUME IInv, Next
  PROVE  /\ hold' \in [Owners -> SUBSET Refs]
         /\ \A o \in Owners : Executes(o) \/ hold[o] \subseteq hold'[o]
<1>0. hold \in [Owners -> SUBSET Refs] /\ \A t \in Tasks : t \in Owners
  BY DEF IInv, TypeOK, Owners
<1>1. ASSUME NEW o \in Owners, NEW S \in SUBSET Refs, hold' = [hold EXCEPT ![o] = S], Executes(o)
      PROVE  /\ hold' \in [Owners -> SUBSET Refs]
             /\ \A p \in Owners : Executes(p) \/ hold[p] \subseteq hold'[p]
  BY <1>0, <1>1
<1>2. ASSUME NEW o \in Owners, Forgetting(o)
      PROVE  \/ Executes(o) /\ \E S \in SUBSET Refs : hold' = [hold EXCEPT ![o] = S]
             \/ hold' = hold
  <2>1. CASE \E r \in Refs : Release(o, r)
    <3>1. Executes(o) /\ \E r \in Refs : hold' = [hold EXCEPT ![o] = hold[o] \ {r}]
      BY <2>1 DEF Release
    <3>2. \A r \in Refs : hold[o] \ {r} \in SUBSET Refs
      BY <1>0
    <3>3. QED
      BY <3>1, <3>2
  <2>2. CASE o \in Tasks /\ Receive(o)
    <3>1. Executes(o) /\ mail[o] # <<>>
      BY <2>2 DEF Receive
    <3>2. Head(mail[o]) \in Refs \union {Void}
      BY <2>2, <3>1 DEF IInv, TypeOK
    <3>3. \/ hold' = hold
          \/ hold' = [hold EXCEPT ![o] = hold[o] \union
                                     (IF Head(mail[o]) = Void THEN {} ELSE {Head(mail[o])})]
      BY <2>2 DEF Receive
    <3>4. hold[o] \union (IF Head(mail[o]) = Void THEN {} ELSE {Head(mail[o])}) \in SUBSET Refs
      BY <1>0, <3>2
    <3>5. QED
      BY <3>1, <3>3, <3>4
  <2>3. CASE o \in Tasks /\ (ForgetKept(o) \/ ClearMail(o) \/ DestroyMail(o))
    BY <2>3 DEF ForgetKept, ClearMail, DestroyMail
  <2>4. QED
    BY <1>2, <2>1, <2>2, <2>3 DEF Forgetting
<1>3. ASSUME NEW o \in Owners, NEW t \in Tasks, NEW c \in SUBSET hold[o], Create(o, t, c)
      PROVE  \/ Executes(o) /\ \E S \in SUBSET Refs : hold' = [hold EXCEPT ![o] = S]
             \/ hold' = hold
  <2>1. Executes(o) /\ (hold' = hold \/ \E r \in Refs : hold' = [hold EXCEPT ![o] = hold[o] \union {r}])
    BY <1>3 DEF Create, WithRef
  <2>2. \A r \in Refs : hold[o] \union {r} \in SUBSET Refs
    BY <1>0
  <2>3. QED
    BY <2>1, <2>2
<1>4. ASSUME NEW t \in Tasks, NEW r \in Refs, Self(t, r)
      PROVE  Executes(t) /\ \E S \in SUBSET Refs : hold' = [hold EXCEPT ![t] = S]
  <2>1. Executes(t) /\ hold' = [hold EXCEPT ![t] = hold[t] \union {r}]
    BY <1>4 DEF Self
  <2>2. hold[t] \union {r} \in SUBSET Refs
    BY <1>0
  <2>3. QED
    BY <2>1, <2>2
<1>5. ASSUME NEW o \in Owners,
             Uncounted(o) \/ (o \in Tasks /\ (Terminate(o) \/ Close(o)))
      PROVE  hold' = hold
  BY <1>5 DEF Uncounted, Launch, Shutdown, Awaited, Await, Send, Start, StartThread, SuspendThread, Complete,
     Listen, ClearBegins, ClearEnds, ThreadEnds, Delete, Capture, Terminate, Close
<1>6. hold' = hold \/ \E o \in Owners : /\ Executes(o)
                                        /\ \E S \in SUBSET Refs : hold' = [hold EXCEPT ![o] = S]
  BY <1>0, <1>2, <1>3, <1>4, <1>5, Steps
<1>7. QED
  BY <1>0, <1>1, <1>6

LEMMA AwaitStep ==
  ASSUME IInv, Next
  PROVE  AwaitsHeld' /\ awaiting' \in [Owners -> Futures \union {NoTask}]
<1>0. /\ awaiting \in [Owners -> Futures \union {NoTask}] /\ hold \in [Owners -> SUBSET Refs]
      /\ target \in [Refs -> Tasks \union {NoTask}]
  BY DEF IInv, TypeOK
<1>1. ASSUME awaiting' = awaiting PROVE AwaitsHeld'
  <2> SUFFICES ASSUME NEW o \in Owners, awaiting[o] # NoTask
               PROVE  \E r \in hold'[o] : target'[r] = awaiting[o]
    BY <1>1 DEF AwaitsHeld, Holds
  <2>1. PICK r \in hold[o] : target[r] = awaiting[o]
    BY DEF IInv, AwaitsHeld, Holds
  <2>2. ~Executes(o)
    BY DEF Executes
  <2>3. r \in hold'[o] /\ r \in Refs
    BY <1>0, <2>2, HoldStep
  <2>4. Lies(r) /\ Lies(r)'
    BY <2>3 DEF Lies
  <2>5. QED
    BY <2>1, <2>3, <2>4, TargetStep
<1>2. ASSUME NEW o \in Owners, NEW t \in Tasks, Await(o, t)
      PROVE  AwaitsHeld' /\ awaiting' \in [Owners -> Futures \union {NoTask}]
  <2>1. /\ awaiting' = [awaiting EXCEPT ![o] = t] /\ t \in Futures /\ Holds(o, t)
        /\ UNCHANGED <<hold, target>>
    BY <1>2 DEF Await
  <2>2. /\ awaiting'[o] = t /\ \A p \in Owners \ {o} : awaiting'[p] = awaiting[p]
        /\ awaiting' \in [Owners -> Futures \union {NoTask}]
    BY <1>0, <2>1
  <2>3. \A p \in Owners : awaiting'[p] # NoTask => \E r \in hold'[p] : target'[r] = awaiting'[p]
    BY <2>1, <2>2 DEF IInv, AwaitsHeld, Holds
  <2>4. QED
    BY <2>2, <2>3 DEF AwaitsHeld, Holds
<1>3. ASSUME NEW o \in Owners, Awaited(o)
      PROVE  AwaitsHeld' /\ awaiting' \in [Owners -> Futures \union {NoTask}]
  <2>1. awaiting' = [awaiting EXCEPT ![o] = NoTask] /\ UNCHANGED <<hold, target>>
    BY <1>3 DEF Awaited
  <2>2. /\ awaiting'[o] = NoTask /\ \A p \in Owners \ {o} : awaiting'[p] = awaiting[p]
        /\ awaiting' \in [Owners -> Futures \union {NoTask}]
    BY <1>0, <2>1
  <2>3. \A p \in Owners : awaiting'[p] # NoTask => \E r \in hold'[p] : target'[r] = awaiting'[p]
    BY <2>1, <2>2 DEF IInv, AwaitsHeld, Holds
  <2>4. QED
    BY <2>2, <2>3 DEF AwaitsHeld, Holds
<1>4. \/ \E o \in Owners : Awaited(o) \/ \E t \in Tasks : Await(o, t)
      \/ awaiting' = awaiting
  BY ZenonT(40), Steps DEF Forgetting, Uncounted, Release, Receive, ForgetKept, ClearMail,
     DestroyMail,
     Launch, Shutdown, Send, Start, StartThread, SuspendThread, Complete, Listen, ClearBegins, ClearEnds, ThreadEnds, Delete,
     Capture, Create, Terminate, Close, Self
<1>5. QED
  BY <1>0, <1>1, <1>2, <1>3, <1>4

(* Only futures complete promises, and results come by that.                 *)
LEMMA AnswerStep ==
  ASSUME IInv, Next
  PROVE  completed' \subseteq Futures /\ result' \subseteq completed'
<1>0. completed \subseteq Futures /\ result \subseteq completed
  BY DEF IInv, TypeOK
<1>1. ASSUME NEW t \in Tasks, Complete(t)
      PROVE  completed' \subseteq Futures /\ result' \subseteq completed'
  BY <1>0, <1>1 DEF Complete
<1>2. UNCHANGED <<completed, result>> \/ \E t \in Tasks : Complete(t)
  BY ZenonT(40), Steps DEF Forgetting, Uncounted, Release, Receive, ForgetKept, ClearMail,
     DestroyMail, Launch, Shutdown, Await, Awaited, Send, Start, StartThread, SuspendThread,
     Listen, ClearBegins, ClearEnds, ThreadEnds, Delete, Capture, Create, Terminate, Close, Self
<1>3. QED
  BY <1>0, <1>1, <1>2

(* What is created is nobody else's, and what has a thread to come is left   *)
(* alone until it is launched.                                               *)
LEMMA BuiltStep ==
  ASSUME IInv, Next
  PROVE  BuiltOnce' /\ building' \in [Owners -> Tasks \union {NoTask}]
<1>0. /\ building \in [Owners -> Tasks \union {NoTask}] /\ status \in [Tasks -> Statuses]
      /\ thread \in [Tasks -> {"none", "spawned", "up"}]
      /\ \A o \in Owners : building[o] # NoTask =>
           /\ building[o] \in Tasks /\ status[building[o]] # "none"
           /\ building[o] \in OSThreads =>
                status[building[o]] = "starting" /\ thread[building[o]] = "none"
      /\ \A o, p \in Owners : building[o] = building[p] /\ building[o] # NoTask => o = p
  BY DEF IInv, TypeOK, BuiltOnce
<1>1. \A t \in Tasks : status[t] # "none" => status'[t] # "none"
  BY StatusStep
<1>2. ASSUME NEW t \in OSThreads, status[t] = "starting", thread[t] = "none"
      PROVE  status'[t] = "starting"
  <2>1. t \in Tasks /\ LifeOf(t) /\ MailOf(t) /\ TypeOK
    BY DEF IInv
  <2>2. ~Start(t) /\ ~Executes(t)
    BY <1>2, <2>1, ExecutesAlive DEF Start, LifeOf
  <2>3. ASSUME NEW o \in Owners, Forgetting(o) PROVE status'[t] = "starting"
    BY <1>2, <2>1, <2>3, ForgettingForgets, ForgetOutcome
  <2>4. ASSUME NEW o \in Owners, Uncounted(o) PROVE status'[t] = "starting"
    <3>1. CASE Launch(o) \/ \E u \in Tasks : \E p \in hold[o] \union {Void} : Send(o, u, p)
      BY <1>2, <2>1, <3>1, LaunchStatus, SendStatus
    <3>2. CASE \/ Shutdown(o) \/ Awaited(o) \/ \E u \in Tasks : Await(o, u)
               \/ /\ o \in Tasks
                  /\ \/ StartThread(o) \/ Complete(o) \/ ThreadEnds(o)
                     \/ \E r \in Refs : Capture(o, r)
      BY <1>2, <3>2 DEF Shutdown, Awaited, Await, StartThread, Complete, ThreadEnds, Capture
    <3>3. CASE /\ o \in Tasks
               /\ \/ Start(o) \/ SuspendThread(o) \/ Listen(o)
                  \/ ClearBegins(o) \/ ClearEnds(o) \/ Delete(o)
      <4>1. o # t
        BY <1>2, <2>2, <3>3 DEF SuspendThread, Listen, ClearBegins, ClearEnds, Delete
      <4>2. status' = status \/ \E new : status' = [status EXCEPT ![o] = new]
        BY <3>3 DEF Start, SuspendThread, FoundStarting, Listen, ClearBegins, ClearEnds, Delete
      <4>3. QED
        BY <1>0, <1>2, <2>1, <4>1, <4>2
    <3>4. QED
      BY <2>4, <3>1, <3>2, <3>3 DEF Uncounted
  <2>5. ASSUME NEW o \in Owners, NEW u \in Tasks, NEW c \in SUBSET hold[o], Create(o, u, c)
        PROVE  status'[t] = "starting"
    <3>1. status[u] = "none" /\ \A v \in Tasks \ {u} : status'[v] = status[v]
      BY <2>5, CreateEffect
    <3>2. QED
      BY <1>2, <2>1, <3>1
  <2>6. ASSUME NEW u \in Tasks, Terminate(u) \/ Close(u) \/ \E r \in Refs : Self(u, r)
        PROVE  status'[t] = "starting"
    <3>1. CASE Terminate(u)
      BY <1>2, <2>1, <2>2, <3>1, TerminateCounts DEF Terminate
    <3>2. CASE Close(u)
      BY <1>2, <2>1, <3>2, CloseCounts
    <3>3. CASE \E r \in Refs : Self(u, r)
      BY <1>2, <3>3 DEF Self
    <3>4. QED
      BY <2>6, <3>1, <3>2, <3>3
  <2>7. QED
    BY <2>3, <2>4, <2>5, <2>6, Steps
<1>3. CASE UNCHANGED building /\ \A t \in Tasks : thread[t] = "none" => thread'[t] = "none"
  BY <1>0, <1>1, <1>2, <1>3 DEF BuiltOnce
<1>4. ASSUME NEW o \in Owners, Launch(o)
      PROVE  BuiltOnce' /\ building' \in [Owners -> Tasks \union {NoTask}]
  <2>1. building' = [building EXCEPT ![o] = NoTask]
    BY <1>4 DEF Launch
  <2>2. \A u \in Tasks : thread'[u] # thread[u] => u = building[o]
    BY <1>4, LaunchLife
  <2>3. /\ building' \in [Owners -> Tasks \union {NoTask}] /\ building'[o] = NoTask
        /\ \A p \in Owners \ {o} : building'[p] = building[p]
    BY <1>0, <2>1
  <2>4. \A p \in Owners : building'[p] # NoTask =>
          p # o /\ building'[p] = building[p] /\ building[p] # building[o]
    BY <1>0, <2>3
  <2>5. ASSUME NEW p \in Owners, building'[p] # NoTask
        PROVE  /\ status'[building'[p]] # "none"
               /\ building'[p] \in OSThreads =>
                    status'[building'[p]] = "starting" /\ thread'[building'[p]] = "none"
    BY <1>0, <1>1, <1>2, <2>2, <2>4, <2>5
  <2>6. \A p, q \in Owners : building'[p] = building'[q] /\ building'[p] # NoTask => p = q
    BY <1>0, <2>4
  <2>7. QED
    BY <2>3, <2>5, <2>6 DEF BuiltOnce
<1>5. ASSUME NEW o \in Owners, NEW t \in Tasks, NEW c \in SUBSET hold[o], Create(o, t, c)
      PROVE  BuiltOnce' /\ building' \in [Owners -> Tasks \union {NoTask}]
  <2>1. /\ status[t] = "none" /\ status'[t] = "starting" /\ building'[o] = t
        /\ \A p \in Owners \ {o} : building'[p] = building[p]
    BY <1>5, CreateEffect
  <2>2. thread[t] = "none" /\ thread' = thread
          /\ building' \in [Owners -> Tasks \union {NoTask}]
    BY <1>0, <1>5, <2>1 DEF Create, IInv, LifeOf
  <2>3. \A p \in Owners \ {o} : building[p] # t
    BY <1>0, <2>1
  <2>4. \A p \in Owners : building'[p] # NoTask =>
          /\ status'[building'[p]] # "none"
          /\ building'[p] \in OSThreads =>
               status'[building'[p]] = "starting" /\ thread'[building'[p]] = "none"
    BY <1>0, <1>1, <1>2, <2>1, <2>2
  <2>5. \A p, q \in Owners : building'[p] = building'[q] /\ building'[p] # NoTask => p = q
    BY <1>0, <2>1, <2>3
  <2>6. QED
    BY <2>2, <2>4, <2>5 DEF BuiltOnce
<1>6. \/ \E o \in Owners : Launch(o)
      \/ \E o \in Owners, t \in Tasks : \E c \in SUBSET hold[o] : Create(o, t, c)
      \/ UNCHANGED building /\ \A t \in Tasks : thread[t] = "none" => thread'[t] = "none"
  <2>1. \A t \in Tasks : StartThread(t) \/ ThreadEnds(t) =>
          UNCHANGED building /\ \A u \in Tasks : thread[u] = "none" => thread'[u] = "none"
    BY <1>0 DEF StartThread, ThreadEnds
  <2>2. \/ \E o \in Owners : Launch(o)
        \/ \E o \in Owners, t \in Tasks : \E c \in SUBSET hold[o] : Create(o, t, c)
        \/ \E t \in Tasks : StartThread(t) \/ ThreadEnds(t)
        \/ UNCHANGED <<building, thread>>
    <3>1. ASSUME NEW o \in Owners, Forgetting(o) PROVE UNCHANGED <<building, thread>>
      BY <3>1 DEF Forgetting, Release, Receive, ForgetKept, ClearMail, DestroyMail
    <3>2. ASSUME NEW o \in Owners, Uncounted(o)
          PROVE  \/ Launch(o) \/ (o \in Tasks /\ (StartThread(o) \/ ThreadEnds(o)))
                 \/ UNCHANGED <<building, thread>>
      BY <3>2 DEF Uncounted, Shutdown, Await, Awaited, Send, Start, SuspendThread, Complete,
         Listen, ClearBegins, ClearEnds, Delete, Capture
    <3>3. ASSUME NEW t \in Tasks, Terminate(t) \/ Close(t) \/ \E r \in Refs : Self(t, r)
          PROVE  UNCHANGED <<building, thread>>
      BY <3>3 DEF Terminate, Close, Self
    <3>4. QED
      BY <3>1, <3>2, <3>3, Steps
  <2>3. QED
    BY <2>1, <2>2
<1>7. QED
  BY <1>0, <1>3, <1>4, <1>5, <1>6

LEMMA TypeStep ==
  ASSUME ~EarlyUse, IInv, Next
  PROVE  TypeOK'
<1>1. /\ kept \in [Tasks -> SUBSET Refs] /\ hold \in [Owners -> SUBSET Refs]
      /\ shuttingDown \in BOOLEAN /\ aborted \in BOOLEAN
      /\ \A t \in Tasks : t \in Owners
  BY DEF IInv, TypeOK, Owners
<1>2. kept' \in [Tasks -> SUBSET Refs]
  <2>1. \/ kept' = kept
        \/ \E t \in Tasks : \E S \in SUBSET Refs : kept' = [kept EXCEPT ![t] = S]
    <3>1. ASSUME NEW t \in Tasks, NEW r, Capture(t, r)
          PROVE  \E S \in SUBSET Refs : kept' = [kept EXCEPT ![t] = S]
      <4>1. kept' = [kept EXCEPT ![t] = kept[t] \union {r}] /\ r \in hold[t]
        BY <3>1 DEF Capture
      <4>2. kept[t] \union {r} \in SUBSET Refs
        BY <1>1, <4>1
      <4>3. QED
        BY <4>1, <4>2
    <3>2. ASSUME NEW t \in Tasks, ForgetKept(t)
          PROVE  \E S \in SUBSET Refs : kept' = [kept EXCEPT ![t] = S]
      <4>1. PICK r \in kept[t] : kept' = [kept EXCEPT ![t] = kept[t] \ {r}]
        BY <3>2 DEF ForgetKept
      <4>2. kept[t] \ {r} \in SUBSET Refs
        BY <1>1
      <4>3. QED
        BY <4>1, <4>2
    <3>3. ASSUME NEW o \in Owners, NEW t \in Tasks, NEW c \in SUBSET hold[o], Create(o, t, c)
          PROVE  c \in SUBSET Refs /\ kept' = [kept EXCEPT ![t] = c]
      BY <1>1, <3>3 DEF Create
    <3>4. \/ kept' = kept
          \/ \E t \in Tasks : ForgetKept(t) \/ \E r \in Refs : Capture(t, r)
          \/ \E o \in Owners, t \in Tasks : \E c \in SUBSET hold[o] : Create(o, t, c)
      BY ZenonT(40), Steps DEF Forgetting, Uncounted, Release, Receive, ClearMail, DestroyMail,
         Launch,
         Shutdown, Await, Awaited, Send, Start, StartThread, SuspendThread, Complete, Listen, ClearBegins, ClearEnds,
         ThreadEnds, Delete, Terminate, Close, Self
    <3>5. QED
      BY <3>1, <3>2, <3>3, <3>4
  <2>2. QED
    BY <1>1, <2>1
<1>3. shuttingDown' \in BOOLEAN /\ aborted' \in BOOLEAN
  <2>1. shuttingDown' = shuttingDown \/ shuttingDown' = TRUE
    BY ZenonT(40), Steps DEF Forgetting, Uncounted, Release, Receive, ForgetKept, ClearMail,
       DestroyMail,
       Launch, Shutdown, Await, Awaited, Send, Start, StartThread, SuspendThread, Complete, Listen, ClearBegins, ClearEnds,
       ThreadEnds, Delete, Capture, Create, Terminate, Close, Self
  <2>2. aborted' = aborted \/ aborted' = TRUE
    <3>1. ASSUME NEW o \in Owners, NEW t \in Tasks, NEW p, Send(o, t, p)
          PROVE  aborted' = aborted \/ aborted' = TRUE
      BY <3>1, SendStatus
    <3>2. ASSUME NEW o \in Owners, Launch(o) PROVE aborted' = aborted
      BY <3>2, LaunchStatus
    <3>3. ASSUME NEW t \in Tasks, SuspendThread(t) \/ DestroyMail(t)
          PROVE  aborted' = aborted \/ aborted' = TRUE
      BY <3>3 DEF SuspendThread, FoundStarting, DestroyMail
    <3>4. \/ \E o \in Owners : \/ Launch(o)
                             \/ \E t \in Tasks : \E p \in hold[o] \union {Void} : Send(o, t, p)
          \/ \E t \in Tasks : SuspendThread(t) \/ DestroyMail(t)
          \/ aborted' = aborted
      BY ZenonT(40), Steps DEF Forgetting, Uncounted, Release, Receive, ForgetKept, ClearMail,
         Shutdown, Await, Awaited, Start, StartThread, Complete, Listen, ClearBegins, ClearEnds,
         ThreadEnds, Delete, Capture, Create, Terminate, Close, Self
    <3>5. QED
      BY <3>1, <3>2, <3>3, <3>4
  <2>3. QED
    BY <1>1, <2>1, <2>2
<1>4. QED
  BY <1>2, <1>3, CountStep, LifeStep, MailStep, ClearBound, TargetStep, HoldStep, BuiltStep,
     AnswerStep, AwaitStep DEF TypeOK

-------------------------------------------------------------------------------
(* The theorems. References to a task that has an OS thread are not used     *)
(* before that thread is up: otherwise the task may run twice.               *)

LEMMA InitInvariant == Init => IInv
<1> SUFFICES ASSUME Init PROVE IInv
  OBVIOUS
<1>1. TypeOK
  <2>1. mail \in [Tasks -> Seq(Refs \union {Void})] /\ \A t \in Tasks : Len(mail[t]) = 0
    BY DEF Init
  <2>2. /\ status \in [Tasks -> Statuses] /\ scheduled \in [Tasks -> BOOLEAN]
        /\ thread \in [Tasks -> {"none", "spawned", "up"}] /\ runners \in [Tasks -> 0..1]
        /\ refCount \in [Tasks -> Nat] /\ cleared \in [Tasks -> Nat]
        /\ clearEnd \in [Tasks -> Nat]
        /\ \A t \in Tasks : cleared[t] = 0
    BY DEF Init, Statuses
  <2>3. /\ target \in [Refs -> Tasks \union {NoTask}]
        /\ hold \in [Owners -> SUBSET Refs] /\ kept \in [Tasks -> SUBSET Refs]
        /\ building \in [Owners -> Tasks \union {NoTask}]
        /\ completed \subseteq Futures /\ result \subseteq completed
        /\ awaiting \in [Owners -> Futures \union {NoTask}]
        /\ shuttingDown \in BOOLEAN /\ aborted \in BOOLEAN
    BY DEF Init
  <2>4. \A t \in Tasks : cleared[t] <= Len(mail[t])
    BY <2>1, <2>2
  <2>5. QED
    BY <2>1, <2>2, <2>3, <2>4 DEF TypeOK
<1>2. ASSUME NEW t \in Tasks PROVE LifeOf(t) /\ MailOf(t)
  BY DEF Init, LifeOf, MailOf
<1>3. ASSUME NEW t \in Tasks PROVE CountOf(t)
  <2>1. RefsTo(t) = {}
    BY DEF Init, RefsTo
  <2>2. Cardinality(RefsTo(t)) = 0
    BY <2>1, RefsFinite
  <2>3. status[t] = "none" /\ refCount[t] = 0
    BY DEF Init
  <2>4. QED
    BY <2>1, <2>2, <2>3 DEF CountOf, Closing, Gone
<1>4. BuiltOnce /\ AwaitsHeld
  BY DEF Init, BuiltOnce, AwaitsHeld
<1>5. RefsLie
  <2>1. \A t \in Tasks : (cleared[t] + 1)..Len(mail[t]) = {}
    BY DEF Init
  <2>2. QED
    BY <2>1 DEF Init, RefsLie, Lies
<1>6. QED
  BY <1>1, <1>2, <1>3, <1>4, <1>5 DEF IInv

LEMMA InvariantStep ==
  ASSUME ~EarlyUse, IInv, [Next]_vars
  PROVE  IInv'
<1>1. CASE Next
  BY <1>1, TypeStep, CountStep, LifeStep, MailStep, BuiltStep, LieStep, AwaitStep
     DEF IInv
<1>2. CASE UNCHANGED vars
  <2>1. TypeOK' /\ \A t \in Tasks : LifeOf(t)' /\ MailOf(t)'
    BY <1>2 DEF vars, IInv, TypeOK, LifeOf, MailOf
  <2>2. \A t \in Tasks : CountOf(t)'
    BY <1>2, CountKept DEF vars, IInv
  <2>3. BuiltOnce' /\ RefsLie' /\ AwaitsHeld'
    BY <1>2 DEF vars, IInv, BuiltOnce, RefsLie, Lies, AwaitsHeld, Holds
  <2>4. QED
    BY <2>1, <2>2, <2>3 DEF IInv
<1>3. QED
  BY <1>1, <1>2

(* The counter of a task is the number of references to it, every reference  *)
(* has a copy that lies somewhere, and who awaits a future holds one         *)
(* (task.hpp:191-198, localfiberref.hpp, scheduler.cpp:45-63).               *)
THEOREM LifeInvariance ==
  ASSUME ~EarlyUse
  PROVE  Spec => []IInv
<1>1. Init => IInv
  BY InitInvariant
<1>2. IInv /\ [Next]_vars => IInv'
  BY InvariantStep
<1>3. QED
  BY <1>1, <1>2, PTL DEF Spec

(* The counters stay in range, and a payload is freed by clear only in a     *)
(* mailbox that has it.                                                      *)
THEOREM TypesAreRight ==
  ASSUME ~EarlyUse
  PROVE  Spec => []TypeOK
<1>1. IInv => TypeOK
  BY DEF IInv
<1>2. QED
  BY <1>1, LifeInvariance, PTL

(* A task is never deleted under those who can still reach it                *)
(* (task.hpp:191-198, scheduler.cpp:45-63, builder-inl.hpp:40-45).           *)
THEOREM ReachableTasksStay ==
  ASSUME ~EarlyUse
  PROVE  Spec => []ReachableStays
<1>1. IInv => ReachableStays
  <2> SUFFICES ASSUME IInv, NEW t \in Tasks, status[t] \in Gone
               PROVE  /\ runners[t] = 0 /\ ~scheduled[t]
                      /\ \A r \in Refs : Copies(r) > 0 => target[r] # t
                      /\ \A o \in Owners : awaiting[o] # t
    BY DEF ReachableStays
  <2>1. runners[t] = 0 /\ ~scheduled[t]
    BY DEF IInv, LifeOf, Gone
  <2>2. \A r \in Refs : target[r] # t
    BY DEF IInv, CountOf, RefsTo
  <2>3. \A o \in Owners : awaiting[o] # t
    BY <2>2 DEF IInv, AwaitsHeld, Holds, TypeOK
  <2>4. QED
    BY <2>1, <2>2, <2>3
<1>2. QED
  BY <1>1, LifeInvariance, PTL

(* A reference that somebody has in hand, in a closure or in a mailbox is to *)
(* a task whose memory is there (localfiberref.hpp, task.hpp:191-198).       *)
NoneDangles ==
  \A r \in Refs : Copies(r) > 0 => target[r] \in Tasks /\ status[target[r]] \notin Gone

THEOREM NoReferenceDangles ==
  ASSUME ~EarlyUse
  PROVE  Spec => []NoneDangles
<1>1. IInv => NoneDangles
  <2> SUFFICES ASSUME IInv, NEW r \in Refs, Copies(r) > 0
               PROVE  target[r] \in Tasks /\ status[target[r]] \notin Gone
    BY DEF NoneDangles
  <2>1. Holders(r) # {} \/ Keepers(r) # {} \/ Letters(r) # {}
    BY LastCopy
  <2>2. Letters(r) # {} <=>
          \E t \in Tasks : \E i \in (cleared[t] + 1)..Len(mail[t]) : mail[t][i] = r
    BY SomeLetter DEF IInv, TypeOK
  <2>3. Lies(r)
    BY <2>1, <2>2 DEF Lies, Holders, Keepers
  <2>4. target[r] \in Tasks
    BY <2>3 DEF IInv, RefsLie, TypeOK
  <2>5. r \in RefsTo(target[r])
    BY DEF RefsTo
  <2>6. QED
    BY <2>4, <2>5 DEF IInv, CountOf
<1>2. QED
  BY <1>1, LifeInvariance, PTL

(* A dead task that no reference counts is deleted at once by whoever was    *)
(* last, kill or drop (task.hpp:191-198, scheduler.cpp:57-62).               *)
THEOREM NobodyLeftBehind ==
  ASSUME ~EarlyUse
  PROVE  Spec => []NoneLeftBehind
<1>1. IInv => NoneLeftBehind
  BY DEF IInv, CountOf, RefsTo, NoneLeftBehind
<1>2. QED
  BY <1>1, LifeInvariance, PTL
===============================================================================
