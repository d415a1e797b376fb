---------------------------- MODULE DispatchProofs ----------------------------
(* Proofs about Dispatch, for any paths and any program, one that breaks the *)
(* discipline included: however dispatches nest and are torn down, the       *)
(* payload of every event is freed once, frames, blocks and handlers fit     *)
(* each other, and a kill is never shrugged off. For programs that keep to   *)
(* the discipline: every living handler meets the event, the latest first,   *)
(* and an await returns the next event of its path.                          *)
EXTENDS Dispatch, FiniteSetTheorems, TLAPS

IsStack(s) == \E S : s \in Seq(S)
Dispatches(s, i, e) == s[i].kind = "dispatch" /\ s[i].event = e
OnStack(e) == \E i \in 1 .. Len(frames) : Dispatches(frames, i, e)

(* Every frame knows its kind, and the event if it is a dispatch.            *)
Formed(f) == "kind" \in DOMAIN f /\ (f.kind = "dispatch" => "event" \in DOMAIN f)

(* The mailbox, with a count for every event.                                *)
Mail ==
  /\ sent \in Seq(Paths) /\ freed \in Seq(Nat) /\ Len(freed) = Len(sent)
  /\ taken \in 0 .. Len(sent)

(* The main function is at the bottom of the stack,                          *)
Bottom ==
  /\ IsStack(frames) /\ Len(frames) >= 1
  /\ frames[1] = Code(Main)
  /\ \A i \in 1 .. Len(frames) : Formed(frames[i])

(* a dispatch lies on the loop that took its event, so that an exception     *)
(* that takes both takes no other dispatch,                                  *)
OnItsLoop ==
  \A i \in 1 .. Len(frames) : frames[i].kind = "dispatch" =>
    /\ i > 1 /\ frames[i - 1].kind \in {"process", "until"}
    /\ frames[i].event \in 1 .. taken

(* and no event is in two dispatches.                                        *)
Distinct ==
  \A i, j \in 1 .. Len(frames) :
    frames[i].kind = "dispatch" /\ frames[j].kind = "dispatch"
      /\ frames[i].event = frames[j].event => i = j

OneOwner ==
  \A e \in 1 .. Len(sent) : freed[e] = IF e > taken \/ OnStack(e) THEN 0 ELSE 1

IInv == Mail /\ Bottom /\ OnItsLoop /\ Distinct /\ OneOwner

-------------------------------------------------------------------------------
(* Stacks.                                                                   *)

LEMMA StackPush ==
  ASSUME NEW s, NEW x, IsStack(s)
  PROVE  /\ IsStack(Append(s, x)) /\ Len(Append(s, x)) = Len(s) + 1
         /\ \A i \in 1 .. Len(s) : Append(s, x)[i] = s[i]
         /\ Append(s, x)[Len(s) + 1] = x
<1>1. PICK S : s \in Seq(S)
  BY DEF IsStack
<1>2. s \in Seq(S \union {x}) /\ x \in S \union {x}
  BY <1>1
<1>3. Append(s, x) \in Seq(S \union {x})
  BY <1>2
<1>4. QED
  BY <1>2, <1>3 DEF IsStack

LEMMA StackFront ==
  ASSUME NEW s, IsStack(s), Len(s) >= 1
  PROVE  /\ IsStack(Front(s)) /\ Len(Front(s)) = Len(s) - 1
         /\ \A i \in 1 .. Len(s) - 1 : Front(s)[i] = s[i]
<1>1. PICK S : s \in Seq(S)
  BY DEF IsStack
<1>2. Len(s) \in Nat
  BY <1>1
<1>3. PICK n \in Nat : n = Len(s)
  BY <1>2
<1>4. SubSeq(s, 1, n - 1) \in Seq(S) /\ Len(SubSeq(s, 1, n - 1)) = n - 1
  BY <1>1, <1>3
<1>5. \A i \in 1 .. n - 1 : SubSeq(s, 1, n - 1)[i] = s[i]
  BY <1>1, <1>3
<1>6. Front(s) = SubSeq(s, 1, n - 1)
  BY <1>3 DEF Front
<1>7. IsStack(Front(s))
  BY <1>4, <1>6 DEF IsStack
<1>8. QED
  BY <1>3, <1>4, <1>5, <1>6, <1>7

LEMMA StackMap ==
  ASSUME NEW s, NEW f, IsStack(s), f = [i \in DOMAIN s |-> f[i]]
  PROVE  IsStack(f) /\ Len(f) = Len(s) /\ DOMAIN s = 1 .. Len(s)
<1>1. PICK S : s \in Seq(S)
  BY DEF IsStack
<1>2. DOMAIN s = 1 .. Len(s) /\ Len(s) \in Nat
  BY <1>1
<1>3. PICK n \in Nat : n = Len(s)
  BY <1>2
<1>4. DOMAIN f = 1 .. n
  BY <1>2, <1>3
<1>5. PICK R : R = {f[i] : i \in 1 .. n}
  OBVIOUS
<1>6. f \in [1 .. n -> R]
  BY <1>2, <1>3, <1>5
<1>7. f \in Seq(R) /\ Len(f) = n
  BY <1>3, <1>4, <1>6
<1>8. QED
  BY <1>2, <1>3, <1>7 DEF IsStack

(* A frame that moves on.                                                    *)
Alike(f, g) ==
  /\ f.kind = g.kind /\ DOMAIN f = DOMAIN g
  /\ g.kind = "dispatch" => f.event = g.event
  /\ g.kind = "code" => f = g

(* The stack above k is replaced; what is new has at most one dispatch, that *)
(* of the event just taken, on the loop at k.                                *)
LEMMA StackStep ==
  ASSUME IInv, NEW k \in 1 .. Len(frames), NEW n \in Nat, NEW m \in Nat,
         n = Len(frames), m = Len(frames'), k <= m, IsStack(frames'),
         taken' \in Nat, taken' >= taken,
         \A i \in 1 .. k : Alike(frames'[i], frames[i]),
         \A i \in k + 1 .. m : Formed(frames'[i]),
         \A i \in k + 1 .. m : frames'[i].kind = "dispatch" =>
           /\ i = k + 1 /\ frames[k].kind \in {"process", "until"}
           /\ frames'[i].event = taken' /\ taken' > taken
  PROVE  /\ Bottom' /\ OnItsLoop' /\ Distinct'
         /\ \A e : OnStack(e)' <=> \/ \E i \in 1 .. k : Dispatches(frames, i, e)
                                   \/ \E i \in k + 1 .. m : Dispatches(frames', i, e)
<1>1. taken \in Nat
  BY DEF IInv, Mail
<1>0. \A i \in 1 .. k : /\ frames'[i].kind = frames[i].kind
                        /\ frames[i].kind = "dispatch" => frames'[i].event = frames[i].event
  BY DEF Alike
<1>2. Bottom'
  <2>0. frames[1] = Code(Main) /\ Code(Main).kind = "code"
    BY DEF IInv, Bottom, Code
  <2>1. frames'[1] = Code(Main)
    BY <2>0 DEF Alike
  <2>2. \A i \in 1 .. k : Formed(frames[i])
    BY DEF IInv, Bottom
  <2>3. \A i \in 1 .. k : Formed(frames'[i])
    BY <2>2 DEF Formed, Alike
  <2>4. QED
    BY <2>1, <2>3 DEF Bottom, Code
<1>3. OnItsLoop'
  <2> SUFFICES ASSUME NEW i \in 1 .. m, frames'[i].kind = "dispatch"
               PROVE  /\ i > 1 /\ frames'[i - 1].kind \in {"process", "until"}
                      /\ frames'[i].event \in 1 .. taken'
    BY DEF OnItsLoop
  <2>1. CASE i <= k
    <3>1. frames[i].kind = "dispatch" /\ frames'[i].event = frames[i].event
      BY <1>0, <2>1
    <3>2. i > 1 /\ frames[i - 1].kind \in {"process", "until"} /\ frames[i].event \in 1 .. taken
      BY <2>1, <3>1 DEF IInv, OnItsLoop
    <3>3. frames'[i - 1].kind = frames[i - 1].kind
      BY <1>0, <2>1, <3>2
    <3>4. QED
      BY <1>1, <3>1, <3>2, <3>3
  <2>2. CASE i > k
    <3>1. i = k + 1 /\ frames[k].kind \in {"process", "until"}
            /\ frames'[i].event = taken' /\ taken' > taken
      BY <2>2
    <3>2. frames'[k].kind = frames[k].kind
      BY <1>0
    <3>3. QED
      BY <1>1, <3>1, <3>2
  <2>3. QED
    BY <2>1, <2>2
<1>4. ASSUME NEW i \in 1 .. k, NEW j \in k + 1 .. m,
             frames'[i].kind = "dispatch", frames'[j].kind = "dispatch"
      PROVE  frames'[i].event # frames'[j].event
  <2>1. frames[i].kind = "dispatch" /\ frames'[i].event = frames[i].event
    BY <1>0, <1>4
  <2>2. frames[i].event \in 1 .. taken
    BY <2>1 DEF IInv, OnItsLoop
  <2>3. frames'[j].event = taken' /\ taken' > taken
    BY <1>4
  <2>4. QED
    BY <1>1, <2>1, <2>2, <2>3
<1>5. Distinct'
  <2> SUFFICES ASSUME NEW i \in 1 .. m, NEW j \in 1 .. m,
                      frames'[i].kind = "dispatch", frames'[j].kind = "dispatch",
                      frames'[i].event = frames'[j].event
               PROVE  i = j
    BY DEF Distinct
  <2>1. CASE i <= k /\ j <= k
    <3>1. /\ frames[i].kind = "dispatch" /\ frames[j].kind = "dispatch"
          /\ frames[i].event = frames[j].event
      BY <1>0, <2>1
    <3>2. QED
      BY <2>1, <3>1 DEF IInv, Distinct
  <2>2. CASE i > k /\ j > k
    BY <2>2
  <2>3. CASE i <= k /\ j > k
    BY <1>4, <2>3
  <2>4. CASE i > k /\ j <= k
    BY <1>4, <2>4
  <2>5. QED
    BY <2>1, <2>2, <2>3, <2>4
<1>6. ASSUME NEW e
      PROVE  OnStack(e)' <=> \/ \E i \in 1 .. k : Dispatches(frames, i, e)
                             \/ \E i \in k + 1 .. m : Dispatches(frames', i, e)
  <2>1. \A i \in 1 .. k : Dispatches(frames', i, e) <=> Dispatches(frames, i, e)
    BY <1>0 DEF Dispatches
  <2>2. OnStack(e)' <=> \E i \in 1 .. m : Dispatches(frames', i, e)
    BY DEF OnStack, Dispatches
  <2>3. QED
    BY <2>1, <2>2
<1>7. QED
  BY <1>2, <1>3, <1>5, <1>6

-------------------------------------------------------------------------------
(* Steps that take and free no event.                                        *)

LEMMA SameMail ==
  ASSUME IInv, UNCHANGED <<sent, taken, freed>>, Bottom', OnItsLoop', Distinct',
         \A e : OnStack(e)' <=> OnStack(e)
  PROVE  IInv'
<1>1. Mail'
  BY DEF IInv, Mail
<1>2. OneOwner'
  BY DEF IInv, OneOwner
<1>3. QED
  BY <1>1, <1>2 DEF IInv

(* The frames move on.                                                       *)
LEMMA Moved ==
  ASSUME IInv, UNCHANGED <<sent, taken, freed>>,
         IsStack(frames'), Len(frames') = Len(frames),
         \A i \in 1 .. Len(frames) : Alike(frames'[i], frames[i])
  PROVE  IInv'
<1>1. PICK n \in Nat : n = Len(frames) /\ n >= 1
  BY DEF IInv, Bottom, IsStack
<1>2. taken' = taken /\ taken \in Nat
  BY DEF IInv, Mail
<1>3. /\ Bottom' /\ OnItsLoop' /\ Distinct'
      /\ \A e : OnStack(e)' <=> \/ \E i \in 1 .. n : Dispatches(frames, i, e)
                                \/ \E i \in n + 1 .. n : Dispatches(frames', i, e)
  BY <1>1, <1>2, StackStep
<1>4. \A e : OnStack(e)' <=> OnStack(e)
  BY <1>1, <1>3 DEF OnStack
<1>5. QED
  BY <1>3, <1>4, SameMail

(* They do, and a loop or a handler comes on top.                            *)
LEMMA Pushed ==
  ASSUME IInv, UNCHANGED <<sent, taken, freed>>, NEW s, NEW f,
         IsStack(s), Len(s) = Len(frames),
         \A i \in 1 .. Len(frames) : Alike(s[i], frames[i]),
         Formed(f), f.kind # "dispatch", frames' = Append(s, f)
  PROVE  IInv'
<1>1. PICK n \in Nat : n = Len(frames) /\ n >= 1
  BY DEF IInv, Bottom, IsStack
<1>2. taken' = taken /\ taken \in Nat
  BY DEF IInv, Mail
<1>3. /\ IsStack(frames') /\ Len(frames') = n + 1
      /\ \A i \in 1 .. n : frames'[i] = s[i]
      /\ frames'[n + 1] = f
  BY <1>1, StackPush
<1>4. /\ Bottom' /\ OnItsLoop' /\ Distinct'
      /\ \A e : OnStack(e)' <=> \/ \E i \in 1 .. n : Dispatches(frames, i, e)
                                \/ \E i \in n + 1 .. n + 1 : Dispatches(frames', i, e)
  <2>1. \A i \in 1 .. n : Alike(frames'[i], frames[i])
    BY <1>1, <1>3
  <2>2. \A i \in n + 1 .. n + 1 : Formed(frames'[i]) /\ frames'[i].kind # "dispatch"
    BY <1>3
  <2>3. /\ n \in 1 .. Len(frames) /\ n + 1 \in Nat /\ n <= n + 1
        /\ n + 1 = Len(frames') /\ IsStack(frames')
        /\ taken' \in Nat /\ taken' >= taken
    BY <1>1, <1>2, <1>3
  <2>4. QED
    BY <1>1, <2>1, <2>2, <2>3, StackStep
<1>5. \A e : OnStack(e)' <=> OnStack(e)
  <2> SUFFICES ASSUME NEW e
               PROVE  OnStack(e)' <=> OnStack(e)
    OBVIOUS
  <2>1. \A i \in n + 1 .. n + 1 : ~Dispatches(frames', i, e)
    BY <1>1, <1>3 DEF Dispatches
  <2>2. OnStack(e) <=> \E i \in 1 .. n : Dispatches(frames, i, e)
    BY <1>1 DEF OnStack
  <2>3. QED
    BY <1>4, <2>1, <2>2
<1>6. QED
  BY <1>4, <1>5, SameMail

(* A loop or a handler ends.                                                 *)
LEMMA Popped ==
  ASSUME IInv, UNCHANGED <<sent, taken, freed>>, frames' = Return,
         Top.kind # "dispatch", Top.kind = "code" => Top.path # Main
  PROVE  IInv'
<1>1. PICK n \in Nat : n = Len(frames) /\ n >= 1
  BY DEF IInv, Bottom, IsStack
<1>2. taken' = taken /\ taken \in Nat
  BY DEF IInv, Mail
<1>3. n > 1 /\ frames[n].kind # "dispatch"
  BY <1>1 DEF IInv, Bottom, Top, Code
<1>4. /\ IsStack(frames') /\ Len(frames') = n - 1
      /\ \A i \in 1 .. n - 1 : frames'[i] = frames[i]
  BY <1>1, StackFront DEF IInv, Bottom, Return
<1>5. PICK k \in 1 .. n : k = n - 1
  BY <1>3
<1>6. /\ Bottom' /\ OnItsLoop' /\ Distinct'
      /\ \A e : OnStack(e)' <=> \/ \E i \in 1 .. k : Dispatches(frames, i, e)
                                \/ \E i \in k + 1 .. k : Dispatches(frames', i, e)
  <2>1. \A i \in 1 .. k : Alike(frames'[i], frames[i])
    BY <1>4, <1>5 DEF Alike
  <2>2. /\ k \in 1 .. Len(frames) /\ k \in Nat /\ k <= k
        /\ k = Len(frames') /\ IsStack(frames')
    BY <1>1, <1>4, <1>5
  <2>3. \A i \in k + 1 .. k : Formed(frames'[i]) /\ frames'[i].kind # "dispatch"
    BY <1>5
  <2>4. taken' \in Nat /\ taken' >= taken
    BY <1>2
  <2>5. QED
    BY <1>1, <2>1, <2>2, <2>3, <2>4, StackStep
<1>7. \A e : OnStack(e)' <=> OnStack(e)
  <2> SUFFICES ASSUME NEW e
               PROVE  OnStack(e)' <=> OnStack(e)
    OBVIOUS
  <2>1. ~Dispatches(frames, n, e)
    BY <1>3 DEF Dispatches
  <2>2. OnStack(e) <=> \E i \in 1 .. k : Dispatches(frames, i, e)
    BY <1>1, <1>5, <2>1 DEF OnStack
  <2>3. QED
    BY <1>6, <2>2
<1>8. QED
  BY <1>6, <1>7, SameMail

(* Ways to move on: a block has moved or an iterator moves, or an await is   *)
(* fulfilled.                                                                *)
LEMMA StaleMoves ==
  ASSUME IInv, NEW p
  PROVE  /\ IsStack(Stale(p)) /\ Len(Stale(p)) = Len(frames)
         /\ \A i \in 1 .. Len(frames) : Alike(Stale(p)[i], frames[i])
<1>1. IsStack(frames) /\ \A i \in 1 .. Len(frames) : Formed(frames[i])
  BY DEF IInv, Bottom
<1>2. IsStack(Stale(p)) /\ Len(Stale(p)) = Len(frames) /\ DOMAIN frames = 1 .. Len(frames)
  BY <1>1, StackMap DEF Stale
<1>3. ASSUME NEW i \in 1 .. Len(frames)
      PROVE  Alike(Stale(p)[i], frames[i])
  <2>1. \/ Stale(p)[i] = frames[i]
        \/ /\ frames[i].kind = "dispatch"
           /\ Stale(p)[i] = [frames[i] EXCEPT !.stale = TRUE]
    BY <1>2 DEF Stale
  <2>2. Formed(frames[i])
    BY <1>1
  <2>3. QED
    BY <2>1, <2>2 DEF Formed, Alike
<1>4. QED
  BY <1>2, <1>3

LEMMA IteratorMoves ==
  ASSUME IInv, Top.kind = "dispatch"
  PROVE  /\ IsStack(NextHandler) /\ Len(NextHandler) = Len(frames)
         /\ \A i \in 1 .. Len(frames) : Alike(NextHandler[i], frames[i])
<1>1. IsStack(frames) /\ \A i \in 1 .. Len(frames) : Formed(frames[i])
  BY DEF IInv, Bottom
<1>2. IsStack(NextHandler) /\ Len(NextHandler) = Len(frames) /\ DOMAIN frames = 1 .. Len(frames)
  BY <1>1, StackMap DEF NextHandler
<1>3. ASSUME NEW i \in 1 .. Len(frames)
      PROVE  Alike(NextHandler[i], frames[i])
  <2>1. CASE i = Len(frames)
    <3>1. frames[i].kind = "dispatch" /\ Formed(frames[i])
      BY <1>1, <2>1 DEF Top
    <3>2. NextHandler[i] = [frames[i] EXCEPT !.at = @ - 1]
      BY <1>2, <2>1 DEF NextHandler
    <3>3. QED
      BY <3>1, <3>2 DEF Formed, Alike
  <2>2. CASE i # Len(frames)
    BY <1>2, <2>2 DEF NextHandler, Alike
  <2>3. QED
    BY <2>1, <2>2
<1>4. QED
  BY <1>2, <1>3

LEMMA FulfilMoves ==
  ASSUME IInv, Top.kind = "dispatch", NEW h, Fulfil(h)
  PROVE  /\ IsStack(frames') /\ Len(frames') = Len(frames)
         /\ \A i \in 1 .. Len(frames) : Alike(frames'[i], frames[i])
<1>1. IsStack(frames) /\ \A i \in 1 .. Len(frames) : Formed(frames[i])
  BY DEF IInv, Bottom
<1>2. IsStack(frames') /\ Len(frames') = Len(frames) /\ DOMAIN frames = 1 .. Len(frames)
  BY <1>1, StackMap DEF Fulfil
<1>3. ASSUME NEW i \in 1 .. Len(frames)
      PROVE  Alike(frames'[i], frames[i])
  <2>1. \/ frames'[i] = NextHandler[i]
        \/ /\ frames[i].kind = "until"
           /\ frames'[i] = [frames[i] EXCEPT !.got = Top.event]
    BY <1>2 DEF Fulfil
  <2>2. Formed(frames[i])
    BY <1>1
  <2>3. CASE frames'[i] = NextHandler[i]
    BY <2>3, IteratorMoves
  <2>4. CASE /\ frames[i].kind = "until"
             /\ frames'[i] = [frames[i] EXCEPT !.got = Top.event]
    BY <2>2, <2>4 DEF Formed, Alike
  <2>5. QED
    BY <2>1, <2>3, <2>4
<1>4. QED
  BY <1>2, <1>3

-------------------------------------------------------------------------------
(* Steps that send, take or free an event.                                   *)

LEMMA SendStep ==
  ASSUME IInv, NEW p \in Paths, Send(p)
  PROVE  IInv'
<1>1. /\ sent' = Append(sent, p) /\ freed' = Append(freed, 0)
      /\ taken' = taken /\ frames' = frames
  BY DEF Send
<1>2. /\ sent \in Seq(Paths) /\ freed \in Seq(Nat) /\ Len(freed) = Len(sent)
      /\ taken \in 0 .. Len(sent)
  BY DEF IInv, Mail
<1>3. PICK n \in Nat : n = Len(sent)
  BY <1>2
<1>4. Mail' /\ Len(sent') = n + 1
  BY <1>1, <1>2, <1>3 DEF Mail
<1>5. Bottom' /\ OnItsLoop' /\ Distinct'
  BY <1>1 DEF IInv, Bottom, OnItsLoop, Distinct
<1>6. OneOwner'
  <2> SUFFICES ASSUME NEW e \in 1 .. n + 1
               PROVE  freed'[e] = IF e > taken \/ OnStack(e) THEN 0 ELSE 1
    BY <1>1, <1>4 DEF OneOwner, OnStack
  <2>1. CASE e = n + 1
    BY <1>1, <1>2, <1>3, <2>1
  <2>2. CASE e # n + 1
    <3>1. e \in 1 .. Len(sent) /\ freed'[e] = freed[e]
      BY <1>1, <1>2, <1>3, <2>2
    <3>2. QED
      BY <3>1 DEF IInv, OneOwner
  <2>3. QED
    BY <2>1, <2>2
<1>7. QED
  BY <1>4, <1>5, <1>6 DEF IInv

(* A payload is freed, and its event is on no stack and in no mailbox.       *)
LEMMA FreeStep ==
  ASSUME IInv, NEW e \in 1 .. Len(sent), freed[e] = 0,
         freed' = [freed EXCEPT ![e] = @ + 1], sent' = sent,
         taken' \in 0 .. Len(sent), e <= taken', ~OnStack(e)',
         \A d \in 1 .. Len(sent) : d # e =>
           (d > taken' <=> d > taken) /\ (OnStack(d)' <=> OnStack(d)),
         Bottom', OnItsLoop', Distinct'
  PROVE  IInv'
<1>1. /\ sent \in Seq(Paths) /\ freed \in Seq(Nat) /\ Len(freed) = Len(sent)
      /\ taken \in 0 .. Len(sent)
  BY DEF IInv, Mail
<1>2. PICK n \in Nat : n = Len(sent)
  BY <1>1
<1>3. freed \in [1 .. n -> Nat]
  BY <1>1, <1>2
<1>4. freed' \in [1 .. n -> Nat] /\ freed' \in Seq(Nat) /\ Len(freed') = n
  BY <1>1, <1>2, <1>3
<1>5. Mail'
  BY <1>1, <1>2, <1>4 DEF Mail
<1>6. OneOwner'
  <2> SUFFICES ASSUME NEW d \in 1 .. n
               PROVE  freed'[d] = IF d > taken' \/ OnStack(d)' THEN 0 ELSE 1
    BY <1>2 DEF OneOwner
  <2>1. CASE d = e
    <3>1. freed'[d] = 1
      BY <1>3, <2>1
    <3>2. ~(d > taken') /\ ~OnStack(d)'
      BY <1>2, <2>1
    <3>3. QED
      BY <3>1, <3>2
  <2>2. CASE d # e
    <3>1. freed'[d] = freed[d] /\ (d > taken' <=> d > taken) /\ (OnStack(d)' <=> OnStack(d))
      BY <1>2, <1>3, <2>2
    <3>2. freed[d] = IF d > taken \/ OnStack(d) THEN 0 ELSE 1
      BY <1>2 DEF IInv, OneOwner
    <3>3. QED
      BY <3>1, <3>2
  <2>3. QED
    BY <2>1, <2>2
<1>7. QED
  BY <1>5, <1>6 DEF IInv

(* The event on top of the stack is done with, and the stack shrinks to k.   *)
LEMMA DispatchGone ==
  ASSUME IInv, NEW n \in Nat, n = Len(frames), NEW k \in 1 .. Len(frames), k < n,
         Top.kind = "dispatch", \A i \in k + 1 .. n - 1 : frames[i].kind # "dispatch",
         IsStack(frames'), Len(frames') = k, \A i \in 1 .. k : frames'[i] = frames[i],
         sent' = sent, taken' = taken, freed' = [freed EXCEPT ![Top.event] = @ + 1]
  PROVE  IInv'
<1>1. PICK e : e = Top.event
  OBVIOUS
<1>2. frames[n].kind = "dispatch" /\ frames[n].event = e /\ e \in 1 .. taken
  BY <1>1 DEF IInv, OnItsLoop, Top
<1>3. taken \in 0 .. Len(sent) /\ Len(sent) \in Nat
  BY DEF IInv, Mail
<1>4. e \in 1 .. Len(sent) /\ OnStack(e) /\ freed[e] = 0
  <2>1. e \in 1 .. Len(sent)
    BY <1>2, <1>3
  <2>2. OnStack(e)
    BY <1>2 DEF OnStack, Dispatches
  <2>3. QED
    BY <2>1, <2>2 DEF IInv, OneOwner
<1>5. /\ Bottom' /\ OnItsLoop' /\ Distinct'
      /\ \A d : OnStack(d)' <=> \/ \E i \in 1 .. k : Dispatches(frames, i, d)
                                \/ \E i \in k + 1 .. k : Dispatches(frames', i, d)
  <2>1. \A i \in 1 .. k : Alike(frames'[i], frames[i])
    BY DEF Alike
  <2>2. k \in Nat /\ k <= k /\ taken' \in Nat /\ taken' >= taken
    BY <1>3
  <2>3. \A i \in k + 1 .. k : Formed(frames'[i]) /\ frames'[i].kind # "dispatch"
    OBVIOUS
  <2>4. QED
    BY <2>1, <2>2, <2>3, StackStep
<1>6. ~OnStack(e)'
  <2>1. \A i \in 1 .. k : ~Dispatches(frames, i, e)
    BY <1>2 DEF IInv, Distinct, Dispatches
  <2>2. QED
    BY <1>5, <2>1
<1>7. ASSUME NEW d, d # e
      PROVE  OnStack(d)' <=> OnStack(d)
  <2>1. ~Dispatches(frames, n, d)
    BY <1>2, <1>7 DEF Dispatches
  <2>2. \A i \in k + 1 .. n - 1 : ~Dispatches(frames, i, d)
    BY DEF Dispatches
  <2>3. \A i \in 1 .. n : Dispatches(frames, i, d) => i <= k
    BY <2>1, <2>2
  <2>4. OnStack(d) <=> \E i \in 1 .. k : Dispatches(frames, i, d)
    BY <2>3 DEF OnStack
  <2>5. QED
    BY <1>5, <2>4
<1>8. freed' = [freed EXCEPT ![e] = @ + 1] /\ taken' \in 0 .. Len(sent) /\ e <= taken'
  BY <1>1, <1>2, <1>3
<1>9. \A d \in 1 .. Len(sent) : d # e =>
        (d > taken' <=> d > taken) /\ (OnStack(d)' <=> OnStack(d))
  BY <1>7
<1>10. QED
  BY <1>4, <1>5, <1>6, <1>8, <1>9, FreeStep

LEMMA EndStep ==
  ASSUME IInv, DispatchEnds
  PROVE  IInv'
<1>1. PICK n \in Nat : n = Len(frames) /\ n >= 1
  BY DEF IInv, Bottom, IsStack
<1>2. Top.kind = "dispatch" /\ frames[n].kind = "dispatch"
  BY <1>1 DEF DispatchEnds, Runs, Top
<1>3. n > 1
  BY <1>1, <1>2 DEF IInv, OnItsLoop
<1>4. PICK k \in 1 .. n : k = n - 1
  BY <1>3
<1>5. /\ IsStack(frames') /\ Len(frames') = k
      /\ \A i \in 1 .. k : frames'[i] = frames[i]
  BY <1>1, <1>4, StackFront DEF IInv, Bottom, Return, DispatchEnds
<1>6. /\ sent' = sent /\ taken' = taken
      /\ freed' = [freed EXCEPT ![Top.event] = @ + 1]
  BY DEF DispatchEnds
<1>7. k \in 1 .. Len(frames) /\ k < n /\ k + 1 .. n - 1 = {}
  BY <1>1, <1>4
<1>8. QED
  BY <1>1, <1>2, <1>5, <1>6, <1>7, DispatchGone

LEMMA ThrowStep ==
  ASSUME IInv, DispatchThrows
  PROVE  IInv'
<1>1. PICK n \in Nat : n = Len(frames) /\ n >= 1
  BY DEF IInv, Bottom, IsStack
<1>2. Top.kind = "dispatch" /\ frames[n].kind = "dispatch"
  BY <1>1 DEF DispatchThrows, Unwinds, Top
<1>3. n > 1 /\ frames[n - 1].kind \in {"process", "until"}
  BY <1>1, <1>2 DEF IInv, OnItsLoop
<1>4. n - 1 # 1
  BY <1>3 DEF IInv, Bottom, Code
<1>5. PICK k \in 1 .. n : k = n - 2
  BY <1>3, <1>4
<1>6. /\ IsStack(Return) /\ Len(Return) = n - 1
      /\ \A i \in 1 .. n - 1 : Return[i] = frames[i]
  BY <1>1, StackFront DEF IInv, Bottom, Return
<1>7. /\ IsStack(frames') /\ Len(frames') = k
      /\ \A i \in 1 .. k : frames'[i] = frames[i]
  <2>1. frames' = Front(Return)
    BY DEF DispatchThrows
  <2>2. PICK r : r = Return
    OBVIOUS
  <2>3. IsStack(r) /\ Len(r) >= 1 /\ Len(r) - 1 = k
    <3>1. Len(r) = n - 1 /\ IsStack(r)
      BY <1>6, <2>2
    <3>2. QED
      BY <1>3, <1>5, <3>1
  <2>4. /\ IsStack(Front(r)) /\ Len(Front(r)) = Len(r) - 1
        /\ \A i \in 1 .. Len(r) - 1 : Front(r)[i] = r[i]
    BY <2>3, StackFront
  <2>5. \A i \in 1 .. k : i \in 1 .. n - 1
    BY <1>5
  <2>6. \A i \in 1 .. k : r[i] = frames[i]
    BY <1>6, <2>2, <2>5
  <2>7. QED
    BY <2>1, <2>2, <2>3, <2>4, <2>6
<1>8. /\ sent' = sent /\ taken' = taken
      /\ freed' = [freed EXCEPT ![Top.event] = @ + 1]
  BY DEF DispatchThrows
<1>9. \A i \in k + 1 .. n - 1 : frames[i].kind # "dispatch"
  BY <1>3, <1>5
<1>10. k \in 1 .. Len(frames) /\ k < n
  BY <1>1, <1>5
<1>11. QED
  BY <1>1, <1>2, <1>7, <1>8, <1>9, <1>10, DispatchGone

(* The next event is taken by the loop on top, and dropped or dispatched.    *)
LEMMA DequeueStep ==
  ASSUME IInv, Dequeue, Top.kind \in {"process", "until"}
  PROVE  IInv'
<1>1. PICK n \in Nat : n = Len(frames) /\ n >= 1
  BY DEF IInv, Bottom, IsStack
<1>2. taken \in 0 .. Len(sent) /\ Len(sent) \in Nat
  BY DEF IInv, Mail
<1>3. PICK e \in Nat : e = taken + 1
  BY <1>2
<1>4. e \in 1 .. Len(sent) /\ taken' = e /\ sent' = sent /\ taken < e
  BY <1>2, <1>3 DEF Dequeue
<1>5. ~OnStack(e)
  <2>1. \A i \in 1 .. n : frames[i].kind = "dispatch" => frames[i].event \in 1 .. taken
    BY <1>1 DEF IInv, OnItsLoop
  <2>2. QED
    BY <1>1, <1>2, <1>3, <2>1 DEF OnStack, Dispatches
<1>6. freed[e] = 0
  BY <1>4 DEF IInv, OneOwner
<1>7. \A d \in 1 .. Len(sent) : d # e => (d > taken' <=> d > taken)
  BY <1>2, <1>3, <1>4
<1>8. taken' \in Nat /\ taken' >= taken
  BY <1>2, <1>4
<1>9. PICK p, hs :
        \/ frames' = Stale(p) /\ freed' = [freed EXCEPT ![e] = @ + 1]
        \/ frames' = Append(frames, Iterate(e, p, hs)) /\ freed' = freed
  BY <1>3 DEF Dequeue, Push
<1>10. CASE frames' = Stale(p) /\ freed' = [freed EXCEPT ![e] = @ + 1]
  <2>1. /\ IsStack(frames') /\ Len(frames') = n
        /\ \A i \in 1 .. n : Alike(frames'[i], frames[i])
    BY <1>1, <1>10, StaleMoves
  <2>2. \A i \in n + 1 .. n : Formed(frames'[i]) /\ frames'[i].kind # "dispatch"
    BY <1>1
  <2>3. n \in 1 .. Len(frames) /\ n <= n
    BY <1>1
  <2>4. /\ Bottom' /\ OnItsLoop' /\ Distinct'
        /\ \A d : OnStack(d)' <=> \/ \E i \in 1 .. n : Dispatches(frames, i, d)
                                  \/ \E i \in n + 1 .. n : Dispatches(frames', i, d)
    BY <1>1, <1>8, <2>1, <2>2, <2>3, StackStep
  <2>5. \A d : OnStack(d)' <=> OnStack(d)
    BY <1>1, <2>4 DEF OnStack
  <2>6. \A d \in 1 .. Len(sent) : d # e =>
          (d > taken' <=> d > taken) /\ (OnStack(d)' <=> OnStack(d))
    BY <1>7, <2>5
  <2>7. taken' \in 0 .. Len(sent) /\ e <= taken' /\ ~OnStack(e)'
    BY <1>2, <1>4, <1>5, <2>5
  <2>8. QED
    BY <1>4, <1>6, <1>10, <2>4, <2>6, <2>7, FreeStep
<1>11. CASE frames' = Append(frames, Iterate(e, p, hs)) /\ freed' = freed
  <2>0. PICK f : f = Iterate(e, p, hs)
    OBVIOUS
  <2>1. f = Iterate(e, p, hs) /\ f.kind = "dispatch" /\ f.event = e /\ Formed(f)
    BY <2>0 DEF Iterate, Formed
  <2>2. /\ IsStack(frames') /\ Len(frames') = n + 1
        /\ \A i \in 1 .. n : frames'[i] = frames[i]
        /\ frames'[n + 1] = f
    BY <1>1, <1>11, <2>1, StackPush DEF IInv, Bottom
  <2>3. \A i \in 1 .. n : Alike(frames'[i], frames[i])
    BY <2>2 DEF Alike
  <2>4. frames[n].kind \in {"process", "until"}
    BY <1>1 DEF Top
  <2>5. \A i \in n + 1 .. n + 1 :
          /\ Formed(frames'[i]) /\ i = n + 1 /\ frames[n].kind \in {"process", "until"}
          /\ frames'[i].event = taken' /\ taken' > taken
    BY <1>2, <1>4, <2>1, <2>2, <2>4
  <2>6. n \in 1 .. Len(frames) /\ n + 1 \in Nat /\ n <= n + 1
    BY <1>1
  <2>7. /\ Bottom' /\ OnItsLoop' /\ Distinct'
        /\ \A d : OnStack(d)' <=> \/ \E i \in 1 .. n : Dispatches(frames, i, d)
                                  \/ \E i \in n + 1 .. n + 1 : Dispatches(frames', i, d)
    BY <1>1, <1>8, <2>2, <2>3, <2>5, <2>6, StackStep
  <2>8. \A d : Dispatches(frames', n + 1, d) <=> d = e
    BY <2>1, <2>2 DEF Dispatches
  <2>9. \A d : OnStack(d)' <=> OnStack(d) \/ d = e
    <3> SUFFICES ASSUME NEW d
                 PROVE  OnStack(d)' <=> OnStack(d) \/ d = e
      OBVIOUS
    <3>1. OnStack(d) <=> \E i \in 1 .. n : Dispatches(frames, i, d)
      BY <1>1 DEF OnStack
    <3>2. (\E i \in n + 1 .. n + 1 : Dispatches(frames', i, d)) <=> d = e
      BY <1>1, <2>8
    <3>3. QED
      BY <2>7, <3>1, <3>2
  <2>10. Mail'
    BY <1>2, <1>4, <1>11 DEF IInv, Mail
  <2>11. OneOwner'
    <3> SUFFICES ASSUME NEW d \in 1 .. Len(sent)
                 PROVE  freed[d] = IF d > taken' \/ OnStack(d)' THEN 0 ELSE 1
      BY <1>4, <1>11 DEF OneOwner
    <3>1. CASE d = e
      BY <1>6, <2>9, <3>1
    <3>2. CASE d # e
      BY <1>7, <2>9, <3>2 DEF IInv, OneOwner
    <3>3. QED
      BY <3>1, <3>2
  <2>12. QED
    BY <2>7, <2>10, <2>11 DEF IInv
<1>12. QED
  BY <1>9, <1>10, <1>11

-------------------------------------------------------------------------------
(* The other actions.                                                        *)

LEMMA Stands ==
  ASSUME IInv, UNCHANGED <<sent, taken, freed, frames>>
  PROVE  IInv'
<1>1. Bottom' /\ OnItsLoop' /\ Distinct'
  BY DEF IInv, Bottom, OnItsLoop, Distinct
<1>2. \A e : OnStack(e)' <=> OnStack(e)
  BY DEF OnStack
<1>3. QED
  BY <1>1, <1>2, SameMail

LEMMA SameFrames ==
  ASSUME IInv
  PROVE  IsStack(frames) /\ \A i \in 1 .. Len(frames) : Alike(frames[i], frames[i])
BY DEF IInv, Bottom, Alike

LEMMA BindStep ==
  ASSUME IInv, NEW p \in Paths, Bind(p)
  PROVE  IInv'
<1>1. UNCHANGED <<sent, taken, freed>> /\ (frames' = frames \/ frames' = Stale(p))
  BY DEF Bind
<1>2. CASE frames' = frames
  BY <1>1, <1>2, Stands
<1>3. CASE frames' = Stale(p)
  BY <1>1, <1>3, StaleMoves, Moved
<1>4. QED
  BY <1>1, <1>2, <1>3

LEMMA AwaitStep ==
  ASSUME IInv, NEW p \in Paths, Await(p)
  PROVE  IInv'
<1>1. UNCHANGED <<sent, taken, freed>>
  BY DEF Await
<1>2. PICK now \in {frames, Stale(p)} : frames' = Append(now, Until(Len(handlers) + 1))
  BY DEF Await
<1>3. PICK f : f = Until(Len(handlers) + 1)
  OBVIOUS
<1>4. Formed(f) /\ f.kind # "dispatch"
  BY <1>3 DEF Until, Formed
<1>5. /\ IsStack(now) /\ Len(now) = Len(frames)
      /\ \A i \in 1 .. Len(frames) : Alike(now[i], frames[i])
  BY <1>2, StaleMoves, SameFrames
<1>6. QED
  BY <1>1, <1>2, <1>3, <1>4, <1>5, Pushed

LEMMA ExecuteStep ==
  ASSUME IInv, Execute
  PROVE  IInv'
<1>1. UNCHANGED <<sent, taken, freed>> /\ Top.kind = "dispatch"
  BY DEF Execute, Runs
<1>2. CASE UNCHANGED frames
  BY <1>1, <1>2, Stands
<1>3. ASSUME NEW h, Fulfil(h)
      PROVE  IInv'
  BY <1>1, <1>3, FulfilMoves, Moved
<1>4. CASE frames' = Append(NextHandler, Code(Top.path))
  <2>1. PICK f : f = Code(Top.path)
    OBVIOUS
  <2>2. Formed(f) /\ f.kind # "dispatch"
    BY <2>1 DEF Code, Formed
  <2>3. QED
    BY <1>1, <1>4, <2>1, <2>2, IteratorMoves, Pushed
<1>5. QED
  BY <1>2, <1>3, <1>4 DEF Execute, Call

LEMMA ProcessStep ==
  ASSUME IInv, Process
  PROVE  IInv'
<1>1. UNCHANGED <<sent, taken, freed>> /\ frames' = Append(frames, Loop)
  BY DEF Process, Push
<1>2. PICK f : f = Loop
  OBVIOUS
<1>3. Formed(f) /\ f.kind # "dispatch"
  BY <1>2 DEF Loop, Formed
<1>4. QED
  BY <1>1, <1>2, <1>3, SameFrames, Pushed

(* Loops and handlers that end, by an exception or not.                      *)
LEMMA ReturnSteps ==
  ASSUME IInv, LoopEnds \/ AwaitReturns \/ HandlerReturns \/ HandlerThrows
  PROVE  IInv'
<1>1. UNCHANGED <<sent, taken, freed>> /\ frames' = Return
  BY DEF LoopEnds, AwaitReturns, HandlerReturns, HandlerThrows
<1>2. Top.kind # "dispatch" /\ (Top.kind = "code" => Top.path # Main)
  BY DEF LoopEnds, AwaitReturns, HandlerReturns, HandlerThrows, Runs, Unwinds
<1>3. QED
  BY <1>1, <1>2, Popped

LEMMA Inductive ==
  ASSUME IInv, [Next]_vars
  PROVE  IInv'
<1>1. CASE UNCHANGED vars
  BY <1>1, Stands DEF vars
<1>2. ASSUME NEW p \in Paths, Send(p) \/ Bind(p) \/ Await(p)
      PROVE  IInv'
  BY <1>2, SendStep, BindStep, AwaitStep
<1>3. ASSUME NEW h, CopyRef(h) \/ DropRef(h)
      PROVE  IInv'
  BY <1>3, Stands DEF CopyRef, DropRef
<1>4. CASE Stop \/ Throw \/ Catch
  BY <1>4, Stands DEF Stop, Throw, Catch
<1>5. CASE LoopTakes \/ AwaitTakes
  BY <1>5, DequeueStep DEF LoopTakes, AwaitTakes, Runs
<1>6. CASE Process \/ Execute
  BY <1>6, ProcessStep, ExecuteStep
<1>7. CASE LoopEnds \/ AwaitReturns \/ HandlerReturns \/ HandlerThrows
  BY <1>7, ReturnSteps
<1>8. CASE DispatchEnds \/ DispatchThrows
  BY <1>8, EndStep, ThrowStep
<1>9. QED
  BY <1>1, <1>2, <1>3, <1>4, <1>5, <1>6, <1>7, <1>8 DEF Next

LEMMA InitInvariant ==
  ASSUME Init
  PROVE  IInv
<1>0. PICK main : main = Code(Main)
  OBVIOUS
<1>1. main.kind = "code" /\ main.path = Main /\ Formed(main)
  BY <1>0 DEF Code, Formed
<1>2. PICK s : s = <<main>>
  OBVIOUS
<1>3. s \in Seq({main}) /\ Len(s) = 1 /\ s[1] = main /\ frames = s
  BY <1>0, <1>2 DEF Init
<1>4. IsStack(frames)
  BY <1>3 DEF IsStack
<1>5. \A i \in 1 .. Len(frames) : frames[i].kind = "code" /\ Formed(frames[i])
  BY <1>1, <1>3
<1>6. Bottom
  BY <1>0, <1>3, <1>4, <1>5 DEF Bottom
<1>7. OnItsLoop /\ Distinct
  BY <1>5 DEF OnItsLoop, Distinct
<1>8. Mail /\ OneOwner
  BY DEF Init, Mail, OneOwner
<1>9. QED
  BY <1>6, <1>7, <1>8 DEF IInv

(* The mailbox, the stack and the counts of freed payloads agree always,     *)
(* whatever handlers bind, release, await and throw (context.cpp:64-130).    *)
THEOREM DispatchInvariance == Spec => []IInv
<1>1. Init => IInv
  BY InitInvariant
<1>2. IInv /\ [Next]_vars => IInv'
  BY Inductive
<1>3. QED
  BY <1>1, <1>2, PTL DEF Spec

(* The payload of an event is freed once, when its dispatch has ended or has *)
(* been torn down by an exception (context.cpp:77-85, 121-129).              *)
THEOREM NoPayloadLostOrFreedTwice == Spec => []PayloadsFreedOnce
<1>1. IInv => PayloadsFreedOnce
  <2> SUFFICES ASSUME IInv, NEW e \in DOMAIN sent
               PROVE  freed[e] = IF \/ e > taken
                                    \/ \E i \in DOMAIN frames :
                                         frames[i].kind = "dispatch" /\ frames[i].event = e
                                 THEN 0 ELSE 1
    BY DEF PayloadsFreedOnce
  <2>1. DOMAIN sent = 1 .. Len(sent)
    BY DEF IInv, Mail
  <2>2. DOMAIN frames = 1 .. Len(frames)
    BY DEF IInv, Bottom, IsStack
  <2>3. freed[e] = IF e > taken \/ OnStack(e) THEN 0 ELSE 1
    BY <2>1 DEF IInv, OneOwner
  <2>4. QED
    BY <2>2, <2>3 DEF OnStack, Dispatches
<1>2. QED
  BY <1>1, DispatchInvariance, PTL

-------------------------------------------------------------------------------
(* What else is true of any program: handlers, blocks and frames fit.        *)

Roles == {"user", "await", "kill"}
Handler == [path : Paths, role : Roles, refs : 0 .. MaxRefs]

(* A block holds handlers of its path, in the order they were bound.         *)
InOrder(b, p, hs) ==
  \A i \in 1 .. Len(b) :
    /\ b[i] \in 1 .. Len(hs) /\ hs[b[i]].path = p
    /\ \A j \in 1 .. (i - 1) : b[j] < b[i]

Roster(hs, bs) ==
  /\ hs \in Seq(Handler) /\ bs \in [Paths -> Seq(Nat)]
  /\ \A p \in Paths : InOrder(bs[p], p, hs)

(* A frame fits the handlers hs and the events ms.                           *)
Fits(f, hs, ms) ==
  /\ f.kind \in {"code", "process", "until", "dispatch"}
  /\ f.kind = "until" =>
       /\ {"handler", "got", "since"} \subseteq DOMAIN f
       /\ f.handler \in 1 .. Len(hs) /\ hs[f.handler].role = "await"
  /\ f.kind = "dispatch" =>
       /\ {"path", "targets", "at", "stale"} \subseteq DOMAIN f
       /\ f.path = ms[f.event] /\ f.at \in Nat
FramesFit == \A i \in 1 .. Len(frames) : Fits(frames[i], handlers, sent)

Flags ==
  /\ initialized \in BOOLEAN /\ stopped \in BOOLEAN /\ wild \in BOOLEAN
  /\ exc \in Exceptions /\ thrown \subseteq 1 .. taken
  /\ Len(sent) <= MaxEvents /\ (~initialized => taken = 0)

(* The iterators over the block of p have yet to come to its place j, if     *)
(* their event came after the first s,                                       *)
Ahead(j, p, s) ==
  \A i \in 1 .. Len(frames) :
    frames[i].kind = "dispatch" /\ frames[i].path = p /\ frames[i].event > s
      => j <= frames[i].at

(* and the living kill handler is ahead of all of them.                      *)
Killer(hs, h) == hs[h].role = "kill" /\ hs[h].refs > 0
KillWaits ==
  initialized =>
    \E j \in 1 .. Len(block[Kill]) : Killer(handlers, block[Kill][j]) /\ Ahead(j, Kill, 0)

FInv == IInv /\ Roster(handlers, block) /\ FramesFit /\ Flags /\ KillWaits

-------------------------------------------------------------------------------
(* Collecting the dead handlers of a block: the living move down in order.   *)

Sifted(c, b, hs) ==
  /\ c \in Seq(Nat)
  /\ \A n \in 1 .. Len(c) : hs[c[n]].refs > 0
  /\ \E from \in [1 .. Len(c) -> 1 .. Len(b)] :
       /\ \A n \in 1 .. Len(c) : c[n] = b[from[n]]
       /\ \A n, m \in 1 .. Len(c) : n < m => from[n] < from[m]
  /\ \A i \in 1 .. Len(b) : hs[b[i]].refs > 0 => \E n \in 1 .. Len(c) : n <= i /\ c[n] = b[i]
  /\ \A k \in 0 .. Len(b) :
       (\A i \in 1 .. k : hs[b[i]].refs > 0) =>
         k <= Len(c) /\ \A i \in 1 .. k : c[i] = b[i]

LEMMA Places ==
  ASSUME NEW hs, NEW b \in Seq(Nat), NEW L, L = Living(hs, b)
  PROVE  /\ L \subseteq 1 .. Len(b) /\ IsFiniteSet(L) /\ Cardinality(L) \in Nat
         /\ \A i \in L : Place(hs, b, i) \in 1 .. Cardinality(L) /\ Place(hs, b, i) <= i
         /\ \A i, k \in L : i < k => Place(hs, b, i) < Place(hs, b, k)
<1>1. L \subseteq 1 .. Len(b) /\ Len(b) \in Nat
  BY DEF Living
<1>2. IsFiniteSet(L) /\ Cardinality(L) \in Nat
  <2>1. IsFiniteSet(1 .. Len(b)) /\ L \in SUBSET (1 .. Len(b))
    BY <1>1, FS_Interval
  <2>2. IsFiniteSet(L)
    BY <2>1, FS_Subset
  <2>3. QED
    BY <2>2, FS_CardinalityType
<1> DEFINE T(i) == {j \in L : j <= i}
<1>3. ASSUME NEW i \in L
      PROVE  /\ IsFiniteSet(T(i)) /\ Cardinality(T(i)) \in 1 .. Cardinality(L)
             /\ Cardinality(T(i)) \in Nat
             /\ Cardinality(T(i)) <= i
  <2>1. T(i) \in SUBSET L /\ i \in T(i)
    BY <1>1
  <2>2. IsFiniteSet(T(i)) /\ Cardinality(T(i)) <= Cardinality(L)
    BY <1>2, <2>1, FS_Subset
  <2>3. Cardinality(T(i)) \in Nat /\ Cardinality(T(i)) # 0
    BY <2>1, <2>2, FS_CardinalityType, FS_EmptySet
  <2>4. i \in Nat /\ 1 <= i /\ T(i) \in SUBSET (1 .. i)
    BY <1>1
  <2>5. IsFiniteSet(1 .. i) /\ Cardinality(1 .. i) = i
    BY <2>4, FS_Interval
  <2>6. Cardinality(T(i)) <= i
    BY <2>4, <2>5, FS_Subset
  <2>7. QED
    BY <1>2, <2>2, <2>3, <2>6
<1>4. ASSUME NEW i \in L, NEW k \in L, i < k
      PROVE  Cardinality(T(i)) < Cardinality(T(k))
  <2>1. T(i) \in SUBSET T(k) /\ k \in T(k) /\ k \notin T(i)
    BY <1>1, <1>4
  <2>2. Cardinality(T(i)) <= Cardinality(T(k)) /\ Cardinality(T(k)) # Cardinality(T(i))
    BY <1>3, <2>1, FS_Subset
  <2>3. Cardinality(T(i)) \in Nat /\ Cardinality(T(k)) \in Nat
    BY <1>3
  <2>4. QED
    BY <2>2, <2>3
<1>5. \A i : Place(hs, b, i) = Cardinality(T(i))
  BY DEF Place
<1>6. QED
  BY ZenonT(40), <1>1, <1>2, <1>3, <1>4, <1>5

LEMMA CollectSifts ==
  ASSUME NEW hs, NEW b \in Seq(Nat)
  PROVE  Sifted(Collect(hs, b), b, hs)
<1>0. PICK L : L = Living(hs, b)
  OBVIOUS
<1>1. /\ L \subseteq 1 .. Len(b) /\ IsFiniteSet(L) /\ Cardinality(L) \in Nat
      /\ \A i \in L : Place(hs, b, i) \in 1 .. Cardinality(L) /\ Place(hs, b, i) <= i
      /\ \A i, k \in L : i < k => Place(hs, b, i) < Place(hs, b, k)
  BY <1>0, Places
<1>2. PICK m \in Nat : m = Cardinality(L)
  BY <1>1
<1>. Len(b) \in Nat /\ b \in [1 .. Len(b) -> Nat] /\ L \subseteq 1 .. Len(b)
  BY <1>1
<1>3. PICK f : f = [i \in L |-> Place(hs, b, i)]
  OBVIOUS
<1>4. \A i, k \in L : f[i] = f[k] => i = k
  <2> SUFFICES ASSUME NEW i \in L, NEW k \in L, i # k
               PROVE  f[i] # f[k]
    OBVIOUS
  <2>1. i < k \/ k < i
    BY <1>1
  <2>2. f[i] \in Int /\ f[k] \in Int /\ (f[i] < f[k] \/ f[k] < f[i])
    BY <1>1, <1>3, <2>1
  <2>3. QED
    BY <2>2
<1>5. f \in Injection(L, 1 .. m)
  BY <1>1, <1>2, <1>3, <1>4 DEF Injection, IsInjective
<1>6. f \in Surjection(L, 1 .. m)
  BY <1>1, <1>2, <1>5, FS_Interval, FS_Injection
<1>7. \A q \in 1 .. m : \E i \in L : Place(hs, b, i) = q
  BY <1>3, <1>6 DEF Surjection
<1>8. PICK from : from = [q \in 1 .. m |-> CHOOSE i \in L : Place(hs, b, i) = q]
  OBVIOUS
<1>9. \A q \in 1 .. m : from[q] \in L /\ Place(hs, b, from[q]) = q
  BY <1>7, <1>8
<1>10. PICK c : c = Collect(hs, b)
  OBVIOUS
<1>11. c = [q \in 1 .. m |-> b[from[q]]]
  BY <1>0, <1>2, <1>8, <1>10 DEF Collect
<1>12. c \in Seq(Nat) /\ Len(c) = m
  <2>1. \A q \in 1 .. m : b[from[q]] \in Nat
    BY <1>9
  <2>2. QED
    BY <1>11, <2>1
<1>13. \A i \in L : hs[b[i]].refs > 0
  BY <1>0 DEF Living
<1>14. \A n \in 1 .. m : c[n] = b[from[n]] /\ hs[c[n]].refs > 0
  BY <1>9, <1>11, <1>13
<1>15. \A n, q \in 1 .. m : n < q => from[n] < from[q]
  <2> SUFFICES ASSUME NEW n \in 1 .. m, NEW q \in 1 .. m, n < q, ~(from[n] < from[q])
               PROVE  FALSE
    OBVIOUS
  <2>0. from[n] \in L /\ from[q] \in L
    BY <1>9
  <2>1. from[n] \in Int /\ from[q] \in Int
    <3>1. \A i \in L : i \in Int
      OBVIOUS
    <3>2. QED
      BY <2>0, <3>1, Zenon
  <2>2. from[n] = from[q] \/ from[q] < from[n]
    BY <2>1
  <2>3. n = q \/ q < n
    BY <1>1, <1>9, <2>2
  <2>4. QED
    BY <2>3
<1>16. from \in [1 .. m -> 1 .. Len(b)]
  BY <1>1, <1>8, <1>9
<1>17. ASSUME NEW i \in L
       PROVE  from[Place(hs, b, i)] = i /\ c[Place(hs, b, i)] = b[i]
  <2>1. PICK q \in 1 .. m : q = Place(hs, b, i)
    BY <1>1, <1>2
  <2>2. from[q] \in L /\ Place(hs, b, from[q]) = Place(hs, b, i)
    BY <1>9, <2>1
  <2>3. from[q] = i
    BY <1>3, <1>4, <2>2
  <2>4. QED
    BY <1>14, <2>1, <2>3
<1>18. DOMAIN b = 1 .. Len(b)
  OBVIOUS
<1>19. ASSUME NEW i \in 1 .. Len(b), hs[b[i]].refs > 0
       PROVE  i \in L
  BY <1>0, <1>18, <1>19 DEF Living
<1>20. \A i \in 1 .. Len(b) : hs[b[i]].refs > 0 => \E n \in 1 .. m : n <= i /\ c[n] = b[i]
  BY <1>1, <1>2, <1>17, <1>19
<1>21. ASSUME NEW k \in 0 .. Len(b), \A i \in 1 .. k : hs[b[i]].refs > 0
       PROVE  k <= m /\ \A i \in 1 .. k : c[i] = b[i]
  <2>1. \A i \in 1 .. k : i \in L
    BY <1>19, <1>21
  <2>2. ASSUME NEW i \in 1 .. k
        PROVE  Place(hs, b, i) = i
    <3>0. 1 .. i \subseteq 1 .. k /\ 1 .. k \subseteq L /\ L \subseteq Int
      BY <2>1
    <3>1. {j \in L : j <= i} = 1 .. i
      <4>1. ASSUME NEW j \in L, j <= i
            PROVE  j \in 1 .. i
        BY <4>1
      <4>2. ASSUME NEW j \in 1 .. i
            PROVE  j \in L /\ j <= i
        BY <3>0
      <4>3. QED
        BY <4>1, <4>2
    <3>2. Cardinality(1 .. i) = i
      BY FS_Interval
    <3>3. QED
      BY <1>0, <3>1, <3>2 DEF Place
  <2>3. \A i \in 1 .. k : c[i] = b[i]
    BY <1>17, <2>1, <2>2
  <2>4. k <= m
    <3>1. CASE k = 0
      BY <3>1
    <3>2. CASE k # 0
      <4>1. k \in 1 .. k
        BY <3>2
      <4>2. k \in L /\ Place(hs, b, k) = k
        BY <2>1, <2>2, <4>1
      <4>3. QED
        BY <1>1, <1>2, <4>2
    <3>3. QED
      BY <3>1, <3>2
  <2>5. QED
    BY <2>3, <2>4
<1>22. QED
  BY <1>10, <1>12, <1>14, <1>15, <1>16, <1>20, <1>21 DEF Sifted
-------------------------------------------------------------------------------
(* What actions do to the handlers and their blocks.                         *)

LEMMA ListIsSeq ==
  ASSUME NEW S, NEW n \in Nat, NEW f \in [1 .. n -> S]
  PROVE  f \in Seq(S) /\ Len(f) = n
OBVIOUS

(* No handler is forgotten, none changes its role, and nobody releases the   *)
(* kill handler.                                                             *)
Keeps(hs, gs) ==
  /\ Len(hs) <= Len(gs)
  /\ \A h \in 1 .. Len(hs) :
       /\ gs[h].path = hs[h].path /\ gs[h].role = hs[h].role
       /\ hs[h].role = "kill" => gs[h].refs = hs[h].refs

Added(hs, bs, p, role, gs, cs) ==
  /\ gs = Append(hs, [path |-> p, role |-> role, refs |-> 1])
  /\ cs = [bs EXCEPT ![p] = Append(@, Len(hs) + 1)]

Extends(hs, bs, p, role, gs, cs) ==
  /\ Len(hs) \in Nat /\ Len(gs) = Len(hs) + 1
  /\ \A h \in 1 .. Len(hs) : gs[h] = hs[h]
  /\ gs[Len(hs) + 1] = [path |-> p, role |-> role, refs |-> 1]
  /\ Len(bs[p]) \in Nat /\ Len(cs[p]) = Len(bs[p]) + 1
  /\ \A i \in 1 .. Len(bs[p]) : cs[p][i] = bs[p][i]
  /\ cs[p][Len(bs[p]) + 1] = Len(hs) + 1
  /\ \A q \in Paths : q # p => cs[q] = bs[q]

LEMMA RosterAdd ==
  ASSUME NEW hs, NEW bs, Roster(hs, bs), NEW p \in Paths, NEW role \in Roles,
         NEW gs, NEW cs, Added(hs, bs, p, role, gs, cs)
  PROVE  Roster(gs, cs) /\ Keeps(hs, gs) /\ Extends(hs, bs, p, role, gs, cs)
<1>0. /\ gs = Append(hs, [path |-> p, role |-> role, refs |-> 1])
      /\ cs = [bs EXCEPT ![p] = Append(@, Len(hs) + 1)]
  BY DEF Added
<1>1. hs \in Seq(Handler) /\ bs \in [Paths -> Seq(Nat)]
  BY DEF Roster
<1>2. PICK n \in Nat : n = Len(hs)
  BY <1>1
<1>3. PICK x : x = [path |-> p, role |-> role, refs |-> 1]
  OBVIOUS
<1>4. x \in Handler /\ x.path = p
  <2>1. 1 \in 0 .. MaxRefs
    BY BoundsAssumption
  <2>2. QED
    BY <1>3, <2>1 DEF Handler
<1>5. /\ gs \in Seq(Handler) /\ Len(gs) = n + 1 /\ gs[n + 1] = x
      /\ \A h \in 1 .. n : gs[h] = hs[h]
  BY <1>0, <1>1, <1>2, <1>3, <1>4
<1>6. PICK b \in Seq(Nat) : b = bs[p]
  BY <1>1
<1>7. PICK m \in Nat : m = Len(b)
  BY <1>6
<1>8. PICK c : c = Append(b, n + 1)
  OBVIOUS
<1>9. /\ c \in Seq(Nat) /\ Len(c) = m + 1 /\ c[m + 1] = n + 1
      /\ \A i \in 1 .. m : c[i] = b[i]
  BY <1>6, <1>7, <1>8
<1>10. cs[p] = c /\ (\A q \in Paths : q # p => cs[q] = bs[q]) /\ cs \in [Paths -> Seq(Nat)]
  BY <1>0, <1>1, <1>2, <1>6, <1>8, <1>9
<1>11. InOrder(b, p, hs)
  BY <1>6 DEF Roster
<1>12. InOrder(c, p, gs)
  <2> SUFFICES ASSUME NEW i \in 1 .. m + 1
               PROVE  /\ c[i] \in 1 .. n + 1 /\ gs[c[i]].path = p
                      /\ \A j \in 1 .. (i - 1) : c[j] < c[i]
    BY <1>5, <1>9 DEF InOrder
  <2>1. CASE i = m + 1
    <3>1. c[i] = n + 1 /\ gs[c[i]] = x
      BY <1>5, <1>9, <2>1
    <3>2. ASSUME NEW j \in 1 .. (i - 1)
          PROVE  c[j] < c[i]
      <4>1. j \in 1 .. m /\ c[j] = b[j]
        BY <1>9, <2>1
      <4>2. b[j] \in 1 .. n
        BY <1>2, <1>7, <1>11, <4>1 DEF InOrder
      <4>3. QED
        BY <3>1, <4>1, <4>2
    <3>3. c[i] \in 1 .. n + 1 /\ gs[c[i]].path = p
      <4>1. n + 1 \in 1 .. n + 1
        OBVIOUS
      <4>2. QED
        BY <1>4, <3>1, <4>1, Zenon
    <3>4. QED
      BY <3>2, <3>3
  <2>2. CASE i # m + 1
    <3>1. i \in 1 .. m /\ c[i] = b[i]
      BY <1>9, <2>2
    <3>2. b[i] \in 1 .. n /\ hs[b[i]].path = p /\ \A j \in 1 .. (i - 1) : b[j] < b[i]
      BY <1>2, <1>7, <1>11, <3>1 DEF InOrder
    <3>3. \A j \in 1 .. (i - 1) : c[j] = b[j]
      BY <1>9, <3>1
    <3>4. gs[b[i]] = hs[b[i]] /\ b[i] \in 1 .. n + 1
      BY <1>5, <3>2
    <3>5. QED
      BY <3>1, <3>2, <3>3, <3>4
  <2>3. QED
    BY <2>1, <2>2
<1>13. ASSUME NEW q \in Paths, q # p
       PROVE  InOrder(cs[q], q, gs)
  <2>1. cs[q] = bs[q] /\ InOrder(bs[q], q, hs)
    BY <1>10, <1>13 DEF Roster
  <2>2. \A k \in 1 .. n : k \in 1 .. n + 1 /\ gs[k] = hs[k]
    BY <1>5
  <2>3. QED
    BY <1>2, <1>5, <2>1, <2>2 DEF InOrder
<1>14. Roster(gs, cs)
  <2>1. \A q \in Paths : InOrder(cs[q], q, gs)
    BY <1>10, <1>12, <1>13
  <2>2. QED
    BY <1>5, <1>10, <2>1 DEF Roster
<1>15. Keeps(hs, gs)
  BY <1>2, <1>5 DEF Keeps
<1>16. Extends(hs, bs, p, role, gs, cs)
  BY <1>2, <1>3, <1>5, <1>6, <1>7, <1>9, <1>10 DEF Extends
<1>17. QED
  BY <1>14, <1>15, <1>16

LEMMA RosterCount ==
  ASSUME NEW hs, NEW bs, Roster(hs, bs), NEW h \in 1 .. Len(hs), hs[h].role # "kill",
         NEW r \in 0 .. MaxRefs, NEW gs, gs = [hs EXCEPT ![h].refs = r]
  PROVE  /\ Roster(gs, bs) /\ Keeps(hs, gs) /\ Len(gs) = Len(hs)
         /\ gs[h].refs = r /\ \A k \in 1 .. Len(hs) : k # h => gs[k] = hs[k]
<1>1. hs \in Seq(Handler) /\ bs \in [Paths -> Seq(Nat)]
  BY DEF Roster
<1>2. PICK n \in Nat : n = Len(hs)
  BY <1>1
<1>3. hs \in [1 .. n -> Handler] /\ hs[h] \in Handler
  BY <1>1, <1>2
<1>4. PICK x : x = [hs[h] EXCEPT !.refs = r]
  OBVIOUS
<1>5. x \in Handler /\ x.refs = r /\ x.path = hs[h].path /\ x.role = hs[h].role
  BY <1>3, <1>4 DEF Handler
<1>6. gs = [hs EXCEPT ![h] = x]
  BY <1>4
<1>7. gs[h] = x /\ (\A k \in 1 .. n : k # h => gs[k] = hs[k]) /\ gs \in [1 .. n -> Handler]
  BY <1>2, <1>3, <1>5, <1>6
<1>8. gs \in Seq(Handler) /\ Len(gs) = n
  <2>1. gs \in [1 .. n -> Handler]
    BY <1>7
  <2>2. QED
    BY <2>1, ListIsSeq, Zenon
<1>9. \A k \in 1 .. n : gs[k].path = hs[k].path /\ gs[k].role = hs[k].role
  BY <1>2, <1>5, <1>7
<1>10. Keeps(hs, gs)
  BY <1>2, <1>7, <1>8, <1>9 DEF Keeps
<1>11. \A p \in Paths : InOrder(bs[p], p, gs)
  BY <1>2, <1>8, <1>9 DEF Roster, InOrder
<1>12. QED
  BY <1>1, <1>2, <1>5, <1>7, <1>8, <1>10, <1>11 DEF Roster

LEMMA RosterCollect ==
  ASSUME NEW hs, NEW bs, Roster(hs, bs), NEW p \in Paths,
         NEW c, c = Collect(hs, bs[p]), NEW cs, cs = [bs EXCEPT ![p] = c]
  PROVE  /\ Roster(hs, cs) /\ cs[p] = c /\ Sifted(c, bs[p], hs)
         /\ \A q \in Paths : q # p => cs[q] = bs[q]
<1>1. hs \in Seq(Handler) /\ bs \in [Paths -> Seq(Nat)]
  BY DEF Roster
<1>2. PICK b \in Seq(Nat) : b = bs[p]
  BY <1>1
<1>3. Sifted(c, b, hs) /\ c \in Seq(Nat)
  <2>1. Sifted(Collect(hs, b), b, hs)
    BY CollectSifts
  <2>2. Sifted(c, b, hs)
    BY <1>2, <2>1, Zenon
  <2>3. QED
    BY <2>2, Zenon DEF Sifted
<1>4. cs[p] = c /\ (\A q \in Paths : q # p => cs[q] = bs[q]) /\ cs \in [Paths -> Seq(Nat)]
  BY <1>1, <1>3
<1>5. PICK m \in Nat, n \in Nat : m = Len(c) /\ n = Len(b)
  BY <1>2, <1>3
<1>6. PICK from \in [1 .. m -> 1 .. n] :
        /\ \A i \in 1 .. m : c[i] = b[from[i]]
        /\ \A i, j \in 1 .. m : i < j => from[i] < from[j]
  BY <1>3, <1>5 DEF Sifted
<1>7. \A i \in 1 .. n : /\ b[i] \in 1 .. Len(hs) /\ hs[b[i]].path = p
                        /\ \A j \in 1 .. (i - 1) : b[j] < b[i]
  BY <1>2, <1>5 DEF Roster, InOrder
<1>8. InOrder(c, p, hs)
  <2> SUFFICES ASSUME NEW i \in 1 .. m
               PROVE  /\ c[i] \in 1 .. Len(hs) /\ hs[c[i]].path = p
                      /\ \A j \in 1 .. (i - 1) : c[j] < c[i]
    BY <1>5 DEF InOrder
  <2>1. from[i] \in 1 .. n /\ c[i] = b[from[i]]
    BY <1>6
  <2>2. ASSUME NEW j \in 1 .. (i - 1)
        PROVE  c[j] < c[i]
    <3>1. j \in 1 .. m /\ j < i
      OBVIOUS
    <3>2. from[j] < from[i] /\ from[j] \in 1 .. n /\ c[j] = b[from[j]]
      BY <1>6, <3>1
    <3>3. from[j] \in 1 .. (from[i] - 1)
      BY <2>1, <3>2
    <3>4. QED
      BY <1>7, <2>1, <3>2, <3>3
  <2>3. QED
    BY <1>7, <2>1, <2>2
<1>9. \A q \in Paths : InOrder(cs[q], q, hs)
  BY <1>4, <1>8 DEF Roster
<1>10. QED
  BY <1>1, <1>2, <1>3, <1>4, <1>9 DEF Roster
-------------------------------------------------------------------------------
(* What a step does to the frames: it moves one on, puts one on top or takes *)
(* the top away.                                                             *)

Advances(f, g) ==
  \/ g = f
  \/ f.kind = "dispatch" /\ g = [f EXCEPT !.stale = TRUE]
  \/ Execute /\ f.kind = "until" /\ g = [f EXCEPT !.got = Top.event]

(* The iterator on top moves.                                                *)
Iterates(i) ==
  /\ Execute /\ i = Len(frames) /\ frames[i].kind = "dispatch"
  /\ frames'[i] = [frames[i] EXCEPT !.at = @ - 1]

Comes(f) ==
  \/ Process /\ f = Loop
  \/ \E p \in Paths : Await(p) /\ f = Until(Len(handlers) + 1)
  \/ Execute /\ f = Code(Top.path)
  \/ Dequeue /\ f = Iterate(taken + 1, sent[taken + 1], block'[sent[taken + 1]])

FramesMove ==
  /\ Len(frames') \in Nat
  /\ \A i \in 1 .. Len(frames') :
       \/ i \in 1 .. Len(frames) /\ (Advances(frames[i], frames'[i]) \/ Iterates(i))
       \/ i = Len(frames) + 1 /\ Comes(frames'[i])

LEMMA Stack ==
  ASSUME IInv
  PROVE  /\ IsStack(frames) /\ Len(frames) \in Nat /\ Len(frames) >= 1
         /\ DOMAIN frames = 1 .. Len(frames)
         /\ taken \in Nat /\ Len(sent) \in Nat /\ taken <= Len(sent)
<1>1. PICK S : frames \in Seq(S)
  BY DEF IInv, Bottom, IsStack
<1>2. IsStack(frames) /\ Len(frames) \in Nat /\ Len(frames) >= 1 /\ DOMAIN frames = 1 .. Len(frames)
  BY <1>1 DEF IInv, Bottom
<1>3. taken \in Nat /\ Len(sent) \in Nat /\ taken <= Len(sent)
  BY DEF IInv, Mail
<1>4. QED
  BY <1>2, <1>3

LEMMA StaleAdvances ==
  ASSUME IInv, NEW p
  PROVE  /\ IsStack(Stale(p)) /\ Len(Stale(p)) = Len(frames)
         /\ \A i \in 1 .. Len(frames) :
              Stale(p)[i] = IF frames[i].kind = "dispatch" /\ frames[i].path = p
                            THEN [frames[i] EXCEPT !.stale = TRUE] ELSE frames[i]
<1>1. IsStack(Stale(p)) /\ Len(Stale(p)) = Len(frames)
  BY StaleMoves
<1>2. DOMAIN frames = 1 .. Len(frames)
  BY Stack
<1>3. QED
  BY <1>1, <1>2 DEF Stale

LEMMA FramesStand ==
  ASSUME IInv, UNCHANGED frames
  PROVE  FramesMove
BY Stack DEF FramesMove, Advances

LEMMA FramesReturn ==
  ASSUME IInv, NEW k \in Nat, k <= Len(frames), Len(frames') = k,
         \A i \in 1 .. k : frames'[i] = frames[i]
  PROVE  FramesMove
BY Stack DEF FramesMove, Advances

LEMMA FramesPush ==
  ASSUME IInv, NEW s, NEW f, IsStack(s), Len(s) = Len(frames), frames' = Append(s, f),
         \A i \in 1 .. Len(frames) :
           Advances(frames[i], s[i])
             \/ (Execute /\ i = Len(frames) /\ frames[i].kind = "dispatch"
                 /\ s[i] = [frames[i] EXCEPT !.at = @ - 1]),
         Comes(f)
  PROVE  FramesMove
<1>1. PICK n \in Nat : n = Len(frames)
  BY Stack
<1>2. /\ Len(frames') = n + 1 /\ frames'[n + 1] = f
      /\ \A i \in 1 .. n : frames'[i] = s[i]
  BY <1>1, StackPush
<1>3. \A i \in 1 .. n : Advances(frames[i], frames'[i]) \/ Iterates(i)
  BY <1>1, <1>2 DEF Iterates
<1>4. \A i \in 1 .. n + 1 : i \in 1 .. n \/ i = n + 1
  OBVIOUS
<1>5. QED
  BY <1>1, <1>2, <1>3, <1>4 DEF FramesMove

LEMMA BindMoves ==
  ASSUME IInv, NEW p \in Paths, Bind(p)
  PROVE  FramesMove
<1>1. frames' = frames \/ frames' = Stale(p)
  BY DEF Bind
<1>2. CASE frames' = frames
  BY <1>2, FramesStand
<1>3. CASE frames' = Stale(p)
  BY <1>3, Stack, StaleAdvances DEF FramesMove, Advances
<1>4. QED
  BY <1>1, <1>2, <1>3

LEMMA AwaitMoves ==
  ASSUME IInv, NEW p \in Paths, Await(p)
  PROVE  FramesMove
<1>1. PICK now \in {frames, Stale(p)} : frames' = Append(now, Until(Len(handlers) + 1))
  BY DEF Await
<1>2. IsStack(now) /\ Len(now) = Len(frames)
  BY <1>1, Stack, StaleAdvances
<1>3. \A i \in 1 .. Len(frames) : Advances(frames[i], now[i])
  BY <1>1, StaleAdvances DEF Advances
<1>4. PICK f : f = Until(Len(handlers) + 1)
  OBVIOUS
<1>5. Comes(f)
  BY <1>4 DEF Comes
<1>6. QED
  BY <1>1, <1>2, <1>3, <1>4, <1>5, FramesPush

(* The event of the next dispatch, its block when the kill handler is bound  *)
(* and the dead are gone, and what becomes of it.                            *)
TakesOne(e, p, bs, c) ==
  /\ e = taken + 1 /\ e \in 1 .. Len(sent) /\ p = sent[e] /\ p \in Paths
  /\ taken' = e /\ sent' = sent /\ initialized'
  /\ \/ initialized /\ handlers' = handlers /\ bs = block
     \/ ~initialized /\ Added(handlers, block, Kill, "kill", handlers', bs)
  /\ Roster(handlers', bs) /\ Keeps(handlers, handlers')
  /\ c = block'[p] /\ Sifted(c, bs[p], handlers')
  /\ Roster(handlers', block')
  /\ \A q \in Paths : q # p => block'[q] = bs[q]
  /\ \/ c = <<>> /\ frames' = Stale(p)
     \/ c # <<>> /\ frames' = Append(frames, Iterate(e, p, c))

LEMMA DequeueFacts ==
  ASSUME IInv, Roster(handlers, block), Dequeue
  PROVE  \E e, p, bs, c : TakesOne(e, p, bs, c)
<1>1. PICK e : e = taken + 1
  OBVIOUS
<1>2. e \in 1 .. Len(sent) /\ taken' = e /\ sent' = sent /\ initialized'
  BY <1>1, Stack DEF Dequeue
<1>3. PICK p : p = sent[e]
  OBVIOUS
<1>4. p \in Paths
  <2>1. sent \in Seq(Paths)
    BY DEF IInv, Mail
  <2>2. QED
    BY <1>2, <1>3, <2>1
<1>5. PICK hs, bs, c : hs = WithKill[1] /\ bs = WithKill[2] /\ c = Collect(hs, bs[p])
  OBVIOUS
<1>6. /\ handlers' = hs /\ block' = [bs EXCEPT ![p] = c]
      /\ IF c = <<>> THEN frames' = Stale(p)
         ELSE frames' = Append(frames, Iterate(e, p, c))
  BY <1>1, <1>3, <1>5 DEF Dequeue, Push
<1>7. \/ initialized /\ hs = handlers /\ bs = block
      \/ ~initialized /\ Added(handlers, block, Kill, "kill", hs, bs)
  BY <1>5 DEF WithKill, Added
<1>8. Roster(hs, bs) /\ Keeps(handlers, hs)
  <2>1. CASE initialized
    <3>1. Len(handlers) \in Nat
      BY DEF Roster
    <3>2. Keeps(handlers, handlers)
      BY <3>1 DEF Keeps
    <3>3. QED
      BY <1>7, <2>1, <3>2
  <2>2. CASE ~initialized
    <3>1. Kill \in Paths /\ "kill" \in Roles
      BY PathsAssumption DEF Roles
    <3>2. QED
      BY <1>7, <2>2, <3>1, RosterAdd
  <2>3. QED
    BY <2>1, <2>2
<1>9. PICK cs : cs = [bs EXCEPT ![p] = c]
  OBVIOUS
<1>10. /\ Roster(hs, cs) /\ cs[p] = c /\ Sifted(c, bs[p], hs)
       /\ \A q \in Paths : q # p => cs[q] = bs[q]
  <2>1. c = Collect(hs, bs[p]) /\ Roster(hs, bs)
    BY <1>5, <1>8
  <2>2. Roster(hs, cs)
    BY <1>4, <1>9, <2>1, RosterCollect
  <2>3. cs[p] = c
    BY <1>4, <1>9, <2>1 DEF Roster
  <2>4. Sifted(c, bs[p], hs)
    BY <1>4, <1>9, <2>1, RosterCollect
  <2>5. \A q \in Paths : q # p => cs[q] = bs[q]
    BY <1>4, <1>9, <2>1, RosterCollect
  <2>6. QED
    BY <2>2, <2>3, <2>4, <2>5
<1>11. block' = cs
  BY <1>6, <1>9
<1>12. QED
  <2>1. \/ c = <<>> /\ frames' = Stale(p)
        \/ c # <<>> /\ frames' = Append(frames, Iterate(e, p, c))
    BY <1>6
  <2>2. TakesOne(e, p, bs, c)
    BY <1>1, <1>2, <1>3, <1>4, <1>6, <1>7, <1>8, <1>10, <1>11, <2>1, Zenon DEF TakesOne
  <2>3. QED
    BY <2>2

LEMMA DequeueMoves ==
  ASSUME IInv, Roster(handlers, block), Dequeue
  PROVE  FramesMove
<1>1. PICK e, p, hs : /\ e = taken + 1 /\ p = sent[e] /\ p \in Paths /\ hs = block'[p]
                      /\ \/ hs = <<>> /\ frames' = Stale(p)
                         \/ hs # <<>> /\ frames' = Append(frames, Iterate(e, p, hs))
  BY DequeueFacts DEF TakesOne
<1>2. frames' = Stale(p) \/ frames' = Append(frames, Iterate(e, p, hs))
  BY <1>1
<1>3. CASE frames' = Stale(p)
  BY <1>3, Stack, StaleAdvances DEF FramesMove, Advances
<1>4. CASE frames' = Append(frames, Iterate(e, p, hs))
  <2>3. PICK f : f = Iterate(e, p, hs)
    OBVIOUS
  <2>4. Comes(f)
    BY <1>1, <2>3 DEF Comes
  <2>5. \A i \in 1 .. Len(frames) : Advances(frames[i], frames[i])
    BY DEF Advances
  <2>6. QED
    BY <1>4, <2>3, <2>4, <2>5, Stack, FramesPush
<1>5. QED
  BY <1>2, <1>3, <1>4

LEMMA ExecuteMoves ==
  ASSUME IInv, Execute
  PROVE  FramesMove
<1>1. Top.kind = "dispatch" /\ Top = frames[Len(frames)]
  BY DEF Execute, Runs, Top
<1>2. /\ IsStack(NextHandler) /\ Len(NextHandler) = Len(frames)
      /\ DOMAIN NextHandler = 1 .. Len(frames)
  BY <1>1, IteratorMoves, Stack DEF NextHandler
<1>3. \A i \in 1 .. Len(frames) :
        \/ NextHandler[i] = frames[i]
        \/ /\ i = Len(frames) /\ frames[i].kind = "dispatch"
           /\ NextHandler[i] = [frames[i] EXCEPT !.at = @ - 1]
  BY <1>1, <1>2, Stack DEF NextHandler
<1>4. CASE UNCHANGED frames
  BY <1>4, FramesStand
<1>5. ASSUME NEW h, Fulfil(h)
      PROVE  FramesMove
  <2>1. Len(frames') = Len(frames)
    BY <1>1, <1>5, FulfilMoves
  <2>2. \A i \in 1 .. Len(frames) :
          \/ frames'[i] = NextHandler[i]
          \/ frames[i].kind = "until" /\ frames'[i] = [frames[i] EXCEPT !.got = Top.event]
    BY <1>5, Stack DEF Fulfil
  <2>3. \A i \in 1 .. Len(frames) : Advances(frames[i], frames'[i]) \/ Iterates(i)
    BY <1>3, <2>2 DEF Advances, Iterates
  <2>4. QED
    BY <2>1, <2>3, Stack DEF FramesMove
<1>6. CASE frames' = Append(NextHandler, Code(Top.path))
  <2>1. PICK f, s : f = Code(Top.path) /\ s = NextHandler
    OBVIOUS
  <2>2. Comes(f)
    BY <2>1 DEF Comes
  <2>3. \A i \in 1 .. Len(frames) :
           Advances(frames[i], s[i])
             \/ (Execute /\ i = Len(frames) /\ frames[i].kind = "dispatch"
                 /\ s[i] = [frames[i] EXCEPT !.at = @ - 1])
    BY <1>3, <2>1 DEF Advances
  <2>4. QED
    BY <1>2, <1>6, <2>1, <2>2, <2>3, FramesPush
<1>7. QED
  BY <1>4, <1>5, <1>6 DEF Execute, Call

LEMMA ReturnMoves ==
  ASSUME IInv,
         \/ LoopEnds \/ AwaitReturns \/ HandlerReturns \/ HandlerThrows
         \/ DispatchEnds \/ DispatchThrows
  PROVE  FramesMove
<1>1. PICK n \in Nat : n = Len(frames) /\ n >= 1
  BY Stack
<1>2. /\ IsStack(Return) /\ Len(Return) = n - 1
      /\ \A i \in 1 .. n - 1 : Return[i] = frames[i]
  BY <1>1, Stack, StackFront DEF Return
<1>3. CASE frames' = Return
  <2>1. n - 1 \in Nat /\ n - 1 <= n
    BY <1>1
  <2>2. QED
    BY <1>1, <1>2, <1>3, <2>1, FramesReturn
<1>4. CASE DispatchThrows
  <2>1. frames' = Front(Return) /\ Top.kind = "dispatch" /\ frames[n].kind = "dispatch"
    BY <1>1, <1>4 DEF DispatchThrows, Unwinds, Top
  <2>2. n > 1
    BY <1>1, <2>1 DEF IInv, OnItsLoop
  <2>3. /\ Len(frames') = n - 2
        /\ \A i \in 1 .. n - 2 : frames'[i] = Return[i]
    BY <1>1, <1>2, <2>1, <2>2, StackFront
  <2>4. n - 2 \in Nat /\ n - 2 <= n /\ \A i \in 1 .. n - 2 : i \in 1 .. n - 1
    BY <1>1, <2>2
  <2>5. QED
    BY <1>1, <1>2, <2>3, <2>4, FramesReturn
<1>5. QED
  BY <1>3, <1>4 DEF LoopEnds, AwaitReturns, HandlerReturns, HandlerThrows, DispatchEnds
-------------------------------------------------------------------------------
(* The handlers stay a roster.                                               *)

LEMMA DispatchFacts ==
  ASSUME IInv, FramesFit, NEW i \in 1 .. Len(frames), frames[i].kind = "dispatch"
  PROVE  /\ frames[i].event \in 1 .. taken /\ frames[i].event \in 1 .. Len(sent)
         /\ frames[i].path = sent[frames[i].event] /\ frames[i].path \in Paths
         /\ frames[i].at \in Nat
<1>1. frames[i].event \in 1 .. taken
  BY DEF IInv, OnItsLoop
<1>2. frames[i].event \in 1 .. Len(sent)
  BY <1>1, Stack
<1>3. frames[i].path = sent[frames[i].event] /\ frames[i].at \in Nat
  BY DEF FramesFit, Fits
<1>4. sent \in Seq(Paths)
  BY DEF IInv, Mail
<1>5. QED
  BY <1>1, <1>2, <1>3, <1>4

(* The handler an iterator has come to.                                      *)
LEMMA ExecuteFacts ==
  ASSUME IInv, Roster(handlers, block), FramesFit, Execute
  PROVE  /\ Top = frames[Len(frames)] /\ Top.kind = "dispatch" /\ Top.at \in Nat /\ Top.at > 0
         /\ Top.path \in Paths /\ exc = "none" /\ ~wild
         /\ \/ /\ Top.stale \/ Top.at > Len(block[Top.path])
               /\ wild' = TRUE /\ UNCHANGED <<handlers, frames, exc>>
            \/ /\ ~Top.stale /\ Top.at \in 1 .. Len(block[Top.path])
               /\ block[Top.path][Top.at] \in 1 .. Len(handlers)
               /\ handlers[block[Top.path][Top.at]].path = Top.path
               /\ Call(block[Top.path][Top.at]) /\ UNCHANGED wild
         /\ UNCHANGED <<sent, taken, freed, thrown, block, initialized, stopped>>
<1>1. /\ Top = frames[Len(frames)] /\ Top.kind = "dispatch" /\ Top.at > 0
      /\ exc = "none" /\ ~wild
  BY DEF Execute, Runs, Top
<1>2. Len(frames) \in 1 .. Len(frames)
  BY Stack
<1>3. Top.at \in Nat /\ Top.path \in Paths
  BY <1>1, <1>2, DispatchFacts
<1>4. Len(block[Top.path]) \in Nat
  BY <1>3 DEF Roster
<1>5. CASE Top.stale \/ Top.at > Len(block[Top.path])
  BY <1>1, <1>3, <1>5 DEF Execute
<1>6. CASE ~(Top.stale \/ Top.at > Len(block[Top.path]))
  <2>1. Top.at \in 1 .. Len(block[Top.path])
    BY <1>1, <1>3, <1>4, <1>6
  <2>2. /\ block[Top.path][Top.at] \in 1 .. Len(handlers)
        /\ handlers[block[Top.path][Top.at]].path = Top.path
    BY <1>3, <2>1 DEF Roster, InOrder
  <2>3. Call(block[Top.path][Top.at]) /\ UNCHANGED wild
    BY <1>6 DEF Execute
  <2>4. UNCHANGED <<sent, taken, freed, thrown, block, initialized, stopped>>
    BY DEF Execute
  <2>5. QED
    BY <1>1, <1>3, <1>6, <2>1, <2>2, <2>3, <2>4
<1>7. QED
  BY <1>5, <1>6

LEMMA SameRoster ==
  ASSUME Roster(handlers, block), UNCHANGED <<handlers, block>>
  PROVE  Roster(handlers', block') /\ Keeps(handlers, handlers')
<1>1. Len(handlers) \in Nat
  BY DEF Roster
<1>2. Keeps(handlers, handlers)
  BY <1>1 DEF Keeps
<1>3. QED
  BY <1>2

LEMMA AddKeeps ==
  ASSUME Roster(handlers, block), NEW p \in Paths, NEW role \in Roles, AddHandler(p, role)
  PROVE  /\ Roster(handlers', block') /\ Keeps(handlers, handlers')
         /\ Extends(handlers, block, p, role, handlers', block')
<1>1. Added(handlers, block, p, role, handlers', block')
  BY DEF AddHandler, Added
<1>2. QED
  BY <1>1, RosterAdd

LEMMA CountKeeps ==
  ASSUME Roster(handlers, block), NEW h \in 1 .. Len(handlers), handlers[h].role # "kill",
         \/ handlers' = Forget(h)
         \/ handlers' = [handlers EXCEPT ![h].refs = @ + 1] /\ handlers[h].refs < MaxRefs
         \/ handlers' = [handlers EXCEPT ![h].refs = @ - 1] /\ handlers[h].refs > 0,
         block' = block
  PROVE  Roster(handlers', block') /\ Keeps(handlers, handlers')
<1>1. handlers[h].refs \in 0 .. MaxRefs /\ MaxRefs \in Nat
  <2>1. handlers \in Seq(Handler)
    BY DEF Roster
  <2>2. handlers[h] \in Handler
    BY <2>1
  <2>3. QED
    BY <2>2, BoundsAssumption DEF Handler
<1>2. PICK r \in 0 .. MaxRefs : handlers' = [handlers EXCEPT ![h].refs = r]
  <2>1. CASE handlers' = Forget(h)
    <3>1. 0 \in 0 .. MaxRefs
      BY <1>1
    <3>2. QED
      BY <2>1, <3>1 DEF Forget
  <2>2. CASE handlers' = [handlers EXCEPT ![h].refs = @ + 1] /\ handlers[h].refs < MaxRefs
    <3>1. handlers[h].refs + 1 \in 0 .. MaxRefs
      BY <1>1, <2>2
    <3>2. QED
      BY <2>2, <3>1
  <2>3. CASE handlers' = [handlers EXCEPT ![h].refs = @ - 1] /\ handlers[h].refs > 0
    <3>1. handlers[h].refs - 1 \in 0 .. MaxRefs
      BY <1>1, <2>3
    <3>2. QED
      BY <2>3, <3>1
  <2>4. QED
    BY <2>1, <2>2, <2>3
<1>3. PICK gs : gs = [handlers EXCEPT ![h].refs = r]
  OBVIOUS
<1>4. Roster(gs, block) /\ Keeps(handlers, gs)
  BY <1>3, RosterCount
<1>5. QED
  BY <1>2, <1>3, <1>4

LEMMA RosterStep ==
  ASSUME IInv, Roster(handlers, block), FramesFit, [Next]_vars
  PROVE  Roster(handlers', block') /\ Keeps(handlers, handlers')
<1> DEFINE Goal == Roster(handlers', block') /\ Keeps(handlers, handlers')
<1> SUFFICES Goal
  OBVIOUS
<1>1. CASE UNCHANGED vars
  BY <1>1, SameRoster DEF vars
<1>2. ASSUME NEW p \in Paths, Send(p) \/ Bind(p) \/ Await(p)
      PROVE  Goal
  <2>1. CASE Send(p)
    BY <2>1, SameRoster DEF Send
  <2>2. CASE Bind(p)
    BY <2>2, AddKeeps DEF Bind, Roles
  <2>3. CASE Await(p)
    BY <2>3, AddKeeps DEF Await, Roles
  <2>4. QED
    BY <1>2, <2>1, <2>2, <2>3
<1>3. ASSUME NEW h \in DOMAIN handlers, CopyRef(h) \/ DropRef(h)
      PROVE  Goal
  <2>1. h \in 1 .. Len(handlers)
    BY DEF Roster
  <2>2. handlers[h].role = "user" /\ block' = block
    BY <1>3 DEF CopyRef, DropRef
  <2>3. \/ handlers' = [handlers EXCEPT ![h].refs = @ + 1] /\ handlers[h].refs < MaxRefs
        \/ handlers' = [handlers EXCEPT ![h].refs = @ - 1] /\ handlers[h].refs > 0
    BY <1>3 DEF CopyRef, DropRef, Alive
  <2>4. QED
    BY <2>1, <2>2, <2>3, CountKeeps
<1>4. CASE \/ Process \/ Stop \/ Throw \/ HandlerReturns \/ LoopEnds
           \/ DispatchEnds \/ HandlerThrows \/ Catch
  BY <1>4, SameRoster
     DEF Process, Stop, Throw, HandlerReturns, LoopEnds, DispatchEnds, HandlerThrows, Catch
<1>5. CASE LoopTakes \/ AwaitTakes
  BY <1>5, DequeueFacts DEF LoopTakes, AwaitTakes, TakesOne
<1>6. ASSUME NEW i \in 1 .. Len(frames), frames[i].kind = "until",
             handlers' = Forget(frames[i].handler), block' = block
      PROVE  Goal
  <2>1. /\ frames[i].handler \in 1 .. Len(handlers)
        /\ handlers[frames[i].handler].role = "await"
    BY <1>6 DEF FramesFit, Fits
  <2>2. QED
    BY <1>6, <2>1, CountKeeps
<1>7. CASE AwaitReturns
  BY <1>6, <1>7, Stack DEF AwaitReturns, Runs, Top
<1>8. CASE DispatchThrows
  <2>1. CASE handlers' = handlers
    BY <1>8, <2>1, SameRoster DEF DispatchThrows
  <2>2. CASE handlers' # handlers
    <3>1. PICK i : i = Len(frames) - 1
      OBVIOUS
    <3>2. frames[i].kind = "until" /\ handlers' = Forget(frames[i].handler) /\ block' = block
      BY <1>8, <2>2, <3>1 DEF DispatchThrows
    <3>3. Top.kind = "dispatch" /\ Top = frames[Len(frames)]
      BY <1>8 DEF DispatchThrows, Unwinds, Top
    <3>4. Len(frames) > 1
      BY <3>3, Stack DEF IInv, OnItsLoop
    <3>5. i \in 1 .. Len(frames)
      BY <3>1, <3>4, Stack
    <3>6. QED
      BY <1>6, <3>2, <3>5
  <2>3. QED
    BY <2>1, <2>2
<1>9. CASE Execute
  <2>1. UNCHANGED block
    BY <1>9 DEF Execute
  <2>2. CASE UNCHANGED handlers
    BY <2>1, <2>2, SameRoster
  <2>3. CASE handlers' # handlers
    <3>1. PICK h \in 1 .. Len(handlers) : Call(h)
      BY <1>9, <2>3, ExecuteFacts
    <3>2. handlers[h].role = "await" /\ handlers' = Forget(h)
      BY <2>3, <3>1 DEF Call, Fulfil
    <3>3. QED
      BY <2>1, <3>1, <3>2, CountKeeps
  <2>4. QED
    BY <2>2, <2>3
<1> HIDE DEF Goal
<1>10. QED
  BY <1>1, <1>2, <1>3, <1>4, <1>5, <1>7, <1>8, <1>9 DEF Next
-------------------------------------------------------------------------------
(* The frames go on fitting the handlers and the events.                     *)

LEMMA StepMovesFrames ==
  ASSUME IInv, Roster(handlers, block), [Next]_vars
  PROVE  FramesMove
<1>1. CASE UNCHANGED frames
  BY <1>1, FramesStand
<1>2. ASSUME NEW p \in Paths, Send(p) \/ Bind(p) \/ Await(p)
      PROVE  FramesMove
  BY <1>1, <1>2, BindMoves, AwaitMoves DEF Send
<1>3. ASSUME NEW h, CopyRef(h) \/ DropRef(h)
      PROVE  FramesMove
  BY <1>1, <1>3 DEF CopyRef, DropRef
<1>4. CASE Stop \/ Throw \/ Catch
  BY <1>1, <1>4 DEF Stop, Throw, Catch
<1>5. CASE LoopTakes \/ AwaitTakes
  BY <1>5, DequeueMoves DEF LoopTakes, AwaitTakes
<1>6. CASE Process
  <2>1. PICK f : f = Loop
    OBVIOUS
  <2>2. frames' = Append(frames, f) /\ Comes(f)
    BY <1>6, <2>1 DEF Process, Push, Comes
  <2>3. \A i \in 1 .. Len(frames) : Advances(frames[i], frames[i])
    BY DEF Advances
  <2>4. QED
    BY <2>2, <2>3, Stack, FramesPush
<1>7. CASE Execute
  BY <1>7, ExecuteMoves
<1>8. CASE LoopEnds \/ AwaitReturns \/ HandlerReturns \/ HandlerThrows
             \/ DispatchEnds \/ DispatchThrows
  BY <1>8, ReturnMoves
<1>9. QED
  BY <1>1, <1>2, <1>3, <1>4, <1>5, <1>6, <1>7, <1>8 DEF Next, vars

LEMMA SentGrows ==
  ASSUME IInv, [Next]_vars
  PROVE  \A e \in 1 .. Len(sent) : e \in 1 .. Len(sent') /\ sent'[e] = sent[e]
<1>1. sent \in Seq(Paths)
  BY DEF IInv, Mail
<1>2. CASE UNCHANGED sent
  BY <1>2
<1>3. ASSUME NEW p \in Paths, sent' = Append(sent, p)
      PROVE  \A e \in 1 .. Len(sent) : e \in 1 .. Len(sent') /\ sent'[e] = sent[e]
  BY <1>1, <1>3
<1>4. UNCHANGED sent \/ \E p \in Paths : sent' = Append(sent, p)
  BY DEF Next, vars, Send, Bind, Await, CopyRef, DropRef, Process, Stop, Throw,
         HandlerReturns, LoopTakes, LoopEnds, AwaitTakes, AwaitReturns, Dequeue,
         Execute, DispatchEnds, DispatchThrows, HandlerThrows, Catch
<1>5. QED
  BY <1>2, <1>3, <1>4

LEMMA FitsOn ==
  ASSUME NEW f, NEW g, NEW hs, NEW gs, NEW ms, NEW ns,
         Fits(f, hs, ms), Formed(f), Keeps(hs, gs), Len(hs) \in Nat, Len(gs) \in Nat,
         f.kind = "dispatch" => ns[f.event] = ms[f.event],
         \/ Advances(f, g)
         \/ f.kind = "dispatch" /\ f.at > 0 /\ g = [f EXCEPT !.at = @ - 1]
  PROVE  Fits(g, gs, ns)
<1>1. g.kind = f.kind /\ DOMAIN g = DOMAIN f
  BY DEF Advances, Formed
<1>2. CASE f.kind = "until"
  <2>1. {"handler", "got", "since"} \subseteq DOMAIN f /\ f.handler \in 1 .. Len(hs)
          /\ hs[f.handler].role = "await"
    BY <1>2 DEF Fits
  <2>2. g.handler = f.handler
    BY <1>2, <2>1 DEF Advances
  <2>3. f.handler \in 1 .. Len(gs) /\ gs[f.handler].role = "await"
    BY <2>1 DEF Keeps
  <2>4. QED
    BY <1>1, <1>2, <2>1, <2>2, <2>3 DEF Fits
<1>3. CASE f.kind = "dispatch"
  <2>1. /\ {"path", "targets", "at", "stale"} \subseteq DOMAIN f /\ "event" \in DOMAIN f
        /\ f.path = ms[f.event] /\ f.at \in Nat
    BY <1>3 DEF Fits, Formed
  <2>2. g.path = f.path /\ g.event = f.event
    BY <1>3, <2>1 DEF Advances
  <2>3. g.at = f.at \/ (g.at = f.at - 1 /\ f.at > 0)
    BY <1>3, <2>1 DEF Advances
  <2>4. g.at \in Nat
    BY <2>1, <2>3
  <2>5. QED
    BY <1>1, <1>3, <2>1, <2>2, <2>4 DEF Fits
<1>4. CASE f.kind \notin {"until", "dispatch"}
  BY <1>1, <1>4 DEF Fits
<1>5. QED
  BY <1>2, <1>3, <1>4

LEMMA NewFits ==
  ASSUME IInv, Roster(handlers, block), Roster(handlers', block'), NEW f, Comes(f),
         sent \in Seq(Paths)
  PROVE  Fits(f, handlers', sent')
<1>1. CASE f = Loop
  BY <1>1 DEF Loop, Fits
<1>2. CASE Execute /\ f = Code(Top.path)
  BY <1>2 DEF Code, Fits
<1>3. ASSUME NEW p \in Paths, Await(p), f = Until(Len(handlers) + 1)
      PROVE  Fits(f, handlers', sent')
  <2>1. /\ f.kind = "until" /\ f.handler = Len(handlers) + 1
        /\ DOMAIN f = {"kind", "handler", "got", "since"}
    BY <1>3 DEF Until
  <2>2. Extends(handlers, block, p, "await", handlers', block')
    BY <1>3, AddKeeps DEF Await, Roles
  <2>3. PICK gs, cs : gs = handlers' /\ cs = block'
    OBVIOUS
  <2>5. /\ Len(handlers) \in Nat /\ Len(gs) = Len(handlers) + 1
        /\ gs[Len(handlers) + 1] = [path |-> p, role |-> "await", refs |-> 1]
    BY <2>2, <2>3 DEF Extends
  <2>6. f.handler \in 1 .. Len(handlers') /\ handlers'[f.handler].role = "await"
    BY <2>1, <2>3, <2>5
  <2>7. QED
    BY <2>1, <2>6 DEF Fits
<1>4. CASE Dequeue /\ f = Iterate(taken + 1, sent[taken + 1], block'[sent[taken + 1]])
  <2>1. PICK e : e = taken + 1
    OBVIOUS
  <2>2. e \in 1 .. Len(sent) /\ sent' = sent
    BY <1>4, <2>1, Stack DEF Dequeue
  <2>3. PICK p \in Paths : p = sent[e]
    BY <2>2
  <2>4. block'[p] \in Seq(Nat)
    BY DEF Roster
  <2>5. PICK c : c = block'[p]
    OBVIOUS
  <2>6. Len(c) \in Nat
    BY <2>4, <2>5
  <2>7. f = Iterate(e, p, c)
    BY <1>4, <2>1, <2>3, <2>5
  <2>8. /\ f.kind = "dispatch" /\ f.path = p /\ f.event = e /\ f.at = Len(c)
        /\ DOMAIN f = {"kind", "event", "path", "targets", "at", "stale"}
    BY <2>7 DEF Iterate
  <2>9. QED
    BY <2>2, <2>3, <2>6, <2>8 DEF Fits
<1>5. QED
  BY <1>1, <1>2, <1>3, <1>4 DEF Comes

LEMMA FitStep ==
  ASSUME IInv, Roster(handlers, block), FramesFit, [Next]_vars
  PROVE  FramesFit'
<1>1. Roster(handlers', block') /\ Keeps(handlers, handlers')
  BY RosterStep
<1>2. Len(handlers) \in Nat /\ Len(handlers') \in Nat
  BY <1>1 DEF Roster
<1>3. FramesMove
  BY StepMovesFrames
<1>4. ASSUME NEW i \in 1 .. Len(frames), Advances(frames[i], frames'[i]) \/ Iterates(i)
      PROVE  Fits(frames'[i], handlers', sent')
  <2>1. Fits(frames[i], handlers, sent) /\ Formed(frames[i])
    BY DEF IInv, Bottom, FramesFit
  <2>2. frames[i].kind = "dispatch" => sent'[frames[i].event] = sent[frames[i].event]
    BY DispatchFacts, SentGrows
  <2>3. Iterates(i) => /\ frames[i].kind = "dispatch" /\ frames[i].at > 0
                       /\ frames'[i] = [frames[i] EXCEPT !.at = @ - 1]
    BY ExecuteFacts DEF Iterates
  <2>4. PICK f, g : f = frames[i] /\ g = frames'[i]
    OBVIOUS
  <2>5. \/ Advances(f, g)
        \/ f.kind = "dispatch" /\ f.at > 0 /\ g = [f EXCEPT !.at = @ - 1]
    BY <1>4, <2>3, <2>4
  <2>6. QED
    BY <1>1, <1>2, <2>1, <2>2, <2>4, <2>5, FitsOn
<1>5. sent \in Seq(Paths)
  BY DEF IInv, Mail
<1>6. \A i \in 1 .. Len(frames') : Fits(frames'[i], handlers', sent')
  BY <1>1, <1>3, <1>4, <1>5, NewFits DEF FramesMove
<1>7. QED
  BY <1>6 DEF FramesFit
-------------------------------------------------------------------------------
(* Handlers that wait for their event.                                       *)

LEMMA FlagsStep ==
  ASSUME IInv, Flags, [Next]_vars
  PROVE  Flags'
<1>1. taken \in Nat /\ IInv'
  BY Stack, Inductive
<1>2. CASE UNCHANGED vars
  BY <1>2 DEF vars, Flags
<1>3. ASSUME NEW p \in Paths, Send(p)
      PROVE  Flags'
  <2>1. sent \in Seq(Paths) /\ Len(sent) < MaxEvents /\ sent' = Append(sent, p)
    BY <1>3 DEF IInv, Mail, Send
  <2>2. Len(sent') <= MaxEvents
    BY <2>1, BoundsAssumption
  <2>3. QED
    BY <1>3, <2>2 DEF Send, Flags
<1>4. CASE LoopTakes \/ AwaitTakes
  <2>1. taken' = taken + 1 /\ initialized' = TRUE
    BY <1>4 DEF LoopTakes, AwaitTakes, Dequeue
  <2>2. UNCHANGED <<sent, thrown, stopped, exc, wild>>
    BY <1>4 DEF LoopTakes, AwaitTakes, Dequeue
  <2>3. thrown' \subseteq 1 .. taken'
    BY <1>1, <2>1, <2>2 DEF Flags
  <2>4. QED
    BY <2>1, <2>2, <2>3 DEF Flags
<1>5. CASE DispatchThrows
  <2>1. Top.event \in 1 .. taken
    BY <1>5, Stack DEF DispatchThrows, Unwinds, Top, IInv, OnItsLoop
  <2>2. QED
    BY <1>5, <2>1 DEF DispatchThrows, Flags
<1>6. CASE Execute
  <2>1. exc' \in Exceptions
    BY <1>6 DEF Execute, Call, Fulfil, Flags, Exceptions
  <2>2. wild' \in BOOLEAN
    BY <1>6 DEF Execute, Flags
  <2>3. UNCHANGED <<sent, taken, freed, thrown, block, initialized, stopped>>
    BY <1>6 DEF Execute
  <2>4. QED
    BY <2>1, <2>2, <2>3 DEF Flags
<1>7. ASSUME NEW p \in Paths, Bind(p) \/ Await(p)
      PROVE  Flags'
  BY <1>7 DEF Bind, Await, Flags
<1>8. ASSUME NEW h, CopyRef(h) \/ DropRef(h)
      PROVE  Flags'
  BY <1>8 DEF CopyRef, DropRef, Flags
<1>9. CASE \/ Process \/ Stop \/ Throw \/ HandlerReturns \/ LoopEnds \/ AwaitReturns
           \/ DispatchEnds \/ HandlerThrows \/ Catch
  BY <1>9 DEF Process, Stop, Throw, HandlerReturns, LoopEnds, AwaitReturns,
              DispatchEnds, HandlerThrows, Catch, Flags, Exceptions
<1>10. QED
  BY <1>2, <1>3, <1>4, <1>5, <1>6, <1>7, <1>8, <1>9 DEF Next

(* Only the dispatch of an event collects.                                   *)
LEMMA BlocksGrow ==
  ASSUME Roster(handlers, block), [Next]_vars, ~Dequeue, NEW q \in Paths,
         NEW j \in 1 .. Len(block[q])
  PROVE  j \in 1 .. Len(block'[q]) /\ block'[q][j] = block[q][j]
<1>1. CASE UNCHANGED block
  BY <1>1
<1>2. ASSUME NEW p \in Paths, NEW role \in Roles, AddHandler(p, role)
      PROVE  j \in 1 .. Len(block'[q]) /\ block'[q][j] = block[q][j]
  <2>1. Extends(handlers, block, p, role, handlers', block')
    BY <1>2, AddKeeps
  <2>2. PICK cs : cs = block'
    OBVIOUS
  <2>3. /\ Len(block[p]) \in Nat /\ Len(cs[p]) = Len(block[p]) + 1
        /\ \A i \in 1 .. Len(block[p]) : cs[p][i] = block[p][i]
        /\ \A r \in Paths : r # p => cs[r] = block[r]
    BY <2>1, <2>2 DEF Extends
  <2>4. QED
    BY <2>2, <2>3
<1>3. UNCHANGED block \/ \E p \in Paths, role \in Roles : AddHandler(p, role)
  BY DEF Next, vars, Send, Bind, Await, CopyRef, DropRef, Process, Stop, Throw,
         HandlerReturns, LoopTakes, LoopEnds, AwaitTakes, AwaitReturns,
         Execute, DispatchEnds, DispatchThrows, HandlerThrows, Catch, Roles
<1>4. QED
  BY <1>1, <1>2, <1>3

(* Iterators stand but in Execute.                                           *)
LEMMA AheadStays ==
  ASSUME IInv, FramesFit, FramesMove, ~Dequeue, NEW j \in Nat, NEW p, NEW s, Ahead(j, p, s),
         Execute /\ frames' # frames /\ Top.path = p /\ Top.event > s => j <= Top.at - 1
  PROVE  Ahead(j, p, s)'
<1> SUFFICES ASSUME NEW i \in 1 .. Len(frames'), frames'[i].kind = "dispatch",
                    frames'[i].path = p, frames'[i].event > s
             PROVE  j <= frames'[i].at
  BY DEF Ahead
<1>1. CASE i \in 1 .. Len(frames)
  <2>1. Formed(frames[i]) /\ Fits(frames[i], handlers, sent)
    BY <1>1 DEF IInv, Bottom, FramesFit
  <2>2. CASE Advances(frames[i], frames'[i])
    <3>1. frames[i].kind = "dispatch"
      BY <2>1, <2>2 DEF Advances, Formed
    <3>2. /\ frames'[i].path = frames[i].path /\ frames'[i].event = frames[i].event
          /\ frames'[i].at = frames[i].at
      BY <2>1, <2>2, <3>1 DEF Advances, Formed, Fits
    <3>3. QED
      BY <1>1, <3>1, <3>2 DEF Ahead
  <2>3. CASE Iterates(i)
    <3>1. /\ Execute /\ frames[i] = Top /\ Top.kind = "dispatch" /\ i = Len(frames)
          /\ frames'[i] = [Top EXCEPT !.at = @ - 1]
      BY <2>3 DEF Iterates, Top
    <3>2. /\ frames'[i].path = Top.path /\ frames'[i].event = Top.event
          /\ frames'[i].at = Top.at - 1 /\ Top.at \in Nat
      BY <2>1, <3>1 DEF Formed, Fits
    <3>3. frames' # frames
      <4> SUFFICES ASSUME frames' = frames
                   PROVE  FALSE
        OBVIOUS
      <4>1. frames'[i] = Top
        BY <3>1, Zenon
      <4>2. Top.at = Top.at - 1
        BY <3>2, <4>1, Zenon
      <4>3. QED
        BY <3>2, <4>2
    <3>4. QED
      BY <3>1, <3>2, <3>3
  <2>4. QED
    BY <1>1, <2>2, <2>3, Stack DEF FramesMove
<1>2. CASE i \notin 1 .. Len(frames)
  <2>1. Comes(frames'[i])
    BY <1>2 DEF FramesMove
  <2>2. FALSE
    BY <2>1 DEF Comes, Loop, Until, Code
  <2>3. QED
    BY <2>2
<1>3. QED
  BY <1>1, <1>2

(* A living handler stays ahead when the next event is taken, and meets the  *)
(* event if it is one of its path.                                           *)
LEMMA SiftWaits ==
  ASSUME IInv, FramesFit, NEW e, NEW p, NEW bs, NEW c, TakesOne(e, p, bs, c),
         NEW q \in Paths, NEW j \in 1 .. Len(bs[q]), NEW s \in Nat, Ahead(j, q, s),
         handlers'[bs[q][j]].refs > 0
  PROVE  \E k \in 1 .. Len(block'[q]) :
           /\ block'[q][k] = bs[q][j] /\ Ahead(k, q, s)'
           /\ q = p => OnStack(e)'
<1>1. PICK n \in Nat : n = Len(frames) /\ n >= 1
  BY Stack
<1>2. \A i \in 1 .. n : Formed(frames[i]) /\ Fits(frames[i], handlers, sent)
  BY <1>1 DEF IInv, Bottom, FramesFit
<1>3. CASE q # p
  <2>1. block'[q] = bs[q]
    BY <1>3 DEF TakesOne
  <2>2. Ahead(j, q, s)'
    <3> SUFFICES ASSUME NEW i \in 1 .. Len(frames'), frames'[i].kind = "dispatch",
                        frames'[i].path = q, frames'[i].event > s
                 PROVE  j <= frames'[i].at
      BY DEF Ahead
    <3>1. CASE frames' = Stale(p)
      <4>1. i \in 1 .. n /\ frames'[i] = IF frames[i].kind = "dispatch" /\ frames[i].path = p
                            THEN [frames[i] EXCEPT !.stale = TRUE] ELSE frames[i]
        BY <1>1, <3>1, StaleAdvances
      <4>2. frames'[i] = frames[i]
        BY <1>2, <1>3, <4>1 DEF Formed, Fits
      <4>3. QED
        BY <1>1, <4>1, <4>2 DEF Ahead
    <3>2. CASE frames' = Append(frames, Iterate(e, p, c))
      <4>1. PICK f : f = Iterate(e, p, c)
        OBVIOUS
      <4>2. f.path = p
        BY <4>1 DEF Iterate
      <4>3. Len(frames') = n + 1 /\ frames'[n + 1] = f /\ \A l \in 1 .. n : frames'[l] = frames[l]
        BY <1>1, <3>2, <4>1, Stack, StackPush
      <4>4. i \in 1 .. n /\ frames'[i] = frames[i]
        BY <1>3, <4>2, <4>3
      <4>5. QED
        BY <1>1, <4>4 DEF Ahead
    <3>3. QED
      BY <3>1, <3>2 DEF TakesOne
  <2>3. QED
    BY <1>3, <2>1, <2>2
<1>4. CASE q = p
  <2>1. /\ c = block'[p] /\ Sifted(c, bs[p], handlers')
        /\ Roster(handlers', block')
    BY DEF TakesOne
  <2>2. PICK k \in 1 .. Len(c) : k <= j /\ c[k] = bs[p][j]
    BY <1>4, <2>1 DEF Sifted
  <2>3. c \in Seq(Nat)
    BY <2>1 DEF Sifted
  <2>4. c # <<>> /\ Len(c) \in Nat /\ k <= Len(c)
    BY <2>2, <2>3
  <2>5. PICK f : f = Iterate(e, p, c)
    OBVIOUS
  <2>6. frames' = Append(frames, f)
    BY <2>4, <2>5 DEF TakesOne
  <2>7. f.kind = "dispatch" /\ f.event = e /\ f.at = Len(c)
    BY <2>5 DEF Iterate
  <2>8. Len(frames') = n + 1 /\ frames'[n + 1] = f /\ \A l \in 1 .. n : frames'[l] = frames[l]
    BY <1>1, <2>6, Stack, StackPush
  <2>9. OnStack(e)'
    BY <2>7, <2>8 DEF OnStack, Dispatches
  <2>10. Ahead(k, q, s)'
    <3> SUFFICES ASSUME NEW i \in 1 .. n + 1, frames'[i].kind = "dispatch",
                        frames'[i].path = q, frames'[i].event > s
                 PROVE  k <= frames'[i].at
      BY <2>8 DEF Ahead
    <3>1. CASE i = n + 1
      BY <2>4, <2>7, <2>8, <3>1
    <3>2. CASE i # n + 1
      <4>1. i \in 1 .. n /\ frames'[i] = frames[i]
        BY <2>8, <3>2
      <4>2. j <= frames[i].at /\ frames[i].at \in Nat
        BY <1>1, <1>2, <4>1 DEF Ahead, Fits
      <4>3. k \in Int /\ j \in Int
        BY <2>2
      <4>4. QED
        BY <2>2, <4>1, <4>2, <4>3
    <3>3. QED
      BY <3>1, <3>2
  <2>11. QED
    BY <1>4, <2>1, <2>2, <2>9, <2>10
<1>5. QED
  BY <1>3, <1>4
-------------------------------------------------------------------------------
(* The kill handler is bound before the first event is dispatched, and every *)
(* iteration over the block of Kill comes to it.                             *)

LEMMA KillDequeue ==
  ASSUME FInv, NEW e, NEW p, NEW bs, NEW c, TakesOne(e, p, bs, c)
  PROVE  KillWaits' /\ (p = Kill => OnStack(e)')
<1>1. PICK j \in 1 .. Len(bs[Kill]) : Killer(handlers', bs[Kill][j]) /\ Ahead(j, Kill, 0)
  <2>1. CASE initialized
    <3>1. handlers' = handlers /\ bs = block
      BY <2>1 DEF TakesOne
    <3>2. QED
      BY <2>1, <3>1 DEF FInv, KillWaits
  <2>2. CASE ~initialized
    <3>1. Added(handlers, block, Kill, "kill", handlers', bs)
      BY <2>2 DEF TakesOne
    <3>2. Kill \in Paths /\ "kill" \in Roles /\ Roster(handlers, block)
      BY PathsAssumption DEF Roles, FInv
    <3>3. PICK gs : gs = handlers'
      OBVIOUS
    <3>4. Extends(handlers, block, Kill, "kill", gs, bs)
      BY <3>1, <3>2, <3>3, RosterAdd
    <3>5. PICK m \in Nat : m = Len(block[Kill])
      BY <3>4 DEF Extends
    <3>6. PICK k \in Nat : k = m + 1
      OBVIOUS
    <3>7. /\ k \in 1 .. Len(bs[Kill]) /\ bs[Kill][k] = Len(handlers) + 1
          /\ gs[Len(handlers) + 1] = [path |-> Kill, role |-> "kill", refs |-> 1]
      BY <3>4, <3>5, <3>6 DEF Extends
    <3>8. Killer(gs, bs[Kill][k])
      BY <3>7 DEF Killer
    <3>9. Ahead(k, Kill, 0)
      <4>1. taken = 0
        BY <2>2 DEF FInv, Flags
      <4>2. \A i \in 1 .. Len(frames) : frames[i].kind # "dispatch"
        BY <4>1 DEF FInv, IInv, OnItsLoop
      <4>3. QED
        BY <4>2 DEF Ahead
    <3>10. QED
      BY <3>3, <3>7, <3>8, <3>9
  <2>3. QED
    BY <2>1, <2>2
<1>2. Kill \in Paths /\ 0 \in Nat
  BY PathsAssumption
<1>3. handlers'[bs[Kill][j]].refs > 0
  BY <1>1 DEF Killer
<1>4. IInv /\ FramesFit
  BY DEF FInv
<1>5. \E k \in 1 .. Len(block'[Kill]) :
           /\ block'[Kill][k] = bs[Kill][j] /\ Ahead(k, Kill, 0)'
           /\ Kill = p => OnStack(e)'
  BY <1>1, <1>2, <1>3, <1>4, SiftWaits
<1>6. QED
  BY <1>1, <1>5 DEF KillWaits

LEMMA KillStep ==
  ASSUME FInv, [Next]_vars
  PROVE  KillWaits'
<1> USE DEF FInv
<1>1. CASE Dequeue
  BY <1>1, DequeueFacts, KillDequeue
<1>2. CASE ~Dequeue
  <2>1. initialized' = initialized
    BY <1>2 DEF Next, vars, Send, Bind, Await, CopyRef, DropRef, Process, Stop, Throw,
         HandlerReturns, LoopTakes, LoopEnds, AwaitTakes, AwaitReturns,
         Execute, DispatchEnds, DispatchThrows, HandlerThrows, Catch
  <2>2. SUFFICES ASSUME initialized
                 PROVE  \E j \in 1 .. Len(block'[Kill]) :
                          Killer(handlers', block'[Kill][j]) /\ Ahead(j, Kill, 0)'
    BY <2>1 DEF KillWaits
  <2>3. PICK j \in 1 .. Len(block[Kill]) : Killer(handlers, block[Kill][j]) /\ Ahead(j, Kill, 0)
    BY <2>2 DEF KillWaits
  <2>4. Kill \in Paths
    BY PathsAssumption
  <2>5. j \in 1 .. Len(block'[Kill]) /\ block'[Kill][j] = block[Kill][j]
    BY <1>2, <2>4, BlocksGrow
  <2>6. PICK h : h = block[Kill][j]
    OBVIOUS
  <2>7. h \in 1 .. Len(handlers) /\ j \in Nat
    BY <2>4, <2>6 DEF Roster, InOrder
  <2>8. Killer(handlers', h)
    <3>1. Keeps(handlers, handlers')
      BY RosterStep
    <3>2. QED
      BY <2>3, <2>6, <2>7, <3>1 DEF Killer, Keeps
  <2>9. ASSUME Execute, frames' # frames, Top.path = Kill, Top.event > 0
        PROVE  j <= Top.at - 1
    <3>1. /\ Top = frames[Len(frames)] /\ Top.kind = "dispatch" /\ Top.at \in Nat
          /\ Call(block[Kill][Top.at])
      BY <2>9, ExecuteFacts
    <3>2. j <= Top.at
      BY <2>3, <2>9, <3>1, Stack DEF Ahead
    <3>3. Top.at # j
      BY <2>3, <2>9, <3>1 DEF Call, Killer, Alive
    <3>4. QED
      BY <3>1, <3>2, <3>3
  <2>10. Ahead(j, Kill, 0)'
    BY <1>2, <2>3, <2>7, <2>9, StepMovesFrames, AheadStays
  <2>11. QED
    BY <2>5, <2>6, <2>8, <2>10
<1>3. QED
  BY <1>1, <1>2

LEMMA FitInductive ==
  ASSUME FInv, [Next]_vars
  PROVE  FInv'
<1>1. IInv'
  BY Inductive DEF FInv
<1>2. Roster(handlers', block')
  BY RosterStep DEF FInv
<1>3. FramesFit'
  BY FitStep DEF FInv
<1>4. Flags'
  BY FlagsStep DEF FInv
<1>5. KillWaits'
  BY KillStep
<1>6. QED
  BY <1>1, <1>2, <1>3, <1>4, <1>5 DEF FInv

LEMMA InitFits ==
  ASSUME Init
  PROVE  FInv
<1>1. IInv
  BY InitInvariant
<1>2. handlers = <<>> /\ block = [p \in Paths |-> <<>>]
  BY DEF Init
<1>3. Roster(handlers, block)
  <2>1. handlers \in Seq(Handler) /\ block \in [Paths -> Seq(Nat)]
    BY <1>2
  <2>2. \A p \in Paths : Len(block[p]) = 0
    BY <1>2
  <2>3. QED
    BY <2>1, <2>2 DEF Roster, InOrder
<1>4. PICK main : main = Code(Main)
  OBVIOUS
<1>5. frames = <<main>>
  BY <1>4 DEF Init
<1>6. main.kind = "code"
  BY <1>4 DEF Code
<1>7. FramesFit
  BY <1>5, <1>6 DEF FramesFit, Fits
<1>8. Flags
  <2>1. Len(sent) <= MaxEvents
    BY BoundsAssumption DEF Init
  <2>2. thrown \subseteq 1 .. taken /\ taken = 0 /\ exc \in Exceptions
    BY DEF Init, Exceptions
  <2>3. initialized \in BOOLEAN /\ stopped \in BOOLEAN /\ wild \in BOOLEAN
    BY DEF Init
  <2>4. QED
    BY <2>1, <2>2, <2>3 DEF Flags
<1>9. KillWaits
  BY DEF Init, KillWaits
<1>10. QED
  BY <1>1, <1>3, <1>7, <1>8, <1>9 DEF FInv

(* The frames on the stack, the handlers and their blocks fit each other     *)
(* always, and the kill handler waits, whatever the program does             *)
(* (context.cpp:49-60, 95-186, handler.hpp).                                 *)
THEOREM FitInvariance == Spec => []FInv
<1>1. Init => FInv
  BY InitFits
<1>2. FInv /\ [Next]_vars => FInv'
  BY FitInductive
<1>3. QED
  BY <1>1, <1>2, PTL DEF Spec

(* The state stays well formed, no reference to a handler is dropped twice,  *)
(* and blocks keep the order in which handlers were bound, though they are   *)
(* collected in the middle of dispatches (context.cpp:62-93, 139-151).       *)
THEOREM TypesAreRight == Spec => []TypeOK
<1>1. FInv => TypeOK
  <2> SUFFICES ASSUME FInv
               PROVE  TypeOK
    OBVIOUS
  <2> USE DEF FInv
  <2>1. sent \in Seq(Paths) /\ taken \in 0 .. Len(sent)
    BY DEF IInv, Mail
  <2>2. freed \in [DOMAIN sent -> Nat]
    BY DEF IInv, Mail
  <2>3. handlers \in Seq([path : Paths, role : {"user", "await", "kill"}, refs : 0 .. MaxRefs])
    BY DEF Roster, Handler, Roles
  <2>4. DOMAIN block = Paths
    BY DEF Roster
  <2>5. \A p \in Paths : \A i \in DOMAIN block[p] :
          /\ handlers[block[p][i]].path = p
          /\ \A j \in 1 .. (i - 1) : block[p][j] < block[p][i]
    BY DEF Roster, InOrder
  <2>6. frames # <<>> /\ frames[1] = Code(Main)
    <3>1. Len(frames) >= 1 /\ frames[1] = Code(Main)
      BY DEF IInv, Bottom
    <3>2. Len(<<>>) = 0
      OBVIOUS
    <3>3. QED
      BY <3>1, <3>2
  <2>7. QED
    BY <2>1, <2>2, <2>3, <2>4, <2>5, <2>6 DEF TypeOK, Flags
<1>2. QED
  BY <1>1, FitInvariance, PTL

LEMMA KillStepThrows ==
  ASSUME FInv, [Next]_vars, NEW e \in 1 .. taken', sent[e] = Kill, freed'[e] > freed[e]
  PROVE  e \in thrown'
<1> USE DEF FInv
<1>1. IInv'
  BY FitInductive
<1>2. CASE Dequeue
  <2>1. PICK d, p, bs, c : TakesOne(d, p, bs, c)
    BY <1>2, DequeueFacts
  <2>2. taken' = d /\ d = taken + 1 /\ p = sent[d] /\ sent' = sent /\ d \in 1 .. Len(sent)
    BY <2>1 DEF TakesOne
  <2>3. freed' = freed \/ freed' = [freed EXCEPT ![d] = @ + 1]
    BY <1>2, <2>2 DEF Dequeue
  <2>4. freed \in Seq(Nat) /\ Len(freed) = Len(sent) /\ e \in 1 .. Len(sent)
    BY <2>2, Stack DEF IInv, Mail
  <2>5. freed[e] \in Nat
    BY <2>4
  <2>6. e = d
    BY <2>3, <2>4, <2>5
  <2>7. OnStack(d)'
    BY <2>1, <2>2, <2>6, KillDequeue
  <2>8. freed'[d] = 0
    BY <1>1, <2>2, <2>7 DEF IInv, OneOwner
  <2>9. QED
    BY <2>5, <2>6, <2>8
<1>3. CASE ~Dequeue
  <2>1. taken' = taken /\ taken \in Nat /\ e \in 1 .. Len(sent)
    <3>1. taken' = taken
      BY <1>3 DEF Next, vars, Send, Bind, Await, CopyRef, DropRef, Process, Stop, Throw,
           HandlerReturns, LoopTakes, LoopEnds, AwaitTakes, AwaitReturns,
           Execute, DispatchEnds, DispatchThrows, HandlerThrows, Catch
    <3>2. QED
      BY <3>1, Stack
  <2>2. freed \in Seq(Nat) /\ Len(freed) = Len(sent)
    BY DEF IInv, Mail
  <2>3. freed[e] \in Nat
    BY <2>1, <2>2
  <2>4. freed' # freed /\ ~(\E p : Send(p))
    <3>1. ASSUME NEW p, Send(p)
          PROVE  FALSE
      <4>1. freed' = Append(freed, 0)
        BY <3>1 DEF Send
      <4>2. freed'[e] = freed[e]
        BY <2>1, <2>2, <4>1
      <4>3. QED
        BY <2>3, <4>2
    <3>2. QED
      BY <2>3, <3>1
  <2>5. DispatchEnds \/ DispatchThrows
    BY <1>3, <2>4 DEF Next, vars, Bind, Await, CopyRef, DropRef, Process, Stop, Throw,
         HandlerReturns, LoopTakes, LoopEnds, AwaitTakes, AwaitReturns,
         Execute, HandlerThrows, Catch
  <2>6. freed' = [freed EXCEPT ![Top.event] = @ + 1] /\ Top.kind = "dispatch"
    BY <2>5 DEF DispatchEnds, DispatchThrows, Runs, Unwinds
  <2>7. e = Top.event
    BY <2>1, <2>2, <2>3, <2>6
  <2>8. CASE DispatchThrows
    BY <2>7, <2>8 DEF DispatchThrows
  <2>9. CASE DispatchEnds
    <3>1. Top.at = 0 /\ Top = frames[Len(frames)] /\ Len(frames) \in 1 .. Len(frames)
      BY <2>9, Stack DEF DispatchEnds, Top
    <3>2. Top.path = Kill
      BY <2>6, <2>7, <3>1, DispatchFacts
    <3>3. initialized
      BY <2>1 DEF Flags
    <3>4. PICK j \in 1 .. Len(block[Kill]) : Ahead(j, Kill, 0)
      BY <3>3 DEF KillWaits
    <3>5. j <= Top.at
      BY <2>1, <2>6, <2>7, <3>1, <3>2, <3>4 DEF Ahead
    <3>6. QED
      BY <3>1, <3>4, <3>5
  <2>10. QED
    BY <2>5, <2>8, <2>9
<1>4. QED
  BY <1>2, <1>3

(* A kill event is never dropped for want of a handler, and its dispatch     *)
(* ends in an exception, for any program and any handlers bound to the event *)
(* (context.cpp:49-60, 118-129, 180-185).                                    *)
THEOREM KillsAreNeverShruggedOff == Spec => KillThrows
<1>1. FInv /\ [Next]_vars =>
        [\A e \in 1 .. taken' :
           sent[e] = Kill /\ freed'[e] > freed[e] => e \in thrown']_vars
  BY KillStepThrows
<1>2. QED
  BY <1>1, FitInvariance, PTL DEF Spec, KillThrows
-------------------------------------------------------------------------------
(* Programs that keep to the discipline.                                     *)

(* A handler's code is on its dispatch, and what it processes above it.      *)
Nested ==
  \A i, j \in 1 .. Len(frames) : j = i + 1 =>
    /\ frames[i].kind = "dispatch" => frames[j] = Code(frames[i].path)
    /\ frames[j].kind = "code" => frames[i].kind = "dispatch"
    /\ frames[i].kind = "code" => HandlersWait(frames[i].path)

(* Nobody awaits a path whose handlers wait.                                 *)
AwaitsAreQuick ==
  \A h \in 1 .. Len(handlers) :
    handlers[h].role = "await" => ~HandlersWait(handlers[h].path)

(* What an iterator f has yet to read stands as it stood when it began, and  *)
(* lives.                                                                    *)
Intact(f, hs, bs) ==
  /\ f.targets \in Seq(Nat) /\ f.at <= Len(f.targets) /\ f.at <= Len(bs[f.path])
  /\ \A k \in 1 .. f.at : bs[f.path][k] = f.targets[k] /\ hs[bs[f.path][k]].refs > 0
  /\ f.stale => f.at = 0
AllIntact ==
  \A i \in 1 .. Len(frames) : frames[i].kind = "dispatch" => Intact(frames[i], handlers, block)

NoHarm == ~wild /\ exc # "bad_call"

LInv == FInv /\ Nested /\ AwaitsAreQuick /\ AllIntact /\ NoHarm

(* Below the top two frames only handlers that wait are dispatched.          *)
LEMMA Below ==
  ASSUME LInv, NEW i \in 1 .. Len(frames), frames[i].kind = "dispatch"
  PROVE  \/ i = Len(frames)
         \/ i = Len(frames) - 1 /\ Top = Code(frames[i].path)
         \/ i <= Len(frames) - 2 /\ HandlersWait(frames[i].path)
<1>1. PICK n \in Nat : n = Len(frames) /\ n >= 1
  BY Stack DEF LInv, FInv
<1>2. PICK j : j = i + 1
  OBVIOUS
<1>3. CASE i = n - 1
  BY <1>1, <1>2, <1>3 DEF LInv, Nested, Top
<1>4. CASE i <= n - 2
  <2>1. PICK k : k = j + 1
    OBVIOUS
  <2>2. j \in 1 .. n /\ k \in 1 .. n
    BY <1>1, <1>2, <1>4, <2>1
  <2>3. frames[j] = Code(frames[i].path)
    BY <1>1, <1>2, <2>2 DEF LInv, Nested
  <2>4. frames[j].kind = "code" /\ frames[j].path = frames[i].path
    BY <2>3 DEF Code
  <2>5. HandlersWait(frames[j].path)
    BY <1>1, <2>1, <2>2, <2>4 DEF LInv, Nested
  <2>6. QED
    BY <1>1, <1>4, <2>4, <2>5
<1>5. QED
  BY <1>1, <1>3, <1>4

(* The code on top is the main function's if no handler runs.                *)
LEMMA CodeOnTop ==
  ASSUME LInv, Top.kind = "code"
  PROVE  \/ Top.path = Main /\ Len(frames) = 1
         \/ /\ Len(frames) > 1 /\ Top.path \in Paths
            /\ frames[Len(frames) - 1].kind = "dispatch"
            /\ frames[Len(frames) - 1].path = Top.path
<1>1. PICK n \in Nat : n = Len(frames) /\ n >= 1
  BY Stack DEF LInv, FInv
<1>2. CASE n = 1
  BY <1>1, <1>2 DEF LInv, FInv, IInv, Bottom, Top, Code
<1>3. CASE n > 1
  <2>1. PICK i \in 1 .. n : i = n - 1
    BY <1>1, <1>3
  <2>2. frames[i].kind = "dispatch" /\ frames[n] = Code(frames[i].path)
    BY <1>1, <1>3, <2>1 DEF LInv, Nested, Top
  <2>3. frames[i].path \in Paths
    BY <1>1, <2>2, DispatchFacts DEF LInv, FInv
  <2>4. Top.path = frames[i].path
    BY <1>1, <2>2 DEF Top, Code
  <2>5. QED
    BY <1>1, <1>3, <2>1, <2>2, <2>3, <2>4
<1>4. QED
  BY <1>1, <1>2, <1>3

(* No dispatch of a path is on the stack when code binds, releases or awaits *)
(* handlers of the path.                                                     *)
LEMMA NothingDisturbed ==
  ASSUME Discipline, LInv, Top.kind = "code", NEW p \in Paths,
         <<Top.path, p>> \in Binds \/ <<Top.path, p>> \in Awaits,
         NEW i \in 1 .. Len(frames), frames[i].kind = "dispatch"
  PROVE  frames[i].path # p
<1>1. PICK n \in Nat : n = Len(frames) /\ n >= 1
  BY Stack DEF LInv, FInv
<1>2. i # n
  BY <1>1 DEF Top
<1>3. Top.path \in Paths
  BY <1>1, <1>2, CodeOnTop
<1>4. CASE i = n - 1
  <2>1. frames[i].path = Top.path
    BY <1>1, <1>2, <1>4, CodeOnTop
  <2>2. CASE <<Top.path, p>> \in Binds
    BY <1>3, <2>1, <2>2 DEF Discipline
  <2>3. CASE <<Top.path, p>> \in Awaits
    <3>1. HandlersWait(Top.path)
      BY <2>3 DEF HandlersWait
    <3>2. QED
      BY <1>3, <2>1, <2>3, <3>1 DEF Discipline
  <2>4. QED
    BY <2>2, <2>3
<1>5. CASE i <= n - 2
  <2>1. HandlersWait(frames[i].path)
    BY <1>1, <1>5, Below
  <2>2. QED
    BY <1>3, <2>1 DEF Discipline
<1>6. QED
  BY <1>1, <1>2, <1>4, <1>5

LEMMA DequeueIsALoops ==
  ASSUME IInv, [Next]_vars, Dequeue
  PROVE  Top.kind \in {"process", "until"}
<1>1. taken' # taken
  BY Stack DEF Dequeue
<1>2. LoopTakes \/ AwaitTakes
  BY <1>1 DEF Next, vars, Send, Bind, Await, CopyRef, DropRef, Process, Stop, Throw,
       HandlerReturns, LoopEnds, AwaitReturns,
       Execute, DispatchEnds, DispatchThrows, HandlerThrows, Catch
<1>3. QED
  BY <1>2 DEF LoopTakes, AwaitTakes, Runs

LEMMA MovesOn ==
  ASSUME IInv, FramesFit, FramesMove, NEW i \in 1 .. Len(frames), i \in 1 .. Len(frames')
  PROVE  /\ frames'[i].kind = frames[i].kind
         /\ frames[i].kind = "code" => frames'[i] = frames[i]
         /\ frames[i].kind = "dispatch" =>
              /\ frames'[i].path = frames[i].path /\ frames'[i].event = frames[i].event
              /\ frames'[i].targets = frames[i].targets
              /\ \/ frames'[i].at = frames[i].at /\ ~Iterates(i)
                 \/ frames'[i].at = frames[i].at - 1 /\ Iterates(i)
         /\ frames[i].kind = "until" =>
              frames'[i].handler = frames[i].handler /\ frames'[i].since = frames[i].since
<1>1. Formed(frames[i]) /\ Fits(frames[i], handlers, sent)
  BY DEF IInv, Bottom, FramesFit
<1>2. Advances(frames[i], frames'[i]) \/ Iterates(i)
  BY Stack DEF FramesMove
<1>3. CASE Iterates(i)
  BY <1>1, <1>3 DEF Iterates, Formed, Fits
<1>4. CASE ~Iterates(i)
  <2>1. Advances(frames[i], frames'[i])
    BY <1>2, <1>4
  <2>2. CASE frames'[i] = frames[i]
    BY <1>4, <2>2
  <2>3. CASE frames[i].kind = "dispatch" /\ frames'[i] = [frames[i] EXCEPT !.stale = TRUE]
    BY <1>1, <1>4, <2>3 DEF Formed, Fits
  <2>4. CASE frames[i].kind = "until" /\ frames'[i] = [frames[i] EXCEPT !.got = Top.event]
    BY <1>1, <2>4 DEF Formed, Fits
  <2>5. QED
    BY <2>1, <2>2, <2>3, <2>4 DEF Advances
<1>5. QED
  BY <1>3, <1>4

LEMMA NestedStep ==
  ASSUME LInv, [Next]_vars
  PROVE  Nested'
<1> USE DEF LInv, FInv
<1>1. FramesMove
  BY StepMovesFrames
<1>2. PICK n \in Nat : n = Len(frames) /\ n >= 1
  BY Stack
<1>3. SUFFICES ASSUME NEW i \in 1 .. Len(frames'), NEW j \in 1 .. Len(frames'), j = i + 1
               PROVE  /\ frames'[i].kind = "dispatch" => frames'[j] = Code(frames'[i].path)
                      /\ frames'[j].kind = "code" => frames'[i].kind = "dispatch"
                      /\ frames'[i].kind = "code" => HandlersWait(frames'[i].path)
  BY DEF Nested
<1>4. Len(frames') \in Nat /\ (j \in 1 .. n \/ j = n + 1)
  BY <1>1, <1>2 DEF FramesMove
<1>5. i \in 1 .. n
  BY <1>2, <1>3, <1>4
<1>6. /\ frames'[i].kind = frames[i].kind
      /\ frames[i].kind = "code" => frames'[i] = frames[i]
      /\ frames[i].kind = "dispatch" => frames'[i].path = frames[i].path
  BY <1>1, <1>2, <1>5, MovesOn
<1>7. CASE j \in 1 .. n
  <2>1. /\ frames'[j].kind = frames[j].kind
        /\ frames[j].kind = "code" => frames'[j] = frames[j]
    BY <1>1, <1>2, <1>7, MovesOn
  <2>2. /\ frames[i].kind = "dispatch" => frames[j] = Code(frames[i].path)
        /\ frames[j].kind = "code" => frames[i].kind = "dispatch"
        /\ frames[i].kind = "code" => HandlersWait(frames[i].path)
    BY <1>2, <1>3, <1>5, <1>7 DEF Nested
  <2>3. frames[j] = Code(frames[i].path) => frames[j].kind = "code"
    BY DEF Code
  <2>4. QED
    BY <1>6, <2>1, <2>2, <2>3
<1>8. CASE j = n + 1
  <2>1. i = n /\ Comes(frames'[j]) /\ Top = frames[i]
    BY <1>1, <1>2, <1>3, <1>5, <1>8 DEF FramesMove, Top
  <2>2. CASE Process /\ frames'[j] = Loop
    BY <1>6, <2>1, <2>2 DEF Process, Runs, Loop, HandlersWait
  <2>3. ASSUME NEW p \in Paths, Await(p), frames'[j] = Until(Len(handlers) + 1)
        PROVE  /\ frames[i].kind = "code" /\ HandlersWait(frames[i].path)
               /\ frames'[j].kind = "until"
    BY SMTT(30), <2>1, <2>3 DEF Await, Runs, Until, HandlersWait
  <2>4. CASE Execute /\ frames'[j] = Code(Top.path)
    BY <1>6, <2>1, <2>4 DEF Execute, Runs, Code
  <2>5. CASE Dequeue /\ frames'[j].kind = "dispatch"
    BY <1>6, <2>1, <2>5, DequeueIsALoops
  <2>6. frames'[j] = Iterate(taken + 1, sent[taken + 1], block'[sent[taken + 1]])
          => frames'[j].kind = "dispatch"
    BY DEF Iterate
  <2>7. QED
    BY <1>6, <2>1, <2>2, <2>3, <2>4, <2>5, <2>6 DEF Comes
<1>9. QED
  BY <1>4, <1>7, <1>8

(* No handler of an await is bound to a path whose handlers wait.            *)
LEMMA QuickStep ==
  ASSUME Discipline, LInv, [Next]_vars
  PROVE  AwaitsAreQuick'
<1> USE DEF LInv, FInv
<1>1. Keeps(handlers, handlers')
  BY RosterStep
<1>2. ASSUME NEW h \in 1 .. Len(handlers'), handlers'[h].role = "await",
             h \in 1 .. Len(handlers)
      PROVE  ~HandlersWait(handlers'[h].path)
  BY <1>1, <1>2 DEF Keeps, AwaitsAreQuick
<1>3. ASSUME NEW h \in 1 .. Len(handlers'), handlers'[h].role = "await",
             h \notin 1 .. Len(handlers), NEW p \in Paths, NEW role \in Roles, NEW bs,
             Extends(handlers, block, p, role, handlers', bs)
      PROVE  role = "await" /\ handlers'[h].path = p
  <2>1. PICK gs : gs = handlers'
    OBVIOUS
  <2>2. h = Len(handlers) + 1
    BY <1>3, <2>1 DEF Extends
  <2>3. gs[h] = [path |-> p, role |-> role, refs |-> 1]
    BY <1>3, <2>1, <2>2 DEF Extends
  <2>4. QED
    BY <1>3, <2>1, <2>3
<1>4. ASSUME NEW h \in 1 .. Len(handlers'), handlers'[h].role = "await",
             h \notin 1 .. Len(handlers)
      PROVE  ~HandlersWait(handlers'[h].path)
  <2>1. Len(handlers) \in Nat /\ Len(handlers') \in Nat /\ Roster(handlers', block')
    BY RosterStep DEF Roster
  <2>2. CASE Dequeue
    <3>1. PICK e, p, bs, c : TakesOne(e, p, bs, c)
      BY <2>2, DequeueFacts
    <3>2. Added(handlers, block, Kill, "kill", handlers', bs)
      BY <1>4, <3>1 DEF TakesOne
    <3>3. Kill \in Paths /\ "kill" \in Roles
      BY PathsAssumption DEF Roles
    <3>4. Extends(handlers, block, Kill, "kill", handlers', bs)
      BY <3>2, <3>3, RosterAdd
    <3>5. QED
      BY <1>3, <1>4, <3>3, <3>4
  <2>3. ASSUME NEW p \in Paths, Bind(p)
        PROVE  FALSE
    <3>1. "user" \in Roles /\ Extends(handlers, block, p, "user", handlers', block')
      BY <2>3, AddKeeps DEF Bind, Roles
    <3>2. QED
      BY <1>3, <1>4, <3>1
  <2>4. ASSUME NEW p \in Paths, Await(p)
        PROVE  ~HandlersWait(handlers'[h].path)
    <3>1. "await" \in Roles /\ Extends(handlers, block, p, "await", handlers', block')
      BY <2>4, AddKeeps DEF Await, Roles
    <3>2. handlers'[h].path = p
      BY <1>3, <1>4, <3>1
    <3>3. <<Top.path, p>> \in Awaits
      BY <2>4 DEF Await
    <3>4. Top.path \in Paths \union {Main}
      BY <3>3, UsesAssumption
    <3>5. QED
      BY <3>2, <3>3, <3>4 DEF Discipline
  <2>5. CASE ~Dequeue /\ ~(\E p \in Paths : Bind(p) \/ Await(p))
    <3>1. \/ handlers' = handlers
          \/ \E k, x : handlers' = [handlers EXCEPT ![k] = x]
      BY <2>5 DEF Next, vars, Send, CopyRef, DropRef, Process, Stop, Throw,
           HandlerReturns, LoopTakes, LoopEnds, AwaitTakes, AwaitReturns, Call, Fulfil, Forget,
           Execute, DispatchEnds, DispatchThrows, HandlerThrows, Catch
    <3>2. handlers \in Seq(Handler) /\ handlers' \in Seq(Handler)
      BY <2>1 DEF Roster
    <3>3. DOMAIN handlers' = DOMAIN handlers
      BY <3>1
    <3>4. QED
      BY <1>4, <3>2, <3>3
  <2>6. QED
    BY <2>2, <2>3, <2>4, <2>5
<1>5. QED
  BY <1>2, <1>4 DEF AwaitsAreQuick

LEMMA IntactOn ==
  ASSUME NEW f, NEW g, NEW hs, NEW gs, NEW bs, NEW cs, Intact(f, hs, bs),
         f.at \in Nat, g.at \in Nat, g.at <= f.at, g.path = f.path, g.targets = f.targets,
         g.stale => g.at = 0, g.at <= Len(cs[f.path]),
         \A k \in 1 .. g.at : cs[f.path][k] = bs[f.path][k] /\ gs[bs[f.path][k]].refs > 0
  PROVE  Intact(g, gs, cs)
<1>1. g.targets \in Seq(Nat) /\ Len(g.targets) \in Nat /\ g.at <= Len(g.targets)
  BY DEF Intact
<1>2. \A k \in 1 .. g.at : k \in 1 .. f.at
  OBVIOUS
<1>3. \A k \in 1 .. g.at : cs[g.path][k] = g.targets[k] /\ gs[cs[g.path][k]].refs > 0
  BY <1>2 DEF Intact
<1>4. QED
  BY <1>1, <1>3 DEF Intact

(* Steps that neither take an event nor call a handler leave the dispatches, *)
(* their blocks and the life of the handlers in them alone.                  *)
Calm(i) ==
  /\ frames'[i] = frames[i] /\ block'[frames[i].path] = block[frames[i].path]
  /\ \A h \in 1 .. Len(handlers) :
       handlers[h].path = frames[i].path /\ handlers[h].refs > 0 => handlers'[h].refs > 0

LEMMA OthersCalm ==
  ASSUME LInv, NEW i, UNCHANGED block, frames'[i] = frames[i], NEW h,
         handlers[h].path # frames[i].path, NEW r,
         handlers' = [handlers EXCEPT ![h].refs = r]
  PROVE  Calm(i)
<1>1. \A k \in 1 .. Len(handlers) : k # h => handlers'[k] = handlers[k]
  BY DEF LInv, FInv, Roster
<1>2. QED
  BY <1>1 DEF Calm

(* The handler of an await is forgotten while no dispatch of its path is on  *)
(* the stack below.                                                          *)
LEMMA ForgetCalm ==
  ASSUME LInv, NEW i \in 1 .. Len(frames), frames[i].kind = "dispatch",
         NEW j \in 1 .. Len(frames), i < j, frames[j].kind = "until",
         handlers' = Forget(frames[j].handler), UNCHANGED block, frames'[i] = frames[i]
  PROVE  Calm(i)
<1>1. PICK h : h = frames[j].handler
  OBVIOUS
<1>2. h \in 1 .. Len(handlers) /\ handlers[h].role = "await"
  BY <1>1 DEF LInv, FInv, FramesFit, Fits
<1>3. ~HandlersWait(handlers[h].path)
  BY <1>2 DEF LInv, AwaitsAreQuick
<1>4. Len(frames) \in Nat
  BY Stack DEF LInv, FInv
<1>5. HandlersWait(frames[i].path)
  <2>1. CASE i = Len(frames) - 1
    <3>1. Top = Code(frames[i].path) /\ Top = frames[j]
      BY <1>4, <2>1, Below DEF Top
    <3>2. QED
      BY <3>1 DEF Code
  <2>2. QED
    BY <1>4, <2>1, Below
<1>6. handlers' = [handlers EXCEPT ![h].refs = 0]
  BY <1>1 DEF Forget
<1>7. QED
  BY ZenonT(40), <1>3, <1>5, <1>6, OthersCalm

LEMMA SameCalm ==
  ASSUME NEW i, frames'[i] = frames[i], UNCHANGED <<handlers, block>>
  PROVE  Calm(i)
BY DEF Calm

LEMMA AddCalm ==
  ASSUME LInv, NEW p \in Paths, NEW role \in Roles, AddHandler(p, role),
         NEW i \in 1 .. Len(frames), frames[i].path \in Paths, frames[i].path # p,
         frames'[i] = frames[i]
  PROVE  Calm(i)
<1>1. Extends(handlers, block, p, role, handlers', block')
  BY AddKeeps DEF LInv, FInv
<1>2. PICK gs, bs : gs = handlers' /\ bs = block'
  OBVIOUS
<1>3. (\A h \in 1 .. Len(handlers) : gs[h] = handlers[h]) /\ bs[frames[i].path] = block[frames[i].path]
  BY <1>1, <1>2 DEF Extends
<1>4. QED
  BY <1>2, <1>3 DEF Calm

LEMMA CalmStep ==
  ASSUME Discipline, LInv, [Next]_vars, ~Dequeue, ~Execute,
         NEW i \in 1 .. Len(frames), i \in 1 .. Len(frames'), frames[i].kind = "dispatch"
  PROVE  Calm(i)
<1> USE DEF LInv, FInv
<1>1. PICK n \in Nat : n = Len(frames) /\ n >= 1 /\ i \in 1 .. n
  BY Stack
<1>2. frames[i].path \in Paths
  BY DispatchFacts
<1>3. UNCHANGED frames => frames'[i] = frames[i]
  OBVIOUS
<1>4. CASE UNCHANGED vars
  BY <1>3, <1>4, SameCalm DEF vars
<1>5. ASSUME NEW p \in Paths, <<Top.path, p>> \in Binds \/ <<Top.path, p>> \in Awaits,
             Top.kind = "code"
      PROVE  frames[i].path # p /\ Stale(p)[i] = frames[i]
  BY <1>5, NothingDisturbed, StaleAdvances
<1>6. ASSUME NEW p \in Paths, Send(p)
      PROVE  Calm(i)
  BY <1>3, <1>6, SameCalm DEF Send
<1>7. ASSUME NEW p \in Paths, Bind(p)
      PROVE  Calm(i)
  <2>1. frames[i].path # p /\ Stale(p)[i] = frames[i]
    BY <1>5, <1>7 DEF Bind, Runs, MayBind
  <2>2. frames'[i] = frames[i] /\ AddHandler(p, "user") /\ "user" \in Roles
    BY <1>7, <2>1 DEF Bind, Roles
  <2>3. QED
    BY <1>2, <2>1, <2>2, AddCalm
<1>8. ASSUME NEW p \in Paths, Await(p)
      PROVE  Calm(i)
  <2>1. frames[i].path # p /\ Stale(p)[i] = frames[i]
    BY <1>5, <1>8 DEF Await, Runs
  <2>2. PICK now \in {frames, Stale(p)} : frames' = Append(now, Until(Len(handlers) + 1))
    BY <1>8 DEF Await
  <2>3. now[i] = frames[i] /\ IsStack(now) /\ Len(now) = n
    BY <1>1, <2>1, <2>2, Stack, StaleAdvances
  <2>4. frames'[i] = frames[i]
    BY <1>1, <2>2, <2>3, StackPush
  <2>5. AddHandler(p, "await") /\ "await" \in Roles
    BY <1>8 DEF Await, Roles
  <2>6. QED
    BY <1>2, <2>1, <2>4, <2>5, AddCalm
<1>9. ASSUME NEW h \in DOMAIN handlers, CopyRef(h)
      PROVE  Calm(i)
  <2>1. handlers[h] \in Handler /\ handlers \in Seq(Handler)
    BY <1>9 DEF Roster
  <2>2. handlers[h].refs \in Nat
    BY <2>1, BoundsAssumption DEF Handler
  <2>3. PICK r : r = handlers[h].refs + 1
    OBVIOUS
  <2>4. handlers' = [handlers EXCEPT ![h].refs = r]
    BY <1>9, <2>3 DEF CopyRef
  <2>5. \A k \in 1 .. Len(handlers) : handlers'[k].refs = IF k = h THEN r ELSE handlers[k].refs
    BY <2>1, <2>4 DEF Handler
  <2>6. UNCHANGED <<block, frames>> /\ r > 0
    BY <1>9, <2>2, <2>3 DEF CopyRef
  <2>7. QED
    BY <2>5, <2>6 DEF Calm
<1>10. ASSUME NEW h \in DOMAIN handlers, DropRef(h)
       PROVE  Calm(i)
  <2>1. handlers[h] \in Handler
    BY <1>10 DEF Roster
  <2>2. handlers[h].path \in Paths
    BY <2>1 DEF Handler
  <2>3. frames[i].path # handlers[h].path
    BY <1>5, <1>10, <2>2 DEF DropRef, Runs, MayBind
  <2>4. PICK r : r = handlers[h].refs - 1
    OBVIOUS
  <2>5. handlers' = [handlers EXCEPT ![h].refs = r] /\ UNCHANGED <<block, frames>>
    BY <1>10, <2>4 DEF DropRef
  <2>6. QED
    BY <2>3, <2>5, OthersCalm
<1>11. CASE Process
  <2>1. PICK f : f = Loop
    OBVIOUS
  <2>2. frames' = Append(frames, f) /\ UNCHANGED <<handlers, block>>
    BY <1>11, <2>1 DEF Process, Push
  <2>3. frames'[i] = frames[i]
    BY <1>1, <2>2, Stack, StackPush
  <2>4. QED
    BY <2>2, <2>3, SameCalm
<1>12. CASE Stop \/ Throw \/ Catch
  BY <1>3, <1>12, SameCalm DEF Stop, Throw, Catch
<1>13. /\ IsStack(Return) /\ Len(Return) = n - 1
       /\ \A k \in 1 .. n - 1 : Return[k] = frames[k]
  BY <1>1, Stack, StackFront DEF Return
<1>14. ASSUME frames' = Return, UNCHANGED <<handlers, block>>
       PROVE  Calm(i)
  BY <1>1, <1>13, <1>14, SameCalm
<1>15. CASE DispatchThrows
  <2>1. frames' = Front(Return) /\ Top.kind = "dispatch" /\ frames[n].kind = "dispatch"
    BY <1>1, <1>15 DEF DispatchThrows, Unwinds, Top
  <2>2. n > 1
    BY <1>1, <2>1 DEF IInv, OnItsLoop
  <2>3. Len(frames') = n - 2 /\ \A k \in 1 .. n - 2 : frames'[k] = Return[k]
    <3>1. Len(Return) >= 1
      BY <1>1, <1>13, <2>2
    <3>2. /\ Len(Front(Return)) = Len(Return) - 1
          /\ \A k \in 1 .. Len(Return) - 1 : Front(Return)[k] = Return[k]
      BY <1>13, <3>1, StackFront
    <3>3. QED
      BY <1>1, <1>13, <2>1, <3>2
  <2>4. i \in 1 .. n - 2 /\ frames'[i] = frames[i]
    BY <1>1, <1>13, <2>2, <2>3
  <2>5. CASE UNCHANGED <<handlers, block>>
    BY <2>4, <2>5, SameCalm
  <2>6. CASE ~UNCHANGED <<handlers, block>>
    <3>1. PICK j \in 1 .. n : j = n - 1
      BY <1>1, <2>2
    <3>2. /\ frames[j].kind = "until" /\ handlers' = Forget(frames[j].handler)
          /\ UNCHANGED block /\ i < j
      BY <1>1, <1>15, <2>4, <2>6, <3>1 DEF DispatchThrows
    <3>3. QED
      BY <1>1, <2>4, <3>2, ForgetCalm
  <2>7. QED
    BY <2>5, <2>6
<1>16. CASE LoopEnds \/ HandlerReturns \/ HandlerThrows \/ DispatchEnds
  BY <1>14, <1>16 DEF LoopEnds, HandlerReturns, HandlerThrows, DispatchEnds
<1>17. CASE AwaitReturns
  <2>1. /\ frames[n].kind = "until" /\ handlers' = Forget(frames[n].handler)
        /\ UNCHANGED block /\ frames' = Return
    BY <1>1, <1>17 DEF AwaitReturns, Runs, Top
  <2>2. i < n /\ n \in 1 .. n /\ frames'[i] = frames[i]
    BY <1>1, <1>13, <2>1
  <2>3. QED
    BY <1>1, <2>1, <2>2, ForgetCalm
<1>18. QED
  BY <1>4, <1>6, <1>7, <1>8, <1>9, <1>10, <1>11, <1>12, <1>15, <1>16, <1>17
     DEF Next, LoopTakes, AwaitTakes
LEMMA DequeueIntact ==
  ASSUME LInv, [Next]_vars, Dequeue
  PROVE  AllIntact'
<1> USE DEF LInv, FInv
<1>1. PICK e, p, bs, c : TakesOne(e, p, bs, c)
  BY DequeueFacts
<1>2. FramesMove
  BY StepMovesFrames
<1>3. PICK n \in Nat : n = Len(frames) /\ n >= 1
  BY Stack
<1>4. /\ c = block'[p] /\ Sifted(c, bs[p], handlers') /\ Roster(handlers', bs)
      /\ \A q \in Paths : q # p => block'[q] = bs[q]
      /\ p \in Paths
  BY <1>1 DEF TakesOne
<1>5. Keeps(handlers, handlers') /\ Roster(handlers', block')
  BY <1>1 DEF TakesOne
<1>6. ASSUME NEW i \in 1 .. n, frames[i].kind = "dispatch"
      PROVE  handlers' = handlers /\ bs = block
  <2>1. taken >= 1 /\ taken \in Nat
    BY <1>3, <1>6, Stack DEF IInv, OnItsLoop
  <2>2. initialized
    BY <2>1 DEF Flags
  <2>3. QED
    BY <1>1, <2>2 DEF TakesOne
<1>7. ASSUME NEW i \in 1 .. n, i \in 1 .. Len(frames'), frames'[i].kind = "dispatch"
      PROVE  Intact(frames'[i], handlers', block')
  <2>1. frames[i].kind = "dispatch"
    BY <1>2, <1>3, <1>7, MovesOn
  <2>2. /\ frames'[i].path = frames[i].path /\ frames'[i].targets = frames[i].targets
        /\ frames'[i].at = frames[i].at
    <3>1. ~Iterates(i)
      BY DequeueIsALoops DEF Iterates, Execute, Runs
    <3>2. QED
      BY <1>2, <1>3, <1>7, <2>1, <3>1, MovesOn
  <2>3. PICK f, g : f = frames[i] /\ g = frames'[i]
    OBVIOUS
  <2>4. /\ Intact(f, handlers, block) /\ f.at \in Nat /\ f.path \in Paths
        /\ handlers' = handlers /\ bs = block
    BY <1>3, <1>6, <2>1, <2>3, DispatchFacts DEF AllIntact
  <2>5. PICK a \in Nat, q \in Paths : a = f.at /\ q = f.path
    BY <2>4
  <2>6. a <= Len(block[q]) /\ \A k \in 1 .. a : handlers[block[q][k]].refs > 0
    BY <2>4, <2>5 DEF Intact
  <2>7. a <= Len(block'[q]) /\ \A k \in 1 .. a : block'[q][k] = block[q][k]
    <3>1. CASE q = p
      <4>1. a \in 0 .. Len(bs[p])
        BY <2>4, <2>5, <2>6, <3>1 DEF Roster
      <4>2. a <= Len(c) /\ \A k \in 1 .. a : c[k] = bs[p][k]
        BY <1>4, <2>4, <2>6, <3>1, <4>1 DEF Sifted
      <4>3. QED
        BY <1>4, <2>4, <3>1, <4>2
    <3>2. CASE q # p
      BY <1>4, <2>4, <2>6, <3>2
    <3>3. QED
      BY <3>1, <3>2
  <2>8. g.stale => g.at = 0
    <3>1. CASE g = f
      BY <2>4, <3>1 DEF Intact
    <3>2. CASE g # f
      <4>1. frames' = Stale(p) /\ c = <<>>
        <5>1. CASE frames' = Append(frames, Iterate(e, p, c))
          BY <1>3, <2>3, <3>2, <5>1, Stack, StackPush
        <5>2. QED
          BY <1>1, <5>1 DEF TakesOne
      <4>2. q = p
        BY <1>3, <2>3, <2>5, <3>2, <4>1, StaleAdvances
      <4>3. Len(c) = 0
        BY <4>1
      <4>4. a = 0
        BY <1>4, <2>5, <2>7, <4>2, <4>3
      <4>5. QED
        BY <2>2, <2>3, <2>5, <4>4
    <3>3. QED
      BY <3>1, <3>2
  <2>9. g.at = a /\ g.path = f.path /\ g.targets = f.targets
    BY <2>2, <2>3, <2>5
  <2>10. Intact(g, handlers', block')
    BY <2>4, <2>5, <2>6, <2>7, <2>8, <2>9, IntactOn
  <2>11. QED
    BY <2>3, <2>10
<1>8. ASSUME NEW i \in 1 .. Len(frames'), i \notin 1 .. n, frames'[i].kind = "dispatch"
      PROVE  Intact(frames'[i], handlers', block')
  <2>1. frames' = Append(frames, Iterate(e, p, c))
    BY <1>1, <1>3, <1>8, StaleAdvances DEF TakesOne
  <2>2. PICK f : f = Iterate(e, p, c)
    OBVIOUS
  <2>3. frames'[i] = f
    BY <1>3, <1>8, <2>1, <2>2, Stack, StackPush
  <2>4. f.path = p /\ f.targets = c /\ f.at = Len(c) /\ f.stale = FALSE
    BY <2>2 DEF Iterate
  <2>5. c \in Seq(Nat) /\ \A k \in 1 .. Len(c) : handlers'[c[k]].refs > 0
    BY <1>4 DEF Sifted
  <2>6. Intact(f, handlers', block')
    BY <1>4, <2>4, <2>5 DEF Intact
  <2>7. QED
    BY <2>3, <2>6
<1>9. QED
  BY <1>7, <1>8 DEF AllIntact

(* What Execute does in a program that keeps to the discipline: it calls a   *)
(* living handler that waits for the event.                                  *)
LEMMA ExecuteCalls ==
  ASSUME LInv, Execute
  PROVE  /\ ~Top.stale /\ Top.at \in 1 .. Len(block[Top.path]) /\ UNCHANGED wild
         /\ Alive(block[Top.path][Top.at]) /\ Call(block[Top.path][Top.at])
         /\ block[Top.path][Top.at] \in 1 .. Len(handlers)
         /\ handlers[block[Top.path][Top.at]].path = Top.path
<1> USE DEF LInv, FInv
<1>1. /\ Top = frames[Len(frames)] /\ Top.kind = "dispatch" /\ Top.at \in Nat /\ Top.at > 0
      /\ Top.path \in Paths
  BY ExecuteFacts
<1>2. Intact(Top, handlers, block)
  BY <1>1, Stack DEF AllIntact
<1>3. ~Top.stale /\ Top.at <= Len(block[Top.path])
  BY <1>1, <1>2 DEF Intact
<1>4. Len(block[Top.path]) \in Nat
  BY <1>1 DEF Roster
<1>10. ~(Top.at > Len(block[Top.path]))
  BY <1>1, <1>3, <1>4
<1>5. /\ Top.at \in 1 .. Len(block[Top.path]) /\ UNCHANGED wild
      /\ block[Top.path][Top.at] \in 1 .. Len(handlers)
      /\ handlers[block[Top.path][Top.at]].path = Top.path
      /\ Call(block[Top.path][Top.at])
  <2>1. ~(Top.stale \/ Top.at > Len(block[Top.path]))
    BY <1>3, <1>10
  <2>2. QED
    BY <2>1, ExecuteFacts, Zenon
<1>6. Top.at \in 1 .. Top.at
  BY <1>1
<1>7. Alive(block[Top.path][Top.at])
  BY <1>2, <1>6 DEF Intact, Alive
<1>8. QED
  BY <1>3, <1>5, <1>7
(* Where Execute moves a dispatch on, only its iterator moves.               *)
LEMMA ExecuteIterates ==
  ASSUME LInv, Execute, NEW i \in 1 .. Len(frames), frames[i].kind = "dispatch"
  PROVE  \/ frames'[i] = frames[i] /\ (i # Len(frames) \/ frames' = frames)
         \/ i = Len(frames) /\ frames'[i] = [frames[i] EXCEPT !.at = @ - 1]
<1> USE DEF LInv, FInv
<1>1. PICK n \in Nat : n = Len(frames) /\ n >= 1 /\ i \in 1 .. n
  BY Stack
<1>2. Top = frames[n] /\ Top.kind = "dispatch"
  BY <1>1, ExecuteFacts
<1>3. PICK s : s = NextHandler
  OBVIOUS
<1>4. IsStack(s) /\ Len(s) = n
  BY <1>1, <1>2, <1>3, IteratorMoves
<1>5. s[i] = IF i = n THEN [frames[i] EXCEPT !.at = @ - 1] ELSE frames[i]
  BY <1>1, <1>3, Stack DEF NextHandler
<1>6. PICK h : Call(h)
  BY ExecuteCalls
<1>7. \/ frames' = frames
      \/ frames' = Append(s, Code(Top.path))
      \/ Fulfil(h)
  BY <1>3, <1>6 DEF Call
<1>8. CASE frames' = Append(s, Code(Top.path))
  <2>1. frames'[i] = s[i]
    BY <1>1, <1>4, <1>8, StackPush
  <2>2. QED
    BY <1>1, <1>5, <2>1
<1>9. CASE Fulfil(h)
  <2>1. frames'[i] = s[i]
    BY <1>1, <1>3, <1>9, Stack DEF Fulfil
  <2>2. QED
    BY <1>1, <1>5, <2>1
<1>10. QED
  BY <1>7, <1>8, <1>9

LEMMA ExecuteIntact ==
  ASSUME LInv, [Next]_vars, Execute
  PROVE  AllIntact'
<1> USE DEF LInv, FInv
<1>1. PICK n \in Nat : n = Len(frames) /\ n >= 1
  BY Stack
<1>2. /\ Top = frames[n] /\ Top.kind = "dispatch" /\ Top.at \in Nat /\ Top.path \in Paths
      /\ UNCHANGED block
  BY <1>1, ExecuteFacts
<1>3. PICK h, p : h = block[Top.path][Top.at] /\ p = Top.path
  OBVIOUS
<1>4. /\ Call(h) /\ h \in 1 .. Len(handlers) /\ handlers[h].path = p
      /\ Top.at \in 1 .. Len(block[p]) /\ p \in Paths
  BY <1>2, <1>3, ExecuteCalls
<1>5. FramesMove
  BY StepMovesFrames
<1>6. \/ handlers' = handlers
      \/ /\ handlers[h].role = "await" /\ handlers' = [handlers EXCEPT ![h].refs = 0]
         /\ Fulfil(h)
  BY <1>4 DEF Call, Fulfil, Forget
<1>7. ASSUME NEW k \in 1 .. Len(handlers), k # h
      PROVE  handlers'[k] = handlers[k]
  BY <1>6, <1>7 DEF Roster
<1>8. ASSUME NEW i \in 1 .. n, i \in 1 .. Len(frames'), frames'[i].kind = "dispatch"
      PROVE  Intact(frames'[i], handlers', block')
  <2>0. PICK f, g : f = frames[i] /\ g = frames'[i]
    OBVIOUS
  <2>1. f.kind = "dispatch"
    BY <1>1, <1>5, <1>8, <2>0, MovesOn
  <2>2. /\ Intact(f, handlers, block) /\ f.at \in Nat /\ f.path \in Paths
        /\ {"path", "targets", "at", "stale"} \subseteq DOMAIN f
    BY <1>1, <2>0, <2>1, DispatchFacts DEF AllIntact, FramesFit, Fits
  <2>3. \/ g = f /\ (i # n \/ frames' = frames)
        \/ i = n /\ g = [f EXCEPT !.at = @ - 1]
    BY <1>1, <2>0, <2>1, ExecuteIterates
  <2>4. g.path = f.path /\ g.targets = f.targets /\ g.stale = f.stale
    BY <2>2, <2>3
  <2>5. PICK a \in Nat, q \in Paths : a = f.at /\ q = f.path
    BY <2>2
  <2>6. i = n => f = Top /\ a > 0 /\ q = p
    BY <1>1, <1>2, <1>3, <1>4, <2>0, <2>5
  <2>7. g.at = a \/ (i = n /\ g.at = a - 1)
    BY <2>2, <2>3, <2>5
  <2>8. PICK b \in Nat : b = g.at /\ b <= a
    BY <2>6, <2>7
  <2>9. a <= Len(block[q]) /\ Len(block[q]) \in Nat /\ (f.stale => a = 0)
    BY <2>2, <2>5 DEF Intact, Roster
  <2>10. ASSUME NEW k \in 1 .. b
         PROVE  handlers'[block[q][k]].refs > 0
    <3>1. k \in 1 .. a /\ k \in 1 .. Len(block[q])
      BY <2>8, <2>9
    <3>2. handlers[block[q][k]].refs > 0
      BY <2>2, <2>5, <3>1 DEF Intact
    <3>3. block[q][k] \in 1 .. Len(handlers) /\ handlers[block[q][k]].path = q
      BY <3>1 DEF Roster, InOrder
    <3>4. CASE handlers' = handlers
      BY <3>2, <3>4
    <3>5. CASE q # p
      BY <1>4, <1>7, <3>2, <3>3, <3>5
    <3>6. CASE handlers' # handlers /\ q = p
      <4>1. handlers[h].role = "await" /\ Fulfil(h)
        BY <1>6, <3>6
      <4>2. ~HandlersWait(p)
        BY <1>4, <4>1 DEF AwaitsAreQuick
      <4>3. Top # Code(p)
        BY <1>2 DEF Code
      <4>4. i = n
        BY <1>1, <2>0, <2>1, <2>5, <3>6, <4>2, <4>3, Below
      <4>5. frames' # frames
        <5>1. frames'[n] = [frames[n] EXCEPT !.at = @ - 1]
          BY <1>1, <1>2, <4>1, Stack DEF Fulfil, NextHandler
        <5>2. frames'[n].at = frames[n].at - 1
          BY <2>0, <2>2, <4>4, <5>1
        <5>3. SUFFICES ASSUME frames' = frames
                       PROVE  FALSE
          OBVIOUS
        <5>4. frames[n].at = a /\ a = a - 1
          BY <2>0, <2>5, <4>4, <5>2, <5>3
        <5>5. QED
          BY <5>4
      <4>6. b = a - 1
        BY <2>2, <2>3, <2>5, <2>8, <4>4, <4>5
      <4>7. h = block[p][a] /\ a \in 1 .. Len(block[p]) /\ k \in 1 .. (a - 1)
        BY <1>2, <1>3, <1>4, <2>5, <2>6, <4>4, <4>6
      <4>8. block[p][k] < block[p][a]
        BY <1>4, <4>7 DEF Roster, InOrder
      <4>9. block[q][k] # h
        BY <1>4, <3>3, <3>6, <4>7, <4>8
      <4>10. QED
        BY <1>7, <3>2, <3>3, <4>9
    <3>7. QED
      BY <3>4, <3>5, <3>6
  <2>11. g.stale => g.at = 0
    BY <2>4, <2>8, <2>9
  <2>12. Intact(g, handlers', block')
    BY <1>2, <2>2, <2>4, <2>5, <2>8, <2>9, <2>10, <2>11, IntactOn
  <2>13. QED
    BY <2>0, <2>12
<1>9. ASSUME NEW i \in 1 .. Len(frames'), i \notin 1 .. n
      PROVE  frames'[i].kind # "dispatch"
  <2>1. Comes(frames'[i])
    BY <1>1, <1>5, <1>9 DEF FramesMove
  <2>2. ~Dequeue
    BY <1>2, DequeueIsALoops
  <2>3. QED
    BY <2>1, <2>2 DEF Comes, Loop, Until, Code
<1>10. QED
  BY <1>8, <1>9 DEF AllIntact
LEMMA IntactStep ==
  ASSUME Discipline, LInv, [Next]_vars
  PROVE  AllIntact'
<1> USE DEF LInv, FInv
<1>1. CASE Dequeue
  BY <1>1, DequeueIntact
<1>2. CASE Execute
  BY <1>2, ExecuteIntact
<1>3. CASE ~Dequeue /\ ~Execute
  <2>1. FramesMove
    BY StepMovesFrames
  <2>2. ASSUME NEW i \in 1 .. Len(frames'), i \in 1 .. Len(frames), frames'[i].kind = "dispatch"
        PROVE  Intact(frames'[i], handlers', block')
    <3>1. frames[i].kind = "dispatch"
      BY <2>1, <2>2, MovesOn
    <3>2. Calm(i)
      BY <1>3, <2>2, <3>1, CalmStep
    <3>3. PICK f : f = frames[i]
      OBVIOUS
    <3>4. Intact(f, handlers, block) /\ f.at \in Nat /\ f.path \in Paths
      BY <2>2, <3>1, <3>3, DispatchFacts DEF AllIntact
    <3>5. frames'[i] = f /\ block'[f.path] = block[f.path]
      BY <3>2, <3>3 DEF Calm
    <3>6. f.at <= Len(block[f.path]) /\ Len(block[f.path]) \in Nat /\ (f.stale => f.at = 0)
      BY <3>4 DEF Intact, Roster
    <3>7. ASSUME NEW k \in 1 .. f.at
          PROVE  handlers'[block[f.path][k]].refs > 0
      <4>1. k \in 1 .. Len(block[f.path])
        BY <3>4, <3>6
      <4>2. block[f.path][k] \in 1 .. Len(handlers) /\ handlers[block[f.path][k]].path = f.path
        BY <3>4, <4>1 DEF Roster, InOrder
      <4>3. handlers[block[f.path][k]].refs > 0
        BY <3>4 DEF Intact
      <4>4. QED
        BY <3>2, <3>3, <4>2, <4>3 DEF Calm
    <3>8. f.at <= f.at
      BY <3>4
    <3>9. Intact(f, handlers', block')
      BY <3>4, <3>5, <3>6, <3>7, <3>8, IntactOn
    <3>10. QED
      BY <3>5, <3>9
  <2>3. ASSUME NEW i \in 1 .. Len(frames'), i \notin 1 .. Len(frames)
        PROVE  frames'[i].kind # "dispatch"
    BY <1>3, <2>1, <2>3 DEF FramesMove, Comes, Loop, Until, Code
  <2>4. QED
    BY <2>2, <2>3 DEF AllIntact
<1>4. QED
  BY <1>1, <1>2, <1>3

LEMMA HarmlessStep ==
  ASSUME LInv, [Next]_vars
  PROVE  NoHarm'
<1>1. CASE Execute
  <2>1. PICK h : Call(h) /\ Alive(h) /\ UNCHANGED wild
    BY <1>1, ExecuteCalls
  <2>2. exc' # "bad_call"
    BY <2>1 DEF Call, Fulfil, LInv, NoHarm
  <2>3. QED
    BY <2>1, <2>2 DEF LInv, NoHarm
<1>2. CASE ~Execute
  <2>1. UNCHANGED wild
    BY <1>2 DEF Next, vars, Send, Bind, Await, CopyRef, DropRef, Process, Stop, Throw,
         HandlerReturns, LoopTakes, LoopEnds, AwaitTakes, AwaitReturns, Dequeue,
         DispatchEnds, DispatchThrows, HandlerThrows, Catch
  <2>2. exc' \in {exc, "user", "none"}
    BY <1>2 DEF Next, vars, Send, Bind, Await, CopyRef, DropRef, Process, Stop, Throw,
         HandlerReturns, LoopTakes, LoopEnds, AwaitTakes, AwaitReturns, Dequeue,
         DispatchEnds, DispatchThrows, HandlerThrows, Catch
  <2>3. QED
    BY <2>1, <2>2 DEF LInv, NoHarm
<1>3. QED
  BY <1>1, <1>2

LEMMA LatestInductive ==
  ASSUME Discipline, LInv, [Next]_vars
  PROVE  LInv'
<1>1. FInv'
  BY FitInductive DEF LInv
<1>2. QED
  BY <1>1, NestedStep, QuickStep, IntactStep, HarmlessStep DEF LInv

LEMMA InitLatest ==
  ASSUME Init
  PROVE  LInv
<1>1. FInv
  BY InitFits
<1>2. PICK main : main = Code(Main)
  OBVIOUS
<1>3. frames = <<main>> /\ main.kind = "code"
  BY <1>2 DEF Init, Code
<1>4. Nested /\ AllIntact
  BY <1>3 DEF Nested, AllIntact
<1>5. AwaitsAreQuick /\ NoHarm
  BY DEF Init, AwaitsAreQuick, NoHarm
<1>6. QED
  BY <1>1, <1>4, <1>5 DEF LInv

LEMMA LatestInvariance ==
  ASSUME Discipline
  PROVE  Spec => []LInv
<1>1. Init => LInv
  BY InitLatest
<1>2. LInv /\ [Next]_vars => LInv'
  BY LatestInductive
<1>3. QED
  BY <1>1, <1>2, PTL DEF Spec

(* In a program that keeps to the discipline every handler that lived when   *)
(* an event was taken meets it, the latest first, whatever is dispatched in  *)
(* between; no iterator is left behind by its block, and no closure is       *)
(* called after it was given up (context.cpp:139-186).                       *)
THEOREM LatestHandlersComeFirst ==
  ASSUME Discipline
  PROVE  Spec => []LatestFirst
<1>1. LInv => LatestFirst
  <2> SUFFICES ASSUME LInv
               PROVE  LatestFirst
    OBVIOUS
  <2>1. ASSUME NEW i \in DOMAIN frames, frames[i].kind = "dispatch", NEW f, f = frames[i]
        PROVE  /\ f.at <= Len(block[f.path])
               /\ SubSeq(block[f.path], 1, f.at) = SubSeq(f.targets, 1, f.at)
    <3>1. i \in 1 .. Len(frames)
      BY Stack DEF LInv, FInv
    <3>2. Intact(f, handlers, block) /\ f.at \in Nat /\ f.path \in Paths
      BY <2>1, <3>1, DispatchFacts DEF LInv, FInv, AllIntact
    <3>3. PICK b \in Seq(Nat), c \in Seq(Nat), a \in Nat :
            b = block[f.path] /\ c = f.targets /\ a = f.at
      BY <3>2 DEF LInv, FInv, Roster, Intact
    <3>4. a <= Len(b) /\ a <= Len(c) /\ \A k \in 1 .. a : b[k] = c[k]
      BY <3>2, <3>3 DEF Intact
    <3>5. SubSeq(b, 1, a) = SubSeq(c, 1, a)
      <4>1. SubSeq(b, 1, a) = [k \in 1 .. a |-> b[k]]
        BY <3>3, <3>4
      <4>2. SubSeq(c, 1, a) = [k \in 1 .. a |-> c[k]]
        BY <3>3, <3>4
      <4>3. [k \in 1 .. a |-> b[k]] = [k \in 1 .. a |-> c[k]]
        BY <3>4
      <4>4. QED
        BY <4>1, <4>2, <4>3
    <3>6. QED
      BY <3>3, <3>4, <3>5
  <2>2. ~wild /\ exc # "bad_call"
    BY DEF LInv, NoHarm
  <2>3. QED
    BY <2>1, <2>2 DEF LatestFirst
<1>2. QED
  BY <1>1, LatestInvariance, PTL
-------------------------------------------------------------------------------
(* What an await returns, in programs that keep to the discipline.           *)

(* Every await has a handler of its own,                                     *)
OwnHandlers ==
  \A i, j \in 1 .. Len(frames) :
    frames[i].kind = "until" /\ frames[j].kind = "until"
      /\ frames[i].handler = frames[j].handler => i = j

(* and what is dispatched above it was taken after it began.                 *)
Later ==
  \A i, j \in 1 .. Len(frames) :
    i < j /\ frames[i].kind = "until" /\ frames[j].kind = "dispatch"
      => frames[j].event > frames[i].since

(* The handler h of an await of p that began after s events lives and is     *)
(* ahead of the iterators of all later ones, and of those events nothing is  *)
(* lost,                                                                     *)
Pending(h, p, s) ==
  /\ handlers[h].refs > 0
  /\ \E j \in 1 .. Len(block[p]) : block[p][j] = h /\ Ahead(j, p, s)
  /\ \A e \in s + 1 .. taken : sent[e] = p => e \in thrown \/ OnStack(e)

(* until it has met one and is dead.                                         *)
Answered(h, p, s, g) ==
  /\ handlers[h].refs = 0
  /\ g \in s + 1 .. taken /\ sent[g] = p
  /\ \A e \in s + 1 .. g - 1 : sent[e] = p => e \in thrown

AwaitsFor(i, h, p, s, g) ==
  /\ frames[i].kind = "until" /\ frames[i].handler = h /\ handlers[h].path = p
  /\ frames[i].since = s /\ frames[i].got = g
Served(h, p, s, g) ==
  /\ s \in 0 .. taken
  /\ g = 0 => Pending(h, p, s)
  /\ g # 0 => Answered(h, p, s, g)
Awaiting ==
  \A i \in 1 .. Len(frames) : \A h, p, s, g :
    AwaitsFor(i, h, p, s, g) => Served(h, p, s, g)

AInv == LInv /\ OwnHandlers /\ Later /\ Awaiting

LEMMA AwaitFacts ==
  ASSUME FInv, NEW i \in 1 .. Len(frames), NEW h, NEW p, NEW s, NEW g,
         AwaitsFor(i, h, p, s, g)
  PROVE  /\ h \in 1 .. Len(handlers) /\ handlers[h].role = "await" /\ p \in Paths
         /\ {"handler", "got", "since"} \subseteq DOMAIN frames[i]
         /\ handlers[h] \in Handler
<1>1. Fits(frames[i], handlers, sent)
  BY DEF FInv, FramesFit
<1>2. /\ h \in 1 .. Len(handlers) /\ handlers[h].role = "await"
      /\ {"handler", "got", "since"} \subseteq DOMAIN frames[i]
  BY <1>1 DEF Fits, AwaitsFor
<1>3. handlers[h] \in Handler
  BY <1>2 DEF FInv, Roster
<1>4. QED
  BY <1>2, <1>3 DEF AwaitsFor, Handler

(* Where Execute moves an await on, it has met the event.                    *)
LEMMA ExecuteAnswers ==
  ASSUME LInv, Execute, NEW i \in 1 .. Len(frames), frames[i].kind = "until"
  PROVE  \/ /\ frames'[i] = frames[i]
            /\ handlers'[frames[i].handler] = handlers[frames[i].handler]
         \/ /\ frames[i].handler = block[Top.path][Top.at] /\ Fulfil(frames[i].handler)
            /\ frames'[i] = [frames[i] EXCEPT !.got = Top.event]
<1> USE DEF LInv, FInv
<1>1. PICK n \in Nat : n = Len(frames) /\ n >= 1 /\ i \in 1 .. n
  BY Stack
<1>2. Top = frames[n] /\ Top.kind = "dispatch" /\ i # n
  BY <1>1, ExecuteFacts
<1>3. PICK s : s = NextHandler
  OBVIOUS
<1>4. IsStack(s) /\ Len(s) = n
  BY <1>1, <1>2, <1>3, IteratorMoves
<1>5. s[i] = frames[i]
  BY <1>1, <1>2, <1>3, Stack DEF NextHandler
<1>6. PICK h : h = block[Top.path][Top.at] /\ Call(h)
  BY ExecuteCalls
<1>7. \/ frames' = frames /\ handlers' = handlers
      \/ frames' = Append(s, Code(Top.path)) /\ handlers' = handlers
      \/ Fulfil(h)
  BY <1>3, <1>6 DEF Call
<1>8. CASE Fulfil(h) /\ frames[i].handler = h
  <2>1. frames'[i] = [frames[i] EXCEPT !.got = Top.event]
    BY <1>1, <1>8, Stack DEF Fulfil
  <2>2. QED
    BY <1>6, <1>8, <2>1
<1>9. CASE Fulfil(h) /\ frames[i].handler # h
  <2>1. frames'[i] = s[i]
    BY <1>1, <1>3, <1>9, Stack DEF Fulfil
  <2>2. frames[i].handler \in 1 .. Len(handlers)
    BY DEF FramesFit, Fits
  <2>3. handlers' = [handlers EXCEPT ![h].refs = 0]
    BY <1>9 DEF Fulfil, Forget
  <2>4. handlers'[frames[i].handler] = handlers[frames[i].handler]
    BY <1>9, <2>2, <2>3 DEF Roster
  <2>5. QED
    BY <1>5, <2>1, <2>4
<1>10. CASE frames' = frames /\ handlers' = handlers
  BY <1>10
<1>11. CASE frames' = Append(s, Code(Top.path)) /\ handlers' = handlers
  <2>1. frames'[i] = s[i]
    BY <1>1, <1>4, <1>11, StackPush
  <2>2. QED
    BY <1>5, <1>11, <2>1
<1>12. QED
  BY <1>7, <1>8, <1>9, <1>10, <1>11
(* Only a dispatch that ends takes its event off the stack,                  *)
LEMMA StackLoses ==
  ASSUME FInv, [Next]_vars, NEW e \in 1 .. taken, OnStack(e), ~OnStack(e)'
  PROVE  /\ DispatchEnds \/ DispatchThrows
         /\ e = Top.event
<1> USE DEF FInv
<1>1. IInv'
  BY FitInductive
<1>2. /\ taken \in Nat /\ e \in 1 .. Len(sent) /\ freed \in Seq(Nat)
      /\ Len(freed) = Len(sent)
  BY Stack DEF IInv, Mail
<1>3. freed[e] = 0
  BY <1>2 DEF IInv, OneOwner
<1>4. taken' \in Nat /\ taken' >= taken
  <2>1. taken' = taken \/ taken' = taken + 1
    BY DEF Next, vars, Send, Bind, Await, CopyRef, DropRef, Process, Stop, Throw,
         HandlerReturns, LoopTakes, LoopEnds, AwaitTakes, AwaitReturns, Dequeue,
         Execute, DispatchEnds, DispatchThrows, HandlerThrows, Catch
  <2>2. QED
    BY <1>2, <2>1
<1>5. freed'[e] = 1
  <2>1. e \in 1 .. Len(sent')
    BY <1>2, SentGrows
  <2>2. ~(e > taken')
    BY <1>2, <1>4
  <2>3. QED
    BY <1>1, <2>1, <2>2 DEF IInv, OneOwner
<1>6. ASSUME NEW p, Send(p)
      PROVE  FALSE
  BY <1>6 DEF Send, OnStack
<1>7. CASE Dequeue
  <2>1. freed' = freed \/ freed' = [freed EXCEPT ![taken + 1] = @ + 1]
    BY <1>7 DEF Dequeue
  <2>2. freed'[e] = freed[e]
    BY <1>2, <2>1
  <2>3. QED
    BY <1>3, <1>5, <2>2
<1>8. CASE DispatchEnds \/ DispatchThrows
  <2>1. freed' = [freed EXCEPT ![Top.event] = @ + 1]
    BY <1>8 DEF DispatchEnds, DispatchThrows
  <2>2. e = Top.event
    BY <1>2, <1>3, <1>5, <2>1
  <2>3. QED
    BY <1>8, <2>2
<1>9. freed' # freed
  BY <1>3, <1>5
<1>10. QED
  BY <1>6, <1>7, <1>8, <1>9
     DEF Next, vars, Bind, Await, CopyRef, DropRef, Process, Stop, Throw,
         HandlerReturns, LoopTakes, LoopEnds, AwaitTakes, AwaitReturns,
         Execute, HandlerThrows, Catch

(* and nothing revives the handler of an await.                              *)
LEMMA DeadStays ==
  ASSUME FInv, [Next]_vars, NEW h \in 1 .. Len(handlers), handlers[h].role = "await",
         handlers[h].refs = 0
  PROVE  handlers'[h].refs = 0
<1> USE DEF FInv
<1>1. handlers \in Seq(Handler) /\ handlers[h] \in Handler
  BY DEF Roster
<1>2. CASE handlers' = handlers
  BY <1>2
<1>3. ASSUME NEW x, handlers' = Append(handlers, x)
      PROVE  handlers'[h].refs = 0
  BY <1>1, <1>3
<1>4. ASSUME NEW k, handlers' = Forget(k)
      PROVE  handlers'[h].refs = 0
  BY <1>1, <1>4 DEF Forget, Handler
<1>5. ASSUME NEW k, CopyRef(k) \/ DropRef(k)
      PROVE  handlers'[h].refs = 0
  <2>1. k # h
    BY <1>5 DEF CopyRef, DropRef
  <2>2. handlers'[h] = handlers[h]
    BY <1>1, <1>5, <2>1 DEF CopyRef, DropRef
  <2>3. QED
    BY <2>2
<1>6. \/ handlers' = handlers
      \/ \E x : handlers' = Append(handlers, x)
      \/ \E k : handlers' = Forget(k)
      \/ \E k : CopyRef(k) \/ DropRef(k)
  BY DEF Next, vars, Send, Bind, Await, AddHandler, Process, Stop, Throw,
       HandlerReturns, LoopTakes, LoopEnds, AwaitTakes, AwaitReturns, Dequeue, WithKill,
       Execute, Call, Fulfil, DispatchEnds, DispatchThrows, HandlerThrows, Catch
<1>7. QED
  BY <1>2, <1>3, <1>4, <1>5, <1>6

(* A handler dies with the function that awaits it, or when it is called.    *)
LEMMA AliveStays ==
  ASSUME LInv, OwnHandlers, [Next]_vars, NEW i \in 1 .. Len(frames), i \in 1 .. Len(frames'),
         NEW h, NEW p, NEW s, AwaitsFor(i, h, p, s, 0), frames'[i] = frames[i],
         handlers[h].refs > 0
  PROVE  handlers'[h].refs > 0
<1> USE DEF LInv, FInv
<1>1. PICK n \in Nat : n = Len(frames) /\ n >= 1 /\ i \in 1 .. n
  BY Stack
<1>2. /\ handlers \in Seq(Handler) /\ h \in 1 .. Len(handlers) /\ handlers[h].role = "await"
      /\ frames[i].kind = "until" /\ frames[i].handler = h /\ frames[i].got = 0
      /\ {"handler", "got", "since"} \subseteq DOMAIN frames[i]
  BY AwaitFacts DEF Roster, AwaitsFor
<1>3. CASE handlers' = handlers
  BY <1>3
<1>4. ASSUME NEW x, handlers' = Append(handlers, x)
      PROVE  handlers'[h].refs > 0
  BY <1>2, <1>4
<1>5. ASSUME NEW k, k # h, handlers' = Forget(k)
      PROVE  handlers'[h].refs > 0
  <2>1. handlers'[h] = handlers[h]
    BY <1>2, <1>5 DEF Forget
  <2>2. QED
    BY <2>1
<1>6. ASSUME NEW k, CopyRef(k) \/ DropRef(k)
      PROVE  handlers'[h].refs > 0
  <2>1. k # h
    BY <1>2, <1>6 DEF CopyRef, DropRef
  <2>2. handlers'[h] = handlers[h]
    BY <1>2, <1>6, <2>1 DEF CopyRef, DropRef
  <2>3. QED
    BY <2>2
<1>7. /\ IsStack(Return) /\ Len(Return) = n - 1
  BY <1>1, Stack, StackFront DEF Return
<1>8. ASSUME NEW j \in 1 .. n, j # i, frames[j].kind = "until",
             handlers' = Forget(frames[j].handler)
      PROVE  handlers'[h].refs > 0
  BY <1>1, <1>2, <1>5, <1>8 DEF OwnHandlers
<1>9. CASE AwaitReturns
  <2>1. frames[n].kind = "until" /\ handlers' = Forget(frames[n].handler) /\ frames' = Return
    BY <1>1, <1>9 DEF AwaitReturns, Runs, Top
  <2>2. i # n
    BY <1>7, <2>1
  <2>3. QED
    BY <1>1, <1>8, <2>1, <2>2
<1>10. CASE DispatchThrows
  <2>1. frames' = Front(Return) /\ Top.kind = "dispatch" /\ frames[n].kind = "dispatch"
    BY <1>1, <1>10 DEF DispatchThrows, Unwinds, Top
  <2>2. n > 1
    BY <1>1, <2>1 DEF IInv, OnItsLoop
  <2>3. Len(frames') = n - 2
    BY <1>7, <2>1, <2>2, StackFront
  <2>4. PICK j \in 1 .. n : j = n - 1
    BY <1>1, <2>2
  <2>5. j # i
    BY <1>1, <2>3, <2>4
  <2>6. handlers' = handlers \/ (frames[j].kind = "until" /\ handlers' = Forget(frames[j].handler))
    BY <1>1, <1>10, <2>4 DEF DispatchThrows
  <2>7. QED
    BY <1>3, <1>8, <2>5, <2>6
<1>11. CASE Execute
  <2>1. CASE handlers'[h] = handlers[h]
    BY <2>1
  <2>2. CASE frames'[i] = [frames[i] EXCEPT !.got = Top.event]
    <3>0. Top = frames[n] /\ Top.kind = "dispatch" /\ n \in 1 .. Len(frames)
      BY <1>1, <1>11, ExecuteFacts
    <3>1. Top.event \in 1 .. taken
      BY <3>0 DEF IInv, OnItsLoop
    <3>2. frames'[i].got = Top.event
      BY <1>2, <2>2
    <3>3. Top.event = 0
      BY <1>2, <3>2
    <3>4. QED
      BY <3>1, <3>3
  <2>3. QED
    BY <1>2, <1>11, <2>1, <2>2, ExecuteAnswers
<1>12. \/ handlers' = handlers
       \/ \E x : handlers' = Append(handlers, x)
       \/ \E k : CopyRef(k) \/ DropRef(k)
       \/ AwaitReturns \/ DispatchThrows \/ Execute
  BY DEF Next, vars, Send, Bind, Await, AddHandler, Process, Stop, Throw,
       HandlerReturns, LoopTakes, LoopEnds, AwaitTakes, Dequeue, WithKill,
       DispatchEnds, HandlerThrows, Catch
<1>13. QED
  BY <1>3, <1>4, <1>6, <1>9, <1>10, <1>11, <1>12
(* An await that goes on.                                                    *)
LEMMA AwaitGoesOn ==
  ASSUME AInv, [Next]_vars, ~Dequeue, NEW i \in 1 .. Len(frames), i \in 1 .. Len(frames'),
         frames'[i] = frames[i], NEW h, NEW p, NEW s, NEW g, AwaitsFor(i, h, p, s, g)
  PROVE  Served(h, p, s, g)'
<1> USE DEF AInv, LInv, FInv
<1>1. Served(h, p, s, g)
  BY DEF Awaiting
<1>2. h \in 1 .. Len(handlers) /\ handlers[h].role = "await" /\ p \in Paths
  BY AwaitFacts
<1>3. taken' = taken /\ taken \in Nat /\ thrown \subseteq thrown'
  <2>1. taken' = taken /\ thrown \subseteq thrown'
    BY DEF Next, vars, Send, Bind, Await, CopyRef, DropRef, Process, Stop, Throw,
         HandlerReturns, LoopTakes, LoopEnds, AwaitTakes, AwaitReturns,
         Execute, DispatchEnds, DispatchThrows, HandlerThrows, Catch
  <2>2. QED
    BY <2>1, Stack
<1>4. ASSUME NEW e \in 1 .. taken
      PROVE  e \in 1 .. Len(sent) /\ sent'[e] = sent[e]
  BY Stack, SentGrows
<1>5. s \in 0 .. taken
  BY <1>1 DEF Served
<1>6. ASSUME g = 0
      PROVE  Pending(h, p, s)'
  <2>1. Pending(h, p, s)
    BY <1>1, <1>6 DEF Served
  <2>2. handlers[h].refs > 0
    BY <2>1 DEF Pending
  <2>3. handlers'[h].refs > 0
    BY <1>6, <2>2, AliveStays
  <2>4. PICK j \in 1 .. Len(block[p]) : block[p][j] = h /\ Ahead(j, p, s)
    BY <2>1 DEF Pending
  <2>5. j \in 1 .. Len(block'[p]) /\ block'[p][j] = h /\ j \in Nat
    BY <1>2, <2>4, BlocksGrow
  <2>6. ASSUME Execute, frames' # frames, Top.path = p, Top.event > s
        PROVE  j <= Top.at - 1
    <3>1. Top = frames[Len(frames)] /\ Top.kind = "dispatch" /\ Top.at \in Nat
      BY <2>6, ExecuteFacts
    <3>2. Len(frames) \in 1 .. Len(frames)
      BY Stack
    <3>3. j <= Top.at
      BY <2>4, <2>6, <3>1, <3>2 DEF Ahead
    <3>4. ASSUME j = Top.at
          PROVE  FALSE
      <4>1. Call(h) /\ Alive(h)
        BY <2>4, <2>6, <3>4, ExecuteCalls
      <4>2. Fulfil(h)
        BY <1>2, <4>1 DEF Call
      <4>3. handlers' = [handlers EXCEPT ![h].refs = 0]
        BY <4>2 DEF Fulfil, Forget
      <4>4. handlers'[h].refs = 0
        BY <1>2, <4>3, AwaitFacts DEF Roster, Handler
      <4>5. QED
        BY <2>3, <4>4
    <3>5. QED
      BY <2>5, <3>1, <3>3, <3>4
  <2>7. Ahead(j, p, s)'
    BY <2>4, <2>5, <2>6, StepMovesFrames, AheadStays
  <2>8. ASSUME NEW e \in s + 1 .. taken, sent'[e] = p
        PROVE  e \in thrown' \/ OnStack(e)'
    <3>1. e \in 1 .. taken /\ e > s
      BY <1>3, <1>5
    <3>2. e \in thrown \/ OnStack(e)
      BY <1>4, <2>1, <2>8, <3>1 DEF Pending
    <3>3. CASE e \in thrown
      BY <1>3, <3>3
    <3>4. CASE OnStack(e) /\ ~OnStack(e)'
      <4>1. (DispatchEnds \/ DispatchThrows) /\ e = Top.event
        BY <3>1, <3>4, StackLoses
      <4>2. CASE DispatchThrows
        BY <4>1, <4>2 DEF DispatchThrows
      <4>3. CASE DispatchEnds
        <5>1. /\ Top.at = 0 /\ Top = frames[Len(frames)] /\ Top.kind = "dispatch"
              /\ Len(frames) \in 1 .. Len(frames)
          BY <4>3, Stack DEF DispatchEnds, Runs, Top
        <5>2. Top.path = p
          BY <1>4, <2>8, <3>1, <4>1, <5>1, DispatchFacts
        <5>3. j <= 0
          BY <2>4, <3>1, <4>1, <5>1, <5>2 DEF Ahead
        <5>4. QED
          BY <2>4, <5>3
      <4>4. QED
        BY <4>1, <4>2, <4>3
    <3>5. QED
      BY <3>2, <3>3, <3>4
  <2>9. QED
    BY <1>3, <2>3, <2>5, <2>7, <2>8 DEF Pending
<1>7. ASSUME g # 0
      PROVE  Answered(h, p, s, g)'
  <2>1. Answered(h, p, s, g)
    BY <1>1, <1>7 DEF Served
  <2>2. handlers'[h].refs = 0
    BY <1>2, <2>1, DeadStays DEF Answered
  <2>3. g \in s + 1 .. taken /\ g \in 1 .. taken
    BY <1>3, <1>5, <2>1 DEF Answered
  <2>4. sent'[g] = p
    BY <1>4, <2>1, <2>3 DEF Answered
  <2>5. \A e \in s + 1 .. g - 1 : e \in 1 .. taken
    BY <1>3, <1>5, <2>3
  <2>6. \A e \in s + 1 .. g - 1 : sent'[e] = p => e \in thrown'
    BY <1>3, <1>4, <2>1, <2>5 DEF Answered
  <2>7. QED
    BY <1>3, <2>2, <2>3, <2>4, <2>6 DEF Answered
<1>8. QED
  BY <1>3, <1>5, <1>6, <1>7 DEF Served

(* An await while the next event is taken.                                   *)
LEMMA AwaitMeets ==
  ASSUME AInv, [Next]_vars, Dequeue, NEW i \in 1 .. Len(frames),
         NEW h, NEW p, NEW s, NEW g, AwaitsFor(i, h, p, s, g)
  PROVE  Served(h, p, s, g)'
<1> USE DEF AInv, LInv, FInv
<1>1. Served(h, p, s, g)
  BY DEF Awaiting
<1>2. h \in 1 .. Len(handlers) /\ handlers[h].role = "await" /\ p \in Paths
  BY AwaitFacts
<1>3. PICK d, q, bs, c : TakesOne(d, q, bs, c)
  BY DequeueFacts
<1>4. /\ taken' = d /\ d = taken + 1 /\ sent' = sent /\ taken \in Nat /\ q = sent[d]
      /\ thrown' = thrown
  BY <1>3, Stack DEF TakesOne, Dequeue
<1>5. s \in 0 .. taken
  BY <1>1 DEF Served
<1>6. \A k \in 1 .. Len(block[p]) : k \in 1 .. Len(bs[p]) /\ bs[p][k] = block[p][k]
  <2>1. CASE bs = block
    BY <2>1
  <2>2. CASE Added(handlers, block, Kill, "kill", handlers', bs)
    <3>1. Kill \in Paths /\ "kill" \in Roles
      BY PathsAssumption DEF Roles
    <3>2. PICK gs : gs = handlers'
      OBVIOUS
    <3>3. Extends(handlers, block, Kill, "kill", gs, bs)
      BY <2>2, <3>1, <3>2, RosterAdd
    <3>4. QED
      BY SMTT(30), <1>2, <3>3 DEF Extends
  <2>3. QED
    BY <1>3, <2>1, <2>2 DEF TakesOne
<1>7. handlers'[h] = handlers[h]
  <2>1. CASE handlers' = handlers
    BY <2>1
  <2>2. CASE Added(handlers, block, Kill, "kill", handlers', bs)
    <3>1. handlers \in Seq(Handler)
      BY DEF Roster
    <3>2. QED
      BY <1>2, <2>2, <3>1 DEF Added
  <2>3. QED
    BY <1>3, <2>1, <2>2 DEF TakesOne
<1>8. ASSUME g = 0
      PROVE  Pending(h, p, s)'
  <2>1. Pending(h, p, s) /\ handlers[h].refs > 0
    BY <1>1, <1>8 DEF Served, Pending
  <2>2. PICK j \in 1 .. Len(block[p]) : block[p][j] = h /\ Ahead(j, p, s)
    BY <2>1 DEF Pending
  <2>3. j \in 1 .. Len(bs[p]) /\ bs[p][j] = h /\ s \in Nat
    BY <1>5, <1>6, <2>2
  <2>4. handlers'[bs[p][j]].refs > 0
    BY <1>7, <2>1, <2>3
  <2>5. PICK k \in 1 .. Len(block'[p]) :
          /\ block'[p][k] = bs[p][j] /\ Ahead(k, p, s)'
          /\ p = q => OnStack(d)'
    BY <1>2, <1>3, <2>2, <2>3, <2>4, SiftWaits
  <2>6. ASSUME NEW e \in s + 1 .. d, sent[e] = p
        PROVE  e \in thrown \/ OnStack(e)'
    <3>1. CASE e = d
      BY <1>4, <2>5, <2>6, <3>1
    <3>2. CASE e # d
      <4>1. e \in s + 1 .. taken /\ e \in 1 .. taken
        BY <1>4, <1>5, <3>2
      <4>2. e \in thrown \/ OnStack(e)
        BY <2>1, <2>6, <4>1 DEF Pending
      <4>3. ~(DispatchEnds \/ DispatchThrows)
        BY <1>4 DEF DispatchEnds, DispatchThrows
      <4>4. QED
        BY <4>1, <4>2, <4>3, StackLoses
    <3>3. QED
      BY <3>1, <3>2
  <2>7. QED
    BY <1>4, <1>7, <2>1, <2>3, <2>5, <2>6 DEF Pending
<1>9. ASSUME g # 0
      PROVE  Answered(h, p, s, g)'
  <2>1. Answered(h, p, s, g)
    BY <1>1, <1>9 DEF Served
  <2>2. g \in s + 1 .. taken'
    BY <1>4, <1>5, <2>1 DEF Answered
  <2>3. QED
    BY <1>4, <1>7, <2>1, <2>2 DEF Answered
<1>10. s \in 0 .. taken'
  BY <1>4, <1>5
<1>11. QED
  BY <1>8, <1>9, <1>10 DEF Served
(* An await whose handler is called.                                         *)
LEMMA AwaitIsAnswered ==
  ASSUME AInv, [Next]_vars, Execute, NEW i \in 1 .. Len(frames), NEW h, NEW p, NEW s,
         NEW g, AwaitsFor(i, h, p, s, g), Fulfil(h), h = block[Top.path][Top.at],
         NEW e, e = Top.event
  PROVE  Served(h, p, s, e)'
<1> USE DEF AInv, LInv, FInv
<1>1. Served(h, p, s, g)
  BY DEF Awaiting
<1>2. /\ h \in 1 .. Len(handlers) /\ handlers[h].role = "await" /\ p \in Paths
      /\ handlers[h] \in Handler /\ handlers \in Seq(Handler)
      /\ frames[i].kind = "until" /\ frames[i].since = s /\ handlers[h].path = p
  BY AwaitFacts DEF AwaitsFor, Roster
<1>3. PICK n \in Nat : n = Len(frames) /\ n >= 1 /\ i \in 1 .. n
  BY Stack
<1>4. /\ Top = frames[n] /\ Top.kind = "dispatch" /\ UNCHANGED <<sent, taken, thrown>>
      /\ handlers[h].refs > 0 /\ Top.path = p
  BY <1>2, <1>3, ExecuteFacts, ExecuteCalls DEF Alive
<1>5. /\ e \in 1 .. taken /\ taken \in Nat /\ sent[e] = p /\ frames[n].event = e
  BY <1>3, <1>4, Stack, DispatchFacts
<1>6. e > s
  <2>1. i < n
    BY <1>2, <1>3, <1>4
  <2>2. QED
    BY <1>2, <1>3, <1>4, <2>1 DEF Later
<1>7. handlers'[h].refs = 0
  <2>1. handlers' = [handlers EXCEPT ![h].refs = 0]
    BY DEF Fulfil, Forget
  <2>2. QED
    BY <1>2, <2>1 DEF Handler
<1>8. g = 0 /\ s \in 0 .. taken
  <2>1. handlers[h].refs # 0
    BY <1>4
  <2>2. QED
    BY <1>1, <2>1 DEF Served, Answered
<1>9. ASSUME NEW d \in s + 1 .. e - 1, sent[d] = p
      PROVE  d \in thrown
  <2>1. d \in s + 1 .. taken /\ d # e
    BY <1>5, <1>8
  <2>2. d \in thrown \/ OnStack(d)
    BY <1>1, <1>8, <1>9, <2>1 DEF Served, Pending
  <2>3. ASSUME NEW k \in 1 .. n, Dispatches(frames, k, d)
        PROVE  FALSE
    <3>1. frames[k].kind = "dispatch" /\ frames[k].event = d /\ frames[k].path = p
      BY <1>3, <1>9, <2>3, DispatchFacts DEF Dispatches
    <3>2. k # n
      BY <1>5, <2>1, <3>1
    <3>3. ~HandlersWait(p)
      BY <1>2 DEF AwaitsAreQuick
    <3>4. Top # Code(p)
      BY <1>4 DEF Code
    <3>5. QED
      BY <1>3, <3>1, <3>2, <3>3, <3>4, Below
  <2>4. QED
    BY <1>3, <2>2, <2>3 DEF OnStack
<1>10. Answered(h, p, s, e)'
  <2>1. e \in s + 1 .. taken
    BY <1>5, <1>6, <1>8
  <2>2. QED
    BY <1>4, <1>5, <1>7, <1>9, <2>1 DEF Answered
<1>11. QED
  BY <1>4, <1>5, <1>8, <1>10 DEF Served

(* An await that begins.                                                     *)
LEMMA AwaitBegins ==
  ASSUME FInv, NEW q \in Paths, Await(q), NEW i, frames'[i] = Until(Len(handlers) + 1),
         i = Len(frames) + 1, NEW h, NEW p, NEW s, NEW g, AwaitsFor(i, h, p, s, g)'
  PROVE  Served(h, p, s, g)' /\ h = Len(handlers) + 1 /\ s = taken
<1> USE DEF FInv
<1>1. PICK f : f = Until(Len(handlers) + 1)
  OBVIOUS
<1>2. f.handler = Len(handlers) + 1 /\ f.got = 0 /\ f.since = taken
  BY <1>1 DEF Until
<1>3. h = Len(handlers) + 1 /\ g = 0 /\ s = taken /\ handlers'[h].path = p
  BY <1>1, <1>2 DEF AwaitsFor
<1>4. UNCHANGED <<sent, taken, thrown>> /\ taken \in Nat
  BY Stack DEF Await
<1>5. Extends(handlers, block, q, "await", handlers', block')
  BY AddKeeps DEF Await, Roles
<1>6. PICK hs, bs : hs = handlers' /\ bs = block'
  OBVIOUS
<1>7. /\ hs[h] = [path |-> q, role |-> "await", refs |-> 1]
      /\ Len(bs[q]) = Len(block[q]) + 1 /\ bs[q][Len(block[q]) + 1] = h
      /\ Len(block[q]) \in Nat
  BY <1>3, <1>5, <1>6 DEF Extends
<1>8. p = q /\ handlers'[h].refs > 0
  BY <1>3, <1>6, <1>7
<1>9. PICK j : j = Len(block[q]) + 1
  OBVIOUS
<1>10. j \in 1 .. Len(block'[p]) /\ block'[p][j] = h
  BY <1>6, <1>7, <1>8, <1>9
<1>11. Ahead(j, p, s)'
  <2>1. FramesMove
    BY AwaitMoves
  <2>2. SUFFICES ASSUME NEW k \in 1 .. Len(frames'), frames'[k].kind = "dispatch",
                        frames'[k].event > s
                 PROVE  FALSE
    BY DEF Ahead
  <2>3. CASE k \in 1 .. Len(frames)
    <3>1. frames[k].kind = "dispatch" /\ frames'[k].event = frames[k].event
      BY <2>1, <2>2, <2>3, MovesOn
    <3>2. frames[k].event \in 1 .. taken
      BY <2>3, <3>1 DEF IInv, OnItsLoop
    <3>3. QED
      BY <1>3, <1>4, <2>2, <3>1, <3>2
  <2>4. CASE k \notin 1 .. Len(frames)
    <3>1. k = i
      BY <2>1, <2>2, <2>4 DEF FramesMove
    <3>2. f.kind = "until"
      BY <1>1 DEF Until
    <3>3. QED
      BY <1>1, <2>2, <3>1, <3>2
  <2>5. QED
    BY <2>3, <2>4
<1>12. s + 1 .. taken' = {}
  BY <1>3, <1>4
<1>13. Pending(h, p, s)'
  BY <1>8, <1>10, <1>11, <1>12 DEF Pending
<1>14. QED
  BY <1>3, <1>4, <1>13 DEF Served

(* A frame of an await is one that was there or the one that begins.         *)
LEMMA UntilFrames ==
  ASSUME FInv, [Next]_vars, NEW i \in 1 .. Len(frames'), frames'[i].kind = "until"
  PROVE  \/ /\ i \in 1 .. Len(frames) /\ frames[i].kind = "until"
            /\ frames'[i].handler = frames[i].handler /\ frames'[i].since = frames[i].since
            /\ frames[i].handler \in 1 .. Len(handlers)
         \/ /\ i = Len(frames) + 1 /\ frames'[i] = Until(Len(handlers) + 1)
            /\ \E p \in Paths : Await(p)
            /\ frames'[i].handler = Len(handlers) + 1
<1> USE DEF FInv
<1>1. FramesMove
  BY StepMovesFrames
<1>2. CASE i \in 1 .. Len(frames)
  <2>1. frames[i].kind = "until" /\ frames'[i].handler = frames[i].handler
          /\ frames'[i].since = frames[i].since
    BY <1>1, <1>2, MovesOn
  <2>2. frames[i].handler \in 1 .. Len(handlers)
    BY <1>2, <2>1 DEF FramesFit, Fits
  <2>3. QED
    BY <1>2, <2>1, <2>2
<1>3. CASE i \notin 1 .. Len(frames)
  <2>1. i = Len(frames) + 1 /\ Comes(frames'[i])
    BY <1>1, <1>3 DEF FramesMove
  <2>2. \E p \in Paths : Await(p) /\ frames'[i] = Until(Len(handlers) + 1)
    BY <2>1 DEF Comes, Loop, Code, Iterate
  <2>3. Until(Len(handlers) + 1).handler = Len(handlers) + 1
    BY DEF Until
  <2>4. QED
    BY <2>1, <2>2, <2>3
<1>4. QED
  BY <1>2, <1>3

LEMMA OwnHandlersStep ==
  ASSUME FInv, OwnHandlers, [Next]_vars
  PROVE  OwnHandlers'
<1> SUFFICES ASSUME NEW i \in 1 .. Len(frames'), NEW j \in 1 .. Len(frames'),
                    frames'[i].kind = "until", frames'[j].kind = "until",
                    frames'[i].handler = frames'[j].handler
             PROVE  i = j
  BY DEF OwnHandlers
<1>1. Len(handlers) + 1 \notin 1 .. Len(handlers) /\ Len(frames) \in Nat
  BY Stack DEF FInv, Roster
<1>2. QED
  BY <1>1, UntilFrames DEF OwnHandlers

LEMMA LaterStep ==
  ASSUME AInv, [Next]_vars
  PROVE  Later'
<1> USE DEF AInv, LInv, FInv
<1> SUFFICES ASSUME NEW i \in 1 .. Len(frames'), NEW j \in 1 .. Len(frames'), i < j,
                    frames'[i].kind = "until", frames'[j].kind = "dispatch"
             PROVE  frames'[j].event > frames'[i].since
  BY DEF Later
<1>1. FramesMove /\ Len(frames) \in Nat
  BY Stack, StepMovesFrames
<1>2. i \in 1 .. Len(frames)
  BY <1>1 DEF FramesMove
<1>3. frames[i].kind = "until" /\ frames'[i].since = frames[i].since
  BY <1>1, <1>2, MovesOn
<1>4. CASE j \in 1 .. Len(frames)
  <2>1. frames[j].kind = "dispatch" /\ frames'[j].event = frames[j].event
    BY <1>1, <1>4, MovesOn
  <2>2. QED
    BY <1>2, <1>3, <1>4, <2>1 DEF Later
<1>5. CASE j \notin 1 .. Len(frames)
  <2>1. Comes(frames'[j])
    BY <1>1, <1>5 DEF FramesMove
  <2>2. frames'[j] = Iterate(taken + 1, sent[taken + 1], block'[sent[taken + 1]])
    BY <2>1 DEF Comes, Loop, Code, Until
  <2>3. frames'[j].event = taken + 1
    BY <2>2 DEF Iterate
  <2>4. frames[i].since \in 0 .. taken
    <3>1. \A h, p, s, g : AwaitsFor(i, h, p, s, g) => Served(h, p, s, g)
      BY <1>2 DEF Awaiting
    <3>2. PICK h, p, s, g : /\ h = frames[i].handler /\ p = handlers[h].path
                            /\ s = frames[i].since /\ g = frames[i].got
      OBVIOUS
    <3>3. AwaitsFor(i, h, p, s, g)
      BY <1>3, <3>2 DEF AwaitsFor
    <3>4. QED
      BY <3>1, <3>2, <3>3 DEF Served
  <2>5. QED
    BY <1>3, <2>3, <2>4, Stack
<1>6. QED
  BY <1>4, <1>5
LEMMA AwaitingStep ==
  ASSUME AInv, [Next]_vars
  PROVE  Awaiting'
<1> USE DEF AInv, LInv, FInv
<1> SUFFICES ASSUME NEW i \in 1 .. Len(frames'), NEW h, NEW p, NEW s, NEW g,
                    AwaitsFor(i, h, p, s, g)'
             PROVE  Served(h, p, s, g)'
  BY DEF Awaiting
<1>1. frames'[i].kind = "until"
  BY DEF AwaitsFor
<1>2. ASSUME NEW q \in Paths, Await(q), i = Len(frames) + 1,
             frames'[i] = Until(Len(handlers) + 1)
      PROVE  Served(h, p, s, g)'
  BY <1>2, AwaitBegins
<1>3. CASE i \in 1 .. Len(frames)
  <2>1. FramesMove
    BY StepMovesFrames
  <2>2. /\ frames[i].kind = "until" /\ frames[i].handler = h /\ frames[i].since = s
        /\ h \in 1 .. Len(handlers)
    <3>1. /\ frames[i].kind = "until" /\ frames'[i].handler = frames[i].handler
          /\ frames'[i].since = frames[i].since
      BY <1>1, <1>3, <2>1, MovesOn
    <3>2. frames[i].handler \in 1 .. Len(handlers)
      BY <1>3, <3>1 DEF FramesFit, Fits
    <3>3. QED
      BY <3>1, <3>2 DEF AwaitsFor
  <2>3. handlers[h].path = p
    <3>1. Keeps(handlers, handlers')
      BY RosterStep
    <3>2. QED
      BY <2>2, <3>1 DEF Keeps, AwaitsFor
  <2>4. PICK o : o = frames[i].got
    OBVIOUS
  <2>5. AwaitsFor(i, h, p, s, o)
    BY <2>2, <2>3, <2>4 DEF AwaitsFor
  <2>6. CASE frames'[i] = frames[i]
    <3>1. g = o
      BY <2>4, <2>6 DEF AwaitsFor
    <3>2. CASE Dequeue
      BY <1>3, <2>5, <3>1, <3>2, AwaitMeets
    <3>3. CASE ~Dequeue
      BY <1>3, <2>5, <2>6, <3>1, <3>3, AwaitGoesOn
    <3>4. QED
      BY <3>2, <3>3
  <2>7. CASE frames'[i] # frames[i]
    <3>1. Execute
      <4>1. Len(frames) \in Nat /\ i # Len(frames) + 1
        BY <1>3, Stack
      <4>2. Advances(frames[i], frames'[i]) \/ Iterates(i)
        BY <2>1, <4>1 DEF FramesMove
      <4>3. QED
        BY <2>2, <2>7, <4>2 DEF Advances, Iterates
    <3>2. /\ h = block[Top.path][Top.at] /\ Fulfil(h)
          /\ frames'[i] = [frames[i] EXCEPT !.got = Top.event]
      BY <1>3, <2>2, <2>7, <3>1, ExecuteAnswers
    <3>3. g = Top.event
      <4>1. {"handler", "got", "since"} \subseteq DOMAIN frames[i]
        BY <1>3, <2>5, AwaitFacts
      <4>2. frames'[i].got = Top.event
        BY <3>2, <4>1
      <4>3. QED
        BY <4>2 DEF AwaitsFor
    <3>4. QED
      BY <1>3, <2>5, <3>1, <3>2, <3>3, AwaitIsAnswered
  <2>8. QED
    BY <2>6, <2>7
<1>4. QED
  BY <1>1, <1>2, <1>3, UntilFrames

LEMMA AwaitInvariance ==
  ASSUME Discipline
  PROVE  Spec => []AInv
<1>1. Init => AInv
  <2> SUFFICES ASSUME Init
               PROVE  AInv
    OBVIOUS
  <2>1. LInv
    BY InitLatest
  <2>2. PICK main : main = Code(Main)
    OBVIOUS
  <2>3. frames = <<main>> /\ main.kind = "code"
    BY <2>2 DEF Init, Code
  <2>4. OwnHandlers /\ Later /\ Awaiting
    BY <2>3 DEF OwnHandlers, Later, Awaiting, AwaitsFor
  <2>5. QED
    BY <2>1, <2>4 DEF AInv
<1>2. AInv /\ [Next]_vars => AInv'
  <2> SUFFICES ASSUME AInv, [Next]_vars
               PROVE  AInv'
    OBVIOUS
  <2>1. LInv'
    BY LatestInductive DEF AInv
  <2>2. OwnHandlers'
    BY OwnHandlersStep DEF AInv, LInv
  <2>3. Later' /\ Awaiting'
    BY LaterStep, AwaitingStep
  <2>4. QED
    BY <2>1, <2>2, <2>3 DEF AInv
<1>3. QED
  BY <1>1, <1>2, PTL DEF Spec

(* In a program that keeps to the discipline an await returns the first      *)
(* event of its path that is taken after it began, whatever loop takes it,   *)
(* but for those at which a handler threw, and none of them is lost          *)
(* (event-inl.hpp:16-23, context.cpp:77-93).                                 *)
THEOREM AwaitsTakeTheNext ==
  ASSUME Discipline
  PROVE  Spec => []AwaitTakesNext
<1>1. AInv => AwaitTakesNext
  <2> SUFFICES ASSUME AInv, NEW i \in DOMAIN frames, frames[i].kind = "until",
                      NEW f, f = frames[i], NEW p, p = handlers[f.handler].path,
                      NEW over, over = {frames[j].event : j \in {j \in DOMAIN frames :
                                          frames[j].kind = "dispatch"}}
               PROVE  /\ f.got # 0 => f.got > f.since /\ sent[f.got] = p
                      /\ \A e \in (f.since + 1) .. taken :
                           sent[e] = p /\ (f.got = 0 \/ e < f.got)
                             => e \in thrown \union over
    BY ZenonT(40) DEF AwaitTakesNext
  <2>1. IInv
    BY DEF AInv, LInv, FInv
  <2>2. DOMAIN frames = 1 .. Len(frames) /\ taken \in Nat
    BY <2>1, Stack
  <2>3. PICK h, s, g : h = f.handler /\ s = f.since /\ g = f.got
    OBVIOUS
  <2>4. AwaitsFor(i, h, p, s, g)
    BY <2>3 DEF AwaitsFor
  <2>5. Served(h, p, s, g)
    BY <2>2, <2>4 DEF AInv, Awaiting
  <2>6. s \in Nat
    BY <2>5 DEF Served
  <2>7. g # 0 => g > s /\ sent[g] = p
    BY <2>2, <2>5, <2>6 DEF Served, Answered
  <2>8. ASSUME NEW e, OnStack(e)
        PROVE  e \in over
    BY <2>2, <2>8 DEF OnStack, Dispatches
  <2>9. ASSUME NEW e \in s + 1 .. taken, sent[e] = p, g = 0 \/ e < g
        PROVE  e \in thrown \union over
    <3>1. CASE g = 0
      <4>1. e \in thrown \/ OnStack(e)
        BY <2>5, <2>9, <3>1 DEF Served, Pending
      <4>2. QED
        BY <2>8, <4>1
    <3>2. CASE g # 0
      <4>1. e \in s + 1 .. g - 1
        BY <2>2, <2>5, <2>6, <2>9, <3>2 DEF Served, Answered
      <4>2. QED
        BY <2>5, <2>9, <3>2, <4>1 DEF Served, Answered
    <3>3. QED
      BY <2>9, <3>1, <3>2
  <2>10. QED
    BY <2>3, <2>7, <2>9
<1>2. QED
  BY <1>1, AwaitInvariance, PTL
===============================================================================
