------------------------------- MODULE Parking -------------------------------
(***************************************************************************)
(* What a fiberize scheduler promises to the code that suspends tasks on   *)
(* it (Mutex, Condition, processUntil, the IO environments), whatever the  *)
(* number of worker threads and wherever a task migrates.                  *)
(*                                                                         *)
(* Every task carries a permit.  A resume (a send, a signal, an IO         *)
(* completion) gives the permit; the task itself gives it back only while  *)
(* it is awake and after its mailbox was seen empty; it may fall asleep at *)
(* any time, wakes up exactly when it holds the permit, and is never put   *)
(* to sleep or woken by anything else.                                     *)
(***************************************************************************)
EXTENDS Naturals

CONSTANT Tasks

VARIABLES
  phase,    \* "new", "awake", "asleep" or "dead"
  permit,   \* a resume arrived since the task last emptied its mailbox
  mail,     \* number of events in the mailbox
  quit      \* the task was asked to stop: its mail is not processed any more

vars == <<phase, permit, mail, quit>>

Phases == {"new", "awake", "asleep", "dead"}

TypeOK ==
  /\ phase \in [Tasks -> Phases]
  /\ permit \in [Tasks -> BOOLEAN]
  /\ mail \in [Tasks -> Nat]
  /\ quit \in [Tasks -> BOOLEAN]

Init ==
  /\ phase \in [Tasks -> {"new", "awake"}]
  /\ permit = [t \in Tasks |-> FALSE]
  /\ mail = [t \in Tasks |-> 0]
  /\ quit = [t \in Tasks |-> FALSE]

(* A resume with or without an event.  The first one starts the task.      *)
Poke(t) ==
  /\ permit' = [permit EXCEPT ![t] = TRUE]
  /\ phase' = [phase EXCEPT ![t] = IF @ = "new" THEN "asleep" ELSE @]
  /\ UNCHANGED <<mail, quit>>

Post(t) ==
  /\ phase[t] # "new"
  /\ permit' = [permit EXCEPT ![t] = TRUE]
  /\ mail' = [mail EXCEPT ![t] = @ + 1]
  /\ UNCHANGED <<phase, quit>>

(* The task takes one event out of its mailbox.                            *)
Take(t) ==
  /\ phase[t] = "awake"
  /\ mail[t] > 0
  /\ mail' = [mail EXCEPT ![t] = @ - 1]
  /\ UNCHANGED <<phase, permit, quit>>

Drained(t) == mail[t] = 0 \/ quit[t]

(* The mailbox is empty: the task will sleep until the next resume.        *)
GiveBack(t) ==
  /\ phase[t] = "awake"
  /\ Drained(t)
  /\ permit' = [permit EXCEPT ![t] = FALSE]
  /\ phase' \in {phase, [phase EXCEPT ![t] = "asleep"]}
  /\ UNCHANGED <<mail, quit>>

(* Falling asleep with the permit in hand is allowed (it is how yield is   *)
(* done): Wake is then enabled at once.                                    *)
Sleep(t) ==
  /\ phase[t] = "awake"
  /\ permit[t] \/ Drained(t)
  /\ phase' = [phase EXCEPT ![t] = "asleep"]
  /\ UNCHANGED <<permit, mail, quit>>

Wake(t) ==
  /\ phase[t] = "asleep"
  /\ permit[t]
  /\ phase' = [phase EXCEPT ![t] = "awake"]
  /\ UNCHANGED <<permit, mail, quit>>

Quit(t) ==
  /\ phase[t] = "awake"
  /\ quit' = [quit EXCEPT ![t] = TRUE]
  /\ phase' \in {phase, [phase EXCEPT ![t] = "dead"]}
  /\ UNCHANGED <<permit, mail>>

Die(t) ==
  /\ phase[t] = "awake"
  /\ quit[t]
  /\ phase' = [phase EXCEPT ![t] = "dead"]
  /\ permit' \in {permit, [permit EXCEPT ![t] = FALSE]}
  /\ UNCHANGED <<mail, quit>>

(* A task that has a thread of its own is awake from the start, and an     *)
(* exception that leaves its loop ends it unasked.                         *)
Begin(t) ==
  /\ phase[t] = "new"
  /\ phase' = [phase EXCEPT ![t] = "awake"]
  /\ UNCHANGED <<permit, mail, quit>>

Fail(t) ==
  /\ phase[t] = "awake"
  /\ phase' = [phase EXCEPT ![t] = "dead"]
  /\ UNCHANGED <<permit, mail, quit>>

Step(t) ==
  Poke(t) \/ Post(t) \/ Take(t) \/ GiveBack(t) \/ Sleep(t) \/ Wake(t)
    \/ Quit(t) \/ Die(t) \/ Begin(t) \/ Fail(t)

Next == \E t \in Tasks : Step(t)

Spec == Init /\ [][Next]_vars

(* The scheduler runs what it was given to run.                            *)
FairSpec == Spec /\ \A t \in Tasks : WF_vars(Wake(t))

(***************************************************************************)
(* The promise the synchronisation primitives rely on: a task that sleeps  *)
(* without a permit has nothing left in its mailbox (no wake-up is lost).  *)
(***************************************************************************)
NoLostWakeup ==
  \A t \in Tasks : phase[t] = "asleep" /\ ~permit[t] => Drained(t)
=============================================================================
