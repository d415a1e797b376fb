\* One worker that may be stopped, a fiberized thread, a task on an OS thread,
\* a fiber and an actor.
SPECIFICATION Spec
CONSTANTS
  Workers = {w1}
  Threads = {th, ot}
  OSThreads = {ot}
  Fibers = {f1}
  Actors = {a1}
  NoTask = NoTask
  NoPin = NoPin
  SameStreakLimit = 1
  StashSize = 1
  DequeueRounds = 1
  StealTries = 0
  MaxMail = 1
  MaxCredit = 1
  FreeYielders = {}
  Stoppers = {ot}
  Stoppable = {w1}
INVARIANTS TypeOK StacksConserved AssertionsHold
PROPERTY ImplementsParking
CHECK_DEADLOCK FALSE
