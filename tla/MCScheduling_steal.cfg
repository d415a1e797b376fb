\* Two workers that steal from each other, a thread, a fiber and an actor.
SPECIFICATION Spec
CONSTANTS
  Workers = {w1, w2}
  Threads = {th}
  OSThreads = {}
  Fibers = {f1}
  Actors = {a1}
  NoTask = NoTask
  NoPin = NoPin
  SameStreakLimit = 1
  StashSize = 1
  DequeueRounds = 1
  StealTries = 1
  MaxMail = 1
  MaxCredit = 1
  FreeYielders = {}
  Stoppers = {a1}
  Stoppable = {}
SYMMETRY Symmetry
INVARIANTS IInv NoDoubleScheduling NoTaskForgotten NoLostWakeup SavedBeforeVisible PinnedStaysHome
PROPERTY ImplementsParking
