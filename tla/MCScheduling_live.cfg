\* Two workers and a thread, finite activity, under fairness.
SPECIFICATION FairSpec
CONSTANTS
  Workers = {w1, w2}
  Threads = {th}
  OSThreads = {}
  Fibers = {}
  Actors = {a1}
  NoTask = NoTask
  NoPin = NoPin
  SameStreakLimit = 1
  StashSize = 1
  DequeueRounds = 1
  StealTries = 1
  MaxMail = 1
  MaxCredit = 1
  FreeYielders = {}
  Stoppers = {a1}
  Stoppable = {}
PROPERTIES Delivered ImplementsFairParking
