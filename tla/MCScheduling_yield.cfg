\* One worker, two tasks that do nothing but yield and a third one to start.
SPECIFICATION YieldSpec
CONSTANTS
  Workers = {w1}
  Threads = {th}
  OSThreads = {}
  Fibers = {f1, f2, f3}
  Actors = {}
  NoTask = NoTask
  NoPin = NoPin
  SameStreakLimit = 2
  StashSize = 1
  DequeueRounds = 1
  StealTries = 0
  MaxMail = 0
  MaxCredit = 0
  FreeYielders = {f1, f2}
  Stoppers = {}
  Stoppable = {}
PROPERTY SoftNotStarved
