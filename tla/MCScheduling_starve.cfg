\* One worker and three tasks that do nothing but yield.
SPECIFICATION YieldSpec
CONSTANTS
  Workers = {w1}
  Threads = {th}
  OSThreads = {}
  Fibers = {f1, f2, f3}
  Actors = {}
  NoTask = NoTask
  NoPin = NoPin
  SameStreakLimit = 2
  StashSize = 1
  DequeueRounds = 1
  StealTries = 0
  MaxMail = 0
  MaxCredit = 0
  FreeYielders = {f1, f2, f3}
  Stoppers = {}
  Stoppable = {}
PROPERTY YieldersRunAgain
