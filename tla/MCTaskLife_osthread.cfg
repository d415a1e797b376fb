\* A thread, an actor, and a future that has an OS thread.
SPECIFICATION Spec
CONSTANTS
  Tasks = {a, f}
  Main = Main
  Actors = {a}
  Futures = {f}
  OSThreads = {f}
  EarlyUse = TRUE
  Refs = {r1, r2}
  MaxMail = 1
  NoTask = NoTask
  Void = Void
SYMMETRY Symmetry
CHECK_DEADLOCK FALSE
INVARIANT RunsOnItsThread
