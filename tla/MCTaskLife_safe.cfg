\* A thread, an actor, and a future that has an OS thread.
SPECIFICATION Spec
CONSTANTS
  Tasks = {a, f}
  Main = Main
  Actors = {a}
  Futures = {f}
  OSThreads = {f}
  EarlyUse = FALSE
  Refs = {r1, r2}
  MaxMail = 1
  NoTask = NoTask
  Void = Void
SYMMETRY Symmetry
INVARIANTS TypeOK ReachableStays NoneLeftBehind
CHECK_DEADLOCK FALSE
