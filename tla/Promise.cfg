\* Three tasks, one of which may stop, under fairness.
SPECIFICATION PFairSpec
CONSTANTS
  Tasks = {t1, t2, t3}
  NoTask = NoTask
  MaxTicket = 3
  MaxCredit = 1
  Quitters = {t1}
  Values = {v}
  Exceptions = {e}
  NoValue = NoValue
INVARIANTS WokenByResult
PROPERTIES OneResult EveryoneServed CompleteReturns
CHECK_DEADLOCK FALSE
