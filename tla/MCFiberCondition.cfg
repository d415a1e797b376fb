\* Three tasks, four tickets; two events or foreign resumes.
SPECIFICATION Spec
CONSTANTS
  Tasks = {t1, t2, t3}
  NoTask = NoTask
  MaxTicket = 4
  MaxCredit = 2
  Quitters = {t1, t2, t3}
SYMMETRY Symmetry
INVARIANTS TypeOK TicketsMatch NoSleepingWinner
PROPERTY ImplementsSignals
CHECK_DEADLOCK FALSE
