\* Three tasks, four tickets, one event or foreign resume, under fairness.
SPECIFICATION FairSpec
CONSTANTS
  Tasks = {t1, t2, t3}
  NoTask = NoTask
  MaxTicket = 4
  MaxCredit = 1
  Quitters = {t1}
INVARIANTS TypeOK OneOwner TicketsMatch NoSleepingOwner
PROPERTIES ImplementsFairLock WaitersServed
