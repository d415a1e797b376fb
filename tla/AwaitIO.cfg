\* Two tasks on two workers, two operations of any kind, nested two deep; two events.
SPECIFICATION FairSpec
CONSTANTS
  Tasks = {t1, t2}
  Workers = {w1, w2}
  NoWorker = NoWorker
  Envs = {e1, e2}
  Unused = Unused
  Freed = Freed
  Note = Note
  MaxDepth = 2
  MaxNotes = 2
INVARIANTS TypeOK LiveWhileKnown AwaitsAtHome
PROPERTY OperationsEnd
CHECK_DEADLOCK FALSE
