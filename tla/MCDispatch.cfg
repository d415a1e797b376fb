\* Three events and four handlers.
SPECIFICATION Spec
CONSTANTS
  question = question
  answer = answer
  Kill = kill
  Main = Main
  Paths = {question, answer, kill}
  Binds <- Uses
  Awaits <- Waits
  MaxEvents = 3
  MaxHandlers = 4
  MaxRefs = 2
INVARIANTS TypeOK PayloadsFreedOnce LatestFirst AwaitTakesNext
PROPERTY KillThrows
CHECK_DEADLOCK FALSE
