SPECIFICATION FairSpec
CONSTANTS
  Main = Main
  Workers = {w1, w2}
  Hosts = {h1}
  Names = {render}
  Mutexes = {m1}
  Nobody = Nobody
  DeletesRunning = FALSE
  MaxNest = 2
  MaxNotes = 1
INVARIANTS HolderIsInside CountIsDepth OneThreadPerName
PROPERTIES OnlyOwnersGive FreeLocksAreTaken NotifiedTasksRun
CHECK_DEADLOCK FALSE
