SPECIFICATION Spec
CONSTANTS
  Main = Main
  Workers = {w1}
  Hosts = {}
  Names = {render}
  Mutexes = {m1}
  Nobody = Nobody
  DeletesRunning = FALSE
  MaxNest = 1
  MaxNotes = 1
INVARIANT MutualExclusion
CHECK_DEADLOCK FALSE
