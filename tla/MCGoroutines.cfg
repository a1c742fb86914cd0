SPECIFICATION GoroutinesSpec
CONSTANTS
  N = 2 Len0 = 3 Outcomes = {"ok", "error"}
  Expr = {1, 2} Mutex = {"a", "b"} Guard = "a" Nesting <- NestingDef
  Goroutine = {g1, g2} Upload = {r1} Browser = {b1, b2} Route = {"/up"} Idle = 2 MaxFiles = 1
INVARIANTS SendNeverWaits ResultsInPlace UpdatesUnderLock ResultsOwn
PROPERTIES PoolMapEnds IdleIsQuiet StopEnds TimeoutFrees
CHECK_DEADLOCK FALSE
