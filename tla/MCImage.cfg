SPECIFICATION ImageSpec
CONSTANTS
  Thread = {t1, t2} Name = {f} File = {"", "a"} NewKind = {"lambda", "value"} MaxForms = 3 RingSize = 2
  Object = {"x", "y"} MaxParts = 1 MaxHistory = 3
  Goroutine = {g1, g2} MaxEvals = 3
  Worker = {w1, w2} Host = {"h"} Prompt = {""} TickPeriod = 3 Pause = 2 MaxTime = 8 MaxRequests = 2
  GenType = "bit4" GenLen = 3 InitPar = 2 Cpus = 2 InitCell = {0, 35} MaxPar = 4 MaxOps = 5 MutGene = {2}
  UserType = {"file-error", "io-error"} ParentType = {"error", "io-error"} MaxDefs = 2
  ClauseType = {"io-error", "error"}
  System = {"a", "b"} SourceFile = {"f", "g"} CommonFile = {"f", "g"} MaxRedefinitions = 1
  Client = {c1, c2} Caller = {p1} Cap = 1 MaxCalls = 1
INVARIANTS ImageTypeOK UpdateInnermost NoOrphanWrapper AnswerBelongs CallsSpaced FormatMatches 
  NearestHandler SystemsMatch
PROPERTIES ImplementsRemoteCall PrimitivesGuarded InspectorIsHistory BestIsKept
SYMMETRY Symmetry
CHECK_DEADLOCK FALSE
