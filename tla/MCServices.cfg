SPECIFICATION ServicesSpec
CONSTANTS
  Proc = {p1, p2} Blocks = 2 MaxPools = 2 Quiescent = TRUE Nobody = nobody
  Conn = {c1, c2} MaxMsg = 2
INVARIANTS Exclusive OnePool SenderIsNewest AnswerIsOwn
PROPERTIES ImplementsPool RequestEnds
CHECK_DEADLOCK FALSE
