SPECIFICATION Spec
CONSTANTS Proc = {p1, p2} Blocks = 2 MaxPools = 2 Quiescent = FALSE Nobody = nobody
INVARIANT StaleRejected
