SPECIFICATION Spec
CONSTANTS Client = {c1} Caller = {p1, p2} Cap = 1 MaxCalls = 2
INVARIANTS AtMostOneAnswer NoLeak
PROPERTIES BrokenGoes GoneEndsCall
CHECK_DEADLOCK FALSE
