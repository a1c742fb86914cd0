CONSTANTS N = 2 Len0 = 3 Outcomes = {"ok", "exit"}
SPECIFICATION Spec
PROPERTIES Returns
CHECK_DEADLOCK FALSE
