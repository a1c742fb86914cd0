------------------------------- MODULE MCChannels -------------------------------
(* Channels on two callers and one spawned goroutine, an unbuffered channel  *)
(* and the result channel of spawn.                                          *)
EXTENDS Channels

CONSTANTS p1, p2, g1, u, r, v1, m1

ProcDef == {p1, p2, g1}
ChanDef == {u, r}
CapDef == [c \in ChanDef |-> IF c = u THEN 0 ELSE 1]
ResultChanDef == [g \in {g1} |-> r]
MayCallDef == [p \in ProcDef |->
  CASE p = p1 -> {"send", "close"}
    [] p = p2 -> {"recv", "trySend", "closed?"}
    [] p = g1 -> {"close"}]
CaseListsDef == {<<u>>, <<r>>, <<u, r>>}
================================================================================
