---------------------------------- MODULE BlockPool ---------------------------------
(****************************************************************************)
(* What the primitives of shared memory promise to programs that call       *)
(* shm-cleanup only while no other primitive runs: there is one pool of     *)
(* blocks, with no generations of pools, handles or locked sections.  A     *)
(* call takes effect at most once, in the step in which it returns, and on  *)
(* the caller's own block only.  It has a block to work on unless it was    *)
(* made with a handle from before the last cleanup; shm-free of a block is  *)
(* never refused, and shm-alloc only if all blocks are taken or if none is  *)
(* and the segments cannot be had.                                          *)
(****************************************************************************)
CONSTANTS Proc,  \* the goroutines
          Block, \* the blocks
          Nobody \* the author of zeros

VARIABLES held,    \* the blocks that a goroutine has: pairs of the two
          free,    \* the blocks that can be had
          content, \* content[b]: who wrote what block b holds
          verb,    \* verb[p]: the primitive that p executes, or "none"
          on       \* on[p]: the block it is called with, as a set of at most one

vars == <<held, free, content, verb, on>>

Init ==
  /\ held = {} /\ free = Block /\ content = [b \in Block |-> Nobody]
  /\ verb = [p \in Proc |-> "none"] /\ on = [p \in Proc |-> {}]

\* A call; shm-cleanup is called alone.
Begin(p, v) ==
  /\ verb[p] = "none" /\ verb' = [verb EXCEPT ![p] = v]
  /\ \A q \in Proc \ {p} : verb[q] # "cleanup" /\ (v = "cleanup" => verb[q] = "none")
  /\ \/ on' = on
     \/ v \in {"free", "write", "read"} /\ \E b \in Block : <<p, b>> \in held /\ on' = [on EXCEPT ![p] = {b}]
  /\ UNCHANGED <<held, free, content>>

Return(p) == verb' = [verb EXCEPT ![p] = "none"] /\ on' = [on EXCEPT ![p] = {}]

Take(p, b) ==
  /\ verb[p] = "alloc" /\ b \in free
  /\ held' = held \cup {<<p, b>>} /\ free' = free \ {b}
  /\ content' = [content EXCEPT ![b] = Nobody]
  /\ Return(p)

Give(p, b) ==
  /\ verb[p] = "free" /\ b \in on[p]
  /\ held' = held \ {<<p, b>>} /\ free' = free \cup {b}
  /\ content' = [content EXCEPT ![b] = Nobody]
  /\ Return(p)

Fill(p, b) ==
  /\ verb[p] = "write" /\ b \in on[p]
  /\ content' = [content EXCEPT ![b] = p]
  /\ Return(p)
  /\ UNCHANGED <<held, free>>

Reset(p) ==
  /\ verb[p] = "cleanup"
  /\ held' = {} /\ free' = Block /\ content' = [b \in Block |-> Nobody]
  /\ Return(p)

\* What reads, and what fails: a write of more than a block holds, a call with
\* an old handle, and those that find no block or no segments.
Leave(p) ==
  /\ \/ verb[p] \in {"read", "write", "status"}
     \/ verb[p] = "free" /\ on[p] = {}
     \/ verb[p] = "alloc" /\ free \in {{}, Block}
     \/ verb[p] = "cleanup" /\ free = Block
  /\ Return(p)
  /\ UNCHANGED <<held, free, content>>

Next == \E p \in Proc :
  \/ \E v \in {"alloc", "free", "write", "read", "status", "cleanup"} : Begin(p, v)
  \/ \E b \in Block : Take(p, b) \/ Give(p, b) \/ Fill(p, b)
  \/ Reset(p) \/ Leave(p)

Spec == Init /\ [][Next]_vars
=================================================================================
