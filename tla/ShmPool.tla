---------------------------------- MODULE ShmPool ----------------------------------
(****************************************************************************)
(* The shared-memory pool (src/src/lib/shm/pool.go) and its Lisp primitives *)
(* (src/src/lib/shm_lisp.go).  poolMutex protects the global pool, each     *)
(* pool's mutex its blocks; a primitive takes several such critical         *)
(* sections one after the other, and a step of the model is one of them.    *)
(*                                                                          *)
(* A handle is what shm-alloc returned: a pool and a block id.  Every       *)
(* goroutine uses its own handles only, one call after the other, and drops *)
(* a handle it has freed; shm-cleanup is called by any of them.             *)
(****************************************************************************)
EXTENDS Naturals, FiniteSets

CONSTANTS Proc,      \* the goroutines
          Blocks,    \* MAX_POOLS
          MaxPools,  \* bound of the model: pools created by GetPool
          Quiescent, \* shm-cleanup is only called while no other primitive runs
          Nobody     \* the owner of zeros

ASSUME ShmAssumption ==
  Blocks \in Nat \ {0} /\ MaxPools \in Nat \ {0} /\ Quiescent \in BOOLEAN /\ Nobody \notin Proc

Block == 0..(Blocks - 1)
Pool == 1..MaxPools
Nil == 0
Place == Pool \X Block

VARIABLES globalPool, \* the current pool or Nil
          made,       \* pools created so far
          inited,     \* the pools that are initialised
          inUse,      \* the allocated blocks
          data,       \* data[b]: who wrote what block b holds, or Nobody (zeros)
          handles,    \* handles[p]: what p has allocated and not freed
          pc, verb, h, pool \* p's place, primitive, handle and result of GetPool

vars == <<globalPool, made, inited, inUse, data, handles, pc, verb, h, pool>>
blocks == <<inited, inUse, data, handles>>

NoHandle == <<Nil, 0>>

Init ==
  /\ globalPool = Nil /\ made = 0 /\ inited = {} /\ inUse = {}
  /\ data = [b \in Place |-> Nobody]
  /\ handles = [p \in Proc |-> {}]
  /\ pc = [p \in Proc |-> "idle"] /\ verb = [p \in Proc |-> "none"]
  /\ h = [p \in Proc |-> NoHandle] /\ pool = [p \in Proc |-> Nil]

Goto(p, l) == pc' = [pc EXCEPT ![p] = l]

\* The primitive has returned, with or without an error.
Done(p) ==
  /\ Goto(p, "idle")
  /\ verb' = [verb EXCEPT ![p] = "none"]
  /\ h' = [h EXCEPT ![p] = NoHandle]
  /\ pool' = [pool EXCEPT ![p] = Nil]
------------------------------------------------------------------------------
\* The program calls a primitive.
Call(p) ==
  /\ pc[p] = "idle"
  /\ \E v \in {"alloc", "free", "write", "read", "status", "cleanup"} :
       /\ verb' = [verb EXCEPT ![p] = v]
       /\ IF v \in {"alloc", "status", "cleanup"} THEN h' = h
                                                  ELSE \E x \in handles[p] : h' = [h EXCEPT ![p] = x]
       /\ Quiescent => \A q \in Proc \ {p} :
            verb[q] # "cleanup" /\ (v = "cleanup" => pc[q] = "idle")
  /\ Goto(p, "getPool")
  /\ UNCHANGED <<globalPool, made, blocks, pool>>

\* GetPool creates and initialises the pool when there is none.  Init fails
\* when a segment cannot be had, and rolls back what it has created.
Current == IF globalPool # Nil THEN globalPool ELSE made + 1

GetPool(p) ==
  /\ pool' = [pool EXCEPT ![p] = Current]
  /\ \/ globalPool # Nil /\ UNCHANGED <<globalPool, made, inited>>
     \/ /\ globalPool = Nil /\ made < MaxPools
        /\ made' = made + 1 /\ globalPool' = made'
        /\ inited' = inited \cup {made'}
  /\ UNCHANGED <<inUse, data, handles, verb, h>>

GetPoolFails(p) ==
  /\ pc[p] \in {"getPool", "getPoolAgain"} /\ globalPool = Nil
  /\ Done(p)
  /\ UNCHANGED <<globalPool, made, blocks>>

IsStaleNever(p) == FALSE

\* getShmBlock: h.pool != pool
IsStale(p) == h[p] # NoHandle /\ h[p][1] # Current

\* The first GetPool; getShmBlock compares the handle's pool with the current one.
FirstGetPool(p) ==
  /\ pc[p] = "getPool"
  /\ GetPool(p)
  /\ IF IsStale(p) THEN Goto(p, "fail")
                   ELSE Goto(p, IF h[p] = NoHandle THEN "act" ELSE "getBlock")

Fail(p) == pc[p] = "fail" /\ Done(p) /\ UNCHANGED <<globalPool, made, blocks>>

\* pool.GetBlock: the block must be allocated.
GetBlock(p) ==
  /\ pc[p] = "getBlock"
  /\ Goto(p, IF pool[p] \in inited /\ <<pool[p], h[p][2]>> \in inUse
             THEN "getPoolAgain" ELSE "fail")
  /\ UNCHANGED <<globalPool, made, blocks, verb, h, pool>>

\* shm-free, shm-write and shm-read ask for the pool a second time.
SecondGetPool(p) ==
  /\ pc[p] = "getPoolAgain"
  /\ GetPool(p)
  /\ Goto(p, "act")
------------------------------------------------------------------------------
\* The block the primitive acts on: its id is the handle's, its pool the one
\* of the second GetPool.
Target(p) == <<pool[p], h[p][2]>>
Usable(p) == pool[p] \in inited /\ Target(p) \in inUse

FreeBlocks(g) == {b \in Block : <<g, b>> \notin inUse}
FirstFreeIgnoresUse(g) == 0
FirstFree(g) == CHOOSE b \in FreeBlocks(g) : \A c \in FreeBlocks(g) : b <= c

\* Allocate: the first free block, filled with zeros.
Allocate(p) ==
  /\ pc[p] = "act" /\ verb[p] = "alloc"
  /\ pool[p] \in inited /\ FreeBlocks(pool[p]) # {}
  /\ LET b == <<pool[p], FirstFree(pool[p])>> IN
     /\ inUse' = inUse \cup {b}
     /\ data' = [data EXCEPT ![b] = Nobody]
     /\ handles' = [handles EXCEPT ![p] = @ \cup {b}]
  /\ Done(p)
  /\ UNCHANGED <<globalPool, made, inited>>

\* Release; the program drops the handle.
Release(p) ==
  /\ pc[p] = "act" /\ verb[p] = "free" /\ Usable(p)
  /\ inUse' = inUse \ {Target(p)}
  /\ data' = [data EXCEPT ![Target(p)] = Nobody]
  /\ handles' = [handles EXCEPT ![p] = @ \ {h[p]}]
  /\ Done(p)
  /\ UNCHANGED <<globalPool, made, inited>>

WriteData(p) ==
  /\ pc[p] = "act" /\ verb[p] = "write" /\ Usable(p)
  /\ data' = [data EXCEPT ![Target(p)] = p]
  /\ Done(p)
  /\ UNCHANGED <<globalPool, made, inited, inUse, handles>>

\* ReadData and Status, and the errors of all operations: WriteData also has
\* one for data that are longer than a block.
ReadOrError(p) ==
  /\ pc[p] = "act"
  /\ \/ verb[p] \in {"read", "status", "write"}
     \/ verb[p] = "free" /\ ~Usable(p)
     \/ verb[p] = "alloc" /\ (pool[p] \notin inited \/ FreeBlocks(pool[p]) = {})
  /\ Done(p)
  /\ UNCHANGED <<globalPool, made, blocks>>

CleanupKeepsGlobal(p) ==
  /\ pc[p] = "act" /\ verb[p] = "cleanup"
  /\ inUse' = {b \in inUse : b[1] # pool[p]}
  /\ inited' = inited \ {pool[p]}
  /\ Done(p)
  /\ UNCHANGED <<globalPool, made, data, handles>>

\* Cleanup detaches every block of the pool it was called on; if that is still
\* the global one the next GetPool makes a new pool.
Cleanup(p) ==
  /\ pc[p] = "act" /\ verb[p] = "cleanup"
  /\ inUse' = {b \in inUse : b[1] # pool[p]}
  /\ inited' = inited \ {pool[p]}
  /\ globalPool' = IF globalPool = pool[p] THEN Nil ELSE globalPool
  /\ Done(p)
  /\ UNCHANGED <<made, data, handles>>

Next == \E p \in Proc :
  \/ Call(p) \/ FirstGetPool(p) \/ GetPoolFails(p) \/ Fail(p) \/ GetBlock(p)
  \/ SecondGetPool(p) \/ Allocate(p) \/ Release(p) \/ WriteData(p) \/ ReadOrError(p)
  \/ Cleanup(p)

Spec == Init /\ [][Next]_vars
------------------------------------------------------------------------------
\* Types of the variables.
TypeOK ==
  /\ globalPool \in Pool \cup {Nil} /\ made \in 0..MaxPools
  /\ inited \subseteq Pool /\ inUse \subseteq Place
  /\ data \in [Place -> Proc \cup {Nobody}]
  /\ handles \in [Proc -> SUBSET Place]
  /\ pc \in [Proc -> {"idle", "getPool", "fail", "getBlock", "getPoolAgain", "act"}]
  /\ verb \in [Proc -> {"none", "alloc", "free", "write", "read", "status", "cleanup"}]
  /\ h \in [Proc -> Place \cup {NoHandle}] /\ pool \in [Proc -> Pool \cup {Nil}]

\* Blocks of an initialised pool are in use by exactly one handle each: none
\* is handed out twice, none is lost.  (And the variables have their types.)
Exclusive ==
  /\ TypeOK
  /\ \A p, q \in Proc : p # q => handles[p] \cap handles[q] = {}
  /\ inUse = {b \in UNION {handles[p] : p \in Proc} : b[1] \in inited}

\* What a block holds has been written by its owner: nobody writes into the
\* block of another, and a new block holds nothing of its former owner.
DataIsolated ==
  \A p \in Proc : \A b \in handles[p] :
    b[1] \in inited => data[b] \in {p, Nobody}

\* At most one pool is initialised at a time, and that is the global one: the
\* segments are found by fixed keys, two pools would share them.
OnePool == inited = {globalPool} \ {Nil}

\* A handle is void once its pool has been cleaned up (shm_lisp.go:18): no
\* primitive gets to act on a block of another pool with it.
StaleRejected ==
  \A p \in Proc :
    (pc[p] = "act" /\ h[p] # NoHandle /\ Usable(p)) => pool[p] = h[p][1]

\* The blocks, as a program sees them: those of the current pool.
Holdings == {own \in Proc \X Block : <<globalPool, own[2]>> \in handles[own[1]]}
Contents == [b \in Block |-> IF <<globalPool, b>> \in inUse THEN data[<<globalPool, b>>] ELSE Nobody]
CalledWith == [p \in Proc |-> {b \in Block : h[p] = <<globalPool, b>> /\ h[p] # NoHandle}]

BP == INSTANCE BlockPool WITH
        held <- Holdings, free <- FreeBlocks(globalPool), content <- Contents, on <- CalledWith

\* Through pools that come and go, handles of old ones and several locked
\* sections for each primitive, programs work on one pool of exclusive blocks:
\* each call acts once, on its own block (getShmBlock, Allocate, Release,
\* WriteData, Cleanup), as long as shm-cleanup runs alone.
ImplementsPool == BP!Spec
====================================================================================
