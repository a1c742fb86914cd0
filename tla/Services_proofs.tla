----------------------------- MODULE Services_proofs -----------------------------
(****************************************************************************)
(* Proofs about the services of an image, for any goroutines, blocks and    *)
(* number of pools, and for any connections: the pool of shared memory, and *)
(* the SWANK server with its clients.                                       *)
(****************************************************************************)
EXTENDS Services, NumberLemmas
------------------------------------------------------------------------------
(* The pool of shared memory *)

\* The primitives that take a handle, and the places at which a primitive
\* relies on a GetPool it has done.
Taking == {"free", "write", "read"}
PastGetPool == {"getBlock", "getPoolAgain", "act"}

\* Only pools that have been created are global or have handed out blocks.
MadeFirst ==
  /\ globalPool <= made
  /\ \A p \in Proc : \A b \in handles[p] : b[1] <= made

\* A primitive has the handle it was called with, which is one of its own.
CallCoherent(p) ==
  /\ pc[p] = "idle" <=> verb[p] = "none"
  /\ IF verb[p] \in Taking THEN h[p] \in handles[p] ELSE h[p] = NoHandle
  /\ pc[p] \in {"getBlock", "getPoolAgain"} => verb[p] \in Taking

\* Past its GetPool a primitive works on the current pool, which exists, and
\* its handle is of that pool.
PoolCurrent(p) ==
  pc[p] \in PastGetPool =>
    /\ globalPool # Nil /\ pool[p] = globalPool
    /\ verb[p] \in Taking => h[p][1] = globalPool

\* No primitive of another goroutine runs during shm-cleanup.
CleanupAlone == \A p, q \in Proc : verb[p] = "cleanup" /\ q # p => pc[q] = "idle"

Disjoint == \A p, q \in Proc : p # q => handles[p] \cap handles[q] = {}
Accounted == inUse = {b \in UNION {handles[p] : p \in Proc} : b[1] \in inited}

IInv ==
  /\ TypeOK /\ OnePool /\ MadeFirst /\ CleanupAlone
  /\ \A p \in Proc : CallCoherent(p) /\ PoolCurrent(p)
  /\ Disjoint /\ Accounted /\ DataIsolated
------------------------------------------------------------------------------
\* A place is a pool and a block of it.
LEMMA PlaceLemma ==
  ASSUME NEW b \in Place
  PROVE  b[1] \in Pool /\ b[2] \in Block /\ b = <<b[1], b[2]>> /\ b # NoHandle
BY DEF Place, Pool, NoHandle, Nil

\* A free block, when there is one, is found.
LEMMA FirstFreeLemma ==
  ASSUME NEW g, FreeBlocks(g) # {}
  PROVE  FirstFree(g) \in Block /\ <<g, FirstFree(g)>> \notin inUse
<1>1. FreeBlocks(g) \subseteq Nat
  BY ShmAssumption DEF FreeBlocks, Block
<1>2. \E b \in FreeBlocks(g) : \A c \in FreeBlocks(g) : b <= c
  BY <1>1, LeastElement
<1>3. FirstFree(g) \in FreeBlocks(g)
  BY <1>2 DEF FirstFree
<1> QED
  BY <1>3 DEF FreeBlocks
------------------------------------------------------------------------------
\* What every primitive leaves as it was, and the types of a goroutine's place.
PlaceOK ==
  /\ pc \in [Proc -> {"idle", "getPool", "fail", "getBlock", "getPoolAgain", "act"}]
  /\ verb \in [Proc -> {"none", "alloc", "free", "write", "read", "status", "cleanup"}]
  /\ h \in [Proc -> Place \cup {NoHandle}] /\ pool \in [Proc -> Pool \cup {Nil}]

\* Returning keeps the types of a goroutine's place.
LEMMA DoneOK == ASSUME PlaceOK, NEW p \in Proc, Done(p) PROVE PlaceOK'
BY DEF PlaceOK, Done, Goto

\* The result of GetPool is a pool; at most one pool is initialised, the
\* current one, whether or not it has just been created.
LEMMA GetPoolOK ==
  ASSUME TypeOK, NEW p \in Proc, GetPool(p)
  PROVE  /\ made' \in 0..MaxPools /\ inited' \subseteq Pool
         /\ globalPool' = Current /\ Current \in Pool
         /\ pool' \in [Proc -> Pool \cup {Nil}]
         /\ OnePool => OnePool'
<1>1. CASE globalPool # Nil /\ UNCHANGED <<globalPool, made, inited>>
  BY <1>1 DEF TypeOK, GetPool, Current, OnePool
<1>2. CASE /\ globalPool = Nil /\ made < MaxPools
           /\ made' = made + 1 /\ globalPool' = made'
           /\ inited' = inited \cup {made'}
  <2>1. made + 1 \in Pool /\ made + 1 # Nil /\ made' \in 0..MaxPools
    BY <1>2, ShmAssumption DEF TypeOK, Pool, Nil
  <2> QED
    BY <1>2, <2>1 DEF TypeOK, GetPool, Current, OnePool
<1> QED
  BY <1>1, <1>2 DEF GetPool

\* Every step keeps the types.
LEMMA TypeStep == ASSUME TypeOK, [Next]_vars PROVE TypeOK'
<1> USE DEF blocks
<1>0. PlaceOK
  BY DEF TypeOK, PlaceOK
<1>1. ASSUME NEW p \in Proc, Call(p) PROVE TypeOK'
  BY <1>1 DEF TypeOK, Call, Goto
<1>2. ASSUME NEW p \in Proc, FirstGetPool(p) PROVE TypeOK'
  <2>1. globalPool' \in Pool /\ made' \in 0..MaxPools /\ inited' \subseteq Pool
        /\ pool' \in [Proc -> Pool \cup {Nil}]
    BY <1>2, GetPoolOK DEF FirstGetPool
  <2> QED
    BY <1>2, <2>1 DEF TypeOK, FirstGetPool, GetPool, Goto
<1>3. ASSUME NEW p \in Proc, SecondGetPool(p) PROVE TypeOK'
  <2>1. globalPool' \in Pool /\ made' \in 0..MaxPools /\ inited' \subseteq Pool
        /\ pool' \in [Proc -> Pool \cup {Nil}]
    BY <1>3, GetPoolOK DEF SecondGetPool
  <2> QED
    BY <1>3, <2>1 DEF TypeOK, SecondGetPool, GetPool, Goto
<1>4. ASSUME NEW p \in Proc, GetPoolFails(p) \/ Fail(p) \/ ReadOrError(p) PROVE TypeOK'
  BY <1>0, <1>4, DoneOK DEF TypeOK, PlaceOK, GetPoolFails, Fail, ReadOrError
<1>5. ASSUME NEW p \in Proc, GetBlock(p) PROVE TypeOK'
  BY <1>5 DEF TypeOK, GetBlock, Goto
<1>6. ASSUME NEW p \in Proc, Allocate(p) PROVE TypeOK'
  <2>1. <<pool[p], FirstFree(pool[p])>> \in Place
    BY <1>6, FirstFreeLemma DEF TypeOK, Allocate, Place
  <2> QED
    BY <1>0, <1>6, <2>1, DoneOK DEF TypeOK, PlaceOK, Allocate
<1>7. ASSUME NEW p \in Proc, Release(p) \/ WriteData(p) PROVE TypeOK'
  BY <1>0, <1>7, DoneOK DEF TypeOK, PlaceOK, Release, WriteData
<1>8. ASSUME NEW p \in Proc, Cleanup(p) PROVE TypeOK'
  BY <1>0, <1>8, DoneOK DEF TypeOK, PlaceOK, Cleanup
<1>9. CASE UNCHANGED vars
  BY <1>9 DEF TypeOK, vars
<1> QED
  BY <1>1, <1>2, <1>3, <1>4, <1>5, <1>6, <1>7, <1>8, <1>9 DEF Next

\* Every step keeps the only initialised pool the global one: GetPool makes a
\* pool only when there is none, shm-cleanup clears the global pool if that is
\* the one it destroys.
LEMMA OnePoolStep == ASSUME TypeOK, OnePool, [Next]_vars PROVE OnePool'
<1> USE DEF blocks
<1>1. ASSUME NEW p \in Proc, FirstGetPool(p) \/ SecondGetPool(p) PROVE OnePool'
  BY <1>1, GetPoolOK DEF FirstGetPool, SecondGetPool
<1>2. ASSUME NEW p \in Proc, Cleanup(p) PROVE OnePool'
  BY <1>2 DEF OnePool, Cleanup
<1>3. CASE UNCHANGED <<globalPool, inited>>
  BY <1>3 DEF OnePool
<1> QED
  BY <1>1, <1>2, <1>3 DEF Next, vars, Call, GetPoolFails, Fail, GetBlock, Allocate,
     Release, WriteData, ReadOrError

\* No pool, no goroutine in a primitive, no handle: the invariant holds.
LEMMA InitOK == Init => IInv
<1> SUFFICES ASSUME Init PROVE IInv
  OBVIOUS
<1>1. TypeOK
  BY ShmAssumption DEF Init, TypeOK, NoHandle, Nil
<1>2. OnePool /\ MadeFirst /\ CleanupAlone
  BY DEF Init, OnePool, MadeFirst, CleanupAlone, Nil
<1>3. \A p \in Proc : CallCoherent(p) /\ PoolCurrent(p)
  BY DEF Init, CallCoherent, PoolCurrent, PastGetPool, Taking
<1>4. Disjoint /\ Accounted /\ DataIsolated
  BY DEF Init, Disjoint, Accounted, DataIsolated
<1> QED
  BY <1>1, <1>2, <1>3, <1>4 DEF IInv

\* At most one pool is initialised, and it is the one GetPool returns, also
\* when shm-cleanup runs at the same time as other primitives: no two pools
\* are attached to the same segments.
THEOREM OnePoolTheorem == Spec => []OnePool
<1>1. Init => TypeOK /\ OnePool
  BY InitOK DEF IInv
<1>2. TypeOK /\ OnePool /\ [Next]_vars => (TypeOK /\ OnePool)'
  BY TypeStep, OnePoolStep
<1> QED
  BY <1>1, <1>2, PTL DEF Spec
------------------------------------------------------------------------------
\* A primitive that returns leaves every goroutine coherent, the current one
\* idle, when it takes no handle away that another call uses.
LEMMA DoneCoherent ==
  ASSUME IInv, NEW p \in Proc, Done(p),
         \A q \in Proc \ {p} : handles'[q] = handles[q]
  PROVE  (\A q \in Proc : CallCoherent(q))' /\ CleanupAlone'
<1>1. pc'[p] = "idle" /\ verb'[p] = "none" /\ h'[p] = NoHandle
  BY DEF IInv, TypeOK, Done, Goto
<1>2. ASSUME NEW q \in Proc \ {p}
      PROVE  pc'[q] = pc[q] /\ verb'[q] = verb[q] /\ h'[q] = h[q] /\ pool'[q] = pool[q]
  BY DEF IInv, TypeOK, Done, Goto
<1>3. ASSUME NEW q \in Proc PROVE CallCoherent(q)'
  BY <1>1, <1>2 DEF IInv, CallCoherent, Taking
<1>4. CleanupAlone'
  BY <1>1, <1>2 DEF IInv, CleanupAlone
<1> QED
  BY <1>3, <1>4

\* If it is not shm-cleanup that returns, the others' pool stays current.
LEMMA DoneCurrent ==
  ASSUME IInv, NEW p \in Proc, Done(p), UNCHANGED globalPool
  PROVE  (\A q \in Proc : PoolCurrent(q))'
<1>1. pc'[p] = "idle"
  BY DEF IInv, TypeOK, Done, Goto
<1>2. ASSUME NEW q \in Proc \ {p}
      PROVE  pc'[q] = pc[q] /\ verb'[q] = verb[q] /\ h'[q] = h[q] /\ pool'[q] = pool[q]
  BY DEF IInv, TypeOK, Done, Goto
<1> QED
  BY <1>1, <1>2 DEF IInv, PoolCurrent, PastGetPool

\* A call starts with a handle of its own, and shm-cleanup starts alone.
LEMMA CallStep == ASSUME Quiescent, IInv, NEW p \in Proc, Call(p) PROVE IInv'
<1> USE DEF blocks
<1>1. TypeOK' /\ OnePool'
  BY TypeStep, OnePoolStep DEF IInv, Next
<1>2. MadeFirst' /\ Disjoint' /\ Accounted' /\ DataIsolated'
  BY DEF IInv, Call, MadeFirst, Disjoint, Accounted, DataIsolated
<1>3. PICK v \in {"alloc", "free", "write", "read", "status", "cleanup"} :
        /\ verb' = [verb EXCEPT ![p] = v]
        /\ IF v \in {"alloc", "status", "cleanup"}
             THEN h' = h ELSE \E x \in handles[p] : h' = [h EXCEPT ![p] = x]
        /\ \A q \in Proc \ {p} : verb[q] # "cleanup" /\ (v = "cleanup" => pc[q] = "idle")
  BY DEF Call
<1>4. pc'[p] = "getPool" /\ verb'[p] = v
  BY <1>3 DEF Call, Goto, IInv, TypeOK
<1>5. ASSUME NEW q \in Proc \ {p}
      PROVE  pc'[q] = pc[q] /\ verb'[q] = verb[q] /\ h'[q] = h[q]
  BY <1>3 DEF Call, Goto, IInv, TypeOK
<1>6. CallCoherent(p)'
  <2>1. h[p] = NoHandle
    BY DEF IInv, Call, CallCoherent, Taking
  <2> QED
    BY <1>3, <1>4, <2>1 DEF Call, CallCoherent, Taking, IInv, TypeOK
<1>7. ASSUME NEW q \in Proc PROVE CallCoherent(q)' /\ PoolCurrent(q)'
  BY <1>4, <1>5, <1>6 DEF IInv, Call, CallCoherent, PoolCurrent, PastGetPool, Taking
<1>8. CleanupAlone'
  BY <1>3, <1>4, <1>5 DEF IInv, CleanupAlone
<1> QED
  BY <1>1, <1>2, <1>7, <1>8 DEF IInv

\* GetPool makes a pool only while no goroutine is past its GetPool; nobody
\* has a handle of the new pool.
LEMMA GetPoolKeeps ==
  ASSUME IInv, NEW p \in Proc, GetPool(p)
  PROVE  /\ MadeFirst' /\ Disjoint' /\ Accounted' /\ DataIsolated'
         /\ \A q \in Proc \ {p} : pc'[q] = pc[q] => PoolCurrent(q)'
         /\ pool'[p] = Current /\ globalPool' = Current /\ Current # Nil
<1>1. pool'[p] = Current /\ globalPool' = Current /\ Current # Nil
  BY GetPoolOK DEF IInv, TypeOK, GetPool, Current, Nil, Pool
<1>2. CASE globalPool # Nil /\ UNCHANGED <<globalPool, made, inited>>
  <2>1. MadeFirst' /\ Disjoint' /\ Accounted' /\ DataIsolated'
    BY <1>2 DEF IInv, GetPool, MadeFirst, Disjoint, Accounted, DataIsolated
  <2>2. ASSUME NEW q \in Proc \ {p}, pc'[q] = pc[q] PROVE PoolCurrent(q)'
    BY <1>2, <2>2 DEF IInv, TypeOK, GetPool, PoolCurrent
  <2> QED
    BY <1>1, <2>1, <2>2
<1>3. CASE /\ globalPool = Nil /\ made < MaxPools
           /\ made' = made + 1 /\ globalPool' = made'
           /\ inited' = inited \cup {made'}
  <2>1. \A q \in Proc : \A b \in handles[q] : b[1] # made'
    BY <1>3, PlaceLemma DEF IInv, TypeOK, MadeFirst, Pool
  <2>2. MadeFirst'
    BY <1>3, PlaceLemma DEF IInv, TypeOK, MadeFirst, GetPool, Pool
  <2>3. Disjoint' /\ Accounted' /\ DataIsolated'
    BY <1>3, <2>1 DEF IInv, GetPool, Disjoint, Accounted, DataIsolated
  <2>4. ASSUME NEW q \in Proc \ {p}, pc'[q] = pc[q] PROVE PoolCurrent(q)'
    BY <1>3, <2>4 DEF IInv, PoolCurrent
  <2> QED
    BY <1>1, <2>2, <2>3, <2>4
<1> QED
  BY <1>2, <1>3 DEF GetPool

\* A handle of a pool that has been cleaned up is stale: past the first
\* GetPool a primitive's handle is of the current pool.
LEMMA FirstGetPoolStep == ASSUME IInv, NEW p \in Proc, FirstGetPool(p) PROVE IInv'
<1>1. TypeOK' /\ OnePool'
  BY TypeStep, OnePoolStep DEF IInv, Next
<1>2. GetPool(p) /\ UNCHANGED <<handles, verb, h>>
  BY DEF FirstGetPool, GetPool
<1>3. pc'[p] \in {"fail", "act", "getBlock"}
      /\ \A q \in Proc \ {p} : pc'[q] = pc[q]
  BY DEF FirstGetPool, Goto, IInv, TypeOK
<1>4. PoolCurrent(p)'
  <2>1. h[p] # NoHandle /\ h[p][1] # Current => pc'[p] = "fail"
    BY DEF FirstGetPool, IsStale, Goto, IInv, TypeOK
  <2>2. verb[p] \in Taking => h[p] # NoHandle
    BY PlaceLemma DEF IInv, TypeOK, CallCoherent
  <2> QED
    BY <1>2, <2>1, <2>2, GetPoolKeeps DEF PoolCurrent, PastGetPool
<1>5. CallCoherent(p)'
  <2>1. pc'[p] = "getBlock" => h[p] # NoHandle
    BY DEF FirstGetPool, Goto, IInv, TypeOK
  <2> QED
    BY <1>2, <1>3, <2>1 DEF FirstGetPool, CallCoherent, Taking, IInv
<1>6. ASSUME NEW q \in Proc PROVE CallCoherent(q)' /\ PoolCurrent(q)'
  <2>1. CASE q = p
    BY <1>4, <1>5, <2>1
  <2>2. CASE q # p
    BY <1>2, <1>3, <2>2, GetPoolKeeps DEF IInv, CallCoherent
  <2> QED
    BY <2>1, <2>2
<1>7. CleanupAlone'
  BY <1>2, <1>3 DEF IInv, CleanupAlone, FirstGetPool
<1> QED
  BY <1>1, <1>2, <1>6, <1>7, GetPoolKeeps DEF IInv

\* The second GetPool returns the pool of the first: no shm-cleanup ran between.
LEMMA SecondGetPoolStep == ASSUME IInv, NEW p \in Proc, SecondGetPool(p) PROVE IInv'
<1>1. TypeOK' /\ OnePool'
  BY TypeStep, OnePoolStep DEF IInv, Next
<1>2. GetPool(p) /\ UNCHANGED <<handles, verb, h>>
  BY DEF SecondGetPool, GetPool
<1>3. pc'[p] = "act" /\ \A q \in Proc \ {p} : pc'[q] = pc[q]
  BY DEF SecondGetPool, Goto, IInv, TypeOK
<1>4. PoolCurrent(p)'
  <2>1. Current = globalPool /\ (verb[p] \in Taking => h[p][1] = globalPool)
    BY DEF SecondGetPool, IInv, PoolCurrent, PastGetPool, Current
  <2> QED
    BY <1>2, <2>1, GetPoolKeeps DEF PoolCurrent
<1>5. ASSUME NEW q \in Proc PROVE CallCoherent(q)' /\ PoolCurrent(q)'
  BY <1>2, <1>3, <1>4, GetPoolKeeps DEF SecondGetPool, CallCoherent, IInv
<1>6. CleanupAlone'
  BY <1>2, <1>3 DEF IInv, CleanupAlone, SecondGetPool
<1> QED
  BY <1>1, <1>2, <1>5, <1>6, GetPoolKeeps DEF IInv

\* Looking a block up changes nothing but the goroutine's place.
LEMMA GetBlockStep == ASSUME IInv, NEW p \in Proc, GetBlock(p) PROVE IInv'
<1> USE DEF blocks
<1>1. TypeOK' /\ OnePool'
  BY TypeStep, OnePoolStep DEF IInv, Next
<1>2. pc'[p] \in {"getPoolAgain", "fail"} /\ \A q \in Proc \ {p} : pc'[q] = pc[q]
  BY DEF GetBlock, Goto, IInv, TypeOK
<1>3. MadeFirst' /\ Disjoint' /\ Accounted' /\ DataIsolated'
  BY DEF IInv, GetBlock, MadeFirst, Disjoint, Accounted, DataIsolated
<1>4. ASSUME NEW q \in Proc PROVE CallCoherent(q)' /\ PoolCurrent(q)'
  BY <1>2 DEF GetBlock, IInv, CallCoherent, PoolCurrent, PastGetPool
<1>5. CleanupAlone'
  BY <1>2 DEF IInv, CleanupAlone, GetBlock
<1> QED
  BY <1>1, <1>3, <1>4, <1>5 DEF IInv

\* A primitive that fails, or reads, changes nothing.
LEMMA ReturnStep ==
  ASSUME IInv, NEW p \in Proc, GetPoolFails(p) \/ Fail(p) \/ ReadOrError(p)
  PROVE  IInv'
<1> USE DEF blocks
<1>1. TypeOK' /\ OnePool'
  BY TypeStep, OnePoolStep DEF IInv, Next
<1>2. Done(p) /\ UNCHANGED <<globalPool, made, blocks>>
  BY DEF GetPoolFails, Fail, ReadOrError
<1>3. MadeFirst' /\ Disjoint' /\ Accounted' /\ DataIsolated'
  BY <1>2 DEF IInv, MadeFirst, Disjoint, Accounted, DataIsolated
<1> QED
  BY <1>1, <1>2, <1>3, DoneCoherent, DoneCurrent DEF IInv
------------------------------------------------------------------------------
\* The block that is handed out is in nobody's hands: every block of the
\* initialised pool that is in a handle is in use, and this one is not.
LEMMA AllocateStep == ASSUME IInv, NEW p \in Proc, Allocate(p) PROVE IInv'
<1> DEFINE b == <<pool[p], FirstFree(pool[p])>>
<1>1. TypeOK' /\ OnePool'
  BY TypeStep, OnePoolStep DEF IInv, Next
<1>2. b \in Place /\ b \notin inUse /\ b[1] \in inited /\ pool[p] = globalPool
  BY FirstFreeLemma DEF IInv, TypeOK, Allocate, Place, PoolCurrent, PastGetPool
<1>3. /\ Done(p) /\ UNCHANGED <<globalPool, made, inited>>
      /\ inUse' = inUse \cup {b} /\ data' = [data EXCEPT ![b] = Nobody]
      /\ handles' = [handles EXCEPT ![p] = @ \cup {b}]
  BY DEF Allocate
<1>4. b[1] = pool[p]
  OBVIOUS
<1> HIDE DEF b
<1>5. \A q \in Proc : b \notin handles[q]
  BY <1>2 DEF IInv, Accounted
<1>6. /\ \A q \in Proc \ {p} : handles'[q] = handles[q]
      /\ handles'[p] = handles[p] \cup {b}
  BY <1>3 DEF IInv, TypeOK
<1>7. MadeFirst'
  BY <1>2, <1>3, <1>4, <1>6 DEF IInv, MadeFirst
<1>8. Disjoint' /\ Accounted'
  BY <1>2, <1>3, <1>5, <1>6 DEF IInv, Disjoint, Accounted
<1>9. DataIsolated'
  <2>1. \A x \in Place : data'[x] = IF x = b THEN Nobody ELSE data[x]
    BY <1>2, <1>3 DEF IInv, TypeOK
  <2>2. ASSUME NEW q \in Proc, NEW x \in handles'[q], x[1] \in inited
        PROVE  data'[x] \in {q, Nobody}
    <3>1. x \in Place
      BY <1>2, <1>6 DEF IInv, TypeOK
    <3>2. x = b \/ x \in handles[q]
      BY <1>6
    <3> QED
      BY <2>1, <2>2, <3>1, <3>2 DEF IInv, DataIsolated
  <2> QED
    BY <1>3, <2>2 DEF DataIsolated
<1> QED
  BY <1>1, <1>3, <1>6, <1>7, <1>8, <1>9, DoneCoherent, DoneCurrent DEF IInv

\* The block of the second GetPool is the one of the handle.
LEMMA TargetLemma ==
  ASSUME IInv, NEW p \in Proc, pc[p] = "act", verb[p] \in Taking
  PROVE  Target(p) = h[p] /\ h[p] \in handles[p] /\ h[p] \in Place
<1>1. h[p] \in handles[p] /\ h[p] \in Place /\ h[p][1] = pool[p]
  BY DEF IInv, TypeOK, CallCoherent, PoolCurrent, PastGetPool
<1> QED
  BY <1>1, PlaceLemma DEF Target

\* A block that is released was its goroutine's own and is nobody's afterwards.
LEMMA ReleaseStep == ASSUME IInv, NEW p \in Proc, Release(p) PROVE IInv'
<1>1. TypeOK' /\ OnePool'
  BY TypeStep, OnePoolStep DEF IInv, Next
<1>2. Target(p) = h[p] /\ h[p] \in handles[p] /\ h[p] \in Place
  BY TargetLemma DEF Release, Taking
<1>3. /\ Done(p) /\ UNCHANGED <<globalPool, made, inited>>
      /\ inUse' = inUse \ {h[p]} /\ data' = [data EXCEPT ![h[p]] = Nobody]
      /\ handles' = [handles EXCEPT ![p] = @ \ {h[p]}]
  BY <1>2 DEF Release
<1>4. /\ \A q \in Proc \ {p} : handles'[q] = handles[q]
      /\ handles'[p] = handles[p] \ {h[p]}
  BY <1>3 DEF IInv, TypeOK
<1>5. \A q \in Proc \ {p} : h[p] \notin handles[q]
  BY <1>2 DEF IInv, Disjoint
<1>6. MadeFirst' /\ Disjoint'
  BY <1>3, <1>4 DEF IInv, MadeFirst, Disjoint
<1>7. Accounted'
  BY <1>2, <1>3, <1>4, <1>5 DEF IInv, Accounted
<1>8. DataIsolated'
  <2>1. \A x \in Place : data'[x] = IF x = h[p] THEN Nobody ELSE data[x]
    BY <1>2, <1>3 DEF IInv, TypeOK
  <2> QED
    BY <1>3, <1>4, <1>5, <2>1 DEF IInv, TypeOK, DataIsolated
<1> QED
  BY <1>1, <1>3, <1>4, <1>6, <1>7, <1>8, DoneCoherent, DoneCurrent DEF IInv

\* What is written goes into a block of the writer.
LEMMA WriteDataStep == ASSUME IInv, NEW p \in Proc, WriteData(p) PROVE IInv'
<1>1. TypeOK' /\ OnePool'
  BY TypeStep, OnePoolStep DEF IInv, Next
<1>2. Target(p) = h[p] /\ h[p] \in handles[p] /\ h[p] \in Place
  BY TargetLemma DEF WriteData, Taking
<1>3. /\ Done(p) /\ UNCHANGED <<globalPool, made, inited, inUse, handles>>
      /\ data' = [data EXCEPT ![h[p]] = p]
  BY <1>2 DEF WriteData
<1>4. MadeFirst' /\ Disjoint' /\ Accounted'
  BY <1>3 DEF IInv, MadeFirst, Disjoint, Accounted
<1>5. DataIsolated'
  <2>1. \A x \in Place : data'[x] = IF x = h[p] THEN p ELSE data[x]
    BY <1>2, <1>3 DEF IInv, TypeOK
  <2>2. \A q \in Proc \ {p} : h[p] \notin handles[q]
    BY <1>2 DEF IInv, Disjoint
  <2> QED
    BY <1>3, <2>1, <2>2 DEF IInv, TypeOK, DataIsolated
<1> QED
  BY <1>1, <1>3, <1>4, <1>5, DoneCoherent, DoneCurrent DEF IInv

\* shm-cleanup detaches the only initialised pool while no goroutine is past
\* its GetPool: the handles that are left are void.
LEMMA CleanupStep == ASSUME IInv, NEW p \in Proc, Cleanup(p) PROVE IInv'
<1>1. TypeOK' /\ OnePool'
  BY TypeStep, OnePoolStep DEF IInv, Next
<1>2. Done(p) /\ UNCHANGED <<made, data, handles>>
  BY DEF Cleanup
<1>3. pool[p] = globalPool /\ globalPool # Nil
  BY DEF IInv, Cleanup, PoolCurrent, PastGetPool
<1>4. inited' = {} /\ inUse' = {} /\ globalPool' = Nil
  BY <1>3 DEF Cleanup, IInv, OnePool, Accounted
<1>5. MadeFirst' /\ Disjoint' /\ Accounted' /\ DataIsolated'
  BY <1>2, <1>4 DEF IInv, TypeOK, MadeFirst, Disjoint, Accounted, DataIsolated, Nil
<1>6. \A q \in Proc : pc'[q] = "idle"
  BY <1>2 DEF IInv, CleanupAlone, Cleanup, Done, Goto, TypeOK
<1>7. \A q \in Proc : PoolCurrent(q)'
  BY <1>6 DEF PoolCurrent, PastGetPool
<1> QED
  BY <1>1, <1>2, <1>5, <1>7, DoneCoherent DEF IInv
------------------------------------------------------------------------------
\* The invariant is inductive when shm-cleanup is called in quiet moments only.
LEMMA Inductive == ASSUME Quiescent, IInv, [Next]_vars PROVE IInv'
<1>1. CASE UNCHANGED vars
  <2>1. TypeOK' /\ OnePool'
    BY <1>1, TypeStep, OnePoolStep DEF IInv
  <2> QED
    BY <1>1, <2>1 DEF IInv, vars, MadeFirst, CleanupAlone, CallCoherent, PoolCurrent,
       Disjoint, Accounted, DataIsolated
<1> QED
  BY <1>1, CallStep, FirstGetPoolStep, SecondGetPoolStep, GetBlockStep, ReturnStep,
     AllocateStep, ReleaseStep, WriteDataStep, CleanupStep DEF Next

\* A program that calls shm-cleanup only while no other primitive runs: every
\* block of the pool that is in use is held by exactly one handle, and none is
\* lost.
THEOREM ExclusiveTheorem == ASSUME Quiescent PROVE Spec => []Exclusive
<1>1. Init => IInv
  BY InitOK
<1>2. IInv /\ [Next]_vars => IInv'
  BY Inductive
<1>3. IInv => Exclusive
  BY DEF IInv, Exclusive, Disjoint, Accounted
<1> QED
  BY <1>1, <1>2, <1>3, PTL DEF Spec

\* Under the same condition a block holds what its owner wrote, or zeros.
THEOREM DataIsolatedTheorem == ASSUME Quiescent PROVE Spec => []DataIsolated
<1>1. Init => IInv
  BY InitOK
<1>2. IInv /\ [Next]_vars => IInv'
  BY Inductive
<1>3. IInv => DataIsolated
  BY DEF IInv
<1> QED
  BY <1>1, <1>2, <1>3, PTL DEF Spec
------------------------------------------------------------------------------
(* The SWANK server *)

\* A generation names one connection; the latest one that is served has the
\* output, and nobody has it who is not served.
Reached == {"read", "exec", "eval", "send", "reply", "ending", "close", "closed"}
Over == {"close", "closed"}
SenderInv ==
  /\ \A c \in Conn : token[c] = 0 <=> ~(shared /\ serverAt[c] \in Reached)
  /\ \A c, d \in Conn : token[c] = token[d] /\ token[c] # 0 => c = d
  /\ \A c \in Conn : (shared /\ token[c] = gen /\ serverAt[c] \in Reached \ Over) => current = c
  /\ current # "stdout" => shared /\ token[current] = gen /\ serverAt[current] \in Reached \ Over

\* The frames that a connection still has to write, and what the answers among
\* frames may be: none, or one with the given id.
Due(c) == IF serverAt[c] = "reply" THEN events[c] ELSE <<>>
NoReturn(q) == \A i \in 1..Len(q) : q[i].kind # "return"
OneReturn(q, n) ==
  \A i \in 1..Len(q) :
    q[i].kind = "return" => q[i].id = n /\ \A j \in 1..Len(q) : j # i => q[j].kind # "return"
Handling(c) == serverAt[c] \in {"exec", "eval", "send"}

\* Connection c has one request or one answer under way, the last one's, while
\* its client waits, and nothing otherwise.
Own(c) ==
  /\ toServer[c] # <<>> => Len(toServer[c]) = 1 /\ toServer[c][1].id = msgID[c] /\ ~Handling(c)
  /\ Handling(c) => message[c].id = msgID[c]
  /\ OneReturn(toClient[c], msgID[c]) /\ OneReturn(Due(c), msgID[c])
  /\ NoReturn(toClient[c]) \/ NoReturn(Due(c))
  /\ (toServer[c] # <<>> \/ Handling(c)) => NoReturn(toClient[c]) /\ NoReturn(Due(c))
  /\ clientAt[c] # "wait" => /\ answer[c] = msgID[c] /\ toServer[c] = <<>> /\ ~Handling(c)
                             /\ NoReturn(toClient[c]) /\ NoReturn(Due(c))
AnswersInv == \A c \in Conn : confused[c] \/ clientAt[c] = "left" \/ Own(c)
NotYet == \A c \in Conn : clientAt[c] = "none" => serverAt[c] = "none"
SwankInv == SwankTypeOK /\ SenderInv /\ AnswersInv /\ NotYet

LEMMA SwankInitOK == SwankInit => SwankInv
<1> SUFFICES ASSUME SwankInit PROVE SwankInv
  OBVIOUS
<1>1. SenderOK /\ WireOK /\ ClientOK
  <2>1. <<>> \in Seq(Job) /\ <<>> \in Seq(Frame)
    OBVIOUS
  <2> QED
    BY <2>1 DEF SwankInit, SenderOK, WireOK, ClientOK
<1>2. ServerOK
  <2>1. NoJob \in Job
    BY DEF NoJob, Job, Op
  <2>2. <<>> \in Seq(Frame) /\ Len(<<>>) = 0
    OBVIOUS
  <2> QED
    BY <2>1, <2>2 DEF SwankInit, ServerOK, ServerStep
<1>3. SenderInv
  BY DEF SwankInit, SenderInv, Reached
<1>4. ASSUME NEW c \in Conn PROVE Own(c)
  <2>1. /\ toServer[c] = <<>> /\ toClient[c] = <<>> /\ Due(c) = <<>> /\ ~Handling(c)
        /\ answer[c] = msgID[c]
    BY DEF SwankInit, Due, Handling
  <2>2. NoReturn(<<>>) /\ OneReturn(<<>>, msgID[c])
    BY DEF NoReturn, OneReturn
  <2> QED
    BY <2>1, <2>2 DEF Own
<1>5. NotYet
  BY DEF SwankInit, NotYet
<1> QED
  BY <1>1, <1>2, <1>3, <1>4, <1>5 DEF SwankInv, SwankTypeOK, AnswersInv

\* Who has the output and who is served stays what it was.
LEMMA SenderKept ==
  ASSUME SwankInv, NEW c \in Conn, UNCHANGED <<shared, current, gen, token>>,
         \A d \in Conn \ {c} : serverAt'[d] = serverAt[d],
         shared => (serverAt[c] \in Reached <=> serverAt'[c] \in Reached),
         shared => (serverAt[c] \in Over <=> serverAt'[c] \in Over)
  PROVE  SenderInv'
<1>1. SenderInv /\ current \in Conn \cup {"stdout"}
  BY DEF SwankInv, SwankTypeOK, SenderOK
<1>2. ASSUME NEW d \in Conn, shared
      PROVE  /\ serverAt[d] \in Reached <=> serverAt'[d] \in Reached
             /\ serverAt[d] \in Over <=> serverAt'[d] \in Over
  BY <1>2
<1> QED
  BY <1>1, <1>2 DEF SenderInv

\* The other connections may get output of this one, which is no answer.
OthersKept(c) ==
  \A d \in Conn \ {c} :
    /\ toServer'[d] = toServer[d] /\ serverAt'[d] = serverAt[d] /\ message'[d] = message[d]
    /\ events'[d] = events[d] /\ clientAt'[d] = clientAt[d] /\ msgID'[d] = msgID[d]
    /\ answer'[d] = answer[d] /\ confused'[d] = confused[d]
    /\ \/ toClient'[d] = toClient[d]
       \/ \E f \in Frame : f.kind # "return" /\ toClient'[d] = Append(toClient[d], f)

LEMMA AppendOutput ==
  ASSUME NEW q \in Seq(Frame), NEW f \in Frame, f.kind # "return", NEW n
  PROVE  /\ NoReturn(Append(q, f)) <=> NoReturn(q)
         /\ OneReturn(q, n) => OneReturn(Append(q, f), n)
<1> DEFINE t == Append(q, f)
<1>1. /\ Len(q) \in Nat /\ Len(t) = Len(q) + 1 /\ t[Len(q) + 1] = f
      /\ \A i \in 1..Len(q) : t[i] = q[i]
  OBVIOUS
<1> HIDE DEF t
<1>2. NoReturn(t) <=> NoReturn(q)
  BY <1>1 DEF NoReturn
<1>3. OneReturn(q, n) => OneReturn(t, n)
  <2> SUFFICES ASSUME OneReturn(q, n), NEW i \in 1..Len(t), t[i].kind = "return"
               PROVE  t[i].id = n /\ \A j \in 1..Len(t) : j # i => t[j].kind # "return"
    BY DEF OneReturn
  <2>1. i \in 1..Len(q)
    BY <1>1
  <2>2. t[i].id = n /\ \A j \in 1..Len(q) : j # i => q[j].kind # "return"
    BY <1>1, <2>1 DEF OneReturn
  <2> QED
    BY <1>1, <2>2
<1> QED
  BY <1>2, <1>3 DEF t

LEMMA AppendReturn ==
  ASSUME NEW q \in Seq(Frame), NoReturn(q), NEW f \in Frame, NEW n, f.kind = "return" => f.id = n
  PROVE  OneReturn(Append(q, f), n)
<1> DEFINE t == Append(q, f)
<1>1. /\ Len(q) \in Nat /\ Len(t) = Len(q) + 1 /\ t[Len(q) + 1] = f
      /\ \A i \in 1..Len(q) : t[i] = q[i]
  OBVIOUS
<1> HIDE DEF t
<1>2. OneReturn(t, n)
  BY <1>1 DEF NoReturn, OneReturn
<1> QED
  BY <1>2 DEF t

\* What is left when the first frame has gone.
LEMMA TailReturns ==
  ASSUME NEW q \in Seq(Frame), q # <<>>, NEW n
  PROVE  /\ Tail(q) \in Seq(Frame) /\ Head(q) \in Frame
         /\ NoReturn(q) => NoReturn(Tail(q)) /\ Head(q).kind # "return"
         /\ OneReturn(q, n) =>
              /\ OneReturn(Tail(q), n)
              /\ Head(q).kind = "return" => Head(q).id = n /\ NoReturn(Tail(q))
<1> DEFINE t == Tail(q)
<1>1. /\ Len(q) \in Nat \ {0} /\ Len(t) = Len(q) - 1 /\ Head(q) = q[1] /\ q[1] \in Frame
      /\ t \in Seq(Frame) /\ \A i \in 1..Len(t) : t[i] = q[i + 1] /\ i + 1 \in 1..Len(q) /\ i + 1 # 1
  OBVIOUS
<1> HIDE DEF t
<1>2. 1 \in 1..Len(q)
  BY <1>1
<1>3. NoReturn(q) => NoReturn(t) /\ q[1].kind # "return"
  BY <1>1, <1>2 DEF NoReturn
<1>4. ASSUME OneReturn(q, n) PROVE OneReturn(t, n)
  <2> SUFFICES ASSUME NEW i \in 1..Len(t), t[i].kind = "return"
               PROVE  t[i].id = n /\ \A j \in 1..Len(t) : j # i => t[j].kind # "return"
    BY DEF OneReturn
  <2>1. q[i + 1].id = n /\ \A j \in 1..Len(q) : j # i + 1 => q[j].kind # "return"
    BY <1>1, <1>4 DEF OneReturn
  <2>2. \A j \in 1..Len(t) : j # i => j + 1 # i + 1
    BY <1>1
  <2> QED
    BY <1>1, <2>1, <2>2
<1>5. ASSUME OneReturn(q, n), q[1].kind = "return" PROVE q[1].id = n /\ NoReturn(t)
  <2>1. q[1].id = n /\ \A j \in 1..Len(q) : j # 1 => q[j].kind # "return"
    BY <1>2, <1>5 DEF OneReturn
  <2> QED
    BY <1>1, <2>1 DEF NoReturn
<1> QED
  BY <1>1, <1>3, <1>4, <1>5 DEF t

LEMMA AnswersKept ==
  ASSUME SwankInv, NEW c \in Conn, OthersKept(c), confused'[c] \/ clientAt'[c] = "left" \/ Own(c)'
  PROVE  AnswersInv'
<1> SUFFICES ASSUME NEW d \in Conn \ {c}, ~confused[d], clientAt[d] # "left"
             PROVE  Own(d)'
  BY DEF AnswersInv, OthersKept
<1>1. Own(d) /\ toClient[d] \in Seq(Frame)
  BY DEF SwankInv, AnswersInv, SwankTypeOK, WireOK
<1>2. /\ toServer'[d] = toServer[d] /\ serverAt'[d] = serverAt[d] /\ message'[d] = message[d]
      /\ events'[d] = events[d] /\ clientAt'[d] = clientAt[d] /\ msgID'[d] = msgID[d]
      /\ answer'[d] = answer[d]
  BY DEF OthersKept
<1>3. (Handling(d)' <=> Handling(d)) /\ Due(d)' = Due(d)
  BY <1>2 DEF Handling, Due
<1>4. /\ NoReturn(toClient'[d]) <=> NoReturn(toClient[d])
      /\ OneReturn(toClient[d], msgID[d]) => OneReturn(toClient'[d], msgID[d])
  <2>1. CASE toClient'[d] = toClient[d]
    BY <2>1
  <2>2. CASE \E f \in Frame : f.kind # "return" /\ toClient'[d] = Append(toClient[d], f)
    <3>1. PICK f \in Frame : f.kind # "return" /\ toClient'[d] = Append(toClient[d], f)
      BY <2>2
    <3> QED
      BY <1>1, <3>1, AppendOutput
  <2> QED
    BY <2>1, <2>2 DEF OthersKept
<1>5. NoReturn(Due(d)') <=> NoReturn(Due(d))
  BY <1>3
<1> QED
  BY <1>1, <1>2, <1>3, <1>4, <1>5 DEF Own

\* The goroutine of c goes on, and has nothing due.
LEMMA OwnKept ==
  ASSUME NEW c \in Conn, UNCHANGED <<toServer, toClient, msgID, answer>>,
         clientAt'[c] = "wait" <=> clientAt[c] = "wait", serverAt'[c] # "reply",
         Handling(c) => message'[c] = message[c],
         Handling(c) <=> serverAt'[c] \in {"exec", "eval", "send"}
  PROVE  Own(c) => Own(c)'
<1>1. Due(c)' = <<>>
  BY DEF Due
<1>2. NoReturn(<<>>) /\ OneReturn(<<>>, msgID[c])
  BY DEF NoReturn, OneReturn
<1>3. Handling(c)' <=> Handling(c)
  BY DEF Handling
<1>4. NoReturn(Due(c)') /\ OneReturn(Due(c)', msgID'[c])
  BY <1>1, <1>2
<1> QED
  BY <1>3, <1>4 DEF Own

\* Nothing but the place of the goroutine of c, and perhaps its writer or target,
\* changes, and it goes on with its request or has none.
LEMMA GoesOn ==
  ASSUME SwankInv, NEW c \in Conn, NEW step \in ServerStep, ServerGoes(c, step),
         UNCHANGED <<shared, current, gen, token, events, wire, client>>,
         outWriter' \in Conn \cup {"stdout", "sender"}, execBy' \in Conn \cup {"nobody"},
         message' \in [Conn -> Job], target' \in [Conn -> Conn \cup {"stdout", "sender"}],
         \A d \in Conn \ {c} : message'[d] = message[d],
         shared => (serverAt[c] \in Reached <=> step \in Reached),
         shared => (serverAt[c] \in Over <=> step \in Over),
         Handling(c) => message'[c] = message[c],
         Handling(c) <=> step \in {"exec", "eval", "send"},
         step # "reply", serverAt[c] # "none"
  PROVE  SwankInv'
<1>1. /\ serverAt \in [Conn -> ServerStep] /\ serverAt' = [serverAt EXCEPT ![c] = step]
      /\ UNCHANGED <<toServer, toClient, clientAt, msgID, answer, confused>>
  BY DEF SwankInv, SwankTypeOK, ServerOK, ServerGoes, wire, client
<1>2. serverAt' \in [Conn -> ServerStep] /\ serverAt'[c] = step
      /\ \A d \in Conn \ {c} : serverAt'[d] = serverAt[d]
  BY <1>1
<1>3. SwankTypeOK'
  <2>1. SenderOK' /\ ServerOK'
    BY <1>2 DEF SwankInv, SwankTypeOK, SenderOK, ServerOK
  <2>2. WireOK' /\ ClientOK'
    BY <1>1 DEF SwankInv, SwankTypeOK, WireOK, ClientOK
  <2> QED
    BY <2>1, <2>2 DEF SwankTypeOK
<1>4. SenderInv'
  BY <1>2, SenderKept
<1>5. OthersKept(c)
  BY <1>1, <1>2 DEF OthersKept
<1>6. Own(c) => Own(c)'
  BY <1>1, <1>2, OwnKept
<1>7. confused'[c] \/ clientAt'[c] = "left" \/ Own(c)'
  <2>1. confused[c] \/ clientAt[c] = "left" \/ Own(c)
    BY DEF SwankInv, AnswersInv
  <2> QED
    BY <1>1, <1>6, <2>1
<1>8. AnswersInv'
  BY <1>5, <1>7, AnswersKept
<1>9. NotYet'
  BY <1>1, <1>2 DEF SwankInv, NotYet
<1> QED
  BY <1>3, <1>4, <1>8, <1>9 DEF SwankInv

LEMMA RegisterStep ==
  ASSUME SwankInv, NEW c \in Conn, RegisterSwankEnv(c)
  PROVE  SwankInv'
<1>1. /\ ~shared /\ serverAt[c] = "start" /\ outWriter' = c /\ ServerGoes(c, "read")
      /\ UNCHANGED <<shared, current, gen, token, events, wire, client, execBy, message, target>>
  BY DEF RegisterSwankEnv, sender
<1>2. "read" \in ServerStep /\ ~Handling(c)
  BY <1>1 DEF ServerStep, Handling
<1> QED
  BY <1>1, <1>2, GoesOn DEF SwankInv, SwankTypeOK, ServerOK

LEMMA ReadFrameFailsStep ==
  ASSUME SwankInv, NEW c \in Conn, ReadFrameFails(c)
  PROVE  SwankInv'
<1>1. /\ serverAt[c] = "read" /\ ServerGoes(c, "ending")
      /\ UNCHANGED <<shared, current, gen, token, events, wire, client, execBy, message, target, outWriter>>
  BY DEF ReadFrameFails, sender
<1>2. /\ "ending" \in ServerStep /\ ~Handling(c) /\ {"read", "ending"} \subseteq Reached \ Over
      /\ outWriter \in Conn \cup {"stdout", "sender"}
  BY <1>1 DEF ServerStep, Handling, Reached, Over, SwankInv, SwankTypeOK, SenderOK
<1> QED
  BY <1>1, <1>2, GoesOn DEF SwankInv, SwankTypeOK, ServerOK

LEMMA ExecStep ==
  ASSUME SwankInv, NEW c \in Conn, Exec(c)
  PROVE  SwankInv'
<1>1. /\ serverAt[c] = "exec" /\ ServerGoes(c, "eval") /\ (execBy' = c \/ execBy' = execBy)
      /\ UNCHANGED <<shared, current, gen, token, events, wire, client, message, target, outWriter>>
  BY DEF Exec, sender
<1>2. /\ "eval" \in ServerStep /\ Handling(c) /\ {"exec", "eval"} \subseteq Reached \ Over
      /\ outWriter \in Conn \cup {"stdout", "sender"} /\ execBy' \in Conn \cup {"nobody"}
  BY <1>1 DEF ServerStep, Handling, Reached, Over, SwankInv, SwankTypeOK, SenderOK, ServerOK
<1> QED
  BY <1>1, <1>2, GoesOn DEF SwankInv, SwankTypeOK, ServerOK

LEMMA HandleSendsStep ==
  ASSUME SwankInv, NEW c \in Conn, HandleSends(c)
  PROVE  SwankInv'
<1>1. /\ serverAt[c] = "eval" /\ ServerGoes(c, "send")
      /\ UNCHANGED <<shared, current, gen, token, events, wire, client, message, execBy, outWriter>>
      /\ \E d \in {current, c, outWriter} : target' = [target EXCEPT ![c] = d]
  BY DEF HandleSends, sender
<1>2. /\ "send" \in ServerStep /\ Handling(c) /\ {"eval", "send"} \subseteq Reached \ Over
      /\ outWriter \in Conn \cup {"stdout", "sender"}
  BY <1>1 DEF ServerStep, Handling, Reached, Over, SwankInv, SwankTypeOK, SenderOK
<1>3. target' \in [Conn -> Conn \cup {"stdout", "sender"}]
  <2>1. \A d \in {current, c, outWriter} : d \in Conn \cup {"stdout", "sender"}
    BY DEF SwankInv, SwankTypeOK, SenderOK
  <2> QED
    BY <1>1, <2>1 DEF SwankInv, SwankTypeOK, ServerOK
<1> QED
  BY <1>1, <1>2, <1>3, GoesOn DEF SwankInv, SwankTypeOK, ServerOK

LEMMA ReplyFailsStep ==
  ASSUME SwankInv, NEW c \in Conn, ReplyFails(c)
  PROVE  SwankInv'
<1>1. /\ serverAt[c] = "reply" /\ ServerGoes(c, "ending")
      /\ UNCHANGED <<shared, current, gen, token, events, wire, client, execBy, message, target, outWriter>>
  BY DEF ReplyFails, sender
<1>2. /\ "ending" \in ServerStep /\ ~Handling(c) /\ {"reply", "ending"} \subseteq Reached \ Over
      /\ outWriter \in Conn \cup {"stdout", "sender"}
  BY <1>1 DEF ServerStep, Handling, Reached, Over, SwankInv, SwankTypeOK, SenderOK
<1> QED
  BY <1>1, <1>2, GoesOn DEF SwankInv, SwankTypeOK, ServerOK

LEMMA RepliedStep ==
  ASSUME SwankInv, NEW c \in Conn, Replied(c)
  PROVE  SwankInv'
<1>1. /\ serverAt[c] = "reply" /\ events[c] = <<>> /\ ServerGoes(c, "read")
      /\ message' = [message EXCEPT ![c] = NoJob] /\ target' = [target EXCEPT ![c] = "stdout"]
      /\ UNCHANGED <<shared, current, gen, token, events, wire, client, execBy, outWriter>>
  BY DEF Replied, sender
<1>2. /\ "read" \in ServerStep /\ ~Handling(c) /\ {"reply", "read"} \subseteq Reached \ Over
      /\ outWriter \in Conn \cup {"stdout", "sender"}
  BY <1>1 DEF ServerStep, Handling, Reached, Over, SwankInv, SwankTypeOK, SenderOK
<1>3. /\ message' \in [Conn -> Job] /\ target' \in [Conn -> Conn \cup {"stdout", "sender"}]
      /\ \A d \in Conn \ {c} : message'[d] = message[d]
  <2>1. NoJob \in Job
    BY DEF NoJob, Job, Op
  <2> QED
    BY <1>1, <2>1 DEF SwankInv, SwankTypeOK, ServerOK
<1> QED
  BY <1>1, <1>2, <1>3, GoesOn DEF SwankInv, SwankTypeOK, ServerOK

LEMMA CloseStep ==
  ASSUME SwankInv, NEW c \in Conn, Close(c)
  PROVE  SwankInv'
<1>1. /\ serverAt[c] = "close" /\ ServerGoes(c, "closed")
      /\ UNCHANGED <<shared, current, gen, token, events, wire, client, execBy, message, target, outWriter>>
  BY DEF Close, sender
<1>2. /\ "closed" \in ServerStep /\ ~Handling(c) /\ {"close", "closed"} \subseteq Reached \cap Over
      /\ outWriter \in Conn \cup {"stdout", "sender"}
  BY <1>1 DEF ServerStep, Handling, Reached, Over, SwankInv, SwankTypeOK, SenderOK
<1> QED
  BY <1>1, <1>2, GoesOn DEF SwankInv, SwankTypeOK, ServerOK

LEMMA AcceptStep ==
  ASSUME SwankInv, NEW c \in Conn, Accept(c)
  PROVE  SwankInv'
<1>1. /\ clientAt[c] = "none" /\ clientAt' = [clientAt EXCEPT ![c] = "idle"]
      /\ serverAt' = [serverAt EXCEPT ![c] = "start"]
      /\ UNCHANGED <<shared, outWriter, current, gen, token, message, target, events, execBy,
                     toServer, toClient, msgID, answer, confused>>
  BY DEF Accept, ServerGoes, sender, wire
<1>2. serverAt[c] = "none" /\ serverAt \in [Conn -> ServerStep]
      /\ clientAt \in [Conn -> {"none", "idle", "wait", "left"}]
  BY <1>1 DEF SwankInv, NotYet, SwankTypeOK, ServerOK, ClientOK
<1>3. /\ serverAt' \in [Conn -> ServerStep] /\ serverAt'[c] = "start"
      /\ clientAt' \in [Conn -> {"none", "idle", "wait", "left"}] /\ clientAt'[c] = "idle"
      /\ \A d \in Conn \ {c} : serverAt'[d] = serverAt[d] /\ clientAt'[d] = clientAt[d]
  BY <1>1, <1>2 DEF ServerStep
<1>4. SwankTypeOK'
  BY <1>1, <1>3 DEF SwankInv, SwankTypeOK, SenderOK, ServerOK, WireOK, ClientOK
<1>5. SenderInv'
  <2>1. {serverAt[c], serverAt'[c]} \cap Reached = {} /\ {serverAt[c], serverAt'[c]} \cap Over = {}
    BY <1>2, <1>3 DEF Reached, Over
  <2> QED
    BY <1>1, <1>3, <2>1, SenderKept
<1>6. AnswersInv'
  <2>1. OthersKept(c)
    BY <1>1, <1>3 DEF OthersKept
  <2>2. Own(c) => Own(c)'
    <3>1. ~Handling(c)
      BY <1>2 DEF Handling
    <3> QED
      BY <1>1, <1>3, <3>1, OwnKept
  <2>3. confused'[c] \/ Own(c)'
    BY <1>1, <2>2 DEF SwankInv, AnswersInv
  <2> QED
    BY <2>1, <2>3, AnswersKept
<1>7. NotYet'
  BY <1>3 DEF SwankInv, NotYet
<1> QED
  BY <1>4, <1>5, <1>6, <1>7 DEF SwankInv

\* The goroutine of c comes to another step, and the sender changes.
LEMMA SenderGoes ==
  ASSUME SwankInv, NEW c \in Conn, NEW step \in ServerStep \ {"reply", "exec", "eval", "send"},
         ServerGoes(c, step), ~Handling(c), serverAt[c] # "none",
         UNCHANGED <<shared, outWriter, message, target, events, execBy, wire, client>>,
         SenderOK', SenderInv'
  PROVE  SwankInv'
<1>1. /\ serverAt \in [Conn -> ServerStep] /\ serverAt' = [serverAt EXCEPT ![c] = step]
      /\ UNCHANGED <<toServer, toClient, clientAt, msgID, answer, confused>>
  BY DEF SwankInv, SwankTypeOK, ServerOK, ServerGoes, wire, client
<1>2. serverAt' \in [Conn -> ServerStep] /\ serverAt'[c] = step
      /\ \A d \in Conn \ {c} : serverAt'[d] = serverAt[d]
  BY <1>1
<1>3. SwankTypeOK'
  BY <1>1, <1>2 DEF SwankInv, SwankTypeOK, ServerOK, WireOK, ClientOK
<1>4. AnswersInv'
  <2>1. OthersKept(c)
    BY <1>1, <1>2 DEF OthersKept
  <2>2. Own(c) => Own(c)'
    BY <1>1, <1>2, OwnKept
  <2>3. confused'[c] \/ clientAt'[c] = "left" \/ Own(c)'
    BY <1>1, <2>2 DEF SwankInv, AnswersInv
  <2> QED
    BY <2>1, <2>3, AnswersKept
<1>5. NotYet'
  BY <1>1, <1>2 DEF SwankInv, NotYet
<1> QED
  BY <1>3, <1>4, <1>5 DEF SwankInv

LEMMA SetCurrentStep ==
  ASSUME SwankInv, NEW c \in Conn, SetCurrent(c)
  PROVE  SwankInv'
<1>1. /\ shared /\ serverAt[c] = "start" /\ gen' = gen + 1 /\ token' = [token EXCEPT ![c] = gen + 1]
      /\ current' = c /\ ServerGoes(c, "read")
      /\ UNCHANGED <<shared, outWriter, message, target, events, execBy, wire, client>>
  BY DEF SetCurrent
<1>2. SenderOK /\ serverAt \in [Conn -> ServerStep]
  BY DEF SwankInv, SwankTypeOK, ServerOK
<1>3. /\ serverAt'[c] = "read" /\ \A d \in Conn \ {c} : serverAt'[d] = serverAt[d]
      /\ token'[c] = gen + 1 /\ \A d \in Conn \ {c} : token'[d] = token[d]
      /\ \A d \in Conn : token[d] \in Nat /\ token[d] <= gen
      /\ gen \in Nat
  BY <1>1, <1>2 DEF ServerGoes, SenderOK
<1>4. SenderOK'
  BY <1>1, <1>2, <1>3 DEF SenderOK
<1>5. SenderInv'
  <2>1. \A d \in Conn : token[d] = 0 <=> ~(shared /\ serverAt[d] \in Reached)
    BY DEF SwankInv, SenderInv
  <2>2. \A d, e \in Conn : token[d] = token[e] /\ token[d] # 0 => d = e
    BY DEF SwankInv, SenderInv
  <2>3. \A d \in Conn \ {c} : token'[d] # gen'
    BY <1>1, <1>3
  <2>4. "read" \in Reached \ Over
    BY DEF Reached, Over
  <2>5. \A d \in Conn : token'[d] = 0 <=> ~(shared /\ serverAt'[d] \in Reached)
    BY <1>1, <1>3, <2>1, <2>4
  <2>6. \A d, e \in Conn : token'[d] = token'[e] /\ token'[d] # 0 => d = e
    BY <1>1, <1>3, <2>2, <2>3
  <2>7. \A d \in Conn : token'[d] = gen' => d = c
    BY <2>3
  <2> QED
    BY <1>1, <1>3, <2>4, <2>5, <2>6, <2>7 DEF SenderInv
<1>6. "read" \in ServerStep \ {"reply", "exec", "eval", "send"} /\ ~Handling(c)
  BY <1>1 DEF ServerStep, Handling
<1> QED
  BY <1>1, <1>4, <1>5, <1>6, SenderGoes

LEMMA ClearStep ==
  ASSUME SwankInv, NEW c \in Conn, Clear(c)
  PROVE  SwankInv'
<1>1. /\ serverAt[c] = "ending" /\ ServerGoes(c, "close")
      /\ current' = IF shared /\ token[c] = gen THEN "stdout" ELSE current
      /\ UNCHANGED <<gen, token>>
      /\ UNCHANGED <<shared, outWriter, message, target, events, execBy, wire, client>>
  BY DEF Clear, Clears
<1>2. SenderOK /\ SenderInv /\ serverAt \in [Conn -> ServerStep]
  BY DEF SwankInv, SwankTypeOK, ServerOK
<1>3. serverAt'[c] = "close" /\ \A d \in Conn \ {c} : serverAt'[d] = serverAt[d]
  BY <1>1, <1>2 DEF ServerGoes
<1>4. SenderOK'
  <2>1. current' \in Conn \cup {"stdout"}
    BY <1>1, <1>2 DEF SenderOK
  <2> QED
    BY <1>1, <1>2, <2>1 DEF SenderOK
<1>5. SenderInv'
  <2>1. "ending" \in Reached \ Over /\ "close" \in Reached \cap Over
    BY DEF Reached, Over
  <2>2. \A d \in Conn : serverAt'[d] \in Reached <=> serverAt[d] \in Reached
    BY <1>1, <1>3, <2>1
  <2>3. ASSUME NEW d \in Conn, shared, token[d] = gen, serverAt'[d] \in Reached \ Over
        PROVE  current' = d
    <3>1. d # c /\ serverAt[d] \in Reached \ Over /\ current = d
      BY <1>2, <1>3, <2>1, <2>3 DEF SenderInv
    <3>2. token[d] # 0
      BY <1>2, <2>3, <3>1 DEF SenderInv
    <3>3. token[c] # gen
      BY <1>2, <2>3, <3>1, <3>2 DEF SenderInv
    <3> QED
      BY <1>1, <3>1, <3>3
  <2>4. ASSUME current' # "stdout"
        PROVE  shared /\ token[current'] = gen /\ serverAt'[current'] \in Reached \ Over
    <3>1. current' = current /\ ~(shared /\ token[c] = gen)
      BY <1>1, <2>4
    <3>2. current \in Conn /\ shared /\ token[current] = gen /\ serverAt[current] \in Reached \ Over
      BY <1>2, <2>4, <3>1 DEF SenderInv, SenderOK
    <3>3. current # c
      BY <3>1, <3>2
    <3> QED
      BY <1>3, <3>1, <3>2, <3>3
  <2> QED
    BY <1>1, <1>2, <2>2, <2>3, <2>4 DEF SenderInv
<1>6. "close" \in ServerStep \ {"reply", "exec", "eval", "send"} /\ ~Handling(c)
  BY <1>1 DEF ServerStep, Handling
<1> QED
  BY <1>1, <1>4, <1>5, <1>6, SenderGoes

LEMMA ReadFrameStep ==
  ASSUME SwankInv, NEW c \in Conn, ReadFrame(c)
  PROVE  SwankInv'
<1> DEFINE m == Head(toServer[c])
           rest == Tail(toServer[c])
<1>1. /\ serverAt[c] = "read" /\ toServer[c] # <<>> /\ message' = [message EXCEPT ![c] = m]
      /\ toServer' = [toServer EXCEPT ![c] = rest] /\ serverAt' = [serverAt EXCEPT ![c] = "exec"]
      /\ UNCHANGED <<shared, outWriter, current, gen, token, target, events, execBy, toClient,
                     clientAt, msgID, answer, confused>>
  BY DEF ReadFrame, ServerGoes, sender, client
<1>2. /\ toServer \in [Conn -> Seq(Job)] /\ serverAt \in [Conn -> ServerStep]
      /\ message \in [Conn -> Job]
  BY DEF SwankInv, SwankTypeOK, WireOK, ServerOK
<1>3. m \in Job /\ rest \in Seq(Job) /\ m = toServer[c][1] /\ (Len(toServer[c]) = 1 => rest = <<>>)
  BY <1>1, <1>2
<1> HIDE DEF m, rest
<1>4. /\ serverAt' \in [Conn -> ServerStep] /\ serverAt'[c] = "exec"
      /\ message' \in [Conn -> Job] /\ message'[c] = m
      /\ toServer' \in [Conn -> Seq(Job)] /\ toServer'[c] = rest
      /\ \A d \in Conn \ {c} : /\ serverAt'[d] = serverAt[d] /\ message'[d] = message[d]
                               /\ toServer'[d] = toServer[d]
  BY <1>1, <1>2, <1>3 DEF ServerStep
<1>5. SwankTypeOK'
  <2>1. SenderOK' /\ ServerOK'
    BY <1>1, <1>4 DEF SwankInv, SwankTypeOK, SenderOK, ServerOK
  <2>2. WireOK' /\ ClientOK'
    BY <1>1, <1>4 DEF SwankInv, SwankTypeOK, WireOK, ClientOK
  <2> QED
    BY <2>1, <2>2 DEF SwankTypeOK
<1>6. SenderInv'
  <2>1. {"read", "exec"} \subseteq Reached \ Over
    BY DEF Reached, Over
  <2> QED
    BY <1>1, <1>4, <2>1, SenderKept
<1>7. AnswersInv'
  <2>1. OthersKept(c)
    BY <1>1, <1>4 DEF OthersKept
  <2>2. ASSUME Own(c) PROVE Own(c)'
    <3>1. /\ Len(toServer[c]) = 1 /\ m.id = msgID[c] /\ ~Handling(c)
          /\ OneReturn(toClient[c], msgID[c])
          /\ NoReturn(toClient[c]) /\ clientAt[c] = "wait"
      BY <1>1, <1>3, <2>2 DEF Own
    <3>2. Due(c)' = <<>> /\ Handling(c)' /\ toServer'[c] = <<>>
      BY <1>3, <1>4, <3>1 DEF Due, Handling
    <3>3. NoReturn(<<>>) /\ OneReturn(<<>>, msgID[c])
      BY DEF NoReturn, OneReturn
    <3>4. NoReturn(Due(c)') /\ OneReturn(Due(c)', msgID[c])
      BY <3>2, <3>3
    <3> QED
      BY <1>1, <1>4, <3>1, <3>2, <3>4 DEF Own
  <2>3. confused'[c] \/ clientAt'[c] = "left" \/ Own(c)'
    BY <1>1, <2>2 DEF SwankInv, AnswersInv
  <2> QED
    BY <2>1, <2>3, AnswersKept
<1>8. NotYet'
  BY <1>1, <1>4 DEF SwankInv, NotYet
<1> QED
  BY <1>5, <1>6, <1>7, <1>8 DEF SwankInv

\* The evaluation ends with some frames to write, among them one answer at most;
\* it may have sent output to anybody.
LEMMA ExecReturnsLemma ==
  ASSUME SwankInv, NEW c \in Conn, Handling(c), NEW frames \in Seq(Frame), ExecReturns(c, frames),
         Len(frames) <= 2, OneReturn(frames, message[c].id),
         toClient' \in [Conn -> Seq(Frame)],
         \A d \in Conn : \/ toClient'[d] = toClient[d]
                         \/ \E f \in Frame : f.kind # "return" /\ toClient'[d] = Append(toClient[d], f)
  PROVE  SwankInv'
<1>1. /\ events' = [events EXCEPT ![c] = frames] /\ serverAt' = [serverAt EXCEPT ![c] = "reply"]
      /\ UNCHANGED <<shared, outWriter, current, gen, token, message, target, toServer,
                     clientAt, msgID, answer, confused>>
  BY DEF ExecReturns, ServerGoes, sender, client
<1>2. execBy' \in Conn \cup {"nobody"}
  BY DEF ExecReturns, SwankInv, SwankTypeOK, ServerOK
<1>3. /\ serverAt \in [Conn -> ServerStep] /\ events \in [Conn -> Seq(Frame)]
      /\ toClient[c] \in Seq(Frame)
  BY DEF SwankInv, SwankTypeOK, ServerOK, WireOK
<1>4. /\ serverAt' \in [Conn -> ServerStep] /\ serverAt'[c] = "reply"
      /\ events' \in [Conn -> Seq(Frame)] /\ events'[c] = frames
      /\ \A d \in Conn \ {c} : serverAt'[d] = serverAt[d] /\ events'[d] = events[d]
  BY <1>1, <1>3 DEF ServerStep
<1>5. SwankTypeOK'
  <2>1. SenderOK' /\ WireOK' /\ ClientOK'
    BY <1>1 DEF SwankInv, SwankTypeOK, SenderOK, WireOK, ClientOK
  <2>2. \A d \in Conn : Len(events'[d]) <= 2
    BY <1>4 DEF SwankInv, SwankTypeOK, ServerOK
  <2>3. ServerOK'
    BY <1>1, <1>2, <1>4, <2>2 DEF SwankInv, SwankTypeOK, ServerOK
  <2> QED
    BY <2>1, <2>3 DEF SwankTypeOK
<1>6. SenderInv'
  <2>1. {serverAt[c], "reply"} \subseteq Reached \ Over
    BY DEF Reached, Over, Handling
  <2> QED
    BY <1>1, <1>4, <2>1, SenderKept
<1>7. AnswersInv'
  <2>1. OthersKept(c)
    BY <1>1, <1>4 DEF OthersKept
  <2>2. ASSUME Own(c) PROVE Own(c)'
    <3>1. /\ toServer[c] = <<>> /\ message[c].id = msgID[c] /\ NoReturn(toClient[c])
          /\ OneReturn(toClient[c], msgID[c]) /\ clientAt[c] = "wait"
      BY <2>2 DEF Own
    <3>2. Due(c)' = frames /\ ~Handling(c)'
      BY <1>4 DEF Due, Handling
    <3>3. NoReturn(toClient'[c]) /\ OneReturn(toClient'[c], msgID[c])
      <4>1. CASE toClient'[c] = toClient[c]
        BY <3>1, <4>1
      <4>2. CASE \E f \in Frame : f.kind # "return" /\ toClient'[c] = Append(toClient[c], f)
        <5>1. PICK f \in Frame : f.kind # "return" /\ toClient'[c] = Append(toClient[c], f)
          BY <4>2
        <5> QED
          BY <1>3, <3>1, <5>1, AppendOutput
      <4> QED
        BY <4>1, <4>2
    <3>4. OneReturn(Due(c)', msgID'[c])
      BY <1>1, <3>1, <3>2
    <3> QED
      BY <1>1, <3>1, <3>2, <3>3, <3>4 DEF Own
  <2>3. confused'[c] \/ clientAt'[c] = "left" \/ Own(c)'
    BY <1>1, <2>2 DEF SwankInv, AnswersInv
  <2> QED
    BY <2>1, <2>3, AnswersKept
<1>8. NotYet'
  BY <1>1, <1>4 DEF SwankInv, NotYet, Handling
<1> QED
  BY <1>5, <1>6, <1>7, <1>8 DEF SwankInv

LEMMA FramesLemma ==
  ASSUME NEW n \in Nat
  PROVE  /\ <<>> \in Seq(Frame) /\ OneReturn(<<>>, n) /\ Len(<<>>) <= 2
         /\ <<Return(n)>> \in Seq(Frame) /\ OneReturn(<<Return(n)>>, n) /\ Len(<<Return(n)>>) <= 2
         /\ <<Write, Return(n)>> \in Seq(Frame) /\ OneReturn(<<Write, Return(n)>>, n)
         /\ Len(<<Write, Return(n)>>) <= 2
         /\ Write \in Frame /\ Unreadable \in Frame
         /\ Write.kind = "write" /\ Unreadable.kind = "event"
<1>1. /\ Return(n) \in Frame /\ Return(n).kind = "return" /\ Return(n).id = n
      /\ Write \in Frame /\ Write.kind = "write" /\ Unreadable \in Frame /\ Unreadable.kind = "event"
  BY DEF Return, Write, Unreadable, Frame
<1>2. <<>> \in Seq(Frame) /\ OneReturn(<<>>, n) /\ Len(<<>>) <= 2 /\ NoReturn(<<>>)
  BY DEF OneReturn, NoReturn
<1>3. <<Return(n)>> = Append(<<>>, Return(n)) /\ <<Return(n)>> \in Seq(Frame) /\ Len(<<Return(n)>>) = 1
  BY <1>1
<1>4. OneReturn(<<Return(n)>>, n)
  BY <1>1, <1>2, <1>3, AppendReturn
<1>5. /\ <<Write, Return(n)>> = Append(<<Write>>, Return(n)) /\ <<Write, Return(n)>> \in Seq(Frame)
      /\ Len(<<Write, Return(n)>>) = 2
      /\ <<Write>> = Append(<<>>, Write) /\ <<Write>> \in Seq(Frame)
  BY <1>1
<1>6. NoReturn(<<Write>>)
  BY <1>1, <1>2, <1>5, AppendOutput
<1>7. OneReturn(<<Write, Return(n)>>, n)
  BY <1>1, <1>5, <1>6, AppendReturn
<1> QED
  BY <1>1, <1>2, <1>3, <1>4, <1>5, <1>7

LEMMA HandleStep ==
  ASSUME SwankInv, NEW c \in Conn, HandleAnswer(c) \/ HandleValue(c) \/ HandleExit(c) \/ SendFails(c)
  PROVE  SwankInv'
<1>1. PICK frames \in {<<Return(message[c].id)>>, <<Write, Return(message[c].id)>>, <<>>} :
        ExecReturns(c, frames) /\ UNCHANGED toClient
  BY DEF HandleAnswer, HandleValue, HandleExit, SendFails
<1>2. Handling(c)
  BY DEF Handling, HandleAnswer, HandleValue, HandleExit, SendFails
<1>3. message[c].id \in Nat /\ toClient \in [Conn -> Seq(Frame)]
  BY DEF SwankInv, SwankTypeOK, ServerOK, WireOK, Job
<1>4. frames \in Seq(Frame) /\ Len(frames) <= 2 /\ OneReturn(frames, message[c].id)
  BY <1>1, <1>3, FramesLemma
<1> QED
  BY <1>1, <1>2, <1>3, <1>4, ExecReturnsLemma

\* A frame written to d, which a client that has left does not get.
LEMMA SentLemma ==
  ASSUME WireOK, NEW d, NEW f \in Frame, Sent(d, f)
  PROVE  /\ toClient' \in [Conn -> Seq(Frame)]
         /\ \A e \in Conn : \/ toClient'[e] = toClient[e]
                            \/ e = d /\ toClient'[e] = Append(toClient[e], f)
         /\ (d \in Conn /\ clientAt[d] # "left") => toClient'[d] = Append(toClient[d], f)
<1>1. toClient \in [Conn -> Seq(Frame)]
  BY DEF WireOK
<1>2. CASE d \in {e \in Conn : clientAt[e] # "left"}
  <2>1. d \in Conn /\ toClient' = [toClient EXCEPT ![d] = Append(@, f)]
    BY <1>2 DEF Sent
  <2>2. Append(toClient[d], f) \in Seq(Frame)
    BY <1>1, <2>1
  <2> QED
    BY <1>1, <2>1, <2>2
<1>3. CASE d \notin {e \in Conn : clientAt[e] # "left"}
  BY <1>1, <1>3 DEF Sent
<1> QED
  BY <1>2, <1>3

LEMMA SendSucceedsStep ==
  ASSUME SwankInv, NEW c \in Conn, SendSucceeds(c)
  PROVE  SwankInv'
<1>1. PICK f \in {Write, Unreadable} : Sent(target[c], f)
  BY DEF SendSucceeds
<1>2. Handling(c) /\ ExecReturns(c, <<Return(message[c].id)>>)
  BY DEF SendSucceeds, Handling
<1>3. message[c].id \in Nat /\ WireOK
  BY DEF SwankInv, SwankTypeOK, ServerOK, Job
<1>4. /\ <<Return(message[c].id)>> \in Seq(Frame) /\ Len(<<Return(message[c].id)>>) <= 2
      /\ OneReturn(<<Return(message[c].id)>>, message[c].id)
      /\ f \in Frame /\ f.kind # "return"
  BY <1>1, <1>3, FramesLemma
<1>5. /\ toClient' \in [Conn -> Seq(Frame)]
      /\ \A d \in Conn : \/ toClient'[d] = toClient[d]
                         \/ toClient'[d] = Append(toClient[d], f)
  BY <1>1, <1>3, <1>4, SentLemma
<1> QED
  BY <1>2, <1>4, <1>5, ExecReturnsLemma

\* The answer moves from what is due to the wire.
LEMMA ReplyStep ==
  ASSUME SwankInv, NEW c \in Conn, Reply(c)
  PROVE  SwankInv'
<1> DEFINE f == Head(events[c])
           rest == Tail(events[c])
<1>1. /\ serverAt[c] = "reply" /\ events[c] # <<>> /\ Sent(c, f)
      /\ events' = [events EXCEPT ![c] = rest]
      /\ UNCHANGED <<shared, outWriter, current, gen, token, serverAt, message, target, execBy,
                     toServer, clientAt, msgID, answer, confused>>
  BY DEF Reply, sender, client
<1>2. events \in [Conn -> Seq(Frame)] /\ toClient \in [Conn -> Seq(Frame)] /\ WireOK
  BY DEF SwankInv, SwankTypeOK, WireOK, ServerOK
<1>3. events[c] \in Seq(Frame) /\ Len(events[c]) <= 2
  BY <1>2 DEF SwankInv, SwankTypeOK, ServerOK
<1>4. f \in Frame /\ rest \in Seq(Frame) /\ Len(rest) <= 2
  BY <1>1, <1>3
<1>5. /\ OneReturn(events[c], msgID[c]) =>
           OneReturn(rest, msgID[c]) /\ (f.kind = "return" => f.id = msgID[c] /\ NoReturn(rest))
      /\ NoReturn(events[c]) => NoReturn(rest) /\ f.kind # "return"
  BY <1>1, <1>3, TailReturns
<1> HIDE DEF f, rest
<1>6. /\ toClient' \in [Conn -> Seq(Frame)]
      /\ \A d \in Conn \ {c} : toClient'[d] = toClient[d]
      /\ clientAt[c] # "left" => toClient'[c] = Append(toClient[c], f)
  BY <1>1, <1>2, <1>4, SentLemma
<1>7. /\ events' \in [Conn -> Seq(Frame)] /\ events'[c] = rest
      /\ \A d \in Conn \ {c} : events'[d] = events[d]
  BY <1>1, <1>2, <1>4
<1>8. SwankTypeOK'
  <2>1. \A d \in Conn : Len(events'[d]) <= 2
    BY <1>4, <1>7 DEF SwankInv, SwankTypeOK, ServerOK
  <2>2. SenderOK' /\ ServerOK'
    BY <1>1, <1>7, <2>1 DEF SwankInv, SwankTypeOK, SenderOK, ServerOK
  <2>3. WireOK' /\ ClientOK'
    BY <1>1, <1>6 DEF SwankInv, SwankTypeOK, WireOK, ClientOK
  <2> QED
    BY <2>2, <2>3 DEF SwankTypeOK
<1>9. SenderInv'
  BY <1>1, SenderKept
<1>10. AnswersInv'
  <2>1. OthersKept(c)
    BY <1>1, <1>6, <1>7 DEF OthersKept
  <2>2. ASSUME Own(c), clientAt[c] # "left" PROVE Own(c)'
    <3>1. Due(c) = events[c] /\ Due(c)' = rest /\ ~Handling(c) /\ ~Handling(c)'
      BY <1>1, <1>7 DEF Due, Handling
    <3>2. toClient'[c] = Append(toClient[c], f) /\ toClient[c] \in Seq(Frame)
      BY <1>2, <1>6, <2>2
    <3>3. OneReturn(toClient[c], msgID[c]) /\ OneReturn(events[c], msgID[c])
          /\ (NoReturn(toClient[c]) \/ NoReturn(events[c]))
      BY <2>2, <3>1 DEF Own
    <3>4. /\ OneReturn(toClient'[c], msgID[c]) /\ OneReturn(rest, msgID[c])
          /\ NoReturn(toClient'[c]) \/ NoReturn(rest)
          /\ (NoReturn(toClient[c]) /\ NoReturn(events[c])) => NoReturn(toClient'[c]) /\ NoReturn(rest)
      <4>1. CASE f.kind = "return"
        <5>1. f.id = msgID[c] /\ NoReturn(rest) /\ ~NoReturn(events[c]) /\ NoReturn(toClient[c])
          BY <1>5, <3>3, <4>1
        <5>2. OneReturn(Append(toClient[c], f), msgID[c])
          BY <1>4, <3>2, <5>1, AppendReturn
        <5> QED
          BY <1>5, <3>2, <3>3, <5>1, <5>2
      <4>2. CASE f.kind # "return"
        <5>1. /\ NoReturn(toClient'[c]) <=> NoReturn(toClient[c])
              /\ OneReturn(toClient[c], msgID[c]) => OneReturn(toClient'[c], msgID[c])
          BY <1>4, <3>2, <4>2, AppendOutput
        <5> QED
          BY <1>5, <3>3, <5>1
      <4> QED
        BY <4>1, <4>2
    <3>5. /\ toServer'[c] = toServer[c] /\ msgID'[c] = msgID[c] /\ clientAt'[c] = clientAt[c]
          /\ answer'[c] = answer[c]
      BY <1>1
    <3>6. OneReturn(Due(c)', msgID'[c]) /\ (NoReturn(Due(c)') <=> NoReturn(rest))
      BY <3>1, <3>4, <3>5
    <3> QED
      BY <2>2, <3>1, <3>4, <3>5, <3>6 DEF Own
  <2>3. confused'[c] \/ clientAt'[c] = "left" \/ Own(c)'
    BY <1>1, <2>2 DEF SwankInv, AnswersInv
  <2> QED
    BY <2>1, <2>3, AnswersKept
<1>11. NotYet'
  BY <1>1 DEF SwankInv, NotYet
<1> QED
  BY <1>8, <1>9, <1>10, <1>11 DEF SwankInv

\* Only the client of c moves: the types and the sender are easily kept.
LEMMA ClientMoves ==
  ASSUME SwankInv, NEW c \in Conn, UNCHANGED <<shared, outWriter, sender, server>>,
         WireOK', ClientOK',
         clientAt'[c] # "none",
         \A d \in Conn \ {c} :
           /\ toServer'[d] = toServer[d] /\ toClient'[d] = toClient[d] /\ clientAt'[d] = clientAt[d]
           /\ msgID'[d] = msgID[d] /\ answer'[d] = answer[d] /\ confused'[d] = confused[d],
         confused'[c] \/ clientAt'[c] = "left" \/ Own(c)'
  PROVE  SwankInv'
<1>1. UNCHANGED <<shared, outWriter, current, gen, token, serverAt, message, target, events, execBy>>
  BY DEF sender, server
<1>2. SwankTypeOK'
  BY <1>1 DEF SwankInv, SwankTypeOK, SenderOK, ServerOK
<1>3. SenderInv'
  BY <1>1, SenderKept
<1>4. AnswersInv'
  <2>1. OthersKept(c)
    BY <1>1 DEF OthersKept
  <2> QED
    BY <2>1, AnswersKept
<1>5. NotYet'
  BY <1>1 DEF SwankInv, NotYet
<1> QED
  BY <1>2, <1>3, <1>4, <1>5 DEF SwankInv

\* A client that asks has its former answer and nothing under way.
LEMMA RequestStep ==
  ASSUME SwankInv, NEW c \in Conn, Request(c)
  PROVE  SwankInv'
<1> DEFINE n == msgID[c] + 1
<1>1. PICK op \in Op : toServer' = [toServer EXCEPT ![c] = Append(@, [op |-> op, id |-> msgID'[c]])]
  BY DEF Request
<1>2. /\ clientAt[c] = "idle" /\ msgID' = [msgID EXCEPT ![c] = n]
      /\ clientAt' = [clientAt EXCEPT ![c] = "wait"]
      /\ UNCHANGED <<shared, outWriter, sender, server, toClient, answer, confused>>
  BY DEF Request
<1>3. WireOK /\ ClientOK
  BY DEF SwankInv, SwankTypeOK
<1>4. msgID \in [Conn -> Nat] /\ n \in Nat /\ clientAt \in [Conn -> {"none", "idle", "wait", "left"}]
  BY <1>3 DEF ClientOK
<1> HIDE DEF n
<1>5. /\ msgID' \in [Conn -> Nat] /\ msgID'[c] = n /\ \A d \in Conn \ {c} : msgID'[d] = msgID[d]
      /\ clientAt' \in [Conn -> {"none", "idle", "wait", "left"}] /\ clientAt'[c] = "wait"
      /\ \A d \in Conn \ {c} : clientAt'[d] = clientAt[d]
  BY <1>2, <1>4
<1> DEFINE job == [op |-> op, id |-> n]
<1>6. job \in Job /\ job.id = n /\ toServer' = [toServer EXCEPT ![c] = Append(@, job)]
  BY <1>1, <1>4, <1>5 DEF Job
<1> HIDE DEF job
<1>7. /\ toServer' \in [Conn -> Seq(Job)] /\ \A d \in Conn \ {c} : toServer'[d] = toServer[d]
      /\ toServer[c] = <<>> => Len(toServer'[c]) = 1 /\ toServer'[c][1] = job
  BY <1>3, <1>6 DEF WireOK
<1>8. WireOK' /\ ClientOK'
  BY <1>2, <1>3, <1>5, <1>7 DEF WireOK, ClientOK
<1>9. ASSUME Own(c) PROVE Own(c)'
  <2>1. toServer[c] = <<>> /\ ~Handling(c) /\ NoReturn(toClient[c]) /\ NoReturn(Due(c))
    BY <1>2, <1>9 DEF Own
  <2>2. Due(c)' = Due(c) /\ ~Handling(c)' /\ toClient'[c] = toClient[c]
    BY <1>2, <2>1 DEF Due, Handling, server
  <2>3. NoReturn(toClient'[c]) /\ NoReturn(Due(c)')
    BY <2>1, <2>2
  <2>4. OneReturn(toClient'[c], n) /\ OneReturn(Due(c)', n)
    BY <2>3 DEF NoReturn, OneReturn
  <2> QED
    BY <1>5, <1>6, <1>7, <2>1, <2>2, <2>3, <2>4 DEF Own
<1>10. confused'[c] \/ Own(c)'
  BY <1>2, <1>9 DEF SwankInv, AnswersInv
<1> QED
  BY <1>2, <1>5, <1>7, <1>8, <1>10, ClientMoves

\* What a frame that the client takes may be.
LEMMA TakeStep ==
  ASSUME SwankInv, NEW c \in Conn, Take(c)
  PROVE  SwankInv'
<1> DEFINE f == Head(toClient[c])
           rest == Tail(toClient[c])
<1>1. /\ clientAt[c] = "wait" /\ toClient[c] # <<>> /\ toClient' = [toClient EXCEPT ![c] = rest]
      /\ UNCHANGED <<shared, outWriter, sender, server, toServer, msgID>>
  BY DEF Take, TakeWrite, TakeReturn, TakeUnreadable, ClientReads
<1>2. /\ toClient \in [Conn -> Seq(Frame)] /\ toServer \in [Conn -> Seq(Job)] /\ ClientOK
      /\ toClient[c] \in Seq(Frame)
  BY DEF SwankInv, SwankTypeOK, WireOK
<1>3. /\ f \in Frame /\ rest \in Seq(Frame)
      /\ NoReturn(toClient[c]) => NoReturn(rest) /\ f.kind # "return"
      /\ OneReturn(toClient[c], msgID[c]) =>
           OneReturn(rest, msgID[c]) /\ (f.kind = "return" => f.id = msgID[c] /\ NoReturn(rest))
  BY <1>1, <1>2, TailReturns
<1>4. \/ f.kind # "return" /\ UNCHANGED <<clientAt, answer, confused>>
      \/ /\ f.kind = "return" /\ answer' = [answer EXCEPT ![c] = f.id]
         /\ clientAt' = [clientAt EXCEPT ![c] = "idle"] /\ UNCHANGED confused
      \/ /\ clientAt' = [clientAt EXCEPT ![c] = "idle"] /\ confused' = [confused EXCEPT ![c] = TRUE]
         /\ UNCHANGED answer
  BY DEF Take, TakeWrite, TakeReturn, TakeUnreadable
<1> HIDE DEF f, rest
<1>5. f.id \in Nat
  BY <1>3 DEF Frame, Write, Unreadable
<1>6. /\ toClient' \in [Conn -> Seq(Frame)] /\ toClient'[c] = rest
      /\ \A d \in Conn \ {c} : toClient'[d] = toClient[d]
  BY <1>1, <1>2, <1>3
<1>7. /\ ClientOK' /\ clientAt'[c] \in {"idle", "wait"}
      /\ \A d \in Conn \ {c} : clientAt'[d] = clientAt[d] /\ answer'[d] = answer[d]
                               /\ confused'[d] = confused[d]
  BY <1>1, <1>2, <1>4, <1>5 DEF ClientOK
<1>8. ASSUME Own(c), ~confused'[c] PROVE Own(c)'
  <2>1. Due(c)' = Due(c) /\ (Handling(c)' <=> Handling(c))
    BY <1>1 DEF Due, Handling, server
  <2>2. /\ OneReturn(rest, msgID[c]) /\ OneReturn(Due(c)', msgID[c])
        /\ NoReturn(toClient[c]) => NoReturn(rest)
        /\ NoReturn(Due(c)') <=> NoReturn(Due(c))
        /\ NoReturn(toClient[c]) \/ NoReturn(Due(c))
    BY <1>3, <1>8, <2>1 DEF Own
  <2>3. CASE f.kind # "return" /\ UNCHANGED <<clientAt, answer, confused>>
    <3>1. /\ toServer'[c] = toServer[c] /\ msgID'[c] = msgID[c] /\ clientAt'[c] = clientAt[c]
          /\ serverAt'[c] = serverAt[c] /\ message'[c] = message[c]
      BY <1>1, <2>3 DEF server
    <3>2. NoReturn(toClient'[c]) <=> NoReturn(rest)
      BY <1>6
    <3>3. OneReturn(toClient'[c], msgID'[c]) /\ OneReturn(Due(c)', msgID'[c])
      BY <1>6, <2>2, <3>1
    <3> QED
      BY <1>1, <1>8, <2>1, <2>2, <3>1, <3>2, <3>3 DEF Own
  <2>4. CASE /\ f.kind = "return" /\ answer' = [answer EXCEPT ![c] = f.id]
             /\ clientAt' = [clientAt EXCEPT ![c] = "idle"]
    <3>1. f.id = msgID[c] /\ NoReturn(rest) /\ ~NoReturn(toClient[c])
      BY <1>3, <1>8, <2>4 DEF Own
    <3>2. toServer[c] = <<>> /\ ~Handling(c) /\ NoReturn(Due(c))
      BY <1>8, <2>2, <3>1 DEF Own
    <3>3. answer'[c] = msgID[c] /\ clientAt'[c] = "idle"
      BY <1>2, <2>4, <3>1 DEF ClientOK
    <3> QED
      BY <1>1, <1>6, <2>1, <2>2, <3>1, <3>2, <3>3 DEF Own
  <2>5. confused'[c] <=> confused[c]
    BY <1>2, <1>4, <1>8 DEF ClientOK
  <2>6. ~ (confused' = [confused EXCEPT ![c] = TRUE])
    BY <1>2, <1>8 DEF ClientOK
  <2> QED
    BY <1>4, <2>3, <2>4, <2>6
<1>9. confused'[c] \/ Own(c)'
  <2>1. confused[c] => confused'[c]
    BY <1>2, <1>4 DEF ClientOK
  <2> QED
    BY <1>1, <1>8, <2>1 DEF SwankInv, AnswersInv
<1>10. WireOK'
  BY <1>1, <1>2, <1>6 DEF WireOK
<1> QED
  BY <1>1, <1>6, <1>7, <1>9, <1>10, ClientMoves

LEMMA LeaveStep ==
  ASSUME SwankInv, NEW c \in Conn, Leave(c)
  PROVE  SwankInv'
<1>1. /\ clientAt' = [clientAt EXCEPT ![c] = "left"] /\ toClient' = [toClient EXCEPT ![c] = <<>>]
      /\ UNCHANGED <<shared, outWriter, sender, server, toServer, msgID, answer, confused>>
  BY DEF Leave
<1>2. WireOK /\ ClientOK /\ <<>> \in Seq(Frame)
  BY DEF SwankInv, SwankTypeOK
<1>3. WireOK' /\ ClientOK' /\ clientAt'[c] = "left"
      /\ \A d \in Conn \ {c} : clientAt'[d] = clientAt[d] /\ toClient'[d] = toClient[d]
  BY <1>1, <1>2 DEF WireOK, ClientOK
<1> QED
  BY <1>1, <1>3, ClientMoves

LEMMA SwankStep == ASSUME SwankInv, [SwankNext]_swankVars PROVE SwankInv'
<1>1. CASE UNCHANGED swankVars
  <2>1. UNCHANGED <<shared, outWriter, current, gen, token, serverAt, message, target, events,
                    execBy, toServer, toClient, clientAt, msgID, answer, confused>>
    BY <1>1 DEF swankVars, sender, server, wire, client
  <2>2. SwankTypeOK' /\ SenderInv' /\ NotYet'
    BY <2>1 DEF SwankInv, SwankTypeOK, SenderOK, ServerOK, WireOK, ClientOK, SenderInv, NotYet
  <2>3. \A c \in Conn : Due(c)' = Due(c) /\ (Handling(c)' <=> Handling(c))
    BY <2>1 DEF Due, Handling
  <2>4. ASSUME NEW c \in Conn, Own(c) PROVE Own(c)'
    BY <2>1, <2>3, <2>4 DEF Own
  <2>5. AnswersInv'
    BY <2>1, <2>4 DEF SwankInv, AnswersInv
  <2> QED
    BY <2>2, <2>5 DEF SwankInv
<1>2. ASSUME NEW c \in Conn, Accept(c) \/ Serve(c) \/ Exec(c) \/ Request(c) \/ Take(c) \/ Leave(c)
      PROVE  SwankInv'
  <2>1. CASE Serve(c)
    <3>1. CASE HandleRequest(c)
      BY <3>1, HandleStep, HandleSendsStep, SendSucceedsStep DEF HandleRequest
    <3>2. CASE SetCurrent(c) \/ RegisterSwankEnv(c) \/ ReadFrame(c) \/ ReadFrameFails(c)
      BY <3>2, SetCurrentStep, RegisterStep, ReadFrameStep, ReadFrameFailsStep
    <3>3. CASE Reply(c) \/ ReplyFails(c) \/ Replied(c) \/ Clear(c) \/ Close(c)
      BY <3>3, ReplyStep, ReplyFailsStep, RepliedStep, ClearStep, CloseStep
    <3> QED
      BY <2>1, <3>1, <3>2, <3>3 DEF Serve
  <2> QED
    BY <1>2, <2>1, AcceptStep, ExecStep, RequestStep, TakeStep, LeaveStep
<1> QED
  BY <1>1, <1>2 DEF SwankNext

\* The inductive invariant of the server and its clients holds always: the
\* types, who has the output, and what is under way between a client that has
\* read everything so far and its connection.
THEOREM SwankInvariance == SwankSpec => []SwankInv
<1>1. SwankInit => SwankInv
  BY SwankInitOK
<1>2. SwankInv /\ [SwankNext]_swankVars => SwankInv'
  BY SwankStep
<1> QED
  BY <1>1, <1>2, PTL DEF SwankSpec

\* The generation of the connection that has the output is the latest.
LEMMA NewestLemma == ASSUME SwankInv PROVE SenderIsNewest
<1>1. SwankTypeOK /\ SenderInv /\ current \in Conn \cup {"stdout"}
  BY DEF SwankInv, SwankTypeOK, SenderOK
<1>2. ASSUME NEW c \in Conn, serverAt[c] \notin {"none", "start", "close", "closed"}
      PROVE  serverAt[c] \in Reached \ Over
  BY <1>1, <1>2 DEF SwankTypeOK, ServerOK, ServerStep, Reached, Over
<1>3. ASSUME current # "stdout"
      PROVE  token[current] = gen /\ serverAt[current] \notin {"close", "closed"}
  BY <1>1, <1>3 DEF SenderInv, Over
<1> QED
  BY <1>1, <1>2, <1>3 DEF SenderIsNewest, SenderInv

\* Output goes to the connection that came last as long as it is served, and to
\* the terminal after that, for any number of connections: serveSharedConn's
\* setCurrent and clear, in whatever order connections come and end.
THEOREM SenderIsNewestTheorem == SwankSpec => []SenderIsNewest
<1> QED
  BY NewestLemma, SwankInvariance, PTL

\* The :return a client takes is the answer to its request, although it does
\* not compare the ids, until it has met a frame it cannot read.
THEOREM AnswerIsOwnTheorem == SwankSpec => []AnswerIsOwn
<1>1. SwankInv => AnswerIsOwn
  BY DEF SwankInv, AnswersInv, Own, AnswerIsOwn
<1> QED
  BY <1>1, SwankInvariance, PTL
------------------------------------------------------------------------------
(* The pool as programs see it *)

\* A primitive that is to fail has a handle of a pool that has been cleaned up.
StaleFails == \A p \in Proc : pc[p] = "fail" => verb[p] \in Taking /\ h[p][1] # globalPool
ViewInv == IInv /\ StaleFails

\* Nobody has anything of a pool that is not made yet.
LEMMA NewPoolEmpty ==
  ASSUME IInv, NEW g, g \in Nat, g > made \/ g = Nil
  PROVE  /\ \A b \in Block : <<g, b>> \notin inUse /\ \A p \in Proc : <<g, b>> \notin handles[p]
         /\ \A p \in Proc, b \in Block : h[p] = <<g, b>> => h[p] = NoHandle
<1>1. \A p \in Proc, b \in Block : <<g, b>> \notin handles[p]
  <2> SUFFICES ASSUME NEW p \in Proc, NEW b \in Block, <<g, b>> \in handles[p] PROVE FALSE
    OBVIOUS
  <2> DEFINE x == <<g, b>>
  <2>1. x \in Place /\ x[1] = g
    BY DEF IInv, TypeOK
  <2>2. x[1] <= made /\ made \in Nat
    BY DEF IInv, TypeOK, MadeFirst
  <2>3. g \in 1..MaxPools /\ MaxPools \in Nat
    BY <2>1, PlaceLemma, ShmAssumption DEF Pool
  <2> HIDE DEF x
  <2> QED
    BY <2>1, <2>2, <2>3 DEF Nil
<1>2. \A p \in Proc : h[p] \in handles[p] \/ h[p] = NoHandle
  BY DEF IInv, CallCoherent
<1> QED
  BY <1>1, <1>2 DEF IInv, Accounted

\* GetPool changes nothing that a program sees.
LEMMA GetPoolUnseen ==
  ASSUME IInv, NEW p \in Proc, GetPool(p)
  PROVE  UNCHANGED <<Holdings, FreeBlocks(globalPool), Contents, CalledWith>>
<1>1. UNCHANGED <<inUse, data, handles, h>>
  BY DEF GetPool
<1>2. CASE UNCHANGED globalPool
  BY <1>1, <1>2 DEF Holdings, FreeBlocks, Contents, CalledWith
<1>3. CASE globalPool = Nil /\ globalPool' = made + 1
  <2>1. PICK g, k : g = globalPool /\ k = globalPool'
    OBVIOUS
  <2>2. g \in Nat /\ k \in Nat /\ k > made /\ g = Nil
    BY <1>3, <2>1 DEF IInv, TypeOK, Nil
  <2>3. \A b \in Block : <<g, b>> \notin inUse /\ \A q \in Proc : <<g, b>> \notin handles[q]
    BY <2>2, NewPoolEmpty
  <2>4. \A b \in Block : <<k, b>> \notin inUse /\ \A q \in Proc : <<k, b>> \notin handles[q]
    BY <2>2, NewPoolEmpty
  <2>5. \A q \in Proc, b \in Block : (h[q] = <<g, b>> => h[q] = NoHandle) /\ (h[q] = <<k, b>> => h[q] = NoHandle)
    BY <2>2, NewPoolEmpty
  <2>6. Holdings = {} /\ Holdings' = {}
    BY <1>1, <2>1, <2>3, <2>4 DEF Holdings
  <2>7. FreeBlocks(globalPool) = Block /\ FreeBlocks(globalPool)' = Block
    BY <1>1, <2>1, <2>3, <2>4 DEF FreeBlocks
  <2>8. Contents = [b \in Block |-> Nobody] /\ Contents' = [b \in Block |-> Nobody]
    BY <1>1, <2>1, <2>3, <2>4 DEF Contents
  <2>9. CalledWith = [q \in Proc |-> {}] /\ CalledWith' = [q \in Proc |-> {}]
    BY <1>1, <2>1, <2>5 DEF CalledWith
  <2> QED
    BY <2>6, <2>7, <2>8, <2>9
<1> QED
  BY <1>2, <1>3 DEF GetPool

\* A primitive that returns is not called with anything any more.
LEMMA DoneReturns ==
  ASSUME IInv, NEW p \in Proc, Done(p), UNCHANGED globalPool
  PROVE  BP!Return(p)
<1>1. h'[p] = NoHandle /\ \A q \in Proc \ {p} : h'[q] = h[q]
  BY DEF IInv, TypeOK, Done
<1>2. \A q \in Proc : CalledWith'[q] = [CalledWith EXCEPT ![p] = {}][q]
  BY <1>1 DEF CalledWith
<1>3. CalledWith' = [q \in Proc |-> CalledWith'[q]] /\ CalledWith = [q \in Proc |-> CalledWith[q]]
  BY DEF CalledWith
<1>4. CalledWith' = [CalledWith EXCEPT ![p] = {}]
  BY <1>2, <1>3
<1> QED
  BY <1>4 DEF BP!Return, Done

LEMMA CallView == ASSUME Quiescent, IInv, NEW p \in Proc, Call(p) PROVE BP!Next
<1> DEFINE verbs == {"alloc", "free", "write", "read", "status", "cleanup"}
<1>1. PICK v \in verbs :
        /\ verb' = [verb EXCEPT ![p] = v]
        /\ IF v \in {"alloc", "status", "cleanup"}
             THEN h' = h ELSE \E x \in handles[p] : h' = [h EXCEPT ![p] = x]
        /\ \A q \in Proc \ {p} : verb[q] # "cleanup" /\ (v = "cleanup" => pc[q] = "idle")
  BY DEF Call
<1>2. verb[p] = "none" /\ h[p] = NoHandle
  BY DEF IInv, Call, CallCoherent, Taking
<1>3. \A q \in Proc \ {p} : verb[q] # "cleanup" /\ (v = "cleanup" => verb[q] = "none")
  BY <1>1 DEF IInv, CallCoherent
<1>4. UNCHANGED <<globalPool, inUse, data, handles>>
  BY DEF Call, blocks
<1>5. UNCHANGED <<Holdings, FreeBlocks(globalPool), Contents>>
  BY <1>4 DEF Holdings, FreeBlocks, Contents
<1>6. \/ CalledWith' = CalledWith
      \/ /\ v \in {"free", "write", "read"}
         /\ \E b \in Block : <<p, b>> \in Holdings /\ CalledWith' = [CalledWith EXCEPT ![p] = {b}]
  <2>1. CASE h' = h
    BY <1>4, <2>1 DEF CalledWith
  <2>2. ASSUME v \in {"free", "write", "read"}, NEW x \in handles[p], h' = [h EXCEPT ![p] = x]
        PROVE  \/ CalledWith' = CalledWith
               \/ \E b \in Block : <<p, b>> \in Holdings /\ CalledWith' = [CalledWith EXCEPT ![p] = {b}]
    <3>1. x \in Place /\ x[1] \in Pool /\ x[2] \in Block /\ x = <<x[1], x[2]>> /\ x # NoHandle
      BY PlaceLemma DEF IInv, TypeOK
    <3>2. h'[p] = x /\ \A q \in Proc \ {p} : h'[q] = h[q]
      BY <2>2 DEF IInv, TypeOK
    <3>3. CalledWith' = [q \in Proc |-> CalledWith'[q]] /\ CalledWith = [q \in Proc |-> CalledWith[q]]
      BY DEF CalledWith
    <3>4. \A q \in Proc \ {p} : CalledWith'[q] = CalledWith[q]
      BY <1>4, <3>2 DEF CalledWith
    <3>5. CalledWith[p] = {}
      BY <1>2 DEF CalledWith
    <3>6. CalledWith'[p] = {b \in Block : x = <<globalPool, b>>}
      BY <1>4, <3>1, <3>2 DEF CalledWith
    <3>7. CASE x[1] = globalPool
      <4>1. CalledWith'[p] = {x[2]}
        BY <3>1, <3>6, <3>7
      <4>2. <<p, x[2]>> \in Holdings
        BY <3>1, <3>7 DEF Holdings
      <4>3. CalledWith' = [CalledWith EXCEPT ![p] = {x[2]}]
        BY <3>3, <3>4, <4>1
      <4> QED
        BY <3>1, <4>2, <4>3
    <3>8. CASE x[1] # globalPool
      <4>1. CalledWith'[p] = {}
        BY <3>1, <3>6, <3>8
      <4> QED
        BY <3>3, <3>4, <3>5, <4>1
    <3> QED
      BY <3>7, <3>8
  <2> QED
    BY <1>1, <2>1, <2>2
<1>7. BP!Begin(p, v)
  BY <1>1, <1>2, <1>3, <1>5, <1>6 DEF BP!Begin
<1> QED
  BY <1>7 DEF BP!Next

\* The primitives that fail or read: those that fail had an old handle, found
\* no block, or no pool.
LEMMA ReturnView ==
  ASSUME ViewInv, NEW p \in Proc, GetPoolFails(p) \/ Fail(p) \/ ReadOrError(p)
  PROVE  BP!Next
<1>1. Done(p) /\ UNCHANGED <<globalPool, inUse, data, handles>>
  BY DEF GetPoolFails, Fail, ReadOrError, blocks
<1>2. BP!Return(p) /\ UNCHANGED <<Holdings, FreeBlocks(globalPool), Contents>>
  BY <1>1, DoneReturns DEF ViewInv, Holdings, FreeBlocks, Contents
<1>3. IInv /\ pc[p] # "idle" /\ verb[p] # "none"
  BY DEF ViewInv, IInv, CallCoherent, GetPoolFails, Fail, ReadOrError
<1>4. verb[p] \in {"alloc", "free", "write", "read", "status", "cleanup"}
  BY <1>3 DEF IInv, TypeOK
<1>5. CASE GetPoolFails(p)
  <2>1. globalPool = Nil
    BY <1>5 DEF GetPoolFails
  <2>2. PICK g : g = globalPool
    OBVIOUS
  <2>3. /\ \A b \in Block : <<g, b>> \notin inUse
        /\ \A b \in Block : h[p] = <<g, b>> => h[p] = NoHandle
    BY <1>3, <2>1, <2>2, NewPoolEmpty DEF Nil
  <2>4. FreeBlocks(globalPool) = Block /\ CalledWith[p] = {}
    BY <2>2, <2>3 DEF FreeBlocks, CalledWith
  <2>5. BP!Leave(p)
    BY <1>2, <1>4, <2>4 DEF BP!Leave
  <2> QED
    BY <2>5 DEF BP!Next
<1>6. CASE Fail(p)
  <2>1. verb[p] \in Taking /\ h[p][1] # globalPool
    BY <1>6 DEF ViewInv, StaleFails, Fail
  <2>2. CalledWith[p] = {}
    BY <2>1 DEF CalledWith
  <2>3. BP!Leave(p)
    BY <1>2, <2>1, <2>2 DEF BP!Leave, Taking
  <2> QED
    BY <2>3 DEF BP!Next
<1>7. CASE ReadOrError(p)
  <2>1. pc[p] = "act" /\ pool[p] = globalPool /\ globalPool # Nil /\ pool[p] \in inited
    BY <1>3, <1>7 DEF ReadOrError, IInv, PoolCurrent, PastGetPool, OnePool
  <2>2. verb[p] \in Taking => Target(p) \in inUse
    BY <1>3, <2>1, TargetLemma, PlaceLemma DEF IInv, Accounted, Target
  <2>3. verb[p] \in {"read", "status", "write"} \/ (verb[p] = "alloc" /\ FreeBlocks(globalPool) = {})
    BY <1>7, <2>1, <2>2 DEF ReadOrError, Usable, Taking
  <2>4. BP!Leave(p)
    BY <1>2, <2>3 DEF BP!Leave
  <2> QED
    BY <2>4 DEF BP!Next
<1> QED
  BY <1>5, <1>6, <1>7

LEMMA AllocateView == ASSUME IInv, NEW p \in Proc, Allocate(p) PROVE BP!Next
<1>1. PICK g, b : g = globalPool /\ b = FirstFree(globalPool)
  OBVIOUS
<1>2. pool[p] = g /\ g \in Pool
  BY <1>1 DEF IInv, TypeOK, Allocate, PoolCurrent, PastGetPool
<1>3. b \in Block /\ <<g, b>> \notin inUse /\ <<g, b>> \in Place /\ b \in FreeBlocks(globalPool)
  BY <1>1, <1>2, FirstFreeLemma DEF Allocate, Place, FreeBlocks
<1>4. /\ Done(p) /\ globalPool' = g /\ verb[p] = "alloc"
      /\ inUse' = inUse \cup {<<g, b>>} /\ data' = [data EXCEPT ![<<g, b>>] = Nobody]
      /\ handles' = [handles EXCEPT ![p] = @ \cup {<<g, b>>}]
  BY <1>1, <1>2 DEF Allocate
<1>5. BP!Return(p)
  BY <1>1, <1>4, DoneReturns
<1>6. FreeBlocks(globalPool)' = FreeBlocks(globalPool) \ {b}
  BY <1>1, <1>3, <1>4 DEF FreeBlocks
<1>7. Holdings' = Holdings \cup {<<p, b>>}
  <2>1. \A q \in Proc : handles'[q] = IF q = p THEN handles[p] \cup {<<g, b>>} ELSE handles[q]
    BY <1>4 DEF IInv, TypeOK
  <2>2. ASSUME NEW q \in Proc, NEW c \in Block
        PROVE  <<q, c>> \in Holdings' <=> <<q, c>> \in Holdings \/ (q = p /\ c = b)
    BY <1>1, <1>4, <2>1 DEF Holdings
  <2>3. Holdings \subseteq Proc \X Block /\ Holdings' \subseteq Proc \X Block /\ <<p, b>> \in Proc \X Block
    BY <1>3 DEF Holdings
  <2> QED
    BY <2>2, <2>3
<1>8. Contents' = [Contents EXCEPT ![b] = Nobody]
  <2>1. ASSUME NEW c \in Block PROVE Contents'[c] = IF c = b THEN Nobody ELSE Contents[c]
    <3>1. <<g, c>> \in Place
      BY <1>2 DEF Place
    <3>2. data'[<<g, c>>] = IF c = b THEN Nobody ELSE data[<<g, c>>]
      BY <1>3, <1>4, <3>1 DEF IInv, TypeOK
    <3>3. <<g, c>> \in inUse' <=> <<g, c>> \in inUse \/ c = b
      BY <1>4
    <3>4. Contents'[c] = IF <<g, c>> \in inUse' THEN data'[<<g, c>>] ELSE Nobody
      BY <1>4 DEF Contents
    <3>5. Contents[c] = IF <<g, c>> \in inUse THEN data[<<g, c>>] ELSE Nobody
      BY <1>1 DEF Contents
    <3> QED
      BY <3>2, <3>3, <3>4, <3>5
  <2>2. Contents' = [c \in Block |-> Contents'[c]] /\ Contents = [c \in Block |-> Contents[c]]
    BY DEF Contents
  <2> QED
    BY <2>1, <2>2
<1>9. BP!Take(p, b)
  BY <1>3, <1>4, <1>5, <1>6, <1>7, <1>8 DEF BP!Take
<1> QED
  BY <1>3, <1>9 DEF BP!Next

\* A primitive acts on the block it was called with.
LEMMA OwnBlock ==
  ASSUME IInv, NEW p \in Proc, pc[p] = "act", verb[p] \in Taking
  PROVE  \E g \in Pool, b \in Block :
           /\ g = globalPool /\ h[p] = <<g, b>> /\ Target(p) = <<g, b>> /\ <<g, b>> \in Place
           /\ CalledWith[p] = {b}
<1>1. Target(p) = h[p] /\ h[p] \in handles[p] /\ h[p] \in Place
  BY TargetLemma
<1>2. h[p][1] = globalPool /\ h[p][1] \in Pool /\ h[p][2] \in Block /\ h[p] = <<h[p][1], h[p][2]>> /\ h[p] # NoHandle
  BY <1>1, PlaceLemma DEF IInv, PoolCurrent, PastGetPool
<1>3. PICK g \in Pool, b \in Block : g = globalPool /\ h[p] = <<g, b>>
  BY <1>2
<1>4. CalledWith[p] = {b}
  BY <1>2, <1>3 DEF CalledWith
<1> QED
  BY <1>1, <1>3, <1>4

LEMMA ReleaseView == ASSUME IInv, NEW p \in Proc, Release(p) PROVE BP!Next
<1>1. PICK g \in Pool, b \in Block :
        /\ g = globalPool /\ h[p] = <<g, b>> /\ Target(p) = <<g, b>> /\ <<g, b>> \in Place
        /\ CalledWith[p] = {b}
  BY OwnBlock DEF Release, Taking
<1>2. /\ Done(p) /\ globalPool' = g /\ verb[p] = "free"
      /\ inUse' = inUse \ {<<g, b>>} /\ data' = [data EXCEPT ![<<g, b>>] = Nobody]
      /\ handles' = [handles EXCEPT ![p] = @ \ {<<g, b>>}]
  BY <1>1 DEF Release
<1>3. BP!Return(p)
  BY <1>1, <1>2, DoneReturns
<1>4. FreeBlocks(globalPool)' = FreeBlocks(globalPool) \cup {b}
  BY <1>1, <1>2 DEF FreeBlocks
<1>5. Holdings' = Holdings \ {<<p, b>>}
  <2>1. \A q \in Proc : handles'[q] = IF q = p THEN handles[p] \ {<<g, b>>} ELSE handles[q]
    BY <1>2 DEF IInv, TypeOK
  <2>2. ASSUME NEW q \in Proc, NEW c \in Block
        PROVE  <<q, c>> \in Holdings' <=> <<q, c>> \in Holdings /\ ~(q = p /\ c = b)
    BY <1>1, <1>2, <2>1 DEF Holdings
  <2>3. Holdings \subseteq Proc \X Block /\ Holdings' \subseteq Proc \X Block
    BY DEF Holdings
  <2> QED
    BY <2>2, <2>3
<1>6. Contents' = [Contents EXCEPT ![b] = Nobody]
  <2>1. ASSUME NEW c \in Block PROVE Contents'[c] = IF c = b THEN Nobody ELSE Contents[c]
    <3>1. <<g, c>> \in Place
      BY DEF Place
    <3>2. data'[<<g, c>>] = IF c = b THEN Nobody ELSE data[<<g, c>>]
      BY <1>1, <1>2, <3>1 DEF IInv, TypeOK
    <3>3. <<g, c>> \in inUse' <=> <<g, c>> \in inUse /\ c # b
      BY <1>2
    <3>4. Contents'[c] = IF <<g, c>> \in inUse' THEN data'[<<g, c>>] ELSE Nobody
      BY <1>2 DEF Contents
    <3>5. Contents[c] = IF <<g, c>> \in inUse THEN data[<<g, c>>] ELSE Nobody
      BY <1>1 DEF Contents
    <3> QED
      BY <3>2, <3>3, <3>4, <3>5
  <2>2. Contents' = [c \in Block |-> Contents'[c]] /\ Contents = [c \in Block |-> Contents[c]]
    BY DEF Contents
  <2> QED
    BY <2>1, <2>2
<1>7. BP!Give(p, b)
  BY <1>1, <1>2, <1>3, <1>4, <1>5, <1>6 DEF BP!Give
<1> QED
  BY <1>7 DEF BP!Next

LEMMA WriteDataView == ASSUME IInv, NEW p \in Proc, WriteData(p) PROVE BP!Next
<1>1. PICK g \in Pool, b \in Block :
        /\ g = globalPool /\ h[p] = <<g, b>> /\ Target(p) = <<g, b>> /\ <<g, b>> \in Place
        /\ CalledWith[p] = {b}
  BY OwnBlock DEF WriteData, Taking
<1>2. /\ Done(p) /\ globalPool' = g /\ verb[p] = "write" /\ <<g, b>> \in inUse
      /\ data' = [data EXCEPT ![<<g, b>>] = p] /\ UNCHANGED <<inUse, handles>>
  BY <1>1 DEF WriteData, Usable
<1>3. BP!Return(p)
  BY <1>1, <1>2, DoneReturns
<1>4. UNCHANGED <<Holdings, FreeBlocks(globalPool)>>
  BY <1>1, <1>2 DEF Holdings, FreeBlocks
<1>5. Contents' = [Contents EXCEPT ![b] = p]
  <2>1. ASSUME NEW c \in Block PROVE Contents'[c] = IF c = b THEN p ELSE Contents[c]
    <3>1. <<g, c>> \in Place
      BY DEF Place
    <3>2. data'[<<g, c>>] = IF c = b THEN p ELSE data[<<g, c>>]
      BY <1>1, <1>2, <3>1 DEF IInv, TypeOK
    <3>3. Contents'[c] = IF <<g, c>> \in inUse THEN data'[<<g, c>>] ELSE Nobody
      BY <1>2 DEF Contents
    <3>4. Contents[c] = IF <<g, c>> \in inUse THEN data[<<g, c>>] ELSE Nobody
      BY <1>1 DEF Contents
    <3> QED
      BY <1>2, <3>2, <3>3, <3>4
  <2>2. Contents' = [c \in Block |-> Contents'[c]] /\ Contents = [c \in Block |-> Contents[c]]
    BY DEF Contents
  <2> QED
    BY <2>1, <2>2
<1>6. BP!Fill(p, b)
  BY <1>1, <1>2, <1>3, <1>4, <1>5 DEF BP!Fill
<1> QED
  BY <1>6 DEF BP!Next

LEMMA CleanupView == ASSUME IInv, NEW p \in Proc, Cleanup(p) PROVE BP!Next
<1>1. Done(p) /\ verb[p] = "cleanup" /\ UNCHANGED <<made, data, handles>>
  BY DEF Cleanup
<1>2. pool[p] = globalPool /\ globalPool # Nil
  BY DEF IInv, Cleanup, PoolCurrent, PastGetPool
<1>3. inUse' = {} /\ globalPool' = Nil
  BY <1>2 DEF Cleanup, IInv, OnePool, Accounted
<1>4. \A q \in Proc : h[q] = NoHandle
  <2>1. h[p] = NoHandle
    BY <1>1 DEF IInv, CallCoherent, Taking
  <2>2. ASSUME NEW q \in Proc \ {p} PROVE h[q] = NoHandle
    BY <1>1 DEF IInv, CleanupAlone, CallCoherent, Taking
  <2> QED
    BY <2>1, <2>2
<1>5. \A q \in Proc : h'[q] = NoHandle
  BY <1>1, <1>4 DEF IInv, TypeOK, Done
<1>6. CalledWith = [q \in Proc |-> {}] /\ CalledWith' = [q \in Proc |-> {}]
  BY <1>4, <1>5 DEF CalledWith
<1>7. BP!Return(p)
  BY <1>1, <1>6 DEF BP!Return, Done
<1>8. FreeBlocks(globalPool)' = Block /\ Contents' = [b \in Block |-> Nobody]
  BY <1>3 DEF FreeBlocks, Contents
<1>9. Holdings' = {}
  <2>1. \A q \in Proc, b \in Block : <<Nil, b>> \notin handles[q]
    BY NewPoolEmpty DEF Nil
  <2> QED
    BY <1>1, <1>3, <2>1 DEF Holdings
<1>10. BP!Reset(p)
  BY <1>1, <1>7, <1>8, <1>9 DEF BP!Reset
<1> QED
  BY <1>10 DEF BP!Next

LEMMA InitView == Init => StaleFails /\ BP!Init
<1> SUFFICES ASSUME Init PROVE StaleFails /\ BP!Init
  OBVIOUS
<1>1. StaleFails
  BY DEF Init, StaleFails
<1>2. Holdings = {} /\ FreeBlocks(globalPool) = Block /\ Contents = [b \in Block |-> Nobody]
  BY DEF Init, Holdings, FreeBlocks, Contents
<1>3. CalledWith = [p \in Proc |-> {}]
  BY DEF Init, CalledWith
<1> QED
  BY <1>1, <1>2, <1>3 DEF Init, BP!Init

\* A handle that is void stays void, since the pools that are made have new
\* numbers.
LEMMA StaleFailsStep == ASSUME ViewInv, [Next]_vars PROVE StaleFails'
<1> USE DEF blocks
<1>0. IInv /\ StaleFails
  BY DEF ViewInv
<1>1. CASE UNCHANGED vars
  BY <1>0, <1>1 DEF StaleFails, vars
\* Only the step of p itself takes it to "fail" or away; the others keep the
\* global pool, or make a new one, or find p idle.
<1>2. ASSUME NEW p \in Proc, Call(p) PROVE StaleFails'
  <2>1. pc'[p] = "getPool" /\ \A q \in Proc \ {p} : pc'[q] = pc[q] /\ verb'[q] = verb[q] /\ h'[q] = h[q]
    BY <1>0, <1>2 DEF Call, Goto, IInv, TypeOK
  <2> QED
    BY <1>0, <1>2, <2>1 DEF StaleFails, Call
<1>3. ASSUME NEW p \in Proc, FirstGetPool(p) \/ SecondGetPool(p) PROVE StaleFails'
  <2>1. GetPool(p) /\ UNCHANGED <<verb, h>>
    BY <1>3 DEF FirstGetPool, SecondGetPool, GetPool
  <2>2. globalPool' = Current /\ \A q \in Proc \ {p} : pc'[q] = pc[q]
    BY <1>0, <1>3, <2>1, GetPoolOK DEF FirstGetPool, SecondGetPool, Goto, IInv, TypeOK
  <2>3. pc'[p] = "fail" => h[p] # NoHandle /\ h[p][1] # Current
    BY <1>0, <1>3 DEF FirstGetPool, SecondGetPool, IsStale, Goto, IInv, TypeOK
  <2>4. \A q \in Proc : h[q] # NoHandle => verb[q] \in Taking
    BY <1>0 DEF IInv, CallCoherent
  <2>5. ASSUME NEW q \in Proc \ {p}, pc[q] = "fail" PROVE h[q][1] # Current
    <3>1. h[q][1] # globalPool /\ h[q] \in handles[q]
      BY <1>0, <2>5 DEF StaleFails, IInv, CallCoherent
    <3>2. h[q][1] <= made /\ made \in Nat /\ h[q][1] \in Nat
      BY <1>0, <3>1, PlaceLemma DEF IInv, TypeOK, MadeFirst, Pool
    <3> QED
      BY <3>1, <3>2 DEF Current
  <2> QED
    BY <1>0, <2>1, <2>2, <2>3, <2>4, <2>5 DEF StaleFails
<1>4. ASSUME NEW p \in Proc, GetBlock(p) PROVE StaleFails'
  <2>1. <<pool[p], h[p][2]>> \in inUse /\ pool[p] \in inited
    <3>1. /\ pool[p] = globalPool /\ globalPool # Nil /\ pool[p] \in inited
          /\ h[p] \in handles[p] /\ h[p] \in Place /\ h[p][1] = globalPool
      BY <1>0, <1>4 DEF GetBlock, IInv, TypeOK, CallCoherent, PoolCurrent, PastGetPool, OnePool
    <3>2. h[p] = <<pool[p], h[p][2]>>
      BY <3>1, PlaceLemma
    <3> QED
      BY <1>0, <3>1, <3>2 DEF IInv, Accounted
  <2>2. pc'[p] = "getPoolAgain" /\ \A q \in Proc \ {p} : pc'[q] = pc[q]
    BY <1>0, <1>4, <2>1 DEF GetBlock, Goto, IInv, TypeOK
  <2> QED
    BY <1>0, <1>4, <2>2 DEF StaleFails, GetBlock
<1>5. ASSUME NEW p \in Proc, Done(p), UNCHANGED globalPool PROVE StaleFails'
  <2>1. pc'[p] = "idle" /\ \A q \in Proc \ {p} : pc'[q] = pc[q] /\ verb'[q] = verb[q] /\ h'[q] = h[q]
    BY <1>0, <1>5 DEF Done, Goto, IInv, TypeOK
  <2> QED
    BY <1>0, <1>5, <2>1 DEF StaleFails
<1>6. ASSUME NEW p \in Proc, Cleanup(p) PROVE StaleFails'
  <2>1. \A q \in Proc : pc'[q] = "idle"
    BY <1>0, <1>6 DEF IInv, CleanupAlone, Cleanup, Done, Goto, TypeOK
  <2> QED
    BY <2>1 DEF StaleFails
<1> QED
  BY <1>1, <1>2, <1>3, <1>4, <1>5, <1>6 DEF Next, GetPoolFails, Fail, Allocate, Release, WriteData, ReadOrError

LEMMA ViewStep == ASSUME Quiescent, ViewInv, [Next]_vars PROVE [BP!Next]_BP!vars
<1>0. IInv
  BY DEF ViewInv
<1>1. CASE UNCHANGED vars
  BY <1>1 DEF vars, BP!vars, Holdings, FreeBlocks, Contents, CalledWith
<1>2. ASSUME NEW p \in Proc, FirstGetPool(p) \/ SecondGetPool(p) PROVE UNCHANGED BP!vars
  <2>1. GetPool(p) /\ UNCHANGED verb
    BY <1>2 DEF FirstGetPool, SecondGetPool, GetPool
  <2> QED
    BY <1>0, <2>1, GetPoolUnseen DEF BP!vars
<1>3. ASSUME NEW p \in Proc, GetBlock(p) PROVE UNCHANGED BP!vars
  BY <1>3 DEF GetBlock, blocks, BP!vars, Holdings, FreeBlocks, Contents, CalledWith
<1>4. ASSUME NEW p \in Proc, GetPoolFails(p) \/ Fail(p) \/ ReadOrError(p) PROVE BP!Next
  BY <1>4, ReturnView
<1> QED
  BY <1>0, <1>1, <1>2, <1>3, <1>4, CallView, AllocateView, ReleaseView, WriteDataView, CleanupView DEF Next

\* To programs that call shm-cleanup only while no other primitive runs, the
\* pools that come and go, the handles and the locked sections look like one
\* pool of exclusive blocks: each call acts once, on the caller's own block, and
\* fails only for the reasons that BlockPool has for it (getShmBlock, Allocate,
\* Release, WriteData, Cleanup).
THEOREM PoolRefinement == ASSUME Quiescent PROVE Spec => ImplementsPool
<1>1. Init => ViewInv /\ BP!Init
  BY InitOK, InitView DEF ViewInv
<1>2. ViewInv /\ [Next]_vars => ViewInv'
  BY Inductive, StaleFailsStep DEF ViewInv
<1>3. ViewInv /\ [Next]_vars => [BP!Next]_BP!vars
  BY ViewStep
<1> QED
  BY <1>1, <1>2, <1>3, PTL DEF Spec, ImplementsPool, BP!Spec
------------------------------------------------------------------------------
(* The services together *)

\* Only one service moves; the other stays as it is.
LEMMA PartsMove ==
  ASSUME [ServicesNext]_servicesVars
  PROVE  [Next]_vars /\ [SwankNext]_swankVars
BY DEF ServicesNext, servicesVars

\* The image keeps one pool and gives each connection its output and answers,
\* whatever its other service does.
THEOREM ServicesSafe == ServicesSpec => [](OnePool /\ SenderIsNewest /\ AnswerIsOwn)
<1> DEFINE Inv == TypeOK /\ OnePool /\ SwankInv
<1>1. ServicesInit => Inv
  BY InitOK, SwankInitOK DEF ServicesInit, IInv
<1>2. Inv /\ [ServicesNext]_servicesVars => Inv'
  BY PartsMove, TypeStep, OnePoolStep, SwankStep
<1>3. Inv => OnePool /\ SenderIsNewest /\ AnswerIsOwn
  BY NewestLemma DEF SwankInv, AnswersInv, Own, AnswerIsOwn
<1> HIDE DEF Inv
<1> QED
  BY <1>1, <1>2, <1>3, PTL DEF ServicesSpec

\* And if shm-cleanup runs alone, blocks have one owner and their own data, and
\* look like one pool.
THEOREM ServicesBlocksSafe ==
  ASSUME Quiescent
  PROVE  ServicesSpec => [](Exclusive /\ DataIsolated) /\ ImplementsPool
<1>1. ServicesInit => ViewInv /\ BP!Init
  BY InitOK, InitView DEF ServicesInit, ViewInv
<1>2. ViewInv /\ [ServicesNext]_servicesVars => ViewInv'
  BY PartsMove, Inductive, StaleFailsStep DEF ViewInv
<1>3. ViewInv => Exclusive /\ DataIsolated
  BY DEF ViewInv, IInv, Exclusive, Disjoint, Accounted
<1>4. ViewInv /\ [ServicesNext]_servicesVars => [BP!Next]_BP!vars
  BY PartsMove, ViewStep
<1> QED
  BY <1>1, <1>2, <1>3, <1>4, PTL DEF ServicesSpec, ImplementsPool, BP!Spec
==================================================================================
