--------------------------- MODULE Goroutines_proofs ---------------------------
(****************************************************************************)
(* Proofs about the parts of Goroutines: pool-map for any number of workers *)
(* and any length of list, parfunc for any expressions, mutexes and nesting *)
(* of locks, the HTTP server for any goroutines, requests and browsers, and *)
(* the three of them together.                                              *)
(****************************************************************************)
EXTENDS Goroutines, NumberLemmas
------------------------------------------------------------------------------
(* pool-map *)

\* The jobs pool-map has put into its channel, end markers included, and those
\* a worker has taken out again.
Sent == IF main = "spawn" THEN 0
        ELSE IF main = "fill" THEN count
        ELSE IF main = "end" THEN Len0 + count
        ELSE Len0 + K
Taken == Sent - Len(jobs)

\* The k-th job of all: an element, or the end behind the elements.
Job(k) == IF k <= Len0 THEN k ELSE End

\* The rounds of each loop; only started workers run.
RoundsInv ==
  /\ main \in {"spawn", "end"} => count < K
  /\ main \in {"fill", "collect"} => count < Len0
  /\ \A w \in Worker : wpc[w] # "unborn" => w <= K

\* The channel of jobs is a part of the order they are all sent in.
JobsInv ==
  /\ Len(jobs) <= Sent
  /\ \A k \in 1..Len(jobs) : jobs[k] = Job(Taken + k)

Busy == {w \in Worker : wpc[w] \in {"call", "send"}}

\* fn has not been called on an element before it is taken; a worker has an
\* element that no other worker has.
HandInv ==
  /\ \A i \in Item : i > Taken => verdict[i] = <<>> /\ out[i] = NoOutcome
  /\ \A w \in Busy : job[w] \in Item /\ job[w] <= Taken /\ out[job[w]] = NoOutcome
  /\ \A w \in Busy : verdict[job[w]] = IF wpc[w] = "send" THEN <<fate[w]>> ELSE <<>>
  /\ \A v, w \in Busy : job[v] = job[w] => v = w

\* A result in the channel is that of an element no worker has and that has no
\* other result; one that is in its place is that of its element.
ResultsInv ==
  /\ \A k \in 1..Len(results) :
       /\ results[k].item <= Taken /\ out[results[k].item] = NoOutcome
       /\ verdict[results[k].item] = <<results[k].result>>
       /\ \A w \in Busy : job[w] # results[k].item
  /\ \A k, l \in 1..Len(results) : results[k].item = results[l].item => k = l
  /\ \A i \in Item : out[i] # NoOutcome => verdict[i] = <<out[i]>>

Stored == {i \in Item : out[i] # NoOutcome}
CountInv ==
  Cardinality(Stored) = IF main = "done" THEN Len0 ELSE IF main = "collect" THEN count ELSE 0

PoolInv == TypeOK /\ RoundsInv /\ JobsInv /\ HandInv /\ ResultsInv /\ CountInv
------------------------------------------------------------------------------
USE DEF mvars, wvars

\* (min n len) is a number of workers, and of elements, that there are.
LEMMA SizeLemma ==
  /\ N \in Nat \ {0} /\ Len0 \in Nat \ {0} /\ K \in Nat \ {0} /\ K <= Len0 /\ K <= N
  /\ IsFiniteSet(Item) /\ Cardinality(Item) = Len0 /\ Item \subseteq Nat \ {0}
  /\ 1..K \subseteq Worker /\ NoOutcome \notin Outcomes
<1>0. NoOutcome \notin Outcomes
  BY PoolAssumption, Zenon DEF NoOutcome
<1>1. N \in Nat \ {0} /\ Len0 \in Nat \ {0}
  BY PoolAssumption
<1>2. K \in Nat \ {0} /\ K <= Len0 /\ K <= N
  BY <1>1 DEF K
<1>3. IsFiniteSet(1..Len0) /\ Cardinality(1..Len0) = Len0
  BY <1>1, FS_Interval
<1> QED
  BY <1>0, <1>1, <1>2, <1>3 DEF Item, Worker

LEMMA SentLemma ==
  ASSUME MainOK, QueuesOK
  PROVE  Sent \in Nat /\ Len(jobs) \in Nat /\ Len(results) \in Nat /\ count \in Nat
<1>1. Len(jobs) \in Nat /\ Len(results) \in Nat
  BY DEF QueuesOK
<1>2. count \in Nat
  BY SizeLemma DEF MainOK
<1> QED
  BY <1>1, <1>2, SizeLemma DEF Sent, MainOK

\* The results in the channel are those of elements.
LEMMA ResultLemma ==
  ASSUME QueuesOK
  PROVE  \A k \in 1..Len(results) : results[k].item \in Item /\ results[k].result \in Outcomes
<1> DEFINE Result == [item : Item, result : Outcomes]
<1>1. results \in Seq(Result)
  BY DEF QueuesOK
<1> HIDE DEF Result
<1>2. \A k \in 1..Len(results) : results[k] \in Result
  BY <1>1
<1> QED
  BY <1>2 DEF Result

LEMMA StoredLemma == IsFiniteSet(Stored) /\ Cardinality(Stored) \in Nat
<1>1. IsFiniteSet(Stored)
  BY SizeLemma, FS_Subset DEF Stored
<1> QED
  BY <1>1, FS_CardinalityType

LEMMA PoolInitOK == Init => PoolInv
<1> SUFFICES ASSUME Init PROVE PoolInv
  OBVIOUS
<1>1. /\ main = "spawn" /\ count = 0 /\ jobs = <<>> /\ results = <<>>
      /\ out = [i \in Item |-> NoOutcome] /\ verdict = [i \in Item |-> <<>>]
      /\ wpc = [w \in Worker |-> "unborn"]
  BY DEF Init
<1>2. Len(jobs) = 0 /\ Len(results) = 0 /\ Sent = 0 /\ Taken = 0 /\ Busy = {} /\ Stored = {}
  <2>1. Len(jobs) = 0 /\ Len(results) = 0 /\ Sent = 0
    BY <1>1 DEF Sent
  <2>2. Busy = {} /\ Stored = {}
    BY <1>1 DEF Busy, Stored
  <2> QED
    BY <2>1, <2>2 DEF Taken
<1>3. MainOK
  BY <1>1, SizeLemma DEF MainOK
<1>4. QueuesOK
  <2>1. <<>> \in Seq(Item \cup {End}) /\ <<>> \in Seq([item : Item, result : Outcomes])
    OBVIOUS
  <2> QED
    BY <1>1, <1>2, <2>1, SizeLemma DEF QueuesOK, JobCap, ResultCap
<1>5. HandsOK
  <2>1. <<>> \in Seq(Outcomes)
    OBVIOUS
  <2> QED
    BY <2>1 DEF Init, HandsOK
<1>6. RoundsInv
  BY <1>1, SizeLemma DEF RoundsInv
<1>7. JobsInv
  BY <1>2 DEF JobsInv
<1>8. HandInv /\ ResultsInv
  BY <1>1, <1>2 DEF HandInv, ResultsInv
<1>9. CountInv
  BY <1>1, <1>2, FS_EmptySet DEF CountInv
<1> QED
  BY <1>3, <1>4, <1>5, <1>6, <1>7, <1>8, <1>9 DEF PoolInv, TypeOK
------------------------------------------------------------------------------
\* While pool-map starts workers and sends jobs, no element changes hands.
LEMMA HandFrame ==
  ASSUME HandInv, ResultsInv, UNCHANGED <<results, out, job, fate, verdict>>, Taken' = Taken,
         \A w \in Busy' : w \in Busy /\ wpc'[w] = wpc[w]
  PROVE  HandInv' /\ ResultsInv'
<1>1. HandInv'
  BY DEF HandInv
<1>2. ResultsInv'
  BY DEF ResultsInv
<1> QED
  BY <1>1, <1>2

\* One more worker is started.
LEMMA SpawnStep == ASSUME PoolInv, SpawnRound PROVE PoolInv'
<1> DEFINE w0 == count + 1
<1>1. /\ main = "spawn" /\ wpc' = [wpc EXCEPT ![w0] = "recv"]
      /\ UNCHANGED <<jobs, results, out, job, fate, verdict>>
      /\ \/ w0 = K /\ main' = "fill" /\ count' = 0
         \/ w0 # K /\ count' = w0 /\ main' = main
  BY DEF SpawnRound, Round
<1>2. count \in Nat /\ count < K /\ w0 \in 1..K /\ w0 \in Worker
  <2>1. count \in Nat /\ count < K
    BY <1>1, SizeLemma DEF PoolInv, TypeOK, MainOK, RoundsInv
  <2> QED
    BY <2>1, SizeLemma
<1>3. TypeOK'
  <2>1. MainOK'
    <3>1. 0 \in 0..(N + Len0) /\ w0 \in 0..(N + Len0)
      BY <1>2, SizeLemma
    <3> QED
      BY <1>1, <3>1 DEF PoolInv, TypeOK, MainOK
  <2>2. QueuesOK' /\ HandsOK'
    BY <1>1, <1>2 DEF PoolInv, TypeOK, QueuesOK, HandsOK
  <2> QED
    BY <2>1, <2>2 DEF TypeOK
<1>4. RoundsInv'
  <2>1. \A w \in Worker : wpc'[w] # "unborn" => w <= K
    BY <1>1, <1>2 DEF PoolInv, RoundsInv, TypeOK, HandsOK
  <2>2. w0 # K => w0 < K
    BY <1>2, SizeLemma
  <2> QED
    BY <1>1, <2>1, <2>2, SizeLemma DEF RoundsInv
<1>5. Sent' = 0 /\ Sent = 0 /\ Taken' = Taken
  <2>1. Sent' = 0 /\ Sent = 0
    BY <1>1 DEF Sent
  <2> QED
    BY <1>1, <2>1 DEF Taken
<1>6. JobsInv'
  BY <1>1, <1>5 DEF PoolInv, JobsInv
<1>7. HandInv' /\ ResultsInv'
  <2>1. \A w \in Busy' : w \in Busy /\ wpc'[w] = wpc[w]
    BY <1>1 DEF PoolInv, TypeOK, HandsOK, Busy
  <2> QED
    BY <1>1, <1>5, <2>1, HandFrame DEF PoolInv
<1>8. CountInv'
  <2>1. Stored' = Stored
    BY <1>1 DEF Stored
  <2> QED
    BY <1>1, <2>1 DEF PoolInv, CountInv
<1> QED
  BY <1>3, <1>4, <1>6, <1>7, <1>8 DEF PoolInv

\* Sending the next job of all, an element or an end, keeps the order.
LEMMA SendJob ==
  ASSUME PoolInv, jobs' = Append(jobs, Job(Sent + 1)), Sent' = Sent + 1, Sent < JobCap,
         UNCHANGED <<results, out, wpc, job, fate, verdict>>
  PROVE  QueuesOK' /\ HandsOK' /\ JobsInv' /\ HandInv' /\ ResultsInv' /\ Stored' = Stored
<1> DEFINE j == Job(Sent + 1)
<1>0. Sent \in Nat /\ Len(jobs) \in Nat /\ Len(jobs) <= Sent /\ JobCap \in Nat
  BY SentLemma, SizeLemma DEF PoolInv, TypeOK, JobsInv, JobCap
<1>1. j \in Item \cup {End}
  BY <1>0, SizeLemma DEF Job, Item
<1>2. /\ jobs' \in Seq(Item \cup {End}) /\ Len(jobs') = Len(jobs) + 1
      /\ jobs'[Len(jobs) + 1] = j /\ \A k \in 1..Len(jobs) : jobs'[k] = jobs[k]
  <2>1. jobs \in Seq(Item \cup {End})
    BY DEF PoolInv, TypeOK, QueuesOK
  <2> HIDE DEF j
  <2>2. jobs' = Append(jobs, j)
    BY DEF j
  <2> QED
    BY <1>1, <2>1, <2>2
<1>3. Taken' = Taken
  BY <1>0, <1>2 DEF Taken
<1>4. QueuesOK'
  BY <1>0, <1>2 DEF PoolInv, TypeOK, QueuesOK, ResultCap, JobCap
<1>5. HandsOK'
  BY DEF PoolInv, TypeOK, HandsOK
<1>6. JobsInv'
  <2>1. \A k : Job(k)' = Job(k)
    BY DEF Job
  <2>2. Taken + (Len(jobs) + 1) = Sent + 1
    BY <1>0 DEF Taken
  <2>3. \A k \in 1..(Len(jobs) + 1) : k \in 1..Len(jobs) \/ k = Len(jobs) + 1
    BY <1>0
  <2> HIDE DEF j
  <2>4. ASSUME NEW k \in 1..(Len(jobs) + 1) PROVE jobs'[k] = Job(Taken + k)
    <3>1. CASE k \in 1..Len(jobs)
      BY <1>2, <3>1 DEF PoolInv, JobsInv
    <3>2. CASE k = Len(jobs) + 1
      BY <1>2, <2>2, <3>2 DEF j
    <3> QED
      BY <2>3, <3>1, <3>2
  <2>5. Len(jobs') <= Sent'
    BY <1>0, <1>2
  <2> QED
    BY <1>2, <1>3, <2>1, <2>4, <2>5 DEF JobsInv
<1>7. HandInv' /\ ResultsInv'
  <2>1. \A w \in Busy' : w \in Busy /\ wpc'[w] = wpc[w]
    BY DEF Busy
  <2> QED
    BY <1>3, <2>1, HandFrame DEF PoolInv
<1> QED
  BY <1>4, <1>5, <1>6, <1>7 DEF Stored

LEMMA FillStep == ASSUME PoolInv, FillRound PROVE PoolInv'
<1>1. /\ main = "fill" /\ jobs' = Append(jobs, count + 1)
      /\ UNCHANGED <<results, out, wpc, job, fate, verdict>>
      /\ \/ count + 1 = Len0 /\ main' = "end" /\ count' = 0
         \/ count + 1 # Len0 /\ count' = count + 1 /\ main' = main
  BY DEF FillRound, Round
<1>2. count \in Nat /\ count < Len0
  BY <1>1, SentLemma DEF PoolInv, TypeOK, RoundsInv
<1>3. Sent = count /\ Sent' = Sent + 1 /\ Sent < JobCap /\ Job(Sent + 1) = count + 1
  <2>0. Sent = count
    BY <1>1 DEF Sent
  <2>1. Job(count + 1) = count + 1
    <3>1. count + 1 <= Len0
      BY <1>2, SizeLemma
    <3> QED
      BY <3>1 DEF Job
  <2>2. Sent' = count + 1
    BY <1>1, <1>2, SizeLemma DEF Sent
  <2>3. count < JobCap
    BY <1>2, SizeLemma DEF JobCap
  <2> QED
    BY <2>0, <2>1, <2>2, <2>3
<1>4. QueuesOK' /\ HandsOK' /\ JobsInv' /\ HandInv' /\ ResultsInv' /\ Stored' = Stored
  BY <1>1, <1>3, SendJob
<1>5. MainOK'
  <2>1. 0 \in 0..(N + Len0) /\ count + 1 \in 0..(N + Len0)
    BY <1>2, SizeLemma
  <2> QED
    BY <1>1, <2>1 DEF PoolInv, TypeOK, MainOK
<1>6. RoundsInv'
  <2>1. count + 1 # Len0 => count + 1 < Len0
    BY <1>2, SizeLemma
  <2> QED
    BY <1>1, <2>1, SizeLemma DEF PoolInv, RoundsInv
<1>7. CountInv'
  BY <1>1, <1>4 DEF PoolInv, CountInv
<1> QED
  BY <1>4, <1>5, <1>6, <1>7 DEF PoolInv, TypeOK

LEMMA EndStep == ASSUME PoolInv, EndRound PROVE PoolInv'
<1>1. /\ main = "end" /\ jobs' = Append(jobs, End)
      /\ UNCHANGED <<results, out, wpc, job, fate, verdict>>
      /\ \/ count + 1 = K /\ main' = "collect" /\ count' = 0
         \/ count + 1 # K /\ count' = count + 1 /\ main' = main
  BY DEF EndRound, Round
<1>2. count \in Nat /\ count < K
  BY <1>1, SentLemma DEF PoolInv, TypeOK, RoundsInv
<1>3. Sent' = Sent + 1 /\ Sent < JobCap /\ Job(Sent + 1) = End
  <2>1. Sent = Len0 + count /\ Sent \in Nat /\ Sent < JobCap
    BY <1>1, <1>2, SizeLemma DEF Sent, JobCap
  <2>2. Sent' = Len0 + (count + 1)
    BY <1>1, <1>2, SizeLemma DEF Sent
  <2>3. Job(Sent + 1) = End
    BY <1>2, <2>1, SizeLemma DEF Job
  <2> QED
    BY <1>2, <2>1, <2>2, <2>3, SizeLemma
<1>4. QueuesOK' /\ HandsOK' /\ JobsInv' /\ HandInv' /\ ResultsInv' /\ Stored' = Stored
  BY <1>1, <1>3, SendJob
<1>5. MainOK'
  <2>1. 0 \in 0..(N + Len0) /\ count + 1 \in 0..(N + Len0)
    BY <1>2, SizeLemma
  <2> QED
    BY <1>1, <2>1 DEF PoolInv, TypeOK, MainOK
<1>6. RoundsInv'
  <2>1. count + 1 # K => count + 1 < K
    BY <1>2, SizeLemma
  <2> QED
    BY <1>1, <2>1, SizeLemma DEF PoolInv, RoundsInv
<1>7. CountInv'
  BY <1>1, <1>4 DEF PoolInv, CountInv
<1> QED
  BY <1>4, <1>5, <1>6, <1>7 DEF PoolInv, TypeOK
------------------------------------------------------------------------------
\* A result of the channel is stored at its element's place, which was empty.
LEMMA PoolCollectStep == ASSUME PoolInv, CollectRound PROVE PoolInv'
<1> DEFINE r == Head(results)
           M == Len(results) - 1
<1>1. /\ main = "collect" /\ results # <<>>
      /\ out' = [out EXCEPT ![r.item] = r.result] /\ results' = Tail(results)
      /\ UNCHANGED <<jobs, wpc, job, fate, verdict>>
      /\ \/ count + 1 = Len0 /\ main' = "done" /\ count' = 0
         \/ count + 1 # Len0 /\ count' = count + 1 /\ main' = main
  BY DEF CollectRound, Round
<1>2. count \in Nat /\ count < Len0 /\ Len(results) \in Nat
  BY <1>1, SentLemma DEF PoolInv, TypeOK, RoundsInv
<1>3. /\ M \in Nat /\ Len(results') = M /\ r = results[1] /\ 1 \in 1..Len(results)
      /\ \A k \in 1..M : results'[k] = results[k + 1] /\ k + 1 \in 1..Len(results)
      /\ results' \in Seq([item : Item, result : Outcomes])
      /\ \A k \in 1..Len(results) : results[k] \in [item : Item, result : Outcomes]
  <2> DEFINE Result == [item : Item, result : Outcomes]
  <2>1. results \in Seq(Result)
    BY DEF PoolInv, TypeOK, QueuesOK
  <2> HIDE DEF Result
  <2>2. M \in Nat /\ Len(results') = M /\ r = results[1] /\ 1 \in 1..Len(results)
    BY <1>1, <2>1
  <2>3. ASSUME NEW k \in 1..M PROVE results'[k] = results[k + 1] /\ k + 1 \in 1..Len(results)
    BY <1>1, <2>1, <2>2
  <2>4. results' \in Seq(Result) /\ \A k \in 1..Len(results) : results[k] \in Result
    BY <1>1, <2>1
  <2> QED
    BY <2>2, <2>3, <2>4 DEF Result
<1>4. /\ r.item \in Item /\ r.result \in Outcomes /\ r.result # NoOutcome
      /\ out[r.item] = NoOutcome /\ r.item <= Taken /\ verdict[r.item] = <<r.result>>
      /\ \A w \in Busy : job[w] # r.item
  <2>1. results[1].item \in Item /\ results[1].result \in Outcomes
    BY <1>3, ResultLemma DEF PoolInv, TypeOK
  <2>2. results[1].result # NoOutcome
    BY <2>1, SizeLemma
  <2>3. r = results[1] /\ 1 \in 1..Len(results)
    BY <1>3
  <2> HIDE DEF r, M
  <2> QED
    BY <2>1, <2>2, <2>3 DEF PoolInv, ResultsInv
<1>5. out'[r.item] = r.result /\ \A i \in Item : i # r.item => out'[i] = out[i]
  BY <1>1, <1>4 DEF PoolInv, TypeOK, MainOK
<1>6. Sent' = Sent /\ Taken' = Taken /\ Busy' = Busy
  <2>1. Sent' = Sent
    BY <1>1 DEF Sent
  <2> QED
    BY <1>1, <2>1 DEF Taken, Busy
<1>7. TypeOK'
  <2>1. MainOK'
    <3>1. 0 \in 0..(N + Len0) /\ count + 1 \in 0..(N + Len0)
      BY <1>2, SizeLemma
    <3> QED
      BY <1>1, <1>4, <3>1 DEF PoolInv, TypeOK, MainOK
  <2>2. QueuesOK'
    BY <1>1, <1>2, <1>3, SizeLemma DEF PoolInv, TypeOK, QueuesOK, ResultCap
  <2>3. HandsOK'
    BY <1>1 DEF PoolInv, TypeOK, HandsOK
  <2> QED
    BY <2>1, <2>2, <2>3 DEF TypeOK
<1>8. RoundsInv'
  <2>1. count + 1 # Len0 => count + 1 < Len0
    BY <1>2, SizeLemma
  <2> QED
    BY <1>1, <2>1, SizeLemma DEF PoolInv, RoundsInv
<1>9. JobsInv'
  BY <1>1, <1>6 DEF PoolInv, JobsInv
<1> HIDE DEF r, M
<1>10. HandInv'
  <2>1. \A i \in Item : i > Taken => i # r.item
    <3>1. Taken \in Int
      BY SentLemma DEF PoolInv, TypeOK, Taken
    <3>2. r.item \in Nat
      BY <1>4, SizeLemma
    <3> QED
      BY <1>4, <3>1, <3>2, SizeLemma
  <2> QED
    BY <1>1, <1>4, <1>5, <1>6, <2>1 DEF PoolInv, HandInv
<1>11. ResultsInv'
  <2>1. ASSUME NEW k \in 1..M
        PROVE  /\ results'[k].item \in Item /\ results'[k].item # r.item
               /\ results'[k].item <= Taken /\ out'[results'[k].item] = NoOutcome
               /\ verdict[results'[k].item] = <<results'[k].result>>
               /\ \A w \in Busy : job[w] # results'[k].item
    <3>1. results'[k] = results[k + 1] /\ k + 1 \in 1..Len(results) /\ k + 1 # 1
      BY <1>3
    <3>2. results[k + 1].item # results[1].item
      BY <1>3, <3>1 DEF PoolInv, ResultsInv
    <3>3. results[k + 1].item \in Item
      BY <3>1, ResultLemma DEF PoolInv, TypeOK
    <3>4. results'[k].item # r.item
      BY <1>3, <3>1, <3>2
    <3>5. /\ results[k + 1].item <= Taken /\ out[results[k + 1].item] = NoOutcome
          /\ verdict[results[k + 1].item] = <<results[k + 1].result>>
          /\ \A w \in Busy : job[w] # results[k + 1].item
      BY <3>1 DEF PoolInv, ResultsInv
    <3>6. out'[results'[k].item] = NoOutcome
      BY <1>5, <3>1, <3>3, <3>4, <3>5
    <3> QED
      BY <3>1, <3>3, <3>4, <3>5, <3>6
  <2>2. ASSUME NEW k \in 1..M, NEW l \in 1..M, results'[k].item = results'[l].item PROVE k = l
    <3>1. k + 1 = l + 1
      BY <1>3, <2>2 DEF PoolInv, ResultsInv
    <3> QED
      BY <3>1
  <2>3. \A i \in Item : out'[i] # NoOutcome => verdict[i] = <<out'[i]>>
    BY <1>4, <1>5 DEF PoolInv, ResultsInv
  <2>4. Len(results') = M /\ UNCHANGED <<verdict, job>>
    BY <1>1, <1>3
  <2>5. \A k \in 1..Len(results') :
          /\ results'[k].item <= Taken' /\ out'[results'[k].item] = NoOutcome
          /\ verdict'[results'[k].item] = <<results'[k].result>>
          /\ \A w \in Busy' : job'[w] # results'[k].item
    BY <1>6, <2>1, <2>4
  <2>6. \A k, l \in 1..Len(results') : results'[k].item = results'[l].item => k = l
    BY <2>2, <2>4
  <2>7. \A i \in Item : out'[i] # NoOutcome => verdict'[i] = <<out'[i]>>
    BY <2>3, <2>4
  <2> QED
    BY <2>5, <2>6, <2>7 DEF ResultsInv
<1>12. CountInv'
  <2>1. Stored' = Stored \cup {r.item} /\ r.item \notin Stored
    BY <1>4, <1>5 DEF Stored
  <2>2. Cardinality(Stored') = Cardinality(Stored) + 1
    BY <2>1, StoredLemma, FS_AddElement
  <2>3. Cardinality(Stored) = count
    BY <1>1 DEF PoolInv, CountInv
  <2> QED
    BY <1>1, <2>2, <2>3 DEF CountInv
<1> QED
  BY <1>7, <1>8, <1>9, <1>10, <1>11, <1>12 DEF PoolInv
------------------------------------------------------------------------------
\* The next job is in nobody's hands, and fn has not been called on it.
LEMMA TakeStep == ASSUME PoolInv, NEW w \in Worker, TakeJob(w) PROVE PoolInv'
<1> DEFINE j == Head(jobs)
           M == Len(jobs) - 1
<1>1. /\ wpc[w] = "recv" /\ jobs # <<>> /\ jobs' = Tail(jobs)
      /\ job' = [job EXCEPT ![w] = j]
      /\ wpc' = [wpc EXCEPT ![w] = IF j = End THEN "ended" ELSE "call"]
      /\ UNCHANGED <<main, count, out, results, fate, verdict>>
  BY DEF TakeJob
<1>2. Sent' = Sent /\ Sent \in Nat /\ Len(jobs) \in Nat /\ Len(jobs) <= Sent
  BY <1>1, SentLemma DEF Sent, PoolInv, TypeOK, JobsInv
<1>3. /\ M \in Nat /\ Len(jobs') = M /\ j = jobs[1] /\ 1 \in 1..Len(jobs)
      /\ \A k \in 1..M : jobs'[k] = jobs[k + 1] /\ k + 1 \in 1..Len(jobs)
      /\ jobs' \in Seq(Item \cup {End}) /\ j \in Item \cup {End}
  <2> DEFINE Jobs == Item \cup {End}
  <2>1. jobs \in Seq(Jobs)
    BY DEF PoolInv, TypeOK, QueuesOK
  <2> HIDE DEF Jobs
  <2>2. M \in Nat /\ Len(jobs') = M /\ j = jobs[1] /\ 1 \in 1..Len(jobs)
    BY <1>1, <2>1
  <2>3. ASSUME NEW k \in 1..M PROVE jobs'[k] = jobs[k + 1] /\ k + 1 \in 1..Len(jobs)
    BY <1>1, <2>1, <2>2
  <2>4. jobs' \in Seq(Jobs) /\ j \in Jobs
    BY <1>1, <2>1
  <2> QED
    BY <2>2, <2>3, <2>4 DEF Jobs
<1>4. Taken' = Taken + 1 /\ Taken \in Nat
  BY <1>2, <1>3 DEF Taken
<1>5. j = Job(Taken + 1)
  BY <1>3 DEF PoolInv, JobsInv
<1>6. j # End => j \in Item /\ j = Taken + 1
  BY <1>3, <1>5 DEF Job
<1>7. TypeOK'
  <2>1. MainOK'
    BY <1>1 DEF PoolInv, TypeOK, MainOK
  <2>2. QueuesOK'
    BY <1>1, <1>2, <1>3, SizeLemma DEF PoolInv, TypeOK, QueuesOK, JobCap
  <2>3. HandsOK'
    BY <1>1, <1>3 DEF PoolInv, TypeOK, HandsOK
  <2> QED
    BY <2>1, <2>2, <2>3 DEF TypeOK
<1> HIDE DEF j, M
<1>8. RoundsInv'
  <2>1. w <= K
    BY <1>1 DEF PoolInv, RoundsInv
  <2>2. \A v \in Worker : v # w => wpc'[v] = wpc[v]
    BY <1>1 DEF PoolInv, TypeOK, HandsOK
  <2> QED
    BY <1>1, <2>1, <2>2 DEF PoolInv, RoundsInv
<1>9. JobsInv'
  <2>1. ASSUME NEW k \in 1..M PROVE jobs'[k] = Job(Taken' + k)
    <3>1. Taken + (k + 1) = Taken' + k
      BY <1>3, <1>4
    <3> QED
      BY <1>3, <3>1 DEF PoolInv, JobsInv
  <2>2. M <= Sent
    BY <1>2 DEF M
  <2>3. \A k : Job(k)' = Job(k)
    BY DEF Job
  <2> QED
    BY <1>2, <1>3, <2>1, <2>2, <2>3 DEF JobsInv
<1>10. /\ w \notin Busy /\ Busy' = IF j = End THEN Busy ELSE Busy \cup {w}
       /\ job'[w] = j /\ \A v \in Busy : job'[v] = job[v] /\ wpc'[v] = wpc[v]
       /\ j # End => wpc'[w] = "call"
  BY <1>1 DEF PoolInv, TypeOK, HandsOK, Busy
<1>11. \A i \in Item : i \in Nat /\ (i > Taken' => i > Taken) /\ (i <= Taken => i <= Taken')
  BY <1>4, SizeLemma
<1>12. HandInv'
  <2>1. \A i \in Item : i > Taken' => verdict'[i] = <<>> /\ out'[i] = NoOutcome
    BY <1>1, <1>11 DEF PoolInv, HandInv
  <2>2. \A v \in Busy : /\ job'[v] \in Item /\ job'[v] <= Taken' /\ out'[job'[v]] = NoOutcome
                        /\ verdict'[job'[v]] = IF wpc'[v] = "send" THEN <<fate'[v]>> ELSE <<>>
    BY <1>1, <1>10, <1>11 DEF PoolInv, HandInv
  <2>3. j # End => /\ j \in Item /\ j <= Taken' /\ out'[j] = NoOutcome /\ verdict'[j] = <<>>
                   /\ \A v \in Busy : job'[v] # j
    <3>1. j # End => j > Taken /\ j <= Taken'
      BY <1>4, <1>6
    <3>2. \A v \in Busy : job[v] \in Item /\ job[v] <= Taken
      BY DEF PoolInv, HandInv
    <3>3. j # End => \A v \in Busy : job[v] # j
      BY <1>4, <1>6, <3>1, <3>2, SizeLemma
    <3> QED
      BY <1>1, <1>6, <1>10, <3>1, <3>3 DEF PoolInv, HandInv
  <2>4. \A u, v \in Busy : job'[u] = job'[v] => u = v
    BY <1>10 DEF PoolInv, HandInv
  <2> QED
    BY <1>10, <2>1, <2>2, <2>3, <2>4 DEF HandInv
<1>13. ResultsInv'
  <2>1. ASSUME NEW k \in 1..Len(results)
        PROVE  results[k].item <= Taken' /\ (j # End => results[k].item # j)
    <3>1. results[k].item \in Item /\ results[k].item <= Taken
      BY ResultLemma DEF PoolInv, TypeOK, ResultsInv
    <3> QED
      BY <1>4, <1>6, <1>11, <3>1
  <2> QED
    BY <1>1, <1>10, <2>1 DEF PoolInv, ResultsInv
<1>14. CountInv'
  BY <1>1 DEF PoolInv, CountInv, Stored
<1> QED
  BY <1>7, <1>8, <1>9, <1>12, <1>13, <1>14 DEF PoolInv

\* The call of fn notes its end for the one element the worker has.
LEMMA CallStep == ASSUME PoolInv, NEW w \in Worker, CallEnds(w) PROVE PoolInv'
<1>0. PICK o \in Outcomes :
        /\ fate' = [fate EXCEPT ![w] = o]
        /\ verdict' = [verdict EXCEPT ![job[w]] = Append(@, o)]
        /\ wpc' = [wpc EXCEPT ![w] = IF o = "exit" THEN "dead" ELSE "send"]
  BY DEF CallEnds
<1>1. wpc[w] = "call" /\ UNCHANGED <<main, count, out, jobs, results, job>>
  BY DEF CallEnds
<1>2. w \in Busy /\ job[w] \in Item /\ verdict[job[w]] = <<>>
  <2>1. w \in Busy
    BY <1>1 DEF Busy
  <2> QED
    BY <1>1, <2>1 DEF PoolInv, HandInv
<1>3. /\ fate'[w] = o /\ \A v \in Worker : v # w => fate'[v] = fate[v] /\ wpc'[v] = wpc[v]
      /\ wpc'[w] \in {"dead", "send"}
      /\ verdict'[job[w]] = <<o>> /\ \A i \in Item : i # job[w] => verdict'[i] = verdict[i]
  <2>1. Append(<<>>, o) = <<o>>
    OBVIOUS
  <2> QED
    BY <1>0, <1>2, <2>1 DEF PoolInv, TypeOK, HandsOK
<1>4. Sent' = Sent /\ Taken' = Taken /\ Stored' = Stored
  <2>1. Sent' = Sent
    BY <1>1 DEF Sent
  <2> QED
    BY <1>1, <2>1 DEF Taken, Stored
<1>5. TypeOK'
  <2>1. MainOK' /\ QueuesOK'
    BY <1>1 DEF PoolInv, TypeOK, MainOK, QueuesOK
  <2>2. verdict' \in [Item -> Seq(Outcomes)]
    <3>1. <<o>> \in Seq(Outcomes)
      OBVIOUS
    <3> QED
      BY <1>0, <1>2, <1>3, <3>1 DEF PoolInv, TypeOK, HandsOK
  <2>3. HandsOK'
    BY <1>0, <1>1, <2>2 DEF PoolInv, TypeOK, HandsOK
  <2> QED
    BY <2>1, <2>3 DEF TypeOK
<1>6. RoundsInv'
  BY <1>1, <1>3 DEF PoolInv, RoundsInv
<1>7. JobsInv'
  BY <1>1, <1>4 DEF PoolInv, JobsInv, Job
<1>8. \A v \in Busy' : v \in Busy /\ (v # w => job[v] # job[w] /\ wpc'[v] = wpc[v])
  <2>1. \A v \in Busy : v # w => job[v] # job[w]
    BY <1>2 DEF PoolInv, HandInv
  <2> QED
    BY <1>2, <1>3, <2>1 DEF Busy
<1>9. HandInv'
  <2>1. \A i \in Item : i > Taken => i # job[w]
    BY <1>2, SentLemma, SizeLemma DEF PoolInv, TypeOK, HandInv, Taken
  <2>2. \A i \in Item : i > Taken' => verdict'[i] = <<>> /\ out'[i] = NoOutcome
    BY <1>1, <1>3, <1>4, <2>1 DEF PoolInv, HandInv
  <2>3. \A v \in Busy' : job'[v] \in Item /\ job'[v] <= Taken' /\ out'[job'[v]] = NoOutcome
    BY <1>1, <1>4, <1>8 DEF PoolInv, HandInv
  <2>4. ASSUME NEW v \in Busy'
        PROVE  verdict'[job'[v]] = IF wpc'[v] = "send" THEN <<fate'[v]>> ELSE <<>>
    <3>1. CASE v = w
      <4>1. wpc'[w] = "send"
        BY <1>3, <3>1 DEF Busy
      <4> QED
        BY <1>1, <1>3, <3>1, <4>1
    <3>2. CASE v # w
      <4>1. v \in Worker /\ job[v] \in Item
        BY <1>8 DEF Busy, PoolInv, HandInv
      <4> QED
        BY <1>1, <1>3, <1>8, <3>2, <4>1 DEF PoolInv, HandInv
    <3> QED
      BY <3>1, <3>2
  <2>5. \A u, v \in Busy' : job'[u] = job'[v] => u = v
    BY <1>1, <1>8 DEF PoolInv, HandInv
  <2> QED
    BY <2>2, <2>3, <2>4, <2>5 DEF HandInv
<1>10. ResultsInv'
  <2>1. \A k \in 1..Len(results) : results[k].item \in Item /\ results[k].item # job[w]
    BY <1>2, ResultLemma DEF PoolInv, TypeOK, ResultsInv
  <2>2. \A i \in Item : out[i] # NoOutcome => i # job[w]
    BY <1>2 DEF PoolInv, HandInv
  <2> QED
    BY <1>1, <1>3, <1>4, <1>8, <2>1, <2>2 DEF PoolInv, ResultsInv
<1>11. CountInv'
  BY <1>1, <1>4 DEF PoolInv, CountInv
<1> QED
  BY <1>5, <1>6, <1>7, <1>9, <1>10, <1>11 DEF PoolInv

\* The element goes from the worker's hands into the channel of results.
LEMMA SendResultStep == ASSUME PoolInv, NEW w \in Worker, SendResult(w) PROVE PoolInv'
<1> DEFINE r == [item |-> job[w], result |-> fate[w]]
           M == Len(results) + 1
<1>1. /\ wpc[w] = "send" /\ Len(results) < ResultCap
      /\ results' = Append(results, r) /\ wpc' = [wpc EXCEPT ![w] = "recv"]
      /\ UNCHANGED <<main, count, out, jobs, job, fate, verdict>>
  BY DEF SendResult
<1>2. /\ w \in Busy /\ job[w] \in Item /\ verdict[job[w]] = <<fate[w]>> /\ job[w] <= Taken
      /\ out[job[w]] = NoOutcome
  <2>1. w \in Busy
    BY <1>1 DEF Busy
  <2> QED
    BY <1>1, <2>1 DEF PoolInv, HandInv
<1>3. fate[w] \in Outcomes
  <2>1. verdict[job[w]] \in Seq(Outcomes)
    BY <1>2 DEF PoolInv, TypeOK, HandsOK
  <2>2. <<fate[w]>> \in Seq(Outcomes) /\ Len(<<fate[w]>>) = 1 /\ <<fate[w]>>[1] = fate[w]
    BY <1>2, <2>1
  <2> QED
    BY <2>2
<1>4. /\ r.item = job[w] /\ r.result = fate[w] /\ r \in [item : Item, result : Outcomes]
      /\ Len(results) \in Nat
  BY <1>2, <1>3 DEF PoolInv, TypeOK, QueuesOK
<1> HIDE DEF r
<1>5. /\ Len(results') = M /\ results'[M] = r
      /\ \A k \in 1..Len(results) : results'[k] = results[k]
      /\ \A k \in 1..M : k \in 1..Len(results) \/ k = M
      /\ results' \in Seq([item : Item, result : Outcomes])
  <2> DEFINE Result == [item : Item, result : Outcomes]
  <2>1. results \in Seq(Result) /\ r \in Result
    BY <1>4 DEF PoolInv, TypeOK, QueuesOK
  <2> HIDE DEF Result
  <2>2. results' \in Seq(Result) /\ Len(results') = M /\ results'[M] = r
        /\ \A k \in 1..Len(results) : results'[k] = results[k]
    BY <1>1, <2>1
  <2> QED
    BY <1>4, <2>2 DEF Result
<1>6. Sent' = Sent /\ Taken' = Taken /\ Stored' = Stored
  <2>1. Sent' = Sent
    BY <1>1 DEF Sent
  <2> QED
    BY <1>1, <2>1 DEF Taken, Stored
<1>7. TypeOK'
  <2>1. MainOK' /\ HandsOK'
    BY <1>1 DEF PoolInv, TypeOK, MainOK, HandsOK
  <2>2. QueuesOK'
    BY <1>1, <1>4, <1>5, SizeLemma DEF PoolInv, TypeOK, QueuesOK, ResultCap, JobCap
  <2> QED
    BY <2>1, <2>2 DEF TypeOK
<1>8. Busy' = Busy \ {w} /\ \A v \in Busy' : wpc'[v] = wpc[v] /\ job[v] # job[w]
  <2>1. \A v \in Worker : v # w => wpc'[v] = wpc[v]
    BY <1>1 DEF PoolInv, TypeOK, HandsOK
  <2>2. wpc'[w] = "recv"
    BY <1>1 DEF PoolInv, TypeOK, HandsOK
  <2>3. Busy' = Busy \ {w}
    BY <2>1, <2>2 DEF Busy
  <2> QED
    BY <1>2, <2>1, <2>3 DEF PoolInv, HandInv, Busy
<1>9. RoundsInv'
  BY <1>1 DEF PoolInv, RoundsInv, TypeOK, HandsOK
<1>10. JobsInv'
  BY <1>1, <1>6 DEF PoolInv, JobsInv, Job
<1>11. HandInv'
  BY <1>1, <1>6, <1>8 DEF PoolInv, HandInv
<1>12. ResultsInv'
  <2> HIDE DEF M
  <2>1. \A k \in 1..Len(results) : results[k].item # job[w]
    BY <1>2 DEF PoolInv, ResultsInv
  <2>2. ASSUME NEW k \in 1..M
        PROVE  /\ results'[k].item <= Taken /\ out[results'[k].item] = NoOutcome
               /\ verdict[results'[k].item] = <<results'[k].result>>
               /\ \A v \in Busy' : job[v] # results'[k].item
    <3>1. CASE k \in 1..Len(results)
      <4>1. results'[k] = results[k] /\ \A v \in Busy' : v \in Busy
        BY <1>5, <1>8, <3>1
      <4> QED
        BY <3>1, <4>1 DEF PoolInv, ResultsInv
    <3>2. CASE k = M
      BY <1>2, <1>4, <1>5, <1>8, <3>2
    <3> QED
      BY <1>5, <3>1, <3>2
  <2>3. ASSUME NEW k \in 1..M, NEW l \in 1..M, results'[k].item = results'[l].item PROVE k = l
    BY <1>4, <1>5, <2>1, <2>3 DEF PoolInv, ResultsInv
  <2> QED
    BY <1>1, <1>5, <1>6, <2>2, <2>3 DEF PoolInv, ResultsInv
<1>13. CountInv'
  BY <1>1, <1>6 DEF PoolInv, CountInv
<1> QED
  BY <1>7, <1>9, <1>10, <1>11, <1>12, <1>13 DEF PoolInv
------------------------------------------------------------------------------
LEMMA PoolInductive == PoolInv /\ [Next]_vars => PoolInv'
<1> SUFFICES ASSUME PoolInv, [Next]_vars PROVE PoolInv'
  OBVIOUS
<1>1. CASE Main
  BY <1>1, SpawnStep, FillStep, EndStep, PoolCollectStep DEF Main
<1>2. ASSUME NEW w \in Worker, Work(w) PROVE PoolInv'
  BY <1>2, TakeStep, CallStep, SendResultStep DEF Work
<1>3. CASE UNCHANGED vars
  <2>1. UNCHANGED <<main, count, jobs, results, out, wpc, job, fate, verdict>>
    BY <1>3 DEF vars
  <2>2. Sent' = Sent /\ Taken' = Taken /\ Busy' = Busy /\ Stored' = Stored
    BY <2>1 DEF Sent, Taken, Busy, Stored
  <2>3. TypeOK'
    BY <2>1 DEF PoolInv, TypeOK, MainOK, QueuesOK, HandsOK
  <2>4. RoundsInv' /\ JobsInv' /\ CountInv'
    BY <2>1, <2>2 DEF PoolInv, RoundsInv, JobsInv, Job, CountInv
  <2>5. HandInv' /\ ResultsInv'
    BY <2>1, <2>2, HandFrame DEF PoolInv
  <2> QED
    BY <2>3, <2>4, <2>5 DEF PoolInv
<1> QED
  BY <1>1, <1>2, <1>3 DEF Next

LEMMA PoolInvariance == Spec => []PoolInv
<1> QED
  BY PoolInitOK, PoolInductive, PTL DEF Spec

\* Only the K started workers call.
LEMMA AtMostNLemma == ASSUME PoolInv PROVE TypeOK /\ AtMostN
<1> DEFINE Calls == {w \in Worker : wpc[w] = "call"}
<1>1. Calls \subseteq 1..K
  BY SizeLemma DEF PoolInv, RoundsInv, Worker
<1>2. IsFiniteSet(1..K) /\ Cardinality(1..K) = K
  BY SizeLemma, FS_Interval
<1>3. Cardinality(Calls) <= K /\ Cardinality(Calls) \in Nat
  BY <1>1, <1>2, FS_Subset, FS_CardinalityType
<1> QED
  BY <1>3, SizeLemma DEF AtMostN, PoolInv

\* All jobs and end markers fit, and the results of elements no worker has.
LEMMA RoomLemma == ASSUME PoolInv PROVE SendNeverWaits
<1>1. main \in {"fill", "end"} => Len(jobs) < JobCap
  <2>1. main \in {"fill", "end"} => Sent < JobCap
    BY SentLemma, SizeLemma DEF PoolInv, TypeOK, RoundsInv, Sent, JobCap
  <2>2. Sent \in Nat /\ Len(jobs) \in Nat /\ Len(jobs) <= Sent /\ JobCap \in Nat
    BY SentLemma, SizeLemma DEF PoolInv, TypeOK, JobsInv, JobCap
  <2> QED
    BY <2>1, <2>2
<1>2. ASSUME NEW w \in Worker, wpc[w] = "send" PROVE Len(results) < ResultCap
  <2> DEFINE S == 1..Len(results)
             T == Item \ {job[w]}
             f == [k \in S |-> results[k].item]
  <2>1. w \in Busy /\ job[w] \in Item
    BY <1>2 DEF Busy, PoolInv, HandInv
  <2>2. IsFiniteSet(T) /\ Cardinality(T) = Len0 - 1
    BY <2>1, SizeLemma, FS_RemoveElement
  <2>3. f \in Injection(S, T)
    <3>1. \A k \in S : results[k].item \in T
      BY <2>1, ResultLemma DEF PoolInv, TypeOK, ResultsInv
    <3>2. \A k, l \in S : results[k].item = results[l].item => k = l
      BY DEF PoolInv, ResultsInv
    <3> QED
      BY <3>1, <3>2 DEF Injection, IsInjective
  <2>4. Cardinality(S) <= Len0 - 1
    <3> HIDE DEF S, T, f
    <3> QED
      BY <2>2, <2>3, FS_Injection
  <2>5. Len(results) \in Nat /\ Cardinality(S) = Len(results)
    <3>1. Len(results) \in Nat
      BY DEF PoolInv, TypeOK, QueuesOK
    <3>2. Cardinality(S) = IF 1 > Len(results) THEN 0 ELSE Len(results) - 1 + 1
      BY <3>1, FS_Interval
    <3> QED
      BY <3>1, <3>2
  <2> QED
    BY <2>4, <2>5, SizeLemma DEF ResultCap
<1> QED
  BY <1>1, <1>2, AtMostNLemma DEF SendNeverWaits

\* Neither channel of pool-map is ever full when something is to be put into
\* it: (+ len k) and len are rooms enough for any list and any number of
\* workers, so that no worker waits for another (stdlib.lisp, pool-map).
THEOREM SendNeverWaitsTheorem == Spec => []SendNeverWaits
<1> QED
  BY RoomLemma, PoolInvariance, PTL

\* As many places are filled as there are elements.
LEMMA InPlaceLemma == ASSUME PoolInv PROVE ResultsInPlace
<1> SUFFICES ASSUME PoolInv, main = "done", NEW i \in Item PROVE verdict[i] = <<out[i]>>
  BY DEF ResultsInPlace
<1>1. Cardinality(Stored) = Cardinality(Item)
  BY SizeLemma DEF PoolInv, CountInv
<1>2. Stored = Item
  BY <1>1, SizeLemma, FS_Subset DEF Stored
<1> QED
  BY <1>2 DEF Stored, PoolInv, ResultsInv

\* Whenever pool-map returns, fn has been called exactly once on each element,
\* and its place of the result is that call's (stdlib.lisp, pool-map).
THEOREM ResultsInPlaceTheorem == Spec => []ResultsInPlace
<1> QED
  BY InPlaceLemma, PoolInvariance, PTL

\* pool-map never has more than n calls of fn under way (stdlib.lisp).
THEOREM AtMostNTheorem == Spec => [](TypeOK /\ AtMostN)
<1> QED
  BY AtMostNLemma, PoolInvariance, PTL
------------------------------------------------------------------------------
(* pool-map comes to an end                                                  *)
(*                                                                           *)
(* As long as no call of fn leaves by a non-local exit, pool-map is never    *)
(* stuck, and every step brings the end nearer: whatever the scheduler does, *)
(* it can only go on to the end.                                             *)

NoExit == "exit" \notin Outcomes
At(s) == {w \in Worker : wpc[w] = s}

\* The workers 1 .. LastStarted have been started.
LastStarted == IF main = "spawn" THEN count ELSE K
StartedInv == \A w \in Worker : wpc[w] # "unborn" <=> w <= LastStarted

\* Each end marker taken has ended one worker.
EndsInv == Cardinality(At("ended")) = IF Taken <= Len0 THEN 0 ELSE Taken - Len0

\* A taken element is with a worker, in the channel of results or in its place.
WhereInv ==
  \A i \in Item : i <= Taken => \/ out[i] # NoOutcome
                                \/ \E k \in 1..Len(results) : results[k].item = i
                                \/ \E w \in Busy : job[w] = i

EndInv == PoolInv /\ StartedInv /\ EndsInv /\ WhereInv /\ At("dead") = {}

\* pool-map itself, or worker w, has something to do that nothing holds up: the
\* guards of their actions.
MainMay == \/ main = "spawn"
           \/ main \in {"fill", "end"} /\ Len(jobs) < JobCap
           \/ main = "collect" /\ results # <<>>
WorkMay(w) == \/ wpc[w] = "recv" /\ jobs # <<>>
              \/ wpc[w] = "call"
              \/ wpc[w] = "send" /\ Len(results) < ResultCap

\* No deadlock: pool-map has returned and all its workers have ended, or one of
\* them can go on (stdlib.lisp, pool-map and %pool-arbeiter).
NeverStuck == Stopped \/ MainMay \/ \E w \in Worker : WorkMay(w)

\* The steps pool-map itself and its workers have yet to take, at most.
MainLeft == IF main = "spawn" THEN (K - count) + Len0 + K + Len0
            ELSE IF main = "fill" THEN (Len0 - count) + K + Len0
            ELSE IF main = "end" THEN (K - count) + Len0
            ELSE IF main = "collect" THEN Len0 - count
            ELSE 0
Left == MainLeft + 3 * (Len0 + K - Taken) + 2 * Cardinality(At("call")) + Cardinality(At("send"))

LEMMA AtLemma == ASSUME NEW s PROVE IsFiniteSet(At(s)) /\ Cardinality(At(s)) \in Nat
<1>1. IsFiniteSet(Worker)
  BY SizeLemma, FS_Interval DEF Worker
<1>2. IsFiniteSet(At(s))
  BY <1>1, FS_Subset DEF At
<1> QED
  BY <1>2, FS_CardinalityType

\* A worker that moves on from s to t is one less at s and one more at t.
LEMMA MoveLemma ==
  ASSUME PoolInv, NEW w \in Worker, NEW s, NEW t, s # t, wpc[w] = s,
         wpc' = [wpc EXCEPT ![w] = t]
  PROVE  /\ Cardinality(At(s)') = Cardinality(At(s)) - 1
         /\ Cardinality(At(t)') = Cardinality(At(t)) + 1
<1>1. wpc'[w] = t /\ \A v \in Worker : v # w => wpc'[v] = wpc[v]
  BY DEF PoolInv, TypeOK, HandsOK
<1>2. At(s)' = At(s) \ {w} /\ w \in At(s)
  BY <1>1 DEF At
<1>3. At(t)' = At(t) \cup {w} /\ w \notin At(t)
  BY <1>1 DEF At
<1>4. Cardinality(At(s) \ {w}) = Cardinality(At(s)) - 1
  BY <1>2, AtLemma, FS_RemoveElement
<1>5. Cardinality(At(t) \cup {w}) = Cardinality(At(t)) + 1
  BY <1>3, AtLemma, FS_AddElement
<1> QED
  BY <1>2, <1>3, <1>4, <1>5

\* What is left is a number of steps.
LEMMA LeftLemma ==
  ASSUME PoolInv
  PROVE  Taken \in Nat /\ Taken <= Len0 + K /\ MainLeft \in Nat /\ Left \in Nat
<1>1. /\ Sent \in Nat /\ Len(jobs) \in Nat /\ count \in Nat /\ Len(jobs) <= Sent
      /\ main \in {"spawn", "fill", "end", "collect", "done"}
  BY SentLemma DEF PoolInv, TypeOK, MainOK, JobsInv
<1>2. /\ main \in {"spawn", "end"} => count < K
      /\ main \in {"fill", "collect"} => count < Len0
  BY DEF PoolInv, RoundsInv
<1>3. Sent <= Len0 + K
  BY <1>1, <1>2, SizeLemma DEF Sent
<1>4. Taken \in Nat /\ Taken <= Len0 + K
  BY <1>1, <1>3, SizeLemma DEF Taken
<1>5. MainLeft \in Nat
  BY <1>1, <1>2, SizeLemma DEF MainLeft
<1>6. Cardinality(At("call")) \in Nat /\ Cardinality(At("send")) \in Nat
  BY AtLemma
<1>7. Len0 + K - Taken \in Nat
  BY <1>4, SizeLemma
<1> QED
  BY <1>4, <1>5, <1>6, <1>7 DEF Left

\* A round of one of pool-map's loops takes no job.
LEMMA MainMoves ==
  ASSUME PoolInv, Main
  PROVE  /\ MainLeft' = MainLeft - 1 /\ Taken' = Taken /\ UNCHANGED <<job, fate, verdict>>
         /\ \/ SpawnRound \/ UNCHANGED wpc
<1>0. count \in Nat /\ Len(jobs) \in Nat
  BY SentLemma DEF PoolInv, TypeOK
<1>1. CASE SpawnRound
  <2>1. /\ main = "spawn" /\ UNCHANGED <<jobs, job, fate, verdict>>
        /\ \/ count + 1 = K /\ main' = "fill" /\ count' = 0
           \/ count + 1 # K /\ count' = count + 1 /\ main' = main
    BY <1>1 DEF SpawnRound, Round
  <2>2. MainLeft' = MainLeft - 1
    BY <1>0, <2>1, SizeLemma DEF MainLeft
  <2>3. Sent' = 0 /\ Sent = 0
    BY <2>1 DEF Sent
  <2> QED
    BY <1>1, <2>1, <2>2, <2>3 DEF Taken
<1>2. CASE FillRound
  <2>1. /\ main = "fill" /\ jobs' = Append(jobs, count + 1) /\ UNCHANGED <<wpc, job, fate, verdict>>
        /\ \/ count + 1 = Len0 /\ main' = "end" /\ count' = 0
           \/ count + 1 # Len0 /\ count' = count + 1 /\ main' = main
    BY <1>2 DEF FillRound, Round
  <2>2. MainLeft' = MainLeft - 1
    BY <1>0, <2>1, SizeLemma DEF MainLeft
  <2>3. Sent = count /\ Sent' = count + 1
    BY <1>0, <2>1, SizeLemma DEF Sent
  <2>4. Len(jobs') = Len(jobs) + 1
    BY <2>1 DEF PoolInv, TypeOK, QueuesOK
  <2> QED
    BY <1>0, <2>1, <2>2, <2>3, <2>4 DEF Taken
<1>3. CASE EndRound
  <2>1. /\ main = "end" /\ jobs' = Append(jobs, End) /\ UNCHANGED <<wpc, job, fate, verdict>>
        /\ \/ count + 1 = K /\ main' = "collect" /\ count' = 0
           \/ count + 1 # K /\ count' = count + 1 /\ main' = main
    BY <1>3 DEF EndRound, Round
  <2>2. MainLeft' = MainLeft - 1
    BY <1>0, <2>1, SizeLemma DEF MainLeft
  <2>3. Sent = Len0 + count /\ Sent' = Len0 + (count + 1)
    BY <1>0, <2>1, SizeLemma DEF Sent
  <2>4. Len(jobs') = Len(jobs) + 1
    BY <2>1 DEF PoolInv, TypeOK, QueuesOK
  <2> QED
    BY <1>0, <2>1, <2>2, <2>3, <2>4, SizeLemma DEF Taken
<1>4. CASE CollectRound
  <2>1. /\ main = "collect" /\ UNCHANGED <<jobs, wpc, job, fate, verdict>>
        /\ \/ count + 1 = Len0 /\ main' = "done" /\ count' = 0
           \/ count + 1 # Len0 /\ count' = count + 1 /\ main' = main
    BY <1>4 DEF CollectRound, Round
  <2>2. MainLeft' = MainLeft - 1
    BY <1>0, <2>1, SizeLemma DEF MainLeft
  <2>3. Sent = Len0 + K /\ Sent' = Len0 + K
    BY <2>1 DEF Sent
  <2> QED
    BY <2>1, <2>2, <2>3 DEF Taken
<1> QED
  BY <1>1, <1>2, <1>3, <1>4 DEF Main

\* A worker takes the next job of all.
LEMMA TakeMoves ==
  ASSUME PoolInv, NEW w \in Worker, TakeJob(w)
  PROVE  Taken' = Taken + 1 /\ Head(jobs) = Job(Taken + 1) /\ MainLeft' = MainLeft
<1>1. jobs # <<>> /\ jobs' = Tail(jobs) /\ UNCHANGED <<main, count>>
  BY DEF TakeJob
<1>2. /\ Len(jobs) \in Nat /\ Len(jobs') = Len(jobs) - 1 /\ Head(jobs) = jobs[1]
      /\ 1 \in 1..Len(jobs)
  <2> DEFINE Jobs == Item \cup {End}
  <2>1. jobs \in Seq(Jobs)
    BY DEF PoolInv, TypeOK, QueuesOK
  <2> HIDE DEF Jobs
  <2> QED
    BY <1>1, <2>1
<1>3. Sent' = Sent /\ Sent \in Nat
  BY <1>1, SentLemma DEF Sent, PoolInv, TypeOK
<1>4. Taken' = Taken + 1
  BY <1>2, <1>3 DEF Taken
<1>5. Head(jobs) = Job(Taken + 1)
  BY <1>2 DEF PoolInv, JobsInv
<1> QED
  BY <1>1, <1>4, <1>5 DEF MainLeft

LEMMA EndInvInit == Init => EndInv
<1> SUFFICES ASSUME Init PROVE EndInv
  OBVIOUS
<1>1. /\ main = "spawn" /\ count = 0 /\ jobs = <<>> /\ wpc = [w \in Worker |-> "unborn"]
  BY DEF Init
<1>2. StartedInv
  BY <1>1, SizeLemma DEF StartedInv, LastStarted, Worker
<1>3. At("ended") = {} /\ At("dead") = {}
  BY <1>1 DEF At
<1>4. Taken = 0
  <2>1. Sent = 0 /\ Len(jobs) = 0
    BY <1>1 DEF Sent
  <2> QED
    BY <2>1 DEF Taken
<1>5. EndsInv
  <2>1. Cardinality(At("ended")) = 0
    BY <1>3, FS_EmptySet
  <2>2. Taken <= Len0
    BY <1>4, SizeLemma
  <2> QED
    BY <2>1, <2>2 DEF EndsInv
<1>6. WhereInv
  BY <1>4, SizeLemma DEF WhereInv, Item
<1> QED
  BY <1>2, <1>3, <1>5, <1>6, PoolInitOK DEF EndInv

\* pool-map's own rounds keep it: a worker is started, or none changes.
LEMMA EndMainStep == ASSUME EndInv, Main PROVE EndInv'
<1>0. /\ PoolInv /\ PoolInv' /\ Taken' = Taken /\ UNCHANGED job /\ count \in Nat
      /\ SpawnRound \/ UNCHANGED wpc
  BY MainMoves, PoolInductive, SentLemma DEF EndInv, Next, PoolInv, TypeOK
<1>1. /\ At("ended")' = At("ended") /\ At("dead")' = At("dead") /\ Busy' = Busy /\ StartedInv'
  <2>1. CASE SpawnRound
    <3> DEFINE w0 == count + 1
    <3>1. /\ main = "spawn" /\ wpc' = [wpc EXCEPT ![w0] = "recv"]
          /\ \/ w0 = K /\ main' = "fill"
             \/ w0 # K /\ count' = w0 /\ main' = main
      BY <2>1 DEF SpawnRound, Round
    <3>2. w0 \in Worker /\ count < K
      BY <1>0, <3>1, SizeLemma DEF PoolInv, RoundsInv, Worker
    <3>3. wpc[w0] = "unborn"
      <4>1. ~(w0 <= count)
        BY <1>0
      <4> QED
        BY <3>1, <3>2, <4>1 DEF EndInv, StartedInv, LastStarted
    <3>4. LastStarted' = w0 /\ LastStarted = count
      BY <3>1 DEF LastStarted
    <3>5. wpc'[w0] = "recv" /\ \A w \in Worker : w # w0 => wpc'[w] = wpc[w]
      BY <1>0, <3>1, <3>2 DEF PoolInv, TypeOK, HandsOK
    <3>6. \A w \in Worker : w \in Nat /\ (w <= w0 <=> w <= count \/ w = w0)
      BY <1>0, SizeLemma DEF Worker
    <3> HIDE DEF w0
    <3>7. StartedInv'
      BY <3>4, <3>5, <3>6 DEF EndInv, StartedInv
    <3> QED
      BY <3>3, <3>5, <3>7 DEF At, Busy
  <2>2. CASE UNCHANGED wpc
    <3>1. LastStarted' = LastStarted \/ SpawnRound
      BY <1>0 DEF Main, FillRound, EndRound, CollectRound, Round, LastStarted
    <3>2. CASE LastStarted' = LastStarted
      BY <2>2, <3>2 DEF EndInv, StartedInv, At, Busy
    <3> QED
      BY <2>1, <3>1, <3>2
  <2> QED
    BY <1>0, <2>1, <2>2
<1>2. EndsInv'
  BY <1>0, <1>1 DEF EndInv, EndsInv
<1>3. WhereInv'
  <2> SUFFICES ASSUME NEW i \in Item, i <= Taken
               PROVE  \/ out'[i] # NoOutcome
                      \/ \E k \in 1..Len(results') : results'[k].item = i
                      \/ \E w \in Busy : job[w] = i
    BY <1>0, <1>1 DEF WhereInv
  <2>1. CASE UNCHANGED <<out, results>>
    BY <2>1 DEF EndInv, WhereInv
  <2>2. CASE CollectRound
    <3> DEFINE r == results[1]
               M == Len(results) - 1
    <3>1. /\ results # <<>> /\ results' = Tail(results)
          /\ out' = [out EXCEPT ![Head(results).item] = Head(results).result]
      BY <2>2 DEF CollectRound
    <3>2. /\ M \in Nat /\ Len(results) \in Nat /\ Len(results') = M /\ Head(results) = r
          /\ \A k \in 1..M : results'[k] = results[k + 1]
      <4> DEFINE Result == [item : Item, result : Outcomes]
      <4>1. results \in Seq(Result)
        BY <1>0 DEF PoolInv, TypeOK, QueuesOK
      <4> HIDE DEF Result
      <4> QED
        BY <3>1, <4>1
    <3>3. \A k \in 1..Len(results) : k = 1 \/ (k - 1 \in 1..M /\ results'[k - 1] = results[k])
      <4>1. \A k \in 1..Len(results) : k = 1 \/ (k - 1 \in 1..M /\ (k - 1) + 1 = k)
        BY <3>2
      <4> QED
        BY <3>2, <4>1
    <3>4. r.item \in Item /\ r.result # NoOutcome
      <4>1. 1 \in 1..Len(results)
        BY <3>2
      <4> QED
        BY <1>0, <4>1, ResultLemma, SizeLemma DEF PoolInv, TypeOK
    <3> HIDE DEF r, M
    <3>5. out'[r.item] = r.result /\ \A j \in Item : j # r.item => out'[j] = out[j]
      BY <1>0, <3>1, <3>2, <3>4 DEF PoolInv, TypeOK, MainOK
    <3>6. CASE \E k \in 1..Len(results) : results[k].item = i
      BY <3>2, <3>3, <3>4, <3>5, <3>6 DEF r
    <3>7. CASE out[i] # NoOutcome
      BY <3>4, <3>5, <3>7
    <3> QED
      BY <3>6, <3>7 DEF EndInv, WhereInv
  <2> QED
    BY <2>1, <2>2 DEF Main, SpawnRound, FillRound, EndRound
<1> QED
  BY <1>0, <1>1, <1>2, <1>3 DEF EndInv

\* A worker takes an element, or an end marker that ends it.
LEMMA EndTakeStep == ASSUME EndInv, NEW w \in Worker, TakeJob(w) PROVE EndInv'
<1> DEFINE j == Head(jobs)
<1>0. PoolInv /\ PoolInv' /\ Taken' = Taken + 1 /\ j = Job(Taken + 1) /\ Taken \in Nat
  BY TakeMoves, PoolInductive, LeftLemma DEF EndInv, Next, Work
<1>1. /\ wpc[w] = "recv" /\ wpc' = [wpc EXCEPT ![w] = IF j = End THEN "ended" ELSE "call"]
      /\ job' = [job EXCEPT ![w] = j] /\ UNCHANGED <<main, count, out, results>>
  BY DEF TakeJob
<1>2. IF Taken + 1 <= Len0 THEN j = Taken + 1 /\ j # End ELSE j = End
  BY <1>0, SizeLemma DEF Job, End
<1> HIDE DEF j
<1>3. /\ wpc'[w] \in {"ended", "call"} /\ wpc'[w] = IF j = End THEN "ended" ELSE "call"
      /\ job'[w] = j /\ \A v \in Worker : v # w => wpc'[v] = wpc[v] /\ job'[v] = job[v]
  BY <1>0, <1>1 DEF PoolInv, TypeOK, HandsOK
<1>4. StartedInv' /\ At("dead")' = {}
  BY <1>1, <1>3 DEF EndInv, StartedInv, LastStarted, At
<1>5. EndsInv'
  <2>1. CASE j = End
    <3>1. Cardinality(At("ended")') = Cardinality(At("ended")) + 1
      BY <1>0, <1>1, <2>1, MoveLemma
    <3>2. ~(Taken + 1 <= Len0)
      BY <1>2, <2>1
    <3> QED
      BY <1>0, <3>1, <3>2, SizeLemma DEF EndInv, EndsInv
  <2>2. CASE j # End
    <3>1. At("ended")' = At("ended")
      BY <1>1, <1>3, <2>2 DEF At
    <3>2. Taken + 1 <= Len0
      BY <1>2, <2>2
    <3> QED
      BY <1>0, <3>1, <3>2, SizeLemma DEF EndInv, EndsInv
  <2> QED
    BY <2>1, <2>2
<1>6. WhereInv'
  <2> SUFFICES ASSUME NEW i \in Item, i <= Taken + 1
               PROVE  \/ out[i] # NoOutcome
                      \/ \E k \in 1..Len(results) : results[k].item = i
                      \/ \E v \in Busy' : job'[v] = i
    BY <1>0, <1>1 DEF WhereInv
  <2>1. \A v \in Busy : v \in Busy' /\ job'[v] = job[v]
    BY <1>1, <1>3 DEF Busy
  <2>2. i \in Nat
    BY SizeLemma
  <2>3. CASE i <= Taken
    BY <2>1, <2>3 DEF EndInv, WhereInv
  <2>4. CASE i = Taken + 1
    <3>1. Taken + 1 <= Len0
      BY <2>4, SizeLemma DEF Item
    <3>2. w \in Busy' /\ job'[w] = i
      BY <1>2, <1>3, <2>4, <3>1 DEF Busy
    <3> QED
      BY <3>2
  <2> QED
    BY <1>0, <2>2, <2>3, <2>4
<1> QED
  BY <1>0, <1>4, <1>5, <1>6 DEF EndInv

\* fn returns or fails, and the worker has the result still to send.
LEMMA EndCallStep == ASSUME EndInv, NoExit, NEW w \in Worker, CallEnds(w) PROVE EndInv'
<1>0. PoolInv /\ PoolInv'
  BY PoolInductive DEF EndInv, Next, Work
<1>1. /\ wpc[w] = "call" /\ wpc' = [wpc EXCEPT ![w] = "send"]
      /\ UNCHANGED <<main, count, jobs, out, results, job>>
  <2>1. PICK o \in Outcomes : wpc' = [wpc EXCEPT ![w] = IF o = "exit" THEN "dead" ELSE "send"]
    BY DEF CallEnds
  <2>2. o # "exit"
    BY DEF NoExit
  <2> QED
    BY <2>1, <2>2 DEF CallEnds
<1>2. wpc'[w] = "send" /\ \A v \in Worker : v # w => wpc'[v] = wpc[v]
  BY <1>0, <1>1 DEF PoolInv, TypeOK, HandsOK
<1>3. /\ Taken' = Taken /\ Busy' = Busy /\ At("ended")' = At("ended") /\ At("dead")' = At("dead")
      /\ LastStarted' = LastStarted
  BY <1>1, <1>2 DEF Taken, Sent, Busy, At, LastStarted
<1>4. StartedInv' /\ EndsInv' /\ WhereInv'
  BY <1>1, <1>2, <1>3 DEF EndInv, StartedInv, EndsInv, WhereInv
<1> QED
  BY <1>0, <1>3, <1>4 DEF EndInv

\* The element goes from the worker into the channel of results.
LEMMA EndSendStep == ASSUME EndInv, NEW w \in Worker, SendResult(w) PROVE EndInv'
<1> DEFINE r == [item |-> job[w], result |-> fate[w]]
<1>0. PoolInv /\ PoolInv'
  BY PoolInductive DEF EndInv, Next, Work
<1>1. /\ wpc[w] = "send" /\ wpc' = [wpc EXCEPT ![w] = "recv"] /\ results' = Append(results, r)
      /\ UNCHANGED <<main, count, jobs, out, job>>
  BY DEF SendResult
<1>2. wpc'[w] = "recv" /\ \A v \in Worker : v # w => wpc'[v] = wpc[v]
  BY <1>0, <1>1 DEF PoolInv, TypeOK, HandsOK
<1>3. /\ Taken' = Taken /\ Busy' = Busy \ {w} /\ At("ended")' = At("ended")
      /\ At("dead")' = At("dead") /\ LastStarted' = LastStarted
  BY <1>1, <1>2 DEF Taken, Sent, Busy, At, LastStarted
<1>4. /\ Len(results) \in Nat /\ Len(results') = Len(results) + 1
      /\ results'[Len(results) + 1] = r /\ \A k \in 1..Len(results) : results'[k] = results[k]
  <2> DEFINE Result == [item : Item, result : Outcomes]
  <2>1. w \in Busy
    BY <1>1 DEF Busy
  <2>2. job[w] \in Item /\ verdict[job[w]] = <<fate[w]>> /\ verdict[job[w]] \in Seq(Outcomes)
    BY <1>0, <1>1, <2>1 DEF PoolInv, HandInv, TypeOK, HandsOK
  <2>3. r \in Result
    <3>1. fate[w] \in Outcomes
      BY <2>2
    <3> QED
      BY <2>2, <3>1
  <2>4. results \in Seq(Result)
    BY <1>0 DEF PoolInv, TypeOK, QueuesOK
  <2> HIDE DEF Result, r
  <2> QED
    BY <1>1, <2>3, <2>4
<1>5. r.item = job[w]
  OBVIOUS
<1> HIDE DEF r
<1>6. StartedInv' /\ EndsInv'
  BY <1>1, <1>2, <1>3 DEF EndInv, StartedInv, EndsInv
<1>7. WhereInv'
  <2> SUFFICES ASSUME NEW i \in Item, i <= Taken
               PROVE  \/ out[i] # NoOutcome
                      \/ \E k \in 1..Len(results') : results'[k].item = i
                      \/ \E v \in Busy \ {w} : job[v] = i
    BY <1>1, <1>3 DEF WhereInv
  <2>1. CASE job[w] = i
    <3>1. Len(results) + 1 \in 1..Len(results')
      BY <1>4
    <3> QED
      BY <1>4, <1>5, <2>1, <3>1
  <2>2. CASE \E k \in 1..Len(results) : results[k].item = i
    <3>1. PICK k \in 1..Len(results) : results[k].item = i
      BY <2>2
    <3>2. k \in 1..Len(results') /\ results'[k] = results[k]
      BY <1>4
    <3> QED
      BY <3>1, <3>2
  <2> QED
    BY <2>1, <2>2 DEF EndInv, WhereInv
<1> QED
  BY <1>0, <1>3, <1>6, <1>7 DEF EndInv

LEMMA EndInductive == ASSUME EndInv, NoExit, [Next]_vars PROVE EndInv'
<1>1. ASSUME NEW w \in Worker, Work(w) PROVE EndInv'
  BY <1>1, EndTakeStep, EndCallStep, EndSendStep DEF Work
<1>2. CASE UNCHANGED vars
  <2>1. UNCHANGED <<main, count, jobs, results, out, wpc, job, fate, verdict>>
    BY <1>2 DEF vars
  <2>2. Taken' = Taken /\ Busy' = Busy /\ At("ended")' = At("ended") /\ At("dead")' = At("dead")
        /\ LastStarted' = LastStarted
    BY <2>1 DEF Taken, Sent, Busy, At, LastStarted
  <2>3. PoolInv'
    BY <1>2, PoolInductive DEF EndInv
  <2> QED
    BY <2>1, <2>2, <2>3 DEF EndInv, StartedInv, EndsInv, WhereInv
<1> QED
  BY <1>1, <1>2, EndMainStep DEF Next

\* When neither pool-map nor a worker can go on, all jobs have been taken, each
\* end marker has ended a worker, and no result is missing.
LEMMA StuckLemma == ASSUME EndInv PROVE NeverStuck
<1> SUFFICES ASSUME ~MainMay, \A w \in Worker : ~WorkMay(w) PROVE Stopped
  BY DEF NeverStuck
<1>0. /\ PoolInv /\ SendNeverWaits /\ Taken \in Nat /\ Taken <= Len0 + K
      /\ main \in {"spawn", "fill", "end", "collect", "done"}
      /\ wpc \in [Worker -> {"unborn", "recv", "call", "send", "ended", "dead"}]
  BY RoomLemma, LeftLemma DEF EndInv, PoolInv, TypeOK, MainOK, HandsOK
<1>1. \A w \in Worker : wpc[w] \in {"unborn", "recv", "ended"} /\ (wpc[w] = "recv" => jobs = <<>>)
  BY <1>0 DEF WorkMay, SendNeverWaits, EndInv, At
<1>2. main \in {"collect", "done"} /\ (main = "collect" => results = <<>>)
  BY <1>0 DEF MainMay, SendNeverWaits
<1>3. LastStarted = K /\ Sent = Len0 + K
  BY <1>2 DEF LastStarted, Sent
<1>4. At("ended") \subseteq 1..K /\ IsFiniteSet(1..K) /\ Cardinality(1..K) = K
  <2>1. \A w \in Worker : w \in Nat \ {0} /\ (wpc[w] # "unborn" => w <= K)
    BY <1>3, SizeLemma DEF EndInv, StartedInv, Worker
  <2>2. \A w \in At("ended") : w \in Nat \ {0} /\ w <= K
    BY <2>1 DEF At
  <2> QED
    BY <2>2, SizeLemma, FS_Interval
<1>5. Taken = Len0 + K
  <2>1. CASE jobs = <<>>
    <3>1. Len(jobs) = 0
      BY <2>1
    <3> QED
      BY <1>3, <3>1, SizeLemma DEF Taken
  <2>2. CASE jobs # <<>>
    <3>1. \A w \in 1..K : w \in Worker /\ wpc[w] = "ended"
      BY <1>1, <1>3, <2>2, SizeLemma DEF EndInv, StartedInv
    <3>2. At("ended") = 1..K
      BY <1>4, <3>1 DEF At
    <3> QED
      BY <1>0, <1>4, <3>2, SizeLemma DEF EndInv, EndsInv
  <2> QED
    BY <2>1, <2>2
<1>6. At("ended") = 1..K
  <2>1. Cardinality(At("ended")) = K
    BY <1>5, SizeLemma DEF EndInv, EndsInv
  <2> QED
    BY <1>4, <2>1, FS_Subset
<1>7. NoWorkerLeft
  <2>1. \A w \in Worker : w \in 1..K \/ ~(w <= K)
    BY SizeLemma DEF Worker
  <2> QED
    BY <1>3, <1>6, <2>1 DEF EndInv, StartedInv, At, NoWorkerLeft
<1>8. main = "done"
  <2> SUFFICES ASSUME main = "collect" PROVE FALSE
    BY <1>2
  <2>1. Busy = {} /\ Len(results) = 0
    BY <1>1, <1>2 DEF Busy
  <2>2. \A i \in Item : i <= Taken
    BY <1>5, SizeLemma DEF Item
  <2>3. Stored = Item
    <3>1. \A k \in 1..Len(results) : FALSE
      BY <2>1
    <3> QED
      BY <2>1, <2>2, <3>1 DEF Stored, EndInv, WhereInv
  <2>4. count = Len0 /\ count < Len0
    BY <1>0, <2>3, SizeLemma DEF PoolInv, CountInv, RoundsInv
  <2> QED
    BY <2>4, SizeLemma
<1> QED
  BY <1>7, <1>8 DEF Stopped


\* Every step, pool-map's or a worker's, leaves fewer to be taken.
LEMMA DescendLemma == ASSUME PoolInv, [Next]_vars PROVE [Left' < Left]_vars
<1>0. /\ Left \in Nat /\ Taken \in Nat /\ Taken <= Len0 + K /\ MainLeft \in Nat
      /\ Cardinality(At("call")) \in Nat /\ Cardinality(At("send")) \in Nat
      /\ count \in Nat
  BY LeftLemma, AtLemma, SentLemma DEF PoolInv, TypeOK
<1>1. ASSUME NEW m \in Int, NEW t \in Int, NEW c \in Int, NEW s \in Int,
             MainLeft' = MainLeft + m, Taken' = Taken + t,
             Cardinality(At("call")') = Cardinality(At("call")) + c,
             Cardinality(At("send")') = Cardinality(At("send")) + s,
             m + 2 * c + s < 3 * t
      PROVE  Left' < Left
  <2> DEFINE calls == Cardinality(At("call"))
             sends == Cardinality(At("send"))
  <2>1. /\ Left = MainLeft + 3 * (Len0 + K - Taken) + 2 * calls + sends
        /\ Left' = (MainLeft + m) + 3 * (Len0 + K - (Taken + t)) + 2 * (calls + c) + (sends + s)
    BY <1>1 DEF Left
  <2> HIDE DEF calls, sends
  <2> QED
    BY <1>0, <1>1, <2>1, SizeLemma DEF calls, sends
<1>2. CASE Main
  <2>1. MainLeft' = MainLeft + (-1) /\ Taken' = Taken + 0
    BY <1>0, <1>2, MainMoves
  <2>2. At("call")' = At("call") /\ At("send")' = At("send")
    <3>1. CASE SpawnRound
      <4> DEFINE w0 == count + 1
      <4>1. main = "spawn" /\ wpc' = [wpc EXCEPT ![w0] = "recv"]
        BY <3>1 DEF SpawnRound
      <4>2. w0 \in Worker /\ count < K
        BY <1>0, <4>1, SizeLemma DEF PoolInv, RoundsInv, Worker
      <4>3. Taken = 0 - Len(jobs) /\ Len(jobs) \in Nat
        BY <4>1, SentLemma DEF Taken, Sent, PoolInv, TypeOK
      <4>4. Busy = {}
        <5>1. \A w \in Busy : job[w] \in Nat \ {0} /\ job[w] <= Taken
          BY SizeLemma DEF PoolInv, HandInv
        <5> QED
          BY <4>3, <5>1
      <4>5. wpc'[w0] = "recv" /\ \A w \in Worker : w # w0 => wpc'[w] = wpc[w]
        BY <4>1, <4>2 DEF PoolInv, TypeOK, HandsOK
      <4> HIDE DEF w0
      <4> QED
        BY <4>4, <4>5 DEF At, Busy
    <3> QED
      BY <1>2, <3>1, MainMoves DEF At
  <2>3. /\ Cardinality(At("call")') = Cardinality(At("call")) + 0
        /\ Cardinality(At("send")') = Cardinality(At("send")) + 0
    BY <1>0, <2>2
  <2> QED
    BY <1>1, <2>1, <2>3
<1>3. ASSUME NEW w \in Worker, NEW s, NEW t, NEW x, wpc[w] = s, wpc' = [wpc EXCEPT ![w] = t],
             x # s, x # t, Cardinality(At(x)) \in Nat
      PROVE  Cardinality(At(x)') = Cardinality(At(x)) + 0
  <2>1. wpc'[w] = t /\ \A v \in Worker : v # w => wpc'[v] = wpc[v]
    BY <1>3 DEF PoolInv, TypeOK, HandsOK
  <2>2. At(x)' = At(x)
    BY <1>3, <2>1 DEF At
  <2> QED
    BY <1>3, <2>2
<1>4. ASSUME NEW w \in Worker, TakeJob(w) PROVE Left' < Left
  <2>1. MainLeft' = MainLeft + 0 /\ Taken' = Taken + 1
    BY <1>0, <1>4, TakeMoves
  <2>2. wpc[w] = "recv" /\ \/ wpc' = [wpc EXCEPT ![w] = "ended"]
                           \/ wpc' = [wpc EXCEPT ![w] = "call"]
    BY <1>4 DEF TakeJob
  <2>3. CASE wpc[w] = "recv" /\ wpc' = [wpc EXCEPT ![w] = "ended"]
    <3>1. Cardinality(At("call")') = Cardinality(At("call")) + 0
      BY <1>0, <1>3, <2>3
    <3>2. Cardinality(At("send")') = Cardinality(At("send")) + 0
      BY <1>0, <1>3, <2>3
    <3> QED
      BY <1>1, <2>1, <3>1, <3>2
  <2>4. CASE wpc[w] = "recv" /\ wpc' = [wpc EXCEPT ![w] = "call"]
    <3>1. Cardinality(At("call")') = Cardinality(At("call")) + 1
      BY <1>0, <2>4, MoveLemma
    <3>2. Cardinality(At("send")') = Cardinality(At("send")) + 0
      BY <1>0, <1>3, <2>4
    <3> QED
      BY <1>1, <2>1, <3>1, <3>2
  <2> QED
    BY <2>2, <2>3, <2>4
<1>5. ASSUME NEW w \in Worker, CallEnds(w) \/ SendResult(w) PROVE Left' < Left
  <2>1. MainLeft' = MainLeft + 0 /\ Taken' = Taken + 0
    <3>1. UNCHANGED <<main, count, jobs>>
      BY <1>5 DEF CallEnds, SendResult
    <3>2. MainLeft' = MainLeft /\ Taken' = Taken
      BY <3>1 DEF MainLeft, Taken, Sent
    <3> QED
      BY <1>0, <3>2
  <2>2. \/ wpc[w] = "call" /\ wpc' = [wpc EXCEPT ![w] = "dead"]
        \/ wpc[w] = "call" /\ wpc' = [wpc EXCEPT ![w] = "send"]
        \/ wpc[w] = "send" /\ wpc' = [wpc EXCEPT ![w] = "recv"]
    BY <1>5 DEF CallEnds, SendResult
  <2>3. CASE wpc[w] = "call" /\ wpc' = [wpc EXCEPT ![w] = "dead"]
    <3>1. Cardinality(At("call")') = Cardinality(At("call")) + (-1)
      BY <1>0, <2>3, MoveLemma
    <3>2. Cardinality(At("send")') = Cardinality(At("send")) + 0
      BY <1>0, <1>3, <2>3
    <3> QED
      BY <1>1, <2>1, <3>1, <3>2
  <2>4. CASE wpc[w] = "call" /\ wpc' = [wpc EXCEPT ![w] = "send"]
    <3>1. /\ Cardinality(At("call")') = Cardinality(At("call")) + (-1)
          /\ Cardinality(At("send")') = Cardinality(At("send")) + 1
      BY <1>0, <2>4, MoveLemma
    <3> QED
      BY <1>1, <2>1, <3>1
  <2>5. CASE wpc[w] = "send" /\ wpc' = [wpc EXCEPT ![w] = "recv"]
    <3>1. Cardinality(At("send")') = Cardinality(At("send")) + (-1)
      BY <1>0, <2>5, MoveLemma
    <3>2. Cardinality(At("call")') = Cardinality(At("call")) + 0
      BY <1>0, <1>3, <2>5
    <3> QED
      BY <1>1, <2>1, <3>1, <3>2
  <2> QED
    BY <2>2, <2>3, <2>4, <2>5
<1> QED
  BY <1>2, <1>3, <1>4, <1>5 DEF Next, Work

\* pool-map and its workers never wait for each other for ever: unless a call
\* of fn leaves the worker, pool-map has returned and all workers have ended,
\* or one of them can go on (stdlib.lisp, pool-map and %pool-arbeiter).
THEOREM PoolMapNeverStuck == ASSUME NoExit PROVE Spec => []NeverStuck
<1>1. EndInv /\ [Next]_vars => EndInv'
  BY EndInductive
<1>2. EndInv => NeverStuck
  BY StuckLemma
<1> QED
  BY <1>1, <1>2, EndInvInit, PTL DEF Spec

\* Whatever fn does and whoever is scheduled, a pool-map on n elements with k
\* workers takes at most 5 (n + k) steps.
THEOREM PoolMapBounded == Spec => [][Left' < Left]_vars /\ [](Left \in 0..(5 * (Len0 + K)))
<1> DEFINE Bound == Left \in 0..(5 * (Len0 + K))
<1>1. Init => Bound
  <2> SUFFICES ASSUME Init PROVE Bound
    OBVIOUS
  <2>1. main = "spawn" /\ count = 0 /\ jobs = <<>> /\ wpc = [w \in Worker |-> "unborn"]
    BY DEF Init
  <2>2. Cardinality(At("call")) = 0 /\ Cardinality(At("send")) = 0
    <3>1. At("call") = {} /\ At("send") = {}
      BY <2>1 DEF At
    <3> QED
      BY <3>1, FS_EmptySet
  <2>3. Taken = 0 /\ MainLeft = K + Len0 + K + Len0
    <3>1. Sent = 0 /\ Len(jobs) = 0
      BY <2>1 DEF Sent
    <3>2. Taken = 0
      BY <3>1 DEF Taken
    <3> QED
      BY <2>1, <3>2, SizeLemma DEF MainLeft
  <2> QED
    BY <2>2, <2>3, SizeLemma DEF Left
<1>2. PoolInv => Left \in Nat
  BY LeftLemma
<1>3. PoolInv /\ [Next]_vars => [Left' < Left]_vars
  BY DescendLemma
<1>4. PoolInv /\ Left \in Nat /\ (Left \in Nat)' /\ [Next]_vars /\ Bound => Bound'
  <2> SUFFICES ASSUME PoolInv, Left \in Nat, (Left \in Nat)', [Next]_vars, Bound PROVE Bound'
    OBVIOUS
  <2>1. CASE UNCHANGED vars
    BY <2>1 DEF vars, Left, MainLeft, Taken, Sent, At
  <2>2. CASE Left' < Left
    BY <2>2, SizeLemma
  <2> QED
    BY <1>3, <2>1, <2>2
<1> HIDE DEF Bound
<1>5. Spec => []Bound
  BY <1>1, <1>2, <1>4, PoolInvariance, PTL DEF Spec
<1>6. Spec => [][Left' < Left]_vars
  BY <1>3, PoolInvariance, PTL DEF Spec
<1> QED
  BY <1>5, <1>6, PTL DEF Bound
------------------------------------------------------------------------------
(* parfunc and lock *)

\* The mutexes worker i is inside of.
Held(i) == {program[i][k] : k \in 1..taken[i]}

\* A mutex has the worker as its holder that is inside of it, at most once.
MutexInv ==
  /\ \A m \in Mutex, i \in Expr : holder[m] = i <=> m \in Held(i)
  /\ \A i \in Expr : \A k, l \in 1..taken[i] : k # l => program[i][k] # program[i][l]

\* Where a worker is in its locks; between reading and writing the shared
\* variable it is inside Guard, and what it has read is still true.
PlaceInv ==
  \A i \in Expr :
    /\ worker[i] = "gone" => taken[i] = 0
    /\ worker[i] = "lock" => taken[i] < Len(program[i])
    /\ worker[i] = "read" => /\ taken[i] = Len(program[i]) /\ Guards(i)
                             /\ seen[i] = sharedVar

LockInv == MutexInv /\ PlaceInv /\ sharedVar = writes

\* What expression i sends, and the expressions that have still to send.
Value(i) == IF failed[i] THEN NilResult ELSE i
Running == {i \in Expr : worker[i] # "gone"}
Waiting == {ch[k].idx : k \in 1..Len(ch)}

\* An expression's result is in the channel once or at its place.
ResultInv ==
  /\ \A k \in 1..Len(ch) : worker[ch[k].idx] = "gone" /\ ch[k].val = Value(ch[k].idx)
  /\ \A k, l \in 1..Len(ch) : k # l => ch[k].idx # ch[l].idx
  /\ \A i \in Expr : gathered[i] = IF i \in Running \cup Waiting THEN NilResult ELSE Value(i)

\* Until the timer fires the caller waits for every result that has not come.
MissingInv ==
  /\ Len(ch) + Cardinality(Running) <= Cardinality(Expr)
  /\ ~timedOut => missing = Len(ch) + Cardinality(Running)
  /\ caller # "collect" \/ timedOut => missing = 0

ParfuncInv == ParfuncTypeOK /\ LockInv /\ ResultInv /\ MissingInv
------------------------------------------------------------------------------
USE DEF parfuncCaller, parfuncLocks, parfuncShared

\* Expressions are numbers from 1 on; their locks are a sequence of mutexes.
LEMMA ExprLemma ==
  /\ Expr \subseteq Nat \ {0} /\ 0 \notin Expr /\ NilResult \notin Expr
  /\ Cardinality(Expr) \in Nat
<1>1. Cardinality(Expr) \in Nat
  BY ParfuncAssumption, FS_CardinalityType
<1> QED
  BY <1>1, ParfuncAssumption DEF NilResult

LEMMA ProgramLemma ==
  ASSUME CallerOK, NEW i \in Expr
  PROVE  /\ program[i] \in Seq(Mutex) /\ Len(program[i]) \in Nat
         /\ \A k \in 1..Len(program[i]) : program[i][k] \in Mutex
<1>1. program[i] \in Seq(Mutex)
  BY ParfuncAssumption DEF CallerOK
<1> QED
  BY <1>1

LEMMA ChannelLemma ==
  ASSUME ChannelOK
  PROVE  /\ Len(ch) \in Nat
         /\ \A k \in 1..Len(ch) : ch[k].idx \in Expr
<1> DEFINE Message == [idx : Expr, val : {NilResult} \cup Expr]
<1>1. ch \in Seq(Message)
  BY DEF ChannelOK
<1> HIDE DEF Message
<1>2. Len(ch) \in Nat /\ \A k \in 1..Len(ch) : ch[k] \in Message
  BY <1>1
<1> QED
  BY <1>2 DEF Message

LEMMA RunningFinite == IsFiniteSet(Running) /\ Cardinality(Running) \in Nat
<1>1. IsFiniteSet(Running)
  BY ParfuncAssumption, FS_Subset DEF Running
<1> QED
  BY <1>1, FS_CardinalityType

\* Before the first step no worker is in a mutex and every result is awaited.
LEMMA ParfuncInitOK == ParfuncInit => ParfuncInv
<1> SUFFICES ASSUME ParfuncInit PROVE ParfuncInv
  OBVIOUS
<1>1. CallerOK
  <2>1. missing \in 0..Cardinality(Expr)
    BY ExprLemma DEF ParfuncInit
  <2> QED
    BY <2>1 DEF ParfuncInit, CallerOK
<1>2. ChannelOK
  <2>1. Len(<<>>) = 0 /\ <<>> \in Seq([idx : Expr, val : {NilResult} \cup Expr])
    OBVIOUS
  <2>2. ch = <<>>
    BY DEF ParfuncInit
  <2> QED
    BY <2>1, <2>2, ExprLemma DEF ChannelOK
<1>3. WorkerOK
  <2>1. \A i \in Expr : 0 <= Len(program[i])
    BY <1>1, ProgramLemma
  <2> QED
    BY <2>1 DEF ParfuncInit, WorkerOK
<1>4. LockInv
  <2>1. \A i \in Expr : taken[i] = 0 /\ worker[i] = "run" /\ i # 0
    BY ExprLemma DEF ParfuncInit
  <2>2. \A i \in Expr : Held(i) = {} /\ 1..taken[i] = {}
    BY <2>1 DEF Held
  <2>3. MutexInv
    BY <2>1, <2>2 DEF MutexInv, ParfuncInit
  <2> QED
    BY <2>1, <2>3 DEF LockInv, PlaceInv, ParfuncInit
<1>5. Running = Expr /\ Waiting = {} /\ Len(ch) = 0
  BY DEF ParfuncInit, Running, Waiting
<1>6. ResultInv
  BY <1>5 DEF ResultInv, ParfuncInit
<1>7. MissingInv
  BY <1>5, ExprLemma DEF MissingInv, ParfuncInit
<1> QED
  BY <1>1, <1>2, <1>3, <1>4, <1>6, <1>7 DEF ParfuncInv, ParfuncTypeOK
------------------------------------------------------------------------------
\* Entering, locking and leaving mutexes, and the body, touch no result.
LEMMA ResultFrame ==
  ASSUME ResultInv, MissingInv, ChannelOK, UNCHANGED <<parfuncCaller, ch>>,
         \A i \in Expr : worker'[i] = "gone" <=> worker[i] = "gone",
         \A i \in Expr : worker[i] = "gone" => failed'[i] = failed[i]
  PROVE  ResultInv' /\ MissingInv'
<1>1. Running' = Running /\ Waiting' = Waiting
  BY DEF Running, Waiting
<1>2. \A k \in 1..Len(ch) : ch[k].idx \in Expr
  BY ChannelLemma
<1>3. ResultInv'
  BY <1>1, <1>2 DEF ResultInv, Value, Running
<1>4. MissingInv'
  BY <1>1 DEF MissingInv
<1> QED
  BY <1>3, <1>4

\* A worker starts to wait for its next mutex.
LEMMA EntersLockStep == ASSUME ParfuncInv, NEW i \in Expr, EntersLock(i) PROVE ParfuncInv'
<1>1. /\ worker[i] = "run" /\ taken[i] < Len(program[i])
      /\ worker'[i] = "lock" /\ \A j \in Expr \ {i} : worker'[j] = worker[j]
      /\ UNCHANGED <<program, timed, parfuncCaller, ch, cancelled, failed, parfuncLocks, parfuncShared>>
  BY DEF EntersLock, ParfuncInv, ParfuncTypeOK, WorkerOK
<1>2. ParfuncTypeOK'
  BY DEF EntersLock, ParfuncInv, ParfuncTypeOK, CallerOK, ChannelOK, WorkerOK
<1>3. LockInv'
  BY <1>1 DEF ParfuncInv, LockInv, MutexInv, PlaceInv, Held, Guards
<1>4. ResultInv' /\ MissingInv'
  BY <1>1, ResultFrame DEF ParfuncInv, ParfuncTypeOK
<1> QED
  BY <1>2, <1>3, <1>4 DEF ParfuncInv

\* A mutex is entered only when nobody, the worker included, is inside.
LEMMA LockStep == ASSUME ParfuncInv, NEW i \in Expr, Lock(i) PROVE ParfuncInv'
<1> DEFINE n == taken[i] + 1
           m == program[i][n]
<1>0. program[i] \in Seq(Mutex) /\ Len(program[i]) \in Nat /\ taken[i] \in Nat
  BY ProgramLemma DEF ParfuncInv, ParfuncTypeOK, WorkerOK
<1>1. n \in 1..Len(program[i]) /\ m \in Mutex
  <2>1. taken[i] < Len(program[i])
    BY DEF Lock, ParfuncInv, LockInv, PlaceInv
  <2> QED
    BY <1>0, <2>1
<1>2. /\ worker[i] = "lock" /\ worker'[i] = "run"
      /\ \A j \in Expr \ {i} : worker'[j] = worker[j] /\ taken'[j] = taken[j]
      /\ taken'[i] = n /\ holder[m] = 0
      /\ \A x \in Mutex : holder'[x] = IF x = m THEN i ELSE holder[x]
      /\ UNCHANGED <<program, timed, parfuncCaller, ch, cancelled, failed, parfuncShared>>
  BY <1>1 DEF Lock, ParfuncInv, ParfuncTypeOK, WorkerOK
<1>3. ParfuncTypeOK'
  <2>1. CallerOK' /\ ChannelOK'
    BY <1>2 DEF ParfuncInv, ParfuncTypeOK, CallerOK, ChannelOK
  <2>2. taken' \in [Expr -> Nat] /\ \A j \in Expr : taken'[j] <= Len(program[j])
    BY <1>0, <1>1, <1>2 DEF Lock, ParfuncInv, ParfuncTypeOK, WorkerOK
  <2>3. holder' \in [Mutex -> Expr \cup {0}]
    BY <1>1 DEF Lock, ParfuncInv, ParfuncTypeOK, WorkerOK
  <2> QED
    BY <1>2, <2>1, <2>2, <2>3 DEF Lock, ParfuncInv, ParfuncTypeOK, WorkerOK
<1>4. Held(i)' = Held(i) \cup {m} /\ \A j \in Expr \ {i} : Held(j)' = Held(j)
  <2>1. 1..n = (1..taken[i]) \cup {n}
    BY <1>0
  <2> QED
    BY <1>2, <2>1 DEF Held
<1>5. \A j \in Expr : m \notin Held(j)
  BY <1>1, <1>2, ExprLemma DEF ParfuncInv, LockInv, MutexInv
<1> HIDE DEF m
<1>6. MutexInv'
  <2>1. ASSUME NEW x \in Mutex, NEW j \in Expr PROVE holder'[x] = j <=> x \in Held(j)'
    <3>1. CASE x = m
      <4>1. j = i <=> x \in Held(j)'
        BY <1>4, <1>5, <3>1
      <4> QED
        BY <1>2, <3>1, <4>1
    <3>2. CASE x # m
      BY <1>2, <1>4, <3>2 DEF ParfuncInv, LockInv, MutexInv
    <3> QED
      BY <3>1, <3>2
  <2>2. ASSUME NEW k \in 1..n, NEW l \in 1..n, k # l PROVE program[i][k] # program[i][l]
    <3>1. \A x \in 1..taken[i] : program[i][x] # m
      BY <1>5 DEF Held
    <3>2. k \in 1..taken[i] \/ k = n
      BY <1>0
    <3>3. l \in 1..taken[i] \/ l = n
      BY <1>0
    <3> QED
      BY <2>2, <3>1, <3>2, <3>3 DEF m, ParfuncInv, LockInv, MutexInv
  <2> QED
    BY <1>2, <2>1, <2>2 DEF ParfuncInv, LockInv, MutexInv
<1>7. LockInv'
  BY <1>2, <1>6 DEF ParfuncInv, LockInv, PlaceInv, Guards
<1>8. ResultInv' /\ MissingInv'
  BY <1>2, ResultFrame DEF ParfuncInv, ParfuncTypeOK
<1> QED
  BY <1>3, <1>7, <1>8 DEF ParfuncInv

\* The body, past its last lock, reads the variable that Guard protects.
LEMMA BodyReadsStep == ASSUME ParfuncInv, NEW i \in Expr, BodyReads(i) PROVE ParfuncInv'
<1>1. /\ worker[i] = "run" /\ taken[i] = Len(program[i])
      /\ worker'[i] = IF Guards(i) THEN "read" ELSE "unlock"
      /\ seen'[i] = sharedVar
      /\ \A j \in Expr \ {i} : worker'[j] = worker[j] /\ seen'[j] = seen[j]
      /\ UNCHANGED <<program, timed, parfuncCaller, ch, cancelled, failed, parfuncLocks, sharedVar, writes>>
  BY DEF BodyReads, ParfuncInv, ParfuncTypeOK, WorkerOK
<1>2. ParfuncTypeOK'
  <2>1. CallerOK' /\ ChannelOK'
    BY <1>1 DEF ParfuncInv, ParfuncTypeOK, CallerOK, ChannelOK
  <2>2. WorkerOK'
    BY <1>1 DEF BodyReads, ParfuncInv, ParfuncTypeOK, WorkerOK
  <2> QED
    BY <2>1, <2>2 DEF ParfuncTypeOK
<1>3. LockInv'
  BY <1>1 DEF ParfuncInv, LockInv, MutexInv, PlaceInv, Held, Guards
<1>4. ResultInv' /\ MissingInv'
  BY <1>1, ResultFrame DEF ParfuncInv, ParfuncTypeOK
<1> QED
  BY <1>2, <1>3, <1>4 DEF ParfuncInv

\* Two workers are never both between their read and their write.
LEMMA OneReader ==
  ASSUME ParfuncInv, NEW i \in Expr, NEW j \in Expr, worker[i] = "read", worker[j] = "read"
  PROVE  i = j
<1>1. ASSUME NEW k \in Expr, worker[k] = "read" PROVE holder[Guard] = k
  <2>1. Guards(k) /\ taken[k] = Len(program[k])
    BY <1>1 DEF ParfuncInv, LockInv, PlaceInv
  <2>2. Guard \in Held(k)
    BY <2>1 DEF Guards, Held
  <2> QED
    BY <2>2, ParfuncAssumption DEF ParfuncInv, LockInv, MutexInv
<1> QED
  BY <1>1

\* What is written is one more than what the variable holds at that moment.
LEMMA BodyWritesStep == ASSUME ParfuncInv, NEW i \in Expr, BodyWrites(i) PROVE ParfuncInv'
<1>1. /\ worker[i] = "read" /\ worker'[i] = "unlock"
      /\ sharedVar' = seen[i] + 1 /\ writes' = writes + 1
      /\ \A j \in Expr \ {i} : worker'[j] = worker[j]
      /\ UNCHANGED <<program, timed, parfuncCaller, ch, cancelled, failed, parfuncLocks, seen>>
  BY DEF BodyWrites, ParfuncInv, ParfuncTypeOK, WorkerOK
<1>2. ParfuncTypeOK'
  <2>1. CallerOK' /\ ChannelOK'
    BY <1>1 DEF ParfuncInv, ParfuncTypeOK, CallerOK, ChannelOK
  <2>2. WorkerOK'
    BY <1>1 DEF BodyWrites, ParfuncInv, ParfuncTypeOK, WorkerOK
  <2> QED
    BY <2>1, <2>2 DEF ParfuncTypeOK
<1>3. \A j \in Expr \ {i} : worker[j] # "read"
  BY <1>1, OneReader
<1>4. sharedVar' = writes'
  BY <1>1 DEF ParfuncInv, LockInv, PlaceInv
<1>5. LockInv'
  BY <1>1, <1>3, <1>4 DEF ParfuncInv, LockInv, MutexInv, PlaceInv, Held, Guards
<1>6. ResultInv' /\ MissingInv'
  BY <1>1, ResultFrame DEF ParfuncInv, ParfuncTypeOK
<1> QED
  BY <1>2, <1>5, <1>6 DEF ParfuncInv

\* An error before the result is sent decides what the result will be.
LEMMA FailsStep == ASSUME ParfuncInv, NEW i \in Expr, Fails(i) PROVE ParfuncInv'
<1>1. /\ worker[i] \in {"read", "run"} /\ worker'[i] = "unlock"
      /\ \A j \in Expr \ {i} : worker'[j] = worker[j] /\ failed'[j] = failed[j]
      /\ UNCHANGED <<program, timed, parfuncCaller, ch, cancelled, parfuncLocks, parfuncShared>>
  BY DEF Fails, ParfuncInv, ParfuncTypeOK, WorkerOK
<1>2. ParfuncTypeOK'
  <2>1. CallerOK' /\ ChannelOK'
    BY <1>1 DEF ParfuncInv, ParfuncTypeOK, CallerOK, ChannelOK
  <2>2. WorkerOK'
    BY <1>1 DEF Fails, ParfuncInv, ParfuncTypeOK, WorkerOK
  <2> QED
    BY <2>1, <2>2 DEF ParfuncTypeOK
<1>3. LockInv'
  BY <1>1 DEF ParfuncInv, LockInv, MutexInv, PlaceInv, Held, Guards
<1>4. ResultInv' /\ MissingInv'
  BY <1>1, ResultFrame DEF ParfuncInv, ParfuncTypeOK
<1> QED
  BY <1>2, <1>3, <1>4 DEF ParfuncInv

\* The innermost mutex is left; the worker stays inside the others.
LEMMA UnlockStep == ASSUME ParfuncInv, NEW i \in Expr, Unlock(i) PROVE ParfuncInv'
<1> DEFINE n == taken[i]
           m == program[i][n]
<1>0. /\ program[i] \in Seq(Mutex) /\ Len(program[i]) \in Nat
      /\ n \in 1..Len(program[i]) /\ m \in Mutex
  <2>1. n \in Nat /\ n > 0 /\ n <= Len(program[i])
    BY DEF Unlock, ParfuncInv, ParfuncTypeOK, WorkerOK
  <2> QED
    BY <2>1, ProgramLemma DEF ParfuncInv, ParfuncTypeOK
<1>1. /\ worker[i] = "unlock" /\ taken'[i] = n - 1
      /\ \A j \in Expr \ {i} : taken'[j] = taken[j]
      /\ \A x \in Mutex : holder'[x] = IF x = m THEN 0 ELSE holder[x]
      /\ UNCHANGED <<program, timed, parfuncCaller, ch, cancelled, worker, failed, parfuncShared>>
  BY <1>0 DEF Unlock, ParfuncInv, ParfuncTypeOK, WorkerOK
<1>2. ParfuncTypeOK'
  <2>1. CallerOK' /\ ChannelOK'
    BY <1>1 DEF ParfuncInv, ParfuncTypeOK, CallerOK, ChannelOK
  <2>2. taken' \in [Expr -> Nat] /\ \A j \in Expr : taken'[j] <= Len(program[j])
    BY <1>0, <1>1 DEF Unlock, ParfuncInv, ParfuncTypeOK, WorkerOK
  <2>3. holder' \in [Mutex -> Expr \cup {0}]
    BY <1>0 DEF Unlock, ParfuncInv, ParfuncTypeOK, WorkerOK
  <2> QED
    BY <1>1, <2>1, <2>2, <2>3 DEF ParfuncInv, ParfuncTypeOK, WorkerOK
<1>3. \A k \in 1..n : k # n => program[i][k] # m
  BY <1>0 DEF ParfuncInv, LockInv, MutexInv
<1>4. Held(i)' = Held(i) \ {m} /\ \A j \in Expr \ {i} : Held(j)' = Held(j)
  <2>1. 1..(n - 1) = (1..n) \ {n}
    BY <1>0
  <2> QED
    BY <1>1, <1>3, <2>1 DEF Held
<1>5. m \in Held(i) /\ \A j \in Expr \ {i} : m \notin Held(j)
  <2>1. m \in Held(i)
    BY <1>0 DEF Held
  <2> QED
    BY <1>0, <2>1 DEF ParfuncInv, LockInv, MutexInv
<1>6. \A k \in 1..(n - 1) : k \in 1..n
  BY <1>0
<1> HIDE DEF m
<1>7. MutexInv'
  <2>1. ASSUME NEW x \in Mutex, NEW j \in Expr PROVE holder'[x] = j <=> x \in Held(j)'
    <3>1. CASE x = m
      <4>1. x \notin Held(j)'
        BY <1>4, <1>5, <3>1
      <4> QED
        BY <1>1, <3>1, <4>1, ExprLemma
    <3>2. CASE x # m
      BY <1>1, <1>4, <3>2 DEF ParfuncInv, LockInv, MutexInv
    <3> QED
      BY <3>1, <3>2
  <2>2. ASSUME NEW j \in Expr, NEW k \in 1..taken'[j], NEW l \in 1..taken'[j], k # l
        PROVE  program[j][k] # program[j][l]
    <3>1. k \in 1..taken[j] /\ l \in 1..taken[j]
      BY <1>1, <1>6
    <3> QED
      BY <2>2, <3>1 DEF ParfuncInv, LockInv, MutexInv
  <2> QED
    BY <1>1, <2>1, <2>2 DEF MutexInv
<1>8. LockInv'
  BY <1>1, <1>7 DEF ParfuncInv, LockInv, PlaceInv, Guards
<1>9. ResultInv' /\ MissingInv'
  BY <1>1, ResultFrame DEF ParfuncInv, ParfuncTypeOK
<1> QED
  BY <1>2, <1>8, <1>9 DEF ParfuncInv

\* The worker that goes leaves its one result as the last of the channel.
LEMMA SendStep == ASSUME ParfuncInv, NEW i \in Expr, Send(i) PROVE ParfuncInv'
<1> DEFINE msg == [idx |-> i, val |-> Value(i)]
           Last == Len(ch) + 1
<1>0. Len(ch) \in Nat /\ \A k \in 1..Len(ch) : ch[k].idx \in Expr
  BY ChannelLemma DEF ParfuncInv, ParfuncTypeOK
<1>1. /\ worker[i] = "unlock" /\ taken[i] = 0 /\ worker'[i] = "gone"
      /\ \A j \in Expr \ {i} : worker'[j] = worker[j]
      /\ ch' = Append(ch, msg)
      /\ UNCHANGED <<program, timed, parfuncCaller, cancelled, failed, parfuncLocks, parfuncShared>>
  BY DEF Send, Value, ParfuncInv, ParfuncTypeOK, WorkerOK
<1>2. /\ Len(ch') = Last /\ ch'[Last] = msg /\ \A k \in 1..Len(ch) : ch'[k] = ch[k]
      /\ \A k \in 1..Last : k \in 1..Len(ch) \/ k = Last
  <2> DEFINE Message == [idx : Expr, val : {NilResult} \cup Expr]
  <2>1. ch \in Seq(Message) /\ msg \in Message
    BY DEF ParfuncInv, ParfuncTypeOK, ChannelOK, Value
  <2> HIDE DEF Message, msg
  <2> QED
    BY <1>0, <1>1, <2>1
<1>3. Running' = Running \ {i} /\ i \in Running
  BY <1>1 DEF Running
<1>4. Cardinality(Running') = Cardinality(Running) - 1
  BY <1>3, RunningFinite, FS_RemoveElement
<1>5. i \notin Waiting /\ \A k \in 1..Len(ch) : ch[k].idx # i
  BY <1>1 DEF ParfuncInv, ResultInv, Waiting
<1>6. Waiting' = Waiting \cup {i}
  <2>1. \A j : j \in Waiting' <=> \E k \in 1..Last : j = ch'[k].idx
    BY <1>2 DEF Waiting
  <2>2. \A k \in 1..Len(ch) : k \in 1..Last
    BY <1>0
  <2>3. Last \in 1..Last
    BY <1>0
  <2>4. msg.idx = i
    OBVIOUS
  <2> HIDE DEF Last, msg
  <2> QED
    BY <1>2, <2>1, <2>2, <2>3, <2>4 DEF Waiting
<1>7. MissingInv'
  <2>1. Last + (Cardinality(Running) - 1) = Len(ch) + Cardinality(Running)
    BY <1>0, RunningFinite
  <2> QED
    BY <1>1, <1>2, <1>4, <2>1 DEF ParfuncInv, MissingInv
<1>8. ParfuncTypeOK'
  <2>1. CallerOK'
    BY <1>1 DEF ParfuncInv, ParfuncTypeOK, CallerOK
  <2>2. WorkerOK'
    BY <1>1 DEF Send, ParfuncInv, ParfuncTypeOK, WorkerOK
  <2>3. ChannelOK'
    <3> DEFINE Message == [idx : Expr, val : {NilResult} \cup Expr]
    <3>1. ch \in Seq(Message) /\ msg \in Message
      BY DEF ParfuncInv, ParfuncTypeOK, ChannelOK, Value
    <3>2. ch' \in Seq(Message)
      <4> HIDE DEF Message, msg
      <4> QED
        BY <1>1, <3>1
    <3>3. Last <= Cardinality(Expr)
      <4>1. Len(ch) + Cardinality(Running) <= Cardinality(Expr)
        BY DEF ParfuncInv, MissingInv
      <4>2. Cardinality(Running) - 1 \in Nat
        BY <1>3, <1>4, RunningFinite, FS_RemoveElement, FS_CardinalityType
      <4> QED
        BY <1>0, <4>1, <4>2, RunningFinite, ExprLemma
    <3> QED
      BY <1>2, <3>2, <3>3 DEF ChannelOK
  <2> QED
    BY <2>1, <2>2, <2>3 DEF ParfuncTypeOK
<1>9. LockInv'
  BY <1>1 DEF ParfuncInv, LockInv, MutexInv, PlaceInv, Held, Guards
<1>10. ResultInv'
  <2>1. \A j \in Expr : Value(j)' = Value(j)
    BY <1>1 DEF Value
  <2>2. ASSUME NEW k \in 1..Last
        PROVE  (worker[ch[k].idx] = "gone" /\ ch[k].val = Value(ch[k].idx))'
    <3>1. CASE k \in 1..Len(ch)
      <4>1. ch'[k] = ch[k] /\ ch[k].idx \in Expr \ {i}
        BY <1>0, <1>2, <1>5, <3>1
      <4> QED
        BY <1>1, <2>1, <3>1, <4>1 DEF ParfuncInv, ResultInv
    <3>2. CASE k = Last
      <4>1. msg.idx = i /\ msg.val = Value(i)
        OBVIOUS
      <4> QED
        BY <1>1, <1>2, <2>1, <3>2, <4>1
    <3> QED
      BY <1>2, <3>1, <3>2
  <2>3. ASSUME NEW k \in 1..Last, NEW l \in 1..Last, k # l PROVE ch'[k].idx # ch'[l].idx
    <3>1. msg.idx = i
      OBVIOUS
    <3> HIDE DEF msg, Last
    <3> QED
      BY <1>2, <1>5, <2>3, <3>1 DEF ParfuncInv, ResultInv
  <2>4. \A j \in Expr : gathered'[j] = IF j \in (Running \cup Waiting)' THEN NilResult ELSE Value(j)'
    <3>1. Running' \cup Waiting' = Running \cup Waiting
      BY <1>3, <1>6
    <3> QED
      BY <1>1, <2>1, <3>1 DEF ParfuncInv, ResultInv
  <2> QED
    BY <1>2, <2>2, <2>3, <2>4 DEF ResultInv
<1> QED
  BY <1>7, <1>8, <1>9, <1>10 DEF ParfuncInv
------------------------------------------------------------------------------
\* The caller touches no mutex and not the shared variable.
LEMMA LockFrame ==
  ASSUME LockInv, UNCHANGED <<program, worker, parfuncLocks, parfuncShared>>
  PROVE  LockInv'
  BY DEF LockInv, MutexInv, PlaceInv, Held, Guards

\* The oldest result of the channel goes to its expression's place.
LEMMA ParfuncCollectStep == ASSUME ParfuncInv, Collect PROVE ParfuncInv'
<1> DEFINE i == Head(ch).idx
           Last == Len(ch) - 1
<1>0. Len(ch) \in Nat /\ \A k \in 1..Len(ch) : ch[k].idx \in Expr
  BY ChannelLemma DEF ParfuncInv, ParfuncTypeOK
<1>1. /\ caller = "collect" /\ ch # <<>> /\ missing > 0
      /\ gathered' = [gathered EXCEPT ![i] = Head(ch).val]
      /\ missing' = missing - 1 /\ ch' = Tail(ch)
      /\ UNCHANGED <<program, timed, caller, timedOut, cancelled, worker, failed, parfuncLocks, parfuncShared>>
  BY DEF Collect, CollectAt
<1>2. /\ Last \in Nat /\ Len(ch') = Last /\ Head(ch) = ch[1] /\ 1 \in 1..Len(ch)
      /\ \A k \in 1..Last : ch'[k] = ch[k + 1] /\ k + 1 \in 1..Len(ch)
      /\ \A k \in 2..Len(ch) : k - 1 \in 1..Last /\ ch'[k - 1] = ch[k]
      /\ \A k \in 1..Len(ch) : k = 1 \/ k \in 2..Len(ch)
  <2> DEFINE Message == [idx : Expr, val : {NilResult} \cup Expr]
  <2>1. ch \in Seq(Message)
    BY DEF ParfuncInv, ParfuncTypeOK, ChannelOK
  <2> HIDE DEF Message
  <2>2. Last \in Nat /\ Len(ch') = Last /\ Head(ch) = ch[1] /\ 1 \in 1..Len(ch)
    BY <1>1, <2>1
  <2>3. ASSUME NEW k \in 1..Last PROVE ch'[k] = ch[k + 1] /\ k + 1 \in 1..Len(ch)
    BY <1>1, <2>1, <2>2
  <2>4. ASSUME NEW k \in 2..Len(ch) PROVE k - 1 \in 1..Last
    BY <2>1, <2>2
  <2>5. ASSUME NEW k \in 2..Len(ch) PROVE ch'[k - 1] = ch[k]
    <3>1. (k - 1) + 1 = k
      OBVIOUS
    <3> QED
      BY <2>3, <2>4, <3>1
  <2> QED
    BY <2>1, <2>2, <2>3, <2>4, <2>5
<1>3. i \in Expr /\ i = ch[1].idx /\ worker[i] = "gone" /\ Head(ch).val = Value(i)
  BY <1>0, <1>2 DEF ParfuncInv, ResultInv
<1>4. Running' = Running /\ i \notin Running
  BY <1>1, <1>3 DEF Running
<1>5. \A k \in 2..Len(ch) : ch[k].idx # i
  BY <1>2, <1>3 DEF ParfuncInv, ResultInv
<1>6. Waiting' = Waiting \ {i}
  <2>1. Waiting' = {ch'[k].idx : k \in 1..Last}
    BY <1>2 DEF Waiting
  <2>2. ASSUME NEW k \in 1..Last PROVE k + 1 \in 2..Len(ch)
    BY <1>0, <1>2
  <2> HIDE DEF Last, i
  <2>3. \A j \in Waiting' : j \in Waiting \ {i}
    BY <1>2, <1>5, <2>1, <2>2 DEF Waiting
  <2>4. \A j \in Waiting \ {i} : j \in Waiting'
    BY <1>2, <1>3, <2>1 DEF Waiting
  <2> QED
    BY <2>3, <2>4
<1>7. MissingInv'
  <2>1. missing \in Nat
    BY ExprLemma DEF ParfuncInv, ParfuncTypeOK, CallerOK
  <2>2. (missing = Len(ch) + Cardinality(Running)) => missing - 1 = Last + Cardinality(Running)
    BY <1>0, RunningFinite
  <2>3. Last + Cardinality(Running) <= Len(ch) + Cardinality(Running)
    BY <1>0, RunningFinite
  <2>4. Last + Cardinality(Running) <= Cardinality(Expr)
    BY <1>0, <2>3, RunningFinite, ExprLemma DEF ParfuncInv, MissingInv
  <2> QED
    BY <1>1, <1>2, <1>4, <2>2, <2>4 DEF ParfuncInv, MissingInv
<1>8. ParfuncTypeOK'
  <2>1. Value(i) \in {NilResult} \cup Expr
    BY <1>3 DEF Value
  <2>2. missing - 1 \in 0..Cardinality(Expr)
    BY <1>1, ExprLemma DEF ParfuncInv, ParfuncTypeOK, CallerOK
  <2>3. CallerOK'
    BY <1>1, <1>3, <2>1, <2>2 DEF ParfuncInv, ParfuncTypeOK, CallerOK
  <2>4. ChannelOK'
    <3> DEFINE Message == [idx : Expr, val : {NilResult} \cup Expr]
    <3>1. ch \in Seq(Message)
      BY DEF ParfuncInv, ParfuncTypeOK, ChannelOK
    <3>2. ch' \in Seq(Message)
      <4> HIDE DEF Message
      <4> QED
        BY <1>1, <3>1
    <3>3. Last <= Cardinality(Expr)
      BY <1>0, ExprLemma DEF ParfuncInv, ParfuncTypeOK, ChannelOK
    <3> QED
      BY <1>2, <3>2, <3>3 DEF ChannelOK
  <2>5. WorkerOK'
    BY <1>1 DEF ParfuncInv, ParfuncTypeOK, WorkerOK
  <2> QED
    BY <2>3, <2>4, <2>5 DEF ParfuncTypeOK
<1>9. LockInv'
  BY <1>1, LockFrame DEF ParfuncInv
<1>10. ResultInv'
  <2> HIDE DEF Last, i
  <2>1. \A j \in Expr : Value(j)' = Value(j)
    BY <1>1 DEF Value
  <2>2. \A k \in 1..Last : (worker[ch[k].idx] = "gone" /\ ch[k].val = Value(ch[k].idx))'
    BY <1>0, <1>1, <1>2, <2>1 DEF ParfuncInv, ResultInv
  <2>3. ASSUME NEW k \in 1..Last, NEW l \in 1..Last, k # l PROVE ch'[k].idx # ch'[l].idx
    <3>1. k + 1 # l + 1
      BY <2>3
    <3> QED
      BY <1>2, <3>1 DEF ParfuncInv, ResultInv
  <2>4. ASSUME NEW j \in Expr
        PROVE  gathered'[j] = IF j \in Running' \cup Waiting' THEN NilResult ELSE Value(j)'
    <3>1. CASE j = i
      BY <1>1, <1>3, <1>4, <1>6, <2>1, <3>1 DEF ParfuncInv, ParfuncTypeOK, CallerOK
    <3>2. CASE j # i
      <4>1. gathered'[j] = gathered[j]
        BY <1>1, <3>2 DEF ParfuncInv, ParfuncTypeOK, CallerOK
      <4> QED
        BY <1>4, <1>6, <2>1, <3>2, <4>1 DEF ParfuncInv, ResultInv
    <3> QED
      BY <3>1, <3>2
  <2> QED
    BY <1>2, <2>2, <2>3, <2>4 DEF ResultInv
<1> QED
  BY <1>7, <1>8, <1>9, <1>10 DEF ParfuncInv

\* The timer and the end of the form leave the results where they are.
LEMMA ResultKept ==
  ASSUME ResultInv, ChannelOK, UNCHANGED <<gathered, ch, worker, failed>>
  PROVE  ResultInv' /\ Running' = Running
<1>1. Running' = Running /\ Waiting' = Waiting /\ \A i : Value(i)' = Value(i)
  BY DEF Running, Waiting, Value
<1> QED
  BY <1>1 DEF ResultInv

LEMMA TimeoutStep == ASSUME ParfuncInv, Timeout PROVE ParfuncInv'
<1>1. /\ caller = "collect" /\ timedOut' = TRUE /\ cancelled' = TRUE /\ missing' = 0
      /\ UNCHANGED <<program, timed, caller, gathered, ch, worker, failed, parfuncLocks, parfuncShared>>
  BY DEF Timeout, TimeoutCancels
<1>2. ParfuncTypeOK'
  BY <1>1, ExprLemma DEF ParfuncInv, ParfuncTypeOK, CallerOK, ChannelOK, WorkerOK
<1>3. LockInv'
  BY <1>1, LockFrame DEF ParfuncInv
<1>4. ResultInv' /\ Running' = Running
  BY <1>1, ResultKept DEF ParfuncInv, ParfuncTypeOK
<1>5. MissingInv'
  BY <1>1, <1>4 DEF ParfuncInv, MissingInv
<1> QED
  BY <1>2, <1>3, <1>4, <1>5 DEF ParfuncInv

LEMMA BindStep == ASSUME ParfuncInv, Bind PROVE ParfuncInv'
<1>1. /\ missing = 0 /\ caller' \in {"returned", "refused"} /\ cancelled' = TRUE
      /\ UNCHANGED <<program, timed, gathered, missing, timedOut, ch, worker, failed, parfuncLocks, parfuncShared>>
  BY DEF Bind
<1>2. ParfuncTypeOK'
  BY <1>1 DEF ParfuncInv, ParfuncTypeOK, CallerOK, ChannelOK, WorkerOK
<1>3. LockInv'
  BY <1>1, LockFrame DEF ParfuncInv
<1>4. ResultInv' /\ Running' = Running
  BY <1>1, ResultKept DEF ParfuncInv, ParfuncTypeOK
<1>5. MissingInv'
  BY <1>1, <1>4 DEF ParfuncInv, MissingInv
<1> QED
  BY <1>2, <1>3, <1>4, <1>5 DEF ParfuncInv

\* Every step of the caller, of the timer and of a worker keeps the invariant.
LEMMA ParfuncInductive == ParfuncInv /\ [ParfuncNext]_parfuncVars => ParfuncInv'
<1> SUFFICES ASSUME ParfuncInv, [ParfuncNext]_parfuncVars PROVE ParfuncInv'
  OBVIOUS
<1>1. CASE Collect
  BY <1>1, ParfuncCollectStep
<1>2. CASE Timeout
  BY <1>2, TimeoutStep
<1>3. CASE Bind
  BY <1>3, BindStep
<1>4. ASSUME NEW i \in Expr, WorkerNext(i) PROVE ParfuncInv'
  BY <1>4, EntersLockStep, LockStep, BodyReadsStep, BodyWritesStep, FailsStep, UnlockStep, SendStep
     DEF WorkerNext
<1>5. CASE UNCHANGED parfuncVars
  <2>1. UNCHANGED <<program, timed, caller, gathered, missing, ch, cancelled, timedOut, worker,
                    taken, failed, holder, sharedVar, seen, writes>>
    BY <1>5 DEF parfuncVars
  <2>2. ParfuncTypeOK'
    BY <2>1 DEF ParfuncInv, ParfuncTypeOK, CallerOK, ChannelOK, WorkerOK
  <2>3. LockInv'
    BY <2>1, LockFrame DEF ParfuncInv
  <2>4. ResultInv' /\ Running' = Running
    BY <2>1, ResultKept DEF ParfuncInv, ParfuncTypeOK
  <2>5. MissingInv'
    BY <2>1, <2>4 DEF ParfuncInv, MissingInv
  <2> QED
    BY <2>2, <2>3, <2>4, <2>5 DEF ParfuncInv
<1> QED
  BY <1>1, <1>2, <1>3, <1>4, <1>5 DEF ParfuncNext

LEMMA ParfuncInvariance == ParfuncSpec => []ParfuncInv
<1> QED
  BY ParfuncInitOK, ParfuncInductive, PTL DEF ParfuncSpec

\* A holder is inside its mutex, a worker that is gone inside none.
LEMMA UnderLockLemma == ASSUME ParfuncInv PROVE UpdatesUnderLock
<1>1. ASSUME NEW m \in Mutex, holder[m] # 0 PROVE worker[holder[m]] # "gone"
  <2>1. holder[m] \in Expr
    BY <1>1 DEF ParfuncInv, ParfuncTypeOK, WorkerOK
  <2>2. m \in Held(holder[m])
    BY <2>1 DEF ParfuncInv, LockInv, MutexInv
  <2>3. taken[holder[m]] # 0
    BY <2>2 DEF Held
  <2> QED
    BY <2>1, <2>3 DEF ParfuncInv, LockInv, PlaceInv
<1> QED
  BY <1>1 DEF UpdatesUnderLock, ParfuncInv, LockInv

\* However the locks of the expressions nest, whatever fails and whenever the
\* timer fires: the mutexes lose no update of the shared variable, and a worker
\* that is gone holds none (evalLock, evalParfunc).
THEOREM UpdatesUnderLockTheorem == ParfuncSpec => []UpdatesUnderLock
<1> QED
  BY UnderLockLemma, ParfuncInvariance, PTL

\* Without the timer the caller returns when nothing is left to come.
LEMMA OwnLemma == ASSUME ParfuncInv PROVE ResultsOwn
<1> SUFFICES ASSUME ParfuncInv, caller = "returned", NEW i \in Expr
             PROVE  gathered[i] = i \/ (gathered[i] = NilResult /\ (failed[i] \/ timedOut))
  BY DEF ResultsOwn
<1>1. CASE timedOut
  BY <1>1 DEF ParfuncInv, ResultInv, Value
<1>2. CASE ~timedOut
  <2>1. Len(ch) + Cardinality(Running) = 0
    BY <1>2 DEF ParfuncInv, MissingInv
  <2>2. Len(ch) = 0 /\ Cardinality(Running) = 0
    BY <2>1, ChannelLemma, RunningFinite DEF ParfuncInv, ParfuncTypeOK
  <2>3. Running = {} /\ Waiting = {}
    BY <2>2, RunningFinite, FS_EmptySet DEF Waiting
  <2>4. gathered[i] = Value(i)
    BY <2>3 DEF ParfuncInv, ResultInv
  <2> QED
    BY <2>4 DEF Value, ParfuncInv, ParfuncTypeOK, WorkerOK
<1> QED
  BY <1>1, <1>2

\* For any number of expressions a parfunc that returns has every result at its
\* expression's place; nil stands only for a failed expression or, after the
\* timer, for one that was given up (evalParfunc).
THEOREM ResultsOwnTheorem == ParfuncSpec => []ResultsOwn
<1> QED
  BY OwnLemma, ParfuncInvariance, PTL
------------------------------------------------------------------------------
(* parfunc comes to an end                                                   *)
(*                                                                           *)
(* lock takes no order upon itself.  If the program does, nesting its locks  *)
(* in the order of some rank of the mutexes, no workers wait for each other; *)
(* and whatever it does, every step brings the end nearer.                   *)

Ascending(rank) ==
  \A i \in Expr : \A k, l \in 1..Len(program[i]) :
    k < l => rank[program[i][k]] < rank[program[i][l]]

\* Worker i, or the calling form, has something to do that nothing holds up: the
\* guards of their actions, the timer left aside.
NextMutex(i) == program[i][taken[i] + 1]
WorkerMay(i) == \/ worker[i] \in {"run", "read", "unlock"}
                \/ worker[i] = "lock" /\ holder[NextMutex(i)] = 0
CallerMay == caller = "collect" /\ (missing = 0 \/ ch # <<>>)

\* No deadlock: as long as workers are left one of them can go on, and then the
\* caller can (evalLock, evalParfunc).
ParfuncMoves == /\ Running # {} => \E i \in Expr : WorkerMay(i)
                /\ Running = {} /\ caller = "collect" => CallerMay

\* What a worker and the caller have still before them, at most.
WorkerLeft(i) ==
  IF worker[i] = "gone" THEN 0
  ELSE IF worker[i] = "unlock" THEN taken[i] + 1
  ELSE IF worker[i] = "read" THEN taken[i] + 2
  ELSE taken[i] + 3 * (Len(program[i]) - taken[i]) + (IF worker[i] = "run" THEN 3 ELSE 2)
CallerLeft == missing + (IF caller = "collect" THEN 1 ELSE 0)

\* A step takes from what is left of somebody and adds to nobody's.
Nearer == /\ CallerLeft' <= CallerLeft /\ \A i \in Expr : WorkerLeft(i)' <= WorkerLeft(i)
          /\ CallerLeft' < CallerLeft \/ \E i \in Expr : WorkerLeft(i)' < WorkerLeft(i)

\* Of workers that wait, one waits for a mutex no lower in rank than those the
\* others wait for: the one with the fewest above it.
LEMMA HighestLemma ==
  ASSUME NEW S, IsFiniteSet(S), S # {}, NEW rank, \A i \in S : rank[i] \in Nat
  PROVE  \E i \in S : \A j \in S : rank[j] <= rank[i]
<1> DEFINE Above(i) == {j \in S : rank[j] > rank[i]}
           Many == {Cardinality(Above(i)) : i \in S}
<1>1. \A i \in S : IsFiniteSet(Above(i)) /\ Cardinality(Above(i)) \in Nat
  BY FS_Subset, FS_CardinalityType
<1>2. Many \subseteq Nat /\ Many # {}
  BY <1>1
<1>3. PICK b \in Many : \A c \in Many : b <= c
  <2> HIDE DEF Many
  <2> QED
    BY <1>2, LeastElement
<1>4. PICK i \in S : b = Cardinality(Above(i))
  OBVIOUS
<1>5. ASSUME NEW j \in S, rank[j] > rank[i] PROVE FALSE
  <2>1. Above(j) \subseteq Above(i) /\ j \in Above(i) /\ j \notin Above(j)
    BY <1>5
  <2>2. Cardinality(Above(j)) < Cardinality(Above(i))
    <3> HIDE DEF Above
    <3>1. Above(j) # Above(i)
      BY <2>1
    <3> QED
      BY <1>1, <2>1, <3>1, FS_Subset
  <2>3. Cardinality(Above(j)) \in Many
    OBVIOUS
  <2> HIDE DEF Above, Many
  <2>4. b <= Cardinality(Above(j))
    BY <1>3, <2>3
  <2> QED
    BY <1>1, <1>4, <2>2, <2>4
<1> QED
  BY <1>5

\* A worker that waits behind another waits for a lower mutex than the other.
LEMMA HolderHigher ==
  ASSUME ParfuncInv, NEW rank \in [Mutex -> Nat], Ascending(rank),
         NEW i \in Expr, worker[i] = "lock", holder[NextMutex(i)] # 0
  PROVE  \E j \in Running : /\ NextMutex(i) \in Held(j)
                            /\ worker[j] = "lock" => rank[NextMutex(i)] < rank[NextMutex(j)]
<1>1. NextMutex(i) \in Mutex
  BY ProgramLemma DEF NextMutex, ParfuncInv, ParfuncTypeOK, WorkerOK, LockInv, PlaceInv
<1>2. PICK j \in Expr : holder[NextMutex(i)] = j
  BY <1>1 DEF ParfuncInv, ParfuncTypeOK, WorkerOK
<1>3. NextMutex(i) \in Held(j)
  BY <1>1, <1>2 DEF ParfuncInv, LockInv, MutexInv
<1>4. PICK k \in 1..taken[j] : NextMutex(i) = program[j][k]
  BY <1>3 DEF Held
<1>5. taken[j] \in Nat /\ taken[j] <= Len(program[j]) /\ Len(program[j]) \in Nat
  BY ProgramLemma DEF ParfuncInv, ParfuncTypeOK, WorkerOK
<1>6. j \in Running
  BY <1>4, <1>5 DEF Running, ParfuncInv, LockInv, PlaceInv
<1>7. ASSUME worker[j] = "lock" PROVE rank[NextMutex(i)] < rank[NextMutex(j)]
  <2>1. taken[j] < Len(program[j])
    BY <1>7 DEF ParfuncInv, LockInv, PlaceInv
  <2>2. k \in 1..Len(program[j]) /\ taken[j] + 1 \in 1..Len(program[j]) /\ k < taken[j] + 1
    BY <1>4, <1>5, <2>1
  <2> QED
    BY <1>4, <2>2 DEF Ascending, NextMutex
<1> QED
  BY <1>3, <1>6, <1>7

\* If all waited, who waits for the highest mutex would wait for one that waits
\* for a higher one.
LEMMA MovesLemma ==
  ASSUME ParfuncInv, NEW rank \in [Mutex -> Nat], Ascending(rank) PROVE ParfuncMoves
<1>1. ASSUME Running # {}, \A i \in Expr : ~WorkerMay(i) PROVE FALSE
  <2> DEFINE r == [i \in Expr |-> rank[NextMutex(i)]]
  <2>1. \A i \in Running : worker[i] = "lock" /\ holder[NextMutex(i)] # 0
    BY <1>1 DEF Running, WorkerMay, ParfuncInv, ParfuncTypeOK, WorkerOK
  <2>2. \A i \in Running : NextMutex(i) \in Mutex
    BY <2>1, ProgramLemma DEF Running, NextMutex, ParfuncInv, ParfuncTypeOK, WorkerOK, LockInv, PlaceInv
  <2>3. Running \subseteq Expr /\ \A i \in Running : r[i] = rank[NextMutex(i)] /\ r[i] \in Nat
    BY <2>2 DEF Running
  <2> HIDE DEF r
  <2>4. PICK i \in Running : \A j \in Running : r[j] <= r[i]
    BY <1>1, <2>3, HighestLemma, RunningFinite
  <2>5. \E j \in Running : r[i] < r[j]
    BY <2>1, <2>3, HolderHigher
  <2> QED
    BY <2>3, <2>4, <2>5
<1>2. ASSUME Running = {}, caller = "collect" PROVE CallerMay
  <2>1. Cardinality(Running) = 0
    BY <1>2, FS_EmptySet
  <2>2. missing = 0 \/ missing = Len(ch)
    BY <2>1, ChannelLemma DEF ParfuncInv, ParfuncTypeOK, MissingInv
  <2> QED
    BY <1>2, <2>2 DEF CallerMay
<1> QED
  BY <1>1, <1>2 DEF ParfuncMoves

\* A parfunc without a :timeout whose program nests its locks in one order is
\* never in a deadlock, for any number of expressions, any mutexes and any
\* depth of nesting; without such an order it can be (evalLock: not reentrant).
THEOREM ParfuncNeverStuck ==
  ASSUME NEW rank \in [Mutex -> Nat]
  PROVE  ParfuncSpec => [](Ascending(rank) => ParfuncMoves)
<1>1. ParfuncInv => (Ascending(rank) => ParfuncMoves)
  BY MovesLemma
<1> QED
  BY <1>1, ParfuncInvariance, PTL

LEMMA WorkerLeftLemma ==
  ASSUME ParfuncInv PROVE \A i \in Expr : WorkerLeft(i) \in 0..(3 * Len(program[i]) + 3)
<1> SUFFICES ASSUME NEW i \in Expr PROVE WorkerLeft(i) \in 0..(3 * Len(program[i]) + 3)
  OBVIOUS
<1>1. taken[i] \in Nat /\ Len(program[i]) \in Nat /\ taken[i] <= Len(program[i])
  BY ProgramLemma DEF ParfuncInv, ParfuncTypeOK, WorkerOK
<1> DEFINE n == Len(program[i])
           t == taken[i]
<1>2. n \in Nat /\ t \in Nat /\ t <= n
  BY <1>1
<1>3. \/ WorkerLeft(i) = 0
      \/ WorkerLeft(i) = t + 1
      \/ WorkerLeft(i) = t + 2
      \/ WorkerLeft(i) = t + 3 * (n - t) + 3
      \/ WorkerLeft(i) = t + 3 * (n - t) + 2
  BY DEF WorkerLeft
<1> HIDE DEF n, t
<1>4. WorkerLeft(i) \in 0..(3 * n + 3)
  BY <1>2, <1>3
<1> QED
  BY <1>4 DEF n

\* Each statement of a worker leaves it less to do and the others the same.
LEMMA NearerLemma == ASSUME ParfuncInv, [ParfuncNext]_parfuncVars PROVE [Nearer]_parfuncVars
<1> SUFFICES ASSUME ParfuncNext PROVE Nearer
  OBVIOUS
<1>0. /\ missing \in Nat
      /\ \A i \in Expr : taken[i] \in Nat /\ Len(program[i]) \in Nat /\ taken[i] <= Len(program[i])
      /\ \A i \in Expr : WorkerLeft(i) \in Nat
  <2>1. missing \in Nat
    BY ExprLemma DEF ParfuncInv, ParfuncTypeOK, CallerOK
  <2>2. \A i \in Expr : taken[i] \in Nat /\ Len(program[i]) \in Nat /\ taken[i] <= Len(program[i])
    BY ProgramLemma DEF ParfuncInv, ParfuncTypeOK, WorkerOK
  <2>3. ASSUME NEW i \in Expr PROVE WorkerLeft(i) \in Nat
    <3>1. WorkerLeft(i) \in 0..(3 * Len(program[i]) + 3)
      BY WorkerLeftLemma
    <3> QED
      BY <2>2, <3>1
  <2> QED
    BY <2>1, <2>2, <2>3
<1>1. ASSUME NEW i \in Expr, WorkerNext(i) PROVE Nearer
  <2>1. /\ UNCHANGED <<program, missing, caller>>
        /\ \A j \in Expr \ {i} : worker'[j] = worker[j] /\ taken'[j] = taken[j]
    BY <1>1 DEF WorkerNext, EntersLock, Lock, BodyReads, BodyWrites, Fails, Unlock, Send,
       ParfuncInv, ParfuncTypeOK, WorkerOK
  <2>2. \/ worker[i] = "run" /\ worker'[i] = "lock" /\ taken'[i] = taken[i]
        \/ worker[i] = "lock" /\ worker'[i] = "run" /\ taken'[i] = taken[i] + 1
        \/ worker[i] = "run" /\ worker'[i] \in {"read", "unlock"} /\ taken'[i] = taken[i]
        \/ worker[i] = "read" /\ worker'[i] = "unlock" /\ taken'[i] = taken[i]
        \/ worker[i] = "unlock" /\ worker'[i] = "unlock" /\ taken'[i] = taken[i] - 1
        \/ worker[i] = "unlock" /\ worker'[i] = "gone"
    BY <1>1 DEF WorkerNext, EntersLock, Lock, BodyReads, BodyWrites, Fails, Unlock, Send,
       ParfuncInv, ParfuncTypeOK, WorkerOK, LockInv, PlaceInv
  <2> DEFINE n == Len(program[i])
             t == taken[i]
  <2>3. Len(program'[i]) = n /\ n \in Nat /\ t \in Nat /\ t <= n
    BY <1>0, <2>1
  <2> HIDE DEF n, t
  <2>4. WorkerLeft(i)' < WorkerLeft(i) /\ WorkerLeft(i)' <= WorkerLeft(i)
    <3>1. CASE worker[i] = "run" /\ worker'[i] = "lock" /\ taken'[i] = t
      <4>1. WorkerLeft(i) = t + 3 * (n - t) + 3 /\ WorkerLeft(i)' = t + 3 * (n - t) + 2
        BY <2>3, <3>1 DEF WorkerLeft, n, t
      <4> QED
        BY <2>3, <4>1
    <3>2. CASE worker[i] = "lock" /\ worker'[i] = "run" /\ taken'[i] = t + 1
      <4>1. WorkerLeft(i) = t + 3 * (n - t) + 2 /\ WorkerLeft(i)' = t + 1 + 3 * (n - (t + 1)) + 3
        BY <2>3, <3>2 DEF WorkerLeft, n, t
      <4> QED
        BY <2>3, <4>1
    <3>3. CASE worker[i] = "run" /\ worker'[i] \in {"read", "unlock"} /\ taken'[i] = t
      <4>1. WorkerLeft(i) = t + 3 * (n - t) + 3 /\ WorkerLeft(i)' \in {t + 1, t + 2}
        BY <2>3, <3>3 DEF WorkerLeft, n, t
      <4> QED
        BY <2>3, <4>1
    <3>4. CASE worker[i] = "read" /\ worker'[i] = "unlock" /\ taken'[i] = t
      <4>1. WorkerLeft(i) = t + 2 /\ WorkerLeft(i)' = t + 1
        BY <2>3, <3>4 DEF WorkerLeft, n, t
      <4> QED
        BY <2>3, <4>1
    <3>5. CASE worker[i] = "unlock" /\ worker'[i] = "unlock" /\ taken'[i] = t - 1
      <4>1. WorkerLeft(i) = t + 1 /\ WorkerLeft(i)' = t - 1 + 1
        BY <2>3, <3>5 DEF WorkerLeft, n, t
      <4> QED
        BY <2>3, <4>1
    <3>6. CASE worker[i] = "unlock" /\ worker'[i] = "gone"
      <4>1. WorkerLeft(i) = t + 1 /\ WorkerLeft(i)' = 0
        BY <2>3, <3>6 DEF WorkerLeft, n, t
      <4> QED
        BY <2>3, <4>1
    <3> QED
      BY <2>2, <3>1, <3>2, <3>3, <3>4, <3>5, <3>6 DEF t
  <2>5. \A j \in Expr \ {i} : WorkerLeft(j)' = WorkerLeft(j)
    BY <2>1 DEF WorkerLeft
  <2>6. CallerLeft' = CallerLeft /\ CallerLeft \in Int
    BY <1>0, <2>1 DEF CallerLeft
  <2>7. \A j \in Expr : WorkerLeft(j)' <= WorkerLeft(j)
    BY <1>0, <2>4, <2>5
  <2> QED
    BY <2>4, <2>6, <2>7 DEF Nearer
<1>2. CASE Collect \/ Timeout \/ Bind
  <2>1. UNCHANGED <<program, worker, taken>>
    BY <1>2 DEF Collect, CollectAt, Timeout, TimeoutCancels, Bind
  <2>2. \/ missing' = missing - 1 /\ caller' = caller
        \/ missing' = 0 /\ missing > 0 /\ caller' = caller
        \/ missing' = missing /\ caller = "collect" /\ caller' # "collect"
    BY <1>2 DEF Collect, CollectAt, Timeout, TimeoutCancels, Bind
  <2>3. CallerLeft' < CallerLeft /\ CallerLeft' <= CallerLeft
    BY <1>0, <2>2 DEF CallerLeft
  <2>4. \A i \in Expr : WorkerLeft(i)' = WorkerLeft(i) /\ WorkerLeft(i) \in Int
    BY <1>0, <2>1 DEF WorkerLeft
  <2> QED
    BY <2>3, <2>4 DEF Nearer
<1> QED
  BY <1>1, <1>2 DEF ParfuncNext

\* A parfunc and its workers take a bounded number of steps: what is left of
\* each is a natural number, at most three steps for each of its locks and three
\* more, that never grows, and each step lowers that of one of them.  Together
\* with ParfuncNeverStuck it comes to its end.
THEOREM ParfuncBounded ==
  ParfuncSpec => /\ [][Nearer]_parfuncVars
                 /\ [](CallerLeft \in 0..(Cardinality(Expr) + 1))
                 /\ [](\A i \in Expr : WorkerLeft(i) \in 0..(3 * Len(program[i]) + 3))
<1>1. ASSUME ParfuncInv PROVE CallerLeft \in 0..(Cardinality(Expr) + 1)
  BY <1>1, ExprLemma DEF CallerLeft, ParfuncInv, ParfuncTypeOK, CallerOK
<1> QED
  BY <1>1, WorkerLeftLemma, NearerLemma, ParfuncInvariance, PTL DEF ParfuncSpec
------------------------------------------------------------------------------
(* The HTTP server *)

\* While no browser is connected the clock of http-wait is not ahead of the
\* time for which that has been so.
ClockInv == browsers = {} => idleAge <= quiet
HttpInv == HttpTypeOK /\ ClockInv

LEMMA HttpInitOK == HttpInit => HttpInv
<1> SUFFICES ASSUME HttpInit PROVE HttpInv
  OBVIOUS
<1>1. /\ doing = [a \in Actor |-> IF a \in Goroutine THEN "lisp" ELSE "none"]
      /\ \A a \in Goroutine : a \in Actor /\ \A r \in Upload : r \in Actor /\ r \notin Goroutine
  BY HttpAssumption DEF HttpInit, Actor
<1>2. /\ doing \in [Actor -> GoroutineStep \cup UploadStep]
      /\ \A a \in Goroutine : doing[a] \in GoroutineStep
      /\ \A r \in Upload : doing[r] \in UploadStep
  BY <1>1, HttpAssumption DEF GoroutineStep, UploadStep, Actor
<1>3. 0 \in 0..Idle /\ 0 \in 0..MaxFiles
  BY HttpAssumption
<1>4. /\ listening \in BOOLEAN /\ routes \subseteq Route /\ done \in BOOLEAN
      /\ once \in Actor \cup {"free", "done"} /\ idleAge \in 0..Idle /\ quiet \in 0..Idle
  BY <1>3 DEF HttpInit
<1>5. /\ browsers = {b \in Browser : wsAt[b] = "read"}
      /\ wsAt \in [Browser -> {"none", "upgrade", "join", "read"}]
      /\ files \in [Upload -> 0..MaxFiles]
  BY <1>3 DEF HttpInit
<1>6. ClockInv
  BY DEF HttpInit, ClockInv
<1> QED
  BY <1>2, <1>4, <1>5, <1>6 DEF HttpInv, HttpTypeOK

\* The places of the actors, and that an actor may come to another of his.
DoingOK ==
  /\ doing \in [Actor -> GoroutineStep \cup UploadStep]
  /\ \A a \in Goroutine : doing[a] \in GoroutineStep
  /\ \A r \in Upload : doing[r] \in UploadStep
StepOf(a) == IF a \in Goroutine THEN GoroutineStep ELSE UploadStep

LEMMA TurnsLemma ==
  ASSUME DoingOK, NEW a \in Actor, NEW step, Turns(a, step), step \in StepOf(a)
  PROVE  DoingOK' /\ \A b \in Actor \ {a} : doing'[b] = doing[b]
<1>1. a \in Upload => a \notin Goroutine
  BY HttpAssumption
<1> QED
  BY <1>1 DEF DoingOK, Turns, StepOf, Actor

LEMMA StepsLemma ==
  ASSUME NEW a \in Actor
  PROVE  /\ {"stop", "shutdown"} \subseteq StepOf(a)
         /\ Back(a) => \E step \in StepOf(a) : Turns(a, step)
         /\ a \in Goroutine => {"wait", "wait idle", "open"} \subseteq StepOf(a)
         /\ DoingOK /\ doing[a] \in {"lisp", "wait", "wait idle", "open"} => a \in Goroutine
BY DEF StepOf, GoroutineStep, UploadStep, Back, DoingOK, Actor

\* What an actor does leaves the browsers alone and starts the clock at most.
LEMMA ActorStep ==
  ASSUME HttpInv, NEW a \in Actor, GoOnWith(a) \/ HttpStop(a) \/ Program(a)
  PROVE  /\ HttpInv'
         /\ \A b \in Actor \ {a} : doing'[b] = doing[b]
         /\ doing[a] = "wait idle" /\ doing'[a] # "wait idle" /\ ~done =>
              browsers = {} /\ quiet = Idle
<1>1. DoingOK
  BY DEF HttpInv, HttpTypeOK, DoingOK
<1>2. (\E step \in StepOf(a) : Turns(a, step)) \/ doing' = doing
  <2>1. CASE GoOnWith(a) \/ HttpStop(a)
    BY <2>1, StepsLemma DEF GoOnWith, HttpStop, WaitSeesDone, StopEnters, ShutdownCloses,
       ShutdownReturns, ShutdownTimesOut, StopWaited
  <2>2. CASE HttpServe(a) \/ HttpWait(a)
    BY <1>1, <2>2, StepsLemma DEF HttpServe, HttpWait
  <2>3. CASE BrowserOpens(a) \/ BrowserFails(a) \/ WaitTicks(a) \/ \E pattern \in Route : Handle(a, pattern)
    BY <2>3, StepsLemma DEF BrowserOpens, BrowserFails, WaitTicks, Handle
  <2> QED
    BY <2>1, <2>2, <2>3 DEF Program
<1>3. DoingOK' /\ \A b \in Actor \ {a} : doing'[b] = doing[b]
  BY <1>1, <1>2, TurnsLemma DEF DoingOK
<1>4. /\ listening' \in BOOLEAN /\ routes' \subseteq Route /\ done' \in BOOLEAN
      /\ once' \in Actor \cup {"free", "done"}
      /\ (idleAge' = 0 /\ quiet' = 0) \/ UNCHANGED <<idleAge, quiet>>
      /\ UNCHANGED <<browsers, wsAt, files>>
  <2>1. CASE GoOnWith(a) \/ HttpStop(a)
    BY <2>1 DEF HttpInv, HttpTypeOK, GoOnWith, HttpStop, WaitSeesDone, StopEnters, ShutdownCloses,
       ShutdownReturns, ShutdownTimesOut, StopWaited, srv, idle, ws
  <2>2. CASE HttpServe(a) \/ HttpWait(a)
    BY <2>2 DEF HttpInv, HttpTypeOK, HttpServe, HttpWait, srv, idle, ws
  <2>3. CASE BrowserOpens(a) \/ BrowserFails(a) \/ WaitTicks(a) \/ \E pattern \in Route : Handle(a, pattern)
    BY <2>3 DEF HttpInv, HttpTypeOK, BrowserOpens, BrowserFails, WaitTicks, Handle, srv, idle, ws
  <2> QED
    BY <2>1, <2>2, <2>3 DEF Program
<1>5. HttpInv'
  BY <1>3, <1>4, HttpAssumption DEF HttpInv, HttpTypeOK, ClockInv, DoingOK
<1>6. ASSUME doing[a] = "wait idle", doing'[a] # "wait idle", ~done
      PROVE  browsers = {} /\ quiet = Idle
  <2>1. WaitTicks(a)
    BY <1>6 DEF GoOnWith, HttpStop, Program, WaitSeesDone, StopEnters, ShutdownCloses,
       ShutdownReturns, ShutdownTimesOut, StopWaited, HttpServe, BrowserOpens, BrowserFails,
       HttpWait, Handle
  <2>2. browsers = {} /\ idleAge >= Idle
    BY <2>1 DEF WaitTicks
  <2>3. idleAge <= quiet /\ idleAge \in 0..Idle /\ quiet \in 0..Idle /\ Idle \in Nat
    BY <2>2, HttpAssumption DEF HttpInv, HttpTypeOK, ClockInv
  <2> QED
    BY <2>2, <2>3
<1> QED
  BY <1>3, <1>5, <1>6

LEMMA UploadStepKeeps ==
  ASSUME HttpInv, NEW r \in Upload, UploadArrives(r) \/ HandlerReturns(r) \/ UploadAnswered(r)
  PROVE  HttpInv' /\ \A a \in Actor : doing[a] = "wait idle" => doing'[a] = doing[a]
<1>1. DoingOK /\ r \in Actor /\ {"none", "handler"} \subseteq StepOf(r)
  BY HttpAssumption DEF HttpInv, HttpTypeOK, DoingOK, StepOf, UploadStep, Actor
<1>2. (\E step \in StepOf(r) : Turns(r, step)) \/ doing' = doing
  BY <1>1 DEF UploadArrives, HandlerReturns, UploadAnswered
<1>3. DoingOK' /\ \A b \in Actor \ {r} : doing'[b] = doing[b]
  BY <1>1, <1>2, TurnsLemma DEF DoingOK
<1>4. doing[r] # "wait idle"
  BY DEF UploadArrives, HandlerReturns, UploadAnswered
<1>5. files' \in [Upload -> 0..MaxFiles] /\ UNCHANGED <<listening, routes, done, once, idleAge, quiet, browsers, wsAt>>
  BY HttpAssumption DEF HttpInv, HttpTypeOK, UploadArrives, HandlerReturns, UploadAnswered, srv, idle, ws
<1> QED
  BY <1>3, <1>4, <1>5 DEF HttpInv, HttpTypeOK, ClockInv, DoingOK

LEMMA BrowserStep ==
  ASSUME HttpInv, NEW b \in Browser, Upgrade(b) \/ Upgraded(b) \/ Refused(b) \/ Join(b) \/ Remove(b)
  PROVE  HttpInv' /\ doing' = doing
<1>1. CASE Upgrade(b) \/ Upgraded(b) \/ Refused(b)
  BY <1>1 DEF HttpInv, HttpTypeOK, ClockInv, Upgrade, Upgraded, Refused, srv, idle
<1>2. CASE Join(b)
  BY <1>2, HttpAssumption DEF HttpInv, HttpTypeOK, ClockInv, Join, srv
<1>3. CASE Remove(b)
  BY <1>3, HttpAssumption DEF HttpInv, HttpTypeOK, ClockInv, Remove, ClockAfter, srv
<1> QED
  BY <1>1, <1>2, <1>3

LEMMA ElapseStep == ASSUME HttpInv, Elapse PROVE HttpInv' /\ doing' = doing
BY HttpAssumption DEF HttpInv, HttpTypeOK, ClockInv, Elapse, Elapses, srv, ws

LEMMA HttpInductive == ASSUME HttpInv, [HttpNext]_httpVars PROVE HttpInv'
<1>1. CASE UNCHANGED httpVars
  BY <1>1 DEF HttpInv, HttpTypeOK, ClockInv, httpVars, srv, idle, ws
<1> QED
  BY <1>1, ActorStep, UploadStepKeeps, BrowserStep, ElapseStep DEF HttpNext

LEMMA HttpInvariance == HttpSpec => []HttpInv
<1> QED
  BY HttpInitOK, HttpInductive, PTL DEF HttpSpec

\* Who leaves http-wait with :idle-exit, leaves a server without browsers.
Quietly == \A a \in Actor : (doing[a] = "wait idle" /\ doing'[a] # "wait idle" /\ ~done)
                              => browsers = {} /\ quiet = Idle

LEMMA IdleLemma == ASSUME HttpInv, [HttpNext]_httpVars PROVE [Quietly]_httpVars
<1>1. CASE UNCHANGED httpVars
  BY <1>1
<1>2. ASSUME NEW a \in Actor, GoOnWith(a) \/ HttpStop(a) \/ Program(a) PROVE Quietly
  BY <1>2, ActorStep DEF Quietly
<1>3. ASSUME NEW r \in Upload, UploadArrives(r) \/ HandlerReturns(r) \/ UploadAnswered(r) PROVE Quietly
  BY <1>3, UploadStepKeeps DEF Quietly
<1>4. CASE (\E b \in Browser : Upgrade(b) \/ Upgraded(b) \/ Refused(b) \/ Join(b) \/ Remove(b)) \/ Elapse
  BY <1>4, BrowserStep, ElapseStep DEF Quietly
<1> QED
  BY <1>1, <1>2, <1>3, <1>4 DEF HttpNext

\* With :idle-exit http-wait goes on until no browser has been connected for
\* that long, whatever browsers come, are refused, go and come back between its
\* ticks: removeClient sets the clock early enough (httpserver.go, wsbridge.go).
THEOREM IdleIsQuietTheorem == HttpSpec => IdleIsQuiet
<1> QED
  BY IdleLemma, HttpInvariance, PTL DEF HttpSpec, IdleIsQuiet, Quietly
------------------------------------------------------------------------------
(* The parts together *)

\* Only one part moves; the others stay as they are.
GoroutinesInv == part \in Part /\ PoolInv /\ ParfuncInv /\ HttpInv

LEMMA GoroutinesInitOK == GoroutinesInit => GoroutinesInv
BY PoolInitOK, ParfuncInitOK, HttpInitOK DEF GoroutinesInit, GoroutinesInv

LEMMA GoroutinesInductive == ASSUME GoroutinesInv, [GoroutinesNext]_goroutinesVars PROVE GoroutinesInv'
<1>1. part' = part /\ [Next]_vars /\ [ParfuncNext]_parfuncVars /\ [HttpNext]_httpVars
  BY DEF GoroutinesNext, goroutinesVars
<1> QED
  BY <1>1, PoolInductive, ParfuncInductive, HttpInductive DEF GoroutinesInv

LEMMA GoroutinesInvariance == GoroutinesSpec => []GoroutinesInv
<1> QED
  BY GoroutinesInitOK, GoroutinesInductive, PTL DEF GoroutinesSpec

\* The variables of every part have their types, and pool-map has at most n
\* calls of fn under way (stdlib.lisp, evalParfunc, HTTPServe).
THEOREM GoroutinesTypeCorrect == GoroutinesSpec => []GoroutinesTypeOK
<1>1. GoroutinesInv => GoroutinesTypeOK
  BY AtMostNLemma DEF GoroutinesInv, GoroutinesTypeOK, ParfuncInv, HttpInv
<1> QED
  BY <1>1, GoroutinesInvariance, PTL

\* What is proved of the parts holds of the program that has them all: pool-map
\* with its channels, parfunc with its mutexes, http-wait with its clock.
THEOREM GoroutinesSafe ==
  GoroutinesSpec => /\ [](SendNeverWaits /\ ResultsInPlace /\ UpdatesUnderLock /\ ResultsOwn)
                    /\ IdleIsQuiet
<1>1. GoroutinesInv => SendNeverWaits /\ ResultsInPlace /\ UpdatesUnderLock /\ ResultsOwn
  BY RoomLemma, InPlaceLemma, UnderLockLemma, OwnLemma DEF GoroutinesInv
<1>2. ASSUME GoroutinesInv, [GoroutinesNext]_goroutinesVars PROVE [Quietly]_httpVars
  <2>1. [HttpNext]_httpVars
    BY <1>2 DEF GoroutinesNext, goroutinesVars
  <2> QED
    BY <1>2, <2>1, IdleLemma DEF GoroutinesInv
<1>3. GoroutinesSpec => IdleIsQuiet
  BY <1>2, GoroutinesInvariance, PTL DEF GoroutinesSpec, IdleIsQuiet, Quietly
<1> QED
  BY <1>1, <1>3, GoroutinesInvariance, PTL
================================================================================
