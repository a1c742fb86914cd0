--------------------------------- MODULE Genalg ---------------------------------
(****************************************************************************)
(* The genetic algorithms (genalg.go, genalg_prims.go): a population of     *)
(* parallel strings in one flat store, several genes to a byte for the bit  *)
(* types, the chunks its work is divided into among the processors, and the *)
(* generation cycle ga-init, ga-calc, ga-select, ga-cross, ga-mut that a    *)
(* Lisp program drives in any order.                                        *)
(****************************************************************************)
EXTENDS Integers, Sequences, FiniteSets, SequencesExt

CONSTANTS GenType,  \* "bit1", "bit2", "bit4", "bit8", or "int" for a cell per gene
          GenLen,   \* genes of a string
          InitPar,  \* strings of a new population
          Cpus,     \* runtime.NumCPU
          InitCell, MutGene, MaxPar, MaxOps  \* bounds of the model: random cells,
                       \* genes that mutate, strings of a population, operations

ASSUME GenalgAssumption ==
  /\ GenType \in {"bit1", "bit2", "bit4", "bit8", "int"}
  /\ {GenLen, InitPar, Cpus, MaxPar, MaxOps} \subseteq Nat \ {0} /\ InitPar <= MaxPar
  /\ InitCell \subseteq 0..255 /\ MutGene \subseteq 0..GenLen - 1

VARIABLES
  genPar, \* strings
  store,  \* bitStore or intStore
  scores, \* one per string
  sorted, \* the strings have been calculated and sorted and not changed since
  gaLast,  \* the last operation, "failed" if it returned an error
  opsLeft

gaVars == <<genPar, store, scores, sorted, gaLast, opsLeft>>

Power2(n) == 2 ^ n

bitsPerGP == IF GenType = "bit1" THEN 1 ELSE IF GenType = "bit2" THEN 2 ELSE IF GenType = "bit4" THEN 4 ELSE 8
PerCell == IF GenType = "int" THEN 1 ELSE 8 \div bitsPerGP
\* bytesPer, or genLen for a store of numbers.
bytesPer == (GenLen + PerCell - 1) \div PerCell

\* Strings and genes count from 0, sequences from 1.
CellOf(s, gp) == s * bytesPer + (gp \div PerCell) + 1
Shift(gp) == Power2((gp % PerCell) * bitsPerGP)
Radix == Power2(bitsPerGP)
getBitValueRaw(st, s, gp) == (st[CellOf(s, gp)] \div Shift(gp)) % Radix
setBitValueRaw(st, s, gp, v) ==
  [st EXCEPT ![CellOf(s, gp)] = @ + (v - getBitValueRaw(st, s, gp)) * Shift(gp)]

\* parallelStrings(n): the strings its workers visit.  Without strings there
\* are no workers, and the chunk is a division by zero.
ChunkRoundedDown(n) == LET w == IF Cpus < n THEN Cpus ELSE n IN n \div w
Chunk(n) == LET w == IF Cpus < n THEN Cpus ELSE n IN (n + w - 1) \div w
VisitedStrings(n) ==
  LET w == IF Cpus < n THEN Cpus ELSE n
      end(k) == IF (k + 1) * Chunk(n) > n THEN n ELSE (k + 1) * Chunk(n)
  IN UNION {(k * Chunk(n))..(end(k) - 1) : k \in 0..w - 1}

\* The fitness function: the sum of the genes; a string that the Lisp function
\* fails on has the score 0, as one without genes.
genFunc(st, s) == LET sum[g \in 0..GenLen] == IF g = 0 THEN 0 ELSE sum[g - 1] + getBitValueRaw(st, s, g - 1)
                   IN sum[GenLen]

Strings(n) == 0..n - 1
StringAt(st, s) == SubSeq(st, s * bytesPer + 1, (s + 1) * bytesPer)
\* A store of n strings, each copied to its place.
Laid(n, strings) ==
  [k \in 1..n * bytesPer |-> strings[(k - 1) \div bytesPer][((k - 1) % bytesPer) + 1]]
Zeros(n) == [i \in 1..n |-> 0]
----------------------------------------------------------------------------
GaCreate == genPar = InitPar /\ store = Zeros(bytesPer * InitPar) /\ scores = Zeros(InitPar)
GenalgInit == GaCreate /\ sorted = FALSE /\ gaLast = "create" /\ opsLeft = MaxOps

\* (Bound of the model: only a new population.)
GaInit ==
  /\ gaLast = "create"
  /\ store' \in [1..Len(store) -> InitCell]
  /\ sorted' = FALSE /\ gaLast' = "init" /\ UNCHANGED <<genPar, scores>>

\* Two children for every two neighbours, alternating between the parents
\* every codist genes.  With a single string the population already counts as
\* crossed and has lost its scores when the division by zero ends the call.
Child(old, p1, p2, codist) ==
  LET child[n \in 0..GenLen] ==
        IF n = 0 THEN Zeros(bytesPer)
        ELSE LET gp == n - 1 p == IF (gp \div codist) % 2 = 0 THEN p1 ELSE p2
             IN setBitValueRaw(child[n - 1], 0, gp, getBitValueRaw(old, p, gp))
  IN child[GenLen]

GaCross(codist) ==
  /\ codist \in 1..GenLen - 1 /\ genPar + 2 * (genPar \div 2) <= MaxPar
  /\ LET pairs == genPar \div 2
         children == [c \in Strings(2 * pairs) |->
                        IF pairs = 0 \/ c \div 2 \notin VisitedStrings(pairs) THEN Zeros(bytesPer)
                        ELSE IF c % 2 = 0 THEN Child(store, c, c + 1, codist)
                        ELSE Child(store, c, c - 1, codist)]
     IN /\ genPar' = genPar + 2 * pairs
        /\ store' = store \o Laid(2 * pairs, children)
        /\ scores' = Zeros(genPar')
        /\ sorted' = FALSE /\ gaLast' = IF pairs = 0 THEN "failed" ELSE "cross"

\* The list that is sorted: an entry no worker writes is the zero value.
Scored ==
  [s \in Strings(genPar) |-> IF s \in VisitedStrings(genPar) THEN [score |-> genFunc(store, s), idx |-> s]
                            ELSE [score |-> 0, idx |-> 0]]

GaCalcLeaves(list) ==
  /\ scores' = [i \in 1..genPar |-> list[i].score]
  /\ sorted' = TRUE /\ gaLast' = "calc" /\ UNCHANGED <<genPar, store>>

GaCalcSorts(list) ==
  /\ scores' = [i \in 1..genPar |-> list[i].score]
  /\ store' = Laid(genPar, [s \in Strings(genPar) |-> StringAt(store, list[s + 1].idx)])
  /\ sorted' = TRUE /\ gaLast' = "calc" /\ UNCHANGED genPar

\* The best first; how sort.Slice orders equal ones is open.
GaCalc ==
  LET all == Scored IN
  \E order \in [1..genPar -> Strings(genPar)] :
    LET list == [i \in 1..genPar |-> all[order[i]]]
    IN /\ IsInjective(order) /\ \A i, j \in 1..genPar : i < j => list[i].score >= list[j].score
       /\ GaCalcSorts(list)

GaSelect(keep) ==
  /\ keep \in 1..genPar
  /\ genPar' = keep /\ store' = SubSeq(store, 1, keep * bytesPer)
  /\ scores' = SubSeq(scores, 1, keep)
  /\ gaLast' = "select" /\ UNCHANGED sorted

\* Any genes may mutate; the scores stay those of before.
GaMut(s, gp, v) ==
  /\ s \in VisitedStrings(genPar) /\ store' = setBitValueRaw(store, s, gp, v)
  /\ sorted' = FALSE /\ gaLast' = "mut" /\ UNCHANGED <<genPar, scores>>

GenalgNext == opsLeft > 0 /\ opsLeft' = opsLeft - 1 /\
  \/ GaInit \/ GaCalc
  \/ \E d \in 1..GenLen - 1 : GaCross(d)
  \/ \E keep \in 1..MaxPar : GaSelect(keep)
  \/ \E s \in Strings(MaxPar), gp \in MutGene : \E v \in {Radix - 1} : GaMut(s, gp, v)

GenalgSpec == GenalgInit /\ [][GenalgNext]_gaVars

----------------------------------------------------------------------------
GenalgTypeOK ==
  /\ genPar \in 1..MaxPar /\ Len(scores) = genPar /\ Len(store) = genPar * bytesPer
  /\ \A i \in DOMAIN store : store[i] \in 0..255
  /\ sorted \in BOOLEAN /\ gaLast \in {"create", "init", "calc", "cross", "select", "mut", "failed"} /\ opsLeft \in 0..MaxOps

Best == LET all == {genFunc(store, s) : s \in Strings(genPar)}
        IN CHOOSE b \in all : \A x \in all : x <= b

\* Elitism: crossing, calculating and, on calculated strings, selecting never
\* lose the best string, in whatever order they are called, although strings
\* share bytes with nobody only by their alignment, are copied to new places
\* and are cut off at the end of the store (GaCross, GaCalc, GaSelect).
BestIsKept ==
  [][ Best' >= Best \/ gaLast' \in {"init", "mut"} \/ (gaLast' = "select" /\ ~sorted) ]_gaVars
=============================================================================
