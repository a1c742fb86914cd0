------------------------------ MODULE Genalg_proofs ------------------------------
(****************************************************************************)
(* Proofs about the genetic algorithms: genes do not get into their         *)
(* neighbours' bits, the processors' chunks cover the population, and no    *)
(* operation that is meant to keep it loses the best string.                *)
(****************************************************************************)
EXTENDS Genalg, NumberLemmas

Byte == 0..255
Gene == 0..GenLen - 1

\* A store of n strings.
StoreOK(n, st) == n \in 1..MaxPar /\ st \in [1..n * bytesPer -> Byte]
BestFirst(n, st) == \A s \in Strings(n) : genFunc(st, s) <= genFunc(st, 0)
LastOp == {"create", "init", "calc", "cross", "select", "mut", "failed"}
GenalgInv ==
  /\ StoreOK(genPar, store) /\ scores \in [1..genPar -> Nat]
  /\ sorted \in BOOLEAN /\ gaLast \in LastOp /\ opsLeft \in 0..MaxOps
  /\ sorted => BestFirst(genPar, store)
------------------------------------------------------------------------------
(* Naturals *)

\* Places in rows of b.
LEMMA Rows ==
  ASSUME NEW b \in Nat \ {0}, NEW s \in Nat, NEW q \in 0..b - 1
  PROVE  (s * b + q) \div b = s /\ (s * b + q) % b = q
OBVIOUS

LEMMA RowOf ==
  ASSUME NEW b \in Nat \ {0}, NEW k \in Nat
  PROVE  /\ k \div b \in Nat /\ k % b \in 0..b - 1 /\ k = (k \div b) * b + (k % b)
OBVIOUS

LEMMA RowFits ==
  ASSUME NEW b \in Nat \ {0}, NEW n \in Nat, NEW s \in 0..n - 1, NEW q \in 1..b
  PROVE  s * b + q \in 1..n * b
<1>1. (s + 1) * b <= n * b
  OBVIOUS
<1>2. (s + 1) * b = s * b + b /\ s * b \in Nat /\ n * b \in Nat
  OBVIOUS
<1> QED
  BY <1>1, <1>2
------------------------------------------------------------------------------
(* Bits and cells *)

LEMMA SizeLemma ==
  /\ GenLen \in Nat \ {0} /\ InitPar \in Nat \ {0} /\ Cpus \in Nat \ {0} /\ MaxPar \in Nat \ {0}
  /\ MaxOps \in Nat \ {0} /\ InitPar <= MaxPar
  /\ <<bitsPerGP, PerCell, Radix>> \in {<<1, 8, 2>>, <<2, 4, 4>>, <<4, 2, 16>>, <<8, 1, 256>>}
  /\ bytesPer \in Nat \ {0}
<1>1. GenLen \in Nat \ {0} /\ InitPar \in Nat \ {0} /\ Cpus \in Nat \ {0} /\ MaxPar \in Nat \ {0} /\ MaxOps \in Nat \ {0} /\ InitPar <= MaxPar
  BY GenalgAssumption
<1>2. GenType \in {"bit1", "bit2", "bit4", "bit8", "int"}
  BY GenalgAssumption
<1>3. <<bitsPerGP, PerCell>> \in {<<1, 8>>, <<2, 4>>, <<4, 2>>, <<8, 1>>}
  BY <1>2 DEF bitsPerGP, PerCell
<1>4. Power2(1) = 2 /\ Power2(2) = 4 /\ Power2(4) = 16 /\ Power2(8) = 256
  BY DEF Power2
<1>5. <<bitsPerGP, PerCell, Radix>> \in {<<1, 8, 2>>, <<2, 4, 4>>, <<4, 2, 16>>, <<8, 1, 256>>}
  BY <1>3, <1>4 DEF Radix
<1>6. bytesPer \in Nat \ {0}
  BY <1>1, <1>3 DEF bytesPer
<1> QED
  BY <1>1, <1>5, <1>6

\* A gene is in its string.
LEMMA CellLemma ==
  ASSUME NEW gp \in Gene
  PROVE  gp \div PerCell \in 0..bytesPer - 1
<1>1. PerCell \in {1, 2, 4, 8} /\ GenLen \in Nat \ {0} /\ gp \in 0..GenLen - 1
  BY SizeLemma DEF Gene
<1> QED
  BY <1>1 DEF bytesPer

LEMMA PlaceLemma ==
  ASSUME NEW n \in Nat, NEW s \in Strings(n), NEW gp \in Gene
  PROVE  CellOf(s, gp) \in 1..n * bytesPer
<1>1. (gp \div PerCell) + 1 \in 1..bytesPer /\ gp \div PerCell \in Nat
  BY CellLemma, SizeLemma
<1>2. s * bytesPer + ((gp \div PerCell) + 1) \in 1..n * bytesPer
  BY <1>1, RowFits, SizeLemma DEF Strings
<1>3. s * bytesPer \in Nat
  BY SizeLemma DEF Strings
<1> QED
  BY <1>1, <1>2, <1>3 DEF CellOf

\* The places a gene of one, two, four or eight bits can have in a byte.
LEMMA ShiftLemma ==
  ASSUME NEW gp \in Gene
  PROVE  <<Radix, Shift(gp)>> \in
           {<<2, 1>>, <<2, 2>>, <<2, 4>>, <<2, 8>>, <<2, 16>>, <<2, 32>>, <<2, 64>>, <<2, 128>>,
            <<4, 1>>, <<4, 4>>, <<4, 16>>, <<4, 64>>, <<16, 1>>, <<16, 16>>, <<256, 1>>}
<1> DEFINE r == gp % PerCell
<1>1. /\ Power2(0) = 1 /\ Power2(1) = 2 /\ Power2(2) = 4 /\ Power2(3) = 8
      /\ Power2(4) = 16 /\ Power2(5) = 32 /\ Power2(6) = 64 /\ Power2(7) = 128
  BY DEF Power2
<1>2. <<bitsPerGP, PerCell, Radix>> \in {<<1, 8, 2>>, <<2, 4, 4>>, <<4, 2, 16>>, <<8, 1, 256>>}
  BY SizeLemma
<1>3. gp \in Nat
  BY SizeLemma DEF Gene
<1>4. r \in 0..PerCell - 1
  BY <1>2, <1>3
<1>5. Shift(gp) = Power2(r * bitsPerGP)
  BY DEF Shift
<1> HIDE DEF r
<1>6. CASE bitsPerGP = 1 /\ PerCell = 8 /\ Radix = 2
  <2>1. r * bitsPerGP \in {0, 1, 2, 3, 4, 5, 6, 7}
    BY <1>4, <1>6
  <2> QED
    BY <1>1, <1>5, <1>6, <2>1
<1>7. CASE bitsPerGP = 2 /\ PerCell = 4 /\ Radix = 4
  <2>1. r * bitsPerGP \in {0, 2, 4, 6}
    BY <1>4, <1>7
  <2> QED
    BY <1>1, <1>5, <1>7, <2>1
<1>8. CASE bitsPerGP = 4 /\ PerCell = 2 /\ Radix = 16
  <2>1. r * bitsPerGP \in {0, 4}
    BY <1>4, <1>8
  <2> QED
    BY <1>1, <1>5, <1>8, <2>1
<1>9. CASE bitsPerGP = 8 /\ PerCell = 1 /\ Radix = 256
  <2>1. r * bitsPerGP = 0
    BY <1>4, <1>9
  <2> QED
    BY <1>1, <1>5, <1>9, <2>1
<1> QED
  BY <1>2, <1>6, <1>7, <1>8, <1>9

\* Writing a gene into a byte gives a byte: its neighbours' bits stay.
GeneFits(radix, shift) ==
  \A x \in Byte, y \in 0..radix - 1 :
    /\ (x \div shift) % radix \in 0..radix - 1
    /\ x + (y - ((x \div shift) % radix)) * shift \in Byte

LEMMA PackLemma ==
  ASSUME NEW gp \in Gene
  PROVE  GeneFits(Radix, Shift(gp))
<1>1. GeneFits(2, 1) /\ GeneFits(2, 2)
  BY DEF GeneFits, Byte
<1>2. GeneFits(2, 4) /\ GeneFits(2, 8)
  BY DEF GeneFits, Byte
<1>3. GeneFits(2, 16) /\ GeneFits(2, 32)
  BY DEF GeneFits, Byte
<1>4. GeneFits(2, 64) /\ GeneFits(2, 128)
  BY DEF GeneFits, Byte
<1>5. GeneFits(4, 1) /\ GeneFits(4, 4)
  BY DEF GeneFits, Byte
<1>6. GeneFits(4, 16) /\ GeneFits(4, 64)
  BY DEF GeneFits, Byte
<1>7. GeneFits(16, 1) /\ GeneFits(16, 16)
  <2>1. GeneFits(16, 1)
    BY DEF GeneFits, Byte
  <2>2. GeneFits(16, 16)
    BY DEF GeneFits, Byte
  <2> QED
    BY <2>1, <2>2
<1>8. GeneFits(256, 1)
  <2>1. ASSUME NEW x \in Byte, NEW y \in 0..256 - 1
        PROVE  (x \div 1) % 256 \in 0..256 - 1 /\ x + (y - ((x \div 1) % 256)) * 1 \in Byte
    <3>1. (x \div 1) % 256 = x
      BY DEF Byte
    <3>2. x \in 0..256 - 1 /\ y \in Byte /\ x + (y - x) * 1 = y
      BY DEF Byte
    <3> QED
      BY <3>1, <3>2
  <2> QED
    BY <2>1 DEF GeneFits
<1> QED
  BY <1>1, <1>2, <1>3, <1>4, <1>5, <1>6, <1>7, <1>8, ShiftLemma

\* A gene's value, and a store with a gene set.
LEMMA GeneLemma ==
  ASSUME NEW n \in Nat, NEW st \in [1..n * bytesPer -> Byte], NEW s \in Strings(n), NEW gp \in Gene
  PROVE  /\ getBitValueRaw(st, s, gp) \in 0..Radix - 1 /\ getBitValueRaw(st, s, gp) \in Nat
         /\ \A v \in 0..Radix - 1 : setBitValueRaw(st, s, gp, v) \in [1..n * bytesPer -> Byte]
<1>1. st[CellOf(s, gp)] \in Byte
  BY PlaceLemma
<1>2. GeneFits(Radix, Shift(gp))
  BY PackLemma
<1>3. getBitValueRaw(st, s, gp) \in 0..Radix - 1
  <2>1. 0 \in 0..Radix - 1
    BY SizeLemma
  <2> QED
    BY <1>1, <1>2, <2>1 DEF GeneFits, getBitValueRaw
<1>4. getBitValueRaw(st, s, gp) \in Nat
  BY <1>3, SizeLemma
<1>5. ASSUME NEW v \in 0..Radix - 1
      PROVE  setBitValueRaw(st, s, gp, v) \in [1..n * bytesPer -> Byte]
  <2>1. st[CellOf(s, gp)] + (v - getBitValueRaw(st, s, gp)) * Shift(gp) \in Byte
    BY <1>1, <1>2 DEF GeneFits, getBitValueRaw
  <2> QED
    BY <2>1 DEF setBitValueRaw
<1> QED
  BY <1>3, <1>4, <1>5

\* The sums genFunc adds up.
Sum(st, s) == CHOOSE sum : sum = [g \in 0..GenLen |-> IF g = 0 THEN 0 ELSE sum[g - 1] + getBitValueRaw(st, s, g - 1)]

LEMMA SumLemma ==
  ASSUME NEW n \in Nat, NEW st \in [1..n * bytesPer -> Byte], NEW s \in Strings(n)
  PROVE  /\ genFunc(st, s) = Sum(st, s)[GenLen]
         /\ Sum(st, s)[0] = 0
         /\ \A g \in 1..GenLen : Sum(st, s)[g] = Sum(st, s)[g - 1] + getBitValueRaw(st, s, g - 1)
<1> DEFINE Is(f) == f = [g \in 0..GenLen |-> IF g = 0 THEN 0 ELSE f[g - 1] + getBitValueRaw(st, s, g - 1)]
           step == [x \in (1..GenLen) \X Nat |-> x[2] + getBitValueRaw(st, s, x[1] - 1)]
<1>1. GenLen \in Nat \ {0}
  BY SizeLemma
<1>2. \A g \in 1..GenLen : g - 1 \in Gene /\ g - 1 \in 0..GenLen
  BY <1>1 DEF Gene
<1>3. step \in [(1..GenLen) \X Nat -> Nat]
  BY <1>2, GeneLemma
<1>4. \A g \in 1..GenLen, x \in Nat : step[<<g, x>>] = x + getBitValueRaw(st, s, g - 1)
  OBVIOUS
<1> HIDE DEF step
<1>5. PICK f \in [0..GenLen -> Nat] : Follows(f, GenLen, 0, step)
  BY <1>1, <1>3, Recursion
<1>6. \A k \in 1..GenLen : f[k] = f[k - 1] + getBitValueRaw(st, s, k - 1)
  BY <1>2, <1>4, <1>5 DEF Follows
<1>7. \A k \in 0..GenLen : k = 0 \/ k \in 1..GenLen
  BY <1>1
<1>8. Is(f)
  BY <1>5, <1>6, <1>7 DEF Follows
<1>9. Is(Sum(st, s))
  BY <1>8 DEF Sum
<1>10. genFunc(st, s) = Sum(st, s)[GenLen]
  BY DEF genFunc, Sum
<1>11. 0 \in 0..GenLen /\ \A g \in 1..GenLen : g \in 0..GenLen /\ g # 0
  BY <1>1
<1> QED
  BY <1>9, <1>10, <1>11

LEMMA FitnessLemma ==
  ASSUME NEW n \in Nat, NEW st \in [1..n * bytesPer -> Byte], NEW s \in Strings(n)
  PROVE  genFunc(st, s) \in Nat
<1> DEFINE T == {g \in Nat : g <= GenLen => Sum(st, s)[g] \in Nat}
<1>1. GenLen \in Nat \ {0}
  BY SizeLemma
<1>2. 0 \in T
  BY SumLemma
<1>3. ASSUME NEW g \in Nat, g \in T PROVE g + 1 \in T
  <2> SUFFICES ASSUME g + 1 <= GenLen PROVE Sum(st, s)[g + 1] \in Nat
    OBVIOUS
  <2>1. Sum(st, s)[g] \in Nat /\ g + 1 \in 1..GenLen /\ (g + 1) - 1 = g /\ g \in Gene
    BY <1>1, <1>3 DEF Gene
  <2>2. Sum(st, s)[g + 1] = Sum(st, s)[g] + getBitValueRaw(st, s, g)
    BY <2>1, SumLemma
  <2> QED
    BY <2>1, <2>2, GeneLemma
<1> HIDE DEF T
<1>4. GenLen \in T
  BY <1>1, <1>2, <1>3, Induction
<1> QED
  BY <1>4, SumLemma DEF T

\* Strings with the same cells are equally fit.
SameCells(st1, s1, st2, s2) == \A q \in 1..bytesPer : st1[s1 * bytesPer + q] = st2[s2 * bytesPer + q]

LEMMA SameFitness ==
  ASSUME NEW n1 \in Nat, NEW st1 \in [1..n1 * bytesPer -> Byte], NEW s1 \in Strings(n1),
         NEW n2 \in Nat, NEW st2 \in [1..n2 * bytesPer -> Byte], NEW s2 \in Strings(n2),
         SameCells(st1, s1, st2, s2)
  PROVE  genFunc(st1, s1) = genFunc(st2, s2)
<1> DEFINE T == {g \in Nat : g <= GenLen => Sum(st1, s1)[g] = Sum(st2, s2)[g]}
<1>1. GenLen \in Nat \ {0}
  BY SizeLemma
<1>2. ASSUME NEW gp \in Gene PROVE getBitValueRaw(st1, s1, gp) = getBitValueRaw(st2, s2, gp)
  <2>1. (gp \div PerCell) + 1 \in 1..bytesPer /\ gp \div PerCell \in Nat
    BY CellLemma, SizeLemma
  <2>2. s1 * bytesPer \in Nat /\ s2 * bytesPer \in Nat
    BY SizeLemma DEF Strings
  <2>3. CellOf(s1, gp) = s1 * bytesPer + ((gp \div PerCell) + 1) /\ CellOf(s2, gp) = s2 * bytesPer + ((gp \div PerCell) + 1)
    BY <2>1, <2>2 DEF CellOf
  <2>4. st1[CellOf(s1, gp)] = st2[CellOf(s2, gp)]
    BY <2>1, <2>3 DEF SameCells
  <2> QED
    BY <2>4 DEF getBitValueRaw
<1>3. 0 \in T
  BY SumLemma
<1>4. ASSUME NEW g \in Nat, g \in T PROVE g + 1 \in T
  <2> SUFFICES ASSUME g + 1 <= GenLen PROVE Sum(st1, s1)[g + 1] = Sum(st2, s2)[g + 1]
    OBVIOUS
  <2>1. Sum(st1, s1)[g] = Sum(st2, s2)[g] /\ g + 1 \in 1..GenLen /\ (g + 1) - 1 = g /\ g \in Gene
    BY <1>1, <1>4 DEF Gene
  <2>2. Sum(st1, s1)[g + 1] = Sum(st1, s1)[g] + getBitValueRaw(st1, s1, g)
    BY <2>1, SumLemma
  <2>3. Sum(st2, s2)[g + 1] = Sum(st2, s2)[g] + getBitValueRaw(st2, s2, g)
    BY <2>1, SumLemma
  <2> QED
    BY <1>2, <2>1, <2>2, <2>3
<1> HIDE DEF T
<1>5. GenLen \in T
  BY <1>1, <1>3, <1>4, Induction
<1> QED
  BY <1>5, SumLemma DEF T
------------------------------------------------------------------------------
(* Children *)

CellsOfOne == [1..bytesPer -> Byte]

LEMMA ZerosLemma ==
  ASSUME NEW n \in Nat
  PROVE  Zeros(n) \in [1..n -> Nat] /\ Zeros(n) \in [1..n -> Byte]
BY DEF Zeros, Byte

\* What Child builds up, gene by gene.
Crossed(old, p1, p2, codist) ==
  CHOOSE child : child =
    [n \in 0..GenLen |->
       IF n = 0 THEN Zeros(bytesPer)
       ELSE LET gp == n - 1 p == IF (gp \div codist) % 2 = 0 THEN p1 ELSE p2
            IN setBitValueRaw(child[n - 1], 0, gp, getBitValueRaw(old, p, gp))]

LEMMA ChildLemma ==
  ASSUME NEW n \in Nat, NEW old \in [1..n * bytesPer -> Byte],
         NEW p1 \in Strings(n), NEW p2 \in Strings(n), NEW codist \in 1..GenLen - 1
  PROVE  Child(old, p1, p2, codist) \in CellsOfOne
<1> DEFINE p(gp) == IF (gp \div codist) % 2 = 0 THEN p1 ELSE p2
           next(x, gp) == setBitValueRaw(x, 0, gp, getBitValueRaw(old, p(gp), gp))
           Is(f) == f = [k \in 0..GenLen |-> IF k = 0 THEN Zeros(bytesPer) ELSE next(f[k - 1], k - 1)]
           step == [x \in (1..GenLen) \X CellsOfOne |-> next(x[2], x[1] - 1)]
           T == {g \in Nat : g <= GenLen => Crossed(old, p1, p2, codist)[g] \in CellsOfOne}
<1>1. GenLen \in Nat \ {0} /\ bytesPer \in Nat \ {0}
  BY SizeLemma
<1>2. ASSUME NEW x \in CellsOfOne, NEW gp \in Gene PROVE next(x, gp) \in CellsOfOne
  <2>1. p(gp) \in Strings(n)
    OBVIOUS
  <2>2. getBitValueRaw(old, p(gp), gp) \in 0..Radix - 1
    BY <2>1, GeneLemma
  <2>3. 1 * bytesPer = bytesPer /\ 0 \in Strings(1) /\ 1 \in Nat
    BY <1>1 DEF Strings
  <2>4. x \in [1..1 * bytesPer -> Byte]
    BY <2>3 DEF CellsOfOne
  <2> HIDE DEF p
  <2>5. setBitValueRaw(x, 0, gp, getBitValueRaw(old, p(gp), gp)) \in [1..1 * bytesPer -> Byte]
    BY <2>2, <2>3, <2>4, GeneLemma
  <2> QED
    BY <2>3, <2>5 DEF CellsOfOne
<1>3. \A g \in 1..GenLen : g - 1 \in Gene /\ g - 1 \in 0..GenLen /\ g \in 0..GenLen /\ g # 0
  BY <1>1 DEF Gene
<1>4. Crossed(old, p1, p2, codist) = CHOOSE f : Is(f)
  BY DEF Crossed
<1>5. Child(old, p1, p2, codist) = Crossed(old, p1, p2, codist)[GenLen]
  BY DEF Child, Crossed
<1> HIDE DEF next
<1>6. step \in [(1..GenLen) \X CellsOfOne -> CellsOfOne]
  BY <1>2, <1>3
<1>7. \A g \in 1..GenLen, x \in CellsOfOne : step[<<g, x>>] = next(x, g - 1)
  OBVIOUS
<1> HIDE DEF step
<1>8. Zeros(bytesPer) \in CellsOfOne
  BY <1>1, ZerosLemma DEF CellsOfOne
<1>9. PICK f \in [0..GenLen -> CellsOfOne] : Follows(f, GenLen, Zeros(bytesPer), step)
  BY <1>1, <1>6, <1>8, Recursion
<1>10. \A k \in 1..GenLen : f[k] = next(f[k - 1], k - 1)
  BY <1>3, <1>7, <1>9 DEF Follows
<1>11. \A k \in 0..GenLen : k = 0 \/ k \in 1..GenLen
  BY <1>1
<1>12. Is(f)
  BY <1>9, <1>10, <1>11 DEF Follows
<1>13. Is(Crossed(old, p1, p2, codist))
  BY <1>4, <1>12
<1>14. 0 \in T
  BY <1>1, <1>8, <1>13
<1>15. ASSUME NEW g \in Nat, g \in T PROVE g + 1 \in T
  <2> SUFFICES ASSUME g + 1 <= GenLen PROVE Crossed(old, p1, p2, codist)[g + 1] \in CellsOfOne
    OBVIOUS
  <2>1. Crossed(old, p1, p2, codist)[g] \in CellsOfOne /\ g + 1 \in 1..GenLen /\ (g + 1) - 1 = g /\ g \in Gene
    BY <1>1, <1>15 DEF Gene
  <2>2. Crossed(old, p1, p2, codist)[g + 1] = next(Crossed(old, p1, p2, codist)[g], g)
    BY <1>3, <1>13, <2>1
  <2> QED
    BY <1>2, <2>1, <2>2
<1> HIDE DEF T
<1>16. GenLen \in T
  BY <1>1, <1>14, <1>15, Induction
<1> QED
  BY <1>1, <1>5, <1>16 DEF T
------------------------------------------------------------------------------
(* Stores of several strings *)

LEMMA StringLemma ==
  ASSUME NEW n \in Nat, NEW st \in [1..n * bytesPer -> Byte], NEW s \in Strings(n)
  PROVE  /\ StringAt(st, s) \in CellsOfOne
         /\ \A q \in 1..bytesPer : StringAt(st, s)[q] = st[s * bytesPer + q]
<1> DEFINE x == s * bytesPer
<1>1. bytesPer \in Nat \ {0} /\ x \in Nat /\ (s + 1) * bytesPer = x + bytesPer /\ n * bytesPer \in Nat
  BY SizeLemma DEF Strings
<1>2. \A q \in 1..bytesPer : x + q \in 1..n * bytesPer
  BY <1>1, RowFits DEF Strings
<1>3. x + bytesPer <= n * bytesPer
  BY <1>1, <1>2
<1>4. StringAt(st, s) = SubSeq(st, x + 1, x + bytesPer)
  BY <1>1 DEF StringAt
<1> HIDE DEF x
<1>5. st \in Seq(Byte) /\ Len(st) = n * bytesPer
  BY <1>1
<1>6. SubSeq(st, x + 1, x + bytesPer) = [q \in 1..bytesPer |-> st[x + q]]
  BY <1>1, <1>3, <1>5
<1>7. [q \in 1..bytesPer |-> st[x + q]] \in CellsOfOne
  BY <1>2 DEF CellsOfOne
<1> QED
  BY <1>4, <1>6, <1>7 DEF x

\* Every string is laid to its place, and nothing else is laid.
LEMMA LaidLemma ==
  ASSUME NEW n \in Nat, NEW strings, \A c \in Strings(n) : strings[c] \in CellsOfOne
  PROVE  /\ Laid(n, strings) \in [1..n * bytesPer -> Byte]
         /\ \A c \in Strings(n), q \in 1..bytesPer : Laid(n, strings)[c * bytesPer + q] = strings[c][q]
<1>1. bytesPer \in Nat \ {0} /\ n * bytesPer \in Nat
  BY SizeLemma
<1>2. ASSUME NEW k \in 1..n * bytesPer
      PROVE  strings[(k - 1) \div bytesPer][((k - 1) % bytesPer) + 1] \in Byte
  <2> DEFINE d == (k - 1) \div bytesPer
             r == (k - 1) % bytesPer
  <2>1. k - 1 \in Nat /\ k - 1 < n * bytesPer
    BY <1>1
  <2>2. d \in Nat /\ r \in 0..bytesPer - 1 /\ k - 1 = d * bytesPer + r
    BY <1>1, <2>1, RowOf
  <2> HIDE DEF d, r
  <2>3. d * bytesPer < n * bytesPer
    BY <1>1, <2>1, <2>2
  <2>4. d < n
    <3> SUFFICES ASSUME n <= d PROVE FALSE
      BY <2>2
    <3>1. n * bytesPer <= d * bytesPer
      BY <1>1, <2>2
    <3> QED
      BY <1>1, <2>2, <2>3, <3>1
  <2>5. d \in Strings(n) /\ r + 1 \in 1..bytesPer
    BY <1>1, <2>2, <2>4 DEF Strings
  <2> QED
    BY <2>5 DEF CellsOfOne, d, r
<1>3. Laid(n, strings) \in [1..n * bytesPer -> Byte]
  BY <1>2 DEF Laid
<1>4. ASSUME NEW c \in Strings(n), NEW q \in 1..bytesPer
      PROVE  Laid(n, strings)[c * bytesPer + q] = strings[c][q]
  <2> DEFINE k == c * bytesPer + q
  <2>1. k \in 1..n * bytesPer
    BY <1>1, RowFits DEF Strings
  <2>2. c * bytesPer \in Nat /\ q - 1 \in 0..bytesPer - 1 /\ c \in Nat
    BY <1>1 DEF Strings
  <2>3. k - 1 = c * bytesPer + (q - 1)
    BY <2>2
  <2>4. (k - 1) \div bytesPer = c /\ (k - 1) % bytesPer = q - 1
    BY <1>1, <2>2, <2>3, Rows
  <2>5. (q - 1) + 1 = q
    OBVIOUS
  <2> HIDE DEF k
  <2>6. Laid(n, strings)[k] = strings[(k - 1) \div bytesPer][((k - 1) % bytesPer) + 1]
    BY <2>1 DEF Laid
  <2> QED
    BY <2>4, <2>5, <2>6 DEF k
<1> QED
  BY <1>3, <1>4

LEMMA AppendLemma ==
  ASSUME NEW n \in Nat, NEW m \in Nat, NEW st \in [1..n * bytesPer -> Byte], NEW new \in [1..m * bytesPer -> Byte]
  PROVE  /\ st \o new \in [1..(n + m) * bytesPer -> Byte]
         /\ \A k \in 1..n * bytesPer : (st \o new)[k] = st[k]
<1>1. bytesPer \in Nat /\ n * bytesPer \in Nat /\ m * bytesPer \in Nat /\ (n + m) * bytesPer = n * bytesPer + m * bytesPer
  BY SizeLemma
<1>2. st \in Seq(Byte) /\ new \in Seq(Byte) /\ Len(st) = n * bytesPer /\ Len(new) = m * bytesPer
  BY <1>1
<1>3. st \o new \in Seq(Byte) /\ Len(st \o new) = n * bytesPer + m * bytesPer
  BY <1>2
<1>4. st \o new \in [1..Len(st \o new) -> Byte]
  <2> DEFINE t == st \o new
  <2>1. t \in Seq(Byte)
    BY <1>3
  <2> HIDE DEF t
  <2>2. t \in [1..Len(t) -> Byte]
    BY <2>1
  <2> QED
    BY <2>2 DEF t
<1>5. \A k \in 1..n * bytesPer : (st \o new)[k] = st[k]
  BY <1>1, <1>2
<1> QED
  BY <1>1, <1>3, <1>4, <1>5
------------------------------------------------------------------------------
(* Workers and the best *)

\* The chunks cover the population, and no worker leaves it.
LEMMA VisitedLemma ==
  ASSUME NEW n \in Nat \ {0}
  PROVE  VisitedStrings(n) = Strings(n)
<1> DEFINE w == IF Cpus < n THEN Cpus ELSE n
           C == (n + w - 1) \div w
           end(k) == IF (k + 1) * C > n THEN n ELSE (k + 1) * C
<1>1. w \in Nat \ {0}
  BY SizeLemma
<1>2. VisitedStrings(n) = UNION {(k * C)..(end(k) - 1) : k \in 0..w - 1}
  BY DEF VisitedStrings, Chunk
<1> HIDE DEF w
<1>3. C \in Nat \ {0} /\ C * w >= n
  BY <1>1
<1> HIDE DEF C
<1>4. ASSUME NEW k \in 0..w - 1, NEW s \in (k * C)..(end(k) - 1) PROVE s \in Strings(n)
  <2>1. k * C \in Nat /\ (k + 1) * C \in Nat
    BY <1>1, <1>3
  <2> QED
    BY <2>1 DEF Strings
<1>5. ASSUME NEW s \in Strings(n) PROVE \E k \in 0..w - 1 : s \in (k * C)..(end(k) - 1)
  <2> DEFINE k == s \div C
  <2>1. s \in Nat /\ s < n
    BY DEF Strings
  <2>2. k \in Nat /\ s % C \in 0..C - 1 /\ s = k * C + (s % C)
    BY <1>3, <2>1, RowOf
  <2> HIDE DEF k
  <2>3. k * C \in Nat /\ (k + 1) * C = k * C + C
    BY <1>3, <2>2
  <2>4. s \in (k * C)..(end(k) - 1)
    BY <1>3, <2>1, <2>2, <2>3
  <2>5. k < w
    <3> SUFFICES ASSUME w <= k PROVE FALSE
      BY <1>1, <2>2
    <3>1. C * w <= C * k
      BY <1>1, <1>3, <2>2
    <3>2. C * k = k * C
      BY <1>3, <2>2
    <3> QED
      BY <1>1, <1>3, <2>1, <2>2, <2>3, <3>1, <3>2
  <2> QED
    BY <1>1, <2>2, <2>4, <2>5
<1> QED
  BY <1>2, <1>4, <1>5

BestOf(n, st) == LET all == {genFunc(st, s) : s \in Strings(n)}
                 IN CHOOSE b \in all : \A x \in all : x <= b

LEMMA BestLemma ==
  ASSUME NEW n \in Nat \ {0}, NEW st \in [1..n * bytesPer -> Byte]
  PROVE  /\ BestOf(n, st) \in Nat
         /\ \E s \in Strings(n) : BestOf(n, st) = genFunc(st, s)
         /\ \A s \in Strings(n) : genFunc(st, s) <= BestOf(n, st)
<1> DEFINE f == [s \in 0..(n - 1) |-> genFunc(st, s)]
           all == {genFunc(st, s) : s \in Strings(n)}
<1>1. n - 1 \in Nat /\ Strings(n) = 0..(n - 1)
  BY DEF Strings
<1>2. f \in [0..(n - 1) -> Nat] /\ \A s \in Strings(n) : f[s] = genFunc(st, s)
  BY <1>1, FitnessLemma
<1> HIDE DEF f
<1>3. PICK m \in 0..(n - 1) : \A k \in 0..(n - 1) : f[k] <= f[m]
  BY <1>1, <1>2, Largest
<1>4. genFunc(st, m) \in all /\ \A x \in all : x <= genFunc(st, m)
  BY <1>1, <1>2, <1>3
<1>5. BestOf(n, st) \in all /\ \A x \in all : x <= BestOf(n, st)
  BY <1>4 DEF BestOf
<1> QED
  BY <1>5, FitnessLemma

\* A store with no worse a string for each string has no worse a best one.
LEMMA KeptLemma ==
  ASSUME NEW n1 \in Nat \ {0}, NEW st1 \in [1..n1 * bytesPer -> Byte],
         NEW n2 \in Nat \ {0}, NEW st2 \in [1..n2 * bytesPer -> Byte],
         \A s1 \in Strings(n1) : \E s2 \in Strings(n2) : genFunc(st1, s1) <= genFunc(st2, s2)
  PROVE  BestOf(n2, st2) >= BestOf(n1, st1)
<1>1. PICK s1 \in Strings(n1) : BestOf(n1, st1) = genFunc(st1, s1)
  BY BestLemma
<1>2. PICK s2 \in Strings(n2) : genFunc(st1, s1) <= genFunc(st2, s2)
  OBVIOUS
<1>3. genFunc(st2, s2) <= BestOf(n2, st2) /\ BestOf(n2, st2) \in Nat
  BY BestLemma
<1>4. genFunc(st1, s1) \in Nat /\ genFunc(st2, s2) \in Nat
  BY FitnessLemma
<1> QED
  BY <1>1, <1>2, <1>3, <1>4
------------------------------------------------------------------------------
(* The invariant *)

Kept == BestOf(genPar', store') >= BestOf(genPar, store)

LEMMA GenalgInitHolds ==
  ASSUME GenalgInit
  PROVE  GenalgInv
<1>1. InitPar \in Nat \ {0} /\ InitPar \in 1..MaxPar /\ bytesPer * InitPar = InitPar * bytesPer /\ bytesPer * InitPar \in Nat
  BY SizeLemma
<1>2. genPar = InitPar /\ store = Zeros(bytesPer * InitPar) /\ scores = Zeros(InitPar)
  BY DEF GenalgInit, GaCreate
<1>3. store \in [1..genPar * bytesPer -> Byte] /\ scores \in [1..genPar -> Nat]
  BY <1>1, <1>2, ZerosLemma
<1>4. StoreOK(genPar, store)
  BY <1>1, <1>2, <1>3 DEF StoreOK
<1>5. sorted = FALSE /\ gaLast \in LastOp /\ opsLeft \in 0..MaxOps
  BY SizeLemma DEF GenalgInit, LastOp
<1> QED
  BY <1>3, <1>4, <1>5 DEF GenalgInv

\* What every step starts from.
LEMMA Populated ==
  ASSUME GenalgInv
  PROVE  /\ genPar \in Nat \ {0} /\ genPar <= MaxPar /\ genPar * bytesPer \in Nat
         /\ store \in [1..genPar * bytesPer -> Byte] /\ Len(store) = genPar * bytesPer
         /\ scores \in [1..genPar -> Nat]
BY SizeLemma DEF GenalgInv, StoreOK

LEMMA InitStep ==
  ASSUME GenalgInv, GaInit
  PROVE  StoreOK(genPar', store') /\ scores' \in [1..genPar' -> Nat]
<1>1. InitCell \subseteq Byte
  BY GenalgAssumption DEF Byte
<1> QED
  BY <1>1, Populated DEF GaInit, GenalgInv, StoreOK

LEMMA MutStep ==
  ASSUME GenalgInv, NEW s, NEW gp \in MutGene, GaMut(s, gp, Radix - 1)
  PROVE  StoreOK(genPar', store') /\ scores' \in [1..genPar' -> Nat]
<1>1. gp \in Gene /\ Radix - 1 \in 0..Radix - 1
  BY GenalgAssumption, SizeLemma DEF Gene
<1>2. s \in Strings(genPar)
  BY Populated, VisitedLemma DEF GaMut
<1>3. store' \in [1..genPar * bytesPer -> Byte]
  BY <1>1, <1>2, Populated, GeneLemma DEF GaMut
<1> QED
  BY <1>3, Populated DEF GaMut, GenalgInv, StoreOK

LEMMA SelectStep ==
  ASSUME GenalgInv, NEW keep, GaSelect(keep)
  PROVE  /\ StoreOK(genPar', store') /\ scores' \in [1..genPar' -> Nat]
         /\ sorted => BestFirst(genPar', store') /\ Kept
<1>1. keep \in 1..genPar /\ genPar' = keep /\ store' = SubSeq(store, 1, keep * bytesPer) /\ scores' = SubSeq(scores, 1, keep)
  BY DEF GaSelect
<1>2. keep \in Nat \ {0} /\ keep <= genPar /\ keep \in 1..MaxPar
  BY <1>1, Populated, SizeLemma
<1>3. keep * bytesPer \in Nat /\ keep * bytesPer <= genPar * bytesPer
  BY <1>2, Populated, SizeLemma
<1>4. store \in Seq(Byte) /\ scores \in Seq(Nat) /\ Len(scores) = genPar
  BY Populated
<1>5. store' = [k \in 1..keep * bytesPer |-> store[k]] /\ scores' = [k \in 1..keep |-> scores[k]]
  BY <1>1, <1>2, <1>3, <1>4, Populated
<1>6. store' \in [1..keep * bytesPer -> Byte] /\ scores' \in [1..keep -> Nat]
  <2>1. \A k \in 1..keep * bytesPer : k \in 1..genPar * bytesPer
    BY <1>3, Populated
  <2>2. \A k \in 1..keep : k \in 1..genPar
    BY <1>2, Populated
  <2>3. (\A k \in 1..keep * bytesPer : store[k] \in Byte) /\ (\A k \in 1..keep : scores[k] \in Nat)
    BY <2>1, <2>2, Populated
  <2> QED
    BY <1>5, <2>3
<1>7. ASSUME NEW s \in Strings(keep) PROVE s \in Strings(genPar) /\ genFunc(store', s) = genFunc(store, s)
  <2>1. s \in Strings(genPar)
    BY <1>2, Populated DEF Strings
  <2>2. \A q \in 1..bytesPer : s * bytesPer + q \in 1..keep * bytesPer
    BY <1>2, RowFits, SizeLemma DEF Strings
  <2>3. SameCells(store', s, store, s)
    BY <1>5, <2>2 DEF SameCells
  <2>4. keep \in Nat /\ genPar \in Nat /\ s \in Strings(keep) /\ store' \in [1..keep * bytesPer -> Byte] /\ store \in [1..genPar * bytesPer -> Byte]
    BY <1>2, <1>6, Populated
  <2>5. genFunc(store', s) = genFunc(store, s)
    BY <2>1, <2>3, <2>4, SameFitness
  <2> QED
    BY <2>1, <2>5
<1>8. ASSUME sorted PROVE BestFirst(keep, store') /\ Kept
  <2>1. 0 \in Strings(keep)
    BY <1>2 DEF Strings
  <2>2. BestFirst(genPar, store)
    BY <1>8 DEF GenalgInv
  <2>3. BestFirst(keep, store')
    BY <1>7, <2>1, <2>2 DEF BestFirst
  <2>4. \A s1 \in Strings(genPar) : genFunc(store, s1) <= genFunc(store', 0)
    BY <1>7, <2>1, <2>2 DEF BestFirst
  <2>5. BestOf(keep, store') >= BestOf(genPar, store)
    BY <1>2, <1>6, <2>1, <2>4, Populated, KeptLemma
  <2> QED
    BY <1>1, <2>3, <2>5 DEF Kept
<1> QED
  BY <1>1, <1>2, <1>6, <1>8 DEF StoreOK

LEMMA StringsGrow ==
  ASSUME NEW n \in Nat, NEW m \in Nat, n <= m
  PROVE  Strings(n) \subseteq Strings(m)
BY DEF Strings

\* A string of a pair, and the other one of the pair.
LEMMA Neighbours ==
  ASSUME NEW n \in Nat, NEW p \in Nat, 2 * p <= n, NEW c \in Strings(2 * p)
  PROVE  /\ c \in Strings(n)
         /\ c % 2 = 0 => c + 1 \in Strings(n)
         /\ c % 2 # 0 => c - 1 \in Strings(n)
<1>1. c \in Nat /\ c < 2 * p
  BY DEF Strings
<1>2. c % 2 = 0 => c + 1 < 2 * p
  BY <1>1
<1>3. c % 2 # 0 => c - 1 \in Nat
  BY <1>1
<1> QED
  BY <1>1, <1>2, <1>3 DEF Strings

LEMMA CrossStep ==
  ASSUME GenalgInv, NEW codist, GaCross(codist)
  PROVE  StoreOK(genPar', store') /\ scores' \in [1..genPar' -> Nat] /\ Kept
<1> DEFINE pairs == genPar \div 2
           children == [c \in Strings(2 * pairs) |->
                          IF pairs = 0 \/ c \div 2 \notin VisitedStrings(pairs) THEN Zeros(bytesPer)
                          ELSE IF c % 2 = 0 THEN Child(store, c, c + 1, codist)
                          ELSE Child(store, c, c - 1, codist)]
<1>1. codist \in 1..GenLen - 1 /\ genPar + 2 * pairs <= MaxPar
  BY DEF GaCross
<1>2. genPar' = genPar + 2 * pairs /\ store' = store \o Laid(2 * pairs, children) /\ scores' = Zeros(genPar')
  BY DEF GaCross
<1>3. pairs \in Nat /\ 2 * pairs \in Nat /\ 2 * pairs <= genPar
  BY Populated
<1>4. ASSUME NEW c \in Strings(2 * pairs) PROVE children[c] \in CellsOfOne
  <2>1. c \in Strings(genPar) /\ (c % 2 = 0 => c + 1 \in Strings(genPar)) /\ (c % 2 # 0 => c - 1 \in Strings(genPar))
    BY <1>3, Neighbours, Populated
  <2>2. c % 2 = 0 => Child(store, c, c + 1, codist) \in CellsOfOne
    BY <1>1, <2>1, ChildLemma, Populated
  <2>3. c % 2 # 0 => Child(store, c, c - 1, codist) \in CellsOfOne
    BY <1>1, <2>1, ChildLemma, Populated
  <2>4. Zeros(bytesPer) \in CellsOfOne
    BY ZerosLemma, SizeLemma DEF CellsOfOne
  <2> QED
    BY <2>2, <2>3, <2>4
<1> HIDE DEF children
<1>5. Laid(2 * pairs, children) \in [1..(2 * pairs) * bytesPer -> Byte]
  BY <1>3, <1>4, LaidLemma
<1> HIDE DEF pairs
<1>6. /\ store' \in [1..(genPar + 2 * pairs) * bytesPer -> Byte]
      /\ \A k \in 1..genPar * bytesPer : store'[k] = store[k]
  <2> DEFINE m == 2 * pairs
             new == Laid(m, children)
  <2>1. genPar \in Nat /\ m \in Nat /\ store \in [1..genPar * bytesPer -> Byte] /\ new \in [1..m * bytesPer -> Byte]
    BY <1>3, <1>5, Populated
  <2>2. store' = store \o new
    BY <1>2
  <2> HIDE DEF m, new
  <2>3. /\ store \o new \in [1..(genPar + m) * bytesPer -> Byte]
        /\ \A k \in 1..genPar * bytesPer : (store \o new)[k] = store[k]
    BY <2>1, AppendLemma
  <2> QED
    BY <2>2, <2>3 DEF m
<1>7. genPar' \in Nat \ {0} /\ genPar <= genPar' /\ genPar' \in 1..MaxPar /\ store' \in [1..genPar' * bytesPer -> Byte]
  <2>1. genPar' \in Nat \ {0} /\ genPar <= genPar' /\ genPar' \in 1..MaxPar
    BY <1>1, <1>2, <1>3, Populated, SizeLemma
  <2> QED
    BY <1>2, <1>6, <2>1
<1>8. scores' \in [1..genPar' -> Nat]
  BY <1>2, <1>7, ZerosLemma
<1>9. ASSUME NEW s \in Strings(genPar) PROVE s \in Strings(genPar') /\ genFunc(store, s) <= genFunc(store', s)
  <2>1. s \in Strings(genPar')
    BY <1>7, StringsGrow, Populated
  <2>2. \A q \in 1..bytesPer : s * bytesPer + q \in 1..genPar * bytesPer
    BY RowFits, SizeLemma, Populated DEF Strings
  <2>3. SameCells(store, s, store', s)
    BY <1>6, <2>2 DEF SameCells
  <2>4. genPar \in Nat /\ genPar' \in Nat /\ store \in [1..genPar * bytesPer -> Byte] /\ store' \in [1..genPar' * bytesPer -> Byte]
    BY <1>7, Populated
  <2>5. genFunc(store, s) = genFunc(store', s)
    BY <2>1, <2>3, <2>4, SameFitness
  <2>6. genFunc(store, s) \in Nat
    BY FitnessLemma, Populated
  <2> QED
    BY <2>1, <2>5, <2>6
<1>10. Kept
  BY <1>7, <1>9, Populated, KeptLemma DEF Kept
<1> QED
  BY <1>7, <1>8, <1>10 DEF StoreOK

LEMMA CalcStep ==
  ASSUME GenalgInv, GaCalc
  PROVE  StoreOK(genPar', store') /\ scores' \in [1..genPar' -> Nat] /\ BestFirst(genPar', store') /\ Kept
<1> DEFINE all == Scored
           list(order) == [i \in 1..genPar |-> all[order[i]]]
<1>1. PICK order \in [1..genPar -> Strings(genPar)] :
        /\ IsInjective(order)
        /\ \A i, j \in 1..genPar : i < j => list(order)[i].score >= list(order)[j].score
        /\ GaCalcSorts(list(order))
  BY DEF GaCalc
<1>2. \A s \in Strings(genPar) : all[s] = [score |-> genFunc(store, s), idx |-> s]
  BY Populated, VisitedLemma DEF Scored
<1> HIDE DEF all
<1> DEFINE sortedList == list(order)
<1>3. ASSUME NEW i \in 1..genPar
      PROVE  order[i] \in Strings(genPar) /\ sortedList[i].score = genFunc(store, order[i]) /\ sortedList[i].idx = order[i]
  <2>1. order[i] \in Strings(genPar) /\ sortedList[i] = all[order[i]]
    OBVIOUS
  <2>2. all[order[i]] = [score |-> genFunc(store, order[i]), idx |-> order[i]]
    BY <1>2, <2>1
  <2> QED
    BY <2>1, <2>2
<1>4. /\ \A i, j \in 1..genPar : i < j => sortedList[i].score >= sortedList[j].score
      /\ GaCalcSorts(sortedList)
  BY <1>1
<1> HIDE DEF sortedList, list
<1> DEFINE strings == [s \in Strings(genPar) |-> StringAt(store, sortedList[s + 1].idx)]
<1>5. genPar' = genPar /\ store' = Laid(genPar, strings) /\ scores' = [i \in 1..genPar |-> sortedList[i].score]
  BY <1>4 DEF GaCalcSorts
<1>6. ASSUME NEW s \in Strings(genPar)
      PROVE  s + 1 \in 1..genPar /\ order[s + 1] \in Strings(genPar) /\ strings[s] = StringAt(store, order[s + 1])
  <2>1. s + 1 \in 1..genPar
    BY Populated DEF Strings
  <2>2. sortedList[s + 1].idx = order[s + 1] /\ order[s + 1] \in Strings(genPar)
    BY <1>3, <2>1
  <2> QED
    BY <2>1, <2>2
<1> HIDE DEF strings
<1>7. ASSUME NEW s \in Strings(genPar)
      PROVE  /\ order[s + 1] \in Strings(genPar) /\ strings[s] \in CellsOfOne
             /\ \A q \in 1..bytesPer : strings[s][q] = store[order[s + 1] * bytesPer + q]
  <2>1. order[s + 1] \in Strings(genPar) /\ strings[s] = StringAt(store, order[s + 1])
    BY <1>6
  <2>2. genPar \in Nat /\ store \in [1..genPar * bytesPer -> Byte]
    BY Populated
  <2>3. /\ StringAt(store, order[s + 1]) \in CellsOfOne
        /\ \A q \in 1..bytesPer : StringAt(store, order[s + 1])[q] = store[order[s + 1] * bytesPer + q]
    BY <2>1, <2>2, StringLemma
  <2> QED
    BY <2>1, <2>3
<1>8. /\ store' \in [1..genPar * bytesPer -> Byte]
      /\ \A s \in Strings(genPar), q \in 1..bytesPer : store'[s * bytesPer + q] = strings[s][q]
  BY <1>5, <1>7, LaidLemma, Populated
<1>9. ASSUME NEW s \in Strings(genPar) PROVE genFunc(store', s) = genFunc(store, order[s + 1])
  <2>1. SameCells(store', s, store, order[s + 1])
    BY <1>7, <1>8 DEF SameCells
  <2>2. genPar \in Nat /\ store' \in [1..genPar * bytesPer -> Byte] /\ store \in [1..genPar * bytesPer -> Byte] /\ order[s + 1] \in Strings(genPar)
    BY <1>7, <1>8, Populated
  <2> QED
    BY <2>1, <2>2, SameFitness
<1>10. scores' \in [1..genPar -> Nat]
  <2>1. ASSUME NEW i \in 1..genPar PROVE sortedList[i].score \in Nat
    <3>1. sortedList[i].score = genFunc(store, order[i]) /\ order[i] \in Strings(genPar)
      BY <1>3
    <3> QED
      BY <3>1, FitnessLemma, Populated
  <2> QED
    BY <1>5, <2>1
<1>11. BestFirst(genPar, store')
  <2>1. 0 \in Strings(genPar) /\ 0 + 1 = 1
    BY Populated DEF Strings
  <2> SUFFICES ASSUME NEW s \in Strings(genPar) PROVE genFunc(store', s) <= genFunc(store', 0)
    BY DEF BestFirst
  <2>2. genFunc(store', s) = genFunc(store, order[s + 1]) /\ genFunc(store', 0) = genFunc(store, order[1])
    BY <1>9, <2>1
  <2>3. genFunc(store', s) \in Nat /\ genFunc(store', 0) \in Nat
    BY <1>8, <2>1, FitnessLemma, Populated
  <2>4. CASE s = 0
    BY <2>3, <2>4
  <2>5. CASE s # 0
    <3>1. 1 \in 1..genPar /\ s + 1 \in 1..genPar /\ 1 < s + 1
      BY <2>5, Populated DEF Strings
    <3>2. sortedList[1].score >= sortedList[s + 1].score
      BY <1>4, <3>1
    <3>3. sortedList[1].score = genFunc(store, order[1]) /\ sortedList[s + 1].score = genFunc(store, order[s + 1])
      BY <1>3, <3>1
    <3> QED
      BY <2>2, <2>3, <3>2, <3>3
  <2> QED
    BY <2>4, <2>5
<1>12. ASSUME NEW t \in Strings(genPar) PROVE \E s \in Strings(genPar) : genFunc(store, t) <= genFunc(store', s)
  <2>1. IsFiniteSet(1..genPar) /\ Cardinality(1..genPar) = genPar
    BY FS_Interval, Populated
  <2>2. IsFiniteSet(Strings(genPar)) /\ Cardinality(Strings(genPar)) = genPar
    BY FS_Interval, Populated DEF Strings
  <2>3. order \in Surjection(1..genPar, Strings(genPar))
    <3>1. order \in Injection(1..genPar, Strings(genPar))
      BY <1>1 DEF Injection
    <3> QED
      BY <2>1, <2>2, <3>1, FS_Injection
  <2>4. PICK i \in 1..genPar : order[i] = t
    BY <2>3 DEF Surjection
  <2>5. i - 1 \in Strings(genPar) /\ (i - 1) + 1 = i
    BY Populated DEF Strings
  <2>6. genFunc(store', i - 1) = genFunc(store, t)
    BY <1>9, <2>4, <2>5
  <2>7. genFunc(store, t) \in Nat
    BY FitnessLemma, Populated
  <2> QED
    BY <2>5, <2>6, <2>7
<1>13. Kept
  BY <1>5, <1>8, <1>12, Populated, KeptLemma DEF Kept
<1> QED
  BY <1>5, <1>8, <1>10, <1>11, <1>13 DEF StoreOK, GenalgInv

LEMMA StepLemma ==
  ASSUME GenalgInv, [GenalgNext]_gaVars
  PROVE  GenalgInv' /\ (Kept \/ gaLast' \in {"init", "mut"} \/ (gaLast' = "select" /\ ~sorted))
<1>1. CASE UNCHANGED gaVars
  <2>1. genPar' = genPar /\ store' = store
    BY <1>1 DEF gaVars
  <2>2. GenalgInv'
    BY <1>1 DEF gaVars, GenalgInv, StoreOK, BestFirst, LastOp
  <2>3. BestOf(genPar, store) \in Nat
    BY Populated, BestLemma
  <2>4. Kept
    BY <2>1, <2>3 DEF Kept
  <2> QED
    BY <2>2, <2>4
<1>2. ASSUME GenalgNext PROVE opsLeft' \in 0..MaxOps
  BY <1>2, SizeLemma DEF GenalgNext, GenalgInv
<1>3. ASSUME GenalgNext, GaInit
      PROVE  GenalgInv' /\ gaLast' = "init"
  <2>1. sorted' = FALSE /\ gaLast' = "init"
    BY <1>3 DEF GaInit
  <2> QED
    BY <1>2, <1>3, <2>1, InitStep DEF GenalgInv, LastOp
<1>4. ASSUME GenalgNext, GaCalc
      PROVE  GenalgInv' /\ Kept
  <2>1. sorted' = TRUE /\ gaLast' = "calc"
    BY <1>4 DEF GaCalc, GaCalcSorts
  <2> QED
    BY <1>2, <1>4, <2>1, CalcStep DEF GenalgInv, LastOp
<1>5. ASSUME GenalgNext, NEW d \in 1..GenLen - 1, GaCross(d)
      PROVE  GenalgInv' /\ Kept
  <2>1. sorted' = FALSE /\ gaLast' \in {"cross", "failed"}
    BY <1>5 DEF GaCross
  <2> QED
    BY <1>2, <1>5, <2>1, CrossStep DEF GenalgInv, LastOp
<1>6. ASSUME GenalgNext, NEW keep \in 1..MaxPar, GaSelect(keep)
      PROVE  GenalgInv' /\ gaLast' = "select" /\ (sorted => Kept)
  <2>1. sorted' = sorted /\ gaLast' = "select" /\ sorted \in BOOLEAN
    BY <1>6 DEF GaSelect, GenalgInv
  <2> QED
    BY <1>2, <1>6, <2>1, SelectStep DEF GenalgInv, LastOp
<1>7. ASSUME GenalgNext, NEW s \in Strings(MaxPar), NEW gp \in MutGene, GaMut(s, gp, Radix - 1)
      PROVE  GenalgInv' /\ gaLast' = "mut"
  <2>1. sorted' = FALSE /\ gaLast' = "mut"
    BY <1>7 DEF GaMut
  <2> QED
    BY <1>2, <1>7, <2>1, MutStep DEF GenalgInv, LastOp
<1> QED
  BY <1>1, <1>3, <1>4, <1>5, <1>6, <1>7 DEF GenalgNext
------------------------------------------------------------------------------
(* The theorems *)

LEMMA GenalgCorrect ==
  GenalgSpec => []GenalgInv
<1>1. GenalgInit => GenalgInv
  BY GenalgInitHolds
<1>2. GenalgInv /\ [GenalgNext]_gaVars => GenalgInv'
  BY StepLemma
<1> QED
  BY <1>1, <1>2, PTL DEF GenalgSpec

\* Type correctness: no gene overflows its byte, and the store has the cells
\* of its strings, no more and no fewer, after every operation (setBitValueRaw,
\* GaCross, GaCalc, GaSelect).
THEOREM GenalgTypeCorrect == GenalgSpec => []GenalgTypeOK
<1>1. GenalgInv => GenalgTypeOK
  <2> SUFFICES ASSUME GenalgInv PROVE GenalgTypeOK
    OBVIOUS
  <2>1. genPar \in 1..MaxPar /\ Len(scores) = genPar /\ Len(store) = genPar * bytesPer
    BY Populated, SizeLemma
  <2>2. DOMAIN store = 1..genPar * bytesPer /\ \A i \in DOMAIN store : store[i] \in 0..255
    BY Populated DEF Byte
  <2> QED
    BY <2>1, <2>2 DEF GenalgInv, LastOp, GenalgTypeOK
<1> QED
  BY <1>1, GenalgCorrect, PTL

\* Elitism, for all gene types and string lengths, populations, numbers of
\* processors, fitnesses and orders of equals: crossing, calculating and, on
\* calculated strings, selecting never lose the best string (GaCross, GaCalc,
\* GaSelect).
THEOREM BestIsKeptTheorem == GenalgSpec => BestIsKept
<1>1. GenalgInv /\ [GenalgNext]_gaVars
      => [Best' >= Best \/ gaLast' \in {"init", "mut"} \/ (gaLast' = "select" /\ ~sorted)]_gaVars
  <2>1. Best' = BestOf(genPar', store') /\ Best = BestOf(genPar, store)
    BY DEF Best, BestOf
  <2> QED
    BY <2>1, StepLemma DEF Kept
<1> QED
  BY <1>1, GenalgCorrect, PTL DEF GenalgSpec, BestIsKept
=============================================================================
