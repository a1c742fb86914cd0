------------------------------ MODULE Unwind_proofs ------------------------------
(****************************************************************************)
(* Proofs about non-local exits and unwinding.  What an exit will meet is   *)
(* settled by the frames under it when it is raised, and a frame's kind and *)
(* name never change; what a sequence of frames still owes is a fold, so    *)
(* its laws are proved by an induction over the naturals.                   *)
(****************************************************************************)
EXTENDS Unwind, SequenceTheorems, NumberLemmas

\* The frames among the first k of s that stop exit o before a load wraps it.
Stops(f, o) == f.name = o.name /\ <<f.kind, o.kind>> \in Stopping
Hits(o, s, k) == {i \in 1..k : Stops(s[i], o) /\ \A j \in (i + 1)..k : s[j].kind # "load"}

\* Exit o, about to meet frame k of s, was raised with the last of them as its
\* target.
Aimed(o, s, k) ==
  o.kind \in Exit =>
    IF o.wrapped THEN o.dyn = 0
    ELSE \/ o.dyn = 0 /\ Hits(o, s, k) = {}
         \/ o.dyn \in Hits(o, s, k) /\ \A i \in Hits(o, s, k) : i <= o.dyn

\* Frame f, at place i of s.
FrameInv(f, s, i) ==
  /\ f.up < i /\ f.depth <= i
  /\ f.phase = "handler" => f.kind = "trap" /\ f.saved.kind = "error"
  /\ f.kind = "protect" /\ f.phase = "body" => f.left > 0
  /\ f.kind # "protect" => f.left = 0
  /\ f.phase = "cleanup" =>
       f.kind = "protect" /\ f.saved.kind # "running" /\ Aimed(f.saved, s, i - 1)
StackInv(s) ==
  s \in Seq(Frames) /\ Len(s) <= MaxFrames /\ \A i \in 1..Len(s) : FrameInv(s[i], s, i)
OutInv ==
  /\ out \in Outcomes /\ cancelled \in BOOLEAN
  /\ out.kind = "running" => out = Running
  /\ Aimed(out, stack, Len(stack))
UnwindInv == StackInv(stack) /\ OutInv /\ owed = Owing(stack)
------------------------------------------------------------------------------
(* Naturals and folds *)

LEMMA LastOf ==
  ASSUME NEW n \in Nat, NEW F \in SUBSET (1..n), F # {}
  PROVE  \E i \in F : \A j \in F : j <= i
<1> DEFINE T == {m \in Nat : \A G \in SUBSET (1..m) : G # {} => \E i \in G : \A j \in G : j <= i}
<1>1. 0 \in T
  <2>1. 1..0 = {}
    OBVIOUS
  <2> QED
    BY <2>1
<1>2. ASSUME NEW m \in Nat, m \in T PROVE m + 1 \in T
  <2> SUFFICES ASSUME NEW G \in SUBSET (1..(m + 1)), G # {} PROVE \E i \in G : \A j \in G : j <= i
    OBVIOUS
  <2>1. CASE m + 1 \in G
    BY <2>1
  <2>2. CASE m + 1 \notin G
    <3>1. G \in SUBSET (1..m)
      BY <2>2
    <3> QED
      BY <1>2, <3>1
  <2> QED
    BY <2>1, <2>2
<1> HIDE DEF T
<1>3. n \in T
  BY <1>1, <1>2, Induction
<1> QED
  BY <1>3 DEF T

\* g folds the sequence seq as FoldLeft does in Owing.
Summing(seq, g) ==
  g = [s \in SUBSET (DOMAIN seq) |->
         IF s = {} THEN 0 ELSE g[s \ {Max(s)}] + seq[Max(s)].left]

LEMMA OwingDef ==
  ASSUME NEW seq
  PROVE Owing(seq) = (CHOOSE g : Summing(seq, g))[DOMAIN seq]
BY DEF Owing, FoldLeft, MapThenFoldSet, Summing

LEMMA MaxOf ==
  ASSUME NEW n \in Nat, NEW F \in SUBSET (1..n), F # {}
  PROVE  Max(F) \in F /\ \A j \in F : j <= Max(F)
<1>1. Max(F) = CHOOSE i \in F : \A j \in F : i >= j
  BY DEF Max
<1>2. PICK i \in F : \A j \in F : j <= i
  BY LastOf
<1>3. \A j \in F : i >= j
  BY <1>2
<1> QED
  BY <1>1, <1>3

LEMMA SummingExists ==
  ASSUME NEW seq, NEW m \in Nat, DOMAIN seq = 1..m
  PROVE  \E g : Summing(seq, g)
<1> DEFINE Step(g, s) == IF s = {} THEN 0 ELSE g[s \ {Max(s)}] + seq[Max(s)].left
           T == {n \in Nat : \E g : g = [s \in SUBSET (1..n) |-> Step(g, s)]}
<1>1. 0 \in T
  <2> DEFINE g == [s \in SUBSET (1..0) |-> 0]
  <2>1. \A s \in SUBSET (1..0) : s = {}
    OBVIOUS
  <2>2. g = [s \in SUBSET (1..0) |-> Step(g, s)]
    BY <2>1
  <2> QED
    BY <2>2
<1>2. ASSUME NEW n \in Nat, n \in T PROVE n + 1 \in T
  <2>1. PICK g : g = [s \in SUBSET (1..n) |-> Step(g, s)]
    BY <1>2
  <2> DEFINE h == [s \in SUBSET (1..(n + 1)) |->
                     IF n + 1 \in s THEN g[s \ {n + 1}] + seq[n + 1].left ELSE g[s]]
  <2>2. ASSUME NEW s \in SUBSET (1..(n + 1)) PROVE h[s] = Step(h, s)
    <3>1. CASE s = {}
      BY <2>1, <3>1
    <3>2. CASE n + 1 \in s
      <4>1. Max(s) \in s /\ \A j \in s : j <= Max(s)
        <5>1. n + 1 \in Nat /\ s # {}
          BY <3>2
        <5> QED
          BY <5>1, MaxOf
      <4>5. Max(s) = n + 1
        <5>1. Max(s) \in 1..(n + 1) /\ n + 1 <= Max(s)
          BY <3>2, <4>1
        <5> QED
          BY <5>1
      <4>2. s \ {n + 1} \in SUBSET (1..n) /\ s \ {n + 1} \in SUBSET (1..(n + 1))
        OBVIOUS
      <4>3. h[s \ {n + 1}] = g[s \ {n + 1}]
        BY <4>2
      <4> QED
        BY <3>2, <4>3, <4>5
    <3>3. CASE n + 1 \notin s /\ s # {}
      <4>1. s \in SUBSET (1..n)
        BY <3>3
      <4>2. Max(s) \in s
        <5>1. n + 1 \in Nat /\ s # {}
          BY <3>3
        <5> QED
          BY <5>1, MaxOf
      <4>3. s \ {Max(s)} \in SUBSET (1..n) /\ n + 1 \notin s \ {Max(s)}
            /\ s \ {Max(s)} \in SUBSET (1..(n + 1))
        BY <3>3, <4>1
      <4>4. h[s \ {Max(s)}] = g[s \ {Max(s)}] /\ h[s] = g[s]
        BY <3>3, <4>1, <4>3
      <4>5. g[s] = g[s \ {Max(s)}] + seq[Max(s)].left
        BY <2>1, <3>3, <4>1
      <4> QED
        BY <3>3, <4>4, <4>5
    <3> QED
      BY <3>1, <3>2, <3>3
  <2>3. h = [s \in SUBSET (1..(n + 1)) |-> Step(h, s)]
    <3> HIDE DEF Step
    <3> QED
      BY <2>2
  <2> HIDE DEF h, Step
  <2> QED
    BY <2>3
<1>3. m \in T
  <2> HIDE DEF T
  <2> QED
    BY <1>1, <1>2, Induction
<1> QED
  BY <1>3 DEF Summing

LEMMA SummingAgree ==
  ASSUME NEW s, NEW m \in Nat, DOMAIN s = 1..m, NEW t, NEW k \in Nat, DOMAIN t = 1..k,
         NEW g, Summing(s, g), NEW h, Summing(t, h),
         NEW n \in Nat, n <= m, n <= k, \A i \in 1..n : s[i].left = t[i].left
  PROVE  \A G \in SUBSET (1..n) : g[G] = h[G]
<1> DEFINE T == {j \in Nat : j <= n => \A G \in SUBSET (1..j) : g[G] = h[G]}
<1>1. ASSUME NEW G \in SUBSET (1..n)
      PROVE  /\ g[G] = IF G = {} THEN 0 ELSE g[G \ {Max(G)}] + s[Max(G)].left
             /\ h[G] = IF G = {} THEN 0 ELSE h[G \ {Max(G)}] + t[Max(G)].left
  <2>1. G \in SUBSET (1..m) /\ G \in SUBSET (1..k)
    OBVIOUS
  <2> QED
    BY <2>1 DEF Summing
<1>2. 0 \in T
  <2>1. \A G \in SUBSET (1..0) : G = {} /\ G \in SUBSET (1..n)
    OBVIOUS
  <2> QED
    BY <1>1, <2>1
<1>3. ASSUME NEW j \in Nat, j \in T PROVE j + 1 \in T
  <2>. j + 1 \in Nat /\ (j <= n => \A G \in SUBSET (1..j) : g[G] = h[G])
    BY <1>3
  <2> SUFFICES j + 1 <= n => \A G \in SUBSET (1..(j + 1)) : g[G] = h[G]
    OBVIOUS
  <2> HIDE DEF T
  <2> SUFFICES ASSUME j + 1 <= n, NEW G \in SUBSET (1..(j + 1)) PROVE g[G] = h[G]
    OBVIOUS
  <2>1. G \in SUBSET (1..n) /\ j <= n
    OBVIOUS
  <2>2. CASE G = {}
    BY <1>1, <2>1, <2>2
  <2>3. CASE G # {}
    <3>1. Max(G) \in G /\ \A i \in G : i <= Max(G)
      <4>1. j + 1 \in Nat
        OBVIOUS
      <4> QED
        BY <2>3, <4>1, MaxOf
    <3>2. G \ {Max(G)} \in SUBSET (1..j)
      <4> SUFFICES ASSUME NEW i \in G, i # Max(G) PROVE i \in 1..j
        OBVIOUS
      <4>1. i \in 1..(j + 1) /\ Max(G) \in 1..(j + 1) /\ i <= Max(G)
        BY <3>1
      <4> QED
        BY <4>1
    <3>3. g[G \ {Max(G)}] = h[G \ {Max(G)}]
      BY <1>3, <2>1, <3>2
    <3>4. Max(G) \in 1..n
      BY <2>1, <3>1
    <3> QED
      BY <1>1, <2>1, <2>3, <3>3, <3>4
  <2> QED
    BY <2>2, <2>3
<1>4. n \in T
  <2> HIDE DEF T
  <2> QED
    BY <1>2, <1>3, Induction
<1> QED
  BY <1>4

LEMMA OwingLemma ==
  /\ Owing(<<>>) = 0
  /\ \A S : \A s \in Seq(S), x \in S : Owing(Append(s, x)) = Owing(s) + x.left
<1>1. Owing(<<>>) = 0
  <2> DEFINE g == CHOOSE g : Summing(<<>>, g)
  <2>1. DOMAIN <<>> = 1..0 /\ DOMAIN <<>> = {}
    OBVIOUS
  <2>2. Summing(<<>>, g)
    BY <2>1, SummingExists
  <2> HIDE DEF g
  <2>3. g[{}] = 0
    BY <2>1, <2>2 DEF Summing
  <2> QED
    BY <2>1, <2>3, OwingDef DEF g
<1>2. ASSUME NEW S, NEW s \in Seq(S), NEW x \in S PROVE Owing(Append(s, x)) = Owing(s) + x.left
  <2> DEFINE n == Len(s)
             t == Append(s, x)
             g == CHOOSE f : Summing(s, f)
             h == CHOOSE f : Summing(t, f)
  <2>1. /\ n \in Nat /\ n + 1 \in Nat /\ DOMAIN s = 1..n /\ DOMAIN t = 1..(n + 1)
        /\ \A i \in 1..n : t[i] = s[i]
        /\ t[n + 1] = x
    OBVIOUS
  <2> HIDE DEF n, t
  <2>2. Summing(s, g) /\ Summing(t, h)
    BY <2>1, SummingExists
  <2>3. Owing(s) = g[1..n] /\ Owing(t) = h[1..(n + 1)]
    BY <2>1, OwingDef
  <2> HIDE DEF g, h
  <2>4. h[1..n] = g[1..n]
    <3>1. \A i \in 1..n : s[i].left = t[i].left
      BY <2>1
    <3>2. \A G \in SUBSET (1..n) : g[G] = h[G]
      <4>1. n <= n /\ n <= n + 1
        BY <2>1
      <4> QED
        BY <2>1, <2>2, <3>1, <4>1, SummingAgree
    <3> QED
      BY <3>2
  <2>. n \in Nat
    BY <2>1
  <2>8. n + 1 \in 1..(n + 1) /\ 1..(n + 1) # {}
    <3>1. n + 1 \in 1..(n + 1)
      OBVIOUS
    <3> QED
      BY <3>1
  <2>5. Max(1..(n + 1)) = n + 1
    <3>1. 1..(n + 1) \in SUBSET (1..(n + 1)) /\ n + 1 \in Nat
      OBVIOUS
    <3>2. Max(1..(n + 1)) \in 1..(n + 1) /\ n + 1 <= Max(1..(n + 1))
      BY <2>8, <3>1, MaxOf
    <3> QED
      BY <3>2
  <2>6. h[1..(n + 1)] = h[(1..(n + 1)) \ {n + 1}] + t[n + 1].left
    <3>1. 1..(n + 1) \in SUBSET (DOMAIN t)
      BY <2>1
    <3> QED
      BY <2>2, <2>5, <2>8, <3>1 DEF Summing
  <2>7. (1..(n + 1)) \ {n + 1} = 1..n
    BY <2>1
  <2> QED
    BY <2>1, <2>3, <2>4, <2>6, <2>7 DEF t
<1> QED
  BY <1>1, <1>2

LEMMA FrontLemma ==
  ASSUME NEW S, NEW s \in Seq(S), s # <<>>
  PROVE  /\ Len(s) \in Nat \ {0} /\ s[Len(s)] \in S
         /\ Front(s) \in Seq(S) /\ Len(Front(s)) = Len(s) - 1
         /\ \A i \in 1..(Len(s) - 1) : Front(s)[i] = s[i]
         /\ s = Append(Front(s), s[Len(s)])
<1>1. Len(s) \in Nat \ {0} /\ s[Len(s)] \in S
  OBVIOUS
<1>2. Front(s) = SubSeq(s, 1, Len(s) - 1)
  BY DEF Front
<1>3. /\ Front(s) \in Seq(S) /\ Len(Front(s)) = Len(s) - 1
      /\ \A i \in 1..(Len(s) - 1) : Front(s)[i] = s[i]
  <2> DEFINE n == Len(s) - 1
  <2>1. n \in Nat /\ n \in Int /\ 1 \in Int /\ \A i \in 1..n : s[i] \in S
    BY <1>1
  <2> HIDE DEF n
  <2>2. /\ SubSeq(s, 1, n) \in Seq(S) /\ Len(SubSeq(s, 1, n)) = IF 1 <= n THEN n - 1 + 1 ELSE 0
        /\ \A i \in 1..(n - 1 + 1) : SubSeq(s, 1, n)[i] = s[1 + i - 1]
    BY <2>1, SubSeqProperties
  <2>3. /\ SubSeq(s, 1, n) \in Seq(S) /\ Len(SubSeq(s, 1, n)) = n
        /\ \A i \in 1..n : SubSeq(s, 1, n)[i] = s[i]
    BY <2>1, <2>2
  <2> QED
    BY <1>2, <2>3 DEF n
<1>4. s = Append(Front(s), s[Len(s)])
  <2> DEFINE t == Append(Front(s), s[Len(s)])
  <2>1. t \in Seq(S) /\ Len(t) = Len(s) /\ \A i \in 1..Len(s) : t[i] = s[i]
    BY <1>1, <1>3
  <2> HIDE DEF t
  <2>2. s = t
    BY <2>1
  <2> QED
    BY <2>2 DEF t
<1> QED
  BY <1>1, <1>3, <1>4

LEMMA OwingIsNat ==
  ASSUME NEW S, \A f \in S : f.left \in Nat, NEW s \in Seq(S)
  PROVE  Owing(s) \in Nat
<1> DEFINE T == {n \in Nat : \A t \in Seq(S) : Len(t) = n => Owing(t) \in Nat}
<1>1. 0 \in T
  <2>1. ASSUME NEW t \in Seq(S), Len(t) = 0 PROVE t = <<>>
    BY <2>1
  <2> QED
    BY <2>1, OwingLemma
<1>2. ASSUME NEW n \in Nat, n \in T PROVE n + 1 \in T
  <2> SUFFICES ASSUME NEW t \in Seq(S), Len(t) = n + 1 PROVE Owing(t) \in Nat
    OBVIOUS
  <2>1. t # <<>>
    OBVIOUS
  <2>2. /\ Front(t) \in Seq(S) /\ Len(Front(t)) = n /\ t[Len(t)] \in S
        /\ t = Append(Front(t), t[Len(t)])
    BY <2>1, FrontLemma
  <2>3. Owing(Front(t)) \in Nat /\ t[Len(t)].left \in Nat
    BY <1>2, <2>2
  <2>4. Owing(t) = Owing(Front(t)) + t[Len(t)].left
    BY <2>2, OwingLemma
  <2> QED
    BY <2>3, <2>4
<1>3. Len(s) \in T
  <2> HIDE DEF T
  <2>1. Len(s) \in Nat
    OBVIOUS
  <2> QED
    BY <1>1, <1>2, <2>1, Induction
<1> QED
  BY <1>3
------------------------------------------------------------------------------
(* Stacks *)

\* What an exit will meet depends on the kinds and names of the frames only.
LEMMA AimedPrefix ==
  ASSUME NEW o, NEW s, NEW t, NEW k \in Nat,
         \A i \in 1..k : s[i].kind = t[i].kind /\ s[i].name = t[i].name
  PROVE  Aimed(o, s, k) <=> Aimed(o, t, k)
<1>1. \A i \in 1..k : Stops(s[i], o) <=> Stops(t[i], o)
  BY DEF Stops
<1>2. \A i \in 1..k : \A j \in (i + 1)..k : s[j].kind = t[j].kind
  OBVIOUS
<1>3. Hits(o, s, k) = Hits(o, t, k)
  BY <1>1, <1>2 DEF Hits
<1> QED
  BY <1>3 DEF Aimed

\* An exit that frame k does not stop is aimed below it; load's wrapping has an
\* exit that no frame stops.
LEMMA AimedBelow ==
  ASSUME NEW o, NEW s, NEW k \in Nat \ {0}, Aimed(o, s, k), o.kind \in Exit,
         s[k].kind # "load", ~Accepts(s[k], o)
  PROVE  Aimed(o, s, k - 1)
<1>1. CASE o.wrapped
  BY <1>1 DEF Aimed
<1>2. CASE ~o.wrapped
  <2>1. ~Stops(s[k], o)
    BY <1>2 DEF Stops, Accepts
  <2>2. Hits(o, s, k - 1) = Hits(o, s, k)
    <3>1. ASSUME NEW i \in 1..k, i # k
          PROVE  (\A j \in (i + 1)..k : s[j].kind # "load")
                    <=> (\A j \in (i + 1)..(k - 1) : s[j].kind # "load")
      OBVIOUS
    <3>2. 1..(k - 1) = (1..k) \ {k}
      OBVIOUS
    <3>3. k \notin Hits(o, s, k)
      BY <2>1 DEF Hits
    <3> QED
      BY <3>1, <3>2, <3>3 DEF Hits
  <2> QED
    BY <1>2, <2>2 DEF Aimed
<1> QED
  BY <1>1, <1>2

LEMMA AimedThroughLoad ==
  ASSUME NEW o, NEW s, NEW k \in Nat \ {0}, Aimed(o, s, k), o.kind \in Exit, s[k].kind = "load"
  PROVE  o.dyn = 0
<1>1. ASSUME NEW i \in Hits(o, s, k) PROVE FALSE
  <2>1. i \in 1..k /\ Stops(s[i], o) /\ \A j \in (i + 1)..k : s[j].kind # "load"
    BY <1>1 DEF Hits
  <2>2. CASE i = k
    BY <2>1, <2>2 DEF Stops, Stopping
  <2>3. CASE i # k
    <3>1. k \in (i + 1)..k
      BY <2>1, <2>3
    <3> QED
      BY <2>1, <3>1
  <2> QED
    BY <2>2, <2>3
<1> QED
  BY <1>1 DEF Aimed

LEMMA PushLemma ==
  ASSUME NEW s, StackInv(s), Len(s) < MaxFrames, NEW f \in Frames, FrameInv(f, s, Len(s) + 1)
  PROVE  /\ StackInv(Append(s, f))
         /\ Append(s, f) # <<>> /\ Len(Append(s, f)) = Len(s) + 1 /\ Append(s, f)[Len(s) + 1] = f
         /\ Owing(Append(s, f)) = Owing(s) + f.left
<1> DEFINE n == Len(s)
           t == Append(s, f)
<1>1. /\ n \in Nat /\ MaxFrames \in Nat /\ t \in Seq(Frames) /\ Len(t) = n + 1 /\ t[n + 1] = f
      /\ \A i \in 1..n : t[i] = s[i]
  BY UnwindAssumption DEF StackInv
<1> HIDE DEF t, n
<1>2. Owing(t) = Owing(s) + f.left
  BY OwingLemma DEF StackInv, t
<1>3. ASSUME NEW i \in 1..(n + 1) PROVE FrameInv(t[i], t, i)
  <2>1. FrameInv(t[i], s, i)
    <3>1. CASE i = n + 1
      BY <1>1, <3>1 DEF n
    <3>2. CASE i # n + 1
      <4>1. i \in 1..n
        BY <1>1, <3>2
      <4> QED
        BY <1>1, <4>1 DEF StackInv, n
    <3> QED
      BY <3>1, <3>2
  <2>2. Aimed(t[i].saved, s, i - 1) => Aimed(t[i].saved, t, i - 1)
    <3>1. i - 1 \in Nat /\ \A j \in 1..(i - 1) : s[j] = t[j]
      BY <1>1
    <3> QED
      BY <3>1, AimedPrefix
  <2> QED
    BY <2>1, <2>2 DEF FrameInv
<1>4. StackInv(t)
  BY <1>1, <1>3 DEF StackInv, n
<1>5. t # <<>>
  BY <1>1
<1> QED
  BY <1>1, <1>2, <1>4, <1>5 DEF t, n

LEMMA PopLemma ==
  ASSUME NEW s, StackInv(s), s # <<>>
  PROVE  /\ StackInv(Front(s)) /\ Len(s) \in Nat \ {0} /\ Len(Front(s)) = Len(s) - 1
         /\ Len(Front(s)) < MaxFrames /\ s[Len(s)] \in Frames
         /\ FrameInv(s[Len(s)], Front(s), Len(s))
         /\ \A i \in 1..(Len(s) - 1) : Front(s)[i] = s[i]
         /\ Owing(s) = Owing(Front(s)) + s[Len(s)].left
<1> DEFINE n == Len(s)
           t == Front(s)
<1>1. s \in Seq(Frames) /\ MaxFrames \in Nat /\ n <= MaxFrames
  BY UnwindAssumption DEF StackInv
<1>2. /\ n \in Nat \ {0} /\ s[n] \in Frames /\ t \in Seq(Frames) /\ Len(t) = n - 1
      /\ \A i \in 1..(n - 1) : t[i] = s[i]
      /\ s = Append(t, s[n])
  BY <1>1, FrontLemma
<1>3. Owing(s) = Owing(t) + s[n].left
  <2> HIDE DEF t, n
  <2>1. Owing(Append(t, s[n])) = Owing(t) + s[n].left
    BY <1>2, OwingLemma
  <2> QED
    BY <1>2, <2>1
<1>4. \A i \in 1..n : FrameInv(s[i], s, i)
  BY DEF StackInv
<1> HIDE DEF t, n
<1>5. ASSUME NEW i \in 1..n PROVE FrameInv(s[i], t, i)
  <2>1. i - 1 \in Nat /\ \A j \in 1..(i - 1) : s[j] = t[j]
    BY <1>2
  <2>2. Aimed(s[i].saved, s, i - 1) <=> Aimed(s[i].saved, t, i - 1)
    BY <2>1, AimedPrefix
  <2> QED
    BY <1>4, <2>2 DEF FrameInv
<1>6. n \in 1..n /\ \A i \in 1..(n - 1) : i \in 1..n
  BY <1>2
<1>7. StackInv(t)
  BY <1>1, <1>2, <1>5, <1>6 DEF StackInv
<1>8. FrameInv(s[n], t, n)
  BY <1>5, <1>6
<1> QED
  BY <1>1, <1>2, <1>3, <1>7, <1>8 DEF n, t
------------------------------------------------------------------------------
(* Steps *)

LEMMA PlainLemma ==
  /\ {Running, Error, Plain("value")} \subseteq Outcomes
  /\ Running.kind = "running" /\ Error.kind = "error" /\ Plain("value").kind = "value"
<1>1. ASSUME NEW k \in {"running", "error", "value"} PROVE Plain(k) \in Outcomes /\ Plain(k).kind = k
  <2>1. Plain(k) = [kind |-> k, name |-> NoName, wrapped |-> FALSE, lex |-> 0, dyn |-> 0]
    BY DEF Plain, Outcome
  <2>2. 0 \in 0..MaxFrames
    BY UnwindAssumption
  <2> QED
    BY <2>1, <2>2 DEF Outcomes
<1> QED
  BY <1>1 DEF Running, Error

\* A value, an error or nothing is aimed at no frame.
LEMMA NotAimed ==
  ASSUME NEW o, o.kind \notin Exit, NEW s, NEW k
  PROVE  Aimed(o, s, k)
BY DEF Aimed

\* A new frame.
LEMMA FrameLeft ==
  ASSUME NEW k, NEW n, NEW up, NEW d, NEW b, NEW m
  PROVE  Frame(k, n, up, d, b, m).left = m
BY DEF Frame

LEMMA FrameLemma ==
  ASSUME UnwindInv, NEW k \in Form \cup {"call", "tailcall", "load"}, NEW n \in Name \cup {NoName},
         NEW up \in 0..Len(stack), NEW d \in 0..(Len(stack) + 1), NEW b, b \in BOOLEAN, NEW m \in 0..MaxForms,
         Len(stack) < MaxFrames, (m # 0) <=> (k = "protect")
  PROVE  /\ Frame(k, n, up, d, b, m) \in Frames
         /\ FrameInv(Frame(k, n, up, d, b, m), stack, Len(stack) + 1)
<1> DEFINE f == Frame(k, n, up, d, b, m)
<1>1. f = [kind |-> k, name |-> n, up |-> up, depth |-> d, blind |-> b,
           phase |-> "body", saved |-> Running, left |-> m, ran |-> ~Check(d, b), missed |-> FALSE]
  BY DEF Frame
<1>2. /\ f.kind = k /\ f.name = n /\ f.up = up /\ f.depth = d /\ f.blind = b
      /\ f.phase = "body" /\ f.saved = Running /\ f.left = m
  BY <1>1
<1>3. (~Check(d, b)) \in BOOLEAN
  OBVIOUS
<1>4. /\ Len(stack) \in Nat /\ MaxFrames \in Nat /\ MaxDepth \in Nat /\ MaxForms \in Nat
  BY UnwindAssumption DEF UnwindInv, StackInv
<1>5. up \in 0..(MaxFrames - 1) /\ d \in 0..(MaxDepth + MaxFrames)
  BY <1>4
<1>6. f \in Frames
  <2> DEFINE r == ~Check(d, b)
  <2> HIDE DEF r
  <2>1. r \in BOOLEAN
    BY <1>3 DEF r
  <2>2. f = [kind |-> k, name |-> n, up |-> up, depth |-> d, blind |-> b,
             phase |-> "body", saved |-> Running, left |-> m, ran |-> r, missed |-> FALSE]
    BY <1>1 DEF r
  <2> HIDE DEF f
  <2> QED
    BY <1>5, <2>1, <2>2, PlainLemma DEF Frames
<1> HIDE DEF f
<1>7. FrameInv(f, stack, Len(stack) + 1)
  BY <1>2, <1>4 DEF FrameInv
<1> QED
  BY <1>2, <1>6, <1>7 DEF f

LEMMA InnermostLemma ==
  ASSUME NEW n \in 0..MaxFrames, NEW F \in SUBSET (1..n)
  PROVE  /\ Innermost(F) \in 0..MaxFrames
         /\ F # {} => Innermost(F) \in F /\ \A j \in F : j <= Innermost(F)
<1>1. n \in Nat /\ MaxFrames \in Nat
  BY UnwindAssumption
<1>2. CASE F = {}
  BY <1>1, <1>2 DEF Innermost
<1>3. CASE F # {}
  <2>1. Innermost(F) = CHOOSE i \in F : \A j \in F : j <= i
    BY <1>3 DEF Innermost
  <2>2. \E i \in F : \A j \in F : j <= i
    BY <1>1, <1>3, LastOf
  <2>3. Innermost(F) \in F /\ \A j \in F : j <= Innermost(F)
    BY <2>1, <2>2
  <2>4. Innermost(F) \in 1..n
    BY <2>3
  <2> QED
    BY <1>1, <2>3, <2>4
<1> QED
  BY <1>2, <1>3

LEMMA OwedIsNat ==
  ASSUME UnwindInv
  PROVE  owed \in Nat
<1>1. \A f \in Frames : f.left \in Nat
  BY UnwindAssumption DEF Frames
<1>2. stack \in Seq(Frames) /\ owed = Owing(stack)
  BY DEF UnwindInv, StackInv
<1> QED
  BY <1>1, <1>2, OwingIsNat

LEMMA EvaluateLemma ==
  ASSUME UnwindInv, NEW s, StackInv(s), Evaluate(s), UNCHANGED cancelled, owed' = Owing(s)
  PROVE  UnwindInv'
<1>1. stack' = s /\ out' \in {Error, Running}
  BY DEF Evaluate
<1>2. out' \in Outcomes /\ out'.kind \notin Exit /\ (out'.kind = "running" => out' = Running)
  BY <1>1, PlainLemma DEF Exit
<1>3. Aimed(out', stack', Len(stack'))
  BY <1>2, NotAimed
<1> QED
  BY <1>1, <1>2, <1>3 DEF UnwindInv, OutInv

\* The innermost frame is left with outcome o.
LEMMA PopStep ==
  ASSUME UnwindInv, stack # <<>>, Top.left = 0, stack' = Below, out' \in Outcomes,
         out'.kind = "running" => out' = Running,
         Aimed(out', stack, Len(stack) - 1), UNCHANGED <<cancelled, owed>>
  PROVE  UnwindInv'
<1>1. /\ StackInv(Below) /\ Len(stack) \in Nat \ {0} /\ Len(Below) = Len(stack) - 1
      /\ \A i \in 1..(Len(stack) - 1) : Below[i] = stack[i]
      /\ Owing(stack) = Owing(Below) + Top.left /\ Top \in Frames
  BY PopLemma DEF UnwindInv, Below, Top
<1>2. Aimed(out', Below, Len(Below))
  <2>1. Len(stack) - 1 \in Nat
    BY <1>1
  <2> QED
    BY <1>1, <2>1, AimedPrefix
<1>3. Owing(Below) = Owing(stack)
  <2>1. \A f \in Frames : f.left \in Nat
    BY UnwindAssumption DEF Frames
  <2>2. Owing(Below) \in Nat
    BY <1>1, <2>1, OwingIsNat DEF StackInv
  <2> QED
    BY <1>1, <2>2
<1> QED
  BY <1>1, <1>2, <1>3 DEF UnwindInv, OutInv

LEMMA LeaveLemma ==
  ASSUME UnwindInv, stack # <<>>, Top.left = 0, NEW o \in Outcomes, o.kind = "running" => o = Running,
         Aimed(o, stack, Len(stack) - 1), Leave(o), UNCHANGED <<cancelled, owed>>
  PROVE  UnwindInv'
<1>1. stack' = Below /\ out' = IF o.kind = "value" THEN Running ELSE o
  BY DEF Leave
<1>2. CASE o.kind = "value"
  <2>1. out' = Running /\ out'.kind \notin Exit
    BY <1>1, <1>2, PlainLemma DEF Exit
  <2> QED
    BY <1>1, <2>1, NotAimed, PlainLemma, PopStep
<1>3. CASE o.kind # "value"
  BY <1>1, <1>3, PopStep
<1> QED
  BY <1>2, <1>3

\* What the innermost frame is known to be.
LEMMA TopLemma ==
  ASSUME UnwindInv, stack # <<>>
  PROVE  /\ Top \in Frames /\ FrameInv(Top, Below, Len(stack)) /\ Len(stack) \in Nat \ {0}
         /\ Aimed(out, stack, Len(stack)) /\ out \in Outcomes
         /\ (Delivered => out.kind # "running")
<1>1. Top \in Frames /\ FrameInv(Top, Below, Len(stack)) /\ Len(stack) \in Nat \ {0}
  BY PopLemma DEF UnwindInv, Top, Below
<1> QED
  BY <1>1 DEF UnwindInv, OutInv, Delivered

LEMMA DepthLemma ==
  ASSUME UnwindInv
  PROVE  Depth \in 0..Len(stack) /\ Blind \in BOOLEAN /\ Len(stack) \in Nat
<1>1. Len(stack) \in Nat
  BY DEF UnwindInv, StackInv
<1>2. CASE stack = <<>>
  <2>1. Depth = 0
    BY <1>2 DEF Depth
  <2>2. Blind \in BOOLEAN
    BY <1>2 DEF Blind
  <2> QED
    BY <1>1, <2>1, <2>2
<1>3. CASE stack # <<>>
  <2>1. Depth = Top.depth /\ Top.depth \in Nat /\ Top.depth <= Len(stack)
    BY <1>3, TopLemma, UnwindAssumption DEF Depth, Frames, FrameInv
  <2>2. Blind = Top.blind /\ Top.blind \in BOOLEAN
    BY <1>3, TopLemma DEF Blind, Frames
  <2> QED
    BY <1>1, <2>1, <2>2
<1> QED
  BY <1>2, <1>3

\* A frame more, in which code is evaluated.
Pushed(f) == StackInv(Append(stack, f)) /\ Owing(Append(stack, f)) = owed + f.left

LEMMA NewFrame ==
  ASSUME UnwindInv, Len(stack) < MaxFrames,
         NEW k \in Form \cup {"call", "tailcall", "load"}, NEW n \in Name \cup {NoName},
         NEW up \in 0..Len(stack), NEW d \in 0..(Len(stack) + 1), NEW b, b \in BOOLEAN, NEW m \in 0..MaxForms,
         (m # 0) <=> (k = "protect")
  PROVE  Pushed(Frame(k, n, up, d, b, m))
<1> DEFINE f == Frame(k, n, up, d, b, m)
<1>1. f \in Frames /\ FrameInv(f, stack, Len(stack) + 1)
  <2>1. UnwindInv /\ Len(stack) < MaxFrames /\ ((m # 0) <=> (k = "protect")) /\ b \in BOOLEAN
    OBVIOUS
  <2>3. k \in Form \cup {"call", "tailcall", "load"} /\ n \in Name \cup {NoName}
        /\ up \in 0..Len(stack) /\ d \in 0..(Len(stack) + 1) /\ m \in 0..MaxForms
    OBVIOUS
  <2>2. Frame(k, n, up, d, b, m) \in Frames
    BY <2>1, <2>3, FrameLemma
  <2>4. FrameInv(Frame(k, n, up, d, b, m), stack, Len(stack) + 1)
    BY <2>1, <2>3, FrameLemma
  <2> QED
    BY <2>2, <2>4
<1> HIDE DEF f
<1>2. StackInv(Append(stack, f)) /\ Owing(Append(stack, f)) = Owing(stack) + f.left
  BY <1>1, PushLemma DEF UnwindInv
<1>3. Owing(stack) = owed
  BY DEF UnwindInv
<1>4. Pushed(f)
  BY <1>2, <1>3 DEF Pushed
<1> QED
  BY <1>4 DEF f

LEMMA EnterStep ==
  ASSUME UnwindInv, Enter
  PROVE  UnwindInv'
<1>1. PICK k \in Form, n \in Name \cup {NoName}, m \in 0..MaxForms :
        /\ (m # 0) <=> (k = "protect")
        /\ Evaluate(Append(stack, Frame(k, n, Len(stack), Depth + 1, Blind, m)))
        /\ owed' = owed + m
  BY DEF Enter
<1>2. Len(stack) < MaxFrames /\ UNCHANGED cancelled
  BY DEF Enter
<1>3. Len(stack) \in 0..Len(stack) /\ Depth + 1 \in 0..(Len(stack) + 1) /\ Blind \in BOOLEAN
  BY DepthLemma
<1>4. /\ StackInv(Append(stack, Frame(k, n, Len(stack), Depth + 1, Blind, m)))
      /\ Owing(Append(stack, Frame(k, n, Len(stack), Depth + 1, Blind, m))) = owed + m
  <2>1. Pushed(Frame(k, n, Len(stack), Depth + 1, Blind, m))
    BY <1>1, <1>2, <1>3, NewFrame
  <2>2. Frame(k, n, Len(stack), Depth + 1, Blind, m).left = m
    BY FrameLeft
  <2> QED
    BY <2>1, <2>2 DEF Pushed
<1> QED
  BY <1>1, <1>2, <1>4, EvaluateLemma

LEMMA LoadStep ==
  ASSUME UnwindInv, Load
  PROVE  UnwindInv'
<1> DEFINE s == Append(stack, Frame("load", NoName, 0, Depth + 1, Blind, 0))
<1>1. Evaluate(s) /\ Len(stack) < MaxFrames /\ UNCHANGED <<cancelled, owed>>
  BY DEF Load
<1>2. /\ 0 \in 0..Len(stack) /\ Depth + 1 \in 0..(Len(stack) + 1) /\ Blind \in BOOLEAN
      /\ 0 \in 0..MaxForms
  BY DepthLemma, UnwindAssumption
<1>3. StackInv(s) /\ Owing(s) = owed + 0
  <2>0. PICK k : k = "load"
    OBVIOUS
  <2>1. k \in Form \cup {"call", "tailcall", "load"} /\ ((0 # 0) <=> (k = "protect"))
    BY <2>0
  <2>2. PICK n : n = NoName
    OBVIOUS
  <2>3. n \in Name \cup {NoName}
    BY <2>2
  <2>4. PICK m : m = 0
    OBVIOUS
  <2>5. m \in 0..MaxForms /\ m \in 0..Len(stack) /\ ((m # 0) <=> (k = "protect"))
    BY <1>2, <2>1, <2>4
  <2>6. Pushed(Frame(k, n, m, Depth + 1, Blind, m))
    BY <1>1, <1>2, <2>1, <2>3, <2>5, NewFrame
  <2>7. Frame(k, n, m, Depth + 1, Blind, m).left = 0
    BY <2>4, FrameLeft
  <2>8. s = Append(stack, Frame(k, n, m, Depth + 1, Blind, m))
    BY <2>0, <2>2, <2>4
  <2> HIDE DEF s
  <2> QED
    BY <2>6, <2>7, <2>8 DEF Pushed
<1>4. owed \in Nat
  BY OwedIsNat
<1> HIDE DEF s
<1> QED
  BY <1>1, <1>3, <1>4, EvaluateLemma

LEMMA CallClosureStep ==
  ASSUME UnwindInv, CallClosure
  PROVE  UnwindInv'
<1>1. Len(stack) < MaxFrames /\ UNCHANGED <<cancelled, owed>>
  BY DEF CallClosure
<1>2. PICK up \in 0..Len(stack) :
        \/ /\ stack' = Append(stack, Frame("tailcall", NoName, up, Depth, Blind, 0))
           /\ UNCHANGED out
        \/ Evaluate(Append(stack, Frame("call", NoName, up, Depth + 1, Blind, 0)))
        \/ Evaluate(Append(stack, Frame("call", NoName, up, 1, TRUE, 0)))
  BY DEF CallClosure
<1>3. /\ Depth \in 0..(Len(stack) + 1) /\ Depth + 1 \in 0..(Len(stack) + 1) /\ Blind \in BOOLEAN
      /\ 1 \in 0..(Len(stack) + 1) /\ 0 \in 0..MaxForms
  BY DepthLemma, UnwindAssumption
<1>4. owed \in Nat
  BY OwedIsNat
<1>5. ASSUME NEW k \in {"call", "tailcall"}, NEW d \in 0..(Len(stack) + 1), NEW b \in BOOLEAN
      PROVE  /\ StackInv(Append(stack, Frame(k, NoName, up, d, b, 0)))
             /\ Owing(Append(stack, Frame(k, NoName, up, d, b, 0))) = owed
  <2>1. /\ k \in Form \cup {"call", "tailcall", "load"} /\ NoName \in Name \cup {NoName}
        /\ (0 # 0) <=> (k = "protect")
    OBVIOUS
  <2>2. Pushed(Frame(k, NoName, up, d, b, 0))
    BY <1>1, <1>3, <2>1, NewFrame
  <2>3. Frame(k, NoName, up, d, b, 0).left = 0
    BY FrameLeft
  <2> QED
    BY <1>4, <2>2, <2>3 DEF Pushed
<1>6. ASSUME NEW d \in 0..(Len(stack) + 1), NEW b \in BOOLEAN,
             Evaluate(Append(stack, Frame("call", NoName, up, d, b, 0)))
      PROVE  UnwindInv'
  BY <1>1, <1>5, <1>6, EvaluateLemma
<1>7. CASE /\ stack' = Append(stack, Frame("tailcall", NoName, up, Depth, Blind, 0))
           /\ UNCHANGED out
  <2>1. StackInv(stack') /\ Owing(stack') = owed
    BY <1>3, <1>5, <1>7
  <2>2. out' \in Outcomes /\ out' = Running /\ out'.kind \notin Exit
    BY <1>7, PlainLemma DEF CallClosure, Exit
  <2>3. Aimed(out', stack', Len(stack'))
    BY <2>2, NotAimed
  <2> QED
    BY <1>1, <2>1, <2>2, <2>3 DEF UnwindInv, OutInv
<1> QED
  BY <1>2, <1>3, <1>6, <1>7

\* An exit is raised.  The nearest frame that stops it is its target.
LEMMA ProduceStep ==
  ASSUME UnwindInv, Produce
  PROVE  UnwindInv'
<1>1. UNCHANGED <<stack, cancelled, owed>>
  BY DEF Produce
<1>2. CASE out' \in {Plain("value"), Error}
  <2>1. out' \in Outcomes /\ out'.kind \notin Exit /\ out'.kind # "running"
    BY <1>2, PlainLemma DEF Exit
  <2> QED
    BY <1>1, <2>1, NotAimed DEF UnwindInv, OutInv
<1>3. ASSUME NEW k \in Exit, NEW n \in Name,
             LET o == Outcome(k, n, 0, 0) IN out' = [o EXCEPT !.lex = LexTarget(o), !.dyn = DynTarget(o)]
      PROVE  UnwindInv'
  <2> DEFINE o == Outcome(k, n, 0, 0)
             lex == LexTarget(o)
             dyn == DynTarget(o)
             D == {i \in Stoppers(o) : \A j \in DOMAIN stack : j > i => stack[j].kind # "load"}
  <2>1. o = [kind |-> k, name |-> n, wrapped |-> FALSE, lex |-> 0, dyn |-> 0]
    BY DEF Outcome
  <2>2. dyn = Innermost(D) /\ lex = Innermost(Stoppers(o) \cap Around[Len(stack)])
    BY DEF LexTarget, DynTarget
  <2>3. out' = [kind |-> k, name |-> n, wrapped |-> FALSE, lex |-> lex, dyn |-> dyn]
    <3> HIDE DEF lex, dyn
    <3> QED
      BY <1>3, <2>1 DEF Outcome, lex, dyn
  <2>4. Len(stack) \in 0..MaxFrames /\ DOMAIN stack = 1..Len(stack)
    BY UnwindAssumption DEF UnwindInv, StackInv
  <2>5. D \in SUBSET (1..Len(stack)) /\ Stoppers(o) \in SUBSET (1..Len(stack))
    BY <2>4 DEF Stoppers
  <2>6. D = Hits(out', stack, Len(stack))
    <3>1. \A i \in 1..Len(stack) : i \in Stoppers(o) <=> Stops(stack[i], out')
      BY <2>1, <2>3, <2>4 DEF Stoppers, Stops
    <3>2. ASSUME NEW i \in 1..Len(stack)
          PROVE  (\A j \in DOMAIN stack : j > i => stack[j].kind # "load")
                   <=> (\A j \in (i + 1)..Len(stack) : stack[j].kind # "load")
      BY <2>4
    <3> QED
      BY <2>5, <3>1, <3>2 DEF Hits
  <2> HIDE DEF D, o
  <2>7. dyn \in 0..MaxFrames /\ lex \in 0..MaxFrames
    BY <2>2, <2>4, <2>5, InnermostLemma
  <2>8. out' \in Outcomes
    <3> HIDE DEF lex, dyn
    <3> QED
      BY <2>3, <2>7 DEF Outcomes
  <2>9. Aimed(out', stack, Len(stack))
    <3>1. D = {} => dyn = 0
      BY <2>2 DEF Innermost
    <3>2. D # {} => dyn \in D /\ \A i \in D : i <= dyn
      BY <2>2, <2>4, <2>5, InnermostLemma
    <3>3. out'.dyn = dyn /\ out'.wrapped = FALSE
      <4> HIDE DEF dyn, lex
      <4> QED
        BY <2>3
    <3> HIDE DEF dyn
    <3> QED
      BY <2>6, <3>1, <3>2, <3>3 DEF Aimed
  <2>10. out'.kind # "running"
    <3> HIDE DEF dyn, lex
    <3> QED
      BY <2>3 DEF Exit
  <2> QED
    BY <1>1, <2>8, <2>9, <2>10 DEF UnwindInv, OutInv
<1> QED
  BY <1>2, <1>3 DEF Produce

\* A frame that does not stop the outcome and is not load's passes it on.
LEMMA PassedOn ==
  ASSUME UnwindInv, stack # <<>>, Top.kind # "load", ~Accepts(Top, out)
  PROVE  Aimed(out, stack, Len(stack) - 1) /\ Aimed(out, Below, Len(stack) - 1)
<1>1. Len(stack) \in Nat \ {0} /\ Aimed(out, stack, Len(stack))
  BY TopLemma
<1>2. Aimed(out, stack, Len(stack) - 1)
  <2>1. CASE out.kind \in Exit
    BY <1>1, <2>1, AimedBelow DEF Top
  <2>2. CASE out.kind \notin Exit
    BY <2>2, NotAimed
  <2> QED
    BY <2>1, <2>2
<1>3. Len(stack) - 1 \in Nat /\ \A i \in 1..(Len(stack) - 1) : Below[i] = stack[i]
  BY <1>1, PopLemma DEF UnwindInv, Below
<1> QED
  BY <1>2, <1>3, AimedPrefix

LEMMA StopsNothing ==
  ASSUME NEW f, f.kind \notin {"block", "catch", "tagbody"}, NEW o
  PROVE  ~Accepts(f, o)
BY DEF Accepts, Stopping

LEMMA LeaveTailCallStep ==
  ASSUME UnwindInv, LeaveTailCall
  PROVE  UnwindInv'
<1>1. /\ stack # <<>> /\ Top.kind = "tailcall" /\ stack' = Below /\ UNCHANGED <<out, cancelled, owed>>
      /\ Delivered
  BY DEF LeaveTailCall, Delivered
<1>2. Top.left = 0 /\ out \in Outcomes /\ out.kind # "running"
  BY <1>1, TopLemma DEF FrameInv
<1>3. Aimed(out, stack, Len(stack) - 1)
  BY <1>1, PassedOn, StopsNothing
<1> QED
  BY <1>1, <1>2, <1>3, PopStep

LEMMA LeaveFrameStep ==
  ASSUME UnwindInv, LeaveFrame
  PROVE  UnwindInv'
<1>1. /\ stack # <<>> /\ Top.kind \in {"block", "catch", "call"} /\ Delivered
      /\ Leave(IF Accepts(Top, out) THEN Plain("value") ELSE out) /\ UNCHANGED <<cancelled, owed>>
  BY DEF LeaveFrame, Delivered
<1>2. Top.left = 0 /\ out \in Outcomes /\ out.kind # "running"
  BY <1>1, TopLemma DEF FrameInv
<1>3. CASE Accepts(Top, out)
  <2>1. Leave(Plain("value")) /\ Plain("value").kind \notin Exit
    BY <1>1, <1>3, PlainLemma DEF Exit
  <2> QED
    BY <1>1, <1>2, <2>1, PlainLemma, NotAimed, LeaveLemma
<1>4. CASE ~Accepts(Top, out)
  <2>1. Leave(out) /\ Aimed(out, stack, Len(stack) - 1)
    BY <1>1, <1>4, PassedOn
  <2> QED
    BY <1>1, <1>2, <2>1, LeaveLemma
<1> QED
  BY <1>3, <1>4

LEMMA LeaveTagbodyStep ==
  ASSUME UnwindInv, LeaveTagbody
  PROVE  UnwindInv'
<1>1. /\ stack # <<>> /\ Top.kind = "tagbody" /\ Delivered /\ UNCHANGED <<cancelled, owed>>
      /\ IF Accepts(Top, out) THEN Evaluate(stack) \/ Leave(Plain("value")) ELSE Leave(out)
  BY DEF LeaveTagbody, Delivered
<1>2. Top.left = 0 /\ out \in Outcomes /\ out.kind # "running"
  BY <1>1, TopLemma DEF FrameInv
<1>3. CASE Accepts(Top, out) /\ Evaluate(stack)
  <2>1. StackInv(stack) /\ owed' = Owing(stack)
    BY <1>1 DEF UnwindInv
  <2> QED
    BY <1>1, <1>3, <2>1, EvaluateLemma
<1>4. CASE Accepts(Top, out) /\ Leave(Plain("value"))
  <2>1. Plain("value").kind \notin Exit
    BY PlainLemma DEF Exit
  <2> QED
    BY <1>1, <1>2, <1>4, <2>1, PlainLemma, NotAimed, LeaveLemma
<1>5. CASE ~Accepts(Top, out)
  <2>1. Leave(out) /\ Aimed(out, stack, Len(stack) - 1)
    BY <1>1, <1>5, PassedOn
  <2> QED
    BY <1>1, <1>2, <2>1, LeaveLemma
<1> QED
  BY <1>1, <1>3, <1>4, <1>5

\* An exit that passes load had no frame to stop it above: it is aimed at none.
LEMMA LeaveLoadStep ==
  ASSUME UnwindInv, LeaveLoad
  PROVE  UnwindInv'
<1> DEFINE o == [out EXCEPT !.wrapped = (out.kind \in Exit)]
<1>1. stack # <<>> /\ Top.kind = "load" /\ Delivered /\ UNCHANGED <<cancelled, owed>> /\ Leave(o)
  BY DEF LeaveLoad, Delivered
<1>2. /\ Top.left = 0 /\ out \in Outcomes /\ out.kind # "running"
      /\ Aimed(out, stack, Len(stack)) /\ Len(stack) \in Nat \ {0}
  BY <1>1, TopLemma DEF FrameInv
<1>3. (out.kind \in Exit) \in BOOLEAN
  OBVIOUS
<1>4. o \in Outcomes /\ o.kind = out.kind /\ o.dyn = out.dyn /\ (o.wrapped <=> out.kind \in Exit)
  BY <1>2, <1>3 DEF Outcomes
<1> HIDE DEF o
<1>5. Aimed(o, stack, Len(stack) - 1)
  <2>1. CASE out.kind \in Exit
    <3>1. out.dyn = 0
      BY <1>1, <1>2, <2>1, AimedThroughLoad DEF Top
    <3> QED
      BY <1>4, <2>1, <3>1 DEF Aimed
  <2>2. CASE out.kind \notin Exit
    BY <1>4, <2>2, NotAimed
  <2> QED
    BY <2>1, <2>2
<1> QED
  BY <1>1, <1>2, <1>4, <1>5, LeaveLemma

\* The innermost frame goes into another phase, where code is evaluated.
LEMMA ReplaceLemma ==
  ASSUME UnwindInv, stack # <<>>, NEW f \in Frames, FrameInv(f, Below, Len(stack)),
         Evaluate(Append(Below, f)), UNCHANGED cancelled,
         owed' = owed - Top.left + f.left
  PROVE  UnwindInv'
<1>1. /\ StackInv(Below) /\ Len(stack) \in Nat \ {0} /\ Len(Below) = Len(stack) - 1
      /\ Len(Below) < MaxFrames /\ Owing(stack) = Owing(Below) + Top.left
  BY PopLemma DEF UnwindInv, Below, Top
<1>2. Len(stack) = Len(Below) + 1
  BY <1>1
<1>3. StackInv(Append(Below, f)) /\ Owing(Append(Below, f)) = Owing(Below) + f.left
  BY <1>1, <1>2, PushLemma
<1>4. owed' = Owing(Below) + f.left
  <2>1. \A g \in Frames : g.left \in Nat
    BY UnwindAssumption DEF Frames
  <2>2. Owing(Below) \in Nat /\ Top.left \in Nat /\ f.left \in Nat
    BY <1>1, <2>1, OwingIsNat, TopLemma DEF StackInv
  <2> QED
    BY <1>1, <2>2 DEF UnwindInv
<1> QED
  BY <1>3, <1>4, EvaluateLemma

LEMMA LeaveTrapStep ==
  ASSUME UnwindInv, LeaveTrap
  PROVE  UnwindInv'
<1>1. /\ stack # <<>> /\ Top.kind = "trap" /\ Delivered /\ UNCHANGED <<cancelled, owed>>
      /\ IF Top.phase = "handler" \/ PassesTrap(out)
         THEN Leave(out)
         ELSE Evaluate(Append(Below, [Top EXCEPT !.phase = "handler", !.saved = out]))
  BY DEF LeaveTrap, Delivered
<1>2. /\ Top.left = 0 /\ out \in Outcomes /\ out.kind # "running" /\ Top \in Frames
      /\ FrameInv(Top, Below, Len(stack))
  BY <1>1, TopLemma DEF FrameInv
<1>3. CASE Top.phase = "handler" \/ PassesTrap(out)
  <2>1. Leave(out) /\ Aimed(out, stack, Len(stack) - 1)
    BY <1>1, <1>3, PassedOn, StopsNothing
  <2> QED
    BY <1>1, <1>2, <2>1, LeaveLemma
<1>4. CASE ~(Top.phase = "handler" \/ PassesTrap(out))
  <2> DEFINE f == [Top EXCEPT !.phase = "handler", !.saved = out]
  <2>1. out.kind = "error"
    BY <1>2, <1>4 DEF PassesTrap, Outcomes, Exit
  <2>2. /\ f.kind = "trap" /\ f.phase = "handler" /\ f.saved = out /\ f.left = Top.left
        /\ f.up = Top.up /\ f.depth = Top.depth /\ f \in Frames
    BY <1>1, <1>2 DEF Frames
  <2>3. Evaluate(Append(Below, f))
    BY <1>1, <1>4
  <2> HIDE DEF f
  <2>4. FrameInv(f, Below, Len(stack))
    BY <1>2, <2>1, <2>2 DEF FrameInv
  <2>5. owed' = owed - Top.left + f.left
    BY <1>1, <1>2, <2>2, OwedIsNat
  <2> QED
    BY <1>1, <2>2, <2>3, <2>4, <2>5, ReplaceLemma
<1> QED
  BY <1>3, <1>4

LEMMA NextFormLemma ==
  ASSUME UnwindInv, stack # <<>>, NEW f \in Frames, f.left = Top.left, f.left # 0,
         f.kind = "protect", f.phase = "cleanup", f.up = Top.up, f.depth = Top.depth,
         f.saved.kind # "running", Aimed(f.saved, Below, Len(stack) - 1),
         NextForm(f), UNCHANGED cancelled
  PROVE  UnwindInv'
<1> DEFINE fails == Check(f.depth, f.blind)
           g == [f EXCEPT !.left = @ - 1, !.missed = @ \/ fails]
<1>1. Evaluate(Append(Below, g)) /\ owed' = owed - 1
  BY DEF NextForm
<1>2. f.left \in Nat \ {0} /\ f.left - 1 \in 0..MaxForms /\ (f.missed \/ fails) \in BOOLEAN
  <2>1. f.left \in 0..MaxForms /\ MaxForms \in Nat
    BY UnwindAssumption DEF Frames
  <2> QED
    BY <2>1
<1>3. /\ g \in Frames /\ g.kind = "protect" /\ g.phase = "cleanup" /\ g.saved = f.saved
      /\ g.up = Top.up /\ g.depth = Top.depth /\ g.left = Top.left - 1
  <2> HIDE DEF fails
  <2> QED
    BY <1>2 DEF Frames
<1> HIDE DEF g
<1>4. FrameInv(g, Below, Len(stack))
  BY <1>3, TopLemma DEF FrameInv
<1>5. owed' = owed - Top.left + g.left
  BY <1>1, <1>2, <1>3, OwedIsNat
<1> QED
  BY <1>1, <1>3, <1>4, <1>5, ReplaceLemma

LEMMA LeaveProtectedStep ==
  ASSUME UnwindInv, LeaveProtected
  PROVE  UnwindInv'
<1> DEFINE f == [Top EXCEPT !.phase = "cleanup", !.saved = out]
<1>1. /\ stack # <<>> /\ Top.kind = "protect" /\ Top.phase = "body" /\ Delivered
      /\ NextForm(f) /\ UNCHANGED cancelled
  BY DEF LeaveProtected, Delivered
<1>2. /\ Top.left > 0 /\ out \in Outcomes /\ out.kind # "running" /\ Top \in Frames
  BY <1>1, TopLemma DEF FrameInv
<1>3. /\ f \in Frames /\ f.kind = "protect" /\ f.phase = "cleanup" /\ f.saved = out
      /\ f.up = Top.up /\ f.depth = Top.depth /\ f.left = Top.left
  BY <1>1, <1>2 DEF Frames
<1>4. Aimed(out, Below, Len(stack) - 1)
  BY <1>1, PassedOn, StopsNothing
<1>5. f.left # 0
  BY <1>2, <1>3
<1> HIDE DEF f
<1> QED
  BY <1>1, <1>2, <1>3, <1>4, <1>5, NextFormLemma

LEMMA LeaveCleanupStep ==
  ASSUME UnwindInv, LeaveCleanup
  PROVE  UnwindInv'
<1> DEFINE o == Keep(Top.saved, out)
           f == [Top EXCEPT !.saved = o]
<1>1. /\ stack # <<>> /\ Top.kind = "protect" /\ Top.phase = "cleanup" /\ Delivered /\ UNCHANGED cancelled
      /\ IF Top.left = 0 THEN Leave(f.saved) /\ UNCHANGED owed ELSE NextForm(f)
  BY DEF LeaveCleanup, Delivered, NoFormLeft
<1>2. /\ out \in Outcomes /\ out.kind # "running" /\ Top \in Frames /\ Top.saved \in Outcomes
      /\ Top.saved.kind # "running" /\ Aimed(Top.saved, Below, Len(stack) - 1)
  BY <1>1, TopLemma DEF FrameInv, Frames
<1>3. Aimed(out, Below, Len(stack) - 1)
  BY <1>1, PassedOn, StopsNothing
<1>4. o \in Outcomes /\ o.kind # "running" /\ Aimed(o, Below, Len(stack) - 1)
  BY <1>2, <1>3 DEF Keep
<1> HIDE DEF o
<1>5. /\ f \in Frames /\ f.kind = "protect" /\ f.phase = "cleanup" /\ f.saved = o
      /\ f.up = Top.up /\ f.depth = Top.depth /\ f.left = Top.left
  BY <1>1, <1>2, <1>4 DEF Frames
<1>6. CASE Top.left = 0
  <2>1. Leave(o) /\ UNCHANGED owed
    BY <1>1, <1>5, <1>6
  <2>2. Len(stack) - 1 \in Nat /\ \A i \in 1..(Len(stack) - 1) : Below[i] = stack[i]
    BY <1>1, PopLemma DEF UnwindInv, Below
  <2>3. Aimed(o, stack, Len(stack) - 1)
    BY <1>4, <2>2, AimedPrefix
  <2> QED
    BY <1>1, <1>4, <1>6, <2>1, <2>3, LeaveLemma
<1>7. CASE Top.left # 0
  <2> HIDE DEF f
  <2>1. NextForm(f)
    BY <1>1, <1>7
  <2> QED
    BY <1>1, <1>4, <1>5, <1>7, <2>1, NextFormLemma
<1> QED
  BY <1>6, <1>7
------------------------------------------------------------------------------
LEMMA UnwindInitOK == Init => UnwindInv
<1> SUFFICES ASSUME Init PROVE UnwindInv
  OBVIOUS
<1>1. stack = <<>> /\ out = Running /\ cancelled = FALSE /\ owed = 0
  BY DEF Init
<1>2. Len(stack) = 0 /\ stack \in Seq(Frames)
  BY <1>1
<1>3. StackInv(stack)
  BY <1>2, UnwindAssumption DEF StackInv
<1>4. out.kind \notin Exit /\ out \in Outcomes
  BY <1>1, PlainLemma DEF Exit
<1>5. OutInv
  BY <1>1, <1>4, NotAimed DEF OutInv
<1>6. owed = Owing(stack)
  BY <1>1, OwingLemma
<1> QED
  BY <1>3, <1>5, <1>6 DEF UnwindInv

LEMMA UnwindInvariance == Spec => []UnwindInv
<1>1. UnwindInv /\ [Next]_vars => UnwindInv'
  <2> SUFFICES ASSUME UnwindInv, [Next]_vars PROVE UnwindInv'
    OBVIOUS
  <2>1. CASE Cancel
    <3>1. UNCHANGED <<stack, out, owed>> /\ cancelled' = TRUE
      BY <2>1 DEF Cancel
    <3> QED
      BY <3>1 DEF UnwindInv, OutInv
  <2>2. CASE Idle \/ UNCHANGED vars
    <3>1. UNCHANGED <<stack, out, owed, cancelled>>
      BY <2>2 DEF Idle, vars
    <3> QED
      BY <3>1 DEF UnwindInv, OutInv
  <2>3. CASE Run
    BY <2>3, EnterStep, CallClosureStep, LoadStep, ProduceStep, LeaveFrameStep, LeaveTagbodyStep,
       LeaveTailCallStep, LeaveLoadStep, LeaveTrapStep, LeaveProtectedStep, LeaveCleanupStep DEF Run
  <2> QED
    BY <2>1, <2>2, <2>3 DEF Next
<1> QED
  BY <1>1, UnwindInitOK, PTL DEF Spec

\* unwind-protect attempts each of its cleanup forms exactly once, at any depth
\* of nesting (evalUnwindProtect).
THEOREM CleanupAttemptedTheorem == Spec => []CleanupAttempted
<1>1. UnwindInv => CleanupAttempted
  <2> SUFFICES ASSUME UnwindInv PROVE CleanupAttempted
    OBVIOUS
  <2>1. DOMAIN stack = 1..Len(stack)
    BY DEF UnwindInv, StackInv
  <2>2. StackOK
    BY <2>1 DEF UnwindInv, StackInv, StackOK, FrameInv
  <2>3. owed \in Nat
    BY OwedIsNat
  <2> QED
    BY <2>2, <2>3 DEF UnwindInv, OutInv, TypeOK, CleanupAttempted
<1> QED
  BY <1>1, UnwindInvariance, PTL

\* trap's handler runs for errors only, also when load has wrapped an exit
\* (evalTrap).
THEOREM TrapsOnlyErrorsTheorem == Spec => []TrapsOnlyErrors
<1>1. UnwindInv => TrapsOnlyErrors
  BY DEF UnwindInv, StackInv, FrameInv, TrapsOnlyErrors
<1> QED
  BY <1>1, UnwindInvariance, PTL

\* An exit ends in the nearest frame of its name that was live when it was
\* raised, whatever the cleanup forms on its way do, and in no trap; one that
\* leaves the goroutine had none (block, catch, tagbody, load, unwind-protect).
THEOREM NearestExitTheorem == Spec => []NearestExit
<1>1. UnwindInv => NearestExit
  <2> SUFFICES ASSUME UnwindInv, out.kind \in Exit
               PROVE  /\ (stack # <<>> /\ Accepts(Top, out)) => out.dyn = Len(stack)
                      /\ stack = <<>> => out.dyn = 0
    BY DEF NearestExit, UnwindInv, StackInv, FrameInv, TrapsOnlyErrors
  <2>1. Aimed(out, stack, Len(stack))
    BY DEF UnwindInv, OutInv
  <2>2. ASSUME stack # <<>>, Accepts(Top, out) PROVE out.dyn = Len(stack)
    <3>1. Len(stack) \in Nat \ {0}
      BY <2>2, TopLemma
    <3>2. ~out.wrapped /\ Stops(stack[Len(stack)], out)
      BY <2>2 DEF Accepts, Stops, Top
    <3>3. Len(stack) \in Hits(out, stack, Len(stack))
      BY <3>1, <3>2 DEF Hits
    <3>4. out.dyn \in Hits(out, stack, Len(stack)) /\ Len(stack) <= out.dyn
      BY <2>1, <3>2, <3>3 DEF Aimed
    <3>5. out.dyn \in 1..Len(stack)
      BY <3>4 DEF Hits
    <3> QED
      BY <3>1, <3>4, <3>5
  <2>3. ASSUME stack = <<>> PROVE out.dyn = 0
    <3>1. Len(stack) = 0
      BY <2>3
    <3>2. Hits(out, stack, 0) = {}
      BY DEF Hits
    <3> QED
      BY <2>1, <3>1, <3>2 DEF Aimed
  <2> QED
    BY <2>2, <2>3
<1> QED
  BY <1>1, UnwindInvariance, PTL

\* No step of a cleanup form, and nothing that it calls, replaces the error or
\* exit that its unwind-protect passes on (evalUnwindProtect).
THEOREM AbruptOutcomeSurvivesTheorem == Spec => AbruptOutcomeSurvives
<1> DEFINE Step == \A i \in DOMAIN stack :
                     (stack[i].phase = "cleanup" /\ stack[i].saved.kind # "value") =>
                       IF i \in DOMAIN stack' THEN stack'[i].saved = stack[i].saved
                                              ELSE out' = stack[i].saved
<1>1. UnwindInv /\ [Next]_vars => [Step]_vars
  <2> SUFFICES ASSUME UnwindInv, Next, NEW i \in DOMAIN stack,
                      stack[i].phase = "cleanup", stack[i].saved.kind # "value"
               PROVE  IF i \in DOMAIN stack' THEN stack'[i].saved = stack[i].saved
                                             ELSE out' = stack[i].saved
    OBVIOUS
  <2>1. /\ stack \in Seq(Frames) /\ Len(stack) \in Nat \ {0} /\ stack # <<>> /\ i \in 1..Len(stack)
        /\ stack[i].kind = "protect" /\ DOMAIN stack = 1..Len(stack)
    <3>1. stack \in Seq(Frames) /\ DOMAIN stack = 1..Len(stack) /\ Len(stack) \in Nat
      BY DEF UnwindInv, StackInv
    <3>2. FrameInv(stack[i], stack, i) /\ Len(stack) # 0 /\ stack # <<>>
      BY <3>1 DEF UnwindInv, StackInv
    <3> QED
      BY <3>1, <3>2 DEF FrameInv
  <2>2. /\ Below \in Seq(Frames) /\ Len(Below) = Len(stack) - 1
        /\ \A j \in 1..(Len(stack) - 1) : Below[j] = stack[j]
    BY <2>1, PopLemma DEF UnwindInv, Below, StackInv
  \* The frame is still there, with its outcome.
  <2>3. ASSUME NEW f, stack' = Append(stack, f) PROVE stack'[i] = stack[i] /\ i \in DOMAIN stack'
    BY <2>1, <2>3
  <2>4. ASSUME stack' = Below, i # Len(stack) PROVE stack'[i] = stack[i] /\ i \in DOMAIN stack'
    BY <2>1, <2>2, <2>4
  <2>5. ASSUME NEW f, stack' = Append(Below, f), i # Len(stack) \/ f.saved = stack[i].saved
        PROVE  stack'[i].saved = stack[i].saved /\ i \in DOMAIN stack'
    <3>1. CASE i = Len(stack)
      <4>1. stack'[i] = f /\ i \in DOMAIN stack'
        BY <2>1, <2>2, <2>5, <3>1
      <4> QED
        BY <2>5, <3>1, <4>1
    <3>2. CASE i # Len(stack)
      BY <2>1, <2>2, <2>5, <3>2
    <3> QED
      BY <3>1, <3>2
  <2>6. CASE UNCHANGED stack
    BY <2>6
  <2>7. CASE Enter \/ CallClosure \/ Load
    <3>1. \E f : stack' = Append(stack, f)
      BY <2>7 DEF Enter, CallClosure, Load, Evaluate
    <3> QED
      BY <2>3, <3>1
  <2>8. CASE Produce \/ Cancel \/ Idle
    BY <2>6, <2>8 DEF Produce, Cancel, Idle, vars
  <2>9. ASSUME Top.kind # "protect" PROVE i # Len(stack)
    BY <2>1, <2>9 DEF Top
  <2>10. CASE LeaveFrame \/ LeaveTailCall \/ LeaveLoad \/ LeaveTagbody
    <3>1. stack' = Below \/ UNCHANGED stack
      BY <2>10 DEF LeaveFrame, LeaveTailCall, LeaveLoad, LeaveTagbody, Leave, Evaluate
    <3>2. Top.kind # "protect"
      BY <2>10 DEF LeaveFrame, LeaveTailCall, LeaveLoad, LeaveTagbody
    <3> QED
      BY <2>4, <2>6, <2>9, <3>1, <3>2
  <2>11. CASE LeaveTrap
    <3>1. stack' = Below \/ \E f : stack' = Append(Below, f)
      BY <2>11 DEF LeaveTrap, Leave, Evaluate
    <3>2. Top.kind # "protect"
      BY <2>11 DEF LeaveTrap
    <3> QED
      BY <2>4, <2>5, <2>9, <3>1, <3>2
  <2>12. CASE LeaveProtected
    <3>1. \E f : stack' = Append(Below, f)
      BY <2>12 DEF LeaveProtected, NextForm, Evaluate
    <3>2. i # Len(stack)
      BY <2>12 DEF LeaveProtected, Top
    <3> QED
      BY <2>5, <3>1, <3>2
  <2>13. CASE LeaveCleanup
    <3> DEFINE o == Keep(Top.saved, out)
               f == [Top EXCEPT !.saved = o]
    <3>1. Top \in Frames /\ f.saved = o
      BY <2>1, TopLemma DEF Frames
    <3>2. i = Len(stack) => o = stack[i].saved
      BY DEF Keep, Top
    <3>3. IF Top.left = 0 THEN Leave(f.saved) ELSE NextForm(f)
      BY <2>13 DEF LeaveCleanup, NoFormLeft
    <3>4. CASE Top.left = 0
      <4>1. stack' = Below /\ out' = IF o.kind = "value" THEN Running ELSE o
        BY <3>1, <3>3, <3>4 DEF Leave
      <4>2. CASE i = Len(stack)
        <5>1. i \notin DOMAIN stack'
          BY <2>1, <2>2, <4>1, <4>2
        <5> QED
          BY <3>2, <4>1, <4>2, <5>1
      <4> QED
        BY <2>4, <4>1, <4>2
    <3>5. CASE Top.left # 0
      <4> DEFINE g == [f EXCEPT !.left = @ - 1, !.missed = @ \/ Check(f.depth, f.blind)]
      <4>1. stack' = Append(Below, g)
        BY <3>3, <3>5 DEF NextForm, Evaluate
      <4>2. g.saved = o
        BY <3>1 DEF Frames
      <4> HIDE DEF g, o
      <4> QED
        BY <2>5, <3>2, <4>1, <4>2
    <3> QED
      BY <3>4, <3>5
  <2> QED
    BY <2>7, <2>8, <2>10, <2>11, <2>12, <2>13 DEF Next, Run
<1> QED
  BY <1>1, UnwindInvariance, PTL DEF Spec, AbruptOutcomeSurvives

==================================================================================
