------------------------------- MODULE FormatText -------------------------------
(****************************************************************************)
(* What the FORMAT directives make of a number or a text (format_dirs.go),  *)
(* how their parameters are read (format.go), and the C conversions that    *)
(* are translated to them and read back (cformat.go).  Each function stands *)
(* beside what it has to compute, said without the code's way of doing it.  *)
(*                                                                          *)
(* A text is a sequence of characters; a number word is the number.         *)
(****************************************************************************)
EXTENDS Integers, Sequences, FiniteSets, SequencesExt

Repeat(c, n) == [i \in 1..n |-> c]
Digit == <<"0", "1", "2", "3", "4", "5", "6", "7", "8", "9">>
Digits(n, base) ==
  LET d[m \in 0..n] == IF m < base THEN <<Digit[m + 1]>> ELSE Append(d[m \div base], Digit[(m % base) + 1])
  IN d[n]
AbsOf(n) == IF n < 0 THEN -n ELSE n
Least(S) == CHOOSE x \in S : \A y \in S : x <= y

----------------------------------------------------------------------------
\* writeN and padField: mincol, colinc and minpad of ~A and ~S.
padField(s, mincol, colinc, minpad, padchar, right) ==
  LET w == Len(s)
      extra == mincol - w - minpad
      pad == minpad + (IF extra > 0 THEN ((extra + colinc - 1) \div colinc) * colinc ELSE 0)
      fill == Repeat(padchar, pad)
  IN IF w >= mincol /\ minpad <= 0 THEN s ELSE IF right THEN fill \o s ELSE s \o fill

\* The least padding of minpad and some colinc's with which s fills mincol.
PadsLeast(s, mincol, colinc, minpad) ==
  LET k == Least({j \in 0..mincol : Len(s) + minpad + j * colinc >= mincol})
  IN Len(padField(s, mincol, colinc, minpad, "_", TRUE)) = Len(s) + minpad + k * colinc

insertCommas(digits, sep, interval) ==
  LET n == Len(digits)
      first == IF n % interval = 0 /\ n > 0 THEN interval ELSE n % interval
  IN FlattenSeq([i \in 1..n |-> (IF i > 1 /\ (i - 1 - first) % interval = 0 THEN <<sep>> ELSE <<>>)
                                \o <<digits[i]>>])

\* Counted from the right, a separator stands after every interval digits.
CommasFromRight(digits, interval) ==
  LET r == Reverse(insertCommas(digits, ",", interval))
  IN /\ SelectSeq(r, LAMBDA c : c # ",") = Reverse(digits)
     /\ r[Len(r)] # ","
     /\ \A i \in DOMAIN r : r[i] = "," <=> i % (interval + 1) = 0

\* ~D and its relatives: the sign before the padding is put before it.
padLeft(s, mincol, padchar) == Repeat(padchar, IF mincol > Len(s) THEN mincol - Len(s) ELSE 0) \o s
emitRadixText(n, base, mincol, padchar, interval, colon, at) ==
  LET ds == Digits(AbsOf(n), base)
      sign == IF n < 0 THEN <<"-">> ELSE IF at THEN <<"+">> ELSE <<>>
  IN padLeft(sign \o (IF colon THEN insertCommas(ds, ",", interval) ELSE ds), mincol, padchar)

----------------------------------------------------------------------------
\* ~@R: the largest symbol that still fits, as often as it fits.
RomanValue == <<1000, 900, 500, 400, 100, 90, 50, 40, 10, 9, 5, 4, 1>>
RomanSymbol == << <<"M">>, <<"C", "M">>, <<"D">>, <<"C", "D">>, <<"C">>, <<"X", "C">>, <<"L">>,
                  <<"X", "L">>, <<"X">>, <<"I", "X">>, <<"V">>, <<"I", "V">>, <<"I">> >>
roman(n) ==
  LET r[m \in 0..n] == IF m = 0 THEN <<>>
                       ELSE LET i == Least({j \in DOMAIN RomanValue : m >= RomanValue[j]})
                            IN RomanSymbol[i] \o r[m - RomanValue[i]]
  IN r[n]
oldRoman(n) ==
  Repeat("M", n \div 1000) \o Repeat("D", (n % 1000) \div 500) \o Repeat("C", (n % 500) \div 100)
  \o Repeat("L", (n % 100) \div 50) \o Repeat("X", (n % 50) \div 10) \o Repeat("V", (n % 10) \div 5)
  \o Repeat("I", n % 5)

\* A numeral's value: a symbol before a greater one counts against it.
Worth == [M |-> 1000, D |-> 500, C |-> 100, L |-> 50, X |-> 10, V |-> 5, I |-> 1]
ValueOf(numeral) ==
  LET v[i \in 0..Len(numeral)] ==
        IF i = 0 THEN 0
        ELSE v[i - 1] + (IF i < Len(numeral) /\ Worth[numeral[i]] < Worth[numeral[i + 1]]
                           THEN -Worth[numeral[i]] ELSE Worth[numeral[i]])
  IN v[Len(numeral)]
RomansMean(n) == ValueOf(roman(n)) = n /\ ValueOf(oldRoman(n)) = n

\* ~R and ~:R: the words 0..19, 20, 30, ..., 90, 100 (hundred), 1000 (thousand).
cardinalPos(m) ==
  LET c[n \in 0..m] == CASE n < 20 -> <<n>>
                         [] n \in 20..99 -> <<n - (n % 10)>> \o (IF n % 10 # 0 THEN c[n % 10] ELSE <<>>)
                         [] n \in 100..999 -> <<n \div 100, 100>> \o (IF n % 100 # 0 THEN c[n % 100] ELSE <<>>)
                         [] OTHER -> c[n \div 1000] \o <<1000>> \o (IF n % 1000 # 0 THEN c[n % 1000] ELSE <<>>)
  IN c[m]
Nth(word) == <<"th", word>>
ordinalPos(m) ==
  LET o[n \in 0..m] ==
        CASE n < 20 -> <<Nth(n)>>
          [] n \in 20..99 -> IF n % 10 = 0 THEN <<Nth(n)>> ELSE <<n - (n % 10)>> \o o[n % 10]
          [] n \in 100..999 -> IF n % 100 = 0 THEN <<n \div 100, Nth(100)>>
                               ELSE cardinalPos(n - (n % 100)) \o o[n % 100]
          [] OTHER -> IF n % 1000 = 0 THEN Append(cardinalPos(n \div 1000), Nth(1000))
                      ELSE cardinalPos(n - (n % 1000)) \o o[n % 1000]
  IN o[m]

\* The number the words say: hundred and thousand multiply what is before them.
Said(words) ==
  LET s[i \in 0..Len(words)] ==
        IF i = 0 THEN [all |-> 0, part |-> 0]
        ELSE LET w == words[i] p == s[i - 1] IN
               CASE w = 1000 -> [all |-> p.all + p.part * 1000, part |-> 0]
                 [] w = 100 -> [p EXCEPT !.part = @ * 100]
                 [] OTHER -> [p EXCEPT !.part = @ + w]
  IN s[Len(words)].all + s[Len(words)].part
WordsMean(n) ==
  LET c == cardinalPos(n) o == ordinalPos(n)
  IN Said(c) = n /\ Len(o) = Len(c) /\ Last(o) = Nth(Last(c)) /\ Front(o) = Front(c)

----------------------------------------------------------------------------
\* ~T after the output s: up to place colnum, or past it to the next one that
\* is some colincs after it; ~@T: colnum spaces and on to a multiple of colinc;
\* ~:T: colnum.  The place is the number of characters of the whole output, or
\* of that of the block, and so the column on its first line only.
emitT(s, colnum, colinc, colon, at) ==
  LET cur == Len(s)
      toMultiple[c \in Nat] == IF c % colinc = 0 THEN 0 ELSE 1 + toMultiple[c + 1]
      spaces == CASE at -> colnum + (IF colinc > 0 THEN toMultiple[cur + colnum] ELSE 0)
                  [] colon -> colnum
                  [] cur < colnum -> colnum - cur
                  [] OTHER -> IF colinc > 0 THEN toMultiple[cur - colnum] ELSE 0
  IN s \o Repeat(" ", spaces)
\* The least places that will do; they are counted through the newlines.
Tabulates(s, colnum, colinc) ==
  LET there == Len(emitT(s, colnum, colinc, FALSE, FALSE))
      relative == Len(emitT(s, colnum, colinc, FALSE, TRUE))
      stops == {c \in colnum..(Len(s) + colnum + colinc) : c >= Len(s) /\ (c - colnum) % colinc = 0}
  IN colinc > 0 => /\ there = Least(stops)
                   /\ relative = Least({c \in Len(s) + colnum..(Len(s) + colnum + colinc) : c % colinc = 0})

\* ~&: writes n newlines whether or not the output is at the start of a line.
freshLine(s, n) ==
  LET atStart == s # <<>> /\ Last(s) = "nl"
      first == IF atStart THEN <<>> ELSE <<"nl">>
  IN s \o first \o Repeat("nl", IF atStart THEN n ELSE n - 1)
\* After text that does not end a line: n of them.
EndsLine(s, n) ==
  (s # <<>> /\ Last(s) # "nl" /\ n > 0) =>
     LET r == freshLine(s, n) IN r = s \o [i \in 1..n |-> "nl"]

\* ~( ~:( ~@( ~:@(: "x" is a small letter, "X" a capital one,
\* all else punctuation or white space.
IsLetter(c) == c \in {"x", "X"}
convertCase(s, colon, at) ==
  LET next(acc, c) ==
        IF ~IsLetter(c) THEN [out |-> Append(acc.out, c), cap |-> acc.cap \/ colon]
        ELSE [out |-> Append(acc.out, IF acc.cap THEN "X" ELSE "x"), cap |-> FALSE]
      all(l) == [i \in DOMAIN s |-> IF IsLetter(s[i]) THEN l ELSE s[i]]
  IN CASE colon /\ at -> all("X")
       [] colon # at -> FoldLeft(next, [out |-> <<>>, cap |-> TRUE], s).out
       [] OTHER -> all("x")
\* ~:( makes the first letter of every word a capital, ~@( that of the text.
CapitalsBegin(s) ==
  \A at \in BOOLEAN :
    LET r == convertCase(s, ~at, at)
        begins(i) == IF at THEN \A j \in 1..i - 1 : ~IsLetter(s[j]) ELSE i = 1 \/ ~IsLetter(s[i - 1])
    IN \A i \in DOMAIN s : r[i] = IF ~IsLetter(s[i]) THEN s[i] ELSE IF begins(i) THEN "X" ELSE "x"

\* parseParams: numbers, v, # and 'c, separated by commas; an empty place is
\* a missing parameter.  The place after them is that of the directive.
IsDigit(c) == c \in ToSet(Digit)
parseParams(s) ==
  LET at(i) == IF i <= Len(s) THEN s[i] ELSE "end"
      numEnd(i) == Least({j \in i + 1..Len(s) + 1 : ~IsDigit(at(j))})
      after(i) == IF at(i) = "," THEN i + 1 ELSE i
      more(i) == at(i) = ","
      \* p[i]: the parameters from place i on, and the place they end at.
      p[i \in 1..Len(s) + 3] ==
        CASE i > Len(s) -> [ps |-> <<>>, end |-> i]
          [] at(i) = "," -> LET q == p[i + 1] IN [q EXCEPT !.ps = <<"missing">> \o @]
          [] at(i) \in {"v", "#"} \/ IsDigit(at(i)) \/ at(i) \in {"-", "'"} ->
               LET e == CASE at(i) \in {"v", "#"} -> i + 1 [] at(i) = "'" -> i + 2 [] OTHER -> numEnd(i)
                   q == IF more(e) THEN p[e + 1] ELSE [ps |-> <<>>, end |-> e]
               IN [q EXCEPT !.ps = <<SubSeq(s, i, e - 1)>> \o @]
          [] OTHER -> [ps |-> <<>>, end |-> i]
  IN p[1]

\* Written with commas between them, parameters are read back one for one.
Written(ps) == FlattenSeq([i \in DOMAIN ps |-> (IF i > 1 THEN <<",">> ELSE <<>>) \o ps[i]])
ParamsReadBack(ps) ==
  LET r == parseParams(Written(ps) \o <<"a">>) IN r.ps = ps /\ r.end = Len(Written(ps)) + 1

----------------------------------------------------------------------------
\* printf's %d: a directive ~D, or ~A where it is left-justified.
clInt(n, width, zero, left, plus) ==
  IF left THEN padField((IF n < 0 THEN <<"-">> ELSE <<>>) \o Digits(AbsOf(n), 10), width, 1, 0, " ", FALSE)
  ELSE emitRadixText(n, 10, width, IF zero /\ width > 0 THEN "0" ELSE " ", 3, FALSE, plus)

\* sscanf's %d: white space, a sign, digits; 0 characters when there is no number.
scanNumber(s) ==
  LET start == Least({i \in 1..Len(s) + 1 : i > Len(s) \/ s[i] # " "})
      sign == IF start <= Len(s) /\ s[start] \in {"+", "-"} THEN 1 ELSE 0
      end == Least({i \in start + sign..Len(s) + 1 : i > Len(s) \/ ~IsDigit(s[i])})
      ds == SubSeq(s, start + sign, end - 1)
      v[i \in 0..Len(ds)] == IF i = 0 THEN 0 ELSE v[i - 1] * 10 + (SelectInSeq(Digit, LAMBDA c : c = ds[i]) - 1)
  IN [n |-> IF ds = <<>> THEN 0 ELSE end - start,
      value |-> (IF sign = 1 /\ s[start] = "-" THEN -1 ELSE 1) * v[Len(ds)]]

\* What %d has printed %d reads back, unless zeros have been put before a sign:
\* %05d prints -42 as 00-42, and 0 is what is read.
ZeroesBeforeSign(n, width, zero, left, plus) ==
  zero /\ ~left /\ (n < 0 \/ plus) /\ width > 1 + Len(Digits(AbsOf(n), 10))
ReadsBack(n, width, zero, left, plus) ==
  scanNumber(clInt(n, width, zero, left, plus)).value =
    IF ZeroesBeforeSign(n, width, zero, left, plus) THEN 0 ELSE n
=============================================================================
