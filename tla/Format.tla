--------------------------------- MODULE Format ---------------------------------
(****************************************************************************)
(* The FORMAT engine (format.go, format_blocks.go, the emitters of          *)
(* format_dirs.go): how a control string and its blocks take the arguments, *)
(* one after the other, and where ~^ and errors end them.                   *)
(*                                                                          *)
(* A control string is a sequence of tokens: a directive with its modifiers *)
(* and parameters, or a piece of text.  What a directive prints is the      *)
(* argument it prints, with the column width it pads it to.                 *)
(****************************************************************************)
EXTENDS Integers, Sequences, FiniteSets, SequencesExt

\* A cell: a number, nil, a list of cells or a string that is a control string.
Cell(t, n, l, c) == [t |-> t, n |-> n, l |-> l, c |-> c]
Num(n) == Cell("number", n, <<>>, <<>>)
Nil == Cell("nil", 0, <<>>, <<>>)
List(l) == IF l = <<>> THEN Nil ELSE Cell("list", 0, l, <<>>)
Control(c) == Cell("string", 0, <<>>, c)

Token(d, colon, at, params) == [d |-> d, colon |-> colon, at |-> at, params |-> params]
Plain(d) == Token(d, FALSE, FALSE, <<>>)
Text == Plain("text")
Given(n) == [kind |-> "int", n |-> n]
FromArgs == [kind |-> "v", n |-> 0]
CountLeft == [kind |-> "#", n |-> 0]
Missing == [kind |-> "missing", n |-> 0]

\* fmtState; err is "", "error" (st.err) or "panic" (an index out of range,
\* which evalWithCtx turns into an error).
State(args, idx) == [out |-> <<>>, args |-> args, idx |-> idx, err |-> ""]
Failed(st, e) == [st EXCEPT !.err = IF @ = "panic" THEN @ ELSE e]
Write(st, item) == [st EXCEPT !.out = Append(@, item)]
Rest(st) == SubSeq(st.args, st.idx + 1, Len(st.args))

\* peek and consume: idx is Go's, so the next argument is args[idx + 1].
consume(st) ==
  IF st.idx >= Len(st.args) THEN [st |-> Failed(st, "error"), c |-> Nil]
  ELSE IF st.idx < 0 THEN [st |-> Failed(st, "panic"), c |-> Nil]
  ELSE [st |-> [st EXCEPT !.idx = @ + 1], c |-> st.args[st.idx + 1]]
peek(st) == IF st.idx < Len(st.args) THEN st.args[st.idx + 1] ELSE Nil

toInt(c) == IF c.t = "number" THEN c.n ELSE 0
cellToSlice(c) == IF c.t = "list" THEN c.l ELSE <<>>
paramGet(params, i) == IF i <= Len(params) THEN params[i] ELSE Missing

resolveInt(st, p, def) ==
  CASE p.kind = "missing" -> [st |-> st, v |-> def]
    [] p.kind = "int" -> [st |-> st, v |-> p.n]
    [] p.kind = "#" -> [st |-> st, v |-> Len(st.args) - st.idx]
    [] p.kind = "v" -> LET r == consume(st) IN
                         [st |-> r.st, v |-> IF r.c.t = "number" THEN r.c.n ELSE def]

\* The state after the parameters at these places have been resolved, and the
\* value of each.
Resolved(st, params, places) ==
  FoldLeft(LAMBDA acc, i : LET r == resolveInt(acc.st, paramGet(params, i), 0) IN
                             [st |-> r.st, vs |-> Append(acc.vs, r.v)],
           [st |-> st, vs |-> <<>>], places)

\* What is printed: the argument and its minimal width.
Item(c, width) == [c |-> c.n, width |-> width]
TextItem == [c |-> 0, width |-> -1]

----------------------------------------------------------------------------
\* ~A ~S, ~D ~B ~O ~X and ~R take the argument before their own parameters ...
emitPadded(st, tok) ==
  LET a == consume(st) r == Resolved(a.st, tok.params, <<1, 2, 3, 4>>) IN Write(r.st, Item(a.c, r.vs[1]))
emitRadix(st, tok) ==
  LET a == consume(st) r == Resolved(a.st, tok.params, <<1, 2, 3, 4>>)
  IN Write(r.st, Item(Num(toInt(a.c)), r.vs[1]))
emitR(st, tok) ==
  LET a == consume(st) base == paramGet(tok.params, 1) r == resolveInt(a.st, base, 10)
  IN IF base.kind # "missing" /\ r.v \notin 2..36 THEN Failed(r.st, "error")
     ELSE Write(r.st, Item(Num(toInt(a.c)), 0))
\* ... ~F, ~E, ~G and ~$ resolve theirs first: ~F passes over the fourth, the
\* overflow character, ~E and ~G over it and the one after it.
PrintsAfter(st, params, places, width) ==
  LET r == Resolved(st, params, places) a == consume(r.st) IN Write(a.st, Item(a.c, r.vs[width]))
emitF(st, tok) == PrintsAfter(st, tok.params, <<1, 2, 3, 5>>, 1)
emitE(st, tok) == PrintsAfter(st, tok.params, <<1, 2, 3, 6>>, 1)
emitG(st, tok) == PrintsAfter(st, tok.params, <<1, 2, 3, 6>>, 1)
emitDollar(st, tok) == PrintsAfter(st, tok.params, <<1, 2, 3, 4>>, 3)

\* ~P takes the argument; only ~@P puts it back.
emitP(st, tok) ==
  LET a == consume(st)
      s == IF tok.at /\ ~tok.colon THEN [a.st EXCEPT !.idx = @ - 1] ELSE a.st
  IN Write(s, [c |-> IF toInt(a.c) = 1 THEN 1 ELSE 2, width |-> -2])

emitC(st, tok) ==
  LET a == consume(st) IN
    IF a.c.t \in {"string", "number"} THEN Write(a.st, Item(a.c, 0)) ELSE Failed(a.st, "error")

\* ~* ~:* ~@*: only going back is kept within the arguments.
emitGoto(st, tok) ==
  LET r == resolveInt(st, paramGet(tok.params, 1), 1) IN
    [r.st EXCEPT !.idx = CASE tok.at -> r.v
                           [] tok.colon /\ ~tok.at -> IF @ - r.v < 0 THEN 0 ELSE @ - r.v
                           [] OTHER -> @ + r.v]

\* ~^ with up to three parameters.
emitEscape(st, tok) ==
  LET given(i) == paramGet(tok.params, i).kind # "missing"
      n == IF ~given(1) THEN 0 ELSE IF ~given(2) THEN 1 ELSE IF ~given(3) THEN 2 ELSE 3
      r == Resolved(st, tok.params, [i \in 1..n |-> i])
      v == r.vs
  IN [st |-> r.st,
      esc |-> CASE n = 0 -> st.idx >= Len(st.args)
                [] n = 1 -> v[1] = 0
                [] n = 2 -> v[1] <= v[2]
                [] n = 3 -> v[1] <= v[2] /\ v[2] <= v[3]]

\* ~% ~& ~| ~T ~~ ~newline: text, after their parameters.
emitText(st, tok) == Write(Resolved(st, tok.params, IF tok.d = "t" THEN <<1, 2>> ELSE <<1>>).st, TextItem)

----------------------------------------------------------------------------
\* The blocks.  close[open] is the token that ends a block.
Close == [d \in {"[", "{", "("} |-> CASE d = "[" -> "]" [] d = "{" -> "}" [] d = "(" -> ")"]

\* findBlock: the first closing token at depth 0 of this kind of block, or the
\* end of the control string.  Its place is exclusive, as the body's end.
Depth(ctrl, from, k, open) ==
  1 + Cardinality({i \in from..k : ctrl[i].d = open}) - Cardinality({i \in from..k : ctrl[i].d = Close[open]})
findBlockFirstClose(ctrl, pos, open) ==
  LET ends == {k \in pos..Len(ctrl) : ctrl[k].d = Close[open]}
  IN IF ends = {} THEN Len(ctrl) + 1 ELSE CHOOSE k \in ends : \A j \in ends : k <= j
findBlock(ctrl, pos, open) ==
  LET ends == {k \in pos..Len(ctrl) : Depth(ctrl, pos, k, open) = 0}
  IN IF ends = {} THEN Len(ctrl) + 1 ELSE CHOOSE k \in ends : \A j \in ends : k <= j

\* splitClauses at the ~; outside every inner block; ~:; marks the clause
\* after it as the default (0: none).
splitClauses(body) ==
  LET nested(k) == Cardinality({i \in 1..k : body[i].d \in DOMAIN Close})
                   - Cardinality({i \in 1..k : body[i].d \in {"]", "}", ")"}})
      cuts == {k \in 1..Len(body) : body[k].d = ";" /\ nested(k) = 0}
      at == <<0>> \o SetToSortSeq(cuts, <) \o <<Len(body) + 1>>
      defaults == {i \in 2..Len(at) - 1 : body[at[i]].colon}
  IN [clauses |-> [i \in 1..Len(at) - 1 |-> SubSeq(body, at[i] + 1, at[i + 1] - 1)],
      default |-> IF defaults = {} THEN 0 ELSE CHOOSE i \in defaults : \A j \in defaults : j <= i]

\* A sub-state's output joins that of the state, and nothing else of it.
Joined(st, sub) == [st EXCEPT !.out = @ \o sub.out]
\* sub: the same arguments from the same place, an output of its own.
Sub(st) == State(st.args, st.idx)

RECURSIVE formatRun(_, _, _)

\* ~?: the arguments of the inner control string are the next list, or, with
\* @, all that are left, used or not.
emitRecursive(st, tok) ==
  LET a == consume(st)
      b == consume(a.st)
      args == IF tok.at THEN Rest(a.st) ELSE cellToSlice(b.c)
      after == IF tok.at THEN [a.st EXCEPT !.idx = Len(st.args)] ELSE b.st
      sub == formatRun(State(args, 0), a.c.c, 1).st
  IN IF a.c.t # "string" THEN Failed(a.st, "error")
     ELSE IF sub.err # "" THEN Failed(after, sub.err) ELSE Joined(after, sub)

\* ~[: neither the arguments nor the error of the clause come back, but its
\* output does.
RunClause(st, clauses, i) ==
  IF i \notin DOMAIN clauses THEN st
  ELSE LET sub == formatRun(Sub(st), clauses[i], 1).st
       IN IF sub.err = "panic" THEN Failed(st, "panic") ELSE Joined(st, sub)
emitConditional(st, tok, body) ==
  LET s == splitClauses(body)
      a == consume(st)
      i == IF tok.colon THEN (IF a.c.t = "nil" THEN 1 ELSE 2) ELSE toInt(a.c) + 1
  IN CASE tok.at -> IF peek(st).t # "nil" THEN RunClause(st, s.clauses, 1) ELSE a.st
       [] ~tok.at /\ tok.colon -> RunClause(a.st, s.clauses, i)
       [] OTHER -> RunClause(a.st, s.clauses, IF i \in DOMAIN s.clauses THEN i ELSE s.default)

\* One round of an iteration's body on args: done when it took none of them.
Round(st, args, body) ==
  LET r == formatRun([State(args, 0) EXCEPT !.out = st.out], body, 1)
      used == r.st.idx
  IN [st |-> [st EXCEPT !.out = r.st.out,
                        !.err = IF r.st.err # "" THEN r.st.err
                                ELSE IF used \notin 0..Len(args) THEN "panic" ELSE ""],
      rest |-> IF used = 0 THEN <<>> ELSE SubSeq(args, used + 1, Len(args)),
      stuck |-> used = 0, esc |-> r.esc]

RECURSIVE Rounds(_, _, _)
Rounds(st, args, body) ==
  IF args = <<>> THEN [st |-> st, esc |-> FALSE]
  ELSE LET r == Round(st, args, body) IN
         IF r.st.err # "" \/ r.stuck THEN [st |-> r.st, esc |-> FALSE]
         ELSE IF r.esc THEN [st |-> r.st, esc |-> TRUE] ELSE Rounds(r.st, r.rest, body)

\* An escape ends its list only.
EachListOnly(start, items, body) ==
  [st |-> FoldLeft(LAMBDA st, outer : IF st.err # "" THEN st ELSE Rounds(st, cellToSlice(outer), body).st,
                   start, items),
   esc |-> FALSE]

\* ~:{: each element is a list of its own, and an escape in one ends the
\* iteration and what stands around it.
EachList(start, items, body) ==
  FoldLeft(LAMBDA acc, outer : IF acc.esc \/ acc.st.err # "" THEN acc
                               ELSE Rounds(acc.st, cellToSlice(outer), body),
           [st |-> start, esc |-> FALSE], items)

\* ~{: over a list or, with @, the arguments left.
emitIteration(st, tok, body) ==
  LET a == consume(st)
      items == IF tok.at THEN Rest(st) ELSE cellToSlice(a.c)
      start == IF tok.at THEN [st EXCEPT !.idx = Len(st.args)] ELSE a.st
  IN IF tok.at /\ st.idx \notin 0..Len(st.args) THEN [st |-> Failed(st, "panic"), esc |-> FALSE]
     ELSE IF start.err # "" THEN [st |-> start, esc |-> FALSE]
     ELSE IF tok.colon THEN EachList(start, items, body)
     ELSE [st |-> Rounds(start, items, body).st, esc |-> FALSE]

\* ~(: the only block whose arguments come back; an escape in it ends only it.
emitCase(st, body) ==
  LET sub == formatRun(Sub(st), body, 1).st
  IN IF sub.err # "" THEN Failed(st, sub.err) ELSE Joined([st EXCEPT !.idx = sub.idx], sub)

\* ~/fun/: looks the function up, then takes its argument.
emitUserFunc(st, tok) ==
  LET a == consume(st) IN IF a.st.err # "" THEN a.st ELSE Write(a.st, Item(a.c, 0))

----------------------------------------------------------------------------
Emit(st, tok) ==
  CASE tok.d \in {"a", "s"} -> emitPadded(st, tok)
    [] tok.d \in {"d", "b", "o", "x"} -> emitRadix(st, tok)
    [] tok.d = "r" -> emitR(st, tok)
    [] tok.d = "p" -> emitP(st, tok)
    [] tok.d = "c" -> emitC(st, tok)
    [] tok.d = "f" -> emitF(st, tok)
    [] tok.d = "e" -> emitE(st, tok)
    [] tok.d = "g" -> emitG(st, tok)
    [] tok.d = "$" -> emitDollar(st, tok)
    [] tok.d = "*" -> emitGoto(st, tok)
    [] tok.d = "?" -> emitRecursive(st, tok)
    [] tok.d = "/" -> emitUserFunc(st, tok)
    [] tok.d = "text" -> Write(st, TextItem)
    [] tok.d = ";" -> st
    [] OTHER -> emitText(st, tok)

formatRun(st, ctrl, pos) ==
  IF st.err # "" \/ pos > Len(ctrl) THEN [st |-> st, esc |-> FALSE]
  ELSE LET tok == ctrl[pos] IN
    IF tok.d \in DOMAIN Close
      THEN LET end == findBlock(ctrl, pos + 1, tok.d)
               body == SubSeq(ctrl, pos + 1, end - 1)
               r == CASE tok.d = "[" -> [st |-> emitConditional(st, tok, body), esc |-> FALSE]
                      [] tok.d = "{" -> emitIteration(st, tok, body)
                      [] tok.d = "(" -> [st |-> emitCase(st, body), esc |-> FALSE]
           IN IF r.esc THEN r ELSE formatRun(r.st, ctrl, end + 1)
    ELSE IF tok.d = "^"
      THEN LET e == emitEscape(st, tok) IN IF e.esc THEN e ELSE formatRun(e.st, ctrl, pos + 1)
    ELSE formatRun(Emit(st, tok), ctrl, pos + 1)

\* fnFormat without the destination: what is printed, or an error.
fnFormat(ctrl, args) ==
  LET st == formatRun(State(args, 0), ctrl, 1).st
  IN IF st.err = "" THEN st.out ELSE << [c |-> 0, width |-> -3] >>

----------------------------------------------------------------------------
(****************************************************************************)
(* What a control string promises, on trees instead of strings: each node   *)
(* begins at a place in the arguments, prints, and ends at another one.     *)
(****************************************************************************)
Node(k, b) == [k |-> k, b |-> b]
Directive(tok) == Node("directive", <<tok>>)
ArgNode == Directive(Plain("a"))
TextNode == Directive(Text)
EscapeNode == Directive(Plain("^"))

\* The control string of a tree.  ~[ has nodes "clause", the last of them the
\* default of "else"; "bool" is ~:[, "when" ~@[, "rest" ~@{ and "lists" ~:{.
Opening(k) ==
  CASE k = "case" -> Plain("(")
    [] k \in {"each", "rest", "lists"} -> Token("{", k = "lists", k = "rest", <<>>)
    [] OTHER -> Token("[", k = "bool", k = "when", <<>>)
Clauses(x) ==
  IF x.k \in {"choose", "else", "bool"} THEN [j \in DOMAIN x.b |-> x.b[j].b] ELSE <<x.b>>
RECURSIVE Flat(_)
Flat(nodes) ==
  FlattenSeq([i \in DOMAIN nodes |-> LET x == nodes[i] cs == Clauses(x) open == Opening(x.k) IN
    IF x.k = "directive" THEN x.b
    ELSE <<open>>
         \o FlattenSeq([j \in DOMAIN cs |->
              (IF j > 1 THEN <<Token(";", x.k = "else" /\ j = Len(cs), FALSE, <<>>)>> ELSE <<>>) \o Flat(cs[j])])
         \o <<Plain(Close[open.d])>>])

\* The inner control string that the arguments of ~? hold.
Inner == <<ArgNode, EscapeNode, ArgNode>>

\* The parameters that a directive looks at, and whether it prints an argument
\* and takes it before those that its v's stand for.
LooksAt(d) ==
  CASE d = "f" -> {1, 2, 3, 5} [] d \in {"e", "g"} -> {1, 2, 3, 6} [] d = "t" -> {1, 2}
    [] d \in {"r", "*", "%"} -> {1} [] d = "^" -> {1, 2, 3} [] d \in {"text", "p", "c"} -> {} [] OTHER -> 1..4
Prints == {"a", "d", "r", "f", "e", "g", "$", "p", "c"}
ArgumentFirst == {"a", "d", "r", "p", "c"}
Begins(tok, i) == i + (IF tok.d \in ArgumentFirst THEN 1 ELSE 0)
Vs(tok) == {p \in LooksAt(tok.d) : paramGet(tok.params, p).kind = "v"}
Before(tok, p) == Cardinality({q \in Vs(tok) : q < p})
NumberOr(c, def) == IF c.t = "number" THEN c.n ELSE def
\* The value of parameter p, of a directive at place i that has arguments enough.
ValueOf(tok, p, def, all, i) ==
  LET par == paramGet(tok.params, p) place == Begins(tok, i) + Before(tok, p) IN
    CASE par.kind = "int" -> par.n
      [] par.kind = "v" -> NumberOr(all[place + 1], def)
      [] par.kind = "#" -> Len(all) - place
      [] OTHER -> def
Escapes(tok, all, i) ==
  LET v(p) == ValueOf(tok, p, 0, all, i) n == Len(tok.params)
  IN CASE n = 0 -> i >= Len(all) [] n = 1 -> v(1) = 0
       [] n = 2 -> v(1) <= v(2) [] n = 3 -> v(1) <= v(2) /\ v(2) <= v(3)
Reaches(tok, all, i) ==
  LET n == ValueOf(tok, 1, 1, all, i)
  IN CASE tok.at -> n [] tok.colon /\ ~tok.at -> (IF i < n THEN 0 ELSE i - n)
       [] OTHER -> i + Cardinality(Vs(tok)) + n

\* What is printed, the place in the arguments behind it, and why it ended
\* early: an escape, an error, or an error that no ~[ keeps back.
Result(out, at, why) == [out |-> out, at |-> at, why |-> why]
Wrong(at) == Result(<<Item(Nil, 0)>>, at, "error")
DirectiveMeans(tok, all, i) ==
  LET end == i + Cardinality(Vs(tok)) + (IF tok.d \in Prints THEN 1 ELSE 0)
      arg == all[IF tok.d \in ArgumentFirst THEN i + 1 ELSE end]
      width == ValueOf(tok, IF tok.d = "$" THEN 3 ELSE 1, 0, all, i)
  IN IF end > i /\ end > Len(all) THEN Wrong(i)
     ELSE CASE tok.d = "^" -> Result(<<>>, end, IF Escapes(tok, all, i) THEN "escape" ELSE "")
            [] tok.d = "*" -> Result(<<>>, Reaches(tok, all, i), "")
            [] tok.d = "p" -> Result(<<[c |-> IF NumberOr(arg, 0) = 1 THEN 1 ELSE 2, width |-> -2]>>,
                                     IF tok.at /\ ~tok.colon THEN i ELSE end, "")
            [] tok.d = "c" /\ arg.t \notin {"number", "string"} -> Result(<<>>, end, "error")
            [] tok.d = "r" /\ ValueOf(tok, 1, 10, all, i) \notin 2..36 -> Result(<<>>, end, "error")
            [] tok.d \in {"r", "c"} -> Result(<<Item(arg, 0)>>, end, "")
            [] tok.d \in Prints -> Result(<<Item(arg, width)>>, end, "")
            [] OTHER -> Result(<<TextItem>>, end, "")

RECURSIVE Means(_, _, _), Repeats(_, _), Lists(_, _)
\* A body over a list, until nothing is left, it takes nothing or it escapes.
Repeats(b, all) ==
  IF all = <<>> THEN Result(<<>>, 0, "")
  ELSE LET r == Means(b, all, 0) IN
         IF r.why \in {"error", "panic"} THEN r
         ELSE IF r.at = 0 THEN [r EXCEPT !.why = ""]
         ELSE IF r.at > Len(all) THEN [r EXCEPT !.why = "panic"]
         ELSE IF r.why = "escape" THEN r
         ELSE LET more == Repeats(b, SubSeq(all, r.at + 1, Len(all))) IN [more EXCEPT !.out = r.out \o @]
\* One list after the other, until one of them escapes.
Lists(b, items) ==
  IF items = <<>> THEN Result(<<>>, 0, "")
  ELSE LET r == Repeats(b, cellToSlice(Head(items))) IN
         IF r.why # "" THEN r
         ELSE LET more == Lists(b, Tail(items)) IN [more EXCEPT !.out = r.out \o @]
Unescaped(r) == [r EXCEPT !.why = IF @ = "escape" THEN "" ELSE @]

\* ~[ with the argument that chooses at i: the place after it is that of the
\* argument, whatever the clause takes, and its errors are forgotten.
Chosen(x, all, i) ==
  LET c == IF i < Len(all) THEN all[i + 1] ELSE Nil
      n == CASE x.k = "bool" -> (IF c.t = "nil" THEN 1 ELSE 2) [] x.k = "when" -> 1
             [] OTHER -> NumberOr(c, 0) + 1
      after == IF x.k = "when" /\ c.t # "nil" THEN i ELSE i + 1
      r == IF x.k = "when" /\ c.t = "nil" THEN Result(<<>>, 0, "")
           ELSE IF n \in DOMAIN Clauses(x) THEN Means(Clauses(x)[n], all, IF i < Len(all) THEN after ELSE i)
           ELSE IF x.k = "else" THEN Means(Last(x.b).b, all, after) ELSE Result(<<>>, 0, "")
  IN Result(r.out, after, IF r.why = "panic" THEN "panic" ELSE IF i >= Len(all) THEN "error" ELSE "")

\* ~? and ~@?, whose argument is Inner or no control string at all.
Recurses(tok, all, i) ==
  LET list == IF i + 1 < Len(all) THEN cellToSlice(all[i + 2]) ELSE <<>>
      r == Means(Inner, IF tok.at THEN SubSeq(all, i + 2, Len(all)) ELSE list, 0)
  IN IF i >= Len(all) \/ all[i + 1].t # "string" \/ r.why = "error" THEN Result(<<>>, i, "error")
     ELSE Result(r.out, IF tok.at THEN Len(all) ELSE i + 2,
                 IF ~tok.at /\ i + 1 >= Len(all) THEN "error" ELSE "")

Means(nodes, all, i) ==
  IF nodes = <<>> THEN Result(<<>>, i, "")
  ELSE LET x == Head(nodes)
           from == IF i <= Len(all) THEN SubSeq(all, i + 1, Len(all)) ELSE <<>>
           list == IF from = <<>> THEN <<>> ELSE cellToSlice(Head(from))
           r == CASE x.k = "directive" ->
                       IF x.b[1].d = "?" THEN Recurses(x.b[1], all, i) ELSE DirectiveMeans(x.b[1], all, i)
                  [] x.k = "case" -> LET c == Unescaped(Means(x.b, all, i))
                                     IN IF c.why = "" THEN c ELSE [c EXCEPT !.out = <<>>]
                  [] x.k = "rest" -> IF i > Len(all) THEN Result(<<>>, i, "panic")
                                     ELSE [Unescaped(Repeats(x.b, from)) EXCEPT !.at = Len(all)]
                  [] x.k \in {"each", "lists"} ->
                       IF from = <<>> THEN Result(<<>>, i, "error")
                       ELSE [IF x.k = "each" THEN Unescaped(Repeats(x.b, list)) ELSE Lists(x.b, list)
                             EXCEPT !.at = i + 1]
                  [] OTHER -> Chosen(x, all, i)
       IN IF r.why # "" THEN r
          ELSE LET more == Means(Tail(nodes), all, r.at) IN [more EXCEPT !.out = r.out \o @]

\* Every directive prints the argument the tree says, padded as its parameters
\* say, however the blocks are nested: one takes its arguments behind the one
\* before it, the clauses of ~[ give theirs back, and an escape ends the
\* iteration, clause, case block or inner control string it stands in, but out
\* of ~:{ it ends what stands around that as well.
BlocksKeepOrder(nodes, args) ==
  LET m == Means(nodes, args, 0)
  IN fnFormat(Flat(nodes), args) = IF m.why \in {"error", "panic"} THEN << [c |-> 0, width |-> -3] >> ELSE m.out
=============================================================================
