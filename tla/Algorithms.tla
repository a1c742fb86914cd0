------------------------------- MODULE Algorithms -------------------------------
(****************************************************************************)
(* The interpreter's algorithms without state, each against what it has to  *)
(* compute, over enumerated inputs: a problem is a record of an algorithm's *)
(* name and an input, and FormatSolved and DataSolved say that it comes out *)
(* right.                                                                   *)
(****************************************************************************)
EXTENDS Integers, Sequences

F == INSTANCE Format
T == INSTANCE FormatText
L == INSTANCE LambdaList
J == INSTANCE JsonCell WITH jsonMaxDepth <- 2

\* Control strings: a block, nested up to three deep, and what follows it.
Leaves == {F!ArgNode, F!TextNode}
Bodies == {<<x>> : x \in Leaves} \cup {<<x, y>> : x, y \in Leaves}
          \cup {<<F!ArgNode, F!EscapeNode, y>> : y \in Leaves}
ClauseNode(b) == F!Node("clause", b)
Blocks1 == {F!Node(k, b) : k \in {"case", "each", "rest", "lists", "when"}, b \in Bodies}
           \cup {F!Node(k, <<ClauseNode(<<x>>), ClauseNode(<<y, F!EscapeNode, z>>)>>) : k \in {"choose", "else", "bool"}, x, y, z \in Leaves}
           \cup {F!Directive(F!Token("?", FALSE, at, <<>>)) : at \in BOOLEAN}
Blocks2 == {F!Node(k, <<x, y>>) : k \in {"case", "each", "rest", "lists", "when"}, x \in Blocks1, y \in Leaves}
           \cup {F!Node(k, <<ClauseNode(<<x>>), ClauseNode(<<y>>)>>) : k \in {"choose", "else"}, x \in Blocks1, y \in Leaves}
Controls == {<<x, y>> : x \in Leaves \cup Blocks1 \cup Blocks2,
                        y \in Leaves \cup {F!Node("case", <<F!ArgNode>>)}}
Numbers == <<F!Num(1), F!Num(2), F!Num(3)>>
Lists == F!List(<<F!List(<<F!Num(1), F!Num(2)>>), F!List(<<F!Num(3)>>), F!List(Numbers)>>)
FormatArgs == { <<>>, <<F!Num(1)>>, <<F!Num(0)>> \o Numbers, <<F!Nil, F!Num(4)>>, <<F!List(Numbers), F!Num(4)>>,
                <<Lists, F!Num(4)>>, <<F!Num(1), Lists, F!Num(4)>>,
                <<F!List(<<F!List(<<F!Num(1), F!Num(2)>>), F!Num(3)>>), F!Num(4), F!Num(5)>>,
                <<F!Control(F!Flat(F!Inner)), F!List(<<F!Num(1)>>), F!Num(4)>>,
                <<F!List(<<F!Control(F!Flat(F!Inner)), F!List(Numbers), F!Num(5)>>), F!Num(6)>> }

\* Directives and their parameters, given or taken from the arguments.
Given == UNION {[1..n -> {F!Given(2), F!FromArgs, F!CountLeft, F!Missing}] : n \in 0..2}
         \cup {<<F!Given(7), p, F!Missing>> \o ps : p \in {F!FromArgs, F!CountLeft},
                ps \in UNION {[1..n -> {F!FromArgs, F!Missing}] : n \in 0..3}}
Directives ==
  {F!Token(d, FALSE, FALSE, ps) : d \in {"a", "d", "r", "f", "e", "g", "$", "t", "%"}, ps \in Given}
  \cup {F!Token(d, colon, at, <<>>) : d \in {"p", "c", "*"}, colon, at \in BOOLEAN}
  \cup {F!Token("*", colon, FALSE, <<p>>) : colon \in BOOLEAN, p \in {F!Given(2), F!FromArgs, F!CountLeft}}
  \cup {F!Token("^", FALSE, FALSE, ps) : ps \in UNION {[1..n -> {F!Given(2), F!FromArgs, F!CountLeft}] : n \in 1..3}}
ParameterArgs == { <<F!Num(1), F!Nil>>, <<F!Num(10), F!Num(2), F!Num(3), F!Num(4), F!Num(5), F!Num(6)>>,
                   <<F!Num(2), F!Nil, F!Num(1), F!Nil, F!Num(5), F!Num(6)>> }

\* Lambda lists and calls.
Required == L!Param("required", "a", L!NilValue, L!NoName)
Optional == L!Param("optional", "o", "9", "o-p")
Key(name) == L!Param("key", name, "8", L!NoName)
KeySupplied == L!Param("key", "k", L!NilValue, "k-p")
RestParam == L!Param("rest", "r", L!NilValue, L!NoName)
LambdaLists == { <<>>, <<Required>>, <<Required, Optional>>, <<Required, KeySupplied>>,
                 <<Required, KeySupplied, Key("l")>>, <<KeySupplied, Key("l")>>,
                 <<Required, RestParam>>, <<Optional, RestParam>>, <<Required, Optional, KeySupplied>> }
Arguments == {L!Arg("1"), L!Arg("2"), L!Arg("k"), L!KeyArg("k"), L!KeyArg("l")}
Calls == UNION {[1..n -> Arguments] : n \in 0..4}

\* Cells, nested up to four deep.
Atoms == {J!NilCell, J!TrueCell, J!Atom(":false"), J!Atom(":null"), J!Atom("a"), J!Str("a"), J!Number("1"),
          J!Number("inf"), J!Function}
Containers(S) ==
  {J!Improper(<<c>>) : c \in S} \cup {J!Table(<<>>), J!Vector(<<>>)}
  \cup UNION {{J!List(<<c>>), J!Vector(<<c>>), J!Table(<<J!Entry(k, c)>>)} :
              c \in S, k \in {J!Atom("a"), J!Str("b"), J!Number("1")}}
Cells1 == Containers(Atoms)
Cells2 == Containers({J!NilCell, J!Str("a")} \cup Cells1)
Cells == Atoms \cup Cells1 \cup Cells2
         \cup {J!List(<<c, d>>) : c \in Atoms, d \in Atoms \cup Cells1}
         \cup {J!Table(<<J!Entry(k, c), J!Entry(J!Str("a"), d)>>) :
                k \in {J!Atom("a"), J!Atom("b")}, c \in Atoms, d \in Atoms}
         \cup {J!List(<<J!List(<<c>>)>>) : c \in Cells2}

Parameters == {<<"v">>, <<"#">>, <<"'", "x">>, <<"1", "2">>, <<"-", "1">>}

\* One kind of problem after the other.
Problem ==
  [kind : {"blocks"}, control : Controls, args : FormatArgs]
  \cup [kind : {"directive"}, control : {<<F!Directive(tok), F!ArgNode>> : tok \in Directives}, args : ParameterArgs]
  \cup [kind : {"call"}, params : LambdaLists, args : Calls]
  \cup [kind : {"number"}, value : 0..260]
  \cup [kind : {"text"}, text : UNION {[1..n -> {"x", "X", "_", "nl"}] : n \in 0..4}]
  \cup [kind : {"json"}, cell : Cells]
  \cup [kind : {"parameters"}, given : UNION {[1..n -> Parameters] : n \in 0..3}]

\* Numbers also stand for greater ones, widths and counts of digits.
NumberSolved(v) ==
  /\ v > 0 => T!RomansMean(v) /\ T!RomansMean(((v * 15) % 3999) + 1)
  /\ T!WordsMean(v) /\ T!WordsMean((v * 97) % 5000)
  /\ \A left, plus, zero \in BOOLEAN, n \in {v, -v} : T!ReadsBack(n, v % 6, zero, left, plus)
  /\ \A interval \in 1..4 : T!CommasFromRight(T!Digits(v, 2), interval)
  /\ \A colinc \in 1..3, minpad \in 0..2 : T!PadsLeast(T!Digits(v, 3), v % 7, colinc, minpad)

\* FORMAT's directives on a text before them.
TextSolved(s) ==
  /\ T!CapitalsBegin(s)
  /\ \A n \in 1..2 : T!EndsLine(s, n)
  /\ \A colnum \in 0..6, colinc \in 0..3 : T!Tabulates(s, colnum, colinc)

\* Problems of FORMAT and of the printf family, and of the rest.
FormatSolved(p) ==
  CASE p.kind \in {"blocks", "directive"} -> F!BlocksKeepOrder(p.control, p.args)
    [] p.kind = "number" -> NumberSolved(p.value)
    [] p.kind = "text" -> TextSolved(p.text)
    [] p.kind = "parameters" -> T!ParamsReadBack(p.given)
    [] OTHER -> TRUE
DataSolved(p) ==
  CASE p.kind = "call" -> L!BothPathsBind(p.params, p.args)
    [] p.kind = "json" -> J!JSONReadsBack(p.cell)
    [] OTHER -> TRUE
=============================================================================
