-------------------------------- MODULE JsonCell --------------------------------
(****************************************************************************)
(* The one mapping between cells and JSON (jsoncell.go), for json-encode,   *)
(* json-parse and the WebSocket bridge.                                     *)
(*                                                                          *)
(* A cell is [t, v, l]: its type, the name, text or number of an atom, and  *)
(* the cells of a list, a vector or an improper list, or the entries of a   *)
(* table, each a cell of its own with key and value.  A JSON value has the  *)
(* same shape, with a member of an object for each entry.  The order of a   *)
(* Go map's entries is arbitrary; the model keeps one and compares tables   *)
(* without it.                                                              *)
(****************************************************************************)
EXTENDS Naturals, Sequences, FiniteSets, SequencesExt, FiniteSetsExt

CONSTANT jsonMaxDepth \* 64 in the program

Cell(t, v, l) == [t |-> t, v |-> v, l |-> l]
Atom(name) == Cell("symbol", name, <<>>)
Str(text) == Cell("string", text, <<>>)
Number(n) == Cell("number", n, <<>>)
NilCell == Cell("nil", "", <<>>)
Function == Cell("function", "", <<>>)
TrueCell == Atom("t")
List(l) == IF l = <<>> THEN NilCell ELSE Cell("list", "", l)
Vector(l) == Cell("vector", "", l)
Improper(l) == Cell("improper", "", l)
Entry(key, val) == Cell("entry", "", <<key, val>>)
Table(entries) == Cell("table", "", entries)
Failure == Cell("error", "", <<>>)

Scalar(kind, v) == Cell(kind, v, <<>>)
Array(l) == Cell("array", "", l)
Member(name, val) == Cell("member", name, <<val>>)
JSONObject(members) == Cell("object", "", members)

\* A container, unless one of its parts has failed.
Unless(failed, container) == IF failed THEN Failure ELSE container
AnyFailed(l) == \E i \in DOMAIN l : l[i] = Failure

\* hashToJSONObject: names are strings or symbols, and none comes twice.
BadName(entries) == \E e \in ToSet(entries) : e.l[1].t \notin {"string", "symbol"}
DuplicateName(entries) ==
  \E i, j \in DOMAIN entries : i # j /\ entries[i].l[1].v = entries[j].l[1].v

\* cellToJSONValue; what has no JSON is an error, an infinite number (that the
\* encoder refuses) included.
RECURSIVE ToValue(_, _)
ToValue(c, depth) ==
  LET parts == [i \in DOMAIN c.l |-> ToValue(c.l[i], depth + 1)]
      values == [i \in DOMAIN c.l |-> ToValue(c.l[i].l[2], depth + 1)]
      members == [i \in DOMAIN c.l |-> Member(c.l[i].l[1].v, values[i])]
  IN IF depth > jsonMaxDepth THEN Failure ELSE
     CASE c.t = "nil" -> Array(<<>>)
       [] c.t = "number" -> Unless(c.v = "inf", Scalar("number", c.v))
       [] c.t = "string" -> Scalar("string", c.v)
       [] c = TrueCell -> Scalar("bool", "true")
       [] c = Atom(":false") -> Scalar("bool", "false")
       [] c = Atom(":null") -> Scalar("null", "")
       [] c.t = "symbol" /\ c.v \notin {"t", ":false", ":null"} -> Scalar("string", c.v)
       [] c.t \in {"list", "vector"} -> Unless(AnyFailed(parts), Array(parts))
       [] c.t = "table" ->
            Unless(BadName(c.l) \/ DuplicateName(c.l) \/ AnyFailed(values), JSONObject(members))
       [] OTHER -> Failure
CellToJSON(c) == ToValue(c, 0)

\* jsonValueToCell
RECURSIVE ToCell(_, _)
ToCell(v, depth) ==
  LET parts == [i \in DOMAIN v.l |-> ToCell(v.l[i], depth + 1)]
      values == [i \in DOMAIN v.l |-> ToCell(v.l[i].l[1], depth + 1)]
  IN IF depth > jsonMaxDepth THEN Failure ELSE
     CASE v.t = "null" -> Atom(":null")
       [] v.t = "bool" -> IF v.v = "true" THEN TrueCell ELSE NilCell
       [] v.t = "number" -> Number(v.v)
       [] v.t = "string" -> Str(v.v)
       [] v.t = "array" -> Unless(AnyFailed(parts), List(parts))
       [] v.t = "object" -> Unless(AnyFailed(values), Table([i \in DOMAIN v.l |-> Entry(Str(v.l[i].v), values[i])]))
JSONToCell(v) == ToCell(v, 0)

---------------------------------------------------------------------------------
\* What a cell comes back as: symbols as strings, vectors as lists, false as ().
RECURSIVE AsRead(_)
AsRead(c) ==
  CASE c = Atom(":false") -> NilCell
    [] c.t = "symbol" /\ c \notin {TrueCell, Atom(":null"), Atom(":false")} -> Str(c.v)
    [] c.t \in {"list", "vector"} -> List([i \in DOMAIN c.l |-> AsRead(c.l[i])])
    [] c.t = "table" -> Table([i \in DOMAIN c.l |-> Entry(Str(c.l[i].l[1].v), AsRead(c.l[i].l[2]))])
    [] OTHER -> c

RECURSIVE Depth(_), Representable(_)
Inner(c) == IF c.t = "table" THEN {e.l[2] : e \in ToSet(c.l)} ELSE ToSet(c.l)
Depth(c) == IF c.l = <<>> THEN 0 ELSE 1 + Max({Depth(d) : d \in Inner(c)})
Representable(c) ==
  /\ c.t \notin {"function", "improper"} /\ c # Number("inf")
  /\ c.t = "table" => ~BadName(c.l) /\ Cardinality({e.l[1].v : e \in ToSet(c.l)}) = Len(c.l)
  /\ \A d \in Inner(c) : Representable(d)

\* Everything that has a JSON and is not nested too deeply is encoded, with all
\* its entries, and what is encoded can be parsed again, to the same but for
\* the differences that jsoncell.go lists.
JSONReadsBack(c) ==
  LET v == CellToJSON(c) IN
    /\ (v # Failure) = (Representable(c) /\ Depth(c) <= jsonMaxDepth)
    /\ v # Failure => JSONToCell(v) = AsRead(c)
=================================================================================
