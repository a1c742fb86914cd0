------------------------------- MODULE LambdaList -------------------------------
(****************************************************************************)
(* How a closure's parameters are bound (eval_lambda.go): bindEvalArgs for  *)
(* a call written in the program, from the argument expressions, and        *)
(* bindArgs for apply, funcall, mapcar and macros, from values.             *)
(*                                                                          *)
(* A lambda list is a sequence of [kind, name, def, sup]: "required",       *)
(* "optional", "key" or "rest", with a default value and a supplied-p name, *)
(* or NoName.  An argument is [key, val]: a keyword of the program, whose   *)
(* value it is itself, or an expression and its value, which may be a       *)
(* keyword too.                                                             *)
(****************************************************************************)
EXTENDS Integers, Sequences, FiniteSets, SequencesExt

NoName == "none"
NoKey == ""
Param(kind, name, def, sup) == [kind |-> kind, name |-> name, def |-> def, sup |-> sup]
Arg(v) == [key |-> NoKey, val |-> v]
KeyArg(k) == [key |-> k, val |-> k]
NilValue == "nil"
Values(args) == [i \in DOMAIN args |-> args[i].val]

\* A binding: the frame as a set of <<name, value>>, and whether it failed.
bindSupplied(frame, sup, delivered) ==
  IF sup = NoName THEN frame ELSE frame \cup {<<sup, IF delivered THEN "t" ELSE NilValue>>}
Bound(acc, p, v, delivered) ==
  [acc EXCEPT !.frame = bindSupplied(@ \cup {<<p.name, v>>}, p.sup, delivered)]
Refused(acc, why) == [acc EXCEPT !.err = why]
Start(args) == [frame |-> {}, left |-> args, err |-> "", done |-> FALSE]
HasKey(params) == \E i \in DOMAIN params : params[i].kind = "key"
FirstKey(args, k) == SelectInSeq(args, LAMBDA a : a.key = k)
FirstKeyValue(args, k) == SelectInSeq(args, LAMBDA a : a.val = k)

\* Required and optional parameters take the next argument, rest all that are
\* left, and ends the binding even if keys follow it.  (Both functions have this
\* loop; they differ in how they find a keyword.)
Positional(acc, p) ==
  CASE p.kind = "rest" -> [acc EXCEPT !.frame = @ \cup {<<p.name, Values(acc.left)>>}, !.left = <<>>, !.done = TRUE]
    [] p.kind # "rest" /\ acc.left # <<>> ->
         Bound([acc EXCEPT !.left = Tail(@)], p, Head(acc.left).val, TRUE)
    [] p.kind = "optional" /\ acc.left = <<>> -> Bound(acc, p, p.def, FALSE)
    [] OTHER -> Refused(acc, "few")

Bind(params, args, Key(_, _)) ==
  LET end == FoldLeft(LAMBDA acc, p : IF acc.err # "" \/ acc.done THEN acc
                                      ELSE IF p.kind = "key" THEN Key(acc, p) ELSE Positional(acc, p),
                      Start(args), params)
  IN IF end.err = "" /\ ~end.done /\ ~HasKey(params) /\ end.left # <<>> THEN Refused(end, "many") ELSE end

\* bindArgs finds keywords among the values; one at the end, without a value,
\* is as if it were not there.
KeyOfValues(acc, p) ==
  LET k == FirstKeyValue(acc.left, p.name)
  IN IF k # 0 /\ k < Len(acc.left) THEN Bound(acc, p, acc.left[k + 1].val, TRUE)
     ELSE Bound(acc, p, p.def, FALSE)

\* bindEvalArgs finds them among the expressions, and one without a value is an
\* error.  Only the arguments of the keys that the lambda list has are evaluated.
KeyOfExprs(acc, p) ==
  LET k == FirstKey(acc.left, p.name)
  IN IF k = 0 THEN Bound(acc, p, p.def, FALSE)
     ELSE IF k = Len(acc.left) THEN Refused(acc, "no value")
     ELSE Bound(acc, p, acc.left[k + 1].val, TRUE)

bindArgs(params, args) == Bind(params, args, KeyOfValues)
bindEvalArgs(params, args) == Bind(params, args, KeyOfExprs)

----------------------------------------------------------------------------
\* A call that is written as its lambda list asks: after the positional
\* arguments only keywords and values, in turn, none of them twice.
Positionals(params) == Cardinality({i \in DOMAIN params : params[i].kind \in {"required", "optional"}})
WellFormed(params, args) ==
  LET n == Positionals(params) tail == SubSeq(args, n + 1, Len(args)) IN
    HasKey(params) /\ Len(args) > n =>
      /\ Len(tail) % 2 = 0
      /\ \A i \in DOMAIN tail : (tail[i].key # NoKey) = (i % 2 = 1)
      /\ \A i \in DOMAIN tail : i % 2 = 0 => \A j \in DOMAIN params : tail[i].val # params[j].name
      /\ \A i, j \in DOMAIN tail : i # j /\ tail[i].key # NoKey => tail[i].key # tail[j].key

\* What the lambda list means: the i-th positional parameter is the i-th
\* argument, a key the value behind its keyword, anything else its default.
ByMeaning(params, args) ==
  LET n == Positionals(params)
      keyAt(i) == {k \in n + 1..Len(args) : args[k].key = params[i].name}
      given(i) == IF params[i].kind = "key" THEN keyAt(i) # {} ELSE i <= Len(args)
      value(i) == CASE params[i].kind = "rest" -> Values(SubSeq(args, i, Len(args)))
                    [] params[i].kind # "rest" /\ ~given(i) -> params[i].def
                    [] params[i].kind = "key" /\ given(i) -> args[(CHOOSE k \in keyAt(i) : TRUE) + 1].val
                    [] OTHER -> args[i].val
  IN UNION {bindSupplied({<<params[i].name, value(i)>>}, params[i].sup, given(i)) : i \in DOMAIN params}

\* A well-formed call binds what its lambda list means, and the same whether it
\* is written in the program or goes through apply; one with too few or too
\* many arguments is refused by both.  Each path is compared with ByMeaning, so
\* that a slip in what they share does not go unnoticed.
BothPathsBind(params, args) ==
  LET a == bindArgs(params, args) e == bindEvalArgs(params, args)
      required == Cardinality({i \in DOMAIN params : params[i].kind = "required"})
      open == \E i \in DOMAIN params : params[i].kind \in {"key", "rest"}
      fits == Len(args) >= required /\ (open \/ Len(args) <= Positionals(params))
  IN WellFormed(params, args) =>
       /\ (a.err = "") = fits /\ (e.err = "") = fits
       /\ fits => a.frame = ByMeaning(params, args) /\ e.frame = a.frame
=============================================================================
