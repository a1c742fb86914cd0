------------------------------- MODULE Conditions -------------------------------
(****************************************************************************)
(* The conditions of the standard library (condition.lisp): the registry of *)
(* types, signal, and handler-case over trap (eval_control.go), with load   *)
(* (eval_load.go) between the signal and its handlers.                      *)
(*                                                                          *)
(* A program is what surrounds a signal, innermost first: handler-cases,    *)
(* with a type and what the clause does for each clause, and loads.         *)
(* Bodies that return a list with %cond-caught in front are left out.       *)
(****************************************************************************)
EXTENDS Naturals, Sequences, FiniteSets, SequencesExt

CONSTANTS UserType,    \* names of types the program defines
          ParentType,  \* types it gives them for parents
          ClauseType,  \* types of clauses
          MaxDefs      \* bound of the model: define-conditions

BaseType == {"condition", "error", "lisp-error"}
ConditionType == BaseType \cup UserType
ParentLists == {<<p>> : p \in ParentType} \cup {pq \in ParentType \X ParentType : pq[1] # pq[2]}
Undefined == <<"?">> \* no entry in *condition-types*

\* What trap catches: the cell of a LispError or the text of a Go error.
Condition(t) == [kind |-> "condition", type |-> t]
Message == [kind |-> "message", type |-> "lisp-error"]
NoError == [kind |-> "value", type |-> "lisp-error"]

LoadFrame == [kind |-> "load", clauses |-> <<>>]
HandlerCase(clauses) == [kind |-> "handler-case", clauses |-> clauses]
Returning == {<<t, "return">> : t \in ClauseType}
Clause == Returning \cup {<<t, "signal">> : t \in ClauseType}
HandlerCases == {HandlerCase(<<c>>) : c \in Clause}
                \cup {HandlerCase(<<c, d>>) : c, d \in Returning}
Program == {<<>>} \cup {<<f>> : f \in HandlerCases}
           \cup {<<f, g>> : f \in HandlerCases \cup {LoadFrame}, g \in HandlerCases}
           \cup {<<HandlerCase(<<c>>), LoadFrame, HandlerCase(<<d>>)>> : c, d \in Clause}

ASSUME ConditionsAssumption ==
  IsFiniteSet(UserType) /\ ParentType \cup ClauseType \subseteq ConditionType

VARIABLES conditionTypes, \* *condition-types*: the parents of each type
          definitionsMade,
          program,  \* what surrounds the signal
          conditionAt, \* "toplevel", "raised" or "ended"
          level,    \* the next form on the way out
          raised,   \* what is on its way
          origin,   \* the last signal: its type and the form it started at
          handled   \* the last clause that took an error: its level, its place and the origin

NotHandled == [level |-> 0, clause |-> 0, origin |-> [error |-> NoError, level |-> 0]]
conditionVars == <<conditionTypes, definitionsMade, program, conditionAt, level, raised, origin, handled>>

ConditionsStart(programs) ==
  /\ conditionTypes = [[t \in ConditionType |-> Undefined] EXCEPT
       !["condition"] = <<>>, !["error"] = <<"condition">>, !["lisp-error"] = <<"error">>]
  /\ definitionsMade = 0
  /\ program \in programs
  /\ conditionAt = "toplevel" /\ level = 1 /\ raised = NoError
  /\ origin = NotHandled.origin /\ handled = NotHandled
ConditionsInit == ConditionsStart(Program)

\* define-condition; a type that is defined again silently gets its new parents.
DefineCondition ==
  /\ conditionAt = "toplevel" /\ definitionsMade < MaxDefs
  /\ definitionsMade' = definitionsMade + 1
  /\ \E t \in UserType, parents \in ParentLists : conditionTypes' = [conditionTypes EXCEPT ![t] = parents]
  /\ UNCHANGED <<program, conditionAt, level, raised, origin, handled>>

\* The error of (signal type): a type that is not known is reported as text.
Signalled(type) == IF conditionTypes[type] = Undefined THEN Message ELSE Condition(type)

Raise(error, from) ==
  /\ raised' = error /\ level' = from
  /\ origin' = [error |-> error, level |-> from]

\* The program raises a condition, or an error of Go code.
Signal ==
  /\ conditionAt = "toplevel" /\ conditionAt' = "raised"
  /\ \/ \E type \in UserType : Raise(Signalled(type), 1)
     \/ Raise(Message, 1)
  /\ UNCHANGED <<conditionTypes, definitionsMade, program, handled>>

\* %cond-subtype? of every type, if it is verdict of their parents: these are
\* asked in their order.
AskParents(verdict, super) ==
  [t \in ConditionType |->
     IF t = super THEN "yes"
     ELSE IF conditionTypes[t] = Undefined THEN "no"
     ELSE LET first == SelectInSeq(conditionTypes[t], LAMBDA p : verdict[p] # "no")
          IN IF first = 0 THEN "no" ELSE verdict[conditionTypes[t][first]]]

\* %cond-subtype?, by depth: "yes", "no", or "deep" when parents that go round in
\* a circle exhaust the recursion depth.  left counts the types that a path
\* without repetition may still have.
CondSubtype(sub, super) ==
  LET search[left \in 0..Cardinality(ConditionType)] ==
        IF left = 0 THEN [t \in ConditionType |-> IF t = super THEN "yes" ELSE "deep"]
        ELSE AskParents(search[left - 1], super)
  IN search[Cardinality(ConditionType)][sub]

Raised == conditionAt = "raised" /\ level <= Len(program)
Here == program[level]

\* evalTrap hands its handler the cell only of an error that is a *LispError
\* itself; loadFile wraps the error, and so its text is all that is left.
LoadWraps ==
  /\ Raised /\ Here.kind = "load"
  /\ raised' = IF raised.kind = "value" THEN raised ELSE Message
  /\ level' = level + 1
  /\ UNCHANGED <<conditionTypes, definitionsMade, program, conditionAt, origin, handled>>

\* handler-case with a value hands it on.
HandlerPasses ==
  /\ Raised /\ Here.kind = "handler-case" /\ raised.kind = "value"
  /\ level' = level + 1
  /\ UNCHANGED <<conditionTypes, definitionsMade, program, conditionAt, raised, origin, handled>>

\* Its clauses are tried in their order: the first that is not passed over.
Tried(clause) == CondSubtype(raised.type, clause[1])
LastClause == SelectLastInSeq(Here.clauses, LAMBDA clause : Tried(clause) # "no")
FirstClause == SelectInSeq(Here.clauses, LAMBDA clause : Tried(clause) # "no")

\* %cond-coerce and the clauses, which are evaluated outside of the trap.
HandlerTakes ==
  /\ Raised /\ Here.kind = "handler-case" /\ raised.kind # "value"
  /\ FirstClause # 0
  /\ LET clause == Here.clauses[FirstClause] IN
       IF Tried(clause) = "deep" THEN Raise(Message, level + 1) /\ UNCHANGED handled
       ELSE /\ handled' = [level |-> level, clause |-> FirstClause, origin |-> origin]
            /\ IF clause[2] = "signal" THEN Raise(Signalled(clause[1]), level + 1)
               ELSE raised' = NoError /\ level' = level + 1 /\ UNCHANGED origin
  /\ UNCHANGED <<conditionTypes, definitionsMade, program, conditionAt>>

\* (error (cadr raw)): the error as it was caught, not what it was coerced to.
HandlerResignals ==
  /\ Raised /\ Here.kind = "handler-case" /\ raised.kind # "value"
  /\ FirstClause = 0
  /\ level' = level + 1
  /\ UNCHANGED <<conditionTypes, definitionsMade, program, conditionAt, raised, origin, handled>>

ConditionEnds ==
  /\ conditionAt = "raised" /\ level > Len(program)
  /\ conditionAt' = "ended"
  /\ UNCHANGED <<conditionTypes, definitionsMade, program, level, raised, origin, handled>>

ConditionsNext == \/ DefineCondition \/ Signal \/ LoadWraps \/ HandlerPasses
                  \/ HandlerTakes \/ HandlerResignals \/ ConditionEnds
ConditionsSpec == ConditionsInit /\ [][ConditionsNext]_conditionVars
--------------------------------------------------------------------------------
ConditionsTypeOK ==
  /\ conditionTypes \in [ConditionType -> ParentLists \cup {<<>>, <<"condition">>, <<"error">>, Undefined}]
  /\ definitionsMade \in 0..MaxDefs /\ program \in Program
  /\ conditionAt \in {"toplevel", "raised", "ended"} /\ level \in 1..(Len(program) + 1)
  /\ raised \in {NoError, Message} \cup {Condition(t) : t \in ConditionType}
  /\ handled.level \in 0..Len(program) /\ handled.clause \in 0..2

\* The types below which a type lies: the least set that holds the type itself
\* and the parents of each of its members.
Closed(types) ==
  \A t \in types : conditionTypes[t] = Undefined \/ ToSet(conditionTypes[t]) \subseteq types
Ancestors(type) == {t \in ConditionType : \A S \in SUBSET ConditionType : type \in S /\ Closed(S) => t \in S}
Strict(t) == IF conditionTypes[t] = Undefined THEN {} ELSE UNION {Ancestors(p) : p \in ToSet(conditionTypes[t])}
Circular == \E t \in ConditionType : t \in Strict(t)

\* The clauses of form i that apply to a type, and what a signal is seen as
\* there: behind a load every error is a lisp-error.
Applies(i, type) == {j \in DOMAIN program[i].clauses : program[i].clauses[j][1] \in Ancestors(type)}
SeenAs(signal, i) ==
  IF \E k \in signal.level..(i - 1) : program[k].kind = "load" THEN "lisp-error" ELSE signal.error.type
AsSignalled(signal, i) == signal.error.type
TakenBy(signal, Seen(_, _), i) == Applies(i, Seen(signal, i)) # {}

\* A signal ends in the innermost handler-case around it with a clause for its
\* type or a type above it, in the first such clause, and in the program's end
\* only if there is none.
Nearest(Seen(_, _)) ==
  /\ handled # NotHandled =>
       LET signal == handled.origin IN
         /\ TakenBy(signal, Seen, handled.level)
         /\ \A j \in Applies(handled.level, Seen(signal, handled.level)) : handled.clause <= j
         /\ \A i \in signal.level..(handled.level - 1) : ~TakenBy(signal, Seen, i)
  /\ conditionAt = "ended" /\ raised.kind # "value" =>
       \A i \in origin.level..Len(program) : ~TakenBy(origin, Seen, i)

\* handler-case finds the nearest handler in its order (condition.lisp, lines 18
\* and 19), as long as no type is its own ancestor.
NearestHandler == (handled # NotHandled \/ conditionAt = "ended") /\ ~Circular => Nearest(SeenAs)

\* The handlers around a load see the conditions that are signalled in the file,
\* as the example at the head of condition.lisp has it:
\* (handler-case (load "x.lisp") (file-error (e) ...) (io-error (e) ...)).
ConditionLeavesFile == ~Circular => Nearest(AsSignalled)
================================================================================
