------------------------------- MODULE Inspector -------------------------------
(****************************************************************************)
(* The inspector of the SWANK server (swank.lisp): the table of the parts   *)
(* of the current object, its rendered content, and the objects one can go  *)
(* back and forward to.  An object is a value of the model; contents[x] are *)
(* the objects it is made of, which inspector-eval may change behind the    *)
(* inspector's back.                                                        *)
(****************************************************************************)
EXTENDS Naturals, Sequences, FiniteSets, SequencesExt

CONSTANTS Object,     \* what can be inspected; TypeName and "nil" are not among them
          MaxParts,   \* bound of the model: the parts of an object
          MaxHistory  \* bound of the model: objects visited

ASSUME InspectorAssumption ==
  MaxParts \in Nat \ {0} /\ MaxHistory \in Nat \ {0} /\ "type" \notin Object /\ "nil" \notin Object

VARIABLES
  contents,    \* contents[x]: the objects x consists of
  inspectee,   \* *inspectee*
  inspParts,   \* swank--insp-parts: part numbers from 0 on are places from 1 on
  inspContent, \* swank--insp-content: the part numbers that the rendering shows
  inspBack, inspFwd  \* swank--insp-back and -fwd, the nearest first

inspectorVars == <<contents, inspectee, inspParts, inspContent, inspBack, inspFwd>>

\* type-of's symbol is a part like any other; only itself is behind it.
TypeName == "type"
Nothing == "nil"
Inspectable == Object \cup {TypeName, Nothing}
PartsOf(x) == IF x \in Object THEN contents[x] ELSE <<>>

InspectorInit ==
  /\ contents \in [Object -> {<<>>} \cup [1..MaxParts -> Object]]
  /\ inspectee = Nothing /\ inspParts = <<>> /\ inspContent = <<>>
  /\ inspBack = <<>> /\ inspFwd = <<>>

----------------------------------------------------------------------------
\* swank--insp-open: the table is emptied, part 0 is the object, then come its
\* type and its body's parts in the order of the rendering.
Open(x) ==
  /\ inspectee' = x
  /\ inspParts' = <<x, TypeName>> \o PartsOf(x)
  /\ inspContent' = [k \in 1..(Len(inspParts') - 1) |-> k]
  /\ UNCHANGED contents

\* swank--insp-range: a window of the content; the answer to an open shows the
\* first one.  Nothing changes.
InspectorRange(from, to) ==
  SubSeq(inspContent, from + 1, IF to < Len(inspContent) THEN to ELSE Len(inspContent))

\* An expression that fails leaves everything as it was.
InitInspector(x) ==
  /\ inspBack' = <<>> /\ inspFwd' = <<>> /\ Open(x)

\* Part numbers that the table does not hold are answered with :abort.
InspectNthPartKeepsForward(n) ==
  /\ n < Len(inspParts) /\ Len(inspBack) + 1 < MaxHistory
  /\ inspBack' = <<inspectee>> \o inspBack /\ UNCHANGED inspFwd
  /\ Open(inspParts[n + 1])

InspectNthPart(n) ==
  /\ n < Len(inspParts) /\ Len(inspBack) + 1 < MaxHistory
  /\ inspBack' = <<inspectee>> \o inspBack /\ inspFwd' = <<>>
  /\ Open(inspParts[n + 1])

InspectorPop ==
  /\ inspBack # <<>>
  /\ inspBack' = Tail(inspBack) /\ inspFwd' = <<inspectee>> \o inspFwd
  /\ Open(Head(inspBack))

InspectorNext ==
  /\ inspFwd # <<>>
  /\ inspFwd' = Tail(inspFwd) /\ inspBack' = <<inspectee>> \o inspBack
  /\ Open(Head(inspFwd))

InspectorReinspect == Open(inspectee) /\ UNCHANGED <<inspBack, inspFwd>>

QuitInspector ==
  /\ inspectee' = Nothing /\ inspParts' = <<>> /\ inspContent' = <<>>
  /\ inspBack' = <<>> /\ inspFwd' = <<>> /\ UNCHANGED contents

\* inspector-eval: the forms may change any object, and the buffer is not
\* rendered again.
InspectorEval(x, parts) ==
  /\ contents' = [contents EXCEPT ![x] = parts]
  /\ UNCHANGED <<inspectee, inspParts, inspContent, inspBack, inspFwd>>

InspectorMoves ==
  \/ \E x \in Object : InitInspector(x)
  \/ \E n \in 0..MaxParts + 1 : InspectNthPart(n)
  \/ InspectorPop \/ InspectorNext \/ InspectorReinspect \/ QuitInspector
InspectorStep == InspectorMoves \/ \E x \in Object : \E y \in Object : InspectorEval(x, <<y>>)

InspectorSpec == InspectorInit /\ [][InspectorStep]_inspectorVars

----------------------------------------------------------------------------
InspectorTypeOK ==
  /\ contents \in [Object -> Seq(Object)] /\ inspectee \in Inspectable
  /\ inspParts \in Seq(Inspectable) /\ inspBack \in Seq(Inspectable) /\ inspFwd \in Seq(Inspectable)
  /\ ToSet(InspectorRange(0, 500)) \subseteq 0..Len(inspParts) - 1

\* The objects visited, in order, and which of them is the current one.
Visited == Reverse(inspBack) \o <<inspectee>> \o inspFwd
Current == Len(inspBack) + 1

\* The inspector is a history with a cursor, as in a browser: going back or
\* forward moves the cursor and changes none of the objects visited; a part is
\* visited after the current object and forgets those that came after it; and
\* nothing else moves but a new inspection and quitting (swank:inspector-pop,
\* -next, inspect-nth-part).
InspectorIsHistory ==
  [][ \/ Visited' = Visited /\ Current' \in {Current - 1, Current, Current + 1}
      \/ \E x \in Inspectable : /\ Visited' = Append(SubSeq(Visited, 1, Current), x)
                                /\ Current' = Current + 1
      \/ \E x \in Inspectable : Visited' = <<x>> ]_<<inspectee, inspBack, inspFwd>>
=============================================================================
