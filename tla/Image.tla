---------------------------------- MODULE Image ----------------------------------
(****************************************************************************)
(* The parts of one Lisp image that share the process but no state: the     *)
(* bindings, the inspector, a Maxima session, the sigoREST client, a        *)
(* population of the genetic algorithms, the WebSocket hub with two         *)
(* browsers, conditions and their handlers, systems of files, and the       *)
(* algorithms without state.  A behaviour is one of the parts at work while *)
(* the others rest, which loses nothing, since no action of one reads what  *)
(* another writes.                                                          *)
(****************************************************************************)
EXTENDS Bindings, Inspector, Maxima, Sigo, Genalg, WsBridge, Conditions, Defsystem, Algorithms

VARIABLES part,    \* the part at work
          problem  \* what the algorithms are given

Part == {"bindings", "inspector", "maxima", "sigo", "genalg", "hub", "conditions", "systems", "algorithms"}
NoProblem == [kind |-> "none"]
\* Three systems, of which one may not be known, for %topo.
Dependencies ==
  {g \in [{"a", "b", "c"} -> {[dependsOn |-> d, components |-> <<>>] : d \in Distinct({"a", "b", "c"})} \cup {Unknown}] :
     g["a"] # Unknown /\ g["b"] # Unknown}
sequentialVars == <<conditionVars, defsystemVars>>
otherVars == <<bindingsVars, inspectorVars, maximaVars, sigoVars, gaVars, vars>>
imageVars == <<part, problem, otherVars, sequentialVars>>

\* The parts at rest are in one of their initial states.
ImageInit ==
  /\ part \in Part
  /\ problem \in IF part = "algorithms" THEN Problem \cup [kind : {"order"}, known : Dependencies] ELSE {NoProblem}
  /\ BindingsInit /\ (part = "bindings" \/ \A n \in Name : rootVars[n] = NoCell)
  /\ InspectorInit /\ (part = "inspector" \/ \A x \in Object : contents[x] = <<>>)
  /\ MaximaInit /\ SigoInit /\ GenalgInit /\ Init
  /\ IF part = "conditions" THEN ConditionsInit ELSE ConditionsStart({<<>>})
  /\ IF part = "systems" THEN DefsystemInit ELSE DefsystemStart({Unknown})

ImageNext ==
  /\ UNCHANGED <<part, problem>>
  /\ \/ /\ part = "bindings" /\ BindingsNext
        /\ UNCHANGED <<sequentialVars, inspectorVars, maximaVars, sigoVars, gaVars, vars>>
     \/ /\ part = "inspector" /\ InspectorStep
        /\ UNCHANGED <<sequentialVars, bindingsVars, maximaVars, sigoVars, gaVars, vars>>
     \/ /\ part = "maxima" /\ MaximaNext
        /\ UNCHANGED <<sequentialVars, bindingsVars, inspectorVars, sigoVars, gaVars, vars>>
     \/ /\ part = "sigo" /\ SigoNext
        /\ UNCHANGED <<sequentialVars, bindingsVars, inspectorVars, maximaVars, gaVars, vars>>
     \/ /\ part = "genalg" /\ GenalgNext
        /\ UNCHANGED <<sequentialVars, bindingsVars, inspectorVars, maximaVars, sigoVars, vars>>
     \/ /\ part = "hub" /\ Next
        /\ UNCHANGED <<sequentialVars, bindingsVars, inspectorVars, maximaVars, sigoVars, gaVars>>
     \/ part = "conditions" /\ ConditionsNext /\ UNCHANGED <<otherVars, defsystemVars>>
     \/ part = "systems" /\ DefsystemNext /\ UNCHANGED <<otherVars, conditionVars>>

ImageSpec == ImageInit /\ [][ImageNext]_imageVars

\* Types of the variables of the part at work.
ImageTypeOK ==
  CASE part = "bindings" -> BindingsTypeOK
    [] part = "inspector" -> InspectorTypeOK
    [] part = "maxima" -> MaximaTypeOK
    [] part = "sigo" -> SigoTypeOK
    [] part = "genalg" -> GenalgTypeOK
    [] part = "hub" -> TypeOK
    [] part = "conditions" -> ConditionsTypeOK
    [] part = "systems" -> DefsystemTypeOK
    [] part = "algorithms" -> problem.kind \in {"blocks", "directive", "number", "text", "parameters", "call", "json", "order"}

\* FORMAT's directives and blocks hand the arguments on in order and end early
\* where the tree says so (format_blocks.go); numerals, number words, commas,
\* padding, columns and capitals are right (format_dirs.go), parameters are read
\* as they are written (format.go), and printf's %d is read back by sscanf but
\* for zeros before a sign (cformat.go).
FormatMatches == part = "algorithms" => FormatSolved(problem)


\* Systems are sorted by what they need, loaded once in that order, resumed after
\* a failure, and unloaded without harm to others (defsystem.lisp).
SystemsMatch ==
  /\ problem.kind = "order" => TopoSorts(problem.known, "a")
  /\ part = "systems" => LoadsInOrder /\ UnloadsOwn
==================================================================================
