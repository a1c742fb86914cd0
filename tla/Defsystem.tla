-------------------------------- MODULE Defsystem --------------------------------
(****************************************************************************)
(* Systems of files (defsystem.lisp): defsystem, load-system, unload-system *)
(* and loaded-systems, over the registry of places of definitions           *)
(* (defloc.go).                                                             *)
(*                                                                          *)
(* Every file defines a symbol of its own, its name, and the files of       *)
(* CommonFile also define one that they have in common.  A damaged file      *)
(* fails behind its definitions.  One goroutine at a time works on systems, *)
(* and the redefinition policy lets the files redefine.                     *)
(****************************************************************************)
EXTENDS Naturals, Sequences, FiniteSets, SequencesExt

CONSTANTS System, SourceFile, CommonFile,
          MaxRedefinitions \* bound of the model: systems defined again

Unknown == [dependsOn |-> <<"?">>, components |-> <<>>]
Symbols(f) == {f} \cup (IF f \in CommonFile THEN {"common"} ELSE {})
Symbol == UNION {Symbols(f) : f \in SourceFile}
Distinct(S) == {s \in UNION {[1..n -> S] : n \in 0..2} : IsInjective(s)}
Definition == [dependsOn : Distinct(System), components : Distinct(SourceFile)]

VARIABLES systems,       \* *systems*: what each system is, or Unknown
          loadedFiles,   \* *loaded-files*, the last one first
          loadedSystems, \* *loaded-systems*
          boundSymbols,
          definedBy,     \* the registry of places: the file of a symbol, or "" for none
          damaged,       \* files that cannot be loaded to their end
          redefined,     \* number of systems defined again
          last           \* the last operation and what there was before it

defsystemVars == <<systems, loadedFiles, loadedSystems, boundSymbols, definedBy, damaged, redefined, last>>
NoOperation == [op |-> "none", name |-> "", ok |-> TRUE, files |-> <<>>, loaded |-> {}]

\* %sys-loaded? and loaded-systems
SysLoaded(name, inFiles, inSystems) ==
  /\ systems[name] # Unknown /\ name \in ToSet(inSystems)
  /\ ToSet(systems[name].components) \subseteq ToSet(inFiles)
LoadedSystems == {s \in System : SysLoaded(s, loadedFiles, loadedSystems)}

DefsystemStart(definitions) ==
  /\ systems \in [System -> definitions]
  /\ loadedFiles = <<>> /\ loadedSystems = <<>>
  /\ boundSymbols = {} /\ definedBy = [s \in Symbol |-> ""]
  /\ damaged = {}
  /\ redefined = 0 /\ last = NoOperation
DefsystemInit ==
  DefsystemStart({d \in Definition : Len(d.dependsOn) <= 1 /\ d.components # <<>>} \cup {Unknown})

Operation(op, name, ok) ==
  last' = [op |-> op, name |-> name, ok |-> ok, files |-> loadedFiles, loaded |-> LoadedSystems]

\* defsystem: silently replaces what there was; the files stay loaded.
Defsystem ==
  /\ redefined < MaxRedefinitions /\ redefined' = redefined + 1
  /\ \E name \in System, components \in Distinct(SourceFile) :
       /\ systems[name] # Unknown
       /\ systems' = [systems EXCEPT ![name].components = components]
       /\ Operation("defsystem", name, TRUE)
  /\ UNCHANGED <<loadedFiles, loadedSystems, boundSymbols, definedBy, damaged>>

\* %topo: depth first, done with the last one in front; err for a circle or for
\* a system that is not known.
RECURSIVE Topo(_, _, _, _)
Topo(known, name, visiting, acc) ==
  IF acc.err # "" THEN acc
  ELSE IF name \in visiting THEN [acc EXCEPT !.err = "cycle"]
  ELSE IF name \in ToSet(acc.done) THEN acc
  ELSE IF known[name] = Unknown THEN [acc EXCEPT !.err = "unknown"]
  ELSE LET below == FoldLeft(LAMBDA a, dep : Topo(known, dep, visiting \cup {name}, a), acc, known[name].dependsOn)
       IN IF below.err # "" THEN below ELSE [below EXCEPT !.done = <<name>> \o @]
Order(known, name) == Topo(known, name, {}, [err |-> "", done |-> <<>>])

\* One component: skipped if it is loaded; entered only when load has returned.
World == [files |-> loadedFiles, systems |-> loadedSystems, bound |-> boundSymbols, by |-> definedBy, ok |-> TRUE]
LoadComponent(w, f) ==
  IF ~w.ok \/ f \in ToSet(w.files) THEN w
  ELSE [w EXCEPT !.bound = @ \cup Symbols(f),
                 !.by = [s \in Symbol |-> IF s \in Symbols(f) THEN f ELSE @[s]],
                 !.ok = f \notin damaged,
                 !.files = IF f \in damaged THEN @ ELSE <<f>> \o @]
LoadOne(w, name) ==
  LET end == FoldLeft(LoadComponent, w, systems[name].components)
  IN IF end.ok THEN [end EXCEPT !.systems = <<name>> \o SelectSeq(@, LAMBDA s : s # name)] ELSE end

Become(w) ==
  /\ loadedFiles' = w.files /\ loadedSystems' = w.systems
  /\ boundSymbols' = w.bound /\ definedBy' = w.by

\* load-system: nothing is loaded when the order fails; an error in a file ends
\* it and leaves what has been loaded.
LoadSystem(name) ==
  LET order == Order(systems, name) IN
    /\ IF order.err # "" THEN /\ Operation("load", name, FALSE)
                              /\ UNCHANGED <<loadedFiles, loadedSystems, boundSymbols, definedBy>>
       ELSE LET end == FoldLeft(LoadOne, World, Reverse(order.done))
            IN Become(end) /\ Operation("load", name, end.ok)
    /\ UNCHANGED <<systems, damaged, redefined>>

\* Does another system list the file, loaded or not?
FileListed(w, f, self) == \E s \in System \ {self} : f \in ToSet(systems[s].components)
\* %file-shared?: does another loaded system list the file?
FileShared(w, f, self) ==
  \E s \in System \ {self} : SysLoaded(s, w.files, w.systems) /\ f \in ToSet(systems[s].components)
UnloadComponent(self, w, f) ==
  IF f \notin ToSet(w.files) \/ FileShared(w, f, self) THEN w
  ELSE LET symbols == {s \in Symbol : w.by[s] = f /\ s \in w.bound} IN
         [w EXCEPT !.bound = @ \ symbols, !.by = [s \in Symbol |-> IF s \in symbols THEN "" ELSE @[s]],
                   !.files = Remove(@, f)]

\* unload-system: whether or not all of the system is loaded.
UnloadSystem(name) ==
  /\ systems[name] # Unknown
  /\ Become(FoldLeft(LAMBDA w, f : UnloadComponent(name, w, f),
                     [World EXCEPT !.systems = SelectSeq(@, LAMBDA s : s # name)], systems[name].components))
  /\ Operation("unload", name, TRUE)
  /\ UNCHANGED <<systems, damaged, redefined>>

\* Somebody breaks a file or repairs it; one of them at a time is broken.
Edit(f) ==
  /\ damaged' \in {{}, {f}} \ {damaged}
  /\ last' = NoOperation
  /\ UNCHANGED <<systems, loadedFiles, loadedSystems, boundSymbols, definedBy, redefined>>

DefsystemNext == \/ Defsystem
                 \/ \E name \in System : LoadSystem(name) \/ UnloadSystem(name)
                 \/ \E f \in SourceFile : Edit(f)
DefsystemSpec == DefsystemInit /\ [][DefsystemNext]_defsystemVars
----------------------------------------------------------------------------------
DefsystemTypeOK ==
  /\ systems \in [System -> Definition \cup {Unknown}]
  /\ ToSet(loadedFiles) \subseteq SourceFile /\ ToSet(loadedSystems) \subseteq System
  /\ boundSymbols \subseteq Symbol /\ definedBy \in [Symbol -> SourceFile \cup {""}]
  /\ damaged \subseteq SourceFile /\ redefined \in 0..MaxRedefinitions

\* What a system needs, itself included: the least set closed under dependsOn.
Needed(known, name) ==
  {s \in DOMAIN known : \A S \in SUBSET DOMAIN known :
     name \in S /\ (\A r \in S : ToSet(known[r].dependsOn) \cap DOMAIN known \subseteq S) => s \in S}
Above(known, s) == UNION {Needed(known, r) : r \in ToSet(known[s].dependsOn) \cap DOMAIN known}
Sound(known, name) == \A s \in Needed(known, name) : known[s] # Unknown /\ s \notin Above(known, s)

\* %topo gives every system that is needed once, behind all it needs itself, or
\* fails if one of them is not known or needs itself.
TopoSorts(known, name) ==
  LET order == Order(known, name) sorted == Reverse(order.done) IN
    /\ (order.err = "") = Sound(known, name)
    /\ order.err = "" =>
         /\ ToSet(sorted) = Needed(known, name) /\ IsInjective(sorted)
         /\ \A i \in DOMAIN sorted : Above(known, sorted[i]) \subseteq {sorted[j] : j \in 1..(i - 1)}

\* The files the last operation has loaded, in their order.
NewFiles == Reverse(SubSeq(loadedFiles, 1, Len(loadedFiles) - Len(last.files)))

\* load-system fails for a circle, an unknown system or a damaged file, and for
\* nothing else.  It loads a file only when those of all the systems that one of
\* its systems needs are there, none twice, and goes on after a failure where it
\* stopped: in the end everything is loaded.
LoadsInOrder ==
  /\ Cardinality(ToSet(loadedFiles)) = Len(loadedFiles)
  /\ last.op = "load" =>
       LET need == Needed(systems, last.name)
           sound == Sound(systems, last.name)
           files(s) == ToSet(systems[s].components)
       IN /\ last.ok => sound /\ need \subseteq LoadedSystems
          /\ sound /\ ~last.ok => \E f \in damaged : f \notin ToSet(loadedFiles) /\ \E s \in need : f \in files(s)
          /\ \A i \in DOMAIN NewFiles : \E s \in need :
               /\ NewFiles[i] \in files(s)
               /\ \A r \in Above(systems, s) :
                    files(r) \subseteq ToSet(last.files) \cup {NewFiles[j] : j \in 1..(i - 1)}

\* unload-system takes nothing away from another system that is loaded, and of a
\* loaded system it leaves no file that no other loaded system has.  What a
\* loaded system's files define is bound, but for what other files define as
\* well.  Nothing is said of the files of a system that was not loaded: the code
\* unloads those that are, the design of defsystem wants nothing done.
UnloadsOwn ==
  /\ last.op = "unload" => last.loaded \ {last.name} = LoadedSystems
  /\ last.op = "unload" /\ last.name \in last.loaded =>
       \A f \in ToSet(systems[last.name].components) \cap ToSet(loadedFiles) :
         \E s \in LoadedSystems : f \in ToSet(systems[s].components)
  /\ \A s \in LoadedSystems, f \in SourceFile :
       f \in ToSet(systems[s].components) => f \in boundSymbols
==================================================================================
