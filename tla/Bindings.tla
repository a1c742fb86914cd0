------------------------------- MODULE Bindings -------------------------------
(****************************************************************************)
(* The variables of the interpreter: env.go (the root environment and a     *)
(* frame that several goroutines share, as parfunc inside a let does), the  *)
(* redefinition guard and its log (redefguard.go, redeflog.go), the         *)
(* registries of places and docstrings (defloc.go, docstring.go), trace.go  *)
(* and the forms of eval_specialforms.go that bind: define, defun,          *)
(* defmacro, set!, setq, setq*, psetq and makunbound.                       *)
(*                                                                          *)
(* Each environment, registry and log has a lock of its own and the policy  *)
(* has none, so that a form is a sequence of steps, and what it has read    *)
(* may be old when it writes.  Two calls keep a lock for several of them:   *)
(* Update that of a frame while it climbs to the root, Set that of the root *)
(* while onRootRedefine asks for the policy and logs.                       *)
(* A value is its kind, the file it was defined in ("" for the prompt) and  *)
(* whether it is trace's wrapper.  Forms bind new values: that a program    *)
(* copies a primitive or a wrapper to another name is left out, as are the  *)
(* frames of macrolet, symbol-macrolet and progv.                           *)
(****************************************************************************)
EXTENDS Naturals, Sequences, FiniteSets

CONSTANTS Thread,    \* goroutines that evaluate
          Name,      \* symbols
          File,      \* files that define, "" included
          NewKind,   \* bound of the model: the kinds of value that forms define
          MaxForms,  \* bound of the model: forms evaluated altogether
          RingSize   \* redefLogSize (256)

ASSUME BindingsAssumption ==
  MaxForms \in Nat \ {0} /\ RingSize \in Nat \ {0} /\ File # {} /\ Name # {}
  /\ NewKind \subseteq {"lambda", "macro", "value"} /\ "nobody" \notin Thread /\ "none" \notin File

Kind == {"func", "lambda", "macro", "value"}
Policy == {"allow", "warn", "error"}
Cell == [kind : Kind, file : File, traced : BOOLEAN]
NoCell == [kind |-> "none", file |-> "none", traced |-> FALSE]
NoPlace == "none"
AtPrompt == ""   \* the file of a definition typed at the prompt

VARIABLES
  rootVars,   \* rootVars[n]: the root environment
  frame,      \* frame[n]: a frame on top of it, shared by all threads
  frameLock,  \* the thread in Update that holds the frame's lock, or NoThread
  rootLock,   \* the thread in Set that holds the root's lock, or NoThread
  place,      \* definitions[n].File
  doc,        \* the names with a docstring
  policy, log, \* redefinePolicyAtomic, redefRing
  origs,      \* traceOrigs
  traceMu,    \* the thread inside trace or untrace, or NoThread
  at,         \* at[t]: the next step of t
  form,       \* form[t]: what t evaluates
  old,        \* old[t]: the binding it has read
  asked,      \* asked[t]: the policy it has read, or "reload", or "none"
  outcome,    \* outcome[t] of its last form
  formsLeft

NoThread == "nobody"
NoForm == [op |-> "none", name |-> CHOOSE n \in Name : TRUE, env |-> "root",
           new |-> NoCell, hasDoc |-> FALSE]

envs == <<rootVars, frame, frameLock, rootLock>>
records == <<place, doc, policy, log>>
tracing == <<origs, traceMu>>
reading == <<old, asked>>
bindingsVars == <<envs, records, tracing, at, form, reading, outcome, formsLeft>>

\* BaseEnv: every name is unbound or a primitive.
BindingsInit ==
  /\ rootVars \in [Name -> {NoCell, [kind |-> "func", file |-> CHOOSE f \in File : TRUE,
                                     traced |-> FALSE]}]
  /\ frame = [n \in Name |-> NoCell] /\ frameLock = NoThread /\ rootLock = NoThread
  /\ place = [n \in Name |-> NoPlace] /\ doc = {}
  /\ policy = "warn" /\ log = <<>>
  /\ origs = [n \in Name |-> NoCell] /\ traceMu = NoThread
  /\ at = [t \in Thread |-> "idle"] /\ form = [t \in Thread |-> NoForm]
  /\ old = [t \in Thread |-> NoCell] /\ asked = [t \in Thread |-> "none"]
  /\ outcome = [t \in Thread |-> "ok"] /\ formsLeft = MaxForms
------------------------------------------------------------------------------
Goto(t, step) == at' = [at EXCEPT ![t] = step]
Forget(t) == old' = [old EXCEPT ![t] = NoCell] /\ asked' = [asked EXCEPT ![t] = "none"]
EndForm(t, result) ==
  /\ Goto(t, "idle")
  /\ outcome' = [outcome EXCEPT ![t] = result]
  /\ form' = [form EXCEPT ![t] = NoForm] /\ Forget(t)
GoOn(t, step) == Goto(t, step) /\ UNCHANGED <<form, reading, outcome>>
\* Go on without what has been read.
GoOnAfresh(t, step) == Goto(t, step) /\ Forget(t) /\ UNCHANGED <<form, outcome>>
BeginForm(t, f, step) ==
  /\ at[t] = "idle" /\ formsLeft > 0
  /\ formsLeft' = formsLeft - 1
  /\ form' = [form EXCEPT ![t] = f] /\ Goto(t, step)
  /\ UNCHANGED <<envs, records, tracing, reading, outcome>>

\* logRedef: the ring keeps the newest events.
LoggedPastEnd(n, action) ==
  Append(IF Len(log) <= RingSize THEN log ELSE Tail(log), [name |-> n, action |-> action])
Logged(n, action) ==
  Append(IF Len(log) < RingSize THEN log ELSE Tail(log), [name |-> n, action |-> action])
LogRedef(n, action) == log' = Logged(n, action)
PolicyAction(p) == IF p = "allow" THEN "redef" ELSE p
\* currentPolicy: one atomic load, without a lock.
ReadPolicy(t) == asked' = [asked EXCEPT ![t] = policy]

\* define, defun and defmacro bind a new value; only the latter two know docstrings.
Define(t) ==
  \E n \in Name, e \in {"root", "frame"}, k \in NewKind, f \in File,
     o \in {"define", "defun"}, d \in BOOLEAN :
    /\ o = "defun" => k \in {"lambda", "macro"}
    /\ o = "define" => k # "macro" /\ ~d
    /\ BeginForm(t, [op |-> o, name |-> n, env |-> e, hasDoc |-> d,
                     new |-> [kind |-> k, file |-> f, traced |-> FALSE]], "check")

\* set!, setq and setq* (one pair), psetq.
Assign(t) ==
  \E n \in Name, e \in {"root", "frame"}, o \in {"set!", "setq", "psetq"} :
    BeginForm(t, [op |-> o, name |-> n, env |-> e, hasDoc |-> FALSE,
                  new |-> [kind |-> "value", file |-> CHOOSE x \in File : TRUE, traced |-> FALSE]],
              IF e = "frame" THEN "update" ELSE "climb")

Makunbound(t) ==
  \E n \in Name : BeginForm(t, [NoForm EXCEPT !.op = "makunbound", !.name = n], "bound?")
Trace(t) ==
  \E n \in Name : BeginForm(t, [NoForm EXCEPT !.op = "trace", !.name = n], "trace")
Untrace(t) ==
  \E n \in Name : BeginForm(t, [NoForm EXCEPT !.op = "untrace", !.name = n], "untrace")

\* redefine-policy stores the policy without any lock: whichever goroutine
\* calls it, it comes between any two steps of the others.
RedefinePolicy(p) ==
  /\ formsLeft > 0 /\ p # policy
  /\ policy' = p /\ formsLeft' = formsLeft - 1
  /\ UNCHANGED <<envs, place, doc, log, tracing, at, form, reading, outcome>>
------------------------------------------------------------------------------
\* checkRootRedefine: read the binding (Root and Get wait for the locks) ...
CheckBinding(t) ==
  LET f == form[t] IN
  /\ at[t] = "check" /\ rootLock = NoThread
  /\ f.env = "frame" => frameLock = NoThread
  /\ IF f.env = "root" /\ rootVars[f.name].kind \in {"lambda", "macro"}
     THEN Goto(t, "judge") /\ old' = [old EXCEPT ![t] = rootVars[f.name]]
     ELSE Goto(t, "set") /\ UNCHANGED old
  /\ UNCHANGED <<envs, records, tracing, form, asked, outcome, formsLeft>>

\* ... look up the place where the name has been defined last ...
Judge(t) ==
  LET f == form[t]
      reload == place[f.name] = f.new.file \/ (place[f.name] = NoPlace /\ f.new.file = AtPrompt)
  IN
  /\ at[t] = "judge"
  /\ IF reload THEN Goto(t, "record") /\ asked' = [asked EXCEPT ![t] = "reload"]
               ELSE Goto(t, "ask") /\ UNCHANGED asked
  /\ UNCHANGED <<envs, records, tracing, form, old, outcome, formsLeft>>

\* ... unless it is a reload ask for the policy ...
AskPolicy(t) ==
  /\ at[t] = "ask"
  /\ ReadPolicy(t) /\ Goto(t, "record")
  /\ UNCHANGED <<envs, records, tracing, form, old, outcome, formsLeft>>

\* ... log, and refuse or let the form write.
Record(t) ==
  /\ at[t] = "record"
  /\ LogRedef(form[t].name, PolicyAction(asked[t]))
  /\ IF asked[t] = "error" THEN EndForm(t, "refused") ELSE GoOnAfresh(t, "set")
  /\ UNCHANGED <<envs, place, doc, policy, tracing, formsLeft>>

AfterSet(t) ==
  IF form[t].op \in {"define", "defun"} THEN GoOnAfresh(t, "place") ELSE EndForm(t, "ok")

\* Env.Set (and SetSym) in the frame.
SetInFrame(t) ==
  /\ at[t] = "set" /\ form[t].env = "frame" /\ frameLock = NoThread
  /\ frame' = [frame EXCEPT ![form[t].name] = form[t].new]
  /\ AfterSet(t)
  /\ UNCHANGED <<rootVars, frameLock, rootLock, records, tracing, formsLeft>>

WriteRoot(t) == rootVars' = [rootVars EXCEPT ![form[t].name] = form[t].new]

\* Env.Set in the root, which locks it: any binding but a FUNC is replaced at once.
SetInRoot(t) ==
  /\ at[t] = "set" /\ form[t].env = "root" /\ rootLock = NoThread
  /\ rootVars[form[t].name].kind # "func"
  /\ WriteRoot(t) /\ AfterSet(t)
  /\ UNCHANGED <<frame, frameLock, rootLock, records, tracing, formsLeft>>

\* A FUNC goes to onRootRedefine, for which the root stays locked ...
HookLocksNothing(t) == UNCHANGED rootLock
HookLocks(t) == rootLock' = t

CallHook(t) ==
  LET cell == rootVars[form[t].name] IN
  /\ at[t] = "set" /\ form[t].env = "root" /\ rootLock = NoThread /\ cell.kind = "func"
  /\ HookLocks(t) /\ old' = [old EXCEPT ![t] = cell] /\ Goto(t, "hook")
  /\ UNCHANGED <<rootVars, frame, frameLock, records, tracing, form, asked, outcome, formsLeft>>

\* ... which asks for the policy ...
HookAsks(t) ==
  /\ at[t] = "hook"
  /\ ReadPolicy(t) /\ Goto(t, "hookLog")
  /\ UNCHANGED <<envs, records, tracing, form, old, outcome, formsLeft>>

\* ... and logs what it has been told.
HookLogs(t) ==
  /\ at[t] = "hookLog"
  /\ LogRedef(form[t].name, PolicyAction(asked[t]))
  /\ IF asked[t] = "error" THEN EndForm(t, "refused") /\ rootLock' = NoThread
                           ELSE GoOn(t, "write") /\ UNCHANGED rootLock
  /\ UNCHANGED <<rootVars, frame, frameLock, place, doc, policy, tracing, formsLeft>>

WriteAllowed(t) ==
  /\ at[t] = "write"
  /\ WriteRoot(t) /\ rootLock' = NoThread /\ AfterSet(t)
  /\ UNCHANGED <<frame, frameLock, records, tracing, formsLeft>>

\* RegisterDefinition, whichever environment has been written.
RegisterDefinition(t) ==
  /\ at[t] = "place"
  /\ place' = [place EXCEPT ![form[t].name] = form[t].new.file]
  /\ IF form[t].op = "define" THEN EndForm(t, "ok") ELSE GoOn(t, "doc")
  /\ UNCHANGED <<envs, doc, policy, log, tracing, formsLeft>>

\* RegisterDocstring or RemoveDocstring, which makunbound calls too.
RegisterDocstring(t) ==
  /\ at[t] = "doc"
  /\ doc' = IF form[t].hasDoc THEN doc \cup {form[t].name} ELSE doc \ {form[t].name}
  /\ IF form[t].op = "makunbound" THEN GoOn(t, "log") ELSE EndForm(t, "ok")
  /\ UNCHANGED <<envs, place, policy, log, tracing, formsLeft>>
------------------------------------------------------------------------------
UpdateFrameUnlocked(t) ==
  LET n == form[t].name IN
  /\ at[t] = "update" /\ frameLock = NoThread
  /\ IF frame[n] # NoCell
     THEN frame' = [frame EXCEPT ![n] = form[t].new] /\ EndForm(t, "ok")
     ELSE GoOn(t, "climb") /\ UNCHANGED frame
  /\ UNCHANGED <<rootVars, frameLock, rootLock, records, tracing, formsLeft>>

\* Env.Update in the frame keeps its lock while it asks the parent.
UpdateFrame(t) ==
  LET n == form[t].name IN
  /\ at[t] = "update" /\ frameLock = NoThread
  /\ IF frame[n] # NoCell
     THEN frame' = [frame EXCEPT ![n] = form[t].new] /\ EndForm(t, "ok") /\ UNCHANGED frameLock
     ELSE frameLock' = t /\ GoOn(t, "climb") /\ UNCHANGED frame
  /\ UNCHANGED <<rootVars, rootLock, records, tracing, formsLeft>>

\* Where a form goes on when Update finds no binding: set! fails, assignVar
\* binds in the root, psetq in the environment it runs in.
Unfound(t) ==
  \/ form[t].op = "set!" /\ EndForm(t, "unbound")
  \/ /\ form[t].op = "setq" /\ form' = [form EXCEPT ![t].env = "root"]
     /\ Goto(t, "set") /\ UNCHANGED <<reading, outcome>>
  \/ form[t].op = "psetq" /\ GoOn(t, "set")

UpdateRoot(t) ==
  LET n == form[t].name IN
  /\ at[t] = "climb" /\ rootLock = NoThread
  /\ IF rootVars[n] # NoCell
     THEN rootVars' = [rootVars EXCEPT ![n] = form[t].new] /\ EndForm(t, "ok")
     ELSE Unfound(t) /\ UNCHANGED rootVars
  /\ frameLock' = IF frameLock = t THEN NoThread ELSE frameLock
  /\ UNCHANGED <<frame, rootLock, records, tracing, formsLeft>>
------------------------------------------------------------------------------
\* makunbound: read the binding, which settles whether the policy is asked ...
JudgeUnbind(t) ==
  LET cell == rootVars[form[t].name] IN
  /\ at[t] = "bound?" /\ rootLock = NoThread
  /\ IF cell = NoCell THEN EndForm(t, "unbound")
     ELSE GoOn(t, IF cell.kind = "value" THEN "unset" ELSE "mayUnbind")
  /\ UNCHANGED <<envs, records, tracing, formsLeft>>

AskToUnbind(t) ==
  /\ at[t] = "mayUnbind"
  /\ IF policy = "error" THEN EndForm(t, "refused") ELSE GoOn(t, "unset")
  /\ UNCHANGED <<envs, records, tracing, formsLeft>>

\* ... then remove whatever the name is bound to by now, and its records.
UnsetRoot(t) ==
  /\ at[t] = "unset" /\ rootLock = NoThread
  /\ rootVars' = [rootVars EXCEPT ![form[t].name] = NoCell]
  /\ GoOn(t, "forget")
  /\ UNCHANGED <<frame, frameLock, rootLock, records, tracing, formsLeft>>

RemoveDefinition(t) ==
  /\ at[t] = "forget"
  /\ place' = [place EXCEPT ![form[t].name] = NoPlace]
  /\ GoOn(t, "doc")
  /\ UNCHANGED <<envs, doc, policy, log, tracing, formsLeft>>

LogUnbind(t) ==
  /\ at[t] = "log"
  /\ LogRedef(form[t].name, "makunbound") /\ EndForm(t, "ok")
  /\ UNCHANGED <<envs, place, doc, policy, tracing, formsLeft>>
------------------------------------------------------------------------------
Wrapper(cell) == [cell EXCEPT !.kind = "func", !.traced = TRUE]

MayTraceAgain(n) == rootVars[n].kind \in {"func", "lambda"}
\* A second trace of a name does nothing.
MayTrace(n) == origs[n] = NoCell /\ rootVars[n].kind \in {"func", "lambda"}

\* trace holds traceMu while it reads the binding, notes it ...
TraceReads(t) ==
  LET n == form[t].name IN
  /\ at[t] = "trace" /\ traceMu = NoThread
  /\ origs[n] = NoCell => rootLock = NoThread
  /\ IF MayTrace(n)
     THEN /\ origs' = [origs EXCEPT ![n] = rootVars[n]] /\ old' = [old EXCEPT ![t] = rootVars[n]]
          /\ traceMu' = t /\ Goto(t, "wrap") /\ UNCHANGED <<form, asked, outcome>>
     ELSE EndForm(t, IF origs[n] # NoCell THEN "ok" ELSE "unbound") /\ UNCHANGED tracing
  /\ UNCHANGED <<envs, records, formsLeft>>

\* ... and replaces it by a wrapper of what it has read.
TraceWraps(t) ==
  LET n == form[t].name IN
  /\ at[t] = "wrap" /\ rootLock = NoThread
  /\ traceMu' = NoThread
  /\ IF rootVars[n] # NoCell
     THEN /\ rootVars' = [rootVars EXCEPT ![n] = Wrapper(old[t])] /\ EndForm(t, "ok") /\ UNCHANGED origs
     ELSE /\ origs' = [origs EXCEPT ![n] = NoCell] /\ EndForm(t, "unbound") /\ UNCHANGED rootVars
  /\ UNCHANGED <<frame, frameLock, rootLock, records, formsLeft>>

\* (untrace 'name): the registry keeps the entry when the name is unbound.
UntraceRestores(t) ==
  LET n == form[t].name IN
  /\ at[t] = "untrace" /\ traceMu = NoThread
  /\ origs[n] # NoCell => rootLock = NoThread
  /\ IF origs[n] # NoCell /\ rootVars[n] # NoCell
     THEN /\ rootVars' = [rootVars EXCEPT ![n] = origs[n]] /\ origs' = [origs EXCEPT ![n] = NoCell]
          /\ EndForm(t, "ok")
     ELSE /\ EndForm(t, IF origs[n] = NoCell THEN "ok" ELSE "unbound")
          /\ UNCHANGED <<rootVars, origs>>
  /\ UNCHANGED <<frame, frameLock, rootLock, records, traceMu, formsLeft>>

\* (untrace): one Update after the other, then the registry is cleared.
UntraceAll(t) ==
  /\ at[t] = "idle" /\ formsLeft > 0 /\ traceMu = NoThread
  /\ formsLeft' = formsLeft - 1 /\ traceMu' = t /\ Goto(t, "restore")
  /\ UNCHANGED <<envs, records, origs, form, reading, outcome>>

RestoreOne(t, n) ==
  /\ at[t] = "restore" /\ origs[n] # NoCell /\ rootLock = NoThread
  /\ rootVars' = IF rootVars[n] # NoCell THEN [rootVars EXCEPT ![n] = origs[n]] ELSE rootVars
  /\ origs' = [origs EXCEPT ![n] = NoCell]
  /\ UNCHANGED <<frame, frameLock, rootLock, records, traceMu, at, form, reading, outcome, formsLeft>>

AllRestored(t) ==
  /\ at[t] = "restore" /\ \A n \in Name : origs[n] = NoCell
  /\ traceMu' = NoThread /\ EndForm(t, "ok")
  /\ UNCHANGED <<envs, records, origs, formsLeft>>
------------------------------------------------------------------------------
Begin(t) == Define(t) \/ Assign(t) \/ Makunbound(t) \/ Trace(t) \/ Untrace(t) \/ UntraceAll(t)
Checking(t) == CheckBinding(t) \/ Judge(t) \/ AskPolicy(t) \/ Record(t)
Setting(t) == SetInFrame(t) \/ SetInRoot(t) \/ CallHook(t) \/ HookAsks(t) \/ HookLogs(t) \/ WriteAllowed(t)
Registering(t) == RegisterDefinition(t) \/ RegisterDocstring(t)
Assigning(t) == UpdateFrame(t) \/ UpdateRoot(t)
Unbinding(t) == JudgeUnbind(t) \/ AskToUnbind(t) \/ UnsetRoot(t) \/ RemoveDefinition(t) \/ LogUnbind(t)
Tracing(t) == TraceReads(t) \/ TraceWraps(t) \/ UntraceRestores(t) \/ AllRestored(t)
              \/ \E n \in Name : RestoreOne(t, n)
Evaluates(t) == Begin(t) \/ Checking(t) \/ Setting(t) \/ Registering(t) \/ Assigning(t)
                \/ Unbinding(t) \/ Tracing(t)

BindingsNext == (\E t \in Thread : Evaluates(t)) \/ \E p \in Policy : RedefinePolicy(p)
BindingsSpec == BindingsInit /\ [][BindingsNext]_bindingsVars
------------------------------------------------------------------------------
Steps == {"idle", "check", "judge", "ask", "record", "set", "hook", "hookLog", "write", "place", "doc",
          "update", "climb", "bound?", "mayUnbind", "unset", "forget", "log", "trace", "wrap",
          "untrace", "restore"}
Forms == [op : {"none", "define", "defun", "set!", "setq", "psetq", "makunbound", "trace", "untrace"},
          name : Name, env : {"root", "frame"}, new : Cell \cup {NoCell}, hasDoc : BOOLEAN]

\* The goroutines, the environments with trace's registry, and the records.
ThreadsOK ==
  /\ at \in [Thread -> Steps] /\ form \in [Thread -> Forms]
  /\ old \in [Thread -> Cell \cup {NoCell}] /\ asked \in [Thread -> Policy \cup {"reload", "none"}]
EnvsOK ==
  /\ rootVars \in [Name -> Cell \cup {NoCell}] /\ frame \in [Name -> Cell \cup {NoCell}]
  /\ origs \in [Name -> Cell \cup {NoCell}]
  /\ {frameLock, rootLock} \subseteq Thread \cup {NoThread} /\ traceMu \in Thread \cup {NoThread}
RecordsOK ==
  /\ place \in [Name -> File \cup {NoPlace}] /\ doc \subseteq Name /\ policy \in Policy
  /\ log \in Seq([name : Name, action : {"reload", "redef", "warn", "error", "makunbound"}])
  /\ Len(log) <= RingSize
  /\ outcome \in [Thread -> {"ok", "refused", "unbound"}] /\ formsLeft \in 0..MaxForms

BindingsTypeOK == ThreadsOK /\ EnvsOK /\ RecordsOK

\* set! and setq change the innermost binding: from the moment Update has found
\* none in the frame until it changes the root, no other goroutine binds the
\* name in the frame (the window that the comment on Env.Update speaks of).
UpdateInnermost ==
  \A t \in Thread : (at[t] = "climb" /\ form[t].env = "frame") => frame[form[t].name] = NoCell

\* Between its question to the policy and its write a form may be overtaken by
\* a switch to "error" (redefguard.go and env.go take the policy before the
\* write).  What the guard of the primitives still promises: a definition or an
\* assignVar replaces exactly the FUNC that the hook was asked about and logged,
\* under the policy it was told, although others trace, untrace, unbind and
\* define the name meanwhile; and if the policy is "error" by then, no second
\* form is left that was told otherwise, so that after a switch to "error" one
\* late definition at most takes a primitive away.
ByUpdate(t) ==
  \/ at[t] \in {"climb", "wrap", "untrace"} /\ at'[t] # at[t]
  \/ at[t] = "restore" /\ origs' # origs
ToldOtherwise(t) == at[t] \in {"hookLog", "write"} /\ asked[t] # "error"
PrimitivesGuarded ==
  [][\A n \in Name :
       (/\ rootVars[n].kind = "func" /\ rootVars'[n] \notin {rootVars[n], NoCell}
        /\ \A t \in Thread : ~ByUpdate(t))
       => \E t \in Thread :
            /\ ToldOtherwise(t) /\ form[t].name = n /\ old[t] = rootVars[n]
            /\ policy = "error" => \A u \in Thread : ~ToldOtherwise(u)']_bindingsVars

\* No wrapper outlives its tracing: a name whose binding is trace's wrapper is
\* in the registry, so that untrace can find what was there before.
NoOrphanWrapper ==
  \A n \in Name : rootVars[n].traced => origs[n] # NoCell /\ ~origs[n].traced

\* "Reload aus derselben Quelle ist immer erlaubt und still": a definition from
\* the file that made the binding is never refused by checkRootRedefine.
ReloadIsAllowed ==
  [][\A t \in Thread :
       (at[t] = "record" /\ at'[t] = "idle") => old[t].file # form[t].new.file]_bindingsVars
================================================================================
