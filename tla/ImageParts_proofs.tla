---------------------------- MODULE ImageParts_proofs ----------------------------
(****************************************************************************)
(* Proofs about parts of an image: the bindings, a Maxima session and the   *)
(* sigoREST client, which several goroutines share, the inspector, and the  *)
(* conditions with their handlers.                                          *)
(****************************************************************************)
EXTENDS Bindings, Inspector, Maxima, Sigo, Conditions, SequenceTheorems, NumberLemmas

\* Bindings: no form at work binds a wrapper; a goroutine that climbs from the
\* frame to the root keeps the frame locked, one inside trace or untrace keeps
\* the registry, and one that has called onRootRedefine keeps the root, with the
\* FUNC that it has found there.
ClimbInv ==
  \A t \in Thread : (at[t] = "climb" /\ form[t].env = "frame") =>
                      frameLock = t /\ frame[form[t].name] = NoCell
WrapInv ==
  /\ \A n \in Name : ~origs[n].traced /\ (rootVars[n].traced => origs[n] # NoCell)
  /\ \A t \in Thread :
       /\ ~form[t].new.traced
       /\ at[t] \in {"wrap", "restore"} => traceMu = t
       /\ at[t] = "wrap" => old[t] # NoCell /\ old[t] = origs[form[t].name]
InHook(t) == at[t] \in {"hook", "hookLog", "write"}
Holds(t) ==
  /\ rootLock = t /\ old[t] = rootVars[form[t].name]
  /\ at[t] = "write" => asked[t] # "error"
HookInv == \A t \in Thread : InHook(t) => Holds(t)
BindingsInv == ThreadsOK /\ EnvsOK /\ ClimbInv /\ WrapInv /\ HookInv

\* Maxima: what call i, whose reader is reading, has still to get.
Text(i) == [n |-> i, what |-> "text"]
Token(i) == [n |-> i, what |-> "token"]
Underway(i) ==
  \/ /\ \E kind \in ExprKind : stdin = <<[n |-> i, kind |-> kind]>>
     /\ stdout = <<>> /\ buf[i] = <<>> /\ process = "up"
  \/ stdin = <<>> /\ stdout = <<Text(i), Token(i)>> /\ buf[i] = <<>>
  \/ stdin = <<>> /\ stdout = <<Token(i)>> /\ buf[i] = <<Text(i)>>
  \/ stdin = <<>> /\ stdout = <<>> /\ buf[i] = <<>> /\ process = "dead"

\* A goroutine that waits for an answer, or for the end, holds the session.
SessionInv ==
  /\ sentinels \in 0..MaxEvals /\ process \in {"up", "stopping", "dead"}
  /\ step \in [Goroutine -> {"idle", "lock", "wait", "lockToClose", "waitExit"}]
  /\ mine \in [Goroutine -> 0..MaxEvals] /\ DOMAIN answer = Call
  /\ \A g \in Goroutine : step[g] \in {"wait", "waitExit"} => mu = g
  /\ \A g \in Goroutine : step[g] = "wait" => mine[g] \in Call

\* One reader at most is reading, and unless the process is dead its call is
\* still waited for: nothing is written to a process that an earlier reader may
\* have lines of.
ReaderInv ==
  /\ readers \in [Call -> {"none", "reading", "found", "ended"}] /\ DOMAIN buf = Call
  /\ \A i, j \in Call : readers[i] = "reading" /\ readers[j] = "reading" => i = j
  /\ \A i \in Call : i > sentinels => readers[i] = "none" /\ buf[i] = <<>>
  /\ \A i \in Call : readers[i] = "reading" => Underway(i)
  /\ \A i \in Call : readers[i] = "found" => buf[i] = <<Text(i)>>
  /\ (\A i \in Call : readers[i] # "reading") => stdin = <<>> /\ stdout = <<>>
  /\ \A i \in Call : (readers[i] = "reading" /\ process # "dead") =>
                       process = "up" /\ \E g \in Goroutine : step[g] = "wait" /\ mine[g] = i
  /\ \A i \in Call : readers[i] = "ended" => process = "dead"
AnswerInv ==
  \A i \in Call : answer[i] \in {NoAnswer, Failed("write"), Failed("read"), Failed("timeout"),
                                 <<"ok", <<Text(i)>>>>}
MaximaInv == SessionInv /\ ReaderInv /\ AnswerInv

\* sigoREST: every call let through, and every caller on its way to it, has
\* taken a tick of its own.
Through == {w \in Worker : stage[w] \in {"lock", "sleep"}}
Used == Len(starts) + Cardinality(Through) + (IF ticked THEN 1 ELSE 0)
ThrottleInv ==
  /\ now \in Nat /\ lastCall \in Nat /\ ticked \in BOOLEAN /\ starts \in Seq(Nat)
  /\ stage \in [Worker -> {"idle", "tick", "lock", "sleep", "send"}]
  /\ starts # <<>> => lastCall = starts[Len(starts)]
  /\ \A i \in 1..Len(starts) - 1 : starts[i + 1] >= starts[i] + Pause
  /\ IsFiniteSet(Through)
  /\ Used * TickPeriod <= now
------------------------------------------------------------------------------
(* Bindings *)

Others(t) ==
  \A u \in Thread \ {t} :
    at'[u] = at[u] /\ form'[u] = form[u] /\ old'[u] = old[u] /\ asked'[u] = asked[u]

LEMMA NoFormLemma ==
  /\ NoForm \in Forms /\ NoCell \notin Cell /\ ~NoForm.new.traced
  /\ NoForm.new = NoCell /\ NoThread \notin Thread
<1>1. (CHOOSE n \in Name : TRUE) \in Name
  BY BindingsAssumption
<1>2. NoCell \notin Cell
  BY DEF NoCell, Cell, Kind
<1>3. NoForm \in Forms
  <2> DEFINE first == CHOOSE n \in Name : TRUE
  <2>1. NoForm = [op |-> "none", name |-> first, env |-> "root", new |-> NoCell, hasDoc |-> FALSE]
    BY DEF NoForm
  <2> HIDE DEF first
  <2> QED
    BY <1>1, <2>1 DEF Forms, first
<1>4. ~NoForm.new.traced /\ NoForm.new = NoCell
  BY DEF NoForm, NoCell
<1> QED
  BY <1>2, <1>3, <1>4, BindingsAssumption DEF NoThread

\* A step changes its own goroutine's place in its form.
LEMMA GotoLemma ==
  ASSUME ThreadsOK, NEW t \in Thread, NEW s \in Steps, Goto(t, s), UNCHANGED <<form, reading>>
  PROVE  ThreadsOK' /\ Others(t) /\ at'[t] = s /\ form'[t] = form[t]
  BY DEF ThreadsOK, Goto, Others, reading

LEMMA ForgetLemma ==
  ASSUME ThreadsOK, NEW t \in Thread, NEW s \in Steps, Goto(t, s), Forget(t),
         NEW f \in Forms, form' = [form EXCEPT ![t] = f]
  PROVE  ThreadsOK' /\ Others(t) /\ at'[t] = s /\ form'[t] = f
<1>1. /\ at' = [at EXCEPT ![t] = s] /\ form' = [form EXCEPT ![t] = f]
      /\ old' = [old EXCEPT ![t] = NoCell] /\ asked' = [asked EXCEPT ![t] = "none"]
  BY DEF Goto, Forget
<1>2. at' \in [Thread -> Steps] /\ form' \in [Thread -> Forms]
  BY <1>1 DEF ThreadsOK
<1>3. old' \in [Thread -> Cell \cup {NoCell}] /\ asked' \in [Thread -> Policy \cup {"reload", "none"}]
  BY <1>1 DEF ThreadsOK
<1>4. Others(t) /\ at'[t] = s /\ form'[t] = f
  BY <1>1 DEF ThreadsOK, Others
<1> QED
  BY <1>2, <1>3, <1>4 DEF ThreadsOK

LEMMA GoOnAfreshLemma ==
  ASSUME ThreadsOK, NEW t \in Thread, NEW s \in Steps, GoOnAfresh(t, s)
  PROVE  ThreadsOK' /\ Others(t) /\ at'[t] = s /\ form'[t] = form[t]
<1>1. form[t] \in Forms /\ form' = [form EXCEPT ![t] = form[t]]
  BY DEF ThreadsOK, GoOnAfresh
<1> QED
  BY <1>1, ForgetLemma DEF GoOnAfresh

LEMMA EndFormLemma ==
  ASSUME ThreadsOK, NEW t \in Thread, NEW r, EndForm(t, r)
  PROVE  ThreadsOK' /\ Others(t) /\ at'[t] = "idle" /\ form'[t] = NoForm
<1>1. Goto(t, "idle") /\ Forget(t) /\ form' = [form EXCEPT ![t] = NoForm]
  BY DEF EndForm
<1>2. "idle" \in Steps /\ NoForm \in Forms
  BY NoFormLemma DEF Steps
<1> QED
  BY <1>1, <1>2, ForgetLemma

\* What each step has to show of itself; for the other goroutines it is enough
\* that no lock is taken from them and nothing changed that they protect.
LEMMA Compose ==
  ASSUME BindingsInv, NEW t \in Thread, ThreadsOK', EnvsOK', Others(t),
         frameLock \notin {NoThread, t} => UNCHANGED <<frame, frameLock>>,
         rootLock \notin {NoThread, t} => UNCHANGED <<rootVars, rootLock>>,
         traceMu \notin {NoThread, t} => UNCHANGED <<origs, traceMu>>,
         (at'[t] = "climb" /\ form'[t].env = "frame") =>
            frameLock' = t /\ frame'[form'[t].name] = NoCell,
         ~form'[t].new.traced,
         at'[t] \in {"wrap", "restore"} => traceMu' = t,
         at'[t] = "wrap" => old'[t] # NoCell /\ old'[t] = origs'[form'[t].name],
         (InHook(t) => Holds(t))',
         \A n \in Name : ~origs'[n].traced /\ (rootVars'[n].traced => origs'[n] # NoCell)
  PROVE  BindingsInv'
<1>1. NoThread \notin Thread
  BY NoFormLemma
<1>2. ClimbInv'
  <2>1. ASSUME NEW u \in Thread \ {t}, at'[u] = "climb", form'[u].env = "frame"
        PROVE  frameLock' = u /\ frame'[form'[u].name] = NoCell
    <3>1. at[u] = "climb" /\ form'[u] = form[u] /\ form[u].env = "frame"
      BY <2>1 DEF Others
    <3>2. frameLock = u /\ frame[form[u].name] = NoCell
      BY <3>1 DEF BindingsInv, ClimbInv
    <3> QED
      BY <1>1, <3>1, <3>2
  <2> QED
    BY <2>1 DEF ClimbInv
<1>3. WrapInv'
  <2>1. ASSUME NEW u \in Thread \ {t}
        PROVE  /\ ~form'[u].new.traced
               /\ at'[u] \in {"wrap", "restore"} => traceMu' = u
               /\ at'[u] = "wrap" => old'[u] # NoCell /\ old'[u] = origs'[form'[u].name]
    <3>1. at'[u] = at[u] /\ form'[u] = form[u] /\ old'[u] = old[u]
      BY DEF Others
    <3>2. at[u] \in {"wrap", "restore"} => traceMu = u /\ UNCHANGED <<origs, traceMu>>
      BY <1>1 DEF BindingsInv, WrapInv
    <3> QED
      BY <3>1, <3>2 DEF BindingsInv, WrapInv
  <2> QED
    BY <2>1 DEF WrapInv
<1>4. HookInv'
  <2>1. ASSUME NEW u \in Thread \ {t}, InHook(u)' PROVE Holds(u)'
    <3>1. at'[u] = at[u] /\ form'[u] = form[u] /\ old'[u] = old[u] /\ asked'[u] = asked[u]
      BY DEF Others
    <3>2. Holds(u)
      BY <2>1, <3>1 DEF BindingsInv, HookInv, InHook
    <3>3. UNCHANGED <<rootVars, rootLock>>
      BY <1>1, <3>2 DEF Holds
    <3> QED
      BY <3>1, <3>2, <3>3 DEF Holds
  <2> QED
    BY <2>1 DEF HookInv
<1> QED
  BY <1>2, <1>3, <1>4 DEF BindingsInv

\* Steps that touch neither the environments nor trace's registry.
LEMMA LocalStep ==
  ASSUME BindingsInv, NEW t \in Thread, ThreadsOK', Others(t), UNCHANGED <<envs, tracing>>,
         at'[t] \notin {"wrap", "restore"}, at'[t] = "climb" => form'[t].env # "frame",
         ~form'[t].new.traced, (InHook(t) => Holds(t))'
  PROVE  BindingsInv'
<1>1. UNCHANGED <<rootVars, frame, frameLock, rootLock, origs, traceMu>>
  BY DEF envs, tracing
<1>2. EnvsOK'
  BY <1>1 DEF BindingsInv, EnvsOK
<1>3. \A n \in Name : ~origs'[n].traced /\ (rootVars'[n].traced => origs'[n] # NoCell)
  BY <1>1 DEF BindingsInv, WrapInv
<1> QED
  BY <1>1, <1>2, <1>3, Compose

\* A form is begun with a value of its own, which is no wrapper.
LEMMA BeginFormStep ==
  ASSUME BindingsInv, NEW t \in Thread, NEW f \in Forms, NEW s \in Steps, BeginForm(t, f, s),
         ~f.new.traced, s \notin {"wrap", "restore", "hook", "hookLog", "write"},
         s = "climb" => f.env # "frame"
  PROVE  BindingsInv'
<1>1. at' = [at EXCEPT ![t] = s] /\ form' = [form EXCEPT ![t] = f]
      /\ UNCHANGED <<old, asked, envs, tracing>>
  BY DEF BeginForm, Goto, reading
<1>2. ThreadsOK' /\ Others(t) /\ at'[t] = s /\ form'[t] = f
  BY <1>1 DEF BindingsInv, ThreadsOK, Others
<1>3. ~InHook(t)'
  BY <1>2 DEF InHook
<1> QED
  BY <1>1, <1>2, <1>3, LocalStep

LEMMA BeginStep == ASSUME BindingsInv, NEW t \in Thread, Begin(t) PROVE BindingsInv'
<1>0. \A n \in Name, o \in {"makunbound", "trace", "untrace"} :
         LET f == [NoForm EXCEPT !.op = o, !.name = n] IN f \in Forms /\ ~f.new.traced
  BY NoFormLemma DEF Forms
<1>1. CASE Define(t)
  <2>1. PICK n \in Name, e \in {"root", "frame"}, k \in NewKind, f \in File,
             o \in {"define", "defun"}, d \in BOOLEAN :
             BeginForm(t, [op |-> o, name |-> n, env |-> e, hasDoc |-> d,
                           new |-> [kind |-> k, file |-> f, traced |-> FALSE]], "check")
    BY <1>1, ZenonT(60) DEF Define
  <2>2. [kind |-> k, file |-> f, traced |-> FALSE] \in Cell
    BY BindingsAssumption DEF Cell, Kind
  <2>3. [op |-> o, name |-> n, env |-> e, hasDoc |-> d,
         new |-> [kind |-> k, file |-> f, traced |-> FALSE]] \in Forms
    BY <2>2 DEF Forms
  <2> QED
    BY <2>1, <2>3, BeginFormStep DEF Steps
<1>2. CASE Assign(t)
  <2> DEFINE c == [kind |-> "value", file |-> CHOOSE x \in File : TRUE, traced |-> FALSE]
  <2>1. PICK n \in Name, e \in {"root", "frame"}, o \in {"set!", "setq", "psetq"} :
             BeginForm(t, [op |-> o, name |-> n, env |-> e, hasDoc |-> FALSE, new |-> c],
                       IF e = "frame" THEN "update" ELSE "climb")
    BY <1>2 DEF Assign
  <2>2. c \in Cell /\ ~c.traced
    <3>1. (CHOOSE x \in File : TRUE) \in File
      BY BindingsAssumption
    <3> QED
      BY <3>1 DEF Cell, Kind
  <2> HIDE DEF c
  <2>3. [op |-> o, name |-> n, env |-> e, hasDoc |-> FALSE, new |-> c] \in Forms
    BY <2>2 DEF Forms
  <2> QED
    BY <2>1, <2>2, <2>3, BeginFormStep DEF Steps
<1>3. CASE Makunbound(t)
  BY <1>0, <1>3, BeginFormStep DEF Makunbound, Steps
<1>4. CASE Trace(t)
  BY <1>0, <1>4, BeginFormStep DEF Trace, Steps
<1>5. CASE Untrace(t)
  BY <1>0, <1>5, BeginFormStep DEF Untrace, Steps
<1>6. CASE UntraceAll(t)
  <2>1. /\ Goto(t, "restore") /\ traceMu = NoThread /\ traceMu' = t
        /\ UNCHANGED <<rootVars, frame, frameLock, rootLock, origs, form, reading>>
    BY <1>6 DEF UntraceAll, envs
  <2>2. ThreadsOK' /\ Others(t) /\ at'[t] = "restore" /\ ~InHook(t)'
    BY <2>1, GotoLemma DEF BindingsInv, Steps, InHook
  <2>3. EnvsOK'
    BY <2>1 DEF BindingsInv, EnvsOK
  <2>4. ~form'[t].new.traced
    BY <2>1 DEF BindingsInv, WrapInv
  <2>5. \A n \in Name : ~origs'[n].traced /\ (rootVars'[n].traced => origs'[n] # NoCell)
    BY <2>1 DEF BindingsInv, WrapInv
  <2> QED
    BY <2>1, <2>2, <2>3, <2>4, <2>5, Compose
<1> QED
  BY <1>1, <1>2, <1>3, <1>4, <1>5, <1>6 DEF Begin

\* A step of a form that ends it or goes on elsewhere than to a lock.
LEMMA GoOnStep ==
  ASSUME BindingsInv, NEW t \in Thread, NEW s \in Steps \ {"climb", "wrap", "restore", "hook", "hookLog", "write"},
         GoOn(t, s) \/ GoOnAfresh(t, s), UNCHANGED <<envs, tracing>>
  PROVE  BindingsInv'
<1>1. ThreadsOK' /\ Others(t) /\ at'[t] = s /\ form'[t] = form[t]
  BY GotoLemma, GoOnAfreshLemma DEF GoOn, BindingsInv
<1>2. ~InHook(t)'
  BY <1>1 DEF InHook
<1> QED
  BY <1>1, <1>2, LocalStep DEF BindingsInv, WrapInv

LEMMA EndFormStep ==
  ASSUME BindingsInv, NEW t \in Thread, NEW r, EndForm(t, r), UNCHANGED <<envs, tracing>>
  PROVE  BindingsInv'
<1>1. ThreadsOK' /\ Others(t) /\ at'[t] = "idle" /\ form'[t] = NoForm
  BY EndFormLemma DEF BindingsInv
<1>2. ~InHook(t)'
  BY <1>1 DEF InHook
<1> QED
  BY <1>1, <1>2, NoFormLemma, LocalStep

\* Once the binding is written a definition is registered, anything else ends.
LEMMA AfterSetLemma ==
  ASSUME BindingsInv, NEW t \in Thread, AfterSet(t)
  PROVE  ThreadsOK' /\ Others(t) /\ at'[t] \in {"place", "idle"} /\ ~form'[t].new.traced /\ ~InHook(t)'
<1>1. CASE GoOnAfresh(t, "place")
  BY <1>1, GoOnAfreshLemma DEF BindingsInv, WrapInv, Steps, InHook
<1>2. CASE EndForm(t, "ok")
  BY <1>2, EndFormLemma, NoFormLemma DEF BindingsInv, InHook
<1> QED
  BY <1>1, <1>2 DEF AfterSet

\* What a form is, and a policy that has been read.
LEMMA FormLemma ==
  ASSUME BindingsInv, NEW t \in Thread
  PROVE  /\ form[t] \in Forms /\ form[t].name \in Name /\ form[t].new \in Cell \cup {NoCell}
         /\ ~form[t].new.traced /\ rootVars[form[t].name] \in Cell \cup {NoCell}
  BY DEF BindingsInv, ThreadsOK, EnvsOK, WrapInv, Forms

\* The policy is one of the three.
LEMMA ReadPolicyLemma ==
  ASSUME ThreadsOK, NEW t \in Thread, NEW p \in Policy \cup {"reload"}, NEW s \in Steps,
         asked' = [asked EXCEPT ![t] = p], Goto(t, s), UNCHANGED <<form, old>>
  PROVE  ThreadsOK' /\ Others(t) /\ at'[t] = s /\ form'[t] = form[t] /\ old'[t] = old[t]
  BY DEF ThreadsOK, Goto, Others

PolicyOK == policy \in Policy

LEMMA CheckingStep ==
  ASSUME BindingsInv, PolicyOK, NEW t \in Thread, Checking(t) PROVE BindingsInv'
<1>0. form[t].name \in Name /\ ~form[t].new.traced /\ rootVars[form[t].name] \in Cell \cup {NoCell}
  BY FormLemma
<1>1. CASE CheckBinding(t)
  <2>1. /\ \/ Goto(t, "judge") /\ old' = [old EXCEPT ![t] = rootVars[form[t].name]]
           \/ Goto(t, "set") /\ UNCHANGED old
        /\ UNCHANGED <<form, asked>> /\ UNCHANGED <<envs, tracing>>
    BY <1>1 DEF CheckBinding
  <2>2. ThreadsOK' /\ Others(t) /\ at'[t] \in {"judge", "set"} /\ form'[t] = form[t]
    BY <1>0, <2>1 DEF BindingsInv, ThreadsOK, Others, Goto, Steps
  <2>3. ~InHook(t)'
    BY <2>2 DEF InHook
  <2> QED
    BY <1>0, <2>1, <2>2, <2>3, LocalStep
<1>2. CASE Judge(t)
  <2>1. /\ \/ Goto(t, "record") /\ asked' = [asked EXCEPT ![t] = "reload"] /\ UNCHANGED <<form, old>>
           \/ Goto(t, "ask") /\ UNCHANGED <<form, reading>>
        /\ UNCHANGED <<envs, tracing>>
    BY <1>2 DEF Judge, reading
  <2>2. ThreadsOK' /\ Others(t) /\ at'[t] \in {"record", "ask"} /\ form'[t] = form[t]
    BY <2>1, GotoLemma, ReadPolicyLemma DEF BindingsInv, Steps
  <2>3. ~InHook(t)'
    BY <2>2 DEF InHook
  <2> QED
    BY <1>0, <2>1, <2>2, <2>3, LocalStep
<1>3. CASE AskPolicy(t)
  <2>1. /\ Goto(t, "record") /\ asked' = [asked EXCEPT ![t] = policy] /\ UNCHANGED <<form, old>>
        /\ UNCHANGED <<envs, tracing>>
    BY <1>3 DEF AskPolicy, ReadPolicy
  <2>2. ThreadsOK' /\ Others(t) /\ at'[t] = "record" /\ form'[t] = form[t]
    BY <2>1, ReadPolicyLemma DEF PolicyOK, BindingsInv, Steps
  <2>3. ~InHook(t)'
    BY <2>2 DEF InHook
  <2> QED
    BY <1>0, <2>1, <2>2, <2>3, LocalStep
<1>4. CASE Record(t)
  <2>1. UNCHANGED <<envs, tracing>> /\ (GoOnAfresh(t, "set") \/ EndForm(t, "refused"))
    BY <1>4 DEF Record
  <2> QED
    BY <2>1, GoOnStep, EndFormStep DEF Steps
<1> QED
  BY <1>1, <1>2, <1>3, <1>4 DEF Checking

LEMMA SettingStep ==
  ASSUME BindingsInv, PolicyOK, NEW t \in Thread, Setting(t) PROVE BindingsInv'
<1> DEFINE x == form[t].name
<1>0. /\ x \in Name /\ form[t].new \in Cell \cup {NoCell} /\ ~form[t].new.traced
      /\ rootVars[x] \in Cell \cup {NoCell}
  BY FormLemma
<1>1. CASE SetInFrame(t)
  <2>1. /\ frameLock = NoThread /\ AfterSet(t) /\ frame' = [frame EXCEPT ![x] = form[t].new]
        /\ UNCHANGED <<rootVars, frameLock, rootLock, origs, traceMu>>
    BY <1>1 DEF SetInFrame, tracing
  <2>2. ThreadsOK' /\ Others(t) /\ at'[t] \in {"place", "idle"} /\ ~form'[t].new.traced /\ ~InHook(t)'
    BY <2>1, AfterSetLemma
  <2>3. EnvsOK'
    BY <1>0, <2>1 DEF BindingsInv, EnvsOK
  <2>4. \A n \in Name : ~origs'[n].traced /\ (rootVars'[n].traced => origs'[n] # NoCell)
    BY <2>1 DEF BindingsInv, WrapInv
  <2> QED
    BY <2>1, <2>2, <2>3, <2>4, Compose
<1>2. CASE SetInRoot(t) \/ WriteAllowed(t)
  <2>1. /\ AfterSet(t) /\ rootVars' = [rootVars EXCEPT ![x] = form[t].new]
        /\ rootLock' \in {rootLock, NoThread} /\ UNCHANGED <<frame, frameLock, origs, traceMu>>
    BY <1>2 DEF SetInRoot, WriteAllowed, WriteRoot, tracing
  <2>2. rootLock \in {NoThread, t}
    BY <1>2 DEF SetInRoot, WriteAllowed, BindingsInv, HookInv, InHook, Holds
  <2>3. ThreadsOK' /\ Others(t) /\ at'[t] \in {"place", "idle"} /\ ~form'[t].new.traced /\ ~InHook(t)'
    BY <2>1, AfterSetLemma
  <2>4. EnvsOK'
    BY <1>0, <2>1 DEF BindingsInv, EnvsOK
  <2>5. \A n \in Name : rootVars'[n] = form[t].new \/ rootVars'[n] = rootVars[n]
    BY <2>1 DEF BindingsInv, EnvsOK
  <2>6. \A n \in Name : ~origs'[n].traced /\ (rootVars'[n].traced => origs'[n] # NoCell)
    BY <1>0, <2>1, <2>5 DEF BindingsInv, WrapInv
  <2> QED
    BY <2>1, <2>2, <2>3, <2>4, <2>6, Compose
<1>3. CASE CallHook(t)
  <2>1. /\ rootLock = NoThread /\ rootLock' = t /\ old' = [old EXCEPT ![t] = rootVars[x]]
        /\ at' = [at EXCEPT ![t] = "hook"]
        /\ UNCHANGED <<rootVars, frame, frameLock, origs, traceMu, form, asked>>
    BY <1>3 DEF CallHook, HookLocks, Goto, tracing
  <2>2. ThreadsOK' /\ Others(t) /\ at'[t] = "hook" /\ form'[t] = form[t] /\ old'[t] = rootVars[x]
    BY <1>0, <2>1 DEF BindingsInv, ThreadsOK, Others, Steps
  <2>3. EnvsOK'
    BY <2>1 DEF BindingsInv, EnvsOK
  <2>4. Holds(t)'
    BY <2>1, <2>2 DEF Holds
  <2>5. \A n \in Name : ~origs'[n].traced /\ (rootVars'[n].traced => origs'[n] # NoCell)
    BY <2>1 DEF BindingsInv, WrapInv
  <2> QED
    BY <1>0, <2>1, <2>2, <2>3, <2>4, <2>5, Compose
<1>4. CASE HookAsks(t)
  <2>1. /\ Goto(t, "hookLog") /\ asked' = [asked EXCEPT ![t] = policy] /\ UNCHANGED <<form, old>>
        /\ UNCHANGED <<envs, tracing>> /\ at[t] = "hook"
    BY <1>4 DEF HookAsks, ReadPolicy
  <2>2. ThreadsOK' /\ Others(t) /\ at'[t] = "hookLog" /\ form'[t] = form[t] /\ old'[t] = old[t]
    BY <2>1, ReadPolicyLemma DEF PolicyOK, BindingsInv, Steps
  <2>3. Holds(t)'
    BY <2>1, <2>2 DEF Holds, BindingsInv, HookInv, InHook, envs
  <2> QED
    BY <1>0, <2>1, <2>2, <2>3, LocalStep
<1>5. CASE HookLogs(t)
  <2>1. rootLock = t /\ old[t] = rootVars[x]
    BY <1>5 DEF HookLogs, BindingsInv, HookInv, InHook, Holds
  <2>2. /\ UNCHANGED <<rootVars, frame, frameLock, origs, traceMu>>
        /\ \/ EndForm(t, "refused") /\ rootLock' = NoThread
           \/ asked[t] # "error" /\ GoOn(t, "write") /\ UNCHANGED rootLock
    BY <1>5 DEF HookLogs, tracing
  <2>3. ThreadsOK' /\ Others(t) /\ at'[t] \in {"idle", "write"} /\ ~form'[t].new.traced
    BY <1>0, <2>2, EndFormLemma, GotoLemma, NoFormLemma DEF BindingsInv, GoOn, Steps
  <2>4. (InHook(t) => Holds(t))'
    <3>1. CASE EndForm(t, "refused")
      BY <3>1, EndFormLemma DEF BindingsInv, InHook
    <3>2. CASE asked[t] # "error" /\ GoOn(t, "write") /\ UNCHANGED rootLock
      BY <2>1, <2>2, <3>2 DEF GoOn, reading, Holds
    <3> QED
      BY <2>2, <3>1, <3>2
  <2>5. EnvsOK'
    BY <2>2 DEF BindingsInv, EnvsOK
  <2>6. \A n \in Name : ~origs'[n].traced /\ (rootVars'[n].traced => origs'[n] # NoCell)
    BY <2>2 DEF BindingsInv, WrapInv
  <2> QED
    BY <2>1, <2>2, <2>3, <2>4, <2>5, <2>6, Compose
<1> QED
  BY <1>1, <1>2, <1>3, <1>4, <1>5 DEF Setting

LEMMA RegisteringStep == ASSUME BindingsInv, NEW t \in Thread, Registering(t) PROVE BindingsInv'
<1>1. CASE RegisterDefinition(t)
  <2>1. UNCHANGED <<envs, tracing>> /\ (GoOn(t, "doc") \/ EndForm(t, "ok"))
    BY <1>1 DEF RegisterDefinition
  <2> QED
    BY <2>1, GoOnStep, EndFormStep DEF Steps
<1>2. CASE RegisterDocstring(t)
  <2>1. UNCHANGED <<envs, tracing>> /\ (GoOn(t, "log") \/ EndForm(t, "ok"))
    BY <1>2 DEF RegisterDocstring
  <2> QED
    BY <2>1, GoOnStep, EndFormStep DEF Steps
<1> QED
  BY <1>1, <1>2 DEF Registering

LEMMA AssigningStep == ASSUME BindingsInv, NEW t \in Thread, Assigning(t) PROVE BindingsInv'
<1>0. form[t] \in Forms /\ form[t].name \in Name /\ form[t].new \in Cell \cup {NoCell}
      /\ ~form[t].new.traced
  BY DEF BindingsInv, ThreadsOK, WrapInv, Forms
<1>1. CASE UpdateFrame(t)
  <2>1. frameLock = NoThread /\ UNCHANGED <<rootVars, rootLock, origs, traceMu>>
    BY <1>1 DEF UpdateFrame, tracing
  <2>2. \A n \in Name : ~origs'[n].traced /\ (rootVars'[n].traced => origs'[n] # NoCell)
    BY <2>1 DEF BindingsInv, WrapInv
  <2>3. CASE frame[form[t].name] # NoCell
    <3>1. /\ frame' = [frame EXCEPT ![form[t].name] = form[t].new] /\ EndForm(t, "ok")
          /\ UNCHANGED frameLock
      BY <1>1, <2>3 DEF UpdateFrame
    <3>2. ThreadsOK' /\ Others(t) /\ at'[t] = "idle" /\ ~form'[t].new.traced /\ ~InHook(t)'
      BY <3>1, EndFormLemma, NoFormLemma DEF BindingsInv, InHook
    <3>3. EnvsOK'
      BY <1>0, <2>1, <3>1 DEF BindingsInv, EnvsOK
    <3> QED
      BY <2>1, <2>2, <3>1, <3>2, <3>3, Compose
  <2>4. CASE frame[form[t].name] = NoCell
    <3>1. frameLock' = t /\ GoOn(t, "climb") /\ UNCHANGED frame
      BY <1>1, <2>4 DEF UpdateFrame
    <3>2. ThreadsOK' /\ Others(t) /\ at'[t] = "climb" /\ form'[t] = form[t] /\ ~InHook(t)'
      BY <3>1, GotoLemma DEF BindingsInv, GoOn, Steps, InHook
    <3>3. EnvsOK'
      BY <2>1, <3>1 DEF BindingsInv, EnvsOK
    <3> QED
      BY <1>0, <2>1, <2>2, <2>4, <3>1, <3>2, <3>3, Compose
  <2> QED
    BY <2>3, <2>4
<1>2. CASE UpdateRoot(t)
  <2>1. /\ at[t] = "climb" /\ rootLock = NoThread /\ UNCHANGED <<frame, rootLock, origs, traceMu>>
        /\ frameLock' = IF frameLock = t THEN NoThread ELSE frameLock
        /\ \/ /\ rootVars' = [rootVars EXCEPT ![form[t].name] = form[t].new] /\ EndForm(t, "ok")
           \/ UNCHANGED rootVars /\ Unfound(t)
    BY <1>2 DEF UpdateRoot, tracing
  <2>2. ThreadsOK' /\ Others(t) /\ at'[t] \in {"idle", "set"} /\ ~form'[t].new.traced
    <3>1. CASE \E r : EndForm(t, r)
      BY <3>1, EndFormLemma, NoFormLemma DEF BindingsInv
    <3>2. CASE form' = [form EXCEPT ![t].env = "root"] /\ Goto(t, "set") /\ UNCHANGED reading
      <4>1. [form[t] EXCEPT !.env = "root"] \in Forms /\ ~[form[t] EXCEPT !.env = "root"].new.traced
        BY <1>0 DEF Forms
      <4> QED
        BY <3>2, <4>1 DEF BindingsInv, ThreadsOK, Others, Goto, Steps, reading
    <3>3. CASE GoOn(t, "set")
      BY <1>0, <3>3, GotoLemma DEF BindingsInv, GoOn, Steps
    <3> QED
      BY <2>1, <3>1, <3>2, <3>3 DEF Unfound
  <2>3. EnvsOK'
    BY <1>0, <2>1 DEF BindingsInv, EnvsOK
  <2>4. \A n \in Name : rootVars'[n] = form[t].new \/ rootVars'[n] = rootVars[n]
    BY <2>1 DEF BindingsInv, EnvsOK
  <2>5. \A n \in Name : ~origs'[n].traced /\ (rootVars'[n].traced => origs'[n] # NoCell)
    BY <1>0, <2>1, <2>4 DEF BindingsInv, WrapInv
  <2>6. ~InHook(t)'
    BY <2>2 DEF InHook
  <2> QED
    BY <2>1, <2>2, <2>3, <2>5, <2>6, Compose
<1> QED
  BY <1>1, <1>2 DEF Assigning

LEMMA UnbindingStep == ASSUME BindingsInv, NEW t \in Thread, Unbinding(t) PROVE BindingsInv'
<1>1. CASE JudgeUnbind(t)
  <2>1. UNCHANGED <<envs, tracing>>
        /\ (GoOn(t, "unset") \/ GoOn(t, "mayUnbind") \/ EndForm(t, "unbound"))
    BY <1>1 DEF JudgeUnbind
  <2> QED
    BY <2>1, GoOnStep, EndFormStep DEF Steps
<1>2. CASE UnsetRoot(t)
  <2>0. form[t].name \in Name /\ ~form[t].new.traced
    BY DEF BindingsInv, ThreadsOK, WrapInv, Forms
  <2>1. /\ GoOn(t, "forget") /\ rootVars' = [rootVars EXCEPT ![form[t].name] = NoCell]
        /\ rootLock = NoThread /\ UNCHANGED <<frame, frameLock, rootLock, origs, traceMu>>
    BY <1>2 DEF UnsetRoot, tracing
  <2>2. ThreadsOK' /\ Others(t) /\ at'[t] = "forget" /\ form'[t] = form[t] /\ ~InHook(t)'
    BY <2>1, GotoLemma DEF BindingsInv, GoOn, Steps, InHook
  <2>3. EnvsOK'
    BY <2>0, <2>1 DEF BindingsInv, EnvsOK
  <2>4. \A n \in Name : rootVars'[n] = NoCell \/ rootVars'[n] = rootVars[n]
    BY <2>1 DEF BindingsInv, EnvsOK
  <2>5. \A n \in Name : ~origs'[n].traced /\ (rootVars'[n].traced => origs'[n] # NoCell)
    BY <2>1, <2>4, NoFormLemma DEF BindingsInv, WrapInv
  <2> QED
    BY <2>0, <2>1, <2>2, <2>3, <2>5, Compose
<1>3. CASE RemoveDefinition(t)
  <2>1. UNCHANGED <<envs, tracing>> /\ GoOn(t, "doc")
    BY <1>3 DEF RemoveDefinition
  <2> QED
    BY <2>1, GoOnStep DEF Steps
<1>4. CASE LogUnbind(t)
  <2>1. UNCHANGED <<envs, tracing>> /\ EndForm(t, "ok")
    BY <1>4 DEF LogUnbind
  <2> QED
    BY <2>1, EndFormStep
<1>5. CASE AskToUnbind(t)
  <2>1. UNCHANGED <<envs, tracing>> /\ (GoOn(t, "unset") \/ EndForm(t, "refused"))
    BY <1>5 DEF AskToUnbind
  <2> QED
    BY <2>1, GoOnStep, EndFormStep DEF Steps
<1> QED
  BY <1>1, <1>2, <1>3, <1>4, <1>5 DEF Unbinding

LEMMA TracingStep == ASSUME BindingsInv, NEW t \in Thread, Tracing(t) PROVE BindingsInv'
<1> DEFINE x == form[t].name
<1>0. x \in Name /\ ~form[t].new.traced /\ rootVars[x] \in Cell \cup {NoCell}
      /\ origs[x] \in Cell \cup {NoCell}
  BY DEF BindingsInv, ThreadsOK, EnvsOK, WrapInv, Forms
<1>1. CASE TraceReads(t)
  <2>1. CASE ~MayTrace(x)
    <3>1. UNCHANGED <<envs, tracing>> /\ \E r : EndForm(t, r)
      BY <1>1, <2>1 DEF TraceReads
    <3> QED
      BY <3>1, EndFormStep
  <2>2. CASE MayTrace(x)
    <3>1. /\ origs' = [origs EXCEPT ![x] = rootVars[x]] /\ old' = [old EXCEPT ![t] = rootVars[x]]
          /\ traceMu = NoThread /\ traceMu' = t /\ at' = [at EXCEPT ![t] = "wrap"]
          /\ UNCHANGED <<rootVars, frame, frameLock, rootLock, form, asked>>
      BY <1>1, <2>2 DEF TraceReads, Goto, envs
    <3>2. origs[x] = NoCell /\ rootVars[x] # NoCell
      BY <2>2 DEF MayTrace, NoCell
    <3>3. ~rootVars[x].traced
      BY <1>0, <3>2 DEF BindingsInv, WrapInv
    <3>4. ThreadsOK' /\ Others(t) /\ at'[t] = "wrap" /\ old'[t] = rootVars[x] /\ ~InHook(t)'
      BY <1>0, <3>1 DEF BindingsInv, ThreadsOK, Others, Steps, InHook
    <3>5. EnvsOK'
      BY <1>0, <3>1 DEF BindingsInv, EnvsOK
    <3>6. origs'[x] = rootVars[x] /\ \A n \in Name \ {x} : origs'[n] = origs[n]
      BY <1>0, <3>1 DEF BindingsInv, EnvsOK
    <3>7. \A n \in Name : ~origs'[n].traced /\ (rootVars'[n].traced => origs'[n] # NoCell)
      BY <3>1, <3>2, <3>3, <3>6 DEF BindingsInv, WrapInv
    <3> QED
      BY <1>0, <3>1, <3>2, <3>4, <3>5, <3>6, <3>7, Compose
  <2> QED
    BY <2>1, <2>2
<1>2. CASE TraceWraps(t)
  <2>0. traceMu = t /\ old[t] = origs[x] /\ origs[x] # NoCell
    BY <1>2 DEF TraceWraps, BindingsInv, WrapInv
  <2>1. /\ traceMu' = NoThread /\ rootLock = NoThread /\ UNCHANGED <<frame, frameLock, rootLock>>
        /\ \E r : EndForm(t, r)
    BY <1>2 DEF TraceWraps
  <2>2. ThreadsOK' /\ Others(t) /\ at'[t] = "idle" /\ ~form'[t].new.traced /\ ~InHook(t)'
    BY <2>1, EndFormLemma, NoFormLemma DEF BindingsInv, InHook
  <2>3. CASE rootVars[x] # NoCell
    <3>1. rootVars' = [rootVars EXCEPT ![x] = Wrapper(old[t])] /\ UNCHANGED origs
      BY <1>2, <2>3 DEF TraceWraps
    <3>2. Wrapper(old[t]) \in Cell
      BY <1>0, <2>0 DEF Wrapper, Cell, Kind
    <3>3. EnvsOK'
      BY <1>0, <2>1, <3>1, <3>2 DEF BindingsInv, EnvsOK
    <3>4. \A n \in Name : n = x \/ rootVars'[n] = rootVars[n]
      BY <3>1 DEF BindingsInv, EnvsOK
    <3>5. \A n \in Name : ~origs'[n].traced /\ (rootVars'[n].traced => origs'[n] # NoCell)
      BY <2>0, <3>1, <3>4 DEF BindingsInv, WrapInv
    <3> QED
      BY <2>0, <2>1, <2>2, <3>3, <3>5, Compose
  <2>4. CASE rootVars[x] = NoCell
    <3>1. origs' = [origs EXCEPT ![x] = NoCell] /\ UNCHANGED rootVars
      BY <1>2, <2>4 DEF TraceWraps
    <3>2. EnvsOK'
      BY <1>0, <2>1, <3>1 DEF BindingsInv, EnvsOK
    <3>3. origs'[x] = NoCell /\ \A n \in Name \ {x} : origs'[n] = origs[n]
      BY <1>0, <3>1 DEF BindingsInv, EnvsOK
    <3>4. \A n \in Name : ~origs'[n].traced /\ (rootVars'[n].traced => origs'[n] # NoCell)
      BY <2>4, <3>1, <3>3, NoFormLemma DEF BindingsInv, WrapInv
    <3> QED
      BY <2>0, <2>1, <2>2, <3>2, <3>4, Compose
  <2> QED
    BY <2>3, <2>4
<1>3. CASE UntraceRestores(t)
  <2>1. /\ traceMu = NoThread /\ UNCHANGED <<frame, frameLock, rootLock, traceMu>>
        /\ \E r : EndForm(t, r)
    BY <1>3 DEF UntraceRestores
  <2>2. ThreadsOK' /\ Others(t) /\ at'[t] = "idle" /\ ~form'[t].new.traced /\ ~InHook(t)'
    BY <2>1, EndFormLemma, NoFormLemma DEF BindingsInv, InHook
  <2>3. \/ /\ rootVars' = [rootVars EXCEPT ![x] = origs[x]] /\ origs' = [origs EXCEPT ![x] = NoCell]
           /\ rootLock = NoThread
        \/ UNCHANGED <<rootVars, origs>>
    BY <1>3 DEF UntraceRestores
  <2>4. EnvsOK'
    BY <1>0, <2>1, <2>3 DEF BindingsInv, EnvsOK
  <2>5. \/ /\ rootVars'[x] = origs[x] /\ origs'[x] = NoCell
           /\ \A n \in Name \ {x} : rootVars'[n] = rootVars[n] /\ origs'[n] = origs[n]
        \/ UNCHANGED <<rootVars, origs>>
    BY <1>0, <2>3 DEF BindingsInv, EnvsOK
  <2>6. \A n \in Name : ~origs'[n].traced /\ (rootVars'[n].traced => origs'[n] # NoCell)
    BY <2>5, NoFormLemma DEF BindingsInv, WrapInv
  <2> QED
    BY <2>1, <2>2, <2>3, <2>4, <2>6, Compose
<1>4. CASE AllRestored(t)
  <2>1. /\ traceMu' = NoThread /\ EndForm(t, "ok")
        /\ UNCHANGED <<rootVars, frame, frameLock, rootLock, origs>>
    BY <1>4 DEF AllRestored, envs
  <2>2. ThreadsOK' /\ Others(t) /\ at'[t] = "idle" /\ ~form'[t].new.traced /\ ~InHook(t)'
    BY <2>1, EndFormLemma, NoFormLemma DEF BindingsInv, InHook
  <2>3. traceMu = t
    BY <1>4 DEF AllRestored, BindingsInv, WrapInv
  <2>4. EnvsOK'
    BY <2>1 DEF BindingsInv, EnvsOK
  <2>5. \A n \in Name : ~origs'[n].traced /\ (rootVars'[n].traced => origs'[n] # NoCell)
    BY <2>1 DEF BindingsInv, WrapInv
  <2> QED
    BY <2>1, <2>2, <2>3, <2>4, <2>5, Compose
<1>5. ASSUME NEW n \in Name, RestoreOne(t, n) PROVE BindingsInv'
  <2>1. /\ at[t] = "restore" /\ origs' = [origs EXCEPT ![n] = NoCell]
        /\ rootVars' = IF rootVars[n] # NoCell THEN [rootVars EXCEPT ![n] = origs[n]] ELSE rootVars
        /\ rootLock = NoThread /\ UNCHANGED <<frame, frameLock, rootLock, traceMu, at, form, reading>>
    BY <1>5 DEF RestoreOne
  <2>2. traceMu = t
    BY <2>1 DEF BindingsInv, WrapInv
  <2>3. ThreadsOK' /\ Others(t) /\ ~InHook(t)'
    BY <2>1 DEF BindingsInv, ThreadsOK, Others, InHook, reading
  <2>4. EnvsOK'
    BY <2>1 DEF BindingsInv, EnvsOK
  <2>5. /\ origs'[n] = NoCell /\ (rootVars'[n] = origs[n] \/ rootVars'[n] = NoCell)
        /\ \A m \in Name \ {n} : rootVars'[m] = rootVars[m] /\ origs'[m] = origs[m]
    BY <2>1 DEF BindingsInv, EnvsOK
  <2>6. \A m \in Name : ~origs'[m].traced /\ (rootVars'[m].traced => origs'[m] # NoCell)
    BY <2>5, NoFormLemma DEF BindingsInv, WrapInv
  <2> QED
    BY <1>0, <2>1, <2>2, <2>3, <2>4, <2>6, Compose
<1> QED
  BY <1>1, <1>2, <1>3, <1>4, <1>5 DEF Tracing

LEMMA BindingsInitOK == BindingsInit => BindingsInv
<1> SUFFICES ASSUME BindingsInit PROVE BindingsInv
  OBVIOUS
<1>1. ThreadsOK
  BY NoFormLemma DEF BindingsInit, ThreadsOK, Steps
<1>2. rootVars \in [Name -> Cell \cup {NoCell}] /\ \A n \in Name : ~rootVars[n].traced
  <2> DEFINE c == [kind |-> "func", file |-> CHOOSE f \in File : TRUE, traced |-> FALSE]
  <2>1. c \in Cell /\ ~c.traced
    <3>1. (CHOOSE x \in File : TRUE) \in File
      BY BindingsAssumption
    <3> QED
      BY <3>1 DEF Cell, Kind
  <2>2. rootVars \in [Name -> {NoCell, c}]
    BY DEF BindingsInit
  <2> HIDE DEF c
  <2> QED
    BY <2>1, <2>2, NoFormLemma
<1>3. EnvsOK
  BY <1>2 DEF BindingsInit, EnvsOK
<1>4. ClimbInv
  BY DEF BindingsInit, ClimbInv
<1>5. WrapInv
  BY <1>2, NoFormLemma DEF BindingsInit, WrapInv
<1>6. HookInv
  BY DEF BindingsInit, HookInv, InHook
<1> QED
  BY <1>1, <1>3, <1>4, <1>5, <1>6 DEF BindingsInv

\* redefine-policy comes between any two steps and stores one of the policies.
LEMMA PolicyStep ==
  PolicyOK /\ [BindingsNext]_bindingsVars => PolicyOK'
<1> SUFFICES ASSUME policy \in Policy, [BindingsNext]_bindingsVars PROVE policy' \in Policy
  BY DEF PolicyOK
<1>1. ASSUME NEW p \in Policy, RedefinePolicy(p) PROVE policy' \in Policy
  BY <1>1 DEF RedefinePolicy
<1>2. ASSUME NEW t \in Thread, Evaluates(t) PROVE UNCHANGED policy
  BY <1>2 DEF Evaluates, Begin, Define, Assign, Makunbound, Trace, Untrace, UntraceAll, BeginForm,
     Checking, CheckBinding, Judge, AskPolicy, Record, Setting, SetInFrame, SetInRoot, CallHook, HookAsks,
     HookLogs, WriteAllowed, Registering, RegisterDefinition, RegisterDocstring, Assigning, UpdateFrame,
     UpdateRoot, Unbinding, JudgeUnbind, AskToUnbind, UnsetRoot, RemoveDefinition, LogUnbind, Tracing,
     TraceReads, TraceWraps, UntraceRestores, AllRestored, RestoreOne, records
<1> QED
  BY <1>1, <1>2 DEF BindingsNext, bindingsVars, records

LEMMA BindingsInvariance == BindingsSpec => [](BindingsInv /\ PolicyOK)
<1>1. BindingsInv /\ PolicyOK /\ [BindingsNext]_bindingsVars => BindingsInv'
  <2> SUFFICES ASSUME BindingsInv, PolicyOK, [BindingsNext]_bindingsVars PROVE BindingsInv'
    OBVIOUS
  <2>1. ASSUME NEW t \in Thread, Evaluates(t) PROVE BindingsInv'
    BY <2>1, BeginStep, CheckingStep, SettingStep, RegisteringStep, AssigningStep, UnbindingStep, TracingStep
       DEF Evaluates
  <2>2. CASE UNCHANGED bindingsVars \/ \E p \in Policy : RedefinePolicy(p)
    <3>1. UNCHANGED <<rootVars, frame, frameLock, rootLock, origs, traceMu, at, form, old, asked>>
      BY <2>2 DEF RedefinePolicy, bindingsVars, envs, tracing, reading
    <3> QED
      BY <3>1 DEF BindingsInv, ThreadsOK, EnvsOK, ClimbInv, WrapInv, HookInv, InHook, Holds
  <2> QED
    BY <2>1, <2>2 DEF BindingsNext
<1>2. BindingsInit => PolicyOK
  BY DEF BindingsInit, Policy, PolicyOK
<1> QED
  BY <1>1, <1>2, PolicyStep, BindingsInitOK, PTL DEF BindingsSpec

\* However many goroutines bind, assign and trace, set! and setq reach the
\* innermost binding: the frame stays without one until the root is written
\* (env.go, Update).
THEOREM UpdateInnermostTheorem == BindingsSpec => []UpdateInnermost
<1>1. BindingsInv => UpdateInnermost
  BY DEF BindingsInv, ClimbInv, UpdateInnermost
<1> QED
  BY <1>1, BindingsInvariance, PTL

\* Whatever is redefined or unbound between the two steps of trace: untrace
\* finds the function behind every wrapper (trace.go).
THEOREM NoOrphanWrapperTheorem == BindingsSpec => []NoOrphanWrapper
<1>1. BindingsInv => NoOrphanWrapper
  BY DEF BindingsInv, WrapInv, NoOrphanWrapper
<1> QED
  BY <1>1, BindingsInvariance, PTL

\* Of the goroutines that the hook has told something else than "error" one at
\* most is left, for the hook keeps the root locked.
LEMMA OneInHook ==
  ASSUME BindingsInv, NEW t \in Thread, NEW u \in Thread, InHook(t), InHook(u) PROVE t = u
  BY DEF BindingsInv, HookInv, Holds

\* A definition or assignVar that takes a FUNC away takes exactly the one that
\* the hook has been asked about and has logged under the policy it was told
\* (env.go, Set; redeflog.go), whatever other goroutines trace, unbind and
\* define and however the policy is switched in between; and after a switch to
\* "error" no second form of this kind is left: for any number of goroutines.
THEOREM PrimitivesGuardedTheorem == BindingsSpec => PrimitivesGuarded
<1> DEFINE Told(n) ==
             \E t \in Thread :
               /\ ToldOtherwise(t) /\ form[t].name = n /\ old[t] = rootVars[n]
               /\ policy = "error" => \A u \in Thread : ~ToldOtherwise(u)'
           Guarded ==
             \A n \in Name :
               (/\ rootVars[n].kind = "func" /\ rootVars'[n] \notin {rootVars[n], NoCell}
                /\ \A t \in Thread : ~ByUpdate(t))
               => Told(n)
<1>1. BindingsInv /\ BindingsNext => Guarded
  <2> SUFFICES ASSUME BindingsInv, BindingsNext, NEW n \in Name,
                      rootVars[n].kind = "func", rootVars'[n] \notin {rootVars[n], NoCell},
                      \A t \in Thread : ~ByUpdate(t)
               PROVE  Told(n)
    OBVIOUS
  <2>0. rootVars # rootVars'
    OBVIOUS
  <2>1. PICK t \in Thread : Evaluates(t)
    BY <2>0 DEF BindingsNext, RedefinePolicy, envs
  <2> DEFINE x == form[t].name
  <2>2. x \in Name
    BY FormLemma
  <2>3. ~Begin(t)
    BY <2>0 DEF Begin, Define, Assign, Makunbound, Trace, Untrace, UntraceAll, BeginForm, envs
  <2>4. ~Checking(t) /\ ~Registering(t)
    BY <2>0 DEF Checking, CheckBinding, Judge, AskPolicy, Record, Registering, RegisterDefinition,
                RegisterDocstring, envs
  <2>5. CASE Setting(t)
    <3>1. SetInRoot(t) \/ WriteAllowed(t)
      BY <2>0, <2>5 DEF Setting, SetInFrame, CallHook, HookAsks, HookLogs, envs
    <3>2. rootVars' = [rootVars EXCEPT ![x] = form[t].new]
      BY <3>1 DEF SetInRoot, WriteAllowed, WriteRoot
    <3>3. n = x
      BY <3>2 DEF BindingsInv, EnvsOK
    <3>4. WriteAllowed(t)
      BY <3>1, <3>3 DEF SetInRoot
    <3>5. at[t] = "write" /\ InHook(t) /\ Holds(t)
      BY <3>4 DEF WriteAllowed, BindingsInv, HookInv, InHook
    <3>6. AfterSet(t)
      BY <3>4 DEF WriteAllowed
    <3>7. Others(t) /\ ~InHook(t)'
      BY <3>6, AfterSetLemma
    <3>8. ASSUME NEW u \in Thread, ToldOtherwise(u)' PROVE FALSE
      <4>1. InHook(u)'
        BY <3>8 DEF ToldOtherwise, InHook
      <4>2. u # t
        BY <3>7, <4>1
      <4>3. InHook(u)
        BY <3>7, <4>1, <4>2 DEF Others, InHook
      <4> QED
        BY <3>5, <4>2, <4>3, OneInHook
    <3> QED
      BY <3>3, <3>5, <3>8 DEF ToldOtherwise, Holds
  <2>6. ~Assigning(t)
    <3>1. ~UpdateFrame(t)
      BY <2>0 DEF UpdateFrame
    <3>2. ASSUME UpdateRoot(t) PROVE FALSE
      <4>1. at[t] = "climb" /\ (Unfound(t) \/ EndForm(t, "ok"))
        BY <3>2 DEF UpdateRoot
      <4>2. at'[t] \in {"idle", "set"}
        BY <4>1 DEF Unfound, EndForm, GoOn, Goto, BindingsInv, ThreadsOK
      <4> QED
        BY <4>1, <4>2 DEF ByUpdate
    <3> QED
      BY <3>1, <3>2 DEF Assigning
  <2>7. ~Unbinding(t)
    <3>1. ASSUME UnsetRoot(t) PROVE FALSE
      <4>1. rootVars' = [rootVars EXCEPT ![x] = NoCell]
        BY <3>1 DEF UnsetRoot
      <4> QED
        BY <2>2, <4>1 DEF BindingsInv, EnvsOK
    <3> QED
      BY <2>0, <3>1 DEF Unbinding, JudgeUnbind, AskToUnbind, RemoveDefinition, LogUnbind, envs
  <2>8. ~Tracing(t)
    <3>1. ~TraceReads(t) /\ ~AllRestored(t)
      BY <2>0 DEF TraceReads, AllRestored, envs
    <3>2. ASSUME TraceWraps(t) \/ UntraceRestores(t) PROVE FALSE
      <4>1. at[t] \in {"wrap", "untrace"} /\ \E r : EndForm(t, r)
        BY <2>0, <3>2 DEF TraceWraps, UntraceRestores
      <4>2. at'[t] = "idle"
        BY <4>1, EndFormLemma DEF BindingsInv
      <4> QED
        BY <4>1, <4>2 DEF ByUpdate
    <3>3. ASSUME NEW m \in Name, RestoreOne(t, m) PROVE FALSE
      <4>1. at[t] = "restore" /\ origs[m] # NoCell /\ origs' = [origs EXCEPT ![m] = NoCell]
        BY <3>3 DEF RestoreOne
      <4>2. origs' # origs
        BY <4>1 DEF BindingsInv, EnvsOK
      <4> QED
        BY <4>1, <4>2 DEF ByUpdate
    <3> QED
      BY <3>1, <3>2, <3>3 DEF Tracing
  <2> QED
    BY <2>1, <2>3, <2>4, <2>5, <2>6, <2>7, <2>8 DEF Evaluates
<1>2. BindingsInv /\ [BindingsNext]_bindingsVars => [Guarded]_bindingsVars
  BY <1>1
<1>3. BindingsSpec => [][Guarded]_bindingsVars
  BY <1>2, BindingsInvariance, PTL DEF BindingsSpec
<1> QED
  BY <1>3 DEF PrimitivesGuarded
------------------------------------------------------------------------------
(* Maxima *)

\* What the short channels of a session look like after one of their steps.
LEMMA ShortSequences ==
  ASSUME NEW a, NEW b
  PROVE  /\ Append(<<>>, a) = <<a>> /\ <<>> \o <<a, b>> = <<a, b>>
         /\ Head(<<a>>) = a /\ Tail(<<a>>) = <<>> /\ <<a>> # <<>>
         /\ Head(<<a, b>>) = a /\ Tail(<<a, b>>) = <<b>> /\ <<a, b>> # <<>>
  OBVIOUS

LEMMA LineLemma == \A i, j : Text(i) # Token(j) /\ (Token(i) = Token(j) => i = j)
  BY DEF Text, Token

LEMMA CallLemma == MaxEvals \in Nat /\ Call \subseteq Nat /\ Call \subseteq 0..MaxEvals /\ 0 \notin Call
                   /\ "nobody" \notin Goroutine
  BY MaximaAssumption DEF Call

LEMMA MaximaInitOK == MaximaInit => MaximaInv
<1> SUFFICES ASSUME MaximaInit PROVE MaximaInv
  OBVIOUS
<1>1. SessionInv
  BY CallLemma DEF MaximaInit, SessionInv
<1>2. ReaderInv
  BY CallLemma DEF MaximaInit, ReaderInv
<1>3. AnswerInv
  BY DEF MaximaInit, AnswerInv
<1> QED
  BY <1>1, <1>2, <1>3 DEF MaximaInv

\* Goroutines that only take a place in the queue for the session.
LEMMA QueueStep ==
  ASSUME MaximaInv, NEW g \in Goroutine, CallEval(g) \/ CallClose(g)
  PROVE  MaximaInv'
<1>1. /\ step[g] = "idle" /\ step'[g] \in {"lock", "lockToClose"}
      /\ \A h \in Goroutine \ {g} : step'[h] = step[h]
      /\ step' \in [Goroutine -> {"idle", "lock", "wait", "lockToClose", "waitExit"}]
      /\ UNCHANGED <<mu, closed, sentinels, process, stdin, stdout, readers, buf, mine, answer>>
  BY DEF CallEval, CallClose, theProcess, theReaders, MaximaInv, SessionInv
<1>2. SessionInv'
  BY <1>1 DEF MaximaInv, SessionInv
<1>3. ReaderInv'
  BY <1>1 DEF MaximaInv, ReaderInv, Underway
<1>4. AnswerInv'
  BY <1>1 DEF MaximaInv, AnswerInv
<1> QED
  BY <1>2, <1>3, <1>4 DEF MaximaInv

\* Whoever finds the session free finds nobody waiting, and no reader reading
\* from a process that is not dead.
LEMMA FreeLemma ==
  ASSUME MaximaInv, mu = "nobody"
  PROVE  /\ \A g \in Goroutine : step[g] \notin {"wait", "waitExit"}
         /\ process # "dead" => \A i \in Call : readers[i] # "reading"
<1>1. \A g \in Goroutine : step[g] \notin {"wait", "waitExit"}
  BY CallLemma DEF MaximaInv, SessionInv
<1> QED
  BY <1>1 DEF MaximaInv, ReaderInv

LEMMA WriteStep ==
  ASSUME MaximaInv, NEW g \in Goroutine, NEW kind \in ExprKind, WriteExpression(g, kind)
  PROVE  MaximaInv'
<1>0. PICK s : s = sentinels + 1
  OBVIOUS
<1>1. /\ step[g] = "lock" /\ mu = "nobody" /\ sentinels' = s /\ mine' = [mine EXCEPT ![g] = s]
      /\ UNCHANGED <<closed, process, stdout, buf>>
  BY <1>0 DEF WriteExpression
<1>2. /\ s \in Call /\ sentinels \in Nat /\ s \in 0..MaxEvals
      /\ \A i \in Call : i > s => i > sentinels /\ i # s
  BY <1>0, CallLemma DEF WriteExpression, MaximaInv, SessionInv, Call
<1>3. /\ \A h \in Goroutine : step[h] \notin {"wait", "waitExit"}
      /\ readers[s] = "none" /\ buf[s] = <<>>
  <2>1. s > sentinels
    BY <1>0, <1>2
  <2> QED
    BY <1>1, <1>2, <2>1, FreeLemma DEF MaximaInv, ReaderInv
<1>4. CASE process = "up"
  <2> DEFINE c == [n |-> s, kind |-> kind]
  <2>1. /\ stdin' = Append(stdin, c) /\ readers' = [readers EXCEPT ![s] = "reading"]
        /\ mu' = g /\ step' = [step EXCEPT ![g] = "wait"] /\ UNCHANGED answer
    BY <1>0, <1>1, <1>4 DEF WriteExpression
  <2>2. \A i \in Call : readers[i] # "reading"
    BY <1>1, <1>4, FreeLemma
  <2>3. stdin = <<>> /\ stdout = <<>>
    BY <2>2 DEF MaximaInv, ReaderInv
  <2>4. stdin' = <<c>> /\ stdin' # <<>>
    <3> HIDE DEF c
    <3> QED
      BY <2>1, <2>3, ShortSequences
  <2>5. SessionInv'
    BY <1>1, <1>2, <1>3, <2>1 DEF MaximaInv, SessionInv
  <2>6. readers'[s] = "reading" /\ \A i \in Call \ {s} : readers'[i] = readers[i]
    BY <1>2, <2>1 DEF MaximaInv, ReaderInv
  <2>7. Underway(s)'
    <3>1. \E k \in ExprKind : stdin' = <<[n |-> s, kind |-> k]>>
      BY <2>4
    <3>2. stdout' = <<>> /\ buf'[s] = <<>> /\ process' = "up"
      BY <1>1, <1>3, <1>4, <2>3
    <3> HIDE DEF c
    <3> QED
      BY <3>1, <3>2 DEF Underway
  <2>8. step'[g] = "wait" /\ mine'[g] = s
    BY <1>1, <2>1 DEF MaximaInv, SessionInv
  <2>9. readers' \in [Call -> {"none", "reading", "found", "ended"}]
    BY <2>1 DEF MaximaInv, ReaderInv
  <2>10. ReaderInv'
    <3> HIDE DEF c
    <3>1. \A i \in Call : readers'[i] = "reading" => i = s
      BY <2>2, <2>6
    <3>2. \A i \in Call : i > sentinels' => readers'[i] = "none" /\ buf'[i] = <<>>
      BY <1>1, <1>2, <2>6 DEF MaximaInv, ReaderInv
    <3>3. \A i \in Call : /\ readers'[i] = "found" => buf'[i] = <<Text(i)>>
                         /\ readers'[i] = "ended" => process' = "dead"
      BY <1>1, <2>6 DEF MaximaInv, ReaderInv
    <3> QED
      BY <1>1, <1>2, <1>4, <2>6, <2>7, <2>8, <2>9, <3>1, <3>2, <3>3 DEF MaximaInv, ReaderInv
  <2>11. AnswerInv'
    BY <2>1 DEF MaximaInv, AnswerInv
  <2> QED
    BY <2>5, <2>10, <2>11 DEF MaximaInv
<1>5. CASE process # "up"
  <2>1. /\ answer' = [answer EXCEPT ![s] = Failed("write")] /\ step' = [step EXCEPT ![g] = "idle"]
        /\ UNCHANGED <<stdin, readers, mu>>
    BY <1>0, <1>1, <1>5 DEF WriteExpression
  <2>2. SessionInv'
    BY <1>1, <1>2, <1>3, <2>1 DEF MaximaInv, SessionInv
  <2>3. ReaderInv'
    BY <1>1, <1>2, <1>3, <1>5, <2>1 DEF MaximaInv, ReaderInv, Underway
  <2>4. AnswerInv'
    BY <1>2, <2>1 DEF MaximaInv, SessionInv, AnswerInv
  <2> QED
    BY <2>2, <2>3, <2>4 DEF MaximaInv
<1> QED
  BY <1>4, <1>5

\* The one reader that is reading takes the next line of its own call.
LEMMA ReadLineStep == ASSUME MaximaInv, NEW i \in Call, ReadLine(i) PROVE MaximaInv'
<1>1. /\ readers[i] = "reading" /\ stdout # <<>> /\ stdout' = Tail(stdout)
      /\ UNCHANGED <<mu, closed, sentinels, process, stdin, step, mine, answer>>
  BY DEF ReadLine
<1>2. \A j \in Call \ {i} : readers[j] # "reading"
  BY <1>1 DEF MaximaInv, ReaderInv
<1>3. ~(i > sentinels)
  BY <1>1 DEF MaximaInv, ReaderInv
<1>4. SessionInv' /\ AnswerInv'
  BY <1>1 DEF MaximaInv, SessionInv, AnswerInv
<1>5. CASE stdin = <<>> /\ stdout = <<Text(i), Token(i)>> /\ buf[i] = <<>>
  <2>1. Head(stdout) = Text(i) /\ stdout' = <<Token(i)>> /\ Append(buf[i], Text(i)) = <<Text(i)>>
    BY <1>1, <1>5, ShortSequences
  <2>2. buf' = [buf EXCEPT ![i] = Append(@, Text(i))] /\ UNCHANGED readers
    BY <2>1, LineLemma DEF ReadLine, Token
  <2>3. buf'[i] = <<Text(i)>> /\ DOMAIN buf' = Call /\ \A j \in Call \ {i} : buf'[j] = buf[j]
    BY <2>1, <2>2 DEF MaximaInv, ReaderInv
  <2>4. Underway(i)'
    BY <1>1, <1>5, <2>1, <2>3 DEF Underway
  <2>5. ReaderInv'
    BY <1>1, <1>2, <1>3, <2>2, <2>3, <2>4 DEF MaximaInv, ReaderInv
  <2> QED
    BY <1>4, <2>5 DEF MaximaInv
<1>6. CASE stdin = <<>> /\ stdout = <<Token(i)>> /\ buf[i] = <<Text(i)>>
  <2>1. Head(stdout) = Token(i) /\ stdout' = <<>>
    BY <1>1, <1>6, ShortSequences
  <2>2. readers' = [readers EXCEPT ![i] = "found"] /\ UNCHANGED buf
    BY <2>1 DEF ReadLine, Token
  <2>3. /\ readers'[i] = "found" /\ \A j \in Call \ {i} : readers'[j] = readers[j]
        /\ readers' \in [Call -> {"none", "reading", "found", "ended"}]
    BY <2>2 DEF MaximaInv, ReaderInv
  <2>4. ReaderInv'
    BY <1>1, <1>2, <1>3, <1>6, <2>1, <2>2, <2>3 DEF MaximaInv, ReaderInv
  <2> QED
    BY <1>4, <2>4 DEF MaximaInv
<1> QED
  BY <1>1, <1>5, <1>6 DEF MaximaInv, ReaderInv, Underway

LEMMA ReadEndStep == ASSUME MaximaInv, NEW i \in Call, ReadEnd(i) PROVE MaximaInv'
<1>1. /\ readers[i] = "reading" /\ stdout = <<>> /\ process = "dead"
      /\ readers' = [readers EXCEPT ![i] = "ended"]
      /\ UNCHANGED <<mu, closed, sentinels, process, stdin, stdout, buf, step, mine, answer>>
  BY DEF ReadEnd, theProcess
<1>2. stdin = <<>> /\ ~(i > sentinels)
  <2>1. <<Text(i), Token(i)>> # <<>> /\ <<Token(i)>> # <<>>
    BY ShortSequences
  <2> QED
    BY <1>1, <2>1 DEF MaximaInv, ReaderInv, Underway
<1>3. /\ readers'[i] = "ended" /\ \A j \in Call \ {i} : readers'[j] = readers[j] /\ readers[j] # "reading"
      /\ readers' \in [Call -> {"none", "reading", "found", "ended"}]
  BY <1>1 DEF MaximaInv, ReaderInv
<1>4. SessionInv' /\ AnswerInv'
  BY <1>1 DEF MaximaInv, SessionInv, AnswerInv
<1>5. ReaderInv'
  BY <1>1, <1>2, <1>3 DEF MaximaInv, ReaderInv
<1> QED
  BY <1>4, <1>5 DEF MaximaInv

\* A call that ends well ends with what its own reader has found.
LEMMA EvalEndsStep == ASSUME MaximaInv, NEW g \in Goroutine, EvalEnds(g) PROVE MaximaInv'
<1> DEFINE i == mine[g]
<1>1. /\ step[g] = "wait" /\ readers[i] \in {"found", "ended"} /\ step' = [step EXCEPT ![g] = "idle"]
      /\ mu' = "nobody"
      /\ answer' = [answer EXCEPT ![i] = IF readers[i] = "found" THEN <<"ok", buf[i]>> ELSE Failed("read")]
      /\ UNCHANGED <<closed, sentinels, process, stdin, stdout, readers, buf, mine>>
  BY DEF EvalEnds, Returns, theProcess, theReaders
<1>2. i \in Call /\ \A h \in Goroutine \ {g} : step[h] \notin {"wait", "waitExit"}
  BY <1>1 DEF MaximaInv, SessionInv
<1>3. SessionInv'
  BY <1>1, <1>2 DEF MaximaInv, SessionInv
<1>4. ReaderInv'
  <2>1. process # "dead" => \A j \in Call : readers[j] # "reading"
    BY <1>1, <1>2 DEF MaximaInv, ReaderInv
  <2> QED
    BY <1>1, <2>1 DEF MaximaInv, ReaderInv, Underway
<1>5. AnswerInv'
  <2>1. readers[i] = "found" => buf[i] = <<Text(i)>>
    BY <1>2 DEF MaximaInv, ReaderInv
  <2> HIDE DEF i
  <2>2. answer'[i] \in {Failed("read"), <<"ok", <<Text(i)>>>>}
    BY <1>1, <1>2, <2>1 DEF MaximaInv, SessionInv
  <2>3. \A j \in Call \ {i} : answer'[j] = answer[j]
    BY <1>1 DEF MaximaInv, SessionInv
  <2> QED
    BY <2>2, <2>3 DEF MaximaInv, AnswerInv
<1> QED
  BY <1>3, <1>4, <1>5 DEF MaximaInv

\* The timeout and the end of a session leave a dead process, whose stdout is
\* read by one reader at most.
LEMMA KilledLemma ==
  ASSUME ReaderInv, process' = "dead", stdin' = <<>>, UNCHANGED <<sentinels, stdout, readers, buf>>
  PROVE  ReaderInv'
<1>1. \A i \in Call : readers[i] = "reading" => Underway(i)'
  BY DEF ReaderInv, Underway
<1> QED
  BY <1>1 DEF ReaderInv

LEMMA TimesOutStep == ASSUME MaximaInv, NEW g \in Goroutine, TimesOut(g) PROVE MaximaInv'
<1>1. /\ step[g] = "wait" /\ step' = [step EXCEPT ![g] = "idle"] /\ mu' = "nobody"
      /\ answer' = [answer EXCEPT ![mine[g]] = Failed("timeout")]
      /\ process' = "dead" /\ stdin' = <<>>
      /\ UNCHANGED <<closed, sentinels, stdout, readers, buf, mine>>
  BY DEF TimesOut, Returns, theReaders
<1>2. mine[g] \in Call /\ \A h \in Goroutine \ {g} : step[h] \notin {"wait", "waitExit"}
  BY <1>1 DEF MaximaInv, SessionInv
<1>3. SessionInv'
  BY <1>1, <1>2 DEF MaximaInv, SessionInv
<1>4. ReaderInv'
  BY <1>1, KilledLemma DEF MaximaInv
<1>5. AnswerInv'
  BY <1>1, <1>2 DEF MaximaInv, SessionInv, AnswerInv
<1> QED
  BY <1>3, <1>4, <1>5 DEF MaximaInv

LEMMA CloseStep == ASSUME MaximaInv, NEW g \in Goroutine, Close(g) PROVE MaximaInv'
<1>1. /\ step[g] = "lockToClose" /\ mu = "nobody"
      /\ UNCHANGED <<sentinels, stdin, stdout, readers, buf, mine, answer>>
  BY DEF Close, theReaders
<1>2. /\ \A h \in Goroutine : step[h] \notin {"wait", "waitExit"}
      /\ process # "dead" => \A i \in Call : readers[i] # "reading"
  BY <1>1, FreeLemma
<1>3. \/ step' = [step EXCEPT ![g] = "idle"] /\ UNCHANGED <<mu, process>>
      \/ /\ mu' = g /\ step' = [step EXCEPT ![g] = "waitExit"]
         /\ process' = IF process = "up" THEN "stopping" ELSE process
  BY DEF Close
<1>4. SessionInv'
  BY <1>1, <1>2, <1>3 DEF MaximaInv, SessionInv
<1>5. process' \in {process, "stopping"} /\ (process = "dead" <=> process' = "dead")
  BY <1>3
<1>6. ReaderInv'
  <2>1. \A i \in Call : readers[i] = "reading" => Underway(i)'
    BY <1>1, <1>2, <1>5 DEF MaximaInv, ReaderInv, Underway
  <2> QED
    BY <1>1, <1>2, <1>5, <2>1 DEF MaximaInv, ReaderInv
<1>7. AnswerInv'
  BY <1>1 DEF MaximaInv, AnswerInv
<1> QED
  BY <1>4, <1>6, <1>7 DEF MaximaInv

LEMMA CloseEndsStep == ASSUME MaximaInv, NEW g \in Goroutine, CloseEnds(g) PROVE MaximaInv'
<1>1. /\ step[g] = "waitExit" /\ step' = [step EXCEPT ![g] = "idle"] /\ mu' = "nobody"
      /\ process' = "dead" /\ stdin' = <<>>
      /\ UNCHANGED <<closed, sentinels, stdout, readers, buf, mine, answer>>
  BY DEF CloseEnds, theReaders
<1>2. \A h \in Goroutine \ {g} : step[h] \notin {"wait", "waitExit"}
  BY <1>1 DEF MaximaInv, SessionInv
<1>3. SessionInv'
  BY <1>1, <1>2 DEF MaximaInv, SessionInv
<1>4. ReaderInv'
  BY <1>1, KilledLemma DEF MaximaInv
<1>5. AnswerInv'
  BY <1>1 DEF MaximaInv, AnswerInv
<1> QED
  BY <1>3, <1>4, <1>5 DEF MaximaInv

\* What the process prints is for the call whose reader is reading.
LEMMA ProcessStep == ASSUME MaximaInv, ProcessReads PROVE MaximaInv'
<1>1. /\ stdin # <<>> /\ stdin' = Tail(stdin)
      /\ UNCHANGED <<mu, closed, sentinels, readers, buf, step, mine, answer>>
  BY DEF ProcessReads, theReaders
<1>2. PICK i \in Call : readers[i] = "reading"
  BY <1>1 DEF MaximaInv, ReaderInv
<1>3. /\ stdout = <<>> /\ buf[i] = <<>> /\ process = "up"
      /\ \E kind \in ExprKind : stdin = <<[n |-> i, kind |-> kind]>>
  BY <1>1, <1>2 DEF MaximaInv, ReaderInv, Underway
<1>4. PICK kind \in ExprKind : stdin = <<[n |-> i, kind |-> kind]>>
  BY <1>3
<1> DEFINE c == [n |-> i, kind |-> kind]
<1>5. c.n = i /\ Head(stdin) = c /\ stdin' = <<>>
  <2>1. c.n = i
    OBVIOUS
  <2> HIDE DEF c
  <2>2. stdin = <<c>>
    BY <1>4 DEF c
  <2> QED
    BY <1>1, <2>1, <2>2, ShortSequences
<1>6. \/ process' = "dead" /\ UNCHANGED stdout
      \/ stdout' = stdout \o <<Text(i), Token(i)>> /\ UNCHANGED process
  <2> HIDE DEF c
  <2> QED
    BY <1>5 DEF ProcessReads, Text, Token
<1>7. Underway(i)'
  <2>1. stdout \o <<Text(i), Token(i)>> = <<Text(i), Token(i)>>
    BY <1>3, ShortSequences
  <2> QED
    BY <1>1, <1>3, <1>5, <1>6, <2>1 DEF Underway
<1>8. \A j \in Call : readers[j] = "reading" => j = i
  BY <1>2 DEF MaximaInv, ReaderInv
<1>9. SessionInv' /\ AnswerInv'
  BY <1>1, <1>3, <1>6 DEF MaximaInv, SessionInv, AnswerInv
<1>10. ReaderInv'
  BY <1>1, <1>2, <1>3, <1>6, <1>7, <1>8 DEF MaximaInv, ReaderInv
<1> QED
  BY <1>9, <1>10 DEF MaximaInv

LEMMA MaximaInvariance == MaximaSpec => []MaximaInv
<1>1. MaximaInv /\ [MaximaNext]_maximaVars => MaximaInv'
  <2> SUFFICES ASSUME MaximaInv, [MaximaNext]_maximaVars PROVE MaximaInv'
    OBVIOUS
  <2>1. CASE MaximaNext
    BY <2>1, QueueStep, WriteStep, ReadLineStep, ReadEndStep, EvalEndsStep, TimesOutStep, CloseStep,
       CloseEndsStep, ProcessStep DEF MaximaNext
  <2>2. CASE UNCHANGED maximaVars
    <3>1. SessionInv'
      BY <2>2 DEF MaximaInv, SessionInv, maximaVars
    <3>2. ReaderInv'
      BY <2>2 DEF MaximaInv, ReaderInv, Underway, maximaVars
    <3>3. AnswerInv'
      BY <2>2 DEF MaximaInv, AnswerInv, maximaVars
    <3> QED
      BY <3>1, <3>2, <3>3 DEF MaximaInv
  <2> QED
    BY <2>1, <2>2
<1> QED
  BY <1>1, MaximaInitOK, PTL DEF MaximaSpec

\* Any number of goroutines may share a session and any of their calls may time
\* out: a call that returns a text returns its own expression's (maxima.go).
THEOREM AnswerBelongsTheorem == MaximaSpec => []AnswerBelongs
<1>1. MaximaInv => AnswerBelongs
  <2> SUFFICES ASSUME MaximaInv, NEW i \in Call, answer[i][1] = "ok"
               PROVE  answer[i][2] = <<Text(i)>>
    BY DEF AnswerBelongs, Text
  <2>1. answer[i] \in {NoAnswer, Failed("write"), Failed("read"), Failed("timeout"), <<"ok", <<Text(i)>>>>}
    BY DEF MaximaInv, AnswerInv
  <2>2. NoAnswer[1] # "ok" /\ \A why : Failed(why)[1] # "ok"
    BY DEF NoAnswer, Failed
  <2>3. answer[i] = <<"ok", <<Text(i)>>>>
    BY <2>1, <2>2
  <2> QED
    BY <2>3
<1> QED
  BY <1>1, MaximaInvariance, PTL
------------------------------------------------------------------------------
(* sigoREST *)

LEMMA Monotone ==
  ASSUME NEW p \in Int, NEW q \in Int, NEW t \in Nat, p <= q
  PROVE  p * t <= q * t
<1>1. PICK d \in Nat : q = p + d
  <2>1. q - p \in Nat /\ q = p + (q - p)
    OBVIOUS
  <2> QED
    BY <2>1
<1>2. q * t = p * t + d * t /\ d * t >= 0 /\ p * t \in Int /\ d * t \in Int
  BY <1>1
<1> QED
  BY <1>2

LEMMA Division ==
  ASSUME NEW n \in Int, NEW t \in Int, t > 0, n % t = 0
  PROVE  n \div t \in Int /\ n = t * (n \div t)
OBVIOUS

\* If t goes into n at least u times and divides n + 1, it goes u + 1 times into
\* n + 1.
LEMMA TickDue ==
  ASSUME NEW u \in Nat, NEW t \in Nat \ {0}, NEW n \in Nat, u * t <= n, (n + 1) % t = 0
  PROVE  (u + 1) * t <= n + 1
<1> DEFINE q == (n + 1) \div t
<1>1. q \in Int /\ n + 1 = t * q
  <2>1. n + 1 \in Int /\ t \in Int /\ t > 0
    OBVIOUS
  <2> QED
    BY <2>1, Division
<1>2. n + 1 = q * t
  BY <1>1
<1> HIDE DEF q
<1>3. u + 1 <= q
  <2>1. SUFFICES ASSUME q <= u PROVE FALSE
    BY <1>1
  <2>2. q * t <= u * t
    BY <1>1, <2>1, Monotone
  <2> QED
    BY <1>1, <1>2, <2>2
<1> QED
  BY <1>1, <1>2, <1>3, Monotone

LEMMA SigoInitOK == SigoInit => ThrottleInv
<1> SUFFICES ASSUME SigoInit PROVE ThrottleInv
  OBVIOUS
<1>1. Through = {}
  BY DEF SigoInit, Through
<1>2. Used = 0
  BY <1>1, FS_EmptySet DEF SigoInit, Used
<1>3. Used * TickPeriod <= now
  BY <1>2, SigoAssumption DEF SigoInit
<1>4. IsFiniteSet(Through)
  BY <1>1, FS_EmptySet
<1>5. starts = <<>> /\ starts \in Seq(Nat) /\ Len(starts) = 0
  BY DEF SigoInit
<1>6. \A i \in 1..Len(starts) - 1 : starts[i + 1] >= starts[i] + Pause
  BY <1>5
<1> QED
  BY <1>3, <1>4, <1>5, <1>6 DEF SigoInit, ThrottleInv

LEMMA UsedIsNat ==
  ASSUME ThrottleInv
  PROVE  Used \in Nat /\ Cardinality(Through) \in Nat /\ TickPeriod \in Nat \ {0}
<1>1. Cardinality(Through) \in Nat /\ Len(starts) \in Nat
  BY FS_CardinalityType DEF ThrottleInv
<1> QED
  BY <1>1, SigoAssumption DEF Used

\* A step that takes no tick and lets nobody through.
LEMMA NotThrottled ==
  ASSUME ThrottleInv, UNCHANGED <<lastCall, starts, ticked, now>>,
         stage' \in [Worker -> {"idle", "tick", "lock", "sleep", "send"}],
         Through' = Through
  PROVE  ThrottleInv'
<1>1. Used' = Used
  BY DEF Used
<1> QED
  BY <1>1 DEF ThrottleInv

LEMMA TakesTickStep ==
  ASSUME ThrottleInv, NEW w \in Worker, TakesTick(w)
  PROVE  ThrottleInv'
<1>1. /\ stage[w] = "tick" /\ ticked = TRUE /\ ticked' = FALSE
      /\ stage' = [stage EXCEPT ![w] = "lock"] /\ UNCHANGED <<now, lastCall, starts>>
  BY DEF TakesTick, sigoThrottled, ThrottleInv
<1>2. stage \in [Worker -> {"idle", "tick", "lock", "sleep", "send"}]
  BY DEF ThrottleInv
<1>3. w \notin Through /\ Through' = Through \cup {w}
  BY <1>1, <1>2 DEF Through
<1>4. IsFiniteSet(Through') /\ Cardinality(Through') = Cardinality(Through) + 1
  BY <1>3, FS_AddElement DEF ThrottleInv
<1>5. Used' = Used
  BY <1>1, <1>4, UsedIsNat DEF Used, ThrottleInv
<1> QED
  BY <1>1, <1>2, <1>4, <1>5 DEF ThrottleInv

LEMMA LetThroughStep ==
  ASSUME ThrottleInv, NEW w \in Worker, LetThrough(w)
  PROVE  ThrottleInv'
<1>1. /\ stage[w] = "sleep" /\ (starts # <<>> => now >= lastCall + Pause)
      /\ lastCall' = now /\ starts' = Append(starts, now)
      /\ stage' = [stage EXCEPT ![w] = "send"] /\ UNCHANGED <<now, ticked>>
  BY DEF LetThrough, sigoClock
<1>2. /\ stage \in [Worker -> {"idle", "tick", "lock", "sleep", "send"}] /\ now \in Nat
      /\ starts \in Seq(Nat)
      /\ starts # <<>> => lastCall = starts[Len(starts)]
  BY DEF ThrottleInv
<1>3. w \in Through /\ Through' = Through \ {w}
  BY <1>1, <1>2 DEF Through
<1>4. IsFiniteSet(Through') /\ Cardinality(Through') = Cardinality(Through) - 1
  BY <1>3, FS_RemoveElement DEF ThrottleInv
<1>5. /\ starts' \in Seq(Nat) /\ Len(starts') = Len(starts) + 1
      /\ starts'[Len(starts) + 1] = now /\ \A i \in 1..Len(starts) : starts'[i] = starts[i]
  <2>1. starts' = Append(starts, now) /\ starts \in Seq(Nat) /\ now \in Nat
    BY <1>1, <1>2
  <2> QED
    BY <2>1
<1>6. Used' = Used
  <2> DEFINE tick == IF ticked THEN 1 ELSE 0
  <2>1. tick \in Nat /\ tick' = tick
    BY <1>1
  <2>2. Used = Len(starts) + Cardinality(Through) + tick
        /\ Used' = (Len(starts) + 1) + (Cardinality(Through) - 1) + tick'
    BY <1>4, <1>5 DEF Used
  <2>3. Len(starts) \in Nat /\ Cardinality(Through) \in Nat
    BY <1>2, UsedIsNat
  <2> HIDE DEF tick
  <2> QED
    BY <2>1, <2>2, <2>3
<1>7. ASSUME NEW i \in 1..Len(starts') - 1 PROVE starts'[i + 1] >= starts'[i] + Pause
  <2>1. CASE i = Len(starts)
    BY <1>1, <1>2, <1>5, <2>1
  <2>2. CASE i # Len(starts)
    <3>1. i \in 1..Len(starts) - 1 /\ i + 1 \in 1..Len(starts)
      BY <1>2, <1>5, <2>2
    <3>2. starts[i + 1] >= starts[i] + Pause
      BY <3>1 DEF ThrottleInv
    <3>3. i \in 1..Len(starts)
      BY <1>2, <3>1
    <3> QED
      BY <1>5, <3>1, <3>2, <3>3
  <2> QED
    BY <2>1, <2>2
<1> QED
  BY <1>1, <1>2, <1>4, <1>5, <1>6, <1>7 DEF ThrottleInv

LEMMA ElapsesStep ==
  ASSUME ThrottleInv, Elapses
  PROVE  ThrottleInv'
<1>1. /\ now \in Nat /\ now' = now + 1 /\ ticked' = (ticked \/ (now + 1) % TickPeriod = 0)
      /\ ticked \in BOOLEAN /\ UNCHANGED <<lastCall, starts, stage>>
  BY DEF Elapses, sigoThrottled, ThrottleInv
<1>2. Through' = Through
  BY <1>1 DEF Through
<1>3. Used' * TickPeriod <= now'
  <2>1. CASE ticked \/ (now + 1) % TickPeriod # 0
    <3>1. ticked' = ticked
      BY <1>1, <2>1
    <3>2. Used' = Used
      BY <1>1, <1>2, <3>1 DEF Used
    <3>3. Used * TickPeriod \in Nat /\ Used * TickPeriod <= now
      BY UsedIsNat DEF ThrottleInv
    <3> QED
      BY <1>1, <3>2, <3>3
  <2>2. CASE ticked = FALSE /\ (now + 1) % TickPeriod = 0
    <3>1. Used' = Used + 1
      <4>1. ticked' = TRUE
        BY <1>1, <2>2
      <4>2. Len(starts) \in Nat /\ Cardinality(Through) \in Nat
        BY UsedIsNat DEF ThrottleInv
      <4>3. /\ Used = Len(starts) + Cardinality(Through) + 0
            /\ Used' = Len(starts) + Cardinality(Through) + 1
        BY <1>1, <1>2, <2>2, <4>1 DEF Used
      <4> QED
        BY <4>2, <4>3
    <3>2. (Used + 1) * TickPeriod <= now + 1
      BY <1>1, <2>2, UsedIsNat, TickDue DEF ThrottleInv
    <3> QED
      BY <1>1, <3>1, <3>2
  <2> QED
    BY <1>1, <2>1, <2>2
<1> QED
  BY <1>1, <1>2, <1>3 DEF ThrottleInv

LEMMA ThrottleInvariance == SigoSpec => []ThrottleInv
<1>1. ThrottleInv /\ [SigoNext]_sigoVars => ThrottleInv'
  <2> SUFFICES ASSUME ThrottleInv, [SigoNext]_sigoVars PROVE ThrottleInv'
    OBVIOUS
  <2> USE DEF sigoThrottled, sigoClock
  <2>1. stage \in [Worker -> {"idle", "tick", "lock", "sleep", "send"}]
    BY DEF ThrottleInv
  <2>2. CASE \/ \E h \in Host : fnSigoHost(h)
             \/ \E p \in Prompt : fnSigoSystemPrompt(p)
             \/ fnSigoUsageReset
    <3>1. UNCHANGED <<lastCall, starts, ticked, now, stage>>
      BY <2>2 DEF fnSigoHost, fnSigoSystemPrompt, fnSigoUsageReset
    <3> QED
      BY <2>1, <3>1, NotThrottled DEF Through
  <2>3. ASSUME NEW w \in Worker, NEW h \in GivenRequest, NEW host \in Host \cup {NotGiven},
               SigoRequestCell(w, h, host)
        PROVE  ThrottleInv'
    <3>1. /\ UNCHANGED <<lastCall, starts, ticked, now>> /\ stage[w] = "idle"
          /\ stage' = stage \/ stage' = [stage EXCEPT ![w] = "tick"]
      BY <2>3 DEF SigoRequestCell
    <3> QED
      BY <2>1, <3>1, NotThrottled DEF Through
  <2>4. ASSUME NEW w \in Worker, LocksCall(w) PROVE ThrottleInv'
    <3>1. /\ UNCHANGED <<lastCall, starts, ticked, now>> /\ stage[w] = "lock"
          /\ stage' = [stage EXCEPT ![w] = "sleep"]
      BY <2>4 DEF LocksCall
    <3> QED
      BY <2>1, <3>1, NotThrottled DEF Through
  <2>5. ASSUME NEW w \in Worker, CallFails(w) \/ CallSucceeds(w) PROVE ThrottleInv'
    <3>1. /\ UNCHANGED <<lastCall, starts, ticked, now>> /\ stage[w] = "send"
          /\ stage' = [stage EXCEPT ![w] = "idle"]
      BY <2>5 DEF CallFails, CallSucceeds
    <3> QED
      BY <2>1, <3>1, NotThrottled DEF Through
  <2>6. CASE UNCHANGED sigoVars
    BY <2>1, <2>6, NotThrottled DEF sigoVars, Through
  <2> QED
    BY <2>2, <2>3, <2>4, <2>5, <2>6, TakesTickStep, LetThroughStep, ElapsesStep DEF SigoNext
<1> QED
  BY <1>1, SigoInitOK, PTL DEF SigoSpec

\* Whichever goroutines call and however long a tick or a caller waits, two
\* calls are let through a pause apart, and never more calls than the ticker
\* has ticked (sigoThrottle).
THEOREM CallsSpacedTheorem == SigoSpec => []CallsSpaced
<1>1. ThrottleInv => CallsSpaced
  <2> SUFFICES ASSUME ThrottleInv PROVE CallsSpaced
    OBVIOUS
  <2>1. Len(starts) \in Nat /\ Len(starts) <= Used
    BY UsedIsNat DEF Used, ThrottleInv
  <2>2. /\ Len(starts) * TickPeriod <= Used * TickPeriod
        /\ Len(starts) * TickPeriod \in Nat /\ Used * TickPeriod \in Nat
    BY <2>1, UsedIsNat, Monotone
  <2> QED
    BY <2>2 DEF CallsSpaced, ThrottleInv
<1> QED
  BY <1>1, ThrottleInvariance, PTL
------------------------------------------------------------------------------
(* The inspector *)

\* The objects on both sides of the current one, and its parts.
HistoryOK ==
  /\ contents \in [Object -> Seq(Object)] /\ inspectee \in Inspectable
  /\ inspParts \in Seq(Inspectable) /\ inspBack \in Seq(Inspectable) /\ inspFwd \in Seq(Inspectable)

\* The objects visited with b behind, the nearest first, and f ahead.
Trail(b, x, f) == Reverse(b) \o <<x>> \o f

IsLine(u, b, x, f) ==
  /\ u \in Seq(Inspectable) /\ Len(u) = Len(b) + 1 + Len(f)
  /\ \A i \in 1..Len(b) + 1 + Len(f) :
       u[i] = IF i <= Len(b) THEN b[Len(b) - i + 1]
              ELSE IF i = Len(b) + 1 THEN x ELSE f[i - Len(b) - 1]

LEMMA LineOfObjects ==
  ASSUME NEW b \in Seq(Inspectable), NEW x \in Inspectable, NEW f \in Seq(Inspectable)
  PROVE  IsLine(Trail(b, x, f), b, x, f)
<1> DEFINE r == Reverse(b)
           m == <<x>>
           rm == r \o m
<1>1. Len(b) \in Nat /\ Len(f) \in Nat /\ \A i \in 1..Len(b) : b[i] \in Inspectable
  OBVIOUS
<1>2. \A i \in 1..Len(b) : Len(b) - i + 1 \in 1..Len(b)
  BY <1>1
<1>3. r \in Seq(Inspectable) /\ Len(r) = Len(b) /\ \A i \in 1..Len(b) : r[i] = b[Len(b) - i + 1]
  BY <1>1, <1>2 DEF Reverse
<1>4. m \in Seq(Inspectable) /\ Len(m) = 1 /\ m[1] = x
  OBVIOUS
<1> HIDE DEF r, m
<1>5. /\ rm \in Seq(Inspectable) /\ Len(rm) = Len(b) + 1
      /\ \A i \in 1..Len(b) + 1 : rm[i] = IF i <= Len(b) THEN r[i] ELSE m[i - Len(b)]
  <2>1. /\ rm \in Seq(Inspectable) /\ Len(rm) = Len(r) + Len(m)
        /\ \A i \in 1..Len(r) + Len(m) : rm[i] = IF i <= Len(r) THEN r[i] ELSE m[i - Len(r)]
    BY <1>3, <1>4, ConcatProperties
  <2> HIDE DEF rm
  <2> QED
    BY <1>1, <1>3, <1>4, <2>1
<1>6. \A i \in 1..Len(b) + 1 : rm[i] = IF i <= Len(b) THEN b[Len(b) - i + 1] ELSE x
  BY <1>1, <1>3, <1>4, <1>5
<1> HIDE DEF rm
<1>7. /\ rm \o f \in Seq(Inspectable) /\ Len(rm \o f) = Len(b) + 1 + Len(f)
      /\ \A i \in 1..Len(b) + 1 + Len(f) :
           (rm \o f)[i] = IF i <= Len(b) + 1 THEN rm[i] ELSE f[i - (Len(b) + 1)]
  <2>1. /\ rm \o f \in Seq(Inspectable) /\ Len(rm \o f) = Len(rm) + Len(f)
        /\ \A i \in 1..Len(rm) + Len(f) :
             (rm \o f)[i] = IF i <= Len(rm) THEN rm[i] ELSE f[i - Len(rm)]
    <3>1. rm \in Seq(Inspectable)
      BY <1>5
    <3> QED
      BY <3>1, ConcatProperties
  <2> QED
    BY <1>1, <1>5, <2>1
<1>8. \A i \in 1..Len(b) + 1 + Len(f) :
        (rm \o f)[i] = IF i <= Len(b) THEN b[Len(b) - i + 1]
                       ELSE IF i = Len(b) + 1 THEN x ELSE f[i - Len(b) - 1]
  BY <1>1, <1>6, <1>7
<1>9. Trail(b, x, f) = rm \o f
  BY DEF Trail, rm, r, m
<1>10. IsLine(rm \o f, b, x, f)
  BY <1>7, <1>8 DEF IsLine
<1> QED
  BY <1>9, <1>10

\* Another object in front of a trail.
LEMMA InFront ==
  ASSUME NEW b \in Seq(Inspectable), NEW x \in Inspectable
  PROVE  /\ <<x>> \o b \in Seq(Inspectable) /\ Len(<<x>> \o b) = Len(b) + 1
         /\ (<<x>> \o b)[1] = x /\ \A i \in 1..Len(b) : (<<x>> \o b)[i + 1] = b[i]
<1> DEFINE m == <<x>>
<1>1. m \in Seq(Inspectable) /\ Len(m) = 1 /\ m[1] = x /\ Len(b) \in Nat
  OBVIOUS
<1> HIDE DEF m
<1>2. /\ m \o b \in Seq(Inspectable) /\ Len(m \o b) = 1 + Len(b)
      /\ \A i \in 1..1 + Len(b) : (m \o b)[i] = IF i <= 1 THEN m[i] ELSE b[i - 1]
  <2>1. /\ m \o b \in Seq(Inspectable) /\ Len(m \o b) = Len(m) + Len(b)
        /\ \A i \in 1..Len(m) + Len(b) : (m \o b)[i] = IF i <= Len(m) THEN m[i] ELSE b[i - Len(m)]
    BY <1>1, ConcatProperties
  <2> QED
    BY <1>1, <2>1
<1>3. \A i \in 1..Len(b) : i + 1 \in 1..1 + Len(b) /\ i + 1 > 1 /\ (i + 1) - 1 = i
  BY <1>1
<1>4. (m \o b)[1] = x /\ \A i \in 1..Len(b) : (m \o b)[i + 1] = b[i]
  BY <1>1, <1>2, <1>3
<1> QED
  BY <1>1, <1>2, <1>4 DEF m

\* Moving the cursor over one object leaves the trail as it is.
LEMMA CursorMoves ==
  ASSUME NEW b \in Seq(Inspectable), NEW x \in Inspectable, NEW f \in Seq(Inspectable), b # <<>>
  PROVE  Trail(Tail(b), Head(b), <<x>> \o f) = Trail(b, x, f)
<1> DEFINE t == Tail(b)
           h == Head(b)
           g == <<x>> \o f
<1>1. /\ t \in Seq(Inspectable) /\ h \in Inspectable /\ h = b[1] /\ Len(t) = Len(b) - 1
      /\ Len(b) \in Nat \ {0} /\ Len(f) \in Nat /\ \A i \in 1..Len(t) : t[i] = b[i + 1]
  OBVIOUS
<1>2. g \in Seq(Inspectable) /\ Len(g) = Len(f) + 1 /\ g[1] = x /\ \A i \in 1..Len(f) : g[i + 1] = f[i]
  BY InFront
<1> HIDE DEF t, h, g
<1> DEFINE v == Trail(b, x, f)
           w == Trail(t, h, g)
           n == Len(b) + 1 + Len(f)
<1> HIDE DEF v, w
<1>3. /\ v \in Seq(Inspectable) /\ Len(v) = n
      /\ \A i \in 1..n : v[i] = IF i <= Len(b) THEN b[Len(b) - i + 1]
                                ELSE IF i = Len(b) + 1 THEN x ELSE f[i - Len(b) - 1]
  <2>1. IsLine(v, b, x, f)
    BY LineOfObjects DEF v
  <2> QED
    BY <2>1 DEF IsLine
<1>4. /\ w \in Seq(Inspectable) /\ Len(w) = Len(t) + 1 + Len(g)
      /\ \A i \in 1..Len(t) + 1 + Len(g) :
           w[i] = IF i <= Len(t) THEN t[Len(t) - i + 1]
                  ELSE IF i = Len(t) + 1 THEN h ELSE g[i - Len(t) - 1]
  <2>1. t \in Seq(Inspectable) /\ h \in Inspectable /\ g \in Seq(Inspectable)
    BY <1>1, <1>2
  <2>2. IsLine(w, t, h, g)
    BY <2>1, LineOfObjects DEF w
  <2> QED
    BY <2>2 DEF IsLine
<1>5. Len(t) + 1 + Len(g) = n /\ n \in Nat
  BY <1>1, <1>2
<1>6. ASSUME NEW i \in 1..n PROVE w[i] = v[i]
  <2>1. CASE i <= Len(t)
    <3>1. Len(t) - i + 1 \in 1..Len(t) /\ (Len(t) - i + 1) + 1 = Len(b) - i + 1 /\ i <= Len(b)
      BY <1>1, <2>1
    <3> QED
      BY <1>1, <1>3, <1>4, <1>5, <2>1, <3>1
  <2>2. CASE i = Len(t) + 1
    <3>1. i = Len(b) /\ Len(b) - i + 1 = 1 /\ i <= Len(b) /\ ~(i <= Len(t))
      BY <1>1, <2>2
    <3> QED
      BY <1>1, <1>3, <1>4, <1>5, <2>2, <3>1
  <2>3. CASE i > Len(t) + 1
    <3>1. w[i] = g[i - Len(t) - 1] /\ ~(i <= Len(b))
      BY <1>1, <1>4, <1>5, <2>3
    <3>2. CASE i = Len(b) + 1
      BY <1>1, <1>2, <1>3, <3>1, <3>2
    <3>3. CASE i > Len(b) + 1
      <4>1. i - Len(b) - 1 \in 1..Len(f) /\ (i - Len(b) - 1) + 1 = i - Len(t) - 1 /\ i # Len(b) + 1
        BY <1>1, <3>3
      <4> QED
        BY <1>2, <1>3, <3>1, <4>1
    <3> QED
      BY <1>1, <3>1, <3>2, <3>3
  <2> QED
    BY <1>1, <2>1, <2>2, <2>3
<1>7. w = v
  BY <1>3, <1>4, <1>5, <1>6, SeqEqual
<1> QED
  BY <1>7 DEF v, w, t, h, g

\* A part is visited: the trail ends with it, right behind the cursor.
LEMMA LineGrows ==
  ASSUME NEW b \in Seq(Inspectable), NEW x \in Inspectable, NEW f \in Seq(Inspectable),
         NEW y \in Inspectable
  PROVE  Trail(<<x>> \o b, y, <<>>) = Append(SubSeq(Trail(b, x, f), 1, Len(b) + 1), y)
<1> DEFINE g == <<x>> \o b
           e == <<>>
           v == Trail(b, x, f)
           w == Trail(g, y, e)
           s == SubSeq(v, 1, Len(b) + 1)
           a == Append(s, y)
<1>1. /\ g \in Seq(Inspectable) /\ Len(g) = Len(b) + 1 /\ g[1] = x
      /\ \A i \in 1..Len(b) : g[i + 1] = b[i]
      /\ Len(b) \in Nat /\ Len(f) \in Nat
  BY InFront
<1>2. e \in Seq(Inspectable) /\ Len(e) = 0
  OBVIOUS
<1> HIDE DEF g, e, v, w
<1>3. /\ v \in Seq(Inspectable) /\ Len(v) = Len(b) + 1 + Len(f)
      /\ \A i \in 1..Len(b) + 1 + Len(f) :
           v[i] = IF i <= Len(b) THEN b[Len(b) - i + 1]
                  ELSE IF i = Len(b) + 1 THEN x ELSE f[i - Len(b) - 1]
  <2>1. IsLine(v, b, x, f)
    BY LineOfObjects DEF v
  <2> QED
    BY <2>1 DEF IsLine
<1>4. /\ w \in Seq(Inspectable) /\ Len(w) = Len(g) + 1 + Len(e)
      /\ \A i \in 1..Len(g) + 1 + Len(e) :
           w[i] = IF i <= Len(g) THEN g[Len(g) - i + 1]
                  ELSE IF i = Len(g) + 1 THEN y ELSE e[i - Len(g) - 1]
  <2>1. g \in Seq(Inspectable) /\ e \in Seq(Inspectable)
    BY <1>1, <1>2
  <2>2. IsLine(w, g, y, e)
    BY <2>1, LineOfObjects DEF w
  <2> QED
    BY <2>2 DEF IsLine
<1> HIDE DEF v, w
<1>5. s \in Seq(Inspectable) /\ Len(s) = Len(b) + 1 /\ \A i \in 1..Len(b) + 1 : s[i] = v[i]
  BY <1>1, <1>3
<1> HIDE DEF s
<1>6. /\ a \in Seq(Inspectable) /\ Len(a) = Len(b) + 2 /\ a[Len(b) + 2] = y
      /\ \A i \in 1..Len(b) + 1 : a[i] = s[i]
  BY <1>1, <1>5
<1> HIDE DEF a
<1>7. ASSUME NEW i \in 1..Len(b) + 2 PROVE w[i] = a[i]
  <2>1. CASE i <= Len(b)
    <3>1. /\ Len(b) - i + 1 \in 1..Len(b) /\ (Len(b) - i + 1) + 1 = Len(g) - i + 1
          /\ i \in 1..Len(b) + 1 /\ i <= Len(g) /\ i \in 1..Len(g) + 1 + Len(e)
          /\ i \in 1..Len(b) + 1 + Len(f)
      BY <1>1, <1>2, <2>1
    <3>2. w[i] = g[(Len(b) - i + 1) + 1] /\ v[i] = b[Len(b) - i + 1]
      BY <1>3, <1>4, <2>1, <3>1
    <3> QED
      BY <1>1, <1>5, <1>6, <3>1, <3>2
  <2>2. CASE i = Len(b) + 1
    <3>1. /\ Len(g) - i + 1 = 1 /\ i \in 1..Len(b) + 1 /\ ~(i <= Len(b)) /\ i <= Len(g)
          /\ i \in 1..Len(g) + 1 + Len(e) /\ i \in 1..Len(b) + 1 + Len(f)
      BY <1>1, <1>2, <2>2
    <3>2. w[i] = g[1] /\ v[i] = x
      BY <1>3, <1>4, <2>2, <3>1
    <3> QED
      BY <1>1, <1>5, <1>6, <3>1, <3>2
  <2>3. CASE i = Len(b) + 2
    BY <1>1, <1>2, <1>4, <1>6, <2>3
  <2>4. i \in Nat /\ i <= Len(b) + 2
    BY <1>1
  <2> QED
    BY <1>1, <2>1, <2>2, <2>3, <2>4
<1>8. w = a
  <2>1. Len(w) = Len(b) + 2
    BY <1>1, <1>2, <1>4
  <2> QED
    BY <1>4, <1>6, <1>7, <2>1, SeqEqual
<1> QED
  BY <1>8 DEF w, a, s, v, g, e

LEMMA AloneLemma == ASSUME NEW x \in Inspectable PROVE Trail(<<>>, x, <<>>) = <<x>>
<1> DEFINE e == <<>>
           v == Trail(e, x, e)
<1>1. e \in Seq(Inspectable) /\ Len(e) = 0
  OBVIOUS
<1> HIDE DEF e, v
<1>2. /\ v \in Seq(Inspectable) /\ Len(v) = Len(e) + 1 + Len(e)
      /\ \A i \in 1..Len(e) + 1 + Len(e) :
           v[i] = IF i <= Len(e) THEN e[Len(e) - i + 1]
                  ELSE IF i = Len(e) + 1 THEN x ELSE e[i - Len(e) - 1]
  <2>1. e \in Seq(Inspectable)
    BY <1>1
  <2>2. IsLine(v, e, x, e)
    BY <2>1, LineOfObjects DEF v
  <2> QED
    BY <2>2 DEF IsLine
<1>3. Len(v) = 1 /\ v[1] = x
  BY <1>1, <1>2
<1>4. v = <<x>>
  <2> DEFINE m == <<x>>
  <2>1. m \in Seq(Inspectable) /\ Len(m) = 1 /\ m[1] = x
    OBVIOUS
  <2> HIDE DEF m
  <2>2. v \in Seq(Inspectable) /\ Len(v) = Len(m) /\ \A i \in 1..Len(v) : v[i] = m[i]
    BY <1>2, <1>3, <2>1
  <2>3. v = m
    BY <2>1, <2>2, SeqEqual
  <2> QED
    BY <2>3 DEF m
<1> QED
  BY <1>4 DEF v, e

\* An object is opened with parts that can be inspected.
LEMMA OpenLemma ==
  ASSUME HistoryOK, NEW x \in Inspectable, Open(x)
  PROVE  inspectee' = x /\ contents' = contents /\ inspParts' \in Seq(Inspectable)
<1>1. PartsOf(x) \in Seq(Inspectable)
  <2>1. <<>> \in Seq(Inspectable)
    OBVIOUS
  <2>2. \A q \in Seq(Object) : q \in Seq(Inspectable)
    BY SeqMonotonic DEF Inspectable
  <2> QED
    BY <2>1, <2>2 DEF PartsOf, HistoryOK
<1>2. <<x, TypeName>> \in Seq(Inspectable)
  <2>1. TypeName \in Inspectable
    BY DEF Inspectable
  <2> HIDE DEF TypeName
  <2> QED
    BY <2>1
<1>3. <<x, TypeName>> \o PartsOf(x) \in Seq(Inspectable)
  BY <1>1, <1>2, ConcatProperties
<1> QED
  BY <1>3 DEF Open

\* What a step of the inspector makes of the history.
HistoryStep ==
  \/ Visited' = Visited /\ Current' \in {Current - 1, Current, Current + 1}
  \/ \E x \in Inspectable : /\ Visited' = Append(SubSeq(Visited, 1, Current), x)
                            /\ Current' = Current + 1
  \/ \E x \in Inspectable : Visited' = <<x>>

LEMMA InspectorStepLemma ==
  ASSUME HistoryOK, InspectorStep
  PROVE  HistoryOK' /\ HistoryStep
<1>1. /\ inspBack \in Seq(Inspectable) /\ inspFwd \in Seq(Inspectable) /\ inspectee \in Inspectable
      /\ inspParts \in Seq(Inspectable) /\ <<>> \in Seq(Inspectable)
      /\ Len(inspBack) \in Nat /\ Current = Len(inspBack) + 1
      /\ Visited = Trail(inspBack, inspectee, inspFwd)
      /\ Current' = Len(inspBack') + 1 /\ Visited' = Trail(inspBack', inspectee', inspFwd')
  BY DEF HistoryOK, Current, Visited, Trail
<1>2. ASSUME NEW x \in Object, InitInspector(x) PROVE HistoryOK' /\ HistoryStep
  <2>1. x \in Inspectable /\ Open(x) /\ inspBack' = <<>> /\ inspFwd' = <<>>
    BY <1>2 DEF Inspectable, InitInspector
  <2>2. inspectee' = x /\ contents' = contents /\ inspParts' \in Seq(Inspectable)
    BY <2>1, OpenLemma
  <2> QED
    BY <1>1, <2>1, <2>2, AloneLemma DEF HistoryOK, HistoryStep
<1>3. ASSUME NEW n \in 0..MaxParts + 1, InspectNthPart(n) PROVE HistoryOK' /\ HistoryStep
  <2> DEFINE x == inspParts[n + 1]
  <2>1. /\ x \in Inspectable /\ Open(x) /\ inspBack' = <<inspectee>> \o inspBack /\ inspFwd' = <<>>
    <3>1. n \in Nat /\ n + 1 \in 1..Len(inspParts)
      BY <1>1, <1>3, InspectorAssumption DEF InspectNthPart
    <3> QED
      BY <1>1, <1>3, <3>1 DEF InspectNthPart
  <2> HIDE DEF x
  <2>2. inspectee' = x /\ contents' = contents /\ inspParts' \in Seq(Inspectable)
    BY <2>1, OpenLemma
  <2>3. inspBack' \in Seq(Inspectable) /\ Len(inspBack') = Len(inspBack) + 1
    BY <1>1, <2>1, InFront
  <2>4. Visited' = Append(SubSeq(Visited, 1, Current), x)
    <3>1. Trail(<<inspectee>> \o inspBack, x, <<>>)
            = Append(SubSeq(Trail(inspBack, inspectee, inspFwd), 1, Len(inspBack) + 1), x)
      BY <1>1, <2>1, LineGrows
    <3> QED
      BY <1>1, <2>1, <2>2, <3>1
  <2>5. Current' = Current + 1
    BY <1>1, <2>3
  <2> QED
    BY <1>1, <2>1, <2>2, <2>3, <2>4, <2>5 DEF HistoryOK, HistoryStep
<1>4. ASSUME InspectorPop PROVE HistoryOK' /\ HistoryStep
  <2>1. /\ inspBack # <<>> /\ Open(Head(inspBack)) /\ inspBack' = Tail(inspBack)
        /\ inspFwd' = <<inspectee>> \o inspFwd
    BY <1>4 DEF InspectorPop
  <2>2. /\ Head(inspBack) \in Inspectable /\ Tail(inspBack) \in Seq(Inspectable)
        /\ Len(Tail(inspBack)) = Len(inspBack) - 1
    BY <1>1, <2>1
  <2>3. inspectee' = Head(inspBack) /\ contents' = contents /\ inspParts' \in Seq(Inspectable)
    BY <2>1, <2>2, OpenLemma
  <2>4. inspFwd' \in Seq(Inspectable)
    BY <1>1, <2>1, InFront
  <2>5. Visited' = Visited /\ Current' = Current - 1
    BY <1>1, <2>1, <2>2, <2>3, CursorMoves
  <2> QED
    BY <2>1, <2>2, <2>3, <2>4, <2>5 DEF HistoryOK, HistoryStep
<1>5. ASSUME InspectorNext PROVE HistoryOK' /\ HistoryStep
  <2> DEFINE b == <<inspectee>> \o inspBack
  <2>1. /\ inspFwd # <<>> /\ Open(Head(inspFwd)) /\ inspFwd' = Tail(inspFwd) /\ inspBack' = b
    BY <1>5 DEF InspectorNext
  <2>2. /\ Head(inspFwd) \in Inspectable /\ Tail(inspFwd) \in Seq(Inspectable)
        /\ <<Head(inspFwd)>> \o Tail(inspFwd) = inspFwd
    <3> DEFINE h == Head(inspFwd)
               t == Tail(inspFwd)
               g == <<h>> \o t
    <3>1. /\ h \in Inspectable /\ t \in Seq(Inspectable) /\ h = inspFwd[1] /\ Len(inspFwd) \in Nat \ {0}
          /\ Len(t) = Len(inspFwd) - 1 /\ \A i \in 1..Len(t) : t[i] = inspFwd[i + 1]
      BY <1>1, <2>1
    <3> HIDE DEF h, t
    <3>2. /\ g \in Seq(Inspectable) /\ Len(g) = Len(t) + 1 /\ g[1] = h
          /\ \A i \in 1..Len(t) : g[i + 1] = t[i]
      BY <3>1, InFront
    <3> HIDE DEF g
    <3>3. ASSUME NEW i \in 1..Len(g) PROVE g[i] = inspFwd[i]
      <4>1. CASE i = 1
        BY <3>1, <3>2, <4>1
      <4>2. CASE i # 1
        <5>1. i - 1 \in 1..Len(t) /\ (i - 1) + 1 = i
          BY <3>1, <3>2, <4>2
        <5>2. g[(i - 1) + 1] = t[i - 1] /\ t[i - 1] = inspFwd[(i - 1) + 1]
          BY <3>1, <3>2, <5>1
        <5> QED
          BY <5>1, <5>2
      <4> QED
        BY <4>1, <4>2
    <3>4. g = inspFwd
      BY <1>1, <3>1, <3>2, <3>3, SeqEqual
    <3> QED
      BY <3>1, <3>4 DEF g, h, t
  <2>3. inspectee' = Head(inspFwd) /\ contents' = contents /\ inspParts' \in Seq(Inspectable)
    BY <2>1, <2>2, OpenLemma
  <2>4. b \in Seq(Inspectable) /\ Len(b) = Len(inspBack) + 1 /\ b # <<>> /\ Head(b) = inspectee /\ Tail(b) = inspBack
    <3>1. b \in Seq(Inspectable) /\ Len(b) = Len(inspBack) + 1 /\ b[1] = inspectee
          /\ \A i \in 1..Len(inspBack) : b[i + 1] = inspBack[i]
      BY <1>1, InFront
    <3> HIDE DEF b
    <3>2. b # <<>> /\ Head(b) = inspectee /\ Tail(b) \in Seq(Inspectable) /\ Len(Tail(b)) = Len(inspBack)
          /\ \A i \in 1..Len(Tail(b)) : Tail(b)[i] = b[i + 1]
      BY <1>1, <3>1
    <3>3. Tail(b) = inspBack
      BY <1>1, <3>1, <3>2, SeqEqual
    <3> QED
      BY <3>1, <3>2, <3>3
  <2> HIDE DEF b
  <2>5. Trail(Tail(b), Head(b), <<Head(inspFwd)>> \o Tail(inspFwd)) = Trail(b, Head(inspFwd), Tail(inspFwd))
    BY <2>2, <2>4, CursorMoves
  <2>6. Visited' = Visited /\ Current' = Current + 1
    BY <1>1, <2>1, <2>2, <2>3, <2>4, <2>5
  <2> QED
    BY <2>1, <2>2, <2>3, <2>4, <2>6 DEF HistoryOK, HistoryStep
<1>6. ASSUME InspectorReinspect PROVE HistoryOK' /\ HistoryStep
  <2>1. Open(inspectee) /\ UNCHANGED <<inspBack, inspFwd>>
    BY <1>6 DEF InspectorReinspect
  <2>2. inspectee' = inspectee /\ contents' = contents /\ inspParts' \in Seq(Inspectable)
    BY <1>1, <2>1, OpenLemma
  <2> QED
    BY <1>1, <2>1, <2>2 DEF HistoryOK, HistoryStep
<1>7. ASSUME QuitInspector PROVE HistoryOK' /\ HistoryStep
  <2>1. Nothing \in Inspectable
    BY DEF Inspectable
  <2> QED
    BY <1>1, <1>7, <2>1, AloneLemma DEF QuitInspector, HistoryOK, HistoryStep
<1>8. ASSUME NEW x \in Object, NEW y \in Object, InspectorEval(x, <<y>>)
      PROVE  HistoryOK' /\ HistoryStep
  <2>1. <<y>> \in Seq(Object)
    OBVIOUS
  <2> QED
    BY <1>1, <1>8, <2>1 DEF InspectorEval, HistoryOK, HistoryStep
<1> QED
  BY <1>2, <1>3, <1>4, <1>5, <1>6, <1>7, <1>8 DEF InspectorStep, InspectorMoves

\* However pop, next, parts, new inspections and evaluations follow one another,
\* the inspector keeps a history with a cursor (swank:inspector-pop, -next,
\* inspect-nth-part).
THEOREM InspectorIsHistoryTheorem == InspectorSpec => InspectorIsHistory
<1>1. InspectorInit => HistoryOK
  <2>1. \A n \in Nat : [1..n -> Object] \subseteq Seq(Object)
    BY SeqDef
  <2>2. <<>> \in Seq(Object) /\ <<>> \in Seq(Inspectable) /\ Nothing \in Inspectable
    BY DEF Inspectable
  <2> QED
    BY <2>1, <2>2, InspectorAssumption DEF InspectorInit, HistoryOK
<1>2. HistoryOK /\ [InspectorStep]_inspectorVars => HistoryOK'
  <2>1. CASE UNCHANGED inspectorVars
    BY <2>1 DEF inspectorVars, HistoryOK
  <2> QED
    BY <2>1, InspectorStepLemma
<1>3. HistoryOK /\ [InspectorStep]_inspectorVars => [HistoryStep]_<<inspectee, inspBack, inspFwd>>
  BY InspectorStepLemma DEF inspectorVars
<1> QED
  BY <1>1, <1>2, <1>3, PTL DEF InspectorSpec, InspectorIsHistory, HistoryStep
------------------------------------------------------------------------------
(* Conditions: %cond-subtype? *)

Verdicts == [ConditionType -> {"yes", "no", "deep"}]
RegistryOK == conditionTypes \in [ConditionType -> Seq(ConditionType) \cup {Undefined}]
Parents(t) == IF conditionTypes[t] = Undefined THEN {} ELSE ToSet(conditionTypes[t])

\* The first of a sequence about which the verdict is not "no".
First(s, verdict) == SelectInSeq(s, LAMBDA p : verdict[p] # "no")

LEMMA MinLemma ==
  ASSUME NEW S, S \subseteq Nat, S # {}
  PROVE  Min(S) \in S /\ \A x \in S : Min(S) <= x
<1>1. \E x \in S : \A y \in S : x <= y
  BY LeastElement
<1> QED
  BY <1>1 DEF Min

LEMMA FirstLemma ==
  ASSUME NEW s \in Seq(ConditionType), NEW verdict
  PROVE  \/ First(s, verdict) = 0 /\ \A k \in 1..Len(s) : verdict[s[k]] = "no"
         \/ First(s, verdict) \in 1..Len(s) /\ verdict[s[First(s, verdict)]] # "no"
<1> DEFINE I == {k \in 1..Len(s) : verdict[s[k]] # "no"}
<1>1. First(s, verdict) = IF I # {} THEN Min(I) ELSE 0
  BY DEF First, SelectInSeq
<1>2. I \subseteq Nat
  OBVIOUS
<1>3. CASE I # {}
  <2>1. Min(I) \in I
    <3> HIDE DEF I
    <3> QED
      BY <1>2, <1>3, MinLemma
  <2> QED
    BY <1>1, <1>3, <2>1
<1>4. CASE I = {}
  BY <1>1, <1>4
<1> QED
  BY <1>3, <1>4

LEMMA ParentsLemma ==
  ASSUME RegistryOK, NEW t \in ConditionType
  PROVE  /\ Parents(t) \subseteq ConditionType
         /\ conditionTypes[t] # Undefined =>
              /\ conditionTypes[t] \in Seq(ConditionType)
              /\ Parents(t) = {conditionTypes[t][k] : k \in 1..Len(conditionTypes[t])}
<1>1. conditionTypes[t] # Undefined => conditionTypes[t] \in Seq(ConditionType)
  BY DEF RegistryOK
<1> QED
  BY <1>1 DEF Parents, ToSet

\* What the parents of a type say together.
LEMMA AskLemma ==
  ASSUME RegistryOK, NEW g \in Verdicts, NEW t \in ConditionType, NEW super
  PROVE  LET r == AskParents(g, super)[t] IN
         \/ t = super /\ r = "yes"
         \/ t # super /\ r = "no" /\ \A p \in Parents(t) : g[p] = "no"
         \/ t # super /\ r # "no" /\ \E p \in Parents(t) : r = g[p]
<1> DEFINE s == conditionTypes[t]
           r == AskParents(g, super)[t]
<1>1. r = IF t = super THEN "yes"
          ELSE IF s = Undefined THEN "no"
          ELSE IF First(s, g) = 0 THEN "no" ELSE g[s[First(s, g)]]
  BY DEF AskParents, First
<1>2. CASE t = super \/ s = Undefined
  BY <1>1, <1>2 DEF Parents
<1>3. CASE t # super /\ s # Undefined
  <2>1. s \in Seq(ConditionType) /\ Parents(t) = {s[k] : k \in 1..Len(s)}
    BY <1>3, ParentsLemma
  <2>2. \/ First(s, g) = 0 /\ \A k \in 1..Len(s) : g[s[k]] = "no"
        \/ First(s, g) \in 1..Len(s) /\ g[s[First(s, g)]] # "no"
    BY <2>1, FirstLemma
  <2>3. Len(s) \in Nat
    BY <2>1
  <2> HIDE DEF s, r
  <2> QED
    BY <1>1, <1>3, <2>1, <2>2, <2>3 DEF r
<1> QED
  BY <1>2, <1>3

\* %cond-subtype? to every depth.
Shallow(super) == [t \in ConditionType |-> IF t = super THEN "yes" ELSE "deep"]
Levels(f, n, super) ==
  f \in [0..n -> Verdicts] /\ f[0] = Shallow(super) /\ \A k \in 1..n : f[k] = AskParents(f[k - 1], super)

LEMMA SearchLemma ==
  ASSUME RegistryOK, NEW super, NEW n \in Nat, n = Cardinality(ConditionType)
  PROVE  \E f : Levels(f, n, super) /\ \A t \in ConditionType : CondSubtype(t, super) = f[n][t]
<1> DEFINE Is(f) == f = [k \in 0..n |-> IF k = 0 THEN Shallow(super) ELSE AskParents(f[k - 1], super)]
           ask == [x \in (1..n) \X Verdicts |-> AskParents(x[2], super)]
           search == CHOOSE f : Is(f)
<1>1. Shallow(super) \in Verdicts
  BY DEF Shallow, Verdicts
<1>2. ASSUME NEW g \in Verdicts PROVE AskParents(g, super) \in Verdicts
  <2>1. ASSUME NEW t \in ConditionType PROVE AskParents(g, super)[t] \in {"yes", "no", "deep"}
    <3>1. \A p \in Parents(t) : g[p] \in {"yes", "no", "deep"}
      BY ParentsLemma DEF Verdicts
    <3> QED
      BY <3>1, AskLemma
  <2>2. AskParents(g, super) = [t \in ConditionType |-> AskParents(g, super)[t]]
    BY DEF AskParents
  <2> QED
    BY <2>1, <2>2 DEF Verdicts
<1>3. ask \in [(1..n) \X Verdicts -> Verdicts]
  BY <1>2
<1>4. \A k \in 1..n, g \in Verdicts : ask[<<k, g>>] = AskParents(g, super)
  OBVIOUS
<1> HIDE DEF ask
<1>5. PICK f \in [0..n -> Verdicts] : Follows(f, n, Shallow(super), ask)
  BY <1>1, <1>3, Recursion
<1>6. \A k \in 0..n : k = 0 \/ (k \in 1..n /\ k - 1 \in 0..n)
  OBVIOUS
<1>7. \A k \in 1..n : k \in 0..n /\ k # 0 /\ k - 1 \in 0..n
  OBVIOUS
<1>8. f[0] = Shallow(super) /\ \A k \in 1..n : f[k] = AskParents(f[k - 1], super)
  BY <1>4, <1>5, <1>7 DEF Follows
<1>9. Is(f)
  BY <1>6, <1>8
<1>10. Is(search)
  BY <1>9
<1>12. \A t \in ConditionType : CondSubtype(t, super) = search[n][t]
  BY DEF CondSubtype, Shallow
<1> HIDE DEF search
<1>11. search[0] = Shallow(super) /\ \A k \in 1..n : search[k] = AskParents(search[k - 1], super)
  <2>1. 0 \in 0..n
    OBVIOUS
  <2> QED
    BY <1>7, <1>10, <2>1
<1>13. \E h : search = [k \in 0..n |-> h[k]]
  BY <1>10
<1>14. \A k \in 0..n : search[k] \in Verdicts
  <2> DEFINE T == {k \in Nat : k <= n => search[k] \in Verdicts}
  <2>1. 0 \in T
    BY <1>1, <1>11
  <2>2. ASSUME NEW k \in Nat, k \in T PROVE k + 1 \in T
    <3> SUFFICES ASSUME k + 1 <= n PROVE search[k + 1] \in Verdicts
      OBVIOUS
    <3>1. search[k] \in Verdicts /\ k + 1 \in 1..n /\ (k + 1) - 1 = k
      BY <2>2
    <3>2. search[k + 1] = AskParents(search[k], super)
      BY <1>11, <3>1
    <3> QED
      BY <1>2, <3>1, <3>2
  <2> HIDE DEF T
  <2>3. Nat \subseteq T
    BY <2>1, <2>2, Induction
  <2> QED
    BY <2>3 DEF T
<1>15. search \in [0..n -> Verdicts]
  BY <1>13, <1>14
<1> QED
  BY <1>11, <1>12, <1>15 DEF Levels
------------------------------------------------------------------------------
(* Conditions: the types above a type *)

LEMMA TypesFinite == IsFiniteSet(ConditionType)
<1>1. BaseType = (({} \cup {"condition"}) \cup {"error"}) \cup {"lisp-error"}
  BY DEF BaseType
<1>2. IsFiniteSet(BaseType)
  BY <1>1, FS_EmptySet, FS_AddElement
<1> QED
  BY <1>2, ConditionsAssumption, FS_Union DEF ConditionType

LEMMA AncestorsLemma ==
  ASSUME RegistryOK, NEW t \in ConditionType
  PROVE  /\ t \in Ancestors(t) /\ Ancestors(t) \subseteq ConditionType
         /\ \A p \in Parents(t) : Ancestors(p) \subseteq Ancestors(t)
         /\ \A a \in Ancestors(t) \ {t} : \E p \in Parents(t) : a \in Ancestors(p)
<1>1. \A S \in SUBSET ConditionType : Closed(S) <=> \A x \in S : Parents(x) \subseteq S
  BY DEF Closed, Parents
<1>2. \A x, y \in ConditionType :
        x \in Ancestors(y) <=> \A S \in SUBSET ConditionType : y \in S /\ Closed(S) => x \in S
  BY DEF Ancestors
<1>3. t \in Ancestors(t) /\ \A x : Ancestors(x) \subseteq ConditionType
  BY DEF Ancestors
<1>4. Parents(t) \subseteq ConditionType
  BY ParentsLemma
<1>5. ASSUME NEW p \in Parents(t), NEW a \in Ancestors(p) PROVE a \in Ancestors(t)
  BY <1>1, <1>2, <1>3, <1>4, <1>5
<1>6. ASSUME NEW a \in Ancestors(t) \ {t} PROVE \E p \in Parents(t) : a \in Ancestors(p)
  <2> DEFINE S == {t} \cup UNION {Ancestors(p) : p \in Parents(t)}
  <2>1. S \in SUBSET ConditionType /\ t \in S
    BY <1>3
  <2>2. ASSUME NEW p \in Parents(t), NEW x \in Ancestors(p), NEW q \in Parents(x)
        PROVE  q \in Ancestors(p)
    <3>1. x \in ConditionType /\ p \in ConditionType
      BY <1>3, <1>4
    <3>2. q \in ConditionType
      BY <3>1, ParentsLemma
    <3> QED
      BY <1>1, <1>2, <2>2, <3>1, <3>2
  <2>3. \A p \in Parents(t) : p \in Ancestors(p)
    BY <1>2, <1>4
  <2>4. \A x \in S : Parents(x) \subseteq S
    BY <2>2, <2>3
  <2>5. Closed(S)
    BY <1>1, <2>1, <2>4
  <2>6. a \in S
    <3> HIDE DEF S
    <3> QED
      BY <1>2, <1>3, <2>1, <2>5
  <2> QED
    BY <2>6
<1> QED
  BY <1>3, <1>5, <1>6

LEMMA StrictLemma ==
  ASSUME NEW t \in ConditionType
  PROVE  \A a : a \in Strict(t) <=> \E p \in Parents(t) : a \in Ancestors(p)
BY DEF Strict, Parents

\* Parents go up in no circle: above the parent of a type there are fewer types
\* than above the type itself.
LEMMA FewerLemma ==
  ASSUME RegistryOK, ~Circular, NEW t \in ConditionType, NEW p \in Parents(t)
  PROVE  Cardinality(Ancestors(p)) < Cardinality(Ancestors(t))
<1>1. p \in ConditionType
  BY ParentsLemma
<1>2. t \in Ancestors(t) /\ Ancestors(p) \subseteq Ancestors(t) /\ Ancestors(t) \subseteq ConditionType
  BY AncestorsLemma
<1>3. t \notin Ancestors(p)
  BY StrictLemma DEF Circular
<1>4. IsFiniteSet(ConditionType)
  BY TypesFinite
<1>5. IsFiniteSet(Ancestors(t)) /\ IsFiniteSet(Ancestors(p))
  BY <1>2, <1>4, FS_Subset
<1> QED
  BY <1>2, <1>3, <1>5, FS_Subset, FS_CardinalityType

\* The search of n levels goes too deep only below more than n types.
LEMMA VerdictLemma ==
  ASSUME RegistryOK, ~Circular, NEW super \in ConditionType, NEW n \in Nat,
         NEW f, Levels(f, n, super)
  PROVE  \A t \in ConditionType :
           /\ f[n][t] = "yes" => super \in Ancestors(t)
           /\ f[n][t] = "no" => super \notin Ancestors(t)
           /\ f[n][t] = "deep" => n < Cardinality(Ancestors(t))
<1> DEFINE Right(k, t) == /\ f[k][t] = "yes" => super \in Ancestors(t)
                          /\ f[k][t] = "no" => super \notin Ancestors(t)
                          /\ f[k][t] = "deep" => k < Cardinality(Ancestors(t))
           T == {k \in Nat : k <= n => \A t \in ConditionType : Right(k, t)}
<1>0. IsFiniteSet(ConditionType)
  BY TypesFinite
<1>1. \A t \in ConditionType : Cardinality(Ancestors(t)) \in Nat \ {0}
  <2> SUFFICES ASSUME NEW t \in ConditionType PROVE Cardinality(Ancestors(t)) \in Nat \ {0}
    OBVIOUS
  <2>1. t \in Ancestors(t) /\ IsFiniteSet(Ancestors(t))
    BY <1>0, AncestorsLemma, FS_Subset
  <2> QED
    BY <2>1, FS_CardinalityType, FS_EmptySet
<1>2. 0 \in T
  <2>1. \A t \in ConditionType : f[0][t] = IF t = super THEN "yes" ELSE "deep"
    BY DEF Shallow, Levels
  <2>2. \A t \in ConditionType : t \in Ancestors(t)
    BY AncestorsLemma
  <2> QED
    BY <1>1, <2>1, <2>2
<1>3. ASSUME NEW k \in Nat, k \in T PROVE k + 1 \in T
  <2> SUFFICES ASSUME k + 1 <= n, NEW t \in ConditionType PROVE Right(k + 1, t)
    OBVIOUS
  <2>1. k \in 0..n /\ k + 1 \in 1..n /\ (k + 1) - 1 = k
    OBVIOUS
  <2>2. f[k] \in Verdicts /\ f[k + 1] = AskParents(f[k], super)
    BY <2>1 DEF Levels
  <2>3. \A p \in Parents(t) : p \in ConditionType /\ Right(k, p)
    BY <1>3, <2>1, ParentsLemma
  <2>4. /\ t \in Ancestors(t)
        /\ \A p \in Parents(t) : Ancestors(p) \subseteq Ancestors(t)
        /\ super \in Ancestors(t) /\ super # t => \E p \in Parents(t) : super \in Ancestors(p)
    BY AncestorsLemma
  <2>5. \A p \in Parents(t) : Cardinality(Ancestors(p)) < Cardinality(Ancestors(t))
    BY FewerLemma
  <2>6. CASE t = super /\ f[k + 1][t] = "yes"
    BY <2>4, <2>6
  <2>7. CASE t # super /\ f[k + 1][t] = "no" /\ \A p \in Parents(t) : f[k][p] = "no"
    BY <2>3, <2>4, <2>7
  <2>8. CASE f[k + 1][t] # "no" /\ \E p \in Parents(t) : f[k + 1][t] = f[k][p]
    <3>1. PICK p \in Parents(t) : f[k + 1][t] = f[k][p]
      BY <2>8
    <3>2. Cardinality(Ancestors(p)) \in Nat /\ Cardinality(Ancestors(t)) \in Nat
      BY <1>1, <2>3
    <3> QED
      BY <2>3, <2>4, <2>5, <2>8, <3>1, <3>2
  <2> QED
    BY <2>2, <2>6, <2>7, <2>8, AskLemma
<1> HIDE DEF T
<1>4. n \in T
  BY <1>2, <1>3, Induction
<1> QED
  BY <1>4 DEF T

\* In a registry without circles %cond-subtype? says who is above whom.
LEMMA SubtypeLemma ==
  ASSUME RegistryOK, ~Circular, NEW sub \in ConditionType, NEW super \in ConditionType
  PROVE  CondSubtype(sub, super) = IF super \in Ancestors(sub) THEN "yes" ELSE "no"
<1> DEFINE n == Cardinality(ConditionType)
<1>1. IsFiniteSet(ConditionType)
  BY TypesFinite
<1>2. n \in Nat
  BY <1>1, FS_CardinalityType
<1>3. Cardinality(Ancestors(sub)) <= n /\ Cardinality(Ancestors(sub)) \in Nat
  BY <1>1, AncestorsLemma, FS_Subset, FS_CardinalityType
<1>4. PICK f : Levels(f, n, super) /\ \A t \in ConditionType : CondSubtype(t, super) = f[n][t]
  BY <1>2, SearchLemma
<1> HIDE DEF n
<1>5. f[n][sub] \in {"yes", "no", "deep"}
  BY <1>2, <1>4 DEF Verdicts, Levels
<1>6. /\ f[n][sub] = "yes" => super \in Ancestors(sub)
      /\ f[n][sub] = "no" => super \notin Ancestors(sub)
      /\ f[n][sub] = "deep" => n < Cardinality(Ancestors(sub))
  BY <1>2, <1>4, VerdictLemma
<1> QED
  BY <1>2, <1>3, <1>4, <1>5, <1>6
------------------------------------------------------------------------------
(* Conditions: the way out *)

\* What may surround a signal: any handler-cases and loads, to every depth.
Frame == {LoadFrame} \cup [kind : {"handler-case"}, clauses : Seq(ConditionType \X {"return", "signal"})]
Surroundings == Seq(Frame)
Errors == {NoError, Message} \cup {Condition(t) : t \in ConditionType}
Meets(signal, i) == Applies(i, SeenAs(signal, i)) # {}

WayTypeOK ==
  /\ RegistryOK /\ program \in Surroundings
  /\ conditionAt \in {"toplevel", "raised", "ended"} /\ level \in Nat \ {0}
  /\ raised \in Errors /\ origin \in [error : Errors, level : Nat]

\* An error between its signal and its handler: what the loads made of it, and
\* no form that it has passed had a clause for it.
OnItsWay ==
  /\ origin.level \in 1..level
  /\ raised = IF \E k \in origin.level..(level - 1) : program[k].kind = "load" THEN Message ELSE origin.error
  /\ ~Circular => \A i \in origin.level..(level - 1) : ~Meets(origin, i)
FoundNearest ==
  /\ Meets(handled.origin, handled.level)
  /\ \A j \in Applies(handled.level, SeenAs(handled.origin, handled.level)) : handled.clause <= j
  /\ \A i \in handled.origin.level..(handled.level - 1) : ~Meets(handled.origin, i)

WayInv ==
  /\ WayTypeOK
  /\ conditionAt = "toplevel" => handled = NotHandled
  /\ conditionAt # "toplevel" /\ raised.kind # "value" => OnItsWay
  /\ conditionAt = "ended" => level > Len(program)
  /\ ~Circular /\ handled # NotHandled => FoundNearest

LEMMA WayImplies == WayInv => NearestHandler
<1> SUFFICES ASSUME WayInv, ~Circular PROVE Nearest(SeenAs)
  BY DEF NearestHandler
<1>1. handled # NotHandled => FoundNearest
  BY DEF WayInv
<1>2. ASSUME conditionAt = "ended", raised.kind # "value"
      PROVE  \A i \in origin.level..Len(program) : ~Meets(origin, i)
  <2>1. OnItsWay /\ level > Len(program) /\ level \in Nat /\ origin.level \in Nat
    BY <1>2 DEF WayInv, WayTypeOK
  <2>2. Len(program) \in Nat
    BY DEF WayInv, WayTypeOK, Surroundings
  <2>3. \A i \in origin.level..Len(program) : i \in origin.level..(level - 1)
    BY <2>1, <2>2
  <2> QED
    BY <2>1, <2>3 DEF OnItsWay
<1> QED
  BY <1>1, <1>2 DEF Nearest, TakenBy, Meets, FoundNearest

\* The registry and the program say who meets whom; the walk leaves them alone.
LEMMA SameCircular == UNCHANGED conditionTypes => (Circular' <=> Circular)
BY DEF Circular, Strict, Ancestors, Closed

LEMMA SameMeets ==
  ASSUME UNCHANGED <<conditionTypes, program>>, NEW signal, NEW i
  PROVE  /\ SeenAs(signal, i)' = SeenAs(signal, i)
         /\ Applies(i, SeenAs(signal, i))' = Applies(i, SeenAs(signal, i))
         /\ Meets(signal, i)' <=> Meets(signal, i)
<1>1. SeenAs(signal, i)' = SeenAs(signal, i)
  BY DEF SeenAs
<1>2. ASSUME NEW type PROVE Ancestors(type)' = Ancestors(type)
  BY DEF Ancestors, Closed
<1>3. ASSUME NEW type PROVE Applies(i, type)' = Applies(i, type)
  BY <1>2 DEF Applies
<1> QED
  BY <1>1, <1>3 DEF Meets

LEMMA SameFound ==
  ASSUME UNCHANGED <<conditionTypes, program, handled>>
  PROVE  FoundNearest' <=> FoundNearest
<1>1. PICK h : h = handled
  OBVIOUS
<1>2. ASSUME NEW i PROVE Meets(h.origin, i)' <=> Meets(h.origin, i)
  BY SameMeets
<1>3. Applies(h.level, SeenAs(h.origin, h.level))' = Applies(h.level, SeenAs(h.origin, h.level))
  BY SameMeets
<1> QED
  BY <1>1, <1>2, <1>3 DEF FoundNearest

LEMMA SameWay ==
  ASSUME UNCHANGED <<conditionTypes, program, level, raised, origin>>
  PROVE  OnItsWay' <=> OnItsWay
<1>1. PICK o : o = origin
  OBVIOUS
<1>2. ASSUME NEW i PROVE Meets(o, i)' <=> Meets(o, i)
  BY SameMeets
<1>3. Circular' <=> Circular
  BY SameCircular
<1> QED
  BY <1>1, <1>2, <1>3 DEF OnItsWay

\* A signal that starts at a form has passed nothing yet.
LEMMA RaiseStarts ==
  ASSUME NEW error \in Errors, NEW from \in Nat \ {0}, Raise(error, from)
  PROVE  /\ OnItsWay' /\ level' \in Nat \ {0} /\ raised' \in Errors
         /\ origin' \in [error : Errors, level : Nat]
<1>1. /\ raised' = error /\ level' = from /\ origin' = [error |-> error, level |-> from]
      /\ origin'.error = error /\ origin'.level = from
  BY DEF Raise
<1>2. from \in 1..from /\ \A k : k \notin from..(from - 1)
  OBVIOUS
<1> QED
  BY <1>1, <1>2 DEF OnItsWay

LEMMA SignalledLemma == \A type \in ConditionType : Signalled(type) \in Errors
BY DEF Signalled, Errors

\* An error that passes a form without a clause for it.
LEMMA PassLemma ==
  ASSUME WayInv, UNCHANGED <<conditionTypes, program, origin>>, OnItsWay, Raised, level' = level + 1,
         raised' = IF Here.kind = "load" THEN Message ELSE raised,
         ~Circular => ~Meets(origin, level)
  PROVE  OnItsWay'
<1>1. PICK o, p, n : o = origin /\ p = program /\ n = level
  OBVIOUS
<1>2. n \in Nat \ {0} /\ o.level \in 1..n
  BY <1>1 DEF WayInv, WayTypeOK, OnItsWay
<1>3. o.level \in 1..(n + 1) /\ o.level..((n + 1) - 1) = (o.level..(n - 1)) \cup {n}
  BY <1>2
<1>4. ASSUME NEW i PROVE Meets(o, i)' <=> Meets(o, i)
  BY SameMeets
<1>5. raised' = IF p[n].kind = "load" THEN Message
                ELSE IF \E k \in o.level..(n - 1) : p[k].kind = "load" THEN Message ELSE o.error
  BY <1>1 DEF OnItsWay, Here
<1>6. raised' = IF \E k \in o.level..((n + 1) - 1) : p[k].kind = "load" THEN Message ELSE o.error
  BY <1>3, <1>5
<1>7. ~Circular => \A i \in o.level..((n + 1) - 1) : ~Meets(o, i)
  BY <1>1, <1>3 DEF OnItsWay
<1>8. Circular' <=> Circular
  BY SameCircular
<1> QED
  BY <1>1, <1>3, <1>4, <1>6, <1>7, <1>8 DEF OnItsWay

LEMMA HereLemma ==
  ASSUME WayInv, Raised
  PROVE  /\ Here.clauses \in Seq(ConditionType \X {"return", "signal"})
         /\ \A k \in 1..Len(Here.clauses) : Here.clauses[k][1] \in ConditionType
         /\ raised.type \in ConditionType
<1>1. program \in Seq(Frame) /\ level \in 1..Len(program)
  BY DEF WayInv, WayTypeOK, Surroundings, Raised
<1>2. Here \in Frame
  BY <1>1 DEF Here
<1>3. raised.type \in ConditionType
  BY DEF WayInv, WayTypeOK, Errors, NoError, Message, Condition, ConditionType, BaseType
<1>4. Here.clauses \in Seq(ConditionType \X {"return", "signal"})
  <2>1. CASE Here = LoadFrame
    <3>1. Here.clauses = <<>>
      BY <2>1 DEF LoadFrame
    <3> QED
      BY <3>1
  <2>2. CASE Here # LoadFrame
    BY <1>2, <2>2 DEF Frame
  <2> QED
    BY <2>1, <2>2
<1>5. \A k \in 1..Len(Here.clauses) : Here.clauses[k] \in ConditionType \X {"return", "signal"}
  BY <1>4
<1> QED
  BY <1>3, <1>4, <1>5

\* The clause that handler-case picks: none is there, or the first that was not
\* passed over.
LEMMA PickedLemma ==
  ASSUME WayInv, Raised
  PROVE  LET tried == {k \in 1..Len(Here.clauses) : Tried(Here.clauses[k]) # "no"} IN
         /\ FirstClause = 0 => tried = {}
         /\ FirstClause # 0 => FirstClause \in tried /\ \A k \in tried : FirstClause <= k
<1> DEFINE tried == {k \in 1..Len(Here.clauses) : Tried(Here.clauses[k]) # "no"}
<1>1. FirstClause = IF tried # {} THEN Min(tried) ELSE 0
  BY DEF FirstClause, SelectInSeq
<1>2. tried \subseteq Nat /\ 0 \notin tried
  OBVIOUS
<1>3. tried # {} => Min(tried) \in tried /\ \A k \in tried : Min(tried) <= k
  <2> HIDE DEF tried
  <2> QED
    BY <1>2, MinLemma
<1> HIDE DEF tried
<1>4. /\ FirstClause = 0 => tried = {}
      /\ FirstClause # 0 => FirstClause \in tried /\ \A k \in tried : FirstClause <= k
  BY <1>1, <1>2, <1>3
<1> QED
  BY <1>4 DEF tried

\* Without circles that is the first clause for what the signal is seen as.
LEMMA ClauseLemma ==
  ASSUME WayInv, Raised, raised.kind # "value", ~Circular
  PROVE  LET fitting == Applies(level, SeenAs(origin, level)) IN
         /\ FirstClause = 0 => fitting = {}
         /\ FirstClause # 0 => /\ FirstClause \in fitting /\ \A k \in fitting : FirstClause <= k
                               /\ Tried(Here.clauses[FirstClause]) = "yes"
<1>1. SeenAs(origin, level) = raised.type
  <2>1. OnItsWay
    BY DEF WayInv, Raised
  <2> QED
    BY <2>1 DEF OnItsWay, SeenAs, Message
<1>2. \A k \in 1..Len(Here.clauses) :
        Tried(Here.clauses[k]) = IF Here.clauses[k][1] \in Ancestors(raised.type) THEN "yes" ELSE "no"
  BY HereLemma, SubtypeLemma DEF WayInv, WayTypeOK, Tried
<1>3. Applies(level, raised.type) = {k \in 1..Len(Here.clauses) : Here.clauses[k][1] \in Ancestors(raised.type)}
  BY HereLemma DEF Applies, Here
<1>4. Applies(level, raised.type) = {k \in 1..Len(Here.clauses) : Tried(Here.clauses[k]) # "no"}
  BY <1>2, <1>3
<1>5. \A k \in Applies(level, raised.type) : Tried(Here.clauses[k]) = "yes"
  BY <1>2, <1>3
<1> QED
  BY <1>1, <1>4, <1>5, PickedLemma

LEMMA WayDefines == WayInv /\ DefineCondition => WayInv'
<1> SUFFICES ASSUME WayInv, DefineCondition PROVE WayInv'
  OBVIOUS
<1>1. ParentLists \subseteq Seq(ConditionType)
  <2>1. ParentType \subseteq ConditionType
    BY ConditionsAssumption
  <2>2. \A p \in ParentType : <<p>> \in Seq(ConditionType)
    BY <2>1
  <2>3. ASSUME NEW pq \in ParentType \X ParentType PROVE pq \in Seq(ConditionType)
    <3>1. PICK p, q \in ConditionType : pq = <<p, q>>
      BY <2>1
    <3> QED
      BY <3>1
  <2> QED
    BY <2>2, <2>3 DEF ParentLists
<1>2. RegistryOK'
  <2>1. PICK t \in UserType, parents \in ParentLists : conditionTypes' = [conditionTypes EXCEPT ![t] = parents]
    BY DEF DefineCondition
  <2>2. conditionTypes \in [ConditionType -> Seq(ConditionType) \cup {Undefined}]
    BY DEF WayInv, WayTypeOK, RegistryOK
  <2>3. parents \in Seq(ConditionType) \cup {Undefined}
    BY <1>1
  <2> HIDE DEF ConditionType, Undefined
  <2> QED
    BY <2>1, <2>2, <2>3 DEF RegistryOK
<1>3. conditionAt = "toplevel" /\ UNCHANGED <<program, conditionAt, level, raised, origin, handled>>
  BY DEF DefineCondition
<1>4. handled = NotHandled
  BY <1>3 DEF WayInv
<1>5. WayTypeOK'
  BY <1>2, <1>3 DEF WayInv, WayTypeOK
<1> QED
  BY <1>3, <1>4, <1>5 DEF WayInv, NotHandled

LEMMA WaySignals == WayInv /\ Signal => WayInv'
<1> SUFFICES ASSUME WayInv, Signal PROVE WayInv'
  OBVIOUS
<1>1. PICK error \in Errors : Raise(error, 1)
  BY SignalledLemma DEF Signal, Errors, ConditionType
<1>2. /\ OnItsWay' /\ level' \in Nat \ {0} /\ raised' \in Errors
      /\ origin' \in [error : Errors, level : Nat]
  BY <1>1, RaiseStarts
<1>3. conditionAt = "toplevel" /\ conditionAt' = "raised" /\ UNCHANGED <<conditionTypes, program, handled>>
  BY DEF Signal
<1>4. handled' = NotHandled'
  BY <1>3 DEF WayInv, NotHandled, NoError
<1>5. WayTypeOK'
  BY <1>2, <1>3 DEF WayInv, WayTypeOK, RegistryOK
<1> QED
  BY <1>2, <1>3, <1>4, <1>5 DEF WayInv

\* What the steps on the way out have in common.
LEMMA WayGoesOn ==
  ASSUME WayInv, Raised, UNCHANGED <<conditionTypes, program, conditionAt>>,
         level' = level + 1, raised' \in Errors, origin' \in [error : Errors, level : Nat],
         raised'.kind # "value" => OnItsWay',
         ~Circular' /\ (handled # NotHandled)' => FoundNearest'
  PROVE  WayInv'
<1>1. conditionAt' = "raised" /\ level' \in Nat \ {0}
  BY DEF Raised, WayInv, WayTypeOK
<1>2. WayTypeOK'
  BY <1>1 DEF WayInv, WayTypeOK, RegistryOK
<1> QED
  BY <1>1, <1>2 DEF WayInv

LEMMA WayKeepsFound ==
  ASSUME WayInv, UNCHANGED <<conditionTypes, program, handled>>
  PROVE  ~Circular' /\ (handled # NotHandled)' => FoundNearest'
BY SameFound, SameCircular DEF WayInv, NotHandled, NoError

LEMMA WayLoads == WayInv /\ LoadWraps => WayInv'
<1> SUFFICES ASSUME WayInv, LoadWraps PROVE WayInv'
  OBVIOUS
<1>1. /\ Raised /\ Here.kind = "load" /\ level' = level + 1
      /\ raised' = IF raised.kind = "value" THEN raised ELSE Message
      /\ UNCHANGED <<conditionTypes, program, conditionAt, origin, handled>>
  BY DEF LoadWraps
<1>2. raised' \in Errors /\ origin' \in [error : Errors, level : Nat]
  BY <1>1 DEF WayInv, WayTypeOK, Errors
<1>3. ASSUME raised'.kind # "value" PROVE OnItsWay'
  <2>1. raised.kind # "value"
    BY <1>1, <1>3
  <2>2. OnItsWay
    BY <1>1, <2>1 DEF WayInv, Raised
  <2>3. Applies(level, SeenAs(origin, level)) = {}
    <3>1. program[level] \in Frame
      BY <1>1 DEF WayInv, WayTypeOK, Surroundings, Raised
    <3>2. program[level].clauses = <<>>
      BY <1>1, <3>1 DEF Frame, LoadFrame, Here
    <3> QED
      BY <3>2 DEF Applies
  <2> QED
    BY <1>1, <2>1, <2>2, <2>3, PassLemma DEF Meets
<1>4. ~Circular' /\ (handled # NotHandled)' => FoundNearest'
  BY <1>1, WayKeepsFound
<1> QED
  BY <1>1, <1>2, <1>3, <1>4, WayGoesOn

LEMMA WayPasses == WayInv /\ HandlerPasses => WayInv'
<1> SUFFICES ASSUME WayInv, HandlerPasses PROVE WayInv'
  OBVIOUS
<1>1. /\ Raised /\ raised.kind = "value" /\ level' = level + 1
      /\ UNCHANGED <<conditionTypes, program, conditionAt, raised, origin, handled>>
  BY DEF HandlerPasses
<1>2. raised' \in Errors /\ origin' \in [error : Errors, level : Nat] /\ raised'.kind = "value"
  BY <1>1 DEF WayInv, WayTypeOK
<1>3. ~Circular' /\ (handled # NotHandled)' => FoundNearest'
  BY <1>1, WayKeepsFound
<1> QED
  BY <1>1, <1>2, <1>3, WayGoesOn

LEMMA WayResignals == WayInv /\ HandlerResignals => WayInv'
<1> SUFFICES ASSUME WayInv, HandlerResignals PROVE WayInv'
  OBVIOUS
<1>1. /\ Raised /\ Here.kind = "handler-case" /\ raised.kind # "value" /\ FirstClause = 0
      /\ level' = level + 1
      /\ UNCHANGED <<conditionTypes, program, conditionAt, raised, origin, handled>>
  BY DEF HandlerResignals
<1>2. raised' \in Errors /\ origin' \in [error : Errors, level : Nat]
  BY <1>1 DEF WayInv, WayTypeOK
<1>3. OnItsWay'
  <2>1. OnItsWay
    BY <1>1 DEF WayInv, Raised
  <2>2. ~Circular => ~Meets(origin, level)
    BY <1>1, ClauseLemma DEF Meets
  <2> QED
    BY <1>1, <2>1, <2>2, PassLemma
<1>4. ~Circular' /\ (handled # NotHandled)' => FoundNearest'
  BY <1>1, WayKeepsFound
<1> QED
  BY <1>1, <1>2, <1>3, <1>4, WayGoesOn

\* The clause that takes an error is the nearest one for its signal.
LEMMA TakenFound ==
  ASSUME WayInv, Raised, raised.kind # "value", FirstClause # 0, ~Circular,
         UNCHANGED <<conditionTypes, program>>,
         handled' = [level |-> level, clause |-> FirstClause, origin |-> origin]
  PROVE  FoundNearest'
<1>1. PICK o, n, j : o = origin /\ n = level /\ j = FirstClause
  OBVIOUS
<1>2. ASSUME NEW i PROVE Meets(o, i)' <=> Meets(o, i)
  BY SameMeets
<1>3. Applies(n, SeenAs(o, n))' = Applies(n, SeenAs(o, n))
  BY SameMeets
<1>4. j \in Applies(n, SeenAs(o, n)) /\ \A k \in Applies(n, SeenAs(o, n)) : j <= k
  BY <1>1, ClauseLemma
<1>5. \A i \in o.level..(n - 1) : ~Meets(o, i)
  BY <1>1 DEF WayInv, OnItsWay, Raised
<1>6. Meets(o, n)
  BY <1>4 DEF Meets
<1>7. handled'.origin = o /\ handled'.level = n /\ handled'.clause = j
  BY <1>1
<1> QED
  BY <1>2, <1>3, <1>4, <1>5, <1>6, <1>7 DEF FoundNearest

LEMMA WayTakes == WayInv /\ HandlerTakes => WayInv'
<1> SUFFICES ASSUME WayInv, HandlerTakes PROVE WayInv'
  OBVIOUS
<1> DEFINE clause == Here.clauses[FirstClause]
<1>1. /\ Raised /\ Here.kind = "handler-case" /\ raised.kind # "value" /\ FirstClause # 0
      /\ UNCHANGED <<conditionTypes, program, conditionAt>>
      /\ \/ Raise(Message, level + 1) /\ UNCHANGED handled
         \/ /\ handled' = [level |-> level, clause |-> FirstClause, origin |-> origin]
            /\ \/ Raise(Signalled(clause[1]), level + 1)
               \/ raised' = NoError /\ level' = level + 1 /\ UNCHANGED origin
  BY DEF HandlerTakes
<1>2. clause[1] \in ConditionType
  BY <1>1, HereLemma, PickedLemma
<1> HIDE DEF clause
<1>3. Signalled(clause[1]) \in Errors /\ Message \in Errors /\ NoError \in Errors /\ NoError.kind = "value"
  BY <1>2, SignalledLemma DEF Errors, NoError
<1>4. level + 1 \in Nat \ {0} /\ origin \in [error : Errors, level : Nat]
  BY DEF WayInv, WayTypeOK
<1>5. ASSUME NEW error \in Errors, Raise(error, level + 1)
      PROVE  level' = level + 1 /\ raised' \in Errors /\ origin' \in [error : Errors, level : Nat] /\ OnItsWay'
  BY <1>4, <1>5, RaiseStarts DEF Raise
<1>6. /\ level' = level + 1 /\ raised' \in Errors /\ origin' \in [error : Errors, level : Nat]
      /\ raised'.kind # "value" => OnItsWay'
  BY <1>1, <1>3, <1>4, <1>5
<1>7. ~Circular' /\ (handled # NotHandled)' => FoundNearest'
  <2>1. CASE UNCHANGED handled
    BY <1>1, <2>1, WayKeepsFound
  <2>2. CASE handled' = [level |-> level, clause |-> FirstClause, origin |-> origin]
    BY <1>1, <2>2, TakenFound, SameCircular
  <2> QED
    BY <1>1, <2>1, <2>2
<1> QED
  BY <1>1, <1>6, <1>7, WayGoesOn

LEMMA WayEnds == WayInv /\ ConditionEnds => WayInv'
<1> SUFFICES ASSUME WayInv, ConditionEnds PROVE WayInv'
  OBVIOUS
<1>1. /\ conditionAt = "raised" /\ level > Len(program) /\ conditionAt' = "ended"
      /\ UNCHANGED <<conditionTypes, program, level, raised, origin, handled>>
  BY DEF ConditionEnds
<1>2. WayTypeOK'
  BY <1>1 DEF WayInv, WayTypeOK, RegistryOK
<1>3. ~Circular' /\ (handled # NotHandled)' => FoundNearest'
  BY <1>1, WayKeepsFound
<1>4. raised.kind # "value" => OnItsWay'
  BY <1>1, SameWay DEF WayInv
<1> QED
  BY <1>1, <1>2, <1>3, <1>4 DEF WayInv

LEMMA WayStarts == ASSUME ConditionsStart(Surroundings) PROVE WayInv
<1>1. RegistryOK
  <2> DEFINE none == [t \in ConditionType |-> Undefined]
             types == Seq(ConditionType) \cup {Undefined}
  <2>1. conditionTypes = [none EXCEPT !["condition"] = <<>>, !["error"] = <<"condition">>,
                                      !["lisp-error"] = <<"error">>]
    BY DEF ConditionsStart
  <2>2. {"condition", "error", "lisp-error"} \subseteq ConditionType
    BY DEF ConditionType, BaseType
  <2>3. none \in [ConditionType -> types] /\ <<>> \in types /\ <<"condition">> \in types /\ <<"error">> \in types
    BY <2>2
  <2> HIDE DEF none, types
  <2>4. conditionTypes \in [ConditionType -> types]
    BY <2>1, <2>3
  <2> QED
    BY <2>4 DEF RegistryOK, types
<1>2. /\ program \in Surroundings /\ conditionAt = "toplevel" /\ level = 1 /\ raised = NoError
      /\ origin = [error |-> NoError, level |-> 0] /\ handled = NotHandled
  BY DEF ConditionsStart, NotHandled
<1>3. WayTypeOK
  BY <1>1, <1>2 DEF WayTypeOK, Errors
<1> QED
  BY <1>2, <1>3 DEF WayInv

LEMMA WayStep == WayInv /\ [ConditionsNext]_conditionVars => WayInv'
<1> SUFFICES ASSUME WayInv, [ConditionsNext]_conditionVars PROVE WayInv'
  OBVIOUS
<1>1. CASE UNCHANGED conditionVars
  <2>1. UNCHANGED <<conditionTypes, program, conditionAt, level, raised, origin, handled>>
    BY <1>1 DEF conditionVars
  <2>2. WayTypeOK'
    BY <2>1 DEF WayInv, WayTypeOK, RegistryOK
  <2>3. ~Circular' /\ (handled # NotHandled)' => FoundNearest'
    BY <2>1, WayKeepsFound
  <2>4. conditionAt # "toplevel" /\ raised.kind # "value" => OnItsWay'
    BY <2>1, SameWay DEF WayInv
  <2> QED
    BY <2>1, <2>2, <2>3, <2>4 DEF WayInv, NotHandled, NoError
<1> QED
  BY <1>1, WayDefines, WaySignals, WayLoads, WayPasses, WayTakes, WayResignals, WayEnds DEF ConditionsNext

\* handler-case finds the nearest handler whatever handler-cases and loads
\* surround a signal, to every depth and with any number of types, parents and
\* clauses, in every registry without a circle (condition.lisp, lines 18 and 19).
THEOREM NearestHandlerTheorem ==
  ConditionsStart(Surroundings) /\ [][ConditionsNext]_conditionVars => []NearestHandler
<1>1. ConditionsStart(Surroundings) => WayInv
  BY WayStarts
<1>2. WayInv /\ [ConditionsNext]_conditionVars => WayInv'
  BY WayStep
<1>3. WayInv => NearestHandler
  BY WayImplies
<1> QED
  BY <1>1, <1>2, <1>3, PTL

\* The programs of the runs are among them.
LEMMA ProgramsAreSurroundings == Program \subseteq Surroundings
<1> DEFINE clauses == Seq(ConditionType \X {"return", "signal"})
           around(c, d) == <<HandlerCase(<<c>>), LoadFrame, HandlerCase(<<d>>)>>
           ones == {<<f>> : f \in HandlerCases}
           twos == {<<f, g>> : f \in HandlerCases \cup {LoadFrame}, g \in HandlerCases}
           threes == {around(c, d) : c, d \in Clause}
<1>0. Program = {<<>>} \cup ones \cup twos \cup threes
  BY DEF Program
<1>1. Clause \subseteq ConditionType \X {"return", "signal"} /\ Returning \subseteq Clause
  BY ConditionsAssumption DEF Clause, Returning
<1>2. \A c, d \in Clause : <<c>> \in clauses /\ <<c, d>> \in clauses
  BY <1>1
<1>3. \A cs \in clauses : HandlerCase(cs) \in Frame
  BY DEF Frame, HandlerCase
<1> HIDE DEF clauses
<1>4. ASSUME NEW f \in HandlerCases PROVE f \in Frame
  <2>1. CASE f \in {HandlerCase(<<c>>) : c \in Clause}
    BY <1>2, <1>3, <2>1
  <2>2. CASE f \in {HandlerCase(<<c, d>>) : c, d \in Returning}
    <3>1. PICK c \in Returning, d \in Returning : f = HandlerCase(<<c, d>>)
      BY <2>2
    <3> QED
      BY <1>1, <1>2, <1>3, <3>1
  <2> QED
    BY <2>1, <2>2 DEF HandlerCases
<1>5. LoadFrame \in Frame
  BY DEF Frame
<1> HIDE DEF Frame
<1>6. /\ <<>> \in Surroundings
      /\ \A f \in Frame : <<f>> \in Surroundings
      /\ \A f, g \in Frame : <<f, g>> \in Surroundings
      /\ \A f, g, h \in Frame : <<f, g, h>> \in Surroundings
  BY DEF Surroundings
<1> SUFFICES ASSUME NEW p \in Program PROVE p \in Surroundings
  OBVIOUS
<1>7. CASE p = <<>>
  BY <1>6, <1>7
<1>8. CASE p \in ones
  <2>1. PICK f \in HandlerCases : p = <<f>>
    BY <1>8
  <2> QED
    BY <1>4, <1>6, <2>1
<1>9. CASE p \in twos
  <2>1. PICK f \in HandlerCases \cup {LoadFrame}, g \in HandlerCases : p = <<f, g>>
    BY <1>9
  <2>2. f \in Frame /\ g \in Frame
    BY <1>4, <1>5
  <2> QED
    BY <1>6, <2>1, <2>2
<1>10. CASE p \in threes
  <2>1. PICK c \in Clause, d \in Clause : p = around(c, d)
    <3> HIDE DEF around
    <3> QED
      BY <1>10
  <2>2. HandlerCase(<<c>>) \in Frame /\ HandlerCase(<<d>>) \in Frame
    BY <1>2, <1>3
  <2> QED
    BY <1>5, <1>6, <2>1, <2>2
<1> HIDE DEF ones, twos, threes
<1> QED
  BY <1>0, <1>7, <1>8, <1>9, <1>10

\* The same as an invariant of the checked specification, which enumerates the
\* programs.
THEOREM NearestHandlerChecked == ConditionsSpec => []NearestHandler
<1>1. ConditionsInit => ConditionsStart(Surroundings)
  BY ProgramsAreSurroundings DEF ConditionsInit, ConditionsStart
<1> QED
  BY <1>1, NearestHandlerTheorem, PTL DEF ConditionsSpec

==================================================================================
