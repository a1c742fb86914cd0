---------------------------------- MODULE Unwind ----------------------------------
(****************************************************************************)
(* Non-local exits and unwinding in the evaluator (src/src/lib/             *)
(* eval_control.go, eval_load.go, evalCtx of eval_core.go), seen from one   *)
(* goroutine.  Every special form whose body is evaluated by a nested       *)
(* evalWithCtx is a frame of the control stack; the code running in the     *)
(* innermost frame may enter a form, call a closure, load a file, raise an  *)
(* error or an exit, or end with a value.  An outcome other than a value is *)
(* Go's error result, which every frame looks at in turn.                   *)
(*                                                                          *)
(* Which code runs is the Lisp program's choice.  A closure has been made   *)
(* in some frame that is still live (up) or in none (0).                    *)
(****************************************************************************)
EXTENDS Naturals, Sequences, SequencesExt

CONSTANTS Name,      \* the names of blocks, tags of tagbody and catch
          MaxDepth,  \* maxEvalDepth
          MaxFrames, \* bound of the model: frames on the stack
          MaxForms   \* bound of the model: cleanup forms of one unwind-protect

NoName == ""

ASSUME UnwindAssumption ==
  /\ MaxDepth \in Nat \ {0} /\ MaxFrames \in Nat \ {0} /\ MaxForms \in Nat \ {0}
  /\ NoName \notin Name

VARIABLES stack,     \* the live frames, the innermost one last
          out,       \* "running", or the outcome the innermost frame gets next
          cancelled, \* the evalCtx's context is done (parfunc's cancel())
          owed       \* cleanup forms that entered unwind-protects still have to run

vars == <<stack, out, cancelled, owed>>

Exit == {"throw", "return", "go"}
Form == {"block", "catch", "tagbody", "trap", "protect"}

\* lex and dyn: the frame an exit names by the text and by the stack.
Outcome(k, n, l, d) == [kind |-> k, name |-> n, wrapped |-> FALSE, lex |-> l, dyn |-> d]
Plain(k) == Outcome(k, NoName, 0, 0)
Running == Plain("running")
Error == Plain("error")

Init == stack = <<>> /\ out = Running /\ cancelled = FALSE /\ owed = 0

Top == stack[Len(stack)]
Below == Front(stack)
Depth == IF stack = <<>> THEN 0 ELSE Top.depth
Blind == stack # <<>> /\ Top.blind

CheckIgnoresCancel(d, blind) == d > MaxDepth

\* evalCtx.check at depth d; an evalCtx without a context cannot be cancelled.
Check(d, blind) == d > MaxDepth \/ (cancelled /\ ~blind)

\* ran: the body's evaluation has begun at all; missed: that of a cleanup form
\* has not.
Frame(k, n, up, d, b, forms) ==
  [kind |-> k, name |-> n, up |-> up, depth |-> d, blind |-> b,
   phase |-> "body", saved |-> Running, left |-> forms,
   ran |-> ~Check(d, b), missed |-> FALSE]

\* s is the stack when the body of its last frame is evaluated by evalWithCtx.
Evaluate(s) ==
  /\ stack' = s
  /\ out' = IF Check(s[Len(s)].depth, s[Len(s)].blind) THEN Error ELSE Running

\* The frame is left with outcome o; with a value the code around it goes on.
Leave(o) ==
  /\ stack' = Below
  /\ out' = IF o.kind = "value" THEN Running ELSE o
------------------------------------------------------------------------------
\* The frames that stop an exit, by kind.
Stopping == {<<"block", "return">>, <<"catch", "throw">>, <<"tagbody", "go">>}

AcceptsAnyName(f, o) == ~o.wrapped /\ <<f.kind, o.kind>> \in Stopping

\* The exits a frame stops.  Type assertions on the error: an exit that load
\* has wrapped is no longer recognised.
Accepts(f, o) == ~o.wrapped /\ f.name = o.name /\ <<f.kind, o.kind>> \in Stopping

\* The innermost frame of a set of frames, 0 if there is none.
Innermost(F) == IF F = {} THEN 0 ELSE CHOOSE i \in F : \A j \in F : j <= i

\* The frames whose text surrounds the code in frame i.
Around[i \in 0..MaxFrames] == IF i = 0 THEN {} ELSE {i} \cup Around[stack[i].up]

Stoppers(o) ==
  {i \in DOMAIN stack : <<stack[i].kind, o.kind>> \in Stopping /\ stack[i].name = o.name}
LexTarget(o) == Innermost(Stoppers(o) \cap Around[Len(stack)])
DynTarget(o) ==
  Innermost({i \in Stoppers(o) : \A j \in DOMAIN stack : j > i => stack[j].kind # "load"})
------------------------------------------------------------------------------
\* (block name ...), (catch tag ...), (tagbody tag ...), (trap ...) and
\* (unwind-protect form cleanup...), whose cleanup forms are counted.
Enter ==
  /\ out = Running /\ Len(stack) < MaxFrames
  /\ \E k \in Form, n \in Name \cup {NoName}, m \in 0..MaxForms :
       /\ (n # NoName) <=> (k \in {"block", "catch", "tagbody"})
       /\ (m # 0) <=> (k = "protect")
       /\ Evaluate(Append(stack, Frame(k, n, Len(stack), Depth + 1, Blind, m)))
       /\ owed' = owed + m
  /\ UNCHANGED cancelled

\* A closure is called in a tail position (no deeper, no check), elsewhere, or
\* by a primitive such as mapcar or funcall, whose apply starts a new evalCtx.
\* (The check in every 1024th round of evalWithCtx's loop is left out: chains
\* of tail calls are bounded by MaxFrames.)
CallClosure ==
  /\ out = Running /\ Len(stack) < MaxFrames
  /\ \E up \in 0..Len(stack) :
       \/ /\ stack' = Append(stack, Frame("tailcall", NoName, up, Depth, Blind, 0))
          /\ UNCHANGED out
       \/ Evaluate(Append(stack, Frame("call", NoName, up, Depth + 1, Blind, 0)))
       \/ Evaluate(Append(stack, Frame("call", NoName, up, 1, TRUE, 0)))
  /\ UNCHANGED <<cancelled, owed>>

\* (load file): the text of the file is surrounded by nothing.
Load ==
  /\ out = Running /\ Len(stack) < MaxFrames
  /\ Evaluate(Append(stack, Frame("load", NoName, 0, Depth + 1, Blind, 0)))
  /\ UNCHANGED <<cancelled, owed>>

\* The code ends with a value, fails, or executes throw, return-from or go.
Produce ==
  /\ out = Running
  /\ \/ out' \in {Plain("value"), Error}
     \/ \E k \in Exit, n \in Name :
          LET o == Outcome(k, n, 0, 0) IN out' = [o EXCEPT !.lex = LexTarget(o), !.dyn = DynTarget(o)]
  /\ UNCHANGED <<stack, cancelled, owed>>

\* parfunc's timeout, or its return while this worker still runs.
Cancel == cancelled' = TRUE /\ ~cancelled /\ UNCHANGED <<stack, out, owed>>
------------------------------------------------------------------------------
Delivered == out # Running /\ stack # <<>>

\* What a tail call returns is the outcome of the code that made it.
LeaveTailCall ==
  /\ Delivered /\ Top.kind = "tailcall"
  /\ stack' = Below
  /\ UNCHANGED <<out, cancelled, owed>>

\* block, catch, and a call, which stops nothing.
LeaveFrame ==
  /\ Delivered /\ Top.kind \in {"block", "catch", "call"}
  /\ Leave(IF Accepts(Top, out) THEN Plain("value") ELSE out)
  /\ UNCHANGED <<cancelled, owed>>

\* A go to a tag of this tagbody goes on after the tag, if anything is there.
LeaveTagbody ==
  /\ Delivered /\ Top.kind = "tagbody"
  /\ IF Accepts(Top, out) THEN Evaluate(stack) \/ Leave(Plain("value")) ELSE Leave(out)
  /\ UNCHANGED <<cancelled, owed>>

\* fmt.Errorf("load %s: %w", ...)
LeaveLoad ==
  /\ Delivered /\ Top.kind = "load"
  /\ Leave([out EXCEPT !.wrapped = (out.kind \in Exit)])
  /\ UNCHANGED <<cancelled, owed>>

\* trap stops errors; errors.As finds an exit even when load has wrapped it.
PassesTrap(o) == o.kind = "value" \/ o.kind \in Exit

LeaveTrap ==
  /\ Delivered /\ Top.kind = "trap"
  /\ IF Top.phase = "handler" \/ PassesTrap(out)
     THEN Leave(out)
     ELSE Evaluate(Append(Below, [Top EXCEPT !.phase = "handler", !.saved = out]))
  /\ UNCHANGED <<cancelled, owed>>

KeepLast(o, c) == IF c.kind = "value" THEN o ELSE c

\* The outcome of unwind-protect after its protected form ended with o and a
\* cleanup form with c.
Keep(o, c) == IF c.kind # "value" /\ o.kind = "value" THEN c ELSE o

StopsAtFailure(f, c) == f.left = 0 \/ c.kind # "value"

\* The loop over the cleanup forms ends after the last one.
NoFormLeft(f, c) == f.left = 0

\* The next cleanup form is evaluated, or fails in evalWithCtx's check.
NextForm(f) ==
  LET fails == Check(f.depth, f.blind) IN
  /\ Evaluate(Append(Below, [f EXCEPT !.left = @ - 1, !.missed = @ \/ fails]))
  /\ owed' = owed - 1

LeaveProtected ==
  /\ Delivered /\ Top.kind = "protect" /\ Top.phase = "body"
  /\ NextForm([Top EXCEPT !.phase = "cleanup", !.saved = out])
  /\ UNCHANGED cancelled

LeaveCleanup ==
  /\ Delivered /\ Top.kind = "protect" /\ Top.phase = "cleanup"
  /\ LET f == [Top EXCEPT !.saved = Keep(@, out)] IN
     IF NoFormLeft(Top, out) THEN Leave(f.saved) /\ UNCHANGED owed
                             ELSE NextForm(f)
  /\ UNCHANGED cancelled

\* The goroutine has ended.
Ended == stack = <<>> /\ out # Running
Idle == Ended /\ UNCHANGED vars

Run == \/ Enter \/ CallClosure \/ Load \/ Produce \/ LeaveFrame \/ LeaveTagbody
       \/ LeaveTailCall \/ LeaveLoad \/ LeaveTrap \/ LeaveProtected \/ LeaveCleanup
Next == Run \/ Cancel \/ Idle

Spec == Init /\ [][Next]_vars /\ WF_vars(Run)
------------------------------------------------------------------------------
Outcomes == [kind : {"running", "value", "error"} \cup Exit, name : Name \cup {NoName},
             wrapped : BOOLEAN, lex : 0..MaxFrames, dyn : 0..MaxFrames]
Frames == [kind : Form \cup {"call", "tailcall", "load"}, name : Name \cup {NoName}, up : 0..(MaxFrames - 1),
           depth : 0..(MaxDepth + MaxFrames), blind : BOOLEAN,
           phase : {"body", "handler", "cleanup"}, saved : Outcomes,
           left : 0..MaxForms, ran : BOOLEAN, missed : BOOLEAN]

\* Types of the variables.
StackOK ==
  stack \in Seq(Frames) /\ Len(stack) <= MaxFrames /\ \A i \in DOMAIN stack : stack[i].up < i
TypeOK == StackOK /\ out \in Outcomes /\ cancelled \in BOOLEAN /\ owed \in Nat

\* The cleanup forms that the frames of a stack still have before them.
Owing(s) == FoldLeft(LAMBDA n, f : n + f.left, 0, s)

\* unwind-protect attempts each of its cleanup forms exactly once, however the
\* protected form and the other cleanup forms end: what has been promised and
\* not yet attempted is what the live frames still have before them.  (And the
\* variables have their types.)
CleanupAttempted == TypeOK /\ owed = Owing(stack)

\* "cleanup läuft IMMER nach geschützt" (eval_control.go:425): when the
\* protected form has been running, no cleanup form is skipped.
CleanupRuns == \A i \in DOMAIN stack : stack[i].ran => ~stack[i].missed

\* Cleanup forms do not replace the error or exit their unwind-protect passes on.
AbruptOutcomeSurvives ==
  [][\A i \in DOMAIN stack :
       (stack[i].phase = "cleanup" /\ stack[i].saved.kind # "value") =>
         IF i \in DOMAIN stack' THEN stack'[i].saved = stack[i].saved
                                ELSE out' = stack[i].saved]_vars

\* A trap handler runs for errors only: throw, return-from and go pass through
\* it, also out of a loaded file.
TrapsOnlyErrors ==
  \A i \in DOMAIN stack : stack[i].phase = "handler" => stack[i].saved.kind = "error"

\* An exit ends in the nearest frame of its name that was live when it was
\* raised, whatever trap handlers and cleanup forms do in between; it leaves the
\* goroutine as an error only if there was none (load hides the frames around it).
NearestExit ==
  /\ TrapsOnlyErrors
  /\ out.kind \in Exit =>
       /\ (stack # <<>> /\ Accepts(Top, out)) => out.dyn = Len(stack)
       /\ stack = <<>> => out.dyn = 0

\* return-from and go leave the form of that name whose text surrounds them
\* (eval_control.go:313 and :357).
LexicalExit ==
  (Delivered /\ out.kind \in {"return", "go"} /\ Accepts(Top, out)) => out.lex = Len(stack)

\* A cancelled goroutine ends, unless the cancellation found it in a function
\* called by a primitive, which has an evalCtx of its own.
CancelEnds ==
  cancelled ~> (Ended \/ \E i \in DOMAIN stack : stack[i].blind)
================================================================================
