-------------------------------- MODULE Maxima --------------------------------
(****************************************************************************)
(* A session with a Maxima process (maxima.go).  Goroutines share one       *)
(* session; evalRaw writes an expression and a sentinel with a number of    *)
(* its own, and a reader goroutine of its own collects the lines of the     *)
(* process up to that sentinel.  A call whose time is up kills the process  *)
(* and leaves its reader behind on the stdout that later calls read too.    *)
(*                                                                          *)
(* A line is [n, what]: "text" is what expression n prints, "token" the     *)
(* sentinel of call n.                                                      *)
(****************************************************************************)
EXTENDS Naturals, Sequences, FiniteSets

CONSTANTS Goroutine, \* goroutines that hold the session
          MaxEvals   \* bound of the model: calls of evalRaw altogether

ASSUME MaximaAssumption == MaxEvals \in Nat \ {0} /\ "nobody" \notin Goroutine

VARIABLES
  mu,       \* sess.mu: the goroutine that holds it, or "nobody"
  closed,   \* sess.closed
  sentinels, \* sess.n: sentinels handed out
  process,  \* "up" | "stopping" (its stdin is closed) | "dead"
  stdin,    \* the commands the process has not read: [n, kind]
  stdout,   \* the lines nobody has read
  readers,  \* readers[i]: the goroutine that reads for call i
  buf,      \* buf[i]: the lines it has kept
  step,     \* step[g] of goroutine g
  mine,     \* mine[g]: the number of its call, 0 before it has one
  answer    \* answer[i]: what call i returned

maximaVars == <<mu, closed, sentinels, process, stdin, stdout, readers, buf, step, mine, answer>>
theProcess == <<process, stdin, stdout>>
theReaders == <<readers, buf>>

Call == 1..MaxEvals
Line == [n : Call, what : {"text", "token"}]
\* What an expression does: prints a value or an error text, swallows the
\* sentinel (an open string, an endless loop), or quits the process.
ExprKind == {"fine", "hang", "quit"}
NoAnswer == <<"pending">>
Failed(why) == <<"error", why>>

MaximaInit ==
  /\ mu = "nobody" /\ closed = FALSE /\ sentinels = 0 /\ process = "up"
  /\ stdin = <<>> /\ stdout = <<>>
  /\ readers = [i \in Call |-> "none"] /\ buf = [i \in Call |-> <<>>]
  /\ step = [g \in Goroutine |-> "idle"] /\ mine = [g \in Goroutine |-> 0]
  /\ answer = [i \in Call |-> NoAnswer]

----------------------------------------------------------------------------
\* asMaximaSession reads closed without the lock.
CallEval(g) ==
  /\ step[g] = "idle" /\ ~closed /\ sentinels < MaxEvals
  /\ step' = [step EXCEPT ![g] = "lock"]
  /\ UNCHANGED <<mu, closed, sentinels, theProcess, theReaders, mine, answer>>

CallClose(g) ==
  /\ step[g] = "idle" /\ ~closed
  /\ step' = [step EXCEPT ![g] = "lockToClose"]
  /\ UNCHANGED <<mu, closed, sentinels, theProcess, theReaders, mine, answer>>

\* The next sentinel and the write: a closed pipe or a dead process refuses it.
WriteExpression(g, kind) ==
  /\ step[g] = "lock" /\ mu = "nobody" /\ sentinels < MaxEvals
  /\ sentinels' = sentinels + 1 /\ mine' = [mine EXCEPT ![g] = sentinels']
  /\ IF process = "up"
       THEN /\ stdin' = Append(stdin, [n |-> sentinels', kind |-> kind])
            /\ readers' = [readers EXCEPT ![sentinels'] = "reading"]
            /\ mu' = g /\ step' = [step EXCEPT ![g] = "wait"]
            /\ UNCHANGED answer
       ELSE /\ answer' = [answer EXCEPT ![sentinels'] = Failed("write")]
            /\ step' = [step EXCEPT ![g] = "idle"]
            /\ UNCHANGED <<stdin, readers, mu>>
  /\ UNCHANGED <<closed, process, stdout, buf>>

\* The goroutine of call i takes the next line of the shared stdout.
ReadLine(i) ==
  /\ readers[i] = "reading" /\ stdout # <<>>
  /\ stdout' = Tail(stdout)
  /\ IF Head(stdout) = [n |-> i, what |-> "token"]
       THEN readers' = [readers EXCEPT ![i] = "found"] /\ UNCHANGED buf
       ELSE buf' = [buf EXCEPT ![i] = Append(@, Head(stdout))] /\ UNCHANGED readers
  /\ UNCHANGED <<mu, closed, sentinels, process, stdin, step, mine, answer>>

ReadEnd(i) ==
  /\ readers[i] = "reading" /\ stdout = <<>> /\ process = "dead"
  /\ readers' = [readers EXCEPT ![i] = "ended"]
  /\ UNCHANGED <<mu, closed, sentinels, theProcess, buf, step, mine, answer>>

\* evalRaw returns and the deferred Unlock runs.
Returns(g, result) ==
  /\ answer' = [answer EXCEPT ![mine[g]] = result]
  /\ step' = [step EXCEPT ![g] = "idle"] /\ mu' = "nobody"

EvalEnds(g) ==
  /\ step[g] = "wait" /\ readers[mine[g]] \in {"found", "ended"}
  /\ Returns(g, IF readers[mine[g]] = "found" THEN <<"ok", buf[mine[g]]>> ELSE Failed("read"))
  /\ UNCHANGED <<closed, sentinels, theProcess, theReaders, mine>>

\* The same without the kill.
TimesOutWithoutKill(g) ==
  /\ step[g] = "wait"
  /\ Returns(g, Failed("timeout"))
  /\ UNCHANGED <<closed, sentinels, theProcess, theReaders, mine>>

\* time.After: the process is killed, what it has printed stays readable.
TimesOut(g) ==
  /\ step[g] = "wait"
  /\ Returns(g, Failed("timeout"))
  /\ process' = "dead" /\ stdin' = <<>>
  /\ UNCHANGED <<closed, sentinels, stdout, theReaders, mine>>

Close(g) ==
  /\ step[g] = "lockToClose" /\ mu = "nobody"
  /\ IF closed THEN step' = [step EXCEPT ![g] = "idle"] /\ UNCHANGED <<mu, closed, process>>
       ELSE /\ closed' = TRUE /\ mu' = g /\ step' = [step EXCEPT ![g] = "waitExit"]
            /\ process' = IF process = "up" THEN "stopping" ELSE process
  /\ UNCHANGED <<sentinels, stdin, stdout, theReaders, mine, answer>>

\* cmd.Wait, or after five seconds kill and then Wait.
CloseEnds(g) ==
  /\ step[g] = "waitExit"
  /\ process' = "dead" /\ stdin' = <<>>
  /\ step' = [step EXCEPT ![g] = "idle"] /\ mu' = "nobody"
  /\ UNCHANGED <<closed, sentinels, stdout, theReaders, mine, answer>>

----------------------------------------------------------------------------
\* The process: one command at a time; a hanging one is never followed.
ProcessReads ==
  /\ process \in {"up", "stopping"} /\ stdin # <<>> /\ Head(stdin).kind # "hang"
  /\ LET c == Head(stdin) IN
       /\ stdin' = Tail(stdin)
       /\ IF c.kind = "quit"
            THEN process' = "dead" /\ UNCHANGED stdout
            ELSE /\ stdout' = stdout \o << [n |-> c.n, what |-> "text"], [n |-> c.n, what |-> "token"] >>
                 /\ UNCHANGED process
  /\ UNCHANGED <<mu, closed, sentinels, theReaders, step, mine, answer>>

MaximaNext ==
  \/ \E g \in Goroutine : \/ CallEval(g) \/ CallClose(g) \/ EvalEnds(g) \/ TimesOut(g)
                          \/ Close(g) \/ CloseEnds(g)
                          \/ \E kind \in ExprKind : WriteExpression(g, kind)
  \/ \E i \in Call : ReadLine(i) \/ ReadEnd(i)
  \/ ProcessReads

MaximaSpec == MaximaInit /\ [][MaximaNext]_maximaVars

----------------------------------------------------------------------------
MaximaTypeOK ==
  /\ mu \in Goroutine \cup {"nobody"} /\ closed \in BOOLEAN /\ sentinels \in 0..MaxEvals
  /\ process \in {"up", "stopping", "dead"}
  /\ stdin \in Seq([n : Call, kind : ExprKind]) /\ stdout \in Seq(Line)
  /\ readers \in [Call -> {"none", "reading", "found", "ended"}] /\ buf \in [Call -> Seq(Line)]
  /\ step \in [Goroutine -> {"idle", "lock", "wait", "lockToClose", "waitExit"}]
  /\ mine \in [Goroutine -> 0..MaxEvals]
  /\ \A i \in Call : answer[i] = NoAnswer \/ answer[i][1] \in {"ok", "error"}

\* A call that returns a text returns what its own expression printed, all of
\* it and nothing else: neither the reader that an earlier timeout left on the
\* same stdout nor an earlier text gets into it (evalRaw).
AnswerBelongs ==
  \A i \in Call : answer[i][1] = "ok" => answer[i][2] = << [n |-> i, what |-> "text"] >>
=============================================================================
