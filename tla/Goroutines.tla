------------------------------- MODULE Goroutines -------------------------------
(****************************************************************************)
(* The parts of the program whose goroutines have to come to an end:        *)
(* pool-map, parfunc with lock, and the HTTP server.  They share no state;  *)
(* a behaviour is one of them at work while the others rest.                *)
(****************************************************************************)
EXTENDS PoolMap, Parfunc, HttpServer

VARIABLE part \* the part at work

Part == {"pool-map", "parfunc", "http"}
goroutinesVars == <<part, vars, parfuncVars, httpVars>>

\* Parts at rest are in one of their initial states.
GoroutinesInit ==
  /\ part \in Part
  /\ Init /\ HttpInit
  /\ ParfuncInit /\ (part = "parfunc" \/ (~timed /\ \A i \in Expr : program[i] = <<>>))

GoroutinesNext ==
  /\ UNCHANGED part
  /\ \/ part = "pool-map" /\ Next /\ UNCHANGED <<parfuncVars, httpVars>>
     \/ part = "parfunc" /\ ParfuncNext /\ UNCHANGED <<vars, httpVars>>
     \/ part = "http" /\ HttpNext /\ UNCHANGED <<vars, parfuncVars>>

Pool(A) == part = "pool-map" /\ A /\ UNCHANGED <<part, parfuncVars, httpVars>>
Par(A) == part = "parfunc" /\ A /\ UNCHANGED <<part, vars, httpVars>>
Http(A) == part = "http" /\ A /\ UNCHANGED <<part, vars, parfuncVars>>

\* The fairness of each part.
GoroutinesFairness ==
  /\ WF_goroutinesVars(Pool(Main))
  /\ \A w \in Worker : WF_goroutinesVars(Pool(Work(w)))
  /\ WF_goroutinesVars(Par(Collect \/ Bind)) /\ WF_goroutinesVars(Par(Timeout))
  /\ \A i \in Expr : /\ WF_goroutinesVars(Par(WorkerNext(i)))
                     /\ SF_goroutinesVars(Par(Lock(i)))
  /\ \A a \in Actor : WF_goroutinesVars(Http(GoOnWith(a)))

GoroutinesSpec == GoroutinesInit /\ [][GoroutinesNext]_goroutinesVars /\ GoroutinesFairness

\* Types of the variables of the part at work, and at most n calls of fn in
\* pool-map at a time.
GoroutinesTypeOK ==
  /\ part = "pool-map" => TypeOK /\ AtMostN
  /\ part = "parfunc" => ParfuncTypeOK
  /\ part = "http" => HttpTypeOK

\* pool-map returns, whatever becomes of the single calls of fn, and leaves no
\* worker behind: each of them finds an end marker of its own behind the jobs
\* (stdlib.lisp, pool-map and %pool-arbeiter).
PoolMapEnds == (part = "pool-map") ~> [](main = "done" /\ NoWorkerLeft)
==================================================================================
