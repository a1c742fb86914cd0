--------------------------------- MODULE PoolMap ---------------------------------
(****************************************************************************)
(* pool-map of src/src/embed/stdlib.lisp: k workers started by spawn take   *)
(* jobs from one buffered channel and put results into another.  A chan-send*)
(* or chan-recv is one step here, as ClosableChannel promises and Channels  *)
(* shows; neither channel is ever closed.  A call of fn ends in one of      *)
(* Outcomes: "ok", "error" (trap turns it into (:error text)) or "exit", a  *)
(* throw, return-from or go, which trap lets through.                       *)
(****************************************************************************)
EXTENDS Naturals, Sequences, FiniteSets

CONSTANTS N,        \* the number of workers asked for
          Len0,     \* the length of the list
          Outcomes  \* how a call of fn may end

ASSUME PoolAssumption ==
  /\ N \in Nat \ {0} /\ Len0 \in Nat \ {0}
  /\ Outcomes \subseteq {"ok", "error", "exit"}

Item == 1..Len0
End == 0                                 \* the atom 'ende
K == IF N < Len0 THEN N ELSE Len0        \* (min n len)

Worker == 1..(N + Len0)                 \* identities; only 1..K are started
JobCap == Len0 + K                       \* (chan-make (+ len k))
ResultCapOfK == IF K = 1 THEN 1 ELSE K - 1
ResultCap == Len0                        \* (chan-make len)

NoOutcome == ""  \* a place of aus where nothing has been stored

VARIABLES main,     \* where pool-map itself is
          count,    \* its loop counter
          jobs, results, \* the two channels
          out,      \* the vector aus
          wpc,      \* wpc[w]: where worker w is
          job,      \* job[w]: its job
          fate,     \* fate[w]: how its call of fn ended
          verdict   \* verdict[i]: how the calls of fn on item i ended, in order

vars == <<main, count, jobs, results, out, wpc, job, fate, verdict>>
mvars == <<main, count, out>>
wvars == <<wpc, job, fate, verdict>>

Init ==
  /\ main = "spawn" /\ count = 0
  /\ jobs = <<>> /\ results = <<>>
  /\ out = [i \in Item |-> NoOutcome]
  /\ wpc = [w \in Worker |-> "unborn"]
  /\ job = [w \in Worker |-> End]
  /\ fate = [w \in Worker |-> NoOutcome]
  /\ verdict = [i \in Item |-> <<>>]

RoundOneMore(n, next) ==
  IF count = n THEN main' = next /\ count' = 0
               ELSE count' = count + 1 /\ UNCHANGED main

\* One round of a dotimes or dolist of length n, then on to `next`.
Round(n, next) ==
  IF count + 1 = n THEN main' = next /\ count' = 0
                   ELSE count' = count + 1 /\ UNCHANGED main
------------------------------------------------------------------------------
SpawnRound ==
  /\ main = "spawn"
  /\ wpc' = [wpc EXCEPT ![count + 1] = "recv"]
  /\ Round(K, "fill")
  /\ UNCHANGED <<jobs, results, out, job, fate, verdict>>

FillRound ==
  /\ main = "fill" /\ Len(jobs) < JobCap
  /\ jobs' = Append(jobs, count + 1)
  /\ Round(Len0, "end")
  /\ UNCHANGED <<results, out, wvars>>

EndRoundOnce ==
  /\ main = "end" /\ Len(jobs) < JobCap
  /\ jobs' = Append(jobs, End)
  /\ Round(1, "collect")
  /\ UNCHANGED <<results, out, wvars>>

EndRound ==
  /\ main = "end" /\ Len(jobs) < JobCap
  /\ jobs' = Append(jobs, End)
  /\ Round(K, "collect")
  /\ UNCHANGED <<results, out, wvars>>

\* (aset aus (car r) (cdr r))
CollectRoundInOrder ==
  /\ main = "collect" /\ results # <<>>
  /\ out' = [out EXCEPT ![count + 1] = Head(results).result]
  /\ results' = Tail(results)
  /\ Round(Len0, "done")
  /\ UNCHANGED <<jobs, wvars>>

CollectRound ==
  /\ main = "collect" /\ results # <<>>
  /\ out' = [out EXCEPT ![Head(results).item] = Head(results).result]
  /\ results' = Tail(results)
  /\ Round(Len0, "done")
  /\ UNCHANGED <<jobs, wvars>>
------------------------------------------------------------------------------
\* %pool-arbeiter: the next job, or the end.
TakeJob(w) ==
  /\ wpc[w] = "recv" /\ jobs # <<>>
  /\ jobs' = Tail(jobs)
  /\ job' = [job EXCEPT ![w] = Head(jobs)]
  /\ wpc' = [wpc EXCEPT ![w] = IF Head(jobs) = End THEN "ended" ELSE "call"]
  /\ UNCHANGED <<mvars, results, fate, verdict>>

CallEndsWithoutTrap(w) ==
  /\ wpc[w] = "call"
  /\ \E o \in Outcomes :
       /\ fate' = [fate EXCEPT ![w] = o]
       /\ verdict' = [verdict EXCEPT ![job[w]] = Append(@, o)]
       /\ wpc' = [wpc EXCEPT ![w] = IF o = "ok" THEN "send" ELSE "dead"]
  /\ UNCHANGED <<mvars, jobs, results, job>>

\* (trap (funcall fn ...) handler): a non-local exit passes through trap and
\* ends the goroutine; spawn reports it on its own result channel only.
CallEnds(w) ==
  /\ wpc[w] = "call"
  /\ \E o \in Outcomes :
       /\ fate' = [fate EXCEPT ![w] = o]
       /\ verdict' = [verdict EXCEPT ![job[w]] = Append(@, o)]
       /\ wpc' = [wpc EXCEPT ![w] = IF o = "exit" THEN "dead" ELSE "send"]
  /\ UNCHANGED <<mvars, jobs, results, job>>

SendResult(w) ==
  /\ wpc[w] = "send" /\ Len(results) < ResultCap
  /\ results' = Append(results, [item |-> job[w], result |-> fate[w]])
  /\ wpc' = [wpc EXCEPT ![w] = "recv"]
  /\ UNCHANGED <<mvars, jobs, job, fate, verdict>>

Main == SpawnRound \/ FillRound \/ EndRound \/ CollectRound
Work(w) == TakeJob(w) \/ CallEnds(w) \/ SendResult(w)

\* pool-map has returned and no worker can move any more.
NoWorkerLeft == \A w \in Worker : wpc[w] \in {"unborn", "ended", "dead"}
Stopped == main = "done" /\ NoWorkerLeft
Next == Main \/ (\E w \in Worker : Work(w)) \/ (Stopped /\ UNCHANGED vars)

\* fn returns, and Go runs every goroutine that can run.
Spec == Init /\ [][Next]_vars /\ WF_vars(Main) /\ \A w \in Worker : WF_vars(Work(w))
------------------------------------------------------------------------------
MainOK ==
  /\ main \in {"spawn", "fill", "end", "collect", "done"}
  /\ count \in 0..(N + Len0)
  /\ out \in [Item -> Outcomes \cup {NoOutcome}]

QueuesOK ==
  /\ jobs \in Seq(Item \cup {End}) /\ Len(jobs) <= JobCap
  /\ results \in Seq([item : Item, result : Outcomes]) /\ Len(results) <= ResultCap

HandsOK ==
  /\ wpc \in [Worker -> {"unborn", "recv", "call", "send", "ended", "dead"}]
  /\ job \in [Worker -> Item \cup {End}]
  /\ fate \in [Worker -> Outcomes \cup {NoOutcome}]
  /\ verdict \in [Item -> Seq(Outcomes)]

\* Types of the variables.
TypeOK == MainOK /\ QueuesOK /\ HandsOK

\* pool-map calls fn on at most n elements at a time.
AtMostN == Cardinality({w \in Worker : wpc[w] = "call"}) <= N

\* Both channels are large enough: no chan-send of pool-map or of a worker
\* ever finds its channel full.  (And the variables have their types.)
SendNeverWaits ==
  /\ TypeOK /\ AtMostN
  /\ main \in {"fill", "end"} => Len(jobs) < JobCap
  /\ \A w \in Worker : wpc[w] = "send" => Len(results) < ResultCap

\* When pool-map returns, fn has been called exactly once on every element and
\* the i-th place of the result holds how that call ended.
ResultsInPlace ==
  main = "done" => \A i \in Item : verdict[i] = <<out[i]>>

\* pool-map returns, whatever becomes of the single calls (the comment on
\* pool-map: when fn fails on an element the others run through).
Returns == <>(main = "done")
================================================================================
