-------------------------------- MODULE Parfunc --------------------------------
(****************************************************************************)
(* parfunc and lock (eval_control.go): one goroutine per expression, a      *)
(* channel with room for every result, a timer that cancels what still runs *)
(* and lets the caller go on, and mutexes that are not reentrant, taken     *)
(* around a body that reads and then writes a variable of the environment   *)
(* all workers share.                                                       *)
(*                                                                          *)
(* An expression is the sequence of mutexes its nested locks take.          *)
(****************************************************************************)
EXTENDS Naturals, Sequences, FiniteSets

CONSTANTS Expr,   \* the expressions: 1..n
          Mutex,  \* mutexes of lock-make
          Guard,  \* the mutex that the program keeps the shared variable under
          Nesting \* bound of the model: the sequences of locks an expression takes

ASSUME ParfuncAssumption ==
  /\ IsFiniteSet(Expr) /\ Expr = 1..Cardinality(Expr) /\ Expr # {} /\ Guard \in Mutex
  /\ Nesting \subseteq Seq(Mutex)

VARIABLES
  program,   \* program[i]: the locks of expression i
  timed,     \* a :timeout was given
  caller,    \* "collect" | "returned" | "refused"
  gathered,  \* gathered[i]: the value at place i of the result, or NilResult
  missing,   \* results not yet collected
  ch,        \* the results in the channel, in order
  cancelled, \* the workers' context is done
  timedOut,  \* the timer has fired
  worker,    \* worker[i]: "run" | "lock" | "read" | "unlock" | "gone"
  taken,     \* taken[i]: how many of its locks expression i holds
  failed,    \* failed[i]: its evaluation ended with an error
  holder,    \* holder[m]: the worker inside mutex m, 0 for none
  sharedVar,    \* the shared variable
  seen,      \* seen[i]: what expression i has read of it
  writes     \* how often it has been written

parfuncCaller == <<caller, gathered, missing, timedOut>>
parfuncLocks == <<taken, holder>>
parfuncShared == <<sharedVar, seen, writes>>
parfuncVars == <<program, timed, parfuncCaller, ch, cancelled, worker, failed, parfuncLocks, parfuncShared>>

NilResult == 0
ParfuncInit ==
  /\ program \in [Expr -> Nesting] /\ timed \in BOOLEAN
  /\ caller = "collect" /\ gathered = [i \in Expr |-> NilResult] /\ missing = Cardinality(Expr)
  /\ ch = <<>> /\ cancelled = FALSE /\ timedOut = FALSE
  /\ worker = [i \in Expr |-> "run"] /\ taken = [i \in Expr |-> 0]
  /\ failed = [i \in Expr |-> FALSE] /\ holder = [m \in Mutex |-> 0]
  /\ sharedVar = 0 /\ seen = [i \in Expr |-> 0] /\ writes = 0

----------------------------------------------------------------------------
\* gm.mu.Lock waits for as long as anybody, itself included, holds the mutex;
\* a worker that waits there does not look at its context.
EntersLock(i) ==
  /\ worker[i] = "run" /\ taken[i] < Len(program[i])
  /\ worker' = [worker EXCEPT ![i] = "lock"]
  /\ UNCHANGED <<program, timed, parfuncCaller, ch, cancelled, failed, parfuncLocks, parfuncShared>>

Lock(i) ==
  /\ worker[i] = "lock"
  /\ LET m == program[i][taken[i] + 1] IN
       /\ holder[m] = 0
       /\ holder' = [holder EXCEPT ![m] = i]
  /\ taken' = [taken EXCEPT ![i] = @ + 1] /\ worker' = [worker EXCEPT ![i] = "run"]
  /\ UNCHANGED <<program, timed, parfuncCaller, ch, cancelled, failed, parfuncShared>>

\* The body, once the locks are taken, reads the shared variable if the
\* expression holds its mutex ...
Guards(i) == \E k \in 1..Len(program[i]) : program[i][k] = Guard

BodyReads(i) ==
  /\ worker[i] = "run" /\ taken[i] = Len(program[i])
  /\ worker' = [worker EXCEPT ![i] = IF Guards(i) THEN "read" ELSE "unlock"]
  /\ seen' = [seen EXCEPT ![i] = sharedVar]
  /\ UNCHANGED <<program, timed, parfuncCaller, ch, cancelled, failed, parfuncLocks, sharedVar, writes>>

\* ... and sets it, whether or not the parfunc that started it has returned.
BodyWrites(i) ==
  /\ worker[i] = "read"
  /\ sharedVar' = seen[i] + 1 /\ writes' = writes + 1
  /\ worker' = [worker EXCEPT ![i] = "unlock"]
  /\ UNCHANGED <<program, timed, parfuncCaller, ch, cancelled, failed, parfuncLocks, seen>>

\* An error of the body, or the check of a cancelled context before its next
\* form, ends the evaluation.
Fails(i) ==
  /\ worker[i] = "read" \/ (worker[i] = "run" /\ (taken[i] = Len(program[i]) \/ cancelled))
  /\ worker' = [worker EXCEPT ![i] = "unlock"]
  /\ failed' = [failed EXCEPT ![i] = TRUE]
  /\ UNCHANGED <<program, timed, parfuncCaller, ch, cancelled, parfuncLocks, parfuncShared>>

\* The deferred Unlocks run innermost first, whatever ended the body.
UnlockNotOnError(i) ==
  /\ worker[i] = "unlock" /\ taken[i] > 0
  /\ taken' = [taken EXCEPT ![i] = @ - 1]
  /\ holder' = [holder EXCEPT ![program[i][taken[i]]] = IF failed[i] THEN @ ELSE 0]
  /\ UNCHANGED <<program, timed, parfuncCaller, ch, cancelled, worker, failed, parfuncShared>>

Unlock(i) ==
  /\ worker[i] = "unlock" /\ taken[i] > 0
  /\ taken' = [taken EXCEPT ![i] = @ - 1]
  /\ holder' = [holder EXCEPT ![program[i][taken[i]]] = 0]
  /\ UNCHANGED <<program, timed, parfuncCaller, ch, cancelled, worker, failed, parfuncShared>>

\* An error becomes nil; the channel has room for every result.
Send(i) ==
  /\ worker[i] = "unlock" /\ taken[i] = 0
  /\ worker' = [worker EXCEPT ![i] = "gone"]
  /\ ch' = Append(ch, [idx |-> i, val |-> IF failed[i] THEN NilResult ELSE i])
  /\ UNCHANGED <<program, timed, parfuncCaller, cancelled, failed, parfuncLocks, parfuncShared>>

----------------------------------------------------------------------------
CollectAt(place) ==
  /\ caller = "collect" /\ ch # <<>> /\ missing > 0
  /\ gathered' = [gathered EXCEPT ![place] = Head(ch).val]
  /\ missing' = missing - 1 /\ ch' = Tail(ch)
  /\ UNCHANGED <<program, timed, caller, timedOut, cancelled, worker, failed, parfuncLocks, parfuncShared>>

\* A result belongs to its expression's place, not to that of its arrival.
CollectByArrival == CollectAt(Cardinality(Expr) + 1 - missing)
Collect == CollectAt(Head(ch).idx)

TimeoutCancels(rest) ==
  /\ timed /\ caller = "collect" /\ missing > 0 /\ ~timedOut
  /\ timedOut' = TRUE /\ cancelled' = TRUE /\ missing' = rest
  /\ UNCHANGED <<program, timed, caller, gathered, ch, worker, failed, parfuncLocks, parfuncShared>>

\* The results are given up, not only the workers cancelled.
TimeoutStillWaits == TimeoutCancels(missing)
Timeout == TimeoutCancels(0)

\* env.Set of the result name, which the redefinition guard may refuse; the
\* deferred cancel runs as the form returns.
Bind ==
  /\ caller = "collect" /\ missing = 0
  /\ caller' \in {"returned", "refused"} /\ cancelled' = TRUE
  /\ UNCHANGED <<program, timed, gathered, missing, timedOut, ch, worker, failed, parfuncLocks, parfuncShared>>

WorkerNext(i) ==
  \/ EntersLock(i) \/ Lock(i) \/ BodyReads(i) \/ BodyWrites(i) \/ Fails(i) \/ Unlock(i) \/ Send(i)

ParfuncNext == Collect \/ Timeout \/ Bind \/ \E i \in Expr : WorkerNext(i)

ParfuncSpec ==
  /\ ParfuncInit /\ [][ParfuncNext]_parfuncVars
  /\ WF_parfuncVars(Collect \/ Bind) /\ WF_parfuncVars(Timeout)
  /\ \A i \in Expr : WF_parfuncVars(WorkerNext(i)) /\ SF_parfuncVars(Lock(i))

----------------------------------------------------------------------------
CallerOK ==
  /\ program \in [Expr -> Nesting] /\ timed \in BOOLEAN
  /\ caller \in {"collect", "returned", "refused"} /\ missing \in 0..Cardinality(Expr)
  /\ gathered \in [Expr -> {NilResult} \cup Expr]
  /\ cancelled \in BOOLEAN /\ timedOut \in BOOLEAN

ChannelOK ==
  ch \in Seq([idx : Expr, val : {NilResult} \cup Expr]) /\ Len(ch) <= Cardinality(Expr)

WorkerOK ==
  /\ worker \in [Expr -> {"run", "lock", "read", "unlock", "gone"}]
  /\ taken \in [Expr -> Nat] /\ \A i \in Expr : taken[i] <= Len(program[i])
  /\ failed \in [Expr -> BOOLEAN] /\ holder \in [Mutex -> Expr \cup {0}]
  /\ sharedVar \in Nat /\ writes \in Nat /\ seen \in [Expr -> Nat]

ParfuncTypeOK == CallerOK /\ ChannelOK /\ WorkerOK

\* The result is in the order of the expressions, and nil stands only for an
\* expression that failed or that a timeout gave up: a result is never lost and
\* never at another's place (evalParfunc).
ResultsOwn ==
  caller = "returned" => \A i \in Expr :
    gathered[i] = i \/ (gathered[i] = NilResult /\ (failed[i] \/ timedOut))

\* No update under the mutex is lost, and none of an expression that failed or
\* was cancelled leaves the mutex taken: also not of a worker that outlives its
\* parfunc (evalLock's deferred Unlock, evalParfunc's cancel).  (And the
\* variables have their types.)
UpdatesUnderLock ==
  /\ ParfuncTypeOK
  /\ sharedVar = writes
  /\ \A m \in Mutex : holder[m] # 0 => worker[holder[m]] # "gone"

\* With a timeout a parfunc returns whatever its workers wait for: a mutex they
\* hold themselves, or each other's (evalParfunc's select on the timer).
TimeoutFrees == timed ~> caller # "collect"
=============================================================================
