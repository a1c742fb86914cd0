--------------------------------- MODULE Sigo ---------------------------------
(****************************************************************************)
(* The sigoREST client (sigorest.go): the settings and the usage sums that  *)
(* sigoStateMu protects, the request that sigoBuildRequest completes, the   *)
(* throttle (one ticker with room for one tick, then sigoCallMutex with the *)
(* pause since the last call) and the HTTP call.  parfunc calls sigo from   *)
(* several goroutines.                                                      *)
(*                                                                          *)
(* Time counts in units of which the ticker's period is TickPeriod and the  *)
(* pause is Pause; it passes whenever it likes, also between two steps.     *)
(****************************************************************************)
EXTENDS Naturals, Sequences, FiniteSets

CONSTANTS Worker,     \* goroutines that call
          Host,       \* the hosts that sigo-host sets
          Prompt,     \* the system prompts, "" included
          TickPeriod, \* 2 s
          Pause,      \* 500 ms
          MaxTime, MaxRequests  \* bounds of the model

NotGiven == ""

ASSUME SigoAssumption == {TickPeriod, Pause, MaxTime, MaxRequests} \subseteq Nat \ {0}
                         /\ NotGiven \in Prompt /\ Host # {} /\ "default" \notin Host

VARIABLES
  sigoHost, sigoPrompt, \* sigoHost, sigoSystemPrompt
  usageSum, usageCalls, \* sigoUsageSum (in successful calls' units) and sigoCalls
  now, ticked,          \* the time, and whether the ticker's channel holds a tick
  callMutex, lastCall,  \* sigoCallMutex's holder and sigoLastCall
  stage,                \* stage[w]: where w is in its call
  request,              \* request[w]: what it sends and to which host
  starts,               \* when throttled calls were let through, in order
  callsLeft

sigoState == <<sigoHost, sigoPrompt>>
sigoUsage == <<usageSum, usageCalls>>
sigoClock == <<now, ticked>>
sigoThrottled == <<callMutex, lastCall, starts>>
sigoVars == <<sigoState, sigoUsage, sigoClock, sigoThrottled, stage, request, callsLeft>>

\* The optional fields of a request; "stream" and names that sigoREST does not
\* know are refused, and so are values of the wrong type.
Field == {"model", "messages", "bare", "temperature", "system_prompt", "timeout"}
GivenRequest == [fields : {{"model", "messages"}, {"model", "messages", "system_prompt", "timeout"},
                           {"model"}, {"model", "messages", "stream"}},
                 wellTyped : BOOLEAN]
NoRequest == [host |-> "default", fields |-> {}, prompt |-> NotGiven]

sigoBuildRequest(h, prompt) ==
  IF /\ h.fields \subseteq Field /\ {"model", "messages"} \subseteq h.fields
     /\ h.wellTyped
    THEN [ok |-> TRUE, fields |-> h.fields \cup {"bare", "temperature", "timeout"}
                                  \cup (IF prompt # NotGiven THEN {"system_prompt"} ELSE {})]
    ELSE [ok |-> FALSE, fields |-> {}]

SigoInit ==
  /\ sigoHost = "default" /\ sigoPrompt \in Prompt /\ usageSum = 0 /\ usageCalls = 0
  /\ now = 0 /\ ticked = FALSE
  /\ callMutex = "free" /\ lastCall = 0 /\ starts = <<>>
  /\ stage = [w \in Worker |-> "idle"] /\ request = [w \in Worker |-> NoRequest]
  /\ callsLeft = MaxRequests

----------------------------------------------------------------------------
fnSigoHost(h) ==
  /\ sigoHost' = h
  /\ UNCHANGED <<sigoPrompt, sigoUsage, sigoClock, sigoThrottled, stage, request, callsLeft>>

fnSigoSystemPrompt(p) ==
  /\ sigoPrompt' = p
  /\ UNCHANGED <<sigoHost, sigoUsage, sigoClock, sigoThrottled, stage, request, callsLeft>>

fnSigoUsageReset ==
  /\ usageSum' = 0 /\ usageCalls' = 0
  /\ UNCHANGED <<sigoState, sigoClock, sigoThrottled, stage, request, callsLeft>>

\* sigo, sigo*, sigo-request: host and prompt are copied together before the
\* request is completed; a given host wins.
SigoRequestCell(w, h, host) ==
  /\ stage[w] = "idle" /\ callsLeft > 0 /\ callsLeft' = callsLeft - 1
  /\ LET r == sigoBuildRequest(h, sigoPrompt) IN
       IF r.ok
         THEN /\ stage' = [stage EXCEPT ![w] = "tick"]
              /\ request' = [request EXCEPT ![w] =
                   [host |-> IF host = NotGiven THEN sigoHost ELSE host, fields |-> r.fields,
                    prompt |-> IF "system_prompt" \in h.fields THEN "own" ELSE sigoPrompt]]
         ELSE UNCHANGED <<stage, request>>
  /\ UNCHANGED <<sigoState, sigoUsage, sigoClock, sigoThrottled>>

\* <-sigoRateLimiter: one tick lets one caller on.
TakesTick(w) ==
  /\ stage[w] = "tick" /\ ticked
  /\ ticked' = FALSE /\ stage' = [stage EXCEPT ![w] = "lock"]
  /\ UNCHANGED <<sigoState, sigoUsage, now, sigoThrottled, request, callsLeft>>

\* sigoCallMutex.Lock, held while the caller sleeps for the rest of the pause.
LocksCall(w) ==
  /\ stage[w] = "lock" /\ callMutex = "free"
  /\ callMutex' = w /\ stage' = [stage EXCEPT ![w] = "sleep"]
  /\ UNCHANGED <<sigoState, sigoUsage, sigoClock, lastCall, starts, request, callsLeft>>

\* The time of the call not noted.
LetThroughUnnoted(w) ==
  /\ stage[w] = "sleep" /\ (starts # <<>> => now >= lastCall + Pause)
  /\ callMutex' = "free" /\ starts' = Append(starts, now)
  /\ stage' = [stage EXCEPT ![w] = "send"]
  /\ UNCHANGED <<sigoState, sigoUsage, sigoClock, lastCall, request, callsLeft>>

LetThrough(w) ==
  /\ stage[w] = "sleep" /\ (starts # <<>> => now >= lastCall + Pause)
  /\ lastCall' = now /\ callMutex' = "free"
  /\ starts' = Append(starts, now)
  /\ stage' = [stage EXCEPT ![w] = "send"]
  /\ UNCHANGED <<sigoState, sigoUsage, sigoClock, request, callsLeft>>

\* sigoDo and the answer: a refused, late or malformed answer counts nothing.
CallFails(w) ==
  /\ stage[w] = "send" /\ stage' = [stage EXCEPT ![w] = "idle"]
  /\ UNCHANGED <<sigoState, sigoUsage, sigoClock, sigoThrottled, request, callsLeft>>

CallSucceeds(w) ==
  /\ stage[w] = "send" /\ stage' = [stage EXCEPT ![w] = "idle"]
  /\ usageSum' = usageSum + 1 /\ usageCalls' = usageCalls + 1
  /\ UNCHANGED <<sigoState, sigoClock, sigoThrottled, request, callsLeft>>

\* time.Tick drops a tick that finds the channel full.
Elapses ==
  /\ now < MaxTime /\ now' = now + 1
  /\ ticked' = (ticked \/ now' % TickPeriod = 0)
  /\ UNCHANGED <<sigoState, sigoUsage, sigoThrottled, stage, request, callsLeft>>

SigoNext ==
  \/ \E h \in Host : fnSigoHost(h)
  \/ \E p \in Prompt : fnSigoSystemPrompt(p)
  \/ fnSigoUsageReset \/ Elapses
  \/ \E w \in Worker :
       \/ \E h \in GivenRequest, host \in Host \cup {NotGiven} : SigoRequestCell(w, h, host)
       \/ TakesTick(w) \/ LocksCall(w) \/ LetThrough(w) \/ CallFails(w) \/ CallSucceeds(w)

SigoSpec == SigoInit /\ [][SigoNext]_sigoVars

----------------------------------------------------------------------------
SigoTypeOK ==
  /\ sigoHost \in Host \cup {"default"} /\ sigoPrompt \in Prompt
  /\ usageCalls \in 0..MaxRequests /\ usageSum = usageCalls
  /\ now \in 0..MaxTime /\ ticked \in BOOLEAN /\ lastCall \in 0..MaxTime
  /\ callMutex \in Worker \cup {"free"} /\ starts \in Seq(0..MaxTime)
  /\ stage \in [Worker -> {"idle", "tick", "lock", "sleep", "send"}]
  /\ \A w \in Worker : stage[w] # "idle" => {"model", "messages", "bare", "timeout"} \subseteq request[w].fields
  /\ callsLeft \in 0..MaxRequests

\* Two calls are never let through within the pause of each other, whichever
\* goroutines make them and however long a tick has waited in the ticker's
\* channel or a caller between its tick and the lock; and no more calls are let
\* through than the ticker has ticked (sigoThrottle).  That is less than the
\* comment on sigoRateLimiter says, one request in two seconds for each model:
\* all models share the ticker, and a tick that has waited lets a call through
\* a pause after the one before it.
CallsSpaced ==
  /\ \A i \in 1..Len(starts) - 1 : starts[i + 1] >= starts[i] + Pause
  /\ Len(starts) * TickPeriod <= now
=============================================================================
