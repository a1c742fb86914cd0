---------------------------- MODULE ClosableChannel ----------------------------
(****************************************************************************)
(* What the channel primitives of GoLisp2 promise: every call takes effect  *)
(* in one indivisible step between its start and its return.  A channel is  *)
(* a bounded FIFO queue with three phases.  While it is "closing" a         *)
(* chan-send that overlaps the chan-close may still succeed; once it is     *)
(* "closed" nothing is added any more.  Module Channels refines this.       *)
(****************************************************************************)
EXTENDS Naturals, Sequences

CONSTANTS Proc,      \* the goroutines that call the primitives
          Chan,      \* the channels
          Cap,       \* Cap[c]: the buffer size chan-make was given
          Val,       \* the values that are sent
          CaseLists, \* the channel lists chan-select is called with
          NoVal      \* no value

VARIABLES queue,     \* queue[c]: the values accepted and not yet received
          phase,     \* phase[c]: "open", "closing" or "closed"
          act,       \* act[p]: "idle", "busy", "closing" or "ret"
          op, ch, val, chans, mode,  \* the arguments of p's call
          ret        \* ret[p]: the result of p's call, while act[p] = "ret"

avars == <<queue, phase, act, op, ch, val, chans, mode, ret>>
args  == <<op, ch, val, chans, mode>>

Sending == {"send", "trySend", "spawn"}
AnyChan == CHOOSE c \in Chan : TRUE
Result(tag) == [tag |-> tag, val |-> NoVal, at |-> 0]
Got(v, i)   == [tag |-> "got", val |-> v, at |-> i]
------------------------------------------------------------------------------
Init ==
  /\ queue = [c \in Chan |-> <<>>]
  /\ phase = [c \in Chan |-> "open"]
  /\ act = [p \in Proc |-> "idle"]
  /\ op = [p \in Proc |-> "none"]
  /\ ch = [p \in Proc |-> AnyChan]
  /\ val = [p \in Proc |-> NoVal]
  /\ chans = [p \in Proc |-> <<>>]
  /\ mode = [p \in Proc |-> "block"]
  /\ ret = [p \in Proc |-> Result("none")]

\* A caller enters a primitive with arguments of its choice.
Begin(p) ==
  /\ act[p] = "idle"
  /\ act' = [act EXCEPT ![p] = "busy"]
  /\ \E o \in Sending \cup {"recv", "close", "closed?"} : op' = [op EXCEPT ![p] = o]
  /\ \E c \in Chan : ch' = [ch EXCEPT ![p] = c]
  /\ \E v \in Val \cup {NoVal} : val' = [val EXCEPT ![p] = v]
  /\ \E cs \in CaseLists \cup {chans[p]} : chans' = [chans EXCEPT ![p] = cs]
  /\ \E m \in {"block", "timer", "default"} : mode' = [mode EXCEPT ![p] = m]
  /\ UNCHANGED <<queue, phase, ret>>

\* The step at which p's call takes effect: it leaves the result r.
Effect(p, r) ==
  /\ act' = [act EXCEPT ![p] = "ret"]
  /\ ret' = [ret EXCEPT ![p] = r]
  /\ UNCHANGED args

Put(p) ==
  /\ act[p] = "busy" /\ op[p] \in Sending
  /\ phase[ch[p]] # "closed"
  /\ Len(queue[ch[p]]) < Cap[ch[p]]
  /\ queue' = [queue EXCEPT ![ch[p]] = Append(@, val[p])]
  /\ Effect(p, Result("t"))
  /\ UNCHANGED phase

\* On an unbuffered channel a sender and a receiver meet.
Meet(p, q, i) ==
  /\ p # q
  /\ act[p] = "busy" /\ op[p] \in Sending
  /\ act[q] = "busy" /\ op[q] = "recv"
  /\ chans[q][i] = ch[p]
  /\ Cap[ch[p]] = 0
  /\ phase[ch[p]] # "closed"
  /\ act' = [act EXCEPT ![p] = "ret", ![q] = "ret"]
  /\ ret' = [ret EXCEPT ![p] = Result("t"), ![q] = Got(val[p], i)]
  /\ UNCHANGED <<queue, phase, args>>

\* A send is refused only once a chan-close has begun.
Refuse(p) ==
  /\ act[p] = "busy" /\ op[p] \in Sending \cup {"close"}
  /\ phase[ch[p]] # "open"
  /\ Effect(p, Result("error"))
  /\ UNCHANGED <<queue, phase>>

\* Only the non-blocking sends give up, and only on a full channel.
Full(p) ==
  /\ act[p] = "busy" /\ op[p] \in {"trySend", "spawn"}
  /\ Len(queue[ch[p]]) >= Cap[ch[p]]
  /\ Effect(p, Result("nil"))
  /\ UNCHANGED <<queue, phase>>

Get(p, i) ==
  /\ act[p] = "busy" /\ op[p] = "recv"
  /\ queue[chans[p][i]] # <<>>
  /\ queue' = [queue EXCEPT ![chans[p][i]] = Tail(@)]
  /\ Effect(p, Got(Head(queue[chans[p][i]]), i))
  /\ UNCHANGED phase

\* A receiver returns empty-handed when its timer may have fired, when it
\* does not wait and nothing is there, or when every channel is finished.
GetNothing(p) ==
  /\ act[p] = "busy" /\ op[p] = "recv"
  /\ \/ mode[p] = "timer"
     \/ mode[p] = "default" /\ \A i \in DOMAIN chans[p] : queue[chans[p][i]] = <<>>
     \/ \A i \in DOMAIN chans[p] :
          phase[chans[p][i]] = "closed" /\ queue[chans[p][i]] = <<>>
  /\ Effect(p, Result("none"))
  /\ UNCHANGED <<queue, phase>>

BeginClose(p) ==
  /\ act[p] = "busy" /\ op[p] = "close"
  /\ phase[ch[p]] = "open"
  /\ phase' = [phase EXCEPT ![ch[p]] = "closing"]
  /\ act' = [act EXCEPT ![p] = "closing"]
  /\ UNCHANGED <<queue, ret, args>>

EndClose(p) ==
  /\ act[p] = "closing"
  /\ phase' = [phase EXCEPT ![ch[p]] = "closed"]
  /\ Effect(p, Result("t"))
  /\ UNCHANGED queue

\* chan-closed? answers t only for an empty channel whose closing has begun.
Ask(p) ==
  /\ act[p] = "busy" /\ op[p] = "closed?"
  /\ \/ /\ phase[ch[p]] # "open" /\ queue[ch[p]] = <<>>
        /\ Effect(p, Result("t"))
     \/ /\ phase[ch[p]] = "open" \/ queue[ch[p]] # <<>>
        /\ Effect(p, Result("nil"))
  /\ UNCHANGED <<queue, phase>>

Return(p) ==
  /\ act[p] = "ret"
  /\ act' = [act EXCEPT ![p] = "idle"]
  /\ op' = [op EXCEPT ![p] = "none"]
  /\ ch' = [ch EXCEPT ![p] = AnyChan]
  /\ val' = [val EXCEPT ![p] = NoVal]
  /\ chans' = [chans EXCEPT ![p] = <<>>]
  /\ mode' = [mode EXCEPT ![p] = "block"]
  /\ ret' = [ret EXCEPT ![p] = Result("none")]
  /\ UNCHANGED <<queue, phase>>

Next ==
  \E p \in Proc :
    \/ Begin(p) \/ Put(p) \/ Refuse(p) \/ Full(p)
    \/ \E q \in Proc : \E i \in DOMAIN chans[q] : Meet(p, q, i)
    \/ \E i \in DOMAIN chans[p] : Get(p, i)
    \/ GetNothing(p) \/ BeginClose(p) \/ EndClose(p) \/ Ask(p) \/ Return(p)

Spec == Init /\ [][Next]_avars
================================================================================
