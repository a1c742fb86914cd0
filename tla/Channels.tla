-------------------------------- MODULE Channels --------------------------------
(****************************************************************************)
(* The channel primitives of src/src/lib/goroutine.go, one action per       *)
(* synchronising statement.  A goChannel is a Go channel (buf, chClosed), a *)
(* flag `closed`, a channel `done` that is only ever closed, and an RWMutex *)
(* mu that senders hold for reading and chan-close for writing.  A Go send  *)
(* on a closed Go channel panics; the RWMutex is there so that never        *)
(* happens, `done` so that chan-close need not wait for a blocked sender.   *)
(*                                                                          *)
(* A call that can block is in Go's wait queue as soon as it is at          *)
(* "select" or "recv"; whether it has been parked yet is not modelled, so a *)
(* default case may or may not notice the other side of an unbuffered       *)
(* channel, and waiting senders and receivers are served in any order.      *)
(****************************************************************************)
EXTENDS Naturals, Sequences

CONSTANTS Proc,       \* the goroutines
          Goroutine,  \* those of them that are started by spawn
          Chan,       \* the channels
          Cap,        \* Cap[c]: the size given to chan-make
          ResultChan, \* ResultChan[g]: the result channel of goroutine g
          Val,        \* the values the program sends
          Outcome,    \* the messages (:ok wert), (:error text) of spawn
          CaseLists,  \* the channel lists given to chan-recv and chan-select
          MayCall,    \* MayCall[p]: the primitives the program uses in p
          NoVal, NoProc

ASSUME ConstantAssumption ==
  /\ Goroutine \subseteq Proc
  /\ Cap \in [Chan -> Nat]
  /\ ResultChan \in [Goroutine -> Chan]
  /\ \A g \in Goroutine : Cap[ResultChan[g]] = 1
  /\ CaseLists \subseteq Seq(Chan)
  /\ MayCall \in [Proc -> SUBSET {"send", "trySend", "recv", "close", "closed?"}]
  /\ NoProc \notin Proc
  /\ Chan # {}

VARIABLES buf,      \* buf[c]: what the Go channel gc.ch holds
          chClosed, \* chClosed[c]: close(gc.ch) has been executed
          closed,   \* closed[c]: the atomic flag
          done,     \* done[c]: gc.done has been closed
          readers,  \* readers[c]: the goroutines that hold mu.RLock
          wlock,    \* wlock[c]: who waits for or holds mu.Lock, or NoProc
          pc,       \* pc[p]: the statement p executes next
          op, ch, val, \* the primitive p is in and its arguments
          sel,      \* sel[p]: the cases p receives from
          ret       \* ret[p]: the result of p's call

sync == <<closed, done, readers, wlock>>
args == <<op, ch, val>>
vars == <<buf, chClosed, closed, done, readers, wlock, pc, op, ch, val, sel, ret>>

Sending == {"send", "trySend", "spawn"}
BlockingSpawnToo == {"send", "spawn"}
Blocking == {"send"}
Modes == {"block", "timer", "default"}
AnyChan == CHOOSE c \in Chan : TRUE

Result(tag) == [tag |-> tag, val |-> NoVal, at |-> 0]
Got(v, i)   == [tag |-> "got", val |-> v, at |-> i]
NoSel == [chans |-> <<>>, cases |-> <<>>, index |-> <<>>, timeoutCase |-> 0, mode |-> "block"]

\* s without its k-th element: append(s[:k], s[k+1:]...)
Without(s, k) == [j \in 1..(Len(s) - 1) |-> IF j < k THEN s[j] ELSE s[j + 1]]

\* A channel exists once it has been made; spawn makes the result channel.
Made(c) == \A g \in Goroutine : ResultChan[g] = c => pc[g] # "unborn"

Goto(p, l) == pc' = [pc EXCEPT ![p] = l]
Finish(p, r) == Goto(p, "ret") /\ ret' = [ret EXCEPT ![p] = r]
------------------------------------------------------------------------------
Init ==
  /\ buf = [c \in Chan |-> <<>>]
  /\ chClosed = [c \in Chan |-> FALSE]
  /\ closed = [c \in Chan |-> FALSE]
  /\ done = [c \in Chan |-> FALSE]
  /\ readers = [c \in Chan |-> {}]
  /\ wlock = [c \in Chan |-> NoProc]
  /\ pc = [p \in Proc |-> IF p \in Goroutine THEN "unborn" ELSE "idle"]
  /\ op = [p \in Proc |-> "none"]
  /\ ch = [p \in Proc |-> AnyChan]
  /\ val = [p \in Proc |-> NoVal]
  /\ sel = [p \in Proc |-> NoSel]
  /\ ret = [p \in Proc |-> Result("none")]

\* p enters primitive o on channel c, at the statement l.
Enter(p, o, c, v, l) ==
  /\ pc[p] = "idle"
  /\ Goto(p, l)
  /\ op' = [op EXCEPT ![p] = o]
  /\ ch' = [ch EXCEPT ![p] = c]
  /\ val' = [val EXCEPT ![p] = v]
  /\ UNCHANGED <<buf, chClosed, sync, ret>>

CallSend(p) ==
  \E o \in {"send", "trySend"} \cap MayCall[p], c \in Chan, v \in Val :
    Made(c) /\ Enter(p, o, c, v, "rlock") /\ UNCHANGED sel

CallClose(p) ==
  /\ "close" \in MayCall[p]
  /\ \E c \in Chan : Made(c) /\ Enter(p, "close", c, NoVal, "cas") /\ UNCHANGED sel

CallClosedP(p) ==
  /\ "closed?" \in MayCall[p]
  /\ \E c \in Chan : Made(c) /\ Enter(p, "closed?", c, NoVal, "flag") /\ UNCHANGED sel

\* chan-recv is a receive with one case, chan-try-recv one with a default,
\* chan-select one with a case per channel; the timer or the default comes last.
CallRecv(p) ==
  /\ "recv" \in MayCall[p]
  /\ \E cs \in CaseLists, m \in Modes :
    /\ \A i \in DOMAIN cs : Made(cs[i])
    /\ Enter(p, "recv", ch[p], NoVal, "recv")
    /\ sel' = [sel EXCEPT ![p] =
                 [chans |-> cs, cases |-> cs, index |-> [i \in DOMAIN cs |-> i],
                  timeoutCase |-> IF m = "block" THEN 0 ELSE Len(cs) + 1, mode |-> m]]

\* spawn starts goroutine g; it runs the program's function, which may call
\* any primitive before it ends.
Spawn(g) ==
  /\ g \in Goroutine /\ pc[g] = "unborn"
  /\ \E p \in Proc : pc[p] = "idle"
  /\ Goto(g, "idle")
  /\ UNCHANGED <<buf, chClosed, sync, args, sel, ret>>

\* The function has returned, failed or panicked: the deferred chanPut.
EndOfSpawned(g) ==
  /\ g \in Goroutine
  /\ \E v \in Outcome : Enter(g, "spawn", ResultChan[g], v, "rlock")
  /\ UNCHANGED sel
------------------------------------------------------------------------------
\* chanPut: mu.RLock waits for a writer that holds the lock or waits for it.
RLock(p) ==
  /\ pc[p] = "rlock"
  /\ wlock[ch[p]] = NoProc
  /\ readers' = [readers EXCEPT ![ch[p]] = @ \cup {p}]
  /\ Goto(p, "check")
  /\ UNCHANGED <<buf, chClosed, closed, done, wlock, args, sel, ret>>

CheckClosed(p) ==
  /\ pc[p] = "check"
  /\ IF closed[ch[p]] THEN Finish(p, Result("error"))
                      ELSE Goto(p, "select") /\ UNCHANGED ret
  /\ UNCHANGED <<buf, chClosed, sync, args, sel>>

\* case gc.ch <- v, into the buffer.  (That gc.ch is open is not a guard of
\* the code: NoSendOnClosed says it always is.)
SendToBuffer(p) ==
  /\ pc[p] = "select"
  /\ Len(buf[ch[p]]) < Cap[ch[p]]
  /\ buf' = [buf EXCEPT ![ch[p]] = Append(@, val[p])]
  /\ Finish(p, Result("t"))
  /\ UNCHANGED <<chClosed, sync, args, sel>>

\* case gc.ch <- v of an unbuffered channel, together with q's receive.  Two
\* non-blocking operations never meet.
Rendezvous(p, q, k) ==
  /\ p # q
  /\ pc[p] = "select" /\ pc[q] = "recv"
  /\ op[p] \in Blocking \/ sel[q].mode # "default"
  /\ Cap[ch[p]] = 0 /\ sel[q].cases[k] = ch[p]
  /\ pc' = [pc EXCEPT ![p] = "ret", ![q] = "ret"]
  /\ ret' = [ret EXCEPT ![p] = Result("t"), ![q] = Got(val[p], sel[q].index[k])]
  /\ UNCHANGED <<buf, chClosed, sync, args, sel>>

\* case <-gc.done of a blocking send.
SendSeesDone(p) ==
  /\ pc[p] = "select" /\ op[p] \in Blocking
  /\ done[ch[p]]
  /\ Finish(p, Result("error"))
  /\ UNCHANGED <<buf, chClosed, sync, args, sel>>

\* default of a non-blocking send.
SendDefault(p) ==
  /\ pc[p] = "select" /\ op[p] \notin Blocking
  /\ Len(buf[ch[p]]) >= Cap[ch[p]]
  /\ Finish(p, Result("nil"))
  /\ UNCHANGED <<buf, chClosed, sync, args, sel>>
------------------------------------------------------------------------------
\* The k-th case delivers a value; the caller is told its place in the list.
RecvFromBuffer(p, k) ==
  /\ pc[p] = "recv"
  /\ LET c == sel[p].cases[k] IN
     /\ buf[c] # <<>>
     /\ buf' = [buf EXCEPT ![c] = Tail(@)]
     /\ Finish(p, Got(Head(buf[c]), sel[p].index[k]))
  /\ UNCHANGED <<chClosed, sync, args, sel>>

RecvDropsClosedKeepsTimeout(p, k) ==
  /\ pc[p] = "recv"
  /\ chClosed[sel[p].cases[k]] /\ buf[sel[p].cases[k]] = <<>>
  /\ sel' = [sel EXCEPT ![p].cases = Without(@, k), ![p].index = Without(@, k)]
  /\ IF Len(sel[p].cases) = 1 THEN Finish(p, Result("none"))
                              ELSE UNCHANGED <<pc, ret>>
  /\ UNCHANGED <<buf, chClosed, sync, args>>

\* The k-th case is closed and empty: it is dropped, and when it was the last
\* one the call ends without a value.
RecvDropsClosed(p, k) ==
  /\ pc[p] = "recv"
  /\ chClosed[sel[p].cases[k]] /\ buf[sel[p].cases[k]] = <<>>
  /\ sel' = [sel EXCEPT ![p].cases = Without(@, k),
                        ![p].index = Without(@, k),
                        ![p].timeoutCase = IF @ = 0 THEN 0 ELSE @ - 1]
  /\ IF Len(sel[p].cases) = 1 THEN Finish(p, Result("none"))
                              ELSE UNCHANGED <<pc, ret>>
  /\ UNCHANGED <<buf, chClosed, sync, args>>

\* The timer fires, or no case is ready and the default is taken: select
\* chooses the case after the channels, which the code compares with timeoutCase.
RecvGivesUp(p) ==
  /\ pc[p] = "recv"
  /\ \/ sel[p].mode = "timer"
     \/ /\ sel[p].mode = "default"
        /\ \A k \in DOMAIN sel[p].cases :
             buf[sel[p].cases[k]] = <<>> /\ ~chClosed[sel[p].cases[k]]
  /\ Finish(p, Result(IF sel[p].timeoutCase = Len(sel[p].cases) + 1
                      THEN "none" ELSE "index out of range"))
  /\ UNCHANGED <<buf, chClosed, sync, args, sel>>
------------------------------------------------------------------------------
\* chan-close: closed.CompareAndSwap(false, true)
CloseFlag(p) ==
  /\ pc[p] = "cas"
  /\ IF closed[ch[p]]
     THEN Finish(p, Result("error")) /\ UNCHANGED closed
     ELSE Goto(p, "done") /\ closed' = [closed EXCEPT ![ch[p]] = TRUE] /\ UNCHANGED ret
  /\ UNCHANGED <<buf, chClosed, done, readers, wlock, args, sel>>

CloseDoneForgotten(p) ==
  /\ pc[p] = "done"
  /\ Goto(p, "lock")
  /\ UNCHANGED <<buf, chClosed, sync, args, sel, ret>>

CloseDone(p) ==
  /\ pc[p] = "done"
  /\ done' = [done EXCEPT ![ch[p]] = TRUE]
  /\ Goto(p, "lock")
  /\ UNCHANGED <<buf, chClosed, closed, readers, wlock, args, sel, ret>>

\* mu.Lock: from now on new readers wait; then the readers in it must leave.
CloseLock(p) ==
  /\ pc[p] = "lock"
  /\ wlock[ch[p]] = NoProc
  /\ wlock' = [wlock EXCEPT ![ch[p]] = p]
  /\ Goto(p, "close")
  /\ UNCHANGED <<buf, chClosed, closed, done, readers, args, sel, ret>>

CloseChWithoutLock(p) ==
  /\ pc[p] = "close"
  /\ chClosed' = [chClosed EXCEPT ![ch[p]] = TRUE]
  /\ Finish(p, Result("t"))
  /\ UNCHANGED <<buf, sync, args, sel>>

CloseCh(p) ==
  /\ pc[p] = "close"
  /\ readers[ch[p]] = {}
  /\ chClosed' = [chClosed EXCEPT ![ch[p]] = TRUE]
  /\ Finish(p, Result("t"))
  /\ UNCHANGED <<buf, sync, args, sel>>

\* chan-closed?: gc.closed.Load() && len(gc.ch) == 0, two separate reads.
ReadFlag(p) ==
  /\ pc[p] = "flag"
  /\ IF closed[ch[p]] THEN Goto(p, "len") /\ UNCHANGED ret
                      ELSE Finish(p, Result("nil"))
  /\ UNCHANGED <<buf, chClosed, sync, args, sel>>

ReadLenOmitted(p) ==
  /\ pc[p] = "len"
  /\ Finish(p, Result("t"))
  /\ UNCHANGED <<buf, chClosed, sync, args, sel>>

ReadLen(p) ==
  /\ pc[p] = "len"
  /\ Finish(p, Result(IF buf[ch[p]] = <<>> THEN "t" ELSE "nil"))
  /\ UNCHANGED <<buf, chClosed, sync, args, sel>>

\* The call returns: a sender's deferred RUnlock, chan-close's Unlock.  A
\* goroutine started by spawn ends with its result message.
Return(p) ==
  /\ pc[p] = "ret"
  /\ Goto(p, IF op[p] = "spawn" THEN "dead" ELSE "idle")
  /\ readers' = [c \in Chan |-> readers[c] \ {p}]
  /\ wlock' = [c \in Chan |-> IF wlock[c] = p THEN NoProc ELSE wlock[c]]
  /\ op' = [op EXCEPT ![p] = "none"]
  /\ ch' = [ch EXCEPT ![p] = AnyChan]
  /\ val' = [val EXCEPT ![p] = NoVal]
  /\ sel' = [sel EXCEPT ![p] = NoSel]
  /\ ret' = [ret EXCEPT ![p] = Result("none")]
  /\ UNCHANGED <<buf, chClosed, closed, done>>
------------------------------------------------------------------------------
Call(p) ==
  \/ CallSend(p) \/ CallRecv(p) \/ CallClose(p) \/ CallClosedP(p)
  \/ Spawn(p) \/ EndOfSpawned(p)

Put(p) ==
  \/ RLock(p) \/ CheckClosed(p) \/ SendToBuffer(p) \/ SendSeesDone(p) \/ SendDefault(p)

Meet(p) == \E q \in Proc : \E k \in DOMAIN sel[q].cases : Rendezvous(p, q, k)

Recv(p) ==
  \/ \E k \in DOMAIN sel[p].cases : RecvFromBuffer(p, k) \/ RecvDropsClosed(p, k)
  \/ RecvGivesUp(p)

Close(p) == CloseFlag(p) \/ CloseDone(p) \/ CloseLock(p) \/ CloseCh(p)

ClosedP(p) == ReadFlag(p) \/ ReadLen(p)

Step(p) == Put(p) \/ Meet(p) \/ Recv(p) \/ Close(p) \/ ClosedP(p) \/ Return(p)

Next == \E p \in Proc : Call(p) \/ Step(p)

Spec == Init /\ [][Next]_vars

\* Go runs every runnable goroutine; that a call is made at all is up to the
\* program, and nothing is assumed of it.
FairSpec == Spec /\ \A p \in Proc : WF_vars(Step(p))
------------------------------------------------------------------------------
Datum == Val \cup Outcome \cup {NoVal}
Statement == {"unborn", "idle", "rlock", "check", "select", "recv", "cas", "done", "lock",
              "close", "flag", "len", "ret", "dead"}
Primitive == {"none", "send", "trySend", "spawn", "recv", "close", "closed?"}
Selection == [chans : Seq(Chan), cases : Seq(Chan), index : Seq(Nat),
              timeoutCase : Nat, mode : Modes]
Answer == [tag : {"none", "t", "nil", "error", "got", "index out of range"},
           val : Datum, at : Nat]

BufOK  == buf \in [Chan -> Seq(Datum)] /\ \A c \in Chan : Len(buf[c]) <= Cap[c]
FlagOK == /\ chClosed \in [Chan -> BOOLEAN] /\ closed \in [Chan -> BOOLEAN]
          /\ done \in [Chan -> BOOLEAN]
LockOK == readers \in [Chan -> SUBSET Proc] /\ wlock \in [Chan -> Proc \cup {NoProc}]
CallOK == /\ pc \in [Proc -> Statement] /\ op \in [Proc -> Primitive]
          /\ ch \in [Proc -> Chan] /\ val \in [Proc -> Datum]
SelOK  == sel \in [Proc -> Selection]
RetOK  == ret \in [Proc -> Answer]

\* Types of the variables; no channel ever holds more than its capacity.
TypeOK == BufOK /\ FlagOK /\ LockOK /\ CallOK /\ SelOK /\ RetOK

\* chanPut never sends on a closed Go channel (which would panic): whoever has
\* reached its select does so on a channel chan-close has not closed yet.  (And
\* the variables have their types: no channel holds more than its capacity.)
SelectsOpen == \A p \in Proc : pc[p] = "select" => ~chClosed[ch[p]]
NoSendOnClosed == TypeOK /\ SelectsOpen

\* chan-select keeps its books while it drops finished channels: every case
\* is the channel its index names in the caller's list, and timeoutCase is the
\* case after the last channel, if there is a timeout at all.
SelectIndexSound ==
  \A p \in Proc : pc[p] = "recv" =>
    /\ Len(sel[p].cases) = Len(sel[p].index)
    /\ \A k \in DOMAIN sel[p].index :
         /\ sel[p].index[k] \in DOMAIN sel[p].chans
         /\ sel[p].cases[k] = sel[p].chans[sel[p].index[k]]
    /\ sel[p].timeoutCase =
         IF sel[p].mode = "block" THEN 0 ELSE Len(sel[p].cases) + 1

\* The inductive invariant behind both: a sender between the check and the
\* end of its select holds the read lock, and the flag is set before `done`
\* and the Go channel are closed.
SenderHoldsLock ==
  \A p \in Proc : pc[p] \in {"check", "select"} => p \in readers[ch[p]]
FlagComesFirst ==
  /\ \A c \in Chan : done[c] \/ chClosed[c] => closed[c]
  /\ \A p \in Proc : pc[p] \in {"done", "lock", "close"} => closed[ch[p]]
IInv == TypeOK /\ SelectIndexSound /\ SenderHoldsLock /\ FlagComesFirst /\ SelectsOpen

\* Every channel p's call is about has been marked closed.
OnClosed(p) ==
  IF op[p] = "recv" THEN \A i \in DOMAIN sel[p].chans : closed[sel[p].chans[i]]
                    ELSE closed[ch[p]]

\* Closing a channel ends every call on it, of blocked senders, of receivers
\* and chan-close itself: nobody hangs on a closed channel.
ClosingEndsCalls ==
  \A p \in Proc :
    (op[p] # "none" /\ OnClosed(p)) ~> (op[p] = "none")

\* A goroutine started by spawn never hangs on delivering its message,
\* whatever the program does with the result channel.
SpawnEnds == \A g \in Goroutine : (op[g] = "spawn") ~> (pc[g] = "dead")

\* What the refinement below needs besides: a goroutine is at a statement of
\* the primitive it is in, and chan-select has dropped finished channels only.
StatementOfOp ==
  \A p \in Proc :
    /\ pc[p] \in {"rlock", "check", "select"} => op[p] \in Sending
    /\ pc[p] = "recv" => op[p] = "recv"
    /\ pc[p] \in {"cas", "done", "lock", "close"} => op[p] = "close"
    /\ pc[p] \in {"flag", "len"} => op[p] = "closed?"
    /\ pc[p] = "len" => closed[ch[p]]
DroppedFinished ==
  \A p \in Proc : pc[p] = "recv" =>
    \A i \in DOMAIN sel[p].chans :
      \/ \E k \in DOMAIN sel[p].index : sel[p].index[k] = i
      \/ chClosed[sel[p].chans[i]] /\ buf[sel[p].chans[i]] = <<>>
RInv == IInv /\ StatementOfOp /\ DroppedFinished

\* The primitives implement a channel whose operations are indivisible.
Phase(c) == IF chClosed[c] THEN "closed" ELSE IF closed[c] THEN "closing" ELSE "open"
Act(l) ==
  IF l \in {"unborn", "idle", "dead"} THEN "idle"
  ELSE IF l \in {"done", "lock", "close"} THEN "closing"
  ELSE IF l = "ret" THEN "ret" ELSE "busy"
Atomic == INSTANCE ClosableChannel WITH
            Val <- Val \cup Outcome,
            queue <- buf,
            phase <- [c \in Chan |-> Phase(c)],
            act <- [p \in Proc |-> Act(pc[p])],
            chans <- [p \in Proc |-> sel[p].chans],
            mode <- [p \in Proc |-> sel[p].mode]
ImplementsAtomic == Atomic!Spec
================================================================================
