---------------------------- MODULE Channels_proofs ----------------------------
(****************************************************************************)
(* Proofs about Channels, for any number of goroutines and channels.        *)
(****************************************************************************)
EXTENDS Channels, TLAPS, SequenceTheorems

\* Taking the k-th element out of a sequence leaves a sequence one shorter:
\* the elements before it keep their place, those after it move up.
LEMMA WithoutLemma ==
  ASSUME NEW S, NEW s \in Seq(S), NEW k \in DOMAIN s
  PROVE  /\ Without(s, k) \in Seq(S)
         /\ Len(Without(s, k)) = Len(s) - 1
         /\ \A j \in 1..(Len(s) - 1) :
              Without(s, k)[j] = IF j < k THEN s[j] ELSE s[j + 1]
<1>1. Len(s) \in Nat /\ DOMAIN s = 1..Len(s) /\ k \in 1..Len(s)
  OBVIOUS
<1>2. Len(s) - 1 \in Nat
  BY <1>1
<1>3. \A j \in 1..(Len(s) - 1) : (IF j < k THEN s[j] ELSE s[j + 1]) \in S
  BY <1>1
<1>4. Without(s, k) \in [1..(Len(s) - 1) -> S]
  BY <1>3 DEF Without
<1>5. Without(s, k) \in Seq(S)
  BY <1>2, <1>4
<1>6. Len(Without(s, k)) = Len(s) - 1
  BY <1>2, <1>4, <1>5, LenProperties DEF Without
<1> QED
  BY <1>5, <1>6 DEF Without
------------------------------------------------------------------------------
\* Before the first call every variable has its type.
LEMMA InitTypeOK == Init => TypeOK
<1> SUFFICES ASSUME Init PROVE TypeOK
  OBVIOUS
<1>1. AnyChan \in Chan
  BY ConstantAssumption DEF AnyChan
<1>2. BufOK
  BY ConstantAssumption DEF Init, BufOK
<1>3. FlagOK /\ LockOK
  BY DEF Init, FlagOK, LockOK
<1>4. CallOK
  BY <1>1 DEF Datum, Init, CallOK, Statement, Primitive
<1>5. SelOK
  BY DEF Init, SelOK, NoSel, Selection, Modes
<1>6. RetOK
  BY DEF Datum, Init, RetOK, Answer, Result
<1> QED
  BY <1>2, <1>3, <1>4, <1>5, <1>6 DEF TypeOK

\* Moving on to another statement keeps the types of a call.
LEMMA GotoOK ==
  ASSUME CallOK, NEW p \in Proc, NEW l \in Statement, Goto(p, l), UNCHANGED args
  PROVE  CallOK'
BY DEF CallOK, Goto, args

\* Finishing with a result keeps the types of a call and of the results.
LEMMA FinishOK ==
  ASSUME CallOK, RetOK, NEW p \in Proc, NEW r \in Answer, Finish(p, r), UNCHANGED args
  PROVE  CallOK' /\ RetOK'
<1>1. CallOK'
  BY DEF CallOK, Finish, Goto, args, Statement
<1>2. RetOK'
  BY DEF RetOK, Finish
<1> QED
  BY <1>1, <1>2

\* Entering a primitive keeps every type but that of the cases.
LEMMA EnterOK ==
  ASSUME TypeOK, NEW p \in Proc, NEW o \in Primitive, NEW c \in Chan,
         NEW v \in Datum, NEW l \in Statement, Enter(p, o, c, v, l)
  PROVE  BufOK' /\ FlagOK' /\ LockOK' /\ CallOK' /\ RetOK'
<1>1. BufOK' /\ FlagOK' /\ LockOK' /\ RetOK'
  BY DEF TypeOK, BufOK, FlagOK, LockOK, RetOK, Enter, sync
<1>2. CallOK'
  BY DEF TypeOK, CallOK, Enter, Goto
<1> QED
  BY <1>1, <1>2

\* The fixed results are answers.
LEMMA ResultOK ==
  ASSUME NEW t \in {"none", "t", "nil", "error", "index out of range"}
  PROVE  Result(t) \in Answer
BY DEF Datum, Result, Answer

\* Every statement keeps the types.
LEMMA NextTypeOK == TypeOK /\ SelectIndexSound /\ [Next]_vars => TypeOK'
<1> SUFFICES ASSUME TypeOK, SelectIndexSound, [Next]_vars PROVE TypeOK'
  OBVIOUS
<1>1. ASSUME NEW p \in Proc, CallSend(p) PROVE TypeOK'
  <2>1. PICK o \in {"send", "trySend"}, c \in Chan, v \in Val :
          Enter(p, o, c, v, "rlock") /\ UNCHANGED sel
    BY <1>1 DEF CallSend
  <2>2. BufOK' /\ FlagOK' /\ LockOK' /\ CallOK' /\ RetOK'
    BY <2>1, EnterOK DEF Primitive, Datum, Statement
  <2> QED
    BY <2>1, <2>2 DEF TypeOK, SelOK
<1>2. ASSUME NEW p \in Proc, CallRecv(p) PROVE TypeOK'
  <2>1. PICK cs \in CaseLists, m \in Modes :
          /\ Enter(p, "recv", ch[p], NoVal, "recv")
          /\ sel' = [sel EXCEPT ![p] =
               [chans |-> cs, cases |-> cs, index |-> [i \in DOMAIN cs |-> i],
                timeoutCase |-> IF m = "block" THEN 0 ELSE Len(cs) + 1, mode |-> m]]
    BY <1>2 DEF CallRecv
  <2>2. cs \in Seq(Chan) /\ Len(cs) \in Nat /\ DOMAIN cs = 1..Len(cs)
    BY <2>1, ConstantAssumption
  <2>3. [i \in DOMAIN cs |-> i] \in Seq(Nat)
    BY <2>2
  <2> DEFINE s == [chans |-> cs, cases |-> cs, index |-> [i \in DOMAIN cs |-> i],
                   timeoutCase |-> IF m = "block" THEN 0 ELSE Len(cs) + 1, mode |-> m]
  <2>4. SelOK'
    <3>1. s \in Selection
      BY <2>2, <2>3 DEF Selection
    <3> HIDE DEF s
    <3> QED
      BY <2>1, <3>1 DEF s, TypeOK, SelOK
  <2>5. ch[p] \in Chan
    BY DEF TypeOK, CallOK
  <2>6. BufOK' /\ FlagOK' /\ LockOK' /\ CallOK' /\ RetOK'
    BY <2>1, <2>5, EnterOK DEF Datum, Primitive, Statement
  <2> QED
    BY <2>4, <2>6 DEF TypeOK
<1>3. ASSUME NEW p \in Proc, CallClose(p) PROVE TypeOK'
  <2>1. PICK c \in Chan : Enter(p, "close", c, NoVal, "cas") /\ UNCHANGED sel
    BY <1>3 DEF CallClose
  <2>2. BufOK' /\ FlagOK' /\ LockOK' /\ CallOK' /\ RetOK'
    BY <2>1, EnterOK DEF Datum, Primitive, Statement
  <2> QED
    BY <2>1, <2>2 DEF TypeOK, SelOK
<1>4. ASSUME NEW p \in Proc, CallClosedP(p) PROVE TypeOK'
  <2>1. PICK c \in Chan : Enter(p, "closed?", c, NoVal, "flag") /\ UNCHANGED sel
    BY <1>4 DEF CallClosedP
  <2>2. BufOK' /\ FlagOK' /\ LockOK' /\ CallOK' /\ RetOK'
    BY <2>1, EnterOK DEF Datum, Primitive, Statement
  <2> QED
    BY <2>1, <2>2 DEF TypeOK, SelOK
<1>5. ASSUME NEW p \in Proc, Spawn(p) PROVE TypeOK'
  <2>1. CallOK'
    BY <1>5, GotoOK DEF Spawn, Statement, TypeOK
  <2> QED
    BY <1>5, <2>1 DEF Spawn, TypeOK, BufOK, FlagOK, LockOK, SelOK, RetOK, sync
<1>6. ASSUME NEW p \in Proc, EndOfSpawned(p) PROVE TypeOK'
  <2>1. PICK v \in Outcome : Enter(p, "spawn", ResultChan[p], v, "rlock") /\ UNCHANGED sel
    BY <1>6 DEF EndOfSpawned
  <2>2. ResultChan[p] \in Chan
    BY <1>6, ConstantAssumption DEF EndOfSpawned
  <2>3. BufOK' /\ FlagOK' /\ LockOK' /\ CallOK' /\ RetOK'
    BY <2>1, <2>2, EnterOK DEF Primitive, Datum, Statement
  <2> QED
    BY <2>1, <2>3 DEF TypeOK, SelOK
<1>7. ASSUME NEW p \in Proc, RLock(p) PROVE TypeOK'
  <2>1. CallOK'
    BY <1>7, GotoOK DEF RLock, Statement, TypeOK
  <2>2. LockOK'
    BY <1>7 DEF RLock, TypeOK, LockOK, CallOK
  <2> QED
    BY <1>7, <2>1, <2>2 DEF RLock, TypeOK, BufOK, FlagOK, SelOK, RetOK
<1>8. ASSUME NEW p \in Proc, CheckClosed(p) PROVE TypeOK'
  <2>1. CallOK' /\ RetOK'
    <3>1. CASE Finish(p, Result("error"))
      BY <1>8, <3>1, FinishOK, ResultOK DEF CheckClosed, TypeOK
    <3>2. CASE Goto(p, "select") /\ UNCHANGED ret
      BY <1>8, <3>2, GotoOK DEF CheckClosed, Statement, TypeOK, RetOK
    <3> QED
      BY <1>8, <3>1, <3>2 DEF CheckClosed
  <2> QED
    BY <1>8, <2>1 DEF CheckClosed, TypeOK, BufOK, FlagOK, LockOK, SelOK, sync
<1>9. ASSUME NEW p \in Proc, SendToBuffer(p) PROVE TypeOK'
  <2>1. CallOK' /\ RetOK'
    BY <1>9, FinishOK, ResultOK DEF SendToBuffer, TypeOK
  <2>2. ch[p] \in Chan /\ val[p] \in Datum
    BY DEF TypeOK, CallOK
  <2>3. BufOK'
    <3>1. buf[ch[p]] \in Seq(Datum) /\ Len(buf[ch[p]]) \in Nat /\ Cap[ch[p]] \in Nat
      BY <2>2, ConstantAssumption DEF TypeOK, BufOK
    <3> DEFINE b == Append(buf[ch[p]], val[p])
    <3>2. b \in Seq(Datum) /\ Len(b) = Len(buf[ch[p]]) + 1
      BY <2>2, <3>1
    <3>3. Len(b) <= Cap[ch[p]]
      BY <1>9, <3>1, <3>2 DEF SendToBuffer
    <3>4. buf' = [buf EXCEPT ![ch[p]] = b]
      BY <1>9 DEF SendToBuffer
    <3> HIDE DEF b
    <3> QED
      BY <2>2, <3>2, <3>3, <3>4 DEF TypeOK, BufOK
  <2> QED
    BY <1>9, <2>1, <2>3 DEF SendToBuffer, TypeOK, FlagOK, LockOK, SelOK, sync
<1>10. ASSUME NEW p \in Proc, SendSeesDone(p) PROVE TypeOK'
  <2>1. CallOK' /\ RetOK'
    BY <1>10, FinishOK, ResultOK DEF SendSeesDone, TypeOK
  <2> QED
    BY <1>10, <2>1 DEF SendSeesDone, TypeOK, BufOK, FlagOK, LockOK, SelOK, sync
<1>11. ASSUME NEW p \in Proc, SendDefault(p) PROVE TypeOK'
  <2>1. CallOK' /\ RetOK'
    BY <1>11, FinishOK, ResultOK DEF SendDefault, TypeOK
  <2> QED
    BY <1>11, <2>1 DEF SendDefault, TypeOK, BufOK, FlagOK, LockOK, SelOK, sync
<1>12. ASSUME NEW p \in Proc, NEW q \in Proc, NEW k \in DOMAIN sel[q].cases, Rendezvous(p, q, k)
       PROVE  TypeOK'
  <2>1. sel[q] \in Selection
    BY DEF TypeOK, SelOK
  <2>2. Len(sel[q].cases) = Len(sel[q].index)
    BY <1>12 DEF Rendezvous, SelectIndexSound
  <2>3. sel[q].index[k] \in Nat
    BY <2>1, <2>2 DEF Selection
  <2>4. Got(val[p], sel[q].index[k]) \in Answer
    BY <2>3 DEF TypeOK, CallOK, Got, Answer
  <2>5. RetOK'
    BY <1>12, <2>4, ResultOK DEF Rendezvous, TypeOK, RetOK
  <2>6. CallOK'
    BY <1>12 DEF Rendezvous, TypeOK, CallOK, args, Statement
  <2> QED
    BY <1>12, <2>5, <2>6 DEF Rendezvous, TypeOK, BufOK, FlagOK, LockOK, SelOK, sync
<1>13. ASSUME NEW p \in Proc, NEW k \in DOMAIN sel[p].cases, RecvFromBuffer(p, k)
       PROVE  TypeOK'
  <2> DEFINE c == sel[p].cases[k]
  <2>1. sel[p] \in Selection
    BY DEF TypeOK, SelOK
  <2>2. c \in Chan
    BY <2>1 DEF Selection
  <2>3. Len(sel[p].cases) = Len(sel[p].index)
    BY <1>13 DEF RecvFromBuffer, SelectIndexSound
  <2>4. sel[p].index[k] \in Nat
    BY <2>1, <2>3 DEF Selection
  <2>5. buf[c] # <<>> /\ buf' = [buf EXCEPT ![c] = Tail(buf[c])]
    BY <1>13 DEF RecvFromBuffer
  <2>6. Finish(p, Got(Head(buf[c]), sel[p].index[k]))
    BY <1>13 DEF RecvFromBuffer
  <2> HIDE DEF c
  <2>7. buf[c] \in Seq(Datum)
    BY <2>2 DEF TypeOK, BufOK
  <2>8. Head(buf[c]) \in Datum /\ Tail(buf[c]) \in Seq(Datum)
        /\ Len(Tail(buf[c])) = Len(buf[c]) - 1 /\ Len(buf[c]) \in Nat
    BY <2>5, <2>7
  <2>9. BufOK'
    <3>1. Cap[c] \in Nat /\ Len(buf[c]) <= Cap[c]
      BY <2>2, ConstantAssumption DEF TypeOK, BufOK
    <3> DEFINE b == Tail(buf[c])
    <3>2. b \in Seq(Datum) /\ Len(b) <= Cap[c]
      BY <2>8, <3>1
    <3>3. buf' = [buf EXCEPT ![c] = b]
      BY <2>5
    <3> HIDE DEF b
    <3> QED
      BY <2>2, <3>2, <3>3 DEF TypeOK, BufOK
  <2>10. Got(Head(buf[c]), sel[p].index[k]) \in Answer
    BY <2>4, <2>8 DEF Got, Answer
  <2>11. CallOK' /\ RetOK'
    BY <1>13, <2>6, <2>10, FinishOK DEF RecvFromBuffer, TypeOK
  <2> QED
    BY <1>13, <2>9, <2>11 DEF RecvFromBuffer, TypeOK, FlagOK, LockOK, SelOK, sync
<1>14. ASSUME NEW p \in Proc, NEW k \in DOMAIN sel[p].cases, RecvDropsClosed(p, k)
       PROVE  TypeOK'
  <2>1. sel[p] \in Selection
    BY DEF TypeOK, SelOK
  <2>2. Len(sel[p].cases) = Len(sel[p].index) /\ sel[p].timeoutCase \in {0, Len(sel[p].cases) + 1}
    BY <1>14 DEF RecvDropsClosed, SelectIndexSound
  <2>3. k \in DOMAIN sel[p].index /\ Len(sel[p].cases) \in Nat /\ Len(sel[p].cases) >= 1
    BY <2>1, <2>2 DEF Selection
  <2> DEFINE s == [sel[p] EXCEPT !.cases = Without(@, k), !.index = Without(@, k),
                                 !.timeoutCase = IF @ = 0 THEN 0 ELSE @ - 1]
  <2>4. s \in Selection
    <3>1. Without(sel[p].cases, k) \in Seq(Chan) /\ Without(sel[p].index, k) \in Seq(Nat)
      BY <2>1, <2>3, WithoutLemma DEF Selection
    <3>2. (IF sel[p].timeoutCase = 0 THEN 0 ELSE sel[p].timeoutCase - 1) \in Nat
      BY <2>2, <2>3
    <3> QED
      BY <2>1, <3>1, <3>2 DEF Selection
  <2>5. sel' = [sel EXCEPT ![p] = s]
    BY <1>14 DEF RecvDropsClosed, TypeOK, SelOK
  <2> HIDE DEF s
  <2>6. SelOK'
    BY <2>4, <2>5 DEF TypeOK, SelOK
  <2>7. CallOK' /\ RetOK'
    <3>1. CASE Finish(p, Result("none"))
      BY <1>14, <3>1, FinishOK, ResultOK DEF RecvDropsClosed, TypeOK
    <3>2. CASE UNCHANGED <<pc, ret>>
      BY <1>14, <3>2 DEF RecvDropsClosed, TypeOK, CallOK, RetOK, args
    <3> QED
      BY <1>14, <3>1, <3>2 DEF RecvDropsClosed
  <2> QED
    BY <1>14, <2>6, <2>7 DEF RecvDropsClosed, TypeOK, BufOK, FlagOK, LockOK, sync
<1>15. ASSUME NEW p \in Proc, RecvGivesUp(p) PROVE TypeOK'
  <2>1. CallOK' /\ RetOK'
    BY <1>15, FinishOK, ResultOK DEF RecvGivesUp, TypeOK
  <2> QED
    BY <1>15, <2>1 DEF RecvGivesUp, TypeOK, BufOK, FlagOK, LockOK, SelOK, sync
<1>16. ASSUME NEW p \in Proc, CloseFlag(p) PROVE TypeOK'
  <2>1. CallOK' /\ RetOK'
    <3>1. CASE Finish(p, Result("error"))
      BY <1>16, <3>1, FinishOK, ResultOK DEF CloseFlag, TypeOK
    <3>2. CASE Goto(p, "done") /\ UNCHANGED ret
      BY <1>16, <3>2, GotoOK DEF CloseFlag, Statement, TypeOK, RetOK
    <3> QED
      BY <1>16, <3>1, <3>2 DEF CloseFlag
  <2>2. FlagOK'
    BY <1>16 DEF CloseFlag, TypeOK, FlagOK
  <2> QED
    BY <1>16, <2>1, <2>2 DEF CloseFlag, TypeOK, BufOK, LockOK, SelOK
<1>17. ASSUME NEW p \in Proc, CloseDone(p) PROVE TypeOK'
  <2>1. CallOK'
    BY <1>17, GotoOK DEF CloseDone, Statement, TypeOK
  <2>2. FlagOK'
    BY <1>17 DEF CloseDone, TypeOK, FlagOK
  <2> QED
    BY <1>17, <2>1, <2>2 DEF CloseDone, TypeOK, BufOK, LockOK, SelOK, RetOK
<1>18. ASSUME NEW p \in Proc, CloseLock(p) PROVE TypeOK'
  <2>1. CallOK'
    BY <1>18, GotoOK DEF CloseLock, Statement, TypeOK
  <2>2. LockOK'
    BY <1>18 DEF CloseLock, TypeOK, LockOK
  <2> QED
    BY <1>18, <2>1, <2>2 DEF CloseLock, TypeOK, BufOK, FlagOK, SelOK, RetOK
<1>19. ASSUME NEW p \in Proc, CloseCh(p) PROVE TypeOK'
  <2>1. CallOK' /\ RetOK'
    BY <1>19, FinishOK, ResultOK DEF CloseCh, TypeOK
  <2>2. FlagOK'
    BY <1>19 DEF CloseCh, TypeOK, FlagOK, sync
  <2> QED
    BY <1>19, <2>1, <2>2 DEF CloseCh, TypeOK, BufOK, LockOK, SelOK, sync
<1>20. ASSUME NEW p \in Proc, ReadFlag(p) PROVE TypeOK'
  <2>1. CallOK' /\ RetOK'
    <3>1. CASE Finish(p, Result("nil"))
      BY <1>20, <3>1, FinishOK, ResultOK DEF ReadFlag, TypeOK
    <3>2. CASE Goto(p, "len") /\ UNCHANGED ret
      BY <1>20, <3>2, GotoOK DEF ReadFlag, Statement, TypeOK, RetOK
    <3> QED
      BY <1>20, <3>1, <3>2 DEF ReadFlag
  <2> QED
    BY <1>20, <2>1 DEF ReadFlag, TypeOK, BufOK, FlagOK, LockOK, SelOK, sync
<1>21. ASSUME NEW p \in Proc, ReadLen(p) PROVE TypeOK'
  <2>1. CallOK' /\ RetOK'
    BY <1>21, FinishOK, ResultOK DEF ReadLen, TypeOK
  <2> QED
    BY <1>21, <2>1 DEF ReadLen, TypeOK, BufOK, FlagOK, LockOK, SelOK, sync
<1>22. ASSUME NEW p \in Proc, Return(p) PROVE TypeOK'
  <2>1. AnyChan \in Chan
    BY ConstantAssumption DEF AnyChan
  <2>2. CallOK'
    BY <1>22, <2>1 DEF Return, Goto, TypeOK, CallOK, Statement, Primitive, Datum
  <2>3. LockOK'
    BY <1>22 DEF Return, TypeOK, LockOK
  <2>4. NoSel \in Selection
    BY DEF NoSel, Selection, Modes
  <2>5. SelOK'
    BY <1>22, <2>4 DEF Return, TypeOK, SelOK
  <2>6. RetOK'
    BY <1>22, ResultOK DEF Return, TypeOK, RetOK
  <2> QED
    BY <1>22, <2>2, <2>3, <2>5, <2>6 DEF Return, TypeOK, BufOK, FlagOK
<1>23. CASE UNCHANGED vars
  BY <1>23 DEF vars, TypeOK, BufOK, FlagOK, LockOK, CallOK, SelOK, RetOK
<1> QED
  BY <1>1, <1>2, <1>3, <1>4, <1>5, <1>6, <1>7, <1>8, <1>9, <1>10, <1>11, <1>12, <1>13,
     <1>14, <1>15, <1>16, <1>17, <1>18, <1>19, <1>20, <1>21, <1>22, <1>23
     DEF Next, Call, Step, Put, Meet, Recv, Close, ClosedP
------------------------------------------------------------------------------
\* The inductive invariant holds before the first call: no call is under way, so
\* no lock is held and no flag is set.
LEMMA InitIInv == Init => IInv
<1> SUFFICES ASSUME Init PROVE IInv
  OBVIOUS
<1>1. \A p \in Proc : pc[p] \in {"unborn", "idle"}
  BY DEF Init
<1>2. SelectIndexSound /\ SenderHoldsLock /\ SelectsOpen
  BY <1>1 DEF SelectIndexSound, SenderHoldsLock, SelectsOpen
<1>3. FlagComesFirst
  BY <1>1 DEF Init, FlagComesFirst
<1> QED
  BY <1>2, <1>3, InitTypeOK DEF IInv

\* Only entering a receive and dropping a finished channel touch the cases of a
\* receiver; both keep SelectIndexSound.
LEMMA NextSelectIndexSound == TypeOK /\ SelectIndexSound /\ [Next]_vars => SelectIndexSound'
<1> SUFFICES ASSUME TypeOK, SelectIndexSound, [Next]_vars PROVE SelectIndexSound'
  OBVIOUS
<1>0. pc \in [Proc -> Statement] /\ sel \in [Proc -> Selection]
  BY DEF TypeOK, CallOK, SelOK
<1>1. ASSUME NEW p \in Proc, CallRecv(p) PROVE SelectIndexSound'
  <2>1. PICK cs \in CaseLists, m \in Modes :
          /\ Enter(p, "recv", ch[p], NoVal, "recv")
          /\ sel' = [sel EXCEPT ![p] =
               [chans |-> cs, cases |-> cs, index |-> [i \in DOMAIN cs |-> i],
                timeoutCase |-> IF m = "block" THEN 0 ELSE Len(cs) + 1, mode |-> m]]
    BY <1>1 DEF CallRecv
  <2>2. cs \in Seq(Chan) /\ Len(cs) \in Nat /\ DOMAIN cs = 1..Len(cs)
    BY <2>1, ConstantAssumption
  <2> DEFINE ix == [i \in DOMAIN cs |-> i]
  <2>3. ix \in Seq(Nat) /\ Len(ix) = Len(cs) /\ DOMAIN ix = DOMAIN cs
        /\ \A i \in DOMAIN ix : ix[i] = i
    BY <2>2
  <2>4. sel' = [sel EXCEPT ![p] =
               [chans |-> cs, cases |-> cs, index |-> ix,
                timeoutCase |-> IF m = "block" THEN 0 ELSE Len(cs) + 1, mode |-> m]]
    BY <2>1
  <2>5. \A q \in Proc : q # p => pc'[q] = pc[q]
    BY <2>1, <1>0 DEF Enter, Goto
  <2> HIDE DEF ix
  <2> QED
    BY <2>2, <2>3, <2>4, <2>5, <1>0 DEF SelectIndexSound
<1>2. ASSUME NEW p \in Proc, NEW k \in DOMAIN sel[p].cases, RecvDropsClosed(p, k)
      PROVE  SelectIndexSound'
  <2> DEFINE old == sel[p]
  <2>1. /\ old \in Selection
        /\ pc[p] = "recv"
        /\ Len(old.cases) = Len(old.index)
        /\ old.timeoutCase = IF old.mode = "block" THEN 0 ELSE Len(old.cases) + 1
        /\ \A j \in DOMAIN old.index :
             old.index[j] \in DOMAIN old.chans /\ old.cases[j] = old.chans[old.index[j]]
    BY <1>0, <1>2 DEF RecvDropsClosed, SelectIndexSound
  <2>2. /\ Len(old.cases) \in Nat /\ k \in 1..Len(old.cases)
        /\ DOMAIN old.index = 1..Len(old.cases)
    BY <2>1 DEF Selection
  <2> DEFINE cs == Without(old.cases, k)
             ix == Without(old.index, k)
  <2>3. /\ cs \in Seq(Chan) /\ ix \in Seq(Nat)
        /\ Len(cs) = Len(old.cases) - 1 /\ Len(ix) = Len(old.cases) - 1
        /\ \A j \in 1..(Len(old.cases) - 1) :
             /\ cs[j] = IF j < k THEN old.cases[j] ELSE old.cases[j + 1]
             /\ ix[j] = IF j < k THEN old.index[j] ELSE old.index[j + 1]
    <3>1. old.cases \in Seq(Chan) /\ old.index \in Seq(Nat)
      BY <2>1 DEF Selection
    <3>2. k \in DOMAIN old.cases /\ k \in DOMAIN old.index
      BY <2>2, <3>1
    <3> HIDE DEF old
    <3>3. /\ cs \in Seq(Chan) /\ Len(cs) = Len(old.cases) - 1
          /\ \A j \in 1..(Len(old.cases) - 1) :
               cs[j] = IF j < k THEN old.cases[j] ELSE old.cases[j + 1]
      BY <3>1, <3>2, WithoutLemma
    <3>4. /\ ix \in Seq(Nat) /\ Len(ix) = Len(old.index) - 1
          /\ \A j \in 1..(Len(old.index) - 1) :
               ix[j] = IF j < k THEN old.index[j] ELSE old.index[j + 1]
      BY <3>1, <3>2, WithoutLemma
    <3> HIDE DEF cs, ix
    <3> QED
      BY <2>1, <3>3, <3>4
  <2> HIDE DEF cs, ix, old
  <2>4. DOMAIN ix = 1..(Len(old.cases) - 1)
    BY <2>2, <2>3
  <2>5. \A j \in DOMAIN ix : ix[j] \in DOMAIN old.chans /\ cs[j] = old.chans[ix[j]]
    <3>1. SUFFICES ASSUME NEW j \in 1..(Len(old.cases) - 1)
                   PROVE  ix[j] \in DOMAIN old.chans /\ cs[j] = old.chans[ix[j]]
      BY <2>4
    <3>2. CASE j < k
      <4>1. j \in DOMAIN old.index
        BY <2>2
      <4> QED
        BY <2>1, <2>3, <3>2, <4>1
    <3>3. CASE ~(j < k)
      <4>1. j + 1 \in DOMAIN old.index
        BY <2>2
      <4> QED
        BY <2>1, <2>3, <3>3, <4>1
    <3> QED
      BY <3>2, <3>3
  <2>6. sel' = [sel EXCEPT ![p] = [old EXCEPT !.cases = cs, !.index = ix,
                 !.timeoutCase = IF old.timeoutCase = 0 THEN 0 ELSE old.timeoutCase - 1]]
    BY <1>2, <1>0 DEF RecvDropsClosed, cs, ix, old
  <2>7. \A q \in Proc : q # p => pc'[q] = pc[q]
    BY <1>0, <1>2 DEF RecvDropsClosed, Finish, Goto
  <2>8. (IF old.timeoutCase = 0 THEN 0 ELSE old.timeoutCase - 1)
          = IF old.mode = "block" THEN 0 ELSE Len(cs) + 1
    BY <2>1, <2>2, <2>3
  <2>9. /\ sel'[p].cases = cs /\ sel'[p].index = ix /\ sel'[p].chans = old.chans
        /\ sel'[p].mode = old.mode
        /\ sel'[p].timeoutCase = IF old.timeoutCase = 0 THEN 0 ELSE old.timeoutCase - 1
        /\ \A q \in Proc : q # p => sel'[q] = sel[q]
    BY <2>1, <2>6, <1>0 DEF Selection
  <2>10. SUFFICES ASSUME NEW q \in Proc, pc'[q] = "recv"
                  PROVE  /\ Len(sel'[q].cases) = Len(sel'[q].index)
                         /\ \A j \in DOMAIN sel'[q].index :
                              /\ sel'[q].index[j] \in DOMAIN sel'[q].chans
                              /\ sel'[q].cases[j] = sel'[q].chans[sel'[q].index[j]]
                         /\ sel'[q].timeoutCase =
                              IF sel'[q].mode = "block" THEN 0 ELSE Len(sel'[q].cases) + 1
    BY DEF SelectIndexSound
  <2>11. CASE q = p
    BY <2>3, <2>5, <2>8, <2>9, <2>11
  <2>12. CASE q # p
    BY <2>7, <2>9, <2>10, <2>12 DEF SelectIndexSound
  <2> QED
    BY <2>11, <2>12
<1>3. ASSUME NEW p \in Proc, Return(p) PROVE SelectIndexSound'
  <2>1. pc'[p] # "recv" /\ \A q \in Proc : q # p => pc'[q] = pc[q] /\ sel'[q] = sel[q]
    BY <1>0, <1>3 DEF Return, Goto
  <2> QED
    BY <2>1 DEF SelectIndexSound
<1>4. ASSUME UNCHANGED sel, NEW p \in Proc, NEW l \in Statement \ {"recv"}, Goto(p, l)
      PROVE  SelectIndexSound'
  BY <1>0, <1>4 DEF SelectIndexSound, Goto
<1>5. ASSUME NEW p \in Proc,
             \/ CallSend(p) \/ CallClose(p) \/ CallClosedP(p) \/ Spawn(p) \/ EndOfSpawned(p)
             \/ Put(p) \/ Close(p) \/ ClosedP(p) \/ RecvGivesUp(p)
             \/ \E k \in DOMAIN sel[p].cases : RecvFromBuffer(p, k)
      PROVE  SelectIndexSound'
  BY <1>4, <1>5 DEF CallSend, CallClose, CallClosedP, Spawn, EndOfSpawned, Enter, Put, RLock,
     CheckClosed, SendToBuffer, SendSeesDone, SendDefault, Close, CloseFlag, CloseDone, CloseLock,
     CloseCh, ClosedP, ReadFlag, ReadLen, RecvGivesUp, RecvFromBuffer, Finish, Statement
<1>6. ASSUME NEW p \in Proc, Meet(p) PROVE SelectIndexSound'
  BY <1>0, <1>6 DEF Meet, Rendezvous, SelectIndexSound
<1>7. CASE UNCHANGED vars
  BY <1>7 DEF vars, SelectIndexSound
<1> QED
  BY <1>1, <1>2, <1>3, <1>5, <1>6, <1>7 DEF Next, Call, Step, Recv

\* The lock protocol of chanPut and chan-close: whoever checks the flag and sends
\* holds the read lock, and the flag is set before done and ch are closed.
LEMMA NextLocking ==
  TypeOK /\ SenderHoldsLock /\ FlagComesFirst /\ SelectsOpen /\ [Next]_vars
    => SenderHoldsLock' /\ FlagComesFirst' /\ SelectsOpen'
<1> DEFINE L == SenderHoldsLock /\ FlagComesFirst /\ SelectsOpen
<1> SUFFICES ASSUME TypeOK, L, [Next]_vars PROVE L'
  OBVIOUS
<1>0. /\ pc \in [Proc -> Statement] /\ ch \in [Proc -> Chan]
      /\ readers \in [Chan -> SUBSET Proc]
      /\ closed \in [Chan -> BOOLEAN] /\ done \in [Chan -> BOOLEAN]
      /\ chClosed \in [Chan -> BOOLEAN]
  BY DEF TypeOK, CallOK, LockOK, FlagOK
<1> USE DEF SenderHoldsLock, FlagComesFirst, SelectsOpen
\* A step to a statement outside the protocol leaves the protocol alone.
<1>1. ASSUME NEW p \in Proc,
             NEW l \in Statement \ {"check", "select", "done", "lock", "close"},
             Goto(p, l), \A q \in Proc \ {p} : ch'[q] = ch[q], UNCHANGED <<chClosed, sync>>
      PROVE  L'
  BY <1>0, <1>1 DEF Goto, sync
<1>2. ASSUME NEW p \in Proc,
             \/ CallSend(p) \/ CallRecv(p) \/ CallClose(p) \/ CallClosedP(p) \/ EndOfSpawned(p)
      PROVE  L'
  <2>1. ASSUME NEW o, NEW c, NEW v, NEW l \in {"rlock", "recv", "cas", "flag"},
               Enter(p, o, c, v, l)
        PROVE  L'
    BY <2>1, <1>0, <1>1 DEF Enter, Statement
  <2>2. CASE CallSend(p)
    BY <2>1, <2>2 DEF CallSend
  <2>3. CASE CallRecv(p)
    BY <2>1, <2>3 DEF CallRecv
  <2>4. CASE CallClose(p)
    BY <2>1, <2>4 DEF CallClose
  <2>5. CASE CallClosedP(p)
    BY <2>1, <2>5 DEF CallClosedP
  <2>6. CASE EndOfSpawned(p)
    BY <2>1, <2>6 DEF EndOfSpawned
  <2> QED
    BY <1>2, <2>2, <2>3, <2>4, <2>5, <2>6
<1>3. ASSUME NEW p \in Proc,
             \/ Spawn(p) \/ SendToBuffer(p) \/ SendSeesDone(p) \/ SendDefault(p)
             \/ RecvGivesUp(p) \/ ClosedP(p)
             \/ \E k \in DOMAIN sel[p].cases : RecvFromBuffer(p, k)
      PROVE  L'
  BY <1>0, <1>1, <1>3 DEF Spawn, SendToBuffer, SendSeesDone, SendDefault, RecvGivesUp, ClosedP,
     ReadFlag, ReadLen, RecvFromBuffer, Finish, Statement, args
<1>4. ASSUME NEW p \in Proc, NEW k \in DOMAIN sel[p].cases, RecvDropsClosed(p, k) PROVE L'
  BY <1>0, <1>4 DEF RecvDropsClosed, Finish, Goto, sync, args
<1>5. ASSUME NEW p \in Proc, Meet(p) PROVE L'
  BY <1>0, <1>5 DEF Meet, Rendezvous, sync, args
<1>6. ASSUME NEW p \in Proc, RLock(p) PROVE L'
  BY <1>0, <1>6 DEF RLock, Goto, args
<1>7. ASSUME NEW p \in Proc, CheckClosed(p) PROVE L'
  BY <1>0, <1>7 DEF CheckClosed, Finish, Goto, sync, args
<1>8. ASSUME NEW p \in Proc, CloseFlag(p) PROVE L'
  BY <1>0, <1>8 DEF CloseFlag, Finish, Goto, args
<1>9. ASSUME NEW p \in Proc, CloseDone(p) PROVE L'
  BY <1>0, <1>9 DEF CloseDone, Goto, args
<1>10. ASSUME NEW p \in Proc, CloseLock(p) PROVE L'
  BY <1>0, <1>10 DEF CloseLock, Goto, args
<1>11. ASSUME NEW p \in Proc, CloseCh(p) PROVE L'
  BY <1>0, <1>11 DEF CloseCh, Finish, Goto, sync, args
<1>12. ASSUME NEW p \in Proc, Return(p) PROVE L'
  BY <1>0, <1>12 DEF Return, Goto
<1>13. CASE UNCHANGED vars
  BY <1>13 DEF vars
<1> QED
  BY <1>2, <1>3, <1>4, <1>5, <1>6, <1>7, <1>8, <1>9, <1>10, <1>11, <1>12, <1>13
     DEF Next, Call, Step, Put, Recv, Close
------------------------------------------------------------------------------
\* IInv is inductive: no call of a channel primitive can break the types, the
\* bookkeeping of chan-select or the lock protocol of chanPut and chan-close.
THEOREM Invariance == Spec => []IInv
<1>1. IInv /\ [Next]_vars => IInv'
  BY NextTypeOK, NextSelectIndexSound, NextLocking DEF IInv
<1> QED
  BY <1>1, InitIInv, PTL DEF Spec

\* Every variable keeps its type, and no channel ever holds more than the
\* capacity given to chan-make.
THEOREM TypeCorrect == Spec => []TypeOK
BY Invariance, PTL DEF IInv

\* chanPut never executes a send on a closed Go channel: the primitives
\* cannot panic, however senders and chan-close interleave.
THEOREM SendSafe == Spec => []NoSendOnClosed
BY Invariance, PTL DEF IInv, NoSendOnClosed

\* chan-select always reports the place of the channel it received from and
\* never mistakes a channel for its timeout.
THEOREM SelectSafe == Spec => []SelectIndexSound
BY Invariance, PTL DEF IInv
--------------------------------------------------------------------------------
(* The refinement: the channel primitives take effect in one step each, for *)
(* any number of goroutines, channels and buffers.                          *)

\* The stronger invariant the refinement needs holds before the first call.
LEMMA InitRInv == Init => RInv
<1> SUFFICES ASSUME Init PROVE RInv
  OBVIOUS
<1>1. \A p \in Proc : pc[p] \in {"unborn", "idle"}
  BY DEF Init
<1> QED
  BY <1>1, InitIInv DEF RInv, StatementOfOp, DroppedFinished

\* No statement of goroutine.go leads into another primitive's code: see StatementOfOp.
LEMMA NextStatementOfOp == IInv /\ StatementOfOp /\ [Next]_vars => StatementOfOp'
<1> SUFFICES ASSUME IInv, StatementOfOp, [Next]_vars PROVE StatementOfOp'
  OBVIOUS
<1>0. /\ pc \in [Proc -> Statement] /\ ch \in [Proc -> Chan] /\ op \in [Proc -> Primitive]
      /\ closed \in [Chan -> BOOLEAN]
  BY DEF IInv, TypeOK, CallOK, FlagOK
<1> USE DEF StatementOfOp
<1>1. ASSUME NEW p \in Proc, NEW c, NEW v,
             \/ \E o \in Sending : Enter(p, o, c, v, "rlock")
             \/ Enter(p, "recv", c, v, "recv")
             \/ Enter(p, "close", c, v, "cas")
             \/ Enter(p, "closed?", c, v, "flag")
      PROVE  StatementOfOp'
  BY <1>0, <1>1 DEF Enter, Goto, sync
<1>2. ASSUME NEW p \in Proc, Call(p) PROVE StatementOfOp'
  <2>1. CASE CallSend(p)
    <3>1. PICK o \in {"send", "trySend"}, c \in Chan, v \in Val : Enter(p, o, c, v, "rlock")
      BY <2>1 DEF CallSend
    <3> QED
      BY <3>1, <1>1 DEF Sending
  <2>2. CASE CallRecv(p)
    BY <2>2, <1>1 DEF CallRecv
  <2>3. CASE CallClose(p)
    BY <2>3, <1>1 DEF CallClose
  <2>4. CASE CallClosedP(p)
    BY <2>4, <1>1 DEF CallClosedP
  <2>5. CASE Spawn(p)
    BY <2>5, <1>0 DEF Spawn, Goto, sync, args
  <2>6. CASE EndOfSpawned(p)
    <3>1. PICK v \in Outcome : Enter(p, "spawn", ResultChan[p], v, "rlock")
      BY <2>6 DEF EndOfSpawned
    <3> QED
      BY <3>1, <1>1 DEF Sending
  <2> QED
    BY <1>2, <2>1, <2>2, <2>3, <2>4, <2>5, <2>6 DEF Call
<1>3. ASSUME NEW p \in Proc, Put(p) PROVE StatementOfOp'
  BY <1>0, <1>3 DEF Put, RLock, CheckClosed, SendToBuffer, SendSeesDone, SendDefault,
     Goto, Finish, sync, args
<1>4. ASSUME NEW p \in Proc, Meet(p) PROVE StatementOfOp'
  BY <1>0, <1>4 DEF Meet, Rendezvous, sync, args
<1>5. ASSUME NEW p \in Proc, Recv(p) PROVE StatementOfOp'
  BY <1>0, <1>5 DEF Recv, RecvFromBuffer, RecvDropsClosed, RecvGivesUp, Goto, Finish, sync, args
<1>6. ASSUME NEW p \in Proc, CloseFlag(p) PROVE StatementOfOp'
  BY <1>0, <1>6 DEF CloseFlag, Goto, Finish, args
<1>7. ASSUME NEW p \in Proc, CloseDone(p) \/ CloseLock(p) \/ CloseCh(p) PROVE StatementOfOp'
  BY <1>0, <1>7 DEF CloseDone, CloseLock, CloseCh, Goto, Finish, sync, args
<1>8. ASSUME NEW p \in Proc, ClosedP(p) PROVE StatementOfOp'
  BY <1>0, <1>8 DEF ClosedP, ReadFlag, ReadLen, Goto, Finish, sync, args
<1>9. ASSUME NEW p \in Proc, Return(p) PROVE StatementOfOp'
  BY <1>0, <1>9 DEF Return, Goto
<1>10. CASE UNCHANGED vars
  BY <1>10 DEF vars
<1> QED
  BY <1>2, <1>3, <1>4, <1>5, <1>6, <1>7, <1>8, <1>9, <1>10 DEF Next, Step, Close

\* A finished channel stays finished.
LEMMA FinishedStays ==
  ASSUME IInv, [Next]_vars, NEW c \in Chan, chClosed[c], buf[c] = <<>>
  PROVE  chClosed'[c] /\ buf'[c] = <<>>
<1>0. /\ pc \in [Proc -> Statement] /\ ch \in [Proc -> Chan] /\ chClosed \in [Chan -> BOOLEAN]
      /\ buf \in [Chan -> Seq(Datum)]
  BY DEF IInv, TypeOK, CallOK, FlagOK, BufOK
<1>1. ASSUME NEW p \in Proc, SendToBuffer(p) PROVE chClosed'[c] /\ buf'[c] = <<>>
  BY <1>0, <1>1 DEF SendToBuffer, IInv, SelectsOpen
<1>2. ASSUME NEW p \in Proc, NEW k \in DOMAIN sel[p].cases, RecvFromBuffer(p, k)
      PROVE  chClosed'[c] /\ buf'[c] = <<>>
  BY <1>0, <1>2 DEF RecvFromBuffer
<1>3. ASSUME NEW p \in Proc, CloseCh(p) PROVE chClosed'[c] /\ buf'[c] = <<>>
  BY <1>0, <1>3 DEF CloseCh
<1>4. CASE UNCHANGED <<buf, chClosed>>
  BY <1>4
<1>5. ASSUME NEW p \in Proc, Call(p) PROVE UNCHANGED <<buf, chClosed>>
  BY <1>5 DEF Call, CallSend, CallRecv, CallClose, CallClosedP, Spawn, EndOfSpawned, Enter
<1>6. ASSUME NEW p \in Proc, Step(p) PROVE chClosed'[c] /\ buf'[c] = <<>>
  BY <1>1, <1>2, <1>3, <1>4, <1>6 DEF Step, Put, RLock, CheckClosed, SendSeesDone, SendDefault,
     Meet, Rendezvous, Recv, RecvDropsClosed, RecvGivesUp, Close, CloseFlag, CloseDone, CloseLock,
     ClosedP, ReadFlag, ReadLen, Return
<1> QED
  BY <1>4, <1>5, <1>6 DEF Next, vars

\* chan-select drops only channels that are closed and empty: see DroppedFinished.
LEMMA NextDroppedFinished == IInv /\ DroppedFinished /\ [Next]_vars => DroppedFinished'
<1> SUFFICES ASSUME IInv, DroppedFinished, [Next]_vars,
                    NEW q \in Proc, pc'[q] = "recv", NEW i \in DOMAIN sel'[q].chans
             PROVE  \/ \E k \in DOMAIN sel'[q].index : sel'[q].index[k] = i
                    \/ chClosed'[sel'[q].chans[i]] /\ buf'[sel'[q].chans[i]] = <<>>
  BY DEF DroppedFinished
<1>0. pc \in [Proc -> Statement] /\ sel \in [Proc -> Selection]
  BY DEF IInv, TypeOK, CallOK, SelOK
\* q was receiving before: what it has dropped stays finished.
<1>1. ASSUME pc[q] = "recv", sel'[q].chans = sel[q].chans, sel'[q].index = sel[q].index
      PROVE  \/ \E k \in DOMAIN sel'[q].index : sel'[q].index[k] = i
             \/ chClosed'[sel'[q].chans[i]] /\ buf'[sel'[q].chans[i]] = <<>>
  <2>1. sel[q].chans[i] \in Chan
    BY <1>0, <1>1 DEF Selection
  <2> QED
    BY <1>1, <2>1, FinishedStays DEF DroppedFinished
<1>2. ASSUME NEW k \in DOMAIN sel[q].cases, RecvDropsClosed(q, k)
      PROVE  \/ \E j \in DOMAIN sel'[q].index : sel'[q].index[j] = i
             \/ chClosed'[sel'[q].chans[i]] /\ buf'[sel'[q].chans[i]] = <<>>
  <2> DEFINE old == sel[q].index
             new == Without(old, k)
  <2>1. /\ old \in Seq(Nat) /\ Len(old) \in Nat /\ k \in 1..Len(old) /\ DOMAIN old = 1..Len(old)
        /\ sel[q].cases[k] = sel[q].chans[old[k]] /\ pc[q] = "recv"
    BY <1>0, <1>2 DEF RecvDropsClosed, IInv, SelectIndexSound, Selection
  <2>2. sel'[q].chans = sel[q].chans /\ sel'[q].index = new
    BY <1>0, <1>2 DEF RecvDropsClosed, Selection
  <2>3. sel[q].chans[i] \in Chan
    BY <1>0, <2>2 DEF Selection
  <2>4. CASE i = old[k]
    <3>1. chClosed[sel[q].chans[i]] /\ buf[sel[q].chans[i]] = <<>>
      BY <1>2, <2>1, <2>4 DEF RecvDropsClosed
    <3> QED
      BY <2>2, <2>3, <3>1, FinishedStays
  <2>5. ASSUME NEW j \in DOMAIN old, old[j] = i, i # old[k]
        PROVE  \E l \in DOMAIN sel'[q].index : sel'[q].index[l] = i
    <3>1. k \in DOMAIN old
      BY <2>1
    <3> HIDE DEF old
    <3>2. /\ new \in Seq(Nat) /\ Len(new) = Len(old) - 1
          /\ \A l \in 1..(Len(old) - 1) : new[l] = IF l < k THEN old[l] ELSE old[l + 1]
      BY <2>1, <3>1, WithoutLemma
    <3> HIDE DEF new
    <3>3. DOMAIN new = 1..(Len(old) - 1)
      BY <2>1, <3>2
    <3>4. CASE j < k
      <4>1. j \in DOMAIN new /\ new[j] = i
        BY <2>1, <2>5, <3>2, <3>3, <3>4
      <4> QED
        BY <2>2, <4>1
    <3>5. CASE ~(j < k)
      <4>1. j # k /\ j \in 1..Len(old)
        BY <2>1, <2>5
      <4>2. j - 1 \in 1..(Len(old) - 1) /\ ~(j - 1 < k) /\ (j - 1) + 1 = j
        BY <2>1, <3>5, <4>1
      <4>3. j - 1 \in DOMAIN new /\ new[j - 1] = i
        BY <2>5, <3>2, <3>3, <4>2
      <4> QED
        BY <2>2, <4>3
    <3> QED
      BY <3>4, <3>5
  <2>6. CASE chClosed[sel[q].chans[i]] /\ buf[sel[q].chans[i]] = <<>>
    BY <2>2, <2>3, <2>6, FinishedStays
  <2> HIDE DEF new
  <2>7. i \in DOMAIN sel[q].chans
    BY <2>2
  <2> QED
    BY <2>1, <2>4, <2>5, <2>6, <2>7 DEF DroppedFinished
<1>3. ASSUME CallRecv(q)
      PROVE  \E k \in DOMAIN sel'[q].index : sel'[q].index[k] = i
  <2>1. PICK cs \in CaseLists, m \in Modes :
          sel' = [sel EXCEPT ![q] =
               [chans |-> cs, cases |-> cs, index |-> [j \in DOMAIN cs |-> j],
                timeoutCase |-> IF m = "block" THEN 0 ELSE Len(cs) + 1, mode |-> m]]
    BY <1>3 DEF CallRecv
  <2>2. sel'[q].chans = cs /\ sel'[q].index = [j \in DOMAIN cs |-> j]
    BY <1>0, <2>1
  <2> QED
    BY <2>2
\* All other steps leave q receiving as it was.
<1>4. ASSUME NEW p \in Proc, Call(p), ~(p = q /\ CallRecv(p))
      PROVE  pc[q] = "recv" /\ sel'[q].chans = sel[q].chans /\ sel'[q].index = sel[q].index
  BY <1>0, <1>4 DEF Call, CallSend, CallRecv, CallClose, CallClosedP, Spawn, EndOfSpawned, Enter, Goto
<1>5. ASSUME NEW p \in Proc, Step(p), ~(p = q /\ Recv(p))
      PROVE  pc[q] = "recv" /\ sel'[q].chans = sel[q].chans /\ sel'[q].index = sel[q].index
  <2>1. CASE Put(p) \/ Close(p) \/ ClosedP(p)
    BY <1>0, <2>1 DEF Put, RLock, CheckClosed, SendToBuffer, SendSeesDone, SendDefault,
       Close, CloseFlag, CloseDone, CloseLock, CloseCh, ClosedP, ReadFlag, ReadLen, Goto, Finish
  <2>2. CASE Meet(p)
    BY <1>0, <2>2 DEF Meet, Rendezvous
  <2>3. CASE Recv(p)
    BY <1>0, <1>5, <2>3 DEF Recv, RecvFromBuffer, RecvDropsClosed, RecvGivesUp, Goto, Finish
  <2>4. CASE Return(p)
    BY <1>0, <2>4 DEF Return, Goto
  <2> QED
    BY <1>5, <2>1, <2>2, <2>3, <2>4 DEF Step
<1>6. ASSUME Recv(q)
      PROVE  \E k \in DOMAIN sel[q].cases : RecvDropsClosed(q, k)
  BY <1>0, <1>6 DEF Recv, RecvFromBuffer, RecvGivesUp, Goto, Finish
<1> QED
  BY <1>1, <1>2, <1>3, <1>4, <1>5, <1>6 DEF Next, vars

\* RInv holds in every state.
LEMMA RInvariance == Spec => []RInv
<1>1. RInv /\ [Next]_vars => RInv'
  BY NextTypeOK, NextSelectIndexSound, NextLocking, NextStatementOfOp, NextDroppedFinished
     DEF RInv, IInv
<1> QED
  BY <1>1, InitRInv, PTL DEF Spec
------------------------------------------------------------------------------
\* The abstract state of a detailed one.
PhaseF == [c \in Chan |-> Phase(c)]
ActF   == [p \in Proc |-> Act(pc[p])]
ChansF == [p \in Proc |-> sel[p].chans]
ModeF  == [p \in Proc |-> sel[p].mode]

\* Before the first call the abstract channels are open and empty as well.
LEMMA InitRefines == Init => Atomic!Init
<1> SUFFICES ASSUME Init PROVE Atomic!Init
  OBVIOUS
<1>1. PhaseF = [c \in Chan |-> "open"]
  BY DEF Init, PhaseF, Phase
<1>2. ActF = [p \in Proc |-> "idle"]
  BY DEF Init, ActF, Act
<1>3. ChansF = [p \in Proc |-> <<>>] /\ ModeF = [p \in Proc |-> "block"]
  BY DEF Init, ChansF, ModeF, NoSel
<1> QED
  BY <1>1, <1>2, <1>3 DEF Init, Atomic!Init, Atomic!AnyChan, AnyChan, Atomic!Result, Result,
     PhaseF, ActF, ChansF, ModeF

\* How the pieces of the abstract state follow a step.
LEMMA ActStep ==
  ASSUME TypeOK, NEW p \in Proc, NEW l \in Statement, Goto(p, l)
  PROVE  ActF' = [ActF EXCEPT ![p] = Act(l)]
BY DEF TypeOK, CallOK, ActF, Goto

\* A statement that does not end the abstract activity leaves it as it is.
LEMMA SameAct ==
  ASSUME TypeOK, NEW p \in Proc, NEW l \in Statement, Goto(p, l), Act(l) = Act(pc[p])
  PROVE  ActF' = ActF
BY DEF TypeOK, CallOK, ActF, Goto

\* A channel's phase changes only with its flag or the closing of its ch.
LEMMA SamePhase ==
  ASSUME UNCHANGED <<closed, chClosed>>
  PROVE  PhaseF' = PhaseF
BY DEF PhaseF, Phase

\* The abstract receiver's channels and mode change only with sel.
LEMMA SameSel ==
  ASSUME UNCHANGED sel
  PROVE  ChansF' = ChansF /\ ModeF' = ModeF
BY DEF ChansF, ModeF

\* Entering a primitive is a Begin.
LEMMA EnterRefines ==
  ASSUME RInv, NEW p \in Proc, NEW o \in Primitive \ {"none"}, NEW c \in Chan,
         NEW v \in Datum, NEW l \in {"rlock", "recv", "cas", "flag"}, Enter(p, o, c, v, l),
         \/ UNCHANGED sel
         \/ \E cs \in CaseLists, s \in Selection :
              s.chans = cs /\ sel' = [sel EXCEPT ![p] = s]
  PROVE  Atomic!Begin(p)
<1> USE DEF RInv, IInv
<1>0. /\ pc \in [Proc -> Statement] /\ sel \in [Proc -> Selection]
  BY DEF TypeOK, CallOK, SelOK
<1>1. ActF[p] = "idle" /\ ActF' = [ActF EXCEPT ![p] = "busy"]
  <2>1. TypeOK /\ Goto(p, l) /\ l \in Statement /\ pc[p] = "idle"
    BY DEF Enter, Statement
  <2>2. Act(l) = "busy" /\ ActF[p] = "idle"
    BY <2>1 DEF Act, ActF
  <2> QED
    BY <2>1, <2>2, ActStep
<1>2. PhaseF' = PhaseF
  BY SamePhase DEF Enter, sync
<1>3. /\ \E cs \in CaseLists \cup {ChansF[p]} : ChansF' = [ChansF EXCEPT ![p] = cs]
      /\ \E m \in {"block", "timer", "default"} : ModeF' = [ModeF EXCEPT ![p] = m]
  <2>1. CASE UNCHANGED sel
    <3>1. ModeF[p] \in {"block", "timer", "default"}
      BY <1>0 DEF ModeF, Selection, Modes
    <3> QED
      BY <2>1, <3>1 DEF ChansF, ModeF
  <2>2. ASSUME NEW cs \in CaseLists, NEW s \in Selection,
               s.chans = cs, sel' = [sel EXCEPT ![p] = s]
        PROVE  /\ ChansF' = [ChansF EXCEPT ![p] = cs]
               /\ ModeF' = [ModeF EXCEPT ![p] = s.mode]
               /\ s.mode \in {"block", "timer", "default"}
    BY <1>0, <2>2 DEF ChansF, ModeF, Selection, Modes
  <2> QED
    BY <2>1, <2>2
<1>4. /\ o \in Atomic!Sending \cup {"recv", "close", "closed?"}
      /\ v \in Val \cup Outcome \cup {NoVal}
  BY DEF Primitive, Datum, Atomic!Sending
<1> QED
  BY <1>1, <1>2, <1>3, <1>4 DEF Enter, Atomic!Begin, PhaseF, ActF, ChansF, ModeF

\* Finishing a call is an Effect.
LEMMA EffectRefines ==
  ASSUME RInv, NEW p \in Proc, NEW r, Finish(p, r), UNCHANGED args, UNCHANGED sel
  PROVE  Atomic!Effect(p, r)
<1>1. ActF' = [ActF EXCEPT ![p] = "ret"]
  <2>1. TypeOK /\ Goto(p, "ret") /\ "ret" \in Statement /\ Act("ret") = "ret"
    BY DEF RInv, IInv, Finish, Statement, Act
  <2> QED
    BY <2>1, ActStep
<1>2. ChansF' = ChansF /\ ModeF' = ModeF
  BY SameSel
<1> QED
  BY <1>1, <1>2 DEF Finish, args, Atomic!Effect, Atomic!args, ActF, ChansF, ModeF

\* Entering a primitive, spawn, and the end of a spawned function.
LEMMA CallRefines ==
  ASSUME RInv, NEW p \in Proc, Call(p)
  PROVE  Atomic!Begin(p) \/ UNCHANGED Atomic!avars
<1> USE DEF RInv, IInv
<1>0. pc \in [Proc -> Statement] /\ ch \in [Proc -> Chan]
  BY DEF TypeOK, CallOK
<1>1. CASE CallSend(p)
  <2>1. PICK o \in {"send", "trySend"}, c \in Chan, v \in Val :
          Enter(p, o, c, v, "rlock") /\ UNCHANGED sel
    BY <1>1 DEF CallSend
  <2> QED
    BY <2>1, EnterRefines DEF Primitive, Datum
<1>2. CASE CallRecv(p)
  <2>1. PICK cs \in CaseLists, m \in Modes :
          /\ Enter(p, "recv", ch[p], NoVal, "recv")
          /\ sel' = [sel EXCEPT ![p] =
               [chans |-> cs, cases |-> cs, index |-> [i \in DOMAIN cs |-> i],
                timeoutCase |-> IF m = "block" THEN 0 ELSE Len(cs) + 1, mode |-> m]]
    BY <1>2 DEF CallRecv
  <2>2. cs \in CaseLists /\ cs \in Seq(Chan) /\ Len(cs) \in Nat /\ DOMAIN cs = 1..Len(cs)
    BY <2>1, ConstantAssumption
  <2>3. [i \in DOMAIN cs |-> i] \in Seq(Nat)
    BY <2>2
  <2> DEFINE s == [chans |-> cs, cases |-> cs, index |-> [i \in DOMAIN cs |-> i],
                   timeoutCase |-> IF m = "block" THEN 0 ELSE Len(cs) + 1, mode |-> m]
  <2>4. s \in Selection /\ s.chans = cs
    BY <2>2, <2>3 DEF Selection
  <2>5. sel' = [sel EXCEPT ![p] = s]
    BY <2>1
  <2> HIDE DEF s
  <2> QED
    BY <1>0, <2>1, <2>2, <2>4, <2>5, EnterRefines DEF Primitive, Datum
<1>3. CASE CallClose(p)
  <2>1. PICK c \in Chan : Enter(p, "close", c, NoVal, "cas") /\ UNCHANGED sel
    BY <1>3 DEF CallClose
  <2> QED
    BY <2>1, EnterRefines DEF Primitive, Datum
<1>4. CASE CallClosedP(p)
  <2>1. PICK c \in Chan : Enter(p, "closed?", c, NoVal, "flag") /\ UNCHANGED sel
    BY <1>4 DEF CallClosedP
  <2> QED
    BY <2>1, EnterRefines DEF Primitive, Datum
<1>5. CASE Spawn(p)
  <2>1. Goto(p, "idle") /\ "idle" \in Statement /\ Act("idle") = Act(pc[p])
    BY <1>5 DEF Spawn, Statement, Act
  <2>2. ActF' = ActF
    BY <2>1, SameAct
  <2>3. PhaseF' = PhaseF /\ ChansF' = ChansF /\ ModeF' = ModeF
    BY <1>5, SamePhase, SameSel DEF Spawn, sync
  <2> QED
    BY <1>5, <2>2, <2>3 DEF Spawn, args, Atomic!avars, PhaseF, ActF, ChansF, ModeF
<1>6. CASE EndOfSpawned(p)
  <2>1. PICK v \in Outcome : Enter(p, "spawn", ResultChan[p], v, "rlock") /\ UNCHANGED sel
    BY <1>6 DEF EndOfSpawned
  <2>2. ResultChan[p] \in Chan
    BY <1>6, ConstantAssumption DEF EndOfSpawned
  <2> QED
    BY <2>1, <2>2, EnterRefines DEF Primitive, Datum
<1> QED
  BY <1>1, <1>2, <1>3, <1>4, <1>5, <1>6 DEF Call

\* A step that leaves the abstract state alone.
LEMMA Stutter ==
  ASSUME RInv, NEW p \in Proc, NEW l \in Statement, Goto(p, l), Act(l) = Act(pc[p]),
         PhaseF' = PhaseF, ChansF' = ChansF, ModeF' = ModeF, UNCHANGED <<buf, args, ret>>
  PROVE  UNCHANGED Atomic!avars
<1>1. ActF' = ActF
  BY SameAct DEF RInv, IInv
<1> QED
  BY <1>1 DEF args, Atomic!avars, PhaseF, ActF, ChansF, ModeF

\* chanPut: the select is where a send takes effect.
LEMMA PutRefines ==
  ASSUME RInv, NEW p \in Proc, Put(p)
  PROVE  Atomic!Next \/ UNCHANGED Atomic!avars
<1> USE DEF RInv, IInv
<1>0. /\ pc \in [Proc -> Statement] /\ ch \in [Proc -> Chan]
      /\ closed \in [Chan -> BOOLEAN] /\ chClosed \in [Chan -> BOOLEAN]
  BY DEF TypeOK, CallOK, FlagOK
<1>1. CASE RLock(p)
  <2>1. Goto(p, "check") /\ "check" \in Statement /\ Act("check") = Act(pc[p])
    BY <1>1 DEF RLock, Statement, Act
  <2> QED
    BY <1>1, <2>1, SamePhase, SameSel, Stutter DEF RLock
<1>2. CASE CheckClosed(p) /\ ~closed[ch[p]]
  <2>1. Goto(p, "select") /\ "select" \in Statement /\ Act("select") = Act(pc[p]) /\ UNCHANGED ret
    BY <1>2 DEF CheckClosed, Statement, Act
  <2> QED
    BY <1>2, <2>1, SamePhase, SameSel, Stutter DEF CheckClosed, sync
<1>3. ASSUME (CheckClosed(p) /\ closed[ch[p]]) \/ SendSeesDone(p)
      PROVE  Atomic!Refuse(p)
  <2>1. closed[ch[p]] /\ op[p] \in Sending /\ ActF[p] = "busy"
    BY <1>0, <1>3 DEF CheckClosed, SendSeesDone, FlagComesFirst, StatementOfOp, ActF, Act
  <2>2. PhaseF[ch[p]] # "open"
    BY <1>0, <2>1 DEF PhaseF, Phase
  <2>3. PhaseF' = PhaseF
    BY <1>3, SamePhase DEF CheckClosed, SendSeesDone, sync
  <2>4. Atomic!Effect(p, Result("error"))
    BY <1>3, EffectRefines DEF CheckClosed, SendSeesDone
  <2>5. UNCHANGED buf
    BY <1>3 DEF CheckClosed, SendSeesDone
  <2> QED
    BY <2>1, <2>2, <2>3, <2>4, <2>5 DEF Atomic!Refuse, Atomic!Sending, Sending, Atomic!Result, Result,
       PhaseF, ActF
<1>4. ASSUME SendToBuffer(p) PROVE Atomic!Put(p)
  <2>1. op[p] \in Sending /\ ActF[p] = "busy" /\ ~chClosed[ch[p]]
    BY <1>0, <1>4 DEF SendToBuffer, SelectsOpen, StatementOfOp, ActF, Act
  <2>2. PhaseF[ch[p]] # "closed"
    BY <1>0, <2>1 DEF PhaseF, Phase
  <2>3. PhaseF' = PhaseF
    BY <1>4, SamePhase DEF SendToBuffer, sync
  <2>4. Atomic!Effect(p, Result("t"))
    BY <1>4, EffectRefines DEF SendToBuffer
  <2> QED
    BY <1>4, <2>1, <2>2, <2>3, <2>4 DEF SendToBuffer, Atomic!Put, Atomic!Sending, Sending,
       Atomic!Result, Result, PhaseF, ActF
<1>5. ASSUME SendDefault(p) PROVE Atomic!Full(p)
  <2>1. op[p] \in {"trySend", "spawn"} /\ ActF[p] = "busy"
    BY <1>0, <1>5 DEF SendDefault, StatementOfOp, Sending, Blocking, ActF, Act
  <2>2. PhaseF' = PhaseF
    BY <1>5, SamePhase DEF SendDefault, sync
  <2>3. Atomic!Effect(p, Result("nil"))
    BY <1>5, EffectRefines DEF SendDefault
  <2> QED
    BY <1>5, <2>1, <2>2, <2>3 DEF SendDefault, Atomic!Full, Atomic!Result, Result, PhaseF, ActF
<1> QED
  BY <1>1, <1>2, <1>3, <1>4, <1>5 DEF Put, Atomic!Next

\* A rendezvous is a Meet at the place chan-select's index names.
LEMMA MeetRefines ==
  ASSUME RInv, NEW p \in Proc, NEW q \in Proc, NEW k \in DOMAIN sel[q].cases, Rendezvous(p, q, k)
  PROVE  \E i \in DOMAIN sel[q].chans : Atomic!Meet(p, q, i)
<1> USE DEF RInv, IInv
<1> DEFINE i == sel[q].index[k]
<1>0. /\ pc \in [Proc -> Statement] /\ ch \in [Proc -> Chan] /\ sel \in [Proc -> Selection]
      /\ chClosed \in [Chan -> BOOLEAN]
  BY DEF TypeOK, CallOK, FlagOK, SelOK
<1>1. /\ p # q /\ pc[p] = "select" /\ pc[q] = "recv" /\ Cap[ch[p]] = 0 /\ sel[q].cases[k] = ch[p]
      /\ pc' = [pc EXCEPT ![p] = "ret", ![q] = "ret"]
      /\ ret' = [ret EXCEPT ![p] = Result("t"), ![q] = Got(val[p], i)]
      /\ UNCHANGED <<buf, chClosed, sync, args, sel>>
  BY DEF Rendezvous
<1>2. k \in DOMAIN sel[q].index
  BY <1>0, <1>1 DEF SelectIndexSound, Selection
<1>3. i \in DOMAIN sel[q].chans /\ sel[q].chans[i] = ch[p]
  BY <1>1, <1>2 DEF SelectIndexSound
<1>4. op[p] \in Sending /\ op[q] = "recv" /\ ActF[p] = "busy" /\ ActF[q] = "busy"
  BY <1>1 DEF StatementOfOp, ActF, Act
<1>5. PhaseF[ch[p]] # "closed"
  BY <1>0, <1>1 DEF SelectsOpen, PhaseF, Phase
<1>6. ActF' = [ActF EXCEPT ![p] = "ret", ![q] = "ret"]
  BY <1>0, <1>1 DEF ActF, Act
<1>7. PhaseF' = PhaseF /\ ChansF' = ChansF /\ ModeF' = ModeF
  BY <1>1, SamePhase, SameSel DEF sync
<1>8. ChansF[q][i] = ch[p]
  BY <1>3 DEF ChansF
<1> HIDE DEF i
<1> QED
  BY <1>1, <1>3, <1>4, <1>5, <1>6, <1>7, <1>8 DEF Atomic!Meet, Atomic!Sending, Sending,
     Atomic!Result, Result, Atomic!Got, Got, Atomic!args, args, PhaseF, ActF, ChansF, ModeF

\* The receiving primitives.
LEMMA RecvRefines ==
  ASSUME RInv, [Next]_vars, NEW p \in Proc, Recv(p)
  PROVE  Atomic!Next \/ UNCHANGED Atomic!avars
<1> USE DEF RInv, IInv
<1>0. /\ pc \in [Proc -> Statement] /\ sel \in [Proc -> Selection]
      /\ closed \in [Chan -> BOOLEAN] /\ chClosed \in [Chan -> BOOLEAN]
  BY DEF TypeOK, CallOK, SelOK, FlagOK
<1>1. pc[p] = "recv" /\ op[p] = "recv" /\ ActF[p] = "busy"
  BY DEF Recv, RecvFromBuffer, RecvDropsClosed, RecvGivesUp, StatementOfOp, ActF, Act
<1>2. /\ Len(sel[p].cases) = Len(sel[p].index)
      /\ \A k \in DOMAIN sel[p].index :
           /\ sel[p].index[k] \in DOMAIN sel[p].chans
           /\ sel[p].cases[k] = sel[p].chans[sel[p].index[k]]
      /\ DOMAIN sel[p].index = DOMAIN sel[p].cases
      /\ sel[p].timeoutCase = IF sel[p].mode = "block" THEN 0 ELSE Len(sel[p].cases) + 1
  BY <1>0, <1>1 DEF SelectIndexSound, Selection
<1>3. ASSUME NEW k \in DOMAIN sel[p].cases, RecvFromBuffer(p, k)
      PROVE  \E i \in DOMAIN sel[p].chans : Atomic!Get(p, i)
  <2> DEFINE i == sel[p].index[k]
             c == sel[p].cases[k]
  <2>1. i \in DOMAIN sel[p].chans /\ ChansF[p][i] = c
    BY <1>2 DEF ChansF
  <2>2. /\ buf[c] # <<>> /\ buf' = [buf EXCEPT ![c] = Tail(@)] /\ UNCHANGED <<chClosed, sync>>
        /\ Finish(p, Got(Head(buf[c]), i)) /\ UNCHANGED args /\ UNCHANGED sel
    BY <1>3 DEF RecvFromBuffer
  <2> HIDE DEF i, c
  <2>3. Atomic!Effect(p, Got(Head(buf[c]), i)) /\ PhaseF' = PhaseF
    BY <2>2, EffectRefines, SamePhase DEF sync
  <2>4. Atomic!Get(p, i)
    BY <1>1, <2>1, <2>2, <2>3 DEF Atomic!Get, Atomic!Got, Got, PhaseF, ActF, ChansF
  <2> QED
    BY <2>1, <2>4
<1>4. ASSUME RecvGivesUp(p) PROVE Atomic!GetNothing(p)
  <2>1. Finish(p, Result("none")) /\ UNCHANGED <<buf, chClosed, sync, args, sel>>
    BY <1>2, <1>4 DEF RecvGivesUp
  <2>2. Atomic!Effect(p, Result("none")) /\ PhaseF' = PhaseF
    BY <2>1, EffectRefines, SamePhase DEF sync
  <2>3. CASE sel[p].mode = "timer"
    BY <1>1, <2>1, <2>2, <2>3 DEF Atomic!GetNothing, Atomic!Result, Result, PhaseF, ActF, ModeF
  <2>4. CASE /\ sel[p].mode = "default"
             /\ \A k \in DOMAIN sel[p].cases : buf[sel[p].cases[k]] = <<>>
    <3>1. \A i \in DOMAIN sel[p].chans : buf[sel[p].chans[i]] = <<>>
      BY <1>1, <1>2, <2>4 DEF DroppedFinished
    <3> QED
      BY <1>1, <2>1, <2>2, <2>4, <3>1 DEF Atomic!GetNothing, Atomic!Result, Result,
         PhaseF, ActF, ModeF, ChansF
  <2> QED
    BY <1>4, <2>3, <2>4 DEF RecvGivesUp
<1>5. ASSUME NEW k \in DOMAIN sel[p].cases, RecvDropsClosed(p, k), Len(sel[p].cases) = 1
      PROVE  Atomic!GetNothing(p)
  <2>1. Finish(p, Result("none")) /\ UNCHANGED <<buf, chClosed, sync, args>>
    BY <1>5 DEF RecvDropsClosed
  <2>2. DOMAIN sel[p].cases = {k}
    BY <1>0, <1>5 DEF Selection
  <2>3. \A i \in DOMAIN sel[p].chans : chClosed[sel[p].chans[i]] /\ buf[sel[p].chans[i]] = <<>>
    BY <1>1, <1>2, <1>5, <2>2 DEF DroppedFinished, RecvDropsClosed
  <2>4. \A i \in DOMAIN sel[p].chans : sel[p].chans[i] \in Chan
    BY <1>0 DEF Selection
  <2>5. \A i \in DOMAIN ChansF[p] : PhaseF[ChansF[p][i]] = "closed" /\ buf[ChansF[p][i]] = <<>>
    BY <2>3, <2>4 DEF PhaseF, Phase, ChansF
  <2>6. PhaseF' = PhaseF
    BY <2>1, SamePhase DEF sync
  <2>7. ChansF' = ChansF /\ ModeF' = ModeF
    BY <1>0, <1>5 DEF RecvDropsClosed, ChansF, ModeF, Selection
  <2>8. ActF' = [ActF EXCEPT ![p] = "ret"]
    <3>1. Goto(p, "ret") /\ "ret" \in Statement /\ Act("ret") = "ret"
      BY <2>1 DEF Finish, Statement, Act
    <3> QED
      BY <3>1, ActStep
  <2>9. Atomic!Effect(p, Result("none"))
    BY <2>1, <2>7, <2>8 DEF Finish, args, Atomic!Effect, Atomic!args, ActF, ChansF, ModeF
  <2> QED
    BY <1>1, <2>1, <2>5, <2>6, <2>9 DEF Atomic!GetNothing, Atomic!Result, Result,
       PhaseF, ActF, ModeF, ChansF
<1>6. ASSUME NEW k \in DOMAIN sel[p].cases, RecvDropsClosed(p, k), Len(sel[p].cases) # 1
      PROVE  UNCHANGED Atomic!avars
  <2>1. UNCHANGED <<buf, chClosed, sync, args, pc, ret>>
    BY <1>6 DEF RecvDropsClosed
  <2>2. ChansF' = ChansF /\ ModeF' = ModeF
    BY <1>0, <1>6 DEF RecvDropsClosed, ChansF, ModeF, Selection
  <2>3. PhaseF' = PhaseF /\ ActF' = ActF
    BY <2>1, SamePhase DEF ActF, sync
  <2> QED
    BY <2>1, <2>2, <2>3 DEF args, Atomic!avars, PhaseF, ActF, ChansF, ModeF
<1>7. ASSUME NEW i \in DOMAIN sel[p].chans, Atomic!Get(p, i) PROVE Atomic!Next
  BY <1>7 DEF Atomic!Next
<1> QED
  BY <1>3, <1>4, <1>5, <1>6, <1>7 DEF Recv, Atomic!Next

\* chan-close takes effect in two steps, at the flag and at close(gc.ch).
LEMMA CloseRefines ==
  ASSUME RInv, NEW p \in Proc, Close(p)
  PROVE  Atomic!Next \/ UNCHANGED Atomic!avars
<1> USE DEF RInv, IInv
<1>0. /\ pc \in [Proc -> Statement] /\ ch \in [Proc -> Chan]
      /\ closed \in [Chan -> BOOLEAN] /\ chClosed \in [Chan -> BOOLEAN]
  BY DEF TypeOK, CallOK, FlagOK
<1>1. ASSUME CloseFlag(p), closed[ch[p]] PROVE Atomic!Refuse(p)
  <2>1. op[p] = "close" /\ ActF[p] = "busy"
    BY <1>1 DEF CloseFlag, StatementOfOp, ActF, Act
  <2>2. PhaseF[ch[p]] # "open"
    BY <1>0, <1>1 DEF PhaseF, Phase
  <2>3. Finish(p, Result("error")) /\ UNCHANGED <<buf, chClosed, closed, args, sel>>
    BY <1>1 DEF CloseFlag
  <2>4. Atomic!Effect(p, Result("error")) /\ PhaseF' = PhaseF
    BY <2>3, EffectRefines, SamePhase
  <2> QED
    BY <2>1, <2>2, <2>3, <2>4 DEF Atomic!Refuse, Atomic!Result, Result, PhaseF, ActF
<1>2. ASSUME CloseFlag(p), ~closed[ch[p]] PROVE Atomic!BeginClose(p)
  <2>1. op[p] = "close" /\ ActF[p] = "busy"
    BY <1>2 DEF CloseFlag, StatementOfOp, ActF, Act
  <2>2. ~chClosed[ch[p]]
    BY <1>0, <1>2 DEF FlagComesFirst
  <2>3. /\ Goto(p, "done") /\ closed' = [closed EXCEPT ![ch[p]] = TRUE]
        /\ UNCHANGED <<buf, chClosed, args, sel, ret>>
    BY <1>2 DEF CloseFlag
  <2>4. PhaseF[ch[p]] = "open" /\ PhaseF' = [PhaseF EXCEPT ![ch[p]] = "closing"]
    BY <1>0, <1>2, <2>2, <2>3 DEF PhaseF, Phase
  <2>5. ActF' = [ActF EXCEPT ![p] = "closing"]
    <3>1. Goto(p, "done") /\ "done" \in Statement /\ Act("done") = "closing"
      BY <2>3 DEF Statement, Act
    <3> QED
      BY <3>1, ActStep
  <2> QED
    BY <2>1, <2>3, <2>4, <2>5, SameSel DEF Atomic!BeginClose, Atomic!args, args,
       PhaseF, ActF, ChansF, ModeF
<1>3. ASSUME CloseDone(p) \/ CloseLock(p) PROVE UNCHANGED Atomic!avars
  <2>1. PICK l \in {"lock", "close"} : Goto(p, l)
    BY <1>3 DEF CloseDone, CloseLock
  <2>2. l \in Statement /\ Act(l) = Act(pc[p])
    BY <1>3, <2>1 DEF CloseDone, CloseLock, Statement, Act
  <2> QED
    BY <1>3, <2>1, <2>2, SamePhase, SameSel, Stutter DEF CloseDone, CloseLock
<1>4. ASSUME CloseCh(p) PROVE Atomic!EndClose(p)
  <2>1. closed[ch[p]] /\ ActF[p] = "closing"
    BY <1>4 DEF CloseCh, FlagComesFirst, ActF, Act
  <2>2. PhaseF' = [PhaseF EXCEPT ![ch[p]] = "closed"]
    BY <1>0, <1>4 DEF CloseCh, PhaseF, Phase, sync
  <2>3. Atomic!Effect(p, Result("t"))
    BY <1>4, EffectRefines DEF CloseCh
  <2> QED
    BY <1>4, <2>1, <2>2, <2>3 DEF CloseCh, Atomic!EndClose, Atomic!Result, Result, PhaseF, ActF
<1> QED
  BY <1>1, <1>2, <1>3, <1>4 DEF Close, Atomic!Next

\* chan-closed? takes effect at the read that decides it.
LEMMA ClosedPRefines ==
  ASSUME RInv, NEW p \in Proc, ClosedP(p)
  PROVE  Atomic!Next \/ UNCHANGED Atomic!avars
<1> USE DEF RInv, IInv
<1>0. /\ pc \in [Proc -> Statement] /\ ch \in [Proc -> Chan]
      /\ closed \in [Chan -> BOOLEAN] /\ chClosed \in [Chan -> BOOLEAN]
  BY DEF TypeOK, CallOK, FlagOK
<1>1. op[p] = "closed?" /\ ActF[p] = "busy"
  BY DEF ClosedP, ReadFlag, ReadLen, StatementOfOp, ActF, Act
<1>2. PhaseF' = PhaseF /\ UNCHANGED <<buf, args, sel>>
  BY SamePhase DEF ClosedP, ReadFlag, ReadLen, sync
<1>3. CASE ReadFlag(p) /\ closed[ch[p]]
  <2>1. Goto(p, "len") /\ "len" \in Statement /\ Act("len") = Act(pc[p]) /\ UNCHANGED ret
    BY <1>3 DEF ReadFlag, Statement, Act
  <2> QED
    BY <1>2, <2>1, SameSel, Stutter
<1>4. ASSUME ReadFlag(p), ~closed[ch[p]] PROVE Atomic!Ask(p)
  <2>1. PhaseF[ch[p]] = "open"
    BY <1>0, <1>4 DEF PhaseF, Phase, FlagComesFirst
  <2>2. Atomic!Effect(p, Result("nil"))
    BY <1>2, <1>4, EffectRefines DEF ReadFlag
  <2> QED
    BY <1>1, <1>2, <2>1, <2>2 DEF Atomic!Ask, Atomic!Result, Result, PhaseF, ActF
<1>5. ASSUME ReadLen(p) PROVE Atomic!Ask(p)
  <2>1. PhaseF[ch[p]] # "open"
    BY <1>0, <1>5 DEF ReadLen, StatementOfOp, PhaseF, Phase
  <2>2. CASE buf[ch[p]] = <<>>
    <3>1. Atomic!Effect(p, Result("t"))
      BY <1>2, <1>5, <2>2, EffectRefines DEF ReadLen
    <3> QED
      BY <1>1, <1>2, <2>1, <2>2, <3>1 DEF Atomic!Ask, Atomic!Result, Result, PhaseF, ActF
  <2>3. CASE buf[ch[p]] # <<>>
    <3>1. Atomic!Effect(p, Result("nil"))
      BY <1>2, <1>5, <2>3, EffectRefines DEF ReadLen
    <3> QED
      BY <1>1, <1>2, <2>1, <2>3, <3>1 DEF Atomic!Ask, Atomic!Result, Result, PhaseF, ActF
  <2> QED
    BY <2>2, <2>3
<1> QED
  BY <1>3, <1>4, <1>5 DEF ClosedP, Atomic!Next

\* Returning to the program is the abstract Return.
LEMMA ReturnRefines ==
  ASSUME RInv, NEW p \in Proc, Return(p)
  PROVE  Atomic!Return(p)
<1> USE DEF RInv, IInv
<1>1. ActF[p] = "ret" /\ ActF' = [ActF EXCEPT ![p] = "idle"]
  <2>1. PICK l \in {"dead", "idle"} : Goto(p, l)
    BY DEF Return
  <2>2. l \in Statement /\ Act(l) = "idle" /\ pc[p] = "ret"
    BY <2>1 DEF Statement, Act, Return
  <2> QED
    BY <2>1, <2>2, ActStep DEF ActF, Act
<1>2. PhaseF' = PhaseF
  BY SamePhase DEF Return
<1>3. ChansF' = [ChansF EXCEPT ![p] = <<>>] /\ ModeF' = [ModeF EXCEPT ![p] = "block"]
  BY DEF Return, TypeOK, SelOK, ChansF, ModeF, NoSel
<1> QED
  BY <1>1, <1>2, <1>3 DEF Return, Atomic!Return, Atomic!AnyChan, AnyChan, Atomic!Result, Result,
     PhaseF, ActF, ChansF, ModeF

\* The channel primitives implement a channel whose operations are
\* indivisible: every behaviour of Channels is one of ClosableChannel.
THEOREM Refinement == Spec => ImplementsAtomic
<1>1. RInv /\ [Next]_vars => [Atomic!Next]_(Atomic!avars)
  <2> SUFFICES ASSUME RInv, [Next]_vars
               PROVE  Atomic!Next \/ UNCHANGED Atomic!avars
    OBVIOUS
  <2>1. ASSUME NEW p \in Proc, Call(p) PROVE Atomic!Next \/ UNCHANGED Atomic!avars
    BY <2>1, CallRefines DEF Atomic!Next
  <2>2. ASSUME NEW p \in Proc, Step(p) PROVE Atomic!Next \/ UNCHANGED Atomic!avars
    <3>1. CASE Put(p)
      BY <3>1, PutRefines
    <3>2. CASE Meet(p)
      <4>1. PICK q \in Proc : \E k \in DOMAIN sel[q].cases : Rendezvous(p, q, k)
        BY <3>2 DEF Meet
      <4>2. PICK i \in DOMAIN sel[q].chans : Atomic!Meet(p, q, i)
        BY <4>1, MeetRefines
      <4>3. DOMAIN sel[q].chans = DOMAIN ChansF[q]
        BY DEF ChansF
      <4> QED
        BY <4>2, <4>3 DEF Atomic!Next, ChansF
    <3>3. CASE Recv(p)
      BY <3>3, RecvRefines
    <3>4. CASE Close(p)
      BY <3>4, CloseRefines
    <3>5. CASE ClosedP(p)
      BY <3>5, ClosedPRefines
    <3>6. CASE Return(p)
      BY <3>6, ReturnRefines DEF Atomic!Next
    <3> QED
      BY <2>2, <3>1, <3>2, <3>3, <3>4, <3>5, <3>6 DEF Step
  <2>3. CASE UNCHANGED vars
    BY <2>3 DEF vars, Atomic!avars, Phase
  <2> QED
    BY <2>1, <2>2, <2>3 DEF Next
<1> QED
  BY <1>1, InitRefines, RInvariance, PTL DEF Spec, ImplementsAtomic, Atomic!Spec
================================================================================
