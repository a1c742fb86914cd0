----------------------------- MODULE WsBridge_proofs -----------------------------
(****************************************************************************)
(* Proofs about WsBridge, for any browsers, callers, capacity and number of *)
(* ws-calls.                                                                *)
(****************************************************************************)
EXTENDS WsBridge, TLAPS

\* A caller whose call is registered, and a client that removeClient has taken
\* out of the hub; its connection id is never used again.
Active(p) == pc[p] \in {"enqueue", "wait", "cleanup"}
Gone(c) == reader[c] \in {"close", "gone"}

\* An id is used by the call it was made for and no earlier than that.
IdsMade ==
  /\ \A i \in pending : i <= nextCall
  /\ \A c \in Client : taken[c] <= nextCall
  /\ \A i \in CallId : slot[i] # <<>> => i <= nextCall
  /\ \A p \in Caller : id[p] <= nextCall

IdsOwn ==
  /\ \A p \in Caller : Active(p) => id[p] # None
  /\ \A p, q \in Caller : id[p] = id[q] /\ id[p] # None => p = q

\* The reader goroutine of a client is the only one that adds it to the hub
\* and removes it, and holds an answer only in between.
ReaderOwns ==
  \A c \in Client :
    /\ c \in clients <=> reader[c] \in {"read", "deliver", "remove"}
    /\ taken[c] # None <=> reader[c] = "deliver"

\* Every entry of pending, and of callIDs[c], is that of a caller that has
\* still to clean up, and whose peer is c.
Owned ==
  /\ \A i \in pending : \E p \in Caller : Active(p) /\ id[p] = i
  /\ \A c \in Client : \A i \in callIDs[c] :
       \E p \in Caller : Active(p) /\ id[p] = i /\ peer[p] = c

\* A caller's peer has been connected; when the disconnect error is its result
\* or waits in its slot, the peer has gone for good.
PeerGone ==
  \A p \in Caller :
    /\ pc[p] # "idle" => reader[peer[p]] # "none"
    /\ res[p] = "disconnected" => Gone(peer[p])
    /\ Active(p) /\ slot[id[p]] = <<"disconnected">> => Gone(peer[p])

IInv == /\ TypeOK /\ IdsMade /\ IdsOwn /\ ReaderOwns /\ Owned /\ PeerGone
        /\ AtMostOneAnswer
------------------------------------------------------------------------------
USE DEF hub, conn, out, call

\* enqueue keeps the messages' types and never exceeds the capacity.
LEMMA EnqueueOK ==
  ASSUME OutOK, NEW c \in Client, NEW m \in CallId \cup {Other}, Enqueue(c, m),
         UNCHANGED <<sendClosed, writer, hand>>
  PROVE  OutOK'
<1>1. CASE ~Takes(c)
  BY <1>1 DEF OutOK, Enqueue
<1>2. CASE Takes(c)
  <2>1. send' = [send EXCEPT ![c] = Append(send[c], m)]
    BY <1>2 DEF Enqueue
  <2>2. send[c] \in Seq(CallId \cup {Other}) /\ Len(send[c]) < Cap
    BY <1>2 DEF OutOK, Takes
  <2> DEFINE s == Append(send[c], m)
  <2>3. s \in Seq(CallId \cup {Other}) /\ Len(s) = Len(send[c]) + 1
    BY <2>2
  <2>4. Len(s) <= Cap
    BY <2>2, <2>3, WsAssumption
  <2> HIDE DEF s
  <2> QED
    BY <2>1, <2>3, <2>4 DEF OutOK, s
<1> QED
  BY <1>1, <1>2

\* Before the first connection every variable has its type.
LEMMA InitTypeOK == Init => TypeOK
<1> SUFFICES ASSUME Init PROVE TypeOK
  OBVIOUS
<1>1. peer \in [Caller -> Client]
  BY DEF Init
<1>2. HubOK
  <2>1. slot = [i \in CallId |-> <<>>] /\ callIDs = [c \in Client |-> {}]
        /\ clients = {} /\ pending = {} /\ nextCall = 0
    BY DEF Init
  <2> QED
    BY <2>1, WsAssumption DEF HubOK
<1>3. ConnOK
  BY DEF Init, ConnOK
<1>4. OutOK
  <2>1. Len(<<>>) = 0 /\ <<>> \in Seq(CallId \cup {Other})
    OBVIOUS
  <2>2. send \in [Client -> Seq(CallId \cup {Other})] /\ \A c \in Client : Len(send[c]) <= Cap
    <3>1. send = [c \in Client |-> <<>>]
      BY DEF Init
    <3> QED
      BY <2>1, <3>1, WsAssumption
  <2> QED
    BY <2>2 DEF Init, OutOK
<1>5. CallOK
  BY <1>1 DEF Init, CallOK
<1>6. owes \subseteq Client
  BY DEF Init
<1> QED
  BY <1>2, <1>3, <1>4, <1>5, <1>6 DEF TypeOK

\* Every step of a connection's goroutines keeps the types.
LEMMA ConnectionTypes ==
  ASSUME TypeOK, NEW c \in Client,
         \/ Connect(c) \/ OpArrives(c) \/ SendOwed(c) \/ Break(c) \/ Read(c) \/ Write(c)
         \/ \E i \in CallId : TakeAnswer(c, i)
  PROVE  TypeOK'
<1>0. HubOK /\ ConnOK /\ OutOK /\ CallOK /\ owes \subseteq Client
  BY DEF TypeOK
<1>1. CASE Connect(c)
  <2>1. HubOK' /\ ConnOK'
    BY <1>0, <1>1 DEF HubOK, ConnOK, Connect
  <2>2. OutOK'
    BY <1>0, <1>1 DEF OutOK, Connect
  <2> QED
    BY <1>0, <1>1, <2>1, <2>2 DEF TypeOK, CallOK, Connect
<1>2. CASE OpArrives(c) \/ Break(c)
  <2>1. ConnOK'
    BY <1>0, <1>2 DEF ConnOK, OpArrives, Break
  <2>2. HubOK' /\ OutOK' /\ CallOK' /\ owes' \subseteq Client
    BY <1>0, <1>2 DEF HubOK, OutOK, CallOK, OpArrives, Break
  <2> QED
    BY <2>1, <2>2 DEF TypeOK
<1>3. CASE SendOwed(c)
  <2>1. OutOK'
    BY <1>0, <1>3, EnqueueOK DEF SendOwed
  <2>2. HubOK' /\ ConnOK' /\ CallOK' /\ owes' \subseteq Client
    BY <1>0, <1>3 DEF HubOK, ConnOK, CallOK, SendOwed
  <2> QED
    BY <2>1, <2>2 DEF TypeOK
<1>4. CASE DeliverAnswer(c)
  <2>1. PICK r \in Answers : slot' = [slot EXCEPT ![taken[c]] = <<r>>]
    BY <1>4 DEF DeliverAnswer, Answers
  <2>2. HubOK'
    BY <1>0, <1>4, <2>1 DEF HubOK, DeliverAnswer
  <2>3. ConnOK' /\ OutOK' /\ CallOK' /\ owes' \subseteq Client
    BY <1>0, <1>4 DEF ConnOK, OutOK, CallOK, DeliverAnswer
  <2> QED
    BY <2>2, <2>3 DEF TypeOK
<1>5. CASE ReadFails(c) \/ CloseSend(c)
  <2>1. HubOK' /\ CallOK' /\ owes' \subseteq Client
    BY <1>0, <1>5 DEF HubOK, CallOK, ReadFails, CloseSend
  <2>2. ConnOK' /\ OutOK'
    BY <1>0, <1>5 DEF ConnOK, OutOK, ReadFails, CloseSend
  <2> QED
    BY <2>1, <2>2 DEF TypeOK
<1>6. CASE RemoveClient(c)
  <2>1. /\ slot' = [i \in CallId |-> IF i \in OpenCalls(c) THEN <<"disconnected">> ELSE slot[i]]
        /\ pending' = pending \ OpenCalls(c)
        /\ clients' = clients \ {c} /\ UNCHANGED <<nextCall, callIDs>>
    BY <1>6 DEF RemoveClient
  <2>2. <<"disconnected">> \in {<<a>> : a \in Answers}
    BY DEF Answers
  <2>3. HubOK'
    BY <1>0, <2>1, <2>2 DEF HubOK
  <2>4. ConnOK' /\ OutOK' /\ CallOK' /\ owes' \subseteq Client
    BY <1>0, <1>6 DEF ConnOK, OutOK, CallOK, RemoveClient
  <2> QED
    BY <2>3, <2>4 DEF TypeOK
<1>7. CASE WriterTakes(c)
  <2> DEFINE s == send[c]
  <2>1. s \in Seq(CallId \cup {Other}) /\ s # <<>> /\ Len(s) <= Cap
    BY <1>0, <1>7 DEF OutOK, WriterTakes
  <2>2. /\ Head(s) \in CallId \cup {Other} /\ Tail(s) \in Seq(CallId \cup {Other})
        /\ Len(Tail(s)) <= Cap
    BY <2>1, WsAssumption
  <2>3. /\ hand' = [hand EXCEPT ![c] = Head(s)] /\ send' = [send EXCEPT ![c] = Tail(s)]
        /\ writer' = [writer EXCEPT ![c] = "write"] /\ UNCHANGED sendClosed
    BY <1>7 DEF WriterTakes
  <2> HIDE DEF s
  <2>4. OutOK'
    BY <1>0, <2>2, <2>3 DEF OutOK
  <2>5. HubOK' /\ ConnOK' /\ CallOK' /\ owes' \subseteq Client
    BY <1>0, <1>7 DEF HubOK, ConnOK, CallOK, WriterTakes
  <2> QED
    BY <2>4, <2>5 DEF TypeOK
<1>8. CASE WriterWrites(c)
  <2>1. OutOK'
    BY <1>0, <1>8 DEF OutOK, WriterWrites
  <2>2. hand[c] \in CallId \cup {Other}
    BY <1>0 DEF OutOK
  <2>3. ConnOK'
    <3>1. broken' \in [Client -> BOOLEAN] /\ UNCHANGED <<reader, taken>>
      BY <1>0, <1>8 DEF ConnOK, WriterWrites
    <3>2. seen' = seen \/ seen' = [seen EXCEPT ![c] = IF broken[c] THEN @ ELSE @ \cup ({hand[c]} \ {Other})]
      BY <1>8 DEF WriterWrites
    <3>3. seen' \in [Client -> SUBSET CallId]
      BY <1>0, <2>2, <3>2 DEF ConnOK
    <3> QED
      BY <1>0, <3>1, <3>3 DEF ConnOK
  <2>4. HubOK' /\ CallOK' /\ owes' \subseteq Client
    BY <1>0, <1>8 DEF HubOK, CallOK, WriterWrites
  <2> QED
    BY <2>1, <2>3, <2>4 DEF TypeOK
<1>9. CASE WriterEnds(c)
  <2>1. ConnOK' /\ OutOK'
    BY <1>0, <1>9 DEF ConnOK, OutOK, WriterEnds
  <2>2. HubOK' /\ CallOK' /\ owes' \subseteq Client
    BY <1>0, <1>9 DEF HubOK, CallOK, WriterEnds
  <2> QED
    BY <2>1, <2>2 DEF TypeOK
<1>10. ASSUME NEW i \in CallId, TakeAnswer(c, i) PROVE TypeOK'
  <2>1. HubOK'
    BY <1>0, <1>10 DEF HubOK, TakeAnswer
  <2>2. ConnOK'
    BY <1>0, <1>10 DEF ConnOK, TakeAnswer
  <2>3. OutOK' /\ CallOK' /\ owes' \subseteq Client
    BY <1>0, <1>10 DEF OutOK, CallOK, TakeAnswer
  <2> QED
    BY <2>1, <2>2, <2>3 DEF TypeOK
<1> QED
  BY <1>1, <1>2, <1>3, <1>4, <1>5, <1>6, <1>7, <1>8, <1>9, <1>10 DEF Read, Write

\* So does every step of a ws-call; a caller that waits has an id.
LEMMA CallTypes ==
  ASSUME TypeOK, IdsOwn, NEW p \in Caller,
         Proceed(p) \/ CallTimesOut(p) \/ \E c \in Client : CallFinds(p, c)
  PROVE  TypeOK'
<1>0. HubOK /\ ConnOK /\ OutOK /\ CallOK /\ owes \subseteq Client
  BY DEF TypeOK
<1>1. CASE CallRegisters(p)
  <2>1. nextCall + 1 \in CallId /\ nextCall + 1 \in 0..MaxCalls
    <3>1. nextCall \in 0..MaxCalls /\ nextCall < MaxCalls
      BY <1>0, <1>1 DEF CallRegisters, HubOK
    <3> QED
      BY <3>1, WsAssumption DEF CallId
  <2>2. ConnOK' /\ OutOK' /\ owes' \subseteq Client
    BY <1>0, <1>1 DEF ConnOK, OutOK, CallRegisters
  <2>3. HubOK'
    BY <1>0, <1>1, <2>1 DEF HubOK, CallRegisters
  <2>4. CallOK'
    <3>1. CASE peer[p] \in clients
      <4>1. /\ pc' = [pc EXCEPT ![p] = "enqueue"] /\ id' = [id EXCEPT ![p] = nextCall + 1]
            /\ UNCHANGED <<peer, res>>
        BY <1>1, <3>1 DEF CallRegisters
      <4> QED
        BY <1>0, <2>1, <4>1 DEF CallOK
    <3>2. CASE peer[p] \notin clients
      <4>1. /\ pc' = [pc EXCEPT ![p] = "idle"] /\ res' = [res EXCEPT ![p] = "disconnected"]
            /\ UNCHANGED <<peer, id>>
        BY <1>1, <3>2 DEF CallRegisters
      <4> QED
        BY <1>0, <4>1 DEF CallOK, Answers
    <3> QED
      BY <3>1, <3>2
  <2> QED
    BY <2>2, <2>3, <2>4 DEF TypeOK
<1>2. CASE CallEnqueues(p)
  <2>1. peer[p] \in Client /\ id[p] \in CallId \cup {Other}
    BY <1>0 DEF CallOK, None, Other
  <2>2. OutOK'
    BY <1>0, <1>2, <2>1, EnqueueOK DEF CallEnqueues
  <2>3. CallOK'
    BY <1>0, <1>2 DEF CallOK, CallEnqueues, Result
  <2>4. HubOK' /\ ConnOK' /\ owes' \subseteq Client
    BY <1>0, <1>2 DEF HubOK, ConnOK, CallEnqueues
  <2> QED
    BY <2>2, <2>3, <2>4 DEF TypeOK
<1>3. CASE CallGetsResult(p)
  <2>1. id[p] \in CallId
    BY <1>0, <1>3 DEF CallGetsResult, IdsOwn, Active, CallOK
  <2>2. PICK a \in Answers : slot[id[p]] = <<a>>
    BY <1>0, <1>3, <2>1 DEF CallGetsResult, HubOK
  <2>3. res' = [res EXCEPT ![p] = a] /\ pc' = [pc EXCEPT ![p] = "cleanup"]
        /\ UNCHANGED <<peer, id>>
    BY <1>3, <2>2 DEF CallGetsResult, Result
  <2>4. CallOK'
    BY <1>0, <2>3 DEF CallOK
  <2>5. HubOK'
    BY <1>0, <1>3, <2>1 DEF HubOK, CallGetsResult
  <2>6. ConnOK' /\ OutOK' /\ owes' \subseteq Client
    BY <1>0, <1>3 DEF ConnOK, OutOK, CallGetsResult
  <2> QED
    BY <2>4, <2>5, <2>6 DEF TypeOK
<1>4. CASE CallCleansUp(p)
  <2>1. HubOK' /\ CallOK'
    BY <1>0, <1>4 DEF HubOK, CallOK, CallCleansUp
  <2>2. ConnOK' /\ OutOK' /\ owes' \subseteq Client
    BY <1>0, <1>4 DEF ConnOK, OutOK, CallCleansUp
  <2> QED
    BY <2>1, <2>2 DEF TypeOK
<1>5. ASSUME NEW c \in Client, CallTimesOut(p) \/ CallFinds(p, c) PROVE TypeOK'
  <2>1. CallOK'
    <3>1. CASE CallTimesOut(p)
      BY <1>0, <3>1 DEF CallOK, CallTimesOut, Result
    <3>2. CASE CallFinds(p, c)
      BY <1>0, <3>2 DEF CallOK, CallFinds
    <3> QED
      BY <1>5, <3>1, <3>2
  <2>2. HubOK' /\ ConnOK' /\ OutOK' /\ owes' \subseteq Client
    BY <1>0, <1>5 DEF HubOK, ConnOK, OutOK, CallTimesOut, CallFinds
  <2> QED
    BY <2>1, <2>2 DEF TypeOK
<1> QED
  BY <1>1, <1>2, <1>3, <1>4, <1>5, WsAssumption DEF Proceed
------------------------------------------------------------------------------
\* The invariant holds before the first connection.
LEMMA InitOK == Init => IInv
<1> SUFFICES ASSUME Init PROVE IInv
  OBVIOUS
<1>1. TypeOK
  BY InitTypeOK
<1>2. IdsMade /\ IdsOwn
  <2>1. /\ pending = {} /\ nextCall = 0 /\ taken = [c \in Client |-> 0]
        /\ slot = [j \in CallId |-> <<>>] /\ id = [p \in Caller |-> 0]
        /\ pc = [p \in Caller |-> "idle"]
    BY DEF Init, None
  <2> QED
    BY <2>1 DEF IdsMade, IdsOwn, Active, None
<1>3. ReaderOwns /\ Owned /\ AtMostOneAnswer
  BY DEF Init, ReaderOwns, Owned, AtMostOneAnswer, Undelivered
<1>4. PeerGone
  BY DEF Init, PeerGone, Active
<1> QED
  BY <1>1, <1>2, <1>3, <1>4 DEF IInv

\* What the writer does, what is sent and what breaks does not matter to it.
LEMMA Frame ==
  ASSUME IInv, TypeOK', UNCHANGED <<hub, reader, taken, call>>
  PROVE  IInv'
<1>1. IdsMade' /\ IdsOwn'
  BY DEF IInv, IdsMade, IdsOwn, Active
<1>2. ReaderOwns' /\ Owned' /\ AtMostOneAnswer'
  BY DEF IInv, ReaderOwns, Owned, Active, AtMostOneAnswer, Undelivered
<1>3. PeerGone'
  BY DEF IInv, PeerGone, Active, Gone
<1> QED
  BY <1>1, <1>2, <1>3 DEF IInv

\* A new connection has an id that was never used.
LEMMA ConnectStep == ASSUME IInv, NEW c \in Client, Connect(c) PROVE IInv'
<1>1. TypeOK'
  BY ConnectionTypes DEF IInv
<1>2. /\ reader[c] = "none" /\ clients' = clients \cup {c}
      /\ reader' = [reader EXCEPT ![c] = "read"]
      /\ UNCHANGED <<pending, nextCall, callIDs, slot, taken, call>>
  BY DEF Connect
<1>3. reader'[c] = "read" /\ \A d \in Client \ {c} : reader'[d] = reader[d]
  BY <1>2 DEF IInv, TypeOK, ConnOK
<1>4. ReaderOwns'
  BY <1>2, <1>3 DEF IInv, ReaderOwns
<1>5. PeerGone'
  <2>1. \A p \in Caller : peer[p] \in Client
    BY DEF IInv, TypeOK, CallOK
  <2> QED
    BY <1>2, <1>3, <2>1 DEF IInv, PeerGone, Gone, Active
<1>6. IdsMade' /\ IdsOwn' /\ Owned' /\ AtMostOneAnswer'
  BY <1>2 DEF IInv, IdsMade, IdsOwn, Owned, Active, AtMostOneAnswer, Undelivered
<1> QED
  BY <1>1, <1>4, <1>5, <1>6 DEF IInv

\* A reader that goes on towards its end keeps what is true of it.
LEMMA ReaderEndsStep ==
  ASSUME IInv, NEW c \in Client, ReadFails(c) \/ CloseSend(c) PROVE IInv'
<1>1. TypeOK'
  BY ConnectionTypes DEF IInv, Read
<1>2. UNCHANGED <<hub, taken, call>>
  BY DEF ReadFails, CloseSend
<1>3. /\ \A d \in Client \ {c} : reader'[d] = reader[d]
      /\ \/ reader[c] = "read" /\ reader'[c] = "remove"
         \/ reader[c] = "close" /\ reader'[c] = "gone"
  BY DEF ReadFails, CloseSend, IInv, TypeOK, ConnOK
<1>4. ReaderOwns'
  BY <1>2, <1>3 DEF IInv, ReaderOwns
<1>5. PeerGone'
  <2>1. \A p \in Caller : peer[p] \in Client
    BY DEF IInv, TypeOK, CallOK
  <2> QED
    BY <1>2, <1>3, <2>1 DEF IInv, PeerGone, Gone, Active
<1>6. IdsMade' /\ IdsOwn' /\ Owned' /\ AtMostOneAnswer'
  BY <1>2 DEF IInv, IdsMade, IdsOwn, Owned, Active, AtMostOneAnswer, Undelivered
<1> QED
  BY <1>1, <1>4, <1>5, <1>6 DEF IInv

\* The reader takes a call out of pending; nobody else can answer it any more.
LEMMA TakeAnswerStep ==
  ASSUME IInv, NEW c \in Client, NEW i \in CallId, TakeAnswer(c, i) PROVE IInv'
<1>1. TypeOK'
  BY ConnectionTypes DEF IInv
<1>2. CASE i \notin pending
  BY <1>1, <1>2, Frame DEF TakeAnswer
<1>3. CASE i \in pending
  <2>1. /\ reader[c] = "read" /\ pending' = pending \ {i}
        /\ callIDs' = [callIDs EXCEPT ![c] = @ \ {i}]
        /\ reader' = [reader EXCEPT ![c] = "deliver"]
        /\ taken' = [taken EXCEPT ![c] = i]
        /\ UNCHANGED <<clients, nextCall, slot, call>>
    BY <1>3 DEF TakeAnswer
  <2>2. /\ reader'[c] = "deliver" /\ taken'[c] = i
        /\ \A d \in Client \ {c} : reader'[d] = reader[d] /\ taken'[d] = taken[d]
        /\ \A d \in Client : callIDs'[d] \subseteq callIDs[d]
    BY <2>1 DEF IInv, TypeOK, ConnOK, HubOK
  <2>3. i # None
    BY DEF CallId, None
  <2>4. ReaderOwns'
    BY <2>1, <2>2, <2>3 DEF IInv, ReaderOwns
  <2>5. PeerGone'
    <3>1. \A p \in Caller : peer[p] \in Client
      BY DEF IInv, TypeOK, CallOK
    <3> QED
      BY <2>1, <2>2, <3>1 DEF IInv, PeerGone, Gone, Active
  <2>6. IdsMade' /\ IdsOwn'
    BY <1>3, <2>1, <2>2 DEF IInv, IdsMade, IdsOwn, Active
  <2>7. Owned'
    BY <2>1, <2>2 DEF IInv, Owned, Active
  <2>8. AtMostOneAnswer'
    BY <1>3, <2>1, <2>2 DEF IInv, AtMostOneAnswer, Undelivered
  <2> QED
    BY <1>1, <2>4, <2>5, <2>6, <2>7, <2>8 DEF IInv
<1> QED
  BY <1>2, <1>3

\* The slot the reader sends to is empty, and is no other reader's.
LEMMA DeliverAnswerStep == ASSUME IInv, NEW c \in Client, DeliverAnswer(c) PROVE IInv'
<1>1. TypeOK'
  BY ConnectionTypes DEF IInv, Read
<1>2. PICK r \in {"value", "error"} : slot' = [slot EXCEPT ![taken[c]] = <<r>>]
  BY DEF DeliverAnswer
<1>3. /\ reader[c] = "deliver" /\ reader' = [reader EXCEPT ![c] = "read"]
      /\ taken' = [taken EXCEPT ![c] = None]
      /\ UNCHANGED <<clients, pending, nextCall, callIDs, call>>
  BY DEF DeliverAnswer
<1>4. /\ reader'[c] = "read" /\ taken'[c] = None
      /\ \A d \in Client \ {c} : reader'[d] = reader[d] /\ taken'[d] = taken[d]
  BY <1>3 DEF IInv, TypeOK, ConnOK
<1>5. taken[c] \in CallId /\ taken[c] # None
  BY <1>3 DEF IInv, TypeOK, ConnOK, ReaderOwns
<1>6. \A i \in CallId : slot'[i] = IF i = taken[c] THEN <<r>> ELSE slot[i]
  BY <1>2, <1>5 DEF IInv, TypeOK, HubOK
<1>7. ReaderOwns'
  BY <1>3, <1>4 DEF IInv, ReaderOwns
<1>8. PeerGone'
  <2>1. <<r>> # <<"disconnected">>
    OBVIOUS
  <2>2. \A p \in Caller : peer[p] \in Client /\ (Active(p) => id[p] \in CallId)
    BY DEF IInv, TypeOK, CallOK, IdsOwn
  <2> QED
    BY <1>3, <1>4, <1>6, <2>1, <2>2 DEF IInv, PeerGone, Gone, Active
<1>9. IdsMade' /\ IdsOwn' /\ Owned'
  <2>1. nextCall \in Nat /\ None <= nextCall
    BY WsAssumption DEF IInv, TypeOK, HubOK, None
  <2>2. IdsMade'
    BY <1>3, <1>4, <1>5, <1>6, <2>1 DEF IInv, IdsMade
  <2> QED
    BY <1>3, <2>2 DEF IInv, IdsOwn, Owned, Active
<1>10. AtMostOneAnswer'
  <2>1. taken[c] \in Undelivered(c)
    BY <1>5 DEF Undelivered
  <2>2. \A d \in Client : Undelivered(d)' = IF d = c THEN {} ELSE Undelivered(d)
    BY <1>4 DEF Undelivered
  <2>3. pending \subseteq CallId /\ \A d \in Client : Undelivered(d) \subseteq CallId
    BY DEF IInv, TypeOK, HubOK, ConnOK, Undelivered
  <2> QED
    BY <1>3, <1>6, <2>1, <2>2, <2>3 DEF IInv, AtMostOneAnswer
<1> QED
  BY <1>1, <1>7, <1>8, <1>9, <1>10 DEF IInv

\* removeClient answers the open calls of its client, whose slots are empty and
\* which no reader has taken; their callers' peer has gone.
LEMMA RemoveClientStep == ASSUME IInv, NEW c \in Client, RemoveClient(c) PROVE IInv'
<1> DEFINE open == OpenCalls(c)
<1>1. TypeOK'
  BY ConnectionTypes DEF IInv, Read
<1>2. /\ reader[c] = "remove" /\ clients' = clients \ {c} /\ pending' = pending \ open
      /\ slot' = [i \in CallId |-> IF i \in open THEN <<"disconnected">> ELSE slot[i]]
      /\ reader' = [reader EXCEPT ![c] = "close"]
      /\ UNCHANGED <<nextCall, callIDs, taken, call>>
  BY DEF RemoveClient
<1>3. open \subseteq pending /\ open \subseteq callIDs[c]
  BY DEF OpenCalls
<1> HIDE DEF open
<1>4. reader'[c] = "close" /\ \A d \in Client \ {c} : reader'[d] = reader[d]
  BY <1>2 DEF IInv, TypeOK, ConnOK
<1>5. pending \subseteq CallId
      /\ \A i \in CallId : slot'[i] = IF i \in open THEN <<"disconnected">> ELSE slot[i]
  BY <1>2 DEF IInv, TypeOK, HubOK
<1>6. ReaderOwns'
  BY <1>2, <1>4 DEF IInv, ReaderOwns
<1>7. PeerGone'
  <2>1. ASSUME NEW p \in Caller PROVE peer[p] \in Client /\ (Active(p) => id[p] \in CallId)
    BY DEF IInv, TypeOK, CallOK, IdsOwn
  <2>2. ASSUME NEW p \in Caller, Active(p), id[p] \in open PROVE peer[p] = c
    BY <1>3, <2>1, <2>2 DEF IInv, Owned, IdsOwn
  <2>3. ASSUME NEW p \in Caller, Active(p), slot'[id[p]] = <<"disconnected">>
        PROVE  Gone(peer[p])'
    <3>1. peer'[p] = peer[p] /\ peer[p] \in Client /\ id[p] \in CallId
      BY <1>2, <2>1, <2>3
    <3>2. CASE id[p] \in open
      BY <1>4, <2>2, <2>3, <3>1, <3>2 DEF Gone
    <3>3. CASE id[p] \notin open
      <4>1. Gone(peer[p])
        BY <1>5, <2>3, <3>1, <3>3 DEF IInv, PeerGone
      <4> QED
        BY <1>4, <3>1, <4>1 DEF Gone
    <3> QED
      BY <3>2, <3>3
  <2>4. ASSUME NEW p \in Caller
        PROVE  /\ pc[p] # "idle" => reader'[peer[p]] # "none"
               /\ res[p] = "disconnected" => Gone(peer[p])'
    BY <1>2, <1>4, <2>1 DEF IInv, PeerGone, Gone
  <2> QED
    BY <1>2, <2>3, <2>4 DEF PeerGone, Active
<1>8. IdsMade' /\ IdsOwn' /\ Owned'
  <2>1. IdsMade'
    BY <1>2, <1>3, <1>5 DEF IInv, IdsMade
  <2> QED
    BY <1>2, <2>1 DEF IInv, IdsOwn, Owned, Active
<1>9. AtMostOneAnswer'
  <2>1. \A d \in Client : Undelivered(d)' = Undelivered(d) /\ Undelivered(d) \subseteq CallId
    BY <1>2 DEF IInv, TypeOK, ConnOK, Undelivered
  <2> QED
    BY <1>2, <1>3, <1>5, <2>1 DEF IInv, AtMostOneAnswer
<1> QED
  BY <1>1, <1>6, <1>7, <1>8, <1>9 DEF IInv
------------------------------------------------------------------------------
\* A ws-call looks its client up.
LEMMA CallFindsStep ==
  ASSUME IInv, NEW p \in Caller, NEW c \in Client, CallFinds(p, c) PROVE IInv'
<1>1. TypeOK'
  BY CallTypes DEF IInv
<1>2. /\ pc'[p] = "register" /\ peer'[p] = c /\ res'[p] = ""
      /\ \A q \in Caller \ {p} : pc'[q] = pc[q] /\ peer'[q] = peer[q] /\ res'[q] = res[q]
  BY DEF CallFinds, IInv, TypeOK, CallOK
<1>3. /\ pc[p] = "idle" /\ reader[c] # "none"
      /\ UNCHANGED <<hub, reader, taken, id>>
  BY DEF CallFinds, IInv, ReaderOwns
<1>4. ~Active(p) /\ ~Active(p)' /\ \A q \in Caller \ {p} : Active(q)' = Active(q)
  BY <1>2, <1>3 DEF Active
<1>5. IdsMade' /\ IdsOwn' /\ ReaderOwns' /\ AtMostOneAnswer'
  BY <1>3, <1>4 DEF IInv, IdsMade, IdsOwn, ReaderOwns, AtMostOneAnswer, Undelivered
<1>6. Owned'
  <2>1. \A q \in Caller : Active(q) => Active(q)' /\ peer'[q] = peer[q] /\ id'[q] = id[q]
    BY <1>2, <1>3, <1>4
  <2> QED
    BY <1>3, <2>1 DEF IInv, Owned
<1>7. PeerGone'
  BY <1>2, <1>3, <1>4 DEF IInv, PeerGone, Gone
<1> QED
  BY <1>1, <1>5, <1>6, <1>7 DEF IInv

\* Registered under ws.mu, a call gets an id that nothing refers to yet.
LEMMA CallRegistersStep == ASSUME IInv, NEW p \in Caller, CallRegisters(p) PROVE IInv'
<1> DEFINE n == nextCall + 1
<1>1. TypeOK' /\ pc[p] = "register" /\ peer[p] \in Client
  BY CallTypes DEF IInv, Proceed, CallRegisters, TypeOK, CallOK
<1>2. CASE peer[p] \in clients
  <2>1. /\ nextCall' = n /\ id' = [id EXCEPT ![p] = n] /\ pending' = pending \cup {n}
        /\ callIDs' = [callIDs EXCEPT ![peer[p]] = @ \cup {n}]
        /\ pc' = [pc EXCEPT ![p] = "enqueue"]
        /\ UNCHANGED <<clients, slot, reader, taken, peer, res>>
    BY <1>2 DEF CallRegisters
  <2>2. nextCall \in Nat /\ n \in CallId /\ n # None
    <3>1. nextCall \in 0..MaxCalls /\ nextCall < MaxCalls
      BY DEF CallRegisters, IInv, TypeOK, HubOK
    <3> QED
      BY <3>1, WsAssumption DEF CallId, None
  <2>3. n > nextCall /\ \A i \in Nat : i <= nextCall => i <= n /\ i # n
    BY <2>2
  <2> HIDE DEF n
  <2>4. /\ pc'[p] = "enqueue" /\ id'[p] = n
        /\ \A q \in Caller \ {p} : pc'[q] = pc[q] /\ id'[q] = id[q]
        /\ \A c \in Client : callIDs'[c] = IF c = peer[p] THEN callIDs[c] \cup {n} ELSE callIDs[c]
    BY <1>1, <2>1 DEF IInv, TypeOK, HubOK, CallOK
  <2>5. ~Active(p) /\ Active(p)' /\ \A q \in Caller \ {p} : Active(q)' = Active(q)
    BY <1>1, <2>4 DEF Active
  <2>6. /\ pending \subseteq Nat /\ \A c \in Client : taken[c] \in Nat
        /\ \A q \in Caller : id[q] \in Nat
        /\ \A i \in CallId : i \in Nat
    <3>1. CallId \subseteq Nat /\ None \in Nat
      BY DEF CallId, None
    <3> QED
      BY <3>1 DEF IInv, TypeOK, HubOK, ConnOK, CallOK
  <2>7. IdsMade'
    BY <2>1, <2>2, <2>3, <2>4, <2>6 DEF IInv, IdsMade
  <2>8. IdsOwn'
    BY <2>2, <2>3, <2>4, <2>5, <2>6 DEF IInv, IdsMade, IdsOwn
  <2>9. ReaderOwns'
    BY <2>1 DEF IInv, ReaderOwns
  <2>10. Owned'
    BY <2>1, <2>4, <2>5 DEF IInv, Owned
  <2>11. slot[n] = <<>>
    BY <2>2, <2>3, <2>6 DEF IInv, IdsMade
  <2>12. PeerGone'
    <3>1. ASSUME NEW q \in Caller PROVE peer[q] \in Client
      BY DEF IInv, TypeOK, CallOK
    <3>2. pc[p] # "idle"
      BY <1>1
    <3>3. <<>> # <<"disconnected">>
      OBVIOUS
    <3> QED
      BY <2>1, <2>4, <2>5, <2>11, <3>1, <3>2, <3>3 DEF IInv, PeerGone, Gone
  <2>13. AtMostOneAnswer'
    <3>1. \A c \in Client : n # taken[c]
      BY <2>3, <2>6 DEF IInv, IdsMade
    <3> QED
      BY <2>1, <2>11, <3>1 DEF IInv, AtMostOneAnswer, Undelivered
  <2> QED
    BY <1>1, <2>7, <2>8, <2>9, <2>10, <2>12, <2>13 DEF IInv
<1>3. CASE peer[p] \notin clients
  <2>1. /\ pc'[p] = "idle" /\ res'[p] = "disconnected"
        /\ \A q \in Caller \ {p} : pc'[q] = pc[q] /\ res'[q] = res[q]
        /\ UNCHANGED <<hub, reader, taken, peer, id>>
    BY <1>3 DEF CallRegisters, IInv, TypeOK, CallOK
  <2>2. ~Active(p) /\ ~Active(p)' /\ \A q \in Caller \ {p} : Active(q)' = Active(q)
    BY <1>1, <2>1 DEF Active
  <2>3. Gone(peer[p])
    BY <1>1, <1>3 DEF IInv, TypeOK, ConnOK, ReaderOwns, PeerGone, Gone
  <2>4. PeerGone'
    BY <2>1, <2>2, <2>3 DEF IInv, PeerGone, Gone
  <2>5. IdsMade' /\ IdsOwn' /\ ReaderOwns' /\ AtMostOneAnswer'
    BY <2>1, <2>2 DEF IInv, IdsMade, IdsOwn, ReaderOwns, AtMostOneAnswer, Undelivered
  <2>6. Owned'
    BY <2>1, <2>2 DEF IInv, Owned
  <2> QED
    BY <1>1, <2>4, <2>5, <2>6 DEF IInv
<1> QED
  BY <1>2, <1>3

\* A caller that goes on with its call, in which only its own result changes.
LEMMA CallGoesOn ==
  ASSUME IInv, TypeOK', NEW p \in Caller, Active(p), Active(p)',
         \A q \in Caller \ {p} : pc'[q] = pc[q] /\ res'[q] = res[q],
         res'[p] = "disconnected" => Gone(peer[p]),
         UNCHANGED <<clients, pending, nextCall, callIDs, reader, taken, peer, id>>,
         \A i \in CallId : slot'[i] \in {<<>>, slot[i]}
  PROVE  IInv'
<1>1. \A q \in Caller : Active(q)' = Active(q)
  BY DEF Active
<1>2. IdsMade' /\ IdsOwn' /\ ReaderOwns' /\ Owned'
  BY <1>1 DEF IInv, IdsMade, IdsOwn, ReaderOwns, Owned
<1>3. AtMostOneAnswer'
  <2>1. pending \subseteq CallId /\ \A d \in Client : Undelivered(d) \subseteq CallId
    BY DEF IInv, TypeOK, HubOK, ConnOK, Undelivered
  <2>2. \A d \in Client : Undelivered(d)' = Undelivered(d)
    BY DEF Undelivered
  <2> QED
    BY <2>1, <2>2 DEF IInv, AtMostOneAnswer
<1>4. PeerGone'
  <2>1. <<>> # <<"disconnected">>
    OBVIOUS
  <2>2. \A q \in Caller : Active(q) => id[q] \in CallId
    BY DEF IInv, TypeOK, CallOK, IdsOwn
  <2>3. pc[p] # "idle"
    BY DEF Active
  <2> QED
    BY <1>1, <2>1, <2>2, <2>3 DEF IInv, PeerGone, Gone
<1> QED
  BY <1>2, <1>3, <1>4 DEF IInv

\* Sending, timing out and getting a result leave the call registered.
LEMMA CallWaitsStep ==
  ASSUME IInv, NEW p \in Caller, CallEnqueues(p) \/ CallTimesOut(p) \/ CallGetsResult(p)
  PROVE  IInv'
<1>1. TypeOK'
  BY CallTypes, WsAssumption DEF IInv, Proceed
<1>2. CASE CallEnqueues(p)
  <2>1. /\ pc[p] = "enqueue" /\ pc'[p] \in {"wait", "cleanup"}
        /\ res'[p] \in {res[p], "unreachable"}
        /\ \A q \in Caller \ {p} : pc'[q] = pc[q] /\ res'[q] = res[q]
        /\ UNCHANGED <<hub, reader, taken, peer, id>>
    BY <1>2 DEF CallEnqueues, Result, IInv, TypeOK, CallOK
  <2>2. res'[p] = "disconnected" => Gone(peer[p])
    BY <2>1 DEF IInv, PeerGone
  <2> QED
    BY <1>1, <2>1, <2>2, CallGoesOn DEF Active
<1>3. CASE CallTimesOut(p)
  <2>1. /\ pc[p] = "wait" /\ pc'[p] = "cleanup" /\ res'[p] = "timeout"
        /\ \A q \in Caller \ {p} : pc'[q] = pc[q] /\ res'[q] = res[q]
        /\ UNCHANGED <<hub, reader, taken, peer, id>>
    BY <1>3 DEF CallTimesOut, Result, IInv, TypeOK, CallOK
  <2> QED
    BY <1>1, <2>1, CallGoesOn DEF Active
<1>4. CASE CallGetsResult(p)
  <2>1. /\ pc[p] = "wait" /\ pc'[p] = "cleanup" /\ res'[p] = Head(slot[id[p]])
        /\ \A q \in Caller \ {p} : pc'[q] = pc[q] /\ res'[q] = res[q]
        /\ UNCHANGED <<clients, pending, nextCall, callIDs, reader, taken, peer, id>>
    BY <1>4 DEF CallGetsResult, Result, IInv, TypeOK, CallOK
  <2>2. id[p] \in CallId
    BY <2>1 DEF IInv, IdsOwn, Active, TypeOK, CallOK
  <2>3. PICK a \in Answers : slot[id[p]] = <<a>>
    BY <1>4, <2>2 DEF CallGetsResult, IInv, TypeOK, HubOK
  <2>4. res'[p] = "disconnected" => Gone(peer[p])
    <3>1. res'[p] = a
      BY <2>1, <2>3
    <3> QED
      BY <2>1, <2>3, <3>1 DEF IInv, PeerGone, Active
  <2>5. \A i \in CallId : slot'[i] \in {<<>>, slot[i]}
    BY <1>4, <2>2 DEF CallGetsResult, IInv, TypeOK, HubOK
  <2> QED
    BY <1>1, <2>1, <2>4, <2>5, CallGoesOn DEF Active
<1> QED
  BY <1>2, <1>3, <1>4

\* The deferred clean-up removes the call wherever it is still registered: only
\* under the client it was sent to.
LEMMA CallCleansUpStep == ASSUME IInv, NEW p \in Caller, CallCleansUp(p) PROVE IInv'
<1>1. TypeOK' /\ peer[p] \in Client
  BY CallTypes DEF IInv, Proceed, TypeOK, CallOK
<1>2. /\ pc[p] = "cleanup" /\ pc'[p] = "idle" /\ pending' = pending \ {id[p]}
      /\ \A q \in Caller \ {p} : pc'[q] = pc[q]
      /\ \A c \in Client : callIDs'[c] = IF c = peer[p] THEN callIDs[c] \ {id[p]} ELSE callIDs[c]
      /\ UNCHANGED <<clients, nextCall, slot, reader, taken, peer, id, res>>
  BY <1>1 DEF CallCleansUp, IInv, TypeOK, CallOK, HubOK
<1>3. Active(p) /\ ~Active(p)' /\ \A q \in Caller \ {p} : Active(q)' = Active(q)
  BY <1>2 DEF Active
<1>4. IdsMade' /\ ReaderOwns' /\ AtMostOneAnswer'
  BY <1>2 DEF IInv, IdsMade, ReaderOwns, AtMostOneAnswer, Undelivered
<1>5. IdsOwn'
  BY <1>2, <1>3 DEF IInv, IdsOwn
<1>6. Owned'
  <2>1. ASSUME NEW i \in pending' PROVE \E q \in Caller : Active(q)' /\ id[q] = i
    BY <1>2, <1>3, <2>1 DEF IInv, Owned
  <2>2. ASSUME NEW c \in Client, NEW i \in callIDs'[c]
        PROVE  \E q \in Caller : Active(q)' /\ id[q] = i /\ peer[q] = c
    <3>1. PICK q \in Caller : Active(q) /\ id[q] = i /\ peer[q] = c
      <4>1. i \in callIDs[c]
        BY <1>2, <2>2
      <4> QED
        BY <4>1 DEF IInv, Owned
    <3>2. q # p
      BY <1>2, <2>2, <3>1
    <3> QED
      BY <1>3, <3>1, <3>2
  <2> QED
    BY <1>2, <2>1, <2>2 DEF Owned
<1>7. PeerGone'
  BY <1>2, <1>3 DEF IInv, PeerGone, Gone
<1> QED
  BY <1>1, <1>4, <1>5, <1>6, <1>7 DEF IInv
------------------------------------------------------------------------------
\* Every step keeps the invariant.
LEMMA Inductive == ASSUME IInv, [Next]_vars PROVE IInv'
<1>1. ASSUME NEW c \in Client, OpArrives(c) \/ SendOwed(c) \/ Break(c) \/ Write(c) PROVE IInv'
  <2>1. TypeOK'
    BY <1>1, ConnectionTypes DEF IInv
  <2>2. UNCHANGED <<hub, reader, taken, call>>
    BY <1>1 DEF OpArrives, SendOwed, Break, Write, WriterTakes, WriterWrites, WriterEnds
  <2> QED
    BY <2>1, <2>2, Frame
<1>2. ASSUME Emit PROVE IInv'
  <2>1. TypeOK'
    <3>1. PICK targets \in {clients} \cup {{c} : c \in clients} : owes' = owes \cup targets
      BY <1>2 DEF Emit
    <3>2. owes' \subseteq Client
      BY <3>1 DEF IInv, TypeOK, HubOK
    <3>3. HubOK' /\ ConnOK' /\ OutOK' /\ CallOK'
      BY <1>2 DEF Emit, IInv, TypeOK, HubOK, ConnOK, OutOK, CallOK
    <3> QED
      BY <3>2, <3>3 DEF TypeOK
  <2> QED
    BY <1>2, <2>1, Frame DEF Emit
<1>3. CASE UNCHANGED vars
  <2>1. TypeOK'
    BY <1>3 DEF vars, IInv, TypeOK, HubOK, ConnOK, OutOK, CallOK
  <2> QED
    BY <1>3, <2>1, Frame DEF vars
<1>4. ASSUME NEW c \in Client, Connect(c) \/ Read(c) \/ \E i \in CallId : TakeAnswer(c, i) PROVE IInv'
  BY <1>4, ConnectStep, DeliverAnswerStep, ReaderEndsStep, RemoveClientStep, TakeAnswerStep DEF Read
<1>5. ASSUME NEW p \in Caller, Proceed(p) \/ CallTimesOut(p) \/ \E c \in Client : CallFinds(p, c)
      PROVE  IInv'
  BY <1>5, CallRegistersStep, CallWaitsStep, CallCleansUpStep, CallFindsStep DEF Proceed
<1> QED
  BY <1>1, <1>2, <1>3, <1>4, <1>5 DEF Next

LEMMA Invariance == Spec => []IInv
<1>1. Init => IInv
  BY InitOK
<1>2. IInv /\ [Next]_vars => IInv'
  BY Inductive
<1> QED
  BY <1>1, <1>2, PTL DEF Spec

\* No goroutine ever blocks on the result slot of a ws-call: one answer, from a
\* reader or from removeClient, is all that a call gets.
THEOREM AtMostOneAnswerTheorem == Spec => []AtMostOneAnswer
<1>1. IInv => AtMostOneAnswer
  BY DEF IInv
<1> QED
  BY <1>1, Invariance, PTL

\* A ws-call that has returned, in whatever way, has left nothing behind.
THEOREM NoLeakTheorem == Spec => []NoLeak
<1>1. IInv => NoLeak
  BY DEF IInv, Owned, NoLeak, Active
<1> QED
  BY <1>1, Invariance, PTL

\* The disconnect error is never given for a client that is still there.
THEOREM DisconnectIsTrueTheorem == Spec => []DisconnectIsTrue
<1>1. IInv => DisconnectIsTrue
  <2> SUFFICES ASSUME IInv, NEW p \in Caller, res[p] = "disconnected"
               PROVE  peer[p] \notin clients
    BY DEF DisconnectIsTrue
  <2>1. peer[p] \in Client /\ Gone(peer[p])
    BY DEF IInv, TypeOK, CallOK, PeerGone
  <2> QED
    BY <2>1 DEF IInv, ReaderOwns, Gone
<1> QED
  BY <1>1, Invariance, PTL
------------------------------------------------------------------------------
(****************************************************************************)
(* WsBridge implements RemoteCall.  The proof needs to know where a call's  *)
(* id may be on its way to the browser and back.                            *)
(****************************************************************************)
\* The call that p has still to clean up is open at the client it was made to.
Listed == \A p \in Caller : Active(p) /\ id[p] \in pending => id[p] \in callIDs[peer[p]]

\* The ids between enqueue and the browser's answer: queued, being written, or
\* received.
Elements(s) == {s[n] : n \in 1..Len(s)}
Carried(c) == (Elements(send[c]) \cup {hand[c]} \cup seen[c]) \ {Other}

\* A message that is on its way to c, if its call still waits, was sent by it
\* and to c.
MayReach(i, c) ==
  /\ i <= nextCall
  /\ \A p \in Caller : Active(p) /\ id[p] = i => pc[p] # "enqueue" /\ peer[p] = c
Routed == \A c \in Client : \A i \in Carried(c) : MayReach(i, c)

\* Until it is sent, a call can be lost but not answered.
Unanswered ==
  \A p \in Caller :
    pc[p] = "enqueue" => id[p] \in pending \/ slot[id[p]] = <<"disconnected">>

RInv == IInv /\ Listed /\ Routed /\ Unanswered

LEMMA AppendElements ==
  ASSUME NEW S, NEW s \in Seq(S), NEW x \in S
  PROVE  Elements(Append(s, x)) = Elements(s) \cup {x}
<1>1. /\ Len(Append(s, x)) = Len(s) + 1 /\ Len(s) \in Nat
      /\ \A n \in 1..Len(s) : Append(s, x)[n] = s[n]
      /\ Append(s, x)[Len(s) + 1] = x
  OBVIOUS
<1>2. 1..(Len(s) + 1) = 1..Len(s) \cup {Len(s) + 1}
  BY <1>1
<1> QED
  BY <1>1, <1>2 DEF Elements

LEMMA TailElements ==
  ASSUME NEW S, NEW s \in Seq(S), s # <<>>
  PROVE  Elements(Tail(s)) \subseteq Elements(s) /\ Head(s) \in Elements(s)
<1>1. /\ Len(Tail(s)) = Len(s) - 1 /\ Len(s) \in Nat \ {0} /\ Head(s) = s[1]
      /\ \A n \in 1..Len(Tail(s)) : Tail(s)[n] = s[n + 1]
  OBVIOUS
<1>2. \A n \in 1..Len(Tail(s)) : n + 1 \in 1..Len(s)
  BY <1>1
<1>3. 1 \in 1..Len(s)
  BY <1>1
<1> QED
  BY <1>1, <1>2, <1>3 DEF Elements

\* The calls of a step: those it makes get a fresh id, the others keep theirs
\* and their peer, and none goes back to before it was sent.
GoOn ==
  /\ nextCall <= nextCall'
  /\ \A p \in Caller :
       Active(p)' => \/ /\ Active(p) /\ id'[p] = id[p] /\ peer'[p] = peer[p]
                        /\ pc'[p] = "enqueue" => pc[p] = "enqueue"
                     \/ /\ id'[p] = nextCall + 1 /\ id'[p] \in pending'
                        /\ id'[p] \in callIDs'[peer'[p]]

LEMMA CallsGoOn == ASSUME IInv, [Next]_vars PROVE GoOn
<1>0. /\ nextCall \in Nat /\ nextCall <= nextCall
      /\ pc \in [Caller -> {"idle", "register", "enqueue", "wait", "cleanup"}]
      /\ peer \in [Caller -> Client] /\ id \in [Caller -> CallId \cup {None}]
      /\ callIDs \in [Client -> SUBSET CallId]
  <2>1. nextCall \in Nat
    BY WsAssumption DEF IInv, TypeOK, HubOK
  <2>2. nextCall <= nextCall
    BY <2>1
  <2> QED
    BY <2>1, <2>2 DEF IInv, TypeOK, HubOK, CallOK
<1>1. ASSUME UNCHANGED call, UNCHANGED nextCall PROVE GoOn
  BY <1>0, <1>1 DEF GoOn, Active
<1>2. ASSUME NEW c \in Client,
             \/ Connect(c) \/ OpArrives(c) \/ SendOwed(c) \/ Break(c) \/ Read(c) \/ Write(c)
             \/ \E i \in CallId : TakeAnswer(c, i)
      PROVE  GoOn
  <2>1. UNCHANGED call /\ UNCHANGED nextCall
    BY <1>2 DEF Connect, OpArrives, SendOwed, Break, Read, DeliverAnswer, ReadFails, RemoveClient,
       CloseSend, Write, WriterTakes, WriterWrites, WriterEnds, TakeAnswer
  <2> QED
    BY <2>1, <1>1
<1>3. ASSUME NEW p \in Caller, CallRegisters(p), peer[p] \in clients PROVE GoOn
  <2>1. /\ nextCall' = nextCall + 1 /\ id' = [id EXCEPT ![p] = nextCall + 1]
        /\ pending' = pending \cup {nextCall + 1}
        /\ callIDs' = [callIDs EXCEPT ![peer[p]] = @ \cup {nextCall + 1}]
        /\ pc' = [pc EXCEPT ![p] = "enqueue"] /\ UNCHANGED peer
    BY <1>3 DEF CallRegisters
  <2>2. nextCall + 1 \in callIDs'[peer[p]] /\ nextCall + 1 \in pending'
    BY <1>0, <2>1
  <2>3. id'[p] = nextCall + 1 /\ \A q \in Caller \ {p} : id'[q] = id[q] /\ pc'[q] = pc[q]
    BY <1>0, <2>1
  <2>4. nextCall <= nextCall'
    BY <1>0, <2>1
  <2> QED
    BY <2>1, <2>2, <2>3, <2>4 DEF GoOn, Active
<1>4. ASSUME NEW p \in Caller,
             \/ CallRegisters(p) /\ peer[p] \notin clients
             \/ CallEnqueues(p) \/ CallGetsResult(p) \/ CallCleansUp(p) \/ CallTimesOut(p)
             \/ \E c \in Client : CallFinds(p, c)
      PROVE  GoOn
  <2>1. /\ UNCHANGED <<nextCall, id>> /\ \A q \in Caller \ {p} : pc'[q] = pc[q] /\ peer'[q] = peer[q]
        /\ \/ ~Active(p)'
           \/ Active(p) /\ pc'[p] # "enqueue" /\ UNCHANGED peer
    BY <1>0, <1>4 DEF CallRegisters, CallEnqueues, CallGetsResult, CallCleansUp, CallTimesOut,
       CallFinds, Result, Active
  <2> QED
    BY <1>0, <2>1 DEF GoOn, Active
<1>5. CASE Emit \/ UNCHANGED vars
  BY <1>1, <1>5 DEF Emit, vars
<1> QED
  BY <1>2, <1>3, <1>4, <1>5 DEF Next, Proceed

\* What may reach a client may still reach it after the step.
LEMMA ReachStep ==
  ASSUME IInv, GoOn, nextCall' \in Nat, NEW i \in CallId, NEW c \in Client, MayReach(i, c)
  PROVE  MayReach(i, c)'
<1>1. nextCall \in Nat /\ i \in Nat
  BY WsAssumption DEF IInv, TypeOK, HubOK, CallId
<1>2. i <= nextCall /\ i <= nextCall' /\ i # nextCall + 1
  BY <1>1 DEF MayReach, GoOn
<1> QED
  BY <1>2 DEF MayReach, GoOn

\* Only ws-call's enqueue puts an id on its way; the writer and the browser
\* carry it on.
LEMMA CarriedStep ==
  ASSUME IInv, [Next]_vars, NEW c \in Client, NEW i \in Carried(c)', i \notin Carried(c)
  PROVE  \E p \in Caller : CallEnqueues(p) /\ peer[p] = c /\ id[p] = i /\ Active(p)'
<1>0. /\ send \in [Client -> Seq(CallId \cup {Other})] /\ hand \in [Client -> CallId \cup {Other}]
      /\ seen \in [Client -> SUBSET CallId]
  BY DEF IInv, TypeOK, OutOK, ConnOK
<1>1. i \in Elements(send'[c]) \cup {hand'[c]} \cup seen'[c] /\ i # Other
  BY DEF Carried
<1>2. i \notin Elements(send[c]) /\ i # hand[c] /\ i \notin seen[c]
  BY <1>1 DEF Carried
<1>3. \/ \E d \in Client : SendOwed(d) \/ Write(d) \/ \E j \in CallId : TakeAnswer(d, j)
      \/ \E p \in Caller : CallEnqueues(p)
  <2>1. ASSUME UNCHANGED <<send, hand, seen>> PROVE FALSE
    BY <1>1, <1>2, <2>1
  <2>2. ASSUME NEW d \in Client, Connect(d) \/ OpArrives(d) \/ Break(d) \/ Read(d) PROVE FALSE
    BY <2>1, <2>2 DEF Connect, OpArrives, Break, Read, DeliverAnswer, ReadFails, RemoveClient, CloseSend
  <2>3. ASSUME NEW p \in Caller,
               \/ CallRegisters(p) \/ CallGetsResult(p) \/ CallCleansUp(p) \/ CallTimesOut(p)
               \/ \E d \in Client : CallFinds(p, d)
        PROVE  FALSE
    BY <2>1, <2>3 DEF CallRegisters, CallGetsResult, CallCleansUp, CallTimesOut, CallFinds
  <2>4. CASE Emit \/ UNCHANGED vars
    BY <2>1, <2>4 DEF Emit, vars
  <2> QED
    BY <2>2, <2>3, <2>4 DEF Next, Proceed
<1>4. ASSUME NEW d \in Client, NEW m \in CallId \cup {Other}, Enqueue(d, m),
             UNCHANGED <<hand, seen>>
      PROVE  d = c /\ i = m /\ Takes(d)
  <2>1. CASE ~Takes(d)
    BY <1>1, <1>2, <1>4, <2>1 DEF Enqueue
  <2>2. CASE Takes(d)
    <3>1. send' = [send EXCEPT ![d] = Append(send[d], m)]
      BY <1>4, <2>2 DEF Enqueue
    <3>2. CASE d # c
      BY <1>0, <1>1, <1>2, <1>4, <3>1, <3>2
    <3>3. CASE d = c
      <4>1. send'[c] = Append(send[c], m) /\ send[c] \in Seq(CallId \cup {Other})
        BY <1>0, <3>1, <3>3
      <4>2. Elements(Append(send[c], m)) = Elements(send[c]) \cup {m}
        BY <4>1, AppendElements
      <4> QED
        BY <1>1, <1>2, <1>4, <2>2, <3>3, <4>1, <4>2
    <3> QED
      BY <3>2, <3>3
  <2> QED
    BY <2>1, <2>2
<1>5. ASSUME NEW d \in Client, SendOwed(d) PROVE FALSE
  <2>1. Enqueue(d, Other) /\ UNCHANGED <<hand, seen>>
    BY <1>5 DEF SendOwed
  <2>2. i = Other
    BY <1>4, <2>1
  <2> QED
    BY <1>1, <2>2
<1>6. ASSUME NEW d \in Client, WriterTakes(d) PROVE FALSE
  <2>1. /\ send[d] # <<>> /\ hand' = [hand EXCEPT ![d] = Head(send[d])]
        /\ send' = [send EXCEPT ![d] = Tail(send[d])] /\ UNCHANGED seen
    BY <1>6 DEF WriterTakes
  <2>2. CASE d # c
    BY <1>0, <1>1, <1>2, <2>1, <2>2
  <2>3. CASE d = c
    <3>1. send'[c] = Tail(send[c]) /\ hand'[c] = Head(send[c]) /\ send[c] # <<>>
          /\ send[c] \in Seq(CallId \cup {Other})
      BY <1>0, <2>1, <2>3
    <3>2. Elements(Tail(send[c])) \subseteq Elements(send[c]) /\ Head(send[c]) \in Elements(send[c])
      BY <3>1, TailElements
    <3> QED
      BY <1>1, <1>2, <2>1, <3>1, <3>2
  <2> QED
    BY <2>2, <2>3
<1>7. ASSUME NEW d \in Client, WriterWrites(d) \/ WriterEnds(d) \/ \E j \in CallId : TakeAnswer(d, j)
      PROVE  FALSE
  <2>1. /\ UNCHANGED send /\ hand'[c] \in {Other, hand[c]}
        /\ seen'[c] \subseteq seen[c] \cup {hand[c]}
    BY <1>0, <1>7 DEF WriterWrites, WriterEnds, TakeAnswer
  <2> QED
    BY <1>1, <1>2, <2>1
<1>8. ASSUME NEW p \in Caller, CallEnqueues(p)
      PROVE  peer[p] = c /\ id[p] = i /\ Active(p)'
  <2>1. /\ peer[p] \in Client /\ id[p] \in CallId \cup {Other}
        /\ pc \in [Caller -> {"idle", "register", "enqueue", "wait", "cleanup"}]
    BY DEF IInv, TypeOK, CallOK, None, Other
  <2>2. Enqueue(peer[p], id[p]) /\ UNCHANGED <<hand, seen>>
    BY <1>8 DEF CallEnqueues
  <2>3. peer[p] = c /\ i = id[p] /\ Takes(peer[p])
    BY <1>4, <2>1, <2>2
  <2>4. pc' = [pc EXCEPT ![p] = "wait"]
    BY <1>8, <2>3 DEF CallEnqueues
  <2> QED
    BY <2>1, <2>3, <2>4 DEF Active
<1> QED
  BY <1>3, <1>5, <1>6, <1>7, <1>8 DEF Write

\* So an id on its way to a client is always that of a call made to it, and
\* its caller is past the sending.
LEMMA RoutedStep == ASSUME RInv, [Next]_vars PROVE Routed'
<1>0. IInv /\ Routed /\ IInv' /\ GoOn
  BY CallsGoOn, Inductive DEF RInv
<1>1. nextCall' \in Nat
  BY <1>0, WsAssumption DEF IInv, TypeOK, HubOK
<1>2. \A c \in Client : Carried(c)' \subseteq CallId
  <2>1. ASSUME NEW c \in Client
        PROVE  Elements(send'[c]) \subseteq CallId \cup {Other}
    BY <1>0 DEF IInv, TypeOK, OutOK, Elements
  <2> QED
    BY <1>0, <2>1 DEF Carried, IInv, TypeOK, OutOK, ConnOK
<1> SUFFICES ASSUME NEW c \in Client, NEW i \in Carried(c)' PROVE MayReach(i, c)'
  BY DEF Routed
<1>3. i \in CallId
  BY <1>2
<1>4. CASE i \in Carried(c)
  BY <1>0, <1>1, <1>3, <1>4, ReachStep DEF Routed
<1>5. CASE i \notin Carried(c)
  <2>1. PICK p \in Caller : CallEnqueues(p) /\ peer[p] = c /\ id[p] = i /\ Active(p)'
    BY <1>0, <1>5, CarriedStep
  <2>2. UNCHANGED <<id, peer, nextCall>> /\ pc[p] = "enqueue" /\ pc'[p] # "enqueue"
    BY <2>1 DEF CallEnqueues, Result, RInv, IInv, TypeOK, CallOK
  <2>3. i # None /\ i <= nextCall
    BY <1>0, <1>3, <2>1, WsAssumption DEF CallId, None, IInv, IdsMade
  <2>4. \A q \in Caller : id'[q] = i => q = p
    BY <1>0, <2>1, <2>2, <2>3 DEF IInv, IdsOwn
  <2> QED
    BY <2>1, <2>2, <2>3, <2>4 DEF MayReach
<1> QED
  BY <1>4, <1>5

\* pending and callIDs lose a call that its caller has not cleaned up together,
\* or callIDs keeps it.
LEMMA ListedStep == ASSUME RInv, [Next]_vars PROVE Listed'
<1>0. /\ IInv /\ Listed /\ GoOn /\ callIDs \in [Client -> SUBSET CallId]
      /\ peer \in [Caller -> Client]
  BY CallsGoOn DEF RInv, IInv, TypeOK, HubOK, CallOK
<1> SUFFICES ASSUME NEW p \in Caller, Active(p)', id'[p] \in pending'
             PROVE  id'[p] \in callIDs'[peer'[p]]
  BY DEF Listed
<1>1. CASE ~(Active(p) /\ id'[p] = id[p] /\ peer'[p] = peer[p])
  BY <1>0, <1>1 DEF GoOn
<1>2. CASE Active(p) /\ id'[p] = id[p] /\ peer'[p] = peer[p]
  <2>1. ASSUME id[p] \in pending, callIDs[peer[p]] \subseteq callIDs'[peer[p]]
        PROVE  id'[p] \in callIDs'[peer'[p]]
    BY <1>0, <1>2, <2>1 DEF Listed
  <2>2. ASSUME UNCHANGED <<pending, callIDs>> PROVE id'[p] \in callIDs'[peer'[p]]
    BY <1>2, <2>1, <2>2
  <2>3. ASSUME NEW c \in Client, NEW i \in CallId, TakeAnswer(c, i)
        PROVE  id'[p] \in callIDs'[peer'[p]]
    <3>1. CASE i \in pending
      <4>1. pending' = pending \ {i} /\ callIDs' = [callIDs EXCEPT ![c] = callIDs[c] \ {i}]
        BY <2>3, <3>1 DEF TakeAnswer
      <4>2. id[p] \in callIDs[peer[p]] /\ id[p] # i
        BY <1>0, <1>2, <4>1 DEF Listed
      <4> QED
        BY <1>0, <1>2, <4>1, <4>2
    <3>2. CASE i \notin pending
      BY <2>2, <2>3, <3>2 DEF TakeAnswer
    <3> QED
      BY <3>1, <3>2
  <2>4. ASSUME NEW c \in Client, RemoveClient(c) PROVE id'[p] \in callIDs'[peer'[p]]
    <3>1. pending' \subseteq pending /\ UNCHANGED callIDs
      BY <2>4 DEF RemoveClient
    <3> QED
      BY <1>2, <2>1, <3>1
  <2>5. ASSUME NEW q \in Caller, CallRegisters(q) PROVE id'[p] \in callIDs'[peer'[p]]
    <3>1. CASE peer[q] \in clients
      <4>1. /\ pending' = pending \cup {nextCall + 1} /\ id'[q] = nextCall + 1
            /\ callIDs' = [callIDs EXCEPT ![peer[q]] = @ \cup {nextCall + 1}]
        BY <1>0, <2>5, <3>1 DEF CallRegisters, IInv, TypeOK, CallOK
      <4>2. nextCall + 1 \in callIDs'[peer[q]] /\ callIDs[peer[p]] \subseteq callIDs'[peer[p]]
        BY <1>0, <4>1
      <4>3. id[p] # nextCall + 1
        <5>1. nextCall \in Nat
          BY <1>0, WsAssumption DEF IInv, TypeOK, HubOK
        <5>2. id[p] <= nextCall
          BY <1>0 DEF IInv, IdsMade
        <5> QED
          BY <5>1, <5>2
      <4> QED
        BY <1>2, <2>1, <4>1, <4>2, <4>3
    <3>2. CASE peer[q] \notin clients
      BY <2>2, <2>5, <3>2 DEF CallRegisters
    <3> QED
      BY <3>1, <3>2
  <2>6. ASSUME NEW q \in Caller, CallCleansUp(q) PROVE id'[p] \in callIDs'[peer'[p]]
    <3>1. /\ pending' = pending \ {id[q]} /\ UNCHANGED <<id, peer>>
          /\ callIDs' = [callIDs EXCEPT ![peer[q]] = callIDs[peer[q]] \ {id[q]}]
      BY <2>6 DEF CallCleansUp
    <3>2. id[p] \in callIDs[peer[p]] /\ id[p] # id[q]
      BY <1>0, <1>2, <3>1 DEF Listed
    <3> QED
      BY <1>0, <3>1, <3>2
  <2>7. ASSUME NEW c \in Client,
               \/ Connect(c) \/ OpArrives(c) \/ SendOwed(c) \/ Break(c) \/ Write(c)
               \/ DeliverAnswer(c) \/ ReadFails(c) \/ CloseSend(c)
        PROVE  id'[p] \in callIDs'[peer'[p]]
    BY <2>2, <2>7 DEF Connect, OpArrives, SendOwed, Break, Write, WriterTakes, WriterWrites,
       WriterEnds, DeliverAnswer, ReadFails, CloseSend
  <2>8. ASSUME NEW q \in Caller,
               \/ CallEnqueues(q) \/ CallGetsResult(q) \/ CallTimesOut(q)
               \/ \E c \in Client : CallFinds(q, c)
        PROVE  id'[p] \in callIDs'[peer'[p]]
    BY <2>2, <2>8 DEF CallEnqueues, CallGetsResult, CallTimesOut, CallFinds
  <2>9. CASE Emit \/ UNCHANGED vars
    BY <2>2, <2>9 DEF Emit, vars
  <2> QED
    BY <2>3, <2>4, <2>5, <2>6, <2>7, <2>8, <2>9 DEF Next, Read, Proceed
<1> QED
  BY <1>1, <1>2

\* No browser has seen a call that is not yet sent; removeClient alone ends it.
LEMMA UnansweredStep == ASSUME RInv, [Next]_vars PROVE Unanswered'
<1>0. /\ IInv /\ Routed /\ Unanswered /\ GoOn /\ slot \in [CallId -> {<<>>} \cup {<<a>> : a \in Answers}]
      /\ <<>> # <<"disconnected">>
  BY CallsGoOn DEF RInv, IInv, TypeOK, HubOK
<1> SUFFICES ASSUME NEW p \in Caller, pc'[p] = "enqueue"
             PROVE  id'[p] \in pending' \/ slot'[id'[p]] = <<"disconnected">>
  BY DEF Unanswered
<1>1. CASE ~(pc[p] = "enqueue" /\ id'[p] = id[p])
  BY <1>0, <1>1 DEF GoOn, Active
<1>2. CASE pc[p] = "enqueue" /\ id'[p] = id[p]
  <2> DEFINE i == id[p]
  <2>0. Active(p) /\ i \in CallId /\ (i \in pending \/ slot[i] = <<"disconnected">>)
    BY <1>0, <1>2 DEF Active, IInv, IdsOwn, TypeOK, CallOK, Unanswered
  <2>1. ASSUME i \in pending => i \in pending', slot'[i] = slot[i] PROVE i \in pending' \/ slot'[i] = <<"disconnected">>
    BY <2>0, <2>1
  <2>2. \A q \in Caller : pc[q] \in {"wait", "cleanup"} => id[q] # i
    BY <1>0, <1>2, <2>0 DEF IInv, IdsOwn, Active, None
  <2> HIDE DEF i
  <2>3. ASSUME NEW c \in Client, NEW j \in CallId, TakeAnswer(c, j)
        PROVE  i \in pending' \/ slot'[i] = <<"disconnected">>
    <3>1. j \in Carried(c)
      BY <2>3 DEF TakeAnswer, Carried, CallId, Other
    <3>2. i # j
      BY <1>0, <1>2, <2>0, <3>1 DEF Routed, MayReach, i
    <3> QED
      BY <2>1, <2>3, <3>2 DEF TakeAnswer
  <2>4. ASSUME NEW c \in Client, DeliverAnswer(c)
        PROVE  i \in pending' \/ slot'[i] = <<"disconnected">>
    <3>1. /\ UNCHANGED pending /\ slot[taken[c]] = <<>> /\ taken[c] # None
          /\ \A j \in CallId : j # taken[c] => slot'[j] = slot[j]
      BY <1>0, <2>4 DEF DeliverAnswer, IInv, ReaderOwns
    <3>2. i # taken[c] \/ i \in pending
      BY <1>0, <2>0, <3>1
    <3> QED
      BY <2>0, <2>1, <3>1, <3>2
  <2>5. ASSUME NEW c \in Client, RemoveClient(c)
        PROVE  i \in pending' \/ slot'[i] = <<"disconnected">>
    BY <2>0, <2>5 DEF RemoveClient
  <2>6. ASSUME NEW q \in Caller, CallGetsResult(q)
        PROVE  i \in pending' \/ slot'[i] = <<"disconnected">>
    <3>1. UNCHANGED pending /\ slot' = [slot EXCEPT ![id[q]] = <<>>] /\ id[q] # i
      BY <2>2, <2>6 DEF CallGetsResult
    <3> QED
      BY <1>0, <2>0, <2>1, <3>1
  <2>7. ASSUME NEW q \in Caller, CallCleansUp(q)
        PROVE  i \in pending' \/ slot'[i] = <<"disconnected">>
    <3>1. pending' = pending \ {id[q]} /\ UNCHANGED slot /\ id[q] # i
      BY <2>2, <2>7 DEF CallCleansUp
    <3> QED
      BY <2>1, <3>1
  <2>8. ASSUME NEW q \in Caller,
               \/ CallRegisters(q) \/ CallEnqueues(q) \/ CallTimesOut(q)
               \/ \E c \in Client : CallFinds(q, c)
        PROVE  i \in pending' \/ slot'[i] = <<"disconnected">>
    <3>1. pending \subseteq pending' /\ UNCHANGED slot
      BY <2>8 DEF CallRegisters, CallEnqueues, CallTimesOut, CallFinds
    <3> QED
      BY <2>1, <3>1
  <2>9. ASSUME NEW c \in Client,
               \/ Connect(c) \/ OpArrives(c) \/ SendOwed(c) \/ Break(c) \/ Write(c)
               \/ ReadFails(c) \/ CloseSend(c)
        PROVE  i \in pending' \/ slot'[i] = <<"disconnected">>
    <3>1. UNCHANGED <<pending, slot>>
      BY <2>9 DEF Connect, OpArrives, SendOwed, Break, Write, WriterTakes, WriterWrites,
         WriterEnds, ReadFails, CloseSend
    <3> QED
      BY <2>1, <3>1
  <2>10. ASSUME Emit \/ UNCHANGED vars PROVE i \in pending' \/ slot'[i] = <<"disconnected">>
    <3>1. UNCHANGED <<pending, slot>>
      BY <2>10 DEF Emit, vars
    <3> QED
      BY <2>1, <3>1
  <2>11. i \in pending' \/ slot'[i] = <<"disconnected">>
    BY <2>3, <2>4, <2>5, <2>6, <2>7, <2>8, <2>9, <2>10 DEF Next, Read, Proceed
  <2> QED
    BY <1>2, <2>11 DEF i
<1> QED
  BY <1>1, <1>2

LEMMA InitRInv == Init => RInv
<1> SUFFICES ASSUME Init PROVE RInv
  OBVIOUS
<1>1. Listed /\ Unanswered
  BY DEF Init, Listed, Unanswered, Active
<1>2. Routed
  <2>1. /\ send = [c \in Client |-> <<>>] /\ hand = [c \in Client |-> Other]
        /\ seen = [c \in Client |-> {}]
    BY DEF Init
  <2>2. \A c \in Client : Carried(c) = {}
    BY <2>1 DEF Carried, Elements
  <2> QED
    BY <2>2 DEF Routed
<1> QED
  BY <1>1, <1>2, InitOK DEF RInv

LEMMA RInvariance == Spec => []RInv
<1>1. RInv /\ [Next]_vars => RInv'
  BY Inductive, ListedStep, RoutedStep, UnansweredStep DEF RInv
<1> QED
  BY <1>1, InitRInv, PTL DEF Spec

\* A caller whose place, id and entry stay stands where it stood.
LEMMA SameStanding ==
  ASSUME TypeOK, NEW q \in Caller, pc'[q] = pc[q], id'[q] = id[q],
         Active(q) => /\ id[q] \in pending' <=> id[q] \in pending
                      /\ slot'[id[q]] = <<"disconnected">> <=> slot[id[q]] = <<"disconnected">>
  PROVE  Standing(q)' = Standing(q)
<1>1. CASE pc[q] \in {"idle", "cleanup", "register"}
  BY <1>1 DEF Standing
<1>2. CASE Active(q)
  BY <1>2 DEF Standing
<1> QED
  BY <1>1, <1>2 DEF TypeOK, CallOK, Active

\* When all callers stand where they stood but p, Standings changes in p.
LEMMA OneStanding ==
  ASSUME NEW p \in Caller, \A q \in Caller \ {p} : Standing(q)' = Standing(q), NEW s,
         Standing(p)' = s
  PROVE  Standings' = [Standings EXCEPT ![p] = s]
BY DEF Standings

\* The readers that go on without leaving the hub, and everything that is sent
\* and written, change nothing that a caller can tell.
LEMMA QuietStep ==
  ASSUME UNCHANGED <<hub, call, Departed>>
  PROVE  UNCHANGED RC!vars
BY DEF RC!vars, Standings, Standing

\* A new connection joins.
LEMMA JoinRefines == ASSUME RInv, NEW c \in Client, Connect(c) PROVE RC!Join(c)
<1>1. /\ reader[c] = "none" /\ clients' = clients \cup {c} /\ reader' = [reader EXCEPT ![c] = "read"]
      /\ UNCHANGED <<pending, slot, call>>
  BY DEF Connect
<1>2. c \notin clients \cup Departed /\ Departed' = Departed
  BY <1>1 DEF RInv, IInv, ReaderOwns, TypeOK, ConnOK, Departed
<1>3. Standings' = Standings
  BY <1>1 DEF Standings, Standing
<1> QED
  BY <1>1, <1>2, <1>3 DEF RC!Join

\* removeClient is the step in which a browser leaves: its open calls, the ones
\* listed in callIDs[c], are those made to it that are not answered.
LEMMA LeaveRefines == ASSUME RInv, NEW c \in Client, RemoveClient(c) PROVE RC!Leave(c)
<1> DEFINE open == OpenCalls(c)
<1>0. TypeOK /\ IInv /\ pending \subseteq CallId
  BY DEF RInv, IInv, TypeOK, HubOK
<1>1. /\ reader[c] = "remove" /\ clients' = clients \ {c} /\ pending' = pending \ open
      /\ slot' = [i \in CallId |-> IF i \in open THEN <<"disconnected">> ELSE slot[i]]
      /\ reader' = [reader EXCEPT ![c] = "close"] /\ UNCHANGED call
  BY DEF RemoveClient
<1>2. open = callIDs[c] \cap pending
  BY DEF OpenCalls
<1> HIDE DEF open
<1>3. c \in clients /\ Departed' = Departed \cup {c}
  BY <1>0, <1>1 DEF IInv, ReaderOwns, TypeOK, ConnOK, Departed
<1>4. ASSUME NEW p \in Caller
      PROVE  Standing(p)' = IF peer[p] = c /\ Standing(p) \in {"open", "sent"} THEN "lost"
                            ELSE Standing(p)
  <2>1. CASE ~Active(p)
    <3>1. Standing(p)' = Standing(p) /\ Standing(p) \notin {"open", "sent"}
      BY <1>0, <1>1, <2>1 DEF Standing, Active, TypeOK, CallOK
    <3> QED
      BY <3>1
  <2>2. CASE Active(p)
    <3>1. id[p] \in CallId /\ (id[p] \in open <=> id[p] \in pending /\ peer[p] = c)
      <4>1. id[p] \in CallId
        BY <1>0, <2>2 DEF IInv, IdsOwn, CallOK, TypeOK
      <4>2. ASSUME id[p] \in open PROVE peer[p] = c
        BY <1>0, <1>2, <2>2, <4>1, <4>2 DEF IInv, Owned, IdsOwn
      <4> QED
        BY <1>2, <2>2, <4>1, <4>2 DEF RInv, Listed
    <3>2. slot'[id[p]] = IF id[p] \in open THEN <<"disconnected">> ELSE slot[id[p]]
      BY <1>1, <3>1
    <3>3. Standing(p) \in {"open", "sent"} <=> pc[p] # "cleanup" /\ id[p] \in pending
      BY <2>2 DEF Standing, Active
    <3>4. CASE id[p] \in open
      BY <1>1, <2>2, <3>1, <3>2, <3>3, <3>4 DEF Standing, Active
    <3>5. CASE id[p] \notin open
      <4>1. Standing(p)' = Standing(p)
        BY <1>0, <1>1, <3>2, <3>5, SameStanding
      <4> QED
        BY <3>1, <3>3, <3>5, <4>1
    <3> QED
      BY <3>4, <3>5
  <2> QED
    BY <2>1, <2>2
<1>5. Standings' = [p \in Caller |-> IF peer[p] = c /\ Standings[p] \in {"open", "sent"} THEN "lost"
                                     ELSE Standings[p]]
  BY <1>4 DEF Standings
<1> QED
  BY <1>1, <1>3, <1>5 DEF RC!Leave

\* deliverCallResult answers the call whose id the browser names, made to it,
\* sent and still waiting; an id of no such call is ignored.
LEMMA AnswerRefines ==
  ASSUME RInv, NEW c \in Client, NEW i \in CallId, TakeAnswer(c, i)
  PROVE  (\E p \in Caller : RC!Answer(p)) \/ UNCHANGED RC!vars
<1>0. TypeOK /\ IInv
  BY DEF RInv, IInv
<1>1. /\ reader[c] = "read" /\ i \in seen[c] /\ UNCHANGED <<clients, slot, call>>
  BY DEF TakeAnswer
<1>2. CASE i \notin pending
  BY <1>2, QuietStep DEF TakeAnswer, Departed
<1>3. CASE i \in pending
  <2>1. pending' = pending \ {i} /\ reader' = [reader EXCEPT ![c] = "deliver"]
    BY <1>3 DEF TakeAnswer
  <2>2. Departed' = Departed /\ c \in clients
    BY <1>0, <1>1, <2>1 DEF TypeOK, ConnOK, IInv, ReaderOwns, Departed
  <2>3. PICK p \in Caller : Active(p) /\ id[p] = i
    BY <1>0, <1>3 DEF IInv, Owned
  <2>4. peer[p] = c /\ pc[p] # "enqueue"
    <3>1. i \in Carried(c)
      BY <1>1 DEF Carried, CallId, Other
    <3> QED
      BY <2>3, <3>1 DEF RInv, Routed, MayReach
  <2>5. \A q \in Caller \ {p} : Standing(q)' = Standing(q)
    <3>1. \A q \in Caller \ {p} : Active(q) => id[q] # i
      BY <1>0, <2>3 DEF IInv, IdsOwn
    <3> QED
      BY <1>0, <1>1, <2>1, <3>1, SameStanding
  <2>6. CASE pc[p] = "wait"
    <3>1. slot[i] = <<>> /\ <<>> # <<"disconnected">>
      BY <1>0, <1>3 DEF IInv, AtMostOneAnswer
    <3>2. Standing(p) = "sent" /\ Standing(p)' = "answered"
      BY <1>1, <1>3, <2>1, <2>3, <2>6, <3>1 DEF Standing
    <3>3. Standings[p] = "sent" /\ Standings' = [Standings EXCEPT ![p] = "answered"]
      BY <2>5, <3>2, OneStanding DEF Standings
    <3> QED
      BY <1>1, <2>2, <2>4, <3>3 DEF RC!Answer
  <2>7. CASE pc[p] = "cleanup"
    <3>1. Standing(p)' = Standing(p)
      BY <1>1, <2>7 DEF Standing
    <3>2. Standings' = Standings
      BY <2>5, <3>1 DEF Standings
    <3> QED
      BY <1>1, <2>2, <3>2 DEF RC!vars
  <2> QED
    BY <2>3, <2>4, <2>6, <2>7 DEF Active
<1> QED
  BY <1>2, <1>3

\* Handing the answer over changes nothing: the call has been answered before.
LEMMA DeliverQuiet ==
  ASSUME RInv, NEW c \in Client, DeliverAnswer(c) PROVE UNCHANGED RC!vars
<1>0. TypeOK /\ taken[c] # None
  BY DEF RInv, IInv, ReaderOwns, DeliverAnswer
<1>1. PICK r \in {"value", "error"} : slot' = [slot EXCEPT ![taken[c]] = <<r>>]
  BY DEF DeliverAnswer
<1>2. /\ reader[c] = "deliver" /\ reader' = [reader EXCEPT ![c] = "read"] /\ slot[taken[c]] = <<>>
      /\ UNCHANGED <<clients, pending, call>>
  BY DEF DeliverAnswer
<1>3. Departed' = Departed
  BY <1>0, <1>2 DEF TypeOK, ConnOK, Departed
<1>4. \A i \in CallId : slot'[i] = <<"disconnected">> <=> slot[i] = <<"disconnected">>
  <2>1. <<r>> # <<"disconnected">> /\ <<>> # <<"disconnected">>
    OBVIOUS
  <2> QED
    BY <1>0, <1>1, <1>2, <2>1 DEF TypeOK, HubOK
<1>5. \A q \in Caller : Active(q) => id[q] \in CallId
  BY DEF RInv, IInv, IdsOwn, TypeOK, CallOK
<1>6. \A q \in Caller : Standing(q)' = Standing(q)
  BY <1>0, <1>2, <1>4, <1>5, SameStanding
<1> QED
  BY <1>2, <1>3, <1>6 DEF RC!vars, Standings

\* How Standings follows a step of one caller that leaves the others' entries.
LEMMA CallerStanding ==
  ASSUME TypeOK, NEW p \in Caller, NEW s, Standing(p)' = s,
         \A q \in Caller \ {p} :
           /\ pc'[q] = pc[q] /\ id'[q] = id[q]
           /\ Active(q) => /\ id[q] \in pending' <=> id[q] \in pending
                           /\ slot'[id[q]] = slot[id[q]]
  PROVE  Standings' = [Standings EXCEPT ![p] = s]
<1>1. \A q \in Caller \ {p} : Standing(q)' = Standing(q)
  BY SameStanding
<1> QED
  BY <1>1, OneStanding

\* findClient asks, and the registration under ws.mu begins or refuses.
LEMMA AskRefines ==
  ASSUME RInv, NEW p \in Caller, NEW c \in Client, CallFinds(p, c) PROVE RC!Ask(p, c)
<1>1. /\ pc[p] = "idle" /\ c \in clients /\ pc' = [pc EXCEPT ![p] = "register"]
      /\ peer' = [peer EXCEPT ![p] = c] /\ res' = [res EXCEPT ![p] = ""]
      /\ UNCHANGED <<hub, reader, id>> /\ TypeOK
  BY DEF CallFinds, RInv, IInv
<1>2. Standings[p] = "none" /\ Standing(p)' = "asked"
  BY <1>1 DEF Standings, Standing, TypeOK, CallOK
<1>3. \A q \in Caller \ {p} : pc'[q] = pc[q]
  BY <1>1 DEF TypeOK, CallOK
<1>4. Standings' = [Standings EXCEPT ![p] = "asked"]
  BY <1>1, <1>2, <1>3, CallerStanding
<1> QED
  BY <1>1, <1>2, <1>4 DEF RC!Ask, Departed

LEMMA RegisterRefines ==
  ASSUME RInv, NEW p \in Caller, CallRegisters(p) PROVE RC!Begin(p) \/ RC!Refuse(p)
<1>0. /\ TypeOK /\ IInv /\ pc[p] = "register" /\ peer[p] \in Client
      /\ pc \in [Caller -> {"idle", "register", "enqueue", "wait", "cleanup"}]
      /\ id \in [Caller -> CallId \cup {None}] /\ Standings[p] = "asked"
  BY DEF RInv, IInv, TypeOK, CallOK, CallRegisters, Standings, Standing
<1>1. CASE peer[p] \in clients
  <2> DEFINE n == nextCall + 1
  <2>1. /\ id' = [id EXCEPT ![p] = n] /\ pending' = pending \cup {n}
        /\ pc' = [pc EXCEPT ![p] = "enqueue"] /\ UNCHANGED <<clients, slot, reader, peer, res>>
    BY <1>1 DEF CallRegisters
  <2>2. \A q \in Caller : id[q] # n
    <3>1. nextCall \in Nat
      BY <1>0, WsAssumption DEF TypeOK, HubOK
    <3>2. \A q \in Caller : id[q] <= nextCall
      BY <1>0 DEF IInv, IdsMade
    <3> QED
      BY <3>1, <3>2
  <2> HIDE DEF n
  <2>3. Standing(p)' = "open"
    BY <1>0, <2>1 DEF Standing
  <2>4. \A q \in Caller \ {p} : /\ pc'[q] = pc[q] /\ id'[q] = id[q]
                                /\ id[q] \in pending' <=> id[q] \in pending
    BY <1>0, <2>1, <2>2
  <2>5. Standings' = [Standings EXCEPT ![p] = "open"]
    BY <1>0, <2>1, <2>3, <2>4, CallerStanding
  <2> QED
    BY <1>0, <1>1, <2>1, <2>5 DEF RC!Begin, Departed
<1>2. CASE peer[p] \notin clients
  <2>1. /\ pc' = [pc EXCEPT ![p] = "idle"] /\ res' = [res EXCEPT ![p] = "disconnected"]
        /\ UNCHANGED <<hub, reader, peer, id>>
    BY <1>2 DEF CallRegisters
  <2>2. peer[p] \in Departed
    BY <1>0, <1>2 DEF IInv, ReaderOwns, PeerGone, TypeOK, ConnOK, Departed
  <2>3. Standing(p)' = "none" /\ \A q \in Caller \ {p} : pc'[q] = pc[q]
    BY <1>0, <2>1 DEF Standing
  <2>4. Standings' = [Standings EXCEPT ![p] = "none"]
    BY <1>0, <2>1, <2>3, CallerStanding
  <2> QED
    BY <1>0, <2>1, <2>2, <2>4 DEF RC!Refuse, Departed
<1> QED
  BY <1>1, <1>2

\* A step that ends the call with r is allowed to by what became of the call.
LEMMA ReturnRefines ==
  ASSUME RInv, NEW p \in Caller, NEW r, Result(p, r), r \in RC!Outcomes[Standing(p)],
         UNCHANGED <<clients, pending, reader, peer, id>>,
         \A i \in CallId : i # id[p] => slot'[i] = slot[i]
  PROVE  \E x \in RC!Outcomes[Standings[p]] : RC!Return(p, x)
<1>0. /\ TypeOK /\ pc \in [Caller -> {"idle", "register", "enqueue", "wait", "cleanup"}]
      /\ \A q \in Caller \ {p} : Active(q) => id[q] \in CallId /\ id[q] # id[p]
  BY DEF RInv, IInv, IdsOwn, TypeOK, CallOK
<1>1. pc' = [pc EXCEPT ![p] = "cleanup"] /\ res' = [res EXCEPT ![p] = r]
  BY DEF Result
<1>2. Standing(p)' = "none" /\ \A q \in Caller \ {p} : pc'[q] = pc[q]
  BY <1>0, <1>1 DEF Standing
<1>3. Standings' = [Standings EXCEPT ![p] = "none"]
  BY <1>0, <1>2, CallerStanding
<1>4. r \in RC!Outcomes[Standings[p]]
  BY DEF Standings
<1>5. Departed' = Departed
  BY DEF Departed
<1> QED
  BY <1>1, <1>3, <1>4, <1>5 DEF RC!Return

\* The message is put into the send channel, or the channel takes none.
LEMMA EnqueueRefines ==
  ASSUME RInv, NEW p \in Caller, CallEnqueues(p)
  PROVE  \/ RC!Deliver(p) \/ UNCHANGED RC!vars
         \/ \E x \in RC!Outcomes[Standings[p]] : RC!Return(p, x)
<1>0. /\ TypeOK /\ pc[p] = "enqueue"
      /\ pc \in [Caller -> {"idle", "register", "enqueue", "wait", "cleanup"}]
      /\ Standing(p) \in {"open", "lost"} /\ UNCHANGED <<hub, reader, peer, id>>
  BY DEF RInv, IInv, TypeOK, CallOK, CallEnqueues, Standing, Unanswered
<1>1. CASE Takes(peer[p])
  <2>1. pc' = [pc EXCEPT ![p] = "wait"] /\ UNCHANGED res
    BY <1>1 DEF CallEnqueues
  <2>2. Standing(p)' = IF Standing(p) = "open" THEN "sent" ELSE Standing(p)
    BY <1>0, <2>1 DEF Standing
  <2>3. \A q \in Caller \ {p} : pc'[q] = pc[q]
    BY <2>1
  <2>4. Standings' = [Standings EXCEPT ![p] = Standing(p)']
    BY <1>0, <2>3, CallerStanding
  <2>5. CASE Standing(p) = "open"
    BY <1>0, <2>1, <2>2, <2>4, <2>5 DEF RC!Deliver, Standings, Departed
  <2>6. CASE Standing(p) = "lost"
    <3>1. Standings' = Standings
      BY <2>2, <2>4, <2>6 DEF Standings
    <3> QED
      BY <1>0, <2>1, <3>1 DEF RC!vars, Departed
  <2> QED
    BY <1>0, <2>5, <2>6
<1>2. CASE ~Takes(peer[p])
  <2>1. Result(p, "unreachable") /\ UNCHANGED slot
    BY <1>0, <1>2 DEF CallEnqueues
  <2>2. "unreachable" \in RC!Outcomes[Standing(p)]
    BY <1>0 DEF RC!Outcomes
  <2> QED
    BY <1>0, <2>1, <2>2, ReturnRefines
<1> QED
  BY <1>1, <1>2

\* A caller that waits takes what is in its slot, which is what became of the
\* call, or times out.
LEMMA WaitRefines ==
  ASSUME RInv, NEW p \in Caller, CallGetsResult(p) \/ CallTimesOut(p)
  PROVE  \E x \in RC!Outcomes[Standings[p]] : RC!Return(p, x)
<1>0. pc[p] = "wait" /\ Standing(p) \in {"sent", "lost", "answered"} /\ id[p] \in CallId
  BY DEF CallGetsResult, CallTimesOut, Standing, RInv, IInv, IdsOwn, Active, TypeOK, CallOK
<1>1. CASE CallTimesOut(p)
  <2>1. "timeout" \in RC!Outcomes[Standing(p)]
    BY <1>0 DEF RC!Outcomes
  <2>2. /\ Result(p, "timeout") /\ UNCHANGED <<clients, pending, reader, peer, id>>
        /\ \A i \in CallId : i # id[p] => slot'[i] = slot[i]
    BY <1>1 DEF CallTimesOut
  <2> QED
    BY <2>1, <2>2, ReturnRefines
<1>2. CASE CallGetsResult(p)
  <2>1. PICK a \in Answers : slot[id[p]] = <<a>>
    BY <1>0, <1>2 DEF CallGetsResult, RInv, IInv, TypeOK, HubOK
  <2>2. Head(slot[id[p]]) = a /\ <<a>> # <<>>
    BY <2>1
  <2>3. id[p] \notin pending
    BY <2>1, <2>2 DEF RInv, IInv, AtMostOneAnswer
  <2>4. Standing(p) = IF a = "disconnected" THEN "lost" ELSE "answered"
    BY <1>0, <2>1, <2>3 DEF Standing
  <2>5. a \in RC!Outcomes[Standing(p)]
    BY <2>4 DEF RC!Outcomes, Answers
  <2>6. /\ Result(p, a) /\ UNCHANGED <<clients, pending, reader, peer, id>>
        /\ \A i \in CallId : i # id[p] => slot'[i] = slot[i]
    BY <1>2, <2>2 DEF CallGetsResult, RInv, IInv, TypeOK, HubOK
  <2> QED
    BY <2>5, <2>6, ReturnRefines
<1> QED
  BY <1>1, <1>2

\* The clean-up after the result changes no call.
LEMMA CleanUpQuiet ==
  ASSUME RInv, NEW p \in Caller, CallCleansUp(p) PROVE UNCHANGED RC!vars
<1>0. /\ TypeOK /\ pc[p] = "cleanup" /\ pc' = [pc EXCEPT ![p] = "idle"]
      /\ pending' = pending \ {id[p]} /\ UNCHANGED <<clients, slot, reader, peer, id, res>>
      /\ pc \in [Caller -> {"idle", "register", "enqueue", "wait", "cleanup"}]
  BY DEF RInv, IInv, TypeOK, CallOK, CallCleansUp
<1>1. Standing(p) = "none" /\ Standing(p)' = "none"
  BY <1>0 DEF Standing
<1>2. \A q \in Caller \ {p} : pc'[q] = pc[q] /\ (Active(q) => id[q] # id[p])
  BY <1>0 DEF RInv, IInv, IdsOwn, Active
<1>3. Standings' = [Standings EXCEPT ![p] = "none"]
  BY <1>0, <1>1, <1>2, CallerStanding
<1>4. Standings' = Standings
  BY <1>1, <1>3 DEF Standings
<1> QED
  BY <1>0, <1>4 DEF RC!vars, Departed

\* The hub gives every ws-call what RemoteCall promises, whatever the channels,
\* timers, readers and writers in between do and in whatever order.
THEOREM RemoteCallRefinement == Spec => ImplementsRemoteCall
<1>1. Init => RC!Init
  <2> SUFFICES ASSUME Init PROVE RC!Init
    OBVIOUS
  <2>1. Standings = [p \in Caller |-> "none"] /\ Departed = {} /\ clients = {}
        /\ res = [p \in Caller |-> ""]
    BY DEF Init, Standings, Standing, Departed
  <2>2. peer \in [Caller -> Client]
    BY InitTypeOK DEF TypeOK, CallOK
  <2> QED
    BY <2>1, <2>2 DEF RC!Init
<1>2. RInv /\ [Next]_vars => [RC!Next]_(RC!vars)
  <2> SUFFICES ASSUME RInv, [Next]_vars PROVE RC!Next \/ UNCHANGED RC!vars
    OBVIOUS
  <2>1. ASSUME NEW c \in Client, Connect(c) \/ RemoveClient(c) \/ \E i \in CallId : TakeAnswer(c, i)
        PROVE  RC!Next \/ UNCHANGED RC!vars
    BY <2>1, JoinRefines, LeaveRefines, AnswerRefines DEF RC!Next
  <2>2. ASSUME NEW c \in Client,
               \/ OpArrives(c) \/ SendOwed(c) \/ Break(c) \/ Write(c)
               \/ DeliverAnswer(c) \/ ReadFails(c) \/ CloseSend(c)
        PROVE  UNCHANGED RC!vars
    <3>1. CASE DeliverAnswer(c)
      BY <3>1, DeliverQuiet
    <3>2. CASE ReadFails(c) \/ CloseSend(c)
      <4>1. Departed' = Departed
        BY <3>2 DEF ReadFails, CloseSend, RInv, IInv, TypeOK, ConnOK, Departed
      <4> QED
        BY <3>2, <4>1, QuietStep DEF ReadFails, CloseSend
    <3>3. CASE OpArrives(c) \/ SendOwed(c) \/ Break(c) \/ Write(c)
      BY <3>3, QuietStep DEF OpArrives, SendOwed, Break, Write, WriterTakes, WriterWrites, WriterEnds,
         Departed
    <3> QED
      BY <2>2, <3>1, <3>2, <3>3
  <2>3. ASSUME NEW p \in Caller, Proceed(p) \/ CallTimesOut(p) \/ \E c \in Client : CallFinds(p, c)
        PROVE  RC!Next \/ UNCHANGED RC!vars
    BY <2>3, AskRefines, RegisterRefines, EnqueueRefines, WaitRefines, CleanUpQuiet DEF Proceed, RC!Next
  <2>4. CASE Emit \/ UNCHANGED vars
    BY <2>4, QuietStep DEF Emit, vars, Departed
  <2> QED
    BY <2>1, <2>2, <2>3, <2>4 DEF Next, Read
<1> QED
  BY <1>1, <1>2, RInvariance, PTL DEF Spec, ImplementsRemoteCall, RC!Spec
================================================================================
