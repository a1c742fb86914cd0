--------------------------------- MODULE WsBridge ---------------------------------
(****************************************************************************)
(* The WebSocket hub of src/src/lib/wsbridge.go.  Per connection run a      *)
(* reader, which hands answers to waiting ws-calls and starts handleOp      *)
(* goroutines, and a writer, which alone writes what enqueue puts into the  *)
(* bounded send channel.  ws.mu                                             *)
(* protects clients, pending and callIDs, sendMu the closing of send; what  *)
(* is done under one lock is one step, what is done after it another.       *)
(*                                                                          *)
(* Payloads are left out: a message is the id of a ws-call or Other, and an *)
(* answer a value or an error.  A browser answers each call it receives at  *)
(* most once, possibly too late.                                            *)
(****************************************************************************)
EXTENDS Naturals, Sequences, FiniteSets

CONSTANTS Client,   \* connection ids; a new connection takes an unused one
          Caller,   \* goroutines that execute ws-call
          Cap,      \* capacity of a client's send channel (64)
          MaxCalls  \* bound of the model: ws-calls that get an id

ASSUME WsAssumption ==
  /\ Cap \in Nat \ {0} /\ MaxCalls \in Nat \ {0}
  /\ IsFiniteSet(Client) /\ Client # {}

CallId == 1..MaxCalls
Other == 0
None == 0

VARIABLES clients,  \* ws.clients
          pending,  \* the ids in ws.pending
          nextCall,
          callIDs,  \* callIDs[c]
          slot,     \* slot[id]: the buffered channel of call id
          send, sendClosed, \* client c's send channel
          reader,   \* reader[c]: where the reader goroutine of c is
          taken,    \* taken[c]: the call whose answer the reader delivers
          writer,   \* writer[c]: "none", "run", "write" or "dead"
          hand,     \* hand[c]: the message the writer is writing
          broken,   \* broken[c]: the connection is closed
          seen,     \* seen[c]: calls that browser c has received, not answered
          owes,     \* clients that a handleOp or a ws-emit still has to send to
          pc, peer, id, res \* a caller's place, client, call id and result

hub == <<clients, pending, nextCall, callIDs, slot>>
conn == <<reader, taken, broken, seen>>
out == <<send, sendClosed, writer, hand>>
call == <<pc, peer, id, res>>
vars == <<hub, conn, out, owes, call>>

Init ==
  /\ clients = {} /\ pending = {} /\ nextCall = 0
  /\ callIDs = [c \in Client |-> {}]
  /\ slot = [i \in CallId |-> <<>>]
  /\ send = [c \in Client |-> <<>>] /\ sendClosed = [c \in Client |-> FALSE]
  /\ reader = [c \in Client |-> "none"] /\ taken = [c \in Client |-> None]
  /\ writer = [c \in Client |-> "none"] /\ hand = [c \in Client |-> Other]
  /\ broken = [c \in Client |-> FALSE] /\ seen = [c \in Client |-> {}]
  /\ owes = {}
  /\ pc = [p \in Caller |-> "idle"] /\ peer \in [Caller -> Client]
  /\ id = [p \in Caller |-> None] /\ res = [p \in Caller |-> ""]
------------------------------------------------------------------------------
\* enqueue: the message is dropped when the channel is full or closed.
TakesOneMore(c) == ~sendClosed[c] /\ Len(send[c]) <= Cap
Takes(c) == ~sendClosed[c] /\ Len(send[c]) < Cap
Enqueue(c, m) == send' = IF Takes(c) THEN [send EXCEPT ![c] = Append(@, m)] ELSE send

\* handleWS: register the client, start the writer, enter the reader loop.
Connect(c) ==
  /\ reader[c] = "none"
  /\ clients' = clients \cup {c}
  /\ reader' = [reader EXCEPT ![c] = "read"]
  /\ writer' = [writer EXCEPT ![c] = "run"]
  /\ UNCHANGED <<pending, nextCall, callIDs, slot, taken, broken, seen, send, sendClosed, hand,
                 owes, call>>

TakeAnswerKeepsPending(c, i) ==
  /\ reader[c] = "read" /\ ~broken[c] /\ i \in seen[c]
  /\ seen' = [seen EXCEPT ![c] = @ \ {i}]
  /\ IF i \in pending
     THEN /\ callIDs' = [callIDs EXCEPT ![c] = @ \ {i}]
          /\ reader' = [reader EXCEPT ![c] = "deliver"]
          /\ taken' = [taken EXCEPT ![c] = i]
     ELSE UNCHANGED <<callIDs, reader, taken>>
  /\ UNCHANGED <<clients, pending, nextCall, slot, broken, out, owes, call>>

\* deliverCallResult: take the entry out of pending under the lock, whoever it is
\* that answers: that a browser answers the calls it has received, each of them
\* once (i \in seen[c]), is what the page's script does (boot.js) ...
TakeAnswer(c, i) ==
  /\ reader[c] = "read" /\ ~broken[c] /\ i \in seen[c]
  /\ seen' = [seen EXCEPT ![c] = @ \ {i}]
  /\ IF i \in pending
     THEN /\ pending' = pending \ {i}
          /\ callIDs' = [callIDs EXCEPT ![c] = @ \ {i}]
          /\ reader' = [reader EXCEPT ![c] = "deliver"]
          /\ taken' = [taken EXCEPT ![c] = i]
     ELSE UNCHANGED <<pending, callIDs, reader, taken>>
  /\ UNCHANGED <<clients, nextCall, slot, broken, out, owes, call>>

\* ... and send the result when the lock has been released.
DeliverAnswer(c) ==
  /\ reader[c] = "deliver" /\ slot[taken[c]] = <<>>
  /\ \E r \in {"value", "error"} : slot' = [slot EXCEPT ![taken[c]] = <<r>>]
  /\ reader' = [reader EXCEPT ![c] = "read"]
  /\ taken' = [taken EXCEPT ![c] = None]
  /\ UNCHANGED <<clients, pending, nextCall, callIDs, broken, seen, out, owes, call>>

\* The connection breaks (or the browser closes it) and ReadMessage fails.
Break(c) ==
  /\ reader[c] # "none" /\ ~broken[c]
  /\ broken' = [broken EXCEPT ![c] = TRUE]
  /\ UNCHANGED <<hub, reader, taken, seen, out, owes, call>>

ReadFails(c) ==
  /\ reader[c] = "read" /\ broken[c]
  /\ reader' = [reader EXCEPT ![c] = "remove"]
  /\ UNCHANGED <<hub, taken, broken, seen, out, owes, call>>

OpenCallsNone(c) == {}
OpenCallsAll(c) == pending
OpenCalls(c) == callIDs[c] \cap pending

\* removeClient: under the lock every open call of c gets an error, by a send
\* that must not block.  (idleAt, the clock of http-wait, is left out.)
RemoveClient(c) ==
  /\ reader[c] = "remove"
  /\ clients' = clients \ {c}
  /\ LET open == OpenCalls(c) IN
     /\ \A i \in open : slot[i] = <<>>
     /\ slot' = [i \in CallId |-> IF i \in open THEN <<"disconnected">> ELSE slot[i]]
     /\ pending' = pending \ open
  /\ reader' = [reader EXCEPT ![c] = "close"]
  /\ UNCHANGED <<nextCall, callIDs, taken, broken, seen, out, owes, call>>

CloseSendForgotten(c) ==
  /\ reader[c] = "close"
  /\ reader' = [reader EXCEPT ![c] = "gone"]
  /\ UNCHANGED <<hub, taken, broken, seen, out, owes, call>>

CloseSend(c) ==
  /\ reader[c] = "close"
  /\ sendClosed' = [sendClosed EXCEPT ![c] = TRUE]
  /\ reader' = [reader EXCEPT ![c] = "gone"]
  /\ UNCHANGED <<hub, taken, broken, seen, send, writer, hand, owes, call>>
------------------------------------------------------------------------------
\* writer: for msg := range c.send
WriterTakes(c) ==
  /\ writer[c] = "run" /\ send[c] # <<>>
  /\ hand' = [hand EXCEPT ![c] = Head(send[c])]
  /\ send' = [send EXCEPT ![c] = Tail(@)]
  /\ writer' = [writer EXCEPT ![c] = "write"]
  /\ UNCHANGED <<hub, conn, sendClosed, owes, call>>

\* WriteMessage succeeds (perhaps into a connection whose other end has gone),
\* or fails, which ends the writer and the connection.
WriterWrites(c) ==
  /\ writer[c] = "write"
  /\ hand' = [hand EXCEPT ![c] = Other]
  /\ \/ /\ writer' = [writer EXCEPT ![c] = "run"]
        /\ seen' = [seen EXCEPT ![c] = IF broken[c] THEN @ ELSE @ \cup ({hand[c]} \ {Other})]
        /\ UNCHANGED broken
     \/ /\ writer' = [writer EXCEPT ![c] = "dead"]
        /\ broken' = [broken EXCEPT ![c] = TRUE]
        /\ UNCHANGED seen
  /\ UNCHANGED <<hub, reader, taken, send, sendClosed, owes, call>>

\* The channel is closed and drained; conn.Close is deferred.
WriterEnds(c) ==
  /\ writer[c] = "run" /\ send[c] = <<>> /\ sendClosed[c]
  /\ writer' = [writer EXCEPT ![c] = "dead"]
  /\ broken' = [broken EXCEPT ![c] = TRUE]
  /\ UNCHANGED <<hub, reader, taken, seen, send, sendClosed, hand, owes, call>>
------------------------------------------------------------------------------
\* An op message starts handleOp, which sends one reply; ws-emit and ws-eval
\* take a snapshot of the clients, ws-emit-to looks one up.  All of them
\* enqueue later, without ws.mu.  (Two that owe the same client one message
\* each are not told from one.)
OpArrives(c) ==
  /\ reader[c] = "read" /\ ~broken[c]
  /\ owes' = owes \cup {c}
  /\ UNCHANGED <<hub, conn, out, call>>

Emit ==
  /\ \E targets \in {clients} \cup {{c} : c \in clients} : owes' = owes \cup targets
  /\ UNCHANGED <<hub, conn, out, call>>

SendOwed(c) ==
  /\ c \in owes
  /\ owes' = owes \ {c}
  /\ Enqueue(c, Other)
  /\ UNCHANGED <<hub, conn, sendClosed, writer, hand, call>>
------------------------------------------------------------------------------
\* ws-call: findClient.  (An unknown client is an error and changes nothing;
\* MaxCalls bounds the calls made.)
CallFinds(p, c) ==
  /\ pc[p] = "idle" /\ c \in clients /\ nextCall < MaxCalls
  /\ pc' = [pc EXCEPT ![p] = "register"]
  /\ peer' = [peer EXCEPT ![p] = c]
  /\ res' = [res EXCEPT ![p] = ""]
  /\ UNCHANGED <<hub, conn, out, owes, id>>

\* The client may have gone since: it is looked up again under the lock that
\* registers the call.
CallRegisters(p) ==
  /\ pc[p] = "register" /\ nextCall < MaxCalls
  /\ IF peer[p] \in clients
     THEN /\ nextCall' = nextCall + 1
          /\ id' = [id EXCEPT ![p] = nextCall']
          /\ pending' = pending \cup {nextCall'}
          /\ callIDs' = [callIDs EXCEPT ![peer[p]] = @ \cup {nextCall'}]
          /\ pc' = [pc EXCEPT ![p] = "enqueue"]
          /\ UNCHANGED res
     ELSE /\ pc' = [pc EXCEPT ![p] = "idle"]
          /\ res' = [res EXCEPT ![p] = "disconnected"]
          /\ UNCHANGED <<nextCall, id, pending, callIDs>>
  /\ UNCHANGED <<clients, slot, conn, out, owes, peer>>

\* The caller gets result r; the deferred clean-up comes next.
Result(p, r) ==
  /\ pc' = [pc EXCEPT ![p] = "cleanup"]
  /\ res' = [res EXCEPT ![p] = r]

CallEnqueues(p) ==
  /\ pc[p] = "enqueue"
  /\ Enqueue(peer[p], id[p])
  /\ IF Takes(peer[p]) THEN pc' = [pc EXCEPT ![p] = "wait"] /\ UNCHANGED res
                       ELSE Result(p, "unreachable")
  /\ UNCHANGED <<hub, conn, sendClosed, writer, hand, owes, peer, id>>

CallGetsResult(p) ==
  /\ pc[p] = "wait" /\ slot[id[p]] # <<>>
  /\ Result(p, Head(slot[id[p]]))
  /\ slot' = [slot EXCEPT ![id[p]] = <<>>]
  /\ UNCHANGED <<clients, pending, nextCall, callIDs, conn, out, owes, peer, id>>

CallTimesOut(p) ==
  /\ pc[p] = "wait"
  /\ Result(p, "timeout")
  /\ UNCHANGED <<hub, conn, out, owes, peer, id>>

CallCleansUpHalf(p) ==
  /\ pc[p] = "cleanup"
  /\ callIDs' = [callIDs EXCEPT ![peer[p]] = @ \ {id[p]}]
  /\ pc' = [pc EXCEPT ![p] = "idle"]
  /\ UNCHANGED <<clients, pending, nextCall, slot, conn, out, owes, peer, id, res>>

CallCleansUp(p) ==
  /\ pc[p] = "cleanup"
  /\ pending' = pending \ {id[p]}
  /\ callIDs' = [callIDs EXCEPT ![peer[p]] = @ \ {id[p]}]
  /\ pc' = [pc EXCEPT ![p] = "idle"]
  /\ UNCHANGED <<clients, nextCall, slot, conn, out, owes, peer, id, res>>
------------------------------------------------------------------------------
Read(c) == DeliverAnswer(c) \/ ReadFails(c) \/ RemoveClient(c) \/ CloseSend(c)
Write(c) == WriterTakes(c) \/ WriterWrites(c) \/ WriterEnds(c)
Proceed(p) == CallRegisters(p) \/ CallEnqueues(p) \/ CallGetsResult(p) \/ CallCleansUp(p)

Next ==
  \/ \E c \in Client : \/ Connect(c) \/ OpArrives(c) \/ SendOwed(c) \/ Break(c)
                       \/ Read(c) \/ Write(c) \/ \E i \in CallId : TakeAnswer(c, i)
  \/ \E p \in Caller : Proceed(p) \/ CallTimesOut(p) \/ \E c \in Client : CallFinds(p, c)
  \/ Emit

\* Go runs every goroutine that can run.  Browsers, timers and the program
\* owe nothing.
Spec == /\ Init /\ [][Next]_vars
        /\ \A c \in Client : WF_vars(Read(c)) /\ WF_vars(Write(c))
        /\ \A p \in Caller : WF_vars(Proceed(p))
------------------------------------------------------------------------------
Answers == {"value", "error", "disconnected"}

HubOK ==
  /\ clients \subseteq Client /\ pending \subseteq CallId /\ nextCall \in 0..MaxCalls
  /\ callIDs \in [Client -> SUBSET CallId]
  /\ slot \in [CallId -> {<<>>} \cup {<<a>> : a \in Answers}]

ConnOK ==
  /\ reader \in [Client -> {"none", "read", "deliver", "remove", "close", "gone"}]
  /\ taken \in [Client -> CallId \cup {None}]
  /\ broken \in [Client -> BOOLEAN] /\ seen \in [Client -> SUBSET CallId]

OutOK ==
  /\ send \in [Client -> Seq(CallId \cup {Other})] /\ \A c \in Client : Len(send[c]) <= Cap
  /\ sendClosed \in [Client -> BOOLEAN]
  /\ writer \in [Client -> {"none", "run", "write", "dead"}]
  /\ hand \in [Client -> CallId \cup {Other}]

CallOK ==
  /\ pc \in [Caller -> {"idle", "register", "enqueue", "wait", "cleanup"}]
  /\ peer \in [Caller -> Client] /\ id \in [Caller -> CallId \cup {None}]
  /\ res \in [Caller -> Answers \cup {"", "timeout", "unreachable"}]

\* Types of the variables; no send channel or result slot beyond its capacity.
TypeOK == HubOK /\ ConnOK /\ OutOK /\ CallOK /\ owes \subseteq Client

\* The result slot of a call takes at most one message, so that neither the
\* reader nor removeClient, which holds ws.mu, ever blocks on it: a call that
\* can still be answered has an empty slot and is in one hand only.
Undelivered(c) == {taken[c]} \ {None}
AtMostOneAnswer ==
  /\ \A i \in pending : slot[i] = <<>>
  /\ \A c \in Client : Undelivered(c) \cap pending = {}
  /\ \A c \in Client : \A i \in Undelivered(c) : slot[i] = <<>>
  /\ \A c, d \in Client : c # d => Undelivered(c) \cap Undelivered(d) = {}

\* A ws-call fails with the disconnect error only if its client really has gone.
DisconnectIsTrue ==
  \A p \in Caller : res[p] = "disconnected" => peer[p] \notin clients

\* Nothing is left in pending or callIDs of a ws-call that has returned.
NoLeak ==
  LET active == {id[p] : p \in {q \in Caller : pc[q] \in {"enqueue", "wait", "cleanup"}}} IN
  pending \subseteq active /\ \A c \in Client : callIDs[c] \subseteq active

\* Every connection that breaks is taken out of the hub, and both its
\* goroutines end.
BrokenGoes ==
  \A c \in Client :
    broken[c] ~> (c \notin clients /\ reader[c] = "gone" /\ writer[c] = "dead")

\* A ws-call of a client that has gone returns even if its timer never fires.
GoneEndsCall ==
  \A p \in Caller : (pc[p] \in {"enqueue", "wait"} /\ broken[peer[p]]) ~> (pc[p] = "idle")
------------------------------------------------------------------------------
\* What has become of the call p makes.  Its entry leaves pending when it is
\* answered or lost, even before p has sent it; once p has its result and only
\* cleans up, it makes no call.
Standing(p) ==
  IF pc[p] \in {"idle", "cleanup"} THEN "none"
  ELSE IF pc[p] = "register" THEN "asked"
  ELSE IF id[p] \in pending THEN (IF pc[p] = "enqueue" THEN "open" ELSE "sent")
  ELSE IF slot[id[p]] = <<"disconnected">> THEN "lost" ELSE "answered"

Standings == [p \in Caller |-> Standing(p)]
Departed == {c \in Client : reader[c] \in {"close", "gone"}}

RC == INSTANCE RemoteCall WITH
        Peer <- Client, present <- clients, gone <- Departed,
        call <- Standings, target <- peer, result <- res

\* The hub gives every ws-call what RemoteCall promises: a browser that leaves
\* fails its own open calls and no others, in one step with its removal, and
\* an answer is given to the call it is for (deliverCallResult, removeClient).
ImplementsRemoteCall == RC!Spec
================================================================================
