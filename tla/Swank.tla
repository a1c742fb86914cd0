-------------------------------- MODULE Swank --------------------------------
(****************************************************************************)
(* The SWANK server (swank/server.go, env.go, dispatch.go, framing.go), the *)
(* process-wide output writer it redirects (output.go), the handlers of     *)
(* embed/swank.lisp as far as they decide what is sent back, and the client *)
(* (cmd/golisp2-client).                                                    *)
(*                                                                          *)
(* RunServer gives each connection an environment of its own and lets it    *)
(* take over the process-wide writer.  ServeEnv lets all connections share  *)
(* one environment, evaluates through exec, one request at a time, and      *)
(* points the writer at a sender that knows the latest connection.          *)
(*                                                                          *)
(* A frame is what the reader of the other side tells apart: an answer with *)
(* its id, a :write-string, or an event whose text the reader cannot parse. *)
(****************************************************************************)
EXTENDS Naturals, Sequences, FiniteSets, FiniteSetsExt

CONSTANTS Conn,      \* connections
          MaxMsg     \* bound of the model: requests altogether

ASSUME SwankAssumption == MaxMsg \in Nat \ {0} /\ Conn \cap {"stdout", "sender"} = {}

\* What a request makes the evaluator do: answer (connection-info, completions,
\* describe-symbol ...), return a value to show (listener-eval), print, send an
\* event that does not read back, or leave by a throw or return-from, which the
\* trap of the handlers does not stop.
Op == {"answer", "value", "print", "event", "exit"}
Return(n) == [kind |-> "return", id |-> n]
Write == [kind |-> "write", id |-> 0]
Unreadable == [kind |-> "event", id |-> 0]
Frame == [kind : {"return"}, id : Nat] \cup {Write, Unreadable}

VARIABLES
  shared,    \* TRUE: ServeEnv, FALSE: RunServer
  outWriter, \* lib's outputWriter and errorWriter: "stdout", "sender" or a connection
  current, gen, token, \* the swankSender, and the generation each connection got
  execBy,    \* the connection whose function exec runs, or "nobody"
  serverAt,  \* serverAt[c]: where the goroutine of c is
  message,   \* message[c]: the message it handles
  target,    \* target[c]: where send writes to
  events,    \* events[c]: frames it still has to write
  toServer, toClient, \* the two directions of the connection
  clientAt,  \* clientAt[c]: "none", "idle", "wait" or "left"
  msgID,     \* msgID[c]
  answer,    \* answer[c]: the id of the last :return the client took
  confused   \* confused[c]: the client has met a frame it could not read

sender == <<current, gen, token>>
server == <<serverAt, message, target, events, execBy>>
wire == <<toServer, toClient>>
client == <<clientAt, msgID, answer, confused>>
swankVars == <<shared, outWriter, sender, server, wire, client>>
NoJob == [op |-> "answer", id |-> 0]
Job == [op : Op, id : Nat]
ServerStep == {"none", "start", "read", "exec", "eval", "send", "reply", "ending", "close", "closed"}

SwankInit ==
  /\ shared \in BOOLEAN /\ outWriter = IF shared THEN "sender" ELSE "stdout"
  /\ current = "stdout" /\ gen = 0 /\ token = [c \in Conn |-> 0]
  /\ execBy = "nobody"
  /\ serverAt = [c \in Conn |-> "none"] /\ message = [c \in Conn |-> NoJob]
  /\ target = [c \in Conn |-> "stdout"] /\ events = [c \in Conn |-> <<>>]
  /\ toServer = [c \in Conn |-> <<>>] /\ toClient = [c \in Conn |-> <<>>]
  /\ clientAt = [c \in Conn |-> "none"] /\ msgID = [c \in Conn |-> 0]
  /\ answer = [c \in Conn |-> 0] /\ confused = [c \in Conn |-> FALSE]
------------------------------------------------------------------------------
ServerGoes(c, step) == serverAt' = [serverAt EXCEPT ![c] = step]

\* Accept: the goroutine of the connection starts.
Accept(c) ==
  /\ clientAt[c] = "none"
  /\ clientAt' = [clientAt EXCEPT ![c] = "idle"] /\ ServerGoes(c, "start")
  /\ UNCHANGED <<shared, outWriter, sender, message, target, events, execBy, wire, msgID, answer,
                 confused>>

\* serveSharedConn: setCurrent.
SetCurrent(c) ==
  /\ shared /\ serverAt[c] = "start"
  /\ gen' = gen + 1 /\ token' = [token EXCEPT ![c] = gen + 1] /\ current' = c
  /\ ServerGoes(c, "read")
  /\ UNCHANGED <<shared, outWriter, message, target, events, execBy, wire, client>>

\* serveConn: RegisterSwankEnv sets both writers of the process.
RegisterSwankEnv(c) ==
  /\ ~shared /\ serverAt[c] = "start"
  /\ outWriter' = c
  /\ ServerGoes(c, "read")
  /\ UNCHANGED <<shared, sender, message, target, events, execBy, wire, client>>

\* readFrame: the next request, or the end of the connection.
ReadFrame(c) ==
  /\ serverAt[c] = "read" /\ toServer[c] # <<>>
  /\ message' = [message EXCEPT ![c] = Head(toServer[c])]
  /\ toServer' = [toServer EXCEPT ![c] = Tail(@)]
  /\ ServerGoes(c, "exec")
  /\ UNCHANGED <<shared, outWriter, sender, target, events, execBy, toClient, client>>
ReadFrameFails(c) ==
  /\ serverAt[c] = "read" /\ toServer[c] = <<>> /\ clientAt[c] = "left"
  /\ ServerGoes(c, "ending")
  /\ UNCHANGED <<shared, outWriter, sender, message, target, events, execBy, wire, client>>

\* exec: for ServeEnv one function at a time.
Exec(c) ==
  /\ serverAt[c] = "exec"
  /\ shared => execBy = "nobody"
  /\ execBy' = IF shared THEN c ELSE execBy
  /\ ServerGoes(c, "eval")
  /\ UNCHANGED <<shared, outWriter, sender, message, target, events, wire, client>>

\* exec keeps the interpreter.
ExecReturnsKeepsIt(c, frames) ==
  /\ events' = [events EXCEPT ![c] = frames]
  /\ ServerGoes(c, "reply")
  /\ UNCHANGED <<shared, outWriter, sender, message, target, execBy, toServer, client>>

ExecReturns(c, frames) ==
  /\ events' = [events EXCEPT ![c] = frames]
  /\ execBy' = IF shared THEN "nobody" ELSE execBy
  /\ ServerGoes(c, "reply")
  /\ UNCHANGED <<shared, outWriter, sender, message, target, toServer, client>>

\* HandleMessage: the handlers answer with the id of the request.
HandleAnswer(c) ==
  /\ serverAt[c] = "eval" /\ message[c].op = "answer"
  /\ ExecReturns(c, <<Return(message[c].id)>>) /\ UNCHANGED toClient
HandleValue(c) ==
  /\ serverAt[c] = "eval" /\ message[c].op = "value"
  /\ ExecReturns(c, <<Write, Return(message[c].id)>>) /\ UNCHANGED toClient

HandleExitAnswersZero(c) ==
  /\ serverAt[c] = "eval" /\ message[c].op = "exit"
  /\ ExecReturns(c, <<Return(0)>>) /\ UNCHANGED toClient
\* HandleMessage fails: the error is logged and nothing is sent.
HandleExit(c) ==
  /\ serverAt[c] = "eval" /\ message[c].op = "exit"
  /\ ExecReturns(c, <<>>) /\ UNCHANGED toClient

\* print, println, format: WriteOutput takes the writer, the sender its current
\* connection, each under its lock; they write after that.  swank-send-event
\* writes to its own connection, or to the sender.
HandleSends(c) ==
  /\ serverAt[c] = "eval" /\ message[c].op \in {"print", "event"}
  /\ target' = [target EXCEPT ![c] =
       IF shared THEN current ELSE IF message[c].op = "event" THEN c ELSE outWriter]
  /\ ServerGoes(c, "send")
  /\ UNCHANGED <<shared, outWriter, sender, message, events, execBy, wire, client>>

\* A write to a connection the server has closed fails; one to a client that
\* has left may.
MayFail(d) == d \in {e \in Conn : serverAt[e] = "closed" \/ clientAt[e] = "left"}
MaySucceed(d) == d \notin {e \in Conn : serverAt[e] = "closed"}
Sent(d, frame) ==
  toClient' = IF d \in {e \in Conn : clientAt[e] # "left"} THEN [toClient EXCEPT ![d] = Append(@, frame)] ELSE toClient

SendSucceeds(c) ==
  /\ serverAt[c] = "send" /\ MaySucceed(target[c])
  /\ Sent(target[c], IF message[c].op = "print" THEN Write ELSE Unreadable)
  /\ ExecReturns(c, <<Return(message[c].id)>>)
\* The failure is an error of the evaluation, which the handler's trap turns
\* into an :abort.
SendFails(c) ==
  /\ serverAt[c] = "send" /\ MayFail(target[c])
  /\ ExecReturns(c, <<Return(message[c].id)>>) /\ UNCHANGED toClient

\* runMessageLoop writes the events back.
Reply(c) ==
  /\ serverAt[c] = "reply" /\ events[c] # <<>>
  /\ Sent(c, Head(events[c]))
  /\ events' = [events EXCEPT ![c] = Tail(@)]
  /\ UNCHANGED <<shared, outWriter, sender, serverAt, message, target, execBy, toServer, client>>
ReplyFails(c) ==
  /\ serverAt[c] = "reply" /\ events[c] # <<>> /\ MayFail(c)
  /\ ServerGoes(c, "ending")
  /\ UNCHANGED <<shared, outWriter, sender, message, target, events, execBy, wire, client>>
Replied(c) ==
  /\ serverAt[c] = "reply" /\ events[c] = <<>>
  /\ ServerGoes(c, "read")
  /\ message' = [message EXCEPT ![c] = NoJob] /\ target' = [target EXCEPT ![c] = "stdout"]
  /\ UNCHANGED <<shared, outWriter, sender, events, execBy, wire, client>>

ClearsAlways(c) == TRUE
\* clear: only the latest connection resets the sender.
Clears(c) == token[c] = gen
Clear(c) ==
  /\ serverAt[c] = "ending"
  /\ current' = IF shared /\ Clears(c) THEN "stdout" ELSE current
  /\ ServerGoes(c, "close")
  /\ UNCHANGED <<shared, outWriter, gen, token, message, target, events, execBy, wire, client>>
Close(c) ==
  /\ serverAt[c] = "close"
  /\ ServerGoes(c, "closed")
  /\ UNCHANGED <<shared, outWriter, sender, message, target, events, execBy, wire, client>>
------------------------------------------------------------------------------
\* Client.request: send, then read frames up to the next :return.
Request(c) ==
  /\ clientAt[c] = "idle" /\ MapThenSumSet(LAMBDA d : msgID[d], Conn) < MaxMsg
  /\ msgID' = [msgID EXCEPT ![c] = @ + 1]
  /\ \E op \in Op : toServer' = [toServer EXCEPT ![c] = Append(@, [op |-> op, id |-> msgID'[c]])]
  /\ clientAt' = [clientAt EXCEPT ![c] = "wait"]
  /\ UNCHANGED <<shared, outWriter, sender, server, toClient, answer, confused>>

ClientReads(c) ==
  /\ clientAt[c] = "wait" /\ toClient[c] # <<>>
  /\ toClient' = [toClient EXCEPT ![c] = Tail(@)]
  /\ UNCHANGED <<shared, outWriter, sender, server, toServer, msgID>>
TakeWrite(c) ==
  /\ ClientReads(c) /\ Head(toClient[c]).kind = "write"
  /\ UNCHANGED <<clientAt, answer, confused>>
TakeReturn(c) ==
  /\ ClientReads(c) /\ Head(toClient[c]).kind = "return"
  /\ answer' = [answer EXCEPT ![c] = Head(toClient[c]).id]
  /\ clientAt' = [clientAt EXCEPT ![c] = "idle"]
  /\ UNCHANGED confused
\* readFrame fails to parse: the request fails, the REPL goes on.
TakeUnreadable(c) ==
  /\ ClientReads(c) /\ Head(toClient[c]).kind = "event"
  /\ clientAt' = [clientAt EXCEPT ![c] = "idle"]
  /\ confused' = [confused EXCEPT ![c] = TRUE]
  /\ UNCHANGED answer
\* The user ends the client, in the middle of a request or not.
Leave(c) ==
  /\ clientAt[c] \in {"idle", "wait"}
  /\ clientAt' = [clientAt EXCEPT ![c] = "left"]
  /\ toClient' = [toClient EXCEPT ![c] = <<>>]
  /\ UNCHANGED <<shared, outWriter, sender, server, toServer, msgID, answer, confused>>
------------------------------------------------------------------------------
HandleRequest(c) == HandleAnswer(c) \/ HandleValue(c) \/ HandleExit(c) \/ HandleSends(c)
             \/ SendSucceeds(c) \/ SendFails(c)
Serve(c) == SetCurrent(c) \/ RegisterSwankEnv(c) \/ ReadFrame(c) \/ ReadFrameFails(c)
            \/ HandleRequest(c) \/ Reply(c) \/ ReplyFails(c) \/ Replied(c) \/ Clear(c) \/ Close(c)
Take(c) == TakeWrite(c) \/ TakeReturn(c) \/ TakeUnreadable(c)
SwankNext == \E c \in Conn : Accept(c) \/ Serve(c) \/ Exec(c) \/ Request(c) \/ Take(c) \/ Leave(c)

\* The goroutines of the server run on, the client reads on, and exec, a queue
\* to one thread, takes up everything it is given.
SwankFairness ==
  \A c \in Conn : WF_swankVars(Serve(c)) /\ SF_swankVars(Exec(c)) /\ WF_swankVars(Take(c))
SwankSpec == SwankInit /\ [][SwankNext]_swankVars /\ SwankFairness
------------------------------------------------------------------------------
SenderOK ==
  /\ shared \in BOOLEAN /\ outWriter \in Conn \cup {"stdout", "sender"}
  /\ current \in Conn \cup {"stdout"} /\ gen \in Nat /\ token \in [Conn -> Nat]
  /\ \A c \in Conn : token[c] <= gen
ServerOK ==
  /\ serverAt \in [Conn -> ServerStep] /\ execBy \in Conn \cup {"nobody"}
  /\ message \in [Conn -> Job] /\ target \in [Conn -> Conn \cup {"stdout", "sender"}]
  /\ events \in [Conn -> Seq(Frame)] /\ \A c \in Conn : Len(events[c]) <= 2
WireOK == toServer \in [Conn -> Seq(Job)] /\ toClient \in [Conn -> Seq(Frame)]
ClientOK ==
  /\ clientAt \in [Conn -> {"none", "idle", "wait", "left"}]
  /\ msgID \in [Conn -> Nat] /\ answer \in [Conn -> Nat] /\ confused \in [Conn -> BOOLEAN]
SwankTypeOK == SenderOK /\ ServerOK /\ WireOK /\ ClientOK

\* Output goes to the connection that came last as long as it is served, and to
\* the terminal after that: an older connection that ends does not take the
\* output away from a newer one, and nobody is sent to after his end.  (And the
\* variables have their types.)
SenderIsNewest ==
  /\ SwankTypeOK
  /\ \A c \in Conn :
       (shared /\ token[c] = gen /\ serverAt[c] \notin {"none", "start", "close", "closed"})
         => current = c
  /\ current # "stdout" => token[current] = gen /\ serverAt[current] \notin {"close", "closed"}

\* The client takes whatever :return comes next for its answer, without a look
\* at the id (the comment on request speaks of the one with its id).  Until it
\* has met a frame it cannot read this is its answer.
AnswerIsOwn ==
  \A c \in Conn : (clientAt[c] = "idle" /\ ~confused[c]) => answer[c] = msgID[c]

\* Every request ends, however often other connections come, evaluate and go,
\* unless its evaluation leaves by a throw or return-from.
RequestEnds ==
  \A c \in Conn :
    (clientAt[c] = "wait" /\ toServer[c] # <<>> /\ toServer[c][Len(toServer[c])].op # "exit")
      ~> (clientAt[c] # "wait")
================================================================================
