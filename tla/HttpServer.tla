------------------------------- MODULE HttpServer -------------------------------
(****************************************************************************)
(* One http-serve server (httpserver.go, webserv.go): goroutines that wait  *)
(* for it, stop it and add routes, upload requests whose handlers run Lisp  *)
(* and may themselves stop the server, and the browsers of the WebSocket    *)
(* hub (wsbridge.go) as far as the clock of http-wait depends on them; what *)
(* a connection does meanwhile is WsBridge's.                               *)
(*                                                                          *)
(* Time passes in ticks of http-wait's ticker; ages saturate at Idle.  The  *)
(* end of the whole process (SIGINT) is left out, and so are the contents   *)
(* of pages and files.                                                      *)
(****************************************************************************)
EXTENDS Naturals, FiniteSets

CONSTANTS Goroutine, \* goroutines of the program
          Upload,    \* requests to an http-upload route
          Browser,   \* WebSocket connections, used again after they have gone
          Route,     \* patterns
          Idle,      \* :idle-exit in ticks
          MaxFiles   \* files of one upload

ASSUME HttpAssumption ==
  Idle \in Nat \ {0} /\ MaxFiles \in Nat \ {0} /\ Route # {}
  /\ Goroutine \cap Upload = {} /\ {"free", "done"} \cap (Goroutine \cup Upload) = {}

Actor == Goroutine \cup Upload

VARIABLES
  listening, \* the listener accepts
  routes,    \* patterns of ws.mux
  done,      \* ws.done is closed
  once,      \* ws.stopOnce: "free", the actor inside, or "done"
  idleAge,   \* time since ws.idleAt
  quiet,     \* time since a browser was last in ws.clients, or the start
  browsers,  \* ws.clients
  wsAt,      \* wsAt[b]: where handleWS is with the connection of b
  doing,     \* doing[a]: what actor a is in
  files      \* files[r]: uploaded files still to handle

srv == <<listening, routes, done, once>>
idle == <<idleAge, quiet>>
ws == <<browsers, wsAt>>
httpVars == <<srv, idle, ws, doing, files>>

\* A server exists from its first http-serve on.
HttpInit ==
  /\ listening = FALSE /\ routes = {} /\ done = FALSE /\ once = "free"
  /\ idleAge = 0 /\ quiet = 0
  /\ browsers = {} /\ wsAt = [b \in Browser |-> "none"]
  /\ doing = [a \in Actor |-> IF a \in Goroutine THEN "lisp" ELSE "none"]
  /\ files = [r \in Upload |-> 0]
------------------------------------------------------------------------------
Turns(a, step) == doing' = [doing EXCEPT ![a] = step]
Back(a) == Turns(a, IF a \in Goroutine THEN "lisp" ELSE "handler")

\* http-serve, or webserv, which goes on to open a browser.  (A second server
\* is independent of this one.)
HttpServe(a) ==
  /\ doing[a] = "lisp" /\ ~listening /\ once = "free"
  /\ listening' = TRUE
  /\ idleAge' = 0 /\ quiet' = 0
  /\ \/ Back(a) /\ UNCHANGED routes
     \/ \E page \in Route : routes' = {page} /\ Turns(a, "open")
  /\ UNCHANGED <<done, once, ws, files>>

\* webserv: when a browser is found and does not start, the server is stopped.
BrowserOpens(a) ==
  /\ doing[a] = "open"
  /\ Back(a)
  /\ UNCHANGED <<srv, idle, ws, files>>
BrowserFails(a) ==
  /\ doing[a] = "open"
  /\ Turns(a, "stop")
  /\ UNCHANGED <<srv, idle, ws, files>>

\* http-static, http-upload: ServeMux panics on a pattern it has.
Handle(a, pattern) ==
  /\ doing[a] = "lisp" /\ listening
  /\ routes' = routes \cup {pattern}
  /\ Back(a)
  /\ UNCHANGED <<listening, done, once, idle, ws, files>>

\* http-wait: with :idle-exit it has a ticker, without it only ws.done.
HttpWait(a) ==
  /\ doing[a] = "lisp" /\ (listening \/ once # "free")
  /\ \E w \in {"wait", "wait idle"} : Turns(a, w)
  /\ UNCHANGED <<srv, idle, ws, files>>
WaitSeesDone(a) ==
  /\ doing[a] \in {"wait", "wait idle"} /\ done
  /\ Back(a)
  /\ UNCHANGED <<srv, idle, ws, files>>
\* A tick reads the clock and the clients under one lock.
WaitTicks(a) ==
  /\ doing[a] = "wait idle" /\ browsers = {} /\ idleAge >= Idle
  /\ Back(a)
  /\ UNCHANGED <<srv, idle, ws, files>>
------------------------------------------------------------------------------
\* http-stop, by the program or by the handler of an upload.
HttpStop(a) ==
  /\ doing[a] \in {"lisp", "handler"} /\ (listening \/ once # "free")
  /\ Turns(a, "stop")
  /\ UNCHANGED <<srv, idle, ws, files>>

\* The first to come closes done and shuts the server down.
StopEnters(a) ==
  /\ doing[a] = "stop" /\ once = "free"
  /\ once' = a /\ done' = TRUE
  /\ Turns(a, "shutdown")
  /\ UNCHANGED <<listening, routes, idle, ws, files>>
ShutdownCloses(a) ==
  /\ doing[a] = "shutdown" /\ listening
  /\ listening' = FALSE
  /\ UNCHANGED <<routes, done, once, idle, ws, doing, files>>

\* Requests in progress, and WebSockets before they are hijacked.
Active == {r \in Upload : doing[r] # "none"} \cup {b \in Browser : wsAt[b] = "upgrade"}

ShutdownReturns(a) ==
  /\ doing[a] = "shutdown" /\ ~listening /\ Active = {}
  /\ once' = "done" /\ Back(a)
  /\ UNCHANGED <<listening, routes, done, idle, ws, files>>

\* After two seconds Shutdown gives up waiting for Active.
ShutdownTimesOutNever(a) == FALSE /\ UNCHANGED httpVars
ShutdownTimesOut(a) ==
  /\ doing[a] = "shutdown" /\ ~listening /\ Active # {}
  /\ once' = "done" /\ Back(a)
  /\ UNCHANGED <<listening, routes, done, idle, ws, files>>

\* The others wait for the first one.
StopWaited(a) ==
  /\ doing[a] = "stop" /\ once = "done"
  /\ Back(a)
  /\ UNCHANGED <<srv, idle, ws, files>>
------------------------------------------------------------------------------
\* http-upload: the files of a form one after the other.
UploadArrives(r) ==
  /\ listening /\ routes # {} /\ doing[r] = "none"
  /\ files' = [files EXCEPT ![r] = MaxFiles]
  /\ Turns(r, "handler")
  /\ UNCHANGED <<srv, idle, ws>>
HandlerReturns(r) ==
  /\ doing[r] = "handler" /\ files[r] > 0
  /\ files' = [files EXCEPT ![r] = @ - 1]
  /\ UNCHANGED <<srv, idle, ws, doing>>
\* 200 when all are handled, an error at the first that fails.
UploadAnswered(r) ==
  /\ doing[r] = "handler"
  /\ files' = [files EXCEPT ![r] = 0]
  /\ Turns(r, "none")
  /\ UNCHANGED <<srv, idle, ws>>
------------------------------------------------------------------------------
\* handleWS: Upgrade, which may refuse the origin ...
Upgrade(b) ==
  /\ wsAt[b] = "none" /\ listening
  /\ wsAt' = [wsAt EXCEPT ![b] = "upgrade"]
  /\ UNCHANGED <<srv, idle, browsers, doing, files>>
Upgraded(b) ==
  /\ wsAt[b] = "upgrade"
  /\ wsAt' = [wsAt EXCEPT ![b] = "join"]
  /\ UNCHANGED <<srv, idle, browsers, doing, files>>
Refused(b) ==
  /\ wsAt[b] = "upgrade"
  /\ wsAt' = [wsAt EXCEPT ![b] = "none"]
  /\ UNCHANGED <<srv, idle, browsers, doing, files>>
\* ... and registers the connection, also when the server has been stopped.
Join(b) ==
  /\ wsAt[b] = "join"
  /\ browsers' = browsers \cup {b} /\ wsAt' = [wsAt EXCEPT ![b] = "read"]
  /\ quiet' = 0
  /\ UNCHANGED <<srv, idleAge, doing, files>>

ClockAfterStale(left) == idleAge
\* removeClient: the last one to leave sets the clock.
ClockAfter(left) == IF left = {} THEN 0 ELSE idleAge
Remove(b) ==
  /\ wsAt[b] = "read"
  /\ browsers' = browsers \ {b} /\ wsAt' = [wsAt EXCEPT ![b] = "none"]
  /\ idleAge' = ClockAfter(browsers')
  /\ UNCHANGED <<srv, quiet, doing, files>>

Elapses(age) == IF age < Idle THEN age + 1 ELSE age
Elapse ==
  /\ idleAge' = Elapses(idleAge)
  /\ quiet' = IF browsers = {} THEN Elapses(quiet) ELSE 0
  /\ UNCHANGED <<srv, ws, doing, files>>
------------------------------------------------------------------------------
GoOnWith(a) == WaitSeesDone(a) \/ StopEnters(a) \/ ShutdownCloses(a) \/ ShutdownReturns(a)
               \/ ShutdownTimesOut(a) \/ StopWaited(a)
Program(a) == HttpServe(a) \/ BrowserOpens(a) \/ BrowserFails(a) \/ HttpWait(a) \/ WaitTicks(a)
              \/ \E pattern \in Route : Handle(a, pattern)
HttpNext ==
  \/ \E a \in Actor : GoOnWith(a) \/ HttpStop(a) \/ Program(a)
  \/ \E r \in Upload : UploadArrives(r) \/ HandlerReturns(r) \/ UploadAnswered(r)
  \/ \E b \in Browser : Upgrade(b) \/ Upgraded(b) \/ Refused(b) \/ Join(b) \/ Remove(b)
  \/ Elapse

\* Go runs what can run, and the timer of Shutdown goes off.  A handler need
\* not return, a browser need not go.
HttpFairness == \A a \in Actor : WF_httpVars(GoOnWith(a))
HttpSpec == HttpInit /\ [][HttpNext]_httpVars /\ HttpFairness
------------------------------------------------------------------------------
GoroutineStep == {"lisp", "open", "wait", "wait idle", "stop", "shutdown"}
UploadStep == {"none", "handler", "stop", "shutdown"}
HttpTypeOK ==
  /\ listening \in BOOLEAN /\ routes \subseteq Route /\ done \in BOOLEAN
  /\ once \in Actor \cup {"free", "done"}
  /\ idleAge \in 0..Idle /\ quiet \in 0..Idle
  /\ browsers = {b \in Browser : wsAt[b] = "read"}
  /\ wsAt \in [Browser -> {"none", "upgrade", "join", "read"}]
  /\ doing \in [Actor -> GoroutineStep \cup UploadStep]
  /\ \A a \in Goroutine : doing[a] \in GoroutineStep
  /\ \A r \in Upload : doing[r] \in UploadStep
  /\ files \in [Upload -> 0..MaxFiles]

\* http-wait returns of itself only when for :idle-exit no browser has been
\* connected, whatever came, went and came back between its ticks.
IdleIsQuiet ==
  [][\A a \in Actor : (doing[a] = "wait idle" /\ doing'[a] # "wait idle" /\ ~done)
                        => browsers = {} /\ quiet = Idle]_httpVars

\* http-stop returns to every caller, the handler of an upload that the
\* shutdown waits for among them, and frees everyone in http-wait.
StopEnds ==
  /\ \A a \in Actor : doing[a] \in {"stop", "shutdown"} ~> doing[a] \notin {"stop", "shutdown"}
  /\ \A a \in Goroutine : (done /\ doing[a] \in {"wait", "wait idle"}) ~> doing[a] = "lisp"
================================================================================
