--------------------------------- MODULE Services ---------------------------------
(****************************************************************************)
(* Two services that an image shares with other processes: the pool of      *)
(* shared memory, and the SWANK server with its clients.  They share no     *)
(* state; a behaviour is one of them at work while the other rests.         *)
(****************************************************************************)
EXTENDS ShmPool, Swank

VARIABLE part \* the part at work

servicesVars == <<part, vars, swankVars>>

\* The server at rest is in one of its initial states.
ServicesInit ==
  /\ part \in {"shm", "swank"}
  /\ Init /\ SwankInit /\ (part = "swank" \/ shared)

ServicesNext ==
  /\ UNCHANGED part
  /\ \/ part = "shm" /\ Next /\ UNCHANGED swankVars
     \/ part = "swank" /\ SwankNext /\ UNCHANGED vars

SwankDoes(A) == part = "swank" /\ A /\ UNCHANGED <<part, vars>>

\* The fairness of the SWANK server; the pool has none.
ServicesFairness ==
  \A c \in Conn : /\ WF_servicesVars(SwankDoes(Serve(c))) /\ WF_servicesVars(SwankDoes(Take(c)))
                  /\ SF_servicesVars(SwankDoes(Exec(c)))

ServicesSpec == ServicesInit /\ [][ServicesNext]_servicesVars /\ ServicesFairness
===================================================================================
