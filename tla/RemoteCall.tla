--------------------------------- MODULE RemoteCall --------------------------------
(****************************************************************************)
(* What the WebSocket hub promises to the callers of ws-call, with no       *)
(* pending table, channels, readers or writers: a call ends in exactly one  *)
(* way, with what really became of it.  An answer is given only to a call   *)
(* that was sent, by the browser it was sent to and while that browser is   *)
(* connected; the call of a browser that leaves is lost in the very step in *)
(* which the browser leaves, and of no other; the error of a disconnect is  *)
(* given to lost calls, and to those refused because their browser had left *)
(* before.                                                                  *)
(****************************************************************************)
CONSTANTS Peer,   \* browsers; one that has left never comes back
          Caller  \* goroutines that execute ws-call

VARIABLES present, gone,  \* the browsers connected now, and those that have left
          call,           \* what has become of the call p makes: "none", "asked" (of a
                          \* browser p has found), "open", "sent", "answered", "lost"
          target,         \* target[p]: the browser it goes to
          result          \* result[p]: what the last call of p returned

vars == <<present, gone, call, target, result>>

\* What a call in a given state may still return.  The timer runs from the
\* moment the call is sent, and may fire before an answer or a loss is seen.
Outcomes == [none |-> {}, asked |-> {}, open |-> {"unreachable"}, sent |-> {"timeout"},
             answered |-> {"value", "error", "timeout"},
             lost |-> {"disconnected", "timeout", "unreachable"}]

Init ==
  /\ present = {} /\ gone = {}
  /\ call = [p \in Caller |-> "none"] /\ target \in [Caller -> Peer]
  /\ result = [p \in Caller |-> ""]

Join(c) ==
  /\ c \notin present \cup gone
  /\ present' = present \cup {c}
  /\ UNCHANGED <<gone, call, target, result>>

\* Every call that c has not answered yet is lost, and no other.
Leave(c) ==
  /\ c \in present
  /\ present' = present \ {c} /\ gone' = gone \cup {c}
  /\ call' = [p \in Caller |-> IF target[p] = c /\ call[p] \in {"open", "sent"} THEN "lost"
                               ELSE call[p]]
  /\ UNCHANGED <<target, result>>

Ask(p, c) ==
  /\ call[p] = "none" /\ c \in present
  /\ call' = [call EXCEPT ![p] = "asked"]
  /\ target' = [target EXCEPT ![p] = c]
  /\ result' = [result EXCEPT ![p] = ""]
  /\ UNCHANGED <<present, gone>>

Begin(p) ==
  /\ call[p] = "asked" /\ target[p] \in present
  /\ call' = [call EXCEPT ![p] = "open"]
  /\ UNCHANGED <<present, gone, target, result>>

Refuse(p) ==
  /\ call[p] = "asked" /\ target[p] \in gone
  /\ call' = [call EXCEPT ![p] = "none"]
  /\ result' = [result EXCEPT ![p] = "disconnected"]
  /\ UNCHANGED <<present, gone, target>>

Deliver(p) ==
  /\ call[p] = "open"
  /\ call' = [call EXCEPT ![p] = "sent"]
  /\ UNCHANGED <<present, gone, target, result>>

Answer(p) ==
  /\ call[p] = "sent" /\ target[p] \in present
  /\ call' = [call EXCEPT ![p] = "answered"]
  /\ UNCHANGED <<present, gone, target, result>>

Return(p, r) ==
  /\ r \in Outcomes[call[p]]
  /\ call' = [call EXCEPT ![p] = "none"]
  /\ result' = [result EXCEPT ![p] = r]
  /\ UNCHANGED <<present, gone, target>>

Next ==
  \/ \E c \in Peer : Join(c) \/ Leave(c) \/ \E p \in Caller : Ask(p, c)
  \/ \E p \in Caller : \/ Begin(p) \/ Refuse(p) \/ Deliver(p) \/ Answer(p)
                       \/ \E r \in Outcomes[call[p]] : Return(p, r)

Spec == Init /\ [][Next]_vars
================================================================================
