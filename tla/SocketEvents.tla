----------------------------- MODULE SocketEvents -----------------------------
(***************************************************************************)
(* What the socket layer (src/socket.c) promises to the worker: for every  *)
(* socket id one answer to the request that opened it (or the ACCEPT that  *)
(* announced it), then data, then at most one CLOSE and nothing after it.  *)
(* A socket that fails to open is never heard of again.                    *)
(***************************************************************************)
EXTENDS Sequences

CONSTANT Sids

VARIABLES phase,     \* what has been reported of each socket
          released,  \* the sockets the worker has asked to close
          inbox      \* the messages not yet dispatched by the worker

vars == <<phase, released, inbox>>

Phases == {"idle", "pending", "open", "hungup", "gone"}

Init ==
  /\ phase = [i \in Sids |-> "idle"]
  /\ released = {}
  /\ inbox = <<>>

\* The worker asks for a listener or a connection and gets its id.
Ask(i) ==
  /\ phase[i] = "idle"
  /\ phase' = [phase EXCEPT ![i] = "pending"]
  /\ UNCHANGED <<released, inbox>>

\* LISTEN or CONNECT: the one answer to Ask.
Answer(i, type, ok) ==
  /\ phase[i] = "pending"
  /\ phase' = [phase EXCEPT ![i] = IF ok THEN "open" ELSE "gone"]
  /\ inbox' = Append(inbox, [type |-> type, sid |-> i, ok |-> ok])
  /\ UNCHANGED released

\* ACCEPT: a listener announces a new connection.  It may do so before its own
\* LISTEN: a slot that is reused for a listener while an event of its former
\* connection is still to be handled accepts on that event.
Accept(l, i) ==
  /\ phase[l] \in {"pending", "open"} /\ phase[i] = "idle"
  /\ phase' = [phase EXCEPT ![i] = "open"]
  /\ inbox' = Append(inbox, [type |-> "ACCEPT", sid |-> i, listen |-> l])
  /\ UNCHANGED released

Data(i) ==
  /\ phase[i] = "open"
  /\ inbox' = Append(inbox, [type |-> "DATA", sid |-> i])
  /\ UNCHANGED <<phase, released>>

\* CLOSE: the peer closed the connection or it failed; the last data may be
\* reported with it.
HangUp(i, last) ==
  /\ phase[i] = "open"
  /\ phase' = [phase EXCEPT ![i] = "hungup"]
  /\ inbox' = inbox \o (IF last THEN <<[type |-> "DATA", sid |-> i]>> ELSE <<>>)
                    \o <<[type |-> "CLOSE", sid |-> i]>>
  /\ UNCHANGED released

\* The worker asks to close a socket, which may be gone at once.
Release(i) ==
  /\ phase[i] # "idle" /\ i \notin released
  /\ released' = released \cup {i}
  /\ phase' \in {phase, [phase EXCEPT ![i] = "gone"]}
  /\ UNCHANGED inbox

\* Only a socket the worker asked to close, or never heard of, goes away without
\* a word.
Vanish(i) ==
  /\ i \in released \/ phase[i] = "idle"
  /\ phase[i] # "gone"
  /\ phase' = [phase EXCEPT ![i] = "gone"]
  /\ UNCHANGED <<released, inbox>>

Deliver ==
  /\ inbox # <<>>
  /\ inbox' = Tail(inbox)
  /\ UNCHANGED <<phase, released>>

Next ==
  \/ \E i \in Sids :
       \/ Ask(i) \/ Data(i) \/ Release(i) \/ Vanish(i)
       \/ \E last \in BOOLEAN : HangUp(i, last)
       \/ \E type \in {"LISTEN", "CONNECT"}, ok \in BOOLEAN : Answer(i, type, ok)
       \/ \E l \in Sids : Accept(l, i)
  \/ Deliver

Spec == Init /\ [][Next]_vars
===============================================================================
