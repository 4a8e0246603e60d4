------------------------------ MODULE Cluster ------------------------------
(***************************************************************************)
(* cluster.lua: calls over a peer whose connection is made on demand under *)
(* a lock, answered by handlers that run side by side at the other node,   *)
(* and given up on by a timer.  Packets are whole here (Netpacket cuts     *)
(* them); a connection may break at any time and lose what was in flight.  *)
(***************************************************************************)
EXTENDS Integers, Sequences, FiniteSets, FiniteSetsExt
CONSTANTS Callers, MaxCalls,
          MaxFds,      \* connections that can be made
          ACK_BIT,     \* sessions are below it
          SessionStart \* session_idx when the behaviour starts

VARIABLES peerfd, peeropen,  \* peer.fd (0: nil) and peer.addr
          fd_to_peer,        \* sockets of the caller's node
          links,             \* connection -> state and packets in flight
          lockq,             \* connect_lock of the peer: the owner and the tasks in line
          co,                \* caller -> where its call stands
          wait_pool,         \* session -> caller
          rpctimers, session_idx,
          served             \* requests whose handler runs at the other node

clustervars == <<peerfd, peeropen, fd_to_peer, links, lockq, co, wait_pool, rpctimers, session_idx, served>>

Fds == 1..MaxFds
Idle == [pc |-> "idle", n |-> 0, fd |-> 0, res |-> <<>>, session |-> 0]
Unused == [st |-> "none", c2s |-> <<>>, s2c |-> <<>>]
Init == /\ peerfd = 0 /\ peeropen = TRUE /\ fd_to_peer = {}
        /\ links = [f \in Fds |-> Unused] /\ lockq = <<>>
        /\ co = [c \in Callers |-> Idle] /\ wait_pool = <<>> /\ rpctimers = {}
        /\ session_idx = SessionStart /\ served = {}

Put(f, k, v) == [x \in DOMAIN f \cup {k} |-> IF x = k THEN v ELSE f[x]]
Drop(f, k) == [x \in DOMAIN f \ {k} |-> f[x]]

(* Nothing else of the node runs between the return of connect and the send. *)
Between == \A c \in Callers : co[c].pc # "run"
(* A message or a timer is handled once the tasks that are ready have run. *)
Settled == \A c \in Callers : co[c].pc \notin {"run", "woken", "granted"}

Shut(f) == [links EXCEPT ![f] = [st |-> "gone", c2s |-> <<>>, s2c |-> <<>>]]
Step(c, pc) == [co EXCEPT ![c].pc = pc]

(* M.call and M.send up to the socket: the open one, or the lock of connect. *)
Call(c) ==
  /\ Between /\ co[c].pc = "idle" /\ MapThenSumSet(LAMBDA d : co[d].n, Callers) < MaxCalls
  /\ LET me == [Idle EXCEPT !.n = co[c].n + 1] IN
     IF peerfd # 0 \/ ~peeropen
     THEN /\ co' = [co EXCEPT ![c] = IF peerfd # 0 THEN [me EXCEPT !.pc = "run", !.fd = peerfd] ELSE me]
          /\ UNCHANGED lockq
     ELSE /\ co' = [co EXCEPT ![c] = [me EXCEPT !.pc = IF lockq = <<>> THEN "granted" ELSE "line"]]
          /\ lockq' = Append(lockq, c)
  /\ UNCHANGED <<peerfd, peeropen, fd_to_peer, links, wait_pool, rpctimers, session_idx, served>>

(* (fault) the next in line is not made ready *)
Unlock_Alone(cs) == lockq' = Tail(lockq) /\ co' = cs

(* connect_lock: when the owner leaves, the next in line is made ready. *)
Unlock(cs) ==
  /\ lockq' = Tail(lockq)
  /\ co' = IF Len(lockq) > 1 THEN [cs EXCEPT ![lockq[2]].pc = "granted"] ELSE cs

(* connect with the lock: another task may have connected; else look up the name and connect. *)
Granted(c) ==
  /\ Between /\ co[c].pc = "granted"
  /\ IF peerfd # 0 THEN Unlock([co EXCEPT ![c].pc = "run", ![c].fd = peerfd])
     ELSE co' = Step(c, "connecting") /\ UNCHANGED lockq
  /\ UNCHANGED <<peerfd, peeropen, fd_to_peer, links, wait_pool, rpctimers, session_idx, served>>

(* The lookup or tcp_connect fails. *)
ConnectFails(c) ==
  /\ Settled /\ co[c].pc = "connecting"
  /\ Unlock(Step(c, "idle"))
  /\ UNCHANGED <<peerfd, peeropen, fd_to_peer, links, wait_pool, rpctimers, session_idx, served>>

(* (fault) the peer is not looked at again after the connection was made *)
StillOpen_Assumed == TRUE

(* The peer may have been closed while the task was in tcp_connect. *)
StillOpen == peeropen

(* tcp_connect returns a socket; the other node's EVENT.accept has run or its callback has failed. *)
Connected(c, f, accepted) ==
  /\ Settled /\ co[c].pc = "connecting"
  /\ links[f].st = "none" /\ \A g \in 1..f-1 : links[g].st # "none"
  /\ IF StillOpen
     THEN /\ links' = [links EXCEPT ![f].st = IF accepted THEN "up" ELSE "down"]
          /\ peerfd' = f /\ fd_to_peer' = fd_to_peer \cup {f}
          /\ Unlock([co EXCEPT ![c].pc = "run", ![c].fd = f])
     ELSE /\ accepted
          /\ links' = Shut(f) /\ Unlock(Step(c, "idle")) /\ UNCHANGED <<peerfd, fd_to_peer>>
  /\ UNCHANGED <<peeropen, wait_pool, rpctimers, session_idx, served>>

(* The session lrequest takes, and the counter after it: at ACK_BIT both are set to 0, so that the
   next request takes 0 again. *)
Session == IF session_idx >= ACK_BIT THEN 0 ELSE session_idx
SessionAfter == IF session_idx >= ACK_BIT THEN 0 ELSE session_idx + 1

(* The rest of callx: the request goes out, "call" waits for the answer with a timer and "send"
   returns; a request over the hard limit ("big") or a failed send returns an error.  A socket
   that broke may still take the data. *)
Request(c, how) ==
  LET f == co[c].fd
      up == links[f].st = "up"
  IN /\ co[c].pc = "run"
     /\ how = "fails" => ~up
     /\ session_idx' = SessionAfter
     /\ links' = IF up /\ how \in {"call", "send"}
                 THEN [links EXCEPT ![f].c2s = Append(@, [s |-> Session, id |-> <<c, co[c].n>>])] ELSE links
     /\ IF how = "call"
        THEN /\ wait_pool' = Put(wait_pool, Session, c) /\ rpctimers' = rpctimers \cup {Session}
             /\ co' = [co EXCEPT ![c].pc = "wait", ![c].session = Session]
        ELSE co' = Step(c, "idle") /\ UNCHANGED <<wait_pool, rpctimers>>
     /\ UNCHANGED <<peerfd, peeropen, fd_to_peer, lockq, served>>

(* process, with a response: the task that waits for the session is made ready.  A response that
   comes after its timer finds no task: the wakeup raises, and the forked process goes on. *)
Response(f) ==
  LET r == Head(links[f].s2c)
  IN /\ Between /\ f \in fd_to_peer /\ links[f].s2c # <<>>
     /\ links' = [links EXCEPT ![f].s2c = Tail(@)]
     /\ IF r.s \in DOMAIN wait_pool
        THEN /\ co' = [co EXCEPT ![wait_pool[r.s]].pc = "woken", ![wait_pool[r.s]].res = r.id]
             /\ wait_pool' = Drop(wait_pool, r.s)
        ELSE UNCHANGED <<co, wait_pool>>
     /\ UNCHANGED <<peerfd, peeropen, fd_to_peer, lockq, rpctimers, session_idx, served>>

(* timer_func *)
Timeout(s) ==
  /\ Settled /\ s \in rpctimers
  /\ rpctimers' = rpctimers \ {s}
  /\ IF s \in DOMAIN wait_pool
     THEN co' = Step(wait_pool[s], "woken") /\ wait_pool' = Drop(wait_pool, s)
     ELSE UNCHANGED <<co, wait_pool>>
  /\ UNCHANGED <<peerfd, peeropen, fd_to_peer, links, lockq, session_idx, served>>

(* waitfor goes on: with an answer it cancels the timer. *)
CallReturns(c) ==
  /\ Between /\ co[c].pc = "woken"
  /\ co' = Step(c, "idle")
  /\ rpctimers' = IF co[c].res # <<>> THEN rpctimers \ {co[c].session} ELSE rpctimers
  /\ UNCHANGED <<peerfd, peeropen, fd_to_peer, links, lockq, wait_pool, session_idx, served>>

(* EVENT.close and close_fd *)
Close(f) ==
  /\ Settled /\ f \in fd_to_peer /\ links[f].st = "down" /\ links[f].s2c = <<>>
  /\ fd_to_peer' = fd_to_peer \ {f} /\ peerfd' = 0 /\ links' = Shut(f)
  /\ UNCHANGED <<peeropen, lockq, co, wait_pool, rpctimers, session_idx, served>>

(* close_peer, by the user; a second close finds nothing to do. *)
ClosePeer ==
  /\ Between /\ peeropen
  /\ peeropen' = FALSE /\ peerfd' = 0
  /\ IF peerfd # 0 THEN links' = Shut(peerfd) /\ fd_to_peer' = fd_to_peer \ {peerfd}
     ELSE UNCHANGED <<links, fd_to_peer>>
  /\ UNCHANGED <<lockq, co, wait_pool, rpctimers, session_idx, served>>

(* The connection breaks: requests in flight are lost, and the answers from some point on. *)
Break(f, n) ==
  /\ links[f].st = "up"
  /\ links' = [links EXCEPT ![f] = [st |-> "down", c2s |-> <<>>, s2c |-> SubSeq(@.s2c, 1, n)]]
  /\ UNCHANGED <<peerfd, peeropen, fd_to_peer, lockq, co, wait_pool, rpctimers, session_idx, served>>

(* process at the other node, with a request: its call runs in a task of its own. *)
Serve(f) ==
  /\ links[f].c2s # <<>>
  /\ served' = served \cup {[f |-> f, r |-> Head(links[f].c2s)]}
  /\ links' = [links EXCEPT ![f].c2s = Tail(@)]
  /\ UNCHANGED <<peerfd, peeropen, fd_to_peer, lockq, co, wait_pool, rpctimers, session_idx>>

(* The call returns and its response is sent, or it fails and there is none. *)
Answer(h, ok) ==
  /\ h \in served /\ served' = served \ {h}
  /\ links' = IF ok /\ links[h.f].st = "up" THEN [links EXCEPT ![h.f].s2c = Append(@, h.r)] ELSE links
  /\ UNCHANGED <<peerfd, peeropen, fd_to_peer, lockq, co, wait_pool, rpctimers, session_idx>>

Progress == \/ \E c \in Callers : \/ Granted(c) \/ ConnectFails(c) \/ CallReturns(c)
                                  \/ \E how \in {"call", "send", "fails", "big"} : Request(c, how)
            \/ \E s \in rpctimers : Timeout(s)

Environment == \/ \E c \in Callers : Call(c)
               \/ \E c \in Callers, f \in Fds, accepted \in BOOLEAN : Connected(c, f, accepted)
               \/ \E f \in Fds : \/ Response(f) \/ Close(f) \/ Serve(f)
                                 \/ \E n \in 0..Len(links[f].s2c) : Break(f, n)
               \/ \E h \in served, ok \in BOOLEAN : Answer(h, ok)
               \/ ClosePeer

Next == Progress \/ Environment
Spec == Init /\ [][Next]_clustervars /\ WF_clustervars(Progress)
-----------------------------------------------------------------------------
(* A call returns the answer to its own request or none: not that of a call that timed out, of
   another caller, or of an earlier connection ("Uses session to automatically match requests and
   responses", docs/src/en/reference/net/cluster.md:33).  It holds until the sessions wrap. *)
OwnAnswer == \A c \in Callers : co[c].res # <<>> => co[c].res = <<c, co[c].n>>

(* The peer and its sockets agree; there is one connection at a time, and none once the peer is
   closed, even if it was closed while a connection was being made. *)
PeerExact ==
  /\ fd_to_peer = {peerfd} \ {0}
  /\ \A f \in Fds : links[f].st \in {"up", "down"} => f = peerfd
  /\ ~peeropen => peerfd = 0

(* Every caller that waits is found under its session, with its timer armed; tasks make the
   connection one after another. *)
WaitExact ==
  /\ \A c \in Callers : co[c].pc = "wait" <=> \E s \in DOMAIN wait_pool : wait_pool[s] = c
  /\ \A s \in DOMAIN wait_pool : s \in rpctimers /\ co[wait_pool[s]].session = s
  /\ Cardinality({c \in Callers : co[c].pc = "connecting"}) <= 1
  /\ \A c \in Callers : co[c].pc \in {"granted", "connecting"} => lockq # <<>> /\ Head(lockq) = c

ClusterExact == OwnAnswer /\ PeerExact /\ WaitExact

(* Every call returns, whatever happens to the connection and to the handler. *)
CallsReturn == \A c \in Callers : co[c].pc # "idle" ~> co[c].pc = "idle"
=============================================================================
