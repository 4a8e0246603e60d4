-------------------------------- MODULE Udp ---------------------------------
(***************************************************************************)
(* One UDP socket, bound or connected: the datagrams it sends (op_udp_send,*)
(* send_msg_udp of socket.c), those it receives (forward_msg_udp) and the  *)
(* task that takes them with recvfrom() (udp.lua).  Datagrams are numbered *)
(* in the order they arrive; all of them have size 1.  The kernel decides  *)
(* what sendto returns, and an error it holds for a connected socket is    *)
(* returned by the next call on it, once.                                  *)
(***************************************************************************)
EXTENDS Integers, Sequences, FiniteSets, SequencesExt

CONSTANTS MaxRecv, MaxSend  \* bounds on the datagrams received and sent

VARIABLES kind,      \* "bind" or "connect"
          st,        \* the slot: "opening", "polled", "zombie" or "free"
          closing, closewait, writing,  \* state bits
          wl, wlbytes,   \* the write list; the counter behind sendsize()
          ops, ev,       \* operations pushed; the event gathered, None
          kerr, rx,      \* the kernel: an error to report; datagrams to read
          arrived, sent, \* datagrams that came; sendto() calls
          failed,        \* history: datagrams dropped from the write list by an error
          mq,            \* messages to the worker
          fd, err, co, stash, stash_bytes, timer, woken, \* udp.lua
          got,           \* datagrams returned by recvfrom()
          abort          \* an assertion of socket.c failed
csock == <<kind, st, closing, closewait, writing, wl, wlbytes, kerr, rx, arrived, failed, abort>>
lsock == <<fd, err, co, stash, stash_bytes, timer, woken, got>>
vars == <<csock, ops, ev, sent, mq, lsock>>

None == "none"
Init ==
  /\ kind \in {"bind", "connect"} /\ st = "opening" /\ closing = FALSE /\ closewait = FALSE
  /\ writing = FALSE /\ wl = 0 /\ wlbytes = 0 /\ ops = <<"open">> /\ ev = {None}
  /\ kerr = FALSE /\ rx = 0 /\ arrived = 0 /\ sent = 0 /\ failed = 0 /\ mq = <<>>
  /\ fd = "pending" /\ err = FALSE /\ co = FALSE /\ stash = <<>> /\ stash_bytes = 0
  /\ timer = FALSE /\ woken = None /\ got = 0 /\ abort = FALSE

Report(m) == mq' = Append(mq, m)
Msg(k, n) == [kind |-> k, n |-> n]

-----------------------------------------------------------------------------
(* The socket thread.                                                      *)

\* free_socket(): also the write list
Freed == st' = "free" /\ wl' = 0 /\ wlbytes' = 0 /\ writing' = FALSE /\ closewait' = FALSE

\* The operations on a slot that is free, and all but a close on a zombie, are dropped.
Executes(op) == /\ ~abort /\ ops # <<>> /\ Head(ops) = op /\ ops' = Tail(ops)
                /\ UNCHANGED <<lsock, ev, sent, rx, arrived>>
OpDropped ==
  /\ \E op \in {"send", "close"} :
       Executes(op) /\ (st = "free" \/ (st = "zombie" /\ op # "close"))
  /\ UNCHANGED <<csock, mq>>

\* op_udp_listen() and op_udp_connect()
OpOpen(added) ==
  /\ Executes("open")
  /\ Report(Msg("opened", IF added THEN 1 ELSE 0))
  /\ IF added THEN st' = "polled" /\ UNCHANGED <<wl, wlbytes, writing, closewait>> ELSE Freed
  /\ UNCHANGED <<kind, closing, kerr, failed, abort>>

Uncount(n) == wlbytes - 1
\* op_udp_send(): at once when nothing is queued, else behind the others.
OpUdpSend(n) ==
  /\ Executes("send") /\ st = "polled"
  /\ IF wl = 0
     THEN /\ n \in (IF kerr THEN {"error"} ELSE {"ok", "error", "again"})
          /\ kerr' = FALSE
          /\ IF n = "again" THEN wl' = 1 /\ writing' = TRUE /\ wlbytes' = wlbytes
             ELSE wlbytes' = Uncount(n) /\ UNCHANGED <<wl, writing>>
     ELSE n = "again" /\ wl' = wl + 1 /\ UNCHANGED <<kerr, writing, wlbytes>>
  /\ UNCHANGED <<kind, st, closing, closewait, failed, abort, mq>>

\* op_close(): queued datagrams are sent first.
OpClose ==
  /\ Executes("close") /\ st \in {"polled", "zombie"}
  /\ IF wl = 0 THEN Freed
     ELSE closewait' = TRUE /\ UNCHANGED <<st, wl, wlbytes, writing>>
  /\ UNCHANGED <<kind, closing, kerr, failed, abort, mq>>

\* eventwait(): the flags are those of this moment, operations come before they
\* are handled.
Flags == (IF rx > 0 /\ ~closewait THEN {"IN"} ELSE {}) \cup (IF kerr THEN {"ERR"} ELSE {})
           \cup (IF writing THEN {"OUT"} ELSE {})
EventWait ==
  /\ ~abort /\ st = "polled" /\ ev = {None}
  /\ \E f \in SUBSET Flags : f # {} /\ (kerr => "ERR" \in f) /\ ev' = f
  /\ UNCHANGED <<csock, ops, sent, mq, lsock>>

\* The UDP case of socket_poll(): forward_msg_udp() reads a datagram or the error,
\* send_msg_udp() sends or drops the first j queued ones, bad of them with an error,
\* and an error flag closes the socket with what is left of the error.
Poll(j, bad) ==
  LET reads == "IN" \in ev /\ ~closing
      ke == kerr /\ ~reads            \* recvfrom returned the error
      sends == "OUT" \in ev
      all == sends /\ j = wl
      gone == all /\ closewait        \* send_msg_udp freed the socket
      ke2 == ke /\ ~(sends /\ j > 0)  \* sendto returned the error
      errs == "ERR" \in ev
      data == IF reads /\ ~kerr /\ rx > 0 THEN <<Msg("data", arrived - rx + 1)>> ELSE <<>>
      close == IF errs /\ ~closing /\ ~gone THEN <<Msg("close", IF ke2 THEN 1 ELSE 0)>> ELSE <<>>
  IN /\ ~abort /\ ev # {None} /\ st = "polled"
     /\ IF sends THEN j <= wl /\ bad <= j /\ (ke /\ j > 0 => bad > 0) ELSE j = 0 /\ bad = 0
     /\ ev' = {None}
     /\ rx' = IF data # <<>> THEN rx - 1 ELSE rx
     /\ mq' = mq \o data \o close
     /\ failed' = failed + bad
     /\ kerr' = (ke2 /\ ~errs)
     /\ closing' = (closing \/ close # <<>>)
     /\ abort' = ((errs /\ gone) \/ (close # <<>> /\ kind = "bind"))
     /\ CASE gone \/ (errs /\ closewait) -> Freed
          [] errs /\ ~closewait ->
               st' = "zombie" /\ wl' = 0 /\ wlbytes' = 0 /\ writing' = FALSE /\ UNCHANGED closewait
          [] OTHER -> /\ wl' = wl - j /\ wlbytes' = wlbytes - (j - bad)
                      /\ writing' = (writing /\ ~all)
                      /\ UNCHANGED <<st, closewait>>
     /\ UNCHANGED <<kind, ops, sent, arrived, lsock>>
PollGone == ev # {None} /\ st # "polled" /\ ev' = {None} /\ UNCHANGED <<csock, ops, sent, mq, lsock>>

\* The kernel: a datagram arrives, or an ICMP error for what was sent.
Arrive ==
  /\ st = "polled" /\ arrived < MaxRecv /\ arrived' = arrived + 1 /\ rx' = rx + 1
  /\ UNCHANGED <<kind, st, closing, closewait, writing, wl, wlbytes, kerr, failed, abort, ops, ev, sent, mq, lsock>>
Unreachable ==
  /\ st = "polled" /\ kind = "connect" /\ sent > Len(ops) + wl /\ ~kerr /\ kerr' = TRUE
  /\ UNCHANGED <<kind, st, closing, closewait, writing, wl, wlbytes, rx, arrived, failed, abort, ops, ev, sent, mq, lsock>>

-----------------------------------------------------------------------------
(* The worker.                                                             *)

Handles(k) == /\ ~abort /\ mq # <<>> /\ woken = None /\ Head(mq).kind = k /\ mq' = Tail(mq)
              /\ UNCHANGED <<csock, ops, ev, sent, got, timer>>
Wake(v) == co' = FALSE /\ woken' = v

\* listen_wrap() and connect_wrap() return, and new_socket()
Opened ==
  /\ Handles("opened") /\ fd' = IF Head(mq).n = 1 THEN "open" ELSE "closed"
  /\ UNCHANGED <<err, co, stash, stash_bytes, woken>>
\* EVENT.data: for the task that waits, else for the stash
Data ==
  /\ Handles("data")
  /\ CASE fd = "open" /\ co -> Wake("packet") /\ UNCHANGED <<stash, stash_bytes>>
       [] fd = "open" /\ ~co ->
            /\ stash' = Append(stash, Head(mq).n) /\ stash_bytes' = stash_bytes + 1
            /\ UNCHANGED <<co, woken>>
       [] OTHER -> UNCHANGED <<stash, stash_bytes, co, woken>>
  /\ UNCHANGED <<fd, err>>
\* EVENT.close
Close ==
  /\ Handles("close")
  /\ err' = (err \/ (fd = "open" /\ Head(mq).n = 1))
  /\ IF fd = "open" /\ co THEN Wake("nil") ELSE UNCHANGED <<co, woken>>
  /\ UNCHANGED <<fd, stash, stash_bytes>>

Task == ~abort /\ fd = "open" /\ ~co /\ woken = None /\ UNCHANGED <<csock, ops, ev, sent, mq>>
\* recvfrom(): a stashed datagram, also after the socket failed, or a wait.
RecvNow ==
  /\ Task /\ stash # <<>>
  /\ stash' = Tail(stash) /\ stash_bytes' = stash_bytes - 1 /\ got' = got + 1
  /\ UNCHANGED <<fd, err, co, timer, woken>>
RecvWait(timeout) ==
  /\ Task /\ stash = <<>> /\ ~err
  /\ co' = TRUE /\ timer' = timeout
  /\ UNCHANGED <<fd, err, stash, stash_bytes, woken, got>>
RecvTimer ==
  /\ ~abort /\ timer /\ woken = None /\ timer' = FALSE
  /\ IF co THEN Wake("timeout") ELSE UNCHANGED <<co, woken>>
  /\ UNCHANGED <<csock, ops, ev, sent, mq, fd, err, stash, stash_bytes, got>>
RecvReturn ==
  /\ ~abort /\ woken # None /\ woken' = None /\ timer' = FALSE
  /\ got' = IF woken = "packet" THEN got + 1 ELSE got
  /\ UNCHANGED <<csock, ops, ev, sent, mq, fd, err, co, stash, stash_bytes>>

\* sendto() and socket_udp_send(); a zombie or a freed slot is refused
SendTo ==
  /\ ~abort /\ fd = "open" /\ st = "polled" /\ sent < MaxSend
  /\ sent' = sent + 1 /\ ops' = Append(ops, "send") /\ wlbytes' = wlbytes + 1
  /\ UNCHANGED <<kind, st, closing, closewait, writing, wl, kerr, rx, arrived, failed, abort, ev, mq, lsock>>
\* close() and socket_close(); the worker frees a zombie itself
CloseSocket ==
  /\ ~abort /\ fd = "open" /\ fd' = "closed" /\ err' = TRUE
  /\ IF co THEN Wake("nil") ELSE UNCHANGED <<co, woken>>
  /\ CASE st = "zombie" -> Freed /\ UNCHANGED <<closing, ops>>
       [] st = "free" -> UNCHANGED <<st, wl, wlbytes, writing, closewait, closing, ops>>
       [] OTHER -> /\ closing' = TRUE /\ ops' = Append(ops, "close")
                   /\ UNCHANGED <<st, wl, wlbytes, writing, closewait>>
  /\ UNCHANGED <<kind, kerr, rx, arrived, failed, abort, ev, sent, mq, stash, stash_bytes, timer, got>>

SocketThread ==
  \/ OpDropped \/ OpOpen(TRUE) \/ OpOpen(FALSE) \/ OpClose \/ EventWait \/ PollGone
  \/ \E n \in {"ok", "error", "again"} : OpUdpSend(n)
  \/ \E j, bad \in 0 .. MaxSend : Poll(j, bad)
Worker == Opened \/ Data \/ Close \/ RecvTimer \/ RecvReturn
Next ==
  \/ SocketThread \/ Worker \/ Arrive \/ Unreachable \/ SendTo \/ CloseSocket
  \/ RecvNow \/ RecvWait(TRUE) \/ RecvWait(FALSE)
Spec == Init /\ [][Next]_vars

-----------------------------------------------------------------------------
\* Every datagram that came is returned once and in its order, whether it was handed
\* to a task that waited or stashed, and a timeout that races it loses none.
Upcoming ==
  (IF woken = "packet" THEN <<got + 1>> ELSE <<>>) \o stash
    \o [k \in DOMAIN SelectSeq(mq, LAMBDA m : m.kind = "data") |->
          SelectSeq(mq, LAMBDA m : m.kind = "data")[k].n]
DatagramsExact ==
  fd = "open" => /\ Upcoming = [k \in 1 .. (arrived - rx - got) |-> got + k]
                 /\ stash_bytes = Len(stash)
\* sendsize() is the number of bytes pushed and queued, plus what errors dropped from
\* the write list, which send_msg_udp() does not count back; the socket waits for
\* writability exactly when it has something queued.
UnsentExact ==
  st = "polled" =>
    /\ wlbytes = Len(SelectSeq(ops, LAMBDA o : o = "send")) + wl + failed
    /\ writing = (wl > 0)
    /\ closewait => closing /\ wl > 0
=============================================================================
