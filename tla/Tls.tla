-------------------------------- MODULE Tls ---------------------------------
(***************************************************************************)
(* A connection of silly.net.tls (tls.lua over ltls.c), on either side: the*)
(* handshake, under connect()'s deadline or without one in accept, then    *)
(* reads of the decrypted bytes.  The peer's bytes are Stream, of which the*)
(* first Hello belong to the handshake; a block may hold the end of the    *)
(* handshake and the first application bytes.                              *)
(***************************************************************************)
EXTENDS Integers, Sequences

CONSTANTS Stream, Hello, Delim, Counts, Limits

VARIABLES pc,       \* "handshake", "user" (connect returned, or accept's callback runs), "closed"
          server,   \* accepted, without a deadline
          err, need, limit, readpause, timer, woken,  \* as in Tcp
          rpos, dpos,  \* the plaintext read; the raw bytes pushed into the SSL
          done, asked, mq, npos, reading
vars == <<pc, server, err, need, limit, readpause, timer, woken, rpos, dpos, done,
          asked, mq, npos, reading>>

None == "none"
Line == -1
HANDSHAKE == -2
NoLimit == -1
Init ==
  /\ pc = "connected" /\ server \in BOOLEAN /\ err = FALSE /\ need = 0
  /\ limit = NoLimit /\ readpause = FALSE /\ timer = FALSE /\ woken = None
  /\ rpos = Hello /\ dpos = 0 /\ done = Hello /\ asked = 0
  /\ mq = <<>> /\ npos = 0 /\ reading = TRUE

Open == pc \in {"handshake", "user"}
Waiting == need # 0
Wake(v) == need' = 0 /\ woken' = v
Handles(m) == /\ mq # <<>> /\ woken = None /\ Head(mq).kind = m
              /\ mq' = Tail(mq) /\ UNCHANGED npos

\* ltls_read(): on the plaintext of the raw bytes up to d
Lines(d) == {k \in (rpos + 1) .. d : Stream[k] = Delim}
TlsRead(n, d) ==
  IF n = Line THEN IF Lines(d) = {} THEN -1
                   ELSE CHOOSE k \in Lines(d) : \A j \in Lines(d) : k <= j
  ELSE IF rpos + n <= d THEN rpos + n ELSE -1
\* ltls_push() and ltls_size(): SSL_read decrypts all there is once the handshake is over.
Plain(d, r) == IF d > r THEN d - r ELSE 0

\* check_limit()
CheckLimit(lim, size) ==
  /\ readpause' = IF lim = NoLimit THEN FALSE
                  ELSE IF readpause THEN ~(size < lim) ELSE size >= lim
  /\ reading' = IF readpause' # readpause THEN ~readpause' ELSE reading

\* ltls_handshake(): done, refused, or it wants more; OpenSSL refuses what it likes.
Handshake(d) == IF d >= Hello THEN {"ok", "error"} ELSE {"continue", "error"}

\* new_socket() and handshake(): the first flight goes out, and the task waits for the
\* peer's, under what is left of connect()'s deadline.
Start(deadline) ==
  /\ pc = "connected" /\ pc' = "handshake"
  /\ \E r \in Handshake(dpos) \ {"ok"} :
       IF r = "continue" THEN need' = HANDSHAKE /\ woken' = None /\ err' = err
       ELSE need' = 0 /\ woken' = "nil" /\ err' = TRUE
  /\ timer' = (deadline /\ ~server /\ need' # 0)
  /\ UNCHANGED <<server, limit, readpause, rpos, dpos, done, asked, mq, npos, reading>>

\* connect() whose deadline passed while the socket connected
StartLate ==
  /\ pc = "connected" /\ ~server /\ pc' = "closed" /\ reading' = FALSE
  /\ UNCHANGED <<server, err, need, limit, readpause, timer, woken, rpos, dpos, done, asked, mq, npos>>

\* EVENT.data while the handshake goes on, else as for tcp.
Data ==
  /\ Handles("data")
  /\ IF Open
     THEN LET d == Head(mq).to
              e == IF need = HANDSHAKE \/ ~Waiting THEN -1 ELSE TlsRead(need, d)
          IN /\ dpos' = d
             /\ IF need = HANDSHAKE
                THEN \E r \in Handshake(d) :
                       /\ IF r = "continue" THEN UNCHANGED <<need, woken>>
                          ELSE Wake(IF r = "ok" THEN "ok" ELSE "nil")
                       /\ err' = (err \/ r = "error")
                       /\ UNCHANGED <<rpos, asked>>
                ELSE /\ IF e >= 0 THEN rpos' = e /\ Wake("data") /\ asked' = need
                        ELSE UNCHANGED <<rpos, need, woken, asked>>
                     /\ err' = err
             /\ CheckLimit(limit, Plain(d, rpos'))
     ELSE UNCHANGED <<dpos, rpos, err, need, woken, asked, readpause, reading>>
  /\ UNCHANGED <<pc, server, limit, timer, done>>

\* EVENT.close
Close ==
  /\ Handles("close")
  /\ IF Open
     THEN /\ err' = TRUE
          /\ IF Waiting THEN Wake("nil") ELSE UNCHANGED <<need, woken>>
     ELSE UNCHANGED <<err, need, woken>>
  /\ UNCHANGED <<pc, server, limit, readpause, timer, rpos, dpos, done, asked, reading>>

\* read_timer()
ReadTimer ==
  /\ timer /\ woken = None /\ timer' = FALSE
  /\ IF Waiting THEN Wake("timeout") ELSE UNCHANGED <<need, woken>>
  /\ UNCHANGED <<pc, server, err, limit, readpause, rpos, dpos, done, asked, mq, npos, reading>>

\* block_read() returns in connect() or EVENT.accept: a failed handshake closes.
HandshakeReturn ==
  /\ pc = "handshake" /\ woken # None
  /\ woken' = None /\ timer' = FALSE
  /\ pc' = IF woken = "ok" THEN "user" ELSE "closed"
  /\ reading' = (reading /\ woken = "ok")
  /\ UNCHANGED <<server, err, need, limit, readpause, rpos, dpos, done, asked, mq, npos>>

\* block_read() returns in read()
ReadReturn ==
  /\ pc # "handshake" /\ woken # None
  /\ woken' = None /\ timer' = FALSE /\ asked' = 0
  /\ done' = IF woken = "data" THEN rpos ELSE done
  /\ UNCHANGED <<pc, server, err, need, limit, readpause, rpos, dpos, mq, npos, reading>>

\* read(): unlike tcp's it does not lift a pause before it waits.
CanRead == pc = "user" /\ ~Waiting /\ woken = None
ReadNow(n) ==
  LET e == TlsRead(n, dpos)
  IN /\ CanRead /\ e >= 0
     /\ rpos' = e /\ done' = e
     /\ CheckLimit(limit, Plain(dpos, e))
     /\ UNCHANGED <<pc, server, err, need, limit, timer, woken, dpos, asked, mq, npos>>
ReadWait(n, timeout) ==
  /\ CanRead /\ TlsRead(n, dpos) < 0 /\ ~err
  /\ need' = n /\ timer' = timeout
  /\ UNCHANGED <<pc, server, err, limit, readpause, woken, rpos, dpos, done, asked, mq, npos, reading>>

\* limit() and close()
SetLimit(l) ==
  /\ pc = "user" /\ limit # l
  /\ limit' = l /\ CheckLimit(l, Plain(dpos, rpos))
  /\ UNCHANGED <<pc, server, err, need, timer, woken, rpos, dpos, done, asked, mq, npos>>
CloseConn ==
  /\ pc = "user" /\ pc' = "closed" /\ reading' = FALSE
  /\ IF Waiting THEN err' = TRUE /\ Wake("nil") ELSE UNCHANGED <<err, need, woken>>
  /\ UNCHANGED <<server, limit, readpause, timer, rpos, dpos, done, asked, mq, npos>>

\* The socket thread
Recv(k) ==
  /\ reading /\ pc # "connected" /\ npos + k <= Len(Stream)
  /\ npos' = npos + k /\ mq' = Append(mq, [kind |-> "data", to |-> npos + k])
  /\ UNCHANGED <<pc, server, err, need, limit, readpause, timer, woken, rpos, dpos, done, asked, reading>>
RecvEof ==
  /\ reading /\ pc # "connected" /\ npos <= Len(Stream)
  /\ npos' = Len(Stream) + 1 /\ mq' = Append(mq, [kind |-> "close", to |-> npos])
  /\ UNCHANGED <<pc, server, err, need, limit, readpause, timer, woken, rpos, dpos, done, asked, reading>>

Worker == Data \/ Close \/ ReadTimer \/ HandshakeReturn \/ ReadReturn
SocketThread == (\E k \in 1 .. Len(Stream) : Recv(k)) \/ RecvEof
User ==
  \/ Start(TRUE) \/ Start(FALSE) \/ StartLate
  \/ \E n \in Counts \cup {Line} : ReadNow(n) \/ ReadWait(n, TRUE) \/ ReadWait(n, FALSE)
  \/ \E l \in Limits \cup {NoLimit} : SetLimit(l)
  \/ CloseConn
Next == Worker \/ SocketThread \/ User
Spec == Init /\ [][Next]_vars /\ WF_vars(Worker) /\ WF_vars(SocketThread)

-----------------------------------------------------------------------------
\* Plaintext reaches the reader once and in order, also the bytes that came in one
\* block with the end of the handshake (ltls_push, EVENT.data of tls.lua).
NoByteLost ==
  /\ woken # "data" => done = rpos
  /\ woken = "data" =>
       IF asked = Line
       THEN Stream[rpos] = Delim /\ \A k \in (done + 1) .. (rpos - 1) : Stream[k] # Delim
       ELSE rpos - done = asked
\* A caller gets a connection only when its handshake is over (connect, EVENT.accept).
Established == pc = "user" => dpos >= Hello
\* The connection is paused only at its limit, and the socket thread knows.
PauseExact ==
  /\ readpause => limit # NoLimit /\ Plain(dpos, rpos) >= limit
  /\ Open => reading = ~readpause
\* A handshake or a read comes back, unless what a read waits for exceeds the limit.
ReadReturns == Waiting ~> (~Waiting \/ readpause)
=============================================================================
