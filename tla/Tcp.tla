-------------------------------- MODULE Tcp ---------------------------------
(***************************************************************************)
(* A connection of silly.net.tcp (tcp.lua): one task reads it, by count or *)
(* up to a delimiter, with or without a timeout; others may set its limit  *)
(* or close it.  The socket thread sends the worker the blocks it read and *)
(* the close.  The peer's bytes are the constant Stream: the buffer holds  *)
(* those at rpos + 1 .. dpos (module Buffer shows it to be such a queue).  *)
(***************************************************************************)
EXTENDS Integers, Sequences

CONSTANTS Stream,   \* the bytes the peer sends before it closes
          Delim,    \* the byte lines end with
          Counts,   \* the numbers of bytes read at once
          Limits    \* the values given to limit()

VARIABLES open,     \* s.fd is set
          err,      \* s.err is set
          need,     \* s.delim while s.co waits: a count or Line; 0 without one
          limit, readpause,
          timer,    \* the read's timer is armed
          woken,    \* what wait() will return: None, "data", "nil" or "timeout"
          rpos, dpos,
          done,     \* the bytes returned to the caller
          asked,    \* history: the `need' of a read that is woken with its bytes
          mq, npos, \* messages for the worker; the bytes the socket thread read
          reading   \* the socket is polled for input
vars == <<open, err, need, limit, readpause, timer, woken, rpos, dpos, done, asked,
          mq, npos, reading>>

None == "none"
Line == -1
NoLimit == -1
Init ==
  /\ open = TRUE /\ err = FALSE /\ need = 0 /\ limit = NoLimit /\ readpause = FALSE
  /\ timer = FALSE /\ woken = None
  /\ rpos = 0 /\ dpos = 0 /\ done = 0 /\ asked = 0
  /\ mq = <<>> /\ npos = 0 /\ reading = TRUE

\* bread(buf, n) on the bytes up to d: where the read ends, or -1 for nil
Lines(d) == {k \in (rpos + 1) .. d : Stream[k] = Delim}
Bread(n, d) ==
  IF n = Line THEN IF Lines(d) = {} THEN -1
                    ELSE CHOOSE k \in Lines(d) : \A j \in Lines(d) : k <= j
  ELSE IF rpos + n <= d THEN rpos + n ELSE -1

\* The message queue and the ready tasks: a message is handled when no task is woken.
Handles(m) == /\ mq # <<>> /\ woken = None /\ Head(mq).kind = m
              /\ mq' = Tail(mq) /\ UNCHANGED npos
Waiting == need # 0
Wake(v) == need' = 0 /\ woken' = v


\* check_limit(); readenable() reaches the socket thread (reading) at once here.
CheckLimit(lim, size) ==
  readpause' = IF lim = NoLimit THEN FALSE
               ELSE IF readpause THEN ~(size < lim) ELSE size >= lim
Readenable == reading' = IF readpause' # readpause THEN ~readpause' ELSE reading

\* EVENT.data: the block is appended, a reader it satisfies is woken, and the limit
\* is checked on what is left.
Data ==
  /\ Handles("data")
  /\ IF open
     THEN LET d == Head(mq).to
              e == IF Waiting THEN Bread(need, d) ELSE -1
          IN /\ dpos' = d
             /\ IF e >= 0
                THEN rpos' = e /\ Wake("data") /\ asked' = need
                ELSE UNCHANGED <<rpos, need, woken, asked>>
             /\ CheckLimit(limit, d - rpos') /\ Readenable
     ELSE UNCHANGED <<dpos, rpos, need, woken, asked, readpause, reading>>
  /\ UNCHANGED <<open, err, limit, timer, done>>

\* (fault) the reader is not woken
Close_Silent == /\ Handles("close") /\ err' = (err \/ open)
                /\ UNCHANGED <<open, need, limit, readpause, timer, woken, rpos, dpos, done, asked, reading>>
\* EVENT.close
Close ==
  /\ Handles("close")
  /\ IF open
     THEN /\ err' = TRUE
          /\ IF Waiting THEN Wake("nil") ELSE UNCHANGED <<need, woken>>
     ELSE UNCHANGED <<err, need, woken>>
  /\ UNCHANGED <<open, limit, readpause, timer, rpos, dpos, done, asked, reading>>

\* read_timer()
ReadTimer ==
  /\ timer /\ woken = None /\ timer' = FALSE
  /\ IF Waiting THEN Wake("timeout") ELSE UNCHANGED <<need, woken>>
  /\ UNCHANGED <<open, err, limit, readpause, rpos, dpos, done, asked, mq, npos, reading>>

\* read(): bytes at hand are returned at once, also after the peer has closed ...
CanRead == open /\ ~Waiting /\ woken = None
ReadNow(n) ==
  LET e == Bread(n, dpos)
  IN /\ CanRead /\ e >= 0
     /\ rpos' = e /\ done' = e
     /\ IF limit = NoLimit THEN UNCHANGED <<readpause, reading>>
        ELSE CheckLimit(limit, dpos - e) /\ Readenable
     /\ UNCHANGED <<open, err, need, limit, timer, woken, dpos, asked, mq, npos>>
\* ... else the socket is read again and the task waits.
ReadWait(n, timeout) ==
  /\ CanRead /\ Bread(n, dpos) < 0 /\ ~err
  /\ readpause' = FALSE /\ Readenable
  /\ need' = n /\ timer' = timeout
  /\ UNCHANGED <<open, err, limit, woken, rpos, dpos, done, asked, mq, npos>>

\* The reader resumed: a timeout leaves its timer fired, any other result cancels it.
ReadReturn ==
  /\ woken # None /\ woken' = None
  /\ timer' = FALSE
  /\ done' = IF woken = "data" THEN rpos ELSE done
  /\ asked' = 0
  /\ UNCHANGED <<open, err, need, limit, readpause, rpos, dpos, mq, npos, reading>>

\* limit()
SetLimit(l) ==
  /\ open /\ limit # l
  /\ limit' = l /\ CheckLimit(l, dpos - rpos) /\ Readenable
  /\ UNCHANGED <<open, err, need, timer, woken, rpos, dpos, done, asked, mq, npos>>

\* close(): by any task, also while the reader waits or is woken
CloseConn ==
  /\ open /\ open' = FALSE /\ reading' = FALSE
  /\ IF Waiting THEN err' = TRUE /\ Wake("nil") ELSE UNCHANGED <<err, need, woken>>
  /\ UNCHANGED <<limit, readpause, timer, rpos, dpos, done, asked, mq, npos>>

\* The socket thread (Socket.tla): blocks of any size, then the close.
Recv(k) ==
  /\ reading /\ npos + k <= Len(Stream)
  /\ npos' = npos + k /\ mq' = Append(mq, [kind |-> "data", to |-> npos + k])
  /\ UNCHANGED <<open, err, need, limit, readpause, timer, woken, rpos, dpos, done, asked, reading>>
RecvEof ==
  /\ reading /\ npos = Len(Stream)
  /\ npos' = npos + 1 /\ mq' = Append(mq, [kind |-> "close", to |-> npos])
  /\ UNCHANGED <<open, err, need, limit, readpause, timer, woken, rpos, dpos, done, asked, reading>>

Worker == Data \/ Close \/ ReadTimer \/ ReadReturn
SocketThread == (\E k \in 1 .. Len(Stream) : Recv(k)) \/ RecvEof
User ==
  \/ \E n \in Counts \cup {Line} : ReadNow(n) \/ ReadWait(n, TRUE) \/ ReadWait(n, FALSE)
  \/ \E l \in Limits \cup {NoLimit} : SetLimit(l)
  \/ CloseConn
Next == Worker \/ SocketThread \/ User
Spec == Init /\ [][Next]_vars /\ WF_vars(Worker) /\ WF_vars(SocketThread)

-----------------------------------------------------------------------------
\* No byte is lost between the socket and the reader, whatever times out, pauses or
\* closes: the bytes taken from the buffer are those returned, but for a read that is
\* woken with them; and each read returned the bytes it asked for.
NoByteLost ==
  /\ rpos <= dpos /\ (woken # "data" => done = rpos)
  /\ woken = "data" =>
       IF asked = Line
       THEN Stream[rpos] = Delim /\ \A k \in (done + 1) .. (rpos - 1) : Stream[k] # Delim
       ELSE rpos - done = asked
\* The connection is paused only while the buffer is at its limit, so a reader that
\* waits for no more than the limit is never paused (check_limit, read).
PauseExact ==
  /\ readpause => limit # NoLimit /\ dpos - rpos >= limit
  /\ open => reading = ~readpause
\* A read comes back: with bytes, the timeout or the close, unless the bytes it has
\* to wait for do not fit the limit (EVENT, read_timer, close of tcp.lua).
ReadReturns == Waiting ~> (~Waiting \/ readpause)
=============================================================================
