-------------------------------- MODULE Log --------------------------------
(***************************************************************************)
(* The log (log.c): each thread formats the head of a line in a cache of   *)
(* its own, then, under the lock, copies head and body into a ring that is *)
(* flushed to stdout when the next line does not fit.  A write to stdout   *)
(* may fail after any number of bytes.  Bytes are numbered in the order    *)
(* they are logged.                                                        *)
(***************************************************************************)
EXTENDS Naturals, Sequences

CONSTANTS Size,     \* LB->size
          Lengths,  \* lengths of lines, head and body
          MaxBytes, \* bound on the bytes logged
          Loggers, Traces, Secs \* the threads, trace ids and seconds

VARIABLES ring, rpos, wpos, \* LB->buf, read_pos, write_pos
          logged,           \* number of bytes logged so far
          out,              \* what stdout received
          taken,            \* history: what ring_write took charge of
          cache,            \* head_cache of each thread; what its text shows
          head              \* history: the head of the last line, and its facts

ringvars == <<ring, rpos, wpos, logged, out, taken>>
lvars == <<ringvars, cache, head>>

LogInit ==
  /\ ring = [i \in 0 .. Size - 1 |-> 0] /\ rpos = 0 /\ wpos = 0
  /\ logged = 0 /\ out = <<>> /\ taken = <<>>
  /\ cache = [p \in Loggers |-> [built |-> FALSE, sec |-> 0, trace |-> 0,
                                 text |-> [sec |-> 0, trace |-> 0]]]
  /\ head = [sec |-> 0, trace |-> 0, text |-> [sec |-> 0, trace |-> 0]]

-----------------------------------------------------------------------------
(* The head of a line. *)

\* fmttime: the text is rebuilt when the second or the trace id is another
\* than the cached one.  BUILD_SEC leaves the cached trace id as it was.
Formatted(c, sec, trace) ==
  IF ~c.built THEN [c EXCEPT !.built = TRUE, !.text = [sec |-> sec, trace |-> trace]]
  ELSE IF sec # c.sec THEN [c EXCEPT !.sec = sec, !.text = [sec |-> sec, trace |-> trace]]
  ELSE IF trace # c.trace THEN [c EXCEPT !.trace = trace, !.text.trace = trace]
  ELSE c

BuildHead(p, sec, trace) ==
  LET c == Formatted(cache[p], sec, trace)
  IN /\ cache' = [cache EXCEPT ![p] = c]
     /\ head' = [sec |-> sec, trace |-> trace, text |-> c.text]

-----------------------------------------------------------------------------
(* The ring, with the lock held. *)

Used == IF wpos >= rpos THEN wpos - rpos ELSE Size - rpos + wpos
Available == Size - Used - 1
Content == [i \in 1 .. Used |-> ring[(rpos + i - 1) % Size]]
Line(n) == [i \in 1 .. n |-> logged + i]

\* ring_flush when k bytes could be written: (end > start) or the wrapped case.
ReadPos(k) == IF wpos > rpos THEN rpos + k ELSE (rpos + k) % Size

\* ring_copy of the line at write_pos.
Copy(n) ==
  /\ ring' = [i \in 0 .. Size - 1 |->
                LET off == (i + Size - wpos) % Size
                IN IF off < n THEN logged + off + 1 ELSE ring[i]]
  /\ wpos' = (wpos + n) % Size

Direct(n) == n >= Size

\* ring_write of a line of n bytes.
Fits(n) ==
  /\ Used = 0 \/ Available >= n
  /\ ~(Used = 0 /\ Direct(n))
  /\ Copy(n)
  /\ taken' = taken \o Line(n)
  /\ UNCHANGED <<rpos, out>>

FlushFirst(n) ==
  /\ Used > 0 /\ Available < n
  /\ \/ \E k \in 0 .. Used - 1 :     \* fd error: the line goes to stderr
          /\ rpos' = ReadPos(k)
          /\ out' = out \o SubSeq(Content, 1, k)
          /\ UNCHANGED <<ring, wpos, taken>>
     \/ /\ ~Direct(n)
        /\ rpos' = ReadPos(Used)
        /\ out' = out \o Content
        /\ Copy(n)
        /\ taken' = taken \o Line(n)
     \/ /\ Direct(n)
        /\ \E k \in 0 .. n :
             /\ rpos' = ReadPos(Used)
             /\ out' = out \o Content \o SubSeq(Line(n), 1, k)
             /\ taken' = taken \o SubSeq(Line(n), 1, k)
        /\ UNCHANGED <<ring, wpos>>

Straight(n) ==
  /\ Used = 0 /\ Direct(n)
  /\ \E k \in 0 .. n :
       /\ out' = out \o SubSeq(Line(n), 1, k)
       /\ taken' = taken \o SubSeq(Line(n), 1, k)
  /\ UNCHANGED <<ring, rpos, wpos>>

\* log_write_
Write(p, sec, trace, n) ==
  /\ logged + n <= MaxBytes
  /\ BuildHead(p, sec, trace)
  /\ logged' = logged + n
  /\ Fits(n) \/ FlushFirst(n) \/ Straight(n)

\* log_flush, called by the monitor once a second and at exit.
Flush ==
  /\ Used > 0
  /\ \E k \in 0 .. Used :
       /\ rpos' = ReadPos(k)
       /\ out' = out \o SubSeq(Content, 1, k)
  /\ UNCHANGED <<ring, wpos, logged, taken, cache, head>>

LogNext ==
  \/ \E p \in Loggers, s \in Secs, x \in Traces, n \in Lengths : Write(p, s, x, n)
  \/ Flush

LogSpec == LogInit /\ [][LogNext]_lvars

-----------------------------------------------------------------------------
\* Positions stay inside the ring.
LogTypeOK == rpos \in 0 .. Size - 1 /\ wpos \in 0 .. Size - 1

\* What ring_write took charge of comes out once and in order: at any time it
\* is what stdout received followed by what the ring holds, through wrapped
\* lines, lines as long as the ring, failed and partial writes.
NothingLost == out \o Content = taken

\* A line carries the second it was logged at (fmttime); the trace id it carries may be an
\* older task's, since fmttime formats the head anew only when the second changes.
SecondIsOwn == head.text.sec = head.sec
=============================================================================
