------------------------------- MODULE Http1 -------------------------------
(***************************************************************************)
(* HTTP/1.1: the client and server streams of h1.lua and the pool of idle  *)
(* connections in http/client.lua.  A connection is two sequences of       *)
(* tokens (a head, a body unit, a chunk), each carrying the request it     *)
(* belongs to, so that a stream reading another's bytes can be told.       *)
(* Header wording, paths and the size of a body unit are abstracted; which *)
(* length a head declares, when the buffers are flushed, what each side    *)
(* reads and every check made before a connection is reused are kept.      *)
(***************************************************************************)
EXTENDS Integers, Sequences, FiniteSets
CONSTANTS Clients, MaxReqs, MaxConns, MaxIdle, MaxBody, FlushAt, Sizes,
          Requests,  \* <<method, declared length, keep-alive, expect: 100-continue>>
          Answers    \* <<status, declared length, units written or -1, connection: close>>

VARIABLES conn,    \* state of each connection: "new", "open", "cut" (closed by the server), "seen" or "closed"
          c2s, s2c,    \* tokens on their way to the server and to the client
          stream,  \* the open stream of each client task
          handler, \* the stream httpd serves on each connection
          idle,    \* h1pool[key], in order
          ids,     \* requests made so far
          body,    \* body units each side wrote: body[id].req and body[id].res
          odd,     \* requests with an expect header or an empty chunk
          dirty    \* connections released with a response unread or after an odd request

h1vars == <<conn, c2s, s2c, stream, handler, idle, ids, body, odd, dirty>>

Chunked == -1
NoLength == -2      \* neither content-length nor transfer-encoding; ToEof when read
ToEof == -2
Flushed == -3
Conns == 1..MaxConns
NoBody == [req |-> 0, res |-> 0]
None == [conn |-> 0]

Header(id, len, kind, close) == [t |-> "head", id |-> id, n |-> len, kind |-> kind, close |-> close]
Unit(id) == [t |-> "unit", id |-> id, n |-> 1]
Chunk(id, n) == [t |-> "chunk", id |-> id, n |-> n]

Least(S) == CHOOSE x \in S : \A y \in S : x <= y

bodyless_request(m) == m \in {"GET", "HEAD", "DELETE", "CONNECT"}
bodyless_response(m, status) ==
  m = "HEAD" \/ status \in {"204", "304", "100"} \/ (m = "CONNECT" /\ status = "200")

newstream(c, id, m, len) ==
  [conn |-> c, id |-> id, method |-> m, keepalive |-> TRUE, expect |-> FALSE, hasresponse |-> FALSE,
   head |-> Flushed, kind |-> m, close |-> FALSE, allowbody |-> FALSE, out |-> <<>>, sendsize |-> 0,
   writeexpect |-> 0, writebytes |-> 0, writeclosed |-> FALSE,
   readexpect |-> len, recvbytes |-> 0, recvbuf |-> 0, got |-> 0, own |-> TRUE,
   eof |-> FALSE, err |-> FALSE, odd |-> FALSE]

Init ==
  /\ conn = [c \in Conns |-> "new"]
  /\ c2s = [c \in Conns |-> <<>>] /\ s2c = [c \in Conns |-> <<>>]
  /\ stream = [k \in Clients |-> None] /\ handler = [c \in Conns |-> None]
  /\ idle = <<>> /\ ids = 0
  /\ body = [i \in 1..MaxReqs |-> NoBody]
  /\ odd = {} /\ dirty = {}

(* flush_header: the length the head declares is decided at the first flush. *)
flush_header(s, close) ==
  LET len == IF s.head # NoLength THEN s.head
             ELSE IF ~s.allowbody THEN NoLength
             ELSE IF close THEN 0 ELSE Chunked
  IN IF s.head = Flushed THEN s
     ELSE [s EXCEPT !.head = Flushed,
                    !.writeexpect = IF len = NoLength THEN @ ELSE len,
                    !.out = Append(@, Header(s.id, len, s.kind, s.close))]

(* flushwrite: sendbuf goes to the connection; the caller appends s.out to the wire. *)
flushed(s, alive) ==
  [s EXCEPT !.out = <<>>, !.writebytes = @ + s.sendsize, !.sendsize = 0,
            !.err = @ \/ (s.out # <<>> /\ ~alive)]

(* write: a body longer than its content-length is refused; an empty chunk is the end mark. *)
write(s, n) ==
  LET f == flush_header(s, FALSE)
      size == f.sendsize + n
  IN CASE s.err \/ s.writeclosed -> s
       [] f.writeexpect = 0 -> f
       [] f.writeexpect = Chunked ->
            [f EXCEPT !.out = Append(@, Chunk(s.id, n)), !.sendsize = size, !.odd = @ \/ n = 0]
       [] OTHER -> IF size + f.writebytes > f.writeexpect THEN f
                   ELSE [f EXCEPT !.out = @ \o [i \in 1..n |-> Unit(s.id)], !.sendsize = size]

close_write(s) ==
  LET f == flush_header(s, TRUE)
  IN [f EXCEPT !.writeclosed = TRUE,
               !.out = IF f.writeexpect = Chunked THEN Append(@, Chunk(s.id, 0)) ELSE @]


check_close_error(s) ==
  \/ s.err
  \/ s.writeexpect # Chunked /\ s.writebytes < s.writeexpect
  \/ ~s.writeclosed
  \/ IF s.readexpect \in {Chunked, ToEof} THEN ~s.eof ELSE s.recvbytes < s.readexpect

(* How many tokens of w complete the body s is reading, -1 while some are missing. *)
Complete(s, w, over) ==
  LET ends == {i \in 1..Len(w) : w[i].t = "chunk" /\ w[i].n = 0}
      left == s.readexpect - s.recvbytes
  IN CASE s.eof -> 0
       [] s.readexpect = Chunked -> IF ends = {} THEN -1 ELSE Least(ends)
       [] s.readexpect = ToEof -> IF over THEN Len(w) ELSE -1
       [] OTHER -> IF Len(w) >= left THEN left ELSE -1

(* read_chunk and read_eof: the units of the tokens read go to recvbuf. *)
taken(s, w, n) ==
  LET units[i \in 0..n] == IF i = 0 THEN 0 ELSE units[i-1] + (IF w[i].t = "head" THEN 0 ELSE w[i].n)
  IN [s EXCEPT !.recvbytes = @ + units[n], !.recvbuf = @ + units[n],
               !.own = @ /\ \A i \in 1..n : w[i].id = s.id /\ w[i].t # "head"]

(* readall: what is in recvbuf once the whole body has come. *)
readall(s, w, n) ==
  LET r == taken(s, w, n)
  IN [r EXCEPT !.eof = @ \/ s.readexpect # 0, !.got = @ + r.recvbuf, !.recvbuf = 0]

(* read(1): from recvbuf, or the next token. *)
read(s, w) ==
  IF s.recvbuf > 0 THEN [s EXCEPT !.recvbuf = @ - 1, !.got = @ + 1]
  ELSE LET r == taken(s, w, 1)
           last == \/ s.readexpect = Chunked /\ w[1].n = 0
                   \/ s.readexpect >= 0 /\ r.recvbytes = s.readexpect
       IN IF r.recvbuf > 0 THEN [r EXCEPT !.eof = last, !.recvbuf = @ - 1, !.got = @ + 1]
          ELSE [r EXCEPT !.eof = last]

failed(s) == [s EXCEPT !.err = TRUE]
Drop(w, n) == SubSeq(w, n + 1, Len(w))
Alive(c) == conn[c] \in {"open", "cut"}
(* conn:close: httpd's next read on the connection fails and its loop ends. *)
CloseConns(C) ==
  /\ conn' = [c \in Conns |-> IF c \in C THEN "closed" ELSE conn[c]]
  /\ c2s' = [c \in Conns |-> IF c \in C THEN <<>> ELSE c2s[c]]
  /\ s2c' = [c \in Conns |-> IF c \in C THEN <<>> ELSE s2c[c]]
  /\ handler' = [c \in Conns |-> IF c \in C THEN None ELSE handler[c]]
  /\ dirty' = dirty \ C
(* What a client write puts on the wire, and a server write. *)
SendC(s) == c2s' = [c2s EXCEPT ![s.conn] = IF conn[s.conn] = "open" THEN @ \o s.out ELSE @]
SendS(s) == s2c' = [s2c EXCEPT ![s.conn] = @ \o s.out]

-----------------------------------------------------------------------------
(* The client: a task holds at most one stream. *)

(* client.request: find_conn takes the last living idle connection, connect opens one. *)
request(k, m, len, keep, exp100) ==
  LET live == {i \in 1..Len(idle) : Alive(idle[i])}
      at == CHOOSE i \in live : \A j \in live : j <= i
      fresh == {c \in Conns : conn[c] = "new"}
      c == IF live # {} THEN idle[at] ELSE Least(fresh)
      s0 == [newstream(c, ids + 1, m, 0) EXCEPT !.head = len, !.keepalive = keep, !.close = ~keep,
               !.allowbody = ~bodyless_request(m), !.expect = exp100, !.odd = exp100]
      s == IF exp100 THEN flush_header(s0, FALSE) ELSE s0
  IN /\ stream[k] = None /\ ids < MaxReqs
     /\ live # {} \/ fresh # {}
     /\ ids' = ids + 1
     /\ idle' = IF live # {} THEN SubSeq(idle, 1, at - 1) \o Drop(idle, at) ELSE idle
     /\ conn' = IF live # {} THEN conn ELSE [conn EXCEPT ![c] = "open"]
     /\ stream' = [stream EXCEPT ![k] = IF exp100 THEN flushed(s, TRUE) ELSE s]
     /\ c2s' = [c2s EXCEPT ![c] = IF exp100 /\ conn[c] # "cut" THEN @ \o s.out ELSE @]
     /\ odd' = IF exp100 THEN odd \cup {ids + 1} ELSE odd
     /\ UNCHANGED <<s2c, handler, body, dirty>>

(* h1c.write, flushed at 4096 bytes, and h1c.flush. *)
Write(k, n, flush) ==
  LET s == IF flush THEN flush_header(stream[k], FALSE) ELSE write(stream[k], n)
      out == flush \/ s.sendsize >= FlushAt
  IN /\ stream[k] # None /\ ~stream[k].writeclosed /\ ~stream[k].expect
     /\ body[stream[k].id].req + n <= MaxBody /\ (n = 0 => ~stream[k].odd)
     /\ (IF flush THEN stream[k].head # Flushed ELSE s # stream[k])
     /\ stream' = [stream EXCEPT ![k] = IF out THEN flushed(s, Alive(s.conn)) ELSE s]
     /\ (IF out THEN SendC(s) ELSE UNCHANGED c2s)
     /\ body' = [body EXCEPT ![s.id].req = @ + IF flush THEN 0 ELSE s.sendsize - stream[k].sendsize]
     /\ odd' = IF s.odd THEN odd \cup {s.id} ELSE odd
     /\ UNCHANGED <<conn, s2c, handler, idle, ids, dirty>>

closewrite(k) ==
  LET s == close_write(stream[k])
  IN /\ stream[k] # None /\ ~stream[k].writeclosed /\ ~stream[k].expect
     /\ stream' = [stream EXCEPT ![k] = flushed(s, Alive(s.conn))]
     /\ SendC(s)
     /\ UNCHANGED <<conn, s2c, handler, idle, ids, body, odd, dirty>>

(* waitresponse: the head decides how the body is delimited.  After a 100 the final
   response is waited for again, with the end mark the 100 left. *)
waitresponse(k) ==
  LET s == stream[k]
      w == s2c[s.conn]
      h == w[1]
      nobody == bodyless_response(s.method, h.kind)
      r == [s EXCEPT !.hasresponse = ~s.expect \/ h.t # "head" \/ h.kind # "100", !.expect = FALSE]
  IN /\ s # None /\ ~s.hasresponse /\ ~s.err /\ w # <<>>
     /\ stream' = [stream EXCEPT ![k] =
          IF h.t # "head" THEN failed(r)
          ELSE [r EXCEPT !.own = @ /\ h.id = s.id, !.keepalive = @ /\ ~h.close,
                         !.readexpect = IF nobody THEN 0 ELSE h.n,
                         !.eof = @ \/ nobody]]
     /\ s2c' = [s2c EXCEPT ![s.conn] = Tail(@)]
     /\ UNCHANGED <<conn, c2s, handler, idle, ids, body, odd, dirty>>

ReadAll(k) ==
  LET s == stream[k]
      n == Complete(s, s2c[s.conn], conn[s.conn] = "seen")
  IN /\ s # None /\ s.hasresponse /\ s.writeclosed /\ ~s.err /\ n >= 0
     /\ stream' = [stream EXCEPT ![k] = readall(s, s2c[s.conn], n)]
     /\ s2c' = [s2c EXCEPT ![s.conn] = Drop(@, n)]
     /\ UNCHANGED <<conn, c2s, handler, idle, ids, body, odd, dirty>>

ReadOne(k) ==
  LET s == stream[k]
      w == s2c[s.conn]
  IN /\ s # None /\ s.hasresponse /\ s.writeclosed /\ ~s.err /\ ~s.eof /\ s.readexpect # 0
     /\ s.recvbuf > 0 \/ w # <<>>
     /\ stream' = [stream EXCEPT ![k] = read(s, w)]
     /\ s2c' = [s2c EXCEPT ![s.conn] = IF s.recvbuf > 0 THEN @ ELSE Tail(@)]
     /\ UNCHANGED <<conn, c2s, handler, idle, ids, body, odd, dirty>>

(* A read that times out, or finds the connection ended before the message is whole. *)
ReadFails(k) ==
  LET s == stream[k]
  IN /\ s # None /\ ~s.err
     /\ IF s.hasresponse THEN Complete(s, s2c[s.conn], conn[s.conn] = "seen") < 0 ELSE s2c[s.conn] = <<>>
     /\ stream' = [stream EXCEPT ![k] = [failed(s) EXCEPT !.expect = FALSE]]
     /\ s2c' = [s2c EXCEPT ![s.conn] = IF s.hasresponse THEN <<>> ELSE @]
     /\ UNCHANGED <<conn, c2s, handler, idle, ids, body, odd, dirty>>

(* h1c.close and releaseh1: only a connection on which nothing is outstanding is kept. *)
Release(k) ==
  LET s == stream[k]
      c == s.conn
      broken == check_close_error(s) \/ s.method = "CONNECT" \/ s.readexpect = ToEof \/ ~s.keepalive
      keep == ~broken /\ Alive(c) /\ Len(idle) < MaxIdle
  IN /\ s # None /\ ~s.expect
     /\ stream' = [stream EXCEPT ![k] = None]
     /\ idle' = IF keep THEN Append(idle, c) ELSE idle
     /\ IF keep THEN /\ dirty' = dirty \cup (IF ~s.hasresponse \/ s.id \in odd THEN {c} ELSE {})
                     /\ UNCHANGED <<conn, c2s, s2c, handler>>
                ELSE CloseConns({c})
     /\ body' = [body EXCEPT ![s.id] = NoBody] /\ odd' = odd \ {s.id}
     /\ UNCHANGED ids

(* check_alive_timer: the entries idle for too long, or dead, are closed. *)
check_alive_timer(expired) ==
  LET keeps(c) == Alive(c) /\ ~(c \in expired)
  IN /\ idle # <<>> /\ \E i \in 1..Len(idle) : ~keeps(idle[i])
     /\ idle' = SelectSeq(idle, keeps)
     /\ CloseConns({c \in Conns : (\E i \in 1..Len(idle) : idle[i] = c) /\ ~keeps(c)})
     /\ UNCHANGED <<stream, ids, body, odd>>

-----------------------------------------------------------------------------
(* The server: httpd serves one request after another on each connection. *)

ServerUp(c) == conn[c] = "open"

(* httpd: a line that is no request is answered with an error and ends the loop. *)
httpd(c) ==
  LET h == c2s[c][1]
  IN /\ ServerUp(c) /\ handler[c] = None /\ c2s[c] # <<>>
     /\ c2s' = [c2s EXCEPT ![c] = Tail(@)]
     /\ \/ /\ h.t = "head"
           /\ handler' = [handler EXCEPT ![c] =
                [newstream(c, h.id, h.kind, IF h.n = NoLength THEN 0 ELSE h.n) EXCEPT !.keepalive = ~h.close]]
           /\ UNCHANGED <<conn, s2c>>
        \/ /\ h.t # "head"
           /\ s2c' = [s2c EXCEPT ![c] = Append(@, Header(0, NoLength, "405", FALSE))]
           /\ conn' = [conn EXCEPT ![c] = "cut"]
           /\ UNCHANGED handler
     /\ UNCHANGED <<stream, idle, ids, body, odd, dirty>>

(* h1s.readall in the handler. *)
HandlerReads(c) ==
  LET s == handler[c]
      n == Complete(s, c2s[c], FALSE)
  IN /\ ServerUp(c) /\ s # None /\ ~s.eof /\ s.readexpect # 0 /\ n >= 0
     /\ handler' = [handler EXCEPT ![c] = readall(s, c2s[c], n)]
     /\ c2s' = [c2s EXCEPT ![c] = Drop(@, n)]
     /\ UNCHANGED <<conn, s2c, stream, idle, ids, body, odd, dirty>>

(* h1s.respond, with the lengths a bodyless answer may not declare removed. *)
respond(s, status, len, close) ==
  LET nobody == bodyless_response(s.method, status)
  IN [s EXCEPT !.kind = status, !.close = close, !.allowbody = ~nobody,
               !.head = IF nobody THEN NoLength ELSE len]

(* The handler answers "100" and flushes, before its final answer. *)
HandlerContinues(c) ==
  LET s == flush_header(respond(handler[c], "100", NoLength, FALSE), FALSE)
  IN /\ ServerUp(c) /\ handler[c] # None /\ handler[c].id \in odd /\ ~handler[c].expect
     /\ handler' = [handler EXCEPT ![c] = [flushed(s, TRUE) EXCEPT !.expect = TRUE]]
     /\ SendS(s)
     /\ UNCHANGED <<conn, c2s, stream, idle, ids, body, odd, dirty>>

(* The handler responds, writes n units, and returns; httpd closes the writing side and
   goes on only if the request was read and the response written to the end. *)
HandlerEnds(c, status, len, n, close) ==
  LET r == respond(handler[c], status, len, close)
      w == IF n < 0 THEN r ELSE write(r, n)
      s == close_write(w)
      f == flushed(s, TRUE)
      ends == check_close_error(f) \/ ~f.keepalive
      waited == \E k \in Clients : stream[k] # None /\ stream[k].id = s.id
  IN /\ ServerUp(c) /\ handler[c] # None
     /\ handler' = [handler EXCEPT ![c] = None]
     /\ SendS(s)
     /\ body' = IF waited THEN [body EXCEPT ![s.id].res = w.sendsize] ELSE body
     /\ odd' = IF s.odd /\ waited THEN odd \cup {s.id} ELSE odd
     /\ conn' = IF ends THEN [conn EXCEPT ![c] = "cut"] ELSE conn
     /\ UNCHANGED <<c2s, stream, idle, ids, dirty>>

(* The handler raised an error, or the server died: the connection is closed. *)
HandlerFails(c) ==
  /\ ServerUp(c) /\ handler[c] # None
  /\ handler' = [handler EXCEPT ![c] = None]
  /\ conn' = [conn EXCEPT ![c] = "cut"]
  /\ UNCHANGED <<c2s, s2c, stream, idle, ids, body, odd, dirty>>

(* EVENT.close: the client side learns that the server closed the connection. *)
SeeClose(c) ==
  /\ conn[c] = "cut"
  /\ conn' = [conn EXCEPT ![c] = "seen"]
  /\ UNCHANGED <<c2s, s2c, stream, handler, idle, ids, body, odd, dirty>>

Next ==
  \/ \E k \in Clients :
       \/ \E r \in Requests : request(k, r[1], r[2], r[3], r[4])
       \/ \E n \in Sizes, f \in BOOLEAN : Write(k, n, f)
       \/ closewrite(k) \/ waitresponse(k) \/ ReadAll(k) \/ ReadOne(k) \/ ReadFails(k) \/ Release(k)
  \/ \E expired \in SUBSET Conns : check_alive_timer(expired)
  \/ \E c \in Conns :
       \/ httpd(c) \/ HandlerReads(c) \/ HandlerContinues(c) \/ HandlerFails(c) \/ SeeClose(c)
       \/ \E a \in Answers : HandlerEnds(c, a[1], a[2], a[3], a[4])
Spec == Init /\ [][Next]_h1vars

-----------------------------------------------------------------------------
(* A stream reads the response to its own request and nothing else, unless the connection was
   released by a stream that had not read its response (h1c.close only looks at the body length
   it knows, 0 before the head is read) or whose request was odd. *)
OwnResponse ==
  \A k \in Clients : stream[k] # None /\ ~(stream[k].conn \in dirty) /\ ~(stream[k].id \in odd)
                       => stream[k].own

(* readall returns the whole body the handler wrote, and the handler is given the whole body of
   the request: no unit is lost or repeated across flushes, chunks and partial reads. *)
WholeBody ==
  /\ \A k \in Clients :
       LET s == stream[k]
       IN s # None /\ s.hasresponse /\ ~s.err /\ s.eof /\ s.recvbuf = 0
            /\ ~(s.conn \in dirty) /\ ~(s.id \in odd)
            => s.got = body[s.id].res
  /\ \A c \in Conns :
       LET s == handler[c]
       IN s # None /\ s.eof /\ ~(c \in dirty) /\ ~(s.id \in odd) => s.got = body[s.id].req

(* An idle connection has no stream, nobody else's bytes on it, and is in the pool once. *)
IdleClean ==
  /\ Len(idle) <= MaxIdle
  /\ \A i \in 1..Len(idle) :
       /\ \A j \in 1..Len(idle) : i # j => idle[i] # idle[j]
       /\ \A k \in Clients : stream[k].conn # idle[i]
       /\ conn[idle[i]] # "closed"
       /\ ~(idle[i] \in dirty) /\ conn[idle[i]] = "open" =>
             s2c[idle[i]] = <<>> /\ c2s[idle[i]] = <<>> /\ handler[idle[i]] = None

=============================================================================
