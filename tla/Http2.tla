------------------------------- MODULE Http2 -------------------------------
(***************************************************************************)
(* One HTTP/2 channel of h2.lua, as a client or as a server, against a     *)
(* peer that keeps to the protocol except that a body may be shorter than  *)
(* its content-length and a header block may be malformed.  Body bytes are *)
(* counted in units and header contents are left out (Hpack models the     *)
(* table).  Frames the channel writes are seen by the peer at once, frames *)
(* of the peer wait in inq, so that they cross what the channel does.      *)
(***************************************************************************)
EXTENDS Integers, Sequences, FiniteSets, FiniteSetsExt, TLC
CONSTANTS Roles,         \* {"client", "server"} or one of them
          MaxStreamId,   \* MAX_STREAM_ID, 2^31 - 3 in the code
          StreamWin,     \* stream_init_window_size, the credit given to the peer
          PeerWins,      \* initial stream windows the peer may announce
          MaxWindow,     \* 2^31 - 1 in the code
          ClosedMax,     \* CLOSED_STREAM_COUNT
          MaxUsers,      \* tasks holding a stream or waiting for one
          Limits,        \* bounds: [max |-> streammax, open |-> highest id opened, frames |-> frames of
                         \* the peer, writes |-> sizes written, lengths |-> content-lengths of the
                         \* peer: n, -1 none, -2 malformed header, -3 no number, closes |->
                         \* <<size, trailer>> of closewrite]
          Needs          \* sizes read

VARIABLES role, limit,
          ch,      \* the channel
          st,      \* the stream of each id
          peer,    \* what the peer knows
          inq,     \* frames on their way from the peer
          waiting, \* openwaitq: the streamcount each waiting caller of openstream has read
          reserved,\* the same for the callers woken with a stream slot counted for them
          lost     \* slots counted in streamcount that no stream will give back

h2vars == <<role, limit, ch, st, peer, inq, waiting, reserved, lost>>

NONE == 0
HEADER == 1
DATA == 2
TRAILER == 3
CLOSE == 16
END == 17
RST == 18
Ids == {i \in 1..MaxStreamId + 4 : i % 2 = 1}
Wire(id) == id % (MaxStreamId + 3)       \* 31 bits of the id go on the wire
WireIds == {Wire(i) : i \in Ids}

Absent == [used |-> FALSE, chan |-> FALSE]

channel_newstream(active, initwin) ==
  [used |-> TRUE, chan |-> TRUE, active |-> active, closed |-> FALSE, loc |-> NONE, rem |-> NONE,
   header |-> active, readtype |-> NONE, readneed |-> 0, reading |-> FALSE,
   recvbuf |-> 0, debt |-> 0, recvbytes |-> 0, expect |-> -1,
   writing |-> FALSE, writelen |-> 0, writeend |-> FALSE, trailer |-> "no", sendwindow |-> initwin]

newchannel ==
  [conn |-> TRUE, idx |-> -1, last |-> -1, count |-> 0, max |-> limit.max, initwin |-> 1,
   sendwindow |-> 1, writewaitq |-> <<>>, closingq |-> <<>>, goaway |-> FALSE, dispatch |-> TRUE]

Init ==
  /\ role \in Roles /\ limit \in Limits
  /\ ch = newchannel
  /\ st = [i \in Ids |-> Absent]
  /\ peer = [cw |-> 1, iw |-> 1, sw |-> [i \in WireIds |-> 0], credit |-> [i \in WireIds |-> 0],
             out |-> [i \in WireIds |-> "none"], seen |-> [i \in WireIds |-> "none"],
             heads |-> <<>>, frames |-> 0, gone |-> FALSE]
  /\ inq = <<>> /\ waiting = <<>> /\ reserved = <<>> /\ lost = 0

(* Handlers are functions of the channel, its streams and the peer's view. *)
World == [ch |-> ch, st |-> st, peer |-> peer, waiting |-> waiting, reserved |-> reserved, lost |-> lost]
Become(w) ==
  /\ ch' = w.ch /\ st' = w.st /\ peer' = w.peer
  /\ waiting' = w.waiting /\ reserved' = w.reserved /\ lost' = w.lost

Live(w) == {i \in Ids : w.st[i].chan}
MinOf(a, b) == IF a < b THEN a ELSE b

-----------------------------------------------------------------------------
(* channel_checkclose: a channel going away is closed with its last stream. *)
channel_checkclose(w) ==
  [w EXCEPT !.ch.conn = @ /\ ~(w.ch.goaway /\ w.ch.count <= 0)]

(* channel_clearstream: every stream is ended and its reader and writer are woken. *)
channel_clearstream(w) ==
  LET ended(s) == [s EXCEPT !.closed = TRUE, !.chan = FALSE, !.loc = RST, !.rem = RST,
                            !.reading = FALSE, !.writing = FALSE]
  IN IF w.ch.count = 0 THEN channel_checkclose(w)
     ELSE channel_checkclose(
            [w EXCEPT !.ch.count = 0, !.reserved = <<>>, !.lost = 0,
                      !.st = [i \in Ids |-> IF w.st[i].chan THEN ended(w.st[i]) ELSE w.st[i]]])

(* channel_goaway with an error code. *)
channel_goaway(w) ==
  channel_clearstream([w EXCEPT !.ch.goaway = TRUE, !.peer.gone = TRUE])

(* channel_wakeupopen: a waiting openstream is woken for each free slot, which is counted now. *)
channel_wakeupopen(w) ==
  LET n == MinOf(Len(w.waiting), IF w.ch.max > w.ch.count THEN w.ch.max - w.ch.count ELSE 0)
  IN [w EXCEPT !.waiting = SubSeq(@, n + 1, Len(@)), !.reserved = @ \o SubSeq(w.waiting, 1, n),
               !.ch.count = @ + n]

(* stream_writeheader: a request stream overtaken by a later one takes the next id. *)
stream_writeheader(w, id, end) ==
  LET new == IF w.st[id].active /\ id # w.ch.idx THEN w.ch.idx + 2 ELSE id
      x == Wire(new)
      opened == [w.peer EXCEPT !.seen[x] = IF end THEN "end" ELSE "open",
                               !.heads = IF w.st[id].active THEN Append(@, x) ELSE @,
                               !.sw[x] = IF w.st[id].active THEN w.peer.iw ELSE @,
                               !.credit[x] = IF w.st[id].active THEN StreamWin ELSE @]
  IN [w EXCEPT !.ch.idx = IF w.st[id].active THEN new ELSE @,
               !.st = [i \in Ids |-> IF i = new THEN [w.st[id] EXCEPT !.loc = HEADER, !.header = FALSE]
                                     ELSE IF i = id THEN Absent ELSE w.st[i]],
               !.peer = opened]
NewId(w, id) == IF w.st[id].header /\ w.st[id].active /\ id # w.ch.idx THEN w.ch.idx + 2 ELSE id

stream_readwakeup(w, id) ==
  [w EXCEPT !.st[id].reading = FALSE,
            !.st[id].readtype = IF w.st[id].reading THEN NONE ELSE @,
            !.st[id].readneed = IF w.st[id].reading THEN 0 ELSE @]
stream_writewakeup(w, id, ok) ==
  [w EXCEPT !.st[id].writing = FALSE, !.st[id].writelen = 0,
            !.st[id].trailer = IF @ = "after" THEN (IF ok THEN "now" ELSE "no") ELSE @]

(* stream_flush: the pending header, and the credit for what was read. *)
stream_flush(w, id) ==
  LET w1 == IF w.st[id].chan /\ w.st[id].header THEN stream_writeheader(w, id, FALSE) ELSE w
      n == NewId(w, id)
  IN IF ~w.st[id].chan THEN w
     ELSE [w1 EXCEPT !.st[n].debt = 0, !.peer.credit[Wire(n)] = @ + w1.st[n].debt]

stream_readwait(w, id, type, need) ==
  LET n == NewId(w, id)
  IN [stream_flush(w, id) EXCEPT !.st[n].readtype = type, !.st[n].readneed = need, !.st[n].reading = TRUE]

(* build_body: n units leave both windows. *)
SendBody(w, id, n, end) ==
  [w EXCEPT !.st[id].sendwindow = @ - n, !.ch.sendwindow = @ - n,
            !.peer.cw = @ - n, !.peer.sw[Wire(id)] = @ - n,
            !.peer.seen[Wire(id)] = IF end THEN "end" ELSE @]


(* stream_writewait: what the windows allow is sent; build_body raises on a negative length. *)
stream_writewait(w, id, n, end) ==
  LET win == MinOf(w.st[id].sendwindow, w.ch.sendwindow)
      part == SendBody(w, id, win, FALSE)
  IN IF win >= n THEN SendBody(w, id, n, end)
     ELSE IF win < 0 THEN w
     ELSE [part EXCEPT !.st[id].writing = TRUE, !.st[id].writelen = n - win, !.st[id].writeend = end,
                       !.ch.writewaitq = IF part.ch.sendwindow <= 0 THEN Append(@, id) ELSE @]

stream_trysend(w, id) ==
  LET s == w.st[id]
      win == MinOf(s.writelen, MinOf(s.sendwindow, w.ch.sendwindow))
      left == s.writelen - win
      sent == [SendBody(w, id, win, left = 0 /\ s.writeend) EXCEPT !.st[id].writelen = left]
  IN CASE s.writelen = 0 \/ s.sendwindow <= 0 -> w
       [] s.writelen > 0 /\ s.sendwindow > 0 /\ w.ch.sendwindow <= 0 ->
            [w EXCEPT !.ch.writewaitq = Append(@, id)]
       [] OTHER -> IF left = 0 THEN stream_writewakeup(sent, id, TRUE)
                   ELSE IF sent.ch.sendwindow <= 0 THEN [sent EXCEPT !.ch.writewaitq = Append(@, id)]
                   ELSE sent

(* stream_remoteend: the end of the body, checked against its declared length, or a reset. *)
stream_remoteend(w, id, state) ==
  LET s == w.st[id]
      e == [w EXCEPT !.st[id].rem = state]
  IN IF state = RST THEN stream_writewakeup(stream_readwakeup(e, id), id, FALSE)
     ELSE IF s.expect >= 0 /\ s.recvbytes # s.expect THEN channel_goaway(e)
     ELSE IF s.readtype = CLOSE /\ s.reading
          THEN stream_readwakeup([e EXCEPT !.st[id].recvbuf = 0], id)
     ELSE stream_readwakeup(e, id)

stream_reset(w, id) ==
  LET r == [w EXCEPT !.peer.seen[Wire(id)] = "rst"]
  IN IF w.st[id].chan
     THEN stream_writewakeup(stream_readwakeup([r EXCEPT !.st[id].loc = RST], id), id, FALSE)
     ELSE r

-----------------------------------------------------------------------------
(* The tasks using the channel. *)

StreamUsers == Cardinality({i \in Ids : st[i].used /\ ~st[i].closed}) + Len(waiting) + Len(reserved)
Mine(id) == st[id].used /\ ~st[id].closed
Quiet == UNCHANGED <<role, limit, inq>>

(* C.openstream *)
Opened(w, add) ==
  LET id == w.ch.idx + 2
  IN [w EXCEPT !.ch.idx = id, !.ch.count = @ + add, !.st[id] = channel_newstream(TRUE, w.ch.initwin)]

openstream ==
  /\ role = "client" /\ StreamUsers < MaxUsers /\ ch.idx + 2 * (Len(waiting) + Len(reserved)) < limit.open
  /\ \/ ch.count >= ch.max /\ Become([World EXCEPT !.waiting = Append(@, ch.count)])
     \/ ch.count < ch.max /\ ~ch.goaway /\ ch.idx + ch.count < MaxStreamId /\ Become(Opened(World, 1))
  /\ Quiet

(* ... resumed with a slot, and with the streamcount read before it waited: a channel that went
   away meanwhile keeps the slot counted. *)
OpenReturns ==
  /\ reserved # <<>>
  /\ LET w == [World EXCEPT !.reserved = Tail(@)]
     IN Become(IF ch.goaway \/ ch.idx + reserved[1] >= MaxStreamId THEN [w EXCEPT !.lost = @ + 1] ELSE Opened(w, 0))
  /\ Quiet

(* S.respond; client.request calls S.request as soon as it has the stream. *)
respond(id) ==
  /\ Mine(id) /\ ~st[id].active /\ st[id].chan /\ ~st[id].header /\ st[id].loc = NONE
  /\ Become([World EXCEPT !.st[id].header = TRUE])
  /\ Quiet

Prepared(id) == st[id].header \/ st[id].loc # NONE

(* S.write *)
write(id, n) ==
  LET w == IF st[id].header THEN stream_writeheader(World, id, FALSE) ELSE World
      i == NewId(World, id)
  IN /\ Mine(id) /\ st[id].chan /\ Prepared(id) /\ ~st[id].writing /\ st[id].loc < CLOSE
     /\ Become(stream_writewait([w EXCEPT !.st[i].loc = DATA], i, n, FALSE))
     /\ Quiet

(* S.closewrite, with n units (-1: none) and a trailer or not. *)
closewrite(id, n, trailer) ==
  LET nopayload == n < 0 /\ ~trailer
      w == IF st[id].header THEN stream_writeheader(World, id, nopayload) ELSE World
      i == NewId(World, id)
      e == [w EXCEPT !.st[i].loc = END]
      size == IF nopayload THEN 0 ELSE n
      body == IF size < 0 THEN e ELSE stream_writewait(e, i, size, ~trailer)
      done == ~body.st[i].writing
  IN /\ Mine(id) /\ st[id].chan /\ Prepared(id) /\ ~st[id].writing /\ st[id].loc < CLOSE
     /\ Become(IF st[id].header /\ nopayload THEN e
               ELSE IF ~trailer THEN body
               ELSE IF done THEN [body EXCEPT !.peer.seen[Wire(i)] = "end"]
               ELSE [body EXCEPT !.st[i].trailer = "after"])
     /\ Quiet

(* ... the writer of a body with a trailer runs again. *)
TrailerFollows(id) ==
  /\ st[id].used /\ st[id].trailer = "now"
  /\ Become([World EXCEPT !.st[id].trailer = "no",
                          !.peer.seen[Wire(id)] = IF @ = "rst" THEN @ ELSE "end"])
  /\ Quiet

(* S.waitresponse, S.read and S.readall: the answer is here, or the task waits. *)
waitresponse(id) ==
  /\ Mine(id) /\ ~st[id].reading /\ st[id].active /\ Prepared(id) /\ st[id].rem < HEADER
  /\ Become(stream_readwait(World, id, HEADER, 0))
  /\ Quiet

read(id, n) ==
  LET s == st[id]
  IN /\ Mine(id) /\ ~s.reading /\ Prepared(id)
     /\ \/ /\ s.recvbuf >= n
           /\ Become(stream_flush([World EXCEPT !.st[id].recvbuf = @ - n], id))
        \/ /\ s.recvbuf < n /\ s.loc # RST /\ s.rem < CLOSE
           /\ Become(stream_readwait(World, id, DATA, n))
     /\ Quiet

readall(id) ==
  LET s == st[id]
  IN /\ Mine(id) /\ ~s.reading /\ Prepared(id)
     /\ \/ /\ s.rem >= CLOSE /\ s.recvbuf > 0
           /\ Become([World EXCEPT !.st[id].recvbuf = 0])
        \/ /\ s.rem < CLOSE
           /\ Become(stream_readwait(World, id, CLOSE, 0))
     /\ Quiet

read_timer(id) ==
  /\ Mine(id) /\ st[id].reading
  /\ Become(stream_readwakeup(World, id))
  /\ Quiet

(* S.close: a stream not ended on both sides is reset and kept for late frames. *)
closed(w0, id) ==
  LET s == w0.st[id]
      w == [w0 EXCEPT !.peer.sw[Wire(id)] = 0, !.peer.credit[Wire(id)] = 0]
      r == [stream_reset(w, id) EXCEPT !.st[id].closed = TRUE]
      q == Append(w.ch.closingq, id)
      drop == Len(q) > ClosedMax
      over == [used |-> TRUE, chan |-> FALSE, closed |-> TRUE, trailer |-> "no"]
      quiet == over @@ [reading |-> FALSE, writing |-> FALSE, writelen |-> 0]
  IN IF s.loc >= CLOSE /\ s.rem >= CLOSE THEN [w EXCEPT !.st[id] = over @@ [reading |-> s.reading, writing |-> s.writing, writelen |-> s.writelen]]
     ELSE IF ~s.active \/ s.loc >= HEADER
          THEN [r EXCEPT !.ch.closingq = IF drop THEN Tail(q) ELSE q,
                         !.st = [i \in Ids |-> IF drop /\ i = q[1] THEN quiet ELSE r.st[i]]]
     ELSE [w EXCEPT !.st[id] = quiet]
close(id) ==
  LET w == [closed(World, id) EXCEPT !.ch.count = @ - 1]
      c == channel_checkclose(w)
  IN /\ Mine(id) /\ st[id].chan /\ ~(st[id].writing /\ st[id].loc >= CLOSE /\ st[id].rem >= CLOSE)
     /\ Become(IF w.ch.goaway /\ w.ch.count <= 0 THEN c ELSE channel_wakeupopen(c))
     /\ Quiet

(* C.close: no new stream; the waiting callers are refused. *)
CloseChannel ==
  /\ role = "client" /\ ~ch.goaway
  /\ Become(channel_checkclose([World EXCEPT !.ch.goaway = TRUE, !.ch.idx = MaxStreamId, !.waiting = <<>>]))
  /\ Quiet

-----------------------------------------------------------------------------
(* common_dispatch: the frames of the peer. *)

RECURSIVE Drain(_)
Drain(w) ==
  IF w.ch.sendwindow <= 0 \/ w.ch.writewaitq = <<>> THEN w
  ELSE Drain(stream_trysend([w EXCEPT !.ch.writewaitq = Tail(@)], w.ch.writewaitq[1]))

channel_winupdate(w, n) ==
  IF w.ch.sendwindow + n > MaxWindow THEN channel_goaway(w)
  ELSE Drain([w EXCEPT !.ch.sendwindow = @ + n])

stream_winupdate(w, id, n) ==
  IF w.st[id].sendwindow + n > MaxWindow THEN stream_reset(w, id)
  ELSE LET u == [w EXCEPT !.st[id].sendwindow = @ + n] IN IF n > 0 THEN stream_trysend(u, id) ELSE u

frame_data(w, id, n, end) ==
  LET s == w.st[id]
      total == s.recvbuf + n
      waits == s.reading /\ ((s.readtype = DATA /\ total < s.readneed) \/ s.readtype = CLOSE)
      fed == s.reading /\ s.readtype = DATA /\ total >= s.readneed
      d == IF s.loc = RST \/ n = 0 THEN [w EXCEPT !.st[id].rem = DATA]
           ELSE [w EXCEPT !.st[id].rem = DATA, !.st[id].recvbytes = IF s.expect < 0 THEN 0 ELSE @ + n,
                          !.st[id].recvbuf = IF fed THEN total - s.readneed ELSE total,
                          !.st[id].debt = IF waits THEN @ ELSE @ + n,
                          !.peer.credit[Wire(id)] = IF waits THEN @ + n ELSE @]
      r == IF s.loc # RST /\ n > 0 /\ fed THEN stream_readwakeup(d, id) ELSE d
  IN IF ~s.chan \/ s.rem >= CLOSE THEN channel_goaway(w)
     ELSE IF end THEN stream_remoteend(r, id, END) ELSE r

(* frame_settings: SETTINGS_INITIAL_WINDOW_SIZE moves every stream window by the difference. *)
frame_initwin(w, v) ==
  LET delta == v - w.ch.initwin
      move(id, x) == stream_winupdate(x, id, delta)
  IN IF delta = 0 THEN w ELSE FoldSet(move, [w EXCEPT !.ch.initwin = v], Live(w))

frame_max(w, v) == channel_wakeupopen([w EXCEPT !.ch.max = v])

frame_rst(w, id) == IF w.st[id].chan THEN stream_remoteend(w, id, RST) ELSE channel_goaway(w)

frame_winupdate(w, id, n) ==
  IF id = 0 THEN channel_winupdate(w, n)
  ELSE IF w.st[id].chan THEN stream_winupdate(w, id, n)
  ELSE IF id > w.ch.last THEN channel_goaway(w) ELSE w

(* frame_header_client; n is the content-length, -1 for none, -2 for a malformed header. *)
frame_header_client(w, id, n, end) ==
  LET s == w.st[id]
      first == s.rem = NONE
      h == [w EXCEPT !.st[id].rem = IF first THEN HEADER ELSE TRAILER,
                     !.st[id].expect = IF first THEN n ELSE @]
      r == IF first /\ s.reading /\ s.readtype = HEADER THEN stream_readwakeup(h, id) ELSE h
  IN IF ~s.chan \/ s.rem >= CLOSE \/ n = -2 THEN channel_goaway(w)
     ELSE IF end THEN stream_remoteend(r, id, END) ELSE r

(* frame_header_server, which forks server_handler; a content-length that is no number (-3)
   is refused after the stream was counted. *)
frame_header_server(w, id, n, end) ==
  LET s == w.st[id]
      new == [channel_newstream(FALSE, w.ch.initwin) EXCEPT !.expect = n, !.rem = IF end THEN END ELSE HEADER]
      counted == [w EXCEPT !.ch.last = id, !.ch.count = @ + 1]
      short == end /\ n > 0
  IN IF ~s.chan
     THEN IF w.ch.goaway \/ n = -2 THEN stream_reset(w, id)
          ELSE IF id <= w.ch.last THEN channel_goaway(w)
          ELSE IF w.ch.count >= w.ch.max THEN stream_reset(w, id)
          ELSE IF n = -3 THEN [stream_reset(counted, id) EXCEPT !.lost = @ + 1]
          ELSE [(IF short THEN channel_goaway(counted) ELSE counted) EXCEPT !.st[id] = new]
     ELSE IF s.rem >= CLOSE THEN channel_goaway(w)
     ELSE IF ~end \/ n = -2 THEN stream_reset(w, id)
     ELSE stream_remoteend(w, id, END)

(* server_handler: the handler returns, and the stream is ended and closed; if closewrite raises
   (a window is negative), nobody closes the stream. *)
HandlerReturns(id) ==
  /\ Mine(id) /\ ~st[id].active /\ ~st[id].reading /\ ~st[id].writing /\ st[id].chan
  /\ LET raises == st[id].loc < CLOSE /\ ~st[id].header /\ MinOf(st[id].sendwindow, ch.sendwindow) < 0
         dead == [World EXCEPT !.st[id].loc = END, !.st[id].closed = TRUE, !.lost = @ + 1]
         w == IF st[id].loc >= CLOSE THEN World
              ELSE IF st[id].header THEN [stream_writeheader(World, id, TRUE) EXCEPT !.st[id].loc = END]
              ELSE stream_writewait([World EXCEPT !.st[id].loc = END], id, 0, TRUE)
         c == [closed(w, id) EXCEPT !.ch.count = @ - 1]
     IN Become(IF raises THEN dead ELSE channel_checkclose(c))
  /\ Quiet

Dispatch ==
  LET f == inq[1]
      w == CASE f.t = "headers" -> IF role = "client" THEN frame_header_client(World, f.id, f.n, f.end)
                                   ELSE frame_header_server(World, f.id, f.n, f.end)
             [] f.t = "data" -> frame_data(World, f.id, f.n, f.end)
             [] f.t = "rst" -> frame_rst(World, f.id)
             [] f.t = "win" -> frame_winupdate(World, f.id, f.n)
             [] f.t = "initwin" -> frame_initwin(World, f.n)
             [] f.t = "max" -> frame_max(World, f.n)
             [] f.t = "goaway" -> [World EXCEPT !.ch.goaway = TRUE]
             [] f.t = "eof" -> channel_clearstream([World EXCEPT !.ch.goaway = TRUE, !.ch.dispatch = FALSE])
  IN /\ ch.dispatch /\ ch.conn /\ inq # <<>>
     /\ Become(w) /\ inq' = Tail(inq) /\ UNCHANGED <<role, limit>>

(* The channel closed its connection: the dispatch loop reads an error and ends. *)
DispatchEnds ==
  /\ ch.dispatch /\ ~ch.conn
  /\ Become(channel_clearstream([World EXCEPT !.ch.goaway = TRUE, !.ch.dispatch = FALSE]))
  /\ inq' = <<>> /\ UNCHANGED <<role, limit>>

-----------------------------------------------------------------------------
(* The peer. *)

Frame(t, id, n, end) == [t |-> t, id |-> id, n |-> n, end |-> end]
PeerSends(f, p) ==
  /\ ch.conn /\ ch.dispatch /\ ~peer.gone /\ peer.frames < limit.frames
  /\ peer' = [p EXCEPT !.frames = @ + 1, !.gone = f.t = "eof"]
  /\ inq' = Append(inq, f)
  /\ UNCHANGED <<role, limit, ch, st, waiting, reserved, lost>>

PeerOpens(id, n, end) ==
  /\ role = "server" /\ id <= limit.open /\ peer.out[id] = "none"
  /\ \A j \in WireIds : j < id => peer.out[j] # "none"
  /\ PeerSends(Frame("headers", id, n, end),
               [peer EXCEPT !.out[id] = IF end THEN "end" ELSE "open", !.sw[id] = peer.iw,
                            !.credit[id] = StreamWin, !.seen[id] = "open"])

Reached(id) == peer.seen[id] \in {"open", "end"}
PeerAnswers(id, n, end) ==
  /\ role = "client" /\ Reached(id) /\ peer.out[id] = "none"
  /\ PeerSends(Frame("headers", id, n, end), [peer EXCEPT !.out[id] = IF end THEN "end" ELSE "open"])

PeerData(id, end) ==
  /\ Reached(id) /\ peer.out[id] = "open" /\ peer.credit[id] > 0
  /\ PeerSends(Frame("data", id, 1, end),
               [peer EXCEPT !.credit[id] = @ - 1, !.out[id] = IF end THEN "end" ELSE @])

PeerTrailer(id) ==
  /\ Reached(id) /\ peer.out[id] = "open"
  /\ PeerSends(Frame("headers", id, -1, TRUE), [peer EXCEPT !.out[id] = "end"])

PeerResets(id) ==
  /\ Reached(id) /\ peer.out[id] = "open"
  /\ PeerSends(Frame("rst", id, 0, TRUE), [peer EXCEPT !.out[id] = "end"])

PeerWindow(id) ==
  \/ id = 0 /\ peer.cw < 2 /\ PeerSends(Frame("win", 0, 1, FALSE), [peer EXCEPT !.cw = @ + 1])
  \/ id # 0 /\ Reached(id) /\ peer.sw[id] < 2
       /\ PeerSends(Frame("win", id, 1, FALSE), [peer EXCEPT !.sw[id] = @ + 1])

PeerSettings ==
  \/ \E v \in PeerWins \ {peer.iw} :
       PeerSends(Frame("initwin", 0, v, FALSE),
                 [peer EXCEPT !.iw = v, !.sw = [i \in WireIds |-> IF peer.seen[i] = "none" THEN @[i]
                                                                  ELSE @[i] + v - peer.iw]])
  \/ PeerSends(Frame("max", 0, limit.max + 1, FALSE), peer)

PeerEnds == \E t \in {"goaway", "eof"} : PeerSends(Frame(t, 0, 0, FALSE), peer)

Next ==
  \/ openstream \/ OpenReturns \/ CloseChannel \/ Dispatch \/ DispatchEnds
  \/ \E id \in Ids :
       \/ respond(id) \/ TrailerFollows(id) \/ waitresponse(id) \/ readall(id) \/ read_timer(id)
       \/ close(id) \/ HandlerReturns(id)
       \/ \E n \in limit.writes : write(id, n)
       \/ \E c \in limit.closes : closewrite(id, c[1], c[2])
       \/ \E n \in Needs : read(id, n)
  \/ \E id \in WireIds :
       \/ \E n \in limit.lengths, end \in BOOLEAN : PeerOpens(id, n, end)
       \/ \E n \in limit.lengths \ {-3}, end \in BOOLEAN : PeerAnswers(id, n, end)
       \/ \E end \in BOOLEAN : PeerData(id, end)
       \/ PeerTrailer(id) \/ PeerResets(id)
  \/ \E id \in WireIds \cup {0} : PeerWindow(id)
  \/ PeerSettings \/ PeerEnds
Spec == Init /\ [][Next]_h2vars

-----------------------------------------------------------------------------
(* After C.close a request stream not yet sent takes the last id, a second one the first again. *)
IdsLeft == ch.idx <= MaxStreamId + 2
Granted(id) == LET f == SelectSeq(inq, LAMBDA x : x.t = "win" /\ x.id = id) IN Len(f)

(* The channel and the peer agree on every send window, counting the WINDOW_UPDATE and SETTINGS
   frames still on their way: no unit is sent twice against a window and none is forgotten. *)
WindowsAgree ==
  ch.conn /\ ~peer.gone /\ IdsLeft =>
    /\ ch.sendwindow >= 0 /\ peer.cw = ch.sendwindow + Granted(0)
    /\ \A id \in Ids : Mine(id) /\ st[id].chan /\ peer.seen[Wire(id)] # "none" =>
         peer.sw[Wire(id)] = st[id].sendwindow + Granted(Wire(id)) + peer.iw - ch.initwin

(* A writer waits only for a window that is used up: if its stream could send, it is queued for
   the channel's window, and that window is empty. *)
WritersQueued ==
  \A id \in Ids : st[id].chan /\ st[id].writing /\ st[id].sendwindow > 0 =>
    /\ ch.sendwindow <= 0
    /\ \E i \in 1..Len(ch.writewaitq) : ch.writewaitq[i] = id

(* A task that waits for body data has left the peer all the credit of its stream, so the data it
   waits for can be sent. *)
ReadersFed ==
  \A id \in Ids : st[id].chan /\ st[id].reading /\ st[id].readtype \in {DATA, CLOSE} =>
    /\ st[id].debt = 0
    /\ peer.credit[Wire(id)] + Len(SelectSeq(inq, LAMBDA x : x.t = "data" /\ x.id = Wire(id))) >= StreamWin

(* streamcount counts the streams in use, the slots kept for woken openers, and the ones lost. *)
CountExact ==
  ch.conn => ch.count = Cardinality({id \in Ids : Mine(id) /\ st[id].chan}) + Len(reserved) + lost

(* No reader or writer waits on a stream the channel no longer serves. *)
NobodyStranded ==
  \A id \in Ids : st[id].used /\ (st[id].reading \/ st[id].writing) => st[id].chan

(* Request ids go up on the wire, unless C.close gave the last one away. *)
IdsIncrease ==
  \A i, j \in 1..Len(peer.heads) : i < j /\ IdsLeft => peer.heads[i] < peer.heads[j]

Http2Windows == WindowsAgree /\ WritersQueued /\ ReadersFed
Http2Streams == CountExact /\ NobodyStranded /\ IdsIncrease
=============================================================================
