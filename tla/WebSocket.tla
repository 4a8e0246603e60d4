----------------------------- MODULE WebSocket ------------------------------
(***************************************************************************)
(* silly.net.websocket (websocket.lua): the upgrade, and the messages one  *)
(* side writes and the other reads.  Long messages go out in fragments of  *)
(* 2^16 bytes; the peer may put control frames between the fragments of a  *)
(* message, as other implementations do.  A payload is the piece of a      *)
(* message it carries: [m, from, len].  The connection may fail at any     *)
(* point of a frame.                                                       *)
(***************************************************************************)
EXTENDS Integers, Sequences, SequencesExt

CONSTANTS Sizes,     \* the sizes of the messages written
          MaxMsgs, MaxControls  \* bounds

VARIABLES client,    \* the writer is the client
          up,        \* the upgrade: "request", "answer", "open", "refused" or "closed"
          wire,      \* the frames written and not read
          alive,     \* the reader's connection delivers
          written, controls,     \* history: sizes of the messages; control frames
          stashbuf, stashtype,   \* the reader's fragments
          returned,  \* history: what read() returned
          failed     \* read() returned an error
vars == <<client, up, wire, alive, written, controls, stashbuf, stashtype, returned, failed>>

None == "none"
Init ==
  /\ client \in BOOLEAN /\ up = "request" /\ wire = <<>> /\ alive = TRUE
  /\ written = <<>> /\ controls = 0
  /\ stashbuf = <<>> /\ stashtype = None /\ returned = <<>> /\ failed = FALSE

\* newsocket(): the client masks what it writes.
wmask == IF client THEN 1 ELSE 0
rmask == IF client THEN 1 ELSE 0

\* handshake() of the server, and the rest of connect(), which takes only a 101.
Upgrade(accepted) ==
  /\ up = "request" /\ up' = IF accepted THEN "answer" ELSE "refused"
  /\ UNCHANGED <<client, wire, alive, written, controls, stashbuf, stashtype, returned, failed>>
Connected ==
  /\ up = "answer" /\ up' = "open"
  /\ UNCHANGED <<client, wire, alive, written, controls, stashbuf, stashtype, returned, failed>>

\* write_frame(): the length in the header, or in 16 or 64 bits after it
Header(len) == IF len < 125 THEN [l |-> len, ext |-> 0]
               ELSE IF len < 65535 THEN [l |-> 126, ext |-> len % 2 ^ 16]
               ELSE [l |-> 127, ext |-> len]
Frame(fin, op, dat) == [fin |-> fin, op |-> op, mask |-> wmask, hdr |-> Header(dat.len), dat |-> dat]

\* The loop of write(): fragments of 2^16 bytes, the last one marked
Fragments(m, op, len) ==
  [k \in 1 .. ((len + 2 ^ 16 - 1) \div 2 ^ 16) |->
     Frame(IF k * 2 ^ 16 >= len THEN 1 ELSE 0, IF k = 1 THEN op ELSE "continuation",
           [m |-> m, from |-> (k - 1) * 2 ^ 16,
            len |-> IF k * 2 ^ 16 >= len THEN len - (k - 1) * 2 ^ 16 ELSE 2 ^ 16])]

\* write() of a message
Write(op, len) ==
  /\ up = "open" /\ Len(written) < MaxMsgs
  /\ written' = Append(written, len)
  /\ wire' = wire \o IF len >= 2 ^ 16 THEN Fragments(Len(written'), op, len)
                     ELSE <<Frame(1, op, [m |-> Len(written'), from |-> 0, len |-> len])>>
  /\ UNCHANGED <<client, up, alive, controls, stashbuf, stashtype, returned, failed>>

\* A control frame, of at most 125 bytes; one of the peer's may be anywhere.
Control(op, i) ==
  /\ up = "open" /\ controls < MaxControls
  /\ controls' = controls + 1
  /\ wire' = InsertAt(wire, i, Frame(1, op, [m |-> 0, from |-> controls', len |-> 0]))
  /\ UNCHANGED <<client, up, alive, written, stashbuf, stashtype, returned, failed>>

\* close(): a close frame, and then the connection
Close ==
  /\ up = "open" /\ up' = "closed"
  /\ wire' = Append(wire, Frame(1, "close", [m |-> 0, from |-> 0, len |-> 0]))
  /\ UNCHANGED <<client, alive, written, controls, stashbuf, stashtype, returned, failed>>

\* read_frame(): the length as the header gives it
Length(hdr) == IF hdr.l >= 126 THEN hdr.ext ELSE hdr.l
Reads == up # "request" /\ wire # <<>> /\ alive /\ ~failed
         /\ Head(wire).mask = rmask /\ wire' = Tail(wire)
Piece(f) == [f.dat EXCEPT !.len = Length(f.hdr)]
Returned(op, pieces) == returned' = Append(returned, [op |-> op, dat |-> pieces])

\* read(): the first frame of a message, which ends it or is stashed
ReadFirst ==
  /\ stashbuf = <<>> /\ Reads
  /\ LET f == Head(wire) IN
     IF f.fin = 1 THEN Returned(f.op, <<Piece(f)>>) /\ UNCHANGED <<stashbuf, stashtype>>
     ELSE stashbuf' = <<Piece(f)>> /\ stashtype' = f.op /\ UNCHANGED returned
  /\ UNCHANGED <<client, up, alive, written, controls, failed>>
\* The loop of read(): a frame that is no continuation is returned by itself and the
\* stash is kept for the next call.
ReadMore ==
  /\ stashbuf # <<>> /\ Reads
  /\ LET f == Head(wire) IN
     IF f.op # "continuation"
     THEN Returned(f.op, <<Piece(f)>>) /\ UNCHANGED <<stashbuf, stashtype>>
     ELSE IF f.fin = 0
     THEN stashbuf' = Append(stashbuf, Piece(f)) /\ UNCHANGED <<stashtype, returned>>
     ELSE /\ Returned(stashtype, Append(stashbuf, Piece(f)))
          /\ stashbuf' = <<>> /\ stashtype' = None
  /\ UNCHANGED <<client, up, alive, written, controls, failed>>
\* The connection fails, also inside a frame, and the next read() says so.
Break == alive /\ alive' = FALSE
         /\ UNCHANGED <<client, up, wire, written, controls, stashbuf, stashtype, returned, failed>>
ReadFails == /\ up # "request" /\ ~alive /\ ~failed /\ failed' = TRUE
             /\ UNCHANGED <<client, up, wire, alive, written, controls, stashbuf, stashtype, returned>>

Next ==
  \/ Upgrade(TRUE) \/ Upgrade(FALSE) \/ Connected \/ Close
  \/ \E op \in {"text", "binary"}, len \in Sizes : Write(op, len)
  \/ \E op \in {"ping", "pong"} : \E i \in 1 .. (Len(wire) + 1) : Control(op, i)
  \/ ReadFirst \/ ReadMore \/ Break \/ ReadFails
Spec == Init /\ [][Next]_vars

-----------------------------------------------------------------------------
\* The messages returned are those written, whole and in order: the fragments of one
\* are contiguous and cover it, whatever control frames came between them (read of
\* websocket.lua keeps the stash across calls), and no length is garbled.
Messages == SelectSeq(returned, LAMBDA r : r.op \in {"text", "binary"})
Covers(pieces, m) ==
  /\ \A k \in DOMAIN pieces :
       /\ pieces[k].m = m
       /\ pieces[k].from = IF k = 1 THEN 0 ELSE pieces[k - 1].from + pieces[k - 1].len
  /\ Last(pieces).from + Last(pieces).len = written[m]
=============================================================================
