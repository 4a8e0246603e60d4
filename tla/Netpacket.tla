----------------------------- MODULE Netpacket -----------------------------
(***************************************************************************)
(* lcluster.c: the chunks that arrive on the sockets of a cluster node are *)
(* cut into packets.  What is left of a packet waits in a table by socket, *)
(* whole packets wait in a ring that grows when it fills.  A byte of a     *)
(* packet of socket fd that is the n-th one sent there is <<fd, n, ack>>;  *)
(* a header is its size followed by HEADER_SIZE - 1 zeros.                 *)
(***************************************************************************)
EXTENDS Integers, Sequences, SequencesExt
CONSTANTS Fds, HEADER_SIZE, QUEUE_SIZE, HardLimit, MaxPackets,
          MinSize, MinRequest, \* sizeof(struct response_header) and of struct request_header
          Sizes                \* <<size, is it a response>> of the packets sent

VARIABLES wire,       \* bytes in flight to each socket
          incomplete, \* struct incomplete, by socket
          ring, cap, rhead, rtail,   \* struct netpacket
          sentpk, waitpk, dead  \* packets sent so far; whole packets not popped; closed sockets

netvars == <<wire, incomplete, ring, cap, rhead, rtail, sentpk, waitpk, dead>>

None == [hdr |-> <<>>, body |-> <<>>]
Init == /\ wire = [f \in Fds |-> <<>>] /\ incomplete = [f \in Fds |-> None]
        /\ ring = [i \in 0..QUEUE_SIZE-1 |-> <<>>] /\ cap = QUEUE_SIZE /\ rhead = 0 /\ rtail = 0
        /\ sentpk = [f \in Fds |-> 0] /\ waitpk = <<>> /\ dead = {}

Body(f, n, pk) == [i \in 1..pk[1] |-> <<f, n, pk[2]>>]

(* lrequest and lresponse at the other end: a header, then the packet. *)
Send(f, pk) ==
  /\ sentpk[f] < MaxPackets /\ f \notin dead
  /\ sentpk' = [sentpk EXCEPT ![f] = @ + 1]
  /\ wire' = [wire EXCEPT ![f] = @ \o <<pk[1]>> \o [i \in 1..HEADER_SIZE-1 |-> 0] \o Body(f, sentpk[f] + 1, pk)]
  /\ UNCHANGED <<incomplete, ring, cap, rhead, rtail, waitpk, dead>>

(* expand_queue: the packets move to the front of a larger ring. *)
expand_queue(r) ==
  [cap |-> r.cap + QUEUE_SIZE, tail |-> 0, head |-> r.cap,
   ring |-> [i \in 0..r.cap+QUEUE_SIZE-1 |-> IF i < r.cap THEN r.ring[(r.tail + i) % r.cap] ELSE <<>>]]

push_complete(r, packet) ==
  LET p == [r EXCEPT !.ring = [@ EXCEPT ![r.head] = packet], !.head = (@ + 1) % r.cap]
  IN IF p.head = p.tail THEN expand_queue(p) ELSE p

validate_psize(size) == MinSize <= size /\ size <= HardLimit
validate_payload(packet) == packet[1][3] \/ Len(packet) >= MinRequest

(* push_once: as much of the chunk as one packet can take. *)
push_once(s) ==
  LET n1 == HEADER_SIZE - Len(s.ic.hdr)
      h == IF n1 < Len(s.chunk) THEN n1 ELSE Len(s.chunk)
      hdr == s.ic.hdr \o SubSeq(s.chunk, 1, h)
      rest == SubSeq(s.chunk, h + 1, Len(s.chunk))
      n2 == hdr[1] - Len(s.ic.body)
      b == IF n2 < Len(rest) THEN n2 ELSE Len(rest)
      body == s.ic.body \o SubSeq(rest, 1, b)
      left == SubSeq(rest, b + 1, Len(rest))
  IN IF Len(hdr) < HEADER_SIZE THEN [s EXCEPT !.ic.hdr = hdr, !.chunk = <<>>]
     ELSE IF ~validate_psize(hdr[1]) THEN [s EXCEPT !.ic = None, !.ok = FALSE]
     ELSE IF Len(body) < hdr[1] THEN [s EXCEPT !.ic = [hdr |-> hdr, body |-> body], !.chunk = <<>>]
     ELSE IF ~validate_payload(body) THEN [s EXCEPT !.ic = None, !.ok = FALSE]
     ELSE [s EXCEPT !.ic = None, !.chunk = left, !.r = push_complete(@, body),
                    !.done = Append(@, body)]

(* push: until the chunk is used up or a size is refused. *)
push(f, chunk) ==
  LET start == [ic |-> incomplete[f], chunk |-> chunk, ok |-> TRUE, done |-> <<>>,
                r |-> [ring |-> ring, cap |-> cap, head |-> rhead, tail |-> rtail]]
      go[i \in 0..Len(chunk)] ==
        IF i = 0 THEN start
        ELSE LET s == go[i-1] IN IF s.ok /\ s.chunk # <<>> THEN push_once(s) ELSE s
  IN go[Len(chunk)]

(* EVENT.data: a chunk of n bytes; after an error the socket is closed and its table entry cleared. *)
Push(f, n) ==
  LET p == push(f, SubSeq(wire[f], 1, n))
  IN /\ f \notin dead /\ n <= Len(wire[f])
     /\ wire' = [wire EXCEPT ![f] = IF p.ok THEN SubSeq(@, n + 1, Len(@)) ELSE <<>>]
     /\ incomplete' = [incomplete EXCEPT ![f] = p.ic]
     /\ ring' = p.r.ring /\ cap' = p.r.cap /\ rhead' = p.r.head /\ rtail' = p.r.tail
     /\ waitpk' = waitpk \o p.done
     /\ dead' = IF p.ok THEN dead ELSE dead \cup {f}
     /\ UNCHANGED sentpk

(* lpop *)
Pop ==
  /\ rtail # rhead
  /\ rtail' = (rtail + 1) % cap /\ ring' = [ring EXCEPT ![rtail] = <<>>]
  /\ waitpk' = Tail(waitpk)
  /\ UNCHANGED <<wire, incomplete, cap, rhead, sentpk, dead>>

(* lclear, from EVENT.close: the rest of the socket's packet is dropped. *)
Clear(f) ==
  /\ f \notin dead
  /\ incomplete' = [incomplete EXCEPT ![f] = None] /\ wire' = [wire EXCEPT ![f] = <<>>]
  /\ dead' = dead \cup {f}
  /\ UNCHANGED <<ring, cap, rhead, rtail, sentpk, waitpk>>

Next == \/ \E f \in Fds : \/ \E pk \in Sizes : Send(f, pk)
                          \/ \E n \in 1..Len(wire[f]) : Push(f, n)
                          \/ Clear(f)
        \/ Pop
Spec == Init /\ [][Next]_netvars
-----------------------------------------------------------------------------
InRing == [i \in 1..((rhead + cap - rtail) % cap) |-> ring[(rtail + i - 1) % cap]]

(* The ring holds the whole packets that were not popped, in the order in which they were
   completed, each with all its bytes and none of another packet or socket, however the stream was
   cut into chunks and however often the ring grew. *)
PacketsExact ==
  /\ InRing = waitpk
  /\ \A i \in 1..Len(waitpk) : LET p == waitpk[i] IN
       /\ Len(p) \in MinSize..HardLimit /\ \A j \in 1..Len(p) : p[j] = p[1]
       /\ \A k \in 1..i-1 : waitpk[k][1][1] = p[1][1] => waitpk[k][1][2] < p[1][2]

(* A socket that was refused or closed leaves no half packet behind. *)
NothingLeft == \A f \in dead : incomplete[f] = None

NetpacketExact == PacketsExact /\ NothingLeft
=============================================================================
