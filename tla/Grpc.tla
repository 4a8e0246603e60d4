-------------------------------- MODULE Grpc --------------------------------
(***************************************************************************)
(* Unary calls of gRPC: the client connection (conn.lua) with a channel    *)
(* per endpoint, made on demand under a lock; the call (service.lua) with  *)
(* its deadline; and what the server's handler makes of it (registrar.lua, *)
(* server.lua, helper.lua).  Channels are those of h2.lua: a stream is     *)
(* answered, reset, or ended with its channel.                             *)
(***************************************************************************)
EXTENDS Integers, Sequences, FiniteSets
CONSTANTS Endpoints,      \* 1..n
          CallSlots,      \* tasks that call, one call each
          MaxChannels

VARIABLES gclosed, robin,
          endpoint,       \* e -> its channel, 0 for none
          channels,       \* every channel made: [e, conn, goaway, shut]
          connlock,       \* e -> the tasks in newchannel, the holder first
          call,           \* [pc, e, ch, timer, armed, reply, result]
          waiting_stream, \* the calls whose deadline is registered
          fired           \* those whose deadline fired in time

grpcvars == <<gclosed, robin, endpoint, channels, connlock, call, waiting_stream, fired>>

NoReply == [body |-> "none", status |-> "none"]
Init == /\ gclosed = FALSE /\ robin = 1
        /\ endpoint = [e \in Endpoints |-> 0] /\ channels = <<>>
        /\ connlock = [e \in Endpoints |-> <<>>]
        /\ call = [c \in CallSlots |-> [pc |-> "idle", e |-> 1, ch |-> 0, armed |-> FALSE,
                                        reply |-> NoReply, result |-> "none"]]
        /\ waiting_stream = {} /\ fired = {}

(* C.isalive of h2.lua: it does not ask for goaway. *)
isalive(ch) == ch # 0 /\ channels[ch].conn /\ ~channels[ch].shut

Streams(i) == {c \in CallSlots : call[c].pc \in {"sent", "woken"} /\ call[c].ch = i}

(* C.close of h2.lua: streams under way end as they will, the last one closes the connection. *)
ChannelClosed(ch, i) ==
  IF ch.goaway THEN ch ELSE [ch EXCEPT !.goaway = TRUE, !.shut = TRUE, !.conn = @ /\ Streams(i) # {}]

Ended(c, result) == call' = [call EXCEPT ![c].pc = "done", ![c].result = result]

(* C.openstream of h2.lua, the request and its body, and the deadline. *)
Sent(c, ch, goaway, timeout) ==
  IF goaway THEN Ended(c, "goaway") /\ UNCHANGED waiting_stream
  ELSE /\ call' = [call EXCEPT ![c].pc = "sent", ![c].ch = ch, ![c].armed = timeout]
       /\ waiting_stream' = IF timeout THEN waiting_stream \cup {c} ELSE waiting_stream

(* conn.openstream: the next endpoint in turn, and its channel if that is alive. *)
openstream(c, timeout) ==
  LET e == robin
      ch == endpoint[e]
  IN /\ call[c].pc = "idle"
     /\ IF gclosed THEN Ended(c, "closed") /\ UNCHANGED <<robin, connlock, waiting_stream>>
        ELSE /\ robin' = (robin % Cardinality(Endpoints)) + 1
             /\ IF isalive(ch) THEN Sent(c, ch, channels[ch].goaway, timeout) /\ UNCHANGED connlock
                ELSE /\ call' = [call EXCEPT ![c].pc = "lock", ![c].e = e, ![c].armed = timeout]
                     /\ connlock' = [connlock EXCEPT ![e] = Append(@, c)]
                     /\ UNCHANGED waiting_stream
     /\ UNCHANGED <<gclosed, endpoint, channels, fired>>

(* (fault) the lock of the endpoint keeps nobody out *)
Holds_Always(c) == TRUE

(* newchannel, with the lock: the channel another task made meanwhile, or a connection. *)
Holds(c) == connlock[call[c].e] # <<>> /\ connlock[call[c].e][1] = c
Unlocked(c) == connlock' = [connlock EXCEPT ![call[c].e] = Tail(@)]

newchannel(c) ==
  LET old == endpoint[call[c].e]
  IN /\ call[c].pc = "lock" /\ Holds(c)
     /\ IF isalive(old)
        THEN Sent(c, old, channels[old].goaway, call[c].armed) /\ Unlocked(c) /\ UNCHANGED channels
        ELSE /\ call' = [call EXCEPT ![c].pc = "connect"]
             /\ channels' = IF old = 0 THEN channels
                          ELSE [channels EXCEPT ![old] = ChannelClosed(@, old)]
             /\ UNCHANGED <<connlock, waiting_stream>>
     /\ UNCHANGED <<gclosed, robin, endpoint, fired>>
Connected(c) ==
  /\ call[c].pc = "connect" /\ Len(channels) < MaxChannels
  /\ channels' = Append(channels, [e |-> call[c].e, conn |-> TRUE, goaway |-> FALSE, shut |-> FALSE])
  /\ endpoint' = [endpoint EXCEPT ![call[c].e] = Len(channels) + 1]
  /\ Sent(c, Len(channels) + 1, FALSE, call[c].armed) /\ Unlocked(c)
  /\ UNCHANGED <<gclosed, robin, fired>>
ConnectFails(c) ==
  /\ call[c].pc = "connect" /\ Ended(c, "connect") /\ Unlocked(c)
  /\ UNCHANGED <<gclosed, robin, endpoint, channels, waiting_stream, fired>>

(* conn.close: the channels there are; one being made stays. *)
close ==
  /\ ~gclosed /\ gclosed' = TRUE
  /\ endpoint' = [e \in Endpoints |-> 0]
  /\ channels' = [i \in DOMAIN channels |->
                    IF i \in {endpoint[e] : e \in Endpoints} THEN ChannelClosed(channels[i], i)
                    ELSE channels[i]]
  /\ UNCHANGED <<robin, connlock, call, waiting_stream, fired>>

(* A channel dies with all its streams, or is told to take no more of them. *)
ChannelDies(i) ==
  /\ channels[i].conn
  /\ channels' = [channels EXCEPT ![i].conn = FALSE, ![i].goaway = TRUE]
  /\ call' = [c \in CallSlots |-> IF call[c].pc = "sent" /\ call[c].ch = i
                                  THEN [call[c] EXCEPT !.pc = "woken"] ELSE call[c]]
  /\ UNCHANGED <<gclosed, robin, endpoint, connlock, waiting_stream, fired>>
Goaway(i) ==
  /\ channels[i].conn /\ ~channels[i].goaway
  /\ channels' = [channels EXCEPT ![i].goaway = TRUE]
  /\ UNCHANGED <<gclosed, robin, endpoint, connlock, call, waiting_stream, fired>>

(* The server: dispatch, and the handler of registrar.lua: what it returns decides whether there
   is a message and which status the trailers have. *)
Replies == {[body |-> "msg", status |-> "OK"],       \* the handler's output
            [body |-> "none", status |-> "OK"],      \* none
            [body |-> "none", status |-> "error"],   \* its error, or it raised
            [body |-> "none", status |-> "none"],    \* reset, or the request could not be read
            [body |-> "part", status |-> "none"]}    \* reset within the message
Reply(c, r) ==
  /\ call[c].pc = "sent"
  /\ call' = [call EXCEPT ![c].pc = "woken", ![c].reply = r]
  /\ UNCHANGED <<gclosed, robin, endpoint, channels, connlock, waiting_stream, fired>>

(* timer_stream: the stream is closed, which wakes the call. *)
timer_stream(c) ==
  /\ c \in waiting_stream
  /\ waiting_stream' = waiting_stream \ {c} /\ fired' = fired \cup {c}
  /\ call' = IF call[c].pc = "sent" THEN [call EXCEPT ![c].pc = "woken"] ELSE call
  /\ UNCHANGED <<gclosed, robin, endpoint, channels, connlock>>

(* The rest of the call: the deadline, then the status, then the message; the stream is closed.
   A woken call runs before the next message or timer. *)
unary(c) ==
  LET r == call[c].reply
  IN /\ call[c].pc = "woken"
     /\ Ended(c, IF call[c].armed /\ c \notin waiting_stream THEN "deadline"
                 ELSE IF r.status = "none" THEN "nostatus"
                 ELSE IF r.status # "OK" THEN "status"
                 ELSE IF r.body = "msg" THEN "message" ELSE "eof")
     /\ waiting_stream' = waiting_stream \ {c}
     /\ channels' = [channels EXCEPT ![call[c].ch].conn =
                       @ /\ ~(channels[call[c].ch].goaway /\ Streams(call[c].ch) = {c})]
     /\ UNCHANGED <<gclosed, robin, endpoint, connlock, fired>>

Settled == \A c \in CallSlots : call[c].pc # "woken"
Next == \/ \E c \in CallSlots : unary(c)
        \/ /\ Settled
           /\ \/ close
              \/ \E c \in CallSlots : \/ \E timeout \in BOOLEAN : openstream(c, timeout)
                                      \/ newchannel(c) \/ Connected(c) \/ ConnectFails(c)
                                      \/ timer_stream(c) \/ \E r \in Replies : Reply(c, r)
              \/ \E i \in DOMAIN channels : ChannelDies(i) \/ Goaway(i)
Spec == Init /\ [][Next]_grpcvars
-----------------------------------------------------------------------------
(* However many tasks find the channel of an endpoint missing or dead at once, one channel is made
   for it: a channel that takes streams is the one its endpoint knows, so that all calls use it. *)
OneChannel ==
  \A i \in DOMAIN channels :
    channels[i].conn /\ ~channels[i].goaway => endpoint[channels[i].e] = i

(* A call reports a missed deadline exactly when its timer fired while it was under way; the timer
   of a call that has returned does nothing, and a message is returned only with status OK. *)
DeadlineExact ==
  /\ \A c \in waiting_stream : call[c].pc \in {"sent", "woken"} /\ call[c].armed
  /\ \A c \in CallSlots : /\ call[c].result = "deadline" => c \in fired
                          /\ c \in fired /\ call[c].pc = "done" => call[c].result = "deadline"
                          /\ call[c].result = "message" => call[c].reply = [body |-> "msg", status |-> "OK"]

GrpcExact == OneChannel /\ DeadlineExact
=============================================================================
