------------------------------- MODULE Socket -------------------------------
(***************************************************************************)
(* The socket pool and the life of its TCP sockets (src/socket.c).         *)
(*                                                                         *)
(* The worker calls socket_tcp_listen, socket_tcp_connect, socket_tcp_send,*)
(* socket_read_enable and socket_close, which look a slot up without a     *)
(* lock and push an operation; the socket thread polls the kernel, executes*)
(* the operations, flushes the dirty sockets and handles the events it had *)
(* gathered before (socket_poll), and reports to the worker.  A call of    *)
(* the worker that reads a slot and then acts on it takes two steps.       *)
(*                                                                         *)
(* The operation queue is the abstract one that OpChannel implements.  The *)
(* kernel decides what sp_wait, connect, recv and writev return.  Buffers  *)
(* are counted, their bytes are SocketWrite's subject.                     *)
(***************************************************************************)
EXTENDS Integers, Sequences, FiniteSets, SequencesExt

CONSTANTS
  Opens,        \* what the worker opens: a subset of {"listener", "connection"}
  NSlots,       \* SOCKET_POOL_SIZE, without the slot of the control pipe
  MaxSockets,   \* bound: sockets allocated in a behaviour
  MaxSends,     \* bound: socket_tcp_send calls
  MaxEnables,   \* bound: socket_read_enable calls
  MaxData,      \* bound: reads that return data
  MaxDirty      \* the capacity of dirty_sockets

ASSUME SocketAssumption ==
  /\ Opens \subseteq {"listener", "connection"}
  /\ NSlots \in Nat \ {0}
  /\ MaxDirty \in Nat \ {0}
  /\ {MaxSockets, MaxSends, MaxEnables, MaxData} \subseteq Nat

Slots == 1..NSlots
NoSlot == 0
Free == -1
Sids == Slots \X (0..MaxSockets)

Bits == {"POLLING", "PENDING", "READING", "WRITING", "CLOSING", "CLOSEWAIT",
         "ZOMBINE"}
Types == {"RESERVE", "TCP_LISTEN", "TCP_CONNECTION"}

\* The kernel's side of a descriptor: created, connect in progress,
\* connected, listening.
Fds == {"none", "created", "dialing", "connected", "listening"}

VARIABLES
  pool,      \* the slots: struct socket
  free,      \* the free list
  ops,       \* operations pushed and not yet flipped out
  batch,     \* operations being executed
  events,    \* events gathered by sp_wait and not yet handled
  dirty,     \* dirty_sockets
  pc,        \* where socket_poll is
  mark,      \* a slot whose close is reported and which zombine_socket gets next
  inbox,     \* messages to the worker
  conns,     \* netstat.tcp_connections
  call,      \* the worker's call between its look at the slot and its effect
  lua,       \* what net.lua holds of each socket
  hungup,    \* history: sockets whose CLOSE was reported
  sent, enabled, read,   \* the counters that MaxSends, MaxEnables and MaxData bound
  abort      \* the assertion that ended the process, or "none"

sockets == <<pool, free, conns>>
thread == <<batch, events, dirty, pc, mark>>
worker == <<call, lua, sent, enabled>>
vars == <<pool, free, ops, batch, events, dirty, pc, mark, inbox, conns, call, lua,
          hungup, sent, enabled, read, abort>>

NoCall == [op |-> "none"]

\* socket_default
Default(version) ==
  [sid |-> Free, version |-> version, type |-> "RESERVE", state |-> {}, wl |-> 0,
   dirty |-> FALSE, fd |-> "none"]

Init ==
  /\ pool = [s \in Slots |-> Default(0)]
  /\ free = [i \in 1..NSlots |-> i]
  /\ ops = <<>> /\ batch = <<>> /\ events = {} /\ dirty = <<>>
  /\ pc = "events" /\ mark = NoSlot
  /\ inbox = <<>> /\ conns = 0
  /\ call = NoCall /\ lua = [i \in Sids |-> "none"]
  /\ hungup = {}
  /\ sent = 0 /\ enabled = 0 /\ read = 0
  /\ abort = "none"

-----------------------------------------------------------------------------
(* The pool.                                                               *)

Is(s, bit) == bit \in pool[s].state
Sid(s) == <<s, pool[s].sid>>
Live(s) == pool[s].sid # Free

\* pool_get
Known(sid) == pool[sid[1]].sid = sid[2]

\* How many times pool_alloc has succeeded.
Allocated == MapThenSumSet(LAMBDA s : pool[s].version + (IF Live(s) THEN 1 ELSE 0), Slots)

\* pool_alloc: what the slot at the head of the free list becomes.  The state
\* bits are the ones the slot was left with.
Taken(s, type, fd, bits) ==
  [pool EXCEPT ![s].sid = pool[s].version, ![s].type = type, ![s].fd = fd,
               ![s].state = @ \cup bits]

Released(s) == [pool EXCEPT ![s] = Default(pool[s].version + 1)]

FreeSocket(s) ==
  /\ pool' = Released(s)
  /\ free' = Append(free, s)

Count(n) == conns' = conns + n

Push(op) == ops' = Append(ops, op)
Report(msg) == inbox' = Append(inbox, msg)

-----------------------------------------------------------------------------
(* The worker's calls.                                                     *)

Idle == abort = "none" /\ call = NoCall

\* socket_tcp_listen and socket_tcp_connect.  With no free slot they close the
\* descriptor and fail.
Open(type, fd, op, waiting) ==
  /\ Idle /\ free # <<>> /\ Allocated < MaxSockets
  /\ LET s == Head(free)
         sid == <<s, pool[s].version>>
     IN /\ pool' = Taken(s, type, fd, {"PENDING"})
        /\ Push([op |-> op, sid |-> sid])
        /\ lua' = [lua EXCEPT ![sid] = waiting]
  /\ free' = Tail(free)
  /\ UNCHANGED <<thread, inbox, conns, call, hungup, sent, enabled, read, abort>>

TcpListen == "listener" \in Opens /\ Open("TCP_LISTEN", "listening", "TCP_LISTEN", "listening")
TcpConnect == "connection" \in Opens /\ Open("TCP_CONNECTION", "created", "TCP_CONNECT", "connecting")

\* net.close, and connect_timer for a connection that is still pending:
\* socket_close looks the slot up.  A zombie is freed by the worker itself.
CloseLookup(sid) ==
  /\ Idle /\ lua[sid] \in {"connecting", "open"}
  /\ lua' = [lua EXCEPT ![sid] = "closed"]
  /\ IF ~Known(sid) \/ Is(sid[1], "CLOSEWAIT")
     THEN UNCHANGED <<sockets, call>>
     ELSE IF Is(sid[1], "ZOMBINE")
     THEN /\ Count(IF pool[sid[1]].type = "TCP_CONNECTION" THEN -1 ELSE 0)
          /\ FreeSocket(sid[1])
          /\ UNCHANGED call
     ELSE /\ call' = [op |-> "CLOSE", sid |-> sid]
          /\ UNCHANGED sockets
  /\ UNCHANGED <<thread, ops, inbox, hungup, sent, enabled, read, abort>>

\* The rest of socket_close: set_closing on the slot, then the operation.
CloseEffect ==
  /\ abort = "none" /\ call.op = "CLOSE"
  /\ pool' = [pool EXCEPT ![call.sid[1]].state = @ \cup {"CLOSING"}]
  /\ Push(call)
  /\ call' = NoCall
  /\ UNCHANGED <<thread, free, inbox, conns, lua, hungup, sent, enabled, read, abort>>

\* socket_tcp_send and socket_read_enable.  Whether the slot is looked up just
\* before the push or earlier makes no difference: the operation is checked again
\* when it is executed.
Usable(sid) == Idle /\ lua[sid] = "open" /\ Known(sid) /\ ~Is(sid[1], "ZOMBINE")

TcpSend(sid) ==
  /\ Usable(sid) /\ sent < MaxSends
  /\ Push([op |-> "TCP_SEND", sid |-> sid])
  /\ sent' = sent + 1
  /\ UNCHANGED <<sockets, thread, inbox, call, lua, hungup, enabled, read, abort>>

ReadEnable(sid, on) ==
  /\ Usable(sid) /\ enabled < MaxEnables
  /\ Push([op |-> "READ_ENABLE", sid |-> sid, on |-> on])
  /\ enabled' = enabled + 1
  /\ UNCHANGED <<sockets, thread, inbox, call, lua, hungup, sent, read, abort>>

\* The handlers of net.lua: an answer resumes the coroutine that waits for it,
\* an ACCEPT of a listener that was closed meanwhile fails its assertion.
Dispatch ==
  /\ Idle /\ inbox # <<>>
  /\ inbox' = Tail(inbox)
  /\ LET m == Head(inbox) IN
     lua' = CASE /\ m.type \in {"LISTEN", "CONNECT"}
                   /\ lua[m.sid] \in {"listening", "connecting"} ->
                   [lua EXCEPT ![m.sid] = IF m.ok THEN "open" ELSE "failed"]
              [] m.type = "ACCEPT" ->
                   [lua EXCEPT ![m.sid] = IF lua[m.listen] = "open" THEN "open"
                                                                    ELSE "orphan"]
              [] OTHER -> lua
  /\ UNCHANGED <<sockets, thread, ops, call, hungup, sent, enabled, read, abort>>

-----------------------------------------------------------------------------
(* The socket thread: sp_wait and op_process.                              *)

Running(where) == abort = "none" /\ mark = NoSlot /\ pc = where

\* The flags epoll may report for a connection: readable, writable, shut down by
\* the peer, reset.  They are masked by the interest, except for an error.
Interest(s) ==
  {"ERR"} \cup (IF Is(s, "READING") THEN {"IN", "EOF"} ELSE {})
          \cup (IF Is(s, "WRITING") THEN {"OUT"} ELSE {})
Conditions == {{"IN"}, {"OUT"}, {"IN", "OUT"}, {"IN", "EOF"}, {"IN", "OUT", "EOF"},
               {"IN", "OUT", "EOF", "ERR"}}

Flags(s) ==
  IF ~Is(s, "POLLING") THEN {}
  ELSE CASE pool[s].fd = "listening" -> {f \in {{"IN"}} : Is(s, "READING")}
         [] pool[s].fd = "dialing" ->
              {c \cap Interest(s) : c \in {{"OUT"}, {"IN", "OUT", "EOF", "ERR"}}} \ {{}}
         [] OTHER -> {c \cap Interest(s) : c \in Conditions} \ {{}}

Gathered == Slots \X SUBSET {"IN", "OUT", "ERR", "EOF"}

\* eventwait
EventWait ==
  /\ Running("events") /\ events = {}
  /\ \E S \in SUBSET {s \in Slots : Flags(s) # {}} :
       \E f \in [S -> UNION {Flags(s) : s \in S}] :
         /\ \A s \in S : f[s] \in Flags(s)
         /\ events' = {<<s, f[s]>> : s \in S}
  /\ pc' = "flip"
  /\ UNCHANGED <<sockets, ops, batch, dirty, mark, inbox, worker, hungup, read, abort>>

\* trigger_consume and flipbuf_flip: nothing is taken while the trigger of a
\* pushed operation has not fired.
Flip ==
  /\ Running("flip")
  /\ \/ /\ ops # <<>>
        /\ batch' = ops /\ ops' = <<>> /\ pc' = "exec"
     \/ /\ pc' = "events"
        /\ UNCHANGED <<batch, ops>>
  /\ UNCHANGED <<sockets, events, dirty, mark, inbox, worker, hungup, read, abort>>

\* The loop of op_process ends with flush_dirty.
BatchDone ==
  /\ Running("exec") /\ batch = <<>>
  /\ pc' = "flush"
  /\ UNCHANGED <<sockets, ops, batch, events, dirty, mark, inbox, worker, hungup, read, abort>>

Drops(op) == ~Known(op.sid) \/ (op.op # "CLOSE" /\ Is(op.sid[1], "ZOMBINE"))

Executes(op, s) ==
  /\ Running("exec") /\ batch # <<>>
  /\ Head(batch).op = op /\ ~Drops(Head(batch)) /\ s = Head(batch).sid[1]
  /\ batch' = Tail(batch)
  /\ UNCHANGED <<ops, events, mark, worker, read>>

OpDropped ==
  /\ Running("exec") /\ batch # <<>> /\ Drops(Head(batch))
  /\ batch' = Tail(batch)
  /\ UNCHANGED <<sockets, ops, events, dirty, pc, mark, inbox, worker, hungup, read, abort>>

Added == {"POLLING", "READING"}

OpTcpListen(s, added) ==
  /\ Executes("TCP_LISTEN", s) /\ Is(s, "PENDING")
  /\ Report([type |-> "LISTEN", sid |-> Sid(s), ok |-> added])
  /\ IF added
     THEN /\ pool' = [pool EXCEPT ![s].state = (@ \cup Added) \ {"PENDING"}]
          /\ UNCHANGED free
     ELSE FreeSocket(s)
  /\ UNCHANGED <<dirty, pc, conns, hungup, abort>>

\* connect fails at once, succeeds at once or is in progress; sp_add may fail.
OpTcpConnect(s, connect, added) ==
  /\ Executes("TCP_CONNECT", s) /\ Is(s, "PENDING")
  /\ IF connect = "fails" \/ ~added
     THEN /\ Report([type |-> "CONNECT", sid |-> Sid(s), ok |-> FALSE])
          /\ FreeSocket(s)
          /\ UNCHANGED conns
     ELSE IF connect = "done"
     THEN /\ Report([type |-> "CONNECT", sid |-> Sid(s), ok |-> TRUE])
          /\ pool' = [pool EXCEPT ![s].fd = "connected",
                        ![s].state = ((@ \cup Added) \ {"PENDING"})
                                       \cup (IF pool[s].wl > 0 THEN {"WRITING"} ELSE {})]
          /\ Count(1)
          /\ UNCHANGED free
     ELSE /\ pool' = [pool EXCEPT ![s].fd = "dialing",
                        ![s].state = @ \cup Added \cup {"WRITING"}]
          /\ UNCHANGED <<free, inbox, conns>>
  /\ UNCHANGED <<dirty, pc, hungup, abort>>

\* The assertions of op_tcp_listen and op_tcp_connect.
OpAsserts(s) ==
  /\ \/ Executes("TCP_LISTEN", s)
     \/ Executes("TCP_CONNECT", s)
  /\ ~Is(s, "PENDING")
  /\ abort' = "is_pending"
  /\ UNCHANGED <<sockets, dirty, pc, inbox, hungup>>

\* op_tcp_send, which drops what is sent to a listener, and mark_dirty, which
\* flushes when the array is full.
OpTcpSend(s) ==
  /\ Executes("TCP_SEND", s)
  /\ LET appends == pool[s].type = "TCP_CONNECTION"
         marked == appends /\ ~Is(s, "PENDING") /\ ~pool[s].dirty
     IN
     /\ pool' = [pool EXCEPT ![s].wl = IF appends THEN @ + 1 ELSE @,
                             ![s].dirty = @ \/ marked]
     /\ dirty' = IF marked THEN Append(dirty, s) ELSE dirty
     /\ pc' = IF marked /\ Len(dirty) + 1 >= MaxDirty THEN "flush" ELSE pc
  /\ UNCHANGED <<free, conns, inbox, hungup, abort>>

OpReadEnable(s) ==
  /\ Executes("READ_ENABLE", s)
  /\ pool' = [pool EXCEPT ![s].state = IF Head(batch).on THEN @ \cup {"READING"}
                                                          ELSE @ \ {"READING"}]
  /\ UNCHANGED <<free, dirty, pc, conns, inbox, hungup, abort>>

\* (fault) buffers do not delay the close
OpClose_Hasty(s) ==
  /\ Executes("CLOSE", s)
  /\ Count(IF pool[s].type = "TCP_CONNECTION" /\ ~Is(s, "PENDING") THEN -1 ELSE 0)
  /\ FreeSocket(s)
  /\ UNCHANGED <<dirty, pc, inbox, hungup, abort>>
OpClose(s) ==
  /\ Executes("CLOSE", s)
  /\ IF pool[s].wl = 0
     THEN /\ Count(IF pool[s].type = "TCP_CONNECTION" /\ ~Is(s, "PENDING") THEN -1 ELSE 0)
          /\ FreeSocket(s)
     ELSE /\ pool' = [pool EXCEPT ![s].state = (@ \cup {"CLOSEWAIT"}) \ {"READING"}]
          /\ UNCHANGED <<free, conns>>
  /\ UNCHANGED <<dirty, pc, inbox, hungup, abort>>

-----------------------------------------------------------------------------
(* Writing: drain_wlist_tcp, flush_dirty, zombine_socket.                  *)

\* What writev may do with the buffers of a slot.
Writes(s) ==
  IF pool[s].wl = 0 THEN {"nothing"}
  ELSE {"fail", "again", "all"} \cup (IF pool[s].wl > 1 THEN {"some"} ELSE {})

\* The slot after drain_wlist_tcp, unless it was freed.
Drained(sock, write) ==
  CASE write \in {"nothing", "fail"} -> sock
    [] write = "again" -> [sock EXCEPT !.state = @ \cup {"WRITING"}]
    [] write = "some" -> [sock EXCEPT !.wl = @ - 1, !.state = @ \cup {"WRITING"}]
    [] write = "all" -> [sock EXCEPT !.wl = 0, !.state = @ \ {"WRITING"}]

\* A closed socket is freed once its last buffer is written.
DrainFrees(s, write) == write = "all" /\ Is(s, "CLOSEWAIT")

\* report_close: CLOSE is reported once.
ReportClose(s) ==
  IF Is(s, "CLOSING") THEN UNCHANGED <<inbox, hungup>>
  ELSE /\ Report([type |-> "CLOSE", sid |-> Sid(s)])
       /\ hungup' = hungup \cup {Sid(s)}

\* (fault) set_closing is forgotten
Closing_Unset(sock) == sock
Closing(sock) == [sock EXCEPT !.state = @ \cup {"CLOSING"}]

\* flush_dirty, one socket a step.
FlushSkips(s) ==
  \/ Is(s, "ZOMBINE") \/ ~Live(s) \/ pool[s].wl = 0
  \/ pool[s].type # "TCP_CONNECTION"

Flush(s) ==
  /\ Running("flush") /\ dirty # <<>> /\ s = Head(dirty)
  /\ dirty' = Tail(dirty)
  /\ LET sock == [pool[s] EXCEPT !.dirty = FALSE] IN
     IF FlushSkips(s)
     THEN /\ pool' = [pool EXCEPT ![s] = sock]
          /\ UNCHANGED <<free, conns, mark, inbox, hungup>>
     ELSE \E write \in Writes(s) :
       IF DrainFrees(s, write)
       THEN /\ FreeSocket(s) /\ Count(-1)
            /\ UNCHANGED <<mark, inbox, hungup>>
       ELSE IF write = "fail"
       THEN /\ ReportClose(s)
            /\ pool' = [pool EXCEPT ![s] = Closing(sock)]
            /\ mark' = s
            /\ UNCHANGED <<free, conns>>
       ELSE /\ pool' = [pool EXCEPT ![s] = Drained(sock, write)]
            /\ UNCHANGED <<free, conns, mark, inbox, hungup>>
  /\ UNCHANGED <<ops, batch, events, pc, worker, read, abort>>

\* The end of flush_dirty: back to the operation that filled the array, or on
\* to the events.
FlushDone ==
  /\ Running("flush") /\ dirty = <<>>
  /\ pc' = IF batch # <<>> THEN "exec" ELSE "events"
  /\ UNCHANGED <<sockets, ops, batch, events, dirty, mark, inbox, worker, hungup, read, abort>>

\* (fault) a socket that is freed at once stays in tcp_connections
Zombine_Uncounted ==
  /\ abort = "none" /\ mark # NoSlot
  /\ mark' = NoSlot
  /\ IF Is(mark, "CLOSEWAIT")
     THEN FreeSocket(mark) /\ UNCHANGED conns
     ELSE /\ pool' = [pool EXCEPT ![mark].wl = 0, ![mark].fd = "none",
                        ![mark].state = (@ \ {"POLLING", "READING", "WRITING"})
                                          \cup {"ZOMBINE"}]
          /\ UNCHANGED <<free, conns>>
  /\ UNCHANGED <<ops, batch, events, dirty, pc, inbox, worker, hungup, read, abort>>
\* zombine_socket
Zombine ==
  /\ abort = "none" /\ mark # NoSlot
  /\ mark' = NoSlot
  /\ IF Is(mark, "CLOSEWAIT")
     THEN FreeSocket(mark) /\ Count(-1)
     ELSE /\ pool' = [pool EXCEPT ![mark].wl = 0, ![mark].fd = "none",
                        ![mark].state = (@ \ {"POLLING", "READING", "WRITING"})
                                          \cup {"ZOMBINE"}]
          /\ UNCHANGED <<free, conns>>
  /\ UNCHANGED <<ops, batch, events, dirty, pc, inbox, worker, hungup, read, abort>>

-----------------------------------------------------------------------------
(* The events of socket_poll.                                              *)

Handles(e) ==
  /\ Running("events") /\ e \in events
  /\ events' = events \ {e}
  /\ UNCHANGED <<ops, batch, dirty, pc, worker>>

Skips(s) == Is(s, "ZOMBINE") \/ ~Live(s)

EventSkipped(e) ==
  /\ Handles(e) /\ Skips(e[1])
  /\ UNCHANGED <<sockets, mark, inbox, hungup, read, abort>>

\* exec_accept: accept fails or the pool is empty, sp_add fails, or the
\* connection is announced.
EventAccept(e, accepts, added) ==
  /\ Handles(e) /\ ~Skips(e[1]) /\ pool[e[1]].type = "TCP_LISTEN"
  /\ IF "IN" \notin e[2]
     THEN /\ abort' = "SP_READ"
          /\ UNCHANGED <<sockets, inbox>>
     ELSE /\ UNCHANGED abort
          /\ IF ~accepts \/ free = <<>> \/ Allocated >= MaxSockets
             THEN UNCHANGED <<sockets, inbox>>
             ELSE LET s == Head(free) IN
               IF added
               THEN /\ pool' = Taken(s, "TCP_CONNECTION", "connected", Added)
                    /\ free' = Tail(free)
                    /\ Report([type |-> "ACCEPT", sid |-> <<s, pool[s].version>>,
                               listen |-> Sid(e[1])])
                    /\ Count(1)
               ELSE /\ pool' = Released(s)
                    /\ free' = Append(Tail(free), s)
                    /\ UNCHANGED <<conns, inbox>>
  /\ UNCHANGED <<mark, hungup, read>>

\* checkconnected.  A descriptor on which connect was never called has no error.
EventConnected(e, ok) ==
  LET s == e[1] IN
  /\ Handles(e) /\ ~Skips(s)
  /\ pool[s].type = "TCP_CONNECTION" /\ Is(s, "PENDING")
  /\ pool[s].fd = "created" => ok
  /\ Report([type |-> "CONNECT", sid |-> Sid(s), ok |-> ok])
  /\ IF ok
     THEN /\ pool' = [pool EXCEPT
               ![s].fd = IF @ = "dialing" THEN "connected" ELSE @,
               ![s].state = @ \ ({"PENDING"} \cup (IF pool[s].wl = 0 THEN {"WRITING"} ELSE {}))]
          /\ Count(1)
          /\ UNCHANGED free
     ELSE /\ FreeSocket(s)
          /\ UNCHANGED conns
  /\ UNCHANGED <<mark, hungup, read, abort>>

\* forward_msg_tcp: data that filled the buffer, data, nothing, end of file or
\* an error.
Reads(s, flags) ==
  IF "IN" \notin flags THEN {"none"}
  ELSE IF Is(s, "CLOSING") THEN {"eof"}
  ELSE {"again", "eof", "error"} \cup (IF read < MaxData THEN {"full", "data"} ELSE {})

\* A reset that was reported makes the write fail.
WritesOn(s, flags) ==
  IF "OUT" \notin flags \/ pool[s].wl = 0 THEN {"nothing"}
  ELSE IF "ERR" \in flags THEN {"fail"} ELSE Writes(s)

\* The two reports that a handler may make, in this order.
Reported(s, data, close) ==
  inbox' = inbox \o (IF data THEN <<[type |-> "DATA", sid |-> Sid(s)]>> ELSE <<>>)
                 \o (IF close /\ ~Is(s, "CLOSING")
                     THEN <<[type |-> "CLOSE", sid |-> Sid(s)]>> ELSE <<>>)

\* An established connection: read, write, then the error or the end of file.
\* drain_wlist_tcp may have freed the slot before get_sock_error and report_close
\* get to it.
EventData(e, recv, write, failed) ==
  LET s == e[1]
      flags == e[2]
      data == recv \in {"full", "data"}
      frees == DrainFrees(s, write)
      err == recv # "full" /\ (\/ recv = "error" \/ write = "fail"
                               \/ failed)
      eof == recv # "full" /\ ~err /\ (recv = "eof" \/ "EOF" \in flags)
  IN
  /\ Handles(e) /\ ~Skips(s)
  /\ pool[s].type = "TCP_CONNECTION" /\ ~Is(s, "PENDING")
  /\ failed => "ERR" \in flags
  /\ read' = IF data THEN read + 1 ELSE read
  /\ IF frees
     THEN /\ FreeSocket(s) /\ Count(-1)
          /\ Reported(s, data, FALSE)
          /\ abort' = IF recv # "full" /\ "ERR" \in flags THEN "get_sock_error"
                      ELSE IF eof THEN "report_close" ELSE abort
          /\ UNCHANGED <<mark, hungup>>
     ELSE /\ LET drained == Drained(pool[s], write)
                 closing == IF err \/ eof THEN Closing(drained) ELSE drained
             IN pool' = [pool EXCEPT ![s] = IF eof
                           THEN [closing EXCEPT !.state = @ \ {"READING"}] ELSE closing]
          /\ Reported(s, data, err \/ eof)
          /\ hungup' = IF (err \/ eof) /\ ~Is(s, "CLOSING") THEN hungup \cup {Sid(s)}
                                                            ELSE hungup
          /\ mark' = IF err THEN s ELSE mark
          /\ UNCHANGED <<free, conns, abort>>

\* assert ends the process.
Aborted == abort # "none" /\ UNCHANGED vars

Worker ==
  \/ TcpListen \/ TcpConnect \/ CloseEffect \/ Dispatch
  \/ \E sid \in Sids :
       \/ CloseLookup(sid) \/ TcpSend(sid)
       \/ \E on \in BOOLEAN : ReadEnable(sid, on)

Thread ==
  \/ EventWait \/ Flip \/ BatchDone \/ OpDropped \/ FlushDone \/ Zombine
  \/ \E s \in Slots :
       \/ OpAsserts(s) \/ OpTcpSend(s) \/ OpReadEnable(s) \/ OpClose(s) \/ Flush(s)
       \/ \E added \in BOOLEAN :
            \/ OpTcpListen(s, added)
            \/ \E connect \in {"fails", "done", "blocks"} : OpTcpConnect(s, connect, added)
  \/ \E e \in events :
       \/ EventSkipped(e)
       \/ \E accepts, added \in BOOLEAN : EventAccept(e, accepts, added)
       \/ \E ok \in BOOLEAN : EventConnected(e, ok)
       \/ \E recv \in Reads(e[1], e[2]), write \in WritesOn(e[1], e[2]),
             failed \in BOOLEAN : EventData(e, recv, write, failed)

Next == Worker \/ Thread \/ Aborted

Spec == Init /\ [][Next]_vars

\* The socket thread runs and the worker finishes its calls and dispatches; the
\* trigger of a pushed operation fires (OpChannel); the kernel reports a connection
\* that becomes writable or whose attempt ended, and takes some of its data or
\* fails.
ReportsWritable(s) == EventWait /\ \E e \in events' : e[1] = s /\ "OUT" \in e[2]
WritesSome(s) ==
  \E e \in events : \E recv \in Reads(s, e[2]), write \in WritesOn(s, e[2]), failed \in BOOLEAN :
    e[1] = s /\ write \in {"fail", "some", "all"} /\ EventData(e, recv, write, failed)

Fairness ==
  /\ WF_vars(Thread) /\ WF_vars(CloseEffect) /\ WF_vars(Dispatch)
  /\ SF_vars(Flip /\ pc' = "exec")
  /\ \A s \in Slots : SF_vars(ReportsWritable(s)) /\ SF_vars(WritesSome(s))

FairSpec == Spec /\ Fairness

-----------------------------------------------------------------------------
(* Properties.                                                             *)

Operations ==
  [op : {"TCP_LISTEN", "TCP_CONNECT", "TCP_SEND", "CLOSE"}, sid : Sids]
    \cup [op : {"READ_ENABLE"}, sid : Sids, on : BOOLEAN]

\* Every variable has its type.
TypeOK ==
  /\ pool \in [Slots -> [sid : {Free} \cup Nat, version : Nat, type : Types,
                         state : SUBSET Bits, wl : Nat, dirty : BOOLEAN, fd : Fds]]
  /\ free \in Seq(Slots) /\ dirty \in Seq(Slots)
  /\ ops \in Seq(Operations) /\ batch \in Seq(Operations)
  /\ events \in SUBSET Gathered
  /\ pc \in {"events", "flip", "exec", "flush"} /\ mark \in Slots \cup {NoSlot}
  /\ call \in Operations \cup {NoCall}
  /\ lua \in [Sids -> {"none", "listening", "connecting", "open", "closed", "failed", "orphan"}]
  /\ hungup \in SUBSET Sids
  /\ {conns, sent, enabled, read} \subseteq Nat
  /\ abort \in {"none", "is_pending", "SP_READ", "get_sock_error", "report_close"}

\* A slot is in the free list exactly when it has no id, and once: two threads
\* free sockets (the worker frees zombies), and a double free would hand one
\* slot to two sockets.
FreeListExact ==
  /\ \A s \in Slots : ~Live(s) <=> s \in Range(free)
  /\ IsInjective(free)

\* tcp_connections counts the established connections that still hold a slot,
\* although connections end in six places of the code and on two threads.
ConnsExact ==
  conns = Cardinality({s \in Slots : /\ Live(s) /\ pool[s].type = "TCP_CONNECTION"
                                     /\ ~Is(s, "PENDING")})

\* A slot on the dirty list is marked and on it once, and holds a connection with
\* buffers: no operation of the batch may free it before flush_dirty gets there.
DirtyIsLive ==
  /\ IsInjective(dirty)
  /\ \A s \in Slots : pool[s].dirty <=> s \in Range(dirty)
  /\ \A s \in Range(dirty) : Live(s) /\ pool[s].wl > 0 /\ ~Is(s, "ZOMBINE")

\* No write is forgotten: when the thread goes to wait, a connection with buffers
\* left has its write event enabled.
WriteArmed ==
  Running("flip") => \A s \in Slots :
    pool[s].wl > 0 => Is(s, "WRITING") /\ Is(s, "POLLING")

\* A socket that waits to be closed has buffers left, or nothing would free it.
CloseWaitHasData ==
  \A s \in Slots : Is(s, "CLOSEWAIT") => pool[s].wl > 0

\* A zombie has given up its descriptor and its buffers, and is not due to be
\* closed by the socket thread: the worker may free it without asking.
ZombieIsBare ==
  \A s \in Slots : Is(s, "ZOMBINE") =>
    /\ Live(s) /\ pool[s].fd = "none" /\ pool[s].wl = 0 /\ ~pool[s].dirty
    /\ {"POLLING", "CLOSEWAIT"} \cap pool[s].state = {} /\ mark # s

\* The slots, the free list, the dirty list, and what is left to write agree whatever mix of
\* operations, events and closes by both threads led there (socket.c).
SlotsExact == TypeOK /\ FreeListExact /\ DirtyIsLive /\ CloseWaitHasData /\ ZombieIsBare

\* The connections are counted, and none waits to write without its event (socket.c).
ConnectionsExact == ConnsExact /\ WriteArmed

\* The reports about a socket follow the protocol of SocketEvents: one answer, no
\* data before it, one CLOSE, nothing after it, and a socket that its owner has not
\* closed never disappears without a report.
Phase(i) ==
  LET s == i[1] IN
  CASE i[2] < pool[s].version -> "gone"
    [] i[2] > pool[s].version \/ ~Live(s) -> "idle"
    [] OTHER -> IF Is(s, "PENDING") THEN "pending"
                ELSE IF i \in hungup THEN "hungup" ELSE "open"

Events == INSTANCE SocketEvents WITH
  phase <- [i \in Sids |-> Phase(i)],
  released <- {i \in Sids : lua[i] = "closed"}

ReportsInOrder == Events!Spec

\* A socket that its owner closes gives its slot back, whether it is connecting,
\* has buffers to write, or dies while the operation is on its way.
ClosedIsFreed ==
  \A i \in Sids : lua[i] = "closed" ~> (Phase(i) = "gone" \/ abort # "none")

\* A listen or connect that net.lua waits for is answered.
RequestsAnswered ==
  \A i \in Sids : lua[i] \in {"listening", "connecting"} ~>
                    (lua[i] \notin {"listening", "connecting"} \/ abort # "none")


\* "assert(socket_type(s) == SOCKET_CONNECTION)" in report_close and
\* "assert(s->fd > 0)" in get_sock_error: socket_poll reports on a socket that it
\* still holds.
ReportsHeld == abort \notin {"report_close", "get_sock_error"}

\* "The socket thread validates sid before performing any state-changing
\* operation": a socket is marked as closing only when its owner closes it or its
\* CLOSE is reported.
ClosingIsKnown ==
  \A s \in Slots : Live(s) /\ Is(s, "CLOSING") =>
    Sid(s) \in hungup \/ lua[Sid(s)] = "closed"
=============================================================================
