----------------------------- MODULE MCRuntime ------------------------------
(***************************************************************************)
(* What the threads of the process share and what carries data to Lua,     *)
(* each by itself: the channel of operations, the endless-loop monitor,    *)
(* the log; the containers of Lua; and the connections of tcp.lua and      *)
(* tls.lua (which share their variables here) and of udp.lua.              *)
(* `part' says which one a behaviour is about; the others stay as they are.*)
(***************************************************************************)
EXTENDS OpChannel

CONSTANTS MaxMessages, MaxMarks, MaxUser,                 \* Monitor
          Size, Lengths, MaxBytes, Loggers, Traces, Secs, \* Log
          Bytes, InitExp, MaxHeld,                        \* Containers
          Values, InitialCap, MaxItems,
          Counts, Limits, MaxRecv, MaxSend                \* Tcp, Tls, Udp

\* What the peer of a connection sends; for tls "h" is a byte of the handshake.
TcpStream == <<"a", "n", "a", "n">>
TlsStream == <<"h", "h", "a", "n", "a">>

VARIABLES part,
          process_id, check_id, mpc, maybe_endless, usr2, openhook, hook,
          oldhook, pending, marks, signals, moved, unreported,         \* Monitor
          ring, rpos, wpos, logged, out, taken, cache, head,           \* Log
          nodes, readi, offset, cap, bytes, delim, checki, pool, fifo, \* Buffer
          buf, qreadi, qwritei, bufcap, ref, qfree, maxid, items,       \* LuaQueue
          first, last, prev, next, count, present, order,              \* LuaList
          open, pc, server, err, need, limit, readpause, timer, woken, spos, dpos,
          done, asked, mq, npos, reading,                              \* Tcp, Tls
          kind, st, closing, closewait, armed, wl, wlbytes, ops, ev, kerr, rx, arrived,
          sent, failed, umq, fd, uerr, co, stash, stash_bytes, utimer, uwoken, got, abort \* Udp

Mo == INSTANCE Monitor WITH sent <- signals
Lo == INSTANCE Log
Co == INSTANCE Containers
Tc == INSTANCE Tcp WITH Stream <- TcpStream, Delim <- "n", rpos <- spos
Tl == INSTANCE Tls WITH Stream <- TlsStream, Hello <- 2, Delim <- "n", rpos <- spos
Ud == INSTANCE Udp WITH writing <- armed, mq <- umq, err <- uerr, timer <- utimer, woken <- uwoken

movars == <<process_id, check_id, mpc, maybe_endless, usr2, openhook, hook,
            oldhook, pending, marks, signals, moved, unreported>>
lovars == <<ring, rpos, wpos, logged, out, taken, cache, head>>
buvars == <<nodes, readi, offset, cap, bytes, delim, checki, pool, fifo>>
quvars == <<buf, qreadi, qwritei, bufcap, ref, qfree, maxid, items>>
livars == <<first, last, prev, next, count, present, order>>
shared == <<err, need, limit, readpause, timer, woken, spos, dpos, done, asked, mq, npos, reading>>
udvars == <<kind, st, closing, closewait, armed, wl, wlbytes, ops, ev, kerr, rx, arrived, sent,
            failed, umq, fd, uerr, co, stash, stash_bytes, utimer, uwoken, got, abort>>

\* The parts in three groups, to say what a step of one leaves alone.
threads == <<vars, movars, lovars>>
containers == <<buvars, quvars, livars>>
sockets == <<open, pc, server, shared, udvars>>
mcvars == <<part, threads, containers, sockets>>

\* Only the part of a behaviour has its choice of initial states.
MCInit ==
  /\ part \in {"channel", "monitor", "log", "buffer", "queue", "list",
               "tcp", "tls", "udp"}
  /\ Init /\ Mo!Init /\ Lo!LogInit
  /\ Co!BufferInit /\ Co!QueueInit /\ Co!ListInit
  /\ IF part = "tls" THEN Tl!Init /\ open = FALSE ELSE Tc!Init /\ pc = "closed" /\ server = FALSE
  /\ Ud!Init /\ (part # "udp" => kind = "bind")

Channel(A) ==
  part = "channel" /\ A /\ UNCHANGED <<part, movars, lovars, containers, sockets>>
Monitor(A) ==
  part = "monitor" /\ A /\ UNCHANGED <<part, vars, lovars, containers, sockets>>
TcpPart(A) == part = "tcp" /\ A /\ UNCHANGED <<part, threads, containers, pc, server, udvars>>
TlsPart(A) == part = "tls" /\ A /\ UNCHANGED <<part, threads, containers, open, udvars>>

MCNext ==
  \/ Channel(Next)
  \/ Monitor(Mo!Next)
  \/ TcpPart(Tc!Next)
  \/ TlsPart(Tl!Next)
  \/ part = "log" /\ Lo!LogNext /\ UNCHANGED <<part, vars, movars, containers, sockets>>
  \/ part = "buffer" /\ Co!BufferNext /\ UNCHANGED <<part, threads, quvars, livars, sockets>>
  \/ part = "queue" /\ Co!QueueNext /\ UNCHANGED <<part, threads, buvars, livars, sockets>>
  \/ part = "list" /\ Co!ListNext /\ UNCHANGED <<part, threads, buvars, quvars, sockets>>
  \/ part = "udp" /\ Ud!Next /\ UNCHANGED <<part, threads, containers, open, pc, server, shared>>

\* The fairness of each part: its threads keep running, and a stream's peer sends what it
\* has and closes; producers of operations and tasks of the user need not do anything.
MCFairSpec ==
  /\ MCInit /\ [][MCNext]_mcvars
  /\ \A p \in Producers : WF_mcvars(Channel(Fire(p)))
  /\ WF_mcvars(Channel(WakePipe)) /\ WF_mcvars(Channel(Consume))
  /\ WF_mcvars(Monitor(Mo!MarkFlag \/ Mo!MarkKill))
  /\ WF_mcvars(Monitor(Mo!Handler)) /\ WF_mcvars(Monitor(Mo!WarnHook))
  /\ WF_mcvars(TcpPart(Tc!Worker)) /\ WF_mcvars(TcpPart(Tc!SocketThread))
  /\ WF_mcvars(TlsPart(Tl!Worker)) /\ WF_mcvars(TlsPart(Tl!SocketThread))

-----------------------------------------------------------------------------
\* The worker is marked only if it dispatched nothing between two checks, and every mark
\* is followed by a logged call stack once Lua code runs, however the flag and the signal
\* of two marks, or a user's signal, are interleaved (monitor.c, worker.c).
MonitorExact == []Mo!TypeOK /\ Mo!OnlyStuckIsMarked /\ Mo!MarkIsReported
\* The byte buffer, the queue and the list are what their interfaces promise: a queue of
\* bytes that misses no line, a queue of values, a list of distinct values; and the
\* references they keep are those of what they hold (lbuffer.c, lqueue.c, list.lua).
ContainersExact ==
  /\ part = "buffer" => Co!BufferExact
  /\ part = "queue" => Co!QueueExact
  /\ part = "list" => Co!ListExact
\* A read, or a handshake, comes back, unless what it waits for exceeds the limit
\* (EVENT, read_timer, close of tcp.lua and tls.lua).
ReadReturns == /\ (part = "tcp" /\ Tc!Waiting) ~> (~Tc!Waiting \/ readpause)
               /\ (part = "tls" /\ Tl!Waiting) ~> (~Tl!Waiting \/ readpause)
\* Every operation that was pushed is carried out (op_push, op_process of socket.c), and
\* every read and handshake comes back.
RuntimeProgress == OpsCarriedOut /\ ReadReturns
=============================================================================
