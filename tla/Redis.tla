------------------------------- MODULE Redis -------------------------------
(***************************************************************************)
(* redis.lua: many tasks share one connection.  Each writes its command at *)
(* once; the answers come in the order of the commands, and the tasks read *)
(* them in that order by handing the role of reader (readco) down a queue. *)
(* A connection may break at any point; answers that arrived are read.     *)
(***************************************************************************)
EXTENDS Integers, Sequences, SequencesExt, FiniteSets
CONSTANTS Tasks, MaxCommands, MaxSocks

VARIABLES sock, readco, waitq, closed,  \* the fields of the client (0: false)
          socks,       \* socket -> its state, commands to answer, answers to read
          rlockq,      \* connect_lock of the client: the owner and the tasks in line
          rtask        \* task -> where its command stands

redisvars == <<sock, readco, waitq, closed, socks, rlockq, rtask>>

Free == [pc |-> "idle", n |-> 0, left |-> 0, len |-> 0, s |-> 0, res |-> <<>>, failed |-> FALSE]
Init == /\ sock = 0 /\ readco = 0 /\ waitq = <<>> /\ closed = FALSE
        /\ socks = [s \in 1..MaxSocks |-> [st |-> "none", cmds |-> <<>>, answers |-> <<>>]]
        /\ rlockq = <<>> /\ rtask = [t \in Tasks |-> Free]

(* A message is handled once the tasks that are ready have run: also the reader of a socket that
   was closed under it. *)
Settled == \A t \in Tasks :
  /\ rtask[t].pc \notin {"run", "granted", "reader", "failed"}
  /\ rtask[t].pc = "reading" => socks[rtask[t].s].st # "shut"
Between == \A t \in Tasks : rtask[t].pc # "run"
Set(t, pc) == [rtask EXCEPT ![t].pc = pc]

Shut(s) == IF s = 0 THEN socks ELSE [socks EXCEPT ![s] = [st |-> "shut", cmds |-> <<>>, answers |-> <<>>]]

(* A command (len 1) or a pipeline (len 2) up to the socket: the one there is, or connect's lock. *)
Command(t, len) ==
  /\ Between /\ rtask[t].pc = "idle" /\ rtask[t].n < MaxCommands
  /\ LET me == [Free EXCEPT !.n = rtask[t].n + 1, !.len = len, !.left = len] IN
     IF sock # 0
     THEN rtask' = [rtask EXCEPT ![t] = [me EXCEPT !.pc = "run", !.s = sock]] /\ UNCHANGED rlockq
     ELSE /\ rtask' = [rtask EXCEPT ![t] = [me EXCEPT !.pc = IF rlockq = <<>> THEN "granted" ELSE "line"]]
          /\ rlockq' = Append(rlockq, t)
  /\ UNCHANGED <<sock, readco, waitq, closed, socks>>

Unlock(ts) ==
  /\ rlockq' = Tail(rlockq)
  /\ rtask' = IF Len(rlockq) > 1 THEN [ts EXCEPT ![rlockq[2]].pc = "granted"] ELSE ts

(* connect_to_redis with the lock: another task may have connected, or the client been closed. *)
Granted(t) ==
  /\ Between /\ rtask[t].pc = "granted"
  /\ IF sock # 0 THEN Unlock([rtask EXCEPT ![t].pc = "run", ![t].s = sock])
     ELSE IF closed THEN Unlock([rtask EXCEPT ![t].pc = "idle", ![t].failed = TRUE])
     ELSE rtask' = Set(t, "connecting") /\ UNCHANGED rlockq
  /\ UNCHANGED <<sock, readco, waitq, closed, socks>>

(* tcp.connect, AUTH or SELECT fails, and the socket, if any, is closed. *)
ConnectFails(t) ==
  /\ Settled /\ rtask[t].pc = "connecting"
  /\ Unlock([rtask EXCEPT ![t].pc = "idle", ![t].failed = TRUE])
  /\ UNCHANGED <<sock, readco, waitq, closed, socks>>

(* connect_to_redis returns a socket, which becomes that of the client. *)
Connected(t, s) ==
  /\ Settled /\ rtask[t].pc = "connecting"
  /\ socks[s].st = "none" /\ \A r \in 1..s-1 : socks[r].st # "none"
  /\ socks' = [socks EXCEPT ![s].st = "up"] /\ sock' = s
  /\ Unlock([rtask EXCEPT ![t].pc = "run", ![t].s = s])
  /\ UNCHANGED <<readco, waitq, closed>>

(* (fault) a task that finds a reader does not queue behind the others *)
Queued_Front(q, t) == <<t>> \o q

Queued(q, t) == Append(q, t)

(* compose, or composetable for each command of a pipeline. *)
Composed(t) == [i \in 1..rtask[t].len |-> <<t, rtask[t].n>>]

(* The command is written and wait_for_read entered: the task reads, or queues behind the reader.
   A socket that broke may still take the data. *)
Write(t) ==
  LET s == rtask[t].s
  IN /\ rtask[t].pc = "run"
     /\ socks' = IF socks[s].st = "up"
                 THEN [socks EXCEPT ![s].cmds = @ \o Composed(t)] ELSE socks
     /\ IF readco # 0 THEN rtask' = Set(t, "queued") /\ waitq' = Queued(waitq, t) /\ UNCHANGED readco
        ELSE rtask' = Set(t, "reading") /\ readco' = t /\ UNCHANGED waitq
     /\ UNCHANGED <<sock, closed, rlockq>>

(* The write fails.  A command closes the socket and then raises, since it is not the reader; a
   pipeline returns the error. *)
WriteFails(t) ==
  /\ rtask[t].pc = "run" /\ socks[rtask[t].s].st # "up"
  /\ rtask' = [rtask EXCEPT ![t].pc = "idle", ![t].failed = TRUE]
  /\ IF rtask[t].len = 1 THEN socks' = Shut(sock) /\ sock' = 0 ELSE UNCHANGED <<socks, sock>>
  /\ UNCHANGED <<readco, waitq, closed, rlockq>>

(* A task is woken by the reader before it: it is the reader now. *)
Reader(t) ==
  /\ Between /\ rtask[t].pc = "reader"
  /\ rtask' = Set(t, "reading")
  /\ UNCHANGED <<sock, readco, waitq, closed, socks, rlockq>>

(* ... or by close_socket, with the error. *)
Failed(t) ==
  /\ Between /\ rtask[t].pc = "failed"
  /\ rtask' = [rtask EXCEPT ![t].pc = "idle", ![t].failed = TRUE]
  /\ UNCHANGED <<sock, readco, waitq, closed, socks, rlockq>>

wakeup_next_reader(ts) ==
  IF waitq = <<>> THEN rtask' = ts /\ readco' = 0 /\ UNCHANGED waitq
  ELSE /\ rtask' = [ts EXCEPT ![Head(waitq)].pc = "reader"]
       /\ readco' = Head(waitq) /\ waitq' = Tail(waitq)

(* read_response returns an answer; after the last one the next task becomes the reader. *)
ReadAnswer(t) ==
  LET s == rtask[t].s
      got == [rtask EXCEPT ![t].res = Append(@, Head(socks[s].answers)), ![t].left = @ - 1]
  IN /\ Between /\ rtask[t].pc = "reading" /\ socks[s].answers # <<>>
     /\ socks' = [socks EXCEPT ![s].answers = Tail(@)]
     /\ IF rtask[t].left > 1 THEN rtask' = got /\ UNCHANGED <<readco, waitq>>
        ELSE wakeup_next_reader([got EXCEPT ![t].pc = "idle"])
     /\ UNCHANGED <<sock, closed, rlockq>>

WakeAll(ts) == [t \in Tasks |-> IF t \in ToSet(waitq) THEN [ts[t] EXCEPT !.pc = "failed"] ELSE ts[t]]

(* read_response fails: close_socket closes the client's socket and wakes every task in the queue. *)
ReadFails(t) ==
  LET s == rtask[t].s
  IN /\ Between /\ rtask[t].pc = "reading" /\ socks[s].st # "up" /\ socks[s].answers = <<>>
     /\ socks' = Shut(sock) /\ sock' = 0 /\ readco' = 0 /\ waitq' = <<>>
     /\ rtask' = WakeAll([rtask EXCEPT ![t].pc = "idle", ![t].failed = TRUE])
     /\ UNCHANGED <<closed, rlockq>>

(* redis:close *)
Close ==
  /\ Between /\ ~closed
  /\ socks' = Shut(sock) /\ sock' = 0 /\ closed' = TRUE
  /\ UNCHANGED <<readco, waitq, rlockq, rtask>>

(* The server answers in order; the connection breaks and loses answers from some point on. *)
Answer(s) ==
  /\ socks[s].cmds # <<>>
  /\ socks' = [socks EXCEPT ![s].cmds = Tail(@), ![s].answers = Append(@, Head(socks[s].cmds))]
  /\ UNCHANGED <<sock, readco, waitq, closed, rlockq, rtask>>

Break(s, n) ==
  /\ socks[s].st = "up"
  /\ socks' = [socks EXCEPT ![s] = [st |-> "down", cmds |-> <<>>, answers |-> SubSeq(@.answers, 1, n)]]
  /\ UNCHANGED <<sock, readco, waitq, closed, rlockq, rtask>>

TaskSteps == \E t \in Tasks : \/ Granted(t) \/ ConnectFails(t) \/ Write(t) \/ Reader(t) \/ Failed(t)
                              \/ ReadAnswer(t) \/ ReadFails(t)
Server == \E s \in 1..MaxSocks : Answer(s)
Environment == \/ \E t \in Tasks : \/ \E len \in 1..2 : Command(t, len)
                                   \/ \E s \in 1..MaxSocks : Connected(t, s)
                                   \/ WriteFails(t)
               \/ \E s \in 1..MaxSocks : \E n \in 0..Len(socks[s].answers) : Break(s, n)
               \/ Close
Next == TaskSteps \/ Server \/ Environment
Spec == Init /\ [][Next]_redisvars /\ WF_redisvars(TaskSteps) /\ WF_redisvars(Server)
-----------------------------------------------------------------------------
(* A task is given the answers to its own commands, in full when it returns without an error. *)
OwnAnswers ==
  \A t \in Tasks : LET r == rtask[t] IN
    /\ \A i \in 1..Len(r.res) : r.res[i] = <<t, r.n>>
    /\ r.pc = "idle" /\ r.n > 0 /\ ~r.failed => Len(r.res) = r.len

(* There is a reader as long as a task waits for its turn, the reader is awake or reads, and the
   answers outstanding on the socket are those of the reader and then of the queue, in order. *)
ReaderExact ==
  /\ readco = 0 => waitq = <<>>
  /\ \A t \in Tasks : rtask[t].pc \in {"reading", "reader"} <=> readco = t
  /\ \A t \in Tasks : rtask[t].pc = "queued" <=> t \in ToSet(waitq)
  /\ sock # 0 /\ socks[sock].st = "up" /\ readco # 0 =>
       LET out == socks[sock].answers \o socks[sock].cmds
           line == <<readco>> \o waitq
           Due(t) == [i \in 1..rtask[t].left |-> <<t, rtask[t].n>>]
       IN out = FlattenSeq([i \in 1..Len(line) |-> Due(line[i])])

RedisExact == OwnAnswers /\ ReaderExact

(* A command returns when the server answers or the connection breaks; no task is left in the queue. *)
CommandsReturn == \A t \in Tasks : rtask[t].pc # "idle" ~> rtask[t].pc = "idle"
=============================================================================
