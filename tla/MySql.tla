------------------------------- MODULE MySql -------------------------------
(***************************************************************************)
(* mysql.lua: a pool of connections that tasks take, use for a query, a    *)
(* ping or a transaction, and give back.  A connection that is made logs   *)
(* in first.  An exchange is a packet written and the server's answer      *)
(* read; the connection may be lost at any time.  Times are abstracted to  *)
(* "too old".                                                              *)
(***************************************************************************)
EXTENDS Integers, Sequences, SequencesExt, FiniteSets, FiniteSetsExt
CONSTANTS Users, MaxOps, MaxConns,
          MaxOpen,   \* max_open_conns (0: no limit)
          MaxIdle    \* max_idle_conns

VARIABLES pool,      \* [open, idle, wait, closed]
          conns,     \* connection -> [fd, broken, auto, lost, old, due, stmt]
          user       \* task -> [pc, op, c, n, ok]

mysqlvars == <<pool, conns, user>>

(* A connection as conn_new makes it; due: the task whose answer is still to be read (0: none);
   stmt: the statement is in the cache. *)
Fresh == [fd |-> TRUE, broken |-> TRUE, auto |-> TRUE, lost |-> FALSE, old |-> FALSE, due |-> 0,
          stmt |-> FALSE]
NoConn == [Fresh EXCEPT !.fd = FALSE]
Init == /\ pool = [open |-> 0, idle |-> <<>>, wait |-> <<>>, closed |-> FALSE]
        /\ conns = [c \in 1..MaxConns |-> NoConn]
        /\ user = [u \in Users |-> [pc |-> "idle", op |-> "query", c |-> 0, n |-> 0]]

(* A task that has just got a connection goes on to use it at once; a message is handled when no
   task is ready. *)
Between == \A u \in Users : user[u].pc \notin {"use", "close"}
Settled == Between /\ \A u \in Users : user[u].pc # "woken"
To(u, pc) == [user EXCEPT ![u].pc = pc]
Close(cs, set) == [c \in DOMAIN cs |-> IF c \in set THEN NoConn ELSE cs[c]]

(* conn_new: the youngest idle connection that is not too old (the older ones are closed), a place
   in the queue when the limit is reached, or a new connection. *)
conn_new(u, op) ==
  LET usable == {i \in 1..Len(pool.idle) : ~conns[pool.idle[i]].old}
      k == IF usable = {} THEN 0 ELSE CHOOSE i \in usable : \A j \in usable : j <= i
      expired == {pool.idle[i] : i \in k+1..Len(pool.idle)}
      me == [user[u] EXCEPT !.op = op, !.n = @ + 1, !.c = 0]
  IN /\ conns' = Close(conns, expired)
     /\ IF k > 0
        THEN /\ pool' = [pool EXCEPT !.idle = SubSeq(@, 1, k - 1)]
             /\ user' = [user EXCEPT ![u] = [me EXCEPT !.pc = "use", !.c = pool.idle[k]]]
        ELSE IF MaxOpen > 0 /\ pool.open >= MaxOpen
        THEN /\ pool' = [pool EXCEPT !.idle = <<>>, !.wait = Append(@, u)]
             /\ user' = [user EXCEPT ![u] = [me EXCEPT !.pc = "wait"]]
        ELSE /\ pool' = [pool EXCEPT !.idle = <<>>, !.open = @ + 1]
             /\ user' = [user EXCEPT ![u] = [me EXCEPT !.pc = "connecting"]]

(* pool_query, which looks at is_closed; pool_ping and pool_begin, which do not. *)
Start(u, op) ==
  /\ Between /\ user[u].pc = "idle" /\ MapThenSumSet(LAMBDA v : user[v].n, Users) < MaxOps
  /\ op = "query" => ~pool.closed
  /\ conn_new(u, op)

(* The task is woken: with a connection it uses that, without one it makes one. *)
Woken(u) ==
  /\ Between /\ user[u].pc = "woken"
  /\ IF user[u].c # 0 THEN user' = To(u, "use") /\ UNCHANGED pool
     ELSE user' = To(u, "connecting") /\ pool' = [pool EXCEPT !.open = @ + 1]
  /\ UNCHANGED conns

ConnectFails(u) ==
  /\ Settled /\ user[u].pc = "connecting"
  /\ pool' = [pool EXCEPT !.open = @ - 1] /\ user' = To(u, "idle") /\ UNCHANGED conns

Connected(u, c) ==
  /\ Settled /\ user[u].pc = "connecting" /\ ~conns[c].fd
  /\ \A d \in 1..c-1 : conns[d].fd
  /\ conns' = [conns EXCEPT ![c] = Fresh] /\ user' = [user EXCEPT ![u].pc = "hello", ![u].c = c]
  /\ UNCHANGED pool

(* _mysql_login, packet by packet.  Each entry: what the server may send in that stage and where it
   leads; anything else, or a lost connection, fails the login. *)
Greeting == [hello |-> {"auth"}]
AuthSwitch == [auth |-> {"switched", "final", "key256"}, key256 |-> {"final", "ok256"}]
CachingSha2 == [auth |-> {"fast", "fullkey", "key"}, switched |-> {"fast", "fullkey", "key"},
                fullkey |-> {"final"}, key |-> {"final"}]
Verdict == [auth |-> {"ok"}, switched |-> {"ok"}, fast |-> {"ok"}, final |-> {"ok"}]
Leads(table, stage) == IF stage \in DOMAIN table THEN table[stage] ELSE {}
Stages == {"hello", "auth", "key256", "switched", "fast", "fullkey", "key", "final"}
After(stage) == UNION {Leads(t, stage) : t \in {Greeting, AuthSwitch, CachingSha2, Verdict}}

(* The answer of the server ends the login, or asks for the next packet.  An OK in place of the
   public key of sha256_password leaves is_broken set. *)
Login(u, next) ==
  /\ Settled /\ user[u].pc \in Stages /\ next \in After(user[u].pc)
  /\ conns' = [conns EXCEPT ![user[u].c].broken = (next # "ok")]
  /\ user' = To(u, IF next \in {"ok", "ok256"} THEN "use" ELSE next)
  /\ UNCHANGED pool

LoginFails(u) ==
  /\ Settled /\ user[u].pc \in Stages
  /\ conns' = [conns EXCEPT ![user[u].c].broken = TRUE]
  /\ user' = To(u, "close") /\ UNCHANGED pool

(* A request is written on the task's connection: a ping, a query (a statement that is not cached is prepared first),
   BEGIN, COMMIT or ROLLBACK. *)
Ask(u, pc) ==
  /\ conns' = [conns EXCEPT ![user[u].c].due = u]
  /\ user' = To(u, pc) /\ UNCHANGED pool

Use(u) ==
  /\ user[u].pc = "use"
  /\ Ask(u, CASE user[u].op = "begin" -> "begin"
              [] user[u].op = "query" /\ ~conns[user[u].c].stmt -> "prepare"
              [] OTHER -> "execute")

(* A write fails: the connection is broken. *)
WriteFails(u) ==
  /\ user[u].pc = "use" /\ conns[user[u].c].lost
  /\ conns' = [conns EXCEPT ![user[u].c].broken = TRUE]
  /\ user' = To(u, "close") /\ UNCHANGED pool

Asking == {"prepare", "execute", "begin", "txquery", "end", "undo"}

(* conn_query, pool_begin and conn_close_transaction go on with the answer. *)
Answered(u, c, err) ==
  CASE user[u].pc = "prepare" /\ ~err ->
         /\ conns' = [conns EXCEPT ![c].stmt = TRUE] /\ user' = To(u, "execute") /\ UNCHANGED pool
    [] user[u].pc = "begin" /\ ~err ->
         /\ conns' = [conns EXCEPT ![c].due = 0, ![c].auto = FALSE] /\ user' = To(u, "tx") /\ UNCHANGED pool
    [] user[u].pc \in {"txquery", "end"} ->
         /\ conns' = [conns EXCEPT ![c].due = 0] /\ user' = To(u, "tx") /\ UNCHANGED pool
    [] OTHER -> /\ conns' = [conns EXCEPT ![c].due = 0] /\ user' = To(u, "close") /\ UNCHANGED pool

(* read_packet returns the answer, a result or an error of the server. *)
Answer(u, err) ==
  LET c == user[u].c
  IN /\ Settled /\ user[u].pc \in Asking
     /\ Answered(u, c, err)

(* read_packet fails: the connection is marked broken. *)
Broken(c) == [conns EXCEPT ![c].broken = TRUE]

ReadFails(u) ==
  LET c == user[u].c
  IN /\ Settled /\ user[u].pc \in Asking /\ conns[c].lost
     /\ conns' = Broken(c)
     /\ user' = To(u, IF user[u].pc \in {"txquery", "end"} THEN "tx" ELSE "close") /\ UNCHANGED pool

(* The user of a transaction queries, commits or rolls back, or closes it. *)
TxQuery(u) == Between /\ user[u].pc = "tx" /\ ~conns[user[u].c].broken /\ Ask(u, "txquery")
conn_close_transaction(u, pc) ==
  /\ conns' = [conns EXCEPT ![user[u].c].auto = TRUE, ![user[u].c].due = u]
  /\ user' = To(u, pc) /\ UNCHANGED pool
TxEnd(u) == Between /\ user[u].pc = "tx" /\ ~conns[user[u].c].auto /\ conn_close_transaction(u, "end")


(* conn_close of a transaction that is open rolls it back first. *)
TxClose(u) ==
  /\ Between /\ user[u].pc = "tx"
  /\ IF conns[user[u].c].auto THEN user' = To(u, "close") /\ UNCHANGED <<pool, conns>>
     ELSE conn_close_transaction(u, "undo")

(* conn_close: to the task that waited least, to the idle ones, or closed. *)
conn_close(u) ==
  LET c == user[u].c
      done == [user EXCEPT ![u].pc = "idle", ![u].c = 0]
      keep == ~pool.closed /\ ~conns[c].broken
  IN /\ user[u].pc = "close"
     /\ IF keep /\ pool.wait # <<>>
        THEN /\ user' = [done EXCEPT ![Last(pool.wait)].pc = "woken", ![Last(pool.wait)].c = c]
             /\ pool' = [pool EXCEPT !.wait = Front(@)] /\ UNCHANGED conns
        ELSE IF keep /\ Len(pool.idle) < MaxIdle
        THEN user' = done /\ pool' = [pool EXCEPT !.idle = Append(@, c)] /\ UNCHANGED conns
        ELSE user' = done /\ pool' = [pool EXCEPT !.open = @ - 1] /\ conns' = Close(conns, {c})

(* pool_clear: the idle connections that are too old are closed. *)
pool_clear ==
  LET old == {c \in ToSet(pool.idle) : conns[c].old}
  IN /\ Settled /\ ~pool.closed /\ old # {}
     /\ conns' = Close(conns, old)
     /\ pool' = [pool EXCEPT !.idle = SelectSeq(@, LAMBDA c : c \notin old)] /\ UNCHANGED user

(* pool_close: the idle connections are closed and the tasks that wait are woken. *)
pool_close ==
  /\ Between /\ ~pool.closed
  /\ conns' = Close(conns, ToSet(pool.idle))
  /\ pool' = [pool EXCEPT !.closed = TRUE, !.idle = <<>>, !.wait = <<>>]
  /\ user' = [u \in Users |-> IF u \in ToSet(pool.wait) THEN [user[u] EXCEPT !.pc = "woken"] ELSE user[u]]

(* Time passes for an idle connection; the server or the network drops one. *)
Age(c) ==
  /\ c \in ToSet(pool.idle) /\ ~conns[c].old
  /\ conns' = [conns EXCEPT ![c].old = TRUE] /\ UNCHANGED <<pool, user>>
Lose(c) ==
  /\ conns[c].fd /\ ~conns[c].lost
  /\ conns' = [conns EXCEPT ![c].lost = TRUE] /\ UNCHANGED <<pool, user>>

Next == \/ \E u \in Users : \/ \E op \in {"query", "ping", "begin"} : Start(u, op)
                            \/ Woken(u) \/ ConnectFails(u) \/ LoginFails(u) \/ Use(u) \/ WriteFails(u)
                            \/ \E c \in 1..MaxConns : Connected(u, c)
                            \/ \E next \in Stages \cup {"ok", "ok256"} : Login(u, next)
                            \/ \E err \in BOOLEAN : Answer(u, err)
                            \/ ReadFails(u) \/ TxQuery(u) \/ TxEnd(u) \/ TxClose(u) \/ conn_close(u)
        \/ \E c \in 1..MaxConns : Age(c) \/ Lose(c)
        \/ pool_clear \/ pool_close
Spec == Init /\ [][Next]_mysqlvars
-----------------------------------------------------------------------------
Holds(u) == user[u].c

(* A connection has one user, or is idle once; an idle or handed over connection is logged in, is
   not in a transaction and has no answer left unread from the user before. *)
ConnsApart ==
  /\ \A u, v \in Users : u # v /\ Holds(u) # 0 => Holds(u) # Holds(v)
  /\ \A i, j \in 1..Len(pool.idle) : i # j => pool.idle[i] # pool.idle[j]
  /\ \A u \in Users : Holds(u) \notin ToSet(pool.idle)
  /\ \A c \in ToSet(pool.idle) \cup {user[u].c : u \in {v \in Users : user[v].pc = "woken"}} :
       c # 0 => /\ conns[c].fd /\ ~conns[c].broken
                /\ conns[c].auto /\ conns[c].due = 0
  /\ \A u \in Users : user[u].pc \in Asking => conns[user[u].c].due = u

(* Every connection that is open has a user or is idle, none is forgotten; there are never more
   than the pool counts, nor, until it is closed, more than the limit; a closed pool keeps none idle. *)
PoolCounted ==
  LET live == {c \in 1..MaxConns : conns[c].fd}
      connecting == {u \in Users : user[u].pc = "connecting"}
  IN /\ live = ToSet(pool.idle) \cup {Holds(u) : u \in {v \in Users : Holds(v) # 0}}
     /\ Cardinality(live) + Cardinality(connecting) <= pool.open
     /\ MaxOpen > 0 /\ ~pool.closed => pool.open <= MaxOpen
     /\ pool.closed => pool.idle = <<>>
     /\ Len(pool.idle) <= MaxIdle

=============================================================================
