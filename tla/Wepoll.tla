------------------------------- MODULE Wepoll -------------------------------
(***************************************************************************)
(* epoll for Windows (wepoll.c): ports, sockets, poll groups and threads,  *)
(* and the tree that finds a socket by its handle.                         *)
(***************************************************************************)
EXTENDS Integers, Sequences, SequencesExt, FiniteSets, FiniteSetsExt

(***************************************************************************)
(* wepoll.c: epoll on top of Windows' AFD driver and a completion port.    *)
(* One port; thread "main" changes the interest list, waits and closes the *)
(* port, as the socket thread of silly does, "other" only waits.  A        *)
(* section under the port's lock is one step; the lock is given up while a *)
(* thread waits for completions.  The driver completes polls at any time.  *)
(* Of the event flags, EPOLLIN and EPOLLRDNORM count as IN, EPOLLOUT and   *)
(* its variants as OUT; sockets are found as in WepollTree.                *)
(***************************************************************************)
CONSTANTS Sockets,          \* SOCKET handles
          Interests,        \* sets of epoll events the user asks for
          Conditions,       \* what the driver can see at a socket, of RECEIVE, SEND, DISCONNECT,
                            \* ABORT and CONNECT_FAIL
          MAX_GROUP_SIZE,   \* POLL_GROUP__MAX_GROUP_SIZE
          MaxEvents,        \* the room a caller of epoll_wait has
          MaxStates,        \* bound: sock_states alive at a time
          MaxCtl, MaxReady, MaxFaults  \* bounds: calls, kernel changes, sockets closed or failing

VARIABLES port,    \* "none", "open", "closed" (no completion port any more), "freed"
          listed,  \* it is in epoll__handle_tree
          refs,    \* the reflock: references, and whether it is being destroyed
          destroy,
          obj,     \* sock_states: 1..MaxStates -> record or Free
          updq, delq,  \* sock_update_queue, sock_deleted_queue
          groups,  \* poll_group_queue: a sequence of group ids
          size,    \* group id -> group_size
          active,  \* active_poll_count
          pc, batch, \* of each thread: where it is, the completions it took
          ready, alive,  \* the kernel: what holds at a socket, whether it is open
          op, iocp,  \* the driver: the poll of a sock_state; the completions that are queued
          spent,     \* how often each bounded event happened
          asked,     \* what the user's calls last asked for each socket and was not told once
          wrong      \* an event was reported that was not asked for
vars == <<port, listed, refs, destroy, obj, updq, delq, groups, size, active, pc, batch,
          ready, alive, op, iocp, spent, asked, wrong>>

Threads == {"main", "other"}
Ids == 1..MaxStates
Groups == 1..MaxStates
Free == [sock |-> 0]
Known == {"IN", "OUT", "RDHUP", "ERR", "HUP"}   \* SOCK__KNOWN_EPOLL_EVENTS
None == [state |-> "none", events |-> {}]

Live == {o \in Ids : obj[o] # Free}
Registered(s) == {o \in Live : obj[o].sock = s /\ ~obj[o].delete_pending}

\* Everything the lock protects, and the driver's polls, as one record for the helpers.
Port == [obj |-> obj, updq |-> updq, delq |-> delq, groups |-> groups, size |-> size, op |-> op,
         asked |-> asked]
SetPort(P) == /\ obj' = P.obj /\ updq' = P.updq /\ delq' = P.delq
              /\ groups' = P.groups /\ size' = P.size /\ op' = P.op

(* queue_remove, queue_move_to_start and queue_move_to_end *)
queue_remove(q, n) == SelectSeq(q, LAMBDA m : m # n)
queue_move_to_start(q, n) == <<n>> \o queue_remove(q, n)
queue_move_to_end(q, n) == Append(queue_remove(q, n), n)

(* poll_group_acquire, with poll_group__new; the group is the last of the queue or a new one. *)
PickGroup(P) == IF P.groups # <<>> /\ P.size[Last(P.groups)] < MAX_GROUP_SIZE
                THEN Last(P.groups) ELSE CHOOSE g \in Groups : g \notin ToSet(P.groups)
poll_group_acquire(P) ==
  LET g == PickGroup(P)
      q == IF g \in ToSet(P.groups) THEN P.groups ELSE Append(P.groups, g)
  IN [P EXCEPT !.size[g] = @ + 1,
               !.groups = IF P.size[g] + 1 = MAX_GROUP_SIZE THEN queue_move_to_start(q, g) ELSE q]

poll_group_release(P, g) ==
  [P EXCEPT !.size[g] = @ - 1, !.groups = queue_move_to_end(P.groups, g)]

(* port_request_socket_update, port_cancel_socket_update *)
port_request_socket_update(P, o) ==
  IF o \in ToSet(P.updq) THEN P ELSE [P EXCEPT !.updq = Append(@, o)]
port_cancel_socket_update(P, o) == [P EXCEPT !.updq = queue_remove(@, o)]

(* afd_cancel_poll: a poll that is still pending will complete as cancelled. *)
afd_cancel_poll(P, o) ==
  IF P.op[o].state = "pending" THEN [P EXCEPT !.op[o].state = "cancelled"] ELSE P

sock__cancel_poll(P, o) ==
  [afd_cancel_poll(P, o) EXCEPT !.obj[o].poll_status = "CANCELLED", !.obj[o].pending_events = {}]

\* (fault) a poll that was cancelled is taken for one that is over
sock__delete_Cancelled(P, o, force) ==
  LET first == ~P.obj[o].delete_pending
      a == IF first /\ P.obj[o].poll_status = "PENDING" THEN sock__cancel_poll(P, o) ELSE P
      b == IF first THEN [port_cancel_socket_update(a, o) EXCEPT !.obj[o].delete_pending = TRUE]
           ELSE a
  IN IF force \/ b.obj[o].poll_status # "PENDING"
     THEN [poll_group_release(b, b.obj[o].group) EXCEPT !.obj[o] = Free,
                                                        !.delq = queue_remove(@, o)]
     ELSE IF o \in ToSet(b.delq) THEN b ELSE [b EXCEPT !.delq = Append(@, o)]

(* sock__delete: freed now if no poll is under way (or by force), else queued to be freed. *)
sock__delete(P, o, force) ==
  LET first == ~P.obj[o].delete_pending
      a == IF first /\ P.obj[o].poll_status = "PENDING" THEN sock__cancel_poll(P, o) ELSE P
      b == IF first THEN [port_cancel_socket_update(a, o) EXCEPT !.obj[o].delete_pending = TRUE]
           ELSE a
  IN IF force \/ b.obj[o].poll_status = "IDLE"
     THEN [poll_group_release(b, b.obj[o].group) EXCEPT !.obj[o] = Free,
                                                        !.delq = queue_remove(@, o)]
     ELSE IF o \in ToSet(b.delq) THEN b ELSE [b EXCEPT !.delq = Append(@, o)]

(* sock_new, for a socket that is not registered *)
sock_new(P, o, s) ==
  [poll_group_acquire(P) EXCEPT
     !.obj[o] = [sock |-> s, group |-> PickGroup(P), user_events |-> {}, pending_events |-> {},
                 poll_status |-> "IDLE", delete_pending |-> FALSE]]

sock_set_event(P, o, ev) ==
  LET events == ev \cup {"ERR", "HUP"}
      Q == [P EXCEPT !.obj[o].user_events = events]
  IN IF (events \cap Known) \ P.obj[o].pending_events # {}
     THEN port_request_socket_update(Q, o) ELSE Q

sock__epoll_events_to_afd_events(ev) ==
  {"LOCAL_CLOSE"}
    \cup (IF "IN" \in ev THEN {"RECEIVE"} ELSE {})
    \cup (IF "OUT" \in ev THEN {"SEND"} ELSE {})
    \cup (IF ev \cap {"IN", "RDHUP"} # {} THEN {"DISCONNECT"} ELSE {})
    \cup (IF "HUP" \in ev THEN {"ABORT"} ELSE {})
    \cup (IF "ERR" \in ev THEN {"CONNECT_FAIL"} ELSE {})

sock__afd_events_to_epoll_events(afd) ==
  (IF "RECEIVE" \in afd THEN {"IN"} ELSE {})
    \cup (IF "SEND" \in afd THEN {"OUT"} ELSE {})
    \cup (IF "DISCONNECT" \in afd THEN {"IN", "RDHUP"} ELSE {})
    \cup (IF "ABORT" \in afd THEN {"HUP"} ELSE {})
    \cup (IF "CONNECT_FAIL" \in afd THEN {"IN", "OUT", "ERR", "RDHUP"} ELSE {})

(* afd_poll was accepted: the driver has a poll for the events asked for. *)
afd_poll(P, o) ==
  [P EXCEPT !.op[o] = [state |-> "pending",
                       events |-> sock__epoll_events_to_afd_events(P.obj[o].user_events)]]

(* sock_update, but for the failure of afd_poll that is handed to the caller *)
sock_update(P, o) ==
  LET x == P.obj[o]
      covered == (x.user_events \cap Known) \ x.pending_events = {}
  IN IF x.poll_status = "IDLE" /\ ~alive[x.sock] THEN sock__delete(P, o, FALSE)
     ELSE port_cancel_socket_update(
            IF x.poll_status = "PENDING" THEN (IF covered THEN P ELSE sock__cancel_poll(P, o))
            ELSE IF x.poll_status = "CANCELLED" THEN P
            ELSE [afd_poll(P, o) EXCEPT !.obj[o].poll_status = "PENDING",
                                        !.obj[o].pending_events = x.user_events], o)

(* port__update_events; afd_poll fails for the sock_state bad, if it comes to that *)
RECURSIVE port__update_events(_, _)
port__update_events(P, bad) ==
  IF P.updq = <<>> \/ (Head(P.updq) = bad /\ P.obj[bad].poll_status = "IDLE") THEN P
  ELSE port__update_events(sock_update(P, Head(P.updq)), bad)

port__update_events_if_polling(P, bad, polling) ==
  IF polling > 0 THEN port__update_events(P, bad) ELSE P

(* sock_feed_event: the port after completion c, how many events it reports (and whether wrongly) *)
Feed(P, c) ==
  LET o == c.o
      Q == [P EXCEPT !.obj[o].poll_status = "IDLE", !.obj[o].pending_events = {}]
      x == Q.obj[o]
      seen == x.user_events \cap
                CASE c.status = "CANCELLED" -> {}
                  [] c.status = "FAILED" -> {"ERR"}
                  [] OTHER -> sock__afd_events_to_epoll_events(c.events)
      R == port_request_socket_update(Q, o)
  IN IF x.delete_pending \/ (c.status = "SUCCESS" /\ "LOCAL_CLOSE" \in c.events)
     THEN [port |-> sock__delete(Q, o, FALSE), count |-> 0, wrong |-> FALSE]
     ELSE [port |-> IF seen # {} /\ "ONESHOT" \in x.user_events
                    THEN [R EXCEPT !.obj[o].user_events = {}, !.asked[x.sock] = {}] ELSE R,
           count |-> IF seen = {} THEN 0 ELSE 1,
           wrong |-> ~(seen \subseteq P.asked[x.sock])]

(* port__feed_events: the completions one after the other *)
port__feed_events(P, cs) ==
  FoldLeft(LAMBDA acc, c : LET f == Feed(acc.port, c)
                           IN [port |-> f.port, count |-> acc.count + f.count,
                               wrong |-> acc.wrong \/ f.wrong],
           [port |-> P, count |-> 0, wrong |-> FALSE], cs)

Spend(what) == spent' = [spent EXCEPT ![what] = @ + 1]
\* A failing afd_poll, which uses up the bound, or none.
Bad == IF spent.closed + spent.fails < MaxFaults THEN {0} \cup ToSet(updq) ELSE {0}
Failed(bad) == IF bad = 0 THEN UNCHANGED spent ELSE Spend("fails")
-----------------------------------------------------------------------------
(* epoll_create *)
Create == /\ port = "none" /\ pc["main"] = "idle"
          /\ port' = "open" /\ listed' = TRUE
          /\ UNCHANGED <<refs, destroy, obj, updq, delq, groups, size, active, pc, batch,
                         ready, alive, op, iocp, spent, asked, wrong>>

\* epoll_ctl of main; the reference it holds meanwhile is seen by no one but itself.
CtlGuard == pc["main"] = "idle" /\ listed /\ spent.ctl < MaxCtl
CtlRest == UNCHANGED <<port, listed, refs, destroy, active, pc, batch, ready, alive, iocp, wrong>>
Asked(s, ev) == asked' = [asked EXCEPT ![s] = IF ev = {} THEN {} ELSE ev \cup {"ERR", "HUP"}]

(* EPOLL_CTL_ADD; ws_get_base_socket fails for a closed socket, the tree refuses a second one *)
CtlAdd(s, ev) ==
  /\ CtlGuard /\ alive[s] /\ Registered(s) = {} /\ Live # Ids
  /\ LET o == Min(Ids \ Live)
     IN SetPort(port__update_events_if_polling(
                  sock_set_event(sock_new(Port, o, s), o, ev), 0, active))
  /\ Asked(s, ev) /\ Spend("ctl") /\ CtlRest

(* EPOLL_CTL_MOD *)
CtlMod(s, ev) ==
  /\ CtlGuard
  /\ \E o \in Registered(s) :
       SetPort(port__update_events_if_polling(sock_set_event(Port, o, ev), 0, active))
  /\ Asked(s, ev) /\ Spend("ctl") /\ CtlRest

(* EPOLL_CTL_DEL *)
CtlDel(s) ==
  /\ CtlGuard
  /\ \E o \in Registered(s) : SetPort(sock__delete(Port, o, FALSE))
  /\ Asked(s, {}) /\ Spend("ctl") /\ CtlRest

(* epoll_wait: ts_tree_find_and_ref *)
WaitRef(t) ==
  /\ pc[t] = "idle" /\ listed
  /\ refs' = refs + 1 /\ pc' = [pc EXCEPT ![t] = "entered"]
  /\ UNCHANGED <<port, listed, destroy, obj, updq, delq, groups, size, active, batch,
                 ready, alive, op, iocp, spent, asked, wrong>>

(* The head of port__poll: polls are submitted, then the lock is given up; if that failed,
   port_wait returns, and another thread that waits has the rest submitted. *)
Poll(t, P, bad, others) ==
  LET Q == port__update_events(P, bad)
      ok == Q.updq = <<>>
  IN /\ SetPort(IF ok THEN Q ELSE port__update_events_if_polling(Q, 0, others))
     /\ active' = IF ok THEN others + 1 ELSE others
     /\ pc' = [pc EXCEPT ![t] = IF ok THEN "blocked" ELSE "leaving"]

(* port_wait up to the wait for completions *)
WaitPoll(t) ==
  /\ pc[t] = "entered"
  /\ \E bad \in Bad : Poll(t, Port, bad, active) /\ Failed(bad)
  /\ UNCHANGED <<port, listed, refs, destroy, batch, ready, alive, iocp, asked, wrong>>

(* GetQueuedCompletionStatusEx returns completions, the lock is not taken yet. *)
WaitTake(t) ==
  /\ pc[t] = "blocked" /\ port = "open" /\ iocp # <<>>
  /\ LET n == Min({MaxEvents, Len(iocp)})
     IN batch' = [batch EXCEPT ![t] = SubSeq(iocp, 1, n)] /\ iocp' = SubSeq(iocp, n + 1, Len(iocp))
  /\ pc' = [pc EXCEPT ![t] = "took"]
  /\ UNCHANGED <<port, listed, refs, destroy, obj, updq, delq, groups, size, active,
                 ready, alive, op, spent, asked, wrong>>

(* The rest of port__poll and the loop of port_wait: with nothing to report it polls again. *)
WaitFeed(t) ==
  /\ pc[t] = "took"
  /\ batch' = [batch EXCEPT ![t] = <<>>]
  /\ LET fed == port__feed_events(Port, batch[t])
     IN /\ wrong' = (wrong \/ fed.wrong) /\ asked' = fed.port.asked
        /\ IF fed.count > 0
           THEN /\ SetPort(port__update_events_if_polling(fed.port, 0, active - 1))
                /\ active' = active - 1 /\ pc' = [pc EXCEPT ![t] = "leaving"]
           ELSE Poll(t, fed.port, 0, active - 1)
  /\ UNCHANGED <<port, listed, refs, destroy, ready, alive, iocp, spent>>

(* The wait fails: the completion port was closed.  (silly waits without a timeout.) *)
WaitFail(t) ==
  /\ pc[t] = "blocked" /\ port = "closed"
  /\ SetPort(port__update_events_if_polling(Port, 0, active - 1))
  /\ active' = active - 1 /\ pc' = [pc EXCEPT ![t] = "leaving"]
  /\ UNCHANGED <<port, listed, refs, destroy, batch, ready, alive, iocp, spent, asked, wrong>>

(* reflock_unref at the end of epoll_wait; it signals a destroyer that waits *)
WaitEnd(t) ==
  /\ pc[t] = "leaving"
  /\ refs' = refs - 1 /\ pc' = [pc EXCEPT ![t] = "idle"]
  /\ UNCHANGED <<port, listed, destroy, obj, updq, delq, groups, size, active, batch,
                 ready, alive, op, iocp, spent, asked, wrong>>

(* epoll_close: ts_tree_del_and_ref, *)
CloseUnlist ==
  /\ pc["main"] = "idle" /\ listed
  /\ listed' = FALSE /\ refs' = refs + 1 /\ pc' = [pc EXCEPT !["main"] = "closing"]
  /\ UNCHANGED <<port, destroy, obj, updq, delq, groups, size, active, batch,
                 ready, alive, op, iocp, spent, asked, wrong>>

(* port_close (the completions in the port are dropped with it), *)
ClosePort ==
  /\ pc["main"] = "closing" /\ port = "open"
  /\ port' = "closed" /\ iocp' = <<>>
  /\ UNCHANGED <<listed, refs, destroy, obj, updq, delq, groups, size, active, pc, batch,
                 ready, alive, op, spent, asked, wrong>>

(* reflock_unref_and_destroy, which waits for the last reference, *)
CloseDestroy ==
  /\ pc["main"] = "closing" /\ port = "closed"
  /\ refs' = refs - 1 /\ destroy' = TRUE /\ pc' = [pc EXCEPT !["main"] = "destroying"]
  /\ UNCHANGED <<port, listed, obj, updq, delq, groups, size, active, batch,
                 ready, alive, op, iocp, spent, asked, wrong>>

(* and port_delete: the registered sockets, then those queued to be freed, then the groups. *)
CloseDelete ==
  /\ pc["main"] = "destroying" /\ refs = 0
  /\ LET Force(P, os) == FoldLeft(LAMBDA Q, o : sock__delete(Q, o, TRUE), P, os)
         P1 == Force(Port, SetToSeq({o \in Live : ~obj[o].delete_pending}))
         P2 == Force(P1, P1.delq)
     IN SetPort([P2 EXCEPT !.groups = SelectSeq(@, LAMBDA g : P2.size[g] # 0)])
  /\ port' = "freed" /\ pc' = [pc EXCEPT !["main"] = "done"]
  /\ UNCHANGED <<listed, refs, destroy, active, batch, ready, alive, iocp, spent, asked, wrong>>
-----------------------------------------------------------------------------
(* The network: a condition begins or ends to hold at a socket. *)
Change(s) ==
  /\ alive[s] /\ spent.ready < MaxReady
  /\ \E c \in Conditions : ready' = [ready EXCEPT ![s] = (@ \ {c}) \cup ({c} \ @)]
  /\ Spend("ready")
  /\ UNCHANGED <<port, listed, refs, destroy, obj, updq, delq, groups, size, active, pc, batch,
                 alive, op, iocp, asked, wrong>>

(* closesocket, whose handle may be given to a new socket: a poll that is pending sees it. *)
CloseSocket(s) ==
  /\ pc["main"] = "idle" /\ spent.closed + spent.fails < MaxFaults
  /\ alive' = [alive EXCEPT ![s] = ~@] /\ ready' = [ready EXCEPT ![s] = {}]
  /\ op' = [o \in Ids |-> IF o \in Live /\ obj[o].sock = s /\ op[o].state = "pending"
                          THEN [state |-> "dropped", events |-> {"LOCAL_CLOSE"}] ELSE op[o]]
  /\ Spend("closed")
  /\ UNCHANGED <<port, listed, refs, destroy, obj, updq, delq, groups, size, active, pc, batch,
                 iocp, asked, wrong>>

(* A poll fails in the driver. *)
Break(o) ==
  /\ port = "open" /\ op[o].state = "pending" /\ spent.closed + spent.fails < MaxFaults
  /\ iocp' = Append(iocp, [o |-> o, events |-> {}, status |-> "FAILED"])
  /\ op' = [op EXCEPT ![o] = None] /\ Spend("fails")
  /\ UNCHANGED <<port, listed, refs, destroy, obj, updq, delq, groups, size, active, pc, batch,
                 ready, alive, asked, wrong>>

(* The driver completes a poll. *)
Complete(o) ==
  /\ port = "open" /\ op[o] # None
  /\ LET hit == IF op[o].state = "pending" THEN op[o].events \cap ready[obj[o].sock] ELSE op[o].events
     IN /\ op[o].state = "pending" => hit # {}
        /\ iocp' = Append(iocp, [o |-> o, events |-> hit,
                                 status |-> IF op[o].state = "cancelled" THEN "CANCELLED" ELSE "SUCCESS"])
  /\ op' = [op EXCEPT ![o] = None]
  /\ UNCHANGED <<port, listed, refs, destroy, obj, updq, delq, groups, size, active, pc, batch,
                 ready, alive, spent, asked, wrong>>

Init ==
  /\ port = "none" /\ listed = FALSE /\ refs = 0 /\ destroy = FALSE
  /\ obj = [o \in Ids |-> Free] /\ updq = <<>> /\ delq = <<>>
  /\ groups = <<>> /\ size = [g \in Groups |-> 0] /\ active = 0
  /\ pc = [t \in Threads |-> "idle"] /\ batch = [t \in Threads |-> <<>>]
  /\ ready = [s \in Sockets |-> {}] /\ alive = [s \in Sockets |-> TRUE]
  /\ op = [o \in Ids |-> None] /\ iocp = <<>>
  /\ spent = [ctl |-> 0, ready |-> 0, closed |-> 0, fails |-> 0] 
  /\ asked = [s \in Sockets |-> {}] /\ wrong = FALSE

Wait(t) == WaitPoll(t) \/ WaitTake(t) \/ WaitFeed(t) \/ WaitFail(t) \/ WaitEnd(t)
Close == ClosePort \/ CloseDestroy \/ CloseDelete
Ctl(s) == CtlDel(s) \/ \E ev \in Interests : CtlAdd(s, ev) \/ CtlMod(s, ev)
Driver == \E o \in Ids : Complete(o) \/ Break(o)

Next ==
  \/ Create \/ CloseUnlist \/ Close \/ Driver
  \/ \E t \in Threads : WaitRef(t) \/ Wait(t)
  \/ \E s \in Sockets : Ctl(s) \/ Change(s) \/ CloseSocket(s)

Spec == Init /\ [][Next]_vars
-----------------------------------------------------------------------------
\* The polls of o under way: with the driver, in the completion port, or taken by a thread.
Outstanding(o) ==
  (IF op[o] # None THEN 1 ELSE 0)
    + Len(SelectSeq(iocp, LAMBDA c : c.o = o))
    + Cardinality({<<t, i>> \in Threads \X (1..MaxEvents) :
                     i <= Len(batch[t]) /\ batch[t][i].o = o})

(* A sock_state is freed only when no completion can name it any more, and each one whose poll
   is not idle has exactly one poll under way (sock__delete, sock_feed_event). *)
NoneFreedEarly ==
  port = "open" => \A o \in Ids :
    Outstanding(o) = IF o \in Live /\ obj[o].poll_status # "IDLE" THEN 1 ELSE 0

(* What the user asked for is polled for, or will be: the pending poll covers it, the socket is
   queued for an update, or the completion of a cancelled poll will queue it (sock_update). *)
NoInterestLost ==
  port = "open" => \A o \in Live : ~obj[o].delete_pending =>
    \/ obj[o].poll_status = "PENDING"
       /\ (obj[o].user_events \cap Known) \subseteq obj[o].pending_events
    \/ o \in ToSet(updq)
    \/ obj[o].poll_status = "CANCELLED"

(* No thread waits while a socket is queued for an update, unless a poll failed. *)
NothingHeldBack == spent.fails = 0 /\ active > 0 => updq = <<>>

(* A socket is registered once; the queues hold what they are named for, once. *)
QueuesExact ==
  /\ \A s \in Sockets : Cardinality(Registered(s)) <= 1
  /\ IsInjective(updq) /\ IsInjective(delq)
  /\ ToSet(updq) \subseteq {o \in Live : ~obj[o].delete_pending}
  /\ ToSet(delq) = {o \in Live : obj[o].delete_pending}

(* A group counts its sockets and never has more than it may, and a group with room, if there
   is one, is where poll_group_acquire looks for it. *)
GroupsExact ==
  /\ \A g \in Groups : /\ size[g] = Cardinality({o \in Live : obj[o].group = g})
                       /\ size[g] <= MAX_GROUP_SIZE
  /\ \A g \in ToSet(groups) : size[g] < MAX_GROUP_SIZE => size[Last(groups)] < MAX_GROUP_SIZE

(* The port is freed, with all it holds, when no thread is inside it (reflock). *)
PortExact ==
  /\ refs = Cardinality({t \in Threads : pc[t] \in {"entered", "blocked", "took", "leaving", "closing"}})
  /\ active = Cardinality({t \in Threads : pc[t] \in {"blocked", "took"}})
  /\ port = "freed" => refs = 0 /\ Live = {} /\ updq = <<>> /\ delq = <<>> /\ groups = <<>>

\* A condition holds at s for which the user asked to be woken.
Due(s) == \E o \in Registered(s) :
            sock__afd_events_to_epoll_events(ready[s]) \cap obj[o].user_events # {}

(* No wake-up is lost: while an event is due and a thread waits for one, a completion is in the
   port or about to be, or a thread that will poll again has it. *)
WokenWhenDue ==
  (port = "open" /\ spent.fails = 0 /\ (\E t \in Threads : pc[t] = "blocked") /\ \E s \in Sockets : Due(s))
    => \/ iocp # <<>> \/ \E t \in Threads : pc[t] = "took"
       \/ \E o \in Ids : ENABLED Complete(o)

(* An event is reported only if the last call for its socket asked for it, whichever sock_state
   it comes from, and with EPOLLONESHOT only once. *)
OnlyAsked == ~wrong

WepollExact == OnlyAsked /\ NoneFreedEarly /\ NoInterestLost /\ NothingHeldBack /\ QueuesExact
               /\ GroupsExact /\ PortExact /\ WokenWhenDue

-----------------------------------------------------------------------------
(***************************************************************************)
(* The red-black tree of wepoll.c, in which a port finds its sockets and   *)
(* the process its ports.  A node is named by its key; 0 is NULL, so that  *)
(* following a NULL pointer is an error of the model as of the code.       *)
(***************************************************************************)
CONSTANT MaxKey
VARIABLES tree,   \* root, kid[side][node], parent[node], red[node]
          held    \* the keys that were added and not deleted

Keys == 1..MaxKey
NULL == 0
Sides == {"left", "right"}
Other(side) == IF side = "left" THEN "right" ELSE "left"

(* Which child of its parent a node is, as the code asks: `parent->left == node'. *)
SideOf(t, parent, node) == IF t.kid["left"][parent] = node THEN "left" ELSE "right"

(* parent's pointer to old becomes one to new *)
Relink(t, parent, old, new) ==
  IF parent = NULL THEN [t EXCEPT !.root = new]
  ELSE [t EXCEPT !.kid[SideOf(t, parent, old)][parent] = new]

SetParent(t, node, parent) == IF node = NULL THEN t ELSE [t EXCEPT !.parent[node] = parent]
IsRed(t, node) == node # NULL /\ t.red[node]

(* TREE__ROTATE(cis, trans) *)
tree__rotate(t, p, cis) ==
  LET trans == Other(cis)
      q == t.kid[trans][p]
      parent == t.parent[p]
      mid == t.kid[cis][q]
  IN SetParent([Relink(t, parent, p, q) EXCEPT !.parent[q] = parent, !.parent[p] = q,
                                               !.kid[trans][p] = mid, !.kid[cis][q] = p], mid, p)

(* The loop of tree_add with TREE__REBALANCE_AFTER_INSERT, and the root painted black. *)
RECURSIVE RebalanceAfterInsert(_, _)
RebalanceAfterInsert(t, node) ==
  LET parent == t.parent[node] IN
  IF ~IsRed(t, parent) THEN [t EXCEPT !.red[t.root] = FALSE]
  ELSE LET grandparent == t.parent[parent]
           cis == SideOf(t, grandparent, parent)
           uncle == t.kid[Other(cis)][grandparent]
           inner == node = t.kid[Other(cis)][parent]
           turned == IF inner THEN tree__rotate(t, parent, cis) ELSE t
           low == IF inner THEN parent ELSE node
       IN IF IsRed(t, uncle)
          THEN RebalanceAfterInsert([t EXCEPT !.red[parent] = FALSE, !.red[uncle] = FALSE,
                                              !.red[grandparent] = TRUE], grandparent)
          ELSE RebalanceAfterInsert(
                 tree__rotate([turned EXCEPT !.red[turned.parent[low]] = FALSE,
                                             !.red[grandparent] = TRUE], grandparent, Other(cis)), low)

(* Where the descent of tree_add ends: the node below which key belongs, or the one with this key. *)
RECURSIVE Descend(_, _, _)
Descend(t, at, key) ==
  LET next == t.kid[IF key < at THEN "left" ELSE "right"][at]
  IN IF key = at \/ next = NULL THEN at ELSE Descend(t, next, key)

tree_add(t, key) ==
  LET parent == IF t.root = NULL THEN NULL ELSE Descend(t, t.root, key)
      linked == IF parent = NULL THEN [t EXCEPT !.root = key]
                ELSE [t EXCEPT !.kid[IF key < parent THEN "left" ELSE "right"][parent] = key]
      new == [linked EXCEPT !.kid["left"][key] = NULL, !.kid["right"][key] = NULL,
                            !.parent[key] = parent, !.red[key] = TRUE]
  IN IF parent = key THEN t ELSE RebalanceAfterInsert(new, key)

(* The loop of tree_del with TREE__REBALANCE_AFTER_REMOVE: node (NULL or black) is one black short. *)
RECURSIVE RebalanceAfterRemove(_, _, _)
RebalanceAfterRemove(t, node, parent) ==
  IF node = t.root THEN (IF node = NULL THEN t ELSE [t EXCEPT !.red[node] = FALSE])
  ELSE LET cis == SideOf(t, parent, node)
           trans == Other(cis)
           redsib == t.kid[trans][parent]
           a == IF ~t.red[redsib] THEN t
                ELSE tree__rotate([t EXCEPT !.red[redsib] = FALSE, !.red[parent] = TRUE], parent, cis)
           sibling == a.kid[trans][parent]
           near == a.kid[cis][sibling]
           b == IF IsRed(a, a.kid[trans][sibling]) THEN a
                ELSE tree__rotate([a EXCEPT !.red[near] = FALSE, !.red[sibling] = TRUE], sibling, trans)
           sib2 == b.kid[trans][parent]
           c == tree__rotate([b EXCEPT !.red[sib2] = b.red[parent], !.red[parent] = FALSE,
                                       !.red[b.kid[trans][sib2]] = FALSE], parent, cis)
           up == [a EXCEPT !.red[sibling] = TRUE]
       IN IF \E side \in Sides : IsRed(a, a.kid[side][sibling])
          THEN [c EXCEPT !.red[c.root] = FALSE]
          ELSE IF up.red[parent] THEN [up EXCEPT !.red[parent] = FALSE]
          ELSE RebalanceAfterRemove(up, parent, up.parent[parent])

RECURSIVE Leftmost(_, _)
Leftmost(t, node) == IF t.kid["left"][node] = NULL THEN node ELSE Leftmost(t, t.kid["left"][node])

(* tree_del: the node, or the next one moved to its place, is unlinked; then the rebalancing. *)
tree_del(t, key) ==
  LET parent == t.parent[key]
      left == t.kid["left"][key]
      right == t.kid["right"][key]
      two == left # NULL /\ right # NULL
      next == IF left = NULL THEN right ELSE IF right = NULL THEN left ELSE Leftmost(t, right)
      out == Relink(t, parent, key, next)
      moved == [out EXCEPT !.red[next] = t.red[key], !.kid["left"][next] = left,
                           !.parent[left] = next, !.parent[next] = parent]
      node == IF two THEN t.kid["right"][next] ELSE next
      hole == IF ~two THEN parent ELSE IF next # right THEN t.parent[next] ELSE next
      taken == IF ~two THEN out
               ELSE IF next # right
                    THEN [moved EXCEPT !.kid["left"][hole] = node, !.kid["right"][next] = right,
                                       !.parent[right] = next]
                    ELSE moved
      red == IF two THEN t.red[next] ELSE t.red[key]
      cut == SetParent(taken, node, hole)
      done == IF red THEN cut
              ELSE IF IsRed(cut, node) THEN [cut EXCEPT !.red[node] = FALSE]
              ELSE RebalanceAfterRemove(cut, node, hole)
  IN [done EXCEPT !.kid["left"][key] = NULL, !.kid["right"][key] = NULL, \* the node is freed
                  !.parent[key] = NULL, !.red[key] = FALSE]

RECURSIVE FindFrom(_, _, _)
FindFrom(t, node, key) ==
  IF node = NULL \/ key = node THEN node
  ELSE FindFrom(t, t.kid[IF key < node THEN "left" ELSE "right"][node], key)
tree_find(t, key) == FindFrom(t, t.root, key)

(* tree_init *)
Empty == [root |-> NULL, kid |-> [s \in Sides |-> [k \in Keys |-> NULL]],
          parent |-> [k \in Keys |-> NULL], red |-> [k \in Keys |-> FALSE]]

TreeInit == tree = Empty /\ held = {}
Add(k) == tree' = tree_add(tree, k) /\ held' = held \cup {k}
(* port_unregister_socket and ts_tree_del_and_ref delete a node they have found. *)
Del(k) == /\ tree_find(tree, k) # NULL
          /\ tree' = tree_del(tree, k) /\ held' = held \ {k}
TreeNext == \E k \in Keys : Add(k) \/ Del(k)
-----------------------------------------------------------------------------
RECURSIVE BlackHeight(_)
BlackHeight(node) ==  \* -1 when two paths below node differ
  IF node = NULL THEN 0
  ELSE LET l == BlackHeight(tree.kid["left"][node])
           r == BlackHeight(tree.kid["right"][node])
       IN IF l # r \/ l < 0 THEN -1 ELSE l + (IF tree.red[node] THEN 0 ELSE 1)

(* After any sequence of tree_add and tree_del a key is found just when it is held, the parents
   are those of the children, and the tree is balanced: no red node below a red one, as many
   black nodes on every path. *)
TreeExact ==
  /\ \A k \in Keys : tree_find(tree, k) = IF k \in held THEN k ELSE NULL
  /\ \A k \in held : \A s \in Sides :
       LET kid == tree.kid[s][k]
       IN kid # NULL => tree.parent[kid] = k /\ ~(tree.red[k] /\ tree.red[kid])
  /\ tree.root # NULL => tree.parent[tree.root] = NULL /\ ~tree.red[tree.root]
  /\ BlackHeight(tree.root) >= 0
=============================================================================
