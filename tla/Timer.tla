------------------------------- MODULE Timer -------------------------------
(***************************************************************************)
(* Timers: time.lua and timer.c.  The worker allocates a node, sends an    *)
(* OP_AFTER or OP_CANCEL command through a double buffer, and finds the    *)
(* callback of an expire message by its session, the node and the node's   *)
(* version.  The timer thread owns the commanded nodes, fires them and     *)
(* gives them back to the pool with a new version.                         *)
(*                                                                         *)
(* For the commands the wheel is the set of its nodes.  The second part is *)
(* the wheel by itself, which fires a node in the tick of its `expire': a  *)
(* root array for the near ticks and four levels of coarser arrays, whose  *)
(* slots are spread over the lower ones (cascade_timer) when the counter   *)
(* reaches them.  The widths are parameters; the code has RootBits = 8 and *)
(* LevelBits = 6, so that the counters wrap at 2^32.  The list of a slot   *)
(* is a set here.                                                          *)
(***************************************************************************)
EXTENDS Integers, Sequences, FiniteSets

CONSTANTS Resolution,  \* TIMER_RESOLUTION: ms of one tick
          PageSize,    \* nodes of one page
          Timeouts,    \* the timeouts asked for, in ms
          MaxPages,    \* bound on the pages of the pool
          MaxAfter,    \* bound on the calls of timer_after
          MaxTicks,    \* bound on the ticks, but for running timers
          MaxWait,     \* bound on the ticks for those: more than they need
          MaxLag,      \* bound on the ticks of one timer_update
          Nodes, RootBits, LevelBits, \* of the wheel
          MaxOverdue   \* bound on how overdue, in ticks, a node is added

ASSUME TimerAssumption ==
    /\ {Resolution, PageSize} \subseteq Nat \ {0}
    /\ Timeouts \subseteq Nat
    /\ {MaxPages, MaxAfter, MaxTicks, MaxWait, MaxLag, MaxOverdue} \subseteq Nat
    /\ {RootBits, LevelBits} \subseteq Nat \ {0}

VARIABLES ticktime, monotonic, jiffies, \* of struct timer
          node,       \* version, state and expire of every node; index = cookie
          free,       \* pool.free, first to last
          cmds,       \* the array of cmdbuf that is written
          batch,      \* the array of cmdbuf that process_cmd works on
          tpc, ticks, cancels, freed, \* locals of the timer thread
          wpc, wsession, \* locals of the worker: its call and the session it is about
          asleep,     \* sleep_session_task: session -> earliest monotonic time
          msgs,       \* expire messages on the way to the worker
          stat        \* struct silly_timerstat

pool  == <<node, free>>
time  == <<ticktime, monotonic, jiffies>>
tloc  == <<tpc, ticks, cancels, freed>>
wloc  == <<wpc, wsession>>
vars == <<time, pool, cmds, batch, tloc, wloc, asleep, msgs, stat>>

NewPage == [i \in 1 .. PageSize |-> [version |-> 0, state |-> "FREED", expire |-> 0]]
Session(n) == <<node[n].version, n>>
Sessions == DOMAIN asleep
Without(f, x) == [y \in DOMAIN f \ {x} |-> f[y]]
With(f, x, v) == [y \in DOMAIN f \cup {x} |-> IF y = x THEN v ELSE f[y]]

Init ==
    /\ ticktime = 0 /\ monotonic = 0 /\ jiffies = 0
    /\ node = NewPage /\ free = [i \in 1 .. PageSize |-> i]
    /\ cmds = <<>> /\ batch = <<>>
    /\ tpc = "sleep" /\ ticks = 0 /\ cancels = 0 /\ freed = <<>>
    /\ wpc = "idle" /\ wsession = <<0, 1>>
    /\ asleep = <<>> /\ msgs = <<>>
    /\ stat = [pending |-> 0, scheduled |-> 0, fired |-> 0, canceled |-> 0]

-----------------------------------------------------------------------------
(* The worker.                                                             *)

\* pool_newnode takes the first free node; without one it appends a page.
Grown == IF free = <<>> THEN node \o NewPage ELSE node
Available == IF free = <<>> THEN [i \in 1 .. PageSize |-> Len(node) + i] ELSE free

\* (fault) `expire' is rounded down.
After_RoundsDown(timeout) ==
    LET n == Head(Available) IN
    /\ wpc = "idle"
    /\ stat.scheduled < MaxAfter
    /\ Len(Grown) <= MaxPages * PageSize
    /\ free' = Tail(Available)
    /\ node' = [Grown EXCEPT ![n].state = "ADDING",
                             ![n].expire = (ticktime + timeout) \div Resolution]
    /\ wsession' = <<Grown[n].version, n>>
    /\ asleep' = With(asleep, wsession', monotonic + timeout)
    /\ wpc' = "write_after"
    /\ stat' = [stat EXCEPT !.scheduled = @ + 1, !.pending = @ + 1]
    /\ UNCHANGED <<time, cmds, batch, tloc, msgs>>

\* timer_after up to the command, and the entry of time.lua for its session.
\* `expire' is rounded up from ticktime, which the timer thread may advance
\* before and after this step.
After(timeout) ==
    LET n == Head(Available) IN
    /\ wpc = "idle"
    /\ stat.scheduled < MaxAfter
    /\ Len(Grown) <= MaxPages * PageSize
    /\ free' = Tail(Available)
    /\ node' = [Grown EXCEPT ![n].state = "ADDING",
                   ![n].expire = (ticktime + timeout + Resolution - 1) \div Resolution]
    /\ wsession' = <<Grown[n].version, n>>
    /\ asleep' = With(asleep, wsession', monotonic + timeout)
    /\ wpc' = "write_after"
    /\ stat' = [stat EXCEPT !.scheduled = @ + 1, !.pending = @ + 1]
    /\ UNCHANGED <<time, cmds, batch, tloc, msgs>>

AfterWrite ==
    /\ wpc = "write_after"
    /\ cmds' = Append(cmds, [op |-> "AFTER", n |-> wsession[2]])
    /\ wpc' = "idle"
    /\ UNCHANGED <<time, pool, batch, tloc, wsession, asleep, msgs, stat>>

\* time.cancel and timer_cancel up to the command: the session is forgotten,
\* and nothing is sent if the node was already freed.
Cancel(s) ==
    /\ wpc = "idle"
    /\ asleep' = Without(asleep, s)
    /\ IF node[s[2]].version = s[1]
         THEN wpc' = "write_cancel" /\ wsession' = s
         ELSE UNCHANGED wloc
    /\ UNCHANGED <<time, pool, cmds, batch, tloc, msgs, stat>>

CancelWrite ==
    /\ wpc = "write_cancel"
    /\ cmds' = Append(cmds, [op |-> "CANCEL", version |-> wsession[1], n |-> wsession[2]])
    /\ wpc' = "idle"
    /\ UNCHANGED <<time, pool, batch, tloc, wsession, asleep, msgs, stat>>

\* The handler of EXPIRE: a session that is not asleep is ignored.
Expire ==
    /\ wpc = "idle"
    /\ msgs # <<>>
    /\ msgs' = Tail(msgs)
    /\ asleep' = Without(asleep, Head(msgs))
    /\ UNCHANGED <<time, pool, cmds, batch, tloc, wloc, stat>>

\* timer_stop, at shutdown.
Stop ==
    /\ wpc = "idle"
    /\ wpc' = "stopped"
    /\ cmds' = Append(cmds, [op |-> "EXIT"])
    /\ UNCHANGED <<time, pool, batch, tloc, wsession, asleep, msgs, stat>>
-----------------------------------------------------------------------------
(* The timer thread: timer_update.                                         *)

\* The clock shows that a number of ticks passed since the last update.
\* Beyond MaxTicks they pass only while the worker waits for a timer.
Update(n) ==
    /\ tpc = "sleep"
    /\ \/ jiffies + n <= MaxTicks
       \/ /\ Sessions # {} /\ wpc = "idle" /\ msgs = <<>>
          /\ jiffies + n <= MaxWait
    /\ ticks' = n
    /\ ticktime' = ticktime + n * Resolution
    /\ tpc' = "monotonic"
    /\ UNCHANGED <<monotonic, jiffies, pool, cmds, batch, cancels, freed,
                   wloc, asleep, msgs, stat>>

\* ticktime is advanced first, then monotonic.
UpdateMonotonic ==
    /\ tpc = "monotonic"
    /\ monotonic' = monotonic + ticks * Resolution
    /\ tpc' = "flip"
    /\ UNCHANGED <<ticktime, jiffies, pool, cmds, batch, ticks, cancels,
                   freed, wloc, asleep, msgs, stat>>

\* flipbuf_flip: the worker goes on with an empty array.
Flip ==
    /\ tpc = "flip"
    /\ batch' = cmds
    /\ cmds' = <<>>
    /\ cancels' = 0
    /\ tpc' = "process"
    /\ UNCHANGED <<time, pool, ticks, freed, wloc, asleep, msgs, stat>>

\* node_free: the node joins the local list under its next version.
Freed(n) == [node EXCEPT ![n].version = @ + 1, ![n].state = "FREED"]

ProcessAfter ==
    /\ tpc = "process" /\ batch # <<>> /\ Head(batch).op = "AFTER"
    /\ node' = [node EXCEPT ![Head(batch).n].state = "TICKING"]
    /\ batch' = Tail(batch)
    /\ UNCHANGED <<time, free, cmds, tloc, wloc, asleep, msgs, stat>>

\* A node that fired since the cancel was sent has another version.
ProcessCancel ==
    LET n == Head(batch).n IN
    /\ tpc = "process" /\ batch # <<>> /\ Head(batch).op = "CANCEL"
    /\ batch' = Tail(batch)
    /\ IF node[n].version = Head(batch).version
         THEN /\ node' = Freed(n)
              /\ freed' = Append(freed, n)
              /\ cancels' = cancels + 1
         ELSE UNCHANGED <<node, freed, cancels>>
    /\ UNCHANGED <<time, free, cmds, tpc, ticks, wloc, asleep, msgs, stat>>

ProcessExit ==
    /\ tpc = "process" /\ batch # <<>> /\ Head(batch).op = "EXIT"
    /\ tpc' = "exited"
    /\ UNCHANGED <<time, pool, cmds, batch, ticks, cancels, freed, wloc,
                   asleep, msgs, stat>>

ProcessDone ==
    /\ tpc = "process" /\ batch = <<>>
    /\ stat' = [stat EXCEPT !.pending = @ - cancels, !.canceled = @ + cancels]
    /\ cancels' = 0
    /\ tpc' = "expire"
    /\ UNCHANGED <<time, pool, cmds, batch, ticks, freed, wloc, asleep, msgs>>

Ticking == {n \in DOMAIN node : node[n].state = "TICKING"}

\* (fault) a node that is overdue when it is added misses its slot.
Due_MissesOverdue == {n \in Ticking : node[n].expire = jiffies}

\* expire_timer's nodes; add_node links an overdue node to the current slot.
Due == {n \in Ticking : node[n].expire <= jiffies}

\* expire_timer fires the nodes of the current slot, in any order here.
Timeout(n) ==
    /\ tpc \in {"expire", "expire_next"}
    /\ n \in Due
    /\ msgs' = Append(msgs, Session(n))
    /\ node' = Freed(n)
    /\ freed' = Append(freed, n)
    /\ stat' = [stat EXCEPT !.pending = @ - 1, !.fired = @ + 1]
    /\ UNCHANGED <<time, free, cmds, batch, tpc, ticks, cancels, wloc, asleep>>

\* update_timer expires, steps to the next jiffy, and expires again.
Tick ==
    /\ tpc = "expire" /\ Due = {}
    /\ jiffies' = jiffies + 1
    /\ tpc' = "expire_next"
    /\ UNCHANGED <<ticktime, monotonic, pool, cmds, batch, ticks, cancels,
                   freed, wloc, asleep, msgs, stat>>

TickDone ==
    /\ tpc = "expire_next" /\ Due = {}
    /\ ticks' = ticks - 1
    /\ tpc' = IF ticks' = 0 THEN "release" ELSE "expire"
    /\ UNCHANGED <<time, pool, cmds, batch, cancels, freed, wloc, asleep,
                   msgs, stat>>

\* pool_freelist, under the pool's lock.
Release ==
    /\ tpc = "release"
    /\ free' = free \o freed
    /\ freed' = <<>>
    /\ tpc' = "sleep"
    /\ UNCHANGED <<time, node, cmds, batch, ticks, cancels, wloc, asleep,
                   msgs, stat>>
-----------------------------------------------------------------------------
TimerThread ==
    \/ \E n \in 1 .. MaxLag : Update(n)
    \/ UpdateMonotonic \/ Flip
    \/ ProcessAfter \/ ProcessCancel \/ ProcessExit \/ ProcessDone
    \/ \E n \in DOMAIN node : Timeout(n)
    \/ Tick \/ TickDone \/ Release

Worker == AfterWrite \/ CancelWrite \/ Expire

Next ==
    \/ TimerThread \/ Worker \/ Stop
    \/ \E timeout \in Timeouts : After(timeout)
    \/ \E s \in Sessions : Cancel(s)

Spec == Init /\ [][Next]_vars

\* The timer thread wakes up in time, and the worker finishes its calls
\* and takes its messages.  Nothing makes it start, cancel or stop a timer.
FairSpec == Spec /\ WF_vars(TimerThread) /\ WF_vars(Worker)
-----------------------------------------------------------------------------
\* Every variable has its type.
TypeOK ==
    /\ {ticktime, monotonic, jiffies, ticks, cancels} \subseteq Nat
    /\ \A n \in DOMAIN node :
          node[n] \in [version : Nat, expire : Nat, state : {"FREED", "ADDING", "TICKING"}]
    /\ {free, freed} \subseteq Seq(DOMAIN node)
    /\ tpc \in {"sleep", "monotonic", "flip", "process", "expire", "expire_next",
                "release", "exited"}
    /\ wpc \in {"idle", "write_after", "write_cancel", "stopped"}
    /\ wsession \in Nat \X DOMAIN node
    /\ stat \in [{"pending", "scheduled", "fired", "canceled"} -> Nat]

\* The assertions of timer_after, process_after, process_cancel and
\* timer_update hold, whatever the worker does between two updates.
AssertsHold ==
    /\ \A i \in DOMAIN free : node[free[i]].state = "FREED"
    /\ tpc = "process" /\ batch # <<>> =>
          LET cmd == Head(batch) IN
          /\ cmd.op = "AFTER" => node[cmd.n].state = "ADDING"
          /\ cmd.op = "CANCEL" /\ node[cmd.n].version = cmd.version =>
                node[cmd.n].state = "TICKING"
    /\ tpc \in {"sleep", "release"} => ticktime = jiffies * Resolution

\* A node is in one place at a time: free, freed in this update, in the
\* wheel, in one OP_AFTER command, or in the hands of timer_after.
Indices(s, Test(_)) == {i \in DOMAIN s : Test(s[i])}
OneOwner ==
    \A n \in DOMAIN node :
        LET Is(m) == m = n
            Adds(cmd) == cmd.op = "AFTER" /\ cmd.n = n
        IN  1 = Cardinality(Indices(free, Is)) + Cardinality(Indices(freed, Is))
                + Cardinality(Indices(cmds, Adds)) + Cardinality(Indices(batch, Adds))
                + Cardinality(Ticking \cap {n})
                + (IF wpc = "write_after" /\ wsession[2] = n THEN 1 ELSE 0)

\* A timer that time.lua still has an entry for will fire: either its node
\* has its version and is on its way to or in the wheel, or exactly one
\* expire message carries its session, never both.
NoneLost ==
    \A s \in Sessions :
        LET Is(m) == m = s
            messages == Cardinality(Indices(msgs, Is))
        IN  IF node[s[2]].version = s[1]
              THEN node[s[2]].state # "FREED" /\ messages = 0
              ELSE messages = 1

\* On the clock that time.now and time.monotonic show, no timer fires before
\* its timeout has passed, wherever the ticks fall between the calls.
NeverEarly ==
    \A i \in DOMAIN msgs : msgs[i] \in Sessions => asleep[msgs[i]] <= monotonic

\* The statistics add up: pending counts the nodes on their way to or in the
\* wheel, up to the cancels that process_cmd subtracts at its end.
StatsAddUp ==
    /\ stat.pending = cancels + Cardinality({n \in DOMAIN node : node[n].state # "FREED"})
    /\ stat.scheduled = stat.pending + stat.fired + stat.canceled

\* The node pool stays right while starts, cancels and ticks race: no node is in two
\* places, none is lost, no assertion fails and the statistics agree (timer.c).
NodesExact == TypeOK /\ AssertsHold /\ OneOwner /\ NoneLost /\ StatsAddUp

\* Every timer is called back or cancelled, unless the engine stops: as the calls of after() are
\* bounded, the sessions run out.
AllCalledBack == []<>(Sessions = {} \/ wpc = "stopped")
-----------------------------------------------------------------------------
(* The wheel.                                                              *)

Levels == 0 .. 3
Root == -1
SR_SIZE == 2 ^ RootBits
SL_SIZE == 2 ^ LevelBits
Shift(i) == 2 ^ (i * LevelBits + RootBits)   \* one slot of level i, in ticks
Range == Shift(4)                            \* of uint32_t expire and jiffies

VARIABLES counter, \* timer.jiffies
          root,    \* timer.root: slot -> nodes
          level,   \* timer.level: level -> slot -> nodes
          expire   \* node.expire, 0 for a node that is not linked

wheel == <<counter, root, level, expire>>

Linked == UNION {root[i] : i \in 0 .. SR_SIZE - 1} \cup
          UNION {level[l][i] : l \in Levels, i \in 0 .. SL_SIZE - 1}
Set == INSTANCE TimerSet WITH armed <- Linked, jiffies <- counter
Ahead(e, j) == Set!Ahead(e, j)

RootSlot(t) == t % SR_SIZE
LevelSlot(i, t) == (t \div Shift(i)) % SL_SIZE

WheelInit ==
    /\ counter \in 0 .. Range - 1
    /\ root = [i \in 0 .. SR_SIZE - 1 |-> {}]
    /\ level = [l \in Levels |-> [i \in 0 .. SL_SIZE - 1 |-> {}]]
    /\ expire = [n \in Nodes |-> 0]
-----------------------------------------------------------------------------

\* add_node: the slot for a node that expires at e; an overdue node goes to
\* the current slot of the root, the others to the first array wide enough.
Place(e, j) ==
    LET fits == {l \in 0 .. 2 : Ahead(e, j) < Shift(l + 1)}
        l == IF fits = {} THEN 3 ELSE CHOOSE m \in fits : \A k \in fits : m <= k
    IN  IF Ahead(e, j) < 0 THEN <<Root, RootSlot(j)>>
        ELSE IF Ahead(e, j) < SR_SIZE THEN <<Root, RootSlot(e)>>
        ELSE <<l, LevelSlot(l, e)>>

\* The wheel with the nodes `out' unlinked, then the nodes `in' added at j.
Relink(out, in, j, ex) ==
    /\ root' = [i \in 0 .. SR_SIZE - 1 |->
                  (root[i] \ out) \cup {n \in in : <<Root, i>> = Place(ex[n], j)}]
    /\ level' = [l \in Levels |-> [i \in 0 .. SL_SIZE - 1 |->
                  (level[l][i] \ out) \cup {n \in in : <<l, i>> = Place(ex[n], j)}]]
    /\ expire' = [n \in Nodes |-> IF n \in out \ in THEN 0 ELSE ex[n]]

\* process_after.  Half the range and more counts as overdue, and timeouts
\* are shorter than that: a uint32_t of milliseconds in ticks of 10.
AddNode(n, e) ==
    /\ n \notin Linked
    /\ Ahead(e, counter) >= -MaxOverdue
    /\ Relink({}, {n}, counter, [expire EXCEPT ![n] = e])
    /\ UNCHANGED counter

\* process_cancel: unlinklist.
Unlink(n) ==
    /\ n \in Linked
    /\ Relink({n}, {}, counter, expire)
    /\ UNCHANGED counter

\* The levels update_timer cascades on reaching j: up to the first whose
\* slot is not 0.
Cascading(j) == {l \in Levels : RootSlot(j) = 0 /\ \A k \in 0 .. l - 1 : LevelSlot(k, j) = 0}
Spread(j) == UNION {level[l][LevelSlot(l, j)] : l \in Cascading(j)}

\* update_timer: expire, step, cascade, expire.
WheelTick ==
    LET j == (counter + 1) % Range
        moved == Spread(j)
        now == root[RootSlot(counter)] \cup root[RootSlot(j)]
               \cup {n \in moved : Place(expire[n], j) = <<Root, RootSlot(j)>>}
    IN  /\ counter' = j
        /\ Relink(now \cup moved, moved \ now, j, expire)

WheelNext ==
    \/ WheelTick
    \/ \E n \in Nodes : Unlink(n) \/ \E e \in 0 .. Range - 1 : AddNode(n, e)
-----------------------------------------------------------------------------
\* Every variable has its type.
WheelTypeOK ==
    /\ counter \in 0 .. Range - 1
    /\ root \in [0 .. SR_SIZE - 1 -> SUBSET Nodes]
    /\ level \in [Levels -> [0 .. SL_SIZE - 1 -> SUBSET Nodes]]
    /\ expire \in [Nodes -> 0 .. Range - 1]

\* A node is linked to one slot.
LinkedOnce ==
    \A n \in Nodes :
        Cardinality({i \in 0 .. SR_SIZE - 1 : n \in root[i]}) +
        Cardinality({p \in Levels \X (0 .. SL_SIZE - 1) : n \in level[p[1]][p[2]]}) <= 1

\* The assertion of expire_timer: what the current slot holds is due.
OnlyDueInSlot == \A n \in root[RootSlot(counter)] : Ahead(expire[n], counter) <= 0

\* The assertion of cascade_timer: a slot that is spread holds only nodes
\* that expire in the very period of the slot, also across the wrap-around.
SpreadInPeriod ==
    LET j == (counter + 1) % Range IN
    \A l \in Cascading(j) : \A n \in level[l][LevelSlot(l, j)] :
        expire[n] \div Shift(l) = j \div Shift(l)

\* The structure of the wheel: a node is in one slot, and it is a slot that is
\* emptied or spread in the period of the node (add_node, cascade_timer).
WheelExact == WheelTypeOK /\ LinkedOnce /\ OnlyDueInSlot /\ SpreadInPeriod

=============================================================================
