-------------------------------- MODULE Sync --------------------------------
(***************************************************************************)
(* The channel and the wait group of silly.sync on top of the scheduler    *)
(* (Task), each with variables of its own.                                 *)
(***************************************************************************)
EXTENDS Task, FiniteSets

(***************************************************************************)
(* silly.sync.channel: a queue with many producers and one consumer.  An   *)
(* item pushed while the consumer waits is handed to it as the result of   *)
(* its wait, past the queue.                                               *)
(***************************************************************************)
CONSTANTS Consumer, \* the task that pops
          MaxPush   \* bound on the items pushed

ASSUME ChannelAssumption == Consumer \in Tasks /\ None \notin Tasks \cup Values \cup {Nil}

VARIABLES queue,    \* the items
          co,       \* the consumer when it waits
          closed,   \* `reason' is set
          dat,      \* what wait() returned in pop(), None outside
          popped, accepted \* history: items popped; items pushed and not cleared

cvars == <<queue, co, closed, dat, popped, accepted>>
channelvars == <<tvars, cvars>>

ChannelInit ==
  /\ TaskInit
  /\ queue = <<>> /\ co = None /\ closed = FALSE /\ dat = None
  /\ popped = <<>> /\ accepted = <<>>

ChannelUser == ~InMain /\ (Current = Consumer => dat = None)

\* (fault) the consumer is woken to look into the queue
PushTo_Queues(v) == co' = None /\ queue' = Append(queue, v) /\ Wakeup(co, v)
PushTo(v) == co' = None /\ queue' = queue /\ Wakeup(co, v)

\* push(): refused once the channel is closed
Push(v) ==
  /\ ChannelUser /\ ~closed /\ Len(accepted) < MaxPush
  /\ IF co # None THEN PushTo(v)
     ELSE queue' = Append(queue, v) /\ UNCHANGED <<tvars, co>>
  /\ accepted' = Append(accepted, v)
  /\ UNCHANGED <<closed, dat, popped>>

\* pop() of a queued item, also after close(); the consumer is the only one to pop.
Pop ==
  /\ ChannelUser /\ Current = Consumer /\ queue # <<>>
  /\ popped' = Append(popped, Head(queue)) /\ queue' = Tail(queue)
  /\ UNCHANGED <<tvars, co, closed, dat, accepted>>

\* pop() of an empty channel that is open: the consumer waits ...
PopWaits == queue = <<>> /\ ~closed
PopWait ==
  /\ ChannelUser /\ Current = Consumer /\ PopWaits
  /\ co' = Consumer
  /\ Wait
  /\ UNCHANGED <<queue, closed, dat, popped, accepted>>

\* ... and returns the item it was woken with, or the reason.
PopWoken ==
  /\ ~InMain /\ Current = Consumer /\ dat # None
  /\ popped' = IF dat = Nil THEN popped ELSE Append(popped, dat)
  /\ dat' = None
  /\ UNCHANGED <<tvars, queue, co, closed, accepted>>

\* clear(): an item on its way to the consumer is not taken back.
Clear ==
  /\ ChannelUser /\ queue # <<>>
  /\ accepted' = SubSeq(accepted, 1, Len(accepted) - Len(queue))
  /\ queue' = <<>>
  /\ UNCHANGED <<tvars, co, closed, dat, popped>>

\* close()
CloseChannel ==
  /\ ChannelUser /\ ~closed
  /\ closed' = TRUE
  /\ IF co # None THEN co' = None /\ Wakeup(co, Nil) ELSE UNCHANGED <<tvars, co>>
  /\ UNCHANGED <<queue, dat, popped, accepted>>

\* The scheduler: the result of the consumer's wait is what it is resumed with.
ChannelSchedule ==
  \/ /\ Dispatch
     /\ dat' = IF Head(ready) = Consumer THEN param[Consumer] ELSE dat
     /\ UNCHANGED <<queue, co, closed, popped, accepted>>
  \/ /\ \/ \E t \in Tasks : Message(t) \/ MessageTask(t)
        \/ ChannelUser /\ (Sleep \/ Finish \/ Fail)
     /\ UNCHANGED cvars

ChannelNext ==
  \/ \E v \in Values : Push(v)
  \/ Pop \/ PopWait \/ PopWoken \/ Clear \/ CloseChannel
  \/ ChannelSchedule

ChannelSpec == ChannelInit /\ [][ChannelNext]_channelvars

-----------------------------------------------------------------------------
\* The item the consumer is woken with and has not returned yet.
InFlight ==
  IF dat \in Values THEN <<dat>>
  ELSE IF status[Consumer] = "READY" /\ param[Consumer] # Nil THEN <<param[Consumer]>>
  ELSE <<>>

\* What was accepted comes out once, in the order of the pushes, whether it goes
\* through the queue or past it.
ItemsInOrder == accepted = popped \o InFlight \o queue

\* The consumer waits only on an empty open channel where the next push or the
\* close finds it: it is never left waiting.
ConsumerFound ==
  /\ co # None => status[co] = "WAIT" /\ queue = <<>> /\ ~closed
  /\ status[Consumer] = "WAIT" => co = Consumer

-----------------------------------------------------------------------------
(***************************************************************************)
(* silly.sync.waitgroup: forked functions are counted, and wait() returns  *)
(* when the count is zero.  One task at a time waits, as the documentation *)
(* asks for; it does not wait for itself.                                  *)
(***************************************************************************)
CONSTANT MaxForks \* bound on the functions forked

ASSUME GroupAssumption == None \notin Tasks /\ IsFiniteSet(Tasks)

VARIABLES count, waitco,
          forked,  \* history: functions forked
          body,    \* tasks that have a function of the group to run or to end
          waiting  \* the task inside wait()

wvars == <<count, waitco, forked, body, waiting>>
groupvars == <<tvars, wvars>>

GroupInit ==
  /\ TaskInit
  /\ count = 0 /\ waitco = None /\ forked = 0 /\ body = {} /\ waiting = None

GroupUser == ~InMain /\ waiting # Current

\* fork()
ForkMember(t) ==
  /\ GroupUser /\ forked < MaxForks
  /\ count' = count + 1 /\ forked' = forked + 1
  /\ body' = body \cup {t}
  /\ Fork(t, Nil)
  /\ UNCHANGED <<waitco, waiting>>

\* (fault) the task that was woken stays registered
Woken_Kept == waitco' = waitco /\ Wakeup(waitco, Nil)

\* The function returned or raised, and the count goes down: the last one wakes
\* the waiting task.
Woken == waitco' = None /\ Wakeup(waitco, Nil)

MemberEnd ==
  /\ GroupUser /\ Current \in body
  /\ body' = body \ {Current}
  /\ count' = count - 1
  /\ IF count' <= 0 /\ waitco # None THEN Woken ELSE UNCHANGED <<tvars, waitco>>
  /\ UNCHANGED <<forked, waiting>>

\* wait()
WaitGroup ==
  /\ GroupUser /\ Current \notin body /\ waiting = None
  /\ count > 0
  /\ waitco' = Current /\ waiting' = Current
  /\ Wait
  /\ UNCHANGED <<count, forked, body>>

WaitReturns ==
  /\ ~InMain /\ waiting = Current
  /\ waiting' = None
  /\ UNCHANGED <<tvars, count, waitco, forked, body>>

\* The scheduler: a function of the group ends by MemberEnd only.
GroupSchedule ==
  /\ \/ Dispatch
     \/ \E t \in Tasks : Message(t) \/ MessageTask(t)
     \/ GroupUser /\ Sleep
     \/ GroupUser /\ Current \notin body /\ (Finish \/ Fail)
  /\ UNCHANGED wvars

GroupNext ==
  \/ \E t \in Tasks : ForkMember(t)
  \/ MemberEnd \/ WaitGroup \/ WaitReturns
  \/ GroupSchedule

GroupSpec == GroupInit /\ [][GroupNext]_groupvars

-----------------------------------------------------------------------------
\* The count is that of the functions that have not ended, failed ones included.
CountsMembers == count = Cardinality(body)

\* A task blocked in wait() is found by the last function: it is registered, and
\* there is a function left to wake it.
WaiterFound ==
  /\ waiting # None /\ status[waiting] = "WAIT" => waitco = waiting /\ count > 0
  /\ waitco # None => waiting = waitco /\ status[waitco] = "WAIT"

\* The wait group: the count is exact, and whoever waits for it to reach zero is woken
\* (fork and wait of waitgroup.lua).
GroupExact == CountsMembers /\ WaiterFound
=============================================================================
