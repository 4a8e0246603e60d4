---------------------------- MODULE SyncProofs ------------------------------
(***************************************************************************)
(* The inductive invariants of the channel and of the wait group of module *)
(* Sync, for any number of tasks and items, and the theorems about them.   *)
(* The scheduler's own invariant comes from TaskProofs.                    *)
(***************************************************************************)
EXTENDS Sync, TaskProofs

-----------------------------------------------------------------------------
(* The channel. *)

ChannelTypes ==
  /\ queue \in Seq(Values) /\ popped \in Seq(Values) /\ accepted \in Seq(Values)
  /\ co \in {None, Consumer} /\ closed \in BOOLEAN /\ dat \in Values \cup {Nil, None}

\* The result of the consumer's wait is returned before anything else runs, and no message is
\* on its way to a consumer that waits for a push.
Delivered ==
  /\ dat # None => ~InMain /\ Current = Consumer
  /\ co # None => Consumer \notin events

ChannelInv == IInv /\ ~exited /\ ChannelTypes /\ ItemsInOrder /\ ConsumerFound /\ Delivered

\* What the queue and the hand-over do to the order of the items.
LEMMA ConcatFacts ==
  ASSUME NEW S, NEW s \in Seq(S), NEW q \in Seq(S), NEW r \in Seq(S)
  PROVE  s \o <<>> = s /\ s \o q \in Seq(S) /\ (s \o q) \o r = s \o (q \o r)
  OBVIOUS

LEMMA ItemFacts ==
  ASSUME NEW S, NEW s \in Seq(S), NEW v \in S
  PROVE  Append(s, v) \in Seq(S) /\ Append(s, v) = s \o <<v>> /\ <<v>> \in Seq(S)
  OBVIOUS

LEMMA FirstFacts ==
  ASSUME NEW S, NEW q \in Seq(S), q # <<>>
  PROVE  Head(q) \in S /\ Tail(q) \in Seq(S) /\ <<Head(q)>> \o Tail(q) = q
  OBVIOUS

LEMMA SeqFacts ==
  ASSUME NEW S, NEW s \in Seq(S), NEW q \in Seq(S)
  PROVE  /\ s \o <<>> = s /\ s \o q \in Seq(S)
         /\ \A v \in S : Append(s, v) = s \o <<v>>
         /\ q # <<>> => Append(s, Head(q)) \o Tail(q) = s \o q
         /\ SubSeq(s \o q, 1, Len(s \o q) - Len(q)) = s
<1>1. s \o <<>> = s /\ s \o q \in Seq(S) /\ \A v \in S : Append(s, v) = s \o <<v>>
  BY ConcatFacts, ItemFacts
<1>2. ASSUME q # <<>> PROVE Append(s, Head(q)) \o Tail(q) = s \o q
  <2>1. Head(q) \in S /\ Tail(q) \in Seq(S) /\ <<Head(q)>> \o Tail(q) = q
    BY <1>2, FirstFacts
  <2>2. Append(s, Head(q)) = s \o <<Head(q)>> /\ <<Head(q)>> \in Seq(S)
    BY <2>1, ItemFacts
  <2>3. (s \o <<Head(q)>>) \o Tail(q) = s \o (<<Head(q)>> \o Tail(q))
    BY <2>1, <2>2, ConcatFacts
  <2>4. QED
    BY <2>1, <2>2, <2>3
<1>3. SubSeq(s \o q, 1, Len(s \o q) - Len(q)) = s
  <2> DEFINE r == s \o q
             u == SubSeq(r, 1, Len(s))
  <2>1. /\ r \in Seq(S) /\ Len(r) = Len(s) + Len(q) /\ Len(s) \in Nat /\ Len(q) \in Nat
        /\ \A i \in 1..Len(s) : r[i] = s[i] /\ s[i] \in S
    OBVIOUS
  <2>2. Len(r) - Len(q) = Len(s)
    BY <2>1
  <2> HIDE DEF r
  <2>3. u \in Seq(S) /\ Len(u) = Len(s) /\ \A i \in 1..Len(s) : u[i] = r[i]
    BY <2>1
  <2> HIDE DEF u
  <2>4. u = s
    BY <2>1, <2>3
  <2>5. QED
    BY <2>2, <2>4 DEF u, r
<1>4. QED
  BY <1>1, <1>2, <1>3, Zenon

\* Outside the end of its wait nothing is on the way to the consumer but what it is READY with.
LEMMA Quiet == ASSUME ChannelInv, ChannelUser \/ InMain PROVE dat = None
  BY DEF ChannelInv, Delivered, ChannelUser

LEMMA InFlightFacts ==
  ASSUME ChannelInv
  PROVE  /\ InFlight \in Seq(Values) /\ Consumer \in Tasks /\ Nil \notin Values /\ None \notin Values \cup Tasks
         /\ popped \o InFlight \in Seq(Values) /\ popped \o <<>> = popped
         /\ status \in [Tasks -> Statuses] /\ param \in [Tasks -> Values \cup {Nil}]
         /\ param[Consumer] # Nil => status[Consumer] = "READY"
<1>1. /\ status \in [Tasks -> Statuses] /\ param \in [Tasks -> Values \cup {Nil}] /\ ~exited
      /\ popped \in Seq(Values) /\ dat \in Values \cup {Nil, None}
  BY DEF ChannelInv, ChannelTypes, IInv, TypeOK
<1>2. Consumer \in Tasks /\ Nil \notin Values /\ None \notin Values \cup Tasks
  BY ChannelAssumption, TaskAssumption
<1>3. InFlight \in Seq(Values)
  BY <1>1, <1>2 DEF InFlight
<1>4. param[Consumer] # Nil => status[Consumer] = "READY"
  BY <1>1, <1>2 DEF ChannelInv, IInv, Queues, ParamIsOwn
<1>5. QED
  BY <1>1, <1>2, <1>3, <1>4, SeqFacts

\* Steps of the scheduler that neither wake nor resume the consumer from its wait.
LEMMA ChannelFrame ==
  ASSUME ChannelInv, IInv', UNCHANGED <<cvars, exited, param>>, dat = None,
         status'[Consumer] = status[Consumer] \/ status[Consumer] \notin {"WAIT", "READY"},
         status'[Consumer] = status[Consumer] \/ status'[Consumer] \notin {"WAIT", "READY"},
         co # None => Consumer \notin events'
  PROVE  ChannelInv'
<1> USE DEF ChannelInv
<1>1. UNCHANGED <<queue, co, closed, dat, popped, accepted>>
  BY DEF cvars
<1>2. dat \notin Values
  BY ChannelAssumption
<1>3. ItemsInOrder'
  <2>1. status'[Consumer] = "READY" <=> status[Consumer] = "READY"
    OBVIOUS
  <2>2. InFlight' = InFlight
    BY <1>1, <1>2, <2>1 DEF InFlight
  <2>3. QED
    BY <1>1, <2>2 DEF ItemsInOrder
<1>4. ConsumerFound'
  BY <1>1, InFlightFacts DEF ConsumerFound, ChannelTypes
<1>5. ChannelTypes' /\ Delivered' /\ ~exited'
  BY <1>1 DEF ChannelTypes, Delivered
<1>6. QED
  BY <1>3, <1>4, <1>5

LEMMA ChannelScheduleStep == ASSUME ChannelInv, ChannelSchedule PROVE ChannelInv'
<1> USE DEF ChannelInv
<1> DEFINE st == status[Consumer]
<1>1. /\ Consumer \in Tasks /\ status \in [Tasks -> Statuses] /\ Nil \notin Values /\ None \notin Values \cup Tasks
      /\ param \in [Tasks -> Values \cup {Nil}]
  BY InFlightFacts
<1>2. ASSUME NEW t \in Tasks, Message(t), UNCHANGED cvars PROVE ChannelInv'
  <2>1. /\ IInv' /\ t \in events /\ events' = events \ {t}
        /\ status' = [status EXCEPT ![t] = "RUN"] /\ UNCHANGED <<ready, param, exited>>
    BY <1>2, MessageFacts
  <2>2. dat = None
    BY <1>2, Quiet DEF Message
  <2>3. status[t] \in {"RUN", "WAIT"}
    BY <2>1 DEF IInv, Stacks, StackExact
  <2>4. t = Consumer => status[t] = "RUN"
    BY <1>1, <2>1, <2>3 DEF Delivered, ConsumerFound
  <2>5. QED
    BY <1>1, <1>2, <2>1, <2>2, <2>4, ChannelFrame DEF Delivered
<1>3. ASSUME NEW t \in Tasks, MessageTask(t), UNCHANGED cvars PROVE ChannelInv'
  <2>1. /\ IInv' /\ status[t] = "none" /\ status' = [status EXCEPT ![t] = "RUN"]
        /\ UNCHANGED <<events, ready, param, exited>>
    BY <1>3, MessageTaskFacts
  <2>2. dat = None
    BY <1>3, Quiet DEF MessageTask
  <2>3. QED
    BY <1>1, <1>3, <2>1, <2>2, ChannelFrame DEF Delivered
<1>4. CASE ChannelUser /\ Sleep /\ UNCHANGED cvars
  <2>1. /\ IInv' /\ events' = events \cup {Current} /\ UNCHANGED <<status, ready, param, exited>>
        /\ status[Current] = "RUN" /\ dat = None
    BY <1>4, SleepFacts, CurrentFacts, Quiet
  <2>2. co # None => Consumer # Current /\ Consumer \notin events
    BY <2>1 DEF ConsumerFound, Delivered, ChannelTypes
  <2>3. QED
    BY <1>4, <2>1, <2>2, ChannelFrame
<1>5. CASE ChannelUser /\ (Finish \/ Fail) /\ UNCHANGED cvars
  <2>1. /\ IInv' /\ status' = [status EXCEPT ![Current] = "none"] /\ UNCHANGED <<events, ready, param, exited>>
        /\ status[Current] = "RUN" /\ dat = None
    BY <1>5, EndFacts, CurrentFacts, Quiet
  <2>2. QED
    BY <1>1, <1>5, <2>1, ChannelFrame DEF Delivered
<1>6. ASSUME Dispatch, dat' = (IF Head(ready) = Consumer THEN param[Consumer] ELSE dat),
             UNCHANGED <<queue, co, closed, popped, accepted>>
      PROVE  ChannelInv'
  <2>1. /\ IInv' /\ Head(ready) \in Tasks /\ status[Head(ready)] = "READY"
        /\ status' = [status EXCEPT ![Head(ready)] = "RUN"]
        /\ param' = [param EXCEPT ![Head(ready)] = Nil]
        /\ UNCHANGED <<events, exited>>
    BY <1>6, DispatchFacts
  <2>2. dat = None /\ dat \notin Values
    BY <1>1, <1>6, Quiet DEF Dispatch
  <2>3. InFlight' = InFlight
    BY <1>1, <1>6, <2>1, <2>2 DEF InFlight
  <2>4. ItemsInOrder'
    BY <1>6, <2>3 DEF ItemsInOrder
  <2>5. ConsumerFound'
    BY <1>1, <1>6, <2>1 DEF ConsumerFound, ChannelTypes
  <2>6. dat' # None => ~InMain' /\ Current' = Consumer
    <3>1. running = <<>> /\ running' = Append(running, Head(ready))
      BY <1>6 DEF Dispatch, Resume, InMain
    <3>2. running' = <<Head(ready)>>
      BY <3>1
    <3>3. QED
      BY <1>6, <2>2, <3>2 DEF InMain, Current, Top
  <2>7. Delivered' /\ ChannelTypes' /\ ~exited'
    BY <1>1, <1>6, <2>1, <2>6 DEF Delivered, ChannelTypes
  <2>8. QED
    BY <2>1, <2>4, <2>5, <2>7
<1>7. QED
  BY <1>2, <1>3, <1>4, <1>5, <1>6 DEF ChannelSchedule

LEMMA PushStep == ASSUME ChannelInv, NEW v \in Values, Push(v) PROVE ChannelInv'
<1> USE DEF ChannelInv
<1>1. /\ InFlight \in Seq(Values) /\ Consumer \in Tasks /\ Nil \notin Values /\ None \notin Values \cup Tasks
      /\ popped \o InFlight \in Seq(Values) /\ popped \o <<>> = popped
      /\ status \in [Tasks -> Statuses] /\ param \in [Tasks -> Values \cup {Nil}]
      /\ param[Consumer] # Nil => status[Consumer] = "READY"
  BY InFlightFacts
<1>2. /\ dat = None /\ dat \notin Values /\ ~InMain /\ ~closed
      /\ accepted' = Append(accepted, v) /\ UNCHANGED <<closed, dat, popped>>
      /\ queue \in Seq(Values) /\ popped \in Seq(Values) /\ accepted \in Seq(Values) /\ co \in {None, Consumer}
  BY <1>1, Quiet DEF Push, ChannelUser, ChannelTypes
<1>3. CASE co # None
  <2>1. co = Consumer /\ co' = None /\ queue' = queue /\ Wakeup(Consumer, v)
    BY <1>2, <1>3 DEF Push, PushTo
  <2>2. status[Consumer] = "WAIT" /\ queue = <<>>
    BY <1>3, <2>1 DEF ConsumerFound
  <2>3. /\ IInv' /\ status' = [status EXCEPT ![Consumer] = "READY"] /\ UNCHANGED <<events, running, exited>>
    BY <1>1, <2>1, WakeupFacts
  <2>4. param' = [param EXCEPT ![Consumer] = v]
    BY <1>1, <2>1, Zenon DEF Wakeup, Given
  <2>5. InFlight = <<>> /\ InFlight' = <<v>>
    BY <1>1, <1>2, <2>2, <2>3, <2>4 DEF InFlight
  <2>6. ItemsInOrder'
    <3>1. accepted = popped
      BY <1>1, <2>2, <2>5 DEF ItemsInOrder
    <3>2. Append(popped, v) = popped \o <<v>> /\ popped \o <<v>> \in Seq(Values) /\ (popped \o <<v>>) \o <<>> = popped \o <<v>>
      BY <1>2, SeqFacts, ConcatFacts
    <3>3. QED
      BY <1>2, <2>1, <2>2, <2>5, <3>1, <3>2 DEF ItemsInOrder
  <2>7. ConsumerFound'
    BY <1>1, <2>1, <2>3 DEF ConsumerFound
  <2>8. ChannelTypes' /\ Delivered' /\ ~exited'
    BY <1>2, <2>1, <2>3 DEF ChannelTypes, Delivered
  <2>9. QED
    BY <2>3, <2>6, <2>7, <2>8
<1>4. CASE co = None
  <2>1. queue' = Append(queue, v) /\ UNCHANGED <<tvars, co>>
    BY <1>4 DEF Push
  <2>2. IInv' /\ UNCHANGED <<status, param, events, running, exited>>
    BY <2>1, IInvFrame DEF tvars
  <2>3. InFlight' = InFlight
    BY <1>2, <2>2 DEF InFlight
  <2>4. ItemsInOrder'
    <3> DEFINE s == popped \o InFlight
    <3>1. Append(s \o queue, v) = s \o Append(queue, v)
      <4>1. s \in Seq(Values) /\ queue \in Seq(Values) /\ <<v>> \in Seq(Values)
        BY <1>1, <1>2
      <4> HIDE DEF s
      <4>2. s \o queue \in Seq(Values)
        BY <4>1, ConcatFacts
      <4>3. Append(s \o queue, v) = (s \o queue) \o <<v>> /\ Append(queue, v) = queue \o <<v>>
        BY <4>1, <4>2, ItemFacts
      <4>4. (s \o queue) \o <<v>> = s \o (queue \o <<v>>)
        BY <4>1, ConcatFacts
      <4>5. QED
        BY <4>3, <4>4
    <3>2. QED
      BY <1>2, <2>1, <2>3, <3>1 DEF ItemsInOrder
  <2>5. ConsumerFound' /\ ChannelTypes' /\ Delivered' /\ ~exited'
    BY <1>2, <1>4, <2>1, <2>2 DEF ConsumerFound, ChannelTypes, Delivered
  <2>6. QED
    BY <2>2, <2>4, <2>5
<1>5. QED
  BY <1>3, <1>4

\* Steps of the consumer that leave the scheduler alone.
LEMMA PopStep == ASSUME ChannelInv, Pop PROVE ChannelInv'
<1> USE DEF ChannelInv
<1>1. /\ dat = None /\ dat \notin Values /\ ~InMain /\ Current = Consumer /\ queue # <<>>
      /\ popped' = Append(popped, Head(queue)) /\ queue' = Tail(queue)
      /\ UNCHANGED <<tvars, co, closed, dat, accepted>>
      /\ queue \in Seq(Values) /\ popped \in Seq(Values) /\ accepted \in Seq(Values)
  BY Quiet, InFlightFacts DEF Pop, ChannelUser, ChannelTypes
<1>2. IInv' /\ UNCHANGED <<status, param, events, running, exited>>
  BY <1>1, IInvFrame DEF tvars
<1>3. status[Consumer] = "RUN"
  BY <1>1, CurrentFacts
<1>4. InFlight = <<>> /\ InFlight' = <<>>
  BY <1>1, <1>2, <1>3 DEF InFlight
<1>5. /\ Append(popped, Head(queue)) \in Seq(Values) /\ Tail(queue) \in Seq(Values)
      /\ popped \o <<>> = popped /\ Append(popped, Head(queue)) \o <<>> = Append(popped, Head(queue))
      /\ Append(popped, Head(queue)) \o Tail(queue) = popped \o queue
  BY <1>1, SeqFacts, FirstFacts, ItemFacts
<1>6. ItemsInOrder'
  BY <1>1, <1>4, <1>5 DEF ItemsInOrder
<1>7. ConsumerFound' /\ ChannelTypes' /\ Delivered' /\ ~exited'
  BY <1>1, <1>2, <1>3, <1>5 DEF ConsumerFound, ChannelTypes, Delivered, InMain, Current
<1>8. QED
  BY <1>2, <1>6, <1>7

LEMMA PopWaitStep == ASSUME ChannelInv, PopWait PROVE ChannelInv'
<1> USE DEF ChannelInv
<1>1. /\ dat = None /\ dat \notin Values /\ ~InMain /\ Current = Consumer /\ queue = <<>> /\ ~closed
      /\ co' = Consumer /\ Wait /\ UNCHANGED <<queue, closed, dat, popped, accepted>>
      /\ status \in [Tasks -> Statuses] /\ Consumer \in Tasks
  BY Quiet, InFlightFacts DEF PopWait, PopWaits, ChannelUser, ChannelTypes
<1>2. status[Consumer] = "RUN" /\ Consumer \notin events
  BY <1>1, CurrentFacts
<1>3. IInv' /\ status' = [status EXCEPT ![Consumer] = "WAIT"] /\ UNCHANGED <<events, ready, param, exited>>
  BY <1>1, WaitFacts
<1>4. InFlight = <<>> /\ InFlight' = <<>>
  BY <1>1, <1>2, <1>3 DEF InFlight
<1>5. ItemsInOrder'
  BY <1>1, <1>4, Zenon DEF ItemsInOrder
<1>6. ConsumerFound' /\ ChannelTypes' /\ Delivered' /\ ~exited'
  BY <1>1, <1>2, <1>3 DEF ConsumerFound, ChannelTypes, Delivered
<1>7. QED
  BY <1>3, <1>5, <1>6

LEMMA PopWokenStep == ASSUME ChannelInv, PopWoken PROVE ChannelInv'
<1> USE DEF ChannelInv
<1>1. /\ dat # None /\ ~InMain /\ Current = Consumer /\ dat' = None
      /\ popped' = (IF dat = Nil THEN popped ELSE Append(popped, dat))
      /\ UNCHANGED <<tvars, queue, co, closed, accepted>>
      /\ queue \in Seq(Values) /\ popped \in Seq(Values) /\ accepted \in Seq(Values) /\ dat \in Values \cup {Nil}
      /\ Nil \notin Values /\ None \notin Values
  BY InFlightFacts DEF PopWoken, ChannelTypes
<1>2. IInv' /\ UNCHANGED <<status, param, events, running, exited>>
  BY <1>1, IInvFrame DEF tvars
<1>3. status[Consumer] = "RUN"
  BY <1>1, CurrentFacts
<1>4. InFlight' = <<>> /\ InFlight = IF dat = Nil THEN <<>> ELSE <<dat>>
  BY <1>1, <1>2, <1>3 DEF InFlight
<1>5. popped' = popped \o InFlight /\ popped' \in Seq(Values) /\ popped' \o <<>> = popped'
  <2>1. CASE dat = Nil
    BY <1>1, <1>4, <2>1, SeqFacts
  <2>2. CASE dat # Nil
    <3>1. popped' = Append(popped, dat) /\ popped' = popped \o <<dat>> /\ popped' \in Seq(Values)
      BY <1>1, <2>2, SeqFacts, ItemFacts
    <3>2. QED
      BY <1>4, <2>2, <3>1, ConcatFacts
  <2>3. QED
    BY <2>1, <2>2
<1>6. ItemsInOrder'
  BY <1>1, <1>4, <1>5 DEF ItemsInOrder
<1>7. ConsumerFound' /\ ChannelTypes' /\ Delivered' /\ ~exited'
  BY <1>1, <1>2, <1>3, <1>5 DEF ConsumerFound, ChannelTypes, Delivered
<1>8. QED
  BY <1>2, <1>6, <1>7

LEMMA ClearStep == ASSUME ChannelInv, Clear PROVE ChannelInv'
<1> USE DEF ChannelInv
<1>1. /\ dat = None /\ dat \notin Values
      /\ accepted' = SubSeq(accepted, 1, Len(accepted) - Len(queue)) /\ queue' = <<>>
      /\ UNCHANGED <<tvars, co, closed, dat, popped>>
      /\ queue \in Seq(Values) /\ popped \in Seq(Values)
      /\ popped \o InFlight \in Seq(Values)
  BY Quiet, InFlightFacts DEF Clear, ChannelTypes
<1>2. IInv' /\ UNCHANGED <<status, param, events, running, exited>>
  BY <1>1, IInvFrame DEF tvars
<1>3. InFlight' = InFlight
  BY <1>1, <1>2 DEF InFlight
<1>4. accepted' = popped \o InFlight /\ (popped \o InFlight) \o <<>> = popped \o InFlight
  <2>1. accepted = (popped \o InFlight) \o queue
    BY DEF ItemsInOrder
  <2>2. QED
    BY <1>1, <2>1, SeqFacts
<1>5. ItemsInOrder'
  BY <1>1, <1>3, <1>4 DEF ItemsInOrder
<1>6. ConsumerFound' /\ ChannelTypes' /\ Delivered' /\ ~exited'
  BY <1>1, <1>2, <1>4 DEF ConsumerFound, ChannelTypes, Delivered
<1>7. QED
  BY <1>2, <1>5, <1>6

LEMMA CloseChannelStep == ASSUME ChannelInv, CloseChannel PROVE ChannelInv'
<1> USE DEF ChannelInv
<1>1. /\ dat = None /\ dat \notin Values /\ closed' = TRUE /\ UNCHANGED <<queue, dat, popped, accepted>>
      /\ Consumer \in Tasks /\ Nil \notin Values /\ None \notin Values \cup Tasks
      /\ status \in [Tasks -> Statuses] /\ param \in [Tasks -> Values \cup {Nil}]
      /\ param[Consumer] # Nil => status[Consumer] = "READY"
  BY Quiet, InFlightFacts DEF CloseChannel
<1>2. CASE co # None
  <2>1. co = Consumer /\ co' = None /\ Wakeup(Consumer, Nil) /\ status[Consumer] = "WAIT"
    BY <1>2 DEF CloseChannel, ChannelTypes, ConsumerFound
  <2>2. IInv' /\ status' = [status EXCEPT ![Consumer] = "READY"] /\ UNCHANGED <<events, running, exited>>
    BY <1>1, <2>1, WakeupFacts
  <2>3. param' = param
    BY <1>1, <2>1 DEF Wakeup, Given
  <2>4. InFlight = <<>> /\ InFlight' = <<>>
    BY <1>1, <2>1, <2>2, <2>3 DEF InFlight
  <2>5. ItemsInOrder'
    BY <1>1, <2>4 DEF ItemsInOrder
  <2>6. ConsumerFound' /\ ChannelTypes' /\ Delivered' /\ ~exited'
    BY <1>1, <2>1, <2>2 DEF ConsumerFound, ChannelTypes, Delivered
  <2>7. QED
    BY <2>2, <2>5, <2>6
<1>3. CASE co = None
  <2>1. UNCHANGED <<tvars, co>>
    BY <1>3 DEF CloseChannel
  <2>2. IInv' /\ UNCHANGED <<status, param, events, running, exited>>
    BY <2>1, IInvFrame DEF tvars
  <2>3. InFlight' = InFlight
    BY <1>1, <2>2 DEF InFlight
  <2>4. ItemsInOrder'
    BY <1>1, <2>3 DEF ItemsInOrder
  <2>5. ConsumerFound' /\ ChannelTypes' /\ Delivered' /\ ~exited'
    BY <1>1, <1>3, <2>1, <2>2 DEF ConsumerFound, ChannelTypes, Delivered
  <2>6. QED
    BY <2>2, <2>4, <2>5
<1>4. QED
  BY <1>2, <1>3

LEMMA ChannelStep == ChannelInv /\ [ChannelNext]_channelvars => ChannelInv'
<1> SUFFICES ASSUME ChannelInv, [ChannelNext]_channelvars PROVE ChannelInv'
  OBVIOUS
<1>1. CASE UNCHANGED channelvars
  <2>1. UNCHANGED <<tvars, cvars>> /\ UNCHANGED <<status, running, param, events, exited>>
        /\ UNCHANGED <<queue, co, closed, dat, popped, accepted>>
    BY <1>1 DEF channelvars, tvars, cvars
  <2>2. IInv' /\ ~exited'
    BY <2>1, IInvFrame DEF ChannelInv
  <2>3. ItemsInOrder' /\ ConsumerFound' /\ ChannelTypes' /\ Delivered'
    BY <2>1 DEF ChannelInv, ItemsInOrder, InFlight, ConsumerFound, ChannelTypes, Delivered, InMain, Current
  <2>4. QED
    BY <2>2, <2>3 DEF ChannelInv
<1>2. ASSUME NEW v \in Values, Push(v) PROVE ChannelInv'
  BY <1>2, PushStep
<1>3. QED
  BY <1>1, <1>2, PopStep, PopWaitStep, PopWokenStep, ClearStep, CloseChannelStep, ChannelScheduleStep
  DEF ChannelNext

LEMMA ChannelStart == ChannelInit => ChannelInv
<1> SUFFICES ASSUME ChannelInit PROVE ChannelInv
  OBVIOUS
<1> USE DEF ChannelInit
<1>1. IInv
  BY Initially
<1>2. Consumer \in Tasks /\ None \notin Values
  BY ChannelAssumption
<1>3. ~exited /\ ChannelTypes /\ Delivered
  <2>1. ~exited /\ Delivered
    BY DEF TaskInit, Delivered
  <2>2. closed \in BOOLEAN
    BY Zenon
  <2>3. ChannelTypes
    BY <2>2 DEF ChannelTypes
  <2>4. QED
    BY <2>1, <2>3
<1>4. InFlight = <<>> /\ <<>> \o <<>> = <<>>
  BY <1>2 DEF InFlight, TaskInit
<1>5. ConsumerFound
  BY <1>2 DEF TaskInit, ConsumerFound
<1>6. QED
  BY <1>1, <1>3, <1>4, <1>5 DEF ChannelInv, ItemsInOrder

-----------------------------------------------------------------------------
(* The wait group. *)

GroupTypes ==
  /\ body \subseteq Tasks /\ waitco \in Tasks \cup {None} /\ waiting \in Tasks \cup {None}

\* A function of the group belongs to a task that lives, so that task is not forked again; and
\* the task registered in wait() waits for no message.
MembersLive ==
  /\ \A t \in body : status[t] # "none"
  /\ waitco # None => waitco \notin events

GroupInv == CountLaws /\ IInv /\ GroupTypes /\ CountsMembers /\ WaiterFound /\ MembersLive

\* One function more or less.
LEMMA BodyFacts ==
  ASSUME GroupInv
  PROVE  /\ IsFiniteSet(body) /\ count \in Nat /\ None \notin Tasks
         /\ \A t : t \notin body => Cardinality(body \cup {t}) = count + 1
         /\ \A t \in body : Cardinality(body \ {t}) = count - 1 /\ count > 0
<1>1. IsFiniteSet(body) /\ None \notin Tasks
  BY GroupAssumption DEF GroupInv, GroupTypes, CountLaws
<1>2. count = Cardinality(body) /\ count \in Nat
  BY <1>1 DEF GroupInv, CountsMembers, CountLaws
<1>3. \A t : t \notin body => Cardinality(body \cup {t}) = count + 1
  BY <1>1, <1>2 DEF GroupInv, CountLaws
<1>4. ASSUME NEW t \in body PROVE Cardinality(body \ {t}) = count - 1 /\ count > 0
  <2>1. Cardinality(body \ {t}) = count - 1
    BY <1>1, <1>2 DEF GroupInv, CountLaws
  <2>2. count # 0
    BY <1>1, <1>2 DEF GroupInv, CountLaws
  <2>3. QED
    BY <1>2, <2>1, <2>2
<1>5. QED
  BY <1>1, <1>2, <1>3, <1>4

\* The scheduler does not touch a group, and neither wakes nor resumes its waiting task.
LEMMA GroupFrame ==
  ASSUME GroupInv, IInv', UNCHANGED wvars,
         waiting # None /\ status'[waiting] = "WAIT" => status[waiting] = "WAIT",
         waitco # None => status'[waitco] = "WAIT" /\ waitco \notin events',
         \A t \in body : status'[t] # "none"
  PROVE  GroupInv'
<1> USE DEF GroupInv
<1>1. UNCHANGED <<count, waitco, forked, body, waiting>>
  BY DEF wvars
<1>2. GroupTypes' /\ CountsMembers' /\ MembersLive' /\ WaiterFound'
  BY <1>1 DEF GroupTypes, CountsMembers, MembersLive, WaiterFound
<1>3. QED
  BY <1>2

LEMMA GroupScheduleStep == ASSUME GroupInv, GroupSchedule PROVE GroupInv'
<1> USE DEF GroupInv
<1>1. /\ status \in [Tasks -> Statuses] /\ None \notin Tasks /\ body \subseteq Tasks
      /\ waitco \in Tasks \cup {None} /\ waiting \in Tasks \cup {None}
  BY GroupAssumption DEF IInv, TypeOK, GroupTypes
<1>2. /\ waitco # None => waiting = waitco /\ status[waitco] = "WAIT" /\ waitco \notin events
      /\ waiting # None /\ status[waiting] = "WAIT" => waitco = waiting
      /\ \A t \in body : status[t] # "none"
  BY DEF WaiterFound, MembersLive
<1>3. ASSUME NEW t \in Tasks, Message(t), UNCHANGED wvars PROVE GroupInv'
  <2>1. /\ IInv' /\ t \in events /\ events' = events \ {t}
        /\ status' = [status EXCEPT ![t] = "RUN"]
    BY <1>3, MessageFacts
  <2>2. QED
    BY <1>1, <1>2, <1>3, <2>1, GroupFrame
<1>4. ASSUME NEW t \in Tasks, MessageTask(t), UNCHANGED wvars PROVE GroupInv'
  <2>1. /\ IInv' /\ status[t] = "none" /\ status' = [status EXCEPT ![t] = "RUN"]
        /\ UNCHANGED events
    BY <1>4, MessageTaskFacts
  <2>2. QED
    BY <1>1, <1>2, <1>4, <2>1, GroupFrame
<1>5. CASE GroupUser /\ Sleep /\ UNCHANGED wvars
  <2>1. /\ IInv' /\ events' = events \cup {Current} /\ UNCHANGED status
        /\ status[Current] = "RUN"
    BY <1>5, SleepFacts, CurrentFacts
  <2>2. QED
    BY <1>1, <1>2, <1>5, <2>1, GroupFrame
<1>6. CASE GroupUser /\ Current \notin body /\ (Finish \/ Fail) /\ UNCHANGED wvars
  <2>1. /\ IInv' /\ status' = [status EXCEPT ![Current] = "none"] /\ UNCHANGED events
        /\ status[Current] = "RUN"
    BY <1>6, EndFacts, CurrentFacts
  <2>2. QED
    BY <1>1, <1>2, <1>6, <2>1, GroupFrame
<1>7. CASE Dispatch /\ UNCHANGED wvars
  <2> DEFINE t == Head(ready)
  <2>1. /\ IInv' /\ t \in Tasks /\ status[t] = "READY"
        /\ status' = [status EXCEPT ![t] = "RUN"]
        /\ UNCHANGED events
    BY <1>7, DispatchFacts
  <2> HIDE DEF t
  <2>2. QED
    BY <1>1, <1>2, <1>7, <2>1, GroupFrame
<1>8. QED
  BY <1>3, <1>4, <1>5, <1>6, <1>7 DEF GroupSchedule

\* fork() counts a function more: its task is a new one.
LEMMA ForkMemberStep == ASSUME GroupInv, NEW t \in Tasks, ForkMember(t) PROVE GroupInv'
<1> USE DEF GroupInv
<1>1. /\ status \in [Tasks -> Statuses] /\ body \subseteq Tasks /\ waitco \in Tasks \cup {None}
      /\ waiting \in Tasks \cup {None}
  BY DEF IInv, TypeOK, GroupTypes
<1>2. /\ Fork(t, Nil) /\ count' = count + 1 /\ body' = body \cup {t} /\ UNCHANGED <<waitco, waiting>>
  BY DEF ForkMember
<1>3. /\ status[t] = "none" /\ status' = [status EXCEPT ![t] = "READY"] /\ UNCHANGED events
  BY <1>2 DEF Fork, Create
<1>4. IInv'
  BY <1>2, IInvStep DEF TaskNext
<1>5. t \notin body
  BY <1>3 DEF MembersLive
<1>6. count \in Nat /\ Cardinality(body \cup {t}) = count + 1
  BY <1>5, BodyFacts
<1>7. CountsMembers'
  BY <1>2, <1>6 DEF CountsMembers
<1>8. GroupTypes' /\ MembersLive'
  BY <1>1, <1>2, <1>3 DEF GroupTypes, MembersLive
<1>9. WaiterFound'
  BY <1>1, <1>2, <1>3, <1>6 DEF WaiterFound
<1>10. QED
  BY <1>4, <1>7, <1>8, <1>9

\* The end of a function counts it off; the last one wakes the task in wait().
LEMMA MemberEndStep == ASSUME GroupInv, MemberEnd PROVE GroupInv'
<1> USE DEF GroupInv
<1>1. /\ status \in [Tasks -> Statuses] /\ body \subseteq Tasks /\ waitco \in Tasks \cup {None}
      /\ waiting \in Tasks \cup {None} /\ Current \in body
  BY DEF IInv, TypeOK, GroupTypes, MemberEnd
<1>2. count \in Nat /\ count > 0 /\ Cardinality(body \ {Current}) = count - 1
  BY <1>1, BodyFacts
<1>3. count' = count - 1 /\ body' = body \ {Current} /\ waiting' = waiting
  BY DEF MemberEnd
<1>4. CountsMembers'
  BY <1>2, <1>3 DEF CountsMembers
<1>5. CASE count' <= 0 /\ waitco # None
  <2>1. waitco' = None /\ Wakeup(waitco, Nil) /\ waitco \in Tasks
    BY <1>1, <1>5 DEF MemberEnd, Woken
  <2>2. /\ IInv' /\ status' = [status EXCEPT ![waitco] = "READY"] /\ UNCHANGED events
    BY <2>1, WakeupFacts
  <2>3. GroupTypes' /\ MembersLive'
    BY <1>1, <1>3, <2>1, <2>2 DEF GroupTypes, MembersLive
  <2>4. WaiterFound'
    BY <1>1, <1>3, <1>5, <2>1, <2>2 DEF WaiterFound
  <2>5. QED
    BY <1>4, <2>2, <2>3, <2>4
<1>6. CASE ~(count' <= 0 /\ waitco # None)
  <2>1. UNCHANGED <<tvars, waitco>>
    BY <1>6 DEF MemberEnd
  <2>2. IInv' /\ UNCHANGED <<status, events>>
    BY <2>1, IInvFrame DEF tvars
  <2>3. GroupTypes' /\ MembersLive'
    BY <1>1, <1>3, <2>1, <2>2 DEF GroupTypes, MembersLive
  <2>4. WaiterFound'
    BY <1>1, <1>2, <1>3, <1>6, <2>1, <2>2 DEF WaiterFound
  <2>5. QED
    BY <1>4, <2>2, <2>3, <2>4
<1>7. QED
  BY <1>5, <1>6

LEMMA WaitGroupStep == ASSUME GroupInv, WaitGroup PROVE GroupInv'
<1> USE DEF GroupInv
<1>1. /\ Wait /\ waitco' = Current /\ waiting' = Current /\ count > 0 /\ UNCHANGED <<count, body>>
  BY DEF WaitGroup
<1>2. IInv' /\ ~InMain /\ status' = [status EXCEPT ![Current] = "WAIT"] /\ UNCHANGED events
  BY <1>1, WaitFacts
<1>3. Current \in Tasks /\ Current \notin events
  BY <1>2, CurrentFacts
<1>4. status \in [Tasks -> Statuses] /\ body \subseteq Tasks
  BY DEF IInv, TypeOK, GroupTypes
<1> DEFINE c == Current
<1>5. /\ waitco' = c /\ waiting' = c /\ status' = [status EXCEPT ![c] = "WAIT"]
      /\ c \in Tasks /\ c \notin events
  BY <1>1, <1>2, <1>3
<1> HIDE DEF c
<1>6. GroupTypes' /\ MembersLive' /\ WaiterFound' /\ CountsMembers'
  BY <1>1, <1>2, <1>4, <1>5 DEF GroupTypes, MembersLive, WaiterFound, CountsMembers
<1>7. QED
  BY <1>2, <1>6

LEMMA WaitReturnsStep == ASSUME GroupInv, WaitReturns PROVE GroupInv'
<1> USE DEF GroupInv
<1>1. ~InMain /\ waiting = Current /\ waiting' = None /\ UNCHANGED <<tvars, count, waitco, body>>
  BY DEF WaitReturns
<1>2. IInv' /\ UNCHANGED <<status, events>> /\ status[Current] = "RUN"
  BY <1>1, IInvFrame, CurrentFacts DEF tvars
<1>3. waitco = None
  BY <1>1, <1>2 DEF WaiterFound
<1>4. GroupTypes' /\ MembersLive' /\ WaiterFound' /\ CountsMembers'
  BY <1>1, <1>2, <1>3 DEF GroupTypes, MembersLive, WaiterFound, CountsMembers
<1>5. QED
  BY <1>2, <1>4

LEMMA GroupStep == GroupInv /\ [GroupNext]_groupvars => GroupInv'
<1> SUFFICES ASSUME GroupInv, [GroupNext]_groupvars PROVE GroupInv'
  OBVIOUS
<1>1. CASE UNCHANGED groupvars
  <2>1. UNCHANGED <<tvars, count, waitco, body, waiting, status, events>>
    BY <1>1 DEF groupvars, tvars, wvars
  <2>2. IInv' /\ GroupTypes' /\ MembersLive' /\ WaiterFound' /\ CountsMembers'
    BY <2>1, IInvFrame DEF GroupInv, GroupTypes, MembersLive, WaiterFound, CountsMembers
  <2>3. QED
    BY <2>2 DEF GroupInv
<1>2. QED
  BY <1>1, ForkMemberStep, MemberEndStep, WaitGroupStep, WaitReturnsStep, GroupScheduleStep DEF GroupNext

LEMMA GroupStart == CountLaws /\ GroupInit => GroupInv
<1> SUFFICES ASSUME CountLaws, GroupInit PROVE GroupInv
  OBVIOUS
<1>1. IInv
  BY Initially DEF GroupInit
<1>2. Cardinality({}) = 0
  BY DEF CountLaws
<1>3. GroupTypes /\ MembersLive /\ WaiterFound /\ CountsMembers
  BY <1>2 DEF GroupInit, GroupTypes, MembersLive, WaiterFound, CountsMembers
<1>4. QED
  BY <1>1, <1>3 DEF GroupInv

-----------------------------------------------------------------------------
\* For any number of producers and items: what channel.lua accepts comes out once, in the order of
\* the pushes, through the queue or past it; and its consumer waits only where the next push or
\* the close finds it.
THEOREM ChannelInOrder == ChannelSpec => [](ItemsInOrder /\ ConsumerFound)
<1>1. ChannelInv => ItemsInOrder /\ ConsumerFound
  BY DEF ChannelInv
<1>2. QED
  BY <1>1, ChannelStart, ChannelStep, PTL DEF ChannelSpec

INSTANCE FiniteSetTheorems

\* The laws of counting hold: they are facts of the library of finite sets.
LEMMA Counting == CountLaws
<1>1. Cardinality({}) = 0 /\ \A x : Cardinality({x}) = 1
  BY FS_EmptySet, FS_Singleton
<1>2. ASSUME NEW S, IsFiniteSet(S)
      PROVE  /\ Cardinality(S) \in Nat /\ (Cardinality(S) = 0 => S = {})
             /\ \A R : R \subseteq S => IsFiniteSet(R)
             /\ \A x : x \notin S => Cardinality(S \cup {x}) = Cardinality(S) + 1
             /\ \A x \in S : Cardinality(S \ {x}) = Cardinality(S) - 1
  <2>1. Cardinality(S) \in Nat
    BY <1>2, FS_CardinalityType
  <2>2. Cardinality(S) = 0 => S = {}
    BY <1>2, FS_EmptySet
  <2>3. \A R : R \subseteq S => IsFiniteSet(R)
    BY <1>2, FS_Subset
  <2>4. \A x : x \notin S => Cardinality(S \cup {x}) = Cardinality(S) + 1
    BY <1>2, FS_AddElement
  <2>5. \A x \in S : Cardinality(S \ {x}) = Cardinality(S) - 1
    BY <1>2, FS_RemoveElement
  <2>6. QED
    BY <2>1, <2>2, <2>3, <2>4, <2>5
<1>3. QED
  BY <1>1, <1>2 DEF CountLaws

\* For any number of tasks: the count of waitgroup.lua is that of the functions that have not
\* ended, failed ones included, and a task blocked in wait() is registered with a function left
\* to wake it.
THEOREM GroupReleased == GroupSpec => []GroupExact
<1>1. GroupInv => GroupExact
  BY DEF GroupInv, GroupExact
<1>2. QED
  BY <1>1, Counting, GroupStart, GroupStep, PTL DEF GroupSpec
=============================================================================
