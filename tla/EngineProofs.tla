---------------------------- MODULE EngineProofs ----------------------------
(***************************************************************************)
(* Proofs about module Engine, for any hives, signals and bounds.          *)
(***************************************************************************)
EXTENDS Engine, SequenceTheorems, TLAPS

InShutdown == {"stop_timer", "stop_socket", "join_timer", "join_socket"}

\* How far the shutdown has come: who was told to stop, who has exited.
Stages ==
    /\ running = 1 => ~tstop /\ ~sstop /\ wpc \notin InShutdown \cup {"exited"}
    /\ running = 0 /\ wpc \notin InShutdown => tpc = "exited" /\ spc = "exited"
    /\ wpc = "join_socket" => tpc = "exited"
    /\ tpc = "exited" => tstop
    /\ wpc \in {"start", "backlog", "backlog_signals", "cond_wait", "wait"} =>
          running = 1
    /\ mpc # "monitor" => running = 0
    /\ mpc \in {"lua_close", "freed"} => wpc = "exited"
    /\ mpc = "freed" => \A h \in Hives : hpc[h] = "exited"

\* The popped list is empty but for the loop over it.
BatchPlace ==
    batch # <<>> => \/ wpc = "messages"
                    \/ wpc \in InShutdown /\ wret = "messages"

\* InOrder, element by element.
Numbered ==
    /\ dispatched <= pushed
    /\ mpc # "freed" =>
         /\ Len(batch) + Len(queue) = pushed - dispatched
         /\ \A i \in 1 .. Len(batch) : batch[i] = dispatched + i
         /\ \A i \in 1 .. Len(queue) : queue[i] = dispatched + Len(batch) + i

IInv == TypeOK /\ Stages /\ BatchPlace /\ Numbered
-----------------------------------------------------------------------------
\* What a push changes, whoever pushes.
LEMMA PushStep ==
    ASSUME IInv, Push, mpc # "freed"
    PROVE  IInv'
<1> USE DEF IInv, Push, flags, signals, worker, popped, others, timer, socket
<1>1. TypeOK'
  BY BoundsAssumption DEF TypeOK
<1>2. Stages' /\ BatchPlace'
  BY DEF Stages, BatchPlace
<1>3. Numbered'
  <2>1. pushed \in Nat /\ dispatched \in Nat /\ queue \in Seq(Nat) /\ batch \in Seq(Nat)
    BY DEF TypeOK
  <2>2. /\ Len(queue') = Len(queue) + 1
        /\ \A i \in 1 .. Len(queue) : queue'[i] = queue[i]
        /\ queue'[Len(queue) + 1] = pushed + 1
    BY <2>1
  <2>3. Len(queue) \in Nat /\ Len(batch) \in Nat
    BY <2>1
  <2>5. Len(batch) + Len(queue) = pushed - dispatched
    BY DEF Numbered
  <2>4. \A i \in 1 .. Len(queue') : queue'[i] = dispatched + Len(batch) + i
    <3> SUFFICES ASSUME NEW i \in 1 .. Len(queue) + 1
                 PROVE  queue'[i] = dispatched + Len(batch) + i
      BY <2>2
    <3>1. CASE i \in 1 .. Len(queue)
      BY <2>2, <3>1 DEF Numbered
    <3>2. CASE i = Len(queue) + 1
      <4>1. queue'[i] = pushed + 1
        BY <2>2, <3>2
      <4> HIDE DEF IInv, Push
      <4> QED
        BY <2>1, <2>3, <2>5, <3>2, <4>1
    <3> QED
      BY <2>3, <3>1, <3>2
  <2> QED
    BY <2>1, <2>2, <2>3, <2>4 DEF Numbered
<1> QED
  BY <1>1, <1>2, <1>3

\* What a callback changes.
LEMMA CallbackNumbered ==
    ASSUME TypeOK, Numbered, mpc # "freed", batch # <<>>,
           batch' = Tail(batch), dispatched' = Head(batch),
           UNCHANGED <<queue, pushed, mpc>>
    PROVE  batch' \in Seq(Nat) /\ dispatched' \in Nat /\ Numbered'
<1>1. /\ batch \in Seq(Nat) /\ Len(batch) \in Nat \ {0}
      /\ queue \in Seq(Nat) /\ Len(queue) \in Nat
      /\ pushed \in Nat /\ dispatched \in Nat
  BY EmptySeq DEF TypeOK
<1>2. /\ batch' \in Seq(Nat)
      /\ Len(batch') = Len(batch) - 1
      /\ \A i \in 1 .. Len(batch) - 1 : batch'[i] = batch[i + 1]
      /\ dispatched' = batch[1]
  BY <1>1
<1>3. dispatched' = dispatched + 1
  BY <1>1, <1>2 DEF Numbered
<1>4. /\ Len(batch) + Len(queue) = pushed - dispatched
      /\ \A i \in 1 .. Len(batch) : batch[i] = dispatched + i
      /\ \A i \in 1 .. Len(queue) : queue[i] = dispatched + Len(batch) + i
  BY DEF Numbered
<1>5. \A i \in 1 .. Len(batch') : batch'[i] = dispatched' + i
  BY <1>1, <1>2, <1>3, <1>4
<1>6. \A i \in 1 .. Len(queue') : queue'[i] = dispatched' + Len(batch') + i
  BY <1>1, <1>2, <1>3, <1>4
<1> QED
  BY <1>1, <1>2, <1>3, <1>4, <1>5, <1>6 DEF Numbered
-----------------------------------------------------------------------------
\* Numbered depends on nothing else.
LEMMA NumberedFrame ==
    ASSUME Numbered, UNCHANGED <<queue, pushed, batch, dispatched, mpc>>
    PROVE  Numbered'
  BY DEF Numbered

\* The timer thread keeps the invariant.
LEMMA TimerStep ==
    ASSUME IInv, Timer PROVE IInv'
<1> USE NumberedFrame DEF IInv, TypeOK, Stages, BatchPlace, InShutdown, WorkerPC,
        Resumable, flags, messages, signals, popped, worker, timer, socket,
        others
<1>1. CASE TimerExit
  BY <1>1 DEF TimerExit, timerOnly
<1>2. CASE TimerSleep
  BY <1>2 DEF TimerSleep, timerOnly
<1>3. CASE TimerCheck
  BY <1>3 DEF TimerCheck, timerOnly
<1>4. CASE TimerSignal
  BY <1>4 DEF TimerSignal, CondSignal
<1> QED
  BY <1>1, <1>2, <1>3, <1>4 DEF Timer

\* The socket thread keeps the invariant.
LEMMA SocketStep ==
    ASSUME IInv, Socket PROVE IInv'
<1> USE NumberedFrame DEF IInv, TypeOK, Stages, BatchPlace, InShutdown, WorkerPC,
        Resumable, flags, messages, signals, popped, worker, timer, socket,
        others
<1>1. CASE SocketTriggered
  BY <1>1 DEF SocketTriggered, socketOnly
<1>2. CASE SocketOps
  BY <1>2 DEF SocketOps, socketOnly
<1>3. CASE SocketCheck
  BY <1>3 DEF SocketCheck, socketOnly
<1>4. CASE SocketSignal
  BY <1>4 DEF SocketSignal, CondSignal
<1> QED
  BY <1>1, <1>2, <1>3, <1>4 DEF Socket

\* The worker keeps the invariant.
LEMMA WorkerStep ==
    ASSUME IInv, Worker PROVE IInv'
<1> USE NumberedFrame DEF IInv, TypeOK, Stages, BatchPlace, InShutdown, WorkerPC,
        Resumable, flags, messages, signals, popped, worker, timer, socket,
        others
<1>1. CASE LoopTest
  BY <1>1 DEF LoopTest
<1>2. CASE BacklogQueue
  BY <1>2 DEF BacklogQueue
<1>3. CASE BacklogSignals
  BY <1>3 DEF BacklogSignals
<1>4. CASE CondWait
  BY <1>4 DEF CondWait
<1>5. CASE WakeUp
  BY <1>5 DEF WakeUp
<1>6. CASE PopPeek
  BY <1>6 DEF PopPeek
<1>7. CASE CallbacksDone
  BY <1>7 DEF CallbacksDone
<1>8. CASE TakeSignals
  BY <1>8 DEF TakeSignals
<1>9. CASE SignalsDone
  BY <1>9 DEF SignalsDone
<1>10. CASE StopTimer
  BY <1>10 DEF StopTimer, joining
<1>11. CASE StopSocket
  BY <1>11 DEF StopSocket, joining
<1>12. CASE JoinTimer
  BY <1>12 DEF JoinTimer, joining
<1>13. CASE JoinSocket
  BY <1>13 DEF JoinSocket, joining
<1>14. CASE Start
  BY <1>14 DEF Start, Run
<1>15. CASE SignalCallback
  BY <1>15 DEF SignalCallback, Run
<1>16. CASE Callback
  <2>1. batch' \in Seq(Nat) /\ dispatched' \in Nat /\ Numbered'
    BY <1>16, CallbackNumbered DEF Callback
  <2> QED
    BY <1>16, <2>1 DEF Callback, Run
<1>17. CASE PopTake
  <2>1. batch = <<>> /\ mpc # "freed"
    BY <1>17 DEF PopTake
  <2>2. TypeOK'
    BY <1>17 DEF PopTake
  <2>4. Stages'
    BY <1>17 DEF PopTake
  <2>5. BatchPlace'
    BY <1>17 DEF PopTake
  <2>3. Numbered'
    BY <1>17, <2>1 DEF PopTake, Numbered
  <2> QED
    BY <2>2, <2>3, <2>4, <2>5
<1> QED
  BY <1>1, <1>2, <1>3, <1>4, <1>5, <1>6, <1>7, <1>8, <1>9, <1>10, <1>11, <1>12, <1>13, <1>14, <1>15, <1>16, <1>17 DEF Worker

\* The main thread keeps the invariant.
LEMMA MainStep ==
    ASSUME IInv, Main PROVE IInv'
<1> USE NumberedFrame DEF IInv, TypeOK, Stages, BatchPlace, InShutdown, WorkerPC,
        Resumable, flags, messages, signals, popped, worker, timer, socket,
        others
<1>1. CASE MonitorDone
  BY <1>1 DEF MonitorDone, mainOnly, Numbered
<1>2. CASE JoinWorker
  BY <1>2 DEF JoinWorker, mainOnly, Numbered
<1>3. CASE FreeQueue
  BY <1>3 DEF FreeQueue, Numbered
<1> QED
  BY <1>1, <1>2, <1>3 DEF Main

\* The invariant that the theorems below rest on.
THEOREM Inductive == Spec => []IInv
<1>1. Init => IInv
  <2>1. <<>> \in Seq(Nat) /\ Len(<<>>) = 0
    OBVIOUS
  <2>2. ASSUME Init PROVE TypeOK
    BY <2>1, <2>2 DEF Init, TypeOK, WorkerPC, Resumable
  <2>4. ASSUME Init PROVE Stages /\ BatchPlace
    BY <2>4 DEF Init, Stages, BatchPlace, InShutdown
  <2>3. ASSUME Init PROVE Numbered
    BY <2>1, <2>3 DEF Init, Numbered
  <2> QED
    BY <2>2, <2>3, <2>4 DEF IInv
<1>2. ASSUME IInv, [Next]_vars PROVE IInv'
  <2> USE <1>2
  <2>1. CASE Worker
    BY <2>1, WorkerStep
  <2>2. CASE Timer
    BY <2>2, TimerStep
  <2>3. CASE Socket
    BY <2>3, SocketStep
  <2>4. CASE Main
    BY <2>4, MainStep
  <2>5. CASE TimerExpire
    BY <2>5, PushStep DEF TimerExpire, IInv, Stages, TypeOK, InShutdown
  <2>6. CASE SocketReport
    BY <2>6, PushStep DEF SocketReport, IInv, Stages, TypeOK, InShutdown
  <2>7. ASSUME NEW h \in Hives, HivePush(h) PROVE IInv'
    BY <2>7, PushStep DEF HivePush, IInv, Stages
  <2> USE NumberedFrame DEF IInv, TypeOK, Stages, BatchPlace, InShutdown, WorkerPC,
          Resumable, flags, messages, signals, popped, worker, timer, socket, others
  <2>8. ASSUME NEW h \in Hives, HiveExit(h) PROVE IInv'
    BY <2>8 DEF HiveExit
  <2>9. ASSUME NEW s \in Signals, Raise(s) PROVE IInv'
    BY <2>9 DEF Raise
  <2>10. CASE SpuriousWakeup
    BY <2>10 DEF SpuriousWakeup
  <2>11. CASE SocketEvent
    BY <2>11 DEF SocketEvent, socketOnly
  <2>12. CASE UNCHANGED vars
    BY <2>12 DEF vars
  <2> QED
    BY <2>1, <2>2, <2>3, <2>4, <2>5, <2>6, <2>7, <2>8, <2>9, <2>10, <2>11, <2>12
    DEF Next
<1> QED
  BY <1>1, <1>2, PTL DEF Spec

\* Every variable keeps its type.
THEOREM TypeCorrect == Spec => []TypeOK
  BY Inductive, PTL DEF IInv

\* Messages are called back in the order of their pushes, none lost and none
\* twice, whatever the number of pushing threads.
THEOREM QueueInOrder == Spec => []InOrder
<1>1. IInv => InOrder
  <2> SUFFICES ASSUME IInv, mpc # "freed"
               PROVE  batch \o queue = [i \in 1 .. pushed - dispatched |-> dispatched + i]
    BY DEF InOrder
  <2>1. /\ batch \in Seq(Nat) /\ queue \in Seq(Nat)
        /\ Len(batch) \in Nat /\ Len(queue) \in Nat
        /\ pushed \in Nat /\ dispatched \in Nat
    BY DEF IInv, TypeOK
  <2>2. /\ batch \o queue \in Seq(Nat)
        /\ Len(batch \o queue) = Len(batch) + Len(queue)
        /\ \A i \in 1 .. Len(batch) + Len(queue) : (batch \o queue)[i] =
              IF i <= Len(batch) THEN batch[i] ELSE queue[i - Len(batch)]
    BY <2>1, ConcatProperties
  <2>3. /\ Len(batch) + Len(queue) = pushed - dispatched
        /\ \A i \in 1 .. Len(batch) : batch[i] = dispatched + i
        /\ \A i \in 1 .. Len(queue) : queue[i] = dispatched + Len(batch) + i
    BY DEF IInv, Numbered
  <2>4. ASSUME NEW i \in 1 .. Len(batch) + Len(queue)
        PROVE  (IF i <= Len(batch) THEN batch[i] ELSE queue[i - Len(batch)]) = dispatched + i
    BY <2>1, <2>3
  <2> DEFINE t == [i \in 1 .. pushed - dispatched |-> dispatched + i]
  <2>5. t \in Seq(Nat) /\ Len(t) = pushed - dispatched
    BY <2>1, <2>3
  <2>6. \A i \in 1 .. Len(batch \o queue) : (batch \o queue)[i] = t[i]
    BY <2>2, <2>3, <2>4
  <2>7. Len(batch \o queue) = Len(t)
    BY <2>2, <2>3, <2>5
  <2> HIDE DEF t
  <2>8. batch \o queue = t
    BY <2>2, <2>5, <2>6, <2>7, SeqEqual
  <2> QED
    BY <2>8 DEF t
<1> QED
  BY <1>1, Inductive, PTL

\* The worker never sleeps without the timer thread to wake it: the signal of
\* another thread may be lost between worker_backlog and the wait.
THEOREM ShutdownSafe == Spec => []SleepsSafely
<1>1. IInv => SleepsSafely
  BY DEF IInv, TypeOK, Stages, InShutdown, SleepsSafely
<1> QED
  BY <1>1, Inductive, PTL

\* Nothing is destroyed or freed under a running thread: worker_exit comes when
\* every thread is joined.
THEOREM TeardownSafe == Spec => []EngineSafe
<1>1. IInv => EngineSafe
  BY DEF IInv, TypeOK, Stages, InShutdown, SafeTeardown, EngineSafe
<1> QED
  BY <1>1, Inductive, PTL
=============================================================================
