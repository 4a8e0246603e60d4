------------------------------- MODULE Engine -------------------------------
(***************************************************************************)
(* The threads of engine.c and what they share: the message queue of the   *)
(* worker (queue.c), the condition variable the worker sleeps on, the      *)
(* pending operating-system signals (worker.c), and the shutdown.          *)
(*                                                                         *)
(* The timer and the socket thread push messages and then, seeing          *)
(* workerstatus 0, signal the condition variable WITHOUT its mutex; the    *)
(* threads of a hive and the signal handlers push and signal nobody.  A    *)
(* step is one critical section, one access to a shared variable or one    *)
(* blocking call.                                                          *)
(***************************************************************************)
EXTENDS Naturals, Sequences

CONSTANTS Hives,       \* threads of lhive.c
          Signals,     \* numbers of the watched signals
          MaxPush,     \* bound on the messages pushed in one behaviour
          MaxSignals   \* bound on the signals raised in one behaviour

ASSUME BoundsAssumption == MaxPush \in Nat /\ MaxSignals \in Nat
ASSUME SignalsAssumption == Signals \subseteq Nat

VARIABLES running,      \* R.running
          workerstatus, \* R.workerstatus: 0 sleeping, 1 running
          queue,        \* W->queue: message n is the n-th one pushed
          pushed,       \* how many were pushed
          pending,      \* W->signal_pending, as a set
          raised,       \* how many signals were raised
          wpc,          \* where the worker thread is
          wret,         \* where the worker goes on after engine_shutdown
          got,          \* whether this worker_dispatch popped a message
          batch,        \* the popped list, not yet called back
          dispatched,   \* the last message called back
          sigs,         \* the signals process_pending_signals took
          tpc, tstop,   \* the timer thread; OP_EXIT in its buffer
          spc, sstop,   \* the socket thread; OP_EXIT in its buffer
          mpc,          \* the main thread: engine_run and thread_monitor
          hpc           \* the threads of the hives

flags    == <<running, workerstatus>>
messages == <<queue, pushed>>
signals  == <<pending, raised>>
popped   == <<got, batch, dispatched>>
worker   == <<wpc, wret, popped, sigs>>
timer    == <<tpc, tstop>>
socket   == <<spc, sstop>>
others   == <<timer, socket, mpc, hpc>>
vars == <<flags, messages, signals, worker, others>>

Init ==
    /\ running = 1 /\ workerstatus = 0
    /\ queue = <<>> /\ pushed = 0
    /\ pending = {} /\ raised = 0
    /\ wpc = "start" /\ wret = "loop"
    /\ got = FALSE /\ batch = <<>> /\ dispatched = 0 /\ sigs = {}
    /\ tpc = "update" /\ tstop = FALSE
    /\ spc = "poll" /\ sstop = FALSE
    /\ mpc = "monitor"
    /\ hpc = [h \in Hives |-> "run"]
-----------------------------------------------------------------------------
\* queue_push: the new message goes last, under the queue's spinlock.
Push ==
    /\ pushed < MaxPush
    /\ pushed' = pushed + 1
    /\ queue' = Append(queue, pushed + 1)
    /\ UNCHANGED <<flags, signals, worker, others>>

\* pthread_cond_signal wakes the worker if it sleeps and is lost if not.
CondSignal ==
    /\ wpc' = IF wpc = "wait" THEN "wake" ELSE wpc
    /\ UNCHANGED <<flags, messages, signals, wret, popped, sigs, mpc, hpc>>
-----------------------------------------------------------------------------
(* thread_timer.                                                           *)

timerOnly == <<flags, messages, signals, worker, tstop, socket, mpc, hpc>>

\* timer_update finds OP_EXIT and returns -1.
TimerExit == tpc = "update" /\ tstop /\ tpc' = "exited" /\ UNCHANGED timerOnly

\* timer_update pushes a message for a timer that expired.
TimerExpire == tpc = "update" /\ Push

\* timer_update returns and the thread sleeps for the timer's resolution.
TimerSleep == tpc = "update" /\ ~tstop /\ tpc' = "check" /\ UNCHANGED timerOnly

TimerCheck ==
    /\ tpc = "check"
    /\ tpc' = IF workerstatus = 0 THEN "signal" ELSE "update"
    /\ UNCHANGED timerOnly

\* (fault) the timer thread leaves the waking to those who push.
TimerSignal_Never == tpc = "signal" /\ tpc' = "update" /\ UNCHANGED timerOnly

TimerSignal ==
    /\ tpc = "signal"
    /\ CondSignal
    /\ tpc' = "update"
    /\ UNCHANGED <<tstop, socket>>

Timer == TimerExit \/ TimerSleep \/ TimerCheck \/ TimerSignal
-----------------------------------------------------------------------------
(* thread_socket.  socket_poll blocks until a socket has an event or the   *)
(* trigger of module OpChannel was fired.                                  *)

socketOnly == <<flags, messages, signals, worker, timer, sstop, mpc, hpc>>

SocketEvent == spc = "poll" /\ spc' = "ops" /\ UNCHANGED socketOnly
SocketTriggered == spc = "poll" /\ sstop /\ spc' = "ops" /\ UNCHANGED socketOnly

\* op_process comes before the events; on OP_EXIT socket_poll returns -1.
SocketOps ==
    /\ spc = "ops"
    /\ spc' = IF sstop THEN "exited" ELSE "report"
    /\ UNCHANGED socketOnly

SocketReport == spc = "report" /\ Push

SocketCheck ==
    /\ spc = "report"
    /\ spc' = IF workerstatus = 0 THEN "signal" ELSE "poll"
    /\ UNCHANGED socketOnly

SocketSignal ==
    /\ spc = "signal"
    /\ CondSignal
    /\ spc' = "poll"
    /\ UNCHANGED <<sstop, timer>>

Socket == SocketTriggered \/ SocketOps \/ SocketCheck \/ SocketSignal
-----------------------------------------------------------------------------
(* The pushers that signal nobody.                                         *)

\* thread_func of lhive.c pushes the message of a finished call.
HivePush(h) == hpc[h] = "run" /\ Push

\* signal_handler: a signal that is already pending coalesces with it.
Raise(s) ==
    /\ mpc # "freed"
    /\ raised < MaxSignals
    /\ raised' = raised + 1
    /\ pending' = pending \cup {s}
    /\ UNCHANGED <<flags, messages, worker, others>>
-----------------------------------------------------------------------------
(* thread_worker: its loop and worker_dispatch.                            *)

\* (fault) the loop does not test R.running.
LoopTest_NoTest ==
    /\ wpc = "loop"
    /\ workerstatus' = 0
    /\ wpc' = "backlog"
    /\ UNCHANGED <<running, messages, signals, wret, popped, sigs, others>>

\* while (R.running) { R.workerstatus = 0; ...
LoopTest ==
    /\ wpc = "loop"
    /\ \/ running = 1 /\ workerstatus' = 0 /\ wpc' = "backlog"
       \/ running = 0 /\ wpc' = "exited" /\ UNCHANGED workerstatus
    /\ UNCHANGED <<running, messages, signals, wret, popped, sigs, others>>

\* worker_backlog reads the queue's size and then the pending signals.
BacklogQueue ==
    /\ wpc = "backlog"
    /\ wpc' = IF queue = <<>> THEN "backlog_signals" ELSE "wake"
    /\ UNCHANGED <<flags, messages, signals, wret, popped, sigs, others>>

BacklogSignals ==
    /\ wpc = "backlog_signals"
    /\ wpc' = IF pending = {} THEN "cond_wait" ELSE "wake"
    /\ UNCHANGED <<flags, messages, signals, wret, popped, sigs, others>>

\* A push and its signal may come before this step: that wake-up is lost.
CondWait ==
    /\ wpc = "cond_wait"
    /\ wpc' = "wait"
    /\ UNCHANGED <<flags, messages, signals, wret, popped, sigs, others>>

SpuriousWakeup ==
    /\ wpc = "wait"
    /\ wpc' = "wake"
    /\ UNCHANGED <<flags, messages, signals, wret, popped, sigs, others>>

WakeUp ==
    /\ wpc = "wake"
    /\ workerstatus' = 1
    /\ got' = FALSE
    /\ wpc' = "peek"
    /\ UNCHANGED <<running, messages, signals, wret, batch, dispatched, sigs,
                   others>>

\* queue_pop reads the head without the lock.  worker_dispatch returns on an
\* empty queue, after the pending signals if it popped no message yet.
PopPeek ==
    /\ wpc = "peek"
    /\ wpc' = IF queue # <<>> THEN "take" ELSE IF got THEN "loop" ELSE "swap"
    /\ UNCHANGED <<flags, messages, signals, wret, popped, sigs, others>>

\* (fault) queue_pop reads the list and resets the queue in two steps.
PopTake_Unlocked ==
    /\ wpc = "take"
    /\ got' = TRUE
    /\ \/ batch = <<>> /\ batch' = queue /\ UNCHANGED <<queue, wpc>>
       \/ batch # <<>> /\ queue' = <<>> /\ wpc' = "messages" /\ UNCHANGED batch
    /\ UNCHANGED <<flags, pushed, signals, wret, dispatched, sigs, others>>

\* queue_pop takes the whole list under the lock.
PopTake ==
    /\ wpc = "take"
    /\ got' = TRUE
    /\ batch' = queue
    /\ queue' = <<>>
    /\ wpc' = "messages"
    /\ UNCHANGED <<flags, pushed, signals, wret, dispatched, sigs, others>>

\* A callback, or the bootstrap script, returns; or it calls silly.exit:
\* engine_shutdown begins, and the worker goes on at `here' when it returns.
\* (A second silly.exit would join joined threads; it is not modelled.)
Run(here) ==
    \/ wpc' = here /\ UNCHANGED <<running, wret>>
    \/ running = 1 /\ running' = 0 /\ wret' = here /\ wpc' = "stop_timer"

\* worker_start.
Start ==
    /\ wpc = "start"
    /\ Run("loop")
    /\ UNCHANGED <<workerstatus, messages, signals, popped, sigs, others>>

Callback ==
    /\ wpc = "messages"
    /\ batch # <<>>
    /\ batch' = Tail(batch)
    /\ dispatched' = Head(batch)
    /\ Run("messages")
    /\ UNCHANGED <<workerstatus, messages, signals, got, sigs, others>>

CallbacksDone ==
    /\ wpc = "messages"
    /\ batch = <<>>
    /\ wpc' = "swap"
    /\ UNCHANGED <<flags, messages, signals, wret, popped, sigs, others>>

\* process_pending_signals exchanges the pending signals with none.
TakeSignals ==
    /\ wpc = "swap"
    /\ sigs' = pending
    /\ pending' = {}
    /\ wpc' = "signals"
    /\ UNCHANGED <<flags, messages, raised, wret, popped, others>>

\* Signals are called back from the lowest bit up.
SignalCallback ==
    /\ wpc = "signals"
    /\ \E s \in sigs :
          /\ \A t \in sigs : s <= t
          /\ sigs' = sigs \ {s}
    /\ Run("signals")
    /\ UNCHANGED <<workerstatus, messages, signals, popped, others>>

SignalsDone ==
    /\ wpc = "signals"
    /\ sigs = {}
    /\ wpc' = IF got THEN "peek" ELSE "loop"
    /\ UNCHANGED <<flags, messages, signals, wret, popped, sigs, others>>
-----------------------------------------------------------------------------
(* engine_shutdown, on the worker thread.                                  *)

joining == <<flags, messages, signals, wret, popped, sigs, mpc, hpc>>

StopTimer ==
    /\ wpc = "stop_timer"
    /\ tstop' = TRUE
    /\ wpc' = "stop_socket"
    /\ UNCHANGED <<joining, tpc, socket>>

StopSocket ==
    /\ wpc = "stop_socket"
    /\ sstop' = TRUE
    /\ wpc' = "join_timer"
    /\ UNCHANGED <<joining, timer, spc>>

JoinTimer ==
    /\ wpc = "join_timer"
    /\ tpc = "exited"
    /\ wpc' = "join_socket"
    /\ UNCHANGED <<joining, timer, socket>>

JoinSocket ==
    /\ wpc = "join_socket"
    /\ spc = "exited"
    /\ wpc' = wret
    /\ UNCHANGED <<joining, timer, socket>>

Worker ==
    \/ Start \/ LoopTest \/ BacklogQueue \/ BacklogSignals \/ CondWait
    \/ WakeUp \/ PopPeek \/ PopTake \/ Callback \/ CallbacksDone
    \/ TakeSignals \/ SignalCallback \/ SignalsDone
    \/ StopTimer \/ StopSocket \/ JoinTimer \/ JoinSocket
-----------------------------------------------------------------------------
(* The main thread: thread_monitor, then the end of engine_run.            *)

mainOnly == <<flags, messages, signals, worker, timer, socket, hpc>>

MonitorDone ==
    /\ mpc = "monitor"
    /\ running = 0
    /\ mpc' = "join"
    /\ UNCHANGED mainOnly

\* pthread_join, then the mutex and the condition variable are destroyed.
JoinWorker ==
    /\ mpc = "join"
    /\ wpc = "exited"
    /\ mpc' = "lua_close"
    /\ UNCHANGED mainOnly

\* lua_close: the finaliser of the hive pool tells its threads to exit and
\* joins them; a thread may push the result of its last call before.
HiveExit(h) ==
    /\ mpc = "lua_close"
    /\ hpc[h] = "run"
    /\ hpc' = [hpc EXCEPT ![h] = "exited"]
    /\ UNCHANGED <<flags, messages, signals, worker, timer, socket, mpc>>

\* (fault) the queue is freed before lua_close.
FreeQueue_First ==
    /\ mpc = "lua_close"
    /\ queue' = <<>>
    /\ mpc' = "freed"
    /\ UNCHANGED <<flags, pushed, signals, worker, timer, socket, hpc>>

\* queue_free frees what was never called back, then the worker is freed.
FreeQueue ==
    /\ mpc = "lua_close"
    /\ \A h \in Hives : hpc[h] = "exited"
    /\ queue' = <<>>
    /\ mpc' = "freed"
    /\ UNCHANGED <<flags, pushed, signals, worker, timer, socket, hpc>>

Main == MonitorDone \/ JoinWorker \/ FreeQueue
-----------------------------------------------------------------------------
Next ==
    \/ Worker \/ SpuriousWakeup
    \/ Timer \/ TimerExpire
    \/ Socket \/ SocketEvent \/ SocketReport
    \/ \E h \in Hives : HivePush(h) \/ HiveExit(h)
    \/ \E s \in Signals : Raise(s)
    \/ Main

Spec == Init /\ [][Next]_vars

\* Every thread runs, a callback returns, nanosleep ends, and a hive's call
\* ends.  Nothing makes a socket event, a timer or a signal happen, and the
\* condition variable owes nobody a spurious wake-up.
FairSpec ==
    /\ Spec
    /\ WF_vars(Worker) /\ WF_vars(Timer) /\ WF_vars(Socket) /\ WF_vars(Main)
    /\ \A h \in Hives : WF_vars(HiveExit(h))
-----------------------------------------------------------------------------
Resumable == {"loop", "messages", "signals"}
WorkerPC == Resumable \cup
    {"start", "backlog", "backlog_signals", "cond_wait", "wait", "wake",
     "peek", "take", "swap", "stop_timer", "stop_socket", "join_timer",
     "join_socket", "exited"}

\* Every variable has its type.
TypeOK ==
    /\ running \in {0, 1} /\ workerstatus \in {0, 1}
    /\ pushed \in Nat /\ queue \in Seq(Nat)
    /\ raised \in Nat /\ pending \subseteq Signals /\ sigs \subseteq Signals
    /\ wpc \in WorkerPC /\ wret \in Resumable
    /\ got \in BOOLEAN /\ batch \in Seq(Nat) /\ dispatched \in Nat
    /\ tpc \in {"update", "check", "signal", "exited"} /\ tstop \in BOOLEAN
    /\ spc \in {"poll", "ops", "report", "signal", "exited"} /\ sstop \in BOOLEAN
    /\ mpc \in {"monitor", "join", "lua_close", "freed"}
    /\ hpc \in [Hives -> {"run", "exited"}]

\* Until the queue is freed, the popped list followed by the queue holds
\* exactly the messages not yet called back, in the order of their pushes:
\* queue_push and the unlocked first test of queue_pop lose, repeat and
\* reorder nothing, whoever pushes while worker_dispatch takes the list.
InOrder ==
    mpc # "freed" =>
        batch \o queue = [i \in 1 .. pushed - dispatched |-> dispatched + i]

\* The worker sleeps only while the timer thread is there to wake it: the
\* signal of the others may be lost between worker_backlog and the wait.
SleepsSafely == wpc \in {"cond_wait", "wait"} => tpc # "exited"

\* The condition variable is destroyed, and the queue freed, only when no
\* thread is left that could signal the one or push to the other.
SafeTeardown ==
    /\ mpc \in {"lua_close", "freed"} =>
          wpc = "exited" /\ tpc = "exited" /\ spc = "exited"
    /\ mpc = "freed" => \A h \in Hives : hpc[h] = "exited"

\* A message is called back, though the signal that announced it was lost or
\* never sent, unless the engine shuts down.
MessagesCalledBack ==
    \A n \in 1 .. MaxPush :
        pushed >= n ~> (dispatched >= n \/ mpc \in {"lua_close", "freed"})

\* A raised signal is called back, unless the engine shuts down.
SignalsCalledBack ==
    \A s \in Signals :
        s \in pending ~> (s \notin pending \/ mpc \in {"lua_close", "freed"})

\* silly.exit ends the process: every join finds its thread gone.
ShutdownEnds == running = 0 ~> mpc = "freed"

\* The types, and the order in which the engine is taken down (worker_exit, engine_run).
EngineSafe == TypeOK /\ SafeTeardown

\* Whatever signal of the condition is lost, messages and signals are called back, and
\* silly.exit from any callback ends the process (worker.c, engine.c).
EngineProgress == MessagesCalledBack /\ SignalsCalledBack /\ ShutdownEnds
=============================================================================
