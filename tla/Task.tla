-------------------------------- MODULE Task --------------------------------
(***************************************************************************)
(* The coroutine scheduler of task.lua on the worker's Lua state.  Message *)
(* handlers run in the main coroutine and resume a task directly; whatever *)
(* is woken or forked meanwhile waits in wakeup_task_queue until           *)
(* _dispatch_wakeup, called after every message, has emptied it.  A task   *)
(* keeps its trace id across its yields.                                   *)
(***************************************************************************)
EXTENDS Naturals, Sequences, Functions

CONSTANTS Tasks,    \* coroutines
          Values, Nil, \* what a task is forked or woken with
          None,     \* no task, no value: a field that is not set
          Traces    \* trace ids

Untraced == 0

ASSUME TaskAssumption == Nil \notin Values /\ Untraced \notin Traces

VARIABLES status,   \* task_status, "none" for nil
          traceid,  \* task_traceid
          running,  \* the resumed tasks, task_running last; empty in the main coroutine
          saved,    \* the trace context each resume returns to
          trace,    \* trace_ctx of the worker thread
          copool,   \* finished coroutines waiting for a function
          ready,    \* wakeup_task_queue
          param,    \* wakeup_task_param
          events,   \* tasks that a message or a timer has to resume
          exited    \* _exit has replaced the queue

tvars == <<status, traceid, running, saved, trace, copool, ready, param, events, exited>>

\* The stack of resumes: the innermost one, and what it returns to.
Top(s) == s[Len(s)]
Below(s) == SubSeq(s, 1, Len(s) - 1)

Current == Top(running)
InMain == running = <<>>

TaskInit ==
  /\ status = [t \in Tasks |-> "none"]
  /\ traceid = [t \in Tasks |-> Untraced]
  /\ running = <<>> /\ saved = <<>> /\ trace = Untraced
  /\ copool = {}
  /\ ready = <<>>
  /\ param = [t \in Tasks |-> Nil]
  /\ events = {}
  /\ exited = FALSE

\* task_create: a pooled coroutine, or a new one.  copool is weak: a collection
\* leaves holes, and `#copool' is then any border, so any of them may be taken.
Create(t) == status[t] = "none" /\ copool' = copool \ {t}

\* task_resume up to the first instruction of the task; lresume of ltrace.c
\* exchanges the trace context.
Resume(t) ==
  /\ running' = Append(running, t)
  /\ saved' = Append(saved, trace)
  /\ trace' = traceid[t]
  /\ status' = [status EXCEPT ![t] = "RUN"]

\* The rest of task_resume once the running task has yielded in status st.
StatusBack(st) ==
  [t \in Tasks |-> IF t = Current THEN st
                   ELSE IF Len(running) > 1 /\ t = Top(Below(running)) THEN "RUN"
                   ELSE status[t]]

\* (fault) lresume does not put the trace context back
Back_KeepsTrace(st) ==
  /\ status' = StatusBack(st)
  /\ running' = Below(running) /\ saved' = Below(saved)
  /\ trace' = trace
Back(st) ==
  /\ status' = StatusBack(st)
  /\ running' = Below(running) /\ saved' = Below(saved)
  /\ trace' = Top(saved)

\* qpush: _exit replaces it by a function that does nothing.
\* (fault) the newest task first
Queued_Lifo(t) == IF exited THEN ready ELSE <<t>> \o ready
Queued(t) == IF exited THEN ready ELSE Append(ready, t)

Given(t, v) == [param EXCEPT ![t] = IF v = Nil THEN @ ELSE v]

-----------------------------------------------------------------------------
(* What a running task does. *)

\* task.fork
Fork(t, v) ==
  /\ ~InMain /\ Create(t)
  /\ status' = [status EXCEPT ![t] = "READY"]
  /\ param' = Given(t, v)
  /\ ready' = Queued(t)
  /\ UNCHANGED <<traceid, running, saved, trace, events, exited>>

\* task.wait for a wakeup
Wait ==
  /\ ~InMain /\ status[Current] = "RUN"
  /\ Back("WAIT")
  /\ UNCHANGED <<traceid, copool, ready, param, events, exited>>

\* task.wait for the answer to a request on a socket (net.lua) ...
Await ==
  /\ ~InMain /\ status[Current] = "RUN"
  /\ Back("WAIT")
  /\ events' = events \cup {Current}
  /\ UNCHANGED <<traceid, copool, ready, param, exited>>

\* ... and time.sleep, which yields without a change of status.
Sleep ==
  /\ ~InMain
  /\ Back(status[Current])
  /\ events' = events \cup {Current}
  /\ UNCHANGED <<traceid, copool, ready, param, exited>>

\* task.wakeup, called on tasks that wait for it; otherwise it raises: Fail.
\* (fault) the task stays in status WAIT
Wakeup_Waiting(t, v) ==
  /\ ~InMain
  /\ t \notin events /\ status[t] = "WAIT"
  /\ param' = Given(t, v)
  /\ ready' = Queued(t)
  /\ UNCHANGED <<status, traceid, running, saved, trace, copool, events, exited>>
Wakeup(t, v) ==
  /\ ~InMain
  /\ t \notin events /\ status[t] = "WAIT"
  /\ status' = [status EXCEPT ![t] = "READY"]
  /\ param' = Given(t, v)
  /\ ready' = Queued(t)
  /\ UNCHANGED <<traceid, running, saved, trace, copool, events, exited>>

\* _tracespawn and _traceattach
Attach(id) ==
  /\ ~InMain
  /\ traceid' = [traceid EXCEPT ![Current] = id]
  /\ trace' = id
  /\ UNCHANGED <<status, running, saved, copool, ready, param, events, exited>>

\* The function of the task returns: the coroutine goes back to the pool.
Finish ==
  /\ ~InMain
  /\ Back("none")
  /\ traceid' = [traceid EXCEPT ![Current] = Untraced]
  /\ copool' = copool \cup {Current}
  /\ UNCHANGED <<ready, param, events, exited>>

\* The task raises: task_resume forgets and closes it.
Fail ==
  /\ ~InMain
  /\ Back("none")
  /\ traceid' = [traceid EXCEPT ![Current] = Untraced]
  /\ UNCHANGED <<copool, ready, param, events, exited>>

\* silly.exit: called in the main coroutine its yield is an error, which ends
\* the handler; in a task nobody resumes it again.
Exit ==
  /\ exited' = TRUE
  /\ ready' = <<>>
  /\ param' = [t \in Tasks |-> Nil]
  /\ IF InMain THEN UNCHANGED <<status, running, saved, trace>> ELSE Back("RUN")
  /\ UNCHANGED <<traceid, copool, events>>

-----------------------------------------------------------------------------
(* What the main coroutine does. *)

\* One round of _dispatch_wakeup
Dispatch ==
  /\ InMain /\ ready # <<>>
  /\ ready' = Tail(ready)
  /\ param' = [param EXCEPT ![Head(ready)] = Nil]
  /\ Resume(Head(ready))
  /\ UNCHANGED <<traceid, copool, events, exited>>

\* A message for a task: EXPIRE, LISTEN, CONNECT, the answer of a hive.
Message(t) ==
  /\ InMain /\ ready = <<>>
  /\ t \in events /\ events' = events \ {t}
  /\ Resume(t)
  /\ UNCHANGED <<traceid, copool, ready, param, exited>>

\* A message for a function: timers, signals, ACCEPT, TCPDATA, CLOSE; and _start.
MessageTask(t) ==
  /\ InMain /\ ready = <<>>
  /\ Create(t)
  /\ Resume(t)
  /\ UNCHANGED <<traceid, ready, param, events, exited>>

\* A message for connect_timer of net.lua: a task that resumes the connecting
\* task itself and goes on when that one yields.
ConnectTimer(t, u) ==
  /\ InMain /\ ready = <<>>
  /\ Create(t)
  /\ u \in events /\ status[u] = "WAIT" /\ events' = events \ {u}
  /\ running' = <<t, u>>
  /\ saved' = <<trace, traceid[t]>> /\ trace' = traceid[u]
  /\ status' = [status EXCEPT ![t] = "RUN", ![u] = "RUN"]
  /\ UNCHANGED <<traceid, ready, param, exited>>

Slice == Wait \/ Await \/ Sleep \/ Finish \/ Fail \/ Exit
TaskNext ==
  \/ \E t \in Tasks, v \in Values \cup {Nil} : Fork(t, v) \/ Wakeup(t, v)
  \/ \E id \in Traces : Attach(id)
  \/ Slice
  \/ Dispatch
  \/ \E t \in Tasks : Message(t) \/ MessageTask(t)
  \/ \E t, u \in Tasks : ConnectTimer(t, u)

TaskSpec == TaskInit /\ [][TaskNext]_tvars

\* The functions of the tasks return or yield, and the dispatch loop goes on.
TaskFairSpec == TaskSpec /\ WF_tvars(Dispatch) /\ WF_tvars(~InMain /\ Slice)

-----------------------------------------------------------------------------
Statuses == {"none", "READY", "RUN", "WAIT"}

\* Types of the scheduler's tables; one saved trace context for each resume.
TypeOK ==
  /\ status \in [Tasks -> Statuses]
  /\ traceid \in [Tasks -> Traces \cup {Untraced}]
  /\ running \in Seq(Tasks)
  /\ saved \in Seq(Traces \cup {Untraced}) /\ Len(saved) = Len(running)
  /\ trace \in Traces \cup {Untraced}
  /\ copool \subseteq Tasks /\ events \subseteq Tasks
  /\ ready \in Seq(Tasks)
  /\ param \in [Tasks -> Values \cup {Nil}]
  /\ exited \in BOOLEAN

\* Until the exit the queue holds every READY task, once, and nothing else.  So
\* no wakeup is lost and no task is resumed for the same wakeup twice.
ReadyExact ==
  /\ IsInjective(ready)
  /\ \A i \in 1..Len(ready) : status[ready[i]] = "READY"
  /\ ~exited => \A t \in Tasks : status[t] = "READY" => \E i \in 1..Len(ready) : ready[i] = t

\* A parameter is left only for a queued task: a coroutine that is reused, or a
\* task that is woken without a value, never gets the value of an earlier wakeup.
ParamIsOwn == ~exited => \A t \in Tasks : param[t] # Nil => status[t] = "READY"

\* A task is resumed once at a time, runs in status RUN, and is not also owed a
\* resume by a message; a task a message will resume has yielded and is not queued.
StackExact ==
  /\ IsInjective(running)
  /\ \A i \in 1..Len(running) : status[running[i]] = "RUN" /\ running[i] \notin events
  /\ \A t \in events : status[t] \in {"RUN", "WAIT"}

\* A coroutine in the pool is bare: task.fork gives it to a new function.
PooledIsIdle ==
  /\ \A t \in copool : status[t] = "none"
  /\ \A t \in Tasks : status[t] = "none" => traceid[t] = Untraced

\* A task and what it logs carry its own trace id, however the resumes nest.
TraceIsOwn == trace = IF InMain THEN Untraced ELSE traceid[Current]

\* Tasks never mix, though coroutines are reused and resumes nest: parameters,
\* the stack of resumes, the pool and the trace ids belong to one task each.
TasksApart == ParamIsOwn /\ StackExact /\ PooledIsIdle /\ TraceIsOwn

\* Every READY task is resumed.
ReadyRuns == \A t \in Tasks : status[t] = "READY" ~> status[t] = "RUN" \/ exited
=============================================================================
