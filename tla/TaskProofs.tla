----------------------------- MODULE TaskProofs -----------------------------
(***************************************************************************)
(* The inductive invariant of module Task, for any number of tasks, what   *)
(* its operations do to a state in the invariant, and the theorems.        *)
(***************************************************************************)
EXTENDS Task, FiniteSets, TLAPS

\* Every resume returns to the trace id of the task that made it: TraceIsOwn
\* needs it of the tasks below the running one.
SavedIsOwn ==
  \A i \in 1..Len(saved) : saved[i] = IF i = 1 THEN Untraced ELSE traceid[running[i - 1]]

Queues == ReadyExact /\ ParamIsOwn
Stacks == StackExact /\ TraceIsOwn /\ SavedIsOwn
IInv == TypeOK /\ Queues /\ Stacks /\ PooledIsIdle

-----------------------------------------------------------------------------
\* What the provers need to be told of a sequence.
LEMMA SeqLen ==
  ASSUME NEW S, NEW s \in Seq(S)
  PROVE  /\ Len(s) \in Nat /\ DOMAIN s = 1..Len(s) /\ \A i \in 1..Len(s) : s[i] \in S
         /\ Len(s) = 0 <=> s = <<>>
  OBVIOUS

\* Below drops the innermost resume and nothing else.
LEMMA BelowFacts ==
  ASSUME NEW S, NEW s \in Seq(S), s # <<>>
  PROVE  /\ Len(s) \in Nat \ {0} /\ Top(s) \in S
         /\ Below(s) \in Seq(S) /\ Len(Below(s)) = Len(s) - 1
         /\ \A i \in 1..Len(s) - 1 : Below(s)[i] = s[i]
<1>1. Len(s) \in Nat \ {0} /\ \A i \in 1..Len(s) : s[i] \in S
  BY SeqLen
<1> DEFINE n == Len(s)
           f == SubSeq(s, 1, n - 1)
<1>2. n \in Nat \ {0} /\ \A i \in 1..n - 1 : s[i] \in S
  BY <1>1
<1> HIDE DEF n
<1>3. f \in Seq(S)
  BY <1>2
<1>4. Len(f) = n - 1
  BY <1>2
<1>5. \A i \in 1..n - 1 : f[i] = s[i]
  BY <1>2
<1>6. Below(s) = f /\ Top(s) \in S
  BY <1>1 DEF Below, Top, n
<1>7. QED
  BY <1>2, <1>3, <1>4, <1>5, <1>6 DEF n

\* What the return of the running task to task_resume does: only its own status
\* changes, because the task below it is in status RUN already.
LEMMA BackFacts ==
  ASSUME IInv, ~InMain, NEW st, Back(st)
  PROVE  /\ Current \in Tasks /\ status[Current] = "RUN" /\ Current \notin events
         /\ status' = [status EXCEPT ![Current] = st]
         /\ running' \in Seq(Tasks) /\ Len(running') = Len(running) - 1
         /\ Len(running) \in Nat \ {0}
         /\ \A i \in 1..Len(running) - 1 : running'[i] = running[i] /\ running[i] # Current
         /\ saved' \in Seq(Traces \cup {Untraced}) /\ Len(saved') = Len(saved) - 1
         /\ \A i \in 1..Len(running) - 1 : saved'[i] = saved[i]
         /\ trace' = saved[Len(running)]
<1> USE DEF IInv, Stacks
<1>1. running \in Seq(Tasks) /\ running # <<>> /\ saved \in Seq(Traces \cup {Untraced})
      /\ Len(saved) = Len(running)
  BY DEF TypeOK, InMain
<1>2. /\ Len(running) \in Nat \ {0} /\ Current \in Tasks /\ Current = running[Len(running)]
      /\ running' \in Seq(Tasks) /\ Len(running') = Len(running) - 1
      /\ \A i \in 1..Len(running) - 1 : running'[i] = running[i]
  BY <1>1, BelowFacts DEF Back, Current, Top
<1>3. saved # <<>>
  BY <1>1, <1>2, SeqLen
<1>4. /\ saved' \in Seq(Traces \cup {Untraced}) /\ Len(saved') = Len(saved) - 1
      /\ \A i \in 1..Len(running) - 1 : saved'[i] = saved[i]
      /\ trace' = saved[Len(running)]
  BY <1>1, <1>3, BelowFacts DEF Back, Top
<1>5. status[Current] = "RUN" /\ Current \notin events
  BY <1>2 DEF StackExact
<1>6. \A i \in 1..Len(running) - 1 : running[i] # Current
  BY <1>1, <1>2, SeqLen DEF StackExact, IsInjective
<1>7. status' = [status EXCEPT ![Current] = st]
  <2>1. Len(running) > 1 => status[Top(Below(running))] = "RUN"
    <3> SUFFICES ASSUME Len(running) > 1
                 PROVE  status[Top(Below(running))] = "RUN"
      OBVIOUS
    <3>1. Top(Below(running)) = running[Len(running) - 1]
      BY <1>1, <1>2 DEF Back, Top
    <3>2. QED
      BY <3>1, <1>2 DEF StackExact
  <2>2. QED
    BY <2>1 DEF Back, StatusBack, TypeOK
<1>8. QED
  BY <1>2, <1>4, <1>5, <1>6, <1>7

\* Resuming t: it is put on the stack, in status RUN.
LEMMA ResumeFacts ==
  ASSUME IInv, NEW t \in Tasks, Resume(t)
  PROVE  /\ status' = [status EXCEPT ![t] = "RUN"]
         /\ running' \in Seq(Tasks) /\ Len(running) \in Nat /\ Len(running') = Len(running) + 1
         /\ \A i \in 1..Len(running) : running'[i] = running[i]
         /\ running'[Len(running) + 1] = t
         /\ saved' \in Seq(Traces \cup {Untraced}) /\ Len(saved') = Len(running) + 1
         /\ \A i \in 1..Len(running) : saved'[i] = saved[i]
         /\ saved'[Len(running) + 1] = trace
         /\ trace' = traceid[t]
<1>1. /\ running \in Seq(Tasks) /\ saved \in Seq(Traces \cup {Untraced})
      /\ Len(saved) = Len(running) /\ trace \in Traces \cup {Untraced}
  BY DEF IInv, TypeOK
<1>2. QED
  BY <1>1 DEF Resume

-----------------------------------------------------------------------------
\* The stack after a return: what is below the running task is as it was.
LEMMA BackStack ==
  ASSUME IInv, ~InMain, NEW st \in Statuses, Back(st),
         events' \in {events, events \cup {Current}},
         Current \in events' => st \in {"RUN", "WAIT"},
         traceid' \in {traceid, [traceid EXCEPT ![Current] = Untraced]}
  PROVE  Stacks'
<1> USE DEF IInv, Stacks
<1>1. /\ Current \in Tasks /\ status[Current] = "RUN" /\ Current \notin events
      /\ status' = [status EXCEPT ![Current] = st]
      /\ running' \in Seq(Tasks) /\ Len(running') = Len(running) - 1
      /\ Len(running) \in Nat \ {0}
      /\ \A i \in 1..Len(running) - 1 : running'[i] = running[i] /\ running[i] # Current
      /\ saved' \in Seq(Traces \cup {Untraced}) /\ Len(saved') = Len(saved) - 1
      /\ \A i \in 1..Len(running) - 1 : saved'[i] = saved[i]
      /\ trace' = saved[Len(running)]
  BY BackFacts
<1>2. Len(saved) = Len(running) /\ status \in [Tasks -> Statuses]
      /\ traceid \in [Tasks -> Traces \cup {Untraced}] /\ running \in Seq(Tasks)
      /\ events \subseteq Tasks
  BY DEF TypeOK
<1>3. \A i \in 1..Len(running) - 1 : running[i] \in Tasks /\ traceid'[running[i]] = traceid[running[i]]
  BY <1>1, <1>2
<1>4. StackExact'
  <2>1. IsInjective(running')
    <3>1. DOMAIN running' = 1..Len(running) - 1 /\ DOMAIN running = 1..Len(running)
      BY <1>1, <1>2, SeqLen
    <3>2. QED
      BY <1>1, <3>1 DEF StackExact, IsInjective
  <2>2. \A i \in 1..Len(running') : status'[running'[i]] = "RUN" /\ running'[i] \notin events'
    BY <1>1, <1>2, <1>3 DEF StackExact
  <2>3. \A t \in events' : status'[t] \in {"RUN", "WAIT"}
    BY <1>1, <1>2 DEF StackExact
  <2>4. QED
    BY <2>1, <2>2, <2>3 DEF StackExact
<1>5. SavedIsOwn'
  BY <1>1, <1>2, <1>3 DEF SavedIsOwn
<1>6. TraceIsOwn'
  <2>1. trace' = IF Len(running) = 1 THEN Untraced ELSE traceid[running[Len(running) - 1]]
    BY <1>1, <1>2 DEF SavedIsOwn
  <2>2. CASE Len(running) = 1
    <3>1. running' = <<>>
      BY <1>1, <2>2, SeqLen
    <3>2. QED
      BY <2>1, <2>2, <3>1 DEF TraceIsOwn, InMain
  <2>3. CASE Len(running) # 1
    <3>1. running' # <<>> /\ Top(running') = running[Len(running) - 1]
      BY <1>1, <2>3, SeqLen DEF Top
    <3>2. QED
      BY <1>1, <1>3, <2>1, <2>3, <3>1 DEF TraceIsOwn, InMain, Current
  <2>4. QED
    BY <2>2, <2>3
<1>7. QED
  BY <1>4, <1>5, <1>6

\* The queue after a yield: the task was running, so it is not queued.
LEMMA BackQueues ==
  ASSUME IInv, ~InMain, NEW st \in Statuses \ {"READY"}, Back(st), UNCHANGED <<ready, param, exited>>
  PROVE  Queues'
<1>1. Current \in Tasks /\ status[Current] = "RUN" /\ status' = [status EXCEPT ![Current] = st]
  BY BackFacts
<1>2. status \in [Tasks -> Statuses] /\ ready \in Seq(Tasks)
  BY DEF IInv, TypeOK
<1>3. QED
  BY <1>1, <1>2 DEF IInv, Queues, ReadyExact, ParamIsOwn, Statuses

\* Types after a yield.
LEMMA BackTypes ==
  ASSUME IInv, ~InMain, NEW st \in Statuses, Back(st), UNCHANGED <<ready, param, exited>>,
         copool' \in {copool, copool \cup {Current}},
         events' \in {events, events \cup {Current}},
         traceid' \in {traceid, [traceid EXCEPT ![Current] = Untraced]}
  PROVE  TypeOK'
<1>1. /\ Current \in Tasks /\ status' = [status EXCEPT ![Current] = st]
      /\ running' \in Seq(Tasks) /\ Len(running') = Len(running) - 1 /\ Len(running) \in Nat \ {0}
      /\ saved' \in Seq(Traces \cup {Untraced}) /\ Len(saved') = Len(saved) - 1
      /\ trace' = saved[Len(running)]
  BY BackFacts
<1>2. trace' \in Traces \cup {Untraced}
  BY <1>1 DEF IInv, TypeOK
<1>3. QED
  BY <1>1, <1>2 DEF IInv, TypeOK

\* The stack after a resume of a task that is not on it.
LEMMA ResumeStack ==
  ASSUME IInv, NEW t \in Tasks, Resume(t), \A i \in 1..Len(running) : running[i] # t,
         events' = events \ {t}, traceid' = traceid
  PROVE  Stacks'
<1> USE DEF IInv, Stacks
<1>1. /\ status' = [status EXCEPT ![t] = "RUN"]
      /\ running' \in Seq(Tasks) /\ Len(running) \in Nat /\ Len(running') = Len(running) + 1
      /\ \A i \in 1..Len(running) : running'[i] = running[i]
      /\ running'[Len(running) + 1] = t
      /\ saved' \in Seq(Traces \cup {Untraced}) /\ Len(saved') = Len(running) + 1
      /\ \A i \in 1..Len(running) : saved'[i] = saved[i]
      /\ saved'[Len(running) + 1] = trace
      /\ trace' = traceid[t]
  BY ResumeFacts
<1>2. Len(saved) = Len(running) /\ status \in [Tasks -> Statuses] /\ running \in Seq(Tasks)
      /\ events \subseteq Tasks
  BY DEF TypeOK
<1>3. StackExact'
  <2>1. IsInjective(running')
    <3>1. DOMAIN running' = 1..Len(running) + 1 /\ DOMAIN running = 1..Len(running)
      BY <1>1, <1>2, SeqLen
    <3>2. QED
      BY <1>1, <3>1 DEF StackExact, IsInjective
  <2>2. \A i \in 1..Len(running') : status'[running'[i]] = "RUN" /\ running'[i] \notin events'
    <3> SUFFICES ASSUME NEW i \in 1..Len(running) + 1
                 PROVE  status'[running'[i]] = "RUN" /\ running'[i] \notin events'
      BY <1>1
    <3>1. CASE i = Len(running) + 1
      BY <1>1, <1>2, <3>1
    <3>2. CASE i \in 1..Len(running)
      BY <1>1, <1>2, <3>2 DEF StackExact
    <3>3. QED
      BY <1>1, <3>1, <3>2
  <2>3. \A u \in events' : status'[u] \in {"RUN", "WAIT"}
    BY <1>1, <1>2 DEF StackExact
  <2>4. QED
    BY <2>1, <2>2, <2>3 DEF StackExact
<1>4. SavedIsOwn'
  <2> SUFFICES ASSUME NEW i \in 1..Len(running) + 1
               PROVE  saved'[i] = IF i = 1 THEN Untraced ELSE traceid[running'[i - 1]]
    BY <1>1 DEF SavedIsOwn
  <2>1. CASE i \in 1..Len(running)
    BY <1>1, <1>2, <2>1 DEF SavedIsOwn
  <2>2. CASE i = Len(running) + 1
    <3>1. CASE running = <<>>
      BY <1>1, <2>2, <3>1, SeqLen DEF TraceIsOwn, InMain
    <3>2. CASE running # <<>>
      <4>1. Len(running) # 0
        BY <1>2, <3>2, SeqLen
      <4>2. trace = traceid[running[Len(running)]]
        BY <3>2 DEF TraceIsOwn, InMain, Current, Top
      <4>3. QED
        BY <1>1, <2>2, <4>1, <4>2
    <3>3. QED
      BY <3>1, <3>2
  <2>3. QED
    BY <1>1, <2>1, <2>2
<1>5. TraceIsOwn'
  BY <1>1, SeqLen DEF TraceIsOwn, InMain, Current, Top
<1>6. QED
  BY <1>3, <1>4, <1>5

\* Types after a resume.
LEMMA ResumeTypes ==
  ASSUME IInv, NEW t \in Tasks, Resume(t), events' \subseteq events, copool' \subseteq copool,
         ready' \in Seq(Tasks), param' \in [Tasks -> Values \cup {Nil}], UNCHANGED <<traceid, exited>>
  PROVE  TypeOK'
<1>1. /\ status' = [status EXCEPT ![t] = "RUN"]
      /\ running' \in Seq(Tasks) /\ Len(running') = Len(running) + 1
      /\ saved' \in Seq(Traces \cup {Untraced}) /\ Len(saved') = Len(running) + 1
      /\ trace' = traceid[t]
  BY ResumeFacts
<1>2. QED
  BY <1>1 DEF IInv, TypeOK, Statuses

-----------------------------------------------------------------------------
\* Putting a task that is in no queue at the end of the queue.
LEMMA QueuedStep ==
  ASSUME IInv, NEW t \in Tasks, NEW v \in Values \cup {Nil}, status[t] \in {"none", "WAIT"}, t \notin events,
         status' = [status EXCEPT ![t] = "READY"], param' = Given(t, v), ready' = Queued(t),
         copool' = copool \ {t}, UNCHANGED <<traceid, running, saved, trace, events, exited>>
  PROVE  IInv'
<1> USE DEF IInv
<1>1. /\ ready \in Seq(Tasks) /\ status \in [Tasks -> Statuses] /\ events \subseteq Tasks
      /\ param \in [Tasks -> Values \cup {Nil}] /\ running \in Seq(Tasks) /\ exited \in BOOLEAN
  BY DEF TypeOK
<1>2. ready' \in Seq(Tasks)
  BY <1>1 DEF Queued
<1>3. TypeOK'
  BY <1>1, <1>2 DEF TypeOK, Given, Statuses
<1>4. ReadyExact'
  <2>1. \A i \in 1..Len(ready) : ready[i] # t
    BY DEF Queues, ReadyExact
  <2>2. CASE exited
    BY <1>1, <2>1, <2>2 DEF Queued, Queues, ReadyExact
  <2>3. CASE ~exited
    <3>1. /\ Len(ready) \in Nat /\ Len(ready') = Len(ready) + 1
          /\ \A i \in 1..Len(ready) : ready'[i] = ready[i]
          /\ ready'[Len(ready) + 1] = t
          /\ DOMAIN ready = 1..Len(ready) /\ DOMAIN ready' = 1..Len(ready) + 1
      BY <1>1, <2>3 DEF Queued
    <3>2. IsInjective(ready')
      BY <2>1, <3>1 DEF Queues, ReadyExact, IsInjective
    <3>3. \A i \in 1..Len(ready') : status'[ready'[i]] = "READY"
      <4> SUFFICES ASSUME NEW i \in 1..Len(ready) + 1
                   PROVE  status'[ready'[i]] = "READY"
        BY <3>1
      <4>1. CASE i = Len(ready) + 1
        BY <1>1, <3>1, <4>1
      <4>2. CASE i \in 1..Len(ready)
        BY <1>1, <2>1, <3>1, <4>2 DEF Queues, ReadyExact
      <4>3. QED
        BY <3>1, <4>1, <4>2
    <3>4. \A u \in Tasks : status'[u] = "READY" => \E i \in 1..Len(ready') : ready'[i] = u
      <4> SUFFICES ASSUME NEW u \in Tasks, status'[u] = "READY"
                   PROVE  \E i \in 1..Len(ready) + 1 : ready'[i] = u
        BY <3>1
      <4>1. CASE u = t
        BY <3>1, <4>1
      <4>2. CASE u # t
        <5>1. PICK i \in 1..Len(ready) : ready[i] = u
          BY <1>1, <2>3, <4>2 DEF Queues, ReadyExact
        <5>2. i \in 1..Len(ready) + 1 /\ ready'[i] = u
          BY <3>1, <5>1
        <5>3. QED
          BY <5>2
      <4>3. QED
        BY <4>1, <4>2
    <3>5. QED
      BY <3>2, <3>3, <3>4 DEF ReadyExact
  <2>4. QED
    BY <2>2, <2>3
<1>5. ParamIsOwn'
  BY <1>1 DEF Queues, ParamIsOwn, Given
<1>6. Stacks'
  BY <1>1 DEF Stacks, StackExact, TraceIsOwn, SavedIsOwn, InMain, Current
<1>7. PooledIsIdle'
  BY <1>1 DEF PooledIsIdle, TypeOK
<1>8. QED
  BY <1>3, <1>4, <1>5, <1>6, <1>7 DEF Queues

\* _dispatch_wakeup: the first task leaves the queue with its parameter.
LEMMA DispatchStep == IInv /\ Dispatch => IInv'
<1> SUFFICES ASSUME IInv, Dispatch PROVE IInv'
  OBVIOUS
<1> USE DEF IInv
<1> DEFINE t == Head(ready)
<1>1. /\ ready \in Seq(Tasks) /\ status \in [Tasks -> Statuses] /\ ready # <<>>
      /\ param \in [Tasks -> Values \cup {Nil}] /\ events \subseteq Tasks
  BY DEF TypeOK, Dispatch
<1>2. /\ t \in Tasks /\ t = ready[1] /\ Len(ready) \in Nat \ {0} /\ ready' \in Seq(Tasks)
      /\ Len(ready') = Len(ready) - 1 /\ \A i \in 1..Len(ready) - 1 : ready'[i] = ready[i + 1]
      /\ DOMAIN ready = 1..Len(ready) /\ DOMAIN ready' = 1..Len(ready) - 1
  BY <1>1 DEF Dispatch
<1> HIDE DEF t
<1>3. status[t] = "READY" /\ Resume(t) /\ param' = [param EXCEPT ![t] = Nil]
  BY <1>2 DEF Queues, ReadyExact, Dispatch, t
<1>4. t \notin events /\ \A i \in 1..Len(running) : running[i] # t
  BY <1>3 DEF Stacks, StackExact
<1>5. status' = [status EXCEPT ![t] = "RUN"]
  BY <1>3 DEF Resume
<1>6. TypeOK'
  BY <1>1, <1>2, <1>3, ResumeTypes DEF Dispatch
<1>7. Stacks'
  BY <1>2, <1>3, <1>4, ResumeStack DEF Dispatch
<1>8. ReadyExact'
  <2>1. IsInjective(ready')
    BY <1>2 DEF Queues, ReadyExact, IsInjective
  <2>2. \A i \in 1..Len(ready) - 1 : ready'[i] # t
    <3> SUFFICES ASSUME NEW i \in 1..Len(ready) - 1 PROVE ready[i + 1] # ready[1]
      BY <1>2
    <3>1. i + 1 \in DOMAIN ready /\ 1 \in DOMAIN ready /\ i + 1 # 1
      BY <1>2
    <3>2. QED
      BY <3>1 DEF Queues, ReadyExact, IsInjective
  <2>3. \A i \in 1..Len(ready') : status'[ready'[i]] = "READY"
    BY <1>1, <1>2, <1>5, <2>2 DEF Queues, ReadyExact
  <2>4. ~exited => \A u \in Tasks : status'[u] = "READY" => \E i \in 1..Len(ready') : ready'[i] = u
    <3> SUFFICES ASSUME ~exited, NEW u \in Tasks, status'[u] = "READY"
                 PROVE  \E i \in 1..Len(ready) - 1 : ready'[i] = u
      BY <1>2
    <3>1. u # t /\ status[u] = "READY"
      BY <1>1, <1>2, <1>5
    <3>2. PICK i \in 1..Len(ready) : ready[i] = u
      BY <3>1 DEF Queues, ReadyExact
    <3>3. i # 1
      BY <1>2, <3>1, <3>2
    <3>4. i - 1 \in 1..Len(ready) - 1 /\ ready'[i - 1] = u
      BY <1>2, <3>2, <3>3
    <3>5. QED
      BY <3>4
  <2>5. QED
    BY <2>1, <2>3, <2>4 DEF ReadyExact, Dispatch
<1>9. ParamIsOwn'
  BY <1>1, <1>2, <1>3, <1>5 DEF Queues, ParamIsOwn, Dispatch
<1>10. PooledIsIdle'
  BY <1>1, <1>2, <1>3, <1>5 DEF PooledIsIdle, Dispatch, TypeOK
<1>11. QED
  BY <1>6, <1>7, <1>8, <1>9, <1>10 DEF Queues

\* A message handler resumes a task that is neither running nor queued.
LEMMA HandlerStep ==
  ASSUME IInv, NEW t \in Tasks, InMain, ready = <<>>, status[t] # "READY", Resume(t),
         status[t] = "none" => traceid[t] = Untraced,
         events' = events \ {t}, copool' = copool \ {t}, UNCHANGED <<traceid, ready, param, exited>>
  PROVE  IInv'
<1> USE DEF IInv
<1>1. status' = [status EXCEPT ![t] = "RUN"] /\ status \in [Tasks -> Statuses]
  BY DEF Resume, TypeOK
<1>2. TypeOK'
  BY ResumeTypes DEF TypeOK
<1>3. Stacks'
  <2>1. \A i \in 1..Len(running) : running[i] # t
    BY SeqLen DEF InMain, TypeOK
  <2>2. QED
    BY <2>1, ResumeStack
<1>4. Queues'
  BY <1>1, SeqLen DEF Queues, ReadyExact, ParamIsOwn, TypeOK
<1>5. PooledIsIdle'
  BY <1>1 DEF PooledIsIdle, TypeOK
<1>6. QED
  BY <1>2, <1>3, <1>4, <1>5

\* connect_timer: two tasks are resumed, one by the other.
LEMMA ConnectTimerStep ==
  ASSUME IInv, NEW t \in Tasks, NEW u \in Tasks, ConnectTimer(t, u)
  PROVE  IInv'
<1> USE DEF IInv
<1>1. /\ t # u /\ running' = <<t, u>> /\ traceid[t] = Untraced /\ t \notin events
      /\ status' = [status EXCEPT ![t] = "RUN", ![u] = "RUN"] /\ status \in [Tasks -> Statuses]
      /\ saved' = <<trace, traceid[t]>> /\ trace = Untraced /\ trace' = traceid[u]
      /\ events' = events \ {u} /\ traceid \in [Tasks -> Traces \cup {Untraced}]
      /\ copool' = copool \ {t} /\ status[u] = "WAIT" /\ status[t] = "none"
      /\ UNCHANGED <<traceid, ready, param, exited>> /\ ready = <<>>
  BY DEF ConnectTimer, Create, TypeOK, Stacks, StackExact, TraceIsOwn, PooledIsIdle
<1>2. TypeOK'
  BY <1>1 DEF TypeOK, Statuses
<1>3. StackExact'
  <2>1. IsInjective(running')
    BY <1>1 DEF IsInjective
  <2>2. \A i \in 1..Len(running') : running'[i] \in {t, u}
    BY <1>1
  <2>3. \A x \in {t, u} : status'[x] = "RUN" /\ x \notin events'
    BY <1>1
  <2>4. \A x \in events' : status'[x] \in {"RUN", "WAIT"}
    BY <1>1 DEF StackExact, Stacks, TypeOK
  <2>5. QED
    BY <2>1, <2>2, <2>3, <2>4 DEF StackExact
<1>4. SavedIsOwn'
  BY <1>1 DEF SavedIsOwn
<1>5. TraceIsOwn'
  BY <1>1 DEF TraceIsOwn, InMain, Current, Top
<1>6. Queues'
  BY <1>1, SeqLen DEF Queues, ReadyExact, ParamIsOwn, TypeOK
<1>7. PooledIsIdle'
  BY <1>1 DEF PooledIsIdle, TypeOK
<1>8. QED
  BY <1>2, <1>3, <1>4, <1>5, <1>6, <1>7 DEF Stacks

\* A new trace id is that of the running task alone.
LEMMA AttachStep ==
  ASSUME IInv, NEW id \in Traces, Attach(id)
  PROVE  IInv'
<1> USE DEF IInv
<1>1. running \in Seq(Tasks) /\ running # <<>> /\ traceid \in [Tasks -> Traces \cup {Untraced}]
      /\ Len(saved) = Len(running)
  BY DEF Attach, InMain, TypeOK
<1>2. Len(running) \in Nat \ {0} /\ Current \in Tasks /\ Current = running[Len(running)]
      /\ DOMAIN running = 1..Len(running)
  BY <1>1, BelowFacts, SeqLen DEF Current, Top
<1>3. \A i \in 1..Len(running) - 1 : running[i] # Current
  BY <1>2 DEF Stacks, StackExact, IsInjective
<1>4. TypeOK'
  BY <1>2 DEF Attach, TypeOK
<1>5. StackExact' /\ Queues'
  BY DEF Attach, Stacks, StackExact, Queues, ReadyExact, ParamIsOwn
<1>6. SavedIsOwn'
  BY <1>1, <1>2, <1>3 DEF Attach, Stacks, SavedIsOwn
<1>7. TraceIsOwn'
  BY <1>1, <1>2 DEF Attach, TraceIsOwn, InMain, Current
<1>8. PooledIsIdle'
  BY <1>1, <1>2 DEF Attach, PooledIsIdle, Stacks, StackExact
<1>9. QED
  BY <1>4, <1>5, <1>6, <1>7, <1>8 DEF Stacks

\* The steps that end a slice.
LEMMA SliceStep == IInv /\ Slice => IInv'
<1> SUFFICES ASSUME IInv, Slice PROVE IInv'
  OBVIOUS
<1> USE DEF IInv
<1>1. ASSUME ~InMain PROVE Current \in Tasks /\ status[Current] = "RUN" /\ Current \notin events
  <2>1. running \in Seq(Tasks) /\ running # <<>>
    BY <1>1 DEF InMain, TypeOK
  <2>2. Len(running) \in 1..Len(running) /\ Current = running[Len(running)] /\ Current \in Tasks
    BY <2>1, BelowFacts DEF Current, Top
  <2>3. QED
    BY <2>2 DEF Stacks, StackExact
<1>2. ASSUME ~InMain, NEW st \in {"WAIT", "RUN"}, Back(st),
             events' \in {events, events \cup {Current}}, UNCHANGED <<traceid, copool, ready, param, exited>>
      PROVE  IInv'
  <2>1. TypeOK' /\ Queues' /\ Stacks'
    BY <1>2, BackTypes, BackQueues, BackStack DEF Statuses
  <2>2. status' = [status EXCEPT ![Current] = st]
    BY <1>2, BackFacts
  <2>3. PooledIsIdle'
    BY <1>1, <1>2, <2>2 DEF PooledIsIdle, TypeOK
  <2>4. QED
    BY <2>1, <2>3
<1>3. ASSUME ~InMain, Back("none"), traceid' = [traceid EXCEPT ![Current] = Untraced],
             copool' \in {copool, copool \cup {Current}}, UNCHANGED <<ready, param, events, exited>>
      PROVE  IInv'
  <2>1. TypeOK' /\ Queues' /\ Stacks'
    BY <1>1, <1>3, BackTypes, BackQueues, BackStack DEF Statuses
  <2>2. status' = [status EXCEPT ![Current] = "none"]
    BY <1>3, BackFacts
  <2>3. PooledIsIdle'
    BY <1>1, <1>3, <2>2 DEF PooledIsIdle, TypeOK
  <2>4. QED
    BY <2>1, <2>3
<1>4. CASE Wait
  BY <1>2, <1>4 DEF Wait
<1>5. CASE Await
  BY <1>2, <1>5 DEF Await
<1>6. CASE Sleep
  BY <1>1, <1>2, <1>6 DEF Sleep
<1>7. CASE Finish
  BY <1>3, <1>7 DEF Finish
<1>8. CASE Fail
  BY <1>3, <1>8 DEF Fail
<1>9. CASE Exit
  <2>1. Queues'
    BY <1>9 DEF Exit, Queues, ReadyExact, ParamIsOwn, IsInjective
  <2>2. CASE InMain
    BY <1>9, <2>1, <2>2 DEF Exit, TypeOK, Stacks, StackExact, TraceIsOwn, SavedIsOwn, InMain, Current, PooledIsIdle
  <2>3. CASE ~InMain
    <3>1. Back("RUN") /\ UNCHANGED <<traceid, copool, events>>
      BY <1>9, <2>3 DEF Exit
    <3>2. Stacks'
      BY <2>3, <3>1, BackStack DEF Statuses
    <3>3. /\ status' = [status EXCEPT ![Current] = "RUN"] /\ trace' = saved[Len(running)]
          /\ running' \in Seq(Tasks) /\ Len(running') = Len(running) - 1 /\ Len(running) \in Nat \ {0}
          /\ saved' \in Seq(Traces \cup {Untraced}) /\ Len(saved') = Len(saved) - 1
      BY <2>3, <3>1, BackFacts
    <3>4. trace' \in Traces \cup {Untraced}
      BY <3>3 DEF TypeOK
    <3>5. TypeOK'
      <4>1. ready' \in Seq(Tasks) /\ param' \in [Tasks -> Values \cup {Nil}] /\ exited' \in BOOLEAN
        BY <1>9 DEF Exit
      <4>2. status' \in [Tasks -> Statuses] /\ Len(saved') = Len(running')
        BY <3>3 DEF TypeOK, Statuses
      <4>3. QED
        BY <3>1, <3>3, <3>4, <4>1, <4>2 DEF TypeOK
    <3>6. PooledIsIdle'
      BY <1>1, <2>3, <3>1, <3>3 DEF PooledIsIdle, TypeOK
    <3>7. QED
      BY <2>1, <3>2, <3>5, <3>6
  <2>4. QED
    BY <2>2, <2>3
<1>10. QED
  BY <1>4, <1>5, <1>6, <1>7, <1>8, <1>9 DEF Slice

-----------------------------------------------------------------------------
\* It holds before the first task.
LEMMA Initially == TaskInit => IInv
<1> SUFFICES ASSUME TaskInit PROVE IInv
  OBVIOUS
<1> USE DEF TaskInit
<1>1. TypeOK
  <2>1. running \in Seq(Tasks) /\ saved \in Seq(Traces \cup {Untraced}) /\ ready \in Seq(Tasks)
        /\ Len(saved) = Len(running)
    OBVIOUS
  <2>2. status \in [Tasks -> Statuses] /\ traceid \in [Tasks -> Traces \cup {Untraced}]
        /\ param \in [Tasks -> Values \cup {Nil}]
    BY DEF Statuses
  <2>3. copool \subseteq Tasks /\ events \subseteq Tasks /\ exited \in BOOLEAN
        /\ trace \in Traces \cup {Untraced}
    OBVIOUS
  <2>4. QED
    BY <2>1, <2>2, <2>3 DEF TypeOK
<1>2. IsInjective(<<>>)
  BY DEF IsInjective
<1>3. Queues
  BY <1>2 DEF Queues, ReadyExact, ParamIsOwn
<1>4. Stacks
  BY <1>2 DEF Stacks, StackExact, TraceIsOwn, SavedIsOwn, InMain
<1>5. PooledIsIdle
  BY DEF PooledIsIdle
<1>6. QED
  BY <1>1, <1>3, <1>4, <1>5 DEF IInv

\* The scheduler keeps its invariant.
LEMMA Inductive == IInv /\ [TaskNext]_tvars => IInv'
<1> SUFFICES ASSUME IInv, [TaskNext]_tvars PROVE IInv'
  OBVIOUS
<1> USE DEF IInv
<1>1. CASE UNCHANGED tvars
  BY <1>1 DEF tvars, TypeOK, Queues, ReadyExact, ParamIsOwn, Stacks, StackExact, TraceIsOwn, SavedIsOwn,
              InMain, Current, PooledIsIdle
<1>2. ASSUME NEW t \in Tasks, NEW v \in Values \cup {Nil}, Fork(t, v) PROVE IInv'
  <2>1. t \notin events
    BY <1>2 DEF Fork, Create, Stacks, StackExact
  <2>2. QED
    BY <1>2, <2>1, QueuedStep DEF Fork, Create
<1>3. ASSUME NEW t \in Tasks, NEW v \in Values \cup {Nil}, Wakeup(t, v) PROVE IInv'
  <2>1. copool = copool \ {t}
    BY <1>3 DEF Wakeup, PooledIsIdle
  <2>2. QED
    BY <1>3, <2>1, QueuedStep DEF Wakeup
<1>4. ASSUME NEW id \in Traces, Attach(id) PROVE IInv'
  BY <1>4, AttachStep
<1>5. CASE Slice
  BY <1>5, SliceStep
<1>6. CASE Dispatch
  BY <1>6, DispatchStep
<1>7. ASSUME NEW t \in Tasks, Message(t) PROVE IInv'
  <2>1. status[t] \in {"RUN", "WAIT"}
    BY <1>7 DEF Message, Stacks, StackExact
  <2>2. copool = copool \ {t}
    BY <2>1 DEF PooledIsIdle
  <2>3. QED
    BY <1>7, <2>1, <2>2, HandlerStep DEF Message
<1>8. ASSUME NEW t \in Tasks, MessageTask(t) PROVE IInv'
  <2>1. status[t] = "none" /\ events = events \ {t} /\ traceid[t] = Untraced
    BY <1>8 DEF MessageTask, Create, Stacks, StackExact, PooledIsIdle
  <2>2. QED
    BY <1>8, <2>1, HandlerStep DEF MessageTask, Create
<1>9. ASSUME NEW t \in Tasks, NEW u \in Tasks, ConnectTimer(t, u) PROVE IInv'
  BY <1>9, ConnectTimerStep
<1>10. QED
  BY <1>1, <1>2, <1>3, <1>4, <1>5, <1>6, <1>7, <1>8, <1>9 DEF TaskNext

-----------------------------------------------------------------------------
(* What the steps do to the tables, for the modules built on the scheduler. *)

\* The scheduler's invariant depends on its own variables only.
LEMMA IInvFrame == ASSUME IInv, UNCHANGED tvars PROVE IInv'
  BY Inductive

\* A step of the scheduler keeps its invariant.
LEMMA IInvStep == ASSUME IInv, TaskNext PROVE IInv'
  BY Inductive

\* The running task.
LEMMA CurrentFacts ==
  ASSUME IInv, ~InMain
  PROVE  Current \in Tasks /\ status[Current] = "RUN" /\ Current \notin events
<1>1. running \in Seq(Tasks) /\ running # <<>>
  BY DEF IInv, InMain, TypeOK
<1>2. Len(running) \in 1..Len(running) /\ Current = running[Len(running)] /\ Current \in Tasks
  BY <1>1, BelowFacts DEF Current, Top
<1>3. QED
  BY <1>2 DEF IInv, Stacks, StackExact

\* What waiting does to the tables of the scheduler.
LEMMA WaitFacts ==
  ASSUME IInv, Wait
  PROVE  /\ IInv' /\ ~InMain /\ status' = [status EXCEPT ![Current] = "WAIT"]
         /\ UNCHANGED <<events, ready, param, exited>>
<1>1. ~InMain /\ Back("WAIT") /\ UNCHANGED <<traceid, copool, ready, param, events, exited>>
  BY DEF Wait
<1>2. status' = [status EXCEPT ![Current] = "WAIT"]
  BY <1>1, BackFacts
<1>3. IInv'
  BY IInvStep DEF TaskNext, Slice
<1>4. QED
  BY <1>1, <1>2, <1>3

\* What waking a task does to them.
LEMMA WakeupFacts ==
  ASSUME IInv, NEW t \in Tasks, NEW v \in Values \cup {Nil}, Wakeup(t, v)
  PROVE  /\ IInv' /\ status[t] = "WAIT" /\ t \notin events
         /\ status' = [status EXCEPT ![t] = "READY"]
         /\ UNCHANGED <<events, running, exited>>
<1>1. IInv'
  BY IInvStep DEF TaskNext
<1>2. QED
  BY <1>1 DEF Wakeup

\* What the steps of the scheduler do to status and events.
LEMMA DispatchFacts ==
  ASSUME IInv, Dispatch
  PROVE  /\ IInv' /\ Head(ready) \in Tasks /\ status[Head(ready)] = "READY"
         /\ status' = [status EXCEPT ![Head(ready)] = "RUN"]
         /\ param' = [param EXCEPT ![Head(ready)] = Nil]
         /\ UNCHANGED <<events, exited>>
<1>1. IInv'
  BY IInvStep DEF TaskNext
<1>2. ready \in Seq(Tasks) /\ ready # <<>>
  BY DEF IInv, TypeOK, Dispatch
<1>3. Head(ready) = ready[1] /\ 1 \in 1..Len(ready) /\ Head(ready) \in Tasks
  BY <1>2
<1>4. status[Head(ready)] = "READY"
  BY <1>3 DEF IInv, Queues, ReadyExact
<1>5. QED
  BY <1>1, <1>3, <1>4 DEF Dispatch, Resume

LEMMA MessageFacts ==
  ASSUME IInv, NEW t \in Tasks, Message(t)
  PROVE  /\ IInv' /\ t \in events /\ events' = events \ {t}
         /\ status' = [status EXCEPT ![t] = "RUN"] /\ UNCHANGED <<ready, param, exited>>
<1>1. IInv'
  BY IInvStep DEF TaskNext
<1>2. QED
  BY <1>1 DEF Message, Resume

LEMMA MessageTaskFacts ==
  ASSUME IInv, NEW t \in Tasks, MessageTask(t)
  PROVE  /\ IInv' /\ status[t] = "none" /\ status' = [status EXCEPT ![t] = "RUN"]
         /\ UNCHANGED <<events, ready, param, exited>>
<1>1. IInv'
  BY IInvStep DEF TaskNext
<1>2. QED
  BY <1>1 DEF MessageTask, Resume, Create

LEMMA SleepFacts ==
  ASSUME IInv, Sleep
  PROVE  /\ IInv' /\ ~InMain /\ events' = events \cup {Current}
         /\ UNCHANGED <<status, ready, param, exited>>
<1>1. IInv'
  BY IInvStep DEF TaskNext, Slice
<1>2. ~InMain /\ Back(status[Current]) /\ events' = events \cup {Current}
      /\ UNCHANGED <<ready, param, exited>>
  BY DEF Sleep
<1>3. status' = [status EXCEPT ![Current] = status[Current]] /\ status \in [Tasks -> Statuses]
  BY <1>2, BackFacts DEF IInv, TypeOK
<1>4. QED
  BY <1>1, <1>2, <1>3

LEMMA EndFacts ==
  ASSUME IInv, Finish \/ Fail
  PROVE  /\ IInv' /\ ~InMain /\ status' = [status EXCEPT ![Current] = "none"]
         /\ UNCHANGED <<events, ready, param, exited>>
<1>1. IInv'
  BY IInvStep DEF TaskNext, Slice
<1>2. ~InMain /\ Back("none") /\ UNCHANGED <<events, ready, param, exited>>
  BY DEF Finish, Fail
<1>3. status' = [status EXCEPT ![Current] = "none"]
  BY <1>2, BackFacts
<1>4. QED
  BY <1>1, <1>2, <1>3

\* What the counts take from the theory of finite sets.  They are proved from the
\* library of finite sets in the modules that end with a theorem about counts.
CountLaws ==
  /\ Cardinality({}) = 0 /\ \A x : Cardinality({x}) = 1
  /\ \A S : IsFiniteSet(S) =>
       /\ Cardinality(S) \in Nat /\ (Cardinality(S) = 0 => S = {})
       /\ \A R : R \subseteq S => IsFiniteSet(R)
       /\ \A x : x \notin S => Cardinality(S \cup {x}) = Cardinality(S) + 1
       /\ \A x \in S : Cardinality(S \ {x}) = Cardinality(S) - 1

-----------------------------------------------------------------------------
\* The scheduler's tables keep their types, however tasks fork, wait, wake each
\* other, fail and exit (task.lua).
THEOREM TypeCorrect == TaskSpec => []TypeOK
<1>1. IInv => TypeOK
  BY DEF IInv
<1>2. QED
  BY <1>1, Initially, Inductive, PTL DEF TaskSpec

\* For any number of tasks: the queue of _dispatch_wakeup holds every READY task,
\* once, so no wakeup is lost and none resumes a task twice.
THEOREM NoWakeupLost == TaskSpec => []ReadyExact
<1>1. IInv => ReadyExact
  BY DEF IInv, Queues
<1>2. QED
  BY <1>1, Initially, Inductive, PTL DEF TaskSpec

\* For any number of tasks: a parameter reaches only the task it was given to, a
\* task is on the stack of resumes once, a pooled coroutine is bare, and what runs
\* carries its own trace id (task_resume, task_create, lresume).
THEOREM TasksNeverMix == TaskSpec => []TasksApart
<1>1. IInv => TasksApart
  BY DEF IInv, Queues, Stacks, TasksApart
<1>2. QED
  BY <1>1, Initially, Inductive, PTL DEF TaskSpec
=============================================================================
