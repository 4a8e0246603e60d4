-------------------------------- MODULE Hive --------------------------------
(***************************************************************************)
(* silly.hive: a pool of threads that run workers, Lua states of their     *)
(* own.  invoke() queues a worker on a thread, chosen round robin; the     *)
(* thread runs it and sends it back in a HIVE_DONE message.  prune() stops *)
(* threads that have been idle; the collection of the hive stops them all. *)
(* A queue is a list through the `next' fields of the workers, kept here   *)
(* as the pointers it is made of.                                          *)
(***************************************************************************)
EXTENDS Integers, Sequences, FiniteSets, SequencesExt

CONSTANTS Workers, Threads, Null,
          Mins, Maxes, \* the numbers of threads that limit() is given
          MaxInvokes   \* bound on the calls of invoke() for one worker

VARIABLES limit,                   \* thread_min, thread_max
          table, robin,            \* table[0 .. thread_live - 1], round_robin
          busy, waiting,           \* thread_busy, worker_waiting
          joinlist, closing,       \* wait_for_join; l_hive_gc has begun
          tpc, cur,                \* where a thread is, the worker it holds
          idle, shutdown,          \* status = THREAD_IDLE, ctx->shutdown
          signalled,               \* the thread is woken from ctx->cond
          head, tail,              \* ctx->head; ctx->tail, Null when &ctx->head
          next, task, asked,       \* w->next, w->task_id # 0, calls so far
          done                     \* HIVE_DONE messages, in order

pool == <<limit, table, robin, joinlist, closing>>
counts == <<busy, waiting>>
ctxs == <<tpc, cur, idle, shutdown, signalled>>
lists == <<head, tail, next>>
jobs == <<task, asked, done>>
hvars == <<pool, counts, ctxs, lists, jobs>>

\* The checks of llimit.
Limits == {l \in Mins \X Maxes : l[1] <= l[2] /\ l[2] > 0}

HiveInit ==
  /\ limit \in Limits
  /\ table = <<>> /\ robin = 0 /\ busy = 0 /\ waiting = 0
  /\ joinlist = {} /\ closing = FALSE
  /\ tpc = [t \in Threads |-> "free"]
  /\ cur = [t \in Threads |-> Null]
  /\ idle = [t \in Threads |-> TRUE]
  /\ shutdown = [t \in Threads |-> FALSE]
  /\ signalled = [t \in Threads |-> FALSE]
  /\ head = [t \in Threads |-> Null]
  /\ tail = [t \in Threads |-> Null]
  /\ next = [w \in Workers |-> Null]
  /\ task = [w \in Workers |-> FALSE]
  /\ asked = [w \in Workers |-> 0]
  /\ done = <<>>

\* pthread_cond_signal: lost on a thread that is not waiting.
Signal(S) == signalled' = [t \in Threads |-> signalled[t] \/ (t \in S /\ tpc[t] = "wait")]

-----------------------------------------------------------------------------
(* The engine's worker thread: Lua calls and messages. *)

\* *ctx->tail = w; ctx->tail = &w->next; signal.  w->next keeps its old value.
\* (fault) the thread is not signalled
Link_Silent(t, w) ==
  /\ head' = IF tail[t] = Null THEN [head EXCEPT ![t] = w] ELSE head
  /\ next' = IF tail[t] = Null THEN next ELSE [next EXCEPT ![tail[t]] = w]
  /\ tail' = [tail EXCEPT ![t] = w]
  /\ UNCHANGED signalled
Link(t, w) ==
  /\ head' = IF tail[t] = Null THEN [head EXCEPT ![t] = w] ELSE head
  /\ next' = IF tail[t] = Null THEN next ELSE [next EXCEPT ![tail[t]] = w]
  /\ tail' = [tail EXCEPT ![t] = w]
  /\ Signal({t})

\* A thread is created when none would be free, unless pthread_create fails.
Crowded == (Len(table) - busy) - waiting <= 0 /\ Len(table) < limit[2]
Free == {t \in Threads : tpc[t] = "free"}
MayCreate == {<<>>} \cup IF Crowded /\ Free # {} THEN {<<CHOOSE t \in Free : TRUE>>} ELSE {}

\* invoke(), lpush and push_into_hive; the first thread failing is an error.
Invoke(w) ==
  /\ ~closing /\ ~task[w] /\ asked[w] < MaxInvokes
  /\ \E new \in MayCreate :
       LET live == table \o new
           t == live[(robin % Len(live)) + 1]
       IN /\ live # <<>>
          /\ table' = live
          /\ tpc' = [u \in Threads |-> IF <<u>> = new THEN "loop" ELSE tpc[u]]
          /\ Link(t, w)
  /\ robin' = robin + 1
  /\ waiting' = waiting + 1
  /\ task' = [task EXCEPT ![w] = TRUE]
  /\ asked' = [asked EXCEPT ![w] = @ + 1]
  /\ UNCHANGED <<limit, joinlist, closing, busy, cur, idle, shutdown, done>>

\* The HIVE_DONE message: msg_unpack gives the results to the task that waits.
Done ==
  /\ ~closing /\ done # <<>>
  /\ task' = [task EXCEPT ![Head(done)] = FALSE]
  /\ done' = Tail(done)
  /\ UNCHANGED <<pool, counts, ctxs, lists, asked>>

\* limit()
Limit ==
  /\ ~closing
  /\ limit' \in Limits
  /\ UNCHANGED <<table, robin, joinlist, closing, counts, ctxs, lists, jobs>>

\* try_kill_thread.  How long the thread has been idle is any time: idle_start
\* is not initialised in a thread that has never waited.
Killable(t) == idle[t] /\ head[t] = Null

\* lprune: join the threads that are dead, then stop idle ones.
Remaining(kill) == SelectSeq(table, LAMBDA t : t \notin kill)
Prune ==
  /\ ~closing /\ Len(table) >= limit[1]
  /\ \E kill \in SUBSET {t \in Range(table) : Killable(t)} :
       LET dead == {t \in joinlist : tpc[t] = "dead"}
       IN /\ Cardinality(kill) <= Len(table) - limit[1]
          /\ joinlist' = (joinlist \ dead) \cup kill
          /\ table' = Remaining(kill)
          /\ tpc' = [t \in Threads |-> IF t \in dead THEN "free" ELSE tpc[t]]
          /\ idle' = [t \in Threads |-> t \in dead \/ idle[t]]
          /\ shutdown' = [t \in Threads |-> t \in kill \/ (shutdown[t] /\ t \notin dead)]
          /\ Signal(kill)
  /\ UNCHANGED <<limit, robin, closing, counts, cur, lists, jobs>>

\* l_hive_gc: stop every thread, then join them all, which blocks.
GcBegin ==
  /\ ~closing /\ closing' = TRUE
  /\ shutdown' = [t \in Threads |-> shutdown[t] \/ t \in Range(table)]
  /\ Signal(Range(table))
  /\ UNCHANGED <<limit, table, robin, joinlist, counts, tpc, cur, idle, lists, jobs>>
GcEnd ==
  /\ closing /\ (table # <<>> \/ joinlist # {})
  /\ \A t \in Range(table) \cup joinlist : tpc[t] = "dead"
  /\ tpc' = [t \in Threads |-> "free"]
  /\ table' = <<>> /\ joinlist' = {}
  /\ UNCHANGED <<limit, robin, closing, counts, cur, idle, shutdown, signalled, lists, jobs>>

-----------------------------------------------------------------------------
(* thread_func *)

Waits(t) == head[t] = Null /\ ~shutdown[t]

\* Under the lock: nothing to do, so wait for the condition.
ThreadWait(t) ==
  /\ tpc[t] = "loop" /\ Waits(t)
  /\ tpc' = [tpc EXCEPT ![t] = "wait"]
  /\ idle' = [idle EXCEPT ![t] = TRUE]
  /\ signalled' = [signalled EXCEPT ![t] = FALSE]
  /\ UNCHANGED <<pool, counts, cur, shutdown, lists, jobs>>

\* pthread_cond_wait returns, by a signal or for no reason.
Woken(t) ==
  /\ tpc[t] = "wait"
  /\ tpc' = [tpc EXCEPT ![t] = "loop"]
  /\ idle' = [idle EXCEPT ![t] = FALSE]
  /\ UNCHANGED <<pool, counts, cur, shutdown, signalled, lists, jobs>>

ThreadExit(t) ==
  /\ tpc[t] = "loop" /\ ~Waits(t) /\ head[t] = Null
  /\ tpc' = [tpc EXCEPT ![t] = "dead"]
  /\ idle' = [idle EXCEPT ![t] = FALSE]
  /\ UNCHANGED <<pool, counts, cur, shutdown, signalled, lists, jobs>>

\* (fault) the tail of the emptied list is left behind
TailAfter_Kept(t, h) == tail[t]
\* Take the first worker off the list.
TailAfter(t, h) == IF h = Null THEN Null ELSE tail[t]
ThreadPop(t) ==
  /\ tpc[t] = "loop" /\ head[t] # Null
  /\ cur' = [cur EXCEPT ![t] = head[t]]
  /\ head' = [head EXCEPT ![t] = next[head[t]]]
  /\ tail' = [tail EXCEPT ![t] = TailAfter(t, next[head[t]])]
  /\ tpc' = [tpc EXCEPT ![t] = "popped"]
  /\ UNCHANGED <<pool, counts, idle, shutdown, signalled, next, jobs>>

\* The two counters, then lua_pcall.  Between the two fewer threads look busy
\* than are: push_into_hive then creates none, as when the creation fails.
ThreadRun(t) ==
  /\ tpc[t] = "popped"
  /\ waiting' = waiting - 1 /\ busy' = busy + 1
  /\ tpc' = [tpc EXCEPT ![t] = "run"]
  /\ UNCHANGED <<pool, cur, idle, shutdown, signalled, lists, jobs>>

\* The function returned or raised: the worker goes back in a message.
Ran(t) ==
  /\ tpc[t] = "run"
  /\ busy' = busy - 1
  /\ done' = Append(done, cur[t])
  /\ cur' = [cur EXCEPT ![t] = Null]
  /\ tpc' = [tpc EXCEPT ![t] = "loop"]
  /\ UNCHANGED <<pool, waiting, idle, shutdown, signalled, lists, task, asked>>

ThreadStep(t) ==
  \/ ThreadWait(t) \/ (signalled[t] /\ Woken(t)) \/ ThreadExit(t)
  \/ ThreadPop(t) \/ ThreadRun(t) \/ Ran(t)

HiveNext ==
  \/ \E w \in Workers : Invoke(w)
  \/ Done \/ Limit \/ Prune \/ GcBegin \/ GcEnd
  \/ \E t \in Threads : ThreadWait(t) \/ Woken(t) \/ ThreadExit(t) \/ ThreadPop(t)
                        \/ ThreadRun(t) \/ Ran(t)

HiveSpec == HiveInit /\ [][HiveNext]_hvars

\* Threads are scheduled, functions return, and the engine handles messages.
HiveFairSpec ==
  /\ HiveSpec
  /\ WF_hvars(Done) /\ WF_hvars(GcEnd)
  /\ \A t \in Threads : WF_hvars(ThreadStep(t))

-----------------------------------------------------------------------------
\* Every variable has its type; a thread is in the table once, or is to be joined.
HiveTypeOK ==
  /\ table \in Seq(Threads) /\ IsInjective(table)
  /\ joinlist \subseteq Threads \ Range(table)
  /\ busy \in Int /\ waiting \in Int
  /\ tpc \in [Threads -> {"free", "loop", "wait", "popped", "run", "dead"}]
  /\ cur \in [Threads -> Workers \cup {Null}]
  /\ head \in [Threads -> Workers \cup {Null}]
  /\ next \in [Workers -> Workers \cup {Null}]
  /\ done \in Seq(Workers)

\* The workers that the list of t leads to; stops at the list's length.
Listed(t) ==
  LET at[n \in 1 .. Cardinality(Workers)] ==
        IF n = 1 THEN head[t]
        ELSE LET p == at[n - 1] IN IF p = Null THEN Null ELSE next[p]
  IN SelectSeq([n \in 1 .. Cardinality(Workers) |-> at[n]], LAMBDA w : w # Null)

\* Every call of invoke() that has not been answered is in exactly one place:
\* on the list of one thread, held by one thread, or in one HIVE_DONE message;
\* and the tail pointer of each list is the last worker on it (thread_func,
\* push_into_hive).  A worker that is nowhere never answers its caller.
QueuesExact ==
  /\ \A w \in Workers :
       Cardinality({t \in Threads : w \in Range(Listed(t))})
         + Cardinality({t \in Threads : cur[t] = w})
         + Cardinality({i \in DOMAIN done : done[i] = w}) = IF task[w] THEN 1 ELSE 0
  /\ \A t \in Threads : tail[t] = IF Listed(t) = <<>> THEN Null ELSE Last(Listed(t))

\* thread_busy and worker_waiting, which decide whether a thread is created,
\* come back to the truth whatever the order of the atomic steps: they count
\* the threads in lua_pcall and the workers queued or just taken.
CountersExact ==
  /\ busy = Cardinality({t \in Threads : tpc[t] = "run"})
  /\ waiting = Cardinality({t \in Threads : tpc[t] = "popped"})
               + Cardinality({w \in Workers : \E t \in Threads : w \in Range(Listed(t))})

\* A thread that prune() stops had nothing queued and is given nothing more:
\* assert(ctx->shutdown == 0) of push_into_hive, and the check of ctx->head
\* under the lock in try_kill_thread.
PrunedIsEmpty ==
  /\ \A t \in joinlist : head[t] = Null /\ shutdown[t]
  /\ ~closing => \A t \in Range(table) : ~shutdown[t]

\* The threads and the counters they are managed by agree (prune, invoke).
ThreadsExact == HiveTypeOK /\ CountersExact /\ PrunedIsEmpty

\* No call is lost or in two places while threads are made, pruned and joined (lhive.c).
HiveExact == QueuesExact /\ ThreadsExact

\* Each call of invoke() returns, unless the hive is being collected: no signal
\* to a thread is lost, and no thread dies with a worker on its list.
\* The calls are bounded, so that each of them returns is that the hive comes to rest.
InvokeReturns == []<>(closing \/ \A w \in Workers : ~task[w])

\* The collection of the hive, at the exit of the program, does not hang: every
\* thread sees the shutdown flag and is joined; once it has begun it is not taken back.
CollectionEnds == []<>(closing => table = <<>> /\ joinlist = {})

\* Calls return, and so does the collection, whichever signal or test comes first (lhive.c).
HiveProgress == InvokeReturns /\ CollectionEnds

\* A worker runs one task at a time (docs: "A worker only processes one task
\* at any time"): two threads never hold the same worker.
WorkerSerial ==
  \A t, u \in Threads : t # u /\ cur[t] # Null => cur[t] # cur[u]
=============================================================================
