------------------------------ MODULE MCPools ------------------------------
(***************************************************************************)
(* The timers, the wheel they hang on and the threads of the hive, each by *)
(* itself: `part' says which one a behaviour is about.                     *)
(***************************************************************************)
EXTENDS Timer

CONSTANTS Workers, Threads, Null, Mins, Maxes, MaxInvokes   \* Hive

VARIABLES part,
          limit, table, robin, busy, waiting, joinlist, closing, hpc, cur,
          idle, shutdown, signalled, head, tail, next, task, asked, done

hive == <<limit, table, robin, busy, waiting, joinlist, closing, hpc, cur,
          idle, shutdown, signalled, head, tail, next, task, asked, done>>
mcvars == <<part, vars, wheel, hive>>

Hv == INSTANCE Hive WITH tpc <- hpc

\* Only the wheel starts from every value of its counter, the hive with every limit.
MCInit ==
  /\ part \in {"timers", "wheel", "hive"}
  /\ Init /\ WheelInit /\ Hv!HiveInit
  /\ part # "wheel" => counter = 0
  /\ part # "hive" => \A l \in Hv!Limits : limit[2] <= l[2]

Timers(A) == part = "timers" /\ A /\ UNCHANGED <<part, wheel, hive>>
Hive(A) == part = "hive" /\ A /\ UNCHANGED <<part, vars, wheel>>

MCNext ==
  \/ Timers(Next)
  \/ part = "wheel" /\ WheelNext /\ UNCHANGED <<part, vars, hive>>
  \/ Hive(Hv!HiveNext)

\* The timer thread and the worker run; the threads of the hive are scheduled, functions return
\* and the engine handles messages.  The parts share no step, so each fairness is of one of them.
MCFairSpec ==
  /\ MCInit /\ [][MCNext]_mcvars
  /\ WF_vars(Timers(TimerThread)) /\ WF_vars(Timers(Worker))
  /\ WF_hive(Hive(Hv!Done)) /\ WF_hive(Hive(Hv!GcEnd))
  /\ \A t \in Threads : WF_hive(Hive(Hv!ThreadStep(t)))

-----------------------------------------------------------------------------
\* The node pool stays right while starts, cancels and ticks race, no timer fires before its
\* timeout has passed, and the wheel holds every node where it will be found (timer.c).
TimersExact == NodesExact /\ NeverEarly /\ (part = "wheel" => WheelExact)
\* No worker is lost between the lists, the threads and the messages, and the counters are
\* those of the lists, while threads are created, pruned and joined (lhive.c).
HiveExact == part = "hive" => Hv!HiveExact
\* Calls return, and so does the collection, whichever signal or test comes first (lhive.c).
HiveProgress == Hv!HiveProgress
=============================================================================
