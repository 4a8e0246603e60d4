---------------------------- MODULE MCScheduler ----------------------------
(***************************************************************************)
(* The scheduler alone, and under each of the primitives of silly.sync;    *)
(* and the tasks that share the connections of the MySQL pool.             *)
(* `part' says which of them a behaviour is about.                         *)
(***************************************************************************)
EXTENDS Mutex, Sync, SingleFlight

CONSTANTS Users, MaxOps, MaxOpen, MaxConns, MaxIdle \* MySql

VARIABLES part,
          pool, conns, user \* MySql

My == INSTANCE MySql
myvars == <<pool, conns, user>>

mcvars == <<tvars, mvars, cvars, wvars, fvars, myvars, part>>

MCInit ==
  /\ part \in {"task", "mutex", "channel", "waitgroup", "singleflight", "mysql"}
  /\ MutexInit /\ ChannelInit /\ GroupInit /\ FlightInit /\ My!Init

MCNext ==
  /\ UNCHANGED part
  /\ \/ /\ UNCHANGED myvars
        /\ \/ part = "task" /\ TaskNext /\ UNCHANGED <<mvars, cvars, wvars, fvars>>
           \/ part = "mutex" /\ MutexNext /\ UNCHANGED <<cvars, wvars, fvars>>
           \/ part = "channel" /\ ChannelNext /\ UNCHANGED <<mvars, wvars, fvars>>
           \/ part = "waitgroup" /\ GroupNext /\ UNCHANGED <<mvars, cvars, fvars>>
           \/ part = "singleflight" /\ FlightNext /\ UNCHANGED <<mvars, cvars, wvars>>
     \/ part = "mysql" /\ My!Next /\ UNCHANGED <<tvars, mvars, cvars, wvars, fvars>>

MCFairSpec ==
  /\ MCInit /\ [][MCNext]_mcvars
  /\ WF_mcvars(part = "task" /\ Dispatch /\ UNCHANGED <<part, mvars, cvars, wvars, fvars, myvars>>)
  /\ WF_mcvars(part = "task" /\ ~InMain /\ Slice /\ UNCHANGED <<part, mvars, cvars, wvars, fvars, myvars>>)

-----------------------------------------------------------------------------
\* The types of the scheduler; and what a channel accepted comes out once, in the order of the
\* pushes, and its consumer waits only where the next push or the close finds it (channel.lua).
ChannelExact == TypeOK /\ (part = "channel" => ItemsInOrder /\ ConsumerFound)
\* In its part, every READY task is resumed (_dispatch_wakeup).
TaskReadyRuns == part = "task" => ReadyRuns
=============================================================================
