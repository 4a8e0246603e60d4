------------------------------ MODULE Monitor ------------------------------
(***************************************************************************)
(* The detection of endless loops.  Once a second the main thread compares *)
(* the worker's message counter with its last value (monitor.c); finding   *)
(* it unchanged, it sets maybe_endless and sends SIGUSR2 to the worker     *)
(* thread, whose handler installs a Lua hook that logs the call stack and  *)
(* puts the old hook back (worker.c).  A user may send SIGUSR2 as well.    *)
(***************************************************************************)
EXTENDS Naturals

CONSTANTS MaxMessages, \* bound on the messages the worker dispatches
          MaxMarks,    \* bound on the marks of the monitor
          MaxUser      \* bound on the SIGUSR2 sent by users

VARIABLES process_id,    \* W->process_id
          check_id,      \* M.check_id
          mpc,           \* where the monitor is in monitor_check
          maybe_endless, \* W->maybe_endless
          usr2,          \* SIGUSR2 pending in the kernel: signals coalesce
          openhook,      \* W->openhook
          hook,          \* the hook of W->running: the program's own or warn_hook
          oldhook,       \* W->oldhook
          pending,       \* the bit of SIGUSR2 in W->signal_pending
          marks, sent,   \* marks so far; signals sent by users so far
          moved,         \* the worker dispatched since the monitor's last check
          unreported     \* a mark whose call stack was not logged yet

worker  == <<process_id, moved>>
monitor == <<check_id, mpc, marks>>
hooks   == <<openhook, hook, oldhook, unreported>>
vars == <<worker, monitor, hooks, maybe_endless, usr2, pending, sent>>

Init ==
    /\ process_id = 0 /\ check_id = 0 /\ mpc = "sleep"
    /\ maybe_endless = 0 /\ usr2 = FALSE
    /\ openhook = 0 /\ hook = "own" /\ oldhook = "own"
    /\ pending = FALSE
    /\ marks = 0 /\ sent = 0 /\ moved = FALSE /\ unreported = FALSE
-----------------------------------------------------------------------------
\* worker_dispatch counts a message before it calls it back.
Dispatch ==
    /\ process_id < MaxMessages
    /\ process_id' = process_id + 1
    /\ moved' = TRUE
    /\ UNCHANGED <<monitor, hooks, maybe_endless, usr2, pending, sent>>

\* Between two messages process_pending_signals takes the pending signal.
TakePending ==
    /\ pending
    /\ pending' = FALSE
    /\ UNCHANGED <<worker, monitor, hooks, maybe_endless, usr2, sent>>

\* monitor_check.
Check ==
    /\ mpc = "sleep"
    /\ marks < MaxMarks
    /\ mpc' = IF process_id = check_id THEN "store" ELSE "sleep"
    /\ check_id' = process_id
    /\ moved' = FALSE
    /\ UNCHANGED <<process_id, marks, hooks, maybe_endless, usr2, pending, sent>>

\* worker_mark_endless: the flag, then the signal.
MarkFlag ==
    /\ mpc = "store"
    /\ maybe_endless' = 1
    /\ mpc' = "kill"
    /\ marks' = marks + 1
    /\ unreported' = TRUE
    /\ UNCHANGED <<worker, check_id, openhook, hook, oldhook, usr2, pending, sent>>

MarkKill ==
    /\ mpc = "kill"
    /\ usr2' = TRUE
    /\ mpc' = "sleep"
    /\ UNCHANGED <<worker, check_id, marks, hooks, maybe_endless, pending, sent>>

UserKill ==
    /\ sent < MaxUser
    /\ sent' = sent + 1
    /\ usr2' = TRUE
    /\ UNCHANGED <<worker, monitor, hooks, maybe_endless, pending>>

\* (fault) the handler installs the hook without opening it.
Handler_Closed ==
    /\ usr2
    /\ usr2' = FALSE
    /\ maybe_endless' = 0
    /\ IF maybe_endless = 1
         THEN oldhook' = hook /\ hook' = "warn" /\ UNCHANGED <<pending, openhook>>
         ELSE pending' = TRUE /\ UNCHANGED <<openhook, oldhook, hook>>
    /\ UNCHANGED <<worker, monitor, unreported, sent>>

\* signal_handler for SIGUSR2, on the worker thread, at any point of it.
Handler ==
    /\ usr2
    /\ usr2' = FALSE
    /\ maybe_endless' = 0
    /\ IF maybe_endless = 1
         THEN /\ openhook' = 1
              /\ oldhook' = hook
              /\ hook' = "warn"
              /\ UNCHANGED pending
         ELSE pending' = TRUE /\ UNCHANGED <<openhook, oldhook, hook>>
    /\ UNCHANGED <<worker, monitor, unreported, sent>>

\* Lua code runs with the hook installed: warn_hook.
WarnHook ==
    /\ hook = "warn"
    /\ openhook = 1
    /\ hook' = oldhook
    /\ openhook' = 0
    /\ unreported' = FALSE
    /\ UNCHANGED <<worker, monitor, oldhook, maybe_endless, usr2, pending, sent>>

Next ==
    \/ Dispatch \/ TakePending \/ Check \/ MarkFlag \/ MarkKill \/ UserKill
    \/ Handler \/ WarnHook

Spec == Init /\ [][Next]_vars

\* The monitor finishes its check, the kernel delivers the signal, and Lua
\* code that runs reaches its hook.
FairSpec ==
    /\ Spec
    /\ WF_vars(MarkFlag \/ MarkKill) /\ WF_vars(Handler) /\ WF_vars(WarnHook)
-----------------------------------------------------------------------------
\* Every variable has its type.
TypeOK ==
    /\ process_id \in 0 .. MaxMessages /\ check_id \in 0 .. process_id
    /\ mpc \in {"sleep", "store", "kill"}
    /\ maybe_endless \in {0, 1} /\ openhook \in {0, 1}
    /\ hook \in {"own", "warn"} /\ oldhook \in {"own", "warn"}
    /\ marks \in 0 .. MaxMarks /\ sent \in 0 .. MaxUser
    /\ {usr2, pending, moved, unreported} \subseteq BOOLEAN

\* The worker is marked only if it dispatched nothing between two checks.
OnlyStuckIsMarked == [][mpc' = "store" /\ mpc # "store" => ~moved]_vars

\* Every mark is followed by a logged call stack, once Lua code runs.
MarkIsReported == unreported ~> ~unreported
=============================================================================
