----------------------------- MODULE OpChannel -----------------------------
(***************************************************************************)
(* The channel from the worker to the socket thread: the double buffer of  *)
(* flipbuf.h, guarded by a mutex, and the wake-up of trigger.h, a pipe the  *)
(* socket thread polls next to its sockets plus the atomic flag `fired`.   *)
(* op_push (socket.c) fires the trigger only when it found the buffer      *)
(* empty; op_process flips the buffer only when the trigger was fired.     *)
(* One step is one critical section, one system call or one atomic access, *)
(* so every interleaving of the two sides is a behaviour.                  *)
(***************************************************************************)
EXTENDS Naturals, Sequences

CONSTANTS Producers,   \* the threads that call op_push
          MaxOps       \* bound on the operations pushed in one behaviour

ASSUME MaxOpsAssumption == MaxOps \in Nat

VARIABLES slots,     \* flipbuf.slots: the two arrays of operations
          writing,   \* flipbuf.writing: the array op_push appends to
          pipe,      \* bytes in the trigger's pipe
          fired,     \* trigger.fired
          ppc,       \* where each producer is in op_push
          cpc,       \* where the socket thread is in socket_poll
          ptr,       \* operations of the flipped array already processed
          pushed,    \* operations pushed so far; the n-th one is operation n
          exitOp     \* the operation that is OP_EXIT, 0 when none is

buffers  == <<slots, writing>>
trigger  == <<pipe, fired>>
history  == <<pushed, exitOp>>
vars == <<slots, writing, pipe, fired, ppc, cpc, ptr, pushed, exitOp>>

ProducerPC == {"idle", "pipe_write", "store_fired"}
ConsumerPC == {"sp_wait", "load_fired", "pipe_read", "clear_fired",
               "array_clear", "flip", "process", "events", "exited"}

Reading == 1 - writing     \* the array the socket thread owns

Init ==
    /\ slots = [i \in {0, 1} |-> <<>>]
    /\ writing = 0
    /\ pipe = 0
    /\ fired = 0
    /\ ppc = [p \in Producers |-> "idle"]
    /\ cpc = "sp_wait"
    /\ ptr = 0
    /\ pushed = 0
    /\ exitOp = 0
-----------------------------------------------------------------------------
(* The pushing side: op_push, flipbuf_write and trigger_fire.              *)

\* (fault) op_push looks at the array the socket thread owns.
Write_TestsWrongArray(p, exit) ==
    /\ ppc[p] = "idle"
    /\ pushed < MaxOps
    /\ exit => exitOp = 0
    /\ slots' = [slots EXCEPT ![writing] = Append(@, pushed + 1)]
    /\ pushed' = pushed + 1
    /\ exitOp' = IF exit THEN pushed + 1 ELSE exitOp
    /\ ppc' = [ppc EXCEPT ![p] = IF slots[Reading] = <<>>
                                 THEN "pipe_write" ELSE "idle"]
    /\ UNCHANGED <<writing, trigger, cpc, ptr>>

\* flipbuf_write under the mutex.  It returns whether the array was empty,
\* and op_push calls trigger_fire only then.  Operation OP_EXIT is pushed by
\* socket_stop, once.
Write(p, exit) ==
    /\ ppc[p] = "idle"
    /\ pushed < MaxOps
    /\ exit => exitOp = 0
    /\ slots' = [slots EXCEPT ![writing] = Append(@, pushed + 1)]
    /\ pushed' = pushed + 1
    /\ exitOp' = IF exit THEN pushed + 1 ELSE exitOp
    /\ ppc' = [ppc EXCEPT ![p] = IF slots[writing] = <<>>
                                 THEN "pipe_write" ELSE "idle"]
    /\ UNCHANGED <<writing, trigger, cpc, ptr>>

FireWrite(p) ==
    /\ ppc[p] = "pipe_write"
    /\ pipe' = pipe + 1
    /\ ppc' = [ppc EXCEPT ![p] = "store_fired"]
    /\ UNCHANGED <<buffers, fired, cpc, ptr, history>>

FireStore(p) ==
    /\ ppc[p] = "store_fired"
    /\ fired' = 1
    /\ ppc' = [ppc EXCEPT ![p] = "idle"]
    /\ UNCHANGED <<buffers, pipe, cpc, ptr, history>>
-----------------------------------------------------------------------------
(* The socket thread: socket_poll = eventwait; op_process; the events.     *)

\* sp_wait returns when the pipe is readable (the pipe is level-triggered),
\* or when some socket has an event, which the channel knows nothing of.
PipeReadable == cpc = "sp_wait" /\ pipe > 0
WakePipe   == PipeReadable /\ cpc' = "load_fired"
              /\ UNCHANGED <<buffers, trigger, ppc, ptr, history>>
WakeSocket == cpc = "sp_wait" /\ cpc' = "load_fired"
              /\ UNCHANGED <<buffers, trigger, ppc, ptr, history>>

\* trigger_consume returns 0 when the flag is not set yet.
ConsumeLoad ==
    /\ cpc = "load_fired"
    /\ cpc' = IF fired = 0 THEN "events" ELSE "pipe_read"
    /\ UNCHANGED <<buffers, trigger, ppc, ptr, history>>

\* The pipe is in blocking mode: the read waits while the pipe is empty.
ConsumeRead ==
    /\ cpc = "pipe_read"
    /\ pipe > 0
    /\ pipe' = pipe - 1
    /\ cpc' = "clear_fired"
    /\ UNCHANGED <<buffers, fired, ppc, ptr, history>>

ConsumeStore ==
    /\ cpc = "clear_fired"
    /\ fired' = 0
    /\ cpc' = "array_clear"
    /\ UNCHANGED <<buffers, pipe, ppc, ptr, history>>

\* (fault) the array keeps the operations of the last round.
FlipClear_KeepsArray ==
    /\ cpc = "array_clear"
    /\ cpc' = "flip"
    /\ UNCHANGED <<buffers, trigger, ppc, ptr, history>>

\* flipbuf_flip empties the array it owns before it takes the mutex.
FlipClear ==
    /\ cpc = "array_clear"
    /\ slots' = [slots EXCEPT ![Reading] = <<>>]
    /\ cpc' = "flip"
    /\ UNCHANGED <<writing, trigger, ppc, ptr, history>>

Flip ==
    /\ cpc = "flip"
    /\ writing' = 1 - writing
    /\ ptr' = 0
    /\ cpc' = "process"
    /\ UNCHANGED <<slots, trigger, ppc, history>>

\* The loop of op_process over the flipped array.  OP_EXIT leaves the loop,
\* socket_poll and the thread.
Process ==
    /\ cpc = "process"
    /\ ptr < Len(slots[Reading])
    /\ ptr' = ptr + 1
    /\ cpc' = IF slots[Reading][ptr + 1] = exitOp THEN "exited" ELSE "process"
    /\ UNCHANGED <<buffers, trigger, ppc, history>>

ProcessDone ==
    /\ cpc = "process"
    /\ ptr = Len(slots[Reading])
    /\ cpc' = "events"
    /\ UNCHANGED <<buffers, trigger, ppc, ptr, history>>

\* The event loop of socket_poll, which pushes no operation.
Events ==
    /\ cpc = "events"
    /\ cpc' = "sp_wait"
    /\ UNCHANGED <<buffers, trigger, ppc, ptr, history>>

Fire(p) == FireWrite(p) \/ FireStore(p)
Consume == ConsumeLoad \/ ConsumeRead \/ ConsumeStore \/ FlipClear \/ Flip
           \/ Process \/ ProcessDone \/ Events

Next ==
    \/ \E p \in Producers : Fire(p) \/ \E exit \in BOOLEAN : Write(p, exit)
    \/ WakePipe
    \/ WakeSocket
    \/ Consume

Spec == Init /\ [][Next]_vars

\* Both threads run; sp_wait does not sleep on a readable pipe.  Nothing is
\* assumed of the calls to op_push nor of events on other sockets.
FairSpec ==
    /\ Spec
    /\ \A p \in Producers : WF_vars(Fire(p))
    /\ WF_vars(WakePipe)
    /\ WF_vars(Consume)
-----------------------------------------------------------------------------
Op == 1 .. MaxOps

\* Every variable has its type.
TypeOK ==
    /\ slots \in [{0, 1} -> Seq(Op)]
    /\ writing \in {0, 1}
    /\ pipe \in Nat
    /\ fired \in {0, 1}
    /\ ppc \in [Producers -> ProducerPC]
    /\ cpc \in ConsumerPC
    /\ ptr \in Nat
    /\ pushed \in 0 .. MaxOps
    /\ exitOp \in 0 .. MaxOps

\* The pipe of the trigger never holds more than the one byte that
\* trigger_consume reads, so trigger_fire never blocks on a full pipe and no
\* stale byte keeps the socket thread spinning.
PipeBounded == pipe <= 1

\* The pipe is not set to non-blocking mode; yet the socket thread never
\* blocks in trigger_consume's read, because `fired` is stored after the byte
\* is in the pipe.
NeverBlocksInRead == cpc = "pipe_read" => pipe > 0

\* An operation in the array op_push writes to has a wake-up on its way: some
\* producer is still firing, the byte is in the pipe, or the socket thread has
\* consumed the trigger and will flip this very array.
NoLostWakeup ==
    slots[writing] # <<>> =>
        \/ \E p \in Producers : ppc[p] = "pipe_write"
        \/ pipe > 0
        \/ cpc \in {"clear_fired", "array_clear", "flip"}

\* The trigger is right whatever the order of its steps on the two threads: no
\* second byte, no blocking read, and no operation without a wake-up (trigger.h).
TriggerExact == PipeBounded /\ NeverBlocksInRead /\ NoLostWakeup

\* op_push and op_process implement the FIFO of module OpQueue: no operation
\* is lost, carried out twice or overtaken, whichever array it went through.
Unprocessed ==
    (IF cpc \in {"process", "exited"}
       THEN SubSeq(slots[Reading], ptr + 1, Len(slots[Reading])) ELSE <<>>)
    \o slots[writing]

Queue == INSTANCE OpQueue WITH queue <- Unprocessed, stopped <- (cpc = "exited")
ImplementsQueue == Queue!Spec

\* Whatever the worker pushed is eventually carried out, unless the socket
\* thread exits: the trigger is never left unfired or unconsumed.
OpsCarriedOut == Unprocessed # <<>> ~> (Unprocessed = <<>> \/ cpc = "exited")
=============================================================================
