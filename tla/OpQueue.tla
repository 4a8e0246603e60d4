------------------------------ MODULE OpQueue ------------------------------
(***************************************************************************)
(* What the worker expects of the channel that carries its operations to   *)
(* the socket thread: every operation it pushes is carried out once, and   *)
(* in the order of the pushes, until the exit operation ends the thread.   *)
(***************************************************************************)
EXTENDS Naturals, Sequences

CONSTANT MaxOps

VARIABLES pushed,   \* how many operations were pushed; the n-th one is op n
          queue,    \* the operations not carried out yet, oldest first
          exitOp,   \* the number of the exit operation, 0 before it is pushed
          stopped   \* the consumer met the exit operation

avars == <<pushed, queue, exitOp, stopped>>

Init ==
    /\ pushed = 0
    /\ queue = <<>>
    /\ exitOp = 0
    /\ stopped = FALSE

Push(exit) ==
    /\ pushed < MaxOps
    /\ exit => exitOp = 0
    /\ pushed' = pushed + 1
    /\ queue' = Append(queue, pushed + 1)
    /\ exitOp' = IF exit THEN pushed + 1 ELSE exitOp
    /\ UNCHANGED stopped

\* The oldest operation is carried out; the exit operation stops the consumer.
Perform ==
    /\ ~stopped
    /\ queue # <<>>
    /\ queue' = Tail(queue)
    /\ stopped' = (Head(queue) = exitOp)
    /\ UNCHANGED <<pushed, exitOp>>

Next == (\E exit \in BOOLEAN : Push(exit)) \/ Perform

Spec == Init /\ [][Next]_avars
=============================================================================
