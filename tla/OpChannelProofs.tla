-------------------------- MODULE OpChannelProofs --------------------------
(***************************************************************************)
(* Proofs about module OpChannel, for any set of producers and any bound   *)
(* on the pushes.                                                          *)
(***************************************************************************)
EXTENDS OpChannel, SequenceTheorems, TLAPS

AllIdle == \A p \in Producers : ppc[p] = "idle"
OneAt(pc) == \E p \in Producers :
                /\ ppc[p] = pc
                /\ \A q \in Producers \ {p} : ppc[q] = "idle"
Flipping == {"pipe_read", "clear_fired", "array_clear", "flip"}

\* The wake-up is in one place at a time: with the producer that found the
\* array empty, in the pipe, or with the socket thread that is about to flip.
Phase ==
    \/ slots[writing] = <<>> /\ AllIdle /\ pipe = 0 /\ fired = 0 /\ cpc \notin Flipping
    \/ slots[writing] # <<>> /\
        \/ OneAt("pipe_write") /\ pipe = 0 /\ fired = 0 /\ cpc \notin Flipping
        \/ OneAt("store_fired") /\ pipe = 1 /\ fired = 0 /\ cpc \notin Flipping
        \/ AllIdle /\ pipe = 1 /\ fired = 1 /\ cpc \notin (Flipping \ {"pipe_read"})
        \/ AllIdle /\ pipe = 0 /\ fired = 1 /\ cpc = "clear_fired"
        \/ AllIdle /\ pipe = 0 /\ fired = 0 /\ cpc \in {"array_clear", "flip"}

ReaderInv ==
    /\ cpc = "flip" => slots[Reading] = <<>>
    /\ cpc \in {"process", "exited"} => ptr <= Len(slots[Reading])

IInv == TypeOK /\ Phase /\ ReaderInv
-----------------------------------------------------------------------------
LEMMA SlotIndex == TypeOK => /\ Reading \in {0, 1}
                             /\ Reading # writing
                             /\ writing \in {0, 1}
  BY DEF TypeOK, Reading

\* Each step of OpChannel keeps the types.
LEMMA TypeStep == TypeOK /\ [Next]_vars => TypeOK'
<1> SUFFICES ASSUME TypeOK, [Next]_vars PROVE TypeOK'
  OBVIOUS
<1> USE SlotIndex DEF TypeOK, buffers, trigger, history, ProducerPC, ConsumerPC
<1>1. ASSUME NEW p \in Producers, NEW exit \in BOOLEAN, Write(p, exit)
      PROVE  TypeOK'
  <2>1. pushed + 1 \in Op
    BY <1>1, MaxOpsAssumption DEF Write, Op
  <2>2. slots' \in [{0, 1} -> Seq(Op)]
    BY <1>1, <2>1 DEF Write
  <2> QED
    BY <1>1, <2>1, <2>2 DEF Write, Op
<1>2. ASSUME NEW p \in Producers, FireWrite(p) PROVE TypeOK'
  BY <1>2 DEF FireWrite
<1>3. ASSUME NEW p \in Producers, FireStore(p) PROVE TypeOK'
  BY <1>3 DEF FireStore
<1>4. CASE WakePipe \/ WakeSocket
  BY <1>4 DEF WakePipe, WakeSocket
<1>5. CASE ConsumeLoad
  BY <1>5 DEF ConsumeLoad
<1>6. CASE ConsumeRead
  BY <1>6 DEF ConsumeRead
<1>7. CASE ConsumeStore
  BY <1>7 DEF ConsumeStore
<1>8. CASE FlipClear
  BY <1>8 DEF FlipClear
<1>9. CASE Flip
  BY <1>9 DEF Flip
<1>10. CASE Process
  BY <1>10 DEF Process
<1>12. CASE ProcessDone
  BY <1>12 DEF ProcessDone
<1>13. CASE Events
  BY <1>13 DEF Events
<1>11. CASE UNCHANGED vars
  BY <1>11 DEF vars
<1> QED
  BY <1>1, <1>2, <1>3, <1>4, <1>5, <1>6, <1>7, <1>8, <1>9, <1>10, <1>11,
     <1>12, <1>13 DEF Next, Fire, Consume

\* The wake-up moves from the producer to the pipe to the socket thread.
LEMMA PhaseStep == IInv /\ [Next]_vars => Phase'
<1> SUFFICES ASSUME IInv, [Next]_vars PROVE Phase'
  OBVIOUS
<1> USE SlotIndex DEF IInv, TypeOK, Phase, AllIdle, OneAt, Flipping,
                      buffers, trigger, history
<1>1. ASSUME NEW p \in Producers, NEW exit \in BOOLEAN, Write(p, exit)
      PROVE  Phase'
  <2>1. slots'[writing] # <<>> /\ writing' = writing
    <3>1. pushed + 1 \in Op
      BY <1>1, MaxOpsAssumption DEF Write, Op
    <3> QED
      BY <1>1, <3>1, AppendProperties DEF Write
  <2>2. CASE slots[writing] = <<>>
    <3>1. OneAt("pipe_write")'
      BY <1>1, <2>2 DEF Write
    <3> QED
      BY <1>1, <2>1, <2>2, <3>1 DEF Write
  <2>3. CASE slots[writing] # <<>>
    <3>1. ppc' = ppc
      BY <1>1, <2>3 DEF Write
    <3> QED
      BY <1>1, <2>1, <2>3, <3>1 DEF Write
  <2> QED
    BY <2>2, <2>3
<1>2. ASSUME NEW p \in Producers, FireWrite(p) PROVE Phase'
  <2>1. OneAt("pipe_write") /\ slots[writing] # <<>> /\ pipe = 0 /\ fired = 0
        /\ cpc \notin Flipping
    BY <1>2 DEF FireWrite
  <2>2. OneAt("store_fired")'
    BY <1>2, <2>1 DEF FireWrite
  <2> QED
    BY <1>2, <2>1, <2>2 DEF FireWrite
<1>3. ASSUME NEW p \in Producers, FireStore(p) PROVE Phase'
  <2>1. OneAt("store_fired") /\ slots[writing] # <<>> /\ pipe = 1 /\ fired = 0
        /\ cpc \notin Flipping
    BY <1>3 DEF FireStore
  <2>2. AllIdle'
    BY <1>3, <2>1 DEF FireStore
  <2>3. /\ slots'[writing'] # <<>> /\ pipe' = 1 /\ fired' = 1
        /\ cpc' \notin Flipping
    BY <1>3, <2>1 DEF FireStore
  <2> QED
    BY <2>2, <2>3
<1>4. CASE WakePipe
  BY <1>4 DEF WakePipe, PipeReadable
<1>14. CASE WakeSocket
  BY <1>14 DEF WakeSocket
<1>5. CASE ConsumeLoad
  BY <1>5 DEF ConsumeLoad
<1>6. CASE ConsumeRead
  BY <1>6 DEF ConsumeRead
<1>7. CASE ConsumeStore
  BY <1>7 DEF ConsumeStore
<1>8. CASE FlipClear
  BY <1>8 DEF FlipClear
<1>9. CASE Flip
  BY <1>9 DEF Flip, ReaderInv, Reading
<1>10. CASE Process
  BY <1>10 DEF Process
<1>12. CASE ProcessDone
  BY <1>12 DEF ProcessDone
<1>13. CASE Events
  BY <1>13 DEF Events
<1>11. CASE UNCHANGED vars
  BY <1>11 DEF vars
<1> QED
  BY <1>1, <1>2, <1>3, <1>4, <1>5, <1>6, <1>7, <1>8, <1>9, <1>10, <1>11,
     <1>12, <1>13, <1>14 DEF Next, Fire, Consume

\* The array of the socket thread is empty when it is handed back, and the
\* loop of op_process stays within the flipped array.
LEMMA ReaderStep == IInv /\ [Next]_vars => ReaderInv'
<1> SUFFICES ASSUME IInv, [Next]_vars PROVE ReaderInv'
  OBVIOUS
<1> USE SlotIndex DEF IInv, TypeOK, ReaderInv, Reading, buffers, trigger, history
<1>1. ASSUME NEW p \in Producers, NEW exit \in BOOLEAN, Write(p, exit)
      PROVE  ReaderInv'
  BY <1>1 DEF Write
<1>2. ASSUME NEW p \in Producers, Fire(p) PROVE ReaderInv'
  BY <1>2 DEF Fire, FireWrite, FireStore
<1>4. CASE WakePipe \/ WakeSocket
  BY <1>4 DEF WakePipe, WakeSocket
<1>5. CASE ConsumeLoad \/ ConsumeRead \/ ConsumeStore
  BY <1>5 DEF ConsumeLoad, ConsumeRead, ConsumeStore
<1>8. CASE FlipClear
  BY <1>8 DEF FlipClear
<1>9. CASE Flip
  BY <1>9 DEF Flip
<1>10. CASE Process
  BY <1>10 DEF Process
<1>12. CASE ProcessDone \/ Events
  BY <1>12 DEF ProcessDone, Events
<1>11. CASE UNCHANGED vars
  BY <1>11 DEF vars
<1> QED
  BY <1>1, <1>2, <1>4, <1>5, <1>8, <1>9, <1>10, <1>11, <1>12
     DEF Next, Consume

\* The types and the phases of the wake-up hold in every state.
THEOREM Inductive == Spec => []IInv
<1>1. Init => IInv
  BY MaxOpsAssumption DEF Init, IInv, TypeOK, Phase, ReaderInv, AllIdle, OneAt,
     Flipping, ProducerPC, ConsumerPC, Op
<1>2. IInv /\ [Next]_vars => IInv'
  BY TypeStep, PhaseStep, ReaderStep DEF IInv
<1> QED
  BY <1>1, <1>2, PTL DEF Spec

\* The trigger is sound: its pipe holds at most one byte, the socket thread
\* never blocks reading it, and a buffered operation always has a wake-up on
\* its way, for any number of threads that push.
THEOREM TriggerSound == Spec => []TriggerExact
<1>1. IInv => TriggerExact
  BY DEF IInv, TypeOK, Phase, OneAt, Flipping, TriggerExact, PipeBounded,
         NeverBlocksInRead, NoLostWakeup
<1> QED
  BY <1>1, Inductive, PTL

\* The variables keep their types.
THEOREM TypeCorrect == Spec => []TypeOK
  BY Inductive, PTL DEF IInv
-----------------------------------------------------------------------------
(* The refinement of OpQueue.                                              *)

InBatch == cpc \in {"process", "exited"}
Batch == SubSeq(slots[Reading], ptr + 1, Len(slots[Reading]))

LEMMA BatchType == IInv /\ InBatch => Batch \in Seq(Op)
<1> SUFFICES ASSUME IInv, InBatch PROVE Batch \in Seq(Op)
  OBVIOUS
<1>1. slots[Reading] \in Seq(Op) /\ ptr \in Nat
  BY SlotIndex DEF IInv, TypeOK
<1>2. \A i \in ptr + 1 .. Len(slots[Reading]) : slots[Reading][i] \in Op
  BY <1>1
<1> QED
  BY <1>1, <1>2, SubSeqProperties DEF Batch

LEMMA HeadTailConcat ==
  ASSUME NEW S, NEW s \in Seq(S), NEW t \in Seq(S), s # <<>>
  PROVE  /\ s \o t # <<>>
         /\ Head(s \o t) = Head(s)
         /\ Tail(s \o t) = Tail(s) \o t
  OBVIOUS

LEMMA AppendConcat ==
  ASSUME NEW S, NEW s \in Seq(S), NEW t \in Seq(S), NEW e \in S
  PROVE  s \o Append(t, e) = Append(s \o t, e)
  OBVIOUS

\* The worker's push is a push of OpQueue.
LEMMA WriteImplements ==
  ASSUME IInv, NEW p \in Producers, NEW exit \in BOOLEAN, Write(p, exit)
  PROVE  Queue!Push(exit)
<1>1. pushed + 1 \in Op
  BY MaxOpsAssumption DEF Write, Op, IInv, TypeOK
<1>2. /\ slots[writing] \in Seq(Op)
      /\ slots'[writing] = Append(slots[writing], pushed + 1)
      /\ slots'[Reading] = slots[Reading]
      /\ writing' = writing /\ Reading' = Reading
      /\ cpc' = cpc /\ ptr' = ptr
  BY SlotIndex DEF Write, IInv, TypeOK, Reading
<1>3. Unprocessed' = Append(Unprocessed, pushed + 1)
  <2>1. CASE InBatch
    <3>1. Unprocessed = Batch \o slots[writing]
      BY <2>1 DEF Unprocessed, Batch, InBatch
    <3>2. Unprocessed' = Batch \o Append(slots[writing], pushed + 1)
      BY <2>1, <1>2 DEF Unprocessed, Batch, InBatch
    <3>3. Batch \in Seq(Op)
      BY <2>1, BatchType
    <3>4. slots[writing] \in Seq(Op)
      BY <1>2
    <3> QED
      BY <1>1, <3>1, <3>2, <3>3, <3>4, AppendConcat
  <2>2. CASE ~InBatch
    <3>1. Unprocessed = <<>> \o slots[writing]
      BY <2>2 DEF Unprocessed, InBatch
    <3>2. Unprocessed' = <<>> \o Append(slots[writing], pushed + 1)
      BY <2>2, <1>2 DEF Unprocessed, InBatch
    <3>3. Append(slots[writing], pushed + 1) \in Seq(Op)
      BY <1>1, <1>2, AppendProperties
    <3> QED
      BY <1>2, <3>1, <3>2, <3>3, ConcatEmptySeq
  <2> QED
    BY <2>1, <2>2
<1> QED
  BY <1>2, <1>3 DEF Write, Queue!Push

\* A turn of the loop of op_process carries out the oldest operation.
LEMMA ProcessImplements == IInv /\ Process => Queue!Perform
<1> SUFFICES ASSUME IInv, Process PROVE Queue!Perform
  OBVIOUS
<1> DEFINE arr == slots[Reading]
<1>1. /\ arr \in Seq(Op) /\ slots[writing] \in Seq(Op) /\ ptr \in Nat
      /\ ptr + 1 \in 1 .. Len(arr) /\ Len(arr) \in ptr + 1 .. Len(arr)
  BY SlotIndex DEF IInv, TypeOK, Process
<1>2. /\ Head(Batch) = arr[ptr + 1]
      /\ Tail(Batch) = SubSeq(arr, ptr + 2, Len(arr))
  <2>1. (ptr + 1) + 1 = ptr + 2
    BY <1>1
  <2> QED
    BY <1>1, <2>1, HeadTailOfSubSeq DEF Batch
<1>3. Batch \in Seq(Op) /\ Batch # <<>>
  <2>1. Batch \in Seq(Op)
    BY BatchType DEF InBatch, Process
  <2>2. Len(Batch) = Len(arr) - ptr
    <3>1. \A i \in ptr + 1 .. Len(arr) : arr[i] \in Op
      BY <1>1
    <3>2. Len(Batch) = IF ptr + 1 <= Len(arr) THEN Len(arr) - (ptr + 1) + 1 ELSE 0
      BY <1>1, <3>1, SubSeqProperties DEF Batch
    <3> QED
      BY <1>1, <3>2
  <2> QED
    BY <1>1, <2>1, <2>2, EmptySeq
<1>4. Unprocessed = Batch \o slots[writing]
  BY DEF Unprocessed, Batch, Process
<1>5. Unprocessed' = Tail(Batch) \o slots[writing]
  <2>1. /\ slots' = slots /\ writing' = writing /\ Reading' = Reading
        /\ ptr' + 1 = ptr + 2
        /\ cpc' \in {"process", "exited"}
    BY <1>1 DEF Process, buffers, Reading
  <2> QED
    BY <1>2, <2>1 DEF Unprocessed
<1>6. /\ Unprocessed # <<>>
      /\ Head(Unprocessed) = arr[ptr + 1]
      /\ Tail(Unprocessed) = Unprocessed'
  BY <1>1, <1>2, <1>3, <1>4, <1>5, HeadTailConcat
<1>7. /\ cpc # "exited"
      /\ (cpc' = "exited") = (arr[ptr + 1] = exitOp)
      /\ pushed' = pushed /\ exitOp' = exitOp
  BY DEF Process, history
<1> QED
  BY <1>6, <1>7 DEF Queue!Perform

\* Handing over an array changes where the operations are, not which ones
\* are left; no other step touches them.
LEMMA OthersStutter ==
  ASSUME IInv,
         \/ \E p \in Producers : Fire(p)
         \/ WakePipe \/ WakeSocket
         \/ ConsumeLoad \/ ConsumeRead \/ ConsumeStore \/ FlipClear \/ Flip
         \/ ProcessDone \/ Events
         \/ UNCHANGED vars
  PROVE  UNCHANGED Queue!avars
<1> USE SlotIndex DEF IInv, TypeOK
<1>1. CASE Flip
  <2>1. /\ Reading' = writing /\ writing' = Reading /\ slots' = slots
        /\ ptr' = 0 /\ cpc = "flip" /\ cpc' = "process"
        /\ slots[Reading] = <<>> /\ slots[writing] \in Seq(Op)
    BY <1>1 DEF Flip, Reading, ReaderInv
  <2>2. Unprocessed = <<>> \o slots[writing]
    BY <2>1 DEF Unprocessed
  <2>3. Unprocessed' = SubSeq(slots[writing], 1, Len(slots[writing])) \o <<>>
    BY <2>1 DEF Unprocessed
  <2>4. Unprocessed' = Unprocessed
    BY <2>1, <2>2, <2>3, SubSeqFull, ConcatEmptySeq
  <2> QED
    BY <1>1, <2>4 DEF Flip, history, Queue!avars
<1>2. CASE ProcessDone
  <2>1. Unprocessed = SubSeq(slots[Reading], ptr + 1, ptr) \o slots[writing]
    BY <1>2 DEF ProcessDone, Unprocessed
  <2>2. SubSeq(slots[Reading], ptr + 1, ptr) = <<>>
    BY SubSeqEmpty
  <2>3. Unprocessed' = <<>> \o slots[writing]
    BY <1>2 DEF ProcessDone, Unprocessed, buffers
  <2> QED
    BY <1>2, <2>1, <2>2, <2>3 DEF ProcessDone, history, Queue!avars
<1>3. CASE FlipClear
  BY <1>3 DEF FlipClear, Unprocessed, history, Queue!avars
<1>4. CASE \E p \in Producers : Fire(p)
  BY <1>4 DEF Fire, FireWrite, FireStore, Unprocessed, Reading, buffers, history,
              Queue!avars
<1>5. CASE WakePipe
  BY <1>5 DEF WakePipe, PipeReadable, Unprocessed, Reading, buffers, history, Queue!avars
<1>6. CASE WakeSocket
  BY <1>6 DEF WakeSocket, Unprocessed, Reading, buffers, history, Queue!avars
<1>7. CASE ConsumeLoad
  BY <1>7 DEF ConsumeLoad, Unprocessed, Reading, buffers, history, Queue!avars
<1>8. CASE ConsumeRead
  BY <1>8 DEF ConsumeRead, Unprocessed, Reading, buffers, history, Queue!avars
<1>9. CASE ConsumeStore
  BY <1>9 DEF ConsumeStore, Unprocessed, Reading, buffers, history, Queue!avars
<1>10. CASE Events
  BY <1>10 DEF Events, Unprocessed, Reading, buffers, history, Queue!avars
<1>11. CASE UNCHANGED vars
  BY <1>11 DEF vars, Unprocessed, Reading, Queue!avars
<1> QED
  BY <1>1, <1>2, <1>3, <1>4, <1>5, <1>6, <1>7, <1>8, <1>9, <1>10, <1>11

\* op_push and op_process implement a FIFO: nothing is lost, repeated or
\* reordered between the worker and the socket thread.
THEOREM QueueRefinement == Spec => ImplementsQueue
<1>1. Init => Queue!Init
  <2> SUFFICES ASSUME Init PROVE Queue!Init
    OBVIOUS
  <2>1. Unprocessed = <<>> \o <<>>
    BY DEF Init, Unprocessed
  <2>2. <<>> \o <<>> = <<>>
    BY EmptySeq, ConcatEmptySeq
  <2> QED
    BY <2>1, <2>2 DEF Init, Queue!Init
<1>2. IInv /\ [Next]_vars => [Queue!Next]_(Queue!avars)
  <2> SUFFICES ASSUME IInv, [Next]_vars PROVE [Queue!Next]_(Queue!avars)
    OBVIOUS
  <2>1. CASE \E p \in Producers, exit \in BOOLEAN : Write(p, exit)
    BY <2>1, WriteImplements DEF Queue!Next
  <2>2. CASE Process
    BY <2>2, ProcessImplements DEF Queue!Next
  <2>3. CASE ~(\E p \in Producers, exit \in BOOLEAN : Write(p, exit)) /\ ~Process
    <3>1. \/ \E p \in Producers : Fire(p)
          \/ WakePipe \/ WakeSocket
          \/ ConsumeLoad \/ ConsumeRead \/ ConsumeStore \/ FlipClear \/ Flip
          \/ ProcessDone \/ Events
          \/ UNCHANGED vars
      BY <2>3 DEF Next, Consume
    <3> QED
      BY <3>1, OthersStutter
  <2> QED
    BY <2>1, <2>2, <2>3
<1> QED
  BY <1>1, <1>2, Inductive, PTL DEF Spec, ImplementsQueue, Queue!Spec
=============================================================================
