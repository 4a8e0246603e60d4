---------------------------- MODULE UnlockProofs ----------------------------
(***************************************************************************)
(* The rest of the proof of module Mutex: unlock() and __close, which give *)
(* a reference up, lessen the count of the lock object, recycle it or hand *)
(* it to the first in line; and the theorem about all of mutex.lua.        *)
(***************************************************************************)
EXTENDS MutexProofs

\* Nobody waits: the lock object forgets its key and goes back to the cache.
LEMMA UnrefLast ==
  ASSUME MutexInv, NEW p \in Proxies, NEW l \in Locks, GivesUp(p, l), Recycles(l)
  PROVE  MutexInv'
<1> USE DEF MutexInv
<1>1. /\ IInv' /\ UNCHANGED <<wants, status, events>> /\ None \notin Tasks \cup Keys \cup Locks
      /\ Dropped(p) /\ proxy[p] = l /\ lock[l].waitq = <<>>
  BY IInvFrame, MutexAssumption DEF tvars, Dropped, GivesUp, Recycles
<1>2. /\ proxy' \in [Proxies -> Locks \cup {None}] /\ scope' \in [Proxies -> Tasks \cup {None}]
      /\ proxycache' \subseteq Proxies
      /\ \A m \in Locks : m # l => Refs(proxy', m) = Refs(proxy, m)
  BY <1>1, DroppedFacts
<1>3. /\ lock \in [Locks -> LockObjects] /\ lock[l].key \in Keys /\ lockobj[lock[l].key] = l
      /\ ~Handed(l) /\ Cardinality(Refs(proxy', l)) = 0 /\ \A q \in Proxies : proxy'[q] # l
  BY UnrefFacts DEF Recycles
<1>4. /\ lock' \in [Locks -> LockObjects] /\ lock'[l] = Bare
      /\ \A m \in Locks : m # l => lock'[m] = lock[m]
  <2>1. Bare \in LockObjects
    BY MutexAssumption DEF Bare, LockObjects
  <2>2. QED
    BY <1>3, <2>1 DEF Recycles, Recycled
<1>5. /\ lockobj' \in [Keys -> Locks \cup {None}] /\ lockcache' \subseteq Locks
      /\ lockobj'[lock[l].key] = None /\ \A k \in Keys : k # lock[l].key => lockobj'[k] = lockobj[k]
      /\ lockcache' = lockcache \cup {l}
  BY <1>3 DEF Recycles, MutexTypeOK
<1>6. MutexTypeOK'
  BY <1>1, <1>2, <1>4, <1>5 DEF MutexTypeOK, LockObjects
<1>7. TableExact'
  <2>1. \A k \in Keys, m \in Locks : lockobj'[k] = m <=> lock'[m].key = k
    <3> SUFFICES ASSUME NEW k \in Keys, NEW m \in Locks PROVE lockobj'[k] = m <=> lock'[m].key = k
      OBVIOUS
    <3>1. lockobj[k] = m <=> lock[m].key = k
      BY DEF TableExact
    <3>2. CASE m = l
      <4>1. lock'[m].key = None /\ lockobj'[k] # l
        BY <1>1, <1>3, <1>4, <1>5, <3>1, <3>2 DEF Bare
      <4>2. QED
        BY <1>1, <3>2, <4>1
    <3>3. CASE m # l
      BY <1>1, <1>3, <1>4, <1>5, <3>1, <3>3
    <3>4. QED
      BY <3>2, <3>3
  <2>2. \A m \in lockcache' : lock'[m] = Bare
    <3>1. \A m \in lockcache : m \in Locks /\ lock[m] = Bare
      BY DEF TableExact, MutexTypeOK
    <3>2. QED
      BY <1>4, <1>5, <3>1
  <2>3. QED
    BY <2>1, <2>2 DEF TableExact
<1>8. Served'
  BY <1>4 DEF Served, Bare
<1>9. ProxiesOwned'
  BY <1>1, <1>3, <1>4, ProxyDropped
<1>10. CountsExact'
  <2>1. ~Handed(l)' /\ lock'[l].refn = 0
    BY <1>4 DEF Handed, Bare
  <2>2. \A m \in Locks : m # l => (Handed(m)' <=> Handed(m))
    BY <1>1, <1>4 DEF Handed
  <2>3. QED
    BY <1>2, <1>3, <1>4, <2>1, <2>2, Counts
<1>11. Lines'
  <2>1. \A m \in Locks : lock'[m].waitq = lock[m].waitq
    BY <1>1, <1>4 DEF Bare
  <2>2. \A t \in Tasks : wants[t] # l
    BY <1>1, <1>3 DEF Lines, WaiterLined, Handed
  <2>3. \A t \in Tasks : wants[t] # None => lock'[wants[t]] = lock[wants[t]]
    BY <1>4, <2>2 DEF MutexTypeOK
  <2>4. QED
    BY <1>1, <2>1, <2>3, LinesFrame
<1>12. QED
  BY <1>1, <1>6, <1>7, <1>8, <1>9, <1>10, <1>11

\* The lock object is handed to the first in line, which is made READY.
LEMMA UnrefHand ==
  ASSUME MutexInv, NEW p \in Proxies, NEW l \in Locks, GivesUp(p, l), NEW c, HandsOver(l, c)
  PROVE  MutexInv'
<1> USE DEF MutexInv
<1> DEFINE q == lock[l].waitq
           w == Tail(q)
<1>1. /\ lock \in [Locks -> LockObjects] /\ lock[l] \in LockObjects /\ lock[l].key \in Keys /\ l \notin lockcache
      /\ ~Handed(l) /\ Cardinality(Refs(proxy', l)) = 0 /\ \A r \in Proxies : proxy'[r] # l
  BY UnrefFacts DEF HandsOver
<1>2. /\ q \in Seq(Tasks) /\ q # <<>> /\ Len(q) \in Nat \ {0} /\ c = q[1] /\ c \in Tasks
      /\ w \in Seq(Tasks) /\ Len(w) = Len(q) - 1 /\ DOMAIN w = 1..Len(q) - 1
      /\ \A i \in 1..Len(q) - 1 : w[i] = q[i + 1]
  BY <1>1 DEF LockObjects, HandsOver
<1>3. /\ \A i \in 1..Len(q) : q[i] \in Tasks /\ wants[q[i]] = l /\ status[q[i]] = "WAIT"
      /\ \A i, j \in 1..Len(q) : q[i] = q[j] => i = j
  BY <1>2 DEF Lines, LineWaits, LineOnce, IsInjective
<1> HIDE DEF q, w
<1>4. wants[c] = l /\ c # None /\ None \notin Tasks \cup Keys \cup Locks
  BY <1>2, <1>3, MutexAssumption
<1>5. /\ IInv' /\ status' = [status EXCEPT ![c] = "READY"] /\ UNCHANGED <<wants, events, lockobj, lockcache>>
      /\ status \in [Tasks -> Statuses] /\ Dropped(p) /\ proxy[p] = l
  BY <1>2, WakeupFacts DEF Dropped, IInv, TypeOK, GivesUp, HandsOver
<1>6. /\ proxy' \in [Proxies -> Locks \cup {None}] /\ scope' \in [Proxies -> Tasks \cup {None}]
      /\ proxycache' \subseteq Proxies
      /\ \A m \in Locks : m # l => Refs(proxy', m) = Refs(proxy, m)
  BY <1>5, DroppedFacts
<1>7. /\ lock' \in [Locks -> LockObjects] /\ lock'[l].key = lock[l].key /\ lock'[l].refn = 1
      /\ lock'[l].owner = c /\ lock'[l].waitq = w
      /\ \A m \in Locks : m # l => lock'[m] = lock[m]
  <2> DEFINE r == [lock[l] EXCEPT !.refn = 1, !.owner = c, !.waitq = w]
  <2>1. lock' = [lock EXCEPT ![l].refn = 1, ![l].owner = c, ![l].waitq = w]
    BY <1>1 DEF HandsOver, HandedTo, q, w, LockObjects
  <2>2. lock' = [lock EXCEPT ![l] = r]
    BY <1>1, <2>1, Zenon DEF LockObjects
  <2>3. 1 \in 0..MaxRef
    BY MutexAssumption
  <2>4. r \in LockObjects /\ r.refn = 1 /\ r.key = lock[l].key /\ r.owner = c /\ r.waitq = w
    BY <1>1, <1>2, <2>3, Zenon DEF LockObjects
  <2> HIDE DEF r
  <2>5. QED
    BY <1>1, <2>2, <2>4
<1>8. MutexTypeOK'
  BY <1>5, <1>6, <1>7 DEF MutexTypeOK, LockObjects
<1>9. TableExact'
  <2>1. lockcache \subseteq Locks /\ \A m \in Locks : lock'[m].key = lock[m].key
    BY <1>7, Zenon DEF MutexTypeOK
  <2>2. \A m \in lockcache : lock'[m] = lock[m]
    BY <1>1, <1>7, <2>1
  <2>3. QED
    BY <1>5, <2>1, <2>2 DEF TableExact
<1>10. Served'
  BY <1>1, <1>4, <1>5, <1>7 DEF Served
<1>11. ProxiesOwned'
  BY <1>1, <1>5, <1>7, ProxyDropped
<1>12. CountsExact'
  <2>1. Handed(l)'
    BY <1>4, <1>5, <1>7 DEF Handed
  <2>2. \A m \in Locks : m # l => (Handed(m)' <=> Handed(m))
    BY <1>5, <1>7 DEF Handed
  <2>3. QED
    BY <1>1, <1>6, <1>7, <2>1, <2>2, Counts
<1>13. LineOnce'
  <2>1. IsInjective(w)
    BY <1>2, <1>3 DEF IsInjective
  <2>2. QED
    BY <1>7, <2>1 DEF Lines, LineOnce
<1>14. LineWaits'
  <2>1. ASSUME NEW i \in 1..Len(lock'[l].waitq)
        PROVE  wants'[lock'[l].waitq[i]] = l /\ status'[lock'[l].waitq[i]] = "WAIT"
    <3>1. i + 1 \in 1..Len(q) /\ i + 1 # 1 /\ 1 \in 1..Len(q) /\ lock'[l].waitq[i] = q[i + 1]
      BY <1>2, <1>7
    <3>2. q[i + 1] # c /\ q[i + 1] \in Tasks /\ wants[q[i + 1]] = l /\ status[q[i + 1]] = "WAIT"
      BY <1>2, <1>3, <3>1
    <3>3. QED
      BY <1>5, <3>1, <3>2
  <2>2. ASSUME NEW m \in Locks, m # l, NEW i \in 1..Len(lock'[m].waitq)
        PROVE  wants'[lock'[m].waitq[i]] = m /\ status'[lock'[m].waitq[i]] = "WAIT"
    <3>1. lock'[m] = lock[m] /\ lock[m].waitq[i] \in Tasks /\ wants[lock[m].waitq[i]] = m /\ status[lock[m].waitq[i]] = "WAIT"
      BY <1>7, <2>2 DEF Lines, LineWaits, MutexTypeOK
    <3>2. lock[m].waitq[i] # c
      BY <1>4, <2>2, <3>1
    <3>3. QED
      BY <1>5, <3>1, <3>2
  <2>3. ASSUME NEW m \in Locks, NEW i \in 1..Len(lock'[m].waitq)
        PROVE  wants'[lock'[m].waitq[i]] = m /\ status'[lock'[m].waitq[i]] = "WAIT"
    <3>1. CASE m = l
      BY <2>1, <3>1
    <3>2. CASE m # l
      BY <2>2, <3>2
    <3>3. QED
      BY <3>1, <3>2
  <2>4. QED
    BY <2>3 DEF LineWaits
<1>15. WaiterLined'
  <2>1. ASSUME NEW t \in Tasks, t # c, wants[t] = l
        PROVE  /\ status'[t] = "WAIT" /\ lock'[l].owner \notin {None, t}
               /\ \E i \in 1..Len(lock'[l].waitq) : lock'[l].waitq[i] = t
    <3>1. status[t] = "WAIT"
      BY <1>1, <1>4, <2>1 DEF Lines, WaiterLined, Handed
    <3>2. PICK i \in 1..Len(q) : q[i] = t
      BY <1>4, <2>1, <3>1 DEF Lines, WaiterLined, q
    <3>3. i # 1 /\ i - 1 \in 1..Len(w) /\ w[i - 1] = t
      BY <1>2, <2>1, <3>2
    <3>4. \E j \in 1..Len(lock'[l].waitq) : lock'[l].waitq[j] = t
      BY <1>7, <3>3
    <3>5. QED
      BY <1>4, <1>5, <1>7, <2>1, <3>1, <3>4
  <2>2. ASSUME NEW t \in Tasks, wants[t] # None, wants[t] # l
        PROVE  lock'[wants[t]] = lock[wants[t]] /\ status'[t] = status[t]
    BY <1>4, <1>5, <1>7, <2>2 DEF MutexTypeOK
  <2>3. status'[c] # "WAIT"
    BY <1>2, <1>5
  <2>4. ASSUME NEW t \in Tasks, wants'[t] # None
        PROVE  IF status'[t] = "WAIT"
               THEN /\ \E i \in 1..Len(lock'[wants'[t]].waitq) : lock'[wants'[t]].waitq[i] = t
                    /\ lock'[wants'[t]].owner \notin {None, t}
               ELSE lock'[wants'[t]].owner = t
    <3>1. CASE t = c
      BY <1>4, <1>5, <1>7, <2>3, <3>1
    <3>2. CASE t # c /\ wants[t] = l
      <4>1. wants'[t] = l
        BY <1>5, <3>2
      <4>2. /\ status'[t] = "WAIT" /\ lock'[l].owner \notin {None, t}
            /\ \E i \in 1..Len(lock'[l].waitq) : lock'[l].waitq[i] = t
        BY <2>1, <3>2
      <4>3. /\ status'[t] = "WAIT" /\ lock'[wants'[t]].owner \notin {None, t}
            /\ \E i \in 1..Len(lock'[wants'[t]].waitq) : lock'[wants'[t]].waitq[i] = t
        BY <4>1, <4>2
      <4>4. QED
        BY <4>3
    <3>3. CASE wants[t] # l
      <4>1. wants[t] # None /\ lock'[wants[t]] = lock[wants[t]] /\ status'[t] = status[t]
        BY <1>5, <2>2, <2>4, <3>3
      <4>2. wants'[t] = wants[t]
        BY <1>5
      <4>3. CASE status[t] = "WAIT"
        <5>1. /\ lock[wants[t]].owner \notin {None, t}
              /\ \E i \in 1..Len(lock[wants[t]].waitq) : lock[wants[t]].waitq[i] = t
          BY <4>1, <4>3 DEF Lines, WaiterLined
        <5>2. /\ status'[t] = "WAIT" /\ lock'[wants'[t]].owner \notin {None, t}
              /\ \E i \in 1..Len(lock'[wants'[t]].waitq) : lock'[wants'[t]].waitq[i] = t
          BY <4>1, <4>2, <4>3, <5>1
        <5>3. QED
          BY <5>2
      <4>4. CASE status[t] # "WAIT"
        BY <4>1, <4>2, <4>4 DEF Lines, WaiterLined
      <4>5. QED
        BY <4>3, <4>4
    <3>4. QED
      BY <3>1, <3>2, <3>3
  <2>5. QED
    BY <2>4 DEF WaiterLined
<1>16. EventFree'
  BY <1>5 DEF Lines, EventFree
<1>17. QED
  BY <1>5, <1>8, <1>9, <1>10, <1>11, <1>12, <1>13, <1>14, <1>15, <1>16 DEF Lines

\* unlock() and __close
LEMMA GiveUpStep ==
  ASSUME MutexInv, NEW p \in Proxies, Unlock(p) \/ Close(p)
  PROVE  MutexInv'
<1>1. Dropped(p) /\ ~InMain
  BY DEF Dropped, Unlock, Close, MutexUser
<1>2. IF proxy[p] = None THEN UNCHANGED <<tvars, lock, lockobj, lockcache>> ELSE Unref(proxy[p])
  BY DEF Unlock, Close
<1>3. CASE proxy[p] = None
  BY <1>1, <1>2, <1>3, DroppedBare
<1>4. CASE proxy[p] # None
  <2> DEFINE l == proxy[p]
  <2>1. l \in Locks /\ proxy[p] = l /\ Unref(l)
    BY <1>2, <1>4 DEF MutexInv, MutexTypeOK
  <2> HIDE DEF l
  <2>2. GivesUp(p, l)
    BY <1>1, <2>1 DEF GivesUp
  <2>3. \/ Lessens(l) \/ Recycles(l) \/ HandsOver(l, Head(lock[l].waitq))
    BY <2>1 DEF Unref, Lessens, Recycles, HandsOver
  <2>4. QED
    BY <2>1, <2>2, <2>3, UnrefLess, UnrefLast, UnrefHand
<1>5. QED
  BY <1>3, <1>4

LEMMA MutexStep == MutexInv /\ [MutexNext]_mutexvars => MutexInv'
<1> SUFFICES ASSUME MutexInv, [MutexNext]_mutexvars PROVE MutexInv'
  OBVIOUS
<1>1. CASE UNCHANGED mutexvars
  <2>1. UNCHANGED tvars /\ UNCHANGED mvars /\ UNCHANGED <<status, events>>
    BY <1>1 DEF mutexvars, tvars
  <2>2. IInv'
    BY <2>1, IInvFrame DEF MutexInv
  <2>3. \A t \in events' : wants[t] = None
    BY <2>1 DEF MutexInv, Lines, EventFree
  <2>4. QED
    BY <2>1, <2>2, <2>3, MutexFrame
<1>2. ASSUME NEW k \in Keys, LockNew(k) PROVE MutexInv'
  BY <1>2, LockNewStep
<1>3. ASSUME NEW k \in Keys, LockAgain(k) PROVE MutexInv'
  BY <1>3, LockAgainStep
<1>4. ASSUME NEW k \in Keys, LockWait(k) PROVE MutexInv'
  BY <1>4, LockWaitStep
<1>5. CASE LockWoken
  BY <1>5, LockWokenStep
<1>6. ASSUME NEW p \in Proxies, Unlock(p) \/ Close(p) PROVE MutexInv'
  BY <1>6, GiveUpStep
<1>7. CASE MutexSchedule
  BY <1>7, MutexScheduleStep
<1>8. QED
  BY <1>1, <1>2, <1>3, <1>4, <1>5, <1>6, <1>7 DEF MutexNext

LEMMA MutexStart == CountLaws /\ MutexInit => MutexInv
<1> SUFFICES ASSUME CountLaws, MutexInit PROVE MutexInv
  OBVIOUS
<1> USE DEF MutexInit
<1>1. IInv
  BY Initially
<1>2. None \notin Tasks \cup Keys \cup Locks /\ MaxRef \in Nat
  BY MutexAssumption
<1>3. Bare \in LockObjects /\ Bare.key = None /\ Bare.owner = None /\ Bare.refn = 0 /\ Bare.waitq = <<>>
  BY <1>2 DEF Bare, LockObjects
<1>4. MutexTypeOK
  BY <1>3 DEF MutexTypeOK, LockObjects
<1>5. TableExact /\ Served
  BY <1>2, <1>3 DEF TableExact, Served
<1>6. ProxiesOwned
  BY DEF ProxiesOwned
<1>7. CountsExact
  <2>1. \A l \in Locks : Refs(proxy, l) = {} /\ ~Handed(l) /\ lock[l].refn = 0
    BY <1>2, <1>3 DEF Refs, Handed
  <2>2. Cardinality({}) = 0
    BY DEF CountLaws
  <2>3. QED
    BY <2>1, <2>2, Counts
<1>8. Lines
  BY <1>3 DEF Lines, LineOnce, LineWaits, WaiterLined, EventFree, IsInjective, TaskInit
<1>9. QED
  BY <1>1, <1>4, <1>5, <1>6, <1>7, <1>8 DEF MutexInv

LEMMA MutexSound == MutexInv => MutexExact
<1> SUFFICES ASSUME MutexInv PROVE MutexExact
  OBVIOUS
<1> USE DEF MutexInv
<1>1. Exclusive
  <2>1. ASSUME NEW p \in Proxies, NEW k \in Keys, proxy[p] # None, lock[proxy[p]].key = k
        PROVE  lockobj[k] = proxy[p] /\ scope[p] = lock[lockobj[k]].owner
    <3>1. proxy[p] \in Locks
      BY <2>1 DEF MutexTypeOK
    <3>2. QED
      BY <2>1, <3>1 DEF TableExact, ProxiesOwned
  <2>2. QED
    BY <2>1 DEF Exclusive, Holds
<1>2. WaitersQueued
  <2>1. ASSUME NEW t \in Tasks, wants[t] # None, status[t] = "WAIT"
        PROVE  Cardinality({i \in 1..Len(lock[wants[t]].waitq) : lock[wants[t]].waitq[i] = t}) = 1
    <3> DEFINE q == lock[wants[t]].waitq
    <3>1. wants[t] \in Locks /\ q \in Seq(Tasks)
      BY <2>1 DEF MutexTypeOK
    <3>2. PICK i \in 1..Len(q) : q[i] = t
      BY <2>1 DEF Lines, WaiterLined
    <3>3. \A j \in 1..Len(q) : q[j] = t => j = i
      BY <3>1, <3>2 DEF Lines, LineOnce, IsInjective
    <3>4. {j \in 1..Len(q) : q[j] = t} = {i}
      BY <3>2, <3>3
    <3>5. QED
      BY <3>4, Zenon DEF CountLaws
  <2>2. QED
    BY <2>1 DEF WaitersQueued, Lines, WaiterLined
<1>3. QED
  BY <1>1, <1>2 DEF MutexExact

-----------------------------------------------------------------------------
INSTANCE FiniteSetTheorems

\* The laws of counting hold: they are facts of the library of finite sets.
LEMMA Counting == CountLaws
<1>1. Cardinality({}) = 0 /\ \A x : Cardinality({x}) = 1
  BY FS_EmptySet, FS_Singleton
<1>2. ASSUME NEW S, IsFiniteSet(S)
      PROVE  /\ Cardinality(S) \in Nat /\ (Cardinality(S) = 0 => S = {})
             /\ \A R : R \subseteq S => IsFiniteSet(R)
             /\ \A x : x \notin S => Cardinality(S \cup {x}) = Cardinality(S) + 1
             /\ \A x \in S : Cardinality(S \ {x}) = Cardinality(S) - 1
  <2>1. Cardinality(S) \in Nat
    BY <1>2, FS_CardinalityType
  <2>2. Cardinality(S) = 0 => S = {}
    BY <1>2, FS_EmptySet
  <2>3. \A R : R \subseteq S => IsFiniteSet(R)
    BY <1>2, FS_Subset
  <2>4. \A x : x \notin S => Cardinality(S \cup {x}) = Cardinality(S) + 1
    BY <1>2, FS_AddElement
  <2>5. \A x \in S : Cardinality(S \ {x}) = Cardinality(S) - 1
    BY <1>2, FS_RemoveElement
  <2>6. QED
    BY <2>1, <2>2, <2>3, <2>4, <2>5
<1>3. QED
  BY <1>1, <1>2 DEF CountLaws

\* For any number of tasks, keys and lock objects: mutex.lua keeps two tasks out of the critical
\* section of one key, counts the references of a lock object exactly, recycles it clean, and
\* leaves every task that is blocked in lock() in line behind an owner.
THEOREM MutualExclusion == MutexSpec => []MutexExact
<1>1. MutexSpec => []MutexInv
  BY Counting, MutexStart, MutexStep, PTL DEF MutexSpec
<1>2. QED
  BY <1>1, MutexSound, PTL
=============================================================================
