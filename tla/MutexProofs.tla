----------------------------- MODULE MutexProofs ----------------------------
(***************************************************************************)
(* The inductive invariant of Mutex, for any number of tasks, keys and     *)
(* lock objects: lock() keeps it, and what unlock() does to the proxies.   *)
(* The scheduler's own invariant comes from TaskProofs; unlock() and the   *)
(* theorem follow in UnlockProofs.                                         *)
(***************************************************************************)
EXTENDS Mutex, TaskProofs

\* A lock object serves a key and has an owner, or neither and nobody in line.
Served == \A l \in Locks :
  /\ lock[l].key = None <=> lock[l].owner = None
  /\ lock[l].key = None => lock[l].waitq = <<>>

\* A proxy that holds a lock object is in the scope of its owner.
ProxiesOwned ==
  /\ \A p \in proxycache : proxy[p] = None
  /\ \A p \in Proxies : proxy[p] # None => lock[proxy[p]].key # None /\ scope[p] = lock[proxy[p]].owner

\* The line of a lock object holds the tasks blocked on it, once each; its owner is none of
\* them.  A task that wants a lock and does not wait has been handed it.
LineOnce == \A l \in Locks : IsInjective(lock[l].waitq)
LineWaits == \A l \in Locks : \A i \in 1..Len(lock[l].waitq) :
  wants[lock[l].waitq[i]] = l /\ status[lock[l].waitq[i]] = "WAIT"
WaiterLined == \A t \in Tasks : wants[t] # None =>
  IF status[t] = "WAIT"
  THEN /\ \E i \in 1..Len(lock[wants[t]].waitq) : lock[wants[t]].waitq[i] = t
       /\ lock[wants[t]].owner \notin {None, t}
  ELSE lock[wants[t]].owner = t
\* A task that waits for a message waits for no lock.
EventFree == \A t \in events : wants[t] = None
Lines == LineOnce /\ LineWaits /\ WaiterLined /\ EventFree

MutexInv == CountLaws /\ IInv /\ MutexTypeOK /\ TableExact /\ Served /\ ProxiesOwned /\ CountsExact /\ Lines

-----------------------------------------------------------------------------
LockObjects == [key : Keys \cup {None}, owner : Tasks \cup {None}, refn : 0..MaxRef, waitq : Seq(Tasks)]

\* The proxies that f maps to l.
Refs(f, l) == {p \in Proxies : f[p] = l}
Handed(l) == lock[l].owner # None /\ wants[lock[l].owner] = l

LEMMA RefsFinite ==
  ASSUME CountLaws, NEW f, NEW l
  PROVE  IsFiniteSet(Refs(f, l)) /\ Cardinality(Refs(f, l)) \in Nat
<1>1. IsFiniteSet(Proxies) /\ Refs(f, l) \subseteq Proxies
  BY MutexAssumption DEF Refs
<1>2. QED
  BY <1>1 DEF CountLaws

\* The counts, in terms of Refs and Handed.
LEMMA Counts ==
  /\ CountsExact <=> \A l \in Locks :
       lock[l].refn = Cardinality(Refs(proxy, l)) + (IF Handed(l) THEN 1 ELSE 0)
  /\ CountsExact' <=> \A l \in Locks :
       lock'[l].refn = Cardinality(Refs(proxy', l)) + (IF Handed(l)' THEN 1 ELSE 0)
  BY DEF CountsExact, Refs, Handed

\* The scheduler does not touch a mutex, and lets no task out of a line.
LEMMA MutexFrame ==
  ASSUME MutexInv, IInv', UNCHANGED mvars,
         \A t \in Tasks : wants[t] # None => (status'[t] = "WAIT" <=> status[t] = "WAIT"),
         \A t \in events' : wants[t] = None
  PROVE  MutexInv'
<1> USE DEF MutexInv, mvars
<1>1. MutexTypeOK' /\ TableExact' /\ Served' /\ ProxiesOwned' /\ CountsExact' /\ LineOnce'
  BY DEF MutexTypeOK, TableExact, Served, ProxiesOwned, CountsExact, Lines, LineOnce
<1>2. \A l \in Locks : \A i \in 1..Len(lock[l].waitq) : lock[l].waitq[i] \in Tasks
  BY DEF MutexTypeOK
<1>3. LineWaits'
  BY <1>2, MutexAssumption DEF Lines, LineWaits
<1>4. WaiterLined'
  BY DEF Lines, WaiterLined
<1>5. EventFree'
  BY DEF EventFree
<1>6. QED
  BY <1>1, <1>3, <1>4, <1>5 DEF Lines

LEMMA MutexScheduleStep == ASSUME MutexInv, MutexSchedule PROVE MutexInv'
<1> USE DEF MutexInv
<1>1. UNCHANGED mvars /\ status \in [Tasks -> Statuses] /\ events \subseteq Tasks
  BY DEF MutexSchedule, IInv, TypeOK
<1>2. CASE Dispatch
  BY <1>1, <1>2, DispatchFacts, MutexFrame DEF Lines, EventFree
<1>3. ASSUME NEW t \in Tasks, Message(t) PROVE MutexInv'
  BY <1>1, <1>3, MessageFacts, MutexFrame DEF Lines, EventFree
<1>4. ASSUME NEW t \in Tasks, MessageTask(t) PROVE MutexInv'
  BY <1>1, <1>4, MessageTaskFacts, MutexFrame DEF Lines, EventFree
<1>5. CASE MutexUser /\ Sleep
  BY <1>1, <1>5, SleepFacts, MutexFrame DEF Lines, EventFree, MutexUser
<1>6. CASE MutexUser /\ (Finish \/ Fail)
  BY <1>1, <1>6, EndFacts, MutexFrame DEF Lines, EventFree, MutexUser
<1>7. QED
  BY <1>2, <1>3, <1>4, <1>5, <1>6 DEF MutexSchedule

\* What NewProxy does to the proxies.
LEMMA NewProxyFacts ==
  ASSUME MutexInv, NEW l \in Locks, NewProxy(l), ~InMain
  PROVE  /\ proxy' \in [Proxies -> Locks \cup {None}] /\ scope' \in [Proxies -> Tasks \cup {None}]
         /\ proxycache' \subseteq proxycache
         /\ \A q \in proxycache' : proxy'[q] = None
         /\ \A q \in Proxies : proxy'[q] # None =>
              \/ proxy'[q] = l /\ scope'[q] = Current
              \/ proxy'[q] = proxy[q] /\ scope'[q] = scope[q]
         /\ Cardinality(Refs(proxy', l)) = Cardinality(Refs(proxy, l)) + 1
         /\ \A m \in Locks : m # l => Refs(proxy', m) = Refs(proxy, m)
<1> USE DEF MutexInv
<1>1. PICK p \in proxycache : /\ proxycache' = proxycache \ {p}
                              /\ proxy' = [proxy EXCEPT ![p] = l]
                              /\ scope' = [scope EXCEPT ![p] = Current]
  BY Zenon DEF NewProxy
<1>2. p \in Proxies /\ proxy[p] = None /\ proxy \in [Proxies -> Locks \cup {None}]
      /\ scope \in [Proxies -> Tasks \cup {None}] /\ proxycache \subseteq Proxies
  BY DEF MutexTypeOK, ProxiesOwned
<1>3. Current \in Tasks
  BY CurrentFacts
<1>4. p \notin Refs(proxy, l) /\ Refs(proxy', l) = Refs(proxy, l) \cup {p}
  BY <1>1, <1>2, MutexAssumption DEF Refs
<1>5. Cardinality(Refs(proxy', l)) = Cardinality(Refs(proxy, l)) + 1
  <2> DEFINE S == Refs(proxy, l)
  <2>1. IsFiniteSet(S) /\ p \notin S /\ Refs(proxy', l) = S \cup {p}
    BY <1>4, RefsFinite
  <2> HIDE DEF S
  <2>2. Cardinality(S \cup {p}) = Cardinality(S) + 1
    BY <2>1 DEF CountLaws
  <2>3. QED
    BY <2>1, <2>2 DEF S
<1>6. \A m \in Locks : m # l => Refs(proxy', m) = Refs(proxy, m)
  BY <1>1, <1>2, MutexAssumption DEF Refs
<1>7. QED
  BY <1>1, <1>2, <1>3, <1>5, <1>6, Zenon DEF ProxiesOwned

\* A new proxy is its task's, and the other ones stay with the owner of their lock object.
LEMMA ProxyGiven ==
  ASSUME MutexInv, NEW l \in Locks, NewProxy(l), ~InMain,
         lock'[l].key # None, lock'[l].owner = Current,
         \A m \in Locks : lock[m].key # None => lock'[m].key = lock[m].key /\ lock'[m].owner = lock[m].owner
  PROVE  ProxiesOwned'
<1> USE DEF MutexInv
<1>1. /\ \A q \in proxycache' : proxy'[q] = None
      /\ \A q \in Proxies : proxy'[q] # None =>
           \/ proxy'[q] = l /\ scope'[q] = Current
           \/ proxy'[q] = proxy[q] /\ scope'[q] = scope[q]
  BY NewProxyFacts
<1>2. ASSUME NEW q \in Proxies, proxy'[q] # None
      PROVE  lock'[proxy'[q]].key # None /\ scope'[q] = lock'[proxy'[q]].owner
  <2>1. CASE proxy'[q] = l /\ scope'[q] = Current
    BY <2>1
  <2>2. CASE proxy'[q] = proxy[q] /\ scope'[q] = scope[q]
    <3>1. proxy[q] \in Locks /\ lock[proxy[q]].key # None /\ scope[q] = lock[proxy[q]].owner
      BY <1>2, <2>2 DEF ProxiesOwned, MutexTypeOK
    <3>2. QED
      BY <2>2, <3>1
  <2>3. QED
    BY <1>1, <1>2, <2>1, <2>2
<1>3. QED
  BY <1>1, <1>2 DEF ProxiesOwned

\* The lines stay as they are when their tasks do and the lock objects waited for keep owner and line.
LEMMA LinesFrame ==
  ASSUME MutexInv, UNCHANGED <<wants, status, events>>,
         \A m \in Locks : lock'[m].waitq = lock[m].waitq,
         \A t \in Tasks : wants[t] # None => lock'[wants[t]].owner = lock[wants[t]].owner
  PROVE  Lines'
<1> USE DEF MutexInv
<1>1. LineOnce' /\ LineWaits' /\ EventFree'
  BY DEF Lines, LineOnce, LineWaits, EventFree
<1>2. \A t \in Tasks : wants[t] # None => wants[t] \in Locks
  BY DEF MutexTypeOK
<1>3. WaiterLined'
  BY <1>2 DEF Lines, WaiterLined
<1>4. QED
  BY <1>1, <1>3 DEF Lines

LEMMA LockNewStep == ASSUME MutexInv, NEW k \in Keys, LockNew(k) PROVE MutexInv'
<1> USE DEF MutexInv
<1>1. PICK l \in lockcache :
        /\ lockcache' = lockcache \ {l}
        /\ lock' = [lock EXCEPT ![l].key = k, ![l].owner = Current, ![l].refn = 1]
        /\ lockobj' = [lockobj EXCEPT ![k] = l]
        /\ NewProxy(l)
  BY Zenon DEF LockNew
<1>2. /\ l \in Locks /\ lock[l] = Bare /\ lockobj[k] = None /\ ~InMain /\ wants[Current] = None
      /\ Current \in Tasks /\ UNCHANGED <<tvars, wants>> /\ None \notin Tasks \cup Keys \cup Locks
  BY CurrentFacts, MutexAssumption DEF LockNew, MutexUser, MutexTypeOK, TableExact
<1>3. IInv' /\ UNCHANGED <<wants, status, events>>
  BY <1>2, IInvFrame DEF tvars
<1>4. /\ lock' \in [Locks -> LockObjects]
      /\ lock'[l].key = k /\ lock'[l].owner = Current /\ lock'[l].refn = 1 /\ lock'[l].waitq = <<>>
      /\ \A m \in Locks : m # l => lock'[m] = lock[m]
  BY <1>1, <1>2, MutexAssumption DEF MutexTypeOK, LockObjects, Bare
<1>5. /\ proxy' \in [Proxies -> Locks \cup {None}] /\ scope' \in [Proxies -> Tasks \cup {None}]
      /\ proxycache' \subseteq proxycache
      /\ Cardinality(Refs(proxy', l)) = Cardinality(Refs(proxy, l)) + 1
      /\ \A m \in Locks : m # l => Refs(proxy', m) = Refs(proxy, m)
  BY <1>1, <1>2, NewProxyFacts
<1>6. MutexTypeOK'
  BY <1>1, <1>2, <1>4, <1>5 DEF MutexTypeOK, LockObjects
<1>7. TableExact'
  BY <1>1, <1>2, <1>4 DEF TableExact, MutexTypeOK, Bare
<1>8. Served'
  BY <1>2, <1>4 DEF Served
<1>9. ProxiesOwned'
  <2>1. \A m \in Locks : lock[m].key # None => lock'[m] = lock[m]
    BY <1>2, <1>4 DEF Bare
  <2>2. QED
    BY <1>1, <1>2, <1>4, <2>1, ProxyGiven, Zenon
<1>10. CountsExact'
  <2>1. ~Handed(l) /\ ~Handed(l)'
    BY <1>2, <1>4 DEF Handed, Bare
  <2>2. \A m \in Locks : m # l => (Handed(m)' <=> Handed(m))
    BY <1>2, <1>4 DEF Handed
  <2>3. Cardinality(Refs(proxy, l)) = 0
    BY <1>2, <2>1, Counts, RefsFinite DEF Bare
  <2>4. QED
    BY <1>2, <1>4, <1>5, <2>1, <2>2, <2>3, Counts
<1>11. Lines'
  <2>1. \A m \in Locks : lock'[m].waitq = lock[m].waitq
    BY <1>2, <1>4 DEF Bare
  <2>2. \A t \in Tasks : wants[t] # l
    BY <1>2 DEF Lines, WaiterLined, Bare, MutexTypeOK
  <2>3. \A t \in Tasks : wants[t] # None => lock'[wants[t]] = lock[wants[t]]
    BY <1>4, <2>2 DEF MutexTypeOK
  <2>4. QED
    BY <1>3, <2>1, <2>3, LinesFrame
<1>12. QED
  BY <1>3, <1>6, <1>7, <1>8, <1>9, <1>10, <1>11

\* The owner takes another reference.
LEMMA LockAgainStep == ASSUME MutexInv, NEW k \in Keys, LockAgain(k) PROVE MutexInv'
<1> USE DEF MutexInv
<1> DEFINE l == lockobj[k]
<1>1. /\ l \in Locks /\ lock[l].key = k /\ lock[l].owner = Current /\ lock[l].refn < MaxRef
      /\ lock' = [lock EXCEPT ![l].refn = @ + 1] /\ NewProxy(l)
      /\ ~InMain /\ wants[Current] = None /\ Current \in Tasks
      /\ UNCHANGED <<tvars, lockobj, lockcache, wants>> /\ None \notin Tasks \cup Keys \cup Locks
  BY CurrentFacts, MutexAssumption DEF LockAgain, MutexUser, MutexTypeOK, TableExact, Reenters
<1>2. IInv' /\ UNCHANGED <<wants, status, events>>
  BY <1>1, IInvFrame DEF tvars
<1> HIDE DEF l
<1>3. /\ lock' \in [Locks -> LockObjects]
      /\ lock'[l].refn = lock[l].refn + 1
      /\ \A m \in Locks : lock'[m].key = lock[m].key /\ lock'[m].owner = lock[m].owner /\ lock'[m].waitq = lock[m].waitq
      /\ \A m \in Locks : m # l => lock'[m] = lock[m]
  <2>1. lock[l].refn \in Nat /\ lock[l].refn + 1 \in 0..MaxRef
    BY <1>1, MutexAssumption DEF MutexTypeOK
  <2> DEFINE r == [lock[l] EXCEPT !.refn = @ + 1]
  <2>2. lock[l] \in LockObjects
    BY <1>1 DEF MutexTypeOK, LockObjects
  <2>3. r \in LockObjects /\ r.refn = lock[l].refn + 1 /\ r.key = lock[l].key /\ r.owner = lock[l].owner /\ r.waitq = lock[l].waitq
    BY <2>1, <2>2 DEF LockObjects
  <2>4. lock' = [lock EXCEPT ![l] = r]
    BY <1>1
  <2>5. lock \in [Locks -> LockObjects]
    BY DEF MutexTypeOK, LockObjects
  <2> HIDE DEF r
  <2>6. QED
    BY <1>1, <2>3, <2>4, <2>5
<1>4. /\ proxy' \in [Proxies -> Locks \cup {None}] /\ scope' \in [Proxies -> Tasks \cup {None}]
      /\ proxycache' \subseteq proxycache
      /\ Cardinality(Refs(proxy', l)) = Cardinality(Refs(proxy, l)) + 1
      /\ \A m \in Locks : m # l => Refs(proxy', m) = Refs(proxy, m)
  BY <1>1, NewProxyFacts
<1>5. MutexTypeOK'
  BY <1>1, <1>3, <1>4 DEF MutexTypeOK, LockObjects
<1>6. TableExact'
  <2>1. l \notin lockcache
    BY <1>1 DEF TableExact, Bare
  <2>2. QED
    BY <1>1, <1>3, <2>1 DEF TableExact, MutexTypeOK
<1>7. Served'
  BY <1>3 DEF Served
<1>8. ProxiesOwned'
  BY <1>1, <1>3, ProxyGiven
<1>9. CountsExact'
  <2>1. \A m \in Locks : Handed(m)' <=> Handed(m)
    BY <1>1, <1>3 DEF Handed
  <2>2. \A m \in Locks : Cardinality(Refs(proxy, m)) \in Nat
    BY RefsFinite
  <2>3. QED
    BY <1>1, <1>3, <1>4, <2>1, <2>2, Counts
<1>10. Lines'
  BY <1>2, <1>3, LinesFrame DEF MutexTypeOK
<1>11. QED
  BY <1>2, <1>5, <1>6, <1>7, <1>8, <1>9, <1>10

\* A task gets in line for a lock object that another one owns.
LEMMA LockWaitStep == ASSUME MutexInv, NEW k \in Keys, LockWait(k) PROVE MutexInv'
<1> USE DEF MutexInv
<1> DEFINE l == lockobj[k]
           c == Current
<1>1. /\ l \in Locks /\ lock[l].key = k /\ lock[l].owner # c /\ Wait
      /\ lock' = [lock EXCEPT ![l].waitq = Append(@, c)] /\ wants' = [wants EXCEPT ![c] = l]
      /\ ~InMain /\ wants[c] = None /\ c \in Tasks /\ c \notin events
      /\ UNCHANGED <<lockobj, lockcache, proxy, proxycache, scope>> /\ None \notin Tasks \cup Keys \cup Locks
  BY CurrentFacts, MutexAssumption DEF LockWait, MutexUser, MutexTypeOK, TableExact, Reenters
<1>2. /\ IInv' /\ status' = [status EXCEPT ![c] = "WAIT"] /\ events' = events
      /\ status \in [Tasks -> Statuses] /\ events \subseteq Tasks
  BY <1>1, WaitFacts DEF IInv, TypeOK
<1> HIDE DEF l, c
<1>3. lock[l].owner # None
  BY <1>1 DEF Served
<1>4. /\ lock \in [Locks -> LockObjects] /\ lock[l] \in LockObjects /\ lock[l].waitq \in Seq(Tasks)
      /\ Len(lock[l].waitq) \in Nat
  BY <1>1 DEF MutexTypeOK, LockObjects
<1>5. /\ lock' \in [Locks -> LockObjects]
      /\ lock'[l].waitq = Append(lock[l].waitq, c)
      /\ \A m \in Locks : lock'[m].key = lock[m].key /\ lock'[m].owner = lock[m].owner /\ lock'[m].refn = lock[m].refn
      /\ \A m \in Locks : m # l => lock'[m] = lock[m]
  <2> DEFINE q == Append(lock[l].waitq, c)
             r == [lock[l] EXCEPT !.waitq = q]
  <2>1. q \in Seq(Tasks) /\ lock' = [lock EXCEPT ![l] = r]
    BY <1>1, <1>4
  <2> HIDE DEF q
  <2>2. r \in LockObjects /\ r.waitq = q /\ r.key = lock[l].key /\ r.owner = lock[l].owner /\ r.refn = lock[l].refn
    BY <1>4, <2>1, Zenon DEF LockObjects
  <2> HIDE DEF r
  <2>3. QED
    BY <1>1, <1>4, <2>1, <2>2, Zenon DEF q
<1>6. MutexTypeOK'
  BY <1>1, <1>5 DEF MutexTypeOK, LockObjects
<1>7. TableExact'
  <2>1. l \notin lockcache
    BY <1>1 DEF TableExact, Bare
  <2>2. QED
    BY <1>1, <1>5, <2>1 DEF TableExact, MutexTypeOK
<1>8. Served'
  BY <1>1, <1>5 DEF Served
<1>9. ProxiesOwned'
  BY <1>1, <1>5 DEF ProxiesOwned, MutexTypeOK
<1>10. CountsExact'
  <2>1. \A m \in Locks : Handed(m)' <=> Handed(m)
    BY <1>1, <1>5 DEF Handed, MutexTypeOK
  <2>2. QED
    BY <1>1, <1>5, <2>1, Counts
<1>11. Lines'
  <2>1. \A m \in Locks : \A i \in 1..Len(lock[m].waitq) : lock[m].waitq[i] \in Tasks /\ lock[m].waitq[i] # c
    BY <1>1 DEF Lines, LineWaits, MutexTypeOK
  <2>2. /\ Len(lock'[l].waitq) = Len(lock[l].waitq) + 1 /\ lock'[l].waitq[Len(lock[l].waitq) + 1] = c
        /\ \A i \in 1..Len(lock[l].waitq) : lock'[l].waitq[i] = lock[l].waitq[i]
        /\ lock'[l].waitq \in Seq(Tasks)
    BY <1>1, <1>4, <1>5
  <2>3. LineOnce'
    <3>1. IsInjective(lock'[l].waitq)
      BY <1>1, <1>4, <2>1, <2>2 DEF Lines, LineOnce, IsInjective
    <3>2. QED
      BY <1>5, <3>1, Zenon DEF Lines, LineOnce
  <2>4. LineWaits'
    <3>1. ASSUME NEW m \in Locks, NEW i \in 1..Len(lock'[m].waitq), lock'[m].waitq[i] # c
          PROVE  wants'[lock'[m].waitq[i]] = m /\ status'[lock'[m].waitq[i]] = "WAIT"
      <4>1. i \in 1..Len(lock[m].waitq) /\ lock'[m].waitq[i] = lock[m].waitq[i]
        <5>1. CASE m = l
          BY <1>4, <2>2, <3>1, <5>1
        <5>2. CASE m # l
          BY <1>5, <3>1, <5>2
        <5>3. QED
          BY <5>1, <5>2
      <4>2. QED
        BY <1>1, <1>2, <2>1, <3>1, <4>1 DEF Lines, LineWaits, MutexTypeOK
    <3>2. ASSUME NEW m \in Locks, NEW i \in 1..Len(lock'[m].waitq), lock'[m].waitq[i] = c
          PROVE  wants'[c] = m /\ status'[c] = "WAIT"
      <4>1. m = l
        BY <1>5, <2>1, <3>2
      <4>2. QED
        BY <1>1, <1>2, <4>1 DEF MutexTypeOK
    <3>3. QED
      BY <3>1, <3>2 DEF LineWaits
  <2>5. WaiterLined'
    <3>1. ASSUME NEW t \in Tasks, t # c, wants[t] # None
          PROVE  IF status[t] = "WAIT"
                 THEN /\ \E i \in 1..Len(lock'[wants[t]].waitq) : lock'[wants[t]].waitq[i] = t
                      /\ lock'[wants[t]].owner \notin {None, t}
                 ELSE lock'[wants[t]].owner = t
      <4>1. wants[t] \in Locks
        BY <3>1 DEF MutexTypeOK
      <4>2. \A i \in 1..Len(lock[wants[t]].waitq) :
              i \in 1..Len(lock'[wants[t]].waitq) /\ lock'[wants[t]].waitq[i] = lock[wants[t]].waitq[i]
        <5>1. CASE wants[t] = l
          BY <1>4, <2>2, <5>1
        <5>2. CASE wants[t] # l
          BY <1>5, <4>1, <5>2
        <5>3. QED
          BY <5>1, <5>2
      <4>3. QED
        BY <1>5, <3>1, <4>1, <4>2 DEF Lines, WaiterLined
    <3>2. \E i \in 1..Len(lock'[l].waitq) : lock'[l].waitq[i] = c
      BY <1>4, <2>2
    <3>3. lock'[l].owner \notin {None, c} /\ wants'[c] = l /\ status'[c] = "WAIT"
      BY <1>1, <1>2, <1>3, <1>5 DEF MutexTypeOK
    <3>4. \A t \in Tasks : t # c => wants'[t] = wants[t] /\ status'[t] = status[t]
      BY <1>1, <1>2 DEF MutexTypeOK
    <3>5. QED
      BY <3>1, <3>2, <3>3, <3>4 DEF WaiterLined
  <2>6. EventFree'
    BY <1>1, <1>2 DEF Lines, EventFree, MutexTypeOK
  <2>7. QED
    BY <2>3, <2>4, <2>5, <2>6 DEF Lines
<1>12. QED
  BY <1>2, <1>6, <1>7, <1>8, <1>9, <1>10, <1>11

\* The task at the head of a line returns from lock() with the reference that was counted for it.
LEMMA LockWokenStep == ASSUME MutexInv, LockWoken PROVE MutexInv'
<1> USE DEF MutexInv
<1> DEFINE c == Current
           l == wants[c]
<1>1. /\ ~InMain /\ c \in Tasks /\ l \in Locks /\ NewProxy(l) /\ wants' = [wants EXCEPT ![c] = None]
      /\ wants[c] = l /\ status[c] = "RUN" /\ UNCHANGED <<tvars, lock, lockobj, lockcache>>
      /\ None \notin Tasks \cup Keys \cup Locks
  BY CurrentFacts, MutexAssumption DEF LockWoken, MutexTypeOK
<1>2. IInv' /\ UNCHANGED <<status, events>>
  BY <1>1, IInvFrame DEF tvars
<1>3. lock[l].owner = c /\ lock[l].key # None
  BY <1>1 DEF Lines, WaiterLined, Served
<1>4. /\ proxy' \in [Proxies -> Locks \cup {None}] /\ scope' \in [Proxies -> Tasks \cup {None}]
      /\ proxycache' \subseteq proxycache
      /\ Cardinality(Refs(proxy', l)) = Cardinality(Refs(proxy, l)) + 1
      /\ \A m \in Locks : m # l => Refs(proxy', m) = Refs(proxy, m)
  BY <1>1, NewProxyFacts
<1>5. ProxiesOwned'
  BY <1>1, <1>3, ProxyGiven
<1> HIDE DEF c, l
<1>6. MutexTypeOK'
  BY <1>1, <1>4 DEF MutexTypeOK
<1>7. TableExact' /\ Served'
  BY <1>1 DEF TableExact, Served
<1>8. CountsExact'
  <2>1. \A m \in Locks : m = l => Handed(m) /\ ~Handed(m)'
    BY <1>1, <1>3 DEF Handed, MutexTypeOK
  <2>2. \A m \in Locks : m # l => (Handed(m)' <=> Handed(m))
    BY <1>1 DEF Handed, MutexTypeOK
  <2>3. Cardinality(Refs(proxy, l)) \in Nat
    BY RefsFinite
  <2>4. QED
    BY <1>1, <1>4, <2>1, <2>2, <2>3, Counts
<1>9. Lines'
  <2>1. \A m \in Locks : \A i \in 1..Len(lock[m].waitq) : lock[m].waitq[i] \in Tasks /\ lock[m].waitq[i] # c
    BY <1>1 DEF Lines, LineWaits, MutexTypeOK
  <2>2. \A t \in Tasks : t # c => wants'[t] = wants[t]
    BY <1>1 DEF MutexTypeOK
  <2>3. LineOnce' /\ LineWaits'
    BY <1>1, <1>2, <2>1, <2>2 DEF Lines, LineOnce, LineWaits
  <2>4. wants'[c] = None
    BY <1>1 DEF MutexTypeOK
  <2>5. WaiterLined'
    BY <1>1, <1>2, <2>2, <2>4 DEF Lines, WaiterLined
  <2>6. EventFree'
    BY <1>1, <1>2, <2>2, <2>4 DEF Lines, EventFree, IInv, TypeOK
  <2>7. QED
    BY <2>3, <2>5, <2>6 DEF Lines
<1>10. QED
  BY <1>2, <1>5, <1>6, <1>7, <1>8, <1>9
-----------------------------------------------------------------------------
\* The proxies after unlock() or __close of p.
Dropped(p) ==
  /\ scope[p] = Current
  /\ proxy' = [proxy EXCEPT ![p] = None]
  /\ \/ UNCHANGED <<proxycache, scope>>
     \/ proxycache' = proxycache \cup {p} /\ scope' = [scope EXCEPT ![p] = None]
  /\ wants' = wants

LEMMA DroppedFacts ==
  ASSUME MutexInv, NEW p \in Proxies, Dropped(p)
  PROVE  /\ proxy' \in [Proxies -> Locks \cup {None}] /\ scope' \in [Proxies -> Tasks \cup {None}]
         /\ proxycache' \subseteq Proxies
         /\ \A q \in proxycache' : proxy'[q] = None
         /\ \A q \in Proxies : proxy'[q] # None => proxy'[q] = proxy[q] /\ scope'[q] = scope[q]
         /\ \A m \in Locks : m # proxy[p] => Refs(proxy', m) = Refs(proxy, m)
<1> USE DEF MutexInv, Dropped
<1>1. /\ proxy \in [Proxies -> Locks \cup {None}] /\ scope \in [Proxies -> Tasks \cup {None}]
      /\ proxycache \subseteq Proxies /\ \A q \in proxycache : proxy[q] = None
  BY DEF MutexTypeOK, ProxiesOwned
<1>2. \A m \in Locks : m # proxy[p] => Refs(proxy', m) = Refs(proxy, m)
  BY <1>1, MutexAssumption DEF Refs
<1>3. QED
  BY <1>1, <1>2, Zenon

\* One reference less to the lock object of p.
LEMMA DroppedRef ==
  ASSUME MutexInv, NEW p \in Proxies, Dropped(p), NEW l \in Locks, proxy[p] = l
  PROVE  /\ Cardinality(Refs(proxy, l)) = Cardinality(Refs(proxy', l)) + 1
         /\ Cardinality(Refs(proxy', l)) \in Nat
         /\ Cardinality(Refs(proxy', l)) = 0 => \A q \in Proxies : proxy'[q] # l
<1> USE DEF MutexInv, Dropped
<1>1. proxy \in [Proxies -> Locks \cup {None}]
  BY DEF MutexTypeOK
<1>2. p \notin Refs(proxy', l) /\ Refs(proxy, l) = Refs(proxy', l) \cup {p}
  BY <1>1, MutexAssumption DEF Refs
<1> DEFINE S == Refs(proxy', l)
<1>3. Cardinality(Refs(proxy, l)) = Cardinality(Refs(proxy', l)) + 1
  <2>1. IsFiniteSet(S) /\ p \notin S /\ Refs(proxy, l) = S \cup {p}
    BY <1>2, RefsFinite
  <2> HIDE DEF S
  <2>2. Cardinality(Refs(proxy, l)) = Cardinality(S) + 1
    BY <2>1 DEF CountLaws
  <2>3. QED
    BY <2>2 DEF S
<1>4. Cardinality(Refs(proxy', l)) = 0 => Refs(proxy', l) = {}
  BY RefsFinite, Zenon DEF CountLaws
<1>5. Refs(proxy', l) = {} => \A q \in Proxies : proxy'[q] # l
  BY DEF Refs
<1>6. Cardinality(Refs(proxy', l)) \in Nat
  BY RefsFinite
<1>7. QED
  BY <1>3, <1>4, <1>5, <1>6, Zenon

\* A proxy given up before: nothing changes for the lock objects.
LEMMA DroppedBare ==
  ASSUME MutexInv, NEW p \in Proxies, Dropped(p), proxy[p] = None, UNCHANGED <<tvars, lock, lockobj, lockcache>>
  PROVE  MutexInv'
<1> USE DEF MutexInv
<1>1. IInv' /\ UNCHANGED <<wants, status, events>>
  BY IInvFrame DEF tvars, Dropped
<1>2. /\ proxy' \in [Proxies -> Locks \cup {None}] /\ scope' \in [Proxies -> Tasks \cup {None}]
      /\ proxycache' \subseteq Proxies
      /\ \A q \in proxycache' : proxy'[q] = None
      /\ \A q \in Proxies : proxy'[q] # None => proxy'[q] = proxy[q] /\ scope'[q] = scope[q]
      /\ \A m \in Locks : m # proxy[p] => Refs(proxy', m) = Refs(proxy, m)
  BY DroppedFacts
<1>3. MutexTypeOK' /\ TableExact' /\ Served'
  BY <1>1, <1>2 DEF MutexTypeOK, TableExact, Served
<1>4. ProxiesOwned'
  BY <1>2 DEF ProxiesOwned
<1>5. CountsExact'
  <2>1. \A m \in Locks : Handed(m)' <=> Handed(m)
    BY <1>1 DEF Handed
  <2>2. QED
    BY <1>2, <2>1, MutexAssumption, Counts
<1>6. Lines'
  BY <1>1, LinesFrame
<1>7. QED
  BY <1>1, <1>3, <1>4, <1>5, <1>6

\* The running task gives up a reference of lock object l; and the three ways Unref goes on.
GivesUp(p, l) == Dropped(p) /\ proxy[p] = l /\ ~InMain
Lessens(l) ==
  /\ lock[l].refn > 1 /\ lock' = [lock EXCEPT ![l].refn = @ - 1]
  /\ UNCHANGED <<tvars, lockobj, lockcache>>
Recycles(l) ==
  /\ ~(lock[l].refn > 1) /\ lock[l].waitq = <<>>
  /\ lockobj' = [lockobj EXCEPT ![lock[l].key] = None] /\ lock' = Recycled(l)
  /\ lockcache' = lockcache \cup {l} /\ UNCHANGED tvars
HandsOver(l, c) ==
  /\ ~(lock[l].refn > 1) /\ lock[l].waitq # <<>> /\ c = Head(lock[l].waitq)
  /\ lock' = HandedTo(l, c) /\ Wakeup(c, Nil) /\ UNCHANGED <<lockobj, lockcache>>

\* What is known when a proxy of l is given up.
LEMMA UnrefFacts ==
  ASSUME MutexInv, NEW p \in Proxies, NEW l \in Locks, GivesUp(p, l)
  PROVE  /\ lock \in [Locks -> LockObjects] /\ lock[l] \in LockObjects /\ lock[l].refn \in Nat
         /\ lock[l].key \in Keys /\ lock[l].owner = Current /\ Current \in Tasks
         /\ l \notin lockcache /\ lockobj[lock[l].key] = l
         /\ lock[l].refn = Cardinality(Refs(proxy', l)) + 1 + (IF Handed(l) THEN 1 ELSE 0)
         /\ lock[l].refn <= 1 => lock[l].refn = 1 /\ ~Handed(l) /\ Cardinality(Refs(proxy', l)) = 0
                                 /\ \A q \in Proxies : proxy'[q] # l
<1> USE DEF MutexInv
<1>1. lock \in [Locks -> LockObjects] /\ lock[l] \in LockObjects /\ lock[l].refn \in Nat /\ lock[l].key \in Keys \cup {None}
  BY MutexAssumption DEF MutexTypeOK, LockObjects
<1>2. lock[l].key # None /\ lock[l].owner = Current /\ Current \in Tasks
  BY CurrentFacts, MutexAssumption DEF ProxiesOwned, Dropped, GivesUp
<1>3. l \notin lockcache /\ lockobj[lock[l].key] = l
  BY <1>1, <1>2 DEF TableExact, Bare
<1>4. lock[l].refn = Cardinality(Refs(proxy, l)) + (IF Handed(l) THEN 1 ELSE 0)
  BY Counts
<1>5. /\ Cardinality(Refs(proxy, l)) = Cardinality(Refs(proxy', l)) + 1
      /\ Cardinality(Refs(proxy', l)) \in Nat
      /\ Cardinality(Refs(proxy', l)) = 0 => \A q \in Proxies : proxy'[q] # l
  BY DroppedRef DEF GivesUp
<1>6. QED
  BY <1>1, <1>2, <1>3, <1>4, <1>5

\* The proxies that are left stay with the owner of their lock object.
LEMMA ProxyDropped ==
  ASSUME MutexInv, NEW p \in Proxies, Dropped(p),
         \A m \in Locks : (\E q \in Proxies : proxy'[q] = m) =>
           lock'[m].key = lock[m].key /\ lock'[m].owner = lock[m].owner
  PROVE  ProxiesOwned'
<1> USE DEF MutexInv
<1>1. /\ \A q \in proxycache' : proxy'[q] = None
      /\ \A q \in Proxies : proxy'[q] # None => proxy'[q] = proxy[q] /\ scope'[q] = scope[q]
  BY DroppedFacts
<1>2. ASSUME NEW q \in Proxies, proxy'[q] # None
      PROVE  lock'[proxy'[q]].key # None /\ scope'[q] = lock'[proxy'[q]].owner
  <2>1. proxy'[q] = proxy[q] /\ scope'[q] = scope[q] /\ proxy[q] \in Locks
    BY <1>1, <1>2 DEF MutexTypeOK
  <2>2. lock[proxy[q]].key # None /\ scope[q] = lock[proxy[q]].owner
    BY <1>2, <2>1 DEF ProxiesOwned
  <2>3. QED
    BY <2>1, <2>2
<1>3. QED
  BY <1>1, <1>2 DEF ProxiesOwned

\* The owner has further references.
LEMMA UnrefLess ==
  ASSUME MutexInv, NEW p \in Proxies, NEW l \in Locks, GivesUp(p, l), Lessens(l)
  PROVE  MutexInv'
<1> USE DEF MutexInv
<1>1. IInv' /\ UNCHANGED <<wants, status, events, lockobj, lockcache>> /\ lock[l].refn > 1
      /\ Dropped(p) /\ proxy[p] = l
  BY IInvFrame DEF tvars, Dropped, GivesUp, Lessens
<1>2. /\ proxy' \in [Proxies -> Locks \cup {None}] /\ scope' \in [Proxies -> Tasks \cup {None}]
      /\ proxycache' \subseteq Proxies
      /\ \A m \in Locks : m # l => Refs(proxy', m) = Refs(proxy, m)
  BY <1>1, DroppedFacts
<1>3. /\ lock \in [Locks -> LockObjects] /\ lock[l] \in LockObjects /\ lock[l].refn \in Nat
      /\ l \notin lockcache
      /\ lock[l].refn = Cardinality(Refs(proxy', l)) + 1 + (IF Handed(l) THEN 1 ELSE 0)
      /\ Cardinality(Refs(proxy', l)) \in Nat
  BY UnrefFacts, RefsFinite
<1>4. /\ lock' \in [Locks -> LockObjects] /\ lock'[l].refn = lock[l].refn - 1
      /\ \A m \in Locks : lock'[m].key = lock[m].key /\ lock'[m].owner = lock[m].owner /\ lock'[m].waitq = lock[m].waitq
      /\ \A m \in Locks : m # l => lock'[m] = lock[m]
  <2> DEFINE r == [lock[l] EXCEPT !.refn = @ - 1]
  <2>1. lock[l].refn - 1 \in 0..MaxRef /\ lock' = [lock EXCEPT ![l] = r]
    BY <1>1, <1>3, MutexAssumption DEF LockObjects, Lessens
  <2>2. r \in LockObjects /\ r.refn = lock[l].refn - 1 /\ r.key = lock[l].key /\ r.owner = lock[l].owner /\ r.waitq = lock[l].waitq
    BY <1>3, <2>1, Zenon DEF LockObjects
  <2> HIDE DEF r
  <2>3. QED
    BY <1>3, <2>1, <2>2
<1>5. MutexTypeOK'
  BY <1>1, <1>2, <1>4 DEF MutexTypeOK, LockObjects
<1>6. TableExact' /\ Served'
  BY <1>1, <1>3, <1>4 DEF TableExact, Served, MutexTypeOK
<1>7. ProxiesOwned'
  BY <1>1, <1>4, ProxyDropped
<1>8. CountsExact'
  <2>1. \A m \in Locks : Handed(m)' <=> Handed(m)
    BY <1>1, <1>4 DEF Handed
  <2>2. QED
    BY <1>2, <1>3, <1>4, <2>1, Counts
<1>9. Lines'
  BY <1>1, <1>4, LinesFrame DEF MutexTypeOK
<1>10. QED
  BY <1>1, <1>5, <1>6, <1>7, <1>8, <1>9
=============================================================================
