------------------------------- MODULE Mutex -------------------------------
(***************************************************************************)
(* silly.sync.mutex: a reentrant lock for every key.  lock() returns a     *)
(* proxy; unlock() or the end of the proxy's scope gives up one reference, *)
(* and the last one hands the lock to the first waiter.  Lock objects and  *)
(* proxies are recycled through weak caches.                               *)
(***************************************************************************)
EXTENDS Task, FiniteSets

CONSTANTS Keys, Locks, Proxies,
          MaxRef \* bound on the references of a task to a lock

ASSUME MutexAssumption ==
  /\ None \notin Tasks \cup Keys \cup Locks
  /\ IsFiniteSet(Proxies) /\ MaxRef \in Nat \ {0}

VARIABLES lock,       \* the lock objects
          lockobj,    \* key -> lock object
          lockcache,  \* a new lock object is as one from the cache
          proxy,      \* proxy -> its `lock' field
          proxycache, \* likewise
          scope,      \* the task in whose scope a proxy is
          wants       \* the lock object a task is waiting for in lock()

mvars == <<lock, lockobj, lockcache, proxy, proxycache, scope, wants>>
mutexvars == <<tvars, mvars>>

Bare == [key |-> None, owner |-> None, refn |-> 0, waitq |-> <<>>]

MutexInit ==
  /\ TaskInit
  /\ lock = [l \in Locks |-> Bare] /\ lockcache = Locks
  /\ lockobj = [k \in Keys |-> None]
  /\ proxy = [p \in Proxies |-> None] /\ proxycache = Proxies
  /\ scope = [p \in Proxies |-> None]
  /\ wants = [t \in Tasks |-> None]

\* A task runs code of its own: it is not on its way out of lock().
MutexUser == ~InMain /\ wants[Current] = None

\* The end of lock(): a proxy for l.
NewProxy(l) == \E p \in proxycache :
  /\ proxycache' = proxycache \ {p}
  /\ proxy' = [proxy EXCEPT ![p] = l]
  /\ scope' = [scope EXCEPT ![p] = Current]

\* lock() of a key nobody holds
LockNew(k) ==
  /\ MutexUser /\ lockobj[k] = None
  /\ \E l \in lockcache :
       /\ lockcache' = lockcache \ {l}
       /\ lock' = [lock EXCEPT ![l].key = k, ![l].owner = Current, ![l].refn = 1]
       /\ lockobj' = [lockobj EXCEPT ![k] = l]
       /\ NewProxy(l)
  /\ UNCHANGED <<tvars, wants>>

Reenters(l) == lock[l].owner = Current

\* lock() by the owner
LockAgain(k) ==
  /\ MutexUser /\ lockobj[k] # None
  /\ LET l == lockobj[k] IN
       /\ Reenters(l) /\ lock[l].refn < MaxRef
       /\ lock' = [lock EXCEPT ![l].refn = @ + 1]
       /\ NewProxy(l)
  /\ UNCHANGED <<tvars, lockobj, lockcache, wants>>

\* lock() by another task: it waits ...
LockWait(k) ==
  /\ MutexUser /\ lockobj[k] # None
  /\ LET l == lockobj[k] IN
       /\ ~Reenters(l)
       /\ lock' = [lock EXCEPT ![l].waitq = Append(@, Current)]
       /\ wants' = [wants EXCEPT ![Current] = l]
       /\ Wait
  /\ UNCHANGED <<lockobj, lockcache, proxy, proxycache, scope>>

\* ... and returns with the lock it was handed.
LockWoken ==
  /\ ~InMain /\ wants[Current] # None
  /\ NewProxy(wants[Current])
  /\ wants' = [wants EXCEPT ![Current] = None]
  /\ UNCHANGED <<tvars, lock, lockobj, lockcache>>

\* The last reference is handed to the first waiter, or the object is recycled.
\* (fault) the count of the former owner is kept
HandedTo_KeepsCount(l, co) == [lock EXCEPT ![l].refn = 0, ![l].owner = co, ![l].waitq = Tail(@)]
HandedTo(l, co) == [lock EXCEPT ![l].refn = 1, ![l].owner = co, ![l].waitq = Tail(@)]

Recycled(l) == [lock EXCEPT ![l] = Bare]

\* unlock() of a proxy that holds lock l
Unref(l) ==
  IF lock[l].refn > 1
  THEN lock' = [lock EXCEPT ![l].refn = @ - 1] /\ UNCHANGED <<tvars, lockobj, lockcache>>
  ELSE IF lock[l].waitq # <<>>
  THEN LET co == Head(lock[l].waitq) IN
       lock' = HandedTo(l, co) /\ Wakeup(co, Nil) /\ UNCHANGED <<lockobj, lockcache>>
  ELSE /\ lockobj' = [lockobj EXCEPT ![lock[l].key] = None]
       /\ lock' = Recycled(l)
       /\ lockcache' = lockcache \cup {l}
       /\ UNCHANGED tvars

\* proxy:unlock(): nothing to do the second time
Unlock(p) ==
  /\ MutexUser /\ scope[p] = Current
  /\ proxy' = [proxy EXCEPT ![p] = None]
  /\ IF proxy[p] = None THEN UNCHANGED <<tvars, lock, lockobj, lockcache>> ELSE Unref(proxy[p])
  /\ UNCHANGED <<proxycache, scope, wants>>

\* __close: the scope of the proxy ends, by an error too
Close(p) ==
  /\ MutexUser /\ scope[p] = Current
  /\ proxy' = [proxy EXCEPT ![p] = None]
  /\ IF proxy[p] = None THEN UNCHANGED <<tvars, lock, lockobj, lockcache>> ELSE Unref(proxy[p])
  /\ proxycache' = proxycache \cup {p}
  /\ scope' = [scope EXCEPT ![p] = None]
  /\ UNCHANGED wants

\* The scheduler: a task may yield with locks, and ends without.
MutexSchedule ==
  /\ \/ Dispatch
     \/ \E t \in Tasks : Message(t) \/ MessageTask(t)
     \/ MutexUser /\ Sleep
     \/ MutexUser /\ (\A p \in Proxies : scope[p] # Current) /\ (Finish \/ Fail)
  /\ UNCHANGED mvars

MutexNext ==
  \/ \E k \in Keys : LockNew(k) \/ LockAgain(k) \/ LockWait(k)
  \/ LockWoken
  \/ \E p \in Proxies : Unlock(p) \/ Close(p)
  \/ MutexSchedule

MutexSpec == MutexInit /\ [][MutexNext]_mutexvars

-----------------------------------------------------------------------------
\* t is inside the critical section of k.
Holds(t, k) == \E p \in Proxies : scope[p] = t /\ proxy[p] # None /\ lock[proxy[p]].key = k

\* Types of the lock objects and of the proxies.
MutexTypeOK ==
  /\ lock \in [Locks -> [key : Keys \cup {None}, owner : Tasks \cup {None}, refn : 0..MaxRef, waitq : Seq(Tasks)]]
  /\ lockobj \in [Keys -> Locks \cup {None}]
  /\ lockcache \subseteq Locks
  /\ proxy \in [Proxies -> Locks \cup {None}]
  /\ proxycache \subseteq Proxies
  /\ scope \in [Proxies -> Tasks \cup {None}]
  /\ wants \in [Tasks -> Locks \cup {None}]

\* Two tasks are never inside the critical section of the same key, although
\* lock objects and proxies move from key to key and from task to task.
Exclusive == \A t, u \in Tasks, k \in Keys : Holds(t, k) /\ Holds(u, k) => t = u

\* A lock object counts its proxies, and one more for the task it was handed to
\* that has not run yet; so it is given up neither early nor never.
CountsExact == \A l \in Locks :
  lock[l].refn = Cardinality({p \in Proxies : proxy[p] = l})
                 + (IF lock[l].owner # None /\ wants[lock[l].owner] = l THEN 1 ELSE 0)

\* The table of a mutex and the lock objects agree, and a lock object in the
\* cache has nothing left of the key it served: new_lock does not reset its queue.
TableExact ==
  /\ \A k \in Keys, l \in Locks : lockobj[k] = l <=> lock[l].key = k
  /\ \A l \in lockcache : lock[l] = Bare

\* A task blocked in lock() is queued, once, behind an owner who is not waiting
\* for the same lock: the unlock of that owner wakes the first of the queue.
WaitersQueued == \A t \in Tasks : wants[t] # None =>
  LET l == wants[t] IN
    IF status[t] = "WAIT"
    THEN /\ Cardinality({i \in 1..Len(lock[l].waitq) : lock[l].waitq[i] = t}) = 1
         /\ lock[l].owner \notin {None, t}
    ELSE lock[l].owner = t
\* Mutual exclusion and the bookkeeping of mutex.lua: no lock object is given up early or
\* never, none is reused with a rest of its former key, and no waiter is forgotten.
MutexExact == Exclusive /\ CountsExact /\ TableExact /\ WaitersQueued
=============================================================================
