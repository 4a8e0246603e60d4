-------------------------- MODULE FlightDoneProofs --------------------------
(***************************************************************************)
(* The rest of the proof of module SingleFlight: the end of an execution,  *)
(* which queues all who joined it with its result; and the theorem.        *)
(***************************************************************************)
EXTENDS FlightProofs

\* The queue of the scheduler when all the tasks of s, which wait in no queue, are put into it.
LEMMA AllQueued ==
  ASSUME IInv, NEW s \in Seq(Tasks), NEW v \in Values, IsInjective(s),
         \A i \in 1..Len(s) : status[s[i]] = "WAIT" /\ s[i] \notin events,
         status' \in [Tasks -> Statuses], param' \in [Tasks -> Values \cup {Nil}],
         \A t \in Tasks : (\E i \in 1..Len(s) : s[i] = t) => status'[t] = "READY",
         \A t \in Tasks : (~\E i \in 1..Len(s) : s[i] = t) => status'[t] = status[t] /\ param'[t] = param[t],
         ready' = ready \o s, UNCHANGED <<traceid, running, saved, trace, copool, events, exited>>
  PROVE  IInv'
<1> USE DEF IInv
<1> DEFINE In(t) == \E i \in 1..Len(s) : s[i] = t
<1>1. /\ ready \in Seq(Tasks) /\ status \in [Tasks -> Statuses] /\ events \subseteq Tasks /\ copool \subseteq Tasks
      /\ running \in Seq(Tasks) /\ exited \in BOOLEAN
  BY DEF TypeOK
<1>2. \A t \in Tasks : In(t) => status[t] = "WAIT" /\ t \notin events /\ status'[t] = "READY"
  OBVIOUS
<1>3. \A t \in Tasks : ~In(t) => status'[t] = status[t] /\ param'[t] = param[t]
  OBVIOUS
<1> DEFINE q == ready \o s
<1>4. /\ q \in Seq(Tasks) /\ Len(ready) \in Nat /\ Len(s) \in Nat /\ Len(q) = Len(ready) + Len(s)
      /\ \A i \in 1..Len(ready) : q[i] = ready[i]
      /\ \A i \in 1..Len(s) : q[Len(ready) + i] = s[i]
      /\ DOMAIN q = 1..(Len(ready) + Len(s)) /\ DOMAIN ready = 1..Len(ready) /\ DOMAIN s = 1..Len(s)
  BY <1>1
<1>5. ready' = q
  OBVIOUS
<1> HIDE DEF q, In
<1>6. TypeOK'
  BY <1>4, <1>5 DEF TypeOK
<1>7. \A i \in 1..Len(ready) : ready[i] \in Tasks /\ status[ready[i]] = "READY" /\ ~In(ready[i])
  BY <1>1, <1>2 DEF Queues, ReadyExact
<1>8. \A i \in 1..Len(s) : s[i] \in Tasks /\ In(s[i])
  BY DEF In
<1>9. \A i \in 1..Len(q) : i \in 1..Len(ready) \/ (i - Len(ready) \in 1..Len(s) /\ q[i] = s[i - Len(ready)])
  <2> SUFFICES ASSUME NEW i \in 1..Len(q), i \notin 1..Len(ready)
               PROVE  i - Len(ready) \in 1..Len(s) /\ q[i] = s[i - Len(ready)]
    OBVIOUS
  <2>1. i - Len(ready) \in 1..Len(s) /\ Len(ready) + (i - Len(ready)) = i
    BY <1>4
  <2>2. QED
    BY <1>4, <2>1
<1>10. ReadyExact'
  <2>1. IsInjective(q)
    <3> SUFFICES ASSUME NEW i \in 1..Len(q), NEW j \in 1..Len(q), q[i] = q[j] PROVE i = j
      BY <1>4 DEF IsInjective
    <3>1. CASE i \in 1..Len(ready) /\ j \in 1..Len(ready)
      <4>1. i \in DOMAIN ready /\ j \in DOMAIN ready /\ ready[i] = ready[j]
        BY <1>4, <3>1
      <4>2. QED
        BY <4>1 DEF Queues, ReadyExact, IsInjective
    <3>2. CASE i \in 1..Len(ready) /\ j \notin 1..Len(ready)
      BY <1>4, <1>7, <1>8, <1>9, <3>2
    <3>3. CASE i \notin 1..Len(ready) /\ j \in 1..Len(ready)
      BY <1>4, <1>7, <1>8, <1>9, <3>3
    <3>4. CASE i \notin 1..Len(ready) /\ j \notin 1..Len(ready)
      <4>1. i - Len(ready) = j - Len(ready)
        <5>1. /\ i - Len(ready) \in DOMAIN s /\ j - Len(ready) \in DOMAIN s
              /\ s[i - Len(ready)] = s[j - Len(ready)]
          BY <1>4, <1>9, <3>4
        <5>2. QED
          BY <5>1 DEF IsInjective
      <4>2. QED
        BY <1>4, <4>1
    <3>5. QED
      BY <3>1, <3>2, <3>3, <3>4
  <2>2. \A i \in 1..Len(q) : status'[q[i]] = "READY"
    BY <1>2, <1>3, <1>4, <1>7, <1>8, <1>9
  <2>3. ~exited => \A t \in Tasks : status'[t] = "READY" => \E i \in 1..Len(q) : q[i] = t
    <3> SUFFICES ASSUME ~exited, NEW t \in Tasks, status'[t] = "READY" PROVE \E i \in 1..Len(q) : q[i] = t
      OBVIOUS
    <3>1. CASE In(t)
      <4>1. PICK i \in 1..Len(s) : s[i] = t
        BY <3>1 DEF In
      <4>2. Len(ready) + i \in 1..Len(q) /\ q[Len(ready) + i] = t
        BY <1>4, <4>1
      <4>3. QED
        BY <4>2
    <3>2. CASE ~In(t)
      <4>1. PICK i \in 1..Len(ready) : ready[i] = t
        BY <1>3, <3>2 DEF Queues, ReadyExact
      <4>2. i \in 1..Len(q) /\ q[i] = t
        BY <1>4, <4>1
      <4>3. QED
        BY <4>2
    <3>3. QED
      BY <3>1, <3>2
  <2>4. QED
    BY <1>5, <2>1, <2>2, <2>3 DEF ReadyExact
<1>11. ParamIsOwn'
  BY <1>2, <1>3 DEF Queues, ParamIsOwn
<1>12. Stacks'
  <2>1. \A i \in 1..Len(running) : status'[running[i]] = "RUN" /\ running[i] \notin events
    BY <1>1, <1>2, <1>3 DEF Stacks, StackExact
  <2>2. \A t \in events : status'[t] \in {"RUN", "WAIT"}
    BY <1>1, <1>2, <1>3 DEF Stacks, StackExact
  <2>3. QED
    BY <2>1, <2>2 DEF Stacks, StackExact, TraceIsOwn, SavedIsOwn, InMain, Current
<1>13. PooledIsIdle'
  BY <1>1, <1>2, <1>3 DEF PooledIsIdle
<1>14. QED
  BY <1>6, <1>10, <1>11, <1>12, <1>13 DEF Queues

\* The end of the execution of task c for key k: all who joined flight f, and nobody else, are
\* queued with its result v.
LeadEnds(c, k, f, v) ==
  /\ c \in Tasks /\ k \in FlightKeys /\ f \in Flights /\ v \in Values
  /\ leads[c] = k /\ inflight[k] = f /\ run[c] = v
  /\ inflight' = [inflight EXCEPT ![k] = None]
  /\ flight' = [flight EXCEPT ![f] = <<>>]
  /\ cache' = cache \cup {f}
  /\ leads' = [leads EXCEPT ![c] = None] /\ run' = [run EXCEPT ![c] = None]
  /\ status' \in [Tasks -> Statuses] /\ param' \in [Tasks -> Values \cup {Nil}]
  /\ \A t \in Tasks : Member(t, f) => status'[t] = "READY" /\ param'[t] = v
  /\ \A t \in Tasks : ~Member(t, f) => status'[t] = status[t] /\ param'[t] = param[t]
  /\ ready' = ready \o flight[f]
  /\ UNCHANGED <<traceid, running, saved, trace, copool, events, exited, result>>

LEMMA LeadDoneFacts ==
  ASSUME FlightInv, LeadDone
  PROVE  \E c, k, f, v : LeadEnds(c, k, f, v)
<1>1. PICK c \in Tasks : c = Current /\ leads[c] # None
  BY CurrentFacts DEF LeadDone, FlightInv
<1>2. param \in [Tasks -> Values \cup {Nil}]
  BY DEF FlightInv, IInv, TypeOK
<1>3. PICK k \in FlightKeys, f \in Flights, v \in Values : k = leads[c] /\ f = inflight[k] /\ v = run[c]
  BY <1>1, FlightFacts
<1> DEFINE ts == Range(flight[f])
<1>4. \A t : t \in ts <=> Member(t, f)
  <2>1. DOMAIN flight[f] = 1..Len(flight[f])
    BY <1>3, SeqLen, FlightFacts
  <2>2. QED
    BY <2>1 DEF Range, Member
<1>5. /\ status' = [t \in Tasks |-> IF t \in ts THEN "READY" ELSE status[t]]
      /\ param' = [t \in Tasks |-> IF t \in ts THEN v ELSE param[t]]
  BY <1>1, <1>3 DEF LeadDone, Followers, Shared
<1>6. /\ inflight' = [inflight EXCEPT ![k] = None] /\ flight' = [flight EXCEPT ![f] = <<>>]
      /\ cache' = cache \cup {f}
      /\ leads' = [leads EXCEPT ![c] = None] /\ run' = [run EXCEPT ![c] = None]
      /\ ready' = ready \o flight[f]
      /\ UNCHANGED <<traceid, running, saved, trace, copool, events, exited, result>>
  BY <1>1, <1>3 DEF LeadDone, Followers, Emptied, Shared
<1> HIDE DEF ts
<1>7. status' \in [Tasks -> Statuses] /\ param' \in [Tasks -> Values \cup {Nil}]
  BY <1>2, <1>5, FlightFacts DEF Statuses
<1>8. /\ \A t \in Tasks : Member(t, f) => status'[t] = "READY" /\ param'[t] = v
      /\ \A t \in Tasks : ~Member(t, f) => status'[t] = status[t] /\ param'[t] = param[t]
  BY <1>4, <1>5
<1>9. LeadEnds(c, k, f, v)
  BY <1>3, <1>6, <1>7, <1>8 DEF LeadEnds
<1>10. QED
  BY <1>9

LEMMA EndsQueued ==
  ASSUME FlightInv, NEW c, NEW k, NEW f, NEW v, LeadEnds(c, k, f, v)
  PROVE  IInv' /\ FlightTypes'
<1> DEFINE s == flight[f]
<1>1. s \in Seq(Tasks) /\ IsInjective(s)
  BY FlightFacts DEF LeadEnds, FlightInv, FlightOnce
<1>2. \A t : Member(t, f) <=> \E i \in 1..Len(s) : s[i] = t
  BY DEF Member
<1>3. ready' = ready \o s
  BY DEF LeadEnds
<1> HIDE DEF s
<1>4. \A i \in 1..Len(s) : status[s[i]] = "WAIT" /\ s[i] \notin events
  <2>1. \A i \in 1..Len(s) : s[i] \in Tasks /\ Member(s[i], f)
    BY <1>1, <1>2
  <2>2. QED
    BY <2>1 DEF LeadEnds, FlightInv, FlightWaits
<1>5. /\ \A t \in Tasks : (\E i \in 1..Len(s) : s[i] = t) => status'[t] = "READY"
      /\ \A t \in Tasks : (~\E i \in 1..Len(s) : s[i] = t) => status'[t] = status[t] /\ param'[t] = param[t]
  BY <1>2 DEF LeadEnds
<1>6. IInv'
  BY <1>1, <1>3, <1>4, <1>5, AllQueued DEF LeadEnds, FlightInv
<1>7. FlightTypes'
  BY DEF LeadEnds, FlightInv, FlightTypes
<1>8. QED
  BY <1>6, <1>7

\* What the other conjuncts of the invariant need of it: who the call was,
EndedCall(c, k, f, v) ==
  /\ c \in Tasks /\ k \in FlightKeys /\ f \in Flights /\ v # None /\ k # None /\ f # None
  /\ leads[c] = k /\ inflight[k] = f
\* what became of the table of executions,
EndedLeads(c) ==
  /\ \A t \in Tasks : t # c => leads'[t] = leads[t] /\ run'[t] = run[t]
  /\ leads'[c] = None /\ run'[c] = None
EndedKeys(k, f) ==
  /\ \A j \in FlightKeys : j # k => inflight'[j] = inflight[j] /\ inflight[j] # f
  /\ inflight'[k] = None
\* of the flight,
EndedFlight(f) ==
  /\ \A g \in Flights : g # f => flight'[g] = flight[g]
  /\ flight'[f] = <<>> /\ cache' = cache \cup {f} /\ cache \subseteq Flights
\* of the tasks that joined it and of the others,
EndedJoined(c, f, v) == \A t \in Tasks : Member(t, f) =>
  /\ status'[t] = "READY" /\ param'[t] = v
  /\ t # c /\ run[t] = v /\ status[t] = "WAIT" /\ leads[t] = None
EndedOthers(f) == \A t \in Tasks : ~Member(t, f) => status'[t] = status[t] /\ param'[t] = param[t]
\* and that no other execution is concerned.
EndedApart(c, k, f) == \A t \in Tasks : leads[t] # None /\ t # c =>
  leads[t] \in FlightKeys /\ leads[t] # k /\ inflight[leads[t]] # f /\ inflight[leads[t]] \in Flights
Ended(c, k, f, v) ==
  /\ EndedCall(c, k, f, v) /\ EndedLeads(c) /\ EndedKeys(k, f) /\ EndedFlight(f)
  /\ EndedJoined(c, f, v) /\ EndedOthers(f) /\ EndedApart(c, k, f)
  /\ UNCHANGED <<events, result>>

LEMMA EndedFacts ==
  ASSUME FlightInv, NEW c, NEW k, NEW f, NEW v, LeadEnds(c, k, f, v)
  PROVE  Ended(c, k, f, v)
<1>1. /\ inflight \in [FlightKeys -> Flights \cup {None}] /\ leads \in [Tasks -> FlightKeys \cup {None}]
      /\ run \in [Tasks -> Values \cup {None}] /\ flight \in [Flights -> Seq(Tasks)]
      /\ cache \subseteq Flights /\ None \notin Flights \cup FlightKeys \cup Values \cup {Nil}
      /\ \A t \in Tasks : leads[t] # None => leads[t] \in FlightKeys /\ inflight[leads[t]] \in Flights
  BY FlightFacts
<1>2. /\ c \in Tasks /\ k \in FlightKeys /\ f \in Flights /\ v \in Values
      /\ leads[c] = k /\ inflight[k] = f /\ run[c] = v
  BY DEF LeadEnds
<1>3. /\ \A t \in Tasks : t # c => leads'[t] = leads[t] /\ run'[t] = run[t]
      /\ leads'[c] = None /\ run'[c] = None /\ inflight'[k] = None /\ flight'[f] = <<>>
      /\ \A g \in Flights : g # f => flight'[g] = flight[g]
      /\ \A j \in FlightKeys : j # k => inflight'[j] = inflight[j]
  BY <1>1 DEF LeadEnds
<1>4. \A j \in FlightKeys : j # k => inflight[j] # f
  BY <1>1, <1>2 DEF FlightInv, FlightsOwned
<1>5. \A t \in Tasks : leads[t] # None /\ t # c => leads[t] # k
  BY <1>2 DEF FlightInv, OneExecution
<1>6. \A t \in Tasks : Member(t, f) => t # c /\ run[t] = v /\ status[t] = "WAIT" /\ leads[t] = None
  <2> SUFFICES ASSUME NEW t \in Tasks, Member(t, f)
               PROVE  t # c /\ run[t] = v /\ status[t] = "WAIT" /\ leads[t] = None
    OBVIOUS
  <2>1. leads[t] = None /\ status[t] = "WAIT"
    BY <1>2 DEF FlightInv, FlightWaits
  <2>2. PICK u \in Tasks : leads[u] # None /\ inflight[leads[u]] = f /\ run[u] = run[t]
    BY <1>2 DEF FlightInv, FlightWaits
  <2>3. u = c
    BY <1>1, <1>4, <1>5, <2>2
  <2>4. QED
    BY <1>1, <1>2, <2>1, <2>2, <2>3
<1>7. EndedCall(c, k, f, v) /\ EndedLeads(c)
  BY <1>1, <1>2, <1>3 DEF EndedCall, EndedLeads
<1>8. EndedKeys(k, f) /\ EndedApart(c, k, f)
  BY <1>1, <1>2, <1>3, <1>4, <1>5 DEF EndedKeys, EndedApart
<1>9. EndedFlight(f)
  BY <1>1, <1>3 DEF LeadEnds, EndedFlight
<1>10. EndedJoined(c, f, v) /\ EndedOthers(f)
  BY <1>6 DEF LeadEnds, EndedJoined, EndedOthers
<1>11. QED
  BY <1>7, <1>8, <1>9, <1>10 DEF LeadEnds, Ended

LEMMA EndedOwned ==
  ASSUME FlightInv, NEW c, NEW k, NEW f, NEW v, Ended(c, k, f, v)
  PROVE  FlightsOwned' /\ OneExecution'
<1> USE DEF Ended
<1>1. \A j \in FlightKeys : inflight'[j] # None <=> \E t \in Tasks : leads'[t] = j
  <2> SUFFICES ASSUME NEW j \in FlightKeys PROVE inflight'[j] # None <=> \E t \in Tasks : leads'[t] = j
    OBVIOUS
  <2>1. j # None
    BY FlightFacts
  <2>2. CASE j = k
    <3>1. inflight'[j] = None
      BY <2>2 DEF EndedKeys
    <3>2. \A t \in Tasks : leads'[t] # j
      BY <2>1, <2>2 DEF EndedLeads, EndedApart
    <3>3. QED
      BY <3>1, <3>2
  <2>3. CASE j # k
    <3>1. inflight[j] # None <=> \E t \in Tasks : leads[t] = j
      BY DEF FlightInv, FlightsOwned
    <3>2. \A t \in Tasks : leads'[t] = j <=> leads[t] = j
      BY <2>1, <2>3 DEF EndedLeads, EndedCall
    <3>3. QED
      BY <2>3, <3>1, <3>2 DEF EndedKeys
  <2>4. QED
    BY <2>2, <2>3
<1>2. \A i, j \in FlightKeys : inflight'[i] = inflight'[j] /\ inflight'[i] # None => i = j
  BY DEF EndedKeys, FlightInv, FlightsOwned
<1>3. ASSUME NEW g \in cache' PROVE flight'[g] = <<>> /\ \A j \in FlightKeys : inflight'[j] # g
  <2>1. g \in Flights /\ g # None /\ (g = f \/ g \in cache)
    BY <1>3, FlightFacts DEF EndedFlight, EndedCall
  <2>2. CASE g = f
    BY <2>1, <2>2 DEF EndedFlight, EndedKeys
  <2>3. CASE g # f
    <3>1. flight[g] = <<>> /\ \A j \in FlightKeys : inflight[j] # g
      BY <2>1, <2>3 DEF FlightInv, FlightsOwned
    <3>2. QED
      BY <2>1, <2>3, <3>1 DEF EndedFlight, EndedKeys
  <2>4. QED
    BY <2>2, <2>3
<1>4. FlightsOwned'
  BY <1>1, <1>2, <1>3 DEF FlightsOwned
<1>5. OneExecution'
  BY DEF EndedLeads, FlightInv, OneExecution
<1>6. QED
  BY <1>4, <1>5

LEMMA EndedCalls ==
  ASSUME FlightInv, NEW c, NEW k, NEW f, NEW v, Ended(c, k, f, v)
  PROVE  LeaderRuns' /\ ResultStates' /\ ReadyStates'
<1> USE DEF Ended
<1>1. status[c] = "RUN" /\ result[c] = None
  BY DEF EndedCall, FlightInv, Calls, LeaderRuns
<1>2. LeaderRuns'
  <2> SUFFICES ASSUME NEW t \in Tasks, leads'[t] # None
               PROVE  run'[t] # None /\ status'[t] = "RUN" /\ result[t] = None
    BY DEF LeaderRuns
  <2>1. t # c /\ leads[t] # None /\ run'[t] = run[t]
    BY DEF EndedLeads
  <2>2. ~Member(t, f)
    BY <2>1 DEF EndedJoined
  <2>3. QED
    BY <2>1, <2>2 DEF EndedOthers, FlightInv, Calls, LeaderRuns
<1>3. ResultStates'
  <2> SUFFICES ASSUME NEW t \in Tasks, result[t] # None
               PROVE  run'[t] # None /\ status'[t] = "RUN" /\ leads'[t] = None /\ result[t] = run'[t]
    BY DEF ResultStates
  <2>1. run[t] # None /\ status[t] = "RUN" /\ leads[t] = None /\ result[t] = run[t]
    BY DEF FlightInv, Calls, ResultStates
  <2>2. t # c /\ ~Member(t, f)
    BY <1>1, <2>1 DEF EndedJoined
  <2>3. QED
    BY <2>1, <2>2 DEF EndedLeads, EndedOthers
<1>4. ReadyStates'
  <2> SUFFICES ASSUME NEW t \in Tasks, status'[t] = "READY"
               PROVE  leads'[t] = None /\ run'[t] # None /\ param'[t] = run'[t]
    BY DEF ReadyStates
  <2>1. CASE Member(t, f)
    BY <2>1 DEF EndedJoined, EndedLeads, EndedCall
  <2>2. CASE ~Member(t, f)
    <3>1. status[t] = "READY" /\ param'[t] = param[t]
      BY <2>2 DEF EndedOthers
    <3>2. t # c
      BY <1>1, <3>1
    <3>3. QED
      BY <3>1, <3>2 DEF EndedLeads, FlightInv, Calls, ReadyStates
  <2>3. QED
    BY <2>1, <2>2
<1>5. QED
  BY <1>2, <1>3, <1>4

LEMMA EndedMembers ==
  ASSUME FlightInv, NEW c, NEW k, NEW f, NEW v, Ended(c, k, f, v)
  PROVE  /\ \A g \in Flights, t \in Tasks : Member(t, g)' <=> g # f /\ Member(t, g)
         /\ FlightOnce'
<1> USE DEF Ended
<1>1. \A g \in Flights, t \in Tasks : Member(t, g)' <=> g # f /\ Member(t, g)
  BY DEF EndedFlight, Member
<1>2. IsInjective(<<>>)
  BY DEF IsInjective
<1>3. \A g \in Flights : IsInjective(flight'[g])
  BY <1>2 DEF EndedFlight, FlightInv, FlightOnce
<1>4. FlightOnce'
  BY <1>1, <1>3 DEF FlightInv, FlightOnce
<1>5. QED
  BY <1>1, <1>4

LEMMA EndedFollowers ==
  ASSUME FlightInv, NEW c, NEW k, NEW f, NEW v, Ended(c, k, f, v)
  PROVE  FollowerStates'
<1> USE DEF Ended
<1> SUFFICES ASSUME NEW t \in Tasks, run'[t] # None, leads'[t] = None
             PROVE  \/ /\ status'[t] = "WAIT"
                       /\ \E u \in Tasks : leads'[u] # None /\ run'[u] = run'[t]
                            /\ \E g \in Flights : g = inflight'[leads'[u]] /\ Member(t, g)'
                    \/ status'[t] = "READY"
                    \/ status'[t] = "RUN" /\ result[t] = run'[t]
  BY DEF FollowerStates, Member
<1>1. t # c /\ run'[t] = run[t] /\ leads'[t] = leads[t]
  BY DEF EndedLeads
<1>2. CASE Member(t, f)
  BY <1>2 DEF EndedJoined
<1>3. CASE ~Member(t, f)
  <2>1. status'[t] = status[t]
    BY <1>3 DEF EndedOthers
  <2>2. ASSUME NEW u \in Tasks, leads[u] # None, run[u] = run[t], Member(t, inflight[leads[u]])
        PROVE  /\ leads'[u] # None /\ run'[u] = run'[t]
               /\ \E g \in Flights : g = inflight'[leads'[u]] /\ Member(t, g)'
    <3>1. u # c
      BY <1>3, <2>2 DEF EndedCall
    <3>2. PICK g \in Flights : g = inflight[leads[u]] /\ g # f /\ leads[u] # k /\ leads[u] \in FlightKeys
      BY <2>2, <3>1 DEF EndedApart
    <3>3. Member(t, g)'
      BY <2>2, <3>2, EndedMembers
    <3>4. leads'[u] = leads[u] /\ run'[u] = run[u] /\ inflight'[leads[u]] = g
      BY <3>1, <3>2 DEF EndedLeads, EndedKeys
    <3>5. QED
      BY <1>1, <2>2, <3>3, <3>4
  <2>3. QED
    BY <1>1, <2>1, <2>2 DEF FlightInv, Calls, FollowerStates
<1>4. QED
  BY <1>2, <1>3

LEMMA EndedWaits ==
  ASSUME FlightInv, NEW c, NEW k, NEW f, NEW v, Ended(c, k, f, v)
  PROVE  FlightWaits'
<1> USE DEF Ended
<1> SUFFICES ASSUME NEW g \in Flights, NEW t \in Tasks, Member(t, g)'
             PROVE  /\ status'[t] = "WAIT" /\ t \notin events /\ leads'[t] = None
                    /\ \E u \in Tasks : leads'[u] # None /\ inflight'[leads'[u]] = g /\ run'[u] = run'[t]
  BY DEF FlightWaits
<1>1. g # f /\ Member(t, g)
  BY EndedMembers
<1>2. f \in Flights
  BY DEF EndedCall
<1>3. ~Member(t, f)
  BY <1>1, <1>2 DEF FlightInv, FlightOnce
<1>4. status[t] = "WAIT" /\ t \notin events /\ leads[t] = None
  BY <1>1 DEF FlightInv, FlightWaits
<1>5. PICK u \in Tasks : leads[u] # None /\ inflight[leads[u]] = g /\ run[u] = run[t]
  BY <1>1 DEF FlightInv, FlightWaits
<1>6. u # c /\ t # c
  BY <1>1, <1>4, <1>5 DEF EndedCall
<1>7. leads'[u] = leads[u] /\ run'[u] = run[u] /\ run'[t] = run[t] /\ leads'[t] = leads[t]
  BY <1>6 DEF EndedLeads
<1>8. inflight'[leads[u]] = g
  BY <1>5, <1>6 DEF EndedKeys, EndedApart
<1>9. status'[t] = status[t]
  BY <1>3 DEF EndedOthers
<1>10. QED
  BY <1>4, <1>5, <1>7, <1>8, <1>9

LEMMA LeadDoneStep == ASSUME FlightInv, LeadDone PROVE FlightInv'
<1>1. PICK c, k, f, v : LeadEnds(c, k, f, v)
  BY LeadDoneFacts
<1>2. Ended(c, k, f, v)
  BY <1>1, EndedFacts
<1>3. IInv' /\ FlightTypes'
  BY <1>1, EndsQueued
<1>4. FlightsOwned' /\ OneExecution'
  BY <1>2, EndedOwned
<1>5. Calls'
  BY <1>2, EndedCalls, EndedFollowers DEF Calls
<1>6. FlightWaits' /\ FlightOnce'
  BY <1>2, EndedWaits, EndedMembers
<1>7. QED
  BY <1>3, <1>4, <1>5, <1>6 DEF FlightInv

LEMMA FlightStep == FlightInv /\ [FlightNext]_flightvars => FlightInv'
<1> SUFFICES ASSUME FlightInv, [FlightNext]_flightvars PROVE FlightInv'
  OBVIOUS
<1>1. CASE UNCHANGED flightvars
  <2>1. UNCHANGED <<tvars, fvars, status, param, events>>
    BY <1>1 DEF flightvars, tvars
  <2>2. IInv'
    BY <2>1, IInvFrame DEF FlightInv
  <2>3. \A f \in Flights, t \in Tasks : Member(t, f) => t \notin events'
    BY <2>1 DEF FlightInv, FlightWaits
  <2>4. QED
    BY <2>1, <2>2, <2>3, FlightFrame
<1>2. QED
  BY <1>1, LeadStep, LeadDoneStep, JoinStep, JoinReturnsStep, FlightScheduleStep DEF FlightNext

LEMMA FlightStart == FlightInit => FlightInv
<1> SUFFICES ASSUME FlightInit PROVE FlightInv
  OBVIOUS
<1>1. IInv /\ status = [t \in Tasks |-> "none"]
  BY Initially DEF FlightInit, TaskInit
<1>2. /\ inflight = [k \in FlightKeys |-> None] /\ flight = [f \in Flights |-> <<>>] /\ cache = Flights
      /\ leads = [t \in Tasks |-> None] /\ run = [t \in Tasks |-> None] /\ result = [t \in Tasks |-> None]
      /\ None \notin Flights \cup FlightKeys
  BY FlightAssumption DEF FlightInit
<1>3. FlightTypes
  BY <1>2 DEF FlightTypes
<1>4. \A f \in Flights, t \in Tasks : ~Member(t, f)
  BY <1>2 DEF Member
<1>5. FlightsOwned /\ OneExecution
  BY <1>2 DEF FlightsOwned, OneExecution
<1>6. Calls
  BY <1>1, <1>2 DEF Calls, LeaderRuns, FollowerStates, ReadyStates, ResultStates
<1>7. FlightWaits
  BY <1>4 DEF FlightWaits
<1>8. IsInjective(<<>>)
  BY DEF IsInjective
<1>9. FlightOnce
  BY <1>2, <1>4, <1>8 DEF FlightOnce
<1>10. QED
  BY <1>1, <1>3, <1>5, <1>6, <1>7, <1>9 DEF FlightInv

LEMMA FlightSound == FlightInv => OneExecution /\ ResultIsJoined /\ FollowerFound
<1>1. FlightInv => OneExecution /\ ResultIsJoined
  BY DEF FlightInv, Calls, ResultStates, ResultIsJoined
<1>2. FlightInv => FollowerFound
  <2> SUFFICES ASSUME FlightInv, NEW t \in Tasks, leads[t] = None, run[t] # None, status[t] = "WAIT"
               PROVE  \E u \in Tasks : leads[u] # None /\ run[u] = run[t] /\ t \in Range(flight[inflight[leads[u]]])
    BY DEF FollowerFound
  <2>1. PICK u \in Tasks : leads[u] # None /\ run[u] = run[t] /\ Member(t, inflight[leads[u]])
    BY DEF FlightInv, Calls, FollowerStates
  <2>2. PICK f \in Flights : f = inflight[leads[u]]
    BY <2>1, FlightFacts
  <2>3. DOMAIN flight[f] = 1..Len(flight[f])
    BY SeqLen DEF FlightInv, FlightTypes
  <2>4. t \in Range(flight[f])
    BY <2>1, <2>2, <2>3 DEF Range, Member
  <2>5. QED
    BY <2>1, <2>2, <2>4
<1>3. QED
  BY <1>1, <1>2

\* For any number of tasks, keys and executions: singleflight.lua executes the function once at a
\* time for a key, a call returns the result of the execution it joined, and whoever joined is in
\* the flight of an execution that has not returned.
THEOREM CallsShared == FlightSpec => []FlightExact
<1>1. FlightInv => FlightExact
  BY FlightSound DEF FlightExact
<1>2. QED
  BY <1>1, FlightStart, FlightStep, PTL DEF FlightSpec
=============================================================================
