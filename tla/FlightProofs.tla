--------------------------- MODULE FlightProofs -----------------------------
(***************************************************************************)
(* The inductive invariant of SingleFlight, for any number of tasks, keys  *)
(* and flights: a call that starts an execution, one that joins it and one *)
(* that returns with its result.  The scheduler's own invariant comes from *)
(* TaskProofs; the end of an execution follows in FlightDoneProofs.        *)
(***************************************************************************)
EXTENDS SingleFlight, TaskProofs

FlightTypes ==
  /\ inflight \in [FlightKeys -> Flights \cup {None}]
  /\ flight \in [Flights -> Seq(Tasks)]
  /\ cache \subseteq Flights
  /\ leads \in [Tasks -> FlightKeys \cup {None}]
  /\ run \in [Tasks -> Values \cup {None}]
  /\ result \in [Tasks -> Values \cup {Nil, None}]

\* Task t is in flight f.
Member(t, f) == \E i \in 1..Len(flight[f]) : flight[f][i] = t

\* A key has a flight while a task executes its function; no two keys share one, and one in the
\* cache is empty.
FlightsOwned ==
  /\ \A k \in FlightKeys : inflight[k] # None <=> \E t \in Tasks : leads[t] = k
  /\ \A j, k \in FlightKeys : inflight[j] = inflight[k] /\ inflight[j] # None => j = k
  /\ \A f \in cache : flight[f] = <<>> /\ \A k \in FlightKeys : inflight[k] # f

\* What a task inside call() is doing: the leader runs the function, a follower waits in the
\* flight of its leader, is queued with the leader's result, or returns with it.
LeaderRuns == \A t \in Tasks : leads[t] # None => run[t] # None /\ status[t] = "RUN" /\ result[t] = None
FollowerStates == \A t \in Tasks : run[t] # None /\ leads[t] = None =>
  \/ /\ status[t] = "WAIT"
     /\ \E u \in Tasks : leads[u] # None /\ run[u] = run[t] /\ Member(t, inflight[leads[u]])
  \/ status[t] = "READY"
  \/ status[t] = "RUN" /\ result[t] = run[t]
ReadyStates == \A t \in Tasks : status[t] = "READY" => leads[t] = None /\ run[t] # None /\ param[t] = run[t]
ResultStates == \A t \in Tasks : result[t] # None =>
  run[t] # None /\ status[t] = "RUN" /\ leads[t] = None /\ result[t] = run[t]

\* The tasks of a flight wait for its leader and for nothing else, each in one place.
FlightWaits == \A f \in Flights, t \in Tasks : Member(t, f) =>
  /\ status[t] = "WAIT" /\ t \notin events /\ leads[t] = None
  /\ \E u \in Tasks : leads[u] # None /\ inflight[leads[u]] = f /\ run[u] = run[t]
FlightOnce ==
  /\ \A f, g \in Flights, t \in Tasks : Member(t, f) /\ Member(t, g) => f = g
  /\ \A f \in Flights : IsInjective(flight[f])

Calls == LeaderRuns /\ FollowerStates /\ ReadyStates /\ ResultStates
FlightInv == IInv /\ FlightTypes /\ FlightsOwned /\ OneExecution /\ Calls /\ FlightWaits /\ FlightOnce

\* The scheduler's steps that leave the calls alone: a task inside call() keeps its status, and
\* a task in a flight is not given to a message.
LEMMA FlightFrame ==
  ASSUME FlightInv, IInv', UNCHANGED fvars, UNCHANGED param,
         \A t \in Tasks : status'[t] = status[t] \/ (run[t] = None /\ status'[t] # "READY"),
         \A f \in Flights, t \in Tasks : Member(t, f) => t \notin events'
  PROVE  FlightInv'
<1> USE DEF FlightInv
<1>1. UNCHANGED <<inflight, flight, cache, runs, leads, run, result>>
  BY DEF fvars
<1>2. \A f, t : Member(t, f)' <=> Member(t, f)
  BY <1>1 DEF Member
<1>3. FlightTypes' /\ FlightsOwned' /\ OneExecution'
  BY <1>1 DEF FlightTypes, FlightsOwned, OneExecution
<1>4. LeaderRuns' /\ ReadyStates' /\ ResultStates'
  BY <1>1 DEF Calls, LeaderRuns, ReadyStates, ResultStates
<1>5. FollowerStates'
  <2> SUFFICES ASSUME NEW t \in Tasks, run[t] # None, leads[t] = None
               PROVE  \/ /\ status'[t] = "WAIT"
                         /\ \E u \in Tasks : leads[u] # None /\ run[u] = run[t] /\ Member(t, inflight[leads[u]])
                      \/ status'[t] = "READY"
                      \/ status'[t] = "RUN" /\ result[t] = run[t]
    BY <1>1, <1>2 DEF FollowerStates
  <2>1. QED
    BY DEF Calls, FollowerStates
<1>6. FlightWaits'
  <2> SUFFICES ASSUME NEW f \in Flights, NEW t \in Tasks, Member(t, f)
               PROVE  /\ status'[t] = "WAIT" /\ t \notin events' /\ leads[t] = None
                      /\ \E u \in Tasks : leads[u] # None /\ inflight[leads[u]] = f /\ run[u] = run[t]
    BY <1>1, <1>2 DEF FlightWaits
  <2>1. /\ status[t] = "WAIT" /\ leads[t] = None
        /\ \E u \in Tasks : leads[u] # None /\ inflight[leads[u]] = f /\ run[u] = run[t]
    BY DEF FlightWaits
  <2>2. run[t] # None
    BY <2>1 DEF Calls, LeaderRuns
  <2>3. QED
    BY <2>1, <2>2
<1>7. FlightOnce'
  BY <1>1, <1>2 DEF FlightOnce
<1>8. QED
  BY <1>3, <1>4, <1>5, <1>6, <1>7 DEF Calls

\* A task given to a message or a timer is in no flight.
LEMMA FlightScheduleStep == ASSUME FlightInv, FlightSchedule PROVE FlightInv'
<1> USE DEF FlightInv
<1>1. /\ status \in [Tasks -> Statuses] /\ leads \in [Tasks -> FlightKeys \cup {None}]
      /\ inflight \in [FlightKeys -> Flights \cup {None}] /\ None \notin Flights \cup FlightKeys \cup Values \cup {Nil}
  BY FlightAssumption DEF IInv, TypeOK, FlightTypes
<1>2. \A f \in Flights, t \in Tasks : Member(t, f) => status[t] = "WAIT" /\ t \notin events
  BY DEF FlightWaits
<1>3. \A t \in Tasks : run[t] = None => leads[t] = None /\ result[t] = None /\ status[t] # "READY"
  BY DEF Calls, LeaderRuns, ResultStates, ReadyStates
<1>4. ASSUME NEW t \in Tasks, status[t] = "WAIT", run[t] # None PROVE t \notin events
  <2>1. PICK u \in Tasks : leads[u] # None /\ Member(t, inflight[leads[u]])
    BY <1>4 DEF Calls, FollowerStates, LeaderRuns
  <2>2. leads[u] \in FlightKeys
    BY <1>1, <2>1
  <2>3. inflight[leads[u]] # None
    BY <2>2 DEF FlightsOwned
  <2>4. inflight[leads[u]] \in Flights
    BY <1>1, <2>2, <2>3
  <2>5. QED
    BY <1>2, <2>1, <2>4
<1>5. ASSUME NEW t \in Tasks, Message(t), UNCHANGED fvars PROVE FlightInv'
  <2>1. /\ IInv' /\ t \in events /\ events' = events \ {t}
        /\ status' = [status EXCEPT ![t] = "RUN"] /\ UNCHANGED <<ready, param, exited>>
    BY <1>5, MessageFacts
  <2>2. status[t] \in {"RUN", "WAIT"}
    BY <2>1 DEF IInv, Stacks, StackExact
  <2>3. status'[t] = status[t] \/ (run[t] = None /\ status'[t] # "READY")
    BY <1>1, <1>4, <2>1, <2>2
  <2>4. \A u \in Tasks : status'[u] = status[u] \/ (run[u] = None /\ status'[u] # "READY")
    BY <1>1, <2>1, <2>3
  <2>5. QED
    BY <1>2, <1>5, <2>1, <2>4, FlightFrame
<1>6. ASSUME NEW t \in Tasks, MessageTask(t), UNCHANGED fvars PROVE FlightInv'
  <2>1. /\ IInv' /\ status[t] = "none" /\ status' = [status EXCEPT ![t] = "RUN"]
        /\ UNCHANGED <<events, ready, param, exited>>
    BY <1>6, MessageTaskFacts
  <2>2. run[t] = None
    BY <2>1 DEF Calls, LeaderRuns, FollowerStates
  <2>3. \A u \in Tasks : status'[u] = status[u] \/ (run[u] = None /\ status'[u] # "READY")
    BY <1>1, <2>1, <2>2
  <2>4. QED
    BY <1>2, <1>6, <2>1, <2>3, FlightFrame
<1>7. CASE Sleep /\ UNCHANGED fvars
  <2>1. /\ IInv' /\ events' = events \cup {Current} /\ UNCHANGED <<status, ready, param, exited>>
        /\ status[Current] = "RUN"
    BY <1>7, SleepFacts, CurrentFacts
  <2>2. QED
    BY <1>2, <1>7, <2>1, FlightFrame
<1>8. CASE FlightUser /\ (Finish \/ Fail) /\ UNCHANGED fvars
  <2>1. /\ IInv' /\ status' = [status EXCEPT ![Current] = "none"] /\ UNCHANGED <<events, ready, param, exited>>
        /\ status[Current] = "RUN" /\ run[Current] = None
    BY <1>8, EndFacts, CurrentFacts DEF FlightUser
  <2>2. \A u \in Tasks : status'[u] = status[u] \/ (run[u] = None /\ status'[u] # "READY")
    BY <1>1, <2>1
  <2>3. QED
    BY <1>2, <1>8, <2>1, <2>2, FlightFrame
<1>9. ASSUME Dispatch, result' = [result EXCEPT ![Head(ready)] = param[Head(ready)]],
             UNCHANGED <<inflight, flight, cache, runs, leads, run>>
      PROVE  FlightInv'
  <2> DEFINE h == Head(ready)
  <2>1. /\ IInv' /\ h \in Tasks /\ status[h] = "READY"
        /\ status' = [status EXCEPT ![h] = "RUN"]
        /\ param' = [param EXCEPT ![h] = Nil]
        /\ UNCHANGED <<events, exited>>
    BY <1>9, DispatchFacts
  <2>2. result' = [result EXCEPT ![h] = param[h]]
    BY <1>9
  <2> HIDE DEF h
  <2>3. leads[h] = None /\ run[h] # None /\ param[h] = run[h]
    BY <2>1 DEF Calls, ReadyStates
  <2>4. /\ result \in [Tasks -> Values \cup {Nil, None}] /\ param \in [Tasks -> Values \cup {Nil}]
        /\ run \in [Tasks -> Values \cup {None}]
    BY DEF IInv, TypeOK, FlightTypes
  <2>5. \A f, t : Member(t, f)' <=> Member(t, f)
    BY <1>9 DEF Member
  <2>6. FlightTypes' /\ FlightsOwned' /\ OneExecution'
    <3>1. result' \in [Tasks -> Values \cup {Nil, None}]
      BY <2>1, <2>2, <2>4
    <3>2. QED
      BY <1>9, <3>1 DEF FlightTypes, FlightsOwned, OneExecution
  <2>7. LeaderRuns' /\ ReadyStates' /\ ResultStates'
    BY <1>1, <1>9, <2>1, <2>2, <2>3, <2>4 DEF Calls, LeaderRuns, ReadyStates, ResultStates
  <2>8. FollowerStates'
    <3> SUFFICES ASSUME NEW t \in Tasks, run[t] # None, leads[t] = None
                 PROVE  \/ /\ status'[t] = "WAIT"
                           /\ \E u \in Tasks : leads[u] # None /\ run[u] = run[t] /\ Member(t, inflight[leads[u]])
                        \/ status'[t] = "READY"
                        \/ status'[t] = "RUN" /\ result'[t] = run[t]
      BY <1>9, <2>5 DEF FollowerStates
    <3>1. CASE t = h
      BY <1>1, <2>1, <2>2, <2>3, <2>4, <3>1
    <3>2. CASE t # h
      <4>1. status'[t] = status[t] /\ result'[t] = result[t]
        BY <1>1, <2>1, <2>2, <2>4, <3>2
      <4>2. QED
        BY <4>1 DEF Calls, FollowerStates
    <3>3. QED
      BY <3>1, <3>2
  <2>9. FlightWaits'
    <3> SUFFICES ASSUME NEW f \in Flights, NEW t \in Tasks, Member(t, f)
                 PROVE  /\ status'[t] = "WAIT" /\ t \notin events /\ leads[t] = None
                        /\ \E u \in Tasks : leads[u] # None /\ inflight[leads[u]] = f /\ run[u] = run[t]
      BY <1>9, <2>1, <2>5 DEF FlightWaits
    <3>1. status'[t] = status[t]
      BY <1>1, <1>2, <2>1
    <3>2. QED
      BY <3>1 DEF FlightWaits
  <2>10. FlightOnce'
    BY <1>9, <2>5 DEF FlightOnce
  <2>11. QED
    BY <2>1, <2>6, <2>7, <2>8, <2>9, <2>10 DEF Calls
<1>10. QED
  BY <1>5, <1>6, <1>7, <1>8, <1>9 DEF FlightSchedule

\* What is common to the steps of a task inside call().
LEMMA FlightFacts ==
  ASSUME FlightInv
  PROVE  /\ inflight \in [FlightKeys -> Flights \cup {None}] /\ leads \in [Tasks -> FlightKeys \cup {None}]
         /\ run \in [Tasks -> Values \cup {None}] /\ result \in [Tasks -> Values \cup {Nil, None}]
         /\ flight \in [Flights -> Seq(Tasks)] /\ cache \subseteq Flights
         /\ status \in [Tasks -> Statuses] /\ None \notin Flights \cup FlightKeys \cup Values \cup {Nil}
         /\ \A t \in Tasks : leads[t] # None =>
              /\ leads[t] \in FlightKeys /\ inflight[leads[t]] \in Flights
              /\ run[t] # None /\ status[t] = "RUN" /\ result[t] = None
         /\ \A t \in Tasks : result[t] # None => leads[t] = None
         /\ \A t \in Tasks : run[t] = None => leads[t] = None /\ result[t] = None
         /\ \A f \in Flights, t \in Tasks : Member(t, f) => status[t] = "WAIT"
<1> USE DEF FlightInv
<1>1. /\ inflight \in [FlightKeys -> Flights \cup {None}] /\ leads \in [Tasks -> FlightKeys \cup {None}]
      /\ run \in [Tasks -> Values \cup {None}] /\ result \in [Tasks -> Values \cup {Nil, None}]
      /\ flight \in [Flights -> Seq(Tasks)] /\ cache \subseteq Flights
      /\ status \in [Tasks -> Statuses] /\ None \notin Flights \cup FlightKeys \cup Values \cup {Nil}
  BY FlightAssumption DEF IInv, TypeOK, FlightTypes
<1>2. ASSUME NEW t \in Tasks, leads[t] # None PROVE leads[t] \in FlightKeys /\ inflight[leads[t]] \in Flights
  <2>1. leads[t] \in FlightKeys
    BY <1>1, <1>2
  <2>2. inflight[leads[t]] # None
    BY <2>1 DEF FlightsOwned
  <2>3. QED
    BY <1>1, <2>1, <2>2
<1>3. \A t \in Tasks : leads[t] # None => run[t] # None /\ status[t] = "RUN" /\ result[t] = None
  BY DEF Calls, LeaderRuns
<1>4. \A t \in Tasks : result[t] # None => run[t] # None /\ leads[t] = None
  BY DEF Calls, ResultStates
<1>5. \A f \in Flights, t \in Tasks : Member(t, f) => status[t] = "WAIT"
  BY DEF FlightWaits
<1>6. QED
  BY <1>1, <1>2, <1>3, <1>4, <1>5

\* A new execution takes an empty flight that no key has.
LEMMA LeadStep == ASSUME FlightInv, NEW k \in FlightKeys, NEW r \in Values, Lead(k, r) PROVE FlightInv'
<1> USE DEF FlightInv
<1> DEFINE c == Current
<1>1. /\ ~InMain /\ run[c] = None /\ inflight[k] = None
      /\ leads' = [leads EXCEPT ![c] = k] /\ run' = [run EXCEPT ![c] = r]
      /\ UNCHANGED <<tvars, flight, result>>
  BY DEF Lead, FlightUser, Busy
<1>2. PICK f \in cache : cache' = cache \ {f} /\ inflight' = [inflight EXCEPT ![k] = f]
  BY DEF Lead
<1>3. c \in Tasks /\ status[c] = "RUN" /\ IInv' /\ UNCHANGED <<status, events, param>>
  BY <1>1, CurrentFacts, IInvFrame DEF tvars
<1> HIDE DEF c
<1>4. /\ inflight \in [FlightKeys -> Flights \cup {None}] /\ leads \in [Tasks -> FlightKeys \cup {None}]
      /\ run \in [Tasks -> Values \cup {None}] /\ cache \subseteq Flights
      /\ None \notin Flights \cup FlightKeys \cup Values \cup {Nil} /\ f \in Flights
      /\ leads[c] = None /\ result[c] = None
      /\ \A t \in Tasks : leads[t] # None => leads[t] \in FlightKeys
      /\ \A g \in Flights, t \in Tasks : Member(t, g) => status[t] = "WAIT"
  BY <1>1, <1>3, FlightFacts
<1>5. \A g, t : Member(t, g)' <=> Member(t, g)
  BY <1>1 DEF Member
<1>6. /\ \A t \in Tasks : t # c => leads'[t] = leads[t] /\ run'[t] = run[t]
      /\ leads'[c] = k /\ run'[c] = r /\ r # None /\ k # None
      /\ \A j \in FlightKeys : j # k => inflight'[j] = inflight[j]
      /\ inflight'[k] = f /\ f # None
  BY <1>1, <1>2, <1>3, <1>4
<1>7. \A t \in Tasks : leads[t] # k
  BY <1>1 DEF FlightsOwned
<1>8. FlightTypes'
  BY <1>1, <1>2, <1>3, <1>4 DEF FlightTypes
<1>9. FlightsOwned'
  <2>1. \A j \in FlightKeys : inflight'[j] # None <=> \E t \in Tasks : leads'[t] = j
    <3> SUFFICES ASSUME NEW j \in FlightKeys PROVE inflight'[j] # None <=> \E t \in Tasks : leads'[t] = j
      OBVIOUS
    <3>1. CASE j = k
      BY <1>3, <1>6, <3>1
    <3>2. CASE j # k
      <4>1. inflight[j] # None <=> \E t \in Tasks : leads[t] = j
        BY DEF FlightsOwned
      <4>2. \A t \in Tasks : leads'[t] = j <=> leads[t] = j
        BY <1>4, <1>6, <3>2
      <4>3. QED
        BY <1>6, <3>2, <4>1, <4>2
    <3>3. QED
      BY <3>1, <3>2
  <2>2. \A j \in FlightKeys : inflight[j] # f
    BY <1>2 DEF FlightsOwned
  <2>3. \A i, j \in FlightKeys : inflight'[i] = inflight'[j] /\ inflight'[i] # None => i = j
    BY <1>6, <2>2 DEF FlightsOwned
  <2>4. \A g \in cache' : flight'[g] = <<>> /\ \A j \in FlightKeys : inflight'[j] # g
    BY <1>1, <1>2, <1>6 DEF FlightsOwned
  <2>5. QED
    BY <2>1, <2>3, <2>4 DEF FlightsOwned
<1>10. OneExecution'
  BY <1>4, <1>6, <1>7 DEF OneExecution
<1>11. LeaderRuns' /\ ReadyStates' /\ ResultStates'
  BY <1>1, <1>3, <1>4, <1>6 DEF Calls, LeaderRuns, ReadyStates, ResultStates
<1>12. \A t \in Tasks : leads[t] # None => /\ t # c /\ leads'[t] = leads[t] /\ run'[t] = run[t]
                                           /\ inflight'[leads[t]] = inflight[leads[t]]
  BY <1>4, <1>6, <1>7
<1>13. FollowerStates'
  <2> SUFFICES ASSUME NEW t \in Tasks, run'[t] # None, leads'[t] = None
               PROVE  \/ /\ status[t] = "WAIT"
                         /\ \E u \in Tasks : leads'[u] # None /\ run'[u] = run'[t] /\ Member(t, inflight'[leads'[u]])
                      \/ status[t] = "READY"
                      \/ status[t] = "RUN" /\ result[t] = run'[t]
    BY <1>1, <1>3, <1>5 DEF FollowerStates
  <2>1. t # c
    BY <1>6
  <2>2. run'[t] = run[t] /\ leads'[t] = leads[t]
    BY <1>6, <2>1
  <2>3. \/ /\ status[t] = "WAIT"
           /\ \E u \in Tasks : leads[u] # None /\ run[u] = run[t] /\ Member(t, inflight[leads[u]])
        \/ status[t] = "READY"
        \/ status[t] = "RUN" /\ result[t] = run[t]
    BY <2>2 DEF Calls, FollowerStates
  <2>4. QED
    BY <1>12, <2>2, <2>3
<1>14. FlightWaits'
  <2> SUFFICES ASSUME NEW g \in Flights, NEW t \in Tasks, Member(t, g)
               PROVE  /\ status[t] = "WAIT" /\ t \notin events /\ leads'[t] = None
                      /\ \E u \in Tasks : leads'[u] # None /\ inflight'[leads'[u]] = g /\ run'[u] = run'[t]
    BY <1>3, <1>5 DEF FlightWaits
  <2>1. /\ status[t] = "WAIT" /\ t \notin events /\ leads[t] = None
        /\ \E u \in Tasks : leads[u] # None /\ inflight[leads[u]] = g /\ run[u] = run[t]
    BY DEF FlightWaits
  <2>2. t # c
    BY <1>3, <2>1
  <2>3. leads'[t] = leads[t] /\ run'[t] = run[t]
    BY <1>6, <2>2
  <2>4. QED
    BY <1>12, <2>1, <2>3
<1>15. FlightOnce'
  BY <1>1, <1>5 DEF FlightOnce
<1>16. QED
  BY <1>3, <1>8, <1>9, <1>10, <1>11, <1>13, <1>14, <1>15 DEF Calls

\* A follower returns the result it was woken with: it was in no flight any more.
LEMMA JoinReturnsStep == ASSUME FlightInv, JoinReturns PROVE FlightInv'
<1> USE DEF FlightInv
<1> DEFINE c == Current
<1>1. /\ ~InMain /\ result[c] # None
      /\ result' = [result EXCEPT ![c] = None] /\ run' = [run EXCEPT ![c] = None]
      /\ UNCHANGED <<tvars, inflight, flight, cache, leads>>
  BY DEF JoinReturns
<1>2. c \in Tasks /\ status[c] = "RUN" /\ IInv' /\ UNCHANGED <<status, events, param>>
  BY <1>1, CurrentFacts, IInvFrame DEF tvars
<1> HIDE DEF c
<1>3. /\ run \in [Tasks -> Values \cup {None}] /\ result \in [Tasks -> Values \cup {Nil, None}]
      /\ leads[c] = None
  BY <1>1, <1>2, FlightFacts
<1>4. \A g, t : Member(t, g)' <=> Member(t, g)
  BY <1>1 DEF Member
<1>5. /\ \A t \in Tasks : t # c => result'[t] = result[t] /\ run'[t] = run[t]
      /\ result'[c] = None /\ run'[c] = None
  BY <1>1, <1>2, <1>3
<1>6. FlightTypes' /\ FlightsOwned' /\ OneExecution'
  BY <1>1, <1>3 DEF FlightTypes, FlightsOwned, OneExecution
<1>7. LeaderRuns' /\ ReadyStates' /\ ResultStates'
  BY <1>1, <1>2, <1>3, <1>5 DEF Calls, LeaderRuns, ReadyStates, ResultStates
<1>8. \A t \in Tasks : leads[t] # None => run'[t] = run[t]
  BY <1>3, <1>5
<1>9. FollowerStates'
  <2> SUFFICES ASSUME NEW t \in Tasks, run'[t] # None, leads[t] = None
               PROVE  \/ /\ status[t] = "WAIT"
                         /\ \E u \in Tasks : leads[u] # None /\ run'[u] = run'[t] /\ Member(t, inflight[leads[u]])
                      \/ status[t] = "READY"
                      \/ status[t] = "RUN" /\ result'[t] = run'[t]
    BY <1>1, <1>2, <1>4 DEF FollowerStates
  <2>1. run'[t] = run[t] /\ result'[t] = result[t]
    BY <1>5
  <2>2. QED
    BY <1>8, <2>1 DEF Calls, FollowerStates
<1>10. FlightWaits'
  <2> SUFFICES ASSUME NEW g \in Flights, NEW t \in Tasks, Member(t, g)
               PROVE  /\ status[t] = "WAIT" /\ t \notin events /\ leads[t] = None
                      /\ \E u \in Tasks : leads[u] # None /\ inflight[leads[u]] = g /\ run'[u] = run'[t]
    BY <1>1, <1>2, <1>4 DEF FlightWaits
  <2>1. /\ status[t] = "WAIT" /\ t \notin events /\ leads[t] = None
        /\ \E u \in Tasks : leads[u] # None /\ inflight[leads[u]] = g /\ run[u] = run[t]
    BY DEF FlightWaits
  <2>2. run'[t] = run[t]
    BY <1>2, <1>5, <2>1
  <2>3. QED
    BY <1>8, <2>1, <2>2
<1>11. FlightOnce'
  BY <1>1, <1>4 DEF FlightOnce
<1>12. QED
  BY <1>2, <1>6, <1>7, <1>9, <1>10, <1>11 DEF Calls

\* A task that joins is appended to the flight of the key's leader.
LEMMA JoinStep == ASSUME FlightInv, NEW k \in FlightKeys, Join(k) PROVE FlightInv'
<1> USE DEF FlightInv
<1>1. PICK c \in Tasks : c = Current
  BY CurrentFacts DEF Join, FlightUser
<1>2. PICK f \in Flights : f = inflight[k]
  BY FlightFacts DEF Join, Busy
<1>3. PICK l \in Tasks : l = Leader(k) /\ leads[l] = k
  BY DEF Join, Busy, FlightsOwned, Leader
<1>4. /\ ~InMain /\ run[c] = None /\ f # None /\ Wait
      /\ flight' = [flight EXCEPT ![f] = Append(flight[f], c)]
      /\ run' = [run EXCEPT ![c] = run[l]]
      /\ UNCHANGED <<inflight, cache, leads, result>>
  BY <1>1, <1>2, <1>3 DEF Join, FlightUser, Busy
<1>5. c \in Tasks /\ status[c] = "RUN" /\ c \notin events
      /\ IInv' /\ status' = [status EXCEPT ![c] = "WAIT"] /\ UNCHANGED <<events, param>>
  BY <1>1, <1>4, CurrentFacts, WaitFacts
<1>6. inflight[leads[l]] = f
  BY <1>2, <1>3
<1>7. /\ inflight \in [FlightKeys -> Flights \cup {None}] /\ leads \in [Tasks -> FlightKeys \cup {None}]
      /\ run \in [Tasks -> Values \cup {None}] /\ cache \subseteq Flights
      /\ flight \in [Flights -> Seq(Tasks)] /\ status \in [Tasks -> Statuses]
      /\ None \notin Flights \cup FlightKeys \cup Values \cup {Nil}
      /\ leads[c] = None /\ result[c] = None /\ leads[l] # None
      /\ \A g \in Flights, t \in Tasks : Member(t, g) => status[t] = "WAIT"
  BY <1>4, <1>5, <1>3, FlightFacts
<1>8. f \in Flights /\ l # c /\ run[l] # None
  BY <1>3, <1>6, <1>7, FlightFacts
<1>9. /\ \A t \in Tasks : t # c => run'[t] = run[t] /\ status'[t] = status[t]
      /\ run'[c] = run[l] /\ status'[c] = "WAIT"
  BY <1>4, <1>5, <1>7
<1> DEFINE s == flight[f]
           a == Append(s, c)
<1>10. /\ s \in Seq(Tasks) /\ a \in Seq(Tasks) /\ Len(s) \in Nat /\ Len(a) = Len(s) + 1
       /\ \A i \in 1..Len(s) : a[i] = s[i]
       /\ a[Len(s) + 1] = c /\ DOMAIN a = 1..Len(s) + 1 /\ DOMAIN s = 1..Len(s)
  BY <1>5, <1>7, <1>8
<1>11. flight'[f] = a /\ \A g \in Flights : g # f => flight'[g] = flight[g]
  BY <1>4, <1>7, <1>8
<1>12. flight' \in [Flights -> Seq(Tasks)]
  BY <1>4, <1>7, <1>10
<1>13. \A g \in Flights : ~Member(c, g)
  BY <1>5, <1>7
<1>14. \A i \in 1..Len(s) : s[i] # c
  BY <1>8, <1>13 DEF Member
<1> HIDE DEF a
<1>15. \A g \in Flights, t \in Tasks : Member(t, g)' <=> Member(t, g) \/ (g = f /\ t = c)
  <2> SUFFICES ASSUME NEW g \in Flights, NEW t \in Tasks
               PROVE  Member(t, g)' <=> Member(t, g) \/ (g = f /\ t = c)
    OBVIOUS
  <2>1. CASE g # f
    BY <1>11, <2>1 DEF Member
  <2>2. CASE g = f
    <3>1. Member(t, g)' <=> \E i \in 1..Len(s) + 1 : a[i] = t
      BY <1>10, <1>11, <2>2 DEF Member
    <3>2. (\E i \in 1..Len(s) + 1 : a[i] = t) <=> (\E i \in 1..Len(s) : s[i] = t) \/ t = c
      BY <1>10
    <3>3. QED
      BY <2>2, <3>1, <3>2 DEF Member
  <2>3. QED
    BY <2>1, <2>2
<1>16. FlightTypes'
  BY <1>4, <1>5, <1>3, <1>7, <1>12 DEF FlightTypes
<1>17. FlightsOwned' /\ OneExecution'
  <2>1. f \notin cache
    BY <1>2 DEF FlightsOwned
  <2>2. \A g \in cache : flight'[g] = <<>> /\ \A j \in FlightKeys : inflight[j] # g
    BY <1>7, <1>11, <2>1 DEF FlightsOwned
  <2>3. QED
    BY <1>4, <2>2 DEF FlightsOwned, OneExecution
<1>18. LeaderRuns' /\ ReadyStates' /\ ResultStates'
  BY <1>4, <1>5, <1>7, <1>9 DEF Calls, LeaderRuns, ReadyStates, ResultStates
<1>19. \A t \in Tasks : leads[t] # None => run'[t] = run[t] /\ leads[t] \in FlightKeys /\ inflight[leads[t]] \in Flights
  BY <1>7, <1>9, FlightFacts
<1>20. FollowerStates'
  <2> SUFFICES ASSUME NEW t \in Tasks, run'[t] # None, leads[t] = None
               PROVE  \/ /\ status'[t] = "WAIT"
                         /\ \E u \in Tasks : leads[u] # None /\ run'[u] = run'[t]
                              /\ \E g \in Flights : g = inflight[leads[u]] /\ Member(t, g)'
                      \/ status'[t] = "READY"
                      \/ status'[t] = "RUN" /\ result[t] = run'[t]
    BY <1>4 DEF FollowerStates, Member
  <2>1. CASE t = c
    <3>1. Member(c, f)'
      BY <1>5, <1>8, <1>15
    <3>2. QED
      BY <1>3, <1>6, <1>7, <1>8, <1>9, <2>1, <3>1
  <2>2. CASE t # c
    <3>1. run'[t] = run[t] /\ status'[t] = status[t]
      BY <1>9, <2>2
    <3>2. ASSUME NEW u \in Tasks, leads[u] # None, run[u] = run[t], Member(t, inflight[leads[u]])
          PROVE  run'[u] = run'[t] /\ \E g \in Flights : g = inflight[leads[u]] /\ Member(t, g)'
      <4>1. PICK g \in Flights : g = inflight[leads[u]]
        BY <1>19, <3>2
      <4>2. Member(t, g)'
        BY <1>15, <3>2, <4>1
      <4>3. QED
        BY <1>19, <3>1, <3>2, <4>1, <4>2
    <3>3. QED
      BY <3>1, <3>2 DEF Calls, FollowerStates
  <2>3. QED
    BY <2>1, <2>2
<1>21. FlightWaits'
  <2> SUFFICES ASSUME NEW g \in Flights, NEW t \in Tasks, Member(t, g)'
               PROVE  /\ status'[t] = "WAIT" /\ t \notin events /\ leads[t] = None
                      /\ \E u \in Tasks : leads[u] # None /\ inflight[leads[u]] = g /\ run'[u] = run'[t]
    BY <1>4, <1>5 DEF FlightWaits
  <2>1. CASE Member(t, g)
    <3>1. /\ status[t] = "WAIT" /\ t \notin events /\ leads[t] = None
          /\ \E u \in Tasks : leads[u] # None /\ inflight[leads[u]] = g /\ run[u] = run[t]
      BY <2>1 DEF FlightWaits
    <3>2. t # c
      BY <1>13, <2>1
    <3>3. QED
      BY <1>9, <1>19, <3>1, <3>2
  <2>2. CASE g = f /\ t = c
    BY <1>5, <1>3, <1>6, <1>7, <1>8, <1>9, <2>2
  <2>3. QED
    BY <1>15, <2>1, <2>2
<1>22. FlightOnce'
  <2>1. \A g, h \in Flights, t \in Tasks : Member(t, g)' /\ Member(t, h)' => g = h
    BY <1>5, <1>13, <1>15 DEF FlightOnce
  <2>2. IsInjective(s)
    BY <1>8 DEF FlightOnce
  <2>3. IsInjective(a)
    <3> SUFFICES ASSUME NEW i \in 1..Len(s) + 1, NEW j \in 1..Len(s) + 1, a[i] = a[j] PROVE i = j
      BY <1>10 DEF IsInjective
    <3>1. CASE i \in 1..Len(s) /\ j \in 1..Len(s)
      BY <1>10, <2>2, <3>1 DEF IsInjective
    <3>2. CASE i = Len(s) + 1 \/ j = Len(s) + 1
      BY <1>10, <1>14, <3>2
    <3>3. QED
      BY <1>10, <3>1, <3>2
  <2>4. \A g \in Flights : IsInjective(flight'[g])
    BY <1>11, <2>3 DEF FlightOnce
  <2>5. QED
    BY <2>1, <2>4 DEF FlightOnce
<1>23. QED
  BY <1>5, <1>16, <1>17, <1>18, <1>20, <1>21, <1>22 DEF Calls
=============================================================================
