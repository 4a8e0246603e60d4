--------------------------- MODULE SingleFlight ----------------------------
(***************************************************************************)
(* silly.sync.singleflight: concurrent calls with the same key share one   *)
(* execution of the function.  The tasks that join an execution are kept   *)
(* in a flight, which is recycled through a weak cache.                    *)
(***************************************************************************)
EXTENDS Task

CONSTANTS FlightKeys, Flights

ASSUME FlightAssumption == None \notin Flights \cup FlightKeys \cup Values \cup {Nil}

VARIABLES inflight, \* key -> flight
          flight,   \* flight -> tasks that joined
          cache,    \* a new flight is as one from the cache
          runs,     \* history: executions begun; their numbers are the results
          leads,    \* task -> key it executes the function for
          run,      \* history: task -> execution it leads or has joined
          result    \* task -> what its wait() returned, None outside

fvars == <<inflight, flight, cache, runs, leads, run, result>>
flightvars == <<tvars, fvars>>

FlightInit ==
  /\ TaskInit
  /\ inflight = [k \in FlightKeys |-> None]
  /\ flight = [f \in Flights |-> <<>>] /\ cache = Flights
  /\ runs = {}
  /\ leads = [t \in Tasks |-> None]
  /\ run = [t \in Tasks |-> None] /\ result = [t \in Tasks |-> None]

\* The task is neither in call() as a follower nor inside the function.
FlightUser == ~InMain /\ run[Current] = None

Busy(k) == inflight[k] # None

\* call() that executes the function; Values are the results of executions.
Lead(k, r) ==
  /\ FlightUser /\ ~Busy(k) /\ r \in Values \ runs
  /\ \E f \in cache :
       /\ cache' = cache \ {f}
       /\ inflight' = [inflight EXCEPT ![k] = f]
  /\ runs' = runs \cup {r}
  /\ leads' = [leads EXCEPT ![Current] = k] /\ run' = [run EXCEPT ![Current] = r]
  /\ UNCHANGED <<tvars, flight, result>>

\* (fault) only the task that joined first is woken
Followers_First(f) == IF flight[f] = <<>> THEN <<>> ELSE <<Head(flight[f])>>
Followers(f) == flight[f]

Emptied(f) == [flight EXCEPT ![f] = <<>>]

Shared == run[Current]

\* The function has returned or raised: its result is for all who joined.
LeadDone ==
  /\ ~InMain /\ leads[Current] # None
  /\ LET k == leads[Current]  f == inflight[k]  ts == Range(Followers(f)) IN
       /\ inflight' = [inflight EXCEPT ![k] = None]
       /\ status' = [t \in Tasks |-> IF t \in ts THEN "READY" ELSE status[t]]
       /\ param' = [t \in Tasks |-> IF t \in ts THEN Shared ELSE param[t]]
       /\ ready' = ready \o Followers(f)
       /\ flight' = Emptied(f)
       /\ cache' = cache \cup {f}
  /\ leads' = [leads EXCEPT ![Current] = None] /\ run' = [run EXCEPT ![Current] = None]
  /\ UNCHANGED <<traceid, running, saved, trace, copool, events, exited, runs, result>>

\* The execution call() joins: for the history only.
Leader(k) == CHOOSE t \in Tasks : leads[t] = k

\* call() that joins an execution
Join(k) ==
  /\ FlightUser /\ Busy(k)
  /\ flight' = [flight EXCEPT ![inflight[k]] = Append(@, Current)]
  /\ run' = [run EXCEPT ![Current] = run[Leader(k)]]
  /\ Wait
  /\ UNCHANGED <<inflight, cache, runs, leads, result>>

JoinReturns ==
  /\ ~InMain /\ result[Current] # None
  /\ result' = [result EXCEPT ![Current] = None]
  /\ run' = [run EXCEPT ![Current] = None]
  /\ UNCHANGED <<tvars, inflight, flight, cache, runs, leads>>

\* The scheduler: the function may yield.
FlightSchedule ==
  \/ /\ Dispatch
     /\ result' = [result EXCEPT ![Head(ready)] = param[Head(ready)]]
     /\ UNCHANGED <<inflight, flight, cache, runs, leads, run>>
  \/ /\ \/ \E t \in Tasks : Message(t) \/ MessageTask(t)
        \/ ~InMain /\ result[Current] = None /\ Sleep
        \/ FlightUser /\ (Finish \/ Fail)
     /\ UNCHANGED fvars

FlightNext ==
  \/ \E k \in FlightKeys, r \in Values : Lead(k, r)
  \/ LeadDone
  \/ \E k \in FlightKeys : Join(k)
  \/ JoinReturns
  \/ FlightSchedule

FlightSpec == FlightInit /\ [][FlightNext]_flightvars

-----------------------------------------------------------------------------
\* The function is executed once at a time for a key.
OneExecution == \A t, u \in Tasks : leads[t] = leads[u] /\ leads[t] # None => t = u

\* A call returns the result of the execution that was under way when it joined,
\* not of a later one for the key nor of one for another key.
ResultIsJoined == \A t \in Tasks : result[t] # None => result[t] = run[t]

\* A task that joined is in the flight of an execution that has not returned, so
\* the end of that execution wakes it.
FollowerFound == \A t \in Tasks : leads[t] = None /\ run[t] # None /\ status[t] = "WAIT" =>
  \E u \in Tasks : leads[u] # None /\ run[u] = run[t] /\ t \in Range(flight[inflight[leads[u]]])

\* One execution at a time for a key, whose end wakes every task that joined it; and
\* a call returns the result of the execution it joined (M:call of singleflight.lua).
FlightExact == OneExecution /\ ResultIsJoined /\ FollowerFound
=============================================================================
