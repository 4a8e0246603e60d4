-------------------------------- MODULE Etcd --------------------------------
(***************************************************************************)
(* The watches of etcd.lua: a task that writes the requests of all         *)
(* watchers to one stream and opens a new one when it fails, a task per    *)
(* stream that reads the responses, and the server, whose events all match *)
(* the key that is watched.  A stream may break at any time; what is       *)
(* written to it until the client notices is lost.                         *)
(***************************************************************************)
EXTENDS Integers, Sequences, FiniteSets, SequencesExt
CONSTANTS MaxWatchers, MaxStreams, MaxRevision,
          Revisions   \* start_revision of a watch: 0 is none given

VARIABLES revision,    \* the server's
          watchers, watchreqc, shut,
          wstreams,    \* every stream opened: [up, reading, resp, next], next[w] the revision due
          watchstream,
          reqtask        \* watch_request_task: [pc, req, stream, tosend]

watchvars == <<revision, watchers, watchreqc, shut, wstreams, watchstream, reqtask>>

Watchers == 1..MaxWatchers
EOS == <<"eos", 0>>

Init == /\ revision = 1 /\ shut = FALSE
        /\ watchers = <<>> /\ watchreqc = <<>>
        /\ wstreams = <<>> /\ watchstream = 0
        /\ reqtask = [pc |-> "none", req |-> EOS, stream |-> 0, tosend |-> <<>>]

(* channel.push: refused once the channel is closed. *)
Pushed(r) == IF shut THEN watchreqc ELSE Append(watchreqc, r)

(* M.watch; the server starts at start_revision, or with the next event. *)
watch(start) ==
  /\ Len(watchers) < MaxWatchers
  /\ watchers' = Append(watchers, [known |-> TRUE, canceling |-> FALSE, asked |-> start,
                                   start |-> start, outch |-> <<>>, ended |-> FALSE])
  /\ watchreqc' = Pushed(<<"create", Len(watchers) + 1>>)
  /\ reqtask' = IF reqtask.pc = "none" THEN [reqtask EXCEPT !.pc = "pop"] ELSE reqtask
  /\ UNCHANGED <<revision, shut, wstreams, watchstream>>

(* watcher.cancel *)
cancel(w) ==
  /\ ~watchers[w].canceling
  /\ watchers' = [watchers EXCEPT ![w].canceling = TRUE]
  /\ watchreqc' = Pushed(<<"cancel", w>>)
  /\ UNCHANGED <<revision, shut, wstreams, watchstream, reqtask>>

(* M.close: every stream of the connection ends, and the channels are closed. *)
close ==
  /\ ~shut /\ shut' = TRUE
  /\ wstreams' = [s \in DOMAIN wstreams |-> [wstreams[s] EXCEPT !.up = FALSE]]
  /\ watchers' = [w \in DOMAIN watchers |-> [watchers[w] EXCEPT !.ended = @ \/ watchers[w].known]]
  /\ UNCHANGED <<revision, watchreqc, watchstream, reqtask>>
-----------------------------------------------------------------------------
(* watch_request_task.  A write that reaches the server is handled there; one to a stream that
   broke is lost, until the reader of the stream, which is woken first, has seen the end. *)
Handled(s, r) ==
  LET t == wstreams[s]
      id == r[2]
      start == IF watchers[id].start = 0 THEN revision + 1 ELSE watchers[id].start
  IN wstreams' = IF ~t.up THEN wstreams
     ELSE IF r[1] = "create" /\ t.next[id] = 0
     THEN [wstreams EXCEPT ![s].next[id] = start, ![s].resp = Append(@, <<"created", id, 0>>)]
     ELSE IF r[1] = "create" \/ t.next[id] # 0
     THEN [wstreams EXCEPT ![s].next[id] = 0, ![s].resp = Append(@, <<"canceled", id, 0>>)]
     ELSE wstreams

Fails(s) == ~wstreams[s].reading
Drop == /\ wstreams' = [wstreams EXCEPT ![reqtask.stream].up = FALSE]
        /\ reqtask' = [reqtask EXCEPT !.stream = 0, !.pc = "run", !.tosend = <<>>]

Pop ==
  /\ reqtask.pc = "pop" /\ (watchreqc # <<>> \/ shut)
  /\ IF watchreqc = <<>> THEN reqtask' = [reqtask EXCEPT !.pc = "end"] /\ UNCHANGED watchreqc
     ELSE reqtask' = [reqtask EXCEPT !.pc = "run", !.req = watchreqc[1]] /\ watchreqc' = Tail(watchreqc)
  /\ UNCHANGED <<revision, watchers, shut, wstreams, watchstream>>

Running == reqtask.pc = "run" /\ ~shut

WriteRequest ==
  /\ Running /\ reqtask.stream # 0 /\ reqtask.req # EOS
  /\ IF Fails(reqtask.stream) THEN Drop
     ELSE Handled(reqtask.stream, reqtask.req) /\ reqtask' = [reqtask EXCEPT !.pc = "pop"]
  /\ UNCHANGED <<revision, watchers, watchreqc, shut, watchstream>>

EndOfStream ==
  /\ Running /\ reqtask.stream # 0 /\ reqtask.req = EOS /\ Drop
  /\ UNCHANGED <<revision, watchers, watchreqc, shut, watchstream>>

(* Watch() may take long; attempts that fail, and the sleep after each, leave the state alone. *)
Connect ==
  /\ Running /\ reqtask.stream = 0 /\ reqtask' = [reqtask EXCEPT !.pc = "opening"]
  /\ UNCHANGED <<revision, watchers, watchreqc, shut, wstreams, watchstream>>

TaskEnds ==
  /\ reqtask.pc \in {"run", "opening"} /\ shut /\ reqtask' = [reqtask EXCEPT !.pc = "end"]
  /\ UNCHANGED <<revision, watchers, watchreqc, shut, wstreams, watchstream>>

(* The stream is open: its reader is forked, the queue cleared, and every watcher sent again from
   where it is, except those that are being cancelled. *)
Opened ==
  /\ reqtask.pc = "opening" /\ Len(wstreams) < MaxStreams
  /\ LET live == {w \in DOMAIN watchers : watchers[w].known /\ ~watchers[w].canceling}
     IN /\ watchers' = [w \in DOMAIN watchers |->
                          IF watchers[w].canceling THEN [watchers[w] EXCEPT !.known = FALSE, !.ended = TRUE]
                          ELSE watchers[w]]
        /\ reqtask' = [reqtask EXCEPT !.pc = "send", !.stream = Len(wstreams) + 1, !.tosend = SetToSeq(live)]
  /\ wstreams' = Append(wstreams, [up |-> TRUE, reading |-> TRUE, resp |-> <<>>,
                                   next |-> [w \in Watchers |-> 0]])
  /\ watchstream' = Len(wstreams) + 1 /\ watchreqc' = <<>>
  /\ UNCHANGED <<revision, shut>>

SendAgain ==
  /\ reqtask.pc = "send"
  /\ IF reqtask.tosend = <<>> THEN reqtask' = [reqtask EXCEPT !.pc = "pop"] /\ UNCHANGED wstreams
     ELSE IF Fails(reqtask.stream) THEN Drop
     ELSE /\ Handled(reqtask.stream, <<"create", reqtask.tosend[1]>>)
          /\ reqtask' = [reqtask EXCEPT !.tosend = Tail(@)]
  /\ UNCHANGED <<revision, watchers, watchreqc, shut, watchstream>>
-----------------------------------------------------------------------------

(* The revision to resume from. *)
StartAfter(rev) == rev + 1

(* watch_recv_task: a response, or the end of the stream. *)
Receive(s) ==
  LET r == wstreams[s].resp[1]
      w == r[2]
      mine == s = watchstream
  IN /\ wstreams[s].reading /\ wstreams[s].resp # <<>>
     /\ wstreams' = [wstreams EXCEPT ![s].resp = Tail(@), ![s].reading = mine]
     /\ watchers' = IF ~mine \/ r[1] = "created" THEN watchers
                    ELSE IF r[1] = "canceled" THEN [watchers EXCEPT ![w].known = FALSE, ![w].ended = TRUE]
                    ELSE [watchers EXCEPT ![w].start = StartAfter(r[3]),
                                          ![w].outch = IF watchers[w].ended THEN @ ELSE Append(@, r[3])]
     /\ watchreqc' = IF mine THEN watchreqc ELSE Pushed(EOS)
     /\ UNCHANGED <<revision, shut, watchstream, reqtask>>

ReadEnds(s) ==
  /\ wstreams[s].reading /\ ~wstreams[s].up
  /\ wstreams' = [wstreams EXCEPT ![s].reading = FALSE, ![s].resp = <<>>]
  /\ watchreqc' = Pushed(EOS)
  /\ UNCHANGED <<revision, watchers, shut, watchstream, reqtask>>

(* The server: a change of the key, and an event for a watch; the network. *)
Event ==
  /\ revision < MaxRevision /\ revision' = revision + 1
  /\ UNCHANGED <<watchers, watchreqc, shut, wstreams, watchstream, reqtask>>
Notify(s, w) ==
  LET n == wstreams[s].next[w]
  IN /\ wstreams[s].up /\ n # 0 /\ n <= revision
     /\ wstreams' = [wstreams EXCEPT ![s].next[w] = n + 1, ![s].resp = Append(@, <<"event", w, n>>)]
     /\ UNCHANGED <<revision, watchers, watchreqc, shut, watchstream, reqtask>>
Break(s) ==
  /\ wstreams[s].up /\ Len(wstreams) < MaxStreams
  /\ wstreams' = [wstreams EXCEPT ![s].up = FALSE]
  /\ UNCHANGED <<revision, watchers, watchreqc, shut, watchstream, reqtask>>

WatchTask == Pop \/ WriteRequest \/ EndOfStream \/ Connect \/ TaskEnds \/ Opened \/ SendAgain
ReadTask(s) == Receive(s) \/ ReadEnds(s)
Server(s) == \E w \in Watchers : Notify(s, w)
User == close \/ (\E start \in Revisions : watch(start)) \/ \E w \in DOMAIN watchers : cancel(w)
Network == Event \/ \E s \in DOMAIN wstreams : Break(s)

Next == \/ WatchTask \/ User \/ Network
        \/ \E s \in DOMAIN wstreams : ReadTask(s) \/ Server(s)

Fair == /\ WF_watchvars(WatchTask)
        /\ \A s \in 1..MaxStreams : /\ WF_watchvars(s \in DOMAIN wstreams /\ ReadTask(s))
                                    /\ WF_watchvars(s \in DOMAIN wstreams /\ Server(s))
Spec == Init /\ [][Next]_watchvars /\ Fair
-----------------------------------------------------------------------------
(* What a watcher reads is every event, once and in order, from the revision it asked for or from
   its first event on, however often the stream breaks. *)
EventsExact ==
  \A w \in DOMAIN watchers :
    LET out == watchers[w].outch
    IN /\ \A i \in 1..Len(out) - 1 : out[i+1] = out[i] + 1
       /\ out # <<>> /\ watchers[w].asked # 0 => out[1] = watchers[w].asked

(* A response that will be read belongs to a watcher the client still knows: the reader indexes it
   without a check. *)
ResponsesKnown ==
  \A s \in DOMAIN wstreams : wstreams[s].reading /\ s = watchstream =>
    \A i \in DOMAIN wstreams[s].resp :
      wstreams[s].resp[i][1] # "created" => watchers[wstreams[s].resp[i][2]].known

(* The mark of an ended stream never makes the task close a stream that is being read. *)
NoStaleEnd ==
  reqtask.stream # 0 /\ wstreams[reqtask.stream].reading /\ ~shut =>
    /\ \A i \in DOMAIN watchreqc : watchreqc[i] # EOS
    /\ reqtask.pc = "run" => reqtask.req # EOS


Follows(w) == w \in DOMAIN watchers /\ watchers[w].outch # <<>>

(* A watcher that has read an event reads the latest one in the end, unless it is cancelled or the
   client closed; streams break only finitely often. *)
EventsArrive ==
  \A w \in Watchers :
    Follows(w) ~> (shut \/ (Follows(w) /\ (watchers[w].canceling \/ Last(watchers[w].outch) = revision)))
=============================================================================
