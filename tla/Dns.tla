-------------------------------- MODULE Dns ---------------------------------
(***************************************************************************)
(* silly.net.dns: the requests in flight, their retries and the tasks that *)
(* wait for them; and the walk through aliases and caches of one name.     *)
(***************************************************************************)
EXTENDS Integers, FiniteSets, FiniteSetsExt, Sequences

(***************************************************************************)
(* The requests of dns.lua: callers that ask for a name join the request   *)
(* that is in flight for it; a request is sent over UDP, sent again by a   *)
(* timer, moved to TCP when the answer is truncated, and given up; dns.conf *)
(* replaces the servers at any time.  Datagrams may be lost, delayed,      *)
(* reordered and duplicated.  DnsCache models the records.                 *)
(***************************************************************************)
CONSTANTS Callers, Names, MaxLookups, MaxReqs, MaxConf,
          Attempts    \* conf_attempts

VARIABLES gen,        \* which servers are in force
          version,    \* rr.version, by name
          inflight,   \* name -> request (0: none)
          reqs,       \* the requests made so far
          caller,     \* caller -> [pc, req, n, res]
          retrying,   \* requests whose retry_cb is in udp.connect
          fallback,   \* requests whose tcp_fallback is in tcp.connect
          udpup, tcpup,  \* server.udp_conn, server.tcp_conn
          queries, answers,  \* datagrams under way
          cached      \* name -> the records of the cache are valid

dnsvars == <<gen, version, inflight, reqs, caller, retrying, fallback, udpup, tcpup, queries, answers,
             cached>>

NoReq == [name |-> 0, gen |-> 0, version |-> 0, attempt |-> 0, timer |-> FALSE, live |-> FALSE,
          waiting |-> {}]
Ready == [pc |-> "idle", req |-> 0, n |-> 0, res |-> <<>>]
Init == /\ gen = 1 /\ version = [x \in Names |-> 0] /\ inflight = [x \in Names |-> 0]
        /\ reqs = [r \in 1..MaxReqs |-> NoReq] /\ caller = [c \in Callers |-> Ready]
        /\ retrying = {} /\ fallback = {} /\ udpup = FALSE /\ tcpup = FALSE
        /\ queries = {} /\ answers = {} /\ cached = [x \in Names |-> FALSE]

Settled == \A c \in Callers : caller[c].pc # "woken"
Used == {r \in 1..MaxReqs : reqs[r].name # 0}
Query(r) == [gen |-> reqs[r].gen, name |-> reqs[r].name, version |-> reqs[r].version]

(* The callers that wait for a request are woken with what became of it. *)
Wake(r, res, cs) ==
  [c \in Callers |-> IF c \in reqs[r].waiting THEN [cs[c] EXCEPT !.pc = "woken", !.res = res] ELSE cs[c]]

(* finish_req: the timer is cancelled and the request leaves the tables.  On a request that has
   already left them it raises before it comes to the callers. *)
finish_req(r, res, cs) ==
  IF reqs[r].live
  THEN /\ reqs' = [reqs EXCEPT ![r].timer = FALSE, ![r].live = FALSE, ![r].waiting = {}]
       /\ inflight' = [inflight EXCEPT ![reqs[r].name] = 0]
       /\ caller' = Wake(r, res, cs)
  ELSE /\ reqs' = [reqs EXCEPT ![r].timer = FALSE]
       /\ caller' = cs /\ UNCHANGED inflight

(* query: the caller waits for the request, with a timer of its own. *)
Joined(c, r) == [caller EXCEPT ![c].pc = "wait", ![c].req = r, ![c].n = @ + 1, ![c].res = <<>>]

Lookup(c, x) ==
  /\ caller[c].pc = "idle" /\ MapThenSumSet(LAMBDA d : caller[d].n, Callers) < MaxLookups
  /\ UNCHANGED <<gen, retrying, fallback, udpup, tcpup, answers, cached>>
  /\ \/ /\ cached[x]
        /\ caller' = [caller EXCEPT ![c].n = @ + 1]
        /\ UNCHANGED <<version, inflight, reqs, queries>>
     \/ /\ ~cached[x] /\ inflight[x] # 0
        /\ caller' = Joined(c, inflight[x])
        /\ reqs' = [reqs EXCEPT ![inflight[x]].waiting = @ \cup {c}]
        /\ UNCHANGED <<version, inflight, queries>>
     \/ /\ ~cached[x] /\ inflight[x] = 0 /\ Used # 1..MaxReqs
        /\ LET r == Cardinality(Used) + 1
               req == [NoReq EXCEPT !.name = x, !.gen = gen, !.version = version[x] + 1, !.attempt = 1, !.live = TRUE]
           IN /\ version' = [version EXCEPT ![x] = @ + 1]
              /\ \/ /\ udpup  \* send_udp_req with a socket: sendto succeeds ...
                    /\ inflight' = [inflight EXCEPT ![x] = r]
                    /\ reqs' = [reqs EXCEPT ![r] = [req EXCEPT !.timer = TRUE, !.waiting = {c}]]
                    /\ queries' = queries \cup {[gen |-> gen, name |-> x, version |-> req.version]}
                    /\ caller' = Joined(c, r)
                 \/ /\ udpup  \* ... or fails
                    /\ reqs' = [reqs EXCEPT ![r] = [req EXCEPT !.live = FALSE]]
                    /\ caller' = [Joined(c, r) EXCEPT ![c].pc = "idle"]
                    /\ UNCHANGED <<inflight, queries>>
                 \/ /\ ~udpup
                    /\ inflight' = [inflight EXCEPT ![x] = r]
                    /\ reqs' = [reqs EXCEPT ![r] = req]
                    /\ caller' = [Joined(c, r) EXCEPT ![c].pc = "connecting"]
                    /\ UNCHANGED queries

(* udp.connect returns to the caller that made the request.  Servers replaced meanwhile keep the
   socket to themselves. *)
Connected(c) ==
  LET r == caller[c].req
  IN /\ Settled /\ caller[c].pc = "connecting"
     /\ udpup' = (udpup \/ reqs[r].gen = gen)
     /\ queries' = queries \cup {Query(r)}
     /\ reqs' = [reqs EXCEPT ![r].timer = TRUE, ![r].waiting = @ \cup {c}]
     /\ caller' = [caller EXCEPT ![c].pc = "wait"]
     /\ UNCHANGED <<gen, version, inflight, retrying, fallback, tcpup, answers, cached>>

(* udp.connect fails, or the sendto after it: the request ends and its maker returns. *)
SendFails(c) ==
  /\ Settled /\ caller[c].pc = "connecting"
  /\ udpup' \in {udpup, udpup \/ reqs[caller[c].req].gen = gen}
  /\ finish_req(caller[c].req, <<>>, [caller EXCEPT ![c].pc = "idle"])
  /\ UNCHANGED <<gen, version, retrying, fallback, tcpup, queries, answers, cached>>

(* retry_cb *)
Retry(r) ==
  /\ Settled /\ reqs[r].timer
  /\ IF ~reqs[r].live THEN reqs' = [reqs EXCEPT ![r].timer = FALSE] /\ UNCHANGED <<inflight, caller, queries, retrying>>
     ELSE \/ /\ reqs[r].attempt >= Attempts \/ udpup  \* given up, or sendto fails
             /\ finish_req(r, <<>>, caller) /\ UNCHANGED <<queries, retrying>>
          \/ /\ reqs[r].attempt < Attempts
             /\ reqs' = [reqs EXCEPT ![r].attempt = @ + 1, ![r].timer = udpup]
             /\ queries' = IF udpup THEN queries \cup {Query(r)} ELSE queries
             /\ retrying' = IF udpup THEN retrying ELSE retrying \cup {r}
             /\ UNCHANGED <<inflight, caller>>
  /\ UNCHANGED <<gen, version, fallback, udpup, tcpup, answers, cached>>

(* udp.connect returns to a retry. *)
RetryConnected(r) ==
  /\ Settled /\ r \in retrying
  /\ retrying' = retrying \ {r} /\ udpup' = (udpup \/ reqs[r].gen = gen)
  /\ queries' = queries \cup {Query(r)} /\ reqs' = [reqs EXCEPT ![r].timer = TRUE]
  /\ UNCHANGED <<gen, version, inflight, caller, fallback, tcpup, answers, cached>>

RetryFails(r) ==
  /\ Settled /\ r \in retrying
  /\ retrying' = retrying \ {r} /\ finish_req(r, <<>>, caller)
  /\ udpup' \in {udpup, udpup \/ reqs[r].gen = gen}
  /\ UNCHANGED <<gen, version, fallback, tcpup, queries, answers, cached>>


(* dispatch_resp: the answer's name is in flight and its id is that of the request. *)
Matches(a) == inflight[a.q.name] # 0 /\ version[a.q.name] = a.q.version

(* An answer is read by udp_recv_loop or, in full, by tcp_recv_loop.  A truncated one forks
   tcp_fallback. *)
Receive(a) ==
  LET r == inflight[a.q.name]
  IN /\ Settled /\ a.q.gen = gen
     /\ IF a.kind = "tcp" THEN tcpup ELSE udpup
     /\ UNCHANGED <<gen, version, retrying, udpup, tcpup, answers>>
     /\ \/ ~Matches(a) /\ UNCHANGED <<reqs, inflight, caller, cached, queries, fallback>>
        \/ /\ Matches(a) /\ a.kind = "truncated"  \* the fork runs at once
           /\ queries' = IF tcpup THEN queries \cup {a.q} ELSE queries
           /\ fallback' = IF tcpup THEN fallback ELSE fallback \cup {r}
           /\ UNCHANGED <<reqs, inflight, caller, cached>>
        \/ /\ Matches(a) /\ a.kind # "truncated"
           /\ finish_req(r, IF a.kind = "failure" THEN <<>> ELSE <<a.q.name, a.q.version>>, caller)
           /\ \E ttl \in BOOLEAN :  \* the records may be cached, or not
                cached' = IF a.kind = "failure" THEN cached ELSE [cached EXCEPT ![a.q.name] = ttl]
           /\ UNCHANGED <<queries, fallback>>

(* tcp_fallback has the lock and a connection.  It sends if the request is still in flight, and
   without looking if someone else made the connection.  Or it fails, and the retry timer is left
   to deal with it. *)
Fallback(r, ok) ==
  /\ Settled /\ r \in fallback
  /\ fallback' = fallback \ {r}
  /\ tcpup' = (tcpup \/ (ok /\ reqs[r].gen = gen))
  /\ queries' = IF ok /\ (reqs[r].live \/ tcpup) THEN queries \cup {Query(r)} ELSE queries
  /\ UNCHANGED <<gen, version, inflight, reqs, caller, retrying, udpup, answers, cached>>

(* udp_recv_loop or tcp_recv_loop ends with an error, or start_tcp_timer drops an idle connection. *)
UdpBreaks ==
  /\ Settled /\ udpup /\ udpup' = FALSE
  /\ UNCHANGED <<gen, version, inflight, reqs, caller, retrying, fallback, tcpup, queries, answers, cached>>
TcpBreaks ==
  /\ Settled /\ tcpup /\ tcpup' = FALSE
  /\ UNCHANGED <<gen, version, inflight, reqs, caller, retrying, fallback, udpup, queries, answers, cached>>

(* query_timer: the caller gives up, the request goes on. *)
QueryTimer(c) ==
  /\ Settled /\ caller[c].pc = "wait"
  /\ caller' = [caller EXCEPT ![c].pc = "woken"]
  /\ reqs' = [reqs EXCEPT ![caller[c].req].waiting = @ \ {c}]
  /\ UNCHANGED <<gen, version, inflight, retrying, fallback, udpup, tcpup, queries, answers, cached>>

(* query returns. *)
Return(c) ==
  /\ caller[c].pc = "woken" /\ caller' = [caller EXCEPT ![c].pc = "idle"]
  /\ UNCHANGED <<gen, version, inflight, reqs, retrying, fallback, udpup, tcpup, queries, answers, cached>>

(* dns.conf and close_servers: every request in flight is finished, and the caches, sockets and
   versions go with the servers. *)
Conf ==
  LET live == {r \in Used : reqs[r].live}
  IN /\ gen <= MaxConf
     /\ gen' = gen + 1 /\ udpup' = FALSE /\ tcpup' = FALSE
     /\ reqs' = [r \in 1..MaxReqs |-> IF r \in live THEN [reqs[r] EXCEPT !.timer = FALSE, !.live = FALSE, !.waiting = {}] ELSE reqs[r]]
     /\ caller' = [c \in Callers |-> IF \E r \in live : c \in reqs[r].waiting THEN [caller[c] EXCEPT !.pc = "woken"] ELSE caller[c]]
     /\ inflight' = [x \in Names |-> 0] /\ version' = [x \in Names |-> 0]
     /\ cached' = [x \in Names |-> FALSE] /\ queries' = {} /\ answers' = {}
     /\ UNCHANGED <<retrying, fallback>>

(* The server answers a query that reached it, and again over TCP if it truncated the answer; an
   answer stays under way and may be read at any later time, again and again.  The records of the
   cache expire. *)
Answer(q, kind) ==
  /\ {a.kind : a \in {b \in answers : b.q = q}} = IF kind = "tcp" THEN {"truncated"} ELSE {}
  /\ answers' = answers \cup {[q |-> q, kind |-> kind]}
  /\ UNCHANGED <<gen, version, inflight, reqs, caller, retrying, fallback, udpup, tcpup, queries, cached>>
Expire(x) ==
  /\ cached[x] /\ cached' = [cached EXCEPT ![x] = FALSE]
  /\ UNCHANGED <<gen, version, inflight, reqs, caller, retrying, fallback, udpup, tcpup, queries, answers>>

Kinds == {"records", "failure", "truncated", "tcp"}
Worker(c) == Connected(c) \/ SendFails(c) \/ QueryTimer(c) \/ Return(c)
Next == \/ \E c \in Callers : Worker(c) \/ \E x \in Names : Lookup(c, x)
        \/ \E r \in 1..MaxReqs : Retry(r) \/ RetryConnected(r) \/ RetryFails(r) \/ \E ok \in BOOLEAN : Fallback(r, ok)
        \/ \E a \in answers : Receive(a)
        \/ \E q \in queries, kind \in Kinds : Answer(q, kind)
        \/ \E x \in Names : Expire(x)
        \/ UdpBreaks \/ TcpBreaks \/ Conf
Spec == Init /\ [][Next]_dnsvars
-----------------------------------------------------------------------------
(* A caller is given the records that answer the request it waited for: not a late or duplicated
   answer to an earlier one. *)
FreshAnswer ==
  \A c \in Callers : caller[c].res # <<>> =>
    caller[c].res = <<reqs[caller[c].req].name, reqs[caller[c].req].version>>

(* A request that is in flight has its retry timer armed or is being sent, so that it cannot stay
   in flight for ever with new callers joining it; and what is in flight is what is live. *)
NeverStuck ==
  /\ \A x \in Names : inflight[x] # 0 =>
       LET r == inflight[x] IN
         /\ reqs[r].live /\ reqs[r].name = x /\ reqs[r].version = version[x] /\ reqs[r].gen = gen
         /\ reqs[r].timer \/ r \in retrying \/ \E c \in Callers : caller[c].pc = "connecting" /\ caller[c].req = r
  /\ \A r \in Used : reqs[r].live => inflight[reqs[r].name] = r

(* Whoever waits is known to the request, and only they are. *)
WaitersKnown ==
  \A c \in Callers : caller[c].pc = "wait" <=> \E r \in Used : c \in reqs[r].waiting /\ caller[c].req = r


-----------------------------------------------------------------------------
(***************************************************************************)
(* resolve of dns.lua: a name is looked for in the records of this lookup  *)
(* (the trans cache, which ignores times to live) and in the cache of the  *)
(* server, along chains of CNAME records; what is missing is asked for.    *)
(* The server answers with the start of the chain, as far as it likes.     *)
(* Other lookups fill the server's cache, and time empties it.             *)
(***************************************************************************)
CONSTANTS Zones,     \* what the server may know: name -> "A", "" or the name it is an alias of
          Search,    \* the names resolve tries: the name itself, then those of the search list
          MaxHops,   \* findcache gives up: 100 in the code
          MaxDeep    \* resolve_r gives up: 100 in the code

VARIABLES zone, tcache, scache, asked, deep, tried, found

resolvevars == <<zone, tcache, scache, asked, deep, tried, found>>

ZoneNames == DOMAIN zone
(* The A record ("data", "empty" for a cached lack of one, "none") and the CNAME of a name. *)
NoRecord == [a |-> "none", cname |-> ""]
Nothing == [x \in ZoneNames |-> NoRecord]

CacheInit == /\ zone \in Zones
        /\ tcache = Nothing /\ scache = Nothing
        /\ tried = 1 /\ asked = Search[1] /\ deep = 1 /\ found = "looking"

(* lookup_trans and lookup_server: the record, or the name to go on with. *)
lookup_trans(x) == [rr |-> tcache[x].a = "data", next |-> tcache[x].cname]
lookup_server(x) == [rr |-> scache[x].a # "none", next |-> scache[x].cname]

(* findcache: where it ends and whether it ends at a record. *)
findcache(name) ==
  LET go[i \in 0..MaxHops] ==
        IF i = 0 THEN [at |-> name, rr |-> FALSE, stop |-> FALSE]
        ELSE LET p == go[i-1]
                 t == lookup_trans(p.at)
                 s == lookup_server(p.at)
                 next == IF t.next # "" THEN t.next ELSE s.next
             IN IF p.stop THEN p
                ELSE IF t.rr \/ (t.next = "" /\ s.rr) THEN [p EXCEPT !.rr = TRUE, !.stop = TRUE]
                ELSE IF next = "" THEN [p EXCEPT !.stop = TRUE]
                ELSE [p EXCEPT !.at = next]
      last == go[MaxHops]
  IN IF last.stop THEN last ELSE [at |-> name, rr |-> FALSE, stop |-> TRUE]

(* The names of an answer: k steps along the chain of the zone. *)
Chain(x, k) ==
  LET go[i \in 0..k] == IF i = 0 THEN x ELSE IF zone[go[i-1]] \in ZoneNames THEN zone[go[i-1]] ELSE go[i-1]
  IN {go[i] : i \in 0..k}

Record(x) == [a |-> IF zone[x] = "A" THEN "data" ELSE "none",
              cname |-> IF zone[x] \in ZoneNames THEN zone[x] ELSE ""]

merge_records(cache, x, names) ==
  [y \in ZoneNames |-> IF y \in names /\ zone[y] # "" THEN Record(y) ELSE cache[y]]

(* An answer that ends at a name without the record carries the SOA of its zone (or gets the default
   time to live of an unknown name): lanswer makes of it an empty record of the name ASKED. *)
Negative(names) == \E y \in names : zone[y] = ""

(* dispatch_resp: records with a time to live are cached, and the type asked for is cleared when
   the answer has none of it. *)
dispatch_resp(cache, x, names, ttl) ==
  [y \in ZoneNames |->
     LET r == IF ttl /\ y \in names /\ zone[y] # "" THEN Record(y) ELSE cache[y]
     IN IF y # x THEN r
        ELSE [r EXCEPT !.a = IF ttl /\ Negative(names) THEN "empty" ELSE IF ttl THEN Record(x).a ELSE "none"]]

(* resolve_r returns without a record: resolve goes on with the search list, with an empty trans
   cache. *)
NextName ==
  IF tried < Len(Search)
  THEN /\ tried' = tried + 1 /\ asked' = Search[tried + 1] /\ deep' = 1 /\ found' = "looking"
       /\ tcache' = Nothing
  ELSE found' = "none" /\ UNCHANGED <<tried, asked, deep, tcache>>

(* resolve_r with what findcache says: a record, or an alias to go on with. *)
Advance ==
  LET f == findcache(asked)
  IN /\ UNCHANGED <<zone, scache>>
     /\ IF f.rr THEN found' = f.at /\ UNCHANGED <<tried, asked, deep, tcache>>
        ELSE IF f.at # asked /\ deep < MaxDeep
        THEN asked' = f.at /\ deep' = deep + 1 /\ found' = "looking" /\ UNCHANGED <<tried, tcache>>
        ELSE /\ f.at # asked \/ found = "answered"
             /\ NextName
resolve_r == found \in {"looking", "answered"} /\ Advance

(* Nothing is cached: the query, and the caches as the answer leaves them ... *)
Missing == found = "looking" /\ findcache(asked) = [at |-> asked, rr |-> FALSE, stop |-> TRUE]
ZoneAnswer(k, ttl) ==
  LET names == Chain(asked, k)
  IN /\ Missing
     /\ scache' = dispatch_resp(scache, asked, names, ttl)
     /\ tcache' = merge_records(tcache, asked, names)
     /\ found' = "answered" /\ UNCHANGED <<zone, tried, asked, deep>>

(* ... or it fails, or times out. *)
QueryFails == Missing /\ NextName /\ UNCHANGED <<zone, scache>>

(* Another lookup of the server is answered; a record expires. *)
Other(x, k) ==
  /\ found \in {"looking", "answered"}
  /\ scache' = dispatch_resp(scache, x, Chain(x, k), TRUE)
  /\ UNCHANGED <<zone, tcache, asked, deep, tried, found>>
CacheExpire(x) ==
  /\ found \in {"looking", "answered"} /\ scache[x] # NoRecord
  /\ scache' = [scache EXCEPT ![x] = NoRecord]
  /\ UNCHANGED <<zone, tcache, asked, deep, tried, found>>

CacheNext == \/ resolve_r \/ QueryFails
             \/ \E k \in 0..2, ttl \in BOOLEAN : ZoneAnswer(k, ttl)
             \/ \E x \in ZoneNames : CacheExpire(x) \/ \E n \in 0..2 : Other(x, n)
CacheSpec == CacheInit /\ [][CacheNext]_resolvevars
-----------------------------------------------------------------------------
End(x) ==
  LET go[i \in 0..Cardinality(ZoneNames)] ==
        IF i = 0 THEN x ELSE IF zone[go[i-1]] \in ZoneNames THEN zone[go[i-1]] ELSE go[i-1]
  IN go[Cardinality(ZoneNames)]

(* The record that resolve returns is the one at the end of the chain of aliases of the name it
   tried, and is empty only where that end has none, however the records came to be cached. *)
ResolvedRight ==
  found \in ZoneNames => IF zone[found] = "A" THEN found = End(Search[tried])
                     ELSE zone[End(Search[tried])] = ""

(* An answer that carries the record is enough: the caller does not ask again, nor return without
   it, even if the answer may not be cached or has expired when the caller runs. *)
AnswerIsUsed ==
  found = "answered" /\ zone[asked] = "A" => tcache[asked].a = "data"

ResolveExact == ResolvedRight /\ AnswerIsUsed
=============================================================================
