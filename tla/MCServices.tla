----------------------------- MODULE MCServices -----------------------------
(***************************************************************************)
(* The services and their clients, each by itself: cluster RPC and the     *)
(* packets under it, Redis, the watches of etcd, gRPC and WebSocket.       *)
(* `part' says which one a behaviour is about; the others stay as they are.*)
(***************************************************************************)
EXTENDS Integers, Sequences

CONSTANTS Callers, MaxCalls, MaxFds, ACK_BIT, SessionStart, \* Cluster
          Tasks, MaxCommands, MaxSocks,                     \* Redis
          MaxWatchers, MaxStreams, MaxRevision, Revisions,  \* Etcd
          MessageSizes, MaxMsgs, MaxControls,               \* WebSocket
          Endpoints, CallSlots, MaxChannels,                \* Grpc
          NodeFds, HEADER_SIZE, QUEUE_SIZE, HardLimit, MaxPackets, MinSize, MinRequest \* Netpacket

\* Too small for a response, for a request, just enough for each, and too large.
PacketSizes == {<<0, FALSE>>, <<1, TRUE>>, <<1, FALSE>>, <<2, FALSE>>, <<3, FALSE>>}

VARIABLES part,
          peerfd, peeropen, fd_to_peer, links, lockq, co, wait_pool, rpctimers,
          session_idx, served,                                                  \* Cluster
          sock, readco, waitq, closed, socks, rlockq, rtask,            \* Redis
          revision, watchers, watchreqc, shut, wstreams, watchstream, reqtask,  \* Etcd
          client, wsup, wire, alive, written, controls, stashbuf, stashtype, returned,
          failed,                                                               \* WebSocket
          gclosed, robin, endpoint, channels, connlock, call, waiting_stream, fired, \* Grpc
          packets, incomplete, ring, cap, rhead, rtail, sentpk, waitpk, dead    \* Netpacket

Cl == INSTANCE Cluster
Re == INSTANCE Redis
Et == INSTANCE Etcd
Ws == INSTANCE WebSocket WITH up <- wsup, Sizes <- MessageSizes
Gr == INSTANCE Grpc
Np == INSTANCE Netpacket WITH wire <- packets, Fds <- NodeFds, Sizes <- PacketSizes

clvars == <<peerfd, peeropen, fd_to_peer, links, lockq, co, wait_pool, rpctimers, session_idx, served>>
revars == <<sock, readco, waitq, closed, socks, rlockq, rtask>>
etvars == <<revision, watchers, watchreqc, shut, wstreams, watchstream, reqtask>>
wsvars == <<client, wsup, wire, alive, written, controls, stashbuf, stashtype, returned, failed>>
grvars == <<gclosed, robin, endpoint, channels, connlock, call, waiting_stream, fired>>
npvars == <<packets, incomplete, ring, cap, rhead, rtail, sentpk, waitpk, dead>>

\* The parts in two groups, to say what a step of one leaves alone.
clients == <<clvars, revars, etvars>>
carriers == <<wsvars, grvars, npvars>>
mcvars == <<part, clients, carriers>>

\* Only the part of a behaviour has its choice of initial states.
MCInit ==
  /\ part \in {"cluster", "redis", "etcd", "websocket", "grpc", "packets"}
  /\ Cl!Init /\ Re!Init /\ Et!Init /\ Gr!Init /\ Np!Init
  /\ Ws!Init /\ (part # "websocket" => client = TRUE)

MCNext ==
  \/ part = "cluster" /\ Cl!Next /\ UNCHANGED <<part, revars, etvars, carriers>>
  \/ part = "redis" /\ Re!Next /\ UNCHANGED <<part, clvars, etvars, carriers>>
  \/ part = "etcd" /\ Et!Next /\ UNCHANGED <<part, clvars, revars, carriers>>
  \/ part = "websocket" /\ Ws!Next /\ UNCHANGED <<part, clients, grvars, npvars>>
  \/ part = "grpc" /\ Gr!Next /\ UNCHANGED <<part, clients, wsvars, npvars>>
  \/ part = "packets" /\ Np!Next /\ UNCHANGED <<part, clients, wsvars, grvars>>

\* Timers fire, tasks that are ready run, the redis and etcd servers go on serving; a node of
\* the cluster need not answer, nor does a connection have to break.
MCFairSpec ==
  /\ MCInit /\ [][MCNext]_mcvars
  /\ WF_clvars(part = "cluster" /\ Cl!Progress)
  /\ WF_revars(part = "redis" /\ Re!TaskSteps) /\ WF_revars(part = "redis" /\ Re!Server)
  /\ WF_etvars(part = "etcd" /\ Et!WatchTask)
  /\ \A s \in 1..MaxStreams :
       /\ WF_etvars(part = "etcd" /\ s \in DOMAIN wstreams /\ Et!ReadTask(s))
       /\ WF_etvars(part = "etcd" /\ s \in DOMAIN wstreams /\ Et!Server(s))

-----------------------------------------------------------------------------
\* A call returns its own answer or none; a peer has one connection; whoever waits is in
\* the pool with a timer (cluster.lua).
ClusterExact == part = "cluster" => Cl!ClusterExact
\* A task is given the answers to its own commands; one task reads, and the next is woken
\* with what is its own (redis.lua).
RedisExact == part = "redis" => Re!RedisExact
\* An endpoint knows the one channel that is usable, and a deadline ends its own call
\* alone (conn.lua, service.lua).
GrpcExact == part = "grpc" => Gr!GrpcExact
\* Calls of the cluster and commands of redis return, and watchers of etcd read the
\* latest event, whatever breaks and times out (cluster.lua, redis.lua, etcd.lua).
RequestsEnd == Cl!CallsReturn /\ Re!CommandsReturn /\ Et!EventsArrive
=============================================================================
