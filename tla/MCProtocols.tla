---------------------------- MODULE MCProtocols -----------------------------
(***************************************************************************)
(* The protocols, each by itself: HTTP/1 with its pool, HTTP/2, the header *)
(* tables of HPACK, DNS with its requests and its caches, the codecs, and  *)
(* epoll as wepoll.c makes it on Windows.                                  *)
(* `part' says which one a behaviour is about; the others stay as they are.*)
(* The codecs are HPACK, DNS messages, MySQL packets, JSON, zproto, base64 *)
(* and protobuf: a behaviour takes one input of one of them, and what is   *)
(* written from it and read back is in the properties.                     *)
(***************************************************************************)
EXTENDS Integers, Sequences, TLC

CONSTANTS Clients, MaxReqs, MaxConns, MaxIdle, MaxBody, FlushAt, Sizes, \* Http1; MaxReqs also Dns
          Roles, MaxStreamId, StreamWin, PeerWins, MaxWindow, ClosedMax, MaxUsers,
          Needs,                                      \* Http2
          Limit, CacheLimit, PruneAt, MaxBlock, Bodies, FrameSize, MaxSymbols, \* Wire: HPACK
          MAX_NAME, PTR_DEPTH, MaxRaw, BUFFERSIZE,            \* Wire: DNS and MySQL
          MAX_DEPTH, LLONG_MAX, MaxDigits, MaxTokens,         \* Encoding
          MAX_RECURSIVE, BUFFSIZE, MAX_FF, MaxLen,            \* Zproto
          Callers, Names, MaxLookups, MaxConf, Attempts,      \* Dns
          MaxHops, MaxDeep,                                   \* Dns, aliases and caches
          Sockets, Interests, Conditions, MAX_GROUP_SIZE, MaxEvents, MaxStates, MaxCtl, MaxReady,
          MaxFaults, MaxKey                         \* Wepoll

Requests == {<<"GET", -2, TRUE, FALSE>>, <<"POST", 2, TRUE, FALSE>>,
             <<"POST", -2, FALSE, FALSE>>, <<"POST", -2, TRUE, TRUE>>}
Answers == {<<"200", 2, 2, FALSE>>, <<"200", -2, 1, FALSE>>, <<"204", 2, 1, TRUE>>}

\* One stream, every content-length and two frames of the peer; two streams, together or one
\* after the other.
OneStream == [max |-> 1, open |-> 1, frames |-> 2, writes |-> {1, 2}, lengths |-> {-1, 1, -2, -3},
              closes |-> {<<2, TRUE>>, <<-1, FALSE>>}]
ChannelLimits == {OneStream,
  [max |-> 2, open |-> 2, frames |-> 1, writes |-> {2}, lengths |-> {-1, 1}, closes |-> {<<2, TRUE>>}],
  [OneStream EXCEPT !.open = 3, !.frames = 1, !.writes = {2}]}

Static == {<<"s", 1>>}
Fields == Static \cup {<<"a", 1>>, <<"b", 1>>, <<"c", 2>>, <<"d", 2>>, <<"big", 9>>}

\* What the name server knows of three names: chains of aliases that end in a record, in
\* nothing, or nowhere.
Zone(x, y, z) == [n \in {"x", "y", "z"} |-> IF n = "x" THEN x ELSE IF n = "y" THEN y ELSE z]
Zones == {Zone("y", "z", "A"), Zone("y", "x", "A"), Zone("", "A", ""), Zone("y", "", "A"),
          Zone("z", "A", "y")}
Search == <<"x", "z">>

-----------------------------------------------------------------------------
(* The inputs of the codecs. *)

\* Eighteen symbols: codes from one bit to more than two bytes, as in the table.
Code == [c \in 1..18 |-> Append([i \in 1..c-1 |-> 1], 0)]
\* Around every end of a prefix and of a group of seven bits.
Numbers == {0, 1, 14, 15, 16, 30, 31, 62, 63, 126, 127, 128, 142, 143, 254, 255,
            16382, 16510, 16511, 268435455, 268435582}

\* Names with one, two and three labels, a dot at the end, empty labels; one of each type of record.
DnsNames == {<<97>>, <<65, 46, 98>>, <<97, 98, 46, 99, 46>>, <<46>>, <<97, 46, 46>>, <<>>}
Records == {[type |-> 1, ttl |-> 7, data |-> <<1, 2, 3, 4>>],
            [type |-> 5, ttl |-> 300, data |-> <<88, 46, 99>>],
            [type |-> 6, ttl |-> 9, data |-> <<99>>, minimum |-> 4],
            [type |-> 33, ttl |-> 1, data |-> <<99>>],
            [type |-> 41, ttl |-> 0, data |-> <<>>],
            [type |-> 28, ttl |-> 2, data |-> [i \in 1..16 |-> i]]}

\* Columns, and for each its nulls, ends of the range and lengths.
V(value, wire) == [value |-> value, wire |-> wire]
Col(t, u) == [t |-> t, unsigned |-> u]
ColumnValues ==
     (Col("TINY", FALSE) :> {V(<<"int", -1>>, <<255>>), V(<<"int", 127>>, <<127>>), V(<<"int", -128>>, <<128>>)})
  @@ (Col("TINY", TRUE) :> {V(<<"int", 255>>, <<255>>)})
  @@ (Col("SHORT", FALSE) :> {V(<<"int", -2>>, <<254, 255>>)})
  @@ (Col("INT24", FALSE) :> {V(<<"int", -8388608>>, <<0, 0, 128>>), V(<<"int", 8388607>>, <<255, 255, 127>>)})
  @@ (Col("LONG", TRUE) :> {V(<<"u32", <<1, 2, 3, 255>>>>, <<1, 2, 3, 255>>)})
  @@ (Col("LONGLONG", FALSE) :> {V(<<"wide", <<1, 2, 3, 4, 5, 6, 7, 8>>>>, <<1, 2, 3, 4, 5, 6, 7, 8>>)})
  @@ (Col("DATETIME", FALSE) :> {V(<<"timestamp", <<>>>>, <<0>>), V(<<"timestamp", <<225, 7, 9, 9>>>>, <<4, 225, 7, 9, 9>>)})
  @@ (Col("TIME", FALSE) :> {V(<<"time", <<>>>>, <<0>>),
                             V(<<"time", <<TRUE, 27, <<1, 2>>>>>>, <<8, 1, 1, 0, 0, 0, 3, 1, 2>>)})
  @@ (Col("STRING", FALSE) :> {V(<<"string", <<>>>>, <<0>>),
                               V(<<"string", [i \in 1..251 |-> 1]>>, <<252, 251, 0>> \o [i \in 1..251 |-> 1])})
Columns == DOMAIN ColumnValues
Values == [c \in Columns |-> {V(<<"nil">>, <<>>)} \cup ColumnValues[c]]
\* The map of nulls has its second byte from seven columns on.
Lists == {<<>>} \cup {<<a>> : a \in Columns} \cup {<<a, b>> : a \in Columns, b \in Columns}
     \cup {[i \in 1..n |-> Col("TINY", TRUE)] : n \in {6, 7}}
P(k, v) == [k |-> k, v |-> v]
Args == {P("int", <<1, 0, 0, 0, 0, 0, 0, 0>>), P("string", <<65, 66>>), P("boolean", <<1>>), P("nil", <<>>)}
Params == UNION {[1..n -> Args] : n \in 0..3}
     \cup {[i \in 1..9 |-> P("nil", <<>>)], [i \in 1..9 |-> IF i = 9 THEN P("nil", <<>>) ELSE P("boolean", <<0>>)]}

\* Lua values of every type, in arrays, objects and mixtures of both, nested.
Leaf == {[t |-> "nil"], [t |-> "null"], [t |-> "boolean", b |-> TRUE], [t |-> "int", n |-> -107],
         [t |-> "float", whole |-> FALSE, text |-> <<49, 46, 53>>], [t |-> "float", whole |-> TRUE, n |-> 3],
         [t |-> "inf"], [t |-> "function"], [t |-> "string", s |-> <<>>],
         [t |-> "string", s |-> <<34, 92, 10, 31, 65, 200>>]}
Tab(a, h) == [t |-> "table", arr |-> a, hash |-> h]
K1 == [t |-> "string", s |-> <<97>>]
K2 == [t |-> "string", s |-> <<98>>]
Flat == {Tab(<<>>, <<>>)} \cup {Tab(<<a, b>>, <<>>) : a \in Leaf, b \in Leaf \ {[t |-> "nil"]}}
   \cup {Tab(<<>>, <<<<K1, a>>, <<K2, b>>>>) : a \in Leaf, b \in Leaf}
   \cup {Tab(<<>>, <<<<[t |-> "int", n |-> 2], a>>>>) : a \in Leaf} \cup {Tab(<<a>>, <<<<K1, a>>>>) : a \in Leaf}
Nested == {Tab(<<a>>, <<>>) : a \in Flat} \cup {Tab(<<>>, <<<<K1, a>>>>) : a \in Flat}
Lua == Leaf \cup Flat \cup Nested \cup {Tab(<<a>>, <<>>) : a \in Nested}
\* The ends of the ranges of UTF-8 and of the surrogates.
CodeUnits == {65, 127, 128, 2047, 2048, 55295, 55296, 56319, 56320, 57343, 57344, 65535}
Escapes == UNION {[1..n -> CodeUnits] : n \in 1..2}
Tokens == ("[" :> <<91>>) @@ ("]" :> <<93>>) @@ ("{" :> <<123>>) @@ ("}" :> <<125>>) @@ ("," :> <<44>>)
          @@ (":" :> <<58>>) @@ ("string" :> <<34, 97, 34>>) @@ (" " :> <<32>>) @@ ("true" :> <<116, 114, 117, 101>>)

\* Schemas, good and bad: tags that are equal, zero or leave gaps, names twice, structs in structs,
\* keys that exist, do not, or are no key.
type_id == (11 :> "int32") @@ (12 :> "byte") @@ (13 :> "string")
F(n, t, a, g) == [name |-> n, type |-> t, arr |-> a, tag |-> g]
S(n, g, k, f) == [name |-> n, tag |-> g, kids |-> k, fields |-> f]
FieldLists == {<<>>, <<F(1, 11, <<>>, 1)>>, <<F(1, 11, <<0>>, 2), F(2, 13, <<>>, 3), F(3, 12, <<0>>, 5)>>,
               <<F(1, 12, <<0>>, 0)>>, <<F(1, 11, <<>>, 2), F(2, 11, <<>>, 2)>>, <<F(1, 11, <<>>, 2), F(1, 11, <<>>, 3)>>}
Refs == {F(1, t, a, 2) : t \in {2, 3, 11}, a \in {<<>>, <<0>>, <<1>>, <<3>>}}
Kids == {<<>>, <<S(3, 0, <<>>, <<F(1, 11, <<>>, 1)>>)>>, <<S(2, 0, <<S(3, 0, <<>>, <<>>)>>, <<F(1, 3, <<>>, 1)>>)>>}
Schemas == {<<S(2, 0, <<>>, f)>> : f \in FieldLists}
      \cup {<<S(2, 3, <<>>, f), S(n, b, k, <<g>>)>> :
              b \in {0, 1, 3}, n \in {1, 2, 4}, f \in FieldLists, g \in Refs, k \in Kids}
\* Tables for three structs, each made of the one before it.
A1 == S(2, 0, <<>>, <<F(1, 11, <<>>, 1), F(2, 13, <<>>, 2), F(3, 12, <<>>, 5)>>)
A2 == S(3, 0, <<>>, <<F(1, 2, <<>>, 2), F(2, 11, <<0>>, 4), F(4, 2, <<1>>, 7)>>)
A3 == S(4, 0, <<>>, <<F(1, 3, <<0>>, 1)>>)
Neg == <<"integer", [i \in 1..8 |-> 255]>>
Ten == <<"integer", <<10, 0, 0, 0, 0, 0, 0, 0>>>>
T1 == {(1 :> Neg), (1 :> Ten) @@ (2 :> <<"string", <<65, 0, 66>>>>), (2 :> <<"string", <<>>>>) @@ (3 :> Neg),
       (3 :> Ten), <<>>}
Elem1 == <<Neg, <<"table", (1 :> Neg) @@ (2 :> <<"string", <<1>>>>)>>>>
Elem2 == <<Ten, <<"table", (1 :> Ten)>>>>
T2 == {(1 :> <<"table", t>>) : t \in T1}
 \cup {(2 :> <<"array", a>>) @@ (4 :> <<"map", m>>) :
         a \in {<<>>, <<Ten>>, <<Ten, Neg>>}, m \in {<<>>, <<Elem1>>, <<Elem1, Elem2>>}}
Messages == {[ss |-> <<A1>>, tbl |-> t] : t \in T1} \cup {[ss |-> <<A1, A2>>, tbl |-> t] : t \in T2}
       \cup {[ss |-> <<A1, A2, A3>>, tbl |-> (1 :> <<"array", <<<<"table", t>>>>>>)] : t \in T2}
\* Segments with eight, seven, six and five bytes that are not zero, none, and the short ends.
Runs == {[i \in 1..8 |-> i], <<1, 0, 2, 3, 4, 5, 6, 7>>, <<1, 2, 3, 4, 5, 6, 0, 0>>, <<0, 0, 0, 1, 2, 3, 4, 5>>,
         [i \in 1..8 |-> 0], [i \in 1..7 |-> i], <<9>>}

-----------------------------------------------------------------------------

VARIABLES part,
          conn, c2s, s2c, stream, handler, idle, ids, body, odd, dirty,        \* Http1
          role, bounds, ch, st, peer, inq, waiting, reserved, lost,            \* Http2
          enc, dec, decodes, exact, input,                                     \* Wire, codecs
          gen, version, inflight, reqs, caller, retrying, fallback, udpup, tcpup,
          queries, answers, cached,                                          \* Dns
          zone, tcache, scache, asked, deep, tried, found,                     \* Dns, aliases and caches
          port, listed, refs, destroy, obj, updq, delq, groups, size, active, pc, batch, ready,
          walive, polls, iocp, spent, wasked, wrong,                           \* Wepoll
          tree, held                                                           \* Wepoll, the tree

H1 == INSTANCE Http1
H2 == INSTANCE Http2 WITH limit <- bounds, Limits <- ChannelLimits
Wi == INSTANCE Wire WITH Names <- DnsNames, RawBytes <- {0, 1, 2, 97, 192, 64}
En == INSTANCE Encoding WITH Digits <- {45, 48, 49, 46, 101}, Octets <- {0, 97, 251, 255}, MaxOctets <- 4
Zp == INSTANCE Zproto WITH Bytes <- {0, 7}
Pb == INSTANCE Protobuf WITH MaxVarint <- 5, MaxFields <- 2
Dn == INSTANCE Dns
Wp == INSTANCE Wepoll WITH alive <- walive, asked <- wasked, op <- polls

h1vars == <<conn, c2s, s2c, stream, handler, idle, ids, body, odd, dirty>>
h2vars == <<role, bounds, ch, st, peer, inq, waiting, reserved, lost>>
hpvars == <<enc, dec, decodes, exact, input>>
dnvars == <<gen, version, inflight, reqs, caller, retrying, fallback, udpup, tcpup, queries,
            answers, cached>>
dcvars == <<zone, tcache, scache, asked, deep, tried, found>>
wpvars == <<port, listed, refs, destroy, obj, updq, delq, groups, size, active, pc, batch, ready, walive,
            polls, iocp, spent, wasked, wrong>>
wtvars == <<tree, held>>

\* The parts in two groups, to say what a step of one leaves alone.
web == <<h1vars, h2vars, hpvars>>
other == <<dnvars, dcvars, wpvars, wtvars>>
mcvars == <<part, web, other>>

CodecInit == Wi!HpackInit /\ Wi!DnsInit /\ Wi!MySqlInit /\ En!JsonInit /\ En!Base64Init /\ Zp!Init /\ Pb!Init
CodecNext == Wi!HpackNext \/ Wi!DnsNext \/ Wi!MySqlNext \/ En!JsonNext \/ En!Base64Next \/ Zp!Next \/ Pb!Next

\* Only the part of a behaviour has its choice of initial states.
MCInit ==
  /\ part \in {"http1", "http2", "hpack", "codec", "dns", "resolve", "wepoll", "tree"}
  /\ H1!Init
  /\ H2!Init /\ (part # "http2" => role = "client" /\ bounds = OneStream)
  /\ Wi!TableInit /\ CodecInit /\ Dn!Init
  /\ Dn!CacheInit /\ (part # "resolve" => zone = Zone("y", "z", "A"))
  /\ Wp!Init /\ Wp!TreeInit

MCNext ==
  \/ part = "http1" /\ H1!Next /\ UNCHANGED <<part, other, h2vars, hpvars>>
  \/ part = "http2" /\ H2!Next /\ UNCHANGED <<part, other, h1vars, hpvars>>
  \/ part = "hpack" /\ Wi!TableNext /\ UNCHANGED <<part, other, h1vars, h2vars, input>>
  \/ /\ part = "codec" /\ CodecNext
     /\ UNCHANGED <<part, other, h1vars, h2vars, enc, dec, decodes, exact>>
  \/ part = "dns" /\ Dn!Next /\ UNCHANGED <<part, web, dcvars, wpvars, wtvars>>
  \/ part = "resolve" /\ Dn!CacheNext /\ UNCHANGED <<part, web, dnvars, wpvars, wtvars>>
  \/ part = "wepoll" /\ Wp!Next /\ UNCHANGED <<part, web, dnvars, dcvars, wtvars>>
  \/ part = "tree" /\ Wp!TreeNext /\ UNCHANGED <<part, web, dnvars, dcvars, wpvars>>

MCSpec == MCInit /\ [][MCNext]_mcvars

-----------------------------------------------------------------------------
\* A wait reports only what was asked for and loses none of it, no state is freed while the
\* kernel or another thread may use it, poll groups are shared within their limit; the tree of
\* sockets stays a balanced search tree (wepoll.c).
WepollExact == /\ part = "wepoll" => Wp!WepollExact
               /\ part = "tree" => Wp!TreeExact
=============================================================================
