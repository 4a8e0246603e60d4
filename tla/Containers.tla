----------------------------- MODULE Containers -----------------------------
(***************************************************************************)
(* The containers under silly.adt: the byte buffer of a stream, the queue  *)
(* of Lua values and the linked list.                                      *)
(***************************************************************************)
EXTENDS Integers, Sequences, SequencesExt

(***************************************************************************)
(* silly.adt.buffer (lbuffer.c), the byte queue under every tcp stream: an *)
(* array of nodes [readi, writei), the first one read up to `offset', and  *)
(* the node where the last search for a delimiter stopped.  A node that    *)
(* came as a Lua string keeps it alive through a reference id of idpool.h. *)
(***************************************************************************)
CONSTANTS Bytes,     \* the byte values; each may be a delimiter
          InitExp,   \* NB_INIT_EXP
          MaxHeld    \* bound on the bytes held

VARIABLES nodes,     \* b->nodes[readi .. writei - 1]: [ref, buff]
          readi, offset, cap,
          bytes,     \* b->bytes
          delim,     \* the delimiter of the last search, NoDelim for 0
          checki,    \* delim_last_checki
          pool,      \* id_pool: [max, free]
          fifo       \* history: the bytes appended and not read, oldest first
buffervars == <<nodes, readi, offset, cap, bytes, delim, checki, pool, fifo>>

NoDelim == "none"
writei == readi + Len(nodes)

BufferInit ==
  /\ nodes = <<>> /\ readi = 0 /\ offset = 0 /\ cap = 0 /\ bytes = 0
  /\ delim = NoDelim /\ checki = 0 /\ pool = [max |-> 0, free |-> <<>>] /\ fifo = <<>>

\* What is left to read of the node at index i of the array.
Left(i) == LET s == nodes[i - readi + 1].buff
           IN IF i = readi THEN SubSeq(s, offset + 1, Len(s)) ELSE s
Before(i) == FlattenSeq([k \in 1 .. (i - readi) |-> Left(readi + k - 1)])

\* id_pool_alloc(): the last id freed, or a new one.
Alloc(p) == IF p.free = <<>> THEN [id |-> p.max + 1, pool |-> [p EXCEPT !.max = @ + 1]]
            ELSE [id |-> Last(p.free), pool |-> [p EXCEPT !.free = Front(@)]]
\* node_destroy(): the reference to a Lua string goes back to the pool.
Destroy(ns) ==
  pool' = [pool EXCEPT !.free =
             @ \o SelectSeq([k \in DOMAIN ns |-> ns[k].ref], LAMBDA r : r > 0)]

\* ceillog2()
CeilLog2(x) == CHOOSE e \in 0 .. x : 2 ^ e >= x /\ (e = 0 \/ 2 ^ (e - 1) < x)

\* (fault) the search position stays
Expand_Keeps == readi' = 0 /\ cap' = 2 ^ Max({InitExp, CeilLog2(Len(nodes) + 1)}) /\ checki' = checki
\* buffer_expand(): the nodes move to the front, and the search position with them.
Expand == readi' = 0 /\ cap' = 2 ^ Max({InitExp, CeilLog2(Len(nodes) + 1)}) /\ checki' = checki - readi

\* lappend() of one value, a Lua string or a block of the socket; an empty one is
\* skipped.
AppendValue(s, string) ==
  LET a == Alloc(pool)
  IN /\ Len(fifo) + Len(s) <= MaxHeld
     /\ IF writei >= cap THEN Expand ELSE UNCHANGED <<readi, checki, cap>>
     /\ nodes' = Append(nodes, [ref |-> IF string THEN a.id ELSE 0, buff |-> s])
     /\ pool' = IF string THEN a.pool ELSE pool
     /\ bytes' = bytes + Len(s)
     /\ fifo' = fifo \o s
     /\ UNCHANGED <<offset, delim>>

\* reader_pop() of k nodes: a search that stopped before them is forgotten.
Position(k, d, ci) == IF readi + k > ci THEN delim' = NoDelim /\ checki' = readi + k
                      ELSE delim' = d /\ checki' = ci

\* reader_consume() of n bytes: nodes read to their end are popped, the next one is
\* read up to an offset.
Consume(n, d, ci) ==
  LET whole == {i \in readi .. (writei - 1) : Len(Before(i)) + Len(Left(i)) <= n}
      k == Cardinality(whole)
  IN /\ readi' = readi + k
     /\ offset' = (IF k = 0 THEN offset ELSE 0) + n - Len(Before(readi + k))
     /\ bytes' = bytes - n
     /\ Position(k, d, ci)
     /\ Destroy(SubSeq(nodes, 1, k))
     /\ nodes' = SubSeq(nodes, k + 1, Len(nodes))
     /\ UNCHANGED cap

\* read_bytes(); lreadall() is the read of all of them.
ReadBytes(n) == n <= bytes /\ Consume(n, delim, checki) /\ fifo' = SubSeq(fifo, n + 1, Len(fifo))

\* buffer_find_delim(): the search goes on in the node where the last one for the
\* same delimiter stopped.
From(d) == IF d = delim THEN checki ELSE readi
Hits(d) == {i \in From(d) .. (writei - 1) : d \in Range(Left(i))}

\* read_line(): the bytes up to the delimiter found (reader_push_delim), or nil.
First(d, s) == CHOOSE k \in DOMAIN s : s[k] = d /\ \A j \in 1 .. (k - 1) : s[j] # d
ReadLine(d) ==
  LET at == Min(Hits(d))
      n == Len(Before(at)) + First(d, Left(at))
  IN IF Hits(d) = {}
     THEN /\ delim' = d /\ checki' = Max({From(d), writei - 1})
          /\ UNCHANGED <<nodes, readi, offset, cap, bytes, pool, fifo>>
     ELSE /\ Consume(n, d, Max({From(d), at - 1}))
          /\ fifo' = SubSeq(fifo, First(d, fifo) + 1, Len(fifo))

\* clear()
Clear ==
  /\ Destroy(nodes)
  /\ bytes' = 0 /\ offset' = 0 /\ delim' = NoDelim /\ checki' = 0 /\ readi' = 0
  /\ nodes' = <<>> /\ fifo' = <<>>
  /\ UNCHANGED cap

BufferNext ==
  \/ \E n \in 1 .. 2 : \E s \in [1 .. n -> Bytes], b \in BOOLEAN : AppendValue(s, b)
  \/ \E n \in 1 .. bytes : ReadBytes(n)
  \/ \E d \in Bytes : ReadLine(d)
  \/ Clear
BufferSpec == BufferInit /\ [][BufferNext]_buffervars

-----------------------------------------------------------------------------
\* The bytes held are the bytes appended and not read, in their order, and a read of
\* a line took them up to the first delimiter (reader_consume, reader_push_delim).
IsFifo == Before(writei) = fifo /\ bytes = Len(fifo)
\* A search that starts where an earlier one stopped passes over no delimiter, and
\* the position stays inside the array (the asserts of buffer_find_delim).
NoLineMissed ==
  /\ readi <= checki /\ checki <= writei /\ writei <= cap
  /\ delim # NoDelim => delim \notin Range(Before(checki))
\* The reference ids given out are those of the nodes not yet read, each of them
\* once: no string is released early or twice (node_destroy, id_pool_alloc).
RefsExact ==
  LET refs == SelectSeq([k \in DOMAIN nodes |-> nodes[k].ref], LAMBDA r : r > 0)
  IN IsInjective(refs \o pool.free) /\ Range(refs \o pool.free) = 1 .. pool.max

BufferExact == IsFifo /\ NoLineMissed /\ RefsExact

-----------------------------------------------------------------------------
(***************************************************************************)
(* silly.adt.queue (lqueue.c): an array of reference ids, compacted before *)
(* it grows, and the table of the values they stand for.                   *)
(***************************************************************************)
CONSTANTS Values, InitialCap,
          MaxItems   \* bound on the items of the queue

VARIABLES buf, qreadi, qwritei, bufcap, \* struct queue; buf is [0, bufcap) -> reference id
          ref,                        \* the table of the user value: ref[id], Nil if free
          qfree, maxid,                \* its id_pool
          items                       \* history: the values queued, oldest first
queuevars == <<buf, qreadi, qwritei, bufcap, ref, qfree, maxid, items>>

Nil == "nil"
Ids == 1 .. (MaxItems + 1)

QueueInit ==
  /\ buf = <<>> /\ qreadi = 0 /\ qwritei = 0 /\ bufcap = 0
  /\ ref = [i \in Ids |-> Nil] /\ qfree = <<>> /\ maxid = 0 /\ items = <<>>

\* expand(): doubled until it holds `need'
NewCap(need) == LET c == IF bufcap = 0 THEN InitialCap ELSE bufcap
                IN Min({c * 2 ^ k : k \in {j \in 0 .. need : c * 2 ^ j >= need}})

\* compact()
Compacted == [b |-> SubSeq(buf, qreadi + 1, qwritei), r |-> 0, w |-> qwritei - qreadi]

\* lpush(): a full array is compacted first, and grows if it is still full.
Push(v) ==
  LET q == IF qwritei >= bufcap /\ qreadi > 0 THEN Compacted
           ELSE [b |-> SubSeq(buf, 1, qwritei), r |-> qreadi, w |-> qwritei]
      id == IF qfree = <<>> THEN maxid + 1 ELSE Last(qfree)
  IN /\ Len(items) < MaxItems
     /\ bufcap' = IF q.w >= bufcap THEN NewCap(q.w + 1) ELSE bufcap
     /\ buf' = Append(q.b, id) /\ qreadi' = q.r /\ qwritei' = q.w + 1
     /\ IF qfree = <<>> THEN maxid' = id /\ qfree' = qfree
        ELSE maxid' = maxid /\ qfree' = Front(qfree)
     /\ ref' = [ref EXCEPT ![id] = v]
     /\ items' = Append(items, v)

\* lpop()
Pop ==
  /\ qreadi < qwritei
  /\ qreadi' = qreadi + 1
  /\ ref' = [ref EXCEPT ![buf[qreadi + 1]] = Nil]
  /\ qfree' = Append(qfree, buf[qreadi + 1])
  /\ items' = Tail(items)
  /\ UNCHANGED <<buf, qwritei, bufcap, maxid>>

\* lclear()
ClearQueue ==
  LET live == SubSeq(buf, qreadi + 1, qwritei)
  IN /\ ref' = [i \in Ids |-> IF i \in Range(live) THEN Nil ELSE ref[i]]
     /\ qfree' = qfree \o live
     /\ qreadi' = 0 /\ qwritei' = 0 /\ buf' = <<>> /\ items' = <<>>
     /\ UNCHANGED <<bufcap, maxid>>

QueueNext ==
  \/ \E v \in Values : Push(v)
  \/ Pop \/ ClearQueue
QueueSpec == QueueInit /\ [][QueueNext]_queuevars

-----------------------------------------------------------------------------
\* The queue gives the values back in the order they were pushed, through compaction
\* and growth, and the ids in use are exactly those of its items (lpush, lpop).
QueueExact ==
  LET live == SubSeq(buf, qreadi + 1, qwritei)
  IN /\ [k \in DOMAIN live |-> ref[live[k]]] = items /\ qwritei <= bufcap
     /\ IsInjective(live \o qfree) /\ Range(live \o qfree) = 1 .. maxid
     /\ \A i \in Ids : ref[i] = Nil <=> i \notin Range(live)

-----------------------------------------------------------------------------
(***************************************************************************)
(* silly.adt.list (list.lua): a doubly linked list of distinct values, from*)
(* which any of them can be removed.                                       *)
(***************************************************************************)
VARIABLES first, last, prev, next, count, present,
          order  \* history: the values of the list, first to last
listvars == <<first, last, prev, next, count, present, order>>

ListInit ==
  /\ first = Nil /\ last = Nil /\ count = 0 /\ present = {} /\ order = <<>>
  /\ prev = [v \in Values |-> Nil] /\ next = [v \in Values |-> Nil]

\* pushback() of a value that is not in the list; one that is there is an error
Pushback(v) ==
  /\ v \notin present
  /\ IF last = Nil THEN first' = v /\ UNCHANGED <<prev, next>>
     ELSE /\ prev' = [prev EXCEPT ![v] = last] /\ next' = [next EXCEPT ![last] = v]
          /\ first' = first
  /\ last' = v /\ count' = count + 1 /\ present' = present \cup {v}
  /\ order' = Append(order, v)

\* pushfront()
Pushfront(v) ==
  /\ v \notin present
  /\ IF first = Nil THEN last' = v /\ UNCHANGED <<prev, next>>
     ELSE /\ next' = [next EXCEPT ![v] = first] /\ prev' = [prev EXCEPT ![first] = v]
          /\ last' = last
  /\ first' = v /\ count' = count + 1 /\ present' = present \cup {v}
  /\ order' = <<v>> \o order

\* remove() of any value; popfront() and popback() remove the first and the last.
RemoveValue(v) ==
  LET p == prev[v] n == next[v]
  IN /\ v \in present
     /\ next' = [x \in Values |-> IF x = p THEN n ELSE IF x = v THEN Nil ELSE next[x]]
     /\ prev' = [x \in Values |-> IF x = n THEN p ELSE IF x = v THEN Nil ELSE prev[x]]
     /\ first' = IF p = Nil THEN n ELSE first
     /\ last' = IF n = Nil THEN p ELSE last
     /\ count' = count - 1 /\ present' = present \ {v}
     /\ order' = SelectSeq(order, LAMBDA x : x # v)

\* clear()
ClearList ==
  /\ first' = Nil /\ last' = Nil /\ count' = 0 /\ present' = {} /\ order' = <<>>
  /\ prev' = [v \in Values |-> Nil] /\ next' = [v \in Values |-> Nil]

ListNext ==
  \/ \E v \in Values : Pushback(v) \/ Pushfront(v) \/ RemoveValue(v)
  \/ ClearList
ListSpec == ListInit /\ [][ListNext]_listvars

-----------------------------------------------------------------------------
\* The links of the list visit its values first to last and back again, and a value
\* that was removed is linked to nothing (remove in list.lua).
ListExact ==
  LET n == Len(order)
      at(i) == IF i \in 1 .. n THEN order[i] ELSE Nil
  IN /\ first = at(1) /\ last = at(n) /\ count = n /\ present = Range(order)
     /\ \A i \in 1 .. n : next[order[i]] = at(i + 1) /\ prev[order[i]] = at(i - 1)
     /\ \A v \in Values \ Range(order) : next[v] = Nil /\ prev[v] = Nil
=============================================================================
