-------------------------------- MODULE Wire --------------------------------
(***************************************************************************)
(* How three protocols put values into bytes and read them back: the       *)
(* strings and frames of HTTP/2 (lhttp.c), the messages of DNS (ldns.c),   *)
(* and the packets of MySQL (lmysql.c).                                    *)
(***************************************************************************)
EXTENDS Integers, Sequences, SequencesExt, FiniteSets

(***************************************************************************)
(* The pure algorithms of lhttp.c: HPACK integers, the Huffman code of     *)
(* header strings (a tree that is walked a byte at a time) and the split   *)
(* of a header block or a body into frames.  Each is checked against what  *)
(* it has to undo, on the inputs that sit on its boundaries.  A bit string *)
(* is a sequence of 0 and 1.                                               *)
(***************************************************************************)
CONSTANTS Code,      \* symbol -> its bits: a prefix code that, as the table of http2_table.h,
                     \* leaves out nothing but one string of ones
          Numbers,   \* the integers that are written
          Bodies,    \* sizes of header blocks and bodies
          FrameSize,
          MaxSymbols

VARIABLE input       \* the string, the integer or the size at hand

Symbols == DOMAIN Code
Ones(n) == [i \in 1..n |-> 1]
Zeros(n) == [i \in 1..n |-> 0]

(* huffman_encode: the codes in a row, filled up with the first bits of a run of ones. *)
huffman_encode(str) ==
  LET bits == FoldLeft(LAMBDA acc, c : acc \o Code[c], <<>>, str)
  IN bits \o Ones((8 - (Len(bits) % 8)) % 8)

huffman_len(str) ==
  (FoldLeft(LAMBDA acc, c : acc + Len(Code[c]), 0, str) + 7) \div 8

(* add_node: a symbol hangs, below the bytes its code fills, under every byte that starts with
   the bits that are left (one to eight). *)
Inner(c) == SubSeq(Code[c], 1, ((Len(Code[c]) - 1) \div 8) * 8)
Left(c) == SubSeq(Code[c], Len(Inner(c)) + 1, Len(Code[c]))
Leaves(path, byte) == {c \in Symbols : Inner(c) = path /\ IsPrefix(Left(c), byte)}
HasInner(path, byte) == \E c \in Symbols : IsPrefix(path \o byte, Inner(c))

(* The end of huffman_decode: less than a byte is left over and it is all ones. *)
Padding(bits, last) ==
  /\ Len(bits) - last <= 7
  /\ \A i \in last+1..Len(bits) : bits[i] = 1

(* huffman_decode: the loops of the code, over the position, the node and the end of the last symbol. *)
RECURSIVE Walk(_, _, _, _, _)
Walk(bits, pos, path, last, out) ==
  LET rem == Len(bits) - pos
      byte == SubSeq(bits \o Zeros(8), pos + 1, pos + 8)
      leaf == CHOOSE c \in Leaves(path, byte) : TRUE
      finish == [ok |-> Padding(bits, last), str |-> out]
  IN IF rem = 0 THEN finish
     ELSE IF Leaves(path, byte) # {}
          THEN IF Len(Left(leaf)) > rem THEN finish
               ELSE Walk(bits, pos + Len(Left(leaf)), <<>>, pos + Len(Left(leaf)), Append(out, leaf))
     ELSE IF ~HasInner(path, byte) THEN [ok |-> FALSE, str |-> out]
     ELSE IF rem < 8 THEN finish
     ELSE Walk(bits, pos + 8, path \o byte, last, out)

huffman_decode(bits) == Walk(bits, 0, <<>>, 0, <<>>)

(* write_varint, without the flag above the prefix *)
RECURSIVE Septets(_)
Septets(n) == IF n >= 128 THEN <<128 + (n % 128)>> \o Septets(n \div 128) ELSE <<n>>
write_varint(n, bits) ==
  LET max == 2^bits - 1
  IN IF n < max THEN <<n>> ELSE <<max>> \o Septets(n - max)

(* read_varint: the value and how many bytes it took; it stops at the end of the input. *)
read_varint(bytes, bits) ==
  LET max == 2^bits - 1
      more == {i \in 2..Len(bytes) : \A j \in 2..i-1 : bytes[j] >= 128}
      used == IF bytes = <<>> THEN 0 ELSE IF bytes[1] < max THEN 1
              ELSE 1 + Len(SelectSeq([i \in 1..Len(bytes) |-> i], LAMBDA i : i \in more))
      sum[i \in 0..used] == IF i = 0 THEN 0 ELSE IF i = 1 THEN bytes[1]
                            ELSE sum[i-1] + (bytes[i] % 128) * 2^(7 * (i - 2))
  IN [n |-> sum[used], used |-> used]

Frame(type, len, end) == [type |-> type, len |-> len, end |-> end]

(* lframe_build_header: the frames that are cut off first continue the first; the last one is
   written as HEADERS again and carries END_HEADERS. *)
build_header(sz) ==
  LET n == IF sz = 0 THEN 0 ELSE (sz - 1) \div FrameSize
  IN [i \in 1..n+1 |-> IF i = n + 1 THEN Frame("HEADERS", sz - n * FrameSize, TRUE)
                       ELSE Frame(IF i = 1 THEN "HEADERS" ELSE "CONTINUATION", FrameSize, FALSE)]

(* lframe_build_body *)
build_body(sz) ==
  LET n == IF sz = 0 THEN 0 ELSE (sz - 1) \div FrameSize
  IN [i \in 1..n+1 |-> Frame("DATA", IF i = n + 1 THEN sz - n * FrameSize ELSE FrameSize, i = n + 1)]

(* read_header of h2.lua: HEADERS, then CONTINUATION frames until END_HEADERS. *)
read_header(frames) ==
  \E n \in 1..Len(frames) :
    /\ frames[n].end /\ \A i \in 1..n-1 : ~frames[i].end
    /\ \A i \in 2..n : frames[i].type = "CONTINUATION"

Strings == UNION {[1..n -> Symbols] : n \in 0..MaxSymbols}
HpackInputs == {[kind |-> "str", str |-> s] : s \in Strings}
     \cup {[kind |-> "int", n |-> n, bits |-> b] : n \in Numbers, b \in 4..7}
     \cup {[kind |-> "body", n |-> n] : n \in Bodies}

Idle == [kind |-> "none"]
HpackInit == input = Idle
Take == /\ input = Idle
        /\ \E i \in HpackInputs : input' = i
HpackNext == Take
Spec == HpackInit /\ [][HpackNext]_input
-----------------------------------------------------------------------------
Flip(bits, i) == [bits EXCEPT ![i] = 1 - @]

(* A header string is decoded to itself in the announced length, with any one bit of the padding
   flipped or a byte of ones appended it is refused, and nothing decodes but an encoding. *)
StringsRoundTrip ==
  input.kind = "str" =>
    LET bits == huffman_encode(input.str)
    IN /\ huffman_decode(bits) = [ok |-> TRUE, str |-> input.str]
       /\ Len(bits) = 8 * huffman_len(input.str)
       /\ ~huffman_decode(bits \o Ones(8)).ok
       /\ \A i \in 1..Len(bits) :
            LET d == huffman_decode(Flip(bits, i)) IN d.ok => huffman_encode(d.str) = Flip(bits, i)

(* An integer is read back to itself, and what follows it is left alone. *)
IntegersRoundTrip ==
  input.kind = "int" =>
    LET bytes == write_varint(input.n, input.bits)
    IN read_varint(bytes \o <<128, 7>>, input.bits) = [n |-> input.n, used |-> Len(bytes)]

(* The frames of a body carry all of it, none is over the frame size, none but the last ends the
   stream, and only an empty body has an empty frame; a header block that fits a frame is read
   back by read_header. *)
FramesExact ==
  input.kind = "body" =>
    LET body == build_body(input.n)
        hdr == build_header(input.n)
        Total(fs) == FoldLeft(LAMBDA acc, f : acc + f.len, 0, fs)
    IN /\ Total(body) = input.n /\ Total(hdr) = input.n
       /\ \A fs \in {body, hdr} : \A i \in 1..Len(fs) :
            /\ fs[i].len <= FrameSize /\ fs[i].end = (i = Len(fs))
            /\ fs[i].len = 0 => input.n = 0
       /\ input.n <= FrameSize => read_header(hdr)

CodecExact == StringsRoundTrip /\ IntegersRoundTrip /\ FramesExact

-----------------------------------------------------------------------------
(***************************************************************************)
(* The messages of ldns.c, byte by byte: the query it builds, names with   *)
(* compression pointers, and the records of a response.  A message is a    *)
(* sequence of bytes, a position counts from 0 as in the code, a name is a *)
(* sequence of characters.  What a name server sends is built here too.    *)
(***************************************************************************)
CONSTANTS MAX_NAME,   \* DNS_MAX_NAME
          PTR_DEPTH,  \* DNS_PTR_DEPTH
          Names,      \* names that are asked for
          Records,    \* records a server may answer with
          RawBytes, MaxRaw  \* alphabet and length of the bytes that stand for any message


HDR_SIZE == 12
Dot == 46
Lower(c) == IF c \in 65..90 THEN c + 32 ELSE c     \* tolower
U16(n) == <<n \div 256, n % 256>>
U32(n) == U16(n \div 65536) \o U16(n % 65536)
unpack_u16(p, pos) == p[pos + 1] * 256 + p[pos + 2]
unpack_u32(p, pos) == unpack_u16(p, pos) * 65536 + unpack_u16(p, pos + 2)

\* The labels of a name: what stands between its dots.
Labels(name) ==
  LET cuts == SelectSeq([i \in 1..Len(name) |-> i], LAMBDA i : name[i] = Dot)
      ends == <<0>> \o cuts \o <<Len(name) + 1>>
  IN [i \in 1..Len(ends)-1 |-> SubSeq(name, ends[i] + 1, ends[i+1] - 1)]

(* lvalidname *)
lvalidname(name) ==
  LET ls == Labels(name)
  IN /\ Len(name) \in 1..253
     /\ \A i \in 1..Len(ls)-1 : Len(ls[i]) \in 1..63
     /\ Len(Last(ls)) <= 63

(* q_name: an empty label, that of a trailing dot, is left out. *)
q_name(name) ==
  FoldLeft(LAMBDA acc, l : IF l = <<>> THEN acc ELSE acc \o <<Len(l)>> \o l, <<>>, Labels(name)) \o <<0>>

(* q_header, q_type, q_opt *)
q_header(id) == U16(id) \o <<1, 0>> \o U16(1) \o U16(0) \o U16(0) \o U16(1)
q_type(qtype) == U16(qtype) \o U16(1)
q_opt == <<0>> \o U16(41) \o U16(4096) \o U32(0) \o U16(0)
lquestion(name, qtype, id) == q_header(id) \o q_name(name) \o q_type(qtype) \o q_opt

Failed == [pos |-> 0, name |-> <<>>]

(* The loop of read_name. *)
RECURSIVE ReadName(_, _, _, _, _)
ReadName(p, pos, depth, saved, out) ==
  IF depth >= PTR_DEPTH \/ pos >= Len(p) THEN Failed
  ELSE
    LET c == p[pos + 1]
        next == pos + 1
        off == (c - 192) * 256 + p[next + 1]
        label == [i \in 1..c |-> Lower(p[next + i])]
    IN CASE c = 0 -> [pos |-> IF saved = 0 THEN next ELSE saved,
                      name |-> IF out = <<>> THEN out ELSE Front(out)]
         [] c >= 192 -> IF next >= Len(p) THEN Failed
                        ELSE IF off >= next - 1 THEN Failed
                        ELSE ReadName(p, off, depth + 1, IF saved = 0 THEN next + 1 ELSE saved, out)
         [] c \in 64..191 -> Failed
         [] OTHER -> IF next + c > Len(p) \/ Len(out) + c + 1 >= MAX_NAME THEN Failed
                     ELSE ReadName(p, next + c, depth + 1, saved, out \o label \o <<Dot>>)

read_name(p, pos) == ReadName(p, pos, 0, 0, <<>>)

(* parse_rr_begin: the head of a record *)
Broken == [ok |-> FALSE]
parse_rr_begin(p, pos) ==
  LET n == read_name(p, pos)
      next == n.pos
      rdlen == unpack_u16(p, next + 8)
  IN IF n.pos = 0 \/ next + 10 > Len(p) THEN Broken
     ELSE IF next + 10 + rdlen > Len(p) THEN Broken
     ELSE [ok |-> TRUE, name |-> n.name, type |-> unpack_u16(p, next), ttl |-> unpack_u32(p, next + 4),
           rdlen |-> rdlen, rdpos |-> next + 10]

Rr(name, type, ttl, data) == <<[name |-> name, type |-> type, ttl |-> ttl * 1000, data |-> data]>>

(* parse_rr_a and parse_rr_aaaa, parse_rr_cname, parse_rr_srv: one record or none *)
parse_rr_ip(p, h, size) ==
  IF h.rdlen < size THEN <<>> ELSE Rr(h.name, h.type, h.ttl, SubSeq(p, h.rdpos + 1, h.rdpos + size))

parse_rr_cname(p, h) ==
  LET n == read_name(p, h.rdpos)
  IN IF n.pos = 0 THEN <<>> ELSE Rr(h.name, h.type, h.ttl, n.name)

parse_rr_srv(p, h) ==
  LET n == read_name(p, h.rdpos + 6)
      field(i) == unpack_u16(p, h.rdpos + 2 * i)
  IN IF h.rdlen < 6 \/ n.pos = 0 THEN <<>>
     ELSE Rr(h.name, h.type, h.ttl, <<field(0), field(1), field(2)>> \o n.name)

(* parse_rr_soa: how long the name asked for is known not to exist *)
parse_rr_soa(p, h, qname, qtype) ==
  LET mname == read_name(p, h.rdpos)
      rname == read_name(p, mname.pos)
      minimum == unpack_u32(p, rname.pos + 16)
  IN IF mname.pos = 0 THEN <<>>
     ELSE IF rname.pos = 0 \/ rname.pos + 20 > Len(p) THEN <<>>
     ELSE Rr(qname, qtype, IF h.ttl > minimum THEN minimum ELSE h.ttl, "negative")

push_rr(p, h, qname, qtype) ==
  CASE h.type = 1 -> parse_rr_ip(p, h, 4)
    [] h.type = 28 -> parse_rr_ip(p, h, 16)
    [] h.type = 5 -> parse_rr_cname(p, h)
    [] h.type = 33 -> parse_rr_srv(p, h)
    [] h.type = 6 -> parse_rr_soa(p, h, qname, qtype)
    [] OTHER -> <<>>

(* push_rrs: a record that does not parse is skipped, one that is cut off ends the loop *)
RECURSIVE push_rrs(_, _, _, _, _)
push_rrs(p, pos, count, qname, qtype) ==
  LET h == parse_rr_begin(p, pos)
  IN IF count = 0 \/ ~h.ok THEN <<>>
     ELSE push_rr(p, h, qname, qtype) \o push_rrs(p, h.rdpos + h.rdlen, count - 1, qname, qtype)

(* lanswer; what it does with the flags is in DnsCache *)
lanswer(p) ==
  LET n == read_name(p, HDR_SIZE)
      total == unpack_u16(p, 6) + unpack_u16(p, 8) + unpack_u16(p, 10)
  IN IF Len(p) < HDR_SIZE THEN Broken
     ELSE IF p[3] < 128 \/ unpack_u16(p, 4) # 1 \/ n.pos = 0 \/ n.pos + 4 > Len(p) THEN Broken
     ELSE [ok |-> TRUE, id |-> unpack_u16(p, 0), name |-> n.name, qtype |-> unpack_u16(p, n.pos),
           records |-> push_rrs(p, n.pos + 4, total, n.name, unpack_u16(p, n.pos))]
-----------------------------------------------------------------------------
(* The name server: a response to the question, every owner a pointer to the name asked for. *)
Pointer(off) == <<192 + off \div 256, off % 256>>
RData(r) == CASE r.type = 5 -> q_name(r.data)
              [] r.type = 33 -> U16(1) \o U16(2) \o U16(3) \o q_name(r.data)
              [] r.type = 6 -> Pointer(HDR_SIZE) \o q_name(r.data) \o U32(0) \o U32(0) \o U32(0)
                               \o U32(0) \o U32(r.minimum)
              [] OTHER -> r.data
Wire(r) == Pointer(HDR_SIZE) \o U16(r.type) \o U16(1) \o U32(r.ttl) \o U16(Len(RData(r))) \o RData(r)
Response(q, rs) ==
  U16(q.id) \o <<129, 128>> \o U16(1) \o U16(Len(rs)) \o U16(0) \o U16(0)
    \o q_name(q.name) \o q_type(q.qtype) \o FoldLeft(LAMBDA acc, r : acc \o Wire(r), <<>>, rs)

Canonical(name) ==
  LET n == IF name # <<>> /\ Last(name) = Dot THEN Front(name) ELSE name
  IN [i \in 1..Len(n) |-> Lower(n[i])]

\* What the caller of lanswer should get for r.
Expected(q, r) ==
  LET name == Canonical(q.name) IN
  CASE r.type \in {1, 28} -> Rr(name, r.type, r.ttl, r.data)
    [] r.type = 5 -> Rr(name, 5, r.ttl, Canonical(r.data))
    [] r.type = 33 -> Rr(name, 33, r.ttl, <<1, 2, 3>> \o Canonical(r.data))
    [] r.type = 6 -> Rr(name, q.qtype, IF r.minimum < r.ttl THEN r.minimum ELSE r.ttl, "negative")
    [] OTHER -> <<>>

Questions == [name : {n \in Names : lvalidname(n)}, qtype : {1, 28}, id : {0, 65535}]
DnsInputs == [kind : {"dns"}, q : Questions, rs : UNION {[1..k -> Records] : k \in 0..2}]
     \cup [kind : {"name"}, raw : UNION {[1..k -> RawBytes] : k \in 1..MaxRaw}]

DnsInit == input = [kind |-> "none"]
DnsNext == input.kind = "none" /\ \E i \in DnsInputs : input' = i
-----------------------------------------------------------------------------
(* The query carries the name, the type and the id that were asked, and nothing but its question
   and EDNS record; it is no response. *)
QuestionExact ==
  input.kind = "dns" =>
    LET m == lquestion(input.q.name, input.q.qtype, input.q.id)
        n == read_name(m, HDR_SIZE)
    IN /\ n.name = Canonical(input.q.name)
       /\ <<unpack_u16(m, 0), unpack_u16(m, n.pos)>> = <<input.q.id, input.q.qtype>>
       /\ Len(m) = n.pos + 4 + 11 /\ ~lanswer(m).ok

(* A response gives back the question and every record in order; cut off after any byte it gives
   the first of them or nothing, never another record (read_name, parse_rr_begin, push_rrs). *)
AnswerExact ==
  input.kind = "dns" =>
    LET m == Response(input.q, input.rs)
        want == FoldLeft(LAMBDA acc, r : acc \o Expected(input.q, r), <<>>, input.rs)
        got == lanswer(m)
    IN /\ got = [ok |-> TRUE, id |-> input.q.id, name |-> Canonical(input.q.name),
                 qtype |-> input.q.qtype, records |-> want]
       /\ \A k \in 0..Len(m)-1 : LET cut == lanswer(SubSeq(m, 1, k))
                                 IN cut.ok => IsPrefix(cut.records, want)

(* Whatever the bytes, a name that is read fits the buffer, reading goes on behind it and inside
   the message; pointers that lead in a circle are given up. *)
NameExact ==
  input.kind = "name" => \A pos \in 0..Len(input.raw)-1 :
    LET n == read_name(input.raw, pos)
    IN n.pos # 0 => /\ n.pos \in pos+1..Len(input.raw) /\ Len(n.name) < MAX_NAME
                    /\ \/ input.raw[n.pos] = 0
                       \/ n.pos - 2 >= pos /\ input.raw[n.pos - 1] >= 192
                          /\ read_name(input.raw, n.pos - 2).pos = n.pos

DnsCodecExact == QuestionExact /\ AnswerExact /\ NameExact

-----------------------------------------------------------------------------
(***************************************************************************)
(* The packets of MySQL's binary protocol as lmysql.c reads and composes   *)
(* them.  A packet is a sequence of bytes; numbers of four and eight bytes *)
(* and floats stay bytes with a tag that says how they are read.  What the *)
(* server writes and how it reads parameters follows the protocol.         *)
(***************************************************************************)
CONSTANTS BUFFERSIZE,  \* LUAL_BUFFERSIZE: what a luaL_Buffer holds before it moves
          Values,      \* column type -> the values a server may send
          Lists,       \* sequences of column types
          Params       \* sequences of parameters

Err == [ok |-> FALSE, pos |-> 0, v |-> <<>>]
At(pos, v) == [ok |-> TRUE, pos |-> pos, v |-> v]

(* binary_read_uint8 ... binary_read_float64le: n bytes, or an error if they are not there *)
binary_read(p, c, n) ==
  IF ~c.ok \/ c.pos + n > Len(p) THEN Err ELSE At(c.pos + n, SubSeq(p, c.pos + 1, c.pos + n))

\* The number n bytes (up to three) stand for, lowest first; and as a signed one.
Unsigned(b) == LET v[i \in 0..Len(b)] == IF i = 0 THEN 0 ELSE v[i - 1] + b[i] * 256^(i - 1) IN v[Len(b)]
SignedOf(b) == IF Last(b) >= 128 THEN Unsigned(b) - 256^Len(b) ELSE Unsigned(b)
Uint(c) == IF c.ok THEN At(c.pos, Unsigned(c.v)) ELSE Err

(* binary_read_lenenc_with_null and binary_read_lenenc; lengths of eight bytes are out of bounds *)
FromFirst(p, f, null) ==
  IF ~f.ok THEN Err
  ELSE CASE f.v < 251 -> f
         [] f.v = 251 -> IF null THEN At(f.pos, -1) ELSE Err
         [] f.v = 252 -> Uint(binary_read(p, f, 2))
         [] f.v = 253 -> Uint(binary_read(p, f, 3))
         [] OTHER -> Err
binary_read_lenenc(p, c, null) == FromFirst(p, Uint(binary_read(p, c, 1)), null)

(* A string with its length in front: parse_field, the message of an OK packet *)
Counted(p, n) == IF n.ok THEN binary_read(p, n, n.v) ELSE Err
lenenc_string(p, c) == Counted(p, binary_read_lenenc(p, c, FALSE))

(* parse_timestamp: the parts that are printed, by the length in front *)
TimestampOf(p, n) ==
  IF ~n.ok THEN Err ELSE IF n.v = 0 THEN At(n.pos, <<>>)
  ELSE IF n.v \in {4, 7, 11} THEN binary_read(p, n, n.v)
  ELSE IF binary_read(p, n, 4).ok THEN At(n.pos + 4, <<"2017-09-09 20:08:09">>) ELSE Err
parse_timestamp(p, c) == TimestampOf(p, Uint(binary_read(p, c, 1)))

(* parse_time: sign, hours with the days in them, and the rest *)
Clock(t) ==
  IF ~t.ok THEN Err
  ELSE At(t.pos, <<t.v[1] # 0, t.v[6] + 24 * Unsigned(SubSeq(t.v, 2, 4)), SubSeq(t.v, 7, Len(t.v))>>)
TimeOf(p, n) ==
  IF ~n.ok THEN Err ELSE IF n.v = 0 THEN At(n.pos, <<>>)
  ELSE Clock(binary_read(p, n, IF n.v > 8 THEN 12 ELSE 8))
parse_time(p, c) == TimeOf(p, Uint(binary_read(p, c, 1)))

Width == [TINY |-> 1, SHORT |-> 2, INT24 |-> 3]

Integer(b, unsigned) == IF b.ok THEN At(b.pos, IF unsigned THEN Unsigned(b.v) ELSE SignedOf(b.v)) ELSE Err
Tagged(tag, c) == IF c.ok THEN At(c.pos, <<tag, c.v>>) ELSE Err
(* parse_field for a column of type [t, unsigned] *)
parse_field(p, c, col) ==
  CASE col.t \in {"TINY", "SHORT", "INT24"} ->
         Tagged("int", Integer(binary_read(p, c, Width[col.t]), col.unsigned))
    [] col.t = "LONG" -> Tagged(IF col.unsigned THEN "u32" ELSE "i32", binary_read(p, c, 4))
    [] col.t \in {"LONGLONG", "DOUBLE"} -> Tagged("wide", binary_read(p, c, 8))
    [] col.t = "DATETIME" -> Tagged("timestamp", parse_timestamp(p, c))
    [] col.t = "TIME" -> Tagged("time", parse_time(p, c))
    [] OTHER -> Tagged("string", lenenc_string(p, c))

\* Bit number i (from 0) of a map that starts after position pos.
Bit(p, pos, i) == (p[pos + 1 + i \div 8] \div 2^(i % 8)) % 2 = 1

(* lparse_row_data_binary: the columns one by one; one whose bit is set has no value *)
Column(c, f) == IF f.ok THEN At(f.pos, Append(c.v, f.v)) ELSE Err
lparse_row_data_binary(p, cols) ==
  LET ncols == Len(cols)
      null_bytes == (ncols + 7 + 2) \div 8
      step(c, i) ==
        IF ~c.ok THEN c
        ELSE IF Bit(p, 1, i - 1 + 2) THEN At(c.pos, Append(c.v, <<"nil">>))
        ELSE Column(c, parse_field(p, c, cols[i]))
  IN IF Len(p) <= 1 THEN Err
     ELSE FoldLeft(step, At(1 + null_bytes, <<>>), [i \in 1..ncols |-> i])

(* lparse_column_def: name, type and flags; the strings before and after the name are skipped,
   and whether the name was inside the packet shows when the numbers behind it are read *)
Behind(n) == IF n.ok THEN At(n.pos + n.v, <<>>) ELSE Err
SkipStrings(p, c, k) ==
  LET after[i \in 0..k] == IF i = 0 THEN c ELSE Behind(binary_read_lenenc(p, after[i - 1], FALSE)) IN after[k]
ColumnDef(p, name, type, flags) ==
  IF ~flags.ok THEN Err
  ELSE At(flags.pos, [name |-> SubSeq(p, name.pos + 1, name.pos + name.v), type |-> type.v, flags |-> flags.v])
ColumnFlags(p, name, type) == ColumnDef(p, name, type, Uint(binary_read(p, type, 2)))
OneOn(c) == IF c.ok THEN At(c.pos + 1, <<>>) ELSE Err
ColumnFrom(p, a) ==
  ColumnFlags(p, binary_read_lenenc(p, a, FALSE),
              Uint(binary_read(p, binary_read(p, OneOn(SkipStrings(p, a, 2)), 6), 1)))
lparse_column_def(p) == ColumnFrom(p, SkipStrings(p, At(0, <<>>), 4))

(* lparse_ok_packet, lparse_eof_packet, lparse_err_packet *)
\* What the reads of an OK packet gave, one behind the other.
OkPacket(reads, msg) ==
  IF ~Last(reads).ok \/ ~msg.ok THEN Err
  ELSE At(msg.pos, [i \in 1..Len(reads) |-> reads[i].v] \o <<msg.v>>)
OkMessage(p, reads) ==
  OkPacket(reads, IF Last(reads).pos < Len(p) THEN lenenc_string(p, Last(reads)) ELSE At(Last(reads).pos, <<>>))
lparse_ok_packet(p) ==
  LET read[i \in 0..4] == IF i = 0 THEN At(1, <<>>)
                          ELSE IF i <= 2 THEN binary_read_lenenc(p, read[i - 1], FALSE)
                          ELSE Uint(binary_read(p, read[i - 1], 2))
  IN OkMessage(p, <<read[1], read[2], read[3], read[4]>>)

lparse_eof_packet(p) ==
  LET warnings == Uint(binary_read(p, At(1, <<>>), 2))
      status == Uint(binary_read(p, warnings, 2))
  IN IF status.ok THEN At(status.pos, <<warnings.v, status.v>>) ELSE Err

\* A report of progress (0xffff) is parsed and then not returned.
ErrMessage(p, errn, mark, state) ==
  IF ~mark.ok \/ ~state.ok THEN Err
  ELSE At(Len(p), <<errn.v, state.v, SubSeq(p, state.pos + 1, Len(p))>>)
ErrState(p, errn, mark) ==
  ErrMessage(p, errn, mark, IF mark.v = 35 THEN binary_read(p, mark, 5) ELSE At(mark.pos, <<>>))
Dropped(c) == IF c.ok THEN At(c.pos, <<>>) ELSE Err
ErrPacket(p, errn) ==
  IF ~errn.ok THEN Err
  ELSE IF errn.v = 65535 THEN Dropped(lenenc_string(p, binary_read(p, errn, 6)))   \* behind two stages and the progress
  ELSE ErrState(p, errn, Uint(binary_read(p, errn, 1)))
lparse_err_packet(p) == ErrPacket(p, Uint(binary_read(p, At(1, <<>>), 2)))

(* lparse_lenenc: the number at pos and the position behind it; -1 for NULL *)
lparse_lenenc(p, pos) == LET c == binary_read_lenenc(p, At(pos - 1, <<>>), TRUE)
                         IN IF c.ok THEN At(c.pos + 1, c.v) ELSE Err
lparse_local_infile_packet(p) == SubSeq(p, 2, Len(p))

Le(n, k) == [i \in 1..k |-> (n \div 256^(i-1)) % 256]
(* luaL_addlenenc_string *)
addlenenc_string(s) ==
  (IF Len(s) < 251 THEN <<Len(s)>> ELSE IF Len(s) < 65536 THEN <<252>> \o Le(Len(s), 2)
   ELSE <<253>> \o Le(Len(s), 3)) \o s

TypeOf == [int |-> 8, float |-> 5, string |-> 15, boolean |-> 1, nil |-> 6]
Encoded(a) == CASE a.k = "string" -> addlenenc_string(a.v) [] a.k = "nil" -> <<>> [] OTHER -> a.v

(* add_params: the types and the null map are written through pointers into the buffer; once it
   has moved (stale) they are written where nobody reads them. *)
add_params(head, args) ==
  LET n == Len(args)
      nulls == (n + 7) \div 8
      m == Len(head)                       \* the null map starts here, the types at t
      t == m + nulls + 1
      start == [b |-> head \o Le(0, nulls) \o <<1>> \o [i \in 1..2 * n |-> 0],
                stale |-> t + 2 * n > BUFFERSIZE]
      mark(acc, i) ==
        IF acc.stale THEN acc.b
        ELSE [acc.b EXCEPT ![t + 2 * i - 1] = TypeOf[args[i].k],
                           ![m + 1 + (i - 1) \div 8] = @ + IF args[i].k = "nil" THEN 2^((i - 1) % 8) ELSE 0]
      step(acc, i) == [b |-> mark(acc, i) \o Encoded(args[i]),
                       stale |-> acc.stale \/ Len(acc.b \o Encoded(args[i])) > BUFFERSIZE]
  IN FoldLeft(step, start, [i \in 1..n |-> i]).b

(* lcompose_stmt_execute *)
lcompose_stmt_execute(id, args) ==
  LET head == <<23>> \o Le(id, 4) \o <<0>> \o Le(1, 4)
  IN IF args = <<>> THEN head ELSE add_params(head, args)
-----------------------------------------------------------------------------
\* The server: the map of nulls with the bits shifted by off, a row, the reading of parameters.
NullMap(flags, off) ==
  [b \in 1..(Len(flags) + 7 + off) \div 8 |->
     LET set == {k \in 0..7 : LET i == 8 * (b - 1) + k + 1 - off IN i \in 1..Len(flags) /\ flags[i]}
     IN FoldLeft(LAMBDA acc, k : acc + (IF k \in set THEN 2^k ELSE 0), 0, <<0, 1, 2, 3, 4, 5, 6, 7>>)]
Row(vals) == <<0>> \o NullMap([i \in 1..Len(vals) |-> vals[i].wire = <<>>], 2)
             \o FoldLeft(LAMBDA acc, v : acc \o v.wire, <<>>, vals)

ServerParams(p, args) ==
  LET n == Len(args)
      nulls == (n + 7) \div 8
      types == 10 + nulls + 1
      body == FoldLeft(LAMBDA acc, a : acc \o Encoded(a), <<>>, args)
  IN /\ \A i \in 1..n : p[types + 2 * i - 1] = TypeOf[args[i].k] /\ p[types + 2 * i] = 0
     /\ SubSeq(p, 11, 10 + nulls) = NullMap([i \in 1..n |-> args[i].k = "nil"], 0)
     /\ SubSeq(p, types + 2 * n + 1, Len(p)) = body

MySqlInputs == UNION {[kind : {"row"}, cols : {l}, vals : {v \in [1..Len(l) -> UNION {Values[l[i]] : i \in 1..Len(l)}] :
                                                    \A i \in 1..Len(l) : v[i] \in Values[l[i]]}] : l \in Lists}
     \cup [kind : {"params"}, args : Params]
     \cup [kind : {"packet"}, n : {0, 250, 251, 65535, 65536}, s : {<<>>, <<7>>}]

MySqlInit == input = [kind |-> "none"]
MySqlNext == input.kind = "none" /\ \E i \in MySqlInputs : input' = i
-----------------------------------------------------------------------------
(* A row gives back its values, negative numbers and nulls where they are, for every number of
   columns; cut off behind the map it is an error, never a wrong row. *)
RowsExact ==
  input.kind = "row" =>
    LET p == Row(input.vals)
        n == Len(input.vals)
        got == lparse_row_data_binary(p, input.cols)
    IN /\ got = At(Len(p), [i \in 1..n |-> input.vals[i].value])
       /\ \A k \in 1 + (n + 9) \div 8 .. Len(p) - 1 :
            ~lparse_row_data_binary(SubSeq(p, 1, k), input.cols).ok

(* The server reads the parameters that were given, as long as the buffer has not moved before
   the last type was written. *)
ParamsExact ==
  input.kind = "params" =>
    LET a == input.args
        before == FoldLeft(LAMBDA acc, x : acc + Len(Encoded(x)), 0, IF a = <<>> THEN a ELSE Front(a))
    IN (a # <<>> /\ 10 + (Len(a) + 7) \div 8 + 1 + 2 * Len(a) + before <= BUFFERSIZE)
         => ServerParams(lcompose_stmt_execute(9, a), a)

(* OK, EOF and ERR packets and column definitions are read as they were written. *)
PacketsExact ==
  input.kind = "packet" =>
    LET num == IF input.n < 251 THEN <<input.n>> ELSE IF input.n < 65536 THEN <<252>> \o Le(input.n, 2)
               ELSE <<253>> \o Le(input.n, 3)
        s == input.s
        ok == <<0>> \o num \o num \o Le(2, 2) \o Le(1, 2)
        col == <<3, 1, 2, 3>> \o addlenenc_string(s) \o <<0>> \o <<1, 5>> \o <<2, 8, 9>> \o addlenenc_string(s)
               \o <<12>> \o Le(33, 2) \o Le(255, 4) \o <<253>> \o Le(4129, 2) \o <<0, 0, 0>>
    IN /\ \A m \in {<<>>, s} :
            LET whole == IF m = <<>> THEN ok ELSE ok \o <<Len(m)>> \o m
            IN lparse_ok_packet(whole) = At(Len(whole), <<input.n, input.n, 2, 1, m>>)
       /\ \A k \in 1..Len(ok)-1 : ~lparse_ok_packet(SubSeq(ok, 1, k)).ok
       /\ lparse_lenenc(s \o num \o s, Len(s) + 1) = At(Len(s) + Len(num) + 1, input.n)
       /\ lparse_lenenc(<<251>> \o s, 1) = At(2, -1)
       /\ lparse_local_infile_packet(<<251>> \o s) = s
       /\ lparse_err_packet(<<255, 255, 255, 1, 2, 0, 0, 0, 0>> \o addlenenc_string(s)).ok
       /\ lparse_eof_packet(<<254, 1, 0, 8, 0>>).v = <<1, 8>>
       /\ lparse_err_packet(<<255>> \o Le(1062, 2) \o <<35, 50, 51, 48, 48, 48>> \o s).v
            = <<1062, <<50, 51, 48, 48, 48>>, s>>
       /\ lparse_column_def(col).v = [name |-> <<8, 9>>, type |-> 253, flags |-> 4129]
       /\ \A k \in 0..Len(col)-4 : ~lparse_column_def(SubSeq(col, 1, k)).ok

MySqlCodecExact == RowsExact /\ ParamsExact /\ PacketsExact

-----------------------------------------------------------------------------
(***************************************************************************)
(* The HPACK tables of lhttp.c: the table of the sender (sendhpack) and    *)
(* that of the receiver (recvhpack), kept in step by the header blocks     *)
(* that pass between them.  A field is a model value with a size; literals *)
(* travel as the field itself (their encoding is modelled above).          *)
(***************************************************************************)
CONSTANTS Fields,     \* header fields, as <<name, size>>
          Static,     \* the ones in the static table
          Limit,      \* default_header_table_size
          CacheLimit, \* HTTP2_HEADER_SIZE: larger fields are not cached
          PruneAt,    \* 64 in the code
          MaxBlock    \* fields in one block

VARIABLES enc, dec,   \* the two tables
          decodes,    \* every block so far was decoded
          exact       \* ... to the fields that were encoded

(* Entry i of the queue has the absolute index tail + i - 1. *)
lhpack_new == [queue |-> <<>>, tail |-> 1, used |-> 1, evicted |-> 0, size |-> 0]
head(t) == t.tail + Len(t.queue)
Size(f) == f[2]

TableInit == enc = lhpack_new /\ dec = lhpack_new /\ decodes = TRUE /\ exact = TRUE

SizeOf(q) == LET sum[i \in 0..Len(q)] == IF i = 0 THEN 0 ELSE sum[i-1] + Size(q[i]) IN sum[Len(q)]

(* prune: the entries are renumbered from 1. *)
prune(t) == [t EXCEPT !.used = @ - (t.tail - 1), !.tail = 1, !.evicted = 0]

(* try_evict: when a field does not fit, every entry below queue_used_min goes. *)
try_evict(t, left) ==
  LET n == IF t.tail < t.used THEN t.used - t.tail ELSE 0
      rest == SubSeq(t.queue, n + 1, Len(t.queue))
      e == [t EXCEPT !.queue = rest, !.tail = @ + n, !.evicted = @ + n, !.size = SizeOf(rest)]
  IN IF Limit - t.size >= left THEN t
     ELSE IF e.evicted > head(e) \div 2 /\ e.evicted > PruneAt THEN prune(e) ELSE e


add_to_table(t, f) ==
  LET e == try_evict(t, Size(f))
  IN IF Limit - e.size < Size(f) THEN e
     ELSE [e EXCEPT !.queue = Append(@, f), !.size = @ + Size(f)]

Item(kind, f, id) == [kind |-> kind, f |-> f, id |-> id]

(* pack_field: an index, a literal to be cached, or a plain literal.  A reference keeps the
   entries from it on out of try_evict's reach. *)
pack_field(t, f) ==
  LET at == {i \in 1..Len(t.queue) : t.queue[i] = f}
      i == CHOOSE i \in at : TRUE
      idx == t.tail + i - 1
      added == add_to_table(t, f)
      cached == Len(added.queue) > 0 /\ added.queue[Len(added.queue)] = f
  IN CASE f \in Static -> [t |-> t, item |-> Item("static", f, 0)]
       [] Size(f) >= CacheLimit -> [t |-> t, item |-> Item("plain", f, 0)]
       [] at # {} /\ f \notin Static /\ Size(f) < CacheLimit ->
            [t |-> [t EXCEPT !.used = IF idx < @ THEN idx ELSE @],
             item |-> Item("index", <<>>, head(t) - idx)]
       [] OTHER -> [t |-> added, item |-> Item(IF cached THEN "cache" ELSE "plain", f, 0)]

(* lhpack_pack *)
pack(t, fields) ==
  LET go[i \in 0..Len(fields)] ==
        IF i = 0 THEN [t |-> [t EXCEPT !.used = head(t)], items |-> <<>>]
        ELSE LET before == go[i-1]
                 p == pack_field(before.t, fields[i])
             IN [t |-> p.t, items |-> Append(before.items, p.item)]
  IN go[Len(fields)]

(* lhpack_unpack: a reference is looked up, and does not lower queue_used_min. *)
unpack(t, items) ==
  LET go[i \in 0..Len(items)] ==
        IF i = 0 THEN [t |-> [t EXCEPT !.used = head(t)], fields |-> <<>>, ok |-> TRUE]
        ELSE LET p == go[i-1]
                 it == items[i]
                 valid == it.id <= Len(p.t.queue)
             IN IF ~p.ok THEN p
                ELSE IF it.kind # "index"
                     THEN [p EXCEPT !.fields = Append(@, it.f),
                                    !.t = IF it.kind = "cache" THEN add_to_table(@, it.f) ELSE @]
                ELSE IF ~valid THEN [p EXCEPT !.ok = FALSE]
                ELSE [p EXCEPT !.fields = Append(@, p.t.queue[Len(p.t.queue) + 1 - it.id])]
  IN go[Len(items)]

(* One header block is packed, sent and unpacked; a block that does not decode ends the connection. *)
Block(fields) ==
  LET p == pack(enc, fields)
      u == unpack(dec, p.items)
  IN /\ decodes
     /\ enc' = p.t /\ dec' = u.t
     /\ decodes' = u.ok
     /\ exact' = (exact /\ (u.ok => u.fields = fields))

Blocks == UNION {[1..n -> Fields] : n \in 1..MaxBlock}
TableNext == \E fields \in Blocks : Block(fields)

-----------------------------------------------------------------------------
(* A block that is decoded is decoded to the fields that were encoded: an index never names
   another header, even after evictions and renumbering on either side. *)
NeverAnother == exact

(* Both tables stay within the limit they agreed on.  One may have evicted more than the other,
   but counted from the young end, as indices are, they hold the same fields. *)
TablesAligned ==
  /\ \A t \in {enc, dec} : t.size = SizeOf(t.queue) /\ t.size <= Limit
  /\ decodes => \A i \in 0..Len(dec.queue)-1 :
        i < Len(enc.queue) => dec.queue[Len(dec.queue) - i] = enc.queue[Len(enc.queue) - i]

HpackExact == NeverAnother /\ TablesAligned
=============================================================================
