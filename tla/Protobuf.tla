------------------------------ MODULE Protobuf ------------------------------
(***************************************************************************)
(* pb.h and pb.c, the protobuf of silly.encoding: the wire format, the     *)
(* loading of a schema, the tables of types, and messages written and read *)
(* from Lua tables.                                                        *)
(***************************************************************************)
EXTENDS Integers, Sequences, SequencesExt, TLC, FiniteSets

(***************************************************************************)
(* The wire format of pb.h: varints, fixed words, slices, groups, what an  *)
(* unknown field is skipped with, and the writers. A slice is the sequence *)
(* of the bytes from p to end; a word of 32 or 64 bits has W32 or W64 bits *)
(* (multiples of 8, not of 7: the last group of a varint is cut).          *)
(***************************************************************************)
\* Scaled down: 3 and 4 groups of seven bits for the 5 and 10 of 32 and 64.
W32 == 16
W64 == 24

VARINT == 0
BIT64 == 1
BYTES == 2
GSTART == 3
GEND == 4
BIT32 == 5

pb_gettype(tag) == tag % 8
pb_gettag(tag) == tag \div 8
pb_pair(number, wiretype) == (number * 8 + wiretype) % 2^W32

\* Groups of seven bits in a word: 5 and 10.
GroupsOf(w) == (w + 6) \div 7
MaxGroups == GroupsOf(W64)

Signed(u, w) == IF u >= 2^(w - 1) THEN u - 2^w ELSE u
\* The number whose digits to the base b, lowest first, are the first n of s.
Number(s, n, b) ==
  LET v[i \in 0..n] == IF i = 0 THEN 0 ELSE v[i - 1] + s[i] * b^(i - 1) IN v[n]

Fail(s) == [ok |-> FALSE, v |-> 0, rest |-> s]
Got(v, s, n) == [ok |-> TRUE, v |-> v, rest |-> SubSeq(s, n + 1, Len(s))]

\* Where the varint at the head of s ends; 0 if no byte of the first n ends it.
Earliest(ends) == IF ends = {} THEN 0 ELSE Min(ends)
EndWithin(s, n) == Earliest({i \in 1..Len(s) : i <= n /\ s[i] < 128})

(* One byte after the other, the top bits taken off. *)
Groups(s, n) ==
  IF n = 0 THEN Fail(s)
  ELSE Got(Number([i \in 1..n |-> s[i] % 128], n, 128) % 2^W64, s, n)
pb_readvarint_slow(s) == Groups(s, EndWithin(s, MaxGroups))

(* Without a look at the end of the slice: every byte added whole, its top bit subtracted when
   the next one is there; bytes past the width of the word are only passed over. If no byte of the
   slice ends the varint it reads on behind it, and what it returns is anybody's guess (-1). *)
WholeBytes(s, w, n) ==
  LET used == IF n < GroupsOf(w) THEN n ELSE GroupsOf(w)
  IN IF n = 0 THEN IF Len(s) < MaxGroups THEN Got(-1, s, Len(s)) ELSE Fail(s)
     ELSE Got((Number(s, used, 128) - Number([i \in 1..used - 1 |-> 128], used - 1, 128)) % 2^w, s, n)
pb_readvarint_fallback(s, w) == WholeBytes(s, w, EndWithin(s, MaxGroups))

(* pb_readvarint32 and pb_readvarint64: the fallback only where the varint cannot run past the end *)
pb_readvarint(s, w) ==
  IF s = <<>> THEN Fail(s)
  ELSE IF s[1] < 128 THEN Got(s[1], s, 1)
  ELSE IF Len(s) >= MaxGroups \/ Last(s) < 128 THEN pb_readvarint_fallback(s, w)
  ELSE LET r == pb_readvarint_slow(s) IN [r EXCEPT !.v = @ % 2^w]

(* pb_readfixed32 and pb_readfixed64: little endian *)
pb_readfixed(s, w) ==
  IF Len(s) < w \div 8 THEN Fail(s)
  ELSE Got(Number(s, w \div 8, 256), s, w \div 8)

pb_readslice(s, len) == IF Len(s) < len THEN Fail(s) ELSE Got(SubSeq(s, 1, len), s, len)

Counted(s, l) == IF ~l.ok \/ Len(l.rest) < l.v THEN Fail(s) ELSE pb_readslice(l.rest, l.v)
pb_readbytes(s) == Counted(s, pb_readvarint(s, W64))

pb_skipvarint(s) ==
  LET n == EndWithin(s, Len(s)) IN IF n = 0 THEN Fail(s) ELSE Got(0, s, n)

RECURSIVE pb_skipvalue(_, _), pb_readgroup(_, _), GroupField(_, _, _)
OrFail(s, r) == IF r.ok THEN r ELSE Fail(s)
(* The fields of a group up to its own end tag; an end tag of another group, or a field that cannot
   be skipped, is an error. *)
NextOf(skipped, tag) == IF skipped.ok THEN pb_readgroup(skipped.rest, tag) ELSE skipped
GroupField(s, tag, t) ==
  IF ~t.ok THEN Fail(s)
  ELSE IF pb_gettype(t.v) = GEND
  THEN IF pb_gettag(t.v) = pb_gettag(tag) THEN [t EXCEPT !.v = 0] ELSE Fail(s)
  ELSE OrFail(s, NextOf(pb_skipvalue(t.rest, t.v), tag))
pb_readgroup(s, tag) == GroupField(s, tag, pb_readvarint(s, W32))

(* s is left where it was when the value cannot be skipped. A group whose length is 0 cannot be:
   the end tag counts. *)
pb_skipvalue(s, tag) ==
  LET wt == pb_gettype(tag)
  IN CASE wt = VARINT -> pb_skipvarint(s)
       [] wt = BIT64 -> pb_readslice(s, W64 \div 8)
       [] wt = BYTES -> pb_readbytes(s)
       [] wt = BIT32 -> pb_readslice(s, W32 \div 8)
       [] wt = GSTART -> pb_readgroup(s, tag)
       [] OTHER -> Fail(s)

pb_wtypebytype(type) ==
  CASE type \in {"int64", "uint64", "int32", "bool", "uint32", "enum", "sint32", "sint64"} -> VARINT
    [] type \in {"double", "fixed64", "sfixed64"} -> BIT64
    [] type \in {"float", "fixed32", "sfixed32"} -> BIT32
    [] type \in {"string", "bytes", "message"} -> BYTES

(* pb_write32 and pb_write64: as many groups as the number has, the top bit on all but the last *)
pb_addvarint(n) ==
  LET count == CHOOSE k \in 1..MaxGroups :
                n < 128^k /\ (k > 1 => n >= 128^(k - 1))
  IN [i \in 1..count |-> ((n \div 128^(i - 1)) % 128) + (IF i < count THEN 128 ELSE 0)]

pb_addfixed(n, w) == [i \in 1..w \div 8 |-> (n \div 256^(i - 1)) % 256]

pb_addbytes(bytes) == pb_addvarint(Len(bytes)) \o bytes

(* The length of what follows position len is written into the prealloc bytes kept for it before
   len; the bytes move up when it needs more. *)
pb_addlength(b, len, prealloc) ==
  SubSeq(b, 1, len - prealloc) \o pb_addvarint(Len(b) - len) \o SubSeq(b, len + 1, Len(b))

(* pb_encode_sint32 and 64: (value << 1) ^ -(value < 0), the complement for a negative value *)
pb_encode_sint(value, w) ==
  IF value < 0 THEN (2^w - 1) - ((2 * value) % 2^w) ELSE (2 * value) % 2^w
pb_decode_sint(u, w) ==
  Signed(IF u % 2 = 1 THEN (2^w - 1) - (u \div 2) ELSE u \div 2, w)
(* (value ^ m) - m: a negative int32 takes all the groups of an int64 *)
pb_expandsig(u) ==
  LET m == 2^(W32 - 1) IN ((IF u >= m THEN u - m ELSE u + m) - m) % 2^W64

-----------------------------------------------------------------------------
(***************************************************************************)
(* pb.load: a FileDescriptorSet is read into infos, and the infos are      *)
(* entered into the types known so far. A name is its bytes (the code      *)
(* interns them); a slice that may be NULL is <<>> or <<bytes>>. A type has *)
(* its fields twice, by name and by number.                                *)
(***************************************************************************)
Dot == 46
proto3 == <<112, 114, 111, 116, 111, 51>>

-----------------------------------------------------------------------------
(* The parsers: for every tag a parser knows, what it does with the value:
     bytes, int   into the info;    int+1  the same, counted from one
     push         bytes, appended to a list of the info
     add          a message, parsed into a new info at the end of a list
     in           a message, parsed into the same info
   Any other tag is skipped. *)
pbL_FieldOptions == pb_pair(2, VARINT) :> <<"int", "packed">>

pbL_FieldDescriptorProto ==
     pb_pair(1, BYTES) :> <<"bytes", "name">>      @@ pb_pair(3, VARINT) :> <<"int", "number">>
  @@ pb_pair(4, VARINT) :> <<"int", "label">>      @@ pb_pair(5, VARINT) :> <<"int", "type">>
  @@ pb_pair(6, BYTES) :> <<"bytes", "type_name">> @@ pb_pair(2, BYTES) :> <<"bytes", "extendee">>
  @@ pb_pair(7, BYTES) :> <<"bytes", "default_value">>
  @@ pb_pair(8, BYTES) :> <<"in", "FieldOptions">> @@ pb_pair(9, VARINT) :> <<"int+1", "oneof_index">>

pbL_EnumValueDescriptorProto ==
  pb_pair(1, BYTES) :> <<"bytes", "name">> @@ pb_pair(2, VARINT) :> <<"int", "number">>

pbL_EnumDescriptorProto ==
  pb_pair(1, BYTES) :> <<"bytes", "name">> @@ pb_pair(2, BYTES) :> <<"add", "EnumValue", "value">>

pbL_MessageOptions == pb_pair(7, VARINT) :> <<"int", "is_map">>

pbL_OneofDescriptorProto == pb_pair(1, BYTES) :> <<"push", "oneof_decl">>

pbL_DescriptorProto ==
     pb_pair(1, BYTES) :> <<"bytes", "name">>
  @@ pb_pair(2, BYTES) :> <<"add", "Field", "field">>
  @@ pb_pair(6, BYTES) :> <<"add", "Field", "extension">>
  @@ pb_pair(3, BYTES) :> <<"add", "Type", "nested_type">>
  @@ pb_pair(4, BYTES) :> <<"add", "Enum", "enum_type">>
  @@ pb_pair(8, BYTES) :> <<"in", "Oneof">>
  @@ pb_pair(7, BYTES) :> <<"in", "MessageOptions">>

pbL_FileDescriptorProto ==
     pb_pair(2, BYTES) :> <<"bytes", "package">>
  @@ pb_pair(4, BYTES) :> <<"add", "Type", "message_type">>
  @@ pb_pair(5, BYTES) :> <<"add", "Enum", "enum_type">>
  @@ pb_pair(7, BYTES) :> <<"add", "Field", "extension">>
  @@ pb_pair(12, BYTES) :> <<"bytes", "syntax">>

pbL_FileDescriptorSet == pb_pair(1, BYTES) :> <<"add", "File", "files">>

Layout == [FieldOptions |-> pbL_FieldOptions, Field |-> pbL_FieldDescriptorProto,
           EnumValue |-> pbL_EnumValueDescriptorProto, Enum |-> pbL_EnumDescriptorProto,
           MessageOptions |-> pbL_MessageOptions, Oneof |-> pbL_OneofDescriptorProto,
           Type |-> pbL_DescriptorProto, File |-> pbL_FileDescriptorProto,
           Set |-> pbL_FileDescriptorSet]

(* The infos as pbL_grow clears them; packed is not set until an option sets it. *)
pbL_Info ==
  [Field |-> [name |-> <<>>, type_name |-> <<>>, extendee |-> <<>>, default_value |-> <<>>, number |-> 0,
              label |-> 0, type |-> 0, oneof_index |-> 0, packed |-> -1],
   EnumValue |-> [name |-> <<>>, number |-> 0],
   Enum |-> [name |-> <<>>, value |-> <<>>],
   Type |-> [name |-> <<>>, is_map |-> 0, field |-> <<>>, extension |-> <<>>, enum_type |-> <<>>,
             nested_type |-> <<>>, oneof_decl |-> <<>>],
   File |-> [package |-> <<>>, syntax |-> <<>>, enum_type |-> <<>>, message_type |-> <<>>,
             extension |-> <<>>],
   Set |-> [files |-> <<>>]]

RECURSIVE pbL_parse(_, _, _)
\* What a step of a parser makes of the info, and where it goes on.
Into(info, r) == [ok |-> r.ok, info |-> info, rest |-> r.rest]
IntInto(a, info, r) ==
  Into(IF r.ok THEN [info EXCEPT ![a[2]] = Signed(r.v, W32) + (IF a[1] = "int" THEN 0 ELSE 1)] ELSE info, r)
SubInto(a, info, r, sub) ==
  [ok |-> sub.ok, rest |-> r.rest,
   info |-> IF ~sub.ok THEN info ELSE IF a[1] = "in" THEN sub.info ELSE [info EXCEPT ![a[3]] = Append(@, sub.info)]]
BytesInto(a, info, r) ==
  CASE ~r.ok -> Into(info, r)
    [] r.ok /\ a[1] = "bytes" -> Into([info EXCEPT ![a[2]] = <<r.v>>], r)
    [] r.ok /\ a[1] = "push" -> Into([info EXCEPT ![a[2]] = Append(@, r.v)], r)
    [] OTHER -> SubInto(a, info, r, pbL_parse(a[2], IF a[1] = "in" THEN info ELSE pbL_Info[a[2]], r.v))
FieldInto(layout, info, t) ==
  IF t.v \notin DOMAIN layout THEN Into(info, pb_skipvalue(t.rest, t.v))
  ELSE IF layout[t.v][1] \in {"int", "int+1"} THEN IntInto(layout[t.v], info, pb_readvarint(t.rest, W32))
  ELSE BytesInto(layout[t.v], info, pb_readbytes(t.rest))
GoOn(parser, info, r) == IF r.ok THEN pbL_parse(parser, r.info, r.rest) ELSE [ok |-> FALSE, info |-> info]
FromTag(parser, info, t) ==
  IF t.ok THEN GoOn(parser, info, FieldInto(Layout[parser], info, t)) ELSE [ok |-> TRUE, info |-> info]
(* The loop every parser is: a tag that cannot be read ends the message. *)
pbL_parse(parser, info, s) == FromTag(parser, info, pb_readvarint(s, W32))

-----------------------------------------------------------------------------
(* Entering the infos. Everything entered before an error stays. *)
TypeId == <<"double", "float", "int64", "uint64", "int32", "fixed64", "fixed32", "bool", "string", "group",
            "message", "bytes", "uint32", "enum", "sfixed32", "sfixed64", "sint32", "sint64">>

Loaded(ts) == [ok |-> TRUE, ts |-> ts]
Error(ts) == [ok |-> FALSE, ts |-> ts]
\* One after the other, until one fails.
InTurn(Load(_, _), infos, ts) ==
  FoldLeft(LAMBDA acc, info : IF acc.ok THEN Load(info, acc.ts) ELSE acc, Loaded(ts), infos)
Then(r, Load(_)) == IF r.ok THEN Load(r.ts) ELSE r

pbT_inittype == [names |-> <<>>, tags |-> <<>>, oneofs |-> <<>>, is_enum |-> FALSE, is_map |-> FALSE,
                 is_proto3 |-> FALSE, is_dead |-> FALSE]

(* A type that is only referred to is known, without fields. *)
pb_newtype(ts, name) ==
  IF name \in DOMAIN ts THEN [ts EXCEPT ![name].is_dead = FALSE] ELSE (name :> pbT_inittype) @@ ts

(* Both entries are the new field's; a field it replaces in one of them stays in the other. *)
pb_newfield(t, f) ==
  [t EXCEPT !.names = (f.name :> f) @@ @, !.tags = (f.number :> f) @@ @]

pbL_prefixname(prefix, name) == prefix \o <<Dot>> \o name

pbL_loadEnum(info, prefix, ts) ==
  LET name == pbL_prefixname(prefix, info.name[1])
      ts1 == pb_newtype(ts, name)
      AddValue(ev, acc) ==
        IF ev.name = <<>> THEN Error(acc)
        ELSE Loaded([acc EXCEPT ![name] = pb_newfield(@, [name |-> ev.name[1], number |-> ev.number])])
  IN IF info.name \in {<<>>, <<<<>>>>} THEN Error(ts)
     ELSE InTurn(AddValue, info.value, [ts1 EXCEPT ![name].is_enum = TRUE])

(* owner is the type being loaded, or <<>> for an extension *)
pbL_loadField(info, owner, isproto3, ts) ==
  LET typed == info.type \in {11, 14}
      tname == IF owner # <<>> THEN owner ELSE info.extendee
      ts1 == IF typed THEN pb_newtype(ts, info.type_name[1]) ELSE ts
      ts2 == IF owner # <<>> THEN ts1 ELSE pb_newtype(ts1, tname[1])
      repeated == info.label = 3
      packed == IF info.packed >= 0 THEN info.packed % 2 = 1 ELSE isproto3 /\ repeated
      f == [name |-> info.name[1], number |-> info.number, type |-> TypeId[info.type],
            sub |-> IF typed THEN info.type_name ELSE <<>>, oneof |-> info.oneof_index,
            repeated |-> repeated, packed |-> packed /\ info.type \notin 9..12,
            default_value |-> info.default_value]
  IN IF typed /\ info.type_name = <<>> THEN Error(ts)
     ELSE IF tname = <<>> THEN Error(ts1)
     ELSE IF info.name = <<>> THEN Error(ts2)
     ELSE Loaded([ts2 EXCEPT ![tname[1]] = pb_newfield(@, f)])

RECURSIVE pbL_loadType(_, _, _, _)
pbL_loadType(info, prefix, isproto3, ts) ==
  LET name == pbL_prefixname(prefix, info.name[1])
      ts1 == [pb_newtype(ts, name) EXCEPT
                ![name].is_map = info.is_map # 0, ![name].is_proto3 = isproto3,
                ![name].oneofs = info.oneof_decl \o SubSeq(@, Len(info.oneof_decl) + 1, Len(@))]
  IN IF info.name \in {<<>>, <<<<>>>>} THEN Error(ts)
     ELSE Then(Then(Then(
            InTurn(LAMBDA i, acc : pbL_loadField(i, <<name>>, isproto3, acc), info.field, ts1),
            LAMBDA acc0 : InTurn(LAMBDA i, acc : pbL_loadField(i, <<>>, isproto3, acc), info.extension, acc0)),
            LAMBDA acc0 : InTurn(LAMBDA i, acc : pbL_loadEnum(i, name, acc), info.enum_type, acc0)),
            LAMBDA acc0 : InTurn(LAMBDA i, acc : pbL_loadType(i, name, isproto3, acc), info.nested_type, acc0))

pbL_loadFile(info, ts) ==
  LET prefix == IF info.package = <<>> THEN <<>> ELSE pbL_prefixname(<<>>, info.package[1])
      isproto3 == info.syntax = <<proto3>>
  IN IF info.package = <<<<>>>> THEN Error(ts)
     ELSE Then(Then(
            InTurn(LAMBDA i, acc : pbL_loadEnum(i, prefix, acc), info.enum_type, ts),
            LAMBDA acc0 : InTurn(LAMBDA i, acc : pbL_loadType(i, prefix, isproto3, acc), info.message_type, acc0)),
            LAMBDA acc0 : InTurn(LAMBDA i, acc : pbL_loadField(i, <<>>, isproto3, acc), info.extension, acc0))

(* Nothing is entered unless all of it could be parsed. *)
pb_load(s, ts) ==
  LET set == pbL_parse("Set", pbL_Info["Set"], s)
  IN IF set.ok THEN InTurn(pbL_loadFile, set.info.files, ts) ELSE Error(ts)

-----------------------------------------------------------------------------
(***************************************************************************)
(* pb.c: pb.encode and pb.decode over the types pb.load entered. A Lua     *)
(* value is <<"int", n>>, <<"numeral", n>> (a string like "#-12"),         *)
(* <<"bool", b>>, <<"str", bytes>>, <<"msg", by name>>, <<"list", values>> *)
(* or <<"map", by key>>. o holds the options of the state and the order in *)
(* which the tables happen to be walked. An error of Lua is ok = FALSE.    *)
(***************************************************************************)
Nil == <<"nil">>
Raise == [ok |-> FALSE, b |-> <<>>, exist |-> FALSE]
Bytes(b) == [ok |-> TRUE, b |-> b, exist |-> TRUE]
Concat(es) == IF \A i \in 1..Len(es) : es[i].ok
              THEN Bytes(FlattenSeq([i \in 1..Len(es) |-> es[i].b])) ELSE Raise
Sub(ts, f) == ts[f.sub[1]]
IsMap(ts, f) == f.sub # <<>> /\ Sub(ts, f).is_map
IsTable(v) == v[1] \in {"msg", "list", "map"}
\* Assigning nil takes the key away.
RawSet(tbl, k, v) == IF v = Nil THEN [x \in DOMAIN tbl \ {k} |-> tbl[x]] ELSE (k :> v) @@ tbl

(* The 64 bits of an integer or of a numeral, <<>> for anything else. *)
lpb_tointegerx(v) == IF v[1] \in {"int", "numeral"} THEN <<v[2] % 2^W64>> ELSE <<>>

(* exist: whether the value is other than the zero of its type *)
lpb_addtype(v, type) ==
  LET i == lpb_tointegerx(v)
      u64 == i[1]
      u32 == i[1] % 2^W32
      bytes == CASE type \in {"fixed32", "sfixed32"} -> pb_addfixed(u32, W32)
                 [] type \in {"fixed64", "sfixed64"} -> pb_addfixed(u64, W64)
                 [] type = "int32" -> pb_addvarint(pb_expandsig(u32))
                 [] type = "uint32" -> pb_addvarint(u32)
                 [] type = "sint32" -> pb_addvarint(pb_encode_sint(Signed(u32, W32), W32))
                 [] type \in {"int64", "uint64"} -> pb_addvarint(u64)
                 [] type = "sint64" -> pb_addvarint(pb_encode_sint(Signed(u64, W64), W64))
  IN CASE type = "bool" -> LET b == v # <<"bool", FALSE>>
                           IN [ok |-> TRUE, b |-> pb_addvarint(IF b THEN 1 ELSE 0), exist |-> b]
       [] type \in {"string", "bytes"} ->
            IF v[1] = "str" THEN [ok |-> TRUE, b |-> pb_addbytes(v[2]), exist |-> v[2] # <<>>] ELSE Raise
       [] OTHER -> IF i = <<>> THEN Raise ELSE [ok |-> TRUE, b |-> bytes, exist |-> u64 # 0]

(* By number, by name, or by a numeral. *)
lpbE_enum(t, v) ==
  LET i == lpb_tointegerx(v)
      named == v[1] = "str" /\ v[2] \in DOMAIN t.names
      number == IF named THEN t.names[v[2]].number % 2^W32 ELSE i[1]
  IN IF ~named /\ i = <<>> THEN Raise
     ELSE [ok |-> TRUE, b |-> pb_addvarint(number), exist |-> number # 0]

RECURSIVE lpbE_encode(_, _, _, _)
(* A message is written behind one byte kept for its length. *)
lpbE_field(ts, f, v, o) ==
  CASE f.type = "enum" -> lpbE_enum(Sub(ts, f), v)
    [] f.type = "message" ->
         IF ~IsTable(v) THEN Raise
         ELSE LET m == lpbE_encode(ts, Sub(ts, f), v[2], o)
              IN [ok |-> m.ok, b |-> pb_addlength(<<0>> \o m.b, 1, 1), exist |-> m.b # <<>>]
    [] OTHER -> lpb_addtype(v, f.type)

(* Tag and value; both are taken back when the value is a zero to be ignored. *)
WithTag(f, ignorezero, e, o) ==
  IF ~e.ok THEN Raise
  ELSE IF ~o.encode_default_values /\ ~e.exist /\ ignorezero THEN Bytes(<<>>)
  ELSE Bytes(pb_addvarint(pb_pair(f.number, pb_wtypebytype(f.type))) \o e.b)
lpbE_tagfield(ts, f, ignorezero, v, o) == WithTag(f, ignorezero, lpbE_field(ts, f, v, o), o)

(* An entry per key; its zeros are ignored. *)
lpbE_map(ts, f, v, o) ==
  LET entry == Sub(ts, f)
      keys == IF o.back THEN Reverse(SetToSeq(DOMAIN v[2])) ELSE SetToSeq(DOMAIN v[2])
      Pair(k) == Concat(<<lpbE_tagfield(ts, entry.tags[1], TRUE, k, o),
                          lpbE_tagfield(ts, entry.tags[2], TRUE, v[2][k], o)>>)
      Entry(k) == [Pair(k) EXCEPT !.b =
                     pb_addvarint(pb_pair(f.number, BYTES)) \o pb_addlength(<<0>> \o @, 1, 1)]
  IN IF ~({1, 2} \subseteq DOMAIN entry.tags) THEN Bytes(<<>>)
     ELSE IF ~IsTable(v) THEN Raise
     ELSE Concat([i \in 1..Len(keys) |-> Entry(keys[i])])

lpbE_repeated(ts, f, v, o) ==
  LET packed == Concat([i \in 1..Len(v[2]) |-> lpbE_field(ts, f, v[2][i], o)])
  IN IF ~IsTable(v) THEN Raise
     ELSE IF ~f.packed
     THEN Concat([i \in 1..Len(v[2]) |-> lpbE_tagfield(ts, f, FALSE, v[2][i], o)])
     ELSE IF v[2] = <<>> /\ ~o.encode_default_values THEN Bytes(<<>>)
     ELSE [packed EXCEPT !.b = pb_addvarint(pb_pair(f.number, BYTES)) \o pb_addlength(<<0>> \o @, 1, 1)]

(* The zero of a member of a oneof and an empty message are written. *)
lpb_encode_onefield(ts, t, f, v, o) ==
  CASE IsMap(ts, f) -> lpbE_map(ts, f, v, o)
    [] ~IsMap(ts, f) /\ f.repeated -> lpbE_repeated(ts, f, v, o)
    [] OTHER -> IF f.sub # <<>> /\ Sub(ts, f).is_dead THEN Bytes(<<>>)
                ELSE lpbE_tagfield(ts, f, t.is_proto3 /\ f.oneof = 0 /\ f.type # "message", v, o)

(* The fields in the order of the walk; a key that is no field is passed over. *)
lpbE_encode(ts, t, tbl, o) ==
  LET known == SelectSeq(o.order, LAMBDA n : n \in DOMAIN tbl /\ n \in DOMAIN t.names)
  IN Concat([i \in 1..Len(known) |-> lpb_encode_onefield(ts, t, t.names[known[i]], tbl[known[i]], o)])

-----------------------------------------------------------------------------
\* strtol: the number at the head of the text, <<>> if it has none.
Numeral(ds, n) == IF n = 0 THEN <<>> ELSE <<Number([i \in 1..n |-> ds[n + 1 - i] - 48], n, 10)>>
Digits(ds) == Numeral(ds, Max({n \in 0..Len(ds) : \A i \in 1..n : ds[i] \in 48..57}))
Negative(v) == IF v = <<>> THEN <<>> ELSE <<-v[1]>>
strtol(text) == IF text # <<>> /\ text[1] = 45 THEN Negative(Digits(Tail(text))) ELSE Digits(text)
Words == [true |-> <<116, 114, 117, 101>>, false |-> <<102, 97, 108, 115, 101>>]

RECURSIVE lpb_pushtypetable(_, _, _)
(* The default of a field, <<>> if there is none: the one of the descriptor, or with is_proto3 the
   zero. *)
lpb_pushdeffield(ts, f, isproto3, o) ==
  LET dv == f.default_value
      Zero(v) == IF isproto3 THEN <<v>> ELSE <<>>
      Enum(ev) == IF o.enum_as_value THEN <<"int", ev.number>> ELSE <<"str", ev.name>>
      t == Sub(ts, f)
  IN CASE f.type = "enum" ->
            IF dv # <<>> /\ dv[1] \in DOMAIN t.names THEN <<Enum(t.names[dv[1]])>>
            ELSE Zero(IF 0 \in DOMAIN t.tags THEN Enum(t.tags[0]) ELSE <<"int", 0>>)
       [] f.type = "message" -> <<<<"msg", lpb_pushtypetable(ts, t, o)>>>>
       [] f.type \in {"string", "bytes"} -> IF dv # <<>> THEN <<<<"str", dv[1]>>>> ELSE Zero(<<"str", <<>>>>)
       [] f.type = "bool" -> IF dv = <<>> THEN Zero(<<"bool", FALSE>>)
                             ELSE IF dv[1] \in {Words.true, Words.false}
                             THEN <<<<"bool", dv[1] = Words.true>>>> ELSE <<>>
       [] OTHER -> IF dv = <<>> THEN Zero(<<"int", 0>>)
                   ELSE LET number == strtol(dv[1])
                        IN [i \in 1..Len(number) |-> <<"int", number[i]>>]

(* What a new table of t holds: scalars and lists by the mode, messages by an option; a member of a
   oneof has no default. *)
Default(ts, t, f, fields, o) ==
  IF f.repeated
  THEN IF t.is_proto3 \/ o.decode_default_array
       THEN <<IF IsMap(ts, f) THEN <<"map", <<>>>> ELSE <<"list", <<>>>>>> ELSE <<>>
  ELSE IF f.oneof = 0 /\ (IF f.type = "message" THEN o.decode_default_message ELSE fields)
  THEN lpb_pushdeffield(ts, f, t.is_proto3, o) ELSE <<>>
ByName(t, given) ==
  [name \in {t.tags[n].name : n \in {k \in DOMAIN given : given[k] # <<>>}} |->
     given[CHOOSE n \in DOMAIN given : given[n] # <<>> /\ t.tags[n].name = name][1]]
lpb_setdeffields(ts, t, fields, o) ==
  ByName(t, [n \in DOMAIN t.tags |-> Default(ts, t, t.tags[n], fields, o)])

lpb_pushtypetable(ts, t, o) ==
  IF o.copydef \/ t.is_proto3 \/ o.decode_default_array \/ o.decode_default_message
  THEN lpb_setdeffields(ts, t, o.copydef \/ t.is_proto3, o) ELSE <<>>

FromBits(type, v) ==
  CASE type = "int32" -> Signed(v % 2^W32, W32)
    [] type = "uint32" -> v % 2^W32
    [] type = "sint32" -> pb_decode_sint(v % 2^W32, W32)
    [] type = "sint64" -> pb_decode_sint(v, W64)
    [] type = "fixed32" -> v
    [] type = "sfixed32" -> Signed(v, W32)
    [] OTHER -> Signed(v, W64)
AsLua(type, v) ==
  CASE type \in {"string", "bytes"} -> <<"str", v>>
    [] type = "bool" -> <<"bool", v # 0>>
    [] OTHER -> <<"int", FromBits(type, v)>>
TypedRead(type, r) == IF r.ok THEN [r EXCEPT !.v = AsLua(type, r.v)] ELSE r
lpb_readtype(type, s) ==
  TypedRead(type, CASE type \in {"string", "bytes"} -> pb_readbytes(s)
                    [] type \in {"fixed32", "sfixed32"} -> pb_readfixed(s, W32)
                    [] type \in {"fixed64", "sfixed64"} -> pb_readfixed(s, W64)
                    [] OTHER -> pb_readvarint(s, W64))

RECURSIVE lpbD_message(_, _, _, _, _)
EnumRead(t, i, o) ==
  LET number == Signed(i.v % 2^W32, W32)
  IN IF ~i.ok THEN i
     ELSE [i EXCEPT !.v = IF ~o.enum_as_value /\ number \in DOMAIN t.tags
                          THEN <<"str", t.tags[number].name>> ELSE <<"int", Signed(i.v, W64)>>]
AsMessage(s, b, m) == IF m.ok THEN [b EXCEPT !.v = <<"msg", m.v>>] ELSE Fail(s)
MessageRead(ts, t, s, b, o) ==
  IF ~b.ok THEN b
  ELSE IF t.is_dead THEN [b EXCEPT !.v = Nil]
  ELSE AsMessage(s, b, lpbD_message(ts, t, b.v, lpb_pushtypetable(ts, t, o), o))
(* A value without its tag. An enum is read by its low 32 bits, a message whose type was cleared is
   nil. *)
lpbD_rawfield(ts, f, s, o) ==
  CASE f.type = "enum" -> EnumRead(Sub(ts, f), pb_readvarint(s, W64), o)
    [] f.type = "message" -> MessageRead(ts, Sub(ts, f), s, pb_readbytes(s), o)
    [] OTHER -> lpb_readtype(f.type, s)

lpbD_checktype(f, tag) == pb_wtypebytype(f.type) = pb_gettype(tag)

lpbD_field(ts, f, tag, s, o) == IF lpbD_checktype(f, tag) THEN lpbD_rawfield(ts, f, s, o) ELSE Fail(s)

RECURSIVE MapEntry(_, _, _, _, _)
\* The loop of lpbD_map: kv is what was read so far; a tag other than 1 and 2 has no value skipped.
Paired(ts, entry, n, e, kv, o) ==
  IF e.ok THEN MapEntry(ts, entry, e.rest, [kv EXCEPT ![n] = <<e.v>>], o) ELSE [ok |-> FALSE, kv |-> kv]
PairTag(ts, entry, t, kv, o) ==
  LET n == pb_gettag(t.v)
  IN IF ~t.ok THEN [ok |-> TRUE, kv |-> kv]
     ELSE IF n \notin {1, 2} THEN MapEntry(ts, entry, t.rest, kv, o)
     ELSE Paired(ts, entry, n, lpbD_field(ts, entry.tags[n], t.v, t.rest, o), kv, o)
MapEntry(ts, entry, p, kv, o) == PairTag(ts, entry, pb_readvarint(p, W32), kv, o)

(* A key or value that is not there is the default. v is what the map holds so far. *)
Stored(map, kv) == IF kv[1] # <<>> /\ kv[2] # <<>> THEN RawSet(map, kv[1][1], kv[2][1]) ELSE map
WithDefaults(ts, entry, kv, o) ==
  [n \in 1..2 |-> IF kv[n] # <<>> THEN kv[n] ELSE lpb_pushdeffield(ts, entry.tags[n], TRUE, o)]
EntryRead(ts, entry, s, b, r, map, o) ==
  IF ~b.ok \/ ~r.ok THEN Fail(s)
  ELSE [b EXCEPT !.v = <<"map", Stored(map, WithDefaults(ts, entry, r.kv, o))>>]
EntryBytes(ts, entry, s, b, map, o) ==
  EntryRead(ts, entry, s, b, MapEntry(ts, entry, b.v, <<<<>>, <<>>>>, o), map, o)
lpbD_map(ts, f, s, map, o) == EntryBytes(ts, Sub(ts, f), s, pb_readbytes(s), map, o)

RECURSIVE Packed(_, _, _, _, _)
\* The values of a packed field, up to the end of its bytes.
NextPacked(ts, f, e, list, o) ==
  IF e.ok THEN Packed(ts, f, e.rest, Append(list, e.v), o) ELSE [ok |-> FALSE, list |-> list]
Packed(ts, f, p, list, o) ==
  IF p = <<>> THEN [ok |-> TRUE, list |-> list] ELSE NextPacked(ts, f, lpbD_rawfield(ts, f, p, o), list, o)

(* Packed or one by one, whichever arrives; bytes are taken for packed values unless the values are
   themselves bytes. *)
OneMore(e, list) == IF ~e.ok THEN e ELSE [e EXCEPT !.v = <<"list", IF @ = Nil THEN list ELSE Append(list, @)>>]
AllPacked(s, b, r) == IF ~b.ok \/ ~r.ok THEN Fail(s) ELSE [b EXCEPT !.v = <<"list", r.list>>]
PackedBytes(ts, f, s, b, list, o) == AllPacked(s, b, Packed(ts, f, b.v, list, o))
lpbD_repeated(ts, f, tag, s, list, o) ==
  IF pb_gettype(tag) # BYTES \/ (~f.packed /\ pb_wtypebytype(f.type) = BYTES)
  THEN OneMore(lpbD_field(ts, f, tag, s, o), list)
  ELSE PackedBytes(ts, f, s, pb_readbytes(s), list, o)

(* A field at a time into tbl. A tag that cannot be read ends the message; what is not a field is
   skipped, and read on behind its tag if it cannot be. *)
Assign(ts, t, f, tbl, e, o) ==
  IF e.ok THEN lpbD_message(ts, t, e.rest, RawSet(tbl, f.name, e.v), o) ELSE [ok |-> FALSE, v |-> tbl]
KnownField(ts, t, f, g, tbl, o) ==
  LET old == IF f.name \in DOMAIN tbl THEN tbl[f.name][2] ELSE <<>>
      marked == IF f.oneof = 0 THEN tbl ELSE RawSet(tbl, t.oneofs[f.oneof], <<"str", f.name>>)
  IN IF IsMap(ts, f)
     THEN Assign(ts, t, f, tbl, IF lpbD_checktype(f, g.v) THEN lpbD_map(ts, f, g.rest, old, o) ELSE Fail(g.rest), o)
     ELSE IF f.repeated THEN Assign(ts, t, f, tbl, lpbD_repeated(ts, f, g.v, g.rest, old, o), o)
     ELSE IF f.oneof > Len(t.oneofs) THEN [ok |-> FALSE, v |-> tbl]
     ELSE Assign(ts, t, f, marked, lpbD_field(ts, f, g.v, g.rest, o), o)
AnyField(ts, t, g, tbl, o) ==
  LET n == pb_gettag(g.v)
  IN IF ~g.ok THEN [ok |-> TRUE, v |-> tbl]
     ELSE IF n \notin DOMAIN t.tags THEN lpbD_message(ts, t, pb_skipvalue(g.rest, g.v).rest, tbl, o)
     ELSE KnownField(ts, t, t.tags[n], g, tbl, o)
lpbD_message(ts, t, s, tbl, o) == AnyField(ts, t, pb_readvarint(s, W32), tbl, o)

lpbD_decode(ts, t, s, o) == lpbD_message(ts, t, s, lpb_pushtypetable(ts, t, o), o)

-----------------------------------------------------------------------------
(***************************************************************************)
(* A schema as protoc writes it, loaded by pb.load: a proto3 file with an  *)
(* enum, a message that has fields of every shape and a map; a proto2 file *)
(* with defaults and an extension.                                         *)
(***************************************************************************)
\* The schema: pieces of a FileDescriptorSet (external, protoc's side of the format).
D(number, bytes) == pb_addvarint(pb_pair(number, BYTES)) \o pb_addbytes(bytes)
I(number, i) == pb_addvarint(pb_pair(number, VARINT)) \o pb_addvarint(i % 2^W64)
FieldD(name, number, label, type, more) == D(1, name) \o I(3, number) \o I(4, label) \o I(5, type) \o more
Of(typename) == D(6, typename)

nE == <<69>>
nS == <<83>>
nM == <<77>>
nX == <<88>>
nP == <<80>>
pkg == <<112>>
a_ == <<97>>
n_ == <<110>>
z_ == <<122>>
r_ == <<114>>
t_ == <<116>>
e_ == <<101>>
m_ == <<109>>
s_ == <<115>>
x_ == <<120>>
y_ == <<121>>
o_ == <<111>>
d_ == <<100>>
b_ == <<98>>
k_ == <<107>>
Full(name) == <<Dot>> \o pkg \o <<Dot>> \o name
Entry == Full(nM) \o <<Dot>> \o nX

\* One value is negative: protoc writes it with all the groups of 64 bits.
EnumE == D(1, nE) \o D(2, D(1, nE) \o I(2, 0)) \o D(2, D(1, b_) \o I(2, 1)) \o D(2, D(1, d_) \o I(2, -1))
TypeS == D(1, nS) \o D(2, FieldD(a_, 1, 1, 5, <<>>))
TypeX == D(1, nX) \o D(2, FieldD(k_, 1, 1, 5, <<>>)) \o D(2, FieldD(a_, 2, 1, 11, Of(Full(nS)))) \o D(7, I(7, 1))
PartsM == <<D(1, nM), D(8, D(1, o_)), D(3, TypeX),
            D(2, FieldD(n_, 1, 1, 13, <<>>)), D(2, FieldD(z_, 2, 1, 18, <<>>)), D(2, FieldD(r_, 3, 3, 5, <<>>)),
            D(2, FieldD(t_, 4, 3, 9, <<>>)), D(2, FieldD(e_, 5, 1, 14, Of(Full(nE)))),
            D(2, FieldD(m_, 6, 3, 11, Of(Entry))), D(2, FieldD(s_, 20, 1, 11, Of(Full(nS)))),
            D(2, FieldD(x_, 7, 1, 8, I(9, 0))), D(2, FieldD(y_, 8, 1, 9, I(9, 0)))>>
TypeP == D(1, nP) \o D(2, FieldD(d_, 1, 1, 5, D(7, <<45, 55>>))) \o D(2, FieldD(b_, 2, 1, 8, D(7, Words.true)))
                  \o D(2, FieldD(r_, 3, 3, 5, D(8, I(2, 1))))
\* The parts of a message are in any order: Lua tables are walked to write them.
InOrder(backwards, parts) == FlattenSeq(IF backwards THEN Reverse(parts) ELSE parts)
File3(backwards) ==
  D(1, InOrder(backwards, <<D(2, pkg), D(12, proto3), D(5, EnumE), D(4, InOrder(backwards, PartsM)), D(4, TypeS)>>))
File2 == D(1, D(2, pkg) \o D(4, TypeP) \o D(7, FieldD(k_, 9, 1, 7, D(2, Full(nP)))))
Types == pb_load(File3(FALSE) \o File2, <<>>).ts
TypeM == Types[Full(nM)]

(***************************************************************************)
(* Messages through pb.encode and pb.decode: tables of the types of a      *)
(* schema, encoded in every order Lua may walk them, and decoded by the    *)
(* same type, by an older one and by one that packs differently.           *)
(***************************************************************************)
CONSTANTS MaxVarint,   \* bytes of a raw varint
          MaxFields    \* fields of a table
VARIABLE input

-----------------------------------------------------------------------------
\* The inputs.
Word32 == 2^W32
Words64 == {0, 1, 63, 64, 127, 128, Word32 \div 2 - 1, Word32 \div 2, Word32 - 1, Word32, 2^(W64 - 1) - 1}
Integers64 == Words64 \cup {-v : v \in Words64} \cup {-2^(W64 - 1)}
Scalars == {"int32", "uint32", "sint32", "int64", "uint64", "sint64", "fixed32", "sfixed32", "fixed64", "sfixed64"}

Str(bytes) == <<"str", bytes>>
Num(i) == <<"int", i>>
Msg(tbl) == <<"msg", tbl>>
Candidates ==
     (n_ :> {Num(0), Num(300), Num(-1), <<"numeral", 5>>}) @@ (z_ :> {Num(-1), Num(2^(W64 - 2))})
  @@ (r_ :> {<<"list", <<>>>>, <<"list", <<Num(-1), Num(0), Num(200)>>>>, <<"list", [i \in 1..45 |-> Num(-i)]>>})
  @@ (t_ :> {<<"list", <<>>>>, <<"list", <<Str(<<>>), Str([i \in 1..130 |-> i])>>>>})
  @@ (e_ :> {Str(nE), Str(d_), Num(1), Num(9)})
  @@ (m_ :> {<<"map", <<>>>>, <<"map", Num(0) :> Msg(<<>>)>>,
            <<"map", (Num(5) :> Msg(a_ :> Num(3))) @@ (Num(-1) :> Msg(<<>>))>>})
  @@ (s_ :> {Msg(<<>>), Msg(a_ :> Num(0)), Msg(a_ :> Num(-300))})
  @@ (x_ :> {<<"bool", FALSE>>, <<"bool", TRUE>>}) @@ (y_ :> {Str(<<>>)})
FieldNames == DOMAIN Candidates
FieldSets == {F \in SUBSET FieldNames : Cardinality(F) <= MaxFields /\ ~({x_, y_} \subseteq F)}
             \cup {FieldNames \ {x_}, FieldNames \ {y_}}
Tables(F) == IF Cardinality(F) <= MaxFields
             THEN {tbl \in [F -> UNION {Candidates[c] : c \in F}] : \A c \in F : tbl[c] \in Candidates[c]}
             ELSE {[c \in F |-> CHOOSE v \in Candidates[c] : v # Num(0)]}
Orders(F) == IF Cardinality(F) <= MaxFields THEN SetToSeqs(F)
             ELSE LET all == SelectSeq(<<n_, z_, r_, t_, e_, m_, s_, x_, y_>>, LAMBDA c : c \in F)
                  IN {all, Reverse(all)}

Options(order, defaults, back) ==
  [order |-> order \o <<a_>>, back |-> back, encode_default_values |-> defaults, copydef |-> FALSE,
   enum_as_value |-> FALSE, decode_default_array |-> FALSE, decode_default_message |-> FALSE]

Inputs ==
       [kind : {"pb scalar"}, type : Scalars, v : Integers64]
  \cup UNION {[kind : {"pb varint"}, s : [1..l -> {0, 1, 127, 128, 200, 255}]] : l \in 1..MaxVarint}
  \cup UNION {{[kind |-> "pb table", tbl |-> tbl, opt |-> Options(order, defaults, back)] :
                 tbl \in Tables(F), order \in Orders(F), defaults \in BOOLEAN, back \in BOOLEAN} : F \in FieldSets}
  \cup [kind : {"pb proto2"}, fields : SUBSET {d_, b_, r_, k_}, copydef : BOOLEAN]
  \cup [kind : {"pb wrong"}, name : FieldNames \ {x_}]
  \cup [kind : {"pb cut"}, at : 0..Len(File3(FALSE))]

Init == input = [kind |-> "none"]
Next == input.kind = "none" /\ \E i \in Inputs : input' = i

-----------------------------------------------------------------------------
\* What a value of a type is after a round trip: cut to the width of the type.
Held(type, v) ==
  LET w == IF type \in {"int32", "uint32", "sint32", "fixed32", "sfixed32"} THEN W32 ELSE W64
  IN Num(IF type \in {"uint32", "fixed32"} THEN v % 2^w ELSE Signed(v % 2^w, w))

RECURSIVE HeldTable(_, _, _)
Value(ts, f, v) ==
  CASE f.type = "message" -> Msg(HeldTable(ts, Sub(ts, f), v[2]))
    [] f.type = "enum" -> IF v[1] = "int" /\ v[2] \in DOMAIN Sub(ts, f).tags
                          THEN Str(Sub(ts, f).tags[v[2]].name) ELSE v
    [] v[1] \in {"int", "numeral"} -> Held(f.type, v[2])
    [] OTHER -> v
\* A table after a round trip: every field as it was set, and what was not set with its zero, but for
\* messages and the members of a oneof; the oneof names the member that is set.
HeldTable(ts, t, tbl) ==
  LET fields == {t.tags[i] : i \in DOMAIN t.tags}
      set == {f \in fields : f.name \in DOMAIN tbl}
      zeros == {f \in fields \ set : f.repeated \/ (f.oneof = 0 /\ f.type # "message")}
      Zero(f) == IF IsMap(ts, f) THEN <<"map", <<>>>> ELSE IF f.repeated THEN <<"list", <<>>>>
                 ELSE IF f.type = "enum" THEN Str(nE) ELSE Num(0)
      Read(f) == IF f \in zeros THEN Zero(f)
                 ELSE IF IsMap(ts, f)
                 THEN <<"map", [key \in DOMAIN tbl[f.name][2] |-> Value(ts, Sub(ts, f).tags[2], tbl[f.name][2][key])]>>
                 ELSE IF f.repeated
                 THEN <<"list", [i \in 1..Len(tbl[f.name][2]) |-> Value(ts, f, tbl[f.name][2][i])]>>
                 ELSE Value(ts, f, tbl[f.name])
      names == {f.name : f \in set \cup zeros}
      ones == {f \in set : f.oneof # 0}
  IN [name \in names |-> Read(CHOOSE f \in set \cup zeros : f.name = name)]
     @@ [name \in {t.oneofs[f.oneof] : f \in ones} |-> Str((CHOOSE f \in ones : t.oneofs[f.oneof] = name).name)]

\* A type as an older peer knows it, without one field; and as a peer that packs what it does not.
Without(m, i) == [m EXCEPT !.tags = [j \in DOMAIN @ \ {i} |-> @[j]]]
Unpacked(m) == [m EXCEPT !.tags[3].packed = FALSE, !.names[r_].packed = FALSE]
Forget(tbl, f) == [name \in DOMAIN tbl \ ({f.name} \cup (IF f.oneof = 0 THEN {} ELSE {o_})) |-> tbl[name]]
InGroup(b) == pb_addvarint(pb_pair(30, GSTART)) \o b \o pb_addvarint(pb_pair(30, GEND))

\* w is the table tbl of type m as it is written, expected as it should be read: by m and by one that
\* packs differently, behind an unknown group, and without a field its reader does not know.
WrittenRead(ts, m, tbl, opt, w, expected) ==
  /\ w.ok
  /\ DOMAIN tbl = {t_} => w.b = FlattenSeq([i \in 1..Len(tbl[t_][2]) |-> D(4, tbl[t_][2][i][2])])
  /\ \A r \in {<<m, w.b, expected>>, <<Unpacked(m), w.b, expected>>, <<m, InGroup(w.b) \o w.b, expected>>,
               <<m, lpbE_encode(ts, Unpacked(m), tbl, opt).b, expected>>}
            \cup {<<Without(m, i), w.b, Forget(expected, m.tags[i])>> :
                     i \in {j \in DOMAIN m.tags : m.tags[j].name \in DOMAIN tbl}} :
       lpbD_decode(ts, r[1], r[2], opt) = [ok |-> TRUE, v |-> r[3]]
TableRead(ts, m, tbl, opt) ==
  WrittenRead(ts, m, tbl, opt, lpbE_encode(ts, m, tbl, opt), HeldTable(ts, m, tbl))

\* A proto2 type, with defaults of its own and an extension: zeros are written, the defaults are only
\* there when they are asked for.
Proto2Read(ts, F, copydef) ==
  LET given == (d_ :> Num(0)) @@ (b_ :> <<"bool", FALSE>>) @@ (r_ :> <<"list", <<Num(0)>>>>) @@ (k_ :> Num(9))
      tbl == [c \in F |-> given[c]]
      opt == [Options(<<r_, k_, b_, d_>>, FALSE, FALSE) EXCEPT !.copydef = copydef]
      defaults == (d_ :> Num(-7)) @@ (b_ :> <<"bool", TRUE>>)
      w == lpbE_encode(ts, ts[Full(nP)], tbl, opt)
  IN lpbD_decode(ts, ts[Full(nP)], w.b, opt).v = IF copydef THEN tbl @@ defaults ELSE tbl

\* A schema cut after at bytes of its first file, file.
CutRefused(ts, file, at, cut) ==
  IF at = Len(file)
  THEN \A more \in {<<File2, cut.ts>>, <<File2 \o File3(TRUE), <<>>>>} : pb_load(more[1], more[2]) = Loaded(ts)
  ELSE cut = IF at = 0 THEN Loaded(<<>>) ELSE Error(<<>>)
CutAt(ts, file, at) == CutRefused(ts, file, at, pb_load(SubSeq(file, 1, at), <<>>))

(* pb.encode and pb.decode (pb.c:1737, pb.c:1943) over types entered by pb.load (pb.h:1750):
   - an integer of every type comes back, cut to the width of its type (pb.c:406, pb.c:486), and an
     int32 is the same number to a reader of int64;
   - the two ways of reading a varint, with and without a look at the end of the slice, agree on every
     sequence of bytes, and skipping one ends where reading it does (pb.h:412, pb.h:429);
   - a message comes back whatever the order its table is walked in, with zeros written or not; a type
     that lacks a field, or sees an unknown group, reads the others alike; a list reads the same
     packed and not (pb.c:1926), and strings are never packed (pb.h:1701);
   - the defaults of proto2 and what an extension adds come with the type (pb.c:1370, pb.h:1687);
   - a value of another kind is refused (pb.c:1661);
   - the parts of a descriptor may come in any order, and one that is cut is refused, with nothing
     entered (pb.h:1757). *)
ProtobufExact ==
  CASE input.kind = "pb scalar" ->
         LET w == lpb_addtype(Num(input.v), input.type)
         IN /\ w.ok
            /\ lpb_readtype(input.type, w.b) = Got(Held(input.type, input.v), w.b, Len(w.b))
            /\ input.type = "int32" => lpb_readtype("int64", w.b).v = Held("int32", input.v)
    [] input.kind = "pb varint" ->
         \A width \in {W32, W64} :
           LET got == pb_readvarint(input.s, width)
               slow == pb_readvarint_slow(input.s)
           IN /\ got = [slow EXCEPT !.v = @ % 2^width]
              /\ got.ok => pb_skipvarint(input.s).rest = got.rest
    [] input.kind = "pb table" -> TableRead(Types, TypeM, input.tbl, input.opt)
    [] input.kind = "pb proto2" -> Proto2Read(Types, input.fields, input.copydef)
    [] input.kind = "pb wrong" ->
         ~lpbE_encode(Types, TypeM, input.name :> <<"bool", TRUE>>, Options(<<input.name>>, FALSE, FALSE)).ok
    [] input.kind = "pb cut" -> CutAt(Types, File3(FALSE), input.at)
    [] OTHER -> TRUE
=============================================================================
