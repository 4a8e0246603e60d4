------------------------------- MODULE Zproto -------------------------------
(***************************************************************************)
(* zproto.c and lzproto.c: the schema a parser hands over, tables encoded  *)
(* and decoded by it, and the packing of what was encoded.                 *)
(***************************************************************************)
EXTENDS Integers, Sequences, SequencesExt, FiniteSets

(***************************************************************************)
(* The schema language of zproto: the recursive descent parser of zproto.c *)
(* and the searches in what it builds.  A text is a sequence of tokens     *)
(* [k, v]; names are numbers in the order of strcmp, those of the built-in *)
(* types are the domain of type_id.  White space, comments and the length  *)
(* of a token are left out.  An optional thing is a sequence of at most 1. *)
(***************************************************************************)
CONSTANT type_id

Fail == [ok |-> FALSE, pos |-> 0]

(* lex_lookahead, and lex_nexttoken for each of the kinds expected at pos *)
lex_lookahead(ts, pos) == IF pos > Len(ts) THEN "eos" ELSE ts[pos].k
lex_nexttoken(ts, pos, kinds) == \A i \in 1..Len(kinds) : lex_lookahead(ts, pos + i - 1) = kinds[i]

FirstOf(hits) == IF hits = <<>> THEN <<>> ELSE <<Head(hits)>>

(* lex_findstruct: the children of the struct itself, then of each struct around it *)
lex_findstruct(scopes, name) == FirstOf(SelectSeq(FlattenSeq(scopes), LAMBDA s : s.name = name))
(* lex_findfield *)
lex_findfield(st, name) == FirstOf(SelectSeq(st.fields, LAMBDA f : f.name = name))

StructType(st) == [ok |-> st # <<>>, type |-> "struct", st |-> st]
(* lex_typeint: a built-in type or a struct already defined *)
lex_typeint(scopes, name) ==
  IF name \in DOMAIN type_id THEN [ok |-> TRUE, type |-> type_id[name], st |-> <<>>]
  ELSE StructType(lex_findstruct(scopes, name))

(* lex_uniquestruct *)
lex_uniquestruct(siblings, name, tag) ==
  \A i \in 1..Len(siblings) : siblings[i].name # name /\ (siblings[i].tag = 0 \/ siblings[i].tag # tag)
(* lex_uniquefield: the tag grows from field to field *)
lex_uniquefield(fields, name, tag) ==
  /\ tag \in 1..65535
  /\ fields # <<>> => tag > Last(fields).tag
  /\ \A i \in 1..Len(fields) : fields[i].name # name

(* lex_field: .name:type[mapkey] tag.  What follows the type t: nothing, [] or the key of a map. *)
Brackets(ts, pos) == IF lex_lookahead(ts, pos) # "[" THEN "none"
                     ELSE IF lex_lookahead(ts, pos + 1) = "]" THEN "array" ELSE "map"
TagPos(pos, arr) == pos + (CASE arr = "none" -> 0 [] arr = "array" -> 2 [] OTHER -> 3)
IsBytes(t, arr) == arr = "array" /\ t.type \in {"ubyte", "byte"}
FieldOf(name, tag, t, arr, key) ==
  [name |-> name, tag |-> tag, st |-> t.st, isarray |-> arr # "none" /\ ~IsBytes(t, arr), mapkey |-> key,
   type |-> IF IsBytes(t, arr) THEN IF t.type = "ubyte" THEN "blob" ELSE "string" ELSE t.type]
WithKey(ts, pos, q, t, arr, key) ==
  IF arr = "map" /\ (t.type # "struct" \/ key = <<>> \/ key[1].st # <<>> \/ key[1].isarray) THEN Fail
  ELSE [ok |-> TRUE, pos |-> q + 1, f |-> FieldOf(ts[pos + 1].v, ts[q].v, t, arr, key)]
WithType(ts, pos, q, fields, t, arr) ==
  IF \/ ~t.ok
     \/ arr = "map" /\ ~lex_nexttoken(ts, pos + 4, <<"[", "name", "]">>)
     \/ ~lex_nexttoken(ts, q, <<"digit">>)
     \/ ~lex_uniquefield(fields, ts[pos + 1].v, ts[q].v)
  THEN Fail
  ELSE WithKey(ts, pos, q, t, arr, IF arr = "map" /\ t.st # <<>> THEN lex_findfield(t.st[1], ts[pos + 5].v) ELSE <<>>)
lex_field(ts, pos, scopes, fields) ==
  IF ~lex_nexttoken(ts, pos, <<".", "name", ":", "name">>) THEN Fail
  ELSE WithType(ts, pos, TagPos(pos + 4, Brackets(ts, pos + 4)), fields,
                lex_typeint(scopes, ts[pos + 3].v), Brackets(ts, pos + 4))

RECURSIVE Fields(_, _, _, _), Children(_, _, _, _), lex_struct(_, _, _, _)
AfterField(ts, scopes, fields, f) == IF ~f.ok THEN Fail ELSE Fields(ts, f.pos, scopes, Append(fields, f.f))
Fields(ts, pos, scopes, fields) ==
  IF lex_lookahead(ts, pos) # "." THEN [ok |-> TRUE, pos |-> pos, all |-> fields]
  ELSE AfterField(ts, scopes, fields, lex_field(ts, pos, scopes, fields))
AfterChild(ts, scopes, structs, s) == IF ~s.ok THEN Fail ELSE Children(ts, s.pos, scopes, Append(structs, s.st))
Children(ts, pos, scopes, structs) ==
  IF lex_lookahead(ts, pos) # "name" THEN [ok |-> TRUE, pos |-> pos, all |-> structs]
  ELSE AfterChild(ts, scopes, structs, lex_struct(ts, pos, <<structs>> \o scopes, FALSE))

(* lex_mergefield: the fields, and whether their tags follow one another *)
lex_mergefield(st, fields) ==
  IF fields = <<>> THEN st
  ELSE [st EXCEPT !.fields = fields, !.basetag = Head(fields).tag,
                  !.iscontinue = Last(fields).tag - Head(fields).tag + 1 = Len(fields)]

(* lex_struct: name [tag] { children fields } *)
AfterFields(ts, new, tagged, fs) ==
  IF ~fs.ok THEN Fail ELSE IF lex_lookahead(ts, fs.pos) # "}" THEN Fail
  ELSE [ok |-> TRUE, pos |-> fs.pos + 1, st |-> lex_mergefield(new, fs.all), tagged |-> tagged]
AfterChildren(ts, scopes, name, tag, tagged, kids) ==
  IF ~kids.ok THEN Fail
  ELSE AfterFields(ts, [name |-> name, tag |-> tag, child |-> kids.all, fields |-> <<>>, basetag |-> 0,
                        iscontinue |-> FALSE],
                   tagged, Fields(ts, kids.pos, <<kids.all>> \o scopes, <<>>))
Body(ts, q, scopes, name, tag, tagged) ==
  IF ~lex_uniquestruct(scopes[1], name, tag) \/ lex_lookahead(ts, q) # "{" THEN Fail
  ELSE AfterChildren(ts, scopes, name, tag, tagged, Children(ts, q + 1, scopes, <<>>))
lex_struct(ts, pos, scopes, protocol) ==
  IF lex_lookahead(ts, pos) # "name" THEN Fail
  ELSE IF protocol /\ lex_lookahead(ts, pos + 1) = "digit"
       THEN Body(ts, pos + 2, scopes, ts[pos].v, ts[pos + 1].v, TRUE)
       ELSE Body(ts, pos + 1, scopes, ts[pos].v, 0, FALSE)

RECURSIVE Roots(_, _, _, _)
Caches(all, tagged) ==
  [ok |-> TRUE, root |-> all, namecache |-> SortSeq(all, LAMBDA a, b : a.name < b.name),
   tagcache |-> IF tagged THEN SortSeq(all, LAMBDA a, b : a.tag < b.tag) ELSE <<>>]
AfterRoot(ts, structs, tagged, s) ==
  IF ~s.ok THEN [ok |-> FALSE]
  ELSE IF lex_lookahead(ts, s.pos) # "eos" THEN Roots(ts, s.pos, Append(structs, s.st), tagged \/ s.tagged)
  ELSE Caches(Append(structs, s.st), tagged \/ s.tagged)
Roots(ts, pos, structs, tagged) == AfterRoot(ts, structs, tagged, lex_struct(ts, pos, <<structs>>, TRUE))
(* zproto_parse *)
zproto_parse(ts) == Roots(ts, 1, <<>>, FALSE)

(* The binary search of zproto_query, zproto_querytag and queryfield, in keys[start + 1 .. end] *)
RECURSIVE Search(_, _, _, _)
Search(keys, key, start, end) ==
  LET mid == (start + end) \div 2
  IN IF start >= end THEN 0
     ELSE IF key = keys[mid + 1] THEN mid + 1
     ELSE IF key < keys[mid + 1] THEN Search(keys, key, start, mid) ELSE Search(keys, key, mid + 1, end)

Found(s, i) == IF i = 0 THEN <<>> ELSE <<s[i]>>
zproto_query(z, name) ==
  Found(z.namecache, Search([i \in 1..Len(z.namecache) |-> z.namecache[i].name], name, 0, Len(z.namecache)))
zproto_querytag(z, tag) ==
  Found(z.tagcache, Search([i \in 1..Len(z.tagcache) |-> z.tagcache[i].tag], tag, 0, Len(z.tagcache)))
(* queryfield: by position when the tags follow one another *)
queryfield(st, tag) ==
  IF st.iscontinue THEN IF tag - st.basetag \in 0..Len(st.fields)-1 THEN <<st.fields[tag - st.basetag + 1]>>
                        ELSE <<>>
  ELSE Found(st.fields, Search([i \in 1..Len(st.fields) |-> st.fields[i].tag], tag, 0, Len(st.fields)))
-----------------------------------------------------------------------------
\* The text of a schema: structs [name, tag, kids, fields], fields [name, type, arr, tag] where arr
\* is empty, <<0>> for [] or the name of the map key.
T(k, v) == [k |-> k, v |-> v]
FieldText(f) == <<T(".", 0), T("name", f.name), T(":", 0), T("name", f.type)>>
                \o (CASE f.arr = <<>> -> <<>> [] f.arr = <<0>> -> <<T("[", 0), T("]", 0)>>
                      [] OTHER -> <<T("[", 0), T("name", f.arr[1]), T("]", 0)>>) \o <<T("digit", f.tag)>>
RECURSIVE Text(_)
Text(s) == <<T("name", s.name)>> \o (IF s.tag = 0 THEN <<>> ELSE <<T("digit", s.tag)>>) \o <<T("{", 0)>>
           \o FlattenSeq([i \in 1..Len(s.kids) |-> Text(s.kids[i])])
           \o FlattenSeq([i \in 1..Len(s.fields) |-> FieldText(s.fields[i])]) \o <<T("}", 0)>>
SchemaText(ss) == FlattenSeq([i \in 1..Len(ss) |-> Text(ss[i])])

\* A schema is well formed: names and tags are unique, tags grow, and what a field refers to is a
\* struct that was finished before it, the nearest one of that name.
Distinct(s) == \A i, j \in 1..Len(s) : s[i] = s[j] => i = j
Nearest(env, name) == IF \E s \in env[1] : s.name = name THEN CHOOSE s \in env[1] : s.name = name
                      ELSE CHOOSE s \in UNION {env[k] : k \in 1..Len(env)} : s.name = name
FieldValid(f, env) ==
  /\ f.tag \in 1..65535
  /\ f.type \in DOMAIN type_id \/ \E k \in 1..Len(env) : \E s \in env[k] : s.name = f.type
  /\ f.arr \notin {<<>>, <<0>>} =>
       /\ f.type \notin DOMAIN type_id
       /\ \E i \in 1..Len(Nearest(env, f.type).fields) :
            LET k == Nearest(env, f.type).fields[i]
            IN /\ k.name = f.arr[1] /\ k.type \in DOMAIN type_id
               /\ k.arr = <<>> \/ (k.arr = <<0>> /\ type_id[k.type] \in {"byte", "ubyte"})
RECURSIVE Valid(_, _)
Valid(s, env) ==
  LET before(i) == {s.kids[j] : j \in 1..i-1}
  IN /\ Distinct([i \in 1..Len(s.kids) |-> s.kids[i].name])
     /\ Distinct([i \in 1..Len(s.fields) |-> s.fields[i].name])
     /\ \A i \in 1..Len(s.fields)-1 : s.fields[i].tag < s.fields[i+1].tag
     /\ \A i \in 1..Len(s.kids) : Valid(s.kids[i], <<before(i)>> \o env)
     /\ \A i \in 1..Len(s.fields) : FieldValid(s.fields[i], <<before(Len(s.kids) + 1)>> \o env)
SchemaValid(ss) ==
  /\ Distinct([i \in 1..Len(ss) |-> ss[i].name])
  /\ \A i, j \in 1..Len(ss) : ss[i].tag = ss[j].tag /\ i # j => ss[i].tag = 0
  /\ \A i \in 1..Len(ss) : Valid(ss[i], <<{ss[j] : j \in 1..i-1}>>)

(* Exactly the well-formed schemas are accepted, none that is cut off in a struct; every struct
   and every field is then found by its name and by its tag, and nothing else is. *)
Parsed(ss, ts, z) ==
  /\ z.ok <=> SchemaValid(ss)
  /\ z.ok => /\ LET ends == {Len(SchemaText(SubSeq(ss, 1, k))) : k \in 1..Len(ss)}
                IN \A k \in 0..Len(ts) : k \notin ends => ~zproto_parse(SubSeq(ts, 1, k)).ok
             /\ \A i \in 1..Len(ss) :
                  LET st == z.root[i]
                  IN /\ zproto_query(z, ss[i].name) = <<st>>
                     /\ ss[i].tag # 0 => zproto_querytag(z, ss[i].tag) = <<st>>
                     /\ [k \in 1..Len(st.fields) |-> <<st.fields[k].name, st.fields[k].tag>>]
                          = [k \in 1..Len(ss[i].fields) |-> <<ss[i].fields[k].name, ss[i].fields[k].tag>>]
                     /\ \A tag \in 0..6 :
                          LET at == {k \in 1..Len(st.fields) : st.fields[k].tag = tag}
                          IN queryfield(st, tag) = IF at = {} THEN <<>> ELSE <<st.fields[CHOOSE k \in at : TRUE]>>
             /\ \A n \in 0..5 : (\A i \in 1..Len(ss) : ss[i].name # n) => zproto_query(z, n) = <<>>
             /\ \A n \in 1..5 : (\A i \in 1..Len(ss) : ss[i].tag # n) => zproto_querytag(z, n) = <<>>
SchemaExact(ss) == Parsed(ss, SchemaText(ss), zproto_parse(SchemaText(ss)))

-----------------------------------------------------------------------------
(***************************************************************************)
(* Encoding and decoding of tables by a zproto schema, and the packing of  *)
(* zero bytes: zproto.c with the callbacks of lzproto.c.  A Lua value is a *)
(* pair of its type and its content: an integer is its eight bytes, a      *)
(* table with names a function, an array or a map a sequence (of the pairs *)
(* of key and table, in the order of lua_next).                            *)
(***************************************************************************)
CONSTANTS MAX_RECURSIVE, BUFFSIZE, MAX_FF,   \* MAX_FF: 255, runs one 0xff can count
          Schemas, Messages,                 \* Messages: pairs of a schema and a table of its last struct
          Bytes, MaxLen, Runs                \* what is packed: short strings, and runs of 8 bytes
VARIABLE input

OOM == [r |-> "OOM"]
NOFIELD == [r |-> "NOFIELD"]
ERROR == [r |-> "ERROR"]
RAISE == [r |-> "RAISE"]                     \* luaL_error
Ok(b) == [r |-> "ok", b |-> b]

(* marshal_uint16, marshal_uint32 and back, for the tags and lengths *)
marshal(n, k) == [i \in 1..k |-> (n \div 256^(i-1)) % 256]
unmarshal(b) == LET v[i \in 0..Len(b)] == IF i = 0 THEN 0 ELSE v[i - 1] + b[i] * 256^(i - 1) IN v[Len(b)]

Width == [boolean |-> 1, byte |-> 1, ubyte |-> 1, short |-> 2, ushort |-> 2, int32 |-> 4, uint32 |-> 4,
          float |-> 4, int64 |-> 8, uint64 |-> 8]
Signed == {"byte", "short", "int32", "int64"}
\* The eight bytes of an integer read from fewer.
Extend(b, signed) == b \o [i \in 1..8 - Len(b) |-> IF signed /\ Last(b) >= 128 THEN 255 ELSE 0]

RECURSIVE zproto_encode(_, _, _, _)
(* encode_field of lzproto.c: the bytes a value leaves in a buffer of sz bytes *)
lua_encode_field(f, v, sz, level) ==
  CASE f.type = "boolean" -> IF v[1] = "boolean" THEN Ok(<<IF v[2] THEN 1 ELSE 0>>) ELSE RAISE
    [] f.type = "float" -> IF v[1] = "float" THEN Ok(v[2]) ELSE RAISE
    [] f.type \in {"string", "blob"} ->
         IF v[1] # "string" THEN RAISE ELSE IF sz < Len(v[2]) THEN OOM ELSE Ok(v[2])
    [] f.type = "struct" -> IF v[1] = "table" THEN zproto_encode(f.st[1], v[2], sz, level + 1) ELSE RAISE
    [] OTHER -> IF v[1] = "integer" THEN Ok(SubSeq(v[2], 1, Width[f.type])) ELSE RAISE

Kind(f) == IF f.mapkey # <<>> THEN "map" ELSE "array"
(* encode_table of lzproto.c, for a field and for element idx of an array *)
Element(f, x) == IF f.mapkey # <<>> THEN x[2] ELSE x
encode_table(f, tbl, idx, sz, level) ==
  IF level >= MAX_RECURSIVE THEN RAISE
  ELSE IF f.name \notin DOMAIN tbl THEN NOFIELD
  ELSE IF idx >= 0 /\ tbl[f.name][1] # Kind(f) THEN RAISE
  ELSE IF idx >= 0 /\ idx >= Len(tbl[f.name][2]) THEN NOFIELD
  ELSE lua_encode_field(f, IF idx < 0 THEN tbl[f.name] ELSE Element(f, tbl[f.name][2][idx + 1]), sz, level)

(* encode_field of zproto.c: room for the widest number is asked for in any case *)
IsText(f) == f.type \in {"string", "blob"}
Measured(f, e) == IF IsText(f) /\ e.r = "ok" THEN Ok(marshal(Len(e.b), 4) \o e.b) ELSE e
encode_field(f, tbl, idx, sz, level) ==
  IF sz < 8 THEN OOM ELSE Measured(f, encode_table(f, tbl, idx, IF IsText(f) THEN sz - 4 ELSE sz, level))

(* encode_array of zproto.c: elements until the callback has none; one that does not exist is no field *)
RECURSIVE Elements(_, _, _, _, _, _)
AfterElement(f, tbl, idx, sz, level, acc, e) ==
  IF e.r = "ok" THEN Elements(f, tbl, idx + 1, sz - Len(e.b), level, acc \o e.b)
  ELSE IF e.r \in {"OOM", "RAISE"} THEN e
  ELSE IF f.name \notin DOMAIN tbl THEN NOFIELD ELSE Ok(marshal(idx, 4) \o acc)
Elements(f, tbl, idx, sz, level, acc) ==
  AfterElement(f, tbl, idx, sz, level, acc, encode_field(f, tbl, idx, sz, level))
encode_array(f, tbl, sz, level) == IF sz < 4 THEN OOM ELSE Elements(f, tbl, 0, sz - 4, level, <<>>)

(* zproto_encode: length, number of tags, tags as distances, bodies *)
Put(acc, f, e) ==
  IF e.r = "NOFIELD" THEN acc
  ELSE IF e.r # "ok" THEN [acc EXCEPT !.r = e.r]
  ELSE [r |-> "ok", sz |-> acc.sz - Len(e.b), body |-> acc.body \o e.b, last |-> f.tag,
        tags |-> acc.tags \o marshal(f.tag - acc.last - 1, 2)]
PutField(acc, f, tbl, level) ==
  IF acc.r # "ok" THEN acc
  ELSE Put(acc, f, IF f.isarray THEN encode_array(f, tbl, acc.sz, level) ELSE encode_field(f, tbl, -1, acc.sz, level))
WithLength(data) == Ok(marshal(Len(data), 4) \o data)
Message(all) == IF all.r # "ok" THEN [r |-> all.r]
                ELSE WithLength(marshal(Len(all.tags) \div 2, 2) \o all.tags \o all.body)
zproto_encode(st, tbl, sz, level) ==
  LET hdrsz == 4 + (Len(st.fields) + 1) * 2
      all[i \in 0..Len(st.fields)] ==
        IF i = 0 THEN [r |-> "ok", sz |-> sz - hdrsz, body |-> <<>>, tags |-> <<>>, last |-> st.basetag - 1]
        ELSE PutField(all[i - 1], st.fields[i], tbl, level)
  IN IF sz < hdrsz THEN OOM ELSE Message(all[Len(st.fields)])

(* lencode: a buffer twice as large until the message fits *)
RECURSIVE lencode(_, _, _)
Grown(st, tbl, datasz, e) == IF e.r = "OOM" THEN lencode(st, tbl, datasz * 2) ELSE e
lencode(st, tbl, datasz) == Grown(st, tbl, datasz, zproto_encode(st, tbl, datasz, 0))
-----------------------------------------------------------------------------
\* A decoded value: n bytes used, the value in an optional, the key of a map element likewise.
Value(n, v) == [r |-> "ok", n |-> n, v |-> v]

RECURSIVE zproto_decode(_, _, _, _)
AsTable(s) == IF s.r # "ok" THEN s ELSE [r |-> "ok", n |-> s.n, v |-> <<"table", s.tbl>>, dup |-> s.dup]
(* decode_field of lzproto.c; too deep a table reads nothing but is an error only to a struct *)
decode_table(f, b, level) ==
  CASE level >= MAX_RECURSIVE -> ERROR
    [] level < MAX_RECURSIVE /\ f.type = "boolean" -> Value(1, <<"boolean", b[1] # 0>>)
    [] level < MAX_RECURSIVE /\ f.type = "float" -> Value(4, <<"float", b>>)
    [] level < MAX_RECURSIVE /\ f.type \in {"string", "blob"} -> Value(Len(b), <<"string", b>>)
    [] level < MAX_RECURSIVE /\ f.type = "struct" ->
         AsTable(zproto_decode(f.st[1], b, level + 1, f.mapkey))
    [] OTHER -> Value(Len(b), <<"integer", Extend(b, f.type \in Signed)>>)

(* decode_field of zproto.c: what the callback says of a number or a string is ignored *)
Ignoring(c, used) == Value(used, IF c.r = "ok" THEN c.v ELSE <<"none">>)
Scalar(f, b, from, n, level) == IF Len(b) < from + n THEN ERROR
                                ELSE Ignoring(decode_table(f, SubSeq(b, from + 1, from + n), level), from + n)
decode_field(f, b, level) ==
  IF f.type = "struct" THEN decode_table(f, b, level)
  ELSE IF IsText(f) /\ Len(b) < 4 THEN ERROR
  ELSE Scalar(f, b, IF IsText(f) THEN 4 ELSE 0, IF IsText(f) THEN unmarshal(SubSeq(b, 1, 4)) ELSE Width[f.type], level)

(* decode_array of both: the elements in an array, or under their keys; a map element without its
   key cannot be stored *)
TakeElement(f, acc, e) ==
  IF e.r # "ok" THEN e
  ELSE IF f.mapkey # <<>> /\ e.dup = <<>> THEN RAISE
  ELSE Value(acc.n + e.n, Append(acc.v, IF f.mapkey # <<>> THEN <<e.dup[1], e.v>> ELSE e.v))
DecodeElement(f, b, level, acc) ==
  IF acc.r # "ok" THEN acc ELSE TakeElement(f, acc, decode_field(f, SubSeq(b, acc.n + 1, Len(b)), level))
AsArray(f, level, all) ==
  IF all.r # "ok" THEN all ELSE Value(all.n, IF level >= MAX_RECURSIVE THEN <<"none">> ELSE <<Kind(f), all.v>>)
DecodeElements(f, b, level, len) ==
  LET all[i \in 0..len] == IF i = 0 THEN Value(4, <<>>) ELSE DecodeElement(f, b, level, all[i - 1])
  IN IF len = 0 /\ level >= MAX_RECURSIVE THEN ERROR ELSE AsArray(f, level, all[len])
decode_array(f, b, level) == IF Len(b) < 4 THEN ERROR ELSE DecodeElements(f, b, level, unmarshal(SubSeq(b, 1, 4)))

(* zproto_decode: the first tag the schema does not know ends it; mapkey is the field to report *)
Store(acc, f, mapkey, e) ==
  IF e.r # "ok" THEN [acc EXCEPT !.r = e.r]
  ELSE [acc EXCEPT !.last = f.tag, !.pos = @ + e.n,
                   !.dup = IF mapkey # <<>> /\ mapkey[1].tag = f.tag THEN <<e.v>> ELSE @,
                   !.tbl = IF e.v = <<"none">> THEN @ ELSE (f.name :> e.v) @@ @]
StoreFound(acc, f, rest, level, mapkey) ==
  IF f = <<>> THEN [acc EXCEPT !.end = TRUE]
  ELSE Store(acc, f[1], mapkey, IF f[1].isarray THEN decode_array(f[1], rest, level) ELSE decode_field(f[1], rest, level))
DecodeTag(st, b, end, i, level, mapkey, acc) ==
  IF acc.r # "ok" \/ acc.end THEN acc
  ELSE StoreFound(acc, queryfield(st, acc.last + 1 + unmarshal(SubSeq(b, 5 + 2 * i, 6 + 2 * i))),
                  SubSeq(b, acc.pos + 1, end), level, mapkey)
Fetched(len, all) ==
  IF all.r # "ok" THEN [r |-> all.r] ELSE [r |-> "ok", n |-> 4 + len, tbl |-> all.tbl, dup |-> all.dup]
DecodeTags(st, b, level, mapkey, len, count) ==
  LET all[i \in 0..count] ==
        IF i = 0 THEN [r |-> "ok", end |-> FALSE, last |-> st.basetag - 1, pos |-> 6 + 2 * count, dup |-> <<>>, tbl |-> <<>>]
        ELSE DecodeTag(st, b, 4 + len, i, level, mapkey, all[i - 1])
  IN IF Len(b) - 4 < len THEN ERROR ELSE IF len - 2 < 2 * count THEN ERROR ELSE Fetched(len, all[count])
zproto_decode(st, b, level, mapkey) ==
  IF Len(b) < 6 THEN ERROR
  ELSE DecodeTags(st, b, level, mapkey, unmarshal(SubSeq(b, 1, 4)), unmarshal(SubSeq(b, 5, 6)))

(* ldecode *)
ldecode(st, b) == zproto_decode(st, b, 1, <<>>)

RECURSIVE default_table(_, _)
(* default_field, default_table *)
default_field(f, level) ==
  CASE f.type = "boolean" -> <<"boolean", FALSE>>
    [] f.type = "float" -> <<"float", <<0, 0, 0, 0>>>>
    [] f.type \in {"string", "blob"} -> <<"string", <<>>>>
    [] f.type = "struct" -> <<"table", default_table(f.st[1], level + 1)>>
    [] OTHER -> <<"integer", [i \in 1..8 |-> 0]>>
default_table(st, level) ==
  LET tbl[i \in 0..Len(st.fields)] ==
        IF i = 0 THEN <<>>
        ELSE (st.fields[i].name :> IF st.fields[i].isarray THEN <<Kind(st.fields[i]), <<>>>>
                                   ELSE default_field(st.fields[i], level)) @@ tbl[i - 1]
  IN tbl[Len(st.fields)]
(* ldefault; a struct has fewer fields than its buffer has room for *)
ldefault(st) == default_table(st, 0)
-----------------------------------------------------------------------------
Seg(s) == SubSeq(s, 1, IF Len(s) < 8 THEN Len(s) ELSE 8)
Rest(s, n) == SubSeq(s, n + 1, Len(s))
NonZero(s) == SelectSeq(s, LAMBDA x : x # 0)

(* packseg: a byte that says which of the eight are not zero, and those *)
packseg(s) ==
  LET bits[i \in 0..Len(s)] == IF i = 0 THEN 0 ELSE bits[i - 1] + (IF s[i] # 0 THEN 2^(i-1) ELSE 0)
  IN <<bits[Len(s)]>> \o NonZero(s)
(* packff: the segment as it is when six or more bytes are not zero *)
packff(s) == IF Len(NonZero(s)) >= 6 THEN <<s>> ELSE <<>>

(* pack: behind a full segment the number of segments that follow unpacked *)
RECURSIVE FullRun(_, _)
FullRun(s, n) == IF s # <<>> /\ n < MAX_FF /\ packff(Seg(s)) # <<>> THEN FullRun(Rest(s, Len(Seg(s))), n + 1) ELSE n
RECURSIVE pack(_)
pack(s) ==
  LET a == packseg(Seg(s))
      r == Rest(s, Len(Seg(s)))
      n == FullRun(r, 0)
      used == IF 8 * n < Len(r) THEN 8 * n ELSE Len(r)
  IN IF s = <<>> THEN <<>>
     ELSE IF Len(a) = 9 /\ r # <<>> THEN a \o <<n>> \o SubSeq(r, 1, used) \o pack(Rest(r, used))
     ELSE a \o pack(r)

(* zproto_pack and lpack: the size a packed string may need *)
zproto_pack(s, dstsz) == IF dstsz < ((Len(s) + 2047) \div 2048) * 2 + Len(s) + 1 THEN OOM ELSE Ok(pack(s))

Zeros(n) == [i \in 1..n |-> 0]
(* unpackseg: bytes missing at the end are zero *)
unpackseg(s) ==
  LET has(i) == (s[1] \div 2^(i-1)) % 2 = 1
      at(i) == 1 + Cardinality({j \in 1..i : has(j)})
  IN [i \in 1..8 |-> IF has(i) /\ at(i) <= Len(s) THEN s[at(i)] ELSE 0]
Taken(s) == LET n == Cardinality({i \in 1..8 : (s[1] \div 2^(i-1)) % 2 = 1})
            IN IF n < Len(s) THEN n ELSE Len(s) - 1

(* unpack, with unpackff for the segments that are counted *)
RECURSIVE unpack(_, _)
unpack(s, dn) ==
  LET n == Taken(s)
      r == Rest(s, n + 1)
      ffn == r[1]
      q == Rest(r, 1)
      used == IF 8 * ffn < Len(q) THEN 8 * ffn ELSE Len(q)
      join(b, t) == IF t.r = "ok" THEN Ok(b \o t.b) ELSE t
  IN IF s = <<>> THEN Ok(<<>>)
     ELSE IF dn < 8 THEN OOM
     ELSE IF n < 8 \/ r = <<>> THEN join(unpackseg(s), unpack(r, dn - 8))
     ELSE IF q = <<>> THEN Ok(unpackseg(s))
     ELSE IF (ffn - 1) * 8 > Len(q) THEN ERROR
     ELSE IF dn - 8 < 8 * ffn THEN OOM
     ELSE join(unpackseg(s) \o SubSeq(q, 1, used) \o Zeros(8 * ffn - used), unpack(Rest(q, used), dn - 8 - 8 * ffn))

(* lpack and lunpack *)
RECURSIVE lpack(_, _), lunpack(_, _)
lpack(s, dstsz) == LET p == zproto_pack(s, dstsz) IN IF p.r = "OOM" THEN lpack(s, dstsz * 2) ELSE p
lunpack(s, dstsz) == LET p == unpack(s, dstsz) IN IF p.r = "OOM" THEN lunpack(s, dstsz * 2) ELSE p
-----------------------------------------------------------------------------
Inputs == [kind : {"schema"}, ss : Schemas] \cup [kind : {"message"}, m : Messages]
     \cup [kind : {"bytes"}, s : UNION {[1..n -> Bytes] : n \in 1..MaxLen}
                                  \cup {FlattenSeq(r) : r \in UNION {[1..n -> Runs] : n \in 1..4}}]
Init == input = [kind |-> "none"]
Next == input.kind = "none" /\ \E i \in Inputs : input' = i
-----------------------------------------------------------------------------
RECURSIVE Depth(_)
Depth(v) == LET deepest(D) == CHOOSE d \in D : \A e \in D : e <= d
            IN CASE v[1] = "table" -> 1 + deepest({0} \cup {Depth(v[2][k]) : k \in DOMAIN v[2]})
                 [] v[1] = "array" -> deepest({0} \cup {Depth(v[2][i]) : i \in 1..Len(v[2])})
                 [] v[1] = "map" -> deepest({0} \cup {Depth(v[2][i][2]) : i \in 1..Len(v[2])})
                 [] OTHER -> 0

(* A table is decoded as it was encoded, whatever the size of the first buffer; every message that
   is cut short is refused; a schema that ends earlier reads the fields it knows.  Tables are one
   level less deep than MAX_RECURSIVE: encoding counts the levels from 0, decoding from 1. *)
Decoded(st, tbl, e) ==
  /\ e = lencode(st, tbl, 1024)
  /\ e.r = "RAISE" <=> Depth(<<"table", tbl>>) > MAX_RECURSIVE
  /\ Depth(<<"table", tbl>>) < MAX_RECURSIVE =>
       /\ ldecode(st, e.b) = [r |-> "ok", n |-> Len(e.b), tbl |-> tbl, dup |-> <<>>]
       /\ \A k \in 0..Len(e.b)-1 : ldecode(st, SubSeq(e.b, 1, k)).r # "ok"
       /\ st.fields # <<>> =>
            LET d == ldecode([st EXCEPT !.fields = Front(@)], e.b)
                known == {n \in DOMAIN tbl : n # Last(st.fields).name}
            IN d.r = "ok" /\ d.tbl = [n \in known |-> tbl[n]]
StructOf(ss) == Last(zproto_parse(SchemaText(ss)).root)
RoundTrip(st, tbl) == Decoded(st, tbl, lencode(st, tbl, BUFFSIZE))
MessagesExact == input.kind = "message" => RoundTrip(StructOf(input.m.ss), input.m.tbl)

(* What ldefault makes of a struct has its fields, and survives encoding and decoding. *)
DefaultOf(st, d) ==
  /\ DOMAIN d = {st.fields[i].name : i \in 1..Len(st.fields)}
  /\ Depth(<<"table", d>>) < MAX_RECURSIVE => ldecode(st, lencode(st, d, BUFFSIZE).b).tbl = d
DefaultOfStruct(st) == DefaultOf(st, ldefault(st))
DefaultsExact == input.kind = "message" => DefaultOfStruct(StructOf(input.m.ss))

(* Packing loses nothing but adds zeros up to a multiple of eight bytes, needs no more room than
   is asked for, and unpacking grows its buffer until the result fits. *)
PackExact ==
  input.kind = "bytes" =>
    LET s == input.s
        p == lpack(s, BUFFSIZE).b
        u == lunpack(p, BUFFSIZE)
    IN /\ Len(p) <= ((Len(s) + 2047) \div 2048) * 2 + Len(s) + 1
       /\ u.r = "ok" /\ u.b = s \o Zeros((-Len(s)) % 8)

ZprotoExact == /\ MessagesExact /\ DefaultsExact /\ PackExact
               /\ input.kind = "schema" => SchemaExact(input.ss)
=============================================================================
