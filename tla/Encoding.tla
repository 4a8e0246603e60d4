------------------------------ MODULE Encoding ------------------------------
(***************************************************************************)
(* silly.encoding.json (ljson.c) and silly.encoding.base64 (lbase64.c).    *)
(***************************************************************************)
EXTENDS Integers, Sequences, SequencesExt, FiniteSets

(***************************************************************************)
(* The JSON encoder and decoder of ljson.c.  A text is a sequence of bytes.*)
(* A Lua value is a record: a table has the part under 1, 2, ... and the   *)
(* other keys in the order lua_next visits them; a float carries the text  *)
(* "%.14g" makes of it and, when it has no fraction and fits, its integer. *)
(***************************************************************************)
CONSTANTS MAX_DEPTH, LLONG_MAX,
          Lua,       \* the values to encode
          Escapes,   \* sequences of code units, to be written as \u escapes
          Digits,    \* bytes from which numbers are tried, up to MaxDigits
          MaxDigits,
          Tokens,    \* pieces from which texts are tried, up to MaxTokens
          MaxTokens
VARIABLE input

Err == [ok |-> FALSE, pos |-> 0, v |-> [t |-> "none"]]
Got(pos, v) == [ok |-> TRUE, pos |-> pos, v |-> v]
Bad == [ok |-> FALSE, out |-> <<>>]
Out(s) == [ok |-> TRUE, out |-> s]
Str(s) == [t |-> "string", s |-> s]
Integer(n) == [t |-> "int", n |-> n]
Bool(b) == [t |-> "boolean", b |-> b]
Table(arr, hash) == [t |-> "table", arr |-> arr, hash |-> hash]

Hex(d) == IF d < 10 THEN 48 + d ELSE 87 + d
Short == (34 :> 34) @@ (92 :> 92) @@ (8 :> 98) @@ (12 :> 102) @@ (10 :> 110) @@ (13 :> 114) @@ (9 :> 116)

(* encode_string: the short escapes, \u00xx for other control characters, the rest as it is *)
encode_string(s) ==
  LET esc(ch) == IF ch \in DOMAIN Short THEN <<92, Short[ch]>>
                 ELSE IF ch < 32 THEN <<92, 117, 48, 48, Hex(ch \div 16), Hex(ch % 16)>>
                 ELSE <<ch>>
  IN <<34>> \o FlattenSeq([i \in 1..Len(s) |-> esc(s[i])]) \o <<34>>

RECURSIVE Decimal(_)
Decimal(n) == IF n < 0 THEN <<45>> \o Decimal(-n)
              ELSE IF n < 10 THEN <<48 + n>> ELSE Append(Decimal(n \div 10), 48 + (n % 10))

(* encode_number: an integer, or a float that is one, in decimal; no infinity *)
encode_number(v) ==
  CASE v.t = "int" -> Out(Decimal(v.n))
    [] v.t = "float" -> IF v.whole THEN Out(Decimal(v.n)) ELSE Out(v.text)
    [] v.t = "inf" -> Bad

RECURSIVE encode_value(_, _)
(* encode_array: the elements up to the border *)
encode_array(arr, depth) ==
  LET step(acc, i) ==
        LET e == encode_value(arr[i], depth + 1)
        IN IF ~acc.ok \/ ~e.ok THEN Bad ELSE Out(acc.out \o (IF i > 1 THEN <<44>> ELSE <<>>) \o e.out)
      all == FoldLeft(step, Out(<<91>>), [i \in 1..Len(arr) |-> i])
  IN IF all.ok THEN Out(Append(all.out, 93)) ELSE Bad

(* encode_object: a comma behind every pair, and the last one taken back *)
encode_object(hash, depth) ==
  LET step(acc, kv) ==
        LET e == encode_value(kv[2], depth + 1)
        IN IF ~acc.ok \/ kv[1].t # "string" \/ ~e.ok THEN Bad
           ELSE Out(acc.out \o encode_string(kv[1].s) \o <<58>> \o e.out \o <<44>>)
      all == FoldLeft(step, Out(<<123>>), hash)
  IN IF all.ok THEN Out(Append(Front(all.out), 125)) ELSE Bad

(* encode_table: json.null is a table too; a table with an element 1, or with nothing, is an array *)
encode_table(v, depth) ==
  CASE depth > MAX_DEPTH -> Bad
    [] depth <= MAX_DEPTH /\ v.t = "null" -> Out(<<110, 117, 108, 108>>)
    [] OTHER -> IF v.arr # <<>> \/ v.hash = <<>> THEN encode_array(v.arr, depth)
                ELSE encode_object(v.hash, depth)

(* encode_value *)
encode_value(v, depth) ==
  CASE v.t = "string" -> Out(encode_string(v.s))
    [] v.t \in {"int", "float", "inf"} -> encode_number(v)
    [] v.t = "boolean" -> Out(IF v.b THEN <<116, 114, 117, 101>> ELSE <<102, 97, 108, 115, 101>>)
    [] v.t \in {"table", "null"} -> encode_table(v, depth)
    [] v.t = "nil" -> Out(<<110, 117, 108, 108>>)
    [] v.t = "function" -> Bad

(* lencode *)
lencode(v) == encode_value(v, 0)
-----------------------------------------------------------------------------
\* The byte behind position p, or -1 at the end.
Peek(s, p) == IF p < Len(s) THEN s[p + 1] ELSE -1
IsDigit(ch) == ch \in 48..57

RECURSIVE skip_space(_, _), skip_digits(_, _)
skip_space(s, p) == IF Peek(s, p) \in {32, 9, 10, 13} THEN skip_space(s, p + 1) ELSE p
skip_digits(s, p) == IF IsDigit(Peek(s, p)) THEN skip_digits(s, p + 1) ELSE p

(* hex_digit, parse_hex4: -1 if one of the four is not a hexadecimal digit *)
hex_digit(ch) == IF IsDigit(ch) THEN ch - 48 ELSE IF ch \in 97..102 THEN ch - 87
                 ELSE IF ch \in 65..70 THEN ch - 55 ELSE -1
parse_hex4(s, p) ==
  LET d == [i \in 1..4 |-> hex_digit(Peek(s, p + i - 1))]
  IN IF \E i \in 1..4 : d[i] < 0 THEN -1 ELSE ((d[1] * 16 + d[2]) * 16 + d[3]) * 16 + d[4]

(* utf8_encode *)
utf8_encode(cp) ==
  LET low(k) == 128 + ((cp \div 64^k) % 64)
  IN CASE cp <= 127 -> <<cp>>
       [] cp \in 128..2047 -> <<192 + cp \div 64, low(0)>>
       [] cp \in 2048..65535 -> <<224 + cp \div 4096, low(1), low(0)>>
       [] cp \in 65536..1114111 -> <<240 + cp \div 262144, low(2), low(1), low(0)>>

Unescape == (34 :> 34) @@ (92 :> 92) @@ (47 :> 47) @@ (98 :> 8) @@ (102 :> 12) @@ (110 :> 10)
            @@ (114 :> 13) @@ (116 :> 9)

(* decode_string, from behind the opening quote: p is the next byte, acc what was read *)
RECURSIVE StringFrom(_, _, _)
StringFrom(s, p, acc) ==
  LET ch == Peek(s, p)
      e == Peek(s, p + 1)
      cp == parse_hex4(s, p + 2)
      lo == parse_hex4(s, p + 8)
  IN CASE ch < 32 -> Err                                   \* the end, or a control character
       [] ch = 34 -> Got(p + 1, Str(acc))
       [] ch = 92 /\ e \in DOMAIN Unescape -> StringFrom(s, p + 2, Append(acc, Unescape[e]))
       [] ch = 92 /\ e = 117 /\ cp \in 55296..56319 ->     \* the first of a surrogate pair
            IF Peek(s, p + 6) # 92 \/ Peek(s, p + 7) # 117 \/ lo \notin 56320..57343 THEN Err
            ELSE StringFrom(s, p + 12, acc \o utf8_encode(65536 + (cp - 55296) * 1024 + lo - 56320))
       [] ch = 92 /\ e = 117 /\ cp \notin 55296..56319 ->
            IF cp < 0 \/ cp \in 56320..57343 THEN Err ELSE StringFrom(s, p + 6, acc \o utf8_encode(cp))
       [] ch = 92 /\ e \notin DOMAIN Unescape \cup {117} -> Err
       [] OTHER -> StringFrom(s, p + 1, Append(acc, ch))
decode_string(s, p) == StringFrom(s, p + 1, <<>>)

(* strtoll: the number, kept between the smallest and the largest one *)
RECURSIVE Value(_, _)
Value(s, acc) == IF s = <<>> \/ acc > LLONG_MAX THEN acc ELSE Value(Tail(s), acc * 10 + Head(s) - 48)
strtoll(s) == IF Head(s) = 45 THEN -(LET n == Value(Tail(s), 0) IN IF n > LLONG_MAX THEN LLONG_MAX + 1 ELSE n)
              ELSE LET n == Value(s, 0) IN IF n > LLONG_MAX THEN LLONG_MAX ELSE n

(* decode_number: sign, digits, fraction, exponent *)
NumberText(s, p, e, float) ==
  Got(e, IF float THEN [t |-> "float", text |-> SubSeq(s, p + 1, e)] ELSE Integer(strtoll(SubSeq(s, p + 1, e))))
AfterExponent(s, p, d, e) == IF e = d THEN Err ELSE NumberText(s, p, e, TRUE)
AfterMark(s, p, d) == AfterExponent(s, p, d, skip_digits(s, d))
AfterFraction(s, p, c, float) ==
  IF Peek(s, c) \in {101, 69} THEN AfterMark(s, p, IF Peek(s, c + 1) \in {43, 45} THEN c + 2 ELSE c + 1)
  ELSE NumberText(s, p, c, float)
AfterDot(s, p, b, c) == IF c = b + 1 THEN Err ELSE AfterFraction(s, p, c, TRUE)
AfterInteger(s, p, b) ==
  IF Peek(s, b) = 46 THEN AfterDot(s, p, b, skip_digits(s, b + 1)) ELSE AfterFraction(s, p, b, FALSE)
AfterSign(s, p, a) ==
  IF ~IsDigit(Peek(s, a)) \/ (Peek(s, a) = 48 /\ IsDigit(Peek(s, a + 1))) THEN Err
  ELSE AfterInteger(s, p, IF Peek(s, a) = 48 THEN a + 1 ELSE skip_digits(s, a))
decode_number(s, p) == AfterSign(s, p, IF Peek(s, p) = 45 THEN p + 1 ELSE p)

(* decode_literal *)
decode_literal(s, p, lit, v) ==
  IF p + Len(lit) <= Len(s) /\ SubSeq(s, p + 1, p + Len(lit)) = lit
  THEN Got(p + Len(lit), v) ELSE Err

RECURSIVE decode_value(_, _), Pairs(_, _, _), Elements(_, _, _)
(* decode_object: the pairs, each behind a brace or a comma; a repeated key keeps the last value *)
Pairs(s, p0, acc) ==
  LET p == skip_space(s, p0)
      k == decode_string(s, p)
      q == skip_space(s, k.pos)
      v == decode_value(s, q + 1)
      r == skip_space(s, v.pos)
      all == Append(SelectSeq(acc, LAMBDA kv : kv[1] # k.v), <<k.v, v.v>>)
  IN IF Peek(s, p) # 34 THEN Err ELSE IF ~k.ok THEN Err ELSE IF Peek(s, q) # 58 THEN Err
     ELSE IF ~v.ok THEN Err
     ELSE CASE Peek(s, r) = 125 -> Got(r + 1, Table(<<>>, all))
            [] Peek(s, r) = 44 -> Pairs(s, r + 1, all)
            [] OTHER -> Err
decode_object(s, p) ==
  LET q == skip_space(s, p + 1)
  IN IF Peek(s, q) = 125 THEN Got(q + 1, Table(<<>>, <<>>)) ELSE Pairs(s, q, <<>>)

(* decode_array *)
Elements(s, p, acc) ==
  LET v == decode_value(s, p)
      r == skip_space(s, v.pos)
  IN IF ~v.ok THEN Err
     ELSE CASE Peek(s, r) = 93 -> Got(r + 1, Table(Append(acc, v.v), <<>>))
            [] Peek(s, r) = 44 -> Elements(s, r + 1, Append(acc, v.v))
            [] OTHER -> Err
decode_array(s, p) ==
  LET q == skip_space(s, p + 1)
  IN IF Peek(s, q) = 93 THEN Got(q + 1, Table(<<>>, <<>>)) ELSE Elements(s, q, <<>>)

(* decode_value *)
decode_value(s, p0) ==
  LET p == skip_space(s, p0)
      ch == Peek(s, p)
  IN CASE ch = 34 -> decode_string(s, p)
       [] ch = 123 -> decode_object(s, p)
       [] ch = 91 -> decode_array(s, p)
       [] ch = 116 -> decode_literal(s, p, <<116, 114, 117, 101>>, Bool(TRUE))
       [] ch = 102 -> decode_literal(s, p, <<102, 97, 108, 115, 101>>, Bool(FALSE))
       [] ch = 110 -> decode_literal(s, p, <<110, 117, 108, 108>>, [t |-> "null"])
       [] ch = 45 \/ IsDigit(ch) -> decode_number(s, p)
       [] OTHER -> Err

(* json_decode: what follows the value is not looked at *)
json_decode(s) == decode_value(s, 0)
-----------------------------------------------------------------------------
Escape(u) == <<92, 117>> \o [i \in 1..4 |-> Hex((u \div 16^(4 - i)) % 16)]
JsonInputs == [kind : {"lua"}, v : Lua] \cup [kind : {"escape"}, u : Escapes]
     \cup [kind : {"number"}, s : UNION {[1..n -> Digits] : n \in 1..MaxDigits}]
     \cup [kind : {"text"}, ts : UNION {[1..n -> DOMAIN Tokens] : n \in 1..MaxTokens}]

JsonInit == input = [kind |-> "none"]
JsonNext == input.kind = "none" /\ \E i \in JsonInputs : input' = i
-----------------------------------------------------------------------------
\* What JSON can say of a value, and whether it can say anything at all.
RECURSIVE Plain(_), Sayable(_, _)
Plain(v) ==
  CASE v.t = "nil" -> [t |-> "null"]
    [] v.t = "float" -> IF v.whole THEN Integer(v.n) ELSE [t |-> "float", text |-> v.text]
    [] v.t = "table" -> IF v.arr # <<>> THEN Table([i \in 1..Len(v.arr) |-> Plain(v.arr[i])], <<>>)
                        ELSE Table(<<>>, [i \in 1..Len(v.hash) |-> <<v.hash[i][1], Plain(v.hash[i][2])>>])
    [] OTHER -> v
Sayable(v, depth) ==
  /\ v.t \notin {"inf", "function"}
  /\ v.t \in {"table", "null"} => depth <= MAX_DEPTH
  /\ v.t = "table" => /\ \A i \in 1..Len(v.arr) : Sayable(v.arr[i], depth + 1)
                      /\ v.arr = <<>> => \A i \in 1..Len(v.hash) : /\ v.hash[i][1].t = "string"
                                                                    /\ Sayable(v.hash[i][2], depth + 1)

(* What is encoded is decoded to the same value, to its last byte, and is not JSON when it is cut
   short; exactly the values JSON has no word for, or too deep, are refused. *)
Encoded(v, e) ==
  /\ e.ok <=> Sayable(v, 0)
  /\ e.ok => /\ json_decode(e.out) = Got(Len(e.out), Plain(v))
             /\ Head(e.out) \in {34, 91, 123} =>
                  \A k \in 0..Len(e.out)-1 : ~json_decode(SubSeq(e.out, 1, k)).ok
RoundTrip == input.kind = "lua" => Encoded(input.v, lencode(input.v))

\* A code point as its UTF-16 code units, and the sequences of units that are well formed.
Units(cp) == IF cp < 65536 THEN <<cp>>
             ELSE <<55296 + (cp - 65536) \div 1024, 56320 + ((cp - 65536) % 1024)>>
\* The code point that UTF-8 bytes stand for.
Point(b) == CASE Len(b) = 1 -> b[1] [] Len(b) = 2 -> (b[1] % 32) * 64 + (b[2] % 64)
              [] Len(b) = 3 -> ((b[1] % 16) * 64 + (b[2] % 64)) * 64 + (b[3] % 64)
              [] Len(b) = 4 -> (((b[1] % 8) * 64 + (b[2] % 64)) * 64 + (b[3] % 64)) * 64 + (b[4] % 64)

(* A \u escape, or a pair of them, gives the UTF-8 of its character; half a pair is refused. *)
EscapeRead(u, got) ==
  LET high == {i \in 1..Len(u) : u[i] \in 55296..56319}
      low == {i \in 1..Len(u) : u[i] \in 56320..57343}
  IN /\ got.ok <=> low = {i + 1 : i \in high}
     /\ got.ok /\ (Len(u) = 1 \/ high = {1}) => Units(Point(got.v.s)) = u
EscapesExact ==
  input.kind = "escape" =>
    EscapeRead(input.u,
               json_decode(<<34>> \o FlattenSeq([i \in 1..Len(input.u) |-> Escape(input.u[i])]) \o <<34>>))

\* RFC 8259: number = [ minus ] int [ frac ] [ exp ]
AllDigits(s) == s # <<>> /\ \A i \in 1..Len(s) : IsDigit(s[i])
IsInt(s) == s = <<48>> \/ (AllDigits(s) /\ s[1] # 48)
IsNumber(s) ==
  \E a \in 0..Len(s), b \in 0..Len(s), c \in 0..Len(s) :
    /\ a <= b /\ b <= c /\ SubSeq(s, 1, a) \in {<<>>, <<45>>} /\ IsInt(SubSeq(s, a + 1, b))
    /\ b = c \/ (s[b+1] = 46 /\ AllDigits(SubSeq(s, b + 2, c)))
    /\ \/ c = Len(s)
       \/ /\ s[c+1] \in {69, 101}
          /\ \E d \in {c + 2, c + 3} : /\ d <= Len(s) /\ SubSeq(s, c + 2, d - 1) \in {<<>>, <<43>>, <<45>>}
                                       /\ AllDigits(SubSeq(s, d, Len(s)))
(* Every number of the grammar is read to its end, and nothing else is read as one; an integer
   keeps its value unless it is out of range. *)
NumberRead(s, got) ==
  /\ IsNumber(s) => got.ok /\ got.pos = Len(s)
  /\ got.ok => IsNumber(SubSeq(s, 1, got.pos))
  /\ got.ok /\ got.v.t = "int" /\ got.v.n \in 1-LLONG_MAX..LLONG_MAX-1 /\ Head(s) # 45
       => Decimal(got.v.n) = SubSeq(s, 1, got.pos)
NumbersExact == input.kind = "number" => NumberRead(input.s, json_decode(input.s))

\* The grammar of arrays and objects over tokens.
RECURSIVE IsValue(_), IsList(_, _)
IsPair(ts) == Len(ts) >= 3 /\ ts[1] = "string" /\ ts[2] = ":" /\ IsValue(SubSeq(ts, 3, Len(ts)))
IsList(ts, pairs) ==
  \/ IF pairs THEN IsPair(ts) ELSE IsValue(ts)
  \/ \E i \in 1..Len(ts) : /\ ts[i] = "," /\ IsList(SubSeq(ts, i + 1, Len(ts)), pairs)
                           /\ IF pairs THEN IsPair(SubSeq(ts, 1, i-1)) ELSE IsValue(SubSeq(ts, 1, i-1))
IsValue(ts) ==
  \/ ts \in {<<"string">>, <<"true">>}
  \/ /\ Len(ts) >= 2
     /\ LET inner == SubSeq(ts, 2, Len(ts) - 1)
        IN \/ Head(ts) = "[" /\ Last(ts) = "]" /\ (inner = <<>> \/ IsList(inner, FALSE))
           \/ Head(ts) = "{" /\ Last(ts) = "}" /\ (inner = <<>> \/ IsList(inner, TRUE))

(* A text is accepted just when it starts with a JSON value, with or without white space. *)
TextsExact ==
  input.kind = "text" =>
    LET text == FlattenSeq([i \in 1..Len(input.ts) |-> Tokens[input.ts[i]]])
        ts == SelectSeq(input.ts, LAMBDA t : t # " ")
    IN json_decode(text).ok <=> \E k \in 1..Len(ts) : IsValue(SubSeq(ts, 1, k))

JsonExact == RoundTrip /\ EscapesExact /\ NumbersExact /\ TextsExact

-----------------------------------------------------------------------------
(***************************************************************************)
(* lbase64.c: encode, urlsafe_encode and decode, on bytes and characters   *)
(* by their codes.                                                         *)
(***************************************************************************)
CONSTANTS Octets, MaxOctets   \* the strings to encode

Pad == 61

(* The two dictionaries of encodex. *)
dict(urlsafe, v) ==
  CASE v \in 0..25 -> 65 + v
    [] v \in 26..51 -> 97 + (v - 26)
    [] v \in 52..61 -> 48 + (v - 52)
    [] v = 62 -> IF urlsafe THEN 45 ELSE 43
    [] v = 63 -> IF urlsafe THEN 95 ELSE 47

(* undict takes both; what is in neither counts as 0. *)
undict(ch) ==
  CASE ch \in {43, 45} -> 62
    [] ch \in {47, 95} -> 63
    [] ch \in 65..90 -> ch - 65
    [] ch \in 97..122 -> (ch - 97) + 26
    [] ch \in 48..57 -> (ch - 48) + 52
    [] OTHER -> 0

\* s in groups of n, the last one perhaps shorter; digits of base b, the missing ones zero.
Groups(s, n) == [i \in 1..(Len(s) + (n - 1)) \div n |->
                   SubSeq(s, n * (i - 1) + 1, IF n * i < Len(s) THEN n * i ELSE Len(s))]
Word(g, n, b) == FoldLeft(LAMBDA acc, i : acc * b + (IF i <= Len(g) THEN g[i] ELSE 0), 0,
                          [i \in 1..n |-> i])
Digit(w, n, b, i) == (w \div b^(n - i)) % b

(* encodex: three bytes are four characters, one or two at the end are two or three, padded
   unless the text is for a URL *)
encodex(dat, urlsafe) ==
  FlattenSeq([k \in 1..Len(Groups(dat, 3)) |->
    LET g == Groups(dat, 3)[k]
    IN [i \in 1..Len(g)+1 |-> dict(urlsafe, Digit(Word(g, 3, 256), 4, 64, i))]
         \o (IF urlsafe THEN <<>> ELSE [i \in 1..3-Len(g) |-> Pad])])

\* The characters of a group up to the last one that is no padding.
RECURSIVE Stripped(_)
Stripped(g) == IF g # <<>> /\ Last(g) = Pad THEN Stripped(Front(g)) ELSE g

(* base64_decode: padding may end every group, and one character alone stands for nothing *)
base64_decode(s) ==
  FlattenSeq([k \in 1..Len(Groups(s, 4)) |->
    LET g == Stripped(Groups(s, 4)[k])
        w == Word([i \in 1..Len(g) |-> undict(g[i])], 4, 64)
    IN [i \in 1..(IF g = <<>> THEN 0 ELSE Len(g) - 1) |-> Digit(w, 3, 256, i)]])

Base64Inputs == [kind : {"octets"}, s : UNION {[1..n -> Octets] : n \in 0..MaxOctets}, tail : {<<>>, <<1>>, <<1, 255>>}]
Base64Init == input = [kind |-> "none"]
Base64Next == input.kind = "none" /\ \E i \in Base64Inputs : input' = i
-----------------------------------------------------------------------------
(* A text is decoded to the bytes it was encoded from, by either alphabet; padded texts may follow
   each other; what is made for a URL has no character a URL gives a meaning to. *)
Base64Exact ==
  input.kind = "octets" =>
    LET s == input.s
        padded == encodex(s, FALSE)
        url == encodex(s, TRUE)
    IN /\ base64_decode(padded) = s /\ base64_decode(url) = s
       /\ Len(padded) = 4 * ((Len(s) + 2) \div 3)
       /\ base64_decode(padded \o encodex(input.tail, FALSE)) = s \o input.tail
       /\ ToSet(url) \cap {43, 47, Pad} = {}
=============================================================================
