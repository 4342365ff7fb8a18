-------------------------------- MODULE Json --------------------------------
\* A JSON value, how it is built, written and read, and what that promises. A text is a
\* sequence of character codes, four hexadecimal digits being one code of their own;
\* numbers have Places decimals. Depth, integers and exponents are bounded as in the
\* code, by less.
EXTENDS Integers, Sequences, SequencesExt, FiniteSets

CONSTANTS MaxDepth,    \* MAX_PARSE_DEPTH
          MaxInteger,  \* the largest int64_t
          MaxExponent, \* the exponents a double has
          Places

\* Values: for a scalar, atom says which; names are sequences of codes.
Value(type, atom, elems, fields) ==
  [type |-> type, atom |-> atom, elems |-> elems, fields |-> fields]
Null       == Value("null", <<>>, <<>>, <<>>)
Bool(b)    == Value("bool", <<IF b THEN 1 ELSE 0>>, <<>>, <<>>)
Integer(n) == Value("integer", <<n>>, <<>>, <<>>)
Float(n)   == Value("float", <<n>>, <<>>, <<>>)  \* n / 10^Places
String(s)  == Value("string", s, <<>>, <<>>)
Array(e)   == Value("array", <<>>, e, <<>>)
Object(f)  == Value("object", <<>>, <<>>, f)
Empty      == Object(<<>>)

\* Access and change. What throws changes nothing.
HasKey(v, key) == v.type = "object" /\ key \in DOMAIN v.fields
HasIndex(v, i) == v.type = "array" /\ i \in 1..Len(v.elems)
Get(v, key)    == IF HasKey(v, key) THEN {v.fields[key]} ELSE {}
GetTyped(v, key, types) == {x \in Get(v, key) : x.type \in types}

Put(v, key, x) ==
  IF v.type \in {"null", "object"}
  THEN Object([k \in DOMAIN v.fields \cup {key} |-> IF k = key THEN x ELSE v.fields[k]])
  ELSE v
PushBack(v, x) ==
  IF v.type \in {"null", "array"} THEN Array(Append(v.elems, x)) ELSE v
Erase(v, key) ==
  IF v.type = "object"
  THEN Object([k \in DOMAIN v.fields \ {key} |-> v.fields[k]]) ELSE v
EraseAt(v, i) == IF HasIndex(v, i) THEN Array(RemoveAt(v.elems, i)) ELSE v

\* What one call makes of a value, on itself or on one inside it, with these names and
\* scalars.
RECURSIVE Edited(_, _, _)
Edited(v, names, scalars) ==
  LET Inner(x) == Edited(x, names, scalars)
  IN {Null} \cup {Put(v, key, x) : key \in names, x \in scalars}
     \cup {PushBack(v, x) : x \in scalars} \cup {Erase(v, key) : key \in names}
     \cup {EraseAt(v, i) : i \in 1..Len(v.elems)}
     \cup UNION {{Put(v, key, x) : x \in Inner(v.fields[key])} : key \in DOMAIN v.fields}
     \cup UNION {{[v EXCEPT !.elems[i] = x] : x \in Inner(v.elems[i])} : i \in DOMAIN v.elems}

-----------------------------------------------------------------------------
\* Characters.
Code == [quote |-> 34, backslash |-> 92, slash |-> 47, plus |-> 43, minus |-> 45, dot |-> 46,
         zero |-> 48, comma |-> 44, colon |-> 58, open |-> 91, close |-> 93, lbrace |-> 123,
         rbrace |-> 125, space |-> 32, newline |-> 10, u |-> 117, e |-> 101, E |-> 69]
Eof == -1
Hex(code) == 10000000 + code
Literals == [true |-> <<116, 114, 117, 101>>, false |-> <<102, 97, 108, 115, 101>>,
             null |-> <<110, 117, 108, 108>>]
IsSpace(c) == c \in 9..13 \cup {32}
IsDigit(c) == c \in 48..57
Peek(t, i) == IF i <= Len(t) THEN t[i] ELSE Eof
Slice(t, i, j) == IF j < i THEN <<>> ELSE [k \in 1..(j - i + 1) |-> Peek(t, i + k - 1)]

Done(value, next) == [ok |-> TRUE, value |-> value, next |-> next]
Fail == [ok |-> FALSE, value |-> Null, next |-> 0]

RECURSIVE SkipWs(_, _), Digits(_, _)
SkipWs(t, i) == IF IsSpace(Peek(t, i)) THEN SkipWs(t, i + 1) ELSE i
Digits(t, i) == IF IsDigit(Peek(t, i)) THEN Digits(t, i + 1) ELSE i

\* Strings.
Escapes == \* the character after a backslash, and what it stands for
  [c \in {34, 92, 47, 98, 102, 110, 114, 116} |->
     CASE c = 98 -> 8 [] c = 102 -> 12 [] c = 110 -> 10 [] c = 114 -> 13 [] c = 116 -> 9
       [] OTHER -> c]
High == 55296..56319
Low  == 56320..57343

Utf8(code) ==
  LET Byte(shift) == 128 + ((code \div shift) % 64)
  IN CASE code < 128   -> <<code>>
       [] code < 2048  -> <<192 + (code \div 64), Byte(1)>>
       [] code < 65536 -> <<224 + (code \div 4096), Byte(64), Byte(1)>>
       [] OTHER        -> <<240 + (code \div 262144), Byte(4096), Byte(64), Byte(1)>>

\* The code point after the u at i, or a failure.
HexAt(t, i) == IF Peek(t, i) >= Hex(0) THEN Peek(t, i) - Hex(0) ELSE -1
CodePoint(t, i) ==
  LET first  == HexAt(t, i + 1)
      second == IF Peek(t, i + 2) = Code.backslash /\ Peek(t, i + 3) = Code.u
                THEN HexAt(t, i + 4) ELSE -1
  IN CASE first \in High /\ second \in Low ->
            Done(Integer(65536 + (first - 55296) * 1024 + (second - 56320)), i + 5)
       [] first \in High \cup Low \cup {-1} -> Fail
       [] OTHER -> Done(Integer(first), i + 2)

RECURSIVE StringBody(_, _, _)
StringBody(t, i, s) ==
  LET c == Peek(t, i)
      escaped == Peek(t, i + 1)
      point == CodePoint(t, i + 1)
  IN CASE c = Code.quote      -> Done(String(s), i + 1)
       [] c < 32              -> Fail
       [] c # Code.backslash  -> StringBody(t, i + 1, Append(s, c))
       [] escaped \in DOMAIN Escapes -> StringBody(t, i + 2, Append(s, Escapes[escaped]))
       [] escaped = Code.u /\ point.ok ->
            StringBody(t, point.next, s \o Utf8(point.value.atom[1]))
       [] OTHER -> Fail
ParseString(t, i, depth) ==
  IF depth > MaxDepth \/ Peek(t, i) # Code.quote THEN Fail ELSE StringBody(t, i + 1, <<>>)

\* Numbers. A fraction makes a float, an exponent alone only when it has to.
Ten(n) == FoldLeft(LAMBDA x, k : 10 * x, 1, [k \in 1..n |-> k])
Natural(digits) == FoldLeft(LAMBDA x, c : 10 * x + (c - 48), 0, digits)
\* int64_t holds one more below zero than above.
Fits(n) == n \in -(MaxInteger + 1)..MaxInteger
Scaled(n, e) == IF e >= 0 THEN n * Ten(e) ELSE n \div Ten(-e)

\* Where the parts of a number end, that begin at i.
WholePart(t, i) == IF Peek(t, i) = Code.zero THEN i + 1 ELSE Digits(t, i)
Decimals(t, i)  == IF Peek(t, i) = Code.dot THEN Digits(t, i + 1) ELSE i
Power(t, i) ==
  CASE Peek(t, i) \notin {Code.e, Code.E}             -> i
    [] Peek(t, i + 1) \in {Code.plus, Code.minus}     -> i + 2
    [] OTHER                                          -> i + 1

\* What it is worth: a mantissa with so many decimals, and an exponent.
NumberOf(sign, mantissa, places, exponent, integral, next) ==
  LET tenths == sign * Scaled(mantissa, Places + exponent - places)
  IN IF integral /\ tenths % Ten(Places) = 0 /\ Fits(tenths \div Ten(Places))
     THEN Done(Integer(tenths \div Ten(Places)), next)
     ELSE Done(Float(tenths), next)

ParseDigits(t, sign, start, whole, decimals, power, next) ==
  LET mantissa == Natural(Slice(t, start, whole - 1) \o Slice(t, whole + 1, decimals - 1))
      size == Natural(Slice(t, power, next - 1))
  IN CASE \/ whole = start
          \/ Peek(t, start) = Code.zero /\ IsDigit(Peek(t, whole))
          \/ decimals = whole + 1
          \/ power > decimals /\ next = power -> Fail
       [] next = whole ->
            IF Fits(sign * mantissa) THEN Done(Integer(sign * mantissa), next) ELSE Fail
       [] size > MaxExponent /\ mantissa # 0 -> Fail
       [] OTHER ->
            NumberOf(sign, mantissa, IF decimals = whole THEN 0 ELSE decimals - whole - 1,
                     CASE mantissa = 0 -> 0
                       [] Peek(t, power - 1) = Code.minus -> -size
                       [] OTHER -> size,
                     decimals = whole, next)
ParseFrom(t, sign, start) ==
  LET whole == WholePart(t, start)
      decimals == Decimals(t, whole)
      power == Power(t, decimals)
  IN ParseDigits(t, sign, start, whole, decimals, power,
                 IF power > decimals THEN Digits(t, power) ELSE decimals)
ParseNumber(t, i) ==
  IF Peek(t, i) = Code.minus THEN ParseFrom(t, -1, i + 1) ELSE ParseFrom(t, 1, i)

ParseLiteral(t, i, word, value) ==
  IF Slice(t, i, i + Len(word) - 1) = word THEN Done(value, i + Len(word)) ELSE Fail

\* Containers.
RECURSIVE ParseValue(_, _, _), Items(_, _, _, _), Members(_, _, _, _)

\* After one element: the end of the container, or where the next one begins.
After(t, i, close) ==
  LET j == SkipWs(t, i)
      k == SkipWs(t, j + 1)
  IN CASE Peek(t, j) = close -> [ends |-> TRUE, next |-> j + 1]
       [] Peek(t, j) = Code.comma /\ Peek(t, k) \notin {close, Eof} ->
            [ends |-> FALSE, next |-> k]
       [] OTHER -> [ends |-> FALSE, next |-> 0]

Items(t, i, depth, elems) ==
  LET v == ParseValue(t, i, depth + 1)
      all == Append(elems, v.value)
      then == After(t, v.next, Code.close)
  IN CASE ~v.ok \/ then.next = 0 -> Fail
       [] then.ends -> Done(Array(all), then.next)
       [] OTHER -> Items(t, then.next, depth, all)
ParseArray(t, i, depth) ==
  LET first == SkipWs(t, i + 1)
  IN IF Peek(t, first) = Code.close THEN Done(Array(<<>>), first + 1)
     ELSE Items(t, first, depth, <<>>)

Members(t, i, depth, object) ==
  LET key == ParseString(t, i, depth + 1)
      colon == SkipWs(t, key.next)
      v == ParseValue(t, SkipWs(t, colon + 1), depth + 1)
      all == Put(object, key.value.atom, v.value)
      then == After(t, v.next, Code.rbrace)
  IN CASE ~key.ok \/ Peek(t, colon) # Code.colon \/ HasKey(object, key.value.atom) -> Fail
       [] ~v.ok \/ then.next = 0 -> Fail
       [] then.ends -> Done(all, then.next)
       [] OTHER -> Members(t, then.next, depth, all)
ParseObject(t, i, depth) ==
  LET first == SkipWs(t, i + 1)
  IN IF Peek(t, first) = Code.rbrace THEN Done(Empty, first + 1)
     ELSE Members(t, first, depth, Empty)

ParseValue(t, from, depth) ==
  LET i == SkipWs(t, from)
      c == Peek(t, i)
  IN CASE depth > MaxDepth   -> Fail
       [] c = Code.quote     -> ParseString(t, i, depth)
       [] c = Code.lbrace    -> ParseObject(t, i, depth)
       [] c = Code.open      -> ParseArray(t, i, depth)
       [] IsDigit(c) \/ c = Code.minus -> ParseNumber(t, i)
       [] c = 116            -> ParseLiteral(t, i, Literals.true, Bool(TRUE))
       [] c = 102            -> ParseLiteral(t, i, Literals.false, Bool(FALSE))
       [] c = 110            -> ParseLiteral(t, i, Literals.null, Null)
       [] OTHER              -> Fail

Entire(t, v) == IF v.ok /\ SkipWs(t, v.next) > Len(t) THEN v ELSE Fail
Parse(t) == Entire(t, ParseValue(t, 1, 0))

-----------------------------------------------------------------------------
\* Writing.
RECURSIVE Decimal(_), Spaces(_), DumpValue(_, _, _)
Decimal(n) == IF n < 10 THEN <<48 + n>> ELSE Append(Decimal(n \div 10), 48 + (n % 10))
Signed(n)  == IF n < 0 THEN <<Code.minus>> \o Decimal(-n) ELSE Decimal(n)
Spaces(n)  == IF n = 0 THEN <<>> ELSE Append(Spaces(n - 1), Code.space)

\* %.17g: a whole number has no point, a fraction no trailing zero.
DumpFloat(n) ==
  LET size == IF n < 0 THEN -n ELSE n
      part == [k \in 1..Places |-> 48 + ((size \div Ten(Places - k)) % 10)]
      kept == {k \in 1..Places : \E j \in k..Places : part[j] # 48}
  IN (IF n < 0 THEN <<Code.minus>> ELSE <<>>) \o Decimal(size \div Ten(Places))
       \o (IF kept = {} THEN <<>> ELSE <<Code.dot>> \o SubSeq(part, 1, Cardinality(kept)))

DumpChar_Controls(c) == IF c \in {34, 92} THEN <<Code.backslash, c>> ELSE <<c>>
DumpChar(c) ==
  CASE c \in {34, 92} -> <<Code.backslash, c>>
    [] c \in {8, 9, 10, 12, 13} ->
         <<Code.backslash, CHOOSE e \in DOMAIN Escapes : Escapes[e] = c>>
    [] c < 32 -> <<Code.backslash, Code.u, Hex(c)>>
    [] OTHER  -> <<c>>
DumpString(s) == <<Code.quote>> \o FlattenSeq([k \in DOMAIN s |-> DumpChar(s[k])])
                                \o <<Code.quote>>

\* The keys in the order of a std::map.
Precedes(s, r) ==
  \/ Len(s) < Len(r) /\ \A k \in DOMAIN s : s[k] = r[k]
  \/ \E k \in DOMAIN s \cap DOMAIN r : s[k] < r[k] /\ \A j \in 1..(k - 1) : s[j] = r[j]
Ordered(keys) == SetToSortSeq(keys, Precedes)

\* Elements between brackets, each on a line of its own if they are indented.
Bracketed(open, close, texts, depth, indent) ==
  LET Line(d) == IF indent > 0 THEN <<Code.newline>> \o Spaces(indent * d) ELSE <<>>
      one(k) == (IF k = 1 THEN <<>> ELSE <<Code.comma>>) \o Line(depth + 1) \o texts[k]
  IN <<open>> \o FlattenSeq([k \in DOMAIN texts |-> one(k)])
       \o (IF texts = <<>> THEN <<>> ELSE Line(depth)) \o <<close>>

DumpValue(v, depth, indent) ==
  LET keys == Ordered(DOMAIN v.fields)
      member(key) == DumpString(key)
                       \o (IF indent > 0 THEN <<Code.colon, Code.space>> ELSE <<Code.colon>>)
                       \o DumpValue(v.fields[key], depth + 1, indent)
  IN CASE v.type = "null"    -> Literals.null
       [] v.type = "bool"    -> IF v.atom[1] = 1 THEN Literals.true ELSE Literals.false
       [] v.type = "integer" -> Signed(v.atom[1])
       [] v.type = "float"   -> DumpFloat(v.atom[1])
       [] v.type = "string"  -> DumpString(v.atom)
       [] v.type = "array"   ->
            Bracketed(Code.open, Code.close,
                      [k \in DOMAIN v.elems |-> DumpValue(v.elems[k], depth + 1, indent)],
                      depth, indent)
       [] OTHER ->
            Bracketed(Code.lbrace, Code.rbrace, [k \in DOMAIN keys |-> member(keys[k])],
                      depth, indent)
Dump(v, indent) == DumpValue(v, 0, indent)

-----------------------------------------------------------------------------
(* What reading and writing promise of a document that is built by calls and of any text *)

RECURSIVE Nesting(_), Reread(_)
Inside(v)  == ToSet(v.elems) \cup {v.fields[key] : key \in DOMAIN v.fields}
Nesting(v) == IF Inside(v) = {} THEN 0 ELSE 1 + Max({Nesting(x) : x \in Inside(v)})

\* A float that is whole is written without a point, so it comes back as an integer.
Reread(v) ==
  IF v.type = "float" /\ v.atom[1] % Ten(Places) = 0
  THEN Integer(v.atom[1] \div Ten(Places))
  ELSE [v EXCEPT !.elems = [i \in DOMAIN v.elems |-> Reread(v.elems[i])],
                 !.fields = [key \in DOMAIN v.fields |-> Reread(v.fields[key])]]

\* Json::dump and Json::parse: what is written is read back, indented or not, but for
\* whole floats; a document nested deeper than the parser goes is written and not read.
RoundTrip(v) ==
  \A indent \in {0, 2} :
    LET read == Parse(Dump(v, indent))
    IN IF Nesting(v) <= MaxDepth THEN read.ok /\ read.value = Reread(v) ELSE ~read.ok

\* parse_number takes the numbers of the grammar and no others, within its range, whose
\* least integer has no positive counterpart.
AllDigits(s) == s # <<>> /\ \A k \in DOMAIN s : IsDigit(s[k])
IsNumber(t) ==
  \E i \in {0, 1}, j, k \in 1..Len(t) :
    /\ i = 1 => t[1] = Code.minus
    /\ j > i /\ AllDigits(Slice(t, i + 1, j)) /\ (t[i + 1] = Code.zero => j = i + 1)
    /\ k = j \/ (k > j /\ t[j + 1] = Code.dot /\ AllDigits(Slice(t, j + 2, k)))
    /\ \/ k = Len(t)
       \/ /\ t[k + 1] = Code.e
          /\ \E sign \in {<<>>, <<Code.plus>>, <<Code.minus>>} :
               LET from == k + 2 + Len(sign)
               IN Slice(t, k + 2, from - 1) = sign /\ AllDigits(Slice(t, from, Len(t)))
InRange(t) ==
  IF Code.e \in ToSet(t)
  THEN LET at == CHOOSE k \in DOMAIN t : t[k] = Code.e
       IN \/ Natural(SelectSeq(Slice(t, at, Len(t)), IsDigit)) <= MaxExponent
          \/ Natural(SelectSeq(Slice(t, 1, at - 1), IsDigit)) = 0
  ELSE \/ Code.dot \in ToSet(t)
       \/ LET n == Natural(SelectSeq(t, IsDigit))
          IN IF t[1] = Code.minus THEN n <= MaxInteger + 1 ELSE n <= MaxInteger
NumbersOnly(t) == Parse(t).ok <=> IsNumber(t) /\ InRange(t)

\* The texts of a grammar: pieces of which "k" is a string, "m" a member with that
\* name. No object has two members, as their names would be the same.
Grammar(most) ==
  LET texts[n \in 0..most] ==
        LET values == (IF n = 1 THEN {<<"k">>} ELSE {})
              \cup (IF n = 2 THEN {<<"[", "]">>, <<"{", "}">>} ELSE {})
              \cup (IF n < 2 THEN {} ELSE
                      {<<"[">> \o s \o <<"]">> : s \in texts[n - 2].lists}
                      \cup {<<"{">> \o s \o <<"}">> : s \in texts[n - 2].members})
            tails == UNION {{s \o <<",">> \o r : s \in texts[i].values,
                                                r \in texts[n - 1 - i].lists} : i \in 1..(n - 2)}
        IN [values |-> values, lists |-> values \cup tails,
            members |-> (IF n = 1 THEN {<<"m">>} ELSE {})
                          \cup (IF n < 2 THEN {} ELSE
                                  {<<"k", ":">> \o s : s \in texts[n - 2].values})]
  IN UNION {texts[n].values : n \in 0..most}

Piece(p) ==
  CASE p = "[" -> <<91>> [] p = "]" -> <<93>> [] p = "{" -> <<123>> [] p = "}" -> <<125>>
    [] p = "," -> <<44>> [] p = ":" -> <<58>> [] p = "k" -> <<34, 107, 34>>
    [] OTHER -> <<34, 107, 34, 58, 49>>

\* parse_value takes the texts of the grammar and no others, with spaces or without.
ParsesGrammar(pieces, grammar) ==
  \A space \in {<<>>, <<32, 11>>} :
    Parse(FlattenSeq([k \in DOMAIN pieces |-> space \o Piece(pieces[k]) \o space])).ok
      <=> pieces \in grammar

\* A code point is read from its escapes as the shortest bytes that mean it; half a
\* surrogate pair is refused.
Meant(bytes) ==
  LET first == bytes[1]
      mark == CASE first < 128 -> first [] first < 224 -> first - 192
                [] first < 240 -> first - 224 [] OTHER -> first - 240
  IN FoldLeft(LAMBDA code, byte : 64 * code + (byte - 128), mark, SubSeq(bytes, 2, Len(bytes)))
Shortest(code) == CASE code < 128 -> 1 [] code < 2048 -> 2 [] code < 65536 -> 3 [] OTHER -> 4
Escape(unit) == <<Code.backslash, Code.u, Hex(unit)>>
Utf16(code) == IF code < 65536 THEN Escape(code)
               ELSE Escape(55296 + ((code - 65536) \div 1024))
                      \o Escape(56320 + ((code - 65536) % 1024))
ReadsCodePoint(code) ==
  LET Quoted(s) == <<Code.quote>> \o s \o <<Code.quote>>
      read == Parse(Quoted(Utf16(code)))
  IN IF code \in High \cup Low
     THEN ~read.ok /\ ~Parse(Quoted(Escape(code) \o <<97>>)).ok
     ELSE read.ok /\ Meant(read.value.atom) = code /\ Len(read.value.atom) = Shortest(code)
=============================================================================
