------------------------------ MODULE Strings -------------------------------
(***************************************************************************)
(* string_utils, and the socket addresses that are taken apart with it;    *)
(* ByteWriter and ByteReader over a buffer, Base64, and the conversions    *)
(* between C++ values and Json of serialize.h. Texts are sequences of      *)
(* characters; where bytes matter, of numbers.                             *)
(***************************************************************************)
EXTENDS Integers, Sequences, FiniteSets, SequencesExt, FiniteSetsExt

CONSTANTS
  IntBits, LongBits, \* of int32_t and uint32_t, of 64 bits and of long
  SizeLimit          \* size_t is below it

Sub(text, i, j) == SubSeq(text, i, IF j < Len(text) THEN j ELSE Len(text))
At(text, part, i) == Sub(text, i, i + Len(part) - 1) = part
Places(text, part) == {i \in DOMAIN text : At(text, part, i)}
Found(text, part, from) == Min({i \in Places(text, part) : i >= from} \cup {Len(text) + 1})

-----------------------------------------------------------------------------
(* Parts of texts *)

StartsWith(text, prefix) == Sub(text, 1, Len(prefix)) = prefix
EndsWith(text, suffix) ==
  Len(suffix) <= Len(text) /\ Sub(text, Len(text) - Len(suffix) + 1, Len(text)) = suffix
StripPrefix(text, prefix) ==
  IF StartsWith(text, prefix) THEN Sub(text, Len(prefix) + 1, Len(text)) ELSE text
StripSuffix(text, suffix) ==
  IF EndsWith(text, suffix) THEN Sub(text, 1, Len(text) - Len(suffix)) ELSE text

Join(parts, delimiter) ==
  FlattenSeq([i \in DOMAIN parts |-> parts[i] \o IF i < Len(parts) THEN delimiter ELSE <<>>])

\* Pieces without a character are left out.
RECURSIVE SplitFrom(_, _, _, _)
SplitFrom(text, delimiter, start, next) ==
  LET after == next + Len(delimiter)
  IN (IF next > start THEN <<Sub(text, start, next - 1)>> ELSE <<>>)
     \o (IF after > Len(text) THEN <<>>
         ELSE SplitFrom(text, delimiter, after, Found(text, delimiter, after)))
SplitString(text, delimiter) == SplitFrom(text, delimiter, 1, Found(text, delimiter, 1))

\* The search goes on behind the replacement.
RECURSIVE ReplaceFrom(_, _, _, _)
ReplaceFrom(text, old, new, pos) ==
  LET i == Found(text, old, pos)
  IN IF i > Len(text) THEN text
     ELSE ReplaceFrom(Sub(text, 1, i - 1) \o new \o Sub(text, i + Len(old), Len(text)),
                      old, new, i + Len(new))
ReplaceEach(text, old, new) == ReplaceFrom(text, old, new, 1)

Whitespace == {"\t", "\n", " "}
TrimWhitespace(text) ==
  LET kept == {i \in DOMAIN text : text[i] \notin Whitespace}
  IN IF kept = {} THEN <<>> ELSE Sub(text, Min(kept), Max(kept))

\* StringCopy, SprintfTrunc and StackString have room for a terminator.
Truncated(text, size) == Sub(text, 1, size - 1)

\* Of the line that a character is on: what it says, the place in it, and its number.
FindLineWithOffset(text, offset) ==
  LET ends == {i \in DOMAIN text : text[i] = "\n"}
      before == {i \in ends : i <= offset}
      start == Max(before \cup {0})
  IN IF offset >= Len(text) \/ offset + 1 \in ends THEN <<>>
     ELSE <<[line |-> Sub(text, start + 1, Min({i \in ends : i > offset} \cup {Len(text) + 1}) - 1),
             offset |-> offset - start, number |-> Cardinality(before) + 1]>>

-----------------------------------------------------------------------------
(* Numbers, from "a string's" strtol and strtoul or "a view's" from_chars *)

Digits == [c \in {"0", "1", "2", "9"} |-> CASE c = "0" -> 0 [] c = "1" -> 1 [] c = "2" -> 2 [] OTHER -> 9]
Number(digits) == FoldLeft(LAMBDA n, c : 10 * n + Digits[c], 0, digits)
AllDigits(text) == text # <<>> /\ \A i \in DOMAIN text : text[i] \in DOMAIN Digits
Lowest(signed, bits) == IF signed THEN -(2 ^ (bits - 1)) ELSE 0
Highest(signed, bits) == IF signed THEN 2 ^ (bits - 1) - 1 ELSE 2 ^ bits - 1
Cast(n, signed, bits) == ((n - Lowest(signed, bits)) % (2 ^ bits)) + Lowest(signed, bits)
Clamp(n, low, high) == IF n < low THEN low ELSE IF n > high THEN high ELSE n
None == {}

\* strtoul negates what it has read, unless that was too large.
Strtol(minus, n, signed) ==
  IF signed THEN Clamp(IF minus THEN -n ELSE n, Lowest(TRUE, LongBits), Highest(TRUE, LongBits))
  ELSE IF n > Highest(FALSE, LongBits) THEN Highest(FALSE, LongBits)
  ELSE Cast(IF minus THEN -n ELSE n, FALSE, LongBits)

\* CStringToInt32, UInt32, Int64 and UInt64: spaces and a sign may come first, and what
\* is too large for the type is cast.
CStringTo(text, signed, bits) ==
  LET spaces == Max({k \in 0..Len(text) : \A i \in 1..k : text[i] = " "})
      rest == Sub(text, spaces + 1, Len(text))
      hasSign == rest # <<>> /\ rest[1] \in {"+", "-"}
      digits == IF hasSign THEN Tail(rest) ELSE rest
  IN IF AllDigits(digits)
     THEN {Cast(Strtol(hasSign /\ rest[1] = "-", Number(digits), signed), signed, bits)}
     ELSE None

FromChars(text, signed, bits) ==
  LET minus == signed /\ text # <<>> /\ text[1] = "-"
      digits == IF minus THEN Tail(text) ELSE text
      n == IF minus THEN -Number(digits) ELSE Number(digits)
  IN IF AllDigits(digits) /\ n \in Lowest(signed, bits)..Highest(signed, bits) THEN {n} ELSE None

StringViewToNumber(text, signed, bits) ==
  FromChars(IF text # <<>> /\ text[1] = "+" THEN Tail(text) ELSE text, signed, bits)
StringViewTo(text, signed, bits) ==
  IF ~signed /\ text # <<>> /\ text[1] = "-"
  THEN {Cast(n, FALSE, bits) : n \in StringViewToNumber(text, TRUE, bits)}
  ELSE StringViewToNumber(text, signed, bits)

-----------------------------------------------------------------------------
(* GetSockFamily and MakeSockAddr *)

\* What follows the last colon is a number of any kind.
GetSockFamily(addr) ==
  LET colons == {i \in DOMAIN addr : addr[i] = ":"}
  IN IF addr = <<>> THEN "unspec"
     ELSE IF addr[1] = "@" \/ colons = {} THEN "unix"
     ELSE IF CStringTo(Sub(addr, Max(colons) + 1, Len(addr)), TRUE, IntBits) = None THEN "unix"
     ELSE IF addr[1] = "[" THEN "inet6" ELSE "inet"

\* The host and the port that are looked up, or nothing if the vectors are shorter than
\* it takes for granted.
Endpoint(host, port) == <<[host |-> host, port |-> port]>>
MakeSockAddr(addr) ==
  IF GetSockFamily(addr) = "inet"
  THEN LET parts == SplitString(addr, <<":">>)
       IN IF Len(parts) < 2 THEN <<>> ELSE Endpoint(parts[1], parts[2])
  ELSE LET parts == SplitString(addr, <<"]">>)
       IN IF Len(parts) < 2 THEN <<>>
          ELSE LET address == SplitString(parts[1], <<"[">>)
                   port == SplitString(parts[2], <<":">>)
               IN IF address = <<>> \/ port = <<>> THEN <<>> ELSE Endpoint(address[1], port[1])

-----------------------------------------------------------------------------
(* CheckAsciiAndRemoveInvalidUTF8 *)

LengthOf(lead) ==
  CASE lead < 128 -> 1 [] lead \in 192..223 -> 2 [] lead \in 224..239 -> 3 [] lead \in 240..247 -> 4
    [] OTHER -> 0

\* The byte after the lead tells what is too long, a surrogate, or too large.
IsSequence(bytes, i, n) ==
  LET lead == bytes[i]
      second == bytes[i + 1]
  IN /\ n = 2 => lead >= 194
     /\ n = 3 => ~(lead = 224 /\ second < 160) /\ ~(lead = 237 /\ second >= 160)
     /\ n = 4 => ~(lead = 240 /\ second < 144) /\ ~(lead = 244 /\ second > 143)
     /\ \A j \in 1..n - 1 : bytes[i + j] \in 128..191

\* A sequence that is not one is left out whole.
RECURSIVE CleanFrom(_, _)
CleanFrom(bytes, i) ==
  IF i > Len(bytes) THEN <<>>
  ELSE LET n == LengthOf(bytes[i])
       IN IF n = 0 \/ i + n - 1 > Len(bytes) THEN CleanFrom(bytes, i + 1)
          ELSE (IF IsSequence(bytes, i, n) THEN Sub(bytes, i, i + n - 1) ELSE <<>>)
               \o CleanFrom(bytes, i + n)

CheckAscii(bytes) == \A i \in DOMAIN bytes : bytes[i] < 128
RemoveInvalidUTF8(bytes) == CleanFrom(bytes, 1)

-----------------------------------------------------------------------------
(* Properties *)

\* The places where a delimiter is met, from the left, that do not overlap: every other
\* place overlaps one of them that is before it.
Met(text, part) ==
  CHOOSE S \in SUBSET Places(text, part) :
    /\ \A i, j \in S : i < j => i + Len(part) <= j
    /\ \A i \in Places(text, part) \ S : \E j \in S : j < i /\ i < j + Len(part)
Covered(places, length) == UNION {i..i + length - 1 : i \in places}

\* The pieces are what is between the delimiters, in order, with none empty; where no two
\* delimiters meet, Join puts them together again.
SplitMeans(text, delimiter) ==
  LET met == Met(text, delimiter)
      covered == Covered(met, Len(delimiter))
      kept == DOMAIN text \ covered
      pieces == SplitString(text, delimiter)
  IN /\ FlattenSeq(pieces) = [k \in 1..Cardinality(kept) |->
           text[CHOOSE i \in kept : Cardinality({j \in kept : j <= i}) = k]]
     /\ Len(pieces) = Cardinality({i \in kept : i - 1 \notin kept})
     /\ \A k \in DOMAIN pieces : pieces[k] # <<>> /\ Places(pieces[k], delimiter) = {}
     /\ Len(pieces) = Cardinality(met) + 1 => Join(pieces, delimiter) = text

\* Each place that is met is replaced, once, also by what holds it.
ReplaceMeans(text, old, new) ==
  LET met == Met(text, old)
      covered == Covered(met, Len(old))
  IN ReplaceEach(text, old, new) =
       FlattenSeq([i \in DOMAIN text |-> IF i \in met THEN new
                                         ELSE IF i \in covered THEN <<>> ELSE <<text[i]>>])

\* What is stripped or trimmed is an end of the text, and the rest does not end so.
EndsMean(text) ==
  LET trimmed == TrimWhitespace(text)
      Blank(s) == \A i \in DOMAIN s : s[i] \in Whitespace
  IN /\ \E i, j \in 0..Len(text) :
          /\ i <= j /\ trimmed = Sub(text, i + 1, j)
          /\ Blank(Sub(text, 1, i)) /\ Blank(Sub(text, j + 1, Len(text)))
     /\ trimmed # <<>> => trimmed[1] \notin Whitespace /\ Last(trimmed) \notin Whitespace
     /\ \A k \in 0..Len(text) :
          /\ StripPrefix(text, Sub(text, 1, k)) \o StripSuffix(text, Sub(text, k + 1, Len(text)))
               = Sub(text, k + 1, Len(text)) \o Sub(text, 1, k)
          /\ k > 0 => IsPrefix(Truncated(text, k), text) /\ Len(Truncated(text, k)) = k - 1

\* A place in a text is found again from its line's number and the place in that.
LinesMean(text) ==
  \A offset \in 0..Len(text) :
    LET found == FindLineWithOffset(text, offset)
    IN /\ found = <<>> <=> offset = Len(text) \/ text[offset + 1] = "\n"
       /\ found # <<>> =>
            LET f == found[1]
                start == offset - f.offset
            IN /\ "\n" \notin {f.line[i] : i \in DOMAIN f.line}
               /\ f.line[f.offset + 1] = text[offset + 1] /\ At(text, f.line, start + 1)
               /\ start > 0 => text[start] = "\n"
               /\ start + Len(f.line) < Len(text) => text[start + Len(f.line) + 1] = "\n"
               /\ Cardinality({i \in 1..start : text[i] = "\n"}) = f.number - 1

\* "match the behavior of the other string conversion utilities": both give the same
\* number; a view has no spaces and nothing out of range, but takes a plus with a minus.
NumbersAgree(text, signed, bits) ==
  LET view == StringViewTo(text, signed, bits)
      string == CStringTo(text, signed, bits)
      exact == CStringTo(text, TRUE, LongBits)
  IN /\ view # None /\ Sub(text, 1, 2) # <<"+", "-">> => string = view
     /\ \A n \in exact :
          /\ string # None /\ text[1] # " "
          /\ n \in Lowest(signed \/ n < 0, bits)..Highest(signed, bits)
          /\ n \notin {Lowest(TRUE, LongBits), Highest(TRUE, LongBits)}
          => view = string

\* Addresses of the forms the header lists lead where they say.
AddressesMean(host, port) ==
  /\ GetSockFamily(<<"@">> \o host) = "unix" /\ GetSockFamily(<<"/">> \o host) = "unix"
  /\ LET addr == host \o <<":">> \o port IN
       GetSockFamily(addr) = "inet" /\ host # <<>> => MakeSockAddr(addr) = Endpoint(host, port)
  /\ \A colons \in {<<>>, <<":">>, <<":", ":">>} :
       LET addr == <<"[">> \o colons \o host \o <<"]", ":">> \o port IN
         GetSockFamily(addr) = "inet6" /\ colons \o host # <<>>
           => MakeSockAddr(addr) = Endpoint(colons \o host, port)

\* RFC 3629, by the code points: the shortest form of each, and no surrogates.
CodeOf(bytes) ==
  LET n == Len(bytes)
      lead == CASE n = 1 -> bytes[1] [] n = 2 -> bytes[1] - 192 [] n = 3 -> bytes[1] - 224
                [] OTHER -> bytes[1] - 240
  IN FoldLeft(LAMBDA x, b : 64 * x + (b - 128), lead, Tail(bytes))
Least(n) == CASE n = 1 -> 0 [] n = 2 -> 128 [] n = 3 -> 2048 [] OTHER -> 65536
Encodes(bytes, top) ==
  LET n == Len(bytes)
  IN /\ n \in 1..4 /\ LengthOf(bytes[1]) = n /\ \A i \in 2..n : bytes[i] \in 128..191
     /\ CodeOf(bytes) \in Least(n)..top /\ CodeOf(bytes) \notin 55296..57343
RECURSIVE IsUtf8(_, _)
IsUtf8(bytes, top) ==
  bytes = <<>> \/ \E n \in 1..Len(bytes) :
    Encodes(Sub(bytes, 1, n), top) /\ IsUtf8(Sub(bytes, n + 1, Len(bytes)), top)

\* What is UTF-8 stays as it is, and what is left of another text is UTF-8, but for the
\* leads of which no code point is small enough.
CleansUtf8(bytes) ==
  LET output == RemoveInvalidUTF8(bytes)
      leads == {bytes[i] : i \in DOMAIN bytes} \cap 245..247
  IN /\ CheckAscii(bytes) => IsUtf8(bytes, 127)
     /\ IsUtf8(bytes, 1114111) => output = bytes
     /\ IsUtf8(output, IF leads = {} THEN 1114111 ELSE 2097151)

-----------------------------------------------------------------------------
(* A buffer with a position. The value of a type is the sequence of its bytes *)
(* as the machine has them, the least significant first.                      *)

Buffer(bytes, position) == [bytes |-> bytes, position |-> position]
Remaining(b) == Len(b.bytes) - b.position

\* CanRead and CanWrite add in size_t.
Can(b, count) == (b.position + count) % SizeLimit <= Len(b.bytes)
Seek(b, position) == IF position > Len(b.bytes) THEN b ELSE Buffer(b.bytes, position)
SwapBytes(value) == Reverse(value)

WriteBytes(b, bytes) ==
  IF ~Can(b, Len(bytes)) THEN b
  ELSE Buffer([i \in DOMAIN b.bytes |-> IF i - b.position \in DOMAIN bytes THEN bytes[i - b.position]
                                    ELSE b.bytes[i]],
          b.position + Len(bytes))
WriteValue(b, value, little) == WriteBytes(b, IF little THEN value ELSE SwapBytes(value))
WriteNullTerminatedString(b, text) == WriteBytes(b, Append(text, 0))

Nothing(b) == [ok |-> FALSE, bytes |-> <<>>, at |-> b]
Taken(b, length, skipped) ==
  [ok |-> TRUE, bytes |-> SubSeq(b.bytes, b.position + 1, b.position + length),
   at |-> Buffer(b.bytes, b.position + length + skipped)]
ReadBytes(b, count) == IF Can(b, count) THEN Taken(b, count, 0) ELSE Nothing(b)
ReadValue(b, count, little) ==
  LET r == ReadBytes(b, count) IN [r EXCEPT !.bytes = IF little THEN @ ELSE SwapBytes(@)]
ReadNullTerminatedString(b, max) ==
  LET most == IF max < Remaining(b) THEN max ELSE Remaining(b)
      ends == {i \in 0..most - 1 : b.bytes[b.position + i + 1] = 0}
  IN IF ends = {} THEN Nothing(b) ELSE Taken(b, CHOOSE i \in ends : \A j \in ends : i <= j, 1)

-----------------------------------------------------------------------------
(* Base64, in numbers of six bits, 64 for padding and more for what has none  *)

Pad == 64
Part(byte, low, bits) == (byte \div 2 ^ low) % 2 ^ bits
EncodeGroup(g) ==
  LET Byte(i) == IF i <= Len(g) THEN g[i] ELSE 0
      sextets == <<Part(g[1], 2, 6), Part(g[1], 0, 2) * 16 + Part(Byte(2), 4, 4),
                   Part(Byte(2), 0, 4) * 4 + Part(Byte(3), 6, 2), Part(Byte(3), 0, 6)>>
  IN [i \in 1..4 |-> IF i <= Len(g) + 1 THEN sextets[i] ELSE Pad]
RECURSIVE Base64Encode(_)
Base64Encode(bytes) ==
  IF Len(bytes) <= 3 THEN IF bytes = <<>> THEN <<>> ELSE EncodeGroup(bytes)
  ELSE EncodeGroup(SubSeq(bytes, 1, 3)) \o Base64Encode(SubSeq(bytes, 4, Len(bytes)))

\* A group that is short is padded, if it has two characters; padding in any place has
\* the bits of zero, and how much is at the end is taken off.
Value(c) == c % Pad
DecodeGroup_Carry(g) ==
  <<Part(Value(g[1]), 0, 6) * 4, Part(Value(g[2]), 0, 4) * 16 + Part(Value(g[3]), 2, 4),
    Part(Value(g[3]), 0, 2) * 64 + Value(g[4])>>
DecodeGroup(g) ==
  <<Part(Value(g[1]), 0, 6) * 4 + Part(Value(g[2]), 4, 2),
    Part(Value(g[2]), 0, 4) * 16 + Part(Value(g[3]), 2, 4),
    Part(Value(g[3]), 0, 2) * 64 + Value(g[4])>>
Group(text, k) == [i \in 1..4 |-> IF 4 * k + i <= Len(text) THEN text[4 * k + i] ELSE Pad]
IsPad(c) == IF c = Pad THEN 1 ELSE 0
Base64Decode(text) ==
  LET groups == (Len(text) + 3) \div 4
      bytes == FlattenSeq([k \in 1..groups |-> DecodeGroup(Group(text, k - 1))])
      last == Group(text, groups - 1)
  IN IF Len(text) % 4 = 1 \/ \E i \in DOMAIN text : text[i] > Pad THEN [ok |-> FALSE, bytes |-> <<>>]
     ELSE [ok |-> TRUE,
           bytes |-> IF groups = 0 THEN <<>>
                     ELSE SubSeq(bytes, 1, Len(bytes) - IsPad(last[3]) - IsPad(last[4]))]

-----------------------------------------------------------------------------
(* serialize.h. A Json value is its type with its content, of an object a set *)
(* of pairs; a type of C++ that is not a vector or a struct is its name.      *)

Json(type, content) == [type |-> type, content |-> content]
Bits(type) == IF type \in {"int", "uint32"} THEN IntBits ELSE LongBits
Converted(n, type) == Cast(n, type \in {"int", "int64"}, Bits(type))
Whole == {"int", "int64", "uint32", "uint64"}

RECURSIVE to_json(_, _), from_json(_, _)
to_json(v, type) ==
  CASE type.kind \in Whole -> Json("integer", Converted(v, "int64"))
    [] type.kind \in {"bool", "string", "float"} -> Json(type.kind, v)
    [] type.kind = "vector" -> Json("array", [i \in DOMAIN v |-> to_json(v[i], type.of)])
    [] OTHER -> Json("object", {<<f, to_json(v[f], type.of[f])>> : f \in DOMAIN type.of})

\* What is not of the type gives nothing, and an item or a field that gives nothing is
\* passed over.
Got(set) == CHOOSE x \in set : TRUE
Member(j, f) == {m[2] : m \in {n \in j.content : n[1] = f}}
from_json(j, type) ==
  CASE type.kind \in Whole /\ j.type = "integer" -> {Converted(j.content, type.kind)}
    [] type.kind = "float" /\ j.type \in {"float", "integer"} -> {j.content}
    [] type.kind \in {"bool", "string"} /\ j.type = type.kind -> {j.content}
    [] type.kind = "vector" /\ j.type = "array" ->
         LET items == [i \in DOMAIN j.content |-> from_json(j.content[i], type.of)]
         IN {FlattenSeq([i \in DOMAIN items |-> IF items[i] = {} THEN <<>> ELSE <<Got(items[i])>>])}
    [] type.kind = "struct" /\ j.type = "object" ->
         {[f \in DOMAIN type.of |->
             LET read == UNION {from_json(m, type.of[f]) : m \in Member(j, f)}
             IN IF read = {} THEN type.default[f] ELSE Got(read)]}
    [] OTHER -> {}

-----------------------------------------------------------------------------
(* Properties *)

\* Fields are [how, bytes], with how of "value", "bytes" and "terminated".
Write(b, field, little) ==
  CASE field.how = "value" -> WriteValue(b, field.bytes, little)
    [] field.how = "bytes" -> WriteBytes(b, field.bytes)
    [] OTHER -> WriteNullTerminatedString(b, field.bytes)
Read(b, field, little) ==
  CASE field.how = "value" -> ReadValue(b, Len(field.bytes), little)
    [] field.how = "bytes" -> ReadBytes(b, Len(field.bytes))
    [] OTHER -> ReadNullTerminatedString(b, SizeLimit - 1)
WrittenBefore(fields, size, little) ==
  [k \in 1..Len(fields) + 1 |->
     FoldLeft(LAMBDA b, f : Write(b, f, little), Buffer([i \in 1..size |-> 1], 0), SubSeq(fields, 1, k - 1))]

\* What fits is written after the rest, what does not changes nothing; the fields that
\* were written are read back, in order, from where the writer had put them.
FieldsReadBack(fields, size, little) ==
  LET at == WrittenBefore(fields, size, little)
      final == at[Len(at)]
      Size(f) == Len(f.bytes) + IF f.how = "terminated" THEN 1 ELSE 0
  IN \A k \in DOMAIN fields :
       LET from == at[k].position
           r == Read(Buffer(final.bytes, from), fields[k], little)
       IN IF from + Size(fields[k]) > size THEN at[k + 1] = at[k]
          ELSE /\ at[k + 1].position = from + Size(fields[k])
               /\ r.ok /\ r.bytes = fields[k].bytes /\ r.at.position = at[k + 1].position

\* Nothing is read or sought that is not there, of a size that does not wrap.
ReadsInside(fields, size, little) ==
  LET b == WrittenBefore(fields, size, little)[Len(fields) + 1]
  IN \A n \in 0..SizeLimit - 1 :
       /\ b.position + n < SizeLimit => (ReadBytes(b, n).ok <=> n <= Remaining(b))
       /\ Seek(b, n).position \in 0..size
       /\ ReadNullTerminatedString(b, n).at.position \in b.position..size

\* The bits of the characters are the bits of the bytes.
Bit(n, width, k) == Part(n, width - k, 1)
Base64ReadsBack(bytes) ==
  LET text == Base64Encode(bytes)
      pads == Cardinality({i \in DOMAIN text : text[i] = Pad})
  IN /\ Len(text) = 4 * ((Len(bytes) + 2) \div 3) /\ pads = (2 * Len(bytes)) % 3
     /\ \A k \in 1..8 * Len(bytes) :
          Bit(text[(k + 5) \div 6], 6, ((k - 1) % 6) + 1) = Bit(bytes[(k + 7) \div 8], 8, ((k - 1) % 8) + 1)
     /\ \A kept \in 0..pads :
          Base64Decode(SubSeq(text, 1, Len(text) - kept)) = [ok |-> TRUE, bytes |-> bytes]

\* A struct is read back, and reading any document gives one that is, whatever of the
\* document was passed over.
SerializesBack(v, type) == from_json(to_json(v, type), type) = {v}
NormalizesOnce(j, type) == \A v \in from_json(j, type) : SerializesBack(v, type)
=============================================================================
