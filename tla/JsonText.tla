------------------------------- MODULE JsonText -------------------------------
(***************************************************************************)
(* storage/json.rs: a parser of JSON objects, the writer of the same, and  *)
(* the quick scanners for one number of a request.                         *)
(*                                                                         *)
(* Input is bytes, a string its code points, a number its digits.  What a  *)
(* function of the parser returns is [ok, val, pos], pos the next byte.    *)
(***************************************************************************)
EXTENDS Integers, Sequences, SequencesExt, FiniteSets, FiniteSetsExt

Quote == 34
Backslash == 92
Comma == 44
Colon == 58
OpenBrace == 123
CloseBrace == 125
OpenBracket == 91
CloseBracket == 93
Minus == 45
Point == 46
Replacement == 65533
White == {32, 9, 10, 13}
IsDigit(b) == b \in 48..57
TrueText == <<116, 114, 117, 101>>
FalseText == <<102, 97, 108, 115, 101>>
NullText == <<110, 117, 108, 108>>

\* Values.  An integer is a sign and its digits, a float a sign, digits
\* without zeros at either end, and the power of ten they are times.
Str(s) == [kind |-> "str", s |-> s]
I64(neg, digits) == [kind |-> "i64", neg |-> neg /\ digits # <<0>>, digits |-> digits]
F64(neg, digits, exp) == [kind |-> "f64", neg |-> neg, digits |-> digits, exp |-> exp]
NotFinite == [kind |-> "not finite"]
Bool(b) == [kind |-> "bool", b |-> b]
Null == [kind |-> "null"]
Array(items) == [kind |-> "array", items |-> items]
Object(keys, values) == [kind |-> "object", keys |-> keys, values |-> values]
EmptyObject == Object(<<>>, <<>>)

\* Object::set: a key that is there keeps its place.
PlaceOf(obj, key) == {i \in DOMAIN obj.keys : obj.keys[i] = key}
SetKey(obj, key, v) ==
  IF PlaceOf(obj, key) = {} THEN Object(Append(obj.keys, key), Append(obj.values, v))
  ELSE Object(obj.keys, [obj.values EXCEPT ![Min(PlaceOf(obj, key))] = v])

-----------------------------------------------------------------------------
(* The parser                                                              *)

Got(val, pos) == [ok |-> TRUE, val |-> val, pos |-> pos]
Failed == [ok |-> FALSE]
Peek(src, pos) == IF pos <= Len(src) THEN src[pos] ELSE -1
Past(src, pos, S) ==
  LET stops == {i \in pos..Len(src) : src[i] \notin S} IN IF stops = {} THEN Len(src) + 1 ELSE Min(stops)
SkipWs(src, pos) == Past(src, pos, White)
Expected(src, pos, b) == Peek(src, SkipWs(src, pos)) = b

HexOf(b) ==
  CASE IsDigit(b) -> {b - 48} [] b \in 97..102 -> {b - 87} [] b \in 65..70 -> {b - 55}
    [] b \notin (48..57) \cup (97..102) \cup (65..70) -> {}
ParseHex4(src, pos) ==
  LET Digit(i) == CHOOSE d \in HexOf(src[pos + i]) : TRUE IN
  IF pos + 3 <= Len(src) /\ \A i \in 0..3 : HexOf(src[pos + i]) # {}
  THEN Got(Digit(0) * 4096 + Digit(1) * 256 + Digit(2) * 16 + Digit(3), pos + 4) ELSE Failed

High == 55296..56319
Low == 56320..57343
\* What follows \u: a code point, or the high half of one and its low half.
UnicodeEscape(src, pos) ==
  LET first == ParseHex4(src, pos)
      second == ParseHex4(src, pos + 6)
      paired == /\ Peek(src, pos + 4) = Backslash /\ Peek(src, pos + 5) = 117
                /\ second.ok /\ second.val \in Low
  IN CASE ~first.ok -> Failed
       [] first.ok /\ first.val \notin High \cup Low -> first
       [] first.ok /\ first.val \in Low -> Failed
       [] first.ok /\ first.val \in High ->
            IF paired THEN Got(65536 + (first.val - 55296) * 1024 + (second.val - 56320), pos + 10) ELSE Failed

Short == {<<Quote, Quote>>, <<Backslash, Backslash>>, <<47, 47>>, <<110, 10>>, <<116, 9>>, <<114, 13>>, <<98, 8>>, <<102, 12>>}
Escape(src, pos) ==
  CASE Peek(src, pos) = 117 -> UnicodeEscape(src, pos + 1)
    [] \E e \in Short : e[1] = Peek(src, pos) -> Got((CHOOSE e \in Short : e[1] = Peek(src, pos))[2], pos + 1)
    [] Peek(src, pos) # 117 /\ ~\E e \in Short : e[1] = Peek(src, pos) -> Failed

\* A character of several bytes: its first byte says how many follow, and the
\* byte that does not belong there is gone with it.
IsScalar(cp) == cp \notin High \cup Low /\ cp < 1114112
LongChar(src, pos) ==
  LET b == src[pos]
      need == IF b < 224 THEN 1 ELSE IF b < 240 THEN 2 ELSE 3
      lead == IF b < 224 THEN b % 32 ELSE IF b < 240 THEN b % 16 ELSE b % 8
      bad == {k \in 1..need : Peek(src, pos + k) \notin 128..191}
      cp == FoldLeft(LAMBDA acc, k : acc * 64 + (src[pos + k] % 64), lead, [k \in 1..need |-> k])
  IN IF bad # {} THEN Got(Replacement, Min({pos + Min(bad), Len(src)}) + 1)
     ELSE Got(IF IsScalar(cp) THEN cp ELSE Replacement, pos + need + 1)

RECURSIVE StringRest(_, _, _)
StringRest(src, pos, s) ==
  LET b == Peek(src, pos)
      next == CASE b = Backslash -> Escape(src, pos + 1)
                [] b \in 0..127 \ {Backslash} -> Got(b, pos + 1)
                [] b > 127 -> LongChar(src, pos)
  IN CASE b = -1 -> Failed
       [] b = Quote -> Got(s, pos + 1)
       [] b \notin {-1, Quote} -> IF next.ok THEN StringRest(src, next.pos, Append(s, next.val)) ELSE Failed
ParseString(src, pos) ==
  IF Expected(src, pos, Quote) THEN StringRest(src, SkipWs(src, pos) + 1, <<>>) ELSE Failed

\* A number: -, digits without a leading 0, a point and digits, an exponent.
DigitsFrom(src, pos) == Past(src, pos, 48..57)
IntegerEnd(src, pos) ==
  LET from == pos + IF Peek(src, pos) = Minus THEN 1 ELSE 0 IN
  IF Peek(src, from) = 48 THEN from + 1 ELSE DigitsFrom(src, from)
FractionEnd(src, pos) == IF Peek(src, pos) = Point THEN DigitsFrom(src, pos + 1) ELSE pos
ExponentFrom(src, pos) == pos + 1 + IF Peek(src, pos + 1) \in {43, Minus} THEN 1 ELSE 0
ExponentEnd(src, pos) == IF Peek(src, pos) \in {101, 69} THEN DigitsFrom(src, ExponentFrom(src, pos)) ELSE pos
Values(src, from, to) == [i \in 1..(to - from) |-> src[from + i - 1] - 48]

MaxI64 == <<9, 2, 2, 3, 3, 7, 2, 0, 3, 6, 8, 5, 4, 7, 7, 5, 8, 0, 7>>
MinI64 == <<9, 2, 2, 3, 3, 7, 2, 0, 3, 6, 8, 5, 4, 7, 7, 5, 8, 0, 8>>
Exceeds(s, t) ==
  \/ Len(s) > Len(t)
  \/ Len(s) = Len(t) /\ \E i \in DOMAIN s : s[i] > t[i] /\ \A j \in 1..(i - 1) : s[j] = t[j]

\* A float of digits and the power of ten of the last: no zeros at its ends.
Normal(neg, digits, exp) ==
  LET whole == {i \in DOMAIN digits : digits[i] # 0} IN
  IF whole = {} THEN F64(neg, <<>>, 0)
  ELSE F64(neg, SubSeq(digits, Min(whole), Max(whole)), exp + (Len(digits) - Max(whole)))
Amount(digits) == FoldLeft(LAMBDA acc, d : acc * 10 + d, 0, digits)

ParseNumber(src, pos) ==
  LET neg == Peek(src, pos) = Minus
      from == pos + IF neg THEN 1 ELSE 0
      e1 == IntegerEnd(src, pos)
      e2 == FractionEnd(src, e1)
      e3 == ExponentEnd(src, e2)
      digits == Values(src, from, e1)
      power == IF e3 = e2 THEN 0
               ELSE Amount(Values(src, ExponentFrom(src, e2), e3)) * IF src[e2 + 1] = Minus THEN -1 ELSE 1
  IN IF e1 = from \/ (e2 # e1 /\ e2 = e1 + 1) \/ (e3 # e2 /\ e3 = ExponentFrom(src, e2)) THEN Failed
     ELSE IF e3 # e1
     THEN Got(Normal(neg, digits \o IF e2 = e1 THEN <<>> ELSE Values(src, e1 + 1, e2),
                     power - IF e2 = e1 THEN 0 ELSE e2 - e1 - 1), e3)
     ELSE IF Exceeds(digits, IF neg THEN MinI64 ELSE MaxI64) THEN Failed ELSE Got(I64(neg, digits), e3)

ThereIs(src, pos, text) == pos + Len(text) - 1 <= Len(src) /\ SubSeq(src, pos, pos + Len(text) - 1) = text
Literal(src, pos, text, val) == IF ThereIs(src, pos, text) THEN Got(val, pos + Len(text)) ELSE Failed

RECURSIVE ParseValue(_, _)
RECURSIVE Members(_, _, _)
RECURSIVE Items(_, _, _)
\* The members from pos on, up to the closing brace.
Members(src, pos, obj) ==
  LET key == ParseString(src, pos)
      val == IF key.ok /\ Expected(src, key.pos, Colon) THEN ParseValue(src, SkipWs(src, key.pos) + 1) ELSE Failed
      with == SetKey(obj, key.val, val.val)
      after == SkipWs(src, val.pos)
  IN CASE ~val.ok -> Failed
       [] val.ok /\ Peek(src, after) = Comma -> Members(src, after + 1, with)
       [] val.ok /\ Peek(src, after) = CloseBrace -> Got(with, after + 1)
       [] val.ok /\ Peek(src, after) \notin {Comma, CloseBrace} -> Failed
ParseObject(src, pos) ==
  LET inside == SkipWs(src, SkipWs(src, pos) + 1) IN
  IF ~Expected(src, pos, OpenBrace) THEN Failed
  ELSE IF Peek(src, inside) = CloseBrace THEN Got(EmptyObject, inside + 1) ELSE Members(src, inside, EmptyObject)
Items(src, pos, items) ==
  LET val == ParseValue(src, pos)
      with == Append(items, val.val)
      after == SkipWs(src, val.pos)
  IN CASE ~val.ok -> Failed
       [] val.ok /\ Peek(src, after) = Comma -> Items(src, after + 1, with)
       [] val.ok /\ Peek(src, after) = CloseBracket -> Got(Array(with), after + 1)
       [] val.ok /\ Peek(src, after) \notin {Comma, CloseBracket} -> Failed
ParseArray(src, pos) ==
  LET inside == SkipWs(src, pos + 1) IN
  IF Peek(src, inside) = CloseBracket THEN Got(Array(<<>>), inside + 1) ELSE Items(src, inside, <<>>)
ParseText(src, pos) ==
  LET text == ParseString(src, pos) IN IF text.ok THEN Got(Str(text.val), text.pos) ELSE Failed
ParseValue(src, pos) ==
  LET at == SkipWs(src, pos) b == Peek(src, at) IN
  CASE b = Quote -> ParseText(src, at)
    [] b = OpenBrace -> ParseObject(src, at)
    [] b = OpenBracket -> ParseArray(src, at)
    [] b = 116 -> Literal(src, at, TrueText, Bool(TRUE))
    [] b = 102 -> Literal(src, at, FalseText, Bool(FALSE))
    [] b = 110 -> Literal(src, at, NullText, Null)
    [] b = Minus \/ IsDigit(b) -> ParseNumber(src, at)
    [] b \notin {Quote, OpenBrace, OpenBracket, 116, 102, 110, Minus} /\ ~IsDigit(b) -> Failed

\* parse: an object and nothing after it.
Parse(src) ==
  LET got == ParseObject(src, 1) IN
  IF got.ok /\ SkipWs(src, got.pos) = Len(src) + 1 THEN {got.val} ELSE {}

-----------------------------------------------------------------------------
(* The writer                                                              *)

Utf8(cp) ==
  LET Rest(k) == 128 + ((cp \div 64 ^ k) % 64) IN
  CASE cp < 128 -> <<cp>>
    [] cp \in 128..2047 -> <<192 + cp \div 64, Rest(0)>>
    [] cp \in 2048..65535 -> <<224 + cp \div 4096, Rest(1), Rest(0)>>
    [] cp > 65535 -> <<240 + cp \div 262144, Rest(2), Rest(1), Rest(0)>>
LowHex(n) == IF n < 10 THEN 48 + n ELSE 87 + n
FourHex(n) == <<LowHex(n \div 4096), LowHex((n \div 256) % 16), LowHex((n \div 16) % 16), LowHex(n % 16)>>
WriteChar(c) ==
  CASE \E e \in Short \ {<<47, 47>>} : e[2] = c -> <<Backslash, (CHOOSE e \in Short \ {<<47, 47>>} : e[2] = c)[1]>>
    [] c < 32 /\ ~\E e \in Short : e[2] = c -> <<Backslash, 117>> \o FourHex(c)
    [] c > 31 /\ ~\E e \in Short \ {<<47, 47>>} : e[2] = c -> Utf8(c)
WriteString(s) == <<Quote>> \o FlattenSeq([i \in DOMAIN s |-> WriteChar(s[i])]) \o <<Quote>>

Zeros(n) == [i \in 1..n |-> 48]
Sign(neg) == IF neg THEN <<Minus>> ELSE <<>>
Shown(digits) == [i \in DOMAIN digits |-> digits[i] + 48]
\* {f} shows all digits and no exponent; .0 is added when there is no point.
WriteF64(v) ==
  LET d == Shown(v.digits) n == Len(d) + v.exp IN
  Sign(v.neg) \o
  CASE v.digits = <<>> -> <<48, Point, 48>>
    [] v.digits # <<>> /\ v.exp >= 0 -> d \o Zeros(v.exp) \o <<Point, 48>>
    [] v.digits # <<>> /\ v.exp < 0 /\ n > 0 -> SubSeq(d, 1, n) \o <<Point>> \o SubSeq(d, n + 1, Len(d))
    [] v.digits # <<>> /\ v.exp < 0 /\ n <= 0 -> <<48, Point>> \o Zeros(-n) \o d
Separated(texts) ==
  FlattenSeq([i \in DOMAIN texts |-> (IF i > 1 THEN <<Comma>> ELSE <<>>) \o texts[i]])

RECURSIVE WriteValue(_)
WriteObject(v) ==
  <<OpenBrace>> \o Separated([i \in DOMAIN v.keys |-> WriteString(v.keys[i]) \o <<Colon>> \o WriteValue(v.values[i])])
  \o <<CloseBrace>>
WriteValue(v) ==
  CASE v.kind = "str" -> WriteString(v.s)
    [] v.kind = "i64" -> Sign(v.neg) \o Shown(v.digits)
    [] v.kind = "f64" -> WriteF64(v)
    [] v.kind = "not finite" -> <<78, 97, 78, Point, 48>>
    [] v.kind = "bool" -> IF v.b THEN TrueText ELSE FalseText
    [] v.kind = "null" -> NullText
    [] v.kind = "array" ->
         <<OpenBracket>> \o Separated([i \in DOMAIN v.items |-> WriteValue(v.items[i])]) \o <<CloseBracket>>
    [] v.kind = "object" -> WriteObject(v)
Serialize(obj) == WriteObject(obj)

\* extract_json_int: the first place that has the key in quotes, the next
\* colon, and the digits and signs after it.
ExtractInt(src, key) ==
  LET name == <<Quote>> \o key \o <<Quote>>
      found == {i \in DOMAIN src : ThereIs(src, i, name)}
      after == Min(found) + Len(name)
      colons == {i \in after..Len(src) : src[i] = Colon}
      from == SkipWs(src, Min(colons) + 1)
      to == Past(src, from, (48..57) \cup {Minus})
      signed == Peek(src, from) = Minus
      digits == Values(src, from + IF signed THEN 1 ELSE 0, to)
  IN IF found = {} \/ colons = {} \/ digits = <<>> \/ (\E i \in DOMAIN digits : digits[i] < 0)
        \/ Exceeds(digits, IF signed THEN MinI64 ELSE MaxI64)
     THEN {} ELSE {I64(signed, digits)}

-----------------------------------------------------------------------------
(* What they are checked against                                           *)

\* What is written reads back, and is refused when cut short.
ReadsBack(obj) ==
  LET text == Serialize(obj) IN
  /\ Parse(text) = {obj}
  /\ \A n \in 0..(Len(text) - 1) : Parse(SubSeq(text, 1, n)) = {}

\* What is read is written so that it reads the same, and nothing follows it.
StaysTheSame(src) == \A obj \in Parse(src) : Parse(Serialize(obj)) = {obj}
NothingAfter(src, more) == Parse(src) # {} /\ more \notin White => Parse(Append(src, more)) = {}

\* A character in either of its forms, by \u and by its bytes.
Halves(cp) ==
  IF cp < 65536 THEN <<Backslash, 117>> \o FourHex(cp)
  ELSE <<Backslash, 117>> \o FourHex(55296 + (cp - 65536) \div 1024)
       \o <<Backslash, 117>> \o FourHex(56320 + ((cp - 65536) % 1024))
OneString(inside) ==
  Parse(<<OpenBrace, Quote, 97, Quote, Colon, Quote>> \o inside \o <<Quote, CloseBrace>>)
CharKept(cp) == OneString(Halves(cp)) = OneString(Utf8(cp)) /\ OneString(Utf8(cp)) = {Object(<<<<97>>>>, <<Str(<<cp>>)>>)}

\* The quick scanner finds the integer the parser finds, in an object that
\* has the key only as a key of its own.
ScansLikeParse(obj, key) ==
  \A i \in PlaceOf(obj, key) : obj.values[i].kind = "i64" => ExtractInt(Serialize(obj), key) = {obj.values[i]}

=============================================================================
