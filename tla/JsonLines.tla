------------------------------ MODULE JsonLines ------------------------------
(***************************************************************************)
(* runes/eajson.rs, runes/eajson_aggregate.rs, storage/jsonl_parse.rs: a   *)
(* file of JSON objects, one a line, summarised key by key without parsing *)
(* it: by the places of its quotes, colons and backslashes.                *)
(*                                                                         *)
(* Text is ASCII, numbers are whole.                                       *)
(***************************************************************************)
EXTENDS JsonText

CONSTANTS SniffRows, TextCap, TopN, MaxGroups,
          ByteArrayMax   \* bytes an array of bytes may have

\* The same statistics, and the same order of texts, as eacrunch's.
Table == INSTANCE Tables

Newline == 10
Dot == 46
Blank == White \cup {12}
Places(bytes, b) == SelectSeq([i \in DOMAIN bytes |-> i], LAMBDA i : bytes[i] = b)

\* AfterBackslash hides a quote after any backslash, itself hidden or not.
AfterBackslash(bytes) == {q \in DOMAIN bytes : q > 1 /\ bytes[q] = Quote /\ bytes[q - 1] = Backslash}
\* A quote is hidden by an odd run of backslashes before it.
RunBefore(bytes, q) ==
  Cardinality({i \in 1..(q - 1) : \A j \in i..(q - 1) : bytes[j] = Backslash})
EscapedQuotes(bytes) == {q \in DOMAIN bytes : bytes[q] = Quote /\ RunBefore(bytes, q) % 2 = 1}

Bracket(bytes, st, i, open, close) ==
  LET b == bytes[i] IN
  CASE st.at # 0 \/ (~st.quoted /\ b \notin {Quote, open, close}) -> st
    [] st.at = 0 /\ st.quoted ->
         [st EXCEPT !.escaped = b = Backslash /\ ~st.escaped, !.quoted = ~(b = Quote /\ ~st.escaped)]
    [] st.at = 0 /\ ~st.quoted /\ b = Quote -> [st EXCEPT !.quoted = TRUE]
    [] st.at = 0 /\ ~st.quoted /\ b = open -> [st EXCEPT !.depth = @ + 1]
    [] st.at = 0 /\ ~st.quoted /\ b = close -> [st EXCEPT !.depth = @ - 1, !.at = IF st.depth = 1 THEN i ELSE 0]
FindMatching(bytes, start, end, open, close) ==
  LET last == FoldLeft(LAMBDA st, i : Bracket(bytes, st, i, open, close),
                       [at |-> 0, depth |-> 0, quoted |-> FALSE, escaped |-> FALSE],
                       [k \in 1..(end - start) |-> start + k - 1])
  IN IF last.at = 0 THEN {} ELSE {last.at}

Until(bytes, start, end, S) == Min({i \in start..(end - 1) : bytes[i] \in S} \cup {end})
AfterBlank(bytes, start, end) == Min({i \in start..(end - 1) : bytes[i] \notin Blank} \cup {end})
TrimWs(text) ==
  LET dark == {i \in DOMAIN text : text[i] \notin Blank} IN
  IF dark = {} THEN <<>> ELSE SubSeq(text, Min(dark), Max(dark))

\* decode_byte_array, of what is between the brackets.
NumberAt(inner, i) == Amount(Values(inner, i, DigitsFrom(inner, i)))
DecodeByteArray(inner) ==
  LET gaps == {32, Comma}
      starts == SelectSeq([i \in DOMAIN inner |-> i],
                          LAMBDA i : inner[i] \notin gaps /\ (i = 1 \/ inner[i - 1] \in gaps \/ ~IsDigit(inner[i])))
      buf == [k \in DOMAIN starts |-> NumberAt(inner, starts[k])]
  IN IF \/ starts = <<>> \/ Len(starts) > ByteArrayMax
        \/ \E k \in DOMAIN starts : ~IsDigit(inner[starts[k]]) \/ buf[k] > 255
     THEN {} ELSE {buf}
Message == <<77, 69, 83, 83, 65, 71, 69>>
IsBinaryMessageKey(key) == key = Message \/ IsSuffix(<<Dot>> \o Message, key)

Classify(val) ==
  CASE val \in {TrueText, FalseText} -> "bool"
    [] val \in {NullText, <<>>} -> "skip"
    [] val \notin {TrueText, FalseText, NullText, <<>>} ->
         IF val[1] \in {Minus, 43, Point} \cup (48..57) THEN "number" ELSE "skip"

\* unescape_json_string: \u and the unknown are left as they stand.
RECURSIVE Unescape(_)
Unescape(text) ==
  LET known == {e \in Short : Len(text) > 1 /\ e[1] = text[2]} IN
  CASE text = <<>> -> <<>>
    [] text # <<>> /\ (Head(text) # Backslash \/ Len(text) = 1) -> <<Head(text)>> \o Unescape(Tail(text))
    [] Len(text) > 1 /\ Head(text) = Backslash ->
         (IF known = {} THEN SubSeq(text, 1, 2) ELSE <<(CHOOSE e \in known : TRUE)[2]>>)
         \o Unescape(SubSeq(text, 3, Len(text)))

\* Digits where # stands, what the pattern has elsewhere.
IsoPattern == <<35, 35, 35, 35, 45, 35, 35, 45, 35, 35, 84, 35, 35, 58, 35, 35, 58, 35, 35>>
LooksIso(s) ==
  /\ Len(s) >= 19
  /\ \A i \in DOMAIN IsoPattern :
       CASE IsoPattern[i] = 35 -> IsDigit(s[i])
         [] IsoPattern[i] = 84 -> s[i] \in {84, 32}
         [] IsoPattern[i] \notin {35, 84} -> s[i] = IsoPattern[i]

-----------------------------------------------------------------------------
(* The aggregator                                                          *)

NewKey(kind) == [type |-> kind, numbers |-> <<>>, tops |-> <<>>, texts |-> 0, trues |-> 0, falses |-> 0]
Aggregator == [order |-> <<>>, keys |-> <<>>, nulls |-> <<>>]
With(f, key, v) == [k \in DOMAIN f \cup {key} |-> IF k = key THEN v ELSE f[k]]
NullsOf(agg, key) == IF key \in DOMAIN agg.nulls THEN agg.nulls[key] ELSE 0
RecordNull(agg, key) == [agg EXCEPT !.nulls = With(@, key, NullsOf(agg, key) + 1)]

\* parse::<f64>, of whole numbers: digits, a sign before them.
Finite(val) ==
  LET digits == IF val[1] \in {Minus, 43} THEN Tail(val) ELSE val IN
  {IF val[1] = Minus THEN -v ELSE v : v \in Table!Finite(digits)}
Counted(entry, kind, val) ==
  CASE kind = "number" -> [entry EXCEPT !.numbers = @ \o SetToSeq(Finite(val))]
    [] kind = "text" -> [entry EXCEPT !.texts = @ + 1, !.tops = Table!CountText(@, Unescape(val))]
    [] kind = "bool" -> IF val = TrueText THEN [entry EXCEPT !.trues = @ + 1] ELSE [entry EXCEPT !.falses = @ + 1]
Ingest(agg, key, kind, val) ==
  LET new == key \notin DOMAIN agg.keys
      entry == IF new THEN NewKey(kind) ELSE agg.keys[key]
      typed == IF entry.type = kind THEN Counted(entry, kind, val) ELSE [entry EXCEPT !.type = "mixed"]
  IN [agg EXCEPT !.keys = With(@, key, typed), !.order = IF new THEN Append(@, key) ELSE @]

FullKey(prefix, key) == IF prefix = <<>> THEN key ELSE prefix \o <<Dot>> \o key

RECURSIVE ProcessLine(_, _, _, _, _, _, _)
\* The pairs from the first of quotes on, up to end; levels may yet be opened.
ProcessLine(bytes, quotes, colons, end, prefix, agg, levels) ==
  LET ahead == SelectSeq(colons, LAMBDA p : p > quotes[2] /\ p < end)
      at == AfterBlank(bytes, ahead[1] + 1, end)
      key == FullKey(prefix, SubSeq(bytes, quotes[1] + 1, quotes[2] - 1))
      Onward(rest, past, told) ==
        ProcessLine(bytes, rest, SelectSeq(colons, LAMBDA p : p >= past), end, prefix, told, levels)
      After(i) == SelectSeq(quotes, LAMBDA q : q > i)
      Inner(stop) ==
        IF levels = 0 THEN agg
        ELSE ProcessLine(bytes, SelectSeq(quotes, LAMBDA q : q > at /\ q < stop), colons, stop, key, agg, levels - 1)
      Decoded(stop) ==
        IF IsBinaryMessageKey(key)
        THEN FoldSet(LAMBDA text, told : Ingest(told, key, "text", text), agg,
                     DecodeByteArray(SubSeq(bytes, at + 1, stop - 1)))
        ELSE agg
      to == Until(bytes, at, end, {Comma, CloseBrace})
      val == TrimWs(SubSeq(bytes, at, to - 1))
      Scalar == CASE Classify(val) # "skip" -> Ingest(agg, key, Classify(val), val)
                  [] val = NullText -> RecordNull(agg, key)
                  [] Classify(val) = "skip" /\ val # NullText -> agg
  IN IF Len(quotes) < 2 THEN agg
     ELSE IF ahead = <<>> THEN agg
     ELSE IF at >= end THEN agg
     ELSE CASE bytes[at] = Quote ->
                 IF Len(quotes) < 4 THEN agg
                 ELSE Onward(SubSeq(quotes, 5, Len(quotes)), quotes[4] + 1,
                             Ingest(agg, key, "text", SubSeq(bytes, quotes[3] + 1, quotes[4] - 1)))
            [] bytes[at] = OpenBrace ->
                 FoldSet(LAMBDA stop, none : Onward(After(stop), stop + 1, Inner(stop)), agg,
                         FindMatching(bytes, at, end, OpenBrace, CloseBrace))
            [] bytes[at] = OpenBracket ->
                 FoldSet(LAMBDA stop, none : Onward(After(stop), stop + 1, Decoded(stop)), agg,
                         FindMatching(bytes, at, end, OpenBracket, CloseBracket))
            [] bytes[at] \notin {Quote, OpenBrace, OpenBracket} -> Onward(SubSeq(quotes, 3, Len(quotes)), to, Scalar)

\* Whether some text of a key, which one the hashing decides, looks like a time.
Promoted(entry) == {LooksIso(s) : s \in DOMAIN entry.tops}
FieldAs(key, entry, nulls, time) ==
  LET acc == Table!ColAcc(entry.numbers)
      ranked == Table!Ranked({[key |-> t, count |-> entry.tops[t]] : t \in DOMAIN entry.tops})
      sorted == SetToSortSeq(DOMAIN entry.tops, Table!Before)
      Told(kind, n, stats) == [name |-> key, kind |-> kind, count |-> n + nulls, null_count |-> nulls, stats |-> stats]
  IN CASE entry.type = "mixed" -> Told("mixed", 0, {})
       [] entry.type = "number" -> Told("number", acc.n, {acc})
       [] entry.type = "bool" -> Told("bool", entry.trues + entry.falses, {<<entry.trues, entry.falses>>})
       [] entry.type = "text" /\ time ->
            Told("timestamp", entry.texts, {[min |-> Head(sorted), max |-> Last(sorted), unique |-> Len(sorted)]})
       [] entry.type = "text" /\ ~time ->
            Told("text", entry.texts, {[unique |-> Len(ranked), top |-> SubSeq(ranked, 1, Min({TopN, Len(ranked)}))]})
\* Every field it may come to.
FieldStats(agg, key) ==
  LET entry == agg.keys[key] IN
  {FieldAs(key, entry, NullsOf(agg, key), time) : time \in IF entry.type = "text" THEN Promoted(entry) ELSE {FALSE}}

\* Lines without a quote are no rows.
BuildOutput(bytes, depth) ==
  LET newlines == Places(bytes, Newline)
      ends == newlines \o IF newlines = <<>> \/ Last(newlines) < Len(bytes) THEN <<Len(bytes) + 1>> ELSE <<>>
      quotes == SelectSeq(Places(bytes, Quote), LAMBDA q : q \notin EscapedQuotes(bytes))
      Start(r) == IF r = 1 THEN 1 ELSE ends[r - 1] + 1
      Within(s, r) == SelectSeq(s, LAMBDA p : p >= Start(r) /\ p < ends[r])
      rows == SelectSeq([r \in DOMAIN ends |-> r], LAMBDA r : Within(quotes, r) # <<>>)
      agg == FoldLeft(LAMBDA told, r : ProcessLine(bytes, Within(quotes, r), Within(Places(bytes, Colon), r), ends[r],
                                                   <<>>, told, depth), Aggregator, rows)
  IN IF rows = <<>> THEN [ok |-> FALSE]
     ELSE [ok |-> TRUE, rows |-> Len(rows), fields |-> [k \in DOMAIN agg.order |-> FieldStats(agg, agg.order[k])]]

-----------------------------------------------------------------------------
(* Checked against                                                         *)

\* What a value says of its key: pairs of a key and a scalar, in order.
RECURSIVE Says(_, _, _)
Says(v, key, levels) ==
  CASE v.kind \in {"str", "i64", "bool", "null"} -> <<[key |-> key, v |-> v]>>
    [] v.kind = "array" ->
         IF /\ IsBinaryMessageKey(key) /\ v.items # <<>> /\ Len(v.items) <= ByteArrayMax
            /\ \A i \in DOMAIN v.items : v.items[i].kind = "i64" /\ ~v.items[i].neg /\ Amount(v.items[i].digits) < 256
         THEN <<[key |-> key, v |-> Str([i \in DOMAIN v.items |-> Amount(v.items[i].digits)])]>> ELSE <<>>
    [] v.kind = "object" ->
         IF levels < 0 THEN <<>>
         ELSE FlattenSeq([i \in DOMAIN v.keys |-> Says(v.values[i], FullKey(key, v.keys[i]), levels - 1)])

\* The lines of a file summarised are the objects summarised.
Of(said, key, kinds) == SelectSeq(said, LAMBDA s : s.key = key /\ s.v.kind \in kinds)
SumsUp(field, said, key) ==
  LET nulls == Len(Of(said, key, {"null"}))
      typed == Of(said, key, {"str", "i64", "bool"})
      kinds == {typed[i].v.kind : i \in DOMAIN typed}
      texts == {typed[i].v.s : i \in DOMAIN typed}
      times == {s \in texts : LooksIso(s)}
      Uses(s) == Cardinality({i \in DOMAIN typed : typed[i].v.s = s})
  IN /\ field.name = key
     /\ field.null_count = nulls
     /\ field.count = nulls + IF Cardinality(kinds) = 1 THEN Len(typed) ELSE 0
     /\ CASE Cardinality(kinds) > 1 -> field.kind = "mixed"
          [] kinds = {"i64"} ->
               /\ field.kind = "number"
               /\ field.stats = {Table!ColAcc([i \in DOMAIN typed |-> (IF typed[i].v.neg THEN -1 ELSE 1)
                                                                        * Amount(typed[i].v.digits)])}
          [] kinds = {"bool"} ->
               field.kind = "bool" /\ field.stats = {<<Len(SelectSeq(typed, LAMBDA s : s.v.b)),
                                                       Len(SelectSeq(typed, LAMBDA s : ~s.v.b))>>}
          [] kinds = {"str"} ->
               /\ field.kind = "timestamp" => times # {}
               /\ field.kind = "text" => times # texts
               /\ field.kind \in {"text", "timestamp"}
               /\ \A stats \in field.stats :
                    /\ stats.unique = Min({TextCap, Cardinality(texts)})
                    /\ field.kind = "text" /\ Cardinality(texts) <= TextCap =>
                         \A i \in DOMAIN stats.top :
                           /\ stats.top[i].count = Uses(stats.top[i].key)
                           /\ \A s \in texts : Uses(s) > Uses(stats.top[i].key) => \E j \in 1..i : stats.top[j].key = s
LinesSumUp(objects, depth) ==
  LET said == FlattenSeq([r \in DOMAIN objects |-> Says(objects[r], <<>>, depth)])
      file == FlattenSeq([r \in DOMAIN objects |-> Serialize(objects[r]) \o <<Newline>>])
      seen == {said[i].key : i \in {j \in DOMAIN said : said[j].v.kind # "null"}}
      out == BuildOutput(file, depth)
  IN out.ok =>
       /\ out.rows = Len(SelectSeq(objects, LAMBDA obj : obj.keys # <<>>))
       /\ Len(out.fields) = Cardinality(seen)
       /\ \A key \in seen : \E k \in DOMAIN out.fields : \A field \in out.fields[k] : SumsUp(field, said, key)

=============================================================================
