------------------------------ MODULE RuneOutputs ------------------------------
(***************************************************************************)
(* What one rune hands to another: the report of src/runes/output.rs with  *)
(* its groups, correlations and incident, written as a JSON object and     *)
(* read back, and eadiff.rs, which compares two of them.                   *)
(*                                                                         *)
(* A JSON object is a function of the keys it has; the text it is written  *)
(* in is module JsonText's.  What may be absent is a set of at most one.   *)
(* A name is the sequence of its parts.  A number that is not finite and   *)
(* the JSON null are two numbers of their own.                             *)
(***************************************************************************)
EXTENDS Integers, Sequences, SequencesExt, FiniteSets, TLC

NotFinite == -999
Null == -998

The(S) == CHOOSE x \in S : TRUE
Opt(key, S) == IF S = {} THEN <<>> ELSE key :> The(S)
\* An array that is left out when it is empty.
OptArray(key, s) == IF s = <<>> THEN <<>> ELSE key :> s
Finite(v) == IF v = NotFinite THEN Null ELSE v

-----------------------------------------------------------------------------
(* output.rs: to_json                                                      *)

SourceToObj(s) == "path" :> s.path @@ "bytes" :> s.bytes @@ "format" :> s.format
TotalsToObj(t) == "rows" :> t.rows @@ "scan_us" :> t.scan_us
NumericToObj(n) ==
  "min" :> Finite(n.min) @@ "max" :> Finite(n.max) @@ "mean" :> Finite(n.mean) @@ "sum" :> Finite(n.sum)
EntryToObj(e) == "value" :> e.value @@ "count" :> e.count
Objects(F(_), s) == [i \in DOMAIN s |-> F(s[i])]
TextToObj(t) == "unique" :> t.unique @@ "top" :> Objects(EntryToObj, t.top)
BoolToObj(b) == "true_count" :> b.true_count @@ "false_count" :> b.false_count
TimestampToObj(t) == "min" :> t.min @@ "max" :> t.max @@ "unique" :> t.unique
Each(F(_), S) == {F(x) : x \in S}
FieldToObj(f) ==
  "name" :> f.name @@ "kind" :> f.kind @@ "count" :> f.count
  @@ Opt("null_count", f.null_count)
  @@ Opt("numeric", Each(NumericToObj, f.numeric)) @@ Opt("text", Each(TextToObj, f.text))
  @@ Opt("bool", Each(BoolToObj, f.bool)) @@ Opt("timestamp", Each(TimestampToObj, f.timestamp))
CategoryToObj(c) == "name" :> c.name @@ "count" :> c.count
AnomalyToObj(a) ==
  "bucket" :> a.bucket @@ "count" :> a.count @@ "baseline" :> Finite(a.baseline)
  @@ "ratio" :> Finite(a.ratio) @@ "score" :> Finite(a.score)
SampleToObj(s) ==
  Opt("byte_offset", s.byte_offset) @@ Opt("line", s.line) @@ Opt("timestamp", s.timestamp)
  @@ "text" :> s.text

\* grouping.rs, correlation.rs and incident.rs.
AggToObj(a) == "op" :> a.op @@ Opt("col", a.col) @@ "value" :> Finite(a.value)
GroupToObj(g) == "key" :> g.key @@ "count" :> g.count @@ "aggs" :> Objects(AggToObj, g.aggs)
Rounded(v) == IF v = NotFinite THEN 0 ELSE v
CorrelationToObj(c) ==
  "stream_a" :> c.stream_a @@ "stream_b" :> c.stream_b @@ "lag_seconds" :> c.lag_seconds
  @@ "score" :> c.score @@ "peak_bucket" :> c.peak_bucket @@ "events_a" :> c.events_a
  @@ "events_b" :> c.events_b @@ "width_seconds" :> c.width_seconds
StepToObj(s) ==
  "stream" :> s.stream @@ "lag_seconds" :> s.lag_seconds @@ "direction" :> s.direction
  @@ "score" :> Rounded(s.score) @@ "kind" :> s.kind
AnchorToObj(a) == "kind" :> a.kind @@ "stream" :> a.stream @@ "time" :> a.time
IncidentToObj(i) ==
  "anchor" :> AnchorToObj(i.anchor) @@ "steps" :> Objects(StepToObj, i.steps)
  @@ "confidence" :> Rounded(i.confidence)

SchemaVersion == 1
ToJson(r) ==
  "schema_version" :> r.schema_version @@ "rune" :> r.rune @@ "rune_version" :> r.rune_version
  @@ "success" :> r.success @@ Opt("source", Each(SourceToObj, r.source))
  @@ "totals" :> TotalsToObj(r.totals) @@ "fields" :> Objects(FieldToObj, r.fields)
  @@ "categories" :> Objects(CategoryToObj, r.categories)
  @@ "samples" :> Objects(SampleToObj, r.samples)
  @@ OptArray("anomalies", Objects(AnomalyToObj, r.anomalies))
  @@ OptArray("correlations", Objects(CorrelationToObj, r.correlations))
  @@ OptArray("groups", Objects(GroupToObj, r.groups))
  @@ Opt("group_by", r.group_by) @@ Opt("incident", Each(IncidentToObj, r.incident))
  @@ Opt("error", r.error)

-----------------------------------------------------------------------------
(* output.rs: from_json.  What cannot be read is no report at all.         *)

Get(o, key) == IF key \in DOMAIN o THEN {o[key]} ELSE {}
HasAll(o, keys) == keys \subseteq DOMAIN o
NumberOr(o, key, default) == IF key \in DOMAIN o /\ o[key] # Null THEN o[key] ELSE default
ZeroForNull(o, key) == NumberOr(o, key, 0)

\* Every entry must be readable.
AllOf(F(_), s) ==
  IF \E i \in DOMAIN s : F(s[i]) = {} THEN {} ELSE {[i \in DOMAIN s |-> The(F(s[i]))]}
ArrayOf(F(_), o, key) == IF key \in DOMAIN o THEN AllOf(F, o[key]) ELSE {<<>>}
\* What may be absent must be readable when it is there.
OptOf(F(_), o, key) == IF key \in DOMAIN o THEN {{x} : x \in F(o[key])} ELSE {{}}

SourceFromObj(o) ==
  IF HasAll(o, {"path", "bytes", "format"}) THEN {[path |-> o["path"], bytes |-> o["bytes"], format |-> o["format"]]}
  ELSE {}
TotalsFromObj(o) ==
  IF HasAll(o, {"rows", "scan_us"}) THEN {[rows |-> o["rows"], scan_us |-> o["scan_us"]]} ELSE {}
NumericFromObj(o) ==
  {[min |-> ZeroForNull(o, "min"), max |-> ZeroForNull(o, "max"),
    mean |-> ZeroForNull(o, "mean"), sum |-> ZeroForNull(o, "sum")]}
EntryFromObj(o) ==
  IF HasAll(o, {"value", "count"}) THEN {[value |-> o["value"], count |-> o["count"]]} ELSE {}
TextFromObj(o) ==
  {[unique |-> u, top |-> t] : u \in Get(o, "unique"), t \in ArrayOf(EntryFromObj, o, "top")}
BoolFromObj(o) ==
  {[true_count |-> t, false_count |-> f] : t \in Get(o, "true_count"), f \in Get(o, "false_count")}
TimestampFromObj(o) ==
  {[min |-> m, max |-> n, unique |-> u] : m \in Get(o, "min"), n \in Get(o, "max"), u \in Get(o, "unique")}
Kinds == {"number", "text", "bool", "timestamp", "mixed"}
FieldFromObj(o) ==
  IF HasAll(o, {"kind", "name", "count"}) /\ o["kind"] \in Kinds
  THEN {[name |-> o["name"], kind |-> o["kind"], count |-> o["count"], null_count |-> Get(o, "null_count"),
         numeric |-> n, text |-> t, bool |-> b, timestamp |-> s] :
          n \in OptOf(NumericFromObj, o, "numeric"), t \in OptOf(TextFromObj, o, "text"),
          b \in OptOf(BoolFromObj, o, "bool"), s \in OptOf(TimestampFromObj, o, "timestamp")}
  ELSE {}
CategoryFromObj(o) ==
  IF HasAll(o, {"name", "count"}) THEN {[name |-> o["name"], count |-> o["count"]]} ELSE {}
AnomalyFromObj(o) ==
  IF HasAll(o, {"bucket", "count"})
  THEN {[bucket |-> o["bucket"], count |-> o["count"], baseline |-> ZeroForNull(o, "baseline"),
         ratio |-> ZeroForNull(o, "ratio"), score |-> ZeroForNull(o, "score")]}
  ELSE {}
SampleFromObj(o) ==
  {[byte_offset |-> Get(o, "byte_offset"), line |-> Get(o, "line"),
    timestamp |-> Get(o, "timestamp"), text |-> t] : t \in Get(o, "text")}
AggFromObj(o) ==
  {[op |-> p, col |-> Get(o, "col"), value |-> NumberOr(o, "value", NotFinite)] : p \in Get(o, "op")}
GroupFromObj(o) ==
  {[key |-> k, count |-> n, aggs |-> a] :
     k \in Get(o, "key"), n \in Get(o, "count"), a \in ArrayOf(AggFromObj, o, "aggs")}
CorrelationFromObj(o) ==
  IF HasAll(o, {"stream_a", "stream_b", "lag_seconds", "peak_bucket", "events_a", "events_b", "width_seconds"})
  THEN {[stream_a |-> o["stream_a"], stream_b |-> o["stream_b"], lag_seconds |-> o["lag_seconds"],
         score |-> ZeroForNull(o, "score"), peak_bucket |-> o["peak_bucket"], events_a |-> o["events_a"],
         events_b |-> o["events_b"], width_seconds |-> o["width_seconds"]]}
  ELSE {}
StepFromObj(o) ==
  IF HasAll(o, {"stream", "lag_seconds"})
  THEN {[stream |-> o["stream"], lag_seconds |-> o["lag_seconds"],
         direction |-> IF "direction" \in DOMAIN o THEN o["direction"] ELSE "increase",
         score |-> ZeroForNull(o, "score"),
         kind |-> IF "kind" \in DOMAIN o THEN o["kind"] ELSE "correlated"]}
  ELSE {}
AnchorFromObj(o) ==
  IF HasAll(o, {"kind", "stream", "time"})
  THEN {[kind |-> o["kind"], stream |-> o["stream"], time |-> o["time"]]} ELSE {}
IncidentFromObj(o) ==
  {[anchor |-> a, steps |-> s, confidence |-> ZeroForNull(o, "confidence")] :
     a \in UNION Each(AnchorFromObj, Get(o, "anchor")), s \in ArrayOf(StepFromObj, o, "steps")}

FromJson(o) ==
  IF ~HasAll(o, {"schema_version", "rune", "rune_version", "success", "totals"})
     \/ o["schema_version"] # SchemaVersion
  THEN {}
  ELSE {[schema_version |-> o["schema_version"], rune |-> o["rune"], rune_version |-> o["rune_version"],
         success |-> o["success"], source |-> s, totals |-> t, fields |-> f, categories |-> c,
         samples |-> m, anomalies |-> a, correlations |-> r, groups |-> g,
         group_by |-> Get(o, "group_by"), incident |-> i, error |-> Get(o, "error")] :
          s \in OptOf(SourceFromObj, o, "source"), t \in TotalsFromObj(o["totals"]),
          f \in ArrayOf(FieldFromObj, o, "fields"), c \in ArrayOf(CategoryFromObj, o, "categories"),
          m \in ArrayOf(SampleFromObj, o, "samples"), a \in ArrayOf(AnomalyFromObj, o, "anomalies"),
          r \in ArrayOf(CorrelationFromObj, o, "correlations"), g \in ArrayOf(GroupFromObj, o, "groups"),
          i \in OptOf(IncidentFromObj, o, "incident")}

-----------------------------------------------------------------------------
(* eadiff.rs.  The values of a text are compared in the order of a hash    *)
(* map: the fields of a difference are a set.                              *)

Delta(name, value, count) ==
  [name |-> name, kind |-> "number", count |-> count, value |-> [k \in {"min", "max", "mean", "sum"} |-> value]]
Marker(mark, name, count) == [name |-> <<mark>> \o name, kind |-> "mixed", count |-> count, value |-> <<>>]
Change(name, a, b, count) == IF a = b THEN {} ELSE {Delta(name, b - a, count)}

DiffNumber(fa, fb) ==
  {[name |-> fb.name, kind |-> "number", count |-> fb.count,
    value |-> [k \in {"min", "max", "mean", "sum"} |-> nb[k] - na[k]]] : na \in fa.numeric, nb \in fb.numeric}

DiffBool(fa, fb) ==
  UNION {{Delta(Append(fb.name, ".true_delta"), bb.true_count - ba.true_count, fb.count),
          Delta(Append(fb.name, ".false_delta"), bb.false_count - ba.false_count, fb.count)} :
           ba \in fa.bool, bb \in fb.bool}

\* An end of the range is compared when both decode.
Shift(name, a, b, count) == IF Null \in {a, b} THEN {} ELSE Change(name, a, b, count)
DiffTimestamp(fa, fb) ==
  UNION {Change(Append(fb.name, ".unique_delta"), ta.unique, tb.unique, fb.count)
         \cup Shift(Append(fb.name, ".min_shift_s"), ta.min, tb.min, fb.count)
         \cup Shift(Append(fb.name, ".max_shift_s"), ta.max, tb.max, fb.count) :
           ta \in fa.timestamp, tb \in fb.timestamp}

Values(t) == {t.top[i].value : i \in DOMAIN t.top}
CountIn(t, v) == t.top[CHOOSE i \in DOMAIN t.top : t.top[i].value = v].count
DiffText(fa, fb) ==
  UNION {Change(Append(fb.name, ".unique_delta"), ta.unique, tb.unique, fb.count)
         \cup UNION {Change(fb.name \o <<v, ".count_delta">>, CountIn(ta, v), CountIn(tb, v), fb.count) :
                       v \in Values(ta) \cap Values(tb)}
         \cup {Marker("[appeared in top] ", Append(fb.name, v), CountIn(tb, v)) : v \in Values(tb) \ Values(ta)}
         \cup {Marker("[disappeared from top] ", Append(fb.name, v), CountIn(ta, v)) :
                 v \in Values(ta) \ Values(tb)} :
           ta \in fa.text, tb \in fb.text}

\* Two of the same kind are compared; two mixed ones are marked as changed.
DiffField(fa, fb) ==
  CASE fa.kind = "number" /\ fb.kind = "number" -> DiffNumber(fa, fb)
    [] fa.kind = "bool" /\ fb.kind = "bool" -> DiffBool(fa, fb)
    [] fa.kind = "timestamp" /\ fb.kind = "timestamp" -> DiffTimestamp(fa, fb)
    [] fa.kind = "text" /\ fb.kind = "text" -> DiffText(fa, fb)
    [] fa.kind # fb.kind \/ fa.kind = "mixed" -> {Marker("[kind-changed] ", fb.name, fb.count)}

Elements(s) == {s[i] : i \in DOMAIN s}
NamesOf(s) == {x.name : x \in Elements(s)}
FirstNamed(s, name) == s[CHOOSE i \in DOMAIN s : s[i].name = name /\ \A j \in 1..(i - 1) : s[j].name # name]

DiffFields(a, b) ==
  UNION {IF fb.name \in NamesOf(a) THEN DiffField(FirstNamed(a, fb.name), fb)
         ELSE {Marker("[appeared] ", fb.name, fb.count)} : fb \in Elements(b)}
  \cup {Marker("[disappeared] ", fa.name, fa.count) : fa \in {f \in Elements(a) : f.name \notin NamesOf(b)}}

Moved(ca, cb) ==
  CASE cb.count > ca.count -> <<[name |-> <<"+">> \o cb.name, count |-> cb.count - ca.count]>>
    [] cb.count < ca.count -> <<[name |-> <<"-">> \o cb.name, count |-> ca.count - cb.count]>>
    [] cb.count = ca.count -> <<>>
DiffCategories(a, b) ==
  FlattenSeq([i \in DOMAIN b |->
    IF b[i].name \in NamesOf(a) THEN Moved(FirstNamed(a, b[i].name), b[i])
    ELSE <<[b[i] EXCEPT !.name = <<"[appeared] ">> \o @]>>])
  \o FlattenSeq([i \in DOMAIN a |->
       IF a[i].name \in NamesOf(b) THEN <<>> ELSE <<[a[i] EXCEPT !.name = <<"[disappeared] ">> \o @]>>])

\* Neither looks at whether the runs it compares succeeded.
BuildOutput(a, b) ==
  [fields |-> DiffFields(a.fields, b.fields), categories |-> DiffCategories(a.categories, b.categories)]

-----------------------------------------------------------------------------
(* What they are checked against                                           *)

\* A report read back is the report, but that a statistic or a score that is
\* not finite has become 0 (in a group it stays what it was).
Zeroed(x, keys) == [k \in DOMAIN x |-> IF k \in keys THEN Rounded(x[k]) ELSE x[k]]
AsRead(r) ==
  [r EXCEPT
    !.fields = [i \in DOMAIN @ |-> [@[i] EXCEPT !.numeric = {Zeroed(n, DOMAIN n) : n \in @}]],
    !.anomalies = [i \in DOMAIN @ |-> Zeroed(@[i], {"baseline", "ratio", "score"})],
    !.incident = {[i EXCEPT !.confidence = Rounded(@),
                            !.steps = [k \in DOMAIN @ |-> Zeroed(@[k], {"score"})]] : i \in @}]
ReadsBackWhole(r) == FromJson(ToJson(r)) = {AsRead(r)}

\* Without a key that every report has, nothing is read; without one that a
\* report may lack, the rest is read as it was.
Lasting == {"schema_version", "rune", "rune_version", "success", "totals"}
Bare(r, key) ==
  [r EXCEPT ![key] = IF key \in {"source", "group_by", "incident", "error"} THEN {} ELSE <<>>]
Without(o, key) == [k \in DOMAIN o \ {key} |-> o[k]]
LosesOnly(r, key) ==
  FromJson(Without(ToJson(r), key)) = IF key \in Lasting THEN {} ELSE {AsRead(Bare(r, key))}

\* The same two reports the other way round: the deltas change their sign, and
\* what appeared has disappeared.
Other(mark) ==
  CASE mark = "[appeared] " -> "[disappeared] " [] mark = "[disappeared] " -> "[appeared] "
    [] mark = "[appeared in top] " -> "[disappeared from top] "
    [] mark = "[disappeared from top] " -> "[appeared in top] "
    [] mark = "+" -> "-" [] mark = "-" -> "+" [] OTHER -> mark
Turned(name) == [name EXCEPT ![1] = Other(@)]
TurnedField(f) ==
  [name |-> Turned(f.name), kind |-> f.kind, value |-> [k \in DOMAIN f.value |-> -f.value[k]]]
Uncounted(f) == [name |-> f.name, kind |-> f.kind, value |-> f.value]
ComparesEvenly(a, b) ==
  LET there == BuildOutput(a, b)
      back == BuildOutput(b, a)
  IN /\ {TurnedField(f) : f \in there.fields} = {Uncounted(f) : f \in back.fields}
     /\ {[c EXCEPT !.name = Turned(@)] : c \in Elements(there.categories)} = Elements(back.categories)
     /\ \A c \in Elements(there.categories) : c.count >= 0

\* A report compared with itself differs in nothing.  A field of mixed kind is
\* said to have changed its kind all the same.
ComparesToNothing(r) ==
  LET same == BuildOutput(r, r) IN
  /\ same.categories = <<>>
  /\ \A f \in same.fields :
       \/ f.kind = "number" /\ \A k \in DOMAIN f.value : f.value[k] = 0
       \/ \E m \in Elements(r.fields) :
            m.kind = "mixed" /\ f = Marker("[kind-changed] ", m.name, m.count)

=============================================================================
