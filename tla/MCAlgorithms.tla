----------------------------- MODULE MCAlgorithms -----------------------------
(***************************************************************************)
(* The pure algorithms, each on every small input: a step picks a study    *)
(* and an input, and the properties compare what the code makes of it with *)
(* what it is meant to be.                                                 *)
(***************************************************************************)
EXTENDS EventStreams

VARIABLE job

Screens == INSTANCE TermGrid
Sockets == INSTANCE Wire
Reports == INSTANCE RuneOutputs
Times2000 == INSTANCE Calendar
Words == INSTANCE Tokens
Texts == INSTANCE JsonText

CONSTANTS SniffRows, TextCap, TopN, MaxGroups, ByteArrayMax
Sheets == INSTANCE Tables
Lines == INSTANCE JsonLines
Ring == INSTANCE Recall
CONSTANTS TopTables, SniffedPrefix
Dumps == INSTANCE Sql
ThreeUnits == <<2, 4, 8>>
Footers == INSTANCE Parquet WITH Width32 <- 2, Width64 <- 3, MaxDecimalBytes <- 2, TicksPerSecond <- ThreeUnits, SecondsPerDay <- 10,
                                 JulianEpoch <- 300
Models == INSTANCE Gguf
CONSTANTS MaxHighSeveritySamples, SampleLineTruncate, FormatPrefix
Levels == INSTANCE Logs
Captures == INSTANCE Flows WITH TopN <- 2, ScanFloor <- 3, ScanRatio <- 2, TalkerRatio <- 2
PathOf(names) == [i \in DOMAIN names |-> <<names[i]>>]
HomeNames == <<"home", "u">>
Calls == INSTANCE RuneCalls WITH Home <- PathOf(HomeNames), Tmp <- PathOf(<<"tmp">>), PrivateTmp <- PathOf(<<"private", "tmp">>),
                                 SensitiveRelative <- {PathOf(<<"ssh">>), PathOf(<<"config", "key">>)},
                                 SensitiveAbsolute <- {PathOf(<<"etc", "a">>)}, MaxInputBytes <- 2, MaxLinks <- 3, MaxFiles <- 3
Disk == INSTANCE VaultFormat WITH Radix <- 4, Whole <- 100, WindowSize <- 4, MaxMatches <- 5, MaxLineLen <- 3, MaxNeedles <- 2

-----------------------------------------------------------------------------
(* Bounds                                                                  *)

MCNiceWidths == <<1, 2, 4>>

\* What a shell and its programs write: characters of one and two columns,
\* control characters, erasing, moving, and a character cut short.
Csi(bytes) == <<27, 91>> \o bytes
Tokens ==
  {<<97>>, <<228, 184, 128>>, <<228, 97>>, <<10>>, <<13>>, <<9>>, <<8>>, Csi(<<75>>), Csi(<<49, 75>>),
   Csi(<<50, 75>>), Csi(<<74>>), Csi(<<49, 74>>), Csi(<<72>>), Csi(<<50, 59, 50, 72>>), Csi(<<65>>),
   Csi(<<66>>), Csi(<<67>>), Csi(<<68>>), Csi(<<50, 80>>), Csi(<<51, 49, 109>>), <<27, 93, 97, 7>>}
MaxTokens == 4

\* What edits one line: erasing from the cursor, to it, all of it, and deleting.
EraseToCursor == Csi(<<49, 75>>)
LineEdits == {Csi(<<75>>), EraseToCursor, Csi(<<50, 75>>), Csi(<<50, 80>>)}

ScreenTexts(n) == SeqOf({97, 19968, Screens!LineEnd}, n)
Written(ch) == CASE ch = 97 -> <<97>> [] ch = 19968 -> <<228, 184, 128>>
                 [] ch = Screens!LineEnd -> <<13, 10>>
WrittenText(text) == FlattenSeq([i \in DOMAIN text |-> Written(text[i])])

UpTo(S, n) == UNION {kSubset(k, S) : k \in 0..n}
Times(S) == SetToSortSeq(S, <)

\* A busy stream that falls silent.
Busy == <<0, 0, 0, 1, 1, 1, 2, 2, 2, 4, 4, 4, 5, 5, 5>>

\* Fields of every kind, with and without their statistics, of two names.
NoStats(name, kind) ==
  [name |-> name, kind |-> kind, count |-> 3, null_count |-> {}, numeric |-> {}, text |-> {}, bool |-> {},
   timestamp |-> {}]
Number(v, w) == {[min |-> v, max |-> w, mean |-> w, sum |-> v]}
Top(s) == [i \in DOMAIN s |-> [value |-> s[i], count |-> 2 * i + s[i]]]
FieldsNamed(name) ==
  {NoStats(name, "mixed"), NoStats(name, "number"),
   [NoStats(name, "number") EXCEPT !.numeric = Number(1, 4), !.null_count = {2}],
   [NoStats(name, "number") EXCEPT !.numeric = Number(2, 2)],
   [NoStats(name, "bool") EXCEPT !.bool = {[true_count |-> 1, false_count |-> 2]}],
   [NoStats(name, "bool") EXCEPT !.bool = {[true_count |-> 3, false_count |-> 0]}],
   [NoStats(name, "timestamp") EXCEPT !.timestamp = {[min |-> 1, max |-> 9, unique |-> 2]}],
   [NoStats(name, "timestamp") EXCEPT !.timestamp = {[min |-> 3, max |-> Reports!Null, unique |-> 3]}],
   [NoStats(name, "text") EXCEPT !.text = {[unique |-> 2, top |-> Top(<<1, 2>>)]}],
   [NoStats(name, "text") EXCEPT !.text = {[unique |-> 5, top |-> Top(<<2, 3>>)]}]}
Columns == {<<>>} \cup {<<f>> : f \in FieldsNamed(<<"x">>)}
           \cup {<<f, g>> : f \in FieldsNamed(<<"x">>), g \in {h \in FieldsNamed(<<"y">>) : h.kind = "number"}}
Count(name, n) == [name |-> name, count |-> n]
Buckets == {<<>>} \cup {<<Count(<<"x">>, n)>> : n \in 0..2} \cup {<<Count(<<"y">>, 1), Count(<<"x">>, n)>> : n \in 0..2}

\* A report with a part of every sort, each of them there or not.
Told(score) == [stream |-> "b", lag_seconds |-> 4, direction |-> "decrease", score |-> score, kind |-> "anomaly"]
EmptyReport ==
  [schema_version |-> 1, rune |-> "r", rune_version |-> 1, success |-> TRUE, source |-> {},
   totals |-> [rows |-> 3, scan_us |-> 7], fields |-> <<>>, categories |-> <<>>, samples |-> <<>>,
   anomalies |-> <<>>, correlations |-> <<>>, groups |-> <<>>, group_by |-> {}, incident |-> {}, error |-> {}]
Report(v, gone) ==
  LET full ==
    [EmptyReport EXCEPT
      !.source = {[path |-> "p", bytes |-> 10, format |-> "csv"]},
      !.fields = <<[NoStats("x", "number") EXCEPT !.numeric = Number(1, v)],
                   [NoStats("y", "text") EXCEPT !.text = {[unique |-> 2, top |-> Top(<<1>>)]}, !.null_count = {0}]>>,
      !.categories = <<Count("c", 0)>>,
      !.samples = <<[byte_offset |-> {0}, line |-> {}, timestamp |-> {"t"}, text |-> "s"]>>,
      !.anomalies = <<[bucket |-> "t", count |-> 9, baseline |-> 0, ratio |-> v, score |-> 9]>>,
      !.correlations = <<[stream_a |-> "b", stream_b |-> "a", lag_seconds |-> 4, score |-> 1, peak_bucket |-> "t",
                          events_a |-> 5, events_b |-> 6, width_seconds |-> 1]>>,
      !.groups = <<[key |-> "k", count |-> 2, aggs |-> <<[op |-> "mean", col |-> {"x"}, value |-> v],
                                                         [op |-> "count", col |-> {}, value |-> 2]>>]>>,
      !.group_by = {"k"},
      !.incident = {[anchor |-> [kind |-> "spike", stream |-> "a", time |-> "t"], steps |-> <<Told(v), Told(1)>>,
                     confidence |-> 1]},
      !.error = {"e"}]
  IN [k \in DOMAIN full |-> IF k \in gone THEN EmptyReport[k] ELSE full[k]]

\* Days at the ends of months, years, leap years and centuries, and stamps
\* that no clock shows.
Dates ==
  {<<y, d>> : y \in {1600, 1899, 1969, 1970, 1999, 2000, 2023, 2100}, d \in {0, 30, 57, 58, 59, 60, 61, 364, 365}}
  \cup {<<y, d>> : y \in {1900, 2024}, d \in 0..366}
Stamps == [year : {0, 24, 1999, 2024}, month : {0, 2, 12, 13}, day : {0, 1, 29, 31},
           hour : {23, 24}, minute : {59}, second : {0, 60, Times2000!Bad}]
Moments == {-1, 0, 3599, 3600, 86399, 86400, 604800, 31536000}
Quiet == {s \in [1..7 -> 0..2] : \A i \in 1..6 : s[i] <= s[i + 1]}
Highs == {<<4>>, <<13>>, <<20>>, <<20, 20>>, <<13, 60>>}

\* Vocabularies of a few pieces, the last three of them names of bytes, some
\* pieces missing.  GPT-2's are written in its own characters.
Pieces ==
  <<<<97>>, <<98>>, <<97, 98>>, <<98, 97>>, <<97, 97, 98>>, Words!Mark, Words!Mark \o <<97>>, <<10>>, <<10, 10>>,
    <<195, 169>>, <<195>>, <<169>>, <<60>>, <<62>>, <<60, 101, 62>>, <<32>>,
    Words!HexName(98), Words!HexName(195), Words!HexName(169)>>
InGpt2(b) == CHOOSE cp \in 33..323 : Words!FromUnicode(cp) = {b}
AsString(model, piece) ==
  CASE model = "gpt2" /\ Words!ByteToken(piece) = {} -> [i \in DOMAIN piece |-> InGpt2(piece[i])]
    [] model # "gpt2" /\ piece = <<195, 169>> -> <<233>>
    [] model # "gpt2" /\ IsPrefix(Words!Mark, piece) -> <<9601>> \o SubSeq(piece, 4, Len(piece))
    [] OTHER -> piece
Vocabulary(model, some) ==
  LET kept == SelectSeq([k \in DOMAIN Pieces |-> k], LAMBDA k : k \in some) IN
  [k \in DOMAIN kept |-> AsString(model, Pieces[kept[k]])]
ModelFile(model, some, scores, merges) ==
  [model |-> model, strs |-> Vocabulary(model, some), scores |-> scores, merges |-> merges]
AllMerges == {<<97, 32, 98>>, <<98, 32, 97>>, <<97, 32, 97, 98>>, <<97, 98, 32, 97, 98>>, <<9601, 32, 97>>}
Characters == {<<97>>, <<98>>, <<32>>, <<10>>, <<195, 169>>, <<60>>, <<60, 101, 62>>}
TextsOf(chars, n) == {FlattenSeq(s) : s \in SeqOf(chars, n)}
DefaultMerges == <<<<97, 32, 98>>, <<97, 32, 97, 98>>, <<9601, 32, 97>>>>

\* JSON values of every kind, and what may stand where one is expected.
Numbers == {Texts!I64(n, d) : n \in BOOLEAN, d \in {<<0>>, <<7>>, <<1, 2>>, Texts!MaxI64}}
           \cup {Texts!F64(n, <<>>, 0) : n \in BOOLEAN} \cup {Texts!F64(n, <<1, 5>>, e) : n \in BOOLEAN, e \in {-3, -2, -1, 0, 2}}
Scalars == Numbers \cup {Texts!Bool(TRUE), Texts!Bool(FALSE), Texts!Null}
           \cup {Texts!Str(s) : s \in SeqOf({98, 34, 92, 10, 1, 47, 233, 128512}, 2)}
Nested == {Texts!Array(a) : a \in SeqOf({Texts!Null, Texts!Bool(TRUE), Texts!I64(TRUE, <<1, 2>>), Texts!Array(<<>>)}, 2)}
          \cup {Texts!Object(<<<<97>>>>, <<v>>) : v \in Numbers} \cup {Texts!EmptyObject}
Places == {48, 49, 45, 46, 101, 91, 93, 44, 32, 34}
InObject(text) == <<123, 34, 97, 34, 58>> \o text \o <<125>>

\* Tables of two columns, of which rows may lack the second.
Cells == {<<>>, <<49>>, <<50>>, <<120>>, Sheets!NaNText}
RowsOf(cells) == SeqOf(cells, 2) \ {<<>>}
Titles == <<<<97>>, <<98>>>>
Wheres == {{}} \cup {{c \o o \o <<49>>} : c \in {<<97>>, <<98>>}, o \in {<<61>>, <<62, 61>>}}

\* Lines of JSON: strings of what the scan stops at, alone, inside an object,
\* inside an array; and values of every kind under one key.
Tricky == {Texts!Str(s) : s \in SeqOf({98, Texts!Quote, Texts!Backslash, Texts!OpenBrace, Texts!CloseBrace,
                                       Texts!CloseBracket, Texts!Colon, Texts!Comma}, 2)}
Wrapped == Tricky \cup {Texts!Object(<<<<98>>>>, <<v>>) : v \in Tricky} \cup {Texts!Array(<<v, Texts!Null>>) : v \in Tricky}
           \cup {Texts!Object(<<<<98>>>>, <<Texts!Object(<<<<98>>>>, <<v>>)>>) : v \in Tricky}
IsoText(second) == <<50, 48, 50, 52, 45, 48, 49, 45, 48, 50, 84, 48, 51, 58, 48, 52, 58, 48, second>>
Small(neg, d) == Texts!I64(neg, <<d>>)
Plain == {Small(FALSE, 1), Small(TRUE, 2), Texts!Bool(TRUE), Texts!Bool(FALSE), Texts!Null, Texts!Str(<<98>>), Texts!Str(<<99>>),
          Texts!Str(IsoText(49)), Texts!Str(IsoText(50)), Texts!Object(<<<<98>>>>, <<Small(FALSE, 1)>>)}
OneKey == {Texts!EmptyObject} \cup {Texts!Object(<<<<97>>>>, <<v>>) : v \in Plain}
Bytes == {Texts!I64(FALSE, d) : d \in {<<9, 8>>, <<2, 5, 6>>}} \cup {Small(TRUE, 1), Texts!Null}

\* Four texts: a question, the question louder, and two answers, more alike
\* or less.
Asked == {"q", "Q", "a", "b"}
Louder == [t \in Asked |-> IF t = "Q" THEN "q" ELSE t]
Alike(qa, qb, ab) ==
  [p \in Asked \X Asked |->
     LET pair == {Louder[p[1]], Louder[p[2]]} IN
     CASE p[1] = p[2] -> 100 [] p[1] # p[2] /\ pair = {"q"} -> 96 [] pair = {"q", "a"} -> qa [] pair = {"q", "b"} -> qb
       [] pair = {"a", "b"} -> ab]
Ringed(said) == FoldLeft(Ring!AddText, Ring!NewStore(3), said)

\* Dumps: names quoted and qualified in every way, and statements of each sort,
\* some of whose texts read like others.
NamedAs(t) == {<<t>>, <<34, t, 34>>, <<96, t, 96>>, <<91, t, 93>>, <<115, 46, t>>, <<34, 115, 34, 46, 34, t, 34>>}
Statement(what, t, named, more) == [what |-> what, table |-> <<t>>, named |-> named] @@ more
Note(text) == [what |-> "note", text |-> text]
Declared(n, careful) ==
  Statement("create", 97, n, [careful |-> careful, columns |-> <<<<99>>, <<100, 40, 49, 44, 50, 41>>>>])
Inserted(n, listed) ==
  Statement("insert", 98, n, [listed |-> listed, rows |-> <<<<<<49>>, <<39, 41, 59, 39>>>>, <<<<50>>, <<39, 39, 39, 39>>>>>>])
Copied(n, rows) == Statement("copy", 97, n, [rows |-> rows])
SomeRows == <<<<49, 9, 92, 46>>, <<>>, <<92, 78>>>>
Statements ==
  {Declared(<<97>>, TRUE), Inserted(<<98>>, <<>>), Copied(<<97>>, SomeRows),
   Note(<<45, 45, 32>> \o Dumps!Create \o <<32>> \o Dumps!Table \o <<115>>),
   Statement("create", 98, <<98>>, [careful |-> FALSE, columns |-> <<<<39, 44, 41, 39, 32, 99>>>>]),
   Statement("insert", 97, <<97>>, [listed |-> <<>>, rows |-> <<<<<<40, 49, 41>>>>>>])}
Forms == {Declared(n, c) : n \in NamedAs(97), c \in BOOLEAN}
         \cup {Inserted(n, l) : n \in NamedAs(98), l \in {<<>>, <<40, 99, 44, 39, 41, 39, 41, 32>>}}
         \cup {Copied(n, r) : n \in NamedAs(97), r \in {<<>>, SomeRows}}
         \cup {Note(<<45, Dumps!Fingerprint>>), Note(Dumps!Insert)}

\* Columns of every physical type and of every meaning a schema gives them, and
\* footers with a field that no reader knows, of every type.
ColumnOf(n, pt, means) == [name |-> <<n>>, pt |-> pt, means |-> means]
Part(values, nulls, told) == [values |-> values, nulls |-> nulls, told |-> told]
StyleOf(long, t, b) == [long |-> long, extra |-> [type |-> t, bytes |-> b]]
ParquetColumns ==
  {ColumnOf(97, pt, "itself") : pt \in 0..7} \cup {ColumnOf(97, pt, m) : pt \in {1, 2}, m \in {"unsigned", "decimal", "old decimal"}}
  \cup {ColumnOf(97, 7, "decimal")} \cup {ColumnOf(97, 2, m) : m \in {"millis", "micros", "nanos"}}
ValuesOf(c) == IF c.means = "unsigned" THEN {0, 3, 40000} ELSE IF c.pt = 0 THEN {0, 1} ELSE {-7, 0, 300}
UnknownFields ==
  {<<1, <<>>>>, <<3, <<5>>>>, <<5, <<200, 1>>>>, <<7, <<1, 2, 3>>>>, <<8, <<2, 0, 12>>>>, <<9, <<37, 1, 129, 1>>>>,
   <<10, <<245, 1, 9>>>>, <<11, <<0>>>>, <<11, <<2, 88, 1, 1, 7, 3, 0>>>>, <<12, <<21, 4, 24, 1, 0, 0>>>>, <<12, <<0>>>>}
Styles == {StyleOf(l, x[1], x[2]) : l \in BOOLEAN, x \in UnknownFields}
PlainStyle == StyleOf(FALSE, 1, <<>>)
TwoColumns == <<ColumnOf(97, 2, "millis"), ColumnOf(98, 7, "decimal")>>
OneGroup == <<<<Part({3}, 0, TRUE), Part({1}, 0, FALSE)>>>>

\* Settings of every type, and tensors of types with and without blocks.
Value(t, v) == [type |-> t, held |-> v]
Settings ==
  {Value(0, 200), Value(1, -3), Value(2, 300), Value(3, -300), Value(4, 70000), Value(5, -70000), Value(6, <<1, 2, 3, 4>>),
   Value(7, TRUE), Value(8, <<>>), Value(8, <<97, 98>>), Value(9, <<>>), Value(9, <<Value(8, <<97>>), Value(8, <<>>)>>),
   Value(9, <<Value(9, <<Value(4, 1)>>), Value(9, <<>>)>>), Value(10, 5), Value(11, -1), Value(12, <<0, 0, 0, 0, 0, 0, 240, 63>>)}
Setting(v) == [key |-> <<97>>, value |-> v]
Tensor(k, dims, dtype, n) == [key |-> k, dims |-> dims, dtype |-> dtype, data |-> [i \in 1..n |-> (i + Len(k)) % 256]]
Tensors ==
  {Tensor(<<97>>, <<2, 3>>, 0, 24), Tensor(<<98>>, <<3>>, 1, 6), Tensor(<<97>>, <<256>>, 12, 144),
   Tensor(<<98, 98>>, <<128, 3>>, 14, 420), Tensor(<<98>>, <<>>, 0, 0), Tensor(<<97>>, <<1>>, 11, 110), Tensor(<<98>>, <<40>>, 36, 42)}

LogLines == {<<>>, <<132>>, <<132, 32, 133>>, <<97, 133>>, <<129, 58, 32, 132, 97, 13>>, <<32, 123, Levels!LevelKey, 58, 132>>}

\* Packets of every kind, tagged or not, with options or not.
Packet(k, s, d, o, t, n) == [kind |-> k, src |-> s, dst |-> d, options |-> o, tagged |-> t, data |-> n]
Packets ==
  {Packet(k, 167772161, 167772162, o, t, n) : k \in {"tcp", "udp", "icmp", "arp", "v6"}, o \in {0, 4}, t \in BOOLEAN, n \in {0, 2}}
  \cup {Packet("stub", 1, 1, 0, FALSE, n) : n \in {0, 13}}
SomePackets ==
  {Packet("tcp", 167772161, 167772162, 0, FALSE, 0), Packet("tcp", 167772161, 3, 0, TRUE, 5),
   Packet("udp", 3, 167772162, 4, FALSE, 0), Packet("icmp", 3, 4, 0, FALSE, 0), Packet("stub", 1, 1, 0, FALSE, 3)}

\* A disk as it is, its home or its directory of temporary files a link, or
\* with a link from one of three directories to any place.
Dir == [kind |-> "dir"]
FileOf(n, holds) == [kind |-> "file", size |-> n, holds |-> holds]
LinkTo(names) == [kind |-> "link", to |-> PathOf(names)]
Tree(home, tmp) ==
  [p \in {<<>>} \cup {PathOf(d) : d \in {<<"home">>, <<"etc">>, <<"var">>, <<"data">>, <<"private">>, home, tmp, home \o <<"ssh">>,
                                       home \o <<"config">>}} |-> Dir]
  @@ (PathOf(home \o <<"ssh", "a">>) :> FileOf(1, "bad")) @@ (PathOf(home \o <<"a">>) :> FileOf(2, "good"))
  @@ (PathOf(home \o <<"config", "key">>) :> FileOf(1, "bad")) @@ (PathOf(tmp \o <<"a">>) :> FileOf(3, "good"))
  @@ (PathOf(<<"etc", "a">>) :> FileOf(1, "good")) @@ (PathOf(<<"var", "a">>) :> FileOf(1, "good"))
UsualDisk == Tree(HomeNames, <<"tmp">>)
LinkTargets ==
  {<<"etc">>, <<"etc", "a">>, HomeNames \o <<"ssh">>, HomeNames \o <<"a">>, HomeNames, <<"tmp">>, <<"tmp", "b">>,
   HomeNames \o <<"ssh", "b">>, HomeNames \o <<"l">>, <<"var", "a">>}
Disks ==
  {UsualDisk, Tree(<<"data", "u">>, <<"tmp">>) @@ (PathOf(HomeNames) :> LinkTo(<<"data", "u">>)),
   Tree(HomeNames, <<"private", "tmp">>) @@ (PathOf(<<"tmp">>) :> LinkTo(<<"private", "tmp">>))}
  \cup {(PathOf(d \o <<"l">>) :> LinkTo(t)) @@ UsualDisk : d \in {HomeNames, <<"tmp">>, <<"var">>}, t \in LinkTargets}
WrittenPath(names) == Tail(FlattenSeq([i \in DOMAIN names |-> <<"/", names[i]>>]))
SomeNames == SeqOf({"home", "u", "tmp", "a", "b", "l", "..", "ssh", "config", "var"}, 2) \ {<<>>}
PathTexts ==
  {r \o WrittenPath(n) : r \in {<<>>, <<"~", "/">>, <<"/">>, <<"~", "/", "/">>, <<"/", "tmp", "/">>, <<"/", "var", "/">>}, n \in SomeNames}
  \cup {<<"/">> \o WrittenPath(HomeNames \o n) : n \in SomeNames}
  \cup {<<>>, <<"/">>, <<"~">>, <<"~", "/">>, <<"~", "/", "/">>, <<"~", "/", ".", "/", "a">>, <<"/", "etc", "/", "a">>}

\* A disk with files that runes can read or not, and words to call these with.
CallDisk ==
  [p \in {<<>>} \cup {PathOf(d) : d \in {<<"home">>, HomeNames, <<"etc">>, <<"tmp">>}} |-> Dir]
  @@ (PathOf(HomeNames \o <<"a">>) :> FileOf(1, "good")) @@ (PathOf(HomeNames \o <<"b">>) :> FileOf(1, "bad"))
  @@ (PathOf(HomeNames \o <<"c">>) :> FileOf(3, "good")) @@ (PathOf(HomeNames \o <<"e">>) :> FileOf(0, "empty"))
  @@ (PathOf(<<"tmp", "a">>) :> FileOf(2, "good")) @@ (PathOf(HomeNames \o <<"l">>) :> LinkTo(<<"etc", "a">>))
  @@ (PathOf(<<"etc", "a">>) :> FileOf(1, "good")) @@ (<<<<"home">>, <<"u">>, <<"a", " ", "b">>>> :> FileOf(1, "good"))
Runes == {"easql", "ealog", "eaparquet", "eanet", "eatime", "eajson", "eacrunch", "eadiff", "eacorrelate"}
OptionWords == {<<o, " ">> : o \in {"--depth", "--by", "--agg", "--where", "--bucket", "--format"}}
OptionValues == {<<v, " ">> : v \in {"sum:b", "b=1", "series", "json", "a", "--json"}} \cup {<<>>}
CallPaths ==
  {<<"a">>, <<"/", "tmp", "/", "a">>, <<"c">>, <<"e">>, <<"a", " ", "b">>, <<"a", " ", "a", " ", "l">>, <<>>, <<"/", "etc", "/", "a">>}
Heads ==
  {<<>>, <<"d", "d", "d", "d", "d", "-", "d", "d", "-", "d", "d">>, <<" ", "d", "d", "/", "a", "a", "a", "/", "d", "d", "d", "d">>,
   <<"d", "d", "d", "d", "-", "d">>}
InCapitals(ext) == CASE ext = "csv" -> "CSV" [] ext = "log" -> "LOG" [] OTHER -> ext

\* Words to search for, and blocks that can be read and are intact or not.
Needles ==
  {<<>>, <<<<97>>>>, <<<<97, 98>>>>, <<<<97>>, <<98, 97>>>>, <<<<97, 98, 97>>, <<98>>>>, <<<<98, 98, 97>>>>, <<<<97>>, <<97>>, <<98>>>>}
Block(like, text, readable, intact) == [like |-> like, text |-> text, readable |-> readable, intact |-> intact]
Blocks ==
  {Block(l, <<97>>, s[1], s[2]) : l \in {1, 50}, s \in {<<TRUE, TRUE>>, <<TRUE, FALSE>>, <<FALSE, TRUE>>}}
  \cup {Block(60, <<98, 97>>, TRUE, TRUE), Block(55, <<97>>, TRUE, FALSE), Block(0, <<97>>, TRUE, TRUE)}

\* Texts that are appended to a log, or lost between the record and the header;
\* the long one makes a record whose length differs from another's by one digit.
LongText == [i \in 1..12 |-> i % 3]
Kept(text) == [text |-> text, lost |-> FALSE]
Lost(text) == [text |-> text, lost |-> TRUE]
ShortText == <<2, 3, 3, 3, 3>>
Appends == {Kept(t) : t \in {<<>>, ShortText, LongText}} \cup {Lost(t) : t \in {<<>>, ShortText, LongText}}
KeptLogs ==
  {<<>>, <<Kept(ShortText)>>, <<Kept(ShortText), Kept(LongText)>>, <<Kept(LongText), Kept(ShortText)>>,
   <<Kept(<<1>>), Kept(LongText), Kept(<<>>)>>, <<Kept(<<>>), Lost(LongText), Kept(<<3>>)>>, <<Kept(<<>>), Lost(LongText)>>}
NewVault == Disk!CreateNew([i \in 1..16 |-> i % 4], [i \in 1..8 |-> i \div 3])
Add(v, a, now) ==
  IF ~Disk!Ok(v) THEN v
  ELSE IF a.lost THEN Disk!OpenExisting(Disk!WriteRecord(v, a.text, now))
  ELSE Disk!FlushBlock(v, a.text, now)
LogOf(appends) == FoldLeft(LAMBDA v, k : Add(v, appends[k], k), NewVault, [k \in DOMAIN appends |-> k])
SaidIn(appends) ==
  LET kept == SelectSeq(appends, LAMBDA a : ~a.lost) IN [i \in DOMAIN kept |-> kept[i].text]

Subjects == 55

-----------------------------------------------------------------------------
\* The part of the work a behaviour is about.
Init == \E n \in 1..Subjects : job = [study |-> "none", subject |-> n]
Idle(n) == job.study = "none" /\ job.subject = n

\* A screen of 2 rows of 3 columns, a token after another.
StartScreen == job' = [study |-> "screen", grid |-> Screens!New(3, 2), fed |-> 0]
FeedScreen(token) ==
  /\ job.study = "screen" /\ job.fed < MaxTokens /\ ~job.grid.sick
  /\ job' = [job EXCEPT !.grid = Screens!Feed(@, token), !.fed = @ + 1]
WriteText(text, cols) ==
  job' = [study |-> "text", grid |-> Screens!Feed(Screens!New(cols, 2), WrittenText(text)),
                  rows |-> Screens!Layout(text, cols)]

\* Two or three files of events; the third has too few, or errors beside them.
File(n, events, errors) == [name |-> n, events |-> events, errors |-> errors]
Correlate(files) == job' = [study |-> "correlate", files |-> files]
Cascade(findings) == job' = [study |-> "cascade", findings |-> findings]
Blame(stamps, times, errors) ==
  job' = [study |-> "errors", stamps |-> stamps, times |-> times, errors |-> errors]

Wire(input) == job' = [study |-> "wire"] @@ input
Typing(calls) == job' = [study |-> "typing", calls |-> calls]

WriteReport(v, gone) == job' = [study |-> "report", report |-> Report(v, gone)]
Compare(a, b) == job' = [study |-> "compare", a |-> a, b |-> b]

Clock(input) == job' = [study |-> "clock"] @@ input

Tokenize(what, t, text, starts) ==
  job' = [study |-> "tokens", what |-> what, t |-> t, text |-> text, starts |-> starts]
Draw(logits, hot, top_k, top_p, min_p) ==
  job' = [study |-> "draw", logits |-> logits, hot |-> hot, top_k |-> top_k, top_p |-> top_p, min_p |-> min_p]

Json(input) == job' = [study |-> "json"] @@ input

ReadLines(objects, depth) == job' = [study |-> "lines", objects |-> objects, depth |-> depth]
Remember(said, sim, k) == job' = [study |-> "recall", said |-> said, sim |-> sim, k |-> k]
Tabulate(input) == job' = [study |-> "table"] @@ input

Dump(dump, spare, room) == job' = [study |-> "dump", dump |-> dump, spare |-> spare, room |-> room]
Footer(cols, groups, style, cut) ==
  job' = [study |-> "parquet", cols |-> cols, groups |-> groups, style |-> style, cut |-> cut]
OpenModel(version, settings, tensors, cut) ==
  job' = [study |-> "gguf", version |-> version, settings |-> settings, tensors |-> tensors, cut |-> cut]
Log(lines, ended) == job' = [study |-> "log", lines |-> lines, ended |-> ended]
Capture(packets, spare, room, cut) ==
  job' = [study |-> "capture", packets |-> packets, spare |-> spare, room |-> room, cut |-> cut]
Scan(fanouts) == job' = [study |-> "scan", fanouts |-> fanouts]

Reach(disk, path) == job' = [study |-> "path", disk |-> disk, path |-> path]
Call(input) == job' = [study |-> "call"] @@ input
Look(input) == job' = [study |-> "search"] @@ input
Reopen(input) == job' = [study |-> "format"] @@ input

Next ==
  \/ Idle(1) /\ StartScreen
  \/ \E t \in Tokens : FeedScreen(t)
  \/ Idle(2) /\ \E text \in ScreenTexts(5), cols \in 2..3 : WriteText(text, cols)
  \/ Idle(3) /\ \E a, b \in UpTo(0..5, 3) \ {{}}, e \in {{}, {2, 4}}, third \in {<<>>, <<3>>} :
       Correlate(<<File(1, Times(a), <<>>), File(3, Times(b), Times(e)), File(5, third, <<>>)>>)
  \/ Idle(4) /\ \E a, b \in kSubset(2, 0..5) :
       Correlate(<<File(1, Times(a), <<>>), File(3, Times(b), <<>>), File(5, Busy, <<>>)>>)
  \/ Idle(5) /\ \E l \in [1..3 -> {1, 3}], p \in [1..3 -> {q \in (1..4) \X (1..4) : q[1] # q[2]}] :
       Cascade([k \in 1..3 |-> [leader |-> p[k][1], follower |-> p[k][2], lag |-> l[k],
                                score |-> [num |-> k, den |-> 4], peak |-> 10]])
  \/ Idle(6) /\ \E s \in UpTo(1..6, 3), e \in UpTo(0..7, 3), bad \in UpTo(1..3, 1) :
       Blame(Times(s), [i \in 1..Cardinality(s) |-> IF i \in bad THEN NoTime ELSE 10 * i], Times(e))
  \/ Idle(7) /\ \E n \in {0, 1, 2, 125, 126, 127}, mask \in {<<0, 0, 0, 0>>, <<1, 2, 128, 255>>}, next \in {<<>>, <<1>>} :
       Wire([what |-> "frame", payload |-> [i \in 1..n |-> i + 99], mask |-> mask, next |-> next])
  \/ Idle(8) /\ \E n \in {0, 125, 126, 127, 255, 256, 65534, 65535, 65536, 16777216} :
       Wire([what |-> "length", n |-> n])
  \/ Idle(9) /\ \E data \in SeqOf({0, 63, 128, 255}, 4), url \in {<<>>, <<100, 59, Sockets!Comma>>}, gap \in {<<>>, <<10>>} :
       Wire([what |-> "upload", data |-> data, url |-> url, gap |-> gap])
  \/ Idle(10) /\ \E name \in SeqOf({46, 47, 92, 97, 32}, 4) : Wire([what |-> "name", name |-> name])
  \/ Idle(11) /\ \E k \in 0..4, cuts \in UpTo(0..4, 2), n \in 0..5 :
       (\A c \in cuts : c <= k) /\ Wire([what |-> "body", body |-> [i \in 1..k |-> i], cuts |-> Times(cuts), n |-> n])
  \/ Idle(12) /\ \E text \in SeqOf({97, 110, Sockets!Quote, Sockets!Backslash, Sockets!Newline, Sockets!Colon}, 4) :
       Wire([what |-> "string", text |-> text])
  \/ Idle(13) /\ \E one, two \in SeqOf({97, 98, 8, 13}, 3) : Typing(<<one, two>>)
  \/ Idle(14) /\ \E v \in {0, 5, Reports!NotFinite}, gone \in SUBSET {"source", "anomalies", "groups", "group_by", "incident", "error"} :
       WriteReport(v, gone)
  \/ Idle(15) /\ \E a, b \in Columns : Compare([fields |-> a, categories |-> <<>>], [fields |-> b, categories |-> <<>>])
  \/ Idle(16) /\ \E a, b \in Buckets : Compare([fields |-> <<>>, categories |-> a], [fields |-> <<>>, categories |-> b])
  \/ Idle(17) /\ \E date \in Dates : Clock([what |-> "day", day |-> Times2000!DaysSince2000(date[1], 1, 1) + 10957 + date[2]])
  \/ Idle(18) /\ \E format \in Times2000!Formats, stamp \in Stamps :
       ((stamp.year < 100) <=> (format = "hdfs")) /\ Clock([what |-> "stamp", format |-> format, stamp |-> stamp])
  \/ Idle(19) /\ \E n \in {0, 999999999, 1700000001}, extra \in {0, 3, 6, 9}, tail \in {<<>>, <<Times2000!Bad, 5>>} :
       Clock([what |-> "unit", n |-> n, extra |-> extra, tail |-> tail])
  \/ Idle(20) /\ \E some \in SeqOf(Moments, 3) : Clock([what |-> "series", epochs |-> some])
  \/ Idle(21) /\ \E quiet \in Quiet, at \in 0..7, high \in Highs, more \in {30, 100} :
       Clock([what |-> "spike", counts |-> SubSeq(quiet, 1, at) \o high \o SubSeq(quiet, at + 1, 7), more |-> more])
  \/ Idle(22) /\ \E model \in {"llama", "gemma4", "gpt2"}, gone \in UpTo(DOMAIN Pieces, 1) \cup {10..12} :
       \E t \in Words!Load(ModelFile(model, DOMAIN Pieces \ gone, {}, DefaultMerges)),
          starts \in IF model = "gpt2" THEN {{}, {2}} ELSE {{}}, text \in TextsOf(Characters, 3) :
         Tokenize("text", t, text, starts)
  \/ Idle(23) /\ \E scores \in [1..6 -> {-5, -2}] :
       \E t \in Words!Load(ModelFile("llama", {1, 3, 4, 5, 6, 17}, {scores}, <<>>)),
          text \in TextsOf({<<97>>, <<98>>, <<32>>}, 4) : Tokenize("scores", t, text, {})
  \/ Idle(24) /\ \E n \in 0..3 : \E merges \in {m \in [1..n -> AllMerges] : IsInjective(m)} :
       \E t \in Words!Load(ModelFile("gemma4", DOMAIN Pieces, {}, merges)),
          text \in TextsOf({<<97>>, <<98>>, <<32>>}, 5) : Tokenize("merges", t, text, {})
  \/ Idle(25) /\ \E n \in 1..5 : \E logits \in [1..n -> 0..2], hot \in 0..2, top_k \in 1..3,
                             top_p \in {<<1, 2>>, <<1, 1>>}, min_p \in {<<0, 1>>, <<1, 2>>, <<2, 1>>} :
       Draw(logits, hot, top_k, top_p, min_p)
  \/ Idle(26) /\ \E v \in Scalars \cup Nested, w \in {Texts!Null} \cup Numbers \cup Nested :
       Json([what |-> "object", obj |-> Texts!Object(<<<<97>>, <<97, 98>>>>, <<v, w>>)])
  \/ Idle(27) /\ \E text \in SeqOf(Places, 4), more \in {32, 125} : Json([what |-> "text", text |-> InObject(text), more |-> more])
  \/ Idle(28) /\ \E inside \in SeqOf({98, 34, 92, 117, 195, 169, 237, 240}, 4) :
       Json([what |-> "text", text |-> InObject(<<34>> \o inside \o <<34>>), more |-> 0])
  \/ Idle(29) /\ \E cp \in {1, 97, 127, 128, 2047, 2048, 55295, 57344, 65533, 65535, 65536, 128512, 1114111} :
       Json([what |-> "char", cp |-> cp])
  \/ Idle(30) /\ \E text \in SeqOf({49, Sheets!Quote, Sheets!Comma, Sheets!Newline}, 6) : Tabulate([what |-> "text", text |-> text])
  \/ Idle(31) /\ \E rows \in SeqOf({<<c, d>> : c, d \in SeqOf({49, Sheets!Quote, Sheets!Comma, Sheets!Newline}, 2)}, 1),
                rows2 \in SeqOf(RowsOf({<<>>, <<Sheets!Quote>>, <<97, Sheets!Comma>>}), 2) :
       Tabulate([what |-> "cells", table |-> rows \o rows2])
  \/ Idle(32) /\ \E rows \in SeqOf(RowsOf(Cells), 2) \cup [1..3 -> RowsOf({<<49>>, <<120>>, Sheets!NaNText})],
                by, col \in {<<97>>, <<98>>}, where \in Wheres :
       Tabulate([what |-> "parts", text |-> Sheets!WrittenTable(<<Titles>> \o rows), by |-> by, col |-> col, where |-> where])
  \/ Idle(33) /\ \E rows \in SeqOf(RowsOf(Cells), 2), col \in {<<97>>, <<98>>}, value \in Cells \ {<<>>} :
       Tabulate([what |-> "where", text |-> Sheets!WrittenTable(<<Titles>> \o rows), col |-> col, value |-> value])
  \/ Idle(34) /\ \E v \in Wrapped, w \in {Small(FALSE, 7), Texts!Str(<<98>>)}, depth \in 0..1 :
       ReadLines(<<Texts!Object(<<<<97>>, <<99>>>>, <<v, w>>)>>, depth)
  \/ Idle(35) /\ \E objects \in SeqOf(OneKey, 3) \ {<<>>} : ReadLines(objects, 1)
  \/ Idle(36) /\ \E items \in SeqOf(Bytes, 3), name \in {<<97>>, Lines!Message} :
       ReadLines(<<Texts!Object(<<<<98>>, name>>, <<Texts!Null, Texts!Array(items)>>)>>, 1)
  \/ Idle(37) /\ \E said \in SeqOf(Asked, 4), qa \in {0, 40, 90}, qb \in {40, 60}, ab \in {0, 60, 90}, k \in 1..2 :
       Remember(said, Alike(qa, qb, ab), k)
  \/ Idle(38) /\ \E dump \in SeqOf(Statements, 3) \cup {<<f, g>> : f \in Forms, g \in Statements}, spare \in {0, 25}, room \in {1, 5} :
       Dump(dump, spare, room)
  \/ Idle(39) /\ \E c \in ParquetColumns : \E v, w \in UpTo(ValuesOf(c), 2), told \in BOOLEAN :
       Footer(<<c>>, <<<<Part(v, 1, TRUE)>>, <<Part(w, 2, told)>>>>, PlainStyle, {})
  \/ Idle(40) /\ \E c \in ParquetColumns, style \in Styles, groups \in {<<>>, OneGroup} :
       Footer(<<c, ColumnOf(98, 0, "itself")>>, groups, style, {})
  \/ Idle(41) /\ \E long \in BOOLEAN, x \in {<<1, <<>>>>, <<9, <<37, 1, 129, 1>>>>, <<12, <<21, 4, 24, 1, 0, 0>>>>}, n \in 0..300 :
       Footer(TwoColumns, OneGroup, StyleOf(long, x[1], x[2]), {n})
  \/ Idle(42) /\ \E settings \in SeqOf({Setting(v) : v \in Settings}, 2) : OpenModel(3, settings, <<>>, 0)
  \/ Idle(43) /\ \E s, t \in Tensors, version \in 1..3, cut \in {0, 1, 20, 32, 33, 64, 150, 300} :
       OpenModel(version, <<>>, <<s, t>>, cut)
  \/ Idle(44) /\ \E v \in Settings, cut \in 1..160 : OpenModel(2, <<Setting(v)>>, <<Tensor(<<98>>, <<3>>, 1, 6)>>, cut)
  \/ Idle(45) /\ \E line \in SeqOf({128, 131, 132, 134, 97, 32, 91}, 3), ended \in BOOLEAN : Log(<<line>>, ended)
  \/ Idle(46) /\ \E lines \in SeqOf(LogLines, 3), ended \in BOOLEAN : Log(lines, ended)
  \/ Idle(47) /\ (\/ \E p, q \in Packets : Capture(<<p, q>>, 0, 1, 0)
                  \/ \E ps \in SeqOf(SomePackets, 3), spare \in {0, 200}, room \in {1, 3}, cut \in {0, 1} : Capture(ps, spare, room, cut))
  \/ Idle(48) /\ \E n \in 1..4 : \E fanouts \in [1..n -> 0..4] : Scan(fanouts)
  \/ Idle(49) /\ \E disk \in Disks, path \in PathTexts : Reach(disk, path)
  \/ Idle(50) /\ \E r \in Runes, args \in SeqOf({" ", "tab", "--json", "a", "l"}, 4) : Call([what |-> "rune", rune |-> r, args |-> args])
  \/ Idle(51) /\ \E r \in {"eatime", "eajson", "eacrunch"}, o, p \in OptionWords, v \in OptionValues, path \in CallPaths :
       \/ \E w \in {<<>>, <<"a", " ">>} : Call([what |-> "rune", rune |-> r, args |-> o \o v \o p \o w \o path])
       \/ Call([what |-> "rune", rune |-> r, args |-> path \o <<" ">> \o o \o v])
  \/ Idle(52) /\ \E dir \in {<<>>, <<"x", ".", "csv", "/">>, <<".", "\\">>}, stem \in {<<>>, <<"a">>, <<"a", ".", "log">>},
                   ext \in {"csv", "json", "parquet", "sql", "pcap", "log", "txt", "doc"}, magic \in {"text", "pcap", "pcapng"}, head \in Heads :
       Call([what |-> "drop", dir |-> dir, stem |-> stem, ext |-> ext, magic |-> magic, head |-> head])
  \/ Idle(53) /\ \E last \in SeqOf({1, 2, 4}, 3), n \in {0, 5, 6, 7, 8, 9, 10, 11, 12}, report \in BOOLEAN :
       Call([what |-> "answer", chars |-> [i \in 1..n |-> 3] \o last \o [i \in 1..n |-> 2], report |-> report])
  \/ Idle(54) /\ (\/ \E text \in SeqOf({97, 98, 10}, 7) \cup {<<97, 98>> \o t : t \in [1..7 -> {97, 98, 10}]}, words \in Needles :
                       Look([what |-> "words", text |-> text, words |-> words])
                  \/ \E blocks \in SeqOf(Blocks, 3), most \in 0..3, empty \in BOOLEAN, words \in {<<>>, <<<<97>>>>} :
                       Look([what |-> "log", blocks |-> blocks, most |-> most, empty |-> empty, words |-> words]))
  \/ Idle(55) /\ (\/ \E appends \in SeqOf(Appends, 4) : Reopen([what |-> "log", appends |-> appends])
                  \/ \E appends \in KeptLogs : \E cut \in 0..Len(LogOf(appends).file) :
                       Reopen([what |-> "cut", appends |-> appends, cut |-> cut])
                  \/ \E appends \in KeptLogs, byte \in 0..3 : \E at \in 0..(Len(LogOf(appends).file) - 1) :
                       Reopen([what |-> "damage", appends |-> appends, at |-> at, byte |-> byte])
                  \/ \E n \in {0, 1, 2, 127, 128, 129} : Reopen([what |-> "full", appends |-> [k \in 1..n |-> Kept(<<>>)]]))
Spec == Init /\ [][Next]_job

-----------------------------------------------------------------------------
\* Whatever a shell writes, a token after another, the terminal's cursor and
\* cells stay in its grid, unless a line is erased up to a cursor past the last
\* column of the last row; wherever the cursor has come, editing its line leaves
\* the other lines alone, unless it is erased up to a cursor past the last column,
\* which takes the first cell of the next line (ansi.rs:362); and plain text
\* is shown as it would be laid out by hand, wide characters whole, lines wrapped
\* and scrolled.
TerminalRight ==
  [][/\ job'.study = "screen" =>
          /\ Screens!InBounds(job'.grid) /\ (job'.grid.sick => Screens!PastTheEnd(job.grid))
          /\ Screens!AtRest(job'.grid) => \A edit \in LineEdits :
               \/ edit = EraseToCursor /\ Screens!WrapsBefore(job'.grid)
               \/ Screens!OtherRowsKept(job'.grid, Screens!Feed(job'.grid, edit))
     /\ job'.study = "text" => Screens!ShowsLayout(job'.grid, job'.rows)]_job

\* Streams are put on one grid that holds every event, each pair's finding is
\* the best lag there is, in the direction it is told with, and an error is
\* the next stamped line's (runes/eacorrelate.rs, correlation.rs,
\* stream.rs, substream.rs).
CorrelationRight(made) ==
  /\ made.study = "errors" => Attributed(made.stamps, made.times, made.errors)
  /\ made.study = "correlate" /\ StreamsOf(made.files) # <<>> =>
       LET streams == StreamsOf(made.files)
           grid == Grid(streams)
       IN /\ FitGrid(streams)
          /\ \A s \in DOMAIN streams : Held(streams[s].events, grid)
          /\ Follows(streams, Findings(streams), grid)

\* An incident's timeline starts at its trigger and gives each stream once, in
\* order, by the shortest way findings lead to it (runes/incident.rs).
IncidentRight(made) ==
  /\ made.study = "cascade" => ShortestLags(1, made.findings)
  /\ made.study = "correlate" /\ Len(StreamsOf(made.files)) > 1 =>
       LET streams == StreamsOf(made.files)
           found == Findings(streams)
       IN found # <<>> =>
            Timeline(BuildIncident(streams, TriggersOf(made.files), found, Grid(streams)), Grid(streams))

\* A day is its date and back in every format, the units of a stamp are told
\* apart by its digits, each event falls in one bucket, and a spike stays one
\* when the rest of the stream is as it was (runes/timekey.rs, eatime.rs, anomaly.rs).
TimesRight(made) ==
  made.study = "clock" =>
    CASE made.what = "day" -> Times2000!DaysRight(made.day)
      [] made.what = "stamp" -> Times2000!StampKept(made.format, made.stamp)
      [] made.what = "unit" -> Times2000!UnitsAgree(made.n, made.extra, made.tail)
      [] made.what = "series" ->
           made.epochs # <<>> =>
             /\ Times2000!EachCountedOnce(made.epochs, AutoWidth(Times2000!Span(made.epochs)), 10)
             /\ \A i \in DOMAIN made.epochs : Times2000!WeekdayRight(made.epochs[i])
      [] made.what = "spike" -> Times2000!SpikeStays(made.counts, made.more)

\* What the runes conclude of streams of events, from the stamp on a line to
\* the incident of several files.
StreamsRight == [][CorrelationRight(job') /\ IncidentRight(job') /\ TimesRight(job')]_job

\* A report reads back as it was written, a part that is missing takes only
\* itself along, and two reports compare the same from either side
\* (runes/output.rs, runes/eadiff.rs).
ReportsRight(made) ==
  /\ made.study = "report" =>
       /\ Reports!ReadsBackWhole(made.report)
       /\ \A key \in DOMAIN made.report : Reports!LosesOnly(made.report, key)
  /\ made.study = "compare" =>
       Reports!ComparesEvenly(made.a, made.b) /\ Reports!ComparesToNothing(made.a)

\* The two scans of a CSV file see one table; grouped, it sums up to what its
\* columns do; a predicate parts its rows (runes/eacrunch.rs, grouping.rs,
\* filter.rs).
TablesRight(made) ==
  made.study = "table" =>
    CASE made.what = "text" -> Sheets!ScansAgree(made.text)
      [] made.what = "cells" -> made.table # <<>> => Sheets!TableKept(made.table)
      [] made.what = "parts" -> Sheets!PartsMakeTheWhole(made.text, made.by, made.col, made.where)
      [] made.what = "where" -> Sheets!PredicatesPart(made.text, made.col, made.value)

\* Lines of JSON, walked by the places of their quotes and colons, sum up to
\* what the objects say (runes/eajson_aggregate.rs, storage/jsonl_parse.rs).
LinesRight(made) == made.study = "lines" => Lines!LinesSumUp(made.objects, made.depth)

\* A dump of a database, the footer of a Parquet file, a log and a capture of
\* packets are told as they were written, wherever a window of them ends; a
\* footer cut short is refused, and the host that stands out is named
\* (runes/easql.rs, eaparquet.rs, ealog.rs, eanet.rs, storage/parquet.rs).
FilesRight(made) ==
  /\ made.study = "dump" => Dumps!DumpToldRight(made.dump, made.spare, made.room)
  /\ made.study = "parquet" =>
       IF made.cut = {} THEN Footers!FileToldRight(made.cols, made.groups, made.style, <<1, 2>>)
       ELSE \A n \in made.cut : Footers!CutIsRefused(made.cols, made.groups, made.style, n)
  /\ made.study = "log" => Levels!LogToldRight(made.lines, made.ended)
  /\ made.study = "capture" => Captures!CaptureToldRight(made.packets, made.spare, made.room, made.cut)
  /\ made.study = "scan" => Captures!ScannerStaysNamed(made.fanouts, 9)

\* What a rune makes of a file, and what is kept of that.
SummariesRight == [][ReportsRight(job') /\ TablesRight(job') /\ LinesRight(job') /\ FilesRight(job')]_job

\* What goes over a socket arrives: a frame unmasked, its length in the
\* shortest form, an upload out of its data URL, a body cut anywhere, a string
\* of a message; and a file name never leaves its directory (interface/ws.rs,
\* server_analyze.rs, server_http.rs).
WireKept(made) ==
  made.study = "wire" =>
    CASE made.what = "frame" -> Sockets!FramesKept(1, made.payload, made.mask, made.next)
      [] made.what = "length" -> Sockets!LengthKept(made.n)
      [] made.what = "upload" -> Sockets!UploadKept(made.data, made.url, made.gap)
      [] made.what = "name" -> Sockets!NameIsSafe(made.name)
      [] made.what = "body" -> Sockets!BodyKept(made.body, made.cuts, made.n)
      [] made.what = "string" -> Sockets!StringKept(<<107>>, made.text)

\* No line the guard of the web terminal refuses is run by the shell, however
\* its bytes are spread over calls (interface/pty.rs).
RefusedNeverRuns(made) ==
  made.study = "typing" => Sockets!NothingRefusedRuns(made.calls, {<<97>>, <<97, 98>>})

\* A JSON object reads back as it was written and is refused when cut short or
\* followed by anything, a character is the same in all its forms, and the
\* quick scanner finds what the parser does (storage/json.rs).
JsonRight(made) ==
  made.study = "json" =>
    CASE made.what = "object" -> Texts!ReadsBack(made.obj) /\ \A k \in DOMAIN made.obj.keys : Texts!ScansLikeParse(made.obj, made.obj.keys[k])
      [] made.what = "text" -> Texts!StaysTheSame(made.text) /\ Texts!NothingAfter(made.text, made.more)
      [] made.what = "char" -> Texts!CharKept(made.cp)

\* However a path is written and wherever links lead, a rune reads and a tool
\* touches only what it may; a rune's call means the same wherever its flag
\* stands, a dropped file goes to a rune that reads it, and an answer that is
\* cut says how much it lacks (runes/common.rs, select.rs, core/path_guard.rs).
CallsAllowed(made) ==
  /\ made.study = "path" =>
       /\ Calls!ReadsAllowed(made.disk, made.path)
       /\ \A extra \in {{}, {PathOf(<<"var">>)}} : Calls!GuardHolds(made.disk, made.path, extra)
  /\ made.study = "call" =>
       CASE made.what = "rune" -> Calls!CallRight(made.rune, made.args, CallDisk)
         [] made.what = "drop" -> Calls!DropRight(made.dir, made.stem, <<made.ext>>, <<InCapitals(made.ext)>>, made.magic, made.head, CallDisk)
         [] made.what = "answer" -> Calls!CutRight(made.chars, made.report, 40)

\* What comes over a wire is what was sent, and runs or is read only if it may.
WireRight == [][WireKept(job') /\ RefusedNeverRuns(job') /\ JsonRight(job') /\ CallsAllowed(job')]_job

\* Text is what its tokens decode to, cut by the best scores or merged in the
\* order of the merges, and the next token is drawn by its weight among those
\* the settings keep (inference/tokenizer.rs, tokenizer_gemma4.rs, sample.rs).
TokensChosen(made) ==
  /\ made.study = "tokens" =>
       /\ Words!TextKept(made.t, made.text, made.starts)
       /\ made.what = "scores" => Words!BestCut(made.t, made.text)
       /\ made.what = "merges" => Words!MergesInOrder(made.t, made.text)
  /\ made.study = "draw" => Words!DrawnByWeight(made.logits, made.hot, made.top_k, made.top_p, made.min_p)

\* The file of a model reads as it was written, the last of a name standing for
\* it; cut anywhere it is refused, or has its tensors whole or not at all
\* (inference/gguf.rs).
ModelKept(made) ==
  made.study = "gguf" => Models!FileKept(made.version, made.settings, made.tensors, made.cut)

\* From a model's file to the tokens it reads and writes.
TokensRight == [][TokensChosen(job') /\ ModelKept(job')]_job

\* The ring holds the newest texts, a search gives the best of them, and what
\* is recalled repeats neither the question nor itself and misses nothing else
\* (recall.rs, kernels/search.ea).
Remembered(made) ==
  made.study = "recall" => Ring!RecallRight(Ringed(made.said), made.sim, Louder, made.said, Asked, made.k)

\* A search of the log tells of the words wherever a window of a block ends,
\* and of intact blocks only, the best first (storage/vault.rs, search.rs).
LogSearched(made) ==
  made.study = "search" =>
    CASE made.what = "words" -> Disk!WordsFound(made.text, made.words)
      [] made.what = "log" -> Disk!SearchRight(made.blocks, made.words, made.empty, made.most) /\ Disk!LastRight(made.blocks, made.most)

\* A log is read as it was written, without its end only as far as nothing
\* acknowledged is missing, and with a damaged byte it tells no text that was
\* not said there (storage/vault_format.rs, vault.rs).
LogReadBack(made) ==
  made.study = "format" =>
    LET v == LogOf(made.appends)
        texts == SaidIn(made.appends)
    IN CASE made.what = "log" -> Disk!OpensAsWritten(v, texts)
         [] made.what = "cut" -> Disk!OpensUncut(v, made.cut, texts)
         [] made.what = "damage" -> Disk!ToldDespite(v, made.at, made.byte, texts)
         [] made.what = "full" -> Disk!NoncesOnce(v, Len(made.appends))

\* What was said before is found again.
RecallRight == [][Remembered(job') /\ LogSearched(job') /\ LogReadBack(job')]_job

=============================================================================
