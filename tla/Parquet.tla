-------------------------------- MODULE Parquet --------------------------------
(***************************************************************************)
(* storage/thrift_compact.rs, storage/parquet_meta.rs, storage/parquet.rs  *)
(* and runes/eaparquet.rs: the footer of a Parquet file read field by      *)
(* field, the statistics of its row groups put together column by column.  *)
(*                                                                         *)
(* A file is bytes.  What is read is a set, {} for an error, of a value    *)
(* and the place after it.  Numbers are exact and none is beyond its       *)
(* width, a float is a sign and a magnitude, a decimal its unscaled        *)
(* integer, an instant its second.                                         *)
(***************************************************************************)
EXTENDS Integers, Sequences, SequencesExt, FiniteSets, FiniteSetsExt

CONSTANTS Width32, Width64,    \* bytes of a 4- and of an 8-byte number
          MaxDecimalBytes,     \* of an unscaled integer that is decoded
          TicksPerSecond,      \* of the units of time, 1 to 3
          SecondsPerDay, JulianEpoch

MaxVarintBytes == 10
Magic == <<80>>
RECURSIVE Power(_, _)
Power(b, n) == IF n = 0 THEN 1 ELSE b * Power(b, n - 1)

-----------------------------------------------------------------------------
(* Thrift's compact protocol                                               *)

True == 1
False == 2
I32 == 5
I64 == 6
Binary == 8
List == 9
Struct == 12

ReadByte(b, i) == IF i <= Len(b) THEN {[v |-> b[i], at |-> i + 1]} ELSE {}
RECURSIVE VarintOf(_, _, _)
VarintOf(b, i, most) ==
  UNION {IF most = 0 THEN {} ELSE IF r.v < 128 THEN {r}
         ELSE {[v |-> (r.v - 128) + (128 * q.v), at |-> q.at] : q \in VarintOf(b, r.at, most - 1)} : r \in ReadByte(b, i)}
ReadVarint(b, i) == VarintOf(b, i, MaxVarintBytes)
ReadZigzag(b, i) == {[v |-> IF r.v % 2 = 0 THEN r.v \div 2 ELSE -((r.v + 1) \div 2), at |-> r.at] : r \in ReadVarint(b, i)}
ReadBinary(b, i) ==
  {[v |-> SubSeq(b, r.at, r.at + r.v - 1), at |-> r.at + r.v] : r \in {q \in ReadVarint(b, i) : q.at + q.v <= Len(b) + 1}}
ReadListHeader(b, i) ==
  UNION {LET size == r.v \div 16
             sizes == IF size = 15 THEN ReadVarint(b, r.at) ELSE {[v |-> size, at |-> r.at]}
         IN {[type |-> r.v % 16, n |-> s.v, at |-> s.at] : s \in sizes} : r \in ReadByte(b, i)}
\* The field after one of id last: {} inside is the end of the struct.
ReadFieldHeader(b, i, last) ==
  UNION {LET delta == r.v \div 16
             ids == IF delta # 0 THEN {[v |-> last + delta, at |-> r.at]} ELSE ReadZigzag(b, r.at)
         IN IF r.v = 0 THEN {[field |-> {}, at |-> r.at]}
            ELSE {[field |-> {[id |-> id.v, type |-> r.v % 16]}, at |-> id.at] : id \in ids} : r \in ReadByte(b, i)}

Times(n, Read(_, _), i) == FoldLeft(LAMBDA places, k : UNION {Read(p, k) : p \in places}, {i}, [k \in 1..n |-> k])
Places(read) == {r.at : r \in read}
RECURSIVE SkipValue(_, _, _), SkipStruct(_, _)
\* The places after a value that nobody asked for.
SkipValue(b, i, type) ==
  CASE type \in {0, True, False} -> {i}
    [] type = 3 -> Places(ReadByte(b, i))
    [] type \in {4, I32, I64} -> Places(ReadVarint(b, i))
    [] type = 7 -> {i + Width64} \cap (1..(Len(b) + 1))
    [] type = Binary -> Places(ReadBinary(b, i))
    [] type \in {List, 10} -> UNION {Times(h.n, LAMBDA p, k : SkipValue(b, p, h.type), h.at) : h \in ReadListHeader(b, i)}
    [] type = 11 ->
         UNION {IF n.v = 0 THEN {n.at}
                ELSE UNION {Times(2 * n.v, LAMBDA p, k : SkipValue(b, p, IF k % 2 = 1 THEN kv.v \div 16 ELSE kv.v % 16), kv.at)
                              : kv \in ReadByte(b, n.at)} : n \in ReadVarint(b, i)}
    [] type = Struct -> SkipStruct(b, i)
    [] type > Struct -> {}
SkipStruct(b, i) ==
  UNION {IF h.field = {} THEN {h.at}
         ELSE UNION {UNION {SkipStruct(b, p) : p \in SkipValue(b, h.at, f.type)} : f \in h.field} : h \in ReadFieldHeader(b, i, 0)}

-----------------------------------------------------------------------------
(* The structs of the footer                                               *)

\* What is known of each: a field's id and type, and what it is read as.
Known(id, type, name, as) == [id |-> id, type |-> type, name |-> name, as |-> as]
Shapes ==
  [file |-> {Known(2, List, "schema", "element"), Known(3, I64, "num_rows", "int"), Known(4, List, "row_groups", "group")},
   element |-> {Known(1, I32, "type", "int"), Known(4, Binary, "name", "bytes"), Known(5, I32, "num_children", "int"),
                Known(6, I32, "converted", "int"), Known(7, I32, "scale", "int"), Known(10, Struct, "logical", "logical")},
   logical |-> {Known(5, Struct, "decimal", "decimal"), Known(8, Struct, "timestamp", "timestamp")},
   decimal |-> {Known(1, I32, "scale", "int")},
   timestamp |-> {Known(1, True, "utc", "flag"), Known(1, False, "utc", "flag"), Known(2, Struct, "unit", "unit")},
   unit |-> {Known(id, type, "unit", "id") : id \in 1..3, type \in 0..15},
   group |-> {Known(1, List, "columns", "chunk"), Known(3, I64, "num_rows", "int")},
   chunk |-> {Known(3, Struct, "meta", "meta")},
   meta |-> {Known(1, I32, "type", "int"), Known(3, List, "path", "bytes"), Known(5, I64, "num_values", "int"),
             Known(12, Struct, "statistics", "statistics")},
   statistics |-> {Known(3, I64, "null_count", "int"), Known(5, Binary, "max", "bytes"), Known(6, Binary, "min", "bytes")}]

\* A struct is the known fields of it, in the order they come.
RECURSIVE ReadStruct(_, _, _, _)
ReadOne(b, i, as) ==
  CASE as = "int" -> ReadZigzag(b, i) [] as = "bytes" -> ReadBinary(b, i) [] as \notin {"int", "bytes"} -> ReadStruct(b, i, 0, as)
ReadField(b, i, f, shape) ==
  LET known == {k \in Shapes[shape] : k.id = f.id /\ k.type = f.type}
      k == CHOOSE e \in known : TRUE
      Item(places, n) == UNION {{[v |-> Append(p.v, r.v), at |-> r.at] : r \in ReadOne(b, p.at, k.as)} : p \in places}
      Items(h) == FoldLeft(Item, {[v |-> <<>>, at |-> h.at]}, [n \in 1..h.n |-> n])
      read == CASE k.as = "flag" -> {[v |-> f.type = True, at |-> i]}
                [] k.as = "id" -> {[v |-> f.id, at |-> p] : p \in SkipValue(b, i, f.type)}
                [] f.type = List -> UNION {Items(h) : h \in {g \in ReadListHeader(b, i) : g.type = IF k.as = "bytes" THEN Binary ELSE Struct}}
                [] k.as \notin {"flag", "id"} /\ f.type # List -> ReadOne(b, i, k.as)
  IN IF known = {} THEN {[v |-> <<>>, at |-> p] : p \in SkipValue(b, i, f.type)}
     ELSE {[v |-> <<[name |-> k.name, value |-> r.v]>>, at |-> r.at] : r \in read}
ReadStruct(b, i, last, shape) ==
  UNION {IF h.field = {} THEN {[v |-> <<>>, at |-> h.at]}
         ELSE UNION {UNION {{[v |-> r.v \o rest.v, at |-> rest.at] : rest \in ReadStruct(b, r.at, f.id, shape)}
                              : r \in ReadField(b, h.at, f, shape)} : f \in h.field}
           : h \in ReadFieldHeader(b, i, last)}

\* The last of a field, all of a list's.
Field(s, name) ==
  LET at == {k \in DOMAIN s : s[k].name = name} IN IF at = {} THEN {} ELSE {s[Max(at)].value}
FieldOr(s, name, default) == IF Field(s, name) = {} THEN default ELSE CHOOSE v \in Field(s, name) : TRUE
All(s, name) == FlattenSeq([k \in DOMAIN s |-> IF s[k].name = name THEN s[k].value ELSE <<>>])

-----------------------------------------------------------------------------
(* Statistics                                                              *)

Boolean == 0
Int32 == 1
Int64 == 2
Int96 == 3
Float == 4
Double == 5
ByteArray == 6
FixedLenByteArray == 7
Width == (Boolean :> 1) @@ (Int32 :> Width32) @@ (Int64 :> Width64) @@ (Int96 :> Width64 + Width32)
         @@ (Float :> Width32) @@ (Double :> Width64)
PhysicalType(s) == Field(s, "type") \cap (0..7)

LE(b) == FoldRight(LAMBDA byte, n : byte + (256 * n), b, 0)
Half(b) == Power(2, (8 * Len(b)) - 1)
Signed(n, b) == IF n >= Half(b) THEN n - (2 * Half(b)) ELSE n
Int96ToEpochSeconds(b) ==
  LET nanos == SubSeq(b, 1, Width64)
      day == SubSeq(b, Width64 + 1, Len(b))
  IN ((Signed(LE(day), day) - JulianEpoch) * SecondsPerDay) + (Signed(LE(nanos), nanos) \div TicksPerSecond[3])
DecodeStatValue(pt, b, unsigned) ==
  IF pt \notin DOMAIN Width \/ Len(b) # Width[pt] THEN {}
  ELSE CASE pt = Boolean -> {IF b[1] # 0 THEN 1 ELSE 0}
         [] pt \in {Int32, Int64} -> {IF unsigned THEN LE(b) ELSE Signed(LE(b), b)}
         [] pt \in {Float, Double} -> {IF LE(b) >= Half(b) THEN Half(b) - LE(b) ELSE LE(b)}
         [] pt = Int96 -> {Int96ToEpochSeconds(b)}
DecodeDecimal(pt, b) ==
  CASE pt \in {Int32, Int64} -> IF Len(b) = Width[pt] THEN {Signed(LE(b), b)} ELSE {}
    [] pt \in {ByteArray, FixedLenByteArray} ->
         IF Len(b) \in 1..MaxDecimalBytes THEN {Signed(LE(Reverse(b)), b)} ELSE {}
    [] pt \notin {Int32, Int64, ByteArray, FixedLenByteArray} -> {}

Decimal(scale) == [is |-> "decimal", scale |-> scale]
Timestamp(unit, utc) == [is |-> "timestamp", unit |-> unit, utc |-> utc]
Seconds == 0
\* LogicalType's last member, or the old way to say decimal.
LogicalOf(e) ==
  LET members == FieldOr(e, "logical", <<>>)
      last == members[Len(members)]
  IN IF members # <<>>
     THEN {IF last.name = "decimal" THEN Decimal(FieldOr(last.value, "scale", 0))
           ELSE Timestamp(FieldOr(FieldOr(last.value, "unit", <<>>), "unit", 1), FieldOr(last.value, "utc", FALSE))}
     ELSE IF Field(e, "converted") = {5} THEN {Decimal(FieldOr(e, "scale", 0))} ELSE {}
Unsigned(e) == Field(e, "converted") \subseteq 11..14 /\ Field(e, "converted") # {}

AggregateSummary(file) ==
  LET groups == All(file, "row_groups")
      chunks == FlattenSeq([g \in DOMAIN groups |-> All(groups[g], "columns")])
      metas == [c \in DOMAIN chunks |-> FieldOr(chunks[c], "meta", <<>>)]
      elements == All(file, "schema")
      leaves == SelectSeq(IF elements = <<>> THEN <<>> ELSE Tail(elements), LAMBDA e : FieldOr(e, "num_children", 0) = 0)
      \* What the last leaf of that name says, of those that say it.
      OfName(name, Says(_)) ==
        LET at == {k \in DOMAIN leaves : FieldOr(leaves[k], "name", <<>>) = name /\ Says(leaves[k]) # {}} IN
        IF at = {} THEN {} ELSE Says(leaves[Max(at)])
      TypeOf(m) == IF PhysicalType(m) # {} THEN PhysicalType(m) ELSE OfName(Head(All(m, "path")), PhysicalType)
      named == SelectSeq(metas, LAMBDA m : All(m, "path") # <<>> /\ TypeOf(m) # {})
      Name(m) == Head(All(m, "path"))
      names == FoldLeft(LAMBDA s, m : IF Name(m) \in ToSet(s) THEN s ELSE Append(s, Name(m)), <<>>, named)
      Column(name) ==
        LET of == SelectSeq(named, LAMBDA m : Name(m) = name)
            Pt(m) == CHOOSE t \in TypeOf(m) : TRUE
            logical == IF Pt(of[1]) = Int96 THEN {Timestamp(Seconds, FALSE)} ELSE OfName(name, LogicalOf)
            unsigned == OfName(name, LAMBDA e : IF PhysicalType(e) = {} THEN {} ELSE {Unsigned(e)}) = {TRUE}
            stats == FlattenSeq([k \in DOMAIN of |-> SetToSeq({[pt |-> Pt(of[k]), s |-> s] : s \in Field(of[k], "statistics")})])
            Decoded(st, which) ==
              UNION {IF \E l \in logical : l.is = "decimal" THEN DecodeDecimal(st.pt, b) ELSE DecodeStatValue(st.pt, b, unsigned)
                       : b \in Field(st.s, which)}
            Bounds(which) == UNION {Decoded(stats[k], which) : k \in DOMAIN stats}
            nulls == FlattenSeq([k \in DOMAIN stats |-> SetToSeq(Field(stats[k].s, "null_count"))])
        IN [name |-> name, pt |-> Pt(of[1]), logical |-> logical,
            total_values |-> FoldLeft(LAMBDA n, m : n + FieldOr(m, "num_values", 0), 0, of),
            null_count |-> IF nulls = <<>> THEN {} ELSE {FoldLeft(LAMBDA n, v : n + v, 0, nulls)},
            min |-> IF Bounds("min") = {} THEN {} ELSE {Min(Bounds("min"))},
            max |-> IF Bounds("max") = {} THEN {} ELSE {Max(Bounds("max"))}]
  IN IF groups = <<>> THEN {}
     ELSE {[num_rows |-> FieldOr(file, "num_rows", 0), num_row_groups |-> Len(groups),
            columns |-> [k \in DOMAIN names |-> Column(names[k])]]}

\* No length is read that is below zero.
ReadSummary(b) ==
  LET m == Len(Magic)
      foot == Len(b) - m - Width32
      length == LE(SubSeq(b, foot + 1, foot + Width32))
  IN IF \/ Len(b) < (2 * m) + Width32
        \/ SubSeq(b, 1, m) # Magic \/ SubSeq(b, Len(b) - m + 1, Len(b)) # Magic \/ length > foot
     THEN {}
     ELSE UNION {AggregateSummary(r.v) : r \in ReadStruct(SubSeq(b, foot - length + 1, foot), 1, 0, "file")}

AtLeast0(n) == Max({n, 0})
Extent(c) == IF c.min = {} \/ c.max = {} THEN {} ELSE {<<lo, hi>> : lo \in c.min, hi \in c.max}
\* What is shown of a column.  The unit 0 is that of seconds.
ColumnToField(c) ==
  LET Instant(l, t) == IF l.unit = Seconds THEN t ELSE t \div TicksPerSecond[l.unit]
      field == [name |-> c.name, count |-> AtLeast0(c.total_values), null_count |-> {AtLeast0(n) : n \in c.null_count}]
  IN CASE \E l \in c.logical : l.is = "timestamp" ->
            field @@ [kind |-> "timestamp", range |-> {[k \in 1..2 |-> Instant(l, r[k])] : l \in c.logical, r \in Extent(c)}]
       [] \E l \in c.logical : l.is = "decimal" -> field @@ [kind |-> "number", range |-> Extent(c)]
       [] c.logical = {} ->
            field @@ CASE c.pt = Boolean -> [kind |-> "bool", range |-> {}]
                       [] c.pt \in {Int32, Int64, Float, Double} -> [kind |-> "number", range |-> Extent(c)]
                       [] c.pt \in {ByteArray, FixedLenByteArray} -> [kind |-> "text", range |-> {}]
BuildOutput(b) ==
  {[rows |-> AtLeast0(s.num_rows), fields |-> [k \in DOMAIN s.columns |-> ColumnToField(s.columns[k])]] : s \in ReadSummary(b)}

-----------------------------------------------------------------------------
(* Files as other programs write them                                      *)

RECURSIVE Varint(_)
Varint(n) == IF n < 128 THEN <<n>> ELSE <<128 + (n % 128)>> \o Varint(n \div 128)
Zigzag(n) == Varint(IF n >= 0 THEN 2 * n ELSE (-2 * n) - 1)
RECURSIVE LittleEndian(_, _)
LittleEndian(n, w) == IF w = 0 THEN <<>> ELSE <<n % 256>> \o LittleEndian(n \div 256, w - 1)

F(id, type, bytes) == [id |-> id, type |-> type, bytes |-> bytes]
\* A struct of fields in the order of their ids, in one of two forms, with a
\* field that no reader knows after the rest.
WrittenStruct(fields, style) ==
  LET all == Append(fields, F(99, style.extra.type, style.extra.bytes))
      Before(k) == IF k = 1 THEN 0 ELSE all[k - 1].id
      Header(k) == LET delta == all[k].id - Before(k) IN
                   IF style.long \/ delta \notin 1..15 THEN <<all[k].type>> \o Zigzag(all[k].id) ELSE <<(16 * delta) + all[k].type>>
  IN Append(FlattenSeq([k \in DOMAIN all |-> Header(k) \o all[k].bytes]), 0)
WrittenList(type, items, style) ==
  (IF style.long \/ Len(items) > 14 THEN <<(16 * 15) + type>> \o Varint(Len(items)) ELSE <<(16 * Len(items)) + type>>) \o FlattenSeq(items)
WrittenBytes(b) == Varint(Len(b)) \o b

\* A value as its column's type writes it.
WrittenValue(col, v) ==
  CASE col.pt \in {Float, Double} -> LittleEndian(IF v < 0 THEN Power(2, (8 * Width[col.pt]) - 1) - v ELSE v, Width[col.pt])
    [] col.pt = Int96 ->
         LittleEndian((v % SecondsPerDay) * TicksPerSecond[3], Width64) \o LittleEndian((v \div SecondsPerDay) + JulianEpoch, Width32)
    [] col.pt \in {ByteArray, FixedLenByteArray} -> Reverse(LittleEndian(v, MaxDecimalBytes))
    [] col.pt \in {Boolean, Int32, Int64} -> LittleEndian(v, Width[col.pt])
UnitId == [millis |-> 1, micros |-> 2, nanos |-> 3]
\* How a schema says what a column's numbers mean.
WrittenLogical(col, style) ==
  LET Member(id, fields) == <<F(10, Struct, WrittenStruct(<<F(id, Struct, WrittenStruct(fields, style))>>, style))>> IN
  CASE col.means = "decimal" -> Member(5, <<F(1, I32, Zigzag(2)), F(2, I32, Zigzag(9))>>)
    [] col.means \in DOMAIN UnitId ->
         Member(8, <<F(1, True, <<>>), F(2, Struct, WrittenStruct(<<F(UnitId[col.means], Struct, WrittenStruct(<<>>, style))>>, style))>>)
    [] col.means = "unsigned" -> <<F(6, I32, Zigzag(13))>>
    [] col.means = "old decimal" -> <<F(6, I32, Zigzag(5)), F(7, I32, Zigzag(2))>>
    [] col.means = "itself" -> <<>>
WrittenElement(col, style) ==
  LET said == WrittenLogical(col, style) IN
  WrittenStruct(<<F(1, I32, Zigzag(col.pt)), F(4, Binary, WrittenBytes(col.name))>> \o said, style)
\* A column's values in one group, nulls among them, with or without their
\* statistics.
WrittenChunk(col, part, style) ==
  LET stats == <<F(3, I64, Zigzag(part.nulls))>>
               \o IF part.values = {} THEN <<>>
                  ELSE <<F(5, Binary, WrittenBytes(WrittenValue(col, Max(part.values)))),
                         F(6, Binary, WrittenBytes(WrittenValue(col, Min(part.values))))>>
      meta == <<F(1, I32, Zigzag(col.pt)), F(3, List, WrittenList(Binary, <<WrittenBytes(col.name)>>, style)),
                F(5, I64, Zigzag(part.nulls + Cardinality(part.values)))>>
              \o IF part.told THEN <<F(12, Struct, WrittenStruct(stats, style))>> ELSE <<>>
  IN WrittenStruct(<<F(3, Struct, WrittenStruct(meta, style))>>, style)
\* A file of columns and of groups, each with a part of every column.
WrittenFooter(cols, groups, style) ==
  LET root == WrittenStruct(<<F(4, Binary, WrittenBytes(<<114>>)), F(5, I32, Zigzag(Len(cols)))>>, style)
      Columns(g) == [c \in DOMAIN cols |-> WrittenChunk(cols[c], groups[g][c], style)]
      Rows(g) == groups[g][1].nulls + Cardinality(groups[g][1].values)
  IN WrittenStruct(<<F(1, I32, Zigzag(2)),
                     F(2, List, WrittenList(Struct, <<root>> \o [c \in DOMAIN cols |-> WrittenElement(cols[c], style)], style)),
                     F(3, I64, Zigzag(FoldLeft(LAMBDA n, g : n + Rows(g), 0, [g \in DOMAIN groups |-> g]))),
                     F(4, List, WrittenList(Struct, [g \in DOMAIN groups |->
                       WrittenStruct(<<F(1, List, WrittenList(Struct, Columns(g), style)), F(3, I64, Zigzag(Rows(g)))>>, style)], style))>>,
                   style)
WrittenFile(footer, data) == Magic \o data \o footer \o LittleEndian(Len(footer), Width32) \o Magic

\* Every way to write a file tells the same of it: each column's values and
\* nulls, the least and the greatest of those that statistics are kept of, as
\* the numbers they are.
FileToldRight(cols, groups, style, data) ==
  LET out == BuildOutput(WrittenFile(WrittenFooter(cols, groups, style), data))
      Told(c) == {g \in DOMAIN groups : groups[g][c].told}
      Sum(S, Of(_)) == MapThenSumSet(Of, S)
      Shown(col, v) == IF col.means \in DOMAIN UnitId THEN v \div TicksPerSecond[UnitId[col.means]] ELSE v
      Expected(c) ==
        LET col == cols[c]
            values == UNION {groups[g][c].values : g \in Told(c)}
        IN [name |-> col.name,
            count |-> Sum(DOMAIN groups, LAMBDA g : groups[g][c].nulls + Cardinality(groups[g][c].values)),
            null_count |-> IF Told(c) = {} THEN {} ELSE {Sum(Told(c), LAMBDA g : groups[g][c].nulls)},
            kind |-> CASE col.means \in DOMAIN UnitId \/ col.pt = Int96 -> "timestamp" [] col.pt = Boolean -> "bool"
                       [] col.pt \in {ByteArray, FixedLenByteArray} /\ col.means = "itself" -> "text" [] OTHER -> "number",
            range |-> IF values = {} \/ (col.means = "itself" /\ col.pt \in {Boolean, ByteArray, FixedLenByteArray}) THEN {}
                      ELSE {<<Shown(col, Min(values)), Shown(col, Max(values))>>}]
  IN IF groups = <<>> THEN out = {} ELSE \E o \in out : o.fields = [c \in DOMAIN cols |-> Expected(c)]
\* No file is read whose footer was cut short.
CutIsRefused(cols, groups, style, n) ==
  LET footer == WrittenFooter(cols, groups, style) IN
  n < Len(footer) => BuildOutput(WrittenFile(SubSeq(footer, 1, n), <<>>)) = {}

=============================================================================
