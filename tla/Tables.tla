-------------------------------- MODULE Tables --------------------------------
(***************************************************************************)
(* runes/eacrunch.rs, runes/grouping.rs, runes/filter.rs: a CSV file       *)
(* summarised column by column, or grouped by one of its columns, each     *)
(* over the rows a predicate keeps.                                        *)
(*                                                                         *)
(* The file is bytes.  A cell is {} where its row is too short.  Numbers   *)
(* are whole, a mean is a sum and how many it is over.                     *)
(***************************************************************************)
EXTENDS Integers, Sequences, SequencesExt, FiniteSets, FiniteSetsExt

CONSTANTS SniffRows,   \* data rows that decide what a column holds
          TextCap,     \* distinct texts counted in a column
          TopN,        \* of them shown
          MaxGroups    \* distinct keys before grouping refuses

Quote == 34
Comma == 44
Newline == 10
White == {32, 9, 13, Newline}

Cell(row, c) == IF c \in DOMAIN row THEN {row[c]} ELSE {}
FirstOf(S) == IF S = {} THEN {} ELSE {Min(S)}
\* Vec::position
Position(names, name) == FirstOf({c \in DOMAIN names : names[c] = name})

\* str::trim
Trimmed(text) ==
  LET dark == {i \in DOMAIN text : text[i] \notin White} IN
  IF dark = {} THEN <<>> ELSE SubSeq(text, Min(dark), Max(dark))
\* A pair of quotes inside is one.
Undoubled(text) ==
  LET pairs == FoldLeftDomain(LAMBDA seen, i : IF /\ i < Len(text) /\ text[i] = Quote /\ text[i + 1] = Quote
                                                  /\ (i - 1) \notin seen THEN seen \cup {i} ELSE seen, {}, text)
  IN FlattenSeq([i \in DOMAIN text |-> IF i \in pairs THEN <<>> ELSE <<text[i]>>])
Unquote(text) ==
  IF Len(text) >= 2 /\ Head(text) = Quote /\ Last(text) = Quote
  THEN Undoubled(SubSeq(text, 2, Len(text) - 1)) ELSE text
Clean(raw) == Unquote(Trimmed(raw))

\* str::parse::<f64>, of digits and of "nan".
NaNText == <<110, 97, 110>>
Value(text) ==
  CASE text = NaNText -> {[finite |-> FALSE]}
    [] text # <<>> /\ \A i \in DOMAIN text : text[i] \in 48..57 ->
         {[finite |-> TRUE, v |-> FoldLeft(LAMBDA n, d : (10 * n) + (d - 48), 0, text)]}
    [] text # NaNText /\ (text = <<>> \/ \E i \in DOMAIN text : text[i] \notin 48..57) -> {}
Finite(text) == {n.v : n \in {w \in Value(text) : w.finite}}

-----------------------------------------------------------------------------
(* The two scans                                                           *)

\* kernels/csv_scan.ea
QuotesBefore(text, i) == Cardinality({j \in 1..i : text[j] = Quote})
CsvScan(text, b) ==
  SelectSeq([i \in DOMAIN text |-> i], LAMBDA i : text[i] = b /\ QuotesBefore(text, i) % 2 = 0)
RowEnds(text) ==
  LET newlines == CsvScan(text, Newline) IN
  newlines \o IF newlines = <<>> \/ Last(newlines) < Len(text) THEN <<Len(text) + 1>> ELSE <<>>
Pieces(text, from, cuts) ==
  [k \in DOMAIN cuts |-> SubSeq(text, IF k = 1 THEN from ELSE cuts[k - 1] + 1, cuts[k] - 1)]
\* rows_fields
Grid(text) ==
  LET ends == RowEnds(text)
      commas == CsvScan(text, Comma)
      Start(r) == IF r = 1 THEN 1 ELSE ends[r - 1] + 1
  IN [r \in DOMAIN ends |->
        Pieces(text, Start(r), Append(SelectSeq(commas, LAMBDA c : c >= Start(r) /\ c < ends[r]), ends[r]))]

\* kernels/csv_groupby_scan.ea, for all columns at once.
ScanByte(text, st, i) ==
  LET b == text[i]
      quoted == IF b = Quote THEN ~st.quoted ELSE st.quoted
      row == Append(st.row, SubSeq(text, st.start, i - 1))
  IN CASE quoted \/ b \notin {Comma, Newline} -> [st EXCEPT !.quoted = quoted]
       [] ~quoted /\ b = Comma -> [st EXCEPT !.row = row, !.start = i + 1]
       [] ~quoted /\ b = Newline ->
            [st EXCEPT !.rows = Append(@, row), !.row = <<>>, !.start = i + 1, !.row_start = i + 1]
GroupbyScan(text) ==
  LET end == FoldLeftDomain(LAMBDA st, i : ScanByte(text, st, i),
                            [quoted |-> FALSE, rows |-> <<>>, row |-> <<>>, start |-> 1, row_start |-> 1], text)
  IN IF end.row_start <= Len(text) THEN Append(end.rows, Append(end.row, SubSeq(text, end.start, Len(text)))) ELSE end.rows

ParseHeader(bytes) ==
  LET stop == Min({i \in DOMAIN bytes : bytes[i] = Newline /\ QuotesBefore(bytes, i) % 2 = 0} \cup {Len(bytes) + 1})
      raw == Pieces(bytes, 1, Append(SelectSeq(CsvScan(bytes, Comma), LAMBDA i : i < stop), stop))
  IN [c \in DOMAIN raw |-> Clean(raw[c])]

-----------------------------------------------------------------------------
(* What is asked                                                           *)

\* In the order they are looked for.
Operators == <<<<62, 61>>, <<60, 61>>, <<33, 61>>, <<62>>, <<60>>, <<61>>>>
Find(s, token) == FirstOf({i \in 1..(Len(s) - Len(token) + 1) : SubSeq(s, i, i + Len(token) - 1) = token})
ParsePredicate(arg) ==
  LET s == Trimmed(arg)
      found == SelectSeq(Operators, LAMBDA token : Find(s, token) # {})
      Parts(token, at) == [col |-> Trimmed(SubSeq(s, 1, at - 1)), op |-> token,
                           value |-> Trimmed(SubSeq(s, at + Len(token), Len(s)))]
  IN IF found = <<>> THEN {}
     ELSE {p \in {Parts(found[1], at) : at \in Find(s, found[1])} : p.col # <<>> /\ p.value # <<>>}
Matches(pred, cell) ==
  CASE pred.op = <<61>> -> cell = pred.value
    [] pred.op = <<33, 61>> -> cell # pred.value
    [] pred.op \notin {<<61>>, <<33, 61>>} ->
         \E c \in Finite(cell), v \in Finite(pred.value) :
           CASE pred.op = <<62>> -> c > v [] pred.op = <<62, 61>> -> c >= v
             [] pred.op = <<60>> -> c < v [] pred.op = <<60, 61>> -> c <= v

\* The tokens of --agg: {} is nothing between commas.
AggOps == {"count", "sum", "mean", "min", "max"}
ParseAggSpecs(tokens) ==
  LET asked == SelectSeq(tokens, LAMBDA t : t # {})
      specs == [i \in DOMAIN asked |-> CHOOSE t \in asked[i] : TRUE]
  IN IF /\ specs # <<>>
        /\ \A i \in DOMAIN specs : specs[i].op \in AggOps /\ (specs[i].op = "count" \/ specs[i].col # <<>>)
     THEN {specs} ELSE {}

ColumnMissing(headers, pred) == \E p \in pred : Position(headers, p.col) = {}
\* A row too short for the predicate's column is not kept.
Keeps(headers, pred, row) ==
  \A p \in pred : \E c \in Position(headers, p.col) : \E cell \in Cell(row, c) : Matches(p, Clean(cell))
Refused == [ok |-> FALSE]

-----------------------------------------------------------------------------
(* Grouping                                                                *)

\* What ColAcc has been told of.
ColAcc(values) ==
  [n |-> Len(values), sum |-> FoldLeft(LAMBDA s, v : s + v, 0, values),
   least |-> FirstOf(ToSet(values)), most |-> IF values = <<>> THEN {} ELSE {Max(ToSet(values))}]
Aggregate(op, count, acc) ==
  CASE op = "count" -> {count} [] op = "sum" -> {acc.sum} [] op = "min" -> acc.least [] op = "max" -> acc.most
    [] op = "mean" -> IF acc.n > 0 THEN {<<acc.sum, acc.n>>} ELSE {}
\* The finite numbers of a column, over rows that have them.
NumbersIn(rows, c) ==
  FlattenSeq([r \in DOMAIN rows |-> SetToSeq(UNION {Finite(Clean(cell)) : cell \in Cell(rows[r], c)})])

\* Bytes in order, as strings are.
Before(s, t) ==
  \/ \E i \in DOMAIN s \cap DOMAIN t : s[i] < t[i] /\ \A j \in 1..(i - 1) : s[j] = t[j]
  \/ IsStrictPrefix(s, t)
\* The most first, then by name.
Ahead(a, b) == a.count > b.count \/ (a.count = b.count /\ Before(a.key, b.key))
Ranked(S) == SetToSortSeq(S, Ahead)

KeyOf(row, c) == {Clean(cell) : cell \in Cell(row, c)}
BuildGroups(bytes, by, specs, pred) ==
  LET headers == ParseHeader(bytes)
      scanned == GroupbyScan(bytes)
      ColumnOf(spec) == IF spec.op = "count" THEN {} ELSE Position(headers, spec.col)
      by_col == CHOOSE c \in Position(headers, by) : TRUE
      matched == SelectSeq(Tail(scanned), LAMBDA row : Keeps(headers, pred, row))
      keys == UNION {KeyOf(matched[r], by_col) : r \in DOMAIN matched}
      Group(key) ==
        LET rows == SelectSeq(matched, LAMBDA row : KeyOf(row, by_col) = {key})
            Of(spec) == IF ColumnOf(spec) = {} THEN <<>> ELSE NumbersIn(rows, CHOOSE c \in ColumnOf(spec) : TRUE)
            Agg(spec) == [op |-> spec.op, col |-> spec.col, value |-> Aggregate(spec.op, Len(rows), ColAcc(Of(spec)))]
        IN [key |-> key, count |-> Len(rows), aggs |-> [i \in DOMAIN specs |-> Agg(specs[i])]]
  IN IF \/ Position(headers, by) = {} \/ ColumnMissing(headers, pred)
        \/ \E i \in DOMAIN specs : specs[i].op # "count" /\ ColumnOf(specs[i]) = {}
        \/ Len(scanned) < 2 \/ Cardinality(keys) > MaxGroups
     THEN Refused
     ELSE [ok |-> TRUE, rows |-> Len(matched), groups |-> Ranked({Group(key) : key \in keys})]

-----------------------------------------------------------------------------
(* Column by column                                                        *)

SniffsNumeric(rows, c) ==
  LET sniffed == SubSeq(rows, 1, Min({SniffRows, Len(rows)}))
      ok == SelectSeq(sniffed, LAMBDA row : \E cell \in Cell(row, c) : Value(Clean(cell)) # {})
  IN Len(ok) * 100 >= Len(sniffed) * 75

\* text_tops: a new text is left out once TextCap are counted.
CountText(tops, text) ==
  CASE text \in DOMAIN tops -> [tops EXCEPT ![text] = @ + 1]
    [] text \notin DOMAIN tops /\ Cardinality(DOMAIN tops) < TextCap ->
         [t \in DOMAIN tops \cup {text} |-> IF t = text THEN 1 ELSE tops[t]]
    [] text \notin DOMAIN tops /\ Cardinality(DOMAIN tops) >= TextCap -> tops
TextTops(rows, c) ==
  FoldLeft(LAMBDA tops, row : FoldSet(LAMBDA cell, t : CountText(t, Clean(cell)), tops, Cell(row, c)), <<>>, rows)

NumberField(name, values) == [name |-> name, kind |-> "number", acc |-> ColAcc(values)]
TextField(name, tops) ==
  LET ranked == Ranked({[key |-> t, count |-> tops[t]] : t \in DOMAIN tops}) IN
  [name |-> name, kind |-> "text", count |-> FoldLeft(LAMBDA n, t : n + t.count, 0, ranked),
   unique |-> Len(ranked), top |-> SubSeq(ranked, 1, Min({TopN, Len(ranked)}))]

BuildOutput(bytes, pred) ==
  LET grid == Grid(bytes)
      data == Tail(grid)
      headers == [c \in DOMAIN grid[1] |-> Clean(grid[1][c])]
      kept == SelectSeq(data, LAMBDA row : Keeps(headers, pred, row))
      Field(c) == IF SniffsNumeric(data, c) THEN NumberField(headers[c], NumbersIn(kept, c))
                  ELSE TextField(headers[c], TextTops(kept, c))
  IN IF bytes = <<>> \/ Len(grid) < 2 \/ ColumnMissing(headers, pred) THEN Refused
     ELSE [ok |-> TRUE, rows |-> Len(kept), fields |-> [c \in DOMAIN headers |-> Field(c)]]

\* execute: args has where, by and agg, each {} or its value; what by and agg
\* ask for is refused before the file is opened.
Execute(args, bytes) ==
  LET specs == IF args.agg = {} THEN {<<>>} ELSE UNION {ParseAggSpecs(t) : t \in args.agg}
      pred == UNION {ParsePredicate(s) : s \in args.where}
  IN IF (args.agg # {} /\ args.by = {}) \/ specs = {} \/ (args.where # {} /\ pred = {}) \/ bytes = <<>> THEN Refused
     ELSE IF args.by = {} THEN BuildOutput(bytes, pred)
     ELSE BuildGroups(bytes, CHOOSE b \in args.by : TRUE, CHOOSE s \in specs : TRUE, pred)

-----------------------------------------------------------------------------
(* Checked against                                                         *)

\* The two scans see one table, and its header.
ScansAgree(text) ==
  text # <<>> => GroupbyScan(text) = Grid(text) /\ ParseHeader(text) = [c \in DOMAIN Grid(text)[1] |-> Clean(Grid(text)[1][c])]

\* A table written as RFC 4180 has it is read back.
WrittenCell(cell) ==
  IF \E i \in DOMAIN cell : cell[i] \in {Quote, Comma, Newline}
  THEN <<Quote>> \o FlattenSeq([i \in DOMAIN cell |-> IF cell[i] = Quote THEN <<Quote, Quote>> ELSE <<cell[i]>>]) \o <<Quote>>
  ELSE cell
WrittenRow(row) ==
  FlattenSeq([c \in DOMAIN row |-> (IF c = 1 THEN <<>> ELSE <<Comma>>) \o WrittenCell(row[c])]) \o <<13, Newline>>
WrittenTable(table) == FlattenSeq([r \in DOMAIN table |-> WrittenRow(table[r])])
TableKept(table) ==
  LET grid == Grid(WrittenTable(table)) IN
  [r \in DOMAIN grid |-> [c \in DOMAIN grid[r] |-> Clean(grid[r][c])]] = table

\* Both ways of looking at a file tell the same of it: as many rows, the sums
\* and extremes of the groups those of the column, the texts of a column the
\* groups of it.
AskAll(col) == <<{[op |-> "sum", col |-> col]}, {}, {[op |-> "min", col |-> col]}, {[op |-> "max", col |-> col]},
                 {[op |-> "mean", col |-> col]}, {[op |-> "count", col |-> <<>>]}>>
PartsMakeTheWhole(text, by, col, where) ==
  LET whole == Execute([where |-> where, by |-> {}, agg |-> {}], text)
      parts == Execute([where |-> where, by |-> {by}, agg |-> {AskAll(col)}], text)
      names == [c \in DOMAIN whole.fields |-> whole.fields[c].name]
      field == whole.fields[CHOOSE c \in Position(names, col) : TRUE]
      keyField == whole.fields[CHOOSE c \in Position(names, by) : TRUE]
      Told(i) == UNION {parts.groups[g].aggs[i].value : g \in DOMAIN parts.groups}
      Total(F(_)) == FoldLeft(LAMBDA s, g : s + F(g), 0, parts.groups)
      everyKeyed == Total(LAMBDA g : g.count) = whole.rows
  IN whole.ok /\ parts.ok =>
       /\ parts.rows = whole.rows
       /\ \A g \in DOMAIN parts.groups : parts.groups[g].aggs[5].value = {parts.groups[g].count}
       /\ field.kind = "number" /\ everyKeyed =>
            /\ Total(LAMBDA g : CHOOSE v \in g.aggs[1].value : TRUE) = field.acc.sum
            /\ Total(LAMBDA g : FoldSet(LAMBDA m, n : m[2] + n, 0, g.aggs[4].value)) = field.acc.n
            /\ FirstOf(Told(2)) = field.acc.least
            /\ field.acc.most = IF Told(3) = {} THEN {} ELSE {Max(Told(3))}
       /\ keyField.kind = "text" =>
            \/ Len(parts.groups) > TextCap
            \/ /\ keyField.count = Total(LAMBDA g : g.count) /\ keyField.unique = Len(parts.groups)
               /\ keyField.top = [g \in 1..Min({TopN, Len(parts.groups)}) |->
                                    [key |-> parts.groups[g].key, count |-> parts.groups[g].count]]

\* = and != part the rows that have the column, < and >= those whose cell is a
\* number.
RowsKept(text, where) == Execute([where |-> {where}, by |-> {}, agg |-> {}], text)
PredicatesPart(text, col, value) ==
  LET Kept(token) == RowsKept(text, col \o token \o value)
      c == CHOOSE k \in Position(ParseHeader(text), col) : TRUE
      having == SelectSeq(Tail(Grid(text)), LAMBDA row : c \in DOMAIN row)
  IN text # <<>> /\ Position(ParseHeader(text), col) # {} /\ Len(Grid(text)) > 1 =>
       /\ Kept(<<61>>).rows + Kept(<<33, 61>>).rows = Len(having)
       /\ Finite(value) # {} =>
            Kept(<<60>>).rows + Kept(<<62, 61>>).rows = Len(NumbersIn(having, c))

=============================================================================
