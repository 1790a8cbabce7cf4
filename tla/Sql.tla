---------------------------------- MODULE Sql ----------------------------------
(***************************************************************************)
(* runes/easql.rs with kernels/sql_scan.ea: a dump of a database summed up *)
(* from the words its statements start with, wherever the sweep's windows  *)
(* end.                                                                    *)
(*                                                                         *)
(* The dump is a sequence of symbols: a character, by its code, or a piece *)
(* of a word, by a number above them.  CREATE, INSERT and COPY are two     *)
(* pieces each, so that a window may end inside one.                       *)
(***************************************************************************)
EXTENDS Integers, Sequences, SequencesExt, FiniteSets, FiniteSetsExt

CONSTANTS TopTables,     \* tables shown
          SniffedPrefix  \* symbols that tell the dialect

Newline == 10
White == {32, 9, Newline, 13}
Quote == 39
Open == 40
Close == 41
Comma == 44
Dot == 46
Semicolon == 59
Backslash == 92
Backtick == 96
\* What ends a name that starts with it.
Closer == (34 :> 34) @@ (Backtick :> Backtick) @@ (91 :> 93)

Create == <<128, 129>>
Insert == <<130, 131>>
Copy == <<132, 133>>
Table == <<134>>
Into == <<135>>
IfNotExists == <<<<136>>, <<137>>, <<138>>>>
Values == <<139>>
FromStdin == <<140, 32, 141>>
Fingerprint == 142        \* any of what only pg_dump writes
InWord(s) == s > 127 \/ s \in (97..122) \cup {95}

Starts(text, p, word) == p + Len(word) - 1 <= Len(text) /\ SubSeq(text, p, p + Len(word) - 1) = word
FirstFrom(text, p, S) == Min({i \in p..Len(text) : text[i] \in S} \cup {Max({p, Len(text) + 1})})

-----------------------------------------------------------------------------
(* The sweep                                                               *)

\* sql_scan: where the three words stand in a window, between white space,
\* as many as there is room for.
SqlScan(window, room) ==
  LET Bounded(p, word) ==
        /\ p = 1 \/ window[p - 1] \in White
        /\ Starts(window, p, word) /\ (p + Len(word) > Len(window) \/ window[p + Len(word)] \in White)
      found == SelectSeq([p \in DOMAIN window |-> p], LAMBDA p : \E word \in {Create, Insert, Copy} : Bounded(p, word))
  IN SubSeq(found, 1, Min({room, Len(found)}))

\* A window ends after its last newline, if it has one and is not the last.
WindowEnd(text, start, chunk) ==
  LET end == Min({start + chunk - 1, Len(text)})
      newlines == {i \in start..end : text[i] = Newline}
  IN IF end < Len(text) /\ newlines # {} THEN Max(newlines) ELSE end

\* The markers of all windows.  One with no room left is swept again from
\* after its last marker.
RECURSIVE Markers(_, _, _, _)
Markers(text, start, chunk, room) ==
  IF start > Len(text) THEN <<>>
  ELSE LET end == WindowEnd(text, start, chunk)
           found == SqlScan(SubSeq(text, start, end), room)
           here == [k \in DOMAIN found |-> start + found[k] - 1]
       IN here \o Markers(text, IF Len(found) = room THEN Last(here) + 1 ELSE end + 1, chunk, room)

-----------------------------------------------------------------------------
(* What stands at a marker                                                 *)

StartsWord(text, p, word) == Starts(text, p, word)
WordIs(text, p, word) == Starts(text, p, word) /\ (p + Len(word) > Len(text) \/ ~InWord(text[p + Len(word)]))
SkipWs(text, p) == Min({i \in p..Len(text) : text[i] \notin White} \cup {Max({p, Len(text) + 1})})
SkipKw(text, p, word) == SkipWs(text, p + Len(word))
\* All of the phrase, or nothing.
SkipOptional(text, p, phrase) ==
  LET Skip(q, word) == IF q # 0 /\ WordIs(text, q, word) THEN SkipKw(text, q, word) ELSE 0
      past == FoldLeft(Skip, SkipWs(text, p), phrase)
  IN IF past = 0 THEN p ELSE past

\* The last part of a name that may be quoted and qualified, and where it ends.
RECURSIVE Ident(_, _, _)
Ident(text, i, leaf) ==
  LET Bare == IF leaf < i THEN {[name |-> SubSeq(text, leaf, i - 1), end |-> i]} ELSE {} IN
  IF i > Len(text) THEN Bare
  ELSE CASE text[i] \in DOMAIN Closer ->
              LET close == FirstFrom(text, i + 1, {Closer[text[i]]}) IN
              IF close < Len(text) /\ text[close + 1] = Dot THEN Ident(text, close + 2, close + 2)
              ELSE {[name |-> SubSeq(text, i + 1, close - 1), end |-> close + 1]}
         [] text[i] = Dot -> Ident(text, i + 1, i + 1)
         [] text[i] \in White \cup {Open, Semicolon} -> Bare
         [] OTHER -> Ident(text, i + 1, leaf)
ReadIdent(text, p) == LET at == SkipWs(text, p) IN IF at > Len(text) THEN {} ELSE Ident(text, at, at)

\* One symbol of a statement, in or out of a string.  A doubled quote ends
\* the string and starts it again, which is as good as skipping both.
Step(st, s) ==
  CASE s = Quote -> [st EXCEPT !.quoted = ~@]
    [] st.quoted -> st
    [] OTHER ->
         CASE s = Open -> [st EXCEPT !.depth = @ + 1, !.groups = IF st.depth = 0 THEN @ + 1 ELSE @]
           [] s = Close -> [st EXCEPT !.depth = IF @ > 0 THEN @ - 1 ELSE 0]
           [] s = Comma /\ st.depth = 1 -> [st EXCEPT !.commas = @ + 1]
           [] s = Semicolon /\ st.depth = 0 -> [st EXCEPT !.over = TRUE]
           [] OTHER -> st
\* From p on, until Done.
Walk(text, p, Done(_)) ==
  LET start == [quoted |-> FALSE, depth |-> 0, groups |-> 0, commas |-> 0, over |-> FALSE, end |-> p]
      Next(st, s) == IF Done(st) THEN st ELSE [Step(st, s) EXCEPT !.end = st.end + 1]
  IN FoldLeft(Next, start, SubSeq(text, p, Len(text)))
AtGroup(text, p) == p <= Len(text) /\ text[p] = Open
GroupFrom(text, p) == Walk(text, p, LAMBDA st : st.groups = 1 /\ st.depth = 0)

CountColumns(text, p) ==
  LET at == SkipWs(text, p) IN IF AtGroup(text, at) THEN GroupFrom(text, at).commas + 1 ELSE 0
\* The list of columns before VALUES is none of the rows.
CountInsertRows(text, p) ==
  LET at == SkipWs(text, p)
      rows == IF AtGroup(text, at) THEN GroupFrom(text, at).end ELSE at
  IN Walk(text, rows, LAMBDA st : st.over).groups
\* Lines after the header's, up to one that starts with \.
CountCopyRows(text, p) ==
  LET header == FirstFrom(text, FirstFrom(text, p, {Semicolon, Newline}), {Newline})
      marks == {i \in (header + 1)..(Len(text) - 1) : /\ text[i - 1] = Newline /\ text[i] = Backslash
                                                      /\ text[i + 1] = Dot}
      end == Min(marks \cup {Len(text) + 1})
  IN Cardinality({i \in (header + 1)..(end - 1) : text[i] = Newline})

-----------------------------------------------------------------------------
(* The summary                                                             *)

Register(sum, name) ==
  IF name \in DOMAIN sum.rows THEN sum ELSE [sum EXCEPT !.order = Append(@, name), !.rows = (name :> 0) @@ @]
AddRows(sum, name, n) == [Register(sum, name) EXCEPT !.rows[name] = @ + n]

\* What a marker adds.
Nibble(text, sum, p) ==
  CASE WordIs(text, p, Create) ->
         LET table == SkipKw(text, p, Create)
             ids == ReadIdent(text, SkipOptional(text, SkipKw(text, table, Table), IfNotExists))
         IN IF ~WordIs(text, table, Table) \/ ids = {} THEN sum
            ELSE LET id == CHOOSE i \in ids : TRUE IN
                 [Register(sum, id.name) EXCEPT !.cols = (id.name :> CountColumns(text, id.end)) @@ @]
    [] WordIs(text, p, Insert) ->
         LET into == SkipKw(text, p, Insert)
             ids == ReadIdent(text, SkipKw(text, into, Into))
         IN IF ~WordIs(text, into, Into) \/ ids = {} THEN sum
            ELSE LET id == CHOOSE i \in ids : TRUE IN AddRows(sum, id.name, CountInsertRows(text, id.end))
    [] WordIs(text, p, Copy) ->
         LET ids == ReadIdent(text, SkipKw(text, p, Copy))
             seen == [sum EXCEPT !.saw_copy = TRUE]
         IN IF ids = {} THEN seen
            ELSE LET id == CHOOSE i \in ids : TRUE IN AddRows(seen, id.name, CountCopyRows(text, id.end))
    [] OTHER -> sum

DetectDialect(text, saw_copy) ==
  LET head == ToSet(SubSeq(text, 1, Min({SniffedPrefix, Len(text)}))) IN
  CASE saw_copy -> "postgres" [] ~saw_copy /\ Backtick \in head -> "mysql"
    [] ~saw_copy /\ Backtick \notin head -> IF Fingerprint \in head THEN "postgres" ELSE "sql"

\* The most rows first, then by name.
Before(s, t) == IsStrictPrefix(s, t) \/ \E i \in DOMAIN s \cap DOMAIN t : s[i] < t[i] /\ \A j \in 1..(i - 1) : s[j] = t[j]
ByRows(rows) == SortSeq(SetToSeq(DOMAIN rows), LAMBDA a, b : rows[a] > rows[b] \/ (rows[a] = rows[b] /\ Before(a, b)))
BuildOutput(text, chunk, room) ==
  LET none == [order |-> <<>>, rows |-> <<>>, cols |-> <<>>, saw_copy |-> FALSE]
      sum == FoldLeft(LAMBDA s, p : Nibble(text, s, p), none, Markers(text, 1, chunk, room))
      most == ByRows(sum.rows)
      declared == SelectSeq(sum.order, LAMBDA name : name \in DOMAIN sum.cols)
  IN IF text = <<>> THEN [success |-> FALSE]
     ELSE [success |-> TRUE, format |-> DetectDialect(text, sum.saw_copy), rows |-> MapThenSumSet(LAMBDA t : sum.rows[t], DOMAIN sum.rows),
           categories |-> [k \in 1..Min({TopTables, Len(most)}) |-> [name |-> most[k], count |-> sum.rows[most[k]]]],
           samples |-> [k \in DOMAIN declared |-> [table |-> declared[k], cols |-> sum.cols[declared[k]]]]]

-----------------------------------------------------------------------------
(* Dumps as the tools write them                                           *)

Joined(parts, s) == IF parts = <<>> THEN <<>> ELSE Tail(FlattenSeq([i \in DOMAIN parts |-> <<s>> \o parts[i]]))
Group(parts) == <<Open>> \o Joined(parts, Comma) \o <<Close>>
\* A statement names its table in one way, and lists columns or does not.
Written(st) ==
  CASE st.what = "create" ->
         Create \o <<32>> \o Table \o <<32>> \o (IF st.careful THEN Joined(IfNotExists, 32) \o <<32>> ELSE <<>>) \o st.named
         \o <<32>> \o Group(st.columns) \o <<Semicolon, Newline>>
    [] st.what = "insert" ->
         Insert \o <<32>> \o Into \o <<32>> \o st.named \o <<32>> \o st.listed \o Values \o <<32>>
         \o Joined([r \in DOMAIN st.rows |-> Group(st.rows[r])], Comma) \o <<Semicolon, Newline>>
    [] st.what = "copy" ->
         Copy \o <<32>> \o st.named \o <<32>> \o FromStdin \o <<Semicolon, Newline>>
         \o FlattenSeq([r \in DOMAIN st.rows |-> st.rows[r] \o <<Newline>>]) \o <<Backslash, Dot, Newline>>
    [] st.what = "note" -> st.text \o <<Newline>>
WrittenDump(dump) == FlattenSeq([i \in DOMAIN dump |-> Written(dump[i])])

LongestLine(text) ==
  LET ends == {0} \cup {i \in DOMAIN text : text[i] = Newline} IN
  Max({Min({e \in ends : e > b}) - b : b \in ends \ {Max(ends)}})

\* A dump is told as it was meant: the rows of every table, its columns as
\* last declared, its tables in the order they come up; and where the windows
\* end makes no difference, as long as each holds a line.
DumpToldRight(dump, spare, room) ==
  LET text == WrittenDump(dump)
      Of(what) == {i \in DOMAIN dump : dump[i].what \in what}
      tables == {dump[i].table : i \in Of({"create", "insert", "copy"})}
      rows == [t \in tables |-> MapThenSumSet(LAMBDA i : Len(dump[i].rows), {i \in Of({"insert", "copy"}) : dump[i].table = t})]
      declared == {t \in tables : \E i \in Of({"create"}) : dump[i].table = t}
      FirstUse(t) == Min({i \in Of({"create", "insert", "copy"}) : dump[i].table = t})
      Declaration(t) == dump[Max({i \in Of({"create"}) : dump[i].table = t})]
      Right(out) ==
        /\ out.success /\ out.rows = MapThenSumSet(LAMBDA t : rows[t], tables)
        /\ Len(out.categories) = Min({TopTables, Cardinality(tables)})
        /\ \A k \in DOMAIN out.categories :
             /\ out.categories[k].count = rows[out.categories[k].name]
             /\ \A t \in tables \ {out.categories[j].name : j \in 1..k} : rows[t] <= out.categories[k].count
        /\ {out.samples[k].table : k \in DOMAIN out.samples} = declared
        /\ \A k \in DOMAIN out.samples :
             /\ out.samples[k].cols = Len(Declaration(out.samples[k].table).columns)
             /\ \A j \in 1..(k - 1) : FirstUse(out.samples[j].table) < FirstUse(out.samples[k].table)
        /\ out.format = "postgres" <=> Of({"copy"}) # {} \/ (Backtick \notin ToSet(text) /\ Fingerprint \in ToSet(text))
  IN text # <<>> => Right(BuildOutput(text, LongestLine(text) + spare, room))

=============================================================================
