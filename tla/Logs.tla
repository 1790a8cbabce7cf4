--------------------------------- MODULE Logs ---------------------------------
(***************************************************************************)
(* runes/ealog.rs with kernels/log_level_scan.ea: how many lines of a log  *)
(* speak of what severity, and the first of the worst.                     *)
(*                                                                         *)
(* The log is a sequence of symbols: a character, by its code, or a word   *)
(* in any case, by a number above them.                                    *)
(***************************************************************************)
EXTENDS Integers, Sequences, SequencesExt, FiniteSets, FiniteSetsExt

CONSTANTS MaxHighSeveritySamples,
          SampleLineTruncate,   \* symbols shown of a line
          FormatPrefix          \* symbols that tell the format

Newline == 10
CarriageReturn == 13
Brace == 123
Delimiters == {32, Newline, 9, CarriageReturn, 91, 93, 34, 58}
LevelKey == 150     \* "level" or "severity", quoted
\* The tier of each word; the long spellings share one with the short.
Tiers == <<"DEBUG", "INFO", "WARN", "ERROR", "FATAL">>
TierOf == (128 :> "DEBUG") @@ (129 :> "INFO") @@ (130 :> "WARN") @@ (131 :> "WARN") @@ (132 :> "ERROR")
          @@ (133 :> "FATAL") @@ (134 :> "FATAL")
High == {"ERROR", "FATAL"}

LogLevelScan(text) ==
  LET Bounded(p) == /\ p = 1 \/ text[p - 1] \in Delimiters
                    /\ p = Len(text) \/ text[p + 1] \in Delimiters
      hits == SelectSeq([p \in DOMAIN text |-> p], LAMBDA p : text[p] \in DOMAIN TierOf /\ Bounded(p))
      high == SelectSeq(hits, LAMBDA p : TierOf[text[p]] \in High)
  IN [counts |-> [t \in ToSet(Tiers) |-> Cardinality({p \in ToSet(hits) : TierOf[text[p]] = t})],
      newlines |-> Cardinality({p \in DOMAIN text : text[p] = Newline}),
      positions |-> SubSeq(high, 1, Min({MaxHighSeveritySamples, Len(high)}))]

\* The line around a place, and its number.
ExtractLineAt(text, p) ==
  LET before == {i \in 1..(p - 1) : text[i] = Newline}
      after == {i \in p..Len(text) : text[i] = Newline}
  IN [n |-> Cardinality(before) + 1, line |-> SubSeq(text, Max(before \cup {0}) + 1, Min(after \cup {Len(text) + 1}) - 1)]
TruncateLine(line) ==
  LET shown == {i \in DOMAIN line : line[i] # CarriageReturn}
      trimmed == SubSeq(line, 1, Max(shown \cup {0}))
  IN [text |-> SubSeq(trimmed, 1, Min({SampleLineTruncate, Len(trimmed)})), cut |-> Len(trimmed) > SampleLineTruncate]

\* Lines of JSON if most of the complete lines start so and a level is named.
DetectFormat(text) ==
  LET head == SubSeq(text, 1, Min({FormatPrefix, Len(text)}))
      ends == {i \in DOMAIN head : head[i] = Newline}
      StartOf(e) == Max({d \in ends \cup {0} : d < e}) + 1
      First(e) == {head[i] : i \in {j \in StartOf(e)..(e - 1) : head[j] \notin {32, 9} /\ \A k \in StartOf(e)..(j - 1) : head[k] \in {32, 9}}}
      braced == {e \in ends : First(e) = {Brace}}
  IN IF ends # {} /\ 2 * Cardinality(braced) > Cardinality(ends) /\ LevelKey \in ToSet(head) THEN "jsonl" ELSE "plaintext"

\* One sample a line.
BuildOutput(text) ==
  LET scan == LogLevelScan(text)
      found == [k \in DOMAIN scan.positions |-> [offset |-> scan.positions[k]] @@ ExtractLineAt(text, scan.positions[k])]
      fresh == SelectSeq([k \in DOMAIN found |-> k], LAMBDA k : \A j \in 1..(k - 1) : found[j].n # found[k].n)
  IN [format |-> DetectFormat(text),
      rows |-> scan.newlines + IF text # <<>> /\ Last(text) # Newline THEN 1 ELSE 0,
      categories |-> [k \in DOMAIN Tiers |-> [name |-> Tiers[k], count |-> scan.counts[Tiers[k]]]],
      samples |-> [k \in DOMAIN fresh |-> [byte_offset |-> found[fresh[k]].offset, line |-> found[fresh[k]].n]
                                          @@ TruncateLine(found[fresh[k]].line)]]

-----------------------------------------------------------------------------
\* A line's words, parted by what is between words.
WordsIn(line) ==
  LET marks == {0, Len(line) + 1} \cup {i \in DOMAIN line : line[i] \in Delimiters}
      starts == SetToSortSeq(marks \ {Len(line) + 1}, <)
  IN [k \in DOMAIN starts |-> SubSeq(line, starts[k] + 1, Min({m \in marks : m > starts[k]}) - 1)]
\* Each word of each line is counted once in its tier; samples are of the
\* first lines that have a high one, none passed over, none twice, each with
\* its own text; and lines that end one log and start the next add up.
LogToldRight(lines, ended) ==
  LET text == FlattenSeq([k \in DOMAIN lines |-> lines[k] \o IF k < Len(lines) \/ ended THEN <<Newline>> ELSE <<>>])
      Said(k, tiers) == {i \in DOMAIN WordsIn(lines[k]) : \E w \in DOMAIN TierOf : WordsIn(lines[k])[i] = <<w>> /\ TierOf[w] \in tiers}
      Sum(tiers) == MapThenSumSet(LAMBDA k : Cardinality(Said(k, tiers)), DOMAIN lines)
      high == {k \in DOMAIN lines : Said(k, High) # {}}
      out == BuildOutput(text)
      shown == {out.samples[k].line : k \in DOMAIN out.samples}
  IN /\ \A k \in DOMAIN Tiers : out.categories[k] = [name |-> Tiers[k], count |-> Sum({Tiers[k]})]
     /\ shown \subseteq high /\ Cardinality(shown) = Len(out.samples) /\ (high # {} => shown # {})
     /\ \A k \in high, n \in shown : k < n => k \in shown
     /\ (Sum(High) <= MaxHighSeveritySamples => shown = high)
     /\ \A k \in DOMAIN out.samples :
          /\ IsPrefix(out.samples[k].text, lines[out.samples[k].line])
          /\ text[out.samples[k].byte_offset] \in {w \in DOMAIN TierOf : TierOf[w] \in High}
          /\ ~out.samples[k].cut => out.samples[k].text \o <<CarriageReturn>> = lines[out.samples[k].line] \o <<CarriageReturn>>
                                     \/ Last(lines[out.samples[k].line]) = CarriageReturn
     /\ out.rows = Len(lines) - IF lines # <<>> /\ ~ended /\ Last(lines) = <<>> THEN 1 ELSE 0
     /\ out.format = "jsonl" => LevelKey \in ToSet(text) /\ Brace \in ToSet(text)

=============================================================================
