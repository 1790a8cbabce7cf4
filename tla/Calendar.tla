------------------------------- MODULE Calendar -------------------------------
(***************************************************************************)
(* Time stamps and what is counted by them: timekey.rs decodes the         *)
(* grammars of time stamps to seconds since 2000, eatime.rs counts by      *)
(* hour, by weekday and in a series of buckets, and anomaly.rs finds the   *)
(* buckets that stand out.                                                 *)
(*                                                                         *)
(* A time stamp is its fields, a field that is not digits being Bad; the   *)
(* separators between them are right or the stamp does not match.          *)
(***************************************************************************)
EXTENDS Integers, Sequences, SequencesExt, FiniteSets, FiniteSetsExt

Bad == -1
Day == 86400

-----------------------------------------------------------------------------
(* timekey.rs                                                              *)

IsLeap(y) == (y % 4 = 0 /\ y % 100 # 0) \/ y % 400 = 0
DaysOf(years) == 365 * Cardinality(years) + Cardinality({y \in years : IsLeap(y)})
MonthDays == <<31, 28, 31, 30, 31, 30, 31, 31, 30, 31, 30, 31>>

DaysSince2000(y, m, d) ==
  (IF y >= 2000 THEN DaysOf(2000..(y - 1)) ELSE -DaysOf(y..1999))
  + MapThenSumSet(LAMBDA i : MonthDays[i], 1..(m - 1))
  + (IF m > 2 /\ IsLeap(y) THEN 1 ELSE 0) + d - 1

\* civil_from_days: the year of 400 years' days, counted from March.
Era(z) == IF z >= 0 THEN z \div 146097 ELSE -((146096 - z) \div 146097)
CivilFromDays(days) ==
  LET z == days + 719468
      doe == z - Era(z) * 146097
      yoe == (doe - doe \div 1460 + doe \div 36524 - doe \div 146096) \div 365
      doy == doe - (365 * yoe + yoe \div 4 - yoe \div 100)
      mp == (5 * doy + 2) \div 153
      m == IF mp < 10 THEN mp + 3 ELSE mp - 9
  IN <<yoe + Era(z) * 400 + IF m <= 2 THEN 1 ELSE 0, m, doy - (153 * mp + 2) \div 5 + 1>>

Formats == {"iso", "clf", "syslog", "apache", "hdfs"}
SyslogYear == 2024
Legible(f, parts) == \A p \in parts : f[p] # Bad
WithoutYear == {"month", "day", "hour", "minute", "second"}
AllParts == WithoutYear \cup {"year"}

\* The ranges every decoder asks for: a day is not asked to be in its month.
\* A month that is a name is out of range when no month is called so.
InRange(f) ==
  f.month \in 1..12 /\ f.day \in 1..31 /\ f.hour <= 23 /\ f.minute <= 59 /\ f.second <= 60
Clock(year, f) ==
  IF InRange(f)
  THEN {DaysSince2000(year, f.month, f.day) * Day + f.hour * 3600 + f.minute * 60 + f.second} ELSE {}

IsoToSeconds(f) == IF Legible(f, AllParts) THEN Clock(f.year, f) ELSE {}
ClfToSeconds(f) == IF Legible(f, AllParts) THEN Clock(f.year, f) ELSE {}
SyslogToSeconds(f) == IF Legible(f, WithoutYear) THEN Clock(SyslogYear, f) ELSE {}
ApacheToSeconds(f) == IF Legible(f, AllParts) THEN Clock(f.year, f) ELSE {}
HdfsToSeconds(f) == IF Legible(f, AllParts) THEN Clock(2000 + f.year, f) ELSE {}
ToSeconds(format, f) ==
  CASE format = "iso" -> IsoToSeconds(f) [] format = "clf" -> ClfToSeconds(f)
    [] format = "syslog" -> SyslogToSeconds(f) [] format = "apache" -> ApacheToSeconds(f)
    [] format = "hdfs" -> HdfsToSeconds(f)

\* div_euclid and rem_euclid; TLA+'s are the same for a positive divisor.
SecondsToIso(s) ==
  LET c == CivilFromDays(s \div Day + 10957)
      tod == s % Day
  IN [year |-> c[1], month |-> c[2], day |-> c[3], hour |-> tod \div 3600,
      minute |-> (tod % 3600) \div 60, second |-> tod % 60]

\* A number of a JSON log: its digits up to the first that is none, and no
\* more than 19; how many there are tells the unit.  An i64 that overflows is
\* no time.
Number(digits) == FoldLeft(LAMBDA acc, d : acc * 10 + d, 0, digits)
MaxI64 == <<9, 2, 2, 3, 3, 7, 2, 0, 3, 6, 8, 5, 4, 7, 7, 5, 8, 0, 7>>
Exceeds(s, t) ==
  Len(s) = Len(t) /\ \E i \in DOMAIN s : s[i] > t[i] /\ \A j \in 1..(i - 1) : s[j] = t[j]
Digits(s) ==
  LET stops == {i \in DOMAIN s : s[i] = Bad} IN
  SubSeq(s, 1, Min({19, IF stops = {} THEN Len(s) ELSE Min(stops) - 1}))
Dropped(n) == CASE n <= 11 -> 0 [] n \in 12..14 -> 3 [] n \in 15..17 -> 6 [] n > 17 -> 9
UnixTo2000 == 10957 * Day
JsonEpochToSeconds(s) ==
  LET d == Digits(s) IN
  IF d = <<>> \/ Exceeds(d, MaxI64) THEN {}
  ELSE {Number(SubSeq(d, 1, Len(d) - Dropped(Len(d)))) - UnixTo2000}

-----------------------------------------------------------------------------
(* eatime.rs                                                               *)

HourBuckets(epochs) ==
  [h \in 0..23 |-> Cardinality({i \in DOMAIN epochs : (epochs[i] % Day) \div 3600 = h})]

\* Monday is 0; 2000-01-01 was a Saturday.
WeekdayIndex(epoch) == (((epoch \div Day) % 7) + 5) % 7
WeekdayBuckets(epochs) ==
  [w \in 0..6 |-> Cardinality({i \in DOMAIN epochs : WeekdayIndex(epochs[i]) = w})]

\* A width from the rungs of auto_width, unless it leaves too many buckets.
SeriesWidth(span, auto, limit) == IF span \div auto + 1 > limit THEN span \div limit + 1 ELSE auto
Span(epochs) == Max(Range(epochs)) - Min(Range(epochs))
SeriesBuckets(epochs, auto, limit) ==
  LET lo == Min(Range(epochs))
      width == SeriesWidth(Span(epochs), auto, limit)
  IN IF epochs = <<>> THEN [lo |-> 0, width |-> 1, counts |-> <<>>]
     ELSE [lo |-> lo, width |-> width,
           counts |-> [b \in 1..(Span(epochs) \div width + 1) |->
                         Cardinality({i \in DOMAIN epochs : (epochs[i] - lo) \div width = b - 1})]]

-----------------------------------------------------------------------------
(* anomaly.rs.  Medians are kept twofold and deviations fourfold, so that  *)
(* both are whole.                                                         *)

MinBuckets == 8
MinAbsSpike == 10
RatioThreshold == 3

Twice(sorted) == LET n == Len(sorted) IN sorted[(n + 1) \div 2] + sorted[n \div 2 + 1]
Median2(counts) == Twice(SortSeq(counts, <))
MedianDev4(counts) ==
  LET m2 == Median2(counts) IN
  Twice(SortSeq([i \in DOMAIN counts |-> IF 2 * counts[i] < m2 THEN m2 - 2 * counts[i] ELSE 2 * counts[i] - m2], <))

Baseline2(counts) == Median2(counts)

\* Four robust deviations (1.4826 times the median one) above the baseline, or
\* over a flat one three times it and ten more.
IsSpike(counts, i) ==
  LET m2 == Baseline2(counts)
      d4 == MedianDev4(counts)
      over2 == 2 * counts[i] - m2
  IN /\ Len(counts) >= MinBuckets
     /\ over2 > 0
     /\ IF d4 > 0 THEN 5000 * over2 >= 14826 * d4
        ELSE over2 >= 2 * MinAbsSpike /\ (m2 = 0 \/ 2 * counts[i] >= RatioThreshold * m2)
Detect(counts) == SelectSeq([i \in DOMAIN counts |-> i], LAMBDA i : IsSpike(counts, i))

-----------------------------------------------------------------------------
(* What it is checked against                                              *)

\* The calendar itself: the day after a day.
LastOf(y, m) == IF m = 2 /\ IsLeap(y) THEN 29 ELSE MonthDays[m]
NextDay(c) ==
  CASE c[3] < LastOf(c[1], c[2]) -> <<c[1], c[2], c[3] + 1>>
    [] c[3] = LastOf(c[1], c[2]) /\ c[2] < 12 -> <<c[1], c[2] + 1, 1>>
    [] c[3] = LastOf(c[1], c[2]) /\ c[2] = 12 -> <<c[1] + 1, 1, 1>>
DaysRight(z) ==
  LET c == CivilFromDays(z) IN
  /\ CivilFromDays(z + 1) = NextDay(c)
  /\ DaysSince2000(c[1], c[2], c[3]) + 10957 = z

\* An instant reads back from the form it is written in, in every grammar, as
\* long as its day is in its month and its second is none that leaps.
YearOf(format, f) ==
  CASE format = "syslog" -> SyslogYear [] format = "hdfs" -> 2000 + f.year [] OTHER -> f.year
InMonth(format, f) == f.day <= LastOf(YearOf(format, f), f.month) /\ f.second < 60
StampKept(format, f) ==
  \A s \in ToSeconds(format, f) :
    InMonth(format, f) => SecondsToIso(s) = [f EXCEPT !.year = YearOf(format, f)]

\* The same second in any unit.
RECURSIVE Written(_)
Written(n) == IF n < 10 THEN <<n>> ELSE Append(Written(n \div 10), n % 10)
UnitsAgree(n, extra, tail) ==
  Len(Written(n)) \in 9..11 =>
    JsonEpochToSeconds(Written(n) \o [i \in 1..extra |-> i % 10] \o tail) = {n - UnixTo2000}

\* Every event is counted once, where it is; the series is not too long.
EachCountedOnce(epochs, auto, limit) ==
  LET series == SeriesBuckets(epochs, auto, limit)
      sum == FoldLeft(LAMBDA a, b : a + b, 0, series.counts)
  IN /\ MapThenSumSet(LAMBDA h : HourBuckets(epochs)[h], 0..23) = Len(epochs)
     /\ MapThenSumSet(LAMBDA w : WeekdayBuckets(epochs)[w], 0..6) = Len(epochs)
     /\ sum = Len(epochs) /\ Len(series.counts) <= limit
     /\ \A i \in DOMAIN epochs : \E b \in DOMAIN series.counts :
          epochs[i] \in (series.lo + (b - 1) * series.width)..(series.lo + b * series.width - 1)
\* 1970-01-01 was a Thursday.
WeekdayRight(epoch) == WeekdayIndex(epoch) = ((epoch \div Day) + 10957 + 3) % 7

\* "a large spike cannot inflate its own baseline": a spike that grows is one
\* still, and it takes no other spike's place.
SpikeStays(counts, more) ==
  \A i \in DOMAIN counts :
    IsSpike(counts, i) =>
      LET grown == [counts EXCEPT ![i] = @ + more] IN
      IsSpike(grown, i) /\ Range(Detect(counts)) = Range(Detect(grown))

=============================================================================
