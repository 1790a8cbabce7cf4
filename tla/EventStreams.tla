---------------------------- MODULE EventStreams ----------------------------
(***************************************************************************)
(* The cross-file correlation of src/runes: stream.rs and substream.rs     *)
(* turn logs into streams of event times, eacorrelate.rs puts them on one  *)
(* grid and finds which follows which, incident.rs tells it as a timeline. *)
(*                                                                         *)
(* Streams are numbered in the order of their names.  A correlation is     *)
(* kept as the fraction r * r, exactly, instead of a rounded f64; only     *)
(* positive ones are ever reported.  Pearson's r is that of the counts:    *)
(* standardising them first, as the code does, changes no r.               *)
(***************************************************************************)
EXTENDS Integers, Sequences, SequencesExt, FiniteSets, FiniteSetsExt

CONSTANTS
  NiceWidths,                \* auto_width's rungs, ascending
  TargetBuckets, MaxLagBuckets, MaxLagSeconds,
  MinOverlap, MinEvents, TopK,
  TriggerMaxEvents, TriggerSparsity, MinDropBuckets, MinAbsDrop, MinHorizon

ASSUME EventStreamsAssumption ==
  /\ NiceWidths \in Seq(Nat \ {0}) /\ NiceWidths # <<>>
  /\ {TargetBuckets, MaxLagBuckets, MaxLagSeconds, TriggerSparsity} \subseteq Nat \ {0}
  /\ {MinOverlap, MinEvents, TopK, TriggerMaxEvents, MinDropBuckets, MinAbsDrop,
      MinHorizon} \subseteq Nat

Total(f, S) == MapThenSumSet(LAMBDA i : f[i], S)
Magnitude(n) == IF n < 0 THEN -n ELSE n
\* Division of i64, which rounds toward zero.
Quotient(a, b) == IF a < 0 THEN -((-a) \div b) ELSE a \div b

-----------------------------------------------------------------------------
(* stream.rs                                                               *)

AutoWidth(span) ==
  LET raw == span \div TargetBuckets
      fits == {i \in DOMAIN NiceWidths : NiceWidths[i] >= raw}
  IN CASE span <= 0 -> 1
       [] span > 0 -> NiceWidths[IF fits = {} THEN Len(NiceWidths) ELSE Min(fits)]

\* The quantile k/4 of sorted times, at the index rounded half up.
Quantile(sorted, k) == sorted[((Len(sorted) - 1) * k * 2 + 4) \div 8 + 1]

\* Far outliers do not stretch the grid.
FullRange(sorted) == [lo |-> sorted[1], hi |-> Last(sorted)]
RobustBounds(sorted) ==
  LET q1 == Quantile(sorted, 1)
      q3 == Quantile(sorted, 3)
      iqr == q3 - q1
  IN IF iqr = 0 THEN FullRange(sorted)
     ELSE [lo |-> Max({sorted[1], q1 - 3 * iqr}), hi |-> Min({Last(sorted), q3 + 3 * iqr})]

-----------------------------------------------------------------------------
(* substream.rs: an error belongs to the last time stamp at or before it,  *)
(* and a line counts once.  Positions ascend; time[i] is NoTime where the  *)
(* i-th stamp does not decode.                                             *)

NoTime == -1
Stamp(stamps, at) == Cardinality({i \in DOMAIN stamps : stamps[i] <= at})

MapToEpochs(stamps, times, errors) ==
  LET stampOf == [k \in DOMAIN errors |-> Stamp(stamps, errors[k])]
      Fresh(k) == stampOf[k] > 0 /\ (k = 1 \/ stampOf[k - 1] # stampOf[k])
      lines == SelectSeq([k \in DOMAIN errors |-> k], Fresh)
  IN SelectSeq([l \in DOMAIN lines |-> times[stampOf[lines[l]]]], LAMBDA t : t # NoTime)

-----------------------------------------------------------------------------
(* eacorrelate.rs                                                          *)

\* Files of few events give triggers instead of streams.
StreamsOf(files) ==
  FlattenSeq([f \in DOMAIN files |->
    IF Len(files[f].events) < MinEvents THEN <<>>
    ELSE <<[name |-> files[f].name, file |-> f, events |-> files[f].events]>>
         \o (IF Len(files[f].errors) < MinEvents THEN <<>>
             ELSE <<[name |-> files[f].name + 1, file |-> f, events |-> files[f].errors]>>)])
TriggersOf(files) ==
  FlattenSeq([f \in DOMAIN files |->
    IF Len(files[f].events) \in 1..(MinEvents - 1) THEN files[f].events ELSE <<>>])

\* bucket_series: the counts of a stream on the grid, buckets from 0.
BucketOf(e, grid) == Quotient(e - grid.lo, grid.width)
Counts(events, grid) ==
  [b \in 0..(grid.n - 1) |->
     Cardinality({k \in DOMAIN events : BucketOf(events[k], grid) = b})]
Flat(counts) == \A b, c \in DOMAIN counts : counts[b] = counts[c]

Pooled(streams) == SortSeq(FlattenSeq([s \in DOMAIN streams |-> streams[s].events]), <)
Grid(streams) ==
  LET bounds == RobustBounds(Pooled(streams))
      width == AutoWidth(bounds.hi - bounds.lo)
  IN [lo |-> bounds.lo, span |-> bounds.hi - bounds.lo, width |-> width,
      n |-> (bounds.hi - bounds.lo) \div width + 1]

MaxLag(grid) ==
  Max({0, Min({MaxLagBuckets, grid.n - 1, grid.n \div 4,
               Max({1, MaxLagSeconds \div grid.width})})})

\* corr_sweep and pearson_at_lag: a[k + lag] against b[k], where both are.
Zero == [num |-> 0, den |-> 1]
PearsonAt(a, b, n, lag) ==
  LET offA == IF lag >= 0 THEN lag ELSE 0
      offB == IF lag >= 0 THEN 0 ELSE -lag
      m == n - Magnitude(lag)
      S == 0..(m - 1)
      sumA == Total([k \in S |-> a[k + offA]], S)
      sumB == Total([k \in S |-> b[k + offB]], S)
      varA == m * Total([k \in S |-> a[k + offA] * a[k + offA]], S) - sumA * sumA
      varB == m * Total([k \in S |-> b[k + offB] * b[k + offB]], S) - sumB * sumB
      cov == m * Total([k \in S |-> a[k + offA] * b[k + offB]], S) - sumA * sumB
  IN IF m < MinOverlap \/ sumA < MinEvents \/ sumB < MinEvents
        \/ varA = 0 \/ varB = 0 \/ cov <= 0
     THEN Zero ELSE [num |-> cov * cov, den |-> varA * varB]

AtMost(r, q) == r.num * q.den <= q.num * r.den
Strong(r) == 4 * r.num >= r.den
Lower(r, q) == IF AtMost(r, q) THEN r ELSE q

\* The follower comes first: the lag from the leader to it is not negative.
Directed(i, j, lag) ==
  IF lag >= 0 THEN [a |-> i, b |-> j, lag |-> lag] ELSE [a |-> j, b |-> i, lag |-> -lag]

\* The bucket of the follower where the aligned product peaks first.
PeakBucket(a, b, n, lag) ==
  LET S == 0..(n - 1)
      Product(i) == (n * a[i + lag] - Total(a, S)) * (n * b[i] - Total(b, S))
      aligned == 0..(n - lag - 1)
  IN lag + Min({i \in aligned : \A k \in aligned : Product(k) <= Product(i)})

Finding(streams, series, grid, i, j) ==
  LET lags == -MaxLag(grid)..MaxLag(grid)
      score == [l \in lags |-> PearsonAt(series[i], series[j], grid.n, l)]
      best == Max({l \in lags : \A k \in lags : AtMost(score[k], score[l])})
      d == Directed(i, j, best)
  IN [follower |-> streams[d.a].name, leader |-> streams[d.b].name,
      lag |-> d.lag * grid.width, score |-> score[best],
      peak |-> grid.lo + PeakBucket(series[d.a], series[d.b], grid.n, d.lag) * grid.width]

Before(x, y) ==
  IF AtMost(x.score, y.score) /\ AtMost(y.score, x.score)
  THEN x.follower < y.follower \/ (x.follower = y.follower /\ x.leader < y.leader)
  ELSE AtMost(y.score, x.score)

Findings(streams) ==
  LET grid == Grid(streams)
      series == [s \in DOMAIN streams |-> Counts(streams[s].events, grid)]
      pairs == {p \in (DOMAIN streams) \X (DOMAIN streams) :
                  p[1] < p[2] /\ streams[p[1]].file # streams[p[2]].file
                  /\ ~Flat(series[p[1]]) /\ ~Flat(series[p[2]])}
      found == {f \in {Finding(streams, series, grid, p[1], p[2]) : p \in pairs} :
                  Strong(f.score)}
      sorted == SetToSortSeq(found, Before)
  IN IF Cardinality({streams[s].file : s \in DOMAIN streams}) < 2 \/ grid.span <= 0
     THEN <<>> ELSE SubSeq(sorted, 1, Min({TopK, Len(sorted)}))

-----------------------------------------------------------------------------
(* incident.rs                                                             *)

\* walk_cascade: relax every edge as often as there are edges.
Relaxed(reached, f) ==
  LET leader == {r \in reached : r.name = f.leader}
      follower == {r \in reached : r.name = f.follower}
      l == CHOOSE r \in leader : TRUE
      via == [name |-> f.follower, lag |-> l.lag + f.lag, score |-> Lower(l.score, f.score)]
  IN IF leader # {} /\ \A r \in follower : via.lag < r.lag
     THEN (reached \ follower) \cup {via} ELSE reached

\* A path is as sure as its weakest link.
One == [num |-> 1, den |-> 1]
OneRound(findings) == findings
Rounds(findings) == FlattenSeq([k \in DOMAIN findings |-> findings])
Reached(root, findings) ==
  FoldLeft(Relaxed, {[name |-> root, lag |-> 0, score |-> One]}, Rounds(findings))

Sooner(x, y) == x.lag < y.lag \/ (x.lag = y.lag /\ x.name < y.name)
Step(name, lag, kind, score) == [name |-> name, lag |-> lag, kind |-> kind, score |-> score]
WalkCascade(root, findings) ==
  {Step(r.name, r.lag, "correlated", r.score) :
     r \in {q \in Reached(root, findings) : q.name # root}}

\* The leader that never follows and has the fewest events, or else the leader
\* of the strongest finding.
EventsOf(streams, name) ==
  Len(streams[CHOOSE s \in DOMAIN streams : streams[s].name = name].events)
Root(streams, findings) ==
  LET leaders == {findings[k].leader : k \in DOMAIN findings}
      sources == leaders \ {findings[k].follower : k \in DOMAIN findings}
      Fewest(n) == \A m \in sources : EventsOf(streams, n) <= EventsOf(streams, m)
  IN IF sources = {} THEN findings[1].leader ELSE Min({n \in sources : Fewest(n)})

IsTrigger(streams, root) ==
  LET busiest == Max({Len(streams[s].events) : s \in DOMAIN streams}) IN
  /\ EventsOf(streams, root) \in 1..TriggerMaxEvents
  /\ EventsOf(streams, root) * TriggerSparsity <= busiest

\* The first finding the root leads: its peak, less its lag.
AnchorTime(root, findings) ==
  LET led == {k \in DOMAIN findings : findings[k].leader = root}
      f == findings[IF led = {} THEN 1 ELSE Min(led)]
  IN f.peak - f.lag

Furthest(steps) == Max({s.lag : s \in steps})

\* A trigger within the span of the cascade takes the anchor.
Nearest(triggers, at, window) ==
  LET near == {k \in DOMAIN triggers : Magnitude(triggers[k] - at) <= window}
      best == {k \in near : \A j \in near : Magnitude(triggers[k] - at) <= Magnitude(triggers[j] - at)}
  IN IF near = {} THEN {} ELSE {triggers[Min(best)]}

\* detect_drop.  Medians are halves and deviations quarters of counts, scaled.
Middle2(sorted) ==
  LET n == Len(sorted) IN sorted[(n + 1) \div 2] + sorted[n \div 2 + 1]
Sorted(counts) == SortSeq([k \in 1..Cardinality(DOMAIN counts) |-> counts[k - 1]], <)
Deviation4(counts) ==
  LET m2 == Middle2(Sorted(counts)) IN
  Middle2(SortSeq([k \in 1..Cardinality(DOMAIN counts) |-> Magnitude(2 * counts[k - 1] - m2)], <))

\* From a flat baseline 0 and 1 are as deep, and a drop is one to a third;
\* otherwise it is 4 robust deviations (1.4826 times the median one).
Depth(counts, b) == IF Deviation4(counts) = 0 /\ counts[b] = 0 THEN 1 ELSE counts[b]
Drops(counts, b) ==
  LET m2 == Middle2(Sorted(counts))
      d4 == Deviation4(counts)
  IN /\ 2 * counts[b] < m2
     /\ m2 - 2 * counts[b] >= 2 * MinAbsDrop
     /\ IF d4 > 0 THEN 5000 * (m2 - 2 * counts[b]) >= 14826 * d4
        ELSE m2 >= 6 * Depth(counts, b)

\* The deepest drop from the anchor on, the first of these.
DetectDrop(events, grid, anchor, end) ==
  LET counts == Counts(events, grid)
      down == {b \in anchor..(Min({end, grid.n}) - 1) : Drops(counts, b)}
      deepest == {b \in down : \A c \in down : Depth(counts, b) <= Depth(counts, c)}
  IN IF grid.n < MinDropBuckets \/ Middle2(Sorted(counts)) = 0 \/ down = {} THEN {}
     ELSE {(Min(deepest) - anchor) * grid.width}

\* Where the search for drops ends.  A trigger after every step of the cascade
\* makes the furthest lag negative, and the horizon, a usize, wraps around.
SearchEnd(anchor, furthest, grid) ==
  LET q == Quotient(furthest, grid.width) IN
  CASE q >= 0 -> anchor + Max({3 * q, MinHorizon})
    [] q < 0 -> IF anchor + 3 * q >= 0 THEN anchor + 3 * q ELSE grid.n

\* From the findings to the timeline: the root, its cascade, the trigger that
\* takes the anchor, and the streams that fell instead.
BuildIncident(streams, triggers, findings, grid) ==
  LET root == Root(streams, findings)
      spine == WalkCascade(root, findings)
      guess == AnchorTime(root, findings)
      near == Nearest(triggers, guess, Max({2 * grid.width, Furthest(spine)}))
      time == IF near = {} THEN guess ELSE CHOOSE t \in near : TRUE
      rebased == {[s EXCEPT !.lag = @ + guess - time] : s \in spine}
      anchor == Max({0, Quotient(time - grid.lo, grid.width)})
      end == SearchEnd(anchor, Furthest(rebased), grid)
      others == {s \in DOMAIN streams :
                   streams[s].name # root /\ \A st \in spine : st.name # streams[s].name}
      drops == UNION {{Step(streams[s].name, lag, "drop", Zero) :
                         lag \in DetectDrop(streams[s].events, grid, anchor, end)} : s \in others}
  IN [root |-> root, guess |-> guess, time |-> time,
      kind |-> IF near # {} \/ IsTrigger(streams, root) THEN "trigger" ELSE "spike",
      steps |-> SetToSortSeq(rebased \cup drops, Sooner)]

-----------------------------------------------------------------------------
(* What it is checked against                                              *)

\* Every error counts once, for the line it is on: the stamps that have an
\* error between them and the next one.
Blamed(stamps, errors) ==
  {i \in DOMAIN stamps : \E k \in DOMAIN errors :
     stamps[i] <= errors[k] /\ (i < Len(stamps) => errors[k] < stamps[i + 1])}
Attributed(stamps, times, errors) ==
  MapToEpochs(stamps, times, errors) =
    SelectSeq([i \in DOMAIN stamps |-> IF i \in Blamed(stamps, errors) THEN times[i] ELSE NoTime],
              LAMBDA t : t # NoTime)

\* A grid stays near the number of buckets aimed at, unless the rungs end, and
\* lies within the events.
FitGrid(streams) ==
  LET grid == Grid(streams)
      all == Pooled(streams)
  IN /\ grid.n <= 2 * TargetBuckets \/ grid.width = Last(NiceWidths)
     /\ all[1] <= grid.lo /\ grid.lo <= grid.lo + grid.span /\ grid.lo + grid.span <= Last(all)

\* An event counts in the bucket that holds it.  Those of the width before the
\* grid begins count in its first bucket all the same.
Held(events, grid) ==
  \A b \in 0..(grid.n - 1) :
    Counts(events, grid)[b] = Cardinality({k \in DOMAIN events :
      LET from == grid.lo + b * grid.width IN
      events[k] \in from..(from + grid.width - 1)
      \/ (b = 0 /\ events[k] \in (grid.lo - grid.width + 1)..(grid.lo - 1))})

\* r * r from the pairs (follower's count, leader's count) a lag apart.
Square(follower, leader, lag) ==
  LET ks == {k \in DOMAIN leader : k + lag \in DOMAIN follower}
      m == Cardinality(ks)
      x == MapThenSumSet(LAMBDA k : follower[k + lag], ks)
      y == MapThenSumSet(LAMBDA k : leader[k], ks)
      xx == m * MapThenSumSet(LAMBDA k : follower[k + lag] * follower[k + lag], ks) - x * x
      yy == m * MapThenSumSet(LAMBDA k : leader[k] * leader[k], ks) - y * y
      xy == m * MapThenSumSet(LAMBDA k : follower[k + lag] * leader[k], ks) - x * y
  IN IF m < MinOverlap \/ x < MinEvents \/ y < MinEvents \/ xx * yy = 0 \/ xy <= 0
     THEN Zero ELSE [num |-> xy * xy, den |-> xx * yy]

\* "events in stream_a happen lag_seconds AFTER events in stream_b": at no lag
\* of either sign do the two go better together.
Named(streams, name) == CHOOSE s \in DOMAIN streams : streams[s].name = name
Follows(streams, findings, grid) ==
  \A k \in DOMAIN findings :
    LET f == findings[k]
        a == Counts(streams[Named(streams, f.follower)].events, grid)
        b == Counts(streams[Named(streams, f.leader)].events, grid)
    IN /\ f.lag >= 0
       /\ f.score = Square(a, b, f.lag \div grid.width)
       /\ \A l \in -MaxLag(grid)..MaxLag(grid) : AtMost(Square(a, b, l), f.score)
       /\ streams[Named(streams, f.follower)].file # streams[Named(streams, f.leader)].file

\* The lags of the cascade are those of its shortest paths, and its scores the
\* weakest link of one of them.
Paths(root, name, findings) ==
  {p \in UNION {[1..n -> DOMAIN findings] : n \in 1..Len(findings)} :
     /\ findings[p[1]].leader = root
     /\ findings[p[Len(p)]].follower = name
     /\ \A i \in 1..(Len(p) - 1) : findings[p[i]].follower = findings[p[i + 1]].leader}
PathLag(p, findings) == MapThenSumSet(LAMBDA i : findings[p[i]].lag, DOMAIN p)
ShortestLags(root, findings) ==
  LET steps == WalkCascade(root, findings)
      names == {findings[k].follower : k \in DOMAIN findings} \ {root}
  IN /\ {s.name : s \in steps} = {n \in names : Paths(root, n, findings) # {}}
     /\ \A s \in steps :
          /\ \A p \in Paths(root, s.name, findings) : s.lag <= PathLag(p, findings)
          /\ \E p \in Paths(root, s.name, findings) :
               /\ s.lag = PathLag(p, findings)
               /\ \E i \in DOMAIN p : s.score = findings[p[i]].score
               /\ \A i \in DOMAIN p : AtMost(s.score, findings[p[i]].score)

\* A timeline is in order, names a stream once and never its root, puts no drop
\* before the anchor or past the grid, and puts a step of the cascade before
\* the anchor only if a trigger later than the root took it.
Timeline(inc, grid) ==
  /\ \A i, j \in DOMAIN inc.steps :
       i < j => inc.steps[i].lag <= inc.steps[j].lag /\ inc.steps[i].name # inc.steps[j].name
  /\ \A i \in DOMAIN inc.steps :
       LET s == inc.steps[i] IN
       /\ s.name # inc.root
       /\ s.lag >= 0 \/ (s.kind = "correlated" /\ inc.time > inc.guess)
       /\ s.kind = "drop" => inc.time + s.lag < grid.lo + grid.n * grid.width

=============================================================================
