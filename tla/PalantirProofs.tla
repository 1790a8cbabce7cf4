--------------------------- MODULE PalantirProofs ---------------------------
(***************************************************************************)
(* Theorems about the log watcher, for every value of its constants.       *)
(*                                                                         *)
(* TypeOK is inductive. For LiveIsFresh the strengthening is TimeInv: the  *)
(* snapshot is at most one step (a poll interval and the longest delivery) *)
(* old for every tick since the last heartbeat.                            *)
(*                                                                         *)
(* Of an incident, alerts come in chains and apart (ToldInv), the newest   *)
(* of them is what the snapshot holds between polls (NewestInv), and       *)
(* errors that come in time are counted before the watch stands down       *)
(* (WatchInv).                                                             *)
(***************************************************************************)
EXTENDS Palantir, TLAPS, SequenceTheorems

LEMMA Constants ==
  /\ Window \in Nat /\ Window > 0
  /\ Confirm \in Nat /\ Confirm > 0
  /\ MinStreak \in Nat /\ MinStreak > 0
  /\ RateWindow \in Nat /\ RateWindow > 0
  /\ RateCooldown \in Nat
  /\ PollSecs \in Nat /\ PollSecs > 0
  /\ Heartbeat \in Nat /\ Heartbeat > 0
  /\ SnapshotFresh \in Nat
  /\ MaxDelay \in Nat
  /\ MaxTriggers \in Nat
  /\ MaxStarts \in Nat
  /\ MaxClock \in Nat
  /\ Bursts \subseteq Nat
BY PalantirAssumption

-----------------------------------------------------------------------------
(* Types                                                                   *)

LEMMA AlertTypes ==
  ASSUME NEW t \in Nat, NEW trigger \in Nat
  PROVE  /\ Predicted(t) \in Alerts
         /\ Confirmed(t, trigger) \in Alerts
         /\ Clear(trigger) \in Alerts
         /\ Anomaly(t) \in Alerts
         /\ NoAlert \in Alerts
BY Constants DEF Predicted, Confirmed, Clear, Anomaly, NoAlert, Alerts, Kinds

LEMMA ExpiredTypes ==
  ASSUME NEW ph \in Phases, NEW t \in Nat
  PROVE  Expired(ph, t).phase \in Phases /\ Expired(ph, t).alerts \in Seq(Alerts)
<1>1. Clear(ph.trigger) \in Alerts
  BY AlertTypes DEF Phases
<1>2. QED
  BY <1>1 DEF Expired, Idle, Phases

LEMMA FoldedTypes ==
  ASSUME NEW ph \in Phases, NEW t \in Nat, NEW triggers \in Nat, NEW errors \in Nat
  PROVE  /\ Folded(ph, t, triggers, errors).phase \in Phases
         /\ Folded(ph, t, triggers, errors).alerts \in Seq(Alerts)
<1> DEFINE seen == Seen(ph, errors)
           first == IF ph.kind = "idle" THEN <<Predicted(t)>> ELSE <<>>
           trigger == IF ph.kind = "idle" THEN t ELSE ph.trigger
<1>1. seen \in Nat
  BY DEF Seen, Phases
<1>2. trigger \in Nat
  BY DEF Phases
<1>3. first \in Seq(Alerts)
  BY AlertTypes
<1>4. Append(first, Confirmed(t, trigger)) \in Seq(Alerts)
  BY <1>2, <1>3, AlertTypes
<1>5. Rest(t) \in Phases
  BY Constants DEF Rest, Cooldown, Phases
<1>6. ~Enough(seen) => Armed(t, t + Window, seen) \in Phases
  BY <1>1, Constants DEF Enough, Armed, Phases
<1>7. ~Enough(seen) => Extended(ph, t, seen, triggers) \in Phases
  BY <1>1, Constants DEF Enough, Extended, Armed, Phases
<1> HIDE DEF seen, first, trigger
<1>8. CASE ph.kind = "cooldown" \/ (ph.kind = "idle" /\ triggers = 0)
  <2>1. Folded(ph, t, triggers, errors) = [phase |-> ph, alerts |-> <<>>]
    BY <1>8 DEF Folded
  <2>2. QED
    BY <2>1
<1>9. CASE ph.kind # "cooldown" /\ (ph.kind = "armed" \/ triggers > 0)
  <2>1. Folded(ph, t, triggers, errors) =
          IF Enough(seen)
          THEN [phase |-> Rest(t), alerts |-> Append(first, Confirmed(t, trigger))]
          ELSE [phase |-> IF ph.kind = "idle" THEN Armed(t, t + Window, seen)
                          ELSE Extended(ph, t, seen, triggers),
                alerts |-> first]
    BY <1>9 DEF Folded, seen, first, trigger
  <2>2. QED
    BY <2>1, <1>3, <1>4, <1>5, <1>6, <1>7
<1>10. QED
  BY <1>8, <1>9 DEF Phases

LEMMA ObserveTypes ==
  ASSUME NEW ph \in Phases, NEW t \in Nat, NEW triggers \in Nat, NEW errors \in Nat
  PROVE  /\ Observe(ph, t, triggers, errors).phase \in Phases
         /\ Observe(ph, t, triggers, errors).alerts \in Seq(Alerts)
<1> DEFINE x == Expired(ph, t)
           f == Folded(x.phase, t, triggers, errors)
<1>1. x.phase \in Phases /\ x.alerts \in Seq(Alerts)
  BY ExpiredTypes
<1> HIDE DEF x
<1>2. f.phase \in Phases /\ f.alerts \in Seq(Alerts)
  BY <1>1, FoldedTypes
<1>3. Observe(ph, t, triggers, errors) = [phase |-> f.phase, alerts |-> x.alerts \o f.alerts]
  BY DEF Observe, x
<1> HIDE DEF f
<1>4. QED
  BY <1>1, <1>2, <1>3

LEMMA PushedTypes ==
  ASSUME NEW xs \in Seq(Nat), Len(xs) <= RateWindow, NEW errors \in Nat
  PROVE  Pushed(xs, errors) \in Seq(Nat) /\ Len(Pushed(xs, errors)) <= RateWindow
<1> DEFINE ys == Append(xs, errors)
<1>1. ys \in Seq(Nat) /\ Len(ys) = Len(xs) + 1
  OBVIOUS
<1>2. Tail(ys) \in Seq(Nat) /\ Len(Tail(ys)) = Len(xs)
  BY <1>1
<1>3. QED
  BY <1>1, <1>2, Constants DEF Pushed

LEMMA ObserveRateTypes ==
  ASSUME NEW r \in Rates, NEW t \in Nat, NEW errors \in Nat
  PROVE  ObserveRate(r, t, errors) \in Rates
<1>1. Pushed(r.window, errors) \in Seq(Nat) /\ Len(Pushed(r.window, errors)) <= RateWindow
  BY PushedTypes DEF Rates
<1>2. Streak(r, t, errors) \in Nat
  BY DEF Streak, Rates
<1>3. ~Fires(r, t, errors) => Streak(r, t, errors) \in 0..(MinStreak - 1)
  BY <1>2, Constants DEF Fires
<1>4. RateRest(t) \in Nat
  BY Constants DEF RateRest
<1>5. QED
  BY <1>1, <1>3, <1>4, Constants DEF ObserveRate, Rates

LEMMA InitialTypes ==
  /\ Nothing \in Lines
  /\ Idle \in Phases
  /\ NewRate \in Rates
  /\ NoAlert \in Alerts
  /\ NoSnapshot \in Snapshots
<1>1. Idle \in Phases
  BY DEF Idle, Phases
<1>2. NewRate \in Rates
  BY Constants DEF NewRate, Rates
<1>3. QED
  BY <1>1, <1>2, AlertTypes DEF Nothing, Lines, NoSnapshot, Snapshots

LEMMA TypeInit == Init => TypeOK
<1> SUFFICES ASSUME Init PROVE TypeOK
  OBVIOUS
<1>1. clock \in 0..MaxClock /\ starts \in 0..MaxStarts /\ now \in 0..clock
  BY Constants DEF Init
<1>2. wake \in Nat /\ tick \in 0..(Heartbeat - 1) /\ landed \in Nat
  BY Constants DEF Init
<1>3. alerts \in Seq(Alerts) /\ told \in Seq(Alerts)
  BY DEF Init
<1>4. QED
  BY <1>1, <1>2, <1>3, InitialTypes, Zenon DEF Init, TypeOK

LEMMA TickWraps ==
  ASSUME NEW n \in Nat
  PROVE  (n + 1) % Heartbeat \in 0..(Heartbeat - 1)
BY Constants

LEMMA TypeNext == TypeOK /\ [Next]_vars => TypeOK'
<1> SUFFICES ASSUME TypeOK, [Next]_vars PROVE TypeOK'
  OBVIOUS
<1> USE Constants
<1>1. CASE Start
  <2>1. snapshot' \in Snapshots
    BY <1>1, InitialTypes DEF Start, TypeOK, Snapshots
  <2>2. clock' \in 0..MaxClock /\ starts' \in 0..MaxStarts /\ now' \in 0..clock'
    BY <1>1 DEF Start, TypeOK
  <2>3. wake' \in Nat /\ tick' \in 0..(Heartbeat - 1) /\ landed' \in Nat
    BY <1>1 DEF Start, TypeOK
  <2>4. alerts' \in Seq(Alerts) /\ told' \in Seq(Alerts)
    BY <1>1 DEF Start
  <2>5. QED
    BY <1>1, <2>1, <2>2, <2>3, <2>4, InitialTypes, Zenon DEF Start, TypeOK
<1>2. CASE Poll
  <2> DEFINE d == Observe(phase, clock, unread.triggers, unread.errors)
             speaks == Fires(rate, clock, unread.errors) /\ RateMaySpeak(d)
             out == IF speaks THEN Append(d.alerts, Anomaly(clock)) ELSE d.alerts
  <2>1. phase \in Phases /\ rate \in Rates /\ clock \in Nat
    BY DEF TypeOK
  <2>2. unread.triggers \in Nat /\ unread.errors \in Nat
    BY DEF TypeOK, Lines
  <2>3. d.phase \in Phases /\ d.alerts \in Seq(Alerts)
    BY <2>1, <2>2, ObserveTypes
  <2>4. rate' \in Rates
    BY <1>2, <2>1, <2>2, ObserveRateTypes DEF Poll
  <2>5. Anomaly(clock) \in Alerts
    BY <2>1, AlertTypes
  <2>6. /\ phase' = d.phase
        /\ alerts' = out
        /\ told' = told \o out
        /\ report' = Reports(out)
        /\ landed' = CASE d.phase.kind # "armed" -> 0
                       [] d.phase.kind = "armed" /\ d.alerts # <<>> -> unread.errors
                       [] d.phase.kind = "armed" /\ d.alerts = <<>> -> landed
    BY <1>2 DEF Poll
  <2> HIDE DEF d
  <2>7. out \in Seq(Alerts)
    BY <2>3, <2>5
  <2>8. landed' \in Nat
    BY <2>2, <2>6 DEF TypeOK
  <2> HIDE DEF speaks, out
  <2>9. told' \in Seq(Alerts) /\ alerts' \in Seq(Alerts)
    BY <2>6, <2>7 DEF TypeOK
  <2>10. report' \in BOOLEAN
    BY <2>6 DEF Reports
  <2>11. tick' \in 0..(Heartbeat - 1)
    <3>1. tick' = (tick + 1) % Heartbeat /\ tick \in Nat
      BY <1>2 DEF Poll, TypeOK
    <3>2. QED
      BY <3>1, TickWraps
  <2>12. phase' \in Phases
    BY <2>3, <2>6
  <2>13. /\ now' = clock /\ unread' = Nothing /\ pc' = "deliver"
         /\ UNCHANGED <<clock, alive, starts, wake, last, snapshot>>
    BY <1>2 DEF Poll
  <2>14. now' \in 0..clock'
    BY <2>13 DEF TypeOK
  <2>15. QED
    BY <2>4, <2>8, <2>9, <2>10, <2>11, <2>12, <2>13, <2>14, InitialTypes, Zenon DEF TypeOK
<1>3. CASE Deliver
  <2>1. Head(alerts) \in Alerts /\ Tail(alerts) \in Seq(Alerts)
    BY <1>3 DEF Deliver, TypeOK
  <2>2. QED
    BY <1>3, <2>1 DEF Deliver, Newest, TypeOK, loopVars
<1>4. CASE EndTick
  <2>1. snapshot' \in Snapshots
    BY <1>4 DEF EndTick, TypeOK, Snapshots
  <2>2. QED
    BY <1>4, <2>1 DEF EndTick, TypeOK
<1>5. CASE Kill
  BY <1>5 DEF Kill, TypeOK, loopVars
<1>6. ASSUME NEW t \in 0..MaxTriggers, NEW e \in Bursts, Second(t, e)
      PROVE  TypeOK'
  <2>1. e \in Nat
    OBVIOUS
  <2>2. clock' \in 0..MaxClock /\ now' \in 0..clock'
    BY <1>6 DEF Second, TypeOK, loopVars
  <2>3. unread' \in Lines /\ landed' \in Nat
    BY <1>6, <2>1 DEF Second, TypeOK, Lines
  <2>4. QED
    BY <1>6, <2>2, <2>3 DEF Second, TypeOK, loopVars
<1>7. CASE UNCHANGED vars
  BY <1>7 DEF vars, loopVars, TypeOK
<1>8. QED
  BY <1>1, <1>2, <1>3, <1>4, <1>5, <1>6, <1>7 DEF Next

\* The whole state of the watcher keeps its type; in particular an armed watch
\* has always seen fewer errors than confirm it, the rate window never outgrows
\* its length, and its streak is spent when it fires (watch.rs, mod.rs).
THEOREM WatcherTypeCorrect == Spec => []TypeOK
<1>1. QED
  BY TypeInit, TypeNext, PTL DEF Spec

-----------------------------------------------------------------------------
(* A living watcher is never taken for a dead one                          *)

\* The longest time from one poll to the next.
Step == PollSecs + MaxDelay

\* The oldest a snapshot can be at the k-th poll after it.
Age(k) == k * Step

\* A reader allows for the polls between two heartbeats and one delivery.
Tolerant == Age(Heartbeat) + MaxDelay <= SnapshotFresh

SleepInv ==
  /\ clock <= wake
  /\ wake <= now + Step
  /\ now - snapshot.updated <= Age(tick)

DeliverInv ==
  /\ clock <= now + MaxDelay
  /\ now - snapshot.updated <= IF tick = 0 THEN Age(Heartbeat) ELSE Age(tick)
  /\ tick = 0 => report

TimeInv ==
  alive => /\ snapshot.made
           /\ pc = "sleep" => SleepInv
           /\ pc = "deliver" => DeliverInv

LEMMA AgeNat ==
  /\ Step \in Nat
  /\ Age(0) = 0
  /\ \A k \in Nat : Age(k) \in Nat /\ Age(k + 1) = Age(k) + Step
<1>1. Step \in Nat
  BY Constants DEF Step
<1>2. ASSUME NEW s \in Nat PROVE 0 * s = 0
  OBVIOUS
<1>3. ASSUME NEW k \in Nat, NEW s \in Nat PROVE k * s \in Nat
  OBVIOUS
<1>4. ASSUME NEW k \in Int, NEW s \in Int PROVE (k + 1) * s = k * s + s
  OBVIOUS
<1>5. QED
  BY <1>1, <1>2, <1>3, <1>4 DEF Age

LEMMA AgeGrows ==
  ASSUME NEW k \in 0..(Heartbeat - 1)
  PROVE  Age(k) + Step <= Age(Heartbeat)
<1>1. ASSUME NEW s \in Nat, NEW n \in Nat, n >= 1 PROVE s <= n * s
  <2>1. n - 1 \in Nat
    BY <1>1
  <2>2. ASSUME NEW m \in Nat PROVE m * s \in Nat /\ (m + 1) * s = m * s + s
    <3>1. m * s \in Nat
      OBVIOUS
    <3>2. (m + 1) * s = m * s + s
      OBVIOUS
    <3>3. QED
      BY <3>1, <3>2
  <2>3. (n - 1) * s \in Nat /\ ((n - 1) + 1) * s = (n - 1) * s + s
    BY <2>1, <2>2
  <2>4. (n - 1) + 1 = n
    OBVIOUS
  <2>5. n * s = (n - 1) * s + s
    BY <2>3, <2>4
  <2>6. QED
    BY <2>3, <2>5
<1>2. k \in Nat /\ Heartbeat - k \in Nat /\ Heartbeat - k >= 1 /\ Step \in Nat
  BY Constants, AgeNat
<1>3. Step <= (Heartbeat - k) * Step
  BY <1>1, <1>2
<1>4. (Heartbeat - k) * Step = Heartbeat * Step - k * Step
  BY <1>2, Constants
<1>5. k * Step \in Nat /\ Heartbeat * Step \in Nat
  BY <1>2, Constants
<1>6. QED
  BY <1>2, <1>3, <1>4, <1>5 DEF Age

LEMMA TimeTypes ==
  ASSUME TypeOK
  PROVE  /\ clock \in Nat /\ now \in Nat /\ now <= clock /\ wake \in Nat
         /\ tick \in 0..(Heartbeat - 1) /\ snapshot.updated \in Nat /\ Step \in Nat
         /\ Age(tick) \in Nat
<1>1. clock \in Nat /\ now \in Nat /\ now <= clock /\ wake \in Nat
  BY Constants DEF TypeOK
<1>2. tick \in 0..(Heartbeat - 1) /\ tick \in Nat
  BY Constants DEF TypeOK
<1>3. snapshot.updated \in Nat
  BY DEF TypeOK, Snapshots
<1>4. QED
  BY <1>1, <1>2, <1>3, AgeNat

LEMMA TimeNext == TypeOK /\ TypeOK' /\ TimeInv /\ [Next]_vars => TimeInv'
<1> SUFFICES ASSUME TypeOK, TypeOK', TimeInv, [Next]_vars PROVE TimeInv'
  OBVIOUS
<1> USE Constants
<1>1. /\ clock \in Nat /\ now \in Nat /\ now <= clock /\ wake \in Nat
      /\ tick \in 0..(Heartbeat - 1) /\ snapshot.updated \in Nat /\ Step \in Nat
      /\ Age(tick) \in Nat
  BY TimeTypes
<1>2. CASE Start
  <2>1. /\ pc' = "sleep" /\ now' = clock' /\ wake' = clock' + PollSecs /\ tick' = 0
        /\ snapshot'.made /\ snapshot'.updated = clock' /\ clock' = clock
    BY <1>2 DEF Start
  <2>2. Step = PollSecs + MaxDelay /\ Age(0) = 0
    BY AgeNat DEF Step
  <2>3. clock' <= wake' /\ wake' <= now' + Step
    BY <2>1, <2>2, <1>1
  <2>4. now' - snapshot'.updated <= Age(tick')
    BY <2>1, <2>2, <1>1
  <2>5. SleepInv'
    BY <2>3, <2>4 DEF SleepInv, Step
  <2>6. QED
    BY <2>1, <2>5 DEF TimeInv
<1>3. CASE Poll
  <2>1. /\ alive /\ pc = "sleep" /\ clock >= wake /\ pc' = "deliver"
        /\ now' = clock /\ clock' = clock /\ snapshot' = snapshot
        /\ tick' = (tick + 1) % Heartbeat
    BY <1>3 DEF Poll
  <2>2. report' = Reports(alerts')
    BY <1>3 DEF Poll
  <2>3. snapshot.made /\ SleepInv
    BY <2>1 DEF TimeInv
  <2>4. clock - snapshot.updated <= Age(tick) + Step
    BY <2>3, <1>1 DEF SleepInv
  <2>5. tick' = 0 => report'
    BY <2>1, <2>2 DEF Reports
  <2>6. CASE tick + 1 < Heartbeat
    <3>1. tick' = tick + 1 /\ tick' # 0
      BY <2>1, <2>6, <1>1
    <3>2. Age(tick') = Age(tick) + Step
      BY <3>1, <1>1, AgeNat
    <3>3. QED
      BY <2>1, <2>3, <2>4, <3>1, <3>2, <1>1 DEF TimeInv, DeliverInv
  <2>7. CASE tick + 1 = Heartbeat
    <3>1. tick' = 0
      BY <2>1, <2>7, <1>1
    <3>2. Age(tick) + Step = Age(Heartbeat)
      BY <2>7, <1>1, AgeNat
    <3>3. QED
      BY <2>1, <2>3, <2>4, <2>5, <3>1, <3>2, <1>1 DEF TimeInv, DeliverInv
  <2>8. QED
    BY <2>6, <2>7, <1>1
<1>4. CASE Deliver
  BY <1>4 DEF Deliver, loopVars, TimeInv, SleepInv, DeliverInv
<1>5. CASE EndTick
  <2>1. /\ alive /\ pc = "deliver" /\ pc' = "sleep" /\ now' = now /\ clock' = clock
        /\ tick' = tick /\ wake' = clock + PollSecs
    BY <1>5 DEF EndTick
  <2>2. snapshot.made /\ DeliverInv
    BY <2>1 DEF TimeInv
  <2>3. clock' <= wake' /\ wake' <= now' + Step
    BY <2>1, <2>2, <1>1 DEF DeliverInv, Step
  <2>4. CASE report
    <3>1. snapshot'.made /\ snapshot'.updated = now
      BY <1>5, <2>4 DEF EndTick
    <3>2. QED
      BY <2>1, <2>3, <3>1, <1>1 DEF TimeInv, SleepInv
  <2>5. CASE ~report
    <3>1. snapshot' = snapshot
      BY <1>5, <2>5 DEF EndTick
    <3>2. now - snapshot.updated <= Age(tick)
      BY <2>2, <2>5 DEF DeliverInv
    <3>3. QED
      BY <2>1, <2>2, <2>3, <3>1, <3>2 DEF TimeInv, SleepInv
  <2>6. QED
    BY <2>4, <2>5
<1>6. CASE Kill
  BY <1>6 DEF Kill, TimeInv
<1>7. ASSUME NEW t \in 0..MaxTriggers, NEW e \in Bursts, Second(t, e)
      PROVE  TimeInv'
  <2>1. /\ clock' = clock + 1 /\ alive' = alive /\ pc' = pc /\ now' = now
        /\ wake' = wake /\ tick' = tick /\ report' = report /\ snapshot' = snapshot
        /\ alive => InTime
    BY <1>7 DEF Second, loopVars
  <2>2. (alive /\ pc = "sleep") => clock < wake
    BY <2>1 DEF InTime
  <2>3. (alive /\ pc = "deliver") => clock < now + MaxDelay
    BY <2>1 DEF InTime
  <2>4. QED
    BY <2>1, <2>2, <2>3, <1>1 DEF TimeInv, SleepInv, DeliverInv
<1>8. CASE UNCHANGED vars
  BY <1>8 DEF vars, loopVars, TimeInv, SleepInv, DeliverInv
<1>9. QED
  BY <1>2, <1>3, <1>4, <1>5, <1>6, <1>7, <1>8 DEF Next

LEMMA TimeInit == Init => TimeInv
BY DEF Init, TimeInv

\* What a reader finds is fresh enough for it.
LEMMA UpToDate ==
  ASSUME Tolerant, TypeOK, TimeInv, alive
  PROVE  clock - snapshot.updated <= SnapshotFresh /\ ~(clock - snapshot.updated > SnapshotFresh)
<1> USE Constants
<1>1. /\ clock \in Nat /\ now \in Nat /\ wake \in Nat /\ snapshot.updated \in Nat
      /\ tick \in 0..(Heartbeat - 1) /\ Step \in Nat
      /\ Age(tick) \in Nat /\ Age(Heartbeat) \in Nat
  BY AgeNat, TimeTypes
<1>2. Age(tick) + Step <= Age(Heartbeat)
  BY <1>1, AgeGrows
<1>3. clock - snapshot.updated <= SnapshotFresh
  <2>1. CASE pc = "sleep"
    <3>1. SleepInv
      BY <2>1 DEF TimeInv
    <3>2. QED
      BY <3>1, <1>1, <1>2 DEF SleepInv, Tolerant
  <2>2. CASE pc = "deliver"
    <3>1. DeliverInv
      BY <2>2 DEF TimeInv
    <3>2. QED
      BY <3>1, <1>1, <1>2 DEF DeliverInv, Tolerant
  <2>3. QED
    BY <2>1, <2>2 DEF TypeOK
<1>4. QED
  BY <1>1, <1>3

LEMMA FreshEnough == ASSUME Tolerant, TypeOK, TimeInv PROVE LiveIsFresh
<1> SUFFICES ASSUME alive PROVE Chat(clock) # "nothing"
  BY DEF LiveIsFresh
<1>1. snapshot.alert.kind \in Kinds
  BY DEF TypeOK, Snapshots, Alerts
<1>2. snapshot.made
  BY DEF TimeInv
<1>3. Chat(clock) = IF Surfaceable(snapshot.alert, clock) THEN snapshot.alert.kind
                    ELSE "allClear"
  BY <1>2, UpToDate DEF Chat
<1>4. QED
  BY <1>1, <1>3 DEF Kinds

\* daemon.rs:208-209 of a watcher that keeps to its times: as long as a reader
\* tolerates the polls between two heartbeats and one delivery, whatever the
\* constants, the chat of a living watcher never falls silent.
THEOREM LiveWatcherIsFresh == ASSUME Tolerant PROVE Spec => []LiveIsFresh
<1>1. Init => TypeOK /\ TimeInv
  BY TypeInit, TimeInit
<1>2. TypeOK /\ TimeInv /\ [Next]_vars => TypeOK' /\ TimeInv'
  BY TypeNext, TimeNext
<1>3. TypeOK /\ TimeInv => LiveIsFresh
  BY FreshEnough
<1>4. QED
  BY <1>1, <1>2, <1>3, PTL DEF Spec

-----------------------------------------------------------------------------
(* Sequences of alerts                                                     *)

LastSaid(s) == IF s = <<>> THEN NoAlert ELSE s[Len(s)]

Chained(s) ==
  \A i \in 1..Len(s) :
    /\ s[i].kind \in {"confirmed", "clear"} =>
         i > 1 /\ s[i - 1].kind = "predicted" /\ s[i - 1].trigger = s[i].trigger
    /\ \A j \in 1..Len(s) :
         (s[i].kind = "confirmed" /\ i < j) => s[j].at >= s[i].at + Window

Spaced(s) ==
  \A i, j \in 1..Len(s) :
    (s[i].kind = "anomaly" /\ s[j].kind = "anomaly" /\ i < j) =>
      s[j].at >= s[i].at + RateCooldown

\* The silence after each confirmation is over by t, after each anomaly by r.
Behind(s, t, r) ==
  \A i \in 1..Len(s) :
    /\ s[i].kind = "confirmed" => s[i].at + Window <= t
    /\ s[i].kind = "anomaly" => s[i].at + RateCooldown <= r

\* When the silence after the last confirmation is over, as the phase has it.
Silence(ph, t) ==
  CASE ph.kind = "cooldown" -> ph.until
    [] ph.kind = "armed" -> ph.trigger
    [] ph.kind = "idle" -> t

\* The alerts s of a run, at time t, with the phase ph and rate alerts silent
\* until r.
Tells(s, ph, t, r) ==
  /\ ph.kind = "armed" => LastSaid(s) = Predicted(ph.trigger) /\ ph.trigger <= t
  /\ ph.kind = "cooldown" =>
       LastSaid(s).kind = "confirmed" /\ LastSaid(s).at = ph.until - Window
  /\ Behind(s, Silence(ph, t), r)
  /\ Chained(s)
  /\ Spaced(s)

ToldInv == Tells(told, phase, clock, rate.until)

\* What any phase has, the one in the middle of a poll included.
IsPhase(ph) ==
  /\ ph.kind \in {"idle", "armed", "cooldown"}
  /\ ph.trigger \in Nat /\ ph.until \in Nat

LEMMA Appended ==
  ASSUME NEW s \in Seq(Alerts), NEW a \in Alerts
  PROVE  /\ Append(s, a) \in Seq(Alerts)
         /\ Append(s, a) # <<>>
         /\ Len(Append(s, a)) = Len(s) + 1
         /\ Append(s, a)[Len(s) + 1] = a
         /\ \A i \in 1..Len(s) : Append(s, a)[i] = s[i]
         /\ LastSaid(Append(s, a)) = a
BY DEF LastSaid

LEMMA Joined ==
  \A x, y, z \in Seq(Alerts) : (x \o y) \o z = x \o (y \o z)
<1> TAKE x, y, z \in Seq(Alerts)
<1> QED
  BY ConcatAssociative

LEMMA AlertFields ==
  ASSUME NEW s \in Seq(Alerts)
  PROVE  \A i \in 1..Len(s) : s[i].kind \in Kinds /\ s[i].at \in Nat /\ s[i].trigger \in Nat
<1> TAKE i \in 1..Len(s)
<1>1. s[i] \in Alerts
  OBVIOUS
<1> QED
  BY <1>1 DEF Alerts

\* When an alert may be added to those of a run.
LEMMA Adding ==
  ASSUME NEW s \in Seq(Alerts), Chained(s), Spaced(s),
         NEW a \in Alerts, NEW silence \in Nat, NEW r \in Nat,
         silence <= a.at, a.kind = "anomaly" => r <= a.at,
         Behind(s, silence, r),
         a.kind \in {"confirmed", "clear"} =>
           /\ Len(s) > 0
           /\ s[Len(s)].kind = "predicted" /\ s[Len(s)].trigger = a.trigger
  PROVE  Chained(Append(s, a)) /\ Spaced(Append(s, a))
<1> DEFINE z == Append(s, a)
           n == Len(s)
<1>1. /\ n \in Nat /\ Len(z) = n + 1 /\ z[n + 1] = a
      /\ \A i \in 1..n : z[i] = s[i]
  BY Appended
<1>2. /\ a.kind \in Kinds /\ a.at \in Nat
      /\ \A i \in 1..n : s[i].kind \in Kinds /\ s[i].at \in Nat
  BY AlertFields DEF Alerts
<1> HIDE DEF z
<1>3. ASSUME NEW i \in 1..n, NEW j \in 1..Len(z), i < j
      PROVE  /\ z[i].kind = "confirmed" => z[j].at >= z[i].at + Window
             /\ z[i].kind = "anomaly" /\ z[j].kind = "anomaly" =>
                  z[j].at >= z[i].at + RateCooldown
  <2>1. CASE j = n + 1
    BY <1>1, <1>2, <1>3, <2>1, Constants DEF Behind
  <2>2. CASE j \in 1..n
    BY <1>1, <1>3, <2>2 DEF Chained, Spaced
  <2> QED
    BY <1>1, <2>1, <2>2
<1>4. \A i, j \in 1..Len(z) : i < j => i \in 1..n
  BY <1>1
<1>5. ASSUME NEW i \in 1..Len(z), z[i].kind \in {"confirmed", "clear"}
      PROVE  i > 1 /\ z[i - 1].kind = "predicted" /\ z[i - 1].trigger = z[i].trigger
  <2>1. CASE i = n + 1
    BY <1>1, <1>5, <2>1
  <2>2. CASE i \in 1..n
    <3>1. i > 1 /\ s[i - 1].kind = "predicted" /\ s[i - 1].trigger = s[i].trigger
      BY <1>1, <1>5, <2>2 DEF Chained
    <3>2. z[i - 1] = s[i - 1] /\ z[i] = s[i]
      BY <1>1, <2>2, <3>1
    <3> QED
      BY <3>1, <3>2
  <2> QED
    BY <1>1, <2>1, <2>2
<1>6. Chained(z)
  BY <1>3, <1>4, <1>5 DEF Chained
<1>7. Spaced(z)
  BY <1>3, <1>4 DEF Spaced
<1> QED
  BY <1>6, <1>7 DEF z

-----------------------------------------------------------------------------
(* One alert at a time.  Each lemma is one thing a poll may do.            *)

LEMMA BehindAdding ==
  ASSUME NEW s \in Seq(Alerts), NEW a \in Alerts,
         NEW t \in Nat, NEW u \in Nat, t <= u, NEW r \in Nat, NEW q \in Nat, r <= q,
         Behind(s, t, r),
         a.kind = "confirmed" => a.at + Window <= u,
         a.kind = "anomaly" => a.at + RateCooldown <= q
  PROVE  Behind(Append(s, a), u, q)
<1> DEFINE z == Append(s, a)
<1>1. /\ Len(s) \in Nat /\ Len(z) = Len(s) + 1 /\ z[Len(s) + 1] = a
      /\ \A i \in 1..Len(s) : z[i] = s[i]
  BY Appended
<1>2. \A i \in 1..Len(s) : s[i].at \in Nat
  BY AlertFields
<1> HIDE DEF z
<1> SUFFICES ASSUME NEW i \in 1..Len(z)
             PROVE  /\ z[i].kind = "confirmed" => z[i].at + Window <= u
                    /\ z[i].kind = "anomaly" => z[i].at + RateCooldown <= q
  BY DEF Behind, z
<1>3. CASE i = Len(s) + 1
  BY <1>1, <1>3
<1>4. CASE i \in 1..Len(s)
  BY <1>1, <1>2, <1>4, Constants DEF Behind
<1> QED
  BY <1>1, <1>3, <1>4

LEMMA Prediction ==
  ASSUME NEW s \in Seq(Alerts), NEW ph, ph.kind = "armed", NEW t \in Nat, NEW r \in Nat,
         Tells(s, ph, t, r)
  PROVE  /\ Len(s) > 0 /\ ph.trigger <= t
         /\ s[Len(s)].kind = "predicted" /\ s[Len(s)].trigger = ph.trigger
<1>1. LastSaid(s) = Predicted(ph.trigger) /\ ph.trigger <= t
  BY DEF Tells
<1>2. s # <<>>
  BY <1>1 DEF LastSaid, Predicted, NoAlert
<1> QED
  BY <1>1, <1>2 DEF LastSaid, Predicted

LEMMA StandingDown ==
  ASSUME NEW s \in Seq(Alerts), NEW ph, IsPhase(ph), NEW t \in Nat, NEW r \in Nat,
         Tells(s, ph, t, r), ph.kind = "armed"
  PROVE  Tells(Append(s, Clear(ph.trigger)), Idle, t, r)
<1> DEFINE a == Clear(ph.trigger)
<1>1. /\ a \in Alerts /\ a.kind = "clear" /\ a.trigger = ph.trigger
      /\ ph.trigger \in Nat /\ a.at = ph.trigger + Window
  BY AlertTypes DEF IsPhase, Clear
<1>2. /\ Len(s) > 0 /\ ph.trigger <= t
      /\ s[Len(s)].kind = "predicted" /\ s[Len(s)].trigger = ph.trigger
  BY Prediction
<1> HIDE DEF a
<1>3. Behind(s, ph.trigger, r) /\ Chained(s) /\ Spaced(s)
  BY DEF Tells, Silence
<1>4. ph.trigger <= a.at
  BY <1>1, Constants
<1>5. Chained(Append(s, a)) /\ Spaced(Append(s, a))
  BY <1>1, <1>2, <1>3, <1>4, Adding
<1>6. Behind(Append(s, a), t, r)
  BY <1>1, <1>2, <1>3, BehindAdding
<1> QED
  BY <1>5, <1>6 DEF Tells, Silence, Idle, a

LEMMA CoolingOff ==
  ASSUME NEW s \in Seq(Alerts), NEW ph, IsPhase(ph), NEW t \in Nat, NEW r \in Nat,
         Tells(s, ph, t, r), ph.kind = "cooldown", t >= ph.until
  PROVE  Tells(s, Idle, t, r)
<1>1. /\ Behind(s, ph.until, r) /\ ph.until \in Nat
      /\ \A i \in 1..Len(s) : s[i].at \in Nat
  BY AlertFields DEF Tells, Silence, IsPhase
<1>2. Behind(s, t, r)
  BY <1>1, Constants DEF Behind
<1> QED
  BY <1>2 DEF Tells, Silence, Idle

LEMMA Predicting ==
  ASSUME NEW s \in Seq(Alerts), NEW t \in Nat, NEW r \in Nat, Tells(s, Idle, t, r),
         NEW until, NEW errors
  PROVE  Tells(Append(s, Predicted(t)), Armed(t, until, errors), t, r)
<1> DEFINE a == Predicted(t)
<1>1. a \in Alerts /\ a.kind = "predicted" /\ a.at = t
  BY AlertTypes DEF Predicted
<1>2. Behind(s, t, r) /\ Chained(s) /\ Spaced(s)
  BY DEF Tells, Silence, Idle
<1>3. LastSaid(Append(s, a)) = a
  BY <1>1, Appended
<1> HIDE DEF a
<1>4. Chained(Append(s, a)) /\ Spaced(Append(s, a))
  BY <1>1, <1>2, Adding
<1>5. Behind(Append(s, a), t, r)
  BY <1>1, <1>2, BehindAdding
<1> QED
  BY <1>3, <1>4, <1>5 DEF Tells, Silence, Armed, a

LEMMA Confirming ==
  ASSUME NEW s \in Seq(Alerts), NEW ph, IsPhase(ph), NEW t \in Nat, NEW r \in Nat,
         Tells(s, ph, t, r), ph.kind = "armed"
  PROVE  Tells(Append(s, Confirmed(t, ph.trigger)), Rest(t), t, r)
<1> DEFINE a == Confirmed(t, ph.trigger)
<1>1. /\ a \in Alerts /\ a.kind = "confirmed" /\ a.at = t /\ a.trigger = ph.trigger
      /\ ph.trigger \in Nat
  BY AlertTypes DEF Confirmed, IsPhase
<1>2. /\ Len(s) > 0 /\ ph.trigger <= t
      /\ s[Len(s)].kind = "predicted" /\ s[Len(s)].trigger = ph.trigger
  BY Prediction
<1>3. LastSaid(Append(s, a)) = a
  BY <1>1, Appended
<1> HIDE DEF a
<1>4. Behind(s, ph.trigger, r) /\ Chained(s) /\ Spaced(s)
  BY DEF Tells, Silence
<1>5. Chained(Append(s, a)) /\ Spaced(Append(s, a))
  BY <1>1, <1>2, <1>4, Adding
<1>6. t + Window \in Nat /\ ph.trigger <= t + Window
  BY <1>1, <1>2, Constants
<1>7. Behind(Append(s, a), t + Window, r)
  BY <1>1, <1>4, <1>6, BehindAdding
<1>8. a.at = (t + Window) - Window
  BY <1>1, Constants
<1> QED
  BY <1>1, <1>3, <1>5, <1>7, <1>8 DEF Tells, Silence, Rest, Cooldown, a

LEMMA RateSpeaking ==
  ASSUME NEW s \in Seq(Alerts), NEW ph, ph.kind = "idle", NEW t \in Nat, NEW r \in Nat,
         Tells(s, ph, t, r), r <= t
  PROVE  Tells(Append(s, Anomaly(t)), ph, t, RateRest(t))
<1> DEFINE a == Anomaly(t)
<1>1. a \in Alerts /\ a.kind = "anomaly" /\ a.at = t
  BY AlertTypes DEF Anomaly
<1>2. Behind(s, t, r) /\ Chained(s) /\ Spaced(s)
  BY DEF Tells, Silence
<1>3. RateRest(t) = t + RateCooldown /\ RateRest(t) \in Nat /\ r <= RateRest(t)
  BY Constants DEF RateRest
<1> HIDE DEF a
<1>4. Chained(Append(s, a)) /\ Spaced(Append(s, a))
  BY <1>1, <1>2, Adding
<1>5. Behind(Append(s, a), t, RateRest(t))
  BY <1>1, <1>2, <1>3, BehindAdding
<1> QED
  BY <1>4, <1>5 DEF Tells, Silence, a

\* Nothing is said: time passes, the watch is extended, or a rate alert is
\* dropped and its silence begins.
LEMMA SayingNothing ==
  ASSUME NEW s \in Seq(Alerts), NEW ph, IsPhase(ph), NEW t \in Nat, NEW r \in Nat,
         Tells(s, ph, t, r), NEW u \in Nat, t <= u, NEW q \in Nat, r <= q,
         NEW ph2, \/ ph2 = ph
                  \/ ph.kind = "armed" /\ ph2.kind = "armed" /\ ph2.trigger = ph.trigger
  PROVE  Tells(s, ph2, u, q)
<1>1. Silence(ph, t) <= Silence(ph2, u) /\ Silence(ph, t) \in Nat /\ Silence(ph2, u) \in Nat
  BY DEF Silence, IsPhase
<1>2. Behind(s, Silence(ph, t), r) /\ \A i \in 1..Len(s) : s[i].at \in Nat
  BY AlertFields DEF Tells
<1>3. Behind(s, Silence(ph2, u), q)
  BY <1>1, <1>2, Constants DEF Behind
<1> QED
  BY <1>3 DEF Tells, IsPhase

-----------------------------------------------------------------------------
(* A poll                                                                  *)

LEMMA IsAPhase == \A ph \in Phases : IsPhase(ph)
BY DEF Phases, IsPhase

LEMMA ExpiredTells ==
  ASSUME NEW s \in Seq(Alerts), NEW ph \in Phases, NEW t \in Nat, NEW r \in Nat,
         Tells(s, ph, t, r)
  PROVE  Tells(s \o Expired(ph, t).alerts, Expired(ph, t).phase, t, r)
<1>1. s \o <<>> = s
  BY ConcatEmptySeq
<1>2. IsPhase(ph) /\ (ph.kind = "armed" => Unresolved(ph))
  BY IsAPhase DEF Phases, Unresolved
<1>3. CASE ~Past(ph, t)
  BY <1>1, <1>3 DEF Expired
<1>4. CASE Past(ph, t) /\ ph.kind = "cooldown"
  BY <1>1, <1>2, <1>4, CoolingOff DEF Expired, Past, Unresolved
<1>5. CASE Past(ph, t) /\ ph.kind = "armed"
  <2>1. Expired(ph, t).phase = Idle /\ Expired(ph, t).alerts = <<Clear(ph.trigger)>>
    BY <1>2, <1>5 DEF Expired
  <2>2. Clear(ph.trigger) \in Alerts
    BY <1>2, AlertTypes DEF IsPhase
  <2>3. s \o <<Clear(ph.trigger)>> = Append(s, Clear(ph.trigger))
    BY <2>2, AppendIsConcat
  <2>4. Tells(Append(s, Clear(ph.trigger)), Idle, t, r)
    BY <1>2, <1>5, StandingDown
  <2> QED
    BY <2>1, <2>3, <2>4, Zenon
<1> QED
  BY <1>2, <1>3, <1>4, <1>5 DEF Past, IsPhase

LEMMA FoldedTells ==
  ASSUME NEW s \in Seq(Alerts), NEW ph \in Phases, NEW t \in Nat, NEW r \in Nat,
         NEW triggers \in Nat, NEW errors \in Nat, Tells(s, ph, t, r)
  PROVE  Tells(s \o Folded(ph, t, triggers, errors).alerts,
               Folded(ph, t, triggers, errors).phase, t, r)
<1> DEFINE f == Folded(ph, t, triggers, errors)
           seen == Seen(ph, errors)
           p == Predicted(t)
<1>1. s \o <<>> = s
  BY ConcatEmptySeq
<1>2. IsPhase(ph)
  BY IsAPhase
<1>3. CASE ph.kind = "cooldown" \/ (ph.kind = "idle" /\ triggers = 0)
  <2>1. f = [phase |-> ph, alerts |-> <<>>]
    BY <1>3 DEF Folded
  <2> QED
    BY <1>1, <2>1
<1>4. CASE ph.kind = "armed" /\ Enough(seen)
  <2> DEFINE c == Confirmed(t, ph.trigger)
  <2>1. f.phase = Rest(t) /\ f.alerts = Append(<<>>, c)
    BY <1>4 DEF Folded
  <2>2. c \in Alerts
    BY <1>2, AlertTypes DEF IsPhase
  <2>3. s \o Append(<<>>, c) = Append(s, c)
    BY <2>2, AppendIsConcat
  <2>4. Tells(Append(s, c), Rest(t), t, r)
    BY <1>2, <1>4, Confirming
  <2> QED
    BY <2>1, <2>3, <2>4, Zenon
<1>5. CASE ph.kind = "armed" /\ ~Enough(seen)
  <2>1. f = [phase |-> Extended(ph, t, seen, triggers), alerts |-> <<>>]
    BY <1>5 DEF Folded
  <2>2. f.phase.kind = "armed" /\ f.phase.trigger = ph.trigger
    BY <2>1 DEF Extended, Armed
  <2>3. Tells(s, f.phase, t, r)
    BY <1>2, <1>5, <2>2, SayingNothing
  <2> QED
    BY <1>1, <2>1, <2>3
<1>6. CASE ph.kind = "idle" /\ triggers > 0
  <2>1. p \in Alerts /\ Append(s, p) \in Seq(Alerts)
    BY AlertTypes, Appended
  <2>2. s \o <<p>> = Append(s, p)
    BY <2>1, AppendIsConcat
  <2>3. Tells(s, Idle, t, r)
    BY <1>6 DEF Tells, Silence, Idle
  <2>4. CASE ~Enough(seen)
    <3>1. f.phase = Armed(t, t + Window, seen) /\ f.alerts = <<p>>
      BY <1>6, <2>4 DEF Folded
    <3>2. Tells(Append(s, p), Armed(t, t + Window, seen), t, r)
      BY <2>3, Predicting
    <3> QED
      BY <2>2, <3>1, <3>2, Zenon
  <2>5. CASE Enough(seen)
    <3> DEFINE c == Confirmed(t, t)
               a == Armed(t, t, 0)
    <3>1. f.phase = Rest(t) /\ f.alerts = Append(<<p>>, c)
      BY <1>6, <2>5 DEF Folded
    <3>2. c \in Alerts
      BY AlertTypes
    <3>3. s \o Append(<<p>>, c) = Append(Append(s, p), c)
      <4>1. <<p>> \in Seq(Alerts) /\ <<c>> \in Seq(Alerts)
        BY <2>1, <3>2
      <4>2. Append(<<p>>, c) = <<p>> \o <<c>>
        BY <3>2, <4>1, AppendIsConcat
      <4>3. s \o (<<p>> \o <<c>>) = (s \o <<p>>) \o <<c>>
        BY <4>1, ConcatAssociative
      <4>4. Append(s, p) \o <<c>> = Append(Append(s, p), c)
        BY <2>1, <3>2, AppendIsConcat
      <4> QED
        BY <2>2, <4>2, <4>3, <4>4
    <3>4. IsPhase(a) /\ a.kind = "armed" /\ a.trigger = t
      BY DEF IsPhase, Armed
    <3>5. Tells(Append(s, p), a, t, r)
      BY <2>3, Predicting
    <3>6. Tells(Append(Append(s, p), Confirmed(t, a.trigger)), Rest(t), t, r)
      BY <2>1, <3>4, <3>5, Confirming
    <3> QED
      BY <3>1, <3>3, <3>4, <3>6, Zenon
  <2> QED
    BY <2>4, <2>5
<1> QED
  BY <1>2, <1>3, <1>4, <1>5, <1>6 DEF IsPhase

LEMMA ObserveTells ==
  ASSUME NEW s \in Seq(Alerts), NEW ph \in Phases, NEW t \in Nat, NEW r \in Nat,
         NEW triggers \in Nat, NEW errors \in Nat, Tells(s, ph, t, r)
  PROVE  LET d == Observe(ph, t, triggers, errors)
         IN Tells(s \o d.alerts, d.phase, t, r)
<1> DEFINE x == Expired(ph, t)
           f == Folded(x.phase, t, triggers, errors)
<1>1. x.phase \in Phases /\ x.alerts \in Seq(Alerts)
  BY ExpiredTypes
<1>2. Tells(s \o x.alerts, x.phase, t, r)
  BY ExpiredTells
<1>3. s \o x.alerts \in Seq(Alerts)
  BY <1>1
<1> HIDE DEF x
<1>4. f.phase \in Phases /\ f.alerts \in Seq(Alerts)
  BY <1>1, FoldedTypes
<1>5. Tells((s \o x.alerts) \o f.alerts, f.phase, t, r)
  BY <1>1, <1>2, <1>3, FoldedTells
<1>6. (s \o x.alerts) \o f.alerts = s \o (x.alerts \o f.alerts)
  BY <1>1, <1>4, Joined, Zenon
<1>7. /\ Observe(ph, t, triggers, errors).phase = f.phase
      /\ Observe(ph, t, triggers, errors).alerts = x.alerts \o f.alerts
  BY DEF Observe, x
<1> QED
  BY <1>5, <1>6, <1>7, Zenon

LEMMA ToldPoll == ASSUME TypeOK, ToldInv, Poll PROVE ToldInv'
<1> DEFINE d == Observe(phase, clock, unread.triggers, unread.errors)
           speaks == Fires(rate, clock, unread.errors) /\ RateMaySpeak(d)
           out == IF speaks THEN Append(d.alerts, Anomaly(clock)) ELSE d.alerts
           fires == Fires(rate, clock, unread.errors)
<1>1. /\ phase \in Phases /\ clock \in Nat /\ told \in Seq(Alerts)
      /\ unread.triggers \in Nat /\ unread.errors \in Nat
      /\ rate \in Rates /\ rate.until \in Nat
  BY Constants DEF TypeOK, Lines, Rates
<1>2. d.phase \in Phases /\ d.alerts \in Seq(Alerts)
  BY <1>1, ObserveTypes
<1>3. Tells(told \o d.alerts, d.phase, clock, rate.until)
  BY <1>1, ObserveTells DEF ToldInv
<1>4. phase' = d.phase /\ told' = told \o out /\ clock' = clock
  BY DEF Poll
<1>5. rate'.until = IF fires THEN RateRest(clock) ELSE rate.until
  BY DEF Poll, ObserveRate
<1>6. fires => rate.until <= clock
  BY <1>1, Constants DEF Fires, Streak
<1>7. RateRest(clock) \in Nat /\ clock <= RateRest(clock)
  BY <1>1, Constants DEF RateRest
<1>8. RateMaySpeak(d) => d.phase.kind = "idle"
  BY DEF RateMaySpeak
<1> HIDE DEF d, fires
<1>9. told \o d.alerts \in Seq(Alerts) /\ IsPhase(d.phase)
  BY <1>1, <1>2, IsAPhase
<1>10. CASE speaks
  <2>1. fires
    BY <1>10 DEF fires
  <2>2. Tells(Append(told \o d.alerts, Anomaly(clock)), d.phase, clock, RateRest(clock))
    BY <1>1, <1>3, <1>6, <1>8, <1>9, <1>10, <2>1, RateSpeaking
  <2>3. told \o Append(d.alerts, Anomaly(clock)) = Append(told \o d.alerts, Anomaly(clock))
    <3>1. Anomaly(clock) \in Alerts /\ <<Anomaly(clock)>> \in Seq(Alerts)
      BY <1>1, AlertTypes
    <3>2. Append(d.alerts, Anomaly(clock)) = d.alerts \o <<Anomaly(clock)>>
      BY <1>2, <3>1, AppendIsConcat, Zenon
    <3>3. Append(told \o d.alerts, Anomaly(clock)) = (told \o d.alerts) \o <<Anomaly(clock)>>
      BY <1>9, <3>1, AppendIsConcat, Zenon
    <3>4. (told \o d.alerts) \o <<Anomaly(clock)>> = told \o (d.alerts \o <<Anomaly(clock)>>)
      BY <1>1, <1>2, <3>1, Joined, Zenon
    <3> QED
      BY <3>2, <3>3, <3>4, Zenon
  <2> QED
    BY <1>4, <1>5, <1>10, <2>1, <2>2, <2>3, Zenon DEF ToldInv
<1>11. CASE ~speaks
  <2>1. rate'.until \in Nat /\ rate.until <= rate'.until
    BY <1>1, <1>5, <1>6, <1>7
  <2>2. Tells(told \o d.alerts, d.phase, clock, rate'.until)
    <3>1. clock <= clock
      BY <1>1
    <3> QED
      BY <1>1, <1>3, <1>9, <2>1, <3>1, SayingNothing, Zenon
  <2> QED
    BY <1>4, <1>11, <2>2, Zenon DEF ToldInv
<1> QED
  BY <1>10, <1>11

LEMMA ToldEmpty == \A t, r \in Nat : Tells(<<>>, Idle, t, r)
BY DEF Tells, Idle, Behind, Chained, Spaced

LEMMA ToldNext == ASSUME TypeOK, ToldInv, [Next]_vars PROVE ToldInv'
<1> USE Constants
<1>1. /\ IsPhase(phase) /\ clock \in Nat /\ told \in Seq(Alerts) /\ rate.until \in Nat
  BY IsAPhase DEF TypeOK, Rates
<1>2. CASE Start
  <2>1. told' = <<>> /\ phase' = Idle /\ clock' = clock /\ rate'.until = 0
    BY <1>2 DEF Start, NewRate
  <2> QED
    BY <1>1, <2>1, ToldEmpty DEF ToldInv
<1>3. CASE Poll
  BY <1>3, ToldPoll
<1>4. CASE Deliver \/ EndTick \/ Kill \/ UNCHANGED vars
  <2>1. told' = told /\ phase' = phase /\ clock' = clock /\ rate' = rate
    BY <1>4 DEF Deliver, EndTick, Kill, vars
  <2> QED
    BY <2>1 DEF ToldInv
<1>5. ASSUME NEW t \in 0..MaxTriggers, NEW e \in Bursts, Second(t, e)
      PROVE  ToldInv'
  <2>1. told' = told /\ phase' = phase /\ clock' = clock + 1 /\ rate' = rate
    BY <1>5 DEF Second
  <2>2. Tells(told, phase, clock + 1, rate.until)
    BY <1>1, SayingNothing DEF ToldInv
  <2> QED
    BY <2>1, <2>2 DEF ToldInv
<1> QED
  BY <1>2, <1>3, <1>4, <1>5 DEF Next

-----------------------------------------------------------------------------
(* What the readers of the snapshot see                                    *)

Newly == LastSaid(told)

\* The newest alert is the last to be delivered, and in the next snapshot.
NewestInv ==
  alive =>
    /\ alerts = <<>> => last = Newly
    /\ alerts # <<>> => pc = "deliver" /\ report /\ alerts[Len(alerts)] = Newly
    /\ pc = "sleep" \/ ~report => snapshot.alert = Newly

LEMMA NewestNext == ASSUME TypeOK, NewestInv, [Next]_vars PROVE NewestInv'
<1>1. /\ alerts \in Seq(Alerts) /\ told \in Seq(Alerts)
      /\ pc \in {"sleep", "deliver"} /\ report \in BOOLEAN
  BY DEF TypeOK
<1>2. CASE Start
  BY <1>2 DEF Start, NewestInv, Newly, LastSaid
<1>3. CASE Poll
  <2> DEFINE d == Observe(phase, clock, unread.triggers, unread.errors)
             speaks == Fires(rate, clock, unread.errors) /\ RateMaySpeak(d)
             out == IF speaks THEN Append(d.alerts, Anomaly(clock)) ELSE d.alerts
  <2>1. /\ alive /\ pc = "sleep" /\ pc' = "deliver" /\ last' = last /\ snapshot' = snapshot
        /\ alerts' = out /\ told' = told \o out /\ report' = Reports(out)
    BY <1>3 DEF Poll
  <2>2. out \in Seq(Alerts)
    <3>1. /\ phase \in Phases /\ clock \in Nat
          /\ unread.triggers \in Nat /\ unread.errors \in Nat
      BY Constants DEF TypeOK, Lines
    <3>2. d.alerts \in Seq(Alerts) /\ Anomaly(clock) \in Alerts
      BY <3>1, ObserveTypes, AlertTypes
    <3> HIDE DEF d
    <3> QED
      BY <3>2
  <2>3. alerts = <<>> /\ last = Newly /\ snapshot.alert = Newly
    BY <2>1 DEF NewestInv
  <2> HIDE DEF out
  <2>4. CASE out = <<>>
    <3>1. told' = told
      BY <1>1, <2>1, <2>4, ConcatEmptySeq
    <3> QED
      BY <2>1, <2>3, <2>4, <3>1 DEF NewestInv, Newly, LastSaid
  <2>5. CASE out # <<>>
    <3>1. report'
      BY <2>1, <2>5 DEF Reports
    <3>2. told' # <<>> /\ told'[Len(told')] = out[Len(out)]
      BY <1>1, <2>1, <2>2, <2>5
    <3> QED
      BY <2>1, <2>5, <3>1, <3>2 DEF NewestInv, Newly, LastSaid
  <2> QED
    BY <2>4, <2>5
<1>4. CASE Deliver
  <2>1. /\ alive' = alive /\ pc' = pc /\ report' = report /\ told' = told
        /\ snapshot' = snapshot /\ alerts # <<>>
        /\ last' = Head(alerts) /\ alerts' = Tail(alerts)
    BY <1>4 DEF Deliver, Newest, loopVars
  <2>2. CASE Len(alerts) = 1
    <3>1. alerts' = <<>> /\ last' = alerts[Len(alerts)]
      BY <1>1, <2>1, <2>2
    <3> QED
      BY <2>1, <3>1 DEF NewestInv, Newly
  <2>3. CASE Len(alerts) # 1
    <3>1. Len(alerts) \in Nat /\ Len(alerts) > 1
      <4>1. Len(alerts) # 0
        BY <1>1, <2>1, EmptySeq
      <4> QED
        BY <1>1, <2>3, <4>1
    <3>2. /\ Len(alerts') = Len(alerts) - 1
          /\ \A i \in 1..Len(alerts') : alerts'[i] = alerts[i + 1]
      BY <1>1, <2>1
    <3>3. alerts' # <<>> /\ alerts'[Len(alerts')] = alerts[Len(alerts)]
      BY <3>1, <3>2
    <3> QED
      BY <2>1, <3>3 DEF NewestInv, Newly
  <2> QED
    BY <2>2, <2>3
<1>5. CASE EndTick
  <2>1. /\ alive /\ alive' = alive /\ alerts = <<>> /\ alerts' = alerts /\ last' = last
        /\ told' = told /\ snapshot'.alert = IF report THEN last ELSE snapshot.alert
    BY <1>5 DEF EndTick
  <2> QED
    BY <1>1, <2>1 DEF NewestInv, Newly
<1>6. CASE Kill
  BY <1>6 DEF Kill, NewestInv
<1>7. ASSUME NEW t \in 0..MaxTriggers, NEW e \in Bursts, Second(t, e)
      PROVE  NewestInv'
  BY <1>7 DEF Second, NewestInv, Newly, loopVars
<1>8. CASE UNCHANGED vars
  BY <1>8 DEF vars, loopVars, NewestInv, Newly
<1> QED
  BY <1>2, <1>3, <1>4, <1>5, <1>6, <1>7, <1>8 DEF Next

LEMMA ToldAsPhase ==
  ASSUME Tolerant, TypeOK, TimeInv, ToldInv, NewestInv
  PROVE  ChatTellsPhase
<1> SUFFICES ASSUME alive, pc = "sleep", phase.kind # "idle", clock - Since <= AlertFresh
             PROVE  /\ Chat(clock) = IF phase.kind = "armed" THEN "predicted" ELSE "confirmed"
                    /\ Badge(clock) = "alerting"
  BY DEF ChatTellsPhase
<1> DEFINE a == snapshot.alert
<1>1. a = Newly /\ snapshot.made
  BY DEF NewestInv, TimeInv
<1>2. phase.kind \in {"armed", "cooldown"}
  BY DEF TypeOK, Phases
<1>3. /\ a.at = Since
      /\ a.kind = IF phase.kind = "armed" THEN "predicted" ELSE "confirmed"
  BY <1>1, <1>2 DEF ToldInv, Tells, Newly, Since, Predicted
<1>4. ActiveIncident(a, clock)
  BY <1>2, <1>3 DEF ActiveIncident
<1>5. clock - snapshot.updated <= SnapshotFresh /\ ~(clock - snapshot.updated > SnapshotFresh)
  BY UpToDate
<1>6. Chat(clock) = a.kind
  BY <1>1, <1>4, <1>5 DEF Chat, Surfaceable
<1>7. Badge(clock) = "alerting"
  BY <1>1, <1>4 DEF Badge
<1> QED
  BY <1>3, <1>6, <1>7

\* watch.rs:173-245, mod.rs:171-195 and daemon.rs:227-300, for every value of
\* the constants: what the alerts, the chat and the page say of an incident is
\* one chain, with its silence after it, and what the detector knows.
THEOREM WatcherTellsIncidents == ASSUME Tolerant PROVE Spec => []IncidentTold
<1> DEFINE Inv == TypeOK /\ TimeInv /\ ToldInv /\ NewestInv
<1>1. Init => Inv
  <2>1. Init => ToldInv
    BY ToldEmpty DEF Init, ToldInv, NewRate
  <2>2. Init => NewestInv
    BY DEF Init, NewestInv
  <2> QED
    BY <2>1, <2>2, TypeInit, TimeInit
<1>2. Inv /\ [Next]_vars => Inv'
  BY TypeNext, TimeNext, ToldNext, NewestNext
<1>3. Inv => IncidentTold
  <2>1. ToldInv => OneChain /\ AnomaliesApart
    BY DEF ToldInv, Tells, Chained, Spaced, OneChain, Answers, Rests, AnomaliesApart
  <2> QED
    BY <2>1, ToldAsPhase DEF IncidentTold
<1> QED
  BY <1>1, <1>2, <1>3, PTL DEF Spec

-----------------------------------------------------------------------------
(* Errors that come in time are counted before the watch stands down       *)

\* No later than this the log is polled next.
NextPoll == IF pc = "sleep" THEN wake ELSE now + MaxDelay + PollSecs

WatchInv ==
  alive =>
    /\ clock <= NextPoll
    /\ pc = "sleep" => wake <= clock + PollSecs
    /\ phase.kind = "armed" =>
         /\ landed <= phase.errors + unread.errors
         /\ landed > phase.errors => NextPoll < phase.until

\* A poll comes sooner than the time NoFalseClear leaves it.
Prompt == PollSecs + MaxDelay <= Margin

LEMMA FoldedSays ==
  ASSUME NEW ph \in Phases, NEW t \in Nat, NEW triggers \in Nat, NEW errors \in Nat
  PROVE  LET p == Predicted(t)
             c == Confirmed(t, IF ph.kind = "idle" THEN t ELSE ph.trigger)
         IN Folded(ph, t, triggers, errors).alerts \in
              {<<>>, <<p>>, Append(<<>>, c), Append(<<p>>, c)}
<1> DEFINE seen == Seen(ph, errors)
           first == IF ph.kind = "idle" THEN <<Predicted(t)>> ELSE <<>>
           c == Confirmed(t, IF ph.kind = "idle" THEN t ELSE ph.trigger)
<1>1. Folded(ph, t, triggers, errors).alerts \in {<<>>, first, Append(first, c)}
  <2>1. CASE ph.kind = "cooldown" \/ (ph.kind = "idle" /\ triggers = 0)
    BY <2>1 DEF Folded
  <2>2. CASE ph.kind # "cooldown" /\ (ph.kind = "armed" \/ triggers > 0)
    <3>1. Folded(ph, t, triggers, errors).alerts =
            IF Enough(seen) THEN Append(first, c) ELSE first
      BY <2>2 DEF Folded
    <3> HIDE DEF first, c, seen
    <3> QED
      BY <3>1
  <2> QED
    BY <2>1, <2>2 DEF Phases
<1>2. first \in {<<>>, <<Predicted(t)>>}
  OBVIOUS
<1> HIDE DEF first
<1> QED
  BY <1>1, <1>2, Zenon DEF c

\* A poll stands down only for a watch it finds armed and past its deadline.
LEMMA ClearWhenPast ==
  ASSUME NEW ph \in Phases, NEW t \in Nat, NEW triggers \in Nat, NEW errors \in Nat,
         NEW i \in 1..Len(Observe(ph, t, triggers, errors).alerts),
         Observe(ph, t, triggers, errors).alerts[i].kind = "clear"
  PROVE  ph.kind = "armed" /\ t >= ph.until
<1> DEFINE x == Expired(ph, t)
           f == Folded(x.phase, t, triggers, errors)
<1>1. x.phase \in Phases /\ x.alerts \in Seq(Alerts)
  BY ExpiredTypes
<1>2. x.alerts # <<>> => ph.kind = "armed" /\ t >= ph.until
  BY DEF Expired, Past, Unresolved
<1> HIDE DEF x
<1>3. f.alerts \in Seq(Alerts)
  BY <1>1, FoldedTypes
<1>4. \A j \in 1..Len(f.alerts) : f.alerts[j].kind # "clear"
  <2> DEFINE p == Predicted(t)
             c == Confirmed(t, IF x.phase.kind = "idle" THEN t ELSE x.phase.trigger)
  <2>1. f.alerts \in {<<>>, <<p>>, Append(<<>>, c), Append(<<p>>, c)}
    BY <1>1, FoldedSays
  <2>2. p.kind # "clear" /\ c.kind # "clear"
    BY DEF Predicted, Confirmed
  <2> HIDE DEF f, p, c
  <2> QED
    BY <2>1, <2>2
<1>5. Observe(ph, t, triggers, errors).alerts = x.alerts \o f.alerts
  BY DEF Observe, x
<1> HIDE DEF f
<1> SUFFICES ASSUME x.alerts = <<>> PROVE FALSE
  BY <1>2
<1>6. x.alerts \o f.alerts = f.alerts
  BY <1>3, ConcatEmptySeq
<1> QED
  BY <1>4, <1>5, <1>6

\* After a poll an armed watch has counted all errors it saw: those it had and
\* those of the poll if it goes on, those of the poll if it is new.
LEMMA CountsWhatItSaw ==
  ASSUME NEW ph \in Phases, NEW t \in Nat, NEW triggers \in Nat, NEW errors \in Nat,
         Observe(ph, t, triggers, errors).phase.kind = "armed"
  PROVE  LET d == Observe(ph, t, triggers, errors)
         IN \/ d.alerts # <<>> /\ d.phase.errors = errors
            \/ d.alerts = <<>> /\ ph.kind = "armed" /\ d.phase.errors = ph.errors + errors
<1> DEFINE x == Expired(ph, t)
           f == Folded(x.phase, t, triggers, errors)
           d == Observe(ph, t, triggers, errors)
<1>1. x.phase \in Phases /\ x.alerts \in Seq(Alerts)
  BY ExpiredTypes
<1>2. (x.phase = ph /\ x.alerts = <<>>) \/ x.phase = Idle
  BY DEF Expired
<1>3. d.phase = f.phase /\ d.alerts = x.alerts \o f.alerts
  BY DEF Observe
<1> HIDE DEF x
<1>4. f.alerts \in Seq(Alerts)
  BY <1>1, FoldedTypes
<1>5. f.phase.kind = "armed"
  BY <1>3
<1> DEFINE seen == Seen(x.phase, errors)
<1>6. CASE x.phase.kind = "armed"
  <2>1. f.phase.errors = x.phase.errors + errors /\ f.alerts = <<>>
    BY <1>5, <1>6 DEF Folded, Extended, Armed, Seen, Rest, Cooldown
  <2>2. x.phase = ph /\ x.alerts = <<>>
    BY <1>2, <1>6 DEF Idle
  <2> QED
    BY <1>3, <2>1, <2>2, <1>6
<1>7. CASE x.phase.kind = "idle"
  <2>1. f.phase.errors = errors /\ f.alerts = <<Predicted(t)>>
    BY <1>5, <1>7 DEF Folded, Armed, Seen, Rest, Cooldown
  <2> HIDE DEF f
  <2>2. x.alerts \o f.alerts # <<>>
    BY <1>1, <1>4, <2>1
  <2> QED
    BY <1>3, <2>1, <2>2
<1>8. CASE x.phase.kind = "cooldown"
  BY <1>5, <1>8 DEF Folded
<1> QED
  BY <1>1, <1>6, <1>7, <1>8 DEF Phases

LEMMA WatchPoll == ASSUME TypeOK, TimeInv, WatchInv, Poll PROVE WatchInv'
<1> DEFINE d == Observe(phase, clock, unread.triggers, unread.errors)
           speaks == Fires(rate, clock, unread.errors) /\ RateMaySpeak(d)
           out == IF speaks THEN Append(d.alerts, Anomaly(clock)) ELSE d.alerts
<1>1. /\ phase \in Phases /\ clock \in Nat /\ landed \in Nat /\ wake \in Nat
      /\ unread.triggers \in Nat /\ unread.errors \in Nat
  BY Constants DEF TypeOK, Lines
<1>2. /\ alive /\ pc = "sleep" /\ pc' = "deliver" /\ now' = clock /\ clock' = clock
      /\ unread' = Nothing /\ phase' = d.phase
      /\ landed' = CASE d.phase.kind # "armed" -> 0
                     [] d.phase.kind = "armed" /\ d.alerts # <<>> -> unread.errors
                     [] d.phase.kind = "armed" /\ d.alerts = <<>> -> landed
  BY DEF Poll
<1>3. d.phase \in Phases
  BY <1>1, ObserveTypes
<1>4. d.phase.kind = "armed" =>
        \/ d.alerts # <<>> /\ d.phase.errors = unread.errors
        \/ /\ d.alerts = <<>> /\ phase.kind = "armed"
           /\ d.phase.errors = phase.errors + unread.errors
  BY <1>1, CountsWhatItSaw
<1>5. unread'.errors = 0
  BY <1>2 DEF Nothing
<1>6. phase.kind = "armed" => landed <= phase.errors + unread.errors
  BY <1>2 DEF WatchInv
<1> HIDE DEF d
<1>7. d.phase.kind = "armed" => landed' <= d.phase.errors
  BY <1>1, <1>2, <1>4, <1>6
<1>8. d.phase.errors \in Nat /\ landed' \in Nat
  BY <1>1, <1>2, <1>3 DEF Phases
<1>9. clock' <= NextPoll'
  BY <1>1, <1>2, Constants DEF NextPoll
<1>10. phase'.kind = "armed" => landed' <= phase'.errors + unread'.errors
                                /\ ~(landed' > phase'.errors)
  BY <1>2, <1>5, <1>7, <1>8
<1> QED
  BY <1>2, <1>9, <1>10 DEF WatchInv

LEMMA WatchNext ==
  ASSUME Prompt, TypeOK, TimeInv, WatchInv, [Next]_vars
  PROVE  WatchInv'
<1> USE Constants
<1>1. /\ phase \in Phases /\ phase.errors \in Nat /\ phase.until \in Nat
      /\ clock \in Nat /\ now \in Nat /\ wake \in Nat
      /\ landed \in Nat /\ unread.errors \in Nat /\ pc \in {"sleep", "deliver"}
  BY DEF TypeOK, Lines, Phases
<1>2. CASE Start
  BY <1>1, <1>2 DEF Start, WatchInv, NextPoll, Idle
<1>3. CASE Poll
  BY <1>3, WatchPoll
<1>4. CASE Deliver
  BY <1>4 DEF Deliver, WatchInv, NextPoll, loopVars
<1>5. CASE EndTick
  <2>1. /\ alive /\ pc = "deliver" /\ pc' = "sleep" /\ clock' = clock
        /\ wake' = clock + PollSecs
        /\ phase' = phase /\ unread' = unread /\ landed' = landed
    BY <1>5 DEF EndTick
  <2>2. clock <= now + MaxDelay
    BY <2>1 DEF TimeInv, DeliverInv
  <2> QED
    BY <1>1, <2>1, <2>2 DEF WatchInv, NextPoll
<1>6. CASE Kill
  BY <1>6 DEF Kill, WatchInv
<1>7. ASSUME NEW t \in 0..MaxTriggers, NEW e \in Bursts, Second(t, e), alive
      PROVE  WatchInv'
  <2>1. /\ clock' = clock + 1 /\ pc' = pc /\ now' = now /\ wake' = wake /\ phase' = phase
        /\ unread'.errors = unread.errors + e /\ InTime /\ e \in Nat
        /\ landed' = IF phase.kind = "armed" /\ clock + Margin < phase.until
                     THEN landed + e ELSE landed
    BY <1>7 DEF Second, loopVars
  <2>2. clock' <= NextPoll' /\ NextPoll' = NextPoll /\ NextPoll \in Nat
    <3>1. CASE pc = "sleep"
      BY <1>1, <2>1, <3>1 DEF NextPoll, InTime
    <3>2. CASE pc = "deliver"
      BY <1>1, <2>1, <3>2 DEF NextPoll, InTime
    <3> QED
      BY <1>1, <3>1, <3>2
  <2>3. now <= clock /\ (pc = "sleep" => wake <= clock + PollSecs)
    BY <1>7 DEF WatchInv, TypeOK
  <2>4. NextPoll <= clock + Margin
    BY <1>1, <2>3, PalantirAssumption DEF NextPoll, Prompt
  <2>5. ASSUME phase.kind = "armed"
        PROVE  /\ landed' <= phase.errors + unread'.errors
               /\ landed' > phase.errors => NextPoll < phase.until
    <3>1. /\ landed <= phase.errors + unread.errors
          /\ landed > phase.errors => NextPoll < phase.until
      BY <1>7, <2>5 DEF WatchInv
    <3>2. Margin \in Nat
      BY PalantirAssumption
    <3> QED
      BY <1>1, <2>1, <2>2, <2>4, <2>5, <3>1, <3>2
  <2> QED
    BY <1>1, <1>7, <2>1, <2>2, <2>3, <2>5 DEF WatchInv
<1>8. ASSUME NEW t \in 0..MaxTriggers, NEW e \in Bursts, Second(t, e), ~alive
      PROVE  WatchInv'
  BY <1>8 DEF Second, WatchInv
<1>9. CASE UNCHANGED vars
  BY <1>9 DEF vars, loopVars, WatchInv, NextPoll
<1> QED
  BY <1>2, <1>3, <1>4, <1>5, <1>6, <1>7, <1>8, <1>9 DEF Next

LEMMA StandsDownQuiet ==
  ASSUME TypeOK, TimeInv, WatchInv, [Next]_vars, StandsDown
  PROVE  landed < Confirm
<1>1. told \in Seq(Alerts)
  BY DEF TypeOK
<1>2. PICK i \in (Len(told) + 1)..Len(told') : told'[i].kind = "clear"
  BY DEF StandsDown
<1>3. Poll
  <2>1. told' # told /\ Len(told') > Len(told)
    BY <1>1, <1>2
  <2>2. ~Start
    BY <1>1, <2>1 DEF Start
  <2> QED
    BY <2>1, <2>2 DEF Next, Deliver, EndTick, Second, Kill, vars
<1> DEFINE d == Observe(phase, clock, unread.triggers, unread.errors)
           speaks == Fires(rate, clock, unread.errors) /\ RateMaySpeak(d)
           out == IF speaks THEN Append(d.alerts, Anomaly(clock)) ELSE d.alerts
<1>4. /\ phase \in Phases /\ clock \in Nat /\ wake \in Nat /\ landed \in Nat
      /\ unread.triggers \in Nat /\ unread.errors \in Nat
  BY Constants DEF TypeOK, Lines
<1>5. told' = told \o out /\ alive /\ pc = "sleep" /\ clock >= wake
  BY <1>3 DEF Poll
<1>6. d.alerts \in Seq(Alerts) /\ Anomaly(clock) \in Alerts /\ Anomaly(clock).kind # "clear"
  BY <1>4, ObserveTypes, AlertTypes DEF Anomaly
<1> HIDE DEF d
<1>7. PICK j \in 1..Len(out) : out[j].kind = "clear"
  <2>1. out \in Seq(Alerts)
    BY <1>6
  <2> HIDE DEF out
  <2>2. i - Len(told) \in 1..Len(out) /\ told'[i] = out[i - Len(told)]
    BY <1>1, <1>2, <1>5, <2>1
  <2> QED
    BY <1>2, <2>2
<1>8. j \in 1..Len(d.alerts) /\ d.alerts[j].kind = "clear"
  BY <1>6, <1>7
<1>9. phase.kind = "armed" /\ clock >= phase.until
  BY <1>4, <1>8, ClearWhenPast DEF d
<1>10. clock = wake
  BY <1>4, <1>5 DEF TimeInv, SleepInv
<1>11. ~(landed > phase.errors)
  BY <1>4, <1>5, <1>9, <1>10 DEF WatchInv, NextPoll, Phases
<1>12. phase.errors \in Nat /\ phase.errors < Confirm
  BY <1>4, <1>9 DEF Phases
<1> QED
  BY <1>4, <1>11, <1>12, Constants

\* watch.rs:7-8 of a watcher that polls promptly enough: for every value of the
\* constants it never stands down for a window in which enough errors came to
\* the log with time to poll them.
THEOREM WatcherHearsOut == ASSUME Prompt PROVE Spec => NoFalseClear
<1> DEFINE Inv == TypeOK /\ TimeInv /\ WatchInv
<1>1. Init => Inv
  BY TypeInit, TimeInit DEF Init, WatchInv
<1>2. Inv /\ [Next]_vars => Inv'
  BY TypeNext, TimeNext, WatchNext
<1>3. Inv /\ [Next]_vars => [StandsDown => landed < Confirm]_vars
  BY StandsDownQuiet
<1> QED
  BY <1>1, <1>2, <1>3, PTL DEF Spec, NoFalseClear
=============================================================================
