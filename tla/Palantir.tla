------------------------------ MODULE Palantir ------------------------------
(***************************************************************************)
(* The log watcher of src/palantir: the loop of mod.rs that polls a log,   *)
(* the trigger detector and the rate detector of watch.rs, the snapshot of *)
(* daemon.rs, and what the chat and the web page make of that snapshot.    *)
(*                                                                         *)
(* Time is in whole seconds, as in now_epoch().  A second brings some      *)
(* trigger lines and some error lines to the log; a poll reads those that  *)
(* came since the last one (module-level abstraction of tail.rs: complete  *)
(* lines, each read once).  Delivering the alerts of a poll to the sinks   *)
(* takes up to MaxDelay seconds, and the loop sleeps PollSecs after that.  *)
(*                                                                         *)
(* `told' is a history: the alerts of this run of the watcher, in order.   *)
(* `landed' is one too: the errors that came to the log under the watch    *)
(* that is armed, more than Margin seconds before its deadline.            *)
(***************************************************************************)
EXTENDS Integers, Sequences, FiniteSets

CONSTANTS
  Window, Confirm,           \* Detector: window (and cooldown) and threshold
  K, MinStreak,              \* RateDetector: rate_knobs
  Warmup, RateWindow, Floor, RateCooldown,
  PollSecs, Heartbeat,       \* --poll, and a snapshot every so many polls
  SnapshotFresh, AlertFresh, ClearFresh,
  Margin,                    \* see `landed'
  Bursts, MaxTriggers,       \* bound: error and trigger lines in one second
  MaxDelay,                  \* bound: seconds the sinks take
  MaxStarts,                 \* bound: starts of the watcher
  MaxClock                   \* bound: seconds

ASSUME PalantirAssumption ==
  /\ {Window, Confirm, K, MinStreak, Warmup, RateWindow, RateCooldown,
      PollSecs, Heartbeat} \subseteq Nat \ {0}
  /\ {Floor, SnapshotFresh, AlertFresh, ClearFresh, Margin} \subseteq Nat
  /\ Bursts \subseteq Nat
  /\ {MaxTriggers, MaxDelay, MaxStarts, MaxClock} \subseteq Nat

VARIABLES
  clock,            \* the time
  alive, starts,    \* whether the watcher runs, and how often it was started
  unread,           \* lines in the log the watcher has not polled
  pc, now, wake,    \* the loop: where it is, its `now', when the sleep ends
  tick, report,     \* tick % Heartbeat; whether this tick writes a snapshot
  phase,            \* Detector.phase
  rate,             \* RateDetector
  alerts, last,     \* alerts to be delivered; last_alert
  snapshot,         \* <name>.json
  told, landed      \* histories

loopVars == <<pc, now, wake, tick, report>>
vars == <<clock, alive, starts, unread, loopVars, phase, rate, alerts, last,
          snapshot, told, landed>>

-----------------------------------------------------------------------------
(* Alerts, with the time Alert::at() gives them.                           *)

Predicted(t) == [kind |-> "predicted", at |-> t, trigger |-> t]
Confirmed(t, trigger) == [kind |-> "confirmed", at |-> t, trigger |-> trigger]
Clear(trigger) == [kind |-> "clear", at |-> trigger + Window, trigger |-> trigger]
Anomaly(t) == [kind |-> "anomaly", at |-> t, trigger |-> 0]
NoAlert == [kind |-> "none", at |-> 0, trigger |-> 0]

-----------------------------------------------------------------------------
(* Detector::observe: expire the phase, then fold in what the tick saw.    *)

Idle == [kind |-> "idle", trigger |-> 0, until |-> 0, errors |-> 0]
Armed(trigger, until, errors) ==
  [kind |-> "armed", trigger |-> trigger, until |-> until, errors |-> errors]
Cooldown(until) == [kind |-> "cooldown", trigger |-> 0, until |-> until, errors |-> 0]

Past(ph, t) == ph.kind # "idle" /\ t >= ph.until
Enough(errors) == errors >= Confirm
Unresolved(ph) == ph.kind = "armed" /\ ph.errors < Confirm

Expired(ph, t) ==
  [phase |-> IF Past(ph, t) THEN Idle ELSE ph,
   alerts |-> IF Past(ph, t) /\ Unresolved(ph) THEN <<Clear(ph.trigger)>> ELSE <<>>]

\* A confirmed cascade is not reported again for as long as the window.
Rest(t) == Cooldown(t + Window)

\* The errors of the polls under one watch add up.
ThisTickOnly(ph, errors) == errors
Seen(ph, errors) == IF ph.kind = "armed" THEN ph.errors + errors ELSE errors

\* A trigger under an armed watch extends it and predicts nothing new.
Extended(ph, t, seen, triggers) ==
  Armed(ph.trigger, IF triggers > 0 THEN t + Window ELSE ph.until, seen)

Folded(ph, t, triggers, errors) ==
  LET seen == Seen(ph, errors)
      first == IF ph.kind = "idle" THEN <<Predicted(t)>> ELSE <<>>
      trigger == IF ph.kind = "idle" THEN t ELSE ph.trigger
  IN CASE ph.kind = "cooldown" \/ (ph.kind = "idle" /\ triggers = 0) ->
            [phase |-> ph, alerts |-> <<>>]
       [] ph.kind # "cooldown" /\ (ph.kind = "armed" \/ triggers > 0) ->
            IF Enough(seen)
            THEN [phase |-> Rest(t), alerts |-> Append(first, Confirmed(t, trigger))]
            ELSE [phase |-> IF ph.kind = "idle" THEN Armed(t, t + Window, seen)
                            ELSE Extended(ph, t, seen, triggers),
                  alerts |-> first]

Observe(ph, t, triggers, errors) ==
  LET x == Expired(ph, t)
      f == Folded(x.phase, t, triggers, errors)
  IN [phase |-> f.phase, alerts |-> x.alerts \o f.alerts]

-----------------------------------------------------------------------------
(* RateDetector::observe.  The median of a window is a half-integer and    *)
(* the median of the deviations a quarter-integer, so both are scaled.     *)

OrderStatistic(xs, k) ==
  CHOOSE v \in {xs[i] : i \in DOMAIN xs} :
    /\ Cardinality({i \in DOMAIN xs : xs[i] < v}) < k
    /\ Cardinality({i \in DOMAIN xs : xs[i] <= v}) >= k

\* Twice the median of a non-empty sequence.
Median2(xs) ==
  LET n == Len(xs) IN
  OrderStatistic(xs, (n + 1) \div 2) + OrderStatistic(xs, n \div 2 + 1)

Distance(a, b) == IF a < b THEN b - a ELSE a - b
Mad4(xs) == Median2([i \in DOMAIN xs |-> Distance(2 * xs[i], Median2(xs))])
AtLeast(a, b) == IF a < b THEN b ELSE a

Abnormal(xs, errors) ==
  /\ errors >= Floor
  /\ 4 * errors > 2 * Median2(xs) + K * AtLeast(Mad4(xs), 4)

NewRate == [window |-> <<>>, streak |-> 0, until |-> 0]

Pushed(xs, errors) ==
  LET ys == Append(xs, errors) IN IF Len(ys) > RateWindow THEN Tail(ys) ELSE ys

Streak(r, t, errors) ==
  IF t >= r.until /\ Len(r.window) >= Warmup /\ Abnormal(r.window, errors)
  THEN r.streak + 1 ELSE 0

Fires(r, t, errors) == Streak(r, t, errors) >= MinStreak

\* The cooldown starts with the alert.
RateRest(t) == t + RateCooldown

ObserveRate(r, t, errors) ==
  [window |-> Pushed(r.window, errors),
   streak |-> IF Fires(r, t, errors) THEN 0 ELSE Streak(r, t, errors),
   until |-> IF Fires(r, t, errors) THEN RateRest(t) ELSE r.until]

-----------------------------------------------------------------------------
(* The readers: recent_observations for the chat, status_json for the page *)

NoSnapshot == [made |-> FALSE, updated |-> 0, alert |-> NoAlert]

ActiveIncident(a, t) ==
  /\ a.kind \notin {"none", "clear"}
  /\ t - a.at <= AlertFresh

Surfaceable(a, t) ==
  \/ ActiveIncident(a, t)
  \/ a.kind = "clear" /\ t - a.at <= ClearFresh

Chat(t) ==
  CASE ~snapshot.made \/ t - snapshot.updated > SnapshotFresh -> "nothing"
    [] snapshot.made /\ t - snapshot.updated <= SnapshotFresh ->
         IF Surfaceable(snapshot.alert, t) THEN snapshot.alert.kind ELSE "allClear"

Badge(t) ==
  CASE ~alive -> "absent"
    [] alive -> IF snapshot.made /\ ActiveIncident(snapshot.alert, t)
                THEN "alerting" ELSE "watching"

-----------------------------------------------------------------------------
(* run_watch                                                               *)

Nothing == [triggers |-> 0, errors |-> 0]

Init ==
  /\ clock = 0
  /\ alive = FALSE
  /\ starts = 0
  /\ unread = Nothing
  /\ pc = "sleep"
  /\ now = 0
  /\ wake = 0
  /\ tick = 0
  /\ report = FALSE
  /\ phase = Idle
  /\ rate = NewRate
  /\ alerts = <<>>
  /\ last = NoAlert
  /\ snapshot = NoSnapshot
  /\ told = <<>>
  /\ landed = 0

\* Up to the loop: the detectors are new, and the tail starts at the end of
\* the file.
Start ==
  /\ ~alive
  /\ starts < MaxStarts
  /\ alive' = TRUE
  /\ starts' = starts + 1
  /\ unread' = Nothing
  /\ pc' = "sleep"
  /\ now' = clock
  /\ wake' = clock + PollSecs
  /\ tick' = 0
  /\ report' = FALSE
  /\ phase' = Idle
  /\ rate' = NewRate
  /\ alerts' = <<>>
  /\ last' = NoAlert
  /\ snapshot' = [made |-> TRUE, updated |-> clock, alert |-> NoAlert]
  /\ told' = <<>>
  /\ landed' = 0
  /\ UNCHANGED clock

\* While a trigger incident is tracked the rate alert is dropped, and its
\* cooldown runs all the same.
BothSpeak(d) == TRUE
RateMaySpeak(d) == d.phase.kind = "idle"

\* A snapshot at every alert, and a heartbeat.
AlertsOnly(out) == out # <<>>
Reports(out) == out # <<>> \/ (tick + 1) % Heartbeat = 0

Poll ==
  /\ alive
  /\ pc = "sleep"
  /\ clock >= wake
  /\ LET d == Observe(phase, clock, unread.triggers, unread.errors)
         speaks == Fires(rate, clock, unread.errors) /\ RateMaySpeak(d)
         out == IF speaks THEN Append(d.alerts, Anomaly(clock)) ELSE d.alerts
     IN /\ phase' = d.phase
        /\ alerts' = out
        /\ told' = told \o out
        /\ report' = Reports(out)
        /\ landed' = CASE d.phase.kind # "armed" -> 0
                       [] d.phase.kind = "armed" /\ d.alerts # <<>> -> unread.errors
                       [] d.phase.kind = "armed" /\ d.alerts = <<>> -> landed
  /\ rate' = ObserveRate(rate, clock, unread.errors)
  /\ tick' = (tick + 1) % Heartbeat
  /\ now' = clock
  /\ unread' = Nothing
  /\ pc' = "deliver"
  /\ UNCHANGED <<clock, alive, starts, wake, last, snapshot>>

\* One alert, to every sink.
Newest == Head(alerts)

Deliver ==
  /\ alive
  /\ pc = "deliver"
  /\ alerts # <<>>
  /\ last' = Newest
  /\ alerts' = Tail(alerts)
  /\ UNCHANGED <<clock, alive, starts, unread, loopVars, phase, rate, snapshot, told, landed>>

EndTick ==
  /\ alive
  /\ pc = "deliver"
  /\ alerts = <<>>
  /\ snapshot' = IF report THEN [made |-> TRUE, updated |-> now, alert |-> last]
                 ELSE snapshot
  /\ wake' = clock + PollSecs
  /\ pc' = "sleep"
  /\ UNCHANGED <<clock, alive, starts, unread, now, tick, report, phase, rate,
                 alerts, last, told, landed>>

-----------------------------------------------------------------------------
(* The world                                                               *)

\* A second passes.  The loop sleeps no longer than it has to, and the sinks
\* return within MaxDelay.
InTime ==
  CASE pc = "sleep" -> clock < wake
    [] pc = "deliver" -> clock < now + MaxDelay

Second(triggers, errors) ==
  /\ clock < MaxClock
  /\ alive => InTime
  /\ clock' = clock + 1
  /\ unread' = [triggers |-> unread.triggers + triggers, errors |-> unread.errors + errors]
  /\ landed' = IF phase.kind = "armed" /\ clock + Margin < phase.until
               THEN landed + errors ELSE landed
  /\ UNCHANGED <<alive, starts, loopVars, phase, rate, alerts, last, snapshot, told>>

Kill ==
  /\ alive
  /\ alive' = FALSE
  /\ UNCHANGED <<clock, starts, unread, loopVars, phase, rate, alerts, last,
                 snapshot, told, landed>>

Next ==
  \/ Start \/ Poll \/ Deliver \/ EndTick \/ Kill
  \/ \E t \in 0..MaxTriggers, e \in Bursts : Second(t, e)

Spec == Init /\ [][Next]_vars

-----------------------------------------------------------------------------
(* Properties                                                              *)

Kinds == {"none", "predicted", "confirmed", "clear", "anomaly"}
Alerts == [kind : Kinds, at : Nat, trigger : Nat]
Lines == [triggers : Nat, errors : Nat]
Phases ==
  {ph \in [kind : {"idle", "armed", "cooldown"}, trigger : Nat, until : Nat, errors : Nat] :
     ph.kind = "armed" => ph.errors < Confirm}
Rates ==
  {r \in [window : Seq(Nat), streak : 0..(MinStreak - 1), until : Nat] :
     Len(r.window) <= RateWindow}
Snapshots == [made : BOOLEAN, updated : Nat, alert : Alerts]

TypeOK ==
  /\ clock \in 0..MaxClock
  /\ alive \in BOOLEAN
  /\ starts \in 0..MaxStarts
  /\ unread \in Lines
  /\ pc \in {"sleep", "deliver"}
  /\ now \in 0..clock
  /\ wake \in Nat
  /\ tick \in 0..(Heartbeat - 1)
  /\ report \in BOOLEAN
  /\ phase \in Phases
  /\ rate \in Rates
  /\ alerts \in Seq(Alerts)
  /\ last \in Alerts
  /\ snapshot \in Snapshots
  /\ told \in Seq(Alerts)
  /\ landed \in Nat

\* One incident, one alert chain: a confirmation or a stand-down answers the
\* prediction before it, nothing else is announced in between, and after a
\* confirmation there is silence for a whole window.
Answers(i) ==
  told[i].kind \in {"confirmed", "clear"} =>
    /\ i > 1
    /\ told[i - 1].kind = "predicted"
    /\ told[i - 1].trigger = told[i].trigger
Rests(i, j) ==
  (told[i].kind = "confirmed" /\ i < j) => told[j].at >= told[i].at + Window
OneChain ==
  \A i \in 1..Len(told) :
    /\ Answers(i)
    /\ \A j \in 1..Len(told) : Rests(i, j)

\* Two rate alerts are a cooldown apart.
AnomaliesApart ==
  \A i, j \in 1..Len(told) :
    (told[i].kind = "anomaly" /\ told[j].kind = "anomaly" /\ i < j) =>
      told[j].at >= told[i].at + RateCooldown

\* watch.rs:7-8: "If errors then appear inside the window we escalate; if the
\* window passes quiet we stand down."  No stand-down for a window in which
\* enough errors came to the log, Margin seconds or more before its deadline.
StandsDown == \E i \in (Len(told) + 1)..Len(told') : told'[i].kind = "clear"
NoFalseClear == [][StandsDown => landed < Confirm]_vars

\* daemon.rs:208-209: "a stale snapshot means a dead/hung daemon".  A watcher
\* that lives is never taken for a dead one.
LiveIsFresh == alive => Chat(clock) # "nothing"

\* Between two polls the chat and the page agree with the detector, as long as
\* the incident is not older than AlertFresh: an armed watch shows as the
\* prediction, a confirmed cascade as confirmed, never as an all-clear.
Since == IF phase.kind = "armed" THEN phase.trigger ELSE phase.until - Window
ChatTellsPhase ==
  alive /\ pc = "sleep" /\ phase.kind # "idle" /\ clock - Since <= AlertFresh =>
    /\ Chat(clock) = IF phase.kind = "armed" THEN "predicted" ELSE "confirmed"
    /\ Badge(clock) = "alerting"

\* What is said of an incident, by the alerts and by the readers of the
\* snapshot: alerts in chains, anomalies apart, the phase as it is.
IncidentTold == OneChain /\ AnomaliesApart /\ ChatTellsPhase

=============================================================================
