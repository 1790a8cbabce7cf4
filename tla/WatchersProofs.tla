--------------------------- MODULE WatchersProofs ---------------------------
(***************************************************************************)
(* One watcher under one name, the lines of its tail and the order of its  *)
(* sinks, for any number of watchers and stops, any log and any sinks.     *)
(* Three inductive invariants, each over the variables it is about.        *)
(***************************************************************************)
EXTENDS Watchers, SequenceTheorems, TLAPS

Act(w) ==
  \/ Check(w) \/ Daemonize(w) \/ WritePid(w) \/ AtEnd(w)
  \/ TruncateTmp(w) \/ FillTmp(w) \/ Rename(w)
  \/ Stat(w) \/ ReadAppended(w) \/ Observe(w) \/ Deliver(w) \/ EndTick(w)
  \/ Hang(w) \/ Die(w)
Stops(s) == ReadPid(s) \/ Sigterm(s) \/ RemovePid(s) \/ RemoveSnapshot(s)

-----------------------------------------------------------------------------
(* One watcher at a time                                                   *)

Labels == {"new", "exited", "killed", "detach", "pid", "write", "fill", "rename", "tail",
           "sleep", "read", "observe", "deliver", "hung"}
Own(w) == {<<w, "launched">>, <<w, "detached">>}

OneType ==
  /\ pc \in [Watcher -> Labels]
  /\ DOMAIN pid = Watcher
  /\ spc \in [Stopper -> {"ready", "kill", "removePid", "removeSnapshot", "done"}]
  /\ DOMAIN target = Stopper
  /\ doomed \subseteq Watcher
  /\ snap \in {"none", "torn", "whole"}
  /\ tmp \in {"none", "torn", "whole"}
  /\ mixed \in BOOLEAN

PidsApart == \A w \in Watcher : pc[w] # "new" => pid[w] \in Own(w)

\* The pid file names the watcher that runs, unless a stop is done with it.
PidKept ==
  /\ \A v, w \in Running : v = w
  /\ \A w \in Watching : w \notin doomed => pidFile = pid[w]
  /\ doomed \subseteq Watching

\* Once a stop has read the pid, nobody starts until it is done.
StopKept ==
  \A s \in Stopping :
    /\ Starting = {}
    /\ spc[s] = "kill" => \A w \in Running : w \in doomed \/ target[s] = pid[w]
    /\ spc[s] \in {"removePid", "removeSnapshot"} => Running \subseteq doomed

SnapKept ==
  /\ snap # "torn"
  /\ \A w \in Watcher : pc[w] = "fill" => tmp = "torn"
  /\ \A w \in Watcher : pc[w] = "rename" => tmp = "whole"

OneInv ==
  /\ OneType
  /\ PidsApart
  /\ ~mixed => PidKept /\ StopKept /\ SnapKept

LEMMA InitOne == Init => OneInv
<1> SUFFICES ASSUME Init PROVE OneInv
  OBVIOUS
<1>1. OneType /\ PidsApart
  BY DEF Init, OneType, Labels, PidsApart
<1>2. Running = {} /\ Watching = {} /\ Stopping = {}
  BY DEF Init, Running, Watching, Stopping, Gone
<1>3. PidKept /\ StopKept
  BY <1>2 DEF Init, PidKept, StopKept
<1>4. SnapKept
  BY DEF Init, SnapKept
<1> QED BY <1>1, <1>3, <1>4 DEF OneInv

\* A start that is not refused, with nothing else half-way, meets no watcher.
LEMMA NobodyRuns ==
  ASSUME OneInv, ~mixed, ~AlreadyRunning, Starting = {}, doomed = {}
  PROVE  Running = {}
<1> SUFFICES ASSUME NEW w \in Running PROVE FALSE
  OBVIOUS
<1>1. w \in Watching
  BY DEF Watching, Starting, Running
<1>2. pidFile = pid[w]
  BY <1>1 DEF OneInv, PidKept
<1>3. pid[w] \in Own(w)
  BY DEF OneInv, PidsApart, Running, Gone
<1>4. pid[w] # NoPid
  BY <1>3 DEF Own, NoPid
<1> QED BY <1>2, <1>4 DEF AlreadyRunning, IsAlive

oneVars == <<pc, pid, pidFile, snap, tmp, doomed, spc, target, mixed>>

\* The steps of the loop only move a running watcher about.
LEMMA LoopOne ==
  ASSUME NEW w \in Watcher, OneInv,
         UNCHANGED <<filesVars, pid, doomed, stopVars, mixed>>,
         pc[w] \notin Gone \cup {"detach", "pid"},
         NEW l \in Labels \ {"new", "exited", "killed", "detach", "pid", "fill", "rename"},
         pc' = [pc EXCEPT ![w] = l]
  PROVE  OneInv'
<1>1. OneType' /\ PidsApart'
  BY DEF OneInv, OneType, PidsApart, filesVars, stopVars, Gone
<1>2. Running' = Running /\ Starting' = Starting /\ Watching' = Watching /\ Stopping' = Stopping
  BY DEF OneInv, OneType, Running, Starting, Watching, Stopping, Gone, stopVars
<1>3. ASSUME ~mixed PROVE PidKept' /\ StopKept'
  BY <1>2, <1>3 DEF OneInv, PidKept, StopKept, filesVars, stopVars
<1>4. ASSUME ~mixed PROVE SnapKept'
  BY <1>4 DEF OneInv, OneType, SnapKept, filesVars
<1> QED BY <1>1, <1>3, <1>4 DEF OneInv

LEMMA CheckOne == ASSUME NEW w \in Watcher, OneInv, Check(w) PROVE OneInv'
<1> USE DEF Check, Goto
<1>1. OneType' /\ PidsApart'
  BY DEF OneInv, OneType, Labels, PidsApart, Own, filesVars, stopVars
<1>2. CASE AlreadyRunning
  <2>1. pc' = [pc EXCEPT ![w] = "exited"] /\ mixed' = mixed
    <3>1. mixed' = mixed
      BY <1>2 DEF OneInv, OneType
    <3> QED BY <1>2, <3>1
  <2>2. Running' = Running /\ Starting' = Starting /\ Watching' = Watching /\ Stopping' = Stopping
    BY <2>1 DEF OneInv, OneType, Running, Starting, Watching, Stopping, Gone, stopVars
  <2>3. \A v \in Running : pid'[v] = pid[v]
    BY DEF OneInv, OneType, Running, Gone
  <2>4. ASSUME ~mixed PROVE PidKept' /\ StopKept'
    <3>1. PidKept'
      BY <2>2, <2>3, <2>4 DEF OneInv, PidKept, filesVars, Watching
    <3>2. StopKept'
      BY <2>2, <2>3, <2>4 DEF OneInv, StopKept, stopVars
    <3> QED BY <3>1, <3>2
  <2>5. ASSUME ~mixed PROVE SnapKept'
    BY <2>1, <2>5 DEF OneInv, OneType, SnapKept, filesVars
  <2> QED BY <1>1, <2>1, <2>4, <2>5 DEF OneInv
<1>3. CASE ~AlreadyRunning
  <2> SUFFICES ASSUME ~mixed' PROVE PidKept' /\ StopKept' /\ SnapKept'
    BY <1>1 DEF OneInv
  <2>1. ~mixed /\ Starting = {} /\ Stopping = {} /\ doomed = {}
    BY <1>3 DEF OneInv, OneType
  <2>2. Running = {}
    BY <1>3, <2>1, NobodyRuns
  <2>3. PICK l \in {"detach", "pid"} : pc' = [pc EXCEPT ![w] = l]
    <3>1. PICK daemon \in BOOLEAN : pc' = [pc EXCEPT ![w] = IF daemon THEN "detach" ELSE "pid"]
      BY <1>3
    <3> QED BY <3>1, Zenon
  <2>4. Running' = {w} /\ Watching' = {} /\ Stopping' = {}
    BY <2>1, <2>2, <2>3 DEF OneInv, OneType, Running, Watching, Stopping, Gone, stopVars
  <2>5. PidKept' /\ StopKept'
    BY <2>1, <2>4 DEF PidKept, StopKept
  <2>6. SnapKept'
    BY <2>1, <2>3 DEF OneInv, OneType, SnapKept, filesVars
  <2> QED BY <2>5, <2>6
<1> QED BY <1>2, <1>3

LEMMA StartOne ==
  ASSUME NEW w \in Watcher, OneInv, Daemonize(w) \/ WritePid(w)
  PROVE  OneInv'
<1>1. CASE Daemonize(w)
  <2> USE <1>1 DEF Daemonize, Goto
  <2>1. OneType' /\ PidsApart'
    BY DEF OneInv, OneType, Labels, PidsApart, Own, filesVars, stopVars, history
  <2>2. Running' \subseteq Running /\ Starting' \subseteq Starting /\ Watching' = Watching
    BY DEF OneInv, OneType, Running, Starting, Watching, Gone
  <2>3. ASSUME ~mixed PROVE PidKept' /\ StopKept' /\ SnapKept'
    <3>1. w \in Starting /\ Stopping = {} /\ Stopping' = {}
      BY <2>3 DEF OneInv, StopKept, Starting, Stopping, stopVars
    <3>2. doomed = {}
      <4>1. w \notin Watching /\ w \in Running
        BY DEF Watching, Running, Gone
      <4> QED BY <2>3, <4>1 DEF OneInv, PidKept, Watching
    <3>3. PidKept'
      BY <2>2, <2>3, <3>2 DEF OneInv, PidKept, filesVars, Watching, Running, Gone
    <3>4. StopKept'
      BY <3>1 DEF StopKept
    <3>5. SnapKept'
      BY <2>3 DEF OneInv, OneType, SnapKept, filesVars
    <3> QED BY <3>3, <3>4, <3>5
  <2> QED BY <2>1, <2>3 DEF OneInv, history
<1>2. CASE WritePid(w)
  <2> USE <1>2 DEF WritePid, Goto, OwnPid
  <2>1. OneType' /\ PidsApart'
    BY DEF OneInv, OneType, Labels, PidsApart, stopVars, history
  <2>2. Running' = Running
    BY DEF OneInv, OneType, Running, Gone
  <2>3. ASSUME ~mixed PROVE PidKept' /\ StopKept' /\ SnapKept'
    <3>1. w \in Starting /\ w \in Running /\ Stopping = {} /\ Stopping' = {}
      BY <2>3 DEF OneInv, StopKept, Starting, Stopping, stopVars, Running, Gone
    <3>2. PidKept'
      <4>1. Watching' \subseteq {w} /\ Watching \subseteq Watching'
        BY <2>2, <2>3, <3>1 DEF OneInv, OneType, PidKept, Watching
      <4> QED BY <2>2, <2>3, <4>1 DEF OneInv, PidKept
    <3>3. StopKept'
      BY <3>1 DEF StopKept
    <3>4. SnapKept'
      BY <2>3 DEF OneInv, OneType, SnapKept
    <3> QED BY <3>2, <3>3, <3>4
  <2> QED BY <2>1, <2>3 DEF OneInv, history
<1> QED BY <1>1, <1>2

LEMMA SnapOne ==
  ASSUME NEW w \in Watcher, OneInv, TruncateTmp(w) \/ FillTmp(w) \/ Rename(w)
  PROVE  OneInv'
<1> USE DEF TruncateTmp, FillTmp, Rename, Goto, AfterSnapshot
<1>1. OneType' /\ PidsApart'
  BY DEF OneInv, OneType, Labels, PidsApart, stopVars, history
<1>2. Running' = Running /\ Starting' = Starting /\ Watching' = Watching /\ Stopping' = Stopping
  BY DEF OneInv, OneType, Running, Starting, Watching, Stopping, Gone, stopVars
<1>3. ASSUME ~mixed PROVE PidKept' /\ StopKept'
  BY <1>2, <1>3 DEF OneInv, PidKept, StopKept, stopVars
<1>4. ASSUME ~mixed PROVE SnapKept'
  <2>1. w \in Running
    BY DEF Running, Gone
  <2>2. \A v \in Watcher : v # w => pc'[v] \in Gone
    <3>1. \A v \in Watcher : v # w => v \notin Running
      BY <1>4, <2>1 DEF OneInv, PidKept
    <3> QED BY <3>1 DEF Running, OneInv, OneType
  <2>3. pc'[w] = "fill" => tmp' = "torn"
    BY DEF OneInv, OneType
  <2>4. pc'[w] = "rename" => tmp' = "whole"
    BY <1>4 DEF OneInv, OneType, SnapKept
  <2>5. snap' # "torn"
    BY <1>4 DEF OneInv, OneType, SnapKept
  <2> QED BY <2>2, <2>3, <2>4, <2>5 DEF SnapKept, Gone
<1> QED BY <1>1, <1>3, <1>4 DEF OneInv, history

LEMMA DieOne == ASSUME NEW w \in Watcher, OneInv, Die(w) PROVE OneInv'
<1> USE DEF Die, Goto
<1>1. OneType' /\ PidsApart'
  BY DEF OneInv, OneType, Labels, PidsApart, Running, Gone, stopVars, filesVars
<1>2. /\ Running' = Running \ {w} /\ Starting' \subseteq Starting
      /\ Watching' = Watching \ {w} /\ Stopping' = Stopping
  BY DEF OneInv, OneType, Running, Starting, Watching, Stopping, Gone, stopVars
<1>3. ASSUME ~mixed PROVE PidKept' /\ StopKept'
  BY <1>2, <1>3 DEF OneInv, PidKept, StopKept, filesVars, stopVars
<1>4. ASSUME ~mixed PROVE SnapKept'
  BY <1>4 DEF OneInv, OneType, SnapKept, filesVars
<1> QED BY <1>1, <1>3, <1>4 DEF OneInv

LEMMA StopOne == ASSUME NEW s \in Stopper, OneInv, Stops(s) PROVE OneInv'
<1>1. OneType' /\ PidsApart'
  BY DEF Stops, ReadPid, Sigterm, RemovePid, RemoveSnapshot, OneInv, OneType, PidsApart,
         filesVars, history, Running, stopVars
<1>2. Running' = Running /\ Starting' = Starting /\ Watching' = Watching
  BY DEF Stops, ReadPid, Sigterm, RemovePid, RemoveSnapshot, Running, Starting, Watching
<1>3. ASSUME ~mixed PROVE SnapKept'
  BY <1>3 DEF Stops, ReadPid, Sigterm, RemovePid, RemoveSnapshot, OneInv, SnapKept, filesVars
<1>4. CASE ReadPid(s)
  <2> USE <1>4 DEF ReadPid
  <2> SUFFICES ASSUME ~mixed' PROVE PidKept' /\ StopKept'
    BY <1>1, <1>3 DEF OneInv, OneType
  <2>1. ~mixed /\ Starting = {}
    BY DEF OneInv, OneType
  <2>2. PidKept'
    BY <1>2, <2>1 DEF OneInv, PidKept, filesVars
  <2>3. Running = Watching
    BY <2>1 DEF Running, Watching, Starting
  <2>4. Stopping' = Stopping \cup {s}
    BY DEF OneInv, OneType, Stopping
  <2>5. \A r \in Stopping : spc'[r] = spc[r] /\ target'[r] = target[r]
    BY DEF OneInv, OneType, Stopping
  <2>6. spc'[s] = "kill" => \A w \in Running : w \in doomed \/ target'[s] = pid[w]
    BY <2>1, <2>3 DEF OneInv, OneType, PidKept
  <2>7. spc'[s] # "kill" => Running \subseteq doomed
    BY <2>1, <2>3 DEF OneInv, OneType, PidKept, IsAlive
  <2>8. StopKept'
    BY <1>2, <2>1, <2>4, <2>5, <2>6, <2>7 DEF OneInv, StopKept
  <2> QED BY <2>2, <2>8
<1>5. CASE Sigterm(s)
  <2> USE <1>5 DEF Sigterm
  <2>1. ASSUME ~mixed PROVE PidKept' /\ StopKept'
    <3>1. s \in Stopping /\ Stopping' = Stopping
      BY DEF OneInv, OneType, Stopping
    <3>2. Starting = {} /\ Running \subseteq doomed'
      BY <2>1, <3>1 DEF OneInv, StopKept
    <3>3. doomed \subseteq doomed' /\ doomed' \subseteq Watching
      BY <2>1, <3>2 DEF OneInv, PidKept, Watching, Running, Starting
    <3>4. PidKept'
      BY <1>2, <2>1, <3>3 DEF OneInv, PidKept, filesVars
    <3> QED BY <1>2, <3>1, <3>2, <3>4 DEF StopKept
  <2> QED BY <1>1, <1>3, <2>1 DEF OneInv, history
<1>6. CASE RemovePid(s) \/ RemoveSnapshot(s)
  <2> USE <1>6 DEF RemovePid, RemoveSnapshot
  <2>1. ASSUME ~mixed PROVE PidKept' /\ StopKept'
    <3>1. s \in Stopping /\ Stopping' \subseteq Stopping
      BY DEF OneInv, OneType, Stopping
    <3>2. Running \subseteq doomed
      BY <2>1, <3>1 DEF OneInv, StopKept
    <3>3. PidKept'
      BY <1>2, <2>1, <3>2 DEF OneInv, PidKept, Watching
    <3>4. StopKept'
      BY <1>2, <2>1, <3>1, <3>2 DEF OneInv, StopKept
    <3> QED BY <3>3, <3>4
  <2> QED BY <1>1, <1>3, <2>1 DEF OneInv, history
<1> QED BY <1>4, <1>5, <1>6 DEF Stops

LEMMA StepOne == OneInv /\ [Next]_vars => OneInv'
<1> SUFFICES ASSUME OneInv, [Next]_vars PROVE OneInv'
  OBVIOUS
<1>1. ASSUME UNCHANGED oneVars PROVE OneInv'
  BY <1>1 DEF oneVars, OneInv, OneType, PidsApart, PidKept, StopKept, SnapKept,
              Running, Starting, Watching, Stopping
<1>2. CASE UNCHANGED vars \/ Write \/ Rotate \/ Recreate
  BY <1>1, <1>2 DEF oneVars, vars, Write, Rotate, Recreate, history, filesVars, stopVars
<1>3. ASSUME NEW w \in Watcher, Act(w) PROVE OneInv'
  <2>1. CASE AtEnd(w)
    BY <2>1, LoopOne DEF AtEnd, Goto, Gone, Labels
  <2>2. CASE Stat(w)
    BY <2>2, LoopOne DEF Stat, Goto, Gone, Labels
  <2>3. CASE ReadAppended(w)
    BY <2>3, LoopOne DEF ReadAppended, Goto, Gone, Labels
  <2>4. CASE Observe(w)
    BY <2>4, LoopOne DEF Observe, Goto, Gone, Labels
  <2>5. CASE Deliver(w)
    BY <1>1, <2>5 DEF Deliver, oneVars, filesVars, stopVars
  <2>6. CASE EndTick(w)
    BY <2>6, LoopOne DEF EndTick, Goto, Gone, Labels
  <2>7. CASE Hang(w)
    BY <2>7, LoopOne DEF Hang, Goto, Gone, Labels, history
  <2> QED BY <1>3, <2>1, <2>2, <2>3, <2>4, <2>5, <2>6, <2>7,
             CheckOne, StartOne, SnapOne, DieOne DEF Act
<1> QED BY <1>2, <1>3, StopOne DEF Next, Act, Stops

\* As long as no start meets another start or a stop half-way, one watcher
\* runs under the name, the pid file holds its pid from its first snapshot on,
\* and the snapshot is never torn, however many are launched, stopped or die
\* (already_running, write_pid, daemonize, stop).
THEOREM OneWatcherRuns == Spec => []OneWatcher
<1>1. OneInv => OneWatcher
  BY DEF OneInv, PidKept, SnapKept, OneWatcher, Watching
<1>2. Spec => []OneInv
  BY InitOne, StepOne, PTL DEF Spec
<1> QED BY <1>1, <1>2, PTL

-----------------------------------------------------------------------------
(* The order of the sinks                                                  *)

LEMMA Multiples ==
  ASSUME NEW w \in Nat \ {0}, NEW a \in Nat, NEW b \in Nat, a < b
  PROVE  w * b >= w * a + w
<1>1. b - a >= 1 OBVIOUS
<1>2. w * (b - a) >= w BY <1>1
<1>3. w * (b - a) = w * b - w * a OBVIOUS
<1> QED BY <1>2, <1>3

LEMMA OnePlace ==
  ASSUME NEW w \in Nat \ {0}, NEW a \in Nat, NEW b \in Nat,
         NEW r \in 1 .. w, NEW s \in 1 .. w, w * a + r = w * b + s
  PROVE  r = s
<1> DEFINE x == w * a
           y == w * b
<1>1. x \in Nat /\ y \in Nat /\ x + r = y + s
  OBVIOUS
<1>2. a < b => y >= x + w
  BY Multiples
<1>3. b < a => x >= y + w
  BY Multiples
<1>4. a = b => x = y
  OBVIOUS
<1> HIDE DEF x, y
<1> QED BY <1>1, <1>2, <1>3, <1>4

Kinds == {"stdout", "webhook", "exec"}
Ways == Len(Sinks)

LEMMA SinksTyped == Sinks \in Seq(Kinds) /\ Ways \in Nat /\ DOMAIN Sinks = 1 .. Ways
<1> QED BY WatchersAssumption, LenProperties DEF Kinds, Ways

SinkType ==
  /\ pc \in [Watcher -> Labels]
  /\ sink \in [Watcher -> Seq(Kinds)]
  /\ told \in [Watcher -> Seq(Kinds)]
  /\ queue \in [Watcher -> Nat]
  /\ raised \in [Watcher -> Nat]

\* The sinks still to tell of the alert in hand are the last ones.
LastOnes(rest) ==
  /\ Len(rest) <= Ways
  /\ \A j \in 1 .. Len(rest) : rest[j] = Sinks[Ways - Len(rest) + j]

\* How far a tick has come, with `q' alerts of `n' still to deliver.
Along(rest, done, q, n) ==
  /\ LastOnes(rest)
  /\ rest # <<>> => /\ 1 <= q /\ q <= n
                    /\ Len(done) = Ways * (n - q) + (Ways - Len(rest))
  /\ rest = <<>> => Len(done) = Ways * n
InOrder(done) ==
  \A a \in Nat, k \in 1 .. Ways : Ways * a + k <= Len(done) => done[Ways * a + k] = Sinks[k]

SinkKept(w) ==
  /\ pc[w] \notin {"deliver", "hung"} => told[w] = <<>>
  /\ pc[w] = "deliver" => Along(sink[w], told[w], queue[w], raised[w]) /\ InOrder(told[w])

SinkInv == SinkType /\ \A w \in Watcher : SinkKept(w)

LEMMA InitSink == Init => SinkInv
<1> QED BY DEF Init, SinkInv, SinkType, SinkKept, Labels

\* A tick starts with every sink, and nobody told.
LEMMA TickStarts ==
  ASSUME NEW n \in Nat
  PROVE  LET s == IF n = 0 THEN <<>> ELSE Sinks IN Along(s, <<>>, n, n) /\ InOrder(<<>>)
<1> DEFINE s == IF n = 0 THEN <<>> ELSE Sinks
<1>1. InOrder(<<>>)
  <2> SUFFICES ASSUME NEW a \in Nat, NEW k \in 1 .. Ways, Ways * a + k <= 0 PROVE FALSE
    BY DEF InOrder
  <2>1. Ways * a \in Nat
    BY SinksTyped
  <2> QED BY <2>1, SinksTyped
<1>2. LastOnes(s)
  <2>1. LastOnes(<<>>)
    BY SinksTyped DEF LastOnes
  <2>2. LastOnes(Sinks)
    BY SinksTyped DEF LastOnes, Ways
  <2> QED BY <2>1, <2>2
<1>3. s # <<>> => Len(<<>>) = Ways * (n - n) + (Ways - Len(s))
  BY SinksTyped DEF Ways
<1>4. s = <<>> => Ways * n = 0
  BY SinksTyped DEF Ways
<1> QED BY <1>1, <1>2, <1>3, <1>4 DEF Along

\* The next sink is told of the alert in hand.
LEMMA TellsNext ==
  ASSUME NEW rest \in Seq(Kinds), NEW done \in Seq(Kinds), NEW q \in Nat, NEW n \in Nat,
         rest # <<>>, Along(rest, done, q, n), InOrder(done)
  PROVE  LET left == Tail(rest)
             then == IF left = <<>> /\ q > 1 THEN Sinks ELSE left
             q1   == IF left = <<>> THEN q - 1 ELSE q
         IN  /\ Along(then, Append(done, Head(rest)), q1, n)
             /\ InOrder(Append(done, Head(rest)))
<1> DEFINE left == Tail(rest)
           then == IF left = <<>> /\ q > 1 THEN Sinks ELSE left
           q1   == IF left = <<>> THEN q - 1 ELSE q
           told1 == Append(done, Head(rest))
           b == n - q
           p == Ways - Len(rest) + 1
<1>1. /\ Len(rest) \in 1 .. Ways /\ b \in Nat /\ p \in 1 .. Ways /\ Ways \in Nat \ {0}
      /\ Len(done) + 1 = Ways * b + p /\ 1 <= q
  <2>1. /\ LastOnes(rest) /\ 1 <= q /\ q <= n
        /\ Len(done) = Ways * b + (Ways - Len(rest))
    BY DEF Along
  <2>2. Ways \in Nat \ {0} /\ Len(rest) \in Nat /\ Len(rest) # 0 /\ Len(rest) <= Ways
    BY <2>1, SinksTyped, EmptySeq, LenProperties DEF LastOnes
  <2>3. b \in Nat
    BY <2>1
  <2>4. Ways * b \in Nat
    BY <2>2, <2>3
  <2> HIDE DEF b
  <2> QED BY <2>1, <2>2, <2>3, <2>4
<1>2. /\ Len(told1) = Len(done) + 1
      /\ \A i \in 1 .. Len(done) : told1[i] = done[i]
      /\ told1[Len(done) + 1] = Sinks[p]
  BY <1>1 DEF Along, LastOnes
<1>3. InOrder(told1)
  <2> SUFFICES ASSUME NEW a \in Nat, NEW k \in 1 .. Ways, Ways * a + k <= Len(told1)
               PROVE  told1[Ways * a + k] = Sinks[k]
    BY DEF InOrder
  <2>1. Ways * a + k \in Nat \ {0}
    BY <1>1
  <2>2. CASE Ways * a + k <= Len(done)
    BY <1>2, <2>1, <2>2 DEF InOrder
  <2>3. CASE Ways * a + k = Len(done) + 1
    <3>1. k = p
      BY <1>1, <2>3, OnePlace
    <3> QED BY <1>2, <2>3, <3>1
  <2> QED BY <1>2, <2>1, <2>2, <2>3
<1>4. LastOnes(then)
  <2>1. LastOnes(Sinks)
    BY SinksTyped DEF LastOnes, Ways
  <2>2. LastOnes(left)
    <3>1. Len(left) = Len(rest) - 1 /\ \A j \in 1 .. Len(left) : left[j] = rest[j + 1]
      BY HeadTailProperties
    <3> QED BY <1>1, <3>1 DEF LastOnes, Along
  <2> QED BY <2>1, <2>2
<1>5. left = <<>> <=> Len(rest) = 1
  <2>1. left \in Seq(Kinds) /\ Len(left) = Len(rest) - 1
    BY HeadTailProperties
  <2>2. left = <<>> <=> Len(left) = 0
    BY <2>1, EmptySeq
  <2> QED BY <1>1, <2>1, <2>2
<1>6. ASSUME left # <<>> PROVE Along(then, told1, q1, n)
  <2>1. Len(left) = Len(rest) - 1
    BY HeadTailProperties
  <2>2. Len(told1) = Ways * (n - q) + (Ways - Len(left))
    BY <1>1, <1>2, <2>1
  <2> QED BY <1>1, <1>4, <1>6, <2>2 DEF Along
<1>7. ASSUME left = <<>> PROVE Along(then, told1, q1, n)
  <2>1. Len(told1) = Ways * b + Ways
    <3>1. p = Ways
      <4>1. Len(rest) = 1 /\ Ways \in Nat
        BY <1>1, <1>5, <1>7
      <4> QED BY <4>1
    <3> HIDE DEF p, b
    <3> QED BY <1>1, <1>2, <3>1
  <2>2. Len(told1) = Ways * (b + 1)
    BY <1>1, <2>1
  <2>3. b + 1 = n - (q - 1)
    BY <1>1
  <2>4. CASE q > 1
    <3>1. then = Sinks /\ q1 = q - 1 /\ Ways - Len(Sinks) = 0 /\ Sinks # <<>>
      <4>1. then = Sinks /\ q1 = q - 1
        BY <1>7, <2>4
      <4>2. Ways - Len(Sinks) = 0 /\ Sinks # <<>>
        BY <1>1, SinksTyped, EmptySeq DEF Ways
      <4> QED BY <4>1, <4>2
    <3>2. 1 <= q - 1 /\ q - 1 <= n
      BY <1>1, <2>4
    <3> HIDE DEF then, q1, told1
    <3> QED BY <1>1, <1>4, <2>2, <2>3, <3>1, <3>2 DEF Along
  <2>5. CASE q = 1
    <3>1. then = <<>> /\ b + 1 = n
      BY <1>1, <1>7, <2>3, <2>5
    <3> HIDE DEF then, q1, told1
    <3> QED BY <1>4, <2>2, <3>1 DEF Along
  <2>6. q = 1 \/ q > 1
    <3>1. 1 <= q
      BY <1>1
    <3> QED BY <3>1
  <2> QED BY <2>4, <2>5, <2>6
<1> QED BY <1>3, <1>6, <1>7

sinkVars == <<pc, sink, told, queue, raised>>

\* What is no step of delivery leaves the sinks, and the watcher elsewhere.
LEMMA ElsewhereSink ==
  ASSUME NEW w \in Watcher, SinkInv, UNCHANGED <<sink, told, queue, raised>>,
         pc[w] \notin {"deliver", "hung"}, NEW l \in Labels \ {"deliver", "hung"},
         pc' = [pc EXCEPT ![w] = l]
  PROVE  SinkInv'
<1>1. SinkType'
  BY DEF SinkInv, SinkType
<1>2. SinkKept(w)'
  BY DEF SinkInv, SinkType, SinkKept
<1>3. \A v \in Watcher \ {w} : SinkKept(v)'
  BY DEF SinkInv, SinkType, SinkKept
<1> QED BY <1>1, <1>2, <1>3 DEF SinkInv

LEMMA DeliverySink ==
  ASSUME NEW w \in Watcher, SinkInv,
         Observe(w) \/ Deliver(w) \/ EndTick(w) \/ Hang(w) \/ Die(w)
  PROVE  SinkInv'
<1> USE DEF Goto
<1>1. CASE Observe(w)
  <2>1. PICK n \in Nat : /\ queue' = [queue EXCEPT ![w] = n]
                         /\ sink' = [sink EXCEPT ![w] = IF n = 0 THEN <<>> ELSE Sinks]
                         /\ raised' = [raised EXCEPT ![w] = n]
    <3>1. PICK n \in IF Alone THEN 0 .. MaxAlerts ELSE {0} :
                        /\ queue' = [queue EXCEPT ![w] = n]
                        /\ sink' = [sink EXCEPT ![w] = IF n = 0 THEN <<>> ELSE Sinks]
                        /\ raised' = [raised EXCEPT ![w] = n]
      BY <1>1 DEF Observe
    <3>2. n \in Nat
      BY <3>1, WatchersAssumption
    <3> QED BY <3>1, <3>2, Zenon
  <2>2. pc' = [pc EXCEPT ![w] = "deliver"] /\ told' = told /\ told[w] = <<>>
    BY <1>1 DEF Observe, SinkInv, SinkKept
  <2>3. SinkType'
    BY <2>1, <2>2, SinksTyped DEF SinkInv, SinkType, Labels
  <2>4. SinkKept(w)'
    BY <2>1, <2>2, TickStarts DEF SinkInv, SinkType, SinkKept
  <2>5. \A v \in Watcher \ {w} : SinkKept(v)'
    BY <2>1, <2>2 DEF SinkInv, SinkType, SinkKept
  <2> QED BY <2>3, <2>4, <2>5 DEF SinkInv
<1>2. CASE Deliver(w)
  <2> DEFINE left == Tail(sink[w])
             then == IF left = <<>> /\ queue[w] > 1 THEN Sinks ELSE left
             q1   == IF left = <<>> THEN queue[w] - 1 ELSE queue[w]
             done == Append(told[w], Head(sink[w]))
  <2>1. /\ sink' = [sink EXCEPT ![w] = then] /\ queue' = [queue EXCEPT ![w] = q1]
        /\ told' = [told EXCEPT ![w] = done] /\ pc[w] = "deliver" /\ sink[w] # <<>>
        /\ UNCHANGED <<pc, raised>>
    BY <1>2 DEF Deliver, PassOver
  <2>2. Along(sink[w], told[w], queue[w], raised[w]) /\ InOrder(told[w])
    BY <2>1 DEF SinkInv, SinkKept
  <2>3. /\ sink[w] \in Seq(Kinds) /\ told[w] \in Seq(Kinds)
        /\ queue[w] \in Nat /\ raised[w] \in Nat
    BY DEF SinkInv, SinkType
  <2>4. Along(then, done, q1, raised[w]) /\ InOrder(done)
    BY <2>1, <2>2, <2>3, TellsNext
  <2>5. then \in Seq(Kinds) /\ done \in Seq(Kinds) /\ q1 \in Nat
    BY <2>1, <2>2, <2>3, SinksTyped, HeadTailProperties DEF Along
  <2> HIDE DEF then, done, q1
  <2>6. SinkType'
    BY <2>1, <2>5 DEF SinkInv, SinkType
  <2>7. SinkKept(w)'
    BY <2>1, <2>4 DEF SinkInv, SinkType, SinkKept
  <2>8. \A v \in Watcher \ {w} : SinkKept(v)'
    BY <2>1 DEF SinkInv, SinkType, SinkKept
  <2> QED BY <2>6, <2>7, <2>8 DEF SinkInv
<1>3. CASE EndTick(w) \/ Die(w)
  <2>1. PICK l \in Labels \ {"deliver", "hung"} : pc' = [pc EXCEPT ![w] = l]
    BY <1>3 DEF EndTick, Die, Labels
  <2>2. told' = [told EXCEPT ![w] = <<>>]
    BY <1>3 DEF EndTick, Die
  <2>3. SinkType'
    <3>1. pc' \in [Watcher -> Labels] /\ told' \in [Watcher -> Seq(Kinds)]
      BY <2>1, <2>2 DEF SinkInv, SinkType
    <3>2. CASE EndTick(w)
      BY <3>1, <3>2 DEF EndTick, SinkInv, SinkType, loopVars
    <3>3. CASE Die(w)
      <4>1. <<>> \in Seq(Kinds)
        BY EmptySeq
      <4>2. sink' = [sink EXCEPT ![w] = <<>>] /\ queue' = [queue EXCEPT ![w] = 0]
            /\ raised' = [raised EXCEPT ![w] = 0]
        BY <3>3 DEF Die
      <4> QED BY <3>1, <4>1, <4>2 DEF SinkInv, SinkType
    <3> QED BY <1>3, <3>2, <3>3
  <2>4. SinkKept(w)'
    BY <2>1, <2>2 DEF SinkInv, SinkType, SinkKept
  <2>5. \A v \in Watcher \ {w} : SinkKept(v)'
    BY <1>3, <2>1, <2>2 DEF EndTick, Die, SinkInv, SinkType, SinkKept, loopVars
  <2> QED BY <2>3, <2>4, <2>5 DEF SinkInv
<1>4. CASE Hang(w)
  BY <1>4 DEF Hang, SinkInv, SinkType, SinkKept, Labels, loopVars, history, sinkHistory
<1> QED BY <1>1, <1>2, <1>3, <1>4

LEMMA StepSink == SinkInv /\ [Next]_vars => SinkInv'
<1> SUFFICES ASSUME SinkInv, [Next]_vars PROVE SinkInv'
  OBVIOUS
<1> USE DEF loopVars, history, sinkHistory
<1>1. ASSUME UNCHANGED sinkVars PROVE SinkInv'
  BY <1>1 DEF sinkVars, SinkInv, SinkType, SinkKept
<1>2. CASE UNCHANGED vars \/ Write \/ Rotate \/ Recreate
  BY <1>1, <1>2 DEF sinkVars, vars, Write, Rotate, Recreate
<1>3. ASSUME NEW s \in Stopper, Stops(s) PROVE SinkInv'
  BY <1>1, <1>3 DEF sinkVars, Stops, ReadPid, Sigterm, RemovePid, RemoveSnapshot
<1>4. ASSUME NEW w \in Watcher, Act(w) PROVE SinkInv'
  <2> USE DEF Goto, Labels
  <2>1. CASE Check(w)
    <3>1. PICK l \in {"exited", "detach", "pid"} : pc' = [pc EXCEPT ![w] = l]
      <4>1. CASE AlreadyRunning
        BY <2>1, <4>1 DEF Check
      <4>2. CASE ~AlreadyRunning
        <5>1. PICK daemon \in BOOLEAN :
                pc' = [pc EXCEPT ![w] = IF daemon THEN "detach" ELSE "pid"]
          BY <2>1, <4>2 DEF Check
        <5> QED BY <5>1, Zenon
      <4> QED BY <4>1, <4>2
    <3> QED BY <2>1, <3>1, ElsewhereSink DEF Check
  <2>2. CASE Daemonize(w)
    BY <2>2, ElsewhereSink DEF Daemonize
  <2>3. CASE WritePid(w) \/ TruncateTmp(w) \/ FillTmp(w) \/ Rename(w)
    BY <2>3, ElsewhereSink DEF WritePid, TruncateTmp, FillTmp, Rename, AfterSnapshot
  <2>4. CASE AtEnd(w) \/ Stat(w) \/ ReadAppended(w)
    BY <2>4, ElsewhereSink DEF AtEnd, Stat, ReadAppended
  <2> QED BY <1>4, <2>1, <2>2, <2>3, <2>4, DeliverySink DEF Act
<1> QED BY <1>2, <1>3, <1>4 DEF Next, Act, Stops

\* When a tick has delivered, every sink was told of each of its alerts, in
\* the order of the flags, whichever of them failed (deliver).
THEOREM EverySinkIsTold == Spec => []EverySinkTold
<1>1. ASSUME SinkInv PROVE EverySinkTold
  <2> SUFFICES ASSUME NEW w \in Watcher, pc[w] = "deliver", sink[w] = <<>>
               PROVE  /\ Len(told[w]) = Ways * raised[w]
                      /\ \A a \in 0 .. raised[w] - 1 : \A k \in 1 .. Ways :
                           told[w][Ways * a + k] = Sinks[k]
    BY SinksTyped DEF EverySinkTold, Ways
  <2>1. Len(told[w]) = Ways * raised[w] /\ InOrder(told[w])
    BY <1>1 DEF SinkInv, SinkKept, Along
  <2>2. ASSUME NEW a \in 0 .. raised[w] - 1, NEW k \in 1 .. Ways
        PROVE  told[w][Ways * a + k] = Sinks[k]
    <3>1. Ways \in Nat \ {0} /\ a \in Nat /\ raised[w] \in Nat /\ a < raised[w]
      BY <1>1, SinksTyped DEF SinkInv, SinkType
    <3>2. Ways * raised[w] >= Ways * a + Ways
      BY <3>1, Multiples
    <3>3. Ways * a \in Nat
      BY <3>1
    <3>4. Ways * a + k <= Len(told[w])
      BY <2>1, <3>1, <3>2, <3>3
    <3> QED BY <2>1, <3>1, <3>4 DEF InOrder
  <2> QED BY <2>1, <2>2
<1>2. Spec => []SinkInv
  BY InitSink, StepSink, PTL DEF Spec
<1> QED BY <1>1, <1>2, PTL

-----------------------------------------------------------------------------
(* The lines of a tail                                                     *)

Byte == [file : Nat, at : Nat, newline : BOOLEAN]

\* Every byte of the log is of the file it is, at its place.
LogKept == log \in Seq(Byte) /\ \A i \in 1 .. Len(log) : log[i].file = file /\ log[i].at = i

\* The lines `h' handed on by a tail that stands at `t', placed at `f'.
WholeLines(h, f) ==
  /\ \A i \in 1 .. Len(h) : OneLine(h[i]) /\ h[i][1].file <= f.file
  /\ \A i, j \in 1 .. Len(h) : i < j => h[i][1].file <= h[j][1].file
ReachedBy(h, f, i) ==
  IF i > 0 /\ h[i][1].file = file THEN h[i][Len(h[i])].at ELSE f.at
\* Every byte from the placing on is in a line or held back.
NoneLost(h, f, t) ==
  LET at == ReachedBy(h, f, Len(h)) IN
  /\ \A i \in 1 .. Len(h) : h[i][1].file = file => StandsAt(h[i], ReachedBy(h, f, i - 1))
  /\ StandsAt(t.partial, at)
  /\ t.offset = at + Len(t.partial)
  /\ t.offset <= Len(log) /\ f.at <= at

Follows(h, f, t) ==
  /\ f.file <= file
  /\ WholeLines(h, f)
  /\ \A j \in 1 .. Len(t.partial) : ~t.partial[j].newline
  /\ t.offset = 0 => t.partial = <<>>
  /\ f.file = file => NoneLost(h, f, t)

TailType ==
  /\ pc \in [Watcher -> Labels]
  /\ placed \in [Watcher -> BOOLEAN]
  /\ file \in Nat
  /\ tail \in [Watcher -> [offset : Nat, partial : Seq(Byte)]]
  /\ from \in [Watcher -> [file : Nat, at : Nat]]
  /\ handed \in [Watcher -> Seq(Seq(Byte))]

PlacedKept ==
  \A w \in Watcher :
    /\ ~placed[w] => handed[w] = <<>> /\ pc[w] \notin {"sleep", "read", "observe", "deliver", "hung"}
    /\ placed[w] => pc[w] # "tail"

TailInv ==
  /\ TailType /\ LogKept /\ PlacedKept
  /\ \A w \in Watcher : placed[w] /\ w \notin outrun => Follows(handed[w], from[w], tail[w])

LEMMA InitTail == Init => TailInv
<1> SUFFICES ASSUME Init PROVE TailInv
  OBVIOUS
<1>1. TailType
  <2>1. <<>> \in Seq(Byte) /\ <<>> \in Seq(Seq(Byte))
    BY EmptySeq
  <2> QED BY <2>1 DEF Init, TailType, Labels, NewTail, Unplaced
<1>2. LogKept
  BY EmptySeq DEF Init, LogKept
<1> QED BY <1>1, <1>2 DEF Init, TailInv, PlacedKept

-----------------------------------------------------------------------------
(* A read cuts what is held at its newlines, and only there.               *)

LEMMA CutPlaces ==
  ASSUME NEW held \in Seq(Byte), NEW ends \in LineEnds(held)
  PROVE  /\ DOMAIN ends = 1 .. Len(ends) /\ Len(ends) \in Nat
         /\ \A k \in 1 .. Len(ends) : ends[k] \in 1 .. Len(held) /\ held[ends[k]].newline
         /\ \A j, k \in 1 .. Len(ends) : j < k => ends[j] < ends[k]
         /\ \A i \in 1 .. Len(held) : held[i].newline => \E k \in 1 .. Len(ends) : ends[k] = i
<1> DEFINE newlines == {i \in DOMAIN held : held[i].newline}
<1>1. PICK n \in 0 .. Len(held) : ends \in [1 .. n -> newlines]
  BY DEF LineEnds
<1>2. ends \in Seq(newlines) /\ DOMAIN ends = 1 .. n /\ n \in Nat
  BY <1>1, LenProperties, SeqDef
<1>3. Len(ends) = n
  BY <1>2, LenProperties
<1>4. DOMAIN held = 1 .. Len(held)
  BY LenProperties
<1>5. \A k \in 1 .. n : ends[k] \in newlines
  BY <1>1
<1>6. /\ \A j, k \in DOMAIN ends : j < k => ends[j] < ends[k]
      /\ \A i \in newlines : \E k \in DOMAIN ends : ends[k] = i
  BY DEF LineEnds
<1> QED BY <1>2, <1>3, <1>4, <1>5, <1>6

\* A line is the bytes of x from c on, as far as d.
LineIs(line, x, c, d) ==
  /\ line # <<>> /\ line \in Seq(Byte) /\ c + Len(line) = d
  /\ \A j \in 1 .. Len(line) : /\ line[j] = x[c + j] /\ c + j \in 1 .. Len(x)
                                /\ line[j].newline = (j = Len(line))

LEMMA CutLines ==
  ASSUME NEW held \in Seq(Byte), NEW ends \in LineEnds(held)
  PROVE  /\ Lines(held, ends) \in Seq(Seq(Byte)) /\ Len(Lines(held, ends)) = Len(ends)
         /\ Len(ends) \in Nat
         /\ \A k \in 0 .. Len(ends) : Cut(ends, k) \in 0 .. Len(held)
         /\ \A k \in 1 .. Len(ends) :
              LineIs(Lines(held, ends)[k], held, Cut(ends, k - 1), Cut(ends, k))
<1> DEFINE n == Len(ends)
<1>1. /\ n \in Nat /\ DOMAIN ends = 1 .. n
      /\ \A k \in 1 .. n : ends[k] \in 1 .. Len(held) /\ held[ends[k]].newline
      /\ \A j, k \in 1 .. n : j < k => ends[j] < ends[k]
      /\ \A i \in 1 .. Len(held) : held[i].newline => \E k \in 1 .. n : ends[k] = i
  BY CutPlaces
<1> HIDE DEF n
<1>2. Len(held) \in Nat /\ \A i \in 1 .. Len(held) : held[i] \in Byte
  BY LenProperties, ElementOfSeq
<1>3. \A k \in 0 .. n : Cut(ends, k) \in 0 .. Len(held)
  BY <1>1, <1>2 DEF Cut
<1>4. ASSUME NEW k \in 1 .. n
      PROVE  Cut(ends, k - 1) < Cut(ends, k) /\ Cut(ends, k) = ends[k] /\ k - 1 \in 0 .. n
  BY <1>1 DEF Cut
<1>5. ASSUME NEW k \in 1 .. n
      PROVE  LineIs(SubSeq(held, Cut(ends, k - 1) + 1, Cut(ends, k)), held,
                    Cut(ends, k - 1), Cut(ends, k))
  <2> DEFINE start == Cut(ends, k - 1)
             stop == Cut(ends, k)
             line == SubSeq(held, start + 1, stop)
  <2>1. start \in 0 .. Len(held) /\ stop \in 0 .. Len(held) /\ start < stop /\ stop = ends[k]
    BY <1>3, <1>4
  <2> HIDE DEF start, stop
  <2>2. line \in Seq(Byte) /\ Len(line) = stop - start
        /\ \A j \in 1 .. stop - start : line[j] = held[start + j]
    <3>1. \A i \in start + 1 .. stop : held[i] \in Byte
      BY <1>2, <2>1
    <3>2. /\ line \in Seq(Byte)
          /\ Len(line) = IF start + 1 <= stop THEN stop - (start + 1) + 1 ELSE 0
          /\ \A j \in 1 .. stop - (start + 1) + 1 : line[j] = held[start + 1 + j - 1]
      BY <1>2, <2>1, <3>1, SubSeqProperties
    <3> HIDE DEF line
    <3>3. start + 1 <= stop /\ stop - (start + 1) + 1 = stop - start
      BY <1>2, <2>1
    <3>4. \A j \in 1 .. stop - start : start + 1 + j - 1 = start + j
      BY <1>2, <2>1
    <3> QED BY <3>2, <3>3, <3>4
  <2> HIDE DEF line
  <2>3. ASSUME NEW j \in 1 .. stop - start
        PROVE  /\ start + j \in 1 .. Len(held) /\ held[start + j].newline = (start + j = stop)
    <3>1. start + j \in 1 .. Len(held)
      BY <1>2, <2>1
    <3>2. ASSUME held[start + j].newline, start + j # stop PROVE FALSE
      <4>1. PICK i \in 1 .. n : ends[i] = start + j
        BY <1>1, <3>1, <3>2
      <4>2. i < k
        BY <1>1, <2>1, <3>2, <4>1
      <4>3. i <= k - 1 /\ k - 1 \in 1 .. n /\ start = ends[k - 1]
        BY <1>1, <4>2 DEF start, Cut
      <4>4. i = k - 1 \/ i < k - 1
        BY <1>1, <4>3
      <4>5. i < k - 1 => ends[i] < ends[k - 1]
        BY <1>1, <4>3
      <4> QED BY <1>2, <2>1, <4>1, <4>3, <4>4, <4>5
    <3>3. start + j = stop => held[start + j].newline
      BY <1>1, <2>1
    <3>4. held[start + j].newline \in BOOLEAN
      BY <1>2, <3>1 DEF Byte
    <3> QED BY <3>1, <3>2, <3>3, <3>4
  <2>4. line # <<>>
    BY <1>2, <2>1, <2>2, EmptySeq
  <2>5. start + Len(line) = stop
    BY <1>2, <2>1, <2>2
  <2>6. \A j \in 1 .. Len(line) : (start + j = stop) = (j = Len(line))
    BY <1>2, <2>1, <2>2
  <2>7. \A j \in 1 .. Len(line) :
          /\ line[j] = held[start + j] /\ start + j \in 1 .. Len(held)
          /\ line[j].newline = (j = Len(line))
    <3> SUFFICES ASSUME NEW j \in 1 .. Len(line)
                 PROVE  /\ line[j] = held[start + j] /\ start + j \in 1 .. Len(held)
                        /\ line[j].newline = (j = Len(line))
      OBVIOUS
    <3>1. j \in 1 .. stop - start
      BY <2>2
    <3>2. line[j] = held[start + j] /\ start + j \in 1 .. Len(held)
      BY <2>2, <2>3, <3>1
    <3>3. held[start + j].newline = (start + j = stop)
      BY <2>3, <3>1
    <3>4. (start + j = stop) = (j = Len(line))
      BY <2>6
    <3> QED BY <3>2, <3>3, <3>4
  <2>8. LineIs(line, held, start, stop)
    BY <2>2, <2>4, <2>5, <2>7 DEF LineIs
  <2> QED BY <2>8 DEF start, stop, line
<1>6. Lines(held, ends) = [k \in 1 .. n |-> SubSeq(held, Cut(ends, k - 1) + 1, Cut(ends, k))]
  BY <1>1 DEF Lines
<1>7. Lines(held, ends) \in [1 .. n -> Seq(Byte)]
  BY <1>5, <1>6 DEF LineIs
<1>8. Lines(held, ends) \in Seq(Seq(Byte)) /\ Len(Lines(held, ends)) = n
  <2>1. Lines(held, ends) \in Seq(Seq(Byte)) /\ DOMAIN Lines(held, ends) = 1 .. n
    BY <1>1, <1>7, SeqDef
  <2> QED BY <1>1, <2>1, LenProperties
<1>9. \A k \in 1 .. n : Lines(held, ends)[k] = SubSeq(held, Cut(ends, k - 1) + 1, Cut(ends, k))
  BY <1>6
<1>10. ASSUME NEW k \in 1 .. n
       PROVE  LineIs(Lines(held, ends)[k], held, Cut(ends, k - 1), Cut(ends, k))
  BY <1>5, <1>9
<1> QED BY <1>1, <1>3, <1>8, <1>10 DEF n

LEMMA CutRest ==
  ASSUME NEW held \in Seq(Byte), NEW ends \in LineEnds(held)
  PROVE  LET rest == Rest(held, ends)
             start == Cut(ends, Len(ends))
         IN  /\ rest \in Seq(Byte) /\ start + Len(rest) = Len(held)
             /\ \A j \in 1 .. Len(rest) : rest[j] = held[start + j] /\ ~rest[j].newline
<1> DEFINE n == Len(ends)
           start == Cut(ends, n)
           rest == SubSeq(held, start + 1, Len(held))
<1>1. /\ n \in Nat
      /\ \A k \in 1 .. n : ends[k] \in 1 .. Len(held)
      /\ \A j, k \in 1 .. n : j < k => ends[j] < ends[k]
      /\ \A i \in 1 .. Len(held) : held[i].newline => \E k \in 1 .. n : ends[k] = i
  BY CutPlaces
<1> HIDE DEF n
<1>2. Len(held) \in Nat /\ \A i \in 1 .. Len(held) : held[i] \in Byte
  BY LenProperties, ElementOfSeq
<1>3. start \in 0 .. Len(held) /\ \A k \in 1 .. n : ends[k] <= start
  BY <1>1, <1>2 DEF Cut
<1> HIDE DEF start
<1>4. rest \in Seq(Byte) /\ Len(rest) = Len(held) - start
      /\ \A j \in 1 .. Len(held) - start : rest[j] = held[start + j]
  <2>1. \A i \in start + 1 .. Len(held) : held[i] \in Byte
    BY <1>2, <1>3
  <2>2. /\ rest \in Seq(Byte)
        /\ Len(rest) = IF start + 1 <= Len(held) THEN Len(held) - (start + 1) + 1 ELSE 0
        /\ \A j \in 1 .. Len(held) - (start + 1) + 1 : rest[j] = held[start + 1 + j - 1]
    BY <1>2, <1>3, <2>1, SubSeqProperties
  <2> HIDE DEF rest
  <2>3. Len(held) - (start + 1) + 1 = Len(held) - start
    BY <1>2, <1>3
  <2>4. \A j \in 1 .. Len(held) - start : start + 1 + j - 1 = start + j
    BY <1>2, <1>3
  <2>5. start + 1 <= Len(held) \/ start = Len(held)
    BY <1>2, <1>3
  <2>6. Len(rest) = Len(held) - start
    <3> DEFINE m == Len(rest)
    <3>1. m = IF start + 1 <= Len(held) THEN Len(held) - (start + 1) + 1 ELSE 0
      BY <2>2
    <3> HIDE DEF m
    <3>2. start + 1 <= Len(held) => m = Len(held) - start
      BY <2>3, <3>1
    <3>3. Len(held) \in Nat /\ start \in 0 .. Len(held)
      BY <1>2, <1>3
    <3>4. start = Len(held) => m = Len(held) - start
      BY <3>1, <3>3
    <3> QED BY <2>5, <3>2, <3>4 DEF m
  <2>7. \A j \in 1 .. Len(held) - start : rest[j] = held[start + j]
    BY <2>2, <2>3, <2>4
  <2> QED BY <2>2, <2>6, <2>7
<1> HIDE DEF rest
<1>5. ASSUME NEW j \in 1 .. Len(rest) PROVE ~held[start + j].newline
  <2>1. start + j \in 1 .. Len(held) /\ start < start + j
    BY <1>2, <1>3, <1>4
  <2> QED BY <1>1, <1>3, <2>1
<1>6. start + Len(rest) = Len(held)
  BY <1>2, <1>3, <1>4
<1> QED BY <1>4, <1>5, <1>6 DEF Rest, start, rest, n

\* Without a newline, all of it is held back.
LEMMA CutNowhere ==
  ASSUME NEW held \in Seq(Byte), NEW ends \in LineEnds(held),
         \A j \in 1 .. Len(held) : ~held[j].newline
  PROVE  Len(ends) = 0 /\ Rest(held, ends) = held
<1>1. Len(ends) = 0
  BY CutPlaces
<1>2. Rest(held, ends) = SubSeq(held, 1, Len(held))
  BY <1>1 DEF Rest, Cut
<1> QED BY <1>1, <1>2, SubSeqFull

-----------------------------------------------------------------------------
(* What a step does to the lines.                                          *)

LEMMA FilesTyped ==
  ASSUME NEW h \in Seq(Seq(Byte)), NEW i \in 1 .. Len(h), OneLine(h[i])
  PROVE  /\ h[i] \in Seq(Byte) /\ Len(h[i]) \in Nat \ {0}
         /\ h[i][1].file \in Nat /\ h[i][Len(h[i])].at \in Nat
<1>1. h[i] \in Seq(Byte) /\ h[i] # <<>>
  BY ElementOfSeq DEF OneLine
<1>2. Len(h[i]) \in Nat \ {0}
  BY <1>1, EmptySeq
<1>3. h[i][1] \in Byte /\ h[i][Len(h[i])] \in Byte
  BY <1>1, <1>2, ElementOfSeq
<1> QED BY <1>1, <1>2, <1>3 DEF Byte

\* A tail placed anew, in a file of which no line was handed on.
LEMMA FollowsFresh ==
  ASSUME file \in Nat, LogKept, NEW h \in Seq(Seq(Byte)), NEW f \in [file : Nat, at : Nat],
         WholeLines(h, f), h = <<>> \/ f.file < file, NEW at \in 0 .. Len(log)
  PROVE  Follows(h, [file |-> file, at |-> at], NewTail(at))
<1> DEFINE g == [file |-> file, at |-> at]
           t == NewTail(at)
<1>1. Len(h) \in Nat /\ Len(log) \in Nat
  BY LenProperties DEF LogKept
<1>2. f.file \in Nat
  OBVIOUS
<1>3. g.file = file /\ g.at = at /\ t.offset = at /\ t.partial = <<>>
  BY DEF NewTail
<1>4. \A i \in 1 .. Len(h) : h[i][1].file \in Nat /\ h[i][1].file <= f.file /\ f.file < file
  <2> SUFFICES ASSUME NEW i \in 1 .. Len(h)
               PROVE  h[i][1].file \in Nat /\ h[i][1].file <= f.file /\ f.file < file
    OBVIOUS
  <2>1. OneLine(h[i]) /\ h[i][1].file <= f.file
    BY DEF WholeLines
  <2>2. h[i][1].file \in Nat
    BY <2>1, FilesTyped
  <2>3. h # <<>>
    <3>1. Len(h) # 0
      BY <1>1
    <3> QED BY <3>1
  <2> QED BY <2>1, <2>2, <2>3
<1>5. \A i \in 1 .. Len(h) : h[i][1].file <= file /\ h[i][1].file # file
  BY <1>2, <1>4, SMTT(30)
<1> HIDE DEF g, t
<1>6. WholeLines(h, g)
  BY <1>3, <1>5 DEF WholeLines
<1>7. ReachedBy(h, g, Len(h)) = at
  BY <1>1, <1>3, <1>5 DEF ReachedBy
<1>8. StandsAt(<<>>, at) /\ Len(<<>>) = 0 /\ at \in Nat /\ at <= Len(log)
  BY <1>1 DEF StandsAt
<1>9. NoneLost(h, g, t)
  BY <1>3, <1>5, <1>7, <1>8 DEF NoneLost
<1>10. Follows(h, g, t)
  BY <1>3, <1>6, <1>8, <1>9 DEF Follows
<1> QED BY <1>10 DEF g, t

\* How far the file has been read is a place in it.
LEMMA ReachedTyped ==
  ASSUME file \in Nat, NEW h \in Seq(Seq(Byte)), NEW f \in [file : Nat, at : Nat],
         WholeLines(h, f), NEW i \in 0 .. Len(h)
  PROVE  ReachedBy(h, f, i) \in Nat
<1>1. Len(h) \in Nat
  BY LenProperties
<1>2. i > 0 => h[i][Len(h[i])].at \in Nat
  BY <1>1, FilesTyped DEF WholeLines
<1> QED BY <1>1, <1>2 DEF ReachedBy

\* A tail at the top of the file is in it, whatever file it was placed in.
LEMMA FollowsTop ==
  ASSUME file \in Nat, LogKept, NEW h \in Seq(Seq(Byte)), NEW f \in [file : Nat, at : Nat],
         NEW t \in [offset : Nat, partial : Seq(Byte)], Follows(h, f, t), t.offset = 0
  PROVE  Follows(h, [file |-> file, at |-> 0], t)
<1>1. t.partial = <<>> /\ t = NewTail(0)
  BY DEF Follows, NewTail
<1>2. CASE f.file = file
  <2> DEFINE at == ReachedBy(h, f, Len(h))
  <2>1. at \in Nat
    <3>1. Len(h) \in 0 .. Len(h)
      BY LenProperties
    <3> QED BY <3>1, ReachedTyped DEF Follows
  <2>2. 0 = at + Len(<<>>) /\ f.at <= at
    BY <1>1, <1>2 DEF Follows, NoneLost
  <2> HIDE DEF at
  <2>3. f.at = 0
    BY <2>1, <2>2
  <2>4. f = [file |-> file, at |-> 0]
    BY <1>2, <2>3
  <2> QED BY <2>4
<1>3. CASE f.file # file
  <2>1. f.file < file /\ WholeLines(h, f) /\ 0 \in 0 .. Len(log)
    BY <1>3, LenProperties DEF Follows, LogKept
  <2> QED BY <1>1, <2>1, FollowsFresh
<1> QED BY <1>2, <1>3

\* A read that finds nothing, in a file shorter than the offset.
LEMMA ReadsNothing ==
  ASSUME NEW t \in [offset : Nat, partial : Seq(Byte)], NEW f, NEW h \in Seq(Seq(Byte)),
         Follows(h, f, t), LogKept, Len(log) < t.offset,
         NEW ends \in LineEnds(t.partial \o Appended(t))
  PROVE  /\ [offset |-> t.offset + Len(Appended(t)),
             partial |-> Rest(t.partial \o Appended(t), ends)] = t
         /\ h \o Lines(t.partial \o Appended(t), ends) = h
<1>1. Appended(t) = <<>>
  <2>1. Len(log) \in Nat /\ t.offset + 1 \in Int /\ Len(log) < t.offset + 1
    BY LenProperties DEF LogKept
  <2> QED BY <2>1, SubSeqEmpty DEF Appended
<1>2. t.partial \in Seq(Byte) /\ t.partial \o Appended(t) = t.partial
  BY <1>1, ConcatEmptySeq
<1>3. Len(ends) = 0 /\ Rest(t.partial, ends) = t.partial
  BY <1>2, CutNowhere DEF Follows
<1>4. Lines(t.partial, ends) \in Seq(Seq(Byte)) /\ Len(Lines(t.partial, ends)) = 0
  BY <1>2, <1>3, CutLines
<1>5. Lines(t.partial, ends) = <<>>
  BY <1>4, EmptySeq
<1>6. h \o <<>> = h
  BY ConcatEmptySeq
<1>7. t.offset + Len(<<>>) = t.offset
  OBVIOUS
<1> QED BY <1>1, <1>2, <1>3, <1>5, <1>6, <1>7

\* The library's facts, of bytes and of lines.
LEMMA JoinBytes ==
  \A p, q \in Seq(Byte) :
    /\ p \o q \in Seq(Byte) /\ Len(p \o q) = Len(p) + Len(q)
    /\ \A i \in 1 .. Len(p) + Len(q) :
         (p \o q)[i] = IF i <= Len(p) THEN p[i] ELSE q[i - Len(p)]
BY ConcatProperties

LEMMA JoinLines ==
  \A p, q \in Seq(Seq(Byte)) :
    /\ p \o q \in Seq(Seq(Byte)) /\ Len(p \o q) = Len(p) + Len(q)
    /\ \A i \in 1 .. Len(p) + Len(q) :
         (p \o q)[i] = IF i <= Len(p) THEN p[i] ELSE q[i - Len(p)]
BY ConcatProperties

\* What is held at a read stands in the log from how far it was read.
LEMMA Held ==
  ASSUME LogKept, NEW at \in Nat, NEW t \in [offset : Nat, partial : Seq(Byte)],
         StandsAt(t.partial, at), t.offset = at + Len(t.partial), t.offset <= Len(log)
  PROVE  /\ t.partial \o Appended(t) \in Seq(Byte)
         /\ at + Len(t.partial \o Appended(t)) = Len(log)
         /\ t.offset + Len(Appended(t)) = Len(log)
         /\ \A j \in 1 .. Len(t.partial \o Appended(t)) :
              (t.partial \o Appended(t))[j] = log[at + j] /\ at + j \in 1 .. Len(log)
<1> DEFINE p == Len(t.partial)
           o == t.offset
           l == Len(log)
           new == SubSeq(log, o + 1, l)
           held == t.partial \o new
<1>1. p \in Nat /\ o \in Nat /\ l \in Nat /\ o = at + p /\ o <= l /\ log \in Seq(Byte)
  BY LenProperties DEF LogKept
<1>2. \A j \in 1 .. p : t.partial[j] = log[at + j]
  BY LenProperties DEF StandsAt
<1>3. \A i \in 1 .. l : log[i] \in Byte
  BY <1>1, ElementOfSeq
<1> HIDE DEF p, o, l
<1>4. /\ new \in Seq(Byte) /\ Len(new) = (IF o + 1 <= l THEN l - (o + 1) + 1 ELSE 0)
      /\ \A j \in 1 .. l - (o + 1) + 1 : new[j] = log[o + 1 + j - 1]
  BY <1>1, <1>3, SubSeqProperties
<1>5. \A i \in 1 .. p + Len(new) :
         held[i] = IF i <= p THEN t.partial[i] ELSE new[i - p]
  <2> HIDE DEF new
  <2>1. t.partial \in Seq(Byte)
    OBVIOUS
  <2> QED BY <1>4, <2>1, JoinBytes, Zenon DEF p
<1>6. held \in Seq(Byte) /\ Len(held) = p + Len(new)
  <2> HIDE DEF new
  <2>1. t.partial \in Seq(Byte)
    OBVIOUS
  <2> QED BY <1>4, <2>1, JoinBytes, Zenon DEF p
<1> HIDE DEF new, held
<1>7. Len(new) = l - o
  BY <1>1, <1>4
<1>8. \A j \in 1 .. l - o : new[j] = log[o + j]
  BY <1>1, <1>4
<1>9. at + Len(held) = l /\ o + Len(new) = l
  BY <1>1, <1>6, <1>7
<1>10. ASSUME NEW j \in 1 .. Len(held) PROVE held[j] = log[at + j] /\ at + j \in 1 .. l
  <2>1. j \in 1 .. p + Len(new) /\ at + j \in 1 .. l
    BY <1>1, <1>6, <1>7
  <2>2. CASE j <= p
    BY <1>2, <1>5, <2>1, <2>2
  <2>3. CASE j > p
    <3>1. j - p \in 1 .. l - o /\ o + (j - p) = at + j
      BY <1>1, <1>7, <2>1, <2>3
    <3> QED BY <1>1, <1>5, <1>8, <2>1, <2>3, <3>1
  <2> QED BY <1>1, <2>1, <2>2, <2>3
<1> QED BY <1>6, <1>9, <1>10 DEF held, new, o, l, Appended

\* A read hands on the whole lines, each from where the last one ended, and
\* holds back the rest.
LEMMA LinesAre ==
  ASSUME NEW x \in Seq(Byte), NEW ends \in LineEnds(x), NEW k \in 1 .. Len(ends)
  PROVE  LineIs(Lines(x, ends)[k], x, Cut(ends, k - 1), Cut(ends, k))
BY CutLines

LEMMA ReadsMore ==
  ASSUME file \in Nat, LogKept, NEW h \in Seq(Seq(Byte)), NEW f \in [file : Nat, at : Nat],
         NEW t \in [offset : Nat, partial : Seq(Byte)],
         Follows(h, f, t), f.file = file,
         NEW ends \in LineEnds(t.partial \o Appended(t))
  PROVE  LET held == t.partial \o Appended(t)
         IN  Follows(h \o Lines(held, ends), f,
                     [offset |-> t.offset + Len(Appended(t)), partial |-> Rest(held, ends)])
<1> DEFINE held == t.partial \o Appended(t)
           lines == Lines(held, ends)
           rest == Rest(held, ends)
           h1 == h \o lines
           at == ReachedBy(h, f, Len(h))
           n == Len(ends)
           m == Len(h)
           l == Len(log)
           t1 == [offset |-> t.offset + Len(Appended(t)), partial |-> rest]
<1>1. WholeLines(h, f) /\ NoneLost(h, f, t)
  BY DEF Follows
<1>2. m \in Nat /\ at \in Nat /\ l \in Nat
  <2>1. m \in Nat /\ l \in Nat /\ Len(h) \in 0 .. Len(h)
    BY LenProperties DEF LogKept
  <2> QED BY <1>1, <2>1, ReachedTyped
<1>3. /\ held \in Seq(Byte) /\ at + Len(held) = l
      /\ t.offset + Len(Appended(t)) = l
      /\ \A j \in 1 .. Len(held) : held[j] = log[at + j] /\ at + j \in 1 .. l
  BY <1>1, <1>2, Held DEF NoneLost
<1> HIDE DEF held
<1>4. ends \in LineEnds(held)
  BY DEF held
<1>5. /\ lines \in Seq(Seq(Byte)) /\ Len(lines) = n /\ n \in Nat
      /\ \A k \in 0 .. n : Cut(ends, k) \in 0 .. Len(held)
  BY <1>3, <1>4, CutLines
<1>6. ASSUME NEW k \in 1 .. n
      PROVE  LET line == lines[k]
                 start == at + Cut(ends, k - 1)
             IN  /\ OneLine(line) /\ line[1].file = file
                 /\ StandsAt(line, start)
                 /\ line[Len(line)].at = at + Cut(ends, k)
  <2>0. LineIs(lines[k], held, Cut(ends, k - 1), Cut(ends, k))
    BY <1>3, <1>4, LinesAre
  <2> HIDE DEF lines, h1, rest, n, m, l, at
  <2> DEFINE line == lines[k]
             c == Cut(ends, k - 1)
             d == Cut(ends, k)
  <2>1. /\ line # <<>> /\ line \in Seq(Byte) /\ c + Len(line) = d
        /\ \A j \in 1 .. Len(line) : /\ line[j] = held[c + j] /\ c + j \in 1 .. Len(held)
                                      /\ line[j].newline = (j = Len(line))
    BY <2>0 DEF LineIs
  <2>2. c \in Nat /\ d \in Nat /\ Len(held) \in Nat
    BY <1>3, <1>5, LenProperties
  <2>3. Len(line) \in Nat \ {0} /\ DOMAIN line = 1 .. Len(line)
    BY <2>1, EmptySeq, LenProperties
  <2> HIDE DEF line, c, d
  <2>4. ASSUME NEW j \in 1 .. Len(line)
        PROVE  /\ line[j] = log[(at + c) + j] /\ (at + c) + j \in 1 .. l
               /\ line[j].file = file /\ line[j].at = (at + c) + j
    <3>1. at + (c + j) = (at + c) + j /\ c + j \in 1 .. Len(held)
      BY <1>2, <2>1, <2>2
    <3>2. line[j] = log[(at + c) + j] /\ (at + c) + j \in 1 .. l
      BY <1>3, <2>1, <3>1
    <3>3. \A i \in 1 .. l : log[i].file = file /\ log[i].at = i
      BY DEF LogKept, l
    <3> QED BY <3>2, <3>3, Zenon
  <2>5. StandsAt(line, at + c)
    <3>1. DOMAIN log = 1 .. l
      BY LenProperties DEF LogKept, l
    <3> QED BY <2>3, <2>4, <3>1 DEF StandsAt
  <2>6. OneLine(line)
    <3>1. \A j \in 1 .. Len(line) : line[j].newline = (j = Len(line)) /\ line[j].file = line[1].file
      <4>1. 1 \in 1 .. Len(line)
        BY <2>3
      <4>2. \A j \in 1 .. Len(line) : line[j].file = file
        BY <2>4
      <4> QED BY <2>1, <4>1, <4>2
    <3> QED BY <2>1, <2>3, <3>1 DEF OneLine
  <2>7. line[Len(line)].at = at + d
    <3>1. Len(line) \in 1 .. Len(line)
      BY <2>3
    <3>2. line[Len(line)].at = (at + c) + Len(line)
      BY <2>4, <3>1
    <3>3. c + Len(line) = d
      BY <2>1
    <3>4. (at + c) + Len(line) = at + d
      <4>2. at \in Nat /\ c \in Nat /\ Len(line) \in Nat
        BY <1>2, <2>2, <2>3
      <4>3. (at + c) + Len(line) = at + (c + Len(line))
        BY <4>2
      <4> QED BY <4>3, <3>3
    <3> QED BY <3>2, <3>4
  <2>8. line[1].file = file
    BY <2>3, <2>4
  <2> QED BY <2>5, <2>6, <2>7, <2>8 DEF line, c, d
<1>7. /\ h1 \in Seq(Seq(Byte)) /\ Len(h1) = m + n
      /\ \A i \in 1 .. m + n : h1[i] = IF i <= m THEN h[i] ELSE lines[i - m]
  <2> HIDE DEF lines
  <2>1. /\ h1 \in Seq(Seq(Byte)) /\ Len(h1) = Len(h) + Len(lines)
        /\ \A i \in 1 .. Len(h) + Len(lines) :
             h1[i] = IF i <= Len(h) THEN h[i] ELSE lines[i - Len(h)]
    BY <1>5, JoinLines, Zenon
  <2> QED BY <1>5, <2>1
<1>8. /\ rest \in Seq(Byte) /\ Cut(ends, n) + Len(rest) = Len(held)
      /\ \A j \in 1 .. Len(rest) : rest[j] = held[Cut(ends, n) + j] /\ ~rest[j].newline
  BY <1>3, <1>4, CutRest
<1> HIDE DEF lines, h1, rest, n, m, l, at
<1>9. /\ \A i \in 1 .. m : h1[i] = h[i] /\ i \in 1 .. m + n
      /\ \A i \in 1 .. m + n : i > m => h1[i] = lines[i - m] /\ i - m \in 1 .. n
  <2>1. \A i \in 1 .. m : i \in 1 .. m + n /\ i <= m
    BY <1>2, <1>5
  <2>2. \A i \in 1 .. m + n : i > m => i - m \in 1 .. n /\ ~(i <= m)
    BY <1>2, <1>5
  <2>3. \A i \in 1 .. m : h1[i] = h[i]
    BY <1>7, <2>1
  <2>4. \A i \in 1 .. m + n : i > m => h1[i] = lines[i - m]
    BY <1>7, <2>2
  <2> QED BY <2>1, <2>2, <2>3, <2>4
<1>10. WholeLines(h1, f)
  <2>1. \A i \in 1 .. m + n : OneLine(h1[i]) /\ h1[i][1].file <= file
    <3> SUFFICES ASSUME NEW i \in 1 .. m + n PROVE OneLine(h1[i]) /\ h1[i][1].file <= file
      OBVIOUS
    <3>1. CASE i <= m
      <4>1. i \in 1 .. m
        BY <1>2, <1>5, <3>1
      <4> QED BY <1>1, <1>9, <4>1 DEF WholeLines, m
    <3>2. CASE i > m
      <4>1. h1[i] = lines[i - m] /\ i - m \in 1 .. n
        BY <1>9, <3>2
      <4>2. OneLine(h1[i]) /\ h1[i][1].file = file
        BY <1>6, <4>1
      <4> QED BY <4>2
    <3> QED BY <1>2, <1>5, <3>1, <3>2
  <2>2. ASSUME NEW i \in 1 .. m + n, NEW j \in 1 .. m + n, i < j
        PROVE  h1[i][1].file <= h1[j][1].file
    <3>1. CASE j <= m
      <4>1. i \in 1 .. m /\ j \in 1 .. m
        BY <1>2, <1>5, <2>2, <3>1
      <4> QED BY <1>1, <1>9, <2>2, <4>1 DEF WholeLines, m
    <3>2. CASE j > m
      <4>1. h1[j] = lines[j - m] /\ j - m \in 1 .. n
        BY <1>9, <3>2
      <4>2. h1[j][1].file = file
        BY <1>6, <4>1
      <4>3. \A k \in 1 .. m + n : h1[k][1].file <= file
        <5> SUFFICES ASSUME NEW k \in 1 .. m + n PROVE h1[k][1].file <= file
          OBVIOUS
        <5> QED BY <2>1
      <4> QED BY <4>2, <4>3
    <3> QED BY <1>2, <1>5, <3>1, <3>2
  <2> QED BY <1>7, <2>1, <2>2 DEF WholeLines
<1>11. \A i \in 0 .. m : ReachedBy(h1, f, i) = ReachedBy(h, f, i)
  <2> SUFFICES ASSUME NEW i \in 0 .. m PROVE ReachedBy(h1, f, i) = ReachedBy(h, f, i)
    OBVIOUS
  <2>1. CASE ~(i > 0)
    BY <2>1 DEF ReachedBy
  <2>2. CASE i > 0
    <3>1. i \in 1 .. m
      BY <1>2, <2>2
    <3>2. h1[i] = h[i]
      BY <1>9, <3>1
    <3> QED BY <3>2 DEF ReachedBy
  <2> QED BY <2>1, <2>2
<1>12. ASSUME NEW k \in 0 .. n PROVE ReachedBy(h1, f, m + k) = at + Cut(ends, k)
  <2>1. CASE k = 0
    <3>1. ReachedBy(h1, f, m) = at /\ m + k = m
      BY <1>2, <1>11, <2>1 DEF at, m
    <3> QED BY <1>2, <2>1, <3>1 DEF Cut
  <2>2. CASE k > 0
    <3>1. m + k \in 1 .. m + n /\ m + k > m /\ (m + k) - m = k /\ k \in 1 .. n /\ m + k > 0
      BY <1>2, <1>5, <2>2
    <3>2. h1[m + k] = lines[k]
      BY <1>9, <3>1
    <3> QED BY <1>6, <3>1, <3>2 DEF ReachedBy
  <2> QED BY <2>1, <2>2
<1>13. \A i \in 1 .. m + n : h1[i][1].file = file => StandsAt(h1[i], ReachedBy(h1, f, i - 1))
  <2> SUFFICES ASSUME NEW i \in 1 .. m + n, h1[i][1].file = file
               PROVE  StandsAt(h1[i], ReachedBy(h1, f, i - 1))
    OBVIOUS
  <2>1. CASE i <= m
    <3>1. i \in 1 .. m /\ i - 1 \in 0 .. m
      BY <1>2, <1>5, <2>1
    <3> QED BY <1>1, <1>9, <1>11, <3>1 DEF NoneLost, m
  <2>2. CASE i > m
    <3>0. i \in Nat /\ i <= m + n /\ m \in Nat /\ n \in Nat
      BY <1>2, <1>5
    <3>1. i - m \in 1 .. n /\ (i - m) - 1 \in 0 .. n /\ m + ((i - m) - 1) = i - 1
      <4>1. i - m \in 1 .. n
        BY <3>0, <2>2
      <4>2. (i - m) - 1 \in 0 .. n
        BY <3>0, <4>1
      <4>3. m + ((i - m) - 1) = i - 1
        BY <3>0
      <4> QED BY <4>1, <4>2, <4>3
    <3>2. ReachedBy(h1, f, i - 1) = at + Cut(ends, (i - m) - 1)
      BY <1>12, <3>1
    <3> QED BY <1>6, <1>9, <2>2, <3>1, <3>2
  <2> QED BY <1>2, <1>5, <2>1, <2>2
<1>14. ReachedBy(h1, f, m + n) = at + Cut(ends, n) /\ Cut(ends, n) \in Nat
  BY <1>5, <1>12
<1> DEFINE c == Cut(ends, n)
<1>15. Len(rest) \in Nat /\ c \in Nat /\ l = (at + c) + Len(rest) /\ Len(held) \in Nat
  <2>1. Len(rest) \in Nat /\ Len(held) \in Nat
    BY <1>3, <1>8, LenProperties
  <2>2. c \in Nat /\ c + Len(rest) = Len(held) /\ at + Len(held) = l
    BY <1>3, <1>8, <1>14
  <2> HIDE DEF c
  <2> QED BY <1>2, <2>1, <2>2
<1> HIDE DEF c
<1>16. StandsAt(rest, at + c)
  <2>1. DOMAIN log = 1 .. l /\ DOMAIN rest = 1 .. Len(rest)
    BY <1>8, LenProperties DEF LogKept, l
  <2>2. ASSUME NEW j \in 1 .. Len(rest)
        PROVE  (at + c) + j \in 1 .. l /\ rest[j] = log[(at + c) + j]
    <3>1. c + j \in 1 .. Len(held) /\ at + (c + j) = (at + c) + j
      BY <1>2, <1>8, <1>15 DEF c
    <3> QED BY <1>3, <1>8, <3>1 DEF c
  <2> QED BY <2>1, <2>2 DEF StandsAt
<1>17. t1.offset = l /\ t1.partial = rest
  BY <1>3
<1> HIDE DEF t1
<1>18. NoneLost(h1, f, t1)
  <2>1. f.at <= at + c
    <3>1. f.at <= at /\ f.at \in Nat
      BY <1>1 DEF NoneLost, at
    <3> QED BY <1>2, <1>15, <3>1
  <2>2. ReachedBy(h1, f, Len(h1)) = at + c
    BY <1>7, <1>14 DEF c
  <2> QED BY <1>2, <1>7, <1>13, <1>15, <1>16, <1>17, <2>1, <2>2 DEF NoneLost, l
<1>19. t1.offset = 0 => t1.partial = <<>>
  <2>1. l = 0 => Len(rest) = 0
    BY <1>2, <1>15
  <2> QED BY <1>8, <1>17, <2>1, EmptySeq
<1>20. Follows(h1, f, t1)
  BY <1>8, <1>10, <1>17, <1>18, <1>19 DEF Follows
<1> QED BY <1>20 DEF h1, lines, t1, rest, held

-----------------------------------------------------------------------------
(* The steps of the tails and of the log                                   *)

\* What a tail follows does not change while the log only grows.
LEMMA FollowsOn ==
  ASSUME TailInv, Write, NEW h \in Seq(Seq(Byte)), NEW f \in [file : Nat, at : Nat],
         NEW t \in [offset : Nat, partial : Seq(Byte)], Follows(h, f, t)
  PROVE  Follows(h, f, t)'
<1>1. file' = file /\ Len(log) \in Nat /\ log \in Seq(Byte)
  BY LenProperties DEF Write, TailInv, LogKept
<1>2. PICK b \in Byte : log' = Append(log, b)
  <2>1. PICK nl \in BOOLEAN :
          log' = Append(log, [file |-> file, at |-> Len(log) + 1, newline |-> nl])
    BY DEF Write
  <2>2. file \in Nat /\ Len(log) + 1 \in Nat
    BY <1>1 DEF TailInv, TailType
  <2>3. [file |-> file, at |-> Len(log) + 1, newline |-> nl] \in Byte
    BY <2>2 DEF Byte
  <2> QED BY <2>1, <2>3
<1>3. Len(log') = Len(log) + 1 /\ DOMAIN log' = 1 .. Len(log) + 1 /\ DOMAIN log = 1 .. Len(log)
      /\ \A i \in DOMAIN log : i \in DOMAIN log' /\ log'[i] = log[i]
  BY <1>1, <1>2
<1>4. \A i : ReachedBy(h, f, i)' = ReachedBy(h, f, i)
  BY <1>1 DEF ReachedBy
<1>5. \A bytes, at : StandsAt(bytes, at) => StandsAt(bytes, at)'
  BY <1>3 DEF StandsAt
<1>6. NoneLost(h, f, t) => NoneLost(h, f, t)'
  <2> SUFFICES ASSUME NoneLost(h, f, t) PROVE NoneLost(h, f, t)'
    OBVIOUS
  <2>1. t.offset <= Len(log')
    <3>1. t.offset <= Len(log) /\ t.offset \in Nat
      BY DEF NoneLost
    <3> QED BY <1>1, <1>3, <3>1
  <2> QED BY <1>1, <1>4, <1>5, <2>1 DEF NoneLost
<1> QED BY <1>1, <1>6 DEF Follows, WholeLines

\* A tail of the old file follows it in the new one, where nothing is asked
\* of it until it is placed anew.
LEMMA FollowsOver ==
  ASSUME TailInv, Rotate, NEW h \in Seq(Seq(Byte)), NEW f \in [file : Nat, at : Nat],
         NEW t \in [offset : Nat, partial : Seq(Byte)], Follows(h, f, t)
  PROVE  Follows(h, f, t)'
<1>1. file \in Nat /\ file' = file + 1
  BY DEF TailInv, TailType, Rotate
<1>2. f.file <= file /\ f.file \in Nat
  BY DEF Follows
<1>3. f.file <= file' /\ f.file # file'
  BY <1>1, <1>2
<1> QED BY <1>3 DEF Follows, WholeLines

LEMMA FollowsSame ==
  ASSUME NEW h, NEW f, NEW t, UNCHANGED <<log, file>>, Follows(h, f, t)
  PROVE  Follows(h, f, t)'
<1> QED BY DEF Follows, WholeLines, NoneLost, ReachedBy, StandsAt

LEMMA LogTail ==
  ASSUME TailInv, Write \/ Rotate \/ Recreate
  PROVE  TailInv'
<1> USE DEF loopVars, tailHistory, history
<1>1. UNCHANGED <<pc, placed, tail, from, handed, outrun>>
  BY DEF Write, Rotate, Recreate
<1>2. file \in Nat /\ file' \in Nat
  BY DEF Write, Rotate, Recreate, TailInv, TailType
<1>3. TailType' /\ PlacedKept'
  BY <1>1, <1>2 DEF TailInv, TailType, PlacedKept
<1>4. LogKept'
  <2>1. CASE Write
    <3>1. PICK nl \in BOOLEAN :
            log' = Append(log, [file |-> file, at |-> Len(log) + 1, newline |-> nl])
      BY <2>1 DEF Write
    <3>2. log \in Seq(Byte) /\ Len(log) \in Nat /\ file' = file
      BY <2>1, LenProperties DEF Write, TailInv, LogKept
    <3>3. [file |-> file, at |-> Len(log) + 1, newline |-> nl] \in Byte
      BY <1>2, <3>2 DEF Byte
    <3>4. /\ log' \in Seq(Byte) /\ Len(log') = Len(log) + 1
          /\ \A i \in 1 .. Len(log) : log'[i] = log[i]
          /\ log'[Len(log) + 1] = [file |-> file, at |-> Len(log) + 1, newline |-> nl]
      BY <3>1, <3>2, <3>3
    <3>5. \A i \in 1 .. Len(log') : i \in 1 .. Len(log) \/ i = Len(log) + 1
      BY <3>2, <3>4
    <3> QED BY <3>2, <3>4, <3>5 DEF TailInv, LogKept
  <2>2. CASE Rotate
    BY <2>2, EmptySeq DEF Rotate, LogKept
  <2>3. CASE Recreate
    BY <2>3 DEF Recreate, TailInv, LogKept
  <2> QED BY <2>1, <2>2, <2>3
<1>5. ASSUME NEW v \in Watcher, placed[v], v \notin outrun
      PROVE  Follows(handed[v], from[v], tail[v])'
  <2> DEFINE h == handed[v]
             f == from[v]
             t == tail[v]
  <2>1. /\ h \in Seq(Seq(Byte)) /\ f \in [file : Nat, at : Nat]
        /\ t \in [offset : Nat, partial : Seq(Byte)] /\ Follows(h, f, t)
    BY <1>5 DEF TailInv, TailType
  <2>2. h' = h /\ f' = f /\ t' = t
    BY <1>1
  <2> HIDE DEF h, f, t
  <2>3. PICK hh, ff, tt : hh = h /\ ff = f /\ tt = t
    OBVIOUS
  <2>4. Follows(hh, ff, tt)'
    <3>1. CASE Write
      BY <2>1, <2>3, <3>1, FollowsOn
    <3>2. CASE Rotate
      BY <2>1, <2>3, <3>2, FollowsOver
    <3>3. CASE Recreate
      BY <2>1, <2>3, <3>3, FollowsSame DEF Recreate
    <3> QED BY <3>1, <3>2, <3>3
  <2> QED BY <2>2, <2>3, <2>4 DEF h, f, t
<1> QED BY <1>1, <1>3, <1>4, <1>5 DEF TailInv

Placing == {"sleep", "read", "observe", "deliver", "hung"}

\* A step of one watcher, with what it makes of its own tail.
LEMMA OneTail ==
  ASSUME NEW w \in Watcher, TailInv, UNCHANGED <<log, file>>,
         NEW l \in Labels, pc' = [pc EXCEPT ![w] = l],
         NEW p \in BOOLEAN, placed' = [placed EXCEPT ![w] = p],
         NEW h \in Seq(Seq(Byte)), handed' = [handed EXCEPT ![w] = h],
         NEW f \in [file : Nat, at : Nat], from' = [from EXCEPT ![w] = f],
         NEW t \in [offset : Nat, partial : Seq(Byte)], tail' = [tail EXCEPT ![w] = t],
         ~p => h = <<>> /\ l \notin Placing,
         p => l # "tail",
         \A v \in Watcher \ {w} : v \in outrun => v \in outrun',
         p /\ w \notin outrun' => Follows(h, f, t)
  PROVE  TailInv'
<1>1. TailType'
  BY DEF TailInv, TailType
<1>2. LogKept'
  BY DEF TailInv, LogKept
<1>3. PlacedKept'
  BY DEF TailInv, TailType, PlacedKept, Placing
<1>4. ASSUME NEW v \in Watcher, placed'[v], v \notin outrun'
      PROVE  Follows(handed[v], from[v], tail[v])'
  <2>1. PICK hh, ff, tt : hh = handed'[v] /\ ff = from'[v] /\ tt = tail'[v]
    OBVIOUS
  <2>2. Follows(hh, ff, tt)
    <3>1. CASE v = w
      BY <1>4, <2>1, <3>1 DEF TailInv, TailType
    <3>2. CASE v # w
      BY <1>4, <2>1, <3>2 DEF TailInv, TailType
    <3> QED BY <3>1, <3>2
  <2>3. Follows(hh, ff, tt)'
    BY <2>2, FollowsSame
  <2> QED BY <2>1, <2>3
<1> QED BY <1>1, <1>2, <1>3, <1>4 DEF TailInv

\* A step that leaves the tails alone.
LEMMA SameTail ==
  ASSUME NEW w \in Watcher, TailInv, UNCHANGED <<log, file, placed, handed, from, tail, outrun>>,
         NEW l \in Labels, pc' = [pc EXCEPT ![w] = l],
         ~placed[w] => l \notin Placing, placed[w] => l # "tail"
  PROVE  TailInv'
<1>1. TailType'
  BY DEF TailInv, TailType
<1>2. LogKept'
  BY DEF TailInv, LogKept
<1>3. PlacedKept'
  <2> SUFFICES ASSUME NEW v \in Watcher
               PROVE  /\ ~placed[v] => handed[v] = <<>> /\ pc'[v] \notin Placing
                      /\ placed[v] => pc'[v] # "tail"
    BY DEF PlacedKept, Placing
  <2>1. /\ ~placed[v] => handed[v] = <<>> /\ pc[v] \notin Placing
        /\ placed[v] => pc[v] # "tail"
    BY DEF TailInv, PlacedKept, Placing
  <2>2. pc'[v] = IF v = w THEN l ELSE pc[v]
    BY DEF TailInv, TailType
  <2> QED BY <2>1, <2>2
<1>4. ASSUME NEW v \in Watcher, placed'[v], v \notin outrun'
      PROVE  Follows(handed[v], from[v], tail[v])'
  <2>1. PICK h, f, t : h = handed[v] /\ f = from[v] /\ t = tail[v]
    OBVIOUS
  <2>2. Follows(h, f, t)
    BY <1>4, <2>1 DEF TailInv
  <2>3. Follows(h, f, t)'
    BY <2>2, FollowsSame
  <2> QED BY <2>1, <2>3
<1> QED BY <1>1, <1>2, <1>3, <1>4 DEF TailInv

LEMMA AtEndTail == ASSUME NEW w \in Watcher, TailInv, AtEnd(w) PROVE TailInv'
<1> DEFINE h == handed[w]
           f == [file |-> file, at |-> Len(log)]
           t == NewTail(Len(log))
<1>1. ~placed[w] /\ h = <<>> /\ file \in Nat /\ Len(log) \in Nat /\ LogKept
  BY LenProperties DEF AtEnd, TailInv, PlacedKept, TailType, LogKept
<1>2. h \in Seq(Seq(Byte)) /\ <<>> \in Seq(Byte)
  BY <1>1, EmptySeq
<1>3. f \in [file : Nat, at : Nat] /\ t \in [offset : Nat, partial : Seq(Byte)]
  BY <1>1, <1>2 DEF NewTail
<1>4. /\ placed' = [placed EXCEPT ![w] = TRUE] /\ handed' = [handed EXCEPT ![w] = h]
      /\ from' = [from EXCEPT ![w] = f] /\ tail' = [tail EXCEPT ![w] = t]
      /\ outrun' = outrun /\ pc' = [pc EXCEPT ![w] = "sleep"] /\ UNCHANGED <<log, file>>
  BY DEF AtEnd, TailInv, TailType, Goto, logVars
<1>5. Follows(h, f, t)
  <2>1. WholeLines(h, f) /\ Len(log) \in 0 .. Len(log)
    BY <1>1 DEF WholeLines
  <2> QED BY <1>1, <1>2, <1>3, <2>1, FollowsFresh
<1> HIDE DEF h, f, t
<1> QED BY <1>2, <1>3, <1>4, <1>5, OneTail DEF Labels

\* A tail that looks at the file before or at a read: where it is then.
LEMMA Looks ==
  ASSUME TailInv, NEW w \in Watcher, placed[w], NEW t \in [offset : Nat, partial : Seq(Byte)],
         Follows(handed[w], from[w], t), ~Outrun(w, t)
  PROVE  /\ Tracked(w, t) \in [file : Nat, at : Nat]
         /\ Follows(handed[w], Tracked(w, t), t)
         /\ Tracked(w, t).file = file \/ Len(log) < t.offset
<1>1. /\ file \in Nat /\ LogKept /\ handed[w] \in Seq(Seq(Byte))
      /\ from[w] \in [file : Nat, at : Nat] /\ Len(log) \in Nat
  BY LenProperties DEF TailInv, TailType, LogKept
<1>2. CASE t.offset = 0
  BY <1>1, <1>2, FollowsTop DEF Tracked
<1>3. CASE t.offset # 0
  BY <1>1, <1>3 DEF Tracked, Outrun
<1> QED BY <1>2, <1>3

LEMMA StatTail == ASSUME NEW w \in Watcher, TailInv, Stat(w) PROVE TailInv'
<1>1. /\ file \in Nat /\ LogKept /\ placed[w] /\ handed[w] \in Seq(Seq(Byte))
      /\ from[w] \in [file : Nat, at : Nat] /\ Len(log) \in Nat
      /\ tail[w] \in [offset : Nat, partial : Seq(Byte)]
  BY LenProperties DEF Stat, TailInv, TailType, LogKept, PlacedKept
<1>2. CASE absent
  BY <1>1, <1>2, SameTail DEF Stat, Goto, Labels, logVars, loopVars
<1>3. CASE ~absent
  <2> DEFINE h == handed[w]
             t == Looked(tail[w], Len(log))
             f == Tracked(w, t)
             l == IF Len(log) = t.offset THEN "observe" ELSE "read"
  <2>1. /\ tail' = [tail EXCEPT ![w] = t] /\ from' = [from EXCEPT ![w] = f]
        /\ pc' = [pc EXCEPT ![w] = l] /\ UNCHANGED <<log, file>>
        /\ outrun' = IF Outrun(w, t) THEN outrun \cup {w} ELSE outrun
        /\ UNCHANGED <<placed, handed>>
    BY <1>3 DEF Stat, Goto, logVars, loopVars
  <2>2. placed' = [placed EXCEPT ![w] = TRUE] /\ handed' = [handed EXCEPT ![w] = h]
    BY <1>1, <2>1 DEF TailInv, TailType
  <2>3. t \in [offset : Nat, partial : Seq(Byte)]
    <3>1. <<>> \in Seq(Byte)
      BY EmptySeq
    <3> QED BY <1>1, <3>1 DEF Looked, NewTail
  <2>4. f \in [file : Nat, at : Nat]
    BY <1>1 DEF Tracked
  <2>5. ASSUME w \notin outrun' PROVE Follows(h, f, t)
    <3>1. ~Outrun(w, t) /\ Follows(handed[w], from[w], tail[w])
      BY <1>1, <2>1, <2>5 DEF TailInv
    <3>2. CASE Len(log) < tail[w].offset
      <4>1. t = NewTail(0) /\ f = [file |-> file, at |-> 0]
        BY <3>2 DEF Looked, Tracked, NewTail
      <4>2. from[w].file # file
        BY <1>1, <3>1, <3>2 DEF Follows, NoneLost
      <4>3. from[w].file < file /\ WholeLines(h, from[w])
        BY <1>1, <3>1, <4>2 DEF Follows
      <4>4. 0 \in 0 .. Len(log)
        BY <1>1
      <4> QED BY <1>1, <4>1, <4>3, <4>4, FollowsFresh
    <3>3. CASE ~(Len(log) < tail[w].offset)
      <4>1. t = tail[w]
        BY <3>3 DEF Looked
      <4> QED BY <1>1, <3>1, <4>1, Looks
    <3> QED BY <3>2, <3>3
  <2>6. /\ l \in Labels /\ l # "tail"
        /\ \A v \in Watcher \ {w} : v \in outrun => v \in outrun'
    BY <2>1 DEF Labels
  <2> HIDE DEF h, f, t, l
  <2> QED BY <1>1, <2>1, <2>2, <2>3, <2>4, <2>5, <2>6, OneTail DEF h
<1> QED BY <1>2, <1>3

LEMMA ReadTail == ASSUME NEW w \in Watcher, TailInv, ReadAppended(w) PROVE TailInv'
<1>1. /\ file \in Nat /\ LogKept /\ placed[w] /\ handed[w] \in Seq(Seq(Byte))
      /\ from[w] \in [file : Nat, at : Nat] /\ Len(log) \in Nat
      /\ tail[w] \in [offset : Nat, partial : Seq(Byte)]
  BY LenProperties DEF ReadAppended, TailInv, TailType, LogKept, PlacedKept
<1>2. CASE absent
  BY <1>1, <1>2, SameTail DEF ReadAppended, Goto, Labels, logVars, loopVars
<1>3. CASE ~absent
  <2> DEFINE t0 == tail[w]
             held == t0.partial \o Appended(t0)
             f == Tracked(w, t0)
  <2>1. PICK ends \in LineEnds(held) :
          /\ tail' = [tail EXCEPT ![w] = [offset |-> t0.offset + Len(Appended(t0)),
                                          partial |-> Rest(held, ends)]]
          /\ handed' = [handed EXCEPT ![w] = handed[w] \o Lines(held, ends)]
    BY <1>1, <1>3 DEF ReadAppended, TailInv, TailType
  <2> DEFINE t == [offset |-> t0.offset + Len(Appended(t0)), partial |-> Rest(held, ends)]
             h == handed[w] \o Lines(held, ends)
  <2>2. /\ from' = [from EXCEPT ![w] = f] /\ pc' = [pc EXCEPT ![w] = "observe"]
        /\ UNCHANGED <<log, file, placed>>
        /\ outrun' = IF Outrun(w, t0) THEN outrun \cup {w} ELSE outrun
    BY <1>3 DEF ReadAppended, Goto, logVars, loopVars
  <2>3. placed' = [placed EXCEPT ![w] = TRUE]
    BY <1>1, <2>2 DEF TailInv, TailType
  <2>4. Appended(t0) \in Seq(Byte)
    <3>1. t0.offset \in Nat /\ log \in Seq(Byte)
      BY <1>1 DEF LogKept
    <3>2. \A i \in t0.offset + 1 .. Len(log) : log[i] \in Byte
      <4> SUFFICES ASSUME NEW i \in t0.offset + 1 .. Len(log) PROVE log[i] \in Byte
        OBVIOUS
      <4>1. i \in 1 .. Len(log)
        BY <1>1, <3>1
      <4> QED BY <3>1, <4>1, ElementOfSeq
    <3>3. t0.offset + 1 \in Int /\ Len(log) \in Int
      BY <1>1, <3>1
    <3> QED BY <3>2, <3>3, SubSeqProperties DEF Appended
  <2>5. held \in Seq(Byte) /\ Len(Appended(t0)) \in Nat
    BY <1>1, <2>4, ConcatProperties, LenProperties
  <2>6. Lines(held, ends) \in Seq(Seq(Byte)) /\ Rest(held, ends) \in Seq(Byte)
    BY <2>5, CutLines, CutRest
  <2>7. h \in Seq(Seq(Byte)) /\ t \in [offset : Nat, partial : Seq(Byte)]
    <3>1. h \in Seq(Seq(Byte))
      BY <1>1, <2>6, ConcatProperties
    <3>2. t0.offset + Len(Appended(t0)) \in Nat
      BY <1>1, <2>5
    <3> QED BY <2>6, <3>1, <3>2
  <2>8. f \in [file : Nat, at : Nat]
    BY <1>1 DEF Tracked
  <2>9. ASSUME w \notin outrun' PROVE Follows(h, f, t)
    <3>1. ~Outrun(w, t0) /\ Follows(handed[w], from[w], t0)
      BY <1>1, <2>2, <2>9 DEF TailInv
    <3>2. Follows(handed[w], f, t0) /\ (f.file = file \/ Len(log) < t0.offset)
      BY <1>1, <3>1, Looks
    <3>3. CASE f.file = file
      BY <1>1, <2>8, <3>2, <3>3, ReadsMore
    <3>4. CASE Len(log) < t0.offset
      <4>1. t = t0 /\ h = handed[w]
        BY <1>1, <3>2, <3>4, ReadsNothing
      <4> QED BY <3>2, <4>1
    <3> QED BY <3>2, <3>3, <3>4
  <2>10. \A v \in Watcher \ {w} : v \in outrun => v \in outrun'
    BY <2>2
  <2>11. tail' = [tail EXCEPT ![w] = t] /\ handed' = [handed EXCEPT ![w] = h]
    BY <2>1
  <2> HIDE DEF h, f, t, held, t0
  <2> QED BY <1>1, <2>2, <2>3, <2>7, <2>8, <2>9, <2>10, <2>11, OneTail DEF Labels
<1> QED BY <1>2, <1>3

LEMMA DieTail == ASSUME NEW w \in Watcher, TailInv, Die(w) PROVE TailInv'
<1>1. <<>> \in Seq(Seq(Byte)) /\ <<>> \in Seq(Byte)
  BY EmptySeq
<1>2. Unplaced \in [file : Nat, at : Nat] /\ NewTail(0) \in [offset : Nat, partial : Seq(Byte)]
  BY <1>1 DEF Unplaced, NewTail
<1> QED BY <1>1, <1>2, OneTail DEF Die, Goto, logVars, Labels, Placing

LEMMA StepTail == TailInv /\ [Next]_vars => TailInv'
<1> SUFFICES ASSUME TailInv, [Next]_vars PROVE TailInv'
  OBVIOUS
<1> USE DEF logVars, loopVars, history, tailHistory
<1>1. ASSUME UNCHANGED <<log, file, pc, placed, tail, from, handed, outrun>> PROVE TailInv'
  <2>1. TailType'
    BY <1>1 DEF TailInv, TailType
  <2>2. LogKept' /\ PlacedKept'
    BY <1>1 DEF TailInv, LogKept, PlacedKept
  <2>3. ASSUME NEW w \in Watcher, placed'[w], w \notin outrun'
        PROVE  Follows(handed[w], from[w], tail[w])'
    <3>1. PICK h, f, t : h = handed[w] /\ f = from[w] /\ t = tail[w]
      OBVIOUS
    <3>2. Follows(h, f, t)
      BY <1>1, <2>3, <3>1 DEF TailInv
    <3>3. Follows(h, f, t)'
      BY <1>1, <3>2, FollowsSame
    <3> QED BY <1>1, <3>1, <3>3
  <2> QED BY <2>1, <2>2, <2>3 DEF TailInv
<1>2. CASE UNCHANGED vars
  BY <1>1, <1>2 DEF vars
<1>3. ASSUME NEW s \in Stopper, Stops(s) PROVE TailInv'
  BY <1>1, <1>3 DEF Stops, ReadPid, Sigterm, RemovePid, RemoveSnapshot
<1>4. ASSUME NEW w \in Watcher, Act(w) PROVE TailInv'
  <2> USE DEF Goto, Labels, Placing
  <2>1. CASE Check(w)
    <3>1. PICK l \in {"exited", "detach", "pid"} : pc' = [pc EXCEPT ![w] = l]
      <4>1. CASE AlreadyRunning
        BY <2>1, <4>1 DEF Check
      <4>2. CASE ~AlreadyRunning
        <5>1. PICK daemon \in BOOLEAN :
                pc' = [pc EXCEPT ![w] = IF daemon THEN "detach" ELSE "pid"]
          BY <2>1, <4>2 DEF Check
        <5> QED BY <5>1, Zenon
      <4> QED BY <4>1, <4>2
    <3> QED BY <2>1, <3>1, SameTail DEF Check
  <2>2. CASE Daemonize(w)
    BY <2>2, SameTail DEF Daemonize
  <2>3. CASE WritePid(w) \/ TruncateTmp(w) \/ FillTmp(w)
    BY <2>3, SameTail DEF WritePid, TruncateTmp, FillTmp
  <2>4. CASE Rename(w)
    BY <2>4, SameTail DEF Rename, AfterSnapshot
  <2>5. CASE Observe(w) \/ EndTick(w) \/ Hang(w)
    <3>1. placed[w]
      BY <2>5 DEF Observe, EndTick, Hang, TailInv, PlacedKept
    <3> QED BY <2>5, <3>1, SameTail DEF Observe, EndTick, Hang
  <2>6. CASE Deliver(w)
    BY <1>1, <2>6 DEF Deliver
  <2> QED BY <1>4, <2>1, <2>2, <2>3, <2>4, <2>5, <2>6,
             AtEndTail, StatTail, ReadTail, DieTail DEF Act
<1> QED BY <1>2, <1>3, <1>4, LogTail DEF Next, Act, Stops

\* Unless the log was replaced and had outgrown the tail, the lines handed on
\* and the one held back are the bytes of the log from where the tail was
\* placed, with any log, rotated and truncated at any time (Tailer::poll,
\* drain_complete_lines).
THEOREM TailIsExact == Spec => []TailExact
<1>1. ASSUME TailInv PROVE TailExact
  <2> SUFFICES ASSUME NEW w \in Watcher, placed[w], w \notin outrun
               PROVE  /\ \A i \in DOMAIN handed[w] : OneLine(handed[w][i])
                      /\ \A i, j \in DOMAIN handed[w] :
                           i < j => handed[w][i][1].file <= handed[w][j][1].file
                      /\ from[w].file = file =>
                           /\ \A i \in DOMAIN handed[w] :
                                handed[w][i][1].file = file
                                  => StandsAt(handed[w][i], Reached(w, i - 1))
                           /\ StandsAt(tail[w].partial, Reached(w, Len(handed[w])))
                           /\ tail[w].offset = Reached(w, Len(handed[w])) + Len(tail[w].partial)
    BY DEF TailExact
  <2>1. Follows(handed[w], from[w], tail[w]) /\ DOMAIN handed[w] = 1 .. Len(handed[w])
    BY <1>1, LenProperties DEF TailInv, TailType
  <2>2. \A i : Reached(w, i) = ReachedBy(handed[w], from[w], i)
    BY DEF Reached, ReachedBy
  <2> QED BY <2>1, <2>2 DEF Follows, WholeLines, NoneLost
<1>2. Spec => []TailInv
  BY InitTail, StepTail, PTL DEF Spec
<1> QED BY <1>1, <1>2, PTL

=============================================================================
