------------------------------ MODULE Watchers ------------------------------
(***************************************************************************)
(* The life of the log watchers around the loop of module Palantir: how    *)
(* one is started, refused, detached and stopped (mod.rs run_watch,        *)
(* daemon.rs), how it tails its log (tail.rs), and how it hands its alerts *)
(* to the sinks (sink.rs).  All the watchers here go by one name, and so   *)
(* share <name>.pid, <name>.json and <name>.json.tmp.                      *)
(*                                                                         *)
(* A byte of the log is the record of the file it was written to (a        *)
(* rotation or truncation starts a new one), its place there, and whether  *)
(* it ends a line.  What a line says, and so which alerts it raises, is    *)
(* left to the environment: module Palantir is about that.                 *)
(*                                                                         *)
(* Histories: `handed', the lines a tail returned; `from', where in which  *)
(* file it was last placed; `outrun', the watchers whose log was replaced  *)
(* and had grown past the tail again before they looked; `told', the sinks *)
(* of a tick and `raised' its alerts; and `mixed', whether a start ever    *)
(* met another start or a stop half-way.                                   *)
(***************************************************************************)
EXTENDS Integers, Sequences

CONSTANTS
  Watcher,                   \* invocations of `olorin palantir --alert'
  Stopper,                   \* invocations of `olorin palantir --stop'
  Sinks,                     \* the --notify flags, "stdout", "webhook", "exec"
  MaxBytes,                  \* bound: bytes written to the log
  MaxRotations,              \* bound: rotations or truncations of it
  MaxAlerts,                 \* bound: alerts of one poll
  MaxHangs                   \* bound: commands of exec sinks that never end

ASSUME WatchersAssumption ==
  /\ Sinks \in Seq({"stdout", "webhook", "exec"})
  /\ {MaxBytes, MaxRotations, MaxAlerts, MaxHangs} \subseteq Nat

VARIABLES
  log, file, absent,         \* the log, which file it is, gone mid-rotation
  written,                   \* bytes so far
  pidFile, snap, tmp,        \* <name>.pid, <name>.json, <name>.json.tmp
  pc, pid,                   \* of a watcher: where it is, its process id
  doomed,                    \* watchers a SIGTERM is on its way to
  tail,                      \* Tailer: offset, partial
  placed, queue, sink,       \* past at_end; alerts of a tick; sinks still to tell
  spc, target,               \* of a --stop: where it is, the pid it read
  hangs,
  handed, from, outrun, told, raised, mixed

logVars == <<log, file, absent, written>>
filesVars == <<pidFile, snap, tmp>>
loopVars == <<placed, queue, sink>>
stopVars == <<spc, target>>
tailHistory == <<handed, from, outrun>>
sinkHistory == <<told, raised>>
history == <<tailHistory, sinkHistory, mixed>>
vars == <<logVars, filesVars, pc, pid, doomed, tail, loopVars, stopVars, hangs, history>>

-----------------------------------------------------------------------------
(* Processes                                                               *)

NoPid == <<"none", "none">>
Gone == {"new", "exited", "killed"}

\* The process of a watcher, while it has one: that of the launching shell's
\* child until daemonize() has forked it away.
Running == {w \in Watcher : pc[w] \notin Gone}
IsAlive(p) == \E w \in Running : pid[w] = p
AlreadyRunning == pidFile # NoPid /\ IsAlive(pidFile)

\* bound: the log grows, is rotated and raises alerts only while one watcher
\* runs, as what two watchers read and deliver has nothing to do with each other.
Alone == \A v, w \in Running : v = w

Starting == {w \in Watcher : pc[w] \in {"detach", "pid"}}
Watching == {w \in Running : pc[w] \notin {"detach", "pid"}}
Stopping == {s \in Stopper : spc[s] \notin {"ready", "done"}}

-----------------------------------------------------------------------------
(* Tailer                                                                  *)

NewTail(offset) == [offset |-> offset, partial |-> <<>>]

\* drain_complete_lines: cut at every newline, and keep what is after the last.
\* `ends' are the places of the newlines, in order.
LineEnds(bytes) ==
  LET newlines == {i \in DOMAIN bytes : bytes[i].newline}
  IN  {ends \in UNION {[1..n -> newlines] : n \in 0..Len(bytes)} :
         /\ \A j, k \in DOMAIN ends : j < k => ends[j] < ends[k]
         /\ \A i \in newlines : \E k \in DOMAIN ends : ends[k] = i}
Cut(ends, k) == IF k = 0 THEN 0 ELSE ends[k]
Lines(bytes, ends) ==
  [k \in DOMAIN ends |-> SubSeq(bytes, Cut(ends, k - 1) + 1, Cut(ends, k))]
Rest(bytes, ends) == SubSeq(bytes, Cut(ends, Len(ends)) + 1, Len(bytes))

\* A file shorter than the offset is another file: start over from its top.
LookedKeepsPartial(t, len) == IF len < t.offset THEN [t EXCEPT !.offset = 0] ELSE t
Looked(t, len) == IF len < t.offset THEN NewTail(0) ELSE t

Unplaced == [file |-> 0, at |-> 0]

Appended(t) == SubSeq(log, t.offset + 1, Len(log))

-----------------------------------------------------------------------------

Init ==
  /\ log = <<>>
  /\ file = 0
  /\ absent = FALSE
  /\ written = 0
  /\ pidFile = NoPid
  /\ snap = "none"
  /\ tmp = "none"
  /\ pc = [w \in Watcher |-> "new"]
  /\ pid = [w \in Watcher |-> NoPid]
  /\ doomed = {}
  /\ tail = [w \in Watcher |-> NewTail(0)]
  /\ placed = [w \in Watcher |-> FALSE]
  /\ queue = [w \in Watcher |-> 0]
  /\ sink = [w \in Watcher |-> <<>>]
  /\ spc = [s \in Stopper |-> "ready"]
  /\ target = [s \in Stopper |-> NoPid]
  /\ hangs = 0
  /\ handed = [w \in Watcher |-> <<>>]
  /\ from = [w \in Watcher |-> Unplaced]
  /\ outrun = {}
  /\ told = [w \in Watcher |-> <<>>]
  /\ raised = [w \in Watcher |-> 0]
  /\ mixed = FALSE

Goto(w, label) == pc' = [pc EXCEPT ![w] = label]

-----------------------------------------------------------------------------
(* run_watch, up to its loop                                               *)

\* already_running, and the refusal: it is asked once, before the log is read
\* for the lag (read_tail, learn_lag), and before --daemon detaches.
Check(w) ==
  /\ pc[w] = "new"
  /\ \E daemon \in BOOLEAN :
       Goto(w, CASE AlreadyRunning -> "exited"
                 [] ~AlreadyRunning -> IF daemon THEN "detach" ELSE "pid")
  /\ pid' = [pid EXCEPT ![w] = <<w, "launched">>]
  /\ mixed' = (mixed \/ (~AlreadyRunning /\ (Starting # {} \/ Stopping # {} \/ doomed # {})))
  /\ UNCHANGED <<logVars, filesVars, doomed, tail, loopVars, stopVars, hangs,
                 tailHistory, sinkHistory>>

\* daemonize: the grandchild goes on, its parents exit; or a fork, setsid or
\* the log of the daemon fails, and the process that met it exits.
Daemonize(w) ==
  /\ pc[w] = "detach"
  /\ \/ Goto(w, "pid") /\ pid' = [pid EXCEPT ![w] = <<w, "detached">>]
     \/ Goto(w, "exited") /\ UNCHANGED pid
  /\ UNCHANGED <<logVars, filesVars, doomed, tail, loopVars, stopVars, hangs, history>>

\* write_pid comes after daemonize: it is the process that stays.
LauncherPid(w) == <<w, "launched">>
OwnPid(w) == pid[w]
WritePid(w) ==
  /\ pc[w] = "pid"
  /\ pidFile' = OwnPid(w)
  /\ Goto(w, "write")
  /\ UNCHANGED <<logVars, snap, tmp, pid, doomed, tail, loopVars, stopVars, hangs, history>>

\* write_snapshot: a file of its own name is truncated, filled and renamed.
\* The first snapshot comes before the tail is placed at the end of the log.
TruncateTmp(w) ==
  /\ pc[w] = "write"
  /\ tmp' = "torn"
  /\ Goto(w, "fill")
  /\ UNCHANGED <<logVars, pidFile, snap, pid, doomed, tail, loopVars, stopVars, hangs, history>>

\* Another watcher may have renamed the file under this one's hands.
FillTmp(w) ==
  /\ pc[w] = "fill"
  /\ IF tmp = "none"
     THEN snap' = (IF snap = "torn" THEN "whole" ELSE snap) /\ UNCHANGED tmp
     ELSE tmp' = "whole" /\ UNCHANGED snap
  /\ Goto(w, "rename")
  /\ UNCHANGED <<logVars, pidFile, pid, doomed, tail, loopVars, stopVars, hangs, history>>

AfterSnapshot(w) == IF placed[w] THEN "sleep" ELSE "tail"
Rename(w) ==
  /\ pc[w] = "rename"
  /\ snap' = IF tmp = "none" THEN snap ELSE tmp
  /\ tmp' = "none"
  /\ Goto(w, AfterSnapshot(w))
  /\ UNCHANGED <<logVars, pidFile, pid, doomed, tail, loopVars, stopVars, hangs, history>>

AtEnd(w) ==
  /\ pc[w] = "tail"
  /\ placed' = [placed EXCEPT ![w] = TRUE]
  /\ tail' = [tail EXCEPT ![w] = NewTail(Len(log))]
  /\ from' = [from EXCEPT ![w] = [file |-> file, at |-> Len(log)]]
  /\ Goto(w, "sleep")
  /\ UNCHANGED <<logVars, filesVars, pid, doomed, queue, sink, stopVars, hangs,
                 handed, outrun, sinkHistory, mixed>>

-----------------------------------------------------------------------------
(* The loop                                                                *)

\* Where a tail at the top of a file is, and whether one further down is in
\* another file than it takes it for.
Tracked(w, t) ==
  IF t.offset = 0 THEN [file |-> file, at |-> 0] ELSE from[w]
Outrun(w, t) == from[w].file # file /\ t.offset > 0 /\ Len(log) >= t.offset

\* The length of the file is asked first, and the file opened afterwards.
Stat(w) ==
  /\ pc[w] = "sleep"
  /\ IF absent
     THEN Goto(w, "observe") /\ UNCHANGED <<tail, from, outrun>>
     ELSE LET t == Looked(tail[w], Len(log)) IN
          /\ Goto(w, IF Len(log) = t.offset THEN "observe" ELSE "read")
          /\ tail' = [tail EXCEPT ![w] = t]
          /\ from' = [from EXCEPT ![w] = Tracked(w, t)]
          /\ outrun' = IF Outrun(w, t) THEN outrun \cup {w} ELSE outrun
  /\ UNCHANGED <<logVars, filesVars, pid, doomed, loopVars, stopVars, hangs,
                 handed, sinkHistory, mixed>>

ReadAppended(w) ==
  /\ pc[w] = "read"
  /\ Goto(w, "observe")
  /\ IF absent
     THEN UNCHANGED <<tail, handed, from, outrun>>
     ELSE LET new == Appended(tail[w])
              held == tail[w].partial \o new
          IN /\ \E ends \in LineEnds(held) :
                  /\ tail' = [tail EXCEPT ![w] =
                                [offset |-> @.offset + Len(new), partial |-> Rest(held, ends)]]
                  /\ handed' = [handed EXCEPT ![w] = @ \o Lines(held, ends)]
             /\ from' = [from EXCEPT ![w] = Tracked(w, tail[w])]
             /\ outrun' = IF Outrun(w, tail[w]) THEN outrun \cup {w} ELSE outrun
  /\ UNCHANGED <<logVars, filesVars, pid, doomed, loopVars, stopVars, hangs,
                 sinkHistory, mixed>>

\* The detectors raise some alerts; every alert starts at the first sink.
Observe(w) ==
  /\ pc[w] = "observe"
  /\ \E n \in IF Alone THEN 0..MaxAlerts ELSE {0} :
       /\ queue' = [queue EXCEPT ![w] = n]
       /\ sink' = [sink EXCEPT ![w] = IF n = 0 THEN <<>> ELSE Sinks]
       /\ raised' = [raised EXCEPT ![w] = n]
  /\ Goto(w, "deliver")
  /\ UNCHANGED <<logVars, filesVars, pid, doomed, tail, placed, stopVars, hangs,
                 tailHistory, told, mixed>>

\* deliver: a sink that fails is passed over.
StopAtFailure(w, ok) == IF ok THEN Tail(sink[w]) ELSE <<>>
PassOver(w, ok) == Tail(sink[w])
Deliver(w) ==
  /\ pc[w] = "deliver"
  /\ sink[w] # <<>>
  /\ \E ok \in (IF Head(sink[w]) = "stdout" THEN {TRUE} ELSE BOOLEAN) :
       LET rest == PassOver(w, ok)
           more == rest = <<>> /\ queue[w] > 1
       IN /\ sink' = [sink EXCEPT ![w] = IF more THEN Sinks ELSE rest]
          /\ queue' = [queue EXCEPT ![w] = IF rest = <<>> THEN @ - 1 ELSE @]
  /\ told' = [told EXCEPT ![w] = Append(@, Head(sink[w]))]
  /\ UNCHANGED <<logVars, filesVars, pc, pid, doomed, tail, placed, stopVars, hangs,
                 tailHistory, raised, mixed>>

\* status() of an exec sink has no limit, as curl --max-time has.
Hang(w) ==
  /\ pc[w] = "deliver"
  /\ sink[w] # <<>>
  /\ Head(sink[w]) = "exec"
  /\ hangs < MaxHangs
  /\ hangs' = hangs + 1
  /\ Goto(w, "hung")
  /\ UNCHANGED <<logVars, filesVars, pid, doomed, tail, loopVars, stopVars, history>>

\* A snapshot at an alert and at a heartbeat, and back to sleep.
EndTick(w) ==
  /\ pc[w] = "deliver"
  /\ sink[w] = <<>>
  /\ \E report \in BOOLEAN : Goto(w, IF report THEN "write" ELSE "sleep")
  /\ told' = [told EXCEPT ![w] = <<>>]
  /\ raised' = [raised EXCEPT ![w] = 0]
  /\ UNCHANGED <<logVars, filesVars, pid, doomed, tail, loopVars, stopVars, hangs,
                 tailHistory, mixed>>

-----------------------------------------------------------------------------
(* stop                                                                    *)

ReadPid(s) ==
  /\ spc[s] = "ready"
  /\ target' = [target EXCEPT ![s] = pidFile]
  /\ spc' = [spc EXCEPT ![s] = IF IsAlive(pidFile) THEN "kill" ELSE "removePid"]
  /\ mixed' = (mixed \/ Starting # {})
  /\ UNCHANGED <<logVars, filesVars, pc, pid, doomed, tail, loopVars, hangs,
                 tailHistory, sinkHistory>>

\* SIGTERM: it reaches its process some time later.
Sigterm(s) ==
  /\ spc[s] = "kill"
  /\ doomed' = doomed \cup {w \in Running : pid[w] = target[s]}
  /\ spc' = [spc EXCEPT ![s] = "removePid"]
  /\ UNCHANGED <<logVars, filesVars, pc, pid, tail, loopVars, target, hangs, history>>

RemovePid(s) ==
  /\ spc[s] = "removePid"
  /\ pidFile' = NoPid
  /\ spc' = [spc EXCEPT ![s] = "removeSnapshot"]
  /\ UNCHANGED <<logVars, snap, tmp, pc, pid, doomed, tail, loopVars, target, hangs, history>>

RemoveSnapshot(s) ==
  /\ spc[s] = "removeSnapshot"
  /\ snap' = "none"
  /\ spc' = [spc EXCEPT ![s] = "done"]
  /\ UNCHANGED <<logVars, pidFile, tmp, pc, pid, doomed, tail, loopVars, target, hangs, history>>

-----------------------------------------------------------------------------
(* The world                                                               *)

\* A watcher dies of the signal, or of a crash or an interrupt: its files stay.
Die(w) ==
  /\ w \in Running
  /\ Goto(w, "killed")
  /\ doomed' = doomed \ {w}
  /\ tail' = [tail EXCEPT ![w] = NewTail(0)]
  /\ queue' = [queue EXCEPT ![w] = 0]
  /\ sink' = [sink EXCEPT ![w] = <<>>]
  /\ handed' = [handed EXCEPT ![w] = <<>>]
  /\ from' = [from EXCEPT ![w] = Unplaced]
  /\ outrun' = outrun \ {w}
  /\ told' = [told EXCEPT ![w] = <<>>]
  /\ raised' = [raised EXCEPT ![w] = 0]
  /\ placed' = [placed EXCEPT ![w] = FALSE]
  /\ UNCHANGED <<logVars, filesVars, pid, stopVars, hangs, mixed>>

Write ==
  /\ Alone
  /\ written < MaxBytes
  /\ ~absent
  /\ written' = written + 1
  /\ \E newline \in BOOLEAN :
       log' = Append(log, [file |-> file, at |-> Len(log) + 1, newline |-> newline])
  /\ UNCHANGED <<file, absent, filesVars, pc, pid, doomed, tail, loopVars, stopVars,
                 hangs, history>>

\* The log is truncated, or moved away and soon made anew.
Rotate ==
  /\ Alone
  /\ file < MaxRotations
  /\ ~absent
  /\ file' = file + 1
  /\ log' = <<>>
  /\ absent' \in BOOLEAN
  /\ UNCHANGED <<written, filesVars, pc, pid, doomed, tail, loopVars, stopVars, hangs, history>>

Recreate ==
  /\ absent
  /\ absent' = FALSE
  /\ UNCHANGED <<log, file, written, filesVars, pc, pid, doomed, tail, loopVars,
                 stopVars, hangs, history>>

Next ==
  \/ \E w \in Watcher :
       \/ Check(w) \/ Daemonize(w) \/ WritePid(w) \/ AtEnd(w)
       \/ TruncateTmp(w) \/ FillTmp(w) \/ Rename(w)
       \/ Stat(w) \/ ReadAppended(w) \/ Observe(w) \/ Deliver(w) \/ EndTick(w)
       \/ Hang(w) \/ Die(w)
  \/ \E s \in Stopper : ReadPid(s) \/ Sigterm(s) \/ RemovePid(s) \/ RemoveSnapshot(s)
  \/ Write \/ Rotate \/ Recreate

Spec == Init /\ [][Next]_vars

-----------------------------------------------------------------------------
(* Properties                                                              *)

\* daemon.rs:65: "Refuse to start a second watcher under the same name."  As
\* long as no start met another start or a stop half-way, at most one watcher
\* runs, --stop and --status find it under its pid from its first snapshot on,
\* whoever died before it and however, and the snapshot never is a torn file.
OneWatcher ==
  ~mixed =>
    /\ \A v, w \in Watching : v = w
    /\ \A w \in Watching : w \notin doomed => pidFile = pid[w]
    /\ snap # "torn"

\* tail.rs:3-4: the complete lines among the appended bytes, surviving
\* truncation and rotation.  Unless the new log had outgrown the tail before
\* a poll, the lines handed on from a file are its bytes from where the tail
\* was placed, one after the other, and the unfinished last line is held back
\* up to the offset: no byte is lost or handed on twice, and no line is glued
\* from two files.
OneLine(bytes) ==
  /\ bytes # <<>>
  /\ \A i \in DOMAIN bytes : bytes[i].newline = (i = Len(bytes)) /\ bytes[i].file = bytes[1].file
StandsAt(bytes, at) ==
  \A j \in DOMAIN bytes : at + j \in DOMAIN log /\ bytes[j] = log[at + j]
\* Where the tail stood when the first i lines had been handed on.
Reached(w, i) ==
  LET line == handed[w][i]
  IN  IF i > 0 /\ line[1].file = file THEN line[Len(line)].at ELSE from[w].at
TailExact ==
  \A w \in {v \in Watcher : placed[v]} \ outrun :
    /\ \A i \in DOMAIN handed[w] : OneLine(handed[w][i])
    /\ \A i, j \in DOMAIN handed[w] : i < j => handed[w][i][1].file <= handed[w][j][1].file
    /\ from[w].file = file =>
         /\ \A i \in DOMAIN handed[w] :
              handed[w][i][1].file = file => StandsAt(handed[w][i], Reached(w, i - 1))
         /\ StandsAt(tail[w].partial, Reached(w, Len(handed[w])))
         /\ tail[w].offset = Reached(w, Len(handed[w])) + Len(tail[w].partial)

\* sink.rs:3: "a dead webhook must not stop the alerts that follow it".  When
\* a tick has delivered, every sink was told of every alert of it, in order.
EverySinkTold ==
  \A w \in Watcher :
    pc[w] = "deliver" /\ sink[w] = <<>> =>
      /\ Len(told[w]) = Len(Sinks) * raised[w]
      /\ \A a \in 0..raised[w] - 1 : \A k \in DOMAIN Sinks : told[w][Len(Sinks) * a + k] = Sinks[k]

=============================================================================
