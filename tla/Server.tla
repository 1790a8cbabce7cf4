------------------------------- MODULE Server -------------------------------
(***************************************************************************)
(* The web server (src/interface/server*.rs): the accept loop with its cap *)
(* on connections, one thread for each connection, one more for each turn  *)
(* that streams, and the one mutex around the context they all share.      *)
(*                                                                         *)
(* A connection makes one request.  What a turn does while it has the      *)
(* context is Pipe's business: here it holds it, says Done, lets go, or    *)
(* becomes the WhatsApp bridge and holds it until somebody there lets go.  *)
(* A thread may panic, which unwinds it: the mutex and the connection's    *)
(* slot come back, what the code does at the end of its function does not  *)
(* happen.                                                                 *)
(***************************************************************************)
EXTENDS Integers, FiniteSets

CONSTANTS
  NumConns,   \* how many connect
  MaxConn,    \* the cap on connections at a time
  MaxFiles,   \* a request uploads no more
  MaxPanics   \* bound on panics and on failures to start a thread

ASSUME ServerAssumption ==
  NumConns \in Nat /\ MaxConn \in Nat /\ MaxFiles \in Nat /\ MaxPanics \in Nat

Conns == 1 .. NumConns

VARIABLES
  pc,        \* where each connection's thread is
  kind,      \* what it asked for
  run,       \* where the turn is that runs for it, in its own thread if it
             \* asked for a command and else in a thread of the turn's own
  chan,      \* the turn's events: open, done or dropped
  active,    \* the count of connections
  ctx,       \* whose thread has the context, 0 is nobody's
  flag,      \* server_teleported
  stamp,     \* how often sampling settings were stored: names the settings
  own,       \* the settings each request stored
  seq,       \* DROP_SEQ
  dirs,      \* drop directories on disk
  staged,    \* those each request uploaded into
  spoilt,    \* connections whose upload failed or whose thread panicked
  stuck,     \* a bridge ended in a panic
  panics

vars == <<pc, kind, run, chan, active, ctx, flag, stamp, own, seq, dirs,
          staged, spoilt, stuck, panics>>

shared == <<ctx, flag, stuck>>
files  == <<seq, dirs, staged, spoilt>>

Streams  == {"generate", "analyze", "analyzeRaw"}
Uploads  == {"analyze", "analyzeRaw", "report", "reportRaw"}
Kinds    == Streams \cup Uploads
              \cup {"system", "config", "setConfig", "apiKey", "command", "other"}

Goto(c, place) == pc' = [pc EXCEPT ![c] = place]

\* The handler returns: what its thread had goes, and ConnGuard gives the slot
\* back.
Leave(c) ==
  /\ Goto(c, "gone") /\ active' = active - 1
  /\ kind' = [kind EXCEPT ![c] = "none"] /\ own' = [own EXCEPT ![c] = 0]
  /\ run' = [run EXCEPT ![c] = "none"] /\ chan' = [chan EXCEPT ![c] = "none"]

Nobody == 0

BridgeOn == ctx # Nobody /\ run[ctx] \in {"phase1", "loop"}

-----------------------------------------------------------------------------
(* Connections.                                                            *)

\* The listener has the connections in turn.
Comes(c) == pc[c] = "idle" /\ \A d \in 1 .. c - 1 : pc[d] # "idle"

\* A faulty Refuse: the slot that was one too many is kept.
RefuseKeepsSlot(c) ==
  /\ Comes(c) /\ active >= MaxConn
  /\ Goto(c, "refused") /\ active' = active + 1
  /\ UNCHANGED <<kind, run, chan, stamp, own, panics, shared, files>>

\* 503.
Refuse(c) ==
  /\ Comes(c) /\ active >= MaxConn
  /\ Goto(c, "refused")
  /\ UNCHANGED <<kind, run, chan, active, stamp, own, panics, shared, files>>

Accept(c) ==
  /\ Comes(c) /\ active < MaxConn
  /\ Goto(c, "head") /\ active' = active + 1
  /\ UNCHANGED <<kind, run, chan, stamp, own, panics, shared, files>>

\* No thread can be had: the guard goes with the closure.
NoThread(c) ==
  /\ Comes(c) /\ active < MaxConn /\ panics < MaxPanics
  /\ Goto(c, "gone") /\ panics' = panics + 1
  /\ UNCHANGED <<kind, run, chan, active, stamp, own, shared, files>>

\* The head is no text, or has no token.
Reject(c) ==
  /\ pc[c] = "head" /\ Leave(c)
  /\ UNCHANGED <<stamp, panics, shared, files>>

Route(c) ==
  /\ pc[c] = "head"
  /\ \E k \in Kinds :
       /\ kind' = [kind EXCEPT ![c] = k]
       /\ Goto(c, IF k \in {"analyze", "report"} THEN "staging"
                    ELSE IF k \in {"analyzeRaw", "reportRaw"} THEN "raw" ELSE k)
  /\ UNCHANGED <<run, chan, active, stamp, own, panics, shared, files>>

-----------------------------------------------------------------------------
(* Answers in one go.                                                      *)

\* The page, the model's name, an empty key, 404.
Other(c) ==
  /\ pc[c] = "other" /\ Leave(c)
  /\ UNCHANGED <<stamp, panics, shared, files>>

\* /api/system takes the context's values if nobody has it, and else the last
\* it saw.
System(c) ==
  /\ pc[c] = "system" /\ Leave(c)
  /\ UNCHANGED <<stamp, panics, shared, files>>

Config(c) ==
  /\ pc[c] = "config" /\ ctx = Nobody /\ Leave(c)
  /\ UNCHANGED <<stamp, panics, shared, files>>

\* A key is stored under the lock.  (No key is refused without: other.)
ApiKey(c) ==
  /\ pc[c] = "apiKey" /\ ctx = Nobody /\ Leave(c)
  /\ UNCHANGED <<stamp, panics, shared, files>>

\* The update, and then, with the lock taken anew, the answer.
SetConfig(c) ==
  /\ pc[c] = "setConfig" /\ ctx = Nobody
  /\ stamp' = stamp + 1
  /\ Goto(c, "config")
  /\ UNCHANGED <<kind, run, chan, active, own, panics, shared, files>>

-----------------------------------------------------------------------------
(* Chat.                                                                   *)

\* Olorin is on WhatsApp.
Away(c) ==
  /\ pc[c] \in {"generate", "command"} /\ flag /\ Leave(c)
  /\ UNCHANGED <<stamp, panics, shared, files>>

\* A prompt has its settings stored first, a command runs.
ReadBody(c) ==
  /\ pc[c] \in {"generate", "command"} /\ ~flag
  /\ IF kind[c] = "generate"
       THEN Goto(c, "store") /\ UNCHANGED <<run, active>>
       ELSE /\ Goto(c, "inline") /\ run' = [run EXCEPT ![c] = "lock"]
            /\ UNCHANGED active
  /\ UNCHANGED <<kind, chan, stamp, own, panics, shared, files>>

\* A faulty Store: like the heartbeat it goes on if the context is taken.
StoreIfFree(c) ==
  /\ pc[c] = "store"
  /\ stamp' = IF ctx = Nobody THEN stamp + 1 ELSE stamp
  /\ own' = [own EXCEPT ![c] = stamp + 1]
  /\ Goto(c, "prompt")
  /\ UNCHANGED <<kind, run, chan, active, panics, shared, files>>

Store(c) ==
  /\ pc[c] = "store" /\ ctx = Nobody
  /\ stamp' = stamp + 1
  /\ own' = [own EXCEPT ![c] = stamp + 1]
  /\ Goto(c, "prompt")
  /\ UNCHANGED <<kind, run, chan, active, panics, shared, files>>

\* Nothing to answer.
NoPrompt(c) ==
  /\ \/ pc[c] = "prompt" /\ kind[c] = "generate"
     \/ pc[c] = "command" /\ ~flag
  /\ Leave(c)
  /\ UNCHANGED <<stamp, panics, shared, files>>

\* The turn's thread starts, the connection's passes its events on.
Spawn(c) ==
  /\ pc[c] = "prompt"
  /\ Goto(c, "relay") /\ run' = [run EXCEPT ![c] = "lock"]
  /\ chan' = [chan EXCEPT ![c] = "open"]
  /\ UNCHANGED <<kind, active, stamp, own, panics, shared, files>>

\* expect("failed to spawn"): the connection's thread panics.
SpawnFails(c) ==
  /\ pc[c] = "prompt" /\ panics < MaxPanics
  /\ panics' = panics + 1 /\ spoilt' = spoilt \cup {c}
  /\ Leave(c)
  /\ UNCHANGED <<stamp, seq, dirs, staged, shared>>

-----------------------------------------------------------------------------
(* Uploads.                                                                *)

NewDir(c) ==
  /\ seq' = seq + 1
  /\ dirs' = dirs \cup {seq}
  /\ staged' = [staged EXCEPT ![c] = @ \cup {seq}]

CleanUp(c) == dirs' = dirs \ staged[c]

\* One more file of the request is decoded and written.
StageFile(c) ==
  /\ pc[c] = "staging" /\ Cardinality(staged[c]) < MaxFiles
  /\ NewDir(c)
  /\ UNCHANGED <<pc, kind, run, chan, active, stamp, own, spoilt, panics,
                 shared>>

\* The body or its next file is bad: the answer says so, and the files
\* before it stay where they are.
StageFails(c) ==
  /\ pc[c] = "staging"
  /\ spoilt' = spoilt \cup {c}
  /\ Leave(c)
  /\ UNCHANGED <<stamp, seq, dirs, staged, panics, shared>>

Staged(c) ==
  /\ pc[c] = "staging" /\ staged[c] # {}
  /\ Goto(c, IF kind[c] = "report" THEN "build" ELSE "prompt")
  /\ UNCHANGED <<kind, run, chan, active, stamp, own, panics, shared, files>>

\* A raw upload that is empty or too large is refused.
RawRefused(c) ==
  /\ pc[c] = "raw" /\ Leave(c)
  /\ UNCHANGED <<stamp, panics, shared, files>>

RawStarts(c) ==
  /\ pc[c] = "raw"
  /\ NewDir(c) /\ Goto(c, "drain")
  /\ UNCHANGED <<kind, run, chan, active, stamp, own, spoilt, panics, shared>>

\* All of it, or all there was until the client hung up.
Drained(c) ==
  /\ pc[c] = "drain"
  /\ Goto(c, IF kind[c] = "reportRaw" THEN "build" ELSE "prompt")
  /\ UNCHANGED <<kind, run, chan, active, stamp, own, panics, shared, files>>

\* The client stalls or the disk is full.  Only a report takes its directory
\* away again.
DrainFails(c) ==
  /\ pc[c] = "drain"
  /\ IF kind[c] = "reportRaw"
       THEN CleanUp(c) /\ UNCHANGED spoilt
       ELSE spoilt' = spoilt \cup {c} /\ UNCHANGED dirs
  /\ Leave(c)
  /\ UNCHANGED <<stamp, seq, staged, panics, shared>>

\* The report needs no context.
Build(c) ==
  /\ pc[c] = "build"
  /\ CleanUp(c) /\ Leave(c)
  /\ UNCHANGED <<stamp, seq, staged, spoilt, panics, shared>>

-----------------------------------------------------------------------------
(* Turns.                                                                  *)

\* The turn's own part is over; a stream has had its Done.
Done(c) == chan' = [chan EXCEPT ![c] = IF @ = "open" THEN "done" ELSE @]

TakeContext(c) ==
  /\ run[c] = "lock" /\ ctx = Nobody
  /\ ctx' = c
  /\ run' = [run EXCEPT ![c] = "turn"]
  /\ UNCHANGED <<pc, kind, chan, active, flag, stamp, own, stuck, panics,
                 files>>

Answer(c) ==
  /\ run[c] = "turn"
  /\ Done(c) /\ run' = [run EXCEPT ![c] = "over"]
  /\ UNCHANGED <<pc, kind, active, stamp, own, panics, shared, files>>

\* /teleport, unless a bridge that panicked left its mark.
Teleport(c) ==
  /\ run[c] = "turn" /\ kind[c] \in {"generate", "command"} /\ ~flag
  /\ flag' = TRUE
  /\ run' = [run EXCEPT ![c] = IF kind[c] = "generate" THEN "phase1" ELSE "loop"]
  /\ UNCHANGED <<pc, kind, chan, active, ctx, stamp, own, stuck, panics,
                 files>>

\* The phone is connected: the page is Done, the bridge goes on.
Connected(c) ==
  /\ run[c] = "phase1"
  /\ Done(c) /\ run' = [run EXCEPT ![c] = "loop"]
  /\ UNCHANGED <<pc, kind, active, stamp, own, panics, shared, files>>

\* The bridge is lost, or /teleport comes over it.
BridgeEnds(c) ==
  /\ run[c] \in {"phase1", "loop"}
  /\ flag' = FALSE
  /\ Done(c) /\ run' = [run EXCEPT ![c] = "over"]
  /\ UNCHANGED <<pc, kind, active, ctx, stamp, own, stuck, panics, files>>

Release(c) ==
  /\ run[c] = "over"
  /\ ctx' = Nobody /\ run' = [run EXCEPT ![c] = "gone"]
  /\ UNCHANGED <<pc, kind, chan, active, flag, stamp, own, stuck, panics,
                 files>>

\* The turn's thread unwinds.  If that is the connection's, it is gone too.
Panic(c) ==
  /\ run[c] \in {"turn", "phase1", "loop"} /\ panics < MaxPanics
  /\ panics' = panics + 1
  /\ ctx' = Nobody
  /\ stuck' = (stuck \/ run[c] # "turn")
  /\ IF pc[c] = "inline"
       THEN Leave(c)
       ELSE /\ run' = [run EXCEPT ![c] = "gone"]
            /\ chan' = [chan EXCEPT ![c] = IF @ = "open" THEN "dropped" ELSE @]
            /\ UNCHANGED <<pc, active, kind, own>>
  /\ UNCHANGED <<flag, stamp, files>>

\* The command's answer goes out.
Reply(c) ==
  /\ pc[c] = "inline" /\ run[c] = "gone"
  /\ Leave(c)
  /\ UNCHANGED <<stamp, panics, shared, files>>

\* A faulty RelayEnds: it waits for Done alone.
RelayNeedsDone(c) ==
  /\ pc[c] = "relay" /\ chan[c] = "done"
  /\ Goto(c, "join")
  /\ UNCHANGED <<kind, run, chan, active, stamp, own, panics, shared, files>>

\* [DONE], after Done or when nobody is left to say it.
RelayEnds(c) ==
  /\ pc[c] = "relay" /\ chan[c] # "open"
  /\ Goto(c, "join")
  /\ UNCHANGED <<kind, run, chan, active, stamp, own, panics, shared, files>>

\* A faulty Join: an upload that streamed is left.
JoinOnly(c) ==
  /\ pc[c] = "join" /\ run[c] = "gone"
  /\ IF kind[c] = "analyze" THEN CleanUp(c) ELSE UNCHANGED dirs
  /\ Leave(c)
  /\ UNCHANGED <<stamp, seq, staged, spoilt, panics, shared>>

\* The thread of the turn is over, its upload is removed.
Join(c) ==
  /\ pc[c] = "join" /\ run[c] = "gone"
  /\ CleanUp(c) /\ Leave(c)
  /\ UNCHANGED <<stamp, seq, staged, spoilt, panics, shared>>

-----------------------------------------------------------------------------
Init ==
  /\ pc = [c \in Conns |-> "idle"] /\ kind = [c \in Conns |-> "none"]
  /\ run = [c \in Conns |-> "none"] /\ chan = [c \in Conns |-> "none"]
  /\ active = 0 /\ ctx = Nobody /\ flag = FALSE /\ stuck = FALSE
  /\ stamp = 0 /\ own = [c \in Conns |-> 0]
  /\ seq = 0 /\ dirs = {} /\ staged = [c \in Conns |-> {}]
  /\ spoilt = {} /\ panics = 0

\* What the program does by itself once it is asked.
Step(c) ==
  \/ Reject(c) \/ Route(c) \/ Other(c) \/ System(c) \/ Config(c) \/ ApiKey(c)
  \/ SetConfig(c) \/ Away(c) \/ ReadBody(c) \/ Store(c) \/ NoPrompt(c)
  \/ Spawn(c) \/ StageFile(c) \/ StageFails(c) \/ Staged(c) \/ RawRefused(c)
  \/ RawStarts(c) \/ Drained(c) \/ DrainFails(c) \/ Build(c)
  \/ Reply(c) \/ RelayEnds(c) \/ Join(c)

Turn(c) == TakeContext(c) \/ Answer(c) \/ Teleport(c) \/ Release(c)

Listen(c) == Refuse(c) \/ Accept(c) \/ NoThread(c)

Next ==
  \E c \in Conns :
    \/ Listen(c) \/ Step(c) \/ Turn(c)
    \/ SpawnFails(c) \/ Connected(c) \/ BridgeEnds(c) \/ Panic(c)

\* Threads that can run do.  (The context is taken finitely often, so weak
\* fairness gets it to whoever waits.)  Nothing makes somebody connect, or a bridge end.
Fairness ==
  \A c \in Conns : WF_vars(Step(c)) /\ WF_vars(Turn(c))

Spec == Init /\ [][Next]_vars /\ Fairness

-----------------------------------------------------------------------------
(* Properties.                                                             *)

Living == {c \in Conns : pc[c] \notin {"idle", "refused", "gone"}}

\* The count is that of the connections being served, whatever way each of
\* them ended, and never above the cap (the accept loop and ConnGuard).
SlotsCounted == active = Cardinality(Living) /\ active <= MaxConn

\* A turn never decodes with settings older than its own request's: they are
\* that request's, or those another request stored while it waited for the
\* context (handle_generate stores under one lock and runs under another).
SettingsNotOlder ==
  \A c \in Conns :
    kind[c] = "generate" /\ run[c] = "turn" => stamp >= own[c]

\* What an analysis or a report reads is still there, and nobody else's
\* (temp_path_for, cleanup_staged).
OwnUpload ==
  /\ \A c \in Conns : \/ pc[c] = "build"
                      \/ kind[c] \in Uploads /\ run[c] \in {"lock", "turn"}
                      => staged[c] # {} /\ staged[c] \subseteq dirs
  /\ \A c, d \in Conns : c # d => staged[c] \cap staged[d] = {}

\* No upload outlives its request, unless the upload itself failed or the
\* thread that would have removed it panicked (cleanup_staged).
UploadsGone ==
  \A c \in Conns :
    staged[c] \cap dirs # {} => c \in Living \/ c \in spoilt

\* The flag that turns prompts away is up while the bridge has the context
\* and down again however it ends, but for a panic (set_teleported,
\* clear_teleported on each way out of the two loops).
FlagIsTrue == flag = (BridgeOn \/ stuck)

\* What the server keeps beside the requests is true of them.
Accounted == SlotsCounted /\ FlagIsTrue

\* An upload is there as long as its request needs it, and no longer.
UploadsKept == OwnUpload /\ UploadsGone

\* The heartbeat is answered, also while a bridge has the context for good
\* (/api/system never waits for the context).
Heartbeat == \A c \in Conns : pc[c] = "system" ~> pc[c] = "gone"

\* Every other request is answered too, or a bridge has the context: a turn
\* that panics and a thread that cannot start end it as well (relay_sse stops
\* when nobody is left to send).
Answered ==
  \A c \in Conns : c \in Living ~> (pc[c] = "gone" \/ BridgeOn)

\* Nobody waits for ever: not for a free context, nor for a dead turn.
EveryoneAnswered == Heartbeat /\ Answered

=============================================================================
