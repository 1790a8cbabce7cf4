------------------------------- MODULE Pipe -------------------------------
(***************************************************************************)
(* The request pipeline: one turn from the user's text to the reply, with  *)
(* the session, the recall ring, the vault and the audit log it leaves     *)
(* behind (src/core/router*.rs, handlers.rs, audit.rs and the teleport     *)
(* loops of src/interface/whatsapp.rs).                                    *)
(*                                                                         *)
(* A turn comes from a surface: "sync" (the REPL, WhatsApp) returns its    *)
(* reply, "stream" (the web page) sends events, of which a run of tokens   *)
(* counts once.  A turn is a frame; teleport takes the context for as long *)
(* as the bridge lives and runs the turns of the messages that come over   *)
(* it inside its own, so frames nest.  The process may be killed between   *)
(* two steps and an append to the vault may fail: the vault and the audit  *)
(* log are what is left.                                                   *)
(*                                                                         *)
(* A turn is numbered by when it began, over all runs of the program.      *)
(***************************************************************************)
EXTENDS Recall, ToolCalls

CONSTANTS
  Questions,      \* what a chat turn may say
  sim, norm,      \* how alike two of them are, see Recall
  cut,            \* norm of what stands for one that the session recalls
  Outputs,        \* what the model may answer, texts in ToolCalls' symbols
  Backends,       \* which of the two models and modes there are
  RingCapacity, RecallLevels,
  MaxTurns, MaxKills, MaxLost, MaxFiles

ASSUME CapacityAssumption == RingCapacity \in Nat
ASSUME LevelsAssumption   == RecallLevels \subseteq Nat
ASSUME OutputsAssumption  == \A text \in Outputs : text \in Seq(Range(text))

VARIABLES
  have,        \* [engine, cloud, strict]: what this installation has
  thinking,    \* the engine's setting, and
  capped,      \* whether its token budget is the narration's
  wanted,      \* what the user last asked of thinking
  messages,    \* the session: what is told to the cloud model
  store,       \* the recall ring
  level,       \* recall level, 0 is off
  teleported,  \* a bridge has the context
  vault,       \* its rows
  lost,        \* rows whose append failed
  audit,       \* the audit log
  lastId,      \* the turn id last given out by this process
  run,         \* which process this is
  frames,      \* the turn that runs, and the ones it runs inside
  begun,       \* turns begun so far
  told,        \* what the last turn that is over said to its client
  over         \* turns that are over

vars == <<have, thinking, capped, wanted, messages, store, level, teleported,
          vault, lost, audit, lastId, run, frames, begun, told, over>>

session  == <<messages, store, level>>
settings == <<thinking, capped, wanted>>
records  == <<vault, lost, audit, lastId>>

\* What a turn may ask for, apart from the questions.
Commands == {"empty", "danger", "info", "clear", "think", "level", "rune",
             "tool", "teleport"}

-----------------------------------------------------------------------------
(* Frames.                                                                 *)

Top == Last(frames)

At(pc) == frames # <<>> /\ Top.pc = pc

IsStream == Top.surface = "stream"

\* The running turn goes on with these fields.
Become(frame) == frames' = [frames EXCEPT ![Len(frames)] = frame]

Goto(pc) == Become([Top EXCEPT !.pc = pc])

NewFrame(surface, input) ==
  [turn |-> begun + 1, surface |-> surface, input |-> input, pc |-> "begin",
   id |-> 0, blocked |-> FALSE, followup |-> FALSE, todo |-> <<>>,
   then |-> "none", context |-> <<>>, text |-> <<>>, from |-> "none",
   x |-> "none", files |-> 0, runs |-> 0, prior |-> FALSE, said |-> <<>>]

\* What the client was told, with these events too.  Repeated tokens count
\* as one, and only a stream has events.
Repeats(said, events) ==
  /\ said # <<>> /\ events # <<>>
  /\ Last(said) = "Token" /\ Head(events) = "Token"

Told(frame, events) ==
  IF IsStream THEN frame.said \o (IF Repeats(frame.said, events)
                                    THEN Tail(events) ELSE events)
              ELSE frame.said

Tell(frame, events) == [frame EXCEPT !.said = Told(frame, events)]

\* The turn ends, with these events or with a reply.
Finish(events) ==
  /\ told' = IF IsStream THEN Told(Top, events) ELSE <<"Reply">>
  /\ frames' = Front(frames)
  /\ over' = over \cup {Top.turn}

\* A faulty Log: with the id last given out.
LogLastId(phase) ==
  audit' = Append(audit, [run |-> run, id |-> lastId, turn |-> Top.turn,
                          phase |-> phase])


Log(phase) ==
  audit' = Append(audit, [run |-> run, id |-> Top.id, turn |-> Top.turn,
                          phase |-> phase])

Row(role) == [role |-> role, turn |-> Top.turn, text |-> Top.input]

\* Rows to append before the turn goes on at then.
Save(frame, rows, then) ==
  [frame EXCEPT !.todo = rows, !.pc = "saving", !.then = then]

-----------------------------------------------------------------------------
(* A turn begins.                                                          *)

\* Somebody writes, or drops one or two files on the page.
Begin ==
  /\ frames = <<>> /\ begun < MaxTurns
  /\ \E surface \in {"sync", "stream"}, input \in Commands \cup Questions :
       frames' = <<NewFrame(surface, input)>>
  /\ begun' = begun + 1
  /\ UNCHANGED <<have, settings, session, teleported, records, run, told, over>>

DropFiles ==
  /\ frames = <<>> /\ begun < MaxTurns
  /\ \E files \in 0 .. MaxFiles :
       frames' = <<[NewFrame("stream", "files") EXCEPT !.files = files,
                                                       !.pc = "analyze"]>>
  /\ begun' = begun + 1
  /\ UNCHANGED <<have, settings, session, teleported, records, run, told, over>>

\* dispatch and dispatch_streaming up to the command.  Only a streamed
\* /teleport is taken here.
Enter ==
  /\ At("begin")
  /\ IF Top.input = "empty"
       THEN /\ Finish(<<"Done">>)
            /\ UNCHANGED <<audit, lastId>>
       ELSE /\ lastId' = lastId + 1
            /\ audit' = Append(audit, [run |-> run, id |-> lastId + 1,
                                       turn |-> Top.turn, phase |-> "input"])
            /\ Become([Top EXCEPT !.id = lastId + 1, !.pc =
                         IF IsStream /\ Top.input = "teleport"
                           THEN "log_teleport" ELSE "route"])
            /\ UNCHANGED <<told, over>>
  /\ UNCHANGED <<have, settings, session, teleported, vault, lost, run, begun>>

LogTeleport ==
  /\ At("log_teleport")
  /\ Log("teleport")
  /\ Goto("teleport")
  /\ UNCHANGED <<have, settings, session, teleported, vault, lost, lastId, run,
                 begun, told, over>>

-----------------------------------------------------------------------------
(* pre_inference: commands are answered early.                             *)

Early(frame, blocked, followup) ==
  [frame EXCEPT !.blocked = blocked, !.followup = followup, !.pc = "early"]

AnswerEarly(blocked) == Become(Early(Top, blocked, FALSE))

\* The input is scanned first.
RefuseInput ==
  /\ At("route") /\ Top.input = "danger"
  /\ AnswerEarly(TRUE)
  /\ UNCHANGED <<have, settings, session, teleported, records, run, begun,
                 told, over>>

\* /help, /tools, /model, /profile, /tasks, /recall <query>, an unknown one.
Info ==
  /\ At("route") /\ Top.input = "info"
  /\ AnswerEarly(FALSE)
  /\ UNCHANGED <<have, settings, session, teleported, records, run, begun,
                 told, over>>

Clear ==
  /\ At("route") /\ Top.input = "clear"
  /\ messages' = <<>>
  /\ store' = ClearStore(store)
  /\ AnswerEarly(FALSE)
  /\ UNCHANGED <<have, settings, level, teleported, records, run, begun, told,
                 over>>

\* /think on, /think off, /think, and one that is not understood.
Think ==
  /\ At("route") /\ Top.input = "think"
  /\ IF have.engine THEN thinking' \in BOOLEAN ELSE UNCHANGED thinking
  /\ wanted' = thinking'
  /\ AnswerEarly(FALSE)
  /\ UNCHANGED <<have, capped, session, teleported, records, run, begun, told,
                 over>>

SetLevel ==
  /\ At("route") /\ Top.input = "level"
  /\ level' \in RecallLevels
  /\ AnswerEarly(FALSE)
  /\ UNCHANGED <<have, settings, messages, store, teleported, records, run,
                 begun, told, over>>

\* A tool that fails or is misused only answers; output that the scan
\* refuses is not kept.
Tool ==
  /\ At("route") /\ Top.input = "tool"
  /\ \/ \E blocked \in BOOLEAN : AnswerEarly(blocked)
     \/ Become(Save(Early(Top, FALSE, FALSE), <<Row("user"), Row("tool")>>, "early"))
  /\ UNCHANGED <<have, settings, session, teleported, records, run, begun,
                 told, over>>

\* As a tool; what it printed may be for the model to put into words.
Rune ==
  /\ At("route") /\ Top.input = "rune"
  /\ \/ \E blocked \in BOOLEAN : AnswerEarly(blocked)
     \/ \E followup \in BOOLEAN :
          Become(Save(Early(Top, FALSE, followup), <<Row("user"), Row("tool")>>, "early"))
  /\ UNCHANGED <<have, settings, session, teleported, records, run, begun,
                 told, over>>

RouteTeleport ==
  /\ At("route") /\ Top.input = "teleport"
  /\ Goto("teleport")
  /\ UNCHANGED <<have, settings, session, teleported, records, run, begun,
                 told, over>>

\* What the user said before, as the vault's search finds it.
VaultHits(k) ==
  {hits \in UNION {[1 .. n -> {vault[i].text : i \in
                                 {r \in DOMAIN vault : vault[r].role = "user"}}]
                   : n \in 0 .. k} : IsInjective(hits)}

\* The context is lines.  A text from the session stands there cut to its
\* first hundred characters, one from the vault whole.
SessionLine(text) == [text |-> text, line |-> cut[text], from |-> "session"]
VaultLine(text)   == [text |-> text, line |-> norm[text], from |-> "vault"]

Lines(context) == {context[i].line : i \in DOMAIN context}

\* A faulty WithHits: hits are compared with the session's only.
WithHitsUnasked(context, question, hits) ==
  Sift(context, hits, LAMBDA before, hit : hit.line \notin Lines(before))

\* A hit is left out when it is the question or a line of the context already.
WithHits(context, question, hits) ==
  Sift(context, hits,
       LAMBDA before, hit : hit.line # norm[question] /\ hit.line \notin Lines(before))

\* The session's ring is searched before the question is added to it.
Question ==
  /\ At("route") /\ Top.input \in Questions
  /\ LET kept == Synthesize(store, sim, norm, Top.input, level)
         said == [i \in DOMAIN kept |-> SessionLine(store.slots[kept[i]])]
     IN  \E hits \in VaultHits(level) :
           LET found == [i \in DOMAIN hits |-> VaultLine(hits[i])]
           IN  Become([Top EXCEPT !.context = WithHits(said, Top.input, found),
                                  !.pc = "ready"])
  /\ store' = AddText(store, Top.input)
  /\ UNCHANGED <<have, settings, messages, level, teleported, records, run,
                 begun, told, over>>

\* The early answer is given, or handed on to be narrated.
EarlyReply ==
  /\ At("early")
  /\ IF Top.followup /\ ~have.strict
       THEN /\ Log("rune_with_narration")
            /\ Become(Tell([Top EXCEPT !.pc = "narrate"], <<"Token">>))
            /\ UNCHANGED <<told, over>>
       ELSE /\ Log(CASE Top.followup -> "rune_strict_no_narration"
                     [] Top.blocked  -> "blocked"
                     [] OTHER        -> "command")
            /\ Finish(<<IF Top.blocked THEN "Error" ELSE "Token", "Done">>)
  /\ UNCHANGED <<have, settings, session, teleported, vault, lost, lastId, run,
                 begun>>

-----------------------------------------------------------------------------
(* Rows are appended one at a time; one that fails is only reported.       *)

RowDone == [Top EXCEPT !.todo = Tail(@),
                      !.pc = IF Len(Top.todo) = 1 THEN Top.then ELSE @]

SaveRow ==
  /\ At("saving")
  /\ vault' = Append(vault, Head(Top.todo))
  /\ Become(RowDone)
  /\ UNCHANGED <<have, settings, session, teleported, lost, audit, lastId, run,
                 begun, told, over>>

LoseRow ==
  /\ At("saving")
  /\ Cardinality(lost) < MaxLost
  /\ lost' = lost \cup {Head(Top.todo)}
  /\ Become(RowDone)
  /\ UNCHANGED <<have, settings, session, teleported, vault, audit, lastId,
                 run, begun, told, over>>

-----------------------------------------------------------------------------
(* A question goes to the engine, and to the cloud when that fails.        *)

Ready ==
  /\ At("ready")
  /\ IF have.strict
       THEN /\ Log("strict_refused")
            /\ Finish(<<"Token", "Done">>)
            /\ UNCHANGED messages
       ELSE /\ Log("llm_start")
            /\ messages' = Append(messages, [role |-> "user",
                                             turn |-> Top.turn])
            /\ Goto(IF have.engine THEN "engine" ELSE "cloud")
            /\ UNCHANGED <<told, over>>
  /\ UNCHANGED <<have, settings, store, level, teleported, vault, lost, lastId,
                 run, begun>>

Secret(text) == Has(text, <<"s">>)

\* The tokens of the engine are streamed as they come, the cloud's text when
\* it is final.  A streamed turn scans the model's text before it looks for
\* a call in it, the others only when there is none.
Generated(from, text) ==
  IF IsStream /\ Secret(text)
    THEN Finish(IF from = "engine" THEN <<"Token", "Error", "Done">>
                                   ELSE <<"Error", "Done">>)
    ELSE /\ Become(Tell([Top EXCEPT !.text = text, !.x = StartExtract(text),
                                    !.from = from, !.pc = "extract"],
                        IF from = "engine" THEN <<"Token">> ELSE <<>>))
         /\ UNCHANGED <<told, over>>

EngineAnswers ==
  /\ At("engine")
  /\ \E text \in Outputs : Generated("engine", text)
  /\ UNCHANGED <<have, settings, session, teleported, records, run, begun>>

EngineFails ==
  /\ At("engine")
  /\ Goto("cloud")
  /\ UNCHANGED <<have, settings, session, teleported, records, run, begun,
                 told, over>>

CloudAnswers ==
  /\ At("cloud") /\ have.cloud
  /\ \E text \in Outputs : Generated("cloud", text)
  /\ UNCHANGED <<have, settings, session, teleported, records, run, begun>>

\* The call fails, or there is no client.
CloudFails ==
  /\ At("cloud")
  /\ Finish(<<"Error", "Done">>)
  /\ UNCHANGED <<have, settings, session, teleported, records, run, begun>>

Extract ==
  /\ At("extract") /\ ~Top.x.over
  /\ Become([Top EXCEPT !.x = ExtractStep(Top.x)])
  /\ UNCHANGED <<have, settings, session, teleported, records, run, begun,
                 told, over>>

\* A faulty Finalize: the answer is saved first.
FinalizeAnswerFirst(frame) == Save(frame, <<Row("assistant"), Row("user")>>, "push")


Finalize(frame) == Save(frame, <<Row("user"), Row("assistant")>>, "push")

NoCall ==
  /\ At("extract") /\ Top.x.over /\ Calls(Top.x) = {}
  /\ IF ~IsStream /\ Secret(Top.text)
       THEN Finish(<<>>)
       ELSE /\ Become(Finalize(Tell(Top, <<"Token">>)))
            /\ UNCHANGED <<told, over>>
  /\ UNCHANGED <<have, settings, session, teleported, records, run, begun>>

\* The tool is run and the engine asked once more.  What it says then, or
\* the tool's output when it fails or is not there, is scanned.  A streamed
\* turn keeps an empty answer in place of one that was refused.
SecondLocal ==
  /\ At("extract") /\ Top.x.over /\ Calls(Top.x) # {}
  /\ Top.from = "engine" \/ ~IsStream
  /\ \E refused \in BOOLEAN :
       IF refused /\ ~IsStream
         THEN Finish(<<>>)
         ELSE /\ Become(Finalize(Tell(Top, IF refused THEN <<"Token", "Error">>
                                                     ELSE <<"Token">>)))
              /\ UNCHANGED <<told, over>>
  /\ UNCHANGED <<have, settings, session, teleported, records, run, begun>>

\* The cloud is asked once more; its answer, or the tool's output when that
\* was refused or did not come, is sent in one piece.
SecondCloud ==
  /\ At("extract") /\ Top.x.over /\ Calls(Top.x) # {}
  /\ Top.from = "cloud" /\ IsStream
  /\ Become(Finalize(Tell(Top, <<"Token">>)))
  /\ UNCHANGED <<have, settings, session, teleported, records, run, begun,
                 told, over>>

Push ==
  /\ At("push")
  /\ messages' = Append(messages, [role |-> "assistant", turn |-> Top.turn])
  /\ Finish(<<"Done">>)
  /\ UNCHANGED <<have, settings, store, level, teleported, records, run, begun>>

-----------------------------------------------------------------------------
(* A rune's output is put into words, with settings of its own.            *)

NarrateLocal ==
  /\ At("narrate") /\ have.engine
  /\ Become([Top EXCEPT !.prior = thinking, !.pc = "narrating"])
  /\ thinking' = FALSE
  /\ capped' = TRUE
  /\ UNCHANGED <<have, wanted, session, teleported, records, run, begun, told,
                 over>>

\* A faulty NarratedLocal: the settings are put back only with a narration.
NarratedLocalHalf ==
  /\ At("narrating")
  /\ \E usable \in BOOLEAN :
       IF usable THEN /\ Goto("narrated")
                      /\ thinking' = Top.prior /\ capped' = FALSE
                      /\ UNCHANGED <<told, over>>
                 ELSE /\ Finish(<<"Done">>)
                      /\ UNCHANGED <<thinking, capped>>
  /\ UNCHANGED <<have, wanted, session, teleported, records, run, begun>>

\* The settings are put back whether or not the engine failed.
NarratedLocal ==
  /\ At("narrating")
  /\ thinking' = Top.prior
  /\ capped' = FALSE
  /\ \E usable \in BOOLEAN :
       IF usable THEN Goto("narrated") /\ UNCHANGED <<told, over>>
                 ELSE Finish(<<"Done">>)
  /\ UNCHANGED <<have, wanted, session, teleported, records, run, begun>>

NarrateCloud ==
  /\ At("narrate") /\ ~have.engine /\ have.cloud
  /\ Goto("narrated")
  /\ UNCHANGED <<have, settings, session, teleported, records, run, begun,
                 told, over>>

\* Too long a prompt, no client, or nothing usable came back.
NoNarration ==
  /\ At("narrate")
  /\ Finish(IF have.engine THEN <<"Token", "Done">> ELSE <<"Done">>)
  /\ UNCHANGED <<have, settings, session, teleported, records, run, begun>>

\* A faulty Narrated: only the answer goes to the session.
NarratedAnswerOnly ==
  /\ At("narrated")
  /\ messages' = Append(messages, [role |-> "assistant", turn |-> Top.turn])
  /\ Become(Save(Tell(Top, <<"Token">>), <<Row("assistant")>>, "finish"))
  /\ UNCHANGED <<have, settings, store, level, teleported, records, run, begun,
                 told, over>>


Narrated ==
  /\ At("narrated")
  /\ messages' = messages \o <<[role |-> "user", turn |-> Top.turn],
                               [role |-> "assistant", turn |-> Top.turn]>>
  /\ Become(Save(Tell(Top, <<"Token">>), <<Row("assistant")>>, "finish"))
  /\ UNCHANGED <<have, settings, store, level, teleported, records, run, begun,
                 told, over>>

FinishTurn ==
  /\ At("finish")
  /\ Finish(<<"Done">>)
  /\ UNCHANGED <<have, settings, session, teleported, records, run, begun>>

-----------------------------------------------------------------------------
(* Files dropped on the page: a rune for each, then one narration.         *)

Analyze ==
  /\ At("analyze")
  /\ IF Top.files = 0
       THEN Finish(<<"Done">>)
       ELSE /\ Become(Save(Top, <<Row("user")>>, "file"))
            /\ UNCHANGED <<told, over>>
  /\ UNCHANGED <<have, settings, session, teleported, records, run, begun>>

\* No rune for it, its output refused, or its output.
RunFile ==
  /\ At("file") /\ Top.files > 0
  /\ LET next == [Top EXCEPT !.files = @ - 1]
     IN  \/ \E said \in {"Token", "Error"} : Become(Tell(next, <<said>>))
         \/ Become(Save(Tell([next EXCEPT !.runs = @ + 1], <<"Token">>),
                        <<Row("tool")>>, "file"))
  /\ UNCHANGED <<have, settings, session, teleported, records, run, begun,
                 told, over>>

NothingRan ==
  /\ At("file") /\ Top.files = 0 /\ Top.runs = 0
  /\ Finish(<<"Done">>)
  /\ UNCHANGED <<have, settings, session, teleported, records, run, begun>>

\* One run has a prompt of its own, or none.  Several are correlated first,
\* and what that found is kept; on some machines three or more are narrated
\* only from it.
Correlate ==
  /\ At("file") /\ Top.files = 0 /\ Top.runs > 0
  /\ \E next \in IF Top.runs = 2 THEN {"narrate"} ELSE {"narrate", "finish"} :
       \/ Goto(next)
       \/ /\ Top.runs > 1
          /\ Become(Save(Tell(Top, <<"Token">>), <<Row("tool")>>, next))
  /\ UNCHANGED <<have, settings, session, teleported, records, run, begun,
                 told, over>>

-----------------------------------------------------------------------------
(* Teleport.  A streamed one waits for the bridge before it is Done and    *)
(* goes on in silence; the other is answered when the bridge is gone.      *)

\* There is a bridge already, or it does not start.
NoBridge ==
  /\ At("teleport")
  /\ IF IsStream THEN Finish(<<"Token", "Done">>)
                 ELSE AnswerEarly(FALSE) /\ UNCHANGED <<told, over>>
  /\ UNCHANGED <<have, settings, session, teleported, records, run, begun>>

StartBridge ==
  /\ At("teleport") /\ ~teleported
  /\ teleported' = TRUE
  /\ Become(Tell([Top EXCEPT !.pc = IF IsStream THEN "phase1" ELSE "loop"],
                 <<"Token">>))
  /\ UNCHANGED <<have, settings, session, records, run, begun, told, over>>

Connected ==
  /\ At("phase1")
  /\ Become(Tell([Top EXCEPT !.pc = "phase2"], <<"Token", "Done">>))
  /\ UNCHANGED <<have, settings, session, teleported, records, run, begun,
                 told, over>>

\* A message for Olorin: the turn runs inside the loop's.  The first one
\* also says that the bridge is connected.
Message ==
  /\ frames # <<>> /\ Top.pc \in {"phase1", "phase2", "loop"}
  /\ begun < MaxTurns
  /\ \E input \in (Commands \ {"empty"}) \cup Questions :
       frames' = Append([frames EXCEPT ![Len(frames)] =
                           IF Top.pc = "phase1"
                             THEN Tell([Top EXCEPT !.pc = "connected"],
                                       <<"Token">>)
                             ELSE Top],
                        NewFrame("sync", input))
  /\ begun' = begun + 1
  /\ UNCHANGED <<have, settings, session, teleported, records, run, told, over>>

\* The first message was answered.
FirstAnswered ==
  /\ At("connected")
  /\ Become(Tell([Top EXCEPT !.pc = "phase2"], <<"Done">>))
  /\ UNCHANGED <<have, settings, session, teleported, records, run, begun,
                 told, over>>

\* /teleport over the bridge, or its end.
Return ==
  /\ frames # <<>> /\ Top.pc \in {"phase1", "phase2", "loop"}
  /\ teleported' = FALSE
  /\ CASE Top.pc = "phase1" -> Finish(<<"Token", "Done">>)
       [] Top.pc = "phase2" -> Finish(<<>>)
       [] Top.pc = "loop"   -> AnswerEarly(FALSE) /\ UNCHANGED <<told, over>>
  /\ UNCHANGED <<have, settings, session, records, run, begun>>

\* The page's settings: a change of the recall level is taken at once.
\* Before the first turn is enough.
Configure ==
  /\ frames = <<>> /\ begun = 0
  /\ level' \in RecallLevels
  /\ UNCHANGED <<have, settings, messages, store, teleported, records, run,
                 frames, begun, told, over>>

-----------------------------------------------------------------------------

\* What a process starts with.
Fresh ==
  [messages |-> <<>>, store |-> NewStore(RingCapacity), level |-> 0]

Init ==
  /\ have \in Backends
  /\ thinking = FALSE /\ capped = FALSE /\ wanted = FALSE
  /\ messages = Fresh.messages /\ store = Fresh.store /\ level = Fresh.level
  /\ teleported = FALSE
  /\ vault = <<>> /\ lost = {} /\ audit = <<>> /\ lastId = 0
  /\ run = 0 /\ frames = <<>> /\ begun = 0
  /\ told = <<"Reply">> /\ over = {}

\* The process is killed and started again.
Kill ==
  /\ run < MaxKills
  /\ run' = run + 1
  /\ thinking' = FALSE /\ capped' = FALSE /\ wanted' = FALSE
  /\ messages' = Fresh.messages /\ store' = Fresh.store /\ level' = Fresh.level
  /\ teleported' = FALSE
  /\ lastId' = 0
  /\ frames' = <<>>
  /\ UNCHANGED <<have, vault, lost, audit, begun, told, over>>

\* What the program does by itself.
Step ==
  \/ Enter \/ LogTeleport \/ RefuseInput \/ Info \/ Clear \/ Think \/ SetLevel
  \/ Tool \/ Rune \/ RouteTeleport \/ Question \/ EarlyReply
  \/ SaveRow \/ LoseRow
  \/ Ready \/ EngineAnswers \/ EngineFails \/ CloudAnswers \/ CloudFails
  \/ Extract \/ NoCall \/ SecondLocal \/ SecondCloud \/ Push
  \/ NarrateLocal \/ NarratedLocal \/ NarrateCloud \/ NoNarration \/ Narrated
  \/ FinishTurn \/ Analyze \/ RunFile \/ NothingRan \/ Correlate
  \/ NoBridge \/ StartBridge \/ FirstAnswered

Next ==
  Step \/ Begin \/ DropFiles \/ Configure \/ Connected \/ Message \/ Return \/ Kill

\* The models, the tools and the disk answer in the end.
Spec == Init /\ [][Next]_vars /\ WF_vars(Step)

-----------------------------------------------------------------------------
(* Properties.                                                             *)

\* A streamed turn that is over has said Done, once, and nothing after it;
\* one that is not streamed has replied once.  This is about the thirty
\* returns of dispatch, dispatch_streaming and what they call.
OneReply ==
  /\ {i \in DOMAIN told : told[i] \in {"Done", "Reply"}} = {Len(told)}
  /\ \A f \in Range(frames) : \A i \in DOMAIN f.said :
       f.said[i] = "Done" => i = Len(f.said)

\* In the session an answer stands right after the question of its own turn,
\* no message is there twice, and the turns stand in the order they began,
\* also when a turn ran inside another and when a turn failed half way.
HistoryTold ==
  /\ \A i \in DOMAIN messages :
       messages[i].role = "assistant" =>
         i > 1 /\ messages[i - 1] = [messages[i] EXCEPT !.role = "user"]
  /\ \A i, j \in DOMAIN messages :
       i < j => /\ messages[i].turn <= messages[j].turn
                /\ messages[i] # messages[j]

\* A call in what the model said is found, and the text before it, and no
\* other call (extract_tool_calls).
CallsFound == At("extract") => ExtractedRight(Top.text, Top.x)

\* A turn is told once to whoever asked, and once to the session.
TurnTold == OneReply /\ HistoryTold

RowsOf(t) == {i \in DOMAIN vault : vault[i].turn = t}

Kept(role, t) ==
  \/ \E i \in RowsOf(t) : vault[i].role = role
  \/ \E row \in lost : row.role = role /\ row.turn = t

First(rows) == {i \in rows : \A j \in rows : i <= j}

\* The vault tells each turn in one piece, first what the user asked; and
\* every answer of the session whose turn is over is in it.  Only a row whose
\* append failed may be missing.
VaultTellsTurns ==
  /\ \A i, j \in DOMAIN vault :
       i < j /\ vault[i].turn = vault[j].turn =>
         i .. j \subseteq RowsOf(vault[i].turn)
  /\ \A i \in DOMAIN vault :
       vault[i].role # "user" =>
         \/ \E k \in First(RowsOf(vault[i].turn)) : vault[k].role = "user"
         \/ \E row \in lost : row.role = "user" /\ row.turn = vault[i].turn
  /\ \A i \in DOMAIN messages :
       messages[i].role = "assistant" /\ messages[i].turn \in over =>
         Kept("assistant", messages[i].turn)

IsInput(i) == audit[i].phase = "input"

Inputs == {i \in DOMAIN audit : IsInput(i)}

Outcomes == DOMAIN audit \ Inputs

\* The audit log can be read back: a turn has one input and one outcome after
\* it, also when the turn is over; in a run a turn has an id of its own; and
\* the events of a turn that runs inside another stand inside the other's.
\* The outcome says what became of the turn: one that was blocked left
\* nothing, and only one with a model's answer is in the session.
OneOutcome ==
  /\ \A i, j \in DOMAIN audit :
       audit[i].turn = audit[j].turn /\ (IsInput(i) <=> IsInput(j)) => i = j
  /\ \A i \in Outcomes : \E k \in Inputs : k < i /\ audit[k].turn = audit[i].turn
  /\ \A k \in Inputs : audit[k].turn \in over =>
       \E i \in Outcomes : audit[i].turn = audit[k].turn
OwnIds ==
  \A i, j \in DOMAIN audit : i < j /\ audit[i].run = audit[j].run =>
    /\ audit[i].id = audit[j].id <=> audit[i].turn = audit[j].turn
    /\ IsInput(i) /\ IsInput(j) => audit[i].id < audit[j].id
InsideOther ==
  \A k, l \in Inputs : \A i, j \in Outcomes :
    audit[i].turn = audit[k].turn /\ audit[j].turn = audit[l].turn =>
      (k < l /\ l < i => j < i)
OutcomeTrue ==
  \A i \in Outcomes :
    /\ audit[i].phase = "blocked" =>
         RowsOf(audit[i].turn) = {} /\ \A m \in DOMAIN messages : messages[m].turn # audit[i].turn
    /\ (\E m \in DOMAIN messages : messages[m].turn = audit[i].turn) =>
         audit[i].phase \in {"llm_start", "rune_with_narration"}
AuditReadsBack == OneOutcome /\ OwnIds /\ InsideOther /\ OutcomeTrue

\* A chat turn runs with the settings the user chose: whatever way a
\* narration ends, it puts back what it changed.
ChatSettings == At("narrating") \/ (thinking = wanted /\ ~capped)

\* The context of a question does not repeat the question; no two lines of
\* it from the session are too alike, and none from the vault is there before.
ContextClean ==
  frames # <<>> =>
    \A i \in DOMAIN Top.context :
      LET this == Top.context[i]
      IN  /\ norm[this.text] # norm[Top.input]
          /\ \A j \in 1 .. i - 1 :
               IF this.from = "session"
                 THEN sim[Top.context[j].text, this.text] <= DedupThreshold
                 ELSE Top.context[j].line # this.line

\* What the model is given to work with, and what is taken out of its answer.
ModelGiven == ChatSettings /\ ContextClean /\ CallsFound

BridgeWaits == frames # <<>> /\ Top.pc \in {"phase1", "phase2", "loop"}

\* Every turn is answered, unless it waits for the bridge or the model's
\* output ends inside a tag or a call.
PipeAnswers ==
  []<>(\/ frames = <<>>
       \/ BridgeWaits
       \/ At("extract") /\ Dangling(Top.text))

=============================================================================
