---------------------------- MODULE ServerProofs ----------------------------
(***************************************************************************)
(* The count of connections, the teleport flag, the settings and the       *)
(* uploads of the web server, for any number of connections, any cap and   *)
(* any number of uploads and panics.                                       *)
(***************************************************************************)
EXTENDS Server, FiniteSetTheorems, TLAPS

USE ServerAssumption

Holding == {"turn", "phase1", "loop", "over"}
Plain   == {"generate", "system", "config", "setConfig", "apiKey", "command",
            "other", "store", "inline"}
Served  == Plain \cup {"head", "staging", "raw", "drain", "build", "prompt",
                       "relay", "join"}

TypeInv ==
  /\ pc \in [Conns -> Served \cup {"idle", "refused", "gone"}]
  /\ kind \in [Conns -> Kinds \cup {"none"}]
  /\ run \in [Conns -> Holding \cup {"none", "lock", "gone"}]
  /\ chan \in [Conns -> {"none", "open", "done", "dropped"}]
  /\ active \in Int /\ ctx \in 0 .. NumConns
  /\ flag \in BOOLEAN /\ stuck \in BOOLEAN
  /\ stamp \in Nat /\ own \in [Conns -> Nat]
  /\ seq \in Nat /\ dirs \in SUBSET Nat /\ staged \in [Conns -> SUBSET Nat]
  /\ spoilt \in SUBSET Conns /\ panics \in Nat

\* What a place in the code says of the request: whether a turn may be under
\* way, and whether it has an upload.
Placed(c) ==
  /\ run[c] = "none" \/ pc[c] \in {"inline", "relay", "join"}
  /\ pc[c] \in {"idle", "refused", "head", "raw"} \cup Plain => staged[c] = {}
  /\ pc[c] \in Plain => kind[c] \notin Uploads
  /\ pc[c] \in {"staging", "raw", "drain"} => kind[c] \in Uploads
  /\ pc[c] \in {"drain", "build"} => staged[c] # {}
  /\ pc[c] \in {"prompt", "relay", "join"}
       => (kind[c] \in Uploads <=> staged[c] # {})

PlaceInv == \A c \in Conns : Placed(c)

\* The context is with the one thread that is in a turn.
HoldInv == \A c \in Conns : run[c] \in Holding <=> ctx = c

\* A bridge that panicked leaves its mark for good, and no other starts.
FlagInv == FlagIsTrue /\ ~(BridgeOn /\ stuck)

OwnInv == \A c \in Conns : own[c] <= stamp

\* Directories are numbered: a new one is nobody's.
Numbered ==
  /\ dirs \subseteq 0 .. seq - 1
  /\ \A c \in Conns : staged[c] \subseteq 0 .. seq - 1
  /\ \A c, d \in Conns : c # d => staged[c] \cap staged[d] = {}

\* Uploads are there while their request lives, and gone with it.
KeptInv ==
  \A c \in Conns :
    /\ pc[c] \in Served => staged[c] \subseteq dirs
    /\ pc[c] \in {"refused", "gone"} /\ c \notin spoilt
         => staged[c] \cap dirs = {}

UploadInv == Numbered /\ KeptInv

Inv == /\ TypeInv /\ PlaceInv /\ HoldInv /\ FlagInv /\ OwnInv /\ SlotsCounted
       /\ UploadInv

-----------------------------------------------------------------------------
(* The ways a connection ends.                                             *)

\* A connection that is being served ends, and its turn is over.
Quits(c) ==
  /\ pc[c] \in Served /\ Leave(c)
  /\ run[c] \in {"none", "gone"}
  /\ UNCHANGED <<stamp, shared, seq, staged>>
  /\ panics' \in Nat
  /\ spoilt' \in {spoilt, spoilt \cup {c}}
  /\ \/ staged[c] = {} /\ dirs' = dirs
     \/ dirs' = dirs \ staged[c]
     \/ c \in spoilt' /\ dirs' = dirs

LEMMA AnswersQuit ==
  ASSUME TypeInv, PlaceInv, NEW c \in Conns,
         \/ Reject(c) \/ Other(c) \/ System(c) \/ Config(c) \/ ApiKey(c)
         \/ Away(c) \/ NoPrompt(c) \/ RawRefused(c)
  PROVE  Quits(c)
<1>1. Placed(c)
  BY DEF PlaceInv
<1>2. pc[c] \in Served /\ pc[c] \notin {"inline", "relay", "join"}
  BY DEF Reject, Other, System, Config, ApiKey, Away, NoPrompt, RawRefused,
         Served, Plain
<1>3. staged[c] = {}
  BY <1>1 DEF Reject, Other, System, Config, ApiKey, Away, NoPrompt,
              RawRefused, Placed, Plain, Uploads
<1>4. /\ Leave(c)
      /\ UNCHANGED <<stamp, panics, shared, files>>
  BY DEF Reject, Other, System, Config, ApiKey, Away, NoPrompt, RawRefused
<1> QED BY <1>1, <1>2, <1>3, <1>4 DEF Quits, Placed, files, TypeInv

LEMMA ReplyQuits ==
  ASSUME TypeInv, PlaceInv, NEW c \in Conns, Reply(c)
  PROVE  Quits(c)
<1>1. Placed(c)
  BY DEF PlaceInv
<1> QED BY <1>1 DEF Reply, Quits, Placed, Plain, Served, files, TypeInv

LEMMA UploadsQuit ==
  ASSUME TypeInv, PlaceInv, NEW c \in Conns,
         SpawnFails(c) \/ StageFails(c) \/ DrainFails(c) \/ Build(c) \/ Join(c)
  PROVE  Quits(c)
<1>1. Placed(c)
  BY DEF PlaceInv
<1>2. CASE SpawnFails(c)
  BY <1>1, <1>2 DEF SpawnFails, Quits, Placed, Served, TypeInv
<1>3. CASE StageFails(c)
  BY <1>1, <1>3 DEF StageFails, Quits, Placed, Served, TypeInv
<1>4. CASE DrainFails(c)
  BY <1>1, <1>4 DEF DrainFails, CleanUp, Quits, Placed, Served, TypeInv
<1>5. CASE Build(c)
  BY <1>1, <1>5 DEF Build, CleanUp, Quits, Placed, Served, TypeInv
<1>6. CASE Join(c)
  BY <1>1, <1>6 DEF Join, CleanUp, Quits, Placed, Served, TypeInv
<1> QED BY <1>2, <1>3, <1>4, <1>5, <1>6

\* The listener turns somebody away, or finds no thread for them.
Unserved(c) ==
  /\ pc[c] = "idle"
  /\ pc' \in {[pc EXCEPT ![c] = "refused"], [pc EXCEPT ![c] = "gone"]}
  /\ panics' \in Nat
  /\ UNCHANGED <<kind, run, chan, active, stamp, own, shared, files>>

LEMMA TurnedAway ==
  ASSUME TypeInv, NEW c \in Conns, Refuse(c) \/ NoThread(c)
  PROVE  Unserved(c)
BY DEF Refuse, NoThread, Unserved, Goto, Comes, TypeInv

\* The kinds of steps there are.
Moves(c) ==
  \/ Route(c) \/ SetConfig(c) \/ ReadBody(c) \/ Store(c) \/ Spawn(c)
  \/ StageFile(c) \/ Staged(c) \/ RawStarts(c) \/ Drained(c) \/ RelayEnds(c)

Turns(c) ==
  \/ TakeContext(c) \/ Answer(c) \/ Teleport(c) \/ Connected(c)
  \/ BridgeEnds(c) \/ Release(c)

LEMMA NextSorted ==
  ASSUME TypeInv, PlaceInv, Next
  PROVE  \E c \in Conns : \/ Unserved(c) \/ Accept(c) \/ Quits(c)
                          \/ Moves(c) \/ Turns(c) \/ Panic(c)
<1>1. PICK c \in Conns : \/ Listen(c) \/ Step(c) \/ Turn(c)
                         \/ SpawnFails(c) \/ Connected(c) \/ BridgeEnds(c)
                         \/ Panic(c)
  BY DEF Next
<1>2. CASE Listen(c)
  BY <1>2, TurnedAway DEF Listen
<1>3. CASE Step(c)
  BY <1>3, AnswersQuit, ReplyQuits, UploadsQuit DEF Step, Moves
<1>4. CASE Turn(c) \/ Connected(c) \/ BridgeEnds(c) \/ Panic(c)
  BY <1>4 DEF Turn, Turns
<1>5. CASE SpawnFails(c)
  BY <1>5, UploadsQuit
<1> QED BY <1>1, <1>2, <1>3, <1>4, <1>5

-----------------------------------------------------------------------------
(* Types.                                                                  *)

LEMMA MovesType ==
  ASSUME TypeInv, NEW c \in Conns, Moves(c)
  PROVE  TypeInv'
<1> USE DEF TypeInv, Served, Plain, Kinds, Streams, Uploads, shared, files
<1>1. CASE Route(c)
  BY <1>1 DEF Route, Goto
<1>2. CASE SetConfig(c)
  BY <1>2 DEF SetConfig, Goto
<1>3. CASE ReadBody(c)
  BY <1>3 DEF ReadBody, Goto
<1>4. CASE Store(c)
  BY <1>4 DEF Store, Goto
<1>5. CASE Spawn(c)
  BY <1>5 DEF Spawn, Goto
<1>6. CASE StageFile(c)
  BY <1>6 DEF StageFile, NewDir, Goto
<1>7. CASE Staged(c)
  BY <1>7 DEF Staged, Goto
<1>8. CASE RawStarts(c)
  BY <1>8 DEF RawStarts, NewDir, Goto
<1>9. CASE Drained(c)
  BY <1>9 DEF Drained, Goto
<1>10. CASE RelayEnds(c)
  BY <1>10 DEF RelayEnds, Goto
<1> QED BY <1>1, <1>2, <1>3, <1>4, <1>5, <1>6, <1>7, <1>8, <1>9, <1>10 DEF Moves

LEMMA Holders ==
  /\ Nobody \in 0 .. NumConns /\ Nobody \notin Conns
  /\ \A c \in Conns : c \in 0 .. NumConns
  /\ \A c \in 0 .. NumConns : c # Nobody => c \in Conns
BY DEF Nobody, Conns

LEMMA TurnsType ==
  ASSUME TypeInv, NEW c \in Conns, Turns(c)
  PROVE  TypeInv'
<1> USE Holders
<1>1. CASE TakeContext(c)
  BY <1>1 DEF TakeContext, TypeInv, Holding, shared, files
<1>2. CASE Answer(c)
  BY <1>2 DEF Answer, Done, TypeInv, Holding, shared, files
<1>3. CASE Teleport(c)
  BY <1>3 DEF Teleport, TypeInv, Holding, shared, files
<1>4. CASE Connected(c)
  BY <1>4 DEF Connected, Done, TypeInv, Holding, shared, files
<1>5. CASE BridgeEnds(c)
  BY <1>5 DEF BridgeEnds, Done, TypeInv, Holding, shared, files
<1>6. CASE Release(c)
  BY <1>6 DEF Release, TypeInv, Holding, shared, files
<1> QED BY <1>1, <1>2, <1>3, <1>4, <1>5, <1>6 DEF Turns

LEMMA EndsType ==
  ASSUME TypeInv, NEW c \in Conns,
         Unserved(c) \/ Accept(c) \/ Quits(c) \/ Panic(c)
  PROVE  TypeInv'
<1>1. CASE Unserved(c)
  BY <1>1 DEF Unserved, TypeInv, Holding, shared, files
<1>2. CASE Accept(c)
  BY <1>2 DEF Accept, Goto, TypeInv, Served, shared, files
<1>3. CASE Quits(c)
  <2>1. dirs' \in SUBSET Nat /\ spoilt' \in SUBSET Conns /\ panics' \in Nat
    BY <1>3 DEF Quits, TypeInv
  <2>2. Leave(c) /\ UNCHANGED <<stamp, ctx, flag, stuck, seq, staged>>
    BY <1>3 DEF Quits, shared
  <2> QED BY <2>1, <2>2 DEF Leave, Goto, TypeInv
<1>4. CASE Panic(c)
  <2>1. ctx' = Nobody /\ flag' = flag /\ stamp' = stamp /\ panics' \in Nat
        /\ seq' = seq /\ dirs' = dirs /\ staged' = staged /\ spoilt' = spoilt
    BY <1>4 DEF Panic, TypeInv, files
  <2>4. stuck' \in BOOLEAN
    BY <1>4, Zenon DEF Panic, TypeInv
  <2>2. CASE pc[c] = "inline"
    <3>1. Leave(c)
      BY <1>4, <2>2 DEF Panic
    <3> QED BY <2>1, <2>4, <3>1, Holders DEF Leave, Goto, TypeInv
  <2>3. CASE pc[c] # "inline"
    <3>1. /\ run' = [run EXCEPT ![c] = "gone"]
          /\ chan' = [chan EXCEPT ![c] = IF @ = "open" THEN "dropped" ELSE @]
          /\ UNCHANGED <<pc, active, kind, own>>
      BY <1>4, <2>3 DEF Panic
    <3> QED BY <2>1, <2>4, <3>1, Holders DEF TypeInv
  <2> QED BY <2>2, <2>3
<1> QED BY <1>1, <1>2, <1>3, <1>4

-----------------------------------------------------------------------------
(* Places.                                                                 *)

LEMMA MovesPlace ==
  ASSUME TypeInv, PlaceInv, NEW c \in Conns, Moves(c)
  PROVE  PlaceInv'
<1> SUFFICES ASSUME NEW d \in Conns PROVE Placed(d)'
  BY DEF PlaceInv
<1>0. Placed(c) /\ Placed(d)
  BY DEF PlaceInv
<1> USE <1>0 DEF TypeInv, Placed, Plain, Kinds, Streams, Uploads, shared, files
<1>1. CASE Route(c)
  BY <1>1 DEF Route, Goto
<1>2. CASE SetConfig(c)
  BY <1>2 DEF SetConfig, Goto
<1>3. CASE ReadBody(c)
  BY <1>3 DEF ReadBody, Goto
<1>4. CASE Store(c)
  BY <1>4 DEF Store, Goto
<1>5. CASE Spawn(c)
  BY <1>5 DEF Spawn, Goto
<1>6. CASE StageFile(c)
  BY <1>6 DEF StageFile, NewDir, Goto
<1>7. CASE Staged(c)
  BY <1>7 DEF Staged, Goto
<1>8. CASE RawStarts(c)
  BY <1>8 DEF RawStarts, NewDir, Goto
<1>9. CASE Drained(c)
  BY <1>9 DEF Drained, Goto
<1>10. CASE RelayEnds(c)
  BY <1>10 DEF RelayEnds, Goto
<1> QED BY <1>1, <1>2, <1>3, <1>4, <1>5, <1>6, <1>7, <1>8, <1>9, <1>10 DEF Moves

LEMMA TurnsPlace ==
  ASSUME TypeInv, PlaceInv, NEW c \in Conns, Turns(c)
  PROVE  PlaceInv'
<1> SUFFICES ASSUME NEW d \in Conns PROVE Placed(d)'
  BY DEF PlaceInv
<1>0. Placed(c) /\ Placed(d)
  BY DEF PlaceInv
<1> USE <1>0 DEF TypeInv, Placed, shared, files
<1>1. CASE TakeContext(c)
  BY <1>1 DEF TakeContext
<1>2. CASE Answer(c)
  BY <1>2 DEF Answer, Done
<1>3. CASE Teleport(c)
  BY <1>3 DEF Teleport
<1>4. CASE Connected(c)
  BY <1>4 DEF Connected, Done
<1>5. CASE BridgeEnds(c)
  BY <1>5 DEF BridgeEnds, Done
<1>6. CASE Release(c)
  BY <1>6 DEF Release
<1> QED BY <1>1, <1>2, <1>3, <1>4, <1>5, <1>6 DEF Turns

LEMMA EndsPlace ==
  ASSUME TypeInv, PlaceInv, NEW c \in Conns,
         Unserved(c) \/ Accept(c) \/ Quits(c) \/ Panic(c)
  PROVE  PlaceInv'
<1> SUFFICES ASSUME NEW d \in Conns PROVE Placed(d)'
  BY DEF PlaceInv
<1>0. Placed(c) /\ Placed(d)
  BY DEF PlaceInv
<1> USE <1>0 DEF TypeInv, Placed, Plain
<1>1. CASE Unserved(c)
  BY <1>1 DEF Unserved, files
<1>2. CASE Accept(c)
  BY <1>2 DEF Accept, Comes, Goto, files
<1>3. CASE Quits(c)
  BY <1>3 DEF Quits, Leave, Goto
<1>4. CASE Panic(c) /\ pc[c] = "inline"
  BY <1>4 DEF Panic, Leave, Goto, files
<1>5. CASE Panic(c) /\ pc[c] # "inline"
  BY <1>5 DEF Panic, files
<1> QED BY <1>1, <1>2, <1>3, <1>4, <1>5

-----------------------------------------------------------------------------
(* The context, the flag and the settings.                                 *)

LEMMA ContextStep ==
  ASSUME TypeInv, PlaceInv, HoldInv, FlagInv, NEW c \in Conns,
         \/ Unserved(c) \/ Accept(c) \/ Quits(c)
         \/ Moves(c) \/ Turns(c) \/ Panic(c)
  PROVE  HoldInv' /\ FlagInv'
<1> USE Holders DEF TypeInv, HoldInv, FlagInv, FlagIsTrue, BridgeOn, Holding
<1>1. CASE Unserved(c) \/ Accept(c)
  BY <1>1 DEF Unserved, Accept, shared
<1>2. CASE Quits(c)
  BY <1>2 DEF Quits, Leave, shared
<1>3. CASE Moves(c)
  <2>1. /\ UNCHANGED <<ctx, flag, stuck>>
        /\ run' \in {run, [run EXCEPT ![c] = "lock"]}
    BY <1>3 DEF Moves, Route, SetConfig, ReadBody, Store, Spawn, StageFile,
                Staged, RawStarts, Drained, RelayEnds, shared
  <2>2. run' = run \/ run[c] = "none"
    BY <1>3 DEF Moves, Route, SetConfig, ReadBody, Store, Spawn, StageFile,
                Staged, RawStarts, Drained, RelayEnds, PlaceInv, Placed
  <2> QED BY <2>1, <2>2
<1>4. CASE TakeContext(c)
  BY <1>4 DEF TakeContext
<1>5. CASE Answer(c)
  BY <1>5 DEF Answer, shared
<1>6. CASE Teleport(c)
  BY <1>6 DEF Teleport
<1>7. CASE Connected(c)
  BY <1>7 DEF Connected, shared
<1>8. CASE BridgeEnds(c)
  BY <1>8 DEF BridgeEnds
<1>9. CASE Release(c)
  BY <1>9 DEF Release
<1>10. CASE Panic(c)
  <2>1. run' \in {[run EXCEPT ![c] = "gone"], [run EXCEPT ![c] = "none"]}
    BY <1>10 DEF Panic, Leave
  <2>2. /\ run[c] \in {"turn", "phase1", "loop"} /\ ctx = c
        /\ ctx' = Nobody /\ flag' = flag /\ stuck' = (stuck \/ run[c] # "turn")
    BY <1>10 DEF Panic
  <2>3. ASSUME NEW d \in Conns PROVE run'[d] \notin Holding /\ ctx' # d
    <3>1. CASE d = c
      BY <2>1, <2>2, <3>1
    <3>2. CASE d # c
      BY <2>1, <2>2, <3>2
    <3> QED BY <3>1, <3>2
  <2>4. HoldInv'
    BY <2>3
  <2>5. ~BridgeOn' /\ (BridgeOn <=> run[c] # "turn")
    BY <2>2
  <2>6. FlagInv'
    BY <2>2, <2>5
  <2> QED BY <2>4, <2>6
<1> QED BY <1>1, <1>2, <1>3, <1>4, <1>5, <1>6, <1>7, <1>8, <1>9, <1>10
        DEF Turns

LEMMA SettingsStep ==
  ASSUME TypeInv, OwnInv, NEW c \in Conns,
         \/ Unserved(c) \/ Accept(c) \/ Quits(c)
         \/ Moves(c) \/ Turns(c) \/ Panic(c)
  PROVE  OwnInv'
<1> USE DEF TypeInv, OwnInv
<1>1. CASE Unserved(c) \/ Accept(c)
  BY <1>1 DEF Unserved, Accept
<1>2. CASE Quits(c) \/ Panic(c)
  <2>1. stamp' = stamp /\ own' \in {own, [own EXCEPT ![c] = 0]}
    BY <1>2 DEF Quits, Panic, Leave
  <2> QED BY <2>1
<1>3. CASE Moves(c)
  <2>1. CASE Store(c)
    BY <2>1 DEF Store
  <2>2. (own' = own /\ stamp' \in {stamp, stamp + 1}) \/ Store(c)
    BY <1>3 DEF Moves, Route, SetConfig, ReadBody, Spawn, StageFile, Staged,
                RawStarts, Drained, RelayEnds
  <2> QED BY <2>1, <2>2
<1>4. CASE Turns(c)
  BY <1>4 DEF Turns, TakeContext, Answer, Teleport, Connected, BridgeEnds,
              Release
<1> QED BY <1>1, <1>2, <1>3, <1>4

-----------------------------------------------------------------------------
(* The count of connections.                                               *)

LEMMA LivingFinite ==
  ASSUME TypeInv
  PROVE  /\ IsFiniteSet(Living) /\ Cardinality(Living) \in Nat
         /\ Living = {c \in Conns : pc[c] \in Served}
<1>1. IsFiniteSet(Conns)
  BY FS_Interval DEF Conns
<1>2. Living \subseteq Conns
  BY DEF Living
<1>3. Living = {c \in Conns : pc[c] \in Served}
  BY DEF Living, TypeInv, Served, Plain
<1> QED BY <1>1, <1>2, <1>3, FS_Subset, FS_CardinalityType

LEMMA CountStep ==
  ASSUME TypeInv, TypeInv', PlaceInv, SlotsCounted, NEW c \in Conns,
         \/ Unserved(c) \/ Accept(c) \/ Quits(c)
         \/ Moves(c) \/ Turns(c) \/ Panic(c)
  PROVE  SlotsCounted'
<1> USE LivingFinite DEF SlotsCounted
<1>1. CASE Unserved(c)
  <2>1. Living' = Living /\ active' = active
    BY <1>1 DEF Unserved, Living, TypeInv
  <2> QED BY <2>1
<1>2. CASE Accept(c)
  <2>1. Living' = Living \cup {c} /\ c \notin Living
    BY <1>2 DEF Accept, Comes, Goto, Living, TypeInv
  <2>2. active' = active + 1 /\ active < MaxConn
    BY <1>2 DEF Accept
  <2>3. Cardinality(Living') = Cardinality(Living) + 1
    BY <2>1, FS_AddElement
  <2> QED BY <2>2, <2>3 DEF TypeInv
<1>3. ASSUME pc[c] \in Served, Leave(c)
      PROVE  SlotsCounted'
  <2>1. Living' = Living \ {c} /\ c \in Living
    BY <1>3 DEF Leave, Goto, Living, TypeInv, Served, Plain
  <2>2. active' = active - 1
    BY <1>3 DEF Leave
  <2>3. Cardinality(Living') = Cardinality(Living) - 1
    BY <2>1, FS_RemoveElement
  <2> QED BY <2>2, <2>3 DEF TypeInv
<1>4. CASE Quits(c)
  BY <1>3, <1>4 DEF Quits
<1>5. CASE Moves(c)
  <2>1. active' = active /\ pc[c] \in Served
    BY <1>5 DEF Moves, Route, SetConfig, ReadBody, Store, Spawn, StageFile,
                Staged, RawStarts, Drained, RelayEnds, Served, Plain
  <2>2. \A d \in Conns : d # c => pc'[d] = pc[d]
    BY <1>5 DEF Moves, Route, SetConfig, ReadBody, Store, Spawn, StageFile,
                Staged, RawStarts, Drained, RelayEnds, Goto, TypeInv
  <2>3. pc'[c] \in Served
    BY <1>5 DEF Moves, Route, SetConfig, ReadBody, Store, Spawn, StageFile,
                Staged, RawStarts, Drained, RelayEnds, Goto, TypeInv, Served,
                Plain, Kinds, Streams, Uploads
  <2>4. Living' = Living
    BY <2>1, <2>2, <2>3 DEF Living, TypeInv, Served, Plain
  <2> QED BY <2>1, <2>4
<1>6. CASE Turns(c)
  <2>1. active' = active /\ Living' = Living
    BY <1>6 DEF Turns, TakeContext, Answer, Teleport, Connected, BridgeEnds,
                Release, Living
  <2> QED BY <2>1
<1>7. CASE Panic(c) /\ pc[c] = "inline"
  BY <1>3, <1>7 DEF Panic, Served, Plain
<1>8. CASE Panic(c) /\ pc[c] # "inline"
  <2>1. active' = active /\ Living' = Living
    BY <1>8 DEF Panic, Living
  <2> QED BY <2>1
<1> QED BY <1>1, <1>2, <1>4, <1>5, <1>6, <1>7, <1>8

-----------------------------------------------------------------------------
(* Uploads.                                                                *)

\* A new directory is its request's own.
LEMMA NewDirKept ==
  ASSUME TypeInv, UploadInv, NEW c \in Conns, NewDir(c), spoilt' = spoilt,
         pc[c] \in Served, \A d \in Conns : d # c => pc'[d] = pc[d],
         pc'[c] \in Served
  PROVE  UploadInv'
<1> USE DEF UploadInv, TypeInv
<1>1. seq' = seq + 1 /\ dirs' = dirs \cup {seq}
      /\ staged' = [staged EXCEPT ![c] = @ \cup {seq}]
  BY DEF NewDir
<1>2. \A d \in Conns : seq \notin staged[d]
  BY DEF Numbered
<1>3. Numbered'
  <2>1. dirs' \subseteq 0 .. seq' - 1
    BY <1>1 DEF Numbered
  <2>2. \A d \in Conns : staged'[d] \subseteq 0 .. seq' - 1
    BY <1>1 DEF Numbered
  <2>3. ASSUME NEW d \in Conns, NEW e \in Conns, d # e
        PROVE  staged'[d] \cap staged'[e] = {}
    BY <1>1, <1>2, <2>3 DEF Numbered
  <2> QED BY <2>1, <2>2, <2>3 DEF Numbered
<1>4. KeptInv'
  <2> SUFFICES ASSUME NEW d \in Conns
               PROVE  /\ pc'[d] \in Served => staged'[d] \subseteq dirs'
                      /\ pc'[d] \in {"refused", "gone"} /\ d \notin spoilt'
                           => staged'[d] \cap dirs' = {}
    BY DEF KeptInv
  <2>1. CASE d = c
    BY <2>1, <1>1 DEF KeptInv, Served, Plain
  <2>2. CASE d # c
    BY <2>2, <1>1, <1>2 DEF KeptInv
  <2> QED BY <2>1, <2>2
<1> QED BY <1>3, <1>4

LEMMA UploadStep ==
  ASSUME TypeInv, PlaceInv, UploadInv, NEW c \in Conns,
         \/ Unserved(c) \/ Accept(c) \/ Quits(c)
         \/ Moves(c) \/ Turns(c) \/ Panic(c)
  PROVE  UploadInv'
<1> USE DEF UploadInv, TypeInv
<1>0. Placed(c)
  BY DEF PlaceInv
<1>1. CASE Unserved(c) \/ Accept(c)
  <2>1. /\ pc[c] = "idle" /\ \A d \in Conns : d # c => pc'[d] = pc[d]
        /\ UNCHANGED <<seq, dirs, staged, spoilt>>
    BY <1>1 DEF Unserved, Accept, Comes, Goto, files
  <2> QED BY <1>0, <2>1 DEF Placed, Numbered, KeptInv
<1>2. CASE Quits(c)
  <2>1. /\ pc[c] \in Served /\ pc' = [pc EXCEPT ![c] = "gone"]
        /\ UNCHANGED <<seq, staged>>
        /\ dirs' \in {dirs, dirs \ staged[c]}
        /\ staged[c] \cap dirs' = {} \/ c \in spoilt'
        /\ spoilt \subseteq spoilt'
    BY <1>2 DEF Quits, Leave, Goto
  <2>2. Numbered'
    BY <2>1 DEF Numbered
  <2>3. KeptInv'
    BY <2>1 DEF KeptInv, Numbered, Served, Plain
  <2> QED BY <2>2, <2>3
<1>3. CASE StageFile(c) \/ RawStarts(c)
  <2>1. /\ NewDir(c) /\ spoilt' = spoilt /\ pc[c] \in Served
        /\ pc'[c] \in Served /\ \A d \in Conns : d # c => pc'[d] = pc[d]
    BY <1>3 DEF StageFile, RawStarts, Goto, Served
  <2> QED BY <2>1, NewDirKept
<1>4. CASE Moves(c) /\ ~(StageFile(c) \/ RawStarts(c))
  <2>1. UNCHANGED <<seq, dirs, staged, spoilt>> /\ pc[c] \in Served
    BY <1>4 DEF Moves, Route, SetConfig, ReadBody, Store, Spawn, Staged,
                Drained, RelayEnds, Served, Plain, files
  <2>2. /\ pc'[c] \in Served
        /\ \A d \in Conns : d # c => pc'[d] = pc[d]
    BY <1>4 DEF Moves, Route, SetConfig, ReadBody, Store, Spawn, Staged,
                Drained, RelayEnds, Goto, Served, Plain, Kinds, Streams,
                Uploads
  <2> QED BY <2>1, <2>2 DEF Numbered, KeptInv, Served, Plain
<1>5. CASE Turns(c)
  BY <1>5 DEF Turns, TakeContext, Answer, Teleport, Connected, BridgeEnds,
              Release, Numbered, KeptInv, files
<1>6. CASE Panic(c)
  <2>1. /\ UNCHANGED <<seq, dirs, staged, spoilt>>
        /\ \/ pc' = pc
           \/ pc[c] = "inline" /\ pc' = [pc EXCEPT ![c] = "gone"]
    BY <1>6 DEF Panic, Leave, Goto, files
  <2> QED BY <1>0, <2>1 DEF Placed, Plain, Numbered, KeptInv
<1> QED BY <1>1, <1>2, <1>3, <1>4, <1>5, <1>6

-----------------------------------------------------------------------------
(* The invariant and what follows.                                         *)

LEMMA InitInv == Init => Inv
<1> SUFFICES ASSUME Init PROVE Inv
  OBVIOUS
<1> USE DEF Init
<1>1. TypeInv
  <2>1. ctx \in 0 .. NumConns
    BY Holders
  <2>2. pc \in [Conns -> Served \cup {"idle", "refused", "gone"}]
        /\ kind \in [Conns -> Kinds \cup {"none"}]
        /\ run \in [Conns -> Holding \cup {"none", "lock", "gone"}]
        /\ chan \in [Conns -> {"none", "open", "done", "dropped"}]
    OBVIOUS
  <2>3. own \in [Conns -> Nat] /\ staged \in [Conns -> SUBSET Nat]
    OBVIOUS
  <2>4. flag \in BOOLEAN /\ stuck \in BOOLEAN
    OBVIOUS
  <2> QED BY <2>1, <2>2, <2>3, <2>4 DEF TypeInv
<1>2. PlaceInv
  BY DEF PlaceInv, Placed, Plain
<1>3. HoldInv /\ OwnInv
  BY Holders DEF HoldInv, OwnInv, Holding
<1>5. UploadInv
  BY DEF UploadInv, Numbered, KeptInv, Served, Plain
<1>6. FlagInv
  <2>1. ~BridgeOn
    BY DEF BridgeOn
  <2> QED BY <2>1 DEF FlagInv, FlagIsTrue
<1>4. SlotsCounted
  <2>1. Living = {}
    BY DEF Living
  <2> QED BY <2>1, FS_EmptySet DEF SlotsCounted
<1> QED BY <1>1, <1>2, <1>3, <1>4, <1>5, <1>6 DEF Inv

LEMMA StepInv == Inv /\ [Next]_vars => Inv'
<1> SUFFICES ASSUME Inv, [Next]_vars PROVE Inv'
  OBVIOUS
<1>1. CASE UNCHANGED vars
  <2>1. TypeInv' /\ PlaceInv'
    BY <1>1 DEF Inv, vars, TypeInv, PlaceInv, Placed
  <2>2. HoldInv' /\ FlagInv' /\ OwnInv'
    BY <1>1 DEF Inv, vars, HoldInv, FlagInv, FlagIsTrue, BridgeOn, OwnInv
  <2>3. SlotsCounted' /\ UploadInv'
    BY <1>1 DEF Inv, vars, SlotsCounted, Living, UploadInv, Numbered, KeptInv
  <2> QED BY <2>1, <2>2, <2>3 DEF Inv
<1>2. CASE Next
  <2>1. PICK c \in Conns : \/ Unserved(c) \/ Accept(c) \/ Quits(c)
                           \/ Moves(c) \/ Turns(c) \/ Panic(c)
    BY <1>2, NextSorted DEF Inv
  <2>2. TypeInv'
    BY <2>1, MovesType, TurnsType, EndsType DEF Inv
  <2>3. PlaceInv'
    BY <2>1, MovesPlace, TurnsPlace, EndsPlace DEF Inv
  <2>4. HoldInv' /\ FlagInv' /\ OwnInv'
    BY <2>1, ContextStep, SettingsStep DEF Inv
  <2>5. SlotsCounted' /\ UploadInv'
    BY <2>1, <2>2, CountStep, UploadStep DEF Inv
  <2> QED BY <2>2, <2>3, <2>4, <2>5 DEF Inv
<1> QED BY <1>1, <1>2

LEMMA AlwaysInv == Spec => []Inv
<1> QED BY InitInv, StepInv, PTL DEF Spec

\* The count of connections is that of those being served and never above the
\* cap, and the teleport flag is up when a bridge has the context or died with
\* it, whatever requests come, end or panic (the accept loop, ConnGuard,
\* set_teleported, clear_teleported).
THEOREM ServerAccounted == Spec => []Accounted
<1>1. Inv => Accounted
  BY DEF Inv, FlagInv, Accounted
<1> QED BY <1>1, AlwaysInv, PTL

\* A turn's settings are its own request's or later ones, with any number of
\* requests storing theirs (handle_generate).
THEOREM ServerSettings == Spec => []SettingsNotOlder
<1>1. Inv => SettingsNotOlder
  BY DEF Inv, TypeInv, OwnInv, SettingsNotOlder
<1> QED BY <1>1, AlwaysInv, PTL

\* Nobody's upload is removed under a request that still needs it, and none
\* stays when its request has gone, but for failed uploads and panics
\* (temp_path_for, cleanup_staged).
THEOREM ServerUploadsKept == Spec => []UploadsKept
<1>1. ASSUME Inv PROVE OwnUpload
  <2>1. ASSUME NEW c \in Conns,
               \/ pc[c] = "build"
               \/ kind[c] \in Uploads /\ run[c] \in {"lock", "turn"}
        PROVE  staged[c] # {} /\ staged[c] \subseteq dirs
    <3>1. Placed(c) /\ pc[c] \in Served
      BY <1>1, <2>1 DEF Inv, PlaceInv, Placed, Served, Plain
    <3>2. staged[c] # {}
      BY <2>1, <3>1 DEF Placed, Plain
    <3>3. staged[c] \subseteq dirs
      BY <1>1, <3>1 DEF Inv, UploadInv, KeptInv
    <3> QED BY <3>2, <3>3
  <2>2. \A c, d \in Conns : c # d => staged[c] \cap staged[d] = {}
    BY <1>1 DEF Inv, UploadInv, Numbered
  <2> QED BY <2>1, <2>2 DEF OwnUpload
<1>2. ASSUME Inv PROVE UploadsGone
  <2> SUFFICES ASSUME NEW c \in Conns, staged[c] \cap dirs # {},
                      c \notin Living
               PROVE  c \in spoilt
    BY DEF UploadsGone
  <2>1. pc[c] \in {"idle", "refused", "gone"}
    BY DEF Living
  <2>2. pc[c] # "idle"
    BY <1>2 DEF Inv, PlaceInv, Placed
  <2> QED BY <1>2, <2>1, <2>2 DEF Inv, UploadInv, KeptInv
<1>3. Inv => UploadsKept
  BY <1>1, <1>2 DEF UploadsKept
<1> QED BY <1>3, AlwaysInv, PTL
=============================================================================
