----------------------------- MODULE PipeProofs -----------------------------
(***************************************************************************)
(* What a turn leaves in its client, the session, the vault, the audit log *)
(* and the settings, for any number of turns, kills, lost rows and files,  *)
(* and whatever the model answers.                                         *)
(*                                                                         *)
(* The first invariant is about the turns that are under way: but for the  *)
(* last one they all wait for the bridge, and the last one is the turn     *)
(* begun last until it has waited itself.  On it rest the others, each of  *)
(* which says what the turn under way has left at each of its places.  The *)
(* last is about what the model reads and what is read out of its answer,  *)
(* and rests on what the functions of Recall and ToolCalls compute.        *)
(***************************************************************************)
EXTENDS Pipe, FiniteSetTheorems, SequenceTheorems, WellFoundedInduction, TLAPS

-----------------------------------------------------------------------------
(* The turns that are under way.                                           *)

Fields == {"turn", "surface", "input", "pc", "id", "blocked", "followup", "todo", "then",
           "context", "text", "from", "x", "files", "runs", "prior", "said"}

\* The places of a turn that waits for the bridge, and of one that goes
\* straight on to a model.
Bridge == {"phase1", "phase2", "connected", "loop"}
Chat   == {"engine", "cloud", "extract", "push"}
Narration == {"narrate", "narrating", "narrated"}
Spots == Bridge \cup Chat \cup Narration \cup
          {"begin", "log_teleport", "teleport", "route", "early", "ready", "saving", "finish",
           "analyze", "file"}

\* What may be left to save, and where the turn goes on.
User(f)      == [role |-> "user", turn |-> f.turn, text |-> f.input]
Answer(f)    == [role |-> "assistant", turn |-> f.turn, text |-> f.input]
Printed(f)   == [role |-> "tool", turn |-> f.turn, text |-> f.input]
Saving(f) ==
  \/ f.todo = <<User(f), Printed(f)>> /\ f.then = "early"
  \/ f.todo = <<Printed(f)>> /\ f.then \in {"early", "file", "narrate", "finish"}
  \/ f.todo = <<User(f), Answer(f)>> /\ f.then = "push"
  \/ f.todo = <<Answer(f)>> /\ f.then \in {"push", "finish"}
  \/ f.todo = <<User(f)>> /\ f.then = "file"

FrameType(f) ==
  /\ DOMAIN f = Fields
  /\ f.turn \in Nat /\ f.id \in Nat /\ f.files \in Nat /\ f.runs \in Nat
  /\ f.surface \in {"sync", "stream"}
  /\ f.pc \in Spots
  /\ f.blocked \in BOOLEAN /\ f.followup \in BOOLEAN
  /\ f.pc = "saving" => Saving(f)

\* The turn begun last: any, but one that has waited for the bridge.
Current(f) ==
  \/ f.pc \in Bridge
  \/ f.pc = "early" /\ ~f.followup /\ ~f.blocked
  \/ f.turn = begun

StackInv ==
  /\ begun \in Nat /\ over \subseteq 1 .. begun
  /\ frames \in Seq(Range(frames)) /\ Len(frames) \in Nat
  /\ \A i \in 1 .. Len(frames) :
       /\ FrameType(frames[i]) /\ Current(frames[i])
       /\ frames[i].turn \in 1 .. begun \ over
       /\ i < Len(frames) => frames[i].pc \in Bridge
  /\ \A i, j \in 1 .. Len(frames) : i < j => frames[i].turn < frames[j].turn

\* A sequence, of whatever it holds.
LEMMA Holds == ASSUME NEW S, NEW s \in Seq(S) PROVE s \in Seq(Range(s)) /\ Len(s) \in Nat
<1>1. Len(s) \in Nat /\ s \in [1 .. Len(s) -> S] /\ DOMAIN s = 1 .. Len(s)
  BY LenProperties
<1>2. s \in [1 .. Len(s) -> Range(s)]
  BY <1>1 DEF Range
<1> QED BY <1>1, <1>2, SeqDef

LEMMA InitStack == Init => StackInv
<1> SUFFICES ASSUME Init PROVE StackInv
  OBVIOUS
<1>1. frames = <<>> /\ Len(frames) = 0 /\ begun = 0 /\ over = {}
  BY DEF Init
<1>2. frames \in Seq(Range(frames))
  BY <1>1, EmptySeq
<1> QED BY <1>1, <1>2 DEF StackInv

\* The turn that runs, in a stack that is not empty.
LEMMA TopKnown ==
  ASSUME StackInv, frames # <<>>
  PROVE  /\ Len(frames) \in 1 .. Len(frames) /\ Top = frames[Len(frames)]
         /\ FrameType(Top) /\ Current(Top)
         /\ Top.turn \in 1 .. begun \ over /\ Top.turn \in Nat /\ begun \in Nat
<1>1. Len(frames) \in 1 .. Len(frames)
  BY EmptySeq DEF StackInv
<1>2. Top = frames[Len(frames)]
  BY DEF Top, Last
<1> QED BY <1>1, <1>2 DEF StackInv, FrameType

\* The turn that runs goes on.
LEMMA Becomes ==
  ASSUME StackInv, frames # <<>>, NEW g, Become(g)
  PROVE  /\ frames' # <<>> /\ Top' = g /\ Len(frames') = Len(frames)
         /\ frames' \in Seq(Range(frames'))
         /\ \A i \in 1 .. Len(frames) - 1 : frames'[i] = frames[i]
         /\ frames'[Len(frames)] = g
<1> DEFINE n == Len(frames)
           S == Range(frames) \cup {g}
<1>1. n \in 1 .. n /\ n \in Nat
  BY TopKnown DEF StackInv
<1>2. frames \in Seq(S)
  BY SeqMonotonic DEF StackInv
<1>3. frames' = [frames EXCEPT ![n] = g]
  BY DEF Become
<1>4. frames' \in Seq(S) /\ Len(frames') = n
      /\ \A j \in 1 .. n : frames'[j] = IF j = n THEN g ELSE frames[j]
  BY <1>1, <1>2, <1>3, ExceptSeq
<1>5. \A i \in 1 .. n - 1 : i \in 1 .. n /\ i # n
  BY <1>1
<1>6. frames' # <<>>
  BY <1>1, <1>4
<1>7. Top' = g
  BY <1>1, <1>4 DEF Top, Last
<1>8. frames' \in Seq(Range(frames'))
  BY <1>4, Holds
<1> QED BY <1>1, <1>4, <1>5, <1>6, <1>7, <1>8

LEMMA StackBecomes ==
  ASSUME StackInv, frames # <<>>, NEW g, Become(g), FrameType(g), g.turn = Top.turn, Current(g),
         UNCHANGED <<begun, over>>
  PROVE  StackInv'
<1> DEFINE n == Len(frames)
<1>1. /\ Len(frames') = n /\ frames' \in Seq(Range(frames')) /\ frames'[n] = g
      /\ \A i \in 1 .. n - 1 : frames'[i] = frames[i]
  BY Becomes
<1>2. n \in 1 .. n /\ n \in Nat /\ Top = frames[n] /\ Top.turn \in 1 .. begun \ over
  BY TopKnown DEF StackInv
<1>3. \A i \in 1 .. n : i = n \/ i \in 1 .. n - 1
  BY <1>2
<1>4. \A i \in 1 .. n : frames'[i].turn = frames[i].turn
  BY <1>1, <1>2, <1>3
<1>5. ASSUME NEW i \in 1 .. n
      PROVE  /\ FrameType(frames'[i]) /\ Current(frames[i])'
             /\ frames'[i].turn \in 1 .. begun' \ over'
             /\ i < n => frames'[i].pc \in Bridge
  BY <1>1, <1>2, <1>3 DEF StackInv, Current
<1>6. \A i, j \in 1 .. n : i < j => frames'[i].turn < frames'[j].turn
  BY <1>4 DEF StackInv
<1>7. begun' \in Nat /\ over' \subseteq 1 .. begun'
  BY DEF StackInv
<1> QED BY <1>1, <1>2, <1>5, <1>6, <1>7 DEF StackInv

\* The turn that runs is over.
Leaves == /\ frames # <<>> /\ frames' = Front(frames) /\ over' = over \cup {Top.turn}
          /\ begun' = begun

LEMMA Under ==
  ASSUME StackInv, Leaves
  PROVE  /\ Len(frames') = Len(frames) - 1 /\ Len(frames') \in Nat
         /\ frames' \in Seq(Range(frames'))
         /\ \A i \in 1 .. Len(frames') : frames'[i] = frames[i] /\ i \in 1 .. Len(frames)
         /\ frames' # <<>> => Top'.pc \in Bridge
<1> DEFINE n == Len(frames)
<1>1. n \in 1 .. n /\ n \in Nat
  BY TopKnown DEF StackInv, Leaves
<1>2. \A i \in 1 .. n - 1 : i \in 1 .. n /\ i < n
  BY <1>1
<1>3. \A i \in 1 .. n - 1 : frames[i] \in Range(frames)
  BY <1>2, LenProperties DEF StackInv, Range
<1>4. /\ frames' \in Seq(Range(frames)) /\ Len(frames') = n - 1
      /\ \A i \in 1 .. n - 1 : frames'[i] = frames[i]
  <2>1. frames' = SubSeq(frames, 1, n - 1)
    BY DEF Leaves, Front
  <2>2. /\ frames' \in Seq(Range(frames))
        /\ Len(frames') = IF 1 <= n - 1 THEN (n - 1) - 1 + 1 ELSE 0
        /\ \A i \in 1 .. (n - 1) - 1 + 1 : frames'[i] = frames[1 + i - 1]
    BY <1>1, <1>3, <2>1, SubSeqProperties
  <2>3. (n - 1) - 1 + 1 = n - 1 /\ \A i \in 1 .. n - 1 : 1 + i - 1 = i
    BY <1>1
  <2>4. \A i \in 1 .. n - 1 : frames'[i] = frames[i]
    BY <2>2, <2>3
  <2>5. Len(frames') = n - 1
    <3> HIDE DEF n
    <3>1. 1 <= n - 1 \/ n = 1
      BY <1>1
    <3> QED BY <1>1, <2>2, <2>3, <3>1
  <2> QED BY <2>2, <2>4, <2>5
<1>5. frames' \in Seq(Range(frames'))
  BY <1>4, Holds
<1>6. ASSUME frames' # <<>> PROVE Top'.pc \in Bridge
  <2>1. n - 1 \in 1 .. n - 1
    BY <1>1, <1>4, <1>6, EmptySeq
  <2>2. Top' = frames[n - 1]
    BY <1>4, <2>1 DEF Top, Last
  <2> QED BY <1>2, <2>1, <2>2 DEF StackInv
<1> QED BY <1>1, <1>2, <1>4, <1>5, <1>6

LEMMA StackLeaves == ASSUME StackInv, Leaves PROVE StackInv'
<1> DEFINE n == Len(frames)
           m == Len(frames')
<1>1. /\ m = n - 1 /\ m \in Nat /\ frames' \in Seq(Range(frames'))
      /\ \A i \in 1 .. m : frames'[i] = frames[i] /\ i \in 1 .. n
  BY Under
<1>2. n \in 1 .. n /\ n \in Nat /\ Top = frames[n] /\ Top.turn \in 1 .. begun /\ begun \in Nat
  BY TopKnown DEF StackInv, Leaves
<1>3. \A i \in 1 .. m : i < n
  BY <1>1, <1>2
<1>4. ASSUME NEW i \in 1 .. m
      PROVE  /\ FrameType(frames'[i]) /\ Current(frames[i])'
             /\ frames'[i].turn \in 1 .. begun' \ over'
             /\ frames'[i].pc \in Bridge
  <2>1. i \in 1 .. n /\ i < n /\ frames'[i] = frames[i]
    BY <1>1, <1>3
  <2>2. frames[i].turn < Top.turn /\ frames[i].turn \in 1 .. begun \ over
    BY <1>2, <2>1 DEF StackInv
  <2>3. frames[i].turn # Top.turn
    BY <1>2, <2>2
  <2> QED BY <2>1, <2>2, <2>3 DEF StackInv, Leaves, Current
<1>5. \A i, j \in 1 .. m : i < j => frames'[i].turn < frames'[j].turn
  BY <1>1 DEF StackInv
<1>6. begun' \in Nat /\ over' \subseteq 1 .. begun'
  BY <1>2 DEF StackInv, Leaves
<1> QED BY <1>1, <1>4, <1>5, <1>6 DEF StackInv

\* A turn begins on top of those that wait.
LEMMA StackPush ==
  ASSUME StackInv, NEW fs, fs \in Seq(Range(fs)), Len(fs) = Len(frames),
         \A i \in 1 .. Len(frames) :
           FrameType(fs[i]) /\ fs[i].turn = frames[i].turn /\ fs[i].pc \in Bridge,
         NEW g, FrameType(g), g.turn = begun + 1,
         frames' = Append(fs, g), begun' = begun + 1, over' = over
  PROVE  /\ StackInv' /\ Top' = g /\ frames' # <<>> /\ Len(frames') = Len(frames) + 1
         /\ \A i \in 1 .. Len(frames) : frames'[i] = fs[i]
         /\ frames'[Len(frames) + 1] = g
<1> DEFINE n == Len(frames)
           S == Range(fs) \cup {g}
<1>1. n \in Nat /\ begun \in Nat /\ over \subseteq 1 .. begun
  BY DEF StackInv
<1>2. fs \in Seq(S)
  BY SeqMonotonic
<1>3. /\ frames' \in Seq(S) /\ Len(frames') = n + 1 /\ frames'[n + 1] = g
      /\ \A i \in 1 .. n : frames'[i] = fs[i]
  BY <1>1, <1>2
<1>4. frames' \in Seq(Range(frames')) /\ frames' # <<>> /\ Top' = g
  <2>1. frames' \in Seq(Range(frames'))
    BY <1>3, Holds
  <2>2. Len(frames') # 0
    BY <1>1, <1>3
  <2>3. Top' = g
    BY <1>3 DEF Top, Last
  <2> QED BY <2>1, <2>2, <2>3
<1>5. \A i \in 1 .. n + 1 : i = n + 1 \/ (i \in 1 .. n /\ i < n + 1)
  BY <1>1
<1>6. \A i \in 1 .. n : frames[i].turn \in 1 .. begun \ over
  BY DEF StackInv
<1>7. \A i \in 1 .. n : frames'[i].turn \in 1 .. begun' \ over' /\ frames'[i].turn < begun + 1
  BY <1>1, <1>3, <1>6
<1>8. begun + 1 \in 1 .. begun' \ over'
  BY <1>1
<1>9. ASSUME NEW i \in 1 .. n + 1
      PROVE  /\ FrameType(frames'[i]) /\ Current(frames[i])'
             /\ frames'[i].turn \in 1 .. begun' \ over'
             /\ i < n + 1 => frames'[i].pc \in Bridge
  <2>1. CASE i = n + 1
    BY <1>1, <1>3, <1>8, <2>1 DEF Current
  <2>2. CASE i \in 1 .. n
    BY <1>3, <1>7, <2>2 DEF Current
  <2> QED BY <1>5, <2>1, <2>2
<1>10. ASSUME NEW i \in 1 .. n + 1, NEW j \in 1 .. n + 1, i < j
       PROVE  frames'[i].turn < frames'[j].turn
  <2>1. i \in 1 .. n
    BY <1>1, <1>10
  <2>2. CASE j = n + 1
    BY <1>3, <1>7, <2>1, <2>2
  <2>3. CASE j \in 1 .. n
    BY <1>3, <1>10, <2>1, <2>3 DEF StackInv
  <2> QED BY <1>5, <2>2, <2>3
<1>11. StackInv'
  BY <1>1, <1>3, <1>4, <1>9, <1>10 DEF StackInv
<1> QED BY <1>3, <1>4, <1>11

\* What a turn begins with, and what became of the one it runs inside.
Started(g) == /\ FrameType(g) /\ g.turn = begun + 1 /\ g.pc \in {"begin", "analyze"}
              /\ g.said = <<>> /\ g.id = 0 /\ ~g.blocked
              /\ Top' = g /\ frames' # <<>> /\ begun' = begun + 1 /\ over' = over
              /\ Len(frames') = Len(frames) + 1 /\ frames'[Len(frames) + 1] = g
              /\ \A i \in 1 .. Len(frames) :
                   \/ frames'[i] = frames[i]
                   \/ /\ frames[i].pc = "phase1" /\ i = Len(frames)
                      /\ frames'[i] = Tell([Top EXCEPT !.pc = "connected"], <<"Token">>)

LEMMA NewFrameType ==
  ASSUME StackInv, NEW surface \in {"sync", "stream"}, NEW input
  PROVE  LET g == NewFrame(surface, input)
         IN  /\ FrameType(g) /\ g.turn = begun + 1 /\ g.pc = "begin" /\ g.said = <<>> /\ g.id = 0
             /\ g.blocked = FALSE
<1> QED BY DEF StackInv, NewFrame, FrameType, Fields, Spots

LEMMA Starts ==
  ASSUME StackInv, Begin \/ DropFiles \/ Message
  PROVE  StackInv' /\ \E g : Started(g)
<1>1. begun \in Nat /\ Len(frames) \in Nat /\ frames \in Seq(Range(frames))
  BY DEF StackInv
<1>2. CASE Begin
  <2>1. PICK surface \in {"sync", "stream"}, input \in Commands \cup Questions :
          frames' = <<NewFrame(surface, input)>>
    BY <1>2 DEF Begin
  <2> DEFINE g == NewFrame(surface, input)
  <2>2. /\ FrameType(g) /\ g.turn = begun + 1 /\ g.pc = "begin" /\ g.said = <<>> /\ g.id = 0
        /\ g.blocked = FALSE
    BY NewFrameType
  <2> HIDE DEF g
  <2>3. frames = <<>> /\ begun' = begun + 1 /\ over' = over /\ Len(frames) = 0
    BY <1>2 DEF Begin
  <2>4. frames' = Append(frames, g)
    BY <2>1, <2>3 DEF g
  <2>5. StackInv' /\ Top' = g /\ frames' # <<>> /\ Len(frames') = Len(frames) + 1
        /\ frames'[Len(frames) + 1] = g
    <3>1. \A i \in 1 .. Len(frames) :
            FrameType(frames[i]) /\ frames[i].turn = frames[i].turn /\ frames[i].pc \in Bridge
      BY <2>3
    <3>2. begun' = begun + 1 /\ over' = over
      BY <2>3
    <3> QED BY <1>1, <2>2, <2>4, <3>1, <3>2, StackPush
  <2> QED BY <2>2, <2>3, <2>5 DEF Started
<1>3. CASE DropFiles
  <2>1. PICK files \in 0 .. MaxFiles :
          frames' = <<[NewFrame("stream", "files") EXCEPT !.files = files, !.pc = "analyze"]>>
    BY <1>3 DEF DropFiles
  <2> DEFINE h == NewFrame("stream", "files")
             g == [h EXCEPT !.files = files, !.pc = "analyze"]
  <2>2. /\ FrameType(h) /\ h.turn = begun + 1 /\ h.pc = "begin" /\ h.said = <<>> /\ h.id = 0
        /\ h.blocked = FALSE
    BY NewFrameType
  <2> HIDE DEF h
  <2>3. /\ FrameType(g) /\ g.turn = begun + 1 /\ g.pc = "analyze" /\ g.said = <<>> /\ g.id = 0
        /\ g.blocked = FALSE
    BY <2>2 DEF FrameType, Fields, Spots
  <2>4. frames = <<>> /\ begun' = begun + 1 /\ over' = over /\ Len(frames) = 0
    BY <1>3 DEF DropFiles
  <2>5. frames' = Append(frames, g)
    BY <2>1, <2>4 DEF h
  <2> HIDE DEF g
  <2>6. StackInv' /\ Top' = g /\ frames' # <<>> /\ Len(frames') = Len(frames) + 1
        /\ frames'[Len(frames) + 1] = g
    <3>1. \A i \in 1 .. Len(frames) :
            FrameType(frames[i]) /\ frames[i].turn = frames[i].turn /\ frames[i].pc \in Bridge
      BY <2>4
    <3>2. begun' = begun + 1 /\ over' = over
      BY <2>4
    <3> QED BY <1>1, <2>3, <2>5, <3>1, <3>2, StackPush
  <2> QED BY <2>3, <2>4, <2>6 DEF Started
<1>4. CASE Message
  <2> DEFINE n == Len(frames)
             t == IF Top.pc = "phase1" THEN Tell([Top EXCEPT !.pc = "connected"], <<"Token">>)
                                       ELSE Top
             fs == [frames EXCEPT ![n] = t]
  <2>1. PICK input : frames' = Append(fs, NewFrame("sync", input))
    BY <1>4 DEF Message
  <2> DEFINE g == NewFrame("sync", input)
  <2>2. /\ FrameType(g) /\ g.turn = begun + 1 /\ g.pc = "begin" /\ g.said = <<>> /\ g.id = 0
        /\ g.blocked = FALSE
    BY NewFrameType
  <2> HIDE DEF g
  <2>3. /\ frames # <<>> /\ Top.pc \in {"phase1", "phase2", "loop"}
        /\ begun' = begun + 1 /\ over' = over
    BY <1>4 DEF Message
  <2>4. n \in 1 .. n /\ Top = frames[n] /\ FrameType(Top)
    BY <2>3, TopKnown
  <2>5. FrameType(t) /\ t.turn = Top.turn /\ t.pc \in Bridge
    BY <2>3, <2>4 DEF FrameType, Fields, Tell, Spots, Bridge
  <2>6. /\ fs \in Seq(Range(frames) \cup {t}) /\ Len(fs) = n
        /\ \A i \in 1 .. n : fs[i] = IF i = n THEN t ELSE frames[i]
    <3>1. frames \in Seq(Range(frames) \cup {t})
      BY <1>1, SeqMonotonic
    <3> HIDE DEF t
    <3> QED BY <2>4, <3>1, ExceptSeq
  <2>7. fs \in Seq(Range(fs))
    BY <2>6, Holds
  <2> HIDE DEF fs
  <2>8. \A i \in 1 .. n : i = n \/ i < n
    BY <1>1
  <2>9. \A i \in 1 .. n : FrameType(fs[i]) /\ fs[i].turn = frames[i].turn /\ fs[i].pc \in Bridge
    <3> HIDE DEF t
    <3> QED BY <2>4, <2>5, <2>6, <2>8 DEF StackInv
  <2>10. /\ StackInv' /\ Top' = g /\ frames' # <<>> /\ Len(frames') = n + 1
         /\ \A i \in 1 .. n : frames'[i] = fs[i]
         /\ frames'[n + 1] = g
    BY <2>1, <2>2, <2>3, <2>6, <2>7, <2>9, StackPush DEF g
  <2>11. \A i \in 1 .. n :
           \/ frames'[i] = frames[i]
           \/ /\ frames[i].pc = "phase1" /\ i = n
              /\ frames'[i] = Tell([Top EXCEPT !.pc = "connected"], <<"Token">>)
    BY <2>4, <2>6, <2>10
  <2> QED BY <2>2, <2>3, <2>10, <2>11 DEF Started
<1> QED BY <1>2, <1>3, <1>4

\* What the turn that runs does to the stack: it goes on, or it is over.
Goes(g) == /\ frames # <<>> /\ Become(g) /\ FrameType(g) /\ g.turn = Top.turn /\ Current(g)
           /\ UNCHANGED <<begun, over>>

LEMMA GoesStack == ASSUME StackInv, (\E g : Goes(g)) \/ Leaves PROVE StackInv'
<1> QED BY StackBecomes, StackLeaves DEF Goes

LEMMA FinishLeaves ==
  ASSUME NEW events, frames # <<>>, Finish(events), begun' = begun
  PROVE  Leaves
<1> QED BY DEF Finish, Leaves

Typed == /\ frames # <<>> /\ FrameType(Top) /\ Current(Top)

\* One row is appended, and the turn goes on when it was the last.
LEMMA RowIsDone ==
  ASSUME FrameType(Top), Top.pc = "saving"
  PROVE  LET g == RowDone
         IN  /\ FrameType(g) /\ g.turn = Top.turn /\ g.input = Top.input /\ g.then = Top.then
             /\ g.blocked = Top.blocked /\ g.followup = Top.followup /\ g.said = Top.said
             /\ g.id = Top.id /\ g.surface = Top.surface /\ g.prior = Top.prior
             /\ \/ /\ g.pc = "saving" /\ Head(Top.todo) = User(Top)
                   /\ \/ g.todo = <<Printed(Top)>> /\ g.then = "early"
                      \/ g.todo = <<Answer(Top)>> /\ g.then = "push"
                \/ /\ g.pc = Top.then
                   /\ \/ Head(Top.todo) = Printed(Top) /\ Top.todo = <<Printed(Top)>>
                         /\ g.pc \in {"early", "file", "narrate", "finish"}
                      \/ Head(Top.todo) = Answer(Top) /\ Top.todo = <<Answer(Top)>>
                         /\ g.pc \in {"push", "finish"}
                      \/ Head(Top.todo) = User(Top) /\ Top.todo = <<User(Top)>> /\ g.pc = "file"
<1> DEFINE g == RowDone
<1>1. Saving(Top)
  BY DEF FrameType
<1>2. /\ DOMAIN g = Fields /\ g.todo = Tail(Top.todo)
      /\ g.pc = IF Len(Top.todo) = 1 THEN Top.then ELSE "saving"
      /\ g.turn = Top.turn /\ g.input = Top.input /\ g.then = Top.then
      /\ g.blocked = Top.blocked /\ g.followup = Top.followup /\ g.said = Top.said
      /\ g.id = Top.id /\ g.surface = Top.surface /\ g.files = Top.files /\ g.runs = Top.runs
      /\ g.prior = Top.prior
  BY DEF RowDone, FrameType, Fields
<1>3. ASSUME NEW u, NEW r, Top.todo = <<u, r>>
      PROVE  Head(Top.todo) = u /\ g.todo = <<r>> /\ g.pc = "saving"
  BY <1>2, <1>3
<1>4. ASSUME NEW r, Top.todo = <<r>> PROVE Head(Top.todo) = r /\ g.pc = Top.then
  BY <1>2, <1>4
<1> HIDE DEF g
<1>5. User(g) = User(Top) /\ Answer(g) = Answer(Top) /\ Printed(g) = Printed(Top)
  BY <1>2 DEF User, Answer, Printed
<1>6. /\ \/ /\ g.pc = "saving" /\ Head(Top.todo) = User(Top)
            /\ \/ g.todo = <<Printed(Top)>> /\ g.then = "early"
               \/ g.todo = <<Answer(Top)>> /\ g.then = "push"
         \/ /\ g.pc = Top.then
            /\ \/ Head(Top.todo) = Printed(Top) /\ Top.todo = <<Printed(Top)>>
                  /\ g.pc \in {"early", "file", "narrate", "finish"}
               \/ Head(Top.todo) = Answer(Top) /\ Top.todo = <<Answer(Top)>>
                  /\ g.pc \in {"push", "finish"}
               \/ Head(Top.todo) = User(Top) /\ Top.todo = <<User(Top)>> /\ g.pc = "file"
  <2>1. CASE Top.todo = <<User(Top), Printed(Top)>> /\ Top.then = "early"
    BY <1>2, <1>3, <2>1
  <2>2. CASE Top.todo = <<Printed(Top)>> /\ Top.then \in {"early", "file", "narrate", "finish"}
    BY <1>2, <1>4, <2>2
  <2>3. CASE Top.todo = <<User(Top), Answer(Top)>> /\ Top.then = "push"
    BY <1>2, <1>3, <2>3
  <2>4. CASE Top.todo = <<Answer(Top)>> /\ Top.then \in {"push", "finish"}
    BY <1>2, <1>4, <2>4
  <2>5. CASE Top.todo = <<User(Top)>> /\ Top.then = "file"
    BY <1>2, <1>4, <2>5
  <2> QED BY <1>1, <2>1, <2>2, <2>3, <2>4, <2>5 DEF Saving
<1>7. FrameType(g)
  <2>1. g.pc \in Spots
    BY <1>6 DEF Spots, Bridge, Chat, Narration
  <2>2. g.pc = "saving" => Saving(g)
    BY <1>5, <1>6 DEF Saving
  <2> QED BY <1>2, <2>1, <2>2 DEF FrameType
<1> QED BY <1>2, <1>6, <1>7 DEF g

LEMMA SavesStack == ASSUME Typed, SaveRow \/ LoseRow PROVE \E g : Goes(g) /\ g = RowDone
<1>1. FrameType(Top) /\ Top.pc = "saving" /\ frames # <<>> /\ Top.turn = begun
  BY DEF Typed, SaveRow, LoseRow, At, Current, Bridge
<1>2. Become(RowDone) /\ UNCHANGED <<begun, over>>
  BY DEF SaveRow, LoseRow
<1>3. FrameType(RowDone) /\ RowDone.turn = Top.turn
  BY <1>1, RowIsDone
<1>4. Current(RowDone)
  BY <1>1, <1>3 DEF Current
<1> QED BY <1>1, <1>2, <1>3, <1>4 DEF Goes

LEMMA RunFileStack == ASSUME Typed, RunFile PROVE (\E g : Goes(g)) \/ Leaves
<1> DEFINE next == [Top EXCEPT !.files = Top.files - 1]
<1>1. /\ frames # <<>> /\ FrameType(Top) /\ Top.pc = "file" /\ Top.turn = begun
      /\ Top.files \in Nat /\ Top.files > 0
  BY DEF Typed, RunFile, At, Current, Bridge, FrameType
<1>2. Top.files - 1 \in Nat
  BY <1>1
<1>3. /\ FrameType(next) /\ next.turn = begun /\ next.pc = "file" /\ next.input = Top.input
      /\ next.runs = Top.runs
  BY <1>1, <1>2 DEF FrameType, Fields
<1> HIDE DEF next
<1>4. /\ UNCHANGED <<begun, over>>
      /\ \/ \E said \in {"Token", "Error"} : Become(Tell(next, <<said>>))
         \/ Become(Save(Tell([next EXCEPT !.runs = next.runs + 1], <<"Token">>),
                        <<Printed(Top)>>, "file"))
  BY <1>1, <1>3 DEF RunFile, Row, Printed, next
<1>5. CASE \E said \in {"Token", "Error"} : Become(Tell(next, <<said>>))
  BY <1>1, <1>3, <1>4, <1>5 DEF Goes, Tell, FrameType, Fields, Current
<1>6. CASE Become(Save(Tell([next EXCEPT !.runs = next.runs + 1], <<"Token">>),
                       <<Printed(Top)>>, "file"))
  <2> DEFINE told1 == Tell([next EXCEPT !.runs = next.runs + 1], <<"Token">>)
             g == Save(told1, <<Printed(Top)>>, "file")
  <2>1. /\ FrameType(told1) /\ told1.turn = begun /\ told1.input = Top.input
    BY <1>1, <1>3 DEF Tell, FrameType, Fields
  <2> HIDE DEF told1
  <2>2. /\ DOMAIN g = Fields /\ g.pc = "saving" /\ g.todo = <<Printed(Top)>> /\ g.then = "file"
        /\ g.turn = begun /\ g.input = Top.input
    BY <2>1 DEF Save, FrameType, Fields
  <2>3. Printed(g) = Printed(Top)
    BY <1>1, <2>2 DEF Printed
  <2>4. /\ g.id \in Nat /\ g.files \in Nat /\ g.runs \in Nat /\ g.surface \in {"sync", "stream"}
        /\ g.blocked \in BOOLEAN /\ g.followup \in BOOLEAN /\ g.turn \in Nat
    BY <2>1 DEF Save, FrameType, Fields
  <2> HIDE DEF g
  <2>5. FrameType(g)
    BY <2>2, <2>3, <2>4 DEF FrameType, Saving, Spots
  <2>6. Goes(g)
    BY <1>1, <1>4, <1>6, <2>2, <2>5 DEF Goes, Current, g, told1
  <2> QED BY <2>6
<1> QED BY <1>4, <1>5, <1>6

LEMMA EnterStack == ASSUME Typed, lastId \in Nat, Enter PROVE (\E g : Goes(g)) \/ Leaves
<1>1. frames # <<>> /\ FrameType(Top) /\ Top.pc = "begin" /\ Top.turn = begun /\ begun' = begun
  BY DEF Typed, Enter, At, Current, Bridge
<1>2. CASE Top.input = "empty"
  BY <1>1, <1>2, FinishLeaves DEF Enter
<1>3. CASE Top.input # "empty"
  <2>1. PICK l \in {"log_teleport", "route"} :
          Become([Top EXCEPT !.id = lastId + 1, !.pc = l]) /\ over' = over
    BY <1>3 DEF Enter
  <2> DEFINE g == [Top EXCEPT !.id = lastId + 1, !.pc = l]
  <2>2. FrameType(g) /\ g.turn = begun
    BY <1>1 DEF FrameType, Fields, Spots
  <2>3. Goes(g)
    BY <1>1, <2>1, <2>2 DEF Goes, Current
  <2> QED BY <2>3
<1> QED BY <1>2, <1>3

\* Whatever the program does next, the turn that runs goes on or is over.
LEMMA StepMoves ==
  ASSUME Typed, lastId \in Nat, Step \/ Connected \/ Return
  PROVE  (\E g : Goes(g)) \/ Leaves
<1> USE DEF Typed, Goes, Leaves, Finish, At, Goto, FrameType, Fields, Spots, Bridge, Chat,
        Narration,
            Current, Saving, User, Answer, Printed, session, settings, records
<1>1. CASE RefuseInput
  BY <1>1 DEF RefuseInput, AnswerEarly, Early
<1>2. CASE Info
  BY <1>2 DEF Info, AnswerEarly, Early
<1>3. CASE Clear
  BY <1>3 DEF Clear, AnswerEarly, Early
<1>4. CASE Think
  BY <1>4 DEF Think, AnswerEarly, Early
<1>5. CASE SetLevel
  BY <1>5 DEF SetLevel, AnswerEarly, Early
<1>6. CASE Tool
  BY <1>6 DEF Tool, AnswerEarly, Early, Save, Row
<1>7. CASE Rune
  BY <1>7 DEF Rune, AnswerEarly, Early, Save, Row
<1>8. CASE RouteTeleport
  BY <1>8 DEF RouteTeleport
<1>9. CASE LogTeleport
  BY <1>9 DEF LogTeleport
<1>10. CASE Question
  BY <1>10 DEF Question
<1>11. CASE EarlyReply
  BY <1>11 DEF EarlyReply, Tell
<1>12. CASE Ready
  BY <1>12 DEF Ready
<1>13. CASE EngineAnswers
  BY <1>13 DEF EngineAnswers, Generated, Tell
<1>14. CASE EngineFails
  BY <1>14 DEF EngineFails
<1>15. CASE CloudAnswers
  BY <1>15 DEF CloudAnswers, Generated, Tell
<1>16. CASE CloudFails
  BY <1>16 DEF CloudFails
<1>17. CASE Extract
  BY <1>17 DEF Extract
<1>18. CASE NoCall
  BY <1>18 DEF NoCall, Finalize, Save, Row, Tell
<1>19. CASE SecondLocal
  BY <1>19 DEF SecondLocal, Finalize, Save, Row, Tell
<1>20. CASE SecondCloud
  BY <1>20 DEF SecondCloud, Finalize, Save, Row, Tell
<1>21. CASE Push
  BY <1>21 DEF Push
<1>22. CASE NarrateLocal
  BY <1>22 DEF NarrateLocal
<1>23. CASE NarratedLocal
  BY <1>23 DEF NarratedLocal
<1>24. CASE NarrateCloud
  BY <1>24 DEF NarrateCloud
<1>25. CASE NoNarration
  BY <1>25 DEF NoNarration
<1>26. CASE Narrated
  BY <1>26 DEF Narrated, Save, Row, Tell
<1>27. CASE FinishTurn
  BY <1>27 DEF FinishTurn
<1>28. CASE Analyze
  BY <1>28 DEF Analyze, Save, Row
<1>29. CASE NothingRan
  BY <1>29 DEF NothingRan
<1>30. CASE Correlate
  BY <1>30 DEF Correlate, Save, Row, Tell
<1>31. CASE NoBridge
  BY <1>31 DEF NoBridge, AnswerEarly, Early
<1>32. CASE StartBridge
  BY <1>32 DEF StartBridge, Tell
<1>33. CASE Connected
  BY <1>33 DEF Connected, Tell
<1>34. CASE FirstAnswered
  BY <1>34 DEF FirstAnswered, Tell
<1>35. CASE Return
  BY <1>35 DEF Return, AnswerEarly, Early
<1> HIDE DEF Typed, Goes, Leaves, Finish, At, Goto, FrameType, Fields, Spots, Bridge, Chat,
        Narration,
            Current, Saving, User, Answer, Printed, session, settings, records
<1>36. CASE SaveRow \/ LoseRow
  BY <1>36, SavesStack
<1>37. CASE RunFile
  BY <1>37, RunFileStack
<1>38. CASE Enter
  BY <1>38, EnterStack
<1> QED BY <1>1, <1>2, <1>3, <1>4, <1>5, <1>6, <1>7, <1>8, <1>9, <1>10, <1>11, <1>12, <1>13,
        <1>14, <1>15, <1>16, 
          <1>17, <1>18, <1>19, <1>20, <1>21, <1>22, <1>23, <1>24, <1>25, <1>26, <1>27, <1>28,
          <1>29, <1>30, <1>31, <1>32, <1>33, <1>34, <1>35, <1>36, <1>37, <1>38 DEF Step

\* The ways in which the next step can change the stack.
LEMMA Moves ==
  ASSUME StackInv, lastId \in Nat, Next
  PROVE  \/ Typed /\ (Step \/ Connected \/ Return) /\ ((\E g : Goes(g)) \/ Leaves)
         \/ (Begin \/ DropFiles \/ Message) /\ \E g : Started(g)
         \/ Configure \/ Kill
<1>1. CASE Step \/ Connected \/ Return
  <2>1. frames # <<>>
    BY <1>1 DEF Step, Connected, Return, At, Enter, LogTeleport, RefuseInput, Info, Clear, Think,
       SetLevel, Tool, Rune, RouteTeleport, Question, EarlyReply, SaveRow, LoseRow, Ready,
       EngineAnswers, EngineFails, CloudAnswers, CloudFails, Extract, NoCall, SecondLocal,
       SecondCloud, Push, NarrateLocal, NarratedLocal, NarrateCloud, NoNarration, Narrated,
       FinishTurn, Analyze, RunFile, NothingRan, Correlate, NoBridge, StartBridge, FirstAnswered
  <2>2. Typed
    BY <2>1, TopKnown DEF Typed
  <2> QED BY <1>1, <2>2, StepMoves
<1> QED BY <1>1, Starts DEF Next

\* What is known of a step of the turn that runs, and where it finds its place afterwards.
Known ==
  /\ Typed /\ Len(frames) \in DOMAIN frames
  /\ Len(frames) \in DOMAIN frames' => frames' # <<>> /\ Top' = frames'[Len(frames)]

LEMMA TopSteps ==
  ASSUME StackInv, Typed, (\E g : Goes(g)) \/ Leaves
  PROVE  Known
<1> DEFINE n == Len(frames)
<1>1. n \in 1 .. n /\ n \in Nat
  BY TopKnown DEF StackInv, Typed
<1>2. DOMAIN frames = 1 .. n
  BY LenProperties DEF StackInv
<1>3. CASE \E g : Goes(g)
  <2>1. PICK g : Goes(g)
    BY <1>3
  <2>2. Top' = g /\ frames' # <<>> /\ frames'[n] = g
    BY <2>1, Becomes DEF Goes
  <2> QED BY <1>1, <1>2, <2>2 DEF Known
<1>4. CASE Leaves
  <2>1. Len(frames') = n - 1 /\ frames' \in Seq(Range(frames'))
    BY <1>4, Under
  <2>2. DOMAIN frames' = 1 .. n - 1
    BY <2>1, LenProperties
  <2>3. n \notin DOMAIN frames'
    BY <1>1, <2>2
  <2> QED BY <1>1, <1>2, <2>3 DEF Known
<1> QED BY <1>3, <1>4

Same(f, g) == /\ g.turn = f.turn /\ g.surface = f.surface /\ g.id = f.id /\ g.input = f.input
              /\ g.blocked = f.blocked /\ g.followup = f.followup

\* Two steps in more than one piece.
LEMMA RunFileTop ==
  ASSUME Known, RunFile
  PROVE  /\ Top.pc = "file" /\ Same(Top, Top') /\ frames' # <<>>
         /\ \/ Top'.pc = "file" /\ \E said \in {"Token", "Error"} : Top'.said = Told(Top, <<said>>)
            \/ /\ Top'.pc = "saving" /\ Top'.todo = <<Printed(Top)>> /\ Top'.then = "file"
               /\ Top'.said = Told(Top, <<"Token">>)
<1> DEFINE next == [Top EXCEPT !.files = Top.files - 1]
           ran == [next EXCEPT !.runs = next.runs + 1]
<1>1. /\ FrameType(Top) /\ Top.pc = "file" /\ Len(frames) \in DOMAIN frames
      /\ \/ \E said \in {"Token", "Error"} : Become(Tell(next, <<said>>))
         \/ Become(Save(Tell(ran, <<"Token">>), <<Printed(Top)>>, "file"))
  BY DEF Known, Typed, RunFile, At, Row, Printed
<1>2. /\ DOMAIN next = Fields /\ DOMAIN ran = Fields /\ next.pc = "file"
      /\ Same(Top, next) /\ next.said = Top.said /\ Same(Top, ran) /\ ran.said = Top.said
  BY <1>1 DEF FrameType, Fields, Same
<1> HIDE DEF next, ran
<1>3. ASSUME NEW e PROVE Told(next, e) = Told(Top, e) /\ Told(ran, e) = Told(Top, e)
  BY <1>2 DEF Told
<1>4. ASSUME NEW g, Become(g) PROVE Top' = g /\ frames' # <<>>
  BY <1>1, <1>4 DEF Known, Become
<1>5. ASSUME NEW said \in {"Token", "Error"}, Become(Tell(next, <<said>>))
      PROVE  /\ Same(Top, Top') /\ frames' # <<>> /\ Top'.pc = "file"
             /\ Top'.said = Told(Top, <<said>>)
  <2>1. Top' = Tell(next, <<said>>) /\ frames' # <<>>
    BY <1>4, <1>5
  <2> QED BY <1>2, <1>3, <2>1 DEF Tell, Fields, Same
<1>6. ASSUME Become(Save(Tell(ran, <<"Token">>), <<Printed(Top)>>, "file"))
      PROVE  /\ Same(Top, Top') /\ frames' # <<>>
             /\ Top'.pc = "saving" /\ Top'.todo = <<Printed(Top)>> /\ Top'.then = "file"
             /\ Top'.said = Told(Top, <<"Token">>)
  <2>1. Top' = Save(Tell(ran, <<"Token">>), <<Printed(Top)>>, "file") /\ frames' # <<>>
    BY <1>4, <1>6
  <2> QED BY <1>2, <1>3, <2>1 DEF Tell, Save, Fields, Same
<1> QED BY <1>1, <1>5, <1>6

LEMMA CorrelateTop ==
  ASSUME Known, Correlate
  PROVE  /\ Top.pc = "file" /\ Same(Top, Top') /\ frames' # <<>>
         /\ \/ Top'.pc \in {"narrate", "finish"} /\ Top'.said = Top.said
            \/ /\ Top'.pc = "saving" /\ Top'.todo = <<Printed(Top)>>
               /\ Top'.then \in {"narrate", "finish"} /\ Top'.said = Told(Top, <<"Token">>)
<1>1. PICK next \in {"narrate", "finish"} :
        \/ Goto(next)
        \/ Become(Save(Tell(Top, <<"Token">>), <<Printed(Top)>>, next))
  BY DEF Correlate, Row, Printed
<1>2. FrameType(Top) /\ Top.pc = "file" /\ Len(frames) \in DOMAIN frames
  BY DEF Known, Typed, Correlate, At
<1>3. ASSUME NEW g, Become(g) PROVE Top' = g /\ frames' # <<>>
  BY <1>2, <1>3 DEF Known, Become
<1>4. CASE Goto(next)
  <2>1. Top' = [Top EXCEPT !.pc = next] /\ frames' # <<>>
    BY <1>3, <1>4 DEF Goto
  <2> QED BY <1>2, <2>1 DEF FrameType, Fields, Same
<1>5. CASE Become(Save(Tell(Top, <<"Token">>), <<Printed(Top)>>, next))
  <2>1. Top' = Save(Tell(Top, <<"Token">>), <<Printed(Top)>>, next) /\ frames' # <<>>
    BY <1>3, <1>5
  <2> QED BY <1>2, <2>1 DEF Tell, Save, FrameType, Fields, Same
<1> QED BY <1>1, <1>4, <1>5

\* It does not matter what else has changed in the turn.
LEMMA ToldSame == ASSUME NEW f, NEW e, f.said = Top.said PROVE Told(f, e) = Told(Top, e)
<1> QED BY DEF Told

\* Where a step takes the turn that runs.
Moved(pc) == /\ frames' # <<>> /\ Top'.pc = pc /\ Top'.turn = Top.turn
             /\ Top'.surface = Top.surface /\ Top'.input = Top.input
Flags     == Top'.blocked = Top.blocked /\ Top'.followup = Top.followup
On(pc)    == Moved(pc) /\ Flags /\ Top'.id = Top.id
Silent    == told' = told /\ Top'.said = Top.said
Speaks(e)   == told' = told /\ Top'.said = Told(Top, e)
Over(e)   == Leaves /\ told' = IF IsStream THEN Told(Top, e) ELSE <<"Reply">>
Answered  == Moved("early") /\ Silent /\ Top'.id = Top.id
Prints    == /\ Moved("saving") /\ Silent /\ Top'.id = Top.id /\ Top'.blocked = FALSE
             /\ Top'.todo = <<User(Top), Printed(Top)>> /\ Top'.then = "early"
Saves(rows, then) == On("saving") /\ Top'.todo = rows /\ Top'.then = then
Keeps     == Saves(<<User(Top), Answer(Top)>>, "push")

\* A record that a step makes of the turn that runs is what it goes on with.
LEMMA Fielded ==
  ASSUME Known, NEW h, Become(h)
  PROVE  Top' = h /\ frames' # <<>> /\ DOMAIN Top = Fields
<1> QED BY DEF Known, Become, Typed, FrameType

LEMMA Edges ==
  ASSUME Known, lastId \in Nat
  PROVE
    /\ Enter =>
         /\ At("begin")
         /\ IF Top.input = "empty"
              THEN Over(<<"Done">>)
              ELSE /\ lastId' = lastId + 1 /\ Top'.id = lastId + 1 /\ Silent /\ Flags
                   /\ IF IsStream /\ Top.input = "teleport" THEN Moved("log_teleport")
                                                              ELSE Moved("route")
    /\ LogTeleport => At("log_teleport") /\ On("teleport") /\ Silent
    /\ RefuseInput => At("route") /\ Answered /\ Top'.blocked = TRUE /\ Top'.followup = FALSE
    /\ Info => At("route") /\ Answered /\ Top'.blocked = FALSE /\ Top'.followup = FALSE
    /\ Clear => At("route") /\ Answered /\ Top'.blocked = FALSE /\ Top'.followup = FALSE
    /\ Think => At("route") /\ Answered /\ Top'.blocked = FALSE /\ Top'.followup = FALSE
    /\ SetLevel => At("route") /\ Answered /\ Top'.blocked = FALSE /\ Top'.followup = FALSE
    /\ Tool => At("route") /\ Top'.followup = FALSE /\ (Answered \/ Prints)
    /\ Rune => At("route") /\ ((Answered /\ Top'.followup = FALSE) \/ Prints)
    /\ RouteTeleport => At("route") /\ On("teleport") /\ Silent
    /\ Question => At("route") /\ On("ready") /\ Silent
    /\ EarlyReply =>
         /\ At("early")
         /\ IF Top.followup /\ ~have.strict
              THEN On("narrate") /\ Speaks(<<"Token">>)
              ELSE Over(<<IF Top.blocked THEN "Error" ELSE "Token", "Done">>)
    /\ Ready =>
         /\ At("ready")
         /\ IF have.strict THEN Over(<<"Token", "Done">>)
                           ELSE Silent /\ (On("engine") \/ On("cloud"))
    /\ EngineAnswers =>
         /\ At("engine")
         /\ \/ On("extract") /\ Speaks(<<"Token">>)
            \/ IsStream /\ Over(<<"Token", "Error", "Done">>)
    /\ EngineFails => At("engine") /\ On("cloud") /\ Silent
    /\ CloudAnswers =>
         /\ At("cloud")
         /\ \/ On("extract") /\ Speaks(<<>>)
            \/ IsStream /\ Over(<<"Error", "Done">>)
    /\ CloudFails => At("cloud") /\ Over(<<"Error", "Done">>)
    /\ Extract => At("extract") /\ On("extract") /\ Silent
    /\ NoCall =>
         /\ At("extract")
         /\ \/ Keeps /\ Speaks(<<"Token">>)
            \/ ~IsStream /\ Over(<<>>)
    /\ SecondLocal =>
         /\ At("extract")
         /\ \/ Keeps /\ (Speaks(<<"Token">>) \/ Speaks(<<"Token", "Error">>))
            \/ ~IsStream /\ Over(<<>>)
    /\ SecondCloud => At("extract") /\ Keeps /\ Speaks(<<"Token">>)
    /\ Push => At("push") /\ Over(<<"Done">>)
    /\ NarrateLocal => At("narrate") /\ On("narrating") /\ Silent /\ Top'.prior = thinking
    /\ NarratedLocal =>
         /\ At("narrating")
         /\ Over(<<"Done">>) \/ (On("narrated") /\ Silent)
    /\ NarrateCloud => At("narrate") /\ On("narrated") /\ Silent
    /\ NoNarration => At("narrate") /\ (Over(<<"Done">>) \/ Over(<<"Token", "Done">>))
    /\ Narrated =>
         /\ At("narrated")
         /\ Saves(<<Answer(Top)>>, "finish") /\ Speaks(<<"Token">>)
    /\ FinishTurn => At("finish") /\ Over(<<"Done">>)
    /\ Analyze =>
         /\ At("analyze")
         /\ Over(<<"Done">>) \/ (Saves(<<User(Top)>>, "file") /\ Silent)
    /\ NothingRan => At("file") /\ Over(<<"Done">>)
    /\ NoBridge =>
         /\ At("teleport")
         /\ IF IsStream THEN Over(<<"Token", "Done">>)
                        ELSE Answered /\ Top'.blocked = FALSE /\ Top'.followup = FALSE
    /\ StartBridge =>
         /\ At("teleport") /\ Speaks(<<"Token">>)
         /\ IF IsStream THEN On("phase1") ELSE On("loop")
    /\ Connected => At("phase1") /\ On("phase2") /\ Speaks(<<"Token", "Done">>)
    /\ FirstAnswered => At("connected") /\ On("phase2") /\ Speaks(<<"Done">>)
    /\ Return =>
         \/ At("phase1") /\ Over(<<"Token", "Done">>)
         \/ At("phase2") /\ Over(<<>>)
         \/ At("loop") /\ Answered /\ Top'.blocked = FALSE /\ Top'.followup = FALSE
    /\ RunFile =>
         /\ At("file")
         /\ On("file") \/ Saves(<<Printed(Top)>>, "file")
         /\ Speaks(<<"Token">>) \/ Speaks(<<"Error">>)
    /\ Correlate =>
         /\ At("file")
         /\ \/ (On("narrate") \/ On("finish")) /\ Silent
            \/ /\ Saves(<<Printed(Top)>>, "narrate") \/ Saves(<<Printed(Top)>>, "finish")
               /\ Speaks(<<"Token">>)
<1>1. ASSUME Enter
      PROVE
        /\ At("begin")
        /\ IF Top.input = "empty"
             THEN Over(<<"Done">>)
             ELSE /\ lastId' = lastId + 1 /\ Top'.id = lastId + 1 /\ Silent /\ Flags
                  /\ IF IsStream /\ Top.input = "teleport" THEN Moved("log_teleport")
                                                             ELSE Moved("route")
  <2>1. CASE Top.input = "empty"
    BY <1>1, <2>1 DEF Known, Typed, Leaves, Over, Finish, At, Enter
  <2>2. CASE Top.input # "empty"
    <3> DEFINE pc == IF IsStream /\ Top.input = "teleport" THEN "log_teleport" ELSE "route"
               id == lastId + 1
    <3>1. Top' = [Top EXCEPT !.id = id, !.pc = pc] /\ frames' # <<>> /\ DOMAIN Top = Fields
      BY <1>1, <2>2, Fielded DEF Enter
    <3>2. told' = told /\ At("begin") /\ lastId' = id
      BY <1>1, <2>2 DEF Enter
    <3> HIDE DEF pc, id
    <3>3. Top'.id = id /\ Silent /\ Flags /\ Moved(pc)
      BY <3>1, <3>2 DEF Moved, Flags, Silent, Fields
    <3> QED BY <2>2, <3>2, <3>3 DEF id, pc
  <2> QED BY <2>1, <2>2
<1>2. ASSUME LogTeleport PROVE At("log_teleport") /\ On("teleport") /\ Silent
  BY <1>2 DEF LogTeleport, Known, Typed, Become, At, Goto, FrameType, Fields, Finish, Leaves,
       Moved,
     Flags, On, Silent, Speaks, Over, Answered, Saves, Keeps, User, Answer
<1>3. ASSUME RefuseInput
      PROVE  At("route") /\ Answered /\ Top'.blocked = TRUE /\ Top'.followup = FALSE
  BY <1>3 DEF RefuseInput, AnswerEarly, Early, Known, Typed, Become, At, Goto, FrameType, Fields,
       Finish, Leaves, Moved,
     Flags, On, Silent, Speaks, Over, Answered, Saves, Keeps, User, Answer
<1>4. ASSUME Info PROVE At("route") /\ Answered /\ Top'.blocked = FALSE /\ Top'.followup = FALSE
  BY <1>4 DEF Info, AnswerEarly, Early, Known, Typed, Become, At, Goto, FrameType, Fields,
       Finish, Leaves, Moved,
     Flags, On, Silent, Speaks, Over, Answered, Saves, Keeps, User, Answer
<1>5. ASSUME Clear PROVE At("route") /\ Answered /\ Top'.blocked = FALSE /\ Top'.followup = FALSE
  BY <1>5 DEF Clear, AnswerEarly, Early, Known, Typed, Become, At, Goto, FrameType, Fields,
       Finish, Leaves, Moved,
     Flags, On, Silent, Speaks, Over, Answered, Saves, Keeps, User, Answer
<1>6. ASSUME Think PROVE At("route") /\ Answered /\ Top'.blocked = FALSE /\ Top'.followup = FALSE
  BY <1>6 DEF Think, AnswerEarly, Early, Known, Typed, Become, At, Goto, FrameType, Fields,
       Finish, Leaves, Moved,
     Flags, On, Silent, Speaks, Over, Answered, Saves, Keeps, User, Answer
<1>7. ASSUME SetLevel PROVE At("route") /\ Answered /\ Top'.blocked = FALSE /\ Top'.followup = FALSE
  BY <1>7 DEF SetLevel, AnswerEarly, Early, Known, Typed, Become, At, Goto, FrameType, Fields,
       Finish, Leaves, Moved,
     Flags, On, Silent, Speaks, Over, Answered, Saves, Keeps, User, Answer
<1>8. ASSUME Tool PROVE At("route") /\ Top'.followup = FALSE /\ (Answered \/ Prints)
  <2>1. CASE \E blocked \in BOOLEAN : AnswerEarly(blocked)
    <3>1. PICK blocked \in BOOLEAN : AnswerEarly(blocked)
      BY <2>1
    <3>2. Top' = Early(Top, blocked, FALSE) /\ frames' # <<>> /\ DOMAIN Top = Fields
      BY <3>1, Fielded DEF AnswerEarly
    <3>3. told' = told /\ At("route")
      BY <1>8 DEF Tool
    <3> QED BY <3>2, <3>3 DEF Early, Moved, Silent, Answered, Fields
  <2>2. ASSUME NEW followup \in BOOLEAN,
               Become(Save(Early(Top, FALSE, followup), <<Row("user"), Row("tool")>>, "early"))
        PROVE  Prints /\ Top'.followup = followup
    <3>1. Top' = Save(Early(Top, FALSE, followup), <<Row("user"), Row("tool")>>, "early")
          /\ frames' # <<>> /\ DOMAIN Top = Fields
      BY <2>2, Fielded
    <3>2. told' = told /\ Row("user") = User(Top) /\ Row("tool") = Printed(Top)
      BY <1>8 DEF Tool, Row, User, Printed
    <3> QED BY <3>1, <3>2 DEF Save, Early, Moved, Silent, Prints, Fields
  <2> QED BY <1>8, <2>1, <2>2 DEF Tool, At
<1>9. ASSUME Rune PROVE At("route") /\ ((Answered /\ Top'.followup = FALSE) \/ Prints)
  <2>1. CASE \E blocked \in BOOLEAN : AnswerEarly(blocked)
    <3>1. PICK blocked \in BOOLEAN : AnswerEarly(blocked)
      BY <2>1
    <3>2. Top' = Early(Top, blocked, FALSE) /\ frames' # <<>> /\ DOMAIN Top = Fields
      BY <3>1, Fielded DEF AnswerEarly
    <3>3. told' = told /\ At("route")
      BY <1>9 DEF Rune
    <3> QED BY <3>2, <3>3 DEF Early, Moved, Silent, Answered, Fields
  <2>2. ASSUME NEW followup \in BOOLEAN,
               Become(Save(Early(Top, FALSE, followup), <<Row("user"), Row("tool")>>, "early"))
        PROVE  Prints /\ Top'.followup = followup
    <3>1. Top' = Save(Early(Top, FALSE, followup), <<Row("user"), Row("tool")>>, "early")
          /\ frames' # <<>> /\ DOMAIN Top = Fields
      BY <2>2, Fielded
    <3>2. told' = told /\ Row("user") = User(Top) /\ Row("tool") = Printed(Top)
      BY <1>9 DEF Rune, Row, User, Printed
    <3> QED BY <3>1, <3>2 DEF Save, Early, Moved, Silent, Prints, Fields
  <2> QED BY <1>9, <2>1, <2>2 DEF Rune, At
<1>10. ASSUME RouteTeleport PROVE At("route") /\ On("teleport") /\ Silent
  BY <1>10 DEF RouteTeleport, Known, Typed, Become, At, Goto, FrameType, Fields, Finish, Leaves,
       Moved,
     Flags, On, Silent, Speaks, Over, Answered, Saves, Keeps, User, Answer
<1>11. ASSUME Question PROVE At("route") /\ On("ready") /\ Silent
  <2>1. PICK c : Become([Top EXCEPT !.context = c, !.pc = "ready"])
    BY <1>11 DEF Question
  <2>2. Top' = [Top EXCEPT !.context = c, !.pc = "ready"] /\ frames' # <<>> /\ DOMAIN Top = Fields
    BY <2>1, Fielded
  <2>3. told' = told /\ At("route")
    BY <1>11 DEF Question
  <2> QED BY <2>2, <2>3 DEF Moved, Flags, On, Silent, Fields
<1>12. ASSUME EarlyReply
      PROVE
        /\ At("early")
        /\ IF Top.followup /\ ~have.strict
             THEN On("narrate") /\ Speaks(<<"Token">>)
             ELSE Over(<<IF Top.blocked THEN "Error" ELSE "Token", "Done">>)
  <2>1. CASE Top.followup /\ ~have.strict
    <3>1. Top' = Tell([Top EXCEPT !.pc = "narrate"], <<"Token">>) /\ frames' # <<>>
          /\ DOMAIN Top = Fields
      BY <1>12, <2>1, Fielded DEF EarlyReply
    <3>2. told' = told /\ At("early")
      BY <1>12, <2>1 DEF EarlyReply
    <3>3. Told([Top EXCEPT !.pc = "narrate"], <<"Token">>) = Told(Top, <<"Token">>)
      BY <3>1, ToldSame DEF Fields
    <3> QED BY <2>1, <3>1, <3>2, <3>3 DEF Tell, Moved, Flags, On, Speaks, Fields
  <2>2. CASE ~(Top.followup /\ ~have.strict)
    BY <1>12, <2>2 DEF Known, Typed, Leaves, Over, Finish, At, EarlyReply
  <2> QED BY <2>1, <2>2
<1>13. ASSUME Ready
      PROVE
        /\ At("ready")
        /\ IF have.strict THEN Over(<<"Token", "Done">>)
                          ELSE Silent /\ (On("engine") \/ On("cloud"))
  BY <1>13 DEF Ready, Known, Typed, Become, At, Goto, FrameType, Fields, Finish, Leaves, Moved,
     Flags, On, Silent, Speaks, Over, Answered, Saves, Keeps, User, Answer
<1>14. ASSUME EngineAnswers
      PROVE
        /\ At("engine")
        /\ \/ On("extract") /\ Speaks(<<"Token">>)
           \/ IsStream /\ Over(<<"Token", "Error", "Done">>)
  <2>1. PICK text : Generated("engine", text)
    BY <1>14 DEF EngineAnswers
  <2>2. At("engine") /\ begun' = begun
    BY <1>14 DEF EngineAnswers
  <2>3. CASE IsStream /\ Secret(text)
    BY <2>1, <2>2, <2>3 DEF Generated, Known, Typed, Leaves, Over, Finish, At
  <2>4. CASE ~(IsStream /\ Secret(text))
    <3> DEFINE x == StartExtract(text)
               h == [Top EXCEPT !.text = text, !.x = x, !.from = "engine", !.pc = "extract"]
    <3>1. Top' = Tell(h, <<"Token">>) /\ frames' # <<>> /\ DOMAIN Top = Fields /\ told' = told
      BY <2>1, <2>4, Fielded DEF Generated
    <3> HIDE DEF x
    <3>2. Told(h, <<"Token">>) = Told(Top, <<"Token">>)
      BY <3>1, ToldSame DEF Fields
    <3> QED BY <2>2, <3>1, <3>2 DEF Tell, Moved, Flags, On, Speaks, Fields
  <2> QED BY <2>3, <2>4
<1>15. ASSUME EngineFails PROVE At("engine") /\ On("cloud") /\ Silent
  BY <1>15 DEF EngineFails, Known, Typed, Become, At, Goto, FrameType, Fields, Finish, Leaves,
       Moved,
     Flags, On, Silent, Speaks, Over, Answered, Saves, Keeps, User, Answer
<1>16. ASSUME CloudAnswers
      PROVE
        /\ At("cloud")
        /\ \/ On("extract") /\ Speaks(<<>>)
           \/ IsStream /\ Over(<<"Error", "Done">>)
  <2>1. PICK text : Generated("cloud", text)
    BY <1>16 DEF CloudAnswers
  <2>2. At("cloud") /\ begun' = begun
    BY <1>16 DEF CloudAnswers
  <2>3. CASE IsStream /\ Secret(text)
    BY <2>1, <2>2, <2>3 DEF Generated, Known, Typed, Leaves, Over, Finish, At
  <2>4. CASE ~(IsStream /\ Secret(text))
    <3> DEFINE x == StartExtract(text)
               h == [Top EXCEPT !.text = text, !.x = x, !.from = "cloud", !.pc = "extract"]
    <3>1. Top' = Tell(h, <<>>) /\ frames' # <<>> /\ DOMAIN Top = Fields /\ told' = told
      BY <2>1, <2>4, Fielded DEF Generated
    <3> HIDE DEF x
    <3>2. Told(h, <<>>) = Told(Top, <<>>)
      BY <3>1, ToldSame DEF Fields
    <3> QED BY <2>2, <3>1, <3>2 DEF Tell, Moved, Flags, On, Speaks, Fields
  <2> QED BY <2>3, <2>4
<1>17. ASSUME CloudFails PROVE At("cloud") /\ Over(<<"Error", "Done">>)
  BY <1>17 DEF CloudFails, Known, Typed, Become, At, Goto, FrameType, Fields, Finish, Leaves,
       Moved,
     Flags, On, Silent, Speaks, Over, Answered, Saves, Keeps, User, Answer
<1>18. ASSUME Extract PROVE At("extract") /\ On("extract") /\ Silent
  BY <1>18 DEF Extract, Known, Typed, Become, At, Goto, FrameType, Fields, Finish, Leaves, Moved,
     Flags, On, Silent, Speaks, Over, Answered, Saves, Keeps, User, Answer
<1>19. ASSUME NoCall
      PROVE
        /\ At("extract")
        /\ \/ Keeps /\ Speaks(<<"Token">>)
           \/ ~IsStream /\ Over(<<>>)
  <2>1. CASE ~IsStream /\ Secret(Top.text)
    BY <1>19, <2>1 DEF Known, Typed, Leaves, Over, Finish, At, NoCall
  <2>2. CASE ~(~IsStream /\ Secret(Top.text))
    <3>1. Top' = Finalize(Tell(Top, <<"Token">>)) /\ frames' # <<>> /\ DOMAIN Top = Fields
      BY <1>19, <2>2, Fielded DEF NoCall
    <3>2. told' = told /\ At("extract") /\ Row("user") = User(Top) /\ Row("assistant") = Answer(Top)
      BY <1>19, <2>2 DEF NoCall, Row, User, Answer
    <3> QED BY <3>1, <3>2 DEF Finalize, Save, Tell, Moved, Flags, On, Speaks, Saves, Keeps, Fields
  <2> QED BY <2>1, <2>2
<1>20. ASSUME SecondLocal
      PROVE
        /\ At("extract")
        /\ \/ Keeps /\ (Speaks(<<"Token">>) \/ Speaks(<<"Token", "Error">>))
           \/ ~IsStream /\ Over(<<>>)
  <2>1. At("extract") /\ Row("user") = User(Top) /\ Row("assistant") = Answer(Top)
    BY <1>20 DEF SecondLocal, Row, User, Answer
  <2>2. CASE Finish(<<>>) /\ ~IsStream
    BY <1>20, <2>1, <2>2 DEF Known, Typed, Leaves, Over, Finish, At, SecondLocal
  <2>3. ASSUME NEW e, Become(Finalize(Tell(Top, e))), told' = told
        PROVE  Keeps /\ Speaks(e)
    <3>1. Top' = Finalize(Tell(Top, e)) /\ frames' # <<>> /\ DOMAIN Top = Fields
      BY <2>3, Fielded
    <3> QED BY <2>1, <2>3, <3>1 DEF Finalize, Save, Tell, Moved, Flags, On, Speaks, Saves, Keeps,
            Fields
  <2>4. \/ Finish(<<>>) /\ ~IsStream
        \/ told' = told /\ Become(Finalize(Tell(Top, <<"Token">>)))
        \/ told' = told /\ Become(Finalize(Tell(Top, <<"Token", "Error">>)))
    BY <1>20 DEF SecondLocal
  <2> QED BY <2>1, <2>2, <2>3, <2>4
<1>21. ASSUME SecondCloud PROVE At("extract") /\ Keeps /\ Speaks(<<"Token">>)
  <2>1. Top' = Finalize(Tell(Top, <<"Token">>)) /\ frames' # <<>> /\ DOMAIN Top = Fields
    BY <1>21, Fielded DEF SecondCloud
  <2>2. told' = told /\ At("extract") /\ Row("user") = User(Top) /\ Row("assistant") = Answer(Top)
    BY <1>21 DEF SecondCloud, Row, User, Answer
  <2> QED BY <2>1, <2>2 DEF Finalize, Save, Tell, Moved, Flags, On, Speaks, Saves, Keeps, Fields
<1>22. ASSUME Push PROVE At("push") /\ Over(<<"Done">>)
  BY <1>22 DEF Push, Known, Typed, Become, At, Goto, FrameType, Fields, Finish, Leaves, Moved,
     Flags, On, Silent, Speaks, Over, Answered, Saves, Keeps, User, Answer
<1>23. ASSUME NarrateLocal PROVE At("narrate") /\ On("narrating") /\ Silent /\ Top'.prior = thinking
  <2>1. Top' = [Top EXCEPT !.prior = thinking, !.pc = "narrating"] /\ frames' # <<>>
        /\ DOMAIN Top = Fields
    BY <1>23, Fielded DEF NarrateLocal
  <2>2. told' = told /\ At("narrate")
    BY <1>23 DEF NarrateLocal
  <2> QED BY <2>1, <2>2 DEF Moved, Flags, On, Silent, Fields
<1>24. ASSUME NarratedLocal
      PROVE
        /\ At("narrating")
        /\ Over(<<"Done">>) \/ (On("narrated") /\ Silent)
  BY <1>24 DEF NarratedLocal, Known, Typed, Become, At, Goto, FrameType, Fields, Finish, Leaves,
       Moved,
     Flags, On, Silent, Speaks, Over, Answered, Saves, Keeps, User, Answer
<1>25. ASSUME NarrateCloud PROVE At("narrate") /\ On("narrated") /\ Silent
  BY <1>25 DEF NarrateCloud, Known, Typed, Become, At, Goto, FrameType, Fields, Finish, Leaves,
       Moved,
     Flags, On, Silent, Speaks, Over, Answered, Saves, Keeps, User, Answer
<1>26. ASSUME NoNarration PROVE At("narrate") /\ (Over(<<"Done">>) \/ Over(<<"Token", "Done">>))
  BY <1>26 DEF NoNarration, Known, Typed, Become, At, Goto, FrameType, Fields, Finish, Leaves,
       Moved,
     Flags, On, Silent, Speaks, Over, Answered, Saves, Keeps, User, Answer
<1>27. ASSUME Narrated
      PROVE
        /\ At("narrated")
        /\ Saves(<<Answer(Top)>>, "finish") /\ Speaks(<<"Token">>)
  <2>1. /\ Top' = Save(Tell(Top, <<"Token">>), <<Row("assistant")>>, "finish")
        /\ frames' # <<>> /\ DOMAIN Top = Fields
    BY <1>27, Fielded DEF Narrated
  <2>2. told' = told /\ At("narrated") /\ Row("assistant") = Answer(Top)
    BY <1>27 DEF Narrated, Row, Answer
  <2> QED BY <2>1, <2>2 DEF Tell, Save, Moved, Flags, On, Saves, Speaks, Fields
<1>28. ASSUME FinishTurn PROVE At("finish") /\ Over(<<"Done">>)
  BY <1>28 DEF FinishTurn, Known, Typed, Become, At, Goto, FrameType, Fields, Finish, Leaves,
       Moved,
     Flags, On, Silent, Speaks, Over, Answered, Saves, Keeps, User, Answer
<1>29. ASSUME Analyze
      PROVE
        /\ At("analyze")
        /\ Over(<<"Done">>) \/ (Saves(<<User(Top)>>, "file") /\ Silent)
  <2>1. CASE Top.files = 0
    BY <1>29, <2>1 DEF Known, Typed, Leaves, Over, Finish, At, Analyze
  <2>2. CASE Top.files # 0
    <3>1. Top' = Save(Top, <<Row("user")>>, "file") /\ frames' # <<>> /\ DOMAIN Top = Fields
      BY <1>29, <2>2, Fielded DEF Analyze
    <3>2. told' = told /\ At("analyze") /\ Row("user") = User(Top)
      BY <1>29, <2>2 DEF Analyze, Row, User
    <3> QED BY <3>1, <3>2 DEF Save, Saves, Moved, Flags, On, Silent, Fields
  <2> QED BY <2>1, <2>2
<1>30. ASSUME NothingRan PROVE At("file") /\ Over(<<"Done">>)
  BY <1>30 DEF NothingRan, Known, Typed, Become, At, Goto, FrameType, Fields, Finish, Leaves,
       Moved,
     Flags, On, Silent, Speaks, Over, Answered, Saves, Keeps, User, Answer
<1>31. ASSUME NoBridge
      PROVE
        /\ At("teleport")
        /\ IF IsStream THEN Over(<<"Token", "Done">>)
                       ELSE Answered /\ Top'.blocked = FALSE /\ Top'.followup = FALSE
  <2>1. CASE IsStream
    BY <1>31, <2>1 DEF Known, Typed, Leaves, Over, Finish, At, NoBridge
  <2>2. CASE ~IsStream
    <3>1. Top' = Early(Top, FALSE, FALSE) /\ frames' # <<>> /\ DOMAIN Top = Fields
      BY <1>31, <2>2, Fielded DEF NoBridge, AnswerEarly
    <3>2. told' = told /\ At("teleport")
      BY <1>31, <2>2 DEF NoBridge
    <3> QED BY <2>2, <3>1, <3>2 DEF Early, Moved, Silent, Answered, Fields
  <2> QED BY <2>1, <2>2
<1>32. ASSUME StartBridge
      PROVE
        /\ At("teleport") /\ Speaks(<<"Token">>)
        /\ IF IsStream THEN On("phase1") ELSE On("loop")
  <2> DEFINE h == [Top EXCEPT !.pc = IF IsStream THEN "phase1" ELSE "loop"]
  <2>1. Top' = Tell(h, <<"Token">>) /\ frames' # <<>> /\ DOMAIN Top = Fields
    BY <1>32, Fielded DEF StartBridge
  <2>2. told' = told /\ At("teleport")
    BY <1>32 DEF StartBridge
  <2>3. Told(h, <<"Token">>) = Told(Top, <<"Token">>)
    BY <2>1, ToldSame DEF Fields
  <2>4. CASE IsStream
    BY <2>1, <2>2, <2>3, <2>4 DEF Tell, Moved, Flags, On, Speaks, Fields
  <2>5. CASE ~IsStream
    BY <2>1, <2>2, <2>3, <2>5 DEF Tell, Moved, Flags, On, Speaks, Fields
  <2> QED BY <2>4, <2>5
<1>33. ASSUME Connected PROVE At("phase1") /\ On("phase2") /\ Speaks(<<"Token", "Done">>)
  <2> DEFINE h == [Top EXCEPT !.pc = "phase2"]
  <2>1. Top' = Tell(h, <<"Token", "Done">>) /\ frames' # <<>> /\ DOMAIN Top = Fields
    BY <1>33, Fielded DEF Connected
  <2>2. told' = told /\ At("phase1")
    BY <1>33 DEF Connected
  <2>3. Told(h, <<"Token", "Done">>) = Told(Top, <<"Token", "Done">>)
    BY <2>1, ToldSame DEF Fields
  <2> QED BY <2>1, <2>2, <2>3 DEF Tell, Moved, Flags, On, Speaks, Fields
<1>34. ASSUME FirstAnswered PROVE At("connected") /\ On("phase2") /\ Speaks(<<"Done">>)
  <2> DEFINE h == [Top EXCEPT !.pc = "phase2"]
  <2>1. Top' = Tell(h, <<"Done">>) /\ frames' # <<>> /\ DOMAIN Top = Fields
    BY <1>34, Fielded DEF FirstAnswered
  <2>2. told' = told /\ At("connected")
    BY <1>34 DEF FirstAnswered
  <2>3. Told(h, <<"Done">>) = Told(Top, <<"Done">>)
    BY <2>1, ToldSame DEF Fields
  <2> QED BY <2>1, <2>2, <2>3 DEF Tell, Moved, Flags, On, Speaks, Fields
<1>35. ASSUME Return
      PROVE
        \/ At("phase1") /\ Over(<<"Token", "Done">>)
        \/ At("phase2") /\ Over(<<>>)
        \/ At("loop") /\ Answered /\ Top'.blocked = FALSE /\ Top'.followup = FALSE
  <2>1. CASE Top.pc # "loop"
    BY <1>35, <2>1 DEF Known, Typed, Leaves, Over, Finish, At, Return
  <2>2. CASE Top.pc = "loop"
    <3>1. Top' = Early(Top, FALSE, FALSE) /\ frames' # <<>> /\ DOMAIN Top = Fields
      BY <1>35, <2>2, Fielded DEF Return, AnswerEarly
    <3>2. told' = told /\ At("loop")
      BY <1>35, <2>2 DEF Return, At
    <3> QED BY <3>1, <3>2 DEF Early, Moved, Silent, Answered, Fields
  <2> QED BY <2>1, <2>2
<1>36. ASSUME RunFile
      PROVE
        /\ At("file")
        /\ On("file") \/ Saves(<<Printed(Top)>>, "file")
        /\ Speaks(<<"Token">>) \/ Speaks(<<"Error">>)
  BY <1>36, RunFileTop DEF RunFile, Same, At, Known, Typed, Moved, Flags, On, Silent, Speaks,
       Saves
<1>37. ASSUME Correlate
      PROVE
        /\ At("file")
        /\ \/ (On("narrate") \/ On("finish")) /\ Silent
           \/ /\ Saves(<<Printed(Top)>>, "narrate") \/ Saves(<<Printed(Top)>>, "finish")
              /\ Speaks(<<"Token">>)
  BY <1>37, CorrelateTop DEF Correlate, Same, At, Known, Typed, Moved, Flags, On, Silent, Speaks,
       Saves
<1> QED BY <1>1, <1>2, <1>3, <1>4, <1>5, <1>6, <1>7, <1>8, <1>9, <1>10, <1>11, <1>12, <1>13,
        <1>14, <1>15, <1>16, <1>17, <1>18, <1>19, <1>20, <1>21, <1>22, <1>23, <1>24, <1>25,
        <1>26, <1>27, <1>28, <1>29, <1>30, <1>31, <1>32, <1>33, <1>34, <1>35, <1>36, <1>37

\* After a row the turn has the next to save or goes on.
RowDoneAs ==
  \/ /\ On("saving") /\ Top'.then = Top.then /\ Head(Top.todo) = User(Top)
     /\ \/ /\ Top'.todo = <<Printed(Top)>> /\ Top'.then = "early"
           /\ Top.todo = <<User(Top), Printed(Top)>>
        \/ /\ Top'.todo = <<Answer(Top)>> /\ Top'.then = "push"
           /\ Top.todo = <<User(Top), Answer(Top)>>
  \/ On("early") /\ Top.then = "early" /\ Top.todo = <<Printed(Top)>>
  \/ On("file") /\ Top.then = "file" /\ Top.todo \in {<<Printed(Top)>>, <<User(Top)>>}
  \/ On("narrate") /\ Top.then = "narrate" /\ Top.todo = <<Printed(Top)>>
  \/ On("finish") /\ Top.then = "finish" /\ Top.todo \in {<<Printed(Top)>>, <<Answer(Top)>>}
  \/ On("push") /\ Top.then = "push" /\ Top.todo = <<Answer(Top)>>

LEMMA Rows == ASSUME Known, SaveRow \/ LoseRow PROVE At("saving") /\ Silent /\ RowDoneAs
<1>1. /\ Top' = RowDone /\ frames' # <<>> /\ At("saving") /\ told' = told /\ FrameType(Top)
      /\ Top.pc = "saving"
  BY Fielded DEF SaveRow, LoseRow, Known, Typed, At
<1>2. Saving(Top)
  BY <1>1 DEF FrameType
<1>3. /\ Silent /\ Flags /\ Top'.id = Top.id /\ Top'.turn = Top.turn /\ Top'.surface = Top.surface
      /\ Top'.input = Top.input /\ Top'.then = Top.then
  BY <1>1, RowIsDone DEF Silent, Flags
<1>4. ASSUME NEW u, NEW r, Top.todo = <<u, r>>
      PROVE  Head(Top.todo) = u /\ Top'.todo = <<r>> /\ Top'.pc = "saving"
  BY <1>1, <1>4 DEF RowDone, FrameType, Fields
<1>5. ASSUME NEW r, Top.todo = <<r>> PROVE Top'.pc = Top.then
  BY <1>1, <1>5 DEF RowDone, FrameType, Fields
<1>6. CASE Top.todo = <<User(Top), Printed(Top)>> /\ Top.then = "early"
  BY <1>1, <1>3, <1>4, <1>6 DEF RowDoneAs, On, Moved
<1>7. CASE Top.todo = <<Printed(Top)>> /\ Top.then \in {"early", "file", "narrate", "finish"}
  BY <1>1, <1>3, <1>5, <1>7 DEF RowDoneAs, On, Moved
<1>8. CASE Top.todo = <<User(Top), Answer(Top)>> /\ Top.then = "push"
  BY <1>1, <1>3, <1>4, <1>8 DEF RowDoneAs, On, Moved
<1>9. CASE Top.todo = <<Answer(Top)>> /\ Top.then \in {"push", "finish"}
  BY <1>1, <1>3, <1>5, <1>9 DEF RowDoneAs, On, Moved
<1>10. CASE Top.todo = <<User(Top)>> /\ Top.then = "file"
  BY <1>1, <1>3, <1>5, <1>10 DEF RowDoneAs, On, Moved
<1> QED BY <1>1, <1>2, <1>3, <1>6, <1>7, <1>8, <1>9, <1>10 DEF Saving

LEMMA StepStack == ASSUME StackInv, lastId \in Nat, Next PROVE StackInv'
<1>1. CASE (\E g : Goes(g)) \/ Leaves
  BY <1>1, GoesStack
<1>2. CASE Begin \/ DropFiles \/ Message
  BY <1>2, Starts
<1>3. CASE Configure
  BY <1>3 DEF Configure, StackInv, Current
<1>4. CASE Kill
  <2>1. frames' = <<>> /\ UNCHANGED <<begun, over>> /\ Len(frames') = 0
    BY <1>4 DEF Kill
  <2>2. frames' \in Seq(Range(frames'))
    BY <2>1, EmptySeq
  <2> QED BY <2>1, <2>2 DEF StackInv
<1> QED BY <1>1, <1>2, <1>3, <1>4, Moves

LEMMA SameStack == ASSUME StackInv, UNCHANGED vars PROVE StackInv'
<1> QED BY DEF StackInv, Current, vars

-----------------------------------------------------------------------------
(* The user's settings.                                                    *)

SettingsInv ==
  IF At("narrating") THEN Top.prior = wanted ELSE thinking = wanted /\ capped = FALSE

\* What a step does to them: nothing, what the user says, the narration's
\* are taken, or the user's are put back.
SettingsMove ==
  LET Away == Leaves \/ (frames' # <<>> /\ Top'.pc # "narrating")
  IN  \/ UNCHANGED <<thinking, capped, wanted>> /\ Top.pc # "narrating" /\ Away
      \/ wanted' = thinking' /\ capped' = capped /\ Top.pc # "narrating" /\ Away
      \/ /\ wanted' = wanted /\ Top.pc # "narrating"
         /\ frames' # <<>> /\ Top'.pc = "narrating" /\ Top'.prior = thinking
      \/ /\ wanted' = wanted /\ thinking' = Top.prior /\ capped' = FALSE
         /\ Top.pc = "narrating" /\ Away

LEMMA SettingsMoves ==
  ASSUME Known, lastId \in Nat, Step \/ Connected \/ Return
  PROVE  SettingsMove
<1> USE DEF At, Moved, Flags, On, Silent, Speaks, Over, Answered, Prints, Saves, Keeps,
            SettingsMove, settings, Known, Typed
<1>1. CASE Enter
  BY <1>1, Edges DEF Enter
<1>2. CASE LogTeleport
  BY <1>2, Edges DEF LogTeleport
<1>3. CASE RefuseInput
  BY <1>3, Edges DEF RefuseInput
<1>4. CASE Info
  BY <1>4, Edges DEF Info
<1>5. CASE Clear
  BY <1>5, Edges DEF Clear
<1>6. CASE Think
  BY <1>6, Edges DEF Think
<1>7. CASE SetLevel
  BY <1>7, Edges DEF SetLevel
<1>8. CASE Tool
  BY <1>8, Edges DEF Tool
<1>9. CASE Rune
  BY <1>9, Edges DEF Rune
<1>10. CASE RouteTeleport
  BY <1>10, Edges DEF RouteTeleport
<1>11. CASE Question
  BY <1>11, Edges DEF Question
<1>12. CASE EarlyReply
  BY <1>12, Edges DEF EarlyReply
<1>13. CASE Ready
  BY <1>13, Edges DEF Ready
<1>14. CASE EngineAnswers
  BY <1>14, Edges DEF EngineAnswers
<1>15. CASE EngineFails
  BY <1>15, Edges DEF EngineFails
<1>16. CASE CloudAnswers
  BY <1>16, Edges DEF CloudAnswers
<1>17. CASE CloudFails
  BY <1>17, Edges DEF CloudFails
<1>18. CASE Extract
  BY <1>18, Edges DEF Extract
<1>19. CASE NoCall
  BY <1>19, Edges DEF NoCall
<1>20. CASE SecondLocal
  BY <1>20, Edges DEF SecondLocal
<1>21. CASE SecondCloud
  BY <1>21, Edges DEF SecondCloud
<1>22. CASE Push
  BY <1>22, Edges DEF Push
<1>23. CASE NarrateLocal
  BY <1>23, Edges DEF NarrateLocal
<1>24. CASE NarratedLocal
  BY <1>24, Edges DEF NarratedLocal
<1>25. CASE NarrateCloud
  BY <1>25, Edges DEF NarrateCloud
<1>26. CASE NoNarration
  BY <1>26, Edges DEF NoNarration
<1>27. CASE Narrated
  BY <1>27, Edges DEF Narrated
<1>28. CASE FinishTurn
  BY <1>28, Edges DEF FinishTurn
<1>29. CASE Analyze
  BY <1>29, Edges DEF Analyze
<1>30. CASE NothingRan
  BY <1>30, Edges DEF NothingRan
<1>31. CASE NoBridge
  BY <1>31, Edges DEF NoBridge
<1>32. CASE StartBridge
  BY <1>32, Edges DEF StartBridge
<1>33. CASE Connected
  BY <1>33, Edges DEF Connected
<1>34. CASE FirstAnswered
  BY <1>34, Edges DEF FirstAnswered
<1>35. CASE Return
  BY <1>35, Edges DEF Return
<1>36. CASE RunFile
  BY <1>36, Edges DEF RunFile
<1>37. CASE Correlate
  BY <1>37, Edges DEF Correlate
<1>38. CASE SaveRow \/ LoseRow
  BY <1>38, Rows DEF SaveRow, LoseRow, RowDoneAs
<1> QED BY <1>1, <1>2, <1>3, <1>4, <1>5, <1>6, <1>7, <1>8, <1>9, <1>10, <1>11, <1>12, <1>13,
          <1>14, <1>15, <1>16, <1>17, <1>18, <1>19, <1>20, <1>21, <1>22, <1>23, <1>24, <1>25,
          <1>26, <1>27, <1>28, <1>29, <1>30, <1>31, <1>32, <1>33, <1>34, <1>35, <1>36, <1>37,
          <1>38 DEF Step

LEMMA InitSettings == Init => SettingsInv
<1> QED BY DEF Init, SettingsInv, At

LEMMA StepSettings ==
  ASSUME StackInv, lastId \in Nat, SettingsInv, Next
  PROVE  SettingsInv'
<1>1. CASE Typed /\ (Step \/ Connected \/ Return) /\ ((\E g : Goes(g)) \/ Leaves)
  <2>1. SettingsMove
    BY <1>1, TopSteps, SettingsMoves
  <2>2. ASSUME Leaves PROVE frames' = <<>> \/ Top'.pc # "narrating"
    BY <2>2, Under DEF Bridge
  <2>3. frames # <<>>
    BY <1>1 DEF Typed
  <2> QED BY <2>1, <2>2, <2>3 DEF SettingsMove, SettingsInv, At
<1>2. CASE (Begin \/ DropFiles \/ Message) /\ \E g : Started(g)
  <2>1. Top'.pc # "narrating"
    BY <1>2 DEF Started
  <2>2. ~At("narrating") /\ UNCHANGED settings
    BY <1>2 DEF Begin, DropFiles, Message, At
  <2> QED BY <2>1, <2>2 DEF SettingsInv, At, settings
<1>3. CASE Configure
  BY <1>3 DEF Configure, SettingsInv, At, settings
<1>4. CASE Kill
  BY <1>4 DEF Kill, SettingsInv, At
<1> QED BY <1>1, <1>2, <1>3, <1>4, Moves

-----------------------------------------------------------------------------
(* What the client is told.                                                *)

\* Events before the end, with the end, and a turn's last word.
Unended(s)  == s \in Seq({"Token", "Error"})
Ended(s)    == \E o : Unended(o) /\ s = o \o <<"Done">>
LastWord(s) == s = <<"Reply">> \/ Ended(s)

Openers == {<<>>, <<"Token">>, <<"Error">>, <<"Token", "Error">>}
Closers == {<<"Done">>, <<"Token", "Done">>, <<"Error", "Done">>, <<"Token", "Error", "Done">>}

\* A streamed turn has said Done only while it waits for the end of a bridge
\* that is connected.
SaidRight(f) ==
  /\ f.pc \in {"phase1", "phase2", "connected"} => f.surface = "stream"
  /\ IF f.pc = "phase2" THEN Ended(f.said) ELSE Unended(f.said)

SaidInv ==
  /\ LastWord(told)
  /\ \A i \in 1 .. Len(frames) : SaidRight(frames[i])

LEMMA UnendedMore == ASSUME NEW s, NEW t, Unended(s), Unended(t) PROVE Unended(s \o t)
<1> QED BY ConcatProperties DEF Unended

LEMMA Opening == ASSUME NEW e \in Openers PROVE Unended(e) /\ (e # <<>> => Unended(Tail(e)))
<1> USE DEF Unended
<1>1. CASE e = <<>>
  BY <1>1
<1>2. CASE e = <<"Token">>
  BY <1>2
<1>3. CASE e = <<"Error">>
  BY <1>3
<1>4. CASE e = <<"Token", "Error">>
  <2>1. Tail(e) = <<"Error">>
    BY <1>4
  <2> QED BY <1>4, <2>1
<1> QED BY <1>1, <1>2, <1>3, <1>4 DEF Openers

LEMMA ToldUnended == ASSUME NEW f, Unended(f.said), NEW e \in Openers PROVE Unended(Told(f, e))
<1> QED BY Opening, UnendedMore DEF Told, Repeats

LEMMA ToldEnded ==
  ASSUME NEW f, Unended(f.said), IsStream, NEW e \in Closers
  PROVE  Ended(Told(f, e))
<1> DEFINE s == f.said
<1> HIDE DEF s
<1>0. Unended(s)
  BY DEF s
<1>1. ASSUME NEW o \in Openers PROVE Ended(s \o (o \o <<"Done">>))
  <2>1. Unended(o) /\ Unended(s \o o)
    BY <1>0, <1>1, Opening, UnendedMore
  <2>2. s \o (o \o <<"Done">>) = (s \o o) \o <<"Done">>
    <3> DEFINE S == {"Token", "Error", "Done"}
    <3>1. s \in Seq(S) /\ o \in Seq(S) /\ <<"Done">> \in Seq(S)
      BY <1>0, <2>1, SeqMonotonic DEF Unended
    <3> HIDE DEF S
    <3> QED BY <3>1, ConcatAssociative
  <2> QED BY <2>1, <2>2 DEF Ended
<1>2. Told(f, e) = s \o e \/ (Told(f, e) = s \o Tail(e) /\ Head(e) = "Token")
  BY DEF Told, Repeats, s
<1>3. /\ <<>> \in Openers /\ <<"Token">> \in Openers /\ <<"Error">> \in Openers
      /\ <<"Token", "Error">> \in Openers
  BY DEF Openers
<1>4. CASE e = <<"Done">>
  <2>1. Head(e) = "Done" /\ e = <<>> \o <<"Done">>
    BY <1>4
  <2> QED BY <1>1, <1>2, <1>3, <2>1
<1>5. CASE e = <<"Token", "Done">>
  <2>1. e = <<"Token">> \o <<"Done">> /\ Tail(e) = <<>> \o <<"Done">>
    BY <1>5
  <2> QED BY <1>1, <1>2, <1>3, <2>1
<1>6. CASE e = <<"Error", "Done">>
  <2>1. Head(e) = "Error" /\ e = <<"Error">> \o <<"Done">>
    BY <1>6
  <2> QED BY <1>1, <1>2, <1>3, <2>1
<1>7. CASE e = <<"Token", "Error", "Done">>
  <2>1. e = <<"Token", "Error">> \o <<"Done">> /\ Tail(e) = <<"Error">> \o <<"Done">>
    BY <1>7
  <2> QED BY <1>1, <1>2, <1>3, <2>1
<1> QED BY <1>4, <1>5, <1>6, <1>7 DEF Closers

\* What is said in one step.
SaidOn == {Top.said} \cup {Told(Top, e) : e \in Openers}
SaidLast == {Told(Top, e) : e \in Closers}

SaidMove ==
  \/ /\ told' = told /\ frames' # <<>> /\ Top.pc # "phase2" /\ Top'.pc # "phase2"
     /\ Top'.surface = Top.surface
     /\ Top'.pc \in {"phase1", "connected"} => Top.surface = "stream"
     /\ Top'.said \in SaidOn
  \/ /\ told' = told /\ frames' # <<>> /\ Top.pc \in {"phase1", "connected"} /\ Top'.pc = "phase2"
     /\ Top'.surface = Top.surface
     /\ Top'.said \in SaidLast
  \/ told' = <<"Reply">> /\ Leaves
  \/ Leaves /\ IsStream /\ Top.pc = "phase2" /\ told' = Told(Top, <<>>)
  \/ Leaves /\ IsStream /\ Top.pc # "phase2" /\ told' \in SaidLast

\* All that is said is one of these.
LEMMA Sayings ==
  /\ Top.said \in SaidOn /\ \A e \in Openers : Told(Top, e) \in SaidOn
  /\ \A e \in Closers : Told(Top, e) \in SaidLast
  /\ <<>> \in Openers /\ <<"Token">> \in Openers /\ <<"Error">> \in Openers
  /\ <<"Token", "Error">> \in Openers
  /\ <<"Done">> \in Closers /\ <<"Token", "Done">> \in Closers /\ <<"Error", "Done">> \in Closers
  /\ <<"Token", "Error", "Done">> \in Closers
<1> QED BY DEF SaidOn, SaidLast, Openers, Closers

LEMMA SaidMoves ==
  ASSUME Known, lastId \in Nat, Step \/ Connected \/ Return
  PROVE  SaidMove
<1> USE DEF At, Moved, Flags, On, Silent, Speaks, Over, Answered, Prints, Saves, Keeps, SaidMove,
            IsStream, Known, Typed
<1>1. CASE Enter
  BY <1>1, Edges, Sayings DEF Enter
<1>2. CASE LogTeleport
  BY <1>2, Edges, Sayings DEF LogTeleport
<1>3. CASE RefuseInput
  BY <1>3, Edges, Sayings DEF RefuseInput
<1>4. CASE Info
  BY <1>4, Edges, Sayings DEF Info
<1>5. CASE Clear
  BY <1>5, Edges, Sayings DEF Clear
<1>6. CASE Think
  BY <1>6, Edges, Sayings DEF Think
<1>7. CASE SetLevel
  BY <1>7, Edges, Sayings DEF SetLevel
<1>8. CASE Tool
  BY <1>8, Edges, Sayings DEF Tool
<1>9. CASE Rune
  BY <1>9, Edges, Sayings DEF Rune
<1>10. CASE RouteTeleport
  BY <1>10, Edges, Sayings DEF RouteTeleport
<1>11. CASE Question
  BY <1>11, Edges, Sayings DEF Question
<1>12. CASE EarlyReply
  BY <1>12, Edges, Sayings DEF EarlyReply
<1>13. CASE Ready
  BY <1>13, Edges, Sayings DEF Ready
<1>14. CASE EngineAnswers
  BY <1>14, Edges, Sayings DEF EngineAnswers
<1>15. CASE EngineFails
  BY <1>15, Edges, Sayings DEF EngineFails
<1>16. CASE CloudAnswers
  BY <1>16, Edges, Sayings DEF CloudAnswers
<1>17. CASE CloudFails
  BY <1>17, Edges, Sayings DEF CloudFails
<1>18. CASE Extract
  BY <1>18, Edges, Sayings DEF Extract
<1>19. CASE NoCall
  BY <1>19, Edges, Sayings DEF NoCall
<1>20. CASE SecondLocal
  BY <1>20, Edges, Sayings DEF SecondLocal
<1>21. CASE SecondCloud
  BY <1>21, Edges, Sayings DEF SecondCloud
<1>22. CASE Push
  BY <1>22, Edges, Sayings DEF Push
<1>23. CASE NarrateLocal
  BY <1>23, Edges, Sayings DEF NarrateLocal
<1>24. CASE NarratedLocal
  BY <1>24, Edges, Sayings DEF NarratedLocal
<1>25. CASE NarrateCloud
  BY <1>25, Edges, Sayings DEF NarrateCloud
<1>26. CASE NoNarration
  BY <1>26, Edges, Sayings DEF NoNarration
<1>27. CASE Narrated
  BY <1>27, Edges, Sayings DEF Narrated
<1>28. CASE FinishTurn
  BY <1>28, Edges, Sayings DEF FinishTurn
<1>29. CASE Analyze
  BY <1>29, Edges, Sayings DEF Analyze
<1>30. CASE NothingRan
  BY <1>30, Edges, Sayings DEF NothingRan
<1>31. CASE NoBridge
  BY <1>31, Edges, Sayings DEF NoBridge
<1>32. CASE StartBridge
  BY <1>32, Edges, Sayings DEF StartBridge
<1>33. CASE Connected
  BY <1>33, Edges, Sayings DEF Connected
<1>34. CASE FirstAnswered
  BY <1>34, Edges, Sayings DEF FirstAnswered
<1>35. CASE Return
  <2>1. \/ At("phase1") /\ Over(<<"Token", "Done">>)
        \/ At("phase2") /\ Over(<<>>)
        \/ At("loop") /\ Answered
    BY <1>35, Edges
  <2>2. CASE At("phase1") /\ Over(<<"Token", "Done">>)
    BY <2>2, Sayings
  <2>3. CASE At("phase2") /\ Over(<<>>)
    BY <2>3, Sayings
  <2>4. CASE At("loop") /\ Answered
    BY <2>4, Sayings
  <2> QED BY <2>1, <2>2, <2>3, <2>4
<1>36. CASE RunFile
  BY <1>36, Edges, Sayings DEF RunFile
<1>37. CASE Correlate
  BY <1>37, Edges, Sayings DEF Correlate
<1>38. CASE SaveRow \/ LoseRow
  BY <1>38, Rows, Sayings DEF RowDoneAs
<1> QED BY <1>1, <1>2, <1>3, <1>4, <1>5, <1>6, <1>7, <1>8, <1>9, <1>10, <1>11, <1>12, <1>13,
          <1>14, <1>15, <1>16, <1>17, <1>18, <1>19, <1>20, <1>21, <1>22, <1>23, <1>24, <1>25,
          <1>26, <1>27, <1>28, <1>29, <1>30, <1>31, <1>32, <1>33, <1>34, <1>35, <1>36, <1>37,
          <1>38 DEF Step

LEMMA InitSaid == Init => SaidInv
<1> SUFFICES ASSUME Init PROVE SaidInv
  OBVIOUS
<1>1. frames = <<>> /\ Len(frames) = 0 /\ told = <<"Reply">>
  BY DEF Init
<1> QED BY <1>1 DEF SaidInv, LastWord

LEMMA StepSaid ==
  ASSUME StackInv, lastId \in Nat, SaidInv, Next
  PROVE  SaidInv'
<1> DEFINE n == Len(frames)
<1>0. n \in Nat
  BY DEF StackInv
<1>1. CASE Typed /\ (Step \/ Connected \/ Return) /\ ((\E g : Goes(g)) \/ Leaves)
  <2>1. SaidMove /\ frames # <<>>
    BY <1>1, TopSteps, SaidMoves DEF Typed
  <2>2. n \in 1 .. n /\ Top = frames[n] /\ FrameType(Top)
    BY <2>1, TopKnown
  <2>3. SaidRight(Top)
    BY <2>2 DEF SaidInv
  <2>4. ASSUME Leaves, LastWord(told') PROVE SaidInv'
    <3>1. \A i \in 1 .. Len(frames') : frames'[i] = frames[i] /\ i \in 1 .. n
      BY <2>4, Under
    <3> QED BY <2>4, <3>1 DEF SaidInv
  <2>5. ASSUME NEW g, Goes(g), SaidRight(g), told' = told PROVE SaidInv'
    <3>1. Len(frames') = n /\ frames'[n] = g /\ \A i \in 1 .. n - 1 : frames'[i] = frames[i]
      BY <2>5, Becomes DEF Goes
    <3>2. \A i \in 1 .. n : i = n \/ i \in 1 .. n - 1
      BY <1>0
    <3> QED BY <2>5, <3>1, <3>2 DEF SaidInv
  <2>6. ASSUME frames' # <<>>, SaidRight(Top'), told' = told, ~Leaves PROVE SaidInv'
    <3>1. PICK g : Goes(g)
      BY <1>1, <2>6
    <3>2. Top' = g
      BY <3>1, Becomes DEF Goes
    <3> QED BY <2>5, <2>6, <3>1, <3>2
  <2>7. CASE told' = <<"Reply">> /\ Leaves
    BY <2>4, <2>7 DEF LastWord
  <2>8. CASE Leaves /\ told' = told
    BY <2>4, <2>8 DEF SaidInv
  <2>9. CASE Leaves /\ IsStream /\ Top.pc = "phase2" /\ told' = Told(Top, <<>>)
    <3>1. PICK o : Unended(o) /\ Top.said = o \o <<"Done">>
      BY <2>3, <2>9 DEF SaidRight, Ended
    <3>2. Top.said \in Seq({"Token", "Error", "Done"})
      <4>1. o \in Seq({"Token", "Error", "Done"}) /\ <<"Done">> \in Seq({"Token", "Error", "Done"})
        BY <3>1, SeqMonotonic DEF Unended
      <4> QED BY <3>1, <4>1, ConcatProperties
    <3>3. told' = Top.said
      BY <2>9, <3>2, ConcatEmptySeq DEF Told, Repeats
    <3> QED BY <2>4, <2>9, <3>1, <3>3 DEF LastWord, Ended
  <2>10. CASE Leaves /\ IsStream /\ Top.pc # "phase2" /\ told' \in SaidLast
    BY <2>3, <2>4, <2>10, ToldEnded DEF SaidRight, SaidLast, LastWord
  <2>11. CASE /\ ~Leaves
              /\ told' = told /\ frames' # <<>> /\ Top.pc # "phase2" /\ Top'.pc # "phase2"
              /\ Top'.surface = Top.surface
              /\ Top'.pc \in {"phase1", "connected"} => Top.surface = "stream"
              /\ Top'.said \in SaidOn
    <3>1. Unended(Top'.said)
      BY <2>3, <2>11, ToldUnended DEF SaidRight, SaidOn
    <3> QED BY <2>6, <2>11, <3>1 DEF SaidRight
  <2>12. CASE /\ ~Leaves
              /\ told' = told /\ frames' # <<>> /\ Top.pc \in {"phase1", "connected"}
              /\ Top'.pc = "phase2" /\ Top'.surface = Top.surface
              /\ Top'.said \in SaidLast
    <3>1. IsStream /\ Unended(Top.said)
      BY <2>3, <2>12 DEF SaidRight, IsStream
    <3>2. Ended(Top'.said)
      BY <2>12, <3>1, ToldEnded DEF SaidLast
    <3>3. Top'.surface = "stream"
      BY <2>12, <3>1 DEF IsStream
    <3> QED BY <2>6, <2>12, <3>2, <3>3 DEF SaidRight
  <2> QED BY <2>1, <2>7, <2>8, <2>9, <2>10, <2>11, <2>12 DEF SaidMove
<1>2. CASE (Begin \/ DropFiles \/ Message) /\ \E g : Started(g)
  <2>1. PICK g : Started(g)
    BY <1>2
  <2>2. told' = told
    BY <1>2 DEF Begin, DropFiles, Message
  <2>3. \A i \in 1 .. n + 1 : i = n + 1 \/ i \in 1 .. n
    BY <1>0
  <2>4. SaidRight(frames'[n + 1])
    <3>1. frames'[n + 1] = g /\ g.said = <<>> /\ g.pc \in {"begin", "analyze"}
      BY <2>1 DEF Started
    <3>2. Unended(<<>>)
      BY DEF Unended
    <3> QED BY <3>1, <3>2 DEF SaidRight
  <2>5. ASSUME NEW i \in 1 .. n PROVE SaidRight(frames'[i])
    <3>1. CASE frames'[i] = frames[i]
      BY <3>1 DEF SaidInv
    <3>2. CASE /\ frames[i].pc = "phase1" /\ i = n
               /\ frames'[i] = Tell([Top EXCEPT !.pc = "connected"], <<"Token">>)
      <4> DEFINE h == [Top EXCEPT !.pc = "connected"]
      <4>1. frames # <<>>
        BY <2>5, <1>0
      <4>2. Top = frames[n] /\ FrameType(Top) /\ SaidRight(Top)
        BY <4>1, TopKnown DEF SaidInv
      <4>3. /\ h.said = Top.said /\ h.pc = "connected" /\ h.surface = Top.surface
            /\ DOMAIN h = Fields
        BY <4>2 DEF FrameType, Fields
      <4> HIDE DEF h
      <4>4. Unended(h.said) /\ h.surface = "stream" /\ <<"Token">> \in Openers
        BY <3>2, <4>2, <4>3 DEF SaidRight, Openers
      <4>5. Unended(Told(h, <<"Token">>))
        BY <4>4, ToldUnended
      <4>6. /\ frames'[i].pc = "connected" /\ frames'[i].surface = "stream"
            /\ frames'[i].said = Told(h, <<"Token">>)
        BY <3>2, <4>3, <4>4 DEF Tell, Fields, h
      <4> QED BY <4>5, <4>6 DEF SaidRight
    <3> QED BY <2>1, <3>1, <3>2 DEF Started
  <2> QED BY <2>1, <2>2, <2>3, <2>4, <2>5 DEF SaidInv, Started
<1>3. CASE Configure
  BY <1>3 DEF Configure, SaidInv
<1>4. CASE Kill
  <2>1. frames' = <<>> /\ told' = told /\ Len(frames') = 0
    BY <1>4 DEF Kill
  <2> QED BY <2>1 DEF SaidInv
<1> QED BY <1>1, <1>2, <1>3, <1>4, Moves

\* Done is the last of what has been said, or is not there.
LEMMA EndedOnce ==
  ASSUME NEW s, Ended(s)
  PROVE  /\ Len(s) \in Nat \ {0} /\ DOMAIN s = 1 .. Len(s)
         /\ \A i \in 1 .. Len(s) : (s[i] = "Done" <=> i = Len(s)) /\ s[i] # "Reply"
<1>1. PICK o : Unended(o) /\ s = o \o <<"Done">>
  BY DEF Ended
<1> DEFINE S == {"Token", "Error", "Done"}
           n == Len(o)
<1>2. o \in Seq(S) /\ <<"Done">> \in Seq(S) /\ n \in Nat
  BY <1>1, SeqMonotonic, LenProperties DEF Unended
<1>3. \A i \in 1 .. n : o[i] \in {"Token", "Error"}
  BY <1>1, ElementOfSeq DEF Unended
<1> HIDE DEF S
<1>4. s \in Seq(S) /\ Len(s) = n + 1
      /\ \A i \in 1 .. n + 1 : s[i] = IF i <= n THEN o[i] ELSE <<"Done">>[i - n]
  <2>1. Len(<<"Done">>) = 1
    OBVIOUS
  <2> QED BY <1>1, <1>2, <2>1, ConcatProperties
<1>5. \A i \in 1 .. n + 1 : \/ i <= n /\ i \in 1 .. n /\ i # n + 1
                            \/ ~(i <= n) /\ i = n + 1 /\ i - n = 1
  BY <1>2
<1>6. <<"Done">>[1] = "Done"
  OBVIOUS
<1>7. \A i \in 1 .. n + 1 : (s[i] = "Done" <=> i = n + 1) /\ s[i] # "Reply"
  BY <1>3, <1>4, <1>5, <1>6
<1> QED BY <1>2, <1>4, <1>7, LenProperties

LEMMA SaidOnce == ASSUME StackInv, SaidInv PROVE OneReply
<1>1. {i \in DOMAIN told : told[i] \in {"Done", "Reply"}} = {Len(told)}
  <2>1. CASE told = <<"Reply">>
    BY <2>1
  <2>2. CASE Ended(told)
    BY <2>2, EndedOnce
  <2> QED BY <2>1, <2>2 DEF SaidInv, LastWord
<1>2. ASSUME NEW f \in Range(frames), NEW i \in DOMAIN f.said, f.said[i] = "Done"
      PROVE  i = Len(f.said)
  <2>1. PICK k \in 1 .. Len(frames) : f = frames[k]
    BY <1>2, LenProperties DEF Range, StackInv
  <2>2. CASE Ended(f.said)
    BY <1>2, <2>2, EndedOnce
  <2>3. CASE Unended(f.said)
    <3>1. i \in 1 .. Len(f.said)
      BY <1>2, <2>3, LenProperties DEF Unended
    <3>2. f.said[i] \in {"Token", "Error"}
      BY <2>3, <3>1, ElementOfSeq DEF Unended
    <3> QED BY <1>2, <3>2
  <2> QED BY <2>1, <2>2, <2>3 DEF SaidInv, SaidRight
<1> QED BY <1>1, <1>2 DEF OneReply

-----------------------------------------------------------------------------
(* The session.                                                            *)

\* Places of a turn that has no message in the session, and of one whose
\* question is the last there.
Unspoken(f) ==
  \/ f.pc \in {"begin", "route", "ready", "analyze", "file"} \cup Narration
  \/ f.pc = "early" /\ f.followup
  \/ f.pc = "saving" /\ (f.then \in {"file", "narrate"} \/ (f.then = "early" /\ f.followup))
Chatting(f) == f.pc \in Chat \/ (f.pc = "saving" /\ f.then = "push")

Asks(t)    == [role |-> "user", turn |-> t]
Replies(t) == [role |-> "assistant", turn |-> t]

Earlier(m, t) == \A i \in 1 .. Len(m) : m[i].turn < t
Asked(m, t) ==
  /\ Len(m) > 0 /\ m[Len(m)] = Asks(t)
  /\ \A i \in 1 .. Len(m) : i < Len(m) => m[i].turn < t

\* What HistoryTold says, of any messages, no later than b.
Tells(m, b) ==
  /\ m \in Seq([role : {"user", "assistant"}, turn : Nat])
  /\ \A i \in 1 .. Len(m) : m[i].turn <= b
  /\ \A i \in 1 .. Len(m) : m[i].role = "assistant" => i > 1 /\ m[i - 1] = Asks(m[i].turn)
  /\ \A i, j \in 1 .. Len(m) : i < j => m[i].turn <= m[j].turn /\ m[i] # m[j]

HistoryInv ==
  /\ Tells(messages, begun)
  /\ frames # <<>> =>
       /\ Unspoken(Top) => Earlier(messages, Top.turn)
       /\ Chatting(Top) => Asked(messages, Top.turn)

\* One message more.
LEMMA OneMore ==
  ASSUME NEW b \in Nat, NEW m, Tells(m, b), NEW e \in [role : {"user", "assistant"}, turn : Nat]
  PROVE  /\ Append(m, e) \in Seq([role : {"user", "assistant"}, turn : Nat])
         /\ Len(m) \in Nat /\ Len(Append(m, e)) = Len(m) + 1 /\ Append(m, e)[Len(m) + 1] = e
         /\ \A i \in 1 .. Len(m) : Append(m, e)[i] = m[i] /\ m[i].turn \in Nat /\ i < Len(m) + 1
         /\ \A i \in 1 .. Len(m) + 1 : i = Len(m) + 1 \/ (i \in 1 .. Len(m) /\ i < Len(m) + 1)
<1> DEFINE M == [role : {"user", "assistant"}, turn : Nat]
           n == Len(m)
<1>1. m \in Seq(M) /\ n \in Nat
  BY LenProperties DEF Tells
<1>2. \A i \in 1 .. n : m[i] \in M
  BY <1>1, ElementOfSeq
<1>3. \A i \in 1 .. n : m[i].turn \in Nat
  BY <1>2
<1> HIDE DEF M
<1>4. /\ Append(m, e) \in Seq(M) /\ Len(Append(m, e)) = n + 1 /\ Append(m, e)[n + 1] = e
      /\ \A i \in 1 .. n : Append(m, e)[i] = m[i]
  BY <1>1, AppendProperties DEF M
<1>5. \A i \in 1 .. n : i < n + 1
  BY <1>1
<1>6. \A i \in 1 .. n + 1 : i = n + 1 \/ (i \in 1 .. n /\ i < n + 1)
  BY <1>1
<1> QED BY <1>1, <1>3, <1>4, <1>5, <1>6 DEF M

LEMMA AddQuestion ==
  ASSUME NEW b \in Nat, NEW t \in Nat, t <= b, NEW m, Tells(m, b), Earlier(m, t)
  PROVE  Tells(Append(m, Asks(t)), b) /\ Asked(Append(m, Asks(t)), t)
<1> DEFINE e == Asks(t)
           h == Append(m, e)
           n == Len(m)
<1>1. e \in [role : {"user", "assistant"}, turn : Nat] /\ e.turn = t /\ e.role = "user"
  BY DEF Asks
<1> HIDE DEF e
<1>2. /\ h \in Seq([role : {"user", "assistant"}, turn : Nat])
      /\ n \in Nat /\ Len(h) = n + 1 /\ h[n + 1] = e
      /\ \A i \in 1 .. n : h[i] = m[i] /\ m[i].turn \in Nat /\ i < n + 1
      /\ \A i \in 1 .. n + 1 : i = n + 1 \/ (i \in 1 .. n /\ i < n + 1)
  BY <1>1, OneMore
<1> HIDE DEF h
<1>3. \A i \in 1 .. n : h[i].turn < t /\ h[i].turn \in Nat
  BY <1>2 DEF Earlier
<1>4. \A i \in 1 .. n + 1 : h[i].turn <= b
  BY <1>1, <1>2 DEF Tells
<1>5. ASSUME NEW i \in 1 .. n + 1, h[i].role = "assistant" PROVE i > 1 /\ h[i - 1] = Asks(h[i].turn)
  <2>1. i \in 1 .. n
    BY <1>1, <1>2, <1>5
  <2>2. i > 1 /\ m[i - 1] = Asks(m[i].turn)
    BY <1>2, <1>5, <2>1 DEF Tells
  <2>3. i - 1 \in 1 .. n
    BY <1>2, <2>1, <2>2
  <2> QED BY <1>2, <2>1, <2>2, <2>3
<1>6. ASSUME NEW i \in 1 .. n + 1, NEW j \in 1 .. n + 1, i < j
      PROVE  h[i].turn <= h[j].turn /\ h[i] # h[j]
  <2>1. i \in 1 .. n
    BY <1>2, <1>6
  <2>2. CASE j = n + 1
    BY <1>1, <1>2, <1>3, <2>1, <2>2
  <2>3. CASE j \in 1 .. n
    BY <1>2, <1>6, <2>1, <2>3 DEF Tells
  <2> QED BY <1>2, <2>2, <2>3
<1>7. Asked(h, t)
  <2>1. \A i \in 1 .. n + 1 : i < n + 1 => h[i].turn < t
    BY <1>2, <1>3
  <2> QED BY <1>2, <2>1 DEF Asked, e
<1> QED BY <1>2, <1>4, <1>5, <1>6, <1>7 DEF Tells, h, e

LEMMA AddAnswer ==
  ASSUME NEW b \in Nat, NEW t \in Nat, t <= b, NEW m, Tells(m, b), Asked(m, t)
  PROVE  Tells(Append(m, Replies(t)), b)
<1> DEFINE e == Replies(t)
           h == Append(m, e)
           n == Len(m)
<1>1. /\ e \in [role : {"user", "assistant"}, turn : Nat] /\ e.turn = t /\ e.role = "assistant"
      /\ Asks(t).role = "user" /\ Asks(t).turn = t
  BY DEF Replies, Asks
<1> HIDE DEF e
<1>2. /\ h \in Seq([role : {"user", "assistant"}, turn : Nat])
      /\ n \in Nat /\ Len(h) = n + 1 /\ h[n + 1] = e
      /\ \A i \in 1 .. n : h[i] = m[i] /\ m[i].turn \in Nat /\ i < n + 1
      /\ \A i \in 1 .. n + 1 : i = n + 1 \/ (i \in 1 .. n /\ i < n + 1)
  BY <1>1, OneMore
<1> HIDE DEF h
<1>3. /\ n > 0 /\ m[n] = Asks(t) /\ n \in 1 .. n /\ (n + 1) - 1 = n /\ n + 1 > 1
      /\ \A i \in 1 .. n : i < n => m[i].turn < t
  BY <1>2 DEF Asked
<1>4. \A i \in 1 .. n : i = n \/ i < n
  BY <1>2
<1>5. \A i \in 1 .. n + 1 : h[i].turn <= b
  BY <1>1, <1>2 DEF Tells
<1>6. ASSUME NEW i \in 1 .. n + 1, h[i].role = "assistant" PROVE i > 1 /\ h[i - 1] = Asks(h[i].turn)
  <2>1. CASE i = n + 1
    BY <1>1, <1>2, <1>3, <2>1
  <2>2. CASE i \in 1 .. n
    <3>1. i > 1 /\ m[i - 1] = Asks(m[i].turn)
      BY <1>2, <1>6, <2>2 DEF Tells
    <3>2. i - 1 \in 1 .. n
      BY <1>2, <2>2, <3>1
    <3> QED BY <1>2, <2>2, <3>1, <3>2
  <2> QED BY <1>2, <2>1, <2>2
<1>7. ASSUME NEW i \in 1 .. n + 1, NEW j \in 1 .. n + 1, i < j
      PROVE  h[i].turn <= h[j].turn /\ h[i] # h[j]
  <2>1. i \in 1 .. n
    BY <1>2, <1>7
  <2>2. CASE j = n + 1
    <3>1. CASE i = n
      BY <1>1, <1>2, <1>3, <2>1, <2>2, <3>1
    <3>2. CASE i < n
      <4>1. m[i].turn < t /\ m[i].turn \in Nat
        BY <1>2, <1>3, <2>1, <3>2
      <4> QED BY <1>1, <1>2, <2>1, <2>2, <4>1
    <3> QED BY <1>4, <2>1, <3>1, <3>2
  <2>3. CASE j \in 1 .. n
    BY <1>2, <1>7, <2>1, <2>3 DEF Tells
  <2> QED BY <1>2, <2>2, <2>3
<1> QED BY <1>2, <1>5, <1>6, <1>7 DEF Tells, h, e

\* What a step does to the session.
HistoryMove ==
  \/ /\ messages' = messages
     /\ \/ Leaves
        \/ /\ frames' # <<>> /\ Top'.turn = Top.turn
           /\ Unspoken(Top') => Unspoken(Top)
           /\ Chatting(Top') => Chatting(Top)
  \/ messages' = <<>> /\ frames' # <<>> /\ ~Chatting(Top')
  \/ /\ messages' = Append(messages, Asks(Top.turn)) /\ Unspoken(Top)
     /\ frames' # <<>> /\ Top'.turn = Top.turn /\ ~Unspoken(Top')
  \/ messages' = Append(messages, Replies(Top.turn)) /\ Chatting(Top) /\ Leaves
  \/ /\ messages' = messages \o <<Asks(Top.turn), Replies(Top.turn)>> /\ Unspoken(Top)
     /\ frames' # <<>> /\ ~Unspoken(Top') /\ ~Chatting(Top')

LEMMA HistoryMoves ==
  ASSUME Known, lastId \in Nat, Step \/ Connected \/ Return
  PROVE  HistoryMove
<1> USE DEF At, Moved, Flags, On, Silent, Speaks, Over, Answered, Prints, Saves, Keeps,
            HistoryMove, session, Known, Typed, Unspoken, Chatting, Narration, Chat, Asks, Replies
<1>1. CASE Enter
  BY <1>1, Edges DEF Enter
<1>2. CASE LogTeleport
  BY <1>2, Edges DEF LogTeleport
<1>3. CASE RefuseInput
  BY <1>3, Edges DEF RefuseInput
<1>4. CASE Info
  BY <1>4, Edges DEF Info
<1>5. CASE Clear
  BY <1>5, Edges DEF Clear
<1>6. CASE Think
  BY <1>6, Edges DEF Think
<1>7. CASE SetLevel
  BY <1>7, Edges DEF SetLevel
<1>8. CASE Tool
  BY <1>8, Edges DEF Tool
<1>9. CASE Rune
  BY <1>9, Edges DEF Rune
<1>10. CASE RouteTeleport
  BY <1>10, Edges DEF RouteTeleport
<1>11. CASE Question
  BY <1>11, Edges DEF Question
<1>12. CASE EarlyReply
  BY <1>12, Edges DEF EarlyReply
<1>13. CASE Ready
  BY <1>13, Edges DEF Ready
<1>14. CASE EngineAnswers
  BY <1>14, Edges DEF EngineAnswers
<1>15. CASE EngineFails
  BY <1>15, Edges DEF EngineFails
<1>16. CASE CloudAnswers
  BY <1>16, Edges DEF CloudAnswers
<1>17. CASE CloudFails
  BY <1>17, Edges DEF CloudFails
<1>18. CASE Extract
  BY <1>18, Edges DEF Extract
<1>19. CASE NoCall
  BY <1>19, Edges DEF NoCall
<1>20. CASE SecondLocal
  BY <1>20, Edges DEF SecondLocal
<1>21. CASE SecondCloud
  BY <1>21, Edges DEF SecondCloud
<1>22. CASE Push
  BY <1>22, Edges DEF Push
<1>23. CASE NarrateLocal
  BY <1>23, Edges DEF NarrateLocal
<1>24. CASE NarratedLocal
  BY <1>24, Edges DEF NarratedLocal
<1>25. CASE NarrateCloud
  BY <1>25, Edges DEF NarrateCloud
<1>26. CASE NoNarration
  BY <1>26, Edges DEF NoNarration
<1>27. CASE Narrated
  BY <1>27, Edges DEF Narrated
<1>28. CASE FinishTurn
  BY <1>28, Edges DEF FinishTurn
<1>29. CASE Analyze
  BY <1>29, Edges DEF Analyze
<1>30. CASE NothingRan
  BY <1>30, Edges DEF NothingRan
<1>31. CASE NoBridge
  BY <1>31, Edges DEF NoBridge
<1>32. CASE StartBridge
  BY <1>32, Edges DEF StartBridge
<1>33. CASE Connected
  BY <1>33, Edges DEF Connected
<1>34. CASE FirstAnswered
  BY <1>34, Edges DEF FirstAnswered
<1>35. CASE Return
  BY <1>35, Edges DEF Return
<1>36. CASE RunFile
  BY <1>36, Edges DEF RunFile
<1>37. CASE Correlate
  BY <1>37, Edges DEF Correlate
<1>38. CASE SaveRow \/ LoseRow
  BY <1>38, Rows DEF SaveRow, LoseRow, RowDoneAs
<1> QED BY <1>1, <1>2, <1>3, <1>4, <1>5, <1>6, <1>7, <1>8, <1>9, <1>10, <1>11, <1>12, <1>13,
          <1>14, <1>15, <1>16, <1>17, <1>18, <1>19, <1>20, <1>21, <1>22, <1>23, <1>24, <1>25,
          <1>26, <1>27, <1>28, <1>29, <1>30, <1>31, <1>32, <1>33, <1>34, <1>35, <1>36, <1>37,
          <1>38 DEF Step

LEMMA InitHistory == Init => HistoryInv
<1> SUFFICES ASSUME Init PROVE HistoryInv
  OBVIOUS
<1>1. messages = <<>> /\ frames = <<>> /\ Len(messages) = 0
  BY DEF Init, Fresh
<1> QED BY <1>1 DEF HistoryInv, Tells

LEMMA StepHistory ==
  ASSUME StackInv, lastId \in Nat, HistoryInv, Next
  PROVE  HistoryInv'
<1>0. begun \in Nat
  BY DEF StackInv
<1>1. CASE Typed /\ (Step \/ Connected \/ Return) /\ ((\E g : Goes(g)) \/ Leaves)
  <2>1. HistoryMove /\ frames # <<>>
    BY <1>1, TopSteps, HistoryMoves DEF Typed
  <2>2. /\ begun' = begun /\ Top.turn \in Nat /\ Top.turn <= begun
        /\ Tells(messages, begun)
    BY <1>0, <1>1, <2>1, TopKnown DEF Goes, Leaves, HistoryInv
  <2>3. ASSUME Leaves PROVE frames' # <<>> => ~Unspoken(Top') /\ ~Chatting(Top')
    <3>1. frames' # <<>> => Top'.pc \in Bridge
      BY <2>3, Under
    <3> QED BY <3>1 DEF Unspoken, Chatting, Bridge, Chat, Narration
  <2>4. CASE /\ messages' = messages
             /\ \/ Leaves
                \/ /\ frames' # <<>> /\ Top'.turn = Top.turn
                   /\ Unspoken(Top') => Unspoken(Top)
                   /\ Chatting(Top') => Chatting(Top)
    BY <2>1, <2>2, <2>3, <2>4 DEF HistoryInv
  <2>5. CASE messages' = <<>> /\ frames' # <<>> /\ ~Chatting(Top')
    <3>1. Len(messages') = 0
      BY <2>5
    <3> QED BY <2>5, <3>1 DEF HistoryInv, Tells, Earlier
  <2>6. CASE /\ messages' = Append(messages, Asks(Top.turn)) /\ Unspoken(Top)
             /\ frames' # <<>> /\ Top'.turn = Top.turn /\ ~Unspoken(Top')
    <3>1. Earlier(messages, Top.turn)
      BY <2>1, <2>6 DEF HistoryInv
    <3>2. Tells(messages', begun) /\ Asked(messages', Top.turn)
      BY <1>0, <2>2, <2>6, <3>1, AddQuestion
    <3> QED BY <2>2, <2>6, <3>2 DEF HistoryInv
  <2>7. CASE messages' = Append(messages, Replies(Top.turn)) /\ Chatting(Top) /\ Leaves
    <3>1. Asked(messages, Top.turn)
      BY <2>1, <2>7 DEF HistoryInv
    <3>2. Tells(messages', begun)
      BY <1>0, <2>2, <2>7, <3>1, AddAnswer
    <3> QED BY <2>2, <2>3, <2>7, <3>2 DEF HistoryInv
  <2>8. CASE /\ messages' = messages \o <<Asks(Top.turn), Replies(Top.turn)>> /\ Unspoken(Top)
             /\ frames' # <<>> /\ ~Unspoken(Top') /\ ~Chatting(Top')
    <3> DEFINE M == [role : {"user", "assistant"}, turn : Nat]
               h == Append(messages, Asks(Top.turn))
    <3>1. Earlier(messages, Top.turn)
      BY <2>1, <2>8 DEF HistoryInv
    <3>2. Tells(h, begun) /\ Asked(h, Top.turn)
      BY <1>0, <2>2, <3>1, AddQuestion
    <3>3. Tells(Append(h, Replies(Top.turn)), begun)
      BY <1>0, <2>2, <3>2, AddAnswer
    <3>4. messages' = Append(h, Replies(Top.turn))
      <4>1. messages \in Seq(M) /\ Asks(Top.turn) \in M /\ Replies(Top.turn) \in M
        BY <2>2 DEF Tells, Asks, Replies
      <4> HIDE DEF M
      <4> DEFINE u == Asks(Top.turn)
                 a == Replies(Top.turn)
      <4>2. messages' = messages \o <<u, a>> /\ u \in M /\ a \in M
        BY <2>8, <4>1
      <4> HIDE DEF u, a
      <4>3. messages \o <<u, a>> = Append(Append(messages, u), a)
        BY <4>1, <4>2
      <4> QED BY <4>2, <4>3 DEF u, a
    <3> QED BY <2>2, <2>8, <3>3, <3>4 DEF HistoryInv
  <2> QED BY <2>1, <2>4, <2>5, <2>6, <2>7, <2>8 DEF HistoryMove
<1>2. CASE (Begin \/ DropFiles \/ Message) /\ \E g : Started(g)
  <2>1. PICK g : Started(g)
    BY <1>2
  <2>2. messages' = messages
    BY <1>2 DEF Begin, DropFiles, Message, session
  <2>3. /\ Top' = g /\ g.pc \in {"begin", "analyze"} /\ g.turn = begun + 1 /\ begun' = begun + 1
    BY <2>1 DEF Started
  <2>4. ~Chatting(Top')
    BY <2>3 DEF Chatting, Chat
  <2> DEFINE n == Len(messages)
  <2>5. ASSUME NEW i \in 1 .. n PROVE messages[i].turn <= begun /\ messages[i].turn \in Nat
    <3>1. messages[i] \in [role : {"user", "assistant"}, turn : Nat]
      BY <2>5, ElementOfSeq DEF HistoryInv, Tells
    <3> QED BY <2>5, <3>1 DEF HistoryInv, Tells
  <2>6. \A i \in 1 .. n : messages[i].turn < begun + 1 /\ messages[i].turn <= begun + 1
    BY <1>0, <2>5
  <2>7. Tells(messages, begun + 1) /\ Earlier(messages, begun + 1)
    BY <2>6 DEF HistoryInv, Tells, Earlier
  <2> QED BY <2>2, <2>3, <2>4, <2>7 DEF HistoryInv
<1>3. CASE Configure
  BY <1>3 DEF Configure, HistoryInv
<1>4. CASE Kill
  <2>1. frames' = <<>> /\ messages' = <<>> /\ Len(messages') = 0
    BY <1>4 DEF Kill, Fresh
  <2> QED BY <2>1 DEF HistoryInv, Tells
<1> QED BY <1>1, <1>2, <1>3, <1>4, Moves

LEMMA HistoryHolds == ASSUME HistoryInv PROVE HistoryTold
<1> DEFINE n == Len(messages)
<1>1. DOMAIN messages = 1 .. n
  BY LenProperties DEF HistoryInv, Tells
<1>2. ASSUME NEW i \in 1 .. n
      PROVE  [messages[i] EXCEPT !.role = "user"] = Asks(messages[i].turn)
  <2>1. messages[i] \in [role : {"user", "assistant"}, turn : Nat]
    BY <1>2, ElementOfSeq DEF HistoryInv, Tells
  <2> QED BY <2>1 DEF Asks
<1> QED BY <1>1, <1>2 DEF HistoryTold, HistoryInv, Tells

-----------------------------------------------------------------------------
(* The vault.                                                              *)

\* Places of a turn that has no row yet, and of one whose first row has been
\* kept or lost.
Blank(f) ==
  \/ f.pc \in {"begin", "route", "ready", "engine", "cloud", "extract", "analyze"}
  \/ f.pc = "saving" /\ Head(f.todo) = User(f)
UserDone(f) ==
  \/ f.pc \in {"file"} \cup Narration
  \/ f.pc = "early" /\ f.followup
  \/ f.pc = "saving" /\ Head(f.todo) # User(f)

\* The answer is in the session and the next to save.
Pending(f) == f.pc = "saving" /\ f.todo = <<Answer(f)>> /\ f.then = "finish"

UserKept(t) ==
  \/ \E k \in First(RowsOf(t)) : vault[k].role = "user"
  \/ \E row \in lost : row.role = "user" /\ row.turn = t

VaultInv ==
  /\ vault \in Seq(Range(vault))
  /\ \A i \in 1 .. Len(vault) : vault[i].turn \in 1 .. begun
  /\ \A i, j \in 1 .. Len(vault) : i < j => vault[i].turn <= vault[j].turn
  /\ \A i \in 1 .. Len(vault) : vault[i].role # "user" => UserKept(vault[i].turn)
  /\ \A i \in 1 .. Len(messages) : messages[i].role = "assistant" =>
       \/ Kept("assistant", messages[i].turn)
       \/ frames # <<>> /\ Pending(Top) /\ messages[i].turn = Top.turn
  /\ frames # <<>> =>
       /\ Blank(Top) => RowsOf(Top.turn) = {}
       /\ UserDone(Top) => UserKept(Top.turn)
       /\ Top.pc = "push" => Kept("assistant", Top.turn)

\* A row is kept or lost.
Recorded(r) ==
  \/ vault' = Append(vault, r) /\ lost' = lost
  \/ vault' = vault /\ lost' = lost \cup {r}

\* What a step does to the vault.
VaultMove ==
  \/ /\ UNCHANGED <<vault, lost>>
     /\ \/ messages' = messages
        \/ messages' = <<>>
        \/ messages' = Append(messages, Asks(Top.turn))
     /\ ~Pending(Top)
     /\ \/ Leaves
        \/ /\ frames' # <<>> /\ Top'.turn = Top.turn /\ Top'.pc # "push"
           /\ Blank(Top') => Blank(Top)
           /\ UserDone(Top') => UserDone(Top)
  \/ /\ UNCHANGED <<vault, lost>> /\ Top.pc = "push" /\ Leaves
     /\ messages' = Append(messages, Replies(Top.turn))
  \/ /\ UNCHANGED <<vault, lost>> /\ UserDone(Top) /\ ~Pending(Top)
     /\ frames' # <<>> /\ Top'.turn = Top.turn /\ ~Blank(Top') /\ Pending(Top')
     /\ messages' = messages \o <<Asks(Top.turn), Replies(Top.turn)>>
  \/ /\ Recorded(Head(Top.todo)) /\ messages' = messages
     /\ Top.pc = "saving" /\ Silent /\ RowDoneAs

LEMMA VaultMoves ==
  ASSUME Known, lastId \in Nat, Step \/ Connected \/ Return
  PROVE  VaultMove
<1> USE DEF At, Moved, Flags, On, Silent, Speaks, Over, Answered, Prints, Saves, Keeps, VaultMove,
            session, records, Known, Typed, Blank, UserDone, Pending, Recorded, Narration, Asks,
            Replies, User, Answer, Printed, Silent
<1>1. CASE Enter
  BY <1>1, Edges DEF Enter
<1>2. CASE LogTeleport
  BY <1>2, Edges DEF LogTeleport
<1>3. CASE RefuseInput
  BY <1>3, Edges DEF RefuseInput
<1>4. CASE Info
  BY <1>4, Edges DEF Info
<1>5. CASE Clear
  BY <1>5, Edges DEF Clear
<1>6. CASE Think
  BY <1>6, Edges DEF Think
<1>7. CASE SetLevel
  BY <1>7, Edges DEF SetLevel
<1>8. CASE Tool
  <2>1. /\ At("route") /\ Typed /\ UNCHANGED <<messages, vault, lost>>
        /\ (Answered /\ Top'.followup = FALSE) \/ Prints
    BY <1>8, Edges DEF Tool, session, records, Known
  <2>2. CASE Answered /\ Top'.followup = FALSE
    BY <2>1, <2>2
  <2>3. CASE Prints
    <3>1. User(Top') = User(Top)
      BY <2>3
    <3>2. Head(Top'.todo) = User(Top') /\ Top'.pc = "saving" /\ Top'.then = "early"
      BY <2>3, <3>1
    <3> HIDE DEF User, Printed
    <3> QED BY <2>1, <2>3, <3>2
  <2> QED BY <2>1, <2>2, <2>3
<1>9. CASE Rune
  <2>1. /\ At("route") /\ Typed /\ UNCHANGED <<messages, vault, lost>>
        /\ (Answered /\ Top'.followup = FALSE) \/ Prints
    BY <1>9, Edges DEF Rune, session, records, Known
  <2>2. CASE Answered /\ Top'.followup = FALSE
    BY <2>1, <2>2
  <2>3. CASE Prints
    <3>1. User(Top') = User(Top)
      BY <2>3
    <3>2. Head(Top'.todo) = User(Top') /\ Top'.pc = "saving" /\ Top'.then = "early"
      BY <2>3, <3>1
    <3> HIDE DEF User, Printed
    <3> QED BY <2>1, <2>3, <3>2
  <2> QED BY <2>1, <2>2, <2>3
<1>10. CASE RouteTeleport
  BY <1>10, Edges DEF RouteTeleport
<1>11. CASE Question
  BY <1>11, Edges DEF Question
<1>12. CASE EarlyReply
  BY <1>12, Edges DEF EarlyReply
<1>13. CASE Ready
  BY <1>13, Edges DEF Ready
<1>14. CASE EngineAnswers
  BY <1>14, Edges DEF EngineAnswers
<1>15. CASE EngineFails
  BY <1>15, Edges DEF EngineFails
<1>16. CASE CloudAnswers
  BY <1>16, Edges DEF CloudAnswers
<1>17. CASE CloudFails
  BY <1>17, Edges DEF CloudFails
<1>18. CASE Extract
  BY <1>18, Edges DEF Extract
<1>19. CASE NoCall
  BY <1>19, Edges DEF NoCall
<1>20. CASE SecondLocal
  BY <1>20, Edges DEF SecondLocal
<1>21. CASE SecondCloud
  BY <1>21, Edges DEF SecondCloud
<1>22. CASE Push
  BY <1>22, Edges DEF Push
<1>23. CASE NarrateLocal
  BY <1>23, Edges DEF NarrateLocal
<1>24. CASE NarratedLocal
  BY <1>24, Edges DEF NarratedLocal
<1>25. CASE NarrateCloud
  BY <1>25, Edges DEF NarrateCloud
<1>26. CASE NoNarration
  BY <1>26, Edges DEF NoNarration
<1>27. CASE Narrated
  BY <1>27, Edges DEF Narrated
<1>28. CASE FinishTurn
  BY <1>28, Edges DEF FinishTurn
<1>29. CASE Analyze
  BY <1>29, Edges DEF Analyze
<1>30. CASE NothingRan
  BY <1>30, Edges DEF NothingRan
<1>31. CASE NoBridge
  BY <1>31, Edges DEF NoBridge
<1>32. CASE StartBridge
  BY <1>32, Edges DEF StartBridge
<1>33. CASE Connected
  BY <1>33, Edges DEF Connected
<1>34. CASE FirstAnswered
  BY <1>34, Edges DEF FirstAnswered
<1>35. CASE Return
  BY <1>35, Edges DEF Return
<1>36. CASE RunFile
  BY <1>36, Edges DEF RunFile
<1>37. CASE Correlate
  BY <1>37, Edges DEF Correlate
<1>38. CASE SaveRow \/ LoseRow
  BY <1>38, Rows DEF SaveRow, LoseRow
<1> QED BY <1>1, <1>2, <1>3, <1>4, <1>5, <1>6, <1>7, <1>8, <1>9, <1>10, <1>11, <1>12, <1>13,
          <1>14, <1>15, <1>16, <1>17, <1>18, <1>19, <1>20, <1>21, <1>22, <1>23, <1>24, <1>25,
          <1>26, <1>27, <1>28, <1>29, <1>30, <1>31, <1>32, <1>33, <1>34, <1>35, <1>36, <1>37,
          <1>38 DEF Step

\* A row more takes nothing away.
LEMMA MoreRows ==
  ASSUME VaultInv, NEW r, Recorded(r), r.turn = begun, begun \in Nat, NEW t
  PROVE  /\ vault' \in Seq(Range(vault')) /\ Len(vault) \in Nat
         /\ Len(vault') \in {Len(vault), Len(vault) + 1}
         /\ \A i \in 1 .. Len(vault') :
              i \in 1 .. Len(vault) \/ (i = Len(vault) + 1 /\ vault'[i] = r)
         /\ \A i \in 1 .. Len(vault) : vault'[i] = vault[i] /\ i \in 1 .. Len(vault')
         /\ DOMAIN vault = 1 .. Len(vault) /\ DOMAIN vault' = 1 .. Len(vault')
<1> DEFINE n == Len(vault)
<1>1. n \in Nat /\ vault \in Seq(Range(vault)) /\ DOMAIN vault = 1 .. n
  BY LenProperties DEF VaultInv
<1>2. CASE vault' = vault
  BY <1>1, <1>2
<1>3. CASE vault' = Append(vault, r)
  <2> DEFINE S == Range(vault) \cup {r}
  <2>1. vault \in Seq(S) /\ r \in S
    BY <1>1, SeqMonotonic
  <2> HIDE DEF S
  <2>2. /\ vault' \in Seq(S) /\ Len(vault') = n + 1 /\ vault'[n + 1] = r
        /\ \A i \in 1 .. n : vault'[i] = vault[i]
    BY <1>3, <2>1, AppendProperties
  <2>3. vault' \in Seq(Range(vault')) /\ DOMAIN vault' = 1 .. n + 1
    BY <2>2, Holds, LenProperties
  <2>4. \A i \in 1 .. n + 1 : i \in 1 .. n \/ i = n + 1
    BY <1>1
  <2>5. \A i \in 1 .. n : i \in 1 .. n + 1
    BY <1>1
  <2> QED BY <1>1, <2>2, <2>3, <2>4, <2>5
<1> QED BY <1>2, <1>3 DEF Recorded

LEMMA StillKept ==
  ASSUME VaultInv, NEW r, Recorded(r), r.turn = begun, begun \in Nat, begun' = begun
  PROVE  /\ \A role, t : Kept(role, t) => Kept(role, t)'
         /\ \A t : UserKept(t) => UserKept(t)'
         /\ Kept(r.role, begun)'
         /\ r.role = "user" /\ RowsOf(begun) = {} => UserKept(begun)'
<1> DEFINE n == Len(vault)
<1>1. /\ n \in Nat /\ Len(vault') \in {n, n + 1}
      /\ \A i \in 1 .. Len(vault') : i \in 1 .. n \/ (i = n + 1 /\ vault'[i] = r)
      /\ \A i \in 1 .. n : vault'[i] = vault[i] /\ i \in 1 .. Len(vault')
      /\ DOMAIN vault = 1 .. n /\ DOMAIN vault' = 1 .. Len(vault')
  BY MoreRows
<1>2. ASSUME NEW t PROVE RowsOf(t) \subseteq RowsOf(t)' /\ RowsOf(t) \subseteq 1 .. n
  BY <1>1 DEF RowsOf
<1>3. lost \subseteq lost'
  BY DEF Recorded
<1>4. ASSUME NEW role, NEW t, Kept(role, t) PROVE Kept(role, t)'
  <2>1. CASE \E i \in RowsOf(t) : vault[i].role = role
    BY <1>1, <1>2, <2>1 DEF Kept
  <2>2. CASE \E row \in lost : row.role = role /\ row.turn = t
    BY <1>3, <2>2 DEF Kept
  <2> QED BY <1>4, <2>1, <2>2 DEF Kept
<1>5. ASSUME NEW t, UserKept(t) PROVE UserKept(t)'
  <2>1. CASE \E row \in lost : row.role = "user" /\ row.turn = t
    BY <1>3, <2>1 DEF UserKept
  <2>2. CASE \E k \in First(RowsOf(t)) : vault[k].role = "user"
    <3>1. PICK k \in RowsOf(t) : vault[k].role = "user" /\ \A j \in RowsOf(t) : k <= j
      BY <2>2 DEF First
    <3>2. k \in 1 .. n /\ k \in RowsOf(t)' /\ vault'[k].role = "user"
      BY <1>1, <1>2, <3>1
    <3>3. ASSUME NEW j \in RowsOf(t)' PROVE k <= j
      <4>1. j \in 1 .. Len(vault') /\ vault'[j].turn = t
        BY <1>1, <3>3 DEF RowsOf
      <4>2. CASE j \in 1 .. n
        BY <1>1, <3>1, <4>1, <4>2 DEF RowsOf
      <4>3. CASE j = n + 1
        <5>1. k \in 1 .. n /\ n \in Nat
          BY <1>1, <3>2
        <5> QED BY <4>3, <5>1
      <4> QED BY <1>1, <4>1, <4>2, <4>3
    <3> QED BY <3>2, <3>3 DEF UserKept, First
  <2> QED BY <1>5, <2>1, <2>2 DEF UserKept
<1>6. CASE vault' = vault /\ lost' = lost \cup {r}
  <2>1. r \in lost' /\ r.turn = begun'
    BY <1>6
  <2> QED BY <1>4, <1>5, <2>1 DEF Kept, UserKept
<1>7. CASE vault' = Append(vault, r) /\ lost' = lost
  <2>1. Len(vault') = n + 1 /\ vault'[n + 1] = r /\ n + 1 \in 1 .. Len(vault')
    <3>1. vault \in Seq(Range(vault) \cup {r})
      BY SeqMonotonic DEF VaultInv
    <3>2. Len(vault') = n + 1 /\ vault'[n + 1] = r
      BY <1>7, <3>1, AppendProperties
    <3> QED BY <1>1, <3>2
  <2>2. n + 1 \in RowsOf(begun)'
    BY <1>1, <1>7, <2>1 DEF RowsOf
  <2>3. Kept(r.role, begun)'
    BY <2>1, <2>2 DEF Kept
  <2>4. ASSUME r.role = "user", RowsOf(begun) = {} PROVE UserKept(begun)'
    <3>1. ASSUME NEW j \in RowsOf(begun)' PROVE j = n + 1
      BY <1>1, <2>4, <3>1 DEF RowsOf
    <3>2. n + 1 \in First(RowsOf(begun))'
      <4>0. n \in Nat
        BY <1>1
      <4> HIDE DEF n
      <4>1. n + 1 <= n + 1
        BY <4>0
      <4> QED BY <2>2, <3>1, <4>1 DEF First
    <3> QED BY <2>1, <2>4, <3>2 DEF UserKept
  <2> QED BY <1>4, <1>5, <2>3, <2>4
<1> QED BY <1>6, <1>7 DEF Recorded

LEMMA InitVault == Init => VaultInv
<1> SUFFICES ASSUME Init PROVE VaultInv
  OBVIOUS
<1>1. vault = <<>> /\ messages = <<>> /\ frames = <<>> /\ Len(vault) = 0 /\ Len(messages) = 0
  BY DEF Init, Fresh
<1>2. vault \in Seq(Range(vault))
  BY <1>1, EmptySeq
<1> QED BY <1>1, <1>2 DEF VaultInv

\* Answers told by one message more.
LEMMA NewMessage ==
  ASSUME NEW b \in Nat, Tells(messages, b), NEW t \in Nat, NEW e \in {Asks(t), Replies(t)},
         NEW i \in 1 .. Len(messages) + 1
  PROVE  /\ Len(Append(messages, e)) = Len(messages) + 1
         /\ \/ i \in 1 .. Len(messages) /\ Append(messages, e)[i] = messages[i]
            \/ Append(messages, e)[i] = e
<1>1. e \in [role : {"user", "assistant"}, turn : Nat]
  BY DEF Asks, Replies
<1> QED BY <1>1, OneMore

LEMMA StepVault ==
  ASSUME StackInv, lastId \in Nat, HistoryInv, VaultInv, Next
  PROVE  VaultInv'
<1> USE DEF VaultInv
<1>0. begun \in Nat /\ Tells(messages, begun)
  BY DEF StackInv, HistoryInv
<1>1. CASE Typed /\ (Step \/ Connected \/ Return) /\ ((\E g : Goes(g)) \/ Leaves)
  <2>1. VaultMove /\ frames # <<>> /\ FrameType(Top) /\ Current(Top)
    BY <1>1, TopSteps, VaultMoves DEF Typed
  <2>2. begun' = begun /\ Top.turn \in Nat
    BY <1>1, <2>1, TopKnown DEF Goes, Leaves
  <2>3. ASSUME Leaves, frames' # <<>>
        PROVE  ~Blank(Top') /\ ~UserDone(Top') /\ Top'.pc # "push"
    <3>1. Top'.pc \in Bridge
      BY <2>3, Under
    <3> QED BY <3>1 DEF Blank, UserDone, Bridge, Narration
  <2>4. ASSUME UNCHANGED <<vault, lost>>, NEW t
        PROVE  /\ UserKept(t)' = UserKept(t) /\ Kept("assistant", t)' = Kept("assistant", t)
               /\ RowsOf(t)' = RowsOf(t)
    BY <2>4 DEF UserKept, Kept, RowsOf
  <2>5. ASSUME UNCHANGED <<vault, lost>>
        PROVE  /\ vault' \in Seq(Range(vault'))
               /\ \A i \in 1 .. Len(vault') : vault'[i].turn \in 1 .. begun'
               /\ \A i, j \in 1 .. Len(vault') : i < j => vault'[i].turn <= vault'[j].turn
               /\ \A i \in 1 .. Len(vault') : vault'[i].role # "user" => UserKept(vault[i].turn)'
    BY <2>2, <2>4, <2>5
  <2>6. CASE /\ UNCHANGED <<vault, lost>>
             /\ \/ messages' = messages
                \/ messages' = <<>>
                \/ messages' = Append(messages, Asks(Top.turn))
             /\ ~Pending(Top)
             /\ \/ Leaves
                \/ /\ frames' # <<>> /\ Top'.turn = Top.turn /\ Top'.pc # "push"
                   /\ Blank(Top') => Blank(Top)
                   /\ UserDone(Top') => UserDone(Top)
    <3>1. ASSUME NEW i \in 1 .. Len(messages'), messages'[i].role = "assistant"
          PROVE  Kept("assistant", messages[i].turn)'
      <4>1. i \in 1 .. Len(messages) /\ messages'[i] = messages[i]
        <5>1. CASE messages' = messages
          BY <3>1, <5>1
        <5>2. CASE messages' = <<>>
          BY <3>1, <5>2
        <5>3. CASE messages' = Append(messages, Asks(Top.turn))
          <6>1. Len(messages') = Len(messages) + 1
            BY <1>0, <2>2, <5>3, OneMore DEF Asks
          <6> QED BY <1>0, <2>2, <3>1, <5>3, <6>1, NewMessage DEF Asks
        <5> QED BY <2>6, <5>1, <5>2, <5>3
      <4>2. Kept("assistant", messages[i].turn)
        BY <2>6, <3>1, <4>1
      <4> QED BY <2>4, <2>6, <4>1, <4>2
    <3>2. ASSUME frames' # <<>>
          PROVE  /\ Blank(Top') => RowsOf(Top.turn)' = {}
                 /\ UserDone(Top') => UserKept(Top.turn)'
                 /\ Top'.pc # "push"
      <4>1. CASE Leaves
        BY <2>3, <3>2, <4>1
      <4>2. CASE /\ Top'.turn = Top.turn /\ Top'.pc # "push"
                 /\ Blank(Top') => Blank(Top)
                 /\ UserDone(Top') => UserDone(Top)
        <5>1. Blank(Top) => RowsOf(Top.turn) = {}
          BY <2>1
        <5>2. UserDone(Top) => UserKept(Top.turn)
          BY <2>1
        <5>3. RowsOf(Top.turn)' = RowsOf(Top.turn) /\ UserKept(Top.turn)' = UserKept(Top.turn)
          BY <2>6, <4>2 DEF RowsOf, UserKept
        <5> QED BY <4>2, <5>1, <5>2, <5>3
      <4> QED BY <2>6, <3>2, <4>1, <4>2
    <3> QED BY <2>5, <2>6, <3>1, <3>2
  <2>7. CASE /\ UNCHANGED <<vault, lost>> /\ Top.pc = "push" /\ Leaves
             /\ messages' = Append(messages, Replies(Top.turn))
    <3>1. Len(messages') = Len(messages) + 1
      BY <1>0, <2>2, <2>7, OneMore DEF Replies
    <3>2. ASSUME NEW i \in 1 .. Len(messages'), messages'[i].role = "assistant"
          PROVE  Kept("assistant", messages[i].turn)'
      <4>1. \/ i \in 1 .. Len(messages) /\ messages'[i] = messages[i]
            \/ messages'[i] = Replies(Top.turn)
        BY <1>0, <2>2, <2>7, <3>1, NewMessage
      <4>2. CASE i \in 1 .. Len(messages) /\ messages'[i] = messages[i]
        <5>1. ~Pending(Top)
          BY <2>7 DEF Pending
        <5> QED BY <2>4, <2>7, <3>2, <4>2, <5>1
      <4>3. CASE messages'[i] = Replies(Top.turn)
        <5>1. Kept("assistant", Top.turn)
          BY <2>1, <2>7
        <5>2. messages'[i].turn = Top.turn
          BY <4>3 DEF Replies
        <5> QED BY <2>4, <2>7, <5>1, <5>2
      <4> QED BY <4>1, <4>2, <4>3
    <3> QED BY <2>3, <2>5, <2>7, <3>2
  <2>8. CASE /\ UNCHANGED <<vault, lost>> /\ UserDone(Top) /\ ~Pending(Top)
             /\ frames' # <<>> /\ Top'.turn = Top.turn /\ ~Blank(Top') /\ Pending(Top')
             /\ messages' = messages \o <<Asks(Top.turn), Replies(Top.turn)>>
    <3> DEFINE n == Len(messages)
    <3>1. ASSUME NEW i \in 1 .. Len(messages'), messages'[i].role = "assistant"
          PROVE  \/ Kept("assistant", messages[i].turn)'
                 \/ messages'[i].turn = Top'.turn
      <4>1. /\ n \in Nat /\ Len(messages') = n + 2
            /\ \A k \in 1 .. n : messages'[k] = messages[k]
            /\ messages'[n + 1] = Asks(Top.turn) /\ messages'[n + 2] = Replies(Top.turn)
        <5> DEFINE M == [role : {"user", "assistant"}, turn : Nat]
                   u == Asks(Top.turn)
                   a == Replies(Top.turn)
        <5>1. messages \in Seq(M) /\ u \in M /\ a \in M
          BY <1>0, <2>2 DEF Tells, Asks, Replies
        <5>2. messages' = messages \o <<u, a>>
          BY <2>8
        <5> HIDE DEF M, u, a
        <5> DEFINE h == Append(messages, u)
        <5>3. messages' = Append(h, a)
          BY <5>1, <5>2
        <5>4. /\ h \in Seq(M) /\ Len(h) = n + 1 /\ h[n + 1] = u /\ n \in Nat
              /\ \A k \in 1 .. n : h[k] = messages[k]
          BY <5>1, AppendProperties, LenProperties
        <5> HIDE DEF h
        <5>5. /\ Len(messages') = n + 1 + 1 /\ messages'[n + 1 + 1] = a
              /\ \A k \in 1 .. n + 1 : messages'[k] = h[k]
          <6>1. /\ Len(messages') = Len(h) + 1 /\ messages'[Len(h) + 1] = a
                /\ \A k \in 1 .. Len(h) : messages'[k] = h[k]
            BY <5>1, <5>3, <5>4, AppendProperties
          <6> QED BY <5>4, <6>1
        <5>6. n + 1 + 1 = n + 2 /\ n + 1 \in 1 .. n + 1 /\ \A k \in 1 .. n : k \in 1 .. n + 1
          BY <5>4
        <5> QED BY <5>4, <5>5, <5>6 DEF u, a
      <4>2. i \in 1 .. n \/ i = n + 1 \/ i = n + 2
        BY <3>1, <4>1
      <4>3. CASE i \in 1 .. n
        <5>1. Kept("assistant", messages[i].turn)
          BY <2>8, <3>1, <4>1, <4>3
        <5> QED BY <2>4, <2>8, <4>1, <4>3, <5>1
      <4>4. CASE i = n + 1 \/ i = n + 2
        BY <2>8, <3>1, <4>1, <4>4 DEF Asks, Replies
      <4> QED BY <4>2, <4>3, <4>4
    <3>2. Top'.pc # "push"
      BY <2>8 DEF Pending
    <3>3. UserKept(Top.turn)'
      BY <2>1, <2>4, <2>8
    <3> QED BY <2>5, <2>8, <3>1, <3>2, <3>3
  <2>9. CASE /\ Recorded(Head(Top.todo)) /\ messages' = messages
             /\ Top.pc = "saving" /\ Silent /\ RowDoneAs
    <3>0. PICK r : r = Head(Top.todo)
      OBVIOUS
    <3>1. Top.turn = begun
      BY <2>1, <2>9 DEF Current, Bridge
    <3>2. /\ frames' # <<>> /\ Top'.turn = Top.turn /\ Top'.input = Top.input
          /\ r \in {User(Top), Printed(Top), Answer(Top)}
          /\ Top'.pc = "push" => r = Answer(Top)
          /\ Pending(Top) => r = Answer(Top)
          /\ ~Blank(Top')
      <4>1. User(Top') = User(Top) /\ Printed(Top') = Printed(Top) /\ Answer(Top') = Answer(Top)
        BY <2>9 DEF RowDoneAs, On, Moved, User, Printed, Answer
      <4>2. Printed(Top) # User(Top) /\ Answer(Top) # User(Top)
        BY DEF User, Printed, Answer
      <4>3. frames' # <<>> /\ Top'.turn = Top.turn /\ Top'.input = Top.input
        BY <2>9 DEF RowDoneAs, On, Moved
      <4> HIDE DEF Printed, User, Answer
      <4>4. r \in {User(Top), Printed(Top), Answer(Top)} /\ (Top'.pc = "push" => r = Answer(Top))
        BY <2>9, <3>0 DEF RowDoneAs, On, Moved
      <4>5. Pending(Top) => r = Answer(Top)
        BY <3>0 DEF Pending
      <4>6. ~Blank(Top')
        <5>1. \/ Top'.pc \in {"early", "file", "narrate", "finish", "push"}
              \/ Top'.pc = "saving" /\ Top'.todo \in {<<Printed(Top)>>, <<Answer(Top)>>}
          BY <2>9 DEF RowDoneAs, On, Moved
        <5>2. Top'.pc = "saving" => Head(Top'.todo) # User(Top')
          BY <4>1, <4>2, <5>1
        <5> QED BY <5>1, <5>2 DEF Blank
      <4> QED BY <4>3, <4>4, <4>5, <4>6
    <3>3. /\ r.turn = begun
          /\ (r = Answer(Top) => r.role = "assistant") /\ (r = User(Top) => r.role = "user")
      BY <3>1, <3>2 DEF User, Printed, Answer
    <3>4. Recorded(r)
      BY <2>9, <3>0
    <3>5. /\ \A role, t : Kept(role, t) => Kept(role, t)'
          /\ \A t : UserKept(t) => UserKept(t)'
          /\ Kept(r.role, begun)'
          /\ r.role = "user" /\ RowsOf(begun) = {} => UserKept(begun)'
      BY <1>0, <2>2, <3>3, <3>4, StillKept
    <3>6. UserKept(begun)'
      <4>1. CASE r = User(Top)
        <5>1. Blank(Top)
          BY <2>9, <3>0, <4>1 DEF Blank
        <5> QED BY <2>1, <3>1, <3>3, <3>5, <4>1, <5>1
      <4>2. CASE r # User(Top)
        <5>1. UserDone(Top)
          BY <2>9, <3>0, <4>2 DEF UserDone
        <5>2. UserKept(begun)
          BY <2>1, <3>1, <5>1
        <5> QED BY <2>2, <3>5, <5>2
      <4> QED BY <4>1, <4>2
    <3>7. /\ vault' \in Seq(Range(vault')) /\ Len(vault) \in Nat
          /\ \A i \in 1 .. Len(vault') :
              i \in 1 .. Len(vault) \/ (i = Len(vault) + 1 /\ vault'[i] = r)
          /\ \A i \in 1 .. Len(vault) : vault'[i] = vault[i]
      BY <1>0, <3>3, <3>4, MoreRows
    <3>8. ASSUME NEW i \in 1 .. Len(vault')
          PROVE  /\ vault'[i].turn \in 1 .. begun
                 /\ vault'[i].role # "user" => UserKept(vault[i].turn)'
      <4>1. CASE i \in 1 .. Len(vault)
        <5>1. vault'[i] = vault[i] /\ vault[i].turn \in 1 .. begun
          BY <3>7, <4>1
        <5>2. vault[i].role # "user" => UserKept(vault[i].turn)
          BY <4>1
        <5> QED BY <3>5, <5>1, <5>2
      <4>2. CASE i = Len(vault) + 1 /\ vault'[i] = r
        <5>1. r.turn \in 1 .. begun
          BY <2>1, <3>1, <3>3, TopKnown
        <5>2. vault'[i].turn = begun
          BY <3>3, <4>2
        <5>3. UserKept(vault[i].turn)'
          BY <2>2, <3>6, <5>2 DEF UserKept, RowsOf
        <5> QED BY <3>3, <4>2, <5>1, <5>3
      <4> QED BY <3>7, <4>1, <4>2
    <3>9. ASSUME NEW i \in 1 .. Len(vault'), NEW j \in 1 .. Len(vault'), i < j
          PROVE  vault'[i].turn <= vault'[j].turn
      <4>1. i \in 1 .. Len(vault) /\ vault'[i] = vault[i]
        BY <3>7, <3>9
      <4>2. CASE j \in 1 .. Len(vault)
        BY <3>7, <3>9, <4>1, <4>2
      <4>3. CASE vault'[j] = r
        <5>1. vault[i].turn \in 1 .. begun
          BY <4>1
        <5> QED BY <1>0, <3>3, <4>1, <4>3, <5>1
      <4> QED BY <3>7, <4>2, <4>3
    <3>10. ASSUME NEW i \in 1 .. Len(messages'), messages'[i].role = "assistant"
           PROVE  Kept("assistant", messages[i].turn)'
      <4>1. CASE Kept("assistant", messages[i].turn)
        BY <2>9, <3>5, <4>1
      <4>2. CASE Pending(Top) /\ messages[i].turn = Top.turn
        <5>1. r.role = "assistant"
          BY <3>2, <3>3, <4>2
        <5>2. messages'[i].turn = begun'
          BY <2>2, <2>9, <3>1, <4>2
        <5> QED BY <2>2, <3>5, <5>1, <5>2
      <4> QED BY <2>9, <3>10, <4>1, <4>2
    <3>11. Top'.turn = begun'
      BY <2>2, <3>1, <3>2
    <3>12. UserKept(Top.turn)'
      BY <3>6, <3>11 DEF UserKept, RowsOf
    <3>13. Top'.pc = "push" => Kept("assistant", Top.turn)'
      <4>1. ASSUME Top'.pc = "push" PROVE Kept("assistant", Top.turn)'
        <5>1. r.role = "assistant"
          BY <3>2, <3>3, <4>1
        <5> QED BY <2>2, <3>5, <3>11, <5>1
      <4> QED BY <4>1
    <3> QED BY <2>2, <3>2, <3>7, <3>8, <3>9, <3>10, <3>12, <3>13
  <2> QED BY <2>1, <2>6, <2>7, <2>8, <2>9 DEF VaultMove
<1>2. CASE (Begin \/ DropFiles \/ Message) /\ \E g : Started(g)
  <2>1. PICK g : Started(g)
    BY <1>2
  <2>2. UNCHANGED <<vault, lost, messages>>
    BY <1>2 DEF Begin, DropFiles, Message, session, records
  <2>3. /\ Top' = g /\ g.pc \in {"begin", "analyze"} /\ g.turn = begun + 1 /\ begun' = begun + 1
        /\ frames' # <<>>
    BY <2>1 DEF Started
  <2>4. ~UserDone(Top') /\ Top'.pc # "push"
    BY <2>3 DEF UserDone, Narration
  <2>5. ASSUME NEW i \in 1 .. Len(vault)
        PROVE  vault[i].turn \in 1 .. begun + 1 /\ vault[i].turn # begun + 1
    <3>1. vault[i].turn \in 1 .. begun
      OBVIOUS
    <3> QED BY <1>0, <3>1
  <2>6. RowsOf(Top.turn)' = {}
    BY <2>2, <2>3, <2>5, LenProperties DEF RowsOf
  <2>7. ASSUME NEW i \in 1 .. Len(messages), messages[i].role = "assistant"
        PROVE  Kept("assistant", messages[i].turn)
    <3>1. ~(frames # <<>> /\ Pending(Top))
      BY <1>2 DEF Begin, DropFiles, Message, Pending
    <3> QED BY <2>7, <3>1
  <2>8. ASSUME NEW t
        PROVE  UserKept(t)' = UserKept(t) /\ Kept("assistant", t)' = Kept("assistant", t)
    BY <2>2 DEF UserKept, Kept, RowsOf
  <2>9. \A i \in 1 .. Len(messages') : messages'[i].role = "assistant" =>
           Kept("assistant", messages[i].turn)'
    BY <2>2, <2>7, <2>8
  <2>10. /\ vault' \in Seq(Range(vault'))
         /\ \A i, j \in 1 .. Len(vault') : i < j => vault'[i].turn <= vault'[j].turn
         /\ \A i \in 1 .. Len(vault') : vault'[i].role # "user" => UserKept(vault[i].turn)'
    BY <2>2, <2>8
  <2>11. \A i \in 1 .. Len(vault') : vault'[i].turn \in 1 .. begun'
    BY <2>2, <2>3, <2>5
  <2> QED BY <2>4, <2>6, <2>9, <2>10, <2>11
<1>3. CASE Configure
  BY <1>3 DEF Configure, Kept, UserKept, RowsOf, records
<1>4. CASE Kill
  <2>1. frames' = <<>> /\ messages' = <<>> /\ UNCHANGED <<vault, lost, begun>> /\ Len(messages') = 0
    BY <1>4 DEF Kill, Fresh
  <2>2. ASSUME NEW t PROVE UserKept(t)' = UserKept(t)
    BY <2>1 DEF UserKept, RowsOf
  <2> QED BY <2>1, <2>2
<1> QED BY <1>1, <1>2, <1>3, <1>4, Moves

LEMMA VaultHolds == ASSUME StackInv, HistoryInv, VaultInv PROVE VaultTellsTurns
<1>1. DOMAIN vault = 1 .. Len(vault) /\ Len(vault) \in Nat /\ begun \in Nat
  BY LenProperties DEF VaultInv, StackInv
<1>2. ASSUME NEW i \in DOMAIN vault, NEW j \in DOMAIN vault,
             i < j, vault[i].turn = vault[j].turn, NEW k \in i .. j
      PROVE  k \in RowsOf(vault[i].turn)
  <2>1. k \in 1 .. Len(vault)
    BY <1>1, <1>2
  <2>2. /\ i < k => vault[i].turn <= vault[k].turn
        /\ k < j => vault[k].turn <= vault[j].turn
    BY <1>1, <2>1 DEF VaultInv
  <2>3. i = k \/ i < k
    BY <1>1, <1>2, <2>1
  <2>4. j = k \/ k < j
    BY <1>1, <1>2, <2>1
  <2>5. vault[i].turn \in 1 .. begun /\ vault[j].turn \in 1 .. begun /\ vault[k].turn \in 1 .. begun
    BY <1>1, <2>1 DEF VaultInv
  <2>6. vault[k].turn = vault[i].turn
    <3>1. CASE i < k /\ k < j
      <4>1. vault[i].turn <= vault[k].turn /\ vault[k].turn <= vault[i].turn
        BY <1>2, <2>2, <3>1
      <4> QED BY <1>1, <2>5, <4>1
    <3> QED BY <1>2, <2>3, <2>4, <3>1
  <2> QED BY <1>1, <2>1, <2>6 DEF RowsOf
<1>3. DOMAIN messages = 1 .. Len(messages)
  BY LenProperties DEF HistoryInv, Tells
<1>4. frames # <<>> => Top.turn \notin over
  BY TopKnown
<1>5. ASSUME NEW i \in DOMAIN messages, messages[i].role = "assistant", messages[i].turn \in over
      PROVE  Kept("assistant", messages[i].turn)
  BY <1>3, <1>4, <1>5 DEF VaultInv
<1>6. ASSUME NEW i \in DOMAIN vault, vault[i].role # "user" PROVE UserKept(vault[i].turn)
  BY <1>1, <1>6 DEF VaultInv
<1> QED BY <1>2, <1>5, <1>6 DEF VaultTellsTurns, UserKept

-----------------------------------------------------------------------------
(* The audit log.                                                          *)

\* A turn whose input is in the log and whose outcome is not.
Unsettled(f) ==
  \/ f.pc \in {"route", "log_teleport", "early", "ready", "loop"}
  \/ f.pc = "saving" /\ f.then = "early"
  \/ f.pc = "teleport" /\ f.surface # "stream"

\* Only a turn that has an id has come there.
Placed(f) ==
  /\ Unsettled(f) => f.id # 0
  /\ f.pc = "begin" => f.id = 0
  /\ f.pc = "saving" /\ f.then = "early" => f.blocked = FALSE
  /\ f.pc = "log_teleport" => f.surface = "stream"
  /\ f.pc = "route" /\ f.surface = "stream" => f.input # "teleport"

PlacedInv == \A q \in 1 .. Len(frames) : Placed(frames[q])

PlacedMove == Leaves \/ (frames' # <<>> /\ Placed(Top'))

LEMMA PlacedMoves ==
  ASSUME Known, lastId \in Nat, Placed(Top), Step \/ Connected \/ Return
  PROVE  PlacedMove
<1> USE DEF At, Moved, Flags, On, Silent, Speaks, Over, Answered, Prints, Saves, Keeps,
            PlacedMove, Placed, Unsettled, IsStream, Known, Typed, FrameType
<1>1. CASE Enter
  BY <1>1, Edges DEF Enter
<1>2. CASE LogTeleport
  BY <1>2, Edges DEF LogTeleport
<1>3. CASE RefuseInput
  BY <1>3, Edges DEF RefuseInput
<1>4. CASE Info
  BY <1>4, Edges DEF Info
<1>5. CASE Clear
  BY <1>5, Edges DEF Clear
<1>6. CASE Think
  BY <1>6, Edges DEF Think
<1>7. CASE SetLevel
  BY <1>7, Edges DEF SetLevel
<1>8. CASE Tool
  BY <1>8, Edges DEF Tool
<1>9. CASE Rune
  BY <1>9, Edges DEF Rune
<1>10. CASE RouteTeleport
  BY <1>10, Edges DEF RouteTeleport
<1>11. CASE Question
  BY <1>11, Edges DEF Question
<1>12. CASE EarlyReply
  BY <1>12, Edges DEF EarlyReply
<1>13. CASE Ready
  BY <1>13, Edges DEF Ready
<1>14. CASE EngineAnswers
  BY <1>14, Edges DEF EngineAnswers
<1>15. CASE EngineFails
  BY <1>15, Edges DEF EngineFails
<1>16. CASE CloudAnswers
  BY <1>16, Edges DEF CloudAnswers
<1>17. CASE CloudFails
  BY <1>17, Edges DEF CloudFails
<1>18. CASE Extract
  BY <1>18, Edges DEF Extract
<1>19. CASE NoCall
  BY <1>19, Edges DEF NoCall
<1>20. CASE SecondLocal
  BY <1>20, Edges DEF SecondLocal
<1>21. CASE SecondCloud
  BY <1>21, Edges DEF SecondCloud
<1>22. CASE Push
  BY <1>22, Edges DEF Push
<1>23. CASE NarrateLocal
  BY <1>23, Edges DEF NarrateLocal
<1>24. CASE NarratedLocal
  BY <1>24, Edges DEF NarratedLocal
<1>25. CASE NarrateCloud
  BY <1>25, Edges DEF NarrateCloud
<1>26. CASE NoNarration
  BY <1>26, Edges DEF NoNarration
<1>27. CASE Narrated
  BY <1>27, Edges DEF Narrated
<1>28. CASE FinishTurn
  BY <1>28, Edges DEF FinishTurn
<1>29. CASE Analyze
  BY <1>29, Edges DEF Analyze
<1>30. CASE NothingRan
  BY <1>30, Edges DEF NothingRan
<1>31. CASE NoBridge
  BY <1>31, Edges DEF NoBridge
<1>32. CASE StartBridge
  BY <1>32, Edges DEF StartBridge
<1>33. CASE Connected
  BY <1>33, Edges DEF Connected
<1>34. CASE FirstAnswered
  BY <1>34, Edges DEF FirstAnswered
<1>35. CASE Return
  BY <1>35, Edges DEF Return
<1>36. CASE RunFile
  BY <1>36, Edges DEF RunFile
<1>37. CASE Correlate
  BY <1>37, Edges DEF Correlate
<1>38. CASE SaveRow \/ LoseRow
  BY <1>38, Rows DEF RowDoneAs
<1> QED BY <1>1, <1>2, <1>3, <1>4, <1>5, <1>6, <1>7, <1>8, <1>9, <1>10, <1>11, <1>12, <1>13,
          <1>14, <1>15, <1>16, <1>17, <1>18, <1>19, <1>20, <1>21, <1>22, <1>23, <1>24, <1>25,
          <1>26, <1>27, <1>28, <1>29, <1>30, <1>31, <1>32, <1>33, <1>34, <1>35, <1>36, <1>37,
          <1>38 DEF Step

\* What a step does to the log: nothing, an input, or an outcome.
Event(e) == audit' = Append(audit, e)

LogsNothing ==
  /\ UNCHANGED <<audit, lastId>>
  /\ \/ Leaves /\ ~Unsettled(Top)
     \/ /\ frames' # <<>> /\ Top'.turn = Top.turn /\ Top'.id = Top.id
        /\ Unsettled(Top') <=> Unsettled(Top)

LogsInput ==
  /\ Top.pc = "begin" /\ lastId' = lastId + 1
  /\ Event([run |-> run, id |-> lastId + 1, turn |-> Top.turn, phase |-> "input"])
  /\ frames' # <<>> /\ Top'.turn = Top.turn /\ Top'.id = lastId + 1 /\ Unsettled(Top')

LogsOutcome ==
  /\ Unsettled(Top) /\ lastId' = lastId
  /\ \E phase : /\ phase # "input"
                /\ Event([run |-> run, id |-> Top.id, turn |-> Top.turn, phase |-> phase])
  /\ \/ Leaves
     \/ frames' # <<>> /\ Top'.turn = Top.turn /\ Top'.id = Top.id /\ ~Unsettled(Top')

LogMove == run' = run /\ (LogsNothing \/ LogsInput \/ LogsOutcome)

LEMMA LogMoves ==
  ASSUME Known, lastId \in Nat, Placed(Top), Step \/ Connected \/ Return
  PROVE  LogMove
<1> USE DEF At, Moved, Flags, On, Silent, Speaks, Over, Answered, Prints, Saves, Keeps, LogMove,
            LogsNothing, LogsInput, LogsOutcome, Event, Log, Unsettled, Placed, IsStream, Known,
            Typed, FrameType, records
<1>1. CASE Enter
  BY <1>1, Edges DEF Enter
<1>2. CASE LogTeleport
  BY <1>2, Edges DEF LogTeleport
<1>3. CASE RefuseInput
  BY <1>3, Edges DEF RefuseInput
<1>4. CASE Info
  BY <1>4, Edges DEF Info
<1>5. CASE Clear
  BY <1>5, Edges DEF Clear
<1>6. CASE Think
  BY <1>6, Edges DEF Think
<1>7. CASE SetLevel
  BY <1>7, Edges DEF SetLevel
<1>8. CASE Tool
  BY <1>8, Edges DEF Tool
<1>9. CASE Rune
  BY <1>9, Edges DEF Rune
<1>10. CASE RouteTeleport
  BY <1>10, Edges DEF RouteTeleport
<1>11. CASE Question
  BY <1>11, Edges DEF Question
<1>12. CASE EarlyReply
  BY <1>12, Edges DEF EarlyReply
<1>13. CASE Ready
  BY <1>13, Edges DEF Ready
<1>14. CASE EngineAnswers
  BY <1>14, Edges DEF EngineAnswers
<1>15. CASE EngineFails
  BY <1>15, Edges DEF EngineFails
<1>16. CASE CloudAnswers
  BY <1>16, Edges DEF CloudAnswers
<1>17. CASE CloudFails
  BY <1>17, Edges DEF CloudFails
<1>18. CASE Extract
  BY <1>18, Edges DEF Extract
<1>19. CASE NoCall
  BY <1>19, Edges DEF NoCall
<1>20. CASE SecondLocal
  BY <1>20, Edges DEF SecondLocal
<1>21. CASE SecondCloud
  BY <1>21, Edges DEF SecondCloud
<1>22. CASE Push
  BY <1>22, Edges DEF Push
<1>23. CASE NarrateLocal
  BY <1>23, Edges DEF NarrateLocal
<1>24. CASE NarratedLocal
  BY <1>24, Edges DEF NarratedLocal
<1>25. CASE NarrateCloud
  BY <1>25, Edges DEF NarrateCloud
<1>26. CASE NoNarration
  BY <1>26, Edges DEF NoNarration
<1>27. CASE Narrated
  BY <1>27, Edges DEF Narrated
<1>28. CASE FinishTurn
  BY <1>28, Edges DEF FinishTurn
<1>29. CASE Analyze
  BY <1>29, Edges DEF Analyze
<1>30. CASE NothingRan
  BY <1>30, Edges DEF NothingRan
<1>31. CASE NoBridge
  BY <1>31, Edges DEF NoBridge
<1>32. CASE StartBridge
  BY <1>32, Edges DEF StartBridge
<1>33. CASE Connected
  BY <1>33, Edges DEF Connected
<1>34. CASE FirstAnswered
  BY <1>34, Edges DEF FirstAnswered
<1>35. CASE Return
  BY <1>35, Edges DEF Return
<1>36. CASE RunFile
  BY <1>36, Edges DEF RunFile
<1>37. CASE Correlate
  BY <1>37, Edges DEF Correlate
<1>38. CASE SaveRow \/ LoseRow
  BY <1>38, Rows DEF RowDoneAs, SaveRow, LoseRow
<1> QED BY <1>1, <1>2, <1>3, <1>4, <1>5, <1>6, <1>7, <1>8, <1>9, <1>10, <1>11, <1>12, <1>13,
          <1>14, <1>15, <1>16, <1>17, <1>18, <1>19, <1>20, <1>21, <1>22, <1>23, <1>24, <1>25,
          <1>26, <1>27, <1>28, <1>29, <1>30, <1>31, <1>32, <1>33, <1>34, <1>35, <1>36, <1>37,
          <1>38 DEF Step

\* The events of the turn under way, or of one that waits.
LogFrame(f) ==
  /\ f.id <= lastId
  /\ \A i \in 1 .. Len(audit) : audit[i].turn = f.turn =>
       /\ f.id # 0 /\ audit[i].run = run /\ audit[i].id = f.id
       /\ IsInput(i) => \A p \in 1 .. Len(audit) : i < p => f.turn <= audit[p].turn
       /\ Unsettled(f) => IsInput(i)
  /\ f.id # 0 => \E i \in 1 .. Len(audit) : audit[i].turn = f.turn /\ IsInput(i)
  /\ f.id # 0 /\ ~Unsettled(f) => \E i \in 1 .. Len(audit) : audit[i].turn = f.turn /\ ~IsInput(i)

LogType ==
  /\ audit \in Seq(Range(audit)) /\ Len(audit) \in Nat /\ run \in Nat
  /\ \A i \in 1 .. Len(audit) :
       /\ audit[i].turn \in 1 .. begun /\ audit[i].run \in 0 .. run
       /\ audit[i].run = run => audit[i].id \in 0 .. lastId

LogOnce ==
  /\ \A i, j \in 1 .. Len(audit) :
       audit[i].turn = audit[j].turn /\ (IsInput(i) <=> IsInput(j)) => i = j
  /\ \A i \in 1 .. Len(audit) : ~IsInput(i) =>
       \E k \in 1 .. Len(audit) : IsInput(k) /\ k < i /\ audit[k].turn = audit[i].turn
  /\ \A k \in 1 .. Len(audit) : IsInput(k) /\ audit[k].turn \in over =>
       \E i \in 1 .. Len(audit) : ~IsInput(i) /\ audit[i].turn = audit[k].turn

LogIds ==
  \A i, j \in 1 .. Len(audit) : i < j /\ audit[i].run = audit[j].run =>
    /\ audit[i].id = audit[j].id <=> audit[i].turn = audit[j].turn
    /\ IsInput(i) /\ IsInput(j) => audit[i].id < audit[j].id

\* Turns get into the log in the order they began, and out of it in the other.
LogNested ==
  /\ \A k, l \in 1 .. Len(audit) :
       IsInput(k) /\ IsInput(l) /\ k < l => audit[k].turn < audit[l].turn
  /\ \A k, l, i, j \in 1 .. Len(audit) :
       /\ IsInput(k) /\ IsInput(l) /\ ~IsInput(i) /\ ~IsInput(j)
       /\ audit[i].turn = audit[k].turn /\ audit[j].turn = audit[l].turn /\ k < l /\ l < i
       => j < i

LogInv ==
  /\ LogType /\ LogOnce /\ LogIds /\ LogNested
  /\ PlacedInv
  /\ \A q \in 1 .. Len(frames) : LogFrame(frames[q])

LEMMA InitLog == Init => LogInv
<1> SUFFICES ASSUME Init PROVE LogInv
  OBVIOUS
<1>1. /\ audit = <<>> /\ frames = <<>> /\ Len(audit) = 0 /\ Len(frames) = 0 /\ run = 0
  BY DEF Init
<1>2. audit \in Seq(Range(audit))
  BY <1>1, EmptySeq
<1> QED BY <1>1, <1>2 DEF LogInv, LogType, LogOnce, LogIds, LogNested, PlacedInv

\* One event more.
LEMMA OneEvent ==
  ASSUME LogType, NEW e, Event(e)
  PROVE  /\ audit' \in Seq(Range(audit')) /\ Len(audit) \in Nat /\ Len(audit') = Len(audit) + 1
         /\ audit'[Len(audit) + 1] = e
         /\ \A i \in 1 .. Len(audit) :
              /\ audit'[i] = audit[i] /\ i \in 1 .. Len(audit') /\ i < Len(audit) + 1
              /\ IsInput(i)' <=> IsInput(i)
         /\ \A i \in 1 .. Len(audit') : i = Len(audit) + 1 \/ i \in 1 .. Len(audit)
         /\ Len(audit) + 1 \in 1 .. Len(audit')
<1> DEFINE n == Len(audit)
           S == Range(audit) \cup {e}
<1>1. n \in Nat /\ audit \in Seq(S)
  BY SeqMonotonic DEF LogType
<1> HIDE DEF S
<1>2. e \in S
  BY DEF S
<1>3. /\ audit' \in Seq(S) /\ Len(audit') = n + 1 /\ audit'[n + 1] = e
      /\ \A i \in 1 .. n : audit'[i] = audit[i]
  BY <1>1, <1>2, AppendProperties DEF Event
<1>4. audit' \in Seq(Range(audit'))
  BY <1>3, Holds
<1>5. /\ \A i \in 1 .. n : i \in 1 .. n + 1 /\ i < n + 1
      /\ \A i \in 1 .. n + 1 : i = n + 1 \/ i \in 1 .. n
      /\ n + 1 \in 1 .. n + 1
  BY <1>1
<1> QED BY <1>1, <1>3, <1>4, <1>5 DEF IsInput

\* An event of the turn under way does not disturb those that wait.
LEMMA LogFrameOld ==
  ASSUME LogType, NEW e, Event(e), NEW f, LogFrame(f), f.turn \in Nat, f.id \in Nat,
         e.turn \in Nat, f.turn < e.turn, lastId \in Nat, lastId' \in {lastId, lastId + 1},
         run' = run
  PROVE  LogFrame(f)'
<1> DEFINE n == Len(audit)
<1>1. /\ n \in Nat /\ Len(audit') = n + 1 /\ audit'[n + 1] = e
      /\ \A i \in 1 .. n : /\ audit'[i] = audit[i] /\ i \in 1 .. n + 1 /\ i < n + 1
                           /\ IsInput(i)' <=> IsInput(i)
      /\ \A i \in 1 .. n + 1 : i = n + 1 \/ i \in 1 .. n
  BY OneEvent
<1>2. f.id <= lastId'
  BY DEF LogFrame
<1>3. f.turn # e.turn /\ f.turn <= e.turn
  OBVIOUS
<1>4. ASSUME NEW i \in 1 .. n + 1, audit'[i].turn = f.turn
      PROVE  /\ f.id # 0 /\ audit'[i].run = run' /\ audit'[i].id = f.id
             /\ IsInput(i)' => \A p \in 1 .. n + 1 : i < p => f.turn <= audit'[p].turn
             /\ Unsettled(f) => IsInput(i)'
  <2>1. i \in 1 .. n
    BY <1>1, <1>3, <1>4
  <2>2. /\ f.id # 0 /\ audit[i].run = run /\ audit[i].id = f.id
        /\ IsInput(i) => \A p \in 1 .. n : i < p => f.turn <= audit[p].turn
        /\ Unsettled(f) => IsInput(i)
    BY <1>1, <1>4, <2>1 DEF LogFrame
  <2>3. ASSUME IsInput(i)', NEW p \in 1 .. n + 1, i < p PROVE f.turn <= audit'[p].turn
    BY <1>1, <1>3, <2>1, <2>2, <2>3
  <2> QED BY <1>1, <2>1, <2>2, <2>3
<1>5. f.id # 0 => \E i \in 1 .. n + 1 : audit'[i].turn = f.turn /\ IsInput(i)'
  BY <1>1 DEF LogFrame
<1>6. f.id # 0 /\ ~Unsettled(f) => \E i \in 1 .. n + 1 : audit'[i].turn = f.turn /\ ~IsInput(i)'
  BY <1>1 DEF LogFrame
<1> QED BY <1>1, <1>2, <1>4, <1>5, <1>6 DEF LogFrame, Unsettled

\* What it says is about the turn, its id and whether it is settled.
LEMMA LogFrameAlike ==
  ASSUME NEW f, NEW g, LogFrame(f), g.turn = f.turn, g.id = f.id, Unsettled(g) <=> Unsettled(f),
         UNCHANGED <<audit, lastId, run>>
  PROVE  LogFrame(g)'
<1>1. (IsInput(0)' = IsInput(0)) /\ \A i : IsInput(i)' = IsInput(i)
  BY DEF IsInput
<1>2. Unsettled(g)' = Unsettled(g)
  BY DEF Unsettled
<1> QED BY <1>1, <1>2 DEF LogFrame

\* The turns that wait below the one that runs, and what became of that.
LEMMA Shape ==
  ASSUME StackInv, frames # <<>>, (\E g : Goes(g)) \/ Leaves
  PROVE  /\ begun' = begun /\ Len(frames') \in Nat /\ over \subseteq over'
         /\ over' \subseteq over \cup {Top.turn}
         /\ \A q \in 1 .. Len(frames') :
              \/ /\ q \in 1 .. Len(frames) /\ frames'[q] = frames[q]
                 /\ frames[q].turn \in Nat /\ frames[q].turn < Top.turn
              \/ ~Leaves /\ frames' # <<>> /\ frames'[q] = Top'
         /\ Leaves /\ frames' # <<>> => Top'.turn # Top.turn
         /\ ~Leaves => over' = over
<1> DEFINE n == Len(frames)
<1>1. n \in 1 .. n /\ n \in Nat /\ Top = frames[n] /\ Top.turn \in Nat
  BY TopKnown DEF StackInv
<1>2. ASSUME NEW q \in 1 .. n - 1
      PROVE  q \in 1 .. n /\ frames[q].turn \in Nat /\ frames[q].turn < Top.turn
  BY <1>1, <1>2 DEF StackInv
<1>3. CASE Leaves
  <2>1. /\ Len(frames') = n - 1 /\ Len(frames') \in Nat
        /\ \A q \in 1 .. n - 1 : frames'[q] = frames[q]
    BY <1>3, Under
  <2>2. ASSUME frames' # <<>> PROVE Top'.turn # Top.turn
    <3>1. n - 1 \in 1 .. n - 1
      BY <1>1, <1>3, <2>1, <2>2, Under, EmptySeq
    <3>2. Top' = frames[n - 1]
      BY <2>1, <3>1 DEF Top, Last
    <3> QED BY <1>1, <1>2, <3>1, <3>2
  <2> QED BY <1>2, <1>3, <2>1, <2>2 DEF Leaves
<1>4. CASE (\E g : Goes(g)) /\ ~Leaves
  <2>1. PICK g : Goes(g)
    BY <1>4
  <2>2. /\ Len(frames') = n /\ frames' # <<>> /\ Top' = g /\ frames'[n] = g
        /\ \A q \in 1 .. n - 1 : frames'[q] = frames[q]
    BY <2>1, Becomes DEF Goes
  <2>3. \A q \in 1 .. n : q = n \/ q \in 1 .. n - 1
    BY <1>1
  <2> QED BY <1>1, <1>2, <1>4, <2>1, <2>2, <2>3 DEF Goes
<1> QED BY <1>3, <1>4

\* The log when a turn is told of that is not in it.
LEMMA InputLogged ==
  ASSUME LogType, LogOnce, LogIds, LogNested, lastId \in Nat, begun \in Nat,
         NEW t \in 1 .. begun, t \notin over, over' \subseteq over, begun' = begun, run' = run,
         \A i \in 1 .. Len(audit) : audit[i].turn < t, lastId' = lastId + 1,
         Event([run |-> run, id |-> lastId + 1, turn |-> t, phase |-> "input"])
  PROVE  LogType' /\ LogOnce' /\ LogIds' /\ LogNested'
<1>1. PICK e : e = [run |-> run, id |-> lastId + 1, turn |-> t, phase |-> "input"]
  OBVIOUS
<1>a. PICK n : n = Len(audit)
  OBVIOUS
<1> USE <1>a
<1>2. /\ audit' \in Seq(Range(audit')) /\ n \in Nat /\ Len(audit') = n + 1 /\ audit'[n + 1] = e
      /\ \A i \in 1 .. n : /\ audit'[i] = audit[i] /\ i \in 1 .. n + 1 /\ i < n + 1
                           /\ IsInput(i)' <=> IsInput(i)
      /\ \A i \in 1 .. n + 1 : i = n + 1 \/ i \in 1 .. n
      /\ n + 1 \in 1 .. n + 1
  BY <1>1, OneEvent
<1>3. e.run = run /\ e.id = lastId + 1 /\ e.turn = t /\ IsInput(n + 1)'
  BY <1>1, <1>2 DEF IsInput
<1>4. \A i \in 1 .. n :
        /\ audit[i].turn \in 1 .. begun /\ audit[i].turn < t /\ audit[i].turn # t
        /\ audit[i].run \in 0 .. run
        /\ audit[i].run = run => /\ audit[i].id \in 0 .. lastId /\ audit[i].id # lastId + 1
                                 /\ audit[i].id < lastId + 1 /\ audit[i].id \in 0 .. lastId + 1
  BY DEF LogType
<1>5. LogType'
  <2>1. n + 1 \in Nat /\ run \in Nat /\ run \in 0 .. run /\ lastId + 1 \in 0 .. lastId + 1
    BY <1>2 DEF LogType
  <2> QED BY <1>2, <1>3, <1>4, <2>1 DEF LogType
<1>6. LogOnce'
  <2>1. ASSUME NEW i \in 1 .. n + 1, NEW j \in 1 .. n + 1, audit'[i].turn = audit'[j].turn,
               IsInput(i)' <=> IsInput(j)'
        PROVE  i = j
    <3>1. CASE i \in 1 .. n /\ j \in 1 .. n
      <4>1. audit[i].turn = audit[j].turn /\ (IsInput(i) <=> IsInput(j))
        BY <1>2, <2>1, <3>1
      <4> QED BY <3>1, <4>1 DEF LogOnce
    <3>2. CASE i = n + 1 /\ j \in 1 .. n
      BY <1>2, <1>3, <1>4, <2>1, <3>2
    <3>3. CASE i \in 1 .. n /\ j = n + 1
      BY <1>2, <1>3, <1>4, <2>1, <3>3
    <3> QED BY <1>2, <3>1, <3>2, <3>3
  <2>2. ASSUME NEW i \in 1 .. n + 1, ~IsInput(i)'
        PROVE  \E k \in 1 .. n + 1 : IsInput(k)' /\ k < i /\ audit'[k].turn = audit'[i].turn
    BY <1>2, <1>3, <2>2 DEF LogOnce
  <2>3. ASSUME NEW k \in 1 .. n + 1, IsInput(k)', audit'[k].turn \in over'
        PROVE  \E i \in 1 .. n + 1 : ~IsInput(i)' /\ audit'[i].turn = audit'[k].turn
    BY <1>2, <1>3, <2>3 DEF LogOnce
  <2> QED BY <1>2, <2>1, <2>2, <2>3 DEF LogOnce
<1>7. LogIds'
  <2>1. ASSUME NEW i \in 1 .. n + 1, NEW j \in 1 .. n + 1, i < j, audit'[i].run = audit'[j].run
        PROVE  /\ audit'[i].id = audit'[j].id <=> audit'[i].turn = audit'[j].turn
               /\ IsInput(i)' /\ IsInput(j)' => audit'[i].id < audit'[j].id
    <3>1. i \in 1 .. n
      BY <1>2, <2>1
    <3>2. CASE j \in 1 .. n
      BY <1>2, <2>1, <3>1, <3>2 DEF LogIds
    <3>3. CASE j = n + 1
      BY <1>2, <1>3, <1>4, <2>1, <3>1, <3>3
    <3> QED BY <1>2, <3>2, <3>3
  <2> QED BY <1>2, <2>1 DEF LogIds
<1>8. LogNested'
  <2>1. ASSUME NEW k \in 1 .. n + 1, NEW l \in 1 .. n + 1, IsInput(k)', IsInput(l)', k < l
        PROVE  audit'[k].turn < audit'[l].turn
    <3>1. k \in 1 .. n
      BY <1>2, <2>1
    <3>2. CASE l \in 1 .. n
      BY <1>2, <2>1, <3>1, <3>2 DEF LogNested
    <3>3. CASE l = n + 1
      BY <1>2, <1>3, <1>4, <3>1, <3>3
    <3> QED BY <1>2, <3>2, <3>3
  <2>2. ASSUME NEW k \in 1 .. n + 1, NEW l \in 1 .. n + 1, NEW i \in 1 .. n + 1,
               NEW j \in 1 .. n + 1, IsInput(k)', IsInput(l)', ~IsInput(i)', ~IsInput(j)',
               audit'[i].turn = audit'[k].turn, audit'[j].turn = audit'[l].turn, k < l, l < i
        PROVE  j < i
    <3>1. i \in 1 .. n /\ j \in 1 .. n
      BY <1>2, <1>3, <2>2
    <3>2. l \in 1 .. n /\ k \in 1 .. n
      BY <1>2, <2>2, <3>1
    <3> QED BY <1>2, <2>2, <3>1, <3>2 DEF LogNested
  <2> QED BY <1>2, <2>1, <2>2 DEF LogNested
<1> QED BY <1>5, <1>6, <1>7, <1>8

\* The log when a turn that is in it is told the outcome of.
LEMMA OutcomeLogged ==
  ASSUME LogType, LogOnce, LogIds, LogNested, lastId \in Nat, begun \in Nat,
         NEW f, LogFrame(f), Unsettled(f), f.id # 0, f.id \in Nat, f.turn \in 1 .. begun,
         over' \subseteq over \cup {f.turn}, begun' = begun, run' = run, lastId' = lastId,
         NEW phase, phase # "input",
         Event([run |-> run, id |-> f.id, turn |-> f.turn, phase |-> phase])
  PROVE  LogType' /\ LogOnce' /\ LogIds' /\ LogNested'
<1>1. PICK e : e = [run |-> run, id |-> f.id, turn |-> f.turn, phase |-> phase]
  OBVIOUS
<1>0. PICK t : t = f.turn
  OBVIOUS
<1>a. PICK n : n = Len(audit)
  OBVIOUS
<1> USE <1>a
<1>2. /\ audit' \in Seq(Range(audit')) /\ n \in Nat /\ Len(audit') = n + 1 /\ audit'[n + 1] = e
      /\ \A i \in 1 .. n : /\ audit'[i] = audit[i] /\ i \in 1 .. n + 1 /\ i < n + 1
                           /\ IsInput(i)' <=> IsInput(i)
      /\ \A i \in 1 .. n + 1 : i = n + 1 \/ i \in 1 .. n
      /\ n + 1 \in 1 .. n + 1
  BY <1>1, OneEvent
<1>3. e.run = run /\ e.id = f.id /\ e.turn = t /\ ~IsInput(n + 1)'
  BY <1>0, <1>1, <1>2 DEF IsInput
<1>4. PICK c \in 1 .. n : /\ audit[c].turn = t /\ IsInput(c)
                          /\ audit[c].run = run /\ audit[c].id = f.id
                          /\ \A p \in 1 .. n : c < p => t <= audit[p].turn
  BY <1>0 DEF LogFrame
<1>5. \A i \in 1 .. n : audit[i].turn = t =>
        IsInput(i) /\ audit[i].run = run /\ audit[i].id = f.id /\ i = c
  BY <1>0, <1>4 DEF LogFrame, LogOnce
<1>6. ASSUME NEW i \in 1 .. n, audit[i].run = run, audit[i].id = f.id PROVE audit[i].turn = t
  <2>1. i < c \/ c < i \/ i = c
    BY <1>2
  <2> QED BY <1>4, <1>6, <2>1 DEF LogIds
<1>7. LogType'
  <2>1. n + 1 \in Nat /\ run \in Nat /\ run \in 0 .. run /\ f.id \in 0 .. lastId
    BY <1>2 DEF LogType, LogFrame
  <2> QED BY <1>0, <1>2, <1>3, <2>1 DEF LogType
<1>8. LogOnce'
  <2>1. ASSUME NEW i \in 1 .. n + 1, NEW j \in 1 .. n + 1, audit'[i].turn = audit'[j].turn,
               IsInput(i)' <=> IsInput(j)'
        PROVE  i = j
    BY <1>2, <1>3, <1>5, <2>1 DEF LogOnce
  <2>2. ASSUME NEW i \in 1 .. n + 1, ~IsInput(i)'
        PROVE  \E k \in 1 .. n + 1 : IsInput(k)' /\ k < i /\ audit'[k].turn = audit'[i].turn
    <3>1. CASE i \in 1 .. n
      <4>1. ~IsInput(i) /\ audit'[i] = audit[i]
        BY <1>2, <2>2, <3>1
      <4>2. PICK k \in 1 .. n : IsInput(k) /\ k < i /\ audit[k].turn = audit[i].turn
        BY <3>1, <4>1 DEF LogOnce
      <4>3. k \in 1 .. n + 1 /\ IsInput(k)' /\ audit'[k] = audit[k]
        BY <1>2, <4>2
      <4> QED BY <4>1, <4>2, <4>3
    <3>2. CASE i = n + 1
      BY <1>2, <1>3, <1>4, <3>2
    <3> QED BY <1>2, <3>1, <3>2
  <2>3. ASSUME NEW k \in 1 .. n + 1, IsInput(k)', audit'[k].turn \in over'
        PROVE  \E i \in 1 .. n + 1 : ~IsInput(i)' /\ audit'[i].turn = audit'[k].turn
    <3>1. k \in 1 .. n /\ (audit[k].turn = t \/ audit[k].turn \in over)
      BY <1>0, <1>2, <1>3, <2>3
    <3>2. CASE audit[k].turn = t
      BY <1>2, <1>3, <3>1, <3>2
    <3>3. CASE audit[k].turn \in over
      BY <1>2, <2>3, <3>1, <3>3 DEF LogOnce
    <3> QED BY <3>1, <3>2, <3>3
  <2> QED BY <1>2, <2>1, <2>2, <2>3 DEF LogOnce
<1>9. LogIds'
  <2>1. ASSUME NEW i \in 1 .. n + 1, NEW j \in 1 .. n + 1, i < j, audit'[i].run = audit'[j].run
        PROVE  /\ audit'[i].id = audit'[j].id <=> audit'[i].turn = audit'[j].turn
               /\ IsInput(i)' /\ IsInput(j)' => audit'[i].id < audit'[j].id
    <3>1. i \in 1 .. n
      BY <1>2, <2>1
    <3>2. CASE j \in 1 .. n
      BY <1>2, <2>1, <3>1, <3>2 DEF LogIds
    <3>3. CASE j = n + 1
      BY <1>2, <1>3, <1>5, <1>6, <2>1, <3>1, <3>3
    <3> QED BY <1>2, <3>2, <3>3
  <2> QED BY <1>2, <2>1 DEF LogIds
<1>10. LogNested'
  <2>1. ASSUME NEW k \in 1 .. n + 1, NEW l \in 1 .. n + 1, IsInput(k)', IsInput(l)', k < l
        PROVE  audit'[k].turn < audit'[l].turn
    <3>1. k \in 1 .. n /\ l \in 1 .. n
      BY <1>2, <1>3, <2>1
    <3> QED BY <1>2, <2>1, <3>1 DEF LogNested
  <2>2. ASSUME NEW k \in 1 .. n + 1, NEW l \in 1 .. n + 1, NEW i \in 1 .. n + 1,
               NEW j \in 1 .. n + 1, IsInput(k)', IsInput(l)', ~IsInput(i)', ~IsInput(j)',
               audit'[i].turn = audit'[k].turn, audit'[j].turn = audit'[l].turn, k < l, l < i
        PROVE  j < i
    <3>1. k \in 1 .. n /\ l \in 1 .. n /\ IsInput(k) /\ IsInput(l) /\ audit[k].turn < audit[l].turn
      BY <1>2, <1>3, <2>2 DEF LogNested
    <3>2. CASE i \in 1 .. n /\ j \in 1 .. n
      BY <1>2, <2>2, <3>1, <3>2 DEF LogNested
    <3>3. CASE i \in 1 .. n /\ j = n + 1
      <4>1. l = c
        BY <1>2, <1>3, <1>5, <2>2, <3>1, <3>3
      <4>2. t <= audit[i].turn /\ audit[i].turn = audit[k].turn /\ audit[k].turn < t
        BY <1>2, <1>4, <2>2, <3>1, <3>3, <4>1
      <4>3. t \in Nat /\ audit[k].turn \in Nat
        BY <1>0, <3>1 DEF LogType
      <4> QED BY <4>2, <4>3
    <3>4. CASE i = n + 1 /\ j \in 1 .. n
      BY <1>2, <3>4
    <3>5. CASE i = n + 1 /\ j = n + 1
      <4>1. audit[k].turn = audit[l].turn
        BY <1>2, <2>2, <3>1, <3>5
      <4>2. k = l
        BY <3>1, <4>1 DEF LogOnce
      <4>3. k \in Nat
        BY <3>1
      <4> QED BY <2>2, <4>2, <4>3
    <3> QED BY <1>2, <3>2, <3>3, <3>4, <3>5
  <2> QED BY <1>2, <2>1, <2>2 DEF LogNested
<1> QED BY <1>7, <1>8, <1>9, <1>10

\* The turn under way, when its input or its outcome has been logged.
LEMMA LogFrameLogged ==
  ASSUME LogType, run' = run, NEW f, NEW g, LogFrame(f), g.turn = f.turn, g.id # 0, g.id \in Nat,
         f.id \in Nat, f.turn \in Nat, lastId \in Nat, lastId' \in Nat, g.id <= lastId', NEW phase,
         f.id = 0 \/ f.id = g.id, Unsettled(g) <=> phase = "input", phase = "input" <=> f.id = 0,
         f.id # 0 => Unsettled(f),
         Event([run |-> run, id |-> g.id, turn |-> g.turn, phase |-> phase])
  PROVE  LogFrame(g)'
<1>0. PICK e : e = [run |-> run, id |-> g.id, turn |-> g.turn, phase |-> phase]
  OBVIOUS
<1>a. PICK n : n = Len(audit)
  OBVIOUS
<1> USE <1>a
<1>1. /\ n \in Nat /\ Len(audit') = n + 1 /\ audit'[n + 1] = e /\ n + 1 \in 1 .. n + 1
      /\ \A i \in 1 .. n : /\ audit'[i] = audit[i] /\ i \in 1 .. n + 1 /\ i < n + 1
                           /\ IsInput(i)' <=> IsInput(i)
      /\ \A i \in 1 .. n + 1 : i = n + 1 \/ i \in 1 .. n
  BY <1>0, OneEvent
<1>2. /\ e.turn = f.turn /\ e.run = run /\ e.id = g.id /\ (IsInput(n + 1)' <=> phase = "input")
      /\ f.turn <= f.turn
  BY <1>0, <1>1 DEF IsInput
<1>3. ASSUME NEW i \in 1 .. n + 1, audit'[i].turn = f.turn
      PROVE  /\ audit'[i].run = run' /\ audit'[i].id = g.id
             /\ IsInput(i)' => \A p \in 1 .. n + 1 : i < p => f.turn <= audit'[p].turn
             /\ Unsettled(g) => IsInput(i)'
  <2>1. CASE i \in 1 .. n
    <3>1. /\ f.id # 0 /\ audit[i].run = run /\ audit[i].id = f.id
          /\ IsInput(i) => \A p \in 1 .. n : i < p => f.turn <= audit[p].turn
      BY <1>1, <1>3, <2>1 DEF LogFrame
    <3>2. ASSUME IsInput(i)', NEW p \in 1 .. n + 1, i < p PROVE f.turn <= audit'[p].turn
      BY <1>1, <1>2, <2>1, <3>1, <3>2
    <3> QED BY <1>1, <2>1, <3>1, <3>2
  <2>2. CASE i = n + 1
    <3>1. \A p \in 1 .. n + 1 : ~(n + 1 < p)
      BY <1>1
    <3> QED BY <1>1, <1>2, <2>2, <3>1
  <2> QED BY <1>1, <2>1, <2>2
<1>4. \E i \in 1 .. n + 1 : audit'[i].turn = f.turn /\ IsInput(i)'
  <2>1. CASE f.id = 0
    BY <1>1, <1>2, <2>1
  <2>2. CASE f.id # 0
    BY <1>1, <2>2 DEF LogFrame
  <2> QED BY <2>1, <2>2
<1>5. ASSUME ~Unsettled(g) PROVE \E i \in 1 .. n + 1 : audit'[i].turn = f.turn /\ ~IsInput(i)'
  BY <1>1, <1>2, <1>5
<1> QED BY <1>1, <1>3, <1>4, <1>5 DEF LogFrame, Unsettled

LEMMA LogSame ==
  ASSUME LogInv, UNCHANGED <<audit, lastId, run, frames, over, begun>>
  PROVE  LogInv'
<1>1. \A i : IsInput(i)' = IsInput(i)
  BY DEF IsInput
<1>2. \A f : /\ Unsettled(f)' = Unsettled(f) /\ Placed(f)' = Placed(f)
             /\ LogFrame(f)' = LogFrame(f)
  BY <1>1 DEF Unsettled, Placed, LogFrame
<1>3. LogType'
  BY DEF LogInv, LogType
<1>4. LogOnce'
  BY <1>1 DEF LogInv, LogOnce
<1>5. LogIds'
  BY <1>1 DEF LogInv, LogIds
<1>6. LogNested'
  BY <1>1 DEF LogInv, LogNested
<1>7. PlacedInv'
  BY <1>2 DEF LogInv, PlacedInv
<1>8. (\A q \in 1 .. Len(frames) : LogFrame(frames[q]))'
  BY <1>2 DEF LogInv
<1> QED BY <1>3, <1>4, <1>5, <1>6, <1>7, <1>8 DEF LogInv

LEMMA StepLog ==
  ASSUME StackInv, lastId \in Nat, LogInv, Next
  PROVE  LogInv'
<1>0. begun \in Nat /\ Len(frames) \in Nat /\ LogType /\ LogOnce /\ LogIds /\ LogNested
  BY DEF StackInv, LogInv
<1>1. CASE Typed /\ (Step \/ Connected \/ Return) /\ ((\E g : Goes(g)) \/ Leaves)
  <2>1. /\ frames # <<>> /\ FrameType(Top) /\ Current(Top) /\ Known
        /\ Top.turn \in 1 .. begun \ over
        /\ Top = frames[Len(frames)] /\ Len(frames) \in 1 .. Len(frames)
    BY <1>1, TopSteps, TopKnown DEF Typed
  <2>2. Placed(Top) /\ LogFrame(Top) /\ Top.id \in Nat /\ Top.turn \in Nat
    BY <2>1 DEF LogInv, PlacedInv, FrameType
  <2>3. LogMove /\ PlacedMove
    BY <1>1, <2>1, <2>2, LogMoves, PlacedMoves
  <2>4. /\ begun' = begun /\ Len(frames') \in Nat /\ over' \subseteq over \cup {Top.turn}
        /\ \A q \in 1 .. Len(frames') :
              \/ /\ q \in 1 .. Len(frames) /\ frames'[q] = frames[q]
                 /\ frames[q].turn \in Nat /\ frames[q].turn < Top.turn
              \/ ~Leaves /\ frames' # <<>> /\ frames'[q] = Top'
        /\ Leaves /\ frames' # <<>> => Top'.turn # Top.turn
        /\ ~Leaves => over' = over
    BY <1>1, <2>1, Shape
  <2>5. PlacedInv'
    <3>1. \A q \in 1 .. Len(frames') : Placed(frames'[q])
      BY <2>3, <2>4 DEF PlacedMove, LogInv, PlacedInv
    <3> QED BY <3>1 DEF PlacedInv, Placed, Unsettled
  <2>6. CASE LogsNothing
    <3>1. UNCHANGED <<audit, lastId, run>>
      BY <2>3, <2>6 DEF LogsNothing, LogMove
    <3>2. \A i : IsInput(i)' = IsInput(i)
      BY <3>1 DEF IsInput
    <3>3. LogType' /\ LogIds' /\ LogNested'
      <4>1. LogType'
        BY <1>0, <2>4, <3>1 DEF LogType
      <4>2. LogIds'
        BY <1>0, <3>1, <3>2 DEF LogIds
      <4>3. LogNested'
        BY <1>0, <3>1, <3>2 DEF LogNested
      <4> QED BY <4>1, <4>2, <4>3
    <3>4. LogOnce'
      <4>1. ASSUME NEW k \in 1 .. Len(audit), IsInput(k), audit[k].turn \in over'
            PROVE  \E i \in 1 .. Len(audit) : ~IsInput(i) /\ audit[i].turn = audit[k].turn
        <5>1. CASE audit[k].turn \in over
          BY <1>0, <4>1, <5>1 DEF LogOnce
        <5>2. CASE audit[k].turn = Top.turn /\ audit[k].turn \notin over
          <6>1. ~Unsettled(Top)
            BY <2>4, <2>6, <4>1, <5>2 DEF LogsNothing
          <6> QED BY <2>2, <4>1, <5>2, <6>1 DEF LogFrame
        <5> QED BY <2>4, <4>1, <5>1, <5>2
      <4> QED BY <1>0, <3>1, <3>2, <4>1 DEF LogOnce
    <3>5. ASSUME NEW q \in 1 .. Len(frames') PROVE LogFrame(frames[q])'
      <4>1. CASE q \in 1 .. Len(frames) /\ frames'[q] = frames[q]
        <5>1. LogFrame(frames[q])
          BY <4>1 DEF LogInv
        <5>2. PICK f : f = frames[q]
          OBVIOUS
        <5>3. LogFrame(f)'
          BY <3>1, <5>1, <5>2, LogFrameAlike
        <5> QED BY <4>1, <5>2, <5>3
      <4>2. CASE ~Leaves /\ frames' # <<>> /\ frames'[q] = Top'
        <5>1. PICK f : f = Top
          OBVIOUS
        <5>2. PICK g : g = Top'
          OBVIOUS
        <5>3. g.turn = f.turn /\ g.id = f.id /\ (Unsettled(g) <=> Unsettled(f)) /\ LogFrame(f)
          BY <2>2, <2>6, <4>2, <5>1, <5>2 DEF LogsNothing, Unsettled
        <5>4. LogFrame(g)'
          BY <3>1, <5>3, LogFrameAlike
        <5> QED BY <4>2, <5>2, <5>4
      <4> QED BY <2>4, <3>5, <4>1, <4>2
    <3> QED BY <2>5, <3>3, <3>4, <3>5 DEF LogInv
  <2>7. ASSUME NEW e, Event(e), e.turn = Top.turn, lastId' \in {lastId, lastId + 1}, run' = run,
               NEW q \in 1 .. Len(frames'), q \in 1 .. Len(frames), frames'[q] = frames[q],
               frames[q].turn < Top.turn
        PROVE  LogFrame(frames[q])'
    <3>1. LogFrame(frames[q]) /\ frames[q].turn \in Nat /\ frames[q].id \in Nat
      BY <2>7 DEF LogInv, StackInv, FrameType
    <3>2. PICK f : f = frames[q]
      OBVIOUS
    <3>3. LogFrame(f)'
      BY <1>0, <2>2, <2>7, <3>1, <3>2, LogFrameOld
    <3> QED BY <2>7, <3>2, <3>3
  <2>8. CASE LogsInput
    <3>1. Top.id = 0 /\ Top.turn = begun
      BY <2>1, <2>2, <2>8 DEF LogsInput, Placed, Current, Bridge
    <3>2. ASSUME NEW i \in 1 .. Len(audit) PROVE audit[i].turn < Top.turn
      <4>1. audit[i].turn # Top.turn
        BY <2>2, <3>1 DEF LogFrame
      <4>2. audit[i].turn \in 1 .. begun
        BY <1>0 DEF LogType
      <4> QED BY <1>0, <3>1, <4>1, <4>2
    <3>3. ~Leaves /\ over' = over
      BY <2>4, <2>8 DEF LogsInput
    <3>4. PICK t : t = Top.turn
      OBVIOUS
    <3>5. /\ Event([run |-> run, id |-> lastId + 1, turn |-> t, phase |-> "input"])
          /\ lastId' = lastId + 1 /\ run' = run
      BY <2>3, <2>8, <3>4 DEF LogsInput, LogMove
    <3>6. LogType' /\ LogOnce' /\ LogIds' /\ LogNested'
      BY <1>0, <2>1, <2>4, <3>2, <3>3, <3>4, <3>5, InputLogged
    <3>7. ASSUME NEW q \in 1 .. Len(frames') PROVE LogFrame(frames[q])'
      <4>1. CASE q \in 1 .. Len(frames) /\ frames'[q] = frames[q] /\ frames[q].turn < Top.turn
        <5>1. PICK e : e = [run |-> run, id |-> lastId + 1, turn |-> t, phase |-> "input"]
          OBVIOUS
        <5>2. e.turn = Top.turn /\ Event(e)
          BY <3>4, <3>5, <5>1
        <5> QED BY <2>7, <3>5, <4>1, <5>2
      <4>2. CASE frames'[q] = Top'
        <5>1. PICK f : f = Top
          OBVIOUS
        <5>2. PICK g : g = Top'
          OBVIOUS
        <5>3. /\ g.turn = f.turn /\ g.id = lastId + 1 /\ Unsettled(g) /\ LogFrame(f) /\ f.id = 0
              /\ f.turn \in Nat /\ g.turn = t
          BY <2>2, <2>8, <3>1, <3>4, <5>1, <5>2 DEF LogsInput, Unsettled
        <5>4. g.id \in Nat /\ g.id # 0 /\ g.id <= lastId' /\ lastId' \in Nat
          BY <3>5, <5>3
        <5>5. Event([run |-> run, id |-> g.id, turn |-> g.turn, phase |-> "input"])
          BY <3>5, <5>3
        <5>6. /\ f.id \in Nat /\ (f.id = 0 \/ f.id = g.id) /\ (Unsettled(g) <=> "input" = "input")
              /\ ("input" = "input" <=> f.id = 0) /\ (f.id # 0 => Unsettled(f))
          BY <5>3
        <5>7. PICK phase : phase = "input"
          OBVIOUS
        <5>8. LogFrame(g)'
          BY <1>0, <3>5, <5>3, <5>4, <5>5, <5>6, <5>7, LogFrameLogged
        <5> QED BY <4>2, <5>2, <5>8
      <4> QED BY <2>4, <3>7, <4>1, <4>2
    <3> QED BY <2>5, <3>6, <3>7 DEF LogInv
  <2>9. CASE LogsOutcome
    <3>1. Unsettled(Top) /\ lastId' = lastId /\ run' = run /\ Top.id # 0
      BY <2>2, <2>3, <2>9 DEF LogsOutcome, LogMove, Placed
    <3>2. PICK phase : /\ phase # "input"
                       /\ Event([run |-> run, id |-> Top.id, turn |-> Top.turn, phase |-> phase])
      BY <2>9 DEF LogsOutcome
    <3>3. PICK f : f = Top
      OBVIOUS
    <3>4. /\ LogFrame(f) /\ f.id # 0 /\ f.id \in Nat /\ f.turn \in 1 .. begun /\ Unsettled(f)
          /\ f.turn \in Nat /\ Event([run |-> run, id |-> f.id, turn |-> f.turn, phase |-> phase])
      BY <2>1, <2>2, <3>1, <3>2, <3>3
    <3>5. LogType' /\ LogOnce' /\ LogIds' /\ LogNested'
      BY <1>0, <2>4, <3>1, <3>2, <3>3, <3>4, OutcomeLogged
    <3>6. ASSUME NEW q \in 1 .. Len(frames') PROVE LogFrame(frames[q])'
      <4>1. CASE q \in 1 .. Len(frames) /\ frames'[q] = frames[q] /\ frames[q].turn < Top.turn
        <5>1. PICK e : e = [run |-> run, id |-> f.id, turn |-> f.turn, phase |-> phase]
          OBVIOUS
        <5>2. e.turn = Top.turn /\ Event(e)
          BY <3>3, <3>4, <5>1
        <5> QED BY <2>7, <3>1, <4>1, <5>2
      <4>2. CASE ~Leaves /\ frames'[q] = Top'
        <5>1. PICK g : g = Top'
          OBVIOUS
        <5>2. g.turn = f.turn /\ g.id = f.id /\ ~Unsettled(g)
          BY <2>9, <3>3, <4>2, <5>1 DEF LogsOutcome, Unsettled
        <5>3. g.id <= lastId' /\ g.id # 0 /\ g.id \in Nat
          BY <3>1, <3>4, <5>2 DEF LogFrame
        <5>4. LogFrame(g)'
          BY <1>0, <3>1, <3>2, <3>4, <5>2, <5>3, LogFrameLogged
        <5> QED BY <4>2, <5>1, <5>4
      <4> QED BY <2>4, <3>6, <4>1, <4>2
    <3> QED BY <2>5, <3>5, <3>6 DEF LogInv
  <2> QED BY <2>3, <2>6, <2>8, <2>9 DEF LogMove
<1>2. CASE (Begin \/ DropFiles \/ Message) /\ \E g : Started(g)
  <2>1. PICK g : Started(g)
    BY <1>2
  <2>2. UNCHANGED <<audit, lastId, run>>
    BY <1>2 DEF Begin, DropFiles, Message, records
  <2>3. \A i : IsInput(i)' = IsInput(i)
    BY <2>2 DEF IsInput
  <2>4. over' = over /\ begun' = begun + 1 /\ \A i \in 1 .. begun : i \in 1 .. begun + 1
    BY <1>0, <2>1 DEF Started
  <2>5. LogType' /\ LogOnce' /\ LogIds' /\ LogNested'
    BY <1>0, <2>2, <2>3, <2>4 DEF LogType, LogOnce, LogIds, LogNested
  <2>6. ASSUME NEW q \in 1 .. Len(frames') PROVE LogFrame(frames[q])' /\ Placed(frames[q])'
    <3>1. q \in 1 .. Len(frames) \/ q = Len(frames) + 1
      BY <1>0, <2>1, <2>6 DEF Started
    <3>2. CASE q \in 1 .. Len(frames)
      <4>1. LogFrame(frames[q]) /\ Placed(frames[q]) /\ FrameType(frames[q])
        BY <3>2 DEF LogInv, PlacedInv, StackInv
      <4>2. PICK f : f = frames[q]
        OBVIOUS
      <4>3. PICK h : h = frames'[q]
        OBVIOUS
      <4>4. CASE h = f
        <5>1. LogFrame(h)' /\ Placed(h)
          BY <2>2, <4>1, <4>2, <4>4, LogFrameAlike
        <5> QED BY <4>3, <5>1 DEF Placed, Unsettled
      <4>5. CASE /\ f.pc = "phase1" /\ q = Len(frames)
                 /\ h = Tell([Top EXCEPT !.pc = "connected"], <<"Token">>)
        <5>1. Top = f
          <6>1. frames # <<>>
            BY <3>2, <4>5, EmptySeq
          <6> QED BY <4>2, <4>5, <6>1, TopKnown
        <5>2. h.pc = "connected" /\ h.turn = f.turn /\ h.id = f.id
          BY <4>1, <4>2, <4>5, <5>1 DEF Tell, FrameType, Fields
        <5>3. Unsettled(h) <=> Unsettled(f)
          BY <4>5, <5>2 DEF Unsettled
        <5>4. LogFrame(h)' /\ Placed(h)
          BY <2>2, <4>1, <4>2, <5>2, <5>3, LogFrameAlike DEF Placed, Unsettled
        <5> QED BY <4>3, <5>4 DEF Placed, Unsettled
      <4> QED BY <2>1, <3>2, <4>2, <4>3, <4>4, <4>5 DEF Started
    <3>3. CASE q = Len(frames) + 1
      <4>1. /\ frames'[q] = g /\ g.id = 0 /\ g.turn = begun + 1 /\ g.pc \in {"begin", "analyze"}
        BY <2>1, <3>3 DEF Started
      <4>2. ASSUME NEW i \in 1 .. Len(audit) PROVE audit[i].turn # g.turn
        <5>1. audit[i].turn \in 1 .. begun
          BY <1>0 DEF LogType
        <5> QED BY <1>0, <4>1, <5>1
      <4>3. Placed(g) /\ 0 <= lastId
        BY <4>1 DEF Placed, Unsettled
      <4>4. LogFrame(g)'
        BY <2>2, <2>3, <4>1, <4>2, <4>3 DEF LogFrame
      <4> QED BY <4>1, <4>3, <4>4 DEF Placed, Unsettled
    <3> QED BY <3>1, <3>2, <3>3
  <2> QED BY <2>5, <2>6 DEF LogInv, PlacedInv
<1>3. CASE Configure
  <2>1. UNCHANGED <<audit, lastId, run, frames, over, begun>>
    BY <1>3 DEF Configure, records
  <2> QED BY <2>1, LogSame
<1>4. CASE Kill
  <2>1. /\ audit' = audit /\ run' = run + 1 /\ frames' = <<>> /\ over' = over /\ begun' = begun
        /\ Len(frames') = 0
    BY <1>4 DEF Kill
  <2>2. \A i : IsInput(i)' = IsInput(i)
    BY <2>1 DEF IsInput
  <2>3. /\ run + 1 \in Nat /\ \A r \in 0 .. run : r \in 0 .. run + 1 /\ r # run + 1
    BY <1>0 DEF LogType
  <2>4. LogType' /\ LogOnce' /\ LogIds' /\ LogNested'
    BY <1>0, <2>1, <2>2, <2>3 DEF LogType, LogOnce, LogIds, LogNested
  <2> QED BY <2>1, <2>4 DEF LogInv, PlacedInv
<1> QED BY <1>1, <1>2, <1>3, <1>4, Moves

LEMMA LogHolds == ASSUME LogInv PROVE OneOutcome /\ OwnIds /\ InsideOther
<1>1. /\ DOMAIN audit = 1 .. Len(audit)
      /\ \A i : i \in Inputs <=> i \in 1 .. Len(audit) /\ IsInput(i)
      /\ \A i : i \in Outcomes <=> i \in 1 .. Len(audit) /\ ~IsInput(i)
  BY LenProperties DEF LogInv, LogType, Inputs, Outcomes
<1>2. OneOutcome
  BY <1>1 DEF LogInv, LogOnce, OneOutcome
<1>3. OwnIds
  BY <1>1 DEF LogInv, LogIds, OwnIds
<1>4. InsideOther
  BY <1>1 DEF LogInv, LogNested, InsideOther
<1> QED BY <1>2, <1>3, <1>4

-----------------------------------------------------------------------------
(* What an outcome says.                                                   *)

Spoken == {"llm_start", "rune_with_narration"}

Spoke(t) == \E m \in 1 .. Len(messages) : messages[m].turn = t

\* A turn that has told the session nothing yet, one that may tell it or the
\* vault something, and one that is to be answered as blocked.
Mute(f)   == Unsettled(f) \/ f.pc = "begin"
Writes(f) ==
  \/ f.pc \in Chat \cup Narration \cup {"analyze", "file"}
  \/ f.pc = "saving" /\ f.then # "early"
Barred(f) == f.pc = "early" /\ f.blocked

OutcomeRight(i) ==
  ~IsInput(i) =>
    /\ audit[i].phase = "blocked" => RowsOf(audit[i].turn) = {} /\ ~Spoke(audit[i].turn)
    /\ Spoke(audit[i].turn) => audit[i].phase \in Spoken

TurnRight(f) ==
  /\ Mute(f) => ~Spoke(f.turn)
  /\ Writes(f) => \A i \in 1 .. Len(audit) :
                    audit[i].turn = f.turn /\ ~IsInput(i) => audit[i].phase \in Spoken
  /\ Barred(f) => RowsOf(f.turn) = {}

OutcomeInv ==
  /\ \A i \in 1 .. Len(audit) : OutcomeRight(i)
  /\ \A q \in 1 .. Len(frames) : TurnRight(frames[q])

\* What a step does to the log, the session and the vault together.
Neither ==
  /\ UNCHANGED <<audit, vault>> /\ messages' \in {messages, <<>>}
  /\ \/ Leaves
     \/ /\ frames' # <<>> /\ Top'.turn = Top.turn
        /\ Mute(Top') => Mute(Top)
        /\ Writes(Top') => Writes(Top)
        /\ Barred(Top') => Barred(Top) \/ Top.pc = "route"

TellsInput ==
  /\ UNCHANGED <<vault, messages>> /\ Mute(Top)
  /\ \E id : Event([run |-> run, id |-> id, turn |-> Top.turn, phase |-> "input"])
  /\ frames' # <<>> /\ Top'.turn = Top.turn /\ ~Writes(Top') /\ ~Barred(Top')

TellsOutcome ==
  /\ vault' = vault /\ Unsettled(Top)
  /\ \E phase :
       /\ phase # "input"
       /\ Event([run |-> run, id |-> Top.id, turn |-> Top.turn, phase |-> phase])
       /\ \/ messages' = messages
          \/ phase = "llm_start" /\ messages' = Append(messages, Asks(Top.turn))
       /\ phase = "blocked" => Barred(Top)
       /\ \/ Leaves
          \/ /\ frames' # <<>> /\ Top'.turn = Top.turn /\ ~Mute(Top') /\ ~Barred(Top')
             /\ Writes(Top') => phase \in Spoken

TellsSession ==
  /\ UNCHANGED <<audit, vault>> /\ Writes(Top)
  /\ \/ messages' = Append(messages, Replies(Top.turn))
     \/ messages' = messages \o <<Asks(Top.turn), Replies(Top.turn)>>
  /\ \/ Leaves
     \/ frames' # <<>> /\ Top'.turn = Top.turn /\ ~Mute(Top') /\ ~Barred(Top')

TellsVault ==
  /\ UNCHANGED <<audit, messages>> /\ (Unsettled(Top) \/ Writes(Top))
  /\ vault' \in {vault, Append(vault, Head(Top.todo))} /\ Head(Top.todo).turn = Top.turn
  /\ frames' # <<>> /\ Top'.turn = Top.turn /\ ~Barred(Top')
  /\ Mute(Top') => Mute(Top)
  /\ Writes(Top') => Writes(Top)

OutcomeMove == Neither \/ TellsInput \/ TellsOutcome \/ TellsSession \/ TellsVault

LEMMA OutcomeMoves ==
  ASSUME Known, lastId \in Nat, Placed(Top), Step \/ Connected \/ Return
  PROVE  OutcomeMove
<1> USE DEF At, Moved, Flags, On, Silent, Speaks, Over, Answered, Prints, Saves, Keeps,
            OutcomeMove, Neither, TellsInput, TellsOutcome, TellsSession, TellsVault, Event, Log,
            Unsettled, Placed, IsStream, Known, Typed, FrameType, records, session, Mute, Writes,
            Barred, Chat, Narration, Spoken, Asks, Replies
<1>1. CASE Enter
  BY <1>1, Edges DEF Enter
<1>2. CASE LogTeleport
  BY <1>2, Edges DEF LogTeleport
<1>3. CASE RefuseInput
  BY <1>3, Edges DEF RefuseInput
<1>4. CASE Info
  BY <1>4, Edges DEF Info
<1>5. CASE Clear
  BY <1>5, Edges DEF Clear
<1>6. CASE Think
  BY <1>6, Edges DEF Think
<1>7. CASE SetLevel
  BY <1>7, Edges DEF SetLevel
<1>8. CASE Tool
  BY <1>8, Edges DEF Tool
<1>9. CASE Rune
  BY <1>9, Edges DEF Rune
<1>10. CASE RouteTeleport
  BY <1>10, Edges DEF RouteTeleport
<1>11. CASE Question
  BY <1>11, Edges DEF Question
<1>12. CASE EarlyReply
  <2>1. /\ At("early") /\ UNCHANGED <<vault, messages>> /\ Unsettled(Top) /\ frames # <<>>
        /\ IF Top.followup /\ ~have.strict
             THEN Log("rune_with_narration") /\ On("narrate")
             ELSE /\ Log(CASE Top.followup -> "rune_strict_no_narration"
                          [] Top.blocked  -> "blocked"
                          [] OTHER        -> "command")
                  /\ Leaves
    BY <1>12, Edges DEF EarlyReply
  <2>2. CASE Log("rune_with_narration") /\ On("narrate")
    <3>1. /\ frames' # <<>> /\ Top'.turn = Top.turn /\ ~Mute(Top') /\ ~Barred(Top')
          /\ "rune_with_narration" \in Spoken /\ "rune_with_narration" # "input"
          /\ "rune_with_narration" # "blocked"
      BY <2>2
    <3>2. PICK phase : phase = "rune_with_narration"
      OBVIOUS
    <3> QED BY <2>1, <2>2, <3>1, <3>2 DEF TellsOutcome
  <2>3. ASSUME NEW phase \in {"rune_strict_no_narration", "blocked", "command"}, Log(phase),
               phase = "blocked" => Top.blocked, Leaves
        PROVE  OutcomeMove
    <3>1. phase # "input" /\ (phase = "blocked" => Barred(Top)) /\ messages' = messages
      BY <2>1, <2>3
    <3> QED BY <2>1, <2>3, <3>1 DEF TellsOutcome
  <2>4. CASE Top.followup /\ have.strict
    BY <2>1, <2>3, <2>4
  <2>5. CASE ~Top.followup /\ Top.blocked
    BY <2>1, <2>3, <2>5
  <2>6. CASE ~Top.followup /\ ~Top.blocked
    BY <2>1, <2>3, <2>6
  <2> QED BY <2>1, <2>2, <2>4, <2>5, <2>6
<1>13. CASE Ready
  <2>1. /\ At("ready") /\ vault' = vault /\ Unsettled(Top) /\ frames # <<>>
        /\ IF have.strict
             THEN Log("strict_refused") /\ Leaves /\ messages' = messages
             ELSE /\ Log("llm_start") /\ (On("engine") \/ On("cloud"))
                  /\ messages' = Append(messages, Asks(Top.turn))
    BY <1>13, Edges DEF Ready
  <2>2. CASE have.strict
    <3>1. PICK phase : phase = "strict_refused"
      OBVIOUS
    <3>2. phase # "input" /\ phase # "blocked" /\ Log(phase) /\ Leaves
      BY <2>1, <2>2, <3>1
    <3> QED BY <2>1, <2>2, <3>2 DEF TellsOutcome
  <2>3. CASE ~have.strict
    <3>1. PICK phase : phase = "llm_start"
      OBVIOUS
    <3>2. phase # "input" /\ phase # "blocked" /\ phase \in Spoken
      BY <3>1
    <3>3. frames' # <<>> /\ Top'.turn = Top.turn /\ ~Mute(Top') /\ ~Barred(Top')
      BY <2>1, <2>3
    <3> QED BY <2>1, <2>3, <3>1, <3>2, <3>3 DEF TellsOutcome
  <2> QED BY <2>2, <2>3
<1>14. CASE EngineAnswers
  BY <1>14, Edges DEF EngineAnswers
<1>15. CASE EngineFails
  BY <1>15, Edges DEF EngineFails
<1>16. CASE CloudAnswers
  BY <1>16, Edges DEF CloudAnswers
<1>17. CASE CloudFails
  BY <1>17, Edges DEF CloudFails
<1>18. CASE Extract
  BY <1>18, Edges DEF Extract
<1>19. CASE NoCall
  BY <1>19, Edges DEF NoCall
<1>20. CASE SecondLocal
  BY <1>20, Edges DEF SecondLocal
<1>21. CASE SecondCloud
  BY <1>21, Edges DEF SecondCloud
<1>22. CASE Push
  BY <1>22, Edges DEF Push
<1>23. CASE NarrateLocal
  BY <1>23, Edges DEF NarrateLocal
<1>24. CASE NarratedLocal
  BY <1>24, Edges DEF NarratedLocal
<1>25. CASE NarrateCloud
  BY <1>25, Edges DEF NarrateCloud
<1>26. CASE NoNarration
  BY <1>26, Edges DEF NoNarration
<1>27. CASE Narrated
  BY <1>27, Edges DEF Narrated
<1>28. CASE FinishTurn
  BY <1>28, Edges DEF FinishTurn
<1>29. CASE Analyze
  BY <1>29, Edges DEF Analyze
<1>30. CASE NothingRan
  BY <1>30, Edges DEF NothingRan
<1>31. CASE NoBridge
  BY <1>31, Edges DEF NoBridge
<1>32. CASE StartBridge
  BY <1>32, Edges DEF StartBridge
<1>33. CASE Connected
  BY <1>33, Edges DEF Connected
<1>34. CASE FirstAnswered
  BY <1>34, Edges DEF FirstAnswered
<1>35. CASE Return
  BY <1>35, Edges DEF Return
<1>36. CASE RunFile
  BY <1>36, Edges DEF RunFile
<1>37. CASE Correlate
  BY <1>37, Edges DEF Correlate
<1>38. CASE SaveRow \/ LoseRow
  <2>1. /\ At("saving") /\ RowDoneAs /\ Saving(Top) /\ UNCHANGED <<audit, messages>>
        /\ vault' \in {vault, Append(vault, Head(Top.todo))}
    BY <1>38, Rows DEF SaveRow, LoseRow
  <2>2. Head(Top.todo) \in {User(Top), Printed(Top), Answer(Top)}
    BY <2>1 DEF Saving
  <2>3. Head(Top.todo).turn = Top.turn
    BY <2>2 DEF User, Printed, Answer
  <2>4. Unsettled(Top) \/ Writes(Top)
    BY <2>1
  <2>5. frames' # <<>> /\ Top'.turn = Top.turn /\ ~Barred(Top')
    BY <2>1 DEF RowDoneAs
  <2>6. (Mute(Top') => Mute(Top)) /\ (Writes(Top') => Writes(Top))
    BY <2>1 DEF RowDoneAs
  <2> QED BY <2>1, <2>3, <2>4, <2>5, <2>6 DEF TellsVault
<1> QED BY <1>1, <1>2, <1>3, <1>4, <1>5, <1>6, <1>7, <1>8, <1>9, <1>10, <1>11, <1>12, <1>13,
          <1>14, <1>15, <1>16, <1>17, <1>18, <1>19, <1>20, <1>21, <1>22, <1>23, <1>24, <1>25,
          <1>26, <1>27, <1>28, <1>29, <1>30, <1>31, <1>32, <1>33, <1>34, <1>35, <1>36, <1>37,
          <1>38 DEF Step

\* Of a turn that does not run nothing changes.
LEMMA ElseRight ==
  ASSUME NEW t, NEW f, f.turn # t, TurnRight(f), RowsOf(f.turn)' = RowsOf(f.turn),
         Spoke(f.turn)' => Spoke(f.turn),
         \A i \in 1 .. Len(audit') :
           \/ i \in 1 .. Len(audit) /\ audit'[i] = audit[i] /\ (IsInput(i)' <=> IsInput(i))
           \/ audit'[i].turn = t
  PROVE  TurnRight(f)'
<1> QED BY DEF TurnRight, Mute, Writes, Barred, Unsettled

\* Who is in the session when there are more messages, or none.
LEMMA SpokeMore ==
  ASSUME NEW b, Tells(messages, b), NEW t \in Nat,
         \/ messages' \in {messages, <<>>, Append(messages, Asks(t)), Append(messages, Replies(t))}
         \/ messages' = messages \o <<Asks(t), Replies(t)>>,
         NEW u, Spoke(u)'
  PROVE  /\ Spoke(u) \/ u = t
         /\ messages' \in {messages, <<>>} => Spoke(u)
<1> DEFINE M == [role : {"user", "assistant"}, turn : Nat]
<1>1. messages \in Seq(M) /\ Asks(t) \in M /\ Replies(t) \in M
  BY DEF Tells, Asks, Replies
<1>2. PICK k \in 1 .. Len(messages') : messages'[k].turn = u
  BY DEF Spoke
<1>a. PICK n : n = Len(messages)
  OBVIOUS
<1>3. n \in Nat
  BY <1>1, <1>a, LenProperties
<1>4. Asks(t).turn = t /\ Replies(t).turn = t
  BY DEF Asks, Replies
<1>5. PICK a, r : a = Asks(t) /\ r = Replies(t)
  OBVIOUS
<1> HIDE DEF M
<1>6. CASE messages' \in {messages, <<>>}
  <2>1. messages' = messages
    BY <1>2, <1>6
  <2> QED BY <1>2, <2>1 DEF Spoke
<1>7. ASSUME NEW e \in {a, r}, messages' = Append(messages, e)
      PROVE  (Spoke(u) \/ u = t) /\ messages' \notin {messages, <<>>}
  <2>1. /\ Len(messages') = n + 1 /\ messages'[n + 1] = e
        /\ \A i \in 1 .. n : messages'[i] = messages[i]
    BY <1>1, <1>5, <1>7, <1>a, AppendProperties
  <2>2. k \in 1 .. n \/ k = n + 1
    BY <1>2, <1>3, <2>1
  <2>3. n + 1 # n /\ n + 1 # 0
    BY <1>3
  <2> QED BY <1>2, <1>4, <1>5, <1>a, <2>1, <2>2, <2>3 DEF Spoke
<1>8. CASE messages' = messages \o <<a, r>>
  <2> DEFINE h == Append(messages, a)
  <2>1. messages' = Append(h, r)
    <3>1. messages \in Seq(M) /\ a \in M /\ r \in M
      BY <1>1, <1>5
    <3> QED BY <1>8, <3>1
  <2>2. h \in Seq(M) /\ Len(h) = n + 1 /\ h[n + 1] = a /\ \A i \in 1 .. n : h[i] = messages[i]
    BY <1>1, <1>5, <1>a, AppendProperties
  <2> HIDE DEF h
  <2>3. /\ Len(messages') = n + 1 + 1 /\ messages'[n + 1 + 1] = r
        /\ \A i \in 1 .. n + 1 : messages'[i] = h[i]
    <3>1. /\ Len(messages') = Len(h) + 1 /\ messages'[Len(h) + 1] = r
          /\ \A i \in 1 .. Len(h) : messages'[i] = h[i]
      BY <1>1, <1>5, <2>1, <2>2, AppendProperties
    <3> QED BY <2>2, <3>1
  <2>4. k \in 1 .. n \/ k = n + 1 \/ k = n + 1 + 1
    BY <1>2, <1>3, <2>3
  <2>5. \A i \in 1 .. n : i \in 1 .. n + 1
    BY <1>3
  <2>6. n + 1 \in 1 .. n + 1 /\ n + 1 + 1 # n /\ n + 1 + 1 # 0
    BY <1>3
  <2> QED BY <1>2, <1>4, <1>5, <1>a, <2>2, <2>3, <2>4, <2>5, <2>6 DEF Spoke
<1> QED BY <1>5, <1>6, <1>7, <1>8

\* Only the turn that writes it gets a row.
LEMMA RowsElse ==
  ASSUME VaultInv, NEW r, vault' \in {vault, Append(vault, r)}, NEW u, u # r.turn
  PROVE  RowsOf(u)' = RowsOf(u)
<1>a. PICK n : n = Len(vault)
  OBVIOUS
<1>1. vault \in Seq(Range(vault) \cup {r}) /\ r \in Range(vault) \cup {r} /\ n \in Nat
  BY <1>a, SeqMonotonic, LenProperties DEF VaultInv
<1>2. DOMAIN vault = 1 .. n
  BY <1>1, <1>a, LenProperties
<1>3. CASE vault' = Append(vault, r)
  <2>1. /\ Len(vault') = n + 1 /\ vault'[n + 1] = r /\ DOMAIN vault' = 1 .. n + 1
        /\ \A i \in 1 .. n : vault'[i] = vault[i]
    BY <1>1, <1>3, <1>a, AppendProperties, LenProperties
  <2>2. \A i \in 1 .. n + 1 : i \in 1 .. n \/ i = n + 1
    BY <1>1
  <2>3. \A i \in 1 .. n : i \in 1 .. n + 1
    BY <1>1
  <2> QED BY <1>2, <2>1, <2>2, <2>3 DEF RowsOf
<1>4. CASE vault' = vault
  BY <1>4 DEF RowsOf
<1> QED BY <1>3, <1>4

LEMMA InitOutcome == Init => OutcomeInv
<1> SUFFICES ASSUME Init PROVE OutcomeInv
  OBVIOUS
<1>1. Len(audit) = 0 /\ Len(frames) = 0
  BY DEF Init
<1> QED BY <1>1 DEF OutcomeInv

LEMMA OutcomeSame ==
  ASSUME OutcomeInv, UNCHANGED <<audit, vault, messages, frames>>
  PROVE  OutcomeInv'
<1>1. \A i : OutcomeRight(i)' = OutcomeRight(i)
  BY DEF OutcomeRight, Spoke, RowsOf, IsInput
<1>2. \A f : TurnRight(f)' = TurnRight(f)
  BY DEF TurnRight, Mute, Writes, Barred, Unsettled, Spoke, RowsOf, IsInput
<1> QED BY <1>1, <1>2 DEF OutcomeInv

LEMMA StepOutcome ==
  ASSUME StackInv, lastId \in Nat, HistoryInv, VaultInv, LogInv, OutcomeInv, Next
  PROVE  OutcomeInv'
<1>0. begun \in Nat /\ Len(frames) \in Nat /\ LogType /\ Tells(messages, begun)
  BY DEF StackInv, LogInv, HistoryInv
<1>1. CASE Typed /\ (Step \/ Connected \/ Return) /\ ((\E g : Goes(g)) \/ Leaves)
  <2>1. /\ frames # <<>> /\ FrameType(Top) /\ Current(Top) /\ Known
        /\ Top.turn \in 1 .. begun \ over
        /\ Top = frames[Len(frames)] /\ Len(frames) \in 1 .. Len(frames)
    BY <1>1, TopSteps, TopKnown DEF Typed
  <2>2. Placed(Top) /\ LogFrame(Top) /\ TurnRight(Top) /\ Top.turn \in Nat
    BY <2>1 DEF LogInv, PlacedInv, FrameType, OutcomeInv
  <2>3. OutcomeMove
    BY <1>1, <2>1, <2>2, OutcomeMoves
  <2>a. PICK t : t = Top.turn
    OBVIOUS
  <2>b. PICK f : f = Top
    OBVIOUS
  <2>c. PICK g : g = Top'
    OBVIOUS
  <2>4. /\ Len(frames') \in Nat
        /\ \A q \in 1 .. Len(frames') :
              \/ /\ q \in 1 .. Len(frames) /\ frames'[q] = frames[q]
                 /\ frames[q].turn # t
              \/ ~Leaves /\ frames' # <<>> /\ frames'[q] = g
        /\ Leaves /\ frames' # <<>> => g.turn # t
    <3>1. \A q \in 1 .. Len(frames) : frames[q].turn < Top.turn => frames[q].turn # Top.turn
      BY <2>2
    <3> QED BY <1>1, <2>1, <2>a, <2>c, <3>1, Shape
  <2>5. /\ f.turn = t /\ t \in Nat /\ Placed(f) /\ LogFrame(f) /\ TurnRight(f)
        /\ Unsettled(f) => Mute(f)
    BY <2>2, <2>a, <2>b DEF Mute
  <2>6. Unsettled(f) => \A i \in 1 .. Len(audit) : audit[i].turn = t => IsInput(i)
    BY <2>5 DEF LogFrame
  <2>7. ASSUME \A u : u # t => RowsOf(u)' = RowsOf(u) /\ (Spoke(u)' => Spoke(u)),
               \A i \in 1 .. Len(audit') :
                 \/ /\ i \in 1 .. Len(audit) /\ audit'[i] = audit[i]
                    /\ (IsInput(i)' <=> IsInput(i))
                 \/ audit'[i].turn = t,
               \A i \in 1 .. Len(audit') : audit'[i].turn = t => OutcomeRight(i)',
               ~Leaves => TurnRight(g)'
        PROVE  OutcomeInv'
    <3>1. ASSUME NEW i \in 1 .. Len(audit'), audit'[i].turn # t PROVE OutcomeRight(i)'
      <4>1. /\ i \in 1 .. Len(audit) /\ audit'[i] = audit[i] /\ (IsInput(i)' <=> IsInput(i))
        BY <2>7, <3>1
      <4>2. PICK u : u = audit[i].turn
        OBVIOUS
      <4>3. OutcomeRight(i) /\ u # t
        BY <3>1, <4>1, <4>2 DEF OutcomeInv
      <4>4. RowsOf(u)' = RowsOf(u) /\ (Spoke(u)' => Spoke(u))
        BY <2>7, <4>3
      <4>5. RowsOf(audit[i].turn)' = RowsOf(u)' /\ Spoke(audit[i].turn)' = Spoke(u)'
        BY <4>1, <4>2 DEF RowsOf, Spoke
      <4> QED BY <4>1, <4>2, <4>3, <4>4, <4>5 DEF OutcomeRight
    <3>2. ASSUME NEW q \in 1 .. Len(frames') PROVE TurnRight(frames[q])'
      <4>1. CASE q \in 1 .. Len(frames) /\ frames'[q] = frames[q] /\ frames[q].turn # t
        <5>1. PICK h : h = frames[q]
          OBVIOUS
        <5>2. TurnRight(h) /\ h.turn # t
          BY <4>1, <5>1 DEF OutcomeInv
        <5>3. TurnRight(h)'
          BY <2>7, <5>2, ElseRight
        <5> QED BY <4>1, <5>1, <5>3
      <4>2. CASE ~Leaves /\ frames'[q] = g
        BY <2>7, <4>2
      <4> QED BY <2>4, <3>2, <4>1, <4>2
    <3> QED BY <2>7, <3>1, <3>2 DEF OutcomeInv
  <2>8. ASSUME audit' = audit
        PROVE  \A i \in 1 .. Len(audit') :
                 /\ i \in 1 .. Len(audit) /\ audit'[i] = audit[i] /\ (IsInput(i)' <=> IsInput(i))
    BY <2>8 DEF IsInput
  <2>9. ASSUME vault' = vault, NEW u PROVE RowsOf(u)' = RowsOf(u)
    BY <2>9 DEF RowsOf
  <2>10. CASE Neither
    <3>1. audit' = audit /\ vault' = vault /\ messages' \in {messages, <<>>}
      BY <2>10 DEF Neither
    <3>2. ASSUME NEW u, Spoke(u)' PROVE Spoke(u)
      BY <1>0, <2>5, <3>1, <3>2, SpokeMore
    <3>3. ASSUME NEW i \in 1 .. Len(audit') PROVE OutcomeRight(i)'
      <4>1. PICK u : u = audit[i].turn
        OBVIOUS
      <4>2. /\ OutcomeRight(i) /\ i \in 1 .. Len(audit)
            /\ audit'[i] = audit[i] /\ (IsInput(i)' <=> IsInput(i))
        BY <2>8, <3>1, <3>3 DEF OutcomeInv
      <4>3. RowsOf(u)' = RowsOf(u) /\ (Spoke(u)' => Spoke(u))
        BY <2>9, <3>1, <3>2
      <4>4. RowsOf(audit[i].turn)' = RowsOf(u)' /\ Spoke(audit[i].turn)' = Spoke(u)'
        BY <4>1, <4>2 DEF RowsOf, Spoke
      <4> QED BY <4>1, <4>2, <4>3, <4>4 DEF OutcomeRight
    <3>4. ASSUME ~Leaves PROVE TurnRight(g)'
      <4>1. /\ g.turn = t /\ (Mute(g) => Mute(f)) /\ (Writes(g) => Writes(f))
            /\ Barred(g) => Barred(f) \/ f.pc = "route"
        BY <2>10, <2>a, <2>b, <2>c, <3>4 DEF Neither, Mute, Writes, Barred, Unsettled
      <4>2. f.pc = "route" => RowsOf(t) = {}
        BY <2>1, <2>a, <2>b DEF VaultInv, Blank
      <4>3. RowsOf(t)' = RowsOf(t) /\ (Spoke(t)' => Spoke(t))
        BY <2>9, <3>1, <3>2
      <4> QED BY <2>5, <2>8, <3>1, <4>1, <4>2, <4>3 DEF TurnRight, Mute, Writes, Barred, Unsettled
    <3> QED BY <2>7, <2>8, <2>9, <3>1, <3>2, <3>3, <3>4
  <2>11. CASE TellsInput
    <3>1. PICK id : Event([run |-> run, id |-> id, turn |-> t, phase |-> "input"])
      BY <2>11, <2>a DEF TellsInput
    <3>2. vault' = vault /\ messages' = messages /\ Mute(f) /\ ~Leaves
      BY <2>4, <2>11, <2>a, <2>b, <2>c DEF TellsInput, Mute, Unsettled
    <3>3. ASSUME NEW u PROVE RowsOf(u)' = RowsOf(u) /\ (Spoke(u)' = Spoke(u))
      BY <2>9, <3>2 DEF Spoke
    <3>a. PICK e : e = [run |-> run, id |-> id, turn |-> t, phase |-> "input"]
      OBVIOUS
    <3>b. PICK n : n = Len(audit)
      OBVIOUS
    <3>4. /\ Len(audit') = n + 1 /\ audit'[n + 1] = e
          /\ \A i \in 1 .. n : audit'[i] = audit[i] /\ (IsInput(i)' <=> IsInput(i))
          /\ \A i \in 1 .. n + 1 : i = n + 1 \/ i \in 1 .. n
      BY <1>0, <3>1, <3>a, <3>b, OneEvent
    <3>5. e.turn = t /\ IsInput(n + 1)'
      BY <3>4, <3>a DEF IsInput
    <3>6. ASSUME NEW i \in 1 .. Len(audit'), audit'[i].turn = t PROVE OutcomeRight(i)'
      <4>1. CASE i = n + 1
        BY <3>5, <4>1 DEF OutcomeRight
      <4>2. CASE i \in 1 .. n
        <5>1. OutcomeRight(i) /\ audit'[i] = audit[i] /\ (IsInput(i)' <=> IsInput(i))
          BY <3>4, <3>b, <4>2 DEF OutcomeInv
        <5>2. /\ RowsOf(audit[i].turn)' = RowsOf(t)' /\ Spoke(audit[i].turn)' = Spoke(t)'
              /\ audit[i].turn = t
          BY <3>6, <5>1 DEF RowsOf, Spoke
        <5>3. RowsOf(t)' = RowsOf(t) /\ Spoke(t)' = Spoke(t)
          BY <3>3
        <5> QED BY <5>1, <5>2, <5>3 DEF OutcomeRight
      <4> QED BY <3>4, <4>1, <4>2
    <3>7. TurnRight(g)'
      <4>1. g.turn = t /\ ~Writes(g) /\ ~Barred(g)
        BY <2>11, <2>a, <2>c DEF TellsInput, Writes, Barred
      <4>2. ~Spoke(t)
        BY <2>5, <3>2 DEF TurnRight
      <4> QED BY <3>3, <4>1, <4>2 DEF TurnRight, Writes, Barred
    <3> QED BY <2>7, <3>3, <3>4, <3>5, <3>6, <3>7, <3>b
  <2>12. CASE TellsOutcome
    <3>1. PICK phase :
            /\ phase # "input"
            /\ Event([run |-> run, id |-> Top.id, turn |-> Top.turn, phase |-> phase])
            /\ \/ messages' = messages
               \/ phase = "llm_start" /\ messages' = Append(messages, Asks(Top.turn))
            /\ phase = "blocked" => Barred(Top)
            /\ \/ Leaves
               \/ /\ frames' # <<>> /\ Top'.turn = Top.turn /\ ~Mute(Top') /\ ~Barred(Top')
                  /\ Writes(Top') => phase \in Spoken
      BY <2>12 DEF TellsOutcome
    <3>2. vault' = vault /\ Unsettled(f) /\ Mute(f) /\ ~Spoke(t)
      BY <2>5, <2>12, <2>b DEF TellsOutcome, TurnRight
    <3>3. ASSUME NEW u PROVE RowsOf(u)' = RowsOf(u)
      BY <2>9, <3>2
    <3>4. ASSUME NEW u, Spoke(u)' PROVE (Spoke(u) \/ u = t) /\ (messages' = messages => Spoke(u))
      BY <1>0, <2>5, <2>a, <3>1, <3>4, SpokeMore
    <3>a. PICK e : e = [run |-> run, id |-> Top.id, turn |-> Top.turn, phase |-> phase]
      OBVIOUS
    <3>b. PICK n : n = Len(audit)
      OBVIOUS
    <3>5. /\ Len(audit') = n + 1 /\ audit'[n + 1] = e
          /\ \A i \in 1 .. n : audit'[i] = audit[i] /\ (IsInput(i)' <=> IsInput(i))
          /\ \A i \in 1 .. n + 1 : i = n + 1 \/ i \in 1 .. n
      BY <1>0, <3>1, <3>a, <3>b, OneEvent
    <3>6. e.turn = t /\ e.phase = phase /\ audit'[n + 1].phase = phase
      BY <2>a, <3>5, <3>a
    <3>7. Spoke(t)' => phase = "llm_start"
      BY <3>1, <3>2, <3>4
    <3>8. phase = "blocked" => RowsOf(t) = {}
      BY <2>5, <2>b, <3>1 DEF TurnRight
    <3>9. ASSUME NEW i \in 1 .. Len(audit'), audit'[i].turn = t PROVE OutcomeRight(i)'
      <4>1. CASE i = n + 1
        <5>1. /\ RowsOf(audit[i].turn)' = RowsOf(t)' /\ Spoke(audit[i].turn)' = Spoke(t)'
          BY <3>9 DEF RowsOf, Spoke
        <5>2. /\ phase = "blocked" => RowsOf(t)' = {} /\ ~Spoke(t)'
              /\ Spoke(t)' => phase \in Spoken
          BY <3>3, <3>7, <3>8 DEF Spoken
        <5> QED BY <3>6, <4>1, <5>1, <5>2 DEF OutcomeRight
      <4>2. CASE i \in 1 .. n
        <5>1. audit[i].turn = t /\ (IsInput(i)' <=> IsInput(i))
          BY <3>5, <3>9, <4>2
        <5>2. IsInput(i)'
          BY <2>6, <3>2, <3>b, <4>2, <5>1
        <5> QED BY <5>2 DEF OutcomeRight
      <4> QED BY <3>5, <4>1, <4>2
    <3>10. ASSUME ~Leaves PROVE TurnRight(g)'
      <4>1. g.turn = t /\ ~Mute(g) /\ ~Barred(g) /\ (Writes(g) => phase \in Spoken)
        BY <2>a, <2>c, <3>1, <3>10 DEF Mute, Writes, Barred, Unsettled
      <4>2. ASSUME Writes(g), NEW i \in 1 .. n + 1, audit'[i].turn = t, ~IsInput(i)'
            PROVE  audit'[i].phase \in Spoken
        <5>1. CASE i = n + 1
          BY <3>6, <4>1, <4>2, <5>1
        <5>2. CASE i \in 1 .. n
          BY <2>6, <3>2, <3>5, <3>b, <4>2, <5>2
        <5> QED BY <3>5, <4>2, <5>1, <5>2
      <4> QED BY <3>5, <4>1, <4>2 DEF TurnRight, Mute, Writes, Barred, Unsettled
    <3> QED BY <2>7, <3>3, <3>4, <3>5, <3>6, <3>9, <3>10, <3>b
  <2>13. CASE TellsSession
    <3>1. /\ audit' = audit /\ vault' = vault /\ Writes(f)
          /\ \/ messages' = Append(messages, Replies(t))
             \/ messages' = messages \o <<Asks(t), Replies(t)>>
      BY <2>13, <2>a, <2>b DEF TellsSession
    <3>2. ASSUME NEW u, Spoke(u)', u # t PROVE Spoke(u)
      BY <1>0, <2>5, <3>1, <3>2, SpokeMore
    <3>3. ASSUME NEW i \in 1 .. Len(audit'), audit'[i].turn = t PROVE OutcomeRight(i)'
      BY <2>5, <2>8, <3>1, <3>3 DEF OutcomeRight, TurnRight, Spoken
    <3>4. ASSUME ~Leaves PROVE TurnRight(g)'
      <4>1. g.turn = t /\ ~Mute(g) /\ ~Barred(g)
        BY <2>13, <2>a, <2>c, <3>4 DEF TellsSession, Mute, Barred, Unsettled
      <4> QED BY <2>5, <2>8, <3>1, <4>1 DEF TurnRight, Mute, Writes, Barred, Unsettled
    <3> QED BY <2>7, <2>8, <2>9, <3>1, <3>2, <3>3, <3>4
  <2>14. CASE TellsVault
    <3>0. PICK r : r = Head(Top.todo)
      OBVIOUS
    <3>1. /\ audit' = audit /\ messages' = messages /\ (Unsettled(f) \/ Writes(f))
          /\ vault' \in {vault, Append(vault, r)} /\ r.turn = t
      BY <2>14, <2>a, <2>b, <3>0 DEF TellsVault
    <3>2. ASSUME NEW u PROVE Spoke(u)' = Spoke(u)
      BY <3>1 DEF Spoke
    <3>3. ASSUME NEW u, u # t PROVE RowsOf(u)' = RowsOf(u)
      BY <3>1, <3>3, RowsElse
    <3>4. ASSUME NEW i \in 1 .. Len(audit'), audit'[i].turn = t PROVE OutcomeRight(i)'
      <4>1. IsInput(i) \/ audit[i].phase \in Spoken
        BY <2>5, <2>6, <2>8, <3>1, <3>4 DEF TurnRight
      <4> QED BY <2>8, <3>1, <4>1 DEF OutcomeRight, Spoken
    <3>5. TurnRight(g)'
      <4>1. /\ g.turn = t /\ (Mute(g) => Mute(f)) /\ (Writes(g) => Writes(f)) /\ ~Barred(g)
        BY <2>14, <2>a, <2>b, <2>c DEF TellsVault, Mute, Writes, Barred, Unsettled
      <4> QED BY <2>5, <2>8, <3>1, <3>2, <4>1 DEF TurnRight, Mute, Writes, Barred, Unsettled
    <3> QED BY <2>7, <2>8, <3>1, <3>2, <3>3, <3>4, <3>5
  <2> QED BY <2>3, <2>10, <2>11, <2>12, <2>13, <2>14 DEF OutcomeMove
<1>2. CASE (Begin \/ DropFiles \/ Message) /\ \E g : Started(g)
  <2>1. PICK g : Started(g)
    BY <1>2
  <2>2. UNCHANGED <<audit, vault, messages, run>>
    BY <1>2 DEF Begin, DropFiles, Message, records, session
  <2>3. ASSUME NEW f, TurnRight(f) PROVE TurnRight(f)'
    BY <2>2, <2>3 DEF TurnRight, Mute, Writes, Barred, Unsettled, Spoke, RowsOf, IsInput
  <2>4. ASSUME NEW i \in 1 .. Len(audit) PROVE OutcomeRight(i)'
    BY <2>2, <2>4 DEF OutcomeInv, OutcomeRight, Spoke, RowsOf, IsInput
  <2>5. ASSUME NEW q \in 1 .. Len(frames') PROVE TurnRight(frames[q])'
    <3>1. q \in 1 .. Len(frames) \/ q = Len(frames) + 1
      BY <1>0, <2>1, <2>5 DEF Started
    <3>2. PICK h : h = frames'[q]
      OBVIOUS
    <3>3. CASE q \in 1 .. Len(frames)
      <4>1. TurnRight(frames[q]) /\ FrameType(frames[q])
        BY <3>3 DEF OutcomeInv, StackInv
      <4>2. CASE h = frames[q]
        <5>1. TurnRight(h)'
          BY <2>3, <4>1, <4>2
        <5> QED BY <3>2, <5>1
      <4>3. CASE /\ frames[q].pc = "phase1" /\ q = Len(frames)
                 /\ h = Tell([Top EXCEPT !.pc = "connected"], <<"Token">>)
        <5>1. Top = frames[q]
          <6>1. frames # <<>>
            BY <3>3, <4>3, EmptySeq
          <6> QED BY <4>3, <6>1, TopKnown
        <5>2. h.pc = "connected"
          BY <4>1, <4>3, <5>1 DEF Tell, FrameType, Fields
        <5>3. TurnRight(h)
          BY <5>2 DEF TurnRight, Mute, Writes, Barred, Unsettled, Chat, Narration
        <5>4. TurnRight(h)'
          BY <2>3, <5>3
        <5> QED BY <3>2, <5>4
      <4> QED BY <2>1, <3>2, <3>3, <4>2, <4>3 DEF Started
    <3>4. CASE q = Len(frames) + 1
      <4>1. frames'[q] = g /\ g.turn = begun + 1 /\ g.pc \in {"begin", "analyze"}
        BY <2>1, <3>4 DEF Started
      <4>2. ASSUME NEW i \in 1 .. Len(audit) PROVE audit[i].turn # g.turn
        <5>1. audit[i].turn \in 1 .. begun
          BY <1>0 DEF LogType
        <5> QED BY <1>0, <4>1, <5>1
      <4>3. ASSUME NEW m \in 1 .. Len(messages) PROVE messages[m].turn # g.turn
        <5>1. /\ messages[m] \in [role : {"user", "assistant"}, turn : Nat]
              /\ messages[m].turn <= begun
          BY <1>0, ElementOfSeq DEF Tells
        <5> QED BY <1>0, <4>1, <5>1
      <4>4. TurnRight(g)
        BY <4>1, <4>2, <4>3 DEF TurnRight, Spoke, Barred
      <4>5. TurnRight(g)'
        BY <2>3, <4>4
      <4> QED BY <4>1, <4>5
    <3> QED BY <3>1, <3>3, <3>4
  <2> QED BY <2>2, <2>4, <2>5 DEF OutcomeInv
<1>3. CASE Configure
  <2>1. UNCHANGED <<audit, vault, messages, frames>>
    BY <1>3 DEF Configure, records
  <2> QED BY <2>1, OutcomeSame
<1>4. CASE Kill
  <2>1. /\ audit' = audit /\ vault' = vault /\ messages' = <<>> /\ Len(frames') = 0
        /\ Len(messages') = 0
    BY <1>4 DEF Kill, Fresh
  <2>2. ASSUME NEW i \in 1 .. Len(audit) PROVE OutcomeRight(i)'
    BY <2>1, <2>2 DEF OutcomeInv, OutcomeRight, Spoke, RowsOf, IsInput
  <2> QED BY <2>1, <2>2 DEF OutcomeInv
<1> QED BY <1>1, <1>2, <1>3, <1>4, Moves

LEMMA OutcomeHolds == ASSUME LogInv, HistoryInv, OutcomeInv PROVE OutcomeTrue
<1>1. DOMAIN audit = 1 .. Len(audit) /\ DOMAIN messages = 1 .. Len(messages)
  BY LenProperties DEF LogInv, LogType, HistoryInv, Tells
<1> QED BY <1>1 DEF OutcomeInv, OutcomeRight, OutcomeTrue, Outcomes, Inputs, Spoke, Spoken

-----------------------------------------------------------------------------
(* Numbers and sequences.                                                  *)

LEMMA Least ==
  ASSUME NEW T \in SUBSET Nat, T # {}
  PROVE  \E m \in T : \A k \in T : m <= k
<1> DEFINE R == OpToRel(<, Nat)
<1>1. IsWellFoundedOn(R, Nat)
  BY NatLessThanWellFounded
<1>2. R = {ss \in Nat \X Nat : ss[1] < ss[2]}
  BY DEF OpToRel
<1> HIDE DEF R
<1>3. PICK x \in T : \A y \in T : <<y, x>> \notin R
  BY <1>1, WFMin
<1>4. \A y \in T : ~(y < x)
  <2> SUFFICES ASSUME NEW y \in T, y < x PROVE <<y, x>> \in R
    BY <1>3
  <2>1. <<y, x>> \in Nat \X Nat
    OBVIOUS
  <2> QED BY <1>2, <2>1
<1> QED BY <1>4

LEMMA LeastIs ==
  ASSUME NEW T \in SUBSET Nat, T # {}
  PROVE  Min(T) \in T /\ \A k \in T : Min(T) <= k
<1> QED BY Least DEF Min

LEMMA Lesser ==
  ASSUME NEW a \in Nat, NEW b \in Nat
  PROVE  Min({a, b}) \in Nat /\ Min({a, b}) \in {a, b} /\ Min({a, b}) <= a /\ Min({a, b}) <= b
<1>1. {a, b} \in SUBSET Nat /\ {a, b} # {}
  OBVIOUS
<1> QED BY <1>1, LeastIs

-----------------------------------------------------------------------------
(* Tags in a text.                                                         *)

Signs == {"<", "t", ">", "/"}

LEMMA Tags ==
  ASSUME NEW S, Signs \subseteq S
  PROVE
  /\ OpenTag \in Seq(S) /\ Len(OpenTag) = 3
  /\ CloseTag \in Seq(S) /\ Len(CloseTag) = 3
<1>1. OpenTag \in Seq(Signs) /\ CloseTag \in Seq(Signs)
  BY DEF OpenTag, CloseTag, Signs
<1>2. Len(OpenTag) = 3 /\ Len(CloseTag) = 3
  BY DEF OpenTag, CloseTag
<1> QED BY <1>1, <1>2, SeqMonotonic

\* The first tag of a text, and what stands before and after it.
LEMMA Cut ==
  ASSUME NEW S, NEW text \in Seq(S), NEW tag \in Seq(S), Len(tag) = 3, Has(text, tag)
  PROVE  /\ Min(Places(text, tag)) \in Places(text, tag)
         /\ \A p \in Places(text, tag) : Min(Places(text, tag)) <= p
         /\ Min(Places(text, tag)) \in 1 .. Len(text) - 2
         /\ SubSeq(text, Min(Places(text, tag)), Min(Places(text, tag)) + 2) = tag
         /\ Before(text, tag) = SubSeq(text, 1, Min(Places(text, tag)) - 1)
         /\ After(text, tag) = SubSeq(text, Min(Places(text, tag)) + 3, Len(text))
         /\ Before(text, tag) \in Seq(S) /\ After(text, tag) \in Seq(S)
<1> DEFINE P == Places(text, tag)
           m == Min(P)
           n == Len(text)
<1>1. n \in Nat /\ P \subseteq 1 .. n - 2
      /\ \A p \in P : SubSeq(text, p, p + 2) = tag
  <2>1. n \in Nat
    BY LenProperties
  <2>2. \A p \in 1 .. n - 2 : p + 3 - 1 = p + 2
    BY <2>1
  <2>3. n + 1 - 3 = n - 2
    BY <2>1
  <2> QED BY <2>1, <2>2, <2>3 DEF Places
<1>2. m \in P /\ \A p \in P : m <= p
  <2>1. P \in SUBSET Nat
    BY <1>1
  <2>2. P # {}
    BY DEF Has
  <2> HIDE DEF P
  <2> QED BY <2>1, <2>2, LeastIs
<1> HIDE DEF m, P
<1>3. m \in 1 .. n - 2
  BY <1>1, <1>2
<1>4. \A i \in 1 .. n : text[i] \in S
  BY ElementOfSeq
<1>5. SubSeq(text, 1, m - 1) \in Seq(S)
  BY <1>1, <1>3, <1>4, SubSeqProperties
<1>6. SubSeq(text, m + 3, n) \in Seq(S)
  BY <1>1, <1>3, <1>4, SubSeqProperties
<1> QED BY <1>1, <1>2, <1>3, <1>5, <1>6 DEF m, P, Before, After

\* A text is held back for a part of a tag that it ends with.
LEMMA Held ==
  ASSUME NEW S, NEW text \in Seq(S), Signs \subseteq S
  PROVE  PartialTag(text, OpenTag) \in 0 .. 2 /\ PartialTag(text, OpenTag) <= Len(text)
<1> DEFINE M == Min({Len(text), 2})
           T == {0} \cup {n \in 1 .. M :
                  SubSeq(text, Len(text) - n + 1, Len(text)) = SubSeq(OpenTag, 1, n)}
<1>1. Len(text) \in Nat
  BY LenProperties
<1>2. M \in 0 .. 2 /\ M <= Len(text)
  <2>1. 2 \in Nat
    OBVIOUS
  <2> QED BY <1>1, <2>1, Lesser
<1>3. PartialTag(text, OpenTag) = Max(T)
  <2>1. 3 - 1 = 2
    OBVIOUS
  <2> QED BY <2>1, Tags DEF PartialTag
<1>4. T \subseteq 0 .. M /\ 0 \in T
  BY <1>2
<1> HIDE DEF T, M
<1>5. Max(T) \in T
  <2>1. \E x \in T : \A y \in T : x >= y
    <3>1. CASE 2 \in T
      <4>1. \A y \in T : 2 >= y
        BY <1>2, <1>4
      <4> QED BY <3>1, <4>1
    <3>2. CASE 2 \notin T /\ 1 \in T
      <4>1. \A y \in T : 1 >= y
        BY <3>2, <1>2, <1>4
      <4> QED BY <3>2, <4>1
    <3>3. CASE 2 \notin T /\ 1 \notin T
      <4>1. \A y \in T : 0 >= y
        BY <3>3, <1>2, <1>4
      <4> QED BY <1>4, <4>1
    <3> QED BY <3>1, <3>2, <3>3
  <2> QED BY <2>1 DEF Max
<1>6. Max(T) \in 0 .. M
  BY <1>4, <1>5
<1> QED BY <1>1, <1>2, <1>3, <1>6

LEMMA NothingHeld == ~Has(<<>>, OpenTag) /\ PartialTag(<<>>, OpenTag) = 0
<1>1. Len(<<>>) = 0 /\ <<>> \in Seq(Signs)
  BY EmptySeq
<1>2. 1 .. (0 + 1 - 3) = {}
  OBVIOUS
<1>3. Places(<<>>, OpenTag) = {}
  BY <1>1, <1>2, Tags DEF Places
<1>4. PartialTag(<<>>, OpenTag) \in 0 .. 2 /\ PartialTag(<<>>, OpenTag) <= Len(<<>>)
  BY <1>1, Held
<1> QED BY <1>1, <1>3, <1>4 DEF Has

\* Two of the three symbols of a tag are a part of it, and not a tag.
LEMMA PartHeld ==
  ASSUME NEW S, Signs \subseteq S, NEW h \in 1 .. 2
  PROVE  /\ ~Has(SubSeq(OpenTag, 1, h), OpenTag)
         /\ PartialTag(SubSeq(OpenTag, 1, h), OpenTag) = h
         /\ SubSeq(OpenTag, 1, h) \in Seq(S) /\ Len(SubSeq(OpenTag, 1, h)) = h
<1> DEFINE s == SubSeq(OpenTag, 1, h)
<1>1. s \in Seq(S) /\ Len(s) = h
  <2>1. \A i \in 1 .. 3 : OpenTag[i] \in S
    BY Tags, ElementOfSeq
  <2>2. \A i \in 1 .. h : OpenTag[i] \in S
    BY <2>1
  <2> QED BY <2>2, SubSeqProperties
<1> HIDE DEF s
<1>2. Places(s, OpenTag) = {}
  <2>1. 1 .. (h + 1 - 3) = {}
    OBVIOUS
  <2> QED BY <1>1, <2>1, Tags DEF Places
<1>3. SubSeq(s, 1, h) = s
  BY <1>1, SubSeqFull
<1>4. PartialTag(s, OpenTag) = h
  <2> DEFINE M == Min({Len(s), 2})
             T == {0} \cup {n \in 1 .. M : SubSeq(s, Len(s) - n + 1, Len(s)) = SubSeq(OpenTag, 1, n)}
  <2>1. M = h
    <3>1. h \in Nat /\ 2 \in Nat
      OBVIOUS
    <3>2. Min({h, 2}) \in {h, 2} /\ Min({h, 2}) <= h /\ Min({h, 2}) <= 2
      BY <3>1, Lesser
    <3> QED BY <1>1, <3>2
  <2>2. PartialTag(s, OpenTag) = Max(T)
    <3>1. 3 - 1 = 2
      OBVIOUS
    <3> QED BY <3>1, Tags DEF PartialTag
  <2>3. h \in T /\ T \subseteq 0 .. h
    <3>1. h - h + 1 = 1 /\ h \in 1 .. h
      OBVIOUS
    <3>2. SubSeq(s, Len(s) - h + 1, Len(s)) = SubSeq(OpenTag, 1, h)
      BY <1>1, <1>3, <3>1 DEF s
    <3>3. h \in 1 .. M
      BY <2>1, <3>1
    <3>4. T \subseteq 0 .. h
      BY <2>1
    <3>5. h \in T
      BY <3>2, <3>3
    <3> QED BY <3>4, <3>5
  <2> HIDE DEF T
  <2>4. Max(T) \in T /\ Max(T) >= h
    <3>1. \A y \in T : h >= y
      BY <2>3
    <3>2. \E x \in T : \A y \in T : x >= y
      BY <2>3, <3>1
    <3>3. Max(T) \in T /\ \A y \in T : Max(T) >= y
      BY <3>2 DEF Max
    <3> QED BY <2>3, <3>3
  <2>5. Max(T) \in 0 .. h
    BY <2>3, <2>4
  <2> QED BY <2>2, <2>4, <2>5
<1> QED BY <1>1, <1>2, <1>4 DEF s, Has

-----------------------------------------------------------------------------
(* The loop that takes the call out of an answer.                          *)

\* The loop on its way: it has found nothing yet.
Going(said, plain) == [said |-> said, plain |-> plain, blocks |-> <<>>, over |-> FALSE]

DetectorOf(state, tag, capture, flush) ==
  [state |-> state, tag |-> tag, capture |-> capture, flush |-> flush]

Body(text)      == Before(After(text, OpenTag), CloseTag)
Flushing(text)  == DetectorOf("normal", <<>>, <<>>, OpenTag \o Body(text) \o CloseTag)
Capturing(text) == DetectorOf("capturing", <<>>, After(text, OpenTag), <<>>)
Maybe(text) == DetectorOf("maybe", SubSeq(OpenTag, 1, PartialTag(text, OpenTag)), <<>>, <<>>)

\* Where the loop may be in a text.
AtCall(text, x) ==
  \/ x = Going(Says(NewDetector, "call", Body(text)), Before(text, OpenTag))
  \/ x = Going(Says(Flushing(text), "text", Before(text, OpenTag)), <<>>)
AtOpen(text, x) ==
  \/ \E t, plain : \E kind \in {"text", "buffering"} : x = Going(Says(Capturing(text), kind, t), plain)
  \/ \E t, plain : x = Going(Says(NewDetector, "aborted", t), plain)
AtPart(text, x) ==
  \E t, plain : \E kind \in {"text", "buffering"} : x = Going(Says(Maybe(text), kind, t), plain)
AtPlain(text, x) == x = Going(Says(NewDetector, "text", text), <<>>)

Extracting(text, x) ==
  \/ x.over /\ ExtractedRight(text, x)
  \/ Closed(text) /\ AtCall(text, x)
  \/ Has(text, OpenTag) /\ ~Closed(text) /\ AtOpen(text, x)
  \/ ~Has(text, OpenTag) /\ PartialTag(text, OpenTag) > 0 /\ AtPart(text, x)
  \/ ~Has(text, OpenTag) /\ AtPlain(text, x)

\* A detector with other fields is another detector.
Detector(d) == d = [k \in {"state", "tag", "capture", "flush"} |-> d[k]]

PutCapture(d, c, s)    == [d EXCEPT !.capture = c, !.state = s]
PutFlush(d, f)         == [d EXCEPT !.flush = f]
PutTag(d, f, s, t)     == [d EXCEPT !.flush = f, !.state = s, !.tag = t]
PutAll(d, s, c, t, f)  == [d EXCEPT !.state = s, !.capture = c, !.tag = t, !.flush = f]

LEMMA Fed ==
  ASSUME NEW d, Detector(d)
  PROVE  /\ [d EXCEPT !.tag = d.tag] = d /\ [d EXCEPT !.capture = d.capture] = d
         /\ \A c, s : PutCapture(d, c, s) = DetectorOf(s, d.tag, c, d.flush)
         /\ \A f : PutFlush(d, f) = DetectorOf(d.state, d.tag, d.capture, f)
         /\ \A f, s, t : PutTag(d, f, s, t) = DetectorOf(s, t, d.capture, f)
         /\ \A s, c, t, f : PutAll(d, s, c, t, f) = DetectorOf(s, t, c, f)
<1> DEFINE K == {"state", "tag", "capture", "flush"}
<1>1. DOMAIN d = K
  BY DEF Detector
<1>2. [d EXCEPT !.tag = d.tag] = d /\ [d EXCEPT !.capture = d.capture] = d
  BY DEF Detector
<1>3. ASSUME NEW f
      PROVE  PutFlush(d, f) = DetectorOf(d.state, d.tag, d.capture, f)
  BY <1>1 DEF DetectorOf, PutFlush
<1>4. ASSUME NEW s, NEW c
      PROVE  PutCapture(d, c, s) = DetectorOf(s, d.tag, c, d.flush)
  <2> DEFINE e == [d EXCEPT !.capture = c]
             g == [e EXCEPT !.state = s]
  <2>1. DOMAIN e = K /\ e.capture = c /\ e.tag = d.tag /\ e.flush = d.flush
    BY <1>1
  <2> HIDE DEF e
  <2>2. g = DetectorOf(s, e.tag, e.capture, e.flush)
    BY <2>1 DEF DetectorOf
  <2>3. g = PutCapture(d, c, s)
    BY DEF e, PutCapture
  <2> HIDE DEF g
  <2> QED BY <2>1, <2>2, <2>3
<1>5. ASSUME NEW f, NEW s, NEW t
      PROVE  PutTag(d, f, s, t) = DetectorOf(s, t, d.capture, f)
  <2> DEFINE e == [d EXCEPT !.flush = f]
             g == [e EXCEPT !.state = s]
             h == [g EXCEPT !.tag = t]
  <2>1. DOMAIN e = K /\ e.capture = d.capture /\ e.flush = f
    BY <1>1
  <2> HIDE DEF e
  <2>2. DOMAIN g = K /\ g.capture = e.capture /\ g.flush = e.flush /\ g.state = s
    BY <2>1
  <2> HIDE DEF g
  <2>3. h = DetectorOf(g.state, t, g.capture, g.flush)
    BY <2>2 DEF DetectorOf
  <2>4. h = PutTag(d, f, s, t)
    BY DEF e, g, PutTag
  <2> HIDE DEF h
  <2> QED BY <2>1, <2>2, <2>3, <2>4
<1>6. ASSUME NEW s, NEW c, NEW t, NEW f
      PROVE  PutAll(d, s, c, t, f) = DetectorOf(s, t, c, f)
  <2> DEFINE e == [d EXCEPT !.state = s]
             g == [e EXCEPT !.capture = c]
             h == [g EXCEPT !.tag = t]
             o == [h EXCEPT !.flush = f]
  <2>1. DOMAIN e = K /\ e.state = s
    BY <1>1
  <2> HIDE DEF e
  <2>2. DOMAIN g = K /\ g.state = e.state /\ g.capture = c
    BY <2>1
  <2> HIDE DEF g
  <2>3. DOMAIN h = K /\ h.state = g.state /\ h.capture = g.capture /\ h.tag = t
    BY <2>2
  <2> HIDE DEF h
  <2>4. o = DetectorOf(h.state, h.tag, h.capture, f)
    BY <2>3 DEF DetectorOf
  <2>5. o = PutAll(d, s, c, t, f)
    BY DEF e, g, h, PutAll
  <2> HIDE DEF o
  <2> QED BY <2>1, <2>2, <2>3, <2>4, <2>5
<1> QED BY <1>2, <1>3, <1>4, <1>5, <1>6

\* The detectors there are.
LEMMA Detectors ==
  ASSUME NEW state, NEW tag, NEW capture, NEW flush, NEW d, d = DetectorOf(state, tag, capture, flush)
  PROVE  /\ Detector(d)
         /\ d.state = state /\ d.tag = tag /\ d.capture = capture /\ d.flush = flush
<1> QED BY DEF DetectorOf, Detector

LEMMA NewFields ==
  /\ NewDetector = DetectorOf("normal", <<>>, <<>>, <<>>)
  /\ Detector(NewDetector) /\ NewDetector.state = "normal" /\ NewDetector.tag = <<>>
  /\ NewDetector.capture = <<>> /\ NewDetector.flush = <<>>
<1> QED BY DEF NewDetector, DetectorOf, Detector

\* A call that is closed leaves a detector as it was at the start.
LEMMA Emptied ==
  ASSUME NEW d, Detector(d), d.tag = <<>>, d.flush = <<>>
  PROVE  [d EXCEPT !.capture = <<>>, !.state = "normal"] = NewDetector
<1> DEFINE e == <<>>
<1>1. d.tag = e /\ d.flush = e
  OBVIOUS
<1>2. NewDetector = DetectorOf("normal", e, e, e)
  BY NewFields
<1> HIDE DEF e
<1>3. PutCapture(d, e, "normal") = DetectorOf("normal", d.tag, e, d.flush)
  BY Fed
<1>4. PutCapture(d, e, "normal") = NewDetector
  BY <1>1, <1>2, <1>3
<1> QED BY <1>4 DEF e, PutCapture

\* One that has seen the opening tag.
LEMMA OpenedIs ==
  ASSUME NEW d, Detector(d), NEW text
  PROVE  /\ Opened(d, text) = DetectorOf("capturing", <<>>, After(text, OpenTag), <<>>)
         /\ Detector(Opened(d, text)) /\ Opened(d, text).state = "capturing"
         /\ Opened(d, text).capture = After(text, OpenTag)
         /\ Opened(d, text).tag = <<>> /\ Opened(d, text).flush = <<>>
<1> DEFINE e == <<>>
           rest == After(text, OpenTag)
<1>1. Opened(d, text) = PutAll(d, "capturing", rest, e, e)
  BY DEF Opened, PutAll
<1> HIDE DEF e, rest
<1>2. Opened(d, text) = DetectorOf("capturing", e, rest, e)
  BY <1>1, Fed
<1>3. /\ Detector(Opened(d, text)) /\ Opened(d, text).state = "capturing"
      /\ Opened(d, text).capture = rest /\ Opened(d, text).tag = e /\ Opened(d, text).flush = e
  BY <1>2, Detectors
<1> QED BY <1>2, <1>3 DEF e, rest

LEMMA Resaid ==
  ASSUME NEW said, NEW next, NEW plain
  PROVE  [Going(said, plain) EXCEPT !.said = next] = Going(next, plain)
<1> DEFINE f == Going(said, plain)
           g == [f EXCEPT !.said = next]
<1>1. /\ DOMAIN f = {"said", "plain", "blocks", "over"}
      /\ f.plain = plain /\ f.blocks = <<>> /\ f.over = FALSE
  BY DEF Going
<1> HIDE DEF f
<1>2. g = [said |-> next, plain |-> f.plain, blocks |-> f.blocks, over |-> f.over]
  BY <1>1
<1> HIDE DEF g
<1>3. g = [said |-> next, plain |-> plain, blocks |-> <<>>, over |-> FALSE]
  BY <1>1, <1>2
<1>4. g = Going(next, plain)
  BY <1>3 DEF Going
<1> QED BY <1>4 DEF f, g

LEMMA NoText == <<>> \o <<>> = <<>>
<1>1. <<>> \in Seq(Signs)
  BY EmptySeq
<1> QED BY <1>1, ConcatEmptySeq

\* An empty piece ends the loop.
LEMMA EmptyFeed == Feed(NewDetector, <<>>) = Says(NewDetector, "text", <<>>)
<1>1. /\ NewDetector.state = "normal" /\ NewDetector.flush = <<>>
      /\ [NewDetector EXCEPT !.flush = <<>>] = NewDetector
  BY DEF NewDetector
<1>2. NewDetector.flush \o <<>> = <<>>
  BY <1>1, NoText
<1>3. ~Has(<<>>, OpenTag) /\ ~(PartialTag(<<>>, OpenTag) > 0)
  BY NothingHeld
<1>4. FeedNormal(NewDetector, <<>>) = Says(NewDetector, "text", <<>>)
  BY <1>1, <1>2, <1>3 DEF FeedNormal
<1> QED BY <1>1, <1>4 DEF Feed

LEMMA LastStep ==
  ASSUME NEW kind, NEW t, NEW plain, NEW x, x = Going(Says(NewDetector, kind, t), plain),
         kind \in {"text", "aborted", "call"}
  PROVE  ExtractStep(x) =
           [said |-> Says(NewDetector, "text", <<>>), plain |-> <<>>, over |-> TRUE,
            blocks |-> TakeIn(x).blocks \o TextBlock(TakeIn(x).plain \o <<>>)]
<1> DEFINE y == TakeIn(x)
           next == Feed(x.said.det, <<>>)
<1>1. x.said.det = NewDetector
  BY DEF Going, Says
<1>2. next = Says(NewDetector, "text", <<>>)
  BY <1>1, EmptyFeed
<1>3. next.kind = "text" /\ next.text = <<>> /\ next.det = NewDetector
  BY <1>2 DEF Says
<1>4. Leftover(NewDetector) = <<>>
  BY NoText DEF Leftover, NewDetector
<1>5. DOMAIN y = {"said", "plain", "blocks", "over"}
  BY DEF TakeIn, Going, Says
<1> HIDE DEF y, next
<1>7. ExtractStep(x) = [y EXCEPT !.over = TRUE, !.said = next, !.plain = <<>>,
                                 !.blocks = y.blocks \o TextBlock(y.plain \o Leftover(next.det))]
  BY <1>3 DEF ExtractStep, y, next
<1>8. ExtractStep(x) = [y EXCEPT !.over = TRUE, !.said = next, !.plain = <<>>,
                                 !.blocks = y.blocks \o TextBlock(y.plain \o <<>>)]
  BY <1>3, <1>4, <1>7
<1>9. ExtractStep(x) =
        [said |-> next, plain |-> <<>>, over |-> TRUE, blocks |-> y.blocks \o TextBlock(y.plain \o <<>>)]
  BY <1>5, <1>8
<1> QED BY <1>2, <1>9 DEF y

\* A block of text is no call.
LEMMA TextOnly ==
  ASSUME NEW t
  PROVE  /\ TextBlock(t) \in Seq({[kind |-> "text", text |-> t]})
         /\ \A b \in Range(TextBlock(t)) : b.kind = "text"
<1>1. CASE t = <<>>
  <2>1. TextBlock(t) = <<>> /\ DOMAIN <<>> = {}
    BY <1>1 DEF TextBlock
  <2> QED BY <2>1 DEF Range
<1>2. CASE t # <<>>
  <2>1. TextBlock(t) = <<[kind |-> "text", text |-> t]>>
    BY <1>2 DEF TextBlock
  <2>2. DOMAIN <<[kind |-> "text", text |-> t]>> = 1 .. 1
    OBVIOUS
  <2>3. \A b \in Range(TextBlock(t)) : b = [kind |-> "text", text |-> t]
    BY <2>1, <2>2 DEF Range
  <2> QED BY <2>1, <2>3
<1> QED BY <1>1, <1>2

LEMMA NoCallIn ==
  ASSUME NEW text, ~Closed(text)
  PROVE  CallIn(text) = <<>> /\ Range(CallIn(text)) = {}
<1>1. CallIn(text) = <<>>
  BY DEF CallIn
<1>2. DOMAIN <<>> = {}
  OBVIOUS
<1> QED BY <1>1, <1>2 DEF Range

\* The loop is over and has found nothing but text.
LEMMA OnlyText ==
  ASSUME NEW text, NEW x, NEW t, ~Closed(text), x.blocks = <<>> \o TextBlock(t),
         Has(text, OpenTag) \/ TextBlock(t) = TextIn(text)
  PROVE  ExtractedRight(text, x)
<1>1. TextBlock(t) \in Seq({[kind |-> "text", text |-> t]})
  BY TextOnly
<1>2. x.blocks = TextBlock(t)
  BY <1>1, ConcatEmptySeq
<1>3. Calls(x) = {}
  BY <1>2, TextOnly DEF Calls
<1>4. CallIn(text) = <<>> /\ Range(CallIn(text)) = {}
  BY NoCallIn
<1>5. TextBlock(t) \o <<>> = TextBlock(t)
  BY <1>1, ConcatEmptySeq
<1> QED BY <1>2, <1>3, <1>4, <1>5 DEF ExtractedRight

\* There is no tag in the text.
LEMMA PlainStep ==
  ASSUME NEW S, NEW text \in Seq(S), NEW x, ~Has(text, OpenTag), AtPlain(text, x)
  PROVE  ExtractStep(x).over /\ ExtractedRight(text, ExtractStep(x))
<1> DEFINE z == ExtractStep(x)
<1>1. /\ TakeIn(x).blocks = <<>> /\ TakeIn(x).plain = <<>> \o text
  BY DEF AtPlain, TakeIn, Going, Says
<1>2. <<>> \o text = text /\ text \o <<>> = text
  BY ConcatEmptySeq
<1>3. z = [said |-> Says(NewDetector, "text", <<>>), plain |-> <<>>, over |-> TRUE,
           blocks |-> TakeIn(x).blocks \o TextBlock(TakeIn(x).plain \o <<>>)]
  BY LastStep DEF AtPlain
<1>5. z.over /\ z.blocks = <<>> \o TextBlock(text)
  BY <1>1, <1>2, <1>3
<1>4. TextIn(text) = TextBlock(text) /\ ~Closed(text)
  BY DEF TextIn, Closed
<1> QED BY <1>4, <1>5, OnlyText

\* The text ends in a part of a tag, which the loop feeds again and again.
LEMMA PartStep ==
  ASSUME NEW S, NEW text \in Seq(S), Signs \subseteq S, NEW x,
         PartialTag(text, OpenTag) > 0, AtPart(text, x)
  PROVE  AtPart(text, ExtractStep(x))
<1> DEFINE h == PartialTag(text, OpenTag)
           part == SubSeq(OpenTag, 1, h)
           d == Maybe(text)
<1>15. PICK kind \in {"text", "buffering"} : \E t, plain : x = Going(Says(d, kind, t), plain)
  BY DEF AtPart
<1>1. PICK t, plain : x = Going(Says(d, kind, t), plain)
  BY <1>15
<1>2. h \in 1 .. 2
  BY Held
<1>3. /\ ~Has(part, OpenTag) /\ PartialTag(part, OpenTag) = h
      /\ part \in Seq(S) /\ Len(part) = h
  BY <1>2, PartHeld
<1>14. d = DetectorOf("maybe", part, <<>>, <<>>)
  BY DEF Maybe
<1>13. Detector(d) /\ d.state = "maybe" /\ d.tag = part
  <2> HIDE DEF d, part, h
  <2> QED BY <1>14, Detectors
<1> HIDE DEF d, part, h
<1>4. d.state = "maybe" /\ d.tag = part /\ [d EXCEPT !.tag = part] = d
  BY <1>13, Fed
<1>5. part \o <<>> = part
  BY <1>3, ConcatEmptySeq
<1>6. FeedMaybe(d, <<>>) = Says(d, "buffering", <<>>)
  BY <1>3, <1>4, <1>5 DEF FeedMaybe
<1>7. Feed(d, <<>>) = Says(d, "buffering", <<>>)
  BY <1>4, <1>6 DEF Feed
<1>8. x.said.det = d
  BY <1>1 DEF Going, Says
<1>9. ExtractStep(x) = [TakeIn(x) EXCEPT !.said = Says(d, "buffering", <<>>)]
  <2>1. Says(d, "buffering", <<>>).kind = "buffering"
    BY DEF Says
  <2> QED BY <1>7, <1>8, <2>1 DEF ExtractStep
<1>10. \E p : TakeIn(x) = Going(Says(d, kind, t), p)
  <2>1. CASE kind = "text"
    <3>1. TakeIn(x) = [x EXCEPT !.plain = plain \o t]
      BY <1>1, <2>1 DEF TakeIn, Going, Says
    <3>2. TakeIn(x) = Going(Says(d, kind, t), plain \o t)
      BY <1>1, <3>1 DEF Going
    <3> QED BY <3>2
  <2>2. CASE kind = "buffering"
    <3>1. TakeIn(x) = x
      BY <1>1, <2>2 DEF TakeIn, Going, Says
    <3> QED BY <1>1, <3>1
  <2> QED BY <1>1, <2>1, <2>2
<1>11. PICK p : TakeIn(x) = Going(Says(d, kind, t), p)
  BY <1>10
<1>12. ExtractStep(x) = Going(Says(d, "buffering", <<>>), p)
  BY <1>9, <1>11, Resaid
<1> QED BY <1>12 DEF AtPart, d

\* A call is not closed: the loop waits for its end, or gives it up.
LEMMA OpenStep ==
  ASSUME NEW S, NEW text \in Seq(S), Signs \subseteq S, NEW x,
         Has(text, OpenTag), ~Closed(text), AtOpen(text, x)
  PROVE  \/ AtOpen(text, ExtractStep(x))
         \/ ExtractStep(x).over /\ ExtractedRight(text, ExtractStep(x))
<1> DEFINE d == Capturing(text)
           rest == After(text, OpenTag)
           z == ExtractStep(x)
<1>1. CASE \E t, plain : x = Going(Says(NewDetector, "aborted", t), plain)
  <2>1. PICK t, plain : x = Going(Says(NewDetector, "aborted", t), plain)
    BY <1>1
  <2>2. TakeIn(x).blocks = <<>>
    BY <2>1 DEF TakeIn, Going, Says
  <2>3. z = [said |-> Says(NewDetector, "text", <<>>), plain |-> <<>>, over |-> TRUE,
             blocks |-> TakeIn(x).blocks \o TextBlock(TakeIn(x).plain \o <<>>)]
    BY <2>1, LastStep
  <2>4. z.over /\ z.blocks = <<>> \o TextBlock(TakeIn(x).plain \o <<>>)
    BY <2>2, <2>3
  <2> QED BY <2>4, OnlyText
<1>2. CASE \E t, plain : \E kind \in {"text", "buffering"} : x = Going(Says(d, kind, t), plain)
  <2>17. PICK kind \in {"text", "buffering"} : \E t, plain : x = Going(Says(d, kind, t), plain)
    BY <1>2
  <2>1. PICK t, plain : x = Going(Says(d, kind, t), plain)
    BY <2>17
  <2>2. rest \in Seq(S)
    BY Cut, Tags
  <2>3. rest \o <<>> = rest
    BY <2>2, ConcatEmptySeq
  <2>4. ~Has(rest, CloseTag)
    BY DEF Closed
  <2>16. /\ Detector(d) /\ d.state = "capturing" /\ d.capture = rest
         /\ d.tag = <<>> /\ d.flush = <<>>
    BY Detectors DEF Capturing
  <2> HIDE DEF d, rest
  <2>5. /\ d.state = "capturing" /\ d.capture = rest /\ [d EXCEPT !.capture = rest] = d
        /\ [d EXCEPT !.capture = <<>>, !.state = "normal"] = NewDetector
    BY <2>16, Fed, Emptied
  <2>6. TryClose(d) = Says(d, "buffering", <<>>)
    BY <2>4, <2>5 DEF TryClose
  <2>7. Feed(d, <<>>) \in {Says(NewDetector, "aborted", rest), Says(d, "buffering", <<>>)}
    BY <2>3, <2>5, <2>6 DEF Feed, FeedCapturing
  <2>8. Feed(d, <<>>).kind # "text"
    BY <2>7 DEF Says
  <2>9. x.said.det = d
    BY <2>1 DEF Going, Says
  <2>10. z = [TakeIn(x) EXCEPT !.said = Feed(d, <<>>)]
    BY <2>8, <2>9 DEF ExtractStep
  <2>11. \E p : TakeIn(x) = Going(Says(d, kind, t), p)
    <3>1. CASE kind = "text"
      <4>1. TakeIn(x) = [x EXCEPT !.plain = plain \o t]
        BY <2>1, <3>1 DEF TakeIn, Going, Says
      <4>2. TakeIn(x) = Going(Says(d, kind, t), plain \o t)
        BY <2>1, <4>1 DEF Going
      <4> QED BY <4>2
    <3>2. CASE kind = "buffering"
      <4>1. TakeIn(x) = x
        BY <2>1, <3>2 DEF TakeIn, Going, Says
      <4> QED BY <2>1, <4>1
    <3> QED BY <2>1, <3>1, <3>2
  <2>12. PICK p : TakeIn(x) = Going(Says(d, kind, t), p)
    BY <2>11
  <2>13. z = Going(Feed(d, <<>>), p)
    BY <2>10, <2>12, Resaid
  <2>14. CASE Feed(d, <<>>) = Says(NewDetector, "aborted", rest)
    BY <2>13, <2>14 DEF AtOpen
  <2>15. CASE Feed(d, <<>>) = Says(d, "buffering", <<>>)
    <3>1. z = Going(Says(Capturing(text), "buffering", <<>>), p)
      BY <2>13, <2>15 DEF d
    <3> QED BY <3>1 DEF AtOpen
  <2> QED BY <2>7, <2>14, <2>15
<1> QED BY <1>1, <1>2 DEF AtOpen

LEMMA Regroup ==
  ASSUME NEW S, NEW s \in Seq(S), Signs \subseteq S
  PROVE  (OpenTag \o s) \o CloseTag = OpenTag \o (s \o CloseTag)
<1>1. OpenTag \in Seq(S) /\ CloseTag \in Seq(S)
  BY Tags
<1> QED BY <1>1, ConcatAssociative

\* What is said of a call, and how it is said once more behind the text before it.
LEMMA Reread ==
  ASSUME NEW S, NEW text \in Seq(S), Signs \subseteq S, Closed(text),
         NEW whole, whole = OpenTag \o Body(text) \o CloseTag
  PROVE  /\ Body(text) \in Seq(S) /\ whole \in Seq(S)
         /\ Has(whole, OpenTag) /\ Before(whole, OpenTag) = <<>>
         /\ Has(After(whole, OpenTag), CloseTag)
         /\ Before(After(whole, OpenTag), CloseTag) = Body(text)
<1> DEFINE rest == After(text, OpenTag)
           body == Body(text)
           m == Min(Places(rest, CloseTag))
           g == body \o CloseTag
<1>1. rest \in Seq(S) /\ Has(rest, CloseTag)
  BY Cut, Tags DEF Closed
<1>2. /\ OpenTag \in Seq(S) /\ Len(OpenTag) = 3 /\ CloseTag \in Seq(S) /\ Len(CloseTag) = 3
  BY Tags
<1> HIDE DEF rest
<1>3. /\ \A p \in Places(rest, CloseTag) : m <= p
      /\ m \in 1 .. Len(rest) - 2 /\ SubSeq(rest, m, m + 2) = CloseTag
      /\ body = SubSeq(rest, 1, m - 1) /\ body \in Seq(S)
  <2>1. body = Before(rest, CloseTag)
    BY DEF Body, rest
  <2> HIDE DEF body
  <2>2. /\ \A p \in Places(rest, CloseTag) : Min(Places(rest, CloseTag)) <= p
        /\ Min(Places(rest, CloseTag)) \in 1 .. Len(rest) - 2
        /\ SubSeq(rest, Min(Places(rest, CloseTag)), Min(Places(rest, CloseTag)) + 2) = CloseTag
        /\ Before(rest, CloseTag) = SubSeq(rest, 1, Min(Places(rest, CloseTag)) - 1)
        /\ Before(rest, CloseTag) \in Seq(S)
    BY <1>1, <1>2, Cut
  <2> QED BY <2>1, <2>2
<1> HIDE DEF m, body
<1>4. Len(rest) \in Nat /\ m \in Nat /\ m - 1 \in 0 .. Len(rest) /\ m + 2 \in 1 .. Len(rest)
  BY <1>1, <1>3, LenProperties
<1>5. Len(body) = m - 1
  <2>1. \A i \in 1 .. m - 1 : rest[i] \in S
    BY <1>1, <1>4, ElementOfSeq
  <2>2. Len(body) = IF 1 <= m - 1 THEN (m - 1) - 1 + 1 ELSE 0
    BY <1>3, <1>4, <2>1, SubSeqProperties
  <2> QED BY <1>3, <1>4, <2>2
<1>6. g \in Seq(S) /\ Len(g) = m + 2
  <2>1. body \in Seq(S) /\ CloseTag \in Seq(S)
    BY <1>2, <1>3
  <2>2. g \in Seq(S) /\ Len(g) = Len(body) + Len(CloseTag)
    BY <2>1, ConcatProperties
  <2>3. (m - 1) + 3 = m + 2
    BY <1>4
  <2> QED BY <1>2, <1>5, <2>2, <2>3
<1>7. g = SubSeq(rest, 1, m + 2)
  <2>1. 1 \in 1 .. Len(rest) + 1 /\ m - 1 \in 1 - 1 .. Len(rest) /\ m + 2 \in m - 1 .. Len(rest)
    BY <1>4
  <2>2. SubSeq(rest, 1, m - 1) \o SubSeq(rest, (m - 1) + 1, m + 2) = SubSeq(rest, 1, m + 2)
    BY <1>1, <2>1, ConcatAdjacentSubSeq
  <2>3. (m - 1) + 1 = m
    BY <1>4
  <2> QED BY <1>3, <2>2, <2>3
<1>8. ASSUME NEW p \in 1 .. m
      PROVE  SubSeq(g, p, p + 2) = SubSeq(rest, p, p + 2)
  <2>1. /\ 1 \in 1 .. Len(rest) /\ m + 2 \in 1 .. Len(rest)
        /\ p \in 1 .. (m + 2) - 1 + 1 /\ p + 2 \in 1 .. (m + 2) - 1 + 1
    BY <1>4
  <2>2. SubSeq(SubSeq(rest, 1, m + 2), p, p + 2) = SubSeq(rest, 1 + p - 1, 1 + (p + 2) - 1)
    BY <1>1, <2>1, SubSeqOfSubSeq
  <2>3. 1 + p - 1 = p /\ 1 + (p + 2) - 1 = p + 2
    BY <2>1
  <2> QED BY <1>7, <2>2, <2>3
<1>9. Places(g, CloseTag) \subseteq 1 .. m /\ m \in Places(g, CloseTag)
      /\ \A p \in Places(g, CloseTag) : p \in Places(rest, CloseTag)
  <2>1. \A p \in Int : p + 3 - 1 = p + 2
    OBVIOUS
  <2>2. Places(g, CloseTag) = {p \in 1 .. m : SubSeq(g, p, p + 2) = CloseTag}
    <3>1. (m + 2) + 1 - 3 = m
      BY <1>4
    <3>2. \A p \in 1 .. m : p + 3 - 1 = p + 2
      BY <2>1
    <3> QED BY <1>2, <1>6, <3>1, <3>2 DEF Places
  <2>3. \A p \in 1 .. m : p \in 1 .. Len(rest) + 1 - 3
    BY <1>3, <1>4
  <2>4. \A p \in 1 .. m : SubSeq(rest, p, p + 2) = CloseTag => p \in Places(rest, CloseTag)
    <3>1. \A p \in 1 .. m : p + 3 - 1 = p + 2
      BY <2>1
    <3> QED BY <1>2, <2>3, <3>1 DEF Places
  <2>5. m \in 1 .. m
    BY <1>3, <1>4
  <2> QED BY <1>3, <1>8, <2>2, <2>4, <2>5
<1>10. Has(g, CloseTag) /\ Before(g, CloseTag) = body
  <2>1. Has(g, CloseTag)
    BY <1>9 DEF Has
  <2>2. /\ Min(Places(g, CloseTag)) \in Places(g, CloseTag)
        /\ \A p \in Places(g, CloseTag) : Min(Places(g, CloseTag)) <= p
        /\ Before(g, CloseTag) = SubSeq(g, 1, Min(Places(g, CloseTag)) - 1)
    BY <1>2, <1>6, <2>1, Cut
  <2>3. Min(Places(g, CloseTag)) = m
    <3> DEFINE q == Min(Places(g, CloseTag))
    <3>1. q \in 1 .. m /\ m <= q
      BY <1>3, <1>9, <2>2
    <3> HIDE DEF q
    <3>2. q = m
      BY <1>4, <3>1
    <3> QED BY <3>2 DEF q
  <2>4. SubSeq(g, 1, m - 1) = body
    <3>1. CASE m = 1
      <4>1. SubSeq(g, 1, m - 1) = <<>> /\ SubSeq(rest, 1, m - 1) = <<>>
        <5>1. m - 1 < 1 /\ m - 1 \in Int
          BY <3>1
        <5> QED BY <5>1, SubSeqEmpty
      <4> QED BY <1>3, <4>1
    <3>2. CASE m # 1
      <4>1. 1 \in 1 .. Len(body) /\ m - 1 \in 1 .. Len(body)
        BY <1>3, <1>4, <1>5, <3>2
      <4>2. SubSeq(body \o CloseTag, 1, m - 1) = SubSeq(body, 1, m - 1)
        BY <1>2, <1>3, <4>1, SubSeqOfConcat1
      <4>3. SubSeq(body, 1, Len(body)) = body
        BY <1>3, SubSeqFull
      <4> QED BY <1>5, <4>2, <4>3
    <3> QED BY <3>1, <3>2
  <2> QED BY <2>1, <2>2, <2>3, <2>4
<1>11. whole = OpenTag \o g
  <2>1. whole = (OpenTag \o body) \o CloseTag
    BY DEF body
  <2>2. body \in Seq(S) /\ CloseTag \in Seq(S) /\ OpenTag \in Seq(S)
    BY <1>2, <1>3
  <2>3. (OpenTag \o body) \o CloseTag = OpenTag \o (body \o CloseTag)
    BY <2>2, Regroup
  <2>4. whole = OpenTag \o (body \o CloseTag)
    BY <2>1, <2>3, Zenon
  <2> QED BY <2>4, Zenon DEF g
<1> HIDE DEF g
<1>12. whole \in Seq(S) /\ Len(whole) = m + 5
  <2>1. g \in Seq(S) /\ OpenTag \in Seq(S)
    BY <1>2, <1>6
  <2>2. OpenTag \o g \in Seq(S) /\ Len(OpenTag \o g) = Len(OpenTag) + Len(g)
    BY <2>1, ConcatProperties
  <2>3. 3 + (m + 2) = m + 5
    BY <1>4
  <2> QED BY <1>2, <1>6, <1>11, <2>2, <2>3
<1>13. 1 \in Places(whole, OpenTag)
  <2>1. 1 \in 1 .. 3 /\ 3 \in 1 .. 3
    OBVIOUS
  <2>5. g \in Seq(S) /\ OpenTag \in Seq(S) /\ 1 \in 1 .. Len(OpenTag) /\ 3 \in 1 .. Len(OpenTag)
    BY <1>2, <1>6, <2>1
  <2>2. SubSeq(OpenTag \o g, 1, 3) = SubSeq(OpenTag, 1, 3)
    BY <2>5, SubSeqOfConcat1
  <2>3. SubSeq(OpenTag, 1, 3) = OpenTag
    BY <1>2, SubSeqFull
  <2>4. 1 \in 1 .. (m + 5) + 1 - 3 /\ 1 + 3 - 1 = 3
    BY <1>4
  <2> QED BY <1>2, <1>11, <1>12, <2>2, <2>3, <2>4 DEF Places
<1>14. Has(whole, OpenTag)
  BY <1>13 DEF Has
<1>15. Min(Places(whole, OpenTag)) = 1
  <2> DEFINE q == Min(Places(whole, OpenTag))
  <2>1. q <= 1 /\ q \in 1 .. Len(whole) - 2
    BY <1>2, <1>12, <1>13, <1>14, Cut
  <2> HIDE DEF q
  <2>2. q = 1
    BY <1>4, <1>12, <2>1
  <2> QED BY <2>2 DEF q
<1>19. /\ Before(whole, OpenTag) = SubSeq(whole, 1, Min(Places(whole, OpenTag)) - 1)
       /\ After(whole, OpenTag) = SubSeq(whole, Min(Places(whole, OpenTag)) + 3, Len(whole))
  BY <1>2 DEF Before, After
<1>16. Before(whole, OpenTag) = <<>>
  <2>1. Before(whole, OpenTag) = SubSeq(whole, 1, 1 - 1)
    BY <1>12, <1>15, <1>19
  <2>2. 1 - 1 < 1 /\ 1 - 1 \in Int
    OBVIOUS
  <2> QED BY <2>1, <2>2, SubSeqEmpty
<1>17. After(whole, OpenTag) = g
  <2>1. After(whole, OpenTag) = SubSeq(whole, 1 + 3, m + 5)
    BY <1>12, <1>15, <1>19
  <2>2. 4 \in 3 + 1 .. 3 + (m + 2) /\ m + 5 \in 3 + 1 .. 3 + (m + 2)
    BY <1>4
  <2>3. SubSeq(OpenTag \o g, 4, m + 5) = SubSeq(g, 4 - 3, (m + 5) - 3)
    <3>1. /\ g \in Seq(S) /\ OpenTag \in Seq(S)
          /\ 4 \in Len(OpenTag) + 1 .. Len(OpenTag) + Len(g)
          /\ m + 5 \in Len(OpenTag) + 1 .. Len(OpenTag) + Len(g)
      BY <1>2, <1>6, <2>2
    <3>2. SubSeq(OpenTag \o g, 4, m + 5) = SubSeq(g, 4 - Len(OpenTag), (m + 5) - Len(OpenTag))
      BY <3>1, SubSeqOfConcat2
    <3> QED BY <1>2, <3>2
  <2>4. 1 + 3 = 4 /\ 4 - 3 = 1 /\ (m + 5) - 3 = m + 2
    BY <1>4
  <2>5. SubSeq(g, 1, m + 2) = g
    BY <1>6, SubSeqFull
  <2> QED BY <1>11, <2>1, <2>3, <2>4, <2>5
<1>18. body = Body(text)
  BY DEF body
<1> QED BY <1>3, <1>10, <1>12, <1>14, <1>16, <1>17, <1>18

\* The blocks of a text with a call in it.
LEMMA CallTaken ==
  ASSUME NEW text, NEW x, Closed(text),
         x.blocks = (TextIn(text) \o CallIn(text)) \o TextBlock(<<>> \o <<>>)
  PROVE  ExtractedRight(text, x)
<1> DEFINE t == Before(text, OpenTag)
           B == {[kind |-> "text", text |-> t], [kind |-> "call", text |-> <<"j">>]}
<1>1. TextIn(text) = TextBlock(t)
  BY DEF TextIn, Closed
<1>2. TextIn(text) \in Seq(B) /\ \A b \in Range(TextIn(text)) : b.kind = "text"
  <2>1. {[kind |-> "text", text |-> t]} \subseteq B
    OBVIOUS
  <2>2. TextBlock(t) \in Seq({[kind |-> "text", text |-> t]})
    BY TextOnly
  <2> HIDE DEF B, t
  <2>3. TextBlock(t) \in Seq(B)
    BY <2>1, <2>2, SeqMonotonic
  <2> QED BY <1>1, <2>3, TextOnly
<1>3. CallIn(text) \in Seq(B) /\ \A b \in Range(CallIn(text)) : b.kind = "call"
  <2> DEFINE c == [kind |-> "call", text |-> <<"j">>]
  <2>1. c \in B /\ c.kind = "call"
    OBVIOUS
  <2>2. CallIn(text) = <<>> \/ CallIn(text) = <<c>>
    BY DEF CallIn
  <2> HIDE DEF B, c
  <2>3. CASE CallIn(text) = <<>>
    BY <2>3 DEF Range
  <2>4. CASE CallIn(text) = <<c>>
    <3>1. DOMAIN <<c>> = 1 .. 1 /\ <<c>>[1] = c /\ <<c>> \in Seq(B)
      BY <2>1
    <3>2. \A b \in Range(<<c>>) : b = c
      BY <3>1 DEF Range
    <3> QED BY <2>1, <2>4, <3>1, <3>2
  <2> QED BY <2>2, <2>3, <2>4
<1> HIDE DEF B, t
<1> DEFINE both == TextIn(text) \o CallIn(text)
           n == Len(TextIn(text))
           k == Len(CallIn(text))
<1>4. both \in Seq(B) /\ Len(both) = n + k /\ n \in Nat /\ k \in Nat
      /\ DOMAIN both = 1 .. n + k /\ DOMAIN CallIn(text) = 1 .. k /\ DOMAIN TextIn(text) = 1 .. n
  BY <1>2, <1>3, ConcatProperties, LenProperties
<1>5. \A i \in 1 .. n + k : both[i] = IF i <= n THEN TextIn(text)[i] ELSE CallIn(text)[i - n]
  BY <1>2, <1>3, ConcatProperties
<1>6. x.blocks = both
  <2>1. TextBlock(<<>> \o <<>>) = <<>>
    BY NoText DEF TextBlock
  <2>2. both \o <<>> = both
    BY <1>4, ConcatEmptySeq
  <2> QED BY <2>1, <2>2
<1> HIDE DEF both, n, k
<1>7. Calls(x) = Range(CallIn(text))
  <2>1. ASSUME NEW b \in Calls(x) PROVE b \in Range(CallIn(text))
    <3>1. PICK i \in 1 .. n + k : b = both[i] /\ b.kind = "call"
      BY <1>4, <1>6 DEF Calls, Range
    <3>2. CASE i <= n
      <4>1. b \in Range(TextIn(text))
        <5>1. i \in 1 .. n /\ b = TextIn(text)[i]
          BY <1>4, <1>5, <3>1, <3>2
        <5> QED BY <1>4, <5>1 DEF Range
      <4> QED BY <1>2, <3>1, <4>1
    <3>3. CASE ~(i <= n)
      <4>1. i - n \in 1 .. k /\ b = CallIn(text)[i - n]
        BY <1>4, <1>5, <3>1, <3>3
      <4> QED BY <1>4, <4>1 DEF Range
    <3> QED BY <3>2, <3>3
  <2>2. ASSUME NEW b \in Range(CallIn(text)) PROVE b \in Calls(x)
    <3>1. PICK i \in 1 .. k : b = CallIn(text)[i]
      BY <1>4 DEF Range
    <3>2. n + i \in 1 .. n + k /\ ~(n + i <= n) /\ (n + i) - n = i
      BY <1>4
    <3>3. b = both[n + i]
      BY <1>5, <3>1, <3>2
    <3> QED BY <1>3, <1>4, <1>6, <3>2, <3>3 DEF Calls, Range
  <2> QED BY <2>1, <2>2
<1> QED BY <1>6, <1>7 DEF ExtractedRight, both

\* There is a call: it is said, behind the text before it.
LEMMA CallStep ==
  ASSUME NEW S, NEW text \in Seq(S), Signs \subseteq S, NEW x, Closed(text), AtCall(text, x)
  PROVE  \/ AtCall(text, ExtractStep(x))
         \/ ExtractStep(x).over /\ ExtractedRight(text, ExtractStep(x))
<1> DEFINE before == Before(text, OpenTag)
           body == Body(text)
           z == ExtractStep(x)
<1>1. CASE x = Going(Says(NewDetector, "call", body), before)
  <2>1. TakeIn(x).plain = <<>>
        /\ TakeIn(x).blocks = (<<>> \o TextBlock(before)) \o
             (IF IsCall(body) THEN <<[kind |-> "call", text |-> body]>> ELSE <<>>)
    BY <1>1 DEF TakeIn, Going, Says
  <2>2. CallIn(text) = IF IsCall(body) THEN <<[kind |-> "call", text |-> body]>> ELSE <<>>
    BY DEF CallIn, IsCall, Body
  <2>3. <<>> \o TextBlock(before) = TextIn(text)
    <3>1. TextBlock(before) \in Seq({[kind |-> "text", text |-> before]})
      BY TextOnly
    <3>2. TextIn(text) = TextBlock(before)
      BY DEF TextIn, Closed
    <3> HIDE DEF before
    <3>3. <<>> \o TextBlock(before) = TextBlock(before)
      BY <3>1, ConcatEmptySeq
    <3> QED BY <3>2, <3>3
  <2>4. z = [said |-> Says(NewDetector, "text", <<>>), plain |-> <<>>, over |-> TRUE,
             blocks |-> TakeIn(x).blocks \o TextBlock(TakeIn(x).plain \o <<>>)]
    BY <1>1, LastStep
  <2>5. TakeIn(x).blocks = TextIn(text) \o CallIn(text)
    BY <2>1, <2>2, <2>3
  <2>6. z.over /\ z.blocks = (TextIn(text) \o CallIn(text)) \o TextBlock(<<>> \o <<>>)
    <3>1. z.over /\ z.blocks = TakeIn(x).blocks \o TextBlock(TakeIn(x).plain \o <<>>)
      <4> DEFINE a == Says(NewDetector, "text", <<>>)
                 e == <<>>
                 c == TakeIn(x).blocks \o TextBlock(TakeIn(x).plain \o <<>>)
      <4>1. z = [said |-> a, plain |-> e, over |-> TRUE, blocks |-> c]
        BY <2>4
      <4> HIDE DEF z, a, e, c
      <4>2. z.over /\ z.blocks = c
        BY <4>1
      <4> QED BY <4>2 DEF c
    <3> HIDE DEF z
    <3> QED BY <2>1, <2>5, <3>1
  <2> QED BY <2>6, CallTaken
<1>2. CASE x = Going(Says(Flushing(text), "text", before), <<>>)
  <2> DEFINE whole == OpenTag \o body \o CloseTag
             d == Flushing(text)
             o == Opened(d, whole)
  <2>1. /\ body \in Seq(S) /\ whole \in Seq(S)
        /\ Has(whole, OpenTag) /\ Before(whole, OpenTag) = <<>>
        /\ Has(After(whole, OpenTag), CloseTag) /\ Before(After(whole, OpenTag), CloseTag) = body
    BY Reread
  <2>2. Detector(d) /\ d.state = "normal" /\ d.flush = whole
    <3>1. d = DetectorOf("normal", <<>>, <<>>, whole)
      BY DEF Flushing
    <3> HIDE DEF d, whole
    <3> QED BY <3>1, Detectors
  <2> HIDE DEF whole, body
  <2>3. d.state = "normal" /\ d.flush = whole /\ whole \o <<>> = whole
    BY <2>1, <2>2, ConcatEmptySeq
  <2> HIDE DEF d
  <2>4. Detector(o) /\ o.capture = After(whole, OpenTag) /\ o.tag = <<>> /\ o.flush = <<>>
    BY <2>2, OpenedIs
  <2> HIDE DEF o
  <2>5. TryClose(o) = Says(NewDetector, "call", body)
    BY <2>1, <2>4, Emptied DEF TryClose
  <2>6. FeedNormal(d, <<>>) = Says(NewDetector, "call", body)
    <3>1. TryClose(o).kind = "call"
      BY <2>5 DEF Says
    <3> QED BY <2>1, <2>3, <2>5, <3>1 DEF FeedNormal, o
  <2>7. Feed(d, <<>>) = Says(NewDetector, "call", body)
    BY <2>3, <2>6 DEF Feed
  <2>8. x.said.det = d
    BY <1>2 DEF Going, Says, d
  <2>9. z = [TakeIn(x) EXCEPT !.said = Says(NewDetector, "call", body)]
    <3>1. Says(NewDetector, "call", body).kind = "call"
      BY DEF Says
    <3> QED BY <2>7, <2>8, <3>1 DEF ExtractStep
  <2>10. TakeIn(x) = Going(Says(Flushing(text), "text", before), before)
    <3>1. TakeIn(x) = [x EXCEPT !.plain = <<>> \o before]
      BY <1>2 DEF TakeIn, Going, Says
    <3>2. <<>> \o before = before
      <4>1. before \in Seq(S)
        BY Cut, Tags DEF Closed
      <4> HIDE DEF before
      <4> QED BY <4>1, ConcatEmptySeq
    <3> HIDE DEF before
    <3>3. TakeIn(x) = [x EXCEPT !.plain = before]
      BY <3>1, <3>2
    <3> QED BY <1>2, <3>3 DEF Going
  <2>11. z = Going(Says(NewDetector, "call", body), before)
    BY <2>9, <2>10, Resaid
  <2> QED BY <2>11 DEF AtCall, body
<1> QED BY <1>1, <1>2 DEF AtCall

LEMMA StepExtract ==
  ASSUME NEW S, NEW text \in Seq(S), Signs \subseteq S, NEW x, ~x.over, Extracting(text, x)
  PROVE  Extracting(text, ExtractStep(x))
<1>1. CASE Closed(text) /\ AtCall(text, x)
  BY <1>1, CallStep DEF Extracting
<1>2. CASE Has(text, OpenTag) /\ ~Closed(text) /\ AtOpen(text, x)
  BY <1>2, OpenStep DEF Extracting
<1>3. CASE ~Has(text, OpenTag) /\ PartialTag(text, OpenTag) > 0 /\ AtPart(text, x)
  BY <1>3, PartStep DEF Extracting
<1>4. CASE ~Has(text, OpenTag) /\ AtPlain(text, x)
  BY <1>4, PlainStep DEF Extracting
<1> QED BY <1>1, <1>2, <1>3, <1>4 DEF Extracting

LEMMA ExtractStarts ==
  ASSUME NEW S, NEW text \in Seq(S), Signs \subseteq S
  PROVE  Extracting(text, StartExtract(text))
<1> SUFFICES ASSUME NEW x, x = StartExtract(text) PROVE Extracting(text, x)
  OBVIOUS
<1> DEFINE d == NewDetector
           o == Opened(d, text)
           before == Before(text, OpenTag)
<1>1. d.state = "normal" /\ d.flush = <<>> /\ <<>> \o text = text
  BY ConcatEmptySeq, NewFields
<1>2. /\ o = Capturing(text) /\ Detector(o) /\ o.capture = After(text, OpenTag)
      /\ o.tag = <<>> /\ o.flush = <<>>
  BY NewFields, OpenedIs DEF Capturing
<1>3. Feed(d, text) = FeedNormal(d, text)
  BY <1>1 DEF Feed
<1>4. x = Going(FeedNormal(d, text), <<>>)
  BY <1>3 DEF StartExtract, Going
<1> HIDE DEF o
<1>5. CASE Closed(text)
  <2>1. TryClose(o) = Says(NewDetector, "call", Body(text))
    <3>1. Has(o.capture, CloseTag) /\ Before(o.capture, CloseTag) = Body(text)
      BY <1>2, <1>5 DEF Closed, Body
    <3>2. [o EXCEPT !.capture = <<>>, !.state = "normal"] = NewDetector
      BY <1>2, Emptied
    <3> QED BY <3>1, <3>2 DEF TryClose
  <2>2. TryClose(o).kind = "call" /\ TryClose(o).det = NewDetector /\ TryClose(o).text = Body(text)
    BY <2>1 DEF Says
  <2>3. CASE before = <<>>
    <3>1. FeedNormal(d, text) = TryClose(o)
      BY <1>1, <1>5, <2>2, <2>3 DEF FeedNormal, o, Closed
    <3>2. x = Going(Says(NewDetector, "call", Body(text)), Before(text, OpenTag))
      BY <1>4, <2>1, <2>3, <3>1
    <3> QED BY <1>5, <3>2 DEF Extracting, AtCall
  <2>4. CASE before # <<>>
    <3>1. FeedNormal(d, text) =
            Says([NewDetector EXCEPT !.flush = OpenTag \o Body(text) \o CloseTag], "text", before)
      BY <1>1, <1>5, <2>2, <2>4 DEF FeedNormal, o, Closed
    <3>2. [NewDetector EXCEPT !.flush = OpenTag \o Body(text) \o CloseTag] = Flushing(text)
      <4> DEFINE f == OpenTag \o Body(text) \o CloseTag
                 e == <<>>
      <4>1. NewDetector.state = "normal" /\ NewDetector.tag = e /\ NewDetector.capture = e
        BY NewFields
      <4>2. Flushing(text) = DetectorOf("normal", e, e, f)
        BY DEF Flushing
      <4> HIDE DEF f, e
      <4>3. PutFlush(NewDetector, f) = DetectorOf(NewDetector.state, NewDetector.tag, NewDetector.capture, f)
        BY NewFields, Fed
      <4>4. PutFlush(NewDetector, f) = Flushing(text)
        BY <4>1, <4>2, <4>3
      <4> QED BY <4>4 DEF PutFlush, f
    <3>3. x = Going(Says(Flushing(text), "text", Before(text, OpenTag)), <<>>)
      BY <1>4, <3>1, <3>2
    <3> QED BY <1>5, <3>3 DEF Extracting, AtCall
  <2> QED BY <2>3, <2>4
<1>6. CASE Has(text, OpenTag) /\ ~Closed(text)
  <2>1. TryClose(o).kind = "buffering"
    BY <1>2, <1>6 DEF TryClose, Closed, Says
  <2>2. FeedNormal(d, text) = TextOf(o, before)
    BY <1>1, <1>6, <2>1 DEF FeedNormal, o
  <2>3. PICK kind \in {"text", "buffering"} : x = Going(Says(Capturing(text), kind, before), <<>>)
    BY <1>2, <1>4, <2>2 DEF TextOf
  <2> QED BY <1>6, <2>3 DEF Extracting, AtOpen
<1>7. CASE ~Has(text, OpenTag) /\ PartialTag(text, OpenTag) > 0
  <2> DEFINE h == PartialTag(text, OpenTag)
  <2>1. FeedNormal(d, text) =
          TextOf([d EXCEPT !.flush = <<>>, !.state = "maybe", !.tag = SubSeq(OpenTag, 1, h)],
                 SubSeq(text, 1, Len(text) - h))
    BY <1>1, <1>7 DEF FeedNormal
  <2>2. [d EXCEPT !.flush = <<>>, !.state = "maybe", !.tag = SubSeq(OpenTag, 1, h)] = Maybe(text)
    <3> DEFINE t == SubSeq(OpenTag, 1, h)
               e == <<>>
    <3>1. NewDetector.capture = e
      BY NewFields
    <3>2. Maybe(text) = DetectorOf("maybe", t, e, e)
      BY DEF Maybe
    <3> HIDE DEF t, e
    <3>3. PutTag(NewDetector, e, "maybe", t) = DetectorOf("maybe", t, NewDetector.capture, e)
      BY NewFields, Fed
    <3>4. PutTag(NewDetector, e, "maybe", t) = Maybe(text)
      BY <3>1, <3>2, <3>3
    <3> QED BY <3>4 DEF PutTag, t, e
  <2>3. PICK kind \in {"text", "buffering"} :
          x = Going(Says(Maybe(text), kind, SubSeq(text, 1, Len(text) - h)), <<>>)
    BY <1>4, <2>1, <2>2 DEF TextOf
  <2> QED BY <1>7, <2>3 DEF Extracting, AtPart
<1>8. CASE ~Has(text, OpenTag) /\ ~(PartialTag(text, OpenTag) > 0)
  <2>1. [d EXCEPT !.flush = <<>>] = d
    BY DEF NewDetector
  <2>2. FeedNormal(d, text) = Says(d, "text", text)
    BY <1>1, <1>8, <2>1 DEF FeedNormal
  <2> QED BY <1>4, <1>8, <2>2 DEF Extracting, AtPlain
<1> QED BY <1>5, <1>6, <1>7, <1>8

\* What the invariant is for.
LEMMA Extracted ==
  ASSUME NEW text, NEW x, Extracting(text, x)
  PROVE  ExtractedRight(text, x)
<1>1. ASSUME NEW said, NEW plain, x = Going(said, plain) PROVE ~x.over
  BY <1>1 DEF Going
<1> QED BY <1>1 DEF Extracting, AtCall, AtOpen, AtPart, AtPlain, ExtractedRight

-----------------------------------------------------------------------------
(* Recursion over a stretch of numbers.                                    *)

\* What holds at its start, and is kept by a step, holds everywhere in it.
LEMMA Throughout ==
  ASSUME NEW lo \in Nat, NEW hi \in Nat, lo <= hi, NEW P, lo \in P,
         \A n \in lo .. hi - 1 : n \in P => n + 1 \in P
  PROVE  \A n \in lo .. hi : n \in P
<1> DEFINE T == {n \in lo .. hi : n \notin P}
<1>1. ASSUME T # {} PROVE FALSE
  <2>1. PICK m \in T : \A k \in T : m <= k
    <3>1. T \in SUBSET Nat
      OBVIOUS
    <3> QED BY <3>1, <1>1, Least
  <2>2. m # lo /\ m - 1 \in lo .. hi - 1 /\ m - 1 \notin T /\ (m - 1) + 1 = m
    BY <2>1
  <2>3. m - 1 \in P
    BY <2>2
  <2> QED BY <2>1, <2>2, <2>3
<1> QED BY <1>1

Unrolls(f, lo, hi, start, g) ==
  f = [n \in lo .. hi |-> IF n = lo THEN start ELSE g[<<f[n - 1], n>>]]

LEMMA Recursion ==
  ASSUME NEW S, NEW lo \in Nat, NEW hi \in Nat, lo <= hi, NEW start \in S,
         NEW g \in [S \X (lo .. hi) -> S]
  PROVE  \E f \in [lo .. hi -> S] : Unrolls(f, lo, hi, start, g)
<1> DEFINE Made(m, f) == f = [n \in lo .. m |-> IF n = lo THEN start ELSE g[<<f[n - 1], n>>]]
           P == {m \in lo .. hi : \E f \in [lo .. m -> S] : Made(m, f)}
<1>1. lo \in P
  <2> DEFINE f == [n \in lo .. lo |-> start]
  <2>1. \A n \in lo .. lo : n = lo
    OBVIOUS
  <2>2. f \in [lo .. lo -> S] /\ Made(lo, f)
    BY <2>1
  <2>3. lo \in lo .. hi
    OBVIOUS
  <2> HIDE DEF f, Made
  <2> QED BY <2>2, <2>3
<1>2. ASSUME NEW m \in lo .. hi - 1, m \in P PROVE m + 1 \in P
  <2>1. PICK f \in [lo .. m -> S] : Made(m, f)
    BY <1>2
  <2> DEFINE h == [n \in lo .. m + 1 |-> IF n = m + 1 THEN g[<<f[m], m + 1>>] ELSE f[n]]
  <2>2. \A n \in lo .. m : f[n] = IF n = lo THEN start ELSE g[<<f[n - 1], n>>]
    BY <2>1
  <2>3. f[m] \in S /\ m + 1 \in lo .. hi /\ g[<<f[m], m + 1>>] \in S
    <3>1. f[m] \in S /\ m + 1 \in lo .. hi
      OBVIOUS
    <3>2. <<f[m], m + 1>> \in S \X (lo .. hi)
      BY <3>1
    <3> QED BY <3>1, <3>2
  <2>4. \A n \in lo .. m + 1 : n = m + 1 \/ n \in lo .. m
    OBVIOUS
  <2>5. h \in [lo .. m + 1 -> S]
    BY <2>3, <2>4
  <2>6. \A n \in lo .. m + 1 : h[n] = IF n = m + 1 THEN g[<<f[m], m + 1>>] ELSE f[n]
    OBVIOUS
  <2> HIDE DEF h
  <2>7. ASSUME NEW n \in lo .. m + 1
        PROVE  h[n] = IF n = lo THEN start ELSE g[<<h[n - 1], n>>]
    <3>1. CASE n = m + 1
      <4>1. n # lo /\ n - 1 = m /\ m \in lo .. m + 1 /\ m # m + 1
        BY <3>1
      <4>2. h[n - 1] = f[m]
        BY <4>1, <2>6
      <4> QED BY <4>1, <4>2, <3>1, <2>6
    <3>2. CASE n # m + 1
      <4>1. n \in lo .. m /\ (n # lo => n - 1 \in lo .. m + 1 /\ n - 1 # m + 1)
        BY <3>2
      <4>2. h[n] = f[n] /\ (n # lo => h[n - 1] = f[n - 1])
        BY <4>1, <3>2, <2>6
      <4> QED BY <4>1, <4>2, <2>2
    <3> QED BY <3>1, <3>2
  <2>8. Made(m + 1, h)
    BY <2>5, <2>7
  <2> QED BY <2>3, <2>5, <2>8
<1> HIDE DEF P
<1>3. hi \in P
  BY <1>1, <1>2, Throughout
<1> QED BY <1>3 DEF P, Unrolls

-----------------------------------------------------------------------------
(* Sifting.                                                                *)

Sifts(f, m, start, these, K) ==
  f = [n \in 0 .. m |-> IF n = 0 THEN start
                        ELSE IF <<f[n - 1], these[n]>> \in K THEN Append(f[n - 1], these[n])
                                                             ELSE f[n - 1]]

LEMMA SiftExists ==
  ASSUME NEW E, NEW start \in Seq(E), NEW m \in Nat, NEW these \in [1 .. m -> E], NEW K
  PROVE  \E f : (\A n \in 0 .. m : f[n] \in Seq(E)) /\ Sifts(f, m, start, these, K)
<1> DEFINE S == Seq(E)
           Next1(s, n) == IF n = 0 THEN s
                          ELSE IF <<s, these[n]>> \in K THEN Append(s, these[n]) ELSE s
           g == [p \in S \X (0 .. m) |-> Next1(p[1], p[2])]
<1>1. \A s \in S, n \in 0 .. m : Next1(s, n) \in S
  <2> SUFFICES ASSUME NEW s \in S, NEW n \in 0 .. m PROVE Next1(s, n) \in S
    OBVIOUS
  <2>1. CASE n = 0
    BY <2>1
  <2>2. CASE n # 0
    <3>1. these[n] \in E
      BY <2>2
    <3>2. Append(s, these[n]) \in S
      BY <3>1
    <3> QED BY <2>2, <3>2
  <2> QED BY <2>1, <2>2
<1>2. g \in [S \X (0 .. m) -> S] /\ \A s \in S, n \in 0 .. m : g[<<s, n>>] = Next1(s, n)
  <2> HIDE DEF Next1, S
  <2> QED BY <1>1
<1> HIDE DEF g
<1>3. PICK f \in [0 .. m -> S] :
        f = [n \in 0 .. m |-> IF n = 0 THEN start ELSE g[<<f[n - 1], n>>]]
  <2> HIDE DEF S
  <2>1. start \in S /\ 0 <= m /\ 0 \in Nat
    BY DEF S
  <2>2. g \in [S \X (0 .. m) -> S]
    BY <1>2
  <2> HIDE DEF Next1
  <2>3. \E f \in [0 .. m -> S] : Unrolls(f, 0, m, start, g)
    BY <2>1, <2>2, Recursion
  <2> QED BY <2>3 DEF Unrolls
<1>4. ASSUME NEW n \in 0 .. m, n # 0
      PROVE  g[<<f[n - 1], n>>] =
               IF <<f[n - 1], these[n]>> \in K THEN Append(f[n - 1], these[n]) ELSE f[n - 1]
  <2>1. n - 1 \in 0 .. m
    BY <1>4
  <2>2. f[n - 1] \in S
    <3> HIDE DEF S
    <3> QED BY <2>1
  <2>3. g[<<f[n - 1], n>>] = Next1(f[n - 1], n)
    <3> HIDE DEF S, Next1
    <3> QED BY <1>2, <2>2
  <2> QED BY <1>4, <2>3
<1>5. f = [n \in 0 .. m |->
             IF n = 0 THEN start
             ELSE IF <<f[n - 1], these[n]>> \in K THEN Append(f[n - 1], these[n]) ELSE f[n - 1]]
  <2> HIDE DEF S
  <2> QED BY <1>3, <1>4
<1>6. \A n \in 0 .. m : f[n] \in Seq(E)
  OBVIOUS
<1> QED BY <1>5, <1>6 DEF Sifts

Grows(f, m, these) ==
  \A n \in 1 .. m : f[n] = f[n - 1] \/ f[n] = Append(f[n - 1], these[n])

\* The i-th was put there, behind what is before it.
PutThere(f, m, these, E, i) ==
  \E n \in 1 .. m :
    /\ f[m][i] = these[n]
    /\ f[n] = Append(f[n - 1], these[n]) /\ f[n] # f[n - 1]
    /\ f[n - 1] \in Seq(E) /\ Len(f[n - 1]) = i - 1
    /\ \A j \in 1 .. i - 1 : f[n - 1][j] = f[m][j]

\* Every step leaves out one of these or puts it behind the others; what is
\* put there stays, and had before it what is before it in the end.
LEMMA Sifted ==
  ASSUME NEW E, NEW start \in Seq(E), NEW m \in Nat, NEW these \in [1 .. m -> E],
         NEW f, f[0] = start, Grows(f, m, these)
  PROVE  /\ f[m] \in Seq(E) /\ Len(start) <= Len(f[m])
         /\ \A i \in 1 .. Len(start) : f[m][i] = start[i]
         /\ \A i \in Len(start) + 1 .. Len(f[m]) : PutThere(f, m, these, E, i)
<1> DEFINE Put(i, n, s) ==
             /\ s[i] = these[n]
             /\ f[n] = Append(f[n - 1], these[n]) /\ f[n] # f[n - 1]
             /\ f[n - 1] \in Seq(E) /\ Len(f[n - 1]) = i - 1
             /\ \A j \in 1 .. i - 1 : f[n - 1][j] = s[j]
           Ok(k) ==
             /\ f[k] \in Seq(E) /\ Len(start) <= Len(f[k])
             /\ \A i \in 1 .. Len(start) : f[k][i] = start[i]
             /\ \A i \in Len(start) + 1 .. Len(f[k]) : \E n \in 1 .. k : Put(i, n, f[k])
           P == {k \in 0 .. m : Ok(k)}
<1>1. Len(start) \in Nat
  BY LenProperties
<1>2. Ok(0)
  <2>1. Len(start) + 1 .. Len(start) = {}
    BY <1>1
  <2> QED BY <1>1, <2>1
<1>3. ASSUME NEW k \in 0 .. m - 1, Ok(k) PROVE Ok(k + 1)
  <2>1. k + 1 \in 1 .. m /\ (k + 1) - 1 = k
    OBVIOUS
  <2>2. f[k + 1] = f[k] \/ f[k + 1] = Append(f[k], these[k + 1])
    BY <2>1 DEF Grows
  <2>3. f[k] \in Seq(E) /\ Len(f[k]) \in Nat
    BY <1>3, LenProperties
  <2>4. \A n \in 1 .. k : n \in 1 .. k + 1
    OBVIOUS
  <2>5. CASE f[k + 1] = f[k]
    <3> HIDE DEF Put
    <3>1. \A i \in Len(start) + 1 .. Len(f[k]) : \E n \in 1 .. k + 1 : Put(i, n, f[k])
      BY <1>3, <2>4
    <3> QED BY <1>3, <2>5, <3>1
  <2>6. CASE f[k + 1] = Append(f[k], these[k + 1])
    <3> DEFINE a == f[k]
               b == f[k + 1]
               e == these[k + 1]
               l == Len(a)
    <3>1. /\ b \in Seq(E) /\ Len(b) = l + 1 /\ b[l + 1] = e
          /\ \A i \in 1 .. l : b[i] = a[i]
      <4>1. e \in E
        BY <2>1
      <4> HIDE DEF e, a
      <4> QED BY <2>3, <2>6, <4>1 DEF e, a
    <3>2. l \in Nat /\ Len(start) <= l
      BY <1>3, <2>3
    <3>3. Len(start) <= Len(b) /\ \A i \in 1 .. Len(start) : i \in 1 .. l
      BY <1>1, <3>1, <3>2
    <3>4. \A i \in 1 .. Len(start) : b[i] = start[i]
      BY <1>3, <3>1, <3>3
    <3>5. ASSUME NEW i \in Len(start) + 1 .. l + 1 PROVE \E n \in 1 .. k + 1 : Put(i, n, b)
      <4>1. CASE i = l + 1
        <5>1. i - 1 = l /\ \A j \in 1 .. i - 1 : a[j] = b[j]
          BY <3>1, <3>2, <4>1
        <5>2. b # a
          BY <3>1, <3>2
        <5>3. Put(i, k + 1, b)
          BY <2>1, <2>3, <2>6, <3>1, <4>1, <5>1, <5>2
        <5>4. k + 1 \in 1 .. k + 1
          OBVIOUS
        <5> HIDE DEF Put, b, l
        <5> QED BY <5>3, <5>4
      <4>2. CASE i # l + 1
        <5>1. i \in Len(start) + 1 .. l /\ i \in 1 .. l /\ \A j \in 1 .. i - 1 : j \in 1 .. l
          BY <1>1, <3>2, <4>2
        <5>2. PICK n \in 1 .. k : Put(i, n, a)
          BY <1>3, <5>1
        <5>3. a[i] = b[i] /\ \A j \in 1 .. i - 1 : a[j] = b[j]
          BY <3>1, <5>1
        <5>4. Put(i, n, b)
          BY <5>2, <5>3
        <5> QED BY <2>4, <5>4
      <4> QED BY <4>1, <4>2
    <3> HIDE DEF Put, l, e
    <3>6. \A i \in Len(start) + 1 .. Len(b) : \E n \in 1 .. k + 1 : Put(i, n, b)
      BY <3>1, <3>5
    <3> QED BY <3>1, <3>3, <3>4, <3>6
  <2> QED BY <2>2, <2>5, <2>6
<1> HIDE DEF Ok
<1>4. m \in P
  <2>1. 0 \in P
    BY <1>2
  <2>2. \A k \in 0 .. m - 1 : k \in P => k + 1 \in P
    BY <1>3
  <2> HIDE DEF P
  <2>3. \A n \in 0 .. m : n \in P
    <3>1. 0 \in Nat /\ m \in Nat /\ 0 <= m
      OBVIOUS
    <3> QED BY <2>1, <2>2, <3>1, Throughout
  <2> QED BY <2>3
<1>5. Ok(m)
  BY <1>4
<1> QED BY <1>5 DEF Ok, PutThere

LEMMA QuestionGone ==
  ASSUME NEW s, NEW query, NEW E, NEW hits \in Seq(E)
  PROVE  LET kept == NotTheQuestion(s, norm, query, hits)
         IN  /\ kept \in Seq(E)
             /\ \A i \in 1 .. Len(kept) : norm[s.slots[kept[i]]] # norm[query]
<1> DEFINE m == Len(hits)
           Keeps1(hit) == norm[s.slots[hit]] # norm[query]
           e == <<>>
           Is(f) == f = [n \in 0 .. m |-> IF n = 0 THEN e
                                          ELSE IF Keeps1(hits[n])
                                            THEN Append(f[n - 1], hits[n]) ELSE f[n - 1]]
           after == CHOOSE f : Is(f)
           kept == NotTheQuestion(s, norm, query, hits)
<1>1. kept = after[m]
  BY DEF NotTheQuestion, Sift
<1>2. m \in Nat /\ hits \in [1 .. m -> E] /\ e \in Seq(E) /\ Len(e) = 0
  BY LenProperties, EmptySeq
<1> HIDE DEF m, kept, e
<1>3. \E f : Is(f)
  <2> DEFINE K == {p \in Seq(E) \X E : Keeps1(p[2])}
  <2>1. PICK f : (\A n \in 0 .. m : f[n] \in Seq(E)) /\ Sifts(f, m, e, hits, K)
    <3> HIDE DEF K
    <3> QED BY <1>2, SiftExists
  <2>2. \A n \in 0 .. m : n # 0 => (<<f[n - 1], hits[n]>> \in K <=> Keeps1(hits[n]))
    <3> SUFFICES ASSUME NEW n \in 0 .. m, n # 0
                 PROVE  <<f[n - 1], hits[n]>> \in K <=> Keeps1(hits[n])
      OBVIOUS
    <3>1. n - 1 \in 0 .. m /\ n \in 1 .. m
      BY <1>2
    <3>2. f[n - 1] \in Seq(E) /\ hits[n] \in E
      BY <1>2, <2>1, <3>1
    <3> HIDE DEF Keeps1
    <3> QED BY <3>2
  <2> HIDE DEF K, Keeps1
  <2>3. Is(f)
    BY <2>1, <2>2 DEF Sifts
  <2> QED BY <2>3
<1>4. Is(after)
  <2> HIDE DEF Is
  <2> QED BY <1>3
<1> HIDE DEF after
<1>5. after[0] = e /\ \A n \in 1 .. m :
        after[n] = IF Keeps1(hits[n]) THEN Append(after[n - 1], hits[n]) ELSE after[n - 1]
  <2> HIDE DEF Keeps1
  <2>1. \A n \in 0 .. m : after[n] = IF n = 0 THEN e ELSE IF Keeps1(hits[n])
                                            THEN Append(after[n - 1], hits[n]) ELSE after[n - 1]
    BY <1>4
  <2>2. 0 \in 0 .. m /\ \A n \in 1 .. m : n \in 0 .. m /\ n # 0
    BY <1>2
  <2> HIDE DEF Is
  <2> QED BY <2>1, <2>2
<1>6. Grows(after, m, hits) /\ after[0] = e
  <2> HIDE DEF Keeps1
  <2> QED BY <1>5 DEF Grows
<1> HIDE DEF Is, Keeps1
<1>7. kept \in Seq(E) /\ \A i \in Len(e) + 1 .. Len(kept) : PutThere(after, m, hits, E, i)
  BY <1>1, <1>2, <1>6, Sifted
<1>8. ASSUME NEW i \in 1 .. Len(kept) PROVE Keeps1(kept[i])
  <2>1. i \in Len(e) + 1 .. Len(kept)
    BY <1>2
  <2>2. PutThere(after, m, hits, E, i)
    BY <1>7, <2>1
  <2>3. PICK n \in 1 .. m : after[m][i] = hits[n] /\ after[n] # after[n - 1]
    BY <2>2 DEF PutThere
  <2> QED BY <1>1, <1>5, <2>3
<1> QED BY <1>7, <1>8 DEF kept, Keeps1
LEMMA DoublesGone ==
  ASSUME NEW s, NEW E, NEW hits \in Seq(E)
  PROVE  LET kept == Dedup(s, sim, hits)
         IN  /\ kept \in Seq(E)
             /\ \A i \in 1 .. Len(kept) : \A j \in 1 .. i - 1 :
                  sim[s.slots[kept[j]], s.slots[kept[i]]] <= DedupThreshold
<1> DEFINE m == Len(hits)
           Keeps1(before, slot) ==
             \A i \in DOMAIN before : sim[s.slots[before[i]], s.slots[slot]] <= DedupThreshold
           e == <<>>
           Is(f) == f = [n \in 0 .. m |-> IF n = 0 THEN e
                                          ELSE IF Keeps1(f[n - 1], hits[n])
                                            THEN Append(f[n - 1], hits[n]) ELSE f[n - 1]]
           after == CHOOSE f : Is(f)
           kept == Dedup(s, sim, hits)
<1>1. kept = after[m]
  BY DEF Dedup, Sift
<1>2. m \in Nat /\ hits \in [1 .. m -> E] /\ e \in Seq(E) /\ Len(e) = 0
  BY LenProperties, EmptySeq
<1> HIDE DEF m, kept, e
<1>3. \E f : Is(f)
  <2> DEFINE K == {p \in Seq(E) \X E : Keeps1(p[1], p[2])}
  <2>1. PICK f : (\A n \in 0 .. m : f[n] \in Seq(E)) /\ Sifts(f, m, e, hits, K)
    <3> HIDE DEF K
    <3> QED BY <1>2, SiftExists
  <2>2. \A n \in 0 .. m : n # 0 => (<<f[n - 1], hits[n]>> \in K <=> Keeps1(f[n - 1], hits[n]))
    <3> SUFFICES ASSUME NEW n \in 0 .. m, n # 0
                 PROVE  <<f[n - 1], hits[n]>> \in K <=> Keeps1(f[n - 1], hits[n])
      OBVIOUS
    <3>1. n - 1 \in 0 .. m /\ n \in 1 .. m
      BY <1>2
    <3>2. f[n - 1] \in Seq(E) /\ hits[n] \in E
      BY <1>2, <2>1, <3>1
    <3> HIDE DEF Keeps1
    <3> QED BY <3>2
  <2> HIDE DEF K, Keeps1
  <2>3. Is(f)
    BY <2>1, <2>2 DEF Sifts
  <2> QED BY <2>3
<1>4. Is(after)
  <2> HIDE DEF Is
  <2> QED BY <1>3
<1> HIDE DEF after
<1>5. after[0] = e /\ \A n \in 1 .. m :
        after[n] = IF Keeps1(after[n - 1], hits[n]) THEN Append(after[n - 1], hits[n]) ELSE after[n - 1]
  <2> HIDE DEF Keeps1
  <2>1. \A n \in 0 .. m : after[n] = IF n = 0 THEN e ELSE IF Keeps1(after[n - 1], hits[n])
                                            THEN Append(after[n - 1], hits[n]) ELSE after[n - 1]
    BY <1>4
  <2>2. 0 \in 0 .. m /\ \A n \in 1 .. m : n \in 0 .. m /\ n # 0
    BY <1>2
  <2> HIDE DEF Is
  <2> QED BY <2>1, <2>2
<1>6. Grows(after, m, hits) /\ after[0] = e
  <2> HIDE DEF Keeps1
  <2> QED BY <1>5 DEF Grows
<1> HIDE DEF Is, Keeps1
<1>7. kept \in Seq(E) /\ \A i \in Len(e) + 1 .. Len(kept) : PutThere(after, m, hits, E, i)
  BY <1>1, <1>2, <1>6, Sifted
<1>8. ASSUME NEW i \in 1 .. Len(kept), NEW j \in 1 .. i - 1
      PROVE  sim[s.slots[kept[j]], s.slots[kept[i]]] <= DedupThreshold
  <2>1. i \in Len(e) + 1 .. Len(kept)
    BY <1>2
  <2>2. PutThere(after, m, hits, E, i)
    BY <1>7, <2>1
  <2>3. PICK n \in 1 .. m :
          /\ after[m][i] = hits[n] /\ after[n] # after[n - 1]
          /\ after[n - 1] \in Seq(E) /\ Len(after[n - 1]) = i - 1
          /\ \A k \in 1 .. i - 1 : after[n - 1][k] = after[m][k]
    BY <2>2 DEF PutThere
  <2>4. Keeps1(after[n - 1], hits[n])
    BY <1>5, <2>3
  <2>5. j \in DOMAIN after[n - 1]
    BY <2>3, LenProperties
  <2> QED BY <1>1, <2>3, <2>4, <2>5 DEF Keeps1
<1> QED BY <1>7, <1>8 DEF kept

\* The hits that are kept stand behind the context, each told apart from the
\* question and from all that is before it.
Added(whole, context, question, hits) ==
  /\ Len(context) <= Len(whole)
  /\ \A i \in 1 .. Len(context) : whole[i] = context[i]
  /\ \A i \in Len(context) + 1 .. Len(whole) :
       /\ \E n \in 1 .. Len(hits) : whole[i] = hits[n]
       /\ whole[i].line # norm[question]
       /\ \A j \in 1 .. i - 1 : whole[j].line # whole[i].line

LEMMA HitsAdded ==
  ASSUME NEW E, NEW context \in Seq(E), NEW question, NEW hits \in Seq(E)
  PROVE  /\ WithHits(context, question, hits) \in Seq(E)
         /\ Added(WithHits(context, question, hits), context, question, hits)
<1> DEFINE m == Len(hits)
           Keeps1(before, hit) == hit.line # norm[question] /\ hit.line \notin Lines(before)
           Is(f) == f = [n \in 0 .. m |-> IF n = 0 THEN context
                                          ELSE IF Keeps1(f[n - 1], hits[n])
                                            THEN Append(f[n - 1], hits[n]) ELSE f[n - 1]]
           after == CHOOSE f : Is(f)
           kept == WithHits(context, question, hits)
<1>1. kept = after[m]
  BY DEF WithHits, Sift
<1>2. m \in Nat /\ hits \in [1 .. m -> E] /\ context \in Seq(E)
  BY LenProperties, EmptySeq
<1> HIDE DEF m, kept
<1>3. \E f : Is(f)
  <2> DEFINE K == {p \in Seq(E) \X E : Keeps1(p[1], p[2])}
  <2>1. PICK f : (\A n \in 0 .. m : f[n] \in Seq(E)) /\ Sifts(f, m, context, hits, K)
    <3> HIDE DEF K
    <3> QED BY <1>2, SiftExists
  <2>2. \A n \in 0 .. m : n # 0 => (<<f[n - 1], hits[n]>> \in K <=> Keeps1(f[n - 1], hits[n]))
    <3> SUFFICES ASSUME NEW n \in 0 .. m, n # 0
                 PROVE  <<f[n - 1], hits[n]>> \in K <=> Keeps1(f[n - 1], hits[n])
      OBVIOUS
    <3>1. n - 1 \in 0 .. m /\ n \in 1 .. m
      BY <1>2
    <3>2. f[n - 1] \in Seq(E) /\ hits[n] \in E
      BY <1>2, <2>1, <3>1
    <3> HIDE DEF Keeps1
    <3> QED BY <3>2
  <2> HIDE DEF K, Keeps1
  <2>3. Is(f)
    BY <2>1, <2>2 DEF Sifts
  <2> QED BY <2>3
<1>4. Is(after)
  <2> HIDE DEF Is
  <2> QED BY <1>3
<1> HIDE DEF after
<1>5. after[0] = context /\ \A n \in 1 .. m :
        after[n] = IF Keeps1(after[n - 1], hits[n]) THEN Append(after[n - 1], hits[n]) ELSE after[n - 1]
  <2> HIDE DEF Keeps1
  <2>1. \A n \in 0 .. m : after[n] = IF n = 0 THEN context ELSE IF Keeps1(after[n - 1], hits[n])
                                            THEN Append(after[n - 1], hits[n]) ELSE after[n - 1]
    BY <1>4
  <2>2. 0 \in 0 .. m /\ \A n \in 1 .. m : n \in 0 .. m /\ n # 0
    BY <1>2
  <2> HIDE DEF Is
  <2> QED BY <2>1, <2>2
<1>6. Grows(after, m, hits) /\ after[0] = context
  <2> HIDE DEF Keeps1
  <2> QED BY <1>5 DEF Grows
<1> HIDE DEF Is, Keeps1
<1>7. /\ kept \in Seq(E) /\ Len(context) <= Len(kept)
      /\ \A i \in 1 .. Len(context) : kept[i] = context[i]
      /\ \A i \in Len(context) + 1 .. Len(kept) : PutThere(after, m, hits, E, i)
  BY <1>1, <1>2, <1>6, Sifted
<1>8. ASSUME NEW i \in Len(context) + 1 .. Len(kept)
      PROVE  /\ \E n \in 1 .. m : kept[i] = hits[n]
             /\ kept[i].line # norm[question]
         /\ \A j \in 1 .. i - 1 : kept[j].line # kept[i].line
  <2>1. PutThere(after, m, hits, E, i)
    BY <1>7
  <2>2. PICK n \in 1 .. m :
          /\ after[m][i] = hits[n] /\ after[n] # after[n - 1]
          /\ after[n - 1] \in Seq(E) /\ Len(after[n - 1]) = i - 1
          /\ \A k \in 1 .. i - 1 : after[n - 1][k] = after[m][k]
    BY <2>1 DEF PutThere
  <2>3. Keeps1(after[n - 1], hits[n])
    BY <1>5, <2>2
  <2>4. hits[n].line # norm[question] /\ hits[n].line \notin Lines(after[n - 1])
    BY <2>3 DEF Keeps1
  <2>5. DOMAIN after[n - 1] = 1 .. i - 1
    BY <2>2, LenProperties
  <2>6. ASSUME NEW j \in 1 .. i - 1 PROVE kept[j].line # kept[i].line
    <3>1. after[n - 1][j].line \in Lines(after[n - 1])
      BY <2>5 DEF Lines
    <3> QED BY <1>1, <2>2, <2>4, <3>1
  <2> QED BY <1>1, <2>2, <2>4, <2>6
<1> QED BY <1>7, <1>8 DEF kept, m, Added

-----------------------------------------------------------------------------
(* What is recalled.                                                       *)

\* The slots that top_k holds are as many from the first to the last.
LEMMA NearestDomain ==
  ASSUME NEW s, s.count \in Nat, NEW query, NEW k \in Nat
  PROVE  DOMAIN Nearest(s, sim, query, k) = 1 .. Min({k, s.count})
<1> DEFINE n == Min({k, s.count})
           c == s.count
           score(slot) == Score(s, sim, query, slot)
           Take(best, slot) ==
             LET worst == Min({score(best[i]) : i \in DOMAIN best})
                 place == Min({i \in DOMAIN best : score(best[i]) = worst})
             IN  IF score(slot) > worst THEN [best EXCEPT ![place] = slot] ELSE best
           Is(f) == f = [seen \in n .. c |->
                           IF seen = n THEN [i \in 1 .. n |-> i - 1]
                                       ELSE Take(f[seen - 1], seen - 1)]
           best == CHOOSE f : Is(f)
<1>1. Nearest(s, sim, query, k) = best[c]
  BY DEF Nearest
<1>2. n \in Nat /\ c \in Nat /\ n <= c
  BY Lesser
<1>3. /\ \A b \in [1 .. n -> Nat], slot \in Nat : Take(b, slot) \in [1 .. n -> Nat]
      /\ \A b, slot : DOMAIN Take(b, slot) = DOMAIN b
  <2> HIDE DEF n, score
  <2> QED OBVIOUS
<1> HIDE DEF n, c, Take
<1>4. \E f : Is(f)
  <2> DEFINE S == [1 .. n -> Nat]
             start == [i \in 1 .. n |-> i - 1]
             g == [p \in S \X (n .. c) |-> IF p[2] = n THEN start ELSE Take(p[1], p[2] - 1)]
  <2>1. start \in S
    BY <1>2
  <2> HIDE DEF start, S
  <2>2. \A b \in S, seen \in n .. c : seen # n => Take(b, seen - 1) \in S
    <3>1. \A seen \in n .. c : seen # n => seen - 1 \in Nat
      BY <1>2
    <3> QED BY <1>3, <3>1 DEF S
  <2>3. g \in [S \X (n .. c) -> S]
        /\ \A b \in S, seen \in n .. c : seen # n => g[<<b, seen>>] = Take(b, seen - 1)
    BY <2>1, <2>2
  <2> HIDE DEF g
  <2>4. PICK f \in [n .. c -> S] : Unrolls(f, n, c, start, g)
    BY <1>2, <2>1, <2>3, Recursion
  <2>5. ASSUME NEW seen \in n .. c, seen # n
        PROVE  g[<<f[seen - 1], seen>>] = Take(f[seen - 1], seen - 1)
    <3>1. seen - 1 \in n .. c
      BY <1>2, <2>5
    <3>2. f[seen - 1] \in S
      BY <3>1
    <3> QED BY <2>3, <2>5, <3>2
  <2>6. f = [seen \in n .. c |-> IF seen = n THEN start ELSE Take(f[seen - 1], seen - 1)]
    BY <2>4, <2>5 DEF Unrolls
  <2>7. Is(f)
    BY <2>6 DEF start
  <2> QED BY <2>7
<1>5. Is(best)
  <2> HIDE DEF Is
  <2> QED BY <1>4
<1> HIDE DEF best
<1>6. \A seen \in n .. c : best[seen] = IF seen = n THEN [i \in 1 .. n |-> i - 1]
                                                    ELSE Take(best[seen - 1], seen - 1)
  BY <1>5
<1> HIDE DEF Is
<1> DEFINE P == {seen \in n .. c : DOMAIN best[seen] = 1 .. n}
<1>7. n \in P
  <2>1. n \in n .. c
    BY <1>2
  <2>2. best[n] = [i \in 1 .. n |-> i - 1]
    BY <1>6, <2>1
  <2> QED BY <2>1, <2>2
<1>8. \A seen \in n .. c - 1 : seen \in P => seen + 1 \in P
  <2> SUFFICES ASSUME NEW seen \in n .. c - 1, seen \in P PROVE seen + 1 \in P
    OBVIOUS
  <2>1. seen + 1 \in n .. c /\ seen + 1 # n /\ (seen + 1) - 1 = seen
    BY <1>2
  <2>2. best[seen + 1] = Take(best[seen], seen)
    BY <1>6, <2>1
  <2> QED BY <1>3, <2>1, <2>2
<1> HIDE DEF P
<1>9. c \in P
  <2>1. \A seen \in n .. c : seen \in P
    BY <1>2, <1>7, <1>8, Throughout
  <2> QED BY <1>2, <2>1
<1> QED BY <1>1, <1>9 DEF P, n

\* The hits are a sequence.
LEMMA Searched ==
  ASSUME NEW s, s.count \in Nat, NEW query, NEW k \in Nat
  PROVE  Search(s, sim, query, k) \in Seq(Range(Search(s, sim, query, k)))
<1> DEFINE found == Search(s, sim, query, k)
           top == Nearest(s, sim, query, k)
           n == Min({k, s.count})
           score(i) == Score(s, sim, query, top[i])
           hits == {i \in DOMAIN top : score(i) > Threshold * 100 * Span(s)}
           above(i) == {j \in hits : \/ score(j) > score(i)
                                     \/ /\ score(j) = score(i)
                                        /\ j <= i}
           ranked == [i \in hits |-> Cardinality(above(i))]
           at == [r \in 1 .. Cardinality(hits) |-> top[CHOOSE i \in hits : ranked[i] = r]]
<1>1. found = IF s.count = 0 \/ k = 0 THEN <<>> ELSE at
  BY DEF Search
<1>2. Cardinality(hits) \in Nat
  <2>1. n \in Nat /\ DOMAIN top = 1 .. n
    BY Lesser, NearestDomain
  <2>2. hits \subseteq 1 .. n
    BY <2>1
  <2> HIDE DEF hits, n
  <2>3. IsFiniteSet(1 .. n)
    BY <2>1, FS_Interval
  <2> QED BY <2>2, <2>3, FS_Subset, FS_CardinalityType
<1> HIDE DEF ranked, hits, top
<1>3. at \in Seq(Range(at))
  <2> DEFINE m == Cardinality(hits)
  <2>1. DOMAIN at = 1 .. m
    OBVIOUS
  <2> HIDE DEF at
  <2>2. at = [r \in 1 .. m |-> at[r]]
    BY <1>1, <2>1 DEF at
  <2>3. at \in [1 .. m -> Range(at)]
    BY <2>1, <2>2 DEF Range
  <2> QED BY <1>2, <2>3, SeqDef
<1>4. <<>> \in Seq(Range(<<>>))
  BY EmptySeq
<1> HIDE DEF at, found
<1>5. CASE found = <<>>
  BY <1>4, <1>5 DEF found
<1>6. CASE found = at
  BY <1>3, <1>6 DEF found
<1> QED BY <1>1, <1>5, <1>6

\* What the session recalls is not the question, and no two of it are alike.
LEMMA Recalled ==
  ASSUME NEW s, s.count \in Nat, NEW query, NEW k \in Nat
  PROVE  LET kept == Synthesize(s, sim, norm, query, k)
         IN  \E n \in Nat :
               /\ DOMAIN kept = 1 .. n
               /\ \A i \in 1 .. n :
                    /\ norm[s.slots[kept[i]]] # norm[query]
                    /\ \A j \in 1 .. i - 1 :
                         sim[s.slots[kept[j]], s.slots[kept[i]]] <= DedupThreshold
<1> DEFINE raw == Search(s, sim, query, 2 * k + 1)
           E == Range(raw)
           others == NotTheQuestion(s, norm, query, raw)
           F == {e \in E : norm[s.slots[e]] # norm[query]}
           apart == Dedup(s, sim, others)
           n == Min({k, Len(apart)})
           kept == Synthesize(s, sim, norm, query, k)
<1>1. kept = SubSeq(apart, 1, n)
  BY DEF Synthesize
<1>2. raw \in Seq(E)
  <2>1. 2 * k + 1 \in Nat
    OBVIOUS
  <2> QED BY <2>1, Searched
<1> HIDE DEF raw, E
<1>3. others \in Seq(E) /\ \A i \in 1 .. Len(others) : norm[s.slots[others[i]]] # norm[query]
  BY <1>2, QuestionGone
<1> HIDE DEF others
<1>4. others \in Seq(F)
  <2>1. Len(others) \in Nat /\ others \in [1 .. Len(others) -> E]
    BY <1>3, LenProperties
  <2>2. \A i \in 1 .. Len(others) : others[i] \in F
    BY <1>3, <2>1
  <2> HIDE DEF F
  <2>3. others \in [1 .. Len(others) -> F]
    BY <2>1, <2>2
  <2> QED BY <2>1, <2>3, SeqDef
<1> HIDE DEF F
<1>5. apart \in Seq(F) /\ \A i \in 1 .. Len(apart) : \A j \in 1 .. i - 1 :
                  sim[s.slots[apart[j]], s.slots[apart[i]]] <= DedupThreshold
  BY <1>4, DoublesGone
<1> HIDE DEF apart
<1>6. Len(apart) \in Nat /\ \A i \in 1 .. Len(apart) : apart[i] \in F
  BY <1>5, LenProperties, ElementOfSeq
<1>7. n \in Nat /\ n <= Len(apart)
  BY <1>6, Lesser
<1> HIDE DEF n, kept
<1>8. DOMAIN kept = 1 .. n /\ \A i \in 1 .. n : kept[i] = apart[i]
  <2>1. \A i \in 1 .. n : apart[i] \in F
    BY <1>6, <1>7
  <2>2. kept \in Seq(F) /\ Len(kept) = n
        /\ \A i \in 1 .. n : kept[i] = apart[i]
    <3> DEFINE a == 1
    <3>1. a \in Int /\ n \in Int /\ \A i \in a .. n : apart[i] \in F
      BY <1>7, <2>1
    <3>2. kept = SubSeq(apart, a, n)
      BY <1>1
    <3>3. n - a + 1 = n /\ (IF a <= n THEN n - a + 1 ELSE 0) = n /\ \A i \in 1 .. n : a + i - 1 = i
      BY <1>7
    <3> HIDE DEF a
    <3>4. /\ SubSeq(apart, a, n) \in Seq(F)
          /\ Len(SubSeq(apart, a, n)) = IF a <= n THEN n - a + 1 ELSE 0
          /\ \A i \in 1 .. n - a + 1 : SubSeq(apart, a, n)[i] = apart[a + i - 1]
      BY <3>1, SubSeqProperties
    <3> QED BY <3>2, <3>3, <3>4
  <2> QED BY <2>2, LenProperties
<1>9. ASSUME NEW i \in 1 .. n
      PROVE  /\ norm[s.slots[kept[i]]] # norm[query]
             /\ \A j \in 1 .. i - 1 : sim[s.slots[kept[j]], s.slots[kept[i]]] <= DedupThreshold
  <2>1. i \in 1 .. Len(apart) /\ \A j \in 1 .. i - 1 : j \in 1 .. n
    BY <1>6, <1>7
  <2> QED BY <1>5, <1>6, <1>8, <2>1 DEF F
<1> QED BY <1>7, <1>8, <1>9 DEF kept

-----------------------------------------------------------------------------
(* What the model is given, and what is taken out of its answer.           *)

\* The lines of a turn's context.
ContextRight(c, input) ==
  \A i \in DOMAIN c :
    /\ norm[c[i].text] # norm[input]
    /\ \A j \in 1 .. i - 1 :
         IF c[i].from = "session" THEN sim[c[j].text, c[i].text] <= DedupThreshold
                                  ELSE c[j].line # c[i].line

\* The ring.
StoreRight(s) == IsFiniteSet(DOMAIN s.slots) /\ s.count \in Nat

GivenRight(f) ==
  /\ ContextRight(f.context, f.input)
  /\ f.pc = "extract" => f.text \in Outputs /\ Extracting(f.text, f.x)

GivenInv ==
  /\ StoreRight(store) /\ level \in Nat
  /\ \A i \in 1 .. Len(frames) : GivenRight(frames[i])

\* What a step may do to it.
Unread    == frames' # <<>> /\ Top'.context = Top.context /\ Top'.input = Top.input
Elsewhere == Unread /\ Top'.pc # "extract"
Reads     == /\ Unread /\ Top'.text \in Outputs /\ Top'.x = StartExtract(Top'.text)
ReadsOn   == /\ Unread /\ Top.pc = "extract" /\ ~Top.x.over
             /\ Top'.text = Top.text /\ Top'.x = ExtractStep(Top.x)
Recalls   == /\ frames' # <<>> /\ Top'.pc = "ready" /\ Top'.input = Top.input
             /\ ContextRight(Top'.context, Top.input)
GivenMove == Leaves \/ Elsewhere \/ Reads \/ ReadsOn \/ Recalls

\* The question is given with what was said before.
LEMMA QuestionRecalls ==
  ASSUME Known, store.count \in Nat, level \in Nat, Question
  PROVE  Recalls
<1> DEFINE kept == Synthesize(store, sim, norm, Top.input, level)
           said == [i \in DOMAIN kept |-> SessionLine(store.slots[kept[i]])]
           Found(hits) == [i \in DOMAIN hits |-> VaultLine(hits[i])]
           q == Top.input
<1>1. PICK hits \in VaultHits(level) :
        Become([Top EXCEPT !.context = WithHits(said, q, Found(hits)), !.pc = "ready"])
  BY DEF Question
<1>2. PICK n \in Nat :
        /\ DOMAIN kept = 1 .. n
        /\ \A i \in 1 .. n :
             /\ norm[store.slots[kept[i]]] # norm[q]
             /\ \A j \in 1 .. i - 1 :
                  sim[store.slots[kept[j]], store.slots[kept[i]]] <= DedupThreshold
  BY Recalled
<1>14. n \in Nat
  BY <1>2
<1> HIDE DEF kept
<1>3. PICK k \in 0 .. level : DOMAIN hits = 1 .. k
  BY DEF VaultHits
<1> DEFINE found == Found(hits)
           E == Range(said) \cup Range(found)
           c == WithHits(said, q, found)
<1>4. said \in Seq(E) /\ Len(said) = n
      /\ \A i \in 1 .. n : said[i] = SessionLine(store.slots[kept[i]])
  <2>1. DOMAIN said = 1 .. n /\ \A i \in 1 .. n : said[i] = SessionLine(store.slots[kept[i]])
    BY <1>2
  <2> HIDE DEF said
  <2>2. said = [i \in 1 .. n |-> said[i]]
    BY <1>2, <2>1 DEF said
  <2>3. said \in [1 .. n -> E]
    BY <2>1, <2>2 DEF Range
  <2>4. said \in Seq(E)
    BY <2>3, SeqDef
  <2>5. Len(said) = n
    BY <2>1, <2>4, LenProperties
  <2> QED BY <2>1, <2>4, <2>5
<1>5. found \in Seq(E) /\ Len(found) = k /\ \A i \in 1 .. k : found[i] = VaultLine(hits[i])
  <2>1. DOMAIN found = 1 .. k /\ \A i \in 1 .. k : found[i] = VaultLine(hits[i])
    BY <1>3
  <2>6. k \in Nat
    OBVIOUS
  <2> HIDE DEF found, said
  <2>2. found = [i \in 1 .. k |-> found[i]]
    BY <1>3, <2>1 DEF found
  <2>3. found \in [1 .. k -> E]
    BY <2>1, <2>2 DEF Range
  <2>4. found \in Seq(E)
    BY <2>3, <2>6, SeqDef
  <2>5. Len(found) = k
    BY <2>1, <2>4, <2>6, LenProperties
  <2> QED BY <2>1, <2>4, <2>5
<1>6. Top' = [Top EXCEPT !.context = c, !.pc = "ready"] /\ frames' # <<>> /\ DOMAIN Top = Fields
  BY <1>1, Fielded
<1> HIDE DEF said, found, E, Found
<1>15. c \in Seq(E) /\ Added(c, said, q, found)
  <2>1. said \in Seq(E) /\ found \in Seq(E)
    BY <1>4, <1>5
  <2> HIDE DEF q
  <2> QED BY <2>1, HitsAdded
<1> HIDE DEF c, q
<1>7. /\ c \in Seq(E) /\ Len(said) <= Len(c)
      /\ \A i \in 1 .. Len(said) : c[i] = said[i]
      /\ \A i \in Len(said) + 1 .. Len(c) :
           /\ \E m \in 1 .. Len(found) : c[i] = found[m]
           /\ c[i].line # norm[q]
           /\ \A j \in 1 .. i - 1 : c[j].line # c[i].line
  BY <1>15 DEF Added
<1>8. DOMAIN c = 1 .. Len(c) /\ Len(c) \in Nat
  BY <1>7, LenProperties
<1>9. ASSUME NEW i \in 1 .. n
      PROVE  /\ norm[c[i].text] # norm[q] /\ c[i].from = "session"
             /\ \A j \in 1 .. i - 1 : sim[c[j].text, c[i].text] <= DedupThreshold
  <2>1. \A j \in 1 .. n : c[j] = SessionLine(store.slots[kept[j]])
    BY <1>4, <1>7
  <2>2. \A j \in 1 .. n : c[j].text = store.slots[kept[j]] /\ c[j].from = "session"
    <3>1. ASSUME NEW t PROVE SessionLine(t).text = t /\ SessionLine(t).from = "session"
      BY DEF SessionLine
    <3> QED BY <2>1, <3>1
  <2>3. \A j \in 1 .. i - 1 : j \in 1 .. n
    BY <1>14
  <2> QED BY <1>2, <2>2, <2>3
<1>10. ASSUME NEW i \in n + 1 .. Len(c)
       PROVE  /\ norm[c[i].text] # norm[q] /\ c[i].from = "vault"
              /\ \A j \in 1 .. i - 1 : c[j].line # c[i].line
  <2>1. /\ \E m \in 1 .. k : c[i] = found[m]
        /\ c[i].line # norm[q]
        /\ \A j \in 1 .. i - 1 : c[j].line # c[i].line
    BY <1>4, <1>5, <1>7
  <2>2. PICK m \in 1 .. k : c[i] = VaultLine(hits[m])
    BY <1>5, <2>1
  <2>3. c[i].line = norm[c[i].text] /\ c[i].from = "vault"
    BY <2>2 DEF VaultLine
  <2> QED BY <2>1, <2>3
<1>11. \A i \in 1 .. Len(c) : i \in 1 .. n \/ i \in n + 1 .. Len(c)
  BY <1>8, <1>14
<1>12. ContextRight(c, q)
  <2> SUFFICES ASSUME NEW i \in 1 .. Len(c)
               PROVE  /\ norm[c[i].text] # norm[q]
                      /\ \A j \in 1 .. i - 1 :
                           IF c[i].from = "session"
                             THEN sim[c[j].text, c[i].text] <= DedupThreshold
                             ELSE c[j].line # c[i].line
    BY <1>8 DEF ContextRight
  <2>1. CASE i \in 1 .. n
    BY <1>9, <2>1
  <2>2. CASE i \in n + 1 .. Len(c)
    <3>1. c[i].from # "session"
      BY <1>10, <2>2
    <3> QED BY <1>10, <2>2, <3>1
  <2> QED BY <1>11, <2>1, <2>2
<1>13. Top'.context = c /\ Top'.pc = "ready" /\ Top'.input = Top.input
  BY <1>6 DEF Fields
<1> QED BY <1>6, <1>12, <1>13 DEF Recalls, q

\* No other step touches it.
Carries == Leaves \/ (frames' # <<>> /\ Top'.context = Top.context)

Carried(f) == DOMAIN f = Fields /\ f.context = Top.context

LEMMA Makers ==
  ASSUME NEW f, Carried(f)
  PROVE  /\ \A e : Carried(Tell(f, e))
         /\ \A rows, then : Carried(Save(f, rows, then))
         /\ Carried(Finalize(f))
         /\ \A blocked, followup : Carried(Early(f, blocked, followup))
         /\ \A pc : Carried([f EXCEPT !.pc = pc])
<1>1. /\ \A pc : Carried([f EXCEPT !.pc = pc])
      /\ \A todo, pc, then : Carried([f EXCEPT !.todo = todo, !.pc = pc, !.then = then])
      /\ \A said : Carried([f EXCEPT !.said = said])
      /\ \A b, o, pc : Carried([f EXCEPT !.blocked = b, !.followup = o, !.pc = pc])
  BY DEF Carried, Fields
<1>2. \A rows, then : Carried(Save(f, rows, then))
  BY <1>1 DEF Save
<1>3. Carried(Finalize(f))
  BY <1>2 DEF Finalize
<1> QED BY <1>1, <1>2, <1>3 DEF Tell, Early

LEMMA CarriesOn ==
  ASSUME Known, NEW h, Become(h), Carried(h)
  PROVE  Carries
<1> QED BY Fielded DEF Carries, Carried

LEMMA ContextCarried ==
  ASSUME Known, Step \/ Connected \/ Return
  PROVE  Question \/ Carries
<1>0. /\ Carried(Top) /\ frames # <<>>
      /\ \A events : Finish(events) /\ begun' = begun => Carries
  BY DEF Known, Typed, FrameType, Carried, Finish, Leaves, Carries
<1>38. ASSUME NEW from, NEW text, Generated(from, text), begun' = begun PROVE Carries
  <2> DEFINE h == [Top EXCEPT !.text = text, !.x = StartExtract(text), !.from = from,
                              !.pc = "extract"]
  <2>1. Carried(h)
    BY <1>0 DEF Carried, Fields
  <2>2. \/ \E events : Finish(events)
        \/ \E events : Become(Tell(h, events))
    BY <1>38 DEF Generated
  <2> HIDE DEF h
  <2> QED BY <1>0, <1>38, <2>1, <2>2, Makers, CarriesOn
<1>1. CASE Enter
  <2>1. \A id, pc : Carried([Top EXCEPT !.id = id, !.pc = pc])
    BY <1>0 DEF Carried, Fields
  <2> QED BY <1>0, <1>1, <2>1, CarriesOn DEF Enter
<1>2. CASE LogTeleport
  BY <1>0, <1>2, Makers, CarriesOn DEF LogTeleport, AnswerEarly, Goto
<1>3. CASE RefuseInput
  BY <1>0, <1>3, Makers, CarriesOn DEF RefuseInput, AnswerEarly, Goto
<1>4. CASE Info
  BY <1>0, <1>4, Makers, CarriesOn DEF Info, AnswerEarly, Goto
<1>5. CASE Clear
  BY <1>0, <1>5, Makers, CarriesOn DEF Clear, AnswerEarly, Goto
<1>6. CASE Think
  BY <1>0, <1>6, Makers, CarriesOn DEF Think, AnswerEarly, Goto
<1>7. CASE SetLevel
  BY <1>0, <1>7, Makers, CarriesOn DEF SetLevel, AnswerEarly, Goto
<1>8. CASE Tool
  BY <1>0, <1>8, Makers, CarriesOn DEF Tool, AnswerEarly, Goto
<1>9. CASE Rune
  BY <1>0, <1>9, Makers, CarriesOn DEF Rune, AnswerEarly, Goto
<1>10. CASE RouteTeleport
  BY <1>0, <1>10, Makers, CarriesOn DEF RouteTeleport, AnswerEarly, Goto
<1>11. CASE EarlyReply
  BY <1>0, <1>11, Makers, CarriesOn DEF EarlyReply, AnswerEarly, Goto
<1>12. CASE Ready
  BY <1>0, <1>12, Makers, CarriesOn DEF Ready, AnswerEarly, Goto
<1>13. CASE EngineAnswers
  BY <1>0, <1>13, <1>38 DEF EngineAnswers
<1>14. CASE EngineFails
  BY <1>0, <1>14, Makers, CarriesOn DEF EngineFails, AnswerEarly, Goto
<1>15. CASE CloudAnswers
  BY <1>0, <1>15, <1>38 DEF CloudAnswers
<1>16. CASE CloudFails
  BY <1>0, <1>16, Makers, CarriesOn DEF CloudFails, AnswerEarly, Goto
<1>17. CASE Extract
  <2>1. Carried([Top EXCEPT !.x = ExtractStep(Top.x)])
    BY <1>0 DEF Carried, Fields
  <2> QED BY <1>17, <2>1, CarriesOn DEF Extract
<1>18. CASE NoCall
  BY <1>0, <1>18, Makers, CarriesOn DEF NoCall, AnswerEarly, Goto
<1>19. CASE SecondLocal
  BY <1>0, <1>19, Makers, CarriesOn DEF SecondLocal, AnswerEarly, Goto
<1>20. CASE SecondCloud
  BY <1>0, <1>20, Makers, CarriesOn DEF SecondCloud, AnswerEarly, Goto
<1>21. CASE Push
  BY <1>0, <1>21, Makers, CarriesOn DEF Push, AnswerEarly, Goto
<1>22. CASE NarrateLocal
  <2>1. Carried([Top EXCEPT !.prior = thinking, !.pc = "narrating"])
    BY <1>0 DEF Carried, Fields
  <2> QED BY <1>22, <2>1, CarriesOn DEF NarrateLocal
<1>23. CASE NarratedLocal
  BY <1>0, <1>23, Makers, CarriesOn DEF NarratedLocal, AnswerEarly, Goto
<1>24. CASE NarrateCloud
  BY <1>0, <1>24, Makers, CarriesOn DEF NarrateCloud, AnswerEarly, Goto
<1>25. CASE NoNarration
  BY <1>0, <1>25, Makers, CarriesOn DEF NoNarration, AnswerEarly, Goto
<1>26. CASE Narrated
  BY <1>0, <1>26, Makers, CarriesOn DEF Narrated, AnswerEarly, Goto
<1>27. CASE FinishTurn
  BY <1>0, <1>27, Makers, CarriesOn DEF FinishTurn, AnswerEarly, Goto
<1>28. CASE Analyze
  BY <1>0, <1>28, Makers, CarriesOn DEF Analyze, AnswerEarly, Goto
<1>29. CASE NothingRan
  BY <1>0, <1>29, Makers, CarriesOn DEF NothingRan, AnswerEarly, Goto
<1>30. CASE NoBridge
  BY <1>0, <1>30, Makers, CarriesOn DEF NoBridge, AnswerEarly, Goto
<1>31. CASE StartBridge
  BY <1>0, <1>31, Makers, CarriesOn DEF StartBridge, AnswerEarly, Goto
<1>32. CASE Connected
  BY <1>0, <1>32, Makers, CarriesOn DEF Connected, AnswerEarly, Goto
<1>33. CASE FirstAnswered
  BY <1>0, <1>33, Makers, CarriesOn DEF FirstAnswered, AnswerEarly, Goto
<1>34. CASE Return
  BY <1>0, <1>34, Makers, CarriesOn DEF Return, AnswerEarly, Goto
<1>35. CASE RunFile
  <2> DEFINE next == [Top EXCEPT !.files = @ - 1]
             ran == [next EXCEPT !.runs = @ + 1]
  <2>1. Carried(next)
    BY <1>0 DEF Carried, Fields
  <2>2. Carried(ran)
    BY <2>1 DEF Carried, Fields
  <2>3. \/ \E said \in {"Token", "Error"} : Become(Tell(next, <<said>>))
        \/ Become(Save(Tell(ran, <<"Token">>), <<Row("tool")>>, "file"))
    BY <1>35 DEF RunFile
  <2> HIDE DEF ran, next
  <2> QED BY <2>1, <2>2, <2>3, Makers, CarriesOn
<1>36. CASE Correlate
  BY <1>0, <1>36, Makers, CarriesOn DEF Correlate, AnswerEarly, Goto
<1>37. CASE SaveRow \/ LoseRow
  <2>1. Carried(RowDone)
    BY <1>0 DEF Carried, Fields, RowDone
  <2> QED BY <1>37, <2>1, CarriesOn DEF SaveRow, LoseRow
<1> QED BY <1>1, <1>2, <1>3, <1>4, <1>5, <1>6, <1>7, <1>8, <1>9, <1>10, <1>11, <1>12, <1>13,
          <1>14, <1>15, <1>16, <1>17, <1>18, <1>19, <1>20, <1>21, <1>22, <1>23, <1>24, <1>25,
          <1>26, <1>27, <1>28, <1>29, <1>30, <1>31, <1>32, <1>33, <1>34, <1>35, <1>36, <1>37 DEF Step

\* The ring and the level.

StoreMove ==
  /\ \/ store' \in {store, ClearStore(store), NewStore(RingCapacity)}
     \/ \E text : store' = AddText(store, text)
  /\ level' = level \/ level' \in RecallLevels \cup {0}

LEMMA StoreMoves == ASSUME Next PROVE StoreMove
<1> USE DEF StoreMove, session, Fresh
<1>1. CASE Enter
  BY <1>1 DEF Enter
<1>2. CASE LogTeleport
  BY <1>2 DEF LogTeleport
<1>3. CASE RefuseInput
  BY <1>3 DEF RefuseInput
<1>4. CASE Info
  BY <1>4 DEF Info
<1>5. CASE Clear
  BY <1>5 DEF Clear
<1>6. CASE Think
  BY <1>6 DEF Think
<1>7. CASE SetLevel
  BY <1>7 DEF SetLevel
<1>8. CASE Tool
  BY <1>8 DEF Tool
<1>9. CASE Rune
  BY <1>9 DEF Rune
<1>10. CASE RouteTeleport
  BY <1>10 DEF RouteTeleport
<1>11. CASE EarlyReply
  BY <1>11 DEF EarlyReply
<1>12. CASE Ready
  BY <1>12 DEF Ready
<1>13. CASE EngineAnswers
  BY <1>13 DEF EngineAnswers
<1>14. CASE EngineFails
  BY <1>14 DEF EngineFails
<1>15. CASE CloudAnswers
  BY <1>15 DEF CloudAnswers
<1>16. CASE CloudFails
  BY <1>16 DEF CloudFails
<1>17. CASE Extract
  BY <1>17 DEF Extract
<1>18. CASE NoCall
  BY <1>18 DEF NoCall
<1>19. CASE SecondLocal
  BY <1>19 DEF SecondLocal
<1>20. CASE SecondCloud
  BY <1>20 DEF SecondCloud
<1>21. CASE Push
  BY <1>21 DEF Push
<1>22. CASE NarrateLocal
  BY <1>22 DEF NarrateLocal
<1>23. CASE NarratedLocal
  BY <1>23 DEF NarratedLocal
<1>24. CASE NarrateCloud
  BY <1>24 DEF NarrateCloud
<1>25. CASE NoNarration
  BY <1>25 DEF NoNarration
<1>26. CASE Narrated
  BY <1>26 DEF Narrated
<1>27. CASE FinishTurn
  BY <1>27 DEF FinishTurn
<1>28. CASE Analyze
  BY <1>28 DEF Analyze
<1>29. CASE NothingRan
  BY <1>29 DEF NothingRan
<1>30. CASE NoBridge
  BY <1>30 DEF NoBridge
<1>31. CASE StartBridge
  BY <1>31 DEF StartBridge
<1>32. CASE Connected
  BY <1>32 DEF Connected
<1>33. CASE FirstAnswered
  BY <1>33 DEF FirstAnswered
<1>34. CASE Return
  BY <1>34 DEF Return
<1>35. CASE RunFile
  BY <1>35 DEF RunFile
<1>36. CASE Correlate
  BY <1>36 DEF Correlate
<1>37. CASE Question
  BY <1>37 DEF Question
<1>38. CASE SaveRow
  BY <1>38 DEF SaveRow
<1>39. CASE LoseRow
  BY <1>39 DEF LoseRow
<1>40. CASE Begin
  BY <1>40 DEF Begin
<1>41. CASE DropFiles
  BY <1>41 DEF DropFiles
<1>42. CASE Message
  BY <1>42 DEF Message
<1>43. CASE Configure
  BY <1>43 DEF Configure
<1>44. CASE Kill
  BY <1>44 DEF Kill
<1> QED BY <1>1, <1>2, <1>3, <1>4, <1>5, <1>6, <1>7, <1>8, <1>9, <1>10, <1>11, <1>12, <1>13,
          <1>14, <1>15, <1>16, <1>17, <1>18, <1>19, <1>20, <1>21, <1>22, <1>23, <1>24, <1>25,
          <1>26, <1>27, <1>28, <1>29, <1>30, <1>31, <1>32, <1>33, <1>34, <1>35, <1>36, <1>37,
          <1>38, <1>39, <1>40, <1>41, <1>42, <1>43, <1>44 DEF Next, Step

LEMMA NewStoreRight == ASSUME NEW n \in Nat PROVE StoreRight(NewStore(n))
<1> DEFINE m == Max({n, 1})
<1>1. m \in Nat
  <2>1. \E x \in {n, 1} : \A y \in {n, 1} : x >= y
    <3>1. n >= 1 \/ n = 0
      OBVIOUS
    <3> QED BY <3>1
  <2>2. m \in {n, 1}
    BY <2>1 DEF Max
  <2> QED BY <2>2
<1>2. DOMAIN NewStore(n).slots = 0 .. m - 1 /\ NewStore(n).count = 0
  BY DEF NewStore
<1> HIDE DEF m
<1>3. IsFiniteSet(0 .. m - 1)
  BY <1>1, FS_Interval
<1> QED BY <1>2, <1>3 DEF StoreRight

LEMMA StoreStays ==
  ASSUME StoreRight(store), level \in Nat, StoreMove
  PROVE  StoreRight(store') /\ level' \in Nat
<1>1. Capacity(store) \in Nat
  <2>1. IsFiniteSet(DOMAIN store.slots)
    BY DEF StoreRight
  <2> QED BY <2>1, FS_CardinalityType DEF Capacity
<1>2. ASSUME store' \in {store, ClearStore(store), NewStore(RingCapacity)}
      PROVE  StoreRight(store')
  <2>1. CASE store' = store
    BY <2>1 DEF StoreRight
  <2>2. CASE store' = ClearStore(store)
    <3>1. StoreRight(NewStore(Capacity(store)))
      BY <1>1, NewStoreRight
    <3> QED BY <2>2, <3>1 DEF ClearStore
  <2>3. CASE store' = NewStore(RingCapacity)
    <3>1. StoreRight(NewStore(RingCapacity))
      BY NewStoreRight, CapacityAssumption
    <3> QED BY <2>3, <3>1
  <2> QED BY <1>2, <2>1, <2>2, <2>3
<1>3. ASSUME NEW text, store' = AddText(store, text) PROVE StoreRight(store')
  <2>1. store.count + 1 \in Nat
    BY DEF StoreRight
  <2>2. Min({store.count + 1, Capacity(store)}) \in Nat
    BY <1>1, <2>1, Lesser
  <2>3. /\ DOMAIN store'.slots = DOMAIN store.slots
        /\ store'.count = Min({store.count + 1, Capacity(store)})
    BY <1>3 DEF AddText
  <2> QED BY <2>2, <2>3 DEF StoreRight
<1>4. level' \in Nat
  <2>1. level' = level \/ level' \in RecallLevels \/ level' = 0
    BY DEF StoreMove
  <2>2. RecallLevels \subseteq Nat
    BY LevelsAssumption
  <2>3. CASE level' \in RecallLevels
    BY <2>2, <2>3
  <2>4. CASE level' = level
    BY <2>4
  <2> QED BY <2>1, <2>3, <2>4
<1> QED BY <1>2, <1>3, <1>4 DEF StoreMove

\* The answer that is read.
LEMMA Answers ==
  ASSUME Known, EngineAnswers \/ CloudAnswers
  PROVE  Leaves \/ (Top'.text \in Outputs /\ Top'.x = StartExtract(Top'.text))
<1>1. PICK text \in Outputs, from \in {"engine", "cloud"} : Generated(from, text) /\ begun' = begun
  BY DEF EngineAnswers, CloudAnswers, records
<1> DEFINE h == [Top EXCEPT !.text = text, !.x = StartExtract(text), !.from = from,
                            !.pc = "extract"]
<1>2. DOMAIN h = Fields /\ h.text = text /\ h.x = StartExtract(text)
  BY DEF Known, Typed, FrameType, Fields
<1>3. \/ \E events : Finish(events)
      \/ \E events : Become(Tell(h, events))
  BY <1>1 DEF Generated
<1> HIDE DEF h
<1>4. ASSUME NEW events, Become(Tell(h, events))
      PROVE  Top'.text = text /\ Top'.x = StartExtract(text)
  <2>1. Top' = Tell(h, events)
    BY <1>4, Fielded
  <2> QED BY <1>2, <2>1 DEF Tell, Fields
<1> QED BY <1>1, <1>3, <1>4 DEF Finish, Leaves, Known, Typed

\* Every other step leads to a place where none is read.
LeadsElsewhere == Leaves \/ (frames' # <<>> /\ Top'.pc # "extract" /\ Top'.input = Top.input)

LEMMA ReadsNowhereElse ==
  ASSUME Known, lastId \in Nat, Step \/ Connected \/ Return
  PROVE  Question \/ EngineAnswers \/ CloudAnswers \/ Extract \/ LeadsElsewhere
<1> USE DEF At, Moved, Flags, On, Over, Answered, Prints, Saves, Keeps, LeadsElsewhere
<1>1. CASE Enter
  BY <1>1, Edges
<1>2. CASE LogTeleport
  BY <1>2, Edges
<1>3. CASE RefuseInput
  BY <1>3, Edges
<1>4. CASE Info
  BY <1>4, Edges
<1>5. CASE Clear
  BY <1>5, Edges
<1>6. CASE Think
  BY <1>6, Edges
<1>7. CASE SetLevel
  BY <1>7, Edges
<1>8. CASE Tool
  BY <1>8, Edges
<1>9. CASE Rune
  BY <1>9, Edges
<1>10. CASE RouteTeleport
  BY <1>10, Edges
<1>11. CASE EarlyReply
  BY <1>11, Edges
<1>12. CASE Ready
  BY <1>12, Edges
<1>13. CASE EngineFails
  BY <1>13, Edges
<1>14. CASE CloudFails
  BY <1>14, Edges
<1>15. CASE NoCall
  BY <1>15, Edges
<1>16. CASE SecondLocal
  BY <1>16, Edges
<1>17. CASE SecondCloud
  BY <1>17, Edges
<1>18. CASE Push
  BY <1>18, Edges
<1>19. CASE NarrateLocal
  BY <1>19, Edges
<1>20. CASE NarratedLocal
  BY <1>20, Edges
<1>21. CASE NarrateCloud
  BY <1>21, Edges
<1>22. CASE NoNarration
  BY <1>22, Edges
<1>23. CASE Narrated
  BY <1>23, Edges
<1>24. CASE FinishTurn
  BY <1>24, Edges
<1>25. CASE Analyze
  BY <1>25, Edges
<1>26. CASE NothingRan
  BY <1>26, Edges
<1>27. CASE NoBridge
  BY <1>27, Edges
<1>28. CASE StartBridge
  BY <1>28, Edges
<1>29. CASE Connected
  BY <1>29, Edges
<1>30. CASE FirstAnswered
  BY <1>30, Edges
<1>31. CASE Return
  BY <1>31, Edges
<1>32. CASE RunFile
  BY <1>32, Edges
<1>33. CASE Correlate
  BY <1>33, Edges
<1>34. CASE SaveRow \/ LoseRow
  BY <1>34, Rows DEF RowDoneAs
<1> QED BY <1>1, <1>2, <1>3, <1>4, <1>5, <1>6, <1>7, <1>8, <1>9, <1>10, <1>11, <1>12, <1>13,
          <1>14, <1>15, <1>16, <1>17, <1>18, <1>19, <1>20, <1>21, <1>22, <1>23, <1>24, <1>25,
          <1>26, <1>27, <1>28, <1>29, <1>30, <1>31, <1>32, <1>33, <1>34 DEF Step

LEMMA GivenMoves ==
  ASSUME Known, lastId \in Nat, StoreRight(store), level \in Nat, Step \/ Connected \/ Return
  PROVE  GivenMove
<1>1. CASE Question
  BY <1>1, QuestionRecalls DEF GivenMove, StoreRight
<1>2. CASE EngineAnswers \/ CloudAnswers
  <2>1. Leaves \/ (frames' # <<>> /\ Top'.input = Top.input)
    BY <1>2, Edges DEF On, Moved, Over
  <2> QED BY <1>2, <2>1, Answers, ContextCarried DEF GivenMove, Reads, Unread, Carries, Question,
             EngineAnswers, CloudAnswers, At
<1>3. CASE Extract
  <2>1. Top' = [Top EXCEPT !.x = ExtractStep(Top.x)] /\ frames' # <<>> /\ DOMAIN Top = Fields
    <3>1. Become([Top EXCEPT !.x = ExtractStep(Top.x)])
      BY <1>3 DEF Extract
    <3> QED BY <3>1, Fielded
  <2>2. Top.pc = "extract" /\ ~Top.x.over
    BY <1>3 DEF Extract, At
  <2> QED BY <2>1, <2>2 DEF GivenMove, ReadsOn, Unread, Fields
<1>4. CASE LeadsElsewhere /\ Carries
  BY <1>4 DEF GivenMove, Elsewhere, Unread, LeadsElsewhere, Carries
<1> QED BY <1>1, <1>2, <1>3, <1>4, ReadsNowhereElse, ContextCarried

LEMMA InitGiven == Init => GivenInv
<1> SUFFICES ASSUME Init PROVE GivenInv
  OBVIOUS
<1>1. StoreRight(store) /\ level = 0
  BY NewStoreRight, CapacityAssumption DEF Init, Fresh
<1>2. Len(frames) = 0
  BY DEF Init
<1> QED BY <1>1, <1>2 DEF GivenInv

LEMMA StartedEmpty ==
  ASSUME StackInv, Begin \/ DropFiles \/ Message
  PROVE  Top'.context = <<>>
<1>1. CASE Begin
  <2>1. PICK surface, input : frames' = <<NewFrame(surface, input)>>
    BY <1>1 DEF Begin
  <2>2. Top' = NewFrame(surface, input)
    BY <2>1 DEF Top, Last
  <2> QED BY <2>2 DEF NewFrame
<1>2. CASE DropFiles
  <2>1. PICK files :
          frames' = <<[NewFrame("stream", "files") EXCEPT !.files = files, !.pc = "analyze"]>>
    BY <1>2 DEF DropFiles
  <2>2. Top' = [NewFrame("stream", "files") EXCEPT !.files = files, !.pc = "analyze"]
    BY <2>1 DEF Top, Last
  <2> QED BY <2>2 DEF NewFrame
<1>3. CASE Message
  <2> DEFINE t == IF Top.pc = "phase1" THEN Tell([Top EXCEPT !.pc = "connected"], <<"Token">>)
                                       ELSE Top
             fs == [frames EXCEPT ![Len(frames)] = t]
  <2>1. PICK input : frames' = Append(fs, NewFrame("sync", input))
    BY <1>3 DEF Message
  <2> DEFINE g == NewFrame("sync", input)
  <2>2. fs \in Seq(Range(frames) \cup {t})
    <3>1. Len(frames) \in 1 .. Len(frames)
      BY <1>3, TopKnown DEF Message
    <3>2. frames \in Seq(Range(frames) \cup {t})
      BY SeqMonotonic DEF StackInv
    <3> HIDE DEF t
    <3> QED BY <3>1, <3>2, ExceptSeq
  <2>3. g.context = <<>>
    BY DEF NewFrame
  <2> HIDE DEF fs, g
  <2>4. frames'[Len(frames')] = g
    BY <2>1, <2>2 DEF g
  <2> QED BY <2>3, <2>4 DEF Top, Last
<1> QED BY <1>1, <1>2, <1>3

LEMMA StepGiven ==
  ASSUME StackInv, lastId \in Nat, GivenInv, Next
  PROVE  GivenInv'
<1> DEFINE n == Len(frames)
<1>0. n \in Nat /\ StoreRight(store)' /\ level' \in Nat
  BY StoreMoves, StoreStays DEF StackInv, GivenInv
<1>1. CASE Typed /\ (Step \/ Connected \/ Return) /\ ((\E g : Goes(g)) \/ Leaves)
  <2>1. GivenMove /\ frames # <<>>
    BY <1>1, TopSteps, GivenMoves DEF Typed, GivenInv, StoreRight
  <2>2. n \in 1 .. n /\ Top = frames[n]
    BY <2>1, TopKnown
  <2>3. GivenRight(Top)
    BY <2>2 DEF GivenInv
  <2>4. CASE Leaves
    <3>1. \A i \in 1 .. Len(frames') : frames'[i] = frames[i] /\ i \in 1 .. n
      BY <2>4, Under
    <3> QED BY <1>0, <3>1 DEF GivenInv
  <2>5. ASSUME ~Leaves, GivenRight(Top') PROVE GivenInv'
    <3>1. PICK g : Goes(g)
      BY <1>1, <2>5
    <3>2. /\ Top' = g /\ Len(frames') = n /\ frames'[n] = g
          /\ \A i \in 1 .. n - 1 : frames'[i] = frames[i]
      BY <3>1, Becomes DEF Goes
    <3>3. \A i \in 1 .. n : i = n \/ i \in 1 .. n - 1
      BY <1>0
    <3> QED BY <1>0, <2>5, <3>2, <3>3 DEF GivenInv
  <2>6. CASE ~Leaves /\ Elsewhere
    BY <2>3, <2>5, <2>6 DEF GivenRight, Elsewhere, Unread
  <2>7. CASE ~Leaves /\ Reads
    <3>1. Extracting(Top'.text, Top'.x)
      <4> DEFINE t == Top'.text
                 S == Range(t) \cup Signs
      <4>1. t \in Outputs /\ Top'.x = StartExtract(t)
        BY <2>7 DEF Reads
      <4> HIDE DEF t
      <4>2. t \in Seq(S) /\ Signs \subseteq S
        BY <4>1, OutputsAssumption, SeqMonotonic
      <4>3. Extracting(t, StartExtract(t))
        BY <4>2, ExtractStarts
      <4> QED BY <4>1, <4>3 DEF t
    <3> QED BY <2>3, <2>5, <2>7, <3>1 DEF GivenRight, Reads, Unread
  <2>8. CASE ~Leaves /\ ReadsOn
    <3>1. Extracting(Top.text, ExtractStep(Top.x)) /\ Top.text \in Outputs
      <4> DEFINE t == Top.text
                 S == Range(t) \cup Signs
      <4>1. t \in Outputs /\ Extracting(t, Top.x) /\ ~Top.x.over
        BY <2>3, <2>8 DEF GivenRight, ReadsOn
      <4> HIDE DEF t
      <4>2. t \in Seq(S) /\ Signs \subseteq S
        BY <4>1, OutputsAssumption, SeqMonotonic
      <4>3. Extracting(t, ExtractStep(Top.x))
        BY <4>1, <4>2, StepExtract
      <4> QED BY <4>1, <4>3 DEF t
    <3> QED BY <2>3, <2>5, <2>8, <3>1 DEF GivenRight, ReadsOn, Unread
  <2>9. CASE ~Leaves /\ Recalls
    BY <2>5, <2>9 DEF GivenRight, Recalls
  <2> QED BY <2>1, <2>4, <2>6, <2>7, <2>8, <2>9 DEF GivenMove
<1>2. CASE (Begin \/ DropFiles \/ Message) /\ \E g : Started(g)
  <2>1. PICK g : Started(g)
    BY <1>2
  <2>2. \A i \in 1 .. n + 1 : i = n + 1 \/ i \in 1 .. n
    BY <1>0
  <2>3. GivenRight(frames'[n + 1])
    <3>1. frames'[n + 1] = Top' /\ Top'.pc \in {"begin", "analyze"} /\ Top'.context = <<>>
      BY <1>2, <2>1, StartedEmpty DEF Started
    <3>2. DOMAIN <<>> = {}
      OBVIOUS
    <3> QED BY <3>1, <3>2 DEF GivenRight, ContextRight
  <2>4. ASSUME NEW i \in 1 .. n PROVE GivenRight(frames'[i])
    <3>1. CASE frames'[i] = frames[i]
      BY <3>1 DEF GivenInv
    <3>2. CASE /\ i = n
               /\ frames'[i] = Tell([Top EXCEPT !.pc = "connected"], <<"Token">>)
      <4>1. frames # <<>>
        BY <2>4, <1>0
      <4>2. Top = frames[n] /\ FrameType(Top) /\ GivenRight(Top)
        BY <4>1, TopKnown DEF GivenInv
      <4>3. /\ frames'[i].context = Top.context /\ frames'[i].input = Top.input
            /\ frames'[i].pc = "connected"
        BY <3>2, <4>2 DEF FrameType, Fields, Tell
      <4> QED BY <4>2, <4>3 DEF GivenRight
    <3> QED BY <2>1, <3>1, <3>2 DEF Started
  <2> QED BY <1>0, <2>1, <2>2, <2>3, <2>4 DEF GivenInv, Started
<1>3. CASE Configure
  BY <1>0, <1>3 DEF Configure, GivenInv
<1>4. CASE Kill
  <2>1. Len(frames') = 0
    BY <1>4 DEF Kill
  <2> QED BY <1>0, <2>1 DEF GivenInv
<1> QED BY <1>1, <1>2, <1>3, <1>4, Moves

LEMMA GivenHolds ==
  ASSUME StackInv, SettingsInv, GivenInv
  PROVE  ModelGiven
<1>1. frames # <<>> => GivenRight(Top)
  BY TopKnown DEF GivenInv
<1>2. ContextClean
  BY <1>1 DEF ContextClean, GivenRight, ContextRight
<1>3. CallsFound
  BY <1>1, Extracted DEF CallsFound, GivenRight, At
<1>4. ChatSettings
  BY DEF SettingsInv, ChatSettings
<1> QED BY <1>2, <1>3, <1>4 DEF ModelGiven

-----------------------------------------------------------------------------
(* The theorems.                                                           *)

PipeInv ==
  /\ StackInv /\ lastId \in Nat
  /\ SettingsInv /\ SaidInv /\ HistoryInv /\ VaultInv /\ LogInv /\ OutcomeInv /\ GivenInv

LEMMA InitPipe == Init => PipeInv
<1> QED BY InitStack, InitSettings, InitSaid, InitHistory, InitVault, InitLog, InitOutcome,
        InitGiven DEF PipeInv, Init

LEMMA StepId ==
  ASSUME StackInv, lastId \in Nat, LogInv, Next
  PROVE  lastId' \in Nat
<1>1. CASE Typed /\ (Step \/ Connected \/ Return) /\ ((\E g : Goes(g)) \/ Leaves)
  <2>1. Known /\ Top = frames[Len(frames)] /\ Len(frames) \in 1 .. Len(frames)
    BY <1>1, TopSteps, TopKnown DEF Typed
  <2>2. Placed(Top)
    BY <2>1 DEF LogInv, PlacedInv
  <2>3. LogMove
    BY <1>1, <2>1, <2>2, LogMoves
  <2> QED BY <2>3 DEF LogMove, LogsNothing, LogsInput, LogsOutcome
<1>2. CASE Begin \/ DropFiles \/ Message \/ Configure
  BY <1>2 DEF Begin, DropFiles, Message, Configure, records
<1>3. CASE Kill
  BY <1>3 DEF Kill
<1> QED BY <1>1, <1>2, <1>3, Moves

LEMMA SamePipe == PipeInv /\ UNCHANGED vars => PipeInv'
<1> SUFFICES ASSUME PipeInv, UNCHANGED vars PROVE PipeInv'
  OBVIOUS
<1>1. StackInv' /\ lastId' \in Nat
  BY SameStack DEF PipeInv, vars
<1>2. SettingsInv'
  BY DEF PipeInv, vars, settings, SettingsInv, At, Top
<1>3. SaidInv'
  BY DEF PipeInv, vars, SaidInv, SaidRight
<1>4. HistoryInv'
  BY DEF PipeInv, vars, session, HistoryInv, Unspoken, Chatting, Top
<1>5. VaultInv'
  <2>1. \A t, role : UserKept(t)' = UserKept(t) /\ Kept(role, t)' = Kept(role, t)
    BY DEF vars, records, UserKept, Kept, RowsOf, First
  <2> QED BY <2>1 DEF PipeInv, vars, session, records, VaultInv, Blank, UserDone, Pending, Top,
          RowsOf
<1>6. LogInv'
  BY LogSame DEF PipeInv, vars, records
<1>7. OutcomeInv'
  BY OutcomeSame DEF PipeInv, vars, records, session
<1>8. GivenInv'
  BY DEF PipeInv, vars, session, GivenInv, GivenRight, StoreRight
<1> QED BY <1>1, <1>2, <1>3, <1>4, <1>5, <1>6, <1>7, <1>8 DEF PipeInv

LEMMA StepPipe == PipeInv /\ [Next]_vars => PipeInv'
<1> SUFFICES ASSUME PipeInv, Next PROVE PipeInv'
  BY SamePipe
<1>1. StackInv /\ lastId \in Nat
  BY DEF PipeInv
<1>2. StackInv' /\ lastId' \in Nat
  BY <1>1, StepStack, StepId DEF PipeInv
<1>3. SettingsInv' /\ SaidInv' /\ HistoryInv'
  BY <1>1, StepSettings, StepSaid, StepHistory DEF PipeInv
<1>4. VaultInv' /\ LogInv' /\ OutcomeInv' /\ GivenInv'
  BY <1>1, StepVault, StepLog, StepOutcome, StepGiven DEF PipeInv
<1> QED BY <1>2, <1>3, <1>4 DEF PipeInv

THEOREM PipeInvariant == Spec => []PipeInv
<1> QED BY InitPipe, StepPipe, PTL DEF Spec

\* Whatever way a turn takes through dispatch and dispatch_streaming, also when
\* turns run inside it or it fails half way, its client is told once how it
\* ended, and the session has each question once, followed by its answer.
THEOREM TurnsAreToldOnce == Spec => []TurnTold
<1>1. PipeInv => TurnTold
  BY SaidOnce, HistoryHolds DEF PipeInv, TurnTold
<1> QED BY <1>1, PipeInvariant, PTL

\* However appends to the vault fail and whenever the process is killed, the
\* rows of a turn stand together, its question first, and every answer in the
\* session of a turn that is over was appended, or its append failed.
THEOREM TurnsAreKeptWhole == Spec => []VaultTellsTurns
<1>1. PipeInv => VaultTellsTurns
  BY VaultHolds DEF PipeInv
<1> QED BY <1>1, PipeInvariant, PTL

\* The audit log pairs each turn's input with one outcome, gives each turn of a
\* run its own id, nests the turns that ran inside others, and an outcome says
\* truly whether the turn was blocked and whether a model answered it.
THEOREM AuditTellsTruth == Spec => []AuditReadsBack
<1>1. PipeInv => AuditReadsBack
  BY LogHolds, OutcomeHolds DEF PipeInv, AuditReadsBack
<1> QED BY <1>1, PipeInvariant, PTL

\* A narration takes the engine's thinking and its token budget for itself; by
\* every way out of it the user's are put back before another turn runs.
THEOREM SettingsAreTheUsers == Spec => []ChatSettings
<1>1. PipeInv => ChatSettings
  BY DEF PipeInv, SettingsInv, ChatSettings
<1> QED BY <1>1, PipeInvariant, PTL

\* A question is given to the model with lines of the session and rows of the
\* vault none of which asks it again and no two of which are the same line or,
\* in the session, all but the same, however the ring has wrapped round; what
\* extract_tool_call takes out of the model's answer is one whole call of it or
\* nothing, whatever stands around it; and a narration is prefilled as its own.
THEOREM ModelIsGivenRight == Spec => []ModelGiven
<1>1. PipeInv => ModelGiven
  BY GivenHolds DEF PipeInv
<1> QED BY <1>1, PipeInvariant, PTL

=============================================================================
