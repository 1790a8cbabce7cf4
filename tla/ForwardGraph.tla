---------------------------- MODULE ForwardGraph ----------------------------
(***************************************************************************)
(* A forward pass on the graph pool: run_graph has every thread run        *)
(* forward_one_inner or forward_batch_inner.  What orders the threads is   *)
(* the barrier alone (module Barrier, implemented by SpinBarrier).  The    *)
(* text of the two is in GraphSteps; this module runs it, the chunk        *)
(* stealing of matmul_graph.rs included.                                   *)
(*                                                                         *)
(* Instead of numbers a cell holds the step that wrote it last, so what a  *)
(* step reads can be compared with what it would read if one thread ran    *)
(* the program alone.                                                      *)
(***************************************************************************)
EXTENDS GraphSteps

CONSTANT NThreads   \* nth

ASSUME ThreadsAssumption == NThreads \in Nat \ {0}

Threads == 0..(NThreads - 1)

VARIABLES
  pass,                  \* which pass this is
  place,                 \* the step each thread is at
  next, busy,            \* its next piece of the step, and whether it is on it
  chunk,                 \* current_chunk
  content,               \* the step that wrote each cell last
  arrivals, departures   \* the barrier

INSTANCE Barrier

passVars == <<pass, place, next, busy, chunk, content, arrivals, departures>>

\* forward_one_graph, forward_batch for all chunks but the last, and for that.
Programs ==
  [decode |-> OneToken, chunk |-> ChunkOfPrompt(FALSE), lastChunk |-> ChunkOfPrompt(TRUE)]
Passes == DOMAIN Programs

Program == Programs[pass]

AllWrites(step) == UNION {step.writes[i] : i \in DOMAIN step.writes}
AllReads(step) == UNION {step.reads[i] : i \in DOMAIN step.reads}
CellsOf ==
  [p \in Passes |-> UNION {AllReads(Programs[p][s]) \cup AllWrites(Programs[p][s]) :
                             s \in DOMAIN Programs[p]}]

-----------------------------------------------------------------------------
(* Who works on which pieces                                               *)

\* parallel_quant_decode, the heads in attention, the tokens of an embedding:
\* equal shares, rounded up.
RoundedDown(n) == n \div NThreads
Share(n) == RoundedUp(n, NThreads)
Lesser(a, b) == IF a < b THEN a ELSE b

First(t, step) ==
  CASE step.kind = "share" -> t * Share(step.pieces)
    [] step.kind \in {"stride", "steal"} -> t
    [] OTHER -> 0

Limit(t, step) ==
  CASE step.kind = "share" -> Lesser((t + 1) * Share(step.pieces), step.pieces)
    [] step.kind = "alone" -> IF t = 0 THEN 1 ELSE 0
    [] OTHER -> step.pieces

Done(t) == place[t] = Len(Program) + 1

\* A thread that leaves a step starts with its first piece of the next one.
StepPast(t) ==
  /\ place' = [place EXCEPT ![t] = @ + 1]
  /\ next' = [next EXCEPT ![t] = IF place[t] < Len(Program) THEN First(t, Program[place[t] + 1]) ELSE 0]

-----------------------------------------------------------------------------
(* The threads                                                             *)

PassInit ==
  /\ pass \in Passes
  /\ place = [t \in Threads |-> 1]
  /\ next = [t \in Threads |-> First(t, Program[1])]
  /\ busy = [t \in Threads |-> FALSE]
  /\ chunk = 0
  /\ content = [c \in CellsOf[pass] |-> 0]
  /\ BarrierInit

StepOf(t) == Program[place[t]]
At(t, kinds) == ~Done(t) /\ StepOf(t).kind \in kinds
Reads(t) == StepOf(t).reads[next[t]]
Writes(t) == StepOf(t).writes[next[t]]

Computing == {"share", "stride", "steal", "alone", "each"}

Begin(t) ==
  /\ At(t, Computing)
  /\ ~busy[t]
  /\ next[t] < Limit(t, StepOf(t))
  /\ busy' = [busy EXCEPT ![t] = TRUE]
  /\ UNCHANGED <<pass, place, next, chunk, content, arrivals, departures>>

Written(t) ==
  LET cells == Writes(t)
  IN  [c \in CellsOf[pass] |-> IF c \in cells THEN place[t] ELSE content[c]]

\* chunk = current_chunk.fetch_add(1)
Unclaimed == chunk
Claimed == chunk + 1

Stride(t) == IF At(t, {"stride"}) THEN NThreads ELSE 1

End(t) ==
  /\ busy[t]
  /\ busy' = [busy EXCEPT ![t] = FALSE]
  /\ content' = Written(t)
  /\ IF At(t, {"steal"})
     THEN next' = [next EXCEPT ![t] = chunk] /\ chunk' = Claimed
     ELSE next' = [next EXCEPT ![t] = @ + Stride(t)] /\ UNCHANGED chunk
  /\ UNCHANGED <<pass, place, arrivals, departures>>

NoMore(t) ==
  /\ At(t, Computing)
  /\ ~busy[t]
  /\ next[t] >= Limit(t, StepOf(t))
  /\ StepPast(t)
  /\ UNCHANGED <<pass, busy, chunk, content, arrivals, departures>>

\* current_chunk.store(nth), by every thread.
FirstFree == NThreads

StoreChunk(t) ==
  /\ At(t, {"reset"})
  /\ chunk' = FirstFree
  /\ StepPast(t)
  /\ UNCHANGED <<pass, busy, content, arrivals, departures>>

\* barrier.wait()
Arrive(t) ==
  /\ At(t, {"barrier"})
  /\ Come(t)
  /\ UNCHANGED <<pass, place, next, busy, chunk, content>>

Leave(t) ==
  /\ At(t, {"barrier"})
  /\ Go(t)
  /\ StepPast(t)
  /\ UNCHANGED <<pass, busy, chunk, content>>

Run(t) == Begin(t) \/ End(t) \/ NoMore(t) \/ StoreChunk(t) \/ Arrive(t) \/ Leave(t)

PassNext == \E t \in Threads : Run(t)

\* The pool runs every thread; the kernels return.
Fairness == \A t \in Threads : WF_passVars(Run(t))

PassSpec == PassInit /\ [][PassNext]_passVars /\ Fairness

-----------------------------------------------------------------------------
(* Properties                                                              *)

\* current_chunk in particular never runs away: past the pieces it is counted
\* up at most once per thread.
PassTypeOK ==
  /\ pass \in Passes
  /\ place \in [Threads -> 1..(Len(Program) + 1)]
  /\ next \in [Threads -> Nat]
  /\ busy \in [Threads -> BOOLEAN]
  /\ chunk \in Nat
  /\ \E s \in DOMAIN Program : chunk <= Program[s].pieces + NThreads
  /\ content \in [CellsOf[pass] -> 0..Len(Program)]

\* Through the raw pointers of the closure no two threads ever touch a cell at
\* the same time unless both read it.
NoRace ==
  \A t, u \in Threads : t # u /\ busy[t] /\ busy[u] =>
    Writes(t) \cap (Reads(u) \cup Writes(u)) = {}

\* Step w is the last before s that writes cell c, or there is none and w is
\* 0: what a single thread would find in c.
LastBefore(w, s, c) ==
  /\ w < s
  /\ w # 0 => c \in AllWrites(Program[w])
  /\ \A r \in (w + 1)..(s - 1) : c \notin AllWrites(Program[r])

\* Every thread reads what it would read if one thread computed the whole
\* forward pass alone, and so are the logits at the end.
AsIfAlone ==
  /\ \A t \in Threads : busy[t] =>
       \A c \in Reads(t) : LastBefore(content[c], place[t], c)
  /\ (\A t \in Threads : Done(t)) =>
       \A c \in CellsOf[pass] : LastBefore(content[c], Len(Program) + 1, c)

\* No chunk of rows is given to two threads, no token, block or head falls in
\* two shares.
EachPieceOnce ==
  \A t \in Threads : busy[t] => \A c \in Writes(t) : content[c] # place[t]

\* The threads of a pass share its buffers, chunks and shares soundly.
SharedSoundly == PassTypeOK /\ NoRace /\ AsIfAlone /\ EachPieceOnce

\* Every thread comes to the end of the closure.
GraphEnds == <>(\A t \in Threads : Done(t))

=============================================================================
