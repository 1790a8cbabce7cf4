----------------------------- MODULE GraphSteps -----------------------------
(***************************************************************************)
(* The steps that a forward pass on the graph pool is made of.  All        *)
(* threads run the same sequence of steps.  A step is cut in pieces; a     *)
(* piece reads some cells of the shared buffers and writes others.  The    *)
(* kind says how the pieces are dealt out:                                 *)
(*                                                                         *)
(*   "share"    a run of pieces per thread, its length rounded up          *)
(*   "stride"   every nth piece                                            *)
(*   "steal"    from the counter current_chunk                             *)
(*   "alone"    one piece, for thread 0                                    *)
(*   "each"     one piece, done by every thread                            *)
(*   "reset"    no pieces: current_chunk.store(nth)                        *)
(*   "barrier"  no pieces: barrier.wait()                                  *)
(*                                                                         *)
(* A cell is <<buffer, block>> in the buffers that hold one token and      *)
(* <<buffer, token, block>> in those that hold a batch.  A block stands    *)
(* for 256 elements of a vector, a head, or the rows that a kernel         *)
(* computes at a time.                                                     *)
(***************************************************************************)
EXTENDS Integers, SequencesExt

CONSTANTS
  Size,   \* blocks in a vector
  Stack   \* per layer: has it K and V, is gate/up one matmul, is it repacked,
          \* has it per-layer embeddings

ASSUME StepsAssumption ==
  /\ Size \in Nat \ {0}
  /\ Stack \in Seq([kv : BOOLEAN, dual : BOOLEAN, packed : BOOLEAN, ple : BOOLEAN])
  /\ Stack # <<>>

Blocks == 0..(Size - 1)

Step(kind, n, Reads(_), Writes(_)) ==
  LET pieces == 0..(n - 1)
  IN  [kind |-> kind, pieces |-> n,
       reads |-> [i \in pieces |-> Reads(i)], writes |-> [i \in pieces |-> Writes(i)]]

Alone(reads, writes) == Step("alone", 1, LAMBDA i : reads, LAMBDA i : writes)
EachReads(reads) == Step("each", 1, LAMBDA i : reads, LAMBDA i : {})
Reset == Step("reset", 0, LAMBDA i : {}, LAMBDA i : {})
Bar == Step("barrier", 0, LAMBDA i : {}, LAMBDA i : {})

AllOf(buffers) == buffers \X Blocks
BlockOf(buffers, i) == buffers \X {i}

\* The 8-row kernels cover all rows with their tiles; the 4-row kernels leave
\* the rows past the last quad to thread 0.
Tiles(in, out) ==
  <<Step("steal", Size, LAMBDA i : AllOf({in}), LAMBDA i : BlockOf(out, i))>>
Quads(in, out) ==
  <<Step("steal", Size - 1, LAMBDA i : AllOf({in}), LAMBDA i : BlockOf(out, i)),
    Alone(AllOf({in}), BlockOf(out, Size - 1))>>

MatVec(packed, in, out) ==
  <<Reset, Bar>> \o (IF packed THEN Tiles(in, out) ELSE Quads(in, out)) \o <<Bar>>

-----------------------------------------------------------------------------
(***************************************************************************)
(* The forward pass of one token: forward_one_inner (forward_graph.rs) and *)
(* layer_forward_graph_timed (forward_graph_layer.rs).                     *)
(*                                                                         *)
(* Scratch that the code slices by thread (d_scratch, attn_scores,         *)
(* kv_f32_scratch) is left out, and so are the timing counters.            *)
(***************************************************************************)

\* A piece per block: `same' is read block by block, `whole' is read whole.
Split(same, whole, out) ==
  Step("share", Size, LAMBDA i : BlockOf(same, i) \cup AllOf(whole), LAMBDA i : BlockOf(out, i))

Vectors(reads, writes) == Alone(AllOf(reads), AllOf(writes))
Quantize(src) == <<Split({src}, {}, {"q8"}), Bar>>

-----------------------------------------------------------------------------
(* layer_forward_graph_timed                                               *)

Queries(packed) ==
  <<Vectors({"x"}, {"x_norm"}), Bar>> \o Quantize("x_norm") \o
  MatVec(packed, "q8", {"q"}) \o <<Vectors({"q"}, {"q", "x_norm"}), Bar>>

KeysAndValues(packed) ==
  MatVec(packed, "q8", {"k"}) \o MatVec(packed, "q8", {"v"}) \o
  <<Vectors({"k", "v", "pos"}, {"x_norm", "k", "v", "kv"}), Bar>>

Attention(packed) ==
  <<Split({"q"}, {"kv", "pos"}, {"attn_out"}), Bar>> \o Quantize("attn_out") \o
  MatVec(packed, "q8", {"wo_out"}) \o
  <<Vectors({"wo_out", "x"}, {"x_norm", "attn_res"}), Bar>>

GateAndUp(packed, dual) ==
  IF dual THEN MatVec(packed, "q8", {"gate", "up"})
  ELSE MatVec(packed, "q8", {"gate"}) \o MatVec(packed, "q8", {"up"})

FeedForward(packed, dual) ==
  Quantize("x_norm") \o GateAndUp(packed, dual) \o
  <<Split({"gate", "up"}, {}, {"gate", "ffn_q8"}), Bar>> \o
  MatVec(packed, "ffn_q8", {"down"})

LayerOutput(ple) ==
  <<Vectors({"down", "attn_res"} \cup (IF ple THEN {"ple"} ELSE {}),
            {"x", "x_norm"} \cup (IF ple THEN {"q8"} ELSE {})), Bar>>

Layer(l) ==
  Queries(l.packed) \o (IF l.kv THEN KeysAndValues(l.packed) ELSE <<>>) \o
  Attention(l.packed) \o FeedForward(l.packed, l.dual) \o LayerOutput(l.ple)

(* forward_one_inner                                                       *)

Embed == <<EachReads(AllOf({"pos"})), Vectors({}, {"x", "ple"}), Bar>>
Logits ==
  <<Vectors({"x"}, {"x_norm", "q8"}), Bar>> \o MatVec(FALSE, "q8", {"logits"}) \o
  <<Vectors({"logits", "pos"}, {"logits", "pos"}), Bar>>

\* The layers up to the n-th, one after another.
LayersTo[n \in 0 .. Len(Stack)] ==
  IF n = 0 THEN <<>> ELSE LayersTo[n - 1] \o Layer(Stack[n])
AllLayers == LayersTo[Len(Stack)]
OneToken == Embed \o AllLayers \o Logits

-----------------------------------------------------------------------------
(***************************************************************************)
(* The forward pass of a chunk of a prompt: forward_batch_inner            *)
(* (forward_batch.rs), layer_forward_batch (forward_batch_layer.rs),       *)
(* ple_batch (forward_batch_ple.rs) and the matmuls they call.             *)
(*                                                                         *)
(* Norms go by tokens, attention by heads, matmuls by rows, and the        *)
(* quantised tokens are repacked in groups.  Scratch that the code slices  *)
(* by thread (batch_head_scratch, d_scratch, attn_scores, kv_f32_scratch)  *)
(* is left out, and so are the timing counters.                            *)
(***************************************************************************)

CONSTANTS
  NTokens,    \* n
  Group,      \* tokens in a block_q8_Kx4: 4
  TokChunk    \* tok_chunk_size: 16

ASSUME BatchAssumption == {NTokens, Group, TokChunk} \subseteq Nat \ {0}

RoundedUp(n, m) == (n + m - 1) \div m

NPad == RoundedUp(NTokens, Group) * Group
Tokens == 0..(NTokens - 1)
Padded == 0..(NPad - 1)

Rows(buffers, tokens) == buffers \X tokens \X Blocks
Column(buffers, tokens, i) == buffers \X tokens \X {i}

\* A piece per token, in shares or in strides.
ByToken(kind, in, out) ==
  Step(kind, NTokens, LAMBDA t : Rows(in, {t}), LAMBDA t : Rows(out, {t}))

-----------------------------------------------------------------------------
(* forward_batch_helpers.rs and the matmuls                                *)

\* The padding tokens are filled with zeros.
QuantizeBatch(src, q8) ==
  Step("stride", NPad, LAMBDA t : Rows({src}, {t} \cap Tokens), LAMBDA t : Rows({q8}, {t}))

Members(g) == (g * Group)..(g * Group + Group - 1)
Repack(q8, q8_a) ==
  Step("stride", NPad \div Group,
       LAMBDA g : Rows({q8}, Members(g)), LAMBDA g : Rows({q8_a}, Members(g)))

\* A tile is 8 rows of the weights for all tokens, padding included.
Gemm(q8_a, out) ==
  <<Step("steal", Size, LAMBDA i : Rows({q8_a}, Padded), LAMBDA i : Column({out}, Padded, i))>>

\* A piece is 4 rows for a chunk of tokens; thread 0 does the rows that are left.
TwoDim(q8, out) ==
  LET quads == Size - 1
      ChunkOf(c) == {t \in Tokens : t \div TokChunk = c \div quads}
  IN  <<Step("steal", quads * RoundedUp(NTokens, TokChunk),
             LAMBDA c : Rows({q8}, ChunkOf(c)),
             LAMBDA c : Column({out}, ChunkOf(c), c % quads)),
        Alone(Rows({q8}, Tokens), Column({out}, Tokens, Size - 1))>>

MatMul(packed, q8, q8_a, out) ==
  (IF packed THEN Gemm(q8_a, out) ELSE TwoDim(q8, out)) \o <<Bar>>

\* What precedes the first matmul on a new input, the chunk store included.
Prepare(src, q8, q8_a) == <<QuantizeBatch(src, q8), Bar, Repack(q8, q8_a), Reset, Bar>>

-----------------------------------------------------------------------------
(* layer_forward_batch                                                     *)

OnMain(packed, out) == MatMul(packed, "batch_q8", "batch_q8_a", out)
PrepareMain(src) == Prepare(src, "batch_q8", "batch_q8_a")

BatchQueries(packed) ==
  <<ByToken("stride", {"batch_x"}, {"batch_x_norm"}), Bar>> \o
  PrepareMain("batch_x_norm") \o OnMain(packed, "batch_q") \o
  <<ByToken("stride", {"batch_q"}, {"batch_q"}), Bar>>

BatchKeysAndValues(packed) ==
  <<Reset, Bar>> \o OnMain(packed, "batch_k") \o <<Reset, Bar>> \o OnMain(packed, "batch_v") \o
  <<ByToken("stride", {"batch_k", "batch_v"}, {"batch_k", "batch_v"}), Bar,
    Alone(Rows({"batch_k", "batch_v"}, Tokens) \cup AllOf({"pos"}), Rows({"kv"}, Tokens)), Bar>>

Heads ==
  Step("share", Size,
       LAMBDA h : Column({"batch_q"}, Tokens, h) \cup Rows({"kv"}, Tokens),
       LAMBDA h : Column({"batch_attn_out"}, Tokens, h))

BatchAttention(packed) ==
  <<Heads, Bar>> \o PrepareMain("batch_attn_out") \o OnMain(packed, "batch_wo_out") \o
  <<ByToken("stride", {"batch_wo_out", "batch_x"}, {"batch_attn_res", "batch_x_norm"}), Bar>>

BatchFeedForward(packed) ==
  PrepareMain("batch_x_norm") \o OnMain(packed, "batch_gate") \o
  <<Reset, Bar>> \o OnMain(packed, "batch_up") \o
  <<ByToken("stride", {"batch_gate", "batch_up"}, {"batch_gate"}), Bar>> \o
  Prepare("batch_gate", "batch_ffn_q8", "batch_ffn_q8_a") \o
  MatMul(packed, "batch_ffn_q8", "batch_ffn_q8_a", "batch_down") \o
  <<ByToken("stride", {"batch_down", "batch_attn_res"}, {"batch_x_norm", "batch_x"}), Bar>>

\* ple_batch
BatchPle(packed) ==
  PrepareMain("batch_x") \o OnMain(packed, "ple_gate_out") \o
  <<ByToken("stride", {"ple_gate_out", "ple_signal"}, {"ple_gate_out"}), Bar>> \o
  Prepare("ple_gate_out", "ple_q8", "ple_q8_a") \o
  MatMul(packed, "ple_q8", "ple_q8_a", "ple_proj_out") \o
  <<ByToken("stride", {"ple_proj_out", "batch_x"}, {"ple_proj_out", "batch_x"}), Bar>>

BatchLayer(l) ==
  BatchQueries(l.packed) \o (IF l.kv THEN BatchKeysAndValues(l.packed) ELSE <<>>) \o
  BatchAttention(l.packed) \o BatchFeedForward(l.packed) \o
  (IF l.ple THEN BatchPle(l.packed) ELSE <<>>) \o
  <<ByToken("stride", {"batch_x"}, {"batch_x"}), Bar>>

-----------------------------------------------------------------------------
(* forward_batch_inner                                                     *)

\* prepare_ple_batch: tokens, then rows of the projection, then tokens.
PreparePle ==
  <<ByToken("share", {}, {"ple_signal"}), Bar,
    Step("share", Size, LAMBDA r : Rows({"batch_x"}, Tokens),
                        LAMBDA r : Column({"ple_scratch"}, Tokens, r)), Bar,
    ByToken("share", {"ple_signal", "ple_scratch"}, {"ple_signal", "ple_scratch"})>>

EmbedBatch ==
  <<ByToken("share", {}, {"batch_x"}), Bar>> \o
  (IF \E i \in DOMAIN Stack : Stack[i].ple THEN PreparePle ELSE <<>>) \o
  <<Bar, EachReads(AllOf({"pos"}))>>

\* The logits of the last token.
BatchLogits ==
  <<Alone(Rows({"batch_x"}, {NTokens - 1}), AllOf({"x_norm", "q8"})), Bar>> \o
  MatVec(FALSE, "q8", {"logits"}) \o <<Alone(AllOf({"logits"}), AllOf({"logits"}))>>

Advance == <<Alone(AllOf({"pos"}), AllOf({"pos"})), Bar>>

BatchLayersTo[n \in 0 .. Len(Stack)] ==
  IF n = 0 THEN <<>> ELSE BatchLayersTo[n - 1] \o BatchLayer(Stack[n])
AllBatchLayers == BatchLayersTo[Len(Stack)]

\* Only the last chunk of a prompt computes logits.
ChunkOfPrompt(isLast) ==
  EmbedBatch \o AllBatchLayers \o (IF isLast THEN BatchLogits ELSE <<>>) \o Advance

=============================================================================
