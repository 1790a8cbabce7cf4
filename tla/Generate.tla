------------------------------- MODULE Generate -------------------------------
(***************************************************************************)
(* Text generation: Engine::generate (inference/generate.rs) over the key  *)
(* and value cache (inference/cache.rs).  A call refuses a prompt that     *)
(* fills the context, resets the cache, runs the prompt through the layers *)
(* in chunks (forward_batch) and then samples a token and runs it through  *)
(* the layers (forward_one_graph), until a stop token or the budget.       *)
(*                                                                         *)
(* A cache cell holds the token whose key and value were written into it,  *)
(* as <<call, position>>; Blank is the zero of a reset.  What a layer      *)
(* computes for a token is reduced to `seen', the cells its attention      *)
(* reads.  A layer of a pass is one action: the threads that share it meet *)
(* at a barrier before and after the store and after attention (module     *)
(* ForwardGraph).  The sampled token is any of the five sorts the loop     *)
(* tells apart.                                                            *)
(***************************************************************************)
EXTENDS Integers, Sequences

CONSTANTS
  NLayers,       \* layers of the model
  SwaLayers,     \* the layers with sliding-window attention; the others are global
  SharedSuffix,  \* shared_kv_layers: the last layers, which own no cache
  Window,        \* sliding_window
  MaxSeqLen,     \* max_seq_len, the context the cache is made for
  MaxBatch,      \* max_batch, the tokens the prefill buffers are made for
  Ubatches,      \* what detect_prefill_ubatch may answer
  MaxTokens,     \* bound: largest max_tokens of a call
  MaxCalls       \* bound: calls of generate

\* router.rs loads the engine with the 2048 of max_batch; the tests with less.
ASSUME GenerateAssumption ==
  /\ NLayers \in Nat \ {0} /\ SwaLayers \subseteq 0 .. NLayers - 1
  /\ SharedSuffix \in Nat
  /\ Window \in Nat \ {0} /\ MaxSeqLen \in Nat \ {0}
  /\ MaxBatch \in Nat /\ MaxSeqLen <= MaxBatch
  /\ Ubatches \subseteq Nat \ {0}
  /\ MaxTokens \in Nat /\ MaxCalls \in Nat

Layers == 0 .. NLayers - 1
Blank == <<>>
NothingSeen == [layer |-> 0, first |-> 0, rows |-> <<>>]
Smaller(a, b) == IF a < b THEN a ELSE b

VARIABLES
  pc,             \* "idle", "prefill", "decode" or "forward"
  calls,          \* calls so far
  prompt,         \* tokens of the prompt
  done, ubatch,   \* prompt tokens handed over so far, and the size of a chunk
  left,           \* rounds left to the decode loop
  layer,          \* next layer of the running pass
  seqLen, cells,  \* the cache
  seen,           \* history: what the last layer of this call read, for each token
  inThinking,     \* in_thinking
  sampled,        \* history: the tokens sampled by this call
  events          \* history: the events it sent

cacheVars == <<seqLen, cells>>
textVars == <<inThinking, sampled, events>>
vars == <<pc, calls, prompt, done, ubatch, left, layer, cacheVars, seen, textVars>>

-----------------------------------------------------------------------------
(* The cache.                                                              *)

IsSwa(l) == l \in SwaLayers
FirstShared == IF NLayers < SharedSuffix THEN 0 ELSE NLayers - SharedSuffix

\* The layer whose storage layer l uses: kv_shared_source, or its own.
Owner(l) ==
  LET alike == {j \in 0 .. FirstShared - 1 : IsSwa(j) = IsSwa(l)}
  IN  IF l < FirstShared \/ alike = {}
      THEN l
      ELSE CHOOSE j \in alike : \A k \in alike : k <= j

Owners == {l \in Layers : Owner(l) = l}
Slots(l) == 0 .. (IF IsSwa(l) THEN Window ELSE MaxSeqLen) - 1
Zeroed == [l \in Owners |-> [s \in Slots(l) |-> Blank]]

SlotOneLess(l, pos) == IF IsSwa(l) /\ Window > 1 THEN pos % (Window - 1) ELSE pos
SlotOf(l, pos) == IF IsSwa(l) THEN pos % Window ELSE pos

\* The last of the n tokens from position seqLen that falls into a slot wins.
StoreBatch(l, n) ==
  [s \in Slots(l) |->
     LET here == {p \in seqLen .. seqLen + n - 1 : SlotOf(l, p) = s}
     IN  IF here = {}
         THEN cells[l][s]
         ELSE <<calls, CHOOSE p \in here : \A q \in here : q <= p>>]

Stored(l, n) == IF l \in Owners THEN [cells EXCEPT ![l] = StoreBatch(l, n)] ELSE cells

\* Rows a prefill pass of n tokens gives to attention, and those of a decode pass.
NKv(l, n) == IF IsSwa(l) THEN Smaller(seqLen + n, Window) ELSE seqLen + n
WithoutItself(l) == IF IsSwa(Owner(l)) THEN Smaller(seqLen, Window) ELSE seqLen
AttnLen(l) == IF IsSwa(Owner(l)) THEN Smaller(seqLen + 1, Window) ELSE seqLen + 1

\* attn_fused_batched: the query of the i-th token of the batch.
Attended(l, i, nKv, cacheStart) ==
  {cells'[Owner(l)][j] : j \in 0 .. Smaller(cacheStart + i + 1, nKv) - 1}

DecodeBudget(nPrompt, maxTokens) == Smaller(maxTokens, MaxSeqLen - nPrompt)
Refused(nPrompt) == nPrompt <= 1 \/ nPrompt >= MaxSeqLen

-----------------------------------------------------------------------------

Init ==
  /\ pc = "idle" /\ calls = 0
  /\ prompt = 0 /\ done = 0 /\ ubatch = 1 /\ left = 0 /\ layer = 0
  /\ seqLen = 0 /\ cells = Zeroed
  /\ seen = NothingSeen
  /\ inThinking = FALSE /\ sampled = <<>> /\ events = <<>>

\* generate with a prompt of nothing, or one that fills the context: Err.
Refuse(n) ==
  /\ pc = "idle" /\ calls < MaxCalls
  /\ Refused(n)
  /\ calls' = calls + 1 /\ seen' = NothingSeen
  /\ UNCHANGED <<pc, prompt, done, ubatch, left, layer, cacheVars, textVars>>

\* The position after a reset.
ResetPosition == 0

\* The budget and the reset.  The asserts of forward_batch and the bounds checks
\* of the cache and of the rotation tables stop no run: see InBounds.
Start(n, maxTokens) ==
  /\ pc = "idle" /\ calls < MaxCalls
  /\ ~Refused(n)
  /\ calls' = calls + 1
  /\ prompt' = n /\ done' = 0
  /\ \E u \in Ubatches : ubatch' = Smaller(u, n)
  /\ left' = DecodeBudget(n, maxTokens)
  /\ seqLen' = ResetPosition /\ cells' = Zeroed
  /\ seen' = NothingSeen
  /\ inThinking' = FALSE /\ sampled' = <<>> /\ events' = <<>>
  /\ layer' = 0
  /\ pc' = "prefill"

Chunk == Smaller(ubatch, prompt - done)

\* One layer for n tokens: store their keys and values, then attend.
LayerPass(n, nKv, cacheStart) ==
  /\ cells' = Stored(layer, n)
  /\ seen' = [layer |-> layer, first |-> seqLen,
              rows |-> [i \in 1 .. n |-> Attended(layer, i - 1, nKv, cacheStart)]]
  /\ UNCHANGED <<calls, prompt, ubatch, left, textVars>>

\* After the last layer the position moves on: advance_n, advance.
NextLayer(n, then) ==
  IF layer < NLayers - 1
  THEN layer' = layer + 1 /\ UNCHANGED <<seqLen, pc>>
  ELSE layer' = 0 /\ seqLen' = seqLen + n /\ pc' = then

PrefillLayer ==
  /\ pc = "prefill"
  /\ LayerPass(Chunk, NKv(layer, Chunk), seqLen)
  /\ NextLayer(Chunk, IF done + Chunk = prompt THEN "decode" ELSE "prefill")
  /\ done' = IF layer < NLayers - 1 THEN done ELSE done + Chunk

DecodeLayer ==
  /\ pc = "forward"
  /\ LayerPass(1, AttnLen(layer), AttnLen(layer) - 1)
  /\ NextLayer(1, "decode")
  /\ UNCHANGED done

-----------------------------------------------------------------------------
(* The decode loop.                                                        *)

Sorts == {"open", "close", "control", "text"}
Thinking(b) == [kind |-> "thinking", on |-> b]
Token(i) == [kind |-> "token", at |-> i]

\* What a sampled token does to in_thinking, and the events it sends.
StaysHidden(sort) == inThinking \/ sort = "open"
ThinkingAfter(sort) ==
  CASE sort = "open" -> TRUE
    [] sort = "close" -> FALSE
    [] OTHER -> inThinking

EventsOf(sort) ==
  CASE sort = "open" /\ ~inThinking -> <<Thinking(TRUE)>>
    [] sort = "close" /\ inThinking -> <<Thinking(FALSE)>>
    [] sort = "text" /\ ~inThinking -> <<Token(Len(sampled) + 1)>>
    [] OTHER -> <<>>

Sample(sort) ==
  /\ pc = "decode" /\ left > 0
  /\ left' = left - 1
  /\ sampled' = Append(sampled, sort)
  /\ inThinking' = ThinkingAfter(sort)
  /\ events' = events \o EventsOf(sort)
  /\ pc' = "forward"
  /\ UNCHANGED <<calls, prompt, done, ubatch, layer, cacheVars, seen>>

\* A stop token, or the end of the budget: Ok.
Finish ==
  /\ pc = "decode"
  /\ pc' = "idle"
  /\ UNCHANGED <<calls, prompt, done, ubatch, left, layer, cacheVars, seen, textVars>>

Call == \E n \in 1 .. MaxSeqLen + 1, m \in 0 .. MaxTokens : Refuse(n) \/ Start(n, m)
Next == Call \/ PrefillLayer \/ DecodeLayer \/ (\E s \in Sorts : Sample(s)) \/ Finish

Spec == Init /\ [][Next]_vars

-----------------------------------------------------------------------------
(* Properties.                                                             *)

Entries == (1 .. MaxCalls) \X (0 .. MaxSeqLen - 1)
PassEnd == seen.first + Len(seen.rows)
Position(i) == seen.first + i - 1

TypeOK ==
  /\ pc \in {"idle", "prefill", "decode", "forward"}
  /\ calls \in 0 .. MaxCalls
  /\ prompt \in 0 .. MaxSeqLen - 1 /\ done \in 0 .. prompt
  /\ ubatch \in 1 .. MaxSeqLen /\ left \in 0 .. MaxTokens
  /\ layer \in Layers /\ seqLen \in 0 .. MaxSeqLen
  /\ DOMAIN cells = Owners
  /\ \A l \in Owners : cells[l] \in [Slots(l) -> Entries \union {Blank}]
  /\ inThinking \in BOOLEAN /\ Len(sampled) <= MaxTokens

\* W1 of benchmarks/robustness/FINDINGS.md: no prompt, budget or chunk size
\* makes a pass go past the rows of the cache and of the rotation tables
\* (generate.rs:49-52, 156-162), or the prefill past its buffers
\* (forward.rs:370-371).
InBounds ==
  /\ pc = "prefill" => Chunk > 0 /\ seqLen + Chunk <= MaxSeqLen /\ prompt <= MaxBatch
  /\ pc = "forward" => seqLen + 1 <= MaxSeqLen

\* The tokens a query should attend to: itself and those before it, on a
\* sliding layer the last Window of them.
WindowOf(l, pos) ==
  {<<calls, p>> : p \in (IF IsSwa(l) /\ pos >= Window THEN pos - Window + 1 ELSE 0) .. pos}

\* Attention reads exactly the query's window, whatever the chunks: on every
\* layer of every decode pass, on global layers and those that share them,
\* and on sliding layers for the last token of a chunk and for chunks that end
\* inside the first window.  (The others are the subject of Causal.)
SeesItsWindow ==
  \A i \in DOMAIN seen.rows :
    (IsSwa(seen.layer) => PassEnd <= Window \/ i = Len(seen.rows))
    => seen.rows[i] = WindowOf(seen.layer, Position(i))

\* No query reads a cell that another call filled, or that none did
\* (generate.rs:164-165 "Reset state for new sequence").
OnlyThisCall ==
  \A i \in DOMAIN seen.rows : \A e \in seen.rows[i] :
    e # Blank /\ e[1] = calls

\* What attention reads, of the call's own tokens and of nobody else's.
AttendsRight == TypeOK /\ InBounds /\ SeesItsWindow /\ OnlyThisCall

\* Between passes the cache stands where the text does: every token so far has
\* been run once, and each layer's storage holds the last Window of them, or all.
CacheHoldsText ==
  pc = "decode" =>
    /\ seqLen = prompt + Len(sampled)
    /\ \A l \in Owners : WindowOf(l, seqLen - 1) \subseteq {cells[l][s] : s \in Slots(l)}

\* generate.rs:20-23: the user sees the text tokens outside thinking blocks,
\* each once and in order, none while a block is announced as open, and a block
\* is announced as open or closed only when the last word was the other one.
Inside(seq, i, open, close) ==
  \E o \in 1 .. i - 1 : seq[o] = open /\ \A k \in o + 1 .. i - 1 : seq[k] # close
Hidden(i) == Inside(sampled, i, "open", "close")
Announced(j) == Inside(events, j, Thinking(TRUE), Thinking(FALSE))
ThinkingHidden ==
  /\ \A i \in DOMAIN sampled :
       (sampled[i] = "text" /\ ~Hidden(i)) <=> \E j \in DOMAIN events : events[j] = Token(i)
  /\ \A j \in DOMAIN events :
       IF events[j].kind = "token"
       THEN /\ events[j].at \in DOMAIN sampled /\ ~Announced(j)
            /\ \A k \in 1 .. j - 1 : events[k].kind = "token" => events[k].at < events[j].at
       ELSE events[j].on <=> ~Announced(j)
  /\ Announced(Len(events) + 1) <=> Hidden(Len(sampled) + 1)

\* kernels/attn_fused_batched.ea:1-5: "Fused batched causal attention ... with
\* causal mask": no query reads the key of a later token.
Causal ==
  \A i \in DOMAIN seen.rows : \A p \in 0 .. MaxSeqLen - 1 :
    <<calls, p>> \in seen.rows[i] => p <= Position(i)

=============================================================================
