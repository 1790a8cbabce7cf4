-------------------------------- MODULE Tokens --------------------------------
(***************************************************************************)
(* Text to tokens and back, and the choice of the next token: tokenizer.rs *)
(* (loading, the SentencePiece and the GPT-2 encoders, decoding),          *)
(* tokenizer_gemma4.rs (merging by rank) and sample.rs.                    *)
(*                                                                         *)
(* Text is its bytes.  Tokens are numbered from 1: token k is the code's   *)
(* k - 1, and None is no token.                                            *)
(***************************************************************************)
EXTENDS Integers, Sequences, SequencesExt, FiniteSets, FiniteSetsExt, Functions

None == 0
Space == 32
Newline == 10
Less == 60
Greater == 62
Mark == <<226, 150, 129>>

-----------------------------------------------------------------------------
(* Tokenizer::from_gguf.  A file is [model, strs, scores, merges]:         *)
(* token strings and merges are code points, scores are absent ({}) or     *)
(* given.                                                                  *)

Utf8(cp) ==
  CASE cp < 128 -> <<cp>>
    [] cp \in 128..2047 -> <<192 + cp \div 64, 128 + (cp % 64)>>
    [] cp > 2047 -> <<224 + cp \div 4096, 128 + ((cp \div 64) % 64), 128 + (cp % 64)>>
Bytes(str) == FlattenSeq([i \in DOMAIN str |-> Utf8(str[i])])

HexDigit(n) == IF n < 10 THEN 48 + n ELSE 55 + n
HexName(b) == <<Less, 48, 120, HexDigit(b \div 16), HexDigit(b % 16), Greater>>
ByteToken(str) == IF Len(str) # 6 THEN {} ELSE {b \in 0..255 : HexName(b) = str}

\* The bytes GPT-2 writes as the 68 characters from 256 on.
GoodBytes == (33..126) \cup (161..172) \cup (174..255)
Remapped(i) == IF i < 33 THEN i ELSE IF i < 67 THEN i - 33 + 127 ELSE 173
FromUnicode(cp) ==
  IF cp \in GoodBytes THEN {cp} ELSE IF cp \in 256..323 THEN {Remapped(cp - 256)} ELSE {}
Gpt2Decode(str) ==
  IF \A i \in DOMAIN str : FromUnicode(str[i]) # {}
  THEN [i \in DOMAIN str |-> CHOOSE b \in FromUnicode(str[i]) : TRUE]
  ELSE Bytes(str)

ByMerges(f) == f.model = "gemma4"
ByScores(f) == f.model = "llama"
PieceOf(f, str) ==
  CASE ByMerges(f) \/ ByScores(f) -> Bytes(str)
    [] ~(ByMerges(f) \/ ByScores(f)) /\ ByteToken(str) # {} -> <<CHOOSE b \in ByteToken(str) : TRUE>>
    [] ~(ByMerges(f) \/ ByScores(f)) /\ ByteToken(str) = {} -> Gpt2Decode(str)

\* The last token of a text owns it.
IdOf(t, bytes) ==
  LET ids == {i \in DOMAIN t.vocab : t.vocab[i] = bytes} IN IF ids = {} THEN None ELSE Max(ids)
Fallback(t, b) == IF ByMerges(t) \/ ByScores(t) THEN IdOf(t, HexName(b)) ELSE None

\* A merge without a space is passed over; of equal ones the last ranks.
Rank(t, left, right) == {k \in DOMAIN t.merges : t.merges[k] = left \o <<Space>> \o right}

Load(f) ==
  LET scores == IF f.scores = {} THEN [i \in DOMAIN f.strs |-> -i] ELSE CHOOSE s \in f.scores : TRUE IN
  IF Len(scores) # Len(f.strs) THEN {}
  ELSE {[model |-> f.model, scores |-> scores,
         vocab |-> [i \in DOMAIN f.strs |-> PieceOf(f, f.strs[i])],
         merges |-> IF ByMerges(f) THEN [k \in DOMAIN f.merges |-> Bytes(f.merges[k])] ELSE <<>>]}

-----------------------------------------------------------------------------
(* encode_sentencepiece: the best way to each place, from the best ways to *)
(* the places before it.                                                   *)

MaxTokLen == 64
NoWay == -1000000

Spaced(bytes) == FlattenSeq([i \in DOMAIN bytes |-> IF bytes[i] = Space THEN Mark ELSE <<bytes[i]>>])

Way(score, id, prev) == [score |-> score, id |-> id, prev |-> prev]
Try(t, ways, i, j, id) ==
  IF id # None /\ ways[i].score + t.scores[id] > ways[j].score
  THEN [ways EXCEPT ![j] = Way(ways[i].score + t.scores[id], id, i)] ELSE ways
WaysFrom(t, bytes, ways, i) ==
  LET limit == Min({i + MaxTokLen, Len(bytes)})
      whole == FoldLeft(LAMBDA w, j : Try(t, w, i, j, IdOf(t, SubSeq(bytes, i + 1, j))), ways,
                        [k \in 1..(limit - i) |-> i + k])
  IN IF ways[i].score = NoWay THEN ways ELSE Try(t, whole, i, i + 1, Fallback(t, bytes[i + 1]))
Ways(t, bytes) ==
  FoldLeft(LAMBDA w, k : WaysFrom(t, bytes, w, k - 1),
           [j \in 0..Len(bytes) |-> Way(IF j = 0 THEN 0 ELSE NoWay, None, 0)],
           [k \in DOMAIN bytes |-> k])

\* Backwards from the end, until a place no way leads to.
RECURSIVE TracedBack(_, _)
TracedBack(ways, p) ==
  IF p = 0 \/ ways[p].id = None THEN <<>> ELSE Append(TracedBack(ways, ways[p].prev), ways[p].id)
EncodeSentencepiece(t, raw) ==
  LET bytes == Spaced(raw) IN TracedBack(Ways(t, bytes), Len(bytes))

-----------------------------------------------------------------------------
(* encode_bpe_pretokenized: the pretokenize kernel says where spans start; *)
(* a span that is no token is merged from its bytes, best score first.     *)

MergedId(t, ids, i) == IdOf(t, t.vocab[ids[i]] \o t.vocab[ids[i + 1]])
BestPair(t, ids) ==
  LET pairs == {i \in 1..(Len(ids) - 1) : MergedId(t, ids, i) # None /\ t.scores[MergedId(t, ids, i)] > NoWay} IN
  {i \in pairs : \A k \in pairs :
     LET a == t.scores[MergedId(t, ids, i)] b == t.scores[MergedId(t, ids, k)] IN a > b \/ (a = b /\ i <= k)}
RECURSIVE MergePairs(_, _)
MergePairs(t, ids) ==
  IF BestPair(t, ids) = {} THEN ids
  ELSE LET i == CHOOSE k \in BestPair(t, ids) : TRUE IN
       MergePairs(t, SubSeq(ids, 1, i - 1) \o <<MergedId(t, ids, i)>> \o SubSeq(ids, i + 2, Len(ids)))
BpeEncodeSpan(t, span) ==
  MergePairs(t, [i \in DOMAIN span |-> IF IdOf(t, <<span[i]>>) = None THEN 1 ELSE IdOf(t, <<span[i]>>)])

EncodeBpe(t, bytes, starts) ==
  LET from == SetToSortSeq({1} \cup (starts \cap DOMAIN bytes), <)
      Span(k) == SubSeq(bytes, from[k], IF k = Len(from) THEN Len(bytes) ELSE from[k + 1] - 1)
  IN FlattenSeq([k \in DOMAIN from |->
       IF IdOf(t, Span(k)) # None THEN <<IdOf(t, Span(k))>> ELSE BpeEncodeSpan(t, Span(k))])

-----------------------------------------------------------------------------
(* tokenizer_gemma4.rs: runs of newlines for themselves; other text in     *)
(* characters, merged in the order of the ranks from a queue of pairs.     *)

EmitByte(t, b) ==
  CASE IdOf(t, <<b>>) # None -> <<IdOf(t, <<b>>)>>
    [] IdOf(t, <<b>>) = None /\ Fallback(t, b) # None -> <<Fallback(t, b)>>
    [] IdOf(t, <<b>>) = None /\ Fallback(t, b) = None -> <<>>
EmitPiece(t, bytes) ==
  IF IdOf(t, bytes) # None THEN <<IdOf(t, bytes)>>
  ELSE FlattenSeq([i \in DOMAIN bytes |-> EmitByte(t, bytes[i])])

CharLen(b) ==
  CASE b \in 194..223 -> 2 [] b \in 224..239 -> 3 [] b \in 240..244 -> 4
    [] b \notin 194..244 -> 1
RECURSIVE Symbols(_, _)
Symbols(bytes, from) ==
  IF from > Len(bytes) THEN <<>>
  ELSE LET to == Min({from + CharLen(bytes[from]) - 1, Len(bytes)}) IN
       <<SubSeq(bytes, from, to)>> \o Symbols(bytes, to + 1)

\* The symbols are a list linked by next and prev, 0 at its ends; a symbol
\* merged into the one before it is empty.
Linked(texts) ==
  [i \in DOMAIN texts |-> [text |-> texts[i], prev |-> i - 1, next |-> IF i = Len(texts) THEN 0 ELSE i + 1]]
Bigram(t, syms, left, right) ==
  IF left = 0 \/ right = 0 THEN {}
  ELSE LET ranks == Rank(t, syms[left].text, syms[right].text) IN
       IF ranks = {} THEN {}
       ELSE {[rank |-> Max(ranks), left |-> left, right |-> right,
              text |-> syms[left].text \o syms[right].text]}
Sooner(a, b) == a.rank < b.rank \/ (a.rank = b.rank /\ a.left <= b.left)
\* StaleUnlessThere forgets that a symbol grows.
StaleUnlessThere(syms, pair) == syms[pair.left].text = <<>> \/ syms[pair.right].text = <<>>
Stale(syms, pair) ==
  \/ syms[pair.left].text = <<>> \/ syms[pair.right].text = <<>>
  \/ pair.text # syms[pair.left].text \o syms[pair.right].text
Merge(syms, pair) ==
  LET next == syms[pair.right].next
      merged == [syms EXCEPT ![pair.left].text = @ \o syms[pair.right].text, ![pair.left].next = next,
                             ![pair.right].text = <<>>]
  IN IF next = 0 THEN merged ELSE [merged EXCEPT ![next].prev = pair.left]
RECURSIVE Drain(_, _, _)
Drain(t, syms, queue) ==
  IF queue = {} THEN syms
  ELSE LET pair == CHOOSE p \in queue : \A q \in queue : Sooner(p, q)
           after == Merge(syms, pair)
           left == after[pair.left]
       IN IF Stale(syms, pair) THEN Drain(t, syms, queue \ {pair})
          ELSE Drain(t, after, (queue \ {pair}) \cup Bigram(t, after, left.prev, pair.left)
                                 \cup Bigram(t, after, pair.left, left.next))
MergedSymbols(t, texts) ==
  LET syms == Linked(texts) IN
  Drain(t, syms, UNION {Bigram(t, syms, i, syms[i].next) : i \in DOMAIN syms})
RECURSIVE Walk(_, _)
Walk(syms, i) ==
  IF i = 0 THEN <<>>
  ELSE (IF syms[i].text = <<>> THEN <<>> ELSE <<syms[i].text>>) \o Walk(syms, syms[i].next)
MergeChunk(t, raw) ==
  LET pieces == Walk(MergedSymbols(t, Symbols(Spaced(raw), 1)), 1) IN
  FlattenSeq([i \in DOMAIN pieces |-> EmitPiece(t, pieces[i])])

RECURSIVE EncodeGemma(_, _)
EncodeGemma(t, bytes) ==
  IF bytes = <<>> THEN <<>>
  ELSE LET IsNl(i) == bytes[i] = Newline
           others == {i \in DOMAIN bytes : IsNl(i) # IsNl(1)}
           end == IF others = {} THEN Len(bytes) ELSE Min(others) - 1
           chunk == SubSeq(bytes, 1, end)
       IN (IF IsNl(1) THEN EmitPiece(t, chunk) ELSE MergeChunk(t, chunk))
          \o EncodeGemma(t, SubSeq(bytes, end + 1, Len(bytes)))

-----------------------------------------------------------------------------
(* Tokenizer::encode and decode.  A name in angle brackets is a token of   *)
(* its own when the vocabulary has it, and plain text when not.            *)

EncodeSegment(t, bytes, starts) ==
  CASE bytes = <<>> -> <<>>
    [] bytes # <<>> /\ ByMerges(t) -> EncodeGemma(t, bytes)
    [] bytes # <<>> /\ ByScores(t) -> EncodeSentencepiece(t, bytes)
    [] bytes # <<>> /\ ~ByMerges(t) /\ ~ByScores(t) -> EncodeBpe(t, bytes, starts)

At(byte, text) == {i \in DOMAIN text : text[i] = byte}
RECURSIVE Encode(_, _, _)
Encode(t, text, starts) ==
  IF At(Less, text) = {} THEN EncodeSegment(t, text, starts)
  ELSE LET pos == Min(At(Less, text))
           after == SubSeq(text, pos, Len(text))
           end == IF At(Greater, after) = {} THEN 0 ELSE Min(At(Greater, after))
           name == SubSeq(after, 1, end)
           Rest(n) == Encode(t, SubSeq(after, n + 1, Len(after)), starts)
       IN EncodeSegment(t, SubSeq(text, 1, pos - 1), starts)
          \o IF end > 0 /\ IdOf(t, name) # None THEN <<IdOf(t, name)>> \o Rest(end)
             ELSE EncodeSegment(t, <<Less>>, starts) \o Rest(1)

RECURSIVE Unspaced(_)
Unspaced(bytes) ==
  CASE bytes = <<>> -> <<>>
    [] IsPrefix(Mark, bytes) -> <<Space>> \o Unspaced(SubSeq(bytes, 4, Len(bytes)))
    [] bytes # <<>> /\ ~IsPrefix(Mark, bytes) -> <<bytes[1]>> \o Unspaced(Tail(bytes))
Decode(t, ids) ==
  FlattenSeq([i \in DOMAIN ids |-> IF ids[i] \in DOMAIN t.vocab THEN Unspaced(t.vocab[ids[i]]) ELSE <<>>])

-----------------------------------------------------------------------------
(* sample.rs.  The exponential of a logit is its weight 2^l; a share of    *)
(* the weights is a pair <<over, under>>.  hot is the inverse of the       *)
(* temperature, 0 for a temperature of nothing; draw is what xorshift64    *)
(* gives, as such a share of 1.                                            *)

Weight(l) == 2 ^ l
Swap(s, i, j) == [s EXCEPT ![i] = s[j], ![j] = s[i]]
RECURSIVE SiftUp(_, _, _)
SiftUp(logits, heap, c) ==
  LET p == c \div 2 IN
  IF c > 1 /\ logits[heap[c]] < logits[heap[p]] THEN SiftUp(logits, Swap(heap, c, p), p) ELSE heap
RECURSIVE SiftDown(_, _, _)
SiftDown(logits, heap, p) ==
  LET LessOf(a, b) == IF b <= Len(heap) /\ logits[heap[b]] < logits[heap[a]] THEN b ELSE a
      s == LessOf(LessOf(p, 2 * p), 2 * p + 1)
  IN IF s = p THEN heap ELSE SiftDown(logits, Swap(heap, p, s), s)
PushCandidate(logits, heap, i, top_k) ==
  CASE Len(heap) < top_k -> SiftUp(logits, Append(heap, i), Len(heap) + 1)
    [] Len(heap) >= top_k /\ logits[i] > logits[heap[1]] -> SiftDown(logits, [heap EXCEPT ![1] = i], 1)
    [] Len(heap) >= top_k /\ logits[i] <= logits[heap[1]] -> heap
Candidates(logits, top_k) ==
  LET heap == FoldLeft(LAMBDA h, i : PushCandidate(logits, h, i, top_k), <<>>, [i \in DOMAIN logits |-> i]) IN
  SortSeq(heap, LAMBDA a, b : logits[a] > logits[b])

Sum(s) == FoldLeft(LAMBDA a, b : a + b, 0, s)
WeightsOf(logits, some) == [k \in DOMAIN some |-> Weight(logits[some[k]])]
TopP(logits, some, top_p) ==
  LET w == WeightsOf(logits, some)
      over == {k \in DOMAIN some : Sum(SubSeq(w, 1, k)) * top_p[2] > top_p[1] * Sum(w)}
  IN IF over = {} THEN some ELSE SubSeq(some, 1, Min(over))
MinP(logits, some, min_p) ==
  SelectSeq(some, LAMBDA i : Weight(logits[i]) * min_p[2] >= min_p[1] * Weight(logits[some[1]]))
Argmax(logits) ==
  CHOOSE i \in DOMAIN logits : \A j \in DOMAIN logits : logits[i] > logits[j] \/ (logits[i] = logits[j] /\ i <= j)

Chain(logits, top_k, top_p, min_p) == MinP(logits, TopP(logits, Candidates(logits, top_k), top_p), min_p)
DrawFrom(logits, some, hot, draw) ==
  LET w == [k \in DOMAIN some |-> Weight(logits[some[k]]) ^ hot]
      reached == {k \in DOMAIN some : Sum(SubSeq(w, 1, k)) * draw[2] >= draw[1] * Sum(w)}
  IN IF reached = {} THEN Last(some) ELSE some[Min(reached)]
Sample(logits, hot, top_k, top_p, min_p, draw) ==
  LET some == Chain(logits, top_k, top_p, min_p) IN
  IF hot = 0 \/ some = <<>> THEN Argmax(logits) ELSE DrawFrom(logits, some, hot, draw)

-----------------------------------------------------------------------------
(* What they are checked against                                           *)

\* Every byte of the text has a token or a name to fall back on.
Covered(t, text) ==
  LET bytes == IF ByMerges(t) \/ ByScores(t) THEN Spaced(text) ELSE text IN
  \A i \in DOMAIN bytes : IdOf(t, <<bytes[i]>>) # None \/ Fallback(t, bytes[i]) # None

\* The text that tokens stand for: the name of a byte stands for the byte.
StandsFor(t, ids) ==
  LET Piece(i) == IF (ByMerges(t) \/ ByScores(t)) /\ ByteToken(t.vocab[ids[i]]) # {}
                  THEN <<CHOOSE b \in ByteToken(t.vocab[ids[i]]) : TRUE>> ELSE t.vocab[ids[i]]
  IN Unspaced(FlattenSeq([i \in DOMAIN ids |-> Piece(i)]))
TextKept(t, text, starts) ==
  LET ids == Encode(t, text, starts) IN
  /\ \A i \in DOMAIN ids : ids[i] \in DOMAIN t.vocab
  /\ Covered(t, text) =>
       /\ StandsFor(t, ids) = text
       /\ (\A i \in DOMAIN ids : ByteToken(t.vocab[ids[i]]) = {}) => Decode(t, ids) = text

\* Every way to cut the text into tokens, and the best total score.
RECURSIVE Cuts(_, _)
Cuts(t, bytes) ==
  IF bytes = <<>> THEN {<<>>}
  ELSE UNION {LET id == IdOf(t, SubSeq(bytes, 1, n)) IN
              {<<k>> \o rest : k \in ({id} \cup IF n = 1 THEN {Fallback(t, bytes[1])} ELSE {}) \ {None},
                               rest \in Cuts(t, SubSeq(bytes, n + 1, Len(bytes)))} : n \in DOMAIN bytes}
Total(t, ids) == Sum([i \in DOMAIN ids |-> t.scores[ids[i]]])
BestCut(t, raw) ==
  LET cuts == Cuts(t, Spaced(raw)) ids == EncodeSentencepiece(t, raw) IN
  cuts # {} => ids \in cuts /\ \A c \in cuts : Total(t, c) <= Total(t, ids)

\* The list itself, its leftmost pair of the lowest rank merged again and again.
RECURSIVE GreedyMerge(_, _)
GreedyMerge(t, texts) ==
  LET RankAt(i) == Rank(t, texts[i], texts[i + 1])
      pairs == {i \in 1..(Len(texts) - 1) : RankAt(i) # {}}
      best == {i \in pairs : \A k \in pairs : Max(RankAt(i)) <= Max(RankAt(k))}
  IN IF pairs = {} THEN texts
     ELSE LET i == Min(best) IN
          GreedyMerge(t, SubSeq(texts, 1, i - 1) \o <<texts[i] \o texts[i + 1]>> \o SubSeq(texts, i + 2, Len(texts)))
MergesInOrder(t, raw) ==
  LET texts == Symbols(Spaced(raw), 1) IN
  texts # <<>> => Walk(MergedSymbols(t, texts), 1) = GreedyMerge(t, texts)

\* A token is drawn as often as its weight says, among those no k others, no
\* share top_p of the k largest and no min_p of the largest puts out.
DrawnByWeight(logits, hot, top_k, top_p, min_p) ==
  LET best == Max(Range(logits))
      some == Range(Chain(logits, top_k, top_p, min_p))
      Above(i) == {j \in DOMAIN logits : logits[j] > logits[i]}
      all == MapThenSumSet(LAMBDA i : Weight(logits[i]) ^ hot, some)
      Times(i) == Cardinality({n \in 1..all : Sample(logits, hot, top_k, top_p, min_p, <<n, all>>) = i})
  IN IF hot = 0 \/ some = {} THEN logits[Sample(logits, hot, top_k, top_p, min_p, <<0, 1>>)] = best
     ELSE /\ \A i \in some : Cardinality(Above(i)) < top_k /\ Times(i) = Weight(logits[i]) ^ hot
          /\ Cardinality(some) <= top_k
          /\ \A i \in DOMAIN logits :
               /\ i \in some => Weight(logits[i]) * min_p[2] >= min_p[1] * Weight(best)
               /\ i \notin some /\ Weight(logits[i]) * min_p[2] >= min_p[1] * Weight(best) =>
                    \/ Cardinality({j \in some : logits[j] >= logits[i]}) = top_k
                    \/ MapThenSumSet(LAMBDA j : Weight(logits[j]), some) * top_p[2] >
                         top_p[1] * Sum(WeightsOf(logits, Candidates(logits, top_k)))

=============================================================================
