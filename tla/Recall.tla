------------------------------ MODULE Recall ------------------------------
(***************************************************************************)
(* The ring of things the user said, and what is recalled from it for a    *)
(* question (src/recall.rs).                                               *)
(*                                                                         *)
(* The embedding of a text is left out: sim[q, t] is the cosine of two     *)
(* texts in hundredths (0..100), and norm[t] the text in lower case        *)
(* without the punctuation at its end.  A store is its slots in the order  *)
(* of the ring, the slot the next text goes to, and how many are used.     *)
(***************************************************************************)
EXTENDS Integers, FiniteSetsExt, SequencesExt, Functions

Threshold      == 1     \* a score must be above 0.01
DedupThreshold == 85    \* two texts more alike than this are the same

NewStore(capacity) ==
  [slots |-> [i \in 0 .. Max({capacity, 1}) - 1 |-> "none"],
   pos |-> 0, count |-> 0]

Capacity(s) == Cardinality(DOMAIN s.slots)

\* The oldest text is lost when the ring is full.
AddText(s, text) ==
  [slots |-> [s.slots EXCEPT ![s.pos] = text],
   pos   |-> (s.pos + 1) % Capacity(s),
   count |-> Min({s.count + 1, Capacity(s)})]

ClearStore(s) == NewStore(Capacity(s))

-----------------------------------------------------------------------------
(* Searching.                                                              *)

\* How many texts came after the one in a slot.
Age(s, slot) ==
  Min({(s.pos + 2 * Capacity(s) - 1 - slot) % Capacity(s), s.count - 1})

\* 1 for the newest and 0 for the oldest, over Recency(s, ..)[2].
Span(s)          == Max({s.count - 1, 1})
Recency(s, slot) == IF s.count <= 1 THEN Span(s) ELSE s.count - 1 - Age(s, slot)

\* The similarity times 0.85 + 0.15 * recency, in 10000 * Span(s)ths.
Score(s, sim, query, slot) ==
  sim[query, s.slots[slot]] * (85 * Span(s) + 15 * Recency(s, slot))

Used(s) == 0 .. s.count - 1

\* The kernel top_k: the first k slots, then every later slot takes the
\* place of the first of the worst ones when it is better.
Nearest(s, sim, query, k) ==
  LET score(slot) == Score(s, sim, query, slot)
      take(best, slot) ==
        LET worst == Min({score(best[i]) : i \in DOMAIN best})
            place == Min({i \in DOMAIN best : score(best[i]) = worst})
        IN  IF score(slot) > worst THEN [best EXCEPT ![place] = slot] ELSE best
      n == Min({k, s.count})
      best[seen \in n .. s.count] ==
        IF seen = n THEN [i \in 1 .. n |-> i - 1] ELSE take(best[seen - 1], seen - 1)
  IN  best[s.count]

\* Hits by score, those of one score in the order top_k left them in.
Search(s, sim, query, k) ==
  LET top      == Nearest(s, sim, query, k)
      score(i) == Score(s, sim, query, top[i])
      hits     == {i \in DOMAIN top : score(i) > Threshold * 100 * Span(s)}
      above(i) == {j \in hits : \/ score(j) > score(i)
                                \/ /\ score(j) = score(i)
                                   /\ j <= i}
      ranked   == [i \in hits |-> Cardinality(above(i))]
  IN  IF s.count = 0 \/ k = 0 THEN <<>>
      ELSE [r \in 1 .. Cardinality(hits) |->
              top[CHOOSE i \in hits : ranked[i] = r]]

\* One after another, each of these is put behind what was kept before it,
\* or left out.
Sift(kept, these, Keep(_, _)) ==
  LET after[n \in 0 .. Len(these)] ==
        IF n = 0 THEN kept
        ELSE IF Keep(after[n - 1], these[n]) THEN Append(after[n - 1], these[n])
                                             ELSE after[n - 1]
  IN  after[Len(these)]

\* Every hit that is kept removes the later ones that are like it.
Dedup(s, sim, hits) ==
  Sift(<<>>, hits,
       LAMBDA kept, slot :
         \A i \in DOMAIN kept :
           sim[s.slots[kept[i]], s.slots[slot]] <= DedupThreshold)

\* The copies of the question go first, then the doubles, then all but k.
NotTheQuestion(s, norm, query, hits) ==
  Sift(<<>>, hits, LAMBDA kept, slot : norm[s.slots[slot]] # norm[query])

\* SynthesizeTight asks for no more hits than it may keep.
SynthesizeTight(s, sim, norm, query, k) ==
  Dedup(s, sim, NotTheQuestion(s, norm, query, Search(s, sim, query, k)))
Synthesize(s, sim, norm, query, k) ==
  LET raw  == Search(s, sim, query, 2 * k + 1)
      kept == Dedup(s, sim, NotTheQuestion(s, norm, query, raw))
  IN  SubSeq(kept, 1, Min({k, Len(kept)}))

-----------------------------------------------------------------------------
(* What is expected of it, said without the kernel and the ring.           *)

\* said is everything that was added since the store was last cleared.
KeepsNewest(s, said) ==
  LET newest == SubSeq(said, Max({1, Len(said) - Capacity(s) + 1}), Len(said))
  IN  /\ s.count = Len(newest)
      /\ \A slot \in Used(s) :
           s.slots[slot] = newest[Len(newest) - Age(s, slot)]

\* The hits are the best k of the slots that score, best first.
BestHits(s, sim, query, k) ==
  LET hits     == Search(s, sim, query, k)
      score(i) == Score(s, sim, query, i)
      good     == {i \in Used(s) : score(i) > Threshold * 100 * Span(s)}
  IN  /\ Len(hits) = Min({k, Cardinality(good)})
      /\ IsInjective(hits)
      /\ \A i \in DOMAIN hits :
           /\ hits[i] \in good
           /\ \A j \in DOMAIN hits : i < j => score(hits[i]) >= score(hits[j])
           /\ \A slot \in good \ Range(hits) : score(slot) <= score(hits[i])

\* The context never repeats the question nor itself.
NoEcho(s, sim, norm, query, k) ==
  LET kept == Synthesize(s, sim, norm, query, k)
  IN  \A i \in DOMAIN kept :
        /\ norm[s.slots[kept[i]]] # norm[query]
        /\ \A j \in DOMAIN kept \ {i} :
             sim[s.slots[kept[i]], s.slots[kept[j]]] <= DedupThreshold

\* The context is short only when there is nothing else: a hit that is not
\* the question and is not in it is like one in it that scores no less.
EveryHitRepresented(s, sim, norm, query, k) ==
  LET kept     == Synthesize(s, sim, norm, query, k)
      score(i) == Score(s, sim, query, i)
      hits     == {h \in Range(Search(s, sim, query, 2 * k + 1)) :
                     norm[s.slots[h]] # norm[query]}
  IN  Len(kept) < k =>
        \A h \in hits : \E i \in DOMAIN kept :
          \/ kept[i] = h
          \/ /\ score(kept[i]) >= score(h)
             /\ sim[s.slots[kept[i]], s.slots[h]] > DedupThreshold

RecallRight(s, sim, norm, said, texts, k) ==
  /\ KeepsNewest(s, said)
  /\ \A query \in texts :
       /\ BestHits(s, sim, query, k)
       /\ NoEcho(s, sim, norm, query, k)
       /\ EveryHitRepresented(s, sim, norm, query, k)
=============================================================================
