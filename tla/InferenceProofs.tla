-------------------------- MODULE InferenceProofs --------------------------
(***************************************************************************)
(* Theorems about inference.                                               *)
(*                                                                         *)
(* One pass: the threads of the graph pool, however many, share the        *)
(* buffers of a forward pass soundly, for every number of layers of every  *)
(* kind, of blocks, tokens, groups and chunks.  First it is proved of the  *)
(* text of the passes that steps no barrier keeps apart touch no common    *)
(* cell and that a counter is reset before it is stolen from (Sound), then *)
(* of the threads that they compute as one thread would alone whatever     *)
(* text is sound.                                                          *)
(*                                                                         *)
(* All passes: for every model, context, window, chunk size, budget and    *)
(* number of calls every pass stays inside the cache, attention reads      *)
(* exactly the tokens of its window and call, the cache stands where the   *)
(* text does, and what is thought is not told.                             *)
(***************************************************************************)
EXTENDS Generate, ForwardGraph, FiniteSetTheorems, SequenceTheorems, WellFoundedInduction, TLAPS

-----------------------------------------------------------------------------
(* Numbers: the least and the greatest of a set, and remainders.           *)

LEMMA Least ==
  ASSUME NEW T \in SUBSET Nat, T # {}
  PROVE  \E m \in T : \A k \in T : m <= k
<1> DEFINE R == OpToRel(<, Nat)
<1>1. IsWellFoundedOn(R, Nat)
  BY NatLessThanWellFounded
<1>2. R = {ss \in Nat \X Nat : ss[1] < ss[2]}
  BY DEF OpToRel
<1> HIDE DEF R
<1>3. PICK x \in T : \A y \in T : <<y, x>> \notin R
  BY <1>1, WFMin
<1>4. \A y \in T : ~(y < x)
  <2> SUFFICES ASSUME NEW y \in T, y < x PROVE <<y, x>> \in R
    BY <1>3
  <2>1. <<y, x>> \in Nat \X Nat
    OBVIOUS
  <2> QED BY <1>2, <2>1
<1> QED BY <1>4

LEMMA Greatest ==
  ASSUME NEW T \in SUBSET Nat, T # {}, NEW b \in Nat, \A t \in T : t <= b
  PROVE  \E m \in T : \A k \in T : k <= m
<1> DEFINE R == {b - t : t \in T}
<1>1. R \in SUBSET Nat /\ R # {}
  <2>1. \A t \in T : b - t \in Nat
    OBVIOUS
  <2> QED BY <2>1
<1> HIDE DEF R
<1>2. PICK x \in R : \A y \in R : x <= y
  BY <1>1, Least
<1>3. PICK m \in T : x = b - m
  BY <1>2 DEF R
<1>4. \A k \in T : b - k \in R
  BY DEF R
<1> QED BY <1>2, <1>3, <1>4

LEMMA DivMod ==
  ASSUME NEW w \in Nat \ {0}, NEW p \in Nat
  PROVE  \E a \in Nat, r \in 0 .. w - 1 : p = w * a + r /\ p % w = r
<1>1. p % w \in 0 .. w - 1 /\ p \div w \in Nat
  OBVIOUS
<1>2. p = (w * (p \div w)) + (p % w)
  BY SMT
<1> QED BY <1>1, <1>2

LEMMA Multiples ==
  ASSUME NEW w \in Nat \ {0}, NEW a \in Nat, NEW b \in Nat, a < b
  PROVE  w * b >= w * a + w
<1>1. b - a >= 1 OBVIOUS
<1>2. w * (b - a) >= w BY <1>1
<1>3. w * (b - a) = w * b - w * a OBVIOUS
<1> QED BY <1>2, <1>3

LEMMA DivUnique ==
  ASSUME NEW w \in Nat \ {0}, NEW a \in Nat, NEW b \in Nat,
         NEW r \in 0 .. w - 1, NEW s \in 0 .. w - 1, w * a + r = w * b + s
  PROVE  a = b /\ r = s
<1> DEFINE x == w * a
           y == w * b
<1>1. x \in Nat /\ y \in Nat /\ x + r = y + s
  OBVIOUS
<1>2. a < b => y >= x + w
  BY Multiples
<1>3. b < a => x >= y + w
  BY Multiples
<1> HIDE DEF x, y
<1>4. a = b
  BY <1>1, <1>2, <1>3
<1>5. x = y
  BY <1>4 DEF x, y
<1> QED BY <1>1, <1>4, <1>5

LEMMA ModPlus ==
  ASSUME NEW w \in Nat \ {0}, NEW p \in Nat
  PROVE  (p + w) % w = p % w
<1>1. PICK a \in Nat, r \in 0 .. w - 1 : p = w * a + r /\ p % w = r
  BY DivMod
<1>2. PICK b \in Nat, s \in 0 .. w - 1 : p + w = w * b + s /\ (p + w) % w = s
  BY DivMod
<1>3. w * (a + 1) = w * a + w
  OBVIOUS
<1>4. w * (a + 1) + r = w * b + s
  BY <1>1, <1>2, <1>3
<1> QED BY <1>1, <1>2, <1>4, DivUnique

LEMMA ModApart ==
  ASSUME NEW w \in Nat \ {0}, NEW p \in Nat, NEW q \in Nat, p < q, q - p < w
  PROVE  p % w # q % w
<1>1. PICK a \in Nat, r \in 0 .. w - 1 : p = w * a + r /\ p % w = r
  BY DivMod
<1>2. PICK b \in Nat, s \in 0 .. w - 1 : q = w * b + s /\ q % w = s
  BY DivMod
<1> DEFINE x == w * a
           y == w * b
<1>3. x \in Nat /\ y \in Nat /\ p = x + r /\ q = y + s
  BY <1>1, <1>2
<1>4. a < b => y >= x + w
  BY Multiples
<1>5. ~(a < b) => x = y \/ x >= y + w
  BY Multiples
<1> HIDE DEF x, y
<1> QED BY <1>1, <1>2, <1>3, <1>4, <1>5

LEMMA Products ==
  ASSUME NEW a \in Nat, NEW b \in Nat, NEW s \in Nat, a <= b
  PROVE  a * s \in Nat /\ a * s <= b * s /\ (a + 1) * s = a * s + s
<1>1. \E d \in Nat : b = a + d
  <2>1. b - a \in Nat /\ b = a + (b - a)
    OBVIOUS
  <2> QED BY <2>1
<1>2. PICK d \in Nat : b = a + d
  BY <1>1
<1>3. b * s = a * s + d * s /\ d * s \in Nat /\ a * s \in Nat
  BY <1>2
<1> QED BY <1>3

LEMMA Division ==
  ASSUME NEW n \in Nat, NEW m \in Nat, m > 0
  PROVE  /\ n \div m \in Nat /\ n % m \in 0 .. m - 1
         /\ n = (m * (n \div m)) + (n % m)
<1>1. n % m \in 0 .. m - 1 /\ n \div m \in Nat
  OBVIOUS
<1>2. n = (m * (n \div m)) + (n % m)
  BY SMT
<1> QED BY <1>1, <1>2

-----------------------------------------------------------------------------
(* What the text of a pass must be like.                                   *)

Kinds == Computing \cup {"reset", "barrier"}

\* A step is cut in pieces that stay out of each other's way.
WellCut(a) ==
  /\ a.kind \in Kinds /\ a.pieces \in Nat
  /\ DOMAIN a.reads = 0 .. a.pieces - 1 /\ DOMAIN a.writes = 0 .. a.pieces - 1
  /\ a.kind \in {"alone", "each"} => a.pieces = 1
  /\ a.kind \in {"reset", "barrier"} => a.pieces = 0
  /\ a.kind = "each" => a.writes[0] = {}
  /\ \A i, j \in 0 .. a.pieces - 1 :
       i # j => a.writes[i] \cap (a.reads[j] \cup a.writes[j]) = {}

\* No barrier keeps step s from running while somebody is still at step r.
Meet(p, r, s) == \A k \in r .. s - 1 : p[k].kind # "barrier"

Apart(a, b) ==
  \A i \in 0 .. a.pieces - 1, j \in 0 .. b.pieces - 1 :
    /\ a.writes[i] \cap b.reads[j] = {}
    /\ a.writes[i] \cap b.writes[j] = {}
    /\ a.reads[i] \cap b.writes[j] = {}

UsesChunk(a) == a.kind \in {"steal", "reset"}

\* Two steps that meet: they are thread 0's, or have no cell in common that
\* one of them writes; and stealing has the counter for itself.
Agree(a, b) ==
  /\ (a.kind = "alone" /\ b.kind = "alone") \/ Apart(a, b)
  /\ a.kind = "steal" => ~UsesChunk(b)
  /\ b.kind = "steal" => ~UsesChunk(a)

\* The counter is reset at r for s, and a barrier after it waited for.
ResetFor(p, r, s) ==
  /\ p[r].kind = "reset"
  /\ \E b \in r .. s - 1 : p[b].kind = "barrier"
  /\ \A k \in r .. s - 1 : p[k].kind # "steal"

Sound(p) ==
  /\ Len(p) \in Nat \ {0} /\ DOMAIN p = 1 .. Len(p)
  /\ \A s \in 1 .. Len(p) : WellCut(p[s])
  /\ \A r, s \in 1 .. Len(p) : r < s /\ Meet(p, r, s) => Agree(p[r], p[s])
  /\ \A s \in 1 .. Len(p) :
       p[s].kind = "steal" => \E r \in 1 .. s - 1 : ResetFor(p, r, s)

-----------------------------------------------------------------------------
(* Putting the text of a pass together.                                    *)

IsSeq(p) == \E S : p \in Seq(S)

LEMMA SeqFacts ==
  ASSUME NEW p, IsSeq(p)
  PROVE  Len(p) \in Nat /\ DOMAIN p = 1 .. Len(p)
BY DEF IsSeq

LEMMA Joined ==
  ASSUME NEW p, NEW q, IsSeq(p), IsSeq(q)
  PROVE  /\ IsSeq(p \o q) /\ Len(p \o q) = Len(p) + Len(q)
         /\ \A i \in 1 .. Len(p) : (p \o q)[i] = p[i]
         /\ \A i \in 1 .. Len(q) : (p \o q)[Len(p) + i] = q[i]
         /\ \A i \in 1 .. Len(p) + Len(q) :
              i \in 1 .. Len(p) \/ (i - Len(p) \in 1 .. Len(q) /\ (p \o q)[i] = q[i - Len(p)])
<1>1. PICK S : p \in Seq(S)
  BY DEF IsSeq
<1>2. PICK T : q \in Seq(T)
  BY DEF IsSeq
<1>3. p \in Seq(S \cup T) /\ q \in Seq(S \cup T)
  BY <1>1, <1>2
<1>4. /\ p \o q \in Seq(S \cup T) /\ Len(p \o q) = Len(p) + Len(q)
      /\ \A i \in 1 .. Len(p) : (p \o q)[i] = p[i]
      /\ \A i \in 1 .. Len(q) : (p \o q)[Len(p) + i] = q[i]
  BY <1>3
<1>5. Len(p) \in Nat /\ Len(q) \in Nat
  BY <1>3
<1>6. \A i \in 1 .. Len(p) + Len(q) :
        i \in 1 .. Len(p) \/ (i - Len(p) \in 1 .. Len(q) /\ (p \o q)[i] = q[i - Len(p)])
  <2> TAKE i \in 1 .. Len(p) + Len(q)
  <2>1. CASE i > Len(p)
    <3>1. i - Len(p) \in 1 .. Len(q) /\ Len(p) + (i - Len(p)) = i
      BY <2>1, <1>5
    <3> QED BY <3>1, <1>4
  <2> QED BY <2>1, <1>5
<1> QED BY <1>4, <1>6 DEF IsSeq

LEMMA JoinedEmpty ==
  ASSUME NEW p, IsSeq(p)
  PROVE  p \o << >> = p /\ << >> \o p = p
BY DEF IsSeq

\* The steps of a part are well cut, and those of them that meet agree.
Part(p) ==
  /\ IsSeq(p)
  /\ \A s \in 1 .. Len(p) : WellCut(p[s])
  /\ \A r, s \in 1 .. Len(p) : r < s /\ Meet(p, r, s) => Agree(p[r], p[s])

\* Whatever is stolen in it, the counter has been reset for; or it is stolen
\* first, and somebody before must have reset it.
Resets(p) ==
  \A s \in 1 .. Len(p) : p[s].kind = "steal" => \E r \in 1 .. s - 1 : ResetFor(p, r, s)
NeedsReset(p) ==
  \A s \in 1 .. Len(p) : p[s].kind = "steal" =>
    (\E r \in 1 .. s - 1 : ResetFor(p, r, s)) \/ (\A k \in 1 .. s - 1 : p[k].kind # "steal")

\* It leaves the counter reset for what comes next.
Ready(p) == \E r \in 1 .. Len(p) : ResetFor(p, r, Len(p) + 1)

EndsInBar(p) == Len(p) > 0 /\ p[Len(p)].kind = "barrier"

\* The steps of p that meet steps of q agree with them.
Fit(p, q) ==
  \A r \in 1 .. Len(p), s \in 1 .. Len(q) :
    (\A k \in r .. Len(p) : p[k].kind # "barrier") /\ (\A k \in 1 .. s - 1 : q[k].kind # "barrier")
      => Agree(p[r], q[s])

LEMMA PartIsSound ==
  ASSUME NEW p, Part(p), Resets(p), Len(p) > 0
  PROVE  Sound(p)
BY SeqFacts DEF Part, Resets, Sound

LEMMA JoinParts ==
  ASSUME NEW p, NEW q, Part(p), Part(q), Fit(p, q)
  PROVE  Part(p \o q)
<1> DEFINE m == Len(p)
           n == Len(q)
           j == p \o q
<1>1. /\ IsSeq(j) /\ Len(j) = m + n /\ m \in Nat /\ n \in Nat
      /\ \A i \in 1 .. m : j[i] = p[i]
      /\ \A i \in 1 .. n : j[m + i] = q[i]
      /\ \A i \in 1 .. m + n : i \in 1 .. m \/ (i - m \in 1 .. n /\ j[i] = q[i - m])
  BY Joined, SeqFacts DEF Part
<1> HIDE DEF m, n, j
<1>2. \A s \in 1 .. m : WellCut(p[s])
  BY DEF Part, m
<1>3. \A s \in 1 .. n : WellCut(q[s])
  BY DEF Part, n
<1>4. \A s \in 1 .. m + n : WellCut(j[s])
  BY <1>1, <1>2, <1>3
<1>5. ASSUME NEW r \in 1 .. m + n, NEW s \in 1 .. m + n, r < s, Meet(j, r, s)
      PROVE  Agree(j[r], j[s])
  <2>1. CASE s <= m
    <3>1. r \in 1 .. m /\ s \in 1 .. m
      BY <2>1, <1>1, <1>5
    <3>2. Meet(p, r, s)
      BY <3>1, <1>1, <1>5 DEF Meet
    <3>3. Agree(p[r], p[s])
      BY <3>1, <3>2, <1>5 DEF Part, m
    <3> QED BY <3>1, <3>3, <1>1
  <2>2. CASE r > m
    <3>1. r - m \in 1 .. n /\ s - m \in 1 .. n /\ r - m < s - m
      BY <2>2, <1>1, <1>5
    <3>2. Meet(q, r - m, s - m)
      <4> SUFFICES ASSUME NEW k \in r - m .. s - m - 1 PROVE q[k].kind # "barrier"
        BY DEF Meet
      <4>1. k \in 1 .. n /\ m + k \in r .. s - 1
        BY <3>1, <1>1, <1>5
      <4> QED BY <4>1, <1>1, <1>5 DEF Meet
    <3>3. Agree(q[r - m], q[s - m])
      BY <3>1, <3>2 DEF Part, n
    <3>4. j[r] = q[r - m] /\ j[s] = q[s - m]
      BY <3>1, <2>2, <1>1, <1>5
    <3> QED BY <3>3, <3>4
  <2>3. CASE r <= m /\ s > m
    <3>1. r \in 1 .. m /\ s - m \in 1 .. n /\ j[r] = p[r] /\ j[s] = q[s - m]
      BY <2>3, <1>1, <1>5
    <3>2. \A k \in r .. m : p[k].kind # "barrier"
      <4> TAKE k \in r .. m
      <4>1. k \in 1 .. m /\ k \in r .. s - 1
        BY <3>1, <2>3, <1>1
      <4> QED BY <4>1, <1>1, <1>5 DEF Meet
    <3>3. \A k \in 1 .. (s - m) - 1 : q[k].kind # "barrier"
      <4> TAKE k \in 1 .. (s - m) - 1
      <4>1. k \in 1 .. n /\ m + k \in r .. s - 1
        BY <3>1, <2>3, <1>1
      <4> QED BY <4>1, <1>1, <1>5 DEF Meet
    <3> QED BY <3>1, <3>2, <3>3 DEF Fit, m, n
  <2> QED BY <2>1, <2>2, <2>3, <1>1
<1> QED BY <1>1, <1>4, <1>5 DEF Part, j

LEMMA ResetLater ==
  ASSUME NEW p, NEW q, IsSeq(p), IsSeq(q),
         NEW r \in 1 .. Len(q), NEW s \in 1 .. Len(q) + 1, ResetFor(q, r, s)
  PROVE  ResetFor(p \o q, Len(p) + r, Len(p) + s)
<1> DEFINE m == Len(p)
           n == Len(q)
           j == p \o q
<1>1. m \in Nat /\ n \in Nat /\ \A i \in 1 .. n : j[m + i] = q[i]
  BY Joined, SeqFacts
<1> HIDE DEF m, n, j
<1>2. r \in 1 .. n /\ s \in 1 .. n + 1
  BY DEF n
<1>3. j[m + r].kind = "reset"
  BY <1>1, <1>2 DEF ResetFor
<1>4. PICK b \in r .. s - 1 : q[b].kind = "barrier"
  BY DEF ResetFor
<1>5. m + b \in m + r .. (m + s) - 1 /\ j[m + b].kind = "barrier"
  BY <1>1, <1>2, <1>4
<1>6. \A k \in m + r .. (m + s) - 1 : j[k].kind # "steal"
  <2> TAKE k \in m + r .. (m + s) - 1
  <2>1. k - m \in r .. s - 1 /\ k - m \in 1 .. n /\ m + (k - m) = k
    BY <1>1, <1>2
  <2> QED BY <2>1, <1>1 DEF ResetFor
<1>7. ResetFor(j, m + r, m + s)
  <2>1. \E k \in m + r .. (m + s) - 1 : j[k].kind = "barrier"
    BY <1>5
  <2> QED BY <2>1, <1>3, <1>6 DEF ResetFor
<1> QED BY <1>7 DEF m, j

LEMMA ResetEarlier ==
  ASSUME NEW p, NEW q, IsSeq(p), IsSeq(q),
         NEW r \in 1 .. Len(p), NEW s \in 1 .. Len(p) + 1, ResetFor(p, r, s)
  PROVE  ResetFor(p \o q, r, s)
<1>1. Len(p) \in Nat /\ \A i \in 1 .. Len(p) : (p \o q)[i] = p[i]
  BY Joined, SeqFacts
<1>2. \A k \in r .. s - 1 : k \in 1 .. Len(p)
  BY <1>1
<1> QED BY <1>1, <1>2 DEF ResetFor

\* What p leaves reset is reset until q steals.
LEMMA ResetAcross ==
  ASSUME NEW p, NEW q, IsSeq(p), IsSeq(q), Ready(p),
         NEW s \in 1 .. Len(q) + 1, \A k \in 1 .. s - 1 : q[k].kind # "steal"
  PROVE  \E r \in 1 .. Len(p) : ResetFor(p \o q, r, Len(p) + s)
<1> DEFINE m == Len(p)
           n == Len(q)
           j == p \o q
<1>1. /\ m \in Nat /\ n \in Nat
      /\ \A i \in 1 .. m : j[i] = p[i]
      /\ \A i \in 1 .. m + n : i \in 1 .. m \/ (i - m \in 1 .. n /\ j[i] = q[i - m])
  BY Joined, SeqFacts
<1>2. PICK r \in 1 .. m : ResetFor(p, r, m + 1)
  BY DEF Ready
<1> HIDE DEF m, n, j
<1>3. s \in 1 .. n + 1
  BY DEF n
<1>4. j[r].kind = "reset"
  BY <1>1, <1>2 DEF ResetFor
<1>5. PICK b \in r .. m : p[b].kind = "barrier"
  BY <1>1, <1>2 DEF ResetFor
<1>6. b \in r .. (m + s) - 1 /\ j[b].kind = "barrier"
  BY <1>1, <1>2, <1>3, <1>5
<1>7. \A k \in r .. (m + s) - 1 : j[k].kind # "steal"
  <2> TAKE k \in r .. (m + s) - 1
  <2>1. CASE k <= m
    <3>1. k \in r .. m + 1 - 1 /\ k \in 1 .. m
      BY <2>1, <1>1, <1>2
    <3> QED BY <3>1, <1>1, <1>2 DEF ResetFor
  <2>2. CASE k > m
    <3>1. k \in 1 .. m + n /\ k - m \in 1 .. s - 1
      BY <2>2, <1>1, <1>2, <1>3
    <3>2. j[k] = q[k - m]
      BY <3>1, <2>2, <1>1
    <3> QED BY <3>1, <3>2
  <2> QED BY <2>1, <2>2, <1>1, <1>2
<1>8. ResetFor(j, r, m + s)
  <2>1. \E k \in r .. (m + s) - 1 : j[k].kind = "barrier"
    BY <1>6
  <2> QED BY <2>1, <1>4, <1>7 DEF ResetFor
<1> QED BY <1>2, <1>8 DEF m, j

LEMMA JoinResets ==
  ASSUME NEW p, NEW q, IsSeq(p), IsSeq(q), Resets(p), Resets(q) \/ (Ready(p) /\ NeedsReset(q))
  PROVE  Resets(p \o q)
<1> DEFINE m == Len(p)
           n == Len(q)
           j == p \o q
<1>1. /\ Len(j) = m + n /\ m \in Nat /\ n \in Nat
      /\ \A i \in 1 .. m : j[i] = p[i]
      /\ \A i \in 1 .. m + n : i \in 1 .. m \/ (i - m \in 1 .. n /\ j[i] = q[i - m])
  BY Joined, SeqFacts
<1> HIDE DEF m, n, j
<1> SUFFICES ASSUME NEW s \in 1 .. m + n, j[s].kind = "steal"
             PROVE  \E r \in 1 .. s - 1 : ResetFor(j, r, s)
  BY <1>1 DEF Resets, j
<1>2. CASE s \in 1 .. m
  <2>1. PICK r \in 1 .. s - 1 : ResetFor(p, r, s)
    BY <1>1, <1>2 DEF Resets, m
  <2>2. r \in 1 .. m /\ s \in 1 .. m + 1
    BY <1>1, <1>2
  <2> QED BY <2>1, <2>2, ResetEarlier DEF j, m
<1>3. CASE s \notin 1 .. m
  <2>1. s - m \in 1 .. n /\ q[s - m].kind = "steal" /\ s - m \in 1 .. n + 1 /\ m + (s - m) = s
    BY <1>1, <1>3
  <2>2. CASE \E r \in 1 .. (s - m) - 1 : ResetFor(q, r, s - m)
    <3>1. PICK r \in 1 .. (s - m) - 1 : ResetFor(q, r, s - m)
      BY <2>2
    <3>2. r \in 1 .. n /\ m + r \in 1 .. s - 1
      BY <2>1, <1>1
    <3>3. ResetFor(j, m + r, m + (s - m))
      BY <3>1, <3>2, <2>1, ResetLater DEF j, m, n
    <3> QED BY <3>2, <3>3, <2>1
  <2>3. CASE Ready(p) /\ \A k \in 1 .. (s - m) - 1 : q[k].kind # "steal"
    <3>1. PICK r \in 1 .. m : ResetFor(j, r, m + (s - m))
      BY <2>1, <2>3, ResetAcross DEF j, m, n
    <3>2. r \in 1 .. s - 1
      BY <2>1, <1>1
    <3> QED BY <3>1, <3>2, <2>1
  <2> QED BY <2>1, <2>2, <2>3 DEF Resets, NeedsReset, n
<1> QED BY <1>2, <1>3

LEMMA JoinEnds ==
  ASSUME NEW p, NEW q, IsSeq(p), IsSeq(q)
  PROVE  /\ EndsInBar(q) => EndsInBar(p \o q)
         /\ Ready(q) => Ready(p \o q)
<1>1. Len(p) \in Nat /\ Len(q) \in Nat /\ Len(p \o q) = Len(p) + Len(q)
      /\ \A i \in 1 .. Len(q) : (p \o q)[Len(p) + i] = q[i]
  BY Joined, SeqFacts
<1>2. ASSUME EndsInBar(q) PROVE EndsInBar(p \o q)
  <2>1. Len(q) \in 1 .. Len(q)
    BY <1>1, <1>2 DEF EndsInBar
  <2>2. (p \o q)[Len(p) + Len(q)] = q[Len(q)]
    BY <2>1, <1>1
  <2> QED BY <2>2, <1>1, <1>2 DEF EndsInBar
<1>3. ASSUME Ready(q) PROVE Ready(p \o q)
  <2>1. PICK r \in 1 .. Len(q) : ResetFor(q, r, Len(q) + 1)
    BY <1>3 DEF Ready
  <2>2. ResetFor(p \o q, Len(p) + r, Len(p) + (Len(q) + 1))
    <3>1. Len(q) + 1 \in 1 .. Len(q) + 1
      BY <1>1
    <3> QED BY <3>1, <2>1, ResetLater
  <2>3. Len(p) + r \in 1 .. Len(p \o q) /\ Len(p) + (Len(q) + 1) = Len(p \o q) + 1
    BY <1>1
  <2> QED BY <2>2, <2>3 DEF Ready
<1> QED BY <1>2, <1>3

-----------------------------------------------------------------------------
(* Blocks: parts that a barrier closes.                                    *)

Block(p) == Part(p) /\ Resets(p) /\ EndsInBar(p)

LEMMA FitEnds ==
  ASSUME NEW p, NEW q, IsSeq(p), EndsInBar(p)
  PROVE  Fit(p, q)
<1>1. \A r \in 1 .. Len(p) : Len(p) \in r .. Len(p)
  BY SeqFacts
<1> QED BY <1>1 DEF Fit, EndsInBar

\* A step with no pieces agrees with every other, but for the counter.
LEMMA AgreeIdle ==
  ASSUME NEW a, NEW b, WellCut(a), WellCut(b), b.kind \in {"reset", "barrier"},
         b.kind = "reset" => a.kind # "steal"
  PROVE  Agree(a, b)
<1>1. 0 .. b.pieces - 1 = {}
  BY DEF WellCut
<1> QED BY <1>1 DEF Agree, Apart, UsesChunk

LEMMA FitStarts ==
  ASSUME NEW p, NEW q, Part(p), Part(q), Len(q) > 0, q[1].kind = "barrier"
  PROVE  Fit(p, q)
<1>1. Len(q) \in Nat
  BY SeqFacts DEF Part
<1>2. ASSUME NEW r \in 1 .. Len(p) PROVE Agree(p[r], q[1])
  BY <1>1, AgreeIdle DEF Part
<1>3. \A s \in 1 .. Len(q) : s # 1 => 1 \in 1 .. s - 1
  BY <1>1
<1> QED BY <1>2, <1>3 DEF Fit

\* The step that p leaves open agrees with the first of q, and then there is
\* a barrier.
LEMMA FitTail ==
  ASSUME NEW p, NEW q, Part(p), Part(q), Len(p) > 1, Len(q) > 1,
         p[Len(p) - 1].kind = "barrier", p[Len(p)].kind \in {"alone", "each"},
         q[2].kind = "barrier", Agree(p[Len(p)], q[1])
  PROVE  Fit(p, q)
<1>1. Len(p) \in Nat /\ Len(q) \in Nat
  BY SeqFacts DEF Part
<1>2. Agree(p[Len(p)], q[2])
  BY <1>1, AgreeIdle DEF Part
<1>3. \A r \in 1 .. Len(p) : r # Len(p) => Len(p) - 1 \in r .. Len(p)
  BY <1>1
<1>4. \A s \in 1 .. Len(q) : s # 1 /\ s # 2 => 2 \in 1 .. s - 1
  BY <1>1
<1> QED BY <1>2, <1>3, <1>4 DEF Fit

LEMMA OneStep ==
  ASSUME NEW a, WellCut(a)
  PROVE  /\ Part(<<a>>) /\ NeedsReset(<<a>>) /\ Len(<<a>>) = 1 /\ <<a>>[1] = a
         /\ a.kind # "steal" => Resets(<<a>>)
         /\ a.kind = "barrier" => Block(<<a>>)
<1>1. <<a>> \in Seq({a}) /\ Len(<<a>>) = 1 /\ <<a>>[1] = a
  OBVIOUS
<1>2. IsSeq(<<a>>)
  BY <1>1 DEF IsSeq
<1>3. Part(<<a>>)
  BY <1>1, <1>2 DEF Part
<1>4. NeedsReset(<<a>>) /\ (a.kind # "steal" => Resets(<<a>>))
  BY <1>1 DEF NeedsReset, Resets
<1> QED BY <1>1, <1>3, <1>4 DEF Block, EndsInBar

LEMMA TwoSteps ==
  ASSUME NEW a, NEW b, WellCut(a), WellCut(b), a.kind # "barrier" => Agree(a, b),
         b.kind # "steal"
  PROVE  /\ Part(<<a, b>>) /\ NeedsReset(<<a, b>>) /\ Len(<<a, b>>) = 2
         /\ <<a, b>>[1] = a /\ <<a, b>>[2] = b
         /\ a.kind # "steal" => Resets(<<a, b>>)
         /\ a.kind # "steal" /\ b.kind = "barrier" => Block(<<a, b>>)
<1>1. <<a, b>> \in Seq({a, b}) /\ Len(<<a, b>>) = 2 /\ <<a, b>>[1] = a /\ <<a, b>>[2] = b
  OBVIOUS
<1>2. IsSeq(<<a, b>>)
  BY <1>1 DEF IsSeq
<1> PICK p : p = <<a, b>>
  OBVIOUS
<1>3. Len(p) = 2 /\ p[1] = a /\ p[2] = b /\ IsSeq(p)
  BY <1>1, <1>2
<1>4. Part(p)
  <2>1. \A r, s \in 1 .. 2 : r < s => r = 1 /\ s = 2
    OBVIOUS
  <2>2. Meet(p, 1, 2) => Agree(a, b)
    BY <1>3 DEF Meet
  <2>3. \A s \in 1 .. Len(p) : WellCut(p[s])
    BY <1>3
  <2> QED BY <2>1, <2>2, <2>3, <1>3 DEF Part
<1>5. NeedsReset(p) /\ (a.kind # "steal" => Resets(p))
  <2>1. \A s \in 1 .. Len(p) : p[s].kind = "steal" => s = 1 /\ a.kind = "steal"
    BY <1>3
  <2> QED BY <2>1 DEF NeedsReset, Resets
<1> QED BY <1>3, <1>4, <1>5 DEF Block, EndsInBar

LEMMA WithBar ==
  ASSUME NEW a, NEW b, WellCut(a), WellCut(b), a.kind # "steal", b.kind = "barrier"
  PROVE  Block(<<a, b>>)
<1>1. Agree(a, b)
  BY AgreeIdle
<1> QED BY <1>1, TwoSteps

LEMMA ResetAndBar ==
  ASSUME NEW a, NEW b, WellCut(a), WellCut(b), a.kind = "reset", b.kind = "barrier"
  PROVE  Block(<<a, b>>) /\ Ready(<<a, b>>)
<1>1. Block(<<a, b>>)
  BY WithBar
<1>2. /\ Len(<<a, b>>) = 2 /\ <<a, b>>[1] = a /\ <<a, b>>[2] = b
  OBVIOUS
<1>3. ResetFor(<<a, b>>, 1, 3)
  BY <1>2 DEF ResetFor
<1> QED BY <1>1, <1>2, <1>3 DEF Ready

LEMMA BlockJoin ==
  ASSUME NEW p, NEW q, Block(p), Block(q)
  PROVE  /\ Block(p \o q) /\ (Ready(q) => Ready(p \o q))
<1>1. IsSeq(p) /\ IsSeq(q)
  BY DEF Block, Part
<1>2. Part(p \o q)
  BY <1>1, FitEnds, JoinParts DEF Block
<1>3. Resets(p \o q)
  BY <1>1, JoinResets DEF Block
<1>4. EndsInBar(p \o q) /\ (Ready(q) => Ready(p \o q))
  BY <1>1, JoinEnds DEF Block
<1> QED BY <1>2, <1>3, <1>4 DEF Block

\* What steals first goes on where the counter has been reset.
LEMMA StealJoin ==
  ASSUME NEW p, NEW q, Block(p), Ready(p), Part(q), NeedsReset(q), EndsInBar(q)
  PROVE  Block(p \o q)
<1>1. IsSeq(p) /\ IsSeq(q)
  BY DEF Block, Part
<1>2. Part(p \o q)
  BY <1>1, FitEnds, JoinParts DEF Block
<1>3. Resets(p \o q)
  BY <1>1, JoinResets DEF Block
<1>4. EndsInBar(p \o q)
  BY <1>1, JoinEnds DEF Block
<1> QED BY <1>2, <1>3, <1>4 DEF Block

LEMMA Closing ==
  ASSUME NEW p, NEW b, Part(p), WellCut(b), b.kind = "barrier"
  PROVE  /\ Part(p \o <<b>>) /\ EndsInBar(p \o <<b>>)
         /\ Resets(p) => Block(p \o <<b>>)
         /\ NeedsReset(p) => NeedsReset(p \o <<b>>)
<1>1. IsSeq(p) /\ IsSeq(<<b>>) /\ Part(<<b>>) /\ Block(<<b>>) /\ Len(<<b>>) = 1 /\ <<b>>[1] = b
  BY OneStep DEF Part
<1>2. Part(p \o <<b>>)
  <2>1. Fit(p, <<b>>)
    BY <1>1, FitStarts
  <2> QED BY <2>1, <1>1, JoinParts
<1>3. EndsInBar(p \o <<b>>)
  BY <1>1, JoinEnds DEF Block
<1>4. Resets(p) => Resets(p \o <<b>>)
  BY <1>1, JoinResets DEF Block
<1>5. ASSUME NeedsReset(p) PROVE NeedsReset(p \o <<b>>)
  <2> DEFINE j == p \o <<b>>
  <2>1. /\ Len(j) = Len(p) + 1 /\ Len(p) \in Nat
        /\ \A i \in 1 .. Len(p) : j[i] = p[i]
        /\ j[Len(p) + 1] = b
    BY <1>1, Joined, SeqFacts
  <2> HIDE DEF j
  <2> SUFFICES ASSUME NEW s \in 1 .. Len(j), j[s].kind = "steal"
               PROVE  (\E r \in 1 .. s - 1 : ResetFor(j, r, s))
                        \/ (\A k \in 1 .. s - 1 : j[k].kind # "steal")
    BY DEF NeedsReset, j
  <2>2. s \in 1 .. Len(p) /\ p[s].kind = "steal"
    BY <2>1
  <2>3. CASE \E r \in 1 .. s - 1 : ResetFor(p, r, s)
    <3>1. PICK r \in 1 .. s - 1 : ResetFor(p, r, s)
      BY <2>3
    <3>2. r \in 1 .. Len(p) /\ s \in 1 .. Len(p) + 1
      BY <2>1, <2>2
    <3> QED BY <3>1, <3>2, <1>1, ResetEarlier DEF j
  <2>4. CASE \A k \in 1 .. s - 1 : p[k].kind # "steal"
    BY <2>1, <2>2, <2>4
  <2> QED BY <2>2, <2>3, <2>4, <1>5 DEF NeedsReset
<1> QED BY <1>2, <1>3, <1>4, <1>5 DEF Block

-----------------------------------------------------------------------------
(* The cells of the buffers, and the steps on them.                        *)

LEMMA PairsApart ==
  ASSUME NEW A, NEW B
  PROVE  /\ \A i, j : i # j => BlockOf(A, i) \cap BlockOf(B, j) = {}
         /\ A \cap B = {} => /\ \A i : BlockOf(A, i) \cap AllOf(B) = {}
                             /\ AllOf(A) \cap AllOf(B) = {}
                             /\ \A i, j : BlockOf(A, i) \cap BlockOf(B, j) = {}
BY DEF BlockOf, AllOf

LEMMA TriplesApart ==
  ASSUME NEW A, NEW B
  PROVE  /\ \A S, T : S \cap T = {} => /\ Rows(A, S) \cap Rows(B, T) = {}
                                       /\ \A i, j : Column(A, S, i) \cap Column(B, T, j) = {}
         /\ \A S, T, i, j : i # j => Column(A, S, i) \cap Column(B, T, j) = {}
         /\ A \cap B = {} => /\ \A S, T, i : Column(A, S, i) \cap Rows(B, T) = {}
                             /\ \A S, T : AllOf(A) \cap Rows(B, S) = {}
                             /\ \A S, T, i, j : Column(A, S, i) \cap Column(B, T, j) = {}
<1>1. \A S, T : S \cap T = {} => /\ Rows(A, S) \cap Rows(B, T) = {}
                                 /\ \A i, j : Column(A, S, i) \cap Column(B, T, j) = {}
  BY DEF Rows, Column
<1>2. \A S, T, i, j : i # j => Column(A, S, i) \cap Column(B, T, j) = {}
  BY DEF Column
<1>3. A \cap B = {} => \A S, T, i : Column(A, S, i) \cap Rows(B, T) = {}
  BY DEF Rows, Column
<1>4. A \cap B = {} => \A S, T : AllOf(A) \cap Rows(B, S) = {}
  BY DEF Rows, AllOf
<1>5. A \cap B = {} => \A S, T, i, j : Column(A, S, i) \cap Column(B, T, j) = {}
  BY DEF Column
<1> QED BY <1>1, <1>2, <1>3, <1>4, <1>5

LEMMA Bare == WellCut(Reset) /\ Reset.kind = "reset" /\ WellCut(Bar) /\ Bar.kind = "barrier"
BY DEF WellCut, Reset, Bar, Step, Kinds

LEMMA AloneCut ==
  ASSUME NEW reads, NEW writes
  PROVE  /\ WellCut(Alone(reads, writes)) /\ Alone(reads, writes).kind = "alone"
         /\ WellCut(EachReads(reads)) /\ EachReads(reads).kind = "each"
         /\ Alone(reads, writes).pieces = 1 /\ Alone(reads, writes).reads[0] = reads
         /\ Alone(reads, writes).writes[0] = writes
         /\ EachReads(reads).pieces = 1 /\ EachReads(reads).reads[0] = reads
         /\ EachReads(reads).writes[0] = {}
<1>1. WellCut(Alone(reads, writes)) /\ Alone(reads, writes).kind = "alone"
  BY DEF WellCut, Alone, Step, Kinds, Computing
<1>2. WellCut(EachReads(reads)) /\ EachReads(reads).kind = "each"
  BY DEF WellCut, EachReads, Step, Kinds, Computing
<1>3. /\ Alone(reads, writes).pieces = 1 /\ Alone(reads, writes).reads[0] = reads
      /\ Alone(reads, writes).writes[0] = writes
  BY DEF Alone, Step
<1>4. /\ EachReads(reads).pieces = 1 /\ EachReads(reads).reads[0] = reads
      /\ EachReads(reads).writes[0] = {}
  BY DEF EachReads, Step
<1> QED BY <1>1, <1>2, <1>3, <1>4

LEMMA SizeNat == Size \in Nat /\ Size - 1 \in Nat /\ Size > 0
BY StepsAssumption

LEMMA SplitCut ==
  ASSUME NEW same, NEW whole, NEW out, whole \cap out = {}
  PROVE  WellCut(Split(same, whole, out)) /\ Split(same, whole, out).kind = "share"
<1> DEFINE a == Split(same, whole, out)
<1>1. /\ a.kind = "share" /\ a.pieces = Size
      /\ DOMAIN a.reads = 0 .. Size - 1 /\ DOMAIN a.writes = 0 .. Size - 1
      /\ \A i \in 0 .. Size - 1 : /\ a.reads[i] = BlockOf(same, i) \cup AllOf(whole)
                                  /\ a.writes[i] = BlockOf(out, i)
  BY DEF Split, Step
<1> HIDE DEF a
<1>2. \A i, j \in 0 .. Size - 1 : i # j =>
        a.writes[i] \cap (a.reads[j] \cup a.writes[j]) = {}
  <2> TAKE i, j \in 0 .. Size - 1
  <2> HAVE i # j
  <2>1. BlockOf(out, i) \cap BlockOf(same, j) = {} /\ BlockOf(out, i) \cap BlockOf(out, j) = {}
    BY PairsApart
  <2>2. BlockOf(out, i) \cap AllOf(whole) = {}
    BY PairsApart
  <2> QED BY <2>1, <2>2, <1>1
<1>3. WellCut(a)
  BY <1>1, <1>2, SizeNat DEF WellCut, Kinds, Computing
<1> QED BY <1>1, <1>3 DEF a

LEMMA TilesPart ==
  ASSUME NEW in, NEW out, in \notin out
  PROVE  Part(Tiles(in, out)) /\ NeedsReset(Tiles(in, out))
<1> DEFINE a == Step("steal", Size, LAMBDA i : AllOf({in}), LAMBDA i : BlockOf(out, i))
<1>1. /\ a.kind = "steal" /\ a.pieces = Size
      /\ DOMAIN a.reads = 0 .. Size - 1 /\ DOMAIN a.writes = 0 .. Size - 1
      /\ \A i \in 0 .. Size - 1 : a.reads[i] = AllOf({in}) /\ a.writes[i] = BlockOf(out, i)
  BY DEF Step
<1>2. Tiles(in, out) = <<a>>
  BY DEF Tiles
<1> HIDE DEF a
<1>3. \A i, j \in 0 .. Size - 1 : i # j =>
        a.writes[i] \cap (a.reads[j] \cup a.writes[j]) = {}
  <2> TAKE i, j \in 0 .. Size - 1
  <2> HAVE i # j
  <2>1. BlockOf(out, i) \cap BlockOf(out, j) = {}
    BY PairsApart
  <2>2. BlockOf(out, i) \cap AllOf({in}) = {}
    <3>1. out \cap {in} = {}
      OBVIOUS
    <3> QED BY <3>1, PairsApart
  <2> QED BY <2>1, <2>2, <1>1
<1>4. WellCut(a)
  BY <1>1, <1>3, SizeNat DEF WellCut, Kinds, Computing
<1> QED BY <1>2, <1>4, OneStep

LEMMA QuadsPart ==
  ASSUME NEW in, NEW out, in \notin out
  PROVE  Part(Quads(in, out)) /\ NeedsReset(Quads(in, out))
<1> DEFINE a == Step("steal", Size - 1, LAMBDA i : AllOf({in}), LAMBDA i : BlockOf(out, i))
           b == Alone(AllOf({in}), BlockOf(out, Size - 1))
           n == Size - 1
<1>1. /\ a.kind = "steal" /\ a.pieces = n
      /\ DOMAIN a.reads = 0 .. n - 1 /\ DOMAIN a.writes = 0 .. n - 1
      /\ \A i \in 0 .. n - 1 : a.reads[i] = AllOf({in}) /\ a.writes[i] = BlockOf(out, i)
  BY DEF Step
<1>2. Quads(in, out) = <<a, b>>
  BY DEF Quads
<1>3. /\ WellCut(b) /\ b.kind = "alone" /\ b.pieces = 1
      /\ b.reads[0] = AllOf({in}) /\ b.writes[0] = BlockOf(out, n)
  BY AloneCut
<1>4. n \in Nat
  BY SizeNat
<1> HIDE DEF a, b, n
<1>5. \A i, j \in 0 .. n - 1 : i # j =>
        a.writes[i] \cap (a.reads[j] \cup a.writes[j]) = {}
  <2> TAKE i, j \in 0 .. n - 1
  <2> HAVE i # j
  <2>1. BlockOf(out, i) \cap BlockOf(out, j) = {}
    BY PairsApart
  <2>2. BlockOf(out, i) \cap AllOf({in}) = {}
    <3>1. out \cap {in} = {}
      OBVIOUS
    <3> QED BY <3>1, PairsApart
  <2> QED BY <2>1, <2>2, <1>1
<1>6. WellCut(a)
  BY <1>1, <1>4, <1>5 DEF WellCut, Kinds, Computing
<1>7. Apart(a, b)
  <2> SUFFICES ASSUME NEW i \in 0 .. n - 1
               PROVE  /\ a.writes[i] \cap b.reads[0] = {}
                      /\ a.writes[i] \cap b.writes[0] = {}
                      /\ a.reads[i] \cap b.writes[0] = {}
    BY <1>1, <1>3 DEF Apart
  <2>1. i # n
    BY <1>4
  <2>2. /\ BlockOf(out, i) \cap AllOf({in}) = {} /\ BlockOf(out, n) \cap AllOf({in}) = {}
        /\ BlockOf(out, i) \cap BlockOf(out, n) = {}
    BY <2>1, PairsApart
  <2> QED BY <2>2, <1>1, <1>3
<1>8. Agree(a, b)
  BY <1>1, <1>3, <1>7 DEF Agree, UsesChunk
<1> QED BY <1>1, <1>2, <1>3, <1>6, <1>8, TwoSteps

LEMMA MatVecBlock ==
  ASSUME NEW packed \in BOOLEAN, NEW in, NEW out, in \notin out
  PROVE  Block(MatVec(packed, in, out))
<1> DEFINE M == IF packed THEN Tiles(in, out) ELSE Quads(in, out)
<1>1. Part(M) /\ NeedsReset(M)
  BY TilesPart, QuadsPart
<1>2. Block(<<Reset, Bar>>) /\ Ready(<<Reset, Bar>>)
  BY Bare, ResetAndBar
<1>3. MatVec(packed, in, out) = (<<Reset, Bar>> \o M) \o <<Bar>>
  BY DEF MatVec
<1> HIDE DEF M
<1>4. IsSeq(<<Reset, Bar>>) /\ IsSeq(M)
  BY <1>1, <1>2 DEF Block, Part
<1>5. Part(<<Reset, Bar>> \o M)
  BY <1>1, <1>2, <1>4, FitEnds, JoinParts DEF Block
<1>6. Resets(<<Reset, Bar>> \o M)
  BY <1>1, <1>2, <1>4, JoinResets DEF Block
<1> QED BY <1>3, <1>5, <1>6, Closing, Bare

-----------------------------------------------------------------------------
(* One layer after another.                                                *)

\* A function that is defined by recursion over the layers exists.
LEMMA ChainExists ==
  ASSUME NEW N \in Nat, NEW L
  PROVE  \E f : f = [n \in 0 .. N |-> IF n = 0 THEN << >> ELSE f[n - 1] \o L[n]]
<1> DEFINE Has(m) == \E f : f = [n \in 0 .. m |-> IF n = 0 THEN << >> ELSE f[n - 1] \o L[n]]
           T == {m \in 0 .. N : ~Has(m)}
<1>1. Has(0)
  <2>1. [n \in 0 .. 0 |-> << >>] = [n \in 0 .. 0 |->
          IF n = 0 THEN << >> ELSE [k \in 0 .. 0 |-> << >>][n - 1] \o L[n]]
    OBVIOUS
  <2> QED BY <2>1
<1>2. ASSUME NEW m \in Nat, Has(m) PROVE Has(m + 1)
  <2>1. PICK f : f = [n \in 0 .. m |-> IF n = 0 THEN << >> ELSE f[n - 1] \o L[n]]
    BY <1>2
  <2> DEFINE g == [n \in 0 .. m + 1 |-> IF n = m + 1 THEN f[m] \o L[n] ELSE f[n]]
  <2>2. \A n \in 0 .. m : f[n] = IF n = 0 THEN << >> ELSE f[n - 1] \o L[n]
    BY <2>1
  <2>3. \A n \in 0 .. m + 1 : g[n] = IF n = m + 1 THEN f[m] \o L[n] ELSE f[n]
    OBVIOUS
  <2>4. g = [n \in 0 .. m + 1 |-> g[n]]
    OBVIOUS
  <2> HIDE DEF g
  <2>5. ASSUME NEW n \in 0 .. m + 1
        PROVE  g[n] = IF n = 0 THEN << >> ELSE g[n - 1] \o L[n]
    <3>1. CASE n = m + 1
      <4>1. g[n - 1] = f[m] /\ n # 0
        BY <3>1, <2>3
      <4> QED BY <4>1, <3>1, <2>3
    <3>2. CASE n # m + 1
      <4>1. n \in 0 .. m /\ (n # 0 => n - 1 \in 0 .. m + 1 /\ n - 1 # m + 1)
        BY <3>2
      <4>2. g[n] = f[n] /\ (n # 0 => g[n - 1] = f[n - 1])
        BY <4>1, <3>2, <2>3
      <4> QED BY <4>1, <4>2, <2>2
    <3> QED BY <3>1, <3>2
  <2>6. g = [n \in 0 .. m + 1 |-> IF n = 0 THEN << >> ELSE g[n - 1] \o L[n]]
    BY <2>4, <2>5
  <2> QED BY <2>6
<1> HIDE DEF Has
<1>3. ASSUME T # {} PROVE FALSE
  <2>1. PICK m \in T : \A k \in T : m <= k
    <3>1. T \in SUBSET Nat
      OBVIOUS
    <3> QED BY <3>1, <1>3, Least
  <2>2. m # 0 /\ m - 1 \in 0 .. N /\ m - 1 \notin T /\ m - 1 \in Nat /\ m \in Nat
    BY <2>1, <1>1
  <2>3. Has(m - 1)
    BY <2>2
  <2>4. Has((m - 1) + 1)
    BY <2>2, <2>3, <1>2
  <2>5. (m - 1) + 1 = m
    BY <2>2
  <2> QED BY <2>1, <2>4, <2>5
<1>4. Has(N)
  BY <1>3
<1> QED BY <1>4 DEF Has

LEMMA ChainIsBlock ==
  ASSUME NEW N \in Nat \ {0}, NEW L, \A n \in 1 .. N : Block(L[n]),
         NEW f, f = [n \in 0 .. N |-> IF n = 0 THEN << >> ELSE f[n - 1] \o L[n]]
  PROVE  /\ Block(f[N])
         /\ Len(L[1]) > 1 => Len(f[N]) > 1 /\ f[N][1] = L[1][1] /\ f[N][2] = L[1][2]
<1> DEFINE Ok(m) ==
             /\ Block(f[m])
             /\ Len(L[1]) > 1 => Len(f[m]) > 1 /\ f[m][1] = L[1][1] /\ f[m][2] = L[1][2]
           T == {m \in 1 .. N : ~Ok(m)}
<1>1. \A n \in 0 .. N : f[n] = IF n = 0 THEN << >> ELSE f[n - 1] \o L[n]
  OBVIOUS
<1>2. \A n \in 1 .. N : IsSeq(L[n])
  BY DEF Block, Part
<1>3. Ok(1)
  <2>1. f[1] = << >> \o L[1]
    BY <1>1
  <2>2. f[1] = L[1]
    BY <2>1, <1>2, JoinedEmpty
  <2> QED BY <2>2
<1>4. ASSUME NEW m \in 1 .. N - 1, Ok(m) PROVE Ok(m + 1)
  <2>1. f[m + 1] = f[m] \o L[m + 1] /\ m + 1 \in 1 .. N
    BY <1>1
  <2>2. Block(f[m + 1])
    BY <2>1, <1>4, BlockJoin
  <2>3. ASSUME Len(L[1]) > 1
        PROVE  Len(f[m + 1]) > 1 /\ f[m + 1][1] = L[1][1] /\ f[m + 1][2] = L[1][2]
    <3>1. IsSeq(f[m]) /\ IsSeq(L[m + 1])
      BY <2>1, <1>2, <1>4 DEF Block, Part
    <3>2. Len(f[m]) \in Nat /\ Len(L[m + 1]) \in Nat
      BY <3>1, SeqFacts
    <3>3. /\ Len(f[m + 1]) = Len(f[m]) + Len(L[m + 1])
          /\ \A i \in 1 .. Len(f[m]) : f[m + 1][i] = f[m][i]
      <4>1. PICK p, q : p = f[m] /\ q = L[m + 1]
        OBVIOUS
      <4>2. IsSeq(p) /\ IsSeq(q) /\ f[m + 1] = p \o q
        BY <2>1, <3>1, <4>1
      <4>3. Len(p \o q) = Len(p) + Len(q) /\ \A i \in 1 .. Len(p) : (p \o q)[i] = p[i]
        BY <4>2, Joined
      <4> QED BY <4>1, <4>2, <4>3, Zenon
    <3>4. Len(f[m]) > 1 /\ f[m][1] = L[1][1] /\ f[m][2] = L[1][2]
      BY <2>3, <1>4
    <3>5. \A a, b \in Nat : a > 1 => 1 \in 1 .. a /\ 2 \in 1 .. a /\ a + b > 1
      OBVIOUS
    <3>6. 1 \in 1 .. Len(f[m]) /\ 2 \in 1 .. Len(f[m]) /\ Len(f[m]) + Len(L[m + 1]) > 1
      BY <3>2, <3>4, <3>5, Zenon
    <3>7. f[m + 1][1] = f[m][1] /\ f[m + 1][2] = f[m][2]
      BY <3>3, <3>6
    <3>8. Len(f[m + 1]) > 1
      BY <3>3, <3>6, Zenon
    <3> QED BY <3>4, <3>7, <3>8, Zenon
  <2> QED BY <2>2, <2>3
<1> HIDE DEF Ok
<1>5. ASSUME T # {} PROVE FALSE
  <2>1. PICK m \in T : \A k \in T : m <= k
    <3>1. T \in SUBSET Nat
      OBVIOUS
    <3> QED BY <3>1, <1>5, Least
  <2>2. m # 1 /\ m - 1 \in 1 .. N - 1 /\ m - 1 \notin T /\ (m - 1) + 1 = m
    BY <2>1, <1>3
  <2>3. Ok(m - 1)
    BY <2>2
  <2>4. Ok((m - 1) + 1)
    BY <2>2, <2>3, <1>4
  <2> QED BY <2>1, <2>2, <2>4
<1>6. Ok(N)
  BY <1>5
<1> QED BY <1>6 DEF Ok

LEMMA HasLayers ==
  /\ Len(Stack) \in Nat \ {0}
  /\ \A n \in 1 .. Len(Stack) :
       Stack[n] \in [kv : BOOLEAN, dual : BOOLEAN, packed : BOOLEAN, ple : BOOLEAN]
<1> DEFINE R == [kv : BOOLEAN, dual : BOOLEAN, packed : BOOLEAN, ple : BOOLEAN]
<1>1. Stack \in Seq(R) /\ Stack # << >>
  BY StepsAssumption
<1> HIDE DEF R
<1>2. Len(Stack) \in Nat /\ \A n \in 1 .. Len(Stack) : Stack[n] \in R
  BY <1>1
<1>3. Len(Stack) # 0
  BY <1>1, EmptySeq
<1> QED BY <1>2, <1>3 DEF R

-----------------------------------------------------------------------------
(* The forward pass of one token.                                          *)

LEMMA VectorsBlock ==
  ASSUME NEW reads, NEW writes
  PROVE  Block(<<Vectors(reads, writes), Bar>>)
BY AloneCut, Bare, WithBar DEF Vectors

LEMMA SplitBlock ==
  ASSUME NEW same, NEW whole, NEW out, whole \cap out = {}
  PROVE  Block(<<Split(same, whole, out), Bar>>)
BY SplitCut, Bare, WithBar

LEMMA QuantizeBlock ==
  ASSUME NEW src
  PROVE  Block(Quantize(src))
BY SplitBlock DEF Quantize

LEMMA QueriesBlock ==
  ASSUME NEW packed \in BOOLEAN
  PROVE  Block(Queries(packed))
<1>1. Block(MatVec(packed, "q8", {"q"}))
  BY MatVecBlock
<1> QED BY <1>1, VectorsBlock, QuantizeBlock, BlockJoin DEF Queries

LEMMA KeysAndValuesBlock ==
  ASSUME NEW packed \in BOOLEAN
  PROVE  Block(KeysAndValues(packed))
<1>1. Block(MatVec(packed, "q8", {"k"})) /\ Block(MatVec(packed, "q8", {"v"}))
  BY MatVecBlock
<1> QED BY <1>1, VectorsBlock, BlockJoin DEF KeysAndValues

LEMMA AttentionBlock ==
  ASSUME NEW packed \in BOOLEAN
  PROVE  Block(Attention(packed))
<1>1. Block(MatVec(packed, "q8", {"wo_out"}))
  BY MatVecBlock
<1>2. Block(<<Split({"q"}, {"kv", "pos"}, {"attn_out"}), Bar>>)
  BY SplitBlock
<1> QED BY <1>1, <1>2, VectorsBlock, QuantizeBlock, BlockJoin DEF Attention

LEMMA FeedForwardBlock ==
  ASSUME NEW packed \in BOOLEAN, NEW dual \in BOOLEAN
  PROVE  Block(FeedForward(packed, dual))
<1>1. /\ Block(MatVec(packed, "q8", {"gate", "up"})) /\ Block(MatVec(packed, "q8", {"gate"}))
      /\ Block(MatVec(packed, "q8", {"up"})) /\ Block(MatVec(packed, "ffn_q8", {"down"}))
  BY MatVecBlock
<1>2. Block(GateAndUp(packed, dual))
  BY <1>1, BlockJoin DEF GateAndUp
<1>3. Block(<<Split({"gate", "up"}, {}, {"gate", "ffn_q8"}), Bar>>)
  BY SplitBlock
<1> QED BY <1>1, <1>2, <1>3, QuantizeBlock, BlockJoin DEF FeedForward

LEMMA LayerBlock ==
  ASSUME NEW l \in [kv : BOOLEAN, dual : BOOLEAN, packed : BOOLEAN, ple : BOOLEAN]
  PROVE  Block(Layer(l))
<1>1. l.kv \in BOOLEAN /\ l.dual \in BOOLEAN /\ l.packed \in BOOLEAN
  OBVIOUS
<1>2. Block(Queries(l.packed)) /\ Block(Attention(l.packed)) /\ Block(FeedForward(l.packed, l.dual))
  BY <1>1, QueriesBlock, AttentionBlock, FeedForwardBlock
<1>3. Block(LayerOutput(l.ple))
  BY VectorsBlock DEF LayerOutput
<1>4. Block(Queries(l.packed) \o (IF l.kv THEN KeysAndValues(l.packed) ELSE << >>))
  <2>1. CASE l.kv
    BY <2>1, <1>1, <1>2, KeysAndValuesBlock, BlockJoin
  <2>2. CASE ~l.kv
    <3>1. Queries(l.packed) \o << >> = Queries(l.packed)
      BY <1>2, JoinedEmpty DEF Block, Part
    <3> QED BY <3>1, <2>2, <1>2
  <2> QED BY <2>1, <2>2
<1> QED BY <1>2, <1>3, <1>4, BlockJoin DEF Layer

LEMMA AllLayersBlock == Block(AllLayers)
<1> DEFINE L == [n \in 1 .. Len(Stack) |-> Layer(Stack[n])]
           f == LayersTo
<1>1. \E g : g = [n \in 0 .. Len(Stack) |-> IF n = 0 THEN << >> ELSE g[n - 1] \o L[n]]
  BY HasLayers, ChainExists
<1>2. \A g : [n \in 0 .. Len(Stack) |-> IF n = 0 THEN << >> ELSE g[n - 1] \o L[n]]
           = [n \in 0 .. Len(Stack) |-> IF n = 0 THEN << >> ELSE g[n - 1] \o Layer(Stack[n])]
  BY HasLayers
<1>3. \E g : g = [n \in 0 .. Len(Stack) |->
                    IF n = 0 THEN << >> ELSE g[n - 1] \o Layer(Stack[n])]
  BY <1>1, <1>2
<1>4. f = [n \in 0 .. Len(Stack) |-> IF n = 0 THEN << >> ELSE f[n - 1] \o Layer(Stack[n])]
  BY <1>3 DEF LayersTo
<1>5. f = [n \in 0 .. Len(Stack) |-> IF n = 0 THEN << >> ELSE f[n - 1] \o L[n]]
  BY <1>2, <1>4
<1>6. \A n \in 1 .. Len(Stack) : Block(L[n])
  BY HasLayers, LayerBlock
<1> HIDE DEF L, f
<1>7. Block(f[Len(Stack)])
  BY <1>5, <1>6, HasLayers, ChainIsBlock
<1> QED BY <1>7 DEF AllLayers, f

LEMMA OneTokenSound == Sound(OneToken)
<1>1. Block(Embed)
  <2> DEFINE a == EachReads(AllOf({"pos"}))
             b == Vectors({}, {"x", "ple"})
  <2>1. /\ WellCut(a) /\ a.kind = "each" /\ a.pieces = 1
        /\ a.reads[0] = AllOf({"pos"}) /\ a.writes[0] = {}
        /\ WellCut(b) /\ b.kind = "alone" /\ b.pieces = 1
        /\ b.reads[0] = AllOf({}) /\ b.writes[0] = AllOf({"x", "ple"})
    BY AloneCut DEF Vectors
  <2>2. AllOf({"pos"}) \cap AllOf({"x", "ple"}) = {}
    BY PairsApart
  <2> HIDE DEF a, b
  <2>3. Agree(a, b)
    BY <2>1, <2>2 DEF Agree, Apart, UsesChunk
  <2>4. Part(<<a, b>>) /\ Resets(<<a, b>>)
    BY <2>1, <2>3, TwoSteps
  <2>5. Block(<<a, b>> \o <<Bar>>)
    BY <2>4, Bare, Closing
  <2>6. <<a, b>> \o <<Bar>> = <<a, b, Bar>>
    <3>1. /\ <<a, b>> \in Seq({a, b, Bar}) /\ <<Bar>> \in Seq({a, b, Bar})
          /\ <<a, b, Bar>> \in Seq({a, b, Bar})
      OBVIOUS
    <3>2. /\ <<a, b>> \o <<Bar>> \in Seq({a, b, Bar}) /\ Len(<<a, b>> \o <<Bar>>) = 3
          /\ Len(<<a, b, Bar>>) = 3
          /\ \A i \in 1 .. 3 : (<<a, b>> \o <<Bar>>)[i] = <<a, b, Bar>>[i]
      BY <3>1
    <3> QED BY <3>1, <3>2, SeqEqual
  <2> QED BY <2>5, <2>6 DEF Embed, a, b
<1>2. Block(Logits)
  BY MatVecBlock, VectorsBlock, BlockJoin DEF Logits
<1>3. Block(OneToken)
  BY <1>1, <1>2, AllLayersBlock, BlockJoin DEF OneToken
<1> QED BY <1>3, PartIsSound DEF Block, EndsInBar

-----------------------------------------------------------------------------
(* The steps of the forward pass of a batch.                               *)

LEMMA FourTuple ==
  ASSUME NEW a, NEW b, NEW c, NEW d
  PROVE  <<a, b>> \o <<c, d>> = <<a, b, c, d>>
<1> DEFINE S == {a, b, c, d}
<1>1. /\ <<a, b>> \in Seq(S) /\ <<c, d>> \in Seq(S) /\ <<a, b, c, d>> \in Seq(S)
      /\ Len(<<a, b, c, d>>) = 4
  OBVIOUS
<1>2. /\ <<a, b>> \o <<c, d>> \in Seq(S) /\ Len(<<a, b>> \o <<c, d>>) = 4
      /\ \A i \in 1 .. 4 : (<<a, b>> \o <<c, d>>)[i] = <<a, b, c, d>>[i]
  BY <1>1
<1> QED BY <1>1, <1>2, SeqEqual

LEMMA Tuples ==
  ASSUME NEW a, NEW b, NEW c, NEW d
  PROVE  /\ <<a>> \o <<b, c>> = <<a, b, c>>
         /\ <<a, b>> \o <<c>> = <<a, b, c>>
         /\ <<a, b>> \o <<c, d>> = <<a, b, c, d>>
<1> DEFINE S == {a, b, c, d}
<1>1. <<a>> \o <<b, c>> = <<a, b, c>>
  <2>1. /\ <<a>> \in Seq(S) /\ <<b, c>> \in Seq(S) /\ <<a, b, c>> \in Seq(S)
        /\ Len(<<a, b, c>>) = 3
    OBVIOUS
  <2>2. /\ <<a>> \o <<b, c>> \in Seq(S) /\ Len(<<a>> \o <<b, c>>) = 3
        /\ \A i \in 1 .. 3 : (<<a>> \o <<b, c>>)[i] = <<a, b, c>>[i]
    BY <2>1
  <2> QED BY <2>1, <2>2, SeqEqual
<1>2. <<a, b>> \o <<c>> = <<a, b, c>>
  <2>1. /\ <<a, b>> \in Seq(S) /\ <<c>> \in Seq(S) /\ <<a, b, c>> \in Seq(S)
        /\ Len(<<a, b, c>>) = 3
    OBVIOUS
  <2>2. /\ <<a, b>> \o <<c>> \in Seq(S) /\ Len(<<a, b>> \o <<c>>) = 3
        /\ \A i \in 1 .. 3 : (<<a, b>> \o <<c>>)[i] = <<a, b, c>>[i]
    BY <2>1
  <2> QED BY <2>1, <2>2, SeqEqual
<1>3. <<a, b>> \o <<c, d>> = <<a, b, c, d>>
  BY FourTuple, Zenon
<1> QED BY <1>1, <1>2, <1>3

LEMMA FiveTuple ==
  ASSUME NEW a, NEW b, NEW c, NEW d, NEW e
  PROVE  <<a, b>> \o <<c, d, e>> = <<a, b, c, d, e>>
<1> DEFINE S == {a, b, c, d, e}
<1>1. /\ <<a, b>> \in Seq(S) /\ <<c, d, e>> \in Seq(S) /\ <<a, b, c, d, e>> \in Seq(S)
      /\ Len(<<a, b, c, d, e>>) = 5
  OBVIOUS
<1>2. /\ <<a, b>> \o <<c, d, e>> \in Seq(S) /\ Len(<<a, b>> \o <<c, d, e>>) = 5
      /\ \A i \in 1 .. 5 : (<<a, b>> \o <<c, d, e>>)[i] = <<a, b, c, d, e>>[i]
  BY <1>1
<1> QED BY <1>1, <1>2, SeqEqual

LEMMA FiveSteps ==
  ASSUME NEW a, NEW b, NEW c, NEW d, NEW e
  PROVE  <<a, b, c, d>> \o <<e>> = <<a, b, c, d, e>>
<1> DEFINE S == {a, b, c, d, e}
<1>1. /\ <<a, b, c, d>> \in Seq(S) /\ <<e>> \in Seq(S) /\ <<a, b, c, d, e>> \in Seq(S)
      /\ Len(<<a, b, c, d, e>>) = 5
  OBVIOUS
<1>2. /\ <<a, b, c, d>> \o <<e>> \in Seq(S) /\ Len(<<a, b, c, d>> \o <<e>>) = 5
      /\ \A i \in 1 .. 5 : (<<a, b, c, d>> \o <<e>>)[i] = <<a, b, c, d, e>>[i]
  BY <1>1
<1> QED BY <1>1, <1>2, SeqEqual

LEMMA BatchNumbers ==
  /\ NTokens \in Nat /\ NTokens > 0 /\ Group \in Nat /\ Group > 0 /\ TokChunk \in Nat /\ TokChunk > 0
  /\ NPad \in Nat /\ NPad \div Group \in Nat /\ RoundedUp(NTokens, TokChunk) \in Nat
<1>1. /\ NTokens \in Nat /\ NTokens > 0 /\ Group \in Nat /\ Group > 0
      /\ TokChunk \in Nat /\ TokChunk > 0
  BY BatchAssumption
<1>2. RoundedUp(NTokens, Group) \in Nat
  <2>1. NTokens + Group - 1 \in Nat
    BY <1>1
  <2> QED BY <2>1, <1>1, Division DEF RoundedUp
<1>3. RoundedUp(NTokens, TokChunk) \in Nat
  <2>1. NTokens + TokChunk - 1 \in Nat
    BY <1>1
  <2> QED BY <2>1, <1>1, Division DEF RoundedUp
<1>4. NPad \in Nat
  BY <1>1, <1>2 DEF NPad
<1>5. NPad \div Group \in Nat
  BY <1>1, <1>4, Division
<1> QED BY <1>1, <1>3, <1>4, <1>5

LEMMA ByTokenCut ==
  ASSUME NEW kind \in {"share", "stride"}, NEW in, NEW out
  PROVE  WellCut(ByToken(kind, in, out)) /\ ByToken(kind, in, out).kind = kind
<1> DEFINE a == ByToken(kind, in, out)
<1>1. /\ a.kind = kind /\ a.pieces = NTokens
      /\ DOMAIN a.reads = 0 .. NTokens - 1 /\ DOMAIN a.writes = 0 .. NTokens - 1
      /\ \A i \in 0 .. NTokens - 1 : a.reads[i] = Rows(in, {i}) /\ a.writes[i] = Rows(out, {i})
  BY DEF ByToken, Step
<1> HIDE DEF a
<1>2. \A i, j \in 0 .. NTokens - 1 : i # j =>
        a.writes[i] \cap (a.reads[j] \cup a.writes[j]) = {}
  <2> TAKE i, j \in 0 .. NTokens - 1
  <2> HAVE i # j
  <2>1. {i} \cap {j} = {}
    OBVIOUS
  <2>2. Rows(out, {i}) \cap Rows(in, {j}) = {} /\ Rows(out, {i}) \cap Rows(out, {j}) = {}
    BY <2>1, TriplesApart
  <2> QED BY <2>2, <1>1
<1>3. WellCut(a)
  BY <1>1, <1>2, BatchNumbers DEF WellCut, Kinds, Computing
<1> QED BY <1>1, <1>3 DEF a

LEMMA QuantizeBatchCut ==
  ASSUME NEW src, NEW q8
  PROVE  WellCut(QuantizeBatch(src, q8)) /\ QuantizeBatch(src, q8).kind = "stride"
<1> DEFINE a == QuantizeBatch(src, q8)
<1>1. /\ a.kind = "stride" /\ a.pieces = NPad
      /\ DOMAIN a.reads = 0 .. NPad - 1 /\ DOMAIN a.writes = 0 .. NPad - 1
      /\ \A i \in 0 .. NPad - 1 : a.reads[i] = Rows({src}, {i} \cap Tokens)
                                    /\ a.writes[i] = Rows({q8}, {i})
  BY DEF QuantizeBatch, Step
<1> HIDE DEF a
<1>2. \A i, j \in 0 .. NPad - 1 : i # j =>
        a.writes[i] \cap (a.reads[j] \cup a.writes[j]) = {}
  <2> TAKE i, j \in 0 .. NPad - 1
  <2> HAVE i # j
  <2>1. {i} \cap {j} = {} /\ {i} \cap ({j} \cap Tokens) = {}
    OBVIOUS
  <2>2. Rows({q8}, {i}) \cap Rows({src}, {j} \cap Tokens) = {}
    BY <2>1, TriplesApart
  <2>3. Rows({q8}, {i}) \cap Rows({q8}, {j}) = {}
    BY <2>1, TriplesApart
  <2>4. /\ a.writes[i] = Rows({q8}, {i}) /\ a.writes[j] = Rows({q8}, {j})
        /\ a.reads[j] = Rows({src}, {j} \cap Tokens)
    BY <1>1
  <2>5. a.writes[i] \cap a.reads[j] = {} /\ a.writes[i] \cap a.writes[j] = {}
    BY <2>2, <2>3, <2>4, Zenon
  <2> QED BY <2>5
<1>3. WellCut(a)
  BY <1>1, <1>2, BatchNumbers DEF WellCut, Kinds, Computing
<1> QED BY <1>1, <1>3 DEF a

\* No token is in two groups.
LEMMA GroupsApart ==
  ASSUME NEW g \in Nat, NEW h \in Nat, g # h
  PROVE  Members(g) \cap Members(h) = {}
<1> SUFFICES ASSUME NEW t, t \in Members(g), t \in Members(h) PROVE FALSE
  OBVIOUS
<1>1. Group \in Nat /\ Group > 0
  BY BatchNumbers
<1>2. g * Group = Group * g /\ h * Group = Group * h /\ Group * g \in Nat /\ Group * h \in Nat
  BY <1>1
<1>3. /\ g * Group <= t /\ t <= g * Group + Group - 1 /\ t \in Int
      /\ h * Group <= t /\ t <= h * Group + Group - 1
  BY DEF Members
<1>4. t - g * Group \in 0 .. Group - 1 /\ t - h * Group \in 0 .. Group - 1
  BY <1>1, <1>2, <1>3
<1>5. Group * g + (t - g * Group) = Group * h + (t - h * Group)
  BY <1>2, <1>3
<1>6. g = h
  BY <1>1, <1>4, <1>5, DivUnique
<1> QED BY <1>6

LEMMA RepackCut ==
  ASSUME NEW q8, NEW q8_a
  PROVE  WellCut(Repack(q8, q8_a)) /\ Repack(q8, q8_a).kind = "stride"
<1> DEFINE a == Repack(q8, q8_a)
<1> PICK n : n = NPad \div Group
  OBVIOUS
<1>1. /\ a.kind = "stride" /\ a.pieces = n
      /\ DOMAIN a.reads = 0 .. n - 1 /\ DOMAIN a.writes = 0 .. n - 1
      /\ \A i \in 0 .. n - 1 : a.reads[i] = Rows({q8}, Members(i))
                                 /\ a.writes[i] = Rows({q8_a}, Members(i))
  BY DEF Repack, Step
<1> HIDE DEF a
<1>2. \A i, j \in 0 .. n - 1 : i # j =>
        a.writes[i] \cap (a.reads[j] \cup a.writes[j]) = {}
  <2> TAKE i, j \in 0 .. n - 1
  <2> HAVE i # j
  <2>1. Members(i) \cap Members(j) = {}
    BY GroupsApart
  <2>2. Rows({q8_a}, Members(i)) \cap Rows({q8}, Members(j)) = {}
    BY <2>1, TriplesApart
  <2>3. Rows({q8_a}, Members(i)) \cap Rows({q8_a}, Members(j)) = {}
    BY <2>1, TriplesApart
  <2> QED BY <2>2, <2>3, <1>1
<1>3. WellCut(a)
  BY <1>1, <1>2, BatchNumbers DEF WellCut, Kinds, Computing
<1> QED BY <1>1, <1>3 DEF a

LEMMA GemmPart ==
  ASSUME NEW q8_a, NEW out, q8_a # out
  PROVE  Part(Gemm(q8_a, out)) /\ NeedsReset(Gemm(q8_a, out))
<1> DEFINE a == Step("steal", Size, LAMBDA i : Rows({q8_a}, Padded),
                                    LAMBDA i : Column({out}, Padded, i))
<1>1. /\ a.kind = "steal" /\ a.pieces = Size
      /\ DOMAIN a.reads = 0 .. Size - 1 /\ DOMAIN a.writes = 0 .. Size - 1
      /\ \A i \in 0 .. Size - 1 : a.reads[i] = Rows({q8_a}, Padded)
                                    /\ a.writes[i] = Column({out}, Padded, i)
  BY DEF Step
<1>2. Gemm(q8_a, out) = <<a>>
  BY DEF Gemm
<1> HIDE DEF a
<1>3. \A i, j \in 0 .. Size - 1 : i # j =>
        a.writes[i] \cap (a.reads[j] \cup a.writes[j]) = {}
  <2> TAKE i, j \in 0 .. Size - 1
  <2> HAVE i # j
  <2>1. Column({out}, Padded, i) \cap Column({out}, Padded, j) = {}
    BY TriplesApart
  <2>2. Column({out}, Padded, i) \cap Rows({q8_a}, Padded) = {}
    <3>1. {out} \cap {q8_a} = {}
      OBVIOUS
    <3> QED BY <3>1, TriplesApart
  <2> QED BY <2>1, <2>2, <1>1
<1>4. WellCut(a)
  BY <1>1, <1>3, SizeNat DEF WellCut, Kinds, Computing
<1> QED BY <1>2, <1>4, OneStep

LEMMA TwoDimPart ==
  ASSUME NEW q8, NEW out, q8 # out
  PROVE  Part(TwoDim(q8, out)) /\ NeedsReset(TwoDim(q8, out))
<1> DEFINE m == Size - 1
           n == m * RoundedUp(NTokens, TokChunk)
           C(c) == {t \in Tokens : t \div TokChunk = c \div m}
           a == Step("steal", n, LAMBDA c : Rows({q8}, C(c)),
                                 LAMBDA c : Column({out}, C(c), c % m))
           b == Alone(Rows({q8}, Tokens), Column({out}, Tokens, m))
<1>1. TwoDim(q8, out) = <<a, b>>
  BY DEF TwoDim
<1>2. /\ a.kind = "steal" /\ a.pieces = n
      /\ DOMAIN a.reads = 0 .. n - 1 /\ DOMAIN a.writes = 0 .. n - 1
      /\ \A i \in 0 .. n - 1 : a.reads[i] = Rows({q8}, C(i))
                                 /\ a.writes[i] = Column({out}, C(i), i % m)
  BY DEF Step
<1>3. /\ WellCut(b) /\ b.kind = "alone" /\ b.pieces = 1
      /\ b.reads[0] = Rows({q8}, Tokens) /\ b.writes[0] = Column({out}, Tokens, m)
  BY AloneCut
<1>4. m \in Nat /\ n \in Nat
  BY SizeNat, BatchNumbers
<1>5. ASSUME NEW i \in 0 .. n - 1
      PROVE  m > 0 /\ i \in Nat /\ i % m \in 0 .. m - 1 /\ i \div m \in Nat
               /\ i = (m * (i \div m)) + (i % m)
  <2>1. i \in Nat
    BY <1>4
  <2>2. m > 0
    <3>1. ASSUME m = 0 PROVE FALSE
      <4>1. m * RoundedUp(NTokens, TokChunk) = 0
        <5>1. \A z \in Nat : 0 * z = 0
          OBVIOUS
        <5> QED BY <5>1, <3>1, BatchNumbers, Zenon
      <4> QED BY <4>1
    <3> HIDE DEF m, n
    <3> QED BY <3>1, <1>4
  <2> HIDE DEF m, n
  <2> QED BY <2>1, <2>2, <1>4, Division
<1>6. {out} \cap {q8} = {}
  OBVIOUS
<1> HIDE DEF a, b, n, m, C
<1>7. \A i, j \in 0 .. n - 1 : i # j =>
        a.writes[i] \cap (a.reads[j] \cup a.writes[j]) = {}
  <2> TAKE i, j \in 0 .. n - 1
  <2> HAVE i # j
  <2>1. i \div m # j \div m \/ i % m # j % m
    <3> SUFFICES ASSUME i \div m = j \div m, i % m = j % m PROVE FALSE
      OBVIOUS
    <3>1. i = (m * (i \div m)) + (i % m) /\ j = (m * (j \div m)) + (j % m)
      BY <1>5
    <3> QED BY <3>1, <1>4, Zenon
  <2>2. Column({out}, C(i), i % m) \cap Column({out}, C(j), j % m) = {}
    <3>1. CASE i % m # j % m
      BY <3>1, TriplesApart
    <3>2. CASE i \div m # j \div m
      <4>1. C(i) \cap C(j) = {}
        BY <3>2 DEF C
      <4> QED BY <4>1, TriplesApart
    <3> QED BY <2>1, <3>1, <3>2
  <2>3. Column({out}, C(i), i % m) \cap Rows({q8}, C(j)) = {}
    BY <1>6, TriplesApart
  <2> QED BY <2>2, <2>3, <1>2
<1>8. WellCut(a)
  BY <1>2, <1>4, <1>7 DEF WellCut, Kinds, Computing
<1>9. Apart(a, b)
  <2> SUFFICES ASSUME NEW i \in 0 .. n - 1
               PROVE  /\ a.writes[i] \cap b.reads[0] = {}
                      /\ a.writes[i] \cap b.writes[0] = {}
                      /\ a.reads[i] \cap b.writes[0] = {}
    <3>1. 0 .. b.pieces - 1 = {0} /\ 0 .. a.pieces - 1 = 0 .. n - 1
      BY <1>2, <1>3
    <3> QED BY <3>1 DEF Apart
  <2>1. i % m # m
    BY <1>4, <1>5
  <2>2. Column({out}, C(i), i % m) \cap Column({out}, Tokens, m) = {}
    BY <2>1, TriplesApart
  <2>3. Column({out}, C(i), i % m) \cap Rows({q8}, Tokens) = {}
    BY <1>6, TriplesApart
  <2>4. Column({out}, Tokens, m) \cap Rows({q8}, C(i)) = {}
    BY <1>6, TriplesApart
  <2> QED BY <2>2, <2>3, <2>4, <1>2, <1>3
<1>10. Agree(a, b)
  BY <1>2, <1>3, <1>9 DEF Agree, UsesChunk
<1> QED BY <1>1, <1>2, <1>3, <1>8, <1>10, TwoSteps

LEMMA MatMulSteals ==
  ASSUME NEW packed \in BOOLEAN, NEW q8, NEW q8_a, NEW out, q8 # out, q8_a # out
  PROVE  /\ Part(MatMul(packed, q8, q8_a, out)) /\ NeedsReset(MatMul(packed, q8, q8_a, out))
         /\ EndsInBar(MatMul(packed, q8, q8_a, out))
<1> DEFINE M == IF packed THEN Gemm(q8_a, out) ELSE TwoDim(q8, out)
<1>1. Part(M) /\ NeedsReset(M)
  BY GemmPart, TwoDimPart
<1>2. MatMul(packed, q8, q8_a, out) = M \o <<Bar>>
  BY DEF MatMul
<1> HIDE DEF M
<1> QED BY <1>1, <1>2, Bare, Closing

LEMMA PrepareBlock ==
  ASSUME NEW src, NEW q8, NEW q8_a
  PROVE  Block(Prepare(src, q8, q8_a)) /\ Ready(Prepare(src, q8, q8_a))
<1> DEFINE a == QuantizeBatch(src, q8)
           c == Repack(q8, q8_a)
<1>1. /\ WellCut(a) /\ a.kind = "stride" /\ WellCut(c) /\ c.kind = "stride"
      /\ WellCut(Reset) /\ Reset.kind = "reset" /\ WellCut(Bar) /\ Bar.kind = "barrier"
  BY QuantizeBatchCut, RepackCut, Bare
<1>2. Prepare(src, q8, q8_a) = <<a, Bar, c, Reset, Bar>>
  BY DEF Prepare
<1> HIDE DEF a, c
<1>3. Block(<<a, Bar>>) /\ Block(<<Reset, Bar>>) /\ Ready(<<Reset, Bar>>)
  BY <1>1, WithBar, ResetAndBar
<1>4. Part(<<c>>) /\ Resets(<<c>>) /\ Len(<<c>>) = 1 /\ <<c>>[1] = c
  BY <1>1, OneStep
<1>5. Fit(<<c>>, <<Reset, Bar>>)
  <2>1. Agree(c, Reset) /\ Agree(c, Bar)
    BY <1>1, AgreeIdle
  <2>2. Len(<<Reset, Bar>>) = 2 /\ <<Reset, Bar>>[1] = Reset /\ <<Reset, Bar>>[2] = Bar
    OBVIOUS
  <2> QED BY <2>1, <2>2, <1>4 DEF Fit
<1>6. IsSeq(<<c>>) /\ IsSeq(<<Reset, Bar>>)
  BY <1>3, <1>4 DEF Block, Part
<1>7. Block(<<c>> \o <<Reset, Bar>>) /\ Ready(<<c>> \o <<Reset, Bar>>)
  <2>1. Part(<<c>> \o <<Reset, Bar>>)
    BY <1>3, <1>4, <1>5, JoinParts DEF Block
  <2>2. Resets(<<c>> \o <<Reset, Bar>>)
    BY <1>3, <1>4, <1>6, JoinResets DEF Block
  <2>3. EndsInBar(<<c>> \o <<Reset, Bar>>) /\ Ready(<<c>> \o <<Reset, Bar>>)
    BY <1>3, <1>6, JoinEnds DEF Block
  <2> QED BY <2>1, <2>2, <2>3 DEF Block
<1>8. Block(<<a, Bar>> \o <<c, Reset, Bar>>) /\ Ready(<<a, Bar>> \o <<c, Reset, Bar>>)
  <2>1. <<c>> \o <<Reset, Bar>> = <<c, Reset, Bar>>
    BY Tuples
  <2> QED BY <2>1, <1>3, <1>7, BlockJoin
<1>9. <<a, Bar>> \o <<c, Reset, Bar>> = <<a, Bar, c, Reset, Bar>>
  BY FiveTuple
<1> QED BY <1>2, <1>8, <1>9

\* How a part opens, and what step it leaves after its last barrier.
Opens(p, a, b) == Len(p) > 1 /\ p[1] = a /\ p[2] = b
Leaves(p, a) == Len(p) > 1 /\ p[Len(p) - 1].kind = "barrier" /\ p[Len(p)] = a

LEMMA OpensJoin ==
  ASSUME NEW p, NEW q, IsSeq(p), IsSeq(q), NEW a, NEW b, Opens(p, a, b)
  PROVE  Opens(p \o q, a, b)
<1> DEFINE m == Len(p)
           n == Len(q)
           j == p \o q
<1>1. /\ m \in Nat /\ n \in Nat /\ Len(j) = m + n
      /\ \A i \in 1 .. m : j[i] = p[i]
  BY Joined, SeqFacts
<1>2. m > 1 /\ p[1] = a /\ p[2] = b
  BY DEF Opens
<1> HIDE DEF m, n, j
<1>3. 1 \in 1 .. m /\ 2 \in 1 .. m /\ Len(j) > 1
  BY <1>1, <1>2
<1>4. j[1] = a /\ j[2] = b
  BY <1>1, <1>2, <1>3
<1> QED BY <1>3, <1>4 DEF Opens, j

LEMMA LeavesJoin ==
  ASSUME NEW p, NEW q, IsSeq(p), IsSeq(q), NEW a, Leaves(q, a)
  PROVE  Leaves(p \o q, a)
<1> DEFINE m == Len(p)
           n == Len(q)
           j == p \o q
<1>1. /\ m \in Nat /\ n \in Nat /\ Len(j) = m + n
      /\ \A i \in 1 .. n : j[m + i] = q[i]
  BY Joined, SeqFacts
<1>2. n > 1 /\ q[n - 1].kind = "barrier" /\ q[n] = a
  BY DEF Leaves
<1> HIDE DEF m, n, j
<1>3. n \in 1 .. n /\ n - 1 \in 1 .. n /\ Len(j) > 1 /\ m + (n - 1) = Len(j) - 1
  BY <1>1, <1>2
<1>4. j[m + n] = q[n] /\ j[m + (n - 1)] = q[n - 1]
  BY <1>1, <1>3
<1>5. j[Len(j)] = a /\ j[Len(j) - 1].kind = "barrier"
  BY <1>1, <1>2, <1>3, <1>4
<1> QED BY <1>3, <1>5 DEF Leaves, j

LEMMA LeavesLast ==
  ASSUME NEW p, Block(p), NEW a, WellCut(a), a.kind # "steal"
  PROVE  Part(p \o <<a>>) /\ Resets(p \o <<a>>) /\ Leaves(p \o <<a>>, a)
<1> DEFINE m == Len(p)
           j == p \o <<a>>
<1>1. /\ IsSeq(p) /\ IsSeq(<<a>>) /\ Part(<<a>>) /\ Resets(<<a>>)
      /\ Len(<<a>>) = 1 /\ <<a>>[1] = a
  BY OneStep DEF Part, Block
<1>2. Part(j) /\ Resets(j)
  BY <1>1, FitEnds, JoinParts, JoinResets DEF Block
<1>3. /\ m \in Nat /\ Len(j) = m + 1
      /\ \A i \in 1 .. m : j[i] = p[i]
      /\ j[m + 1] = a
  BY <1>1, Joined, SeqFacts
<1>4. m > 0 /\ p[m].kind = "barrier"
  BY DEF Block, EndsInBar
<1> HIDE DEF m, j
<1>5. m \in 1 .. m /\ Len(j) - 1 = m /\ Len(j) > 1
  BY <1>3, <1>4
<1>6. j[Len(j)] = a /\ j[Len(j) - 1].kind = "barrier"
  BY <1>3, <1>4, <1>5
<1>7. Leaves(j, a)
  BY <1>5, <1>6 DEF Leaves
<1> QED BY <1>2, <1>7 DEF j

LEMMA LeavesFits ==
  ASSUME NEW p, Part(p), Resets(p), NEW a, Leaves(p, a), a.kind \in {"alone", "each"},
         NEW q, Block(q), NEW b, NEW c, Opens(q, b, c), c.kind = "barrier", Agree(a, b)
  PROVE  Block(p \o q)
<1>1. Part(q) /\ Resets(q) /\ EndsInBar(q) /\ IsSeq(p) /\ IsSeq(q)
  BY DEF Block, Part
<1>2. Fit(p, q)
  BY <1>1, FitTail DEF Leaves, Opens
<1> QED BY <1>1, <1>2, JoinParts, JoinResets, JoinEnds DEF Block

\* What is there only if c.
LEMMA Optional ==
  ASSUME NEW p, Block(p), NEW q, NEW c \in BOOLEAN, c => Part(q) /\ Resets(q)
  PROVE  /\ Part(p \o (IF c THEN q ELSE << >>)) /\ Resets(p \o (IF c THEN q ELSE << >>))
         /\ (c => Block(q)) => Block(p \o (IF c THEN q ELSE << >>))
<1>1. CASE c
  <2>1. IsSeq(p) /\ IsSeq(q) /\ Part(q) /\ Resets(q)
    BY <1>1 DEF Part, Block
  <2>2. Part(p \o q) /\ Resets(p \o q)
    BY <2>1, FitEnds, JoinParts, JoinResets DEF Block
  <2>3. Block(q) => Block(p \o q)
    BY BlockJoin
  <2> QED BY <2>2, <2>3, <1>1
<1>2. CASE ~c
  <2>1. p \o << >> = p
    BY JoinedEmpty DEF Part, Block
  <2> QED BY <2>1, <1>2 DEF Block
<1> QED BY <1>1, <1>2

LEMMA ByTokenBlock ==
  ASSUME NEW kind \in {"share", "stride"}, NEW in, NEW out
  PROVE  Block(<<ByToken(kind, in, out), Bar>>)
<1>1. WellCut(ByToken(kind, in, out)) /\ ByToken(kind, in, out).kind # "steal"
  BY ByTokenCut
<1> QED BY <1>1, Bare, WithBar

\* The counter is reset, then a matmul.
LEMMA ResetMatMul ==
  ASSUME NEW p, Block(p), Ready(p),
         NEW packed \in BOOLEAN, NEW q8, NEW q8_a, NEW out, q8 # out, q8_a # out
  PROVE  Block(p \o MatMul(packed, q8, q8_a, out))
BY MatMulSteals, StealJoin

LEMMA BatchQueriesBlock ==
  ASSUME NEW packed \in BOOLEAN
  PROVE  /\ Block(BatchQueries(packed))
         /\ Opens(BatchQueries(packed), ByToken("stride", {"batch_x"}, {"batch_x_norm"}), Bar)
<1> DEFINE t == ByToken("stride", {"batch_x"}, {"batch_x_norm"})
           u == <<ByToken("stride", {"batch_q"}, {"batch_q"}), Bar>>
           p == <<t, Bar>> \o PrepareMain("batch_x_norm")
           q == p \o OnMain(packed, "batch_q")
<1>1. Block(<<t, Bar>>) /\ Block(u)
  BY ByTokenBlock
<1>2. Block(PrepareMain("batch_x_norm")) /\ Ready(PrepareMain("batch_x_norm"))
  BY PrepareBlock DEF PrepareMain
<1>3. Block(p) /\ Ready(p)
  BY <1>1, <1>2, BlockJoin
<1>4. Block(q)
  BY <1>3, ResetMatMul DEF OnMain
<1>5. Block(q \o u)
  BY <1>1, <1>4, BlockJoin
<1>6. BatchQueries(packed) = q \o u
  BY DEF BatchQueries
<1>7. Opens(<<t, Bar>>, t, Bar)
  <2> HIDE DEF t
  <2> QED BY DEF Opens
<1>8. /\ IsSeq(<<t, Bar>>) /\ IsSeq(PrepareMain("batch_x_norm")) /\ IsSeq(p) /\ IsSeq(q)
      /\ IsSeq(OnMain(packed, "batch_q")) /\ IsSeq(u)
  <2>1. Part(OnMain(packed, "batch_q"))
    BY MatMulSteals DEF OnMain
  <2> QED BY <2>1, <1>1, <1>2, <1>3, <1>4 DEF Block, Part
<1>9. Opens(q \o u, t, Bar)
  <2> HIDE DEF t, u
  <2>1. Opens(p, t, Bar)
    BY <1>7, <1>8, OpensJoin
  <2>2. Opens(q, t, Bar)
    BY <2>1, <1>8, OpensJoin
  <2> QED BY <2>2, <1>8, OpensJoin
<1> QED BY <1>5, <1>6, <1>9

LEMMA BatchKeysAndValuesBlock ==
  ASSUME NEW packed \in BOOLEAN
  PROVE  Block(BatchKeysAndValues(packed))
<1> DEFINE t == ByToken("stride", {"batch_k", "batch_v"}, {"batch_k", "batch_v"})
           a == Alone(Rows({"batch_k", "batch_v"}, Tokens) \cup AllOf({"pos"}), Rows({"kv"}, Tokens))
           p == <<Reset, Bar>> \o OnMain(packed, "batch_k")
           q == (p \o <<Reset, Bar>>) \o OnMain(packed, "batch_v")
<1>1. Block(<<Reset, Bar>>) /\ Ready(<<Reset, Bar>>)
  BY Bare, ResetAndBar
<1>2. Block(p)
  BY <1>1, ResetMatMul DEF OnMain
<1>3. Block(p \o <<Reset, Bar>>) /\ Ready(p \o <<Reset, Bar>>)
  BY <1>1, <1>2, BlockJoin
<1>4. Block(q)
  BY <1>3, ResetMatMul DEF OnMain
<1>5. Block(<<t, Bar>>)
  BY ByTokenBlock
<1>6. Block(<<a, Bar>>)
  BY AloneCut, Bare, WithBar
<1>7. BatchKeysAndValues(packed) = q \o <<t, Bar, a, Bar>>
  BY DEF BatchKeysAndValues
<1>8. <<t, Bar>> \o <<a, Bar>> = <<t, Bar, a, Bar>>
  <2> HIDE DEF t, a, p, q
  <2> QED BY FourTuple, Zenon
<1>9. Block(<<t, Bar, a, Bar>>)
  BY <1>5, <1>6, <1>8, BlockJoin
<1> QED BY <1>4, <1>7, <1>9, BlockJoin

LEMMA HeadsCut == WellCut(Heads) /\ Heads.kind = "share"
<1> DEFINE a == Heads
<1>1. /\ a.kind = "share" /\ a.pieces = Size
      /\ DOMAIN a.reads = 0 .. Size - 1 /\ DOMAIN a.writes = 0 .. Size - 1
      /\ \A i \in 0 .. Size - 1 :
           /\ a.reads[i] = Column({"batch_q"}, Tokens, i) \cup Rows({"kv"}, Tokens)
           /\ a.writes[i] = Column({"batch_attn_out"}, Tokens, i)
  BY DEF Heads, Step
<1> HIDE DEF a
<1>2. \A i, j \in 0 .. Size - 1 : i # j =>
        a.writes[i] \cap (a.reads[j] \cup a.writes[j]) = {}
  <2> TAKE i, j \in 0 .. Size - 1
  <2> HAVE i # j
  <2>1. Column({"batch_attn_out"}, Tokens, i) \cap Column({"batch_attn_out"}, Tokens, j) = {}
    BY TriplesApart
  <2>2. Column({"batch_attn_out"}, Tokens, i) \cap Column({"batch_q"}, Tokens, j) = {}
    BY TriplesApart
  <2>3. Column({"batch_attn_out"}, Tokens, i) \cap Rows({"kv"}, Tokens) = {}
    <3>1. {"batch_attn_out"} \cap {"kv"} = {}
      OBVIOUS
    <3> QED BY <3>1, TriplesApart
  <2> QED BY <2>1, <2>2, <2>3, <1>1
<1>3. WellCut(a)
  BY <1>1, <1>2, SizeNat DEF WellCut, Kinds, Computing
<1> QED BY <1>1, <1>3 DEF a

LEMMA BatchAttentionBlock ==
  ASSUME NEW packed \in BOOLEAN
  PROVE  Block(BatchAttention(packed))
<1> DEFINE t == ByToken("stride", {"batch_wo_out", "batch_x"}, {"batch_attn_res", "batch_x_norm"})
           p == <<Heads, Bar>> \o PrepareMain("batch_attn_out")
<1>1. Block(<<Heads, Bar>>)
  BY HeadsCut, Bare, WithBar
<1>2. Block(PrepareMain("batch_attn_out")) /\ Ready(PrepareMain("batch_attn_out"))
  BY PrepareBlock DEF PrepareMain
<1>3. Block(p) /\ Ready(p)
  BY <1>1, <1>2, BlockJoin
<1>4. Block(p \o OnMain(packed, "batch_wo_out"))
  BY <1>3, ResetMatMul DEF OnMain
<1>5. Block(<<t, Bar>>)
  BY ByTokenBlock
<1>6. BatchAttention(packed) = (p \o OnMain(packed, "batch_wo_out")) \o <<t, Bar>>
  BY DEF BatchAttention
<1> QED BY <1>4, <1>5, <1>6, BlockJoin

LEMMA BatchFeedForwardBlock ==
  ASSUME NEW packed \in BOOLEAN
  PROVE  Block(BatchFeedForward(packed))
<1> DEFINE t == <<ByToken("stride", {"batch_gate", "batch_up"}, {"batch_gate"}), Bar>>
           u == <<ByToken("stride", {"batch_down", "batch_attn_res"}, {"batch_x_norm", "batch_x"}),
                  Bar>>
           p == PrepareMain("batch_x_norm") \o OnMain(packed, "batch_gate")
           q == (p \o <<Reset, Bar>>) \o OnMain(packed, "batch_up")
           r == (q \o t) \o Prepare("batch_gate", "batch_ffn_q8", "batch_ffn_q8_a")
           s == r \o MatMul(packed, "batch_ffn_q8", "batch_ffn_q8_a", "batch_down")
<1>1. Block(<<Reset, Bar>>) /\ Ready(<<Reset, Bar>>)
  BY Bare, ResetAndBar
<1>2. Block(PrepareMain("batch_x_norm")) /\ Ready(PrepareMain("batch_x_norm"))
  BY PrepareBlock DEF PrepareMain
<1>3. Block(t) /\ Block(u)
  BY ByTokenBlock
<1>4. Block(p)
  BY <1>2, ResetMatMul DEF OnMain
<1>5. Block(p \o <<Reset, Bar>>) /\ Ready(p \o <<Reset, Bar>>)
  BY <1>1, <1>4, BlockJoin
<1>6. Block(q)
  BY <1>5, ResetMatMul DEF OnMain
<1>7. Block(r) /\ Ready(r)
  BY <1>3, <1>6, PrepareBlock, BlockJoin
<1>8. Block(s)
  BY <1>7, ResetMatMul
<1>9. BatchFeedForward(packed) = s \o u
  BY DEF BatchFeedForward
<1> QED BY <1>3, <1>8, <1>9, BlockJoin

LEMMA BatchPleBlock ==
  ASSUME NEW packed \in BOOLEAN
  PROVE  Block(BatchPle(packed))
<1> DEFINE t == <<ByToken("stride", {"ple_gate_out", "ple_signal"}, {"ple_gate_out"}), Bar>>
           u == <<ByToken("stride", {"ple_proj_out", "batch_x"}, {"ple_proj_out", "batch_x"}), Bar>>
           p == PrepareMain("batch_x") \o OnMain(packed, "ple_gate_out")
           r == (p \o t) \o Prepare("ple_gate_out", "ple_q8", "ple_q8_a")
           s == r \o MatMul(packed, "ple_q8", "ple_q8_a", "ple_proj_out")
<1>1. Block(PrepareMain("batch_x")) /\ Ready(PrepareMain("batch_x"))
  BY PrepareBlock DEF PrepareMain
<1>2. Block(t) /\ Block(u)
  BY ByTokenBlock
<1>3. Block(p)
  BY <1>1, ResetMatMul DEF OnMain
<1>4. Block(r) /\ Ready(r)
  BY <1>2, <1>3, PrepareBlock, BlockJoin
<1>5. Block(s)
  BY <1>4, ResetMatMul
<1>6. BatchPle(packed) = s \o u
  BY DEF BatchPle
<1> QED BY <1>2, <1>5, <1>6, BlockJoin

LEMMA BatchLayerBlock ==
  ASSUME NEW l \in [kv : BOOLEAN, dual : BOOLEAN, packed : BOOLEAN, ple : BOOLEAN]
  PROVE  /\ Block(BatchLayer(l))
         /\ Opens(BatchLayer(l), ByToken("stride", {"batch_x"}, {"batch_x_norm"}), Bar)
<1> DEFINE t == ByToken("stride", {"batch_x"}, {"batch_x_norm"})
           KV == IF l.kv THEN BatchKeysAndValues(l.packed) ELSE << >>
           P == IF l.ple THEN BatchPle(l.packed) ELSE << >>
           u == <<ByToken("stride", {"batch_x"}, {"batch_x"}), Bar>>
           q == BatchQueries(l.packed)
           a == BatchAttention(l.packed)
           f == BatchFeedForward(l.packed)
<1>1. l.kv \in BOOLEAN /\ l.ple \in BOOLEAN /\ l.packed \in BOOLEAN
  OBVIOUS
<1>2. Block(q) /\ Block(a) /\ Block(f) /\ Block(u) /\ Opens(q, t, Bar)
  BY <1>1, BatchQueriesBlock, BatchAttentionBlock, BatchFeedForwardBlock, ByTokenBlock
<1>3. Block(BatchKeysAndValues(l.packed)) /\ Block(BatchPle(l.packed))
  BY <1>1, BatchKeysAndValuesBlock, BatchPleBlock
<1>4. BatchLayer(l) = ((((q \o KV) \o a) \o f) \o P) \o u
  BY DEF BatchLayer
<1> HIDE DEF t, u, q, a, f
<1>5. Block(q \o KV)
  BY <1>1, <1>2, <1>3, Optional DEF Block
<1>6. Block((q \o KV) \o a) /\ Block(((q \o KV) \o a) \o f)
  BY <1>2, <1>5, BlockJoin
<1>7. Block((((q \o KV) \o a) \o f) \o P)
  BY <1>1, <1>3, <1>6, Optional DEF Block
<1>8. Block(((((q \o KV) \o a) \o f) \o P) \o u)
  BY <1>2, <1>7, BlockJoin
<1>9. IsSeq(KV) /\ IsSeq(P)
  <2>1. IsSeq(<< >>)
    BY DEF IsSeq
  <2> QED BY <2>1, <1>1, <1>3 DEF Block, Part
<1>10. /\ IsSeq(q) /\ IsSeq(q \o KV) /\ IsSeq((q \o KV) \o a) /\ IsSeq(((q \o KV) \o a) \o f)
       /\ IsSeq((((q \o KV) \o a) \o f) \o P) /\ IsSeq(a) /\ IsSeq(f) /\ IsSeq(u)
  BY <1>2, <1>5, <1>6, <1>7 DEF Block, Part
<1> HIDE DEF KV, P
<1>11. Opens((q \o KV) \o a, t, Bar)
  BY <1>2, <1>9, <1>10, OpensJoin
<1>12. Opens((((q \o KV) \o a) \o f) \o P, t, Bar)
  BY <1>9, <1>10, <1>11, OpensJoin
<1>13. Opens(((((q \o KV) \o a) \o f) \o P) \o u, t, Bar)
  BY <1>10, <1>12, OpensJoin
<1> QED BY <1>4, <1>8, <1>13 DEF t

LEMMA AllBatchLayersBlock ==
  /\ Block(AllBatchLayers)
  /\ \E a : Opens(AllBatchLayers, a, Bar) /\ a = ByToken("stride", {"batch_x"}, {"batch_x_norm"})
<1> DEFINE L == [n \in 1 .. Len(Stack) |-> BatchLayer(Stack[n])]
           f == BatchLayersTo
           t == ByToken("stride", {"batch_x"}, {"batch_x_norm"})
<1>1. \E g : g = [n \in 0 .. Len(Stack) |-> IF n = 0 THEN << >> ELSE g[n - 1] \o L[n]]
  BY HasLayers, ChainExists
<1>2. \A g : [n \in 0 .. Len(Stack) |-> IF n = 0 THEN << >> ELSE g[n - 1] \o L[n]]
           = [n \in 0 .. Len(Stack) |-> IF n = 0 THEN << >> ELSE g[n - 1] \o BatchLayer(Stack[n])]
  BY HasLayers
<1>3. \E g : g = [n \in 0 .. Len(Stack) |->
                    IF n = 0 THEN << >> ELSE g[n - 1] \o BatchLayer(Stack[n])]
  BY <1>1, <1>2
<1>4. f = [n \in 0 .. Len(Stack) |-> IF n = 0 THEN << >> ELSE f[n - 1] \o BatchLayer(Stack[n])]
  BY <1>3 DEF BatchLayersTo
<1>5. f = [n \in 0 .. Len(Stack) |-> IF n = 0 THEN << >> ELSE f[n - 1] \o L[n]]
  BY <1>2, <1>4
<1>6. \A n \in 1 .. Len(Stack) : Block(L[n]) /\ Opens(L[n], t, Bar)
  <2> HIDE DEF t
  <2> QED BY HasLayers, BatchLayerBlock DEF t
<1> HIDE DEF L, f, t
<1>7. Len(Stack) \in Nat \ {0} /\ 1 \in 1 .. Len(Stack)
  BY HasLayers
<1>8. Len(L[1]) > 1 /\ L[1][1] = t /\ L[1][2] = Bar
  BY <1>6, <1>7 DEF Opens
<1>9. /\ Block(f[Len(Stack)])
      /\ Len(f[Len(Stack)]) > 1 /\ f[Len(Stack)][1] = t /\ f[Len(Stack)][2] = Bar
  <2>1. \A n \in 1 .. Len(Stack) : Block(L[n])
    BY <1>6
  <2> PICK N : N = Len(Stack)
    OBVIOUS
  <2>2. /\ Block(f[N])
        /\ Len(L[1]) > 1 => Len(f[N]) > 1 /\ f[N][1] = L[1][1] /\ f[N][2] = L[1][2]
    BY <1>5, <1>7, <2>1, ChainIsBlock
  <2> QED BY <1>8, <2>2
<1> QED BY <1>9 DEF AllBatchLayers, Opens, f, t

LEMMA PreparePlePart == Part(PreparePle) /\ Resets(PreparePle)
<1> DEFINE a == ByToken("share", {}, {"ple_signal"})
           b == Step("share", Size, LAMBDA r : Rows({"batch_x"}, Tokens),
                                    LAMBDA r : Column({"ple_scratch"}, Tokens, r))
           c == ByToken("share", {"ple_signal", "ple_scratch"}, {"ple_signal", "ple_scratch"})
<1>1. /\ b.kind = "share" /\ b.pieces = Size
      /\ DOMAIN b.reads = 0 .. Size - 1 /\ DOMAIN b.writes = 0 .. Size - 1
      /\ \A i \in 0 .. Size - 1 : /\ b.reads[i] = Rows({"batch_x"}, Tokens)
                                  /\ b.writes[i] = Column({"ple_scratch"}, Tokens, i)
  BY DEF Step
<1>2. PreparePle = <<a, Bar, b, Bar, c>>
  BY DEF PreparePle
<1>3. Block(<<a, Bar>>) /\ WellCut(c) /\ c.kind = "share"
  BY ByTokenBlock, ByTokenCut
<1> HIDE DEF a, b, c
<1>4. \A i, j \in 0 .. Size - 1 : i # j =>
        b.writes[i] \cap (b.reads[j] \cup b.writes[j]) = {}
  <2> TAKE i, j \in 0 .. Size - 1
  <2> HAVE i # j
  <2>1. Column({"ple_scratch"}, Tokens, i) \cap Column({"ple_scratch"}, Tokens, j) = {}
    BY TriplesApart
  <2>2. Column({"ple_scratch"}, Tokens, i) \cap Rows({"batch_x"}, Tokens) = {}
    <3>1. {"ple_scratch"} \cap {"batch_x"} = {}
      OBVIOUS
    <3> QED BY <3>1, TriplesApart
  <2> QED BY <2>1, <2>2, <1>1
<1>5. WellCut(b)
  BY <1>1, <1>4, SizeNat DEF WellCut, Kinds, Computing
<1>6. Block(<<b, Bar>>)
  BY <1>1, <1>5, Bare, WithBar
<1>7. Block(<<a, Bar>> \o <<b, Bar>>)
  BY <1>3, <1>6, BlockJoin
<1>8. <<a, Bar>> \o <<b, Bar>> = <<a, Bar, b, Bar>>
  BY FourTuple, Zenon
<1>9. Part(<<a, Bar, b, Bar>> \o <<c>>) /\ Resets(<<a, Bar, b, Bar>> \o <<c>>)
  BY <1>3, <1>7, <1>8, LeavesLast
<1>10. <<a, Bar, b, Bar>> \o <<c>> = <<a, Bar, b, Bar, c>>
  BY FiveSteps
<1> QED BY <1>2, <1>9, <1>10

LEMMA EmbedBatchPart ==
  Part(EmbedBatch) /\ Resets(EmbedBatch) /\ Leaves(EmbedBatch, EachReads(AllOf({"pos"})))
<1> DEFINE t == <<ByToken("share", {}, {"batch_x"}), Bar>>
           has == \E i \in DOMAIN Stack : Stack[i].ple
           e == EachReads(AllOf({"pos"}))
           p == t \o (IF has THEN PreparePle ELSE << >>)
<1>1. EmbedBatch = p \o <<Bar, e>>
  BY DEF EmbedBatch
<1>2. Block(t)
  BY ByTokenBlock
<1>3. Part(p) /\ Resets(p)
  <2> HIDE DEF t, has
  <2>1. has \in BOOLEAN
    BY DEF has
  <2> QED BY <2>1, <1>2, PreparePlePart, Optional
<1>4. WellCut(e) /\ e.kind = "each"
  BY AloneCut
<1> HIDE DEF p, e
<1>5. /\ Part(<<Bar, e>>) /\ Resets(<<Bar, e>>) /\ Len(<<Bar, e>>) = 2
      /\ <<Bar, e>>[1] = Bar /\ <<Bar, e>>[2] = e
  BY <1>4, Bare, TwoSteps
<1>6. Leaves(<<Bar, e>>, e)
  BY <1>5, Bare DEF Leaves
<1>7. IsSeq(p) /\ IsSeq(<<Bar, e>>)
  BY <1>3, <1>5 DEF Part
<1>8. Fit(p, <<Bar, e>>)
  BY <1>3, <1>5, Bare, FitStarts
<1>9. Part(p \o <<Bar, e>>) /\ Resets(p \o <<Bar, e>>) /\ Leaves(p \o <<Bar, e>>, e)
  BY <1>3, <1>5, <1>6, <1>7, <1>8, JoinParts, JoinResets, LeavesJoin
<1> QED BY <1>1, <1>9 DEF e

LEMMA ChunkOfPromptSound ==
  ASSUME NEW isLast \in BOOLEAN
  PROVE  Sound(ChunkOfPrompt(isLast))
<1> DEFINE e == EachReads(AllOf({"pos"}))
           t == ByToken("stride", {"batch_x"}, {"batch_x_norm"})
           p == EmbedBatch \o AllBatchLayers
<1>1. Agree(e, t)
  <2>1. /\ e.kind = "each" /\ e.pieces = 1 /\ e.reads[0] = AllOf({"pos"}) /\ e.writes[0] = {}
    BY AloneCut
  <2>2. /\ t.kind = "stride" /\ t.pieces = NTokens
        /\ \A i \in 0 .. NTokens - 1 : t.writes[i] = Rows({"batch_x_norm"}, {i})
    BY DEF ByToken, Step
  <2> HIDE DEF e, t
  <2>3. \A i : AllOf({"pos"}) \cap Rows({"batch_x_norm"}, {i}) = {}
    <3>1. {"pos"} \cap {"batch_x_norm"} = {}
      OBVIOUS
    <3> QED BY <3>1, TriplesApart
  <2>4. Apart(e, t)
    <3>1. 0 .. e.pieces - 1 = {0} /\ 0 .. t.pieces - 1 = 0 .. NTokens - 1
      BY <2>1, <2>2
    <3>2. \A i \in {0}, j \in 0 .. NTokens - 1 :
            /\ e.writes[i] \cap t.reads[j] = {} /\ e.writes[i] \cap t.writes[j] = {}
            /\ e.reads[i] \cap t.writes[j] = {}
      BY <2>1, <2>2, <2>3
    <3> QED BY <3>1, <3>2 DEF Apart
  <2> QED BY <2>1, <2>2, <2>4 DEF Agree, UsesChunk
<1>2. WellCut(Bar) /\ Bar.kind = "barrier" /\ e.kind = "each"
  BY Bare, AloneCut
<1>3. Block(p)
  <2> HIDE DEF e, t
  <2>1. Part(EmbedBatch) /\ Resets(EmbedBatch) /\ Leaves(EmbedBatch, e)
    BY EmbedBatchPart DEF e
  <2>2. Block(AllBatchLayers) /\ Opens(AllBatchLayers, t, Bar)
    BY AllBatchLayersBlock DEF t
  <2> QED BY <2>1, <2>2, <1>1, <1>2, LeavesFits
<1> DEFINE a == Alone(AllOf({"pos"}), AllOf({"pos"}))
<1>4. WellCut(a) /\ a.kind = "alone"
  BY AloneCut
<1>5. Block(Advance) /\ Opens(Advance, a, Bar)
  <2>1. Advance = <<a, Bar>>
    BY DEF Advance
  <2> HIDE DEF a
  <2>2. Block(<<a, Bar>>)
    BY <1>4, Bare, WithBar
  <2>3. Opens(<<a, Bar>>, a, Bar)
    BY DEF Opens
  <2> QED BY <2>1, <2>2, <2>3
<1>6. CASE isLast
  <2> DEFINE b == Alone(Rows({"batch_x"}, {NTokens - 1}), AllOf({"x_norm", "q8"}))
             c == Alone(AllOf({"logits"}), AllOf({"logits"}))
             q == <<b, Bar>> \o MatVec(FALSE, "q8", {"logits"})
  <2>1. WellCut(b) /\ b.kind = "alone" /\ WellCut(c) /\ c.kind = "alone"
    BY AloneCut
  <2>2. BatchLogits = q \o <<c>>
    BY DEF BatchLogits
  <2>3. Block(q)
    <3> HIDE DEF b
    <3>1. Block(<<b, Bar>>)
      BY <2>1, Bare, WithBar
    <3> QED BY <3>1, MatVecBlock, BlockJoin
  <2> HIDE DEF a, b, c, q, p
  <2>4. Part(BatchLogits) /\ Resets(BatchLogits) /\ Leaves(BatchLogits, c)
    BY <2>1, <2>2, <2>3, LeavesLast
  <2>5. IsSeq(p) /\ IsSeq(BatchLogits)
    BY <2>4, <1>3 DEF Block, Part
  <2>6. Part(p \o BatchLogits) /\ Resets(p \o BatchLogits)
    BY <2>4, <2>5, <1>3, FitEnds, JoinParts, JoinResets DEF Block
  <2>7. Leaves(p \o BatchLogits, c)
    BY <2>4, <2>5, LeavesJoin
  <2>8. Agree(c, a)
    BY <2>1, <1>4 DEF Agree
  <2>9. Block((p \o BatchLogits) \o Advance)
    BY <2>1, <2>6, <2>7, <2>8, <1>2, <1>5, LeavesFits
  <2>10. ChunkOfPrompt(isLast) = (p \o BatchLogits) \o Advance
    BY <1>6 DEF ChunkOfPrompt, p
  <2> QED BY <2>9, <2>10, PartIsSound DEF Block, EndsInBar
<1>7. CASE ~isLast
  <2>1. p \o << >> = p
    BY <1>3, JoinedEmpty DEF Block, Part
  <2>2. ChunkOfPrompt(isLast) = p \o Advance
    BY <2>1, <1>7 DEF ChunkOfPrompt
  <2>3. Block(p \o Advance)
    BY <1>3, <1>5, BlockJoin
  <2> QED BY <2>2, <2>3, PartIsSound DEF Block, EndsInBar
<1> QED BY <1>6, <1>7

\* The text of every pass is sound.
LEMMA ProgramsSound == \A p \in Passes : Sound(Programs[p])
<1>1. Sound(OneToken) /\ Sound(ChunkOfPrompt(FALSE)) /\ Sound(ChunkOfPrompt(TRUE))
  BY OneTokenSound, ChunkOfPromptSound
<1>2. /\ Passes = {"decode", "chunk", "lastChunk"} /\ Programs["decode"] = OneToken
      /\ Programs["chunk"] = ChunkOfPrompt(FALSE) /\ Programs["lastChunk"] = ChunkOfPrompt(TRUE)
  BY DEF Passes, Programs
<1> QED BY <1>1, <1>2

-----------------------------------------------------------------------------
(* The invariant of the threads.                                           *)

IsBar(b) == b \in 1 .. Len(Program) /\ Program[b].kind = "barrier"
IsSteal(s) == s \in 1 .. Len(Program) /\ Program[s].kind = "steal"

GraphTypes ==
  /\ pass \in Passes
  /\ place \in [Threads -> 1 .. Len(Program) + 1]
  /\ next \in [Threads -> Nat]
  /\ busy \in [Threads -> BOOLEAN]
  /\ chunk \in Nat
  /\ content \in [CellsOf[pass] -> 0 .. Len(Program)]
  /\ arrivals \in [Threads -> Nat] /\ departures \in [Threads -> Nat]

\* Nobody is past a barrier that another has not come to.
BarInv ==
  /\ \A t \in Threads :
       arrivals[t] = departures[t]
         \/ (arrivals[t] = departures[t] + 1 /\ IsBar(place[t]))
  /\ \A t, u \in Threads, b \in 1 .. Len(Program) : IsBar(b) /\ b < place[t] =>
       place[u] > b \/ (place[u] = b /\ arrivals[u] = departures[u] + 1)
  /\ \A t, u \in Threads : place[t] <= place[u] =>
       departures[u] = departures[t] +
         (IF \E b \in place[t] .. place[u] - 1 : IsBar(b) THEN 1 ELSE 0)

\* Which pieces a thread can come to.
Owns(t, step, i) ==
  CASE step.kind = "share"  -> t * Share(step.pieces) <= i /\ i < (t + 1) * Share(step.pieces)
    [] step.kind = "stride" -> i % NThreads = t
    [] OTHER -> t = 0

PieceInv ==
  \A t \in Threads :
    /\ busy[t] => At(t, Computing) /\ next[t] < Limit(t, StepOf(t))
    /\ At(t, {"share"}) => t * Share(StepOf(t).pieces) <= next[t]
    /\ At(t, {"stride"}) => next[t] % NThreads = t

\* Somebody has come to step s, and somebody is not past it.
Live(s) == (\E t \in Threads : place[t] >= s) /\ (\E t \in Threads : place[t] <= s)

\* Those that have had their last piece of the steal s.
Sated(s) ==
  {t \in Threads :
     /\ t < Program[s].pieces
     /\ place[t] > s \/ (place[t] = s /\ next[t] >= Program[s].pieces)}

\* What the counter and the pieces dealt out have to do with each other while
\* step s is stolen from.
StealAt(s) ==
  /\ chunk >= NThreads
  /\ \A t \in Threads : place[t] = s =>
       next[t] = t \/ (NThreads <= next[t] /\ next[t] < chunk)
  /\ \A t, u \in Threads : t # u /\ place[t] = s /\ place[u] = s => next[t] # next[u]
  /\ (\E t \in Threads : place[t] > s) => Program[s].pieces <= chunk
  /\ chunk <= (IF Program[s].pieces >= NThreads THEN Program[s].pieces ELSE NThreads)
                + Cardinality(Sated(s))
StealInv == \A s \in 1 .. Len(Program) : IsSteal(s) /\ Live(s) => StealAt(s)

\* Between the barrier after a reset and the stealing the counter is fresh.
FreshInv ==
  \A s \in 1 .. Len(Program), r \in 1 .. Len(Program) :
    IsSteal(s) /\ r < s /\ ResetFor(Program, r, s)
      /\ (\A t \in Threads : r < place[t] /\ place[t] < s)
      => chunk = NThreads

ChunkInv == \E s \in 1 .. Len(Program) : chunk <= Program[s].pieces + NThreads

\* A thread has piece i of the steal s, or will start with it.
Holds(t, s, i) == (place[t] = s /\ next[t] = i) \/ (place[t] < s /\ t = i)

IsDone(s, i) ==
  IF Program[s].kind = "steal"
    THEN \/ \A t \in Threads : place[t] > s
         \/ /\ \E t \in Threads : place[t] >= s
            /\ i < chunk
            /\ \A t \in Threads : ~Holds(t, s, i)
    ELSE \A t \in Threads : Owns(t, Program[s], i) =>
           place[t] > s \/ (place[t] = s /\ next[t] > i)

Pieces(s) == 0 .. Program[s].pieces - 1

\* What is done is in the cells, or something later is; and what is in the
\* cells was done.
DoneInv ==
  \A s \in 1 .. Len(Program) : \A i \in Pieces(s) : IsDone(s, i) =>
    \A c \in Program[s].writes[i] : content[c] >= s
FromInv ==
  \A c \in CellsOf[pass] : \A s \in 1 .. Len(Program) : content[c] = s =>
    \E i \in Pieces(s) : c \in Program[s].writes[i] /\ IsDone(s, i)

PassInv ==
  GraphTypes /\ BarInv /\ PieceInv /\ StealInv /\ FreshInv /\ ChunkInv /\ DoneInv /\ FromInv

-----------------------------------------------------------------------------
(* Threads and barriers.                                                   *)

USE ThreadsAssumption

LEMMA NThreadsPos == NThreads \in Nat /\ NThreads > 0 /\ 0 \in Threads /\ Threads \subseteq Nat
BY DEF Threads

\* A thread on a step that is no barrier, and one further on, are on steps
\* that meet.
LEMMA Nearby ==
  ASSUME GraphTypes, BarInv, NEW t \in Threads, NEW u \in Threads,
         place[t] \in 1 .. Len(Program), ~IsBar(place[t]),
         NEW s \in 1 .. Len(Program), place[t] <= s, s <= place[u]
  PROVE  Meet(Program, place[t], s)
<1> SUFFICES ASSUME NEW k \in place[t] .. s - 1, Program[k].kind = "barrier" PROVE FALSE
  BY DEF Meet
<1>0. place[t] \in Nat /\ place[u] \in Nat /\ Len(Program) \in Nat /\ k \in Nat
  BY DEF GraphTypes
<1>1. k \in 1 .. Len(Program) /\ k < place[u] /\ IsBar(k)
  BY <1>0 DEF IsBar
<1>2. place[t] > k \/ place[t] = k
  BY <1>1 DEF BarInv
<1> QED BY <1>0, <1>1, <1>2

\* If one thread is past a barrier, all have come to it.
LEMMA AllCame ==
  ASSUME GraphTypes, BarInv, NEW u \in Threads, NEW b \in 1 .. Len(Program), IsBar(b),
         b < place[u], NEW t \in Threads
  PROVE  place[t] >= b
<1>1. place[t] > b \/ place[t] = b
  BY DEF BarInv
<1>2. place[t] \in Int
  BY DEF GraphTypes
<1> QED BY <1>1, <1>2

-----------------------------------------------------------------------------
(* Shares and strides.                                                     *)

LEMMA ShareCovers ==
  ASSUME NEW n \in Nat
  PROVE  Share(n) \in Nat /\ n <= NThreads * Share(n)
<1> DEFINE q == (n + NThreads - 1) \div NThreads
           r == (n + NThreads - 1) % NThreads
<1>1. NThreads \in Nat /\ NThreads > 0 /\ n + NThreads - 1 \in Nat
  OBVIOUS
<1>2. q \in Nat /\ r \in 0 .. NThreads - 1 /\ n + NThreads - 1 = (NThreads * q) + r
  BY <1>1, Division
<1>3. Share(n) = q
  BY DEF Share, RoundedUp
<1> HIDE DEF q, r
<1>4. NThreads * q \in Nat
  BY <1>1, <1>2
<1> QED BY <1>1, <1>2, <1>3, <1>4

LEMMA ShareNat ==
  ASSUME NEW n \in Nat, NEW t \in Threads
  PROVE  t * Share(n) \in Nat /\ (t + 1) * Share(n) \in Nat
<1>1. Share(n) \in Nat /\ t \in Nat /\ t + 1 \in Nat
  BY ShareCovers, NThreadsPos
<1> QED BY <1>1, Products

LEMMA ShareOwner ==
  ASSUME NEW n \in Nat, NEW i \in 0 .. n - 1
  PROVE  \E t \in Threads : t * Share(n) <= i /\ i < (t + 1) * Share(n)
<1> DEFINE S == Share(n)
<1>1. S \in Nat /\ n <= NThreads * S
  BY ShareCovers
<1> HIDE DEF S
<1>2. S > 0
  <2>1. ASSUME S = 0 PROVE FALSE
    <3>1. NThreads * S = 0
      BY <2>1
    <3> QED BY <3>1, <1>1
  <2> QED BY <2>1, <1>1
<1> DEFINE t == i \div S
           r == i % S
<1>3. t \in Nat /\ r \in 0 .. S - 1 /\ i = (S * t) + r
  BY <1>1, <1>2, Division
<1> HIDE DEF t, r
<1>4. S * t = t * S /\ t * S \in Nat /\ (t + 1) * S = t * S + S
  BY <1>1, <1>3
<1>5. t < NThreads
  <2> SUFFICES ASSUME NThreads <= t PROVE FALSE
    BY <1>3
  <2>1. NThreads * S <= t * S
    BY <1>1, <1>3, Products
  <2>2. NThreads * S \in Nat
    BY <1>1
  <2> QED BY <2>1, <2>2, <1>1, <1>3, <1>4
<1>6. t * S <= i /\ i < (t + 1) * S
  BY <1>1, <1>3, <1>4
<1>7. t \in Threads
  BY <1>3, <1>5 DEF Threads
<1> QED BY <1>6, <1>7 DEF S

LEMMA ShareApart ==
  ASSUME NEW n \in Nat, NEW t \in Threads, NEW u \in Threads, NEW i \in Nat,
         t * Share(n) <= i, i < (t + 1) * Share(n),
         u * Share(n) <= i, i < (u + 1) * Share(n)
  PROVE  t = u
<1> DEFINE S == Share(n)
<1>1. S \in Nat /\ t \in Nat /\ u \in Nat /\ t + 1 \in Nat /\ u + 1 \in Nat
  BY ShareCovers, NThreadsPos
<1>2. t * S \in Nat /\ u * S \in Nat /\ (t + 1) * S \in Nat /\ (u + 1) * S \in Nat
  BY <1>1
<1>3. t * S <= i /\ i < (t + 1) * S /\ u * S <= i /\ i < (u + 1) * S
  OBVIOUS
<1> HIDE DEF S
<1>4. CASE t < u
  <2>1. t + 1 <= u
    BY <1>1, <1>4
  <2>2. (t + 1) * S <= u * S
    BY <1>1, <2>1, Products
  <2> QED BY <2>2, <1>2, <1>3
<1>5. CASE u < t
  <2>1. u + 1 <= t
    BY <1>1, <1>5
  <2>2. (u + 1) * S <= t * S
    BY <1>1, <2>1, Products
  <2> QED BY <2>2, <1>2, <1>3
<1> QED BY <1>1, <1>4, <1>5

\* PieceNumbers with the same remainder are at least a stride apart.
LEMMA StrideApart ==
  ASSUME NEW i \in Nat, NEW j \in Nat, i % NThreads = j % NThreads, i < j
  PROVE  i + NThreads <= j
<1>1. ~(j - i < NThreads)
  BY ModApart
<1> QED BY <1>1

LEMMA StrideFirst ==
  ASSUME NEW t \in Threads, NEW i \in Nat, i % NThreads = t
  PROVE  t % NThreads = t /\ t <= i
<1>1. NThreads \in Nat /\ NThreads > 0 /\ t \in 0 .. NThreads - 1
  BY DEF Threads
<1>2. t % NThreads = t
  BY <1>1, SMT
<1>3. i = (NThreads * (i \div NThreads)) + (i % NThreads) /\ i \div NThreads \in Nat
  BY <1>1, Division
<1>4. NThreads * (i \div NThreads) \in Nat
  BY <1>1, <1>3
<1> QED BY <1>1, <1>2, <1>3, <1>4

-----------------------------------------------------------------------------
(* What the actions do.                                                    *)

LEMMA Here ==
  ASSUME GraphTypes, Sound(Program), NEW t \in Threads
  PROVE  /\ Len(Program) \in Nat \ {0} /\ DOMAIN Program = 1 .. Len(Program)
         /\ place[t] \in 1 .. Len(Program) + 1 /\ place[t] \in Nat /\ next[t] \in Nat
         /\ busy[t] \in BOOLEAN
         /\ ~Done(t) <=> place[t] \in 1 .. Len(Program)
         /\ ~Done(t) => WellCut(StepOf(t))
<1>1. Len(Program) \in Nat \ {0} /\ DOMAIN Program = 1 .. Len(Program)
  BY DEF Sound
<1>2. place[t] \in 1 .. Len(Program) + 1 /\ next[t] \in Nat /\ busy[t] \in BOOLEAN
  BY DEF GraphTypes
<1>3. ~Done(t) <=> place[t] \in 1 .. Len(Program)
  BY <1>1, <1>2 DEF Done
<1>4. ~Done(t) => WellCut(StepOf(t))
  BY <1>3 DEF Sound, StepOf
<1> QED BY <1>1, <1>2, <1>3, <1>4

LEMMA FirstNat ==
  ASSUME NEW step, WellCut(step), NEW t \in Threads
  PROVE  First(t, step) \in Nat
<1>1. step.pieces \in Nat
  BY DEF WellCut
<1>2. t * Share(step.pieces) \in Nat /\ t \in Nat
  BY <1>1, ShareNat, NThreadsPos
<1> QED BY <1>2 DEF First

LEMMA SameProgram ==
  ASSUME pass' = pass
  PROVE  Program' = Program /\ CellsOf[pass]' = CellsOf[pass]
BY DEF Program, CellsOf, Programs, Passes

\* A thread that goes on to the next step.
LEMMA Moving ==
  ASSUME GraphTypes, Sound(Program), NEW t \in Threads,
         NoMore(t) \/ StoreChunk(t) \/ Leave(t)
  PROVE  /\ pass' = pass /\ Program' = Program /\ busy' = busy /\ content' = content
         /\ place[t] \in 1 .. Len(Program) /\ WellCut(Program[place[t]])
         /\ \A u \in Threads : place'[u] = (IF u = t THEN place[t] + 1 ELSE place[u])
         /\ \A u \in Threads \ {t} : next'[u] = next[u]
         /\ place[t] < Len(Program) => next'[t] = First(t, Program[place[t] + 1])
         /\ place' \in [Threads -> 1 .. Len(Program) + 1]
         /\ next' \in [Threads -> Nat]
         /\ NoMore(t) => UNCHANGED <<chunk, arrivals, departures>>
                           /\ Program[place[t]].kind \in Computing
         /\ StoreChunk(t) => UNCHANGED <<arrivals, departures>> /\ chunk' = NThreads
                           /\ Program[place[t]].kind = "reset"
         /\ Leave(t) => chunk' = chunk /\ Program[place[t]].kind = "barrier"
<1>1. pass' = pass /\ busy' = busy /\ content' = content /\ ~Done(t) /\ StepPast(t)
  BY DEF NoMore, StoreChunk, Leave, At
<1>2. Program' = Program
  BY <1>1, SameProgram
<1>3. /\ place[t] \in 1 .. Len(Program) /\ WellCut(Program[place[t]]) /\ Len(Program) \in Nat
      /\ place \in [Threads -> 1 .. Len(Program) + 1] /\ next \in [Threads -> Nat]
  BY <1>1, Here DEF GraphTypes, StepOf
<1>4. /\ place' = [place EXCEPT ![t] = place[t] + 1]
      /\ next' = [next EXCEPT ![t] =
           IF place[t] < Len(Program) THEN First(t, Program[place[t] + 1]) ELSE 0]
  BY <1>1 DEF StepPast
<1>5. place[t] < Len(Program) => First(t, Program[place[t] + 1]) \in Nat
  <2> SUFFICES ASSUME place[t] < Len(Program) PROVE First(t, Program[place[t] + 1]) \in Nat
    OBVIOUS
  <2>1. place[t] + 1 \in 1 .. Len(Program)
    BY <1>3
  <2> QED BY <2>1, FirstNat DEF Sound
<1>6. place[t] + 1 \in 1 .. Len(Program) + 1
  BY <1>3
<1>7. place' \in [Threads -> 1 .. Len(Program) + 1] /\ next' \in [Threads -> Nat]
  BY <1>3, <1>4, <1>5, <1>6
<1>8. /\ \A u \in Threads : place'[u] = (IF u = t THEN place[t] + 1 ELSE place[u])
      /\ \A u \in Threads \ {t} : next'[u] = next[u]
      /\ place[t] < Len(Program) => next'[t] = First(t, Program[place[t] + 1])
  BY <1>3, <1>4
<1>9. /\ NoMore(t) => UNCHANGED <<chunk, arrivals, departures>>
                        /\ Program[place[t]].kind \in Computing
      /\ StoreChunk(t) => UNCHANGED <<arrivals, departures>> /\ chunk' = NThreads
                        /\ Program[place[t]].kind = "reset"
      /\ Leave(t) => chunk' = chunk /\ Program[place[t]].kind = "barrier"
  BY DEF NoMore, StoreChunk, Leave, At, StepOf, FirstFree
<1> QED BY <1>1, <1>2, <1>3, <1>7, <1>8, <1>9

\* A piece that a thread is on is one of the step's.
LEMMA OnPiece ==
  ASSUME GraphTypes, PieceInv, Sound(Program), NEW t \in Threads, busy[t]
  PROVE  /\ place[t] \in 1 .. Len(Program) /\ WellCut(Program[place[t]])
         /\ Program[place[t]].kind \in Computing /\ ~IsBar(place[t])
         /\ next[t] \in Pieces(place[t]) /\ next[t] < Limit(t, Program[place[t]])
         /\ Reads(t) = Program[place[t]].reads[next[t]]
         /\ Writes(t) = Program[place[t]].writes[next[t]]
         /\ Owns(t, Program[place[t]], next[t])
              \/ Program[place[t]].kind = "steal" \/ Writes(t) = {}
<1>1. At(t, Computing) /\ next[t] < Limit(t, StepOf(t))
  BY DEF PieceInv
<1>2. /\ place[t] \in 1 .. Len(Program) /\ WellCut(Program[place[t]])
      /\ Program[place[t]].kind \in Computing /\ ~IsBar(place[t]) /\ next[t] \in Nat
      /\ Reads(t) = Program[place[t]].reads[next[t]]
      /\ Writes(t) = Program[place[t]].writes[next[t]]
  BY <1>1, Here DEF At, StepOf, IsBar, Computing, Reads, Writes
<1> DEFINE step == Program[place[t]]
<1>3. step.pieces \in Nat /\ t \in Nat /\ next[t] < Limit(t, step)
  BY <1>1, <1>2, NThreadsPos DEF WellCut, StepOf
<1>4. (t + 1) * Share(step.pieces) \in Int
  BY <1>3, ShareNat
<1>5. next[t] < step.pieces /\ (step.kind = "alone" => t = 0 /\ next[t] = 0)
      /\ (step.kind = "share" => next[t] < (t + 1) * Share(step.pieces))
  BY <1>2, <1>3, <1>4 DEF Limit, Lesser, WellCut, Computing
<1>6. Owns(t, step, next[t]) \/ step.kind = "steal" \/ Writes(t) = {}
  <2>1. CASE step.kind = "share"
    BY <2>1, <1>1, <1>2, <1>5 DEF PieceInv, Owns, At, StepOf
  <2>2. CASE step.kind = "stride"
    BY <2>2, <1>1, <1>2 DEF PieceInv, Owns, At, StepOf
  <2>3. CASE step.kind = "alone"
    BY <2>3, <1>5 DEF Owns
  <2>4. CASE step.kind = "each"
    <3>1. step.pieces = 1 /\ step.writes[0] = {}
      BY <2>4, <1>2 DEF WellCut
    <3> QED BY <3>1, <1>2, <1>3, <1>5
  <2> QED BY <1>2, <2>1, <2>2, <2>3, <2>4 DEF Computing
<1>7. next[t] \in Pieces(place[t])
  BY <1>2, <1>3, <1>5 DEF Pieces
<1> QED BY <1>2, <1>3, <1>6, <1>7

\* A thread that ends a piece.
LEMMA Ending ==
  ASSUME GraphTypes, PieceInv, Sound(Program), NEW t \in Threads, End(t)
  PROVE  /\ pass' = pass /\ Program' = Program /\ place' = place /\ busy[t]
         /\ busy' = [busy EXCEPT ![t] = FALSE]
         /\ UNCHANGED <<arrivals, departures>>
         /\ next' \in [Threads -> Nat]
         /\ \A u \in Threads \ {t} : next'[u] = next[u]
         /\ Program[place[t]].kind = "steal" => next'[t] = chunk /\ chunk' = chunk + 1
         /\ Program[place[t]].kind = "stride" => next'[t] = next[t] + NThreads
         /\ Program[place[t]].kind \notin {"steal", "stride"} => next'[t] = next[t] + 1
         /\ Program[place[t]].kind # "steal" => chunk' = chunk
         /\ \A c \in CellsOf[pass] :
              content'[c] = (IF c \in Writes(t) THEN place[t] ELSE content[c])
         /\ content' \in [CellsOf[pass] -> 0 .. Len(Program)]
<1>1. /\ pass' = pass /\ place' = place /\ busy[t] /\ UNCHANGED <<arrivals, departures>>
      /\ content' = Written(t) /\ busy' = [busy EXCEPT ![t] = FALSE]
  BY DEF End
<1>2. place[t] \in 1 .. Len(Program) /\ ~Done(t) /\ Len(Program) \in Nat
  BY <1>1, OnPiece, Here
<1>3. /\ At(t, {"steal"}) <=> Program[place[t]].kind = "steal"
      /\ At(t, {"stride"}) <=> Program[place[t]].kind = "stride"
  BY <1>2 DEF At, StepOf
<1>4. next \in [Threads -> Nat] /\ chunk \in Nat /\ content \in [CellsOf[pass] -> 0 .. Len(Program)]
  BY DEF GraphTypes
<1>5. /\ \A c \in CellsOf[pass] :
              content'[c] = (IF c \in Writes(t) THEN place[t] ELSE content[c])
      /\ content' \in [CellsOf[pass] -> 0 .. Len(Program)]
  BY <1>1, <1>2, <1>4 DEF Written
<1>6. CASE Program[place[t]].kind = "steal"
  <2>1. next' = [next EXCEPT ![t] = chunk] /\ chunk' = chunk + 1
    BY <1>3, <1>6 DEF End, Claimed
  <2> QED BY <2>1, <1>1, <1>4, <1>5, <1>6, SameProgram
<1>7. CASE Program[place[t]].kind # "steal"
  <2>1. next' = [next EXCEPT ![t] = next[t] + Stride(t)] /\ chunk' = chunk
    BY <1>3, <1>7 DEF End
  <2>2. Stride(t) = IF Program[place[t]].kind = "stride" THEN NThreads ELSE 1
    BY <1>3 DEF Stride
  <2> QED BY <2>1, <2>2, <1>1, <1>4, <1>5, <1>7, SameProgram
<1> QED BY <1>6, <1>7

-----------------------------------------------------------------------------
(* Every step keeps the types, the barrier's promise and the dealing out.  *)

LEMMA TypesKept ==
  ASSUME GraphTypes, PieceInv, Sound(Program), NEW t \in Threads, Run(t)
  PROVE  GraphTypes'
<1> USE DEF GraphTypes
<1>1. CASE Begin(t)
  BY <1>1, SameProgram DEF Begin
<1>2. CASE End(t)
  <2>1. chunk' \in Nat
    <3>1. chunk' = chunk + 1 \/ chunk' = chunk
      BY <1>2, Ending
    <3> QED BY <3>1
  <2>2. pass' = pass /\ Program' = Program /\ place' = place /\ next' \in [Threads -> Nat]
    BY <1>2, Ending
  <2>3. busy' \in [Threads -> BOOLEAN] /\ UNCHANGED <<arrivals, departures>>
    BY <1>2, Ending
  <2>4. content' \in [CellsOf[pass] -> 0 .. Len(Program)]
    BY <1>2, Ending
  <2> QED BY <2>1, <2>2, <2>3, <2>4, SameProgram
<1>3. CASE NoMore(t) \/ StoreChunk(t) \/ Leave(t)
  <2>1. arrivals' \in [Threads -> Nat] /\ departures' \in [Threads -> Nat] /\ chunk' \in Nat
    BY <1>3, NThreadsPos DEF NoMore, StoreChunk, Leave, Go, FirstFree
  <2> QED BY <2>1, <1>3, Moving, SameProgram
<1>4. CASE Arrive(t)
  BY <1>4, SameProgram DEF Arrive, Come
<1> QED BY <1>1, <1>2, <1>3, <1>4 DEF Run

\* What BarInv says of two threads, one of which is not ahead.
Together(t, u) ==
  place[t] <= place[u] =>
       departures[u] = departures[t] +
         (IF \E b \in place[t] .. place[u] - 1 : IsBar(b) THEN 1 ELSE 0)

LEMMA BarKeptMoving ==
  ASSUME GraphTypes, BarInv, Sound(Program), NEW t \in Threads, NoMore(t) \/ StoreChunk(t)
  PROVE  BarInv'
<1>1. /\ Program' = Program /\ place[t] \in 1 .. Len(Program)
      /\ UNCHANGED <<arrivals, departures>> /\ ~IsBar(place[t])
      /\ \A u \in Threads : place'[u] = (IF u = t THEN place[t] + 1 ELSE place[u])
  BY Moving DEF IsBar, Computing
<1>2. /\ Len(Program) \in Nat /\ \A u \in Threads : place[u] \in Nat
      /\ \A b : IsBar(b)' <=> IsBar(b)
  BY <1>1, Here DEF IsBar
<1>3. \A u \in Threads : arrivals'[u] = departures'[u]
         \/ (arrivals'[u] = departures'[u] + 1 /\ IsBar(place'[u]))
  BY <1>1, <1>2 DEF BarInv
<1>4. ASSUME NEW v \in Threads, NEW u \in Threads, NEW b \in 1 .. Len(Program),
             IsBar(b), b < place'[v]
      PROVE  place'[u] > b \/ (place'[u] = b /\ arrivals'[u] = departures'[u] + 1)
  <2>1. b < place[v]
    BY <1>1, <1>2, <1>4
  <2>2. place[u] > b \/ (place[u] = b /\ arrivals[u] = departures[u] + 1)
    BY <2>1, <1>4 DEF BarInv
  <2> QED BY <2>2, <1>1, <1>2, <1>4
<1>5. ASSUME NEW v \in Threads, NEW u \in Threads PROVE Together(v, u)'
  <2>1. Together(v, u) /\ Together(u, v)
    BY DEF BarInv, Together
  <2>2. CASE place'[v] <= place'[u]
    <3>1. CASE place[v] <= place[u]
      <4>1. (\E b \in place[v] .. place[u] - 1 : IsBar(b))
              <=> (\E b \in place'[v] .. place'[u] - 1 : IsBar(b))
        BY <1>1, <1>2, <2>2, <3>1
      <4> QED BY <4>1, <3>1, <2>1, <1>1, <1>2 DEF Together
    <3>2. CASE place[v] > place[u]
      <4>1. u = t /\ place'[v] = place'[u] /\ place[v] = place[u] + 1
        BY <1>1, <1>2, <2>2, <3>2
      <4>2. ~(\E b \in place[u] .. place[v] - 1 : IsBar(b))
        BY <4>1, <1>1, <1>2
      <4>3. departures[u] \in Nat /\ departures[v] \in Nat
        BY DEF GraphTypes
      <4>4. departures[v] = departures[u]
        BY <4>2, <4>3, <3>2, <2>1, <1>2 DEF Together
      <4>5. ~(\E b \in place'[v] .. place'[u] - 1 : IsBar(b))
        BY <4>1, <1>1, <1>2
      <4> QED BY <4>3, <4>4, <4>5, <1>1, <1>2 DEF Together
    <3> QED BY <3>1, <3>2, <1>2
  <2> QED BY <2>2 DEF Together
<1> QED BY <1>1, <1>2, <1>3, <1>4, <1>5 DEF BarInv, Together

LEMMA BarKeptArriving ==
  ASSUME GraphTypes, BarInv, Sound(Program), NEW t \in Threads, Arrive(t)
  PROVE  BarInv'
<1>1. /\ Program' = Program /\ ~Done(t) /\ IsBar(place[t])
      /\ place' = place /\ departures' = departures
      /\ arrivals[t] = departures[t]
      /\ arrivals' = [arrivals EXCEPT ![t] = arrivals[t] + 1]
  BY Here, SameProgram DEF Arrive, At, Come, StepOf, IsBar
<1>2. /\ \A b : IsBar(b)' <=> IsBar(b)
      /\ \A u \in Threads : arrivals[u] \in Nat /\ departures[u] \in Nat
      /\ \A u \in Threads : arrivals'[u] = (IF u = t THEN arrivals[t] + 1 ELSE arrivals[u])
  BY <1>1 DEF IsBar, GraphTypes
<1>3. \A u \in Threads : arrivals'[u] = departures'[u]
         \/ (arrivals'[u] = departures'[u] + 1 /\ IsBar(place'[u]))
  BY <1>1, <1>2 DEF BarInv
<1>4. ASSUME NEW v \in Threads, NEW u \in Threads, NEW b \in 1 .. Len(Program),
             IsBar(b), b < place'[v]
      PROVE  place'[u] > b \/ (place'[u] = b /\ arrivals'[u] = departures'[u] + 1)
  <2>1. place[u] > b \/ (place[u] = b /\ arrivals[u] = departures[u] + 1)
    BY <1>1, <1>4 DEF BarInv
  <2> QED BY <2>1, <1>1, <1>2
<1> QED BY <1>1, <1>2, <1>3, <1>4 DEF BarInv

LEMMA BarKeptLeaving ==
  ASSUME GraphTypes, BarInv, Sound(Program), NEW t \in Threads, Leave(t)
  PROVE  BarInv'
<1> DEFINE p == place[t]
<1>1. /\ Program' = Program /\ p \in 1 .. Len(Program)
      /\ IsBar(p)
      /\ \A u \in Threads : place'[u] = (IF u = t THEN p + 1 ELSE place[u])
  BY Moving DEF IsBar
<1>2. /\ arrivals[t] = departures[t] + 1 /\ \A u \in Threads : arrivals[u] >= arrivals[t]
      /\ departures' = [departures EXCEPT ![t] = departures[t] + 1]
      /\ arrivals' = arrivals
  BY DEF Leave, Go
<1>3. /\ Len(Program) \in Nat /\ p \in Nat /\ \A u \in Threads : place[u] \in Nat
      /\ \A b : IsBar(b)' <=> IsBar(b)
      /\ \A u \in Threads : arrivals[u] \in Nat /\ departures[u] \in Nat
      /\ \A u \in Threads : departures'[u] = (IF u = t THEN departures[t] + 1 ELSE departures[u])
  BY <1>1, <1>2, Here DEF IsBar, GraphTypes
<1>4. \A u, v \in Threads : Together(u, v)
  BY DEF BarInv, Together
<1>5. ASSUME NEW u \in Threads
      PROVE  place[u] > p \/ (place[u] = p /\ arrivals[u] = departures[u] + 1)
  <2>1. CASE place[u] > p
    BY <2>1
  <2>2. CASE place[u] = p
    <3>1. departures[t] = departures[u]
      <4>1. ~(\E b \in place[u] .. p - 1 : IsBar(b)) /\ place[u] <= place[t]
        BY <2>2, <1>3
      <4> QED BY <4>1, <1>4, <1>3 DEF Together
    <3> QED BY <3>1, <2>2, <1>2, <1>3 DEF BarInv
  <2>3. CASE place[u] < p
    <3>1. place[u] <= place[t]
      BY <2>3, <1>3
    <3>2. arrivals[u] >= departures[t] + 1 /\ departures[t] >= departures[u]
      BY <3>1, <1>2, <1>3, <1>4 DEF Together
    <3>3. arrivals[u] = departures[u] + 1 /\ IsBar(place[u])
      BY <3>2, <1>3 DEF BarInv
    <3>4. place[u] \in place[u] .. place[t] - 1
      BY <2>3, <1>3
    <3>5. departures[t] = departures[u] + 1
      BY <3>1, <3>3, <3>4, <1>4 DEF Together
    <3> QED BY <3>2, <3>3, <3>5, <1>3
  <2> QED BY <2>1, <2>2, <2>3, <1>3
<1> HIDE DEF p
<1>6. \A u \in Threads : arrivals'[u] = departures'[u]
         \/ (arrivals'[u] = departures'[u] + 1 /\ IsBar(place'[u]))
  BY <1>1, <1>2, <1>3 DEF BarInv
<1>7. ASSUME NEW v \in Threads, NEW u \in Threads, NEW b \in 1 .. Len(Program),
             IsBar(b), b < place'[v]
      PROVE  place'[u] > b \/ (place'[u] = b /\ arrivals'[u] = departures'[u] + 1)
  <2>1. place[u] > b \/ (place[u] = b /\ arrivals[u] = departures[u] + 1)
    <3>1. CASE b < place[v]
      BY <3>1, <1>7 DEF BarInv
    <3>2. CASE ~(b < place[v])
      <4>1. b = p
        BY <3>2, <1>1, <1>3, <1>7 DEF p
      <4> QED BY <4>1, <1>5
    <3> QED BY <3>1, <3>2
  <2>2. place[t] = p
    BY DEF p
  <2> QED BY <2>1, <2>2, <1>1, <1>2, <1>3
<1>8. ASSUME NEW v \in Threads, NEW u \in Threads PROVE Together(v, u)'
  <2>1. CASE v = u
    <3>1. ~(\E b \in place'[v] .. place'[u] - 1 : IsBar(b))
      BY <2>1, <1>1, <1>3
    <3> QED BY <3>1, <2>1, <1>3, <1>1 DEF Together
  <2>2. CASE v # t /\ u # t
    BY <2>2, <1>1, <1>3, <1>4 DEF Together
  <2>3. CASE v = t /\ u # t /\ place'[v] <= place'[u]
    <3>1. p \in p .. place[u] - 1 /\ p <= place[u]
      BY <2>3, <1>1, <1>3
    <3>2. departures[u] = departures[t] + 1
      BY <3>1, <1>1, <1>4 DEF Together, p
    <3>3. ASSUME NEW b \in p + 1 .. place[u] - 1, IsBar(b) PROVE FALSE
      <4>1. b \in 1 .. Len(Program) /\ b < place[u] /\ b > p
        BY <3>3, <1>3 DEF IsBar
      <4>2. place[t] > b \/ place[t] = b
        BY <4>1, <3>3 DEF BarInv
      <4> QED BY <4>1, <4>2, <1>3 DEF p
    <3>4. ~(\E b \in place'[v] .. place'[u] - 1 : IsBar(b))
      BY <3>3, <2>3, <1>1
    <3>5. departures'[u] = departures'[v]
      BY <3>2, <2>3, <1>3
    <3> QED BY <3>4, <3>5, <1>3, <1>1 DEF Together
  <2>4. CASE u = t /\ v # t /\ place'[v] <= place'[u]
    <3>1. place[v] <= p + 1
      BY <2>4, <1>1, <1>3
    <3>2. CASE place[v] = p
      <4>1. p \in place'[v] .. place'[u] - 1
        BY <3>2, <2>4, <1>1, <1>3
      <4>2. ~(\E b \in place[v] .. place[t] - 1 : IsBar(b)) /\ place[v] <= place[t]
        BY <3>2, <1>3 DEF p
      <4>3. departures[t] = departures[v]
        BY <4>2, <1>4, <1>3 DEF Together
      <4>4. departures'[u] = departures'[v] + 1
        BY <4>3, <2>4, <1>3
      <4> QED BY <4>1, <4>4, <1>1, <1>3 DEF Together
    <3>3. CASE place[v] = p + 1
      <4>1. ~(\E b \in place'[v] .. place'[u] - 1 : IsBar(b))
        BY <3>3, <2>4, <1>1, <1>3
      <4>2. p \in place[t] .. place[v] - 1 /\ place[t] <= place[v]
        BY <3>3, <1>3 DEF p
      <4>3. departures[v] = departures[t] + 1
        BY <4>2, <1>1, <1>4 DEF Together
      <4>4. departures'[u] = departures'[v]
        BY <4>3, <2>4, <1>3
      <4> QED BY <4>1, <4>4, <1>1, <1>3 DEF Together
    <3> QED BY <3>1, <3>2, <3>3, <1>3, <1>5
  <2> QED BY <2>1, <2>2, <2>3, <2>4 DEF Together
<1> QED BY <1>1, <1>3, <1>6, <1>7, <1>8 DEF BarInv, Together

LEMMA BarKept ==
  ASSUME GraphTypes, PieceInv, BarInv, Sound(Program), NEW t \in Threads, Run(t)
  PROVE  BarInv'
<1>1. CASE Begin(t) \/ End(t)
  <2>1. pass' = pass /\ UNCHANGED <<place, arrivals, departures>>
    BY <1>1 DEF Begin, End
  <2> QED BY <2>1, SameProgram DEF BarInv, IsBar
<1> QED BY <1>1, BarKeptMoving, BarKeptArriving, BarKeptLeaving DEF Run

LEMMA PieceKept ==
  ASSUME GraphTypes, PieceInv, Sound(Program), NEW t \in Threads, Run(t)
  PROVE  PieceInv'
<1> DEFINE Fine(u) ==
      /\ busy[u] => At(u, Computing) /\ next[u] < Limit(u, StepOf(u))
      /\ At(u, {"share"}) => u * Share(StepOf(u).pieces) <= next[u]
      /\ At(u, {"stride"}) => next[u] % NThreads = u
<1>1. \A u \in Threads : Fine(u)
  BY DEF PieceInv
<1>2. CASE Begin(t)
  <2>1. /\ pass' = pass /\ place' = place /\ next' = next /\ At(t, Computing)
        /\ next[t] < Limit(t, StepOf(t)) /\ busy' = [busy EXCEPT ![t] = TRUE]
    BY <1>2 DEF Begin
  <2>2. \A u \in Threads : busy'[u] = (IF u = t THEN TRUE ELSE busy[u])
    BY <2>1 DEF GraphTypes
  <2>3. \A u \in Threads : Fine(u)'
    BY <2>1, <2>2, <1>1, SameProgram DEF At, Done, StepOf
  <2> QED BY <2>3 DEF PieceInv
<1>3. CASE End(t)
  <2>1. /\ pass' = pass /\ Program' = Program /\ place' = place /\ busy[t]
        /\ \A u \in Threads : busy'[u] = (IF u = t THEN FALSE ELSE busy[u])
        /\ \A u \in Threads \ {t} : next'[u] = next[u]
    <3>1. /\ pass' = pass /\ Program' = Program /\ place' = place /\ busy[t]
          /\ busy' = [busy EXCEPT ![t] = FALSE]
          /\ \A u \in Threads \ {t} : next'[u] = next[u]
      BY <1>3, Ending
    <3>2. busy \in [Threads -> BOOLEAN]
      BY DEF GraphTypes
    <3>3. \A u \in Threads : busy'[u] = (IF u = t THEN FALSE ELSE busy[u])
      BY <3>1, <3>2
    <3> QED BY <3>1, <3>3
  <2>2. ASSUME NEW u \in Threads \ {t} PROVE Fine(u)'
    <3>1. next'[u] = next[u] /\ busy'[u] = busy[u]
      BY <2>1
    <3>2. /\ StepOf(u)' = StepOf(u) /\ (At(u, Computing)' <=> At(u, Computing))
          /\ (At(u, {"share"})' <=> At(u, {"share"}))
          /\ (At(u, {"stride"})' <=> At(u, {"stride"}))
      BY <2>1 DEF At, Done, StepOf
    <3>3. Fine(u)
      BY <1>1
    <3> QED BY <3>1, <3>2, <3>3
  <2>3. Fine(t)'
    <3>1. /\ ~busy'[t] /\ place[t] \in 1 .. Len(Program) /\ next[t] \in Nat
          /\ WellCut(Program[place[t]]) /\ At(t, Computing)
      BY <2>1, OnPiece, Here DEF PieceInv
    <3>2. At(t, {"share"})' => t * Share(StepOf(t).pieces)' <= next'[t]
      <4>1. SUFFICES ASSUME Program[place[t]].kind = "share"
                     PROVE  t * Share(Program[place[t]].pieces) <= next'[t]
        BY <2>1 DEF At, StepOf
      <4>2. next'[t] = next[t] + 1
        BY <1>3, <4>1, Ending
      <4>3. t * Share(Program[place[t]].pieces) \in Nat
        BY <3>1, ShareNat DEF WellCut
      <4>4. t * Share(Program[place[t]].pieces) <= next[t]
        BY <1>1, <4>1, <3>1 DEF At, StepOf
      <4> QED BY <4>2, <4>3, <4>4, <3>1
    <3>3. At(t, {"stride"})' => next'[t] % NThreads = t
      <4>1. SUFFICES ASSUME Program[place[t]].kind = "stride"
                     PROVE  next'[t] % NThreads = t
        BY <2>1 DEF At, StepOf
      <4>2. next'[t] = next[t] + NThreads
        BY <1>3, <4>1, Ending
      <4>3. next[t] % NThreads = t
        BY <1>1, <4>1, <3>1 DEF At, StepOf
      <4> QED BY <4>2, <4>3, <3>1, ModPlus
    <3> QED BY <3>1, <3>2, <3>3
  <2> QED BY <2>2, <2>3 DEF PieceInv
<1>4. CASE NoMore(t) \/ StoreChunk(t) \/ Leave(t)
  <2>1. /\ Program' = Program /\ busy' = busy /\ place[t] \in 1 .. Len(Program)
        /\ \A u \in Threads : place'[u] = (IF u = t THEN place[t] + 1 ELSE place[u])
        /\ \A u \in Threads \ {t} : next'[u] = next[u]
        /\ place[t] < Len(Program) => next'[t] = First(t, Program[place[t] + 1])
    BY <1>4, Moving
  <2>2. ASSUME NEW u \in Threads \ {t} PROVE Fine(u)'
    <3>1. next'[u] = next[u] /\ busy'[u] = busy[u]
      BY <2>1
    <3>2. /\ StepOf(u)' = StepOf(u) /\ (At(u, Computing)' <=> At(u, Computing))
          /\ (At(u, {"share"})' <=> At(u, {"share"}))
          /\ (At(u, {"stride"})' <=> At(u, {"stride"}))
      BY <2>1 DEF At, Done, StepOf
    <3>3. Fine(u)
      BY <1>1
    <3> QED BY <3>1, <3>2, <3>3
  <2>3. ~busy[t]
    <3>1. CASE NoMore(t)
      BY <3>1 DEF NoMore
    <3>2. CASE StoreChunk(t) \/ Leave(t)
      BY <3>2, <1>1 DEF StoreChunk, Leave, At, Computing
    <3> QED BY <3>1, <3>2, <1>4
  <2>4. Fine(t)'
    <3>1. ASSUME ~Done(t)'
          PROVE  /\ place[t] < Len(Program) /\ StepOf(t)' = Program[place[t] + 1]
                 /\ WellCut(Program[place[t] + 1])
      <4>1. place[t] + 1 # Len(Program) + 1
        BY <3>1, <2>1 DEF Done
      <4>2. place[t] < Len(Program) /\ place[t] + 1 \in 1 .. Len(Program)
        BY <4>1, <2>1, Here
      <4> QED BY <4>2, <2>1 DEF StepOf, Sound
    <3>2. At(t, {"share"})' => t * Share(StepOf(t).pieces)' <= next'[t]
      <4>1. SUFFICES ASSUME ~Done(t)', StepOf(t)'.kind = "share"
                     PROVE  t * Share(StepOf(t)'.pieces) <= next'[t]
        BY DEF At
      <4>2. next'[t] = t * Share(StepOf(t)'.pieces)
        BY <4>1, <3>1, <2>1 DEF First
      <4>3. t * Share(StepOf(t)'.pieces) \in Nat
        BY <4>1, <3>1, ShareNat DEF WellCut
      <4> QED BY <4>2, <4>3
    <3>3. At(t, {"stride"})' => next'[t] % NThreads = t
      <4>1. SUFFICES ASSUME ~Done(t)', StepOf(t)'.kind = "stride"
                     PROVE  next'[t] % NThreads = t
        BY DEF At
      <4>2. next'[t] = t
        BY <4>1, <3>1, <2>1 DEF First
      <4>3. t \in 0 .. NThreads - 1 /\ NThreads \in Nat /\ NThreads > 0
        BY DEF Threads
      <4>4. t % NThreads = t
        BY <4>3, SMT
      <4> QED BY <4>2, <4>4
    <3> QED BY <3>2, <3>3, <2>1, <2>3
  <2> QED BY <2>2, <2>4 DEF PieceInv
<1>5. CASE Arrive(t)
  <2>1. pass' = pass /\ UNCHANGED <<place, next, busy>>
    BY <1>5 DEF Arrive
  <2> QED BY <2>1, SameProgram DEF PieceInv, At, Done, StepOf
<1> QED BY <1>2, <1>3, <1>4, <1>5 DEF Run

-----------------------------------------------------------------------------
(* Stealing.                                                               *)

LEMMA Meets ==
  ASSUME GraphTypes, BarInv, Sound(Program), NEW v \in Threads, NEW u \in Threads,
         NEW r \in 1 .. Len(Program), ~IsBar(r), place[v] <= r,
         NEW k \in Nat, k <= place[u]
  PROVE  Meet(Program, r, k)
<1> SUFFICES ASSUME NEW b \in r .. k - 1, Program[b].kind = "barrier" PROVE FALSE
  BY DEF Meet
<1>1. Len(Program) \in Nat /\ place[u] \in 1 .. Len(Program) + 1 /\ place[v] \in Nat /\ r \in Nat
  BY Here
<1>2. b \in 1 .. Len(Program) /\ b < place[u] /\ IsBar(b)
  BY <1>1 DEF IsBar
<1>3. place[v] >= b
  BY <1>2, AllCame
<1>4. b = r
  BY <1>1, <1>3
<1> QED BY <1>2, <1>4

\* Only the step that is being stolen from can use the counter.
LEMMA OneLive ==
  ASSUME GraphTypes, BarInv, Sound(Program), NEW t \in Threads,
         place[t] \in 1 .. Len(Program), UsesChunk(Program[place[t]]),
         NEW s \in 1 .. Len(Program), IsSteal(s), Live(s)
  PROVE  place[t] = s
<1> DEFINE k == place[t]
<1>1. k \in Nat /\ s \in Nat /\ ~IsBar(k) /\ ~IsBar(s) /\ Program[s].kind = "steal"
  BY DEF UsesChunk, IsBar, IsSteal
<1>2. PICK u \in Threads : place[u] >= s
  BY DEF Live
<1>3. PICK v \in Threads : place[v] <= s
  BY DEF Live
<1>4. CASE k < s
  <2>1. Meet(Program, k, s)
    BY <1>1, <1>2, <1>4, Here, Meets
  <2>2. Agree(Program[k], Program[s])
    BY <2>1, <1>4 DEF Sound
  <2> QED BY <2>2, <1>1 DEF Agree
<1>5. CASE s < k
  <2>1. Meet(Program, s, k)
    BY <1>1, <1>3, <1>5, Here, Meets
  <2>2. Agree(Program[s], Program[k])
    BY <2>1, <1>5 DEF Sound
  <2> QED BY <2>2, <1>1 DEF Agree
<1> QED BY <1>1, <1>4, <1>5

LEMMA AtMost ==
  ASSUME NEW n \in Nat, NEW T \in SUBSET (0 .. n - 1)
  PROVE  IsFiniteSet(T) /\ Cardinality(T) <= n
<1>1. IsFiniteSet(0 .. n - 1) /\ Cardinality(0 .. n - 1) = n
  BY FS_Interval
<1>2. IsFiniteSet(T) /\ Cardinality(T) <= Cardinality(0 .. n - 1)
  BY <1>1, FS_Subset
<1> QED BY <1>1, <1>2

LEMMA SatedCounts ==
  ASSUME NEW s \in 1 .. Len(Program), Sound(Program)
  PROVE  /\ IsFiniteSet(Sated(s)) /\ Cardinality(Sated(s)) \in Nat
         /\ Cardinality(Sated(s)) <= NThreads
         /\ Cardinality(Sated(s)) <= Program[s].pieces
<1>1. Program[s].pieces \in Nat
  BY DEF Sound, WellCut
<1>2. Sated(s) \subseteq 0 .. NThreads - 1 /\ Sated(s) \subseteq 0 .. Program[s].pieces - 1
  BY <1>1, NThreadsPos DEF Sated, Threads
<1>4. IsFiniteSet(Sated(s)) /\ Cardinality(Sated(s)) <= NThreads
  BY <1>2, AtMost, NThreadsPos
<1>5. Cardinality(Sated(s)) <= Program[s].pieces
  BY <1>1, <1>2, AtMost
<1> QED BY <1>4, <1>5, FS_CardinalityType

\* The thread that comes to the stealing first finds the counter fresh.
LEMMA FirstToCome ==
  ASSUME GraphTypes, BarInv, FreshInv, BarInv', Sound(Program), NEW t \in Threads,
         NoMore(t) \/ StoreChunk(t) \/ Leave(t),
         NEW s \in 1 .. Len(Program), IsSteal(s), \A u \in Threads : place[u] < s,
         place'[t] = s
  PROVE  chunk' = NThreads
<1>1. /\ Program' = Program
      /\ \A u \in Threads : place'[u] = (IF u = t THEN place[t] + 1 ELSE place[u])
      /\ NoMore(t) => chunk' = chunk
      /\ StoreChunk(t) => chunk' = NThreads
      /\ Leave(t) => chunk' = chunk
  BY Moving
<1>2. PICK r \in 1 .. s - 1 : ResetFor(Program, r, s)
  BY DEF Sound, IsSteal
<1>3. PICK b \in r .. s - 1 : IsBar(b) /\ b # r
  BY <1>2 DEF ResetFor, IsBar
<1>4. /\ r \in Nat /\ s \in Nat /\ b \in Nat /\ b > r /\ b < s /\ b \in 1 .. Len(Program)
      /\ \A u \in Threads : place[u] \in Nat
      /\ r \in 1 .. Len(Program) /\ r < s
  BY <1>2, <1>3, Here
<1>5. IsBar(b)' /\ b < place'[t] /\ b \in 1 .. Len(Program')
  BY <1>1, <1>3, <1>4 DEF IsBar
<1>6. \A u \in Threads : place'[u] > b \/ place'[u] = b
  BY <1>5 DEF BarInv
<1>7. \A u \in Threads : r < place[u] /\ place[u] < s
  <2> TAKE u \in Threads
  <2>1. place'[u] >= b
    BY <1>6, <1>4, <1>1
  <2>2. CASE u # t
    BY <2>1, <2>2, <1>1, <1>4
  <2>3. CASE u = t
    <3>1. place[t] + 1 = s
      BY <1>1
    <3> QED BY <3>1, <2>3, <1>4
  <2> QED BY <2>2, <2>3
<1>8. chunk = NThreads
  BY <1>2, <1>4, <1>7 DEF FreshInv
<1> QED BY <1>1, <1>8

LEMMA FreshKept ==
  ASSUME GraphTypes, PieceInv, FreshInv, Sound(Program), NEW t \in Threads, Run(t)
  PROVE  FreshInv'
<1>1. pass' = pass /\ Program' = Program
  BY SameProgram DEF Run, Begin, End, NoMore, StoreChunk, Arrive, Leave
<1> SUFFICES ASSUME NEW s \in 1 .. Len(Program), NEW r \in 1 .. Len(Program),
                    IsSteal(s), r < s, ResetFor(Program, r, s),
                    \A u \in Threads : r < place'[u] /\ place'[u] < s
             PROVE  chunk' = NThreads
  BY <1>1 DEF FreshInv, IsSteal
<1>2. (\A u \in Threads : r < place[u] /\ place[u] < s) => chunk = NThreads
  BY DEF FreshInv
<1>3. CASE Begin(t) \/ Arrive(t)
  BY <1>2, <1>3 DEF Begin, Arrive
<1>4. CASE End(t)
  <2>1. place' = place /\ place[t] \in Nat /\ r \in Nat /\ s \in Nat
    BY <1>4, Ending, Here
  <2>2. place[t] \in r .. s - 1
    BY <2>1
  <2>3. Program[place[t]].kind # "steal"
    BY <2>2 DEF ResetFor
  <2> QED BY <2>1, <2>3, <1>2, <1>4, Ending
<1>5. CASE NoMore(t) \/ StoreChunk(t) \/ Leave(t)
  <2>1. /\ \A u \in Threads : place'[u] = (IF u = t THEN place[t] + 1 ELSE place[u])
        /\ NoMore(t) => chunk' = chunk /\ Program[place[t]].kind \in Computing
        /\ StoreChunk(t) => chunk' = NThreads
        /\ Leave(t) => chunk' = chunk /\ Program[place[t]].kind = "barrier"
        /\ place[t] \in Nat /\ r \in Nat /\ s \in Nat
    BY <1>5, Moving, Here
  <2>2. CASE ~StoreChunk(t)
    <3>1. place[t] # r
      BY <2>1, <2>2, <1>5 DEF ResetFor, Computing
    <3>2. r < place[t] /\ place[t] < s
      BY <3>1, <2>1
    <3>3. \A u \in Threads : r < place[u] /\ place[u] < s
      BY <3>2, <2>1
    <3>4. chunk' = chunk
      BY <2>1, <2>2, <1>5
    <3> QED BY <3>3, <3>4, <1>2
  <2> QED BY <2>1, <2>2
<1> QED BY <1>3, <1>4, <1>5 DEF Run

LEMMA PieceNumbers ==
  ASSUME GraphTypes, Sound(Program)
  PROVE  /\ Len(Program) \in Nat /\ chunk \in Nat
         /\ \A u \in Threads : next[u] \in Nat /\ place[u] \in Nat /\ u \in Nat /\ u < NThreads
         /\ \A s \in 1 .. Len(Program) : s \in Nat /\ Program[s].pieces \in Nat
<1>1. Len(Program) \in Nat /\ chunk \in Nat
  BY DEF Sound, GraphTypes
<1>2. \A u \in Threads : next[u] \in Nat /\ place[u] \in Nat
  BY Here
<1>3. \A u \in Threads : u \in Nat /\ u < NThreads
  BY DEF Threads
<1>4. \A s \in 1 .. Len(Program) : s \in Nat /\ Program[s].pieces \in Nat
  BY <1>1 DEF Sound, WellCut
<1> QED BY <1>1, <1>2, <1>3, <1>4

LEMMA StealSame ==
  ASSUME NEW s \in 1 .. Len(Program), StealAt(s), Program' = Program, chunk' = chunk,
         place' = place, next' = next
  PROVE  StealAt(s)'
<1>1. Sated(s)' = Sated(s)
  BY DEF Sated
<1> QED BY <1>1 DEF StealAt

LEMMA StealEnding ==
  ASSUME GraphTypes, PieceInv, BarInv, Sound(Program), NEW t \in Threads, End(t),
         NEW s \in 1 .. Len(Program), IsSteal(s), Live(s), StealAt(s)
  PROVE  StealAt(s)'
<1> DEFINE n == Program[s].pieces
<1>1. /\ Program' = Program /\ place' = place
      /\ \A u \in Threads \ {t} : next'[u] = next[u]
      /\ Program[place[t]].kind = "steal" => next'[t] = chunk /\ chunk' = chunk + 1
      /\ Program[place[t]].kind # "steal" => chunk' = chunk
      /\ place[t] \in 1 .. Len(Program) /\ next[t] \in Pieces(place[t])
  BY Ending, OnPiece
<1>2. /\ n \in Nat /\ chunk \in Nat /\ s \in Nat /\ Program[s].kind = "steal"
      /\ \A u \in Threads : next[u] \in Nat /\ place[u] \in Nat /\ u \in Nat
      /\ \A u \in Threads : u < NThreads
  BY PieceNumbers DEF IsSteal
<1>3. CASE Program[place[t]].kind = "steal"
  <2>1. place[t] = s
    BY <1>1, <1>3, OneLive DEF UsesChunk
  <2>2. next'[t] = chunk /\ chunk' = chunk + 1 /\ next[t] < n
    BY <1>1, <1>2, <1>3, <2>1 DEF Pieces
  <2>3. t < n
    BY <1>2, <2>1, <2>2 DEF StealAt
  <2>4. t \notin Sated(s)
    BY <1>2, <2>1, <2>2 DEF Sated
  <2>5. Sated(s)' = IF chunk >= n THEN Sated(s) \cup {t} ELSE Sated(s)
    BY <1>1, <1>2, <2>1, <2>2, <2>3, <2>4 DEF Sated
  <2>6. Cardinality(Sated(s)') = IF chunk >= n THEN Cardinality(Sated(s)) + 1
                                             ELSE Cardinality(Sated(s))
    BY <2>4, <2>5, SatedCounts, FS_AddElement
  <2>7. chunk' <= (IF n >= NThreads THEN n ELSE NThreads) + Cardinality(Sated(s)')
    <3>1. /\ chunk <= (IF n >= NThreads THEN n ELSE NThreads) + Cardinality(Sated(s))
          /\ Cardinality(Sated(s)) \in Nat /\ NThreads \in Nat
      BY SatedCounts, NThreadsPos DEF StealAt
    <3>2. CASE chunk >= n
      BY <1>2, <2>2, <2>6, <3>1, <3>2
    <3>3. CASE chunk < n
      <4>1. chunk' <= n /\ Cardinality(Sated(s)') = Cardinality(Sated(s))
        BY <1>2, <2>2, <2>6, <3>3
      <4> QED BY <1>2, <2>2, <3>1, <4>1
    <3> QED BY <1>2, <3>2, <3>3
  <2>8. \A u \in Threads : place'[u] = s =>
          next'[u] = u \/ (NThreads <= next'[u] /\ next'[u] < chunk')
    BY <2>2, <1>1, <1>2 DEF StealAt
  <2>9. \A u \in Threads : u # t /\ place[u] = s => next[u] # chunk
    BY <1>2 DEF StealAt
  <2>10. \A u, v \in Threads : u # v /\ place'[u] = s /\ place'[v] = s => next'[u] # next'[v]
    BY <2>2, <2>9, <1>1 DEF StealAt
  <2>11. (\E u \in Threads : place'[u] > s) => n <= chunk'
    BY <2>2, <1>1, <1>2 DEF StealAt
  <2>12. chunk' >= NThreads
    BY <2>2, <1>2 DEF StealAt
  <2> QED BY <2>7, <2>8, <2>10, <2>11, <2>12, <1>1 DEF StealAt
<1>4. CASE Program[place[t]].kind # "steal"
  <2>1. place[t] # s
    BY <1>2, <1>4
  <2>2. Sated(s)' = Sated(s)
    BY <1>1, <2>1 DEF Sated
  <2> QED BY <1>1, <1>4, <2>1, <2>2 DEF StealAt
<1> QED BY <1>3, <1>4

LEMMA StealMoving ==
  ASSUME GraphTypes, PieceInv, BarInv, Sound(Program), NEW t \in Threads,
         NoMore(t) \/ StoreChunk(t) \/ Leave(t),
         NEW s \in 1 .. Len(Program), IsSteal(s), Live(s), StealAt(s)
  PROVE  StealAt(s)'
<1> DEFINE n == Program[s].pieces
           p == place[t]
<1>1. /\ Program' = Program /\ p \in 1 .. Len(Program)
      /\ \A u \in Threads : place'[u] = (IF u = t THEN p + 1 ELSE place[u])
      /\ \A u \in Threads \ {t} : next'[u] = next[u]
      /\ p < Len(Program) => next'[t] = First(t, Program[p + 1])
      /\ NoMore(t) => chunk' = chunk /\ Program[p].kind \in Computing
      /\ StoreChunk(t) => Program[p].kind = "reset"
      /\ Leave(t) => chunk' = chunk /\ Program[p].kind = "barrier"
  BY Moving
<1>2. /\ n \in Nat /\ chunk \in Nat /\ s \in Nat /\ Program[s].kind = "steal"
      /\ \A u \in Threads : next[u] \in Nat /\ place[u] \in Nat /\ u \in Nat
      /\ \A u \in Threads : u < NThreads
      /\ Len(Program) \in Nat
  BY PieceNumbers DEF IsSteal
<1>3. chunk' = chunk
  <2>1. ASSUME StoreChunk(t) PROVE FALSE
    <3>1. p = s
      BY <2>1, <1>1, OneLive DEF UsesChunk
    <3> QED BY <3>1, <2>1, <1>1, <1>2
  <2> QED BY <2>1, <1>1
<1>4. CASE p = s
  <2>1. NoMore(t)
    BY <1>1, <1>2, <1>4
  <2>2. next[t] >= n
    BY <2>1, <1>2, <1>4 DEF NoMore, Limit, StepOf
  <2>3. n <= chunk
    BY <2>2, <1>2, <1>4 DEF StealAt
  <2>4. Sated(s)' = Sated(s)
    BY <2>2, <1>1, <1>2, <1>4 DEF Sated
  <2>5. \A u \in Threads : place'[u] = s => place[u] = s /\ next'[u] = next[u]
    BY <1>1, <1>2, <1>4
  <2> QED BY <2>3, <2>4, <2>5, <1>1, <1>3 DEF StealAt
<1>5. CASE p + 1 = s
  <2>1. next'[t] = t /\ place'[t] = s /\ place[t] # s /\ ~(place[t] > s)
    BY <1>1, <1>2, <1>5 DEF First
  <2>2. \A u \in Threads \ {t} : place'[u] = place[u] /\ next'[u] = next[u]
    BY <1>1
  <2>3. Sated(s)' = Sated(s)
    <3>1. t \notin Sated(s)
      BY <2>1 DEF Sated
    <3>2. t \notin Sated(s)'
      BY <2>1, <1>1, <1>2 DEF Sated
    <3>3. \A u \in Threads \ {t} : u \in Sated(s)' <=> u \in Sated(s)
      BY <2>2, <1>1 DEF Sated
    <3> QED BY <3>1, <3>2, <3>3 DEF Sated
  <2>4. \A u \in Threads \ {t} : place[u] = s => next[u] # t
    BY <1>2 DEF StealAt
  <2>5. \A u, v \in Threads : u # v /\ place'[u] = s /\ place'[v] = s => next'[u] # next'[v]
    BY <2>1, <2>2, <2>4 DEF StealAt
  <2>6. \A u \in Threads : place'[u] = s =>
          next'[u] = u \/ (NThreads <= next'[u] /\ next'[u] < chunk')
    BY <2>1, <2>2, <1>3 DEF StealAt
  <2>7. (\E u \in Threads : place'[u] > s) => n <= chunk'
    BY <2>1, <2>2, <1>2, <1>3 DEF StealAt
  <2> QED BY <2>3, <2>5, <2>6, <2>7, <1>1, <1>3 DEF StealAt
<1>6. CASE p # s /\ p + 1 # s
  <2>1. \A u \in Threads : (place'[u] = s <=> place[u] = s) /\ (place'[u] > s <=> place[u] > s)
    BY <1>1, <1>2, <1>6
  <2>2. \A u \in Threads : place[u] = s => next'[u] = next[u]
    BY <1>1, <1>6
  <2>3. Sated(s)' = Sated(s)
    BY <2>1, <2>2, <1>1 DEF Sated
  <2> QED BY <2>1, <2>2, <2>3, <1>1, <1>3 DEF StealAt
<1> QED BY <1>4, <1>5, <1>6

\* The first thread comes to the stealing.
LEMMA StealStarts ==
  ASSUME GraphTypes, PieceInv, BarInv, FreshInv, BarInv', Sound(Program), NEW t \in Threads,
         NoMore(t) \/ StoreChunk(t) \/ Leave(t),
         NEW s \in 1 .. Len(Program), IsSteal(s), ~Live(s), Live(s)'
  PROVE  /\ StealAt(s)' /\ chunk' = NThreads /\ place'[t] = s /\ next'[t] = t
         /\ \A u \in Threads : place[u] < s
<1> DEFINE p == place[t]
<1>1. /\ Program' = Program /\ p \in 1 .. Len(Program)
      /\ \A u \in Threads : place'[u] = (IF u = t THEN p + 1 ELSE place[u])
      /\ p < Len(Program) => next'[t] = First(t, Program[p + 1])
  BY Moving
<1>2. /\ Program[s].pieces \in Nat /\ s \in Nat /\ Program[s].kind = "steal"
      /\ \A u \in Threads : place[u] \in Nat /\ u \in Nat
      /\ Len(Program) \in Nat
  BY PieceNumbers DEF IsSteal
<1>3. \E u \in Threads : place[u] <= s
  BY <1>1, <1>2 DEF Live
<1>4. \A u \in Threads : place[u] < s
  BY <1>2, <1>3 DEF Live
<1>5. p + 1 = s
  BY <1>1, <1>2, <1>4 DEF Live
<1>6. chunk' = NThreads
  BY <1>1, <1>4, <1>5, FirstToCome
<1>7. next'[t] = t /\ place'[t] = s
  BY <1>1, <1>2, <1>5 DEF First
<1>8. \A u \in Threads \ {t} : place'[u] < s
  BY <1>1, <1>4
<1>9. Cardinality(Sated(s))' \in Nat
  <2>1. Sound(Program)' /\ s \in 1 .. Len(Program)'
    BY <1>1
  <2>2. Sated(s)' \subseteq 0 .. NThreads - 1
    BY NThreadsPos DEF Sated, Threads
  <2> QED BY <2>2, AtMost, FS_CardinalityType, NThreadsPos
<1>10. StealAt(s)'
  <2>1. chunk' <= (IF Program[s].pieces >= NThreads THEN Program[s].pieces ELSE NThreads)
                     + Cardinality(Sated(s))'
    BY <1>2, <1>6, <1>9, NThreadsPos
  <2>2. \A u \in Threads : place'[u] = s => u = t
    BY <1>8, <1>2, <1>1
  <2>3. \A u \in Threads : ~(place'[u] > s)
    BY <1>7, <1>8, <1>2, <1>1
  <2>4. chunk' >= NThreads
    BY <1>6, NThreadsPos
  <2>5. \A u \in Threads : place'[u] = s =>
          next'[u] = u \/ (NThreads <= next'[u] /\ next'[u] < chunk')
    BY <2>2, <1>7
  <2>6. \A u, v \in Threads : u # v /\ place'[u] = s /\ place'[v] = s => next'[u] # next'[v]
    BY <2>2
  <2>7. chunk' <= (IF Program[s].pieces' >= NThreads THEN Program[s].pieces' ELSE NThreads)
                    + Cardinality(Sated(s))'
    <3>1. Program[s].pieces' = Program[s].pieces
      BY <1>1
    <3> QED BY <2>1, <3>1
  <2>8. (\E u \in Threads : place'[u] > s) => Program[s].pieces' <= chunk'
    BY <2>3
  <2> QED BY <2>4, <2>5, <2>6, <2>7, <2>8, Zenon DEF StealAt
<1> QED BY <1>4, <1>6, <1>7, <1>10

LEMMA StealKept ==
  ASSUME GraphTypes, PieceInv, BarInv, StealInv, FreshInv, BarInv', Sound(Program),
         NEW t \in Threads, Run(t)
  PROVE  StealInv'
<1>1. Program' = Program
  BY SameProgram DEF Run, Begin, End, NoMore, StoreChunk, Arrive, Leave
<1> SUFFICES ASSUME NEW s \in 1 .. Len(Program), IsSteal(s), Live(s)'
             PROVE  StealAt(s)'
  BY <1>1 DEF StealInv, IsSteal
<1>2. Live(s) => StealAt(s)
  BY DEF StealInv
<1>3. CASE Begin(t) \/ Arrive(t)
  <2>1. UNCHANGED <<place, next, chunk>>
    BY <1>3 DEF Begin, Arrive
  <2>2. Live(s)
    BY <2>1 DEF Live
  <2> QED BY <2>1, <2>2, <1>1, <1>2, StealSame
<1>4. CASE End(t)
  <2>1. Live(s)
    BY <1>4, Ending DEF Live
  <2> QED BY <2>1, <1>2, <1>4, StealEnding
<1>5. CASE NoMore(t) \/ StoreChunk(t) \/ Leave(t)
  BY <1>2, <1>5, StealMoving, StealStarts
<1> QED BY <1>3, <1>4, <1>5 DEF Run

LEMMA ChunkKept ==
  ASSUME GraphTypes, PieceInv, BarInv, StealInv, FreshInv, ChunkInv, BarInv', Sound(Program),
         NEW t \in Threads, Run(t)
  PROVE  ChunkInv'
<1>1. Program' = Program /\ chunk \in Nat
  BY SameProgram DEF Run, Begin, End, NoMore, StoreChunk, Arrive, Leave, GraphTypes
<1>2. CASE chunk' = chunk
  BY <1>1, <1>2 DEF ChunkInv
<1>3. CASE StoreChunk(t)
  <2>1. chunk' = NThreads /\ place[t] \in 1 .. Len(Program) /\ WellCut(Program[place[t]])
    BY <1>3, Moving
  <2>2. chunk' <= Program[place[t]].pieces + NThreads
    BY <2>1, NThreadsPos DEF WellCut
  <2> QED BY <2>1, <2>2, <1>1 DEF ChunkInv
<1>4. CASE End(t) /\ chunk' # chunk
  <2> PICK s : s = place[t]
    OBVIOUS
  <2>1. s \in 1 .. Len(Program) /\ IsSteal(s) /\ place' = place /\ s \in Nat
    BY <1>4, Ending, OnPiece DEF IsSteal
  <2>2. Live(s)' /\ IsSteal(s)' /\ s \in 1 .. Len(Program)'
    BY <2>1, <1>1 DEF Live, IsSteal
  <2>3. StealAt(s)'
    BY <2>2, StealKept DEF StealInv, Run
  <2>4. /\ Cardinality(Sated(s)') \in Nat /\ Cardinality(Sated(s)') <= NThreads
        /\ Cardinality(Sated(s)') <= Program[s].pieces
        /\ Program[s].pieces \in Nat
    <3>1. Program[s].pieces \in Nat
      BY <2>1 DEF Sound, WellCut
    <3>2. Sated(s)' \subseteq 0 .. NThreads - 1 /\ Sated(s)' \subseteq 0 .. Program[s].pieces - 1
      BY <3>1, <1>1, NThreadsPos DEF Sated, Threads
    <3>3. IsFiniteSet(Sated(s)') /\ Cardinality(Sated(s)') <= NThreads
      BY <3>2, AtMost, NThreadsPos
    <3>4. Cardinality(Sated(s)') <= Program[s].pieces
      BY <3>1, <3>2, AtMost
    <3> QED BY <3>1, <3>3, <3>4, FS_CardinalityType
  <2>5. chunk' <= Program[s].pieces + NThreads
    <3>1. chunk' \in Nat
      BY <1>1, <1>4, Ending
    <3>2. chunk' <= (IF Program[s].pieces >= NThreads THEN Program[s].pieces ELSE NThreads)
                      + Cardinality(Sated(s)')
      BY <2>3, <1>1 DEF StealAt
    <3> QED BY <3>1, <3>2, <2>4, NThreadsPos
  <2> QED BY <2>1, <2>5, <1>1 DEF ChunkInv
<1> QED BY <1>2, <1>3, <1>4, Moving DEF Run, Begin, Arrive

-----------------------------------------------------------------------------
(* What is done.                                                           *)

\* A thread that works on a piece has not done it yet, and no other thread
\* can be on it.
LEMMA NotDoneYet ==
  ASSUME GraphTypes, PieceInv, Sound(Program), NEW t \in Threads, busy[t],
         Writes(t) # {}
  PROVE  ~IsDone(place[t], next[t])
<1>1. /\ Owns(t, Program[place[t]], next[t]) \/ Program[place[t]].kind = "steal"
      /\ place[t] \in Nat /\ next[t] \in Nat
  BY OnPiece, Here
<1>2. CASE Program[place[t]].kind = "steal"
  BY <1>1, <1>2 DEF IsDone, Holds
<1>3. CASE Program[place[t]].kind # "steal"
  BY <1>1, <1>3 DEF IsDone
<1> QED BY <1>2, <1>3

LEMMA OwnersAlike ==
  ASSUME NEW step, WellCut(step), step.kind \in Computing \ {"steal"},
         NEW t \in Threads, NEW u \in Threads, NEW i \in Nat,
         Owns(t, step, i), Owns(u, step, i)
  PROVE  t = u
<1>1. CASE step.kind = "share"
  BY <1>1, ShareApart DEF Owns, WellCut
<1>2. CASE step.kind # "share"
  BY <1>2 DEF Owns
<1> QED BY <1>1, <1>2

\* Every piece has a thread that must do it.
LEMMA HasOwner ==
  ASSUME NEW step, WellCut(step), NEW i \in 0 .. step.pieces - 1
  PROVE  \E t \in Threads : Owns(t, step, i)
<1>1. step.pieces \in Nat /\ i \in Nat
  BY DEF WellCut
<1>2. CASE step.kind = "share"
  BY <1>1, <1>2, ShareOwner DEF Owns
<1>3. CASE step.kind = "stride"
  <2>1. i % NThreads \in Threads
    BY <1>1 DEF Threads
  <2> QED BY <2>1, <1>3 DEF Owns
<1>4. CASE step.kind \notin {"share", "stride"}
  BY <1>4, NThreadsPos DEF Owns
<1> QED BY <1>2, <1>3, <1>4

\* A thread whose shares of a step are over has done its pieces, and when it
\* comes to a step it has done none.
LEMMA OwnLimits ==
  ASSUME NEW step, WellCut(step), step.kind \in Computing \ {"steal"},
         NEW t \in Threads, NEW i \in 0 .. step.pieces - 1, Owns(t, step, i)
  PROVE  Limit(t, step) \in Int /\ i < Limit(t, step) /\ First(t, step) <= i
<1>1. step.pieces \in Nat /\ i \in Nat /\ t \in Nat
  BY NThreadsPos DEF WellCut
<1>2. CASE step.kind = "share"
  <2>1. t * Share(step.pieces) \in Nat /\ (t + 1) * Share(step.pieces) \in Nat
    BY <1>1, ShareNat
  <2> QED BY <2>1, <1>1, <1>2 DEF Owns, Limit, First, Lesser
<1>3. CASE step.kind = "stride"
  <2>1. t <= i
    BY <1>1, <1>3, StrideFirst DEF Owns
  <2> QED BY <2>1, <1>1, <1>3 DEF Limit, First
<1>4. CASE step.kind \in {"alone", "each"}
  <2>1. t = 0 /\ i = 0
    BY <1>1, <1>4 DEF Owns, WellCut
  <2> QED BY <2>1, <1>1, <1>4 DEF Limit, First
<1> QED BY <1>2, <1>3, <1>4 DEF Computing

\* Somebody has come to a step of which something is done.
LEMMA DoneIsReached ==
  ASSUME GraphTypes, Sound(Program), NEW s \in 1 .. Len(Program), NEW i \in Pieces(s),
         IsDone(s, i)
  PROVE  \E t \in Threads : place[t] >= s
<1>1. WellCut(Program[s]) /\ \A t \in Threads : place[t] \in Nat
  BY Here DEF Sound
<1>2. s \in Nat
  OBVIOUS
<1>3. CASE Program[s].kind = "steal"
  <2>1. CASE \A t \in Threads : place[t] > s
    BY <2>1, <1>1, <1>2, NThreadsPos
  <2> QED BY <2>1, <1>3 DEF IsDone
<1>4. CASE Program[s].kind # "steal"
  <2>1. PICK t \in Threads : Owns(t, Program[s], i)
    BY <1>1, HasOwner DEF Pieces
  <2>2. place[t] > s \/ place[t] = s
    BY <2>1, <1>4 DEF IsDone
  <2> QED BY <2>2, <1>1, <1>2
<1> QED BY <1>3, <1>4

LEMMA PastIsDone ==
  ASSUME NEW s \in 1 .. Len(Program), NEW i, \A t \in Threads : place[t] > s
  PROVE  IsDone(s, i)
BY DEF IsDone

\* What is done stays done, and only the end of a piece makes one done.
LEMMA DoneEnding ==
  ASSUME GraphTypes, PieceInv, BarInv, StealInv, Sound(Program), NEW t \in Threads, End(t),
         NEW s \in 1 .. Len(Program), NEW i \in Pieces(s)
  PROVE  /\ IsDone(s, i) => IsDone(s, i)'
         /\ IsDone(s, i)' => IsDone(s, i) \/ (s = place[t] /\ i = next[t])
<1>1. /\ Program' = Program /\ place' = place
      /\ \A u \in Threads \ {t} : next'[u] = next[u]
      /\ Program[place[t]].kind = "steal" => next'[t] = chunk /\ chunk' = chunk + 1
      /\ Program[place[t]].kind = "stride" => next'[t] = next[t] + NThreads
      /\ Program[place[t]].kind \notin {"steal", "stride"} => next'[t] = next[t] + 1
      /\ Program[place[t]].kind # "steal" => chunk' = chunk
      /\ place[t] \in 1 .. Len(Program) /\ WellCut(Program[place[t]])
      /\ Program[place[t]].kind \in Computing
  BY Ending, OnPiece
<1>2. i \in Nat /\ s \in Nat
  BY PieceNumbers DEF Pieces
<1>3. chunk \in Nat /\ \A u \in Threads : next[u] \in Nat /\ place[u] \in Nat
  BY PieceNumbers
<1>4. CASE place[t] # s
  <2>1. \A u \in Threads : place[u] = s => next'[u] = next[u]
    BY <1>1, <1>4
  <2>2. Program[s].kind # "steal" => (IsDone(s, i)' <=> IsDone(s, i))
    BY <2>1, <1>1 DEF IsDone
  <2>3. Program[s].kind = "steal" /\ chunk' = chunk => (IsDone(s, i)' <=> IsDone(s, i))
    BY <2>1, <1>1 DEF IsDone, Holds
  <2>4. ASSUME Program[s].kind = "steal", Program[place[t]].kind = "steal"
        PROVE  IsDone(s, i)' <=> IsDone(s, i)
    <3>1. ~Live(s)
      BY <2>4, <1>1, <1>4, OneLive DEF UsesChunk, IsSteal
    <3>2. (\A u \in Threads : place[u] > s) \/ (\A u \in Threads : ~(place[u] >= s))
      BY <3>1, <1>2, <1>3 DEF Live
    <3> QED BY <3>2, <2>4, <1>1 DEF IsDone
  <2> QED BY <2>2, <2>3, <2>4, <1>1
<1>5. CASE place[t] = s /\ Program[s].kind = "steal"
  <2>1. Live(s) /\ IsSteal(s)
    BY <1>2, <1>5 DEF Live, IsSteal
  <2>2. next'[t] = chunk /\ chunk' = chunk + 1
    BY <1>1, <1>5
  <2>3. ~(\A u \in Threads : place[u] > s) /\ (\E u \in Threads : place[u] >= s)
    BY <1>2, <1>5
  <2>4. IsDone(s, i) <=> i < chunk /\ \A u \in Threads : ~Holds(u, s, i)
    BY <2>3, <1>5 DEF IsDone
  <2>5. IsDone(s, i)' <=> i < chunk' /\ \A u \in Threads : ~Holds(u, s, i)'
    BY <2>3, <1>1, <1>5 DEF IsDone
  <2>6. \A u \in Threads \ {t} : Holds(u, s, i)' <=> Holds(u, s, i)
    BY <1>1 DEF Holds
  <2>7. (Holds(t, s, i) <=> next[t] = i) /\ (Holds(t, s, i)' <=> chunk = i)
    BY <2>2, <1>1, <1>2, <1>5 DEF Holds
  <2> QED BY <2>2, <2>4, <2>5, <2>6, <2>7, <1>2, <1>3, <1>5
<1>6. CASE place[t] = s /\ Program[s].kind # "steal"
  <2>1. IsDone(s, i) => IsDone(s, i)'
    <3>1. next'[t] > next[t]
      BY <1>1, <1>3, <1>6, NThreadsPos
    <3>2. next'[t] \in Nat
      BY <1>1, <1>3, <1>6, NThreadsPos
    <3> QED BY <3>1, <3>2, <1>1, <1>2, <1>3, <1>6 DEF IsDone
  <2>2. ASSUME IsDone(s, i)', ~IsDone(s, i) PROVE i = next[t]
    <3>1. PICK u \in Threads : Owns(u, Program[s], i) /\ ~(place[u] > s)
                                 /\ ~(place[u] = s /\ next[u] > i)
      BY <2>2, <1>6 DEF IsDone
    <3>2. place'[u] > s \/ (place'[u] = s /\ next'[u] > i)
      BY <2>2, <3>1, <1>1, <1>6 DEF IsDone
    <3>3. u = t
      BY <3>1, <3>2, <1>1
    <3>4. next[t] <= i /\ i < next'[t] /\ Owns(t, Program[s], i)
      BY <3>1, <3>2, <3>3, <1>1, <1>2, <1>3, <1>6
    <3>5. CASE Program[s].kind = "stride"
      <4>1. next[t] % NThreads = t /\ i % NThreads = t
        BY <3>4, <3>5, <1>1, <1>6, Here DEF PieceInv, Owns, At, StepOf
      <4>2. ~(next[t] < i)
        <5>1. ASSUME next[t] < i PROVE FALSE
          <6>1. next[t] + NThreads <= i
            BY <4>1, <5>1, <1>2, <1>3, StrideApart
          <6> QED BY <6>1, <3>4, <3>5, <1>1, <1>2, <1>3, <1>6, NThreadsPos
        <5> QED BY <5>1
      <4> QED BY <4>2, <3>4, <1>2, <1>3
    <3>6. CASE Program[s].kind # "stride"
      BY <3>4, <3>6, <1>1, <1>2, <1>3, <1>6
    <3> QED BY <3>5, <3>6
  <2> QED BY <2>1, <2>2, <1>6
<1> QED BY <1>4, <1>5, <1>6

LEMMA DoneMoving ==
  ASSUME GraphTypes, PieceInv, BarInv, StealInv, FreshInv, BarInv', Sound(Program),
         NEW t \in Threads, NoMore(t) \/ StoreChunk(t) \/ Leave(t),
         NEW s \in 1 .. Len(Program), NEW i \in Pieces(s)
  PROVE  IsDone(s, i)' <=> IsDone(s, i)
<1> DEFINE p == place[t]
<1>1. /\ Program' = Program /\ p \in 1 .. Len(Program) /\ WellCut(Program[p])
      /\ \A u \in Threads : place'[u] = (IF u = t THEN p + 1 ELSE place[u])
      /\ \A u \in Threads \ {t} : next'[u] = next[u]
      /\ p < Len(Program) => next'[t] = First(t, Program[p + 1])
      /\ NoMore(t) => chunk' = chunk /\ Program[p].kind \in Computing
      /\ StoreChunk(t) => Program[p].kind = "reset"
      /\ Leave(t) => chunk' = chunk /\ Program[p].kind = "barrier"
  BY Moving
<1>2. /\ i \in Nat /\ s \in Nat /\ chunk \in Nat /\ Len(Program) \in Nat /\ NThreads \in Nat
      /\ \A u \in Threads : next[u] \in Nat /\ place[u] \in Nat /\ u \in Nat /\ u < NThreads
  BY PieceNumbers DEF Pieces
<1>3. WellCut(Program[s]) /\ i < Program[s].pieces /\ Program[s].pieces \in Nat
  BY PieceNumbers DEF Sound, Pieces
<1>4. Program[s].kind \in Computing
  BY <1>2, <1>3 DEF WellCut, Kinds, Computing
<1>5. p = s => NoMore(t) /\ next[t] >= Limit(t, Program[s])
  <2>1. p = s => NoMore(t)
    BY <1>1, <1>4 DEF Computing
  <2> QED BY <2>1 DEF NoMore, StepOf
<1>6. CASE Program[s].kind # "steal"
  <2>1. ASSUME NEW u \in Threads, Owns(u, Program[s], i)
        PROVE  (place'[u] > s \/ (place'[u] = s /\ next'[u] > i))
                 <=> (place[u] > s \/ (place[u] = s /\ next[u] > i))
    <3>1. i < Limit(u, Program[s]) /\ First(u, Program[s]) <= i
      BY <2>1, <1>3, <1>4, <1>6, OwnLimits DEF Pieces
    <3>2. CASE u # t
      BY <3>2, <1>1
    <3>3. CASE u = t /\ p = s
      <4>1. Limit(t, Program[s]) \in Int
        BY <2>1, <3>3, <1>3, <1>4, <1>6, OwnLimits DEF Pieces
      <4>2. next[t] > i
        BY <4>1, <3>1, <3>3, <1>2, <1>5
      <4>3. place'[t] > s
        BY <3>3, <1>1, <1>2
      <4> QED BY <4>2, <4>3, <3>3
    <3>4. CASE u = t /\ p + 1 = s
      <4>1. next'[t] = First(t, Program[s]) /\ place'[t] = s
        BY <3>4, <1>1, <1>2
      <4>2. First(t, Program[s]) \in Nat
        BY <1>3, FirstNat
      <4> QED BY <4>1, <4>2, <3>1, <3>4, <1>2
    <3>5. CASE u = t /\ p # s /\ p + 1 # s
      BY <3>5, <1>1, <1>2
    <3> QED BY <3>2, <3>3, <3>4, <3>5
  <2> QED BY <2>1, <1>1, <1>6 DEF IsDone
<1>7. CASE Program[s].kind = "steal" /\ Live(s)
  <2>1. StealAt(s)
    BY <1>7 DEF StealInv, IsSteal
  <2>2. chunk' = chunk
    <3>1. ASSUME StoreChunk(t) PROVE FALSE
      <4>1. p = s
        BY <3>1, <1>1, <1>7, OneLive DEF UsesChunk, IsSteal
      <4> QED BY <4>1, <3>1, <1>1, <1>7
    <3> QED BY <3>1, <1>1
  <2>3. CASE p = s
    <3>1. next[t] >= Program[s].pieces
      BY <2>3, <1>5, <1>7 DEF Limit
    <3>2. i < chunk /\ ~Holds(t, s, i) /\ ~Holds(t, s, i)'
      <4>1. i < next[t]
        BY <3>1, <1>2, <1>3
      <4>2. next[t] < NThreads \/ next[t] < chunk
        BY <2>1, <2>3, <1>2 DEF StealAt
      <4>3. i < chunk
        BY <2>1, <4>1, <4>2, <1>2 DEF StealAt
      <4> QED BY <4>1, <4>3, <2>3, <1>1, <1>2 DEF Holds
    <3>3. \A u \in Threads \ {t} : Holds(u, s, i)' <=> Holds(u, s, i)
      BY <1>1 DEF Holds
    <3>4. (\E u \in Threads : place[u] >= s) /\ (\E u \in Threads : place'[u] >= s)
      BY <2>3, <1>1, <1>2
    <3>5. (\A u \in Threads : place'[u] > s) => \A u \in Threads : ~Holds(u, s, i)
      <4>1. SUFFICES ASSUME \A u \in Threads : place'[u] > s, NEW u \in Threads
                     PROVE  ~Holds(u, s, i)
        OBVIOUS
      <4>2. CASE u # t
        BY <4>1, <4>2, <1>1, <1>2 DEF Holds
      <4> QED BY <4>2, <3>2
    <3>6. IsDone(s, i)' <=> \A u \in Threads : ~Holds(u, s, i)'
      BY <3>2, <3>3, <3>4, <3>5, <2>2, <1>1, <1>7 DEF IsDone
    <3>7. IsDone(s, i) <=> \A u \in Threads : ~Holds(u, s, i)
      BY <3>2, <3>4, <2>3, <1>2, <1>7 DEF IsDone
    <3> QED BY <3>2, <3>3, <3>6, <3>7
  <2>4. CASE p # s
    <3>1. Holds(t, s, i)' <=> Holds(t, s, i)
      <4>1. CASE p + 1 = s
        <5>1. next'[t] = t /\ place'[t] = s
          BY <4>1, <1>1, <1>2, <1>7 DEF First
        <5> QED BY <5>1, <4>1, <1>2 DEF Holds
      <4>2. CASE p + 1 # s
        BY <4>2, <2>4, <1>1, <1>2 DEF Holds
      <4> QED BY <4>1, <4>2
    <3>2. \A u \in Threads \ {t} : Holds(u, s, i)' <=> Holds(u, s, i)
      BY <1>1 DEF Holds
    <3>3. (\A u \in Threads : place'[u] > s) <=> (\A u \in Threads : place[u] > s)
      <4>1. place'[t] = p + 1 /\ (p + 1 > s <=> p > s)
        BY <2>4, <1>1, <1>2
      <4>2. ASSUME NEW u \in Threads PROVE place'[u] > s <=> place[u] > s
        <5>1. CASE u = t
          BY <4>1, <5>1
        <5>2. CASE u # t
          BY <5>2, <1>1
        <5> QED BY <5>1, <5>2
      <4> QED BY <4>2
    <3>4. (\E u \in Threads : place[u] >= s) /\ (\E u \in Threads : place'[u] >= s)
      BY <1>1, <1>2, <1>7 DEF Live
    <3> QED BY <3>1, <3>2, <3>3, <3>4, <2>2, <1>1, <1>7 DEF IsDone
  <2> QED BY <2>3, <2>4
<1>8. CASE Program[s].kind = "steal" /\ ~Live(s) /\ Live(s)'
  <2>1. /\ chunk' = NThreads /\ place'[t] = s /\ next'[t] = t
        /\ \A u \in Threads : place[u] < s
    BY <1>8, StealStarts DEF IsSteal
  <2>2. ~IsDone(s, i)
    BY <2>1, <1>2, <1>8 DEF IsDone, Live
  <2>3. ASSUME IsDone(s, i)' PROVE FALSE
    <3>1. i < chunk' /\ \A u \in Threads : ~Holds(u, s, i)'
      <4>1. ~(\A u \in Threads : place'[u] > s)
        BY <2>1, <1>2
      <4> QED BY <4>1, <2>3, <1>1, <1>8 DEF IsDone
    <3>2. i \in Threads
      BY <3>1, <2>1, <1>2 DEF Threads
    <3>3. Holds(i, s, i)'
      BY <3>2, <2>1, <1>1 DEF Holds
    <3> QED BY <3>1, <3>2, <3>3
  <2> QED BY <2>2, <2>3
<1>9. CASE Program[s].kind = "steal" /\ ~Live(s) /\ ~Live(s)'
  <2>1. (\A u \in Threads : place[u] > s) \/ (\A u \in Threads : place[u] < s)
    BY <1>2, <1>9 DEF Live
  <2>2. CASE \A u \in Threads : place[u] > s
    <3>1. \A u \in Threads : place'[u] > s
      BY <2>2, <1>1, <1>2
    <3> QED BY <3>1, <2>2, <1>1, <1>9 DEF IsDone
  <2>3. CASE \A u \in Threads : place[u] < s
    <3>1. \A u \in Threads : place'[u] \in Nat /\ place'[u] <= s
      BY <2>3, <1>1, <1>2
    <3>2. \A u \in Threads : ~(place'[u] >= s) /\ ~(place'[u] > s)
      BY <3>1, <1>1, <1>2, <1>9 DEF Live
    <3>3. \A u \in Threads : ~(place[u] >= s) /\ ~(place[u] > s)
      BY <2>3, <1>2
    <3> QED BY <3>2, <3>3, <1>1, <1>9, NThreadsPos DEF IsDone
  <2> QED BY <2>1, <2>2, <2>3
<1> QED BY <1>6, <1>7, <1>8, <1>9

LEMMA DoneKept ==
  ASSUME GraphTypes, PieceInv, BarInv, StealInv, FreshInv, BarInv', Sound(Program),
         NEW t \in Threads, Run(t), NEW s \in 1 .. Len(Program), NEW i \in Pieces(s)
  PROVE  /\ IsDone(s, i) => IsDone(s, i)'
         /\ IsDone(s, i)' => IsDone(s, i) \/ (End(t) /\ s = place[t] /\ i = next[t])
<1>1. CASE Begin(t) \/ Arrive(t)
  <2>1. pass' = pass /\ UNCHANGED <<place, next, chunk>>
    BY <1>1 DEF Begin, Arrive
  <2> QED BY <2>1, SameProgram DEF IsDone, Holds
<1>2. CASE End(t)
  BY <1>2, DoneEnding
<1>3. CASE NoMore(t) \/ StoreChunk(t) \/ Leave(t)
  BY <1>3, DoneMoving
<1> QED BY <1>1, <1>2, <1>3 DEF Run

\* The piece that a thread ends is done then.
LEMMA EndedIsDone ==
  ASSUME GraphTypes, PieceInv, BarInv, StealInv, Sound(Program),
         NEW t \in Threads, End(t), Writes(t) # {},
         NEW s, s = place[t], NEW i, i = next[t]
  PROVE  IsDone(s, i)'
<1>1. /\ Program' = Program /\ place' = place
      /\ \A u \in Threads \ {t} : next'[u] = next[u]
      /\ Program[s].kind = "steal" => next'[t] = chunk /\ chunk' = chunk + 1
      /\ Program[s].kind = "stride" => next'[t] = i + NThreads
      /\ Program[s].kind \notin {"steal", "stride"} => next'[t] = i + 1
      /\ s \in 1 .. Len(Program) /\ WellCut(Program[s])
      /\ Program[s].kind \in Computing /\ i \in Pieces(s)
      /\ Owns(t, Program[s], i) \/ Program[s].kind = "steal"
  BY Ending, OnPiece
<1>2. /\ i \in Nat /\ s \in Nat /\ chunk \in Nat
      /\ \A u \in Threads : next[u] \in Nat /\ place[u] \in Nat /\ u \in Nat /\ u < NThreads
  BY <1>1, PieceNumbers DEF Pieces
<1>3. CASE Program[s].kind # "steal"
  <2>1. \A u \in Threads : Owns(u, Program[s], i) => u = t
    BY <1>1, <1>2, <1>3, OwnersAlike
  <2>2. next'[t] > i
    BY <1>1, <1>2, <1>3, NThreadsPos
  <2>3. IsDone(s, i)'
    BY <2>1, <2>2, <1>1, <1>3 DEF IsDone
  <2> QED BY <2>3, <1>1
<1>4. CASE Program[s].kind = "steal"
  <2>1. Live(s) /\ IsSteal(s)
    BY <1>1, <1>2, <1>4 DEF Live, IsSteal
  <2>2. StealAt(s)
    BY <2>1, <1>1 DEF StealInv
  <2>3. i < chunk
    BY <2>2, <1>2 DEF StealAt
  <2>4. ~Holds(t, s, i)'
    BY <2>3, <1>1, <1>2, <1>4 DEF Holds
  <2>5. ASSUME NEW u \in Threads \ {t} PROVE ~Holds(u, s, i)'
    <3>1. place[u] = s => next[u] # i
      BY <2>2, <1>1 DEF StealAt
    <3>2. u # i
      BY <2>2, <1>2 DEF StealAt
    <3> QED BY <3>1, <3>2, <1>1 DEF Holds
  <2>6. i < chunk' /\ place'[t] >= s
    BY <2>3, <1>1, <1>2, <1>4
  <2>7. IsDone(s, i)'
    BY <2>4, <2>5, <2>6, <1>1, <1>4 DEF IsDone
  <2> QED BY <2>7, <1>1
<1> QED BY <1>3, <1>4

\* A piece that another thread has done, at the same or another step, has
\* nothing in common with the piece a thread is on, if the two steps meet.
LEMMA DoneIsApart ==
  ASSUME GraphTypes, PieceInv, BarInv, Sound(Program), NEW t \in Threads, busy[t],
         NEW s \in 1 .. Len(Program), NEW i \in Pieces(s), place[t] <= s, IsDone(s, i)
  PROVE  Program[s].writes[i] \cap (Reads(t) \cup Writes(t)) = {}
<1>1. /\ place[t] \in 1 .. Len(Program) /\ ~IsBar(place[t]) /\ place[t] \in Nat /\ s \in Nat
      /\ next[t] \in Pieces(place[t]) /\ next[t] < Limit(t, Program[place[t]])
      /\ Reads(t) = Program[place[t]].reads[next[t]]
      /\ Writes(t) = Program[place[t]].writes[next[t]]
  BY OnPiece, PieceNumbers
<1>2. CASE place[t] = s
  <2>1. CASE i = next[t]
    BY <2>1, <1>1, <1>2, NotDoneYet
  <2>2. CASE i # next[t]
    <3>1. WellCut(Program[s]) /\ next[t] \in Pieces(s)
      BY <1>1, <1>2 DEF Sound
    <3> QED BY <3>1, <2>2, <1>1, <1>2 DEF WellCut, Pieces
  <2> QED BY <2>1, <2>2
<1>3. CASE place[t] < s
  <2>1. PICK u \in Threads : place[u] >= s
    BY DoneIsReached
  <2>2. Meet(Program, place[t], s)
    BY <2>1, <1>1, Meets
  <2>3. Agree(Program[place[t]], Program[s])
    BY <2>2, <1>1, <1>3 DEF Sound
  <2>4. CASE Apart(Program[place[t]], Program[s])
    BY <2>4, <1>1 DEF Apart, Pieces
  <2>5. CASE Program[place[t]].kind = "alone" /\ Program[s].kind = "alone"
    <3>1. t = 0
      BY <2>5, <1>1, PieceNumbers DEF Limit
    <3>2. Owns(t, Program[s], i)
      BY <3>1, <2>5 DEF Owns
    <3>3. place[t] > s \/ place[t] = s
      BY <3>2, <2>5 DEF IsDone
    <3> QED BY <3>3, <1>1, <1>3
  <2> QED BY <2>3, <2>4, <2>5 DEF Agree
<1> QED BY <1>1, <1>2, <1>3

\* What is not done yet has nothing in common with what a thread further on
\* is on, if it is not the same thread's.
LEMMA UndoneIsApart ==
  ASSUME GraphTypes, PieceInv, BarInv, Sound(Program), NEW t \in Threads, busy[t],
         NEW s \in 1 .. Len(Program), NEW i \in Pieces(s), s < place[t], ~IsDone(s, i)
  PROVE  Program[s].writes[i] \cap Reads(t) = {}
<1>1. /\ place[t] \in 1 .. Len(Program) /\ place[t] \in Nat /\ s \in Nat /\ i \in Nat
      /\ next[t] \in Pieces(place[t]) /\ next[t] < Limit(t, Program[place[t]])
      /\ Reads(t) = Program[place[t]].reads[next[t]]
      /\ \A u \in Threads : place[u] \in Nat
  BY OnPiece, PieceNumbers DEF Pieces
<1>2. PICK v \in Threads : place[v] <= s
  <2>1. \E v \in Threads : ~(place[v] > s)
    BY PastIsDone
  <2> QED BY <2>1, <1>1
<1>3. ~IsBar(s)
  <2>1. WellCut(Program[s]) /\ Program[s].pieces # 0
    BY <1>1, PieceNumbers DEF Sound, Pieces
  <2> QED BY <2>1 DEF WellCut, IsBar
<1>4. Meet(Program, s, place[t])
  BY <1>1, <1>2, <1>3, Meets
<1>5. Agree(Program[s], Program[place[t]])
  BY <1>1, <1>4 DEF Sound
<1>6. CASE Apart(Program[s], Program[place[t]])
  BY <1>6, <1>1 DEF Apart, Pieces
<1>7. CASE Program[s].kind = "alone" /\ Program[place[t]].kind = "alone"
  <2>1. t = 0
    BY <1>7, <1>1, PieceNumbers DEF Limit
  <2>2. \A u \in Threads : Owns(u, Program[s], i) => u = t
    BY <2>1, <1>7 DEF Owns
  <2> QED BY <2>2, <1>7 DEF IsDone
<1> QED BY <1>5, <1>6, <1>7 DEF Agree

LEMMA CellsKept ==
  ASSUME GraphTypes, PieceInv, BarInv, StealInv, FreshInv, DoneInv, FromInv, BarInv',
         Sound(Program), NEW t \in Threads, Run(t)
  PROVE  DoneInv' /\ FromInv'
<1>1. pass' = pass /\ Program' = Program /\ CellsOf[pass]' = CellsOf[pass]
  BY SameProgram DEF Run, Begin, End, NoMore, StoreChunk, Arrive, Leave
<1>2. \A s \in 1 .. Len(Program) : \A i \in Pieces(s) :
        /\ IsDone(s, i) => IsDone(s, i)'
        /\ IsDone(s, i)' => IsDone(s, i) \/ (End(t) /\ s = place[t] /\ i = next[t])
  BY DoneKept
<1>3. \A s : Pieces(s)' = Pieces(s)
  BY <1>1 DEF Pieces
<1>4. /\ content \in [CellsOf[pass] -> 0 .. Len(Program)] /\ Len(Program) \in Nat
      /\ \A s \in 1 .. Len(Program) : \A i \in Pieces(s) :
           Program[s].writes[i] \subseteq CellsOf[pass]
  <2>1. ASSUME NEW s \in 1 .. Len(Program), NEW i \in Pieces(s)
        PROVE  Program[s].writes[i] \subseteq AllWrites(Program[s])
    BY DEF Sound, WellCut, Pieces, AllWrites
  <2>2. pass \in Passes /\ DOMAIN Program = 1 .. Len(Program)
    BY DEF GraphTypes, Sound
  <2>3. \A s \in 1 .. Len(Program) : AllWrites(Program[s]) \subseteq CellsOf[pass]
    BY <2>2 DEF CellsOf, Program
  <2> QED BY <2>1, <2>3, PieceNumbers DEF GraphTypes
<1>5. CASE ~End(t)
  <2>1. content' = content
    BY <1>5 DEF Run, Begin, NoMore, StoreChunk, Arrive, Leave
  <2>2. DoneInv'
    BY <2>1, <1>1, <1>2, <1>3, <1>5 DEF DoneInv
  <2>3. FromInv'
    <3> SUFFICES ASSUME NEW c \in CellsOf[pass], NEW s \in 1 .. Len(Program), content[c] = s
                 PROVE  \E i \in Pieces(s) : c \in Program[s].writes[i] /\ IsDone(s, i)'
      BY <2>1, <1>1, <1>3 DEF FromInv
    <3>1. PICK i \in Pieces(s) : c \in Program[s].writes[i] /\ IsDone(s, i)
      BY DEF FromInv
    <3>2. IsDone(s, i)'
      BY <3>1, <1>2
    <3> QED BY <3>1, <3>2
  <2> QED BY <2>2, <2>3
<1>6. CASE End(t)
  <2> PICK k : k = place[t]
    OBVIOUS
  <2> PICK j : j = next[t]
    OBVIOUS
  <2>1. /\ place' = place /\ busy[t]
        /\ \A c \in CellsOf[pass] :
             content'[c] = (IF c \in Writes(t) THEN k ELSE content[c])
        /\ k \in 1 .. Len(Program) /\ j \in Pieces(k) /\ Writes(t) = Program[k].writes[j]
    BY <1>6, Ending, OnPiece
  <2>2. DoneInv'
    <3> SUFFICES ASSUME NEW s \in 1 .. Len(Program), NEW i \in Pieces(s), IsDone(s, i)',
                        NEW c \in Program[s].writes[i]
                 PROVE  content'[c] >= s
      BY <1>1, <1>3 DEF DoneInv
    <3>1. c \in CellsOf[pass] /\ s \in Nat /\ k \in Nat
      BY <1>4, <2>1
    <3>2. CASE IsDone(s, i)
      <4>1. content[c] >= s
        BY <3>2 DEF DoneInv
      <4>2. CASE c \in Writes(t)
        <5>1. ~(k <= s)
          BY <4>2, <3>2, <2>1, DoneIsApart
        <5> QED BY <5>1, <4>2, <3>1, <2>1
      <4> QED BY <4>1, <4>2, <3>1, <2>1
    <3>3. CASE s = k /\ i = j
      BY <3>3, <3>1, <2>1
    <3> QED BY <3>2, <3>3, <1>2
  <2>3. FromInv'
    <3> SUFFICES ASSUME NEW c \in CellsOf[pass], NEW s \in 1 .. Len(Program), content'[c] = s
                 PROVE  \E i \in Pieces(s) : c \in Program[s].writes[i] /\ IsDone(s, i)'
      BY <1>1, <1>3 DEF FromInv
    <3>1. CASE c \in Writes(t)
      <4>1. s = k
        BY <3>1, <2>1
      <4>2. IsDone(k, j)'
        BY <3>1, <1>6, EndedIsDone
      <4> QED BY <4>1, <4>2, <3>1, <2>1
    <3>2. CASE c \notin Writes(t)
      <4>1. content[c] = s
        BY <3>2, <2>1
      <4>2. PICK i \in Pieces(s) : c \in Program[s].writes[i] /\ IsDone(s, i)
        BY <4>1 DEF FromInv
      <4>3. IsDone(s, i)'
        BY <4>2, <1>2
      <4> QED BY <4>2, <4>3
    <3> QED BY <3>1, <3>2
  <2> QED BY <2>2, <2>3
<1> QED BY <1>5, <1>6

-----------------------------------------------------------------------------
(* The invariant holds from the start, and at every step.                  *)

LEMMA PassStarts ==
  ASSUME PassInit, Sound(Program)
  PROVE  PassInv
<1>1. /\ Len(Program) \in Nat /\ 1 \in 1 .. Len(Program) /\ WellCut(Program[1])
      /\ 1 \in 1 .. Len(Program) + 1
  BY DEF Sound
<1>2. /\ pass \in Passes /\ place = [t \in Threads |-> 1]
      /\ next = [t \in Threads |-> First(t, Program[1])]
      /\ busy = [t \in Threads |-> FALSE] /\ chunk = 0
      /\ content = [c \in CellsOf[pass] |-> 0]
      /\ arrivals = [t \in Threads |-> 0] /\ departures = [t \in Threads |-> 0]
  BY DEF PassInit, BarrierInit
<1>3. GraphTypes
  <2>1. next \in [Threads -> Nat]
    BY <1>1, <1>2, FirstNat
  <2>2. place \in [Threads -> 1 .. Len(Program) + 1]
    BY <1>1, <1>2
  <2>3. content \in [CellsOf[pass] -> 0 .. Len(Program)]
    BY <1>1, <1>2
  <2> QED BY <2>1, <2>2, <2>3, <1>2 DEF GraphTypes
<1>4. \A t \in Threads : ~Done(t) /\ StepOf(t) = Program[1] /\ place[t] = 1 /\ ~busy[t]
  BY <1>1, <1>2 DEF Done, StepOf
<1>5. BarInv
  <2>1. \A t, u \in Threads : ~(\E b \in place[t] .. place[u] - 1 : IsBar(b))
    BY <1>4
  <2>2. \A t \in Threads, b \in 1 .. Len(Program) : ~(b < place[t])
    BY <1>4
  <2>3. \A t \in Threads : arrivals[t] = 0 /\ departures[t] = 0
    BY <1>2
  <2> QED BY <2>1, <2>2, <2>3 DEF BarInv
<1>6. PieceInv
  <2>1. \A t \in Threads : At(t, {"share"}) => t * Share(StepOf(t).pieces) <= next[t]
    <3> SUFFICES ASSUME NEW t \in Threads, Program[1].kind = "share"
                 PROVE  t * Share(Program[1].pieces) <= next[t]
      BY <1>4 DEF At
    <3>1. t * Share(Program[1].pieces) \in Nat
      BY <1>1, ShareNat DEF WellCut
    <3> QED BY <3>1, <1>2 DEF First
  <2>2. \A t \in Threads : At(t, {"stride"}) => next[t] % NThreads = t
    <3> SUFFICES ASSUME NEW t \in Threads, Program[1].kind = "stride"
                 PROVE  next[t] % NThreads = t
      BY <1>4 DEF At
    <3>1. next[t] = t
      BY <1>2 DEF First
    <3>2. t \in 0 .. NThreads - 1 /\ NThreads \in Nat /\ NThreads > 0
      BY DEF Threads
    <3>3. t % NThreads = t
      BY <3>2, SMT
    <3> QED BY <3>1, <3>3
  <2> QED BY <2>1, <2>2, <1>4 DEF PieceInv
<1>7. StealInv
  <2> SUFFICES ASSUME NEW s \in 1 .. Len(Program), IsSteal(s), Live(s) PROVE FALSE
    BY DEF StealInv
  <2>1. s = 1
    BY <1>4 DEF Live
  <2>2. \E r \in 1 .. s - 1 : ResetFor(Program, r, s)
    BY DEF Sound, IsSteal
  <2> QED BY <2>1, <2>2
<1>8. FreshInv
  <2>1. \A r \in 1 .. Len(Program) : ~(\A t \in Threads : r < place[t])
    BY <1>4, NThreadsPos
  <2> QED BY <2>1 DEF FreshInv
<1>9. ChunkInv
  <2>1. chunk <= Program[1].pieces + NThreads
    BY <1>1, <1>2, NThreadsPos DEF WellCut
  <2> QED BY <2>1, <1>1 DEF ChunkInv
<1>10. DoneInv
  <2> SUFFICES ASSUME NEW s \in 1 .. Len(Program), NEW i \in Pieces(s), IsDone(s, i) PROVE FALSE
    BY DEF DoneInv
  <2>1. \E t \in Threads : place[t] >= s
    BY <1>3, DoneIsReached
  <2>2. s = 1
    BY <2>1, <1>4
  <2>3. Program[1].kind # "steal"
    <3>1. \A s_1 \in 1 .. Len(Program) : Program[s_1].kind = "steal" =>
            \E r \in 1 .. s_1 - 1 : ResetFor(Program, r, s_1)
      BY DEF Sound
    <3> QED BY <3>1, <1>1
  <2>4. i \in 0 .. Program[1].pieces - 1 /\ Program[1].pieces \in Nat
    BY <2>2, <1>1 DEF Pieces, WellCut
  <2>5. Program[1].kind \in Computing \ {"steal"}
    BY <2>3, <2>4, <1>1 DEF WellCut, Kinds, Computing
  <2>6. PICK t \in Threads : Owns(t, Program[1], i)
    BY <2>4, <1>1, HasOwner
  <2>7. next[t] > i
    BY <2>2, <2>3, <2>6, <1>4 DEF IsDone
  <2>8. next[t] <= i /\ next[t] \in Nat
    BY <2>4, <2>5, <2>6, <1>1, <1>2, OwnLimits, FirstNat
  <2> QED BY <2>4, <2>7, <2>8
<1>11. FromInv
  <2>1. \A c \in CellsOf[pass], s \in 1 .. Len(Program) : content[c] # s
    BY <1>2
  <2> QED BY <2>1 DEF FromInv
<1> QED BY <1>3, <1>5, <1>6, <1>7, <1>8, <1>9, <1>10, <1>11 DEF PassInv

LEMMA PassStays ==
  ASSUME PassInv, Sound(Program), [PassNext]_passVars
  PROVE  PassInv' /\ Program' = Program
<1>1. ASSUME NEW t \in Threads, Run(t) PROVE PassInv' /\ Program' = Program
  <2>1. /\ GraphTypes /\ BarInv /\ PieceInv /\ StealInv /\ FreshInv /\ ChunkInv
        /\ DoneInv /\ FromInv
    BY DEF PassInv
  <2>2. Program' = Program
    BY <1>1, SameProgram DEF Run, Begin, End, NoMore, StoreChunk, Arrive, Leave
  <2>3. BarInv'
    BY <1>1, <2>1, BarKept
  <2>4. GraphTypes' /\ PieceInv' /\ FreshInv'
    BY <1>1, <2>1, TypesKept, PieceKept, FreshKept
  <2>5. StealInv' /\ ChunkInv'
    BY <1>1, <2>1, <2>3, StealKept, ChunkKept
  <2>6. DoneInv' /\ FromInv'
    BY <1>1, <2>1, <2>3, CellsKept
  <2> QED BY <2>2, <2>3, <2>4, <2>5, <2>6 DEF PassInv
<1>2. CASE UNCHANGED passVars
  <2>1. UNCHANGED <<pass, place, next, busy, chunk, content, arrivals, departures>>
    BY <1>2 DEF passVars
  <2>2. Program' = Program /\ CellsOf[pass]' = CellsOf[pass]
    BY <2>1, SameProgram
  <2>3. GraphTypes' /\ ChunkInv'
    BY <2>1, <2>2 DEF PassInv, GraphTypes, ChunkInv
  <2>7. BarInv'
    <3>1. \A b : IsBar(b)' <=> IsBar(b)
      BY <2>2 DEF IsBar
    <3> QED BY <3>1, <2>1, <2>2 DEF PassInv, BarInv
  <2>4. PieceInv' /\ FreshInv'
    BY <2>1, <2>2 DEF PassInv, PieceInv, At, Done, StepOf, FreshInv, IsSteal
  <2>5. StealInv'
    <3>1. \A s \in 1 .. Len(Program) : StealAt(s) => StealAt(s)'
      BY <2>1, <2>2, StealSame
    <3>2. \A s : (IsSteal(s)' <=> IsSteal(s)) /\ (Live(s)' <=> Live(s))
      BY <2>1, <2>2 DEF IsSteal, Live
    <3> QED BY <3>1, <3>2, <2>2 DEF PassInv, StealInv
  <2>6. DoneInv' /\ FromInv'
    <3>1. \A s, i : IsDone(s, i)' <=> IsDone(s, i)
      BY <2>1, <2>2 DEF IsDone, Holds
    <3>2. \A s : Pieces(s)' = Pieces(s)
      BY <2>2 DEF Pieces
    <3> QED BY <3>1, <3>2, <2>1, <2>2 DEF PassInv, DoneInv, FromInv
  <2> QED BY <2>2, <2>3, <2>4, <2>5, <2>6, <2>7 DEF PassInv
<1> QED BY <1>1, <1>2 DEF PassNext

-----------------------------------------------------------------------------
(* What it means for the threads and their cells.                          *)

LEMMA InvNoRace ==
  ASSUME GraphTypes, PieceInv, BarInv, StealInv, Sound(Program)
  PROVE  NoRace
<1>1. ASSUME NEW t \in Threads, NEW u \in Threads, t # u, busy[t], busy[u],
             place[t] <= place[u]
      PROVE  /\ Writes(t) \cap (Reads(u) \cup Writes(u)) = {}
             /\ Writes(u) \cap (Reads(t) \cup Writes(t)) = {}
  <2> DEFINE k == place[t]
             s == place[u]
  <2>1. /\ k \in 1 .. Len(Program) /\ s \in 1 .. Len(Program) /\ k \in Nat /\ s \in Nat
        /\ ~IsBar(k) /\ WellCut(Program[s])
        /\ next[t] \in Pieces(k) /\ next[t] < Limit(t, Program[k])
        /\ next[u] \in Pieces(s) /\ next[u] < Limit(u, Program[s])
        /\ Reads(t) = Program[k].reads[next[t]] /\ Writes(t) = Program[k].writes[next[t]]
        /\ Reads(u) = Program[s].reads[next[u]] /\ Writes(u) = Program[s].writes[next[u]]
        /\ Owns(t, Program[k], next[t]) \/ Program[k].kind = "steal" \/ Writes(t) = {}
        /\ Owns(u, Program[s], next[u]) \/ Program[s].kind = "steal" \/ Writes(u) = {}
        /\ Program[s].kind \in Computing /\ next[u] \in Nat
    BY <1>1, OnPiece, PieceNumbers
  <2>2. CASE k = s
    <3>1. CASE next[t] # next[u]
      BY <3>1, <2>1, <2>2 DEF WellCut, Pieces
    <3>2. CASE next[t] = next[u]
      <4>1. Program[s].kind # "steal"
        <5>1. Live(s) /\ IsSteal(s) <=> Program[s].kind = "steal"
          BY <2>1, <2>2 DEF Live, IsSteal
        <5> QED BY <5>1, <3>2, <2>1, <2>2, <1>1 DEF StealInv, StealAt
      <4>2. ~(Owns(t, Program[s], next[u]) /\ Owns(u, Program[s], next[u]))
        BY <4>1, <2>1, <1>1, OwnersAlike
      <4> QED BY <4>1, <4>2, <3>2, <2>1, <2>2
    <3> QED BY <3>1, <3>2
  <2>3. CASE k < s
    <3>1. Meet(Program, k, s)
      BY <2>1, Meets
    <3>2. Agree(Program[k], Program[s])
      BY <3>1, <2>1, <2>3 DEF Sound
    <3>3. CASE Apart(Program[k], Program[s])
      <4>1. /\ next[t] \in 0 .. Program[k].pieces - 1
            /\ next[u] \in 0 .. Program[s].pieces - 1
        BY <2>1 DEF Pieces
      <4>2. /\ Program[k].writes[next[t]]
                 \cap (Program[s].reads[next[u]] \cup Program[s].writes[next[u]]) = {}
            /\ Program[s].writes[next[u]]
                 \cap (Program[k].reads[next[t]] \cup Program[k].writes[next[t]]) = {}
        BY <3>3, <4>1 DEF Apart
      <4>3. /\ Reads(t) = Program[k].reads[next[t]] /\ Writes(t) = Program[k].writes[next[t]]
            /\ Reads(u) = Program[s].reads[next[u]] /\ Writes(u) = Program[s].writes[next[u]]
        BY <2>1
      <4> QED BY <4>2, <4>3, Zenon
    <3>4. CASE Program[k].kind = "alone" /\ Program[s].kind = "alone"
      <4>1. t = 0 /\ u = 0
        BY <3>4, <2>1, PieceNumbers DEF Limit
      <4> QED BY <4>1, <1>1
    <3> QED BY <3>2, <3>3, <3>4 DEF Agree
  <2>4. k = s \/ k < s
    <3> HIDE DEF k, s
    <3>1. k <= s
      BY <1>1 DEF k, s
    <3> QED BY <3>1, <2>1
  <2> QED BY <2>2, <2>3, <2>4
<1>2. \A t, u \in Threads : place[t] <= place[u] \/ place[u] <= place[t]
  BY PieceNumbers
<1> QED BY <1>1, <1>2 DEF NoRace

LEMMA InvOnce ==
  ASSUME GraphTypes, PieceInv, FromInv, Sound(Program)
  PROVE  EachPieceOnce
<1> SUFFICES ASSUME NEW t \in Threads, busy[t], NEW c \in Writes(t), content[c] = place[t]
             PROVE  FALSE
  BY DEF EachPieceOnce
<1> PICK s : s = place[t]
  OBVIOUS
<1>1. /\ s \in 1 .. Len(Program) /\ WellCut(Program[s])
      /\ next[t] \in Pieces(s) /\ Writes(t) = Program[s].writes[next[t]]
  BY OnPiece
<1>2. c \in CellsOf[pass]
  <2>1. c \in AllWrites(Program[s])
    BY <1>1 DEF WellCut, Pieces, AllWrites
  <2>2. pass \in Passes /\ DOMAIN Program = 1 .. Len(Program)
    BY DEF GraphTypes, Sound
  <2> QED BY <2>1, <2>2, <1>1 DEF CellsOf, Program
<1>3. PICK i \in Pieces(s) : c \in Program[s].writes[i] /\ IsDone(s, i)
  BY <1>1, <1>2 DEF FromInv
<1>4. i = next[t]
  BY <1>1, <1>3 DEF WellCut, Pieces
<1> QED BY <1>3, <1>4, NotDoneYet

LEMMA InvAsIfAlone ==
  ASSUME GraphTypes, PieceInv, BarInv, DoneInv, FromInv, Sound(Program)
  PROVE  AsIfAlone
<1>1. /\ pass \in Passes /\ DOMAIN Program = 1 .. Len(Program) /\ Len(Program) \in Nat
      /\ \A c \in CellsOf[pass] : content[c] \in 0 .. Len(Program)
      /\ \A s \in 1 .. Len(Program) :
           WellCut(Program[s]) /\ AllReads(Program[s]) \cup AllWrites(Program[s]) \subseteq CellsOf[pass]
  <2>1. pass \in Passes /\ DOMAIN Program = 1 .. Len(Program) /\ Len(Program) \in Nat
    BY DEF GraphTypes, Sound
  <2>2. \A s \in 1 .. Len(Program) :
          AllReads(Program[s]) \cup AllWrites(Program[s]) \subseteq CellsOf[pass]
    BY <2>1 DEF CellsOf, Program
  <2> QED BY <2>1, <2>2 DEF GraphTypes, Sound
<1>2. ASSUME NEW c \in CellsOf[pass], content[c] # 0
      PROVE  \E i \in Pieces(content[c]) :
               /\ c \in Program[content[c]].writes[i] /\ IsDone(content[c], i)
               /\ c \in AllWrites(Program[content[c]])
  <2>1. PICK i \in Pieces(content[c]) :
          c \in Program[content[c]].writes[i] /\ IsDone(content[c], i)
    BY <1>1, <1>2 DEF FromInv
  <2>2. WellCut(Program[content[c]])
    BY <1>1, <1>2
  <2>3. c \in AllWrites(Program[content[c]])
    BY <2>1, <2>2 DEF WellCut, Pieces, AllWrites
  <2> QED BY <2>1, <2>3
<1>3. ASSUME NEW r \in 1 .. Len(Program), NEW c \in AllWrites(Program[r])
      PROVE  \E j \in Pieces(r) : c \in Program[r].writes[j]
  BY <1>1, <1>3 DEF AllWrites, WellCut, Pieces
<1>4. ASSUME NEW t \in Threads, busy[t], NEW c \in Reads(t)
      PROVE  LastBefore(content[c], place[t], c)
  <2> PICK k : k = place[t]
    OBVIOUS
  <2> PICK w : w = content[c]
    OBVIOUS
  <2>1. /\ k \in 1 .. Len(Program) /\ k \in Nat /\ next[t] \in Pieces(k)
        /\ Reads(t) = Program[k].reads[next[t]]
    BY <1>4, OnPiece, PieceNumbers
  <2>2. c \in CellsOf[pass]
    <3>1. c \in AllReads(Program[k])
      BY <2>1, <1>1 DEF WellCut, Pieces, AllReads
    <3> QED BY <3>1, <2>1, <1>1
  <2>3. w \in 0 .. Len(Program) /\ w \in Nat
    BY <2>2, <1>1
  <2>4. w < k
    <3>1. ASSUME k <= w PROVE FALSE
      <4>1. PICK i \in Pieces(w) : c \in Program[w].writes[i] /\ IsDone(w, i)
        BY <3>1, <2>1, <2>2, <1>2
      <4>2. w \in 1 .. Len(Program)
        BY <3>1, <2>1, <2>3
      <4> QED BY <4>1, <4>2, <3>1, <1>4, DoneIsApart
    <3> QED BY <3>1, <2>1, <2>3
  <2>5. w # 0 => c \in AllWrites(Program[w])
    BY <2>2, <1>2
  <2>6. ASSUME NEW r \in w + 1 .. k - 1, c \in AllWrites(Program[r]) PROVE FALSE
    <3>1. r \in 1 .. Len(Program) /\ r < k /\ r > w /\ r \in Nat
      BY <2>1, <2>3
    <3>2. PICK j \in Pieces(r) : c \in Program[r].writes[j]
      BY <3>1, <2>6, <1>3
    <3>3. IsDone(r, j)
      BY <3>1, <3>2, <1>4, UndoneIsApart
    <3>4. content[c] >= r
      BY <3>1, <3>2, <3>3 DEF DoneInv
    <3> QED BY <3>1, <3>4, <2>3
  <2> QED BY <2>4, <2>5, <2>6 DEF LastBefore
<1>5. ASSUME \A t \in Threads : Done(t), NEW c \in CellsOf[pass]
      PROVE  LastBefore(content[c], Len(Program) + 1, c)
  <2> PICK w : w = content[c]
    OBVIOUS
  <2>1. w \in 0 .. Len(Program) /\ (w # 0 => c \in AllWrites(Program[w]))
    BY <1>1, <1>2
  <2>2. ASSUME NEW r \in w + 1 .. Len(Program), c \in AllWrites(Program[r]) PROVE FALSE
    <3>1. r \in 1 .. Len(Program) /\ r > w /\ r \in Nat
      BY <2>1, <1>1
    <3>2. PICK j \in Pieces(r) : c \in Program[r].writes[j]
      BY <3>1, <2>2, <1>3
    <3>3. \A t \in Threads : place[t] > r
      BY <1>1, <1>5, <3>1 DEF Done
    <3>4. content[c] >= r
      BY <3>1, <3>2, <3>3, PastIsDone DEF DoneInv
    <3> QED BY <3>1, <3>4, <2>1
  <2>3. w + 1 .. (Len(Program) + 1) - 1 = w + 1 .. Len(Program)
    BY <2>1, <1>1
  <2> QED BY <2>1, <2>2, <2>3, <1>1 DEF LastBefore
<1> QED BY <1>4, <1>5 DEF AsIfAlone

LEMMA InvShared ==
  ASSUME PassInv, Sound(Program)
  PROVE  SharedSoundly
<1>1. PassTypeOK
  BY Here DEF PassInv, GraphTypes, ChunkInv, PassTypeOK, Sound
<1> QED BY <1>1, InvNoRace, InvOnce, InvAsIfAlone DEF PassInv, SharedSoundly

\* SharedSoundly, for every number of threads, layers of any kinds, blocks,
\* tokens, groups and chunks: through the raw pointers of run_graph's closure no
\* two threads touch a cell at the same time unless both read it, every piece is
\* computed once, and every thread reads what it would read if one thread ran
\* forward_one_inner or forward_batch_inner alone.
THEOREM PassIsSound == PassSpec => []SharedSoundly
<1> DEFINE IInv == PassInv /\ Sound(Program)
<1>1. PassInit => IInv
  <2> SUFFICES ASSUME PassInit PROVE IInv
    OBVIOUS
  <2>1. Sound(Program)
    BY ProgramsSound DEF PassInit, Program
  <2> QED BY <2>1, PassStarts
<1>2. IInv /\ [PassNext]_passVars => IInv'
  <2> SUFFICES ASSUME IInv, [PassNext]_passVars PROVE IInv'
    OBVIOUS
  <2>1. PassInv' /\ Program' = Program
    BY PassStays
  <2>2. PICK p : p = Program
    OBVIOUS
  <2>3. Program' = p /\ Sound(p)
    BY <2>1, <2>2
  <2>4. Sound(Program)'
    BY <2>3
  <2> QED BY <2>1, <2>4
<1>3. IInv => SharedSoundly
  BY InvShared
<1> QED BY <1>1, <1>2, <1>3, PTL DEF PassSpec

HIDE ThreadsAssumption

-----------------------------------------------------------------------------
(* No pass goes past the rows of the cache.                                *)

USE GenerateAssumption

Numbers ==
  /\ prompt \in Nat /\ done \in Nat /\ ubatch \in Nat /\ left \in Nat
  /\ seqLen \in Nat /\ layer \in Nat

\* What is left of the loop always has a row in the cache to go to.
RoomInv ==
  /\ pc \in {"idle", "prefill", "decode", "forward"}
  /\ pc = "prefill" =>
       /\ prompt + left <= MaxSeqLen
       /\ seqLen = done /\ done < prompt /\ ubatch > 0
  /\ pc = "decode" => seqLen + left <= MaxSeqLen
  /\ pc = "forward" => seqLen + left + 1 <= MaxSeqLen

LEMMA InitRoom == Init => Numbers /\ RoomInv
  BY DEF Init, Numbers, RoomInv

\* A chunk is not empty and stays inside the prompt.
LEMMA ChunkInPrompt ==
  ASSUME Numbers, done < prompt, ubatch > 0
  PROVE  Chunk \in Nat /\ Chunk > 0 /\ done + Chunk <= prompt
  BY DEF Numbers, Chunk, Smaller

\* The budget leaves a row for every token it allows.
LEMMA BudgetFits ==
  ASSUME NEW n \in Nat, NEW m \in Nat, ~Refused(n)
  PROVE  DecodeBudget(n, m) \in Nat /\ n + DecodeBudget(n, m) <= MaxSeqLen
  BY DEF Refused, DecodeBudget, Smaller

LEMMA StepRoom ==
  ASSUME Numbers, RoomInv, [Next]_vars
  PROVE  Numbers' /\ RoomInv'
<1> USE DEF Numbers, RoomInv
<1>1. ASSUME NEW n \in 1 .. MaxSeqLen + 1, Refuse(n)
      PROVE  Numbers' /\ RoomInv'
  BY <1>1 DEF Refuse, cacheVars, textVars
<1>2. ASSUME NEW n \in 1 .. MaxSeqLen + 1, NEW m \in 0 .. MaxTokens, Start(n, m)
      PROVE  Numbers' /\ RoomInv'
  <2>1. DecodeBudget(n, m) \in Nat /\ n + DecodeBudget(n, m) <= MaxSeqLen
    BY <1>2, BudgetFits DEF Start
  <2>2. ubatch' \in Nat /\ ubatch' > 0
    BY <1>2 DEF Start, Smaller
  <2>3. seqLen' = 0 /\ done' = 0 /\ prompt' = n /\ n > 1 /\ layer' = 0
        /\ left' = DecodeBudget(n, m) /\ pc' = "prefill"
    BY <1>2 DEF Start, ResetPosition, Refused
  <2> QED BY <2>1, <2>2, <2>3
<1>3. CASE PrefillLayer
  <2>1. Chunk \in Nat /\ Chunk > 0 /\ done + Chunk <= prompt
    BY <1>3, ChunkInPrompt DEF PrefillLayer
  <2>2. prompt' = prompt /\ ubatch' = ubatch /\ left' = left
    BY <1>3 DEF PrefillLayer, LayerPass
  <2>3. CASE layer < NLayers - 1
    BY <1>3, <2>2, <2>3 DEF PrefillLayer, NextLayer
  <2>4. CASE ~(layer < NLayers - 1)
    <3>1. /\ layer' = 0 /\ seqLen' = seqLen + Chunk /\ done' = done + Chunk
          /\ pc' = IF done + Chunk = prompt THEN "decode" ELSE "prefill"
      BY <1>3, <2>4 DEF PrefillLayer, NextLayer
    <3> QED BY <1>3, <2>1, <2>2, <3>1 DEF PrefillLayer
  <2> QED BY <2>3, <2>4
<1>4. CASE DecodeLayer
  BY <1>4 DEF DecodeLayer, LayerPass, NextLayer
<1>5. ASSUME NEW s \in Sorts, Sample(s)
      PROVE  Numbers' /\ RoomInv'
  BY <1>5 DEF Sample, cacheVars
<1>6. CASE Finish
  BY <1>6 DEF Finish, cacheVars, textVars
<1>7. CASE UNCHANGED vars
  BY <1>7 DEF vars, cacheVars, textVars
<1> QED BY <1>1, <1>2, <1>3, <1>4, <1>5, <1>6, <1>7 DEF Next, Call

LEMMA RoomInBounds == Numbers /\ RoomInv => InBounds
<1> SUFFICES ASSUME Numbers, RoomInv PROVE InBounds
  OBVIOUS
<1>1. ASSUME pc = "prefill"
      PROVE  Chunk > 0 /\ seqLen + Chunk <= MaxSeqLen /\ prompt <= MaxBatch
  <2>1. Chunk \in Nat /\ Chunk > 0 /\ done + Chunk <= prompt
    BY <1>1, ChunkInPrompt DEF RoomInv
  <2> QED BY <1>1, <2>1 DEF Numbers, RoomInv
<1>2. pc = "forward" => seqLen + 1 <= MaxSeqLen
  BY DEF Numbers, RoomInv
<1> QED BY <1>1, <1>2 DEF InBounds

\* InBounds, for every value of the constants: decode_budget and the chunks of
\* forward_batch keep every pass inside the cache, the rotation tables and the
\* prefill buffers (generate.rs:156-162).
THEOREM GenerationInBounds == Spec => []InBounds
<1>1. Spec => [](Numbers /\ RoomInv)
  BY InitRoom, StepRoom, PTL DEF Spec
<1> QED BY <1>1, RoomInBounds, PTL

-----------------------------------------------------------------------------
(* The cache.  A slot of a layer's storage holds the last token that was   *)
(* stored into it, of the `k' tokens so far.                               *)

\* The tokens of the running pass, and how far the storage of a layer stands:
\* the layers a pass has been through are ahead of the position.
PassLen == IF pc = "prefill" THEN Chunk ELSE 1
Stands(l) == IF l < layer THEN seqLen + PassLen ELSE seqLen

RingHolds(ring, call, l, k) ==
  \A s \in Slots(l) :
    \/ ring[s] = Blank /\ \A p \in 0 .. k - 1 : SlotOf(l, p) # s
    \/ \E p \in 0 .. k - 1 :
         /\ ring[s] = <<call, p>> /\ SlotOf(l, p) = s
         /\ \A q \in p + 1 .. k - 1 : SlotOf(l, q) # s

CacheInv ==
  /\ layer \in Layers
  /\ pc \notin {"prefill", "forward"} => layer = 0
  /\ DOMAIN cells = Owners
  /\ pc # "idle" => \A l \in Owners : RingHolds(cells[l], calls, l, Stands(l))

\* A layer shares the storage of a layer of its kind that comes before it.
LEMMA OwnerBefore ==
  ASSUME NEW l \in Layers
  PROVE  Owner(l) \in Owners /\ Owner(l) <= l /\ (IsSwa(Owner(l)) <=> IsSwa(l))
<1> DEFINE alike == {j \in 0 .. FirstShared - 1 : IsSwa(j) = IsSwa(l)}
<1>1. FirstShared \in 0 .. NLayers
  BY DEF FirstShared
<1>2. CASE l < FirstShared \/ alike = {}
  <2>1. Owner(l) = l
    BY <1>2 DEF Owner
  <2> QED BY <2>1 DEF Owners, Layers
<1>3. CASE ~(l < FirstShared) /\ alike # {}
  <2>1. alike \in SUBSET Nat /\ \A j \in alike : j <= FirstShared
    <3>1. \A j \in alike : j \in 0 .. FirstShared - 1
      OBVIOUS
    <3> HIDE DEF alike
    <3> QED BY <1>1, <3>1
  <2>2. \E j \in alike : \A k \in alike : k <= j
    <3> HIDE DEF alike
    <3>1. FirstShared \in Nat
      BY <1>1
    <3> QED BY <1>3, <2>1, <3>1, Greatest
  <2>3. Owner(l) = CHOOSE j \in alike : \A k \in alike : k <= j
    BY <1>3 DEF Owner
  <2> DEFINE o == Owner(l)
  <2>4. o \in alike
    BY <2>2, <2>3
  <2> HIDE DEF o
  <2>5. o \in 0 .. FirstShared - 1 /\ IsSwa(o) = IsSwa(l)
    BY <2>4
  <2>6. o \in Layers /\ o < FirstShared /\ o <= l
    BY <1>1, <1>3, <2>5 DEF Layers
  <2>7. Owner(o) = o
    BY <2>6 DEF Owner
  <2>8. o \in Owners
    BY <2>6, <2>7 DEF Owners
  <2> QED BY <2>5, <2>6, <2>8 DEF o
<1> QED BY <1>2, <1>3

\* StoreBatch keeps the last token of each slot.
LEMMA StoreHolds ==
  ASSUME NEW l \in Owners, seqLen \in Nat, NEW n \in Nat,
         RingHolds(cells[l], calls, l, seqLen)
  PROVE  RingHolds(StoreBatch(l, n), calls, l, seqLen + n)
<1> SUFFICES ASSUME NEW s \in Slots(l)
             PROVE  \/ /\ StoreBatch(l, n)[s] = Blank
                       /\ \A p \in 0 .. seqLen + n - 1 : SlotOf(l, p) # s
                    \/ \E p \in 0 .. seqLen + n - 1 :
                         /\ StoreBatch(l, n)[s] = <<calls, p>> /\ SlotOf(l, p) = s
                         /\ \A q \in p + 1 .. seqLen + n - 1 : SlotOf(l, q) # s
  BY DEF RingHolds
<1> DEFINE here == {p \in seqLen .. seqLen + n - 1 : SlotOf(l, p) = s}
<1>1. StoreBatch(l, n)[s] = IF here = {} THEN cells[l][s]
                            ELSE <<calls, CHOOSE p \in here : \A q \in here : q <= p>>
  BY DEF StoreBatch
<1>2. CASE here = {}
  <2>1. \A p \in seqLen .. seqLen + n - 1 : SlotOf(l, p) # s
    BY <1>2
  <2>2. StoreBatch(l, n)[s] = cells[l][s]
    BY <1>1, <1>2
  <2> HIDE DEF here
  <2>3. CASE cells[l][s] = Blank /\ \A p \in 0 .. seqLen - 1 : SlotOf(l, p) # s
    BY <2>1, <2>2, <2>3
  <2>4. ASSUME NEW p \in 0 .. seqLen - 1,
               cells[l][s] = <<calls, p>>, SlotOf(l, p) = s,
               \A q \in p + 1 .. seqLen - 1 : SlotOf(l, q) # s
        PROVE  /\ p \in 0 .. seqLen + n - 1
               /\ StoreBatch(l, n)[s] = <<calls, p>> /\ SlotOf(l, p) = s
               /\ \A q \in p + 1 .. seqLen + n - 1 : SlotOf(l, q) # s
    BY <2>1, <2>2, <2>4
  <2> QED BY <2>3, <2>4 DEF RingHolds
<1>3. CASE here # {}
  <2>1. here \in SUBSET Nat /\ \A p \in here : p <= seqLen + n
    <3>1. \A p \in here : p \in seqLen .. seqLen + n - 1
      OBVIOUS
    <3> HIDE DEF here
    <3> QED BY <3>1
  <2>2. \E p \in here : \A q \in here : q <= p
    <3> HIDE DEF here
    <3>1. seqLen + n \in Nat
      OBVIOUS
    <3> QED BY <1>3, <2>1, <3>1, Greatest
  <2> DEFINE m == CHOOSE p \in here : \A q \in here : q <= p
  <2>3. m \in here /\ \A q \in here : q <= m
    BY <2>2
  <2>4. StoreBatch(l, n)[s] = <<calls, m>>
    BY <1>1, <1>3
  <2> HIDE DEF m
  <2>5. m \in seqLen .. seqLen + n - 1 /\ SlotOf(l, m) = s
    BY <2>3
  <2>6. \A q \in m + 1 .. seqLen + n - 1 : SlotOf(l, q) # s
    <3> SUFFICES ASSUME NEW q \in m + 1 .. seqLen + n - 1, SlotOf(l, q) = s PROVE FALSE
      OBVIOUS
    <3>1. q \in here
      BY <2>5
    <3> HIDE DEF here
    <3> QED BY <2>3, <2>5, <3>1
  <2> HIDE DEF here
  <2> QED BY <2>4, <2>5, <2>6
<1> QED BY <1>2, <1>3

\* Before a ring goes round, a token is in the slot of its own number.
LEMMA OwnSlot ==
  ASSUME NEW l \in Layers, NEW p \in Nat, p < MaxSeqLen, IsSwa(l) => p < Window
  PROVE  SlotOf(l, p) = p /\ p \in Slots(l)
BY DEF SlotOf, Slots

LEMMA SlotFilled ==
  ASSUME NEW l \in Layers, NEW k \in Nat, k <= MaxSeqLen, NEW ring, NEW call,
         RingHolds(ring, call, l, k),
         NEW j \in 0 .. k - 1, IsSwa(l) => j < Window
  PROVE  \E p \in 0 .. k - 1 : /\ ring[j] = <<call, p>> /\ SlotOf(l, p) = j
                               /\ \A q \in p + 1 .. k - 1 : SlotOf(l, q) # j
<1>1. SlotOf(l, j) = j /\ j \in Slots(l)
  BY OwnSlot
<1> QED BY <1>1 DEF RingHolds

LEMMA Unwrapped ==
  ASSUME NEW l \in Layers, NEW k \in Nat, k <= MaxSeqLen, NEW ring, NEW call,
         RingHolds(ring, call, l, k), IsSwa(l) => k <= Window
  PROVE  \A j \in 0 .. k - 1 : ring[j] = <<call, j>>
<1> SUFFICES ASSUME NEW j \in 0 .. k - 1 PROVE ring[j] = <<call, j>>
  OBVIOUS
<1>1. PICK p \in 0 .. k - 1 : ring[j] = <<call, p>> /\ SlotOf(l, p) = j
  BY SlotFilled
<1>2. SlotOf(l, p) = p
  BY OwnSlot
<1> QED BY <1>1, <1>2

LEMMA Wrapped ==
  ASSUME NEW l \in Layers, NEW k \in Nat, k <= MaxSeqLen, NEW ring, NEW call,
         RingHolds(ring, call, l, k), IsSwa(l), Window <= k
  PROVE  {ring[j] : j \in 0 .. Window - 1} = {<<call, p>> : p \in k - Window .. k - 1}
<1>s. \A p : SlotOf(l, p) = p % Window
  BY DEF SlotOf
<1>1. ASSUME NEW j \in 0 .. Window - 1
      PROVE  \E p \in k - Window .. k - 1 : ring[j] = <<call, p>>
  <2>1. PICK p \in 0 .. k - 1 : /\ ring[j] = <<call, p>> /\ p % Window = j
                                /\ \A q \in p + 1 .. k - 1 : q % Window # j
    BY <1>s, SlotFilled
  <2>2. p >= k - Window
    <3> SUFFICES ASSUME p < k - Window PROVE FALSE
      OBVIOUS
    <3>1. p + Window \in p + 1 .. k - 1
      OBVIOUS
    <3>2. p \in Nat /\ Window \in Nat \ {0}
      OBVIOUS
    <3>3. (p + Window) % Window = p % Window
      BY <3>2, ModPlus
    <3> QED BY <2>1, <3>1, <3>3
  <2> QED BY <2>1, <2>2
<1>2. ASSUME NEW p \in k - Window .. k - 1
      PROVE  \E j \in 0 .. Window - 1 : ring[j] = <<call, p>>
  <2>1. p \in Nat /\ p % Window \in 0 .. Window - 1
    OBVIOUS
  <2>2. PICK j \in 0 .. Window - 1 : j = p % Window
    BY <2>1
  <2>3. PICK r \in 0 .. k - 1 : /\ ring[j] = <<call, r>> /\ r % Window = j
                                /\ \A q \in r + 1 .. k - 1 : q % Window # j
    <3>1. j \in 0 .. k - 1 /\ j < Window
      OBVIOUS
    <3>2. \E r \in 0 .. k - 1 : /\ ring[j] = <<call, r>> /\ SlotOf(l, r) = j
                                /\ \A q \in r + 1 .. k - 1 : SlotOf(l, q) # j
      BY <3>1, SlotFilled
    <3> QED BY <1>s, <3>2
  <2>4. ~(r < p)
    <3>1. r < p => p \in r + 1 .. k - 1
      BY <2>1
    <3> QED BY <2>2, <2>3, <3>1
  <2>5. ~(p < r)
    <3> SUFFICES ASSUME p < r PROVE FALSE
      OBVIOUS
    <3>1. r \in Nat /\ r - p < Window
      BY <2>1
    <3>2. p % Window # r % Window
      BY <2>1, <3>1, ModApart
    <3> QED BY <2>2, <2>3, <3>2
  <2> QED BY <2>1, <2>3, <2>4, <2>5
<1> QED BY <1>1, <1>2

\* The rows that a query at position k - 1 should read are the first of the
\* storage, as many as the layer keeps.
Reach(l, k) == IF IsSwa(l) THEN Smaller(k, Window) ELSE k

LEMMA RowsOfWindow ==
  ASSUME NEW l \in Layers, NEW o \in Layers, IsSwa(o) <=> IsSwa(l),
         NEW k \in Nat \ {0}, k <= MaxSeqLen, NEW ring,
         RingHolds(ring, calls, o, k)
  PROVE  {ring[j] : j \in 0 .. Reach(l, k) - 1} = WindowOf(l, k - 1)
<1>1. CASE IsSwa(l) => k <= Window
  <2>1. \A j \in 0 .. k - 1 : ring[j] = <<calls, j>>
    BY <1>1, Unwrapped
  <2>2. Reach(l, k) = k
    BY <1>1 DEF Reach, Smaller
  <2>3. WindowOf(l, k - 1) = {<<calls, p>> : p \in 0 .. k - 1}
    BY <1>1 DEF WindowOf
  <2> QED BY <2>1, <2>2, <2>3
<1>2. CASE IsSwa(l) /\ k > Window
  <2>1. {ring[j] : j \in 0 .. Window - 1} = {<<calls, p>> : p \in k - Window .. k - 1}
    BY <1>2, Wrapped
  <2>2. Reach(l, k) = Window
    BY <1>2 DEF Reach, Smaller
  <2>3. WindowOf(l, k - 1) = {<<calls, p>> : p \in k - Window .. k - 1}
    <3>1. k - 1 >= Window /\ k - 1 - Window + 1 = k - Window
      BY <1>2
    <3> QED BY <1>2, <3>1 DEF WindowOf
  <2> QED BY <2>1, <2>2, <2>3
<1> QED BY <1>1, <1>2

-----------------------------------------------------------------------------
(* A layer of a pass.  PassLen tokens are stored and then attended.        *)

PassPc == pc \in {"prefill", "forward"}

LEMMA PassFits ==
  ASSUME Numbers, RoomInv, PassPc
  PROVE  PassLen \in Nat \ {0} /\ seqLen + PassLen <= MaxSeqLen
<1>1. CASE pc = "prefill"
  <2>1. Chunk \in Nat /\ Chunk > 0 /\ done + Chunk <= prompt
    BY <1>1, ChunkInPrompt DEF RoomInv
  <2> QED BY <1>1, <2>1 DEF Numbers, RoomInv, PassLen
<1>2. CASE pc = "forward"
  BY <1>2 DEF Numbers, RoomInv, PassLen
<1> QED BY <1>1, <1>2 DEF PassPc

\* What one layer of a pass does, of a prefill or of a decode pass.
Pass ==
  /\ PassPc
  /\ cells' = Stored(layer, PassLen)
  /\ calls' = calls
  /\ seen' = [layer |-> layer, first |-> seqLen,
              rows |-> [i \in 1 .. PassLen |->
                          {cells'[Owner(layer)][j] :
                             j \in 0 .. Reach(layer, seqLen + i) - 1}]]
  /\ IF layer < NLayers - 1
     THEN layer' = layer + 1 /\ seqLen' = seqLen /\ pc' = pc /\ PassLen' = PassLen
     ELSE layer' = 0 /\ seqLen' = seqLen + PassLen

\* The storage as the layer leaves it: it stands behind the pass up to here.
LEMMA PassStores ==
  ASSUME Numbers, RoomInv, CacheInv, Pass
  PROVE  \A l \in Owners :
           RingHolds(cells'[l], calls, l, IF l <= layer THEN seqLen + PassLen ELSE seqLen)
<1> SUFFICES ASSUME NEW l \in Owners
             PROVE  RingHolds(cells'[l], calls, l, IF l <= layer THEN seqLen + PassLen ELSE seqLen)
  OBVIOUS
<1>1. RingHolds(cells[l], calls, l, Stands(l)) /\ DOMAIN cells = Owners /\ layer \in Layers
  BY DEF CacheInv, Pass, PassPc
<1>2. PassLen \in Nat \ {0} /\ seqLen \in Nat /\ l \in Int /\ layer \in Int
  BY PassFits, <1>1 DEF Pass, Numbers, Owners, Layers
<1>3. CASE l = layer
  <2>1. cells' = [cells EXCEPT ![l] = StoreBatch(l, PassLen)]
    BY <1>3 DEF Pass, Stored
  <2>2. cells'[l] = StoreBatch(l, PassLen)
    BY <1>1, <2>1
  <2>3. RingHolds(cells[l], calls, l, seqLen)
    BY <1>1, <1>2, <1>3 DEF Stands
  <2>4. RingHolds(StoreBatch(l, PassLen), calls, l, seqLen + PassLen)
    BY <1>2, <2>3, StoreHolds
  <2> QED BY <1>2, <1>3, <2>2, <2>4
<1>4. CASE l # layer
  <2>1. cells'[l] = cells[l]
    BY <1>1, <1>4 DEF Pass, Stored
  <2>2. Stands(l) = IF l <= layer THEN seqLen + PassLen ELSE seqLen
    BY <1>2, <1>4 DEF Stands
  <2> QED BY <1>1, <2>1, <2>2
<1> QED BY <1>3, <1>4

LEMMA PassCache ==
  ASSUME Numbers, RoomInv, CacheInv, Pass, pc' # "idle", pc' \notin {"prefill", "forward"} => layer' = 0
  PROVE  CacheInv'
<1>1. layer \in Layers /\ DOMAIN cells = Owners
  BY DEF CacheInv
<1>2. layer' \in Layers
  BY <1>1 DEF Pass, Layers
<1>3. DOMAIN cells' = Owners
  BY <1>1 DEF Pass, Stored
<1>4. ASSUME NEW l \in Owners PROVE RingHolds(cells'[l], calls', l, Stands(l)')
  <2>1. RingHolds(cells'[l], calls, l, IF l <= layer THEN seqLen + PassLen ELSE seqLen)
    BY PassStores
  <2>2. l \in 0 .. NLayers - 1 /\ layer \in 0 .. NLayers - 1
    BY <1>1 DEF Owners, Layers
  <2>3. Stands(l)' = IF l <= layer THEN seqLen + PassLen ELSE seqLen
    <3>1. CASE layer < NLayers - 1
      BY <2>2, <3>1 DEF Pass, Stands
    <3>2. CASE ~(layer < NLayers - 1)
      BY <2>2, <3>2 DEF Pass, Stands
    <3> QED BY <3>1, <3>2
  <2>4. calls' = calls
    BY DEF Pass
  <2> QED BY <2>1, <2>3, <2>4
<1> QED BY <1>2, <1>3, <1>4 DEF CacheInv, RingHolds, Slots, SlotOf, IsSwa

\* What the queries of the pass read.
LEMMA PassReads ==
  ASSUME Numbers, RoomInv, CacheInv, Pass
  PROVE  SeesItsWindow' /\ OnlyThisCall'
<1> DEFINE n == PassLen
           k == seqLen + n
           o == Owner(layer)
           ring == cells'[o]
           Row(i) == {ring[j] : j \in 0 .. Reach(layer, seqLen + i) - 1}
<1>1. layer \in Layers /\ n \in Nat \ {0} /\ k \in Nat \ {0} /\ k <= MaxSeqLen /\ seqLen \in Nat
  BY PassFits DEF CacheInv, Pass, Numbers
<1>2. o \in Owners /\ o \in Layers /\ o <= layer /\ (IsSwa(o) <=> IsSwa(layer))
  BY <1>1, OwnerBefore DEF Owners
<1>3. RingHolds(ring, calls, o, k)
  BY <1>2, PassStores
<1>4. /\ seen' = [layer |-> layer, first |-> seqLen, rows |-> [i \in 1 .. n |-> Row(i)]]
      /\ calls' = calls
  BY DEF Pass
<1> HIDE DEF n, o, ring, Row
<1>5. /\ DOMAIN seen'.rows = 1 .. n /\ Len(seen'.rows) = n
      /\ seen'.layer = layer /\ seen'.first = seqLen
      /\ \A i \in 1 .. n : seen'.rows[i] = Row(i)
  BY <1>1, <1>4
<1>6. OnlyThisCall'
  <2> SUFFICES ASSUME NEW i \in 1 .. n, NEW j \in 0 .. Reach(layer, seqLen + i) - 1
               PROVE  ring[j] # Blank /\ ring[j][1] = calls
    BY <1>4, <1>5 DEF OnlyThisCall, Row
  <2>1. j \in 0 .. k - 1 /\ (IsSwa(o) => j < Window)
    BY <1>1, <1>2 DEF Reach, Smaller
  <2>2. PICK p \in 0 .. k - 1 : ring[j] = <<calls, p>>
    BY <1>1, <1>2, <1>3, <2>1, SlotFilled
  <2> QED BY <2>2 DEF Blank
<1>7. ASSUME NEW i \in 1 .. n, IsSwa(layer) => k <= Window \/ i = n
      PROVE  Row(i) = WindowOf(layer, seqLen + i - 1)
  <2>1. CASE i = n
    BY <1>1, <1>2, <1>3, <2>1, RowsOfWindow DEF Row
  <2>2. CASE IsSwa(layer) => k <= Window
    <3>1. \A j \in 0 .. k - 1 : ring[j] = <<calls, j>>
      BY <1>1, <1>2, <1>3, <2>2, Unwrapped
    <3>2. Reach(layer, seqLen + i) = seqLen + i
      BY <1>1, <2>2 DEF Reach, Smaller
    <3> DEFINE m == Reach(layer, seqLen + i)
    <3>3. \A j \in 0 .. m - 1 : ring[j] = <<calls, j>>
      BY <1>1, <3>1, <3>2
    <3>4. Row(i) = {ring[j] : j \in 0 .. m - 1}
      BY DEF Row
    <3>5. WindowOf(layer, seqLen + i - 1) = {<<calls, p>> : p \in 0 .. m - 1}
      BY <1>1, <2>2, <3>2 DEF WindowOf
    <3> HIDE DEF m
    <3> QED BY <3>3, <3>4, <3>5
  <2> QED BY <1>7, <2>1, <2>2
<1>8. SeesItsWindow'
  <2> SUFFICES ASSUME NEW i \in 1 .. n, IsSwa(layer) => k <= Window \/ i = n
               PROVE  Row(i) = WindowOf(layer, seqLen + i - 1)
    <3>1. PassEnd' = k
      BY <1>5 DEF PassEnd
    <3>2. ASSUME NEW i \in 1 .. n
          PROVE  WindowOf(seen.layer, Position(i))' = WindowOf(layer, seqLen + i - 1)
      BY <1>4, <1>5 DEF WindowOf, Position, IsSwa
    <3> HIDE DEF k
    <3>3. SeesItsWindow' <=> \A i \in DOMAIN seen'.rows :
             (IsSwa(seen'.layer) => PassEnd' <= Window \/ i = Len(seen'.rows))
             => seen'.rows[i] = WindowOf(seen.layer, Position(i))'
      BY DEF SeesItsWindow, IsSwa
    <3> QED BY <1>5, <3>1, <3>2, <3>3
  <2> QED BY <1>7
<1> QED BY <1>6, <1>8

LEMMA PrefillPasses ==
  ASSUME Numbers, RoomInv, CacheInv, PrefillLayer
  PROVE  Pass
<1>1. Chunk \in Nat /\ Chunk > 0 /\ done + Chunk <= prompt
  BY ChunkInPrompt DEF RoomInv, PrefillLayer
<1>2. PassLen = Chunk /\ pc = "prefill" /\ layer \in Layers /\ seqLen \in Nat
  BY DEF PassLen, PrefillLayer, CacheInv, Numbers
<1>3. ASSUME NEW i \in 1 .. Chunk
      PROVE  Smaller(seqLen + (i - 1) + 1, NKv(layer, Chunk)) = Reach(layer, seqLen + i)
  BY <1>1, <1>2 DEF Smaller, NKv, Reach
<1>4. /\ cells' = Stored(layer, Chunk) /\ calls' = calls
      /\ prompt' = prompt /\ ubatch' = ubatch
      /\ seen' = [layer |-> layer, first |-> seqLen,
                  rows |-> [i \in 1 .. Chunk |->
                              Attended(layer, i - 1, NKv(layer, Chunk), seqLen)]]
  BY DEF PrefillLayer, LayerPass
<1>5. [i \in 1 .. Chunk |-> Attended(layer, i - 1, NKv(layer, Chunk), seqLen)]
      = [i \in 1 .. Chunk |-> {cells'[Owner(layer)][j] : j \in 0 .. Reach(layer, seqLen + i) - 1}]
  BY <1>3 DEF Attended
<1>6. CASE layer < NLayers - 1
  <2>1. layer' = layer + 1 /\ seqLen' = seqLen /\ pc' = pc /\ done' = done
    BY <1>6 DEF PrefillLayer, NextLayer
  <2>2. PassLen' = PassLen
    BY <1>2, <1>4, <2>1 DEF PassLen, Chunk, Smaller
  <2> QED BY <1>2, <1>4, <1>5, <1>6, <2>1, <2>2 DEF Pass, PassPc
<1>7. CASE ~(layer < NLayers - 1)
  <2>1. layer' = 0 /\ seqLen' = seqLen + Chunk
    BY <1>7 DEF PrefillLayer, NextLayer
  <2> QED BY <1>2, <1>4, <1>5, <1>7, <2>1 DEF Pass, PassPc
<1> QED BY <1>6, <1>7

LEMMA DecodePasses ==
  ASSUME Numbers, RoomInv, CacheInv, DecodeLayer
  PROVE  Pass
<1>2. PassLen = 1 /\ pc = "forward" /\ layer \in Layers /\ seqLen \in Nat
  BY DEF PassLen, DecodeLayer, CacheInv, Numbers
<1>3. AttnLen(layer) = Reach(layer, seqLen + 1)
  BY <1>2, OwnerBefore DEF AttnLen, Reach
<1>4. Reach(layer, seqLen + 1) \in Nat
  BY <1>2 DEF Reach, Smaller
<1>5. ASSUME NEW i \in 1 .. 1
      PROVE  Smaller(AttnLen(layer) - 1 + (i - 1) + 1, AttnLen(layer)) = Reach(layer, seqLen + i)
  BY <1>3, <1>4 DEF Smaller
<1>6. /\ cells' = Stored(layer, 1) /\ calls' = calls
      /\ seen' = [layer |-> layer, first |-> seqLen,
                  rows |-> [i \in 1 .. 1 |->
                              Attended(layer, i - 1, AttnLen(layer), AttnLen(layer) - 1)]]
  BY DEF DecodeLayer, LayerPass
<1>7. [i \in 1 .. 1 |-> Attended(layer, i - 1, AttnLen(layer), AttnLen(layer) - 1)]
      = [i \in 1 .. 1 |-> {cells'[Owner(layer)][j] : j \in 0 .. Reach(layer, seqLen + i) - 1}]
  BY <1>5 DEF Attended
<1>8. IF layer < NLayers - 1
      THEN layer' = layer + 1 /\ seqLen' = seqLen /\ pc' = pc
      ELSE layer' = 0 /\ seqLen' = seqLen + 1
  BY DEF DecodeLayer, NextLayer
<1>9. layer < NLayers - 1 => PassLen' = PassLen
  BY <1>2, <1>8 DEF PassLen
<1> QED BY <1>2, <1>6, <1>7, <1>8, <1>9 DEF Pass, PassPc

-----------------------------------------------------------------------------
(* The cache through a run.                                                *)

ReadsRight == SeesItsWindow /\ OnlyThisCall

LEMMA CacheInit == Init => CacheInv /\ ReadsRight
<1> SUFFICES ASSUME Init PROVE CacheInv /\ ReadsRight
  OBVIOUS
<1>1. pc = "idle" /\ layer = 0 /\ cells = Zeroed /\ seen.rows = <<>>
  BY DEF Init, NothingSeen
<1> QED BY <1>1 DEF CacheInv, ReadsRight, SeesItsWindow, OnlyThisCall, Zeroed, Layers

LEMMA CacheNext ==
  ASSUME Numbers, RoomInv, CacheInv, ReadsRight, [Next]_vars
  PROVE  CacheInv' /\ ReadsRight'
<1> DEFINE Quiet == /\ cells' = cells /\ layer' = layer /\ seqLen' = seqLen
                    /\ calls' = calls /\ seen' = seen
<1>q. ASSUME Quiet, layer = 0, pc # "idle" \/ pc' = "idle"
      PROVE  CacheInv' /\ ReadsRight'
  <2>1. \A l \in Owners : Stands(l)' = Stands(l)
    BY <1>q DEF Stands, Owners, Layers
  <2>2. CacheInv'
    BY <1>q, <2>1 DEF CacheInv, RingHolds, Slots, SlotOf, IsSwa
  <2>3. ReadsRight'
    BY <1>q DEF ReadsRight, SeesItsWindow, OnlyThisCall, PassEnd, Position, WindowOf, IsSwa
  <2> QED BY <2>2, <2>3
<1>1. ASSUME NEW m \in 1 .. MaxSeqLen + 1, Refuse(m)
      PROVE  CacheInv' /\ ReadsRight'
  <2>1. pc' = "idle" /\ layer' = layer /\ cells' = cells /\ seen'.rows = <<>> /\ pc = "idle"
    BY <1>1 DEF Refuse, cacheVars, NothingSeen
  <2> QED BY <2>1 DEF CacheInv, ReadsRight, SeesItsWindow, OnlyThisCall
<1>2. ASSUME NEW m \in 1 .. MaxSeqLen + 1, NEW t \in 0 .. MaxTokens, Start(m, t)
      PROVE  CacheInv' /\ ReadsRight'
  <2>1. /\ pc' = "prefill" /\ layer' = 0 /\ cells' = Zeroed /\ seqLen' = 0
        /\ seen'.rows = <<>>
    BY <1>2 DEF Start, NothingSeen, ResetPosition
  <2>2. \A l \in Owners : Stands(l)' = 0
    BY <2>1 DEF Stands, Owners, Layers
  <2>3. \A l \in Owners : RingHolds(cells'[l], calls', l, 0)
    BY <2>1 DEF RingHolds, Zeroed
  <2>4. CacheInv'
    <3>1. 0 \in Layers /\ DOMAIN Zeroed = Owners
      BY DEF Layers, Zeroed
    <3> QED BY <2>1, <2>2, <2>3, <3>1 DEF CacheInv, RingHolds, Slots, SlotOf, IsSwa
  <2> QED BY <2>1, <2>4 DEF ReadsRight, SeesItsWindow, OnlyThisCall
<1>3. CASE PrefillLayer
  <2>1. Pass
    BY <1>3, PrefillPasses
  <2>2. pc' # "idle" /\ (pc' \notin {"prefill", "forward"} => layer' = 0)
    BY <1>3 DEF PrefillLayer, NextLayer
  <2> QED BY <2>1, <2>2, PassCache, PassReads DEF ReadsRight
<1>4. CASE DecodeLayer
  <2>1. Pass
    BY <1>4, DecodePasses
  <2>2. pc' # "idle" /\ (pc' \notin {"prefill", "forward"} => layer' = 0)
    BY <1>4 DEF DecodeLayer, NextLayer
  <2> QED BY <2>1, <2>2, PassCache, PassReads DEF ReadsRight
<1>5. ASSUME NEW s \in Sorts, Sample(s)
      PROVE  CacheInv' /\ ReadsRight'
  <2>1. Quiet /\ pc = "decode"
    BY <1>5 DEF Sample, cacheVars
  <2>2. layer = 0
    BY <2>1 DEF CacheInv
  <2> QED BY <2>1, <2>2, <1>q
<1>6. CASE Finish
  <2>1. Quiet /\ pc = "decode"
    BY <1>6 DEF Finish, cacheVars
  <2>2. layer = 0
    BY <2>1 DEF CacheInv
  <2> QED BY <2>1, <2>2, <1>q
<1>7. CASE UNCHANGED vars
  <2>1. /\ Quiet /\ pc' = pc /\ PassLen' = PassLen
    BY <1>7 DEF vars, cacheVars, PassLen, Chunk, Smaller
  <2>2. \A l \in Owners : Stands(l)' = Stands(l)
    BY <2>1 DEF Stands
  <2>3. CacheInv'
    BY <2>1, <2>2 DEF CacheInv, RingHolds, Slots, SlotOf, IsSwa
  <2>4. ReadsRight'
    BY <2>1 DEF ReadsRight, SeesItsWindow, OnlyThisCall, PassEnd, Position, WindowOf, IsSwa
  <2> QED BY <2>3, <2>4
<1> QED BY <1>1, <1>2, <1>3, <1>4, <1>5, <1>6, <1>7 DEF Next, Call

-----------------------------------------------------------------------------
(* Types, and where the position stands in the text.                       *)

Types ==
  /\ calls \in 0 .. MaxCalls
  /\ prompt \in 0 .. MaxSeqLen - 1 /\ done \in 0 .. prompt
  /\ ubatch \in 1 .. MaxSeqLen /\ seqLen \in 0 .. MaxSeqLen
  /\ sampled \in Seq(Sorts) /\ Len(sampled) + left <= MaxTokens
  /\ inThinking \in BOOLEAN
  /\ \A l \in Owners : cells[l] \in [Slots(l) -> Entries \union {Blank}]
  /\ pc # "idle" => calls > 0 /\ prompt > 0
  /\ pc = "prefill" => sampled = <<>>
  /\ pc = "decode" => seqLen = prompt + Len(sampled)
  /\ pc = "forward" => seqLen + 1 = prompt + Len(sampled)

LEMMA TypesInit == Init => Types
<1> SUFFICES ASSUME Init PROVE Types
  OBVIOUS
<1>1. \A l \in Owners : cells[l] \in [Slots(l) -> Entries \union {Blank}]
  BY DEF Init, Zeroed
<1>2. <<>> \in Seq(Sorts) /\ Len(<<>>) = 0
  OBVIOUS
<1>3. /\ pc = "idle" /\ calls = 0 /\ prompt = 0 /\ done = 0 /\ ubatch = 1 /\ left = 0
      /\ seqLen = 0 /\ sampled = <<>> /\ inThinking \in BOOLEAN
  BY DEF Init
<1> QED BY <1>1, <1>2, <1>3 DEF Types

LEMMA PassTypes ==
  ASSUME Numbers, RoomInv, CacheInv, Types, Pass
  PROVE  \A l \in Owners : cells'[l] \in [Slots(l) -> Entries \union {Blank}]
<1> DEFINE n == PassLen
<1>1. /\ n \in Nat \ {0} /\ seqLen \in Nat /\ seqLen + n <= MaxSeqLen
      /\ calls \in 1 .. MaxCalls
  BY PassFits DEF Pass, PassPc, Numbers, Types
<1> HIDE DEF n
<1> SUFFICES ASSUME NEW l \in Owners
             PROVE  cells'[l] \in [Slots(l) -> Entries \union {Blank}]
  OBVIOUS
<1>2. ASSUME NEW s \in Slots(l) PROVE StoreBatch(l, n)[s] \in Entries \union {Blank}
  <2> DEFINE here == {p \in seqLen .. seqLen + n - 1 : SlotOf(l, p) = s}
             m == CHOOSE p \in here : \A q \in here : q <= p
  <2>1. StoreBatch(l, n)[s] = IF here = {} THEN cells[l][s] ELSE <<calls, m>>
    BY DEF StoreBatch
  <2>2. here # {} => m \in here
    <3> SUFFICES ASSUME here # {} PROVE m \in here
      OBVIOUS
    <3>1. \A p \in here : p \in seqLen .. seqLen + n - 1
      OBVIOUS
    <3>2. \E p \in here : \A q \in here : q <= p
      <4> HIDE DEF here
      <4>1. here \in SUBSET Nat /\ seqLen + n \in Nat /\ \A p \in here : p <= seqLen + n
        BY <1>1, <3>1
      <4> QED BY <4>1, Greatest
    <3> QED BY <3>2
  <2>3. here # {} => m \in 0 .. MaxSeqLen - 1
    BY <1>1, <2>2
  <2> HIDE DEF m, here
  <2>4. cells[l][s] \in Entries \union {Blank}
    BY DEF Types
  <2> QED BY <1>1, <2>1, <2>3, <2>4 DEF Entries
<1>3. StoreBatch(l, n) \in [Slots(l) -> Entries \union {Blank}]
  BY <1>2 DEF StoreBatch
<1>4. cells'[l] = cells[l] \/ cells'[l] = StoreBatch(l, n)
  BY DEF CacheInv, Pass, Stored, n
<1>5. cells[l] \in [Slots(l) -> Entries \union {Blank}]
  BY DEF Types
<1> QED BY <1>3, <1>4, <1>5

LEMMA TypesNext ==
  ASSUME Numbers, RoomInv, CacheInv, Types, [Next]_vars
  PROVE  Types'
<1> DEFINE Typed(c) == \A l \in Owners : c[l] \in [Slots(l) -> Entries \union {Blank}]
<1>s. Types => Typed(cells)
  BY DEF Types
<1>t. ASSUME cells' = cells PROVE Typed(cells')
  BY <1>t, <1>s
<1> HIDE DEF Typed
<1>1. ASSUME NEW m \in 1 .. MaxSeqLen + 1, Refuse(m)
      PROVE  Types'
  BY <1>1, <1>t DEF Refuse, cacheVars, textVars, Types, Typed
<1>2. ASSUME NEW m \in 1 .. MaxSeqLen + 1, NEW t \in 0 .. MaxTokens, Start(m, t)
      PROVE  Types'
  <2>1. /\ calls' = calls + 1 /\ calls < MaxCalls /\ prompt' = m /\ done' = 0
        /\ cells' = Zeroed /\ sampled' = <<>>
        /\ pc' = "prefill" /\ m \in 2 .. MaxSeqLen - 1 /\ seqLen' = 0
    BY <1>2 DEF Start, Refused, ResetPosition
  <2>6. sampled' \in Seq(Sorts) /\ Len(sampled') = 0
    BY <2>1
  <2>2. left' \in 0 .. MaxTokens
    BY <1>2 DEF Start, DecodeBudget, Smaller, Refused
  <2>3. ubatch' \in 1 .. MaxSeqLen
    BY <1>2 DEF Start, Smaller, Refused
  <2>4. Typed(cells')
    BY <2>1 DEF Typed, Zeroed
  <2>7. PICK d \in 0 .. MaxTokens : left' = d
    BY <2>2
  <2>8. inThinking' \in BOOLEAN
    BY <1>2 DEF Start
  <2>9. calls' \in 1 .. MaxCalls
    BY <2>1 DEF Types
  <2>10. (Len(sampled) + left <= MaxTokens)'
    BY <2>6, <2>7
  <2>11. /\ prompt' \in 0 .. MaxSeqLen - 1 /\ done' \in 0 .. prompt' /\ prompt' > 0
         /\ calls' \in 0 .. MaxCalls /\ calls' > 0 /\ seqLen' \in 0 .. MaxSeqLen
    BY <2>1, <2>9
  <2>12. pc' = "prefill" /\ pc' # "decode" /\ pc' # "forward" /\ sampled' = <<>>
    BY <2>1
  <2> QED BY <2>3, <2>4, <2>6, <2>8, <2>10, <2>11, <2>12 DEF Types, Typed
<1>3. CASE PrefillLayer
  <2>1. Chunk \in Nat /\ Chunk > 0 /\ done + Chunk <= prompt
    BY <1>3, ChunkInPrompt DEF RoomInv, PrefillLayer
  <2>2. Typed(cells')
    BY <1>3, PrefillPasses, PassTypes DEF Typed
  <2>3. /\ calls' = calls /\ prompt' = prompt /\ ubatch' = ubatch /\ left' = left
        /\ sampled' = sampled /\ inThinking' = inThinking
        /\ pc = "prefill" /\ seqLen = done /\ sampled = <<>> /\ Len(sampled) = 0
    BY <1>3 DEF PrefillLayer, LayerPass, textVars, Types, RoomInv
  <2>4. CASE layer < NLayers - 1
    BY <1>3, <2>2, <2>3, <2>4 DEF PrefillLayer, NextLayer, Types, Typed
  <2>5. CASE ~(layer < NLayers - 1)
    <3>1. /\ seqLen' = seqLen + Chunk /\ done' = done + Chunk
          /\ pc' = IF done + Chunk = prompt THEN "decode" ELSE "prefill"
      BY <1>3, <2>5 DEF PrefillLayer, NextLayer
    <3> QED BY <2>1, <2>2, <2>3, <3>1 DEF Types, Typed, Numbers
  <2> QED BY <2>4, <2>5
<1>4. CASE DecodeLayer
  <2>1. Typed(cells')
    BY <1>4, DecodePasses, PassTypes DEF Typed
  <2>2. /\ calls' = calls /\ prompt' = prompt /\ ubatch' = ubatch /\ left' = left
        /\ done' = done /\ sampled' = sampled /\ inThinking' = inThinking
        /\ pc = "forward" /\ seqLen + 1 = prompt + Len(sampled) /\ seqLen + 1 <= MaxSeqLen
    BY <1>4 DEF DecodeLayer, LayerPass, textVars, Types, RoomInv, Numbers
  <2>3. \/ seqLen' = seqLen /\ pc' = pc
        \/ seqLen' = seqLen + 1 /\ pc' = "decode"
    BY <1>4 DEF DecodeLayer, NextLayer
  <2> QED BY <2>1, <2>2, <2>3 DEF Types, Typed, Numbers
<1>5. ASSUME NEW s \in Sorts, Sample(s)
      PROVE  Types'
  <2>1. /\ left' = left - 1 /\ left > 0 /\ sampled' = Append(sampled, s)
        /\ pc = "decode" /\ pc' = "forward" /\ cells' = cells /\ seqLen' = seqLen
        /\ UNCHANGED <<calls, prompt, done, ubatch>>
        /\ inThinking' \in BOOLEAN
    BY <1>5 DEF Sample, cacheVars, ThinkingAfter, Types
  <2>2. sampled' \in Seq(Sorts) /\ Len(sampled') = Len(sampled) + 1
    BY <2>1 DEF Types
  <2>3. Typed(cells')
    BY <2>1, <1>t
  <2>4. /\ Len(sampled) \in Nat /\ Len(sampled) + left <= MaxTokens /\ left \in Nat
        /\ seqLen = prompt + Len(sampled) /\ prompt \in Nat /\ seqLen \in Nat
    BY <2>1 DEF Types, Numbers
  <2>5. /\ (Len(sampled) + left <= MaxTokens)'
        /\ (seqLen + 1 = prompt + Len(sampled))'
    BY <2>1, <2>2, <2>4
  <2>6. /\ (calls \in 0 .. MaxCalls /\ calls > 0 /\ prompt > 0)'
        /\ (prompt \in 0 .. MaxSeqLen - 1 /\ done \in 0 .. prompt)'
        /\ (ubatch \in 1 .. MaxSeqLen /\ seqLen \in 0 .. MaxSeqLen)'
    BY <2>1 DEF Types
  <2> QED BY <2>1, <2>2, <2>3, <2>5, <2>6 DEF Types, Typed
<1>6. CASE Finish
  BY <1>6, <1>t DEF Finish, cacheVars, textVars, Types, Typed
<1>7. CASE UNCHANGED vars
  BY <1>7, <1>t DEF vars, cacheVars, textVars, Types, Typed
<1> QED BY <1>1, <1>2, <1>3, <1>4, <1>5, <1>6, <1>7 DEF Next, Call

GenInv == Numbers /\ RoomInv /\ CacheInv /\ ReadsRight /\ Types

LEMMA GenInvHolds == Spec => []GenInv
<1>1. Init => GenInv
  BY InitRoom, CacheInit, TypesInit DEF GenInv
<1>2. GenInv /\ [Next]_vars => GenInv'
  BY StepRoom, CacheNext, TypesNext DEF GenInv
<1> QED BY <1>1, <1>2, PTL DEF Spec

\* AttendsRight, for every value of the constants: whatever the chunks of the
\* prefill, the budget, the window and the layers that share a storage, a query
\* reads the cells of the tokens in its window, and nothing that a reset or an
\* earlier call left (cache.rs store_layer_batch, generate.rs:164-165).
THEOREM GenerationAttendsRight == Spec => []AttendsRight
<1>1. GenInv => AttendsRight
  <2> SUFFICES ASSUME GenInv PROVE AttendsRight
    OBVIOUS
  <2>1. InBounds
    BY RoomInBounds DEF GenInv
  <2>2. left \in 0 .. MaxTokens /\ Len(sampled) <= MaxTokens
    <3>1. left \in Nat /\ Len(sampled) \in Nat /\ Len(sampled) + left <= MaxTokens
      BY DEF GenInv, Numbers, Types
    <3> QED BY <3>1
  <2>3. TypeOK
    BY <2>2 DEF GenInv, Numbers, RoomInv, CacheInv, Types, TypeOK
  <2> QED BY <2>1, <2>3 DEF GenInv, ReadsRight, AttendsRight
<1> QED BY <1>1, GenInvHolds, PTL

\* CacheHoldsText, for every value of the constants: between passes the cache
\* has run every token of the prompt and of the reply once, and each storage
\* holds the last Window of them, or all (cache.rs advance, generate.rs:201).
THEOREM CacheFollowsText == Spec => []CacheHoldsText
<1>1. GenInv => CacheHoldsText
  <2> SUFFICES ASSUME GenInv, pc = "decode" 
               PROVE  /\ seqLen = prompt + Len(sampled)
                      /\ \A l \in Owners :
                           WindowOf(l, seqLen - 1) \subseteq {cells[l][s] : s \in Slots(l)}
    BY DEF CacheHoldsText
  <2>1. seqLen = prompt + Len(sampled) /\ seqLen \in Nat \ {0} /\ seqLen <= MaxSeqLen
    BY DEF GenInv, Types
  <2>2. ASSUME NEW l \in Owners
        PROVE  WindowOf(l, seqLen - 1) \subseteq {cells[l][s] : s \in Slots(l)}
    <3>1. layer = 0 /\ l \in Layers
      BY DEF GenInv, CacheInv, Owners
    <3>2. RingHolds(cells[l], calls, l, seqLen)
      BY <3>1 DEF GenInv, CacheInv, Stands, Layers
    <3>3. {cells[l][j] : j \in 0 .. Reach(l, seqLen) - 1} = WindowOf(l, seqLen - 1)
      BY <2>1, <3>1, <3>2, RowsOfWindow
    <3>4. 0 .. Reach(l, seqLen) - 1 \subseteq Slots(l)
      BY <2>1 DEF Reach, Smaller, Slots
    <3> QED BY <3>3, <3>4
  <2> QED BY <2>1, <2>2
<1> QED BY <1>1, GenInvHolds, PTL

-----------------------------------------------------------------------------
(* What the user sees.                                                     *)

Events == [kind : {"token"}, at : Nat] \union [kind : {"thinking"}, on : BOOLEAN]

ThinkInv ==
  /\ sampled \in Seq(Sorts) /\ events \in Seq(Events)
  /\ inThinking <=> Hidden(Len(sampled) + 1)
  /\ inThinking <=> Announced(Len(events) + 1)
  /\ ThinkingHidden

\* Being inside a block, when the sequence grows.
LEMMA InsideAppend ==
  ASSUME NEW S, NEW seq \in Seq(S), NEW e \in S, NEW open, NEW close
  PROVE  /\ \A i \in 1 .. Len(seq) + 1 :
              Inside(Append(seq, e), i, open, close) <=> Inside(seq, i, open, close)
         /\ Inside(Append(seq, e), Len(seq) + 2, open, close)
              <=> e = open \/ (e # close /\ Inside(seq, Len(seq) + 1, open, close))
<1> DEFINE n == Len(seq)
           t == Append(seq, e)
<1>1. n \in Nat /\ t[n + 1] = e /\ \A i \in 1 .. n : t[i] = seq[i]
  OBVIOUS
<1> HIDE DEF n, t
<1>2. ASSUME NEW i \in 1 .. n + 1
      PROVE  Inside(t, i, open, close) <=> Inside(seq, i, open, close)
  BY <1>1 DEF Inside
<1>3. ASSUME e = open PROVE Inside(t, n + 2, open, close)
  <2>1. n + 1 \in 1 .. (n + 2) - 1 /\ \A k \in (n + 1) + 1 .. (n + 2) - 1 : t[k] # close
    BY <1>1
  <2> QED BY <1>1, <1>3, <2>1 DEF Inside
<1>4. ASSUME e # close, Inside(seq, n + 1, open, close)
      PROVE  Inside(t, n + 2, open, close)
  <2>1. PICK o \in 1 .. n : seq[o] = open /\ \A k \in o + 1 .. n : seq[k] # close
    BY <1>1, <1>4 DEF Inside
  <2>2. o \in 1 .. (n + 2) - 1 /\ t[o] = open
    BY <1>1, <2>1
  <2>3. ASSUME NEW k \in o + 1 .. (n + 2) - 1 PROVE t[k] # close
    <3>1. CASE k = n + 1
      BY <1>1, <1>4, <3>1
    <3>2. CASE k # n + 1
      <4>1. k \in o + 1 .. n /\ k \in 1 .. n
        BY <1>1, <3>2
      <4> QED BY <1>1, <2>1, <4>1
    <3> QED BY <3>1, <3>2
  <2> QED BY <2>2, <2>3 DEF Inside
<1>5. ASSUME Inside(t, n + 2, open, close), e # open
      PROVE  e # close /\ Inside(seq, n + 1, open, close)
  <2>1. PICK o \in 1 .. (n + 2) - 1 : t[o] = open /\ \A k \in o + 1 .. (n + 2) - 1 : t[k] # close
    BY <1>5 DEF Inside
  <2>2. o \in 1 .. n
    BY <1>1, <1>5, <2>1
  <2>3. n + 1 \in o + 1 .. (n + 2) - 1
    BY <1>1, <2>2
  <2>4. \A k \in o + 1 .. n : seq[k] # close
    BY <1>1, <2>1, <2>2
  <2>5. seq[o] = open
    BY <1>1, <2>1, <2>2
  <2> QED BY <1>1, <2>1, <2>2, <2>3, <2>4, <2>5 DEF Inside
<1> QED BY <1>2, <1>3, <1>4, <1>5 DEF n, t

LEMMA ThinkInit == Init => ThinkInv
<1> SUFFICES ASSUME Init PROVE ThinkInv
  OBVIOUS
<1>1. sampled = <<>> /\ events = <<>> /\ ~inThinking
  BY DEF Init
<1>2. /\ <<>> \in Seq(Sorts) /\ <<>> \in Seq(Events) /\ Len(<<>>) = 0
      /\ DOMAIN sampled = {} /\ DOMAIN events = {}
  BY <1>1
<1>3. ~Hidden(Len(sampled) + 1) /\ ~Announced(Len(events) + 1)
  BY <1>1 DEF Hidden, Announced, Inside
<1> QED BY <1>1, <1>2, <1>3 DEF ThinkInv, ThinkingHidden

\* What a sampled token does to the two records, for each outcome.
LEMMA ThinkSample ==
  ASSUME ThinkInv, NEW sort \in Sorts, Sample(sort), inThinking \in BOOLEAN
  PROVE  ThinkInv'
<1> DEFINE n == Len(sampled)
           m == Len(events)
<1>1. /\ n \in Nat /\ m \in Nat /\ sampled \in Seq(Sorts) /\ events \in Seq(Events)
      /\ DOMAIN sampled = 1 .. n /\ DOMAIN events = 1 .. m
      /\ \A j \in 1 .. m : events[j] \in Events
  BY DEF ThinkInv
<1>2. sampled' = Append(sampled, sort)
  BY DEF Sample
<1>3. /\ sampled' \in Seq(Sorts) /\ Len(sampled') = n + 1 /\ DOMAIN sampled' = 1 .. n + 1
      /\ sampled'[n + 1] = sort /\ \A i \in 1 .. n : sampled'[i] = sampled[i]
  BY <1>1, <1>2
<1>4. /\ \A i \in 1 .. n + 1 : Hidden(i)' <=> Hidden(i)
      /\ Inside(sampled', n + 2, "open", "close") <=> sort = "open" \/ (sort # "close" /\ Hidden(n + 1))
  BY <1>1, <1>2, InsideAppend DEF Hidden
<1>5. inThinking' <=> sort = "open" \/ (sort # "close" /\ inThinking)
  BY DEF Sample, ThinkingAfter
<1>6. inThinking <=> Hidden(n + 1)
  BY DEF ThinkInv
<1>7. inThinking' <=> Inside(sampled', n + 2, "open", "close")
  BY <1>4, <1>5, <1>6
<1>8. inThinking <=> Announced(m + 1)
  BY DEF ThinkInv
<1>o. /\ \A i \in 1 .. n : (sampled[i] = "text" /\ ~Hidden(i)) <=> \E j \in 1 .. m : events[j] = Token(i)
      /\ \A j \in 1 .. m :
           IF events[j].kind = "token"
           THEN /\ events[j].at \in 1 .. n /\ ~Announced(j)
                /\ \A k \in 1 .. j - 1 : events[k].kind = "token" => events[k].at < events[j].at
           ELSE events[j].on <=> ~Announced(j)
  BY <1>1 DEF ThinkInv, ThinkingHidden
<1>k. /\ \A i : Token(i).kind = "token" /\ Token(i).at = i
      /\ \A b : Thinking(b).kind = "thinking" /\ Thinking(b).on = b
      /\ \A i \in Nat : Token(i) \in Events
      /\ \A b \in BOOLEAN : Thinking(b) \in Events
  BY DEF Token, Thinking, Events
<1> DEFINE Goal ==
      /\ events' \in Seq(Events)
      /\ inThinking' <=> Announced(Len(events) + 1)'
      /\ \A i \in 1 .. n + 1 : (sampled'[i] = "text" /\ ~Hidden(i)') <=> \E j \in DOMAIN events' : events'[j] = Token(i)
      /\ \A j \in DOMAIN events' :
           IF events'[j].kind = "token"
           THEN /\ events'[j].at \in 1 .. n + 1 /\ ~Announced(j)'
                /\ \A k \in 1 .. j - 1 : events'[k].kind = "token" => events'[k].at < events'[j].at
           ELSE events'[j].on <=> ~Announced(j)'
<1>g. ASSUME Goal PROVE ThinkInv'
  <2>1. inThinking' <=> Hidden(Len(sampled) + 1)'
    <3>1. (n + 1) + 1 = n + 2
      BY <1>1
    <3> QED BY <1>3, <1>7, <3>1 DEF Hidden
  <2>2. ThinkingHidden'
    BY <1>g, <1>3, <2>1 DEF ThinkingHidden
  <2> QED BY <1>g, <1>3, <2>1, <2>2 DEF ThinkInv
\* Nothing is sent.
<1>9. ASSUME EventsOf(sort) = <<>>, inThinking' <=> inThinking,
             sort = "text" => inThinking
      PROVE  ThinkInv'
  <2>1. events' = events
    <3>1. events' = events \o <<>>
      BY <1>9 DEF Sample
    <3> QED BY <1>1, <3>1
  <2>2. \A j : Announced(j)' <=> Announced(j)
    BY <2>1 DEF Announced
  <2>3. ASSUME NEW i \in 1 .. n + 1
        PROVE  (sampled'[i] = "text" /\ ~Hidden(i)') <=> \E j \in 1 .. m : events[j] = Token(i)
    <3>1. CASE i \in 1 .. n
      BY <1>3, <1>4, <1>o, <3>1
    <3>2. CASE i = n + 1
      <4>1. ~(sampled'[i] = "text" /\ ~Hidden(i)')
        BY <1>3, <1>4, <1>6, <1>9, <3>2
      <4>2. ASSUME NEW j \in 1 .. m, events[j] = Token(i) PROVE FALSE
        BY <1>1, <1>k, <1>o, <3>2, <4>2
      <4> QED BY <4>1, <4>2
    <3> QED BY <1>1, <3>1, <3>2
  <2>4. \A j \in 1 .. m : events[j].kind = "token" => events[j].at \in 1 .. n + 1
    BY <1>1, <1>o
  <2>5. Goal
    BY <1>1, <1>8, <1>9, <1>o, <2>1, <2>2, <2>3, <2>4
  <2> QED BY <2>5, <1>g
\* One event is sent.
<1>10. ASSUME NEW e \in Events, EventsOf(sort) = <<e>>
       PROVE  /\ events' \in Seq(Events) /\ Len(events') = m + 1 /\ DOMAIN events' = 1 .. m + 1
              /\ events'[m + 1] = e /\ \A j \in 1 .. m : events'[j] = events[j]
              /\ \A j \in 1 .. m + 1 : Announced(j)' <=> Announced(j)
              /\ Announced(Len(events) + 1)' <=> e = Thinking(TRUE) \/ (e # Thinking(FALSE) /\ Announced(m + 1))
  <2>1. events' = events \o <<e>>
    BY <1>10 DEF Sample
  <2>2. events' = Append(events, e)
    BY <1>1, <2>1
  <2>3. /\ events' \in Seq(Events) /\ Len(events') = m + 1 /\ DOMAIN events' = 1 .. m + 1
        /\ events'[m + 1] = e /\ \A j \in 1 .. m : events'[j] = events[j]
    BY <1>1, <2>2
  <2>4. /\ \A j \in 1 .. m + 1 : Announced(j)' <=> Announced(j)
        /\ Inside(events', m + 2, Thinking(TRUE), Thinking(FALSE))
             <=> e = Thinking(TRUE) \/ (e # Thinking(FALSE) /\ Announced(m + 1))
    BY <1>1, <2>2, InsideAppend DEF Announced
  <2>5. Len(events') + 1 = m + 2
    BY <1>1, <2>3
  <2> QED BY <2>3, <2>4, <2>5 DEF Announced
<1>11. ASSUME NEW b \in BOOLEAN, EventsOf(sort) = <<Thinking(b)>>, inThinking <=> ~b,
              inThinking' <=> b, sort # "text"
       PROVE  ThinkInv'
  <2> DEFINE e == Thinking(b)
  <2>1. /\ events' \in Seq(Events) /\ Len(events') = m + 1 /\ DOMAIN events' = 1 .. m + 1
        /\ events'[m + 1] = e /\ \A j \in 1 .. m : events'[j] = events[j]
        /\ \A j \in 1 .. m + 1 : Announced(j)' <=> Announced(j)
        /\ Announced(Len(events) + 1)' <=> e = Thinking(TRUE) \/ (e # Thinking(FALSE) /\ Announced(m + 1))
    BY <1>k, <1>10, <1>11
  <2>2. e.kind = "thinking" /\ e.on = b /\ "thinking" # "token"
    BY <1>k
  <2>3. inThinking' <=> Announced(Len(events) + 1)'
    <3>1. b => e = Thinking(TRUE)
      BY <1>11
    <3>2. ~b => e = Thinking(FALSE) /\ Thinking(FALSE) # Thinking(TRUE)
      BY <1>11 DEF Thinking
    <3> QED BY <1>11, <2>1, <3>1, <3>2
  <2> HIDE DEF e
  <2>4. ASSUME NEW i \in 1 .. n + 1
        PROVE  (sampled'[i] = "text" /\ ~Hidden(i)') <=> \E j \in 1 .. m + 1 : events'[j] = Token(i)
    <3>1. e # Token(i)
      BY <1>k, <2>2
    <3>2. (\E j \in 1 .. m + 1 : events'[j] = Token(i)) <=> \E j \in 1 .. m : events[j] = Token(i)
      BY <1>1, <2>1, <3>1
    <3>3. CASE i \in 1 .. n
      BY <1>3, <1>4, <1>o, <3>2, <3>3
    <3>4. CASE i = n + 1
      <4>1. sampled'[i] # "text"
        BY <1>3, <1>11, <3>4
      <4>2. ASSUME NEW j \in 1 .. m, events[j] = Token(i) PROVE FALSE
        BY <1>1, <1>k, <1>o, <3>4, <4>2
      <4> QED BY <3>2, <4>1, <4>2
    <3> QED BY <1>1, <3>3, <3>4
  <2>5. ASSUME NEW j \in 1 .. m + 1
        PROVE  IF events'[j].kind = "token"
               THEN /\ events'[j].at \in 1 .. n + 1 /\ ~Announced(j)'
                    /\ \A k \in 1 .. j - 1 : events'[k].kind = "token" => events'[k].at < events'[j].at
               ELSE events'[j].on <=> ~Announced(j)'
    <3>1. CASE j \in 1 .. m
      <4>1. events'[j] = events[j] /\ \A k \in 1 .. j - 1 : events'[k] = events[k]
        BY <1>1, <2>1, <3>1
      <4>2. Announced(j)' <=> Announced(j)
        BY <2>1
      <4>3. events[j].kind = "token" => events[j].at \in 1 .. n + 1
        BY <1>1, <1>o, <3>1
      <4> QED BY <1>o, <3>1, <4>1, <4>2, <4>3
    <3>2. CASE j = m + 1
      <4>1. events'[j].on <=> ~Announced(j)'
        BY <1>8, <1>11, <2>1, <2>2, <3>2
      <4> QED BY <2>1, <2>2, <3>2, <4>1
    <3> QED BY <1>1, <3>1, <3>2
  <2>6. Goal
    BY <2>1, <2>3, <2>4, <2>5
  <2> QED BY <2>6, <1>g
<1>12. ASSUME EventsOf(sort) = <<Token(n + 1)>>, ~inThinking, ~inThinking', sort = "text"
       PROVE  ThinkInv'
  <2> DEFINE e == Token(n + 1)
  <2>1. /\ events' \in Seq(Events) /\ Len(events') = m + 1 /\ DOMAIN events' = 1 .. m + 1
        /\ events'[m + 1] = e /\ \A j \in 1 .. m : events'[j] = events[j]
        /\ \A j \in 1 .. m + 1 : Announced(j)' <=> Announced(j)
        /\ Announced(Len(events) + 1)' <=> e = Thinking(TRUE) \/ (e # Thinking(FALSE) /\ Announced(m + 1))
    <3>1. e \in Events
      BY <1>1, <1>k
    <3> HIDE DEF e
    <3>2. EventsOf(sort) = <<e>>
      BY <1>12 DEF e
    <3> QED BY <3>1, <3>2, <1>10
  <2>2. e.kind = "token" /\ e.at = n + 1
    BY <1>k
  <2>3. inThinking' <=> Announced(Len(events) + 1)'
    <3>1. e # Thinking(TRUE)
      BY <1>k, <2>2
    <3> QED BY <1>8, <1>12, <2>1, <3>1
  <2> HIDE DEF e
  <2>4. ASSUME NEW i \in 1 .. n + 1
        PROVE  (sampled'[i] = "text" /\ ~Hidden(i)') <=> \E j \in 1 .. m + 1 : events'[j] = Token(i)
    <3>1. CASE i \in 1 .. n
      <4>1. e # Token(i)
        BY <1>1, <1>k, <2>2, <3>1
      <4>2. (\E j \in 1 .. m + 1 : events'[j] = Token(i)) <=> \E j \in 1 .. m : events[j] = Token(i)
        BY <1>1, <2>1, <4>1
      <4> QED BY <1>3, <1>4, <1>o, <3>1, <4>2
    <3>2. CASE i = n + 1
      <4>1. sampled'[i] = "text" /\ ~Hidden(i)'
        BY <1>3, <1>4, <1>6, <1>12, <3>2
      <4>2. m + 1 \in 1 .. m + 1 /\ events'[m + 1] = Token(i)
        BY <1>1, <2>1, <3>2 DEF e
      <4> QED BY <4>1, <4>2
    <3> QED BY <1>1, <3>1, <3>2
  <2>5. ASSUME NEW j \in 1 .. m + 1
        PROVE  IF events'[j].kind = "token"
               THEN /\ events'[j].at \in 1 .. n + 1 /\ ~Announced(j)'
                    /\ \A k \in 1 .. j - 1 : events'[k].kind = "token" => events'[k].at < events'[j].at
               ELSE events'[j].on <=> ~Announced(j)'
    <3>1. CASE j \in 1 .. m
      <4>1. events'[j] = events[j] /\ \A k \in 1 .. j - 1 : events'[k] = events[k]
        BY <1>1, <2>1, <3>1
      <4>2. Announced(j)' <=> Announced(j)
        BY <2>1
      <4>3. events[j].kind = "token" => events[j].at \in 1 .. n + 1
        BY <1>1, <1>o, <3>1
      <4> QED BY <1>o, <3>1, <4>1, <4>2, <4>3
    <3>2. CASE j = m + 1
      <4>1. ~Announced(j)' /\ events'[j].at = n + 1 /\ events'[j].kind = "token"
        BY <1>8, <1>12, <2>1, <2>2, <3>2
      <4>2. \A k \in 1 .. j - 1 : events'[k].kind = "token" => events'[k].at < n + 1
        <5> SUFFICES ASSUME NEW k \in 1 .. m, events[k].kind = "token" PROVE events[k].at < n + 1
          BY <1>1, <2>1, <3>2
        <5> QED BY <1>1, <1>o
      <4> QED BY <1>1, <4>1, <4>2
    <3> QED BY <1>1, <3>1, <3>2
  <2>6. Goal
    BY <2>1, <2>3, <2>4, <2>5
  <2> QED BY <2>6, <1>g
<1> HIDE DEF Goal
<1>13. CASE sort = "open"
  BY <1>5, <1>9, <1>11, <1>13 DEF EventsOf
<1>14. CASE sort = "close"
  BY <1>5, <1>9, <1>11, <1>14 DEF EventsOf
<1>15. CASE sort = "text"
  BY <1>5, <1>9, <1>12, <1>15 DEF EventsOf
<1>16. CASE sort = "control"
  BY <1>5, <1>9, <1>16 DEF EventsOf
<1> QED BY <1>13, <1>14, <1>15, <1>16 DEF Sorts

LEMMA ThinkNext ==
  ASSUME ThinkInv, inThinking \in BOOLEAN, [Next]_vars
  PROVE  ThinkInv'
<1>q. ASSUME UNCHANGED textVars PROVE ThinkInv'
  BY <1>q DEF textVars, ThinkInv, ThinkingHidden, Hidden, Announced
<1>1. ASSUME NEW m \in 1 .. MaxSeqLen + 1, NEW t \in 0 .. MaxTokens, Refuse(m) \/ Start(m, t)
      PROVE  ThinkInv'
  <2>1. CASE Refuse(m)
    BY <1>q, <2>1 DEF Refuse
  <2>2. CASE Start(m, t)
    <3>1. sampled' = <<>> /\ events' = <<>> /\ inThinking' = FALSE
      BY <2>2 DEF Start
    <3>2. /\ <<>> \in Seq(Sorts) /\ <<>> \in Seq(Events) /\ Len(<<>>) = 0
          /\ DOMAIN sampled' = {} /\ DOMAIN events' = {}
      BY <3>1
    <3>3. ~Hidden(Len(sampled) + 1)' /\ ~Announced(Len(events) + 1)'
      BY <3>1 DEF Hidden, Announced, Inside
    <3> QED BY <3>1, <3>2, <3>3 DEF ThinkInv, ThinkingHidden
  <2> QED BY <1>1, <2>1, <2>2
<1>2. CASE PrefillLayer \/ DecodeLayer
  BY <1>2, <1>q DEF PrefillLayer, DecodeLayer, LayerPass
<1>3. ASSUME NEW s \in Sorts, Sample(s) PROVE ThinkInv'
  BY <1>3, ThinkSample
<1>4. CASE Finish \/ UNCHANGED vars
  BY <1>4, <1>q DEF Finish, vars
<1> QED BY <1>1, <1>2, <1>3, <1>4 DEF Next, Call

\* ThinkingHidden, for every value of the constants: whatever the model samples,
\* the user is told the text outside its thinking, each token once and in order,
\* and the blocks open and close by turns (generate.rs:206-238).
THEOREM ThoughtsStayHidden == Spec => []ThinkingHidden
<1>1. Init => ThinkInv
  BY ThinkInit
<1>2. GenInv /\ ThinkInv /\ [Next]_vars => ThinkInv'
  BY ThinkNext DEF GenInv, Types
<1>3. ThinkInv => ThinkingHidden
  BY DEF ThinkInv
<1> QED BY <1>1, <1>2, <1>3, GenInvHolds, PTL DEF Spec
=============================================================================
