------------------------------ MODULE VaultFormat ------------------------------
(***************************************************************************)
(* storage/vault_format.rs and what storage/vault.rs reads and writes by   *)
(* it: the bytes of vault.bin.  Vault has the order of its writes and what *)
(* a power loss leaves of them; here are the lengths, the offsets and the  *)
(* nonces, and a file with a damaged byte or without its end.              *)
(*                                                                         *)
(* A byte is one of Radix values.  Sealing leaves a text as it is: a seal  *)
(* is good if just what it stands on was sealed with it before.  A vault   *)
(* is a record of its file, its header, its index, the sealed headers and  *)
(* the sealed blocks.  Offsets are from 0.                                 *)
(***************************************************************************)
EXTENDS Integers, Sequences, SequencesExt, FiniteSets, FiniteSetsExt

CONSTANT Radix

Filled(byte, n) == [i \in 1..n |-> byte % Radix]
Le(n, width) == [i \in 1..width |-> (n \div Radix^(i - 1)) % Radix]
FromLe(bytes) == FoldRight(LAMBDA byte, n : byte + Radix * n, bytes, 0)
Slice(buf, from, to) == SubSeq(buf, from + 1, to)

Magic == <<1, 0, 1, 1>>
Version == 4
HeaderSize == 64
NHeaderSlots == 2
RecordsStart == HeaderSize * NHeaderSlots
IndexEntrySize == 32 + Radix      \* a count for each value of a byte
TagSize == 16
CounterLimit == Radix^4 \div 2    \* the high bit is for headers

-----------------------------------------------------------------------------
(* Headers, entries, nonces                                                *)

NewHeader(key_id, seed) ==
  [magic |-> Magic, version |-> Version, block_count |-> 0, index_offset |-> RecordsStart, key_id |-> key_id,
   nonce_seed_8 |-> seed, header_rewrites |-> 0, header_tag |-> Filled(0, TagSize), reserved |-> Filled(0, 2)]
HeaderBytes(h) ==
  h.magic \o Le(h.version, 2) \o Le(h.block_count, 4) \o Le(h.index_offset, 8) \o h.key_id \o h.nonce_seed_8
    \o Le(h.header_rewrites, 4) \o h.header_tag \o h.reserved
Failed == [error |-> "vault"]
Ok(r) == "error" \notin DOMAIN r
HeaderOf(buf) ==
  IF Slice(buf, 0, 4) # Magic \/ FromLe(Slice(buf, 4, 6)) # Version THEN Failed
  ELSE [magic |-> Magic, version |-> Version, block_count |-> FromLe(Slice(buf, 6, 10)),
        index_offset |-> FromLe(Slice(buf, 10, 18)), key_id |-> Slice(buf, 18, 34), nonce_seed_8 |-> Slice(buf, 34, 42),
        header_rewrites |-> FromLe(Slice(buf, 42, 46)), header_tag |-> Slice(buf, 46, 62), reserved |-> Slice(buf, 62, 64)]

EntryBytes(e) ==
  Le(e.offset, 8) \o Le(e.length, 4) \o Le(e.timestamp, 8) \o Le(0, 8) \o Le(e.nonce_counter, 4) \o e.histogram
EntryOf(buf) ==
  [offset |-> FromLe(Slice(buf, 0, 8)), length |-> FromLe(Slice(buf, 8, 12)), timestamp |-> FromLe(Slice(buf, 12, 20)),
   nonce_counter |-> FromLe(Slice(buf, 28, 32)), histogram |-> Slice(buf, 32, 32 + Radix)]
\* A count stays at the largest byte.
Histogram(text) ==
  [v \in 1..Radix |-> LET n == Cardinality({i \in DOMAIN text : text[i] = v - 1}) IN IF n < Radix THEN n ELSE Radix - 1]

BlockNonce(seed, counter) == seed \o Le(counter, 4)
PlainNonce(seed, rewrites) == seed \o Le(rewrites, 4)
HeaderNonce(seed, rewrites) == seed \o Le(IF rewrites < CounterLimit THEN CounterLimit + rewrites ELSE rewrites, 4)
BlockAad(header, e) ==
  header.key_id \o Le(Version, 2) \o Le(e.nonce_counter, 4) \o Le(e.timestamp, 8) \o e.histogram

-----------------------------------------------------------------------------
(* Writing                                                                 *)

\* What is written past the end of a file makes it longer.
WriteAt(file, at, bytes) == Slice(file, 0, at) \o bytes \o Slice(file, at + Len(bytes), Len(file))
SlotOffset(rewrites) == (rewrites % NHeaderSlots) * HeaderSize
\* What a header's seal stands on: its nonce and its first 46 bytes.
Sealing(h) == [nonce |-> HeaderNonce(h.nonce_seed_8, h.header_rewrites), head |-> Slice(HeaderBytes(h), 0, 46), tag |-> h.header_tag]
Tagged(h) == [h EXCEPT !.header_tag = Filled(h.header_rewrites, TagSize)]

CreateNew(key_id, seed) ==
  LET header == Tagged([NewHeader(key_id, seed) EXCEPT !.header_rewrites = 1])
  IN [file |-> HeaderBytes(header) \o HeaderBytes(header), header |-> header, index |-> <<>>, heads |-> {Sealing(header)}, boxes |-> {}]

CommitHeader(v) ==
  LET header == Tagged([v.header EXCEPT !.header_rewrites = (@ + 1) % Radix^4])
  IN [v EXCEPT !.header = header, !.heads = @ \cup {Sealing(header)},
               !.file = WriteAt(@, SlotOffset(header.header_rewrites), HeaderBytes(header))]

\* The record of a text, at the end of the data.
NewEntry(v, text, now) ==
  [offset |-> v.header.index_offset + IndexEntrySize, length |-> Len(text) + TagSize, timestamp |-> now,
   nonce_counter |-> v.header.block_count, histogram |-> Histogram(text)]
BoxOf(v, e, ct, tag) ==
  [nonce |-> BlockNonce(v.header.nonce_seed_8, e.nonce_counter), aad |-> BlockAad(v.header, e), ct |-> ct, tag |-> tag]
WriteRecord(v, text, now) ==
  LET e == NewEntry(v, text, now)
      tag == Filled(now, TagSize)
  IN [v EXCEPT !.boxes = @ \cup {BoxOf(v, e, text, tag)}, !.file = WriteAt(@, v.header.index_offset, EntryBytes(e) \o text \o tag)]
FlushBlock(v, text, now) ==
  IF v.header.block_count >= CounterLimit THEN Failed
  ELSE LET e == NewEntry(v, text, now)
       IN CommitHeader([WriteRecord(v, text, now) EXCEPT !.index = Append(@, e), !.header.block_count = @ + 1,
                                                         !.header.index_offset = e.offset + e.length])

-----------------------------------------------------------------------------
(* Reading                                                                 *)

\* The slot whose seal is good, of two the one with more rewrites.
CommitPoint(disk) ==
  LET slots == [s \in 1..NHeaderSlots |-> HeaderOf(Slice(disk.file, (s - 1) * HeaderSize, s * HeaderSize))]
      valid == {s \in DOMAIN slots : Ok(slots[s]) /\ Sealing(slots[s]) \in disk.heads}
      best == {s \in valid : \A t \in valid : slots[t].header_rewrites <= slots[s].header_rewrites}
  IN IF valid = {} THEN Failed ELSE slots[CHOOSE s \in best : \A t \in best : s <= t]

\* A record after another, none beyond data_end; where a text stands is
\* reckoned anew.
Scanned(file, s, data_end) ==
  LET e == EntryOf(Slice(file, s.cursor, s.cursor + IndexEntrySize))
      ct_offset == s.cursor + IndexEntrySize
  IN IF s.failed \/ ct_offset > data_end THEN [s EXCEPT !.failed = TRUE]
     ELSE IF e.length < TagSize \/ ct_offset + e.length > data_end THEN [s EXCEPT !.failed = TRUE]
     ELSE [s EXCEPT !.index = Append(@, [e EXCEPT !.offset = ct_offset]), !.cursor = ct_offset + e.length]
OpenExisting(disk) ==
  LET header == CommitPoint(disk)
      data_end == IF header.index_offset < Len(disk.file) THEN header.index_offset ELSE Len(disk.file)
      most == (data_end - RecordsStart) \div (IndexEntrySize + TagSize)
      scan == FoldLeft(LAMBDA s, k : Scanned(disk.file, s, data_end), [index |-> <<>>, cursor |-> RecordsStart, failed |-> FALSE],
                       [k \in 1..header.block_count |-> k])
  IN IF Len(disk.file) < RecordsStart \/ ~Ok(header) THEN Failed
     ELSE IF header.block_count > most \/ scan.failed THEN Failed
     ELSE [file |-> disk.file, header |-> header, index |-> scan.index, heads |-> disk.heads, boxes |-> disk.boxes]

DecryptBlock(v, i) ==
  LET e == v.index[i]
      ct_len == e.length - TagSize
      ct == Slice(v.file, e.offset, e.offset + ct_len)
      tag == Slice(v.file, e.offset + ct_len, e.offset + e.length)
  IN IF i \notin DOMAIN v.index \/ e.length < TagSize \/ e.offset + e.length > Len(v.file) THEN Failed
     ELSE IF BoxOf(v, e, ct, tag) \in v.boxes THEN [text |-> ct] ELSE Failed

-----------------------------------------------------------------------------
(* What keeps a log whole                                                  *)

Texts(v) == [i \in DOMAIN v.index |-> DecryptBlock(v, i)]
Told(texts) == [i \in DOMAIN texts |-> [text |-> texts[i]]]

\* A file opens as the vault that wrote it and gives its texts back, whatever
\* an append that was cut off has left behind them.
OpensAsWritten(v, texts) == OpenExisting(v) = v /\ Texts(v) = Told(texts)

\* Without its end it opens as long as no acknowledged text is touched, and is
\* refused as soon as one is.
OpensUncut(v, cut, texts) ==
  LET o == OpenExisting([v EXCEPT !.file = SubSeq(@, 1, cut)]) IN
  IF cut >= v.header.index_offset THEN Ok(o) /\ Texts(o) = Told(texts) ELSE ~Ok(o)

\* A damaged byte never makes it tell a text that was not said there: a record
\* spoils no other unless its length is damaged, and what stands in no seal
\* spoils nothing; a damaged slot leaves the log as the other one has it.
ToldDespite(v, at, byte, texts) ==
  LET o == OpenExisting([v EXCEPT !.file = WriteAt(@, at, <<byte>>)])
      read == Texts(o)
      changed == byte # v.file[at + 1]
      length == changed /\ \E i \in DOMAIN v.index : at - (v.index[i].offset - IndexEntrySize) \in 8..11
      spoilt == {i \in DOMAIN v.index : LET from == at - (v.index[i].offset - IndexEntrySize)
                                       IN changed /\ from \in 8..IndexEntrySize + v.index[i].length - 1 /\ from \notin 20..27}
      newest == changed /\ texts # <<>> /\ at - SlotOffset(v.header.header_rewrites) \in 0..61
  IN /\ ~length => Ok(o)
     /\ Ok(o) =>
          /\ Len(read) = Len(texts) - (IF newest THEN 1 ELSE 0)
          /\ \A i \in DOMAIN read :
               /\ read[i] \in {Failed, [text |-> texts[i]]}
               /\ i \in spoilt => read[i] = Failed
               /\ i \notin spoilt /\ ~length => read[i] = [text |-> texts[i]]

\* No nonce serves twice: neither two of the records a log has, nor two of its
\* headers, nor a record and a header, up to the last but one it takes; then it
\* takes no more.
NoncesOnce(v, appends) ==
  IF appends > CounterLimit THEN ~Ok(v)
  ELSE /\ Len(v.index) = appends
       /\ Cardinality({b.nonce : b \in v.boxes}) = appends
       /\ {b.nonce : b \in v.boxes} \cap {h.nonce : h \in v.heads} = {}
       /\ appends < CounterLimit => Cardinality({h.nonce : h \in v.heads}) = appends + 1

-----------------------------------------------------------------------------
(***************************************************************************)
(* storage/vault.rs, Vault::search and decrypt_last_n, storage/search.rs   *)
(* and kernels/chacha20_search_v2.ea: what is told of a log of sealed      *)
(* blocks when it is asked for words.                                      *)
(*                                                                         *)
(* A block is a record of its text, how much it is like the question (the  *)
(* cosine of two histograms, of Whole), whether the system can read it and *)
(* whether its seal is intact.  Here offsets are from 1.                   *)
(***************************************************************************)

CONSTANTS Whole,                  \* what a block just like the question has
          WindowSize,             \* opened at a time
          MaxMatches, MaxLineLen, MaxNeedles

Newline == 10

-----------------------------------------------------------------------------
(* One block                                                               *)

MaxLength(needles) == Max({Len(needles[k]) : k \in DOMAIN needles})
IsAt(needle, buf, p) == p + Len(needle) - 1 <= Len(buf) /\ SubSeq(buf, p, p + Len(needle) - 1) = needle
\* The places of words in a buffer that starts at base, while there is room.
SearchBuf(buf, base, needles, matches) ==
  LET at == FlattenSeq([p \in DOMAIN buf |->
              SelectSeq([k \in DOMAIN needles |-> [at |-> base + p, id |-> k, word |-> IsAt(needles[k], buf, p)]], LAMBDA m : m.word)])
  IN matches \o SubSeq(at, 1, Min({Len(at), MaxMatches - Len(matches)}))

\* The line around a place, as far as the window and MaxLineLen go.
FindLineStart(buf, p) == Max({0, p - 1 - MaxLineLen} \cup {i \in 1..(p - 1) : buf[i] = Newline}) + 1
FindLineEnd(buf, p) == Min({Len(buf) + 1} \cup {i \in p..Len(buf) : buf[i] = Newline})
ExtractLine(buf, p) ==
  LET start == FindLineStart(buf, p) IN SubSeq(buf, start, Min({FindLineEnd(buf, p), start + MaxLineLen}) - 1)

\* A window is searched together with the end of the one before, for the words
\* on their border, then for itself; only the latter's lines are told.
Windowed(s, base, needles, text) ==
  LET window == SubSeq(text, base + 1, Min({base + WindowSize, Len(text)}))
      most == MaxLength(needles) - 1
      next == [i \in 1..most |-> IF i <= Len(window) THEN window[i] ELSE 0]
      crossed == IF s.overlap = <<>> THEN s.matches
                 ELSE SearchBuf(s.overlap \o next, base - Len(s.overlap), needles, s.matches)
      found == SearchBuf(window, base, needles, crossed)
      lines == [i \in 1..(Len(found) - Len(crossed)) |-> ExtractLine(window, found[Len(crossed) + i].at - base)]
  IN [matches |-> found, lines |-> s.lines \o lines,
      overlap |-> IF most > 0 /\ Len(window) >= most THEN SubSeq(window, Len(window) - most + 1, Len(window)) ELSE s.overlap]
ChachaSearch(text, needles) ==
  LET empty == [matches |-> <<>>, lines |-> <<>>, overlap |-> <<>>] IN
  IF Len(needles) \notin 1..MaxNeedles \/ text = <<>> THEN empty
  ELSE FoldLeft(LAMBDA s, w : Windowed(s, (w - 1) * WindowSize, needles, text), empty,
                [w \in 1..((Len(text) + WindowSize - 1) \div WindowSize) |-> w])

\* A line is told once.
Fused(text, needles) ==
  LET found == ChachaSearch(text, needles) IN
  [matches |-> found.matches,
   lines |-> FoldLeft(LAMBDA told, line : IF Contains(told, line) THEN told ELSE Append(told, line), <<>>, found.lines)]

-----------------------------------------------------------------------------
(* A search of the log                                                     *)

Unread == [error |-> "read"]
ReadEncryptedBlock(blocks, i) == IF blocks[i].readable THEN [block |-> blocks[i]] ELSE Unread
Opened(blocks, i) ==
  IF ~Ok(ReadEncryptedBlock(blocks, i)) THEN Unread
  ELSE IF blocks[i].intact THEN [text |-> blocks[i].text] ELSE [error |-> "seal"]

\* Newer blocks weigh more, up to 100 : 85.
Score(blocks, i) ==
  LET n == Len(blocks) IN IF n = 1 THEN blocks[i].like * 100 ELSE blocks[i].like * (85 * (n - 1) + 15 * (i - 1))
Enough(blocks, i) == Score(blocks, i) > Whole * Max({Len(blocks) - 1, 1})
\* The best first, the older first of two as good.
Before(blocks, i, j) == Score(blocks, i) > Score(blocks, j) \/ (Score(blocks, i) = Score(blocks, j) /\ i < j)
Ranked(blocks) == SetToSortSeq(DOMAIN blocks, LAMBDA i, j : Before(blocks, i, j))
\* A block whose seal is broken is passed over, one that cannot be read ends
\* the search.  A question of white space has no words, an empty one no answer.
Search(blocks, needles, empty, top_k) ==
  LET best == SubSeq(Ranked(blocks), 1, Min({top_k, Len(blocks)}))
      tried == SelectSeq(best, LAMBDA i : Enough(blocks, i))
      intact == SelectSeq(tried, LAMBDA i : blocks[i].intact)
  IN IF empty THEN [results |-> <<>>]
     ELSE IF \E k \in DOMAIN tried : ~Ok(ReadEncryptedBlock(blocks, tried[k])) THEN Unread
     ELSE [results |-> [k \in DOMAIN intact |-> [index |-> intact[k], lines |-> Fused(blocks[intact[k]].text, needles).lines]]]

DecryptLastN(blocks, n) ==
  LET texts == [k \in 1..Min({n, Len(blocks)}) |-> Opened(blocks, Len(blocks) - Min({n, Len(blocks)}) + k)]
      failed == {k \in DOMAIN texts : ~Ok(texts[k])}
  IN IF failed # {} THEN texts[Min(failed)] ELSE [texts |-> [k \in DOMAIN texts |-> texts[k].text]]

-----------------------------------------------------------------------------
(* What the one who asks relies on                                         *)

\* Wherever the windows end, the places found are those of the words, all of
\* them unless there are too many; each line with a word that no border cuts is
\* told as far as the window and MaxLineLen go, once, and nothing else.
WordsFound(text, needles) ==
  LET told == Fused(text, needles)
      places == {[at |-> p, id |-> k, word |-> TRUE] : p \in DOMAIN text, k \in DOMAIN needles}
      real == {m \in places : IsAt(needles[m.id], text, m.at)}
      Edge(m) == (m.at - 1) \div WindowSize
      Inner(m) == Edge(m) = (m.at + Len(needles[m.id]) - 2) \div WindowSize
      from(m) == Max({Edge(m) * WindowSize, m.at - 1 - MaxLineLen} \cup {i \in 1..(m.at - 1) : text[i] = Newline}) + 1
      upto(m) == Min({(Edge(m) + 1) * WindowSize, Len(text), from(m) + MaxLineLen - 1} \cup {i - 1 : i \in {j \in m.at..Len(text) : text[j] = Newline}})
      around == {SubSeq(text, from(m), upto(m)) : m \in {n \in real : Inner(n)}}
  IN /\ Range(told.matches) \subseteq real
     /\ Len(told.matches) < MaxMatches /\ Len(needles) \in 1..MaxNeedles =>
          /\ Range(told.matches) = real
          /\ around = Range(told.lines)
     /\ Range(told.lines) \subseteq around
     /\ IsInjective(told.lines) /\ Len(told.matches) <= MaxMatches

\* What a search tells is of blocks whose seal is intact, the best first, the
\* newer of two as like, and a better block is missing only if its seal is
\* broken or it is not like the question; what cannot be read is never passed
\* over in silence.
SearchRight(blocks, needles, empty, top_k) ==
  LET found == Search(blocks, needles, empty, top_k)
      Rank(i) == Cardinality({j \in DOMAIN blocks : Before(blocks, j, i)})
      due == {i \in DOMAIN blocks : Rank(i) < top_k /\ Enough(blocks, i)}
      results == found.results
  IN IF empty THEN found = [results |-> <<>>]
     ELSE /\ Ok(found) <=> \A i \in due : blocks[i].readable
          /\ Ok(found) =>
               /\ {results[k].index : k \in DOMAIN results} = {i \in due : blocks[i].intact}
               /\ \A k, l \in DOMAIN results : k < l =>
                    LET i == results[k].index
                        j == results[l].index
                    IN Rank(i) < Rank(j) /\ blocks[j].like * 85 <= blocks[i].like * 100 /\ (blocks[i].like = blocks[j].like => i > j)
               /\ \A k \in DOMAIN results : blocks[results[k].index].like * 100 > Whole
               /\ \A k \in DOMAIN results :
                    LET told == results[k].lines
                        text == blocks[results[k].index].text
                    IN IF needles = <<>> THEN told = <<>>
                       ELSE \A l \in DOMAIN told : \E p \in DOMAIN text : IsPrefix(told[l], SubSeq(text, p, Len(text)))
LastRight(blocks, n) ==
  LET last == DecryptLastN(blocks, n)
      due == {i \in DOMAIN blocks : i > Len(blocks) - n}
  IN /\ Ok(last) <=> \A i \in due : blocks[i].readable /\ blocks[i].intact
     /\ Ok(last) => \A i \in due : last.texts[Len(last.texts) - (Len(blocks) - i)] = blocks[i].text /\ Len(last.texts) = Cardinality(due)

=============================================================================
