--------------------------------- MODULE Flows ---------------------------------
(***************************************************************************)
(* runes/netflow.rs and runes/eanet.rs with kernels/pcap_scan.ea: a packet *)
(* capture read in windows, its hosts ranked by what they send and whom    *)
(* they reach, the ones that stand out named.                              *)
(*                                                                         *)
(* The capture is bytes, an address the number its four make.  Places in   *)
(* a window count from 0, as in the kernel.                                *)
(***************************************************************************)
EXTENDS Integers, Sequences, SequencesExt, FiniteSets, FiniteSetsExt

CONSTANTS TopN,                             \* entries of a ranking
          ScanFloor, ScanRatio,             \* destinations, and times the median, that make a scanner
          TalkerRatio                       \* times the median that makes a heavy talker

GlobalHeader == 24
RecordHeader == 16
NativeMagics == {<<212, 195, 178, 161>>, <<77, 60, 178, 161>>}
Ethernet == <<1, 0, 0, 0>>
Vlan == 33024
IPv4 == 2048
Tcp == 6
Udp == 17

Bytes(w, o, n) == SubSeq(w, o + 1, o + n)
BE(b) == FoldLeft(LAMBDA n, x : (256 * n) + x, 0, b)
SignedLE(b) == FoldRight(LAMBDA x, n : x + (256 * n), b, IF Last(b) >= 128 THEN -1 ELSE 0)

-----------------------------------------------------------------------------
(* The kernel                                                              *)

\* What a packet says of itself, if it is IPv4 that carries TCP or UDP.
ParsePacket(w, pkt, end, incl) ==
  LET tagged == BE(Bytes(w, pkt + 12, 2)) = Vlan
      l3 == pkt + IF tagged THEN 18 ELSE 14
      first == w[l3 + 1]
      ihl == (first % 16) * 4
      proto == w[l3 + 10]
      l4 == l3 + ihl
  IN IF \/ tagged /\ pkt + 18 > end
        \/ BE(Bytes(w, l3 - 2, 2)) # IPv4
        \/ l3 + 20 > end
        \/ first \div 16 # 4 \/ ihl < 20
        \/ proto \notin {Tcp, Udp}
        \/ l4 + 4 > end
     THEN <<>>
     ELSE <<[proto |-> proto, src |-> BE(Bytes(w, l3 + 12, 4)), dst |-> BE(Bytes(w, l3 + 16, 4)), bytes |-> incl]>>

\* Records from off on, until one that is not whole or there is no more room.
RECURSIVE PcapScan(_, _, _, _)
PcapScan(w, off, room, found) ==
  LET incl == SignedLE(Bytes(w, off + 8, 4))
      end == off + RecordHeader + incl
      stop == [records |-> found, consumed |-> off]
  IN IF off + RecordHeader > Len(w) \/ Len(found) >= room THEN stop
     ELSE IF incl < 0 \/ end > Len(w) THEN stop
     ELSE PcapScan(w, end, room, found \o IF incl >= 14 THEN ParsePacket(w, off + RecordHeader, end, incl) ELSE <<>>)

-----------------------------------------------------------------------------
(* Windows                                                                 *)

\* The records of a window, room by room, and how much of it they take.
RECURSIVE Drain(_, _, _)
Drain(w, room, drained) ==
  LET scan == PcapScan(Bytes(w, drained.pos, Len(w) - drained.pos), 0, room, <<>>)
      more == [records |-> drained.records \o scan.records, pos |-> drained.pos + scan.consumed]
  IN IF drained.pos >= Len(w) THEN drained ELSE IF scan.consumed = 0 THEN more ELSE Drain(w, room, more)

CheckGlobalHeader(b) ==
  Len(b) >= GlobalHeader /\ Bytes(b, 0, 4) \in NativeMagics /\ Bytes(b, 20, 4) = Ethernet
\* What is not used of a window starts the next.  A full window of which
\* nothing can be used is read for ever.
RECURSIVE Windows(_, _, _, _)
Windows(b, chunk, room, records) ==
  LET w == SubSeq(b, 1, Min({chunk, Len(b)}))
      drained == Drain(w, room, [records |-> <<>>, pos |-> 0])
  IN IF w = <<>> THEN [ends |-> TRUE, records |-> records]
     ELSE IF Len(w) < chunk THEN [ends |-> TRUE, records |-> records \o drained.records]
     ELSE IF drained.pos = 0 THEN [ends |-> FALSE]
     ELSE Windows(Bytes(b, drained.pos, Len(b) - drained.pos), chunk, room, records \o drained.records)

-----------------------------------------------------------------------------
(* The triage                                                              *)

\* 0 of the rest when there is no rest.
MedianExcludingMax(values) ==
  LET sorted == SortSeq(values, <) IN
  IF Len(values) <= 1 THEN 0 ELSE sorted[((Len(values) - 1) \div 2) + 1]
InAnyOrder(S) == FoldSet(LAMBDA x, s : Append(s, x), <<>>, S)
ValuesOf(f) == FoldSet(LAMBDA x, s : Append(s, f[x]), <<>>, DOMAIN f)
LowerPair(p, q) == p[1] < q[1] \/ (p[1] = q[1] /\ p[2] < q[2])
\* The most first, then by address.
Ranking(f, Lower(_, _)) ==
  LET order == SortSeq(InAnyOrder(DOMAIN f), LAMBDA a, b : f[a] > f[b] \/ (f[a] = f[b] /\ Lower(a, b))) IN
  [k \in 1..Min({TopN, Len(order)}) |-> [who |-> order[k], n |-> f[order[k]]]]

Triage(records) ==
  LET all == {records[k] : k \in DOMAIN records}
      Sum(P(_)) == FoldLeft(LAMBDA n, r : IF P(r) THEN n + r.bytes ELSE n, 0, records)
      How(P(_)) == Len(SelectSeq(records, P))
      talked == [p \in {<<r.src, r.dst>> : r \in all} |-> Sum(LAMBDA r : <<r.src, r.dst>> = p)]
      fanout == [s \in {r.src : r \in all} |-> Cardinality({r.dst : r \in {q \in all : q.src = s}})]
      fanin == [d \in {r.dst : r \in all} |-> Cardinality({r.src : r \in {q \in all : q.dst = d}})]
  IN [packets |-> Len(records), bytes |-> Sum(LAMBDA r : TRUE), conversations |-> Cardinality(DOMAIN talked),
      tcp |-> How(LAMBDA r : r.proto = Tcp), udp |-> How(LAMBDA r : r.proto = Udp),
      top_talkers |-> Ranking(talked, LowerPair), top_fanout |-> Ranking(fanout, <), top_fanin |-> Ranking(fanin, <),
      fanout_median |-> MedianExcludingMax(ValuesOf(fanout)), talker_median |-> MedianExcludingMax(ValuesOf(talked))]

\* The first of each ranking, if it is far enough above the rest.
Stands(ranking, median, floor, ratio) ==
  LET base == Max({median, 1}) IN
  IF ranking # <<>> /\ ranking[1].n >= floor /\ ranking[1].n >= ratio * base
  THEN <<[bucket |-> ranking[1].who, count |-> ranking[1].n, baseline |-> base]>> ELSE <<>>
BuildOutput(b, chunk, room) ==
  LET read == Windows(Bytes(b, GlobalHeader, Len(b) - GlobalHeader), chunk, room, <<>>)
      t == Triage(read.records)
  IN IF ~CheckGlobalHeader(b) THEN [success |-> FALSE]
     ELSE IF ~read.ends THEN [hangs |-> TRUE]
     ELSE [success |-> TRUE, rows |-> t.packets, categories |-> t.top_fanout,
           anomalies |-> [scan |-> Stands(t.top_fanout, t.fanout_median, ScanFloor, ScanRatio),
                          talk |-> Stands(t.top_talkers, t.talker_median, 0, TalkerRatio)]] @@ t

-----------------------------------------------------------------------------
(* Captures as other programs write them                                   *)

BigEndian(n, width) == [k \in 1..width |-> IF width - k >= 4 THEN 0 ELSE (n \div <<1, 256, 65536, 16777216>>[width - k + 1]) % 256]
Zeros(n) == [k \in 1..n |-> 0]
\* A packet of a kind, its options and its data of some length.
WrittenPacket(p) ==
  LET ip == <<(16 * IF p.kind = "v6" THEN 6 ELSE 4) + 5 + (p.options \div 4)>> \o Zeros(8)
            \o <<CASE p.kind = "tcp" -> Tcp [] p.kind = "icmp" -> 1 [] OTHER -> Udp>> \o Zeros(2)
            \o BigEndian(p.src, 4) \o BigEndian(p.dst, 4) \o Zeros(p.options)
      tag == IF p.tagged THEN BigEndian(Vlan, 2) \o <<0, 7>> ELSE <<>>
      type == BigEndian(IF p.kind = "arp" THEN 2054 ELSE IPv4, 2)
  IN IF p.kind = "stub" THEN Zeros(p.data) ELSE Zeros(12) \o tag \o type \o ip \o Zeros(4 + p.data)
WrittenRecord(p) ==
  LET packet == WrittenPacket(p) IN Zeros(8) \o Reverse(BigEndian(Len(packet), 4)) \o Zeros(4) \o packet
WrittenCapture(packets) ==
  <<212, 195, 178, 161>> \o Zeros(16) \o Ethernet \o FlattenSeq([k \in DOMAIN packets |-> WrittenRecord(packets[k])])

Told(p) == [proto |-> IF p.kind = "tcp" THEN Tcp ELSE Udp, src |-> p.src, dst |-> p.dst, bytes |-> Len(WrittenPacket(p))]
TellsOfFlow(p) == p.kind \in {"tcp", "udp"}
Longest(packets) == Max({0} \cup {Len(WrittenRecord(packets[k])) : k \in DOMAIN packets})

\* A capture's triage is that of its flows, whatever the order they come in
\* and wherever the windows end, as long as each holds a record; one that does
\* not is read for ever.  The last record may be cut short and is left out.
CaptureToldRight(packets, spare, room, cut) ==
  LET whole == WrittenCapture(packets)
      b == SubSeq(whole, 1, Len(whole) - cut)
      kept == IF cut = 0 THEN packets ELSE Front(packets)
      flows == SelectSeq(kept, TellsOfFlow)
      told == Triage([k \in DOMAIN flows |-> Told(flows[k])])
      out == BuildOutput(b, Longest(packets) + spare, room)
  IN packets # <<>> =>
       /\ "hangs" \notin DOMAIN out /\ out.success
       /\ \A key \in DOMAIN told : out[key] = told[key]
       /\ \A r \in {out.top_fanout, out.top_fanin} : \A k \in DOMAIN r \ {1} :
            r[k - 1].n > r[k].n \/ (r[k - 1].n = r[k].n /\ r[k - 1].who < r[k].who)
       /\ out = BuildOutput(WrittenCapture(Reverse(kept)), Len(whole) + 1, 99)
       /\ cut = 0 => BuildOutput(b, Longest(packets) - 1, room) = [hangs |-> TRUE]

\* A host that reaches many is named as long as the others reach few, and one
\* more host that reaches one other does not hide it.
ScannerStaysNamed(fanouts, extra) ==
  LET Flow(s, d) == [proto |-> Tcp, src |-> s, dst |-> 1000 + d, bytes |-> 60]
      Flows(s, n) == [d \in 1..n |-> Flow(s, d)]
      records == FlattenSeq([s \in DOMAIN fanouts |-> Flows(s, fanouts[s])])
      Named(rs) == LET t == Triage(rs) IN Stands(t.top_fanout, t.fanout_median, ScanFloor, ScanRatio)
      most == Max({fanouts[s] : s \in DOMAIN fanouts})
      rest == {s \in DOMAIN fanouts : fanouts[s] < most}
  IN /\ (Cardinality(rest) = Len(fanouts) - 1 /\ most >= ScanFloor /\ \A s \in rest : most >= ScanRatio * fanouts[s]) => Named(records) # <<>>
     /\ Named(records) # <<>> => Named(records \o Flows(extra, 1)) # <<>>
                                 /\ Named(records)[1].bucket = Named(records \o Flows(extra, 1))[1].bucket
     /\ Named(records) # <<>> => 2 * Cardinality({s \in DOMAIN fanouts : ScanRatio * fanouts[s] > most}) <= Len(fanouts) + 1

=============================================================================
