--------------------------------- MODULE Gguf ---------------------------------
(***************************************************************************)
(* inference/gguf.rs: the file of a model, its settings and the table of   *)
(* its tensors read from the front, a tensor's bytes found by its name.    *)
(*                                                                         *)
(* A file is bytes.  What is read is a set, {} for an error, of a value    *)
(* and the place after it.  A float is its bytes.                          *)
(***************************************************************************)
EXTENDS Integers, Sequences, SequencesExt, FiniteSets, FiniteSetsExt

Magic == <<71, 71, 85, 70>>
Alignment == 32

\* The least byte first; below zero if the last byte says so.
Unsigned(b) == FoldRight(LAMBDA byte, n : byte + (256 * n), b, 0)
Signed(b) == FoldRight(LAMBDA byte, n : byte + (256 * n), b, IF Last(b) >= 128 THEN -1 ELSE 0)
ReadBytes(b, i, n) == IF i + n <= Len(b) + 1 THEN {[v |-> SubSeq(b, i, i + n - 1), at |-> i + n]} ELSE {}
ReadUnsigned(b, i, width) == {[v |-> Unsigned(r.v), at |-> r.at] : r \in ReadBytes(b, i, width)}
ReadSigned(b, i, width) == {[v |-> Signed(r.v), at |-> r.at] : r \in ReadBytes(b, i, width)}
ReadU32(b, i) == ReadUnsigned(b, i, 4)
ReadU64(b, i) == ReadUnsigned(b, i, 8)
ReadString(b, i) == UNION {ReadBytes(b, r.at, r.v) : r \in ReadU64(b, i)}
\* n values, one after another.
Repeat(n, Read(_), i) ==
  FoldLeft(LAMBDA got, k : UNION {{[v |-> Append(g.v, r.v), at |-> r.at] : r \in Read(g.at)} : g \in got},
           {[v |-> <<>>, at |-> i]}, [k \in 1..n |-> k])

\* Bytes of the numbers among the types, and which of them have a sign.
WidthOf == (0 :> 1) @@ (1 :> 1) @@ (2 :> 2) @@ (3 :> 2) @@ (4 :> 4) @@ (5 :> 4) @@ (6 :> 4) @@ (7 :> 1) @@ (10 :> 8)
           @@ (11 :> 8) @@ (12 :> 8)
SignedTypes == {1, 3, 5, 11}
FloatTypes == {6, 12}
BoolType == 7
StrType == 8
ArrayType == 9
RECURSIVE ReadMetaValue(_, _, _)
ReadMetaValue(b, i, type) ==
  LET read ==
        CASE type \in FloatTypes -> ReadBytes(b, i, WidthOf[type])
          [] type \in SignedTypes -> ReadSigned(b, i, WidthOf[type])
          [] type = BoolType -> {[v |-> r.v # 0, at |-> r.at] : r \in ReadUnsigned(b, i, 1)}
          [] type = StrType -> ReadString(b, i)
          [] type = ArrayType ->
               UNION {UNION {Repeat(n.v, LAMBDA p : ReadMetaValue(b, p, e.v), n.at) : n \in ReadU64(b, e.at)} : e \in ReadU32(b, i)}
          [] type \in DOMAIN WidthOf \ (FloatTypes \cup SignedTypes \cup {BoolType}) -> ReadUnsigned(b, i, WidthOf[type])
          [] type \notin DOMAIN WidthOf \cup {StrType, ArrayType} -> {}
  IN {[v |-> [type |-> type, held |-> r.v], at |-> r.at] : r \in read}

\* A key and its value, a name and where its tensor is.
ReadSetting(b, i) ==
  UNION {UNION {{[v |-> [key |-> k.v, value |-> r.v], at |-> r.at] : r \in ReadMetaValue(b, t.at, t.v)}
                  : t \in ReadU32(b, k.at)} : k \in ReadString(b, i)}
ReadTensorInfo(b, i) ==
  UNION {UNION {UNION {UNION {{[v |-> [key |-> s.v, dims |-> d.v, dtype |-> t.v, offset |-> o.v], at |-> o.at]
                                 : o \in ReadU64(b, t.at)} : t \in ReadU32(b, d.at)}
                         : d \in Repeat(n.v, LAMBDA p : ReadU64(b, p), n.at)} : n \in ReadU32(b, s.at)} : s \in ReadString(b, i)}

AlignUp(offset, alignment) == ((offset + alignment - 1) \div alignment) * alignment
FirstNamed(entries, key) ==
  LET at == {k \in DOMAIN entries : entries[k].key = key} IN IF at = {} THEN {} ELSE {entries[Min(at)]}
\* The last of a name.
Named(entries, key) ==
  LET at == {k \in DOMAIN entries : entries[k].key = key} IN IF at = {} THEN {} ELSE {entries[Max(at)]}
OpenFile(b) ==
  LET header == UNION {Repeat(2, LAMBDA p : ReadU64(b, p), v.at) : v \in ReadU32(b, 5)} IN
  IF Len(b) < 24 \/ SubSeq(b, 1, 4) # Magic \/ Unsigned(SubSeq(b, 5, 8)) \notin 2..3 THEN {}
  ELSE UNION {UNION {{[version |-> Unsigned(SubSeq(b, 5, 8)), metadata |-> m.v, meta_end |-> m.at - 1, tensors |-> t.v,
                       data_offset |-> AlignUp(t.at - 1, Alignment)]
                        : t \in Repeat(h.v[1], LAMBDA p : ReadTensorInfo(b, p), m.at)}
                       : m \in Repeat(h.v[2], LAMBDA p : ReadSetting(b, p), h.at)} : h \in header}

\* Bits of an element, and how many make a block.
TypeSize ==
  [t \in {0, 26} |-> <<32, 1>>] @@ [t \in {1, 25, 30} |-> <<16, 1>>] @@ [t \in {2, 3, 6} |-> <<5, 32>>] @@ (7 :> <<6, 32>>)
  @@ [t \in {8, 9} |-> <<9, 32>>] @@ (10 :> <<3, 256>>) @@ (13 :> <<6, 256>>) @@ (15 :> <<9, 256>>) @@ (24 :> <<8, 1>>)
  @@ [t \in {27, 28} |-> <<64, 1>>]
BlockBytes == (11 :> 110) @@ (12 :> 144) @@ (14 :> 210)
I2S == 36
TensorByteSize(dims, dtype) ==
  LET n == FoldLeft(LAMBDA p, d : p * d, 1, dims)
      Blocks(size) == (n + size - 1) \div size
  IN CASE dims = <<>> -> {0}
       [] dims # <<>> /\ dtype = I2S -> {(n \div 4) + 32}
       [] dims # <<>> /\ dtype \in DOMAIN BlockBytes -> {Blocks(256) * BlockBytes[dtype]}
       [] dims # <<>> /\ dtype \in DOMAIN TypeSize ->
            {(Blocks(TypeSize[dtype][2]) * TypeSize[dtype][1] * TypeSize[dtype][2]) \div 8}
       [] dims # <<>> /\ dtype \notin DOMAIN TypeSize \cup DOMAIN BlockBytes \cup {I2S} -> {}
TensorData(b, file, name) ==
  UNION {LET start == file.data_offset + t.offset IN
         {SubSeq(b, start + 1, start + size) : size \in {s \in TensorByteSize(t.dims, t.dtype) : start + s <= Len(b)}}
           : t \in Named(file.tensors, name)}
GetOf(file, key, type) == {e.value.held : e \in {f \in Named(file.metadata, key) : f.value.type = type}}
GetStr(file, key) == GetOf(file, key, StrType)
GetU32(file, key) == GetOf(file, key, 4)

-----------------------------------------------------------------------------
(* Files as other programs write them                                      *)

RECURSIVE LittleEndian(_, _)
LittleEndian(n, width) == IF width = 0 THEN <<>> ELSE <<n % 256>> \o LittleEndian(n \div 256, width - 1)
WrittenString(s) == LittleEndian(Len(s), 8) \o s
RECURSIVE WrittenValue(_)
WrittenValue(v) ==
  CASE v.type = StrType -> WrittenString(v.held)
    [] v.type = BoolType -> <<IF v.held THEN 1 ELSE 0>>
    [] v.type = ArrayType ->
         LittleEndian(IF v.held = <<>> THEN 0 ELSE v.held[1].type, 4) \o LittleEndian(Len(v.held), 8)
         \o FlattenSeq([k \in DOMAIN v.held |-> WrittenValue(v.held[k])])
    [] v.type \in FloatTypes -> v.held
    [] OTHER -> LittleEndian(v.held, WidthOf[v.type])
WrittenSetting(e) == WrittenString(e.key) \o LittleEndian(e.value.type, 4) \o WrittenValue(e.value)
Padding(n) == [k \in 1..(AlignUp(n, Alignment) - n) |-> 0]
\* Tensors' bytes stand one after another, each at a multiple of 32.
Offset(tensors, k) == FoldLeft(LAMBDA at, t : AlignUp(at + Len(t.data), Alignment), 0, SubSeq(tensors, 1, k - 1))
WrittenInfo(tensors, k) ==
  WrittenString(tensors[k].key) \o LittleEndian(Len(tensors[k].dims), 4)
  \o FlattenSeq([d \in DOMAIN tensors[k].dims |-> LittleEndian(tensors[k].dims[d], 8)])
  \o LittleEndian(tensors[k].dtype, 4) \o LittleEndian(Offset(tensors, k), 8)
WrittenHead(version, settings, tensors) ==
  Magic \o LittleEndian(version, 4) \o LittleEndian(Len(tensors), 8) \o LittleEndian(Len(settings), 8)
  \o FlattenSeq([k \in DOMAIN settings |-> WrittenSetting(settings[k])])
  \o FlattenSeq([k \in DOMAIN tensors |-> WrittenInfo(tensors, k)])
WrittenFile(version, settings, tensors) ==
  LET head == WrittenHead(version, settings, tensors) IN
  head \o Padding(Len(head)) \o FlattenSeq([k \in DOMAIN tensors |-> tensors[k].data \o Padding(Len(tensors[k].data))])

\* A file reads as it was written, the last of a name standing for it.  Cut
\* anywhere it is refused, or every tensor is still whole or missing.
FileKept(version, settings, tensors, cut) ==
  LET whole == WrittenFile(version, settings, tensors)
      head == Len(WrittenHead(version, settings, tensors))
      b == SubSeq(whole, 1, Len(whole) - cut)
      LastOf(entries, key) == {entries[k] : k \in {j \in DOMAIN entries : entries[j].key = key /\ \A i \in DOMAIN entries : i > j => entries[i].key # key}}
      Data(key) == {t.data : t \in LastOf(tensors, key)}
  IN IF version \notin 2..3 \/ Len(b) < head THEN OpenFile(b) = {}
     ELSE \E file \in OpenFile(b) :
            /\ file.metadata = settings /\ file.version = version /\ file.data_offset = AlignUp(head, Alignment)
            /\ \A e \in ToSet(settings) :
                 \A last \in LastOf(settings, e.key) :
                   /\ GetStr(file, e.key) = IF last.value.type = StrType THEN {last.value.held} ELSE {}
                   /\ GetU32(file, e.key) = IF last.value.type = 4 THEN {last.value.held} ELSE {}
            /\ \A t \in ToSet(tensors) : TensorData(b, file, t.key) \subseteq Data(t.key)
            /\ cut = 0 => \A t \in ToSet(tensors) : TensorData(b, file, t.key) = Data(t.key)

=============================================================================
