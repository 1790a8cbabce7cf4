---------------------------- MODULE VaultProofs ----------------------------
(***************************************************************************)
(* Theorems about the vault, for every number of appends, crashes and      *)
(* errors and every counter limit.                                         *)
(***************************************************************************)
EXTENDS Vault, TLAPS

USE DEF HasRoom, Cell, RecordBarrier

-----------------------------------------------------------------------------
(* Type correctness.  `Counts' says that a block not yet submitted lies    *)
(* behind everything any header counts, so that the next record has a cell.*)

Counts ==
  /\ \A c \in Ids : fate[c] = "none" =>
       /\ header.count < c
       /\ \A s \in Slot : slot[s] # Torn => slot[s].count < c
       /\ \A s \in Slot : diskSlot[s] # Torn => diskSlot[s].count < c
  /\ pc = "syncRecord" =>
       /\ cur \in Ids
       /\ header.count < cur
       /\ header.count < CountLimit
       /\ \A c \in Ids : fate[c] = "none" => cur < c
  /\ pc \in {"writeHeader", "syncHeader"} => cur \in Ids

TypeInv == TypeOK /\ Counts

LEMMA TypeInvInit == Init => TypeInv
<1> SUFFICES ASSUME Init PROVE TypeInv
  OBVIOUS
<1> USE VaultAssumption DEF Init
<1>1. FirstHeader \in Header
  BY DEF FirstHeader, Header, Gen
<1>2. TypeOK
  BY <1>1 DEF TypeOK, Slot, Ids, Nothing
<1>3. Counts
  BY DEF Counts, FirstHeader, Slot, Ids
<1>4. QED
  BY <1>2, <1>3 DEF TypeInv

\* The settled slots and records keep their types and their bounds.
LEMMA SettledTypes ==
  ASSUME TypeInv, NEW sl \in SlotFates, NEW rc \in RecFates
  PROVE  /\ sl \in [Slot -> Header \cup {Torn}]
         /\ \A s \in Slot : sl[s] \in {slot[s], diskSlot[s], Torn}
         /\ \A s \in Slot : s \notin dirtySlots => sl[s] = diskSlot[s]
         /\ rc \in [Ids -> Ids \cup {Nothing, Torn}]
         /\ \A i \in Ids : rc[i] \in {rec[i], diskRec[i], Torn}
         /\ \A i \in Ids : i \notin dirtyRecs => rc[i] = diskRec[i]
<1> USE DEF TypeInv, TypeOK
<1>1. PICK how \in [dirtySlots -> {"new", "old", "torn"}] :
        sl = [s \in Slot |-> IF s \in dirtySlots
                             THEN Reached(how[s], slot[s], diskSlot[s])
                             ELSE diskSlot[s]]
  BY DEF SlotFates, Settled
<1>2. \A s \in dirtySlots : Reached(how[s], slot[s], diskSlot[s])
                              \in {slot[s], diskSlot[s], Torn}
  BY <1>1 DEF Reached
<1>3. PICK how2 \in [dirtyRecs -> {"new", "old", "torn"}] :
        rc = [i \in Ids |-> IF i \in dirtyRecs
                            THEN Reached(how2[i], rec[i], diskRec[i])
                            ELSE diskRec[i]]
  BY DEF RecFates, Settled
<1>4. \A i \in dirtyRecs : Reached(how2[i], rec[i], diskRec[i])
                             \in {rec[i], diskRec[i], Torn}
  BY <1>3 DEF Reached
<1>5. /\ sl \in [Slot -> Header \cup {Torn}]
      /\ \A s \in Slot : sl[s] \in {slot[s], diskSlot[s], Torn}
      /\ \A s \in Slot : s \notin dirtySlots => sl[s] = diskSlot[s]
  BY <1>1, <1>2
<1>6. /\ rc \in [Ids -> Ids \cup {Nothing, Torn}]
      /\ \A i \in Ids : rc[i] \in {rec[i], diskRec[i], Torn}
      /\ \A i \in Ids : i \notin dirtyRecs => rc[i] = diskRec[i]
  BY <1>3, <1>4
<1>7. QED
  BY <1>5, <1>6

LEMMA TypeInvNext == TypeInv /\ [Next]_vars => TypeInv'
<1> SUFFICES ASSUME TypeInv, [Next]_vars PROVE TypeInv'
  OBVIOUS
<1> USE VaultAssumption
<1>t. TypeOK /\ Counts
  BY DEF TypeInv
<1>1. ASSUME NEW b \in Ids, RefuseAppend(b) PROVE TypeInv'
  BY <1>t, <1>1 DEF RefuseAppend, TypeInv, TypeOK, Counts, fileVars, memVars, envVars
<1>2. ASSUME NEW b \in Ids, WriteRecord(b) PROVE TypeInv'
  <2>1. header.count + 1 \in Ids
    <3>1. header.count \in Nat /\ header.count < b
      BY <1>t, <1>2 DEF WriteRecord, NextBlock, TypeOK, Counts, Header
    <3>2. QED
      BY <3>1 DEF Ids
  <2>2. TypeOK'
    BY <1>t, <1>2, <2>1 DEF WriteRecord, TypeOK, envVars
  <2>3. \A c \in Ids : fate'[c] = "none" => fate[c] = "none" /\ b < c
    BY <1>t, <1>2 DEF WriteRecord, NextBlock, TypeOK, Ids
  <2>4. header.count < b /\ header.count < CountLimit
    BY <1>t, <1>2 DEF WriteRecord, NextBlock, Counts
  <2>5. Counts'
    BY <1>t, <1>2, <2>3, <2>4 DEF WriteRecord, Counts
  <2>6. QED
    BY <2>2, <2>5 DEF TypeInv
<1>3. ASSUME NEW b \in Ids, WriteRecordFails(b) PROVE TypeInv'
  <2>1. header.count + 1 \in Ids
    BY <1>t, <1>3 DEF WriteRecordFails, NextBlock, TypeOK, Counts, Ids, Header
  <2>2. TypeOK'
    BY <1>t, <1>3, <2>1 DEF WriteRecordFails, TypeOK, memVars
  <2>3. Counts'
    BY <1>t, <1>3 DEF WriteRecordFails, TypeOK, Counts, memVars
  <2>4. QED
    BY <2>2, <2>3 DEF TypeInv
<1>4. CASE SyncRecord
  <2> USE <1>4 DEF SyncRecord, SyncOk
  <2>1. /\ cur \in Ids
        /\ header.count + 1 \in 0..CountLimit
        /\ (header.gen + 1) % GenMod \in Gen
    BY <1>t DEF TypeOK, Counts, Header, Gen
  <2>2. header' \in Header
    BY <2>1 DEF Header
  <2>3. TypeOK'
    BY <1>t, <2>1, <2>2 DEF TypeOK, envVars
  <2>4. Counts'
    BY <1>t, <2>1 DEF TypeOK, Counts, Ids, Header
  <2>5. QED
    BY <2>3, <2>4 DEF TypeInv
<1>5. ASSUME SyncFails, pc \in {"syncRecord", "syncHeader"} PROVE TypeInv'
  <2> USE <1>5 DEF SyncFails
  <2>1. /\ diskSlot' \in [Slot -> Header \cup {Torn}]
        /\ \A s \in Slot : diskSlot'[s] \in {slot[s], diskSlot[s], Torn}
        /\ diskRec' \in [Ids -> Ids \cup {Nothing, Torn}]
    BY SettledTypes
  <2>c. commitErrs' \in 0..MaxCommitErrors
    BY <1>t DEF TypeOK
  <2>2. TypeOK'
    BY <1>t, <2>1, <2>c DEF TypeOK
  <2>3. Counts'
    BY <1>t, <2>1 DEF TypeOK, Counts
  <2>4. QED
    BY <2>2, <2>3 DEF TypeInv
<1>6. CASE WriteHeader
  <2> USE <1>6 DEF WriteHeader
  <2>1. SlotOf(header.gen) \in Slot
    BY <1>t DEF SlotOf, Slot, TypeOK, Header, Gen
  <2>2. TypeOK'
    BY <1>t, <2>1 DEF TypeOK, envVars
  <2>3. Counts'
    BY <1>t, <2>1 DEF TypeOK, Counts
  <2>4. QED
    BY <2>2, <2>3 DEF TypeInv
<1>7. CASE WriteHeaderFails
  <2> USE <1>7 DEF WriteHeaderFails
  <2>1. SlotOf(header.gen) \in Slot
    BY <1>t DEF SlotOf, Slot, TypeOK, Header, Gen
  <2>c. commitErrs' \in 0..MaxCommitErrors
    BY <1>t DEF TypeOK
  <2>2. TypeOK'
    BY <1>t, <2>1, <2>c DEF TypeOK
  <2>3. Counts'
    BY <1>t, <2>1 DEF TypeOK, Counts
  <2>4. QED
    BY <2>2, <2>3 DEF TypeInv
<1>8. CASE SyncHeader
  <2>1. TypeOK'
    BY <1>t, <1>8 DEF SyncHeader, SyncOk, TypeOK, envVars
  <2>2. Counts'
    BY <1>t, <1>8 DEF SyncHeader, SyncOk, TypeOK, Counts
  <2>3. QED
    BY <2>1, <2>2 DEF TypeInv
<1>9. ASSUME Closed,
             diskSlot' \in [Slot -> Header \cup {Torn}],
             slot' \in [Slot -> Header \cup {Torn}],
             \A s \in Slot : slot'[s] \in {slot[s], diskSlot[s], Torn},
             \A s \in Slot : diskSlot'[s] \in {slot[s], diskSlot[s], Torn},
             rec' \in [Ids -> Ids \cup {Nothing, Torn}],
             diskRec' \in [Ids -> Ids \cup {Nothing, Torn}],
             dirtySlots' \subseteq Slot, dirtyRecs' \subseteq Ids,
             crashes' \in 0..MaxCrashes, UNCHANGED <<recordErrs, commitErrs>>
      PROVE  TypeInv'
  <2> USE <1>9 DEF Closed
  <2>1. header' \in Header
    BY DEF NoHeader, Header, Gen
  <2>2. TypeOK'
    BY <1>t, <2>1 DEF TypeOK
  <2>3. Counts'
    <3>1. \A c \in Ids : fate'[c] = "none" => fate[c] = "none"
      BY <1>t DEF TypeOK
    <3>2. \A c \in Ids : header'.count < c
      BY DEF NoHeader, Ids
    <3>3. QED
      BY <1>t, <3>1, <3>2 DEF Counts
  <2>4. QED
    BY <2>2, <2>3 DEF TypeInv
<1>10. CASE Stop
  BY <1>t, <1>9, <1>10 DEF Stop, fileVars, envVars, TypeOK
<1>11. CASE Crash
  <2>1. crashes' \in 0..MaxCrashes
    BY <1>t, <1>11 DEF Crash, TypeOK
  <2>2. /\ diskSlot' \in [Slot -> Header \cup {Torn}]
        /\ \A s \in Slot : diskSlot'[s] \in {slot[s], diskSlot[s], Torn}
        /\ diskRec' \in [Ids -> Ids \cup {Nothing, Torn}]
    BY <1>11, SettledTypes DEF Crash
  <2>3. QED
    BY <2>1, <2>2, <1>9, <1>11 DEF Crash
<1>12. CASE Open
  <2>1. PICK s \in Slot : /\ slot[s] # Torn
                          /\ Opens(slot, rec, slot[s])
                          /\ header' = slot[s]
                          /\ index' = History(rec, slot[s])
    BY <1>12 DEF Open
  <2>2. /\ header' \in Header
        /\ \A c \in Ids : fate[c] = "none" => header'.count < c
    BY <1>t, <2>1 DEF TypeOK, Counts
  <2>3. index' \in Seq(Ids)
    BY <2>1, <2>2 DEF Opens, Scans, History, Header
  <2>4. TypeOK'
    BY <1>t, <1>12, <2>2, <2>3 DEF Open, TypeOK, fileVars, envVars
  <2>5. Counts'
    BY <1>t, <1>12, <2>2 DEF Open, Counts, fileVars, envVars
  <2>6. QED
    BY <2>4, <2>5 DEF TypeInv
<1>13. CASE UNCHANGED vars
  BY <1>t, <1>13 DEF vars, fileVars, memVars, envVars, TypeInv, TypeOK, Counts
<1>14. QED
  BY <1>1, <1>2, <1>3, <1>4, <1>5, <1>6, <1>7, <1>8, <1>10, <1>11, <1>12, <1>13
     DEF Next, SyncRecordFails, SyncHeaderFails

\* Every variable of the vault keeps its type, at any bound.
THEOREM TypeCorrect == Spec => []TypeOK
<1>1. Init => TypeInv
  BY TypeInvInit
<1>2. TypeInv /\ [Next]_vars => TypeInv'
  BY TypeInvNext
<1>3. TypeInv => TypeOK
  BY DEF TypeInv
<1>4. QED
  BY <1>1, <1>2, <1>3, PTL DEF Spec

-----------------------------------------------------------------------------
(* Crash safety.  While no header write and no sync has failed there is a   *)
(* committed header h: its slot is clean, the records it counts are on the  *)
(* medium, and the other slot holds something older (Quiet) or, written     *)
(* and not yet synced, the next header, whose record is durable (Pending).  *)

NextHeader(h) == [gen |-> h.gen + 1, count |-> h.count + 1]

Durable(i) ==
  /\ i \in Ids
  /\ i \notin dirtyRecs
  /\ rec[i] \in Ids
  /\ diskRec[i] = rec[i]

Older(sl, s, h) == sl[s] = Torn \/ sl[s] = h \/ (sl[s] \in Header /\ sl[s].gen < h.gen)

Committed(h, s) ==
  /\ s = SlotOf(h.gen)
  /\ h.gen = h.count + 1
  /\ s \notin dirtySlots
  /\ slot[s] = h
  /\ diskSlot[s] = h
  /\ Older(diskSlot, 1 - s, h)
  /\ \A i \in 1..h.count : Durable(i)
  /\ \A c \in Acked : \E i \in 1..h.count : rec[i] = c

Quiet(h, s) ==
  /\ Committed(h, s)
  /\ (1 - s) \notin dirtySlots
  /\ Older(slot, 1 - s, h)

Pending(h, s) ==
  /\ Committed(h, s)
  /\ (1 - s) \in dirtySlots
  /\ slot[1 - s] = NextHeader(h)
  /\ NextHeader(h) \in Header
  /\ Durable(h.count + 1)

CommitState(h, s) ==
  /\ pc = "closed" => Quiet(h, s) \/ Pending(h, s)
  /\ pc \in {"idle", "syncRecord"} =>
       \/ Quiet(h, s) /\ header = h
       \/ Pending(h, s) /\ header = NextHeader(h)
  /\ pc = "syncRecord" =>
       /\ rec[header.count + 1] = cur
       /\ header.count + 1 \in dirtyRecs
  /\ pc = "writeHeader" =>
       /\ Quiet(h, s)
       /\ header = NextHeader(h)
       /\ Durable(h.count + 1)
       /\ rec[h.count + 1] = cur
  /\ pc = "syncHeader" =>
       /\ Pending(h, s)
       /\ header = NextHeader(h)
       /\ rec[h.count + 1] = cur

CommitInv == commitErrs = 0 => \E h \in Header, s \in Slot : CommitState(h, s)

\* Committing generation G leaves generation G-1 in the other slot.
LEMMA Parity ==
  \A n \in Nat : /\ SlotOf(n) \in Slot
                 /\ SlotOf(n + 1) = 1 - SlotOf(n)
                 /\ 1 - SlotOf(n) \in Slot
                 /\ 1 - SlotOf(n) # SlotOf(n)
BY DEF SlotOf, Slot

\* The generation does not wrap below the counter limit.
LEMMA NoWrap ==
  ASSUME NEW h \in Header, h.gen = h.count + 1, h.count < CountLimit
  PROVE  /\ (h.gen + 1) % GenMod = h.gen + 1
         /\ NextHeader(h) \in Header
         /\ NextHeader(h).gen = h.gen + 1
         /\ NextHeader(h).count = h.count + 1
BY VaultAssumption DEF Header, Gen, NextHeader

LEMMA CommitInvInit == Init => CommitInv
<1> SUFFICES ASSUME Init PROVE CommitState(FirstHeader, 1)
  <2>1. FirstHeader \in Header /\ 1 \in Slot
    BY VaultAssumption DEF FirstHeader, Header, Gen, Slot
  <2>2. QED
    BY <2>1 DEF CommitInv
<1> USE DEF Init
<1>1. SlotOf(FirstHeader.gen) = 1
  BY DEF SlotOf, FirstHeader
<1>2. Acked = {}
  BY DEF Acked
<1>3. Quiet(FirstHeader, 1)
  BY <1>1, <1>2 DEF Quiet, Committed, Older, Slot, FirstHeader
<1>4. QED
  BY <1>3 DEF CommitState

\* A step that leaves the file alone and acknowledges nothing keeps the state
\* of the commit.
LEMMA SameFile ==
  ASSUME NEW h, NEW s, UNCHANGED fileVars, Acked' \subseteq Acked
  PROVE  /\ Quiet(h, s) => Quiet(h, s)'
         /\ Pending(h, s) => Pending(h, s)'
BY DEF fileVars, Quiet, Pending, Committed, Older, Durable

\* A write behind the records a header counts disturbs none of them.
LEMMA WriteBehind ==
  ASSUME NEW h \in Header, NEW s, NEW i, NEW v, TypeOK,
         i \in Int, h.count < i,
         rec' = [rec EXCEPT ![i] = v], dirtyRecs' = dirtyRecs \cup {i},
         UNCHANGED <<slot, diskSlot, diskRec, dirtySlots>>,
         Acked' \subseteq Acked
  PROVE  /\ Quiet(h, s) => Quiet(h, s)'
         /\ Pending(h, s) /\ i # h.count + 1 => Pending(h, s)'
<1>1. \A j \in Int : Durable(j) /\ j # i => Durable(j)' /\ rec'[j] = rec[j]
  BY DEF Durable, TypeOK
<1>2. h.count \in Int
  BY DEF Header
<1>3. Committed(h, s) => Committed(h, s)'
  BY <1>1, <1>2 DEF Committed, Older
<1>4. QED
  BY <1>1, <1>2, <1>3 DEF Quiet, Pending, Older

\* A view of the file with h in its slot, and in the other slot something
\* older or the next header, recovers what was acknowledged.
LEMMA ViewRecovers ==
  ASSUME NEW h \in Header, NEW s \in Slot, TypeInv,
         Quiet(h, s) \/ Pending(h, s),
         NEW sl \in [Slot -> Header \cup {Torn}],
         NEW rc \in [Ids -> Ids \cup {Nothing, Torn}],
         sl[s] = h,
         \/ Older(sl, 1 - s, h)
         \/ Pending(h, s) /\ sl[1 - s] = NextHeader(h),
         \A i \in Ids : Durable(i) => rc[i] = rec[i]
  PROVE  Recovers(sl, rc)
<1> USE VaultAssumption
<1>1. Committed(h, s)
  BY DEF Quiet, Pending
<1>2. h # Torn /\ h.count \in Nat /\ h.gen \in Nat
  BY DEF Header, Gen
<1>3. 1 - s \in Slot /\ \A t \in Slot : t = s \/ t = 1 - s
  BY DEF Slot
<1>4. \A i \in 1..h.count : i \in Ids /\ rc[i] = rec[i] /\ rc[i] \in Ids
  BY <1>1 DEF Committed, Durable
<1>5. h.count <= MaxAppends
  BY <1>2, <1>4 DEF Ids
<1>6. Scans(rc, h)
  BY <1>4, <1>5 DEF Scans
<1>7. \A b \in Acked : \E i \in 1..h.count : rc[i] = b
  BY <1>1, <1>4 DEF Committed
<1>8. CASE Older(sl, 1 - s, h)
  <2>1. IsCommitPoint(sl, h)
    <3>1. s \in ValidSlots(sl)
      BY <1>2 DEF ValidSlots
    <3>2. \A t \in ValidSlots(sl) : sl[t].gen <= h.gen
      BY <1>2, <1>3, <1>8 DEF ValidSlots, Older, Header, Gen
    <3>3. QED
      BY <3>1, <3>2 DEF IsCommitPoint
  <2>2. ASSUME NEW g \in Header, IsCommitPoint(sl, g) PROVE g = h
    <3>1. PICK t \in ValidSlots(sl) : g = sl[t] /\ h.gen <= g.gen
      BY <1>2, <2>2 DEF IsCommitPoint, ValidSlots
    <3>2. CASE t = s
      BY <3>1, <3>2
    <3>3. CASE t = 1 - s
      BY <3>1, <3>3, <1>2, <1>8 DEF Older, ValidSlots, Header, Gen
    <3>4. QED
      BY <1>3, <3>1, <3>2, <3>3 DEF ValidSlots
  <2>3. QED
    BY <1>6, <1>7, <2>1, <2>2 DEF Recovers, Opens
<1>9. CASE Pending(h, s) /\ sl[1 - s] = NextHeader(h)
  <2> DEFINE n == NextHeader(h)
  <2>1. n \in Header /\ n.gen = h.gen + 1 /\ n.count = h.count + 1
    BY <1>9 DEF Pending, NextHeader
  <2>2. h.count + 1 \in Ids /\ rc[h.count + 1] \in Ids
    BY <1>9 DEF Pending, Durable
  <2>3. Scans(rc, n)
    BY <1>2, <1>4, <2>1, <2>2 DEF Scans, Ids
  <2>4. \A b \in Acked : \E i \in 1..n.count : rc[i] = b
    BY <1>2, <1>7, <2>1
  <2>5. n # Torn
    BY <2>1
  <2>6. IsCommitPoint(sl, n)
    BY <1>2, <1>3, <1>9, <2>1, <2>5 DEF IsCommitPoint, ValidSlots
  <2>7. ASSUME NEW g \in Header, IsCommitPoint(sl, g) PROVE g = n
    <3>1. PICK t \in ValidSlots(sl) : g = sl[t] /\ n.gen <= g.gen
      BY <1>3, <1>9, <2>5, <2>7 DEF IsCommitPoint, ValidSlots
    <3>2. t # s
      BY <3>1, <2>1, <1>2
    <3>3. QED
      BY <1>3, <1>9, <3>1, <3>2 DEF ValidSlots
  <2>8. QED
    BY <2>1, <2>3, <2>4, <2>6, <2>7 DEF Recovers, Opens
<1>10. QED
  BY <1>8, <1>9

\* The invariant implies that every file a kill or a power loss can leave is
\* recovered.
LEMMA CommitInvCrashSafe == TypeInv /\ CommitInv => CrashSafe
<1> SUFFICES ASSUME TypeInv, CommitInv, commitErrs = 0
             PROVE  /\ Recovers(slot, rec)
                    /\ \A sl \in SlotFates, rc \in RecFates : Recovers(sl, rc)
  BY DEF CrashSafe
<1>1. PICK h \in Header, s \in Slot : CommitState(h, s)
  BY DEF CommitInv
<1>2. Quiet(h, s) \/ Pending(h, s)
  BY <1>1 DEF CommitState, TypeInv, TypeOK
<1>3. Recovers(slot, rec)
  <2>1. slot[s] = h /\ (Older(slot, 1 - s, h) \/ (Pending(h, s) /\ slot[1 - s] = NextHeader(h)))
    <3>1. CASE Quiet(h, s)
      BY <3>1 DEF Quiet, Committed
    <3>2. CASE Pending(h, s)
      BY <3>2 DEF Pending, Committed
    <3>3. QED
      BY <1>2, <3>1, <3>2
  <2>2. QED
    BY <1>2, <2>1, ViewRecovers DEF TypeInv, TypeOK
<1>4. ASSUME NEW sl \in SlotFates, NEW rc \in RecFates PROVE Recovers(sl, rc)
  <2>1. /\ sl \in [Slot -> Header \cup {Torn}]
        /\ \A t \in Slot : sl[t] \in {slot[t], diskSlot[t], Torn}
        /\ \A t \in Slot : t \notin dirtySlots => sl[t] = diskSlot[t]
        /\ rc \in [Ids -> Ids \cup {Nothing, Torn}]
        /\ \A i \in Ids : i \notin dirtyRecs => rc[i] = diskRec[i]
    BY SettledTypes
  <2>2. sl[s] = h
    BY <1>2, <2>1 DEF Quiet, Pending, Committed
  <2>3. \A i \in Ids : Durable(i) => rc[i] = rec[i]
    BY <2>1 DEF Durable
  <2>4. 1 - s \in Slot
    BY DEF Slot
  <2>5. \/ Older(sl, 1 - s, h)
        \/ Pending(h, s) /\ sl[1 - s] = NextHeader(h)
    BY <1>2, <2>1, <2>4 DEF Quiet, Pending, Committed, Older
  <2>6. QED
    BY <1>2, <2>1, <2>2, <2>3, <2>5, ViewRecovers
<1>5. QED
  BY <1>3, <1>4

LEMMA CommitInvNext == TypeInv /\ CommitInv /\ [Next]_vars => CommitInv'
<1> SUFFICES ASSUME TypeInv, CommitInv, [Next]_vars, commitErrs' = 0
             PROVE  \E h \in Header, s \in Slot : CommitState(h, s)'
  BY DEF CommitInv
<1> USE VaultAssumption
<1>t. TypeOK /\ Counts
  BY DEF TypeInv
<1>e. CASE SyncRecordFails \/ WriteHeaderFails \/ SyncHeaderFails
  BY <1>t, <1>e DEF SyncRecordFails, WriteHeaderFails, SyncHeaderFails, SyncFails, TypeOK
<1>0. SUFFICES ASSUME commitErrs = 0, ~(SyncRecordFails \/ WriteHeaderFails \/ SyncHeaderFails)
               PROVE  \E h \in Header, s \in Slot : CommitState(h, s)'
  BY <1>e DEF Next, vars, fileVars, memVars, envVars, RefuseAppend, WriteRecord,
              WriteRecordFails, SyncRecord, WriteHeader, SyncHeader, Stop, Crash, Open
<1>c. PICK h \in Header, s \in Slot : CommitState(h, s)
  BY <1>0 DEF CommitInv
<1>h. /\ h # Torn /\ h.count \in Nat /\ h.gen \in Nat
      /\ header \in Header /\ header.count \in Nat
      /\ 1 - s \in Slot /\ 1 - s # s /\ s = 1 - (1 - s)
  BY <1>t DEF Header, Gen, Slot, TypeOK
<1>1. ASSUME NEW b \in Ids, RefuseAppend(b) PROVE CommitState(h, s)'
  <2>1. Acked' \subseteq Acked
    BY <1>t, <1>1 DEF RefuseAppend, Acked, TypeOK
  <2>2. QED
    BY <1>c, <1>1, <2>1, SameFile DEF RefuseAppend, CommitState, memVars, fileVars
<1>2. ASSUME NEW b \in Ids, WriteRecord(b) PROVE CommitState(h, s)'
  <2> DEFINE i == header.count + 1
  <2>1. Acked' \subseteq Acked
    BY <1>t, <1>2 DEF WriteRecord, Acked, TypeOK
  <2>2. i \in Ids
    BY <1>t, <1>2, <1>h DEF WriteRecord, Counts, NextBlock, Ids
  <2>3. rec'[i] = b /\ i \in dirtyRecs'
    BY <1>t, <1>2, <2>2 DEF WriteRecord, TypeOK
  <2>4. \/ Quiet(h, s) /\ header = h
        \/ Pending(h, s) /\ header = NextHeader(h)
    BY <1>c, <1>2 DEF CommitState, WriteRecord
  <2>5. h.count < i /\ ((Pending(h, s) /\ header = NextHeader(h)) => i # h.count + 1)
    BY <2>4, <1>h DEF NextHeader
  <2>6. \/ Quiet(h, s)' /\ header = h
        \/ Pending(h, s)' /\ header = NextHeader(h)
    <3>1. /\ rec' = [rec EXCEPT ![i] = b] /\ dirtyRecs' = dirtyRecs \cup {i}
          /\ UNCHANGED <<slot, diskSlot, diskRec, dirtySlots>>
      BY <1>2 DEF WriteRecord
    <3>2. i \in Int
      BY <1>h
    <3>3. /\ Quiet(h, s) => Quiet(h, s)'
          /\ Pending(h, s) /\ i # h.count + 1 => Pending(h, s)'
      BY <1>t, <2>1, <2>5, <3>1, <3>2, WriteBehind
    <3>4. QED
      BY <2>4, <2>5, <3>3
  <2>7. QED
    BY <1>2, <2>3, <2>6 DEF WriteRecord, CommitState
<1>3. ASSUME NEW b \in Ids, WriteRecordFails(b) PROVE CommitState(h, s)'
  <2> DEFINE i == header.count + 1
  <2>1. Acked' \subseteq Acked
    BY <1>t, <1>3 DEF WriteRecordFails, Acked, TypeOK
  <2>4. \/ Quiet(h, s) /\ header = h
        \/ Pending(h, s) /\ header = NextHeader(h)
    BY <1>c, <1>3 DEF CommitState, WriteRecordFails
  <2>5. h.count < i /\ ((Pending(h, s) /\ header = NextHeader(h)) => i # h.count + 1)
    BY <2>4, <1>h DEF NextHeader
  <2>6. \/ Quiet(h, s)' /\ header = h
        \/ Pending(h, s)' /\ header = NextHeader(h)
    <3>1. CASE UNCHANGED <<rec, dirtyRecs>>
      BY <1>3, <2>1, <2>4, <3>1, SameFile DEF WriteRecordFails, fileVars
    <3>2. CASE rec' = [rec EXCEPT ![i] = Torn] /\ dirtyRecs' = dirtyRecs \cup {i}
      <4>1. UNCHANGED <<slot, diskSlot, diskRec, dirtySlots>>
        BY <1>3 DEF WriteRecordFails
      <4>2. i \in Int
        BY <1>h
      <4>3. /\ Quiet(h, s) => Quiet(h, s)'
            /\ Pending(h, s) /\ i # h.count + 1 => Pending(h, s)'
        BY <1>t, <2>1, <2>5, <3>2, <4>1, <4>2, WriteBehind
      <4>4. QED
        BY <2>4, <2>5, <4>3
    <3>3. QED
      BY <1>3, <3>1, <3>2 DEF WriteRecordFails
  <2>7. QED
    BY <1>3, <2>6 DEF WriteRecordFails, CommitState, memVars
<1>4. CASE SyncRecord
  <2> USE <1>4 DEF SyncRecord, SyncOk
  <2>1. Acked' = Acked
    BY DEF Acked
  <2>2. header.count < CountLimit /\ cur \in Ids /\ header.count + 1 \in Ids
    BY <1>t, <1>h DEF Counts, Ids
  <2>3. /\ rec[header.count + 1] = cur
        /\ header.count + 1 \in dirtyRecs
        /\ \/ Quiet(h, s) /\ header = h
           \/ Pending(h, s) /\ header = NextHeader(h)
    BY <1>c DEF CommitState
  <2>4. \A i \in Int : Durable(i) => Durable(i)'
    BY <1>t DEF Durable, TypeOK
  <2>5. \A i \in Int : i = header.count + 1 => Durable(i)'
    BY <1>t, <2>2, <2>3 DEF Durable, TypeOK
  <2>6. \A t \in Slot : diskSlot'[t] = IF t \in dirtySlots THEN slot[t] ELSE diskSlot[t]
    BY <1>t DEF TypeOK
  <2>7. CASE Quiet(h, s) /\ header = h
    <3>1. header' = NextHeader(h)
      BY <2>2, <2>7, NoWrap DEF Quiet, Committed, NextHeader
    <3>2. Committed(h, s)'
      BY <1>h, <2>1, <2>4, <2>6, <2>7 DEF Quiet, Committed, Older
    <3>3. Quiet(h, s)'
      BY <2>7, <3>2 DEF Quiet, Older
    <3>4. Durable(h.count + 1)' /\ rec'[h.count + 1] = cur'
      BY <1>h, <2>3, <2>5, <2>7
    <3>5. CommitState(h, s)'
      BY <3>1, <3>3, <3>4 DEF CommitState
    <3>6. QED
      BY <3>5
  <2>8. CASE Pending(h, s) /\ header = NextHeader(h)
    <3> DEFINE n == NextHeader(h)
    <3>1. /\ n \in Header /\ n # Torn
          /\ n.gen = h.gen + 1 /\ n.count = h.count + 1 /\ n.gen = n.count + 1
      BY <1>h, <2>8 DEF NextHeader, Pending, Committed
    <3>2. header' = NextHeader(n)
      BY <2>2, <2>8, <3>1, <1>h, NoWrap DEF NextHeader
    <3>3. 1 - s = SlotOf(n.gen)
      BY <1>h, <2>8, <3>1, Parity DEF Pending, Committed
    <3>4. slot[1 - s] = n /\ diskSlot'[1 - s] = n /\ diskSlot'[s] = h /\ slot[s] = h
      BY <1>h, <2>6, <2>8 DEF Pending, Committed
    <3>5. h.gen < n.gen
      BY <1>h, <3>1
    <3>6. \A i \in 1..n.count : Durable(i)'
      BY <1>h, <2>4, <2>8, <3>1 DEF Pending, Committed
    <3>7. \A c \in Acked : \E i \in 1..n.count : rec[i] = c
      BY <1>h, <2>8, <3>1 DEF Pending, Committed
    <3>8. Committed(n, 1 - s)'
      <4> HIDE DEF n
      <4>1. QED
        BY <1>h, <2>1, <3>1, <3>3, <3>4, <3>5, <3>6, <3>7 DEF Committed, Older
    <3>9. Quiet(n, 1 - s)'
      <4> HIDE DEF n
      <4>1. QED
        BY <1>h, <3>4, <3>5, <3>8 DEF Quiet, Older
    <3>10. Durable(n.count + 1)' /\ rec'[n.count + 1] = cur'
      BY <1>h, <2>3, <2>5, <2>8, <3>1
    <3>11. CommitState(n, 1 - s)'
      BY <3>2, <3>9, <3>10 DEF CommitState
    <3>12. QED
      BY <1>h, <3>1, <3>11
  <2>9. QED
    BY <2>3, <2>7, <2>8
<1>5. CASE WriteHeader
  <2> USE <1>5 DEF WriteHeader
  <2>1. Acked' = Acked
    BY DEF Acked
  <2>2. /\ Quiet(h, s)
        /\ header = NextHeader(h)
        /\ Durable(h.count + 1)
        /\ rec[h.count + 1] = cur
    BY <1>c DEF CommitState
  <2>3. SlotOf(header.gen) = 1 - s
    BY <1>h, <2>2, Parity DEF Quiet, Committed, NextHeader
  <2>4. slot'[1 - s] = NextHeader(h) /\ slot'[s] = slot[s] /\ s \notin dirtySlots'
    BY <1>t, <1>h, <2>2, <2>3 DEF TypeOK, Quiet, Committed
  <2>5. Pending(h, s)'
    BY <1>h, <2>1, <2>2, <2>3, <2>4 DEF Quiet, Pending, Committed, Older, Durable
  <2>6. QED
    BY <2>2, <2>5 DEF CommitState
<1>6. CASE SyncHeader
  <2> USE <1>6 DEF SyncHeader, SyncOk
  <2> DEFINE n == NextHeader(h)
  <2>1. Pending(h, s) /\ header = n /\ rec[h.count + 1] = cur
    BY <1>c DEF CommitState
  <2>2. \A c \in Acked' : c \in Acked \/ c = cur
    BY <1>t DEF Acked, TypeOK
  <2>3. /\ n \in Header /\ n # Torn
        /\ n.gen = h.gen + 1 /\ n.count = h.count + 1 /\ n.gen = n.count + 1
    BY <1>h, <2>1 DEF NextHeader, Pending, Committed
  <2>4. 1 - s = SlotOf(n.gen)
    BY <1>h, <2>1, <2>3, Parity DEF Pending, Committed
  <2>5. \A t \in Slot : diskSlot'[t] = IF t \in dirtySlots THEN slot[t] ELSE diskSlot[t]
    BY <1>t DEF TypeOK
  <2>6. slot[1 - s] = n /\ diskSlot'[1 - s] = n /\ diskSlot'[s] = h /\ slot[s] = h
    BY <1>h, <2>1, <2>5 DEF Pending, Committed
  <2>7. \A i \in Int : Durable(i) => Durable(i)'
    BY <1>t DEF Durable, TypeOK
  <2>8. \A i \in 1..n.count : Durable(i)'
    BY <1>h, <2>1, <2>3, <2>7 DEF Pending, Committed
  <2>9. \A c \in Acked' : \E i \in 1..n.count : rec[i] = c
    BY <1>h, <2>1, <2>2, <2>3 DEF Pending, Committed
  <2>10. h.gen < n.gen
    BY <1>h, <2>3
  <2>11. Quiet(n, 1 - s)'
    <3> HIDE DEF n
    <3>1. QED
      BY <1>h, <2>3, <2>4, <2>6, <2>8, <2>9, <2>10 DEF Quiet, Committed, Older
  <2>12. CommitState(n, 1 - s)'
    BY <2>1, <2>11 DEF CommitState
  <2>13. QED
    BY <1>h, <2>3, <2>12
<1>7. CASE Stop
  <2>1. Acked' \subseteq Acked
    BY <1>t, <1>7 DEF Stop, Closed, Acked, TypeOK
  <2>2. Quiet(h, s) \/ Pending(h, s)
    BY <1>t, <1>c DEF CommitState, TypeOK
  <2>3. QED
    BY <1>7, <2>1, <2>2, SameFile DEF Stop, Closed, CommitState
<1>8. CASE Crash
  <2> DEFINE n == NextHeader(h)
  <2>1. Acked' \subseteq Acked /\ pc' = "closed"
    BY <1>t, <1>8 DEF Crash, Closed, Acked, TypeOK
  <2>2. Quiet(h, s) \/ Pending(h, s)
    BY <1>t, <1>c DEF CommitState, TypeOK
  <2>3. /\ slot' = diskSlot' /\ rec' = diskRec'
        /\ slot' \in [Slot -> Header \cup {Torn}]
        /\ \A t \in Slot : slot'[t] \in {slot[t], diskSlot[t], Torn}
        /\ \A t \in Slot : t \notin dirtySlots => slot'[t] = diskSlot[t]
        /\ \A i \in Ids : i \notin dirtyRecs => rec'[i] = diskRec[i]
        /\ dirtySlots' = {} /\ dirtyRecs' = {}
    BY <1>8, SettledTypes DEF Crash
  <2>4. \A i \in Int : Durable(i) => Durable(i)' /\ rec'[i] = rec[i]
    BY <2>3 DEF Durable
  <2>5. slot'[s] = h
    BY <2>2, <2>3 DEF Quiet, Pending, Committed
  <2>6. \A i \in 1..h.count : Durable(i)'
    BY <1>h, <2>2, <2>4 DEF Quiet, Pending, Committed
  <2>7. \A c \in Acked' : \E i \in 1..h.count : rec'[i] = c
    BY <1>h, <2>1, <2>2, <2>4 DEF Quiet, Pending, Committed
  <2>8. CASE Older(slot', 1 - s, h)
    <3>1. Quiet(h, s)'
      BY <2>2, <2>3, <2>5, <2>6, <2>7, <2>8 DEF Quiet, Pending, Committed, Older
    <3>2. QED
      BY <2>1, <3>1 DEF CommitState
  <2>9. CASE Pending(h, s) /\ slot'[1 - s] = n
    <3>1. /\ n \in Header /\ n # Torn
          /\ n.gen = h.gen + 1 /\ n.count = h.count + 1 /\ n.gen = n.count + 1
      BY <1>h, <2>9 DEF NextHeader, Pending, Committed
    <3>2. 1 - s = SlotOf(n.gen)
      BY <1>h, <2>9, <3>1, Parity DEF Pending, Committed
    <3>3. \A i \in 1..n.count : Durable(i)'
      BY <1>h, <2>4, <2>6, <2>9, <3>1 DEF Pending
    <3>4. \A c \in Acked' : \E i \in 1..n.count : rec'[i] = c
      BY <1>h, <2>7, <3>1
    <3>5. h.gen < n.gen
      BY <1>h, <3>1
    <3>6. Quiet(n, 1 - s)'
      <4> HIDE DEF n
      <4>1. QED
        BY <1>h, <2>3, <2>5, <2>9, <3>1, <3>2, <3>3, <3>4, <3>5 DEF Quiet, Committed, Older
    <3>7. CommitState(n, 1 - s)'
      BY <2>1, <3>6 DEF CommitState
    <3>8. QED
      BY <1>h, <3>1, <3>7
  <2>10. QED
    BY <1>h, <2>2, <2>3, <2>8, <2>9 DEF Quiet, Pending, Committed, Older
<1>9. CASE Open
  <2>1. PICK t \in Slot : /\ slot[t] # Torn
                          /\ IsCommitPoint(slot, slot[t])
                          /\ header' = slot[t]
    BY <1>9 DEF Open, Opens
  <2>2. UNCHANGED fileVars /\ Acked' \subseteq Acked /\ pc' = "idle"
    BY <1>9 DEF Open, Acked
  <2>3. Quiet(h, s) \/ Pending(h, s)
    BY <1>c, <1>9 DEF Open, CommitState
  <2>4. slot[s] = h
    BY <2>3 DEF Quiet, Pending, Committed
  <2>5. t = s \/ t = 1 - s
    BY DEF Slot
  <2>6. CASE Quiet(h, s)
    <3>1. h.gen <= slot[t].gen
      BY <1>h, <2>1, <2>4 DEF IsCommitPoint, ValidSlots
    <3>2. slot[t] = h
      BY <1>h, <2>1, <2>4, <2>5, <2>6, <3>1 DEF Quiet, Older, Header, Gen
    <3>3. QED
      BY <2>1, <2>2, <2>6, <3>2, SameFile DEF CommitState
  <2>7. CASE Pending(h, s)
    <3>1. slot[1 - s] = NextHeader(h) /\ NextHeader(h) # Torn /\ NextHeader(h).gen = h.gen + 1
      BY <2>7 DEF Pending, NextHeader
    <3>2. h.gen + 1 <= slot[t].gen
      BY <1>h, <2>1, <3>1 DEF IsCommitPoint, ValidSlots
    <3>3. slot[t] = NextHeader(h)
      BY <1>h, <2>4, <2>5, <3>1, <3>2
    <3>4. QED
      BY <2>1, <2>2, <2>7, <3>3, SameFile DEF CommitState
  <2>8. QED
    BY <2>3, <2>6, <2>7
<1>10. CASE UNCHANGED vars
  <2>1. Acked' \subseteq Acked
    BY <1>10 DEF vars, Acked
  <2>2. QED
    BY <1>c, <1>10, <2>1, SameFile DEF vars, memVars, CommitState, fileVars, Durable
<1>11. QED
  BY <1>0, <1>1, <1>2, <1>3, <1>4, <1>5, <1>6, <1>7, <1>8, <1>9, <1>10 DEF Next

\* A crash at any point, of the process or of the machine, leaves a vault that
\* opens and holds every block append() returned Ok for, as long as no header
\* write and no sync has failed: for any number of appends and crashes.
THEOREM VaultCrashSafe == Spec => []CrashSafe
<1>1. Init => TypeInv /\ CommitInv
  BY TypeInvInit, CommitInvInit
<1>2. TypeInv /\ CommitInv /\ [Next]_vars => (TypeInv /\ CommitInv)'
  BY TypeInvNext, CommitInvNext
<1>3. TypeInv /\ CommitInv => CrashSafe
  BY CommitInvCrashSafe
<1>4. QED
  BY <1>1, <1>2, <1>3, PTL DEF Spec

-----------------------------------------------------------------------------
(* The index in memory.                                                    *)

IndexInv ==
  /\ ReadsBack
  /\ pc = "syncRecord" => rec[header.count + 1] = cur

LEMMA IndexInvNext == TypeInv /\ IndexInv /\ [Next]_vars => IndexInv'
<1> SUFFICES ASSUME TypeInv, IndexInv, [Next]_vars PROVE IndexInv'
  OBVIOUS
<1> USE DEF IndexInv, ReadsBack
<1>t. TypeOK /\ Counts /\ header.count \in Nat
  BY VaultAssumption DEF TypeInv, TypeOK, Header
<1>1. ASSUME NEW b \in Ids, RefuseAppend(b) PROVE IndexInv'
  BY <1>1 DEF RefuseAppend, fileVars, memVars
<1>2. ASSUME NEW b \in Ids, WriteRecord(b) PROVE IndexInv'
  <2>1. header.count + 1 \in Ids
    <3>1. header.count < b
      BY <1>t, <1>2 DEF WriteRecord, NextBlock, Counts
    <3>2. QED
      BY <1>t, <3>1, VaultAssumption DEF Ids
  <2>2. \A i \in Int : i # header.count + 1 => rec'[i] = rec[i]
    BY <1>t, <1>2 DEF WriteRecord, TypeOK
  <2>3. QED
    BY <1>t, <1>2, <2>1, <2>2 DEF WriteRecord, TypeOK
<1>2a. ASSUME NEW b \in Ids, WriteRecordFails(b) PROVE IndexInv'
  <2>1. \A i \in Int : i # header.count + 1 => rec'[i] = rec[i]
    <3>1. CASE UNCHANGED <<rec, dirtyRecs>>
      BY <3>1
    <3>2. CASE rec' = [rec EXCEPT ![header.count + 1] = Torn]
      BY <1>t, <3>2 DEF TypeOK
    <3>3. QED
      BY <1>2a, <3>1, <3>2 DEF WriteRecordFails
  <2>2. QED
    BY <1>t, <1>2a, <2>1 DEF WriteRecordFails, memVars
<1>3. CASE SyncRecord
  <2>1. header'.count = header.count + 1 /\ Len(index') = Len(index) + 1
    BY <1>t, <1>3 DEF SyncRecord, TypeOK, Counts
  <2>2. \A i \in 1..Len(index') : index'[i] = IF i <= Len(index) THEN index[i] ELSE cur
    BY <1>t, <1>3 DEF SyncRecord, TypeOK, Counts
  <2>3. QED
    BY <1>t, <1>3, <2>1, <2>2 DEF SyncRecord, TypeOK
<1>4. CASE SyncRecordFails \/ SyncHeaderFails
  BY <1>4 DEF SyncRecordFails, SyncHeaderFails, SyncFails
<1>5. CASE WriteHeader \/ WriteHeaderFails \/ SyncHeader
  BY <1>5 DEF WriteHeader, WriteHeaderFails, SyncHeader
<1>6. CASE Stop \/ Crash
  BY <1>6 DEF Stop, Crash, Closed
<1>7. CASE Open
  BY <1>t, <1>7 DEF Open, Opens, Scans, History, TypeOK, Header, fileVars
<1>8. CASE UNCHANGED vars
  BY <1>8 DEF vars, fileVars, memVars
<1>9. QED
  BY <1>1, <1>2, <1>2a, <1>3, <1>4, <1>5, <1>6, <1>7, <1>8 DEF Next

\* Whatever fails, the index of an open vault points at the blocks it names.
THEOREM VaultReadsBack == Spec => []ReadsBack
<1>1. Init => TypeInv /\ IndexInv
  BY TypeInvInit DEF Init, IndexInv, ReadsBack, FirstHeader
<1>2. TypeInv /\ IndexInv /\ [Next]_vars => (TypeInv /\ IndexInv)'
  BY TypeInvNext, IndexInvNext
<1>3. QED
  BY <1>1, <1>2, PTL DEF Spec, IndexInv

-----------------------------------------------------------------------------
(* The log.  Blocks are submitted in order and one at a time; what is on    *)
(* the medium ascends, and whatever else may come to it comes behind.       *)

Working == {"syncRecord", "writeHeader", "syncHeader"}

OrderInv ==
  /\ \A c \in Ids : fate[c] = "busy" <=> pc \in Working /\ c = cur
  /\ \A c, d \in Ids : c < d /\ fate[c] = "none" => fate[d] = "none"
  /\ pc \in Working => \A c \in Ids : fate[c] # "none" => c <= cur

LogState(h, s) ==
  /\ \A i \in 1..h.count : fate[diskRec[i]] \in {"acked", "lost"}
  /\ \A i, j \in 1..h.count : i < j => diskRec[i] < diskRec[j]
  /\ Pending(h, s) =>
       /\ \/ fate[rec[h.count + 1]] = "lost"
          \/ fate[rec[h.count + 1]] = "busy" /\ pc = "syncHeader"
       /\ \A i \in 1..h.count : diskRec[i] < rec[h.count + 1]

LogInv ==
  commitErrs = 0 =>
    \A h \in Header, s \in Slot : CommitState(h, s) => LogState(h, s)

\* The header the medium opens with, and no other.
DiskPoint(sl, h, s) ==
  s = SlotOf(h.gen) /\ sl[s] = h /\ Older(sl, 1 - s, h)

LEMMA OnePoint ==
  ASSUME NEW sl, NEW h \in Header, NEW g \in Header, NEW s \in Slot,
         NEW t \in Slot, DiskPoint(sl, h, s), DiskPoint(sl, g, t)
  PROVE  g = h /\ t = s
<1>1. h # Torn /\ g # Torn /\ h.gen \in Nat /\ g.gen \in Nat
  BY VaultAssumption DEF Header, Gen
<1>2. t = s \/ (t = 1 - s /\ s = 1 - t /\ s # t)
  BY DEF Slot
<1>3. CASE t = s
  BY <1>3 DEF DiskPoint
<1>4. CASE t = 1 - s /\ s = 1 - t /\ s # t
  <2>1. g # h
    BY <1>4 DEF DiskPoint
  <2>2. Older(sl, t, h) /\ Older(sl, s, g) /\ sl[s] = h /\ sl[t] = g
    BY <1>4 DEF DiskPoint
  <2>3. g.gen < h.gen /\ h.gen < g.gen
    BY <1>1, <2>1, <2>2 DEF Older
  <2> QED BY <1>1, <2>3
<1> QED BY <1>2, <1>3, <1>4

LEMMA CommitPoint ==
  ASSUME TypeInv, NEW h \in Header, NEW s \in Slot, CommitState(h, s)
  PROVE  /\ Committed(h, s) /\ DiskPoint(diskSlot, h, s)
         /\ Quiet(h, s) \/ Pending(h, s)
         /\ h.count \in Nat
         /\ \A i \in 1..h.count : i \in Ids /\ diskRec[i] \in Ids
BY VaultAssumption DEF TypeInv, TypeOK, CommitState, Quiet, Pending, Committed,
   DiskPoint, Durable, Header

LEMMA LogIs ==
  ASSUME NEW sl \in [Slot -> Header \cup {Torn}], NEW rc,
         NEW h \in Header, NEW s \in Slot, DiskPoint(sl, h, s)
  PROVE  LogOn(sl, rc) = History(rc, h)
<1> DEFINE points == {sl[t] : t \in {u \in ValidSlots(sl) :
                                       IsCommitPoint(sl, sl[u])}}
<1>1. /\ h # Torn /\ h.gen \in Nat /\ 1 - s \in Slot /\ 1 - s # s
      /\ \A t \in Slot : t = s \/ t = 1 - s
  BY VaultAssumption DEF Header, Gen, Slot
<1>2. s \in ValidSlots(sl)
  BY <1>1 DEF ValidSlots, DiskPoint
<1>3. \A t \in ValidSlots(sl) : sl[t].gen <= h.gen
  BY <1>1 DEF ValidSlots, DiskPoint, Older, Header, Gen
<1>4. IsCommitPoint(sl, h)
  BY <1>2, <1>3 DEF IsCommitPoint, DiskPoint
<1>5. ASSUME NEW t \in ValidSlots(sl), IsCommitPoint(sl, sl[t])
      PROVE  sl[t] = h
  <2>1. h.gen <= sl[t].gen
    BY <1>2, <1>5 DEF IsCommitPoint, DiskPoint
  <2>2. CASE t = s
    BY <2>2 DEF DiskPoint
  <2>3. CASE t = 1 - s
    BY <1>1, <2>1, <2>3 DEF DiskPoint, Older, ValidSlots, Header, Gen
  <2> QED BY <1>1, <2>2, <2>3 DEF ValidSlots
<1>6. points = {h}
  <2>1. h \in points
    BY <1>2, <1>4 DEF DiskPoint
  <2> QED BY <1>5, <2>1
<1>7. (CHOOSE k \in points : TRUE) = h
  <2> HIDE DEF points
  <2> QED BY <1>6
<1> QED BY <1>6, <1>7 DEF LogOn

LEMMA OrderInvNext == TypeInv /\ OrderInv /\ [Next]_vars => OrderInv'
<1> SUFFICES ASSUME TypeInv, OrderInv, [Next]_vars PROVE OrderInv'
  OBVIOUS
<1> USE DEF OrderInv, Working
<1>t. TypeOK /\ Ids \subseteq Int
  BY DEF TypeInv, Ids
<1>1. ASSUME NEW b \in Ids, RefuseAppend(b) \/ WriteRecordFails(b)
      PROVE  OrderInv'
  BY <1>t, <1>1 DEF RefuseAppend, WriteRecordFails, NextBlock, memVars, TypeOK
<1>2. ASSUME NEW b \in Ids, WriteRecord(b) PROVE OrderInv'
  BY <1>t, <1>2 DEF WriteRecord, NextBlock, TypeOK
<1>3. CASE SyncRecord \/ WriteHeader
  BY <1>t, <1>3 DEF SyncRecord, WriteHeader
<1>4. CASE SyncRecordFails \/ SyncHeaderFails \/ WriteHeaderFails \/ SyncHeader
  <2>1. /\ pc \in Working /\ pc' = "idle"
        /\ \E v \in {"failed", "acked"} : fate' = [fate EXCEPT ![cur] = v]
    BY <1>4 DEF SyncRecordFails, SyncHeaderFails, SyncFails, WriteHeaderFails,
                SyncHeader
  <2>2. cur \in Ids /\ fate[cur] = "busy"
    BY <2>1 DEF TypeInv, Counts
  <2> QED BY <1>t, <2>1, <2>2 DEF TypeOK
<1>5. CASE Stop \/ Crash
  BY <1>t, <1>5 DEF Stop, Crash, Closed, TypeOK
<1>6. CASE Open
  BY <1>t, <1>6 DEF Open
<1>7. CASE UNCHANGED vars
  BY <1>7 DEF vars, memVars
<1> QED BY <1>1, <1>2, <1>3, <1>4, <1>5, <1>6, <1>7 DEF Next

\* One more record is committed: the history has it at its end.
LEMMA HistoryGrows ==
  ASSUME NEW h \in Header, NEW rc, NEW rc2,
         \A i \in 1..h.count : rc2[i] = rc[i] /\ rc[i] \in Ids,
         rc2[h.count + 1] \in Ids
  PROVE  History(rc2, NextHeader(h)) = Append(History(rc, h), rc2[h.count + 1])
<1>1. h.count \in Nat /\ NextHeader(h).count = h.count + 1
  BY VaultAssumption DEF Header, NextHeader
<1> DEFINE old == History(rc, h)
           new == History(rc2, NextHeader(h))
           e == rc2[h.count + 1]
<1>2. old \in Seq(Ids) /\ Len(old) = h.count
  BY <1>1 DEF History
<1>3. new \in Seq(Ids) /\ Len(new) = h.count + 1
  BY <1>1 DEF History
<1>4. \A i \in 1..h.count + 1 : new[i] = IF i <= h.count THEN old[i] ELSE e
  BY <1>1 DEF History
<1>5. Append(old, e) \in Seq(Ids) /\ Len(Append(old, e)) = h.count + 1
      /\ \A i \in 1..h.count + 1 :
           Append(old, e)[i] = IF i <= h.count THEN old[i] ELSE e
  <2> HIDE DEF old, e
  <2>1. e \in Ids
    BY DEF e
  <2> QED BY <1>1, <1>2, <2>1
<1> HIDE DEF old, new, e
<1>6. new = Append(old, e)
  BY <1>1, <1>3, <1>4, <1>5
<1> QED BY <1>6 DEF old, new, e

LEMMA LogStep ==
  ASSUME TypeInv, TypeInv', OrderInv, OrderInv', LogInv,
         commitErrs = 0, commitErrs' = 0, Next,
         NEW h \in Header, NEW s \in Slot, CommitState(h, s),
         NEW g \in Header, NEW t \in Slot, CommitState(g, t)'
  PROVE  LogState(g, t)' /\ [Log!LogNext]_(Log!logVars)
<1> DEFINE n == NextHeader(h)
           b == rec[h.count + 1]
<1>t. TypeOK /\ Counts /\ TypeOK' /\ Ids \subseteq Int /\ Nothing \notin Ids
  BY DEF TypeInv, Ids, Nothing
<1>h. /\ h # Torn /\ h.count \in Nat /\ h.gen \in Nat
      /\ header \in Header /\ header.count \in Nat
      /\ 1 - s \in Slot /\ 1 - s # s /\ s = 1 - (1 - s)
      /\ \A u \in Slot : u = s \/ u = 1 - s
  <2>1. Torn \notin Header /\ \A k \in Header : k.count \in Nat /\ k.gen \in Nat
    BY VaultAssumption DEF Header, Gen
  <2>2. header \in Header
    BY <1>t DEF TypeOK
  <2>3. /\ 1 - s \in Slot /\ 1 - s # s /\ s = 1 - (1 - s)
        /\ \A u \in Slot : u = s \/ u = 1 - s
    BY DEF Slot
  <2> QED BY <2>1, <2>2, <2>3
<1>l. LogState(h, s)
  BY DEF LogInv
<1>c. /\ Committed(h, s) /\ DiskPoint(diskSlot, h, s)
      /\ Quiet(h, s) \/ Pending(h, s)
      /\ \A i \in 1..h.count : i \in Ids /\ diskRec[i] \in Ids
  BY CommitPoint
<1>g. DiskPoint(diskSlot', g, t)
  BY <1>t DEF TypeOK, CommitState, Quiet, Pending, Committed, DiskPoint
<1>e. \A i \in 1..h.count :
        fate[diskRec[i]] \in {"acked", "lost"} /\ rec[i] = diskRec[i]
        /\ i \notin dirtyRecs
  BY <1>c, <1>l DEF LogState, Committed, Durable
<1>d. DurableLog = History(diskRec, h) /\ DurableLog' = History(diskRec', g)
  BY <1>t, <1>c, <1>g, LogIs DEF DurableLog, TypeOK
<1>v. Log!logVars = <<DurableLog, fate>> /\ (Log!logVars)' = <<DurableLog', fate'>>
  BY DEF Log!logVars
<1>len. /\ Len(DurableLog) = h.count
        /\ \A i \in 1..h.count : DurableLog[i] = diskRec[i]
  BY <1>d, <1>h, <1>c DEF History
<1>busy. \A c \in Ids : fate[c] = "busy" => pc \in Working /\ c = cur
  BY DEF OrderInv
\* The medium opens with the same header: the history is the same.
<1>same. ASSUME diskSlot' = diskSlot \/ DiskPoint(diskSlot', h, s),
                \A i \in 1..h.count : diskRec'[i] = diskRec[i]
         PROVE  /\ g = h /\ t = s /\ DurableLog' = DurableLog
                /\ \A i \in 1..h.count : DurableLog'[i] = diskRec[i]
  <2>1. g = h /\ t = s
    BY <1>same, <1>c, <1>g, OnePoint
  <2>2. History(diskRec', h) = History(diskRec, h)
    BY <1>same DEF History
  <2> QED BY <2>1, <2>2, <1>d, <1>len
\* It opens with the next: the history has one block more.
<1>more. ASSUME Pending(h, s), diskSlot'[1 - s] = n, diskSlot'[s] \in {h, Torn},
                \A i \in 1..h.count : diskRec'[i] = diskRec[i],
                diskRec'[h.count + 1] = b
         PROVE  /\ g = n /\ t = 1 - s /\ b \in Ids
                /\ n.count = h.count + 1
                /\ DurableLog' = Append(DurableLog, b)
  <2>1. n \in Header /\ n # Torn /\ n.gen = h.gen + 1 /\ n.count = h.count + 1
        /\ b \in Ids
    BY <1>h, <1>more, VaultAssumption DEF Pending, NextHeader, Durable, Header
  <2>2. 1 - s = SlotOf(n.gen)
    BY <1>h, <1>c, <2>1, Parity DEF Committed
  <2>3. Older(diskSlot', s, n)
    BY <1>h, <1>more, <2>1 DEF Older
  <2>4. DiskPoint(diskSlot', n, 1 - s)
    BY <1>h, <1>more, <2>2, <2>3 DEF DiskPoint
  <2>5. g = n /\ t = 1 - s
    <3> HIDE DEF n
    <3> QED BY <1>h, <1>g, <2>1, <2>4, OnePoint
  <2>6. History(diskRec', n) = Append(History(diskRec, h), b)
    <3>1. \A i \in 1..h.count : diskRec'[i] = diskRec[i] /\ diskRec[i] \in Ids
      BY <1>more, <1>c
    <3>2. diskRec'[h.count + 1] \in Ids /\ b = diskRec'[h.count + 1]
      BY <1>more, <2>1
    <3> HIDE DEF b
    <3> QED BY <3>1, <3>2, HistoryGrows
  <2> QED BY <1>d, <2>1, <2>5, <2>6
<1> HIDE DEF n, b
\* Of the blocks on the medium, none is in flight or to come.
<1>apart. ASSUME NEW c \in Ids, fate[c] \in {"none", "busy"}
          PROVE  \A i \in 1..h.count : diskRec[i] # c
  BY <1>e, <1>apart
<1>1. ASSUME NEW c \in Ids, RefuseAppend(c) \/ WriteRecordFails(c)
      PROVE  LogState(g, t)' /\ [Log!LogNext]_(Log!logVars)
  <2>1. /\ fate[c] = "none" /\ pc = "idle" /\ pc' = "idle"
        /\ \A d \in Ids : d < c => fate[d] # "none"
        /\ fate' = [fate EXCEPT ![c] = "failed"]
        /\ UNCHANGED <<slot, diskSlot, diskRec, dirtySlots>>
        /\ \/ rec' = rec
           \/ rec' = [rec EXCEPT ![header.count + 1] = Torn]
    BY <1>1 DEF RefuseAppend, WriteRecordFails, NextBlock, fileVars, memVars
  <2>2. g = h /\ t = s /\ DurableLog' = DurableLog
    BY <2>1, <1>same
  <2>3. LogState(h, s)'
    <3>1. \A i \in 1..h.count : fate'[diskRec[i]] = fate[diskRec[i]]
      BY <1>t, <1>c, <1>e, <2>1 DEF TypeOK
    <3>2. Pending(h, s)' => Pending(h, s) /\ rec'[h.count + 1] = rec[h.count + 1]
      <4>1. Pending(h, s)' => ~Quiet(h, s)
        BY <2>1 DEF Pending, Quiet
      <4>2. Pending(h, s) => header.count = h.count + 1
        BY <1>h, <2>1, <4>1 DEF CommitState, NextHeader, Pending, Quiet
      <4>3. Pending(h, s) => rec'[h.count + 1] = rec[h.count + 1]
        <5>1. Pending(h, s) => h.count + 1 \in Ids
          BY DEF Pending, Durable
        <5> QED BY <1>t, <1>h, <2>1, <4>2, <5>1 DEF TypeOK
      <4> QED BY <1>c, <4>1, <4>3
    <3>3. Pending(h, s) => rec[h.count + 1] \in Ids
                           /\ fate'[rec[h.count + 1]] = fate[rec[h.count + 1]]
      BY <1>t, <1>l, <2>1 DEF LogState, TypeOK, Pending, Durable
    <3> QED BY <1>l, <2>1, <3>1, <3>2, <3>3 DEF LogState
  <2>4. Log!Fail(c)
    <3>1. Log!Fresh(c)
      BY <1>busy, <2>1 DEF Log!Fresh, Working
    <3>2. ~Log!InLog(c)
      BY <1>apart, <1>len, <2>1 DEF Log!InLog
    <3> QED BY <2>1, <2>2, <3>1, <3>2 DEF Log!Fail
  <2> QED BY <2>2, <2>3, <2>4 DEF Log!LogNext
<1>2. ASSUME NEW c \in Ids, WriteRecord(c)
      PROVE  LogState(g, t)' /\ [Log!LogNext]_(Log!logVars)
  <2>1. /\ fate[c] = "none" /\ pc = "idle"
        /\ \A d \in Ids : d < c => fate[d] # "none"
        /\ fate' = [fate EXCEPT ![c] = "busy"]
        /\ UNCHANGED <<slot, diskSlot, diskRec, dirtySlots>>
        /\ rec' = [rec EXCEPT ![header.count + 1] = c]
    BY <1>2 DEF WriteRecord, NextBlock
  <2>2. g = h /\ t = s /\ DurableLog' = DurableLog
    BY <2>1, <1>same
  <2>3. LogState(h, s)'
    <3>1. \A i \in 1..h.count : fate'[diskRec[i]] = fate[diskRec[i]]
      BY <1>t, <1>c, <1>e, <2>1 DEF TypeOK
    <3>2. Pending(h, s)' => Pending(h, s) /\ rec'[h.count + 1] = rec[h.count + 1]
      <4>1. Pending(h, s)' => ~Quiet(h, s)
        BY <2>1 DEF Pending, Quiet
      <4>2. Pending(h, s) => header.count = h.count + 1
        BY <1>h, <2>1, <4>1 DEF CommitState, NextHeader, Pending, Quiet
      <4> QED BY <1>t, <1>c, <1>h, <2>1, <4>1, <4>2 DEF TypeOK
    <3>3. Pending(h, s) => rec[h.count + 1] \in Ids
                           /\ fate[rec[h.count + 1]] = "lost"
                           /\ fate'[rec[h.count + 1]] = "lost"
      BY <1>t, <1>l, <2>1 DEF LogState, TypeOK, Pending, Durable
    <3> QED BY <1>l, <2>1, <3>1, <3>2, <3>3 DEF LogState
  <2>4. Log!Submit(c)
    BY <1>busy, <2>1, <2>2 DEF Log!Fresh, Log!Submit, Working
  <2> QED BY <2>2, <2>3, <2>4 DEF Log!LogNext
<1>3. CASE SyncRecord
  <2>1. /\ UNCHANGED <<fate, rec>> /\ dirtySlots' = {} /\ pc = "syncRecord"
        /\ \A u \in Slot : diskSlot'[u] = IF u \in dirtySlots THEN slot[u]
                                                              ELSE diskSlot[u]
        /\ \A i \in Ids : diskRec'[i] = IF i \in dirtyRecs THEN rec[i]
                                                           ELSE diskRec[i]
    BY <1>3 DEF SyncRecord, SyncOk
  <2>2. \A i \in 1..h.count : diskRec'[i] = diskRec[i]
    BY <1>c, <1>e, <2>1
  <2>3. CASE Quiet(h, s)
    <3>1. DiskPoint(diskSlot', h, s)
      BY <1>c, <1>h, <2>1, <2>3 DEF DiskPoint, Quiet, Committed, Older
    <3>2. g = h /\ t = s /\ DurableLog' = DurableLog
      BY <2>2, <3>1, <1>same
    <3>3. LogState(h, s)'
      BY <1>l, <2>1, <2>2 DEF LogState, Pending
    <3> QED BY <1>v, <2>1, <3>2, <3>3
  <2>4. CASE Pending(h, s)
    <3>1. diskSlot'[1 - s] = n /\ diskSlot'[s] = h /\ diskRec'[h.count + 1] = b
      BY <1>c, <1>h, <2>1, <2>4 DEF Pending, Committed, Durable, n, b
    <3>2. /\ g = n /\ t = 1 - s /\ b \in Ids /\ n.count = h.count + 1
          /\ DurableLog' = Append(DurableLog, b)
      BY <2>2, <2>4, <3>1, <1>more
    <3>3. fate[b] = "lost" /\ \A i \in 1..h.count : diskRec[i] < b
      BY <1>l, <2>1, <2>4 DEF LogState, b
    <3>4. LogState(n, 1 - s)'
      <4>1. ~Pending(n, 1 - s)'
        BY <2>1 DEF Pending
      <4>2. \A i \in 1..n.count : i \in 1..h.count \/ i = h.count + 1
        BY <1>h, <3>2
      <4>3. \A i \in 1..h.count : /\ diskRec'[i] = diskRec[i] /\ diskRec[i] < b
                                  /\ fate'[diskRec[i]] \in {"acked", "lost"}
        BY <1>l, <2>1, <2>2, <3>3 DEF LogState
      <4>4. diskRec'[h.count + 1] = b /\ fate'[b] = "lost"
        BY <2>1, <3>1, <3>3
      <4>5. \A i \in 1..n.count : fate'[diskRec'[i]] \in {"acked", "lost"}
        BY <4>2, <4>3, <4>4
      <4>6. ASSUME NEW i \in 1..n.count, NEW j \in 1..n.count, i < j
            PROVE  diskRec'[i] < diskRec'[j]
        <5>1. i \in 1..h.count
          BY <1>h, <3>2, <4>6
        <5>2. CASE j \in 1..h.count
          BY <1>l, <4>3, <4>6, <5>1, <5>2 DEF LogState
        <5>3. CASE j = h.count + 1
          BY <4>3, <4>4, <5>1, <5>3
        <5> QED BY <4>2, <5>2, <5>3
      <4> QED BY <4>1, <4>5, <4>6 DEF LogState
    <3>5. Log!Late
      BY <1>len, <2>1, <3>2, <3>3 DEF Log!Late, Log!Grow, Log!MayPersist
    <3> QED BY <3>2, <3>4, <3>5 DEF Log!LogNext
  <2> QED BY <1>c, <2>3, <2>4
<1>4. CASE WriteHeader
  <2>1. /\ UNCHANGED <<fate, rec, diskSlot, diskRec>> /\ pc = "writeHeader"
        /\ pc' = "syncHeader"
    BY <1>4 DEF WriteHeader
  <2>2. g = h /\ t = s /\ DurableLog' = DurableLog
    BY <2>1, <1>same
  <2>3. cur \in Ids /\ fate[cur] = "busy" /\ rec[h.count + 1] = cur
    BY <1>t, <2>1 DEF Counts, OrderInv, Working, CommitState
  <2>4. \A i \in 1..h.count : diskRec[i] < cur
    <3>1. \A c \in Ids : fate[c] # "none" => c <= cur
      BY <2>1 DEF OrderInv, Working
    <3>2. \A i \in 1..h.count : diskRec[i] # cur
      BY <1>apart, <2>3
    <3>3. \A i \in 1..h.count : fate[diskRec[i]] # "none"
      BY <1>e
    <3> SUFFICES ASSUME NEW i \in 1..h.count PROVE diskRec[i] < cur
      OBVIOUS
    <3>4. diskRec[i] \in Ids /\ diskRec[i] <= cur /\ diskRec[i] # cur
      BY <1>c, <3>1, <3>2, <3>3
    <3>5. diskRec[i] \in Int /\ cur \in Int
      BY <2>3, <3>4 DEF Ids
    <3> QED BY <3>4, <3>5
  <2>5. LogState(h, s)'
    BY <1>l, <2>1, <2>3, <2>4 DEF LogState
  <2> QED BY <1>v, <2>1, <2>2, <2>5
<1>5. CASE SyncHeader
  <2>1. /\ fate' = [fate EXCEPT ![cur] = "acked"] /\ rec' = rec
        /\ dirtySlots' = {} /\ pc = "syncHeader"
        /\ \A u \in Slot : diskSlot'[u] = IF u \in dirtySlots THEN slot[u]
                                                              ELSE diskSlot[u]
        /\ \A i \in Ids : diskRec'[i] = IF i \in dirtyRecs THEN rec[i]
                                                           ELSE diskRec[i]
    BY <1>5 DEF SyncHeader, SyncOk
  <2>2. Pending(h, s) /\ b = cur /\ cur \in Ids /\ fate[cur] = "busy"
    BY <1>t, <2>1 DEF CommitState, Counts, OrderInv, Working, b
  <2>3. \A i \in 1..h.count : diskRec'[i] = diskRec[i]
    BY <1>c, <1>e, <2>1
  <2>4. diskSlot'[1 - s] = n /\ diskSlot'[s] = h /\ diskRec'[h.count + 1] = b
    BY <1>c, <1>h, <2>1, <2>2 DEF Pending, Committed, Durable, n, b
  <2>5. /\ g = n /\ t = 1 - s /\ n.count = h.count + 1
        /\ DurableLog' = Append(DurableLog, cur)
    BY <2>2, <2>3, <2>4, <1>more
  <2>6. \A i \in 1..h.count : diskRec[i] < cur
    BY <1>l, <2>2 DEF LogState, b
  <2>7. LogState(n, 1 - s)'
    <3>1. ~Pending(n, 1 - s)'
      BY <2>1 DEF Pending
    <3>2. \A i \in 1..n.count : i \in 1..h.count \/ i = h.count + 1
      BY <1>h, <2>5
    <3>3. \A i \in 1..h.count : fate'[diskRec[i]] = fate[diskRec[i]]
      BY <1>t, <1>c, <1>apart, <2>1, <2>2 DEF TypeOK
    <3>4. fate'[cur] = "acked"
      BY <1>t, <2>1, <2>2 DEF TypeOK
    <3> QED BY <1>t, <1>h, <1>l, <1>c, <2>2, <2>3, <2>4, <2>5, <2>6, <3>1, <3>2,
               <3>3, <3>4 DEF LogState
  <2>8. Log!Ack(cur)
    BY <1>len, <2>1, <2>2, <2>5, <2>6 DEF Log!Ack, Log!MayPersist
  <2> QED BY <2>2, <2>5, <2>7, <2>8 DEF Log!LogNext
\* Whoever was in flight is lost.
<1>lost. ASSUME Closed
         PROVE  /\ \A c \in Ids : fate'[c] = IF fate[c] = "busy" THEN "lost"
                                                                  ELSE fate[c]
                /\ \/ fate' = fate
                   \/ cur \in Ids /\ fate[cur] = "busy"
                      /\ fate' = [fate EXCEPT ![cur] = "lost"]
  <2>1. fate' = [c \in Ids |-> IF fate[c] = "busy" THEN "lost" ELSE fate[c]]
    BY <1>lost DEF Closed
  <2>2. CASE \E c \in Ids : fate[c] = "busy"
    <3>1. cur \in Ids /\ fate[cur] = "busy"
      BY <1>busy, <2>2
    <3>2. fate' = [fate EXCEPT ![cur] = "lost"]
      BY <1>t, <1>busy, <2>1, <3>1 DEF TypeOK
    <3> QED BY <2>1, <3>1, <3>2
  <2>3. CASE \A c \in Ids : fate[c] # "busy"
    <3>1. fate' = fate
      BY <1>t, <2>1, <2>3 DEF TypeOK
    <3> QED BY <2>1, <3>1
  <2> QED BY <2>2, <2>3
<1>6. CASE Stop
  <2>1. Closed /\ UNCHANGED <<slot, rec, diskSlot, diskRec, dirtySlots, dirtyRecs>>
    BY <1>6 DEF Stop, fileVars
  <2>2. g = h /\ t = s /\ DurableLog' = DurableLog
    BY <2>1, <1>same
  <2>3. Pending(h, s)' => Pending(h, s) /\ rec[h.count + 1] \in Ids
    BY <1>c, <2>1 DEF Pending, Quiet, Durable
  <2>4. LogState(h, s)'
    <3>1. \A i \in 1..h.count : fate'[diskRec[i]] \in {"acked", "lost"}
      BY <1>c, <1>e, <1>lost, <2>1
    <3>2. Pending(h, s)' => fate'[rec[h.count + 1]] = "lost"
      BY <1>l, <1>lost, <2>1, <2>3 DEF LogState
    <3> QED BY <1>l, <2>1, <2>3, <3>1, <3>2 DEF LogState
  <2>5. fate' = fate \/ (cur \in Ids /\ Log!Lose(cur))
    BY <1>lost, <2>1, <2>2 DEF Log!Lose
  <2> QED BY <1>v, <2>2, <2>4, <2>5 DEF Log!LogNext
<1>7. CASE Open
  <2>1. UNCHANGED <<fate, slot, rec, diskSlot, diskRec, dirtySlots, dirtyRecs>>
        /\ pc = "closed"
    BY <1>7 DEF Open, fileVars
  <2>2. g = h /\ t = s /\ DurableLog' = DurableLog
    BY <2>1, <1>same
  <2>3. Pending(h, s)' => Pending(h, s)
    BY <1>c, <2>1 DEF Pending, Quiet
  <2>4. LogState(h, s)'
    BY <1>l, <2>1, <2>3 DEF LogState
  <2> QED BY <1>v, <2>1, <2>2, <2>4
<1>8. CASE Crash
  <2>1. /\ Closed /\ dirtySlots' = {}
        /\ \A u \in Slot : diskSlot'[u] \in {slot[u], diskSlot[u], Torn}
        /\ \A u \in Slot : u \notin dirtySlots => diskSlot'[u] = diskSlot[u]
        /\ \A i \in Ids : i \notin dirtyRecs => diskRec'[i] = diskRec[i]
    BY <1>8, SettledTypes DEF Crash
  <2>2. \A i \in 1..h.count : diskRec'[i] = diskRec[i]
    BY <1>c, <1>e, <2>1
  <2>3. diskSlot'[s] = h
    BY <1>c, <2>1 DEF Committed
  <2>4. CASE Older(diskSlot', 1 - s, h)
    <3>1. g = h /\ t = s /\ DurableLog' = DurableLog
      BY <1>c, <2>2, <2>3, <2>4, <1>same DEF DiskPoint
    <3>2. LogState(h, s)'
      <4>1. ~Pending(h, s)'
        BY <2>1 DEF Pending
      <4>2. \A i \in 1..h.count : fate'[diskRec[i]] \in {"acked", "lost"}
        BY <1>c, <1>e, <1>lost, <2>1
      <4> QED BY <1>l, <2>2, <4>1, <4>2 DEF LogState
    <3>3. fate' = fate \/ (cur \in Ids /\ Log!Lose(cur))
      BY <1>lost, <2>1, <3>1 DEF Log!Lose
    <3> QED BY <1>v, <3>1, <3>2, <3>3 DEF Log!LogNext
  <2>5. CASE ~Older(diskSlot', 1 - s, h)
    <3>1. Pending(h, s) /\ diskSlot'[1 - s] = n
      BY <1>c, <1>h, <2>1, <2>5 DEF Quiet, Pending, Committed, Older, n
    <3>2. diskRec'[h.count + 1] = b
      BY <2>1, <3>1 DEF Pending, Durable, b
    <3>3. /\ g = n /\ t = 1 - s /\ b \in Ids /\ n.count = h.count + 1
          /\ DurableLog' = Append(DurableLog, b)
      BY <2>2, <2>3, <3>1, <3>2, <1>more
    <3>4. fate[b] \in {"busy", "lost"} /\ \A i \in 1..h.count : diskRec[i] < b
      BY <1>l, <3>1 DEF LogState, b
    <3>5. LogState(n, 1 - s)'
      <4>1. ~Pending(n, 1 - s)'
        BY <2>1 DEF Pending
      <4>2. \A i \in 1..n.count : i \in 1..h.count \/ i = h.count + 1
        BY <1>h, <3>3
      <4>3. \A i \in 1..h.count : fate'[diskRec[i]] \in {"acked", "lost"}
        BY <1>c, <1>e, <1>lost, <2>1
      <4>4. fate'[b] = "lost"
        BY <1>lost, <2>1, <3>3, <3>4
      <4> QED BY <1>t, <1>h, <1>l, <1>c, <2>2, <3>2, <3>3, <3>4, <4>1, <4>2, <4>3,
                 <4>4 DEF LogState
    <3>6. Log!Grow
      BY <1>len, <3>3, <3>4 DEF Log!Grow, Log!MayPersist
    <3>7. fate' = fate \/ (cur \in Ids /\ Log!Lose(cur))
      BY <1>lost, <2>1, <3>6 DEF Log!Lose
    <3> QED BY <3>3, <3>5, <3>6, <3>7 DEF Log!LogNext, Log!Late
  <2> QED BY <2>4, <2>5
<1>9. ~SyncRecordFails /\ ~SyncHeaderFails /\ ~WriteHeaderFails
  BY <1>t DEF SyncRecordFails, SyncHeaderFails, SyncFails, WriteHeaderFails
<1> QED BY <1>1, <1>2, <1>3, <1>4, <1>5, <1>6, <1>7, <1>8, <1>9 DEF Next

LEMMA LogInvNext ==
  TypeInv /\ TypeInv' /\ CommitInv /\ CommitInv' /\ OrderInv /\ OrderInv' /\ LogInv
  /\ [Next]_vars
    => LogInv' /\ (commitErrs' = 0 => [Log!LogNext]_(Log!logVars))
<1> SUFFICES ASSUME TypeInv, TypeInv', CommitInv, CommitInv', OrderInv, OrderInv',
                    LogInv, [Next]_vars, commitErrs' = 0
             PROVE  LogInv' /\ [Log!LogNext]_(Log!logVars)
  BY DEF LogInv
<1>1. CASE UNCHANGED vars
  <2>1. LogInv'
    BY <1>1 DEF vars, fileVars, memVars, envVars, LogInv, LogState, CommitState,
                Quiet, Pending, Committed, Older, Durable, Acked
  <2>2. UNCHANGED Log!logVars
    BY <1>1 DEF vars, fileVars, Log!logVars, DurableLog
  <2> QED BY <2>1, <2>2
<1>2. CASE Next
  <2>1. commitErrs = 0
    BY <1>2 DEF TypeInv, TypeOK, Next, RefuseAppend, WriteRecord, WriteRecordFails,
       SyncRecord, SyncRecordFails, SyncFails, WriteHeader, WriteHeaderFails,
       SyncHeader, SyncHeaderFails, Stop, Crash, Open, envVars
  <2>2. PICK h \in Header, s \in Slot : CommitState(h, s)
    BY <2>1 DEF CommitInv
  <2>3. \E g \in Header, t \in Slot : CommitState(g, t)'
    BY DEF CommitInv
  <2>4. \A g \in Header, t \in Slot :
          CommitState(g, t)' => LogState(g, t)' /\ [Log!LogNext]_(Log!logVars)
    BY <1>2, <2>1, <2>2, LogStep
  <2>5. LogInv'
    BY <2>4 DEF LogInv
  <2> QED BY <2>3, <2>4, <2>5
<1> QED BY <1>1, <1>2

LEMMA LogInvInit == Init => OrderInv /\ LogInv /\ Log!LogInit
<1> SUFFICES ASSUME Init PROVE OrderInv /\ LogInv /\ Log!LogInit
  OBVIOUS
<1> USE DEF Init
<1>1. OrderInv
  BY DEF OrderInv, Working
<1>2. diskSlot = [s \in Slot |-> FirstHeader] /\ FirstHeader.count = 0
      /\ FirstHeader \in Header /\ diskSlot \in [Slot -> Header \cup {Torn}]
  BY VaultAssumption DEF FirstHeader, Header, Gen
<1>3. DiskPoint(diskSlot, FirstHeader, 1) /\ 1 \in Slot
  BY <1>2 DEF DiskPoint, Older, SlotOf, Slot, FirstHeader
<1>4. LogInv
  <2> SUFFICES ASSUME NEW h \in Header, NEW s \in Slot, CommitState(h, s)
               PROVE  LogState(h, s)
    BY DEF LogInv
  <2>1. Quiet(h, s) /\ h = FirstHeader
    BY DEF CommitState, Quiet, Pending, NextHeader, FirstHeader, Header
  <2>2. ~Pending(h, s)
    BY DEF Pending
  <2> QED BY <1>2, <2>1, <2>2 DEF LogState
<1>5. Log!LogInit
  <2>1. DurableLog = History(diskRec, FirstHeader)
    BY <1>2, <1>3, LogIs DEF DurableLog
  <2>2. History(diskRec, FirstHeader) = <<>>
    BY <1>2 DEF History
  <2> QED BY <2>1, <2>2 DEF Log!LogInit
<1> QED BY <1>1, <1>4, <1>5

\* As long as no header write and no sync fails, the vault implements the log
\* of VaultLog, whatever crashes, kills and failed record writes there are:
\* Ok only for a durable block, blocks in order, none dropped or changed, and
\* none whose append() returned Err.
THEOREM VaultIsALog == Spec => IsALog
<1>1. Init => TypeInv /\ CommitInv /\ OrderInv /\ LogInv /\ Log!LogInit
  BY TypeInvInit, CommitInvInit, LogInvInit
<1>2. TypeInv /\ [Next]_vars => TypeInv'
  BY TypeInvNext
<1>3. TypeInv /\ CommitInv /\ [Next]_vars => CommitInv'
  BY CommitInvNext
<1>4. TypeInv /\ OrderInv /\ [Next]_vars => OrderInv'
  BY OrderInvNext
<1>5. TypeInv /\ TypeInv' /\ CommitInv /\ CommitInv' /\ OrderInv /\ OrderInv'
      /\ LogInv /\ [Next]_vars
        => LogInv' /\ [commitErrs' = 0 => [Log!LogNext]_(Log!logVars)]_vars
  BY LogInvNext
<1>6. QED
  BY <1>1, <1>2, <1>3, <1>4, <1>5, PTL DEF Spec, IsALog

=============================================================================
