-------------------------------- MODULE Vault --------------------------------
(***************************************************************************)
(* The encrypted vault of storage/vault.rs: one file that holds two header *)
(* slots and an append-only record log behind them, written by one process *)
(* (the file lock of module VaultOpen), that survives crashes.             *)
(*                                                                         *)
(* append() writes the record behind the committed ones and syncs, then    *)
(* bumps the header in memory, writes it to the slot its generation        *)
(* selects and syncs again.  open() takes the MAC-valid slot with the      *)
(* highest generation and scans as many records as it counts.              *)
(*                                                                         *)
(* Abstractions.  A record (index entry, ciphertext, tag) is one cell: it  *)
(* holds a whole block, which is what the length checks of the scan and    *)
(* the AEAD tag together establish, or it does not.  The data-end offset   *)
(* is the number of records, since the code bumps the two together.  A     *)
(* slot whose MAC does not verify is Torn.                                 *)
(*                                                                         *)
(* The operating system.  `slot' and `rec' are what the running system     *)
(* reads back (the page cache); `diskSlot' and `diskRec' are what is on    *)
(* the medium.  Dirty cells reach the medium at sync_data(), or partly, or *)
(* not at all, when the machine crashes.  A failed sync leaves each dirty  *)
(* cell old, new or torn on the medium and clean in the cache, as Linux    *)
(* does, so that a later sync does not write it again.                     *)
(***************************************************************************)
EXTENDS Integers, Sequences

CONSTANTS
  CountLimit,       \* block_count limit of flush_block (0x8000_0000)
  GenMod,           \* header_rewrites is a u32: 2^32
  Torn,             \* contents that fail the MAC, or a record cut short
  MaxAppends,       \* bound: calls of append
  MaxCrashes,       \* bound: machine crashes
  MaxRecordErrors,  \* bound: failed writes of a record
  MaxCommitErrors   \* bound: failed header writes and failed syncs

Ids == 1..MaxAppends
Slot == {0, 1}
Gen == 0..(GenMod - 1)
Header == [gen : Gen, count : 0..CountLimit]
Nothing == 0        \* a cell never written, and no block in flight

ASSUME VaultAssumption ==
  /\ CountLimit \in Nat \ {0}
  /\ GenMod \in Nat
  /\ CountLimit + 1 < GenMod
  /\ MaxAppends \in Nat
  /\ MaxCrashes \in Nat
  /\ MaxRecordErrors \in Nat
  /\ MaxCommitErrors \in Nat
  /\ Torn \notin Header
  /\ Torn \notin Int

VARIABLES
  slot, rec,              \* the file, as the running system reads it
  diskSlot, diskRec,      \* the file, as it is on the medium
  dirtySlots, dirtyRecs,  \* cells written and not yet synced
  pc,                     \* where the process is
  header,                 \* Vault.header
  index,                  \* Vault.index
  cur,                    \* the block append() is working on
  fate,                   \* what the caller was told about each block
  crashes, recordErrs, commitErrs

fileVars == <<slot, rec, diskSlot, diskRec, dirtySlots, dirtyRecs>>
memVars == <<pc, header, index, cur>>
envVars == <<crashes, recordErrs, commitErrs>>
vars == <<fileVars, memVars, fate, envVars>>

NoHeader == [gen |-> 0, count |-> 0]
FirstHeader == [gen |-> 1, count |-> 0]

\* commit_header's choice of the slot to overwrite.
FirstSlotOnly(gen) == 0
SlotOf(gen) == gen % 2

-----------------------------------------------------------------------------
(* What open_existing makes of a file.                                     *)

ValidSlots(sl) == {s \in Slot : sl[s] # Torn}

\* The MAC-valid header with the highest generation; a tie (a new vault)
\* has equal headers.
IsCommitPoint(sl, h) ==
  \E s \in ValidSlots(sl) :
    /\ h = sl[s]
    /\ \A t \in ValidSlots(sl) : sl[t].gen <= h.gen

Scans(rc, h) ==
  /\ h.count <= MaxAppends
  /\ \A i \in 1..h.count : rc[i] \in Ids

Opens(sl, rc, h) == IsCommitPoint(sl, h) /\ Scans(rc, h)

History(rc, h) == [i \in 1..h.count |-> rc[i]]

-----------------------------------------------------------------------------
(* create_new, up to its return: both slots hold generation 1, synced.     *)

Init ==
  /\ slot = [s \in Slot |-> FirstHeader]
  /\ rec = [i \in Ids |-> Nothing]
  /\ diskSlot = slot
  /\ diskRec = rec
  /\ dirtySlots = {}
  /\ dirtyRecs = {}
  /\ pc = "idle"
  /\ header = FirstHeader
  /\ index = <<>>
  /\ cur = Nothing
  /\ fate = [b \in Ids |-> "none"]
  /\ crashes = 0
  /\ recordErrs = 0
  /\ commitErrs = 0

-----------------------------------------------------------------------------
(* append and flush_block                                                  *)

NextBlock(b) ==
  /\ fate[b] = "none"
  /\ \A c \in Ids : c < b => fate[c] # "none"

\* The counter guard of flush_block.
HasRoom(h) == h.count < CountLimit

\* The data end, where the next record goes.
LastCell(h) == IF h.count = 0 THEN 1 ELSE h.count
Cell(h) == h.count + 1

\* With the counter exhausted append() returns Err before it touches anything.
RefuseAppend(b) ==
  /\ pc = "idle"
  /\ NextBlock(b)
  /\ ~HasRoom(header)
  /\ fate' = [fate EXCEPT ![b] = "failed"]
  /\ UNCHANGED <<fileVars, memVars, envVars>>

\* Seek to the data end and write the record there.
WriteRecord(b) ==
  /\ pc = "idle"
  /\ NextBlock(b)
  /\ HasRoom(header)
  /\ LET i == Cell(header) IN
       /\ rec' = [rec EXCEPT ![i] = b]
       /\ dirtyRecs' = dirtyRecs \cup {i}
  /\ pc' = "syncRecord"
  /\ cur' = b
  /\ fate' = [fate EXCEPT ![b] = "busy"]
  /\ UNCHANGED <<slot, diskSlot, diskRec, dirtySlots, header, index, envVars>>

\* One of the three write_all calls fails: append() returns Err with the
\* memory as it was, and part of the record may be in the file.
WriteRecordFails(b) ==
  /\ pc = "idle"
  /\ NextBlock(b)
  /\ HasRoom(header)
  /\ recordErrs < MaxRecordErrors
  /\ recordErrs' = recordErrs + 1
  /\ fate' = [fate EXCEPT ![b] = "failed"]
  /\ LET i == Cell(header) IN
       \/ /\ rec' = [rec EXCEPT ![i] = Torn]
          /\ dirtyRecs' = dirtyRecs \cup {i}
       \/ UNCHANGED <<rec, dirtyRecs>>
  /\ UNCHANGED <<slot, diskSlot, diskRec, dirtySlots, memVars, crashes, commitErrs>>

\* sync_data returns Ok: every dirty cell is on the medium.
SyncOk ==
  /\ diskSlot' = [s \in Slot |-> IF s \in dirtySlots THEN slot[s] ELSE diskSlot[s]]
  /\ diskRec' = [i \in Ids |-> IF i \in dirtyRecs THEN rec[i] ELSE diskRec[i]]
  /\ dirtySlots' = {}
  /\ dirtyRecs' = {}

\* What is on the medium after a crash or a failed sync: a dirty cell got
\* there, did not, or was cut short.
Reached(how, new, old) ==
  CASE how = "new" -> new [] how = "old" -> old [] how = "torn" -> Torn
Settled(cache, disk, dirty) ==
  {[c \in DOMAIN disk |-> IF c \in dirty THEN Reached(how[c], cache[c], disk[c])
                                         ELSE disk[c]] :
     how \in [dirty -> {"new", "old", "torn"}]}
SlotFates == Settled(slot, diskSlot, dirtySlots)
RecFates == Settled(rec, diskRec, dirtyRecs)

\* The sync between the record and the header that commits it.
NoBarrier == UNCHANGED <<diskSlot, diskRec, dirtySlots, dirtyRecs>>
RecordBarrier == SyncOk

\* After the barrier the index entry, the count and the data end, and the
\* generation, are bumped in memory.
SyncRecord ==
  /\ pc = "syncRecord"
  /\ RecordBarrier
  /\ index' = Append(index, cur)
  /\ header' = [gen |-> (header.gen + 1) % GenMod, count |-> header.count + 1]
  /\ pc' = "writeHeader"
  /\ UNCHANGED <<slot, rec, cur, fate, envVars>>

\* A sync that fails settles the dirty cells and append() returns Err.
SyncFails ==
  /\ commitErrs < MaxCommitErrors
  /\ commitErrs' = commitErrs + 1
  /\ diskSlot' \in SlotFates
  /\ diskRec' \in RecFates
  /\ dirtySlots' = {}
  /\ dirtyRecs' = {}
  /\ pc' = "idle"
  /\ cur' = Nothing
  /\ fate' = [fate EXCEPT ![cur] = "failed"]
  /\ UNCHANGED <<slot, rec, header, index, crashes, recordErrs>>

SyncRecordFails ==
  /\ pc = "syncRecord"
  /\ SyncFails

-----------------------------------------------------------------------------
(* commit_header                                                           *)

WriteHeader ==
  /\ pc = "writeHeader"
  /\ slot' = [slot EXCEPT ![SlotOf(header.gen)] = header]
  /\ dirtySlots' = dirtySlots \cup {SlotOf(header.gen)}
  /\ pc' = "syncHeader"
  /\ UNCHANGED <<rec, diskSlot, diskRec, dirtyRecs, header, index, cur, fate, envVars>>

\* The header write fails: append() returns Err, and the memory keeps the
\* index entry, the count and the generation it was given before.
WriteHeaderFails ==
  /\ pc = "writeHeader"
  /\ commitErrs < MaxCommitErrors
  /\ commitErrs' = commitErrs + 1
  /\ \/ /\ slot' = [slot EXCEPT ![SlotOf(header.gen)] = Torn]
        /\ dirtySlots' = dirtySlots \cup {SlotOf(header.gen)}
     \/ UNCHANGED <<slot, dirtySlots>>
  /\ pc' = "idle"
  /\ cur' = Nothing
  /\ fate' = [fate EXCEPT ![cur] = "failed"]
  /\ UNCHANGED <<rec, diskSlot, diskRec, dirtyRecs, header, index, crashes, recordErrs>>

SyncHeader ==
  /\ pc = "syncHeader"
  /\ SyncOk
  /\ pc' = "idle"
  /\ cur' = Nothing
  /\ fate' = [fate EXCEPT ![cur] = "acked"]
  /\ UNCHANGED <<slot, rec, header, index, envVars>>

SyncHeaderFails ==
  /\ pc = "syncHeader"
  /\ SyncFails

-----------------------------------------------------------------------------
(* The process ends, the machine crashes, the vault is opened again.       *)

Closed ==
  /\ pc # "closed"
  /\ pc' = "closed"
  /\ header' = NoHeader
  /\ index' = <<>>
  /\ cur' = Nothing
  /\ fate' = [b \in Ids |-> IF fate[b] = "busy" THEN "lost" ELSE fate[b]]

\* Drop, exit or kill: the page cache survives the process.
Stop ==
  /\ Closed
  /\ UNCHANGED <<fileVars, envVars>>

\* Power loss: what reads back is what reached the medium.
Crash ==
  /\ Closed
  /\ crashes < MaxCrashes
  /\ crashes' = crashes + 1
  /\ diskSlot' \in SlotFates
  /\ diskRec' \in RecFates
  /\ slot' = diskSlot'
  /\ rec' = diskRec'
  /\ dirtySlots' = {}
  /\ dirtyRecs' = {}
  /\ UNCHANGED <<recordErrs, commitErrs>>

\* open_existing: choose the commit point, rebuild the index from the records.
Open ==
  /\ pc = "closed"
  /\ \E s \in Slot :
       /\ slot[s] # Torn
       /\ Opens(slot, rec, slot[s])
       /\ header' = slot[s]
       /\ index' = History(rec, slot[s])
  /\ pc' = "idle"
  /\ UNCHANGED <<fileVars, cur, fate, envVars>>

Next ==
  \/ \E b \in Ids : RefuseAppend(b) \/ WriteRecord(b) \/ WriteRecordFails(b)
  \/ SyncRecord \/ SyncRecordFails
  \/ WriteHeader \/ WriteHeaderFails
  \/ SyncHeader \/ SyncHeaderFails
  \/ Stop \/ Crash \/ Open

Spec == Init /\ [][Next]_vars

-----------------------------------------------------------------------------
(* Properties                                                              *)

TypeOK ==
  /\ slot \in [Slot -> Header \cup {Torn}]
  /\ rec \in [Ids -> Ids \cup {Nothing, Torn}]
  /\ diskSlot \in [Slot -> Header \cup {Torn}]
  /\ diskRec \in [Ids -> Ids \cup {Nothing, Torn}]
  /\ dirtySlots \subseteq Slot
  /\ dirtyRecs \subseteq Ids
  /\ pc \in {"closed", "idle", "syncRecord", "writeHeader", "syncHeader"}
  /\ header \in Header
  /\ index \in Seq(Ids)
  /\ cur \in Ids \cup {Nothing}
  /\ fate \in [Ids -> {"none", "busy", "acked", "failed", "lost"}]
  /\ crashes \in 0..MaxCrashes
  /\ recordErrs \in 0..MaxRecordErrors
  /\ commitErrs \in 0..MaxCommitErrors

Acked == {b \in Ids : fate[b] = "acked"}

\* The vault opens from this file and shows every block append() said Ok for.
Recovers(sl, rc) ==
  /\ \E h \in Header : Opens(sl, rc, h)
  /\ \A h \in Header : IsCommitPoint(sl, h) =>
       /\ Scans(rc, h)
       /\ \A b \in Acked : \E i \in 1..h.count : rc[i] = b

\* As long as no header write and no sync was refused by the system, the
\* process may be killed and the machine may lose power at any point: the
\* vault opens again and no acknowledged block is missing.
CrashSafe ==
  commitErrs = 0 =>
    /\ Recovers(slot, rec)
    /\ \A sl \in SlotFates, rc \in RecFates : Recovers(sl, rc)

\* Whatever the system refused before, what the open vault believes it holds
\* is what the file gives back: decrypt_block and search find, for every index
\* entry, the block it was made for.
ReadsBack ==
  pc # "closed" =>
    /\ Len(index) = header.count
    /\ \A i \in 1..Len(index) : rec[i] = index[i]

\* vault.rs:57-60: "committing generation G to one slot always leaves G-1
\* intact in the other - a torn header write can never destroy the only valid
\* commit point".  After a header write or a sync that failed it can.
CommitPointSurvives ==
  \A sl \in SlotFates : ValidSlots(sl) # {}

\* The history that this file opens with, if it opens.
LogOn(sl, rc) ==
  LET points == {sl[s] : s \in {t \in ValidSlots(sl) : IsCommitPoint(sl, sl[t])}}
  IN IF points = {} THEN <<>> ELSE History(rc, CHOOSE h \in points : TRUE)

\* What a restart after a power loss would recover now, if nothing more
\* reaches the medium.
DurableLog == LogOn(diskSlot, diskRec)

Log == INSTANCE VaultLog WITH log <- DurableLog

\* As long as the system refuses no header write and no sync, the vault is a
\* durable, ordered, append-only log (VaultLog): Ok only for a durable block,
\* nothing committed is ever dropped or changed, and a block whose append()
\* returned Err never shows up.
IsALog ==
  /\ Log!LogInit
  /\ [][commitErrs' = 0 => [Log!LogNext]_(Log!logVars)]_vars

=============================================================================
