-------------------------- MODULE VaultOpenProofs --------------------------
(***************************************************************************)
(* Theorems about processes that start on one vault directory, for every   *)
(* set of processes and passphrases and every number of starts and blocks. *)
(***************************************************************************)
EXTENDS VaultOpen, TLAPS

USE DEF NeedsSalt, Free, Cell

\* What every action does to one process and the lock, for the case split.
Step(p) ==
  \/ \E pass \in Passes : Start(p, pass)
  \/ ReadSalt(p) \/ DrawSalt(p) \/ TruncateSalt(p) \/ WriteSalt(p)
  \/ NoBin(p) \/ CreateBin(p) \/ LockNew(p)
  \/ WriteFirstSlot(p) \/ WriteSecondSlot(p)
  \/ LockOld(p) \/ ReadOld(p)
  \/ WriteRecord(p) \/ WriteHeader(p)
  \/ End(p)

LEMMA NextSteps == Next <=> (\E p \in Procs : Step(p)) \/ WriteBack \/ PowerLoss
BY DEF Next, Step

-----------------------------------------------------------------------------
(* Type correctness                                                        *)

LEMMA TypeInit == Init => TypeOK
<1> SUFFICES ASSUME Init PROVE TypeOK
  OBVIOUS
<1> USE VaultOpenAssumption
<1>1. salt \in Salts \cup {Absent, Empty} /\ saltSynced \in BOOLEAN
  BY DEF Init, Salts, OldSalt
<1>2. OldKey \in Keys
  BY DEF OldKey, Keys, Salts, OldSalt
<1>3. bin \in [made : BOOLEAN, slots : [Slot -> Headers], recs : [Blocks -> Blocks \cup {None}]]
  <2>1. NoSlot \in Headers
    BY DEF NoSlot, Headers, NoKey, Keys
  <2>2. \A s \in Slot : [key |-> OldKey, count |-> 1 - s] \in Headers
    BY <1>2 DEF Headers, Slot
  <2>3. OldFile \in [made : BOOLEAN, slots : [Slot -> Headers], recs : [Blocks -> Blocks \cup {None}]]
    BY <2>2 DEF OldFile, Blocks
  <2>4. NoFile \in [made : BOOLEAN, slots : [Slot -> Headers], recs : [Blocks -> Blocks \cup {None}]]
    BY <2>1 DEF NoFile
  <2>5. QED
    BY <2>3, <2>4 DEF Init
<1>4. NoKey \in Keys
  BY DEF NoKey, Keys
<1>5. QED
  BY <1>1, <1>3, <1>4 DEF Init, TypeOK, Labels, HasLock

LEMMA TypeNext == TypeOK /\ [Next]_vars => TypeOK'
<1> SUFFICES ASSUME TypeOK, [Next]_vars PROVE TypeOK'
  OBVIOUS
<1> USE VaultOpenAssumption DEF TypeOK
<1> DEFINE File == [made : BOOLEAN, slots : [Slot -> Headers], recs : [Blocks -> Blocks \cup {None}]]
<1>k. NoKey \in Keys
  BY DEF NoKey, Keys
<1>l. /\ {"off", "salt", "newSalt", "writeSalt", "bin", "create", "lockNew"} \subseteq Labels
      /\ {"slot0", "slot1", "readOld", "open", "commit"} \subseteq Labels
  BY DEF Labels, HasLock
<1>1. ASSUME NEW p \in Procs, Step(p) PROVE TypeOK'
  <2> USE DEF Goto, counts
  <2>1. ASSUME NEW pass \in Passes, Start(p, pass) PROVE TypeOK'
    <3>1. <<pass, OldSalt + starts + 1>> \in Keys
      BY <2>1 DEF Start, OldSalt, Salts, Keys
    <3>2. starts' \in 0..MaxStarts
      BY <2>1 DEF Start
    <3>3. QED
      BY <2>1, <3>1, <3>2, <1>l DEF Start
  <2>2. CASE ReadSalt(p)
    <3>1. <<key[p][1], salt>> \in Keys
      BY <2>2 DEF ReadSalt, Keys
    <3>2. key' = [key EXCEPT ![p] = <<key[p][1], salt>>]
      BY <2>2 DEF ReadSalt
    <3>3. QED
      BY <2>2, <3>1, <3>2, <1>l DEF ReadSalt
  <2>3. CASE DrawSalt(p)
    BY <2>3, <1>l DEF DrawSalt
  <2>4. CASE TruncateSalt(p)
    BY <2>4, <1>l DEF TruncateSalt
  <2>5. CASE WriteSalt(p)
    <3>1. key[p][2] \in Salts \cup {Empty}
      BY DEF Keys
    <3>2. QED
      BY <2>5, <3>1, <1>l DEF WriteSalt
  <2>6. CASE NoBin(p)
    BY <2>6, <1>l DEF NoBin
  <2>7. CASE CreateBin(p)
    <3>1. NoFile \in File
      BY DEF NoFile, NoSlot, Headers, NoKey, Keys
    <3>2. EmptyFile \in File
      BY <3>1 DEF EmptyFile
    <3>3. QED
      BY <2>7, <3>2, <1>l DEF CreateBin
  <2>8. CASE LockNew(p)
    BY <2>8, <1>l DEF LockNew
  <2>9. ASSUME WriteFirstSlot(p) \/ WriteSecondSlot(p) PROVE TypeOK'
    <3>1. [key |-> key[p], count |-> 0] \in Headers
      BY DEF Headers
    <3>2. CASE WriteFirstSlot(p)
      <4>1. bin' \in File
        BY <3>1, <3>2 DEF WriteFirstSlot, Slot
      <4>2. QED
        BY <3>2, <4>1, <1>l DEF WriteFirstSlot
    <3>3. CASE WriteSecondSlot(p)
      <4>1. bin' \in File
        BY <3>1, <3>3 DEF WriteSecondSlot, Slot
      <4>2. QED
        BY <3>3, <4>1, <1>l DEF WriteSecondSlot
    <3>4. QED
      BY <2>9, <3>2, <3>3
  <2>10. CASE LockOld(p)
    BY <2>10, <1>l DEF LockOld
  <2>11. CASE ReadOld(p)
    <3>1. PICK s \in Slot : /\ Scans(bin.slots[s])
                            /\ index' = [index EXCEPT ![p] = History(bin.slots[s])]
      BY <2>11 DEF ReadOld
    <3>2. bin.slots[s].count \in 0..MaxBlocks
      BY DEF Headers
    <3>3. \A i \in 1..bin.slots[s].count : bin.recs[i] \in Blocks
      BY <3>1, <3>2 DEF Scans, Blocks
    <3>4. History(bin.slots[s]) \in Seq(Blocks) /\ Len(History(bin.slots[s])) <= MaxBlocks
      <4> DEFINE n == bin.slots[s].count
      <4>1. n \in Nat /\ n <= MaxBlocks
        BY <3>2
      <4>2. History(bin.slots[s]) \in [1..n -> Blocks]
        BY <3>3 DEF History
      <4> HIDE DEF n
      <4>3. QED
        BY <4>1, <4>2
    <3>5. \A q \in Procs : index'[q] \in Seq(Blocks) /\ Len(index'[q]) <= MaxBlocks
      BY <3>1, <3>4
    <3>6. QED
      BY <2>11, <3>1, <3>5, <1>l DEF ReadOld
  <2>12. CASE WriteRecord(p)
    <3>1. blocks' \in 0..MaxBlocks /\ blocks + 1 \in Blocks /\ Len(index[p]) + 1 \in Blocks
      BY <2>12 DEF WriteRecord, Blocks
    <3>2. bin' \in File
      BY <2>12, <3>1 DEF WriteRecord
    <3>3. Append(index[p], blocks + 1) \in Seq(Blocks)
      BY <3>1
    <3>4. index' \in [Procs -> Seq(Blocks)] /\ \A q \in Procs : Len(index'[q]) <= MaxBlocks
      BY <2>12, <3>3 DEF WriteRecord
    <3>5. QED
      BY <2>12, <3>1, <3>2, <3>4, <1>l DEF WriteRecord
  <2>13. CASE WriteHeader(p)
    <3> DEFINE c == Len(index[p])
    <3>1. c \in 0..MaxBlocks /\ SlotOf(c) \in Slot
      BY DEF SlotOf, Slot
    <3>2. [key |-> key[p], count |-> c] \in Headers
      BY <3>1 DEF Headers
    <3>3. bin' = [bin EXCEPT !.slots[SlotOf(c)] = [key |-> key[p], count |-> c]]
      BY <2>13 DEF WriteHeader
    <3>4. bin' \in File
      <4> HIDE DEF c
      <4>1. QED
        BY <3>1, <3>2, <3>3
    <3>5. QED
      BY <2>13, <3>4, <1>l DEF WriteHeader
  <2>14. CASE End(p)
    BY <2>14, <1>k, <1>l DEF End
  <2>15. QED
    BY <1>1, <2>1, <2>2, <2>3, <2>4, <2>5, <2>6, <2>7, <2>8, <2>9, <2>10, <2>11, <2>12, <2>13, <2>14
       DEF Step
<1>2. CASE WriteBack
  BY <1>2 DEF WriteBack, procVars, counts
<1>3. CASE PowerLoss
  BY <1>3, <1>k, <1>l DEF PowerLoss
<1>4. CASE UNCHANGED vars
  BY <1>4 DEF vars, procVars, counts
<1>5. QED
  BY <1>1, <1>2, <1>3, <1>4, NextSteps

\* The state always has the types the code gives it: in particular no header
\* counts more blocks, and no index is longer, than the file has records for.
THEOREM OpenTypeCorrect == Spec => []TypeOK
<1>1. TypeOK /\ [Next]_vars => TypeOK'
  BY TypeNext
<1>2. QED
  BY TypeInit, <1>1, PTL DEF Spec

-----------------------------------------------------------------------------
(* One writer.  The lock follows the control state exactly.                *)

LockInv == \A p \in Procs : pc[p] \in HasLock <=> holder = p

LEMMA LockInit == Init => LockInv
BY VaultOpenAssumption DEF Init, LockInv, HasLock

LEMMA LockNext == TypeOK /\ LockInv /\ [Next]_vars => LockInv'
<1> SUFFICES ASSUME TypeOK, LockInv, [Next]_vars PROVE LockInv'
  OBVIOUS
<1> USE VaultOpenAssumption DEF LockInv, HasLock
<1>t. pc \in [Procs -> Labels] /\ holder \in Procs \cup {None}
  BY DEF TypeOK
<1>1. ASSUME NEW p \in Procs, Step(p) PROVE LockInv'
  <2> USE <1>t DEF Goto
  <2>1. CASE (\E pass \in Passes : Start(p, pass)) \/ ReadSalt(p) \/ DrawSalt(p) \/ TruncateSalt(p)
             \/ WriteSalt(p) \/ NoBin(p) \/ CreateBin(p)
    BY <2>1 DEF Start, ReadSalt, DrawSalt, TruncateSalt, WriteSalt, NoBin, CreateBin
  <2>2. CASE LockNew(p) \/ LockOld(p)
    BY <2>2 DEF LockNew, LockOld
  <2>3. CASE WriteFirstSlot(p) \/ WriteSecondSlot(p) \/ ReadOld(p) \/ WriteRecord(p) \/ WriteHeader(p)
    BY <2>3 DEF WriteFirstSlot, WriteSecondSlot, ReadOld, WriteRecord, WriteHeader
  <2>4. CASE End(p)
    BY <2>4 DEF End
  <2>5. QED
    BY <1>1, <2>1, <2>2, <2>3, <2>4 DEF Step
<1>2. CASE WriteBack
  BY <1>2 DEF WriteBack, procVars
<1>3. CASE PowerLoss
  BY <1>3 DEF PowerLoss
<1>4. CASE UNCHANGED vars
  BY <1>4 DEF vars, procVars
<1>5. QED
  BY <1>1, <1>2, <1>3, <1>4, NextSteps

\* Two processes never have the vault open, or are reading or laying out its
\* headers, at the same time (the flock taken by create_new and open_existing),
\* whether the vault existed before or both of them are creating it.
THEOREM OpenOneWriter == Spec => []OneWriter
<1>1. TypeOK /\ LockInv /\ [Next]_vars => TypeOK' /\ LockInv'
  BY TypeNext, LockNext
<1>2. LockInv => OneWriter
  BY DEF LockInv, OneWriter
<1>3. QED
  BY TypeInit, LockInit, <1>1, <1>2, PTL DEF Spec

-----------------------------------------------------------------------------
(* A vault that exists.  Nobody reaches the code that creates one, so the  *)
(* file is what its committed blocks and the open process made it: the two *)
(* slots hold the last two counts under the owner's key, the records up to *)
(* the last count are blocks, and whoever has the vault open knows them.   *)

Calm == {"off", "salt", "bin", "readOld", "open", "commit"}

Knows(p, n) ==
  /\ key[p] = OldKey
  /\ Len(index[p]) = n
  /\ \A i \in 1..n : bin.recs[i] = index[p][i]

FileHolds(c) ==
  /\ bin.slots[SlotOf(c)] = [key |-> OldKey, count |-> c]
  /\ bin.slots[1 - SlotOf(c)] = [key |-> OldKey, count |-> c - 1]
  /\ \A i \in 1..c : bin.recs[i] \in Blocks
  /\ \A p \in Procs : /\ pc[p] = "open" => Knows(p, c)
                      /\ pc[p] = "commit" => Knows(p, c + 1)

OldInv ==
  /\ bin.made
  /\ salt = OldSalt
  /\ saltSynced
  /\ \A p \in Procs : pc[p] \in Calm
  /\ \E c \in 1..MaxBlocks : FileHolds(c)

LEMMA SlotsAlternate ==
  \A n \in Nat : /\ SlotOf(n) \in Slot
                 /\ 1 - SlotOf(n) \in Slot
                 /\ SlotOf(n) # 1 - SlotOf(n)
                 /\ \A s \in Slot : s = SlotOf(n) \/ s = 1 - SlotOf(n)
                 /\ SlotOf(n + 1) = 1 - SlotOf(n)
                 /\ 1 - SlotOf(n + 1) = SlotOf(n)
BY DEF SlotOf, Slot

LEMMA OldInit == ASSUME Existing PROVE Init => OldInv
<1> SUFFICES ASSUME Init PROVE OldInv
  OBVIOUS
<1> USE VaultOpenAssumption
<1>1. /\ bin = OldFile
      /\ salt = OldSalt
      /\ saltSynced
      /\ \A p \in Procs : pc[p] = "off"
  BY DEF Init
<1>2. SlotOf(1) = 0
  BY DEF SlotOf
<1>3. /\ bin.made
      /\ \A s \in Slot : bin.slots[s] = [key |-> OldKey, count |-> 1 - s]
      /\ \A i \in Blocks : bin.recs[i] = IF i = 1 THEN 1 ELSE None
  BY <1>1 DEF OldFile
<1>4. 1 \in Blocks
  BY DEF Blocks
<1>5. FileHolds(1)
  BY <1>1, <1>2, <1>3, <1>4 DEF FileHolds, Slot
<1>6. QED
  BY <1>1, <1>3, <1>5 DEF OldInv, Calm

\* What the slots say is one commit point: the last count.
LEMMA OneCommitPoint ==
  ASSUME TypeOK, NEW c \in 1..MaxBlocks, FileHolds(c), NEW h \in Headers, NEW k \in Keys
  PROVE  IsCommitPoint(h, k) <=> k = OldKey /\ h = [key |-> OldKey, count |-> c]
<1> USE VaultOpenAssumption, SlotsAlternate DEF FileHolds, IsCommitPoint
<1>1. \A s \in Slot : \/ bin.slots[s] = [key |-> OldKey, count |-> c]
                      \/ bin.slots[s] = [key |-> OldKey, count |-> c - 1]
  OBVIOUS
<1>2. SlotOf(c) \in Slot /\ bin.slots[SlotOf(c)] = [key |-> OldKey, count |-> c]
  OBVIOUS
<1>3. QED
  BY <1>1, <1>2

\* A step keeps the committed records and may add one.
Grown(c) ==
  /\ \E d \in 1..MaxBlocks : c <= d /\ FileHolds(d)'
  /\ \A i \in 1..c : bin'.recs[i] = bin.recs[i]

LEMMA OldStep ==
  ASSUME TypeOK, LockInv, OldInv, [Next]_vars, NEW c \in 1..MaxBlocks, FileHolds(c)
  PROVE  OldInv' /\ Grown(c)
<1> USE VaultOpenAssumption
<1>c. c \in 1..MaxBlocks /\ FileHolds(c)
  OBVIOUS
<1>t. /\ pc \in [Procs -> Labels]
      /\ key \in [Procs -> Keys]
      /\ index \in [Procs -> Seq(Blocks)]
      /\ \A q \in Procs : Len(index[q]) <= MaxBlocks
      /\ bin \in [made : BOOLEAN, slots : [Slot -> Headers], recs : [Blocks -> Blocks \cup {None}]]
      /\ blocks \in 0..MaxBlocks
  BY DEF TypeOK
<1>o. /\ bin.made /\ salt = OldSalt /\ saltSynced
      /\ \A q \in Procs : pc[q] \in Calm
  BY DEF OldInv
<1>n. OldSalt \in Salts /\ OldSalt # Absent /\ OldSalt # Empty
  BY DEF OldSalt, Salts, Absent, Empty
<1>1. ASSUME NEW p \in Procs, Step(p) PROVE OldInv' /\ Grown(c)
  <2> USE <1>t, <1>o DEF Goto, Calm
  <2>1. CASE (\E pass \in Passes : Start(p, pass)) \/ ReadSalt(p) \/ LockOld(p) \/ End(p)
    <3>1. /\ bin' = bin /\ salt' = salt /\ saltSynced' = saltSynced
          /\ pc' \in [Procs -> Labels]
          /\ pc'[p] \in {"off", "salt", "bin", "readOld"}
          /\ \A q \in Procs : q # p => pc'[q] = pc[q] /\ key'[q] = key[q] /\ index'[q] = index[q]
      BY <2>1 DEF Start, ReadSalt, LockOld, End, Labels, HasLock
    <3>2. FileHolds(c)'
      BY <1>c, <3>1 DEF FileHolds, Knows
    <3>3. \A q \in Procs : pc'[q] \in Calm
      BY <3>1
    <3>4. Grown(c)
      BY <1>c, <3>1, <3>2 DEF Grown
    <3>5. QED
      BY <1>c, <3>1, <3>2, <3>3, <3>4 DEF OldInv
  <2>2. CASE DrawSalt(p) \/ TruncateSalt(p) \/ WriteSalt(p) \/ NoBin(p) \/ CreateBin(p)
             \/ LockNew(p) \/ WriteFirstSlot(p) \/ WriteSecondSlot(p)
    BY <2>2, <1>n DEF DrawSalt, TruncateSalt, WriteSalt, NoBin, CreateBin, LockNew,
                      WriteFirstSlot, WriteSecondSlot
  <2>3. CASE ReadOld(p)
    <3>1. PICK s \in Slot : /\ IsCommitPoint(bin.slots[s], key[p])
                            /\ index' = [index EXCEPT ![p] = History(bin.slots[s])]
      BY <2>3 DEF ReadOld
    <3>2. bin.slots[s] \in Headers /\ key[p] \in Keys
      OBVIOUS
    <3>3. key[p] = OldKey /\ bin.slots[s].count = c
      BY <1>c, <3>1, <3>2, OneCommitPoint
    <3>4. index'[p] = [i \in 1..c |-> bin.recs[i]]
      BY <3>1, <3>3 DEF History
    <3>5. Knows(p, c)'
      BY <2>3, <3>3, <3>4 DEF Knows, ReadOld
    <3>6. /\ bin' = bin /\ salt' = salt /\ saltSynced' = saltSynced /\ key' = key
          /\ pc' = [pc EXCEPT ![p] = "open"]
          /\ \A q \in Procs : q # p => index'[q] = index[q]
      BY <2>3, <3>1 DEF ReadOld
    <3>7. FileHolds(c)'
      BY <1>c, <3>5, <3>6 DEF FileHolds, Knows
    <3>8. QED
      BY <3>6, <3>7 DEF OldInv, Grown
  <2>4. CASE WriteRecord(p)
    <3>1. /\ pc[p] = "open" /\ Knows(p, c) /\ c < MaxBlocks
          /\ blocks + 1 \in Blocks /\ c + 1 \in Blocks
      BY <1>c, <2>4 DEF WriteRecord, FileHolds, Knows, Blocks
    <3>2. /\ bin' = [bin EXCEPT !.recs[c + 1] = blocks + 1]
          /\ index'[p] = Append(index[p], blocks + 1)
          /\ pc' = [pc EXCEPT ![p] = "commit"]
          /\ salt' = salt /\ saltSynced' = saltSynced /\ key' = key
      BY <2>4, <3>1 DEF WriteRecord, Knows
    <3>3. /\ bin'.slots = bin.slots /\ bin'.made
          /\ \A i \in 1..c : bin'.recs[i] = bin.recs[i]
          /\ bin'.recs[c + 1] = blocks + 1
      BY <3>1, <3>2 DEF Blocks
    <3>4. Knows(p, c + 1)'
      BY <3>1, <3>2, <3>3 DEF Knows
    <3>5. \A q \in Procs : q # p => pc[q] \notin {"open", "commit"}
      BY <3>1 DEF LockInv, HasLock
    <3>6. FileHolds(c)'
      BY <1>c, <3>2, <3>3, <3>4, <3>5 DEF FileHolds
    <3>7. QED
      BY <3>2, <3>3, <3>6 DEF OldInv, Grown
  <2>5. CASE WriteHeader(p)
    <3>1. pc[p] = "commit" /\ Knows(p, c + 1) /\ c + 1 \in 1..MaxBlocks
      BY <1>c, <2>5 DEF WriteHeader, FileHolds, Knows
    <3>2. /\ bin' = [bin EXCEPT !.slots[SlotOf(c + 1)] = [key |-> OldKey, count |-> c + 1]]
          /\ pc' = [pc EXCEPT ![p] = "open"]
          /\ salt' = salt /\ saltSynced' = saltSynced /\ key' = key /\ index' = index
      BY <2>5, <3>1 DEF WriteHeader, Knows
    <3>3. /\ bin'.recs = bin.recs /\ bin'.made
          /\ bin'.slots[SlotOf(c + 1)] = [key |-> OldKey, count |-> c + 1]
          /\ bin'.slots[1 - SlotOf(c + 1)] = [key |-> OldKey, count |-> c]
      <4>1. /\ bin.slots \in [Slot -> Headers] /\ SlotOf(c) \in Slot /\ SlotOf(c + 1) \in Slot
            /\ SlotOf(c) # SlotOf(c + 1) /\ 1 - SlotOf(c + 1) = SlotOf(c)
        BY SlotsAlternate
      <4>2. bin.slots[SlotOf(c)] = [key |-> OldKey, count |-> c]
        BY <1>c DEF FileHolds
      <4>3. QED
        BY <3>2, <4>1, <4>2
    <3>4. \A i \in 1..(c + 1) : bin'.recs[i] \in Blocks
      <4>1. \A i \in 1..(c + 1) : index[p][i] \in Blocks
        BY <3>1 DEF Knows
      <4>2. QED
        BY <3>1, <3>3, <4>1 DEF Knows
    <3>5. \A q \in Procs : q # p => pc[q] \notin {"open", "commit"}
      BY <3>1 DEF LockInv, HasLock
    <3>6. Knows(p, c + 1)'
      BY <3>1, <3>2, <3>3 DEF Knows
    <3>7. FileHolds(c + 1)'
      <4>1. (c + 1) - 1 = c
        OBVIOUS
      <4>2. QED
        BY <3>2, <3>3, <3>4, <3>5, <3>6, <4>1 DEF FileHolds
    <3>8. QED
      BY <3>1, <3>2, <3>3, <3>7 DEF OldInv, Grown
  <2>6. QED
    BY <1>1, <2>1, <2>2, <2>3, <2>4, <2>5 DEF Step
<1>2. CASE WriteBack
  BY <1>2, <1>o DEF WriteBack
<1>3. CASE PowerLoss
  <3>1. /\ bin' = bin /\ salt' = salt /\ saltSynced'
        /\ \A q \in Procs : pc'[q] = "off"
    BY <1>3, <1>o DEF PowerLoss
  <3>2. FileHolds(c)'
    BY <1>c, <3>1 DEF FileHolds
  <3>3. QED
    BY <1>o, <3>1, <3>2 DEF OldInv, Grown, Calm
<1>4. CASE UNCHANGED vars
  <2>1. /\ bin' = bin /\ salt' = salt /\ saltSynced' = saltSynced
        /\ pc' = pc /\ key' = key /\ index' = index
    BY <1>4 DEF vars, procVars
  <2>2. FileHolds(c)'
    BY <1>c, <2>1 DEF FileHolds, Knows
  <2>3. QED
    BY <1>c, <1>o, <2>1, <2>2 DEF OldInv, Grown
<1>5. QED
  BY <1>1, <1>2, <1>3, <1>4, NextSteps

LEMMA OldNext == TypeOK /\ LockInv /\ OldInv /\ [Next]_vars => OldInv'
<1> SUFFICES ASSUME TypeOK, LockInv, OldInv, [Next]_vars PROVE OldInv'
  OBVIOUS
<1>1. PICK c \in 1..MaxBlocks : FileHolds(c)
  BY DEF OldInv
<1>2. QED
  BY <1>1, OldStep

LEMMA OldInvUndisturbed == TypeOK /\ OldInv => Undisturbed
<1> SUFFICES ASSUME TypeOK, OldInv, NEW p \in Procs, pc[p] = "open"
             PROVE  /\ IsCommitPoint([key |-> key[p], count |-> Len(index[p])], key[p])
                    /\ \A i \in 1..Len(index[p]) : bin.recs[i] = index[p][i]
  BY DEF Undisturbed
<1>1. PICK c \in 1..MaxBlocks : FileHolds(c)
  BY DEF OldInv
<1>2. Knows(p, c)
  BY <1>1 DEF FileHolds
<1>3. [key |-> OldKey, count |-> c] \in Headers /\ OldKey \in Keys
  BY VaultOpenAssumption DEF Headers, OldKey, Keys, OldSalt, Salts
<1>4. IsCommitPoint([key |-> OldKey, count |-> c], OldKey)
  BY <1>1, <1>3, OneCommitPoint
<1>5. QED
  BY <1>2, <1>4 DEF Knows

\* A vault that exists is never disturbed under the process that has it open:
\* whatever other processes start, with whatever passphrase, and wherever they
\* or the machine are stopped, its newest header and every record behind it are
\* the ones its in-memory index describes (open_existing, flush_block).
THEOREM OldVaultUndisturbed == ASSUME Existing PROVE Spec => []Undisturbed
<1>1. TypeOK /\ LockInv /\ OldInv /\ [Next]_vars => TypeOK' /\ LockInv' /\ OldInv'
  BY TypeNext, LockNext, OldNext
<1>2. Init => TypeOK /\ LockInv /\ OldInv
  BY TypeInit, LockInit, OldInit
<1>3. QED
  BY <1>1, <1>2, OldInvUndisturbed, PTL DEF Spec

LEMMA CommittedIs ==
  ASSUME TypeOK, NEW c \in 1..MaxBlocks, FileHolds(c)
  PROVE  Committed = [i \in 1..c |-> bin.recs[i]]
<1>1. OldKey \in Keys
  BY VaultOpenAssumption DEF OldKey, Keys, OldSalt, Salts
<1>2. ASSUME NEW d \in 0..MaxBlocks
      PROVE  IsCommitPoint([key |-> OldKey, count |-> d], OldKey) <=> d = c
  <2>1. [key |-> OldKey, count |-> d] \in Headers
    BY <1>1 DEF Headers
  <2>2. [key |-> OldKey, count |-> d] = [key |-> OldKey, count |-> c] <=> d = c
    OBVIOUS
  <2>3. QED
    BY <1>1, <2>1, <2>2, OneCommitPoint
<1>3. c \in 0..MaxBlocks
  BY VaultOpenAssumption
<1>4. (CHOOSE d \in 0..MaxBlocks : IsCommitPoint([key |-> OldKey, count |-> d], OldKey)) = c
  BY <1>2, <1>3
<1>5. \E d \in 0..MaxBlocks : IsCommitPoint([key |-> OldKey, count |-> d], OldKey)
  BY <1>2, <1>3
<1>6. QED
  BY <1>4, <1>5 DEF Committed

\* The committed history of a vault that exists only ever grows by blocks added
\* at its end: two processes never append at the same offset, and no start, kill
\* or power loss drops or changes a committed block (open_with, flush_block).
THEOREM OldVaultOnlyGrows == ASSUME Existing PROVE Spec => OldVaultGrows
<1>1. TypeOK /\ LockInv /\ OldInv /\ [Next]_vars => TypeOK' /\ LockInv' /\ OldInv'
  BY TypeNext, LockNext, OldNext
<1>2. Init => TypeOK /\ LockInv /\ OldInv
  BY TypeInit, LockInit, OldInit
<1> DEFINE Known == \A c \in 1..MaxBlocks : TypeOK /\ FileHolds(c) =>
                     Committed = [i \in 1..c |-> bin.recs[i]]
<1>k. Known
  BY CommittedIs
<1>l. Known'
  BY <1>k, PTL
<1>3. TypeOK /\ LockInv /\ OldInv /\ [Next]_vars => [Extends(Committed', Committed)]_vars
  <2> SUFFICES ASSUME TypeOK, LockInv, OldInv, [Next]_vars PROVE Extends(Committed', Committed)
    OBVIOUS
  <2>1. PICK c \in 1..MaxBlocks : FileHolds(c)
    BY DEF OldInv
  <2>2. Grown(c) /\ TypeOK'
    BY <2>1, OldStep, TypeNext
  <2>3. PICK d \in 1..MaxBlocks : c <= d /\ FileHolds(d)'
    BY <2>2 DEF Grown
  <2>4. Committed = [i \in 1..c |-> bin.recs[i]]
    BY <2>1, CommittedIs
  <2>5. Committed' = [i \in 1..d |-> bin'.recs[i]]
    BY <2>2, <2>3, <1>l
  <2>6. QED
    BY <2>2, <2>3, <2>4, <2>5, VaultOpenAssumption DEF Grown, Extends
<1>4. QED
  BY <1>1, <1>2, <1>3, PTL DEF Spec, OldVaultGrows

-----------------------------------------------------------------------------
(* The salt.  Of a vault that exists it never changes.  Of one that is     *)
(* still to be made, one process at a time draws it before there is a      *)
(* vault.bin, and every later start derives its key from it.               *)

\* The salt of a vault that exists stays the one its headers' key was derived
\* from, whatever starts, stops or loses power (load_or_create_salt).
THEOREM OldSaltKept == ASSUME Existing PROVE Spec => []SaltKept
<1>1. TypeOK /\ LockInv /\ OldInv /\ [Next]_vars => TypeOK' /\ LockInv' /\ OldInv'
  BY TypeNext, LockNext, OldNext
<1>2. Init => TypeOK /\ LockInv /\ OldInv
  BY TypeInit, LockInit, OldInit
<1>3. OldInv => SaltKept
  <2> SUFFICES ASSUME OldInv, NEW s \in Slot PROVE salt = bin.slots[s].key[2]
    BY DEF SaltKept
  <2>1. PICK c \in 1..MaxBlocks : FileHolds(c)
    BY DEF OldInv
  <2>2. s = SlotOf(c) \/ s = 1 - SlotOf(c)
    BY VaultOpenAssumption, SlotsAlternate
  <2>3. bin.slots[s].key = OldKey
    BY <2>1, <2>2 DEF FileHolds
  <2>4. QED
    BY <2>3 DEF OldInv, OldKey
<1>4. QED
  BY <1>1, <1>2, <1>3, PTL DEF Spec

\* Where a process holds the salt it found or drew, and where its key is final.
Salted == {"salt", "newSalt", "writeSalt"}
Keyed == Labels \ (Salted \cup {"off"})

NewInv ==
  /\ SaltKept
  /\ bin.made => salt \in Salts
  /\ ~bin.made => \A s \in Slot : bin.slots[s].count = 0
  /\ \A p, q \in Procs : pc[p] # "off" /\ pc[q] # "off" => p = q
  /\ \A p \in Procs :
       /\ pc[p] \in Salted => key[p][2] \in Salts
       /\ pc[p] = "newSalt" => salt = Absent
       /\ pc[p] = "writeSalt" => salt = Empty
       /\ pc[p] \in Keyed => salt \in Salts /\ key[p][2] = salt
       /\ pc[p] \in HasLock \cup {"lockNew"} => bin.made

LEMMA NewInit == ASSUME ~Existing PROVE Init => NewInv
BY VaultOpenAssumption
   DEF Init, NewInv, SaltKept, NoFile, NoSlot, Salted, Keyed, Slot, HasLock

LEMMA NewNext == TypeOK /\ NewInv /\ [Next /\ Alone]_vars => NewInv'
<1> SUFFICES ASSUME TypeOK, NewInv, [Next /\ Alone]_vars PROVE NewInv'
  OBVIOUS
<1> USE VaultOpenAssumption
<1>t. /\ pc \in [Procs -> Labels]
      /\ key \in [Procs -> Keys]
      /\ bin \in [made : BOOLEAN, slots : [Slot -> Headers], recs : [Blocks -> Blocks \cup {None}]]
      /\ starts \in 0..MaxStarts
      /\ salt \in Salts \cup {Absent, Empty}
      /\ Absent \notin Salts /\ Empty \notin Salts /\ Absent # Empty
  BY DEF TypeOK, Salts, Absent, Empty
<1>1. ASSUME NEW p \in Procs, Step(p), Alone PROVE NewInv'
  <2> USE <1>t DEF Goto, Salted, Keyed, Labels, HasLock
  <2>o. \A q \in Procs : q # p /\ pc'[p] # "off" => pc'[q] = "off"
    BY <1>1 DEF Alone
  <2>s. ASSUME pc' = [pc EXCEPT ![p] = "off"] \/ pc'[p] # "off"
        PROVE  \A q, r \in Procs : pc'[q] # "off" /\ pc'[r] # "off" => q = r
    BY <1>1, <2>s DEF Alone
  <2>1. ASSUME NEW pass \in Passes, Start(p, pass) PROVE NewInv'
    <3>1. /\ bin' = bin /\ salt' = salt
          /\ pc' = [pc EXCEPT ![p] = "salt"]
          /\ key' = [key EXCEPT ![p] = <<pass, OldSalt + starts + 1>>]
          /\ OldSalt + starts + 1 \in Salts
      BY <2>1 DEF Start, OldSalt, Salts
    <3>2. pc'[p] = "salt" /\ key'[p][2] \in Salts
      BY <3>1
    <3>3. QED
      BY <3>1, <3>2, <2>o, <2>s DEF NewInv, SaltKept
  <2>2. CASE ReadSalt(p)
    <3>1. /\ bin' = bin /\ salt' = salt /\ salt \in Salts
          /\ pc' = [pc EXCEPT ![p] = "bin"]
          /\ key' = [key EXCEPT ![p] = <<key[p][1], salt>>]
      BY <2>2 DEF ReadSalt
    <3>2. pc'[p] = "bin" /\ key'[p][2] = salt
      BY <3>1
    <3>3. QED
      BY <3>1, <3>2, <2>o, <2>s DEF NewInv, SaltKept
  <2>3. CASE DrawSalt(p)
    <3>1. /\ bin' = bin /\ salt' = salt /\ salt = Absent /\ key' = key
          /\ pc' = [pc EXCEPT ![p] = "newSalt"] /\ pc[p] = "salt"
      BY <2>3 DEF DrawSalt
    <3>2. QED
      BY <3>1, <2>o, <2>s DEF NewInv, SaltKept
  <2>4. CASE TruncateSalt(p)
    <3>1. /\ bin' = bin /\ salt' = Empty /\ pc[p] = "newSalt" /\ key' = key
          /\ pc' = [pc EXCEPT ![p] = "writeSalt"]
      BY <2>4 DEF TruncateSalt
    <3>2. ~bin.made
      BY <3>1 DEF NewInv
    <3>3. QED
      BY <3>1, <3>2, <2>o, <2>s DEF NewInv, SaltKept
  <2>5. CASE WriteSalt(p)
    <3>1. /\ bin' = bin /\ salt' = key[p][2] /\ pc[p] = "writeSalt" /\ key' = key
          /\ pc' = [pc EXCEPT ![p] = "bin"]
      BY <2>5 DEF WriteSalt
    <3>2. ~bin.made /\ key[p][2] \in Salts
      BY <3>1 DEF NewInv
    <3>3. QED
      BY <3>1, <3>2, <2>o, <2>s DEF NewInv, SaltKept
  <2>6. CASE CreateBin(p)
    <3>1. /\ bin' = EmptyFile /\ salt' = salt /\ pc[p] = "create" /\ key' = key
          /\ pc' = [pc EXCEPT ![p] = "lockNew"]
      BY <2>6 DEF CreateBin
    <3>2. bin'.made /\ \A s \in Slot : bin'.slots[s].count = 0
      BY <3>1 DEF EmptyFile, NoFile, NoSlot
    <3>3. QED
      BY <3>1, <3>2, <2>o, <2>s DEF NewInv, SaltKept
  <2>7. ASSUME NoBin(p) \/ LockNew(p) \/ LockOld(p) \/ ReadOld(p) PROVE NewInv'
    <3>1. /\ bin' = bin /\ salt' = salt /\ pc[p] \in Keyed /\ key' = key
          /\ pc'[p] \in Keyed
          /\ pc'[p] \in HasLock \cup {"lockNew"} => bin.made
      BY <2>7 DEF NoBin, LockNew, LockOld, ReadOld, NewInv
    <3>2. QED
      BY <3>1, <2>o, <2>s DEF NewInv, SaltKept
  <2>8. ASSUME WriteFirstSlot(p) \/ WriteSecondSlot(p) \/ WriteHeader(p) \/ WriteRecord(p) PROVE NewInv'
    <3>1. /\ salt' = salt /\ pc[p] \in HasLock /\ key' = key /\ pc'[p] \in Keyed
          /\ bin'.made = bin.made
      BY <2>8 DEF WriteFirstSlot, WriteSecondSlot, WriteHeader, WriteRecord
    <3>2. key[p][2] = salt /\ salt \in Salts /\ bin.made
      BY <3>1 DEF NewInv
    <3>3. \A s \in Slot : bin'.slots[s] = bin.slots[s] \/ bin'.slots[s].key = key[p]
      <4>1. CASE WriteFirstSlot(p)
        BY <4>1 DEF WriteFirstSlot, Slot
      <4>2. CASE WriteSecondSlot(p)
        BY <4>2 DEF WriteSecondSlot, Slot
      <4>3. CASE WriteHeader(p)
        BY <4>3 DEF WriteHeader
      <4>4. CASE WriteRecord(p)
        BY <4>4 DEF WriteRecord
      <4>5. QED
        BY <2>8, <4>1, <4>2, <4>3, <4>4
    <3>4. SaltKept'
      BY <3>1, <3>2, <3>3 DEF NewInv, SaltKept
    <3>5. QED
      BY <3>1, <3>2, <3>4, <2>o, <2>s DEF NewInv
  <2>9. CASE End(p)
    <3>1. /\ bin' = bin /\ salt' = salt
          /\ pc' = [pc EXCEPT ![p] = "off"] /\ key' = [key EXCEPT ![p] = NoKey]
      BY <2>9 DEF End
    <3>2. QED
      BY <3>1, <2>s DEF NewInv, SaltKept
  <2>10. QED
    BY <1>1, <2>1, <2>2, <2>3, <2>4, <2>5, <2>6, <2>7, <2>8, <2>9 DEF Step
<1>2. CASE WriteBack
  BY <1>2 DEF WriteBack, procVars, NewInv, SaltKept
<1>3. CASE PowerLoss /\ Alone
  BY <1>3, <1>t DEF PowerLoss, Alone, TypeOK
<1>4. CASE UNCHANGED vars
  BY <1>4 DEF vars, procVars, NewInv, SaltKept
<1>5. QED
  BY <1>1, <1>2, <1>3, <1>4, NextSteps

\* Of a vault that one process at a time makes and uses, every committed header
\* is under a key derived from the salt in vault.salt, wherever each process is
\* killed: no start writes a second salt over the first (load_or_create_salt).
THEOREM NewSaltKept == ASSUME ~Existing PROVE SoloSpec => []SaltKept
<1>1. TypeOK /\ NewInv /\ [Next /\ Alone]_vars => TypeOK' /\ NewInv'
  BY TypeNext, NewNext
<1>2. Init => TypeOK /\ NewInv
  BY TypeInit, NewInit
<1>3. NewInv => SaltKept
  BY DEF NewInv
<1>4. QED
  BY <1>1, <1>2, <1>3, PTL DEF SoloSpec

=============================================================================
