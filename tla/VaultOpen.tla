------------------------------ MODULE VaultOpen ------------------------------
(***************************************************************************)
(* Several Olorin processes (REPL, --serve, --whatsapp, a restart after a  *)
(* crash) start on one vault directory: Vault::open_with, the salt file of *)
(* storage/key.rs and the advisory lock of platform/lock.rs.               *)
(*                                                                         *)
(* Directory: `salt' is the content of vault.salt, `bin' is vault.bin.     *)
(* bin.slots holds the two headers, bin.recs the record behind each of the *)
(* offsets.  Without failed writes the generation of a header is its block *)
(* count plus one, so a header is the key its MAC verifies under and the   *)
(* count.  A key is a passphrase and a salt (Argon2id).  A block is its    *)
(* number in the order of all appends.                                     *)
(*                                                                         *)
(* The two files are created and never deleted, so a look at whether one   *)
(* exists that finds it is one step with the read or the open that follows *)
(* it.  A look that finds nothing is a step of its own.  What a machine    *)
(* crash leaves of a half-synced vault.bin is in module Vault; here only   *)
(* vault.salt, which nothing syncs, may lose its content.                  *)
(***************************************************************************)
EXTENDS Integers, Sequences

CONSTANTS
  Procs,        \* processes
  Passes,       \* passphrases a user types
  Owner,        \* the passphrase of the vault that exists at the start
  None,         \* no holder, no record
  Existing,     \* whether a vault is there at the start
  MaxStarts,    \* bound: process starts
  MaxBlocks,    \* bound: blocks appended
  MaxPowerLoss  \* bound: machine crashes

Absent == -1    \* no vault.salt
Empty == 0      \* vault.salt truncated, its bytes not written
Salts == 1..(MaxStarts + 1)
OldSalt == 1    \* the salt of the vault that exists at the start
Blocks == 1..MaxBlocks
Slot == {0, 1}

ASSUME VaultOpenAssumption ==
  /\ Owner \in Passes
  /\ None \notin Procs
  /\ None \notin Int
  /\ Existing \in BOOLEAN
  /\ MaxStarts \in Nat
  /\ MaxBlocks \in Nat \ {0}
  /\ MaxPowerLoss \in Nat

VARIABLES
  salt, saltSynced,  \* vault.salt, and whether its content is on the medium
  bin,               \* vault.bin
  holder,            \* who holds the file lock
  pc, key, index,    \* per process: where it is, its key, Vault.index
  starts, blocks, losses

procVars == <<pc, key, index>>
counts == <<starts, blocks, losses>>
vars == <<salt, saltSynced, bin, holder, procVars, counts>>

Keys == Passes \X (Salts \cup {Empty})
NoKey == <<Owner, Empty>>
OldKey == <<Owner, OldSalt>>
NoSlot == [key |-> NoKey, count |-> 0]
Headers == [key : Keys, count : 0..MaxBlocks]
SlotOf(count) == (count + 1) % 2

NoFile == [made |-> FALSE, slots |-> [s \in Slot |-> NoSlot],
           recs |-> [i \in Blocks |-> None]]
EmptyFile == [NoFile EXCEPT !.made = TRUE]
OldFile == [made |-> TRUE,
            slots |-> [s \in Slot |-> [key |-> OldKey, count |-> 1 - s]],
            recs |-> [i \in Blocks |-> IF i = 1 THEN 1 ELSE None]]

\* The commit point open_existing picks: the MAC-valid slot of the highest
\* generation.
IsCommitPoint(h, k) ==
  /\ \E s \in Slot : h = bin.slots[s]
  /\ h.key = k
  /\ \A s \in Slot : bin.slots[s].key = k => bin.slots[s].count <= h.count

\* Every record it counts is there.
Scans(h) == \A i \in 1..h.count : bin.recs[i] # None
History(h) == [i \in 1..h.count |-> bin.recs[i]]

Init ==
  /\ salt = IF Existing THEN OldSalt ELSE Absent
  /\ saltSynced = Existing
  /\ bin = IF Existing THEN OldFile ELSE NoFile
  /\ holder = None
  /\ pc = [p \in Procs |-> "off"]
  /\ key = [p \in Procs |-> NoKey]
  /\ index = [p \in Procs |-> <<>>]
  /\ starts = 0
  /\ blocks = IF Existing THEN 1 ELSE 0
  /\ losses = 0

\* path.exists() of the salt says no; flock succeeds; the data end of append.
AlwaysNew == TRUE
NeedsSalt == salt = Absent
NotAsked == TRUE
Free == holder = None
LastCell(ix) == Len(ix)
Cell(ix) == Len(ix) + 1

Goto(p, l) == pc' = [pc EXCEPT ![p] = l]

-----------------------------------------------------------------------------
(* open_vault and load_or_create_salt                                      *)

\* main asks for the passphrase and calls Vault::open.  The salt is the one
\* random::fill_bytes will give this start if it finds none.
Start(p, pass) ==
  /\ pc[p] = "off"
  /\ starts < MaxStarts
  /\ starts' = starts + 1
  /\ key' = [key EXCEPT ![p] = <<pass, OldSalt + starts + 1>>]
  /\ Goto(p, "salt")
  /\ UNCHANGED <<salt, saltSynced, bin, holder, index, blocks, losses>>

ReadSalt(p) ==
  /\ pc[p] = "salt"
  /\ salt \in Salts
  /\ key' = [key EXCEPT ![p] = <<@[1], salt>>]
  /\ Goto(p, "bin")
  /\ UNCHANGED <<salt, saltSynced, bin, holder, index, counts>>

DrawSalt(p) ==
  /\ pc[p] = "salt"
  /\ NeedsSalt
  /\ Goto(p, "newSalt")
  /\ UNCHANGED <<salt, saltSynced, bin, holder, key, index, counts>>

\* fs::write: open with truncation, then write.  No sync.
TruncateSalt(p) ==
  /\ pc[p] = "newSalt"
  /\ salt' = Empty
  /\ saltSynced' = FALSE
  /\ Goto(p, "writeSalt")
  /\ UNCHANGED <<bin, holder, key, index, counts>>

WriteSalt(p) ==
  /\ pc[p] = "writeSalt"
  /\ salt' = key[p][2]
  /\ saltSynced' = FALSE
  /\ Goto(p, "bin")
  /\ UNCHANGED <<bin, holder, key, index, counts>>

-----------------------------------------------------------------------------
(* create_new                                                              *)

NoBin(p) ==
  /\ pc[p] = "bin"
  /\ ~bin.made
  /\ Goto(p, "create")
  /\ UNCHANGED <<salt, saltSynced, bin, holder, key, index, counts>>

\* create(true).truncate(true), before the lock is asked for.
CreateBin(p) ==
  /\ pc[p] = "create"
  /\ bin' = EmptyFile
  /\ Goto(p, "lockNew")
  /\ UNCHANGED <<salt, saltSynced, holder, key, index, counts>>

LockNew(p) ==
  /\ pc[p] = "lockNew"
  /\ Free
  /\ holder' = p
  /\ Goto(p, "slot0")
  /\ UNCHANGED <<salt, saltSynced, bin, key, index, counts>>

WriteFirstSlot(p) ==
  /\ pc[p] = "slot0"
  /\ bin' = [bin EXCEPT !.slots[0] = [key |-> key[p], count |-> 0]]
  /\ Goto(p, "slot1")
  /\ UNCHANGED <<salt, saltSynced, holder, key, index, counts>>

WriteSecondSlot(p) ==
  /\ pc[p] = "slot1"
  /\ bin' = [bin EXCEPT !.slots[1] = [key |-> key[p], count |-> 0]]
  /\ Goto(p, "open")
  /\ UNCHANGED <<salt, saltSynced, holder, key, index, counts>>

-----------------------------------------------------------------------------
(* open_existing                                                           *)

LockOld(p) ==
  /\ pc[p] = "bin"
  /\ bin.made
  /\ Free
  /\ holder' = p
  /\ Goto(p, "readOld")
  /\ UNCHANGED <<salt, saltSynced, bin, key, index, counts>>

ReadOld(p) ==
  /\ pc[p] = "readOld"
  /\ \E s \in Slot :
       LET h == bin.slots[s] IN
       /\ IsCommitPoint(h, key[p])
       /\ Scans(h)
       /\ index' = [index EXCEPT ![p] = History(h)]
  /\ Goto(p, "open")
  /\ UNCHANGED <<salt, saltSynced, bin, holder, key, counts>>

-----------------------------------------------------------------------------
(* append, of the process that has the vault open                          *)

WriteRecord(p) ==
  /\ pc[p] = "open"
  /\ blocks < MaxBlocks
  /\ Len(index[p]) < MaxBlocks
  /\ blocks' = blocks + 1
  /\ bin' = [bin EXCEPT !.recs[Cell(index[p])] = blocks + 1]
  /\ index' = [index EXCEPT ![p] = Append(@, blocks + 1)]
  /\ Goto(p, "commit")
  /\ UNCHANGED <<salt, saltSynced, holder, key, starts, losses>>

WriteHeader(p) ==
  /\ pc[p] = "commit"
  /\ LET c == Len(index[p])
     IN bin' = [bin EXCEPT !.slots[SlotOf(c)] = [key |-> key[p], count |-> c]]
  /\ Goto(p, "open")
  /\ UNCHANGED <<salt, saltSynced, holder, key, index, counts>>

-----------------------------------------------------------------------------
(* Ends: an error of open (the vault is locked, the salt has the wrong     *)
(* length, no slot verifies, a record is missing), exit, or a kill at any  *)
(* point.  The lock goes with the process.                                 *)

End(p) ==
  /\ pc[p] # "off"
  /\ holder' = IF holder = p THEN None ELSE holder
  /\ key' = [key EXCEPT ![p] = NoKey]
  /\ index' = [index EXCEPT ![p] = <<>>]
  /\ Goto(p, "off")
  /\ UNCHANGED <<salt, saltSynced, bin, counts>>

\* The page cache is written back some time later.
WriteBack ==
  /\ ~saltSynced
  /\ saltSynced' = TRUE
  /\ UNCHANGED <<salt, bin, holder, procVars, counts>>

PowerLoss ==
  /\ losses < MaxPowerLoss
  /\ losses' = losses + 1
  /\ salt' \in IF saltSynced THEN {salt} ELSE {salt, Empty, Absent}
  /\ saltSynced' = TRUE
  /\ holder' = None
  /\ pc' = [p \in Procs |-> "off"]
  /\ key' = [p \in Procs |-> NoKey]
  /\ index' = [p \in Procs |-> <<>>]
  /\ UNCHANGED <<bin, starts, blocks>>

Next ==
  \/ \E p \in Procs :
       \/ \E pass \in Passes : Start(p, pass)
       \/ ReadSalt(p) \/ DrawSalt(p) \/ TruncateSalt(p) \/ WriteSalt(p)
       \/ NoBin(p) \/ CreateBin(p) \/ LockNew(p)
       \/ WriteFirstSlot(p) \/ WriteSecondSlot(p)
       \/ LockOld(p) \/ ReadOld(p)
       \/ WriteRecord(p) \/ WriteHeader(p)
       \/ End(p)
  \/ WriteBack \/ PowerLoss

Spec == Init /\ [][Next]_vars

\* A vault is made by one process at a time, without a power loss: two first
\* starts at once, and a salt that was not synced, are not guarded against.
Alone ==
  /\ \A p, q \in Procs : pc'[p] # "off" /\ pc'[q] # "off" => p = q
  /\ losses' = losses
SoloSpec == Init /\ [][Next /\ Alone]_vars

-----------------------------------------------------------------------------
(* Properties                                                              *)

HasLock == {"slot0", "slot1", "readOld", "open", "commit"}
Labels == HasLock \cup {"off", "salt", "newSalt", "writeSalt", "bin", "create", "lockNew"}

TypeOK ==
  /\ salt \in Salts \cup {Absent, Empty}
  /\ saltSynced \in BOOLEAN
  /\ bin \in [made : BOOLEAN, slots : [Slot -> Headers], recs : [Blocks -> Blocks \cup {None}]]
  /\ holder \in Procs \cup {None}
  /\ pc \in [Procs -> Labels]
  /\ key \in [Procs -> Keys]
  /\ index \in [Procs -> Seq(Blocks)]
  /\ \A p \in Procs : Len(index[p]) <= MaxBlocks
  /\ starts \in 0..MaxStarts
  /\ blocks \in 0..MaxBlocks
  /\ losses \in 0..MaxPowerLoss

\* Two processes never have the vault open together, whatever the order of
\* their looks, truncations and lock attempts.
OneWriter ==
  \A p, q \in Procs : pc[p] \in HasLock /\ pc[q] \in HasLock => p = q

\* What an open vault believes it holds is what its file holds: nobody
\* else's start has truncated or overwritten it.
Undisturbed ==
  \A p \in Procs : pc[p] = "open" =>
    /\ IsCommitPoint([key |-> key[p], count |-> Len(index[p])], key[p])
    /\ \A i \in 1..Len(index[p]) : bin.recs[i] = index[p][i]

\* The committed history of the vault that was there at the start only grows:
\* no start, wrong passphrase, kill, power loss or second process ever takes a
\* committed block away or changes it.
Committed ==
  LET Is(c) == IsCommitPoint([key |-> OldKey, count |-> c], OldKey) IN
  IF \E c \in 0..MaxBlocks : Is(c) THEN [i \in 1..(CHOOSE c \in 0..MaxBlocks : Is(c)) |-> bin.recs[i]] ELSE <<>>
Extends(new, old) ==
  /\ Len(old) <= Len(new)
  /\ \A i \in 1..Len(old) : new[i] = old[i]
OldVaultGrows == [][Extends(Committed', Committed)]_vars

\* A new vault: while somebody has it open or has committed a block, the salt
\* in vault.salt is the one its key was derived from, so that the next start
\* derives the same key (vault.rs:98-100).
SaltKept ==
  \A s \in Slot : bin.slots[s].count > 0 => salt = bin.slots[s].key[2]

=============================================================================
