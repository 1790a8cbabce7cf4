------------------------------ MODULE VaultLog ------------------------------
(***************************************************************************)
(* What the encrypted vault promises its callers, without files, headers   *)
(* or generations: a durable, append-only, ordered log of blocks.          *)
(*                                                                         *)
(* `log' is the history a restart would recover right now.  `fate' says    *)
(* what the caller of append() was told about each block:                  *)
(*    "none"    not submitted yet                                          *)
(*    "busy"    append() is running                                        *)
(*    "acked"   append() returned Ok                                       *)
(*    "failed"  append() returned Err                                      *)
(*    "lost"    the process or the machine died inside append()            *)
(* Module Vault implements this specification.                             *)
(***************************************************************************)
EXTENDS Integers, Sequences

CONSTANT Ids   \* block identities, numbered in the order of submission

VARIABLES log, fate

logVars == <<log, fate>>

LogInit ==
  /\ log = <<>>
  /\ fate = [b \in Ids |-> "none"]

InLog(b) == \E i \in 1..Len(log) : log[i] = b

\* A block whose append() never returned may still become durable, but only
\* behind every block that already is: order is submission order.
MayPersist(b) ==
  /\ fate[b] \in {"busy", "lost"}
  /\ \A i \in 1..Len(log) : log[i] < b

Grow == \E b \in Ids : MayPersist(b) /\ log' = Append(log, b)

\* Blocks are submitted in order, one at a time.
Fresh(b) ==
  /\ fate[b] = "none"
  /\ \A c \in Ids : fate[c] # "busy"
  /\ \A c \in Ids : c < b => fate[c] # "none"

Submit(b) ==
  /\ Fresh(b)
  /\ fate' = [fate EXCEPT ![b] = "busy"]
  /\ UNCHANGED log

\* Ok is returned only for a block that is durable.
Ack(b) ==
  /\ fate[b] = "busy"
  /\ MayPersist(b)
  /\ log' = Append(log, b)
  /\ fate' = [fate EXCEPT ![b] = "acked"]

\* Err leaves the history as it was, and the block never shows up later.
Fail(b) ==
  /\ fate[b] = "busy" \/ Fresh(b)
  /\ ~InLog(b)
  /\ fate' = [fate EXCEPT ![b] = "failed"]
  /\ UNCHANGED log

\* A crash decides nothing about the block in flight, and touches no other.
Lose(b) ==
  /\ fate[b] = "busy"
  /\ fate' = [fate EXCEPT ![b] = "lost"]
  /\ UNCHANGED log \/ Grow

Late ==
  /\ Grow
  /\ UNCHANGED fate

LogNext ==
  \/ \E b \in Ids : Submit(b) \/ Ack(b) \/ Fail(b) \/ Lose(b)
  \/ Late

LogSpec == LogInit /\ [][LogNext]_logVars

=============================================================================
