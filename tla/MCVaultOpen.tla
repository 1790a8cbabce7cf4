---------------------------- MODULE MCVaultOpen ----------------------------
(***************************************************************************)
(* A small instance of VaultOpen for TLC: a vault that is there at the     *)
(* start, with several processes, or one that is still to be made.         *)
(***************************************************************************)
EXTENDS VaultOpenProofs

\* Whether the vault is still to be made.
VARIABLE new

Unmade == INSTANCE VaultOpen WITH Existing <- FALSE

MCInit == (Init /\ new = FALSE) \/ (Unmade!Init /\ new = TRUE)
MCNext == Next /\ (new => Alone) /\ new' = new
MCSpec == MCInit /\ [][MCNext]_<<vars, new>>
=============================================================================
