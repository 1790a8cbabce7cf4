--------------------------- MODULE MCForwardGraph ---------------------------
(***************************************************************************)
(* A small model for TLC: a layer with its own K and V, per-layer          *)
(* embeddings and repacked weights, and one that shares the K and V of the *)
(* first.                                                                  *)
(***************************************************************************)
EXTENDS ForwardGraph

TwoLayers == <<[kv |-> TRUE, dual |-> FALSE, packed |-> TRUE, ple |-> TRUE],
               [kv |-> FALSE, dual |-> TRUE, packed |-> FALSE, ple |-> FALSE]>>
=============================================================================
