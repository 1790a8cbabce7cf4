----------------------------- MODULE MCWatchers -----------------------------
(* The watchers, with a command that may hang before a webhook that may fail. *)
EXTENDS Watchers, TLC

MCSinks == <<"exec", "webhook">>
MCSymmetry == Permutations(Watcher)

=============================================================================
