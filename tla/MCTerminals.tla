---------------------------- MODULE MCTerminals ----------------------------
(* Terminals for TLC: what a command may write.                            *)
EXTENDS Terminals

MCPrograms == {<<"o", "o">>, <<"e", "o">>, <<"e", "e">>}
=============================================================================
