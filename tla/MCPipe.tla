------------------------------- MODULE MCPipe -------------------------------
(* Pipe on a small instance: two ways to ask one question and another one. *)
EXTENDS Pipe

MCQuestions == {"q", "Q", "p"}

MCnorm == [t \in Commands \cup MCQuestions \cup {"files"} |-> IF t = "Q" THEN "q" ELSE t]

MCsim == [p \in MCQuestions \X MCQuestions |->
            IF p[1] = p[2] THEN 100 ELSE IF "p" \in {p[1], p[2]} THEN 40 ELSE 98]

\* Only "p" has more than a hundred characters.
MCcut == [t \in MCQuestions |-> IF t = "p" THEN "p..." ELSE MCnorm[t]]

MCBackends ==
  {[engine |-> TRUE, cloud |-> TRUE, strict |-> FALSE],
   [engine |-> FALSE, cloud |-> TRUE, strict |-> FALSE],
   [engine |-> FALSE, cloud |-> FALSE, strict |-> TRUE]}

Call == OpenTag \o <<"j">> \o CloseTag

\* Plain text, a call with text before it, a secret, a secret before a call,
\* and a call that is not closed.
MCOutputs ==
  {<<"a">>, <<"a">> \o Call, <<"s">>, <<"s">> \o Call, OpenTag \o <<"j">>}
=============================================================================
