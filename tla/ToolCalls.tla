----------------------------- MODULE ToolCalls -----------------------------
(***************************************************************************)
(* The detector of <tool_call> ... </tool_call> in a model's output, and   *)
(* the loop that runs it over a finished text (core/tool_parse.rs).        *)
(*                                                                         *)
(* A text is a sequence of symbols.  A tag is three of them, the first of  *)
(* which occurs in no other place of a tag, as '<' does in the real ones:  *)
(* what the detector does depends on the tags by that alone.  "j" stands   *)
(* for a body that parses as a call, "s" for text that the outbound scan   *)
(* refuses, and anything else for plain text.  White space, which the      *)
(* detector trims from a body, is left out.                                *)
(***************************************************************************)
EXTENDS Naturals, FiniteSetsExt, SequencesExt

CONSTANT MaxCapture     \* symbols an unclosed call may hold (8192 bytes)

ASSUME MaxCaptureAssumption == MaxCapture \in Nat \ {0}

OpenTag  == <<"<", "t", ">">>
CloseTag == <<"<", "/", ">">>

-----------------------------------------------------------------------------
(* Searching.                                                              *)

Places(text, tag) ==
  {p \in 1 .. (Len(text) + 1 - Len(tag)) :
     SubSeq(text, p, p + Len(tag) - 1) = tag}

Has(text, tag) == Places(text, tag) # {}

Before(text, tag) == SubSeq(text, 1, Min(Places(text, tag)) - 1)

After(text, tag) == SubSeq(text, Min(Places(text, tag)) + Len(tag), Len(text))

\* How many of the last symbols of text may be the start of a tag.
PartialTag(text, tag) ==
  Max({0} \cup {n \in 1 .. Min({Len(text), Len(tag) - 1}) :
                  SubSeq(text, Len(text) - n + 1, Len(text)) = SubSeq(tag, 1, n)})

-----------------------------------------------------------------------------
(* One piece of text fed to the detector: the detector afterwards, and     *)
(* what it says.                                                           *)

NewDetector == [state |-> "normal", tag |-> <<>>, capture |-> <<>>,
                flush |-> <<>>]

Says(d, kind, text) == [det |-> d, kind |-> kind, text |-> text]

\* Text that is let through, or nothing yet.
TextOf(d, text) == Says(d, IF text = <<>> THEN "buffering" ELSE "text", text)

TryClose(d) ==
  IF Has(d.capture, CloseTag)
    THEN Says([d EXCEPT !.capture = <<>>, !.state = "normal"],
              "call", Before(d.capture, CloseTag))
    ELSE Says(d, "buffering", <<>>)

\* An opening tag was seen at the end of the text before it.
Opened(d, text) ==
  [d EXCEPT !.state = "capturing", !.capture = After(text, OpenTag),
            !.tag = <<>>, !.flush = <<>>]

\* A faulty FeedNormal: an empty piece is never an empty text.
FeedNormalBuffers(d, piece) ==
  LET text == d.flush \o piece
  IN  IF Has(text, OpenTag)
        THEN TextOf(Opened(d, text), Before(text, OpenTag))
        ELSE TextOf([d EXCEPT !.flush = <<>>], text)

FeedNormal(d, piece) ==
  LET text   == d.flush \o piece
      before == Before(text, OpenTag)
      closed == TryClose(Opened(d, text))
      held   == PartialTag(text, OpenTag)
  IN  CASE Has(text, OpenTag) /\ closed.kind = "call" /\ before = <<>> ->
             closed
        [] Has(text, OpenTag) /\ closed.kind = "call" /\ before # <<>> ->
             Says([closed.det EXCEPT
                     !.flush = OpenTag \o closed.text \o CloseTag],
                  "text", before)
        [] Has(text, OpenTag) /\ closed.kind # "call" ->
             TextOf(Opened(d, text), before)
        [] ~Has(text, OpenTag) /\ held > 0 ->
             TextOf([d EXCEPT !.flush = <<>>, !.state = "maybe",
                              !.tag = SubSeq(OpenTag, 1, held)],
                    SubSeq(text, 1, Len(text) - held))
        [] OTHER -> Says([d EXCEPT !.flush = <<>>], "text", text)

FeedMaybe(d, piece) ==
  LET text   == d.tag \o piece
      opened == Opened(d, text)
      closed == TryClose(opened)
  IN  CASE Has(text, OpenTag) /\ closed.kind = "call" -> closed
        [] Has(text, OpenTag) /\ closed.kind # "call" ->
             TextOf(opened, Before(text, OpenTag))
        [] ~Has(text, OpenTag) /\ PartialTag(text, OpenTag) = Len(text) ->
             Says([d EXCEPT !.tag = text], "buffering", <<>>)
        [] OTHER -> Says([d EXCEPT !.tag = <<>>, !.state = "normal"],
                         "text", text)

FeedCapturing(d, piece) ==
  LET text == d.capture \o piece
  IN  IF Len(text) > MaxCapture
        THEN Says([d EXCEPT !.capture = <<>>, !.state = "normal"],
                  "aborted", text)
        ELSE TryClose([d EXCEPT !.capture = text])

Feed(d, piece) ==
  CASE d.state = "normal"    -> FeedNormal(d, piece)
    [] d.state = "maybe"     -> FeedMaybe(d, piece)
    [] d.state = "capturing" -> FeedCapturing(d, piece)

\* What finish() would still hand over.
Leftover(d) ==
  d.tag \o (IF d.capture = <<>> THEN <<>> ELSE OpenTag \o d.capture)

-----------------------------------------------------------------------------
(* The loop over a whole text.  said is what the last feed said, plain the *)
(* text since the last call, blocks what was found.                        *)

IsCall(body) == body = <<"j">>

StartExtract(text) ==
  [said |-> Feed(NewDetector, text), plain |-> <<>>, blocks |-> <<>>,
   over |-> FALSE]

TextBlock(text) == IF text = <<>> THEN <<>> ELSE <<[kind |-> "text",
                                                    text |-> text]>>

\* A faulty TakeIn: the text before a call is dropped with it.
TakeInCallOnly(x) ==
  CASE x.said.kind \in {"text", "aborted"} ->
         [x EXCEPT !.plain = @ \o x.said.text]
    [] x.said.kind = "call" ->
         [x EXCEPT !.plain = <<>>,
                   !.blocks = @ \o (IF IsCall(x.said.text)
                                      THEN <<[kind |-> "call", text |-> x.said.text]>>
                                      ELSE <<>>)]
    [] OTHER -> x

\* The result of the last feed is taken in.
TakeIn(x) ==
  CASE x.said.kind \in {"text", "aborted"} ->
         [x EXCEPT !.plain = @ \o x.said.text]
    [] x.said.kind = "call" ->
         [x EXCEPT
            !.plain = <<>>,
            !.blocks = @ \o TextBlock(x.plain) \o
                       (IF IsCall(x.said.text)
                          THEN <<[kind |-> "call", text |-> x.said.text]>>
                          ELSE <<>>)]
    [] OTHER -> x

\* One turn of the loop: the result is taken in and the detector is fed an
\* empty piece.  Only an empty text ends the loop.
ExtractStep(x) ==
  LET y    == TakeIn(x)
      next == Feed(x.said.det, <<>>)
  IN  IF next.kind = "text" /\ next.text = <<>>
        THEN [y EXCEPT !.over = TRUE, !.said = next, !.plain = <<>>,
                       !.blocks = @ \o TextBlock(y.plain \o
                                                 Leftover(next.det))]
        ELSE [y EXCEPT !.said = next]

Calls(x) == {b \in Range(x.blocks) : b.kind = "call"}

-----------------------------------------------------------------------------
(* Said without the detector.                                              *)

\* A whole call stands in the text.
Closed(text) ==
  Has(text, OpenTag) /\ Has(After(text, OpenTag), CloseTag)

\* The text ends inside a tag or inside a call that is not too long.
Dangling(text) ==
  IF Has(text, OpenTag)
    THEN ~Closed(text) /\ Len(After(text, OpenTag)) <= MaxCapture
    ELSE PartialTag(text, OpenTag) > 0

\* What a reader of the text would take from it.
CallIn(text) ==
  IF Closed(text) /\ IsCall(Before(After(text, OpenTag), CloseTag))
    THEN <<[kind |-> "call", text |-> <<"j">>]>> ELSE <<>>

TextIn(text) ==
  TextBlock(IF Has(text, OpenTag) THEN Before(text, OpenTag) ELSE text)

\* The loop finds the first call, and the text before it, and no other call.
ExtractedRight(text, x) ==
  x.over => /\ Calls(x) = Range(CallIn(text))
            /\ Closed(text) \/ ~Has(text, OpenTag) =>
                 x.blocks = TextIn(text) \o CallIn(text)
=============================================================================
