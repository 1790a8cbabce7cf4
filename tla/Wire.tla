--------------------------------- MODULE Wire ---------------------------------
(***************************************************************************)
(* What crosses the server's sockets: WebSocket frames (ws.rs), request    *)
(* bodies and JSON strings (server_http.rs), uploads (server_analyze.rs)   *)
(* and the keys typed into a guarded shell (pty.rs).  Bytes are numbers.   *)
(***************************************************************************)
EXTENDS Integers, Sequences, SequencesExt, FiniteSets, FiniteSetsExt, Bitwise

Err == [outcome |-> "error"]
Eof == [outcome |-> "eof"]
Lesser(a, b) == IF a < b THEN a ELSE b

-----------------------------------------------------------------------------
(* ws.rs                                                                   *)

Opcodes == {0, 1, 2, 8, 9, 10}
MaxPayload == 16 * 1024 * 1024

\* write_frame's header: FIN, no mask.
Header(op, n) ==
  CASE n <= 125 -> <<128 + op, n>>
    [] n \in 126..65535 -> <<128 + op, 126, n \div 256, n % 256>>
    [] n > 65535 -> <<128 + op, 127, 0, 0, 0, 0, n \div 16777216, (n \div 65536) % 256,
                      (n \div 256) % 256, n % 256>>

BigEndian(s) == FoldLeft(LAMBDA acc, b : acc * 256 + b, 0, s)

\* How many bytes of the header hold the length, and the length; a length of
\* more than 31 bits is given as one byte too many.
LengthBytes(b) ==
  LET n == b % 128 IN CASE n = 126 -> 2 [] n = 127 -> 8 [] n < 126 -> 0
PayloadLength(s) ==
  CASE LengthBytes(s[2]) = 0 -> s[2] % 128
    [] LengthBytes(s[2]) = 2 -> BigEndian(SubSeq(s, 3, 4))
    [] LengthBytes(s[2]) = 8 ->
         IF s[7] > 127 \/ \E i \in 3..6 : s[i] > 0 THEN MaxPayload + 1
         ELSE BigEndian(SubSeq(s, 7, 10))

\* read_frame: the frame at the head of the stream and what is left of it.
ReadFrame(s) ==
  LET at == 2 + LengthBytes(s[2])
      n == PayloadLength(s)
      mask == SubSeq(s, at + 1, at + 4)
  IN CASE Len(s) < 2 -> Eof
       [] Len(s) >= 2 /\ (s[1] % 16 \notin Opcodes \/ Len(s) < at) -> Err
       [] Len(s) >= 2 /\ s[1] % 16 \in Opcodes /\ Len(s) >= at ->
            IF s[2] < 128 \/ n > MaxPayload \/ Len(s) < at + 4 + n THEN Err
            ELSE [outcome |-> "frame", opcode |-> s[1] % 16,
                  payload |-> [i \in 1..n |-> s[at + 4 + i] ^^ mask[((i - 1) % 4) + 1]],
                  rest |-> SubSeq(s, at + 5 + n, Len(s))]

\* base64_encode: three bytes are four digits, the last ones padded.
Alpha(v) == CASE v < 26 -> 65 + v [] v \in 26..51 -> 71 + v [] v \in 52..61 -> v - 4
              [] v = 62 -> 43 [] v = 63 -> 47
Pad == 61
Chunks(s) == [k \in 1..((Len(s) + 2) \div 3) |-> SubSeq(s, 3 * k - 2, Lesser(3 * k, Len(s)))]
Encoded(c) ==
  LET b == c \o <<0, 0>> IN
  <<Alpha(b[1] \div 4), Alpha((b[1] % 4) * 16 + (b[2] \div 16))>>
  \o (IF Len(c) > 1 THEN <<Alpha((b[2] % 16) * 4 + (b[3] \div 64))>> ELSE <<Pad>>)
  \o (IF Len(c) > 2 THEN <<Alpha(b[3] % 64)>> ELSE <<Pad>>)
Base64Encode(data) == FlattenSeq([k \in DOMAIN Chunks(data) |-> Encoded(Chunks(data)[k])])

-----------------------------------------------------------------------------
(* server_analyze.rs                                                       *)

Comma == 44
Spaces == {9, 10, 13, 32}
Val(c) == CASE c \in 65..90 -> c - 65 [] c \in 97..122 -> c - 71 [] c \in 48..57 -> c + 4
            [] c = 43 -> 62 [] c = 47 -> 63 [] OTHER -> -1

\* After the last comma, up to the first pad.  `acc' keeps the bits not yet
\* out: those above are shifted away.
AfterComma(s) ==
  LET commas == {i \in DOMAIN s : s[i] = Comma} IN
  IF commas = {} THEN s ELSE SubSeq(s, Max(commas) + 1, Len(s))
Taken(d, c) ==
  LET acc == d.acc * 64 + Val(c)
      bits == d.bits + 6
  IN IF Val(c) < 0 THEN [d EXCEPT !.ok = FALSE]
     ELSE IF bits < 8 THEN [d EXCEPT !.acc = acc, !.bits = bits]
     ELSE [d EXCEPT !.acc = acc % 2^(bits - 8), !.bits = bits - 8,
                    !.out = Append(@, acc \div 2^(bits - 8))]
Digit(d, c) ==
  CASE d.done \/ ~d.ok \/ c \in Spaces -> d
    [] ~d.done /\ d.ok /\ c = Pad -> [d EXCEPT !.done = TRUE]
    [] ~d.done /\ d.ok /\ c \notin Spaces \cup {Pad} -> Taken(d, c)
Base64Decode(s) ==
  FoldLeft(Digit, [acc |-> 0, bits |-> 0, out |-> <<>>, done |-> FALSE, ok |-> TRUE], AfterComma(s))

\* sanitize_filename: the last part, of safe characters, not all of them dots.
Safe == (48..57) \cup (65..90) \cup (97..122) \cup {45, 46, 95}
Separators == {47, 92}
Basename(s) ==
  LET cuts == {i \in DOMAIN s : s[i] \in Separators} IN
  IF cuts = {} THEN s ELSE SubSeq(s, Max(cuts) + 1, Len(s))
Cleaned(s) == [i \in DOMAIN s |-> IF s[i] \in Safe THEN s[i] ELSE 95]
Dropped == <<100, 114, 111, 112>>
Sanitize(s) ==
  LET cleaned == Cleaned(Basename(s)) IN
  IF \A i \in DOMAIN cleaned : cleaned[i] = 46 THEN Dropped ELSE cleaned

\* drain_to_file: what came with the headers, then what the reads bring, an
\* empty read being the end.
Prefix(s, n) == SubSeq(s, 1, Lesser(n, Len(s)))
Drained(file, got, n) ==
  IF file.done \/ Len(file.bytes) >= n \/ got = <<>> THEN [file EXCEPT !.done = TRUE]
  ELSE [file EXCEPT !.bytes = @ \o Prefix(got, n - Len(@))]
DrainToFile(leftover, reads, n) ==
  FoldLeft(LAMBDA file, got : Drained(file, got, n),
           [bytes |-> Prefix(leftover, n), done |-> FALSE], reads).bytes

-----------------------------------------------------------------------------
(* server_http.rs                                                          *)

\* read_body: as above, but a read asks for no more than is missing, and takes
\* at most that from the socket.
ReadBody(leftover, socket, n, limit) ==
  IF n > limit THEN <<>>
  ELSE Prefix(leftover, n) \o Prefix(socket, n - Len(Prefix(leftover, n)))

\* Characters of JSON texts: letters, and these.
Quote == 34
Backslash == 92
Colon == 58
Newline == 10
Tab == 9

Hex(v) == IF v < 10 THEN 48 + v ELSE 87 + v
Escape(c) ==
  CASE c = Backslash -> <<Backslash, Backslash>> [] c = Quote -> <<Backslash, Quote>>
    [] c = Newline -> <<Backslash, 110>> [] c = Tab -> <<Backslash, 116>>
    [] c = 13 -> <<Backslash, 114>>
    [] c < 32 /\ c \notin {9, 10, 13} -> <<Backslash, 117, 48, 48, Hex(c \div 16), Hex(c % 16)>>
    [] c >= 32 /\ c \notin {Quote, Backslash} -> <<c>>
EscapeJson(s) == FlattenSeq([i \in DOMAIN s |-> Escape(s[i])])

Found(s, what) ==
  {i \in 1..(Len(s) - Len(what) + 1) : SubSeq(s, i, i + Len(what) - 1) = what}
After(s, what) ==
  IF Found(s, what) = {} THEN <<>> ELSE SubSeq(s, Min(Found(s, what)) + Len(what), Len(s))

Unescaped(c) ==
  CASE c \in {Quote, Backslash} -> <<c>> [] c = 110 -> <<Newline>> [] c = 116 -> <<Tab>>
    [] c \notin {Quote, Backslash, 110, 116} -> <<Backslash, c>>
Read1(r, c) ==
  CASE r.done -> r
    [] ~r.done /\ r.escaped -> [r EXCEPT !.text = @ \o Unescaped(c), !.escaped = FALSE]
    [] ~r.done /\ ~r.escaped /\ c = Backslash -> [r EXCEPT !.escaped = TRUE]
    [] ~r.done /\ ~r.escaped /\ c = Quote -> [r EXCEPT !.done = TRUE]
    [] ~r.done /\ ~r.escaped /\ c \notin {Quote, Backslash} -> [r EXCEPT !.text = Append(@, c)]

\* extract_json_string: the first place the quoted key stands in, its colon,
\* and the string that follows; anything else is no string.
ExtractJsonString(json, key) ==
  LET rest == After(After(json, <<Quote>> \o key \o <<Quote>>), <<Colon>>)
      from == {i \in DOMAIN rest : rest[i] \notin Spaces}
      value == IF from = {} THEN <<>> ELSE SubSeq(rest, Min(from), Len(rest))
  IN IF value = <<>> \/ value[1] # Quote THEN {}
     ELSE {FoldLeft(Read1, [text |-> <<>>, escaped |-> FALSE, done |-> FALSE], Tail(value)).text}

-----------------------------------------------------------------------------
(* pty.rs: write_guarded.  The shell is given keys as they come, and the   *)
(* end of a line only when the line passes.                                *)

Enter == 13
Backspaces == {8, 127}
Controls == (1..6) \cup {9, 11, 12, 27} \cup (14..26)
KillLine == <<21, 3>>

Sent(t, bytes) == [t EXCEPT !.sent = @ \o bytes]
RefusedUnsent(t) == [t EXCEPT !.line = <<>>, !.err = TRUE]
Refused(t) == [Sent(t, KillLine) EXCEPT !.line = <<>>, !.err = TRUE]
Key(t, b, refused) ==
  CASE t.err -> t
    [] ~t.err /\ b \in {10, 13} ->
         IF t.line \in refused THEN Refused(t)
         ELSE [Sent(t, <<Enter>>) EXCEPT !.line = <<>>]
    [] ~t.err /\ b \in Backspaces ->
         [Sent(t, <<b>>) EXCEPT !.line = IF @ = <<>> THEN @ ELSE Front(@)]
    [] ~t.err /\ b \in Controls -> Sent(t, <<b>>)
    [] ~t.err /\ b \notin {10, 13} \cup Backspaces \cup Controls ->
         [Sent(t, <<b>>) EXCEPT !.line = Append(@, b)]

\* One call: it ends at a refused line, and the keys after that are dropped.
WriteGuarded(t, data, refused) ==
  FoldLeft(LAMBDA acc, b : Key(acc, b, refused), [t EXCEPT !.err = FALSE], data)
NewTyping == [line |-> <<>>, sent |-> <<>>, err |-> FALSE]

-----------------------------------------------------------------------------
(* What it is checked against                                              *)

\* A browser's frame is the server's, masked.
ClientFrame(op, payload, mask) ==
  LET h == Header(op, Len(payload)) IN
  <<h[1], h[2] + 128>> \o SubSeq(h, 3, Len(h)) \o mask
  \o [i \in DOMAIN payload |-> payload[i] ^^ mask[((i - 1) % 4) + 1]]

\* Frames come out as they were sent, one after another, with nothing of one
\* left in the next, and a length in its shortest form.
FramesKept(op, payload, mask, next) ==
  LET got == ReadFrame(ClientFrame(op, payload, mask) \o next) IN
  got = [outcome |-> "frame", opcode |-> op, payload |-> payload, rest |-> next]
LengthKept(n) ==
  LET h == Header(1, n) IN
  /\ Len(h) = 2 + LengthBytes(h[2])
  /\ PayloadLength(h) = n
  /\ LengthBytes(h[2]) = 8 => n > 65535
  /\ LengthBytes(h[2]) = 2 => n > 125

\* An upload arrives as it was, whatever the browser puts before and between.
UploadKept(data, url, gap) ==
  LET digits == Base64Encode(data)
      spaced == FlattenSeq([i \in DOMAIN digits |-> gap \o <<digits[i]>>])
      d == Base64Decode(url \o spaced)
  IN d.ok /\ d.out = data

\* A file name keeps to its directory, and cleaning it again changes nothing.
NameIsSafe(name) ==
  LET clean == Sanitize(name) IN
  /\ Range(clean) \subseteq Safe
  /\ \E i \in DOMAIN clean : clean[i] # 46
  /\ Sanitize(clean) = clean

\* A body is the bytes its length says, or those that came, however they came.
BodyKept(body, cuts, n) ==
  LET parts == [k \in 1..(Len(cuts) + 1) |->
                  SubSeq(body, (IF k = 1 THEN 0 ELSE cuts[k - 1]) + 1,
                         IF k > Len(cuts) THEN Len(body) ELSE cuts[k])]
  IN /\ DrainToFile(parts[1], Tail(parts), n) = Prefix(body, n)
     /\ ReadBody(parts[1], FlattenSeq(Tail(parts)), n, 100) = Prefix(body, n)

\* A string the server writes is one it reads back.  It does not undo the
\* escapes of other control characters.
StringKept(key, s) ==
  (\A i \in DOMAIN s : s[i] >= 32 \/ s[i] \in {Newline, Tab}) =>
    ExtractJsonString(<<123, Quote>> \o key \o <<Quote, Colon, 32, Quote>> \o EscapeJson(s) \o <<Quote, 125>>,
                      key) = {s}

\* The shell's own line discipline: what it runs at the end of a line.
Shell(t, b) ==
  CASE b = Enter -> [line |-> <<>>, ran |-> t.ran \cup {t.line}]
    [] b \in Backspaces -> [t EXCEPT !.line = IF @ = <<>> THEN @ ELSE Front(@)]
    [] b \in Range(KillLine) -> [t EXCEPT !.line = <<>>]
    [] b \notin {Enter} \cup Backspaces \cup Range(KillLine) -> [t EXCEPT !.line = Append(@, b)]
\* A refused line is never run, by this call or the next, and the guard sees
\* the line the shell has.
NothingRefusedRuns(calls, refused) ==
  LET t == FoldLeft(LAMBDA acc, data : WriteGuarded(acc, data, refused), NewTyping, calls)
      shell == FoldLeft(Shell, [line |-> <<>>, ran |-> {}], t.sent)
  IN shell.ran \cap refused = {} /\ shell.line = t.line

=============================================================================
