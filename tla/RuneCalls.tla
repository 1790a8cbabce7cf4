------------------------------- MODULE RuneCalls -------------------------------
(***************************************************************************)
(* runes/easql.rs, ealog.rs, eaparquet.rs, eanet.rs, eatime.rs, eajson.rs, *)
(* eacrunch.rs, eadiff.rs and eacorrelate.rs: a rune called with the words *)
(* a user or the model wrote, from these to its answer.  runes/select.rs:  *)
(* the rune that a dropped file is given to.                               *)
(*                                                                         *)
(* What a rune makes of a file's bytes is the other modules' matter: here  *)
(* a file is one its rune can make something of, one it cannot, or empty.  *)
(***************************************************************************)
EXTENDS Integers, Sequences, SequencesExt, FiniteSets, FiniteSetsExt

-----------------------------------------------------------------------------
(***************************************************************************)
(* runes/common.rs and core/path_guard.rs: which file a path that a user   *)
(* or the model wrote names, and whether it may be touched.                *)
(*                                                                         *)
(* A path as written is a sequence of symbols, some of them "/", "~" and   *)
(* white space.  A name is what stands between two "/", a place a sequence *)
(* of names from the root, a disk a function from places to what is there. *)
(***************************************************************************)

CONSTANTS Home, Tmp, PrivateTmp,   \* places
          SensitiveRelative,       \* to the home
          SensitiveAbsolute,
          MaxInputBytes,
          MaxLinks                 \* followed by the system before it gives up

Slash == "/"
Tilde == "~"
Parent == <<"..">>

\* What is between the separators, nothing left out but the empty.
Split(s, Separators) ==
  LET Add(parts, x) ==
        IF x \in Separators THEN Append(parts, <<>>) ELSE [parts EXCEPT ![Len(parts)] = Append(@, x)]
  IN SelectSeq(FoldLeft(Add, <<<<>>>>, s), LAMBDA part : part # <<>>)
Components(path) == SelectSeq(Split(path, {Slash}), LAMBDA name : name # <<".">>)

-----------------------------------------------------------------------------
(* The system                                                              *)

\* Where a place really is once every link is followed, {} if it is nowhere.
RECURSIVE RealFrom(_, _, _, _)
RealFrom(disk, at, rest, links) ==
  LET next == Append(at, Head(rest)) IN
  CASE rest = <<>> -> {at}
    [] rest # <<>> /\ disk[at].kind # "dir" -> {}
    [] rest # <<>> /\ disk[at].kind = "dir" ->
         IF Head(rest) = Parent THEN RealFrom(disk, IF at = <<>> THEN at ELSE Front(at), Tail(rest), links)
         ELSE IF next \notin DOMAIN disk THEN {}
         ELSE IF disk[next].kind # "link" THEN RealFrom(disk, next, Tail(rest), links)
         ELSE IF links = 0 THEN {} ELSE RealFrom(disk, <<>>, disk[next].to \o Tail(rest), links - 1)
Canonicalize(disk, place) == RealFrom(disk, <<>>, place, MaxLinks)
RealHome(disk) == LET real == Canonicalize(disk, Home) IN IF real = {} THEN Home ELSE CHOOSE p \in real : TRUE
\* Where a link at the end of a place is, without following it.
IsLink(disk, place) ==
  place # <<>> /\ \E dir \in Canonicalize(disk, Front(place)) :
    LET leaf == Append(dir, Last(place)) IN leaf \in DOMAIN disk /\ disk[leaf].kind = "link"

-----------------------------------------------------------------------------
(* The files of the runes                                                  *)

Refused(why) == [error |-> why]
Ok(r) == "error" \notin DOMAIN r

\* Below the home, unless it starts at the root.
Expand(path) ==
  LET rest == IF IsPrefix(<<Tilde, Slash>>, path) THEN SubSeq(path, 3, Len(path)) ELSE path IN
  IF IsPrefix(<<Slash>>, rest) THEN Components(rest) ELSE Home \o Components(rest)
ResolvePath(path) ==
  LET place == Expand(path) IN
  IF Contains(place, Parent) \/ ~(IsPrefix(Home, place) \/ IsPrefix(Tmp, place)) THEN Refused("outside")
  ELSE [place |-> place]
\* The bytes at a place; "unreadable" is any error of the system.
OpenCapped(disk, place) ==
  LET reals == Canonicalize(disk, place)
      real == CHOOSE r \in reals : TRUE
      file == disk[real]
  IN CASE reals = {} -> Refused("unreadable")
       [] reals # {} /\ file.kind = "file" /\ file.size > MaxInputBytes -> Refused("too large")
       [] reals # {} /\ ~(file.kind = "file" /\ file.size > MaxInputBytes) ->
            IF ~(IsPrefix(RealHome(disk), real) \/ IsPrefix(Tmp, real)) THEN Refused("outside")
            ELSE IF file.kind = "dir" THEN Refused("unreadable") ELSE [bytes |-> file, from |-> real]
Opened(disk, path) == LET r == ResolvePath(path) IN IF Ok(r) THEN OpenCapped(disk, r.place) ELSE r

-----------------------------------------------------------------------------
(* The guard of the tools and of the watchers                              *)

ExpandAll(path) == IF path = <<Tilde>> THEN Home ELSE Expand(path)
EnforcePolicy(place, home, extra) ==
  CASE Contains(place, Parent) -> Refused("parent")
    [] ~Contains(place, Parent) /\ ~\E root \in {home, Tmp, PrivateTmp} \cup extra : IsPrefix(root, place) -> Refused("outside")
    [] ~Contains(place, Parent) /\ \E root \in {home, Tmp, PrivateTmp} \cup extra : IsPrefix(root, place) ->
         IF \/ IsPrefix(home, place) /\ \E rel \in SensitiveRelative : IsPrefix(home \o rel, place)
            \/ \E abs \in SensitiveAbsolute : IsPrefix(abs, place)
         THEN Refused("sensitive") ELSE [place |-> place]
ResolveLexical(path, extra) == EnforcePolicy(ExpandAll(path), Home, extra)
\* Also of where the links lead: those of a file that is not there yet are its
\* directory's.
ResolveChecked(disk, path, extra) ==
  LET lexical == ResolveLexical(path, extra)
      place == lexical.place
      reals == Canonicalize(disk, place)
      dirs == IF place = <<>> THEN {} ELSE Canonicalize(disk, Front(place))
      Checked(found) == EnforcePolicy(CHOOSE f \in found : TRUE, RealHome(disk), extra)
  IN IF ~Ok(lexical) THEN lexical
     ELSE IF reals # {} THEN Checked(reals)
     ELSE IF IsLink(disk, place) THEN Refused("link")
     ELSE IF dirs # {} THEN Checked({Append(dir, Last(place)) : dir \in dirs}) ELSE lexical

-----------------------------------------------------------------------------
(* What both promise                                                       *)

\* What reading or writing a place touches: the file there, or the one it makes
\* in the directory there.
RECURSIVE Touched(_, _, _)
Touched(disk, place, links) ==
  IF Canonicalize(disk, place) # {} \/ place = <<>> THEN Canonicalize(disk, place)
  ELSE UNION {LET leaf == Append(dir, Last(place)) IN
              IF leaf \notin DOMAIN disk THEN {leaf}
              ELSE IF disk[leaf].kind = "link" /\ links > 0 THEN Touched(disk, disk[leaf].to, links - 1) ELSE {}
                : dir \in {d \in Canonicalize(disk, Front(place)) : disk[d].kind = "dir"}}
HasLinks(disk) == \E place \in DOMAIN disk : disk[place].kind = "link"

\* What a tool or a watcher is given is touched only within the roots and
\* outside what is sensitive, wherever links lead; and nothing is refused that
\* both its own words and the links it goes through allow.
GuardHolds(disk, path, extra) ==
  LET r == ResolveChecked(disk, path, extra)
      Within(place) == \E root \in {RealHome(disk), Tmp, PrivateTmp} \cup extra : IsPrefix(root, place)
      Sensitive(place) == \E s \in {RealHome(disk) \o rel : rel \in SensitiveRelative} \cup SensitiveAbsolute : IsPrefix(s, place)
  IN /\ Ok(r) => \A place \in Touched(disk, r.place, MaxLinks) : Within(place) /\ ~Sensitive(place)
     /\ Ok(r) => Touched(disk, r.place, MaxLinks) = Touched(disk, ExpandAll(path), MaxLinks)
     /\ Ok(ResolveLexical(path, extra)) =>
          \A real \in Canonicalize(disk, ExpandAll(path)) : Within(real) /\ ~Sensitive(real) => Ok(r) /\ r.place = real
     /\ ~HasLinks(disk) => r = ResolveLexical(path, extra)
\* A rune reads only within the home and the directory of temporary files.
ReadsAllowed(disk, path) ==
  LET r == Opened(disk, path) IN
  /\ Ok(r) => /\ r.from \in Canonicalize(disk, Expand(path)) /\ r.bytes.kind = "file" /\ r.bytes.size <= MaxInputBytes
              /\ IsPrefix(RealHome(disk), r.from) \/ IsPrefix(Tmp, r.from)
  /\ \A real \in Canonicalize(disk, Expand(path)) :
       /\ IsPrefix(RealHome(disk), real) \/ IsPrefix(Tmp, real)
       /\ ~Contains(Expand(path), Parent) /\ (IsPrefix(Home, Expand(path)) \/ IsPrefix(Tmp, Expand(path)))
       /\ disk[real].kind = "file" /\ disk[real].size <= MaxInputBytes
       => Ok(r)

-----------------------------------------------------------------------------
(* How a rune is called                                                     *)

CONSTANT MaxFiles                 \* of one correlation

White == {" ", "tab"}
JsonFlag == "--json"

Words(args) == Split(args, White)
Trimmed(s) ==
  LET kept == {i \in DOMAIN s : s[i] \notin White} IN IF kept = {} THEN <<>> ELSE SubSeq(s, Min(kept), Max(kept))
Joined(words) == IF words = <<>> THEN <<>> ELSE Tail(FlattenSeq([i \in DOMAIN words |-> <<" ">> \o words[i]]))

-----------------------------------------------------------------------------
(* Answers                                                                 *)

\* A call's outcome, read being the files it read.
Error(why) == [success |-> FALSE, why |-> why, read |-> <<>>]
\* The file at a path, if the rune can make something of what it holds.
Summary(disk, path, understood) ==
  LET r == Opened(disk, path) IN
  IF path = <<>> THEN Error("usage")
  ELSE IF ~Ok(r) THEN Error(r.error)
  ELSE IF r.bytes.holds \in understood THEN [success |-> TRUE, read |-> <<r.from>>] ELSE Error("parse")
Answer(json, out) == [structured |-> json, out |-> out]

\* Longer text for the model is cut between two characters, a report is not.
\* A character is the number of its bytes, the mark has 32 at the most.
Size(chars) == FoldLeft(+, 0, chars)
TruncateUnmarked(chars, report, most) ==
  IF Size(chars) <= most \/ report THEN [shown |-> chars, dropped |-> 0]
  ELSE LET n == Max({k \in 0..Len(chars) : Size(SubSeq(chars, 1, k)) <= most}) IN
       [shown |-> SubSeq(chars, 1, n), dropped |-> Size(SubSeq(chars, n + 1, Len(chars)))]
TruncateAnswer(chars, report, most) ==
  IF Size(chars) <= most \/ report THEN [shown |-> chars, dropped |-> 0]
  ELSE LET n == Max({k \in 0..Len(chars) : Size(SubSeq(chars, 1, k)) <= most - 32}) IN
       [shown |-> SubSeq(chars, 1, n), dropped |-> Size(SubSeq(chars, n + 1, Len(chars)))]

-----------------------------------------------------------------------------
(* The runes                                                               *)

All == {"good", "bad", "empty"}

\* The flag first or last, one white space from the rest, which is the path.
PathAndMode(args) ==
  LET s == Trimmed(args) IN
  CASE IsPrefix(<<JsonFlag, " ">>, s) -> [path |-> Trimmed(SubSeq(s, 3, Len(s))), json |-> TRUE]
    [] ~IsPrefix(<<JsonFlag, " ">>, s) /\ IsSuffix(<<" ", JsonFlag>>, s) ->
         [path |-> Trimmed(SubSeq(s, 1, Len(s) - 2)), json |-> TRUE]
    [] ~IsPrefix(<<JsonFlag, " ">>, s) /\ ~IsSuffix(<<" ", JsonFlag>>, s) ->
         IF s = <<JsonFlag>> THEN [path |-> <<>>, json |-> TRUE] ELSE [path |-> s, json |-> FALSE]
Easql(args, disk) == LET a == PathAndMode(args) IN Answer(a.json, Summary(disk, a.path, {"good", "bad"}))
Ealog(args, disk) == LET a == PathAndMode(args) IN Answer(a.json, Summary(disk, a.path, All))
Eaparquet(args, disk) == LET a == PathAndMode(args) IN Answer(a.json, Summary(disk, a.path, {"good"}))

\* The flag anywhere, the other words are the path.
Others(words) == SelectSeq(words, LAMBDA w : w # <<JsonFlag>>)
HasFlag(words) == Contains(words, <<JsonFlag>>)
Eanet(args, disk) ==
  LET words == Words(args) IN Answer(HasFlag(words), Summary(disk, Joined(Others(words)), {"good"}))

\* A call's words from the left: each is a flag, a flag and its value, or part
\* of the path; a value that is missing or unknown ends it.
Values ==
  [bucket |-> [hour |-> "hour", weekday |-> "weekday", series |-> "series"],
   format |-> [auto |-> "auto", iso |-> "iso", iso8601 |-> "iso", clf |-> "clf", syslog |-> "syslog", json |-> "json-epoch"]
              @@ ("json-epoch" :> "json-epoch")]
RECURSIVE TimeArgs(_, _)
TimeArgs(words, a) ==
  LET Option(option) ==
        IF Len(words) > 1 /\ \E value \in DOMAIN Values[option] : words[2] = <<value>>
        THEN TimeArgs(SubSeq(words, 3, Len(words)), [a EXCEPT ![option] = Values[option][words[2][1]]])
        ELSE [a EXCEPT !.wrong = TRUE]
  IN IF words = <<>> THEN a
     ELSE CASE words[1] = <<JsonFlag>> -> TimeArgs(Tail(words), [a EXCEPT !.json = TRUE])
            [] words[1] = <<"--bucket">> -> Option("bucket")
            [] words[1] = <<"--format">> -> Option("format")
            [] words[1] \notin {<<JsonFlag>>, <<"--bucket">>, <<"--format">>} ->
                 TimeArgs(Tail(words), [a EXCEPT !.path = Append(@, words[1])])
Eatime(args, disk) ==
  LET a == TimeArgs(Words(args), [json |-> FALSE, bucket |-> "hour", format |-> "auto", path |-> <<>>, wrong |-> FALSE]) IN
  Answer(a.json, IF a.wrong THEN Error("usage") ELSE Summary(disk, Joined(a.path), All) @@ [bucket |-> a.bucket, format |-> a.format])

\* Options that take the next word whatever it is, and the first of the other
\* words.
RECURSIVE TakeArgs(_, _, _)
TakeArgs(words, a, options) ==
  CASE words = <<>> -> a
    [] words # <<>> /\ words[1] = <<JsonFlag>> -> TakeArgs(Tail(words), [a EXCEPT !.json = TRUE], options)
    [] words # <<>> /\ words[1] \in options ->
         TakeArgs(SubSeq(words, 3, Len(words)), [a EXCEPT !.values = (words[1] :> SubSeq(words, 2, Min({2, Len(words)}))) @@ @], options)
    [] words # <<>> /\ words[1] \notin options \cup {<<JsonFlag>>} ->
         TakeArgs(Tail(words), [a EXCEPT !.path = IF @ = <<>> THEN words[1] ELSE @], options)
NoArgs == [json |-> FALSE, path |-> <<>>, values |-> <<>>]
Eajson(args, disk) ==
  LET a == TakeArgs(Words(args), NoArgs, {<<"--depth">>}) IN Answer(a.json, Summary(disk, a.path, {"good"}))
\* Aggregates need a group, and both they and a predicate their own form.
Eacrunch(args, disk) ==
  LET a == TakeArgs(Words(args), NoArgs, {<<"--by">>, <<"--agg">>, <<"--where">>})
      Given(option) == IF <<option>> \in DOMAIN a.values THEN a.values[<<option>>] ELSE <<>>
      wrong == \/ Given("--agg") # <<>> /\ (Given("--by") = <<>> \/ Given("--agg") # <<<<"sum:b">>>>)
               \/ Given("--where") # <<>> /\ Given("--where") # <<<<"b=1">>>>
  IN Answer(a.json, IF wrong THEN Error("usage") ELSE Summary(disk, a.path, {"good"}))

\* Several files, the first that cannot be read ends the call.
Each(disk, paths, understood) ==
  LET outs == [k \in DOMAIN paths |-> Summary(disk, paths[k], understood)]
      failed == {k \in DOMAIN outs : ~outs[k].success}
  IN IF failed # {} THEN outs[Min(failed)] ELSE [success |-> TRUE, read |-> FlattenSeq([k \in DOMAIN outs |-> outs[k].read])]
Eadiff(args, disk) ==
  LET words == Words(args)
      paths == Others(words)
  IN Answer(HasFlag(words), IF Len(paths) # 2 THEN Error("usage") ELSE Each(disk, paths, {"good"}))
Eacorrelate(args, disk) ==
  LET words == Words(args)
      paths == Others(words)
  IN Answer(HasFlag(words), IF Len(paths) \notin 2..MaxFiles THEN Error("usage") ELSE Each(disk, paths, All))

-----------------------------------------------------------------------------
(* A dropped file                                                          *)

\* The part of a name after its last dot, in lower case, unless nothing is
\* before the dot.
Lower == [CSV |-> "csv", LOG |-> "log"]
Extension(filename) ==
  LET slashes == {i \in DOMAIN filename : filename[i] \in {"/", "\\"}}
      base == SubSeq(filename, Max(slashes \cup {0}) + 1, Len(filename))
      dots == {i \in DOMAIN base : base[i] = "."}
      ext == SubSeq(base, Max(dots) + 1, Len(base))
  IN IF dots = {} \/ Max(dots) = 1 THEN {} ELSE {[i \in DOMAIN ext |-> IF ext[i] \in DOMAIN Lower THEN Lower[ext[i]] ELSE ext[i]]}
IsPcap(magic) == magic \in {"pcap", "pcap nanoseconds", "pcap swapped", "pcap swapped nanoseconds", "pcapng"}
\* A character is "d" for a digit, "a" for a letter, or itself.
HasTimestamp(head) ==
  \E i \in DOMAIN head : \E form \in {<<"d", "d", "d", "d", "-", "d", "d", "-", "d", "d">>,
                                      <<"d", "d", "/", "a", "a", "a", "/", "d", "d", "d", "d">>} :
    SubSeq(head, i, Min({i + Len(form) - 1, Len(head)})) = form
RuneOf ==
  [csv |-> "eacrunch", jsonl |-> "eajson", ndjson |-> "eajson", json |-> "eajson", parquet |-> "eaparquet", sql |-> "easql",
   pcap |-> "eanet", pcapng |-> "eanet"]
PickRune(filename, magic, head) ==
  LET exts == Extension(filename)
      forensics == IF HasTimestamp(head) THEN "eatime" ELSE "ealog"
  IN CASE exts = {} -> {IF IsPcap(magic) THEN "eanet" ELSE forensics}
       [] exts \cap {<<"log">>, <<"txt">>} # {} -> {forensics}
       [] exts \cap {<<"log">>, <<"txt">>} = {} /\ exts # {} -> {RuneOf[e] : e \in {x \in DOMAIN RuneOf : <<x>> \in exts}}
DefaultArgs(rune) == IF rune = "eatime" THEN <<"--bucket", " ", "series", " ">> ELSE <<>>

Run(rune, args, disk) ==
  CASE rune = "easql" -> Easql(args, disk) [] rune = "ealog" -> Ealog(args, disk) [] rune = "eaparquet" -> Eaparquet(args, disk)
    [] rune = "eanet" -> Eanet(args, disk) [] rune = "eatime" -> Eatime(args, disk) [] rune = "eajson" -> Eajson(args, disk)
    [] rune = "eacrunch" -> Eacrunch(args, disk) [] rune = "eadiff" -> Eadiff(args, disk)
    [] rune = "eacorrelate" -> Eacorrelate(args, disk)

-----------------------------------------------------------------------------
(* What a caller relies on                                                 *)

TakesValue == {<<"--depth">>, <<"--by">>, <<"--agg">>, <<"--where">>, <<"--bucket">>, <<"--format">>}
\* The same call with its flag before the rest or after it has the same
\* outcome, that of the call without the flag, in the form the flag asks for;
\* only eatime tells of a wrong option as it was asked to by what is before it.
\* A call that succeeds has read files that it may read.
CallRight(rune, args, disk) ==
  LET plain == Run(rune, args, disk)
      first == Run(rune, <<JsonFlag, " ">> \o args, disk)
      last == Run(rune, args \o <<" ", JsonFlag>>, disk)
      words == Words(args)
  IN /\ ~HasFlag(words) => ~plain.structured /\ first.structured /\ first.out = plain.out
     /\ ~HasFlag(words) /\ (words = <<>> \/ Last(words) \notin TakesValue) =>
          last.out = plain.out /\ (last.structured \/ (rune = "eatime" /\ plain.out.why = "usage"))
     /\ plain.out.success =>
          \A k \in DOMAIN plain.out.read :
            LET real == plain.out.read[k] IN
            disk[real].kind = "file" /\ (IsPrefix(RealHome(disk), real) \/ IsPrefix(Tmp, real))

\* A file that is dropped and staged under its own name goes to a rune that
\* reads it, its kind told by its last extension in any case and in any
\* directory, and by what is in it only if it has none or is text.
DropRight(dir, stem, ext, upper, magic, head, disk) ==
  LET picked == PickRune(dir \o stem \o <<".">> \o ext, magic, head)
      staged == <<"/">> \o Joined(Tmp) \o <<"/", "a">>
  IN /\ picked = PickRune(stem \o <<".">> \o upper, magic, head)
     /\ stem = <<>> => picked = PickRune(<<"a">>, magic, head)
     /\ stem # <<>> => /\ ext \in {<<x>> : x \in DOMAIN RuneOf} => picked = {RuneOf[ext[1]]}
                       /\ (\E m \in {"text", "pcap"} : PickRune(stem \o <<".">> \o ext, m, <<>>) # PickRune(stem \o <<".">> \o ext, magic, head))
                            => ext \in {<<"log">>, <<"txt">>} /\ HasTimestamp(head)
     /\ \A rune \in picked :
          LET call == Run(rune, DefaultArgs(rune) \o staged, disk) IN
          call.out.success /\ (rune = "eatime" => call.out.bucket = "series")
\* What reaches the model is short, whole characters, and says what it lacks.
CutRight(chars, report, most) ==
  LET cut == TruncateAnswer(chars, report, most) IN
  /\ IsPrefix(cut.shown, chars) /\ Size(cut.shown) + cut.dropped = Size(chars)
  /\ cut.dropped # 0 => Size(cut.shown) + 32 <= most /\ Size(cut.shown) + 32 + 4 > most
  /\ ~report => Size(cut.shown) + (IF cut.dropped = 0 THEN 0 ELSE 32) <= most

=============================================================================
