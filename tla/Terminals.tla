----------------------------- MODULE Terminals -----------------------------
(***************************************************************************)
(* The processes the program starts: the shells of the web terminals       *)
(* (src/interface/term_stream.rs, pty.rs, pty_unix.rs) with the two        *)
(* threads that serve each one's socket, and the commands that are run and *)
(* read to their end (src/interface/exec.rs).                              *)
(*                                                                         *)
(* Every child is forked from the one server, and no descriptor is closed  *)
(* on exec: it holds the masters and the pipe ends that were open then.    *)
(* The shells are interactive, so SIGTERM does not end them; a hang-up,    *)
(* when the last process that holds their master closes it, does.          *)
(***************************************************************************)
EXTENDS Integers, FiniteSets, Sequences, SequencesExt

CONSTANTS
  NumSessions, MaxSessions,   \* how many are opened, and at a time
  NumRuns,                    \* commands
  MaxChildren,                \* of both together
  PipeSize,                   \* what a pipe takes before its writer waits
  Programs,                   \* what a command may write, "o" and "e"
  MaxPanics

Sessions == 1 .. NumSessions
Runs     == 1 .. NumRuns

VARIABLES
  pc,       \* where each session's opening is
  map,      \* TERM_SESSIONS
  writer,   \* the thread of the socket's connection
  reader,   \* and the one that reads from it
  client,   \* the other end of the socket
  disc,     \* WsShared.disconnected
  shell,    \* bash
  out,      \* it has printed what nobody has read
  told,     \* the client knows that it ended
  sick,     \* sessions whose mutex is poisoned
  mapSick,  \* the map's is
  master,   \* who holds each session's master
  run,      \* where exec::run is
  left,     \* what its child has left to write
  all,      \* and what it writes in all
  buf,      \* what is in the pipes
  ends,     \* who holds their write ends
  panics

sessions == <<pc, map, writer, reader, client, disc, told, sick, mapSick, panics>>
commands == <<run, left, all, buf>>
vars == <<sessions, shell, out, master, commands, ends>>

\* Processes: the server, a shell, a command.
server     == <<"server", 0>>
Shell(s)   == <<"shell", s>>
Command(r) == <<"command", r>>

\* A new child has what the server has open.
Inherit(holders, child) ==
  [x \in DOMAIN holders |->
     IF server \in holders[x] THEN holders[x] \cup {child} ELSE holders[x]]

\* There may be one child more.
More == Cardinality({s \in Sessions : pc[s] # "idle"})
          + Cardinality({r \in Runs : run[r] # "idle"}) < MaxChildren

Without(holders, process) == [x \in DOMAIN holders |-> holders[x] \ {process}]

-----------------------------------------------------------------------------
(* Opening.                                                                *)

\* The sessions are counted, and the lock let go.
CheckOpen(s) ==
  /\ pc[s] = "idle" /\ \A t \in 1 .. s - 1 : pc[t] # "idle"
  /\ More /\ ~mapSick
  /\ pc' = [pc EXCEPT ![s] = IF Cardinality(map) >= MaxSessions
                               THEN "refused" ELSE "checked"]
  /\ UNCHANGED <<map, writer, reader, client, disc, told, sick, mapSick, panics>>
  /\ UNCHANGED <<shell, out, master, commands, ends>>

OpenPty(s) ==
  /\ pc[s] = "checked"
  /\ pc' = [pc EXCEPT ![s] = "pty"]
  /\ master' = [master EXCEPT ![s] = {server}]
  /\ UNCHANGED <<map, writer, reader, client, disc, told, sick, mapSick, panics>>
  /\ UNCHANGED <<shell, out, commands, ends>>

\* A faulty ForkShell: the child keeps even its own master.
ForkKeeps(s) ==
  /\ pc[s] = "pty"
  /\ pc' = [pc EXCEPT ![s] = "forked"]
  /\ shell' = [shell EXCEPT ![s] = "live"]
  /\ master' = Inherit(master, Shell(s))
  /\ ends' = Inherit(ends, Shell(s))
  /\ UNCHANGED <<map, writer, reader, client, disc, told, sick, mapSick, panics>>
  /\ UNCHANGED <<out, commands>>

\* The child closes its own master, and no other.
ForkShell(s) ==
  /\ pc[s] = "pty"
  /\ pc' = [pc EXCEPT ![s] = "forked"]
  /\ shell' = [shell EXCEPT ![s] = "live"]
  /\ master' = [Inherit(master, Shell(s)) EXCEPT ![s] = @ \ {Shell(s)}]
  /\ ends' = Inherit(ends, Shell(s))
  /\ UNCHANGED <<map, writer, reader, client, disc, told, sick, mapSick, panics>>
  /\ UNCHANGED <<out, commands>>

Insert(s) ==
  /\ pc[s] = "forked" /\ ~mapSick
  /\ pc' = [pc EXCEPT ![s] = "open"] /\ map' = map \cup {s}
  /\ UNCHANGED <<writer, reader, client, disc, told, sick, mapSick, panics>>
  /\ UNCHANGED <<shell, out, master, commands, ends>>

\* The page connects its socket.
Attach(s) ==
  /\ pc[s] = "open" /\ client[s] = "none" /\ s \in map /\ ~mapSick
  /\ client' = [client EXCEPT ![s] = "on"]
  /\ writer' = [writer EXCEPT ![s] = "poll"]
  /\ reader' = [reader EXCEPT ![s] = "reading"]
  /\ UNCHANGED <<pc, map, disc, told, sick, mapSick, panics>>
  /\ UNCHANGED <<shell, out, master, commands, ends>>

\* The page closes the session.
Close(s) ==
  /\ s \in map /\ ~mapSick
  /\ map' = map \ {s}
  /\ UNCHANGED <<pc, writer, reader, client, disc, told, sick, mapSick, panics>>
  /\ UNCHANGED <<shell, out, master, commands, ends>>

\* The map is held while the session's lock is unwrapped.
Resize(s) ==
  /\ s \in map /\ ~mapSick /\ s \in sick
  /\ mapSick' = TRUE
  /\ UNCHANGED <<pc, map, writer, reader, client, disc, told, sick, panics>>
  /\ UNCHANGED <<shell, out, master, commands, ends>>

\* The last reference goes: the master is closed and the child, if it has
\* ended already, waited for.
DropSession(s) ==
  /\ pc[s] = "open" /\ s \notin map /\ server \in master[s]
  /\ writer[s] \in {"none", "gone"} /\ reader[s] # "reading"
  /\ master' = [master EXCEPT ![s] = @ \ {server}]
  /\ shell' = [shell EXCEPT ![s] = IF @ = "exited" THEN "reaped" ELSE @]
  /\ UNCHANGED <<sessions, out, commands, ends>>

-----------------------------------------------------------------------------
(* The socket's two threads.                                               *)

Stop(s) == writer' = [writer EXCEPT ![s] = "ending"]

\* A faulty WriterStops: only the reader notices that the client is gone.
WriterNoPing(s) ==
  /\ writer[s] = "poll" /\ disc[s]
  /\ Stop(s)
  /\ UNCHANGED <<pc, map, reader, client, disc, told, sick, mapSick, panics>>
  /\ UNCHANGED <<shell, out, master, commands, ends>>

\* The reader said so, or a ping could not be sent.
WriterStops(s) ==
  /\ writer[s] = "poll" /\ (disc[s] \/ client[s] # "on")
  /\ Stop(s)
  /\ UNCHANGED <<pc, map, reader, client, disc, told, sick, mapSick, panics>>
  /\ UNCHANGED <<shell, out, master, commands, ends>>

\* There is output: it is applied to the grid and sent.
Frame(s) ==
  /\ writer[s] = "poll" /\ out[s]
  /\ out' = [out EXCEPT ![s] = FALSE]
  /\ writer' = [writer EXCEPT ![s] = "sent"]
  /\ UNCHANGED <<pc, map, reader, client, disc, told, sick, mapSick, panics>>
  /\ UNCHANGED <<shell, master, commands, ends>>

\* The grid indexes past its end: the thread unwinds with the lock held, and
\* nothing is cleaned up.
FramePanics(s) ==
  /\ writer[s] = "poll" /\ out[s] /\ panics < MaxPanics
  /\ panics' = panics + 1 /\ sick' = sick \cup {s}
  /\ out' = [out EXCEPT ![s] = FALSE]
  /\ writer' = [writer EXCEPT ![s] = "gone"]
  /\ UNCHANGED <<pc, map, reader, client, disc, told, mapSick>>
  /\ UNCHANGED <<shell, master, commands, ends>>

\* A faulty AskAlive: nothing is asked unless the shell was silent.
AskLater(s) ==
  /\ writer[s] = "sent"
  /\ writer' = [writer EXCEPT ![s] = "poll"]
  /\ UNCHANGED <<pc, map, reader, client, disc, told, sick, mapSick, panics>>
  /\ UNCHANGED <<shell, out, master, commands, ends>>

\* After output, and only then, the shell is asked after.
AskAlive(s) ==
  /\ writer[s] = "sent"
  /\ IF shell[s] = "live"
       THEN /\ writer' = [writer EXCEPT ![s] = "poll"]
            /\ UNCHANGED <<told, shell>>
       ELSE /\ Stop(s)
            /\ told' = [told EXCEPT ![s] = TRUE]
            /\ shell' = [shell EXCEPT ![s] = "reaped"]
  /\ UNCHANGED <<pc, map, reader, client, disc, sick, mapSick, panics>>
  /\ UNCHANGED <<out, master, commands, ends>>

\* The socket is shut down, the reader joined, the session removed.
WriterEnds(s) ==
  /\ writer[s] = "ending" /\ reader[s] = "gone"
  /\ writer' = [writer EXCEPT ![s] = "gone"]
  /\ map' = IF mapSick THEN map ELSE map \ {s}
  /\ UNCHANGED <<pc, reader, client, disc, told, sick, mapSick, panics>>
  /\ UNCHANGED <<shell, out, master, commands, ends>>

\* The client's end was closed, or the socket shut down under the reader.
ReaderEnds(s) ==
  /\ reader[s] = "reading" /\ (client[s] = "left" \/ writer[s] = "ending")
  /\ reader' = [reader EXCEPT ![s] = "gone"]
  /\ disc' = [disc EXCEPT ![s] = TRUE]
  /\ UNCHANGED <<pc, map, writer, client, told, sick, mapSick, panics>>
  /\ UNCHANGED <<shell, out, master, commands, ends>>

\* Input for a session whose lock is poisoned: unwrap.
ReaderPanics(s) ==
  /\ reader[s] = "reading" /\ s \in sick /\ client[s] = "on"
  /\ reader' = [reader EXCEPT ![s] = "gone"]
  /\ UNCHANGED <<pc, map, writer, client, disc, told, sick, mapSick, panics>>
  /\ UNCHANGED <<shell, out, master, commands, ends>>

\* The client closes, or is heard of no more.
ClientGoes(s) ==
  /\ client[s] = "on"
  /\ \E how \in {"left", "lost"} : client' = [client EXCEPT ![s] = how]
  /\ UNCHANGED <<pc, map, writer, reader, disc, told, sick, mapSick, panics>>
  /\ UNCHANGED <<shell, out, master, commands, ends>>

-----------------------------------------------------------------------------
(* Shells.                                                                 *)

Prints(s) ==
  /\ shell[s] = "live" /\ ~out[s]
  /\ out' = [out EXCEPT ![s] = TRUE]
  /\ UNCHANGED <<sessions, shell, master, commands, ends>>

ShellEnds(s) ==
  /\ shell' = [shell EXCEPT ![s] = "exited"]
  /\ master' = Without(master, Shell(s))
  /\ ends' = Without(ends, Shell(s))
  /\ UNCHANGED <<sessions, out, commands>>

\* The user ends it.
Logout(s) == shell[s] = "live" /\ ShellEnds(s)

HangUp(s) == shell[s] = "live" /\ master[s] = {} /\ ShellEnds(s)

-----------------------------------------------------------------------------
(* Commands.                                                               *)

Pipes(r) ==
  /\ run[r] = "idle" /\ \A q \in 1 .. r - 1 : run[q] # "idle"
  /\ More
  /\ run' = [run EXCEPT ![r] = "piped"]
  /\ ends' = [ends EXCEPT ![r] = {server}]
  /\ UNCHANGED <<sessions, shell, out, master, left, all, buf>>

Fork(r) ==
  /\ run[r] = "piped"
  /\ run' = [run EXCEPT ![r] = "forked"]
  /\ \E p \in Programs :
       left' = [left EXCEPT ![r] = p] /\ all' = [all EXCEPT ![r] = p]
  /\ master' = Inherit(master, Command(r))
  /\ ends' = Inherit(ends, Command(r))
  /\ UNCHANGED <<sessions, shell, out, buf>>

CloseEnds(r) ==
  /\ run[r] = "forked"
  /\ run' = [run EXCEPT ![r] = "stdout"]
  /\ ends' = [ends EXCEPT ![r] = @ \ {server}]
  /\ UNCHANGED <<sessions, shell, out, master, left, all, buf>>

Writes(r) ==
  /\ left[r] # <<>> /\ buf[r][Head(left[r])] < PipeSize
  /\ buf' = [buf EXCEPT ![r][Head(left[r])] = @ + 1]
  /\ left' = [left EXCEPT ![r] = Tail(@)]
  /\ UNCHANGED <<sessions, shell, out, master, run, all, ends>>

CommandEnds(r) ==
  /\ Command(r) \in ends[r] /\ left[r] = <<>>
  /\ master' = Without(master, Command(r))
  /\ ends' = Without(ends, Command(r))
  /\ UNCHANGED <<sessions, shell, out, commands>>

\* read_fd: one byte, or the end when nobody holds the other side.
ReadFd(r, pipe, then) ==
  \/ /\ buf[r][pipe] > 0
     /\ buf' = [buf EXCEPT ![r][pipe] = @ - 1] /\ UNCHANGED run
  \/ /\ buf[r][pipe] = 0 /\ ends[r] = {}
     /\ run' = [run EXCEPT ![r] = then] /\ UNCHANGED buf

\* A faulty Read: stderr first.
ReadErrFirst(r) ==
  /\ \/ run[r] = "stdout" /\ ReadFd(r, "e", "stderr")
     \/ run[r] = "stderr" /\ ReadFd(r, "o", "wait")
  /\ UNCHANGED <<sessions, shell, out, master, left, all, ends>>

\* stdout to its end, and then stderr.
Read(r) ==
  /\ \/ run[r] = "stdout" /\ ReadFd(r, "o", "stderr")
     \/ run[r] = "stderr" /\ ReadFd(r, "e", "wait")
  /\ UNCHANGED <<sessions, shell, out, master, left, all, ends>>

Wait(r) ==
  /\ run[r] = "wait"
  /\ run' = [run EXCEPT ![r] = "done"]
  /\ UNCHANGED <<sessions, shell, out, master, left, all, buf, ends>>

-----------------------------------------------------------------------------
Init ==
  /\ pc = [s \in Sessions |-> "idle"] /\ map = {}
  /\ writer = [s \in Sessions |-> "none"] /\ reader = [s \in Sessions |-> "none"]
  /\ client = [s \in Sessions |-> "none"] /\ disc = [s \in Sessions |-> FALSE]
  /\ shell = [s \in Sessions |-> "none"] /\ out = [s \in Sessions |-> FALSE]
  /\ told = [s \in Sessions |-> FALSE] /\ sick = {} /\ mapSick = FALSE
  /\ master = [s \in Sessions |-> {}]
  /\ run = [r \in Runs |-> "idle"] /\ left = [r \in Runs |-> <<>>]
  /\ all = [r \in Runs |-> <<>>] /\ buf = [r \in Runs |-> [o |-> 0, e |-> 0]]
  /\ ends = [r \in Runs |-> {}] /\ panics = 0

\* What threads and commands do by themselves.
ServerDoes(s) ==
  \/ OpenPty(s) \/ ForkShell(s) \/ Insert(s) \/ DropSession(s)
  \/ Frame(s) \/ AskAlive(s) \/ WriterEnds(s) \/ ReaderEnds(s)

RunDoes(r) == Fork(r) \/ CloseEnds(r) \/ Read(r) \/ Wait(r)

CommandDoes(r) == Writes(r) \/ CommandEnds(r)

Next ==
  \/ \E s \in Sessions :
       \/ CheckOpen(s) \/ ServerDoes(s) \/ WriterStops(s)
       \/ Attach(s) \/ Close(s) \/ Resize(s) \/ ClientGoes(s)
       \/ FramePanics(s) \/ ReaderPanics(s)
       \/ Prints(s) \/ Logout(s) \/ HangUp(s)
  \/ \E r \in Runs : Pipes(r) \/ RunDoes(r) \/ CommandDoes(r)

\* Threads run, a command writes what it has to and ends, a shell that is hung
\* up goes.  Pings come every 1250 ticks, however much there is to send.
Fairness ==
  /\ \A s \in Sessions :
       WF_vars(ServerDoes(s)) /\ SF_vars(WriterStops(s)) /\ WF_vars(HangUp(s))
  /\ \A r \in Runs : WF_vars(RunDoes(r)) /\ WF_vars(CommandDoes(r))

Spec == Init /\ [][Next]_vars /\ Fairness

-----------------------------------------------------------------------------
(* Properties.                                                             *)

\* A session whose client has gone, however it went, leaves the map and its
\* master is closed, unless a panic poisoned it or the map (the teardown at
\* the end of handle_term_ws).
SessionsGo ==
  \A s \in Sessions :
    client[s] \in {"left", "lost"}
      ~> \/ s \notin map /\ server \notin master[s]
         \/ s \in sick \/ mapSick

\* A shell whose session is dropped ends, or a younger child that is still
\* there holds its master (PtyBackend::drop).
ShellsEnd ==
  \A s \in Sessions :
    pc[s] = "open" /\ server \notin master[s]
      ~> shell[s] # "live" \/ master[s] \ {Shell(s)} # {}

\* A shell that ends before its last output was sent is told of (the writer
\* asks after it when it has sent output, and at no other time).
ExitTold ==
  \A s \in Sessions :
    shell[s] = "exited" /\ out[s] /\ writer[s] = "poll"
      ~> told[s] \/ client[s] # "on" \/ s \in sick

\* A command is read to its end, unless it writes more to stderr than a pipe
\* takes or another child holds its pipes (exec::run).
RunReturns ==
  \A r \in Runs :
    run[r] = "stdout"
      ~> \/ run[r] = "done"
         \/ Len(SelectSeq(all[r], LAMBDA x : x = "e")) > PipeSize
         \/ \E p \in ends[r] : p # Command(r)
=============================================================================
