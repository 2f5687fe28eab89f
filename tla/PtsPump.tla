------------------------------ MODULE PtsPump -------------------------------
(***************************************************************************)
(* The client of the daemon once its request is acknowledged (connect_     *)
(* daemon, pts.c).  The user's terminal and the command's pseudo-terminal  *)
(* are two bounded queues each of which a pump serves: the main thread     *)
(* forwards what the command writes, a second thread what the user types,  *)
(* a third one the size of the window.  The threads share descriptors,     *)
(* which any of them closes, and a signal handler that closes more.        *)
(***************************************************************************)
EXTENDS Naturals, Sequences

CONSTANTS Ttys,         \* what may be terminals of {"in", "out", "err"}
          InSize, OutSize,   \* of the queues, to the command and from it
          RaiseShared,  \* raise() addresses the process (in some versions
                        \* of the libc: the calling thread)
          MaxInputs,    \* bound of the keys and the resizes
          MaxOutput, MaxSignals

ASSUME TtyAssumption == Ttys \subseteq SUBSET {"in", "out", "err"}
ASSUME BoundAssumption ==
  /\ InSize \in Nat \ {0} /\ OutSize \in Nat \ {0}
  /\ RaiseShared \in BOOLEAN
  /\ MaxInputs \in Nat /\ MaxOutput \in Nat /\ MaxSignals \in Nat

VARIABLES
  tty,        \* the streams that are terminals (atty)
  main,       \* how far connect_daemon is
  reader,     \* the thread of pump_stdin_async
  watcher,    \* the thread of watch_sigwinch_async
  fds,        \* the descriptors that are open, of {"in", "out", "ptmx"}
  armed,      \* the quit signals are caught by sighandler
  raw, flag,  \* the terminal's mode, and stdin_is_raw
  winch,      \* a SIGWINCH is pending that the watcher may take
  seen,       \* the size the watcher has read and not set
  signals,    \* quit signals so far
  hung,       \* the user's terminal has hung up
  keys, typed,            \* keys pressed so far; those nobody has read
  inbuf, toCmd, input,    \* read by the pump; in the queue; read by the command
  produced,               \* what the command has written so far
  toUser, outbuf, screen, \* in the queue; read by the pump; at the user's
  size, ptySize,          \* of the two windows
  cmd, slave  \* the command, and the side of the pseudo-terminal that is its

threads == <<main, reader, watcher>>
process == <<fds, armed, raw, flag>>
window == <<winch, seen, size, ptySize>>
inward == <<inbuf, toCmd, input>>
outward == <<produced, toUser, outbuf, screen>>
user == <<signals, hung, keys, typed>>
server == <<cmd, slave>>
vars == <<threads, process, window, inward, outward, user, server, tty>>

-----------------------------------------------------------------------------
Gone == {"ended", "failed", "killed"}
Past == {"restore", "code"} \cup Gone      \* the output pump is over

ThreadTypes ==
  /\ main \in {"start", "handlers", "setattr", "flag", "spawn", "read",
               "inread", "write", "close"} \cup Past
  /\ reader \in {"none", "read", "inread", "write", "inwrite", "closein",
                 "closeptmx", "gone"}
  /\ watcher \in {"none", "wait", "set", "gone"}

TypeOK ==
  /\ tty \in Ttys
  /\ ThreadTypes
  /\ fds \subseteq {"in", "out", "ptmx"}
  /\ armed \in BOOLEAN /\ raw \in BOOLEAN /\ flag \in BOOLEAN
  /\ winch \in BOOLEAN /\ seen \in Nat /\ size \in Nat /\ ptySize \in Nat
  /\ signals \in Nat /\ hung \in BOOLEAN /\ keys \in Nat /\ typed \in Seq(Nat)
  /\ inbuf \in Seq(Nat) /\ toCmd \in Seq(Nat) /\ input \in Seq(Nat)
  /\ produced \in Nat
  /\ Len(toCmd) <= InSize /\ Len(toUser) <= OutSize
  /\ toUser \in Seq(Nat) /\ outbuf \in Seq(Nat) /\ screen \in Seq(Nat)
  /\ cmd \in {"starting", "running", "ended"}
  /\ slave \in {"unopened", "open", "closed"}

Init ==
  /\ tty \in Ttys
  /\ main = "start" /\ reader = "none" /\ watcher = "none"
  /\ fds = {"in", "out", "ptmx"}
  /\ armed = FALSE /\ raw = FALSE /\ flag = FALSE
  /\ winch = FALSE /\ seen = 0 /\ size = 1 /\ ptySize = 0
  /\ signals = 0 /\ hung = FALSE /\ keys = 0 /\ typed = <<>>
  /\ inbuf = <<>> /\ toCmd = <<>> /\ input = <<>>
  /\ produced = 0 /\ toUser = <<>> /\ outbuf = <<>> /\ screen = <<>>
  /\ cmd = "starting" /\ slave = "unopened"

Alive == main \notin Gone

(* A descriptor is closed at once, what it stands for when no call is in   *)
(* progress on it.                                                         *)
MasterOpen ==
  Alive /\ ("ptmx" \in fds \/ main = "inread" \/ reader = "inwrite")

(* The first n elements of queue from go to queue to.                      *)
Moves(from, to, n) ==
  /\ to' = to \o SubSeq(from, 1, n)
  /\ from' = SubSeq(from, n + 1, Len(from))

-----------------------------------------------------------------------------
(* connect_daemon, the main thread.                                        *)
(* watch_sigwinch_async blocks SIGWINCH, starts the thread, and raises the *)
(* signal for the initial size, and nobody looks whether it failed; then   *)
(* the request is sent and acknowledged.                                   *)
OutputPump == IF "out" \in tty THEN "read" ELSE "code"

StartFaulty ==                       \* mutant: no initial size
  /\ main = "start"
  /\ main' = IF "in" \in tty THEN "handlers" ELSE OutputPump
  /\ watcher' \in IF "out" \in tty THEN {"wait", "none"} ELSE {"none"}
  /\ UNCHANGED <<reader, process, window, inward, outward, user, server, tty>>

Start ==
  /\ main = "start"
  /\ main' = IF "in" \in tty THEN "handlers" ELSE OutputPump
  /\ \/ "out" \in tty /\ watcher' = "wait" /\ winch' = RaiseShared
     \/ UNCHANGED <<watcher, winch>>
  /\ UNCHANGED <<reader, process, seen, size, ptySize, inward, outward, user,
                 server, tty>>

SetupHandlers ==
  /\ main = "handlers" /\ main' = "setattr"
  /\ armed' = TRUE
  /\ UNCHANGED <<reader, watcher, fds, raw, flag, window, inward, outward, user,
                 server, tty>>

(* set_stdin_raw: TCSAFLUSH discards what was typed before.                *)
SetAttr ==
  /\ main = "setattr"
  /\ \/ /\ "in" \in fds /\ ~hung
        /\ main' = "flag" /\ raw' = TRUE /\ typed' = <<>>
     \/ /\ "in" \notin fds \/ hung
        /\ main' = "spawn" /\ UNCHANGED <<raw, typed>>
  /\ UNCHANGED <<reader, watcher, fds, armed, flag, window, inward, outward,
                 signals, hung, keys, server, tty>>

SetFlag ==
  /\ main = "flag" /\ main' = "spawn"
  /\ flag' = TRUE
  /\ UNCHANGED <<reader, watcher, fds, armed, raw, window, inward, outward, user,
                 server, tty>>

(* pump_async: malloc fails, or the thread starts, or nobody notices that  *)
(* it does not.                                                            *)
SpawnFaulty ==                       \* mutant: pumps stdin in this thread
  /\ main = "spawn"
  /\ \/ reader = "none" /\ reader' = "read" /\ main' = main
     \/ reader = "gone" /\ main' = OutputPump /\ reader' = reader
  /\ UNCHANGED <<watcher, process, window, inward, outward, user, server, tty>>

Spawn ==
  /\ main = "spawn"
  /\ \/ main' = "failed" /\ reader' = reader
     \/ main' = OutputPump /\ reader' \in {"read", "none"}
  /\ UNCHANGED <<watcher, process, window, inward, outward, user, server, tty>>

(* pump_ex of the output: a call of read begins, returns; write_blocking   *)
(* writes all of it, as much at a time as the other side takes.            *)
BeginReadOutput ==
  /\ main = "read"
  /\ main' = IF "ptmx" \in fds THEN "inread" ELSE "close"
  /\ UNCHANGED <<reader, watcher, process, window, inward, outward, user,
                 server, tty>>

ReadOutputFaulty ==                  \* mutant: the error is no end (!= 0)
  /\ main = "inread"
  /\ toUser # <<>> /\ main' = "write"
  /\ \E n \in 1..Len(toUser) : Moves(toUser, outbuf, n)
  /\ UNCHANGED <<reader, watcher, process, window, inward, produced, screen,
                 user, server, tty>>

ReadOutput ==
  /\ main = "inread"
  /\ \/ /\ toUser # <<>> /\ main' = "write"
        /\ \E n \in 1..Len(toUser) : Moves(toUser, outbuf, n)
     \/ /\ toUser = <<>> /\ slave = "closed" /\ main' = "close"
        /\ UNCHANGED <<toUser, outbuf>>
  /\ UNCHANGED <<reader, watcher, process, window, inward, produced, screen,
                 user, server, tty>>

WriteOutputFaulty ==                 \* mutant: what write leaves is dropped
  /\ main = "write"
  /\ \/ /\ "out" \in fds /\ ~hung
        /\ \E n \in 1..Len(outbuf) : screen' = screen \o SubSeq(outbuf, 1, n)
        /\ outbuf' = <<>> /\ main' = "read"
     \/ /\ "out" \notin fds \/ hung
        /\ main' = "close" /\ UNCHANGED <<outbuf, screen>>
  /\ UNCHANGED <<reader, watcher, process, window, inward, produced, toUser,
                 user, server, tty>>

WriteOutput ==
  /\ main = "write"
  /\ \/ /\ "out" \in fds /\ ~hung
        /\ \E n \in 1..Len(outbuf) :
             /\ Moves(outbuf, screen, n)
             /\ main' = IF n = Len(outbuf) THEN "read" ELSE "write"
     \/ /\ "out" \notin fds \/ hung
        /\ main' = "close" /\ UNCHANGED <<outbuf, screen>>
  /\ UNCHANGED <<reader, watcher, process, window, inward, produced, toUser,
                 user, server, tty>>

CloseMaster ==
  /\ main = "close" /\ main' = "restore"
  /\ fds' = fds \ {"ptmx"}
  /\ UNCHANGED <<reader, watcher, armed, raw, flag, window, inward, outward, user,
                 server, tty>>

(* restore_stdin.                                                          *)
RestoreStdin ==
  IF flag /\ "in" \in fds /\ ~hung
  THEN raw' = FALSE /\ flag' = FALSE /\ typed' = <<>>
  ELSE UNCHANGED <<raw, flag, typed>>

(* The rest of pump_stdout_blocking: restore_stdin, and watch_sigwinch_    *)
(* cleanup (closing_time is that main has come this far).                  *)
FinishFaulty ==                      \* mutant: pump_ex alone
  /\ main = "restore" /\ main' = "code"
  /\ UNCHANGED <<reader, watcher, process, window, inward, outward, user,
                 server, tty>>

Finish ==
  /\ main = "restore" /\ main' = "code"
  /\ RestoreStdin
  /\ winch' = (winch \/ RaiseShared)
  /\ UNCHANGED <<reader, watcher, fds, armed, seen, size, ptySize, inward,
                 outward, signals, hung, keys, server, tty>>

ReadCode ==
  /\ main = "code" /\ cmd = "ended" /\ main' = "ended"
  /\ UNCHANGED <<reader, watcher, process, window, inward, outward, user,
                 server, tty>>

MainStep ==
  \/ Start \/ SetupHandlers \/ SetAttr \/ SetFlag \/ Spawn
  \/ BeginReadOutput \/ ReadOutput \/ WriteOutput \/ CloseMaster \/ Finish
  \/ ReadCode

-----------------------------------------------------------------------------
(* The thread of pump_stdin_async, which closes both of its descriptors.   *)
BeginReadInput ==
  /\ reader = "read"
  /\ reader' = IF "in" \in fds THEN "inread" ELSE "closein"
  /\ UNCHANGED <<main, watcher, process, window, inward, outward, user, server,
                 tty>>

ReadInput ==
  /\ reader = "inread"
  /\ \/ /\ ~hung /\ \E n \in 1..Len(typed) : Moves(typed, inbuf, n)
        /\ reader' = "write"
     \/ /\ hung /\ reader' = "closein" /\ UNCHANGED <<typed, inbuf>>
  /\ UNCHANGED <<main, watcher, process, window, toCmd, input, outward,
                 signals, hung, keys, server, tty>>

BeginWriteInput ==
  /\ reader = "write"
  /\ reader' = IF "ptmx" \in fds THEN "inwrite" ELSE "closein"
  /\ UNCHANGED <<main, watcher, process, window, inward, outward, user, server,
                 tty>>

WriteInputFaulty ==                  \* mutant: what write leaves is dropped
  /\ reader = "inwrite"
  /\ \E n \in 1..Len(inbuf) :
       /\ n <= InSize - Len(toCmd)
       /\ toCmd' = toCmd \o SubSeq(inbuf, 1, n)
       /\ inbuf' = <<>> /\ reader' = "read"
  /\ UNCHANGED <<main, watcher, process, window, input, outward, user, server,
                 tty>>

WriteInputBlind ==                   \* mutant: never waits for the queue
  /\ reader = "inwrite"
  /\ Moves(inbuf, toCmd, Len(inbuf)) /\ reader' = "read"
  /\ UNCHANGED <<main, watcher, process, window, input, outward, user, server,
                 tty>>

WriteInput ==
  /\ reader = "inwrite"
  /\ \E n \in 1..Len(inbuf) :
       /\ n <= InSize - Len(toCmd)
       /\ Moves(inbuf, toCmd, n)
       /\ reader' = IF n = Len(inbuf) THEN "read" ELSE "write"
  /\ UNCHANGED <<main, watcher, process, window, input, outward, user, server,
                 tty>>

CloseInput ==
  /\ \/ reader = "closein" /\ reader' = "closeptmx" /\ fds' = fds \ {"in"}
     \/ reader = "closeptmx" /\ reader' = "gone" /\ fds' = fds \ {"ptmx"}
  /\ UNCHANGED <<main, watcher, armed, raw, flag, window, inward, outward, user,
                 server, tty>>

ReaderStep ==
  /\ Alive
  /\ \/ BeginReadInput \/ ReadInput \/ BeginWriteInput \/ WriteInput
     \/ CloseInput

-----------------------------------------------------------------------------
(* watch_sigwinch.                                                         *)
Wake ==
  /\ watcher = "wait" /\ winch
  /\ winch' = FALSE
  /\ watcher' = IF main = "code" THEN "gone" ELSE IF "out" \in fds THEN "set" ELSE "wait"
  /\ seen' = IF "out" \in fds THEN size ELSE seen
  /\ UNCHANGED <<main, reader, process, size, ptySize, inward, outward,
                 user, server, tty>>

SetSize ==
  /\ watcher = "set" /\ watcher' = "wait"
  /\ ptySize' = IF "ptmx" \in fds THEN seen ELSE ptySize
  /\ seen' = 0
  /\ UNCHANGED <<main, reader, process, winch, size, inward, outward, user,
                 server, tty>>

WatcherStep == Alive /\ (Wake \/ SetSize)

-----------------------------------------------------------------------------
(* A quit signal: sighandler in the main thread, which has its read or     *)
(* write return, or the default action.                                    *)
HandlerFaulty ==                     \* mutant: leaves the streams open
  /\ armed /\ armed' = FALSE
  /\ RestoreStdin
  /\ fds' = fds
  /\ \/ main \in {"inread", "write"} /\ main' = "close"
     \/ main \notin {"inread", "write"} /\ main' = main

Handler ==
  /\ armed /\ armed' = FALSE
  /\ RestoreStdin
  /\ fds' = fds \ {"in", "out"}
  /\ \/ main \in {"inread", "write"} /\ main' = "close"
     \/ main \notin {"inread", "write"} /\ main' = main
     \/ main = "code" /\ main' = "failed"          \* read_int is interrupted

Dies ==
  /\ ~armed /\ main' = "killed"
  /\ UNCHANGED <<fds, armed, raw, flag, typed>>

Signal ==
  /\ Alive /\ signals < MaxSignals
  /\ signals' = signals + 1
  /\ Handler \/ Dies
  /\ UNCHANGED <<reader, watcher, window, inward, outward, hung, keys, server,
                 tty>>

-----------------------------------------------------------------------------
(* The user's terminal.                                                    *)
Press ==
  /\ Alive /\ main # "start" /\ ~hung /\ keys + size <= MaxInputs
  /\ keys' = keys + 1 /\ typed' = Append(typed, keys + 1)
  /\ UNCHANGED <<threads, process, window, inward, outward, signals, hung,
                 server, tty>>

Hangup ==
  /\ Alive /\ main # "start" /\ ~hung
  /\ hung' = TRUE
  /\ UNCHANGED <<threads, process, window, inward, outward, signals, keys, typed,
                 server, tty>>

Resize ==
  /\ Alive /\ main # "start" /\ keys + size <= MaxInputs
  /\ size' = size + 1 /\ winch' = TRUE
  /\ UNCHANGED <<threads, process, seen, ptySize, inward, outward, user, server,
                 tty>>

(* The other end: the daemon's child opens the terminal and runs the       *)
(* command; whatever it leaves running may keep the terminal open.         *)
OpenSlave ==
  /\ main # "start" /\ cmd = "starting"
  /\ \/ MasterOpen /\ slave' = "open" /\ cmd' = "running"
     \/ cmd' = "ended" /\ slave' = slave
  /\ UNCHANGED <<threads, process, window, inward, outward, user, tty>>

CommandReads ==
  /\ cmd = "running" /\ MasterOpen /\ toCmd # <<>>
  /\ Moves(toCmd, input, 1)
  /\ UNCHANGED <<threads, process, window, inbuf, outward, user, server, tty>>

CommandWrites ==
  /\ slave = "open" /\ MasterOpen /\ produced < MaxOutput
  /\ Len(toUser) < OutSize
  /\ produced' = produced + 1 /\ toUser' = Append(toUser, produced + 1)
  /\ UNCHANGED <<threads, process, window, inward, outbuf, screen, user, server,
                 tty>>

CommandEnds ==
  /\ cmd = "running" /\ cmd' = "ended"
  /\ slave' \in {"open", "closed"}
  /\ UNCHANGED <<threads, process, window, inward, outward, user, tty>>

Release ==
  /\ cmd = "ended" /\ slave = "open" /\ slave' = "closed"
  /\ UNCHANGED <<threads, process, window, inward, outward, user, cmd, tty>>

Environment ==
  \/ Press \/ Hangup \/ Resize \/ OpenSlave \/ CommandReads \/ CommandWrites
  \/ CommandEnds \/ Release

Next == MainStep \/ ReaderStep \/ WatcherStep \/ Signal \/ Environment

Spec == Init /\ [][Next]_vars

(* The main thread runs when it does not wait.  Nothing is assumed of the  *)
(* other threads, of the user or of the command.                           *)
FairSpec == Spec /\ WF_vars(MainStep)

-----------------------------------------------------------------------------
(* The promise of pump_stdout_blocking ("Returns when the remote end of    *)
(* the FD closes", pts.c:321): what the command has written comes out in   *)
(* its order, and all of it before the pump ends.  It is excused if a      *)
(* signal or a hang-up has interrupted it, if the thread that pumps stdin  *)
(* has closed the terminal (pts.c:62), or if no memory was left.           *)
Excused ==
  \/ signals > 0 \/ hung \/ reader = "gone" \/ main = "failed"
  \/ "out" \notin tty

Stream == INSTANCE PtsChannel
  WITH Data <- 1..MaxOutput, sent <- [i \in 1..produced |-> i],
       received <- screen, ended <- main \in Past, excused <- Excused

ImplementsStream == Stream!Spec

(* Every key pressed since the terminal is raw is on its way to the        *)
(* command or there, in its order, although each of the calls may take a   *)
(* part only.                                                              *)
KeysKept ==
  signals = 0 /\ main \notin Past =>
    LET all == input \o toCmd \o inbuf \o typed IN
      \A i \in 1..Len(all) : all[i] = keys - Len(all) + i

(* "Before returning, restores stdin settings" (pts.c:323).  The terminal  *)
(* stays raw only if the other pump closed stdin first, if a signal came   *)
(* between tcsetattr and stdin_is_raw = 1, or if there is no output pump   *)
(* that could restore it (daemon.c:648).                                   *)
Restored ==
  main \in {"code", "ended"} /\ raw =>
    \/ reader \in {"closeptmx", "gone"} \/ hung
    \/ signals > 0 /\ flag
    \/ "out" \notin tty

(* After a window has changed, and at the start, the command's terminal    *)
(* gets the size of the user's.  The exception is a libc whose raise       *)
(* addresses the thread that blocks SIGWINCH: no initial size.             *)
SizeFollows ==
  /\ watcher = "wait" /\ ~winch /\ main \notin Past /\ {"out", "ptmx"} \subseteq fds
  /\ RaiseShared \/ size > 1
  => ptySize = size

(* The two pumps never wait for each other: what the command writes comes  *)
(* out, even if it never reads and the user types more than it takes.      *)
OutputArrives == []<>(Len(screen) = produced \/ Excused)

(* "Now, close all standard I/O to cause the pumps to exit so we can       *)
(* continue and retrieve the exit code" (daemon.c:488).  A signal that     *)
(* does not interrupt the read is heard with the next output only, or when *)
(* the terminal is closed.                                                 *)
SignalHeard ==
  signals > 0 /\ (toUser # <<>> \/ slave = "closed") ~> main \in Past

(* Once the command has ended and its terminal is closed, so does the      *)
(* client, whatever the other threads wait for.                            *)
ClientEnds == cmd = "ended" /\ slave = "closed" ~> ~Alive

-----------------------------------------------------------------------------
(* What the client says of the streams, and does not keep.                 *)

(* "Send TTYs directly (instead of proxying with a PTY) if the SUPERUSER_  *)
(* SEND_TTY environment variable is set" (daemon.c:572): without it, what  *)
(* the command writes to a stream that is a terminal has come out there    *)
(* when the client returns its status.                                     *)
ErrorsArrive ==
  main = "ended" /\ "err" \in tty =>
    Len(screen) = produced \/ signals > 0 \/ hung \/ reader = "gone"
=============================================================================
