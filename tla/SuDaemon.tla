------------------------------ MODULE SuDaemon ------------------------------
(***************************************************************************)
(* The su daemon and its clients.  One invocation is a chain of processes: *)
(* the shell's child waits (fork_for_samsung) for the client, which sends  *)
(* its request field by field; a handler forked for the connection reads   *)
(* it, forks a child and waits for it; the child waits (fork_for_samsung)  *)
(* for the su that decides and executes the command.  An exit status       *)
(* travels all the way back.                                               *)
(*                                                                         *)
(* The socket neither loses nor reorders, so that a request is a tuple and *)
(* both ends count the fields they have sent and read.                     *)
(***************************************************************************)
EXTENDS Integers, Sequences

CONSTANTS Clients,
          uid, euid,  \* uid[c], euid[c]: getuid() and geteuid() of the client
          request,    \* request[c]: its command line, whether
                      \* MOUNT_EMULATED_STORAGE is set, and whether stdin
                      \* and stdout are a terminal
          Codes,      \* how a command may exit
          MaxArgs,    \* 512
          Backlog,    \* of listen: 10
          MaxStops    \* bound of the stops and failures of the daemon

Root == 0
Word == STRING
Request == [args : Seq(Word), mount : BOOLEAN, tty : BOOLEAN]

ASSUME ClientAssumption == "accept" \notin Clients /\ "gone" \notin Clients
ASSUME RequestAssumption ==
  request \in [Clients -> Request] /\ \A c \in Clients : Len(request[c].args) > 0
(* su is setuid root; where that has no effect (a process of an app on      *)
(* Android 4.3), a client has no other user than its own.                  *)
ASSUME UidAssumption ==
  /\ uid \in [Clients -> Nat] /\ euid \in [Clients -> Nat]
  /\ \A c \in Clients : euid[c] \in {uid[c], Root}
ASSUME CodeAssumption == Codes \subseteq 0..255
ASSUME BoundAssumption ==
  MaxArgs \in Nat /\ Backlog \in Nat /\ MaxStops \in Nat

VARIABLES
  client,     \* client[c]: how far connect_daemon is
  sent,       \* sent[c]: the fields of the message it has written
  result,     \* result[c]: the exit status the invoker sees
  backlog,    \* connections not accepted yet
  daemon,     \* the daemon: "accept", "gone", or the client it forks for
  fork2,      \* fork_zero_fucks is between its two forks
  handler,    \* handler[c]: how far daemon_accept is
  got,        \* got[c]: the fields it has read
  from,       \* from[c]: daemon_from_uid in the processes of the connection
  replies,    \* replies[c]: what it has written
  child,      \* child[c]: in daemon_accept, waiting for su, or exited
  su,         \* su[c]: the su that decides, and the command
  slave,      \* slave[c]: who has the slave side of the terminal open
  broken,     \* history: a signal ended the client, the child or su
  stops       \* history: stops so far

clientSide == <<client, sent, result>>
daemonSide == <<backlog, daemon, fork2>>
handlerSide == <<handler, got, from, replies>>
commandSide == <<child, su, slave>>
vars == <<clientSide, daemonSide, handlerSide, commandSide, broken,
          stops>>

None == -1
Killed == 256                          \* the status of a signal's victim
Running == -2
Starting == -3
Opened == -4
Statuses == 0..255 \cup {Killed}

(* WEXITSTATUS: of a process that a signal ended it is 0.                  *)
ExitStatusFaulty(s) == s             \* mutant: the status as it is

ExitStatus(s) == IF s = Killed THEN 0 ELSE s

-----------------------------------------------------------------------------
(* The message of connect_daemon: a header (who asks, the streams, how     *)
(* many arguments), and the arguments, but for the second one if           *)
(* MOUNT_EMULATED_STORAGE is in the environment.                           *)
Args(c) ==
  LET a == request[c].args IN
    IF request[c].mount /\ Len(a) > 1 THEN <<a[1]>> \o SubSeq(a, 3, Len(a))
    ELSE a

Argc(c) == IF request[c].mount THEN Len(request[c].args) - 1
                               ELSE Len(request[c].args)

Message(c) ==
  <<[uid |-> uid[c], tty |-> request[c].tty, argc |-> Argc(c)]>> \o Args(c)

(* What daemon_accept makes of it: how many fields it reads, who asks (the *)
(* message's word if the peer is root, else its credentials, which are     *)
(* those of the effective user), what for.                                 *)
Wanted(c) == IF got[c] = 0 THEN 1 ELSE 1 + Message(c)[1].argc

FromUidFaulty(c) == euid[c]          \* mutant: the credentials of anybody

FromUid(c) == IF euid[c] = Root THEN Message(c)[1].uid ELSE euid[c]
Argv(c) == SubSeq(Message(c), 2, got[c])

ClientTypes ==
  /\ client \in [Clients -> {"connect", "send", "ack", "pump", "code", "ended"}]
  /\ sent \in [Clients -> Nat]
  /\ result \in [Clients -> {None} \cup 0..255]

DaemonTypes ==
  backlog \in Seq(Clients) /\ daemon \in {"accept", "gone"} \cup Clients /\ fork2 \in BOOLEAN

HandlerTypes ==
  /\ handler \in [Clients -> {"none", "read", "fork", "wait", "gone"}]
  /\ got \in [Clients -> Nat] /\ from \in [Clients -> Nat]
  /\ replies \in [Clients -> Seq({None} \cup 0..255)]

CommandTypes ==
  /\ child \in [Clients -> {None, Starting, Opened, Running} \cup Statuses]
  /\ su \in [Clients -> {None, Running} \cup Statuses]
  /\ slave \in [Clients -> {"unopened", "open", "closed"}]

TypeOK ==
  /\ ClientTypes /\ DaemonTypes /\ HandlerTypes /\ CommandTypes
  /\ broken \in [Clients -> BOOLEAN] /\ stops \in Nat

Init ==
  /\ client = [c \in Clients |-> "connect"]
  /\ sent = [c \in Clients |-> 0]
  /\ result = [c \in Clients |-> None]
  /\ backlog = <<>> /\ daemon = "accept" /\ fork2 = FALSE
  /\ handler = [c \in Clients |-> "none"]
  /\ got = [c \in Clients |-> 0]
  /\ from = [c \in Clients |-> Root]
  /\ replies = [c \in Clients |-> <<>>]
  /\ child = [c \in Clients |-> None]
  /\ su = [c \in Clients |-> None]
  /\ slave = [c \in Clients |-> "unopened"]
  /\ broken = [c \in Clients |-> FALSE]
  /\ stops = 0

(* Somebody has the daemon's end of the connection open.                   *)
Held(c) ==
  \/ \E i \in 1..Len(backlog) : backlog[i] = c
  \/ daemon = c
  \/ handler[c] \in {"read", "fork", "wait"}
  \/ child[c] = Starting

-----------------------------------------------------------------------------
(* The client.  Its parent passes on how it has ended.                     *)
End(c, s) ==
  /\ client' = [client EXCEPT ![c] = "ended"]
  /\ result' = [result EXCEPT ![c] = ExitStatus(s)]

Breaks(c) == broken' = [broken EXCEPT ![c] = TRUE]

Connect(c) ==
  /\ client[c] = "connect" /\ daemon # "gone" /\ Len(backlog) < Backlog
  /\ backlog' = Append(backlog, c)
  /\ client' = [client EXCEPT ![c] = "send"]
  /\ UNCHANGED <<sent, result, daemon, fork2, handlerSide,
                 commandSide, broken, stops>>

(* No process to run in, nobody to connect to, or no terminal.             *)
ClientFails(c) ==
  /\ \/ client[c] = "connect" /\ End(c, 1)
     \/ client[c] = "connect" /\ End(c, 255)
     \/ client[c] = "send" /\ sent[c] = 0 /\ request[c].tty /\ End(c, 255)
  /\ UNCHANGED <<sent, daemonSide, handlerSide, commandSide, broken,
                 stops>>

(* Writing to a connection that is closed at the other end is a SIGPIPE.   *)
SendField(c) ==
  /\ client[c] = "send"
  /\ \/ /\ Held(c)
        /\ sent' = [sent EXCEPT ![c] = @ + 1]
        /\ client' = [client EXCEPT ![c] =
                        IF sent'[c] = Len(Message(c)) THEN "ack" ELSE @]
        /\ UNCHANGED <<result, broken>>
     \/ /\ ~Held(c)
        /\ End(c, Killed) /\ Breaks(c)
        /\ sent' = sent
  /\ UNCHANGED <<daemonSide, handlerSide, commandSide, stops>>

(* read_int: the next reply, or the end of the stream.                     *)
ReadAck(c) ==
  /\ client[c] = "ack"
  /\ \/ /\ Len(replies[c]) > 0
        /\ client' = [client EXCEPT ![c] = IF request[c].tty THEN "pump"
                                                              ELSE "code"]
        /\ result' = result
     \/ /\ Len(replies[c]) = 0 /\ ~Held(c)
        /\ End(c, 255)
  /\ UNCHANGED <<sent, daemonSide, handlerSide, commandSide, broken,
                 stops>>

(* pump_stdout_blocking reads until the other side of the terminal has     *)
(* been opened and closed.                                                 *)
Pump(c) ==
  /\ client[c] = "pump" /\ slave[c] = "closed"
  /\ client' = [client EXCEPT ![c] = "code"]
  /\ UNCHANGED <<sent, result, daemonSide, handlerSide, commandSide,
                 broken, stops>>

ReadCode(c) ==
  /\ client[c] = "code"
  /\ \/ Len(replies[c]) > 1 /\ End(c, replies[c][2] % 256)
     \/ Len(replies[c]) < 2 /\ ~Held(c) /\ End(c, 255)
  /\ UNCHANGED <<sent, daemonSide, handlerSide, commandSide, broken,
                 stops>>

(* A signal: the pump ends, or the read of the code, or the client.        *)
Interrupt(c) ==
  /\ \/ /\ client[c] = "pump"
        /\ client' = [client EXCEPT ![c] = "code"]
        /\ UNCHANGED <<result, broken>>
     \/ client[c] = "code" /\ request[c].tty /\ End(c, 255) /\ broken' = broken
     \/ client[c] # "ended" /\ End(c, Killed) /\ Breaks(c)
  /\ UNCHANGED <<sent, daemonSide, handlerSide, commandSide, stops>>

-----------------------------------------------------------------------------
(* run_daemon, and fork_zero_fucks: the daemon waits for a child that only *)
(* forks the handler.                                                      *)
Accept ==
  /\ daemon = "accept" /\ backlog # <<>>
  /\ backlog' = Tail(backlog)
  /\ \/ daemon' = Head(backlog) /\ fork2' = TRUE
     \/ UNCHANGED <<daemon, fork2>>                        \* fork fails
  /\ UNCHANGED <<clientSide, handlerSide, commandSide, broken, stops>>

ForkHandler(c) ==
  /\ daemon = c /\ fork2
  /\ fork2' = FALSE
  /\ \/ handler' = [handler EXCEPT ![c] = "read"]
     \/ handler' = handler
  /\ UNCHANGED <<clientSide, backlog, daemon, got, from, replies,
                 commandSide, broken, stops>>

ReapFaulty(c) ==                     \* mutant: the handler is forked directly
  /\ daemon = c /\ ~fork2 /\ handler[c] \in {"none", "gone"}
  /\ daemon' = "accept"
  /\ UNCHANGED <<clientSide, backlog, fork2, handlerSide, commandSide,
                 broken, stops>>

Reap(c) ==
  /\ daemon = c /\ ~fork2
  /\ daemon' = "accept"
  /\ UNCHANGED <<clientSide, backlog, fork2, handlerSide, commandSide,
                 broken, stops>>

(* accept fails; or init stops the service with every process of its group. *)
Gone == daemon' = "gone" /\ backlog' = <<>> /\ fork2' = FALSE

AcceptFails ==
  /\ daemon = "accept" /\ stops < MaxStops
  /\ Gone /\ stops' = stops + 1
  /\ UNCHANGED <<clientSide, handlerSide, commandSide, broken>>

Alive(c) == handler[c] \in {"read", "fork", "wait"}

Stop ==
  /\ daemon # "gone" /\ stops < MaxStops
  /\ Gone /\ stops' = stops + 1
  /\ handler' = [c \in Clients |-> IF Alive(c) THEN "gone" ELSE handler[c]]
  /\ UNCHANGED <<clientSide, got, from, replies, commandSide, broken>>

StartDaemon ==
  /\ daemon = "gone"
  /\ daemon' = "accept"
  /\ UNCHANGED <<clientSide, backlog, fork2, handlerSide, commandSide,
                 broken, stops>>

-----------------------------------------------------------------------------
(* daemon_accept, in the handler.                                          *)
ReadFieldFaulty(c) ==                \* mutant: the end of the stream is ignored
  /\ handler[c] = "read" /\ got[c] < Wanted(c) /\ got[c] < sent[c]
  /\ got' = [got EXCEPT ![c] = @ + 1] /\ from' = [from EXCEPT ![c] = FromUid(c)]
  /\ UNCHANGED <<clientSide, daemonSide, handler, replies, commandSide,
                 broken, stops>>

ReadField(c) ==
  /\ handler[c] = "read" /\ got[c] < Wanted(c)
  /\ \/ /\ got[c] < sent[c]
        /\ got' = [got EXCEPT ![c] = @ + 1]
        /\ from' = [from EXCEPT ![c] = IF got[c] = 0 THEN FromUid(c) ELSE @]
        /\ handler' = [handler EXCEPT ![c] =
                         IF got'[c] = 1 /\ Argc(c) > MaxArgs THEN "gone" ELSE @]
     \/ /\ got[c] = sent[c] /\ client[c] = "ended"
        /\ handler' = [handler EXCEPT ![c] = "gone"]
        /\ UNCHANGED <<got, from>>
  /\ UNCHANGED <<clientSide, daemonSide, replies, commandSide, broken,
                 stops>>

(* A write, of which a client that has ended is a SIGPIPE.                 *)
Reply(c, n, then) ==
  IF client[c] = "ended"
  THEN /\ handler' = [handler EXCEPT ![c] = "gone"]
       /\ replies' = replies
  ELSE /\ handler' = [handler EXCEPT ![c] = then]
       /\ replies' = [replies EXCEPT ![c] = Append(@, n)]

Ack(c) ==
  /\ handler[c] = "read" /\ got[c] = Wanted(c)
  /\ Reply(c, 1, "fork")
  /\ UNCHANGED <<clientSide, daemonSide, got, from, commandSide, broken,
                 stops>>

ForkChild(c) ==
  /\ handler[c] = "fork"
  /\ \/ /\ handler' = [handler EXCEPT ![c] = "wait"]
        /\ child' = [child EXCEPT ![c] = Starting]
        /\ replies' = replies
     \/ Reply(c, None, "gone") /\ child' = child
  /\ UNCHANGED <<clientSide, daemonSide, got, from, su, slave, broken,
                 stops>>

SendCodeFaulty(c) ==                 \* mutant: the status as it is
  /\ handler[c] = "wait" /\ child[c] \in Statuses
  /\ Reply(c, 256 * child[c], "gone")
  /\ UNCHANGED <<clientSide, daemonSide, got, from, commandSide, broken,
                 stops>>

SendCode(c) ==
  /\ handler[c] = "wait" /\ child[c] \in Statuses
  /\ Reply(c, ExitStatus(child[c]), "gone")
  /\ UNCHANGED <<clientSide, daemonSide, got, from, commandSide, broken,
                 stops>>

-----------------------------------------------------------------------------
(* daemon_accept, in the child: it closes the connection and opens the     *)
(* terminal.                                                               *)
OpenTerminal(c) ==
  /\ child[c] = Starting
  /\ \/ /\ request[c].tty => client[c] # "ended"
        /\ child' = [child EXCEPT ![c] = Opened]
        /\ slave' = [slave EXCEPT ![c] = IF request[c].tty THEN "open" ELSE @]
     \/ /\ request[c].tty
        /\ child' = [child EXCEPT ![c] = 255]
        /\ slave' = slave
  /\ UNCHANGED <<clientSide, daemonSide, handlerSide, su, broken, stops>>

(* The kernel closes the terminal of the last process that has it open.    *)
ClosedBy(c) == [slave EXCEPT ![c] = IF @ = "open" THEN "closed" ELSE @]

(* run_daemon_child moves the streams, and su_main forks the su that       *)
(* decides; dup2 or fork may fail.                                         *)
RunDaemonChild(c) ==
  /\ child[c] = Opened
  /\ \/ /\ child' = [child EXCEPT ![c] = Running]
        /\ su' = [su EXCEPT ![c] = Running]
        /\ slave' = slave
     \/ /\ \E s \in {1, 255} : child' = [child EXCEPT ![c] = s]
        /\ slave' = ClosedBy(c)
        /\ su' = su
  /\ UNCHANGED <<clientSide, daemonSide, handlerSide, broken, stops>>

(* su refuses, or it allows and the command ends; a signal may end both.   *)
SuEnds(c) ==
  /\ su[c] = Running
  /\ \/ \E n \in Codes : su' = [su EXCEPT ![c] = n] /\ broken' = broken
     \/ su' = [su EXCEPT ![c] = Killed] /\ Breaks(c)
  /\ UNCHANGED <<clientSide, daemonSide, handlerSide, child, slave,
                 stops>>

(* fork_for_samsung.                                                       *)
ReapSuFaulty(c) ==                   \* mutant: the status of a wait that failed
  /\ child[c] = Running
  /\ child' = [child EXCEPT ![c] = IF su[c] = Running THEN 0 ELSE ExitStatus(su[c])]
  /\ UNCHANGED <<clientSide, daemonSide, handlerSide, su, slave,
                 broken, stops>>

ReapSu(c) ==
  /\ child[c] = Running /\ su[c] # Running
  /\ child' = [child EXCEPT ![c] = ExitStatus(su[c])]
  /\ UNCHANGED <<clientSide, daemonSide, handlerSide, su, slave,
                 broken, stops>>

KillChild(c) ==
  /\ child[c] \in {Starting, Opened, Running}
  /\ child' = [child EXCEPT ![c] = Killed]
  /\ slave' = IF su[c] = None THEN ClosedBy(c) ELSE slave
  /\ Breaks(c)
  /\ UNCHANGED <<clientSide, daemonSide, handlerSide, su, stops>>

(* What the command has left running may keep the terminal open.           *)
Release(c) ==
  /\ slave[c] = "open" /\ su[c] \in Statuses /\ child[c] # Running
  /\ slave' = [slave EXCEPT ![c] = "closed"]
  /\ UNCHANGED <<clientSide, daemonSide, handlerSide, child, su,
                 broken, stops>>

-----------------------------------------------------------------------------
ClientStep(c) == \/ Connect(c) \/ ClientFails(c) \/ SendField(c) \/ ReadAck(c)
                 \/ Pump(c) \/ ReadCode(c)
DaemonStep == Accept \/ \E c \in Clients : ForkHandler(c) \/ Reap(c)
HandlerStep(c) == ReadField(c) \/ Ack(c) \/ ForkChild(c) \/ SendCode(c)
ChildStep(c) == OpenTerminal(c) \/ RunDaemonChild(c) \/ ReapSu(c)
ServerStep(c) == HandlerStep(c) \/ ChildStep(c)   \* one waits for the other

Next ==
  \/ DaemonStep \/ AcceptFails \/ Stop \/ StartDaemon
  \/ \E c \in Clients :
       \/ ClientStep(c) \/ ServerStep(c)
       \/ Interrupt(c) \/ SuEnds(c) \/ KillChild(c) \/ Release(c)

Spec == Init /\ [][Next]_vars

(* Every process runs that is not waiting; nothing is assumed of the       *)
(* command, of what it leaves behind, or of signals.                       *)
FairSpec ==
  /\ Spec
  /\ WF_vars(DaemonStep)
  /\ \A c \in Clients : WF_vars(ClientStep(c)) /\ WF_vars(ServerStep(c))

-----------------------------------------------------------------------------
(* The su that is run for a client has its whole request: the user who     *)
(* runs the client, whether that is root in effect or not (daemon.c:298),  *)
(* and its arguments but for the one that was dropped.  The exception is a     *)
(* command line without arguments, of which nothing is left to drop: its   *)
(* name is counted out and sent (daemon.c:630-639).                        *)
Asked(c) ==
  LET a == request[c].args IN
    IF request[c].mount THEN <<a[1]>> \o SubSeq(a, 3, Len(a)) ELSE a

RequestArrives ==
  \A c \in Clients :
    su[c] # None =>
      /\ from[c] = uid[c]
      /\ ~(request[c].mount /\ Len(request[c].args) = 1) => Argv(c) = Asked(c)

(* "wait for the child to exit, and send the exit code across the wire"    *)
(* (daemon.c:339): the status the invoker sees is the command's, or it     *)
(* tells of a failure.  The exception is a chain that a signal has broken: *)
(* WEXITSTATUS makes a success of it (daemon.c:347, su.c:643).             *)
StatusOfCommand ==
  \A c \in Clients :
    result[c] \notin {None, 1, 255} /\ ~broken[c]
      => su[c] = result[c]

(* Seen by the invoker all this is one call: what he asked for is run at   *)
(* most once, in his name, and he is told once how it has ended            *)
(* (su.c:614-643, daemon.c:314-352).                                       *)
Requested(c) ==
  [who |-> uid[c],
   argv |-> IF request[c].mount /\ Len(request[c].args) = 1 THEN <<>> ELSE Asked(c)]

Executed(c) ==
  IF su[c] = None THEN {} ELSE {[who |-> from[c], argv |-> Argv(c)]}

Call == INSTANCE RemoteCall WITH
  Callers <- Clients,
  asked <- [c \in Clients |-> Requested(c)],
  Failures <- {1, 255},
  ran <- [c \in Clients |-> Executed(c)],
  status <- su,
  answer <- result,
  cut <- broken

ImplementsCall == Call!Spec

(* However long another client's command runs, the daemon takes the next.  *)
Served ==
  \A c \in Clients :
    (\E i \in 1..Len(backlog) : backlog[i] = c)
      ~> ~\E i \in 1..Len(backlog) : backlog[i] = c

(* No process of a chain waits for ever, except for a command that runs or *)
(* has left something running; whoever dies, and also while the daemon is  *)
(* stopped.  The exception is a client that pumps a terminal of which the  *)
(* other side was never opened (daemon.c:649).                             *)
Unopened(c) == client[c] = "pump" /\ slave[c] = "unopened" /\ ~Held(c)

NobodyWaits ==
  \A c \in Clients :
    []<>(\/ su[c] = Running
         \/ ~Alive(c) /\ (client[c] = "ended" \/ slave[c] = "open" \/ Unopened(c)))
=============================================================================
