-------------------------- MODULE SuDaemon_proofs --------------------------
(***************************************************************************)
(* Type correctness of SuDaemon, and that for any number of clients,       *)
(* requests and restarts of the daemon a request arrives as it was made    *)
(* and the status of its command comes back.                               *)
(***************************************************************************)
EXTENDS SuDaemon, SequenceTheorems, TLAPS

-----------------------------------------------------------------------------
(* A connection is handed on once: from the queue to the daemon, and from  *)
(* it to one handler.                                                      *)
Fresh(c) == handler[c] = "none" /\ client[c] # "connect"

Queued ==
  /\ \A i \in 1..Len(backlog) : Fresh(backlog[i])
  /\ \A i, j \in 1..Len(backlog) : backlog[i] = backlog[j] => i = j
  /\ fork2 => /\ daemon \in Clients /\ Fresh(daemon)
              /\ \A i \in 1..Len(backlog) : backlog[i] # daemon

(* What each handler has done so far.                                      *)
Handled(c) ==
  /\ client[c] = "connect" => handler[c] = "none"
  /\ handler[c] = "none" => got[c] = 0
  /\ handler[c] \in {"none", "read"} => replies[c] = <<>> /\ child[c] = None
  /\ handler[c] = "fork" => Len(replies[c]) = 1 /\ child[c] = None
  /\ handler[c] = "wait" => Len(replies[c]) = 1
  /\ handler[c] \in {"fork", "wait"} \/ child[c] # None => got[c] = 1 + Argc(c)
  /\ child[c] \in {None, Starting, Opened} => su[c] = None

(* Unless a signal has broken the chain, every status on the way back is   *)
(* that of the command or tells of a failure.                              *)
Failure == {None, 1, 255}

Back(c) ==
  /\ child[c] = Killed \/ su[c] = Killed => broken[c]
  /\ child[c] \in 0..255 /\ ~broken[c] => child[c] \in Failure \/ su[c] = child[c]
  /\ Len(replies[c]) > 1 /\ ~broken[c]
       => replies[c][2] \in Failure \/ su[c] = replies[c][2]
  /\ client[c] # "ended" => result[c] = None
  /\ result[c] \notin Failure /\ ~broken[c] => su[c] = result[c]

(* Who asks is known from the first field on.                              *)
Known(c) == got[c] # 0 => from[c] = uid[c]

IInv ==
  /\ TypeOK
  /\ Queued
  /\ \A c \in Clients : Known(c)
  /\ \A c \in Clients : Handled(c)
  /\ \A c \in Clients : Back(c)
-----------------------------------------------------------------------------
(* What the definitions of the message amount to.                          *)
LEMMA ExitType == \A s \in Statuses : ExitStatus(s) \in 0..255 /\ (s # Killed => ExitStatus(s) = s)
  BY DEF Statuses, ExitStatus, Killed

LEMMA ExitOfFailure == ExitStatus(1) = 1 /\ ExitStatus(255) = 255
  BY DEF ExitStatus, Killed

LEMMA ExitOfNone == ExitStatus(None) = None
  BY DEF ExitStatus, None, Killed

LEMMA FailureStatus == 1 \in Statuses /\ 255 \in Statuses
  BY DEF Statuses

(* What ReadCode makes of a reply.                                         *)
LEMMA CodeRead ==
  ASSUME NEW c \in Clients, HandlerTypes, Len(replies[c]) > 1
  PROVE  /\ replies[c][2] \in {None} \cup 0..255
         /\ replies[c][2] % 256 \in 0..255 /\ ExitStatus(replies[c][2] % 256) \in 0..255
         /\ ExitStatus(replies[c][2] % 256) = replies[c][2] % 256
         /\ IF replies[c][2] = None THEN replies[c][2] % 256 = 255
                                     ELSE replies[c][2] % 256 = replies[c][2]
<1>1. replies[c] \in Seq({None} \cup 0..255)
  BY DEF HandlerTypes
<1>2. replies[c][2] \in {None} \cup 0..255
  <2>. DEFINE R == {None} \cup 0..255
              s == replies[c]
  <2>1. s \in Seq(R) /\ Len(s) > 1
    BY <1>1
  <2>. HIDE DEF R, s
  <2>2. s[2] \in R
    BY <2>1
  <2>. QED  BY <2>2 DEF R, s
<1>3. ASSUME NEW n \in {None} \cup 0..255
      PROVE  /\ n % 256 \in 0..255
             /\ IF n = None THEN n % 256 = 255 ELSE n % 256 = n
  <2>1. CASE n = None
    <3>1. \A a \in Int : a % 256 \in 0..255 /\ \E q \in Int : a = 256 * q + (a % 256)
      OBVIOUS
    <3>2. n \in Int /\ n = -1
      BY <2>1 DEF None
    <3>3. n % 256 \in 0..255 /\ \E q \in Int : -1 = 256 * q + (n % 256)
      BY <3>1, <3>2, ZenonT(30)
    <3>4. \A r \in 0..255, q \in Int : -1 = 256 * q + r => r = 255
      OBVIOUS
    <3>5. n % 256 = 255
      BY <3>3, <3>4
    <3>. QED  BY <2>1, <3>5
  <2>2. CASE n \in 0..255
    <3>1. n % 256 = n /\ n # -1
      BY <2>2
    <3>. QED  BY <3>1, <2>2 DEF None
  <2>. QED  BY <2>1, <2>2
<1>4. ASSUME NEW m \in 0..255 PROVE ExitStatus(m) = m
  <2>1. m # 256
    OBVIOUS
  <2>. QED  BY <2>1 DEF ExitStatus, Killed
<1>. DEFINE m == replies[c][2]
<1>5. m % 256 \in 0..255 /\ IF m = None THEN m % 256 = 255 ELSE m % 256 = m
  BY <1>2, <1>3
<1>6. ExitStatus(m % 256) = m % 256
  BY <1>4, <1>5
<1>. QED  BY <1>2, <1>5, <1>6

LEMMA ArgsType ==
  ASSUME NEW c \in Clients
  PROVE  /\ request[c].args \in Seq(Word) /\ Len(request[c].args) > 0
         /\ Args(c) \in Seq(Word)
         /\ Argc(c) \in Nat
<1>1. request[c] \in Request /\ Len(request[c].args) > 0
  BY RequestAssumption
<1>2. request[c].args \in Seq(Word) /\ request[c].mount \in BOOLEAN
  BY <1>1 DEF Request
<1>3. Args(c) \in Seq(Word)
  BY <1>1, <1>2 DEF Args
<1>4. Argc(c) \in Nat
  BY <1>1, <1>2 DEF Argc
<1>. QED  BY <1>1, <1>2, <1>3, <1>4

LEMMA Header ==
  ASSUME NEW c \in Clients
  PROVE  Message(c)[1].argc = Argc(c) /\ Message(c)[1].uid = uid[c]
<1>1. Message(c)[1] = [uid |-> uid[c], tty |-> request[c].tty, argc |-> Argc(c)]
  BY ArgsType DEF Message
<1>. QED  BY <1>1

(* The two sources of the daemon agree on the user who asks.               *)
LEMMA WhoAsks ==
  ASSUME NEW c \in Clients
  PROVE  FromUid(c) = uid[c]
<1>1. euid[c] \in {uid[c], Root}
  BY UidAssumption
<1>. QED  BY <1>1, Header DEF FromUid

(* The words of the command line follow the header.                        *)
LEMMA Words ==
  ASSUME NEW c \in Clients, Len(Args(c)) = Argc(c)
  PROVE  SubSeq(Message(c), 2, 1 + Argc(c)) = Args(c)
  BY ArgsType DEF Message

(* The count that is sent is that of the words, but for the exception.     *)
LEMMA Count ==
  ASSUME NEW c \in Clients, ~(request[c].mount /\ Len(request[c].args) = 1)
  PROVE  Len(Args(c)) = Argc(c)
<1>. DEFINE a == request[c].args
<1>1. a \in Seq(Word) /\ Len(a) \in Nat /\ Len(a) > 0
  BY ArgsType
<1>2. CASE ~request[c].mount
  BY <1>1, <1>2 DEF Args, Argc
<1>3. CASE request[c].mount
  <2>1. Len(a) > 1
    <3>1. Len(a) # 1
      BY <1>3, Zenon
    <3>2. \A n \in Nat : n > 0 /\ n # 1 => n > 1
      OBVIOUS
    <3>. QED  BY <1>1, <3>1, <3>2, Zenon
  <2>2. SubSeq(a, 3, Len(a)) \in Seq(Word) /\ Len(SubSeq(a, 3, Len(a))) = Len(a) - 2
    <3>1. \A i \in 3..Len(a) : a[i] \in Word
      BY <1>1
    <3>. QED  BY <1>1, <2>1, <3>1, SubSeqProperties
  <2>3. <<a[1]>> \in Seq(Word) /\ Len(<<a[1]>>) = 1
    BY <1>1, <2>1
  <2>4. Len(<<a[1]>> \o SubSeq(a, 3, Len(a))) = Len(a) - 1
    BY <2>2, <2>3, <1>1
  <2>. QED  BY <2>1, <2>4, <1>3 DEF Args, Argc
<1>. QED  BY <1>2, <1>3

-----------------------------------------------------------------------------
LEMMA TypeInit == Init => TypeOK
<1>. SUFFICES ASSUME Init PROVE TypeOK
  OBVIOUS
<1>1. ClientTypes
  <2>1. client \in [Clients -> {"connect", "send", "ack", "pump", "code", "ended"}]
    BY DEF Init
  <2>2. sent \in [Clients -> Nat] /\ result \in [Clients -> {None} \cup 0..255]
    BY DEF Init
  <2>. QED  BY <2>1, <2>2 DEF ClientTypes
<1>2. DaemonTypes
  <2>1. backlog \in Seq(Clients)
    BY DEF Init
  <2>. QED  BY <2>1 DEF Init, DaemonTypes
<1>3. HandlerTypes
  <2>1. handler \in [Clients -> {"none", "read", "fork", "wait", "gone"}]
    BY DEF Init
  <2>2. got \in [Clients -> Nat]
    BY DEF Init
  <2>3. replies \in [Clients -> Seq({None} \cup 0..255)]
    BY DEF Init
  <2>4. from \in [Clients -> Nat]
    BY DEF Init, Root
  <2>. QED  BY <2>1, <2>2, <2>3, <2>4 DEF HandlerTypes
<1>4. CommandTypes
  BY DEF Init, CommandTypes
<1>. QED  BY <1>1, <1>2, <1>3, <1>4 DEF Init, TypeOK

(* A step that leaves a process alone leaves its types alone.              *)
LEMMA TypeFrame ==
  ASSUME TypeOK
  PROVE  /\ UNCHANGED clientSide => ClientTypes'
         /\ UNCHANGED daemonSide => DaemonTypes'
         /\ UNCHANGED handlerSide => HandlerTypes'
         /\ UNCHANGED commandSide => CommandTypes'
<1>1. UNCHANGED clientSide => ClientTypes'
  BY DEF TypeOK, clientSide, ClientTypes
<1>2. UNCHANGED daemonSide => DaemonTypes'
  BY DEF TypeOK, daemonSide, DaemonTypes
<1>3. UNCHANGED handlerSide => HandlerTypes'
  BY DEF TypeOK, handlerSide, HandlerTypes
<1>4. UNCHANGED commandSide => CommandTypes'
  BY DEF TypeOK, commandSide, CommandTypes
<1>. QED  BY <1>1, <1>2, <1>3, <1>4

(* The ways in which a client moves on, or ends.                           *)
LEMMA ClientMoves ==
  ASSUME NEW c \in Clients, ClientTypes,
         NEW p \in {"send", "ack", "pump", "code"}, client' = [client EXCEPT ![c] = p],
         sent' = sent \/ sent' = [sent EXCEPT ![c] = @ + 1], result' = result
  PROVE  ClientTypes'
<1>1. client' \in [Clients -> {"connect", "send", "ack", "pump", "code", "ended"}]
  BY DEF ClientTypes
<1>2. sent' \in [Clients -> Nat]
  BY DEF ClientTypes
<1>. QED  BY <1>1, <1>2 DEF ClientTypes

LEMMA ClientEnds ==
  ASSUME NEW c \in Clients, ClientTypes, NEW s, End(c, s), ExitStatus(s) \in 0..255,
         sent' = sent
  PROVE  ClientTypes'
<1>1. client' \in [Clients -> {"connect", "send", "ack", "pump", "code", "ended"}]
  BY DEF ClientTypes, End
<1>2. result' = [result EXCEPT ![c] = ExitStatus(s)]
  BY DEF End
<1>3. result' \in [Clients -> {None} \cup 0..255]
  BY <1>2 DEF ClientTypes
<1>. QED  BY <1>1, <1>3 DEF ClientTypes

(* The ways in which a handler moves on.                                   *)
LEMMA HandlerMoves ==
  ASSUME NEW c \in Clients, HandlerTypes,
         NEW p \in {"none", "read", "fork", "wait", "gone"}, handler' = [handler EXCEPT ![c] = p],
         got' = got \/ got' = [got EXCEPT ![c] = @ + 1], replies' = replies,
         from' = from \/ from' = [from EXCEPT ![c] = IF got[c] = 0 THEN FromUid(c) ELSE @]
  PROVE  HandlerTypes'
<1>1. handler' \in [Clients -> {"none", "read", "fork", "wait", "gone"}]
  BY DEF HandlerTypes
<1>2. got' \in [Clients -> Nat]
  <2>1. got \in [Clients -> Nat] /\ got[c] + 1 \in Nat
    BY DEF HandlerTypes
  <2>2. got' = got \/ got' = [got EXCEPT ![c] = got[c] + 1]
    OBVIOUS
  <2>. QED  BY <2>1, <2>2
<1>3. from' \in [Clients -> Nat]
  <2>1. from \in [Clients -> Nat]
    BY DEF HandlerTypes
  <2>2. FromUid(c) \in Nat
    BY WhoAsks, UidAssumption
  <2>. QED  BY <2>1, <2>2
<1>. QED  BY <1>1, <1>2, <1>3 DEF HandlerTypes

LEMMA HandlerReplies ==
  ASSUME NEW c \in Clients, HandlerTypes, NEW n \in {None} \cup 0..255,
         NEW p \in {"fork", "gone"}, Reply(c, n, p), got' = got, from' = from
  PROVE  HandlerTypes'
<1>1. CASE client[c] = "ended"
  <2>1. handler' = [handler EXCEPT ![c] = "gone"] /\ replies' = replies
    BY <1>1 DEF Reply
  <2>. QED  BY <2>1, HandlerMoves
<1>2. CASE client[c] # "ended"
  <2>1. handler' = [handler EXCEPT ![c] = p] /\ replies' = [replies EXCEPT ![c] = Append(@, n)]
    BY <1>2 DEF Reply
  <2>2. handler' \in [Clients -> {"none", "read", "fork", "wait", "gone"}]
    BY <2>1 DEF HandlerTypes
  <2>3. replies' \in [Clients -> Seq({None} \cup 0..255)]
    <3>1. replies[c] \in Seq({None} \cup 0..255)
      BY DEF HandlerTypes
    <3>2. Append(replies[c], n) \in Seq({None} \cup 0..255)
      BY <3>1
    <3>3. replies' = [replies EXCEPT ![c] = Append(replies[c], n)]
      BY <2>1
    <3>. QED  BY <3>2, <3>3 DEF HandlerTypes
  <2>. QED  BY <2>2, <2>3 DEF HandlerTypes
<1>. QED  BY <1>1, <1>2

(* The child, su and the terminal.                                         *)
LEMMA CommandMoves ==
  ASSUME NEW c \in Clients, CommandTypes,
         NEW x \in {None, Starting, Opened, Running} \cup Statuses,
         NEW y \in {None, Running} \cup Statuses,
         child' = child \/ child' = [child EXCEPT ![c] = x],
         su' = su \/ su' = [su EXCEPT ![c] = y],
         slave' = slave \/ slave' = [slave EXCEPT ![c] = "open"]
           \/ slave' = [slave EXCEPT ![c] = "closed"] \/ slave' = ClosedBy(c)
  PROVE  CommandTypes'
<1>1. child' \in [Clients -> {None, Starting, Opened, Running} \cup Statuses]
  BY DEF CommandTypes
<1>2. su' \in [Clients -> {None, Running} \cup Statuses]
  BY DEF CommandTypes
<1>3. slave' \in [Clients -> {"unopened", "open", "closed"}]
  BY DEF CommandTypes, ClosedBy
<1>. QED  BY <1>1, <1>2, <1>3 DEF CommandTypes

LEMMA TypeStep == TypeOK /\ [Next]_vars => TypeOK'
<1>. SUFFICES ASSUME TypeOK, [Next]_vars PROVE TypeOK'
  OBVIOUS
<1>0. /\ ClientTypes /\ DaemonTypes /\ HandlerTypes /\ CommandTypes
      /\ broken \in [Clients -> BOOLEAN] /\ stops \in Nat
  BY DEF TypeOK
<1>1. CASE Accept
  <2>1. Tail(backlog) \in Seq(Clients) /\ Head(backlog) \in Clients
    BY <1>0, <1>1, HeadTailProperties DEF Accept, DaemonTypes
  <2>2. DaemonTypes'
    BY <1>0, <1>1, <2>1 DEF Accept, DaemonTypes
  <2>. QED  BY <1>0, <1>1, <2>2, TypeFrame DEF Accept, TypeOK
<1>2. ASSUME NEW c \in Clients, ForkHandler(c) PROVE TypeOK'
  <2>1. DaemonTypes'
    BY <1>0, <1>2 DEF ForkHandler, DaemonTypes
  <2>2. HandlerTypes'
    <3>1. CASE handler' = handler
      BY <1>0, <1>2, <3>1 DEF ForkHandler, HandlerTypes
    <3>2. CASE handler' = [handler EXCEPT ![c] = "read"]
      BY <1>0, <1>2, <3>2, HandlerMoves DEF ForkHandler
    <3>. QED  BY <1>2, <3>1, <3>2 DEF ForkHandler
  <2>. QED  BY <1>0, <1>2, <2>1, <2>2, TypeFrame DEF ForkHandler, TypeOK
<1>3. ASSUME NEW c \in Clients, Reap(c) PROVE TypeOK'
  <2>1. DaemonTypes'
    BY <1>0, <1>3 DEF Reap, DaemonTypes
  <2>. QED  BY <1>0, <1>3, <2>1, TypeFrame DEF Reap, TypeOK
<1>4. ASSUME Gone PROVE DaemonTypes'
  <2>1. backlog' \in Seq(Clients)
    BY <1>4 DEF Gone
  <2>. QED  BY <1>4, <2>1 DEF Gone, DaemonTypes
<1>5. CASE AcceptFails
  <2>1. stops' \in Nat
    BY <1>0, <1>5 DEF AcceptFails
  <2>. QED  BY <1>0, <1>4, <1>5, <2>1, TypeFrame DEF AcceptFails, TypeOK
<1>6. CASE Stop
  <2>1. stops' \in Nat
    BY <1>0, <1>6 DEF Stop
  <2>2. handler' \in [Clients -> {"none", "read", "fork", "wait", "gone"}]
    BY <1>0, <1>6 DEF Stop, HandlerTypes
  <2>3. HandlerTypes'
    BY <1>0, <1>6, <2>2 DEF Stop, HandlerTypes
  <2>. QED  BY <1>0, <1>4, <1>6, <2>1, <2>3, TypeFrame DEF Stop, TypeOK
<1>7. CASE StartDaemon
  <2>1. DaemonTypes'
    BY <1>0, <1>7 DEF StartDaemon, DaemonTypes
  <2>. QED  BY <1>0, <1>7, <2>1, TypeFrame DEF StartDaemon, TypeOK
<1>8. ASSUME NEW c \in Clients, Connect(c) PROVE TypeOK'
  <2>1. Append(backlog, c) \in Seq(Clients)
    BY <1>0 DEF DaemonTypes
  <2>2. DaemonTypes'
    BY <1>0, <1>8, <2>1 DEF Connect, DaemonTypes
  <2>3. ClientTypes'
    BY <1>0, <1>8, ClientMoves DEF Connect
  <2>. QED  BY <1>0, <1>8, <2>2, <2>3, TypeFrame DEF Connect, TypeOK
<1>9. ASSUME NEW c \in Clients, ClientFails(c) PROVE TypeOK'
  <2>1. sent' = sent /\ (End(c, 1) \/ End(c, 255))
    BY <1>9 DEF ClientFails
  <2>2. ClientTypes'
    BY <1>0, <2>1, ClientEnds, ExitOfFailure
  <2>. QED  BY <1>0, <1>9, <2>2, TypeFrame DEF ClientFails, TypeOK
<1>10. ASSUME NEW c \in Clients, SendField(c) PROVE TypeOK'
  <2>1. CASE ~Held(c)
    <3>1. sent' = sent /\ End(c, Killed) /\ Breaks(c)
      BY <1>10, <2>1 DEF SendField
    <3>2. ClientTypes'
      BY <1>0, <3>1, ClientEnds, ExitType DEF Statuses
    <3>3. broken' \in [Clients -> BOOLEAN]
      BY <1>0, <3>1 DEF Breaks
    <3>. QED  BY <1>0, <1>10, <3>2, <3>3, TypeFrame DEF SendField, TypeOK
  <2>2. CASE Held(c)
    <3>. DEFINE p == IF sent'[c] = Len(Message(c)) THEN "ack" ELSE client[c]
    <3>1. /\ client[c] = "send" /\ result' = result /\ broken' = broken
          /\ sent' = [sent EXCEPT ![c] = @ + 1] /\ client' = [client EXCEPT ![c] = p]
      BY <1>10, <2>2 DEF SendField
    <3>2. p \in {"send", "ack", "pump", "code"}
      BY <3>1
    <3>. HIDE DEF p
    <3>3. ClientTypes'
      BY <1>0, <3>1, <3>2, ClientMoves
    <3>. QED  BY <1>0, <1>10, <3>1, <3>3, TypeFrame DEF SendField, TypeOK
  <2>. QED  BY <2>1, <2>2
<1>11. ASSUME NEW c \in Clients, ReadAck(c) PROVE TypeOK'
  <2>1. CASE Len(replies[c]) > 0
    <3>. DEFINE p == IF request[c].tty THEN "pump" ELSE "code"
    <3>1. client' = [client EXCEPT ![c] = p] /\ result' = result /\ sent' = sent
      BY <1>11, <2>1 DEF ReadAck
    <3>2. p \in {"send", "ack", "pump", "code"}
      OBVIOUS
    <3>. HIDE DEF p
    <3>3. ClientTypes'
      BY <1>0, <3>1, <3>2, ClientMoves
    <3>. QED  BY <1>0, <1>11, <3>3, TypeFrame DEF ReadAck, TypeOK
  <2>2. CASE ~(Len(replies[c]) > 0)
    <3>1. End(c, 255) /\ sent' = sent
      BY <1>11, <2>2 DEF ReadAck
    <3>2. ClientTypes'
      BY <1>0, <3>1, ClientEnds, ExitOfFailure
    <3>. QED  BY <1>0, <1>11, <3>2, TypeFrame DEF ReadAck, TypeOK
  <2>. QED  BY <2>1, <2>2
<1>12. ASSUME NEW c \in Clients, Pump(c) PROVE TypeOK'
  <2>1. ClientTypes'
    BY <1>0, <1>12, ClientMoves DEF Pump
  <2>. QED  BY <1>0, <1>12, <2>1, TypeFrame DEF Pump, TypeOK
<1>13. ASSUME NEW c \in Clients, ReadCode(c) PROVE TypeOK'
  <2>1. sent' = sent /\ ((Len(replies[c]) > 1 /\ End(c, replies[c][2] % 256)) \/ End(c, 255))
    BY <1>13 DEF ReadCode
  <2>2. ASSUME Len(replies[c]) > 1
        PROVE  ExitStatus(replies[c][2] % 256) \in 0..255
    BY <1>0, <2>2, CodeRead, ZenonT(30)
  <2>3. ClientTypes'
    BY <1>0, <2>1, <2>2, ClientEnds, ExitOfFailure
  <2>. QED  BY <1>0, <1>13, <2>3, TypeFrame DEF ReadCode, TypeOK
<1>14. ASSUME NEW c \in Clients, ReadField(c) PROVE TypeOK'
  <2>. PICK p \in {handler[c], "gone"} :
         /\ handler' = [handler EXCEPT ![c] = p]
         /\ got' = got \/ got' = [got EXCEPT ![c] = @ + 1]
         /\ from' = from
              \/ from' = [from EXCEPT ![c] = IF got[c] = 0 THEN FromUid(c) ELSE @]
         /\ replies' = replies /\ handler[c] = "read"
    BY <1>14 DEF ReadField
  <2>1. HandlerTypes'
    BY <1>0, HandlerMoves
  <2>. QED  BY <1>0, <1>14, <2>1, TypeFrame DEF ReadField, TypeOK
<1>15. ASSUME NEW c \in Clients, Ack(c) PROVE TypeOK'
  <2>1. HandlerTypes'
    BY <1>0, <1>15, HandlerReplies DEF Ack
  <2>. QED  BY <1>0, <1>15, <2>1, TypeFrame DEF Ack, TypeOK
<1>16. ASSUME NEW c \in Clients, ForkChild(c) PROVE TypeOK'
  <2>1. CASE handler' = [handler EXCEPT ![c] = "wait"] /\ replies' = replies
               /\ child' = [child EXCEPT ![c] = Starting]
    <3>1. HandlerTypes'
      BY <1>0, <1>16, <2>1, HandlerMoves DEF ForkChild
    <3>2. CommandTypes'
      BY <1>0, <1>16, <2>1, CommandMoves DEF ForkChild
    <3>. QED  BY <1>0, <1>16, <3>1, <3>2, TypeFrame DEF ForkChild, TypeOK
  <2>2. CASE Reply(c, None, "gone") /\ child' = child
    <3>1. HandlerTypes'
      BY <1>0, <1>16, <2>2, HandlerReplies DEF ForkChild
    <3>2. CommandTypes'
      BY <1>0, <1>16, <2>2, TypeFrame DEF ForkChild, commandSide
    <3>. QED  BY <1>0, <1>16, <3>1, <3>2, TypeFrame DEF ForkChild, TypeOK
  <2>. QED  BY <1>16, <2>1, <2>2 DEF ForkChild
<1>17. ASSUME NEW c \in Clients, SendCode(c) PROVE TypeOK'
  <2>1. ExitStatus(child[c]) \in 0..255
    BY <1>17, ExitType DEF SendCode
  <2>2. HandlerTypes'
    BY <1>0, <1>17, <2>1, HandlerReplies DEF SendCode
  <2>. QED  BY <1>0, <1>17, <2>2, TypeFrame DEF SendCode, TypeOK
<1>18. ASSUME NEW c \in Clients, OpenTerminal(c) PROVE TypeOK'
  <2>. PICK x \in {Opened, 255} :
         /\ child' = [child EXCEPT ![c] = x] /\ su' = su
         /\ slave' = slave \/ slave' = [slave EXCEPT ![c] = "open"]
    <3>1. slave = [slave EXCEPT ![c] = @]
      BY <1>0 DEF CommandTypes
    <3>2. CASE request[c].tty
      BY <1>18, <3>2 DEF OpenTerminal
    <3>3. CASE ~request[c].tty
      BY <1>18, <3>1, <3>3 DEF OpenTerminal
    <3>. QED  BY <3>2, <3>3
  <2>1. CommandTypes'
    BY <1>0, CommandMoves, FailureStatus, ZenonT(30)
  <2>. QED  BY <1>0, <1>18, <2>1, TypeFrame DEF OpenTerminal, TypeOK
<1>19. ASSUME NEW c \in Clients, RunDaemonChild(c) PROVE TypeOK'
  <2>. PICK x \in {Running, 1, 255} :
         /\ child' = [child EXCEPT ![c] = x]
         /\ su' = su \/ su' = [su EXCEPT ![c] = Running]
         /\ slave' = slave \/ slave' = ClosedBy(c)
    BY <1>19 DEF RunDaemonChild
  <2>1. x \in {None, Starting, Opened, Running} \cup Statuses
    BY FailureStatus
  <2>2. CommandTypes'
    BY <1>0, <2>1, CommandMoves
  <2>. QED  BY <1>0, <1>19, <2>2, TypeFrame DEF RunDaemonChild, TypeOK
<1>20. ASSUME NEW c \in Clients, ReapSu(c) PROVE TypeOK'
  <2>1. su[c] \in Statuses \/ su[c] = None
    BY <1>0, <1>20 DEF ReapSu, CommandTypes
  <2>2. ExitStatus(su[c]) \in {None} \cup Statuses
    BY <2>1, ExitOfNone, ExitType DEF Statuses
  <2>3. CommandTypes'
    BY <1>0, <1>20, <2>2, CommandMoves DEF ReapSu
  <2>. QED  BY <1>0, <1>20, <2>3, TypeFrame DEF ReapSu, TypeOK
<1>21. ASSUME NEW c \in Clients, Interrupt(c) PROVE TypeOK'
  <2>1. broken' \in [Clients -> BOOLEAN]
    BY <1>0, <1>21 DEF Interrupt, Breaks
  <2>2. sent' = sent
    BY <1>21 DEF Interrupt
  <2>3. CASE client' = [client EXCEPT ![c] = "code"] /\ result' = result
    <3>1. ClientTypes'
      BY <1>0, <2>2, <2>3, ClientMoves
    <3>. QED  BY <1>0, <1>21, <2>1, <3>1, TypeFrame DEF Interrupt, TypeOK
  <2>4. ASSUME NEW s \in {255, Killed}, End(c, s) PROVE TypeOK'
    <3>1. ExitStatus(s) \in 0..255
      <4>1. 255 \in Statuses /\ Killed \in Statuses
        BY FailureStatus DEF Statuses
      <4>. QED  BY <4>1, ExitType, Zenon
    <3>2. ClientTypes'
      BY <1>0, <2>2, <2>4, <3>1, ClientEnds
    <3>. QED  BY <1>0, <1>21, <2>1, <3>2, TypeFrame DEF Interrupt, TypeOK
  <2>. QED  BY <1>21, <2>3, <2>4 DEF Interrupt
<1>22. ASSUME NEW c \in Clients, SuEnds(c) PROVE TypeOK'
  <2>. PICK y \in Codes \cup {Killed} : su' = [su EXCEPT ![c] = y]
    BY <1>22 DEF SuEnds
  <2>1. y \in Statuses
    BY CodeAssumption DEF Statuses
  <2>2. CommandTypes'
    BY <1>0, <1>22, <2>1, CommandMoves DEF SuEnds
  <2>3. broken' \in [Clients -> BOOLEAN]
    BY <1>0, <1>22 DEF SuEnds, Breaks
  <2>. QED  BY <1>0, <1>22, <2>2, <2>3, TypeFrame DEF SuEnds, TypeOK
<1>23. ASSUME NEW c \in Clients, KillChild(c) PROVE TypeOK'
  <2>1. CommandTypes'
    BY <1>0, <1>23, CommandMoves DEF KillChild, Statuses
  <2>2. broken' \in [Clients -> BOOLEAN]
    BY <1>0, <1>23 DEF KillChild, Breaks
  <2>. QED  BY <1>0, <1>23, <2>1, <2>2, TypeFrame DEF KillChild, TypeOK
<1>24. ASSUME NEW c \in Clients, Release(c) PROVE TypeOK'
  <2>1. CommandTypes'
    BY <1>0, <1>24, CommandMoves DEF Release
  <2>. QED  BY <1>0, <1>24, <2>1, TypeFrame DEF Release, TypeOK
<1>25. CASE UNCHANGED vars
  BY <1>0, <1>25, TypeFrame DEF TypeOK, vars
<1>. QED
  BY <1>1, <1>2, <1>3, <1>5, <1>6, <1>7, <1>8, <1>9, <1>10, <1>11, <1>12, <1>13, <1>14,
     <1>15, <1>16, <1>17, <1>18, <1>19, <1>20, <1>21, <1>22, <1>23, <1>24, <1>25
     DEF Next, DaemonStep, ClientStep, ServerStep, HandlerStep, ChildStep

-----------------------------------------------------------------------------
(* A step of one chain leaves the others alone.                            *)
Same(d) ==
  /\ client'[d] = client[d] /\ result'[d] = result[d]
  /\ handler'[d] = handler[d] /\ got'[d] = got[d] /\ replies'[d] = replies[d]
  /\ child'[d] = child[d] /\ su'[d] = su[d] /\ broken'[d] = broken[d]

LEMMA SameFrame ==
  ASSUME NEW d \in Clients, Handled(d), Back(d), Same(d)
  PROVE  Handled(d)' /\ Back(d)'
<1>1. Argc(d)' = Argc(d)
  BY DEF Argc
<1>2. Handled(d)'
  BY <1>1 DEF Handled, Same
<1>3. Back(d)'
  BY DEF Back, Same
<1>. QED  BY <1>2, <1>3

(* Only ForkHandler makes a handler of a connection.                       *)
LEMMA QueueFrame ==
  ASSUME TypeOK, Queued, UNCHANGED daemonSide,
         \A d \in Clients : Fresh(d) => Fresh(d)'
  PROVE  Queued'
<1>1. backlog' = backlog /\ daemon' = daemon /\ fork2' = fork2
  BY DEF daemonSide
<1>2. \A i \in 1..Len(backlog) : backlog[i] \in Clients
  BY DEF TypeOK, DaemonTypes
<1>. QED  BY <1>1, <1>2 DEF Queued

(* An invocation ends with a failure, with what was replied, or broken.    *)
LEMMA EndBack ==
  ASSUME NEW c \in Clients, TypeOK, Back(c), NEW s, End(c, s),
         UNCHANGED <<replies, child, su>>,
         \/ ExitStatus(s) \in Failure /\ broken' = broken
         \/ broken' = broken /\ Len(replies[c]) > 1 /\ ExitStatus(s) = replies[c][2]
         \/ Breaks(c)
  PROVE  Back(c)'
<1>1. result'[c] = ExitStatus(s) /\ client'[c] = "ended"
  BY DEF End, TypeOK, ClientTypes
<1>2. broken' = broken \/ broken'[c]
  BY DEF Breaks, TypeOK
<1>. QED  BY <1>1, <1>2 DEF Back, Breaks, TypeOK

LEMMA HandledByClient ==
  ASSUME NEW c \in Clients, Handled(c), client'[c] # "connect",
         UNCHANGED <<handlerSide, commandSide>>
  PROVE  Handled(c)'
<1>1. Argc(c)' = Argc(c)
  BY DEF Argc
<1>. QED  BY <1>1 DEF Handled, handlerSide, commandSide

(* The steps of a client.                                                  *)
LEMMA ClientInv ==
  ASSUME IInv, NEW c \in Clients, ClientStep(c) \/ Interrupt(c)
  PROVE  Queued' /\ \A d \in Clients : Handled(d)' /\ Back(d)'
<1>0. /\ TypeOK /\ Queued /\ Handled(c) /\ Back(c)
      /\ \A d \in Clients : Handled(d) /\ Back(d)
      /\ ClientTypes /\ DaemonTypes /\ HandlerTypes /\ broken \in [Clients -> BOOLEAN]
  BY DEF IInv, TypeOK
<1>1. /\ UNCHANGED <<handlerSide, commandSide>>
      /\ UNCHANGED <<handler, got, replies, child, su>>
  BY DEF ClientStep, Interrupt, Connect, ClientFails, SendField, ReadAck, Pump, ReadCode,
         handlerSide, commandSide
<1>2. /\ client' = [client EXCEPT ![c] = client'[c]] /\ client'[c] # "connect"
      /\ result' = [result EXCEPT ![c] = result'[c]]
      /\ broken' = [broken EXCEPT ![c] = broken'[c]]
  <2>1. CASE Connect(c)
    BY <1>0, <2>1 DEF Connect, ClientTypes
  <2>2. CASE ClientFails(c)
    BY <1>0, <2>2 DEF ClientFails, End, ClientTypes
  <2>3. CASE SendField(c)
    BY <1>0, <2>3 DEF SendField, End, Breaks, ClientTypes
  <2>4. CASE ReadAck(c)
    BY <1>0, <2>4 DEF ReadAck, End, ClientTypes
  <2>5. CASE Pump(c)
    BY <1>0, <2>5 DEF Pump, ClientTypes
  <2>6. CASE ReadCode(c)
    BY <1>0, <2>6 DEF ReadCode, End, ClientTypes
  <2>7. CASE Interrupt(c)
    BY <1>0, <2>7 DEF Interrupt, End, Breaks, ClientTypes
  <2>. QED  BY <2>1, <2>2, <2>3, <2>4, <2>5, <2>6, <2>7 DEF ClientStep
<1>3. \A d \in Clients \ {c} : Same(d)
  BY <1>0, <1>1, <1>2 DEF Same, ClientTypes
<1>4. Handled(c)'
  BY <1>0, <1>1, <1>2, HandledByClient
<1>5. \A d \in Clients : Fresh(d) => Fresh(d)'
  BY <1>0, <1>1, <1>2 DEF Fresh, ClientTypes
<1>6. Queued'
  <2>1. CASE Connect(c)
    <3>1. /\ client[c] = "connect" /\ client'[c] = "send" /\ handler[c] = "none"
          /\ backlog' = Append(backlog, c) /\ daemon' = daemon /\ fork2' = fork2
          /\ Fresh(c)' /\ ~Fresh(c)
      BY <1>0, <1>1, <2>1 DEF Connect, ClientTypes, Handled, Fresh
    <3>2. /\ Len(backlog) \in Nat /\ Len(backlog') = Len(backlog) + 1
          /\ backlog'[Len(backlog) + 1] = c
          /\ \A i \in 1..Len(backlog) : backlog'[i] = backlog[i] /\ backlog[i] \in Clients
      BY <1>0, <3>1 DEF DaemonTypes
    <3>3. \A i \in 1..Len(backlog) : Fresh(backlog[i]) /\ backlog[i] # c
      BY <1>0, <3>1 DEF Queued
    <3>4. \A i \in 1..Len(backlog') : i \in 1..Len(backlog) \/ i = Len(backlog) + 1
      BY <3>2
    <3>5. \A i \in 1..Len(backlog') : Fresh(backlog[i])'
      BY <1>5, <3>1, <3>2, <3>3, <3>4 DEF Fresh
    <3>6. \A i, j \in 1..Len(backlog') : backlog'[i] = backlog'[j] => i = j
      BY <1>0, <3>2, <3>3, <3>4 DEF Queued
    <3>7. fork2' => daemon' \in Clients /\ Fresh(daemon)'
      BY <1>0, <1>5, <3>1 DEF Queued
    <3>8. fork2' => \A i \in 1..Len(backlog') : backlog'[i] # daemon'
      BY <1>0, <3>1, <3>2, <3>4 DEF Queued
    <3>. QED  BY <3>5, <3>6, <3>7, <3>8 DEF Queued
  <2>2. CASE ~Connect(c)
    <3>1. UNCHANGED daemonSide
      BY <2>2 DEF ClientStep, Interrupt, ClientFails, SendField, ReadAck, Pump, ReadCode
    <3>. QED  BY <1>0, <1>5, <3>1, QueueFrame
  <2>. QED  BY <2>1, <2>2
<1>7. Back(c)'
  <2>1. ASSUME result' = result, broken' = broken, client[c] # "ended" PROVE Back(c)'
    BY <1>0, <1>1, <2>1 DEF Back
  <2>2. CASE Connect(c)
    BY <2>1, <2>2 DEF Connect
  <2>3. CASE ClientFails(c)
    BY <1>0, <1>1, <2>3, EndBack, ExitOfFailure DEF ClientFails, Failure
  <2>4. CASE SendField(c)
    <3>1. CASE Held(c)
      BY <2>1, <2>4, <3>1 DEF SendField
    <3>2. CASE ~Held(c)
      BY <1>0, <1>1, <2>4, <3>2, EndBack DEF SendField
    <3>. QED  BY <3>1, <3>2
  <2>5. CASE ReadAck(c)
    <3>1. CASE Len(replies[c]) > 0
      BY <2>1, <2>5, <3>1 DEF ReadAck
    <3>2. CASE ~(Len(replies[c]) > 0)
      BY <1>0, <1>1, <2>5, <3>2, EndBack, ExitOfFailure DEF ReadAck, Failure
    <3>. QED  BY <3>1, <3>2
  <2>6. CASE Pump(c)
    BY <2>1, <2>6 DEF Pump
  <2>7. CASE ReadCode(c)
    <3>1. CASE Len(replies[c]) > 1 /\ End(c, replies[c][2] % 256)
      <4>1. \/ ExitStatus(replies[c][2] % 256) \in Failure
            \/ ExitStatus(replies[c][2] % 256) = replies[c][2]
        <5>. DEFINE m == replies[c][2]
        <5>1. /\ ExitStatus(m % 256) = m % 256
              /\ IF m = None THEN m % 256 = 255 ELSE m % 256 = m
          BY <1>0, <3>1, CodeRead, ZenonT(60)
        <5>. HIDE DEF m
        <5>2. ExitStatus(m % 256) = 255 \/ ExitStatus(m % 256) = m
          BY <5>1
        <5>. QED  BY <5>2 DEF Failure, m
      <4>2. broken' = broken
        BY <2>7 DEF ReadCode
      <4>. QED  BY <1>0, <1>1, <3>1, <4>1, <4>2, EndBack
    <3>2. CASE End(c, 255)
      <4>1. broken' = broken
        BY <2>7 DEF ReadCode
      <4>. QED  BY <1>0, <1>1, <3>2, <4>1, EndBack, ExitOfFailure DEF Failure
    <3>. QED  BY <2>7, <3>1, <3>2 DEF ReadCode
  <2>8. CASE Interrupt(c)
    <3>1. CASE client[c] = "pump" /\ result' = result /\ broken' = broken
      BY <2>1, <3>1
    <3>2. CASE End(c, 255) /\ broken' = broken
      BY <1>0, <1>1, <3>2, EndBack, ExitOfFailure DEF Failure
    <3>3. CASE End(c, Killed) /\ Breaks(c)
      BY <1>0, <1>1, <3>3, EndBack
    <3>. QED  BY <2>8, <3>1, <3>2, <3>3 DEF Interrupt
  <2>. QED  BY <2>2, <2>3, <2>4, <2>5, <2>6, <2>7, <2>8 DEF ClientStep
<1>. QED  BY <1>0, <1>3, <1>4, <1>6, <1>7, SameFrame

(* The steps of the daemon, and its stops.                                 *)
LEMMA DaemonInv ==
  ASSUME IInv, DaemonStep \/ AcceptFails \/ Stop \/ StartDaemon
  PROVE  Queued' /\ \A d \in Clients : Handled(d)' /\ Back(d)'
<1>0. /\ TypeOK /\ Queued
      /\ \A d \in Clients : Handled(d) /\ Back(d)
      /\ ClientTypes /\ DaemonTypes /\ HandlerTypes
  BY DEF IInv, TypeOK
<1>1. ASSUME UNCHANGED <<clientSide, handlerSide, commandSide, broken>>
      PROVE  /\ \A d \in Clients : Handled(d)' /\ Back(d)'
             /\ \A d : Fresh(d)' <=> Fresh(d)
             /\ handler' = handler /\ client' = client
  <2>1. \A d \in Clients : Same(d)
    BY <1>1 DEF Same, clientSide, handlerSide, commandSide
  <2>2. handler' = handler /\ client' = client
    BY <1>1 DEF clientSide, handlerSide
  <2>. QED  BY <1>0, <2>1, <2>2, SameFrame DEF Fresh
<1>2. ASSUME Gone PROVE Queued'
  <2>1. backlog' = <<>> /\ fork2' = FALSE
    BY <1>2 DEF Gone
  <2>. QED  BY <2>1 DEF Queued
<1>3. CASE Accept
  <2>. DEFINE n == Len(backlog)
  <2>1. /\ n \in Nat /\ n > 0 /\ Len(backlog') = n - 1 /\ Head(backlog) = backlog[1]
        /\ \A i \in 1..(n - 1) : backlog'[i] = backlog[i + 1] /\ backlog[i + 1] \in Clients
    BY <1>0, <1>3, HeadTailProperties DEF Accept, DaemonTypes
  <2>2. handler' = handler /\ client' = client
        /\ \A d \in Clients : Handled(d)' /\ Back(d)'
    BY <1>1, <1>3 DEF Accept
  <2>3. \A i \in 1..Len(backlog') : i \in 1..n /\ i + 1 \in 1..n /\ i + 1 # 1
    BY <2>1
  <2>4. /\ \A i \in 1..n : Fresh(backlog[i])
        /\ \A i, j \in 1..n : backlog[i] = backlog[j] => i = j
    BY <1>0 DEF Queued
  <2>5. \A i \in 1..Len(backlog') : Fresh(backlog[i])'
    BY <2>1, <2>2, <2>3, <2>4 DEF Fresh
  <2>6. \A i, j \in 1..Len(backlog') : backlog'[i] = backlog'[j] => i = j
    <3>. SUFFICES ASSUME NEW i \in 1..Len(backlog'), NEW j \in 1..Len(backlog'),
                         backlog'[i] = backlog'[j]
                  PROVE  i = j
      OBVIOUS
    <3>1. i + 1 = j + 1
      BY <2>1, <2>3, <2>4
    <3>. QED  BY <2>1, <3>1
  <2>7. CASE daemon' = Head(backlog)
    <3>1. 1 \in 1..n /\ Head(backlog) \in Clients
      BY <1>0, <2>1 DEF DaemonTypes
    <3>2. daemon' \in Clients /\ Fresh(daemon)'
      BY <2>1, <2>2, <2>4, <2>7, <3>1 DEF Fresh
    <3>3. \A i \in 1..Len(backlog') : backlog'[i] # daemon'
      BY <2>1, <2>3, <2>4, <2>7, <3>1
    <3>. QED  BY <2>2, <2>5, <2>6, <3>2, <3>3 DEF Queued
  <2>8. CASE UNCHANGED <<daemon, fork2>>
    <3>1. fork2' => daemon' \in Clients /\ Fresh(daemon)'
      BY <1>0, <2>2, <2>8 DEF Queued, Fresh
    <3>2. fork2' => \A i \in 1..Len(backlog') : backlog'[i] # daemon'
      BY <1>0, <2>1, <2>3, <2>8 DEF Queued
    <3>. QED  BY <2>2, <2>5, <2>6, <3>1, <3>2 DEF Queued
  <2>. QED  BY <1>3, <2>7, <2>8 DEF Accept
<1>4. ASSUME NEW c \in Clients, ForkHandler(c)
      PROVE  Queued' /\ \A d \in Clients : Handled(d)' /\ Back(d)'
  <2>1. /\ daemon = c /\ fork2 /\ fork2' = FALSE /\ backlog' = backlog
        /\ UNCHANGED <<got, replies, clientSide, commandSide, broken>>
        /\ client' = client /\ result' = result /\ child' = child /\ su' = su
        /\ broken' = broken
    BY <1>4 DEF ForkHandler, clientSide, commandSide
  <2>2. handler' = [handler EXCEPT ![c] = "read"] \/ handler' = handler
    BY <1>4 DEF ForkHandler
  <2>3. handler[c] = "none" /\ client[c] # "connect"
        /\ \A i \in 1..Len(backlog) : backlog[i] # c
    BY <1>0, <2>1 DEF Queued, Fresh
  <2>4. \A i \in 1..Len(backlog) : backlog[i] \in Clients
    BY <1>0 DEF DaemonTypes
  <2>5. \A i \in 1..Len(backlog) : Fresh(backlog[i])
    BY <1>0 DEF Queued
  <2>6. \A i \in 1..Len(backlog') : Fresh(backlog[i])'
    BY <1>0, <2>1, <2>2, <2>3, <2>4, <2>5 DEF Fresh, HandlerTypes
  <2>7. Queued'
    BY <1>0, <2>1, <2>6 DEF Queued
  <2>8. \A d \in Clients \ {c} : Same(d)
    BY <1>0, <2>1, <2>2 DEF Same, HandlerTypes
  <2>9. Back(c)'
    BY <1>0, <2>1 DEF Back
  <2>10. Argc(c)' = Argc(c)
    BY DEF Argc
  <2>11. Handled(c) /\ handler'[c] \in {"none", "read"}
    BY <1>0, <2>2, <2>3 DEF HandlerTypes
  <2>12. Handled(c)'
    BY <2>1, <2>3, <2>10, <2>11 DEF Handled
  <2>. QED  BY <1>0, <2>7, <2>8, <2>9, <2>12, SameFrame
<1>5. ASSUME NEW c \in Clients, Reap(c)
      PROVE  Queued' /\ \A d \in Clients : Handled(d)' /\ Back(d)'
  <2>1. ~fork2 /\ fork2' = fork2 /\ backlog' = backlog
        /\ UNCHANGED <<clientSide, handlerSide, commandSide, broken>>
    BY <1>5 DEF Reap
  <2>. QED  BY <1>0, <1>1, <2>1 DEF Queued, Fresh
<1>6. CASE AcceptFails
  BY <1>1, <1>2, <1>6 DEF AcceptFails
<1>7. CASE Stop
  <2>1. /\ UNCHANGED <<got, replies>> /\ client' = client /\ result' = result
        /\ child' = child /\ su' = su /\ broken' = broken
        /\ handler' = [d \in Clients |-> IF Alive(d) THEN "gone" ELSE handler[d]]
    BY <1>7 DEF Stop, clientSide, commandSide
  <2>2. ASSUME NEW d \in Clients PROVE Handled(d)' /\ Back(d)'
    <3>1. \/ handler'[d] = "gone" /\ handler[d] # "none"
          \/ handler'[d] = handler[d]
      BY <2>1 DEF Alive
    <3>2. Argc(d)' = Argc(d) /\ Handled(d) /\ Back(d)
      BY <1>0 DEF Argc
    <3>3. Handled(d)'
      BY <2>1, <3>1, <3>2 DEF Handled
    <3>4. Back(d)'
      BY <2>1, <3>2 DEF Back
    <3>. QED  BY <3>3, <3>4
  <2>3. Queued'
    BY <1>2, <1>7 DEF Stop
  <2>. QED  BY <2>2, <2>3
<1>8. CASE StartDaemon
  <2>1. backlog' = backlog /\ fork2' = fork2 /\ daemon = "gone" /\ daemon' = "accept"
        /\ UNCHANGED <<clientSide, handlerSide, commandSide, broken>>
    BY <1>8 DEF StartDaemon
  <2>2. ~fork2
    BY <1>0, <2>1, ClientAssumption DEF Queued
  <2>. QED  BY <1>0, <1>1, <2>1, <2>2 DEF Queued, Fresh
<1>. QED  BY <1>3, <1>4, <1>5, <1>6, <1>7, <1>8 DEF DaemonStep

(* A step of a handler or a child that is not made for a new connection.   *)
LEMMA ServerFrame ==
  ASSUME IInv, NEW c \in Clients, UNCHANGED <<clientSide, daemonSide>>,
         \A d \in Clients \ {c} : Same(d),
         handler[c] = "none" => handler'[c] = "none",
         Handled(c)', Back(c)'
  PROVE  Queued' /\ \A d \in Clients : Handled(d)' /\ Back(d)'
<1>1. client' = client /\ TypeOK /\ Queued /\ \A d \in Clients : Handled(d) /\ Back(d)
  BY DEF IInv, clientSide
<1>2. \A d \in Clients : Fresh(d) => Fresh(d)'
  BY <1>1 DEF Fresh, Same
<1>3. Queued'
  BY <1>1, <1>2, QueueFrame
<1>. QED  BY <1>1, <1>3, SameFrame

(* The steps of a handler.                                                 *)
LEMMA HandlerInv ==
  ASSUME IInv, NEW c \in Clients, HandlerStep(c)
  PROVE  Queued' /\ \A d \in Clients : Handled(d)' /\ Back(d)'
<1>0. /\ Handled(c) /\ Back(c) /\ HandlerTypes /\ CommandTypes
      /\ Argc(c)' = Argc(c) /\ Argc(c) \in Nat
  BY ArgsType DEF IInv, TypeOK, Argc
<1>1. UNCHANGED <<clientSide, daemonSide>> /\ client' = client /\ result' = result
      /\ su' = su /\ broken' = broken
  BY DEF HandlerStep, ReadField, Ack, ForkChild, SendCode, clientSide, commandSide
<1>. DEFINE Moves(d) == handler'[d] = handler[d] /\ got'[d] = got[d]
                        /\ replies'[d] = replies[d] /\ child'[d] = child[d]
<1>2. ASSUME \A d \in Clients \ {c} : Moves(d) PROVE \A d \in Clients \ {c} : Same(d)
  BY <1>1, <1>2 DEF Same
<1>3. replies[c] \in Seq({None} \cup 0..255)
  BY <1>0 DEF HandlerTypes
<1>4. ASSUME NEW n \in {None} \cup 0..255, NEW p, Reply(c, n, p)
      PROVE  /\ \A d \in Clients \ {c} : handler'[d] = handler[d] /\ replies'[d] = replies[d]
             /\ \/ handler'[c] = "gone" /\ replies'[c] = replies[c]
                \/ /\ handler'[c] = p
                   /\ Len(replies'[c]) = Len(replies[c]) + 1
                   /\ replies'[c][Len(replies[c]) + 1] = n
  <2>1. CASE client[c] = "ended"
    BY <1>0, <1>4, <2>1 DEF Reply, HandlerTypes
  <2>2. CASE client[c] # "ended"
    <3>1. handler' = [handler EXCEPT ![c] = p]
          /\ replies' = [replies EXCEPT ![c] = Append(replies[c], n)]
      BY <1>4, <2>2 DEF Reply
    <3>2. handler'[c] = p /\ replies'[c] = Append(replies[c], n)
          /\ \A d \in Clients \ {c} : handler'[d] = handler[d] /\ replies'[d] = replies[d]
      BY <1>0, <3>1 DEF HandlerTypes
    <3>. QED  BY <1>3, <3>2, AppendProperties
  <2>. QED  BY <2>1, <2>2
<1>5. CASE ReadField(c)
  <2>1. /\ handler[c] = "read" /\ handler'[c] \in {"read", "gone"}
        /\ replies' = replies /\ child' = child
        /\ \A d \in Clients \ {c} : Moves(d)
    BY <1>0, <1>5 DEF ReadField, HandlerTypes, commandSide
  <2>2. Handled(c)'
    BY <1>0, <1>1, <2>1 DEF Handled
  <2>3. Back(c)'
    BY <1>0, <1>1, <2>1 DEF Back
  <2>. QED  BY <1>1, <1>2, <2>1, <2>2, <2>3, ServerFrame
<1>6. CASE Ack(c)
  <2>1. /\ handler[c] = "read" /\ got[c] = Wanted(c) /\ got' = got /\ child' = child
        /\ Reply(c, 1, "fork")
    BY <1>6 DEF Ack, commandSide
  <2>2. got[c] = 1 + Argc(c)
    <3>1. Message(c)[1].argc = Argc(c)
      BY Header
    <3>2. got[c] # 0
      BY <2>1 DEF Wanted
    <3>. QED  BY <2>1, <3>1, <3>2 DEF Wanted
  <2>3. replies[c] = <<>> /\ Len(replies[c]) = 0 /\ child[c] = None
    BY <1>0, <2>1 DEF Handled
  <2>4. /\ \A d \in Clients \ {c} : handler'[d] = handler[d] /\ replies'[d] = replies[d]
        /\ \/ handler'[c] = "gone" /\ replies'[c] = replies[c]
           \/ handler'[c] = "fork" /\ Len(replies'[c]) = Len(replies[c]) + 1
    <3>1. 1 \in {None} \cup 0..255
      OBVIOUS
    <3>. QED  BY <1>4, <2>1, <3>1, Zenon
  <2>5. \/ handler'[c] = "gone" /\ replies'[c] = <<>>
        \/ handler'[c] = "fork" /\ Len(replies'[c]) = 1
    <3>1. \/ handler'[c] = "gone" /\ replies'[c] = replies[c]
          \/ handler'[c] = "fork" /\ Len(replies'[c]) = Len(replies[c]) + 1
      BY <2>4
    <3>. QED  BY <2>3, <3>1
  <2>6. Handled(c)'
    BY <1>0, <1>1, <2>1, <2>2, <2>3, <2>5 DEF Handled
  <2>7. Back(c)'
    BY <1>0, <1>1, <2>1, <2>5 DEF Back
  <2>8. \A d \in Clients \ {c} : Moves(d)
    BY <2>1, <2>4
  <2>. QED  BY <1>1, <1>2, <2>1, <2>6, <2>7, <2>8, ServerFrame
<1>7. CASE ForkChild(c)
  <2>1. /\ handler[c] = "fork" /\ Len(replies[c]) = 1 /\ child[c] = None /\ su[c] = None
        /\ got[c] = 1 + Argc(c) /\ got' = got
    BY <1>0, <1>7 DEF ForkChild, Handled
  <2>2. CASE handler' = [handler EXCEPT ![c] = "wait"] /\ replies' = replies
               /\ child' = [child EXCEPT ![c] = Starting]
    <3>1. handler'[c] = "wait" /\ child'[c] = Starting /\ \A d \in Clients \ {c} : Moves(d)
      BY <1>0, <2>1, <2>2 DEF HandlerTypes, CommandTypes
    <3>2. Handled(c)'
      BY <1>0, <1>1, <2>1, <2>2, <3>1 DEF Handled
    <3>3. Starting # Killed /\ Starting \notin 0..255
      BY DEF Starting, Killed
    <3>4. Back(c)'
      BY <1>0, <1>1, <2>2, <3>1, <3>3 DEF Back
    <3>. QED  BY <1>1, <1>2, <2>1, <3>1, <3>2, <3>4, ServerFrame
  <2>3. CASE Reply(c, None, "gone") /\ child' = child
    <3>1. \A d \in Clients \ {c} : Moves(d)
      BY <1>4, <2>1, <2>3
    <3>2. handler'[c] = "gone"
          /\ \/ replies'[c] = replies[c]
             \/ Len(replies'[c]) = 2 /\ replies'[c][2] = None
      <4>1. \/ replies'[c] = replies[c]
            \/ /\ Len(replies'[c]) = Len(replies[c]) + 1
               /\ replies'[c][Len(replies[c]) + 1] = None
        BY <1>4, <2>3
      <4>2. handler'[c] = "gone"
        BY <1>4, <2>3
      <4>. QED  BY <2>1, <4>1, <4>2
    <3>3. Handled(c)'
      BY <1>0, <1>1, <2>1, <2>3, <3>2 DEF Handled
    <3>4. Back(c)'
      BY <1>0, <1>1, <2>3, <3>2 DEF Back, Failure
    <3>. QED  BY <1>1, <1>2, <2>1, <3>1, <3>3, <3>4, ServerFrame
  <2>. QED  BY <1>7, <2>2, <2>3 DEF ForkChild
<1>8. CASE SendCode(c)
  <2>1. /\ handler[c] = "wait" /\ Len(replies[c]) = 1 /\ child[c] \in Statuses
        /\ got' = got /\ child' = child /\ Reply(c, ExitStatus(child[c]), "gone")
    BY <1>0, <1>8 DEF SendCode, Handled, commandSide
  <2>2. ExitStatus(child[c]) \in {None} \cup 0..255
    BY <2>1, ExitType
  <2>3. /\ \A d \in Clients \ {c} : Moves(d)
        /\ handler'[c] = "gone"
        /\ \/ replies'[c] = replies[c]
           \/ Len(replies'[c]) = 2 /\ replies'[c][2] = ExitStatus(child[c])
    <3>1. \/ replies'[c] = replies[c]
          \/ /\ Len(replies'[c]) = Len(replies[c]) + 1
             /\ replies'[c][Len(replies[c]) + 1] = ExitStatus(child[c])
      BY <1>4, <2>1, <2>2
    <3>2. handler'[c] = "gone" /\ \A d \in Clients \ {c} : Moves(d)
      BY <1>4, <2>1, <2>2
    <3>. QED  BY <2>1, <3>1, <3>2
  <2>4. \/ broken[c]
        \/ child[c] \in 0..255 /\ ExitStatus(child[c]) = child[c]
    <3>1. CASE child[c] = Killed
      BY <1>0, <3>1 DEF Back
    <3>2. CASE child[c] # Killed
      BY <2>1, <3>2, ExitType
    <3>. QED  BY <3>1, <3>2
  <2>5. Handled(c)'
    BY <1>0, <1>1, <2>1, <2>3 DEF Handled
  <2>6. Back(c)'
    <3>1. CASE replies'[c] = replies[c]
      BY <1>0, <1>1, <2>1, <3>1 DEF Back
    <3>2. CASE Len(replies'[c]) = 2 /\ replies'[c][2] = ExitStatus(child[c])
      <4>1. ~broken'[c] => replies'[c][2] \in Failure \/ su'[c] = replies'[c][2]
        BY <1>0, <1>1, <2>4, <3>2 DEF Back
      <4>. QED  BY <1>0, <1>1, <2>1, <4>1 DEF Back
    <3>. QED  BY <2>3, <3>1, <3>2
  <2>. QED  BY <1>1, <1>2, <2>1, <2>3, <2>5, <2>6, ServerFrame
<1>. QED  BY <1>5, <1>6, <1>7, <1>8 DEF HandlerStep

(* The steps of the child and of what it runs.                             *)
LEMMA ChildInv ==
  ASSUME IInv, NEW c \in Clients,
         ChildStep(c) \/ SuEnds(c) \/ KillChild(c) \/ Release(c)
  PROVE  Queued' /\ \A d \in Clients : Handled(d)' /\ Back(d)'
<1>0. /\ Handled(c) /\ Back(c) /\ HandlerTypes /\ CommandTypes /\ ClientTypes
      /\ broken \in [Clients -> BOOLEAN] /\ Argc(c)' = Argc(c)
  BY DEF IInv, TypeOK, Argc
<1>1. /\ UNCHANGED <<clientSide, daemonSide>> /\ client' = client /\ result' = result
      /\ handler' = handler /\ got' = got /\ replies' = replies
  BY DEF ChildStep, OpenTerminal, RunDaemonChild, ReapSu, SuEnds, KillChild, Release,
         clientSide, handlerSide
<1>2. /\ child' = [child EXCEPT ![c] = child'[c]] /\ su' = [su EXCEPT ![c] = su'[c]]
      /\ broken' = [broken EXCEPT ![c] = broken'[c]]
  <2>1. CASE OpenTerminal(c)
    BY <1>0, <2>1 DEF OpenTerminal, CommandTypes
  <2>2. CASE RunDaemonChild(c)
    BY <1>0, <2>2 DEF RunDaemonChild, CommandTypes
  <2>3. CASE ReapSu(c)
    BY <1>0, <2>3 DEF ReapSu, CommandTypes
  <2>4. CASE SuEnds(c)
    BY <1>0, <2>4 DEF SuEnds, Breaks, CommandTypes
  <2>5. CASE KillChild(c)
    BY <1>0, <2>5 DEF KillChild, Breaks, CommandTypes
  <2>6. CASE Release(c)
    BY <1>0, <2>6 DEF Release, CommandTypes
  <2>. QED  BY <2>1, <2>2, <2>3, <2>4, <2>5, <2>6 DEF ChildStep
<1>3. \A d \in Clients \ {c} : Same(d)
  BY <1>0, <1>1, <1>2 DEF Same, CommandTypes
<1>4. ASSUME child[c] # None, Back(c)',
             child'[c] \in {None, Starting, Opened} => su'[c] = None
      PROVE  Queued' /\ \A d \in Clients : Handled(d)' /\ Back(d)'
  <2>1. Handled(c)'
    BY <1>0, <1>1, <1>4 DEF Handled
  <2>. QED  BY <1>1, <1>3, <1>4, <2>1, ServerFrame
<1>5. /\ None \notin 0..255 /\ Running \notin 0..255 /\ Opened \notin 0..255
      /\ Starting \notin 0..255 /\ Killed \notin 0..255
      /\ Running \notin {None, Starting, Opened} /\ Killed \notin {None, Starting, Opened, Running}
      /\ Starting # None /\ Opened # None
  BY DEF None, Running, Opened, Starting, Killed
<1>6. CASE OpenTerminal(c)
  <2>1. child[c] = Starting /\ su' = su /\ broken' = broken
    BY <1>6 DEF OpenTerminal
  <2>2. child'[c] = Opened \/ child'[c] = 255
    BY <1>0, <1>6 DEF OpenTerminal, CommandTypes
  <2>3. su[c] = None
    BY <1>0, <2>1 DEF Handled
  <2>4. child'[c] # Killed /\ (child'[c] \in 0..255 => child'[c] \in Failure)
    BY <1>5, <2>2 DEF Failure
  <2>5. Back(c)'
    BY <1>0, <1>1, <2>1, <2>4 DEF Back
  <2>. QED  BY <1>4, <1>5, <2>1, <2>3, <2>5
<1>7. CASE RunDaemonChild(c)
  <2>1. child[c] = Opened /\ broken' = broken
    BY <1>7 DEF RunDaemonChild
  <2>2. su[c] = None /\ child[c] # None
    BY <1>0, <1>5, <2>1 DEF Handled
  <2>3. \/ child'[c] = Running /\ su'[c] = Running
        \/ child'[c] \in {1, 255} /\ su'[c] = None
    <3>1. CASE child' = [child EXCEPT ![c] = Running] /\ su' = [su EXCEPT ![c] = Running]
      BY <1>0, <3>1 DEF CommandTypes
    <3>2. ASSUME NEW s \in {1, 255}, child' = [child EXCEPT ![c] = s], su' = su
          PROVE  child'[c] \in {1, 255} /\ su'[c] = None
      BY <1>0, <2>2, <3>2 DEF CommandTypes
    <3>. QED  BY <1>7, <3>1, <3>2 DEF RunDaemonChild
  <2>4. /\ child'[c] # Killed /\ su'[c] # Killed
        /\ child'[c] \in 0..255 => child'[c] \in Failure
        /\ child'[c] \notin {None, Starting, Opened}
    BY <1>5, <2>3 DEF Failure
  <2>5. replies[c][2] \in Failure \/ broken[c] \/ Len(replies[c]) <= 1
    <3>1. CASE Len(replies[c]) > 1
      <4>1. replies[c][2] \in Failure \/ replies[c][2] = None \/ broken[c]
        BY <1>0, <2>2, <3>1 DEF Back
      <4>. QED  BY <4>1 DEF Failure
    <3>2. CASE ~(Len(replies[c]) > 1)
      BY <1>0, <3>2 DEF HandlerTypes
    <3>. QED  BY <3>1, <3>2
  <2>6. result[c] \in Failure \/ broken[c]
    <3>1. result[c] \in Failure \/ result[c] = None \/ broken[c]
      BY <1>0, <2>2 DEF Back
    <3>. QED  BY <3>1 DEF Failure
  <2>7. Back(c)'
    <3>1. Len(replies[c]) > 1 /\ ~broken[c] => replies[c][2] \in Failure
      BY <2>5, <1>0 DEF HandlerTypes
    <3>. QED  BY <1>0, <1>1, <2>1, <2>4, <2>6, <3>1 DEF Back
  <2>. QED  BY <1>4, <2>2, <2>4, <2>7
<1>8. CASE ReapSu(c)
  <2>1. child[c] = Running /\ su' = su /\ broken' = broken /\ su[c] # Running
        /\ child'[c] = ExitStatus(su[c])
    BY <1>0, <1>8 DEF ReapSu, CommandTypes
  <2>2. \/ su[c] = None /\ child'[c] = None
        \/ su[c] = Killed /\ child'[c] \in 0..255 /\ broken[c]
        \/ su[c] \in 0..255 /\ child'[c] = su[c]
    <3>1. CASE su[c] = None
      BY <2>1, <3>1, ExitOfNone
    <3>2. CASE su[c] = Killed
      <4>1. broken[c]
        BY <1>0, <3>2 DEF Back
      <4>2. ExitStatus(su[c]) \in 0..255
        BY <3>2, ExitType DEF Statuses
      <4>. QED  BY <2>1, <3>2, <4>1, <4>2
    <3>3. CASE su[c] \in 0..255
      <4>1. su[c] \in Statuses /\ su[c] # Killed
        BY <1>5, <3>3 DEF Statuses
      <4>. QED  BY <2>1, <3>3, <4>1, ExitType
    <3>. QED  BY <1>0, <2>1, <3>1, <3>2, <3>3 DEF CommandTypes, Statuses
  <2>3. /\ child'[c] # Killed
        /\ child'[c] \in 0..255 /\ ~broken[c] => su[c] = child'[c]
        /\ child'[c] \in {None, Starting, Opened} => su[c] = None
    BY <1>5, <2>2
  <2>4. Back(c)'
    BY <1>0, <1>1, <2>1, <2>3 DEF Back
  <2>. QED  BY <1>4, <1>5, <2>1, <2>3, <2>4
<1>9. CASE SuEnds(c)
  <2>1. su[c] = Running /\ child' = child
    BY <1>9 DEF SuEnds
  <2>2. \/ su'[c] \in Codes /\ broken' = broken
        \/ su'[c] = Killed /\ broken'[c]
    BY <1>0, <1>9 DEF SuEnds, Breaks, CommandTypes
  <2>3. child[c] \notin {None, Starting, Opened}
    BY <1>0, <1>5, <2>1 DEF Handled
  <2>4. ASSUME ~broken'[c]
        PROVE  ~broken[c] /\ su'[c] # Killed
    BY <1>5, <2>2, <2>4, CodeAssumption
  <2>5. ASSUME ~broken'[c]
        PROVE  /\ child[c] # Killed
               /\ child[c] \in 0..255 => child[c] \in Failure
               /\ result[c] \in Failure
    <3>1. result[c] \in {None} \cup 0..255
      BY <1>0 DEF ClientTypes
    <3>2. result[c] # Running
      BY <1>5, <3>1
    <3>3. ~broken[c]
      BY <2>4, <2>5
    <3>4. child[c] # Killed /\ result[c] \in Failure
      BY <1>0, <2>1, <3>2, <3>3 DEF Back
    <3>5. child[c] \in 0..255 => child[c] \in Failure
      BY <1>0, <1>5, <2>1, <3>3 DEF Back
    <3>. QED  BY <3>4, <3>5
  <2>6. ASSUME ~broken'[c], Len(replies[c]) > 1
        PROVE  replies[c][2] \in Failure
    <3>1. replies[c][2] \in {None} \cup 0..255
      BY <1>0, <2>6, CodeRead
    <3>2. replies[c][2] # Running
      BY <1>5, <3>1
    <3>. QED  BY <1>0, <2>1, <2>4, <2>6, <3>2 DEF Back
  <2>7. Back(c)'
    BY <1>0, <1>1, <2>1, <2>4, <2>5, <2>6 DEF Back
  <2>. QED  BY <1>4, <2>1, <2>3, <2>7
<1>10. CASE KillChild(c)
  <2>1. child[c] # None /\ child'[c] = Killed /\ broken'[c]
    BY <1>0, <1>5, <1>10 DEF KillChild, Breaks, CommandTypes
  <2>2. Back(c)'
    BY <1>0, <1>1, <2>1 DEF Back
  <2>. QED  BY <1>4, <1>5, <2>1, <2>2
<1>11. CASE Release(c)
  <2>1. Same(c)
    BY <1>1, <1>11 DEF Same, Release
  <2>2. Handled(c)' /\ Back(c)'
    BY <1>0, <2>1, SameFrame
  <2>. QED  BY <1>1, <1>3, <2>2, ServerFrame
<1>. QED  BY <1>6, <1>7, <1>8, <1>9, <1>10, <1>11 DEF ChildStep

-----------------------------------------------------------------------------
LEMMA InvInit == Init => IInv
<1>. SUFFICES ASSUME Init PROVE IInv
  OBVIOUS
<1>1. Queued
  BY DEF Init, Queued
<1>2. ASSUME NEW c \in Clients PROVE Known(c) /\ Handled(c) /\ Back(c)
  <2>1. /\ client[c] = "connect" /\ handler[c] = "none" /\ got[c] = 0 /\ replies[c] = <<>>
        /\ child[c] = None /\ su[c] = None /\ result[c] = None /\ ~broken[c]
    BY DEF Init
  <2>2. None # Killed /\ None \notin 0..255 /\ Len(<<>>) = 0
    BY DEF None, Killed
  <2>3. Handled(c)
    BY <2>1 DEF Handled
  <2>4. Back(c)
    BY <2>1, <2>2 DEF Back, Failure
  <2>5. Known(c)
    BY <2>1 DEF Known
  <2>. QED  BY <2>3, <2>4, <2>5
<1>. QED  BY <1>1, <1>2, TypeInit DEF IInv

LEMMA KnownStep ==
  ASSUME TypeOK, \A c \in Clients : Known(c), [Next]_vars
  PROVE  \A c \in Clients : Known(c)'
<1>1. ASSUME NEW c \in Clients, ReadField(c),
             got' = [got EXCEPT ![c] = @ + 1],
             from' = [from EXCEPT ![c] = IF got[c] = 0 THEN FromUid(c) ELSE @]
      PROVE  \A d \in Clients : Known(d)'
  <2>1. got \in [Clients -> Nat] /\ from \in [Clients -> Nat]
    BY DEF TypeOK, HandlerTypes
  <2>2. from'[c] = uid[c]
    BY <1>1, <2>1, WhoAsks DEF Known
  <2>3. \A d \in Clients \ {c} : got'[d] = got[d] /\ from'[d] = from[d]
    BY <1>1, <2>1
  <2>. QED  BY <2>2, <2>3 DEF Known
<1>2. ASSUME UNCHANGED <<got, from>> PROVE \A d \in Clients : Known(d)'
  BY <1>2 DEF Known
<1>3. CASE DaemonStep \/ AcceptFails \/ Stop \/ StartDaemon
  <2>1. UNCHANGED <<got, from>>
    BY <1>3 DEF DaemonStep, Accept, ForkHandler, Reap, AcceptFails, Stop, StartDaemon,
                handlerSide
  <2>. QED  BY <1>2, <2>1
<1>4. ASSUME NEW c \in Clients,
             \/ ClientStep(c) \/ Interrupt(c) \/ ChildStep(c) \/ SuEnds(c)
             \/ KillChild(c) \/ Release(c)
      PROVE  UNCHANGED <<got, from>>
  BY <1>4 DEF ClientStep, Connect, ClientFails, SendField, ReadAck, Pump, ReadCode,
              Interrupt, ChildStep, OpenTerminal, RunDaemonChild, ReapSu, SuEnds,
              KillChild, Release, handlerSide
<1>5. ASSUME NEW c \in Clients, Ack(c) \/ ForkChild(c) \/ SendCode(c)
      PROVE  UNCHANGED <<got, from>>
  BY <1>5 DEF Ack, ForkChild, SendCode
<1>6. ASSUME NEW c \in Clients, ReadField(c)
      PROVE  \A d \in Clients : Known(d)'
  BY <1>1, <1>2, <1>6 DEF ReadField
<1>7. CASE UNCHANGED vars
  BY <1>2, <1>7 DEF vars, handlerSide
<1>. QED
  BY <1>2, <1>3, <1>4, <1>5, <1>6, <1>7 DEF Next, ServerStep, HandlerStep

LEMMA InvStep == IInv /\ [Next]_vars => IInv'
<1>. SUFFICES ASSUME IInv, [Next]_vars PROVE IInv'
  OBVIOUS
<1>1. TypeOK' /\ \A c \in Clients : Known(c)'
  BY TypeStep, KnownStep DEF IInv
<1>2. CASE DaemonStep \/ AcceptFails \/ Stop \/ StartDaemon
  BY <1>1, <1>2, DaemonInv DEF IInv
<1>3. ASSUME NEW c \in Clients, ClientStep(c) \/ Interrupt(c) PROVE IInv'
  BY <1>1, <1>3, ClientInv DEF IInv
<1>4. ASSUME NEW c \in Clients, HandlerStep(c) PROVE IInv'
  BY <1>1, <1>4, HandlerInv DEF IInv
<1>5. ASSUME NEW c \in Clients, ChildStep(c) \/ SuEnds(c) \/ KillChild(c) \/ Release(c)
      PROVE  IInv'
  BY <1>1, <1>5, ChildInv DEF IInv
<1>6. CASE UNCHANGED vars
  <2>1. \A c \in Clients : Same(c) /\ Handled(c) /\ Back(c)
    BY <1>6 DEF Same, vars, clientSide, handlerSide, commandSide, IInv
  <2>2. \A c \in Clients : Handled(c)' /\ Back(c)'
    BY <2>1, SameFrame
  <2>3. Queued'
    BY <1>6 DEF Queued, Fresh, vars, clientSide, daemonSide, handlerSide, IInv
  <2>. QED  BY <1>1, <2>2, <2>3 DEF IInv
<1>. QED  BY <1>2, <1>3, <1>4, <1>5, <1>6 DEF Next, ServerStep

THEOREM Invariance == Spec => []IInv
  BY InvInit, InvStep, PTL DEF Spec

(* Type correctness for any number of clients and requests.                *)
THEOREM TypeCorrect == Spec => []TypeOK
<1>1. IInv => TypeOK
  BY DEF IInv
<1>. QED  BY <1>1, Invariance, PTL

(* The su that is run has read the whole request.                          *)
LEMMA RequestWhole ==
  ASSUME IInv, NEW c \in Clients, su[c] # None
  PROVE  /\ from[c] = uid[c]
         /\ got[c] = 1 + Argc(c)
         /\ ~(request[c].mount /\ Len(request[c].args) = 1) => Argv(c) = Asked(c)
<1>1. got[c] = 1 + Argc(c)
  BY DEF IInv, Handled
<1>2. from[c] = uid[c]
  <2>1. got[c] # 0
    BY <1>1, ArgsType
  <2>. QED  BY <2>1 DEF IInv, Known
<1>3. ASSUME ~(request[c].mount /\ Len(request[c].args) = 1) PROVE Argv(c) = Asked(c)
  <2>1. Len(Args(c)) = Argc(c)
    BY <1>3, Count
  <2>2. Argv(c) = Args(c)
    BY <1>1, <2>1, Words DEF Argv
  <2>3. Args(c) = Asked(c)
    <3>1. Len(request[c].args) \in Nat /\ Len(request[c].args) > 0
      BY ArgsType
    <3>2. request[c].mount => Len(request[c].args) # 1
      BY <1>3, Zenon
    <3>3. \A n \in Nat : n > 0 /\ n # 1 => n > 1
      OBVIOUS
    <3>4. request[c].mount => Len(request[c].args) > 1
      BY <3>1, <3>2, <3>3, Zenon
    <3>. QED  BY <3>4 DEF Args, Asked
  <2>. QED  BY <2>2, <2>3
<1>. QED  BY <1>1, <1>2, <1>3

(* Whatever is sent, and whoever dies, the su that is run has the whole    *)
(* request of its client and knows who asks.                               *)
THEOREM RequestTheorem == Spec => []RequestArrives
<1>1. IInv => RequestArrives
  BY RequestWhole DEF RequestArrives
<1>. QED  BY <1>1, Invariance, PTL

(* The status that an invocation ends with is the status of its command,   *)
(* unless it tells of a failure or a signal has broken the chain.          *)
THEOREM StatusTheorem == Spec => []StatusOfCommand
<1>1. IInv => StatusOfCommand
  BY DEF IInv, Back, StatusOfCommand, Failure
<1>. QED  BY <1>1, Invariance, PTL

-----------------------------------------------------------------------------
(* SuDaemon implements RemoteCall.  First, what is executed is what was    *)
(* requested: seen from outside it depends on whether su runs only.        *)
Ran(c) == IF su[c] = None THEN {} ELSE {Requested(c)}

LEMMA ExecutedRequest ==
  ASSUME IInv, NEW c \in Clients
  PROVE  Executed(c) = Ran(c)
<1>. USE DEF Ran
<1>1. CASE su[c] = None
  BY <1>1 DEF Executed
<1>2. CASE su[c] # None
  <2>1. from[c] = uid[c] /\ got[c] = 1 + Argc(c)
    BY <1>2, RequestWhole
  <2>2. CASE ~(request[c].mount /\ Len(request[c].args) = 1)
    <3>1. Argv(c) = Asked(c)
      BY <1>2, <2>2, RequestWhole
    <3>. QED  BY <1>2, <2>1, <2>2, <3>1 DEF Executed, Requested
  <2>3. CASE request[c].mount /\ Len(request[c].args) = 1
    <3>1. Argc(c) = 0
      BY <2>3 DEF Argc
    <3>2. Argv(c) = <<>>
      BY <2>1, <3>1, ArgsType DEF Argv, Message
    <3>. QED  BY <1>2, <2>1, <2>3, <3>2 DEF Executed, Requested
  <2>. QED  BY <2>2, <2>3
<1>. QED  BY <1>1, <1>2

LEMMA ExecutedIsRan == IInv => [c \in Clients |-> Executed(c)] = [c \in Clients |-> Ran(c)]
  BY ExecutedRequest

LEMMA ExecutedIsRanNext ==
  IInv' => [c \in Clients |-> Executed(c)'] = [c \in Clients |-> Ran(c)']
<1>1. IInv' => ([c \in Clients |-> Executed(c)] = [c \in Clients |-> Ran(c)])'
  BY ExecutedIsRan, PTL
<1>. QED  BY <1>1

(* The status that a client ends with is one that RemoteCall allows.       *)
Answered(c) ==
  /\ result[c] = None
  /\ su' = su
  /\ \E n \in 0..255 :
       /\ result' = [result EXCEPT ![c] = n]
       /\ \/ Breaks(c)
          \/ broken' = broken /\ (n \in {1, 255} \/ broken[c] \/ n = su[c])

LEMMA AnsweredByClient ==
  ASSUME IInv, NEW c \in Clients, ClientStep(c) \/ Interrupt(c)
  PROVE  UNCHANGED <<su, result, broken>> \/ Answered(c)
<1>0. /\ TypeOK /\ Back(c) /\ HandlerTypes
      /\ ExitStatus(1) = 1 /\ ExitStatus(255) = 255 /\ ExitStatus(Killed) = 0
  BY ExitOfFailure DEF IInv, TypeOK, ExitStatus
<1>1. su' = su
  BY DEF ClientStep, Interrupt, Connect, ClientFails, SendField, ReadAck, Pump, ReadCode,
         commandSide
<1>2. ASSUME client[c] # "ended", NEW n \in 0..255, result' = [result EXCEPT ![c] = n],
             \/ Breaks(c)
             \/ broken' = broken /\ (n \in {1, 255} \/ broken[c] \/ n = su[c])
      PROVE  Answered(c)
  BY <1>0, <1>1, <1>2 DEF Answered, Back
<1>3. ASSUME client[c] # "ended", NEW s \in {1, 255}, End(c, s), broken' = broken
      PROVE  Answered(c)
  <2>1. ExitStatus(s) = s /\ s \in 0..255
    BY <1>0, <1>3
  <2>2. result' = [result EXCEPT ![c] = s]
    BY <1>3, <2>1 DEF End
  <2>3. result[c] = None
    BY <1>0, <1>3 DEF Back
  <2>4. \E n \in 0..255 :
          result' = [result EXCEPT ![c] = n] /\ broken' = broken /\ n \in {1, 255}
    <3>1. s \in 0..255
      BY <2>1
    <3>. WITNESS s \in 0..255
    <3>2. broken' = broken
      BY <1>3
    <3>. QED  BY <2>2, <3>2
  <2>. QED  BY <1>1, <2>3, <2>4 DEF Answered
<1>4. ASSUME client[c] # "ended", End(c, Killed), Breaks(c) PROVE Answered(c)
  BY <1>0, <1>2, <1>4 DEF End
<1>5. CASE ClientFails(c)
  BY <1>3, <1>5 DEF ClientFails
<1>6. CASE SendField(c)
  BY <1>1, <1>4, <1>6 DEF SendField
<1>7. CASE ReadAck(c)
  BY <1>1, <1>3, <1>7 DEF ReadAck
<1>8. CASE ReadCode(c)
  <2>1. CASE End(c, 255)
    BY <1>3, <1>8, <2>1 DEF ReadCode
  <2>2. CASE Len(replies[c]) > 1 /\ End(c, replies[c][2] % 256)
    <3>. DEFINE m == replies[c][2]
                n == ExitStatus(m % 256)
    <3>1. /\ n \in 0..255
          /\ IF m = None THEN n = 255 ELSE n = m
      <4>1. /\ m % 256 \in 0..255 /\ n \in 0..255 /\ n = m % 256
            /\ IF m = None THEN m % 256 = 255 ELSE m % 256 = m
        BY <1>0, <2>2, CodeRead, ZenonT(60)
      <4>. HIDE DEF m, n
      <4>. QED  BY <4>1
    <3>2. broken[c] \/ m \in Failure \/ su[c] = m
      BY <1>0, <2>2 DEF Back
    <3>3. result' = [result EXCEPT ![c] = n] /\ client[c] # "ended" /\ broken' = broken
      BY <1>8, <2>2 DEF End, ReadCode
    <3>. HIDE DEF m, n
    <3>4. n \in {1, 255} \/ broken[c] \/ n = su[c]
      BY <3>1, <3>2 DEF Failure
    <3>. QED  BY <1>2, <3>1, <3>3, <3>4
  <2>. QED  BY <1>8, <2>1, <2>2 DEF ReadCode
<1>9. CASE Interrupt(c)
  BY <1>1, <1>3, <1>4, <1>9 DEF Interrupt
<1>10. CASE Connect(c) \/ Pump(c)
  BY <1>1, <1>10 DEF Connect, Pump
<1>. QED  BY <1>5, <1>6, <1>7, <1>8, <1>9, <1>10 DEF ClientStep

(* What su and the signals do to the command.                              *)
Executes(c) ==
  /\ result' = result
  /\ \/ su[c] = None /\ su' = [su EXCEPT ![c] = Running] /\ broken' = broken
     \/ su[c] = Running /\ broken' = broken /\ \E n \in Codes : su' = [su EXCEPT ![c] = n]
     \/ su[c] = Running /\ Breaks(c) /\ su' = [su EXCEPT ![c] = Killed]
     \/ Breaks(c) /\ su' = su

LEMMA ExecutedByChild ==
  ASSUME IInv, NEW c \in Clients,
         ChildStep(c) \/ SuEnds(c) \/ KillChild(c) \/ Release(c)
  PROVE  UNCHANGED <<su, result, broken>> \/ Executes(c)
<1>1. result' = result
  BY DEF ChildStep, OpenTerminal, RunDaemonChild, ReapSu, SuEnds, KillChild, Release,
         clientSide
<1>2. CASE RunDaemonChild(c)
  <2>1. su[c] = None
    BY <1>2 DEF IInv, Handled, RunDaemonChild
  <2>. QED  BY <1>1, <1>2, <2>1 DEF RunDaemonChild, Executes
<1>3. CASE SuEnds(c) \/ KillChild(c)
  BY <1>1, <1>3 DEF SuEnds, KillChild, Executes
<1>4. CASE OpenTerminal(c) \/ ReapSu(c) \/ Release(c)
  BY <1>1, <1>4 DEF OpenTerminal, ReapSu, Release
<1>. QED  BY <1>2, <1>3, <1>4 DEF ChildStep

LEMMA OthersHidden ==
  ASSUME \/ DaemonStep \/ AcceptFails \/ Stop \/ StartDaemon \/ UNCHANGED vars
         \/ \E c \in Clients : HandlerStep(c)
  PROVE  UNCHANGED <<su, result, broken>>
  BY DEF DaemonStep, Accept, ForkHandler, Reap, AcceptFails, Stop, StartDaemon, vars,
         HandlerStep, ReadField, Ack, ForkChild, SendCode, clientSide, commandSide

(* As RemoteCall sees it: a call is answered, run, finished or cut.        *)
LEMMA CallStep ==
  ASSUME IInv, IInv', [Next]_vars
  PROVE  Call!Next \/ UNCHANGED Call!cvars
<1>. DEFINE ran == [c \in Clients |-> Executed(c)]
            nextRan == [c \in Clients |-> Executed(c)']
<1>0. /\ su \in [Clients -> {None, Running} \cup Statuses]
      /\ result \in [Clients -> {None} \cup 0..255]
      /\ broken \in [Clients -> BOOLEAN]
  BY DEF IInv, TypeOK, CommandTypes, ClientTypes
<1>1. ran = [c \in Clients |-> Ran(c)] /\ nextRan = [c \in Clients |-> Ran(c)']
  BY ExecutedIsRan, ExecutedIsRanNext
<1>2. ASSUME su' = su PROVE nextRan = ran
  BY <1>1, <1>2 DEF Ran, Requested, Asked
<1>3. ASSUME NEW c \in Clients, NEW x, su[c] # None, x # None, su' = [su EXCEPT ![c] = x]
      PROVE  nextRan = ran
  BY <1>0, <1>1, <1>3 DEF Ran, Requested, Asked
<1>4. ASSUME NEW c \in Clients, su[c] = None, su' = [su EXCEPT ![c] = Running]
      PROVE  nextRan = [ran EXCEPT ![c] = @ \cup {[d \in Clients |-> Requested(d)][c]}]
  <2>1. Running # None
    BY DEF Running, None
  <2>2. \A d \in Clients : Ran(d)' = IF d = c THEN {Requested(d)} ELSE Ran(d)
    BY <1>0, <1>4, <2>1 DEF Ran, Requested, Asked
  <2>3. Ran(c) = {} /\ [d \in Clients |-> Requested(d)][c] = Requested(c)
    BY <1>4 DEF Ran
  <2>4. nextRan = [d \in Clients |-> IF d = c THEN {Requested(d)} ELSE Ran(d)]
    BY <1>1, <2>2
  <2>5. [ran EXCEPT ![c] = @ \cup {Requested(c)}]
          = [d \in Clients |-> IF d = c THEN ran[c] \cup {Requested(c)} ELSE ran[d]]
    BY <1>1
  <2>6. ran[c] = {} /\ \A d \in Clients : ran[d] = Ran(d)
    BY <1>1, <2>3
  <2>. QED  BY <2>3, <2>4, <2>5, <2>6, Zenon
<1>. HIDE DEF ran, nextRan
<1>5. CASE UNCHANGED <<su, result, broken>>
  BY <1>2, <1>5 DEF Call!cvars, ran, nextRan
<1>6. ASSUME NEW c \in Clients, Answered(c)
      PROVE  Call!Next
  <2>1. nextRan = ran /\ result[c] = None /\ su' = su
    BY <1>2, <1>6 DEF Answered
  <2>2. PICK n \in 0..255 :
          /\ result' = [result EXCEPT ![c] = n]
          /\ \/ Breaks(c)
             \/ broken' = broken /\ (n \in {1, 255} \/ broken[c] \/ n = su[c])
    BY <1>6 DEF Answered
  <2>3. CASE Breaks(c)
    BY <2>1, <2>2, <2>3 DEF Call!Next, Call!Cut, Breaks, ran, nextRan
  <2>4. CASE ~Breaks(c)
    BY <2>1, <2>2, <2>4 DEF Call!Next, Call!Answer, ran, nextRan
  <2>. QED  BY <2>3, <2>4
<1>7. ASSUME NEW c \in Clients, Executes(c)
      PROVE  Call!Next
  <2>0. Running # None /\ Killed # None /\ None \notin Codes
    BY CodeAssumption DEF Running, None, Killed
  <2>1. CASE su[c] = None /\ su' = [su EXCEPT ![c] = Running] /\ broken' = broken
    BY <1>4, <1>7, <2>1 DEF Executes, Call!Next, Call!Run, ran, nextRan
  <2>2. ASSUME su[c] = Running, broken' = broken, NEW n \in Codes, su' = [su EXCEPT ![c] = n]
        PROVE  Call!Next
    BY <1>3, <1>7, <2>0, <2>2 DEF Executes, Call!Next, Call!Finish, ran, nextRan
  <2>3. CASE su[c] = Running /\ Breaks(c) /\ su' = [su EXCEPT ![c] = Killed]
    BY <1>3, <1>7, <2>0, <2>3 DEF Executes, Call!Next, Call!Cut, Breaks, ran, nextRan
  <2>4. CASE Breaks(c) /\ su' = su
    BY <1>2, <1>7, <2>4 DEF Executes, Call!Next, Call!Cut, Breaks, ran, nextRan
  <2>. QED  BY <1>7, <2>1, <2>2, <2>3, <2>4 DEF Executes
<1>8. ASSUME NEW c \in Clients, ClientStep(c) \/ Interrupt(c)
      PROVE  Call!Next \/ UNCHANGED Call!cvars
  BY <1>5, <1>6, <1>8, AnsweredByClient
<1>9. ASSUME NEW c \in Clients, ChildStep(c) \/ SuEnds(c) \/ KillChild(c) \/ Release(c)
      PROVE  Call!Next \/ UNCHANGED Call!cvars
  BY <1>5, <1>7, <1>9, ExecutedByChild
<1>10. CASE \/ DaemonStep \/ AcceptFails \/ Stop \/ StartDaemon \/ UNCHANGED vars
            \/ \E c \in Clients : HandlerStep(c)
  BY <1>5, <1>10, OthersHidden
<1>. QED  BY <1>8, <1>9, <1>10 DEF Next, ServerStep

(* Whoever fails, is stopped or is killed, a command is run at most once   *)
(* and as it was requested, and its invoker is answered once, with its     *)
(* status, a failure, or anything if a signal has broken the chain.        *)
THEOREM CallTheorem == Spec => ImplementsCall
<1>1. Init => Call!Init
  <2>. SUFFICES ASSUME Init PROVE Call!Init
    OBVIOUS
  <2>1. [c \in Clients |-> Executed(c)] = [c \in Clients |-> {}]
    BY DEF Init, Executed
  <2>. QED  BY <2>1 DEF Init, Call!Init
<1>2. IInv /\ IInv' /\ [Next]_vars => [Call!Next]_(Call!cvars)
  BY CallStep
<1>. QED  BY <1>1, <1>2, Invariance, PTL DEF Spec, ImplementsCall, Call!Spec
-----------------------------------------------------------------------------
(* The guards of the processes, and of the daemon for a connection that it *)
(* has not handed on.                                                      *)
ClientCan(c) ==
  \/ client[c] \in {"connect", "send"}
  \/ client[c] = "ack" /\ (Len(replies[c]) > 0 \/ ~Held(c))
  \/ client[c] = "pump" /\ slave[c] = "closed"
  \/ client[c] = "code" /\ (Len(replies[c]) > 1 \/ ~Held(c))

HandlerCan(c) ==
  \/ handler[c] = "read" /\ (got[c] = Wanted(c) \/ got[c] < sent[c] \/ client[c] = "ended")
  \/ handler[c] = "fork"
  \/ handler[c] = "wait" /\ child[c] \in Statuses

ChildCan(c) ==
  \/ child[c] \in {Starting, Opened}
  \/ child[c] = Running /\ su[c] # Running

DaemonCan(c) ==
  \/ daemon = c
  \/ daemon # "gone" /\ (\E i \in 1..Len(backlog) : backlog[i] = c)

(* What a chain may wait for: nothing any more, or what the command has    *)
(* left running on the terminal.                                           *)
Over(c) ==
  client[c] = "ended" /\ ~Alive(c) /\ child[c] \notin {Starting, Opened, Running}

Left(c) == client[c] = "pump" /\ slave[c] = "open" /\ su[c] \in Statuses

(* The processes of a chain never wait for one another (waitpid,           *)
(* daemon.c:340, and the reads of the socket, daemon.c:644, 653): when no  *)
(* command runs and none has left something running, one of them can go on *)
(* or all have ended, but for the excused pump.                            *)
NobodyStuck ==
  \A c \in Clients :
    \/ ClientCan(c) \/ HandlerCan(c) \/ ChildCan(c) \/ DaemonCan(c)
    \/ su[c] = Running \/ Left(c) \/ Unopened(c) \/ Over(c)

(* Both ends count the fields alike, whoever waits for a reply has sent    *)
(* everything, and a parent has the child it waits for.                    *)
Linked(c) ==
  /\ got[c] <= sent[c] /\ got[c] <= 1 + Argc(c)
  /\ sent[c] <= Len(Message(c))
  /\ client[c] \in {"connect", "send"} => sent[c] < Len(Message(c))
  /\ client[c] \in {"ack", "pump", "code"} => sent[c] = Len(Message(c))
  /\ client[c] \in {"pump", "code"} \/ child[c] # None => Len(replies[c]) > 0
  /\ handler[c] = "wait" => child[c] # None
  /\ child[c] = Running => su[c] # None
  /\ child[c] \in {None, Starting} => slave[c] = "unopened"
  /\ slave[c] = "open" /\ su[c] = None => child[c] = Opened

Linkage ==
  /\ IInv
  /\ daemon = "gone" => backlog = <<>>
  /\ \A c \in Clients : Linked(c)

LEMMA MessageLength ==
  ASSUME NEW c \in Clients
  PROVE  Len(Message(c)) \in Nat /\ Len(Message(c)) >= 1 + Argc(c) /\ Argc(c) \in Nat
<1>1. Args(c) \in Seq(Word) /\ Argc(c) \in Nat /\ Len(request[c].args) \in Nat
      /\ Len(request[c].args) > 0
  BY ArgsType
<1>2. Len(Message(c)) = 1 + Len(Args(c)) /\ Len(Args(c)) \in Nat
  BY <1>1 DEF Message
<1>3. Argc(c) <= Len(Args(c))
  <2>1. CASE request[c].mount /\ Len(request[c].args) = 1
    BY <1>1, <1>2, <2>1 DEF Argc
  <2>2. CASE ~(request[c].mount /\ Len(request[c].args) = 1)
    BY <1>1, <2>2, Count
  <2>. QED  BY <2>1, <2>2
<1>. QED  BY <1>1, <1>2, <1>3

LEMMA WantedBounds ==
  ASSUME NEW c \in Clients
  PROVE  /\ Wanted(c) \in Nat /\ Wanted(c) <= 1 + Argc(c)
         /\ got[c] # 0 => Wanted(c) = 1 + Argc(c)
<1>1. Argc(c) \in Nat /\ Message(c)[1].argc = Argc(c)
  BY MessageLength, Header
<1>. QED  BY <1>1 DEF Wanted

(* The excuses, and the guards, are all there is.                          *)
LEMMA StuckNowhere == Linkage => NobodyStuck
<1>. SUFFICES ASSUME Linkage, NEW c \in Clients
              PROVE  \/ ClientCan(c) \/ HandlerCan(c) \/ ChildCan(c) \/ DaemonCan(c)
                     \/ su[c] = Running \/ Left(c) \/ Unopened(c) \/ Over(c)
  BY DEF NobodyStuck
<1>0. /\ ClientTypes /\ DaemonTypes /\ HandlerTypes /\ CommandTypes /\ Handled(c) /\ Linked(c)
      /\ daemon = "gone" => backlog = <<>>
  BY DEF Linkage, IInv, TypeOK
<1>1. ASSUME child[c] \in {Starting, Opened, Running} PROVE ChildCan(c) \/ su[c] = Running
  BY <1>1 DEF ChildCan
<1>2. ASSUME handler[c] = "wait" PROVE HandlerCan(c) \/ ChildCan(c) \/ su[c] = Running
  BY <1>0, <1>1, <1>2 DEF CommandTypes, HandlerCan, Linked
<1>3. ASSUME handler[c] = "read" PROVE HandlerCan(c) \/ ClientCan(c)
  <2>1. CASE client[c] \in {"connect", "send", "ended"}
    BY <1>3, <2>1 DEF HandlerCan, ClientCan
  <2>2. CASE client[c] \in {"ack", "pump", "code"}
    <3>1. sent[c] = Len(Message(c)) /\ got[c] \in Nat /\ got[c] <= 1 + Argc(c)
      BY <1>0, <2>2 DEF Linked, HandlerTypes
    <3>2. got[c] < sent[c] \/ got[c] = 1 + Argc(c)
      BY <3>1, MessageLength
    <3>3. got[c] = 1 + Argc(c) => got[c] = Wanted(c)
      BY <3>1, WantedBounds, MessageLength
    <3>. QED  BY <1>3, <3>2, <3>3 DEF HandlerCan
  <2>. QED  BY <1>0, <2>1, <2>2 DEF ClientTypes
<1>4. ASSUME Held(c) PROVE \/ DaemonCan(c) \/ ClientCan(c) \/ HandlerCan(c) \/ ChildCan(c)
                           \/ su[c] = Running
  <2>1. CASE \E i \in 1..Len(backlog) : backlog[i] = c
    <3>1. daemon # "gone"
      BY <1>0, <2>1
    <3>. QED  BY <2>1, <3>1 DEF DaemonCan
  <2>2. CASE daemon = c
    BY <2>2 DEF DaemonCan
  <2>3. CASE handler[c] = "fork"
    BY <2>3 DEF HandlerCan
  <2>. QED  BY <1>1, <1>2, <1>3, <1>4, <2>1, <2>2, <2>3 DEF Held
<1>5. ASSUME Alive(c) PROVE Held(c)
  BY <1>5 DEF Alive, Held
<1>6. CASE client[c] = "ended"
  BY <1>1, <1>4, <1>5, <1>6 DEF Over
<1>7. CASE client[c] = "pump"
  <2>1. CASE slave[c] = "open" /\ su[c] = None
    BY <1>0, <2>1 DEF Linked, ChildCan
  <2>2. CASE slave[c] = "open" /\ su[c] # None
    BY <1>0, <1>7, <2>2 DEF CommandTypes, Left
  <2>3. CASE slave[c] = "closed"
    BY <1>7, <2>3 DEF ClientCan
  <2>4. CASE slave[c] = "unopened"
    BY <1>4, <1>7, <2>4 DEF Unopened
  <2>. QED  BY <1>0, <2>1, <2>2, <2>3, <2>4 DEF CommandTypes
<1>8. CASE client[c] \in {"ack", "code"}
  BY <1>4, <1>8 DEF ClientCan
<1>9. CASE client[c] \in {"connect", "send"}
  BY <1>9 DEF ClientCan
<1>. QED  BY <1>0, <1>6, <1>7, <1>8, <1>9 DEF ClientTypes

(* What the message is does not change.                                    *)
LEMMA MessageStays ==
  ASSUME NEW c \in Clients
  PROVE  Message(c)' = Message(c) /\ Argc(c)' = Argc(c)
  BY DEF Message, Args, Argc

LEMMA LinkedFrame ==
  ASSUME NEW d \in Clients, Linked(d), Same(d), sent'[d] = sent[d], slave'[d] = slave[d]
  PROVE  Linked(d)'
  BY MessageStays DEF Linked, Same

(* How far one step takes a client, a handler, and a child with su.        *)
ClientMove(c) ==
  \/ client[c] # "ended" /\ client'[c] = "ended" /\ sent'[c] = sent[c]
  \/ client[c] = "connect" /\ client'[c] = "send" /\ sent'[c] = sent[c]
  \/ /\ client[c] = "send" /\ sent'[c] = sent[c] + 1
     /\ client'[c] = IF sent'[c] = Len(Message(c)) THEN "ack" ELSE "send"
  \/ /\ client[c] = "ack" /\ Len(replies[c]) > 0 /\ client'[c] \in {"pump", "code"}
     /\ sent'[c] = sent[c]
  \/ client[c] = "pump" /\ client'[c] = "code" /\ sent'[c] = sent[c]

HandlerMove(c) ==
  /\ Len(replies'[c]) >= Len(replies[c])
  /\ \/ /\ handler[c] = "read" /\ handler'[c] \in {"read", "gone"}
        /\ got[c] < sent[c] /\ got[c] < Wanted(c) /\ got'[c] = got[c] + 1
        /\ child'[c] = child[c]
     \/ /\ handler[c] \in {"read", "fork", "wait"} /\ handler'[c] = "gone"
        /\ got'[c] = got[c] /\ child'[c] = child[c]
     \/ /\ handler[c] = "read" /\ handler'[c] = "fork"
        /\ got'[c] = got[c] /\ child'[c] = child[c]
     \/ /\ handler[c] = "fork" /\ handler'[c] = "wait" /\ Len(replies[c]) = 1
        /\ got'[c] = got[c] /\ child[c] = None /\ child'[c] = Starting

ChildMove(c) ==
  \/ /\ child[c] = Starting /\ child'[c] = Opened /\ su'[c] = su[c]
     /\ slave[c] = "unopened" /\ slave'[c] \in {"unopened", "open"}
  \/ /\ child[c] = Opened /\ child'[c] = Running /\ su[c] = None /\ su'[c] = Running
     /\ slave'[c] = slave[c]
  \/ /\ child[c] \in {Starting, Opened, Running} /\ child'[c] \in Statuses /\ su'[c] = su[c]
     /\ slave'[c] = slave[c] \/ (slave[c] = "open" /\ slave'[c] = "closed")
     /\ su[c] = None => slave'[c] # "open"
  \/ /\ su[c] = Running /\ su'[c] \in Statuses /\ child'[c] = child[c]
     /\ slave'[c] = slave[c]
  \/ /\ slave[c] = "open" /\ slave'[c] = "closed" /\ su[c] \in Statuses
     /\ su'[c] = su[c] /\ child'[c] = child[c]

LEMMA ClientMoved ==
  ASSUME TypeOK, NEW c \in Clients, ClientStep(c) \/ Interrupt(c)
  PROVE  /\ UNCHANGED <<handler, got, replies, child, su, slave>>
         /\ \A d \in Clients \ {c} : /\ client'[d] = client[d] /\ sent'[d] = sent[d]
                                      /\ result'[d] = result[d] /\ broken'[d] = broken[d]
         /\ ClientMove(c)
<1>0. /\ ClientTypes /\ broken \in [Clients -> BOOLEAN]
      /\ client[c] \in {"connect", "send", "ack", "pump", "code", "ended"}
  BY DEF TypeOK, ClientTypes
<1>1. UNCHANGED <<handler, got, replies, child, su, slave>>
  BY DEF ClientStep, Interrupt, Connect, ClientFails, SendField, ReadAck, Pump, ReadCode,
         handlerSide, commandSide
<1>2. /\ \A d \in Clients \ {c} : /\ client'[d] = client[d] /\ sent'[d] = sent[d]
                                   /\ result'[d] = result[d] /\ broken'[d] = broken[d]
      /\ ClientMove(c)
  <2>1. CASE Connect(c)
    BY <1>0, <2>1 DEF Connect, ClientTypes, ClientMove
  <2>2. CASE ClientFails(c)
    BY <1>0, <2>2 DEF ClientFails, End, ClientTypes, ClientMove
  <2>3. CASE SendField(c)
    BY <1>0, <2>3 DEF SendField, End, Breaks, ClientTypes, ClientMove
  <2>4. CASE ReadAck(c)
    BY <1>0, <2>4 DEF ReadAck, End, ClientTypes, ClientMove
  <2>5. CASE Pump(c)
    BY <1>0, <2>5 DEF Pump, ClientTypes, ClientMove
  <2>6. CASE ReadCode(c)
    BY <1>0, <2>6 DEF ReadCode, End, ClientTypes, ClientMove
  <2>7. CASE Interrupt(c)
    BY <1>0, <2>7 DEF Interrupt, End, Breaks, ClientTypes, ClientMove
  <2>. QED  BY <2>1, <2>2, <2>3, <2>4, <2>5, <2>6, <2>7 DEF ClientStep
<1>. QED  BY <1>1, <1>2

LEMMA HandlerMoved ==
  ASSUME TypeOK, NEW c \in Clients, Handled(c), HandlerStep(c)
  PROVE  /\ UNCHANGED <<client, sent, result, su, slave, broken>>
         /\ \A d \in Clients \ {c} : /\ handler'[d] = handler[d] /\ got'[d] = got[d]
                                      /\ replies'[d] = replies[d] /\ child'[d] = child[d]
         /\ HandlerMove(c)
<1>0. /\ HandlerTypes /\ CommandTypes
      /\ got[c] \in Nat /\ replies[c] \in Seq({None} \cup 0..255) /\ Len(replies[c]) \in Nat
  BY DEF TypeOK, HandlerTypes
<1>1. UNCHANGED <<client, sent, result, su, slave, broken>>
  BY DEF HandlerStep, ReadField, Ack, ForkChild, SendCode, clientSide, commandSide
<1>2. ASSUME NEW n, NEW p, Reply(c, n, p)
      PROVE  /\ \A d \in Clients \ {c} : handler'[d] = handler[d] /\ replies'[d] = replies[d]
             /\ handler'[c] \in {p, "gone"}
             /\ Len(replies'[c]) >= Len(replies[c])
  <2>1. CASE client[c] = "ended"
    <3>1. handler' = [handler EXCEPT ![c] = "gone"] /\ replies' = replies
      BY <1>2, <2>1 DEF Reply
    <3>. QED  BY <1>0, <3>1 DEF HandlerTypes
  <2>2. CASE client[c] # "ended"
    <3>1. handler' = [handler EXCEPT ![c] = p]
          /\ replies' = [replies EXCEPT ![c] = Append(replies[c], n)]
      BY <1>2, <2>2 DEF Reply
    <3>2. Len(Append(replies[c], n)) = Len(replies[c]) + 1
      BY <1>0
    <3>3. replies'[c] = Append(replies[c], n) /\ handler'[c] = p
          /\ \A d \in Clients \ {c} : handler'[d] = handler[d] /\ replies'[d] = replies[d]
      BY <1>0, <3>1 DEF HandlerTypes
    <3>. QED  BY <1>0, <3>2, <3>3
  <2>. QED  BY <2>1, <2>2
<1>3. /\ \A d \in Clients \ {c} : /\ handler'[d] = handler[d] /\ got'[d] = got[d]
                                   /\ replies'[d] = replies[d] /\ child'[d] = child[d]
      /\ HandlerMove(c)
  <2>1. CASE ReadField(c)
    <3>1. /\ handler[c] = "read" /\ got[c] < Wanted(c) /\ replies' = replies /\ child' = child
          /\ Len(replies'[c]) >= Len(replies[c])
      BY <1>0, <2>1 DEF ReadField, commandSide
    <3>2. CASE got[c] < sent[c] /\ got' = [got EXCEPT ![c] = @ + 1]
               /\ handler' = [handler EXCEPT ![c] =
                               IF got'[c] = 1 /\ Argc(c) > MaxArgs THEN "gone" ELSE @]
      BY <1>0, <3>1, <3>2 DEF HandlerTypes, HandlerMove
    <3>3. CASE handler' = [handler EXCEPT ![c] = "gone"] /\ got' = got
      BY <1>0, <3>1, <3>3 DEF HandlerTypes, HandlerMove
    <3>. QED  BY <2>1, <3>2, <3>3 DEF ReadField
  <2>2. CASE Ack(c)
    <3>1. handler[c] = "read" /\ got' = got /\ child' = child /\ Reply(c, 1, "fork")
      BY <2>2 DEF Ack, commandSide
    <3>. QED  BY <1>2, <3>1 DEF HandlerMove
  <2>3. CASE SendCode(c)
    <3>1. /\ handler[c] = "wait" /\ got' = got /\ child' = child
          /\ Reply(c, ExitStatus(child[c]), "gone")
      BY <2>3 DEF SendCode, commandSide
    <3>. QED  BY <1>2, <3>1 DEF HandlerMove
  <2>4. CASE ForkChild(c)
    <3>1. /\ handler[c] = "fork" /\ got' = got /\ child[c] = None /\ Len(replies[c]) = 1
      BY <1>0, <2>4 DEF ForkChild, Handled
    <3>2. CASE Reply(c, None, "gone") /\ child' = child
      BY <1>2, <3>1, <3>2 DEF HandlerMove
    <3>3. CASE handler' = [handler EXCEPT ![c] = "wait"] /\ replies' = replies
                 /\ child' = [child EXCEPT ![c] = Starting]
      <4>1. handler'[c] = "wait" /\ child'[c] = Starting
        BY <1>0, <3>3 DEF HandlerTypes, CommandTypes
      <4>2. \A d \in Clients \ {c} : handler'[d] = handler[d] /\ child'[d] = child[d]
        BY <1>0, <3>3 DEF HandlerTypes, CommandTypes
      <4>3. replies'[c] = replies[c] /\ Len(replies'[c]) >= Len(replies[c])
        BY <3>1, <3>3
      <4>. QED  BY <3>1, <3>3, <4>1, <4>2, <4>3 DEF HandlerMove
    <3>. QED  BY <2>4, <3>2, <3>3 DEF ForkChild
  <2>. QED  BY <2>1, <2>2, <2>3, <2>4 DEF HandlerStep
<1>. QED  BY <1>1, <1>3

LEMMA StatusesApart ==
  /\ None \notin {Starting, Opened, Running} /\ Running \notin {Starting, Opened}
  /\ Opened # Starting
  /\ None \notin Statuses /\ Running \notin Statuses /\ Opened \notin Statuses
  /\ Starting \notin Statuses
  /\ 1 \in Statuses /\ 255 \in Statuses /\ Killed \in Statuses
  BY DEF None, Running, Starting, Opened, Killed, Statuses

LEMMA ChildMoved ==
  ASSUME TypeOK, NEW c \in Clients, Handled(c), Linked(c),
         ChildStep(c) \/ SuEnds(c) \/ KillChild(c) \/ Release(c)
  PROVE  /\ UNCHANGED <<client, sent, result, handler, got, replies>>
         /\ \A d \in Clients \ {c} : /\ child'[d] = child[d] /\ su'[d] = su[d]
                                      /\ slave'[d] = slave[d] /\ broken'[d] = broken[d]
         /\ child[c] # None /\ ChildMove(c)
<1>. DEFINE Others == \A d \in Clients \ {c} :
                        /\ child'[d] = child[d] /\ su'[d] = su[d]
                        /\ slave'[d] = slave[d] /\ broken'[d] = broken[d]
<1>0. CommandTypes /\ broken \in [Clients -> BOOLEAN]
  BY DEF TypeOK
<1>1. UNCHANGED <<client, sent, result, handler, got, replies>>
  BY DEF ChildStep, OpenTerminal, RunDaemonChild, ReapSu, SuEnds, KillChild, Release,
         clientSide, handlerSide
<1>2. CASE OpenTerminal(c)
  <2>1. child[c] = Starting /\ su' = su /\ broken' = broken /\ slave[c] = "unopened"
    BY <1>2 DEF OpenTerminal, Linked
  <2>2. \/ child' = [child EXCEPT ![c] = Opened]
           /\ slave' = [slave EXCEPT ![c] = IF request[c].tty THEN "open" ELSE @]
        \/ child' = [child EXCEPT ![c] = 255] /\ slave' = slave
    BY <1>2 DEF OpenTerminal
  <2>3. Others /\ child[c] # None /\ ChildMove(c)
    BY <1>0, <2>1, <2>2, StatusesApart DEF CommandTypes, ChildMove
  <2>. QED  BY <1>1, <2>3
<1>3. CASE RunDaemonChild(c)
  <2>1. child[c] = Opened /\ broken' = broken /\ su[c] = None
    BY <1>3 DEF RunDaemonChild, Handled
  <2>2. CASE child' = [child EXCEPT ![c] = Running] /\ su' = [su EXCEPT ![c] = Running]
             /\ slave' = slave
    BY <1>0, <1>1, <2>1, <2>2, StatusesApart DEF CommandTypes, ChildMove
  <2>3. ASSUME NEW s \in {1, 255}, child' = [child EXCEPT ![c] = s], slave' = ClosedBy(c),
               su' = su
        PROVE  Others /\ child[c] # None /\ ChildMove(c)
    <3>1. /\ \A d \in Clients \ {c} : child'[d] = child[d] /\ slave'[d] = slave[d]
          /\ child'[c] \in Statuses /\ slave'[c] # "open"
          /\ slave'[c] = slave[c] \/ (slave[c] = "open" /\ slave'[c] = "closed")
      BY <1>0, <2>3, StatusesApart DEF CommandTypes, ClosedBy
    <3>. QED  BY <2>1, <2>3, <3>1, StatusesApart DEF ChildMove
  <2>. QED  BY <1>1, <1>3, <2>2, <2>3 DEF RunDaemonChild
<1>4. CASE ReapSu(c)
  <2>1. /\ child[c] = Running /\ su[c] # Running /\ su' = su /\ slave' = slave
        /\ broken' = broken /\ child' = [child EXCEPT ![c] = ExitStatus(su[c])]
        /\ su[c] # None
    BY <1>4 DEF ReapSu, Linked
  <2>2. ExitStatus(su[c]) \in Statuses
    BY <1>0, <2>1, ExitType DEF CommandTypes, Statuses
  <2>3. Others /\ child[c] # None /\ ChildMove(c)
    BY <1>0, <2>1, <2>2, StatusesApart DEF CommandTypes, ChildMove
  <2>. QED  BY <1>1, <2>3
<1>5. CASE SuEnds(c)
  <2>1. su[c] = Running /\ child' = child /\ slave' = slave /\ child[c] # None
    BY <1>5, StatusesApart DEF SuEnds, Handled
  <2>2. PICK n \in Codes \cup {Killed} : su' = [su EXCEPT ![c] = n]
    BY <1>5 DEF SuEnds
  <2>3. n \in Statuses
    BY CodeAssumption, StatusesApart DEF Statuses
  <2>4. \A d \in Clients \ {c} : broken'[d] = broken[d]
    BY <1>0, <1>5 DEF SuEnds, Breaks
  <2>5. Others /\ ChildMove(c)
    BY <1>0, <2>1, <2>2, <2>3, <2>4 DEF CommandTypes, ChildMove
  <2>. QED  BY <1>1, <2>1, <2>5
<1>6. CASE KillChild(c)
  <2>1. /\ child[c] \in {Starting, Opened, Running} /\ child' = [child EXCEPT ![c] = Killed]
        /\ su' = su /\ Breaks(c)
        /\ slave' = IF su[c] = None THEN ClosedBy(c) ELSE slave
    BY <1>6 DEF KillChild
  <2>2. /\ \A d \in Clients \ {c} : slave'[d] = slave[d]
        /\ su[c] = None => slave'[c] # "open"
        /\ slave'[c] = slave[c] \/ (slave[c] = "open" /\ slave'[c] = "closed")
    BY <1>0, <2>1 DEF ClosedBy, CommandTypes
  <2>3. Others /\ child[c] # None /\ ChildMove(c)
    BY <1>0, <2>1, <2>2, StatusesApart DEF CommandTypes, Breaks, ChildMove
  <2>. QED  BY <1>1, <2>3
<1>7. CASE Release(c)
  <2>1. /\ child' = child /\ su' = su /\ slave' = [slave EXCEPT ![c] = "closed"]
        /\ su[c] \in Statuses /\ broken' = broken /\ slave[c] = "open"
    BY <1>7 DEF Release
  <2>2. child[c] # None
    BY <2>1, StatusesApart DEF Handled
  <2>3. Others /\ ChildMove(c)
    BY <1>0, <2>1 DEF CommandTypes, ChildMove
  <2>. QED  BY <1>1, <2>2, <2>3
<1>. QED  BY <1>2, <1>3, <1>4, <1>5, <1>6, <1>7 DEF ChildStep

(* None of them unlinks a chain.                                           *)
LEMMA LinkedByClient ==
  ASSUME TypeOK, NEW c \in Clients, ClientStep(c) \/ Interrupt(c),
         \A d \in Clients : Linked(d)
  PROVE  \A d \in Clients : Linked(d)'
<1>0. /\ Linked(c) /\ Message(c)' = Message(c) /\ Argc(c)' = Argc(c)
      /\ Len(Message(c)) \in Nat
      /\ sent[c] \in Nat /\ got[c] \in Nat /\ Len(replies[c]) \in Nat
  BY MessageStays, MessageLength DEF TypeOK, ClientTypes, HandlerTypes
<1>1. /\ UNCHANGED <<handler, got, replies, child, su, slave>>
      /\ \A d \in Clients \ {c} : /\ client'[d] = client[d] /\ sent'[d] = sent[d]
                                   /\ result'[d] = result[d] /\ broken'[d] = broken[d]
      /\ ClientMove(c)
  BY ClientMoved
<1>2. \A d \in Clients \ {c} : Linked(d)'
  BY <1>1, LinkedFrame DEF Same
<1>3. CASE client[c] = "send" /\ sent'[c] = sent[c] + 1
           /\ client'[c] = IF sent'[c] = Len(Message(c)) THEN "ack" ELSE "send"
  <2>1. sent[c] < Len(Message(c))
    BY <1>0, <1>3 DEF Linked
  <2>2. /\ got[c] <= sent'[c] /\ sent'[c] <= Len(Message(c))
        /\ client'[c] \in {"ack", "pump", "code"} => sent'[c] = Len(Message(c))
        /\ client'[c] \in {"connect", "send"} => sent'[c] < Len(Message(c))
        /\ client'[c] \notin {"pump", "code"}
    BY <1>0, <1>3, <2>1 DEF Linked
  <2>. QED  BY <1>0, <1>1, <1>2, <2>2 DEF Linked
<1>4. CASE sent'[c] = sent[c]
  <2>1. Linked(c)'
    BY <1>0, <1>1, <1>4 DEF Linked, ClientMove
  <2>. QED  BY <1>2, <2>1
<1>. QED  BY <1>1, <1>3, <1>4 DEF ClientMove

LEMMA LinkedByHandler ==
  ASSUME IInv, NEW c \in Clients, HandlerStep(c), \A d \in Clients : Linked(d)
  PROVE  \A d \in Clients : Linked(d)'
<1>0. /\ TypeOK /\ Handled(c)
      /\ Linked(c) /\ Message(c)' = Message(c) /\ Argc(c)' = Argc(c)
      /\ Len(Message(c)) \in Nat /\ Argc(c) \in Nat
      /\ sent[c] \in Nat /\ got[c] \in Nat /\ Len(replies[c]) \in Nat
      /\ Wanted(c) \in Nat /\ Wanted(c) <= 1 + Argc(c)
  <2>1. TypeOK /\ Handled(c)
    BY DEF IInv
  <2>2. sent[c] \in Nat /\ got[c] \in Nat /\ Len(replies[c]) \in Nat
    BY <2>1 DEF TypeOK, ClientTypes, HandlerTypes
  <2>3. Linked(c) /\ Message(c)' = Message(c) /\ Argc(c)' = Argc(c)
    BY MessageStays
  <2>4. Len(Message(c)) \in Nat /\ Argc(c) \in Nat
    BY MessageLength
  <2>5. Wanted(c) \in Nat /\ Wanted(c) <= 1 + Argc(c)
    BY <2>1, WantedBounds
  <2>. QED  BY <2>1, <2>2, <2>3, <2>4, <2>5
<1>1. /\ UNCHANGED <<client, sent, result, su, slave, broken>>
      /\ \A d \in Clients \ {c} : /\ handler'[d] = handler[d] /\ got'[d] = got[d]
                                   /\ replies'[d] = replies[d] /\ child'[d] = child[d]
      /\ HandlerMove(c)
  BY <1>0, HandlerMoved
<1>2. \A d \in Clients \ {c} : Linked(d)'
  BY <1>1, LinkedFrame DEF Same
<1>3. got'[c] <= sent[c] /\ got'[c] <= 1 + Argc(c)
  BY <1>0, <1>1 DEF Linked, HandlerMove
<1>4. CASE handler'[c] # "wait" /\ child'[c] = child[c]
  BY <1>0, <1>1, <1>2, <1>3, <1>4 DEF Linked, HandlerMove
<1>5. CASE handler'[c] = "wait" /\ child'[c] = Starting /\ child[c] = None
           /\ Len(replies[c]) = 1
  <2>1. slave[c] = "unopened"
    BY <1>0, <1>5 DEF Linked
  <2>2. Len(replies'[c]) > 0
    BY <1>0, <1>1, <1>5 DEF HandlerMove
  <2>3. Linked(c)'
    BY <1>0, <1>1, <1>3, <1>5, <2>1, <2>2, StatusesApart DEF Linked
  <2>. QED  BY <1>2, <2>3
<1>. QED  BY <1>1, <1>4, <1>5 DEF HandlerMove

LEMMA LinkedByChild ==
  ASSUME IInv, NEW c \in Clients, \A d \in Clients : Linked(d),
         ChildStep(c) \/ SuEnds(c) \/ KillChild(c) \/ Release(c)
  PROVE  \A d \in Clients : Linked(d)'
<1>0. /\ TypeOK /\ Handled(c)
      /\ Linked(c) /\ Message(c)' = Message(c) /\ Argc(c)' = Argc(c)
  BY MessageStays DEF IInv
<1>1. /\ UNCHANGED <<client, sent, result, handler, got, replies>>
      /\ \A d \in Clients \ {c} : /\ child'[d] = child[d] /\ su'[d] = su[d]
                                   /\ slave'[d] = slave[d] /\ broken'[d] = broken[d]
      /\ child[c] # None /\ ChildMove(c)
  BY <1>0, ChildMoved
<1>2. \A d \in Clients \ {c} : Linked(d)'
  BY <1>1, LinkedFrame DEF Same
<1>3. /\ child'[c] # None
      /\ child'[c] = Running => su'[c] # None
      /\ child'[c] \in {None, Starting} => slave'[c] = "unopened"
      /\ slave'[c] = "open" /\ su'[c] = None => child'[c] = Opened
  BY <1>0, <1>1, StatusesApart DEF ChildMove, Linked, Handled
<1>4. Linked(c)'
  BY <1>0, <1>1, <1>3 DEF Linked
<1>. QED  BY <1>2, <1>4

(* The daemon leaves the chains alone, but that a stop ends their handlers. *)
LEMMA LinkedByDaemon ==
  ASSUME TypeOK, \A d \in Clients : Linked(d),
         DaemonStep \/ AcceptFails \/ Stop \/ StartDaemon \/ UNCHANGED vars
  PROVE  \A d \in Clients : Linked(d)'
<1>1. UNCHANGED <<client, sent, got, replies, child, su, slave>>
  BY DEF DaemonStep, Accept, ForkHandler, Reap, AcceptFails, Stop, StartDaemon, vars,
         clientSide, handlerSide, commandSide
<1>2. \A d \in Clients : handler'[d] \in {handler[d], "gone", "read"}
  <2>1. handler \in [Clients -> {"none", "read", "fork", "wait", "gone"}]
    BY DEF TypeOK, HandlerTypes
  <2>2. CASE handler' = handler
    BY <2>2
  <2>3. CASE Stop
    BY <2>1, <2>3 DEF Stop
  <2>4. ASSUME NEW c \in Clients, ForkHandler(c)
        PROVE  \A d \in Clients : handler'[d] \in {handler[d], "gone", "read"}
    BY <2>1, <2>4 DEF ForkHandler
  <2>. QED  BY <2>2, <2>3, <2>4
            DEF DaemonStep, Accept, Reap, AcceptFails, StartDaemon, vars, handlerSide
<1>. QED  BY <1>1, <1>2, MessageStays DEF Linked

LEMMA LinkageStep == Linkage /\ [Next]_vars => Linkage'
<1>. SUFFICES ASSUME Linkage, [Next]_vars PROVE Linkage'
  OBVIOUS
<1>0. IInv /\ IInv' /\ TypeOK /\ \A d \in Clients : Linked(d)
  BY InvStep DEF Linkage, IInv
<1>1. \A d \in Clients : Linked(d)'
  BY <1>0, LinkedByClient, LinkedByHandler, LinkedByChild, LinkedByDaemon
     DEF Next, ServerStep
<1>2. daemon' = "gone" => backlog' = <<>>
  <2>1. UNCHANGED <<daemon, backlog>> \/ daemon' # "gone" \/ backlog' = <<>>
    <3>1. CASE DaemonStep \/ AcceptFails \/ Stop \/ StartDaemon
      BY <1>0, <3>1, ClientAssumption DEF DaemonStep, Accept, ForkHandler, Reap, AcceptFails,
         Stop, StartDaemon, Gone, TypeOK, DaemonTypes
    <3>2. ASSUME NEW c \in Clients, ClientStep(c) \/ Interrupt(c)
          PROVE  UNCHANGED <<daemon, backlog>> \/ daemon' # "gone"
      BY <3>2 DEF ClientStep, Interrupt, Connect, ClientFails, SendField, ReadAck, Pump,
         ReadCode, daemonSide
    <3>3. ASSUME NEW c \in Clients, \/ ServerStep(c) \/ SuEnds(c) \/ KillChild(c) \/ Release(c)
          PROVE  UNCHANGED <<daemon, backlog>>
      BY <3>3 DEF ServerStep, HandlerStep, ReadField, Ack, ForkChild, SendCode, ChildStep,
         OpenTerminal, RunDaemonChild, ReapSu, SuEnds, KillChild, Release, daemonSide
    <3>. QED  BY <3>1, <3>2, <3>3 DEF Next, vars, daemonSide
  <2>. QED  BY <2>1 DEF Linkage
<1>. QED  BY <1>0, <1>1, <1>2 DEF Linkage

LEMMA LinkageInit == Init => Linkage
<1>. SUFFICES ASSUME Init PROVE Linkage
  OBVIOUS
<1>1. ASSUME NEW c \in Clients PROVE Linked(c)
  <2>1. /\ client[c] = "connect" /\ handler[c] = "none" /\ got[c] = 0 /\ sent[c] = 0
        /\ child[c] = None /\ su[c] = None /\ slave[c] = "unopened"
    BY DEF Init
  <2>2. None # Running
    BY DEF None, Running
  <2>. QED  BY <2>1, <2>2, MessageLength DEF Linked
<1>. QED  BY <1>1, InvInit DEF Linkage, Init

(* In no reachable state, for any number of clients and whoever has died,  *)
(* are the processes of a chain blocked on one another.                    *)
THEOREM NobodyStuckTheorem == Spec => []NobodyStuck
<1>1. Spec => []Linkage
  BY LinkageInit, LinkageStep, PTL DEF Spec
<1>. QED  BY <1>1, StuckNowhere, PTL
-----------------------------------------------------------------------------
(* What is left to do for a client: by the daemon, himself, the handler,   *)
(* the child, su, and whoever has the terminal open.                       *)
Listed(c) == \E i \in 1..Len(backlog) : backlog[i] = c

DaemonWork(c) ==
  CASE client[c] = "connect" -> 4
    [] client[c] # "connect" /\ Listed(c) -> 3
    [] client[c] # "connect" /\ ~Listed(c) /\ daemon = c /\ fork2 -> 2
    [] client[c] # "connect" /\ ~Listed(c) /\ daemon = c /\ ~fork2 -> 1
    [] OTHER -> 0

ClientWork(c) ==
  CASE client[c] = "connect" -> 5 + Len(Message(c))
    [] client[c] = "send" -> 4 + Len(Message(c)) - sent[c]
    [] client[c] = "ack" -> 3
    [] client[c] = "pump" -> 2
    [] client[c] = "code" -> 1
    [] client[c] = "ended" -> 0

HandlerWork(c) ==
  CASE handler[c] = "none" -> 5 + Argc(c)
    [] handler[c] = "read" -> 4 + Argc(c) - got[c]
    [] handler[c] = "fork" -> 2
    [] handler[c] = "wait" -> 1
    [] handler[c] = "gone" -> 0

ChildWork(c) ==
  CASE child[c] = None -> 4
    [] child[c] = Starting -> 3
    [] child[c] = Opened -> 2
    [] child[c] = Running -> 1
    [] child[c] \in Statuses -> 0

SuWork(c) ==
  CASE su[c] = None -> 2 [] su[c] = Running -> 1 [] su[c] \in Statuses -> 0

SlaveWork(c) ==
  CASE slave[c] = "unopened" -> 2 [] slave[c] = "open" -> 1 [] slave[c] = "closed" -> 0

Work(c) == DaemonWork(c) + ClientWork(c) + HandlerWork(c)
             + ChildWork(c) + SuWork(c) + SlaveWork(c)

ChainStep(c) == \/ ClientStep(c) \/ ServerStep(c) \/ Interrupt(c)
                \/ SuEnds(c) \/ KillChild(c) \/ Release(c)

(* No invocation goes on for ever (there is no retry between su.c:614 and  *)
(* 643, nor in daemon.c:241-354): every step of its chain, and of the      *)
(* daemon for somebody, leaves less to do, and nobody's step, stop or      *)
(* start makes more work for another.                                      *)
WorkShrinks ==
  [][/\ \A c \in Clients : Work(c)' <= Work(c) /\ (ChainStep(c) => Work(c)' < Work(c))
     /\ DaemonStep => \E c \in Clients : Work(c)' < Work(c)]_vars

(* The daemon is busy with a connection that it has taken from the queue.  *)
Taken == \A c \in Clients : client[c] = "connect" \/ Listed(c) => daemon # c

LEMMA TakenStep == IInv /\ Taken /\ [Next]_vars => Taken'
<1>. SUFFICES ASSUME IInv, Taken, [Next]_vars PROVE Taken'
  OBVIOUS
<1>0. TypeOK /\ ClientTypes /\ DaemonTypes /\ Queued
  BY DEF IInv, TypeOK
<1>1. ASSUME UNCHANGED <<backlog, daemon>>,
             \A d \in Clients : client'[d] = "connect" => client[d] = "connect"
      PROVE  Taken'
  BY <1>1 DEF Taken, Listed
<1>2. CASE Accept
  <2>1. /\ Len(backlog) \in Nat /\ Len(backlog) > 0 /\ Head(backlog) = backlog[1]
        /\ Len(backlog') = Len(backlog) - 1 /\ Head(backlog) \in Clients
        /\ \A i \in 1..Len(backlog') : backlog'[i] = backlog[i + 1]
    BY <1>0, <1>2, HeadTailProperties DEF Accept, DaemonTypes
  <2>2. daemon = "accept" /\ client' = client /\ daemon' \in {Head(backlog), "accept"}
    BY <1>2 DEF Accept, clientSide
  <2>3. ASSUME NEW c \in Clients, client'[c] = "connect" \/ Listed(c)', daemon' = c
        PROVE  FALSE
    <3>1. c = backlog[1] /\ 1 \in 1..Len(backlog)
      BY <2>1, <2>2, <2>3, ClientAssumption
    <3>2. client[c] # "connect"
      BY <1>0, <3>1 DEF Queued, Fresh
    <3>3. PICK i \in 1..Len(backlog') : backlog'[i] = c
      BY <2>2, <2>3, <3>2 DEF Listed
    <3>4. i + 1 \in 1..Len(backlog) /\ i + 1 # 1 /\ backlog[i + 1] = c
      BY <2>1, <3>3
    <3>. QED  BY <1>0, <3>1, <3>4 DEF Queued
  <2>. QED  BY <2>3 DEF Taken
<1>3. ASSUME NEW c \in Clients, ForkHandler(c) \/ Reap(c)
      PROVE  Taken'
  <2>1. backlog' = backlog /\ client' = client /\ (daemon' = daemon \/ daemon' = "accept")
    BY <1>3 DEF ForkHandler, Reap, clientSide
  <2>. QED  BY <2>1, ClientAssumption DEF Taken, Listed
<1>4. CASE AcceptFails \/ Stop
  <2>1. daemon' = "gone"
    BY <1>4 DEF AcceptFails, Stop, Gone
  <2>. QED  BY <2>1, ClientAssumption DEF Taken
<1>5. CASE StartDaemon
  <2>1. daemon' = "accept"
    BY <1>5 DEF StartDaemon
  <2>. QED  BY <2>1, ClientAssumption DEF Taken
<1>6. ASSUME NEW c \in Clients, Connect(c)
      PROVE  Taken'
  <2>1. /\ client[c] = "connect" /\ client' = [client EXCEPT ![c] = "send"]
        /\ backlog' = Append(backlog, c) /\ daemon' = daemon
    BY <1>6 DEF Connect
  <2>2. \A i \in 1..Len(backlog') : \/ i \in 1..Len(backlog) /\ backlog'[i] = backlog[i]
                                    \/ backlog'[i] = c
    BY <1>0, <2>1 DEF DaemonTypes
  <2>. QED  BY <1>0, <2>1, <2>2 DEF Taken, Listed, ClientTypes
<1>7. ASSUME NEW c \in Clients, ~Connect(c), ClientStep(c) \/ Interrupt(c)
      PROVE  Taken'
  <2>1. UNCHANGED <<backlog, daemon>>
    BY <1>7 DEF ClientStep, Interrupt, ClientFails, SendField, ReadAck, Pump, ReadCode,
       daemonSide
  <2>2. \A d \in Clients : client'[d] = "connect" => client[d] = "connect"
    <3>1. /\ \A d \in Clients \ {c} : client'[d] = client[d]
          /\ ClientMove(c)
      BY <1>0, <1>7, ClientMoved
    <3>2. client'[c] # "connect"
      BY <3>1 DEF ClientMove
    <3>. QED  BY <3>1, <3>2
  <2>. QED  BY <1>1, <2>1, <2>2
<1>8. ASSUME NEW c \in Clients, \/ ServerStep(c) \/ SuEnds(c) \/ KillChild(c) \/ Release(c)
      PROVE  Taken'
  <2>1. UNCHANGED <<backlog, daemon, client>>
    BY <1>8 DEF ServerStep, HandlerStep, ReadField, Ack, ForkChild, SendCode, ChildStep,
       OpenTerminal, RunDaemonChild, ReapSu, SuEnds, KillChild, Release, clientSide, daemonSide
  <2>. QED  BY <1>1, <2>1
<1>9. CASE UNCHANGED vars
  BY <1>1, <1>9 DEF vars, clientSide, daemonSide
<1>. QED  BY <1>2, <1>3, <1>4, <1>5, <1>6, <1>7, <1>8, <1>9 DEF Next, DaemonStep

(* Each part is a number.                                                  *)
LEMMA WorkType ==
  ASSUME Linkage, NEW c \in Clients
  PROVE  /\ DaemonWork(c) \in 0..4
         /\ ClientWork(c) \in Nat /\ HandlerWork(c) \in Nat
         /\ ChildWork(c) \in Nat /\ SuWork(c) \in Nat /\ SlaveWork(c) \in Nat
<1>0. /\ ClientTypes /\ HandlerTypes /\ CommandTypes /\ Linked(c)
      /\ Len(Message(c)) \in Nat /\ Argc(c) \in Nat
  BY MessageLength DEF Linkage, IInv, TypeOK
<1>1. DaemonWork(c) \in 0..4
  BY DEF DaemonWork
<1>2. ClientWork(c) \in Nat
  <2>1. client[c] \in {"connect", "send", "ack", "pump", "code", "ended"} /\ sent[c] \in Nat
    BY <1>0 DEF ClientTypes
  <2>2. sent[c] <= Len(Message(c))
    BY <1>0 DEF Linked
  <2>. QED  BY <1>0, <2>1, <2>2 DEF ClientWork
<1>3. HandlerWork(c) \in Nat
  <2>1. handler[c] \in {"none", "read", "fork", "wait", "gone"} /\ got[c] \in Nat
    BY <1>0 DEF HandlerTypes
  <2>2. got[c] <= 1 + Argc(c)
    BY <1>0 DEF Linked
  <2>. QED  BY <1>0, <2>1, <2>2 DEF HandlerWork
<1>4. ChildWork(c) \in Nat /\ SuWork(c) \in Nat /\ SlaveWork(c) \in Nat
  BY <1>0, StatusesApart DEF CommandTypes, ChildWork, SuWork, SlaveWork
<1>. QED  BY <1>1, <1>2, <1>3, <1>4

LEMMA WorkTypeAll ==
  Linkage => \A c \in Clients :
               /\ DaemonWork(c) \in Nat /\ ClientWork(c) \in Nat /\ HandlerWork(c) \in Nat
               /\ ChildWork(c) \in Nat /\ SuWork(c) \in Nat /\ SlaveWork(c) \in Nat
<1>1. 0..4 \subseteq Nat
  OBVIOUS
<1>. QED  BY <1>1, WorkType

LEMMA WorkTypeNext ==
  Linkage' => \A c \in Clients :
                /\ DaemonWork(c)' \in Nat /\ ClientWork(c)' \in Nat /\ HandlerWork(c)' \in Nat
                /\ ChildWork(c)' \in Nat /\ SuWork(c)' \in Nat /\ SlaveWork(c)' \in Nat
<1>1. Linkage' => (\A c \in Clients :
                     /\ DaemonWork(c) \in Nat /\ ClientWork(c) \in Nat /\ HandlerWork(c) \in Nat
                     /\ ChildWork(c) \in Nat /\ SuWork(c) \in Nat /\ SlaveWork(c) \in Nat)'
  BY WorkTypeAll, PTL
<1>. QED  BY <1>1

(* The part that a step takes work from, and the parts it leaves alone.    *)
LEMMA ClientWorks ==
  ASSUME Linkage, NEW c \in Clients, ClientMove(c)
  PROVE  ClientWork(c)' < ClientWork(c)
<1>0. /\ Message(c)' = Message(c) /\ Len(Message(c)) \in Nat
      /\ sent[c] \in Nat /\ sent[c] <= Len(Message(c))
      /\ client[c] = "send" => sent[c] < Len(Message(c))
      /\ client[c] \in {"connect", "send", "ack", "pump", "code", "ended"}
  BY MessageStays, MessageLength DEF Linkage, Linked, IInv, TypeOK, ClientTypes
<1>. QED  BY <1>0 DEF ClientMove, ClientWork

LEMMA HandlerWorks ==
  ASSUME Linkage, NEW c \in Clients, HandlerMove(c)
  PROVE  HandlerWork(c)' < HandlerWork(c) /\ ChildWork(c)' <= ChildWork(c)
<1>0. /\ Argc(c)' = Argc(c) /\ Argc(c) \in Nat /\ got[c] \in Nat /\ got[c] <= 1 + Argc(c)
      /\ Wanted(c) \in Nat /\ Wanted(c) <= 1 + Argc(c) /\ sent[c] \in Nat
      /\ ChildWork(c) \in Nat
  BY MessageStays, MessageLength, WantedBounds, WorkType
     DEF Linkage, Linked, IInv, TypeOK, HandlerTypes, ClientTypes
<1>1. HandlerWork(c)' < HandlerWork(c)
  BY <1>0 DEF HandlerMove, HandlerWork
<1>2. ChildWork(c)' <= ChildWork(c)
  <2>1. CASE child'[c] = child[c]
    <3>1. ChildWork(c)' = ChildWork(c)
      BY <2>1 DEF ChildWork
    <3>. QED  BY <1>0, <3>1
  <2>2. CASE child[c] = None /\ child'[c] = Starting
    BY <2>2, StatusesApart DEF ChildWork
  <2>. QED  BY <2>1, <2>2 DEF HandlerMove
<1>. QED  BY <1>1, <1>2

LEMMA ChildWorks ==
  ASSUME Linkage, NEW c \in Clients, ChildMove(c)
  PROVE  /\ ChildWork(c)' + SuWork(c)' + SlaveWork(c)' < ChildWork(c) + SuWork(c) + SlaveWork(c)
         /\ ChildWork(c)' \in Nat /\ SuWork(c)' \in Nat /\ SlaveWork(c)' \in Nat
<1>0. /\ ChildWork(c) \in Nat /\ SuWork(c) \in Nat /\ SlaveWork(c) \in Nat
      /\ slave[c] \in {"unopened", "open", "closed"}
  BY WorkType DEF Linkage, IInv, TypeOK, CommandTypes
<1>2. CASE child'[c] = child[c] /\ su'[c] = su[c]
  <2>1. ChildWork(c)' = ChildWork(c) /\ SuWork(c)' = SuWork(c)
    BY <1>2 DEF ChildWork, SuWork
  <2>2. SlaveWork(c) = 1 /\ SlaveWork(c)' = 0
    BY <1>2, StatusesApart DEF ChildMove, SlaveWork
  <2>. QED  BY <1>0, <2>1, <2>2
<1>3. CASE child'[c] = child[c] /\ su'[c] # su[c]
  <2>1. ChildWork(c)' = ChildWork(c) /\ SlaveWork(c)' = SlaveWork(c)
    BY <1>3, StatusesApart DEF ChildMove, ChildWork, SlaveWork
  <2>2. SuWork(c) = 1 /\ SuWork(c)' = 0
    BY <1>3, StatusesApart DEF ChildMove, SuWork
  <2>. QED  BY <1>0, <2>1, <2>2
<1>4. CASE child'[c] # child[c]
  <2>1. SlaveWork(c)' \in 0..SlaveWork(c)
    BY <1>0, <1>4 DEF ChildMove, SlaveWork
  <2>2. SuWork(c)' \in 0..SuWork(c)
    <3>1. CASE su'[c] = su[c]
      <4>1. SuWork(c)' = SuWork(c)
        BY <3>1 DEF SuWork
      <4>. QED  BY <1>0, <4>1
    <3>2. CASE su[c] = None /\ su'[c] = Running
      BY <3>2, StatusesApart DEF SuWork
    <3>. QED  BY <1>4, <3>1, <3>2 DEF ChildMove
  <2>3. ChildWork(c)' \in Nat /\ ChildWork(c)' < ChildWork(c)
    BY <1>4, StatusesApart DEF ChildMove, ChildWork
  <2>. QED  BY <1>0, <2>1, <2>2, <2>3
<1>. QED  BY <1>2, <1>3, <1>4

(* What a step leaves alone keeps its work.                                *)
LEMMA WorkFrame ==
  ASSUME NEW d \in Clients
  PROVE  /\ client'[d] = client[d] /\ sent'[d] = sent[d] => ClientWork(d)' = ClientWork(d)
         /\ handler'[d] = handler[d] /\ got'[d] = got[d] => HandlerWork(d)' = HandlerWork(d)
         /\ child'[d] = child[d] => ChildWork(d)' = ChildWork(d)
         /\ su'[d] = su[d] => SuWork(d)' = SuWork(d)
         /\ slave'[d] = slave[d] => SlaveWork(d)' = SlaveWork(d)
         /\ /\ client'[d] = client[d] /\ (Listed(d)' <=> Listed(d))
            /\ (daemon' = d <=> daemon = d) /\ fork2' = fork2
            => DaemonWork(d)' = DaemonWork(d)
<1>1. client'[d] = client[d] /\ sent'[d] = sent[d] => ClientWork(d)' = ClientWork(d)
  BY MessageStays DEF ClientWork
<1>2. handler'[d] = handler[d] /\ got'[d] = got[d] => HandlerWork(d)' = HandlerWork(d)
  BY MessageStays DEF HandlerWork
<1>3. child'[d] = child[d] => ChildWork(d)' = ChildWork(d)
  BY DEF ChildWork
<1>4. su'[d] = su[d] => SuWork(d)' = SuWork(d)
  BY DEF SuWork
<1>5. slave'[d] = slave[d] => SlaveWork(d)' = SlaveWork(d)
  BY DEF SlaveWork
<1>6. /\ client'[d] = client[d] /\ (Listed(d)' <=> Listed(d))
      /\ (daemon' = d <=> daemon = d) /\ fork2' = fork2
      => DaemonWork(d)' = DaemonWork(d)
  BY DEF DaemonWork
<1>. QED  BY <1>1, <1>2, <1>3, <1>4, <1>5, <1>6

(* Work that is the same is not more, and work of which a part is less is  *)
(* less.                                                                   *)
LEMMA WorkSum ==
  ASSUME Linkage, Linkage', NEW d \in Clients
  PROVE  /\ Work(d) \in Nat /\ Work(d)' \in Nat
         /\ /\ DaemonWork(d)' <= DaemonWork(d) /\ ClientWork(d)' <= ClientWork(d)
            /\ HandlerWork(d)' <= HandlerWork(d)
            /\ ChildWork(d)' + SuWork(d)' + SlaveWork(d)'
                 <= ChildWork(d) + SuWork(d) + SlaveWork(d)
            => /\ Work(d)' <= Work(d)
               /\ \/ DaemonWork(d)' < DaemonWork(d) \/ ClientWork(d)' < ClientWork(d)
                  \/ HandlerWork(d)' < HandlerWork(d)
                  \/ ChildWork(d)' + SuWork(d)' + SlaveWork(d)'
                       < ChildWork(d) + SuWork(d) + SlaveWork(d)
                  => Work(d)' < Work(d)
<1>1. /\ DaemonWork(d) \in Nat /\ ClientWork(d) \in Nat /\ HandlerWork(d) \in Nat
      /\ ChildWork(d) \in Nat /\ SuWork(d) \in Nat /\ SlaveWork(d) \in Nat
  BY WorkType
<1>2. /\ DaemonWork(d)' \in Nat /\ ClientWork(d)' \in Nat /\ HandlerWork(d)' \in Nat
      /\ ChildWork(d)' \in Nat /\ SuWork(d)' \in Nat /\ SlaveWork(d)' \in Nat
  BY WorkTypeNext
<1>. QED  BY <1>1, <1>2 DEF Work

(* The steps of a chain.                                                   *)
LEMMA ChainShrinks ==
  ASSUME Linkage, Linkage', Taken, [Next]_vars, NEW c \in Clients, ChainStep(c)
  PROVE  Work(c)' < Work(c) /\ \A d \in Clients : Work(d)' <= Work(d)
<1>0. /\ TypeOK /\ DaemonTypes /\ ClientTypes /\ Handled(c) /\ Linked(c) /\ Queued
      /\ \A d \in Clients :
           /\ DaemonWork(d) \in 0..4 /\ DaemonWork(d)' \in 0..4 /\ ClientWork(d) \in Nat
           /\ HandlerWork(d) \in Nat /\ ChildWork(d) \in Nat /\ SuWork(d) \in Nat
           /\ SlaveWork(d) \in Nat
  <2>1. \A d \in Clients : DaemonWork(d)' \in 0..4
    BY DEF DaemonWork
  <2>. QED  BY <2>1, WorkType DEF Linkage, IInv, TypeOK
<1>1. ASSUME NEW d \in Clients, DaemonWork(d)' <= DaemonWork(d),
             ClientWork(d)' <= ClientWork(d), HandlerWork(d)' <= HandlerWork(d),
             ChildWork(d)' + SuWork(d)' + SlaveWork(d)'
               <= ChildWork(d) + SuWork(d) + SlaveWork(d)
      PROVE  Work(d)' <= Work(d)
  BY <1>1, WorkSum
<1>2. CASE ClientStep(c) \/ Interrupt(c)
  <2>1. /\ UNCHANGED <<handler, got, replies, child, su, slave>>
        /\ \A d \in Clients \ {c} : client'[d] = client[d] /\ sent'[d] = sent[d]
        /\ ClientMove(c)
    BY <1>0, <1>2, ClientMoved
  <2>2. \A d \in Clients : /\ HandlerWork(d)' = HandlerWork(d) /\ ChildWork(d)' = ChildWork(d)
                           /\ SuWork(d)' = SuWork(d) /\ SlaveWork(d)' = SlaveWork(d)
    BY <2>1, WorkFrame
  <2>3. ClientWork(c)' < ClientWork(c)
    BY <2>1, ClientWorks
  <2>4. \A d \in Clients \ {c} : ClientWork(d)' = ClientWork(d)
    BY <2>1, WorkFrame
  <2>5. /\ daemon' = daemon /\ fork2' = fork2
        /\ backlog' = backlog \/ (client[c] = "connect" /\ backlog' = Append(backlog, c))
    BY <1>2 DEF ClientStep, Interrupt, Connect, ClientFails, SendField, ReadAck, Pump, ReadCode,
       daemonSide
  <2>6. \A d \in Clients \ {c} : Listed(d)' <=> Listed(d)
    <3>1. CASE backlog' = backlog
      BY <3>1 DEF Listed
    <3>2. CASE backlog' = Append(backlog, c)
      <4>1. /\ Len(backlog) \in Nat /\ Len(backlog') = Len(backlog) + 1
            /\ backlog'[Len(backlog) + 1] = c
            /\ \A i \in 1..Len(backlog) : backlog'[i] = backlog[i]
        BY <1>0, <3>2 DEF DaemonTypes
      <4>2. \A i \in 1..Len(backlog') : i \in 1..Len(backlog) \/ i = Len(backlog) + 1
        BY <4>1
      <4>3. \A i \in 1..Len(backlog) : i \in 1..Len(backlog')
        BY <4>1
      <4>. QED  BY <4>1, <4>2, <4>3 DEF Listed
    <3>. QED  BY <2>5, <3>1, <3>2
  <2>7. \A d \in Clients \ {c} : DaemonWork(d)' = DaemonWork(d)
    BY <2>1, <2>5, <2>6, WorkFrame
  <2>8. DaemonWork(c)' <= DaemonWork(c)
    <3>1. CASE client[c] = "connect"
      <4>1. DaemonWork(c) = 4
        BY <3>1 DEF DaemonWork
      <4>. QED  BY <1>0, <4>1
    <3>2. CASE client[c] # "connect"
      <4>1. client'[c] # "connect" /\ backlog' = backlog
        BY <2>1, <2>5, <3>2 DEF ClientMove
      <4>2. Listed(c)' <=> Listed(c)
        BY <4>1 DEF Listed
      <4>3. DaemonWork(c)' = DaemonWork(c)
        BY <2>5, <3>2, <4>1, <4>2 DEF DaemonWork
      <4>. QED  BY <1>0, <4>3
    <3>. QED  BY <3>1, <3>2
  <2>9. ASSUME NEW d \in Clients \ {c} PROVE Work(d)' <= Work(d)
    BY <1>0, <1>1, <2>2, <2>4, <2>7
  <2>10. Work(c)' < Work(c) /\ Work(c)' <= Work(c)
    <3>1. ClientWork(c)' <= ClientWork(c) /\ HandlerWork(c)' <= HandlerWork(c)
      BY <1>0, <2>2, <2>3, WorkTypeNext
    <3>2. ChildWork(c)' + SuWork(c)' + SlaveWork(c)' <= ChildWork(c) + SuWork(c) + SlaveWork(c)
      BY <1>0, <2>2
    <3>. QED  BY <2>3, <2>8, <3>1, <3>2, WorkSum
  <2>. QED  BY <2>9, <2>10
<1>3. CASE HandlerStep(c)
  <2>1. /\ UNCHANGED <<client, sent, result, su, slave, broken>>
        /\ \A d \in Clients \ {c} : /\ handler'[d] = handler[d] /\ got'[d] = got[d]
                                     /\ replies'[d] = replies[d] /\ child'[d] = child[d]
        /\ HandlerMove(c)
    BY <1>0, <1>3, HandlerMoved
  <2>2. UNCHANGED <<backlog, daemon, fork2>>
    BY <1>3 DEF HandlerStep, ReadField, Ack, ForkChild, SendCode, daemonSide
  <2>3. \A d \in Clients : /\ DaemonWork(d)' = DaemonWork(d) /\ ClientWork(d)' = ClientWork(d)
                           /\ SuWork(d)' = SuWork(d) /\ SlaveWork(d)' = SlaveWork(d)
    BY <2>1, <2>2, WorkFrame DEF Listed
  <2>4. \A d \in Clients \ {c} : HandlerWork(d)' = HandlerWork(d) /\ ChildWork(d)' = ChildWork(d)
    BY <2>1, WorkFrame
  <2>5. HandlerWork(c)' < HandlerWork(c) /\ ChildWork(c)' <= ChildWork(c)
    BY <2>1, HandlerWorks
  <2>6. ASSUME NEW d \in Clients \ {c} PROVE Work(d)' <= Work(d)
    BY <1>0, <1>1, <2>3, <2>4
  <2>7. ChildWork(c)' \in Nat
    BY WorkTypeNext
  <2>8. Work(c)' < Work(c) /\ Work(c)' <= Work(c)
    <3>1. DaemonWork(c)' <= DaemonWork(c) /\ ClientWork(c)' <= ClientWork(c)
      BY <1>0, <2>3
    <3>2. HandlerWork(c)' <= HandlerWork(c)
      BY <1>0, <2>5, WorkTypeNext
    <3>3. ChildWork(c)' + SuWork(c)' + SlaveWork(c)' <= ChildWork(c) + SuWork(c) + SlaveWork(c)
      BY <1>0, <2>3, <2>5, <2>7
    <3>. QED  BY <2>5, <3>1, <3>2, <3>3, WorkSum
  <2>. QED  BY <2>6, <2>8
<1>4. CASE ChildStep(c) \/ SuEnds(c) \/ KillChild(c) \/ Release(c)
  <2>1. /\ UNCHANGED <<client, sent, result, handler, got, replies>>
        /\ \A d \in Clients \ {c} : /\ child'[d] = child[d] /\ su'[d] = su[d]
                                     /\ slave'[d] = slave[d] /\ broken'[d] = broken[d]
        /\ ChildMove(c)
    BY <1>0, <1>4, ChildMoved
  <2>2. UNCHANGED <<backlog, daemon, fork2>>
    BY <1>4 DEF ChildStep, OpenTerminal, RunDaemonChild, ReapSu, SuEnds, KillChild, Release,
       daemonSide
  <2>3. \A d \in Clients : /\ DaemonWork(d)' = DaemonWork(d) /\ ClientWork(d)' = ClientWork(d)
                           /\ HandlerWork(d)' = HandlerWork(d)
    BY <2>1, <2>2, WorkFrame DEF Listed
  <2>4. \A d \in Clients \ {c} : /\ ChildWork(d)' = ChildWork(d) /\ SuWork(d)' = SuWork(d)
                                 /\ SlaveWork(d)' = SlaveWork(d)
    BY <2>1, WorkFrame
  <2>5. /\ ChildWork(c)' + SuWork(c)' + SlaveWork(c)' < ChildWork(c) + SuWork(c) + SlaveWork(c)
        /\ ChildWork(c)' \in Nat /\ SuWork(c)' \in Nat /\ SlaveWork(c)' \in Nat
    BY <2>1, ChildWorks
  <2>6. ASSUME NEW d \in Clients \ {c} PROVE Work(d)' <= Work(d)
    BY <1>0, <1>1, <2>3, <2>4
  <2>7. Work(c)' < Work(c) /\ Work(c)' <= Work(c)
    BY <1>0, <2>3, <2>5, WorkSum
  <2>. QED  BY <2>6, <2>7
<1>. QED  BY <1>2, <1>3, <1>4 DEF ChainStep, ServerStep

(* The steps of the daemon, and its stops.                                 *)
LEMMA DaemonShrinks ==
  ASSUME Linkage, Linkage', Taken,
         DaemonStep \/ AcceptFails \/ Stop \/ StartDaemon \/ UNCHANGED vars
  PROVE  /\ \A d \in Clients : Work(d)' <= Work(d)
         /\ DaemonStep => \E c \in Clients : Work(c)' < Work(c)
<1>0. /\ TypeOK /\ DaemonTypes /\ ClientTypes /\ HandlerTypes /\ Queued
      /\ \A d \in Clients : Handled(d)
      /\ \A d \in Clients :
           /\ DaemonWork(d) \in 0..4 /\ DaemonWork(d)' \in 0..4 /\ ClientWork(d) \in Nat
           /\ HandlerWork(d) \in Nat /\ HandlerWork(d)' \in Nat /\ ChildWork(d) \in Nat
           /\ SuWork(d) \in Nat /\ SlaveWork(d) \in Nat
  <2>1. \A d \in Clients : DaemonWork(d)' \in 0..4
    BY DEF DaemonWork
  <2>. QED  BY <2>1, WorkType, WorkTypeNext DEF Linkage, IInv, TypeOK
<1>1. UNCHANGED <<client, sent, got, replies, child, su, slave>>
  BY DEF DaemonStep, Accept, ForkHandler, Reap, AcceptFails, Stop, StartDaemon, vars,
         clientSide, handlerSide, commandSide
<1>2. \A d \in Clients : /\ ClientWork(d)' = ClientWork(d) /\ ChildWork(d)' = ChildWork(d)
                         /\ SuWork(d)' = SuWork(d) /\ SlaveWork(d)' = SlaveWork(d)
  BY <1>1, WorkFrame
<1>3. ASSUME NEW d \in Clients, DaemonWork(d)' <= DaemonWork(d),
             HandlerWork(d)' <= HandlerWork(d)
      PROVE  /\ Work(d)' <= Work(d)
             /\ DaemonWork(d)' < DaemonWork(d) => Work(d)' < Work(d)
  BY <1>0, <1>2, <1>3, WorkSum
<1>4. ASSUME handler' = handler PROVE \A d \in Clients : HandlerWork(d)' <= HandlerWork(d)
  <2>1. \A d \in Clients : HandlerWork(d)' = HandlerWork(d)
    BY <1>1, <1>4, WorkFrame
  <2>. QED  BY <1>0, <2>1
<1>5. ASSUME Gone PROVE \A d \in Clients : DaemonWork(d)' <= DaemonWork(d)
  <2>1. daemon' = "gone" /\ backlog' = <<>>
    BY <1>5 DEF Gone
  <2>2. \A d \in Clients : ~Listed(d)' /\ daemon' # d
    BY <2>1, ClientAssumption DEF Listed
  <2>3. \A d \in Clients : client[d] # "connect" => DaemonWork(d)' = 0
    BY <1>1, <2>2 DEF DaemonWork
  <2>4. \A d \in Clients : client[d] = "connect" => DaemonWork(d) = 4
    BY DEF DaemonWork
  <2>. QED  BY <1>0, <2>3, <2>4
<1>6. CASE AcceptFails \/ Stop
  <2>1. Gone
    BY <1>6 DEF AcceptFails, Stop
  <2>2. ~DaemonStep
    <3>1. daemon' = "gone" /\ daemon # "gone"
      BY <1>6 DEF AcceptFails, Stop, Gone
    <3>2. Accept => daemon' \in Clients \cup {"accept"}
      BY <1>0, HeadTailProperties DEF Accept, DaemonTypes
    <3>3. \A c \in Clients : ForkHandler(c) \/ Reap(c) => daemon' \in Clients \cup {"accept"}
      BY DEF ForkHandler, Reap
    <3>. QED  BY <3>1, <3>2, <3>3, ClientAssumption DEF DaemonStep
  <2>3. ASSUME NEW d \in Clients PROVE HandlerWork(d)' <= HandlerWork(d)
    <3>1. CASE handler'[d] = handler[d]
      <4>1. HandlerWork(d)' = HandlerWork(d)
        BY <1>1, <3>1, WorkFrame
      <4>. QED  BY <1>0, <4>1
    <3>2. CASE handler'[d] # handler[d]
      <4>1. handler'[d] = "gone"
        BY <1>0, <1>6, <3>2 DEF AcceptFails, Stop, handlerSide, HandlerTypes
      <4>2. HandlerWork(d)' = 0
        BY <4>1 DEF HandlerWork
      <4>. QED  BY <1>0, <4>2
    <3>. QED  BY <3>1, <3>2
  <2>. QED  BY <1>3, <1>5, <2>1, <2>2, <2>3
<1>7. CASE StartDaemon \/ UNCHANGED vars
  <2>1. handler' = handler /\ backlog' = backlog /\ fork2' = fork2
    BY <1>7 DEF StartDaemon, vars, daemonSide, handlerSide
  <2>2. ~DaemonStep
    <3>1. CASE StartDaemon
      <4>1. daemon = "gone"
        BY <3>1 DEF StartDaemon
      <4>. QED  BY <4>1, ClientAssumption DEF DaemonStep, Accept, ForkHandler, Reap
    <3>2. CASE UNCHANGED vars
      <4>1. UNCHANGED <<daemon, backlog, fork2>>
        BY <3>2 DEF vars, daemonSide
      <4>2. ~Accept
        BY <1>0, <4>1, HeadTailProperties DEF Accept, DaemonTypes
      <4>3. \A c \in Clients : ~ForkHandler(c) /\ ~Reap(c)
        BY <4>1, ClientAssumption DEF ForkHandler, Reap
      <4>. QED  BY <4>2, <4>3 DEF DaemonStep
    <3>. QED  BY <1>7, <3>1, <3>2
  <2>3. \A d \in Clients : daemon' = d <=> daemon = d
    BY <1>7, ClientAssumption DEF StartDaemon, vars, daemonSide
  <2>4. \A d \in Clients : DaemonWork(d)' = DaemonWork(d)
    BY <1>1, <2>1, <2>3, WorkFrame DEF Listed
  <2>5. \A d \in Clients : HandlerWork(d)' <= HandlerWork(d)
    BY <1>4, <2>1
  <2>6. \A d \in Clients : DaemonWork(d)' <= DaemonWork(d)
    BY <1>0, <2>4
  <2>. QED  BY <1>3, <2>2, <2>5, <2>6
<1>8. CASE Accept
  <2>0. /\ Len(backlog) \in Nat /\ Len(backlog) > 0
        /\ Head(backlog) = backlog[1] /\ Head(backlog) \in Clients
        /\ Len(backlog') = Len(backlog) - 1
        /\ \A i \in 1..Len(backlog') : backlog'[i] = backlog[i + 1]
    BY <1>0, <1>8, HeadTailProperties DEF Accept, DaemonTypes
  <2>. PICK h \in Clients : h = Head(backlog)
    BY <2>0
  <2>1. /\ Len(backlog) \in Nat /\ Len(backlog) > 0 /\ h = backlog[1]
        /\ Len(backlog') = Len(backlog) - 1
        /\ \A i \in 1..Len(backlog') : backlog'[i] = backlog[i + 1]
    BY <2>0
  <2>2. /\ daemon = "accept" /\ handler' = handler
        /\ \/ daemon' = h /\ fork2' = TRUE
           \/ daemon' = "accept" /\ fork2' = fork2
    BY <1>8 DEF Accept, handlerSide
  <2>3. client[h] # "connect" /\ Listed(h)
    <3>1. 1 \in 1..Len(backlog)
      BY <2>1
    <3>. QED  BY <1>0, <2>1, <3>1 DEF Queued, Fresh, Listed
  <2>4. ~Listed(h)'
    <3>1. SUFFICES ASSUME NEW i \in 1..Len(backlog'), backlog'[i] = h PROVE FALSE
      BY DEF Listed
    <3>2. i + 1 \in 1..Len(backlog) /\ 1 \in 1..Len(backlog) /\ i + 1 # 1 /\ backlog[i + 1] = h
      BY <2>1, <3>1
    <3>. QED  BY <1>0, <2>1, <3>2 DEF Queued
  <2>5. \A d \in Clients \ {h} : Listed(d)' <=> Listed(d)
    <3>1. ASSUME NEW d \in Clients \ {h}, Listed(d) PROVE Listed(d)'
      <4>1. PICK i \in 1..Len(backlog) : backlog[i] = d
        BY <3>1 DEF Listed
      <4>2. i - 1 \in 1..Len(backlog') /\ (i - 1) + 1 = i
        BY <2>1, <4>1
      <4>. QED  BY <2>1, <4>1, <4>2 DEF Listed
    <3>2. ASSUME NEW d \in Clients \ {h}, Listed(d)' PROVE Listed(d)
      <4>1. PICK i \in 1..Len(backlog') : backlog'[i] = d
        BY <3>2 DEF Listed
      <4>2. i + 1 \in 1..Len(backlog)
        BY <2>1
      <4>. QED  BY <2>1, <4>1, <4>2 DEF Listed
    <3>. QED  BY <3>1, <3>2
  <2>6. DaemonWork(h) = 3 /\ DaemonWork(h)' <= 2
    <3>1. DaemonWork(h) = 3
      BY <2>3 DEF DaemonWork
    <3>2. DaemonWork(h)' <= 2
      BY <1>1, <2>3, <2>4 DEF DaemonWork
    <3>. QED  BY <3>1, <3>2
  <2>7. \A d \in Clients \ {h} : DaemonWork(d)' = DaemonWork(d)
    <3>1. \A d \in Clients \ {h} : daemon # d /\ daemon' # d
      BY <2>2, ClientAssumption
    <3>. QED  BY <1>1, <2>5, <3>1 DEF DaemonWork
  <2>8. \A d \in Clients : DaemonWork(d)' <= DaemonWork(d)
    <3>1. DaemonWork(h)' <= DaemonWork(h)
      BY <1>0, <2>1, <2>6
    <3>2. \A d \in Clients \ {h} : DaemonWork(d)' <= DaemonWork(d)
      BY <1>0, <2>7
    <3>. QED  BY <3>1, <3>2
  <2>9. \A d \in Clients : HandlerWork(d)' <= HandlerWork(d)
    BY <1>4, <2>2
  <2>10. DaemonWork(h)' < DaemonWork(h)
    BY <1>0, <2>1, <2>6
  <2>. QED  BY <1>3, <2>1, <2>8, <2>9, <2>10
<1>9. ASSUME NEW c \in Clients, ForkHandler(c) \/ Reap(c)
      PROVE  (\A d \in Clients : Work(d)' <= Work(d)) /\ Work(c)' < Work(c)
  <2>1. daemon = c /\ backlog' = backlog /\ daemon' \in {c, "accept"}
    BY <1>9 DEF ForkHandler, Reap
  <2>2. client[c] # "connect" /\ ~Listed(c)
    BY <2>1 DEF Taken
  <2>3. \A d \in Clients \ {c} : DaemonWork(d)' = DaemonWork(d)
    <3>1. \A d \in Clients \ {c} : daemon # d /\ daemon' # d
      BY <2>1, ClientAssumption
    <3>. QED  BY <1>1, <2>1, <3>1 DEF DaemonWork, Listed
  <2>4. DaemonWork(c)' < DaemonWork(c)
    <3>1. ~Listed(c)'
      BY <2>1, <2>2 DEF Listed
    <3>2. CASE ForkHandler(c)
      <4>1. fork2 /\ fork2' = FALSE
        BY <3>2 DEF ForkHandler
      <4>2. DaemonWork(c) = 2
        BY <2>1, <2>2, <4>1 DEF DaemonWork
      <4>3. DaemonWork(c)' \in 0..1
        BY <1>1, <2>2, <3>1, <4>1 DEF DaemonWork
      <4>. QED  BY <4>2, <4>3
    <3>3. CASE Reap(c)
      <4>1. ~fork2 /\ daemon' # c
        BY <3>3, ClientAssumption DEF Reap
      <4>2. DaemonWork(c) = 1
        BY <2>1, <2>2, <4>1 DEF DaemonWork
      <4>3. DaemonWork(c)' = 0
        BY <1>1, <2>2, <3>1, <4>1 DEF DaemonWork
      <4>. QED  BY <4>2, <4>3
    <3>. QED  BY <1>9, <3>2, <3>3
  <2>5. \A d \in Clients : DaemonWork(d)' <= DaemonWork(d)
    <3>1. DaemonWork(c)' <= DaemonWork(c)
      BY <1>0, <2>4
    <3>2. \A d \in Clients \ {c} : DaemonWork(d)' <= DaemonWork(d)
      BY <1>0, <2>3
    <3>. QED  BY <3>1, <3>2
  <2>6. \A d \in Clients : HandlerWork(d)' <= HandlerWork(d)
    <3>1. CASE handler' = handler
      BY <1>4, <3>1
    <3>2. CASE fork2 /\ handler' = [handler EXCEPT ![c] = "read"]
      <4>1. handler[c] = "none" /\ got[c] = 0
        BY <1>0, <2>1, <3>2 DEF Queued, Fresh, Handled
      <4>2. \A d \in Clients \ {c} : handler'[d] = handler[d]
        BY <1>0, <3>2 DEF HandlerTypes
      <4>3. \A d \in Clients \ {c} : HandlerWork(d)' = HandlerWork(d)
        BY <1>1, <4>2, WorkFrame
      <4>4. handler'[c] = "read" /\ got'[c] = 0
        BY <1>0, <1>1, <3>2, <4>1 DEF HandlerTypes
      <4>5. HandlerWork(c) = 5 + Argc(c)
        BY <4>1 DEF HandlerWork
      <4>6. HandlerWork(c)' = 4 + Argc(c)
        BY <4>4, MessageStays, MessageLength DEF HandlerWork
      <4>7. HandlerWork(c)' <= HandlerWork(c)
        BY <4>5, <4>6, MessageLength
      <4>. QED  BY <1>0, <4>3, <4>7
    <3>. QED  BY <1>9, <3>1, <3>2 DEF ForkHandler, Reap, handlerSide
  <2>. QED  BY <1>3, <2>4, <2>5, <2>6
<1>. QED  BY <1>6, <1>7, <1>8, <1>9 DEF DaemonStep

(* What the next-state relation does to the work of every client.          *)
LEMMA WorkStep ==
  ASSUME Linkage, Linkage', Taken, [Next]_vars
  PROVE  /\ \A c \in Clients : Work(c)' <= Work(c) /\ (ChainStep(c) => Work(c)' < Work(c))
         /\ DaemonStep => \E c \in Clients : Work(c)' < Work(c)
<1>. DEFINE Others == DaemonStep \/ AcceptFails \/ Stop \/ StartDaemon \/ UNCHANGED vars
<1>1. \A c \in Clients : ChainStep(c) => Work(c)' < Work(c)
  BY ChainShrinks
<1>2. \A c \in Clients : ChainStep(c) => \A d \in Clients : Work(d)' <= Work(d)
  BY ChainShrinks
<1>3. Others => \A d \in Clients : Work(d)' <= Work(d)
  BY DaemonShrinks
<1>4. DaemonStep => \E c \in Clients : Work(c)' < Work(c)
  BY DaemonShrinks
<1>5. Others \/ \E c \in Clients : ChainStep(c)
  BY DEF Next, ChainStep
<1>. QED  BY <1>1, <1>2, <1>3, <1>4, <1>5

LEMMA TakenInit == Init => Taken
BY ClientAssumption DEF Init, Taken

(* No invocation goes on for ever: for any number of clients, of arguments *)
(* and of stops, what is left to do for each bounds the steps of its chain.*)
THEOREM WorkTheorem == Spec => WorkShrinks
<1>1. Spec => [](Linkage /\ Taken)
  <2>1. Init => Linkage /\ Taken
    BY LinkageInit, TakenInit
  <2>2. Linkage /\ Taken /\ [Next]_vars => Linkage' /\ Taken'
    BY LinkageStep, TakenStep DEF Linkage
  <2>. QED  BY <2>1, <2>2, PTL DEF Spec
<1>2. Linkage /\ Linkage' /\ Taken /\ [Next]_vars
        => [/\ \A c \in Clients : Work(c)' <= Work(c) /\ (ChainStep(c) => Work(c)' < Work(c))
            /\ DaemonStep => \E c \in Clients : Work(c)' < Work(c)]_vars
  BY WorkStep
<1>. QED  BY <1>1, <1>2, PTL DEF Spec, WorkShrinks
=============================================================================
