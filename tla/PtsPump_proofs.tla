--------------------------- MODULE PtsPump_proofs ---------------------------
(***************************************************************************)
(* The pumps for queues of any size, and for any number of keys, outputs   *)
(* and signals.                                                            *)
(***************************************************************************)
EXTENDS PtsPump, SequenceTheorems, TLAPS

(* What moves from one queue to the next is neither lost nor reordered.    *)
LEMMA MovesQueue ==
  ASSUME NEW S, NEW from \in Seq(S), NEW to \in Seq(S), NEW n \in 1..Len(from)
  PROVE  /\ to \o SubSeq(from, 1, n) \in Seq(S)
         /\ SubSeq(from, n + 1, Len(from)) \in Seq(S)
         /\ Len(to \o SubSeq(from, 1, n)) = Len(to) + n
         /\ Len(SubSeq(from, n + 1, Len(from))) = Len(from) - n
         /\ (to \o SubSeq(from, 1, n)) \o SubSeq(from, n + 1, Len(from))
              = to \o from
<1> DEFINE a == SubSeq(from, 1, n)
           b == SubSeq(from, n + 1, Len(from))
<1>1. Len(from) \in Nat /\ n \in Nat /\ 1 <= n /\ n <= Len(from)
  BY LenProperties
<1>2. \A i \in 1..Len(from) : from[i] \in S
  BY ElementOfSeq
<1>3. a \in Seq(S) /\ Len(a) = n
  <2>1. \A i \in 1..n : from[i] \in S
    BY <1>1, <1>2
  <2>2. 1 \in Int /\ n \in Int
    BY <1>1
  <2> QED
    BY <1>1, <2>1, <2>2, SubSeqProperties
<1>4. b \in Seq(S) /\ Len(b) = Len(from) - n
  <2>1. \A i \in n + 1 .. Len(from) : from[i] \in S
    BY <1>1, <1>2
  <2>2. n + 1 \in Int /\ Len(from) \in Int
    BY <1>1
  <2>3. /\ b \in Seq(S)
        /\ Len(b) = IF n + 1 <= Len(from) THEN Len(from) - (n + 1) + 1 ELSE 0
    BY <2>1, <2>2, SubSeqProperties
  <2> QED
    BY <1>1, <2>3
<1>5. a \o b = from
  <2>1. 1 \in 1..Len(from) + 1 /\ n \in 0..Len(from) /\ Len(from) \in n..Len(from)
    BY <1>1
  <2>2. a \o b = SubSeq(from, 1, Len(from))
    BY <2>1, ConcatAdjacentSubSeq
  <2> QED
    BY <2>2, SubSeqFull
<1> HIDE DEF a, b
<1>6. to \o a \in Seq(S) /\ Len(to \o a) = Len(to) + n
  BY <1>3, ConcatProperties
<1>7. (to \o a) \o b = to \o from
  <2>1. (to \o a) \o b = to \o (a \o b)
    <3>1. a \in Seq(S) /\ b \in Seq(S)
      BY <1>3, <1>4
    <3> QED
      BY <3>1
  <2> QED
    BY <1>5, <2>1
<1> QED
  BY <1>3, <1>4, <1>6, <1>7 DEF a, b

(* \o, without what the provers know of sequences.                         *)
Cat(s, t) == s \o t

LEMMA CatTypes ==
  ASSUME NEW s \in Seq(Nat), NEW t \in Seq(Nat)
  PROVE  Cat(s, t) \in Seq(Nat)
BY ConcatProperties DEF Cat

LEMMA CatAssociative ==
  ASSUME NEW s \in Seq(Nat), NEW t \in Seq(Nat), NEW u \in Seq(Nat)
  PROVE  Cat(Cat(s, t), u) = Cat(s, Cat(t, u))
BY DEF Cat

LEMMA Regroup ==
  ASSUME NEW front \in Seq(Nat), NEW a \in Seq(Nat), NEW b \in Seq(Nat),
         NEW c \in Seq(Nat), NEW d \in Seq(Nat), Cat(a, b) = Cat(c, d)
  PROVE  Cat(Cat(front, a), b) = Cat(Cat(front, c), d)
BY CatAssociative

(* What one step moves from queue to queue, and what is before the two.    *)
Taken(from, n) == SubSeq(from, 1, n)
Left(from, n) == SubSeq(from, n + 1, Len(from))

LEMMA MovesCat ==
  ASSUME NEW from \in Seq(Nat), NEW to \in Seq(Nat), NEW n \in 1..Len(from)
  PROVE  /\ Left(from, n) \in Seq(Nat) /\ Cat(to, Taken(from, n)) \in Seq(Nat)
         /\ Cat(Cat(to, Taken(from, n)), Left(from, n)) = Cat(to, from)
BY MovesQueue DEF Taken, Left, Cat

LEMMA MovesLengths ==
  ASSUME NEW from \in Seq(Nat), NEW to \in Seq(Nat), NEW n \in 1..Len(from)
  PROVE  /\ Left(from, n) \in Seq(Nat) /\ Len(Left(from, n)) = Len(from) - n
         /\ Cat(to, Taken(from, n)) \in Seq(Nat)
         /\ Len(Cat(to, Taken(from, n))) = Len(to) + n
BY MovesQueue DEF Taken, Left, Cat

LEMMA MovesBehind ==
  ASSUME NEW front \in Seq(Nat), NEW from \in Seq(Nat), NEW to \in Seq(Nat),
         NEW n \in 1..Len(from)
  PROVE  Cat(Cat(front, Cat(to, Taken(from, n))), Left(from, n))
           = Cat(Cat(front, to), from)
<1>1. /\ Left(from, n) \in Seq(Nat) /\ Cat(to, Taken(from, n)) \in Seq(Nat)
      /\ Cat(Cat(to, Taken(from, n)), Left(from, n)) = Cat(to, from)
  BY MovesCat
<1> QED
  BY <1>1, Regroup

(* The last Len(s) of the keys 1, ..., k.                                  *)
LastOf(s, k) == \A i \in 1..Len(s) : s[i] = k - Len(s) + i

LEMMA LastOfAppend ==
  ASSUME NEW s \in Seq(Nat), NEW k \in Nat, LastOf(s, k)
  PROVE  LastOf(Append(s, k + 1), k + 1)
<1>1. /\ Len(Append(s, k + 1)) = Len(s) + 1
      /\ \A i \in 1..Len(s) : Append(s, k + 1)[i] = s[i]
      /\ Append(s, k + 1)[Len(s) + 1] = k + 1
  BY AppendProperties
<1>2. Len(s) \in Nat
  BY LenProperties
<1>3. ASSUME NEW i \in 1..Len(s) + 1
      PROVE  Append(s, k + 1)[i] = (k + 1) - (Len(s) + 1) + i
  <2>1. CASE i = Len(s) + 1
    BY <1>1, <1>2, <2>1
  <2>2. CASE i # Len(s) + 1
    <3>1. i \in 1..Len(s)
      BY <1>2, <2>2
    <3>2. s[i] = k - Len(s) + i /\ Append(s, k + 1)[i] = s[i]
      BY <1>1, <3>1 DEF LastOf
    <3> QED
      BY <1>2, <3>2
  <2> QED
    BY <2>1, <2>2
<1> QED
  BY <1>1, <1>3 DEF LastOf

USE TtyAssumption, BoundAssumption
USE DEF Gone, Past, threads, process, window, inward, outward, user, server

-----------------------------------------------------------------------------
(* Type correctness.                                                       *)

LEMMA InitTypes == Init => TypeOK
<1> SUFFICES ASSUME Init PROVE TypeOK
  OBVIOUS
<1>1. <<>> \in Seq(Nat) /\ Len(<<>>) = 0
  BY EmptySeq
<1>2. ThreadTypes /\ fds \subseteq {"in", "out", "ptmx"}
  BY DEF Init, ThreadTypes
<1>3. Len(toCmd) <= InSize /\ Len(toUser) <= OutSize
  BY <1>1 DEF Init
<1> QED
  BY <1>1, <1>2, <1>3 DEF Init, TypeOK

LEMMA RestoreTypes ==
  ASSUME TypeOK, RestoreStdin
  PROVE  /\ raw' \in BOOLEAN /\ flag' \in BOOLEAN /\ typed' \in Seq(Nat)
<1>1. <<>> \in Seq(Nat)
  BY EmptySeq
<1> QED
  BY <1>1 DEF TypeOK, RestoreStdin

LEMMA MainTypes ==
  ASSUME TypeOK, MainStep
  PROVE  TypeOK'
<1>0. <<>> \in Seq(Nat)
  BY EmptySeq
<1>1. CASE Start
  BY <1>1 DEF Start, OutputPump, TypeOK, ThreadTypes
<1>2. CASE SetupHandlers
  BY <1>2 DEF SetupHandlers, TypeOK, ThreadTypes
<1>3. CASE SetAttr
  <2>1. typed' \in Seq(Nat) /\ raw' \in BOOLEAN /\ main' \in {"flag", "spawn"}
    BY <1>0, <1>3 DEF SetAttr, TypeOK
  <2> QED
    BY <1>3, <2>1 DEF SetAttr, TypeOK, ThreadTypes
<1>4. CASE SetFlag
  BY <1>4 DEF SetFlag, TypeOK, ThreadTypes
<1>5. CASE Spawn
  BY <1>5 DEF Spawn, OutputPump, TypeOK, ThreadTypes
<1>6. CASE BeginReadOutput
  BY <1>6 DEF BeginReadOutput, TypeOK, ThreadTypes
<1>7. CASE ReadOutput
  <2>1. CASE UNCHANGED <<toUser, outbuf>>
    BY <1>7, <2>1 DEF ReadOutput, TypeOK, ThreadTypes
  <2>2. ASSUME NEW n \in 1..Len(toUser), Moves(toUser, outbuf, n)
        PROVE  TypeOK'
    <3>1. toUser \in Seq(Nat) /\ outbuf \in Seq(Nat) /\ Len(toUser) <= OutSize
      BY DEF TypeOK
    <3>2. /\ toUser' \in Seq(Nat) /\ outbuf' \in Seq(Nat)
          /\ Len(toUser') = Len(toUser) - n
      <4>1. outbuf' = Cat(outbuf, Taken(toUser, n)) /\ toUser' = Left(toUser, n)
        BY <2>2 DEF Moves, Cat, Taken, Left
      <4> QED
        BY <4>1, <3>1, MovesLengths
    <3>3. Len(toUser') <= OutSize
      BY <3>1, <3>2, LenProperties
    <3> QED
      BY <1>7, <3>2, <3>3 DEF ReadOutput, TypeOK, ThreadTypes
  <2> QED
    BY <1>7, <2>1, <2>2 DEF ReadOutput
<1>8. CASE WriteOutput
  <2>1. CASE UNCHANGED <<outbuf, screen>>
    BY <1>8, <2>1 DEF WriteOutput, TypeOK, ThreadTypes
  <2>2. ASSUME NEW n \in 1..Len(outbuf), Moves(outbuf, screen, n)
        PROVE  TypeOK'
    <3>1. outbuf \in Seq(Nat) /\ screen \in Seq(Nat)
      BY DEF TypeOK
    <3>2. outbuf' \in Seq(Nat) /\ screen' \in Seq(Nat)
      <4>1. screen' = Cat(screen, Taken(outbuf, n)) /\ outbuf' = Left(outbuf, n)
        BY <2>2 DEF Moves, Cat, Taken, Left
      <4> QED
        BY <4>1, <3>1, MovesLengths
    <3> QED
      BY <1>8, <3>2 DEF WriteOutput, TypeOK, ThreadTypes
  <2> QED
    BY <1>8, <2>1, <2>2 DEF WriteOutput
<1>9. CASE CloseMaster
  BY <1>9 DEF CloseMaster, TypeOK, ThreadTypes
<1>10. CASE Finish
  BY <1>10, RestoreTypes DEF Finish, TypeOK, ThreadTypes
<1>11. CASE ReadCode
  BY <1>11 DEF ReadCode, TypeOK, ThreadTypes
<1> QED
  BY <1>1, <1>2, <1>3, <1>4, <1>5, <1>6, <1>7, <1>8, <1>9, <1>10, <1>11
     DEF MainStep

LEMMA ReaderTypes ==
  ASSUME TypeOK, ReaderStep
  PROVE  TypeOK'
<1>1. CASE BeginReadInput
  BY <1>1 DEF BeginReadInput, TypeOK, ThreadTypes
<1>2. CASE ReadInput
  <2>1. CASE UNCHANGED <<typed, inbuf>>
    BY <1>2, <2>1 DEF ReadInput, TypeOK, ThreadTypes
  <2>2. ASSUME NEW n \in 1..Len(typed), Moves(typed, inbuf, n)
        PROVE  TypeOK'
    <3>1. typed \in Seq(Nat) /\ inbuf \in Seq(Nat)
      BY DEF TypeOK
    <3>2. typed' \in Seq(Nat) /\ inbuf' \in Seq(Nat)
      <4>1. inbuf' = Cat(inbuf, Taken(typed, n)) /\ typed' = Left(typed, n)
        BY <2>2 DEF Moves, Cat, Taken, Left
      <4> QED
        BY <4>1, <3>1, MovesLengths
    <3> QED
      BY <1>2, <3>2 DEF ReadInput, TypeOK, ThreadTypes
  <2> QED
    BY <1>2, <2>1, <2>2 DEF ReadInput
<1>3. CASE BeginWriteInput
  BY <1>3 DEF BeginWriteInput, TypeOK, ThreadTypes
<1>4. CASE WriteInput
  <2>1. PICK n \in 1..Len(inbuf) :
          n <= InSize - Len(toCmd) /\ Moves(inbuf, toCmd, n)
    BY <1>4 DEF WriteInput
  <2>2. inbuf \in Seq(Nat) /\ toCmd \in Seq(Nat)
    BY DEF TypeOK
  <2>3. /\ inbuf' \in Seq(Nat) /\ toCmd' \in Seq(Nat)
        /\ Len(toCmd') = Len(toCmd) + n
    <3>1. toCmd' = Cat(toCmd, Taken(inbuf, n)) /\ inbuf' = Left(inbuf, n)
      BY <2>1 DEF Moves, Cat, Taken, Left
    <3> QED
      BY <2>2, <3>1, MovesLengths
  <2>4. Len(toCmd') <= InSize
    BY <2>1, <2>2, <2>3, LenProperties
  <2> QED
    BY <1>4, <2>3, <2>4 DEF WriteInput, TypeOK, ThreadTypes
<1>5. CASE CloseInput
  <2>1. fds' \subseteq fds /\ reader' \in {"closeptmx", "gone"}
    BY <1>5 DEF CloseInput
  <2> QED
    BY <1>5, <2>1 DEF CloseInput, TypeOK, ThreadTypes
<1> QED
  BY <1>1, <1>2, <1>3, <1>4, <1>5 DEF ReaderStep

LEMMA OtherTypes ==
  ASSUME TypeOK, WatcherStep \/ Signal \/ Environment
  PROVE  TypeOK'
<1>1. CASE WatcherStep
  <2>1. CASE Wake
    <3>1. seen' \in Nat /\ watcher' \in {"gone", "set", "wait"}
      BY <2>1 DEF Wake, TypeOK
    <3>2. /\ winch' = FALSE
          /\ UNCHANGED <<main, reader, process, size, ptySize, inward, outward,
                         user, server, tty>>
      BY <2>1 DEF Wake
    <3>3. ThreadTypes'
      BY <3>1, <3>2 DEF TypeOK, ThreadTypes
    <3> QED
      BY <3>1, <3>2, <3>3 DEF TypeOK
  <2>2. CASE SetSize
    <3>1. ptySize' \in Nat /\ seen' \in Nat /\ watcher' = "wait"
      BY <2>2 DEF SetSize, TypeOK
    <3> QED
      BY <2>2, <3>1 DEF SetSize, TypeOK, ThreadTypes
  <2> QED
    BY <1>1, <2>1, <2>2 DEF WatcherStep
<1>2. CASE Signal
  <2>1. CASE Handler
    <3>1. raw' \in BOOLEAN /\ flag' \in BOOLEAN /\ typed' \in Seq(Nat)
      BY <2>1, RestoreTypes DEF Handler
    <3>2. main' \in {main, "close", "failed"} /\ armed' = FALSE /\ fds' \subseteq fds
      BY <2>1 DEF Handler
    <3>3. signals' \in Nat
      BY <1>2 DEF Signal, TypeOK
    <3>4. ThreadTypes'
      BY <1>2, <3>2 DEF Signal, TypeOK, ThreadTypes
    <3> QED
      BY <1>2, <3>1, <3>2, <3>3, <3>4 DEF Signal, TypeOK
  <2>2. CASE Dies
    BY <1>2, <2>2 DEF Signal, Dies, TypeOK, ThreadTypes
  <2> QED
    BY <1>2, <2>1, <2>2 DEF Signal
<1>3. CASE Press
  <2>1. typed' \in Seq(Nat) /\ keys' \in Nat
    BY <1>3, AppendProperties DEF Press, TypeOK
  <2> QED
    BY <1>3, <2>1 DEF Press, TypeOK, ThreadTypes
<1>4. CASE Hangup
  BY <1>4 DEF Hangup, TypeOK, ThreadTypes
<1>5. CASE Resize
  BY <1>5 DEF Resize, TypeOK, ThreadTypes
<1>6. CASE OpenSlave
  BY <1>6 DEF OpenSlave, TypeOK, ThreadTypes
<1>7. CASE CommandReads
  <2>1. toCmd \in Seq(Nat) /\ input \in Seq(Nat) /\ 1 \in 1..Len(toCmd)
        /\ Len(toCmd) <= InSize
    BY <1>7, EmptySeq DEF CommandReads, TypeOK
  <2>2. PICK n \in 1..Len(toCmd) : n = 1
    BY <2>1
  <2>3. input' = Cat(input, Taken(toCmd, n)) /\ toCmd' = Left(toCmd, n)
    BY <1>7, <2>2 DEF CommandReads, Moves, Cat, Taken, Left
  <2>4. /\ toCmd' \in Seq(Nat) /\ input' \in Seq(Nat)
        /\ Len(toCmd') = Len(toCmd) - n
    BY <2>1, <2>2, <2>3, MovesLengths
  <2>5. Len(toCmd') <= InSize
    BY <2>1, <2>4, LenProperties
  <2> QED
    BY <1>7, <2>4, <2>5 DEF CommandReads, TypeOK, ThreadTypes
<1>8. CASE CommandWrites
  <2>1. toUser \in Seq(Nat) /\ produced + 1 \in Nat /\ Len(toUser) < OutSize
    BY <1>8 DEF CommandWrites, TypeOK
  <2>2. toUser' \in Seq(Nat) /\ Len(toUser') = Len(toUser) + 1
    BY <1>8, <2>1, AppendProperties DEF CommandWrites
  <2>3. Len(toUser') <= OutSize
    BY <2>1, <2>2, LenProperties
  <2> QED
    BY <1>8, <2>2, <2>3 DEF CommandWrites, TypeOK, ThreadTypes
<1>9. CASE CommandEnds \/ Release
  <2>1. cmd' = "ended" /\ slave' \in {"open", "closed"}
    <3>1. CASE CommandEnds
      BY <3>1 DEF CommandEnds
    <3>2. CASE Release
      BY <3>2 DEF Release
    <3> QED
      BY <1>9, <3>1, <3>2
  <2>2. UNCHANGED <<threads, process, window, inward, outward, user, tty>>
    BY <1>9 DEF CommandEnds, Release
  <2> QED
    BY <2>1, <2>2 DEF TypeOK, ThreadTypes
<1> QED
  BY <1>1, <1>2, <1>3, <1>4, <1>5, <1>6, <1>7, <1>8, <1>9 DEF Environment

LEMMA NextTypes ==
  ASSUME TypeOK, [Next]_vars
  PROVE  TypeOK'
<1>1. CASE UNCHANGED vars
  BY <1>1 DEF vars, TypeOK, ThreadTypes
<1> QED
  BY <1>1, MainTypes, ReaderTypes, OtherTypes DEF Next

(* Every variable has its type, and no queue is longer than it may be      *)
(* (pts.c:43, where write waits).                                          *)
THEOREM TypeCorrect == Spec => []TypeOK
  BY InitTypes, NextTypes, PTL DEF Spec

-----------------------------------------------------------------------------
(* Before pump_stdin_async has started its thread, nothing is under way.   *)

Before == {"start", "handlers", "setattr", "flag", "spawn"}

NotYet ==
  main \in Before =>
    reader = "none" /\ inbuf = <<>> /\ toCmd = <<>> /\ input = <<>>

LEMMA InitNotYet == Init => NotYet
BY DEF Init, NotYet

LEMMA NextNotYet ==
  ASSUME TypeOK, NotYet, [Next]_vars
  PROVE  NotYet'
<1> USE DEF NotYet, Before
<1>1. CASE MainStep
  <2>1. CASE Start \/ SetupHandlers \/ SetAttr \/ SetFlag
    <3>1. main \in Before /\ UNCHANGED <<reader, inward>>
      BY <2>1 DEF Start, SetupHandlers, SetAttr, SetFlag
    <3> QED
      BY <3>1
  <2>2. CASE Spawn
    BY <2>2 DEF Spawn, OutputPump
  <2>3. CASE BeginReadOutput \/ ReadOutput \/ WriteOutput
    <3>1. main' \in {"read", "inread", "write", "close"}
      BY <2>3 DEF BeginReadOutput, ReadOutput, WriteOutput
    <3> QED
      BY <3>1
  <2>4. CASE CloseMaster \/ Finish \/ ReadCode
    <3>1. main' \in {"restore", "code", "ended"}
      BY <2>4 DEF CloseMaster, Finish, ReadCode
    <3> QED
      BY <3>1
  <2> QED
    BY <1>1, <2>1, <2>2, <2>3, <2>4 DEF MainStep
<1>2. CASE ReaderStep
  <2>1. reader # "none" /\ main' = main
    BY <1>2 DEF ReaderStep, BeginReadInput, ReadInput, BeginWriteInput,
                WriteInput, CloseInput
  <2> QED
    BY <2>1
<1>3. CASE Signal
  <2>1. main' = main \/ main' \in {"close", "failed", "killed"}
    BY <1>3 DEF Signal, Handler, Dies
  <2>2. UNCHANGED <<reader, inward>>
    BY <1>3 DEF Signal
  <2> QED
    BY <2>1, <2>2
<1>4. CASE CommandReads
  BY <1>4 DEF CommandReads
<1>5. CASE WatcherStep \/ (Environment /\ ~CommandReads) \/ UNCHANGED vars
  <2>1. UNCHANGED <<main, reader, inward>>
    BY <1>5 DEF WatcherStep, Wake, SetSize, Environment, Press, Hangup, Resize,
                OpenSlave, CommandWrites, CommandEnds, Release, vars
  <2> QED
    BY <2>1
<1> QED
  BY <1>1, <1>2, <1>3, <1>4, <1>5 DEF Next

LEMMA NotYetAlways == Spec => []NotYet
<1>1. TypeOK /\ NotYet /\ [Next]_vars => NotYet'
  BY NextNotYet
<1> QED
  BY InitNotYet, <1>1, TypeCorrect, PTL DEF Spec

-----------------------------------------------------------------------------
(* The terminal's mode.                                                    *)

(* Whoever has made the terminal raw has said so, but for one step; and a  *)
(* stdin that is closed was closed by the handler or by the other pump.    *)
RawKnown == raw /\ main \notin {"flag", "killed"} => flag

InClosed == "in" \notin fds => signals > 0 \/ reader \in {"closeptmx", "gone"}

RestoreInv == RawKnown /\ InClosed /\ Restored

LEMMA InitRestore == Init => RestoreInv
BY DEF Init, RestoreInv, RawKnown, InClosed, Restored

LEMMA MainRestore ==
  ASSUME TypeOK, NotYet, RestoreInv, MainStep
  PROVE  RestoreInv'
<1> USE DEF RestoreInv, RawKnown, InClosed, Restored
<1>1. CASE Start
  BY <1>1 DEF Start, OutputPump
<1>2. CASE SetupHandlers
  BY <1>2 DEF SetupHandlers
<1>3. CASE SetAttr
  BY <1>3 DEF SetAttr
<1>4. CASE SetFlag
  BY <1>4 DEF SetFlag
<1>5. CASE Spawn
  <2>1. main = "spawn" /\ UNCHANGED <<process, signals, hung, tty>>
    BY <1>5 DEF Spawn
  <2>2. /\ main' \in {"failed", "read", "code"}
        /\ main' = "code" => "out" \notin tty
    BY <1>5 DEF Spawn, OutputPump
  <2>3. reader = "none"
    BY <2>1 DEF NotYet, Before
  <2> QED
    BY <2>1, <2>2, <2>3
<1>6. CASE BeginReadOutput \/ ReadOutput \/ WriteOutput
  <2>1. main' \in {"read", "inread", "write", "close"} /\ main \notin {"flag", "killed"}
    BY <1>6 DEF BeginReadOutput, ReadOutput, WriteOutput
  <2>2. UNCHANGED <<reader, process, signals>>
    BY <1>6 DEF BeginReadOutput, ReadOutput, WriteOutput
  <2> QED
    BY <2>1, <2>2
<1>7. CASE CloseMaster
  BY <1>7 DEF CloseMaster
<1>8. CASE Finish
  <2>1. raw => flag
    BY <1>8 DEF Finish
  <2>2. CASE flag /\ "in" \in fds /\ ~hung
    BY <1>8, <2>2 DEF Finish, RestoreStdin
  <2>3. CASE ~(flag /\ "in" \in fds /\ ~hung)
    BY <1>8, <2>1, <2>3 DEF Finish, RestoreStdin
  <2> QED
    BY <2>2, <2>3
<1>9. CASE ReadCode
  BY <1>9 DEF ReadCode
<1> QED
  BY <1>1, <1>2, <1>3, <1>4, <1>5, <1>6, <1>7, <1>8, <1>9 DEF MainStep

LEMMA NextRestore ==
  ASSUME TypeOK, NotYet, RestoreInv, [Next]_vars
  PROVE  RestoreInv'
<1> USE DEF RestoreInv, RawKnown, InClosed, Restored
<1>1. CASE MainStep
  BY <1>1, MainRestore
<1>2. CASE ReaderStep
  <2>1. CASE CloseInput
    BY <2>1 DEF CloseInput
  <2>2. CASE BeginReadInput \/ ReadInput \/ BeginWriteInput \/ WriteInput
    <3>1. reader \notin {"closeptmx", "gone"}
      BY <2>2 DEF BeginReadInput, ReadInput, BeginWriteInput, WriteInput
    <3>2. UNCHANGED <<main, process, signals, hung, tty>>
      BY <2>2 DEF BeginReadInput, ReadInput, BeginWriteInput, WriteInput
    <3> QED
      BY <3>1, <3>2
  <2> QED
    BY <1>2, <2>1, <2>2 DEF ReaderStep
<1>3. CASE Signal
  <2>1. signals' > 0
    BY <1>3 DEF Signal, TypeOK
  <2>2. UNCHANGED <<reader, hung, tty>>
    BY <1>3 DEF Signal
  <2>3. CASE Handler
    <3>1. /\ main' \in {main, "close", "failed"}
          /\ main' \in {"flag", "killed"} => main \in {"flag", "killed"}
          /\ main \in {"flag", "killed"} => main' = main
      BY <2>3 DEF Handler
    <3>2. \/ raw' = FALSE
          \/ raw' = raw /\ flag' = flag
      BY <2>3 DEF Handler, RestoreStdin
    <3>3. RawKnown'
      BY <3>1, <3>2
    <3>4. main' \in {"code", "ended"} /\ raw' => flag'
      BY <3>3
    <3> QED
      BY <2>1, <2>2, <3>3, <3>4
  <2>4. CASE Dies
    BY <2>1, <2>2, <2>4 DEF Dies
  <2> QED
    BY <1>3, <2>3, <2>4 DEF Signal
<1>4. CASE WatcherStep \/ Environment \/ UNCHANGED vars
  <2>1. UNCHANGED <<main, reader, process, signals, tty>> /\ (hung => hung')
    BY <1>4 DEF WatcherStep, Wake, SetSize, Environment, Press, Hangup, Resize,
                OpenSlave, CommandReads, CommandWrites, CommandEnds, Release,
                vars
  <2> QED
    BY <2>1
<1> QED
  BY <1>1, <1>2, <1>3, <1>4 DEF Next

(* Whatever is typed, closed and interrupted: the terminal is left raw in  *)
(* the named cases only (restore_stdin, pts.c:206).                        *)
THEOREM RestoredAlways == Spec => []Restored
<1>1. TypeOK /\ NotYet /\ RestoreInv /\ [Next]_vars => RestoreInv'
  BY NextRestore
<1>2. RestoreInv => Restored
  BY DEF RestoreInv
<1> QED
  BY InitRestore, <1>1, <1>2, TypeCorrect, NotYetAlways, PTL DEF Spec

-----------------------------------------------------------------------------
(* The size of the window.                                                 *)

(* What the watcher is about to set is the size, or a signal is pending.   *)
SizeInv ==
  /\ SizeFollows
  /\ watcher = "set" /\ ~winch /\ "out" \in fds => seen = size
  /\ main = "start" => size = 1

LEMMA InitSize == Init => SizeInv
BY DEF Init, SizeInv, SizeFollows

LEMMA NextSize ==
  ASSUME TypeOK, SizeInv, [Next]_vars
  PROVE  SizeInv'
<1> USE DEF SizeInv, SizeFollows
<1>1. CASE MainStep
  <2>1. CASE Start
    BY <2>1 DEF Start, OutputPump
  <2>2. CASE MainStep /\ ~Start
    <3>1. /\ UNCHANGED <<watcher, seen, size, ptySize>>
          /\ winch' = winch \/ winch' = (winch \/ RaiseShared)
          /\ main' # "start" /\ (main \in Past => main' \in Past)
      <4>1. CASE SetupHandlers \/ SetAttr \/ SetFlag
        BY <4>1 DEF SetupHandlers, SetAttr, SetFlag
      <4>2. CASE Spawn
        BY <4>2 DEF Spawn, OutputPump
      <4>3. CASE BeginReadOutput \/ ReadOutput \/ WriteOutput
        BY <4>3 DEF BeginReadOutput, ReadOutput, WriteOutput
      <4>4. CASE CloseMaster \/ Finish \/ ReadCode
        BY <4>4 DEF CloseMaster, Finish, ReadCode
      <4> QED
        BY <2>2, <4>1, <4>2, <4>3, <4>4 DEF MainStep
    <3>2. fds' \subseteq fds
      BY <2>2 DEF MainStep, SetupHandlers, SetAttr, SetFlag, Spawn,
                  BeginReadOutput, ReadOutput, WriteOutput, CloseMaster, Finish,
                  ReadCode
    <3>3. ~winch' => ~winch
      BY <3>1 DEF TypeOK
    <3> QED
      BY <3>1, <3>2, <3>3
  <2> QED
    BY <1>1, <2>1, <2>2
<1>2. CASE WatcherStep
  BY <1>2 DEF WatcherStep, Wake, SetSize
<1>3. CASE Resize
  BY <1>3 DEF Resize
<1>4. CASE Signal
  <2>1. /\ UNCHANGED <<watcher, window>> /\ fds' \subseteq fds
        /\ main' = "start" => main = "start"
        /\ main \in Past => main' \in Past
    BY <1>4 DEF Signal, Handler, Dies
  <2> QED
    BY <2>1
<1>5. CASE ReaderStep \/ (Environment /\ ~Resize) \/ UNCHANGED vars
  <2>1. UNCHANGED <<main, watcher, window>> /\ fds' \subseteq fds
    BY <1>5 DEF ReaderStep, BeginReadInput, ReadInput, BeginWriteInput,
                WriteInput, CloseInput, Environment, Press, Hangup, OpenSlave,
                CommandReads, CommandWrites, CommandEnds, Release, vars
  <2> QED
    BY <2>1
<1> QED
  BY <1>1, <1>2, <1>3, <1>4, <1>5 DEF Next

(* However often the window changes while the watcher is at work: when it  *)
(* waits, with no signal pending, the command's terminal has the size of   *)
(* the user's (watch_sigwinch, pts.c:214).                                 *)
THEOREM SizeFollowsAlways == Spec => []SizeFollows
<1>1. TypeOK /\ SizeInv /\ [Next]_vars => SizeInv'
  BY NextSize
<1>2. SizeInv => SizeFollows
  BY DEF SizeInv
<1> QED
  BY InitSize, <1>1, <1>2, TypeCorrect, PTL DEF Spec

-----------------------------------------------------------------------------
(* The keys, from the user to the command.                                 *)

AllKeys == Cat(Cat(Cat(input, toCmd), inbuf), typed)

KeyTypes ==
  /\ typed \in Seq(Nat) /\ inbuf \in Seq(Nat)
  /\ toCmd \in Seq(Nat) /\ input \in Seq(Nat)

LEMMA SameKeys ==                          \* something moves
  ASSUME KeysKept, AllKeys' = AllKeys, UNCHANGED <<main, keys, signals>>
  PROVE  KeysKept'
BY DEF KeysKept, AllKeys, Cat

LEMMA LastIsKept ==
  ASSUME LastOf(AllKeys', keys')
  PROVE  KeysKept'
BY DEF KeysKept, AllKeys, LastOf, Cat

LEMMA KeepsKeys ==                         \* nothing moves
  ASSUME TypeOK, KeysKept, UNCHANGED <<inward, typed, keys, signals>>,
         main \in Past => main' \in Past
  PROVE  KeysKept'
BY DEF KeysKept

LEMMA InitKeys == Init => KeysKept
<1>1. SUFFICES ASSUME Init PROVE KeysKept
  OBVIOUS
<1>2. AllKeys = <<>>
  BY <1>1 DEF Init, AllKeys, Cat
<1>3. LastOf(AllKeys, keys)
  BY <1>2 DEF LastOf
<1> QED
  BY <1>3 DEF KeysKept, AllKeys, LastOf, Cat

LEMMA ReaderKeys ==
  ASSUME TypeOK, KeysKept, ReaderStep
  PROVE  KeysKept'
<1>0. KeyTypes
  BY DEF TypeOK, KeyTypes
<1>1. CASE ReadInput
  <2>1. CASE UNCHANGED <<typed, inbuf>>
    BY <1>1, <2>1, KeepsKeys DEF ReadInput
  <2>2. ASSUME NEW n \in 1..Len(typed), Moves(typed, inbuf, n)
        PROVE  KeysKept'
    <3>1. Cat(input, toCmd) \in Seq(Nat)
      BY <1>0, CatTypes DEF KeyTypes
    <3>2. AllKeys' = AllKeys
      <4>1. /\ input' = input /\ toCmd' = toCmd
            /\ inbuf' = Cat(inbuf, Taken(typed, n)) /\ typed' = Left(typed, n)
        BY <1>1, <2>2 DEF ReadInput, Moves, Cat, Taken, Left
      <4>2. typed \in Seq(Nat) /\ inbuf \in Seq(Nat)
        BY <1>0 DEF KeyTypes
      <4> QED
        BY <3>1, <4>1, <4>2, MovesBehind DEF AllKeys
    <3>3. UNCHANGED <<main, keys, signals>>
      BY <1>1 DEF ReadInput
    <3> QED
      BY <3>2, <3>3, SameKeys
  <2> QED
    BY <1>1, <2>1, <2>2 DEF ReadInput
<1>2. CASE WriteInput
  <2>1. PICK n \in 1..Len(inbuf) : Moves(inbuf, toCmd, n)
    BY <1>2 DEF WriteInput
  <2>2. AllKeys' = AllKeys
    <3>1. /\ input' = input /\ typed' = typed
          /\ toCmd' = Cat(toCmd, Taken(inbuf, n)) /\ inbuf' = Left(inbuf, n)
      BY <1>2, <2>1 DEF WriteInput, Moves, Cat, Taken, Left
    <3>2. input \in Seq(Nat) /\ inbuf \in Seq(Nat) /\ toCmd \in Seq(Nat)
      BY <1>0 DEF KeyTypes
    <3>3. Cat(Cat(input, toCmd'), inbuf') = Cat(Cat(input, toCmd), inbuf)
      BY <3>1, <3>2, MovesBehind
    <3> QED
      BY <3>1, <3>3 DEF AllKeys
  <2>3. UNCHANGED <<main, keys, signals>>
    BY <1>2 DEF WriteInput
  <2> QED
    BY <2>2, <2>3, SameKeys
<1>3. CASE BeginReadInput \/ BeginWriteInput \/ CloseInput
  <2>1. UNCHANGED <<inward, typed, keys, signals, main>>
    BY <1>3 DEF BeginReadInput, BeginWriteInput, CloseInput
  <2> QED
    BY <2>1, KeepsKeys
<1> QED
  BY <1>1, <1>2, <1>3 DEF ReaderStep

LEMMA MainKeys ==
  ASSUME TypeOK, NotYet, KeysKept, MainStep
  PROVE  KeysKept'
<1>1. CASE SetAttr
  <2>1. CASE typed' = typed
    <3>1. UNCHANGED <<inward, typed, keys, signals>> /\ main \notin Past
      BY <1>1, <2>1 DEF SetAttr
    <3> QED
      BY <3>1, KeepsKeys
  <2>2. CASE typed' = <<>>
    <3>1. AllKeys' = <<>>
      <4>1. main \in Before /\ UNCHANGED inward
        BY <1>1 DEF SetAttr, Before
      <4>2. input' = <<>> /\ toCmd' = <<>> /\ inbuf' = <<>>
        BY <4>1 DEF NotYet
      <4> QED
        BY <2>2, <4>2 DEF AllKeys, Cat
    <3>2. LastOf(AllKeys', keys')
      BY <3>1 DEF LastOf
    <3> QED
      BY <3>2 DEF KeysKept, AllKeys, LastOf, Cat
  <2> QED
    BY <1>1, <2>1, <2>2 DEF SetAttr
<1>2. CASE Finish
  BY <1>2 DEF Finish, KeysKept
<1>3. CASE Start \/ SetupHandlers \/ SetFlag \/ Spawn
  <2>1. UNCHANGED <<inward, typed, keys, signals>> /\ main \notin Past
    BY <1>3 DEF Start, SetupHandlers, SetFlag, Spawn
  <2> QED
    BY <2>1, KeepsKeys
<1>4. CASE BeginReadOutput \/ ReadOutput \/ WriteOutput
  <2>1. UNCHANGED <<inward, typed, keys, signals>> /\ main \notin Past
    BY <1>4 DEF BeginReadOutput, ReadOutput, WriteOutput
  <2> QED
    BY <2>1, KeepsKeys
<1>5. CASE CloseMaster \/ ReadCode
  <2>1. UNCHANGED <<inward, typed, keys, signals>> /\ main' \in Past
    BY <1>5 DEF CloseMaster, ReadCode
  <2> QED
    BY <2>1, KeepsKeys
<1> QED
  BY <1>1, <1>2, <1>3, <1>4, <1>5 DEF MainStep

LEMMA NextKeys ==
  ASSUME TypeOK, NotYet, KeysKept, [Next]_vars
  PROVE  KeysKept'
<1>0. KeyTypes /\ keys \in Nat
  BY DEF TypeOK, KeyTypes
<1>1. CASE MainStep
  BY <1>1, MainKeys
<1>2. CASE ReaderStep
  BY <1>2, ReaderKeys
<1>3. CASE Signal
  BY <1>3 DEF Signal, TypeOK, KeysKept
<1>4. CASE Press
  <2>0. CASE ~(signals = 0 /\ main \notin Past)
    BY <1>4, <2>0 DEF Press, KeysKept
  <2>1. SUFFICES ASSUME signals = 0, main \notin Past
                 PROVE  LastOf(AllKeys', keys')
    BY <2>0, LastIsKept
  <2>2. LastOf(AllKeys, keys)
    BY <2>1 DEF KeysKept, AllKeys, LastOf, Cat
  <2> DEFINE front == Cat(Cat(input, toCmd), inbuf)
  <2>3. front \in Seq(Nat)
    <3>1. Cat(input, toCmd) \in Seq(Nat)
      BY <1>0, CatTypes DEF KeyTypes
    <3> QED
      BY <1>0, <3>1, CatTypes DEF KeyTypes
  <2>4. AllKeys \in Seq(Nat) /\ AllKeys = Cat(front, typed)
    BY <1>0, <2>3, CatTypes DEF KeyTypes, AllKeys
  <2>5. AllKeys' = Cat(front, Append(typed, keys + 1)) /\ keys' = keys + 1
    BY <1>4 DEF Press, AllKeys
  <2> HIDE DEF front
  <2>6. Cat(front, Append(typed, keys + 1)) = Append(Cat(front, typed), keys + 1)
    <3>1. typed \in Seq(Nat)
      BY <1>0 DEF KeyTypes
    <3> QED
      BY <1>0, <2>3, <3>1 DEF Cat
  <2>7. LastOf(Append(AllKeys, keys + 1), keys + 1)
    BY <1>0, <2>2, <2>4, LastOfAppend
  <2> QED
    BY <2>4, <2>5, <2>6, <2>7
<1>5. CASE CommandReads
  <2>1. PICK n \in 1..Len(toCmd) : n = 1
    BY <1>0, <1>5, EmptySeq DEF CommandReads, KeyTypes
  <2>2. input' = Cat(input, Taken(toCmd, n)) /\ toCmd' = Left(toCmd, n)
    BY <1>5, <2>1 DEF CommandReads, Moves, Cat, Taken, Left
  <2>3. Cat(input', toCmd') = Cat(input, toCmd)
    <3>1. input \in Seq(Nat) /\ toCmd \in Seq(Nat)
      BY <1>0 DEF KeyTypes
    <3> QED
      BY <2>2, <3>1, MovesCat
  <2>4. UNCHANGED <<inbuf, typed, keys, signals, main>>
    BY <1>5 DEF CommandReads
  <2>5. AllKeys' = AllKeys
    BY <2>3, <2>4 DEF AllKeys
  <2> QED
    BY <2>4, <2>5, SameKeys
<1>6. CASE \/ WatcherStep \/ (Environment /\ ~Press /\ ~CommandReads)
           \/ UNCHANGED vars
  <2>1. UNCHANGED <<inward, typed, keys, signals, main>>
    BY <1>6 DEF WatcherStep, Wake, SetSize, Environment, Hangup, Resize,
                OpenSlave, CommandWrites, CommandEnds, Release, vars
  <2> QED
    BY <2>1, KeepsKeys
<1> QED
  BY <1>1, <1>2, <1>3, <1>4, <1>5, <1>6 DEF Next, Environment

(* Until a signal comes or the output is over, no key is lost between the  *)
(* user and the command, none passes another, and none arrives twice       *)
(* (pump_ex and write_blocking, pts.c:31).                                 *)
THEOREM KeysKeptAlways == Spec => []KeysKept
<1>1. TypeOK /\ NotYet /\ KeysKept /\ [Next]_vars => KeysKept'
  BY NextKeys
<1> QED
  BY InitKeys, <1>1, TypeCorrect, NotYetAlways, PTL DEF Spec

-----------------------------------------------------------------------------
(* The output, from the command to the user.                               *)

Sent == [i \in 1..produced |-> i]

OutTypes ==
  /\ screen \in Seq(Nat) /\ outbuf \in Seq(Nat) /\ toUser \in Seq(Nat)
  /\ produced \in Nat

(* What the command has written is on the screen, in the pump's buffer or  *)
(* in the queue.                                                           *)
OutKept == Cat(Cat(screen, outbuf), toUser) = Sent

(* Who can have closed what, and when the buffer is empty.                 *)
Closed ==
  /\ "ptmx" \notin fds => reader = "gone" \/ main \in Past
  /\ "out" \notin fds => signals > 0
  /\ slave = "closed" => cmd = "ended"

BufferEmpty == main \in Before \cup {"read", "inread"} => outbuf = <<>>

(* The pump ends when there is nothing more to come, or it is excused.     *)
AllOut ==
  main \in {"close"} \cup Past /\ ~Excused =>
    slave = "closed" /\ toUser = <<>> /\ outbuf = <<>>

StreamInv == OutKept /\ Closed /\ BufferEmpty /\ AllOut

LEMMA SentAppend ==
  ASSUME produced \in Nat
  PROVE  /\ Sent \in Seq(Nat) /\ Len(Sent) = produced
         /\ [i \in 1..produced + 1 |-> i] = Append(Sent, produced + 1)
<1>1. Sent \in Seq(Nat) /\ Len(Sent) = produced
  BY DEF Sent
<1>2. [i \in 1..produced + 1 |-> i] = Append(Sent, produced + 1)
  BY <1>1, AppendProperties DEF Sent
<1> QED
  BY <1>1, <1>2

LEMMA CatEmpty ==
  ASSUME NEW s \in Seq(Nat)
  PROVE  Cat(s, <<>>) = s
BY DEF Cat

LEMMA CatAppend ==
  ASSUME NEW s \in Seq(Nat), NEW t \in Seq(Nat), NEW k \in Nat
  PROVE  Cat(s, Append(t, k)) = Append(Cat(s, t), k)
BY DEF Cat

LEMMA CatPrefix ==
  ASSUME NEW s \in Seq(Nat), NEW t \in Seq(Nat)
  PROVE  Len(s) <= Len(Cat(s, t)) /\ SubSeq(Cat(s, t), 1, Len(s)) = s
<1>1. Len(Cat(s, t)) = Len(s) + Len(t) /\ Cat(s, t) \in Seq(Nat)
  BY ConcatProperties DEF Cat
<1>2. \A i \in 1..Len(s) : Cat(s, t)[i] = s[i]
  BY ConcatProperties DEF Cat
<1> QED
  BY <1>1, <1>2

(* An excuse stays one.                                                    *)
LEMMA ExcusedStays ==
  ASSUME TypeOK, NotYet, [Next]_vars, Excused
  PROVE  Excused'
<1>1. CASE Spawn
  <2>1. main = "spawn" /\ UNCHANGED <<signals, hung, tty>>
    BY <1>1 DEF Spawn
  <2>2. reader = "none"
    BY <2>1 DEF NotYet, Before
  <2> QED
    BY <2>1, <2>2 DEF Excused
<1>2. CASE MainStep /\ ~Spawn
  <2>1. /\ UNCHANGED <<reader, signals, hung, tty>> /\ main # "failed"
    <3>1. CASE Start \/ SetupHandlers \/ SetAttr \/ SetFlag
      BY <3>1 DEF Start, SetupHandlers, SetAttr, SetFlag
    <3>2. CASE BeginReadOutput \/ ReadOutput \/ WriteOutput
      BY <3>2 DEF BeginReadOutput, ReadOutput, WriteOutput
    <3>3. CASE CloseMaster \/ Finish \/ ReadCode
      BY <3>3 DEF CloseMaster, Finish, ReadCode
    <3> QED
      BY <1>2, <3>1, <3>2, <3>3 DEF MainStep
  <2> QED
    BY <2>1 DEF Excused
<1>3. CASE ReaderStep
  <2>1. UNCHANGED <<main, signals, hung, tty>> /\ reader # "gone"
    BY <1>3 DEF ReaderStep, BeginReadInput, ReadInput, BeginWriteInput,
                WriteInput, CloseInput
  <2> QED
    BY <2>1 DEF Excused
<1>4. CASE Signal
  BY <1>4 DEF Signal, TypeOK, Excused
<1>5. CASE WatcherStep \/ Environment \/ UNCHANGED vars
  <2>1. UNCHANGED <<main, reader, signals, tty>> /\ (hung => hung')
    BY <1>5 DEF WatcherStep, Wake, SetSize, Environment, Press, Hangup, Resize,
                OpenSlave, CommandReads, CommandWrites, CommandEnds, Release,
                vars
  <2> QED
    BY <2>1 DEF Excused
<1> QED
  BY <1>1, <1>2, <1>3, <1>4, <1>5 DEF Next

LEMMA InitStream == Init => StreamInv
<1> SUFFICES ASSUME Init PROVE StreamInv
  OBVIOUS
<1>1. <<>> \in Seq(Nat)
  BY EmptySeq
<1>2. Cat(Cat(<<>>, <<>>), <<>>) = <<>>
  BY <1>1, CatEmpty
<1>3. Sent = <<>>
  BY DEF Init, Sent
<1> QED
  BY <1>2, <1>3 DEF Init, StreamInv, OutKept, Closed, BufferEmpty, AllOut

(* The output is where it was if nothing of it moves.                      *)
LEMMA OutStays ==
  ASSUME OutKept, UNCHANGED outward
  PROVE  OutKept'
BY DEF OutKept, Sent

LEMMA MainStream ==
  ASSUME TypeOK, NotYet, StreamInv, MainStep, Excused => Excused'
  PROVE  StreamInv'
<1>0. OutTypes /\ <<>> \in Seq(Nat)
  BY EmptySeq DEF TypeOK, OutTypes
<1> USE DEF StreamInv, Closed, BufferEmpty, AllOut, Before
<1>1. CASE Start \/ SetupHandlers \/ SetAttr \/ SetFlag
  <2>1. /\ main \in Before
        /\ main' \in Before \cup {"read", "code"}
        /\ main' = "code" => "out" \notin tty'
    BY <1>1 DEF Start, OutputPump, SetupHandlers, SetAttr, SetFlag
  <2>2. UNCHANGED <<reader, fds, outward, signals, server>>
    BY <1>1 DEF Start, SetupHandlers, SetAttr, SetFlag
  <2> QED
    BY <2>1, <2>2, OutStays DEF Excused
<1>2. CASE Spawn
  <2>1. /\ main = "spawn" /\ main' \in {"failed", "read", "code"}
        /\ main' = "code" => "out" \notin tty'
        /\ UNCHANGED <<fds, outward, signals, server>>
    BY <1>2 DEF Spawn, OutputPump
  <2>2. reader = "none"
    BY <2>1 DEF NotYet
  <2> QED
    BY <2>1, <2>2, OutStays DEF Excused
<1>3. CASE BeginReadOutput
  <2>1. /\ main = "read" /\ main' = IF "ptmx" \in fds THEN "inread" ELSE "close"
        /\ UNCHANGED <<reader, fds, outward, signals, server>>
    BY <1>3 DEF BeginReadOutput
  <2>2. "ptmx" \notin fds => Excused
    BY <2>1 DEF Excused
  <2> QED
    BY <2>1, <2>2, OutStays
<1>4. CASE ReadOutput
  <2>1. main = "inread" /\ outbuf = <<>>
        /\ UNCHANGED <<reader, fds, signals, server, screen, produced>>
    BY <1>4 DEF ReadOutput
  <2>2. CASE toUser = <<>> /\ slave = "closed" /\ main' = "close"
             /\ UNCHANGED <<toUser, outbuf>>
    BY <2>1, <2>2, OutStays
  <2>3. ASSUME NEW n \in 1..Len(toUser), Moves(toUser, outbuf, n), main' = "write"
        PROVE  StreamInv'
    <3>1. outbuf' = Cat(outbuf, Taken(toUser, n)) /\ toUser' = Left(toUser, n)
      BY <2>3 DEF Moves, Cat, Taken, Left
    <3>2. Cat(Cat(screen, outbuf'), toUser') = Cat(Cat(screen, outbuf), toUser)
      BY <1>0, <3>1, MovesBehind DEF OutTypes
    <3>3. OutKept'
      BY <2>1, <3>2 DEF OutKept, Sent
    <3> QED
      BY <2>1, <2>3, <3>3
  <2> QED
    BY <1>4, <2>2, <2>3 DEF ReadOutput
<1>5. CASE WriteOutput
  <2>1. main = "write"
        /\ UNCHANGED <<reader, fds, signals, server, toUser, produced>>
    BY <1>5 DEF WriteOutput
  <2>2. CASE ("out" \notin fds \/ hung) /\ main' = "close"
             /\ UNCHANGED <<outbuf, screen>>
    <3>1. Excused
      BY <2>1, <2>2 DEF Excused, TypeOK
    <3> QED
      BY <2>1, <2>2, <3>1, OutStays
  <2>3. ASSUME NEW n \in 1..Len(outbuf), Moves(outbuf, screen, n),
               main' = IF n = Len(outbuf) THEN "read" ELSE "write"
        PROVE  StreamInv'
    <3>1. screen' = Cat(screen, Taken(outbuf, n)) /\ outbuf' = Left(outbuf, n)
      BY <2>3 DEF Moves, Cat, Taken, Left
    <3>2. Cat(screen', outbuf') = Cat(screen, outbuf)
      BY <1>0, <3>1, MovesCat DEF OutTypes
    <3>3. OutKept'
      BY <2>1, <3>2 DEF OutKept, Sent
    <3>4. n = Len(outbuf) => outbuf' = <<>>
      BY <1>0, <3>1 DEF OutTypes, Left
    <3> QED
      BY <2>1, <2>3, <3>3, <3>4
  <2> QED
    BY <1>5, <2>2, <2>3 DEF WriteOutput
<1>6. CASE CloseMaster \/ Finish \/ ReadCode
  <2>1. /\ main \in {"close"} \cup Past /\ main' \in {"restore", "code", "ended"}
        /\ fds' \subseteq fds /\ ("out" \in fds => "out" \in fds')
        /\ UNCHANGED <<reader, outward, signals, server>>
    BY <1>6 DEF CloseMaster, Finish, ReadCode
  <2> QED
    BY <2>1, OutStays
<1> QED
  BY <1>1, <1>2, <1>3, <1>4, <1>5, <1>6 DEF MainStep

LEMMA NextStream ==
  ASSUME TypeOK, NotYet, StreamInv, [Next]_vars
  PROVE  StreamInv'
<1>0. OutTypes /\ (Excused => Excused')
  BY ExcusedStays DEF TypeOK, OutTypes
<1> USE DEF StreamInv, Closed, BufferEmpty, AllOut, Before
<1>1. CASE MainStep
  BY <1>0, <1>1, MainStream
<1>2. CASE ReaderStep
  <2>1. CASE CloseInput
    BY <1>0, <2>1, OutStays DEF CloseInput
  <2>2. CASE BeginReadInput \/ ReadInput \/ BeginWriteInput \/ WriteInput
    <3>1. UNCHANGED <<main, fds, outward, signals, server>> /\ reader # "gone"
      BY <2>2 DEF BeginReadInput, ReadInput, BeginWriteInput, WriteInput
    <3> QED
      BY <1>0, <3>1, OutStays
  <2> QED
    BY <1>2, <2>1, <2>2 DEF ReaderStep
<1>3. CASE Signal
  <2>1. UNCHANGED <<reader, outward, server>> /\ signals' > 0
    BY <1>3 DEF Signal, TypeOK
  <2>2. Excused'
    BY <2>1 DEF Excused
  <2>3. /\ main' \in {main, "close", "failed", "killed"}
        /\ main \in Past => main' \in Past
        /\ "ptmx" \in fds => "ptmx" \in fds'
    BY <1>3 DEF Signal, Handler, Dies
  <2> QED
    BY <2>1, <2>2, <2>3, OutStays
<1>4. CASE CommandWrites
  <2>1. /\ slave = "open" /\ UNCHANGED <<main, reader, fds, signals, server,
                                         outbuf, screen>>
        /\ produced' = produced + 1 /\ toUser' = Append(toUser, produced + 1)
    BY <1>4 DEF CommandWrites
  <2>2. OutKept'
    <3> DEFINE front == Cat(screen, outbuf)
    <3>1. front \in Seq(Nat) /\ toUser \in Seq(Nat) /\ produced + 1 \in Nat
      BY <1>0, CatTypes DEF OutTypes
    <3>2. Cat(front, toUser) = Sent
      BY DEF OutKept
    <3>3. front' = front
      BY <2>1
    <3> HIDE DEF front
    <3>4. Cat(front, toUser') = Append(Cat(front, toUser), produced + 1)
      BY <2>1, <3>1, CatAppend
    <3>5. Sent' = Append(Sent, produced + 1)
      <4>1. Sent' = [i \in 1..produced + 1 |-> i]
        BY <2>1 DEF Sent
      <4> QED
        BY <1>0, <4>1, SentAppend DEF OutTypes
    <3>6. Cat(front', toUser') = Sent'
      BY <3>2, <3>3, <3>4, <3>5
    <3> QED
      BY <3>6 DEF OutKept, front
  <2> QED
    BY <1>0, <2>1, <2>2
<1>5. CASE OpenSlave \/ CommandEnds \/ Release
  <2>1. /\ UNCHANGED <<main, reader, fds, signals, outward>>
        /\ slave' = "closed" => cmd' = "ended"
        /\ slave = "closed" => slave' = "closed"
    BY <1>5 DEF OpenSlave, CommandEnds, Release
  <2> QED
    BY <1>0, <2>1, OutStays
<1>6. CASE \/ WatcherStep \/ Press \/ Hangup \/ Resize \/ CommandReads
           \/ UNCHANGED vars
  <2>1. UNCHANGED <<main, reader, fds, signals, outward, server>>
    BY <1>6 DEF WatcherStep, Wake, SetSize, Press, Hangup, Resize, CommandReads,
                vars
  <2> QED
    BY <1>0, <2>1, OutStays
<1> QED
  BY <1>1, <1>2, <1>3, <1>4, <1>5, <1>6 DEF Next, Environment

LEMMA StreamInvAlways == Spec => []StreamInv
<1>1. TypeOK /\ NotYet /\ StreamInv /\ [Next]_vars => StreamInv'
  BY NextStream
<1> QED
  BY InitStream, <1>1, TypeCorrect, NotYetAlways, PTL DEF Spec

Ended == main \in Past

(* A step that writes nothing and shows nothing: the pump goes on, ends    *)
(* with everything shown, or is excused.                                   *)
LEMMA StillStep ==
  ASSUME OutTypes', StreamInv', UNCHANGED <<produced, screen>>,
         Ended => Ended', Excused => Excused'
  PROVE  [Stream!Next]_(Stream!cvars)
<1>0. /\ Excused \in BOOLEAN /\ Excused' \in BOOLEAN
      /\ Ended \in BOOLEAN /\ Ended' \in BOOLEAN
  BY DEF Excused, Ended
<1>1. Sent' = Sent
  BY DEF Sent
<1>2. Ended' /\ ~Excused' => screen' = Sent'
  <2> SUFFICES ASSUME Ended', ~Excused' PROVE screen' = Sent'
    OBVIOUS
  <2>1. toUser' = <<>> /\ outbuf' = <<>>
    BY DEF StreamInv, AllOut, Ended
  <2>2. screen' \in Seq(Nat)
    BY DEF OutTypes
  <2>3. Cat(Cat(screen', <<>>), <<>>) = screen'
    BY <2>2, CatEmpty
  <2> QED
    BY <2>1, <2>3 DEF StreamInv, OutKept
<1>3. CASE Excused' /\ ~Excused
  <2>1. Stream!Excuse
    <3>1. /\ Excused = FALSE /\ Excused' = TRUE
          /\ Ended' = Ended \/ Ended' = TRUE
      BY <1>0, <1>3
    <3> QED
      BY <1>1, <1>3, <3>1 DEF Stream!Excuse, Sent, Ended
  <2> QED
    BY <2>1 DEF Stream!Next
<1>4. CASE (Excused' <=> Excused) /\ Ended' /\ ~Ended
  <2>1. Stream!End
    <3>1. Excused' = Excused /\ Ended = FALSE /\ Ended' = TRUE
      BY <1>0, <1>4
    <3>2. Excused \/ screen = Sent
      BY <1>1, <1>2, <1>4
    <3> QED
      BY <1>1, <1>4, <3>1, <3>2 DEF Stream!End, Sent, Ended
  <2> QED
    BY <2>1 DEF Stream!Next
<1>5. CASE (Excused' <=> Excused) /\ (Ended' <=> Ended)
  <2>1. Excused' = Excused /\ Ended' = Ended
    BY <1>0, <1>5
  <2> QED
    BY <1>1, <2>1 DEF Stream!cvars, Sent, Ended
<1> QED
  BY <1>3, <1>4, <1>5

LEMMA WriteStep ==
  ASSUME TypeOK, StreamInv, StreamInv', OutTypes', WriteOutput, screen' # screen
  PROVE  Stream!Deliver
<1>1. /\ main' \in {"read", "write"} /\ main = "write"
      /\ UNCHANGED <<reader, produced, signals, hung, tty>>
  BY DEF WriteOutput, Moves
<1>2. PICK n \in 1..Len(outbuf) : screen' = Cat(screen, Taken(outbuf, n))
  BY DEF WriteOutput, Moves, Cat, Taken
<1>3. screen \in Seq(Nat) /\ outbuf \in Seq(Nat) /\ produced \in Nat
  BY DEF TypeOK
<1>4. Len(screen') = Len(screen) + n
  BY <1>2, <1>3, MovesLengths
<1>5. Len(screen') <= Len(Sent) /\ SubSeq(Sent, 1, Len(screen')) = screen'
  <2>1. screen' \in Seq(Nat) /\ outbuf' \in Seq(Nat) /\ toUser' \in Seq(Nat)
    BY DEF OutTypes
  <2>2. Cat(Cat(screen', outbuf'), toUser') = Cat(screen', Cat(outbuf', toUser'))
    BY <2>1, CatAssociative
  <2>3. Cat(outbuf', toUser') \in Seq(Nat)
    BY <2>1, CatTypes
  <2>4. Sent = Cat(screen', Cat(outbuf', toUser'))
    <3>1. Sent' = Sent
      BY <1>1 DEF Sent
    <3> QED
      BY <2>2, <3>1 DEF StreamInv, OutKept
  <2> QED
    BY <2>1, <2>3, <2>4, CatPrefix
<1>6. Len(screen') \in Len(screen) + 1 .. Len(Sent)
  <2>1. Len(screen) \in Nat /\ Len(Sent) \in Nat /\ n \in Nat /\ n >= 1
    BY <1>3, SentAppend, LenProperties
  <2> QED
    BY <1>4, <1>5, <2>1
<1>7. \E k \in Len(screen) + 1 .. Len(Sent) : screen' = SubSeq(Sent, 1, k)
  BY <1>5, <1>6
<1>8. Sent' = Sent /\ Excused' = Excused /\ Ended = FALSE /\ Ended' = FALSE
  <2>1. Sent' = Sent /\ (Excused' <=> Excused)
    BY <1>1 DEF Sent, Excused
  <2>2. Excused \in BOOLEAN /\ Excused' \in BOOLEAN
    BY DEF Excused
  <2>3. ~Ended /\ ~Ended' /\ Ended \in BOOLEAN /\ Ended' \in BOOLEAN
    BY <1>1 DEF Ended
  <2> QED
    BY <2>1, <2>2, <2>3
<1> QED
  BY <1>7, <1>8 DEF Stream!Deliver, Sent, Ended

LEMMA SendStep ==
  ASSUME TypeOK, StreamInv, CommandWrites
  PROVE  Stream!Send
<1>1. /\ UNCHANGED <<main, reader, signals, hung, tty, screen>>
      /\ produced' = produced + 1 /\ produced < MaxOutput /\ slave = "open"
  BY DEF CommandWrites
<1>2. produced \in Nat
  BY DEF TypeOK
<1>3. Sent' = Append(Sent, produced + 1)
  <2>1. Sent' = [i \in 1..produced + 1 |-> i]
    BY <1>1 DEF Sent
  <2> QED
    BY <1>2, <2>1, SentAppend
<1>4. produced + 1 \in 1..MaxOutput
  BY <1>1, <1>2
<1>5. Excused \/ ~Ended
  BY <1>1 DEF StreamInv, AllOut, Ended
<1>6. Excused' = Excused /\ Ended' = Ended
  <2>1. (Excused' <=> Excused) /\ (Ended' <=> Ended)
    BY <1>1 DEF Excused, Ended
  <2>2. /\ Excused \in BOOLEAN /\ Excused' \in BOOLEAN
        /\ Ended \in BOOLEAN /\ Ended' \in BOOLEAN
    BY DEF Excused, Ended
  <2> QED
    BY <2>1, <2>2
<1>7. \E d \in 1..MaxOutput : Sent' = Append(Sent, d)
  BY <1>3, <1>4
<1> QED
  BY <1>1, <1>5, <1>6, <1>7 DEF Stream!Send, Sent, Ended

LEMMA StreamStep ==
  ASSUME TypeOK, NotYet, StreamInv, [Next]_vars
  PROVE  [Stream!Next]_(Stream!cvars)
<1>1. StreamInv' /\ OutTypes' /\ (Excused => Excused')
  BY NextStream, NextTypes, ExcusedStays DEF OutTypes, TypeOK
<1>2. CASE CommandWrites
  BY <1>2, SendStep DEF Stream!Next
<1>3. CASE WriteOutput /\ screen' # screen
  BY <1>1, <1>3, WriteStep DEF Stream!Next
<1>4. CASE ~CommandWrites /\ ~(WriteOutput /\ screen' # screen)
  <2>1. UNCHANGED <<produced, screen>> /\ (Ended => Ended')
    <3>1. CASE MainStep
      <4>1. CASE Start \/ SetupHandlers \/ SetAttr \/ SetFlag
        BY <4>1 DEF Start, SetupHandlers, SetAttr, SetFlag, Ended
      <4>2. CASE Spawn \/ BeginReadOutput \/ ReadOutput
        BY <4>2 DEF Spawn, BeginReadOutput, ReadOutput, Ended
      <4>3. CASE CloseMaster \/ Finish \/ ReadCode
        BY <4>3 DEF CloseMaster, Finish, ReadCode, Ended
      <4>4. CASE WriteOutput
        BY <1>4, <4>4 DEF WriteOutput, Ended
      <4> QED
        BY <3>1, <4>1, <4>2, <4>3, <4>4 DEF MainStep
    <3>2. CASE Signal
      BY <3>2 DEF Signal, Handler, Dies, Ended
    <3>3. CASE ReaderStep \/ WatcherStep \/ UNCHANGED vars
      BY <3>3 DEF ReaderStep, BeginReadInput, ReadInput, BeginWriteInput,
                  WriteInput, CloseInput, WatcherStep, Wake, SetSize, vars, Ended
    <3>4. CASE Environment /\ ~CommandWrites
      BY <3>4 DEF Environment, Press, Hangup, Resize, OpenSlave, CommandReads,
                  CommandEnds, Release, Ended
    <3> QED
      BY <1>4, <3>1, <3>2, <3>3, <3>4 DEF Next
  <2> QED
    BY <1>1, <2>1, StillStep
<1> QED
  BY <1>2, <1>3, <1>4

(* What the pumps, the handler and the queues do is, seen from outside,    *)
(* what PtsChannel promises: the user sees a prefix of what the command    *)
(* wrote, and all of it before pump_stdout_blocking returns unexcused.     *)
THEOREM StreamTheorem == Spec => ImplementsStream
<1>1. Init => Stream!Init
  <2> SUFFICES ASSUME Init PROVE Stream!Init
    OBVIOUS
  <2>1. [i \in 1..produced |-> i] = <<>> /\ screen = <<>> /\ ~(main \in Past)
    BY DEF Init
  <2>2. Excused \in BOOLEAN
    BY DEF Init, Excused
  <2> QED
    BY <2>1, <2>2 DEF Stream!Init
<1>2. TypeOK /\ NotYet /\ StreamInv /\ [Next]_vars => [Stream!Next]_(Stream!cvars)
  BY StreamStep
<1> QED
  BY <1>1, <1>2, TypeCorrect, NotYetAlways, StreamInvAlways, PTL
     DEF Spec, ImplementsStream, Stream!Spec

-----------------------------------------------------------------------------
(* Who waits, and for whom.                                                *)

(* The pump of the output writes only what it holds.                       *)
HoldsOutput == main = "write" => outbuf # <<>>

(* There is no pump of the input until the main thread has done everything *)
(* that comes before the output.  From then on output that is not at the   *)
(* user's yet is what the main thread has before it: it reads, from a      *)
(* terminal that nobody has closed and of which there is something to      *)
(* read, or it writes, to a terminal that is open, what it holds.  It      *)
(* neither waits for the input or its thread nor ends without it, and none *)
(* of it is in a place that the main thread does not come to next.         *)
OutputFree ==
  /\ reader # "none" => main \notin Before
  /\ Len(screen) < produced /\ ~Excused =>
       \/ main \in Before
       \/ main \in {"read", "inread"} /\ "ptmx" \in fds /\ toUser # <<>>
       \/ main = "write" /\ {"out", "ptmx"} \subseteq fds /\ outbuf # <<>>

LEMMA InitHolds == Init => HoldsOutput
BY DEF Init, HoldsOutput

LEMMA NextHolds ==
  ASSUME TypeOK, HoldsOutput, [Next]_vars
  PROVE  HoldsOutput'
<1>0. toUser \in Seq(Nat) /\ outbuf \in Seq(Nat) /\ screen \in Seq(Nat)
  BY DEF TypeOK
<1>e. \A s \in Seq(Nat) : Len(s) \in Nat /\ (s = <<>> <=> Len(s) = 0)
  BY EmptySeq, LenProperties
<1> USE DEF HoldsOutput
<1>1. CASE ReadOutput
  <2>1. ASSUME NEW n \in 1..Len(toUser), Moves(toUser, outbuf, n)
        PROVE  outbuf' # <<>>
    <3>1. outbuf' = Cat(outbuf, Taken(toUser, n))
      BY <2>1 DEF Moves, Cat, Taken
    <3>2. outbuf' \in Seq(Nat) /\ Len(outbuf') = Len(outbuf) + n
      BY <1>0, <3>1, MovesLengths
    <3>3. n >= 1 /\ Len(outbuf) \in Nat
      BY <1>0, <1>e
    <3> QED
      BY <1>e, <3>2, <3>3
  <2> QED
    BY <1>1, <2>1 DEF ReadOutput
<1>2. CASE WriteOutput
  <2>1. ASSUME NEW n \in 1..Len(outbuf), Moves(outbuf, screen, n),
               n # Len(outbuf)
        PROVE  outbuf' # <<>>
    <3>1. outbuf' \in Seq(Nat) /\ Len(outbuf') = Len(outbuf) - n
      <4>1. outbuf' = Left(outbuf, n)
        BY <2>1 DEF Moves, Left
      <4> QED
        BY <1>0, <4>1, MovesLengths
    <3> QED
      BY <1>0, <1>e, <2>1, <3>1
  <2> QED
    BY <1>2, <2>1 DEF WriteOutput
<1>3. CASE MainStep /\ ~ReadOutput /\ ~WriteOutput
  <2>1. main' # "write"
    BY <1>3 DEF MainStep, Start, OutputPump, SetupHandlers, SetAttr, SetFlag,
                Spawn, BeginReadOutput, CloseMaster, Finish, ReadCode
  <2> QED
    BY <2>1
<1>4. CASE Signal
  <2>1. outbuf' = outbuf /\ (main' = main \/ main' \in {"close", "failed", "killed"})
    BY <1>4 DEF Signal, Handler, Dies
  <2> QED
    BY <2>1
<1>5. CASE ReaderStep \/ WatcherStep \/ Environment \/ UNCHANGED vars
  <2>1. UNCHANGED <<main, outbuf>>
    BY <1>5 DEF ReaderStep, BeginReadInput, ReadInput, BeginWriteInput,
                WriteInput, CloseInput, WatcherStep, Wake, SetSize, Environment,
                Press, Hangup, Resize, OpenSlave, CommandReads, CommandWrites,
                CommandEnds, Release, vars
  <2> QED
    BY <2>1
<1> QED
  BY <1>1, <1>2, <1>3, <1>4, <1>5 DEF Next

LEMMA OutputIsAhead ==
  ASSUME TypeOK, NotYet, StreamInv, HoldsOutput
  PROVE  OutputFree
<1>1. reader # "none" => main \notin Before
  BY DEF NotYet
<1>2. ASSUME Len(screen) < produced, ~Excused, main \notin Before
      PROVE  \/ main \in {"read", "inread"} /\ "ptmx" \in fds /\ toUser # <<>>
             \/ main = "write" /\ {"out", "ptmx"} \subseteq fds /\ outbuf # <<>>
  <2>1. screen \in Seq(Nat) /\ produced \in Nat
    BY DEF TypeOK
  <2>2. ~(outbuf = <<>> /\ toUser = <<>>)
    <3> SUFFICES ASSUME outbuf = <<>>, toUser = <<>> PROVE FALSE
      OBVIOUS
    <3>1. Cat(Cat(screen, <<>>), <<>>) = screen
      BY <2>1, CatEmpty
    <3>2. screen = Sent
      BY <3>1 DEF StreamInv, OutKept
    <3> QED
      BY <1>2, <2>1, <3>2, SentAppend
  <2>3. main \in {"read", "inread", "write"}
    BY <1>2, <2>2 DEF StreamInv, AllOut, TypeOK, ThreadTypes, Before, Past, Gone
  <2>4. {"out", "ptmx"} \subseteq fds
    BY <1>2, <2>3 DEF StreamInv, Closed, Excused, Past, Gone
  <2>5. CASE main = "write"
    BY <2>4, <2>5 DEF HoldsOutput
  <2>6. CASE main \in {"read", "inread"}
    BY <2>2, <2>4, <2>6 DEF StreamInv, BufferEmpty
  <2> QED
    BY <2>3, <2>5, <2>6
<1> QED
  BY <1>1, <1>2 DEF OutputFree

(* Whatever the user types, and however long a write to the command's      *)
(* terminal waits for it (pts.c:43): what the command has written is never *)
(* behind that write.  With WorkTheorem, what FairSpec asks of the main    *)
(* thread alone is enough for OutputArrives.  A single thread that pumps   *)
(* first one way and then the other has no such place to be in.            *)
THEOREM OutputFreeTheorem == Spec => []OutputFree
<1>1. TypeOK /\ HoldsOutput /\ [Next]_vars => HoldsOutput'
  BY NextHolds
<1>2. TypeOK /\ NotYet /\ StreamInv /\ HoldsOutput => OutputFree
  BY OutputIsAhead
<1> QED
  BY InitHolds, <1>1, <1>2, TypeCorrect, NotYetAlways, StreamInvAlways, PTL
     DEF Spec

-----------------------------------------------------------------------------
(* What is left for the main thread to do, with the output that is still   *)
(* to come and to be forwarded.                                            *)
Rank ==
  CASE main = "start" -> 11
    [] main = "handlers" -> 10
    [] main = "setattr" -> 9
    [] main = "flag" -> 8
    [] main = "spawn" -> 7
    [] main = "read" -> 6
    [] main \in {"inread", "write"} -> 5
    [] main = "close" -> 4
    [] main = "restore" -> 3
    [] main = "code" -> 2
    [] OTHER -> 0

PumpWork ==
  5 * (MaxOutput - produced) + 4 * Len(toUser) + 3 * Len(outbuf) + Rank

WorkShrinks ==
  [][PumpWork' <= PumpWork /\ (MainStep => PumpWork' < PumpWork)]_vars

Bounded == produced <= MaxOutput

LEMMA NextBounded ==
  ASSUME TypeOK, Bounded, [Next]_vars
  PROVE  Bounded'
<1>1. CASE CommandWrites
  BY <1>1 DEF CommandWrites, TypeOK, Bounded
<1>2. CASE ~CommandWrites
  <2>1. produced' = produced
    BY <1>2 DEF Next, MainStep, Start, SetupHandlers, SetAttr, SetFlag, Spawn,
                BeginReadOutput, ReadOutput, WriteOutput, CloseMaster, Finish,
                ReadCode, ReaderStep, BeginReadInput, ReadInput,
                BeginWriteInput, WriteInput, CloseInput, WatcherStep, Wake,
                SetSize, Signal, Environment, Press, Hangup, Resize, OpenSlave,
                CommandReads, CommandEnds, Release, vars
  <2> QED
    BY <2>1 DEF Bounded
<1> QED
  BY <1>1, <1>2

(* The lengths that the measure is made of.                                *)
Lengths ==
  /\ produced \in Nat /\ produced <= MaxOutput
  /\ Len(toUser) \in Nat /\ Len(outbuf) \in Nat /\ Rank \in Nat

LEMMA LengthsKnown ==
  ASSUME TypeOK, Bounded
  PROVE  Lengths
BY LenProperties DEF TypeOK, Bounded, Lengths, Rank

(* A step that moves nothing costs what the main thread's place costs.     *)
LEMMA SameOutput ==
  ASSUME Lengths, Lengths', UNCHANGED outward
  PROVE  /\ Rank' <= Rank => PumpWork' <= PumpWork
         /\ Rank' < Rank => PumpWork' < PumpWork
BY DEF Lengths, PumpWork

LEMMA MainWorks ==
  ASSUME TypeOK, Lengths, Lengths', MainStep
  PROVE  PumpWork' < PumpWork
<1>0. toUser \in Seq(Nat) /\ outbuf \in Seq(Nat) /\ screen \in Seq(Nat)
  BY DEF TypeOK
<1>1. CASE Start \/ SetupHandlers \/ SetAttr \/ SetFlag \/ Spawn
  <2>1. UNCHANGED outward
    BY <1>1 DEF Start, SetupHandlers, SetAttr, SetFlag, Spawn
  <2>2. Rank' < Rank
    BY <1>1 DEF Start, SetupHandlers, SetAttr, SetFlag, Spawn, OutputPump, Rank
  <2> QED
    BY <2>1, <2>2, SameOutput
<1>2. CASE BeginReadOutput \/ CloseMaster \/ Finish \/ ReadCode
  <2>1. UNCHANGED outward
    BY <1>2 DEF BeginReadOutput, CloseMaster, Finish, ReadCode
  <2>2. Rank' < Rank
    BY <1>2 DEF BeginReadOutput, CloseMaster, Finish, ReadCode, Rank
  <2> QED
    BY <2>1, <2>2, SameOutput
<1>3. CASE ReadOutput
  <2>1. CASE main' = "close" /\ UNCHANGED <<toUser, outbuf>>
    <3>1. UNCHANGED outward /\ Rank' < Rank
      BY <1>3, <2>1 DEF ReadOutput, Rank
    <3> QED
      BY <3>1, SameOutput
  <2>2. ASSUME NEW n \in 1..Len(toUser), Moves(toUser, outbuf, n), main' = "write"
        PROVE  PumpWork' < PumpWork
    <3>1. Len(outbuf') = Len(outbuf) + n /\ Len(toUser') = Len(toUser) - n
      <4>1. outbuf' = Cat(outbuf, Taken(toUser, n)) /\ toUser' = Left(toUser, n)
        BY <2>2 DEF Moves, Cat, Taken, Left
      <4> QED
        BY <4>1, <1>0, MovesLengths
    <3>2. Rank' = Rank /\ produced' = produced /\ n \in Nat /\ n >= 1
      BY <1>3, <2>2 DEF ReadOutput, Rank
    <3> QED
      BY <3>1, <3>2 DEF Lengths, PumpWork
  <2> QED
    BY <1>3, <2>1, <2>2 DEF ReadOutput
<1>4. CASE WriteOutput
  <2>1. CASE main' = "close" /\ UNCHANGED <<outbuf, screen>>
    <3>1. UNCHANGED outward /\ Rank' < Rank
      BY <1>4, <2>1 DEF WriteOutput, Rank
    <3> QED
      BY <3>1, SameOutput
  <2>2. ASSUME NEW n \in 1..Len(outbuf), Moves(outbuf, screen, n),
               main' \in {"read", "write"}
        PROVE  PumpWork' < PumpWork
    <3>1. Len(outbuf') = Len(outbuf) - n
      <4>1. outbuf' = Left(outbuf, n)
        BY <2>2 DEF Moves, Left
      <4> QED
        BY <1>0, <4>1, MovesLengths
    <3>2. /\ Rank' <= Rank + 1 /\ n \in Nat /\ n >= 1
          /\ produced' = produced /\ toUser' = toUser
      BY <1>4, <2>2 DEF WriteOutput, Rank
    <3> QED
      BY <3>1, <3>2 DEF Lengths, PumpWork
  <2> QED
    BY <1>4, <2>1, <2>2 DEF WriteOutput
<1> QED
  BY <1>1, <1>2, <1>3, <1>4 DEF MainStep

LEMMA OthersWork ==
  ASSUME TypeOK, Lengths, Lengths', [Next]_vars, ~MainStep
  PROVE  PumpWork' <= PumpWork
<1>1. CASE Signal
  <2>1. UNCHANGED outward
    BY <1>1 DEF Signal
  <2>2. \/ main' = main
        \/ main \in {"inread", "write"} /\ main' = "close"
        \/ main' \in {"failed", "killed"}
    BY <1>1 DEF Signal, Handler, Dies
  <2>3. Rank' <= Rank
    BY <2>2 DEF Rank
  <2> QED
    BY <2>1, <2>3, SameOutput
<1>2. CASE CommandWrites
  <2>1. toUser \in Seq(Nat) /\ produced + 1 \in Nat
    BY DEF TypeOK
  <2>2. Len(toUser') = Len(toUser) + 1
    BY <1>2, <2>1, AppendProperties DEF CommandWrites
  <2>3. produced' = produced + 1 /\ outbuf' = outbuf /\ Rank' = Rank
    BY <1>2 DEF CommandWrites, Rank
  <2> QED
    BY <2>2, <2>3 DEF Lengths, PumpWork
<1>3. CASE ReaderStep \/ WatcherStep \/ UNCHANGED vars
           \/ (Environment /\ ~CommandWrites)
  <2>1. UNCHANGED <<main, outward>>
    BY <1>3 DEF ReaderStep, BeginReadInput, ReadInput, BeginWriteInput,
                WriteInput, CloseInput, WatcherStep, Wake, SetSize, Environment,
                Press, Hangup, Resize, OpenSlave, CommandReads, CommandEnds,
                Release, vars
  <2>2. Rank' = Rank
    BY <2>1 DEF Rank
  <2> QED
    BY <2>1, <2>2, SameOutput DEF Lengths
<1> QED
  BY <1>1, <1>2, <1>3 DEF Next

(* Every step of the main thread takes away from what it has left to do,   *)
(* and no key, resize, signal or output adds to it: it comes to its end    *)
(* after as many of its steps as the output it may have to forward allows. *)
(* (The loop of pump_ex, pts.c:58, that of write_blocking, pts.c:42, and   *)
(* what a signal does to either.)                                          *)
THEOREM WorkTheorem == Spec => WorkShrinks
<1>1. Init => Bounded
  BY DEF Init, Bounded
<1>2. TypeOK /\ Bounded /\ [Next]_vars => Bounded'
  BY NextBounded
<1>3. TypeOK /\ TypeOK' /\ Bounded /\ Bounded' /\ [Next]_vars =>
        [PumpWork' <= PumpWork /\ (MainStep => PumpWork' < PumpWork)]_vars
  <2> SUFFICES ASSUME TypeOK, TypeOK', Bounded, Bounded', [Next]_vars
               PROVE  PumpWork' <= PumpWork /\ (MainStep => PumpWork' < PumpWork)
    OBVIOUS
  <2>1. Lengths
    BY LengthsKnown
  <2>2. Lengths'
    BY LenProperties DEF TypeOK, Bounded, Lengths, Rank
  <2>3. PumpWork \in Int /\ PumpWork' \in Int
    BY <2>1, <2>2 DEF Lengths, PumpWork
  <2> QED
    BY <2>1, <2>2, <2>3, MainWorks, OthersWork
<1> QED
  BY <1>1, <1>2, <1>3, TypeCorrect, PTL DEF Spec, WorkShrinks
=============================================================================
