----------------------------- MODULE PtsChannel -----------------------------
(***************************************************************************)
(* What a pump promises of the stream it forwards: the reader gets a       *)
(* prefix of what the writer sent, in its order, and when the pump has     *)
(* ended without an excuse it is all of it.                                *)
(***************************************************************************)
EXTENDS Naturals, Sequences

CONSTANT Data

VARIABLES
  sent,       \* what the writer has written
  received,   \* what has come out at the other side
  ended,      \* the pump has ended
  excused     \* it was interrupted, or one of its ends is gone

cvars == <<sent, received, ended, excused>>

Init == sent = <<>> /\ received = <<>> /\ ended = FALSE /\ excused \in BOOLEAN

Send ==
  /\ excused \/ ~ended
  /\ \E d \in Data : sent' = Append(sent, d)
  /\ UNCHANGED <<received, ended, excused>>

Deliver ==
  /\ ~ended
  /\ \E n \in Len(received) + 1 .. Len(sent) : received' = SubSeq(sent, 1, n)
  /\ UNCHANGED <<sent, ended, excused>>

End ==
  /\ ~ended /\ (excused \/ received = sent)
  /\ ended' = TRUE
  /\ UNCHANGED <<sent, received, excused>>

Excuse ==
  /\ ~excused /\ excused' = TRUE
  /\ ended' \in {ended, TRUE}                   \* it may end at once
  /\ UNCHANGED <<sent, received>>

Next == Send \/ Deliver \/ End \/ Excuse

Spec == Init /\ [][Next]_cvars
=============================================================================
