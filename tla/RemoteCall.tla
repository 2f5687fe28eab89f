----------------------------- MODULE RemoteCall -----------------------------
(***************************************************************************)
(* What the daemon promises of an invocation, whatever processes the       *)
(* request and the status pass through: it is as if the caller had run the *)
(* command itself.  What he asked for is run at most once, in his name,    *)
(* and he is answered once: with the status of the command, with a failure,*)
(* or with anything if a signal has cut the chain.  A failure does not     *)
(* tell that nothing has been run, nor that nothing will be.               *)
(***************************************************************************)
EXTENDS Integers

CONSTANTS Callers, asked,      \* asked[c]: who asks, and for what
          Codes, Failures,     \* the statuses of a command, and of a failure
          None, Running, Killed

VARIABLES
  ran,        \* ran[c]: what has been run for c
  status,     \* status[c]: how far that is
  answer,     \* answer[c]: the status the caller sees
  cut         \* cut[c]: a signal has ended a process of the chain

cvars == <<ran, status, answer, cut>>

Init ==
  /\ ran = [c \in Callers |-> {}]
  /\ status = [c \in Callers |-> None]
  /\ answer = [c \in Callers |-> None]
  /\ cut = [c \in Callers |-> FALSE]

Run(c) ==
  /\ status[c] = None
  /\ ran' = [ran EXCEPT ![c] = @ \cup {asked[c]}]
  /\ status' = [status EXCEPT ![c] = Running]
  /\ UNCHANGED <<answer, cut>>

Finish(c) ==
  /\ status[c] = Running
  /\ \E n \in Codes : status' = [status EXCEPT ![c] = n]
  /\ UNCHANGED <<ran, answer, cut>>

Answer(c) ==
  /\ answer[c] = None
  /\ \E n \in 0..255 :
       /\ n \in Failures \/ cut[c] \/ n = status[c]
       /\ answer' = [answer EXCEPT ![c] = n]
  /\ UNCHANGED <<ran, status, cut>>

(* A signal ends the command, the caller, or a process between them.       *)
Cut(c) ==
  /\ cut' = [cut EXCEPT ![c] = TRUE]
  /\ \/ /\ status[c] = Running
        /\ status' = [status EXCEPT ![c] = Killed]
        /\ answer' = answer
     \/ /\ answer[c] = None
        /\ \E n \in 0..255 : answer' = [answer EXCEPT ![c] = n]
        /\ status' = status
     \/ UNCHANGED <<status, answer>>
  /\ ran' = ran

Next == \E c \in Callers : Run(c) \/ Finish(c) \/ Answer(c) \/ Cut(c)

Spec == Init /\ [][Next]_cvars
=============================================================================
