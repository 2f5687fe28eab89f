----------------------------- MODULE SuDecision -----------------------------
(***************************************************************************)
(* What one invocation of su promises, whatever processes and messages it  *)
(* takes: a request is put, consent to it is given or withheld at most     *)
(* once, and the request is granted only with consent.  It may be refused  *)
(* at any time (a signal, a timeout, a lost dialog).                       *)
(***************************************************************************)
CONSTANT Su             \* the invocations of su

VARIABLES outcome,      \* outcome[s]: how far the request of s has got
          consent       \* consent[s]: what was decided about it

vars == <<outcome, consent>>

Outcomes == {"unasked", "pending", "granted", "refused"}
Consents == {"undecided", "yes", "no"}

TypeOK == /\ outcome \in [Su -> Outcomes]
          /\ consent \in [Su -> Consents]

Init == /\ outcome = [s \in Su |-> "unasked"]
        /\ consent = [s \in Su |-> "undecided"]

Ask(s) == /\ outcome[s] = "unasked"
          /\ outcome' = [outcome EXCEPT ![s] = "pending"]
          /\ UNCHANGED consent

(* The policy database or the user decides, once.  The decision may be     *)
(* made after the process that asked is gone.                              *)
Decide(s) == /\ outcome[s] # "unasked"
             /\ consent[s] = "undecided"
             /\ \E c \in {"yes", "no"} : consent' = [consent EXCEPT ![s] = c]
             /\ UNCHANGED outcome

Grant(s) == /\ outcome[s] = "pending"
            /\ consent[s] = "yes"
            /\ outcome' = [outcome EXCEPT ![s] = "granted"]
            /\ UNCHANGED consent

Refuse(s) == /\ outcome[s] = "pending"
             /\ outcome' = [outcome EXCEPT ![s] = "refused"]
             /\ UNCHANGED consent

Next == \E s \in Su : Ask(s) \/ Decide(s) \/ Grant(s) \/ Refuse(s)

Spec == Init /\ [][Next]_vars
=============================================================================
