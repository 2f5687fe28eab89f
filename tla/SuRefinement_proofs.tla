------------------------ MODULE SuRefinement_proofs -------------------------
(***************************************************************************)
(* SuRequest implements SuDecision: seen from outside, an invocation is    *)
(* asked, decided at most once, and granted only with consent.             *)
(***************************************************************************)
EXTENDS SuRequest_proofs

USE NoneAssumption
USE DEF Answers, Ended, PCs, ids, suVars, uiVars, ansVars, actVars, app

(* The database is asked first, and the user only when it has no answer.   *)
DatabaseFirst ==
  \A s \in Su :
    /\ pc[s] \in {"idle", "database_check"} => dballow[s] = "none"
    /\ pc[s] \in {"socket_create_temp", "signal", "send_request",
                  "socket_accept"} => dballow[s] = "INTERACTIVE"
    /\ fd[s] # None => dballow[s] = "INTERACTIVE"

(* Only su itself changes what su holds.                                   *)
LEMMA OthersLeaveSu ==
  ASSUME [Next]_vars
  PROVE  \/ UNCHANGED suVars
         \/ \E s \in Su : Start(s) \/ SuStep(s) \/ Signal(s) \/ Kill(s)
<1>1. ASSUME NEW a \in Act, UserStep(a)
      PROVE  UNCHANGED suVars
  BY <1>1 DEF UserStep, ClickDeny, ClickAllow, EnterPin, CancelPin,
     ConfigurationChanged, Decide, HandleAction, AssertionFails
<1>2. ASSUME NEW a \in Act, UiStep(a)
      PROVE  UNCHANGED suVars
  BY <1>2 DEF UiStep, OnCreate, RunRequestReady, EnableAllow, AutoRespond,
     RequestTimeout, Watchdog, RunFinish, OnDestroy, DeleteFile, HandleAction
<1>3. ASSUME NEW a \in Act, ThreadStep(a)
      PROVE  UNCHANGED suVars
  BY <1>3 DEF ThreadStep, NewSocket, Connect, ReadRequest
<1>4. CASE \/ LoseIntent \/ KillApp \/ UNCHANGED vars
           \/ \E r \in Uid \X Target : ForgetPolicy(r)
  BY <1>4 DEF LoseIntent, KillApp, ForgetPolicy, vars
<1> QED
  BY <1>1, <1>2, <1>3, <1>4 DEF Next, Terminated

LEMMA DatabaseFirstStep ==
  ASSUME IInv, DatabaseFirst, [Next]_vars
  PROVE  DatabaseFirst'
<1> USE DEF IInv
<1>1. ASSUME NEW s \in Su, Start(s) \/ SuStep(s) \/ Signal(s) \/ Kill(s)
      PROVE  DatabaseFirst'
  <2>1. CASE Start(s)
    BY <2>1, CallAssumption DEF TypeOK, DatabaseFirst, Start, Goto
  <2>2. CASE DatabaseCheck(s)
    <3>1. PICK r \in {"INTERACTIVE"} \cup Answers :
            /\ dballow' = [dballow EXCEPT ![s] = r]
            /\ Goto(s, CASE r = "INTERACTIVE" -> "socket_create_temp"
                         [] r = "ALLOW" -> "allow"
                         [] r = "DENY" -> "deny")
      BY <2>2 DEF DatabaseCheck
    <3>2. PICK l \in {"socket_create_temp", "allow", "deny"} :
            /\ pc' = [pc EXCEPT ![s] = l]
            /\ l = "socket_create_temp" => r = "INTERACTIVE"
      BY <3>1 DEF Goto
    <3>3. fd[s] = None /\ UNCHANGED fd
      BY <2>2 DEF DatabaseCheck, Unaccepted
    <3> QED
      BY <3>1, <3>2, <3>3 DEF TypeOK, DatabaseFirst
  <2>3. CASE SocketCreateTemp(s)
    BY <2>3 DEF TypeOK, DatabaseFirst, SocketCreateTemp, Goto
  <2>4. CASE InstallHandlers(s)
    BY <2>4 DEF TypeOK, DatabaseFirst, InstallHandlers, Goto
  <2>5. CASE SendRequest(s)
    BY <2>5 DEF TypeOK, DatabaseFirst, SendRequest, Goto
  <2>6. CASE SocketAccept(s)
    BY <2>6 DEF TypeOK, DatabaseFirst, SocketAccept, Goto
  <2>7. CASE \/ SocketSendRequest(s) \/ SocketReceiveResult(s)
             \/ CloseSocket(s) \/ Deny(s) \/ Allow(s) \/ Signal(s) \/ Kill(s)
    <3>1. UNCHANGED <<dballow, fd>>
      BY <2>7 DEF SocketSendRequest, SocketReceiveResult, CloseSocket, Deny,
         Allow, Exit, Signal, Kill
    <3>2. PICK l \in Ended \cup {"socket_receive_result", "cleanup_allow",
                                 "cleanup_deny", "allow", "deny"} : Goto(s, l)
      BY <2>7 DEF SocketSendRequest, SocketReceiveResult, CloseSocket, Deny,
         Allow, Exit, Signal, Kill, CleanupSignal
    <3> QED
      BY <3>1, <3>2 DEF TypeOK, DatabaseFirst, Goto
  <2> QED
    BY <1>1, <2>1, <2>2, <2>3, <2>4, <2>5, <2>6, <2>7 DEF SuStep
<1>2. CASE UNCHANGED suVars
  BY <1>2 DEF DatabaseFirst
<1> QED
  BY <1>1, <1>2, OthersLeaveSu

-----------------------------------------------------------------------------
(* The refinement, step by step.                                           *)

(* At most one invocation moves, and the way SuDecision lets it.           *)
LEMMA OneMoves ==
  ASSUME NEW s \in Su,
         \A t \in Su \ {s} : Outcome(t)' = Outcome(t) /\ Consent(t)' = Consent(t),
         \/ UNCHANGED <<Outcome(s), Consent(s)>>
         \/ /\ Outcome(s) = "unasked" /\ Outcome(s)' = "pending"
            /\ UNCHANGED Consent(s)
         \/ /\ Outcome(s) # "unasked" /\ UNCHANGED Outcome(s)
            /\ Consent(s) = "undecided" /\ Consent(s)' \in {"yes", "no"}
         \/ /\ Outcome(s) = "pending" /\ Outcome(s)' = "refused"
            /\ UNCHANGED Consent(s)
         \/ /\ Outcome(s) = "pending" /\ Outcome(s)' = "granted"
            /\ Consent(s) = "yes" /\ UNCHANGED Consent(s)
  PROVE  Decision!Next \/ UNCHANGED Decision!vars
<1> DEFINE o == [t \in Su |-> Outcome(t)]
           c == [t \in Su |-> Consent(t)]
<1>1. o' = [o EXCEPT ![s] = Outcome(s)'] /\ c' = [c EXCEPT ![s] = Consent(s)']
  OBVIOUS
<1>2. /\ Outcome(s)' = Outcome(s) => UNCHANGED o
      /\ Consent(s)' = Consent(s) => UNCHANGED c
  OBVIOUS
<1>3. o[s] = Outcome(s) /\ c[s] = Consent(s)
  OBVIOUS
<1>4. CASE UNCHANGED <<Outcome(s), Consent(s)>>
  BY <1>2, <1>4 DEF Decision!vars
<1>5. CASE /\ Outcome(s) = "unasked" /\ Outcome(s)' = "pending"
           /\ UNCHANGED Consent(s)
  <2>1. Decision!Ask(s)
    BY <1>1, <1>2, <1>3, <1>5 DEF Decision!Ask
  <2> QED
    BY <2>1 DEF Decision!Next
<1>6. CASE /\ Outcome(s) # "unasked" /\ UNCHANGED Outcome(s)
           /\ Consent(s) = "undecided" /\ Consent(s)' \in {"yes", "no"}
  <2>1. Decision!Decide(s)
    BY <1>1, <1>2, <1>3, <1>6 DEF Decision!Decide
  <2> QED
    BY <2>1 DEF Decision!Next
<1>7. CASE /\ Outcome(s) = "pending" /\ Outcome(s)' = "refused"
           /\ UNCHANGED Consent(s)
  <2>1. Decision!Refuse(s)
    BY <1>1, <1>2, <1>3, <1>7 DEF Decision!Refuse
  <2> QED
    BY <2>1 DEF Decision!Next
<1>8. CASE /\ Outcome(s) = "pending" /\ Outcome(s)' = "granted"
           /\ Consent(s) = "yes" /\ UNCHANGED Consent(s)
  <2>1. Decision!Grant(s)
    BY <1>1, <1>2, <1>3, <1>8 DEF Decision!Grant
  <2> QED
    BY <2>1 DEF Decision!Next
<1> QED
  BY <1>4, <1>5, <1>6, <1>7, <1>8

(* A step of su s that leaves what it holds and where it is answered from. *)
LEMMA QuietMove ==
  ASSUME TypeOK, NEW s \in Su, NEW l \in PCs \ {"idle"}, Goto(s, l),
         pc[s] \notin Ended, UNCHANGED <<dballow, fd, decision>>,
         pc[s] = "idle" => l \notin Ended,
         l = "granted" => Consent(s) = "yes"
  PROVE  Decision!Next \/ UNCHANGED Decision!vars
<1>1. pc' = [pc EXCEPT ![s] = l]
  BY DEF Goto
<1>2. \A t \in Su : Consent(t)' = Consent(t)
  BY DEF Consent
<1>3. \A t \in Su \ {s} : Outcome(t)' = Outcome(t)
  BY <1>1 DEF TypeOK, Outcome
<1>4. pc'[s] = l
  BY <1>1 DEF TypeOK
<1>5. Outcome(s) = IF pc[s] = "idle" THEN "unasked" ELSE "pending"
  BY DEF Outcome
<1>6. Outcome(s)' = IF l = "granted" THEN "granted"
                    ELSE IF l \in Ended THEN "refused" ELSE "pending"
  BY <1>4 DEF Outcome
<1> QED
  BY <1>2, <1>3, <1>5, <1>6, OneMoves

(* A step of su s in which its consent may be given or withheld.           *)
LEMMA AskedMove ==
  ASSUME TypeOK, NEW s \in Su, NEW l \in PCs \ (Ended \cup {"idle"}),
         Goto(s, l),
         pc[s] \notin Ended \cup {"idle"},
         \A t \in Su \ {s} : Consent(t)' = Consent(t),
         Consent(s) = "undecided", Consent(s)' \in {"undecided", "yes", "no"}
  PROVE  Decision!Next \/ UNCHANGED Decision!vars
<1>1. pc' = [pc EXCEPT ![s] = l]
  BY DEF Goto
<1>2. \A t \in Su \ {s} : Outcome(t)' = Outcome(t)
  BY <1>1 DEF TypeOK, Outcome
<1>3. Outcome(s) = "pending" /\ Outcome(s)' = "pending"
  BY <1>1 DEF TypeOK, Outcome
<1> QED
  BY <1>2, <1>3, OneMoves

LEMMA SuMoves ==
  ASSUME IInv, DatabaseFirst, NEW s \in Su,
         Start(s) \/ SuStep(s) \/ Signal(s) \/ Kill(s)
  PROVE  Decision!Next \/ UNCHANGED Decision!vars
<1> USE DEF IInv
<1>1. CASE Start(s)
  <2>1. PICK l \in {"database_check", "deny"} : Goto(s, l)
    BY <1>1 DEF Start
  <2> QED
    BY <1>1, <2>1, QuietMove DEF Start
<1>2. CASE DatabaseCheck(s)
  <2>1. PICK r \in {"INTERACTIVE"} \cup Answers :
          /\ dballow' = [dballow EXCEPT ![s] = r]
          /\ Goto(s, CASE r = "INTERACTIVE" -> "socket_create_temp"
                       [] r = "ALLOW" -> "allow"
                       [] r = "DENY" -> "deny")
    BY <1>2 DEF DatabaseCheck
  <2>2. PICK l \in {"socket_create_temp", "allow", "deny"} : Goto(s, l)
    BY <2>1
  <2>3. /\ pc[s] = "database_check" /\ fd[s] = None
        /\ UNCHANGED <<fd, decision>>
    BY <1>2 DEF DatabaseCheck, Unaccepted
  <2>4. Consent(s) = "undecided"
    BY <2>3 DEF DatabaseFirst, Consent, Verdict
  <2>5. dballow'[s] = r /\ \A t \in Su \ {s} : dballow'[t] = dballow[t]
    BY <2>1 DEF TypeOK
  <2>6. Consent(s)' \in {"undecided", "yes", "no"}
    BY <2>3, <2>5 DEF Consent, Verdict
  <2>7. \A t \in Su \ {s} : Consent(t)' = Consent(t)
    BY <2>3, <2>5 DEF Consent
  <2> QED
    BY <2>2, <2>3, <2>4, <2>6, <2>7, AskedMove
<1>3. CASE SocketAccept(s)
  <2>1. CASE Goto(s, "deny") /\ UNCHANGED fd
    BY <1>3, <2>1, QuietMove DEF SocketAccept
  <2>2. CASE \E a \in Backlog(s) : /\ fd' = [fd EXCEPT ![s] = a]
                                   /\ Goto(s, "socket_send_request")
    <3>1. PICK a \in Act : /\ fd' = [fd EXCEPT ![s] = a]
                           /\ Goto(s, "socket_send_request")
      BY <2>2 DEF Backlog
    <3>2. /\ pc[s] = "socket_accept" /\ fd[s] = None
          /\ UNCHANGED <<dballow, decision>>
      BY <1>3 DEF SocketAccept, Unaccepted
    <3>3. Consent(s) = "undecided"
      BY <3>2 DEF DatabaseFirst, Consent, Verdict
    <3>4. fd'[s] = a /\ \A t \in Su \ {s} : fd'[t] = fd[t]
      BY <3>1 DEF TypeOK
    <3>5. Consent(s)' \in {"undecided", "yes", "no"}
      BY <3>2, <3>4 DEF Consent, Verdict
    <3>6. \A t \in Su \ {s} : Consent(t)' = Consent(t)
      BY <3>2, <3>4 DEF Consent
    <3> QED
      BY <3>1, <3>2, <3>3, <3>5, <3>6, AskedMove
  <2> QED
    BY <1>3, <2>1, <2>2 DEF SocketAccept
<1>4. CASE Allow(s)
  <2>1. PICK l \in {"failed", "granted"} : Goto(s, l)
    BY <1>4 DEF Allow, Exit
  <2>2. pc[s] = "allow" /\ UNCHANGED <<dballow, fd, decision>>
    BY <1>4 DEF Allow, Exit
  <2>3. Consent(s) = "yes"
    BY <2>2 DEF GrantedByConsent, DatabaseFirst, Consent, Verdict
  <2> QED
    BY <2>1, <2>2, <2>3, QuietMove
<1>5. CASE \/ SocketCreateTemp(s) \/ InstallHandlers(s) \/ SendRequest(s)
           \/ SocketSendRequest(s) \/ SocketReceiveResult(s)
           \/ CloseSocket(s) \/ Deny(s) \/ Signal(s) \/ Kill(s)
  <2>1. pc[s] \notin Ended \cup {"idle"} /\ UNCHANGED <<dballow, fd, decision>>
    BY <1>5 DEF SocketCreateTemp, InstallHandlers, SendRequest,
       SocketSendRequest, SocketReceiveResult, CloseSocket, Deny, Exit, Signal,
       Kill, Live
  <2>2. PICK l \in PCs \ {"idle", "granted"} : Goto(s, l)
    BY <1>5 DEF SocketCreateTemp, InstallHandlers, SendRequest,
       SocketSendRequest, SocketReceiveResult, CloseSocket, Deny, Exit, Signal,
       Kill, CleanupSignal
  <2> QED
    BY <2>1, <2>2, QuietMove
<1> QED
  BY <1>1, <1>2, <1>3, <1>4, <1>5 DEF SuStep

(* A decision is the consent of the one su that listens to the activity.   *)
LEMMA DecisionMoves ==
  ASSUME IInv, NEW a \in Act, NEW d \in Answers, NEW remember \in BOOLEAN,
         HandleAction(a, d, remember)
  PROVE  Decision!Next \/ UNCHANGED Decision!vars
<1> USE DEF IInv
<1>1. /\ decision[a] = "none" /\ decision' = [decision EXCEPT ![a] = d]
      /\ UNCHANGED <<pc, dballow, fd>>
  BY DEF HandleAction
<1>2. decision'[a] = d /\ \A b \in Act \ {a} : decision'[b] = decision[b]
  BY <1>1 DEF TypeOK
<1>3. \A t \in Su : Outcome(t)' = Outcome(t)
  BY <1>1 DEF Outcome
<1>4. CASE \E s \in Su : fd[s] = a
  <2>1. PICK s \in Su : fd[s] = a
    BY <1>4
  <2>2. \A t \in Su \ {s} : fd[t] # a
    BY <2>1 DEF Accepted
  <2>3. \A t \in Su \ {s} : Consent(t)' = Consent(t)
    BY <1>1, <1>2, <2>2 DEF TypeOK, Consent
  <2>4. Consent(s) = "undecided" /\ Consent(s)' \in {"yes", "no"}
    BY <1>1, <1>2, <2>1 DEF Consent, Verdict
  <2>5. Outcome(s) # "unasked"
    BY <2>1 DEF Unaccepted, Outcome
  <2> QED
    BY <1>3, <2>3, <2>4, <2>5, OneMoves
<1>5. CASE \A t \in Su : fd[t] # a
  <2>1. \A t \in Su : Consent(t)' = Consent(t)
    BY <1>1, <1>2, <1>5 DEF TypeOK, Consent
  <2> QED
    BY <1>3, <2>1 DEF Decision!vars
<1> QED
  BY <1>4, <1>5

(* Every other step of the app is invisible.                               *)
LEMMA HiddenMoves ==
  ASSUME UNCHANGED <<suVars, ansVars>>
  PROVE  UNCHANGED Decision!vars
BY DEF Decision!vars, Outcome, Consent

(* What su processes, activities, sockets and intents do is, seen from     *)
(* outside, what SuDecision allows: asked, decided at most once, granted   *)
(* with consent only.                                                      *)
THEOREM RefinementTheorem == Spec => ImplementsDecision
<1>1. Init => DatabaseFirst
  <2> SUFFICES ASSUME Init, NEW s \in Su
               PROVE  pc[s] = "idle" /\ dballow[s] = "none" /\ fd[s] = None
    BY DEF DatabaseFirst
  <2> QED
    BY DEF Init
<1>2. IInv /\ DatabaseFirst /\ [Next]_vars => DatabaseFirst'
  BY DatabaseFirstStep
<1>3. Init => Decision!Init
  BY DEF Init, Decision!Init, Outcome, Consent, Verdict
<1>4. IInv /\ DatabaseFirst /\ [Next]_vars => [Decision!Next]_(Decision!vars)
  <2> SUFFICES ASSUME IInv, DatabaseFirst, [Next]_vars
               PROVE  Decision!Next \/ UNCHANGED Decision!vars
    OBVIOUS
  <2>1. CASE \E s \in Su : Start(s) \/ SuStep(s) \/ Signal(s) \/ Kill(s)
    BY <2>1, SuMoves
  <2>2. CASE UNCHANGED suVars
    BY <2>2, DecisionStep, DecisionMoves, HiddenMoves DEF IInv
  <2> QED
    BY <2>1, <2>2, OthersLeaveSu
<1> QED
  BY <1>1, <1>2, <1>3, <1>4, Invariance, PTL
     DEF Spec, ImplementsDecision, Decision!Spec
=============================================================================
