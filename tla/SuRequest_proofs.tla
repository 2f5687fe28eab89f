-------------------------- MODULE SuRequest_proofs --------------------------
(***************************************************************************)
(* Type correctness of SuRequest, and the inductive invariant from which   *)
(* its safety properties follow, for any number of su processes,           *)
(* activities, pids, uids and targets.                                     *)
(***************************************************************************)
EXTENDS SuRequest, TLAPS

(* The links that make an answer belong to a request.  The socket thread   *)
(* connects once; su accepts one connection, of an activity that connected *)
(* to it; whatever an activity has read came over that connection; and     *)
(* nothing can allow before it is shown.                                   *)
Connected ==
  \A a \in Act : /\ thread[a] \in {"none", "new", "connect"} =>
                      peer[a] = None /\ caller[a] = None
                 /\ thread[a] = "read" => peer[a] # None

Unaccepted ==
  \A s \in Su : pc[s] \in {"idle", "database_check", "socket_create_temp",
                           "signal", "send_request", "socket_accept"}
                  => fd[s] = None

Accepted ==
  \A s \in Su : /\ fd[s] # None => peer[fd[s]] = s
                /\ pc[s] \in {"socket_send_request", "socket_receive_result"}
                     => fd[s] # None

ShownWasRead ==
  \A a \in Act : /\ thread[a] = "ready" \/ shown[a] => caller[a] # None
                 /\ ui[a] \in {"both", "pin"} => shown[a]
                 /\ posted[a] # "none" => shown[a]
                 /\ decision[a] = "ALLOW" => shown[a]

(* A process that has started, and an activity that was created, know      *)
(* whose request they are about.                                           *)
Named ==
  /\ \A s \in Su : pc[s] # "idle" => /\ pid[s] \in Pid
                                     /\ uid[s] \in Uid
                                     /\ desired[s] \in Target
  /\ \A a \in Act : /\ phase[a] # "none" => path[a] \in Pid
                    /\ thread[a] # "none" => phase[a] # "none"

IInv == /\ TypeOK
        /\ Named
        /\ Connected
        /\ Unaccepted
        /\ Accepted
        /\ ShownWasRead
        /\ OneReader
        /\ GrantedByConsent
        /\ PolicyWasDecided

-----------------------------------------------------------------------------
(* Type correctness.                                                       *)

USE DEF Answers, Ended, PCs, ids, suVars, uiVars, ansVars, actVars, app

LEMMA TypeInit == Init => TypeOK
BY DEF Init, TypeOK

LEMMA CleanupTypes ==
  ASSUME TypeOK, NEW s \in Su,
         SocketCleanup(s) \/ UNCHANGED <<sockPath, file>>
  PROVE  sockPath' \in [Su -> BOOLEAN] /\ file' \in [Pid -> Su \cup {None}]
<1>1. CASE SocketCleanup(s) /\ sockPath[s]
  BY <1>1 DEF TypeOK, SocketCleanup
<1>2. CASE SocketCleanup(s) /\ ~sockPath[s]
  BY <1>2 DEF TypeOK, SocketCleanup
<1>3. CASE UNCHANGED <<sockPath, file>>
  BY <1>3 DEF TypeOK
<1> QED
  BY <1>1, <1>2, <1>3

LEMMA TypeSu == ASSUME TypeOK, Named, NEW s \in Su,
                       Start(s) \/ SuStep(s) \/ Signal(s) \/ Kill(s)
                PROVE  TypeOK'
<1>1. CASE Start(s)
  BY <1>1, CallAssumption DEF TypeOK, Start, Goto
<1>2. CASE DatabaseCheck(s)
  BY <1>2 DEF TypeOK, DatabaseCheck, Goto
<1>3. CASE SocketCreateTemp(s)
  <2>1. file' \in [Pid -> Su \cup {None}]
    BY <1>3 DEF TypeOK, SocketCreateTemp
  <2>2. sockPath' \in [Su -> BOOLEAN] /\ serv' \in [Su -> BOOLEAN]
    <3>1. CASE UNCHANGED <<serv, sockPath>>
      BY <3>1 DEF TypeOK
    <3>2. CASE sockPath' = [sockPath EXCEPT ![s] = TRUE] /\ UNCHANGED serv
      BY <3>2 DEF TypeOK
    <3>3. CASE /\ sockPath' = [sockPath EXCEPT ![s] = TRUE]
               /\ serv' = [serv EXCEPT ![s] = TRUE]
      BY <3>3 DEF TypeOK
    <3> QED
      BY <1>3, <3>1, <3>2, <3>3 DEF SocketCreateTemp
  <2>3. pc' \in [Su -> PCs]
    <3>1. Goto(s, "signal") \/ Goto(s, "deny")
      BY <1>3 DEF SocketCreateTemp
    <3> QED
      BY <3>1 DEF TypeOK, Goto
  <2>4. UNCHANGED <<ids, dballow, hooks, fd, sent, intents, app>>
    BY <1>3 DEF SocketCreateTemp
  <2> QED
    BY <2>1, <2>2, <2>3, <2>4 DEF TypeOK
<1>4. CASE InstallHandlers(s)
  BY <1>4 DEF TypeOK, InstallHandlers, Goto
<1>5. CASE SendRequest(s)
  <2>1. pid[s] \in Pid
    BY <1>5 DEF Named, SendRequest
  <2>2. intents' \subseteq Pid
    BY <1>5, <2>1 DEF TypeOK, SendRequest
  <2>3. hooks' \in [Su -> SUBSET {"signal", "atexit"}]
    BY <1>5 DEF TypeOK, SendRequest
  <2>4. pc' \in [Su -> PCs]
    BY <1>5 DEF TypeOK, SendRequest, Goto
  <2> QED
    BY <1>5, <2>2, <2>3, <2>4 DEF TypeOK, SendRequest
<1>6. CASE SocketAccept(s)
  BY <1>6 DEF TypeOK, SocketAccept, Backlog, Goto
<1>7. CASE SocketSendRequest(s)
  <2>1. SocketCleanup(s) \/ UNCHANGED <<sockPath, file>>
    BY <1>7 DEF SocketSendRequest, CleanupSignal
  <2>2. sockPath' \in [Su -> BOOLEAN] /\ file' \in [Pid -> Su \cup {None}]
    BY <2>1, CleanupTypes
  <2>3. pc' \in [Su -> PCs]
    <3>1. Goto(s, "socket_receive_result") \/ Goto(s, "signalled")
      BY <1>7 DEF SocketSendRequest, CleanupSignal
    <3> QED
      BY <3>1 DEF TypeOK, Goto
  <2>4. CASE sent' = [sent EXCEPT ![s] = TRUE] /\ UNCHANGED serv
    <3>1. sent' \in [Su -> BOOLEAN] /\ serv' \in [Su -> BOOLEAN]
      BY <2>4 DEF TypeOK
    <3>2. UNCHANGED <<ids, dballow, hooks, fd, intents, app>>
      BY <1>7 DEF SocketSendRequest
    <3> QED
      BY <2>2, <2>3, <3>1, <3>2 DEF TypeOK
  <2>5. CASE serv' = [serv EXCEPT ![s] = FALSE] /\ UNCHANGED sent
    <3>1. sent' \in [Su -> BOOLEAN] /\ serv' \in [Su -> BOOLEAN]
      BY <2>5 DEF TypeOK
    <3>2. UNCHANGED <<ids, dballow, hooks, fd, intents, app>>
      BY <1>7 DEF SocketSendRequest
    <3> QED
      BY <2>2, <2>3, <3>1, <3>2 DEF TypeOK
  <2> QED
    BY <1>7, <2>4, <2>5 DEF SocketSendRequest, CleanupSignal
<1>8. CASE SocketReceiveResult(s)
  BY <1>8 DEF TypeOK, SocketReceiveResult, Goto
<1>9. CASE CloseSocket(s)
  <2>1. SocketCleanup(s) \/ UNCHANGED <<sockPath, file>>
    BY <1>9 DEF CloseSocket
  <2>2. sockPath' \in [Su -> BOOLEAN] /\ file' \in [Pid -> Su \cup {None}]
    BY <2>1, CleanupTypes
  <2> QED
    BY <1>9, <2>2 DEF TypeOK, CloseSocket, Goto
<1>10. CASE Deny(s)
  <2>1. SocketCleanup(s) \/ UNCHANGED <<sockPath, file>>
    BY <1>10 DEF Deny, Exit
  <2>2. sockPath' \in [Su -> BOOLEAN] /\ file' \in [Pid -> Su \cup {None}]
    BY <2>1, CleanupTypes
  <2> QED
    BY <1>10, <2>2 DEF TypeOK, Deny, Exit, Goto
<1>11. CASE Allow(s)
  <2>1. SocketCleanup(s) \/ UNCHANGED <<sockPath, file>>
    BY <1>11 DEF Allow, Exit
  <2>2. sockPath' \in [Su -> BOOLEAN] /\ file' \in [Pid -> Su \cup {None}]
    BY <2>1, CleanupTypes
  <2>3. pc' \in [Su -> PCs]
    BY <1>11 DEF TypeOK, Allow, Exit, Goto
  <2>4. serv' \in [Su -> BOOLEAN]
    <3>1. serv' = [serv EXCEPT ![s] = FALSE]
      BY <1>11 DEF Allow, Exit
    <3> QED
      BY <3>1 DEF TypeOK
  <2>5. UNCHANGED <<ids, dballow, hooks, fd, sent, intents, app>>
    BY <1>11 DEF Allow, Exit
  <2> QED
    BY <2>2, <2>3, <2>4, <2>5 DEF TypeOK
<1>12. CASE Signal(s)
  <2>1. SocketCleanup(s) \/ UNCHANGED <<sockPath, file>>
    BY <1>12 DEF Signal, CleanupSignal
  <2>2. sockPath' \in [Su -> BOOLEAN] /\ file' \in [Pid -> Su \cup {None}]
    BY <2>1, CleanupTypes
  <2> QED
    BY <1>12, <2>2 DEF TypeOK, Signal, CleanupSignal, Goto
<1>13. CASE Kill(s)
  BY <1>13 DEF TypeOK, Kill, Goto
<1> QED
  BY <1>1, <1>2, <1>3, <1>4, <1>5, <1>6, <1>7, <1>8, <1>9, <1>10, <1>11,
     <1>12, <1>13 DEF SuStep

LEMMA AppDiesTypes ==
  ASSUME TypeOK, Named, AppDies
  PROVE  /\ intents' \subseteq Pid
         /\ phase' \in [Act -> {"none", "open", "finishing", "destroying",
                                "gone"}]
         /\ thread' \in [Act -> {"none", "new", "connect", "read", "ready",
                                 "failed", "done"}]
         /\ sock' \in [Act -> {"null", "open", "closed"}]
         /\ ui' \in [Act -> {"none", "deny", "both", "pin"}]
         /\ posted' \in [Act -> {"none"} \cup Answers]
<1>1. \A a \in Act : phase[a] = "open" => path[a] \in Pid
  BY DEF Named
<1>2. intents' \subseteq Pid
  BY <1>1 DEF TypeOK, AppDies
<1> QED
  BY <1>2 DEF TypeOK, AppDies

(* The variables a decision changes, whichever callback takes it.          *)
LEMMA HandleActionTypes ==
  ASSUME TypeOK, NEW a \in Act, NEW d \in Answers, NEW remember \in BOOLEAN,
         HandleAction(a, d, remember)
  PROVE  /\ decision' \in [Act -> {"none"} \cup Answers]
         /\ wrote' \in [Act -> BOOLEAN]
         /\ policy' \in [Uid \X Target -> {"none"} \cup Answers]
<1>1. decision' \in [Act -> {"none"} \cup Answers]
  BY DEF TypeOK, HandleAction
<1>2. wrote' \in [Act -> BOOLEAN]
  BY DEF TypeOK, HandleAction
<1>3. policy' \in [Uid \X Target -> {"none"} \cup Answers]
  <2>1. CASE remember
    <3> DEFINE r == <<uid[caller[a]], desired[caller[a]]>>
    <3>1. policy' = [policy EXCEPT ![r] = d]
      BY <2>1 DEF HandleAction, SetPolicy
    <3>2. policy \in [Uid \X Target -> {"none"} \cup Answers]
      BY DEF TypeOK
    <3> HIDE DEF r
    <3> QED
      BY <3>1, <3>2
  <2>2. CASE ~remember
    BY <2>2 DEF TypeOK, HandleAction
  <2> QED
    BY <2>1, <2>2
<1> QED
  BY <1>1, <1>2, <1>3

LEMMA DecideTypes ==
  ASSUME TypeOK, Named, NEW a \in Act, NEW d \in Answers,
         NEW remember \in BOOLEAN, NEW b \in {"none", "pin"},
         Decide(a, d, remember, b)
  PROVE  TypeOK'
<1>1. CASE AssertionFails(a)
  BY <1>1, AppDiesTypes DEF TypeOK, AssertionFails
<1>2. CASE ~AssertionFails(a)
  <2>1. HandleAction(a, d, remember)
    BY <1>2 DEF Decide
  <2>2. phase' \in [Act -> {"none", "open", "finishing", "destroying",
                            "gone"}]
    BY <1>2 DEF TypeOK, Decide, Finish
  <2>3. ui' \in [Act -> {"none", "deny", "both", "pin"}]
    BY <1>2 DEF TypeOK, Decide
  <2>4. UNCHANGED <<suVars, file, settings, path, thread, peer, caller, shown,
                    intents, sock, posted>>
    BY <1>2, <2>1 DEF Decide, HandleAction
  <2>5. /\ decision' \in [Act -> {"none"} \cup Answers]
        /\ wrote' \in [Act -> BOOLEAN]
        /\ policy' \in [Uid \X Target -> {"none"} \cup Answers]
    BY <2>1, HandleActionTypes
  <2> QED
    BY <2>2, <2>3, <2>4, <2>5 DEF TypeOK
<1> QED
  BY <1>1, <1>2

LEMMA RequestReadyType ==
  ASSUME TypeOK, NEW a \in Act, RequestReady(a) \/ UNCHANGED posted
  PROVE  posted' \in [Act -> {"none"} \cup Answers]
<1>1. \A u : Response(u) \in {"prompt"} \cup Answers
  BY SettingsAssumption DEF TypeOK, Response
<1>2. CASE RequestReady(a)
  BY <1>1, <1>2 DEF TypeOK, RequestReady
<1>3. CASE UNCHANGED posted
  BY <1>3 DEF TypeOK
<1> QED
  BY <1>2, <1>3

LEMMA TypeUser == ASSUME TypeOK, Named, NEW a \in Act, UserStep(a)
                  PROVE  TypeOK'
<1>1. CASE ClickDeny(a)
  BY <1>1, DecideTypes DEF ClickDeny, Remember
<1>2. CASE ClickAllow(a)
  <2>1. CASE settings.pin
    BY <1>2, <2>1 DEF TypeOK, ClickAllow
  <2>2. CASE ~settings.pin
    BY <1>2, <2>2, DecideTypes DEF ClickAllow, Remember
  <2> QED
    BY <2>1, <2>2
<1>3. CASE EnterPin(a)
  BY <1>3, DecideTypes DEF EnterPin
<1>4. CASE CancelPin(a)
  BY <1>4, DecideTypes DEF CancelPin, Remember
<1>5. CASE ConfigurationChanged(a)
  <2>1. RequestReady(a) \/ UNCHANGED posted
    BY <1>5 DEF ConfigurationChanged
  <2>2. posted' \in [Act -> {"none"} \cup Answers]
    BY <2>1, RequestReadyType
  <2> QED
    BY <1>5, <2>2 DEF TypeOK, ConfigurationChanged
<1> QED
  BY <1>1, <1>2, <1>3, <1>4, <1>5 DEF UserStep

LEMMA TypeUi == ASSUME TypeOK, Named, NEW a \in Act, UiStep(a)
                PROVE  TypeOK'
<1>1. CASE OnCreate(a)
  BY <1>1 DEF TypeOK, OnCreate
<1>2. CASE RunRequestReady(a)
  <2>1. posted' \in [Act -> {"none"} \cup Answers]
    BY <1>2, RequestReadyType DEF RunRequestReady
  <2> QED
    BY <1>2, <2>1 DEF TypeOK, RunRequestReady
<1>3. CASE EnableAllow(a)
  BY <1>3 DEF TypeOK, EnableAllow
<1>4. CASE AutoRespond(a)
  <2>1. posted' \in [Act -> {"none"} \cup Answers]
    BY <1>4 DEF TypeOK, AutoRespond
  <2>2. CASE decision[a] = "none"
    <3>1. HandleAction(a, posted[a], TRUE) /\ Finish(a)
      BY <1>4, <2>2 DEF AutoRespond
    <3>2. posted[a] \in Answers
      BY <1>4 DEF TypeOK, AutoRespond
    <3>3. /\ decision' \in [Act -> {"none"} \cup Answers]
          /\ wrote' \in [Act -> BOOLEAN]
          /\ policy' \in [Uid \X Target -> {"none"} \cup Answers]
      BY <3>1, <3>2, HandleActionTypes
    <3>4. phase' \in [Act -> {"none", "open", "finishing", "destroying",
                              "gone"}]
      BY <3>1 DEF TypeOK, Finish
    <3> QED
      BY <1>4, <2>1, <3>1, <3>3, <3>4 DEF TypeOK, AutoRespond, HandleAction
  <2>3. CASE decision[a] # "none"
    BY <1>4, <2>1, <2>3 DEF TypeOK, AutoRespond
  <2> QED
    BY <2>2, <2>3
<1>5. CASE RequestTimeout(a)
  <2>1. HandleAction(a, "DENY", FALSE) /\ Finish(a)
    BY <1>5 DEF RequestTimeout
  <2>2. /\ decision' \in [Act -> {"none"} \cup Answers]
        /\ wrote' \in [Act -> BOOLEAN]
        /\ policy' \in [Uid \X Target -> {"none"} \cup Answers]
    BY <2>1, HandleActionTypes
  <2>3. phase' \in [Act -> {"none", "open", "finishing", "destroying",
                            "gone"}]
    BY <2>1 DEF TypeOK, Finish
  <2> QED
    BY <1>5, <2>1, <2>2, <2>3 DEF TypeOK, RequestTimeout, HandleAction
<1>6. CASE Watchdog(a)
  BY <1>6 DEF TypeOK, Watchdog, Finish
<1>7. CASE RunFinish(a)
  BY <1>7 DEF TypeOK, RunFinish, Finish
<1>8. CASE OnDestroy(a)
  <2>1. sock' \in [Act -> {"null", "open", "closed"}]
    BY <1>8 DEF TypeOK, OnDestroy
  <2>2. phase' \in [Act -> {"none", "open", "finishing", "destroying",
                            "gone"}]
    BY <1>8 DEF TypeOK, OnDestroy
  <2>3. CASE decision[a] = "none"
    <3>1. HandleAction(a, "DENY", FALSE)
      BY <1>8, <2>3 DEF OnDestroy
    <3>2. /\ decision' \in [Act -> {"none"} \cup Answers]
          /\ wrote' \in [Act -> BOOLEAN]
          /\ policy' \in [Uid \X Target -> {"none"} \cup Answers]
      BY <3>1, HandleActionTypes
    <3> QED
      BY <1>8, <2>1, <2>2, <3>1, <3>2 DEF TypeOK, OnDestroy, HandleAction
  <2>4. CASE decision[a] # "none"
    BY <1>8, <2>1, <2>2, <2>4 DEF TypeOK, OnDestroy
  <2> QED
    BY <2>3, <2>4
<1>9. CASE DeleteFile(a)
  BY <1>9 DEF TypeOK, DeleteFile
<1> QED
  BY <1>1, <1>2, <1>3, <1>4, <1>5, <1>6, <1>7, <1>8, <1>9 DEF UiStep

LEMMA TypeThread == ASSUME TypeOK, Named, NEW a \in Act, ThreadStep(a)
                    PROVE  TypeOK'
<1>1. CASE NewSocket(a)
  BY <1>1 DEF TypeOK, NewSocket
<1>2. CASE Connect(a)
  <2>1. CASE ThreadFails(a)
    BY <1>2, <2>1 DEF TypeOK, Connect, ThreadFails
  <2>2. CASE ~ThreadFails(a)
    <3>1. path[a] \in Pid /\ file[path[a]] \in Su
      BY <1>2, <2>2 DEF TypeOK, Named, Connect
    <3>2. /\ peer' = [peer EXCEPT ![a] = file[path[a]]]
          /\ thread' = [thread EXCEPT ![a] = "read"]
          /\ UNCHANGED <<sock, caller>>
      BY <1>2, <2>2 DEF Connect
    <3>3. UNCHANGED <<suVars, file, intents, policy, settings, path, phase,
                      uiVars, ansVars>>
      BY <1>2 DEF Connect
    <3>4. /\ peer' \in [Act -> Su \cup {None}]
          /\ thread' \in [Act -> {"none", "new", "connect", "read", "ready",
                                  "failed", "done"}]
      BY <3>1, <3>2 DEF TypeOK
    <3> QED
      BY <3>2, <3>3, <3>4 DEF TypeOK
  <2> QED
    BY <2>1, <2>2
<1>3. CASE ReadRequest(a)
  <2>1. CASE ThreadFails(a)
    BY <1>3, <2>1 DEF TypeOK, ReadRequest, ThreadFails
  <2>2. CASE ~ThreadFails(a)
    <3>1. /\ caller' = [caller EXCEPT ![a] = peer[a]]
          /\ thread' = [thread EXCEPT ![a] = "ready"]
          /\ UNCHANGED <<sock, peer>>
      BY <1>3, <2>2 DEF ReadRequest
    <3>2. UNCHANGED <<suVars, file, intents, policy, settings, path, phase,
                      uiVars, ansVars>>
      BY <1>3 DEF ReadRequest
    <3>3. /\ caller' \in [Act -> Su \cup {None}]
          /\ thread' \in [Act -> {"none", "new", "connect", "read", "ready",
                                  "failed", "done"}]
      BY <3>1 DEF TypeOK
    <3> QED
      BY <3>1, <3>2, <3>3 DEF TypeOK
  <2> QED
    BY <2>1, <2>2
<1> QED
  BY <1>1, <1>2, <1>3 DEF ThreadStep

LEMMA TypeNext == TypeOK /\ Named /\ [Next]_vars => TypeOK'
<1> SUFFICES ASSUME TypeOK, Named, [Next]_vars
             PROVE  TypeOK'
  OBVIOUS
<1>1. CASE \E s \in Su : Start(s) \/ SuStep(s) \/ Signal(s) \/ Kill(s)
  BY <1>1, TypeSu
<1>2. CASE \E a \in Act : UserStep(a) \/ UiStep(a) \/ ThreadStep(a)
  BY <1>2, TypeUser, TypeUi, TypeThread
<1>3. CASE LoseIntent
  BY <1>3 DEF TypeOK, LoseIntent
<1>4. CASE KillApp
  BY <1>4, AppDiesTypes DEF TypeOK, KillApp
<1>5. CASE \E r \in Uid \X Target : ForgetPolicy(r)
  BY <1>5 DEF TypeOK, ForgetPolicy
<1>6. CASE UNCHANGED vars
  BY <1>6 DEF TypeOK, vars
<1> QED
  BY <1>1, <1>2, <1>3, <1>4, <1>5, <1>6 DEF Next, Terminated

-----------------------------------------------------------------------------
(* The inductive invariant, action by action: first what su does.          *)

Rest == /\ Named
        /\ Connected
        /\ Unaccepted
        /\ Accepted
        /\ ShownWasRead
        /\ OneReader
        /\ GrantedByConsent
        /\ PolicyWasDecided

USE NoneAssumption DEF Rest

LEMMA RestInit == Init => Rest
BY DEF Init, Named, Connected, Unaccepted, Accepted, ShownWasRead,
       OneReader, GrantedByConsent, PolicyWasDecided

(* A step of su that neither starts it nor consults or accepts anybody.    *)
LEMMA RestQuiet ==
  ASSUME TypeOK, Rest, NEW s \in Su, NEW l \in PCs, pc[s] # "idle", Goto(s, l),
         UNCHANGED <<ids, dballow, fd, app>>,
         l \in {"cleanup_allow", "allow", "granted"} =>
           \/ dballow[s] = "ALLOW"
           \/ /\ fd[s] # None
              /\ caller[fd[s]] = s
              /\ shown[fd[s]]
              /\ decision[fd[s]] = "ALLOW",
         l \in {"idle", "database_check", "socket_create_temp", "signal",
               "send_request", "socket_accept"} => fd[s] = None,
         l \in {"socket_send_request", "socket_receive_result"} => fd[s] # None
  PROVE  Rest'
<1>1. pc' = [pc EXCEPT ![s] = l]
  BY DEF Goto
<1>2. Named'
  BY <1>1 DEF TypeOK, Named
<1>3. Connected' /\ ShownWasRead' /\ OneReader'
  BY DEF Connected, ShownWasRead, OneReader
<1>4. Unaccepted'
  BY <1>1 DEF TypeOK, Unaccepted
<1>5. Accepted'
  BY <1>1 DEF TypeOK, Accepted
<1>6. GrantedByConsent'
  BY <1>1 DEF TypeOK, GrantedByConsent
<1>7. PolicyWasDecided'
  BY DEF PolicyWasDecided
<1> QED
  BY <1>2, <1>3, <1>4, <1>5, <1>6, <1>7

(* The answer s reads was given to its own request.                        *)
LEMMA AnswerIsMine ==
  ASSUME TypeOK, Rest, NEW s \in Su, fd[s] # None, decision[fd[s]] = "ALLOW"
  PROVE  caller[fd[s]] = s /\ shown[fd[s]]
<1>1. fd[s] \in Act /\ peer[fd[s]] = s
  BY DEF TypeOK, Accepted
<1>2. shown[fd[s]] /\ caller[fd[s]] # None
  BY <1>1 DEF ShownWasRead
<1> QED
  BY <1>1, <1>2 DEF OneReader

LEMMA RestSu == ASSUME TypeOK, Rest, NEW s \in Su,
                       Start(s) \/ SuStep(s) \/ Signal(s) \/ Kill(s)
                PROVE  Rest'
<1>1. CASE Start(s)
  <2>1. PICK l \in {"database_check", "deny"} : Goto(s, l)
    BY <1>1 DEF Start
  <2>2. pc' = [pc EXCEPT ![s] = l]
    BY <2>1 DEF Goto
  <2>3. fd[s] = None
    BY <1>1 DEF Start, Unaccepted
  <2>4. UNCHANGED <<dballow, fd, app>>
    BY <1>1 DEF Start
  <2>5. /\ pid' \in [Su -> Pid \cup {None}]
        /\ pid'[s] \in Pid /\ uid'[s] \in Uid /\ desired'[s] \in Target
        /\ \A t \in Su \ {s} : /\ pid'[t] = pid[t]
                               /\ uid'[t] = uid[t]
                               /\ desired'[t] = desired[t]
    BY <1>1, CallAssumption DEF TypeOK, Start
  <2>6. Named'
    BY <2>2, <2>4, <2>5 DEF TypeOK, Named
  <2>7. Connected' /\ ShownWasRead' /\ OneReader'
    BY <2>4 DEF Connected, ShownWasRead, OneReader
  <2>8. Unaccepted' /\ Accepted'
    BY <2>2, <2>3, <2>4 DEF TypeOK, Unaccepted, Accepted
  <2>9. GrantedByConsent'
    BY <2>2, <2>4 DEF TypeOK, GrantedByConsent
  <2>10. PolicyWasDecided'
    <3> SUFFICES ASSUME NEW r \in Uid \X Target, policy[r] # "none"
                 PROVE  \E a \in Act :
                          /\ shown[a]
                          /\ r = <<uid'[caller[a]], desired'[caller[a]]>>
                          /\ decision[a] = policy[r]
      BY <2>4 DEF PolicyWasDecided
    <3>1. PICK a \in Act : /\ shown[a]
                           /\ r = <<uid[caller[a]], desired[caller[a]]>>
                           /\ decision[a] = policy[r]
      BY DEF PolicyWasDecided
    <3>2. caller[a] \in Su \ {s}
      BY <2>3, <3>1 DEF TypeOK, ShownWasRead, OneReader
    <3> QED
      BY <2>5, <3>1, <3>2
  <2> QED
    BY <2>6, <2>7, <2>8, <2>9, <2>10
<1>2. CASE DatabaseCheck(s)
  <2>1. PICK r \in {"INTERACTIVE"} \cup Answers :
          /\ dballow' = [dballow EXCEPT ![s] = r]
          /\ Goto(s, CASE r = "INTERACTIVE" -> "socket_create_temp"
                       [] r = "ALLOW" -> "allow"
                       [] r = "DENY" -> "deny")
    BY <1>2 DEF DatabaseCheck
  <2>2. PICK l \in {"socket_create_temp", "allow", "deny"} :
          /\ pc' = [pc EXCEPT ![s] = l]
          /\ l = "allow" => r = "ALLOW"
    BY <2>1 DEF Goto
  <2>3. pc[s] = "database_check" /\ fd[s] = None
    BY <1>2 DEF DatabaseCheck, Unaccepted
  <2>4. UNCHANGED <<ids, fd, app>>
    BY <1>2 DEF DatabaseCheck
  <2>5. Named' /\ Connected' /\ ShownWasRead' /\ OneReader'
    BY <2>2, <2>3, <2>4
       DEF TypeOK, Named, Connected, ShownWasRead, OneReader
  <2>6. Unaccepted' /\ Accepted'
    BY <2>2, <2>3, <2>4 DEF TypeOK, Unaccepted, Accepted
  <2>7. GrantedByConsent'
    BY <2>1, <2>2, <2>4 DEF TypeOK, GrantedByConsent
  <2>8. PolicyWasDecided'
    BY <2>4 DEF PolicyWasDecided
  <2> QED
    BY <2>5, <2>6, <2>7, <2>8
<1>3. CASE SocketCreateTemp(s)
  <2>1. PICK l \in {"signal", "deny"} : Goto(s, l)
    BY <1>3 DEF SocketCreateTemp
  <2>2. /\ pc[s] = "socket_create_temp" /\ fd[s] = None
        /\ UNCHANGED <<ids, dballow, fd, app>>
    BY <1>3 DEF SocketCreateTemp, Unaccepted
  <2> QED
    BY <2>1, <2>2, RestQuiet
<1>4. CASE InstallHandlers(s)
  BY <1>4, RestQuiet DEF InstallHandlers, Unaccepted
<1>5. CASE SendRequest(s)
  <2>1. PICK l \in {"socket_accept", "deny"} : Goto(s, l)
    BY <1>5 DEF SendRequest
  <2> QED
    BY <1>5, <2>1, RestQuiet DEF SendRequest, Unaccepted
<1>6. CASE SocketAccept(s)
  <2>1. CASE Goto(s, "deny") /\ UNCHANGED fd
    BY <1>6, <2>1, RestQuiet DEF SocketAccept
  <2>2. CASE \E a \in Backlog(s) : /\ fd' = [fd EXCEPT ![s] = a]
                                  /\ Goto(s, "socket_send_request")
    <3>1. PICK a \in Act : /\ peer[a] = s
                           /\ fd' = [fd EXCEPT ![s] = a]
                           /\ pc' = [pc EXCEPT ![s] = "socket_send_request"]
      BY <2>2 DEF Backlog, Goto
    <3>2. pc[s] = "socket_accept" /\ fd[s] = None
      BY <1>6 DEF SocketAccept, Unaccepted
    <3>3. UNCHANGED <<ids, dballow, app>>
      BY <1>6 DEF SocketAccept
    <3>4. Named' /\ Connected' /\ ShownWasRead'
      BY <3>1, <3>2, <3>3 DEF TypeOK, Named, Connected, ShownWasRead
    <3>5. Unaccepted' /\ Accepted'
      BY <3>1, <3>2, <3>3 DEF TypeOK, Unaccepted, Accepted
    <3>6. OneReader'
      BY <3>1, <3>2, <3>3 DEF TypeOK, OneReader
    <3>7. GrantedByConsent'
      BY <3>1, <3>2, <3>3 DEF TypeOK, GrantedByConsent
    <3>8. PolicyWasDecided'
      BY <3>3 DEF PolicyWasDecided
    <3> QED
      BY <3>4, <3>5, <3>6, <3>7, <3>8
  <2> QED
    BY <1>6, <2>1, <2>2 DEF SocketAccept
<1>7. CASE SocketSendRequest(s)
  <2>1. PICK l \in {"socket_receive_result", "signalled"} : Goto(s, l)
    BY <1>7 DEF SocketSendRequest, CleanupSignal
  <2>2. pc[s] = "socket_send_request" /\ fd[s] # None
    BY <1>7 DEF SocketSendRequest, Accepted
  <2>3. UNCHANGED <<ids, dballow, fd, app>>
    BY <1>7 DEF SocketSendRequest
  <2> QED
    BY <2>1, <2>2, <2>3, RestQuiet
<1>8. CASE SocketReceiveResult(s)
  <2>1. pc[s] = "socket_receive_result" /\ fd[s] # None
    BY <1>8 DEF SocketReceiveResult, Accepted
  <2>2. UNCHANGED <<ids, dballow, fd, app>>
    BY <1>8 DEF SocketReceiveResult
  <2>3. PICK l \in {"cleanup_allow", "cleanup_deny", "deny"} :
          /\ Goto(s, l)
          /\ l = "cleanup_allow" => decision[fd[s]] = "ALLOW"
    BY <1>8 DEF SocketReceiveResult
  <2>4. l = "cleanup_allow" => caller[fd[s]] = s /\ shown[fd[s]]
    BY <2>1, <2>3, AnswerIsMine
  <2> QED
    BY <2>1, <2>2, <2>3, <2>4, RestQuiet
<1>9. CASE CloseSocket(s)
  <2>1. /\ pc[s] \in {"cleanup_allow", "cleanup_deny"}
        /\ UNCHANGED <<ids, dballow, fd, app>>
    BY <1>9 DEF CloseSocket
  <2>2. PICK l \in {"allow", "deny"} :
          Goto(s, l) /\ (l = "allow" => pc[s] = "cleanup_allow")
    BY <1>9 DEF CloseSocket
  <2> QED
    BY <2>1, <2>2, RestQuiet DEF GrantedByConsent
<1>10. CASE Deny(s)
  BY <1>10, RestQuiet DEF Deny, Exit
<1>11. CASE Allow(s)
  <2>1. PICK l \in {"failed", "granted"} : Goto(s, l)
    BY <1>11 DEF Allow, Exit
  <2>2. pc[s] = "allow" /\ UNCHANGED <<ids, dballow, fd, app>>
    BY <1>11 DEF Allow, Exit
  <2> QED
    BY <2>1, <2>2, RestQuiet DEF GrantedByConsent
<1>12. CASE Signal(s)
  BY <1>12, RestQuiet DEF Signal, CleanupSignal, Live
<1>13. CASE Kill(s)
  BY <1>13, RestQuiet DEF Kill, Live
<1> QED
  BY <1>1, <1>2, <1>3, <1>4, <1>5, <1>6, <1>7, <1>8, <1>9, <1>10, <1>11,
     <1>12, <1>13 DEF SuStep

-----------------------------------------------------------------------------
(* Then what the activities do.                                            *)

LEMMA RestAppDies ==
  ASSUME TypeOK, Rest, AppDies,
         UNCHANGED <<suVars, policy, path, peer, caller, shown, ansVars>>
  PROVE  Rest'
<1>1. /\ \A a \in Act : phase'[a] = "none" <=> phase[a] = "none"
      /\ \A a \in Act : thread'[a] \in {"none", "done"}
      /\ \A a \in Act : thread'[a] = "none" <=> thread[a] = "none"
      /\ \A a \in Act : ui'[a] = "none" /\ posted'[a] = "none"
  BY DEF TypeOK, AppDies
<1>2. Named'
  BY <1>1 DEF TypeOK, Named
<1>3. Connected' /\ ShownWasRead'
  BY <1>1 DEF Connected, ShownWasRead
<1>4. Unaccepted' /\ Accepted' /\ OneReader' /\ GrantedByConsent'
  BY DEF Unaccepted, Accepted, OneReader, GrantedByConsent
<1>5. PolicyWasDecided'
  BY DEF PolicyWasDecided
<1> QED
  BY <1>2, <1>3, <1>4, <1>5

(* A decision to allow, or to remember, of a request that was shown.       *)
LEMMA RestHandle ==
  ASSUME TypeOK, Rest, NEW a \in Act, NEW d \in Answers,
         NEW remember \in BOOLEAN, HandleAction(a, d, remember),
         d = "ALLOW" \/ remember => shown[a]
  PROVE  /\ \A b \in Act : decision[b] # "none" => decision'[b] = decision[b]
         /\ \A b \in Act : decision'[b] = "ALLOW" => shown[b]
         /\ GrantedByConsent'
         /\ PolicyWasDecided'
<1>1. /\ decision[a] = "none"
      /\ decision' = [decision EXCEPT ![a] = d]
      /\ UNCHANGED <<suVars, caller, shown>>
  BY DEF HandleAction
<1>2. \A b \in Act : decision[b] # "none" => decision'[b] = decision[b]
  BY <1>1 DEF TypeOK
<1>3. \A b \in Act : decision'[b] = "ALLOW" => shown[b]
  BY <1>1 DEF TypeOK, ShownWasRead
<1>4. GrantedByConsent'
  BY <1>1, <1>2 DEF TypeOK, GrantedByConsent
<1>5. PolicyWasDecided'
  <2>1. CASE ~remember
    <3>1. policy' = policy
      BY <2>1 DEF HandleAction
    <3> QED
      BY <1>1, <1>2, <3>1 DEF TypeOK, PolicyWasDecided
  <2>2. CASE remember
    <3> DEFINE k == <<uid[caller[a]], desired[caller[a]]>>
    <3>1. policy' = [policy EXCEPT ![k] = d]
      BY <2>2 DEF HandleAction, SetPolicy
    <3>2. SUFFICES ASSUME NEW r \in Uid \X Target, policy'[r] # "none"
                   PROVE  \E b \in Act :
                            /\ shown[b]
                            /\ r = <<uid[caller[b]], desired[caller[b]]>>
                            /\ decision'[b] = policy'[r]
      BY <1>1 DEF PolicyWasDecided
    <3>3. CASE r = k
      <4>1. policy'[r] = d
        BY <3>1, <3>3 DEF TypeOK
      <4>2. decision'[a] = d /\ shown[a]
        BY <1>1, <2>2 DEF TypeOK
      <4> QED
        BY <3>3, <4>1, <4>2
    <3>4. CASE r # k
      <4> HIDE DEF k
      <4>1. policy'[r] = policy[r]
        BY <3>1, <3>4 DEF TypeOK
      <4>2. PICK b \in Act : /\ shown[b]
                             /\ r = <<uid[caller[b]], desired[caller[b]]>>
                             /\ decision[b] = policy[r]
        BY <3>2, <4>1 DEF PolicyWasDecided
      <4> QED
        BY <1>2, <3>2, <4>1, <4>2
    <3> QED
      BY <3>3, <3>4
  <2> QED
    BY <2>1, <2>2
<1> QED
  BY <1>2, <1>3, <1>4, <1>5

(* The rest of a callback that decides.                                    *)
LEMMA RestDecided ==
  ASSUME TypeOK, Rest, NEW a \in Act, NEW d \in Answers,
         NEW remember \in BOOLEAN, HandleAction(a, d, remember),
         d = "ALLOW" \/ remember => shown[a],
         \A b \in Act : phase'[b] = "none" <=> phase[b] = "none",
         \A b \in Act : ui'[b] \in {"both", "pin"} => ui[b] \in {"both", "pin"},
         \A b \in Act : posted'[b] # "none" => posted[b] # "none"
  PROVE  Rest'
<1>1. UNCHANGED <<suVars, path, thread, peer, caller, shown>>
  BY DEF HandleAction
<1>2. Named' /\ Connected' /\ Unaccepted' /\ Accepted' /\ OneReader'
  BY <1>1 DEF Named, Connected, Unaccepted, Accepted, OneReader
<1>3. ShownWasRead'
  BY <1>1, RestHandle DEF ShownWasRead
<1> QED
  BY <1>2, <1>3, RestHandle

LEMMA RestDecide ==
  ASSUME TypeOK, Rest, NEW a \in Act, NEW d \in Answers,
         NEW remember \in BOOLEAN, NEW b \in {"none", "pin"},
         Decide(a, d, remember, b), phase[a] # "none",
         d = "ALLOW" \/ remember => shown[a],
         b = "pin" => ui[a] = "pin"
  PROVE  Rest'
<1>1. CASE AssertionFails(a)
  BY <1>1, RestAppDies DEF AssertionFails
<1>2. CASE ~AssertionFails(a)
  <2>1. /\ HandleAction(a, d, remember)
        /\ Finish(a)
        /\ ui' = [ui EXCEPT ![a] = b]
        /\ UNCHANGED posted
    BY <1>2 DEF Decide
  <2>2. \A c \in Act : phase'[c] = "none" <=> phase[c] = "none"
    BY <2>1 DEF TypeOK, Finish
  <2>3. \A c \in Act : ui'[c] \in {"both", "pin"} => ui[c] \in {"both", "pin"}
    BY <2>1 DEF TypeOK
  <2> QED
    BY <2>1, <2>2, <2>3, RestDecided
<1> QED
  BY <1>1, <1>2

(* Callbacks that neither decide nor read.                                 *)
LEMMA RestLayout ==
  ASSUME TypeOK, Rest, UNCHANGED <<suVars, policy, path, peer, caller, ansVars>>,
         \A a \in Act : phase'[a] = "none" <=> phase[a] = "none",
         \A a \in Act : thread'[a] \in {"none", "new", "connect"}
                        => thread[a] \in {"none", "new", "connect"},
         \A a \in Act : thread'[a] # "none" => thread[a] # "none",
         \A a \in Act : thread'[a] \in {"read", "ready"} => thread'[a] = thread[a],
         \A a \in Act : shown[a] => shown'[a],
         \A a \in Act : shown'[a] => shown[a] \/ thread[a] = "ready",
         \A a \in Act : ui'[a] \in {"both", "pin"}
                        => ui[a] \in {"both", "pin"} \/ shown'[a],
         \A a \in Act : posted'[a] # "none" => posted[a] # "none" \/ shown'[a]
  PROVE  Rest'
<1>1. Named'
  BY DEF Named
<1>2. Connected' /\ Unaccepted' /\ Accepted' /\ OneReader'
  BY DEF Connected, Unaccepted, Accepted, OneReader
<1>3. ShownWasRead'
  BY DEF ShownWasRead
<1>4. GrantedByConsent'
  BY DEF TypeOK, GrantedByConsent
<1>5. PolicyWasDecided'
  BY DEF PolicyWasDecided
<1> QED
  BY <1>1, <1>2, <1>3, <1>4, <1>5

LEMMA RestUser == ASSUME TypeOK, Rest, NEW a \in Act, UserStep(a)
                  PROVE  Rest'
<1>1. CASE ClickDeny(a)
  <2>1. PICK remember \in Remember(a) : Decide(a, "DENY", remember, "none")
    BY <1>1 DEF ClickDeny
  <2>2. remember \in BOOLEAN /\ (remember => shown[a])
    BY <2>1 DEF Remember
  <2> QED
    BY <1>1, <2>1, <2>2, RestDecide DEF ClickDeny, Visible
<1>2. CASE ClickAllow(a)
  <2>1. ui[a] = "both" /\ phase[a] # "none" /\ shown[a]
    BY <1>2 DEF ClickAllow, Visible, ShownWasRead
  <2>2. CASE settings.pin
    <3>1. /\ ui' = [ui EXCEPT ![a] = "pin"]
          /\ UNCHANGED <<suVars, policy, path, phase, thread, peer, caller,
                         shown, posted, ansVars>>
      BY <1>2, <2>2 DEF ClickAllow
    <3> QED
      BY <2>1, <3>1, RestLayout DEF TypeOK
  <2>3. CASE ~settings.pin
    <3>1. PICK remember \in BOOLEAN : Decide(a, "ALLOW", remember, "none")
      BY <1>2, <2>3 DEF ClickAllow, Remember
    <3> QED
      BY <2>1, <3>1, RestDecide
  <2> QED
    BY <2>2, <2>3
<1>3. CASE EnterPin(a)
  <2>1. ui[a] = "pin" /\ phase[a] # "none" /\ shown[a]
    BY <1>3 DEF EnterPin, Visible, ShownWasRead
  <2>2. PICK remember \in BOOLEAN : Decide(a, "ALLOW", remember, "pin")
    BY <1>3 DEF EnterPin
  <2> QED
    BY <2>1, <2>2, RestDecide
<1>4. CASE CancelPin(a)
  <2>1. ui[a] = "pin" /\ phase[a] # "none"
    BY <1>4 DEF CancelPin, Visible
  <2>2. Decide(a, "DENY", FALSE, "pin")
    BY <1>4, <2>1 DEF CancelPin, Remember
  <2> QED
    BY <2>1, <2>2, RestDecide
<1>5. CASE ConfigurationChanged(a)
  <2>1. /\ ui' = [ui EXCEPT ![a] = "deny"]
        /\ UNCHANGED <<suVars, policy, path, phase, thread, peer, caller, shown,
                       ansVars>>
    BY <1>5 DEF ConfigurationChanged
  <2>2. \A b \in Act : posted'[b] # "none" => posted[b] # "none" \/ shown[b]
    BY <1>5 DEF TypeOK, ConfigurationChanged, RequestReady
  <2> QED
    BY <2>1, <2>2, RestLayout DEF TypeOK
<1> QED
  BY <1>1, <1>2, <1>3, <1>4, <1>5 DEF UserStep

LEMMA RestUi == ASSUME TypeOK, Rest, NEW a \in Act, UiStep(a)
                PROVE  Rest'
<1>1. CASE OnCreate(a)
  <2>1. /\ path'[a] \in Pid /\ phase'[a] # "none"
        /\ \A b \in Act \ {a} : path'[b] = path[b] /\ phase'[b] = phase[b]
        /\ thread' = [thread EXCEPT ![a] = "new"]
        /\ ui' = [ui EXCEPT ![a] = "deny"]
    BY <1>1 DEF TypeOK, OnCreate
  <2>2. UNCHANGED <<suVars, policy, peer, caller, shown, posted, ansVars>>
    BY <1>1 DEF OnCreate
  <2>3. phase[a] = "none"
    BY <1>1 DEF OnCreate
  <2>4. Named'
    BY <2>1, <2>2 DEF TypeOK, Named
  <2>5. Connected'
    BY <2>1, <2>2, <2>3 DEF TypeOK, Connected, Named
  <2>6. ShownWasRead'
    BY <2>1, <2>2 DEF TypeOK, ShownWasRead
  <2>7. Unaccepted' /\ Accepted' /\ OneReader' /\ GrantedByConsent'
    BY <2>2 DEF Unaccepted, Accepted, OneReader, GrantedByConsent
  <2>8. PolicyWasDecided'
    BY <2>2 DEF PolicyWasDecided
  <2> QED
    BY <2>4, <2>5, <2>6, <2>7, <2>8
<1>2. CASE RunRequestReady(a)
  <2>1. /\ thread[a] = "ready"
        /\ thread' = [thread EXCEPT ![a] = "done"]
        /\ shown' = [shown EXCEPT ![a] = TRUE]
        /\ UNCHANGED <<suVars, policy, path, phase, peer, caller, ui, ansVars>>
    BY <1>2 DEF RunRequestReady
  <2>2. \A b \in Act : posted'[b] # "none" => posted[b] # "none" \/ b = a
    BY <1>2 DEF TypeOK, RunRequestReady, RequestReady
  <2>3. \A b \in Act : /\ shown[b] => shown'[b]
                       /\ shown'[b] => shown[b] \/ thread[b] = "ready"
    BY <2>1 DEF TypeOK
  <2>4. shown'[a]
    BY <2>1 DEF TypeOK
  <2> QED
    BY <2>1, <2>2, <2>3, <2>4, RestLayout DEF TypeOK
<1>3. CASE EnableAllow(a)
  <2>1. /\ shown[a]
        /\ ui' = [ui EXCEPT ![a] = "both"]
        /\ UNCHANGED <<suVars, policy, path, phase, thread, peer, caller, shown,
                       posted, ansVars>>
    BY <1>3 DEF EnableAllow
  <2> QED
    BY <2>1, RestLayout DEF TypeOK
<1>4. CASE AutoRespond(a)
  <2>1. /\ posted[a] # "none" /\ shown[a]
        /\ posted' = [posted EXCEPT ![a] = "none"]
        /\ UNCHANGED ui
    BY <1>4 DEF AutoRespond, ShownWasRead
  <2>2. CASE decision[a] = "none"
    <3>1. HandleAction(a, posted[a], TRUE) /\ Finish(a)
      BY <1>4, <2>2 DEF AutoRespond
    <3>2. posted[a] \in Answers
      BY <2>1 DEF TypeOK
    <3>3. \A b \in Act : phase'[b] = "none" <=> phase[b] = "none"
      BY <3>1 DEF TypeOK, Finish
    <3>4. \A b \in Act : posted'[b] # "none" => posted[b] # "none"
      BY <2>1 DEF TypeOK
    <3> QED
      BY <2>1, <3>1, <3>2, <3>3, <3>4, RestDecided
  <2>3. CASE decision[a] # "none"
    <3>1. UNCHANGED <<suVars, policy, path, phase, thread, peer, caller, shown,
                      ansVars>>
      BY <1>4, <2>3 DEF AutoRespond
    <3> QED
      BY <2>1, <3>1, RestLayout DEF TypeOK
  <2> QED
    BY <2>2, <2>3
<1>5. CASE RequestTimeout(a)
  <2>1. HandleAction(a, "DENY", FALSE) /\ Finish(a) /\ UNCHANGED <<posted, ui>>
    BY <1>5 DEF RequestTimeout
  <2> QED
    BY <2>1, RestDecided DEF TypeOK, Finish
<1>6. CASE Watchdog(a)
  BY <1>6, RestLayout DEF TypeOK, Watchdog, Finish
<1>7. CASE RunFinish(a)
  BY <1>7, RestLayout DEF TypeOK, RunFinish, Finish
<1>8. CASE OnDestroy(a)
  <2>1. /\ \A b \in Act : phase'[b] = "none" <=> phase[b] = "none"
        /\ UNCHANGED <<posted, ui>>
    BY <1>8 DEF TypeOK, OnDestroy
  <2>2. CASE decision[a] = "none"
    <3>1. HandleAction(a, "DENY", FALSE)
      BY <1>8, <2>2 DEF OnDestroy
    <3> QED
      BY <2>1, <3>1, RestDecided
  <2>3. CASE decision[a] # "none"
    <3>1. UNCHANGED <<suVars, policy, path, thread, peer, caller, shown, ansVars>>
      BY <1>8, <2>3 DEF OnDestroy
    <3> QED
      BY <2>1, <3>1, RestLayout
  <2> QED
    BY <2>2, <2>3
<1>9. CASE DeleteFile(a)
  BY <1>9, RestLayout DEF TypeOK, DeleteFile
<1> QED
  BY <1>1, <1>2, <1>3, <1>4, <1>5, <1>6, <1>7, <1>8, <1>9 DEF UiStep

(* Connect and ReadRequest make the links that the invariant is about.     *)
LEMMA RestThread == ASSUME TypeOK, Rest, NEW a \in Act, ThreadStep(a)
                    PROVE  Rest'
<1>0. UNCHANGED <<suVars, policy, path, phase, uiVars, ansVars>>
  BY DEF ThreadStep, NewSocket, Connect, ReadRequest
<1>1. CASE NewSocket(a)
  BY <1>0, <1>1, RestLayout DEF TypeOK, NewSocket
<1>2. CASE ThreadFails(a) /\ thread[a] # "none"
  BY <1>0, <1>2, RestLayout DEF TypeOK, ThreadFails
<1>3. CASE Connect(a) /\ ~ThreadFails(a)
  <2>1. /\ peer' = [peer EXCEPT ![a] = file[path[a]]]
        /\ thread' = [thread EXCEPT ![a] = "read"]
        /\ thread[a] = "connect"
        /\ UNCHANGED caller
    BY <1>3 DEF Connect
  <2>2. peer[a] = None /\ caller[a] = None
    BY <2>1 DEF Connected
  <2>3. file[path[a]] # None
    BY <1>3 DEF Connect
  <2>4. Named' /\ Connected' /\ ShownWasRead'
    BY <1>0, <2>1, <2>3 DEF TypeOK, Named, Connected, ShownWasRead
  <2>5. Unaccepted' /\ GrantedByConsent' /\ PolicyWasDecided'
    BY <1>0, <2>1 DEF Unaccepted, GrantedByConsent, PolicyWasDecided
  <2>6. Accepted'
    BY <1>0, <2>1, <2>2 DEF TypeOK, Accepted
  <2>7. OneReader'
    BY <1>0, <2>1, <2>2 DEF TypeOK, OneReader
  <2> QED
    BY <2>4, <2>5, <2>6, <2>7
<1>4. CASE ReadRequest(a) /\ ~ThreadFails(a)
  <2>1. /\ caller' = [caller EXCEPT ![a] = peer[a]]
        /\ thread' = [thread EXCEPT ![a] = "ready"]
        /\ thread[a] = "read"
        /\ fd[peer[a]] = a
        /\ desired[peer[a]] \in Readable
        /\ UNCHANGED peer
    BY <1>4 DEF ReadRequest
  <2>2. peer[a] \in Su
    BY <2>1 DEF TypeOK, Connected
  <2>3. caller[a] # None => caller[a] = peer[a]
    BY DEF OneReader
  <2>4. Named' /\ Connected' /\ Unaccepted' /\ Accepted'
    BY <1>0, <2>1 DEF TypeOK, Named, Connected, Unaccepted, Accepted
  <2>5. ShownWasRead'
    BY <1>0, <2>1, <2>2 DEF TypeOK, ShownWasRead
  <2>6. OneReader'
    BY <1>0, <2>1, <2>2 DEF TypeOK, OneReader
  <2>7. \A b \in Act : caller[b] # None => caller'[b] = caller[b]
    BY <2>1, <2>3 DEF TypeOK
  <2>8. GrantedByConsent'
    BY <1>0, <2>7 DEF TypeOK, GrantedByConsent
  <2>9. PolicyWasDecided'
    BY <1>0, <2>7 DEF TypeOK, PolicyWasDecided, ShownWasRead
  <2> QED
    BY <2>4, <2>5, <2>6, <2>8, <2>9
<1> QED
  BY <1>1, <1>2, <1>3, <1>4 DEF ThreadStep, Connect, ReadRequest

LEMMA RestNext == TypeOK /\ Rest /\ [Next]_vars => Rest'
<1> SUFFICES ASSUME TypeOK, Rest, [Next]_vars
             PROVE  Rest'
  OBVIOUS
<1>1. CASE \E s \in Su : Start(s) \/ SuStep(s) \/ Signal(s) \/ Kill(s)
  BY <1>1, RestSu
<1>2. CASE \E a \in Act : UserStep(a) \/ UiStep(a) \/ ThreadStep(a)
  BY <1>2, RestUser, RestUi, RestThread
<1>3. CASE LoseIntent
  BY <1>3, RestLayout DEF LoseIntent
<1>4. CASE KillApp
  BY <1>4, RestAppDies DEF KillApp
<1>5. CASE \E r \in Uid \X Target : ForgetPolicy(r)
  <2>1. UNCHANGED <<suVars, actVars>>
    BY <1>5 DEF ForgetPolicy
  <2>2. \A r \in Uid \X Target : policy'[r] # "none" => policy'[r] = policy[r]
    BY <1>5 DEF TypeOK, ForgetPolicy
  <2>3. PolicyWasDecided'
    BY <2>1, <2>2 DEF PolicyWasDecided
  <2> QED
    BY <2>1, <2>3 DEF Named, Connected, Unaccepted, Accepted, ShownWasRead,
                      OneReader, GrantedByConsent
<1>6. CASE UNCHANGED vars
  BY <1>6, RestLayout DEF vars
<1> QED
  BY <1>1, <1>2, <1>3, <1>4, <1>5, <1>6 DEF Next, Terminated

-----------------------------------------------------------------------------
(* The theorems.                                                           *)

LEMMA Invariance == Spec => []IInv
<1>1. Init => IInv
  BY TypeInit, RestInit DEF IInv
<1>2. IInv /\ [Next]_vars => IInv'
  BY TypeNext, RestNext DEF IInv
<1> QED
  BY <1>1, <1>2, PTL DEF Spec

(* Every variable keeps its type: in particular the paths in intents are   *)
(* those of processes that have a pid.                                     *)
THEOREM TypeCorrect == Spec => []TypeOK
<1>1. IInv => TypeOK
  BY DEF IInv
<1> QED
  BY <1>1, Invariance, PTL

(* A command is executed only with the consent of the database, or of the  *)
(* user to this very request, however many processes share a socket path.  *)
THEOREM ConsentTheorem == Spec => []GrantedByConsent
<1>1. IInv => GrantedByConsent
  BY DEF IInv
<1> QED
  BY <1>1, Invariance, PTL

(* No remembered policy exists that nobody decided.                        *)
THEOREM PolicyTheorem == Spec => []PolicyWasDecided
<1>1. IInv => PolicyWasDecided
  BY DEF IInv
<1> QED
  BY <1>1, Invariance, PTL

(* The request of one su is read by one activity, the one su listens to.   *)
THEOREM ReaderTheorem == Spec => []OneReader
<1>1. IInv => OneReader
  BY DEF IInv
<1> QED
  BY <1>1, Invariance, PTL

(* A decision, and whether it was written to the socket, is final.         *)
LEMMA DecisionStep ==
  ASSUME TypeOK, [Next]_vars
  PROVE  \/ UNCHANGED ansVars
         \/ \E a \in Act, d \in Answers, remember \in BOOLEAN :
              HandleAction(a, d, remember)
<1>1. ASSUME NEW s \in Su, Start(s) \/ SuStep(s) \/ Signal(s) \/ Kill(s)
      PROVE  UNCHANGED ansVars
  <2>1. CASE Start(s) \/ DatabaseCheck(s) \/ SocketCreateTemp(s)
    BY <2>1 DEF Start, DatabaseCheck, SocketCreateTemp
  <2>2. CASE InstallHandlers(s) \/ SendRequest(s) \/ SocketAccept(s)
    BY <2>2 DEF InstallHandlers, SendRequest, SocketAccept
  <2>3. CASE SocketSendRequest(s) \/ SocketReceiveResult(s) \/ CloseSocket(s)
    BY <2>3 DEF SocketSendRequest, SocketReceiveResult, CloseSocket
  <2>4. CASE Deny(s) \/ Allow(s) \/ Signal(s) \/ Kill(s)
    BY <2>4 DEF Deny, Allow, Exit, Signal, Kill
  <2> QED
    BY <1>1, <2>1, <2>2, <2>3, <2>4 DEF SuStep
<1>2. ASSUME NEW a \in Act, UserStep(a)
      PROVE  \/ UNCHANGED ansVars
             \/ \E d \in Answers, remember \in BOOLEAN :
                  HandleAction(a, d, remember)
  <2>1. CASE ClickAllow(a)
    BY <2>1 DEF ClickAllow, Decide, AssertionFails, Remember
  <2>2. CASE ConfigurationChanged(a)
    BY <2>2 DEF ConfigurationChanged
  <2>3. CASE ClickDeny(a) \/ EnterPin(a) \/ CancelPin(a)
    BY <2>3 DEF ClickDeny, EnterPin, CancelPin, Decide, AssertionFails,
       Remember
  <2> QED
    BY <1>2, <2>1, <2>2, <2>3 DEF UserStep
<1>3. ASSUME NEW a \in Act, UiStep(a)
      PROVE  \/ UNCHANGED ansVars
             \/ \E d \in Answers, remember \in BOOLEAN :
                  HandleAction(a, d, remember)
  <2>1. CASE AutoRespond(a)
    <3>1. posted[a] \in Answers
      BY <2>1 DEF TypeOK, AutoRespond
    <3> QED
      BY <2>1, <3>1 DEF AutoRespond
  <2>2. CASE RequestTimeout(a) \/ OnDestroy(a)
    BY <2>2 DEF RequestTimeout, OnDestroy
  <2>3. CASE \/ OnCreate(a) \/ RunRequestReady(a) \/ EnableAllow(a)
             \/ Watchdog(a) \/ RunFinish(a) \/ DeleteFile(a)
    BY <2>3 DEF OnCreate, RunRequestReady, EnableAllow, Watchdog, RunFinish,
       DeleteFile
  <2> QED
    BY <1>3, <2>1, <2>2, <2>3 DEF UiStep
<1>4. CASE \E a \in Act : ThreadStep(a)
  BY <1>4 DEF ThreadStep, NewSocket, Connect, ReadRequest
<1>5. CASE \/ LoseIntent \/ KillApp \/ UNCHANGED vars
           \/ \E r \in Uid \X Target : ForgetPolicy(r)
  BY <1>5 DEF LoseIntent, KillApp, ForgetPolicy, vars
<1> QED
  BY <1>1, <1>2, <1>3, <1>4, <1>5 DEF Next, Terminated

(* No callback of any thread replaces a decision or writes it twice.       *)
THEOREM DecisionTheorem == Spec => DecisionStands
<1> DEFINE Stands == \A a \in Act : decision[a] # "none" =>
                       decision'[a] = decision[a] /\ wrote'[a] = wrote[a]
<1>1. TypeOK /\ [Next]_vars => Stands
  <2> SUFFICES ASSUME TypeOK, [Next]_vars
               PROVE  Stands
    OBVIOUS
  <2>1. CASE UNCHANGED ansVars
    BY <2>1
  <2>2. ASSUME NEW a \in Act, NEW d \in Answers, NEW remember \in BOOLEAN,
               HandleAction(a, d, remember)
        PROVE  Stands
    BY <2>2 DEF TypeOK, HandleAction
  <2> QED
    BY <2>1, <2>2, DecisionStep
<1>2. TypeOK /\ [Next]_vars => [Stands]_vars
  BY <1>1
<1> QED
  BY <1>2, TypeCorrect, PTL DEF Spec, DecisionStands
=============================================================================
