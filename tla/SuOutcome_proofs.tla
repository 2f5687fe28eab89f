-------------------------- MODULE SuOutcome_proofs ---------------------------
(***************************************************************************)
(* How an invocation of SuRequest ends: without its socket, and without a  *)
(* grant if its caller does not declare a permission that is required; not *)
(* with a refusal if it was allowed; and that nothing keeps it, nor the    *)
(* dialogs, from coming to an end.                                         *)
(***************************************************************************)
EXTENDS SuRefinement_proofs

USE NoneAssumption
USE DEF Answers, Ended, PCs, ids, suVars, uiVars, ansVars, actVars, app

-----------------------------------------------------------------------------
(* Who has a socket file: a process that knows where, and that has not     *)
(* come to an end that removes it.                                         *)
Without == {"idle", "database_check", "socket_create_temp", "allow",
            "granted", "failed", "signalled"}

Holds(s, p) ==
  /\ pid[s] = p /\ sockPath[s]
  /\ pc[s] \notin Without
  /\ pc[s] = "refused" => "atexit" \notin hooks[s]

SocketInv == \A p \in Pid : file[p] # None => Holds(file[p], p)

(* A step of s: the files of others are theirs still.                      *)
LEMMA SocketStep ==
  ASSUME TypeOK, SocketInv, NEW s \in Su,
         \A t \in Su \ {s} : /\ pid'[t] = pid[t] /\ sockPath'[t] = sockPath[t]
                             /\ pc'[t] = pc[t] /\ hooks'[t] = hooks[t],
         \A p \in Pid : file'[p] \in {None, s} \/ file'[p] = file[p],
         \A p \in Pid : file'[p] = s => Holds(s, p)'
  PROVE  SocketInv'
<1> SUFFICES ASSUME NEW p \in Pid, file'[p] # None
             PROVE  Holds(file[p], p)'
  BY DEF SocketInv
<1>1. CASE file'[p] = s
  BY <1>1 DEF Holds
<1>2. CASE file'[p] # s
  <2>1. PICK t \in Su \ {s} : t = file[p] /\ t = file'[p]
    BY <1>2 DEF TypeOK
  <2>2. Holds(t, p)
    BY <2>1 DEF SocketInv
  <2> QED
    BY <2>1, <2>2 DEF Holds
<1> QED
  BY <1>1, <1>2

(* socket_cleanup leaves no file that is its own.                          *)
LEMMA CleanupRemoves ==
  ASSUME TypeOK, SocketInv, NEW s \in Su, SocketCleanup(s)
  PROVE  /\ \A p \in Pid : file'[p] = None \/ file'[p] = file[p]
         /\ \A p \in Pid : file'[p] # s
         /\ \A t \in Su \ {s} : sockPath'[t] = sockPath[t]
<1>1. \A t \in Su \ {s} : sockPath'[t] = sockPath[t]
  BY DEF TypeOK, SocketCleanup
<1>2. \A p \in Pid : file[p] = s => sockPath[s] /\ pid[s] = p
  BY DEF SocketInv, Holds
<1>3. \A p \in Pid : file'[p] = None \/ (file'[p] = file[p] /\ file[p] # s)
  <2>1. CASE sockPath[s]
    <3>1. file' = [file EXCEPT ![pid[s]] = None]
      BY <2>1 DEF SocketCleanup
    <3> QED
      BY <1>2, <3>1 DEF TypeOK
  <2>2. CASE ~sockPath[s]
    BY <1>2, <2>2 DEF SocketCleanup
  <2> QED
    BY <2>1, <2>2
<1> QED
  BY <1>1, <1>3

(* A step that only moves on, with nothing removed or registered.          *)
LEMMA SocketMoves ==
  ASSUME TypeOK, SocketInv, NEW s \in Su, NEW l \in PCs, Goto(s, l),
         UNCHANGED <<pid, hooks, sockPath, file>>,
         pc[s] \in Without \/ l \notin Without \cup {"refused"}
  PROVE  SocketInv'
<1>1. pc' = [pc EXCEPT ![s] = l]
  BY DEF Goto
<1>2. ASSUME NEW p \in Pid, file'[p] = s PROVE Holds(s, p)'
  <2>1. Holds(s, p)
    BY <1>2 DEF SocketInv
  <2> QED
    BY <1>1, <2>1 DEF TypeOK, Holds
<1> QED
  BY <1>1, <1>2, SocketStep DEF TypeOK

LEMMA SocketSu ==
  ASSUME TypeOK, SocketInv, NEW s \in Su,
         Start(s) \/ SuStep(s) \/ Signal(s) \/ Kill(s)
  PROVE  SocketInv'
<1> USE DEF Without
<1>1. CASE Start(s)
  <2>1. \A p \in Pid : file[p] # s
    BY <1>1 DEF Start, SocketInv, Holds
  <2>2. /\ \A t \in Su \ {s} : pid'[t] = pid[t] /\ pc'[t] = pc[t]
        /\ UNCHANGED <<hooks, sockPath, file>>
    BY <1>1 DEF TypeOK, Start, Goto
  <2> QED
    BY <2>1, <2>2, SocketStep
<1>2. CASE DatabaseCheck(s)
  <2>1. PICK l \in {"socket_create_temp", "allow", "deny"} : Goto(s, l)
    BY <1>2 DEF DatabaseCheck
  <2>2. pc[s] = "database_check" /\ UNCHANGED <<pid, hooks, sockPath, file>>
    BY <1>2 DEF DatabaseCheck
  <2> QED
    BY <2>1, <2>2, SocketMoves
<1>3. CASE SocketCreateTemp(s)
  <2>1. /\ pc[s] = "socket_create_temp" /\ UNCHANGED <<pid, hooks>>
        /\ \A p \in Pid : file[p] # s
    BY <1>3 DEF SocketCreateTemp, SocketInv, Holds
  <2>2. CASE UNCHANGED <<file, sockPath>>
    BY <1>3, <2>1, <2>2, SocketMoves DEF SocketCreateTemp
  <2>3. CASE ~UNCHANGED <<file, sockPath>>
    <3>1. PICK l \in {"signal", "deny"}, o \in {s, None} :
            /\ pc' = [pc EXCEPT ![s] = l]
            /\ file' = [file EXCEPT ![pid[s]] = o]
            /\ sockPath' = [sockPath EXCEPT ![s] = TRUE]
      BY <1>3, <2>3 DEF SocketCreateTemp, Goto
    <3>2. \A p \in Pid : file'[p] = s => pid[s] = p
      BY <2>1, <3>1 DEF TypeOK
    <3>3. \A p \in Pid : file'[p] \in {None, s} \/ file'[p] = file[p]
      BY <3>1 DEF TypeOK
    <3>4. /\ pc'[s] = l /\ sockPath'[s]
          /\ \A t \in Su \ {s} : pc'[t] = pc[t] /\ sockPath'[t] = sockPath[t]
      BY <3>1 DEF TypeOK
    <3>5. \A p \in Pid : file'[p] = s => Holds(s, p)'
      BY <2>1, <3>2, <3>4 DEF Holds
    <3> QED
      BY <2>1, <3>3, <3>4, <3>5, SocketStep
  <2> QED
    BY <2>2, <2>3
<1>4. CASE InstallHandlers(s) \/ SendRequest(s)
  <2>1. PICK l \in {"send_request", "socket_accept", "deny"} : Goto(s, l)
    BY <1>4 DEF InstallHandlers, SendRequest
  <2>2. pc' = [pc EXCEPT ![s] = l]
    BY <2>1 DEF Goto
  <2>3. /\ UNCHANGED <<pid, sockPath, file>>
        /\ \A t \in Su \ {s} : hooks'[t] = hooks[t]
    BY <1>4 DEF TypeOK, InstallHandlers, SendRequest
  <2>4. ASSUME NEW p \in Pid, file'[p] = s PROVE Holds(s, p)'
    BY <2>2, <2>3, <2>4 DEF TypeOK, SocketInv, Holds
  <2> QED
    BY <2>2, <2>3, <2>4, SocketStep DEF TypeOK
<1>5. CASE SocketAccept(s) \/ SocketReceiveResult(s) \/ Kill(s)
  <2>1. PICK l \in {"socket_send_request", "deny", "cleanup_allow",
                    "cleanup_deny", "killed"} : Goto(s, l)
    BY <1>5 DEF SocketAccept, SocketReceiveResult, Kill
  <2>2. UNCHANGED <<pid, hooks, sockPath, file>>
    BY <1>5 DEF SocketAccept, SocketReceiveResult, Kill
  <2> QED
    BY <2>1, <2>2, SocketMoves
<1>6. ASSUME SocketCleanup(s), NEW l \in PCs, Goto(s, l), UNCHANGED <<pid, hooks>>
      PROVE  SocketInv'
  BY <1>6, CleanupRemoves, SocketStep DEF TypeOK, Goto
<1>7. CASE SocketSendRequest(s)
  <2>1. CASE sock[fd[s]] = "open"
    <3>1. /\ Goto(s, "socket_receive_result")
          /\ UNCHANGED <<pid, hooks, sockPath, file>>
      BY <1>7, <2>1 DEF SocketSendRequest
    <3> QED
      BY <3>1, SocketMoves
  <2>2. CASE sock[fd[s]] # "open"
    <3>1. SocketCleanup(s) /\ Goto(s, "signalled") /\ UNCHANGED <<pid, hooks>>
      BY <1>7, <2>2 DEF SocketSendRequest, CleanupSignal
    <3> QED
      BY <1>6, <3>1
  <2> QED
    BY <2>1, <2>2
<1>8. CASE CloseSocket(s) \/ Signal(s)
  <2>1. PICK l \in {"allow", "deny", "signalled"} : Goto(s, l)
    BY <1>8 DEF CloseSocket, Signal, CleanupSignal
  <2>2. SocketCleanup(s) /\ UNCHANGED <<pid, hooks>>
    BY <1>8 DEF CloseSocket, Signal, CleanupSignal
  <2> QED
    BY <1>6, <2>1, <2>2
<1>9. CASE Deny(s)
  <2>1. Goto(s, "refused") /\ UNCHANGED <<pid, hooks>>
    BY <1>9 DEF Deny, Exit
  <2>2. CASE "atexit" \in hooks[s]
    <3>1. SocketCleanup(s)
      BY <1>9, <2>2 DEF Deny, Exit
    <3> QED
      BY <1>6, <2>1, <3>1
  <2>3. CASE "atexit" \notin hooks[s]
    <3>1. UNCHANGED <<sockPath, file>> /\ pc' = [pc EXCEPT ![s] = "refused"]
      BY <1>9, <2>1, <2>3 DEF Deny, Exit, Goto
    <3>2. ASSUME NEW p \in Pid, file'[p] = s PROVE Holds(s, p)'
      BY <2>1, <2>3, <3>1, <3>2 DEF TypeOK, SocketInv, Holds
    <3> QED
      BY <2>1, <3>1, <3>2, SocketStep DEF TypeOK
  <2> QED
    BY <2>2, <2>3
<1>10. CASE Allow(s)
  <2>1. PICK l \in {"failed", "granted"} : Goto(s, l)
    BY <1>10 DEF Allow, Exit
  <2>2. pc[s] = "allow" /\ UNCHANGED <<pid, hooks>>
    BY <1>10 DEF Allow, Exit
  <2>3. SocketCleanup(s) \/ UNCHANGED <<sockPath, file>>
    BY <1>10 DEF Allow, Exit
  <2> QED
    BY <1>6, <2>1, <2>2, <2>3, SocketMoves
<1> QED
  BY <1>1, <1>2, <1>3, <1>4, <1>5, <1>7, <1>8, <1>9, <1>10 DEF SuStep

(* The app deletes files, and makes none.                                  *)
LEMMA SocketApp ==
  ASSUME TypeOK, SocketInv, UNCHANGED suVars, [Next]_vars
  PROVE  SocketInv'
<1>1. ASSUME NEW s \in Su, Start(s) \/ SuStep(s) \/ Signal(s) \/ Kill(s)
      PROVE  SocketInv'
  BY <1>1, SocketSu
<1>2. ASSUME \A p \in Pid : file'[p] = None \/ file'[p] = file[p]
      PROVE  SocketInv'
  BY <1>2 DEF SocketInv, Holds
<1>3. ASSUME NEW a \in Act, UserStep(a) PROVE UNCHANGED file
  BY <1>3 DEF UserStep, ClickDeny, ClickAllow, EnterPin, CancelPin,
     ConfigurationChanged, Decide, HandleAction, AssertionFails
<1>4. ASSUME NEW a \in Act, UiStep(a)
      PROVE  \A p \in Pid : file'[p] = None \/ file'[p] = file[p]
  <2>1. CASE DeleteFile(a)
    BY <2>1 DEF TypeOK, DeleteFile
  <2>2. CASE ~DeleteFile(a)
    <3>1. UNCHANGED file
      BY <1>4, <2>2 DEF UiStep, OnCreate, RunRequestReady, EnableAllow,
         AutoRespond, RequestTimeout, Watchdog, RunFinish, OnDestroy, HandleAction
    <3> QED
      BY <3>1
  <2> QED
    BY <2>1, <2>2
<1>5. ASSUME NEW a \in Act, ThreadStep(a) PROVE UNCHANGED file
  BY <1>5 DEF ThreadStep, NewSocket, Connect, ReadRequest
<1>6. CASE \/ LoseIntent \/ KillApp \/ UNCHANGED vars
           \/ \E r \in Uid \X Target : ForgetPolicy(r)
  <2>1. UNCHANGED file
    BY <1>6 DEF LoseIntent, KillApp, ForgetPolicy, vars
  <2> QED
    BY <1>2, <2>1
<1> QED
  BY <1>1, <1>2, <1>3, <1>4, <1>5, <1>6 DEF Next, Terminated

(* However it ends, su leaves no socket behind once it has waited for a    *)
(* connection or handled a signal, unless it is killed.                    *)
THEOREM SocketTheorem == Spec => []NoSocketLeft
<1>1. Init => SocketInv
  BY DEF Init, SocketInv
<1>2. TypeOK /\ SocketInv /\ [Next]_vars => SocketInv'
  BY SocketSu, SocketApp, OthersLeaveSu
<1>3. SocketInv => NoSocketLeft
  BY DEF SocketInv, NoSocketLeft, Holds, Without
<1> QED
  BY <1>1, <1>2, <1>3, TypeCorrect, PTL DEF Spec

-----------------------------------------------------------------------------
(* A caller who is barred by the permission: no row of the database allows *)
(* him, and the dialog of his request has no way to.                       *)
Barred(u) == settings.requirePermission /\ u \notin Declared

Free(a) == caller[a] # None => ~Barred(uid[caller[a]])

RowsBar == \A r \in Uid \X Target : policy[r] = "ALLOW" => ~Barred(r[1])

LookupBars ==
  \A s \in Su : /\ pc[s] = "idle" => dballow[s] # "ALLOW"
                /\ dballow[s] = "ALLOW" => ~Barred(uid[s])

DialogBars ==
  \A a \in Act : /\ decision[a] = "ALLOW" => Free(a)
                 /\ posted[a] = "ALLOW" => Free(a)
                 /\ ui[a] \in {"both", "pin"} => Free(a)

PermissionInv == RowsBar /\ LookupBars /\ DialogBars

(* A callback: whoever it lets allow is free.                              *)
LEMMA CallbackBars ==
  ASSUME PermissionInv, UNCHANGED <<suVars, settings, caller>>,
         \A r \in Uid \X Target :
           policy'[r] = "ALLOW" => policy[r] = "ALLOW" \/ ~Barred(r[1]),
         \A a \in Act :
           /\ decision'[a] = "ALLOW" => decision[a] = "ALLOW" \/ Free(a)
           /\ posted'[a] = "ALLOW" => posted[a] = "ALLOW" \/ Free(a)
           /\ ui'[a] \in {"both", "pin"} => ui[a] \in {"both", "pin"} \/ Free(a)
  PROVE  PermissionInv'
<1>1. \A u : Barred(u)' <=> Barred(u)
  BY DEF Barred
<1>2. \A a \in Act : Free(a)' <=> Free(a)
  BY DEF Free, Barred
<1>3. RowsBar'
  BY <1>1 DEF PermissionInv, RowsBar, Barred
<1>4. LookupBars'
  BY DEF PermissionInv, LookupBars, Barred
<1>5. DialogBars'
  BY <1>2 DEF PermissionInv, DialogBars
<1> QED
  BY <1>3, <1>4, <1>5 DEF PermissionInv

LEMMA HandleBars ==
  ASSUME IInv, PermissionInv, NEW a \in Act, NEW d \in Answers,
         NEW remember \in BOOLEAN, HandleAction(a, d, remember),
         d = "ALLOW" => Free(a), d = "ALLOW" \/ remember => shown[a]
  PROVE  /\ UNCHANGED <<suVars, settings, caller>>
         /\ \A r \in Uid \X Target :
              policy'[r] = "ALLOW" => policy[r] = "ALLOW" \/ ~Barred(r[1])
         /\ \A b \in Act : decision'[b] = "ALLOW" => decision[b] = "ALLOW" \/ Free(b)
<1> USE DEF IInv
<1>1. /\ decision' = [decision EXCEPT ![a] = d]
      /\ UNCHANGED <<suVars, settings, caller>>
  BY DEF HandleAction
<1>2. ASSUME NEW r \in Uid \X Target, policy'[r] = "ALLOW", policy[r] # "ALLOW"
      PROVE  ~Barred(r[1])
  <2> DEFINE k == <<uid[caller[a]], desired[caller[a]]>>
  <2>1. remember /\ policy' = [policy EXCEPT ![k] = d]
    BY <1>2 DEF HandleAction, SetPolicy
  <2> HIDE DEF k
  <2>2. r = k /\ d = "ALLOW"
    BY <1>2, <2>1 DEF TypeOK
  <2>3. caller[a] # None
    BY <2>1 DEF ShownWasRead
  <2>4. ~Barred(uid[caller[a]])
    BY <2>2, <2>3 DEF Free
  <2> QED
    BY <2>2, <2>4 DEF k
<1> QED
  BY <1>1, <1>2 DEF TypeOK

LEMMA DecideBars ==
  ASSUME IInv, PermissionInv, NEW a \in Act, NEW d \in Answers,
         NEW remember \in BOOLEAN, NEW b \in {"none", "pin"},
         Decide(a, d, remember, b), d = "ALLOW" => Free(a),
         d = "ALLOW" \/ remember => shown[a], b = "pin" => ui[a] = "pin"
  PROVE  PermissionInv'
<1> USE DEF IInv
<1>1. CASE AssertionFails(a)
  <2>1. /\ \A c \in Act : ui'[c] = "none" /\ posted'[c] = "none"
        /\ UNCHANGED <<suVars, settings, caller, policy, decision>>
    BY <1>1 DEF AssertionFails, AppDies
  <2> QED
    BY <2>1, CallbackBars
<1>2. CASE ~AssertionFails(a)
  <2>1. /\ HandleAction(a, d, remember)
        /\ ui' = [ui EXCEPT ![a] = b]
        /\ UNCHANGED posted
    BY <1>2 DEF Decide
  <2>2. \A c \in Act : ui'[c] \in {"both", "pin"} => ui[c] \in {"both", "pin"}
    BY <2>1 DEF TypeOK
  <2> QED
    BY <2>1, <2>2, HandleBars, CallbackBars
<1> QED
  BY <1>1, <1>2

(* requestReady allows nobody who is barred.                               *)
LEMMA ReadyBars ==
  ASSUME IInv, NEW a \in Act, RequestReady(a)
  PROVE  \A b \in Act : posted'[b] = "ALLOW" => posted[b] = "ALLOW" \/ Free(b)
<1>1. posted'[a] = "ALLOW" => Response(uid[caller[a]]) = "ALLOW"
  BY DEF IInv, TypeOK, RequestReady
<1>2. Response(uid[caller[a]]) = "ALLOW" => Free(a)
  BY DEF Response, Free, Barred
<1> QED
  BY <1>1, <1>2 DEF IInv, TypeOK, RequestReady

LEMMA UserBars ==
  ASSUME IInv, PermissionInv, NEW a \in Act, UserStep(a)
  PROVE  PermissionInv'
<1> USE DEF IInv
<1>1. CASE ClickDeny(a)
  <2>1. PICK remember \in Remember(a) : Decide(a, "DENY", remember, "none")
    BY <1>1 DEF ClickDeny
  <2>2. remember \in BOOLEAN /\ (remember => shown[a])
    BY <2>1 DEF Remember
  <2> QED
    BY <2>1, <2>2, DecideBars
<1>2. CASE ClickAllow(a)
  <2>1. ui[a] = "both" /\ shown[a] /\ Free(a)
    BY <1>2 DEF ClickAllow, ShownWasRead, PermissionInv, DialogBars
  <2>2. CASE settings.pin
    <3>1. /\ ui' = [ui EXCEPT ![a] = "pin"]
          /\ UNCHANGED <<suVars, settings, caller, policy, decision, posted>>
      BY <1>2, <2>2 DEF ClickAllow
    <3> QED
      BY <2>1, <3>1, CallbackBars DEF TypeOK
  <2>3. CASE ~settings.pin
    <3>1. PICK remember \in BOOLEAN : Decide(a, "ALLOW", remember, "none")
      BY <1>2, <2>3 DEF ClickAllow, Remember
    <3> QED
      BY <2>1, <3>1, DecideBars
  <2> QED
    BY <2>2, <2>3
<1>3. CASE EnterPin(a)
  <2>1. ui[a] = "pin" /\ shown[a] /\ Free(a)
    BY <1>3 DEF EnterPin, ShownWasRead, PermissionInv, DialogBars
  <2>2. PICK remember \in BOOLEAN : Decide(a, "ALLOW", remember, "pin")
    BY <1>3 DEF EnterPin
  <2> QED
    BY <2>1, <2>2, DecideBars
<1>4. CASE CancelPin(a)
  <2>1. ui[a] = "pin" /\ Decide(a, "DENY", FALSE, "pin")
    BY <1>4 DEF CancelPin, Remember
  <2> QED
    BY <2>1, DecideBars
<1>5. CASE ConfigurationChanged(a)
  <2>1. /\ ui' = [ui EXCEPT ![a] = "deny"]
        /\ UNCHANGED <<suVars, settings, caller, policy, decision>>
        /\ RequestReady(a) \/ UNCHANGED posted
    BY <1>5 DEF ConfigurationChanged
  <2>2. \A c \in Act : ui'[c] \in {"both", "pin"} => ui[c] \in {"both", "pin"}
    BY <2>1 DEF TypeOK
  <2> QED
    BY <2>1, <2>2, ReadyBars, CallbackBars
<1> QED
  BY <1>1, <1>2, <1>3, <1>4, <1>5 DEF UserStep

LEMMA UiBars ==
  ASSUME IInv, PermissionInv, NEW a \in Act, UiStep(a)
  PROVE  PermissionInv'
<1> USE DEF IInv
<1>1. CASE OnCreate(a) \/ Watchdog(a) \/ RunFinish(a) \/ DeleteFile(a)
  <2>1. UNCHANGED <<suVars, settings, caller, policy, decision, posted>>
    BY <1>1 DEF OnCreate, Watchdog, RunFinish, DeleteFile
  <2>2. \A c \in Act : ui'[c] \in {"both", "pin"} => ui[c] \in {"both", "pin"}
    BY <1>1 DEF TypeOK, OnCreate, Watchdog, RunFinish, DeleteFile
  <2> QED
    BY <2>1, <2>2, CallbackBars
<1>2. CASE RunRequestReady(a)
  <2>1. RequestReady(a) /\ UNCHANGED <<suVars, settings, caller, policy, decision, ui>>
    BY <1>2 DEF RunRequestReady
  <2> QED
    BY <2>1, ReadyBars, CallbackBars
<1>3. CASE EnableAllow(a)
  <2>1. /\ Response(uid[caller[a]]) = "prompt"
        /\ ui' = [ui EXCEPT ![a] = "both"]
        /\ UNCHANGED <<suVars, settings, caller, policy, decision, posted>>
    BY <1>3 DEF EnableAllow
  <2>2. Free(a)
    BY <2>1 DEF Response, Free, Barred
  <2> QED
    BY <2>1, <2>2, CallbackBars DEF TypeOK
<1>4. CASE AutoRespond(a)
  <2>1. /\ posted[a] # "none" /\ posted[a] \in Answers /\ shown[a]
        /\ posted' = [posted EXCEPT ![a] = "none"] /\ UNCHANGED ui
    BY <1>4 DEF TypeOK, AutoRespond, ShownWasRead
  <2>2. \A c \in Act : posted'[c] = "ALLOW" => posted[c] = "ALLOW"
    BY <2>1 DEF TypeOK
  <2>3. CASE decision[a] = "none"
    <3>1. HandleAction(a, posted[a], TRUE)
      BY <1>4, <2>3 DEF AutoRespond
    <3>2. posted[a] = "ALLOW" => Free(a)
      BY DEF PermissionInv, DialogBars
    <3> QED
      BY <2>1, <2>2, <3>1, <3>2, HandleBars, CallbackBars
  <2>4. CASE decision[a] # "none"
    <3>1. UNCHANGED <<suVars, settings, caller, policy, decision>>
      BY <1>4, <2>4 DEF AutoRespond
    <3> QED
      BY <2>1, <2>2, <3>1, CallbackBars
  <2> QED
    BY <2>3, <2>4
<1>5. CASE RequestTimeout(a)
  <2>1. HandleAction(a, "DENY", FALSE) /\ UNCHANGED <<posted, ui>>
    BY <1>5 DEF RequestTimeout
  <2> QED
    BY <2>1, HandleBars, CallbackBars
<1>6. CASE OnDestroy(a)
  <2>1. CASE decision[a] = "none"
    <3>1. HandleAction(a, "DENY", FALSE) /\ UNCHANGED <<posted, ui>>
      BY <1>6, <2>1 DEF OnDestroy
    <3> QED
      BY <3>1, HandleBars, CallbackBars
  <2>2. CASE decision[a] # "none"
    <3>1. UNCHANGED <<suVars, settings, caller, policy, decision, posted, ui>>
      BY <1>6, <2>2 DEF OnDestroy
    <3> QED
      BY <3>1, CallbackBars
  <2> QED
    BY <2>1, <2>2
<1> QED
  BY <1>1, <1>2, <1>3, <1>4, <1>5, <1>6 DEF UiStep

(* What is read was not decided before, nor can be clicked yet.            *)
LEMMA ThreadBars ==
  ASSUME IInv, PermissionInv, NEW a \in Act, ThreadStep(a)
  PROVE  PermissionInv'
<1> USE DEF IInv
<1>1. UNCHANGED <<suVars, settings, policy, decision, posted, ui>>
  BY DEF ThreadStep, NewSocket, Connect, ReadRequest
<1>2. CASE UNCHANGED caller
  BY <1>1, <1>2, CallbackBars
<1>3. CASE ~UNCHANGED caller
  <2>1. caller' = [caller EXCEPT ![a] = peer[a]] /\ caller[a] # peer[a]
    BY <1>3 DEF TypeOK, ThreadStep, NewSocket, Connect, ReadRequest, ThreadFails
  <2>2. caller[a] = None
    BY <2>1 DEF OneReader
  <2>3. decision[a] # "ALLOW" /\ posted[a] = "none" /\ ui[a] \notin {"both", "pin"}
    BY <2>2 DEF ShownWasRead
  <2>4. \A b \in Act \ {a} : Free(b)' <=> Free(b)
    BY <1>1, <2>1 DEF TypeOK, Free, Barred
  <2>5. DialogBars'
    BY <1>1, <2>3, <2>4 DEF PermissionInv, DialogBars
  <2>6. RowsBar' /\ LookupBars'
    BY <1>1 DEF PermissionInv, RowsBar, LookupBars, Barred
  <2> QED
    BY <2>5, <2>6 DEF PermissionInv
<1> QED
  BY <1>2, <1>3

LEMMA SuBars ==
  ASSUME IInv, PermissionInv, NEW s \in Su,
         Start(s) \/ SuStep(s) \/ Signal(s) \/ Kill(s)
  PROVE  PermissionInv'
<1> USE DEF IInv
<1>1. UNCHANGED app
  BY DEF Start, SuStep, DatabaseCheck, SocketCreateTemp, InstallHandlers,
     SendRequest, SocketAccept, SocketSendRequest, SocketReceiveResult,
     CloseSocket, Deny, Allow, Exit, Signal, Kill
<1>2. RowsBar'
  BY <1>1 DEF PermissionInv, RowsBar, Barred
<1>3. \A a \in Act : caller[a] # None => caller[a] \in Su /\ pc[caller[a]] # "idle"
  BY DEF TypeOK, OneReader, Unaccepted
<1>4. \A t \in Su : uid'[t] = uid[t] \/ (t = s /\ pc[s] = "idle")
  <2>1. CASE Start(s)
    BY <2>1 DEF TypeOK, Start
  <2>2. CASE ~Start(s)
    BY <2>2 DEF SuStep, DatabaseCheck, SocketCreateTemp, InstallHandlers,
       SendRequest, SocketAccept, SocketSendRequest, SocketReceiveResult,
       CloseSocket, Deny, Allow, Exit, Signal, Kill
  <2> QED
    BY <2>1, <2>2
<1>5. \A a \in Act : Free(a)' <=> Free(a)
  BY <1>1, <1>3, <1>4 DEF Free, Barred
<1>6. DialogBars'
  BY <1>1, <1>5 DEF PermissionInv, DialogBars
<1>7. \A t \in Su : pc'[t] = "idle" => pc[t] = "idle" /\ dballow'[t] = dballow[t]
  <2>1. PICK l \in PCs \ {"idle"} : Goto(s, l)
    BY DEF Start, SuStep, DatabaseCheck, SocketCreateTemp, InstallHandlers,
       SendRequest, SocketAccept, SocketSendRequest, CleanupSignal,
       SocketReceiveResult, CloseSocket, Deny, Allow, Exit, Signal, Kill
  <2>2. \A t \in Su \ {s} : dballow'[t] = dballow[t]
    <3>1. CASE DatabaseCheck(s)
      BY <3>1 DEF TypeOK, DatabaseCheck
    <3>2. CASE ~DatabaseCheck(s)
      BY <3>2 DEF Start, SuStep, SocketCreateTemp, InstallHandlers,
         SendRequest, SocketAccept, SocketSendRequest, SocketReceiveResult,
         CloseSocket, Deny, Allow, Exit, Signal, Kill
    <3> QED
      BY <3>1, <3>2
  <2> QED
    BY <2>1, <2>2 DEF TypeOK, Goto
<1>8. LookupBars'
  <2>1. CASE DatabaseCheck(s)
    <3>1. PICK r \in {"INTERACTIVE"} \cup Answers :
            /\ dballow' = [dballow EXCEPT ![s] = r]
            /\ r = "ALLOW" => QueryResult(uid[s]) = "ALLOW"
      BY <2>1 DEF DatabaseCheck
    <3>2. uid[s] \in Uid /\ UNCHANGED uid
      BY <2>1 DEF Named, DatabaseCheck
    <3>3. ASSUME r = "ALLOW" PROVE ~Barred(uid[s])
      <4>1. Rows(uid[s], "ALLOW") # {}
        BY <3>1, <3>3 DEF QueryResult
      <4>2. PICK t \in Target : policy[<<uid[s], t>>] = "ALLOW"
        BY <4>1 DEF Rows
      <4>3. <<uid[s], t>> \in Uid \X Target
        BY <3>2
      <4>4. ~Barred(<<uid[s], t>>[1])
        BY <4>2, <4>3 DEF PermissionInv, RowsBar
      <4> QED
        BY <4>4
    <3>4. \A t \in Su : dballow'[t] = "ALLOW" => ~Barred(uid[t])
      BY <3>1, <3>3 DEF TypeOK, PermissionInv, LookupBars
    <3>5. pc'[s] # "idle"
      BY <1>7, <2>1 DEF DatabaseCheck
    <3> QED
      BY <1>1, <1>7, <3>1, <3>2, <3>4 DEF PermissionInv, LookupBars, Barred
  <2>2. CASE ~DatabaseCheck(s)
    <3>1. UNCHANGED dballow
      BY <2>2 DEF Start, SuStep, SocketCreateTemp, InstallHandlers,
         SendRequest, SocketAccept, SocketSendRequest, SocketReceiveResult,
         CloseSocket, Deny, Allow, Exit, Signal, Kill
    <3>2. \A t \in Su : dballow[t] = "ALLOW" => uid'[t] = uid[t]
      BY <1>4 DEF PermissionInv, LookupBars
    <3> QED
      BY <1>1, <1>7, <3>1, <3>2 DEF PermissionInv, LookupBars, Barred
  <2> QED
    BY <2>1, <2>2
<1> QED
  BY <1>2, <1>6, <1>8 DEF PermissionInv

LEMMA PermissionStep ==
  ASSUME IInv, PermissionInv, [Next]_vars
  PROVE  PermissionInv'
<1>1. CASE \/ LoseIntent \/ UNCHANGED vars
  BY <1>1, CallbackBars DEF LoseIntent, vars
<1>2. CASE KillApp
  <2>1. /\ \A c \in Act : ui'[c] = "none" /\ posted'[c] = "none"
        /\ UNCHANGED <<suVars, settings, caller, policy, decision>>
    BY <1>2 DEF KillApp, AppDies
  <2> QED
    BY <2>1, CallbackBars
<1>3. ASSUME NEW r \in Uid \X Target, ForgetPolicy(r)
      PROVE  PermissionInv'
  <2>1. /\ policy' = [policy EXCEPT ![r] = "none"]
        /\ UNCHANGED <<suVars, settings, caller, decision, posted, ui>>
    BY <1>3 DEF ForgetPolicy
  <2> QED
    BY <2>1, CallbackBars DEF IInv, TypeOK
<1> QED
  BY <1>1, <1>2, <1>3, SuBars, UserBars, UiBars, ThreadBars DEF Next, Terminated

(* While the permission is required, a caller who does not declare it is   *)
(* never granted anything: neither the automatic response, nor a button,   *)
(* nor an answer that was remembered allows him.                           *)
THEOREM PermissionTheorem == Spec => []UndeclaredRefused
<1>1. Init => PermissionInv
  BY DEF Init, PermissionInv, RowsBar, LookupBars, DialogBars
<1>2. IInv /\ PermissionInv /\ [Next]_vars => PermissionInv'
  BY PermissionStep
<1>3. ASSUME IInv, PermissionInv, NEW s \in Su, pc[s] = "granted"
      PROVE  ~Barred(uid[s])
  <2>1. CASE dballow[s] = "ALLOW"
    BY <1>3, <2>1 DEF PermissionInv, LookupBars
  <2>2. CASE dballow[s] # "ALLOW"
    <3>1. fd[s] # None /\ caller[fd[s]] = s /\ decision[fd[s]] = "ALLOW"
      BY <1>3, <2>2 DEF IInv, GrantedByConsent
    <3>2. fd[s] \in Act
      BY <1>3, <3>1 DEF IInv, TypeOK
    <3>3. Free(fd[s])
      BY <1>3, <3>1, <3>2 DEF PermissionInv, DialogBars
    <3> QED
      BY <3>1, <3>3 DEF Free
  <2> QED
    BY <2>1, <2>2
<1>4. IInv /\ PermissionInv => UndeclaredRefused
  BY <1>3 DEF UndeclaredRefused, Barred
<1> QED
  BY <1>1, <1>2, <1>4, Invariance, PTL DEF Spec
-----------------------------------------------------------------------------
(* What a step may do to the dialogs.  A dialog that is open is undecided: *)
(* whatever decides it finishes it too, so that its timer, which would     *)
(* fail the assertion otherwise, may still deny.                           *)
OpenUndecided == \A a \in Act : phase[a] \in {"none", "open"} => decision[a] = "none"

Wired == \A a \in Act : peer[a] # None => sock[a] # "null"

WroteDecided == \A a \in Act : wrote[a] => decision[a] \in Answers

(* How much is left of the life of a dialog.                               *)
DialogRank(a) ==
  CASE phase[a] = "none" -> 4
    [] phase[a] = "open" -> 3
    [] phase[a] = "finishing" -> 2
    [] phase[a] = "destroying" -> 1
    [] phase[a] = "gone" -> 0

DialogMove(a) ==
  /\ DialogRank(a)' <= DialogRank(a)
  /\ \/ decision'[a] = decision[a] /\ wrote'[a] = wrote[a]
     \/ /\ decision[a] = "none" /\ decision'[a] \in Answers
        /\ wrote'[a] = (peer[a] # None /\ sock[a] = "open")
        /\ phase'[a] \notin {"none", "open"}
  /\ \/ peer'[a] = peer[a]
     \/ thread[a] = "connect" /\ sock[a] = "open" /\ sock'[a] = "open"
  /\ \/ sock'[a] = sock[a]
     \/ sock'[a] = "closed"
     \/ thread[a] = "new"

(* The dialogs that nothing happens to.                                    *)
LEMMA DialogRests ==
  ASSUME TypeOK, NEW a \in Act, phase'[a] = phase[a], decision'[a] = decision[a],
         wrote'[a] = wrote[a], peer'[a] = peer[a], sock'[a] = sock[a]
  PROVE  DialogMove(a) /\ DialogRank(a)' = DialogRank(a)
<1>1. DialogRank(a)' = DialogRank(a) /\ DialogRank(a) \in Nat
  BY DEF DialogRank, TypeOK
<1> QED
  BY <1>1 DEF DialogMove

(* A later phase is a lower rank.                                          *)
LEMMA PhaseRank ==
  ASSUME TypeOK, NEW a \in Act
  PROVE  /\ phase'[a] = phase[a] => DialogRank(a)' <= DialogRank(a)
         /\ phase[a] = "none" /\ phase'[a] \in {"open", "finishing"}
              => DialogRank(a)' <= DialogRank(a)
         /\ phase[a] = "open" /\ phase'[a] = "finishing" => DialogRank(a)' < DialogRank(a)
         /\ phase[a] = "finishing" /\ phase'[a] = "destroying"
              => DialogRank(a)' < DialogRank(a)
         /\ phase[a] = "destroying" /\ phase'[a] = "gone" => DialogRank(a)' < DialogRank(a)
         /\ phase'[a] = "gone" => DialogRank(a)' <= DialogRank(a)
         /\ DialogRank(a) \in Nat
<1>1. phase[a] \in {"none", "open", "finishing", "destroying", "gone"}
  BY DEF TypeOK
<1> QED
  BY <1>1 DEF DialogRank

LEMMA FinishRank ==
  ASSUME TypeOK, NEW a \in Act, Finish(a)
  PROVE  /\ DialogRank(a)' <= DialogRank(a)
         /\ phase'[a] # "open" /\ (phase'[a] = "none" => phase[a] = "none")
         /\ phase[a] = "open" => DialogRank(a)' < DialogRank(a)
         /\ \A b \in Act \ {a} : phase'[b] = phase[b]
<1>1. /\ phase'[a] = IF phase[a] = "open" THEN "finishing" ELSE phase[a]
      /\ \A b \in Act \ {a} : phase'[b] = phase[b]
  BY DEF TypeOK, Finish
<1>2. CASE phase[a] = "open"
  <2>1. phase'[a] = "finishing"
    BY <1>1, <1>2
  <2> QED
    BY <1>1, <1>2, <2>1 DEF DialogRank
<1>3. CASE phase[a] # "open"
  BY <1>1, <1>3, PhaseRank
<1> QED
  BY <1>2, <1>3

LEMMA AppDiesMoves ==
  ASSUME TypeOK, AppDies, UNCHANGED <<peer, decision, wrote>>
  PROVE  \A a \in Act : DialogMove(a)
<1> SUFFICES ASSUME NEW a \in Act PROVE DialogMove(a)
  OBVIOUS
<1>1. /\ phase'[a] \in {phase[a], "gone"}
      /\ sock'[a] \in {sock[a], "closed"}
  BY DEF AppDies
<1> QED
  BY <1>1, PhaseRank DEF DialogMove

(* A decision, together with the end of the dialog.                        *)
LEMMA HandledMoves ==
  ASSUME TypeOK, NEW a \in Act, NEW d \in Answers, NEW remember,
         HandleAction(a, d, remember),
         DialogRank(a)' <= DialogRank(a), phase'[a] \notin {"none", "open"},
         sock'[a] \in {sock[a], "closed"},
         \A b \in Act \ {a} : phase'[b] = phase[b] /\ sock'[b] = sock[b]
  PROVE  \A b \in Act : DialogMove(b)
<1>1. /\ decision[a] = "none" /\ decision'[a] = d /\ peer' = peer
      /\ wrote'[a] = (peer[a] # None /\ sock[a] = "open")
      /\ \A b \in Act \ {a} : decision'[b] = decision[b] /\ wrote'[b] = wrote[b]
  BY DEF HandleAction, TypeOK
<1>2. DialogMove(a)
  BY <1>1 DEF DialogMove
<1>3. \A b \in Act \ {a} : DialogMove(b)
  BY <1>1, DialogRests
<1> QED
  BY <1>2, <1>3

LEMMA DecideMoves ==
  ASSUME TypeOK, NEW a \in Act, phase[a] # "none", NEW d \in Answers, NEW remember, NEW x,
         Decide(a, d, remember, x)
  PROVE  \A b \in Act : DialogMove(b)
<1>1. CASE AssertionFails(a)
  BY <1>1, AppDiesMoves DEF AssertionFails
<1>2. CASE ~AssertionFails(a)
  <2>1. HandleAction(a, d, remember) /\ Finish(a) /\ UNCHANGED sock
    BY <1>2 DEF Decide
  <2> QED
    BY <2>1, FinishRank, HandledMoves
<1> QED
  BY <1>1, <1>2

LEMMA UserMoves ==
  ASSUME TypeOK, NEW a \in Act, UserStep(a)
  PROVE  \A b \in Act : DialogMove(b)
<1>1. phase[a] # "none"
  BY DEF UserStep, ClickDeny, ClickAllow, EnterPin, CancelPin, ConfigurationChanged, Visible
<1>2. CASE \E d \in Answers : \E remember \in BOOLEAN : \E x \in {"none", "pin"} :
             Decide(a, d, remember, x)
  BY <1>1, <1>2, DecideMoves
<1>3. CASE UNCHANGED <<phase, decision, wrote, peer, sock>>
  BY <1>3, DialogRests
<1>4. Remember(a) \subseteq BOOLEAN
  BY DEF Remember
<1> QED
  BY <1>2, <1>3, <1>4
     DEF UserStep, ClickDeny, ClickAllow, EnterPin, CancelPin, ConfigurationChanged

LEMMA UiMoves ==
  ASSUME IInv, OpenUndecided, NEW a \in Act, UiStep(a)
  PROVE  \A b \in Act : DialogMove(b)
<1>0. TypeOK
  BY DEF IInv
<1>1. CASE OnCreate(a)
  <2>1. /\ phase[a] = "none" /\ phase'[a] \in {"open", "finishing"}
        /\ \A b \in Act \ {a} : phase'[b] = phase[b]
        /\ UNCHANGED <<decision, wrote, peer, sock>>
    BY <1>0, <1>1 DEF OnCreate, TypeOK
  <2>2. DialogMove(a)
    BY <1>0, <2>1, PhaseRank DEF DialogMove
  <2> QED
    BY <1>0, <2>1, <2>2, DialogRests
<1>2. CASE RunRequestReady(a) \/ EnableAllow(a)
  <2>1. UNCHANGED <<phase, decision, wrote, peer, sock>>
    BY <1>2 DEF RunRequestReady, EnableAllow
  <2> QED
    BY <1>0, <2>1, DialogRests
<1>3. CASE AutoRespond(a)
  <2>1. phase[a] # "none" /\ posted[a] \in Answers /\ UNCHANGED sock
    BY <1>3 DEF AutoRespond, IInv, TypeOK, ShownWasRead, Connected, Named
  <2>2. CASE decision[a] = "none"
    <3>1. HandleAction(a, posted[a], TRUE) /\ Finish(a)
      BY <1>3, <2>2 DEF AutoRespond
    <3> QED
      BY <1>0, <2>1, <3>1, FinishRank, HandledMoves
  <2>3. CASE decision[a] # "none"
    <3>1. UNCHANGED <<phase, decision, wrote, peer, sock>>
      BY <1>3, <2>3 DEF AutoRespond
    <3> QED
      BY <1>0, <3>1, DialogRests
  <2> QED
    BY <2>2, <2>3
<1>4. CASE RequestTimeout(a)
  <2>1. phase[a] = "open" /\ HandleAction(a, "DENY", FALSE) /\ Finish(a) /\ UNCHANGED sock
    BY <1>4 DEF RequestTimeout
  <2> QED
    BY <1>0, <2>1, FinishRank, HandledMoves
<1>5. CASE Watchdog(a) \/ RunFinish(a)
  <2>1. Finish(a) /\ UNCHANGED <<decision, wrote, peer, sock>>
    BY <1>5 DEF Watchdog, RunFinish
  <2>2. DialogMove(a)
    BY <1>0, <2>1, FinishRank DEF DialogMove
  <2> QED
    BY <1>0, <2>1, <2>2, FinishRank, DialogRests
<1>6. CASE OnDestroy(a)
  <2>1. /\ phase[a] = "finishing" /\ phase'[a] = "destroying"
        /\ sock'[a] \in {sock[a], "closed"}
        /\ \A b \in Act \ {a} : phase'[b] = phase[b] /\ sock'[b] = sock[b]
    BY <1>0, <1>6 DEF OnDestroy, TypeOK
  <2>2. DialogRank(a)' <= DialogRank(a)
    BY <1>0, <2>1 DEF DialogRank
  <2>3. CASE decision[a] = "none"
    <3>1. HandleAction(a, "DENY", FALSE)
      BY <1>6, <2>3 DEF OnDestroy
    <3> QED
      BY <1>0, <2>1, <2>2, <3>1, HandledMoves
  <2>4. CASE decision[a] # "none"
    <3>1. UNCHANGED <<decision, wrote, peer>>
      BY <1>6, <2>4 DEF OnDestroy
    <3>2. DialogMove(a)
      BY <2>1, <2>2, <3>1 DEF DialogMove
    <3> QED
      BY <1>0, <2>1, <3>1, <3>2, DialogRests
  <2> QED
    BY <2>3, <2>4
<1>7. CASE DeleteFile(a)
  <2>1. /\ phase'[a] = "gone" /\ \A b \in Act \ {a} : phase'[b] = phase[b]
        /\ UNCHANGED <<decision, wrote, peer, sock>>
    BY <1>0, <1>7 DEF DeleteFile, TypeOK
  <2>2. DialogMove(a)
    BY <1>0, <2>1, PhaseRank DEF DialogMove
  <2> QED
    BY <1>0, <2>1, <2>2, DialogRests
<1> QED
  BY <1>1, <1>2, <1>3, <1>4, <1>5, <1>6, <1>7 DEF UiStep

LEMMA ThreadMoves ==
  ASSUME TypeOK, NEW a \in Act, ThreadStep(a)
  PROVE  \A b \in Act : DialogMove(b)
<1>1. /\ UNCHANGED <<phase, decision, wrote>>
      /\ \A b \in Act \ {a} : peer'[b] = peer[b] /\ sock'[b] = sock[b]
  BY DEF ThreadStep, NewSocket, Connect, ReadRequest, ThreadFails, TypeOK
<1>2. /\ peer'[a] = peer[a] \/ (thread[a] = "connect" /\ sock[a] = "open" /\ sock'[a] = "open")
      /\ sock'[a] = sock[a] \/ sock'[a] = "closed" \/ thread[a] = "new"
  BY DEF ThreadStep, NewSocket, Connect, ReadRequest, ThreadFails, TypeOK
<1>3. DialogMove(a)
  BY <1>1, <1>2, PhaseRank DEF DialogMove
<1> QED
  BY <1>1, <1>3, DialogRests

LEMMA EveryDialogMoves ==
  ASSUME IInv, OpenUndecided, [Next]_vars
  PROVE  \A a \in Act : DialogMove(a)
<1>0. TypeOK
  BY DEF IInv
<1>1. ASSUME UNCHANGED actVars PROVE \A a \in Act : DialogMove(a)
  BY <1>0, <1>1, DialogRests
<1>2. ASSUME NEW s \in Su, Start(s) \/ SuStep(s) \/ Signal(s) \/ Kill(s)
      PROVE  UNCHANGED actVars
  BY <1>2 DEF Start, SuStep, DatabaseCheck, SocketCreateTemp, InstallHandlers,
     SendRequest, SocketAccept, SocketSendRequest, SocketReceiveResult,
     CloseSocket, Deny, Allow, Exit, Signal, Kill
<1>3. CASE \/ LoseIntent \/ UNCHANGED vars \/ \E r \in Uid \X Target : ForgetPolicy(r)
  <2>1. UNCHANGED actVars
    BY <1>3 DEF LoseIntent, vars, ForgetPolicy
  <2> QED
    BY <1>1, <2>1
<1>4. CASE KillApp
  BY <1>0, <1>4, AppDiesMoves DEF KillApp
<1> QED
  BY <1>0, <1>1, <1>2, <1>3, <1>4, UserMoves, UiMoves, ThreadMoves DEF Next, Terminated
-----------------------------------------------------------------------------
(* What a step may do to an invocation: only forwards, and to a refusal    *)
(* after a connection was accepted only if the answer was that, or if none *)
(* can come any more.                                                      *)
Refusal == {"cleanup_deny", "deny", "refused"}

Refusing ==
  \A s \in Su : fd[s] # None /\ pc[s] \in Refusal =>
    (sock[fd[s]] = "closed" /\ ~wrote[fd[s]]) \/ decision[fd[s]] = "DENY"

EndInv == OpenUndecided /\ Wired /\ WroteDecided /\ Refusing

SuRank(s) ==
  CASE pc[s] = "idle" -> 10
    [] pc[s] = "database_check" -> 9
    [] pc[s] = "socket_create_temp" -> 8
    [] pc[s] = "signal" -> 7
    [] pc[s] = "send_request" -> 6
    [] pc[s] = "socket_accept" -> 5
    [] pc[s] = "socket_send_request" -> 4
    [] pc[s] = "socket_receive_result" -> 3
    [] pc[s] \in {"cleanup_allow", "cleanup_deny"} -> 2
    [] pc[s] \in {"allow", "deny"} -> 1
    [] pc[s] \in Ended -> 0

SuMove(s) ==
  /\ SuRank(s)' < SuRank(s)
  /\ fd'[s] = fd[s] \/ pc'[s] = "socket_send_request"
  /\ pc'[s] \in Refusal =>
       \/ pc[s] \in Refusal \/ fd[s] = None
       \/ wrote[fd[s]] /\ decision[fd[s]] # "ALLOW"
       \/ ~wrote[fd[s]] /\ sock[fd[s]] = "closed"

LEMMA SuGoesOn ==
  ASSUME IInv, NEW s \in Su, Start(s) \/ SuStep(s) \/ Signal(s) \/ Kill(s)
  PROVE  SuMove(s) /\ \A t \in Su \ {s} : pc'[t] = pc[t] /\ fd'[t] = fd[t]
<1>0. pc \in [Su -> PCs] /\ fd \in [Su -> Act \cup {None}]
  BY DEF IInv, TypeOK
<1>1. CASE \E l \in {"database_check", "deny"} : pc[s] = "idle" /\ Goto(s, l) /\ UNCHANGED fd
  <2>1. fd[s] = None
    BY <1>1 DEF IInv, Unaccepted
  <2> QED
    BY <1>0, <1>1, <2>1 DEF Goto, SuRank, SuMove
<1>2. CASE DatabaseCheck(s)
  <2>1. /\ pc[s] = "database_check" /\ UNCHANGED fd
        /\ \E l \in {"socket_create_temp", "allow", "deny"} : Goto(s, l)
    BY <1>2 DEF DatabaseCheck
  <2>2. fd[s] = None
    BY <2>1 DEF IInv, Unaccepted
  <2> QED
    BY <1>0, <2>1, <2>2 DEF Goto, SuRank, SuMove
<1>3. CASE SocketCreateTemp(s)
  <2>1. /\ pc[s] = "socket_create_temp" /\ UNCHANGED fd
        /\ \E l \in {"signal", "deny"} : Goto(s, l)
    BY <1>3 DEF SocketCreateTemp
  <2>2. fd[s] = None
    BY <2>1 DEF IInv, Unaccepted
  <2> QED
    BY <1>0, <2>1, <2>2 DEF Goto, SuRank, SuMove
<1>4. CASE InstallHandlers(s)
  BY <1>0, <1>4 DEF InstallHandlers, Goto, SuRank, SuMove, Refusal
<1>5. CASE SendRequest(s)
  <2>1. /\ pc[s] = "send_request" /\ UNCHANGED fd
        /\ \E l \in {"socket_accept", "deny"} : Goto(s, l)
    BY <1>5 DEF SendRequest
  <2>2. fd[s] = None
    BY <2>1 DEF IInv, Unaccepted
  <2> QED
    BY <1>0, <2>1, <2>2 DEF Goto, SuRank, SuMove
<1>6. CASE SocketAccept(s)
  <2>1. pc[s] = "socket_accept" /\ fd[s] = None
    BY <1>6 DEF SocketAccept, IInv, Unaccepted
  <2>2. CASE Goto(s, "deny") /\ UNCHANGED fd
    BY <1>0, <2>1, <2>2 DEF Goto, SuRank, SuMove
  <2>3. CASE \E a \in Act : fd' = [fd EXCEPT ![s] = a] /\ Goto(s, "socket_send_request")
    BY <1>0, <2>1, <2>3 DEF Goto, SuRank, SuMove, Refusal
  <2> QED
    BY <1>6, <2>2, <2>3 DEF SocketAccept, Backlog
<1>7. CASE SocketSendRequest(s)
  <2>1. /\ pc[s] = "socket_send_request" /\ UNCHANGED fd
        /\ \E l \in {"socket_receive_result", "signalled"} : Goto(s, l)
    BY <1>7 DEF SocketSendRequest, CleanupSignal
  <2> QED
    BY <1>0, <2>1 DEF Goto, SuRank, SuMove, Refusal
<1>8. CASE SocketReceiveResult(s)
  <2>1. /\ pc[s] = "socket_receive_result" /\ UNCHANGED fd
        /\ \E l \in {"cleanup_allow", "cleanup_deny", "deny"} : Goto(s, l)
    BY <1>8 DEF SocketReceiveResult
  <2>2. pc'[s] \in Refusal => \/ wrote[fd[s]] /\ decision[fd[s]] # "ALLOW"
                              \/ ~wrote[fd[s]] /\ sock[fd[s]] = "closed"
    BY <1>0, <1>8 DEF SocketReceiveResult, Goto, Refusal
  <2>3. SuRank(s)' < SuRank(s)
    BY <1>0, <2>1 DEF Goto, SuRank
  <2>4. fd'[s] = fd[s] /\ \A t \in Su \ {s} : pc'[t] = pc[t] /\ fd'[t] = fd[t]
    BY <1>0, <2>1 DEF Goto
  <2> QED
    BY <2>2, <2>3, <2>4 DEF SuMove
<1>9. CASE CloseSocket(s)
  <2>1. /\ pc[s] \in {"cleanup_allow", "cleanup_deny"} /\ UNCHANGED fd
        /\ Goto(s, IF pc[s] = "cleanup_allow" THEN "allow" ELSE "deny")
    BY <1>9 DEF CloseSocket
  <2> QED
    BY <1>0, <2>1 DEF Goto, SuRank, SuMove, Refusal
<1>10. CASE Deny(s)
  <2>1. pc[s] = "deny" /\ Goto(s, "refused") /\ UNCHANGED fd
    BY <1>10 DEF Deny, Exit
  <2> QED
    BY <1>0, <2>1 DEF Goto, SuRank, SuMove, Refusal
<1>11. CASE Allow(s)
  <2>1. /\ pc[s] = "allow" /\ UNCHANGED fd
        /\ \E l \in {"failed", "granted"} : Goto(s, l)
    BY <1>11 DEF Allow, Exit
  <2> QED
    BY <1>0, <2>1 DEF Goto, SuRank, SuMove, Refusal
<1>12. CASE Signal(s) \/ Kill(s)
  <2>1. /\ Live(s) /\ UNCHANGED fd
        /\ \E l \in {"signalled", "killed"} : Goto(s, l)
    BY <1>12 DEF Signal, Kill, CleanupSignal
  <2>2. pc'[s] \in {"signalled", "killed"} /\ \A t \in Su \ {s} : pc'[t] = pc[t]
    BY <1>0, <2>1 DEF Goto
  <2>3. SuRank(s)' = 0
    BY <2>2 DEF SuRank
  <2>4. SuRank(s) > 0
    BY <1>0, <2>1 DEF Live, SuRank
  <2> QED
    BY <2>1, <2>2, <2>3, <2>4 DEF SuMove, Refusal
<1>13. Start(s) => \E l \in {"database_check", "deny"} : pc[s] = "idle" /\ Goto(s, l) /\ UNCHANGED fd
  BY DEF Start
<1> QED
  BY <1>1, <1>2, <1>3, <1>4, <1>5, <1>6, <1>7, <1>8, <1>9, <1>10, <1>11, <1>12, <1>13
     DEF SuStep

LEMMA EndInit == Init => EndInv
BY DEF Init, EndInv, OpenUndecided, Wired, WroteDecided, Refusing

LEMMA EndStep == IInv /\ EndInv /\ [Next]_vars => EndInv'
<1> SUFFICES ASSUME IInv, EndInv, [Next]_vars PROVE EndInv'
  OBVIOUS
<1> USE DEF EndInv
<1>0. /\ TypeOK
      /\ \A a \in Act : DialogMove(a)
  BY EveryDialogMoves DEF IInv
<1>1. OpenUndecided'
  <2> SUFFICES ASSUME NEW a \in Act, phase'[a] \in {"none", "open"} PROVE decision'[a] = "none"
    BY DEF OpenUndecided
  <2>1. phase[a] \in {"none", "open"}
    BY <1>0 DEF DialogMove, DialogRank, TypeOK
  <2> QED
    BY <1>0, <2>1 DEF DialogMove, OpenUndecided
<1>2. Wired'
  <2> SUFFICES ASSUME NEW a \in Act, peer'[a] # None PROVE sock'[a] # "null"
    BY DEF Wired
  <2>1. CASE peer'[a] = peer[a]
    <3>1. sock[a] # "null" /\ thread[a] # "new"
      BY <2>1 DEF Wired, IInv, Connected
    <3> QED
      BY <1>0, <3>1 DEF DialogMove
  <2>2. CASE peer'[a] # peer[a]
    BY <1>0, <2>2 DEF DialogMove
  <2> QED
    BY <2>1, <2>2
<1>3. WroteDecided'
  BY <1>0 DEF DialogMove, WroteDecided
<1>4. ASSUME NEW a \in Act, peer[a] # None, ~wrote[a], sock[a] = "closed"
      PROVE  ~wrote'[a] /\ sock'[a] = "closed"
  <2>1. thread[a] # "new"
    BY <1>4 DEF IInv, Connected
  <2> QED
    BY <1>0, <1>4, <2>1 DEF DialogMove
<1>5. \A a \in Act : decision[a] # "none" => decision'[a] = decision[a]
  BY <1>0 DEF DialogMove
<1>6. Refusing'
  <2> SUFFICES ASSUME NEW s \in Su, fd'[s] # None, pc'[s] \in Refusal
               PROVE  \/ sock'[fd'[s]] = "closed" /\ ~wrote'[fd'[s]]
                      \/ decision'[fd'[s]] = "DENY"
    BY DEF Refusing
  <2>1. /\ fd'[s] = fd[s]
        /\ \/ pc[s] \in Refusal
           \/ wrote[fd[s]] /\ decision[fd[s]] # "ALLOW"
           \/ ~wrote[fd[s]] /\ sock[fd[s]] = "closed"
    <3>1. CASE UNCHANGED suVars
      BY <3>1
    <3>2. ASSUME NEW t \in Su, Start(t) \/ SuStep(t) \/ Signal(t) \/ Kill(t)
          PROVE  (pc'[s] = pc[s] /\ fd'[s] = fd[s]) \/ SuMove(s)
      BY <3>2, SuGoesOn
    <3> QED
      BY <3>1, <3>2, OthersLeaveSu DEF SuMove, Refusal
  <2>2. fd[s] \in Act /\ peer[fd[s]] # None
    BY <1>0, <2>1 DEF IInv, TypeOK, Accepted
  <2>3. CASE sock[fd[s]] = "closed" /\ ~wrote[fd[s]]
    BY <1>4, <2>1, <2>2, <2>3
  <2>4. CASE decision[fd[s]] = "DENY"
    BY <1>5, <2>1, <2>2, <2>4
  <2>5. CASE wrote[fd[s]] /\ decision[fd[s]] # "ALLOW"
    <3>1. decision[fd[s]] = "DENY"
      BY <2>2, <2>5 DEF WroteDecided
    <3> QED
      BY <2>4, <3>1
  <2> QED
    BY <2>1, <2>3, <2>4, <2>5 DEF Refusing
<1> QED
  BY <1>1, <1>2, <1>3, <1>6

LEMMA EndAlways == Spec => [](IInv /\ EndInv)
BY EndInit, EndStep, Invariance, PTL DEF Spec

(* An answer to allow that was written is not read as a refusal: not as    *)
(* the end of a stream that onDestroy closed behind it (su.c:431), nor     *)
(* by a su that had given up, to which it cannot be written any more.      *)
AllowNotRefused ==
  \A s \in Su, a \in Act :
    fd[s] = a /\ wrote[a] /\ decision[a] = "ALLOW" => pc[s] \notin Refusal

(* Whatever dies and gets lost, for any number of su, dialogs and pids.    *)
THEOREM AllowTheorem == Spec => []AllowNotRefused
<1>1. IInv /\ EndInv => AllowNotRefused
  BY NoneAssumption DEF IInv, TypeOK, EndInv, Refusing, AllowNotRefused
<1> QED
  BY <1>1, EndAlways, PTL

(* What su and the UI thread can do next.  Only the read of the answer     *)
(* waits for somebody (su.c:431); the timer denies an open dialog.         *)
SuCan(s) ==
  \/ Live(s) /\ pc[s] # "socket_receive_result"
  \/ pc[s] = "socket_receive_result" /\ (wrote[fd[s]] \/ sock[fd[s]] = "closed")

DialogCan(a) ==
  \/ phase[a] = "open" /\ UiIdle /\ decision[a] = "none"
  \/ phase[a] = "finishing" /\ UiIdle
  \/ phase[a] = "destroying"

(* Connected while onDestroy was closing sockets: stranded, or about to be.*)
Late(a) == phase[a] \in {"destroying", "gone"} /\ sock[a] = "open"

(* A su that waits has a dialog whose timer or end is still to come, and   *)
(* a dialog is kept from that by another one's end only.                   *)
NobodyStuck ==
  /\ \A s \in Su : Live(s) =>
       \/ SuCan(s)
       \/ fd[s] \in Act /\ (phase[fd[s]] \in {"open", "finishing"} \/ Late(fd[s]))
  /\ \A a \in Act : phase[a] \notin {"none", "gone"} => \E b \in Act : DialogCan(b)

(* No reachable state of any number of su and dialogs is a deadlock.       *)
THEOREM NobodyStuckTheorem == Spec => []NobodyStuck
<1> SUFFICES IInv /\ EndInv => NobodyStuck
  BY EndAlways, PTL
<1> SUFFICES ASSUME IInv, EndInv PROVE NobodyStuck
  OBVIOUS
<1>1. ASSUME NEW s \in Su, Live(s), ~SuCan(s)
      PROVE  fd[s] \in Act /\ (phase[fd[s]] \in {"open", "finishing"} \/ Late(fd[s]))
  <2>1. /\ pc[s] = "socket_receive_result" /\ fd[s] \in Act /\ peer[fd[s]] = s
        /\ sock[fd[s]] # "closed"
    BY <1>1 DEF SuCan, IInv, TypeOK, Accepted
  <2>2. sock[fd[s]] = "open" /\ phase[fd[s]] # "none"
    BY <2>1 DEF IInv, TypeOK, EndInv, Wired, Connected, Named
  <2> QED
    BY <2>1, <2>2 DEF IInv, TypeOK, Late
<1>2. ASSUME NEW a \in Act, phase[a] \notin {"none", "gone"}
      PROVE  \E b \in Act : DialogCan(b)
  <2>1. CASE UiIdle
    BY <1>2, <2>1 DEF IInv, TypeOK, EndInv, OpenUndecided, DialogCan
  <2>2. CASE ~UiIdle
    BY <2>2 DEF UiIdle, DialogCan
  <2> QED
    BY <2>1, <2>2
<1> QED
  BY <1>1, <1>2 DEF NobodyStuck

(* No step of su is repeated, and nothing the user, the system or another  *)
(* dialog does puts off a timer or an end: each such step leaves less, and *)
(* no step of anybody leaves more (the timer of onCreate, onDestroy).      *)
NothingPostponed ==
  [][/\ \A s \in Su :
          /\ SuRank(s)' <= SuRank(s)
          /\ Start(s) \/ SuStep(s) \/ Signal(s) \/ Kill(s) => SuRank(s)' < SuRank(s)
     /\ \A a \in Act :
          /\ DialogRank(a)' <= DialogRank(a)
          /\ RequestTimeout(a) \/ OnDestroy(a) \/ DeleteFile(a)
               => DialogRank(a)' < DialogRank(a)]_vars

LEMMA NothingPostponedStep ==
  ASSUME IInv, EndInv, [Next]_vars
  PROVE  /\ \A s \in Su :
              /\ SuRank(s)' <= SuRank(s)
              /\ Start(s) \/ SuStep(s) \/ Signal(s) \/ Kill(s) => SuRank(s)' < SuRank(s)
         /\ \A a \in Act :
              /\ DialogRank(a)' <= DialogRank(a)
              /\ RequestTimeout(a) \/ OnDestroy(a) \/ DeleteFile(a)
                   => DialogRank(a)' < DialogRank(a)
<1>0. TypeOK
  BY DEF IInv
<1>5. TypeOK'
  BY TypeNext DEF IInv
<1>1. ASSUME NEW s \in Su, Start(s) \/ SuStep(s) \/ Signal(s) \/ Kill(s)
      PROVE  SuRank(s)' < SuRank(s)
  BY <1>1, SuGoesOn DEF SuMove
<1>2. ASSUME NEW s \in Su PROVE SuRank(s)' <= SuRank(s)
  <2>0. SuRank(s) \in Nat
    BY <1>0 DEF TypeOK, SuRank
  <2>1. CASE UNCHANGED suVars
    <3>1. SuRank(s)' = SuRank(s)
      BY <2>1 DEF SuRank
    <3> QED
      BY <2>0, <3>1
  <2>2. ASSUME NEW t \in Su, Start(t) \/ SuStep(t) \/ Signal(t) \/ Kill(t)
        PROVE  SuRank(s)' <= SuRank(s)
    <3>1. CASE s = t
      <4>1. SuRank(s)' < SuRank(s)
        BY <1>1, <2>2, <3>1
      <4>2. SuRank(s)' \in Nat
        BY <1>5 DEF TypeOK, SuRank
      <4> QED
        BY <2>0, <4>1, <4>2
    <3>2. CASE s # t
      <4>1. SuRank(s)' = SuRank(s)
        BY <2>2, <3>2, SuGoesOn DEF SuRank
      <4> QED
        BY <2>0, <4>1
    <3> QED
      BY <3>1, <3>2
  <2> QED
    BY <2>1, <2>2, OthersLeaveSu
<1>3. \A a \in Act : DialogRank(a)' <= DialogRank(a)
  BY EveryDialogMoves DEF EndInv, DialogMove
<1>4. ASSUME NEW a \in Act, RequestTimeout(a) \/ OnDestroy(a) \/ DeleteFile(a)
      PROVE  DialogRank(a)' < DialogRank(a)
  <2>1. RequestTimeout(a) => phase[a] = "open" /\ Finish(a)
    BY DEF RequestTimeout
  <2>2. OnDestroy(a) => phase[a] = "finishing" /\ phase'[a] = "destroying"
    BY <1>0 DEF OnDestroy, TypeOK
  <2>3. DeleteFile(a) => phase[a] = "destroying" /\ phase'[a] = "gone"
    BY <1>0 DEF DeleteFile, TypeOK
  <2> QED
    BY <1>0, <1>4, <2>1, <2>2, <2>3, PhaseRank, FinishRank
<1> QED
  BY <1>1, <1>2, <1>3, <1>4

(* With NobodyStuck this is all of SuEnds and DialogCloses but for the     *)
(* fairness: every such step brings the end nearer.                        *)
THEOREM NothingPostponedTheorem == Spec => NothingPostponed
<1>1. IInv /\ EndInv /\ [Next]_vars
        => [/\ \A s \in Su :
                 /\ SuRank(s)' <= SuRank(s)
                 /\ Start(s) \/ SuStep(s) \/ Signal(s) \/ Kill(s) => SuRank(s)' < SuRank(s)
            /\ \A a \in Act :
                 /\ DialogRank(a)' <= DialogRank(a)
                 /\ RequestTimeout(a) \/ OnDestroy(a) \/ DeleteFile(a)
                      => DialogRank(a)' < DialogRank(a)]_vars
  BY NothingPostponedStep
<1> QED
  BY <1>1, EndAlways, PTL DEF Spec, NothingPostponed
=============================================================================
