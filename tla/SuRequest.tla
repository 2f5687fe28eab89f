----------------------------- MODULE SuRequest ------------------------------
(***************************************************************************)
(* The interactive request: several su processes, each of which asks the   *)
(* policy database, and if that has no answer binds a socket, has an       *)
(* activity started on it and waits for the user; and the request          *)
(* activities, which all live in one process of the Superuser app.         *)
(*                                                                         *)
(* su.c is the left-hand side (pc), MultitaskSuRequestActivity.java the    *)
(* right-hand side (phase, thread, ui).  Each activity has two threads:    *)
(* the UI thread runs one callback at a time, the socket thread runs       *)
(* beside it.  Signals, SIGKILL, the death of the app's process and the    *)
(* loss of the intent may happen at any step.  Time is abstracted: a timer *)
(* may fire whenever it is armed.                                          *)
(***************************************************************************)
EXTENDS Naturals

CONSTANTS Su,         \* invocations of su
          Act,        \* instances of MultitaskSuRequestActivity
          Pid,        \* process ids; the socket path is a function of the pid
          Uid,        \* uids of callers
          Target,     \* what may be asked for: the uid to become
          Readable,   \* the targets whose uid fits a Java byte
          Settings,   \* the user's settings under which a behaviour may run
          Declared,   \* uids whose package requests the Superuser permission
          Granted,    \* uids whose package holds it
          Calls,      \* the invocations to consider: which su, by whom, for
                      \* which target, under which settings
          None        \* no process, activity, uid...

ASSUME SettingsAssumption ==
  Settings \subseteq [response : {"prompt", "ALLOW", "DENY"},
                      requirePermission : BOOLEAN,
                      pin : BOOLEAN]

ASSUME TargetAssumption == Readable \subseteq Target

ASSUME CallAssumption ==
  Calls \subseteq [su : Su, uid : Uid, target : Target, settings : Settings]

ASSUME NoneAssumption ==
  /\ None \notin Su /\ None \notin Act /\ None \notin Pid /\ None \notin Uid
  /\ None \notin Target

VARIABLES
  (* of each su process *)
  pc,           \* the call of su_main it is about to make
  pid,          \* getpid()
  uid,          \* ctx.from.uid
  desired,      \* ctx.to.uid
  dballow,      \* what database_check returned
  hooks,        \* the clean-up it has registered: "signal", "atexit"
  sockPath,     \* ctx.sock_path is not empty
  serv,         \* socket_serv_fd is open and listening
  fd,           \* the activity whose connection it accepted
  sent,         \* it has written the request to that connection
  (* shared *)
  file,         \* file[p]: the su whose socket is bound at the path of p
  intents,      \* socket paths of the intents under way to the app
  policy,       \* the rows of uid_policy
  settings,
  (* of each activity *)
  path,         \* mSocketPath
  phase,        \* how far its life cycle has got
  thread,       \* how far the socket thread has got
  sock,         \* mSocket: not assigned yet, open, closed
  peer,         \* the su it is connected to
  caller,       \* the su whose request it has read (mCallerUid...)
  shown,        \* mRequestReady
  posted,       \* the automatic response in the handler's queue
  ui,           \* which buttons a click can reach
  decision,     \* mHandled, and how
  wrote         \* the answer was written to an open connection

ids     == <<pid, uid, desired>>
suVars  == <<pc, ids, dballow, hooks, sockPath, serv, fd, sent>>
uiVars  == <<shown, posted, ui>>
ansVars == <<decision, wrote>>
actVars == <<path, phase, thread, sock, peer, caller, uiVars, ansVars>>
app     == <<policy, settings, actVars>>
vars    == <<suVars, file, intents, app>>

Answers == {"ALLOW", "DENY"}
Ended   == {"refused", "granted", "failed", "signalled", "killed"}
PCs     == {"idle", "database_check", "socket_create_temp", "signal",
            "send_request", "socket_accept", "socket_send_request",
            "socket_receive_result", "cleanup_allow", "cleanup_deny",
            "allow", "deny"} \cup Ended

Live(s) == pc[s] \notin Ended \cup {"idle"}

TypeOK ==
  /\ pc \in [Su -> PCs]
  /\ pid \in [Su -> Pid \cup {None}]
  /\ uid \in [Su -> Uid \cup {None}]
  /\ desired \in [Su -> Target \cup {None}]
  /\ dballow \in [Su -> {"none", "INTERACTIVE"} \cup Answers]
  /\ hooks \in [Su -> SUBSET {"signal", "atexit"}]
  /\ sockPath \in [Su -> BOOLEAN]
  /\ serv \in [Su -> BOOLEAN]
  /\ fd \in [Su -> Act \cup {None}]
  /\ sent \in [Su -> BOOLEAN]
  /\ file \in [Pid -> Su \cup {None}]
  /\ intents \subseteq Pid
  /\ policy \in [Uid \X Target -> {"none"} \cup Answers]
  /\ settings \in Settings
  /\ path \in [Act -> Pid \cup {None}]
  /\ phase \in [Act -> {"none", "open", "finishing", "destroying", "gone"}]
  /\ thread \in [Act -> {"none", "new", "connect", "read", "ready", "failed",
                         "done"}]
  /\ sock \in [Act -> {"null", "open", "closed"}]
  /\ peer \in [Act -> Su \cup {None}]
  /\ caller \in [Act -> Su \cup {None}]
  /\ shown \in [Act -> BOOLEAN]
  /\ posted \in [Act -> {"none"} \cup Answers]
  /\ ui \in [Act -> {"none", "deny", "both", "pin"}]
  /\ decision \in [Act -> {"none"} \cup Answers]
  /\ wrote \in [Act -> BOOLEAN]

Init ==
  /\ pc = [s \in Su |-> "idle"]
  /\ pid = [s \in Su |-> None]
  /\ uid = [s \in Su |-> None]
  /\ desired = [s \in Su |-> None]
  /\ dballow = [s \in Su |-> "none"]
  /\ hooks = [s \in Su |-> {}]
  /\ sockPath = [s \in Su |-> FALSE]
  /\ serv = [s \in Su |-> FALSE]
  /\ fd = [s \in Su |-> None]
  /\ sent = [s \in Su |-> FALSE]
  /\ file = [p \in Pid |-> None]
  /\ intents = {}
  /\ policy = [r \in Uid \X Target |-> "none"]
  /\ settings \in Settings
  /\ path = [a \in Act |-> None]
  /\ phase = [a \in Act |-> "none"]
  /\ thread = [a \in Act |-> "none"]
  /\ sock = [a \in Act |-> "null"]
  /\ peer = [a \in Act |-> None]
  /\ caller = [a \in Act |-> None]
  /\ shown = [a \in Act |-> FALSE]
  /\ posted = [a \in Act |-> "none"]
  /\ ui = [a \in Act |-> "none"]
  /\ decision = [a \in Act |-> "none"]
  /\ wrote = [a \in Act |-> FALSE]

-----------------------------------------------------------------------------
(* su: the process that asks.                                              *)

Goto(s, l) == pc' = [pc EXCEPT ![s] = l]

(* socket_cleanup, for a process that may or may not still own its path.   *)
(* unlink removes whatever is bound at the path.                           *)
SocketCleanup(s) ==
  /\ sockPath' = [sockPath EXCEPT ![s] = FALSE]
  /\ file' = IF sockPath[s] THEN [file EXCEPT ![pid[s]] = None] ELSE file

(* A su process has passed the gates of su_main that need no database; it  *)
(* becomes the app's user, or fails to and denies.                         *)
Start(s) ==
  /\ pc[s] = "idle"
  /\ \E p \in Pid : /\ \A t \in Su : Live(t) => pid[t] # p
                    /\ pid' = [pid EXCEPT ![s] = p]
  /\ \E k \in Calls : /\ k.su = s /\ k.settings = settings
                      /\ uid' = [uid EXCEPT ![s] = k.uid]
                      /\ desired' = [desired EXCEPT ![s] = k.target]
  /\ \E l \in {"database_check", "deny"} : Goto(s, l)
  /\ UNCHANGED <<dballow, hooks, sockPath, serv, fd, sent, file, intents, app>>

(* The rows of a caller: a denial of any target stops the query, and an    *)
(* approval of any target counts, for the query does not ask which.        *)
Rows(u, d) == {t \in Target : policy[<<u, t>>] = d}

QueryResult(u) == IF Rows(u, "DENY") # {} THEN "DENY"
                  ELSE IF Rows(u, "ALLOW") # {} THEN "ALLOW"
                  ELSE "INTERACTIVE"

(* database_check: no row (or a database that cannot be opened) leaves it  *)
(* to the user, a failing query denies.                                    *)
DatabaseCheck(s) ==
  /\ pc[s] = "database_check"
  /\ \E r \in {"INTERACTIVE"} \cup Answers :
       /\ \/ r = QueryResult(uid[s])
          \/ r = "INTERACTIVE"                 \* sqlite3_open_v2 failed
          \/ r = "DENY"                        \* sqlite3_exec failed
       /\ dballow' = [dballow EXCEPT ![s] = r]
       /\ Goto(s, CASE r = "INTERACTIVE" -> "socket_create_temp"
                    [] r = "ALLOW" -> "allow"
                    [] r = "DENY" -> "deny")
  /\ UNCHANGED <<ids, hooks, sockPath, serv, fd, sent, file, intents, app>>

(* socket_create_temp: the path is set first, so every later failure has   *)
(* it; a stale file at the path is removed before bind.                    *)
SocketCreateTemp(s) ==
  /\ pc[s] = "socket_create_temp"
  /\ \/ /\ file' = [file EXCEPT ![pid[s]] = s]
        /\ serv' = [serv EXCEPT ![s] = TRUE]
        /\ sockPath' = [sockPath EXCEPT ![s] = TRUE]
        /\ Goto(s, "signal")
     \/ /\ file' = [file EXCEPT ![pid[s]] = None]          \* bind failed
        /\ sockPath' = [sockPath EXCEPT ![s] = TRUE]
        /\ Goto(s, "deny")
        /\ UNCHANGED serv
     \/ /\ Goto(s, "deny")                                 \* socket failed
        /\ UNCHANGED <<file, serv, sockPath>>
  /\ UNCHANGED <<ids, dballow, hooks, fd, sent, intents, app>>

(* The handlers are installed only now that the file exists.               *)
InstallHandlers(s) ==
  /\ pc[s] = "signal"
  /\ hooks' = [hooks EXCEPT ![s] = @ \cup {"signal"}]
  /\ Goto(s, "send_request")
  /\ UNCHANGED <<ids, dballow, sockPath, serv, fd, sent, file, intents, app>>

(* send_request forks am, which sends the intent; the atexit handler is    *)
(* registered after it returns.                                            *)
SendRequest(s) ==
  /\ pc[s] = "send_request"
  /\ \/ /\ intents' = intents \cup {pid[s]}
        /\ hooks' = [hooks EXCEPT ![s] = @ \cup {"atexit"}]
        /\ Goto(s, "socket_accept")
     \/ /\ Goto(s, "deny")                                 \* fork failed
        /\ UNCHANGED <<intents, hooks>>
  /\ UNCHANGED <<ids, dballow, sockPath, serv, fd, sent, file, app>>

(* The connections s can accept.                                           *)
Backlog(s) == {a \in Act : peer[a] = s /\ fd[s] # a}

(* socket_accept: the first connection within 20 seconds, or none.         *)
SocketAccept(s) ==
  /\ pc[s] = "socket_accept"
  /\ \/ \E a \in Backlog(s) : /\ fd' = [fd EXCEPT ![s] = a]
                              /\ Goto(s, "socket_send_request")
     \/ /\ Backlog(s) = {}
        /\ Goto(s, "deny")
        /\ UNCHANGED fd
  /\ UNCHANGED <<ids, dballow, hooks, sockPath, serv, sent, file, intents,
                 app>>

CleanupSignalFaulty(s) ==           \* the handlers leave the file behind
  /\ serv' = [serv EXCEPT ![s] = FALSE]
  /\ Goto(s, "signalled")
  /\ UNCHANGED <<sockPath, file>>

(* cleanup_signal(sig), also reached through SIGPIPE.                      *)
CleanupSignal(s) ==
  /\ SocketCleanup(s)
  /\ serv' = [serv EXCEPT ![s] = FALSE]
  /\ Goto(s, "signalled")

(* socket_send_request: writing to a connection the activity has closed    *)
(* raises SIGPIPE.                                                         *)
SocketSendRequest(s) ==
  /\ pc[s] = "socket_send_request"
  /\ IF sock[fd[s]] = "open"
     THEN /\ sent' = [sent EXCEPT ![s] = TRUE]
          /\ Goto(s, "socket_receive_result")
          /\ UNCHANGED <<serv, sockPath, file>>
     ELSE CleanupSignal(s) /\ UNCHANGED sent
  /\ UNCHANGED <<ids, dballow, hooks, fd, intents, app>>

SocketReceiveResultEof(s) ==        \* whatever is not DENY is taken to allow
  /\ pc[s] = "socket_receive_result"
  /\ wrote[fd[s]] \/ sock[fd[s]] = "closed"
  /\ Goto(s, IF wrote[fd[s]] /\ decision[fd[s]] = "DENY" THEN "cleanup_deny"
                                                         ELSE "cleanup_allow")
  /\ UNCHANGED <<ids, dballow, hooks, sockPath, serv, fd, sent, file, intents,
                 app>>

SocketReceiveResultRetry(s) ==      \* it waits for another connection
  /\ pc[s] = "socket_receive_result"
  /\ \/ /\ wrote[fd[s]]
        /\ Goto(s, IF decision[fd[s]] = "ALLOW" THEN "cleanup_allow"
                                                ELSE "cleanup_deny")
     \/ /\ ~wrote[fd[s]]
        /\ sock[fd[s]] = "closed"
        /\ Goto(s, "socket_accept")
  /\ UNCHANGED <<ids, dballow, hooks, sockPath, serv, fd, sent, file, intents,
                 app>>

SocketReceiveResultHangup(s) ==     \* a hangup hides the answer before it
  /\ pc[s] = "socket_receive_result"
  /\ \/ /\ wrote[fd[s]]
        /\ Goto(s, IF decision[fd[s]] = "ALLOW" THEN "cleanup_allow"
                                                ELSE "cleanup_deny")
     \/ sock[fd[s]] = "closed" /\ Goto(s, "deny")
  /\ UNCHANGED <<ids, dballow, hooks, sockPath, serv, fd, sent, file, intents,
                 app>>

(* socket_receive_result, with no timeout: the answer, or the end of the   *)
(* stream, which parses as an unknown response.  A read error denies       *)
(* straight away.                                                          *)
SocketReceiveResult(s) ==
  /\ pc[s] = "socket_receive_result"
  /\ \/ /\ wrote[fd[s]]
        /\ Goto(s, IF decision[fd[s]] = "ALLOW" THEN "cleanup_allow"
                                                ELSE "cleanup_deny")
     \/ /\ ~wrote[fd[s]]
        /\ sock[fd[s]] = "closed"
        /\ \E l \in {"cleanup_deny", "deny"} : Goto(s, l)
  /\ UNCHANGED <<ids, dballow, hooks, sockPath, serv, fd, sent, file, intents,
                 app>>

(* su_main closes its descriptors and removes the socket before it acts on *)
(* the answer.                                                             *)
CloseSocket(s) ==
  /\ pc[s] \in {"cleanup_allow", "cleanup_deny"}
  /\ SocketCleanup(s)
  /\ serv' = [serv EXCEPT ![s] = FALSE]
  /\ Goto(s, IF pc[s] = "cleanup_allow" THEN "allow" ELSE "deny")
  /\ UNCHANGED <<ids, dballow, hooks, fd, sent, intents, app>>

(* deny exits; allow executes the command or, if that fails, exits.        *)
(* exit runs the atexit handler, exec closes the socket (FD_CLOEXEC).      *)
Exit(s, l) ==
  /\ IF "atexit" \in hooks[s] THEN SocketCleanup(s)
                              ELSE UNCHANGED <<sockPath, file>>
  /\ serv' = [serv EXCEPT ![s] = FALSE]
  /\ Goto(s, l)
  /\ UNCHANGED <<ids, dballow, hooks, fd, sent, intents, app>>

Deny(s) == pc[s] = "deny" /\ Exit(s, "refused")

Allow(s) ==
  /\ pc[s] = "allow"
  /\ \/ Exit(s, "failed")                                  \* execvp failed
     \/ /\ serv' = [serv EXCEPT ![s] = FALSE]
        /\ Goto(s, "granted")
        /\ UNCHANGED <<ids, dballow, hooks, sockPath, fd, sent, file, intents,
                       app>>

(* HUP, TERM, QUIT, INT...  Before the handlers are installed the process  *)
(* dies as it does of SIGKILL.                                             *)
Signal(s) ==
  /\ Live(s)
  /\ "signal" \in hooks[s]
  /\ CleanupSignal(s)
  /\ UNCHANGED <<ids, dballow, hooks, fd, sent, intents, app>>

Kill(s) ==
  /\ Live(s)
  /\ Goto(s, "killed")
  /\ serv' = [serv EXCEPT ![s] = FALSE]
  /\ UNCHANGED <<ids, dballow, hooks, sockPath, fd, sent, file, intents, app>>

SuStep(s) ==
  \/ DatabaseCheck(s)  \/ SocketCreateTemp(s)  \/ InstallHandlers(s)
  \/ SendRequest(s)    \/ SocketAccept(s)      \/ SocketSendRequest(s)
  \/ CloseSocket(s)    \/ SocketReceiveResult(s)
  \/ Deny(s)           \/ Allow(s)

-----------------------------------------------------------------------------
(* The request activity: the UI thread.                                    *)

(* One UI thread serves every activity; onDestroy keeps it to its end.     *)
UiIdle == \A a \in Act : phase[a] # "destroying"

Visible(a) == UiIdle /\ phase[a] \in {"open", "finishing"}

(* onCreate, for an intent RequestActivity has forwarded.  The socket      *)
(* thread is started and the watchdog looks at the socket file at once.    *)
OnCreate(a) ==
  /\ UiIdle
  /\ phase[a] = "none"
  /\ \E p \in intents :
       /\ intents' = intents \ {p}
       /\ path' = [path EXCEPT ![a] = p]
       /\ phase' = [phase EXCEPT ![a] = IF file[p] = None THEN "finishing"
                                                          ELSE "open"]
  /\ thread' = [thread EXCEPT ![a] = "new"]
  /\ ui' = [ui EXCEPT ![a] = "deny"]
  /\ UNCHANGED <<suVars, file, policy, settings, sock, peer, caller, shown,
                 posted, ansVars>>

(* am is killed or fails, or the intent reaches a RequestActivity that has *)
(* already forwarded one: the instance is singleTask and ignores it.       *)
LoseIntent ==
  /\ \E p \in intents : intents' = intents \ {p}
  /\ UNCHANGED <<suVars, file, app>>

(* The death of the app's process: every activity is gone, and every       *)
(* connection closed.  The system may start an unfinished activity again   *)
(* with the intent it had.                                                 *)
AppDies ==
  /\ \E R \in SUBSET {path[a] : a \in {b \in Act : phase[b] = "open"}} :
       intents' = intents \cup R
  /\ phase' = [a \in Act |-> IF phase[a] = "none" THEN "none" ELSE "gone"]
  /\ thread' = [a \in Act |-> IF thread[a] = "none" THEN "none" ELSE "done"]
  /\ sock' = [a \in Act |-> IF sock[a] = "null" THEN "null" ELSE "closed"]
  /\ ui' = [a \in Act |-> "none"]
  /\ posted' = [a \in Act |-> "none"]

KillApp ==
  /\ \E a \in Act : phase[a] \notin {"none", "gone"} \/ sock[a] = "open"
  /\ AppDies
  /\ UNCHANGED <<suVars, file, policy, settings, path, peer, caller, shown,
                 ansVars>>

SetPolicyFaulty(a, d) ==            \* the wrong field is stored
  LET s == caller[a] IN
    policy' = [policy EXCEPT ![<<uid[s], desired[s]>>] = dballow[s]]

(* The policy of a decision that is to be remembered.                      *)
SetPolicy(a, d) ==
  LET s == caller[a] IN policy' = [policy EXCEPT ![<<uid[s], desired[s]>>] = d]

HandleActionFaulty(a, d, remember) ==   \* the assertion is compiled out
  /\ decision' = [decision EXCEPT ![a] = d]
  /\ wrote' = [wrote EXCEPT ![a] = peer[a] # None /\ sock[a] = "open"]
  /\ IF remember THEN SetPolicy(a, d) ELSE UNCHANGED policy
  /\ UNCHANGED <<suVars, file, settings, path, thread, peer, caller, shown>>

(* handleAction(action, until): at most once per activity.  The write      *)
(* fails silently when there is no connection yet, or none any more; a     *)
(* policy is stored all the same.                                          *)
HandleAction(a, d, remember) ==
  /\ decision[a] = "none"
  /\ decision' = [decision EXCEPT ![a] = d]
  /\ wrote' = [wrote EXCEPT ![a] = peer[a] # None /\ sock[a] = "open"]
  /\ IF remember THEN SetPolicy(a, d) ELSE UNCHANGED policy
  /\ UNCHANGED <<suVars, file, settings, path, thread, peer, caller, shown>>

Finish(a) == phase' = [phase EXCEPT ![a] = IF @ = "open" THEN "finishing"
                                                         ELSE @]

(* A second decision fails the assertion at the head of handleAction: an   *)
(* Error that nothing catches, which ends the process.                     *)
AssertionFails(a) ==
  /\ decision[a] # "none"
  /\ AppDies
  /\ UNCHANGED <<suVars, file, policy, settings, path, peer, caller, shown,
                 ansVars>>

(* b: the buttons that stay enabled after it.                              *)
Decide(a, d, remember, b) ==
  \/ /\ HandleAction(a, d, remember)
     /\ Finish(a)
     /\ ui' = [ui EXCEPT ![a] = b]
     /\ UNCHANGED <<intents, sock, posted>>
  \/ AssertionFails(a)

RememberFaulty(a) ==                \* as soon as the request has been read
  IF caller[a] # None /\ ui[a] # "pin" THEN BOOLEAN ELSE {FALSE}

(* What getUntil can return: the choices are in a part of the layout that  *)
(* is visible only from requestReady until the PIN is asked for.           *)
Remember(a) == IF shown[a] /\ ui[a] # "pin" THEN BOOLEAN ELSE {FALSE}

(* deny() and approve() disable the buttons of the first layout.           *)
ClickDeny(a) ==
  /\ Visible(a)
  /\ ui[a] \in {"deny", "both"}
  /\ \E remember \in Remember(a) : Decide(a, "DENY", remember, "none")

ClickAllow(a) ==
  /\ Visible(a)
  /\ ui[a] = "both"
  /\ IF settings.pin
     THEN /\ ui' = [ui EXCEPT ![a] = "pin"]
          /\ UNCHANGED <<suVars, file, intents, policy, settings, path, phase,
                         thread, sock, peer, caller, shown, posted, ansVars>>
     ELSE \E remember \in Remember(a) : Decide(a, "ALLOW", remember, "none")

(* onEnter of the right PIN, with the choice captured when Allow was       *)
(* clicked, and onCancel.  A wrong PIN changes nothing.  Neither takes the *)
(* PIN view away.                                                          *)
EnterPin(a) ==
  /\ Visible(a)
  /\ ui[a] = "pin"
  /\ \E remember \in BOOLEAN : Decide(a, "ALLOW", remember, "pin")

CancelPin(a) ==
  /\ Visible(a)
  /\ ui[a] = "pin"
  /\ \E remember \in Remember(a) : Decide(a, "DENY", remember, "pin")

ResponseFaulty(u) ==                \* the automatic response comes first
  IF settings.response # "prompt" THEN settings.response
  ELSE IF settings.requirePermission /\ u \notin Declared THEN "DENY"
  ELSE "prompt"

(* The automatic response of requestReady to a request of uid u.           *)
Response(u) ==
  IF settings.requirePermission /\ u \notin Declared THEN "DENY"
  ELSE IF settings.response = "ALLOW" /\ settings.requirePermission
          /\ u \notin Granted THEN "prompt"
  ELSE settings.response

(* requestReady: an automatic response is posted, otherwise the countdown  *)
(* to the Allow button begins.                                             *)
RequestReady(a) ==
  posted' = [posted EXCEPT ![a] = IF Response(uid[caller[a]]) = "prompt"
                                  THEN "none" ELSE Response(uid[caller[a]])]

(* The runnable the socket thread has posted.                              *)
RunRequestReady(a) ==
  /\ UiIdle
  /\ thread[a] = "ready"
  /\ phase[a] # "gone"
  /\ thread' = [thread EXCEPT ![a] = "done"]
  /\ shown' = [shown EXCEPT ![a] = TRUE]
  /\ RequestReady(a)
  /\ UNCHANGED <<suVars, file, intents, policy, settings, path, phase, sock,
                 peer, caller, ui, ansVars>>

EnableAllowFaulty(a) ==             \* the countdown starts with the dialog
  /\ Visible(a)
  /\ ui[a] = "deny"
  /\ decision[a] = "none"
  /\ ui' = [ui EXCEPT ![a] = "both"]
  /\ UNCHANGED <<suVars, file, intents, policy, settings, path, phase, thread,
                 sock, peer, caller, shown, posted, ansVars>>

(* The last tick of the countdown.                                         *)
EnableAllow(a) ==
  /\ Visible(a)
  /\ shown[a]
  /\ Response(uid[caller[a]]) = "prompt"
  /\ ui[a] = "deny"
  /\ decision[a] = "none"
  /\ ui' = [ui EXCEPT ![a] = "both"]
  /\ UNCHANGED <<suVars, file, intents, policy, settings, path, phase, thread,
                 sock, peer, caller, shown, posted, ansVars>>

(* onConfigurationChanged: a new layout, with Allow disabled again and     *)
(* Deny enabled, whatever was decided; requestReady runs again.            *)
ConfigurationChanged(a) ==
  /\ Visible(a)
  /\ ui' = [ui EXCEPT ![a] = "deny"]
  /\ IF shown[a] THEN RequestReady(a) ELSE UNCHANGED posted
  /\ UNCHANGED <<suVars, file, intents, policy, settings, path, phase, thread,
                 sock, peer, caller, shown, ansVars>>

(* The posted response, permanent, unless the request is already handled.  *)
AutoRespond(a) ==
  /\ UiIdle
  /\ posted[a] # "none"
  /\ posted' = [posted EXCEPT ![a] = "none"]
  /\ IF decision[a] = "none"
     THEN HandleAction(a, posted[a], TRUE) /\ Finish(a)
     ELSE UNCHANGED <<suVars, file, policy, settings, path, phase, thread,
                      peer, caller, shown, ansVars>>
  /\ UNCHANGED <<intents, sock, ui>>

RequestTimeoutLate(a) ==            \* the timer starts with requestReady
  /\ UiIdle
  /\ phase[a] = "open"
  /\ shown[a]
  /\ HandleAction(a, "DENY", FALSE)
  /\ Finish(a)
  /\ UNCHANGED <<intents, sock, posted, ui>>

RequestTimeoutStays(a) ==           \* the dialog is not finished
  /\ UiIdle
  /\ phase[a] = "open"
  /\ HandleAction(a, "DENY", FALSE)
  /\ UNCHANGED <<intents, phase, sock, posted, ui>>

(* The request timeout and the watchdog, which sees that the socket file   *)
(* is gone; both do nothing once isFinishing().                            *)
RequestTimeout(a) ==
  /\ UiIdle
  /\ phase[a] = "open"
  /\ HandleAction(a, "DENY", FALSE)
  /\ Finish(a)
  /\ UNCHANGED <<intents, sock, posted, ui>>

Watchdog(a) ==
  /\ UiIdle
  /\ phase[a] = "open"
  /\ file[path[a]] = None
  /\ Finish(a)
  /\ UNCHANGED <<suVars, file, intents, policy, settings, path, thread, sock,
                 peer, caller, uiVars, ansVars>>

(* onDestroy, first half: an undecided request is denied and the socket    *)
(* closed, if the other thread has made it by now.                         *)
OnDestroy(a) ==
  /\ UiIdle
  /\ phase[a] = "finishing"
  /\ phase' = [phase EXCEPT ![a] = "destroying"]
  /\ IF decision[a] = "none"
     THEN HandleAction(a, "DENY", FALSE)
     ELSE UNCHANGED <<suVars, file, policy, settings, path, thread, peer,
                      caller, shown, ansVars>>
  /\ sock' = [sock EXCEPT ![a] = IF @ = "null" THEN "null" ELSE "closed"]
  /\ UNCHANGED <<intents, posted, ui>>

(* Second half: it deletes whatever is bound at its path.                  *)
DeleteFile(a) ==
  /\ phase[a] = "destroying"
  /\ phase' = [phase EXCEPT ![a] = "gone"]
  /\ file' = [file EXCEPT ![path[a]] = None]
  /\ UNCHANGED <<suVars, intents, policy, settings, path, thread, sock, peer,
                 caller, uiVars, ansVars>>

-----------------------------------------------------------------------------
(* The request activity: the socket thread (manageSocket).                 *)

NewSocket(a) ==
  /\ thread[a] = "new"
  /\ thread' = [thread EXCEPT ![a] = "connect"]
  /\ sock' = [sock EXCEPT ![a] = "open"]
  /\ UNCHANGED <<suVars, file, intents, policy, settings, path, phase, peer,
                 caller, uiVars, ansVars>>

(* An exception: the thread closes the socket and posts finish().          *)
ThreadFails(a) ==
  /\ thread' = [thread EXCEPT ![a] = "failed"]
  /\ sock' = [sock EXCEPT ![a] = "closed"]
  /\ UNCHANGED <<peer, caller>>

Connect(a) ==
  /\ thread[a] = "connect"
  /\ IF sock[a] = "open" /\ file[path[a]] # None /\ serv[file[path[a]]]
     THEN /\ peer' = [peer EXCEPT ![a] = file[path[a]]]
          /\ thread' = [thread EXCEPT ![a] = "read"]
          /\ UNCHANGED <<sock, caller>>
     ELSE ThreadFails(a)
  /\ UNCHANGED <<suVars, file, intents, policy, settings, path, phase, uiVars,
                 ansVars>>

(* su no longer holds its end of the connection.                           *)
Hangup(s, a) == IF fd[s] = a THEN ~Live(s) ELSE ~serv[s]

(* It reads what su wrote, even if su is gone by now.  The end of the      *)
(* stream, a socket closed by onDestroy and a target uid that getAsByte    *)
(* cannot represent are exceptions.                                        *)
ReadRequest(a) ==
  /\ thread[a] = "read"
  /\ LET s == peer[a] IN
       IF sock[a] = "open" /\ fd[s] = a /\ sent[s] /\ desired[s] \in Readable
       THEN /\ caller' = [caller EXCEPT ![a] = s]
            /\ thread' = [thread EXCEPT ![a] = "ready"]
            /\ UNCHANGED <<sock, peer>>
       ELSE /\ sock[a] = "closed" \/ Hangup(s, a) \/ (fd[s] = a /\ sent[s])
            /\ ThreadFails(a)
  /\ UNCHANGED <<suVars, file, intents, policy, settings, path, phase, uiVars,
                 ansVars>>

(* The finish() a failed thread has posted.                                *)
RunFinish(a) ==
  /\ UiIdle
  /\ thread[a] = "failed"
  /\ thread' = [thread EXCEPT ![a] = "done"]
  /\ Finish(a)
  /\ UNCHANGED <<suVars, file, intents, policy, settings, path, sock, peer,
                 caller, uiVars, ansVars>>

-----------------------------------------------------------------------------
(* A remembered policy expires or is removed by the user.                  *)
ForgetPolicy(r) ==
  /\ policy[r] # "none"
  /\ policy' = [policy EXCEPT ![r] = "none"]
  /\ UNCHANGED <<suVars, file, intents, settings, actVars>>

UserStep(a) ==
  \/ ClickDeny(a) \/ ClickAllow(a) \/ EnterPin(a) \/ CancelPin(a)
  \/ ConfigurationChanged(a)

UiStep(a) ==
  \/ OnCreate(a)    \/ RunRequestReady(a) \/ EnableAllow(a)
  \/ AutoRespond(a) \/ RequestTimeout(a)  \/ Watchdog(a)
  \/ RunFinish(a)   \/ OnDestroy(a)       \/ DeleteFile(a)

ThreadStep(a) == NewSocket(a) \/ Connect(a) \/ ReadRequest(a)

(* Everything has come to an end.                                          *)
Uncalled(s) == pc[s] = "idle" /\ \A k \in Calls : k.su = s => k.settings # settings

Terminated ==
  /\ \A s \in Su : pc[s] \in Ended \/ Uncalled(s)
  /\ \A a \in Act : phase[a] \in {"none", "gone"}
  /\ UNCHANGED vars

Next ==
  \/ \E s \in Su : Start(s) \/ SuStep(s) \/ Signal(s) \/ Kill(s)
  \/ \E a \in Act : UserStep(a) \/ UiStep(a) \/ ThreadStep(a)
  \/ LoseIntent
  \/ KillApp
  \/ \E r \in Uid \X Target : ForgetPolicy(r)
  \/ Terminated

(* The kernel runs every su; in the app's process the timers fire, the     *)
(* handler's queue is drained and a finishing activity is destroyed.       *)
(* Nobody has to click, and nothing has to fail.                           *)
Fairness ==
  /\ \A s \in Su : WF_vars(SuStep(s))
  /\ \A a \in Act : /\ WF_vars(RequestTimeout(a))
                    /\ WF_vars(OnDestroy(a))
                    /\ WF_vars(DeleteFile(a))

Spec == Init /\ [][Next]_vars

FairSpec == Spec /\ Fairness

-----------------------------------------------------------------------------
(* Safety.                                                                 *)

(* A command runs, or is about to, only if the database allowed the caller *)
(* or the activity whose connection this very su accepted had read its     *)
(* request, shown it, and decided to allow it: no answer meant for another *)
(* su is ever taken for its own, not even when a pid and with it the       *)
(* socket path is used again (su_main, handleAction, manageSocket).        *)
GrantedByConsent ==
  \A s \in Su :
    pc[s] \in {"cleanup_allow", "allow", "granted"} =>
      \/ dballow[s] = "ALLOW"
      \/ /\ fd[s] # None
         /\ caller[fd[s]] = s
         /\ shown[fd[s]]
         /\ decision[fd[s]] = "ALLOW"

(* A remembered policy is a decision somebody took on a request of that    *)
(* uid for that target which had been shown: never one about the uid 0     *)
(* that mCallerUid holds before the request is read, and never the         *)
(* opposite of what was decided (handleAction, getUntil, requestReady).    *)
PolicyWasDecided ==
  \A r \in Uid \X Target :
    policy[r] # "none" =>
      \E a \in Act : /\ shown[a]
                     /\ r = <<uid[caller[a]], desired[caller[a]]>>
                     /\ decision[a] = policy[r]

(* A su that reached socket_accept leaves no socket behind, however it     *)
(* ends, unless it is killed; neither does one that was signalled          *)
(* (socket_cleanup, cleanup, cleanup_signal).                              *)
NoSocketLeft ==
  \A p \in Pid :
    LET s == file[p] IN
      s # None /\ pc[s] \in Ended =>
        \/ pc[s] = "killed"
        \/ pc[s] = "refused" /\ "atexit" \notin hooks[s]

(* Two activities on one socket path (a pid used again, or an activity the *)
(* system started a second time) never both read one su's request, and the *)
(* one that did is the one su listens to (socket_accept, manageSocket).    *)
OneReader ==
  \A a \in Act : caller[a] # None => fd[caller[a]] = a /\ peer[a] = caller[a]

(* While the permission is required, a caller that does not declare it is  *)
(* never granted anything: not by the automatic response, not by a click   *)
(* or a PIN, which no order of callbacks makes reachable (requestReady).   *)
UndeclaredRefused ==
  \A s \in Su : settings.requirePermission /\ uid[s] \notin Declared
                 => pc[s] # "granted"

(* handleAction decides once: neither a timer, nor an automatic response,  *)
(* nor a second click, nor onDestroy replaces a decision, and the answer   *)
(* in the socket is not written twice.                                     *)
DecisionStands ==
  [][\A a \in Act : decision[a] # "none" =>
                      decision'[a] = decision[a] /\ wrote'[a] = wrote[a]]_vars

(* The promise of one invocation.  dballow and the decision of the         *)
(* activity it accepted are the consent.                                   *)
Outcome(s) == CASE pc[s] = "idle" -> "unasked"
                [] pc[s] = "granted" -> "granted"
                [] pc[s] \in Ended \ {"granted"} -> "refused"
                [] OTHER -> "pending"

Verdict(d) == CASE d = "ALLOW" -> "yes"
                [] d = "DENY" -> "no"
                [] OTHER -> "undecided"

Consent(s) == IF fd[s] # None THEN Verdict(decision[fd[s]])
                              ELSE Verdict(dballow[s])

Decision == INSTANCE SuDecision
              WITH outcome <- [s \in Su |-> Outcome(s)],
                   consent <- [s \in Su |-> Consent(s)]

(* A request is decided at most once and granted only with consent.        *)
ImplementsDecision == Decision!Spec

-----------------------------------------------------------------------------
(* Liveness.                                                               *)

(* onDestroy has found mSocket still null, and the other thread has made   *)
(* the socket and connected it since: the activity is gone, and its end is *)
(* open until the app's process ends.                                      *)
Stranded(a) == phase[a] = "gone" /\ sock[a] = "open"

(* su never hangs: it ends whatever the user does and whatever gets lost,  *)
(* although its last read has no timeout, because the activity has one.    *)
(* The exception is a stranded connection.                                 *)
SuEnds ==
  \A s \in Su : pc[s] # "idle" ~> \/ pc[s] \in Ended
                                  \/ fd[s] # None /\ Stranded(fd[s])

(* An answer to allow that was written is not lost: the command is         *)
(* executed, unless su is signalled or killed first, even if the activity  *)
(* is gone before su reads it.                                             *)
AllowTakesEffect ==
  \A s \in Su, a \in Act :
    (fd[s] = a /\ wrote[a] /\ decision[a] = "ALLOW")
      ~> pc[s] \in Ended \ {"refused"}

(* Every dialog goes away by itself.                                       *)
DialogCloses == \A a \in Act : phase[a] # "none" ~> phase[a] = "gone"

-----------------------------------------------------------------------------
(* What the usage of su says, and is not so.                               *)

(* "Usage: su [options] [--] [-] [LOGIN] [--] [args...]": a request for    *)
(* whichever LOGIN reaches the user once it has reached the activity.      *)
RequestIsShown ==
  [][\A a \in Act : LET s == peer[a] IN
       /\ thread[a] = "read" /\ sock[a] = "open"
       /\ fd[s] = a /\ sent[s] /\ Live(s)
       => thread'[a] # "failed"]_vars
=============================================================================
