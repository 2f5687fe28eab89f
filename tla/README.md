# A verification of Superuser

Superuser is the program that decides, on an Android device, whether a process
may become another uid: a setuid binary `su` (C, `Superuser/jni/su`) and an app
(Java, `Superuser/src`) that asks the user, remembers policies and keeps a log.
This directory holds TLA+ models of it, the TLC configurations that check them
on small instances, and proofs of the main properties for every instance.

All paths below are relative to `src/`; `MSRA` is
`Superuser/src/com/koushikdutta/superuser/MultitaskSuRequestActivity.java`.

## The system

| component | state | operations | talks to |
|---|---|---|---|
| `su`, the invocation (`su.c`, `activity.c`) | the context on the stack, one listening socket, signal and exit handlers | gates, policy lookup, bind, start the dialog, accept with a timeout, write the request, read the answer, exec or exit | the policy database, `am`, the dialog's connection, the kernel (signals) |
| policy lookup (`db.c`) | none; reads `su.sqlite` | one query, folded row by row | the policy store |
| request dialog (MSRA, `RequestActivity`, `PinViewHelper`) | per activity: path, socket, request, decision, buttons; two threads | `onCreate`, `manageSocket`, `requestReady`, clicks, PIN, timers, configuration change, `onDestroy` | `su` through the socket, the policy store, settings |
| policy store (`SuDatabaseHelper`, `UidPolicy`, `UidCommand`) | table `uid_policy` | set, list with purge, get, delete, upgrade | written by dialogs and screens, read by `su` |
| logs (`SuReceiver`, `SuperuserDatabaseHelper`, `LogEntry`) | table `log`, notifications | a broadcast per decision | `su` through `am`, the policy store |
| screens (`PolicyFragment`, `LogFragment`), `PackageChangeReceiver` | policy objects read earlier | edit, revoke, show; revoke for removed packages | the policy store |
| settings (`Settings`, `SettingsFragment`) | table `settings`, file `multiuser_mode`, a system property | get, set | everything |
| su daemon and client (`daemon.c`) | one connection and up to five processes per invocation | accept, pass descriptors, fork, exec `su`, send the exit code | the client over a socket |
| terminal pumps (`pts.c`) | raw mode, threads | pump, SIGWINCH, restore | the client's terminal, the daemon's pty |
| installation (`MainActivity`, `SuHelper`, `SuCheckerReceiver`, scripts) | the installed binary | check the version, install | `su -v`, recovery |
| `reboot`, `sqlite3`, icon caches, About | | | |

`su` never trusts the app beyond one word read from a socket it bound itself in
a directory only the app's uid can enter. The socket's path is a function of
`getpid()`, the intent that starts the dialog carries that path and nothing
else, and all dialogs of a user share one process and one UI thread.

### What is hard here

* **Who answers whom.** Two invocations can have the same socket path, one
  after the other; the system may start a dialog again with an old intent; two
  dialogs may connect to one socket. An answer must be that of the dialog that
  read the request of this very `su`.
* **Races to decide.** A click, the PIN, an automatic response, the timeout and
  `onDestroy` may each decide a request; only some of them look at `mHandled`.
* **Two threads in one dialog** share `mSocket`: `onDestroy` may run before the
  other thread has created it, which then connects a socket nobody will close.
* **Clean-up.** The socket file exists before the handlers that remove it; it
  is removed by `su`, by signal handlers, by `atexit` and by the dialog.
* **Waiting.** `su` waits 20 seconds for a connection and then, without a
  timeout, for the answer; the dialog has a timer and a watchdog.
* **A chain of processes.** Through the daemon, one invocation is five processes
  that wait for each other; any of them may die, and a status must come back.
* **Remembered decisions**: expiry in two units, rows read by `su` per uid only,
  policy objects written back by screens long after they were read.

`PROJECT.json` lists every hazard at its line, with the properties that cover it.

### What makes each component correct

* invocation and dialog: a command runs only with consent to this request;
  consent is given at most once; the invocation ends; nothing stays behind.
* policy lookup: a denial beats an approval, no applicable row asks the user.
* policy store: what is remembered was decided; it lasts as long as was said.
* logs: one entry per decision that is to be logged.
* daemon: the client's arguments, descriptors and exit code arrive unchanged;
  the identity used is that of the peer.
* pumps: no byte is lost or reordered; the terminal is restored.

## The modules

| module | what it is |
|---|---|
| `SuDecision` | abstract: one invocation is asked, decided once, granted with consent only |
| `SuRequest` | `su` processes and request dialogs, interleaved; the core |
| `MCSuRequest` | instances of it for TLC |
| `SuRequest_proofs` | type correctness, inductive invariant and theorems |
| `SuRefinement_proofs` | `SuRequest` implements `SuDecision` |
| `SuOutcome_proofs` | how an invocation ends: no socket left, no grant to the undeclared, an allow never taken for a refusal, nobody stuck |
| `AccessDecision` | one `su` before it asks: the gates, the fold over the rows, whom `am` is told to start; the multiuser file changes meanwhile |
| `MCAccessDecision` | instances of it for TLC |
| `AccessDecision_proofs` | type correctness, the gates, the verdict for tables of any length |
| `PolicyStore` | the table of policies and everything that writes it: dialogs, screens, revocations, sweeps |
| `MCPolicyStore` | instances of it for TLC |
| `PolicyStore_proofs` | type correctness, that every grant was approved, and that a sweep passes over no orphan |
| `RemoteCall` | abstract: an invocation through the daemon is one call, run at most once and answered once |
| `SuDaemon` | the daemon, its handlers and children, and the clients, as processes over a socket |
| `MCSuDaemon` | instances of it for TLC |
| `SuDaemon_proofs` | type correctness, that a request arrives and a status comes back, that it implements `RemoteCall`, and that nobody is stuck |
| `PtsChannel` | abstract: a stream comes out in its order, and all of it unless excused |
| `PtsPump` | the client after the acknowledgement: three threads, a signal handler and two terminals |
| `MCPtsPump` | instances of it for TLC |
| `PtsPump_proofs` | type correctness, keys, window, terminal mode, that the output implements `PtsChannel`, and that output never waits behind the pump of the input |
| `SuLogs` | the app's two databases: the upgrade in two processes, the receiver of what `su` reports, logs and settings |
| `MCSuLogs` | instances of it for TLC |
| `SuLogs_proofs` | type correctness, what upgrades and the receiver keep, and that both come to their end |

`SuRequest` begins where `AccessDecision` ends (it has the verdicts of the lookup,
not the rows behind them), and `PolicyStore` ends where the lookup begins (its
`Lookup` is the verdict that `VerdictOfRows` justifies). `SuDaemon` is what lies around
them when `su` is started by a user who cannot become root without the daemon:
the `su` that its child forks is one invocation of the other modules. `PtsPump` is what
a client of `SuDaemon` with a terminal does in the one step `Pump` there. `SuLogs`
establishes what `PolicyStore` assumes of the table it finds (a primary key without
nulls, `NewestKept`), and receives what `AccessDecision` and `SuRequest` report.

`AccessDecision` and `PolicyStore` need no composition: while `su` steps through its
query it holds SQLite's shared lock, so that the rows it folds are those of one
state of the table; which state that is, is any (`Lookup` may be asked at any step).

### SuRequest

State and code:

| variables | in the code |
|---|---|
| `pc` | the next call of `su_main`, from `seteuid` (su.c:908) to `exec` or `exit` |
| `pid, uid, desired` | `getpid()`, `ctx.from.uid`, `ctx.to.uid` |
| `dballow, fd, sent` | what `database_check` and `socket_accept` returned; the request is written |
| `hooks` | the calls of `signal` (su.c:932) and `atexit` (su.c:943) made so far |
| `sockPath, serv` | `ctx.sock_path[0] != 0`; the listening descriptor is open |
| `file` | the directory of sockets: who is bound at the path of a pid |
| `intents` | intents that `am` has sent and no activity has taken |
| `policy` | the rows of `uid_policy` that are in force |
| `path, sock, peer, caller` | `mSocketPath`, `mSocket`, its peer, the request read (`mCallerUid`, `mDesiredUid`) |
| `phase` | open, `isFinishing()`, in `onDestroy`, gone |
| `thread` | how far `manageSocket`'s thread has got, and what it has posted |
| `shown, posted, ui` | `mRequestReady`, an automatic response in the queue, the enabled buttons or the PIN view |
| `decision, wrote` | `mHandled` and how; the write in `handleAction` succeeded |

One action is one call of `su_main`, one callback of the UI thread, or one
blocking call of the socket thread. `onDestroy` is two steps because `su` and the
socket thread run between `close` and `delete`; meanwhile the UI thread is busy
(`UiIdle`). Whatever the code may meet is possible at any step: a signal (with or
without a handler), SIGKILL, an intent that is lost or delivered again, a failing
`socket`, `bind`, `fork`, `sqlite3_open_v2` or `sqlite3_exec`, an `exec` that fails,
the death of the app's process, an expiring policy.

Abstractions. Time: a timer may fire whenever it is armed, `select` may time out
whenever nothing is waiting, and a fired timer may be late by any amount. The
request is one message: a peer that goes away in the middle of it is a peer that
goes away before it. The listen backlog is unbounded (`listen(fd, 1)`; a third
connection would wait). Settings do not change during a behaviour; that they may
take any value is covered by `settings \in Settings`. The checks of `su_main`
before su.c:892 are not part of this module.

### SuDecision

`SuRequest` implements it with `outcome[s]` computed from `pc[s]` and
`consent[s]` from what the database said or, once a connection is accepted, from
the decision of the dialog at its other end. The refinement says what a user may
rely on: nobody is granted who was not consented to, whatever processes die.

### AccessDecision

| variables | in the code |
|---|---|
| `uid, device` | `ctx.from.uid`; the properties `access_disabled` and `get_multiuser_mode` read |
| `modeFile, writing` | the file `multiuser_mode`; `writeFile` has emptied it and not filled it |
| `pc` | the gate `su_main` is at (su.c:840-928) |
| `mode, user, dir` | `ctx.user`, and what `stat` said of the app's directory |
| `rows, next, policy` | what the query yields, how far the callback is, `data.policy` |
| `told, prompted, notified` | the users `am` was told to address (activity.c) |

One action is one gate, or one call of `database_callback`. Every failure the
code tests is possible: `from_init`, `stat`, the calls before the lookup, opening
the database, the query, `fork`. The file is read in one step (`fgets`) and
written in two; of an empty file the uninitialized buffer may come to mean any
mode. The query yields any sequence of `Tables`; `PolicyStore` and the older
versions of the app decide which exist. A dumpstate is a caller whose result
may not be sent.

Ghosts: `gate` (where the request ended), `modes` (the policies there were since
`su` started), `torn` (the file was empty when it was read).

### PolicyStore

| variables | in the code |
|---|---|
| `rows` | the table `uid_policy` |
| `busy` | a process between `getPackageInfo` and `db.replace` in `setPolicy` |
| `list, up, shared` | the objects of `PolicyFragment`'s items, the one of `LogFragment`, and whether that is one of them |
| `revoking, checking` | threads of the revocation, before and after `delete` |
| `pending, todo, victim` | broadcasts, and each sweeper's list and the policy it is about to delete |
| `now, installed` | seconds, `getPackagesForUid` |

One action is one statement on the database together with the Java code up to
the next one; SQLite makes a statement atomic, nothing makes two so. Objects
are what they were when they were read; `load` makes new ones, and an item that
is changed is the object the open screen shows only if `shared`. Each process
may die at any time. Approving a request and changing the permission are
decisions (`decided`), the switches for logging and notification are not.

Ghosts: `approved` (uid, target, expiry and package of what the user approved)
and `revoked`.

### SuDaemon

| variables | in the code |
|---|---|
| `client, sent, result` | how far `connect_daemon` is, the fields it has written, the status its parent passes on |
| `backlog, daemon, fork2` | the listen queue, the client `run_daemon` is busy with, and which side of the second fork of `fork_zero_fucks` |
| `handler, got, from, replies` | `daemon_accept` up to its `fork` and after it as the parent, the fields read, `daemon_from_uid` (root until the header is read), the ints written |
| `child, su, slave` | `daemon_accept` as the child, the `su` that `fork_for_samsung` makes there, who has the terminal open |

One action is one call that may block or fail: `connect`, a field written or read,
`accept`, `fork`, `waitpid`, `open`. The socket is a UNIX stream, which keeps what is sent and
its order: a request is a tuple of which both ends count the fields. `Held` says
whether anybody has the server's end of a connection open, which decides between
waiting, the end of the stream and SIGPIPE. Any process may be killed at any
time, every `fork` may fail, and init may stop the daemon with its handlers (not
the children, which have a session of their own) and start it again.

Abstractions. The fields before the arguments are one: each of them is written
and read in the same order without a branch between them. A stream is the terminal or is not: a request with `tty`
has both stdin and stdout on it. What the pumps do with it is one step (`Pump`), and what a signal or the end of
stdin makes of it another (`Interrupt`); `PtsPump` is about both. Who decides in the `su` that is run is in the other modules; here it ends with any
status of `Codes`. `mount` is whether MOUNT_EMULATED_STORAGE is set. Words are not looked at.

Who asks (`FromUid`) is what the message says if the peer's credentials are root's, and
the credentials otherwise (daemon.c:292-302). The credentials are those of the effective user (`euid`):
root for a `su` that is setuid, the invoker for one that is not. The handler keeps the
result in `from`, which is what the `su` that is run believes; `RequestArrives` says that it
is the invoker in both cases.

Ghost: `broken`, a signal has ended a process of this chain.

`RemoteCall` is what all of this promises to the caller, and `ImplementsCall` maps it:
`asked[c]` is what the client's user asked for (`Requested`: who he is, and the words that
the client parsed), `ran[c]` what the `su` that was forked for it has been given
(`Executed`), `status[c]` is `su`, `answer[c]` is `result` and `cut[c]` is `broken`. A step
of the abstract call is the fork of that `su`, its end, the end of the invocation, or a signal; all
else (the fields on their way, the daemon's forks, a stop and a new start) is a stutter.

### PtsPump

| variables | in the code |
|---|---|
| `tty` | `atty`: which of stdin, stdout, stderr are terminals |
| `main, reader, watcher` | `connect_daemon`, `pump_thread`, `watch_sigwinch`: the next call of each, or the one it is in (`inread`, `inwrite`) |
| `fds, armed` | descriptors that are open, which the threads share; `setup_sighandlers` has run and no signal has come yet |
| `raw, flag` | the mode of the user's terminal, `stdin_is_raw` |
| `winch, seen, size, ptySize` | a pending SIGWINCH, the size between the two `ioctl`s of `watch_sigwinch`, the sizes of the two windows |
| `typed, inbuf, toCmd, input` | keys in the user's terminal, in `buf` of `pump_ex`, in the pseudo-terminal, read by the command |
| `produced, toUser, outbuf, screen` | the same for what the command writes |
| `cmd, slave` | the command, and its side of the pseudo-terminal |

A call that may block is two steps, because what another thread does to the
descriptor in between matters: a `read` that has begun goes on when another thread
closes the descriptor, one that begins later fails. A pseudo-terminal takes what is
written before its other side is opened, gives out what is left after it is closed,
and then an error. The queue to the command is bounded and blocks the writer; the
command is slow when it likes. A read or write takes any part of what is there.
Nothing that may fail without being looked at succeeds for sure: `malloc`,
`pthread_create`, `tcsetattr`, the `ioctl`s. A quit signal goes to the main thread
(the second one is a plain end: the handler puts the defaults back). Whether `raise`
reaches the watcher or the thread that blocks SIGWINCH is the libc's
(`RaiseShared`); the checks are for the first.

`PtsChannel` is implemented by the direction from the command to the user: sent are
the outputs, received is `screen`, ended is the end of the pump. `Excused` lists all
that may cut the stream short.

### SuLogs

| variables | in the code |
|---|---|
| `db` | `su.sqlite` as committed: version, tables, the column `notification`, rows of `uid_policy` |
| `logs, settings` | the tables of `superuser.sqlite` |
| `pc, seen` | each process of the app: not running, version read (`seen`), in the transaction before or after the copy, started |
| `hand, status` | what `onReceive` holds between its statements, and what became of each broadcast |
| `old` | entries more than two weeks old |

`SuApplication.onCreate` opens `su.sqlite` for writing in every process before
anything else, so that the upgrade comes before every receiver and screen.
`SQLiteOpenHelper` reads the version first and then begins an exclusive
transaction; two processes that start together may both have read the old one. The
second then finds the log table gone or the column there, and its exception ends
the process (`Throws`), or it rewrites the rows once more (version 5). The upgrade
is three events that can be told apart: `Begin`, the commit in the other database
(`Copy`), and the commit here (`Commit`), which stands for all the steps since,
as nobody can see them one by one. A process may die at any of them (`Kill`).
`insert` and `replace` of Android return an error that the code does not look at:
`Writes` lets any write of the module fail and go unnoticed. `delete`
throws, which is a death of the process.

The receiver runs in the UI thread of the main process, in three steps: the row
(`Receive`), expiry and the new entry (`AddLog`), the toast or notification (`Tell`). Its row
is the first of those that concern the request, whichever. The screens
are in the same thread; the dialogs are in the other process. Which object
a screen writes is the matter of `PolicyStore`; here it is the row as it is.

Ghosts: `torn` (copies no commit has followed), `failed` (what a write has failed for),
`removed`, `chosen`, `newest` and `done`; `on` and `off` follow, from the report of a decision
to its handling, what the user's settings and switches have said all along.

## The runs

| run | instance | shows |
|---|---|---|
| `concurrent` | 2 `su`, 2 dialogs, 2 pids | `GrantedByConsent`, `PolicyWasDecided`, `NoSocketLeft`, `OneReader` |
| `live` | 1 dialog; 2 `su` under the plain prompt, or 1 under any of the 11 other settings, by 3 uids, for 2 targets; fair | `UndeclaredRefused`, `DecisionStands`, `ImplementsDecision`, `SuEnds`, `AllowTakesEffect`, `DialogCloses` |
| `shown` | 1 `su`, 1 dialog, a large target uid | violated: such a request is never shown |
| `access` | 6 callers, 46 builds and settings, 4 files, 1 change, every table of up to 2 rows of 12 kinds | `FreePass`, `DisabledHolds`, `OwnerInControl`, `VerdictOfRows`, `ToldOnce` |
| `policy` | 1 key, 1 package, 1 sweeper, 1 answer, 1 revocation, 2 seconds | `GrantWasApproved` |
| `sweeps` | 1 key, 2 packages, 1 sweeper, 1 answer, fair | `OrphanRevoked` |
| `daemon` | 2 clients (a shell on a terminal, a command of which a word is dropped), 1 stop of the daemon, fair | `RequestArrives`, `StatusOfCommand`, `ImplementsCall`, `Served`, `NobodyWaits` |
| `pumps` | a shell at a terminal, only stdin or only stdout a terminal; 2 keys or resizes, 2 outputs, 1 signal, 1 hang-up, fair | `KeysKept`, `Restored`, `SizeFollows`, `ImplementsStream`, `OutputArrives`, `SignalHeard`, `ClientEnds` |
| `errors` | as `pumps`, with the output redirected | violated: errors go where nobody reads |
| `logs` | 2 processes, 5 older versions, 3 tables, 3 settings, 1 entry, 1 decision, 1 death, 1 failing write, 1 change by the user, fair | `EntriesKept`, `SettingKept`, `NewestKept`, `ReportedAsAsked`, `UpgradeEnds` |
| `listing`, `revoked` | as `policy` | violated: see the findings |

Bounds. Two invocations, two dialogs: every hazard listed is between an
invocation and another one, a dialog and another one, or one of each. One pid
for two invocations forces the path to be used again; two pids allow both, and
two at the same time. An activity and an invocation are used once, so that
behaviours are finite but for the user's clicks. With one dialog in `live`, a
second invocation finds none left: its request is one whose intent is not
answered. `Calls` says which invocations a run considers: what two of them do to each
other does not depend on the settings, which only the dialog reads, so that `live` has a
single one under all but the plain prompt. Symmetry is used in the safety runs only.

In `access` the callers are root, the shell, the app, an app, and the app and an
app of another user; a build without CyanogenMod has no settings of its own. The
gates look at one caller, so that one `su` is enough. Two rows suffice for each
order of a denial and an approval; that more rows change nothing is proved
(`VerdictTheorem`). In `PolicyStore` a statement names one key and the
hazards are between writers of one key: one uid and one target are enough, and
a row restricted to a command, as an older version could leave, is covered by the
proof. `MaxNow = 2` lets a policy of one second expire.

Fairness (`live`): every `su` process runs (`WF(SuStep)`), the handler of the
app's process fires its timers and destroys finishing activities
(`WF(RequestTimeout)`, `WF(OnDestroy)`, `WF(DeleteFile)`). Nothing is assumed of
the user, of the socket thread or of the intent. Every action after a fork or a
blocking call that may never return is left unfair.

`sweeps`: a thread of the receiver runs (`WF(SweepStep(t))`), as nothing in it
waits for anything but the database. `OrphanRevoked` assumes that the process is
not killed for ever and that packages keep changing; without another change
nothing starts a sweep, and a screen may have written the row back after the last.

`daemon`: the daemon, each client, and each handler with its child run (the
handler does nothing while its child lives). Nothing is assumed of the command,
of processes it leaves in the background, of signals, or that init starts the
daemon again. `Served` assumes no more than that `fork_zero_fucks` waits for a process that only
forks; `NobodyWaits` that a read returns once nobody has the other end open.

Two clients are enough in `daemon`: what they share is the queue and the daemon's
own process. One's `su` is root in effect, the other's is not, so that either rule about
who asks, applied to both, is wrong for one. `MaxArgs = 2` puts the command at the limit. One stop while anything is going on
covers a restart; `Backlog` is the code's 10.

In `pumps` the queue to the command takes one key of two, so that the pump is blocked
with a key in its hands, and the one from it takes two outputs, so that a write may be
partial. A second signal kills. `MaxInputs` bounds keys and resizes together.
Each hazard of the pumps is between two of the threads, or one and the
signal, at one moment: one of each is enough. Fair is the main thread only
(`WF(MainStep)`, which is not enabled while it waits): `OutputArrives` must hold although
neither the reader nor the command takes another step.

In `logs` the versions are those onUpgrade tells apart (1 is treated as 2). One entry
is enough for an entry to be lost or doubled, as no statement relates two; the
tables have two rows of one key, a row for one command, and a timed one. One death puts it
between any two commits; a death and a second process give two unfinished upgrades and
a third that ends. Fair are the upgrade and the receiver, which wait for nothing but
the lock of the other process, and that the app is started again (by the
next broadcast, at boot, by the user).

`SuEnds` has one exception, `Stranded`: if `onDestroy` finds `mSocket` still null,
because the other thread has not created it yet (MSRA:139, 311), that thread creates
and connects it afterwards and nobody closes the connection until the process
dies; a `su` that accepted it reads forever, as su.c:431 has no timeout. (A socket
that is closed before `connect` makes `connect` fail, which is harmless.) TLC finds
the behaviour when the exception is removed.

### Findings

* `shown`: MSRA:341 reads the target uid as a Java byte. A request to become a
  uid above 127 (`su shell`) fails before anything is shown, and is denied.
* `listing`: `until` is in seconds and is compared with milliseconds: showing the
  list of policies forgets every "remember for some minutes".
* `errors`: a terminal on stderr is replaced by the pseudo-terminal, which is read only if
  stdout is a terminal too (daemon.c:648). With `su -c cmd > file` the errors of the command are
  lost, and a command with more of them than the terminal holds never ends.
* `revoked`: the screen of a deleted policy stays, and its switches bring it back.

Seen in the code as well, and stated as an exception of a property or not at all:

* MSRA:102 asserts `!mHandled`, and the click listeners do not look at it: a click queued
  behind the timeout, or on the buttons a configuration change enables again, ends
  the process with every dialog in it (`AssertionFails` of `SuRequest`).
* A sweep deletes by uid and target what it found in an old list, and with it a
  decision made since for a package that is installed (`PackageChangeReceiver.java:49`).
* The comment at MSRA:402 takes a missing socket file for a dead `su`. `onDestroy` of
  an earlier dialog deletes the file whoever has bound it since, and the dialog of
  a `su` that lives is closed.
* `WEXITSTATUS` of a process that a signal has ended is 0 (daemon.c:347, su.c:643): a
  killed command, or a client that died of SIGPIPE, is reported as a success. The
  exception `broken` of `StatusOfCommand`.
* With MOUNT_EMULATED_STORAGE and a command line of one word, `argc` 0 is sent and
  the word too (daemon.c:630-639): an exception of `RequestArrives`.
* A client whose terminal is never opened at the other end, because the handler died
  or its `fork` failed after the acknowledgement, pumps it forever (daemon.c:649): the exception
  `Unopened` of `NobodyWaits`.
* With the policy "All Users" the result of a request by another user is broadcast
  to that user twice (activity.c:96, 135): the exception of `ToldOnce`.
* The multiuser file is emptied before it is written, and su.c:219 reads it without
  looking whether it read anything: the exception `torn` of `OwnerInControl`.
* `allow()` before su.c:892 gives the command the umask 0 that `ctx` was initialised with,
  not the caller's (su.c:486).
* An access property that was never set is apps and ADB in the settings
  (`Settings.java:331`) and apps only in `su` (su.c:593).
* Every write binds a policy to the first package the uid has then, not to the one
  "at creation time" (`PackageChangeReceiver.java:26`, `SuDatabaseHelper.java:108`).

* The reader thread closes the terminal when stdin ends, or when a key is typed at
  the moment at which the command has ended (pts.c:62): output is cut off, and stdin is
  closed before it can be restored, so that the user's terminal stays raw. Exceptions of
  `ImplementsStream` and `Restored`. So do a signal between `tcsetattr` and
  `stdin_is_raw = 1` (pts.c:175), a failing `malloc`, and stdin being a terminal when stdout
  is none: nothing restores it then (daemon.c:648).
* A signal that does not find the main thread in `read` is heard with the next
  output only, as `read` on the pseudo-terminal goes on (daemon.c:491; the premise of
  `SignalHeard`). One that interrupts `read_int` loses the status (daemon.c:172).
* If `pthread_create` fails SIGWINCH
  stays blocked, which the note at pts.c:257 excludes.
* A process that dies between the two commits of the upgrade has the logs copied again
  (`SuDatabaseHelper.java:81`); a write that fails there loses an entry or a setting
  without an error, as the tables are dropped all the same (line 86). `torn` and `failed` in `SuLogs`.
* The upgrade purges every timed policy (milliseconds again, line 99): a refusal for some
  minutes is forgotten and an older approval that had a null command is in force again.
* A notification replaces the one before (`SuReceiver.java:87`, one id): of two
  decisions the user may see the last.
* The zip that the app makes for a recovery holds two scripts and no `su`
  (`MainActivity.java:131`); `update-binary` takes `su` from `/cache` only if `unzip` fails (line 25).
  If it succeeds, the installed `su` is removed and there is none to copy. If it fails,
  `install-recovery.sh` is not in `/cache`, and the marker of an installed daemon is written
  all the same (line 78). Read in the scripts, which no module models.

`GrantWasApproved` holds in spite of `listing` and `revoked`: they lose decisions or extend
them to where the user had once put them, and never invent one for a uid.

## The proofs

`SuRequest_proofs` proves for any sets of processes, dialogs, pids, uids and
targets, from `CallAssumption` (what is invoked is one of these), `SettingsAssumption` (which values the settings may take) and
`NoneAssumption` (`None` is none of them):

* `TypeCorrect`: `Spec => []TypeOK`
* `ConsentTheorem`: `Spec => []GrantedByConsent`
* `PolicyTheorem`: `Spec => []PolicyWasDecided`
* `ReaderTheorem`: `Spec => []OneReader`
* `DecisionTheorem`: `Spec => DecisionStands`

`GrantedByConsent` is not inductive. That the answer read from `fd[s]` was given to
the request of `s` rests on a chain of links, each of which is a conjunct of
`IInv`: an activity connects once, before it reads (`Connected`); `su` has no
connection before it accepts (`Unaccepted`) and the one it accepts is of an
activity connected to it (`Accepted`); what an activity has read came from the
`su` that accepted it (`OneReader`); nothing allows before it is shown, and what
is shown was read (`ShownWasRead`). `Named` says that a process that runs has a
pid, a uid and a target, and a created activity a path, which type correctness
of `intents` and `PolicyWasDecided` need. Each action is a case of its own; the
callbacks that decide share the lemmas `HandleActionTypes` and `RestHandle`.

`SuRefinement_proofs` proves `RefinementTheorem`: `Spec => ImplementsDecision`. It adds
`DatabaseFirst`: the database is asked before the user and only an `INTERACTIVE`
verdict leads to a socket, so that the two sources of consent never compete. A
step of one `su` moves its own outcome or consent only; a decision of an activity
is the consent of the one `su` whose connection it is (`Accepted` makes it unique).

`AccessDecision_proofs` proves, from the assumptions that uids are numbers (of the
shell and the app below 100000) and that tables are sequences of rows:

* `TypeCorrect`: `Spec => []TypeOK`
* `FreePassTheorem`, `DisabledTheorem`: by `GateInv`, which says at each gate what
  the gates before it have established (`Reached`), what whoever is allowed has
  shown (`Entitled`), and that a request ends once (`Marked`). The lemmas `GoStep`,
  `DenyStep` and `AllowStep` are the three ways in which a gate can end.
* `OwnerTheorem`: by `ModeRead` (once read, the mode is one the owner has had, unless
  the file was empty) and `ModeObeyed` (the gate, the dialog and the notification
  are those of that mode). It needs no bound on the number of changes.
* `VerdictTheorem`: by `QueryInv`: after `n` rows `data.policy` is `INTERACTIVE` or
  `ALLOW` according to the first `n` rows (`Folded`), and no denial was among them.
  It is the loop invariant of the callback, and holds for tables of any length.

`PolicyStore_proofs` proves, from `LegacyAssumption`, `BoundAssumption` and
`NoneAssumption`:

* `TypeCorrect`: the types, and that the table keeps its primary key.
* `ApprovalTheorem`: `Spec => []GrantWasApproved`. The invariant follows an approval
  to wherever a copy of it may be: rows (`RowsBacked`), the objects of the screens
  (`ScreenBacked`), a write that is not a decision (`FlagsBacked`), while a dialog only
  ever writes decisions (`DialogDecides`). An expiry is never prolonged.
* `SweepTheorem`: `Spec => OrphansSwept`, an action property: an orphan that is before a sweep
  leaves it by being deleted or by its package's return, a sweep that starts has all the rows
  before it, and only a start gives a sweep more to do.

`SuDaemon_proofs` proves, from the assumptions that every command line has a name
and that statuses are bytes:

* `TypeCorrect`: `Spec => []TypeOK`
* `RequestTheorem`: `Spec => []RequestArrives`, for command lines of any length. A handler
  has read as many fields as it was told to before it forks (`Handled`), and these
  are the words that were sent (`Count`, `Words`). It knows who asks once it has read the header
  (`Known`), which is the invoker by `UidAssumption` (`WhoAsks`).
* `StatusTheorem`: `Spec => []StatusOfCommand`. `Back` follows a status from the command to
  the child, the reply and the invocation: at each place it is the command's, a
  failure, or of a broken chain. It needs that a connection is handed on once (`Queued`),
  so that no handler replies twice, and that nothing has been replied before `su` ends (`Handled`).
* `CallTheorem`: `Spec => ImplementsCall`, the refinement of `RemoteCall`: every step of a
  handler, a child, a client or the daemon maps to a step of one call or to a stutter, by the
  invariant of the three theorems above.
* `NobodyStuckTheorem`: `Spec => []NobodyStuck`: in every state the processes of a chain have
  somebody who can go on, or are over. `Linkage` says who holds which end of a connection at
  each point, so that whoever waits for a field, a reply or an end of the stream waits for a
  process that lives or finds the stream ended.
* `WorkTheorem`: `Spec => WorkShrinks`: what is left of a chain (`ChainShrinks`) and of the daemon's
  round (`DaemonShrinks`) only gets less, by each step of its own, and is not added to by any other, a
  stop or a new start. `Taken` says that a connection is taken from the queue once.

`SuOutcome_proofs` proves of `SuRequest`, from the same assumptions and `IInv`:

* `SocketTheorem`: `Spec => []NoSocketLeft`. `SocketInv` says of every file whose it is: a
  process that has the path of its pid, knows it, and has not come to an end that removes
  it; a step of one process leaves the files of the others theirs, although `unlink` and
  `delete` take whatever is at the path.
* `PermissionTheorem`: `Spec => []UndeclaredRefused`. Three places can let a barred caller
  pass, and none does: the rows (`RowsBar`), what was looked up in them (`LookupBars`), and
  the decision, the posted response and the buttons of a dialog (`DialogBars`). The settings
  are those of the whole behaviour: a row remembered before the permission was required
  is outside of it.
* `AllowTheorem`: `Spec => []AllowNotRefused`. `EndInv` says that an open dialog is
  undecided (`OpenUndecided`, so that its timer never meets the assertion of `handleAction`),
  that what was written was decided (`WroteDecided`), and that a `su` that refuses has
  read a denial or the end of a stream nothing had been written to (`Refusing`).
* `NobodyStuckTheorem`: `Spec => []NobodyStuck`: a `su` that waits has a dialog that is
  still to time out or to end, or is `Stranded`; of the dialogs that are left one can go on.
* `NothingPostponedTheorem`: `Spec => NothingPostponed`: the ranks of `su` and of a dialog go down
  with each of their own steps and up with nobody's.

`AccessDecision_proofs` also has `ToldTheorem`, `Spec => []ToldOnce`: su is told of by one call of
`send_result`, and the users it names are two unless mode "user" makes them one (`ToldInv`).

`PtsPump_proofs` proves, from `TtyAssumption` and `BoundAssumption` (queues of any length, any
number of keys, outputs and signals):

* `TypeCorrect`: `Spec => []TypeOK`
* `RestoredAlways`: by `RawKnown` (whoever made the terminal raw has said so, but for one
  step) and `InClosed` (who may have closed stdin).
* `SizeFollowsAlways`: by `SizeInv`: what the watcher is about to set is the size, or another
  SIGWINCH is pending, so that a resize between its two `ioctl`s is not lost.
* `KeysKeptAlways`: the keys in the command, the pseudo-terminal, the pump's buffer and the
  terminal are, end to end, the last ones pressed; each partial read and write moves the border
  between two of them (`SameKeys`).
* `StreamTheorem`: `Spec => ImplementsStream`, the refinement of `PtsChannel`. `OutKept` is the
  same for the output; that the pump ends with nothing left (`AllOut`) needs who may have
  closed which descriptor (`Closed`) and that nothing is in the buffer when a read begins
  (`BufferEmpty`).
* `OutputFreeTheorem`: `Spec => []OutputFree`: there is no pump of the input before the main thread is on
  its way to pump the output; and output that is not at the user's yet has the main thread ahead of
  it, about to read it from a terminal that is open, or about to write what it has read.
  So it never waits behind a write to the command's terminal. It needs `HoldsOutput` (a pump that
  writes has something to write) and the invariant of `StreamTheorem`. On the instance of
  `pumps` TLC finds it violated once `Spawn` is replaced by `SpawnFaulty`, which pumps
  both ways in one thread.
* `WorkTheorem`: `Spec => WorkShrinks`: `PumpWork` weighs the output that is still to come, in the
  queue and in the buffer, and the place of the main thread; every step of that thread takes
  from it, and neither a key nor a signal nor what the command writes adds to it.

`SuLogs_proofs` proves, for any entries, tables of any size, any number of decisions, deaths and
failing writes, from the assumptions that name what an older version can have left
(`RowsAssumption`, `SettingsAssumption`, `NamesAssumption`, `BoundAssumption`):

* `TypeCorrect`: `Spec => []TypeOK`, with one process in the upgrade at a time.
* `SettingKeptAlways`: by `SettingInv`: what is still in `su.sqlite` is the user's choice, and
  what is no longer there is in `superuser.sqlite`.
* `EntriesKeptAlways`: by `EntryInv`; an entry is doubled only by an upgrade that was torn, and
  what is in `onReceive`'s hands is not logged yet (`Fresh`).
* `NewestKeptAlways`: by `NewestInv`: of each command a row is in force that agrees with the
  decision taken last, at every version the table may be in, with or without the column
  `notification`.
* `ReportedAlways`: by `ReportInv`: the row in the receiver's hands agrees with what the user has
  asked ever since the decision was reported (`HandAgrees`): the settings are changed by the
  thread that is in `onReceive`, and not while it is there.

* `NobodyStuckTheorem`: `Spec => []NobodyStuck`: a process that is not up can go on or waits for
  the other one, which holds the lock and can; a report on its way is in hand (`Handled`), can be
  received, or waits for a process that can go on.
* `UpgradeTheorem`: `Spec => UpgradeShrinks`: `UpgradeWork` counts the steps of the two processes
  before they are up, and the deaths to come. A start that throws has found the upgrade done,
  as the column and the log table are what the version says (`Notified`, `Phases`): it is up
  after the next start, so that throwing is not repeated.
* `HandledTheorem`: `Spec => HandledOnce`: no report goes back a stage.

All of them rest on `Phases`: which tables, columns and versions go with which point of the
upgrade, although the other process may have ended it in between.

Liveness. `OrphanRevoked`, `Served`, `NobodyWaits`, `SuEnds`, `AllowTakesEffect`, `DialogCloses`,
`OutputArrives`, `SignalHeard`, `ClientEnds` and `UpgradeEnds` are model-checked only: fairness and
`ENABLED` are out of the prover's reach. So are the violations. What is proved for every
instance is the part of an argument for liveness that is safety: that whoever is not
at the end can go on or waits for somebody who can (`NobodyStuck`), that no
step puts the end off and each fair one brings it nearer (`NothingPostponed`, `WorkShrinks`,
`UpgradeShrinks`, `HandledOnce`), and that what is awaited is not missed and
waits for nobody else (`AllowNotRefused`, `OrphansSwept`, `OutputFree`). The guards in which
`NobodyStuck` is written (`SuCan`, `DialogCan`, `ProcessCan`, `ReceiverCan`) are those of the
actions: on the instances of the runs `live` and `logs` TLC finds
each equivalent to `ENABLED` of the actions it stands for. What is left to the runs is
that a fair step that stays enabled is taken.

## Plan

Done: `SuRequest` and `SuDecision`, `AccessDecision`, `PolicyStore`, `SuDaemon`,
`PtsPump` and `PtsChannel`, `SuLogs`, with their proofs. Left, in this order:

1. The descriptors of a request (`send_fd`, `recv_fd`) as what they stand for, in `SuDaemon`.
2. The options of `su_main` and the environment it prepares (su.c:735-835), before `AccessDecision`.
3. The installation as a protocol between versions of `su` and of the app.

## Granularity and assumptions

Where an action is coarser than the code, or the environment is kinder than it might be:

* `accept` that fails after `select` has found a connection (su.c:374-378) ends `su` as the
  timeout does, which is the path taken for it.
* A row whose policy column is NULL (db.c:38-41) is not a value of a row: the app writes none.
* The deletion of expired rows and the query after it (SuDatabaseHelper.java:151-153) are one
  step of `Reload` and of `SweepStart`: no statement relates what is between them.
* A string longer than PATH_MAX (daemon.c:190), `getsockopt` or `malloc` that fail, end a handler of
  the daemon as the failures do that are modelled; they have no exit of their own.
* A write to the user's own terminal does not block for ever (pts.c:43), and `tcsetattr` on it
  (pts.c:175) fails only once stdin is closed or hung up.

## Not modelled

* Installation (`MainActivity`, `SuHelper`, `SuCheckerReceiver`, `NotifyActivity`, scripts): one-shot
  scripts with dialogs around them. The reboot tool, icon caches, About: layout and I/O.
* sqlite3, vendored in `Superuser/jni/sqlite3`: by far the most lines of the C code
  here, and none of this program's. What the models rely on is its contract: a
  statement or a transaction is atomic and durable, a query sees one state, an open
  or a query may fail. A model of its pager or parser would be one of another program.
* The Android framework, of which only what the code relies on is modelled (one UI
  thread per process, `isFinishing`, a process that may die and be restarted, the
  transaction of `SQLiteOpenHelper`).
* In `su`: the parsing of options, `populate_environment`, logging, the build's
  Samsung fork but for its wait; in the daemon: the passing of descriptors byte by byte and the
  emulated storage of `SUPERUSER_EMBEDDED`.
