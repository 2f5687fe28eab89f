------------------------------- MODULE SuLogs -------------------------------
(***************************************************************************)
(* The app's two databases: su.sqlite, with the policies, and superuser.   *)
(* sqlite, with the logs and the settings, which older versions of the app *)
(* kept in the first.  Each of the app's two processes upgrades su.sqlite  *)
(* when it starts (SuApplication.onCreate); then the main one receives     *)
(* what su reports (SuReceiver) and clears logs, while the dialogs of the  *)
(* other one write policies.                                               *)
(*                                                                         *)
(* The upgrade is a transaction of su.sqlite in the middle of which one of *)
(* superuser.sqlite commits.  A process may die anywhere, two may start at *)
(* once, and insert and replace report no error when they fail.            *)
(***************************************************************************)
EXTENDS Naturals

CONSTANTS Commands, AllCommands,  \* of rows and requests; the empty command
          Decisions, CommandOf,  \* what su reports, and of which command
          LegacyLogs,    \* the entries an earlier version may have left
          LegacyRows, LegacySettings,  \* the tables it may have left
          Versions,      \* of su.sqlite that the app may find
          MaxKills, MaxFaults,   \* bounds of deaths and of failing writes
          MaxChanges,    \* bound of what the user changes
          Unset, None

Current == 6                      \* CURRENT_VERSION of su.sqlite
Processes == {"main", "superuser"}
Names == {"log", "tell"}          \* the settings: logging, notification
Values == {"on", "off", Unset}
NoSettings == [n \in Names |-> Unset]
Entries == LegacyLogs \cup Decisions
Scopes == Commands \cup {AllCommands}

(* A row of uid_policy; null: its command is null and not empty.           *)
Rows == [command : Scopes, null : BOOLEAN, policy : {"allow", "deny"},
         timed : BOOLEAN, flags : SUBSET Names, rowid : Nat]

(* A report that onReceive handles, with the row that concerns it.         *)
Hands == [decision : Decisions, u : Rows \cup {None}, added : BOOLEAN]

ASSUME RowsAssumption ==
  \A rs \in LegacyRows :
    /\ rs \subseteq Rows
    /\ \A r \in rs : r.null => r.command = AllCommands
    /\ \A r, q \in rs :
         /\ r.rowid = q.rowid => r = q
         /\ r.command = q.command /\ ~r.null => r = q
    /\ \A c \in {r.command : r \in rs} : \E last \in rs :
         /\ last.command = c
         /\ \A q \in rs : q.command = c => q.rowid <= last.rowid
ASSUME SettingsAssumption ==
  LegacySettings \subseteq [Names -> Values] /\ NoSettings \in LegacySettings
ASSUME NamesAssumption ==
  /\ Unset \notin {"on", "off"} /\ AllCommands \notin Commands
  /\ None \notin Rows /\ None \notin Decisions /\ None \notin Hands
  /\ LegacyLogs \cap Decisions = {} /\ CommandOf \in [Decisions -> Commands]
  /\ (Names \cup Scopes) \cap Entries = {} /\ Names \cap Scopes = {}
ASSUME BoundAssumption ==
  /\ Versions \subseteq 0..5
  /\ MaxKills \in Nat /\ MaxFaults \in Nat /\ MaxChanges \in Nat

VARIABLES
  db,          \* su.sqlite, as committed
  logs,        \* superuser.sqlite: how many entries of each are in log
  settings,    \* ... and the settings
  pc,          \* how far each process is
  seen,        \* the version it has found when it opened su.sqlite, or 0
  hand,        \* what onReceive has in its hands
  status,      \* of each decision: how far its broadcast is
  old,         \* the entries that are older than two weeks
  kills, faults, changes,
  torn,        \* history: copies of the logs no upgrade has followed
  failed,      \* history: what a write has failed for
  removed,     \* history: entries deleted or expired
  chosen,      \* history: the user's last choice for each setting
  newest,      \* history: the last decision written for each command
  done,        \* history: whether a decision was logged, and told
  on, off      \* history: what was on (off) ever since it was reported

superuser == <<logs, settings>>
broadcasts == <<hand, status>>
bounds == <<kills, faults, changes>>
history == <<torn, failed, removed, chosen, newest, done>>
state == <<db, superuser, pc, seen, broadcasts, old, bounds, history>>
vars == <<state, on, off>>

Databases == [version : 0..Current, tables : SUBSET {"log", "settings"},
              notification : BOOLEAN, logs : SUBSET LegacyLogs,
              settings : [Names -> Values], rows : SUBSET Rows]

(* Types, and the primary key, from which null commands are exempt.        *)
TypeOK ==
  /\ db \in Databases
  /\ \A r, q \in db.rows : r.command = q.command /\ ~r.null => r = q
  /\ logs \in [Entries -> Nat] /\ settings \in [Names -> Values]
  /\ pc \in [Processes -> {"dead", "opening", "copying", "upgrading", "up"}]
  /\ seen \in [Processes -> 0..Current]
  /\ hand = None \/ hand \in Hands
  /\ status \in [Decisions -> {"none", "sent", "received", "handled", "lost"}]
  /\ old \subseteq Entries
  /\ kills \in Nat /\ faults \in Nat /\ changes \in Nat /\ torn \in Nat
  /\ failed \subseteq Entries \cup Names \cup Scopes
  /\ removed \subseteq Entries /\ chosen \in [Names -> Values]
  /\ newest \in [Scopes -> Rows \cup {None}]
  /\ done \in [Decisions -> SUBSET Names]
  /\ on \in [Decisions -> SUBSET Names] /\ off \in [Decisions -> SUBSET Names]

-----------------------------------------------------------------------------
Of(rs, c) == {r \in rs : r.command = c}
Last(rs) == CHOOSE r \in rs : \A q \in rs : q.rowid <= r.rowid

Init ==
  /\ \E v \in Versions, rs \in LegacyRows, choice \in LegacySettings :
       /\ v = 0 => rs = {}
       /\ v < 3 => choice = NoSettings
       /\ db = [version |-> v,
                tables |-> IF v = 0 \/ v > 3 THEN {}
                           ELSE IF v = 3 THEN {"log", "settings"} ELSE {"log"},
                notification |-> v = 5,
                logs |-> IF v \in 1..3 THEN LegacyLogs ELSE {},
                settings |-> IF v = 3 THEN choice ELSE NoSettings,
                rows |-> IF v = 5 THEN rs
                         ELSE {[r EXCEPT !.flags = @ \ {"tell"}] : r \in rs}]
       /\ logs = [e \in Entries |->
                    IF v > 3 /\ e \in LegacyLogs THEN 1 ELSE 0]
       /\ settings = IF v > 3 THEN choice ELSE NoSettings
       /\ removed = IF v = 0 THEN LegacyLogs ELSE {}
       /\ chosen = choice
       /\ newest = [c \in Scopes |->
                      IF Of(rs, c) = {} THEN None
                      ELSE [Last(Of(rs, c)) EXCEPT !.flags =
                              IF v = 5 THEN @ ELSE @ \cup {"tell"}]]
  /\ pc = [p \in Processes |-> "dead"] /\ seen = [p \in Processes |-> 0]
  /\ hand = None /\ status = [d \in Decisions |-> "none"]
  /\ old = {} /\ kills = 0 /\ faults = 0 /\ changes = 0
  /\ torn = 0 /\ failed = {}
  /\ done = [d \in Decisions |-> {}]
  /\ on = [d \in Decisions |-> {}] /\ off = [d \in Decisions |-> {}]

(* A write may fail; nobody is told.                                       *)
Writes(written, missed) ==
  /\ IF missed = {} THEN faults' = faults
     ELSE faults < MaxFaults /\ faults' = faults + 1
  /\ failed' = (failed \ written) \cup missed

-----------------------------------------------------------------------------
(* SQLiteOpenHelper.getWritableDatabase: the version is read first, and    *)
(* what is to be done follows from it, in an exclusive transaction.        *)
Locked == \E p \in Processes : pc[p] \in {"copying", "upgrading"}

Open(p) ==
  /\ pc[p] = "dead" /\ ~Locked
  /\ IF db.version = Current
     THEN pc' = [pc EXCEPT ![p] = "up"] /\ UNCHANGED seen
     ELSE /\ pc' = [pc EXCEPT ![p] = "opening"]
          /\ seen' = [seen EXCEPT ![p] = db.version]
  /\ UNCHANGED <<db, superuser, broadcasts, old, bounds, history>>

(* The process ends; what it was handling is lost with it, and the         *)
(* broadcast it was started for may be.                                    *)
Ends(p) ==
  /\ pc' = [pc EXCEPT ![p] = "dead"] /\ seen' = [seen EXCEPT ![p] = 0]
  /\ IF p = "main"
     THEN /\ hand' = None
          /\ \E lost \in SUBSET {d \in Decisions : status[d] = "sent"} :
               status' = [d \in Decisions |->
                            IF d \in lost \/ status[d] = "received"
                            THEN "lost" ELSE status[d]]
     ELSE UNCHANGED broadcasts

(* Another process has upgraded what this one has seen: the log table that *)
(* it reads is gone, or the column that it adds is there.                  *)

\* Mutant: a fresh table is created with the column that is then added.
OutdatedFaulty(v) == v = 0 \/ db.notification

Outdated(v) == \/ v \in 1..3 /\ "log" \notin db.tables
               \/ v < 5 /\ db.notification

Begin(p) ==
  /\ pc[p] = "opening" /\ ~Locked /\ ~Outdated(seen[p])
  /\ pc' = [pc EXCEPT ![p] = IF seen[p] \in 1..3 THEN "copying"
                                                 ELSE "upgrading"]
  /\ UNCHANGED <<db, superuser, seen, broadcasts, old, bounds, history>>

Throws(p) ==
  /\ pc[p] = "opening" /\ ~Locked /\ Outdated(seen[p])
  /\ Ends(p)
  /\ UNCHANGED <<db, superuser, old, bounds, history>>

(* The logs and the settings into superuser.sqlite, and commit there.  The *)
(* mutant gives the settings up when an entry cannot be written.           *)
CopyFaulty(p) ==
  /\ pc[p] = "copying"
  /\ \E written \in SUBSET db.logs :
       /\ Writes(written, db.logs \ written)
       /\ logs' = [e \in Entries |-> logs[e] + (IF e \in written THEN 1 ELSE 0)]
       /\ settings' = IF written = db.logs THEN db.settings ELSE settings
  /\ pc' = [pc EXCEPT ![p] = "upgrading"]
  /\ torn' = torn + 1
  /\ UNCHANGED <<db, seen, broadcasts, old, kills, changes, removed, chosen,
                 newest, done>>

Copy(p) ==
  /\ pc[p] = "copying"
  /\ LET given == {n \in Names : db.settings[n] # Unset}
         all == db.logs \cup given IN
     \E written \in SUBSET all :
       /\ Writes(written, all \ written)
       /\ logs' = [e \in Entries |->
                     logs[e] + (IF e \in db.logs \cap written THEN 1 ELSE 0)]
       /\ settings' = [n \in Names |-> IF n \in given \cap written
                                       THEN db.settings[n] ELSE settings[n]]
  /\ pc' = [pc EXCEPT ![p] = "upgrading"]
  /\ torn' = torn + 1
  /\ UNCHANGED <<db, seen, broadcasts, old, kills, changes, removed, chosen,
                 newest, done>>

(* getPolicies, which purges what is timed; then every row is written with *)
(* its command, the null one as the empty one, over those before it.  The  *)
(* mutant ignores what is there already.                                   *)
RebuiltFaulty(rs) ==
  {[r EXCEPT !.null = FALSE, !.rowid = 0] :
     r \in {q \in rs : \A o \in Of(rs, q.command) : o.rowid >= q.rowid}}

Rebuilt(rs) ==
  {[r EXCEPT !.null = FALSE, !.rowid = 0] :
     r \in {q \in rs : \A o \in Of(rs, q.command) : o.rowid <= q.rowid}}

(* The rest of onUpgrade: the tables that moved are dropped, notification  *)
(* is added, 1 in every row, the rows are written anew; and commit.  The   *)
(* mutant drops nothing.                                                   *)
CommitFaulty(p) ==
  /\ pc[p] = "upgrading"
  /\ db' = [db EXCEPT !.version = Current, !.notification = TRUE,
                      !.rows = Rebuilt({r \in @ : ~r.timed})]
  /\ pc' = [pc EXCEPT ![p] = "up"] /\ seen' = [seen EXCEPT ![p] = 0]
  /\ torn' = IF seen[p] \in 1..3 THEN torn - 1 ELSE torn
  /\ UNCHANGED <<superuser, broadcasts, old, kills, faults, changes, failed,
                 removed, chosen, newest, done>>

Commit(p) ==
  /\ pc[p] = "upgrading"
  /\ LET rs == IF seen[p] = 5 THEN db.rows
               ELSE {[r EXCEPT !.flags = @ \cup {"tell"}] : r \in db.rows}
         policies == {r \in rs : ~r.timed}
     IN  \E written \in SUBSET policies :
           /\ Writes({}, {r.command : r \in policies \ written})
           /\ db' = [version |-> Current, tables |-> {},
                     notification |-> TRUE, logs |-> {},
                     settings |-> NoSettings, rows |-> Rebuilt(written)]
  /\ pc' = [pc EXCEPT ![p] = "up"] /\ seen' = [seen EXCEPT ![p] = 0]
  /\ torn' = IF seen[p] \in 1..3 THEN torn - 1 ELSE torn
  /\ UNCHANGED <<superuser, broadcasts, old, kills, changes, removed,
                 chosen, newest, done>>

Kill(p) ==
  /\ pc[p] # "dead" /\ kills < MaxKills
  /\ kills' = kills + 1
  /\ Ends(p)
  /\ UNCHANGED <<db, superuser, old, faults, changes, history>>

-----------------------------------------------------------------------------
(* su reports a decision (send_result).                                    *)
Report(d) ==
  /\ status[d] = "none"
  /\ status' = [status EXCEPT ![d] = "sent"]
  /\ UNCHANGED <<db, superuser, pc, seen, hand, old, bounds, history>>

(* onReceive, in the main process: the first row that concerns the request *)
Concerned(d) == {AllCommands, CommandOf[d]}
Concerning(d) == {r \in db.rows : r.command \in Concerned(d)}

Receive(d) ==
  /\ pc["main"] = "up" /\ hand = None /\ ~Locked
  /\ status[d] = "sent"
  /\ \E u \in IF Concerning(d) = {} THEN {None} ELSE Concerning(d) :
       hand' = [decision |-> d, u |-> u, added |-> FALSE]
  /\ status' = [status EXCEPT ![d] = "received"]
  /\ UNCHANGED <<db, superuser, pc, seen, old, bounds, history>>

(* Whether the row and the setting let this be done; the mutant forgets    *)
(* the row.                                                                *)
LetsFaulty(n) == settings[n] # "off"

Lets(n) == /\ hand.u = None \/ n \in hand.u.flags
           /\ settings[n] # "off"

(* ... then what is older than two weeks is deleted, and an entry added.   *)
AddLog ==
  /\ hand # None /\ ~hand.added
  /\ hand' = [hand EXCEPT !.added = TRUE]
  /\ LET d == hand.decision IN
     IF Lets("log")
     THEN \E written \in SUBSET {d} :
            /\ Writes(written, {d} \ written)
            /\ logs' = [e \in Entries |-> IF e \in written THEN logs[e] + 1
                                          ELSE IF e \in old THEN 0
                                          ELSE logs[e]]
            /\ removed' = removed \cup {e \in old : logs[e] > 0}
            /\ done' = [done EXCEPT ![d] = @ \cup {"log"}]
     ELSE UNCHANGED <<logs, removed, done, faults, failed>>
  /\ UNCHANGED <<db, settings, pc, seen, status, old, kills, changes, torn,
                 chosen, newest>>

(* ... and the user is told.                                               *)
Tell ==
  /\ hand # None /\ hand.added
  /\ LET d == hand.decision IN
       /\ done' = IF Lets("tell")
                  THEN [done EXCEPT ![d] = @ \cup {"tell"}] ELSE done
       /\ status' = [status EXCEPT ![d] = "handled"]
  /\ hand' = None
  /\ UNCHANGED <<db, superuser, pc, seen, old, bounds, torn, failed, removed,
                 chosen, newest>>

-----------------------------------------------------------------------------
(* The user, on the screens of the main process: one thread, which also    *)
(* receives.                                                               *)
Changes ==
  /\ changes < MaxChanges /\ changes' = changes + 1
  /\ UNCHANGED kills

SetString(n, v) ==
  /\ pc["main"] = "up" /\ hand = None /\ Changes
  /\ \E written \in SUBSET {n} :
       /\ Writes(written, {n} \ written)
       /\ settings' = [m \in Names |-> IF m \in written THEN v
                                                       ELSE settings[m]]
  /\ chosen' = [chosen EXCEPT ![n] = v]
  /\ UNCHANGED <<db, logs, pc, seen, broadcasts, old, torn, removed, newest,
                 done>>

DeleteLogs ==
  /\ pc["main"] = "up" /\ hand = None /\ Changes
  /\ removed' = removed \cup {e \in Entries : logs[e] > 0}
  /\ logs' = [e \in Entries |-> 0]
  /\ UNCHANGED <<db, settings, pc, seen, broadcasts, old, faults, torn, failed,
                 chosen, newest, done>>

(* setPolicy, by a switch of a screen or by a dialog; the mutant inserts.  *)
SetPolicyFaulty(r) ==
  /\ db' = [db EXCEPT !.rows = @ \cup {r}]
  /\ newest' = [newest EXCEPT ![r.command] = r]
  /\ Changes
  /\ UNCHANGED <<superuser, pc, seen, broadcasts, old, faults, torn, failed,
                 removed, chosen, done>>

SetPolicy(r) ==
  /\ \E written \in SUBSET {r.command} :
       /\ Writes(written, {r.command} \ written)
       /\ db' = IF written = {} THEN db
                ELSE [db EXCEPT !.rows = (@ \ Of(@, r.command)) \cup {r}]
  /\ newest' = [newest EXCEPT ![r.command] = r]
  /\ Changes
  /\ UNCHANGED <<superuser, pc, seen, broadcasts, old, torn, removed, chosen,
                 done>>

Switch(r, n) ==
  /\ pc["main"] = "up" /\ hand = None /\ ~Locked
  /\ SetPolicy([r EXCEPT !.flags = IF n \in @ THEN @ \ {n} ELSE @ \cup {n}])

Remember(v, timed) ==
  /\ pc["superuser"] = "up" /\ ~Locked
  /\ SetPolicy([command |-> AllCommands, null |-> FALSE, policy |-> v,
                timed |-> timed, flags |-> Names, rowid |-> 0])

TwoWeeksPass ==
  /\ old' = {e \in Entries : logs[e] > 0 \/ e \in db.logs}
  /\ old' # old
  /\ UNCHANGED <<db, superuser, pc, seen, broadcasts, bounds, history>>

-----------------------------------------------------------------------------
(* What the user has asked for, as far as a decision is concerned: by the  *)
(* settings and by the policies, unless one is timed and may be forgotten, *)
(* or a write of them has failed.                                          *)
Asked(d) == {newest[c] : c \in Concerned(d)} \ {None}
Known(d) == /\ \A r \in Asked(d) : ~r.timed
            /\ failed \cap Concerned(d) = {}
On(d) == {n \in Names \ failed :
            Known(d) /\ chosen[n] # "off" /\ \A r \in Asked(d) : n \in r.flags}
Off(d) == {n \in Names \ failed :
             \/ chosen[n] = "off"
             \/ /\ Known(d) /\ Asked(d) # {}
                /\ \A r \in Asked(d) : n \notin r.flags}

Watch ==
  /\ on' = [d \in Decisions |->
              IF status[d] = "none" THEN On(d) ELSE on[d] \cap On(d)']
  /\ off' = [d \in Decisions |->
               IF status[d] = "none" THEN Off(d) ELSE off[d] \cap Off(d)']

UpgradeStep(p) == Begin(p) \/ Throws(p) \/ Copy(p) \/ Commit(p)
ReceiverStep == (\E d \in Decisions : Receive(d)) \/ AddLog \/ Tell

UserStep ==
  \/ \E n \in Names, v \in {"on", "off"} : SetString(n, v)
  \/ DeleteLogs
  \/ \E r \in db.rows, n \in Names : Switch(r, n)
  \/ \E v \in {"allow", "deny"}, timed \in BOOLEAN : Remember(v, timed)

Step ==
  \/ \E p \in Processes : Open(p) \/ UpgradeStep(p) \/ Kill(p)
  \/ ReceiverStep \/ UserStep
  \/ \E d \in Decisions : Report(d)
  \/ TwoWeeksPass

Next == Step /\ Watch

Spec == Init /\ [][Next]_vars

(* A process that runs goes on; the app is started again and again.        *)
FairSpec ==
  /\ Spec
  /\ \A p \in Processes : WF_vars(UpgradeStep(p) /\ Watch)
  /\ WF_vars(Open("main") /\ Watch) /\ WF_vars(ReceiverStep /\ Watch)

-----------------------------------------------------------------------------
(* The entries of an earlier version stay until they are deleted, expire   *)
(* or cannot be written, and are there once, unless a process died between *)
(* the two commits; what was deleted does not come back, also when two     *)
(* processes upgrade (SuDatabaseHelper.java:56).                           *)
EntriesKept ==
  \A e \in Entries :
    /\ e \in LegacyLogs =>
         /\ e \in db.logs \/ logs[e] > 0 \/ e \in removed \cup failed
         /\ logs[e] <= torn + (IF e \in db.logs THEN 0 ELSE 1)
    /\ e \in Decisions =>
         /\ logs[e] <= 1
         /\ "log" \in done[e] => logs[e] > 0 \/ e \in removed \cup failed
    /\ e \in removed => logs[e] = 0 /\ e \notin db.logs

(* The app acts by the setting the user chose last, here or in an earlier  *)
(* version: no upgrade puts an older one over it (SuDatabaseHelper.java:74)*)
SettingKept ==
  \A n \in Names \ failed :
    (\E p \in Processes : pc[p] = "up") => settings[n] = chosen[n]

(* Of the rows whose null commands were not taken for the same, the one    *)
(* written last is in force after the upgrade, with its switches, and no   *)
(* other (SuDatabaseHelper.java:101).                                      *)
NewestKept ==
  \A c \in Scopes \ failed :
    /\ db.version = Current =>
         \A r, q \in Of(db.rows, c) : r = q /\ ~r.null
    /\ (newest[c] # None /\ ~newest[c].timed) =>
         \E r \in Of(db.rows, c) :
           /\ r = Last(Of(db.rows, c))
           /\ r.policy = newest[c].policy
           /\ IF db.version = Current THEN r.flags = newest[c].flags
              ELSE "log" \in r.flags <=> "log" \in newest[c].flags

(* A decision that was handled is logged and told if the user wanted it    *)
(* all along, and is not if the user never did, whatever was upgraded,     *)
(* restarted or written by the dialogs meanwhile (SuReceiver.java:63,      *)
(* SuperuserDatabaseHelper.java:162).                                      *)
ReportedAsAsked ==
  \A d \in Decisions :
    status[d] = "handled" =>
      on[d] \subseteq done[d] /\ off[d] \cap done[d] = {}

(* The upgrade ends however often it is begun, by whichever process, and   *)
(* then what su reports is received.                                       *)
UpgradeEnds ==
  /\ <>[](db.version = Current /\ pc["main"] = "up")
  /\ \A d \in Decisions :
       status[d] = "sent" ~> status[d] \in {"handled", "lost"}
=============================================================================
