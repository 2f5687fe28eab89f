--------------------------- MODULE AccessDecision ---------------------------
(***************************************************************************)
(* What su decides before it asks anybody: the gates of su_main in their   *)
(* order, and the query of database_check, folded row by row.  Beside it   *)
(* the owner of the device may change the multiuser policy, a file that    *)
(* the app truncates first and fills then.                                 *)
(*                                                                         *)
(* The multiuser modes are "owner", "managed", "user" and "none".          *)
(***************************************************************************)
EXTENDS Integers, Sequences

CONSTANTS Uids,         \* who may call su
          Shell,        \* AID_SHELL
          Superuser,    \* the uid of the Superuser app, for the owner
          Devices,      \* builds and access settings
          Tables,       \* what the query may yield: sequences of rows
          MaxRows,      \* bound of their length
          Command,      \* the command asked for
          AllCommands,  \* the empty command
          Now,          \* time(NULL)
          MaxChanges    \* bound of the changes of the multiuser policy

Root == 0
PerUser == 100000      \* uids of one Android user; su.c tests "> 99999"
Modes == {"owner", "managed", "user", "none"}
Access == {"unset", "disabled", "apps", "adb", "both"}

DeviceType == [sdk : Nat, embedded : BOOLEAN, cm : BOOLEAN,
               debuggable : BOOLEAN, eng : BOOLEAN, access : Access]

Row == [policy : {"allow", "deny", "interactive"}, until : Nat,
        command : {Command, AllCommands, "other"}]

ASSUME UidAssumption ==
  /\ Uids \subseteq Nat /\ Shell \in Nat /\ Superuser \in Nat
  /\ 0 < Shell /\ Shell < PerUser /\ 0 < Superuser /\ Superuser < PerUser
  /\ Shell # Superuser

ASSUME DeviceAssumption == Devices \subseteq DeviceType

ASSUME TableAssumption ==
  /\ Tables \subseteq Seq(Row) /\ MaxRows \in Nat
  /\ \A t \in Tables : Len(t) <= MaxRows
  /\ Now \in Nat /\ MaxChanges \in Nat

VARIABLES
  uid,        \* ctx.from.uid
  device,
  modeFile,   \* the file multiuser_mode
  writing,    \* the app has truncated it and is about to write this
  changes,    \* history: changes made
  modes,      \* history: the policies the owner has had since su started
  pc,         \* the gate su is at
  mode,       \* ctx.user.multiuser_mode
  torn,       \* history: the multiuser file was empty when it was read
  user,       \* ctx.user.android_user_id
  dir,        \* what stat said of the app's data directory
  rows,       \* what the query yields
  next,       \* the row the callback gets next
  policy,     \* data.policy, then dballow
  gate,       \* history: the gate that ended it
  told,       \* the users whose SuReceiver got the result, in order
  prompted,   \* the user whose RequestActivity is started
  notified    \* the user whose NotifyActivity is started

file   == <<modeFile, writing, changes, modes>>
query  == <<rows, next, policy>>
answer == <<gate, told, prompted, notified>>
vars   == <<uid, device, file, pc, mode, torn, user, dir, query, answer>>

UserIds == {u \div PerUser : u \in Uids} \cup {0}
Gates == {"from_init", "read_options", "root", "stat", "odd perms",
          "superuser", "access_disabled", "shell", "owner only", "prepare",
          "sqlite3_open_v2", "database_callback", "sqlite3_exec", "dballow",
          "send_request"}
Files == {"absent", "", "owner", "managed", "user"}
Policies == {"none", "INTERACTIVE", "ALLOW", "DENY"}
Nobody == -2
Current == -1                        \* am without --user
Users == UserIds \cup {Current}

TypeOK ==
  /\ uid \in Uids /\ device \in Devices
  /\ modeFile \in Files /\ writing \in Files /\ changes \in Nat
  /\ modes \subseteq Modes
  /\ pc \in Gates \cup {"allow", "deny", "ask"}
  /\ mode \in Modes /\ torn \in BOOLEAN /\ user \in UserIds
  /\ dir \in {"unknown", "absent", "odd", "ok"}
  /\ rows \in Seq(Row) /\ next \in Nat /\ policy \in Policies
  /\ gate \in Gates \cup {"none"}
  /\ told \in Seq(Users)
  /\ prompted \in Users \cup {Nobody} /\ notified \in Users \cup {Nobody}

(* What the owner means by a content of the file.                          *)
Meaning(f) == IF f \in {"managed", "user"} THEN f ELSE "owner"

Init ==
  /\ uid \in Uids /\ device \in Devices
  /\ device.sdk < 17 => uid < PerUser  \* no other users before Android 4.2
  /\ modeFile \in Files \ {""} /\ writing = "" /\ changes = 0
  /\ modes = {Meaning(modeFile)}
  /\ pc = "from_init"
  /\ mode = "owner" /\ torn = FALSE /\ user = 0 /\ dir = "unknown"
  /\ rows = <<>> /\ next = 1 /\ policy = "none"
  /\ gate = "none" /\ told = <<>> /\ prompted = Nobody /\ notified = Nobody

-----------------------------------------------------------------------------
(* Settings.setMultiuserMode: writeFile opens the file, which empties it,  *)
(* and writes then.                                                        *)
Truncate(f) ==
  /\ writing = "" /\ changes < MaxChanges
  /\ modeFile' = "" /\ writing' = f
  /\ changes' = changes + 1
  /\ UNCHANGED <<uid, device, modes, pc, mode, torn, user, dir, query, answer>>

WriteMode ==
  /\ writing # ""
  /\ modeFile' = writing /\ writing' = ""
  /\ modes' = modes \cup {Meaning(writing)}
  /\ UNCHANGED <<uid, device, changes, pc, mode, torn, user, dir, query, answer>>

-----------------------------------------------------------------------------
(* get_owner_login_user_args: the user whose activities are started, and   *)
(* whether the caller's own is to be told that another one is asked.       *)
LoginUserFaulty ==                   \* mutant: not the user's id
  IF mode = "user" THEN uid ELSE IF mode = "none" THEN Current ELSE 0

LoginUser ==
  IF mode = "user" THEN user ELSE IF mode = "none" THEN Current ELSE 0
NeedsOwnerLogin == mode = "managed" /\ user # 0

(* send_result: to the caller's user if that is not the owner, and to the  *)
(* one who is asked.  The mutant does not look whether it is the owner.    *)
Own == IF mode = "none" THEN Current ELSE user

ResultsFaulty == <<Own, LoginUser>>

Results == IF user # 0 THEN <<Own, LoginUser>> ELSE <<LoginUser>>

(* deny and allow; root is not reported, and neither is a dumpstate.       *)
End(what, at) ==
  /\ pc' = what /\ gate' = at
  /\ \/ uid # Root /\ told' = Results
     \/ told' = told
  /\ UNCHANGED <<prompted, notified>>

Allow(at) == End("allow", at)
Deny(at)  == End("deny", at)
Go(at)    == pc' = at /\ UNCHANGED answer

-----------------------------------------------------------------------------
FromInit ==
  /\ pc = "from_init"
  /\ Go("read_options") \/ Deny("from_init")
  /\ UNCHANGED <<uid, device, file, mode, torn, user, dir, query>>

(* get_multiuser_mode.  Of an empty file fgets reads nothing, and what the *)
(* uninitialized buffer holds is compared: any mode may come of it.        *)
MultiuserMode ==
  IF device.sdk < 17 THEN {"none"}
  ELSE IF modeFile = "" THEN {"owner", "managed", "user"}
  ELSE {Meaning(modeFile)}

(* read_options, then user_init.                                           *)
ReadOptions ==
  /\ pc = "read_options"
  /\ mode' \in MultiuserMode
  /\ torn' = (modeFile = "")
  /\ user' = uid \div PerUser
  /\ Go("root")
  /\ UNCHANGED <<uid, device, file, dir, query>>

(* The user whose app and database are consulted.                          *)
Base == IF mode = "user" THEN user ELSE 0
StatUid == PerUser * Base + Superuser

RootGate ==
  /\ pc = "root"
  /\ IF uid = Root THEN Allow("root") ELSE Go("stat")
  /\ UNCHANGED <<uid, device, file, mode, torn, user, dir, query>>

Stat ==
  /\ pc = "stat"
  /\ \/ dir' = "absent" /\ Deny("stat")
     \/ dir' = "odd"    /\ Deny("odd perms")
     \/ dir' = "ok"     /\ Go("superuser")
  /\ UNCHANGED <<uid, device, file, mode, torn, user, query>>

(* The mutant takes the app of any user for the one that was looked at.    *)
SuperuserGateFaulty ==
  /\ pc = "superuser"
  /\ IF uid % PerUser = Superuser THEN Allow("superuser")
                                 ELSE Go("access_disabled")
  /\ UNCHANGED <<uid, device, file, mode, torn, user, dir, query>>

SuperuserGate ==
  /\ pc = "superuser"
  /\ IF uid = StatUid THEN Allow("superuser") ELSE Go("access_disabled")
  /\ UNCHANGED <<uid, device, file, mode, torn, user, dir, query>>

(* access_disabled: an unset property counts as apps only.  The mutant     *)
(* compares with adb only instead of testing the bit.                      *)
AppsEnabledFaulty == device.access # "adb"

AppsEnabled == device.access \in {"unset", "apps", "both"}
AdbEnabled == device.access \in {"adb", "both"}

AccessDisabled ==
  /\ device.embedded /\ device.cm
  /\ \/ ~device.debuggable
     \/ ~device.eng /\ uid # Shell /\ ~AppsEnabled
     \/ uid = Shell /\ ~AdbEnabled

DisabledGate ==
  /\ pc = "access_disabled"
  /\ IF AccessDisabled THEN Deny("access_disabled") ELSE Go("shell")
  /\ UNCHANGED <<uid, device, file, mode, torn, user, dir, query>>

ShellGate ==
  /\ pc = "shell"
  /\ IF uid = Shell THEN Allow("shell") ELSE Go("owner only")
  /\ UNCHANGED <<uid, device, file, mode, torn, user, dir, query>>

OwnerGateOpen ==                     \* mutant: the gate is forgotten
  /\ pc = "owner only"
  /\ Go("prepare")
  /\ UNCHANGED <<uid, device, file, mode, torn, user, dir, query>>

OwnerGate ==
  /\ pc = "owner only"
  /\ IF mode = "owner" /\ user # 0 THEN Deny("owner only") ELSE Go("prepare")
  /\ UNCHANGED <<uid, device, file, mode, torn, user, dir, query>>

(* chown, setgroups, setegid and seteuid, each of which may fail.          *)
Prepare ==
  /\ pc = "prepare"
  /\ Go("sqlite3_open_v2") \/ Deny("prepare")
  /\ UNCHANGED <<uid, device, file, mode, torn, user, dir, query>>

(* database_check: a database that cannot be opened has no answer; the     *)
(* query yields the rows of the uid in any order.                          *)
Open ==
  /\ pc = "sqlite3_open_v2"
  /\ \/ /\ policy' = "INTERACTIVE"
        /\ UNCHANGED <<rows, next>>
        /\ Go("dballow")
     \/ /\ policy' = "INTERACTIVE" /\ next' = 1
        /\ rows' \in Tables
        /\ Go("database_callback")
  /\ UNCHANGED <<uid, device, file, mode, torn, user, dir>>

Applies(r) == /\ r.command \in {AllCommands, Command}
              /\ r.until = 0 \/ r.until > Now

(* One call of the callback.  A denial aborts the query, which counts as a *)
(* failure; the mutant goes on and lets the last row win.                  *)
CallbackFaulty ==
  /\ pc = "database_callback" /\ next <= Len(rows)
  /\ LET r == rows[next] IN
       policy' = IF Applies(r) THEN IF r.policy = "deny" THEN "DENY" ELSE "ALLOW"
                 ELSE policy
  /\ next' = next + 1
  /\ Go("database_callback")
  /\ UNCHANGED <<uid, device, file, mode, torn, user, dir, rows>>

Callback ==
  /\ pc = "database_callback" /\ next <= Len(rows)
  /\ LET r == rows[next] IN
       \/ /\ Applies(r) /\ r.policy = "deny"
          /\ policy' = "DENY"
          /\ Go("sqlite3_exec")
       \/ /\ Applies(r) /\ r.policy # "deny"
          /\ policy' = "ALLOW"
          /\ Go("database_callback")
       \/ /\ ~Applies(r)
          /\ policy' = policy
          /\ Go("database_callback")
  /\ next' = next + 1
  /\ UNCHANGED <<uid, device, file, mode, torn, user, dir, rows>>

(* The query ends, or fails (the database is locked, say): whatever the    *)
(* callback has found by then, database_check returns DENY.                *)
QueryEnds ==
  /\ pc = "database_callback"
  /\ \/ /\ next > Len(rows) /\ policy' = policy
        /\ Go("dballow")
     \/ /\ policy' = "DENY"
        /\ Go("sqlite3_exec")
  /\ UNCHANGED <<uid, device, file, mode, torn, user, dir, rows, next>>

Verdict ==
  /\ pc \in {"dballow", "sqlite3_exec"}
  /\ \/ policy = "INTERACTIVE" /\ Go("send_request")
     \/ policy = "ALLOW" /\ Allow(pc)
     \/ policy = "DENY" /\ Deny(pc)
  /\ UNCHANGED <<uid, device, file, mode, torn, user, dir, query>>

(* send_request: word to the caller's user if the owner is to decide, then *)
(* the dialog of the one who decides.  There may be no socket to answer    *)
(* on, and each fork may fail; then the request is denied.                 *)
Fails(at) == /\ pc' = "deny" /\ gate' = at
             /\ told' \in {Results, told}

SendRequest ==
  /\ pc = "send_request"
  /\ \/ /\ notified' = IF NeedsOwnerLogin THEN user ELSE Nobody
        /\ \/ /\ pc' = "ask" /\ gate' = pc /\ told' = told
              /\ prompted' = LoginUser
           \/ Fails(pc) /\ prompted' = prompted
     \/ Fails(pc) /\ UNCHANGED <<notified, prompted>>
  /\ UNCHANGED <<uid, device, file, mode, torn, user, dir, query>>

Ended == pc \in {"allow", "deny", "ask"}

SuStep == \/ FromInit \/ ReadOptions \/ RootGate \/ Stat \/ SuperuserGate
          \/ DisabledGate \/ ShellGate \/ OwnerGate \/ Prepare \/ Open
          \/ Callback \/ QueryEnds \/ Verdict \/ SendRequest

Next == \/ SuStep
        \/ \E f \in {"owner", "managed", "user"} : Truncate(f)
        \/ WriteMode

Spec == Init /\ [][Next]_vars

-----------------------------------------------------------------------------
(* Whoever is allowed by no row of the database is root, the Superuser app *)
(* whose data directory was looked at, or a shell for which access over    *)
(* adb is not disabled (su.c:848, 871, 882).                               *)
FreePass ==
  pc = "allow" /\ policy # "ALLOW" =>
    \/ uid = Root
    \/ dir = "ok" /\ uid = StatUid
    \/ /\ dir = "ok" /\ uid = Shell
       /\ device.embedded /\ device.cm =>
            device.debuggable /\ device.access \in {"adb", "both"}

(* "check if superuser is disabled completely" (su.c:875): if it is, then  *)
(* nobody but root and the app itself is allowed, or asked for, whatever   *)
(* the database says; and the app, which "needs to be able to reenable     *)
(* itself when disabled" (su.c:870), is not refused for that.              *)
Disabled ==
  /\ device.embedded /\ device.cm
  /\ device.access = "disabled" /\ ~device.eng

DisabledHolds ==
  Disabled => /\ pc \in {"allow", "ask"} => uid \in {Root, StatUid}
              /\ uid = StatUid => gate # "access_disabled"

(* What the multiuser policy says in the settings (strings.xml:72-74): only *)
(* the owner can request; the owner is prompted when another user does, who *)
(* is told; all users can.  Whatever happens to a request of another user  *)
(* is what one of the policies says that there were since su started.      *)
(* The exception is a file read between its truncation and the write       *)
(* (su.c:219), of which anything may come.                                 *)
OwnerInControl ==
  device.sdk >= 17 /\ user # 0 /\ ~torn =>
    /\ gate = "owner only" => "owner" \in modes
    /\ pc = "ask" => \/ "managed" \in modes /\ prompted = 0 /\ notified = user
                     \/ "user" \in modes /\ prompted = user /\ notified = Nobody

(* The verdict of the database does not depend on the order of the rows: a *)
(* denial in force beats every approval, no row in force leaves it to the  *)
(* user, and a query that fails approves nothing (db.c:62-104).  A row     *)
(* that is "interactive" approves (db.c:71); the app stores none.          *)
RowsOf(ps) == \E i \in 1..Len(rows) : Applies(rows[i]) /\ rows[i].policy \in ps

VerdictOfRows ==
  /\ pc = "allow" /\ gate = "dballow" =>
       ~RowsOf({"deny"}) /\ RowsOf({"allow", "interactive"})
  /\ gate = "send_request" => ~RowsOf({"deny", "allow", "interactive"})
  /\ gate = "sqlite3_exec" => pc = "deny"

(* "A %s will be shown when an app is granted or denied" (strings.xml:47): *)
(* nobody is told the same result twice.  The exception is a user who      *)
(* decides for himself: send_result takes him for two (activity.c:96).     *)
ToldOnce ==
  mode # "user" => \A i, j \in 1..Len(told) : told[i] = told[j] => i = j
=============================================================================
