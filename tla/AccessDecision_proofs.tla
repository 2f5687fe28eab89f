------------------------ MODULE AccessDecision_proofs ------------------------
(***************************************************************************)
(* Proofs about AccessDecision, for every set of uids, of builds and of    *)
(* tables: type correctness, who passes without a row of the database, what *)
(* holds while superuser is disabled, and that the verdict of the database *)
(* does not depend on the order of its rows.                               *)
(***************************************************************************)
EXTENDS AccessDecision, TLAPS

(* The parts of TypeOK.                                                    *)
CallerOK == uid \in Uids /\ device \in Devices
FileOK   == /\ modeFile \in Files /\ writing \in Files /\ changes \in Nat
            /\ modes \subseteq Modes
PcOK     == pc \in Gates \cup {"allow", "deny", "ask"}
ModeOK   == mode \in Modes /\ torn \in BOOLEAN /\ user \in UserIds
DirOK    == dir \in {"unknown", "absent", "odd", "ok"}
QueryOK  == rows \in Seq(Row) /\ next \in Nat /\ policy \in Policies
AnswerOK == /\ gate \in Gates \cup {"none"} /\ told \in Seq(Users)
            /\ prompted \in Users \cup {Nobody}
            /\ notified \in Users \cup {Nobody}

LEMMA Parts ==
  TypeOK <=> /\ CallerOK /\ FileOK /\ PcOK /\ ModeOK /\ DirOK /\ QueryOK
             /\ AnswerOK
BY DEF TypeOK, CallerOK, FileOK, PcOK, ModeOK, DirOK, QueryOK, AnswerOK

-----------------------------------------------------------------------------
(* What the answers are made of has its type.                              *)

LEMMA ResultsType ==
  ASSUME user \in UserIds
  PROVE  /\ Results \in Seq(Users) /\ LoginUser \in Users
         /\ user \in Users
<1>1. 0 \in Users /\ Current \in Users /\ user \in Users
  BY DEF Users, UserIds
<1>2. LoginUser \in Users
  BY <1>1 DEF LoginUser
<1>3. Own \in Users
  BY <1>1 DEF Own
<1>4. QED BY <1>1, <1>2, <1>3 DEF Results

(* The three ways in which a gate goes on or ends.                         *)
LEMMA GoType ==
  ASSUME TypeOK, NEW at \in Gates, Go(at)
  PROVE  PcOK' /\ AnswerOK'
<1>1. UNCHANGED <<gate, told, prompted, notified>> /\ pc' = at
  BY DEF Go, answer
<1>2. AnswerOK
  BY Parts
<1>3. QED BY <1>1, <1>2 DEF PcOK, AnswerOK

LEMMA EndType ==
  ASSUME TypeOK, NEW what \in {"allow", "deny"}, NEW at \in Gates, End(what, at)
  PROVE  PcOK' /\ AnswerOK'
<1>1. user \in UserIds /\ AnswerOK
  BY Parts DEF ModeOK
<1>2. /\ pc' = what /\ gate' = at
      /\ told' = Results \/ told' = told
      /\ prompted' = prompted /\ notified' = notified
  BY DEF End
<1>3. QED BY <1>1, <1>2, ResultsType DEF PcOK, AnswerOK

(* Nothing but the answer and the gate.                                    *)
LEMMA FrameType ==
  ASSUME TypeOK
  PROVE  /\ UNCHANGED <<uid, device>> => CallerOK'
         /\ UNCHANGED file => FileOK'
         /\ UNCHANGED <<mode, torn, user>> => ModeOK'
         /\ UNCHANGED dir => DirOK'
         /\ UNCHANGED query => QueryOK'
         /\ UNCHANGED answer => AnswerOK'
<1>1. CallerOK /\ FileOK /\ ModeOK /\ DirOK /\ QueryOK /\ AnswerOK
  BY Parts
<1>2. UNCHANGED <<uid, device>> => CallerOK'
  BY <1>1 DEF CallerOK
<1>3. UNCHANGED file => FileOK'
  BY <1>1 DEF FileOK, file
<1>4. UNCHANGED <<mode, torn, user>> => ModeOK'
  BY <1>1 DEF ModeOK
<1>5. UNCHANGED dir => DirOK'
  BY <1>1 DEF DirOK
<1>6. UNCHANGED query => QueryOK'
  BY <1>1 DEF QueryOK, query
<1>7. UNCHANGED answer => AnswerOK'
  BY <1>1 DEF AnswerOK, answer
<1>8. QED BY <1>2, <1>3, <1>4, <1>5, <1>6, <1>7

(* One step keeps the types.                                               *)
LEMMA TypeStep ==
  ASSUME TypeOK, [Next]_vars
  PROVE  TypeOK'
<1>p. CallerOK /\ FileOK /\ PcOK /\ ModeOK /\ DirOK /\ QueryOK /\ AnswerOK
  BY Parts
<1>q. SUFFICES /\ CallerOK' /\ FileOK' /\ PcOK' /\ ModeOK' /\ DirOK' /\ QueryOK'
               /\ AnswerOK'
  BY DEF TypeOK, CallerOK, FileOK, PcOK, ModeOK, DirOK, QueryOK, AnswerOK
<1>1. CASE FromInit
  <2>1. /\ Deny("from_init") \/ Go("read_options")
        /\ UNCHANGED <<uid, device, file, mode, torn, user, dir, query>>
    BY <1>1 DEF FromInit
  <2>2. "from_init" \in Gates /\ "read_options" \in Gates
    BY DEF Gates
  <2>3. PcOK' /\ AnswerOK'
    BY <2>1, <2>2, GoType, EndType DEF Deny
  <2>4. QED BY <2>1, <2>3, FrameType
<1>2. CASE ReadOptions
  <2>1. /\ Go("root") /\ user' = uid \div PerUser /\ mode' \in MultiuserMode
        /\ torn' = (modeFile = "")
        /\ UNCHANGED <<uid, device, file, dir, query>>
    BY <1>2 DEF ReadOptions
  <2>2. PcOK' /\ AnswerOK'
    BY <2>1, GoType DEF Gates
  <2>3. user' \in UserIds'
    BY <2>1, <1>p DEF UserIds, CallerOK
  <2>4. MultiuserMode \subseteq Modes
    BY DEF MultiuserMode, Modes, Meaning
  <2>5. ModeOK'
    BY <2>1, <2>3, <2>4 DEF ModeOK
  <2>6. QED BY <2>1, <2>2, <2>5, FrameType
<1>3. CASE RootGate
  <2>1. /\ Allow("root") \/ Go("stat")
        /\ UNCHANGED <<uid, device, file, mode, torn, user, dir, query>>
    BY <1>3 DEF RootGate
  <2>2. "root" \in Gates /\ "stat" \in Gates
    BY DEF Gates
  <2>3. PcOK' /\ AnswerOK'
    BY <2>1, <2>2, GoType, EndType DEF Allow
  <2>4. QED BY <2>1, <2>3, FrameType
<1>4. CASE Stat
  <2>1. /\ UNCHANGED <<uid, device, file, mode, torn, user, query>>
        /\ \/ dir' = "absent" /\ Deny("stat")
           \/ dir' = "odd"    /\ Deny("odd perms")
           \/ dir' = "ok"     /\ Go("superuser")
    BY <1>4 DEF Stat
  <2>2. DirOK'
    BY <2>1 DEF DirOK
  <2>3. "stat" \in Gates /\ "odd perms" \in Gates /\ "superuser" \in Gates
    BY DEF Gates
  <2>4. PcOK' /\ AnswerOK'
    BY <2>1, <2>3, GoType, EndType DEF Deny
  <2>5. QED BY <2>1, <2>2, <2>4, FrameType
<1>5. CASE SuperuserGate
  <2>1. /\ Allow("superuser") \/ Go("access_disabled")
        /\ UNCHANGED <<uid, device, file, mode, torn, user, dir, query>>
    BY <1>5 DEF SuperuserGate
  <2>2. "superuser" \in Gates /\ "access_disabled" \in Gates
    BY DEF Gates
  <2>3. PcOK' /\ AnswerOK'
    BY <2>1, <2>2, GoType, EndType DEF Allow
  <2>4. QED BY <2>1, <2>3, FrameType
<1>6. CASE DisabledGate
  <2>1. /\ Deny("access_disabled") \/ Go("shell")
        /\ UNCHANGED <<uid, device, file, mode, torn, user, dir, query>>
    BY <1>6 DEF DisabledGate
  <2>2. "access_disabled" \in Gates /\ "shell" \in Gates
    BY DEF Gates
  <2>3. PcOK' /\ AnswerOK'
    BY <2>1, <2>2, GoType, EndType DEF Deny
  <2>4. QED BY <2>1, <2>3, FrameType
<1>7. CASE ShellGate
  <2>1. /\ Allow("shell") \/ Go("owner only")
        /\ UNCHANGED <<uid, device, file, mode, torn, user, dir, query>>
    BY <1>7 DEF ShellGate
  <2>2. "shell" \in Gates /\ "owner only" \in Gates
    BY DEF Gates
  <2>3. PcOK' /\ AnswerOK'
    BY <2>1, <2>2, GoType, EndType DEF Allow
  <2>4. QED BY <2>1, <2>3, FrameType
<1>8. CASE OwnerGate
  <2>1. /\ Deny("owner only") \/ Go("prepare")
        /\ UNCHANGED <<uid, device, file, mode, torn, user, dir, query>>
    BY <1>8 DEF OwnerGate
  <2>2. "owner only" \in Gates /\ "prepare" \in Gates
    BY DEF Gates
  <2>3. PcOK' /\ AnswerOK'
    BY <2>1, <2>2, GoType, EndType DEF Deny
  <2>4. QED BY <2>1, <2>3, FrameType
<1>9. CASE Prepare
  <2>1. /\ Deny("prepare") \/ Go("sqlite3_open_v2")
        /\ UNCHANGED <<uid, device, file, mode, torn, user, dir, query>>
    BY <1>9 DEF Prepare
  <2>2. "prepare" \in Gates /\ "sqlite3_open_v2" \in Gates
    BY DEF Gates
  <2>3. PcOK' /\ AnswerOK'
    BY <2>1, <2>2, GoType, EndType DEF Deny
  <2>4. QED BY <2>1, <2>3, FrameType
<1>10. CASE Open
  <2>1. /\ Go("dballow") \/ Go("database_callback")
        /\ UNCHANGED <<uid, device, file, mode, torn, user, dir>>
        /\ policy' = "INTERACTIVE"
        /\ rows' = rows \/ rows' \in Tables
        /\ next' = next \/ next' = 1
    BY <1>10 DEF Open
  <2>2. PcOK' /\ AnswerOK'
    BY <2>1, GoType DEF Gates
  <2>3. QueryOK'
    BY <2>1, <1>p, TableAssumption DEF QueryOK, Policies
  <2>4. QED BY <2>1, <2>2, <2>3, FrameType
<1>11. CASE Callback
  <2>1. /\ Go("database_callback") \/ Go("sqlite3_exec")
        /\ UNCHANGED <<uid, device, file, mode, torn, user, dir, rows>>
        /\ policy' \in {"ALLOW", "DENY", policy}
        /\ next' = next + 1
    BY <1>11 DEF Callback
  <2>2. PcOK' /\ AnswerOK'
    BY <2>1, GoType DEF Gates
  <2>3. QueryOK'
    BY <2>1, <1>p DEF QueryOK, Policies
  <2>4. QED BY <2>1, <2>2, <2>3, FrameType
<1>12. CASE QueryEnds
  <2>1. /\ Go("dballow") \/ Go("sqlite3_exec")
        /\ UNCHANGED <<uid, device, file, mode, torn, user, dir, rows, next>>
        /\ policy' \in {"DENY", policy}
    BY <1>12 DEF QueryEnds
  <2>2. PcOK' /\ AnswerOK'
    BY <2>1, GoType DEF Gates
  <2>3. QueryOK'
    BY <2>1, <1>p DEF QueryOK, Policies
  <2>4. QED BY <2>1, <2>2, <2>3, FrameType
<1>13. CASE Verdict
  <2>1. /\ Go("send_request") \/ Allow(pc) \/ Deny(pc)
        /\ UNCHANGED <<uid, device, file, mode, torn, user, dir, query>>
    BY <1>13 DEF Verdict, Gates
  <2>2. "send_request" \in Gates /\ pc \in Gates
    BY <1>13 DEF Verdict, Gates
  <2>3. PcOK' /\ AnswerOK'
    BY <2>1, <2>2, GoType, EndType DEF Allow, Deny
  <2>4. QED BY <2>1, <2>3, FrameType
<1>14. CASE SendRequest
  <2>1. /\ pc' \in {"ask", "deny"} /\ gate' = "send_request"
        /\ told' \in {Results, told}
        /\ prompted' \in {LoginUser, prompted}
        /\ notified' \in {user, Nobody, notified}
        /\ UNCHANGED <<uid, device, file, mode, torn, user, dir, query>>
    BY <1>14 DEF SendRequest, Fails
  <2>2. PcOK'
    BY <2>1 DEF PcOK
  <2>3. AnswerOK'
    BY <2>1, <1>p, ResultsType DEF AnswerOK, ModeOK, Gates
  <2>4. QED BY <2>1, <2>2, <2>3, FrameType
<1>15. ASSUME NEW f \in {"owner", "managed", "user"}, Truncate(f)
       PROVE  /\ CallerOK' /\ FileOK' /\ PcOK' /\ ModeOK' /\ DirOK' /\ QueryOK'
              /\ AnswerOK'
  <2>1. /\ modeFile' = "" /\ writing' = f /\ changes' = changes + 1
        /\ UNCHANGED <<uid, device, modes, pc, mode, torn, user, dir, query, answer>>
    BY <1>15 DEF Truncate
  <2>2. modeFile' \in Files /\ writing' \in Files
    BY <2>1 DEF Files
  <2>3. changes' \in Nat /\ modes' \subseteq Modes
    <3>1. changes' = changes + 1 /\ modes' = modes
      BY <2>1
    <3>2. QED BY <3>1, <1>p DEF FileOK
  <2>4. QED BY <2>1, <2>2, <2>3, <1>p, FrameType DEF PcOK, FileOK
<1>16. CASE WriteMode
  <2>1. /\ modeFile' = writing /\ writing' = ""
        /\ modes' = modes \cup {Meaning(writing)}
        /\ UNCHANGED <<uid, device, changes, pc, mode, torn, user, dir, query, answer>>
    BY <1>16 DEF WriteMode
  <2>2. Meaning(writing) \in Modes
    BY DEF Meaning, Modes
  <2>3. FileOK'
    BY <2>1, <2>2, <1>p DEF FileOK, Files
  <2>4. QED BY <2>1, <2>3, <1>p, FrameType DEF PcOK
<1>17. CASE UNCHANGED vars
  <2>1. UNCHANGED <<uid, device, file, pc, mode, torn, user, dir, query, answer>>
    BY <1>17 DEF vars
  <2>2. QED BY <2>1, <1>p, FrameType DEF PcOK
<1>18. QED
  BY <1>1, <1>2, <1>3, <1>4, <1>5, <1>6, <1>7, <1>8, <1>9, <1>10, <1>11,
     <1>12, <1>13, <1>14, <1>15, <1>16, <1>17 DEF Next, SuStep

(* Every variable keeps its type: the user id is that of a caller, and     *)
(* results go to users that exist.                                         *)
THEOREM TypeCorrect == Spec => []TypeOK
<1>1. ASSUME Init PROVE TypeOK
  <2>1. CallerOK /\ PcOK /\ DirOK
    BY <1>1 DEF Init, CallerOK, PcOK, DirOK, Gates
  <2>2. FileOK
    BY <1>1 DEF Init, FileOK, Files, Meaning, Modes
  <2>3. ModeOK
    BY <1>1 DEF Init, ModeOK, UserIds, Modes
  <2>4. QueryOK
    <3>1. rows = <<>> /\ next = 1 /\ policy = "none"
      BY <1>1 DEF Init
    <3>2. QED BY <3>1 DEF QueryOK, Policies
  <2>5. AnswerOK
    <3>1. gate = "none" /\ told = <<>> /\ prompted = Nobody /\ notified = Nobody
      BY <1>1 DEF Init
    <3>2. QED BY <3>1 DEF AnswerOK
  <2>6. QED BY <2>1, <2>2, <2>3, <2>4, <2>5, Parts
<1>2. TypeOK /\ [Next]_vars => TypeOK'
  BY TypeStep
<1>3. QED BY <1>1, <1>2, PTL DEF Spec

-----------------------------------------------------------------------------
(* The invariant of the gates.  The gates by what is known at them.        *)
AfterEnabled == {"shell", "owner only", "prepare", "sqlite3_open_v2",
                 "database_callback", "sqlite3_exec", "dballow",
                 "send_request", "ask"}
AfterSelf    == {"access_disabled"} \cup AfterEnabled
Ends         == {"allow", "deny", "ask"}

(* What su has found out on its way.                                       *)
Reached == /\ pc \in {"superuser"} \cup AfterSelf => dir = "ok"
           /\ pc \in AfterSelf => uid # StatUid
           /\ pc \in AfterEnabled => ~AccessDisabled

(* What whoever is allowed has shown.                                      *)
Entitled ==
  pc = "allow" => \/ uid = Root
                  \/ dir = "ok" /\ uid = StatUid
                  \/ /\ dir = "ok" /\ ~AccessDisabled
                     /\ policy = "ALLOW" \/ uid = Shell

(* A gate is written down when it ends the request; the app's own request  *)
(* does not end at the gate that a setting closes.                         *)
Marked == /\ gate # "none" => pc \in Ends
          /\ gate = "access_disabled" => uid # StatUid

GateInv == Reached /\ Entitled /\ Marked

LEMMA Kept ==
  ASSUME UNCHANGED <<uid, device, mode, user>>
  PROVE  StatUid' = StatUid /\ AccessDisabled' = AccessDisabled
<1>1. Base' = Base
  BY DEF Base
<1>2. StatUid' = StatUid
  BY <1>1 DEF StatUid
<1>3. AppsEnabled' = AppsEnabled /\ AdbEnabled' = AdbEnabled
  BY DEF AppsEnabled, AdbEnabled
<1>4. AccessDisabled' = AccessDisabled
  BY <1>3 DEF AccessDisabled
<1>5. QED BY <1>2, <1>4

(* A step that goes on to another gate, and one that ends the request.     *)
LEMMA GoStep ==
  ASSUME NEW at, Go(at), at # "allow", GateInv, pc \notin Ends,
         UNCHANGED <<uid, device, mode, user>>, Reached'
  PROVE  GateInv'
<1>1. pc' = at /\ gate' = gate
  BY DEF Go, answer
<1>2. gate = "none"
  BY DEF GateInv, Marked
<1>3. Marked' /\ Entitled'
  BY <1>1, <1>2 DEF Marked, Entitled
<1>4. QED BY <1>3 DEF GateInv

LEMMA EnabledReached ==
  ASSUME dir = "ok", uid # StatUid, ~AccessDisabled,
         UNCHANGED <<uid, device, mode, user, dir>>
  PROVE  Reached'
<1>1. dir' = "ok"
  OBVIOUS
<1>2. (uid # StatUid)' /\ (~AccessDisabled)'
  BY Kept
<1>3. QED BY <1>1, <1>2 DEF Reached

LEMMA DenyStep ==
  ASSUME NEW at, Deny(at) \/ Fails(at), at = "access_disabled" => uid # StatUid,
         UNCHANGED <<uid, device, mode, user>>
  PROVE  GateInv'
<1>1. pc' = "deny" /\ gate' = at
  BY DEF Deny, End, Fails
<1>2. Reached' /\ Entitled'
  BY <1>1 DEF Reached, Entitled, AfterSelf, AfterEnabled
<1>3. Marked'
  BY <1>1, Kept DEF Marked, Ends
<1>4. QED BY <1>2, <1>3 DEF GateInv

LEMMA AllowStep ==
  ASSUME NEW at, Allow(at), at # "access_disabled",
         UNCHANGED <<uid, device, mode, user, dir, policy>>,
         \/ uid = Root
         \/ dir = "ok" /\ uid = StatUid
         \/ dir = "ok" /\ ~AccessDisabled /\ (policy = "ALLOW" \/ uid = Shell)
  PROVE  GateInv'
<1>1. pc' = "allow" /\ gate' = at
  BY DEF Allow, End
<1>2. Reached'
  BY <1>1 DEF Reached, AfterSelf, AfterEnabled
<1>3. Entitled'
  BY Kept DEF Entitled
<1>4. Marked'
  BY <1>1 DEF Marked, Ends
<1>5. QED BY <1>2, <1>3, <1>4 DEF GateInv

LEMMA GateStep ==
  ASSUME GateInv, [Next]_vars
  PROVE  GateInv'
<1> USE DEF AfterSelf, AfterEnabled, Ends
<1>1. CASE FromInit
  <2>1. /\ pc = "from_init" /\ UNCHANGED <<uid, device, mode, user, dir>>
        /\ Go("read_options") \/ Deny("from_init")
    BY <1>1 DEF FromInit
  <2>2. CASE Go("read_options")
    <3>1. Reached'
      BY <2>2 DEF Go, Reached
    <3>2. QED BY <2>1, <2>2, <3>1, GoStep
  <2>3. QED BY <2>1, <2>2, DenyStep
<1>2. CASE ReadOptions
  <2>1. pc = "read_options" /\ pc' = "root" /\ gate' = gate
    BY <1>2 DEF ReadOptions, Go, answer
  <2>2. gate = "none"
    BY <2>1 DEF GateInv, Marked
  <2>3. QED BY <2>1, <2>2 DEF GateInv, Reached, Entitled, Marked
<1>3. CASE RootGate
  <2>1. /\ pc = "root" /\ UNCHANGED <<uid, device, mode, user, dir, policy>>
        /\ \/ uid = Root /\ Allow("root")
           \/ Go("stat")
    BY <1>3 DEF RootGate, query
  <2>2. CASE Go("stat")
    <3>1. Reached'
      BY <2>2 DEF Go, Reached
    <3>2. QED BY <2>1, <2>2, <3>1, GoStep
  <2>3. QED BY <2>1, <2>2, AllowStep
<1>4. CASE Stat
  <2>1. /\ pc = "stat" /\ UNCHANGED <<uid, device, mode, user>>
        /\ \/ Deny("stat") \/ Deny("odd perms")
           \/ dir' = "ok" /\ Go("superuser")
    BY <1>4 DEF Stat
  <2>2. CASE dir' = "ok" /\ Go("superuser")
    <3>1. Reached'
      BY <2>2 DEF Go, Reached
    <3>2. QED BY <2>1, <2>2, <3>1, GoStep
  <2>3. QED BY <2>1, <2>2, DenyStep
<1>5. CASE SuperuserGate
  <2>1. /\ pc = "superuser"
        /\ UNCHANGED <<uid, device, mode, user, dir, policy>>
        /\ \/ uid = StatUid /\ Allow("superuser")
           \/ uid # StatUid /\ Go("access_disabled")
    BY <1>5 DEF SuperuserGate, query
  <2>2. dir = "ok"
    BY <2>1 DEF GateInv, Reached
  <2>3. CASE uid # StatUid /\ Go("access_disabled")
    <3>1. Reached'
      BY <2>1, <2>2, <2>3, Kept DEF Go, Reached
    <3>2. QED BY <2>1, <2>3, <3>1, GoStep
  <2>4. QED BY <2>1, <2>2, <2>3, AllowStep
<1>6. CASE DisabledGate
  <2>1. /\ pc = "access_disabled" /\ UNCHANGED <<uid, device, mode, user, dir>>
        /\ \/ Deny("access_disabled")
           \/ ~AccessDisabled /\ Go("shell")
    BY <1>6 DEF DisabledGate
  <2>2. dir = "ok" /\ uid # StatUid
    BY <2>1 DEF GateInv, Reached
  <2>3. CASE ~AccessDisabled /\ Go("shell")
    <3>1. Reached'
      BY <2>1, <2>2, <2>3, Kept DEF Go, Reached
    <3>2. QED BY <2>1, <2>3, <3>1, GoStep
  <2>4. QED BY <2>1, <2>2, <2>3, DenyStep
<1>7. CASE ShellGate
  <2>1. /\ pc = "shell" /\ UNCHANGED <<uid, device, mode, user, dir, policy>>
        /\ \/ uid = Shell /\ Allow("shell")
           \/ Go("owner only")
    BY <1>7 DEF ShellGate, query
  <2>2. dir = "ok" /\ uid # StatUid /\ ~AccessDisabled
    BY <2>1 DEF GateInv, Reached
  <2>3. CASE Go("owner only")
    <3>1. Reached'
      BY <2>1, <2>2, EnabledReached
    <3>2. QED BY <2>1, <2>3, <3>1, GoStep
  <2>4. QED BY <2>1, <2>2, <2>3, AllowStep
<1>8. CASE OwnerGate
  <2>1. /\ pc = "owner only" /\ UNCHANGED <<uid, device, mode, user, dir>>
        /\ Go("prepare") \/ Deny("owner only")
    BY <1>8 DEF OwnerGate
  <2>2. dir = "ok" /\ uid # StatUid /\ ~AccessDisabled
    BY <2>1 DEF GateInv, Reached
  <2>3. ASSUME NEW at \in {"prepare"}, Go(at)
        PROVE  GateInv'
    <3>1. Reached'
      BY <2>1, <2>2, EnabledReached
    <3>2. QED BY <2>1, <2>3, <3>1, GoStep
  <2>4. QED BY <2>1, <2>2, <2>3, DenyStep
<1>9. CASE Prepare
  <2>1. /\ pc = "prepare" /\ UNCHANGED <<uid, device, mode, user, dir>>
        /\ Go("sqlite3_open_v2") \/ Deny("prepare")
    BY <1>9 DEF Prepare
  <2>2. dir = "ok" /\ uid # StatUid /\ ~AccessDisabled
    BY <2>1 DEF GateInv, Reached
  <2>3. ASSUME NEW at \in {"sqlite3_open_v2"}, Go(at)
        PROVE  GateInv'
    <3>1. Reached'
      BY <2>1, <2>2, EnabledReached
    <3>2. QED BY <2>1, <2>3, <3>1, GoStep
  <2>4. QED BY <2>1, <2>2, <2>3, DenyStep
<1>10. CASE Open
  <2>1. /\ pc = "sqlite3_open_v2" /\ UNCHANGED <<uid, device, mode, user, dir>>
        /\ Go("dballow") \/ Go("database_callback")
    BY <1>10 DEF Open
  <2>2. dir = "ok" /\ uid # StatUid /\ ~AccessDisabled
    BY <2>1 DEF GateInv, Reached
  <2>3. ASSUME NEW at \in {"dballow", "database_callback"}, Go(at)
        PROVE  GateInv'
    <3>1. Reached'
      BY <2>1, <2>2, EnabledReached
    <3>2. QED BY <2>1, <2>3, <3>1, GoStep
  <2>4. QED BY <2>1, <2>2, <2>3
<1>11. CASE Callback
  <2>1. /\ pc = "database_callback" /\ UNCHANGED <<uid, device, mode, user, dir>>
        /\ Go("database_callback") \/ Go("sqlite3_exec")
    BY <1>11 DEF Callback
  <2>2. dir = "ok" /\ uid # StatUid /\ ~AccessDisabled
    BY <2>1 DEF GateInv, Reached
  <2>3. ASSUME NEW at \in {"database_callback", "sqlite3_exec"}, Go(at)
        PROVE  GateInv'
    <3>1. Reached'
      BY <2>1, <2>2, EnabledReached
    <3>2. QED BY <2>1, <2>3, <3>1, GoStep
  <2>4. QED BY <2>1, <2>2, <2>3
<1>12. CASE QueryEnds
  <2>1. /\ pc = "database_callback" /\ UNCHANGED <<uid, device, mode, user, dir>>
        /\ Go("dballow") \/ Go("sqlite3_exec")
    BY <1>12 DEF QueryEnds
  <2>2. dir = "ok" /\ uid # StatUid /\ ~AccessDisabled
    BY <2>1 DEF GateInv, Reached
  <2>3. ASSUME NEW at \in {"dballow", "sqlite3_exec"}, Go(at)
        PROVE  GateInv'
    <3>1. Reached'
      BY <2>1, <2>2, EnabledReached
    <3>2. QED BY <2>1, <2>3, <3>1, GoStep
  <2>4. QED BY <2>1, <2>2, <2>3
<1>13. CASE Verdict
  <2>1. /\ pc \in {"dballow", "sqlite3_exec"}
        /\ UNCHANGED <<uid, device, mode, user, dir, policy>>
        /\ \/ Go("send_request")
           \/ policy = "ALLOW" /\ Allow(pc)
           \/ Deny(pc)
    BY <1>13 DEF Verdict, query
  <2>2. dir = "ok" /\ uid # StatUid /\ ~AccessDisabled
    BY <2>1 DEF GateInv, Reached
  <2>3. CASE Go("send_request")
    <3>1. Reached'
      BY <2>1, <2>2, <2>3, Kept DEF Go, Reached
    <3>2. QED BY <2>1, <2>3, <3>1, GoStep
  <2>4. QED BY <2>1, <2>2, <2>3, AllowStep, DenyStep
<1>14. CASE SendRequest
  <2>1. /\ pc = "send_request" /\ UNCHANGED <<uid, device, mode, user, dir>>
        /\ \/ pc' = "ask" /\ gate' = pc
           \/ Fails(pc)
    BY <1>14 DEF SendRequest
  <2>2. dir = "ok" /\ uid # StatUid /\ ~AccessDisabled
    BY <2>1 DEF GateInv, Reached
  <2>3. CASE pc' = "ask" /\ gate' = pc
    <3>1. Reached'
      BY <2>1, <2>2, <2>3, Kept DEF Reached
    <3>2. QED BY <2>1, <2>3, <3>1 DEF GateInv, Entitled, Marked
  <2>4. QED BY <2>1, <2>3, DenyStep
<1>15. ASSUME \/ \E f \in {"owner", "managed", "user"} : Truncate(f)
              \/ WriteMode \/ UNCHANGED vars
       PROVE  GateInv'
  <2>1. UNCHANGED <<uid, device, mode, user, dir, pc, policy, gate>>
    BY <1>15 DEF Truncate, WriteMode, vars, query, answer
  <2>2. StatUid' = StatUid /\ AccessDisabled' = AccessDisabled
    BY <2>1, Kept
  <2>3. Reached'
    BY <2>1, <2>2 DEF GateInv, Reached
  <2>4. Entitled'
    BY <2>1, <2>2 DEF GateInv, Entitled
  <2>5. Marked'
    BY <2>1, <2>2 DEF GateInv, Marked
  <2>6. QED BY <2>3, <2>4, <2>5 DEF GateInv
<1>16. QED
  BY <1>1, <1>2, <1>3, <1>4, <1>5, <1>6, <1>7, <1>8, <1>9, <1>10, <1>11,
     <1>12, <1>13, <1>14, <1>15 DEF Next, SuStep

LEMMA GateInvHolds == Spec => []GateInv
<1>1. ASSUME Init PROVE GateInv
  <2>1. pc = "from_init" /\ gate = "none"
    BY <1>1 DEF Init
  <2>2. QED BY <2>1 DEF GateInv, Reached, Entitled, Marked, AfterSelf, AfterEnabled
<1>2. GateInv /\ [Next]_vars => GateInv'
  BY GateStep
<1>3. QED BY <1>1, <1>2, PTL DEF Spec

(* Whoever is allowed without a row of the database is root, the app whose *)
(* data directory was looked at, or a shell with access over adb.          *)
THEOREM FreePassTheorem == Spec => []FreePass
<1>1. ASSUME TypeOK, GateInv, pc = "allow", policy # "ALLOW", uid # Root,
             ~(dir = "ok" /\ uid = StatUid)
      PROVE  /\ dir = "ok" /\ uid = Shell
             /\ device.embedded /\ device.cm =>
                  device.debuggable /\ device.access \in {"adb", "both"}
  <2>1. dir = "ok" /\ uid = Shell /\ ~AccessDisabled
    BY <1>1 DEF GateInv, Entitled
  <2>2. device.debuggable \in BOOLEAN
    BY <1>1, DeviceAssumption DEF TypeOK, DeviceType
  <2>3. QED BY <2>1, <2>2 DEF AccessDisabled, AdbEnabled
<1>2. TypeOK /\ GateInv => FreePass
  BY <1>1 DEF FreePass
<1>3. QED BY <1>2, TypeCorrect, GateInvHolds, PTL

(* While superuser is disabled nobody but root and the app is allowed or   *)
(* asked for, and the app is not refused for that.                         *)
THEOREM DisabledTheorem == Spec => []DisabledHolds
<1>1. Disabled => AccessDisabled
  BY DEF Disabled, AccessDisabled, AppsEnabled, AdbEnabled
<1>2. GateInv => DisabledHolds
  BY <1>1 DEF GateInv, Reached, Entitled, Marked, DisabledHolds,
                 AfterSelf, AfterEnabled
<1>3. QED BY <1>2, GateInvHolds, PTL

-----------------------------------------------------------------------------
(* The invariant of the query.  Found(rs, n, ps): one of the first n rows  *)
(* of rs applies and has a policy of ps.                                   *)
Found(rs, n, ps) == \E i \in 1..n : Applies(rs[i]) /\ rs[i].policy \in ps

BeforeQuery == {"from_init", "read_options", "root", "stat", "odd perms",
                "superuser", "access_disabled", "shell", "owner only", "prepare",
                "sqlite3_open_v2"}
Approving == {"allow", "interactive"}

(* What the callback has made of the first n rows while no denial applied. *)
Folded(rs, n, p) == /\ p \in {"INTERACTIVE", "ALLOW"}
                    /\ ~Found(rs, n, {"deny"})
                    /\ p = "ALLOW" <=> Found(rs, n, Approving)

QueryInv ==
  /\ gate # "none" => pc \in Ends
  /\ pc \in BeforeQuery => rows = <<>>
  /\ pc = "database_callback" => /\ next \in 1..(Len(rows) + 1)
                                 /\ Folded(rows, next - 1, policy)
  /\ pc = "dballow" => Folded(rows, Len(rows), policy)
  /\ pc = "sqlite3_exec" => policy = "DENY"
  /\ pc = "send_request" => Folded(rows, Len(rows), "INTERACTIVE")
  /\ gate = "dballow" => pc = "allow" /\ Folded(rows, Len(rows), "ALLOW")
  /\ gate = "send_request" => Folded(rows, Len(rows), "INTERACTIVE")
  /\ gate = "sqlite3_exec" => pc = "deny"

LEMMA NoRows == Folded(<<>>, 0, "INTERACTIVE")
BY DEF Folded, Found

(* One more row.                                                           *)
LEMMA FoundNext ==
  ASSUME NEW rs \in Seq(Row), NEW n \in 1..Len(rs), NEW ps
  PROVE  Found(rs, n, ps) <=> \/ Found(rs, n - 1, ps)
                              \/ Applies(rs[n]) /\ rs[n].policy \in ps
<1>1. 1..n = (1..(n - 1)) \cup {n}
  OBVIOUS
<1>2. QED BY <1>1 DEF Found

LEMMA FoldedNext ==
  ASSUME NEW rs \in Seq(Row), NEW n \in 1..Len(rs), NEW p,
         Folded(rs, n - 1, p), ~(Applies(rs[n]) /\ rs[n].policy = "deny")
  PROVE  Folded(rs, n, IF Applies(rs[n]) THEN "ALLOW" ELSE p)
<1>1. Found(rs, n, {"deny"}) <=> Found(rs, n - 1, {"deny"})
  BY FoundNext
<1>2. Found(rs, n, Approving) <=> \/ Found(rs, n - 1, Approving)
                                  \/ Applies(rs[n]) /\ rs[n].policy \in Approving
  BY FoundNext
<1>3. rs[n] \in Row
  OBVIOUS
<1>4. rs[n].policy \in {"allow", "deny", "interactive"}
  BY <1>3 DEF Row
<1>5. CASE Applies(rs[n])
  <2>1. rs[n].policy \in Approving
    BY <1>4, <1>5 DEF Approving
  <2>2. QED BY <1>1, <1>2, <1>5, <2>1 DEF Folded
<1>6. CASE ~Applies(rs[n])
  BY <1>1, <1>2, <1>6 DEF Folded
<1>7. QED BY <1>5, <1>6

(* A step before the query, and one that ends the request there.           *)
LEMMA EarlyStep ==
  ASSUME QueryInv, pc \in BeforeQuery, rows' = rows,
         \/ pc' \in BeforeQuery /\ gate' = gate
         \/ pc' \in Ends /\ gate' \in BeforeQuery
  PROVE  QueryInv'
<1>1. rows' = <<>>
  BY DEF QueryInv
<1>2. gate \notin {"dballow", "send_request", "sqlite3_exec"}
  BY DEF QueryInv, BeforeQuery, Ends
<1>3. gate = "none"
  BY DEF QueryInv, BeforeQuery, Ends
<1>4. CASE pc' \in BeforeQuery /\ gate' = gate
  BY <1>1, <1>3, <1>4 DEF QueryInv, BeforeQuery
<1>5. CASE pc' \in Ends /\ gate' \in BeforeQuery
  BY <1>1, <1>5 DEF QueryInv, BeforeQuery, Ends
<1>6. QED BY <1>4, <1>5

LEMMA QueryStep ==
  ASSUME TypeOK, QueryInv, [Next]_vars
  PROVE  QueryInv'
<1>s. rows \in Seq(Row) /\ next \in Nat
  BY DEF TypeOK
<1>1. CASE \/ FromInit \/ ReadOptions \/ RootGate \/ Stat \/ SuperuserGate
           \/ DisabledGate \/ ShellGate \/ OwnerGate \/ Prepare
  <2>1. pc \in BeforeQuery /\ rows' = rows
    BY <1>1 DEF FromInit, ReadOptions, RootGate, Stat, SuperuserGate,
                DisabledGate, ShellGate, OwnerGate, Prepare, query, BeforeQuery
  <2>2. \/ \E at \in BeforeQuery : Go(at)
        \/ \E at \in BeforeQuery : Allow(at) \/ Deny(at)
    <3>1. CASE FromInit
      BY <3>1 DEF FromInit, BeforeQuery
    <3>2. CASE ReadOptions
      BY <3>2 DEF ReadOptions, BeforeQuery
    <3>3. CASE RootGate
      BY <3>3 DEF RootGate, BeforeQuery
    <3>4. CASE Stat
      BY <3>4 DEF Stat, BeforeQuery
    <3>5. CASE SuperuserGate
      BY <3>5 DEF SuperuserGate, BeforeQuery
    <3>6. CASE DisabledGate
      BY <3>6 DEF DisabledGate, BeforeQuery
    <3>7. CASE ShellGate
      BY <3>7 DEF ShellGate, BeforeQuery
    <3>8. CASE OwnerGate
      BY <3>8 DEF OwnerGate, BeforeQuery
    <3>9. CASE Prepare
      BY <3>9 DEF Prepare, BeforeQuery
    <3>10. QED BY <1>1, <3>1, <3>2, <3>3, <3>4, <3>5, <3>6, <3>7, <3>8, <3>9
  <2>3. \/ pc' \in BeforeQuery /\ gate' = gate
        \/ pc' \in Ends /\ gate' \in BeforeQuery
    BY <2>2 DEF Go, Allow, Deny, End, answer, Ends
  <2>4. QED BY <2>1, <2>3, EarlyStep
<1>2. CASE Open
  <2>1. /\ pc = "sqlite3_open_v2" /\ policy' = "INTERACTIVE" /\ gate' = gate
        /\ \/ rows' = rows /\ pc' = "dballow"
           \/ next' = 1 /\ rows' \in Tables /\ pc' = "database_callback"
    BY <1>2 DEF Open, Go, answer
  <2>2. rows = <<>> /\ gate = "none"
    BY <2>1 DEF QueryInv, BeforeQuery, Ends
  <2>3. CASE rows' = rows /\ pc' = "dballow"
    <3>1. Folded(rows', Len(rows'), policy')
      BY <2>1, <2>2, <2>3, NoRows
    <3>2. QED BY <2>1, <2>2, <2>3, <3>1 DEF QueryInv, BeforeQuery
  <2>4. CASE next' = 1 /\ rows' \in Tables /\ pc' = "database_callback"
    <3>1. rows' \in Seq(Row)
      BY <2>4, TableAssumption
    <3>2. Folded(rows', next' - 1, policy')
      BY <2>1, <2>4 DEF Folded, Found
    <3>3. next' \in 1..(Len(rows') + 1)
      BY <2>4, <3>1
    <3>4. QED BY <2>1, <2>2, <2>4, <3>2, <3>3 DEF QueryInv, BeforeQuery
  <2>5. QED BY <2>1, <2>3, <2>4
<1>3. CASE Callback
  <2>1. /\ pc = "database_callback" /\ next <= Len(rows)
        /\ rows' = rows /\ next' = next + 1 /\ gate' = gate
    BY <1>3 DEF Callback, Go, answer
  <2>2. /\ gate = "none" /\ next \in 1..Len(rows)
        /\ Folded(rows, next - 1, policy)
    BY <2>1, <1>s DEF QueryInv, Ends
  <2>3. CASE Applies(rows[next]) /\ rows[next].policy = "deny"
    <3>1. pc' = "sqlite3_exec" /\ policy' = "DENY"
      BY <1>3, <2>3 DEF Callback, Go
    <3>2. QED BY <2>1, <2>2, <3>1 DEF QueryInv, BeforeQuery
  <2>4. CASE ~(Applies(rows[next]) /\ rows[next].policy = "deny")
    <3>1. /\ pc' = "database_callback"
          /\ policy' = IF Applies(rows[next]) THEN "ALLOW" ELSE policy
      BY <1>3, <2>4 DEF Callback, Go
    <3>2. Folded(rows, next, policy')
      BY <2>2, <2>4, <3>1, <1>s, FoldedNext
    <3>3. next' - 1 = next /\ next' \in 1..(Len(rows') + 1)
      BY <2>1, <2>2, <1>s
    <3>4. Folded(rows', next' - 1, policy')
      BY <2>1, <3>2, <3>3
    <3>5. QED BY <2>1, <2>2, <3>1, <3>3, <3>4 DEF QueryInv, BeforeQuery
  <2>5. QED BY <2>3, <2>4
<1>4. CASE QueryEnds
  <2>1. /\ pc = "database_callback" /\ rows' = rows /\ gate' = gate
        /\ \/ next > Len(rows) /\ policy' = policy /\ pc' = "dballow"
           \/ policy' = "DENY" /\ pc' = "sqlite3_exec"
    BY <1>4 DEF QueryEnds, Go, answer
  <2>2. /\ gate = "none" /\ next \in 1..(Len(rows) + 1)
        /\ Folded(rows, next - 1, policy)
    BY <2>1 DEF QueryInv, Ends
  <2>3. CASE next > Len(rows) /\ policy' = policy /\ pc' = "dballow"
    <3>1. next - 1 = Len(rows)
      BY <2>2, <2>3, <1>s
    <3>2. Folded(rows', Len(rows'), policy')
      BY <2>1, <2>2, <2>3, <3>1
    <3>3. QED BY <2>1, <2>2, <2>3, <3>2 DEF QueryInv, BeforeQuery
  <2>4. CASE policy' = "DENY" /\ pc' = "sqlite3_exec"
    BY <2>1, <2>2, <2>4 DEF QueryInv, BeforeQuery
  <2>5. QED BY <2>1, <2>3, <2>4
<1>5. CASE Verdict
  <2>1. /\ rows' = rows
        /\ \/ pc = "dballow" /\ Folded(rows, Len(rows), policy)
           \/ pc = "sqlite3_exec" /\ policy = "DENY"
    BY <1>5 DEF Verdict, QueryInv, query
  <2>2. gate = "none"
    BY <2>1 DEF QueryInv, Ends
  <2>3. CASE policy = "INTERACTIVE"
    <3>1. pc' = "send_request" /\ gate' = gate
      BY <1>5, <2>3 DEF Verdict, Go, answer
    <3>2. Folded(rows', Len(rows'), "INTERACTIVE")
      BY <2>1, <2>3
    <3>3. QED BY <2>2, <3>1, <3>2 DEF QueryInv, BeforeQuery
  <2>4. CASE policy = "ALLOW"
    <3>1. pc' = "allow" /\ gate' = "dballow"
      BY <1>5, <2>1, <2>4 DEF Verdict, Allow, End
    <3>2. Folded(rows', Len(rows'), "ALLOW")
      BY <2>1, <2>4
    <3>3. QED BY <3>1, <3>2 DEF QueryInv, BeforeQuery, Ends
  <2>5. CASE policy = "DENY"
    <3>1. pc = "sqlite3_exec"
      BY <2>1, <2>5 DEF Folded
    <3>2. pc' = "deny" /\ gate' = "sqlite3_exec"
      BY <1>5, <2>5, <3>1 DEF Verdict, Deny, End
    <3>3. QED BY <3>2 DEF QueryInv, BeforeQuery, Ends
  <2>6. QED BY <1>5, <2>3, <2>4, <2>5 DEF Verdict
<1>6. CASE SendRequest
  <2>1. /\ pc = "send_request" /\ rows' = rows
        /\ pc' \in {"ask", "deny"} /\ gate' = "send_request"
    BY <1>6 DEF SendRequest, Fails, query
  <2>2. Folded(rows', Len(rows'), "INTERACTIVE")
    BY <2>1 DEF QueryInv
  <2>3. QED BY <2>1, <2>2 DEF QueryInv, BeforeQuery, Ends
<1>7. ASSUME \/ \E f \in {"owner", "managed", "user"} : Truncate(f)
             \/ WriteMode \/ UNCHANGED vars
      PROVE  QueryInv'
  <2>1. UNCHANGED <<pc, gate, rows, next, policy>>
    BY <1>7 DEF Truncate, WriteMode, vars, query, answer
  <2>2. QED BY <2>1 DEF QueryInv
<1>8. QED
  BY <1>1, <1>2, <1>3, <1>4, <1>5, <1>6, <1>7 DEF Next, SuStep

(* The verdict of the database: whatever the order of the rows, a denial   *)
(* in force beats every approval, and only a user for whom no row is in    *)
(* force is left to the dialog.                                            *)
THEOREM VerdictTheorem == Spec => []VerdictOfRows
<1>1. ASSUME Init PROVE QueryInv
  <2>1. pc = "from_init" /\ gate = "none" /\ rows = <<>>
    BY <1>1 DEF Init
  <2>2. QED BY <2>1 DEF QueryInv, Ends
<1>2. TypeOK /\ QueryInv /\ [Next]_vars => QueryInv'
  BY QueryStep
<1>3. ASSUME QueryInv PROVE VerdictOfRows
  <2>1. RowsOf({"deny"}) <=> Found(rows, Len(rows), {"deny"})
    BY DEF RowsOf, Found
  <2>2. RowsOf({"allow", "interactive"}) <=> Found(rows, Len(rows), Approving)
    BY DEF RowsOf, Found, Approving
  <2>3. RowsOf({"deny", "allow", "interactive"}) =>
          RowsOf({"deny"}) \/ RowsOf({"allow", "interactive"})
    BY DEF RowsOf
  <2>4. QED BY <1>3, <2>1, <2>2, <2>3 DEF VerdictOfRows, QueryInv, Folded
<1>4. QED BY <1>1, <1>2, <1>3, TypeCorrect, PTL DEF Spec

-----------------------------------------------------------------------------
(* The invariant of the multiuser policy.                                  *)
Unread == {"from_init", "read_options"}

(* The file says what one of the policies said, and su knows what it read. *)
ModeRead ==
  /\ modeFile # "" => Meaning(modeFile) \in modes
  /\ pc \in Unread => user = 0
  /\ user # 0 /\ ~torn /\ device.sdk >= 17 => mode \in modes /\ mode # "none"

(* Who is refused for it, and whose dialog is opened.                      *)
AfterOwner == {"prepare", "sqlite3_open_v2", "database_callback",
               "sqlite3_exec", "dballow", "send_request", "ask"}

ModeObeyed ==
  /\ gate # "none" => pc \in Ends
  /\ gate = "owner only" => mode = "owner"
  /\ pc \in AfterOwner => ~(mode = "owner" /\ user # 0)
  /\ pc = "ask" => /\ prompted = LoginUser
                   /\ notified = IF NeedsOwnerLogin THEN user ELSE Nobody

LEMMA ModeReadStep ==
  ASSUME TypeOK, ModeRead, [Next]_vars
  PROVE  ModeRead'
<1>1. CASE ReadOptions
  <2>1. /\ pc' = "root" /\ mode' \in MultiuserMode /\ torn' = (modeFile = "")
        /\ UNCHANGED <<device, modeFile, modes>>
    BY <1>1 DEF ReadOptions, Go, file
  <2>2. CASE torn'
    BY <2>1, <2>2 DEF ModeRead, Unread
  <2>3. CASE ~torn' /\ device.sdk >= 17
    <3>1. device.sdk \in Nat
      BY DeviceAssumption DEF TypeOK, DeviceType
    <3>2. ~(device.sdk < 17)
      <4>1. device.sdk >= 17
        BY <2>1, <2>3
      <4>2. QED BY <3>1, <4>1
    <3>3. modeFile # ""
      BY <2>1, <2>3, Zenon
    <3>4. MultiuserMode = {Meaning(modeFile)}
      BY <3>2, <3>3, Zenon DEF MultiuserMode
    <3>5. mode' = Meaning(modeFile) /\ Meaning(modeFile) \in modes
      BY <2>1, <3>3, <3>4 DEF ModeRead
    <3>6. Meaning(modeFile) # "none"
      BY DEF Meaning
    <3>7. QED BY <2>1, <3>5, <3>6 DEF ModeRead, Unread
  <2>4. CASE ~(device.sdk >= 17)
    BY <2>1, <2>4 DEF ModeRead, Unread
  <2>5. QED BY <2>2, <2>3, <2>4
<1>2. ASSUME NEW f \in {"owner", "managed", "user"}, Truncate(f)
      PROVE  ModeRead'
  <2>1. /\ modeFile' = ""
        /\ UNCHANGED <<device, modes, pc, mode, torn, user>>
    BY <1>2 DEF Truncate
  <2>2. QED BY <2>1 DEF ModeRead
<1>3. CASE WriteMode
  <2>1. /\ modeFile' = writing /\ modes' = modes \cup {Meaning(writing)}
        /\ UNCHANGED <<device, pc, mode, torn, user>>
    BY <1>3 DEF WriteMode
  <2>2. QED BY <2>1 DEF ModeRead
<1>4. CASE UNCHANGED vars
  BY <1>4 DEF vars, file, ModeRead
<1>5. CASE \/ FromInit \/ RootGate \/ Stat \/ SuperuserGate \/ DisabledGate
           \/ ShellGate \/ OwnerGate \/ Prepare \/ Open \/ Callback
           \/ QueryEnds \/ Verdict \/ SendRequest
  <2>1. UNCHANGED <<device, file, mode, torn, user>>
    BY <1>5 DEF FromInit, RootGate, Stat, SuperuserGate, DisabledGate, ShellGate,
                OwnerGate, Prepare, Open, Callback, QueryEnds, Verdict, SendRequest
  <2>2. UNCHANGED <<modeFile, modes>>
    BY <2>1 DEF file
  <2>3. pc' \in Unread => pc \in Unread
    <3>1. CASE FromInit
      BY <3>1 DEF FromInit, Unread
    <3>2. CASE ~FromInit
      <4>1. \/ \E at \in Gates \ Unread : Go(at)
            \/ pc' \in {"allow", "deny", "ask"}
        BY <1>5, <3>2 DEF RootGate, Stat, SuperuserGate, DisabledGate,
             ShellGate, OwnerGate, Prepare, Open, Callback, QueryEnds, Verdict,
             SendRequest, Allow, Deny, End, Fails, Gates, Unread
      <4>2. QED BY <4>1 DEF Go, Unread
    <3>3. QED BY <3>1, <3>2
  <2>4. QED BY <2>1, <2>2, <2>3 DEF ModeRead
<1>6. QED
  BY <1>1, <1>2, <1>3, <1>4, <1>5 DEF Next, SuStep

LEMMA ModeObeyedStep ==
  ASSUME ModeObeyed, ModeRead, [Next]_vars
  PROVE  ModeObeyed'
<1> USE DEF AfterOwner, Ends
<1>k. UNCHANGED <<mode, user>> =>
        LoginUser' = LoginUser /\ NeedsOwnerLogin' = NeedsOwnerLogin
  BY DEF LoginUser, NeedsOwnerLogin
<1>1. CASE \/ FromInit \/ ReadOptions \/ RootGate \/ Stat \/ SuperuserGate
           \/ DisabledGate \/ ShellGate
  <2>1. pc \notin Ends
    BY <1>1 DEF FromInit, ReadOptions, RootGate, Stat, SuperuserGate,
                DisabledGate, ShellGate
  <2>2. \/ \E at \in Gates \ AfterOwner : Go(at)
        \/ \E at \in Gates \ {"owner only"} : Allow(at) \/ Deny(at)
    <3>1. CASE FromInit
      BY <3>1 DEF FromInit, Gates
    <3>2. CASE ReadOptions
      BY <3>2 DEF ReadOptions, Gates
    <3>3. CASE RootGate
      BY <3>3 DEF RootGate, Gates
    <3>4. CASE Stat
      BY <3>4 DEF Stat, Gates
    <3>5. CASE SuperuserGate
      BY <3>5 DEF SuperuserGate, Gates
    <3>6. CASE DisabledGate
      BY <3>6 DEF DisabledGate, Gates
    <3>7. CASE ShellGate
      BY <3>7 DEF ShellGate, Gates
    <3>8. QED BY <1>1, <3>1, <3>2, <3>3, <3>4, <3>5, <3>6, <3>7
  <2>3. \/ pc' \notin AfterOwner \cup Ends /\ gate' = gate
        \/ pc' \in {"allow", "deny"} /\ gate' # "owner only"
    BY <2>2 DEF Go, Allow, Deny, End, answer, Gates
  <2>4. gate = "none"
    BY <2>1 DEF ModeObeyed
  <2>5. QED BY <2>3, <2>4 DEF ModeObeyed
<1>2. CASE OwnerGate
  <2>1. /\ pc = "owner only" /\ UNCHANGED <<mode, user>>
        /\ \/ mode = "owner" /\ user # 0 /\ Deny("owner only")
           \/ ~(mode = "owner" /\ user # 0) /\ Go("prepare")
    BY <1>2 DEF OwnerGate
  <2>2. gate = "none"
    BY <2>1 DEF ModeObeyed
  <2>3. QED BY <2>1, <2>2 DEF ModeObeyed, Go, Deny, End, answer
<1>3. CASE Prepare \/ Open \/ Callback \/ QueryEnds \/ Verdict
  <2>1. pc \in AfterOwner \ {"ask"} /\ UNCHANGED <<mode, user>>
    BY <1>3 DEF Prepare, Open, Callback, QueryEnds, Verdict
  <2>2. \/ \E at \in AfterOwner \ {"ask"} : Go(at)
        \/ \E at \in AfterOwner : Allow(at) \/ Deny(at)
    <3>1. CASE Prepare
      BY <3>1 DEF Prepare
    <3>2. CASE Open
      BY <3>2 DEF Open
    <3>3. CASE Callback
      BY <3>3 DEF Callback
    <3>4. CASE QueryEnds
      BY <3>4 DEF QueryEnds
    <3>5. CASE Verdict
      BY <3>5 DEF Verdict
    <3>6. QED BY <1>3, <3>1, <3>2, <3>3, <3>4, <3>5
  <2>3. \/ pc' \in AfterOwner \ {"ask"} /\ gate' = gate
        \/ pc' \in {"allow", "deny"} /\ gate' \in AfterOwner
    BY <2>2 DEF Go, Allow, Deny, End, answer
  <2>4. gate = "none" /\ ~(mode' = "owner" /\ user' # 0)
    BY <2>1 DEF ModeObeyed
  <2>5. QED BY <2>3, <2>4 DEF ModeObeyed
<1>4. CASE SendRequest
  <2>1. /\ pc = "send_request" /\ UNCHANGED <<mode, user>>
        /\ gate' = "send_request"
        /\ \/ pc' = "deny"
           \/ /\ pc' = "ask" /\ prompted' = LoginUser
              /\ notified' = IF NeedsOwnerLogin THEN user ELSE Nobody
    BY <1>4 DEF SendRequest, Fails
  <2>2. ~(mode' = "owner" /\ user' # 0)
    BY <2>1 DEF ModeObeyed
  <2>3. /\ LoginUser' = LoginUser /\ NeedsOwnerLogin' = NeedsOwnerLogin
        /\ user' = user
    BY <2>1, <1>k
  <2>4. pc' = "ask" =>
          /\ prompted' = LoginUser'
          /\ notified' = IF NeedsOwnerLogin' THEN user' ELSE Nobody
    <3>1. CASE NeedsOwnerLogin
      BY <2>1, <2>3, <3>1
    <3>2. CASE ~NeedsOwnerLogin
      BY <2>1, <2>3, <3>2
    <3>3. QED BY <3>1, <3>2
  <2>5. pc' \in Ends /\ gate' # "owner only"
    BY <2>1
  <2>6. QED BY <2>2, <2>4, <2>5 DEF ModeObeyed
<1>5. ASSUME \/ \E f \in {"owner", "managed", "user"} : Truncate(f)
             \/ WriteMode \/ UNCHANGED vars
      PROVE  ModeObeyed'
  <2>1. UNCHANGED <<pc, gate, mode, user, prompted, notified>>
    BY <1>5 DEF Truncate, WriteMode, vars, answer
  <2>2. LoginUser' = LoginUser /\ NeedsOwnerLogin' = NeedsOwnerLogin
    BY <2>1, <1>k
  <2>3. pc = "ask" =>
          /\ prompted' = LoginUser'
          /\ notified' = IF NeedsOwnerLogin' THEN user' ELSE Nobody
    <3>1. CASE NeedsOwnerLogin
      BY <2>1, <2>2, <3>1 DEF ModeObeyed
    <3>2. CASE ~NeedsOwnerLogin
      BY <2>1, <2>2, <3>2 DEF ModeObeyed
    <3>3. QED BY <3>1, <3>2
  <2>4. QED BY <2>1, <2>3 DEF ModeObeyed
<1>6. QED
  BY <1>1, <1>2, <1>3, <1>4, <1>5 DEF Next, SuStep

(* A request of another user is refused as not the owner's, or put to the  *)
(* owner or to its own user, only if one of the policies that there were   *)
(* since su started says so, unless the file was read while it was empty.  *)
THEOREM OwnerTheorem == Spec => []OwnerInControl
<1>1. ASSUME Init PROVE ModeRead /\ ModeObeyed
  <2>1. /\ pc = "from_init" /\ gate = "none" /\ user = 0
        /\ modes = {Meaning(modeFile)}
    BY <1>1 DEF Init
  <2>2. QED BY <2>1 DEF ModeRead, ModeObeyed, Unread, AfterOwner, Ends
<1>2. TypeOK /\ ModeRead /\ ModeObeyed /\ [Next]_vars =>
        ModeRead' /\ ModeObeyed'
  BY ModeReadStep, ModeObeyedStep
<1>3. ASSUME TypeOK, ModeRead, ModeObeyed,
             device.sdk >= 17, user # 0, ~torn
      PROVE  /\ gate = "owner only" => "owner" \in modes
             /\ pc = "ask" =>
                  \/ "managed" \in modes /\ prompted = 0 /\ notified = user
                  \/ "user" \in modes /\ prompted = user /\ notified = Nobody
  <2>1. mode \in modes /\ mode # "none" /\ mode \in Modes
    BY <1>3 DEF ModeRead, TypeOK
  <2>2. gate = "owner only" => mode = "owner"
    BY <1>3 DEF ModeObeyed
  <2>3. ASSUME pc = "ask"
        PROVE  mode # "owner"
    BY <1>3, <2>3 DEF ModeObeyed, AfterOwner
  <2>4. ASSUME pc = "ask"
        PROVE  /\ prompted = LoginUser
               /\ notified = IF NeedsOwnerLogin THEN user ELSE Nobody
    BY <1>3, <2>4 DEF ModeObeyed
  <2>5. CASE mode = "managed"
    <3>1. LoginUser = 0 /\ NeedsOwnerLogin
      BY <1>3, <2>5 DEF LoginUser, NeedsOwnerLogin
    <3>2. QED BY <2>1, <2>2, <2>4, <2>5, <3>1
  <2>6. CASE mode = "user"
    <3>1. LoginUser = user /\ ~NeedsOwnerLogin
      BY <2>6 DEF LoginUser, NeedsOwnerLogin
    <3>2. QED BY <2>1, <2>2, <2>4, <2>6, <3>1
  <2>7. QED BY <2>1, <2>2, <2>3, <2>5, <2>6 DEF Modes
<1>4. TypeOK /\ ModeRead /\ ModeObeyed => OwnerInControl
  BY <1>3 DEF OwnerInControl
<1>5. QED BY <1>1, <1>2, <1>4, TypeCorrect, PTL DEF Spec
-----------------------------------------------------------------------------
(* The invariant of the broadcasts: none before su has decided, and then   *)
(* none or those of send_result; a build without users has user 0 only.    *)
ToldInv ==
  /\ pc \notin Ends => told = <<>>
  /\ told = <<>> \/ told = Results
  /\ device.sdk < 17 => uid < PerUser
  /\ mode = "none" => user = 0

LEMMA ResultsKept ==
  ASSUME UNCHANGED <<mode, user>> PROVE Results' = Results
<1>1. Own' = Own /\ LoginUser' = LoginUser
  BY DEF Own, LoginUser
<1>2. QED BY <1>1 DEF Results

(* get_multiuser_mode knows no users before Android 4.2, nor are there any.*)
LEMMA NoUsers ==
  ASSUME TypeOK, ToldInv, ReadOptions
  PROVE  mode' = "none" => user' = 0
<1>1. mode' \in MultiuserMode /\ user' = uid \div PerUser
  BY DEF ReadOptions
<1>2. CASE device.sdk < 17
  <2>1. uid \in Nat /\ uid < PerUser
    BY <1>2, UidAssumption DEF TypeOK, ToldInv
  <2>2. uid \div PerUser = 0
    BY <2>1 DEF PerUser
  <2>3. QED BY <1>1, <2>2
<1>3. CASE ~(device.sdk < 17)
  <2>1. MultiuserMode \subseteq {"owner", "managed", "user"}
    BY <1>3 DEF MultiuserMode, Meaning
  <2>2. QED BY <1>1, <2>1
<1>4. QED BY <1>2, <1>3

LEMMA ToldStep ==
  ASSUME TypeOK, ToldInv, [Next]_vars
  PROVE  ToldInv'
<1> USE DEF Ends
<1>1. CASE ReadOptions
  <2>1. /\ pc = "read_options" /\ pc' = "root" /\ told' = told
        /\ UNCHANGED <<device, uid>>
    BY <1>1 DEF ReadOptions, Go, answer
  <2>2. told' = <<>>
    BY <2>1 DEF ToldInv
  <2>3. QED BY <1>1, <2>1, <2>2, NoUsers DEF ToldInv
<1>2. CASE \/ FromInit \/ RootGate \/ Stat \/ SuperuserGate \/ DisabledGate
           \/ ShellGate \/ OwnerGate \/ Prepare \/ Open \/ Callback
           \/ QueryEnds \/ Verdict \/ SendRequest
  <2>1. UNCHANGED <<device, uid, mode, user>>
    BY <1>2 DEF FromInit, RootGate, Stat, SuperuserGate, DisabledGate, ShellGate,
                OwnerGate, Prepare, Open, Callback, QueryEnds, Verdict, SendRequest
  <2>2. pc \notin Ends
    BY <1>2 DEF FromInit, RootGate, Stat, SuperuserGate, DisabledGate, ShellGate,
                OwnerGate, Prepare, Open, Callback, QueryEnds, Verdict, SendRequest
  <2>3. told = <<>>
    BY <2>2 DEF ToldInv
  <2>4. \/ \E at \in Gates : Go(at)
        \/ \E at \in Gates : Allow(at) \/ Deny(at)
        \/ SendRequest
    <3>1. CASE FromInit
      BY <3>1 DEF FromInit, Gates
    <3>2. CASE RootGate \/ Stat \/ SuperuserGate \/ DisabledGate
      BY <3>2 DEF RootGate, Stat, SuperuserGate, DisabledGate, Gates
    <3>3. CASE ShellGate \/ OwnerGate \/ Prepare \/ Open
      BY <3>3 DEF ShellGate, OwnerGate, Prepare, Open, Gates
    <3>4. CASE Callback \/ QueryEnds \/ Verdict
      BY <3>4 DEF Callback, QueryEnds, Verdict, Gates
    <3>5. QED BY <1>2, <3>1, <3>2, <3>3, <3>4
  <2>5. /\ told' \in {Results, told}
        /\ pc' \in Ends \/ told' = told
    BY <2>4 DEF Go, Allow, Deny, End, SendRequest, Fails, answer, Gates
  <2>6. Results' = Results
    BY <2>1, ResultsKept
  <2>7. QED BY <2>1, <2>3, <2>5, <2>6 DEF ToldInv
<1>3. ASSUME \/ \E f \in {"owner", "managed", "user"} : Truncate(f)
             \/ WriteMode \/ UNCHANGED vars
      PROVE  ToldInv'
  <2>1. UNCHANGED <<device, uid, pc, mode, user, told>>
    BY <1>3 DEF Truncate, WriteMode, vars, answer
  <2>2. Results' = Results
    BY <2>1, ResultsKept
  <2>3. QED BY <2>1, <2>2 DEF ToldInv
<1>4. QED
  BY <1>1, <1>2, <1>3 DEF Next, SuStep

(* send_result tells nobody the same result twice: the caller's user and   *)
(* the one who is asked are two, unless a user decides for himself.        *)
THEOREM ToldTheorem == Spec => []ToldOnce
<1>1. ASSUME Init PROVE ToldInv
  <2>1. /\ pc = "from_init" /\ told = <<>> /\ mode = "owner"
        /\ device.sdk < 17 => uid < PerUser
    BY <1>1 DEF Init
  <2>2. QED BY <2>1 DEF ToldInv
<1>2. TypeOK /\ ToldInv /\ [Next]_vars => ToldInv'
  BY ToldStep
<1>3. ASSUME TypeOK, ToldInv PROVE ToldOnce
  <2>1. SUFFICES ASSUME mode # "user", NEW i \in 1..Len(told),
                        NEW j \in 1..Len(told), told[i] = told[j]
                 PROVE  i = j
    BY DEF ToldOnce
  <2>2. CASE told = <<>>
    BY <2>2
  <2>3. CASE told = Results /\ user = 0
    <3>1. told = <<LoginUser>>
      BY <2>3 DEF Results
    <3>2. QED BY <3>1
  <2>4. CASE told = Results /\ user # 0
    <3>1. mode # "none" /\ Own = user /\ LoginUser = 0
      BY <1>3, <2>1, <2>4 DEF ToldInv, Own, LoginUser
    <3>2. told = <<user, 0>>
      BY <2>4, <3>1 DEF Results
    <3>3. Len(told) = 2 /\ told[1] = user /\ told[2] = 0
      BY <3>2
    <3>4. i \in {1, 2} /\ j \in {1, 2}
      BY <3>3
    <3>5. QED BY <2>1, <2>4, <3>3, <3>4
  <2>5. QED BY <1>3, <2>2, <2>3, <2>4 DEF ToldInv
<1>4. QED BY <1>1, <1>2, <1>3, TypeCorrect, PTL DEF Spec
=============================================================================
