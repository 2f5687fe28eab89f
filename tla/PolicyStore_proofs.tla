------------------------ MODULE PolicyStore_proofs --------------------------
(***************************************************************************)
(* Proofs about PolicyStore, for any sets of uids, targets, packages,      *)
(* commands and threads: its types (with the primary key of the table),    *)
(* that whoever is allowed without being asked was approved for a time     *)
(* that has not passed, and that a sweep passes over no orphan.            *)
(***************************************************************************)
EXTENDS PolicyStore, TLAPS

USE NoneAssumption, BoundAssumption, LegacyAssumption

Unique(db) == \A r, q \in db : Key(r) = Key(q) => r = q

LEMMA SubsetUnique ==
  ASSUME NEW S, NEW T \in SUBSET S, Unique(S)
  PROVE  Unique(T)
  BY DEF Unique

(* A row replaces the one with its key and leaves the others alone.        *)
LEMMA ReplaceUnique ==
  ASSUME NEW db \in SUBSET Policies, Unique(db), NEW p \in Policies
  PROVE  Replace(db, p) \in SUBSET Policies /\ Unique(Replace(db, p))
  <1>1. Replace(db, p) \in SUBSET Policies
    BY DEF Replace
  <1>2. ASSUME NEW r \in Replace(db, p), NEW q \in Replace(db, p),
               Key(r) = Key(q)
        PROVE  r = q
    BY <1>2 DEF Replace, Unique
  <1> QED BY <1>1, <1>2 DEF Unique

LEMMA PurgeSubset ==
  ASSUME NEW db
  PROVE  Purge(db) \in SUBSET db
  BY DEF Purge

LEMMA DeleteSubset ==
  ASSUME NEW db, NEW p
  PROVE  Delete(db, p) \in SUBSET db
  BY DEF Delete

(* Looking a package up changes the name of the package only.              *)
LEMMA PackageInfoType ==
  ASSUME NEW p \in Policies, installed \in [Uids -> SUBSET Packages],
         NEW q \in PackageInfo(p)
  PROVE  /\ q \in Policies
         /\ q.uid = p.uid /\ q.target = p.target /\ q.until = p.until
         /\ q.policy = p.policy
  BY DEF PackageInfo, Policies

-----------------------------------------------------------------------------
(* Types.                                                                  *)
LEMMA InitTypes == Init => TypeOK
  <1> SUFFICES ASSUME Init PROVE TypeOK
    OBVIOUS
  <1>1. PICK old \in SUBSET Legacy :
          /\ \A r, q \in old : Key(r) = Key(q) => r = q
          /\ rows = old
          /\ approved = {Approval(r) : r \in {q \in old : q.policy = "allow"}}
    BY DEF Init
  <1>2. approved \subseteq Approvals
    BY <1>1 DEF Approval, Approvals, Policies
  <1> QED BY <1>1, <1>2 DEF Init, TypeOK

(* What SetPolicy leaves in busy.                                          *)
LEMMA SetPolicyType ==
  ASSUME TypeOK, NEW proc \in Processes, NEW p \in Policies,
         NEW d \in BOOLEAN, SetPolicy(proc, p, d)
  PROVE  /\ busy' \in [Processes -> Writes \cup {None}]
         /\ busy'[proc] \in Writes
         /\ busy'[proc].decided = d
         /\ busy'[proc].policy \in PackageInfo(p)
         /\ busy'[proc].policy \in Policies
         /\ \A o \in Processes \ {proc} : busy'[o] = busy[o]
  <1>1. PICK q \in PackageInfo(p) :
          busy' = [busy EXCEPT ![proc] = [policy |-> q, decided |-> d]]
    BY DEF SetPolicy
  <1>2. q \in Policies
    BY PackageInfoType DEF TypeOK
  <1>3. [policy |-> q, decided |-> d] \in Writes
    BY <1>2 DEF Writes
  <1>4. busy \in [Processes -> Writes \cup {None}]
    BY DEF TypeOK
  <1>5. busy'[proc] = [policy |-> q, decided |-> d]
    BY <1>1, <1>4
  <1>6. busy' \in [Processes -> Writes \cup {None}]
    BY <1>1, <1>3, <1>4
  <1>7. \A o \in Processes \ {proc} : busy'[o] = busy[o]
    BY <1>1, <1>4
  <1> QED BY <1>2, <1>3, <1>5, <1>6, <1>7

LEMMA ReloadTypes ==
  ASSUME TypeOK, NEW db \in SUBSET Policies, Unique(db), Reload(db)
  PROVE  /\ rows' \in SUBSET Policies /\ Unique(rows')
         /\ list' = rows' /\ shared' \in BOOLEAN
         /\ revoking' \in SUBSET Revocations
         /\ checking' \in SUBSET Revocations
  <1>1. rows' \in SUBSET db
    BY PurgeSubset DEF Reload
  <1>2. Unique(rows')
    BY <1>1, SubsetUnique
  <1>3. ASSUME NEW X \in SUBSET Revocations
        PROVE  {[x EXCEPT !.item = FALSE] : x \in X} \in SUBSET Revocations
    BY DEF Revocations
  <1>4. revoking' \in SUBSET Revocations
    BY <1>3 DEF Reload, TypeOK
  <1>5. checking' \in SUBSET Revocations
    BY <1>3 DEF Reload, TypeOK
  <1>6. list' = rows' /\ shared' = FALSE
    BY DEF Reload
  <1> QED BY <1>1, <1>2, <1>4, <1>5, <1>6

LEMMA RecordTypes ==
  ASSUME TypeOK, NEW w \in Writes, Record(w)
  PROVE  approved' \subseteq Approvals /\ revoked' \subseteq Keys
  <1>1. Approval(w.policy) \in Approvals
    BY DEF Approval, Approvals, Writes, Policies
  <1> QED BY <1>1 DEF Record, TypeOK

LEMMA KeyType == \A p \in Policies : Key(p) \in Keys
  BY DEF Key, Keys, Policies

LEMMA TypeDialog ==
  ASSUME TypeOK, DialogStep
  PROVE  TypeOK'
  <1>1. CASE WriteOfDialog
    <2>1. busy["dialog"] \in Writes
      BY <1>1 DEF WriteOfDialog, TypeOK, Processes
    <2>2. busy["dialog"].policy \in Policies
      BY <2>1 DEF Writes
    <2>3. rows' \in SUBSET Policies /\ Unique(rows')
      BY <1>1, <2>2, ReplaceUnique DEF WriteOfDialog, TypeOK, Unique
    <2>4. approved' \subseteq Approvals /\ revoked' \subseteq Keys
      BY <1>1, <2>1, RecordTypes DEF WriteOfDialog
    <2> QED
      BY <1>1, <2>3, <2>4 DEF WriteOfDialog, TypeOK, Unique, screen, sweep
  <1>2. ASSUME NEW u \in Uids, NEW t \in Targets, NEW v \in {"allow", "deny"},
               Answer(u, t, v)
        PROVE  TypeOK'
    <2>1. PICK e \in {0, now + GracePeriod} :
            SetPolicy("dialog",
                      [uid |-> u, target |-> t, command |-> AllCommands,
                       policy |-> v, until |-> e, package |-> NoPackage],
                      TRUE)
      BY <1>2 DEF Answer
    <2>2. e \in Nat
      BY DEF TypeOK
    <2>3. [uid |-> u, target |-> t, command |-> AllCommands, policy |-> v,
           until |-> e, package |-> NoPackage] \in Policies
      BY <2>2 DEF Policies
    <2>4. busy' \in [Processes -> Writes \cup {None}]
      BY <2>1, <2>3, SetPolicyType DEF Processes
    <2> QED BY <1>2, <2>4 DEF Answer, TypeOK, screen, sweep
  <1> QED BY <1>1, <1>2 DEF DialogStep

LEMMA TypeScreen ==
  ASSUME TypeOK, ScreenStep
  PROVE  TypeOK'
  <1> USE DEF screen, sweep, history
  <1>1. CASE Load
    <2>1. Reload(rows)
      BY <1>1 DEF Load
    <2> QED BY <1>1, <2>1, ReloadTypes DEF Load, TypeOK, Unique
  <1>2. CASE Recreate
    BY <1>2 DEF Recreate, TypeOK, Meant
  <1>3. CASE ClosePolicy
    BY <1>3 DEF ClosePolicy, TypeOK
  <1>4. CASE ChangeFlags
    <2>1. up \in Policies
      BY <1>4 DEF ChangeFlags, TypeOK
    <2>2. /\ busy' \in [Processes -> Writes \cup {None}]
          /\ busy'["screen"].policy \in Policies
      BY <1>4, <2>1, SetPolicyType DEF ChangeFlags, Processes
    <2> QED BY <1>4, <2>2 DEF ChangeFlags, TypeOK
  <1>5. CASE DeletePolicy
    <2>1. up \in Policies
      BY <1>5 DEF DeletePolicy, TypeOK
    <2>2. rows' \in SUBSET rows
      BY <1>5, DeleteSubset DEF DeletePolicy
    <2>3. Key(up) \in Keys
      BY <2>1, KeyType
    <2> QED BY <1>5, <2>2, <2>3 DEF DeletePolicy, TypeOK
  <1>6. CASE WriteOfScreen
    <2> DEFINE w == busy["screen"]
    <2>1. w \in Writes
      BY <1>6 DEF WriteOfScreen, TypeOK, Processes
    <2>2. w.policy \in Policies
      BY <2>1 DEF Writes
    <2>3. /\ Replace(rows, w.policy) \in SUBSET Policies
          /\ Unique(Replace(rows, w.policy))
      BY <2>2, ReplaceUnique DEF TypeOK, Unique
    <2>4. /\ rows' \in SUBSET Policies /\ Unique(rows')
          /\ list' \in SUBSET Policies /\ shared' \in BOOLEAN
          /\ revoking' \in SUBSET Revocations
          /\ checking' \in SUBSET Revocations
      <3>1. CASE w.decided
        <4>1. Reload(Replace(rows, w.policy))
          BY <1>6, <3>1 DEF WriteOfScreen
        <4> QED BY <4>1, <2>3, ReloadTypes
      <3>2. CASE ~w.decided
        <4>1. /\ rows' = Replace(rows, w.policy)
              /\ UNCHANGED <<list, shared, revoking, checking>>
          BY <1>6, <3>2 DEF WriteOfScreen
        <4> QED BY <4>1, <2>3 DEF TypeOK
      <3> QED BY <3>1, <3>2
    <2>5. approved' \subseteq Approvals /\ revoked' \subseteq Keys
      BY <1>6, <2>1, RecordTypes DEF WriteOfScreen
    <2> QED BY <1>6, <2>4, <2>5 DEF WriteOfScreen, TypeOK, Unique
  <1>7. ASSUME NEW o \in list, ChangePermission(o)
        PROVE  TypeOK'
    <2> DEFINE p == [o EXCEPT !.policy =
                       IF o.policy = "allow" THEN "deny" ELSE "allow"]
    <2>1. p \in Policies
      BY DEF TypeOK, Policies
    <2>2. SetPolicy("screen", p, TRUE)
      BY <1>7 DEF ChangePermission
    <2>3. /\ busy' \in [Processes -> Writes \cup {None}]
          /\ busy'["screen"].policy \in Policies
      BY <2>1, <2>2, SetPolicyType DEF Processes
    <2>4. list' \in SUBSET Policies /\ up' \in Policies \cup {None}
      BY <1>7, <2>3 DEF ChangePermission, TypeOK
    <2> QED BY <1>7, <2>3, <2>4 DEF ChangePermission, TypeOK
  <1>8. ASSUME NEW o \in list, RevokeItem(o)
        PROVE  TypeOK'
    <2>1. [policy |-> o, item |-> TRUE] \in Revocations
      BY DEF TypeOK, Revocations
    <2> QED BY <1>8, <2>1 DEF RevokeItem, TypeOK
  <1>9. ASSUME NEW o \in list, OpenPolicy(o)
        PROVE  TypeOK'
    BY <1>9 DEF OpenPolicy, TypeOK
  <1> QED BY <1>1, <1>2, <1>3, <1>4, <1>5, <1>6, <1>7, <1>8, <1>9
          DEF ScreenStep

LEMMA TypeRevoke ==
  ASSUME TypeOK, RevokeStep
  PROVE  TypeOK'
  <1> USE DEF screen, sweep, history
  <1>1. ASSUME NEW x \in revoking, RevokeDelete(x)
        PROVE  TypeOK'
    <2>1. x \in Revocations /\ x.policy \in Policies
      BY DEF TypeOK, Revocations
    <2>2. rows' \in SUBSET rows
      BY <1>1, DeleteSubset DEF RevokeDelete
    <2>3. Key(x.policy) \in Keys
      BY <2>1, KeyType
    <2> QED BY <1>1, <2>1, <2>2, <2>3 DEF RevokeDelete, TypeOK
  <1>2. ASSUME NEW x \in checking, RevokeCheck(x)
        PROVE  TypeOK'
    BY <1>2 DEF RevokeCheck, TypeOK
  <1> QED BY <1>1, <1>2 DEF RevokeStep

LEMMA TypeRest ==
  ASSUME TypeOK,
         \/ \E t \in Sweepers : SweepStep(t)
         \/ \E u \in Uids, n \in Packages : ChangePackages(u, n)
         \/ Tick \/ MainDies \/ DialogDies
  PROVE  TypeOK'
  <1> USE DEF screen, sweep, history
  <1>1. ASSUME NEW t \in Sweepers, SweepStart(t)
        PROVE  TypeOK'
    <2>1. rows' \in SUBSET rows
      BY <1>1, PurgeSubset DEF SweepStart
    <2> QED BY <1>1, <2>1 DEF SweepStart, TypeOK
  <1>2. ASSUME NEW t \in Sweepers, SweepCheck(t)
        PROVE  TypeOK'
    BY <1>2 DEF SweepCheck, TypeOK
  <1>3. ASSUME NEW t \in Sweepers, SweepDelete(t)
        PROVE  TypeOK'
    <2>1. rows' \in SUBSET rows
      BY <1>3, DeleteSubset DEF SweepDelete
    <2> QED BY <1>3, <2>1 DEF SweepDelete, TypeOK
  <1>4. ASSUME NEW u \in Uids, NEW n \in Packages, ChangePackages(u, n)
        PROVE  TypeOK'
    BY <1>4 DEF ChangePackages, TypeOK
  <1>5. CASE Tick
    BY <1>5 DEF Tick, TypeOK
  <1>6. CASE MainDies
    BY <1>6 DEF MainDies, TypeOK, Processes
  <1>7. CASE DialogDies
    BY <1>7 DEF DialogDies, TypeOK, Processes
  <1> QED BY <1>1, <1>2, <1>3, <1>4, <1>5, <1>6, <1>7 DEF SweepStep

LEMMA TypeStep == TypeOK /\ [Next]_vars => TypeOK'
  <1> SUFFICES ASSUME TypeOK, [Next]_vars PROVE TypeOK'
    OBVIOUS
  <1>1. CASE UNCHANGED vars
    BY <1>1 DEF TypeOK, vars, screen, sweep, history
  <1>2. CASE Next
    BY <1>2, TypeDialog, TypeScreen, TypeRevoke, TypeRest DEF Next
  <1> QED BY <1>1, <1>2

(* Every variable keeps its type, and no two rows of the table have the    *)
(* same primary key.                                                       *)
THEOREM TypeCorrect == Spec => []TypeOK
  BY InitTypes, TypeStep, PTL DEF Spec

-----------------------------------------------------------------------------
(* The invariant.  GrantWasApproved speaks of the table, and the table is  *)
(* written from the objects of the screens: they must be backed by an      *)
(* approval as well.  An object whose permission the user has just changed *)
(* is not yet: the approval is recorded when it is written.                *)
Backed(r, as) ==
  r.policy = "allow" => \E a \in as : a.uid = r.uid /\ a.until = r.until

Deciding(o, w) == w # None /\ w.decided /\ w.policy = o

RowsBacked == \A r \in rows : Backed(r, approved)

ScreenBacked ==
  /\ \A o \in list : Backed(o, approved) \/ Deciding(o, busy["screen"])
  /\ up # None => Backed(up, approved) \/ Deciding(up, busy["screen"])

FlagsBacked ==
  busy["screen"] # None /\ ~busy["screen"].decided =>
    Backed(busy["screen"].policy, approved)

DialogDecides == busy["dialog"] # None => busy["dialog"].decided

IInv == TypeOK /\ RowsBacked /\ ScreenBacked /\ FlagsBacked /\ DialogDecides

LEMMA InitIInv == Init => IInv
  <1> SUFFICES ASSUME Init PROVE IInv
    OBVIOUS
  <1>1. PICK old \in SUBSET Legacy :
          /\ rows = old
          /\ approved = {Approval(r) : r \in {q \in old : q.policy = "allow"}}
    BY DEF Init
  <1>2. RowsBacked
    <2>1. ASSUME NEW r \in rows, r.policy = "allow"
          PROVE  \E a \in approved : a.uid = r.uid /\ a.until = r.until
      <3>1. Approval(r) \in approved
        BY <1>1, <2>1
      <3>2. Approval(r).uid = r.uid /\ Approval(r).until = r.until
        BY DEF Approval
      <3> QED BY <3>1, <3>2
    <2> QED BY <2>1 DEF RowsBacked, Backed
  <1>3. ScreenBacked /\ FlagsBacked /\ DialogDecides
    BY DEF Init, ScreenBacked, FlagsBacked, DialogDecides, Processes
  <1> QED BY <1>2, <1>3, InitTypes DEF IInv

(* Approvals are never taken back, so what is backed stays backed, and     *)
(* what has just been written with the user's decision is.                 *)
LEMMA BackedStays ==
  ASSUME NEW r, NEW as, NEW more, Backed(r, as), as \subseteq more
  PROVE  Backed(r, more)
  BY DEF Backed

LEMMA RecordBacks ==
  ASSUME NEW w, Record(w)
  PROVE  /\ approved \subseteq approved'
         /\ (w.decided => Backed(w.policy, approved'))
  <1>1. approved \subseteq approved'
    BY DEF Record
  <1>2. ASSUME w.decided, w.policy.policy = "allow"
        PROVE  \E a \in approved' :
                 a.uid = w.policy.uid /\ a.until = w.policy.until
    <2>1. Approval(w.policy) \in approved'
      BY <1>2 DEF Record
    <2>2. /\ Approval(w.policy).uid = w.policy.uid
          /\ Approval(w.policy).until = w.policy.until
      BY DEF Approval
    <2> QED BY <2>1, <2>2
  <1> QED BY <1>1, <1>2 DEF Backed

LEMMA BackedDialog ==
  ASSUME IInv, DialogStep, TypeOK'
  PROVE  IInv'
  <1> USE DEF IInv
  <1>1. CASE WriteOfDialog
    <2> DEFINE w == busy["dialog"]
    <2>1. w \in Writes /\ w.decided
      BY <1>1 DEF WriteOfDialog, TypeOK, Processes, DialogDecides
    <2>2. approved \subseteq approved' /\ Backed(w.policy, approved')
      BY <1>1, <2>1, RecordBacks DEF WriteOfDialog
    <2>3. rows' \subseteq rows \cup {w.policy}
      BY <1>1 DEF WriteOfDialog, Replace
    <2>4. busy'["screen"] = busy["screen"] /\ busy'["dialog"] = None
      BY <1>1 DEF WriteOfDialog, TypeOK, Processes
    <2>5. list' = list /\ up' = up
      BY <1>1 DEF WriteOfDialog, screen
    <2>6. RowsBacked'
      BY <2>2, <2>3, BackedStays DEF RowsBacked
    <2>7. ScreenBacked' /\ FlagsBacked' /\ DialogDecides'
      BY <2>2, <2>4, <2>5, BackedStays
         DEF ScreenBacked, FlagsBacked, DialogDecides, Deciding
    <2> QED BY <2>6, <2>7
  <1>2. ASSUME NEW u \in Uids, NEW t \in Targets, NEW v \in {"allow", "deny"},
               Answer(u, t, v)
        PROVE  IInv'
    <2>1. PICK e \in {0, now + GracePeriod} :
            SetPolicy("dialog",
                      [uid |-> u, target |-> t, command |-> AllCommands,
                       policy |-> v, until |-> e, package |-> NoPackage],
                      TRUE)
      BY <1>2 DEF Answer
    <2>2. [uid |-> u, target |-> t, command |-> AllCommands, policy |-> v,
           until |-> e, package |-> NoPackage] \in Policies
      BY DEF Policies, TypeOK
    <2>3. busy'["dialog"].decided /\ busy'["screen"] = busy["screen"]
      BY <2>1, <2>2, SetPolicyType DEF Processes
    <2>4. UNCHANGED <<rows, list, up, approved>>
      BY <1>2 DEF Answer, screen
    <2>5. RowsBacked'
      BY <2>4 DEF RowsBacked, Backed
    <2>6. ScreenBacked' /\ FlagsBacked' /\ DialogDecides'
      BY <2>3, <2>4
         DEF ScreenBacked, FlagsBacked, DialogDecides, Deciding, Backed
    <2> QED BY <2>5, <2>6
  <1> QED BY <1>1, <1>2 DEF DialogStep

LEMMA BackedScreen ==
  ASSUME IInv, ScreenStep, TypeOK'
  PROVE  IInv'
  <1> USE DEF IInv, screen, sweep, history
  <1>1. CASE Load
    <2>1. rows' \subseteq rows /\ list' = rows'
      BY <1>1 DEF Load, Reload, Purge
    <2>2. UNCHANGED <<up, busy, approved>>
      BY <1>1 DEF Load
    <2> QED BY <2>1, <2>2
            DEF RowsBacked, ScreenBacked, FlagsBacked, DialogDecides, Backed,
                Deciding
  <1>2. CASE Recreate
    <2>1. up' \in rows \cup {None}
      BY <1>2 DEF Recreate, Meant
    <2>2. UNCHANGED <<rows, list, busy, approved>>
      BY <1>2 DEF Recreate
    <2> QED BY <2>1, <2>2
            DEF RowsBacked, ScreenBacked, FlagsBacked, DialogDecides, Backed,
                Deciding
  <1>3. CASE ClosePolicy
    BY <1>3 DEF ClosePolicy, RowsBacked, ScreenBacked, FlagsBacked,
                DialogDecides, Backed, Deciding
  <1>4. CASE ChangeFlags
    <2> DEFINE n == busy'["screen"].policy
    <2>1. up \in Policies /\ SetPolicy("screen", up, FALSE)
      BY <1>4 DEF ChangeFlags, TypeOK
    <2>2. busy["screen"] = None
      BY <1>4 DEF ChangeFlags, UiIdle
    <2>3. /\ n \in PackageInfo(up) /\ busy'["screen"].decided = FALSE
          /\ busy'["dialog"] = busy["dialog"]
      BY <2>1, SetPolicyType DEF Processes
    <2>4. n.uid = up.uid /\ n.until = up.until /\ n.policy = up.policy
      BY <2>1, <2>3, PackageInfoType DEF TypeOK
    <2>5. Backed(up, approved)
      BY <1>4, <2>2 DEF ChangeFlags, ScreenBacked, Deciding
    <2>6. UNCHANGED <<rows, approved>>
      BY <1>4 DEF ChangeFlags
    <2>7. Backed(n, approved')
      BY <2>4, <2>5, <2>6 DEF Backed
    <2>8. list' \subseteq list \cup {n} /\ up' = n
      BY <1>4 DEF ChangeFlags
    <2>9. \A o \in list : Backed(o, approved')
      BY <2>2, <2>6 DEF ScreenBacked, Deciding, Backed
    <2>10. ScreenBacked'
      BY <2>7, <2>8, <2>9 DEF ScreenBacked
    <2>11. RowsBacked'
      BY <2>6 DEF RowsBacked, Backed
    <2>12. FlagsBacked' /\ DialogDecides'
      BY <2>3, <2>7 DEF FlagsBacked, DialogDecides
    <2> QED BY <2>10, <2>11, <2>12
  <1>5. CASE DeletePolicy
    <2>1. rows' \subseteq rows
      BY <1>5 DEF DeletePolicy, Delete
    <2>2. UNCHANGED <<list, up, busy, approved>>
      BY <1>5 DEF DeletePolicy
    <2> QED BY <2>1, <2>2
            DEF RowsBacked, ScreenBacked, FlagsBacked, DialogDecides, Backed,
                Deciding
  <1>6. CASE WriteOfScreen
    <2> DEFINE w == busy["screen"]
    <2>1. w \in Writes /\ w # None
      BY <1>6 DEF WriteOfScreen, TypeOK, Processes
    <2>2. Record(w)
      BY <1>6 DEF WriteOfScreen
    <2>3. approved \subseteq approved'
      BY <2>2, RecordBacks
    <2>4. Backed(w.policy, approved')
      <3>1. CASE w.decided
        BY <3>1, <2>2, RecordBacks
      <3>2. CASE ~w.decided
        BY <3>2, <2>1, <2>3, BackedStays DEF FlagsBacked
      <3> QED BY <3>1, <3>2
    <2>5. rows' \subseteq rows \cup {w.policy}
      BY <1>6 DEF WriteOfScreen, Reload, Purge, Replace
    <2>6. RowsBacked'
      BY <2>3, <2>4, <2>5, BackedStays DEF RowsBacked
    <2>7. list' = rows' \/ list' = list
      BY <1>6 DEF WriteOfScreen, Reload
    <2>8. up' = up
      BY <1>6 DEF WriteOfScreen
    <2>9. busy'["screen"] = None /\ busy'["dialog"] = busy["dialog"]
      BY <1>6 DEF WriteOfScreen, TypeOK, Processes
    <2>10. ASSUME NEW o, Backed(o, approved) \/ Deciding(o, busy["screen"])
           PROVE  Backed(o, approved')
      <3>1. CASE Backed(o, approved)
        BY <3>1, <2>3, BackedStays
      <3>2. CASE Deciding(o, busy["screen"])
        BY <3>2, <2>4 DEF Deciding
      <3> QED BY <2>10, <3>1, <3>2
    <2>11. \A o \in list' : Backed(o, approved')
      BY <2>6, <2>7, <2>10 DEF ScreenBacked, RowsBacked
    <2>12. up' # None => Backed(up', approved')
      BY <2>8, <2>10 DEF ScreenBacked
    <2>13. ScreenBacked'
      BY <2>8, <2>11, <2>12 DEF ScreenBacked, Backed
    <2>14. FlagsBacked' /\ DialogDecides'
      BY <2>9 DEF FlagsBacked, DialogDecides
    <2> QED BY <2>6, <2>13, <2>14
  <1>7. ASSUME NEW o \in list, ChangePermission(o)
        PROVE  IInv'
    <2> DEFINE v == IF o.policy = "allow" THEN "deny" ELSE "allow"
               p == [o EXCEPT !.policy = v]
               n == busy'["screen"].policy
    <2>1. p \in Policies
      <3>1. v \in {"allow", "deny"}
        OBVIOUS
      <3>2. o \in Policies
        BY DEF TypeOK
      <3> HIDE DEF v
      <3> QED BY <3>1, <3>2 DEF Policies
    <2>2. SetPolicy("screen", p, TRUE)
      BY <1>7 DEF ChangePermission
    <2>3. busy["screen"] = None
      BY <1>7 DEF ChangePermission, UiIdle
    <2> HIDE DEF p
    <2>4. /\ busy'["screen"] \in Writes /\ busy'["screen"].decided
          /\ busy'["dialog"] = busy["dialog"]
      BY <2>1, <2>2, SetPolicyType DEF Processes
    <2>5. UNCHANGED <<rows, approved>>
      BY <1>7 DEF ChangePermission
    <2>6. list' \subseteq list \cup {n} /\ (up' = n \/ up' = up)
      BY <1>7 DEF ChangePermission
    <2>7. Deciding(n, busy'["screen"])
      BY <2>4 DEF Deciding
    <2>8. /\ \A q \in list : Backed(q, approved')
          /\ up # None => Backed(up, approved')
      BY <2>3, <2>5 DEF ScreenBacked, Deciding, Backed
    <2>9. /\ \A q \in list' : Backed(q, approved') \/ Deciding(q, busy'["screen"])
          /\ up' # None =>
               Backed(up', approved') \/ Deciding(up', busy'["screen"])
      BY <2>6, <2>7, <2>8 DEF Backed, Deciding
    <2>10. ScreenBacked'
      BY <2>9 DEF ScreenBacked, Backed, Deciding
    <2>11. RowsBacked'
      BY <2>5 DEF RowsBacked, Backed
    <2>12. FlagsBacked' /\ DialogDecides'
      BY <2>4 DEF FlagsBacked, DialogDecides
    <2> QED BY <2>10, <2>11, <2>12
  <1>8. ASSUME NEW o \in list, RevokeItem(o)
        PROVE  IInv'
    BY <1>8 DEF RevokeItem, RowsBacked, ScreenBacked, FlagsBacked,
                DialogDecides, Backed, Deciding
  <1>9. ASSUME NEW o \in list, OpenPolicy(o)
        PROVE  IInv'
    BY <1>9 DEF OpenPolicy, RowsBacked, ScreenBacked, FlagsBacked,
                DialogDecides, Backed, Deciding
  <1> QED BY <1>1, <1>2, <1>3, <1>4, <1>5, <1>6, <1>7, <1>8, <1>9
          DEF ScreenStep

(* No other step adds a row or an object.                                  *)
LEMMA BackedRest ==
  ASSUME IInv, TypeOK',
         \/ RevokeStep
         \/ \E t \in Sweepers : SweepStep(t)
         \/ \E u \in Uids, n \in Packages : ChangePackages(u, n)
         \/ Tick \/ MainDies \/ DialogDies
  PROVE  IInv'
  <1> USE DEF screen, sweep, history
  <1>1. /\ rows' \subseteq rows /\ list' \subseteq list
        /\ up' = up \/ up' = None
        /\ approved' = approved
    <2>1. CASE RevokeStep
      BY <2>1 DEF RevokeStep, RevokeDelete, RevokeCheck, Delete
    <2>2. CASE \E t \in Sweepers : SweepStep(t)
      BY <2>2 DEF SweepStep, SweepStart, SweepCheck, SweepDelete, Delete, Purge
    <2>3. CASE \E u \in Uids, n \in Packages : ChangePackages(u, n)
      BY <2>3 DEF ChangePackages
    <2>4. CASE Tick \/ MainDies \/ DialogDies
      BY <2>4 DEF Tick, MainDies, DialogDies
    <2> QED BY <2>1, <2>2, <2>3, <2>4
  <1>2. \/ busy' = busy
        \/ MainDies
        \/ DialogDies
    BY DEF RevokeStep, RevokeDelete, RevokeCheck, SweepStep, SweepStart,
           SweepCheck, SweepDelete, ChangePackages, Tick
  <1>3. RowsBacked'
    BY <1>1 DEF IInv, RowsBacked, Backed
  <1>4. CASE busy' = busy
    BY <1>1, <1>3, <1>4 DEF IInv, ScreenBacked, FlagsBacked, DialogDecides,
                            Backed, Deciding
  <1>5. CASE MainDies
    <2>1. /\ busy'["screen"] = None /\ busy'["dialog"] = busy["dialog"]
          /\ list' = {} /\ up' = None
      BY <1>5 DEF MainDies, IInv, TypeOK, Processes
    <2> QED BY <1>3, <2>1 DEF IInv, ScreenBacked, FlagsBacked, DialogDecides
  <1>6. CASE DialogDies
    <2>1. /\ busy'["dialog"] = None /\ busy'["screen"] = busy["screen"]
          /\ list' = list /\ up' = up
      BY <1>6 DEF DialogDies, IInv, TypeOK, Processes
    <2> QED BY <1>1, <1>3, <2>1 DEF IInv, ScreenBacked, FlagsBacked,
                                    DialogDecides, Backed, Deciding
  <1> QED BY <1>2, <1>4, <1>5, <1>6

LEMMA IInvStep == IInv /\ [Next]_vars => IInv'
  <1> SUFFICES ASSUME IInv, [Next]_vars PROVE IInv'
    OBVIOUS
  <1>1. TypeOK'
    BY TypeStep DEF IInv
  <1>2. CASE UNCHANGED vars
    BY <1>1, <1>2 DEF vars, screen, history, IInv, RowsBacked, ScreenBacked,
                      FlagsBacked, DialogDecides, Backed, Deciding
  <1>3. CASE Next
    BY <1>1, <1>3, BackedDialog, BackedScreen, BackedRest DEF Next
  <1> QED BY <1>2, <1>3

LEMMA BackedLookup == IInv => GrantWasApproved
  <1> SUFFICES ASSUME IInv, NEW u \in Uids,
                      NEW c \in Commands \cup {AllCommands},
                      Lookup(u, c) = "allow"
               PROVE  \E a \in approved :
                        a.uid = u /\ (a.until = 0 \/ a.until > now)
    BY DEF GrantWasApproved
  <1>1. PICK r \in Matching(u, c) : r.policy # "deny"
    BY DEF Lookup
  <1>2. r \in rows /\ r.uid = u /\ InForce(r)
    BY DEF Matching
  <1>3. r.policy = "allow"
    BY <1>1, <1>2 DEF IInv, TypeOK, Policies
  <1> QED BY <1>2, <1>3 DEF IInv, RowsBacked, Backed, InForce

(* Whoever is allowed without being asked was approved by the user for a   *)
(* time that has not passed: no stale object of a screen, no sweep and no  *)
(* death of a process lengthens or widens an approval.                     *)
THEOREM ApprovalTheorem == Spec => []GrantWasApproved
  <1>1. Spec => []IInv
    BY InitIInv, IInvStep, PTL DEF Spec
  <1> QED BY <1>1, BackedLookup, PTL

-----------------------------------------------------------------------------
(* What a sweep owes.                                                      *)

(* Sweeper t still has row r before it.                                    *)
Owed(t, r) == r \in todo[t] \/ victim[t] = r

(* While the process lives, an orphan that is before a sweep leaves it by  *)
(* being deleted only, or by its package's return; a sweep that starts has *)
(* every row before it, and nothing but a start gives it more to do.       *)
OrphansSwept ==
  [][~MainDies =>
       \A t \in Sweepers :
         /\ \A r \in rows :
              /\ Owed(t, r) /\ Orphaned(r) =>
                   Owed(t, r)' \/ r \notin rows' \/ ~Orphaned(r)'
              /\ SweepStart(t) /\ r \in rows' => Owed(t, r)'
         /\ todo'[t] \subseteq todo[t] \/ SweepStart(t)]_vars

(* A row is among those that are deleted for it.                           *)
LEMMA DeletesItself ==
  ASSUME NEW db, NEW p
  PROVE  p \notin Delete(db, p)
  BY DEF Delete, Meant

LEMMA SweepOwes ==
  ASSUME TypeOK, NEW t \in Sweepers, NEW s \in Sweepers, SweepStep(s)
  PROVE  /\ \A r \in rows :
              /\ Owed(t, r) /\ Orphaned(r) =>
                   Owed(t, r)' \/ r \notin rows' \/ ~Orphaned(r)'
              /\ SweepStart(t) /\ r \in rows' => Owed(t, r)'
         /\ todo'[t] \subseteq todo[t] \/ SweepStart(t)
  <1>0. /\ todo \in [Sweepers -> SUBSET Policies]
        /\ victim \in [Sweepers -> Policies \cup {None}]
    BY DEF TypeOK
  <1>1. \A r \in rows : SweepStart(t) /\ r \in rows' => Owed(t, r)'
    BY <1>0 DEF SweepStart, Owed
  <1>2. CASE SweepStart(s)
    <2>1. /\ \A q \in Sweepers \ {s} : todo'[q] = todo[q]
          /\ UNCHANGED victim /\ todo[s] = {} /\ victim[s] = None
      BY <1>0, <1>2 DEF SweepStart, SweepIdle
    <2>2. \A r \in rows : Owed(t, r) => Owed(t, r)'
      <3>1. CASE t = s
        BY <2>1, <3>1 DEF Owed, TypeOK
      <3>2. CASE t # s
        BY <2>1, <3>2 DEF Owed
      <3> QED BY <3>1, <3>2
    <2>3. todo'[t] \subseteq todo[t] \/ SweepStart(t)
      BY <1>2, <2>1
    <2> QED BY <1>1, <2>2, <2>3
  <1>3. CASE SweepCheck(s)
    <2>1. PICK p \in todo[s] :
            /\ todo' = [todo EXCEPT ![s] = @ \ {p}]
            /\ victim' = [victim EXCEPT ![s] = IF Orphaned(p) THEN p ELSE None]
      BY <1>3 DEF SweepCheck
    <2>2. victim[s] = None
      BY <1>3 DEF SweepCheck
    <2>3. todo'[t] \subseteq todo[t]
      BY <1>0, <2>1
    <2>4. ASSUME NEW r \in rows, Owed(t, r), Orphaned(r)
          PROVE  Owed(t, r)'
      <3>1. CASE t = s
        <4>1. r \in todo[s]
          BY <2>2, <2>4, <3>1 DEF Owed, TypeOK
        <4> QED BY <1>0, <2>1, <2>4, <3>1, <4>1 DEF Owed
      <3>2. CASE t # s
        BY <1>0, <2>1, <2>4, <3>2 DEF Owed
      <3> QED BY <3>1, <3>2
    <2> QED BY <1>1, <2>3, <2>4
  <1>4. CASE SweepDelete(s)
    <2>1. /\ rows' = Delete(rows, victim[s]) /\ UNCHANGED todo
          /\ victim' = [victim EXCEPT ![s] = None]
      BY <1>4 DEF SweepDelete
    <2>2. ASSUME NEW r \in rows, Owed(t, r)
          PROVE  Owed(t, r)' \/ r \notin rows'
      <3>1. CASE t = s /\ victim[s] = r
        BY <2>1, <3>1, DeletesItself
      <3>2. CASE ~(t = s /\ victim[s] = r)
        BY <1>0, <2>1, <2>2, <3>2 DEF Owed
      <3> QED BY <3>1, <3>2
    <2> QED BY <1>1, <2>1, <2>2
  <1> QED BY <1>2, <1>3, <1>4 DEF SweepStep

(* A policy of a package that is gone is not passed over by the sweep that *)
(* has it on its list, whatever the screens, the dialogs, the other sweeps *)
(* and the threads that revoke write meanwhile: what OrphanRevoked needs   *)
(* of each sweep (the loop at PackageChangeReceiver.java:25).              *)
THEOREM SweepTheorem == Spec => OrphansSwept
  <1>1. TypeOK /\ [Next]_vars =>
          [~MainDies =>
             \A t \in Sweepers :
               /\ \A r \in rows :
                    /\ Owed(t, r) /\ Orphaned(r) =>
                         Owed(t, r)' \/ r \notin rows' \/ ~Orphaned(r)'
                    /\ SweepStart(t) /\ r \in rows' => Owed(t, r)'
               /\ todo'[t] \subseteq todo[t] \/ SweepStart(t)]_vars
    <2> SUFFICES ASSUME TypeOK, Next, ~MainDies, NEW t \in Sweepers
                 PROVE  /\ \A r \in rows :
                             /\ Owed(t, r) /\ Orphaned(r) =>
                                  Owed(t, r)' \/ r \notin rows' \/ ~Orphaned(r)'
                             /\ SweepStart(t) /\ r \in rows' => Owed(t, r)'
                        /\ todo'[t] \subseteq todo[t] \/ SweepStart(t)
      OBVIOUS
    <2>1. CASE \E s \in Sweepers : SweepStep(s)
      BY <2>1, SweepOwes
    <2>2. CASE ~\E s \in Sweepers : SweepStep(s)
      <3>1. UNCHANGED <<todo, victim>>
        BY <2>2 DEF Next, ScreenStep, Load, Recreate, ClosePolicy, ChangeFlags,
                    DeletePolicy, WriteOfScreen, ChangePermission, RevokeItem,
                    OpenPolicy, DialogStep, WriteOfDialog, Answer, RevokeStep,
                    RevokeDelete, RevokeCheck, ChangePackages, Tick, DialogDies,
                    sweep, screen
      <3>2. ~SweepStart(t)
        BY <2>2 DEF SweepStep
      <3> QED BY <3>1, <3>2 DEF Owed
    <2> QED BY <2>1, <2>2
  <1> QED BY <1>1, TypeCorrect, PTL DEF Spec, OrphansSwept
=============================================================================
