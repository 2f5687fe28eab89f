---------------------------- MODULE PolicyStore -----------------------------
(***************************************************************************)
(* The table uid_policy and everything that writes it: the answers of the  *)
(* request dialogs (process :superuser), the policy and log screens with   *)
(* the threads they start (the app's main process), and the threads of     *)
(* PackageChangeReceiver.  su reads the table whenever it likes (Lookup).  *)
(*                                                                         *)
(* Every statement on the database is atomic; what a thread holds in its   *)
(* hands between two of them (the policy objects a screen shows, the name  *)
(* of a package, a list to sweep) may be stale when it is used.            *)
(***************************************************************************)
EXTENDS Integers, FiniteSets

CONSTANTS Uids, Targets,    \* who may ask, and to become whom
          Packages,         \* names of packages
          Commands,         \* commands a row may be restricted to
          AllCommands,      \* the empty command: the row is for all of them
          Legacy,           \* the rows an earlier version may have left
          Sweepers,         \* threads of PackageChangeReceiver
          GracePeriod,      \* how long "for some minutes" is, in seconds
          MaxNow,           \* bound of the clock
          MaxAnswers,       \* bound of the answers to remember
          MaxPending,       \* bound of the broadcasts under way
          MaxRevocations,   \* bound of the revocations under way
          NoPackage,        \* the package_name of a uid without packages
          None

Keys == [uid : Uids, target : Targets, command : Commands \cup {AllCommands}]

Policies == [uid : Uids, target : Targets,
             command : Commands \cup {AllCommands},
             policy : {"allow", "deny"}, until : Nat,
             package : Packages \cup {NoPackage}]

ASSUME LegacyAssumption == Legacy \subseteq Policies

ASSUME BoundAssumption ==
  /\ GracePeriod \in Nat /\ MaxNow \in Nat
  /\ MaxAnswers \in Nat /\ MaxPending \in Nat /\ MaxRevocations \in Nat

Writes == [policy : Policies, decided : BOOLEAN]

ASSUME NoneAssumption == None \notin Policies /\ None \notin Writes

VARIABLES
  rows,        \* the table uid_policy
  now,         \* the clock, in seconds
  installed,   \* getPackagesForUid
  pending,     \* broadcasts of package changes not received yet
  list,        \* the policy objects PolicyFragment shows
  up,          \* the policy object LogFragment shows
  shared,      \* up is one of the objects of list, not an older one
  busy,        \* busy[p]: what process p is about to write
  revoking,    \* threads of PolicyFragment about to delete
  checking,    \* ... that have deleted and look what is left
  todo,        \* todo[t]: the policies sweeper t has still to look at
  victim,      \* victim[t]: the one it is about to delete
  answers,     \* answers given so far
  approved,    \* history: what the user approved, and for which package
  revoked      \* history: the keys the user revoked and not approved again

screen  == <<list, up, shared, revoking, checking>>
sweep   == <<todo, victim>>
history == <<answers, approved, revoked>>
vars    == <<rows, now, installed, pending, screen, busy, sweep, history>>

Key(r) == [uid |-> r.uid, target |-> r.target, command |-> r.command]
Approval(r) == [uid |-> r.uid, target |-> r.target, until |-> r.until,
                package |-> r.package]

Approvals == [uid : Uids, target : Targets, until : Nat,
              package : Packages \cup {NoPackage}]
Revocations == [policy : Policies, item : BOOLEAN]
Processes == {"dialog", "screen"}

(* Types, and the primary key of the table.                                *)
TypeOK ==
  /\ rows \subseteq Policies
  /\ \A r, q \in rows : Key(r) = Key(q) => r = q
  /\ now \in Nat
  /\ installed \in [Uids -> SUBSET Packages]
  /\ pending \in Nat
  /\ list \subseteq Policies
  /\ up \in Policies \cup {None}
  /\ shared \in BOOLEAN
  /\ busy \in [Processes -> Writes \cup {None}]
  /\ revoking \subseteq Revocations
  /\ checking \subseteq Revocations
  /\ todo \in [Sweepers -> SUBSET Policies]
  /\ victim \in [Sweepers -> Policies \cup {None}]
  /\ answers \in Nat
  /\ approved \subseteq Approvals
  /\ revoked \subseteq Keys

Init ==
  /\ \E old \in SUBSET Legacy :
       /\ \A r, q \in old : Key(r) = Key(q) => r = q
       /\ rows = old
       /\ approved = {Approval(r) : r \in {q \in old : q.policy = "allow"}}
  /\ now = 1
  /\ installed \in [Uids -> SUBSET Packages]
  /\ pending = 0
  /\ list = {} /\ up = None /\ shared = FALSE
  /\ busy = [p \in Processes |-> None]
  /\ revoking = {} /\ checking = {}
  /\ todo = [t \in Sweepers |-> {}] /\ victim = [t \in Sweepers |-> None]
  /\ answers = 0 /\ revoked = {}

-----------------------------------------------------------------------------
(* The statements of SuDatabaseHelper.                                     *)

(* setPolicy: the row replaces the one with its primary key.  The mutant   *)
(* inserts it beside, as it does for commands that are null in the table.  *)
ReplaceFaulty(db, p) == db \cup {p}

Replace(db, p) == {r \in db : Key(r) # Key(p)} \cup {p}

(* getPolicies: the clock it compares with is in milliseconds.             *)
Purge(db) == {r \in db : ~(r.until > 0 /\ r.until < 1000 * now)}

(* The rows delete and get mean by a policy.                               *)
Meant(db, p) ==
  {r \in db : /\ r.uid = p.uid /\ r.target = p.target
              /\ p.command # AllCommands => r.command = p.command}

(* The mutant compares the command as it is, which finds no null.          *)
DeleteFaulty(db, p) == db \ {r \in Meant(db, p) : p.command # AllCommands}

Delete(db, p) == db \ Meant(db, p)

(* getPackageInfo: the first of the uid's packages, whichever that is; the *)
(* fields stay when there is none.                                         *)
PackageInfo(p) ==
  IF installed[p.uid] = {} THEN {p}
  ELSE {[p EXCEPT !.package = n] : n \in installed[p.uid]}

(* What database_check of su makes of the rows.                            *)
InForceFaulty(r) == r.until >= 0     \* mutant: the expiry is not looked at

InForce(r) == r.until = 0 \/ r.until > now
Matching(u, c) == {r \in rows : /\ r.uid = u /\ InForce(r)
                                /\ r.command \in {AllCommands, c}}
Lookup(u, c) ==
  IF \E r \in Matching(u, c) : r.policy = "deny" THEN "deny"
  ELSE IF Matching(u, c) # {} THEN "allow"
  ELSE "interactive"

-----------------------------------------------------------------------------
(* A process writes a policy: it looks the package up, then replaces the   *)
(* row.  decided: the write is the user's decision about the permission,   *)
(* and not a change of its flags.                                          *)
SetPolicy(proc, p, decided) ==
  /\ busy[proc] = None
  /\ \E q \in PackageInfo(p) :
       busy' = [busy EXCEPT ![proc] = [policy |-> q, decided |-> decided]]

(* PolicyFragment.load makes new objects.                                  *)
Reload(db) ==
  /\ rows' = Purge(db)
  /\ list' = rows'
  /\ shared' = FALSE
  /\ revoking' = {[x EXCEPT !.item = FALSE] : x \in revoking}
  /\ checking' = {[x EXCEPT !.item = FALSE] : x \in checking}

Record(w) ==
  IF w.decided /\ w.policy.policy = "allow"
  THEN /\ approved' = approved \cup {Approval(w.policy)}
       /\ revoked' = revoked \ {Key(w.policy)}
  ELSE UNCHANGED <<approved, revoked>>

WriteOfDialog ==
  /\ busy["dialog"] # None
  /\ rows' = Replace(rows, busy["dialog"].policy)
  /\ Record(busy["dialog"])
  /\ busy' = [busy EXCEPT !["dialog"] = None]
  /\ UNCHANGED <<now, installed, pending, screen, sweep, answers>>

(* After a change of the permission the list is loaded again.              *)
WriteOfScreen ==
  /\ busy["screen"] # None
  /\ LET w == busy["screen"] IN
       /\ IF w.decided
          THEN Reload(Replace(rows, w.policy))
          ELSE /\ rows' = Replace(rows, w.policy)
               /\ UNCHANGED <<list, shared, revoking, checking>>
       /\ Record(w)
  /\ busy' = [busy EXCEPT !["screen"] = None]
  /\ UNCHANGED <<now, installed, pending, up, sweep, answers>>

(* The user answers a request and has the answer remembered.               *)
Answer(u, t, v) ==
  /\ answers < MaxAnswers
  /\ \E e \in {0, now + GracePeriod} :
       SetPolicy("dialog",
                 [uid |-> u, target |-> t, command |-> AllCommands,
                  policy |-> v, until |-> e, package |-> NoPackage],
                 TRUE)
  /\ answers' = answers + 1
  /\ UNCHANGED <<rows, now, installed, pending, screen, sweep, approved,
                 revoked>>

-----------------------------------------------------------------------------
(* The screens: callbacks of one UI thread, which is busy while it writes. *)
UiIdle == busy["screen"] = None

Load ==
  /\ UiIdle
  /\ Reload(rows)
  /\ UNCHANGED <<now, installed, pending, up, busy, sweep, history>>

(* The item of the list is changed, and up with it if it is the object.    *)
ChangePermission(o) ==
  /\ UiIdle
  /\ LET v == IF o.policy = "allow" THEN "deny" ELSE "allow" IN
       SetPolicy("screen", [o EXCEPT !.policy = v], TRUE)
  /\ LET n == busy'["screen"].policy IN
       /\ list' = (list \ {o}) \cup {n}
       /\ up' = IF shared /\ up = o THEN n ELSE up
  /\ UNCHANGED <<rows, now, installed, pending, shared, revoking, checking,
                 sweep, history>>

RevokeItem(o) ==
  /\ UiIdle
  /\ Cardinality(revoking) + Cardinality(checking) < MaxRevocations
  /\ revoking' = revoking \cup {[policy |-> o, item |-> TRUE]}
  /\ UNCHANGED <<rows, now, installed, pending, list, up, shared, checking,
                 busy, sweep, history>>

(* The thread of RevokeItem: delete, then get; a policy that is gone is    *)
(* taken from the list by the message sent then, if the item is still      *)
(* there, and for one that is not the user is told so.                     *)
RevokeDelete(x) ==
  /\ rows' = Delete(rows, x.policy)
  /\ revoked' = revoked \cup {Key(x.policy)}
  /\ revoking' = revoking \ {x}
  /\ checking' = checking \cup {x}
  /\ UNCHANGED <<now, installed, pending, list, up, shared, busy, sweep,
                 answers, approved>>

RevokeCheck(x) ==
  /\ checking' = checking \ {x}
  /\ list' = IF x.item /\ Meant(rows, x.policy) = {}
             THEN {o \in list : Key(o) # Key(x.policy)} ELSE list
  /\ UNCHANGED <<rows, now, installed, pending, up, shared, revoking, busy,
                 sweep, history>>

(* LogFragment is shown for an item, or made again from the key of the     *)
(* item, and closed.                                                       *)
OpenPolicy(o) ==
  /\ UiIdle
  /\ up' = o /\ shared' = TRUE
  /\ UNCHANGED <<rows, now, installed, pending, list, revoking, checking,
                 busy, sweep, history>>

Recreate ==
  /\ UiIdle /\ up # None
  /\ IF Meant(rows, up) = {} THEN up' = None ELSE up' \in Meant(rows, up)
  /\ shared' = FALSE
  /\ UNCHANGED <<rows, now, installed, pending, list, revoking, checking,
                 busy, sweep, history>>

ClosePolicy ==
  /\ UiIdle /\ up # None
  /\ up' = None /\ shared' = FALSE
  /\ UNCHANGED <<rows, now, installed, pending, list, revoking, checking,
                 busy, sweep, history>>

(* A switch of LogFragment (logging, notification) writes the whole object *)
(* back.                                                                   *)
ChangeFlags ==
  /\ UiIdle /\ up # None
  /\ SetPolicy("screen", up, FALSE)
  /\ up' = busy'["screen"].policy
  /\ list' = IF shared THEN (list \ {up}) \cup {up'} ELSE list
  /\ UNCHANGED <<rows, now, installed, pending, shared, revoking, checking,
                 sweep, history>>

(* Its delete button; the screen stays as it is (onDelete does nothing).   *)
DeletePolicy ==
  /\ UiIdle /\ up # None
  /\ rows' = Delete(rows, up)
  /\ revoked' = revoked \cup {Key(up)}
  /\ UNCHANGED <<now, installed, pending, screen, busy, sweep, answers,
                 approved>>

-----------------------------------------------------------------------------
(* Packages come and go; each change is broadcast, and PackageChangeReceiver *)
(* sweeps in a thread of its own.                                          *)
ChangePackages(u, n) ==
  /\ pending < MaxPending
  /\ installed' = [installed EXCEPT ![u] = IF n \in @ THEN @ \ {n}
                                                      ELSE @ \cup {n}]
  /\ pending' = pending + 1
  /\ UNCHANGED <<rows, now, screen, busy, sweep, history>>

SweepIdle(t) == todo[t] = {} /\ victim[t] = None

SweepStart(t) ==
  /\ pending > 0 /\ SweepIdle(t)
  /\ pending' = pending - 1
  /\ rows' = Purge(rows)
  /\ todo' = [todo EXCEPT ![t] = rows']
  /\ UNCHANGED <<now, installed, screen, busy, victim, history>>

Orphaned(p) == p.package # NoPackage /\ p.package \notin installed[p.uid]

SweepCheck(t) ==
  /\ victim[t] = None
  /\ \E p \in todo[t] :
       /\ todo' = [todo EXCEPT ![t] = @ \ {p}]
       /\ victim' = [victim EXCEPT ![t] = IF Orphaned(p) THEN p ELSE None]
  /\ UNCHANGED <<rows, now, installed, pending, screen, busy, history>>

SweepDelete(t) ==
  /\ victim[t] # None
  /\ rows' = Delete(rows, victim[t])
  /\ victim' = [victim EXCEPT ![t] = None]
  /\ UNCHANGED <<now, installed, pending, screen, busy, todo, history>>

-----------------------------------------------------------------------------
Tick ==
  /\ now < MaxNow
  /\ now' = now + 1
  /\ UNCHANGED <<rows, installed, pending, screen, busy, sweep, history>>

(* The main process dies with its screens and threads, or :superuser with  *)
(* what it was about to write.                                             *)
MainDies ==
  /\ list' = {} /\ up' = None /\ shared' = FALSE
  /\ revoking' = {} /\ checking' = {}
  /\ todo' = [t \in Sweepers |-> {}] /\ victim' = [t \in Sweepers |-> None]
  /\ busy' = [busy EXCEPT !["screen"] = None]
  /\ UNCHANGED <<rows, now, installed, pending, history>>

DialogDies ==
  /\ busy' = [busy EXCEPT !["dialog"] = None]
  /\ UNCHANGED <<rows, now, installed, pending, screen, sweep, history>>

ScreenStep ==
  \/ Load \/ Recreate \/ ClosePolicy \/ ChangeFlags \/ DeletePolicy
  \/ WriteOfScreen
  \/ \E o \in list : ChangePermission(o) \/ RevokeItem(o) \/ OpenPolicy(o)

DialogStep ==
  \/ WriteOfDialog
  \/ \E u \in Uids, t \in Targets, v \in {"allow", "deny"} : Answer(u, t, v)

RevokeStep == \/ \E x \in revoking : RevokeDelete(x)
              \/ \E x \in checking : RevokeCheck(x)

SweepStep(t) == SweepStart(t) \/ SweepCheck(t) \/ SweepDelete(t)

Next ==
  \/ ScreenStep \/ DialogStep \/ RevokeStep
  \/ \E t \in Sweepers : SweepStep(t)
  \/ \E u \in Uids, n \in Packages : ChangePackages(u, n)
  \/ Tick \/ MainDies \/ DialogDies

Spec == Init /\ [][Next]_vars

(* A thread of the receiver runs until it is done; a broadcast is          *)
(* delivered.                                                              *)
FairSpec == Spec /\ \A t \in Sweepers : WF_vars(SweepStep(t))

-----------------------------------------------------------------------------
(* Whoever is allowed without being asked was approved by the user for a   *)
(* time that has not passed, however stale the objects that the screens    *)
(* write back over the row (LogFragment.java:169, PolicyFragment.java:171).*)
GrantWasApproved ==
  \A u \in Uids, c \in Commands \cup {AllCommands} :
    Lookup(u, c) = "allow" =>
      \E a \in approved : a.uid = u /\ (a.until = 0 \/ a.until > now)

(* A policy of a package that is gone does not stay for good: as long as   *)
(* packages change and the process is not killed for ever, a sweep of      *)
(* PackageChangeReceiver removes it, also when a screen or a dialog has    *)
(* written it back after an earlier sweep.                                 *)
Orphan(k, n) == \E r \in rows : Key(r) = k /\ r.package = n /\ Orphaned(r)

OrphanRevoked ==
  (<>[][~MainDies]_vars /\ []<>(pending > 0)) =>
    \A k \in Keys, n \in Packages : Orphan(k, n) ~> ~Orphan(k, n)

-----------------------------------------------------------------------------
(* What the app says and the code does not keep.                           *)

(* "Remember choice for %s minutes": showing the list of policies forgets  *)
(* no policy that is in force (SuDatabaseHelper.java:151).                 *)
ListingKeepsPolicies ==
  [][Load => \A r \in rows : InForce(r) => r \in rows']_vars

(* "Revoke Superuser permission": a revoked approval is not there again    *)
(* unless the user approves again (LogFragment.java:169).                  *)
RevokedStays ==
  \A r \in rows : r.policy = "allow" => Key(r) \notin revoked
=============================================================================
