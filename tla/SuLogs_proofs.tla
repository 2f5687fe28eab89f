---------------------------- MODULE SuLogs_proofs ----------------------------
(***************************************************************************)
(* The two databases for any rows, entries, decisions and older versions,  *)
(* and for any number of deaths, failing writes and changes.               *)
(***************************************************************************)
EXTENDS SuLogs, TLAPS

-----------------------------------------------------------------------------
(* The rows.                                                               *)

(* Of the rows of one command, each has a rowid of its own.                *)
Rowids(rs) == \A r, q \in rs : r.command = q.command /\ r.rowid = q.rowid => r = q

Keyed(rs) == \A r, q \in rs : r.command = q.command /\ ~r.null => r = q

LEMMA RowFields ==
  ASSUME NEW r \in Rows
  PROVE  /\ r.command \in Scopes /\ r.null \in BOOLEAN
         /\ r.policy \in {"allow", "deny"} /\ r.timed \in BOOLEAN
         /\ r.flags \in SUBSET Names /\ r.rowid \in Nat
BY DEF Rows

(* A row whose switches, or whose key, are written anew.                   *)
LEMMA RowWithFlags ==
  ASSUME NEW r \in Rows, NEW f \in SUBSET Names
  PROVE  LET q == [r EXCEPT !.flags = f] IN
           /\ q \in Rows /\ q.flags = f
           /\ q.command = r.command /\ q.null = r.null /\ q.policy = r.policy
           /\ q.timed = r.timed /\ q.rowid = r.rowid
BY DEF Rows

LEMMA RowKeyed ==
  ASSUME NEW r \in Rows
  PROVE  LET q == [r EXCEPT !.null = FALSE, !.rowid = 0] IN
           /\ q \in Rows /\ ~q.null /\ q.rowid = 0
           /\ q.command = r.command /\ q.policy = r.policy
           /\ q.timed = r.timed /\ q.flags = r.flags
BY DEF Rows

(* A row that is written anew is of the command it was of.                 *)
LEMMA RebuiltCommands ==
  ASSUME NEW rs \in SUBSET Rows
  PROVE  \A w \in Rebuilt(rs) : \E t \in rs : w.command = t.command
<1> DEFINE Written(r) == [r EXCEPT !.null = FALSE, !.rowid = 0]
           last == {q \in rs : \A o \in Of(rs, q.command) : o.rowid <= q.rowid}
<1>1. Rebuilt(rs) = {Written(r) : r \in last} /\ last \subseteq rs
  BY DEF Rebuilt
<1>2. \A r \in rs : Written(r).command = r.command
  BY RowKeyed
<1> HIDE DEF Written, last
<1> QED
  BY <1>1, <1>2

(* Written anew, one row is left of each command: the last.                *)
LEMMA RebuiltRows ==
  ASSUME NEW rs \in SUBSET Rows, Rowids(rs)
  PROVE  /\ Rebuilt(rs) \in SUBSET Rows
         /\ \A r \in Rebuilt(rs) : ~r.null
         /\ \A r, q \in Rebuilt(rs) : r.command = q.command => r = q
<1> DEFINE Written(r) == [r EXCEPT !.null = FALSE, !.rowid = 0]
           last == {q \in rs : \A o \in Of(rs, q.command) : o.rowid <= q.rowid}
<1>1. Rebuilt(rs) = {Written(r) : r \in last}
  BY DEF Rebuilt
<1>2. \A r \in last : Written(r) \in Rows /\ ~Written(r).null
                      /\ Written(r).command = r.command
  BY RowKeyed
<1>3. ASSUME NEW a \in last, NEW b \in last, a.command = b.command
      PROVE  a = b
  <2>1. a \in Of(rs, b.command) /\ b \in Of(rs, a.command)
    BY <1>3 DEF Of
  <2>2. a.rowid <= b.rowid /\ b.rowid <= a.rowid
    BY <2>1
  <2>3. a.rowid = b.rowid
    BY <2>2, RowFields
  <2> QED
    BY <1>3, <2>3 DEF Rowids
<1> HIDE DEF Written, last
<1>4. \A r, q \in Rebuilt(rs) : r.command = q.command => r = q
  <2> SUFFICES ASSUME NEW r \in Rebuilt(rs), NEW q \in Rebuilt(rs),
                      r.command = q.command
               PROVE  r = q
    OBVIOUS
  <2>1. PICK a \in last, b \in last : r = Written(a) /\ q = Written(b)
    BY <1>1
  <2>2. a = b
    BY <1>2, <1>3, <2>1
  <2> QED
    BY <2>1, <2>2
<1> QED
  BY <1>1, <1>2, <1>4

(* Each command of a table has a last row.                                 *)
LEMMA LastIsOne ==
  ASSUME NEW rs \in LegacyRows, NEW c \in Scopes, Of(rs, c) # {}
  PROVE  /\ Last(Of(rs, c)) \in Of(rs, c)
         /\ \A q \in Of(rs, c) : q.rowid <= Last(Of(rs, c)).rowid
<1>1. c \in {r.command : r \in rs}
  BY DEF Of
<1>2. \E last \in rs : last.command = c
                     /\ \A q \in rs : q.command = c => q.rowid <= last.rowid
  BY <1>1, RowsAssumption
<1>3. \E last \in Of(rs, c) : \A q \in Of(rs, c) : q.rowid <= last.rowid
  BY <1>2 DEF Of
<1> QED
  BY <1>3 DEF Last

(* The rows onUpgrade reads: with notification, and without the timed.     *)
WithTell(rs) == {[r EXCEPT !.flags = @ \cup {"tell"}] : r \in rs}

LEMMA TellRows ==
  ASSUME NEW rs \in SUBSET Rows, Rowids(rs)
  PROVE  WithTell(rs) \in SUBSET Rows /\ Rowids(WithTell(rs))
<1> DEFINE Told(r) == [r EXCEPT !.flags = @ \cup {"tell"}]
<1>1. WithTell(rs) = {Told(r) : r \in rs}
  BY DEF WithTell
<1>2. ASSUME NEW r \in rs
      PROVE  Told(r) \in Rows /\ Told(r).command = r.command
             /\ Told(r).rowid = r.rowid
  <2>1. r.flags \cup {"tell"} \in SUBSET Names
    BY RowFields DEF Names
  <2>2. Told(r) = [r EXCEPT !.flags = r.flags \cup {"tell"}]
    BY DEF Rows
  <2> HIDE DEF Told
  <2> QED
    BY <2>1, <2>2, RowWithFlags
<1> HIDE DEF Told
<1>3. Rowids(WithTell(rs))
  BY <1>1, <1>2 DEF Rowids
<1> QED
  BY <1>1, <1>2, <1>3

-----------------------------------------------------------------------------
(* Type correctness.                                                       *)

USE DEF superuser, broadcasts, bounds, history, Processes, Hands

DbTypes == db \in Databases /\ Keyed(db.rows) /\ Rowids(db.rows)

StoreTypes == logs \in [Entries -> Nat] /\ settings \in [Names -> Values]

ProcessTypes ==
  /\ pc \in [Processes -> {"dead", "opening", "copying", "upgrading", "up"}]
  /\ seen \in [Processes -> 0..Current]

BroadcastTypes ==
  /\ hand = None \/ hand \in Hands
  /\ status \in [Decisions -> {"none", "sent", "received", "handled", "lost"}]

HistoryTypes ==
  /\ old \subseteq Entries
  /\ kills \in Nat /\ faults \in Nat /\ changes \in Nat /\ torn \in Nat
  /\ failed \subseteq Entries \cup Names \cup Scopes
  /\ removed \subseteq Entries /\ chosen \in [Names -> Values]
  /\ newest \in [Scopes -> Rows \cup {None}]
  /\ done \in [Decisions -> SUBSET Names]

WatchTypes ==
  on \in [Decisions -> SUBSET Names] /\ off \in [Decisions -> SUBSET Names]

(* One process upgrades at a time; a copy that no commit has followed is   *)
(* counted.                                                                *)
Exclusive ==
  \A p, q \in Processes :
    pc[p] \in {"copying", "upgrading"} /\ pc[q] \in {"copying", "upgrading"}
      => p = q

Counted ==
  \A p \in Processes : pc[p] = "upgrading" /\ seen[p] \in 1..3 => torn > 0

StateTypes ==
  /\ DbTypes /\ StoreTypes /\ ProcessTypes /\ BroadcastTypes /\ HistoryTypes
  /\ Exclusive /\ Counted

TypeInv == StateTypes /\ WatchTypes

LEMMA TypesOfInv == TypeInv => TypeOK
BY DEF TypeInv, StateTypes, DbTypes, Keyed, StoreTypes, ProcessTypes,
       BroadcastTypes, HistoryTypes, WatchTypes, TypeOK

LEMMA EntryKinds ==
  /\ LegacyLogs \subseteq Entries /\ Decisions \subseteq Entries
  /\ LegacyLogs \cap Decisions = {}
  /\ Names \cap Entries = {} /\ Scopes \cap Entries = {} /\ Names \cap Scopes = {}
  /\ AllCommands \in Scopes /\ \A d \in Decisions : CommandOf[d] \in Scopes
BY NamesAssumption DEF Entries, Scopes

LEMMA InitTypes == Init => TypeInv
<1> SUFFICES ASSUME Init PROVE TypeInv
  OBVIOUS
<1>1. PICK v \in Versions, rs \in LegacyRows, choice \in LegacySettings :
        /\ v = 0 => rs = {}
        /\ v < 3 => choice = NoSettings
        /\ db = [version |-> v,
                 tables |-> IF v = 0 \/ v > 3 THEN {}
                            ELSE IF v = 3 THEN {"log", "settings"} ELSE {"log"},
                 notification |-> v = 5,
                 logs |-> IF v \in 1..3 THEN LegacyLogs ELSE {},
                 settings |-> IF v = 3 THEN choice ELSE NoSettings,
                 rows |-> IF v = 5 THEN rs
                          ELSE {[r EXCEPT !.flags = @ \ {"tell"}] : r \in rs}]
        /\ logs = [e \in Entries |->
                     IF v > 3 /\ e \in LegacyLogs THEN 1 ELSE 0]
        /\ settings = IF v > 3 THEN choice ELSE NoSettings
        /\ removed = IF v = 0 THEN LegacyLogs ELSE {}
        /\ chosen = choice
        /\ newest = [c \in Scopes |->
                       IF Of(rs, c) = {} THEN None
                       ELSE [Last(Of(rs, c)) EXCEPT !.flags =
                               IF v = 5 THEN @ ELSE @ \cup {"tell"}]]
  BY DEF Init
<1>2. v \in 0..5 /\ choice \in [Names -> Values] /\ NoSettings \in [Names -> Values]
  BY BoundAssumption, SettingsAssumption
<1>3. /\ rs \in SUBSET Rows /\ Keyed(rs)
      /\ \A r, q \in rs : r.rowid = q.rowid => r = q
  BY RowsAssumption DEF Keyed
<1>4. DbTypes
  <2> DEFINE Untold(r) == [r EXCEPT !.flags = @ \ {"tell"}]
  <2>1. ASSUME NEW r \in rs
        PROVE  /\ Untold(r) \in Rows /\ Untold(r).command = r.command
               /\ Untold(r).rowid = r.rowid /\ Untold(r).null = r.null
    <3>1. r.flags \ {"tell"} \in SUBSET Names /\ r \in Rows
      BY <1>3, RowFields
    <3>2. Untold(r) = [r EXCEPT !.flags = r.flags \ {"tell"}]
      BY <3>1 DEF Rows
    <3> HIDE DEF Untold
    <3> QED
      BY <3>1, <3>2, RowWithFlags
  <2>2. db.rows = IF v = 5 THEN rs ELSE {Untold(r) : r \in rs}
    BY <1>1
  <2> HIDE DEF Untold
  <2>3. db.rows \in SUBSET Rows
    BY <1>3, <2>1, <2>2
  <2>4. Keyed(db.rows) /\ Rowids(db.rows)
    <3>1. CASE v = 5
      BY <1>3, <2>2, <3>1 DEF Keyed, Rowids
    <3>2. CASE v # 5
      BY <1>3, <2>1, <2>2, <3>2 DEF Keyed, Rowids
    <3> QED
      BY <3>1, <3>2
  <2>5. db \in Databases
    <3> DEFINE tables == IF v = 0 \/ v > 3 THEN {}
                         ELSE IF v = 3 THEN {"log", "settings"} ELSE {"log"}
               entries == IF v \in 1..3 THEN LegacyLogs ELSE {}
               given == IF v = 3 THEN choice ELSE NoSettings
               rows == db.rows
    <3>1. db = [version |-> v, tables |-> tables, notification |-> v = 5,
                logs |-> entries, settings |-> given, rows |-> rows]
      BY <1>1
    <3>2. /\ v \in 0..Current /\ tables \in SUBSET {"log", "settings"}
          /\ (v = 5) \in BOOLEAN /\ entries \in SUBSET LegacyLogs
          /\ given \in [Names -> Values] /\ rows \in SUBSET Rows
      BY <1>2, <2>3 DEF Current
    <3> HIDE DEF tables, entries, given, rows
    <3> QED
      BY <3>1, <3>2 DEF Databases
  <2> QED
    BY <2>4, <2>5 DEF DbTypes
<1>5. StoreTypes
  BY <1>1, <1>2 DEF StoreTypes
<1>6. ProcessTypes /\ BroadcastTypes /\ Exclusive /\ Counted
  BY DEF Init, ProcessTypes, BroadcastTypes, Exclusive, Counted, Current
<1>7. newest \in [Scopes -> Rows \cup {None}]
  <2> SUFFICES ASSUME NEW c \in Scopes, Of(rs, c) # {}
               PROVE  [Last(Of(rs, c)) EXCEPT !.flags =
                         IF v = 5 THEN @ ELSE @ \cup {"tell"}] \in Rows
    BY <1>1
  <2>1. Last(Of(rs, c)) \in Of(rs, c)
    BY LastIsOne, <1>3 DEF Of
  <2>2. Last(Of(rs, c)) \in Rows
    BY <1>3, <2>1 DEF Of
  <2> QED
    BY <2>2, RowFields DEF Rows, Names
<1>8. HistoryTypes
  BY <1>1, <1>2, <1>7, EntryKinds DEF Init, HistoryTypes
<1>9. WatchTypes
  BY DEF Init, WatchTypes
<1> QED
  BY <1>4, <1>5, <1>6, <1>8, <1>9 DEF TypeInv, StateTypes

LEMMA EndsTypes ==
  ASSUME StateTypes, NEW p \in Processes, Ends(p)
  PROVE  ProcessTypes' /\ BroadcastTypes' /\ pc' = [pc EXCEPT ![p] = "dead"]
<1>1. ProcessTypes' /\ pc' = [pc EXCEPT ![p] = "dead"]
  BY DEF Ends, StateTypes, ProcessTypes, Current
<1>2. CASE p = "main"
  <2>1. hand' = None
    BY <1>2 DEF Ends
  <2>2. status' \in [Decisions -> {"none", "sent", "received", "handled", "lost"}]
    BY <1>2 DEF Ends, StateTypes, BroadcastTypes
  <2> QED
    BY <1>1, <2>1, <2>2 DEF BroadcastTypes
<1>3. CASE p # "main"
  BY <1>1, <1>3 DEF Ends, StateTypes, BroadcastTypes
<1> QED
  BY <1>2, <1>3

LEMMA WritesTypes ==
  ASSUME StateTypes, NEW written,
         NEW missed \in SUBSET (Entries \cup Names \cup Scopes),
         Writes(written, missed)
  PROVE  faults' \in Nat /\ failed' \subseteq Entries \cup Names \cup Scopes
BY DEF Writes, StateTypes, HistoryTypes

(* One process changes its place, and the counter is as it was.            *)
LEMMA PlaceTypes ==
  ASSUME StateTypes, NEW p \in Processes,
         \A q \in Processes \ {p} : pc'[q] = pc[q] /\ seen'[q] = seen[q],
         pc'[p] \in {"copying", "upgrading"} =>
           \A q \in Processes \ {p} : pc[q] \notin {"copying", "upgrading"},
         pc'[p] = "upgrading" => seen'[p] \notin 1..3,
         torn' = torn
  PROVE  Exclusive' /\ Counted'
BY DEF StateTypes, Exclusive, Counted

LEMMA OpenTypes ==
  ASSUME StateTypes, NEW p \in Processes, Open(p)
  PROVE  StateTypes'
<1>1. ProcessTypes'
  BY DEF Open, StateTypes, ProcessTypes, DbTypes, Databases
<1>2. /\ \A q \in Processes \ {p} : pc'[q] = pc[q] /\ seen'[q] = seen[q]
      /\ pc'[p] \in {"opening", "up"} /\ torn' = torn
  BY DEF Open, StateTypes, ProcessTypes
<1>3. Exclusive' /\ Counted'
  BY <1>2, PlaceTypes
<1>4. UNCHANGED <<db, superuser, broadcasts, old, bounds, history>>
  BY DEF Open
<1> QED
  BY <1>1, <1>3, <1>4 DEF StateTypes, DbTypes, StoreTypes, BroadcastTypes,
                          HistoryTypes

LEMMA BeginTypes ==
  ASSUME StateTypes, NEW p \in Processes, Begin(p)
  PROVE  StateTypes'
<1>1. ProcessTypes'
  BY DEF Begin, StateTypes, ProcessTypes
<1>2. /\ \A q \in Processes \ {p} : pc'[q] = pc[q] /\ seen'[q] = seen[q]
      /\ pc'[p] = "upgrading" => seen'[p] \notin 1..3
      /\ torn' = torn
  BY DEF Begin, StateTypes, ProcessTypes
<1>3. \A q \in Processes \ {p} : pc[q] \notin {"copying", "upgrading"}
  BY DEF Begin, Locked
<1>4. Exclusive' /\ Counted'
  BY <1>2, <1>3, PlaceTypes
<1>5. UNCHANGED <<db, superuser, broadcasts, old, bounds, history>>
  BY DEF Begin
<1> QED
  BY <1>1, <1>4, <1>5 DEF StateTypes, DbTypes, StoreTypes, BroadcastTypes,
                          HistoryTypes

LEMMA EndTypes ==
  ASSUME StateTypes, NEW p \in Processes, Throws(p) \/ Kill(p)
  PROVE  StateTypes'
<1>1. Ends(p)
  BY DEF Throws, Kill
<1>2. ProcessTypes' /\ BroadcastTypes' /\ pc' = [pc EXCEPT ![p] = "dead"]
  BY <1>1, EndsTypes
<1>3. /\ \A q \in Processes \ {p} : pc'[q] = pc[q] /\ seen'[q] = seen[q]
      /\ pc'[p] = "dead" /\ torn' = torn
  BY <1>1 DEF Ends, Throws, Kill, StateTypes, ProcessTypes
<1>4. Exclusive' /\ Counted'
  BY <1>3, PlaceTypes
<1>5. UNCHANGED <<db, superuser, old, faults, changes, history>> /\ kills' \in Nat
  BY DEF Throws, Kill, StateTypes, HistoryTypes
<1> QED
  BY <1>2, <1>4, <1>5 DEF StateTypes, DbTypes, StoreTypes, HistoryTypes

LEMMA CopyTypes ==
  ASSUME StateTypes, NEW p \in Processes, Copy(p)
  PROVE  StateTypes'
<1> DEFINE given == {n \in Names : db.settings[n] # Unset}
           all == db.logs \cup given
<1>1. PICK written \in SUBSET all :
        /\ Writes(written, all \ written)
        /\ logs' = [e \in Entries |->
                      logs[e] + (IF e \in db.logs \cap written THEN 1 ELSE 0)]
        /\ settings' = [n \in Names |-> IF n \in given \cap written
                                        THEN db.settings[n] ELSE settings[n]]
  BY DEF Copy
<1>2. /\ db.logs \subseteq Entries /\ db.settings \in [Names -> Values]
      /\ logs \in [Entries -> Nat] /\ settings \in [Names -> Values]
  BY EntryKinds DEF StateTypes, DbTypes, Databases, StoreTypes
<1>3. all \ written \in SUBSET (Entries \cup Names \cup Scopes)
  BY <1>2
<1>4. faults' \in Nat /\ failed' \subseteq Entries \cup Names \cup Scopes
  BY <1>1, <1>3, WritesTypes
<1>5. StoreTypes'
  <2>1. settings' \in [Names -> Values]
    BY <1>1, <1>2
  <2>2. logs' \in [Entries -> Nat]
    BY <1>1, <1>2
  <2> QED
    BY <2>1, <2>2 DEF StoreTypes
<1>6. /\ pc[p] = "copying" /\ pc' = [pc EXCEPT ![p] = "upgrading"]
      /\ torn' = torn + 1
      /\ UNCHANGED <<db, seen, broadcasts, old, kills, changes, removed, chosen,
                     newest, done>>
  BY DEF Copy
<1>7. ProcessTypes' /\ HistoryTypes'
  <2>1. ProcessTypes'
    BY <1>6 DEF StateTypes, ProcessTypes
  <2>2. torn' \in Nat
    BY <1>6 DEF StateTypes, HistoryTypes
  <2> QED
    BY <1>4, <1>6, <2>1, <2>2 DEF StateTypes, HistoryTypes
<1>8. Exclusive' /\ Counted'
  <2>1. torn' > 0
    BY <1>6 DEF StateTypes, HistoryTypes
  <2> QED
    BY <1>6, <2>1 DEF StateTypes, Exclusive, Counted, ProcessTypes
<1> QED
  BY <1>5, <1>6, <1>7, <1>8 DEF StateTypes, DbTypes, BroadcastTypes

LEMMA CommitTypes ==
  ASSUME StateTypes, NEW p \in Processes, Commit(p)
  PROVE  StateTypes'
<1> DEFINE rs == IF seen[p] = 5 THEN db.rows ELSE WithTell(db.rows)
           policies == {r \in rs : ~r.timed}
<1>1. PICK written \in SUBSET policies :
        /\ Writes({}, {r.command : r \in policies \ written})
        /\ db' = [version |-> Current, tables |-> {},
                  notification |-> TRUE, logs |-> {},
                  settings |-> NoSettings, rows |-> Rebuilt(written)]
  BY DEF Commit, WithTell
<1>2. db.rows \in SUBSET Rows /\ Rowids(db.rows)
  BY DEF StateTypes, DbTypes, Databases
<1>3. rs \in SUBSET Rows /\ Rowids(rs)
  BY <1>2, TellRows
<1>4. written \in SUBSET Rows /\ Rowids(written) /\ policies \in SUBSET Rows
  BY <1>3 DEF Rowids
<1> HIDE DEF rs
<1>5. DbTypes'
  <2>1. /\ Rebuilt(written) \in SUBSET Rows
        /\ \A r, q \in Rebuilt(written) : r.command = q.command => r = q
    BY <1>4, RebuiltRows
  <2>2. NoSettings \in [Names -> Values]
    BY SettingsAssumption
  <2>3. db' \in Databases /\ db'.rows = Rebuilt(written)
    BY <1>1, <2>1, <2>2 DEF Databases, Current
  <2> QED
    BY <2>1, <2>3 DEF DbTypes, Keyed, Rowids
<1>6. faults' \in Nat /\ failed' \subseteq Entries \cup Names \cup Scopes
  <2>1. {r.command : r \in policies \ written}
          \in SUBSET (Entries \cup Names \cup Scopes)
    BY <1>4, RowFields
  <2> QED
    BY <1>1, <2>1, WritesTypes
<1>7. /\ pc[p] = "upgrading"
      /\ pc' = [pc EXCEPT ![p] = "up"] /\ seen' = [seen EXCEPT ![p] = 0]
      /\ torn' = IF seen[p] \in 1..3 THEN torn - 1 ELSE torn
      /\ UNCHANGED <<superuser, broadcasts, old, kills, changes, removed,
                     chosen, newest, done>>
  BY DEF Commit
<1>8. ProcessTypes' /\ torn' \in Nat
  BY <1>7 DEF StateTypes, ProcessTypes, Counted, HistoryTypes, Current
<1>9. Exclusive' /\ Counted'
  <2>1. \A q \in Processes : pc'[q] \notin {"copying", "upgrading"}
    BY <1>7 DEF StateTypes, ProcessTypes, Exclusive
  <2> QED
    BY <2>1 DEF Exclusive, Counted
<1>10. HistoryTypes'
  BY <1>6, <1>7, <1>8 DEF StateTypes, HistoryTypes
<1> QED
  BY <1>5, <1>7, <1>8, <1>9, <1>10 DEF StateTypes, StoreTypes, BroadcastTypes

(* A step that leaves the processes where they are, and the counter.       *)
LEMMA CalmTypes ==
  ASSUME StateTypes, UNCHANGED <<pc, seen, torn>>
  PROVE  ProcessTypes' /\ Exclusive' /\ Counted'
BY DEF StateTypes, ProcessTypes, Exclusive, Counted

LEMMA HandTypes ==
  ASSUME StateTypes, hand # None
  PROVE  /\ hand \in Hands
         /\ hand.decision \in Decisions
BY DEF StateTypes, BroadcastTypes

LEMMA ReceiverTypes ==
  ASSUME StateTypes, ReceiverStep \/ (\E d \in Decisions : Report(d))
  PROVE  StateTypes'
<1>1. ASSUME NEW d \in Decisions, Report(d)
      PROVE  StateTypes'
  <2>1. BroadcastTypes'
    BY <1>1 DEF Report, StateTypes, BroadcastTypes
  <2>2. UNCHANGED <<db, superuser, pc, seen, old, bounds, history>>
    BY <1>1 DEF Report
  <2> QED
    BY <2>1, <2>2, CalmTypes DEF StateTypes, DbTypes, StoreTypes, HistoryTypes
<1>2. ASSUME NEW d \in Decisions, Receive(d)
      PROVE  StateTypes'
  <2>1. BroadcastTypes'
    <3>1. PICK u \in IF Concerning(d) = {} THEN {None} ELSE Concerning(d) :
            hand' = [decision |-> d, u |-> u, added |-> FALSE]
      BY <1>2 DEF Receive
    <3>2. u \in Rows \cup {None}
      BY <3>1 DEF Concerning, StateTypes, DbTypes, Databases
    <3>3. hand' \in Hands
      BY <3>1, <3>2
    <3>4. status' \in [Decisions -> {"none", "sent", "received", "handled", "lost"}]
      BY <1>2 DEF Receive, StateTypes, BroadcastTypes
    <3> QED
      BY <3>3, <3>4 DEF BroadcastTypes
  <2>2. UNCHANGED <<db, superuser, pc, seen, old, bounds, history>>
    BY <1>2 DEF Receive
  <2> QED
    BY <2>1, <2>2, CalmTypes DEF StateTypes, DbTypes, StoreTypes, HistoryTypes
<1>3. CASE AddLog
  <2> DEFINE d == hand.decision
  <2>1. hand # None /\ hand' = [hand EXCEPT !.added = TRUE]
        /\ UNCHANGED <<db, settings, pc, seen, status, old, kills, changes, torn,
                       chosen, newest>>
    BY <1>3 DEF AddLog
  <2>2. d \in Decisions
    BY <2>1, HandTypes
  <2>3. BroadcastTypes'
    BY <2>1, HandTypes DEF StateTypes, BroadcastTypes
  <2>4. /\ faults' \in Nat /\ failed' \subseteq Entries \cup Names \cup Scopes
        /\ logs' \in [Entries -> Nat] /\ removed' \subseteq Entries
        /\ done' \in [Decisions -> SUBSET Names]
    <3>1. CASE Lets("log")
      <4>1. PICK written \in SUBSET {d} :
              /\ Writes(written, {d} \ written)
              /\ logs' = [e \in Entries |-> IF e \in written THEN logs[e] + 1
                                            ELSE IF e \in old THEN 0
                                            ELSE logs[e]]
              /\ removed' = removed \cup {e \in old : logs[e] > 0}
              /\ done' = [done EXCEPT ![d] = @ \cup {"log"}]
        BY <1>3, <3>1 DEF AddLog
      <4>2. {d} \ written \in SUBSET (Entries \cup Names \cup Scopes)
        BY <2>2, EntryKinds
      <4>3. faults' \in Nat /\ failed' \subseteq Entries \cup Names \cup Scopes
        BY <4>1, <4>2, WritesTypes
      <4>4. logs' \in [Entries -> Nat]
        BY <4>1 DEF StateTypes, StoreTypes
      <4>5. removed' \subseteq Entries
        BY <4>1 DEF StateTypes, HistoryTypes
      <4>6. done' \in [Decisions -> SUBSET Names]
        BY <2>2, <4>1 DEF StateTypes, HistoryTypes, Names
      <4> QED
        BY <4>3, <4>4, <4>5, <4>6
    <3>2. CASE ~Lets("log")
      <4>1. UNCHANGED <<logs, removed, done, faults, failed>>
        BY <1>3, <3>2 DEF AddLog
      <4> QED
        BY <4>1 DEF StateTypes, StoreTypes, HistoryTypes
    <3> QED
      BY <3>1, <3>2
  <2>5. StoreTypes' /\ HistoryTypes' /\ DbTypes'
    BY <2>1, <2>4 DEF StateTypes, StoreTypes, HistoryTypes, DbTypes
  <2> QED
    BY <2>1, <2>3, <2>5, CalmTypes DEF StateTypes
<1>4. CASE Tell
  <2>1. hand # None /\ hand' = None
        /\ UNCHANGED <<db, superuser, pc, seen, old, bounds, torn, failed, removed,
                       chosen, newest>>
    BY <1>4 DEF Tell
  <2>2. hand.decision \in Decisions
    BY <2>1, HandTypes
  <2>3. done' \in [Decisions -> SUBSET Names]
    BY <1>4, <2>2 DEF Tell, StateTypes, HistoryTypes, Names
  <2>4. status' \in [Decisions -> {"none", "sent", "received", "handled", "lost"}]
    BY <1>4, <2>2 DEF Tell, StateTypes, BroadcastTypes
  <2>5. StoreTypes' /\ HistoryTypes' /\ DbTypes' /\ BroadcastTypes'
    BY <2>1, <2>3, <2>4 DEF StateTypes, StoreTypes, HistoryTypes, DbTypes,
                            BroadcastTypes
  <2> QED
    BY <2>1, <2>5, CalmTypes DEF StateTypes
<1> QED
  BY <1>1, <1>2, <1>3, <1>4 DEF ReceiverStep

LEMMA PolicyTypes ==
  ASSUME StateTypes, NEW r \in Rows, SetPolicy(r)
  PROVE  StateTypes'
<1>1. PICK written \in SUBSET {r.command} :
        /\ Writes(written, {r.command} \ written)
        /\ db' = IF written = {} THEN db
                 ELSE [db EXCEPT !.rows = (@ \ Of(@, r.command)) \cup {r}]
  BY DEF SetPolicy
<1>2. r.command \in Scopes
  BY RowFields
<1>3. faults' \in Nat /\ failed' \subseteq Entries \cup Names \cup Scopes
  <2>1. {r.command} \ written \in SUBSET (Entries \cup Names \cup Scopes)
    BY <1>2
  <2> QED
    BY <1>1, <2>1, WritesTypes
<1>4. DbTypes'
  <2>1. CASE db' = db
    BY <2>1 DEF StateTypes, DbTypes
  <2>2. CASE db' = [db EXCEPT !.rows = (@ \ Of(@, r.command)) \cup {r}]
    <3>1. db \in Databases /\ Keyed(db.rows) /\ Rowids(db.rows)
      BY DEF StateTypes, DbTypes
    <3> DEFINE rows == (db.rows \ Of(db.rows, r.command)) \cup {r}
    <3>2. db' = [db EXCEPT !.rows = rows]
      BY <2>2, <3>1 DEF Databases
    <3>3. rows \in SUBSET Rows
      BY <3>1 DEF Databases
    <3>4. Keyed(rows) /\ Rowids(rows)
      <4>1. \A q \in rows : q = r \/ (q \in db.rows /\ q.command # r.command)
        BY DEF Of
      <4> HIDE DEF rows
      <4> QED
        BY <3>1, <4>1 DEF Keyed, Rowids
    <3> HIDE DEF rows
    <3>5. db' \in Databases /\ db'.rows = rows
      BY <3>1, <3>2, <3>3 DEF Databases
    <3> QED
      BY <3>4, <3>5 DEF DbTypes
  <2> QED
    BY <1>1, <2>1, <2>2
<1>5. /\ newest' = [newest EXCEPT ![r.command] = r]
      /\ changes' = changes + 1
      /\ UNCHANGED <<kills, superuser, pc, seen, broadcasts, old, torn, removed,
                     chosen, done>>
  BY DEF SetPolicy, Changes
<1>6. HistoryTypes'
  <2>1. newest' \in [Scopes -> Rows \cup {None}] /\ changes' \in Nat
    BY <1>2, <1>5 DEF StateTypes, HistoryTypes
  <2> QED
    BY <1>3, <1>5, <2>1 DEF StateTypes, HistoryTypes
<1> QED
  BY <1>4, <1>5, <1>6, CalmTypes DEF StateTypes, StoreTypes, BroadcastTypes

(* What the screens and the dialogs write are rows.                        *)
LEMMA SwitchedRow ==
  ASSUME NEW r \in Rows, NEW n \in Names
  PROVE  LET q == [r EXCEPT !.flags = IF n \in @ THEN @ \ {n} ELSE @ \cup {n}] IN
           q \in Rows /\ q.command = r.command
<1> DEFINE f == IF n \in r.flags THEN r.flags \ {n} ELSE r.flags \cup {n}
<1>1. f \in SUBSET Names
  BY RowFields
<1>2. [r EXCEPT !.flags = IF n \in @ THEN @ \ {n} ELSE @ \cup {n}]
        = [r EXCEPT !.flags = f]
  BY DEF Rows
<1> HIDE DEF f
<1> QED
  BY <1>1, <1>2, RowWithFlags

LEMMA RememberedRow ==
  ASSUME NEW v \in {"allow", "deny"}, NEW timed \in BOOLEAN
  PROVE  LET q == [command |-> AllCommands, null |-> FALSE, policy |-> v,
                   timed |-> timed, flags |-> Names, rowid |-> 0] IN
           q \in Rows /\ q.command = AllCommands
BY EntryKinds DEF Rows

LEMMA UserTypes ==
  ASSUME StateTypes, UserStep
  PROVE  StateTypes'
<1>1. ASSUME NEW n \in Names, NEW v \in {"on", "off"}, SetString(n, v)
      PROVE  StateTypes'
  <2>1. PICK written \in SUBSET {n} :
          /\ Writes(written, {n} \ written)
          /\ settings' = [m \in Names |-> IF m \in written THEN v
                                                          ELSE settings[m]]
    BY <1>1 DEF SetString
  <2>2. faults' \in Nat /\ failed' \subseteq Entries \cup Names \cup Scopes
    <3>1. {n} \ written \in SUBSET (Entries \cup Names \cup Scopes)
      OBVIOUS
    <3> QED
      BY <2>1, <3>1, WritesTypes
  <2>3. settings' \in [Names -> Values]
    BY <2>1 DEF StateTypes, StoreTypes, Values
  <2>4. /\ chosen' = [chosen EXCEPT ![n] = v] /\ changes' = changes + 1
        /\ UNCHANGED <<kills, db, logs, pc, seen, broadcasts, old, torn, removed,
                       newest, done>>
    BY <1>1 DEF SetString, Changes
  <2>5. chosen' \in [Names -> Values] /\ changes' \in Nat
    BY <2>4 DEF StateTypes, HistoryTypes, Values
  <2>6. HistoryTypes' /\ StoreTypes' /\ DbTypes' /\ BroadcastTypes'
    BY <2>2, <2>3, <2>4, <2>5 DEF StateTypes, HistoryTypes, StoreTypes, DbTypes,
                                  BroadcastTypes
  <2> QED
    BY <2>4, <2>6, CalmTypes DEF StateTypes
<1>2. CASE DeleteLogs
  <2>1. /\ logs' = [e \in Entries |-> 0] /\ changes' = changes + 1
        /\ removed' = removed \cup {e \in Entries : logs[e] > 0}
        /\ UNCHANGED <<kills, db, settings, pc, seen, broadcasts, old, faults,
                       torn, failed, chosen, newest, done>>
    BY <1>2 DEF DeleteLogs, Changes
  <2>2. logs' \in [Entries -> Nat] /\ removed' \subseteq Entries /\ changes' \in Nat
    BY <2>1 DEF StateTypes, HistoryTypes
  <2>3. HistoryTypes' /\ StoreTypes' /\ DbTypes' /\ BroadcastTypes'
    BY <2>1, <2>2 DEF StateTypes, HistoryTypes, StoreTypes, DbTypes,
                      BroadcastTypes
  <2> QED
    BY <2>1, <2>3, CalmTypes DEF StateTypes
<1>3. ASSUME NEW r \in db.rows, NEW n \in Names, Switch(r, n)
      PROVE  StateTypes'
  <2>1. r \in Rows
    BY DEF StateTypes, DbTypes, Databases
  <2> DEFINE q == [r EXCEPT !.flags = IF n \in @ THEN @ \ {n} ELSE @ \cup {n}]
  <2>2. SetPolicy(q)
    BY <1>3 DEF Switch
  <2>3. q \in Rows
    BY <2>1, SwitchedRow
  <2> HIDE DEF q
  <2> QED
    BY <2>2, <2>3, PolicyTypes
<1>4. ASSUME NEW v \in {"allow", "deny"}, NEW timed \in BOOLEAN,
             Remember(v, timed)
      PROVE  StateTypes'
  <2> DEFINE q == [command |-> AllCommands, null |-> FALSE, policy |-> v,
                   timed |-> timed, flags |-> Names, rowid |-> 0]
  <2>1. SetPolicy(q)
    BY <1>4 DEF Remember
  <2>2. q \in Rows
    BY RememberedRow
  <2> HIDE DEF q
  <2> QED
    BY <2>1, <2>2, PolicyTypes
<1> QED
  BY <1>1, <1>2, <1>3, <1>4 DEF UserStep

LEMMA StepTypes ==
  ASSUME StateTypes, Step
  PROVE  StateTypes'
<1>1. ASSUME NEW p \in Processes, Open(p) \/ UpgradeStep(p) \/ Kill(p)
      PROVE  StateTypes'
  BY <1>1, OpenTypes, BeginTypes, EndTypes, CopyTypes, CommitTypes
     DEF UpgradeStep
<1>2. CASE TwoWeeksPass
  <2>1. old' \subseteq Entries
    BY <1>2 DEF TwoWeeksPass
  <2>2. UNCHANGED <<db, superuser, pc, seen, broadcasts, bounds, history>>
    BY <1>2 DEF TwoWeeksPass
  <2> QED
    BY <2>1, <2>2, CalmTypes DEF StateTypes, HistoryTypes, StoreTypes, DbTypes,
                                 BroadcastTypes
<1> QED
  BY <1>1, <1>2, ReceiverTypes, UserTypes DEF Step

LEMMA WatchStep ==
  ASSUME TypeInv, Watch
  PROVE  WatchTypes'
<1>1. \A d \in Decisions : /\ On(d) \in SUBSET Names /\ On(d)' \in SUBSET Names
                           /\ Off(d) \in SUBSET Names /\ Off(d)' \in SUBSET Names
  BY DEF On, Off
<1> QED
  BY <1>1 DEF TypeInv, WatchTypes, Watch

LEMMA NextTypes ==
  ASSUME TypeInv, [Next]_vars
  PROVE  TypeInv'
<1>1. CASE Next
  <2>1. StateTypes'
    BY <1>1, StepTypes DEF Next, TypeInv
  <2>2. WatchTypes'
    BY <1>1, WatchStep DEF Next
  <2> QED
    BY <2>1, <2>2 DEF TypeInv
<1>2. CASE UNCHANGED vars
  <2>1. UNCHANGED state
    BY <1>2 DEF vars
  <2>2. StateTypes'
    BY <2>1, CalmTypes DEF state, TypeInv, StateTypes, DbTypes, StoreTypes,
                           BroadcastTypes, HistoryTypes
  <2>3. WatchTypes'
    BY <1>2 DEF vars, TypeInv, WatchTypes
  <2> QED
    BY <2>2, <2>3 DEF TypeInv
<1> QED
  BY <1>1, <1>2

LEMMA TypeInvAlways == Spec => []TypeInv
BY InitTypes, NextTypes, PTL DEF Spec

(* Every variable has its type, and su.sqlite keeps its primary key, which *)
(* null commands escape until onUpgrade has written them anew              *)
(* (SuDatabaseHelper.java:101).                                            *)
THEOREM TypeCorrect == Spec => []TypeOK
BY TypeInvAlways, TypesOfInv, PTL

-----------------------------------------------------------------------------
(* The upgrade, as far as it is in each process.                           *)

InUpgrade == {"opening", "copying", "upgrading"}
Moving == 1..3                    \* the versions with logs in su.sqlite

Phases ==
  /\ \A p \in Processes :
       /\ pc[p] = "up" => db.version = Current
       /\ pc[p] \in InUpgrade => db.version \in {seen[p], Current}
       /\ pc[p] = "copying" => seen[p] \in Moving
       /\ pc[p] \in {"copying", "upgrading"} /\ seen[p] \in Moving =>
            db.version \in Moving
  /\ "log" \in db.tables <=> db.version \in Moving
  /\ db.logs = IF db.version \in Moving THEN LegacyLogs ELSE {}
  /\ db.version # 3 => db.settings = NoSettings
  /\ hand # None => pc["main"] = "up"

LEMMA CurrentIsLast == Current \notin Moving /\ Current # 3 /\ Current \in Nat
BY DEF Current, Moving

LEMMA InitPhases == Init => Phases
<1> SUFFICES ASSUME Init PROVE Phases
  OBVIOUS
<1>1. PICK v \in Versions, choice \in LegacySettings :
        /\ v < 3 => choice = NoSettings
        /\ db.version = v
        /\ db.tables = IF v = 0 \/ v > 3 THEN {}
                       ELSE IF v = 3 THEN {"log", "settings"} ELSE {"log"}
        /\ db.logs = IF v \in 1..3 THEN LegacyLogs ELSE {}
        /\ db.settings = IF v = 3 THEN choice ELSE NoSettings
  BY DEF Init
<1>2. v \in 0..5
  BY BoundAssumption
<1>3. "log" \in db.tables <=> db.version \in Moving
  BY <1>1, <1>2 DEF Moving
<1>4. /\ db.logs = IF db.version \in Moving THEN LegacyLogs ELSE {}
      /\ db.version # 3 => db.settings = NoSettings
  BY <1>1 DEF Moving
<1>5. hand = None /\ \A p \in Processes : pc[p] = "dead"
  BY DEF Init
<1> QED
  BY <1>3, <1>4, <1>5 DEF Phases, InUpgrade

(* A step that leaves the processes and su.sqlite, but for the rows.       *)
LEMMA CalmPhases ==
  ASSUME Phases, UNCHANGED <<pc, seen>>,
         db'.version = db.version, db'.tables = db.tables,
         db'.logs = db.logs, db'.settings = db.settings,
         hand' # None => hand # None \/ pc["main"] = "up"
  PROVE  Phases'
BY DEF Phases

LEMMA EndPhases ==
  ASSUME StateTypes, Phases, NEW p \in Processes, Ends(p), UNCHANGED db
  PROVE  Phases'
<1>1. /\ pc'[p] = "dead"
      /\ \A q \in Processes \ {p} : pc'[q] = pc[q] /\ seen'[q] = seen[q]
  BY DEF Ends, StateTypes, ProcessTypes
<1>2. hand' # None => hand # None /\ p # "main"
  BY DEF Ends
<1> QED
  BY <1>1, <1>2 DEF Phases, InUpgrade

LEMMA UpgradePhases ==
  ASSUME StateTypes, Phases, NEW p \in Processes,
         Open(p) \/ UpgradeStep(p) \/ Kill(p)
  PROVE  Phases'
<1> USE CurrentIsLast
<1>0. ProcessTypes /\ db.version \in 0..Current
  BY DEF StateTypes, DbTypes, Databases
<1>1. CASE Open(p)
  <2>1. /\ \A q \in Processes \ {p} : pc'[q] = pc[q] /\ seen'[q] = seen[q]
        /\ pc[p] = "dead" /\ UNCHANGED <<db, hand>>
        /\ \/ db.version = Current /\ pc'[p] = "up"
           \/ pc'[p] = "opening" /\ seen'[p] = db.version
    BY <1>0, <1>1 DEF Open, ProcessTypes
  <2> QED
    BY <2>1 DEF Phases, InUpgrade
<1>2. CASE Begin(p)
  <2>1. /\ \A q \in Processes \ {p} : pc'[q] = pc[q]
        /\ pc[p] = "opening" /\ UNCHANGED <<db, hand, seen>>
        /\ pc'[p] = IF seen[p] \in Moving THEN "copying" ELSE "upgrading"
    BY <1>0, <1>2 DEF Begin, ProcessTypes, Moving
  <2>2. seen[p] \in Moving => db.version \in Moving
    BY <1>2 DEF Begin, Outdated, Phases, Moving
  <2> QED
    BY <2>1, <2>2 DEF Phases, InUpgrade
<1>3. CASE Throws(p) \/ Kill(p)
  BY <1>3, EndPhases DEF Throws, Kill
<1>4. CASE Copy(p)
  <2>1. /\ \A q \in Processes \ {p} : pc'[q] = pc[q]
        /\ pc[p] = "copying" /\ pc'[p] = "upgrading"
        /\ UNCHANGED <<db, hand, seen>>
    BY <1>0, <1>4 DEF Copy, ProcessTypes
  <2> QED
    BY <2>1 DEF Phases, InUpgrade
<1>5. CASE Commit(p)
  <2>1. /\ db'.version = Current /\ db'.tables = {} /\ db'.logs = {}
        /\ db'.settings = NoSettings
    BY <1>5 DEF Commit
  <2>2. /\ \A q \in Processes \ {p} : pc'[q] = pc[q] /\ seen'[q] = seen[q]
        /\ pc[p] = "upgrading" /\ pc'[p] = "up" /\ UNCHANGED hand
    BY <1>0, <1>5 DEF Commit, ProcessTypes
  <2>3. \A q \in Processes \ {p} : pc[q] \notin {"copying", "upgrading"}
    BY <2>2 DEF StateTypes, Exclusive
  <2> QED
    BY <2>1, <2>2, <2>3 DEF Phases, InUpgrade
<1> QED
  BY <1>1, <1>2, <1>3, <1>4, <1>5 DEF UpgradeStep

(* What the screens and the dialogs write into su.sqlite are rows.         *)
LEMMA RowsOnly ==
  ASSUME StateTypes, NEW r, SetPolicy(r)
  PROVE  /\ db'.version = db.version /\ db'.tables = db.tables
         /\ db'.logs = db.logs /\ db'.settings = db.settings
BY DEF SetPolicy, StateTypes, DbTypes, Databases

LEMMA NextPhases ==
  ASSUME StateTypes, Phases, [Next]_vars
  PROVE  Phases'
<1>1. ASSUME NEW p \in Processes, Open(p) \/ UpgradeStep(p) \/ Kill(p)
      PROVE  Phases'
  BY <1>1, UpgradePhases
<1>2. CASE ReceiverStep \/ (\E d \in Decisions : Report(d))
  <2>1. /\ UNCHANGED <<db, pc, seen>>
        /\ hand' # None => hand # None \/ pc["main"] = "up"
    BY <1>2 DEF ReceiverStep, Receive, AddLog, Tell, Report
  <2> QED
    BY <2>1, CalmPhases
<1>3. CASE UserStep
  <2>1. UNCHANGED <<pc, seen, hand>>
    BY <1>3 DEF UserStep, SetString, DeleteLogs, Switch, Remember, SetPolicy
  <2>2. /\ db'.version = db.version /\ db'.tables = db.tables
        /\ db'.logs = db.logs /\ db'.settings = db.settings
    BY <1>3, RowsOnly DEF UserStep, SetString, DeleteLogs, Switch, Remember
  <2> QED
    BY <2>1, <2>2, CalmPhases
<1>4. CASE TwoWeeksPass \/ UNCHANGED vars
  <2>1. UNCHANGED <<db, pc, seen, hand>>
    BY <1>4 DEF TwoWeeksPass, vars, state
  <2> QED
    BY <2>1, CalmPhases
<1> QED
  BY <1>1, <1>2, <1>3, <1>4 DEF Next, Step

LEMMA PhasesAlways == Spec => []Phases
<1>1. TypeInv /\ Phases /\ [Next]_vars => Phases'
  BY NextPhases DEF TypeInv
<1> QED
  BY InitPhases, <1>1, TypeInvAlways, PTL DEF Spec

-----------------------------------------------------------------------------
(* The settings.                                                           *)

(* What su.sqlite still holds is the user's choice, and superuser.sqlite   *)
(* has it otherwise; once it is copied, both have it.                      *)
SettingInv ==
  /\ \A n \in Names : db.settings[n] # Unset => db.settings[n] = chosen[n]
  /\ \A n \in Names \ failed : settings[n] = chosen[n] \/ db.settings[n] # Unset
  /\ (\E p \in Processes : pc[p] = "upgrading") =>
       \A n \in Names \ failed : settings[n] = chosen[n]

LEMMA SettingFollows ==
  ASSUME Phases, SettingInv
  PROVE  SettingKept
<1> SUFFICES ASSUME NEW n \in Names \ failed, NEW p \in Processes, pc[p] = "up"
             PROVE  settings[n] = chosen[n]
  BY DEF SettingKept
<1>1. db.settings = NoSettings
  BY CurrentIsLast DEF Phases
<1>2. db.settings[n] = Unset
  BY <1>1 DEF NoSettings
<1> QED
  BY <1>2 DEF SettingInv

LEMMA InitSetting == Init => SettingInv
<1> SUFFICES ASSUME Init PROVE SettingInv
  OBVIOUS
<1>1. PICK v \in Versions, choice \in LegacySettings :
        /\ v < 3 => choice = NoSettings
        /\ db.settings = IF v = 3 THEN choice ELSE NoSettings
        /\ settings = IF v > 3 THEN choice ELSE NoSettings
        /\ chosen = choice
  BY DEF Init
<1>2. \A p \in Processes : pc[p] = "dead"
  BY DEF Init
<1>3. v \in 0..5
  BY BoundAssumption
<1>4. \A n \in Names : NoSettings[n] = Unset
  BY DEF NoSettings
<1> QED
  BY <1>1, <1>2, <1>3, <1>4 DEF SettingInv

LEMMA CalmSetting ==
  ASSUME SettingInv, UNCHANGED <<settings, chosen>>,
         db'.settings = db.settings, Names \ failed' \subseteq Names \ failed,
         \A p \in Processes : pc'[p] = "upgrading" => pc[p] = "upgrading"
  PROVE  SettingInv'
BY DEF SettingInv

LEMMA UpgradeSetting ==
  ASSUME StateTypes, Phases, SettingInv, NEW p \in Processes,
         Open(p) \/ UpgradeStep(p) \/ Kill(p)
  PROVE  SettingInv'
<1>0. ProcessTypes /\ \A n \in Names : NoSettings[n] = Unset
  BY DEF StateTypes, NoSettings
<1>1. CASE Open(p) \/ Throws(p) \/ Kill(p)
  <2>1. /\ UNCHANGED <<db, settings, chosen, failed>>
        /\ \A q \in Processes : pc'[q] = "upgrading" => pc[q] = "upgrading"
    BY <1>0, <1>1 DEF Open, Throws, Kill, Ends, ProcessTypes
  <2> QED
    BY <2>1, CalmSetting
<1>2. CASE Begin(p)
  <2>1. UNCHANGED <<db, settings, chosen, failed>>
        /\ pc' = [pc EXCEPT ![p] = IF seen[p] \in 1..3 THEN "copying"
                                                       ELSE "upgrading"]
    BY <1>2 DEF Begin
  <2>2. CASE seen[p] \in 1..3
    <3>1. \A q \in Processes : pc'[q] = "upgrading" => pc[q] = "upgrading"
      BY <1>0, <2>1, <2>2 DEF ProcessTypes
    <3> QED
      BY <2>1, <3>1, CalmSetting
  <2>3. CASE seen[p] \notin 1..3
    <3>1. db.version # 3
      BY <1>2, <2>3, CurrentIsLast DEF Begin, Phases, InUpgrade
    <3>2. db.settings = NoSettings
      BY <3>1 DEF Phases
    <3>3. \A n \in Names \ failed : settings[n] = chosen[n]
      BY <1>0, <3>2 DEF SettingInv
    <3> QED
      BY <2>1, <3>3 DEF SettingInv
  <2> QED
    BY <2>2, <2>3
<1>3. CASE Copy(p)
  <2> DEFINE given == {n \in Names : db.settings[n] # Unset}
             all == db.logs \cup given
  <2>1. PICK written \in SUBSET all :
          /\ failed' = (failed \ written) \cup (all \ written)
          /\ settings' = [n \in Names |-> IF n \in given \cap written
                                          THEN db.settings[n] ELSE settings[n]]
    BY <1>3 DEF Copy, Writes
  <2>2. UNCHANGED <<db, chosen>>
    BY <1>3 DEF Copy
  <2>3. db.logs \cap Names = {}
    BY EntryKinds DEF StateTypes, DbTypes, Databases
  <2>4. ASSUME NEW n \in Names \ failed'
        PROVE  settings'[n] = chosen'[n]
    <3>1. CASE n \in given
      <4>1. n \in written
        BY <2>1, <3>1
      <4> QED
        BY <2>1, <2>2, <3>1, <4>1 DEF SettingInv
    <3>2. CASE n \notin given
      <4>1. n \notin written /\ n \notin failed
        BY <2>1, <2>3, <3>2
      <4> QED
        BY <2>1, <2>2, <3>2, <4>1 DEF SettingInv
    <3> QED
      BY <3>1, <3>2
  <2> QED
    BY <2>2, <2>4 DEF SettingInv
<1>4. CASE Commit(p)
  <2>1. /\ pc[p] = "upgrading" /\ db'.settings = NoSettings
        /\ UNCHANGED <<settings, chosen>>
    BY <1>4 DEF Commit
  <2>2. Names \ failed' \subseteq Names \ failed
    BY <1>4 DEF Commit, Writes
  <2>3. \A n \in Names \ failed' : settings'[n] = chosen'[n]
    BY <2>1, <2>2 DEF SettingInv
  <2> QED
    BY <1>0, <2>1, <2>3 DEF SettingInv
<1> QED
  BY <1>1, <1>2, <1>3, <1>4 DEF UpgradeStep

LEMMA PolicyFailures ==
  ASSUME NEW r \in Rows, SetPolicy(r)
  PROVE  /\ Names \ failed' = Names \ failed /\ Entries \ failed' = Entries \ failed
         /\ UNCHANGED <<superuser, pc, seen, broadcasts, old, torn, removed,
                        chosen, done>>
<1>1. PICK written \in SUBSET {r.command} :
        failed' = (failed \ written) \cup ({r.command} \ written)
  BY DEF SetPolicy, Writes
<1>2. r.command \notin Names /\ r.command \notin Entries
  BY RowFields, EntryKinds
<1> QED
  BY <1>1, <1>2 DEF SetPolicy

(* A switch or a dialog writes a row.                                      *)
LEMMA ScreenWrites ==
  ASSUME StateTypes,
         \/ \E r \in db.rows, n \in Names : Switch(r, n)
         \/ \E v \in {"allow", "deny"}, timed \in BOOLEAN : Remember(v, timed)
  PROVE  \E r \in Rows : SetPolicy(r)
<1>1. ASSUME NEW r \in db.rows, NEW n \in Names, Switch(r, n)
      PROVE  \E q \in Rows : SetPolicy(q)
  <2>1. r \in Rows
    BY DEF StateTypes, DbTypes, Databases
  <2> DEFINE q == [r EXCEPT !.flags = IF n \in @ THEN @ \ {n} ELSE @ \cup {n}]
  <2>2. q \in Rows
    BY <2>1, SwitchedRow
  <2>3. SetPolicy(q)
    BY <1>1 DEF Switch
  <2> HIDE DEF q
  <2> QED
    BY <2>2, <2>3
<1>2. ASSUME NEW v \in {"allow", "deny"}, NEW timed \in BOOLEAN,
             Remember(v, timed)
      PROVE  \E q \in Rows : SetPolicy(q)
  <2> DEFINE q == [command |-> AllCommands, null |-> FALSE, policy |-> v,
                   timed |-> timed, flags |-> Names, rowid |-> 0]
  <2>1. q \in Rows
    BY RememberedRow
  <2>2. SetPolicy(q)
    BY <1>2 DEF Remember
  <2> HIDE DEF q
  <2> QED
    BY <2>1, <2>2
<1> QED
  BY <1>1, <1>2

LEMMA NextSetting ==
  ASSUME StateTypes, Phases, SettingInv, [Next]_vars
  PROVE  SettingInv'
<1>1. ASSUME NEW p \in Processes, Open(p) \/ UpgradeStep(p) \/ Kill(p)
      PROVE  SettingInv'
  BY <1>1, UpgradeSetting
<1>2. ASSUME NEW n \in Names, NEW v \in {"on", "off"}, SetString(n, v)
      PROVE  SettingInv'
  <2>1. PICK written \in SUBSET {n} :
          /\ failed' = (failed \ written) \cup ({n} \ written)
          /\ settings' = [m \in Names |-> IF m \in written THEN v
                                                          ELSE settings[m]]
    BY <1>2 DEF SetString, Writes
  <2>2. chosen' = [chosen EXCEPT ![n] = v] /\ UNCHANGED db /\ pc["main"] = "up"
    BY <1>2 DEF SetString
  <2>3. \A m \in Names : db.settings[m] = Unset
    BY <2>2, CurrentIsLast DEF Phases, NoSettings
  <2>4. \A m \in Names \ failed : settings[m] = chosen[m]
    BY <2>3 DEF SettingInv
  <2>5. chosen \in [Names -> Values]
    BY DEF StateTypes, HistoryTypes
  <2>6. \A m \in Names \ failed' : settings'[m] = chosen'[m]
    BY <2>1, <2>2, <2>4, <2>5
  <2> QED
    BY <2>2, <2>3, <2>6 DEF SettingInv
<1>3. CASE \/ \E r \in db.rows, n \in Names : Switch(r, n)
           \/ \E v \in {"allow", "deny"}, timed \in BOOLEAN : Remember(v, timed)
  <2>1. PICK r \in Rows : SetPolicy(r)
    BY <1>3, ScreenWrites
  <2> QED
    BY <2>1, PolicyFailures, RowsOnly, CalmSetting
<1>4. CASE AddLog
  <2>1. UNCHANGED <<db, settings, pc, chosen>>
    BY <1>4 DEF AddLog
  <2>2. hand # None /\ hand.decision \notin Names
    BY <1>4, HandTypes, EntryKinds DEF AddLog
  <2>3. Names \ failed' \subseteq Names \ failed
    BY <1>4, <2>2 DEF AddLog, Writes
  <2> QED
    BY <2>1, <2>3, CalmSetting
<1>5. CASE \/ \E d \in Decisions : Receive(d) \/ Report(d)
           \/ Tell \/ DeleteLogs \/ TwoWeeksPass \/ UNCHANGED vars
  <2>1. UNCHANGED <<db, settings, pc, chosen, failed>>
    BY <1>5 DEF Receive, Report, Tell, DeleteLogs, TwoWeeksPass, vars, state
  <2> QED
    BY <2>1, CalmSetting
<1> QED
  BY <1>1, <1>2, <1>3, <1>4, <1>5 DEF Next, Step, ReceiverStep, UserStep

(* Whichever process upgrades, however often and wherever it dies: the app *)
(* acts by the setting the user chose last (SuDatabaseHelper.java:74).     *)
THEOREM SettingKeptAlways == Spec => []SettingKept
<1>1. TypeInv /\ Phases /\ SettingInv /\ [Next]_vars => SettingInv'
  BY NextSetting DEF TypeInv
<1> QED
  BY InitSetting, <1>1, TypeInvAlways, PhasesAlways, SettingFollows, PTL DEF Spec

-----------------------------------------------------------------------------
(* The entries.                                                            *)

Unlogged(d) == logs[d] = 0 /\ done[d] = {} /\ d \notin removed

EntryKept(e) ==
  /\ e \in LegacyLogs =>
       /\ e \in db.logs \/ logs[e] > 0 \/ e \in removed \cup failed
       /\ logs[e] <= torn + (IF e \in db.logs THEN 0 ELSE 1)
  /\ e \in Decisions =>
       /\ logs[e] <= 1
       /\ "log" \in done[e] => logs[e] > 0 \/ e \in removed \cup failed
  /\ e \in removed => logs[e] = 0 /\ e \notin db.logs

(* An entry is copied before its table is dropped; a decision that nobody  *)
(* has received, or that is in onReceive's hands, is not logged yet.       *)
Copied(e) ==
  e \in db.logs /\ (\E p \in Processes : pc[p] = "upgrading") =>
    logs[e] > 0 \/ e \in failed

Fresh(d) ==
  \/ status[d] \in {"none", "sent"}
  \/ hand # None /\ ~hand.added /\ hand.decision = d
  => Unlogged(d)

EntryInv ==
  /\ \A e \in Entries : EntryKept(e) /\ Copied(e)
  /\ \A d \in Decisions : Fresh(d)
  /\ hand # None => status[hand.decision] = "received"

LEMMA EntriesFollow == EntryInv => EntriesKept
BY DEF EntryInv, EntryKept, EntriesKept

LEMMA InitEntries == Init => EntryInv
<1> SUFFICES ASSUME Init PROVE EntryInv
  OBVIOUS
<1>1. PICK v \in Versions :
        /\ db.logs = IF v \in 1..3 THEN LegacyLogs ELSE {}
        /\ logs = [e \in Entries |-> IF v > 3 /\ e \in LegacyLogs THEN 1 ELSE 0]
        /\ removed = IF v = 0 THEN LegacyLogs ELSE {}
  BY DEF Init
<1>2. v \in 0..5
  BY BoundAssumption
<1>3. /\ failed = {} /\ torn = 0 /\ hand = None
      /\ done = [d \in Decisions |-> {}]
      /\ \A p \in Processes : pc[p] = "dead"
  BY DEF Init
<1>4. \A d \in Decisions : d \notin LegacyLogs /\ d \in Entries
  BY EntryKinds
<1>5. \A e \in Entries : EntryKept(e) /\ Copied(e)
  BY <1>1, <1>2, <1>3, <1>4 DEF EntryKept, Copied
<1>6. \A d \in Decisions : Unlogged(d)
  BY <1>1, <1>3, <1>4 DEF Unlogged
<1> QED
  BY <1>3, <1>5, <1>6 DEF EntryInv, Fresh

(* A step that leaves the entries, the broadcasts and what has failed for  *)
(* them.                                                                   *)
LEMMA CalmEntries ==
  ASSUME EntryInv, UNCHANGED <<logs, torn, removed, done>>,
         db'.logs = db.logs, Entries \ failed' \subseteq Entries \ failed,
         hand' = None \/ hand' = hand,
         hand' # None => status'[hand'.decision] = status[hand'.decision],
         \A d \in Decisions : status'[d] \in {"none", "sent"} =>
                                status[d] \in {"none", "sent"},
         \A p \in Processes : pc'[p] = "upgrading" =>
                                pc[p] = "upgrading" \/ db.logs = {}
  PROVE  EntryInv'
<1>1. ASSUME NEW e \in Entries
      PROVE  (EntryKept(e) /\ Copied(e))'
  <2>1. EntryKept(e) /\ Copied(e)
    BY DEF EntryInv
  <2>2. e \in failed => e \in failed'
    OBVIOUS
  <2>3. EntryKept(e)'
    BY <2>1, <2>2 DEF EntryKept
  <2>4. Copied(e)'
    BY <2>1, <2>2 DEF Copied
  <2> QED
    BY <2>3, <2>4
<1>2. ASSUME NEW d \in Decisions
      PROVE  Fresh(d)'
  BY DEF EntryInv, Fresh, Unlogged
<1>3. hand' # None => status'[hand'.decision] = "received"
  BY DEF EntryInv
<1> QED
  BY <1>1, <1>2, <1>3 DEF EntryInv

LEMMA EndEntries ==
  ASSUME StateTypes, EntryInv, NEW p \in Processes, Throws(p) \/ Kill(p)
  PROVE  EntryInv'
<1>1. UNCHANGED <<logs, torn, removed, done, db, failed>> /\ Ends(p)
  BY DEF Throws, Kill
<1>2. hand' = None \/ (UNCHANGED <<hand, status>>)
  BY <1>1 DEF Ends
<1>3. \A d \in Decisions : status'[d] \in {"none", "sent"} =>
                             status[d] \in {"none", "sent"}
  BY <1>1 DEF Ends
<1>4. \A q \in Processes : pc'[q] = "upgrading" => pc[q] = "upgrading"
  BY <1>1 DEF Ends, StateTypes, ProcessTypes
<1> QED
  BY <1>1, <1>2, <1>3, <1>4, CalmEntries

LEMMA CopyEntries ==
  ASSUME StateTypes, Phases, EntryInv, NEW p \in Processes, Copy(p)
  PROVE  EntryInv'
<1> DEFINE given == {n \in Names : db.settings[n] # Unset}
           all == db.logs \cup given
<1>1. PICK written \in SUBSET all :
        /\ failed' = (failed \ written) \cup (all \ written)
        /\ logs' = [e \in Entries |->
                      logs[e] + (IF e \in db.logs \cap written THEN 1 ELSE 0)]
  BY DEF Copy, Writes
<1>2. /\ torn' = torn + 1 /\ pc[p] = "copying"
      /\ UNCHANGED <<db, broadcasts, removed, done>>
  BY DEF Copy
<1>3. db.logs = LegacyLogs
  BY <1>2 DEF Phases
<1>4. torn \in Nat /\ logs \in [Entries -> Nat]
  BY DEF StateTypes, HistoryTypes, StoreTypes
<1>5. \A e \in Entries : e \notin given
  BY EntryKinds
<1>6. ASSUME NEW e \in Entries
      PROVE  (EntryKept(e) /\ Copied(e))'
  <2>1. EntryKept(e) /\ logs[e] \in Nat
    BY <1>4 DEF EntryInv
  <2>2. CASE e \in LegacyLogs
    <3>1. e \notin Decisions /\ e \in db.logs /\ e \notin removed
      BY <1>3, <2>1, <2>2, EntryKinds DEF EntryKept
    <3>2. logs[e] <= torn
      BY <2>1, <2>2, <3>1, <1>4 DEF EntryKept
    <3>3. logs'[e] <= torn' /\ (logs'[e] > 0 \/ e \in failed')
      BY <1>1, <1>2, <1>4, <2>1, <3>1, <3>2
    <3> QED
      BY <1>2, <3>1, <3>3 DEF EntryKept, Copied
  <2>3. CASE e \notin LegacyLogs
    <3>1. e \notin db.logs /\ e \notin all
      BY <1>3, <1>5, <2>3
    <3>2. logs'[e] = logs[e] /\ (e \in failed => e \in failed')
      BY <1>1, <2>1, <3>1
    <3> QED
      BY <1>2, <2>1, <2>3, <3>1, <3>2 DEF EntryKept, Copied
  <2> QED
    BY <2>2, <2>3
<1>7. ASSUME NEW d \in Decisions
      PROVE  Fresh(d)'
  <2>1. d \in Entries /\ d \notin db.logs /\ logs[d] \in Nat
    BY <1>3, <1>4, EntryKinds
  <2>2. logs'[d] = logs[d]
    BY <1>1, <2>1
  <2> QED
    BY <1>2, <2>2 DEF EntryInv, Fresh, Unlogged
<1> QED
  BY <1>2, <1>6, <1>7 DEF EntryInv

LEMMA CommitEntries ==
  ASSUME StateTypes, Phases, EntryInv, NEW p \in Processes, Commit(p)
  PROVE  EntryInv'
<1>1. /\ pc[p] = "upgrading" /\ pc' = [pc EXCEPT ![p] = "up"]
      /\ torn' = IF seen[p] \in 1..3 THEN torn - 1 ELSE torn
      /\ db'.logs = {}
      /\ UNCHANGED <<superuser, broadcasts, removed, done>>
  BY DEF Commit
<1>2. failed \subseteq failed'
  BY DEF Commit, Writes
<1>3. torn \in Nat /\ logs \in [Entries -> Nat] /\ ProcessTypes
  BY DEF StateTypes, HistoryTypes, StoreTypes
<1>4. \/ seen[p] \in 1..3 /\ db.logs = LegacyLogs /\ torn > 0
      \/ seen[p] \notin 1..3 /\ db.logs = {}
  <2>1. CASE seen[p] \in 1..3
    <3>1. db.version \in Moving /\ torn > 0
      BY <1>1, <2>1 DEF Phases, Moving, StateTypes, Counted
    <3> QED
      BY <2>1, <3>1 DEF Phases
  <2>2. CASE seen[p] \notin 1..3
    <3>1. db.version \notin Moving
      BY <1>1, <2>2, CurrentIsLast DEF Phases, InUpgrade, Moving
    <3> QED
      BY <2>2, <3>1 DEF Phases
  <2> QED
    BY <2>1, <2>2
<1>5. ASSUME NEW e \in Entries
      PROVE  (EntryKept(e) /\ Copied(e))'
  <2>1. EntryKept(e) /\ Copied(e) /\ logs[e] \in Nat
    BY <1>3 DEF EntryInv
  <2>2. e \in db.logs => logs[e] > 0 \/ e \in failed
    BY <1>1, <2>1 DEF Copied
  <2>3. e \in LegacyLogs => logs[e] <= torn' + 1
    BY <1>1, <1>3, <1>4, <2>1 DEF EntryKept
  <2> QED
    BY <1>1, <1>2, <2>1, <2>2, <2>3 DEF EntryKept, Copied
<1>6. \A d \in Decisions : Fresh(d)'
  BY <1>1 DEF EntryInv, Fresh, Unlogged
<1> QED
  BY <1>1, <1>5, <1>6 DEF EntryInv

LEMMA UpgradeEntries ==
  ASSUME StateTypes, Phases, EntryInv, NEW p \in Processes,
         Open(p) \/ UpgradeStep(p) \/ Kill(p)
  PROVE  EntryInv'
<1>1. CASE Open(p)
  <2>1. /\ UNCHANGED <<db, superuser, broadcasts, history>>
        /\ \A q \in Processes : pc'[q] = "upgrading" => pc[q] = "upgrading"
    BY <1>1 DEF Open, StateTypes, ProcessTypes
  <2> QED
    BY <2>1, CalmEntries
<1>2. CASE Begin(p)
  <2>1. /\ UNCHANGED <<db, superuser, broadcasts, history>> /\ pc[p] = "opening"
        /\ pc' = [pc EXCEPT ![p] = IF seen[p] \in 1..3 THEN "copying"
                                                       ELSE "upgrading"]
    BY <1>2 DEF Begin
  <2>2. seen[p] \notin 1..3 => db.logs = {}
    BY <2>1, CurrentIsLast DEF Phases, InUpgrade, Moving
  <2>3. \A q \in Processes : pc'[q] = "upgrading" =>
                               pc[q] = "upgrading" \/ db.logs = {}
    BY <2>1, <2>2 DEF StateTypes, ProcessTypes
  <2> QED
    BY <2>1, <2>3, CalmEntries
<1> QED
  BY <1>1, <1>2, EndEntries, CopyEntries, CommitEntries DEF UpgradeStep

LEMMA ReceiverEntries ==
  ASSUME StateTypes, Phases, EntryInv, ReceiverStep
  PROVE  EntryInv'
<1>0. /\ logs \in [Entries -> Nat] /\ done \in [Decisions -> SUBSET Names]
      /\ status \in [Decisions -> {"none", "sent", "received", "handled", "lost"}]
  BY DEF StateTypes, StoreTypes, HistoryTypes, BroadcastTypes
<1>1. ASSUME NEW d \in Decisions, Receive(d)
      PROVE  EntryInv'
  <2>1. /\ hand = None /\ hand'.decision = d /\ status[d] = "sent"
        /\ status' = [status EXCEPT ![d] = "received"]
        /\ UNCHANGED <<db, superuser, pc, seen, history>>
    BY <1>1 DEF Receive
  <2>2. \A e \in Entries : (EntryKept(e) /\ Copied(e))'
    BY <2>1 DEF EntryInv, EntryKept, Copied
  <2>3. ASSUME NEW c \in Decisions
        PROVE  Fresh(c)'
    BY <1>0, <2>1 DEF EntryInv, Fresh, Unlogged
  <2> QED
    BY <1>0, <2>1, <2>2, <2>3 DEF EntryInv
<1>2. CASE AddLog
  <2> DEFINE d == hand.decision
  <2>1. /\ hand # None /\ ~hand.added
        /\ hand' = [hand EXCEPT !.added = TRUE]
        /\ UNCHANGED <<db, pc, seen, status, torn>>
    BY <1>2 DEF AddLog
  <2>2. d \in Decisions /\ d \in Entries /\ d \notin LegacyLogs
    BY <2>1, HandTypes, EntryKinds
  <2>3. hand'.decision = d /\ hand'.added
    BY <2>1, HandTypes
  <2>4. db.logs = {} /\ \A q \in Processes : pc[q] = "upgrading" => db.logs = {}
    BY <2>1, CurrentIsLast DEF Phases
  <2>5. Unlogged(d) /\ status[d] = "received"
    BY <2>1, <2>2 DEF EntryInv, Fresh
  <2>6. CASE UNCHANGED <<logs, removed, done, failed>>
    <3>1. \A e \in Entries : (EntryKept(e) /\ Copied(e))'
      BY <2>1, <2>6 DEF EntryInv, EntryKept, Copied
    <3>2. \A c \in Decisions : Fresh(c)'
      BY <2>1, <2>3, <2>6 DEF EntryInv, Fresh, Unlogged
    <3> QED
      BY <2>1, <2>3, <2>5, <3>1, <3>2 DEF EntryInv
  <2>7. ASSUME NEW written \in SUBSET {d},
               failed' = (failed \ written) \cup ({d} \ written),
               logs' = [e \in Entries |-> IF e \in written THEN logs[e] + 1
                                          ELSE IF e \in old THEN 0
                                          ELSE logs[e]],
               removed' = removed \cup {e \in old : logs[e] > 0},
               done' = [done EXCEPT ![d] = @ \cup {"log"}]
        PROVE  EntryInv'
    <3>1. ASSUME NEW e \in Entries, e # d
          PROVE  (EntryKept(e) /\ Copied(e))'
      <4>1. EntryKept(e) /\ logs[e] \in Nat
        BY <1>0 DEF EntryInv
      <4>2. /\ logs'[e] = IF e \in old THEN 0 ELSE logs[e]
            /\ e \in removed' <=> e \in removed \/ (e \in old /\ logs[e] > 0)
            /\ e \in failed' <=> e \in failed
            /\ e \in Decisions => done'[e] = done[e]
        BY <1>0, <2>7, <3>1
      <4>3. torn \in Nat
        BY DEF StateTypes, HistoryTypes
      <4>4. EntryKept(e)'
        BY <2>1, <2>4, <4>1, <4>2, <4>3 DEF EntryKept
      <4> QED
        BY <2>1, <2>4, <4>4 DEF Copied
    <3>2. (EntryKept(d) /\ Copied(d))'
      <4>1. logs[d] = 0 /\ d \notin removed
        BY <2>5 DEF Unlogged
      <4>2. /\ logs'[d] = IF d \in written THEN 1 ELSE 0
            /\ d \notin removed' /\ (d \notin written => d \in failed')
        BY <2>2, <2>7, <4>1
      <4> QED
        BY <2>1, <2>2, <2>4, <4>2 DEF EntryKept, Copied
    <3>3. ASSUME NEW c \in Decisions
          PROVE  Fresh(c)'
      <4>1. CASE c = d
        BY <2>1, <2>3, <2>5, <4>1 DEF Fresh
      <4>2. CASE c # d /\ status[c] \in {"none", "sent"}
        <5>1. Unlogged(c) /\ c \in Entries
          BY <4>2, EntryKinds DEF EntryInv, Fresh
        <5>2. Unlogged(c)'
          BY <1>0, <2>7, <4>2, <5>1 DEF Unlogged
        <5> QED
          BY <5>2 DEF Fresh
      <4>3. CASE c # d /\ status[c] \notin {"none", "sent"}
        BY <2>1, <2>3, <4>3 DEF Fresh
      <4> QED
        BY <4>1, <4>2, <4>3
    <3>4. ASSUME NEW e \in Entries
          PROVE  (EntryKept(e) /\ Copied(e))'
      <4>1. CASE e = d
        <5>1. (EntryKept(d) <=> EntryKept(e))' /\ (Copied(d) <=> Copied(e))'
          BY <2>1, <4>1 DEF EntryKept, Copied
        <5> QED
          BY <3>2, <5>1
      <4> QED
        BY <3>1, <4>1
    <3> QED
      BY <2>1, <2>3, <2>5, <3>3, <3>4 DEF EntryInv
  <2> QED
    BY <1>2, <2>6, <2>7 DEF AddLog, Writes
<1>3. CASE Tell
  <2> DEFINE d == hand.decision
  <2>1. /\ hand # None /\ hand' = None
        /\ status' = [status EXCEPT ![d] = "handled"]
        /\ UNCHANGED <<db, superuser, pc, seen, torn, failed, removed>>
        /\ done' = done \/ done' = [done EXCEPT ![d] = @ \cup {"tell"}]
    BY <1>3 DEF Tell
  <2>2. d \in Decisions
    BY <2>1, HandTypes
  <2>3. \A c \in Decisions : "log" \in done'[c] => "log" \in done[c]
    BY <1>0, <2>1, <2>2
  <2>4. \A e \in Entries : (EntryKept(e) /\ Copied(e))'
    BY <2>1, <2>3 DEF EntryInv, EntryKept, Copied
  <2>5. ASSUME NEW c \in Decisions
        PROVE  Fresh(c)'
    BY <1>0, <2>1, <2>2 DEF EntryInv, Fresh, Unlogged
  <2> QED
    BY <2>1, <2>4, <2>5 DEF EntryInv
<1> QED
  BY <1>1, <1>2, <1>3 DEF ReceiverStep

LEMMA NextEntries ==
  ASSUME StateTypes, Phases, EntryInv, [Next]_vars
  PROVE  EntryInv'
<1>1. ASSUME NEW p \in Processes, Open(p) \/ UpgradeStep(p) \/ Kill(p)
      PROVE  EntryInv'
  BY <1>1, UpgradeEntries
<1>2. CASE ReceiverStep
  BY <1>2, ReceiverEntries
<1>3. ASSUME NEW d \in Decisions, Report(d)
      PROVE  EntryInv'
  <2>1. /\ status[d] = "none" /\ status' = [status EXCEPT ![d] = "sent"]
        /\ UNCHANGED <<db, superuser, pc, seen, hand, history>>
    BY <1>3 DEF Report
  <2>2. hand # None => hand.decision # d
    BY <2>1 DEF EntryInv
  <2>3. \A c \in Decisions : status'[c] \in {"none", "sent"} =>
                               status[c] \in {"none", "sent"}
    BY <2>1 DEF StateTypes, BroadcastTypes
  <2>4. hand' # None => status'[hand'.decision] = status[hand'.decision]
    BY <2>1, <2>2, HandTypes DEF StateTypes, BroadcastTypes
  <2> QED
    BY <2>1, <2>3, <2>4, CalmEntries
<1>4. CASE DeleteLogs
  <2>1. /\ removed' = removed \cup {e \in Entries : logs[e] > 0}
        /\ logs' = [e \in Entries |-> 0] /\ pc["main"] = "up"
        /\ UNCHANGED <<db, pc, seen, broadcasts, torn, failed, done>>
    BY <1>4 DEF DeleteLogs
  <2>2. db.logs = {}
    BY <2>1, CurrentIsLast DEF Phases
  <2>3. torn \in Nat /\ logs \in [Entries -> Nat]
    BY DEF StateTypes, HistoryTypes, StoreTypes
  <2>4. ASSUME NEW e \in Entries
        PROVE  (EntryKept(e) /\ Copied(e))'
    <3>1. EntryKept(e)
      BY DEF EntryInv
    <3>2. logs'[e] = 0 /\ (e \in removed' <=> e \in removed \/ logs[e] > 0)
      BY <2>1
    <3> QED
      BY <2>1, <2>2, <2>3, <3>1, <3>2 DEF EntryKept, Copied
  <2>5. ASSUME NEW d \in Decisions
        PROVE  Fresh(d)'
    <3>1. d \in Entries
      BY EntryKinds
    <3> QED
      BY <2>1, <2>3, <3>1 DEF EntryInv, Fresh, Unlogged
  <2> QED
    BY <2>1, <2>4, <2>5 DEF EntryInv
<1>5. ASSUME NEW n \in Names, NEW v \in {"on", "off"}, SetString(n, v)
      PROVE  EntryInv'
  <2>1. UNCHANGED <<logs, torn, removed, done, db, pc, broadcasts>>
    BY <1>5 DEF SetString
  <2>2. n \notin Entries
    BY EntryKinds
  <2>3. Entries \ failed' \subseteq Entries \ failed
    BY <1>5, <2>2 DEF SetString, Writes
  <2> QED
    BY <2>1, <2>3, CalmEntries
<1>6. CASE \/ \E r \in db.rows, n \in Names : Switch(r, n)
           \/ \E v \in {"allow", "deny"}, timed \in BOOLEAN : Remember(v, timed)
  <2>1. PICK r \in Rows : SetPolicy(r)
    BY <1>6, ScreenWrites
  <2>2. /\ UNCHANGED <<logs, torn, removed, done, pc, broadcasts>>
        /\ db'.logs = db.logs /\ Entries \ failed' \subseteq Entries \ failed
    BY <2>1, PolicyFailures, RowsOnly
  <2> QED
    BY <2>2, CalmEntries
<1>7. CASE TwoWeeksPass \/ UNCHANGED vars
  <2>1. UNCHANGED <<logs, torn, removed, done, db, pc, broadcasts, failed>>
    BY <1>7 DEF TwoWeeksPass, vars, state
  <2> QED
    BY <2>1, CalmEntries
<1> QED
  BY <1>1, <1>2, <1>3, <1>4, <1>5, <1>6, <1>7 DEF Next, Step, UserStep

(* For any number of entries, upgrades, deaths and failing writes: no      *)
(* entry is lost between the databases, none comes back, and none is there *)
(* twice but for the deaths between the commits (SuDatabaseHelper.java:56).*)
THEOREM EntriesKeptAlways == Spec => []EntriesKept
<1>1. TypeInv /\ Phases /\ EntryInv /\ [Next]_vars => EntryInv'
  BY NextEntries DEF TypeInv
<1> QED
  BY InitEntries, <1>1, TypeInvAlways, PhasesAlways, EntriesFollow, PTL DEF Spec

-----------------------------------------------------------------------------
(* The rows in force.                                                      *)

InForce(r, c) ==
  r \in Of(db.rows, c) /\ \A q \in Of(db.rows, c) : q.rowid <= r.rowid

(* The row that is in force, and the last one that was written; onUpgrade  *)
(* adds notification where the column is missing.                          *)
Agrees(r, c) ==
  /\ r.policy = newest[c].policy /\ ~r.timed
  /\ newest[c].flags = IF db.notification THEN r.flags
                                          ELSE r.flags \cup {"tell"}

ForceKept(c) ==
  newest[c] # None /\ ~newest[c].timed => \E r \in Rows : InForce(r, c) /\ Agrees(r, c)

(* A row of each command is left, and an upgrade adds the column or finds  *)
(* it.                                                                     *)
NewestInv ==
  /\ db.version = Current =>
       /\ db.notification
       /\ \A r, q \in db.rows : r.command = q.command => r = q
       /\ \A r \in db.rows : ~r.null
  /\ \A p \in Processes :
       /\ pc[p] = "opening" => seen[p] < Current /\ (seen[p] = 5 => db.notification)
       /\ pc[p] \in {"copying", "upgrading"} => (seen[p] = 5 <=> db.notification)
  /\ db.version = 5 => db.notification
  /\ \A c \in Scopes \ failed : ForceKept(c)

LEMMA NewestFollows ==
  ASSUME StateTypes, NewestInv
  PROVE  NewestKept
<1>1. db.rows \in SUBSET Rows /\ Rowids(db.rows)
  BY DEF StateTypes, DbTypes, Databases
<1>2. ASSUME NEW c \in Scopes \ failed, db.version = Current
      PROVE  \A r, q \in Of(db.rows, c) : r = q /\ ~r.null
  BY <1>2 DEF NewestInv, Of
<1>3. ASSUME NEW c \in Scopes \ failed, newest[c] # None, ~newest[c].timed
      PROVE  \E r \in Of(db.rows, c) :
               /\ r = Last(Of(db.rows, c))
               /\ r.policy = newest[c].policy
               /\ IF db.version = Current THEN r.flags = newest[c].flags
                  ELSE "log" \in r.flags <=> "log" \in newest[c].flags
  <2>1. PICK r \in Rows : InForce(r, c) /\ Agrees(r, c)
    BY <1>3 DEF NewestInv, ForceKept
  <2> DEFINE l == Last(Of(db.rows, c))
  <2>2. l \in Of(db.rows, c) /\ \A q \in Of(db.rows, c) : q.rowid <= l.rowid
    BY <2>1 DEF InForce, Last
  <2> HIDE DEF l
  <2>3. r \in db.rows /\ l \in db.rows /\ r.command = l.command
    BY <2>1, <2>2 DEF InForce, Of
  <2>4. r.rowid \in Nat /\ l.rowid \in Nat
    BY <1>1, <2>3, RowFields
  <2>5. r.rowid <= l.rowid /\ l.rowid <= r.rowid
    BY <2>1, <2>2 DEF InForce
  <2>6. r = l
    BY <1>1, <2>3, <2>4, <2>5 DEF Rowids
  <2>7. /\ r.policy = newest[c].policy
        /\ IF db.version = Current THEN r.flags = newest[c].flags
           ELSE "log" \in r.flags <=> "log" \in newest[c].flags
    BY <2>1 DEF Agrees, NewestInv
  <2> QED
    BY <2>2, <2>6, <2>7 DEF l
<1> QED
  BY <1>2, <1>3 DEF NewestKept

LEMMA InitNewest == Init => NewestInv
<1> SUFFICES ASSUME Init PROVE NewestInv
  OBVIOUS
<1>0. PICK v \in Versions, rs \in LegacyRows, choice \in LegacySettings :
        /\ db = [version |-> v,
                 tables |-> IF v = 0 \/ v > 3 THEN {}
                            ELSE IF v = 3 THEN {"log", "settings"} ELSE {"log"},
                 notification |-> v = 5,
                 logs |-> IF v \in 1..3 THEN LegacyLogs ELSE {},
                 settings |-> IF v = 3 THEN choice ELSE NoSettings,
                 rows |-> IF v = 5 THEN rs
                          ELSE {[r EXCEPT !.flags = @ \ {"tell"}] : r \in rs}]
        /\ newest = [c \in Scopes |->
                       IF Of(rs, c) = {} THEN None
                       ELSE [Last(Of(rs, c)) EXCEPT !.flags =
                               IF v = 5 THEN @ ELSE @ \cup {"tell"}]]
  BY DEF Init
<1>1. /\ db.version = v /\ db.notification = (v = 5)
      /\ db.rows = IF v = 5 THEN rs
                   ELSE {[r EXCEPT !.flags = @ \ {"tell"}] : r \in rs}
      /\ newest = [c \in Scopes |->
                     IF Of(rs, c) = {} THEN None
                     ELSE [Last(Of(rs, c)) EXCEPT !.flags =
                             IF v = 5 THEN @ ELSE @ \cup {"tell"}]]
  BY <1>0
<1>2. v \in 0..5 /\ rs \in SUBSET Rows
  BY BoundAssumption, RowsAssumption
<1>3. failed = {} /\ \A p \in Processes : pc[p] = "dead"
  BY DEF Init
<1>4. ASSUME NEW c \in Scopes, newest[c] # None, ~newest[c].timed
      PROVE  \E r \in Rows : InForce(r, c) /\ Agrees(r, c)
  <2> DEFINE l == Last(Of(rs, c))
  <2>1. Of(rs, c) # {}
    BY <1>1, <1>4
  <2>2. l \in Of(rs, c) /\ \A q \in Of(rs, c) : q.rowid <= l.rowid
    BY <2>1, LastIsOne
  <2>3. newest[c] = [l EXCEPT !.flags = IF v = 5 THEN @ ELSE @ \cup {"tell"}]
    BY <1>1, <2>1
  <2> HIDE DEF l
  <2>4. l \in rs /\ l.command = c /\ l \in Rows
    BY <1>2, <2>2 DEF Of
  <2>5. /\ newest[c].policy = l.policy /\ newest[c].timed = l.timed
        /\ newest[c].flags = IF v = 5 THEN l.flags ELSE l.flags \cup {"tell"}
    BY <2>3, <2>4 DEF Rows
  <2>6. CASE v = 5
    <3>1. InForce(l, c)
      BY <1>1, <2>2, <2>6 DEF InForce
    <3>2. Agrees(l, c)
      BY <1>1, <1>4, <2>5, <2>6 DEF Agrees
    <3> QED
      BY <2>4, <3>1, <3>2
  <2>7. CASE v # 5
    <3> DEFINE Untold(r) == [r EXCEPT !.flags = @ \ {"tell"}]
    <3>1. \A r \in Rows : /\ Untold(r) \in Rows /\ Untold(r).command = r.command
                          /\ Untold(r).rowid = r.rowid
                          /\ Untold(r).policy = r.policy
                          /\ Untold(r).timed = r.timed
                          /\ Untold(r).flags = r.flags \ {"tell"}
      BY DEF Rows
    <3>2. db.rows = {Untold(r) : r \in rs}
      BY <1>1, <2>7
    <3> HIDE DEF Untold
    <3>3. InForce(Untold(l), c)
      <4>1. Untold(l) \in Of(db.rows, c)
        BY <2>4, <3>1, <3>2 DEF Of
      <4>2. ASSUME NEW q \in Of(db.rows, c)
            PROVE  q.rowid <= Untold(l).rowid
        <5>1. PICK a \in rs : q = Untold(a)
          BY <3>2 DEF Of
        <5>2. a \in Of(rs, c) /\ q.rowid = a.rowid
          BY <1>2, <3>1, <5>1 DEF Of
        <5> QED
          BY <2>2, <2>4, <3>1, <5>2
      <4> QED
        BY <4>1, <4>2 DEF InForce
    <3>4. Agrees(Untold(l), c)
      <4>1. l.flags \cup {"tell"} = (l.flags \ {"tell"}) \cup {"tell"}
        OBVIOUS
      <4> QED
        BY <1>1, <1>4, <2>4, <2>5, <2>7, <3>1, <4>1 DEF Agrees
    <3> QED
      BY <2>4, <3>1, <3>3, <3>4
  <2> QED
    BY <2>6, <2>7
<1>5. db.version # Current
  BY <1>1, <1>2 DEF Current
<1> QED
  BY <1>1, <1>3, <1>4, <1>5 DEF NewestInv, ForceKept

(* A step that leaves su.sqlite and the upgrades in progress.              *)
LEMMA CalmNewest ==
  ASSUME NewestInv, UNCHANGED <<db, newest>>,
         Scopes \ failed' \subseteq Scopes \ failed,
         \A p \in Processes : pc'[p] \in InUpgrade =>
                                pc'[p] = pc[p] /\ seen'[p] = seen[p]
  PROVE  NewestInv'
<1>1. \A c \in Scopes \ failed' : ForceKept(c)'
  BY DEF NewestInv, ForceKept, InForce, Agrees
<1> QED
  BY <1>1 DEF NewestInv, InUpgrade

LEMMA CommitNewest ==
  ASSUME StateTypes, Phases, NewestInv, NEW p \in Processes, Commit(p)
  PROVE  NewestInv'
<1> DEFINE rs == IF seen[p] = 5 THEN db.rows ELSE WithTell(db.rows)
           policies == {r \in rs : ~r.timed}
<1>1. PICK written \in SUBSET policies :
        /\ Writes({}, {r.command : r \in policies \ written})
        /\ db' = [version |-> Current, tables |-> {},
                  notification |-> TRUE, logs |-> {},
                  settings |-> NoSettings, rows |-> Rebuilt(written)]
  BY DEF Commit, WithTell
<1>2. db.rows \in SUBSET Rows /\ Rowids(db.rows) /\ ProcessTypes
  BY DEF StateTypes, DbTypes, Databases
<1>3. rs \in SUBSET Rows /\ Rowids(rs)
  BY <1>2, TellRows
<1>4. written \in SUBSET Rows /\ Rowids(written)
  BY <1>3 DEF Rowids
<1>5. /\ Rebuilt(written) \in SUBSET Rows
      /\ \A r \in Rebuilt(written) : ~r.null
      /\ \A r, q \in Rebuilt(written) : r.command = q.command => r = q
  BY <1>4, RebuiltRows
<1>6. /\ pc[p] = "upgrading" /\ pc' = [pc EXCEPT ![p] = "up"]
      /\ seen' = [seen EXCEPT ![p] = 0] /\ newest' = newest
  BY DEF Commit
<1>7. /\ db'.version = Current /\ db'.notification
      /\ db'.rows = Rebuilt(written)
  BY <1>1
<1>8. ASSUME NEW c \in Scopes \ failed', newest[c] # None, ~newest[c].timed
      PROVE  \E r \in Rows : (InForce(r, c) /\ Agrees(r, c))'
  <2>1. c \notin failed /\ \A r \in policies \ written : r.command # c
    BY <1>1 DEF Writes
  <2>2. PICK r \in Rows : InForce(r, c) /\ Agrees(r, c)
    BY <1>8, <2>1 DEF NewestInv, ForceKept
  <2>3. r \in db.rows /\ r.command = c
    BY <2>2 DEF InForce, Of
  (* the row as onUpgrade reads it *)
  <2>4. PICK t \in rs : /\ t.command = c /\ t.policy = newest[c].policy /\ ~t.timed
                        /\ t.flags = newest[c].flags
                        /\ \A q \in Of(rs, c) : q.rowid <= t.rowid
    <3>1. seen[p] = 5 <=> db.notification
      BY <1>6 DEF NewestInv
    <3>2. CASE seen[p] = 5
      <4>1. rs = db.rows
        BY <3>2
      <4> QED
        BY <2>2, <2>3, <3>1, <3>2, <4>1 DEF InForce, Agrees
    <3>3. CASE seen[p] # 5
      <4> DEFINE Told(q) == [q EXCEPT !.flags = @ \cup {"tell"}]
      <4>1. \A q \in Rows : /\ Told(q).command = q.command
                            /\ Told(q).rowid = q.rowid
                            /\ Told(q).policy = q.policy
                            /\ Told(q).timed = q.timed
                            /\ Told(q).flags = q.flags \cup {"tell"}
        BY DEF Rows
      <4>2. rs = {Told(q) : q \in db.rows}
        BY <3>3 DEF WithTell
      <4> HIDE DEF Told, rs
      <4>3. Told(r) \in rs
        BY <2>3, <4>2
      <4>4. ASSUME NEW q \in Of(rs, c)
            PROVE  q.rowid <= Told(r).rowid
        <5>1. PICK a \in db.rows : q = Told(a)
          BY <4>2 DEF Of
        <5>2. a \in Of(db.rows, c) /\ q.rowid = a.rowid
          BY <1>2, <4>1, <5>1 DEF Of
        <5> QED
          BY <2>2, <4>1, <5>2 DEF InForce
      <4>5. /\ Told(r).command = c /\ Told(r).policy = newest[c].policy
            /\ ~Told(r).timed /\ Told(r).flags = newest[c].flags
        BY <2>2, <2>3, <3>1, <3>3, <4>1 DEF Agrees
      <4> QED
        BY <4>3, <4>4, <4>5
    <3> QED
      BY <3>2, <3>3
  <2> HIDE DEF rs
  <2>5. t \in written
    BY <2>1, <2>4
  <2>6. \A o \in Of(written, t.command) : o.rowid <= t.rowid
    BY <2>4 DEF Of
  <2> DEFINE w == [t EXCEPT !.null = FALSE, !.rowid = 0]
  <2>7. w \in Rebuilt(written)
    BY <2>5, <2>6 DEF Rebuilt
  <2>8. /\ w \in Rows /\ w.command = c /\ w.policy = newest[c].policy
        /\ ~w.timed /\ w.flags = newest[c].flags
    BY <1>3, <2>4, RowKeyed
  <2> HIDE DEF w
  <2>9. InForce(w, c)'
    <3>1. w \in Of(db'.rows, c)
      BY <1>7, <2>7, <2>8 DEF Of
    <3>2. \A q \in Of(db'.rows, c) : q = w
      BY <1>5, <1>7, <2>7, <2>8 DEF Of
    <3>3. w.rowid <= w.rowid
      BY <2>8, RowFields
    <3> QED
      BY <3>1, <3>2, <3>3 DEF InForce
  <2>10. Agrees(w, c)'
    BY <1>6, <1>7, <2>8 DEF Agrees
  <2> QED
    BY <2>8, <2>9, <2>10
<1>9. \A c \in Scopes \ failed' : ForceKept(c)'
  BY <1>6, <1>8 DEF ForceKept
<1>10. \A q \in Processes : pc'[q] \notin {"copying", "upgrading"}
  BY <1>2, <1>6 DEF StateTypes, ProcessTypes, Exclusive
<1>11. \A q \in Processes : pc'[q] = "opening" => seen'[q] < Current
  BY <1>2, <1>6 DEF NewestInv, ProcessTypes
<1> QED
  BY <1>5, <1>7, <1>9, <1>10, <1>11 DEF NewestInv

LEMMA UpgradeNewest ==
  ASSUME StateTypes, Phases, NewestInv, NEW p \in Processes,
         Open(p) \/ UpgradeStep(p) \/ Kill(p)
  PROVE  NewestInv'
<1>0. ProcessTypes /\ db.version \in 0..Current /\ Current = 6
  BY DEF StateTypes, DbTypes, Databases, Current
<1>1. CASE Open(p)
  <2>1. /\ UNCHANGED <<db, newest, failed>>
        /\ \A q \in Processes \ {p} : pc'[q] = pc[q] /\ seen'[q] = seen[q]
        /\ \/ pc'[p] = "up"
           \/ pc'[p] = "opening" /\ seen'[p] = db.version /\ db.version # Current
    BY <1>0, <1>1 DEF Open, ProcessTypes
  <2>2. \A c \in Scopes \ failed' : ForceKept(c)'
    BY <2>1 DEF NewestInv, ForceKept, InForce, Agrees
  <2> QED
    BY <1>0, <2>1, <2>2 DEF NewestInv
<1>2. CASE Begin(p)
  <2>1. /\ UNCHANGED <<db, newest, failed, seen>>
        /\ pc[p] = "opening" /\ pc'[p] \in {"copying", "upgrading"}
        /\ \A q \in Processes \ {p} : pc'[q] = pc[q]
    BY <1>0, <1>2 DEF Begin, ProcessTypes
  <2>2. seen[p] < 5 => ~db.notification
    BY <1>2 DEF Begin, Outdated
  <2>3. seen[p] = 5 <=> db.notification
    BY <1>0, <2>1, <2>2 DEF NewestInv, ProcessTypes
  <2>4. \A c \in Scopes \ failed' : ForceKept(c)'
    BY <2>1 DEF NewestInv, ForceKept, InForce, Agrees
  <2> QED
    BY <2>1, <2>3, <2>4 DEF NewestInv
<1>3. CASE Throws(p) \/ Kill(p)
  <2>1. /\ UNCHANGED <<db, newest, failed>>
        /\ \A q \in Processes : pc'[q] \in InUpgrade =>
                                  pc'[q] = pc[q] /\ seen'[q] = seen[q]
    BY <1>0, <1>3 DEF Throws, Kill, Ends, ProcessTypes, InUpgrade
  <2> QED
    BY <2>1, CalmNewest
<1>4. CASE Copy(p)
  <2>1. /\ UNCHANGED <<db, newest, seen>>
        /\ pc[p] = "copying" /\ pc'[p] = "upgrading"
        /\ \A q \in Processes \ {p} : pc'[q] = pc[q]
    BY <1>0, <1>4 DEF Copy, ProcessTypes
  <2>2. Scopes \ failed' \subseteq Scopes \ failed
    <3>1. db.logs \cap Scopes = {} /\ Names \cap Scopes = {}
      BY EntryKinds DEF StateTypes, DbTypes, Databases
    <3> QED
      BY <1>4, <3>1 DEF Copy, Writes
  <2>3. \A c \in Scopes \ failed' : ForceKept(c)'
    BY <2>1, <2>2 DEF NewestInv, ForceKept, InForce, Agrees
  <2> QED
    BY <2>1, <2>3 DEF NewestInv
<1> QED
  BY <1>1, <1>2, <1>3, <1>4, CommitNewest DEF UpgradeStep

LEMMA PolicyNewest ==
  ASSUME StateTypes, Phases, NewestInv, NEW r \in Rows, SetPolicy(r),
         ~r.null, db.version = Current
  PROVE  NewestInv'
<1>1. PICK written \in SUBSET {r.command} :
        /\ failed' = (failed \ written) \cup ({r.command} \ written)
        /\ db' = IF written = {} THEN db
                 ELSE [db EXCEPT !.rows = (@ \ Of(@, r.command)) \cup {r}]
  BY DEF SetPolicy, Writes
<1>2. /\ newest' = [newest EXCEPT ![r.command] = r] /\ UNCHANGED <<pc, seen>>
  BY DEF SetPolicy
<1>3. newest \in [Scopes -> Rows \cup {None}] /\ db \in Databases
  BY DEF StateTypes, HistoryTypes, DbTypes
<1>4. CASE written = {}
  <2>1. db' = db /\ Scopes \ failed' = (Scopes \ failed) \ {r.command}
    BY <1>1, <1>4
  <2>2. ASSUME NEW c \in Scopes \ failed'
        PROVE  ForceKept(c)'
    <3>1. ForceKept(c) /\ newest'[c] = newest[c]
      BY <1>2, <1>3, <2>1 DEF NewestInv
    <3> QED
      BY <2>1, <3>1 DEF ForceKept, InForce, Agrees
  <2> QED
    BY <1>2, <2>1, <2>2 DEF NewestInv
<1>5. CASE written # {}
  <2> DEFINE rows == (db.rows \ Of(db.rows, r.command)) \cup {r}
  <2>1. db' = [db EXCEPT !.rows = rows]
    BY <1>1, <1>3, <1>5 DEF Databases
  <2> HIDE DEF rows
  <2>2. /\ db'.rows = rows /\ db'.version = Current
        /\ db'.notification = db.notification
    BY <1>3, <2>1 DEF Databases
  <2>3. \A q : q \in rows <=> q = r \/ (q \in db.rows /\ q.command # r.command)
    BY DEF rows, Of
  <2>4. db.notification
    BY DEF NewestInv
  <2>5. /\ \A a, b \in rows : a.command = b.command => a = b
        /\ \A a \in rows : ~a.null
    BY <2>3 DEF NewestInv
  <2>6. ASSUME NEW c \in Scopes \ failed', newest'[c] # None, ~newest'[c].timed
        PROVE  \E q \in Rows : (InForce(q, c) /\ Agrees(q, c))'
    <3>1. CASE c = r.command
      <4>1. newest'[c] = r
        BY <1>2, <1>3, <3>1
      <4>2. \A q : q \in Of(rows, c) <=> q = r
        BY <2>3, <3>1 DEF Of
      <4>3. r.rowid <= r.rowid
        BY RowFields
      <4>4. InForce(r, c)'
        BY <2>2, <4>2, <4>3 DEF InForce
      <4>5. Agrees(r, c)'
        BY <2>2, <2>4, <2>6, <4>1 DEF Agrees
      <4> QED
        BY <4>4, <4>5
    <3>2. CASE c # r.command
      <4>1. c \notin failed /\ newest'[c] = newest[c]
        BY <1>1, <1>2, <1>3, <3>2
      <4>2. PICK q \in Rows : InForce(q, c) /\ Agrees(q, c)
        BY <2>6, <4>1 DEF NewestInv, ForceKept
      <4>3. Of(rows, c) = Of(db.rows, c)
        BY <2>3, <3>2 DEF Of
      <4>4. (InForce(q, c) /\ Agrees(q, c))'
        BY <2>2, <4>1, <4>2, <4>3 DEF InForce, Agrees
      <4> QED
        BY <4>4
    <3> QED
      BY <3>1, <3>2
  <2>7. \A c \in Scopes \ failed' : ForceKept(c)'
    BY <2>6 DEF ForceKept
  <2> QED
    BY <1>2, <2>2, <2>4, <2>5, <2>7 DEF NewestInv
<1> QED
  BY <1>4, <1>5

LEMMA NextNewest ==
  ASSUME StateTypes, Phases, NewestInv, [Next]_vars
  PROVE  NewestInv'
<1>1. ASSUME NEW p \in Processes, Open(p) \/ UpgradeStep(p) \/ Kill(p)
      PROVE  NewestInv'
  BY <1>1, UpgradeNewest
<1>2. ASSUME NEW r \in db.rows, NEW n \in Names, Switch(r, n)
      PROVE  NewestInv'
  <2>1. r \in Rows /\ db.version = Current
    BY <1>2 DEF StateTypes, DbTypes, Databases, Switch, Phases
  <2> DEFINE f == IF n \in r.flags THEN r.flags \ {n} ELSE r.flags \cup {n}
             q == [r EXCEPT !.flags = IF n \in @ THEN @ \ {n} ELSE @ \cup {n}]
  <2>2. SetPolicy(q)
    BY <1>2 DEF Switch
  <2>3. f \in SUBSET Names /\ q = [r EXCEPT !.flags = f]
    BY <2>1, RowFields DEF Rows
  <2> HIDE DEF f
  <2>4. q \in Rows /\ q.null = r.null
    BY <2>1, <2>3, RowWithFlags
  <2> HIDE DEF q
  <2>5. ~q.null
    BY <2>1, <2>4 DEF NewestInv
  <2> QED
    BY <2>1, <2>2, <2>4, <2>5, PolicyNewest
<1>3. ASSUME NEW v \in {"allow", "deny"}, NEW timed \in BOOLEAN,
             Remember(v, timed)
      PROVE  NewestInv'
  <2> DEFINE q == [command |-> AllCommands, null |-> FALSE, policy |-> v,
                   timed |-> timed, flags |-> Names, rowid |-> 0]
  <2>1. SetPolicy(q) /\ db.version = Current
    BY <1>3 DEF Remember, Phases
  <2>2. q \in Rows /\ ~q.null
    BY RememberedRow
  <2> HIDE DEF q
  <2> QED
    BY <2>1, <2>2, PolicyNewest
<1>4. ASSUME NEW n \in Names, NEW v \in {"on", "off"}, SetString(n, v)
      PROVE  NewestInv'
  <2>1. UNCHANGED <<db, newest, pc, seen>>
    BY <1>4 DEF SetString
  <2>2. n \notin Scopes
    BY EntryKinds
  <2>3. Scopes \ failed' \subseteq Scopes \ failed
    BY <1>4, <2>2 DEF SetString, Writes
  <2> QED
    BY <2>1, <2>3, CalmNewest
<1>5. CASE AddLog
  <2>1. UNCHANGED <<db, newest, pc, seen>>
    BY <1>5 DEF AddLog
  <2>2. hand # None /\ hand.decision \notin Scopes
    BY <1>5, HandTypes, EntryKinds DEF AddLog
  <2>3. Scopes \ failed' \subseteq Scopes \ failed
    BY <1>5, <2>2 DEF AddLog, Writes
  <2> QED
    BY <2>1, <2>3, CalmNewest
<1>6. CASE \/ \E d \in Decisions : Receive(d) \/ Report(d)
           \/ Tell \/ DeleteLogs \/ TwoWeeksPass \/ UNCHANGED vars
  <2>1. UNCHANGED <<db, newest, pc, seen, failed>>
    BY <1>6 DEF Receive, Report, Tell, DeleteLogs, TwoWeeksPass, vars, state
  <2> QED
    BY <2>1, CalmNewest
<1> QED
  BY <1>1, <1>2, <1>3, <1>4, <1>5, <1>6 DEF Next, Step, ReceiverStep, UserStep

(* Of any rows an earlier version left, the one written last for a command *)
(* is in force after any number of upgrades, with its switches, and no     *)
(* other (SuDatabaseHelper.java:101).                                      *)
THEOREM NewestKeptAlways == Spec => []NewestKept
<1>1. TypeInv /\ Phases /\ NewestInv /\ [Next]_vars => NewestInv'
  BY NextNewest DEF TypeInv
<1>2. TypeInv /\ NewestInv => NewestKept
  BY NewestFollows DEF TypeInv
<1> QED
  BY InitNewest, <1>1, <1>2, TypeInvAlways, PhasesAlways, PTL DEF Spec

-----------------------------------------------------------------------------
(* What is logged and told.                                                *)

(* Every row was written; what is on (off) ever since a decision was       *)
(* reported is on (off) now.                                               *)
RowsWritten == \A r \in db.rows : newest[r.command] # None

StillAsked ==
  \A d \in Decisions : status[d] # "none" => on[d] \subseteq On(d) /\ off[d] \subseteq Off(d)

(* The row in onReceive's hands is as the user had asked when it was read, *)
(* and the settings do not change while it is there.                       *)
HandAgrees(d) ==
  /\ \A n \in on[d] : hand.u = None \/ n \in hand.u.flags
  /\ \A n \in off[d] : chosen[n] = "off" \/ (hand.u # None /\ n \notin hand.u.flags)
  /\ done[d] \cap off[d] = {}
  /\ hand.added /\ "log" \in on[d] => "log" \in done[d]

ReportInv ==
  /\ RowsWritten /\ StillAsked /\ ReportedAsAsked
  /\ hand # None => HandAgrees(hand.decision)

Before == StateTypes /\ Phases /\ SettingInv /\ EntryInv /\ NewestInv

LEMMA InitReport == Init => ReportInv
<1> SUFFICES ASSUME Init PROVE ReportInv
  OBVIOUS
<1>1. PICK v \in Versions, rs \in LegacyRows, choice \in LegacySettings :
        /\ db = [version |-> v,
                 tables |-> IF v = 0 \/ v > 3 THEN {}
                            ELSE IF v = 3 THEN {"log", "settings"} ELSE {"log"},
                 notification |-> v = 5,
                 logs |-> IF v \in 1..3 THEN LegacyLogs ELSE {},
                 settings |-> IF v = 3 THEN choice ELSE NoSettings,
                 rows |-> IF v = 5 THEN rs
                          ELSE {[r EXCEPT !.flags = @ \ {"tell"}] : r \in rs}]
        /\ newest = [c \in Scopes |->
                       IF Of(rs, c) = {} THEN None
                       ELSE [Last(Of(rs, c)) EXCEPT !.flags =
                               IF v = 5 THEN @ ELSE @ \cup {"tell"}]]
  BY DEF Init
<1>2. rs \in SUBSET Rows
  BY RowsAssumption
<1>3. newest \in [Scopes -> Rows \cup {None}] /\ None \notin Rows
  BY InitTypes, NamesAssumption DEF TypeInv, StateTypes, HistoryTypes
<1>4. ASSUME NEW c \in Scopes, Of(rs, c) # {}
      PROVE  newest[c] # None
  <2>1. Last(Of(rs, c)) \in Of(rs, c)
    BY <1>4, LastIsOne
  <2>2. Last(Of(rs, c)) \in Rows
    BY <1>2, <2>1 DEF Of
  <2>3. [Last(Of(rs, c)) EXCEPT !.flags = IF v = 5 THEN @ ELSE @ \cup {"tell"}]
          \in Rows
    BY <2>2, RowFields DEF Rows, Names
  <2> QED
    BY <1>1, <1>3, <1>4, <2>3
<1>5. ASSUME NEW r \in db.rows
      PROVE  newest[r.command] # None
  <2>1. db.rows = IF v = 5 THEN rs
                  ELSE {[q EXCEPT !.flags = @ \ {"tell"}] : q \in rs}
    BY <1>1
  <2>2. PICK q \in rs : q.command = r.command
    BY <1>2, <2>1 DEF Rows
  <2>3. q \in Of(rs, r.command) /\ r.command \in Scopes
    BY <1>2, <2>2, RowFields DEF Of
  <2> QED
    BY <1>4, <2>3
<1>6. hand = None /\ \A d \in Decisions : status[d] = "none"
  BY DEF Init
<1> QED
  BY <1>5, <1>6 DEF ReportInv, RowsWritten, StillAsked, ReportedAsAsked

(* What a step does to what was asked all along.                           *)
LEMMA WatchKeeps ==
  ASSUME ReportInv, Watch, NEW d \in Decisions,
         status[d] = "none" /\ status'[d] # "none" =>
           UNCHANGED <<newest, failed, chosen>>
  PROVE  /\ status'[d] # "none" =>
              on'[d] \subseteq On(d)' /\ off'[d] \subseteq Off(d)'
         /\ status[d] # "none" => on'[d] \subseteq on[d] /\ off'[d] \subseteq off[d]
<1>1. /\ on'[d] = IF status[d] = "none" THEN On(d) ELSE on[d] \cap On(d)'
      /\ off'[d] = IF status[d] = "none" THEN Off(d) ELSE off[d] \cap Off(d)'
  BY DEF Watch
<1>2. CASE status[d] = "none" /\ status'[d] # "none"
  <2>1. On(d)' = On(d) /\ Off(d)' = Off(d)
    BY <1>2 DEF On, Off, Known, Asked
  <2> QED
    BY <1>1, <1>2, <2>1
<1>3. CASE ~(status[d] = "none" /\ status'[d] # "none")
  BY <1>1, <1>3
<1> QED
  BY <1>2, <1>3

(* A step that handles nothing.                                            *)
LEMMA CalmReport ==
  ASSUME ReportInv, Watch, RowsWritten', UNCHANGED done,
         hand' = None \/ (hand' = hand /\ hand.decision \in Decisions
                          /\ status[hand.decision] = "received"
                          /\ UNCHANGED chosen),
         \A d \in Decisions :
           /\ status[d] = "none" /\ status'[d] # "none" =>
                UNCHANGED <<newest, failed, chosen>>
           /\ status'[d] = "handled" => status[d] = "handled"
  PROVE  ReportInv'
<1>1. \A d \in Decisions :
        /\ status'[d] # "none" => on'[d] \subseteq On(d)' /\ off'[d] \subseteq Off(d)'
        /\ status[d] # "none" => on'[d] \subseteq on[d] /\ off'[d] \subseteq off[d]
  BY WatchKeeps
<1>2. StillAsked'
  BY <1>1 DEF StillAsked
<1>3. ReportedAsAsked'
  BY <1>1 DEF ReportInv, ReportedAsAsked
<1>4. (hand # None => HandAgrees(hand.decision))'
  <2> SUFFICES ASSUME hand' # None PROVE HandAgrees(hand.decision)'
    OBVIOUS
  <2>1. /\ hand' = hand /\ hand.decision \in Decisions
        /\ status[hand.decision] = "received"
        /\ UNCHANGED chosen
    OBVIOUS
  <2>2. HandAgrees(hand.decision)
    BY <2>1 DEF ReportInv
  <2>3. PICK d \in Decisions : d = hand.decision /\ d = hand'.decision
    BY <2>1
  <2>4. on'[d] \subseteq on[d] /\ off'[d] \subseteq off[d]
    BY <1>1, <2>1, <2>3
  <2> QED
    BY <2>1, <2>2, <2>3, <2>4 DEF HandAgrees
<1> QED
  BY <1>2, <1>3, <1>4 DEF ReportInv

LEMMA UpgradeReport ==
  ASSUME Before, ReportInv, Watch, NEW p \in Processes,
         Open(p) \/ UpgradeStep(p) \/ Kill(p)
  PROVE  ReportInv'
<1>1. RowsWritten' /\ UNCHANGED <<done, newest, chosen>>
  <2>1. CASE Commit(p)
    <3> DEFINE rs == IF seen[p] = 5 THEN db.rows ELSE WithTell(db.rows)
    <3>1. PICK written \in SUBSET rs : db'.rows = Rebuilt(written)
      BY <2>1 DEF Commit, WithTell
    <3>2. db.rows \in SUBSET Rows /\ Rowids(db.rows)
      BY DEF Before, StateTypes, DbTypes, Databases
    <3>3. \A t \in rs : \E r \in db.rows : t.command = r.command /\ t \in Rows
      <4>1. WithTell(db.rows) \in SUBSET Rows
        BY <3>2, TellRows
      <4>2. \A t \in WithTell(db.rows) : \E r \in db.rows : t.command = r.command
        BY <3>2 DEF WithTell, Rows
      <4> QED
        BY <3>2, <4>1, <4>2
    <3> HIDE DEF rs
    <3>4. \A w \in Rebuilt(written) : \E t \in rs : w.command = t.command
      <4>1. written \in SUBSET Rows
        BY <3>1, <3>3
      <4>2. \A w \in Rebuilt(written) : \E t \in written : w.command = t.command
        BY <4>1, RebuiltCommands
      <4> QED
        BY <3>1, <4>2
    <3>5. newest' = newest /\ done' = done /\ chosen' = chosen
      BY <2>1 DEF Commit
    <3>6. \A r \in db'.rows : newest'[r.command] # None
      BY <3>1, <3>3, <3>4, <3>5 DEF ReportInv, RowsWritten
    <3> QED
      BY <3>5, <3>6 DEF RowsWritten
  <2>2. CASE ~Commit(p)
    <3>1. UNCHANGED <<db, done, newest, chosen>>
      BY <2>2 DEF Open, UpgradeStep, Begin, Throws, Copy, Kill
    <3> QED
      BY <3>1 DEF ReportInv, RowsWritten
  <2> QED
    BY <2>1, <2>2
<1>2. /\ hand' = None \/ hand' = hand
      /\ \A d \in Decisions : status'[d] = status[d]
                              \/ (status[d] # "none" /\ status'[d] = "lost")
  BY DEF Open, UpgradeStep, Begin, Throws, Copy, Commit, Kill, Ends
<1>3. hand # None => hand.decision \in Decisions /\ status[hand.decision] = "received"
  BY HandTypes DEF Before, EntryInv
<1> QED
  BY <1>1, <1>2, <1>3, CalmReport

(* The row that is read is the one the user has written last.              *)
LEMMA ReceivedRow ==
  ASSUME Before, ReportInv, db.version = Current, NEW d \in Decisions,
         Known(d), NEW u \in Concerning(d)
  PROVE  \E q \in Asked(d) : q.flags = u.flags
<1>1. u \in db.rows /\ u.command \in Concerned(d)
  BY DEF Concerning
<1> DEFINE c == u.command
<1>2. c \in Scopes
  BY <1>1, EntryKinds DEF Concerned
<1>3. c \notin failed /\ newest[c] # None
  BY <1>1 DEF Known, ReportInv, RowsWritten
<1>4. newest[c] \in Asked(d)
  BY <1>1, <1>3 DEF Asked
<1>5. ~newest[c].timed
  BY <1>4 DEF Known
<1>6. PICK r \in Rows : InForce(r, c) /\ Agrees(r, c)
  BY <1>2, <1>3, <1>5 DEF Before, NewestInv, ForceKept
<1>7. r = u
  BY <1>1, <1>6 DEF InForce, Of, Before, NewestInv
<1>8. newest[c].flags = u.flags
  BY <1>6, <1>7 DEF Agrees, Before, NewestInv
<1> QED
  BY <1>4, <1>8

LEMMA AskedRow ==
  ASSUME Before, NEW d \in Decisions, Known(d), Asked(d) # {}
  PROVE  Concerning(d) # {}
<1>1. PICK c \in Concerned(d) : newest[c] # None /\ newest[c] \in Asked(d)
  BY DEF Asked
<1>2. c \in Scopes \ failed /\ ~newest[c].timed
  BY <1>1, EntryKinds DEF Concerned, Known
<1>3. PICK r \in Rows : InForce(r, c)
  BY <1>1, <1>2 DEF Before, NewestInv, ForceKept
<1> QED
  BY <1>1, <1>3 DEF InForce, Of, Concerning

LEMMA ReceiveReport ==
  ASSUME Before, ReportInv, Watch, NEW d \in Decisions, Receive(d)
  PROVE  ReportInv'
<1>1. /\ hand = None /\ pc["main"] = "up" /\ status[d] = "sent"
      /\ status' = [status EXCEPT ![d] = "received"]
      /\ UNCHANGED <<db, superuser, pc, seen, old, bounds, history>>
  BY DEF Receive
<1>2. PICK u \in IF Concerning(d) = {} THEN {None} ELSE Concerning(d) :
        hand' = [decision |-> d, u |-> u, added |-> FALSE]
  BY DEF Receive
<1>3. hand'.decision = d /\ hand'.u = u /\ ~hand'.added
  BY <1>2
<1>4. status \in [Decisions -> {"none", "sent", "received", "handled", "lost"}]
  BY DEF Before, StateTypes, BroadcastTypes
<1>5. \A c \in Decisions :
        /\ status'[c] # "none" => on'[c] \subseteq On(c)' /\ off'[c] \subseteq Off(c)'
        /\ status[c] # "none" => on'[c] \subseteq on[c] /\ off'[c] \subseteq off[c]
  BY <1>1, <1>4, WatchKeeps
<1>6. \A c \in Decisions : status'[c] = "handled" => status[c] = "handled"
  BY <1>1, <1>4
<1>7. StillAsked' /\ ReportedAsAsked' /\ RowsWritten'
  <2>1. StillAsked'
    BY <1>5 DEF StillAsked
  <2>2. ReportedAsAsked'
    BY <1>1, <1>5, <1>6 DEF ReportInv, ReportedAsAsked
  <2>3. RowsWritten'
    BY <1>1 DEF ReportInv, RowsWritten
  <2> QED
    BY <2>1, <2>2, <2>3
<1>8. db.version = Current
  BY <1>1 DEF Before, Phases
<1>9. /\ on'[d] \subseteq On(d) /\ off'[d] \subseteq Off(d)
  BY <1>1, <1>5 DEF ReportInv, StillAsked
<1>10. ASSUME NEW n \in on'[d]
       PROVE  u = None \/ n \in u.flags
  <2>1. Known(d) /\ \A q \in Asked(d) : n \in q.flags
    BY <1>9, <1>10 DEF On
  <2>2. CASE u \in Concerning(d)
    <3>1. \E q \in Asked(d) : q.flags = u.flags
      BY <1>8, <2>1, <2>2, ReceivedRow
    <3> QED
      BY <2>1, <3>1
  <2> QED
    BY <2>2
<1>11. ASSUME NEW n \in off'[d], chosen[n] # "off"
       PROVE  u # None /\ n \notin u.flags
  <2>1. Known(d) /\ Asked(d) # {} /\ \A q \in Asked(d) : n \notin q.flags
    BY <1>9, <1>11 DEF Off
  <2>2. u \in Concerning(d)
    BY <2>1, AskedRow
  <2>3. u # None
    BY <2>2, NamesAssumption DEF Concerning, Before, StateTypes, DbTypes, Databases
  <2>4. \E q \in Asked(d) : q.flags = u.flags
    BY <1>8, <2>1, <2>2, ReceivedRow
  <2> QED
    BY <2>1, <2>3, <2>4
<1>12. done[d] = {}
  BY <1>1 DEF Before, EntryInv, Fresh, Unlogged
<1>13. HandAgrees(d)'
  BY <1>1, <1>3, <1>10, <1>11, <1>12 DEF HandAgrees
<1> QED
  BY <1>3, <1>7, <1>13 DEF ReportInv

(* What onReceive finds on (off) is what was asked.                        *)
LEMMA LetsAsked ==
  ASSUME Before, ReportInv, hand # None, NEW n \in Names
  PROVE  LET d == hand.decision IN
           /\ n \in on[d] => Lets(n)
           /\ n \in off[d] => ~Lets(n)
<1> DEFINE d == hand.decision
<1>1. d \in Decisions /\ status[d] = "received" /\ HandAgrees(d)
  BY HandTypes DEF Before, EntryInv, ReportInv
<1>2. SettingKept /\ pc["main"] = "up"
  BY SettingFollows DEF Before, Phases
<1>3. on[d] \subseteq On(d) /\ off[d] \subseteq Off(d)
  BY <1>1 DEF ReportInv, StillAsked
<1>4. n \in on[d] \cup off[d] => settings[n] = chosen[n]
  BY <1>2, <1>3 DEF On, Off, SettingKept
<1>5. n \in on[d] => chosen[n] # "off"
  BY <1>3 DEF On
<1> QED
  BY <1>1, <1>4, <1>5 DEF HandAgrees, Lets

LEMMA HandleReport ==
  ASSUME Before, ReportInv, Watch, AddLog \/ Tell
  PROVE  ReportInv'
<1> DEFINE d == hand.decision
<1>1. hand # None /\ UNCHANGED <<db, newest, chosen>>
  BY DEF AddLog, Tell
<1>2. /\ d \in Decisions /\ status[d] = "received" /\ HandAgrees(d)
      /\ status \in [Decisions -> {"none", "sent", "received", "handled", "lost"}]
      /\ done \in [Decisions -> SUBSET Names]
  BY <1>1, HandTypes DEF Before, EntryInv, ReportInv, StateTypes, BroadcastTypes,
                         HistoryTypes
<1>3. \A c \in Decisions : status'[c] = "none" <=> status[c] = "none"
  BY <1>2 DEF AddLog, Tell
<1>4. \A c \in Decisions :
        /\ status'[c] # "none" => on'[c] \subseteq On(c)' /\ off'[c] \subseteq Off(c)'
        /\ status[c] # "none" => on'[c] \subseteq on[c] /\ off'[c] \subseteq off[c]
  BY <1>3, WatchKeeps
<1>5. StillAsked' /\ RowsWritten'
  BY <1>1, <1>4 DEF StillAsked, ReportInv, RowsWritten
<1>6. on'[d] \subseteq on[d] /\ off'[d] \subseteq off[d]
  BY <1>2, <1>4
<1>7. /\ "log" \in on[d] => Lets("log")
      /\ "log" \in off[d] => ~Lets("log")
      /\ "tell" \in on[d] => Lets("tell")
      /\ "tell" \in off[d] => ~Lets("tell")
  BY <1>1, LetsAsked DEF Names
<1>8. \A c \in Decisions \ {d} :
        done'[c] = done[c] /\ (status'[c] = "handled" => status[c] = "handled")
  BY <1>2 DEF AddLog, Tell
<1>9. \A c \in Decisions \ {d} : status'[c] = "handled" =>
                                   on'[c] \subseteq done'[c] /\ off'[c] \cap done'[c] = {}
  BY <1>4, <1>8 DEF ReportInv, ReportedAsAsked
<1>10. CASE AddLog
  <2>1. hand' = [hand EXCEPT !.added = TRUE] /\ status' = status
    BY <1>10 DEF AddLog
  <2>2. hand'.decision = d /\ hand'.u = hand.u /\ hand'.added
    BY <1>1, <2>1, HandTypes DEF Before
  <2>3. done'[d] = IF Lets("log") THEN done[d] \cup {"log"} ELSE done[d]
    BY <1>2, <1>10 DEF AddLog
  <2>4. HandAgrees(d)'
    BY <1>1, <1>2, <1>6, <1>7, <2>2, <2>3 DEF HandAgrees
  <2>5. ReportedAsAsked'
    BY <1>2, <1>9, <2>1 DEF ReportedAsAsked
  <2> QED
    BY <1>5, <2>2, <2>4, <2>5 DEF ReportInv
<1>11. CASE Tell
  <2>1. hand.added /\ hand' = None
    BY <1>11 DEF Tell
  <2>2. done'[d] = IF Lets("tell") THEN done[d] \cup {"tell"} ELSE done[d]
    BY <1>2, <1>11 DEF Tell
  <2>3. on[d] \subseteq Names
    BY <1>2 DEF ReportInv, StillAsked, On
  <2>4. on'[d] \subseteq done'[d]
    BY <1>2, <1>6, <1>7, <2>1, <2>2, <2>3 DEF HandAgrees, Names
  <2>5. off'[d] \cap done'[d] = {}
    BY <1>2, <1>6, <1>7, <2>2 DEF HandAgrees
  <2>6. ReportedAsAsked'
    BY <1>9, <2>4, <2>5 DEF ReportedAsAsked
  <2> QED
    BY <1>5, <2>1, <2>6 DEF ReportInv
<1> QED
  BY <1>10, <1>11

LEMMA NextReport ==
  ASSUME Before, ReportInv, [Next]_vars
  PROVE  ReportInv'
<1>0. hand # None => hand.decision \in Decisions /\ status[hand.decision] = "received"
  BY HandTypes DEF Before, EntryInv
<1>1. CASE Next
  <2>0. Watch /\ Step
    BY <1>1 DEF Next
  <2>1. ASSUME NEW p \in Processes, Open(p) \/ UpgradeStep(p) \/ Kill(p)
        PROVE  ReportInv'
    BY <2>0, <2>1, UpgradeReport
  <2>2. CASE ReceiverStep
    BY <2>0, <2>2, ReceiveReport, HandleReport DEF ReceiverStep
  <2>3. ASSUME NEW d \in Decisions, Report(d)
        PROVE  ReportInv'
    <3>1. /\ UNCHANGED <<done, hand, chosen, newest, failed, db>>
          /\ status' = [status EXCEPT ![d] = "sent"]
      BY <2>3 DEF Report
    <3>2. \A c \in Decisions : status'[c] = "handled" => status[c] = "handled"
      BY <3>1 DEF Before, StateTypes, BroadcastTypes
    <3>3. RowsWritten'
      BY <3>1 DEF ReportInv, RowsWritten
    <3> QED
      BY <1>0, <2>0, <3>1, <3>2, <3>3, CalmReport
  <2>4. CASE (\E n \in Names, v \in {"on", "off"} : SetString(n, v)) \/ DeleteLogs
    <3>1. UNCHANGED <<done, hand, db, status, newest>> /\ hand = None
      BY <2>4 DEF SetString, DeleteLogs
    <3>2. RowsWritten'
      BY <3>1 DEF ReportInv, RowsWritten
    <3> QED
      BY <2>0, <3>1, <3>2, CalmReport
  <2>5. CASE \/ \E r \in db.rows, n \in Names : Switch(r, n)
             \/ \E v \in {"allow", "deny"}, timed \in BOOLEAN : Remember(v, timed)
    <3>1. PICK r \in Rows : SetPolicy(r)
      BY <2>5, ScreenWrites DEF Before
    <3>2. /\ UNCHANGED <<done, hand, status, chosen>>
          /\ newest' = [newest EXCEPT ![r.command] = r]
          /\ db'.rows \subseteq db.rows \cup {r}
      BY <3>1 DEF SetPolicy, Before, StateTypes, DbTypes, Databases
    <3>3. RowsWritten'
      <4>1. r # None
        BY NamesAssumption
      <4>2. \A q \in db'.rows : q.command \in Scopes
        BY <3>2, RowFields DEF Before, StateTypes, DbTypes, Databases
      <4> QED
        BY <3>2, <4>1, <4>2 DEF ReportInv, RowsWritten, Before, StateTypes,
                                HistoryTypes
    <3> QED
      BY <1>0, <2>0, <3>2, <3>3, CalmReport
  <2>6. CASE TwoWeeksPass
    <3>1. UNCHANGED <<done, hand, status, chosen, newest, db>>
      BY <2>6 DEF TwoWeeksPass
    <3>2. RowsWritten'
      BY <3>1 DEF ReportInv, RowsWritten
    <3> QED
      BY <1>0, <2>0, <3>1, <3>2, CalmReport
  <2> QED
    BY <2>0, <2>1, <2>2, <2>3, <2>4, <2>5, <2>6 DEF Step, UserStep
<1>2. CASE UNCHANGED vars
  <2>1. UNCHANGED <<db, newest, failed, chosen, hand, status, done, on, off>>
    BY <1>2 DEF vars, state
  <2>2. \A d \in Decisions : On(d)' = On(d) /\ Off(d)' = Off(d)
    BY <2>1 DEF On, Off, Known, Asked
  <2> QED
    BY <2>1, <2>2 DEF ReportInv, RowsWritten, StillAsked, ReportedAsAsked,
                      HandAgrees
<1> QED
  BY <1>1, <1>2

(* Every decision that was handled is logged and told as the user wanted   *)
(* it all along, whatever is upgraded, written or restarted in between     *)
(* (SuReceiver.java:63).                                                   *)
THEOREM ReportedAlways == Spec => []ReportedAsAsked
<1>1. Spec => []Before
  <2>1. TypeInv /\ Phases /\ SettingInv /\ [Next]_vars => SettingInv'
    BY NextSetting DEF TypeInv
  <2>2. TypeInv /\ Phases /\ EntryInv /\ [Next]_vars => EntryInv'
    BY NextEntries DEF TypeInv
  <2>3. TypeInv /\ Phases /\ NewestInv /\ [Next]_vars => NewestInv'
    BY NextNewest DEF TypeInv
  <2>4. TypeInv /\ Phases /\ SettingInv /\ EntryInv /\ NewestInv => Before
    BY DEF TypeInv, Before
  <2> QED
    BY InitSetting, InitEntries, InitNewest, <2>1, <2>2, <2>3, <2>4,
       TypeInvAlways, PhasesAlways, PTL DEF Spec
<1>2. ReportInv => ReportedAsAsked
  BY DEF ReportInv
<1> QED
  BY InitReport, NextReport, <1>1, <1>2, PTL DEF Spec

-----------------------------------------------------------------------------
(* What is left of the upgrade, and of a report.                           *)

Moves(p) == Open(p) \/ UpgradeStep(p) \/ Kill(p)

(* The column that version 6 adds, and version 5 may have, is there when   *)
(* the version says so.                                                    *)
Notified == db.notification <=> db.version \in {5, Current}

(* The report that has been received is the one in hand.                   *)
Handled ==
  /\ hand # None => status[hand.decision] = "received"
  /\ \A d \in Decisions :
       status[d] = "received" => hand # None /\ hand.decision = d

(* The guards of what a process, and the receiver, does next.              *)
Upgrades(p) == pc[p] \in {"copying", "upgrading"}

ProcessCan(p) == Upgrades(p) \/ (pc[p] \in {"dead", "opening"} /\ ~Locked)

ReceiverCan ==
  \/ hand # None
  \/ pc["main"] = "up" /\ ~Locked /\ \E d \in Decisions : status[d] = "sent"

(* A process that is not up can go on, or waits for the other one, which   *)
(* upgrades and can; while a report is on its way the receiver can go on,  *)
(* or one of the processes, which have it started, can.                    *)
NobodyStuck ==
  /\ \A p \in Processes :
       \/ pc[p] = "up" \/ ProcessCan(p)
       \/ \E q \in Processes \ {p} : Upgrades(q) /\ ProcessCan(q)
  /\ \A d \in Decisions :
       status[d] \in {"sent", "received"} =>
         ReceiverCan \/ \E p \in Processes : ProcessCan(p)

(* How many steps a process is away from being up: the one that finds its  *)
(* upgrade done by the other throws, and is up when it is started again.   *)
Place(p) ==
  CASE pc[p] = "up" -> 0
    [] pc[p] = "upgrading" -> 1
    [] pc[p] = "copying" -> 2
    [] pc[p] = "opening" -> 3
    [] OTHER -> IF db.version = Current THEN 1 ELSE 4

UpgradeWork == 5 * (MaxKills - kills) + Place("main") + Place("superuser")

UpgradeShrinks ==
  [][/\ UpgradeWork' <= UpgradeWork
     /\ (\E p \in Processes : Moves(p)) => UpgradeWork' < UpgradeWork]_vars

(* How far a report is from its end.                                       *)
Stage(d) ==
  CASE status[d] = "none" -> 4
    [] status[d] = "sent" -> 3
    [] status[d] = "received" -> IF hand # None /\ hand.added THEN 1 ELSE 2
    [] OTHER -> 0

HandledOnce ==
  [][/\ \A d \in Decisions : Stage(d)' <= Stage(d)
     /\ ReceiverStep => \E d \in Decisions : Stage(d)' < Stage(d)]_vars

LEMMA InitEnd == Init => Notified /\ Handled
<1> SUFFICES ASSUME Init PROVE Notified /\ Handled
  OBVIOUS
<1>1. PICK v \in Versions : db.version = v /\ db.notification = (v = 5)
  BY DEF Init
<1>2. v \in 0..5 /\ v # 6
  BY BoundAssumption
<1>3. Notified
  <2>1. v \in {5, Current} <=> v = 5
    BY <1>2 DEF Current
  <2>2. db.notification <=> v = 5
    BY <1>1
  <2> QED
    BY <1>1, <2>1, <2>2 DEF Notified
<1>4. hand = None /\ \A d \in Decisions : status[d] = "none"
  BY DEF Init
<1> QED
  BY <1>3, <1>4 DEF Handled

(* A process that ends loses what it had in hand.                          *)
LEMMA EndHandled ==
  ASSUME StateTypes, Handled, NEW p \in Processes, Ends(p)
  PROVE  /\ Handled'
         /\ \A d \in Decisions : Stage(d)' <= Stage(d)
<1>1. CASE p = "main"
  <2>1. PICK lost \in SUBSET {d \in Decisions : status[d] = "sent"} :
          status' = [d \in Decisions |->
                       IF d \in lost \/ status[d] = "received"
                       THEN "lost" ELSE status[d]]
    BY <1>1 DEF Ends
  <2>2. hand' = None
    BY <1>1 DEF Ends
  <2>3. \A d \in Decisions : \/ status'[d] = "lost"
                             \/ status'[d] = status[d] /\ status[d] # "received"
    BY <2>1
  <2>4. Handled'
    BY <2>2, <2>3 DEF Handled
  <2>5. \A d \in Decisions : Stage(d)' <= Stage(d)
    BY <2>3 DEF Stage
  <2> QED
    BY <2>4, <2>5
<1>2. CASE p # "main"
  <2>1. UNCHANGED <<hand, status>>
    BY <1>2 DEF Ends
  <2> QED
    BY <2>1 DEF Handled, Stage
<1> QED
  BY <1>1, <1>2

(* A step of the receiver takes one report further, and no other back.     *)
LEMMA ReceiverHandled ==
  ASSUME StateTypes, Handled, ReceiverStep
  PROVE  /\ Handled' /\ UNCHANGED <<pc, db, kills>>
         /\ \A d \in Decisions : Stage(d)' <= Stage(d)
         /\ \E d \in Decisions : Stage(d)' < Stage(d)
<1>0. BroadcastTypes /\ None \notin Decisions
  BY NamesAssumption DEF StateTypes
<1>1. ASSUME NEW d \in Decisions, Receive(d)
      PROVE  /\ Handled' /\ UNCHANGED <<pc, db, kills>>
             /\ \A c \in Decisions : Stage(c)' <= Stage(c)
             /\ \E c \in Decisions : Stage(c)' < Stage(c)
  <2>1. PICK u \in Rows \cup {None} :
          hand' = [decision |-> d, u |-> u, added |-> FALSE]
    BY <1>1 DEF Receive, Concerning, StateTypes, DbTypes, Databases
  <2>2. /\ hand = None /\ status[d] = "sent"
        /\ status' = [status EXCEPT ![d] = "received"]
        /\ UNCHANGED <<pc, db, kills>>
    BY <1>1 DEF Receive
  <2>3. hand'.decision = d /\ ~hand'.added
    BY <2>1
  <2>4. hand' # None
    <3>1. hand' \in Hands
      BY <2>1
    <3> QED
      BY <3>1, NamesAssumption
  <2>5. /\ \A c \in Decisions \ {d} :
             status'[c] = status[c] /\ status[c] # "received"
        /\ status'[d] = "received"
    BY <1>0, <2>2 DEF BroadcastTypes, Handled
  <2>6. Handled'
    BY <2>3, <2>4, <2>5 DEF Handled
  <2>7. \A c \in Decisions \ {d} : Stage(c)' = Stage(c)
    BY <2>5 DEF Stage
  <2>8. Stage(d)' = 2 /\ Stage(d) = 3
    BY <2>2, <2>3, <2>5 DEF Stage
  <2>9. \A c \in Decisions : Stage(c) \in Nat
    BY DEF Stage
  <2> QED
    BY <2>2, <2>6, <2>7, <2>8, <2>9
<1>2. CASE AddLog
  <2>1. PICK d \in Decisions : d = hand.decision
    BY <1>0, <1>2 DEF AddLog, BroadcastTypes
  <2>2. /\ hand # None /\ ~hand.added
        /\ hand' = [hand EXCEPT !.added = TRUE]
        /\ UNCHANGED <<status, pc, db, kills>>
    BY <1>2 DEF AddLog
  <2>3. hand \in Hands
    BY <1>0, <2>2 DEF BroadcastTypes
  <2>4. hand' \in Hands /\ hand'.decision = d /\ hand'.added
    BY <2>1, <2>2, <2>3
  <2>5. hand' # None
    BY <2>4, NamesAssumption
  <2>6. /\ status[d] = "received"
        /\ \A c \in Decisions \ {d} : status[c] # "received"
    BY <2>1, <2>2 DEF Handled
  <2>7. Handled'
    BY <2>1, <2>2, <2>4, <2>5, <2>6 DEF Handled
  <2>8. \A c \in Decisions \ {d} : Stage(c)' = Stage(c)
    BY <2>2, <2>6 DEF Stage
  <2>9. Stage(d)' = 1 /\ Stage(d) = 2
    BY <2>2, <2>4, <2>5, <2>6 DEF Stage
  <2>10. \A c \in Decisions : Stage(c) \in Nat
    BY DEF Stage
  <2> QED
    BY <2>2, <2>7, <2>8, <2>9, <2>10
<1>3. CASE Tell
  <2>1. PICK d \in Decisions : d = hand.decision
    BY <1>0, <1>3 DEF Tell, BroadcastTypes
  <2>2. /\ hand # None /\ hand.added /\ hand' = None
        /\ status' = [status EXCEPT ![d] = "handled"]
        /\ UNCHANGED <<pc, db, kills>>
    BY <1>3, <2>1 DEF Tell
  <2>3. /\ status[d] = "received" /\ status'[d] = "handled"
        /\ \A c \in Decisions \ {d} :
             status'[c] = status[c] /\ status[c] # "received"
    BY <1>0, <2>1, <2>2 DEF BroadcastTypes, Handled
  <2>4. Handled'
    BY <2>2, <2>3 DEF Handled
  <2>5. \A c \in Decisions \ {d} : Stage(c)' = Stage(c)
    BY <2>3 DEF Stage
  <2>6. Stage(d)' = 0 /\ Stage(d) = 1
    BY <2>2, <2>3 DEF Stage
  <2>7. \A c \in Decisions : Stage(c) \in Nat
    BY DEF Stage
  <2> QED
    BY <2>2, <2>4, <2>5, <2>6, <2>7
<1> QED
  BY <1>1, <1>2, <1>3 DEF ReceiverStep

(* A step of a process brings it nearer to being up, and the other one no  *)
(* further away.                                                           *)
LEMMA OneMoves ==
  ASSUME StateTypes, StateTypes', Notified, Phases, NEW p \in Processes,
         Open(p) \/ UpgradeStep(p)
  PROVE  /\ Place(p)' < Place(p)
         /\ \A q \in Processes \ {p} : Place(q)' <= Place(q)
         /\ UNCHANGED kills /\ Notified'
<1> USE DEF UpgradeStep
<1>0. ProcessTypes /\ db.version \in 0..Current /\ DbTypes
  BY DEF StateTypes, DbTypes, Databases
<1>1. CASE Open(p)
  <2>1. /\ \A q \in Processes \ {p} : pc'[q] = pc[q]
        /\ pc[p] = "dead" /\ UNCHANGED <<db, kills>>
        /\ \/ db.version = Current /\ pc'[p] = "up"
           \/ db.version # Current /\ pc'[p] = "opening"
    BY <1>0, <1>1 DEF Open, ProcessTypes
  <2>2. Place(p)' < Place(p)
    BY <2>1 DEF Place
  <2>3. \A q \in Processes \ {p} : Place(q)' = Place(q) /\ Place(q) \in Nat
    BY <2>1 DEF Place
  <2> QED
    BY <2>1, <2>2, <2>3 DEF Notified
<1>2. CASE Begin(p) \/ Copy(p)
  <2>1. /\ \A q \in Processes \ {p} : pc'[q] = pc[q]
        /\ \/ pc[p] = "opening" /\ pc'[p] \in {"copying", "upgrading"}
           \/ pc[p] = "copying" /\ pc'[p] = "upgrading"
        /\ UNCHANGED <<db, kills>>
    BY <1>0, <1>2 DEF Begin, Copy, ProcessTypes
  <2>2. Place(p)' < Place(p)
    BY <2>1 DEF Place
  <2>3. \A q \in Processes \ {p} : Place(q)' = Place(q) /\ Place(q) \in Nat
    BY <2>1 DEF Place
  <2> QED
    BY <2>1, <2>2, <2>3 DEF Notified
<1>3. CASE Throws(p)
  <2>1. /\ \A q \in Processes \ {p} : pc'[q] = pc[q]
        /\ pc[p] = "opening" /\ pc'[p] = "dead" /\ UNCHANGED <<db, kills>>
    BY <1>0, <1>3 DEF Throws, Ends, ProcessTypes
  <2>2. db.version = Current
    <3>1. db.version \in {seen[p], Current} /\ seen[p] \in 0..Current
      BY <1>0, <2>1 DEF Phases, InUpgrade, ProcessTypes
    <3>2. CASE seen[p] \in 1..3 /\ "log" \notin db.tables
      BY <3>1, <3>2 DEF Phases, Moving
    <3>3. CASE seen[p] < 5 /\ db.notification
      <4>1. db.version \in {5, Current}
        BY <3>3 DEF Notified
      <4> QED
        BY <3>1, <3>3, <4>1 DEF Current
    <3> QED
      BY <1>3, <3>2, <3>3 DEF Throws, Outdated
  <2>3. Place(p)' < Place(p)
    BY <2>1, <2>2 DEF Place
  <2>4. \A q \in Processes \ {p} : Place(q)' = Place(q) /\ Place(q) \in Nat
    BY <2>1 DEF Place
  <2> QED
    BY <2>1, <2>3, <2>4 DEF Notified
<1>4. CASE Commit(p)
  <2>1. /\ \A q \in Processes \ {p} : pc'[q] = pc[q]
        /\ pc[p] = "upgrading" /\ pc'[p] = "up" /\ UNCHANGED kills
        /\ db'.version = Current /\ db'.notification = TRUE
    BY <1>0, <1>4 DEF Commit, ProcessTypes
  <2>2. Place(p)' < Place(p)
    BY <2>1 DEF Place
  <2>3. \A q \in Processes \ {p} : Place(q)' <= Place(q)
    BY <2>1 DEF Place
  <2> QED
    BY <2>1, <2>2, <2>3 DEF Notified
<1> QED
  BY <1>1, <1>2, <1>3, <1>4

(* ... and nobody else takes it back.                                      *)
LEMMA OthersStay ==
  ASSUME StateTypes, Notified,
         \/ ReceiverStep \/ UserStep \/ TwoWeeksPass \/ UNCHANGED vars
         \/ \E d \in Decisions : Report(d)
  PROVE  UNCHANGED <<pc, kills>> /\ db'.version = db.version /\ Notified'
<1>1. CASE \/ ReceiverStep \/ TwoWeeksPass \/ UNCHANGED vars
           \/ \E d \in Decisions : Report(d)
  <2>1. UNCHANGED <<pc, kills, db>>
    BY <1>1 DEF ReceiverStep, Receive, AddLog, Tell, TwoWeeksPass, vars, state,
                Report
  <2> QED
    BY <2>1 DEF Notified
<1>2. CASE UserStep
  <2>1. UNCHANGED <<pc, kills>>
    BY <1>2 DEF UserStep, SetString, DeleteLogs, Switch, Remember, SetPolicy,
                Changes
  <2>2. CASE UNCHANGED db
    BY <2>1, <2>2 DEF Notified
  <2>3. CASE \E r : SetPolicy(r)
    <3>1. db'.version = db.version /\ db'.notification = db.notification
      BY <2>3 DEF SetPolicy, StateTypes, DbTypes, Databases
    <3> QED
      BY <2>1, <3>1 DEF Notified
  <2> QED
    BY <1>2, <2>2, <2>3 DEF UserStep, SetString, DeleteLogs, Switch, Remember
<1> QED
  BY <1>1, <1>2

LEMMA ReportHandled ==
  ASSUME StateTypes, Handled, NEW d \in Decisions, Report(d)
  PROVE  Handled' /\ \A c \in Decisions : Stage(c)' <= Stage(c)
<1>1. /\ UNCHANGED hand /\ status[d] = "none" /\ status'[d] = "sent"
      /\ \A c \in Decisions \ {d} : status'[c] = status[c]
  BY DEF Report, StateTypes, BroadcastTypes
<1>2. Handled'
  BY <1>1, HandTypes DEF Handled
<1>3. Stage(d)' = 3 /\ Stage(d) = 4
  BY <1>1 DEF Stage
<1>4. \A c \in Decisions \ {d} : Stage(c)' = Stage(c) /\ Stage(c) \in Nat
  BY <1>1 DEF Stage
<1> QED
  BY <1>2, <1>3, <1>4

LEMMA NextHandled ==
  ASSUME StateTypes, Handled, [Next]_vars
  PROVE  /\ Handled' /\ \A d \in Decisions : Stage(d)' <= Stage(d)
         /\ ReceiverStep => \E d \in Decisions : Stage(d)' < Stage(d)
<1>1. CASE ReceiverStep
  BY <1>1, ReceiverHandled
<1>2. CASE ~ReceiverStep /\ \E d \in Decisions : Report(d)
  BY <1>2, ReportHandled
<1>3. CASE ~ReceiverStep /\ \E p \in Processes : Throws(p) \/ Kill(p)
  BY <1>3, EndHandled DEF Throws, Kill
<1>4. CASE /\ ~ReceiverStep
           /\ \/ \E p \in Processes : Open(p) \/ Begin(p) \/ Copy(p) \/ Commit(p)
              \/ UserStep \/ TwoWeeksPass \/ UNCHANGED vars
  <2>1. UNCHANGED broadcasts
    BY <1>4 DEF Open, Begin, Copy, Commit, UserStep, SetString, DeleteLogs,
                Switch, Remember, SetPolicy, TwoWeeksPass, vars, state
  <2>2. \A d \in Decisions : Stage(d)' = Stage(d) /\ Stage(d) \in Nat
    BY <2>1 DEF Stage
  <2> QED
    BY <1>4, <2>1, <2>2 DEF Handled
<1> QED
  BY <1>1, <1>2, <1>3, <1>4 DEF Next, Step, UpgradeStep

FewKills == kills <= MaxKills

LEMMA NextUpgrade ==
  ASSUME StateTypes, StateTypes', Phases, Notified, kills <= MaxKills, [Next]_vars
  PROVE  /\ Notified' /\ kills' <= MaxKills
         /\ UpgradeWork' <= UpgradeWork
         /\ (\E p \in Processes : Moves(p)) => UpgradeWork' < UpgradeWork
<1>0. /\ Place("main") \in 0..4 /\ Place("superuser") \in 0..4
      /\ Place("main")' \in 0..4 /\ Place("superuser")' \in 0..4
      /\ kills \in Nat /\ kills' \in Nat /\ MaxKills \in Nat
  <2>1. \A p \in Processes : Place(p) \in 0..4 /\ Place(p)' \in 0..4
    BY DEF Place
  <2> QED
    BY <2>1, BoundAssumption DEF StateTypes, HistoryTypes
<1>1. ASSUME NEW p \in Processes, Open(p) \/ UpgradeStep(p)
      PROVE  /\ Notified' /\ kills' <= MaxKills /\ UpgradeWork' < UpgradeWork
  <2>1. /\ Place(p)' < Place(p) /\ UNCHANGED kills /\ Notified'
        /\ \A q \in Processes \ {p} : Place(q)' <= Place(q)
    BY <1>1, OneMoves
  <2>2. CASE p = "main"
    <3>1. Place("main")' < Place("main") /\ Place("superuser")' <= Place("superuser")
      BY <2>1, <2>2
    <3> QED
      BY <1>0, <2>1, <3>1 DEF UpgradeWork
  <2>3. CASE p = "superuser"
    <3>1. Place("superuser")' < Place("superuser") /\ Place("main")' <= Place("main")
      BY <2>1, <2>3
    <3> QED
      BY <1>0, <2>1, <3>1 DEF UpgradeWork
  <2> QED
    BY <2>2, <2>3
<1>2. ASSUME NEW p \in Processes, Kill(p)
      PROVE  /\ Notified' /\ kills' <= MaxKills /\ UpgradeWork' < UpgradeWork
  <2>1. /\ kills' = kills + 1 /\ kills < MaxKills /\ UNCHANGED db
        /\ \A q \in Processes \ {p} : pc'[q] = pc[q]
    BY <1>2 DEF Kill, Ends, StateTypes, ProcessTypes
  <2>2. \A q \in Processes \ {p} : Place(q)' = Place(q)
    BY <2>1 DEF Place
  <2>3. Place("main")' + Place("superuser")'
          <= Place("main") + Place("superuser") + 4
    <3>1. CASE p = "main"
      <4>1. Place("superuser")' = Place("superuser")
        BY <2>2, <3>1
      <4> QED
        BY <1>0, <4>1
    <3>2. CASE p = "superuser"
      <4>1. Place("main")' = Place("main")
        BY <2>2, <3>2
      <4> QED
        BY <1>0, <4>1
    <3> QED
      BY <3>1, <3>2
  <2> QED
    BY <1>0, <2>1, <2>3 DEF UpgradeWork, Notified
<1>3. CASE \A p \in Processes : ~Moves(p)
  <2>1. \/ ReceiverStep \/ UserStep \/ TwoWeeksPass \/ UNCHANGED vars
        \/ \E d \in Decisions : Report(d)
    BY <1>3 DEF Next, Step, Moves
  <2>2. UNCHANGED <<pc, kills>> /\ db'.version = db.version /\ Notified'
    BY <2>1, OthersStay
  <2>3. \A p \in Processes : Place(p)' = Place(p)
    BY <2>2 DEF Place
  <2>4. Place("main")' = Place("main") /\ Place("superuser")' = Place("superuser")
    BY <2>3
  <2> QED
    BY <1>0, <1>3, <2>2, <2>4 DEF UpgradeWork
<1>4. CASE \E p \in Processes : Moves(p)
  <2>1. UpgradeWork' < UpgradeWork /\ Notified' /\ kills' <= MaxKills
    BY <1>1, <1>2, <1>4 DEF Moves
  <2> QED
    BY <1>0, <2>1 DEF UpgradeWork
<1> QED
  BY <1>3, <1>4

LEMMA ProcessesMove ==
  ASSUME StateTypes, Phases, Handled
  PROVE  NobodyStuck
<1>1. ASSUME NEW p \in Processes
      PROVE  \/ pc[p] = "up" \/ ProcessCan(p)
             \/ \E q \in Processes \ {p} : Upgrades(q) /\ ProcessCan(q)
  <2>1. pc[p] \in {"dead", "opening", "copying", "upgrading", "up"}
    BY DEF StateTypes, ProcessTypes
  <2> QED
    BY <2>1 DEF ProcessCan, Upgrades, Locked
<1>2. ASSUME NEW d \in Decisions, status[d] \in {"sent", "received"}
      PROVE  ReceiverCan \/ \E p \in Processes : ProcessCan(p)
  <2>1. CASE status[d] = "received"
    BY <2>1 DEF Handled, ReceiverCan
  <2>2. CASE status[d] = "sent" /\ pc["main"] = "up" /\ ~Locked
    BY <2>2 DEF ReceiverCan
  <2>3. CASE pc["main"] # "up" \/ Locked
    <3>1. "main" \in Processes
      OBVIOUS
    <3> QED
      BY <1>1, <2>3, <3>1 DEF Locked, ProcessCan, Upgrades
  <2> QED
    BY <1>2, <2>1, <2>2, <2>3
<1> QED
  BY <1>1, <1>2 DEF NobodyStuck

(* Neither process waits for one that cannot go on, whatever has died, and *)
(* while a report is on its way somebody can take it further: the lock of  *)
(* su.sqlite is held by nobody who is gone (SQLiteOpenHelper, and          *)
(* SuDatabaseHelper.java:42).                                              *)
THEOREM NobodyStuckTheorem == Spec => []NobodyStuck
<1>1. TypeInv /\ Handled /\ [Next]_vars => Handled'
  BY NextHandled DEF TypeInv
<1>2. TypeInv /\ Phases /\ Handled => NobodyStuck
  BY ProcessesMove DEF TypeInv
<1> QED
  BY InitEnd, <1>1, <1>2, TypeInvAlways, PhasesAlways, PTL DEF Spec

(* Every start, every step of an upgrade and every death brings the two    *)
(* processes nearer to being up, with all of the upgrade done once, and    *)
(* nothing else takes that back: also the start that finds its upgrade     *)
(* done by the other process, and throws (SuDatabaseHelper.java:42).       *)
THEOREM UpgradeTheorem == Spec => UpgradeShrinks
<1>1. Init => FewKills
  BY BoundAssumption DEF Init, FewKills
<1>2. TypeInv /\ TypeInv' /\ Phases /\ Notified /\ FewKills /\ [Next]_vars
        => /\ Notified' /\ FewKills'
           /\ [/\ UpgradeWork' <= UpgradeWork
               /\ (\E p \in Processes : Moves(p)) => UpgradeWork' < UpgradeWork]_vars
  <2> SUFFICES ASSUME StateTypes, StateTypes', Phases, Notified,
                      FewKills, [Next]_vars
               PROVE  /\ Notified' /\ FewKills'
                      /\ UpgradeWork' <= UpgradeWork
                      /\ (\E p \in Processes : Moves(p)) =>
                           UpgradeWork' < UpgradeWork
    BY DEF TypeInv
  <2> QED
    BY NextUpgrade DEF FewKills
<1> QED
  BY InitEnd, <1>1, <1>2, TypeInvAlways, PhasesAlways, PTL
     DEF Spec, UpgradeShrinks

(* No report goes back a stage, and each step of the receiver takes one of *)
(* them further: none is handled twice, or put off for ever by the others  *)
(* (SuReceiver.java:34).                                                   *)
THEOREM HandledTheorem == Spec => HandledOnce
<1>1. TypeInv /\ Handled /\ [Next]_vars
        => /\ Handled'
           /\ [/\ \A d \in Decisions : Stage(d)' <= Stage(d)
               /\ ReceiverStep => \E d \in Decisions : Stage(d)' < Stage(d)]_vars
  BY NextHandled DEF TypeInv
<1> QED
  BY InitEnd, <1>1, TypeInvAlways, PTL DEF Spec, HandledOnce
=============================================================================
