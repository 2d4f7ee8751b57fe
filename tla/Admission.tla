------------------------------ MODULE Admission ------------------------------
(***************************************************************************)
(* SqliteStore.__init__ and compatibility.py: processes of one software    *)
(* version that open the same database.  An opener inspects, bootstraps a  *)
(* fresh database statement by statement or migrates an older one in one   *)
(* transaction, inspects again, and is admitted or refused; it may die or  *)
(* meet an SQLite error anywhere.                                          *)
(***************************************************************************)
EXTENDS Integers, Sequences, SequencesExt

CONSTANTS
  Procs,      \* openers
  Version,    \* EXPECTED_SCHEMA_VERSION
  Marker,     \* the table schema_migrations
  Schema,     \* tables of schema.sql, in its order
  Since,      \* the version a table came with
  Alters,     \* <<v, t>>: migration v adds columns to table t
  MaxFaults   \* bound on crashes and SQLite errors

Tables == ToSet(Schema)
Versions == 1..Version

ASSUME AdmissionAssumption ==
  /\ Version \in Nat \ {0} /\ MaxFaults \in Nat
  /\ Schema \in Seq(Tables) /\ Schema # <<>> /\ Head(Schema) = Marker
  /\ Since \in [Tables -> Versions] /\ Since[Marker] = 1
  /\ \A a \in Alters : a[1] \in Versions /\ a[2] \in Tables /\ Since[a[2]] < a[1]

VARIABLES
  db,      \* committed tables, altered columns and version rows
  origin,  \* what was there at first
  proc,    \* where each opener is
  faults

vars == <<db, origin, proc, faults>>

-----------------------------------------------------------------------------
Fresh == [tables |-> {}, columns |-> {}, stamps |-> {}]

\* The store of an earlier version (or of this one).
Valid(v) ==
  [tables |-> {t \in Tables : Since[t] <= v}, columns |-> {a \in Alters : a[1] <= v},
   stamps |-> 1..v]

Vouched == {Valid(v) : v \in Versions}
Current == Valid(Version)

\* Stores no version of the software leaves behind: another program's
\* tables, a later version's, a lost table, a migration begun by hand.
Foreign == {[tables |-> {t}, columns |-> {}, stamps |-> {}] : t \in Tables \ {Marker}}

Newer == [tables |-> Tables, columns |-> Alters, stamps |-> 1..(Version + 1)]

Torn == {[tables |-> Tables \ {t}, columns |-> {a \in Alters : a[2] # t},
          stamps |-> Versions] : t \in Tables \ {Marker}}

Half(a) ==
  [tables |-> Valid(a[1] - 1).tables, columns |-> Valid(a[1] - 1).columns \cup {a},
   stamps |-> 1..(a[1] - 1)]

Unvouched == {Newer} \cup Foreign \cup Torn \cup {Half(a) : a \in Alters}

Origins == {Fresh} \cup {Valid(v) : v \in Versions} \cup Unvouched

Idle == [pc |-> "idle", version |-> 0, next |-> 1]

Init ==
  /\ origin \in Origins
  /\ db = origin
  /\ proc = [p \in Procs |-> Idle]
  /\ faults = 0

-----------------------------------------------------------------------------
\* inspect_compatibility.  Of the columns only those of the newest
\* migration are looked at.
MutantVerdict(d) ==    \* no marker, no state: the rule before the barrier
  IF d.stamps = {} THEN "FRESH"
  ELSE IF \E v \in d.stamps : v > Version THEN "INCOMPATIBLE_NEWER"
  ELSE IF Version \notin d.stamps THEN "MIGRATION_REQUIRED"
  ELSE "COMPATIBLE"

Verdict(d) ==
  IF d.tables = {} THEN "FRESH"
  ELSE IF Marker \notin d.tables \/ d.stamps = {} THEN "UNKNOWN"
  ELSE IF \E v \in d.stamps : v > Version THEN "INCOMPATIBLE_NEWER"
  ELSE IF Version \notin d.stamps THEN "MIGRATION_REQUIRED"
  ELSE IF Tables \subseteq d.tables /\ {a \in Alters : a[1] = Version} \subseteq d.columns
       THEN "COMPATIBLE" ELSE "PARTIAL"

Unadmittable == {"INCOMPATIBLE_NEWER", "UNKNOWN", "PARTIAL"}

Move(p, pc) == proc' = [proc EXCEPT ![p].pc = pc]

\* The newest version row.
Observed(d) == CHOOSE v \in d.stamps : \A w \in d.stamps : w <= v

\* The inspection that counts: read-only, or on the read-write handle when
\* a read-only one cannot be had.  A refusal by the first is final.
Inspect(p) ==
  /\ proc[p].pc = "idle"
  /\ LET verdict == Verdict(db) IN
     \/ verdict = "COMPATIBLE" /\ Move(p, "admitted")
     \/ verdict = "FRESH" /\ Move(p, "bootstrapping")
     \/ /\ verdict = "MIGRATION_REQUIRED"
        /\ proc' = [proc EXCEPT ![p].pc = "migrating", ![p].version = Observed(db)]
     \/ verdict \in Unadmittable /\ (Move(p, "refused") \/ Move(p, "verifying"))
  /\ UNCHANGED <<db, origin, faults>>

\* The next CREATE TABLE IF NOT EXISTS of executescript, a commit of its own.
CreateTable(p) ==
  LET t == Schema[proc[p].next] IN
  /\ proc[p].pc \in {"bootstrapping", "finalizing"} /\ proc[p].next <= Len(Schema)
  /\ IF t \in db.tables THEN UNCHANGED db
     ELSE db' = [tables |-> db.tables \cup {t},
                 columns |-> db.columns \cup {a \in Alters : a[2] = t},
                 stamps |-> db.stamps]
  /\ proc' = [proc EXCEPT ![p].next = @ + 1]
  /\ UNCHANGED <<origin, faults>>

\* _bootstrap_fresh records every version at once.
MutantStamp(p) ==    \* stamps while the script is still to run
  /\ proc[p].pc = "bootstrapping" /\ Marker \in db.tables
  /\ db' = [db EXCEPT !.stamps = @ \cup Versions]
  /\ Move(p, "verifying")
  /\ UNCHANGED <<origin, faults>>

Stamp(p) ==
  /\ proc[p].pc = "bootstrapping" /\ proc[p].next > Len(Schema)
  /\ db' = [tables |-> db.tables, columns |-> db.columns, stamps |-> db.stamps \cup Versions]
  /\ Move(p, "verifying")
  /\ UNCHANGED <<origin, faults>>

Pending(p) == (proc[p].version + 1)..Version

\* A statement of the pending migrations raises: the version row or the
\* column is there already, or the table is not.
Conflict(p) ==
  \/ Pending(p) \cap db.stamps # {}
  \/ \E a \in Alters : /\ a[1] \in Pending(p)
                       /\ \/ a \in db.columns
                          \/ a[2] \notin db.tables /\ Since[a[2]] \notin Pending(p)

\* _migrate_incremental: one transaction, rolled back when it raises.
MutantMigrate(p) ==    \* the statements commit before the version rows
  /\ proc[p].pc = "migrating"
  /\ IF Conflict(p) THEN UNCHANGED db /\ Move(p, "verifying")
     ELSE /\ \/ db' = [tables |-> db.tables \cup {t \in Tables : Since[t] \in Pending(p)},
                       columns |-> db.columns \cup {a \in Alters : a[1] \in Pending(p)},
                       stamps |-> db.stamps \cup Pending(p)] /\ Move(p, "finalizing")
             \/ /\ faults < MaxFaults
                /\ db' = [db EXCEPT !.columns = @ \cup {a \in Alters : a[1] \in Pending(p)}]
                /\ Move(p, "verifying")
  /\ UNCHANGED <<origin, faults>>

Migrate(p) ==
  /\ proc[p].pc = "migrating"
  /\ IF Conflict(p) THEN UNCHANGED db /\ Move(p, "verifying")
     ELSE /\ db' = [tables |-> db.tables \cup {t \in Tables : Since[t] \in Pending(p)},
                    columns |-> db.columns \cup {a \in Alters : a[1] \in Pending(p)},
                    stamps |-> db.stamps \cup Pending(p)]
          /\ Move(p, "finalizing")
  /\ UNCHANGED <<origin, faults>>

Finalized(p) ==
  /\ proc[p].pc = "finalizing" /\ proc[p].next > Len(Schema)
  /\ Move(p, "verifying")
  /\ UNCHANGED <<db, origin, faults>>

\* _post_admission_report.
Verify(p) ==
  /\ proc[p].pc = "verifying"
  /\ Move(p, IF Verdict(db) = "COMPATIBLE" THEN "admitted" ELSE "refused")
  /\ UNCHANGED <<db, origin, faults>>

Close(p) ==
  /\ proc[p].pc \in {"admitted", "refused"}
  /\ proc' = [proc EXCEPT ![p] = Idle]
  /\ UNCHANGED <<db, origin, faults>>

\* An sqlite3.Error (a lock held too long, a full disk) skips what is left;
\* the transaction, if any, is rolled back.
StatementFails(p) ==
  /\ proc[p].pc \in {"bootstrapping", "migrating", "finalizing"} /\ faults < MaxFaults
  /\ faults' = faults + 1
  /\ Move(p, "verifying")
  /\ UNCHANGED <<db, origin>>

Crash(p) ==
  /\ proc[p].pc # "idle" /\ faults < MaxFaults
  /\ faults' = faults + 1
  /\ proc' = [proc EXCEPT ![p] = Idle]
  /\ UNCHANGED <<db, origin>>

Step(p) == Inspect(p) \/ CreateTable(p) \/ Stamp(p) \/ Migrate(p) \/ Finalized(p) \/ Verify(p) \/ Close(p)

Next == \E p \in Procs : Step(p) \/ StatementFails(p) \/ Crash(p)

Spec == Init /\ [][Next]_vars

\* The scheduler starts run after run, and a running opener goes on.
FairSpec == Spec /\ \A p \in Procs : WF_vars(Step(p))

-----------------------------------------------------------------------------
(* The database and the openers keep their types; a version this software  *)
(* does not know is there only if it was there before.                     *)
TypeOK ==
  /\ origin \in Origins
  /\ db \in [tables : SUBSET Tables, columns : SUBSET Alters, stamps : SUBSET Int]
  /\ db.stamps \subseteq Versions \cup origin.stamps
  /\ proc \in [Procs -> [pc : {"idle", "bootstrapping", "migrating", "finalizing",
                               "verifying", "admitted", "refused"},
                         version : 0..Version, next : 1..(Len(Schema) + 1)]]
  /\ faults \in 0..MaxFaults

(* What the database can be: a bootstrap on its way, whose tables carry all *)
(* their columns and whose version rows come last; an older store before   *)
(* or after its one migration; or what was never touched.                  *)
FreshShape ==
  /\ origin = Fresh /\ db.columns = {a \in Alters : a[2] \in db.tables}
  /\ db.stamps = {} \/ (db.stamps = Versions /\ db.tables = Tables)

Shape ==
  \/ FreshShape
  \/ \E v \in Versions : origin = Valid(v) /\ db \in {Valid(v), Valid(Version)}
  \/ origin \in Unvouched /\ db = origin

(* What an opener may rely on at its point, whatever the others do.        *)
Knows(p) ==
  LET me == proc[p] IN
  /\ me.pc = "idle" => me.next = 1
  /\ me.pc = "bootstrapping" =>
       FreshShape /\ \A i \in 1..(me.next - 1) : Schema[i] \in db.tables
  /\ me.pc = "migrating" =>
       /\ me.version \in 1..(Version - 1)
       /\ \/ db = Valid(me.version) \/ db = Valid(Version)
          \/ \E a \in Alters : a[1] = me.version + 1 /\ db = Half(a)
  /\ me.pc = "finalizing" => db = Valid(Version)
  /\ me.pc = "admitted" => db.tables = Tables /\ db.columns = Alters

(* Whoever is admitted finds every table and column its code uses, however *)
(* many openers bootstrap, migrate, fail and die around it.                *)
AdmittedHasSchema ==
  \A p \in Procs : proc[p].pc = "admitted" =>
    Tables \subseteq db.tables /\ Alters \subseteq db.columns

(* A version row never appears before the tables and columns of its        *)
(* version, and version rows, tables and columns never go away.            *)
NeverHalfStamped ==
  [][/\ db.tables \subseteq db'.tables /\ db.columns \subseteq db'.columns
     /\ db.stamps \subseteq db'.stamps
     /\ \A v \in db'.stamps \ db.stamps :
          /\ {t \in Tables : Since[t] <= v} \subseteq db'.tables
          /\ {a \in Alters : a[1] <= v} \subseteq db'.columns]_vars

(* State the gate cannot vouch for, and state whose migration fails, is    *)
(* left as it was, whoever opens it how often.                             *)
RefusedIsUntouched ==
  origin \in Unvouched => db = origin

(* An older store becomes current and stays so, in spite of failures,      *)
(* deaths and competing openers.                                           *)
OlderIsUpgraded == origin \in Vouched ~> [](db = Current)
=============================================================================
