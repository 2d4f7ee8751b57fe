--------------------------- MODULE AdmissionProofs ---------------------------
(***************************************************************************)
(* Proofs about Admission, for every schema, history of migrations, number *)
(* of openers and bound on faults.                                         *)
(*                                                                         *)
(* IInv says what the database can be (Shape) and what each opener may     *)
(* rely on where it is (Knows).  A step changes the database in one of two *)
(* ways (Effect), and neither takes anything from another opener.          *)
(***************************************************************************)
EXTENDS Admission, TLAPS

IInv == TypeOK /\ Shape /\ \A p \in Procs : Knows(p)

\* All that a step can do to the database.
Effect ==
  \/ db' = db
  \/ FreshShape /\ FreshShape' /\ db.tables \subseteq db'.tables /\ db.stamps \subseteq db'.stamps
  \/ \E v \in 1..(Version - 1) : db = Valid(v) /\ db' = Valid(Version)

-----------------------------------------------------------------------------
(* Facts about the constants.                                              *)

LEMMA SchemaFacts ==
  /\ Version \in Nat /\ Version >= 1 /\ Version \in Versions
  /\ Schema \in Seq(Tables) /\ Marker \in Tables
  /\ Tables = {Schema[i] : i \in 1..Len(Schema)}
  /\ \A t \in Tables : Since[t] \in Versions
  /\ Since[Marker] = 1
  /\ \A a \in Alters : a[1] \in Versions /\ a[1] > 1 /\ a[2] \in Tables /\ Since[a[2]] < a[1]
<1>1. Schema \in Seq(Tables) /\ Len(Schema) \in Nat /\ DOMAIN Schema = 1..Len(Schema)
  BY AdmissionAssumption
<1>2. Tables = {Schema[i] : i \in 1..Len(Schema)}
  BY <1>1 DEF Tables, ToSet
<1>3. Marker \in Tables
  BY AdmissionAssumption
<1>4. \A t \in Tables : Since[t] \in Versions
  BY AdmissionAssumption
<1>5. Version \in Nat /\ Version >= 1 /\ Version \in Versions
  BY AdmissionAssumption DEF Versions
<1>6. \A a \in Alters : a[1] \in Versions /\ a[1] > 1 /\ a[2] \in Tables /\ Since[a[2]] < a[1]
  BY <1>4, AdmissionAssumption DEF Versions
<1> QED
  BY <1>1, <1>2, <1>3, <1>4, <1>5, <1>6, AdmissionAssumption

LEMMA SchemaLength == Len(Schema) \in Nat
  BY AdmissionAssumption

LEMMA VersionBounds ==
  /\ Version \in Int
  /\ \A t \in Tables : Since[t] \in Int /\ Since[t] <= Version
  /\ \A a \in Alters : a[1] \in Int /\ 1 < a[1] /\ a[1] <= Version
<1>1. Version \in Nat /\ Versions = 1..Version
  BY AdmissionAssumption DEF Versions
<1>2. \A t \in Tables : Since[t] \in Versions
  BY SchemaFacts
<1>3. \A a \in Alters : a[1] \in Versions /\ a[1] > 1
  BY SchemaFacts
<1> QED
  BY <1>1, <1>2, <1>3

LEMMA ValidFacts ==
  ASSUME NEW v \in Versions
  PROVE  /\ Valid(v).tables \subseteq Tables /\ Valid(v).columns \subseteq Alters
         /\ Valid(v).stamps = 1..v /\ Marker \in Valid(v).tables
         /\ v \in Valid(v).stamps /\ Valid(v).stamps \subseteq Versions
  BY SchemaFacts DEF Valid, Versions

LEMMA HalfFacts ==
  ASSUME NEW a \in Alters
  PROVE  /\ a[1] \in Int /\ a[1] - 1 \in Versions /\ a[1] - 1 \in 1..(Version - 1)
         /\ Half(a).stamps = 1..(a[1] - 1) /\ Marker \in Half(a).tables
<1>1. a[1] \in 1..Version /\ a[1] > 1 /\ Version \in Nat
  BY SchemaFacts DEF Versions
<1>2. a[1] \in Int /\ a[1] - 1 \in Versions /\ a[1] - 1 \in 1..(Version - 1)
  BY <1>1 DEF Versions
<1>3. Marker \in Valid(a[1] - 1).tables
  BY <1>2, ValidFacts
<1> QED
  BY <1>2, <1>3 DEF Half

LEMMA ValidVersion == Valid(Version) = [tables |-> Tables, columns |-> Alters, stamps |-> Versions]
<1>1. {t \in Tables : Since[t] <= Version} = Tables
  BY VersionBounds
<1>2. {a \in Alters : a[1] <= Version} = Alters
  BY VersionBounds
<1> QED
  BY <1>1, <1>2 DEF Valid, Versions

(* A store the software left is none it refuses.                           *)
LEMMA ValidIsVouched ==
  ASSUME NEW v \in 1..(Version - 1)
  PROVE  Valid(v) \notin Unvouched
<1>1. v \in Versions /\ v < Version
  BY SchemaFacts DEF Versions
<1>2. Valid(v).stamps = 1..v /\ Valid(v).columns = {a \in Alters : a[1] <= v}
  BY DEF Valid
<1>3. Valid(v) # Newer
  <2>1. Version \in Newer.stamps /\ Version \notin 1..v
    BY <1>1, SchemaFacts DEF Newer, Versions
  <2> QED
    BY <1>2, <2>1
<1>4. Valid(v) \notin Foreign
  <2>1. 1..v # {}
    BY <1>1 DEF Versions
  <2>2. \A d \in Foreign : d.stamps = {}
    BY DEF Foreign
  <2> QED
    BY <1>2, <2>1, <2>2
<1>5. Valid(v) \notin Torn
  <2>1. Version \in Versions /\ Version \notin 1..v
    BY <1>1, SchemaFacts
  <2>2. \A d \in Torn : d.stamps = Versions
    BY DEF Torn
  <2> QED
    BY <1>2, <2>1, <2>2
<1>6. ASSUME NEW a \in Alters, Valid(v) = Half(a)
      PROVE  FALSE
  <2>1. 1..v = 1..(a[1] - 1) /\ a \in Valid(v).columns
    BY <1>2, <1>6 DEF Half
  <2>2. a[1] <= v /\ a[1] \in Int /\ a[1] - 1 >= 1
    BY <1>2, <2>1, VersionBounds
  <2>3. a[1] - 1 < v
    BY <1>1, <2>2 DEF Versions
  <2>4. v \in 1..v /\ v \notin 1..(a[1] - 1)
    BY <1>1, <2>2, <2>3 DEF Versions
  <2> QED
    BY <2>1, <2>4
<1> QED
  BY <1>3, <1>4, <1>5, <1>6 DEF Unvouched

(* While someone bootstraps, no older store is there to be migrated.       *)
LEMMA FreshIsNotOlder ==
  ASSUME FreshShape
  PROVE  /\ \A v \in 1..(Version - 1) : db # Valid(v)
         /\ \A a \in Alters : db # Half(a)
<1>1. ASSUME NEW v \in 1..(Version - 1), db.stamps = 1..v
      PROVE  FALSE
  <2>1. Version \in Versions /\ Version \notin 1..v /\ 1 \in 1..v
    BY SchemaFacts
  <2> QED
    BY <1>1, <2>1 DEF FreshShape
<1>2. \A v \in 1..(Version - 1) : Valid(v).stamps = 1..v
  BY DEF Valid
<1>3. \A a \in Alters : Half(a).stamps = 1..(a[1] - 1) /\ a[1] - 1 \in 1..(Version - 1)
  BY HalfFacts
<1> QED
  BY <1>1, <1>2, <1>3

LEMMA FreshColumns ==
  ASSUME FreshShape, db.tables = Tables
  PROVE  db.columns = Alters
  BY SchemaFacts DEF FreshShape

-----------------------------------------------------------------------------
(* What the effect of a step leaves to everybody.                          *)

LEMMA DbGrows ==
  ASSUME Effect
  PROVE  /\ db.tables \subseteq db'.tables /\ db.stamps \subseteq db'.stamps
         /\ db.columns \subseteq db'.columns
<1>1. CASE db' = db
  BY <1>1
<1>2. CASE /\ FreshShape /\ FreshShape'
           /\ db.tables \subseteq db'.tables /\ db.stamps \subseteq db'.stamps
  BY <1>2 DEF FreshShape
<1>3. ASSUME NEW v \in 1..(Version - 1), db = Valid(v), db' = Valid(Version)
      PROVE  db.tables \subseteq db'.tables /\ db.stamps \subseteq db'.stamps
             /\ db.columns \subseteq db'.columns
  <2>1. v \in Versions
    BY SchemaFacts DEF Versions
  <2> QED
    BY <1>3, <2>1, ValidFacts, ValidVersion
<1> QED
  BY <1>1, <1>2, <1>3 DEF Effect

LEMMA ShapeStable ==
  ASSUME Shape, Effect, UNCHANGED origin
  PROVE  Shape'
<1>1. CASE db' = db
  BY <1>1 DEF Shape, FreshShape, Valid, Unvouched
<1>2. CASE FreshShape'
  BY <1>2 DEF Shape
<1>3. ASSUME NEW v \in 1..(Version - 1), db = Valid(v), db' = Valid(Version)
      PROVE  Shape'
  <2>1. ~FreshShape
    BY <1>3, FreshIsNotOlder
  <2>2. origin # db \/ origin \notin Unvouched
    BY <1>3, ValidIsVouched
  <2>3. PICK w \in Versions : origin = Valid(w)
    BY <2>1, <2>2 DEF Shape
  <2> QED
    BY <1>3, <2>3 DEF Shape, Valid
<1> QED
  BY <1>1, <1>2, <1>3 DEF Effect

LEMMA KnowsStable ==
  ASSUME TypeOK, TypeOK', Effect, UNCHANGED origin, NEW q \in Procs, Knows(q), proc'[q] = proc[q]
  PROVE  Knows(q)'
<1>1. CASE db' = db
  BY <1>1 DEF Knows, FreshShape, Valid, Half
<1>2. CASE FreshShape /\ FreshShape' /\ db.tables \subseteq db'.tables /\ db.stamps \subseteq db'.stamps
  <2>1. proc[q].pc = "bootstrapping" =>
          FreshShape' /\ \A i \in 1..(proc[q].next - 1) : Schema[i] \in db'.tables
    BY <1>2 DEF Knows
  <2>2. ASSUME db = Valid(Version)
        PROVE  db' = Valid(Version)
    <3>1. db'.tables = Tables /\ db'.columns = Alters
      <4>1. db.tables = Tables /\ db.columns = Alters
        BY <2>2, ValidVersion
      <4>2. db'.tables \subseteq Tables /\ db'.columns \subseteq Alters
        BY DEF TypeOK
      <4> QED
        BY <4>1, <4>2, DbGrows
    <3>2. db'.stamps = Versions
      <4>1. Version \in db.stamps
        BY <2>2, ValidVersion, SchemaFacts
      <4> QED
        BY <1>2, <4>1 DEF FreshShape
    <3> QED
      BY <3>1, <3>2, ValidVersion DEF TypeOK
  <2>3. proc[q].pc # "migrating" \/ db = Valid(Version)
    BY <1>2, FreshIsNotOlder DEF Knows
  <2>4. proc[q].pc = "admitted" => db'.tables = Tables /\ db'.columns = Alters
    BY DbGrows DEF Knows, TypeOK
  <2> QED
    BY <2>1, <2>2, <2>3, <2>4 DEF Knows, Valid, Half
<1>3. ASSUME NEW v \in 1..(Version - 1), db = Valid(v), db' = Valid(Version)
      PROVE  Knows(q)'
  <2>1. proc[q].pc # "bootstrapping"
    BY <1>3, FreshIsNotOlder DEF Knows
  <2>2. proc[q].pc = "admitted" => db'.tables = Tables /\ db'.columns = Alters
    BY <1>3, ValidVersion
  <2> QED
    BY <1>3, <2>1, <2>2 DEF Knows, Valid
<1> QED
  BY <1>1, <1>2, <1>3 DEF Effect

-----------------------------------------------------------------------------
(* The type invariant.                                                     *)

LEMMA OriginTypes ==
  ASSUME origin \in Origins
  PROVE  /\ origin \in [tables : SUBSET Tables, columns : SUBSET Alters, stamps : SUBSET Int]
         /\ Fresh \in Origins
<1> DEFINE D == [tables : SUBSET Tables, columns : SUBSET Alters, stamps : SUBSET Int]
<1>1. Fresh \in D
  BY DEF Fresh
<1>2. \A v \in Versions : Valid(v) \in D
  BY SchemaFacts DEF Valid, Versions
<1>3. Newer \in D /\ Foreign \subseteq D /\ Torn \subseteq D
  BY SchemaFacts DEF Newer, Foreign, Torn, Versions
<1>4. \A a \in Alters : Half(a) \in D
  BY SchemaFacts DEF Half, Valid, Versions
<1> QED
  BY <1>1, <1>2, <1>3, <1>4 DEF Origins, Unvouched

LEMMA InitInv == Init => IInv
<1> SUFFICES ASSUME Init
             PROVE  IInv
  OBVIOUS
<1>1. db = origin /\ origin \in Origins
  BY DEF Init
<1>2. TypeOK
  <2>1. \A p \in Procs : proc[p] = [pc |-> "idle", version |-> 0, next |-> 1]
    BY DEF Init, Idle
  <2>2. 0 \in 0..Version /\ 1 \in 1..(Len(Schema) + 1) /\ 0 \in 0..MaxFaults
    BY SchemaFacts, AdmissionAssumption
  <2> QED
    BY <1>1, <2>2, OriginTypes DEF TypeOK, Init, Idle
<1>3. Shape
  <2>1. CASE origin = Fresh
    BY <1>1, <2>1 DEF Shape, FreshShape, Fresh
  <2> QED
    BY <1>1, <2>1 DEF Origins, Shape
<1>4. \A p \in Procs : Knows(p)
  BY DEF Init, Idle, Knows
<1> QED
  BY <1>2, <1>3, <1>4 DEF IInv

-----------------------------------------------------------------------------
(* One lemma per action: the types, what the step does to the database,    *)
(* and what its opener knows afterwards.                                   *)

Good(p) == TypeOK' /\ Effect /\ UNCHANGED origin /\ Knows(p)' /\ \A q \in Procs \ {p} : proc'[q] = proc[q]

LEMMA MoveFacts ==
  ASSUME TypeOK, NEW p \in Procs, NEW c, Move(p, c),
         c \in {"idle", "bootstrapping", "migrating", "finalizing", "verifying", "admitted",
                "refused"}
  PROVE  /\ proc' \in [Procs -> [pc : {"idle", "bootstrapping", "migrating", "finalizing",
                                      "verifying", "admitted", "refused"},
                                version : 0..Version, next : 1..(Len(Schema) + 1)]]
         /\ proc'[p].pc = c
         /\ proc'[p].version = proc[p].version /\ proc'[p].next = proc[p].next
         /\ \A q \in Procs \ {p} : proc'[q] = proc[q]
  BY DEF TypeOK, Move

LEMMA SameDbTypes ==
  ASSUME TypeOK, UNCHANGED <<db, origin, faults>>,
         proc' \in [Procs -> [pc : {"idle", "bootstrapping", "migrating", "finalizing",
                                   "verifying", "admitted", "refused"},
                             version : 0..Version, next : 1..(Len(Schema) + 1)]]
  PROVE  TypeOK'
  BY DEF TypeOK

(* Only a complete store passes the inspection: the other states differ    *)
(* from it in a version row or in a table.                                 *)
LEMMA CompatibleIsWhole ==
  ASSUME TypeOK, Shape, Verdict(db) = "COMPATIBLE"
  PROVE  db.tables = Tables /\ db.columns = Alters
<1>5. ASSUME db = Valid(Version) \/ (FreshShape /\ db.tables = Tables)
      PROVE  db.tables = Tables /\ db.columns = Alters
  BY <1>5, ValidVersion, FreshColumns
<1>1. /\ Version \in db.stamps /\ ~\E v \in db.stamps : v > Version
      /\ Tables \subseteq db.tables /\ Marker \in db.tables
  BY DEF Verdict
<1>2. CASE FreshShape
  BY <1>1, <1>2, FreshColumns DEF TypeOK
<1>3. ASSUME NEW v \in Versions, origin = Valid(v), db \in {Valid(v), Valid(Version)}
      PROVE  db = Valid(Version)
  <2>1. CASE db = Valid(v)
    <3>1. Version \in 1..v
      BY <1>1, <2>1, ValidFacts
    <3>2. v = Version
      BY <3>1, SchemaFacts DEF Versions
    <3> QED
      BY <2>1, <3>2
  <2> QED
    BY <1>3, <2>1
<1>4. ASSUME origin \in Unvouched, db = origin
      PROVE  FALSE
  <2>1. CASE db = Newer
    <3>1. Newer.stamps = 1..(Version + 1) /\ Version + 1 \in 1..(Version + 1)
      BY SchemaFacts DEF Newer
    <3>2. Version + 1 > Version
      BY SchemaFacts
    <3>3. Version + 1 \in db.stamps
      BY <2>1, <3>1
    <3> QED
      BY <1>1, <3>2, <3>3
  <2>2. CASE db \in Foreign
    BY <1>1, <2>2 DEF Foreign
  <2>3. CASE db \in Torn
    <3>1. PICK t \in Tables \ {Marker} :
            db = [tables |-> Tables \ {t}, columns |-> {a \in Alters : a[2] # t},
                  stamps |-> Versions]
      BY <2>3 DEF Torn
    <3>2. db.tables = Tables \ {t}
      BY <3>1
    <3> QED
      BY <1>1, <3>2
  <2>4. ASSUME NEW a \in Alters, db = Half(a)
        PROVE  FALSE
    <3>1. Version \in 1..(a[1] - 1)
      BY <1>1, <2>4, HalfFacts
    <3> QED
      BY <3>1, HalfFacts, SchemaFacts
  <2> QED
    BY <1>4, <2>1, <2>2, <2>3, <2>4 DEF Unvouched
<1> QED
  BY <1>5, <1>2, <1>3, <1>4 DEF Shape

LEMMA InspectGood ==
  ASSUME IInv, NEW p \in Procs, Inspect(p)
  PROVE  Good(p)
<1>1. TypeOK /\ Shape
  BY DEF IInv
<1>2. UNCHANGED <<db, origin, faults>> /\ proc[p].pc = "idle"
  BY DEF Inspect
<1>3. Effect
  BY <1>2 DEF Effect
<1>5. Verdict(db) = "COMPATIBLE" => db.tables = Tables /\ db.columns = Alters
  BY <1>1, CompatibleIsWhole
<1>6. ASSUME Verdict(db) = "FRESH"
      PROVE  FreshShape
  <2>1. db.tables = {}
    BY <1>6 DEF Verdict
  <2>2. \A v \in Versions : db # Valid(v)
    BY <2>1, ValidFacts
  <2>3. db \notin Unvouched
    <3>1. db # Newer
      <4>1. Newer.tables = Tables
        BY DEF Newer
      <4> QED
        BY <2>1, <4>1, SchemaFacts
    <3>2. db \notin Foreign /\ db \notin Torn
      <4>1. \A t \in Tables \ {Marker} : Marker \in Tables \ {t}
        BY SchemaFacts
      <4>2. \A d \in Foreign : d.tables # {}
        BY DEF Foreign
      <4>3. \A d \in Torn : d.tables # {}
        BY <4>1 DEF Torn
      <4> QED
        BY <2>1, <4>2, <4>3
    <3>3. \A a \in Alters : Half(a).tables # {}
      BY HalfFacts
    <3> QED
      BY <2>1, <3>1, <3>2, <3>3 DEF Unvouched
  <2> QED
    BY <1>1, <2>2, <2>3, SchemaFacts DEF Shape
<1>7. ASSUME Verdict(db) = "MIGRATION_REQUIRED"
      PROVE  /\ Observed(db) \in 1..(Version - 1)
             /\ \/ db = Valid(Observed(db))
                \/ \E a \in Alters : a[1] = Observed(db) + 1 /\ db = Half(a)
  <2>1. /\ db.stamps # {} /\ Version \notin db.stamps /\ Marker \in db.tables
        /\ ~\E v \in db.stamps : v > Version
    BY <1>7 DEF Verdict
  <2>2. ASSUME NEW v \in Int, v >= 1, db.stamps = 1..v
        PROVE  Observed(db) = v /\ v \in 1..(Version - 1)
    <3>1. v \in 1..v /\ \A w \in 1..v : w <= v
      BY <2>2
    <3>2. \A x \in 1..v : (\A w \in 1..v : w <= x) => x = v
      BY <2>2
    <3>3. Observed(db) = v
      BY <2>2, <3>1, <3>2 DEF Observed
    <3>4. v < Version
      BY <2>1, <2>2, <3>1, SchemaFacts
    <3> QED
      BY <2>2, <3>3, <3>4, SchemaFacts
  <2>3. ~FreshShape
    BY <2>1, SchemaFacts DEF FreshShape
  <2>4. ASSUME NEW v \in Versions, db = Valid(v)
        PROVE  Observed(db) \in 1..(Version - 1) /\ db = Valid(Observed(db))
    <3>1. db.stamps = 1..v /\ v \in Int /\ v >= 1
      BY <2>4, ValidFacts DEF Versions
    <3> QED
      BY <2>2, <2>4, <3>1
  <2>5. ASSUME NEW a \in Alters, db = Half(a)
        PROVE  Observed(db) \in 1..(Version - 1) /\ a[1] = Observed(db) + 1
    <3>1. db.stamps = 1..(a[1] - 1) /\ a[1] - 1 \in Int /\ a[1] - 1 >= 1
      BY <2>5, HalfFacts
    <3>2. Observed(db) = a[1] - 1 /\ a[1] - 1 \in 1..(Version - 1)
      BY <2>2, <3>1
    <3> QED
      BY <3>2, HalfFacts
  <2>6. ASSUME db \in {Newer} \cup Foreign \cup Torn
        PROVE  FALSE
    <3>1. Newer.stamps = 1..(Version + 1) /\ Version \in 1..(Version + 1)
      BY SchemaFacts DEF Newer
    <3>2. \A d \in Foreign : d.stamps = {}
      BY DEF Foreign
    <3>3. \A d \in Torn : d.stamps = Versions
      BY DEF Torn
    <3> QED
      BY <2>1, <2>6, <3>1, <3>2, <3>3, SchemaFacts
  <2>7. Version \in Versions
    BY SchemaFacts
  <2> QED
    BY <1>1, <2>3, <2>4, <2>5, <2>6, <2>7 DEF Shape, Unvouched
<1>8. \/ Verdict(db) = "COMPATIBLE" /\ Move(p, "admitted")
      \/ Verdict(db) = "FRESH" /\ Move(p, "bootstrapping")
      \/ /\ Verdict(db) = "MIGRATION_REQUIRED"
         /\ proc' = [proc EXCEPT ![p].pc = "migrating", ![p].version = Observed(db)]
      \/ Move(p, "refused") \/ Move(p, "verifying")
  BY DEF Inspect
<1>9. CASE Verdict(db) = "COMPATIBLE" /\ Move(p, "admitted")
  <2>1. TypeOK' /\ proc'[p].pc = "admitted" /\ \A q \in Procs \ {p} : proc'[q] = proc[q]
    BY <1>1, <1>2, <1>9, MoveFacts, SameDbTypes
  <2>2. Knows(p)'
    BY <1>2, <1>5, <1>9, <2>1 DEF Knows
  <2> QED
    BY <1>2, <1>3, <2>1, <2>2 DEF Good
<1>10. CASE Verdict(db) = "FRESH" /\ Move(p, "bootstrapping")
  <2>1. /\ TypeOK' /\ proc'[p].pc = "bootstrapping" /\ proc'[p].next = proc[p].next
        /\ \A q \in Procs \ {p} : proc'[q] = proc[q]
    BY <1>1, <1>2, <1>10, MoveFacts, SameDbTypes
  <2>2. proc'[p].next = 1
    BY <1>2, <2>1 DEF IInv, Knows
  <2>3. FreshShape'
    BY <1>2, <1>6, <1>10 DEF FreshShape
  <2>4. Knows(p)'
    BY <2>1, <2>2, <2>3 DEF Knows
  <2> QED
    BY <1>2, <1>3, <2>1, <2>4 DEF Good
<1>11. CASE /\ Verdict(db) = "MIGRATION_REQUIRED"
            /\ proc' = [proc EXCEPT ![p].pc = "migrating", ![p].version = Observed(db)]
  <2>1. Observed(db) \in 0..Version /\ Observed(db) \in 1..(Version - 1)
    BY <1>7, <1>11, SchemaFacts
  <2>2. /\ proc' \in [Procs -> [pc : {"idle", "bootstrapping", "migrating", "finalizing",
                                      "verifying", "admitted", "refused"},
                                version : 0..Version, next : 1..(Len(Schema) + 1)]]
        /\ proc'[p].pc = "migrating" /\ proc'[p].version = Observed(db)
        /\ \A q \in Procs \ {p} : proc'[q] = proc[q]
    BY <1>1, <1>11, <2>1 DEF TypeOK
  <2>3. TypeOK'
    BY <1>1, <1>2, <2>2, SameDbTypes
  <2>4. Knows(p)'
    BY <1>2, <1>7, <1>11, <2>1, <2>2 DEF Knows, Valid, Half
  <2> QED
    BY <1>2, <1>3, <2>2, <2>3, <2>4 DEF Good
<1>12. CASE Move(p, "refused") \/ Move(p, "verifying")
  <2>1. /\ TypeOK' /\ proc'[p].pc \in {"refused", "verifying"}
        /\ \A q \in Procs \ {p} : proc'[q] = proc[q]
    BY <1>1, <1>2, <1>12, MoveFacts, SameDbTypes
  <2>2. Knows(p)'
    BY <2>1 DEF Knows
  <2> QED
    BY <1>2, <1>3, <2>1, <2>2 DEF Good
<1> QED
  BY <1>8, <1>9, <1>10, <1>11, <1>12

LEMMA NextIndex ==
  ASSUME NEW m \in Nat, NEW n \in 1..m
  PROVE  /\ n + 1 \in 1..(m + 1) /\ (n + 1) - 1 = n
         /\ \A i \in 1..n : i \in 1..(n - 1) \/ i = n
  OBVIOUS

LEMMA CreateTableGood ==
  ASSUME IInv, NEW p \in Procs, CreateTable(p)
  PROVE  Good(p)
<1> DEFINE t == Schema[proc[p].next]
<1>1. TypeOK /\ Shape /\ Knows(p)
  BY DEF IInv
<1>2. /\ proc[p].pc \in {"bootstrapping", "finalizing"} /\ proc[p].next <= Len(Schema)
      /\ proc' = [proc EXCEPT ![p].next = @ + 1] /\ UNCHANGED <<origin, faults>>
      /\ t \in db.tables => db' = db
      /\ t \notin db.tables =>
           db' = [tables |-> db.tables \cup {t},
                  columns |-> db.columns \cup {a \in Alters : a[2] = t}, stamps |-> db.stamps]
  BY DEF CreateTable
<1>3. /\ Len(Schema) \in Nat /\ proc[p].next \in 1..Len(Schema)
      /\ proc[p].next \in Int /\ t \in Tables
  <2>1. proc[p].next \in 1..(Len(Schema) + 1) /\ Len(Schema) \in Nat
    BY <1>1, SchemaLength DEF TypeOK
  <2>2. proc[p].next \in 1..Len(Schema)
    BY <1>2, <2>1
  <2>3. t \in Tables
    BY <2>2, SchemaFacts
  <2>4. proc[p].next \in Int
    BY <2>1
  <2> QED
    BY <2>1, <2>2, <2>3, <2>4
<1>4. /\ proc' \in [Procs -> [pc : {"idle", "bootstrapping", "migrating", "finalizing",
                                   "verifying", "admitted", "refused"},
                             version : 0..Version, next : 1..(Len(Schema) + 1)]]
      /\ proc'[p].pc = proc[p].pc /\ proc'[p].next = proc[p].next + 1
      /\ \A q \in Procs \ {p} : proc'[q] = proc[q]
  <2>1. proc[p].next + 1 \in 1..(Len(Schema) + 1)
    BY <1>3, NextIndex
  <2> QED
    BY <1>1, <1>2, <2>1 DEF TypeOK
<1> HIDE DEF t
<1>5. CASE t \in db.tables
  <2>1. db' = db /\ TypeOK'
    BY <1>1, <1>2, <1>4, <1>5, SameDbTypes
  <2>2. ASSUME proc[p].pc = "bootstrapping"
        PROVE  Knows(p)'
    <3>1. FreshShape' /\ \A i \in 1..(proc[p].next - 1) : Schema[i] \in db'.tables
      BY <1>1, <1>2, <2>1, <2>2 DEF Knows, FreshShape
    <3>2. \A i \in 1..(proc'[p].next - 1) : i \in 1..(proc[p].next - 1) \/ i = proc[p].next
      BY <1>3, <1>4, NextIndex
    <3>3. \A i \in 1..(proc'[p].next - 1) : Schema[i] \in db'.tables
      BY <1>5, <2>1, <3>1, <3>2 DEF t
    <3> QED
      BY <1>4, <2>2, <3>1, <3>3 DEF Knows
  <2>3. ASSUME proc[p].pc = "finalizing"
        PROVE  Knows(p)'
    <3>1. db' = Valid(Version)
      BY <1>1, <2>1, <2>3 DEF Knows
    <3> QED
      BY <1>4, <2>3, <3>1 DEF Knows, Valid
  <2>4. Knows(p)'
    BY <1>2, <2>2, <2>3
  <2>5. Effect
    BY <2>1 DEF Effect
  <2> QED
    BY <1>2, <1>4, <2>1, <2>4, <2>5 DEF Good
<1>6. CASE t \notin db.tables
  <2>1. proc[p].pc = "bootstrapping"
    BY <1>1, <1>2, <1>3, <1>6, ValidVersion DEF Knows
  <2>2. FreshShape /\ \A i \in 1..(proc[p].next - 1) : Schema[i] \in db.tables
    BY <1>1, <2>1 DEF Knows
  <2>3. /\ db'.tables = db.tables \cup {t} /\ db'.stamps = db.stamps
        /\ db'.columns = db.columns \cup {a \in Alters : a[2] = t}
    BY <1>2, <1>6
  <2>4. db.stamps = {} /\ origin' = origin
    BY <1>2, <1>3, <1>6, <2>2 DEF FreshShape
  <2>5. FreshShape'
    <3>1. db'.columns = {a \in Alters : a[2] \in db'.tables}
      BY <2>2, <2>3 DEF FreshShape
    <3> QED
      BY <2>2, <2>3, <2>4, <3>1 DEF FreshShape
  <2>6. TypeOK'
    <3>1. db' \in [tables : SUBSET Tables, columns : SUBSET Alters, stamps : SUBSET Int]
      BY <1>1, <1>2, <1>3, <1>6 DEF TypeOK
    <3> QED
      BY <1>1, <1>2, <1>4, <2>3, <3>1 DEF TypeOK
  <2>7. \A i \in 1..(proc'[p].next - 1) : Schema[i] \in db'.tables
    <3>1. \A i \in 1..(proc'[p].next - 1) : i \in 1..(proc[p].next - 1) \/ i = proc[p].next
      BY <1>3, <1>4, NextIndex
    <3> QED
      BY <2>2, <2>3, <3>1 DEF t
  <2>8. Knows(p)'
    BY <1>4, <2>1, <2>5, <2>7 DEF Knows
  <2>9. Effect
    BY <2>2, <2>3, <2>5 DEF Effect
  <2> QED
    BY <1>2, <1>4, <2>6, <2>8, <2>9 DEF Good
<1> QED
  BY <1>5, <1>6

LEMMA StampGood ==
  ASSUME IInv, NEW p \in Procs, Stamp(p)
  PROVE  Good(p)
<1>1. TypeOK /\ Shape /\ Knows(p)
  BY DEF IInv
<1>2. /\ proc[p].pc = "bootstrapping" /\ proc[p].next > Len(Schema) /\ Move(p, "verifying")
      /\ UNCHANGED <<origin, faults>>
      /\ db' = [tables |-> db.tables, columns |-> db.columns, stamps |-> db.stamps \cup Versions]
  BY DEF Stamp
<1>3. FreshShape /\ \A i \in 1..(proc[p].next - 1) : Schema[i] \in db.tables
  BY <1>1, <1>2 DEF Knows
<1>4. db.tables = Tables
  <2>1. proc[p].next - 1 = Len(Schema)
    <3>1. proc[p].next \in 1..(Len(Schema) + 1) /\ Len(Schema) \in Nat
      BY <1>1, SchemaLength DEF TypeOK
    <3> QED
      BY <1>2, <3>1
  <2>2. \A x \in Tables : x \in db.tables
    BY <1>3, <2>1, SchemaFacts
  <2> QED
    BY <1>1, <2>2 DEF TypeOK
<1>5. db'.tables = db.tables /\ db'.columns = db.columns /\ db'.stamps = Versions
  BY <1>2, <1>3 DEF FreshShape
<1>6. FreshShape'
  BY <1>2, <1>3, <1>4, <1>5 DEF FreshShape
<1>7. /\ proc' \in [Procs -> [pc : {"idle", "bootstrapping", "migrating", "finalizing",
                                   "verifying", "admitted", "refused"},
                             version : 0..Version, next : 1..(Len(Schema) + 1)]]
      /\ proc'[p].pc = "verifying"
      /\ \A q \in Procs \ {p} : proc'[q] = proc[q]
  BY <1>1, <1>2, MoveFacts
<1>8. TypeOK'
  <2>1. Versions \subseteq Int
    BY DEF Versions
  <2>2. db' \in [tables : SUBSET Tables, columns : SUBSET Alters, stamps : SUBSET Int]
    BY <1>1, <1>2, <2>1 DEF TypeOK
  <2> QED
    BY <1>1, <1>2, <1>5, <1>7, <2>2 DEF TypeOK
<1>9. Knows(p)'
  BY <1>7 DEF Knows
<1>10. Effect
  BY <1>2, <1>3, <1>5, <1>6 DEF Effect
<1> QED
  BY <1>2, <1>7, <1>8, <1>9, <1>10 DEF Good

LEMMA MigrateGood ==
  ASSUME IInv, NEW p \in Procs, Migrate(p)
  PROVE  Good(p)
<1> DEFINE v == proc[p].version
<1>1. TypeOK /\ Shape /\ Knows(p)
  BY DEF IInv
<1>2. proc[p].pc = "migrating" /\ UNCHANGED <<origin, faults>>
  BY DEF Migrate
<1>3. /\ v \in 1..(Version - 1)
      /\ \/ db = Valid(v) \/ db = Valid(Version)
         \/ \E a \in Alters : a[1] = v + 1 /\ db = Half(a)
  BY <1>1, <1>2 DEF Knows
<1>4. v \in Versions /\ v + 1 \in Pending(p) /\ Version \in Pending(p)
  <2>1. Version \in Nat
    BY SchemaFacts
  <2> QED
    BY <1>3, <2>1 DEF Versions, Pending
<1>5. CASE Conflict(p)
  <2>1. UNCHANGED db /\ Move(p, "verifying")
    BY <1>5 DEF Migrate
  <2>2. /\ TypeOK' /\ proc'[p].pc = "verifying"
        /\ \A q \in Procs \ {p} : proc'[q] = proc[q]
    BY <1>1, <1>2, <2>1, MoveFacts, SameDbTypes
  <2>3. Knows(p)'
    BY <2>2 DEF Knows
  <2> QED
    BY <1>2, <2>1, <2>2, <2>3 DEF Good, Effect
<1>6. CASE ~Conflict(p)
  <2>1. /\ db' = [tables |-> db.tables \cup {t \in Tables : Since[t] \in Pending(p)},
                  columns |-> db.columns \cup {a \in Alters : a[1] \in Pending(p)},
                  stamps |-> db.stamps \cup Pending(p)]
        /\ Move(p, "finalizing")
    BY <1>6 DEF Migrate
  <2>2. db # Valid(Version)
    BY <1>4, <1>6, ValidVersion, SchemaFacts DEF Conflict
  <2>3. \A a \in Alters : a[1] = v + 1 => db # Half(a)
    <3>1. \A a \in Alters : a \in Half(a).columns
      BY DEF Half
    <3> QED
      BY <1>4, <1>6, <3>1 DEF Conflict
  <2>4. db = Valid(v)
    BY <1>3, <2>2, <2>3
  <2>5. \A w \in Versions : w <= v \/ w \in Pending(p)
    BY <1>3, SchemaFacts DEF Versions, Pending
  <2>6. db'.tables = Tables
    BY <2>1, <2>4, <2>5, SchemaFacts DEF Valid
  <2>7. db'.columns = Alters
    BY <2>1, <2>4, <2>5, SchemaFacts DEF Valid
  <2>8. db'.stamps = Versions
    <3>1. 1..v \cup Pending(p) = Versions
      <4>1. v \in Int /\ 1 <= v /\ v < Version /\ Version \in Nat
        BY <1>3, SchemaFacts
      <4>2. \A w : w \in 1..v \/ w \in (v + 1)..Version <=> w \in 1..Version
        BY <4>1
      <4> QED
        BY <4>2 DEF Versions, Pending
    <3> QED
      BY <2>1, <2>4, <3>1 DEF Valid
  <2>9. db' = Valid(Version)
    BY <2>1, <2>6, <2>7, <2>8, ValidVersion
  <2>10. /\ proc' \in [Procs -> [pc : {"idle", "bootstrapping", "migrating", "finalizing",
                                      "verifying", "admitted", "refused"},
                                version : 0..Version, next : 1..(Len(Schema) + 1)]]
         /\ proc'[p].pc = "finalizing"
         /\ \A q \in Procs \ {p} : proc'[q] = proc[q]
    BY <1>1, <2>1, MoveFacts
  <2>11. TypeOK'
    <3>1. Versions \subseteq Int
      BY DEF Versions
    <3>2. db' \in [tables : SUBSET Tables, columns : SUBSET Alters, stamps : SUBSET Int]
      BY <2>9, <3>1, ValidVersion
    <3> QED
      BY <1>1, <1>2, <2>8, <2>10, <3>2 DEF TypeOK
  <2>12. Knows(p)'
    BY <2>9, <2>10 DEF Knows, Valid
  <2>13. Effect
    BY <1>3, <2>4, <2>9 DEF Effect
  <2> QED
    BY <1>2, <2>10, <2>11, <2>12, <2>13 DEF Good
<1> QED
  BY <1>5, <1>6

(* The steps that move an opener and leave the database alone.             *)
LEMMA MovesGood ==
  ASSUME IInv, NEW p \in Procs, Finalized(p) \/ StatementFails(p) \/ Close(p) \/ Crash(p)
  PROVE  Good(p)
<1>1. TypeOK
  BY DEF IInv
<1>2. UNCHANGED <<db, origin>> /\ faults' \in 0..MaxFaults
  BY <1>1, AdmissionAssumption DEF Finalized, StatementFails, Close, Crash, TypeOK
<1>3. Move(p, "verifying") \/ proc' = [proc EXCEPT ![p] = Idle]
  BY DEF Finalized, StatementFails, Close, Crash
<1>4. /\ proc' \in [Procs -> [pc : {"idle", "bootstrapping", "migrating", "finalizing",
                                   "verifying", "admitted", "refused"},
                             version : 0..Version, next : 1..(Len(Schema) + 1)]]
      /\ proc'[p].pc = "verifying" \/ (proc'[p].pc = "idle" /\ proc'[p].next = 1)
      /\ \A q \in Procs \ {p} : proc'[q] = proc[q]
  <2>1. CASE Move(p, "verifying")
    BY <1>1, <2>1, MoveFacts
  <2>2. CASE proc' = [proc EXCEPT ![p] = Idle]
    <3>1. Idle \in [pc : {"idle", "bootstrapping", "migrating", "finalizing",
                          "verifying", "admitted", "refused"},
                    version : 0..Version, next : 1..(Len(Schema) + 1)]
      BY SchemaFacts DEF Idle
    <3> QED
      BY <1>1, <2>2, <3>1 DEF TypeOK, Idle
  <2> QED
    BY <1>3, <2>1, <2>2
<1>5. TypeOK'
  BY <1>1, <1>2, <1>4 DEF TypeOK
<1>6. Knows(p)'
  BY <1>4 DEF Knows
<1> QED
  BY <1>2, <1>4, <1>5, <1>6 DEF Good, Effect

LEMMA VerifyGood ==
  ASSUME IInv, NEW p \in Procs, Verify(p)
  PROVE  Good(p)
<1>1. TypeOK /\ Shape
  BY DEF IInv
<1>2. UNCHANGED <<db, origin, faults>>
  BY DEF Verify
<1>3. \/ Verdict(db) = "COMPATIBLE" /\ Move(p, "admitted")
      \/ Move(p, "refused")
  BY DEF Verify
<1>4. CASE Verdict(db) = "COMPATIBLE" /\ Move(p, "admitted")
  <2>1. TypeOK' /\ proc'[p].pc = "admitted" /\ \A q \in Procs \ {p} : proc'[q] = proc[q]
    BY <1>1, <1>2, <1>4, MoveFacts, SameDbTypes
  <2>2. Knows(p)'
    BY <1>1, <1>2, <1>4, <2>1, CompatibleIsWhole DEF Knows
  <2> QED
    BY <1>2, <2>1, <2>2 DEF Good, Effect
<1>5. CASE Move(p, "refused")
  <2>1. TypeOK' /\ proc'[p].pc = "refused" /\ \A q \in Procs \ {p} : proc'[q] = proc[q]
    BY <1>1, <1>2, <1>5, MoveFacts, SameDbTypes
  <2>2. Knows(p)'
    BY <2>1 DEF Knows
  <2> QED
    BY <1>2, <2>1, <2>2 DEF Good, Effect
<1> QED
  BY <1>3, <1>4, <1>5

-----------------------------------------------------------------------------
(* Putting the steps together.                                             *)

LEMMA NextGood ==
  ASSUME IInv, Next
  PROVE  \E p \in Procs : Good(p)
<1>1. PICK p \in Procs : Step(p) \/ StatementFails(p) \/ Crash(p)
  BY DEF Next
<1> QED
  BY <1>1, InspectGood, CreateTableGood, StampGood, MigrateGood, MovesGood, VerifyGood DEF Step

LEMMA NextInv ==
  ASSUME IInv, [Next]_vars
  PROVE  IInv' /\ Effect
<1>1. CASE UNCHANGED vars
  <2>1. TypeOK' /\ Shape'
    BY <1>1 DEF IInv, TypeOK, Shape, FreshShape, Valid, Unvouched, vars
  <2>2. \A p \in Procs : Knows(p)'
    BY <1>1 DEF IInv, Knows, FreshShape, Valid, Half, vars
  <2> QED
    BY <1>1, <2>1, <2>2 DEF IInv, Effect, vars
<1>2. CASE Next
  <2>1. PICK p \in Procs : Good(p)
    BY <1>2, NextGood
  <2>2. TypeOK' /\ Shape' /\ Effect
    BY <2>1, ShapeStable DEF IInv, Good
  <2>3. ASSUME NEW q \in Procs
        PROVE  Knows(q)'
    <3>1. CASE q = p
      BY <2>1, <3>1 DEF Good
    <3>2. CASE q # p
      BY <2>1, <3>2, KnowsStable DEF IInv, Good
    <3> QED
      BY <3>1, <3>2
  <2> QED
    BY <2>2, <2>3 DEF IInv
<1> QED
  BY <1>1, <1>2

LEMMA Invariant == Spec => []IInv
<1>1. IInv /\ [Next]_vars => IInv'
  BY NextInv
<1> QED
  BY <1>1, InitInv, PTL DEF Spec

-----------------------------------------------------------------------------
(* The database and the openers keep their types, and no version row of an *)
(* unknown version is ever written (SqliteStore.__init__ and               *)
(* compatibility.py).                                                      *)
THEOREM AdmissionTypeCorrect == Spec => []TypeOK
<1>1. IInv => TypeOK
  BY DEF IInv
<1> QED
  BY <1>1, Invariant, PTL

(* An opener that __init__ let in has every table and column its code      *)
(* uses, through any number of others that bootstrap, migrate, fail or die *)
(* meanwhile.                                                              *)
THEOREM AdmittedAreServed == Spec => []AdmittedHasSchema
<1>1. IInv => AdmittedHasSchema
  BY DEF IInv, Knows, AdmittedHasSchema
<1> QED
  BY <1>1, Invariant, PTL

(* A database that is not this software's, a later version's, damaged or   *)
(* half migrated by hand is never written to: every inspection refuses it, *)
(* and a migration of it conflicts and is rolled back.                     *)
THEOREM RefusedStaysUntouched == Spec => []RefusedIsUntouched
<1>1. IInv => RefusedIsUntouched
  <2> SUFFICES ASSUME IInv, origin \in Unvouched
               PROVE  db = origin
    BY DEF RefusedIsUntouched
  <2>1. Fresh \notin Unvouched
    <3>1. Fresh # Newer
      <4>1. Newer.tables = Tables /\ Fresh.tables = {}
        BY DEF Newer, Fresh
      <4> QED
        BY <4>1, SchemaFacts
    <3>2. \A d \in Foreign : d.tables # {}
      BY DEF Foreign
    <3>3. \A d \in Torn : d.tables # {}
      <4>1. \A t \in Tables \ {Marker} : Marker \in Tables \ {t}
        BY SchemaFacts
      <4> QED
        BY <4>1 DEF Torn
    <3>4. \A a \in Alters : Half(a).tables # {}
      BY HalfFacts
    <3>5. Fresh.tables = {}
      BY DEF Fresh
    <3> QED
      BY <3>1, <3>2, <3>3, <3>4, <3>5 DEF Unvouched
  <2>2. ~FreshShape
    BY <2>1 DEF FreshShape
  <2>3. Valid(Version) \notin Unvouched
    <3>1. Valid(Version).tables = Tables /\ Valid(Version).stamps = Versions
      BY ValidVersion
    <3>2. Newer.stamps # Versions
      <4>1. Version + 1 \in Newer.stamps /\ Version + 1 \notin Versions
        BY SchemaFacts DEF Newer, Versions
      <4> QED
        BY <4>1
    <3>3. \A d \in Foreign : d.stamps # Versions
      BY SchemaFacts DEF Foreign
    <3>4. \A d \in Torn : d.tables # Tables
      BY DEF Torn
    <3>5. \A a \in Alters : Half(a).stamps # Versions
      <4> SUFFICES ASSUME NEW a \in Alters
                   PROVE  Half(a).stamps # Versions
        OBVIOUS
      <4>1. Half(a).stamps = 1..(a[1] - 1) /\ a[1] - 1 \in 1..(Version - 1)
        BY HalfFacts
      <4>2. Version \in Versions /\ Version \notin 1..(a[1] - 1)
        BY <4>1, SchemaFacts
      <4> QED
        BY <4>1, <4>2
    <3> QED
      BY <3>1, <3>2, <3>3, <3>4, <3>5 DEF Unvouched
  <2>4. \A v \in Versions : origin # Valid(v)
    <3>1. \A v \in Versions : v \in 1..(Version - 1) \/ v = Version
      BY SchemaFacts DEF Versions
    <3> QED
      BY <2>3, <3>1, ValidIsVouched
  <2> QED
    BY <2>2, <2>4 DEF IInv, Shape
<1> QED
  BY <1>1, Invariant, PTL

(* Bootstrap and migration record a version only when all its tables and   *)
(* columns are there, and nothing that was committed goes away again.      *)
THEOREM StampsComeLast == Spec => NeverHalfStamped
<1> DEFINE Whole(v) == /\ {t \in Tables : Since[t] <= v} \subseteq db'.tables
                       /\ {a \in Alters : a[1] <= v} \subseteq db'.columns
<1>1. ASSUME IInv, Effect, NEW v \in db'.stamps \ db.stamps
      PROVE  Whole(v)
  <2>1. CASE db' = db
    BY <1>1, <2>1
  <2>2. CASE FreshShape /\ FreshShape'
    <3>1. db'.tables = Tables
      BY <1>1, <2>2 DEF FreshShape
    <3>2. db'.columns = Alters
      BY <2>2, <3>1, SchemaFacts DEF FreshShape
    <3> QED
      BY <3>1, <3>2
  <2>3. CASE db' = Valid(Version)
    BY <2>3, ValidVersion
  <2> QED
    BY <1>1, <2>1, <2>2, <2>3 DEF Effect
<1>2. IInv /\ [Next]_vars =>
        /\ db.tables \subseteq db'.tables /\ db.columns \subseteq db'.columns
        /\ db.stamps \subseteq db'.stamps
        /\ \A v \in db'.stamps \ db.stamps : Whole(v)
  BY <1>1, NextInv, DbGrows
<1> QED
  BY <1>2, Invariant, PTL DEF Spec, NeverHalfStamped

(* The safety half of OlderIsUpgraded: once the store is current it stays  *)
(* so.  No later opener, competing bootstrap or migration, failure or      *)
(* death changes what is in it again.                                      *)
THEOREM CurrentStaysCurrent == Spec => [](db = Current => [](db = Current))
<1>1. ASSUME IInv, IInv', Effect, db = Current
      PROVE  db' = Current
  <2>0. db = [tables |-> Tables, columns |-> Alters, stamps |-> Versions] /\ Current = db
    BY <1>1, ValidVersion DEF Current
  <2>1. CASE db' = db
    BY <1>1, <2>1
  <2>2. CASE FreshShape' /\ db.tables \subseteq db'.tables /\ db.stamps \subseteq db'.stamps
    <3>1. db' \in [tables : SUBSET Tables, columns : SUBSET Alters, stamps : SUBSET Int]
      BY <1>1 DEF IInv, TypeOK
    <3>2. db'.tables = Tables /\ db'.stamps = Versions
      <4>1. Versions # {} /\ Versions \subseteq db'.stamps /\ Tables \subseteq db'.tables
        BY <2>0, <2>2, SchemaFacts
      <4> QED
        BY <2>2, <3>1, <4>1 DEF FreshShape
    <3>3. db'.columns = Alters
      BY <2>2, <3>2, SchemaFacts DEF FreshShape
    <3> QED
      BY <2>0, <3>1, <3>2, <3>3
  <2>3. CASE \E v \in 1..(Version - 1) : db = Valid(v) /\ db' = Valid(Version)
    BY <2>3 DEF Current
  <2> QED
    BY <1>1, <2>1, <2>2, <2>3 DEF Effect
<1>2. IInv /\ IInv' /\ [Next]_vars /\ db = Current => (db = Current)'
  <2>1. Current' = Current
    BY DEF Current, Valid
  <2> QED
    BY <1>1, <2>1, NextInv
<1> QED
  BY <1>2, Invariant, PTL DEF Spec
=============================================================================
