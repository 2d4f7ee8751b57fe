---------------------------- MODULE RunnerProofs ----------------------------
(***************************************************************************)
(* Proofs about Runner: its state, what its events say, and when it gives  *)
(* a product up.                                                           *)
(***************************************************************************)
EXTENDS Runner, FiniteSetTheorems, TLAPS

RunType == [status : {"none", "running", "ok", "failed", "blocked_zero_result"},
            observed : Nat, receipt : BOOLEAN]

JobType == [run : Nat, baseline : BOOLEAN, previous : Nat, notifying : BOOLEAN,
            status : {"none", "ok", "failed"}, found : Finds, log : Logs,
            prior : Logs, todo : SUBSET Products]

RowType == [status : {"unknown", "active", "removed"},
            sku : {NoSku} \cup {c.sku : c \in Contents}, absences : Nat]

EventType == [product : Products, type : ChangeType,
              prev : Contents \cup {NoContent},
              cur : Contents \cup {NoContent}, occ : Nat]

TInv == TypeOK /\ UnusedRuns /\ JobIsCurrent

LEMMA NoJobType == NoJob \in JobType
  BY DEF NoJob, Finds, Logs, Class, JobType

LEMMA EmittedFinite == Cardinality(Emitted) \in Nat /\ (Emitted # {} => Cardinality(Emitted) > 0)
<1>1. IsFiniteSet(Emitted)
  BY FS_Subset, RunnerAssumption DEF Emitted
<1> QED BY <1>1, FS_CardinalityType, FS_EmptySet

\* The row a processed run leaves of a product.
LEMMA NextRowType ==
  ASSUME TypeOK, NEW p \in Products
  PROVE  NextRow(p) \in RowType
<1>1. products[p] \in RowType
  BY DEF TypeOK, RowType
<1>2. CASE p \in Emitted
  <2>1. job.found[p] \in Contents
    BY <1>2 DEF TypeOK, Finds, Emitted
  <2> QED BY <1>1, <1>2, <2>1 DEF NextRow, Seen, RowType
<1>3. CASE p \notin Emitted
  BY <1>1, <1>3 DEF NextRow, Missed, RowType
<1> QED BY <1>2, <1>3

\* What process_run tells is made of events.
LEMMA ToldType ==
  ASSUME TypeOK
  PROVE  Told \subseteq EventType
<1>1. SightingEvents \subseteq EventType
  BY DEF SightingEvents, DedupKey, TypeOK, Emitted, Finds, Owed, EventType
<1>2. DemotionEvents \subseteq EventType
  BY DEF DemotionEvents, DedupKey, ChangeType, EventType
<1>3. RemovalEvents \subseteq EventType
  BY DEF RemovalEvents, DedupKey, ChangeType, TypeOK, EventType
<1> QED BY <1>1, <1>2, <1>3 DEF Told

LEMMA EnqueuedType ==
  Enqueued \subseteq [event : Told, status : {"pending", "suppressed"}]
  BY DEF Enqueued, InitialStatus

-----------------------------------------------------------------------------
(* The tables and the locals of the process keep their types, and the      *)
(* process inside _run owns the newest row of collector_runs.              *)

LEMMA TInvInit == Init => TInv
  BY NoJobType, RunnerAssumption
     DEF Init, TInv, TypeOK, UnusedRuns, JobIsCurrent, UnknownRow, NoSighting, Class,
         JobType, RunRow, RunIds

\* The types one by one, as the steps of the proof need them.
LEMMA Types ==
  TypeOK <=> /\ runs \in [RunIds -> RunType] /\ lastRun \in 0..MaxRuns
             /\ products \in [Products -> RowType]
             /\ sightings \subseteq [product : Products, run : Nat, content : Contents]
             /\ current \in [Products -> [content : Contents \cup {NoContent}, run : Nat]]
             /\ classLog \in [Products -> Class]
             /\ events \subseteq EventType
             /\ outbox \subseteq [event : events, status : {"pending", "suppressed"}]
             /\ pc \in {"idle", "collecting", "logging", "processed"}
             /\ job \in JobType
  BY DEF TypeOK, RunType, JobType, RowType, EventType

\* The row the running process owns.
LEMMA OwnRow ==
  TInv /\ pc # "idle" => /\ job.run \in RunIds /\ job.run = lastRun
                         /\ runs[job.run].status = "running"
                         /\ runs[job.run] \in RunType
<1> SUFFICES ASSUME TInv, pc # "idle"
             PROVE  /\ job.run \in RunIds /\ job.run = lastRun
                    /\ runs[job.run].status = "running"
                    /\ runs[job.run] \in RunType
  OBVIOUS
<1>1. runs \in [RunIds -> RunType] /\ lastRun \in 0..MaxRuns
  BY Types DEF TInv
<1>2. job.run = lastRun /\ job.run > 0 /\ runs[job.run].status = "running"
  BY DEF TInv, JobIsCurrent
<1>3. job.run \in RunIds
  BY <1>1, <1>2, RunnerAssumption DEF RunIds
<1> QED BY <1>1, <1>2, <1>3

\* Replacing a row by one that is not ok, of a run that was not ok.
LEMMA SameOk ==
  ASSUME runs \in [RunIds -> RunType], NEW i \in RunIds, NEW row \in RunType,
         runs' = [runs EXCEPT ![i] = row],
         row.status = "ok" <=> runs[i].status = "ok"
  PROVE  OkRuns' = OkRuns
<1>1. \A r \in RunIds : runs'[r] = IF r = i THEN row ELSE runs[r]
  OBVIOUS
<1> QED BY <1>1 DEF OkRuns

LEMMA StartTInv == TInv /\ StartRun => TInv'
<1> SUFFICES ASSUME TInv, StartRun PROVE TInv'
  OBVIOUS
<1> DEFINE row == RunRow("running", 0, FALSE)
<1>1. /\ lastRun < MaxRuns /\ lastRun' = lastRun + 1 /\ pc' = "collecting"
      /\ runs' = [runs EXCEPT ![lastRun + 1] = row]
      /\ UNCHANGED <<products, sightings, current, classLog, events, outbox>>
  BY DEF StartRun
<1>2. TypeOK /\ runs \in [RunIds -> RunType] /\ lastRun \in Nat
  BY Types DEF TInv
<1>3. lastRun + 1 \in RunIds
  BY <1>1, <1>2, RunnerAssumption DEF RunIds
<1>4. row \in RunType /\ row.status = "running" /\ row.receipt = FALSE
  BY DEF RunRow, RunType
<1> HIDE DEF row
<1>5. runs[lastRun + 1].status = "none"
  BY <1>2, <1>3 DEF TInv, UnusedRuns
<1>6. OkRuns' = OkRuns
  BY <1>1, <1>2, <1>3, <1>4, <1>5, SameOk
<1>7. /\ runs' \in [RunIds -> RunType]
      /\ \A r \in RunIds : runs'[r] = IF r = lastRun + 1 THEN row ELSE runs[r]
  BY <1>1, <1>2, <1>3, <1>4
<1>8. \/ OkRuns = {} /\ \E t \in BOOLEAN : job' = NewJob(TRUE, 0, t)
      \/ OkRuns # {} /\ \E n \in Nat, t \in BOOLEAN : job' = NewJob(FALSE, n, t)
  <2>1. CASE OkRuns = {} /\ \E t \in Notifying : job' = NewJob(TRUE, 0, t)
    BY <2>1, RunnerAssumption
  <2>2. ASSUME NEW r \in RunIds, NEW t \in Notifying, IsLastOk(r),
               job' = NewJob(FALSE, runs[r].observed, t)
        PROVE  OkRuns # {} /\ \E n \in Nat, u \in BOOLEAN : job' = NewJob(FALSE, n, u)
    <3>1. runs[r].observed \in Nat /\ t \in BOOLEAN /\ r \in OkRuns
      BY <1>2, <2>2, RunnerAssumption DEF RunType, IsLastOk
    <3> QED BY <2>2, <3>1
  <2> QED BY <2>1, <2>2 DEF StartRun
<1>9. job' \in JobType /\ job'.run = lastRun + 1 /\ (job'.baseline <=> OkRuns = {})
  <2>1. ASSUME NEW b \in BOOLEAN, NEW n \in Nat, NEW t \in BOOLEAN, job' = NewJob(b, n, t)
        PROVE  job' \in JobType /\ job'.run = lastRun + 1 /\ job'.baseline = b
    <3>1. job' = [NoJob EXCEPT !.run = lastRun + 1, !.baseline = b, !.previous = n, !.notifying = t]
      BY <2>1 DEF NewJob
    <3>2. lastRun + 1 \in Nat
      BY <1>2
    <3> QED BY <3>1, <3>2, NoJobType DEF JobType
  <2>2. CASE OkRuns = {}
    BY <1>8, <2>1, <2>2
  <2>3. CASE OkRuns # {}
    BY <1>8, <2>1, <2>3
  <2> QED BY <2>2, <2>3
<1>10. TypeOK'
  <2>1. lastRun' \in 0..MaxRuns
    BY <1>1, <1>3 DEF RunIds
  <2> QED BY <1>1, <1>2, <1>7, <1>9, <2>1 DEF TypeOK, RunType, JobType
<1>11. UnusedRuns'
  BY <1>1, <1>2, <1>7 DEF TInv, UnusedRuns, RunIds
<1>12. JobIsCurrent'
  BY <1>1, <1>2, <1>3, <1>4, <1>6, <1>7, <1>9 DEF JobIsCurrent
<1> QED BY <1>10, <1>11, <1>12 DEF TInv

LEMMA CollectTInv == TInv /\ Collect => TInv'
<1> SUFFICES ASSUME TInv, Collect PROVE TInv'
  OBVIOUS
<1>1. UNCHANGED tables /\ pc = "collecting" /\ pc' = "logging"
  BY DEF Collect
<1>2. job \in JobType /\ classLog \in Logs
  BY Types DEF TInv, Logs
<1>3. job' \in JobType /\ job'.run = job.run /\ job'.baseline = job.baseline
  <2>1. PICK log \in Logs, found \in Finds, status \in {"ok", "failed"} :
          job' = [job EXCEPT !.status = status, !.found = found, !.log = log,
                             !.prior = classLog, !.todo = {p \in Products : log[p] # "none"}]
    BY DEF Collect
  <2> DEFINE todo == {p \in Products : log[p] # "none"}
  <2>2. todo \in SUBSET Products
    OBVIOUS
  <2>3. job' = [job EXCEPT !.status = status, !.found = found, !.log = log,
                           !.prior = classLog, !.todo = todo]
    BY <2>1
  <2> HIDE DEF todo
  <2> QED BY <1>2, <2>2, <2>3 DEF JobType
<1>4. TypeOK'
  BY <1>1, <1>3 DEF TInv, TypeOK, JobType, tables
<1>5. UnusedRuns'
  BY <1>1 DEF TInv, UnusedRuns, tables
<1>6. OkRuns' = OkRuns
  BY <1>1 DEF OkRuns, tables
<1>7. JobIsCurrent'
  BY <1>1, <1>3, <1>6 DEF TInv, JobIsCurrent, tables
<1> QED BY <1>4, <1>5, <1>7 DEF TInv

LEMMA PersistTInv ==
  ASSUME NEW p \in Products
  PROVE  TInv /\ PersistClassification(p) => TInv'
<1> SUFFICES ASSUME TInv, PersistClassification(p) PROVE TInv'
  OBVIOUS
<1>1. /\ UNCHANGED <<runs, lastRun, products, sightings, current, events, outbox, pc>>
      /\ pc = "logging"
      /\ classLog' \in {[classLog EXCEPT ![p] = job.log[p]], classLog}
      /\ job' = [job EXCEPT !.todo = job.todo \ {p}]
  BY DEF PersistClassification
<1>2. job \in JobType /\ classLog \in [Products -> Class]
  BY Types DEF TInv
<1>3. job' \in JobType /\ job'.run = job.run /\ job'.baseline = job.baseline
  BY <1>1, <1>2 DEF JobType
<1>4. classLog' \in [Products -> Class]
  <2>1. job.log[p] \in Class
    BY <1>2 DEF JobType, Logs
  <2> QED BY <1>1, <1>2, <2>1
<1>5. TypeOK'
  BY <1>1, <1>3, <1>4 DEF TInv, TypeOK, JobType
<1>6. UnusedRuns'
  BY <1>1 DEF TInv, UnusedRuns
<1>7. OkRuns' = OkRuns
  BY <1>1 DEF OkRuns
<1>8. JobIsCurrent'
  BY <1>1, <1>3, <1>7 DEF TInv, JobIsCurrent
<1> QED BY <1>5, <1>6, <1>8 DEF TInv

LEMMA FinishTInv ==
  ASSUME NEW status \in {"ok", "failed", "blocked_zero_result"}, NEW n \in Nat
  PROVE  TInv /\ pc # "idle" /\ FinishRun(status, n) => TInv'
<1> SUFFICES ASSUME TInv, pc # "idle", FinishRun(status, n) PROVE TInv'
  OBVIOUS
<1> DEFINE row == RunRow(status, n, runs[job.run].receipt)
<1>1. /\ pc' = "idle" /\ job' = NoJob
      /\ UNCHANGED <<lastRun, products, sightings, current, classLog, events, outbox>>
  BY DEF FinishRun
<1>2. /\ job.run \in RunIds /\ job.run = lastRun /\ runs \in [RunIds -> RunType]
      /\ runs[job.run] \in RunType
  BY OwnRow, Types DEF TInv
<1>3. runs' = [runs EXCEPT ![job.run] = row]
  BY <1>2 DEF FinishRun
<1>4. row \in RunType
  BY <1>2 DEF RunRow, RunType
<1> HIDE DEF row
<1>5. /\ runs' \in [RunIds -> RunType]
      /\ \A r \in RunIds : r # job.run => runs'[r] = runs[r]
  BY <1>2, <1>3, <1>4
<1>6. TypeOK'
  BY <1>1, <1>5, NoJobType DEF TInv, TypeOK, RunType, JobType
<1>7. UnusedRuns'
  <2>1. lastRun \in Nat /\ RunIds \subseteq Nat
    BY Types DEF TInv, RunIds
  <2> QED BY <1>1, <1>2, <1>5, <2>1 DEF TInv, UnusedRuns
<1>8. JobIsCurrent'
  BY <1>1 DEF JobIsCurrent
<1> QED BY <1>6, <1>7, <1>8 DEF TInv

LEMMA ProcessTInv == TInv /\ ProcessRun => TInv'
<1> SUFFICES ASSUME TInv, ProcessRun PROVE TInv'
  OBVIOUS
<1> DEFINE row == RunRow(runs[job.run].status, runs[job.run].observed, TRUE)
<1>1. /\ pc = "logging" /\ pc' = "processed" /\ UNCHANGED <<lastRun, classLog, job>>
  BY DEF ProcessRun
<1>2. /\ TypeOK /\ job.run \in RunIds /\ job.run = lastRun /\ runs \in [RunIds -> RunType]
      /\ runs[job.run] \in RunType /\ runs[job.run].status = "running"
  BY <1>1, OwnRow, Types DEF TInv
<1>3. runs' = [runs EXCEPT ![job.run] = row]
  BY <1>2 DEF ProcessRun
<1>4. row \in RunType /\ row.status = "running" /\ row.receipt
  BY <1>2 DEF RunRow, RunType
<1> HIDE DEF row
<1>5. /\ runs' \in [RunIds -> RunType] /\ runs'[job.run] = row
      /\ \A r \in RunIds : r # job.run => runs'[r] = runs[r]
  BY <1>2, <1>3, <1>4
<1>6. products' \in [Products -> RowType]
  BY <1>2, NextRowType DEF ProcessRun
<1>7. sightings' \subseteq [product : Products, run : Nat, content : Contents]
  BY <1>2 DEF ProcessRun, TypeOK, Emitted, Finds
<1>8. current' \in [Products -> [content : Contents \cup {NoContent}, run : Nat]]
  BY <1>2 DEF ProcessRun, TypeOK, NextPointer, Finds
<1>9. events' \subseteq EventType
  BY <1>2, ToldType, Types DEF ProcessRun
<1>10. outbox' \subseteq [event : events', status : {"pending", "suppressed"}]
  BY <1>2, EnqueuedType DEF ProcessRun, TypeOK
<1>11. TypeOK'
  BY <1>1, <1>2, <1>5, <1>6, <1>7, <1>8, <1>9, <1>10
     DEF TypeOK, RunType, RowType, EventType
<1>12. UnusedRuns'
  <2>1. lastRun \in Nat /\ RunIds \subseteq Nat
    BY Types DEF TInv, RunIds
  <2> QED BY <1>1, <1>2, <1>5, <2>1 DEF TInv, UnusedRuns
<1>13. OkRuns' = OkRuns
  BY <1>2, <1>3, <1>4, SameOk
<1>14. JobIsCurrent'
  BY <1>1, <1>4, <1>5, <1>13 DEF TInv, JobIsCurrent
<1> QED BY <1>11, <1>12, <1>14 DEF TInv

LEMMA CrashTInv == TInv /\ Crash => TInv'
<1> SUFFICES ASSUME TInv, Crash PROVE TInv'
  OBVIOUS
<1>1. UNCHANGED tables /\ pc' = "idle" /\ job' = NoJob
  BY DEF Crash
<1>2. TypeOK'
  BY <1>1, NoJobType DEF TInv, TypeOK, JobType, tables
<1>3. UnusedRuns' /\ JobIsCurrent'
  BY <1>1 DEF TInv, UnusedRuns, JobIsCurrent, tables
<1> QED BY <1>2, <1>3 DEF TInv

LEMMA TInvNext == TInv /\ [Next]_vars => TInv'
<1> SUFFICES ASSUME TInv, [Next]_vars PROVE TInv'
  OBVIOUS
<1>1. CASE FinishFailed
  BY <1>1, FinishTInv DEF FinishFailed
<1>2. CASE BlockZeroResult
  BY <1>2, FinishTInv DEF BlockZeroResult
<1>3. CASE FinishOk
  BY <1>3, FinishTInv, EmittedFinite DEF FinishOk
<1>4. CASE UNCHANGED vars
  BY <1>4 DEF vars, TInv, TypeOK, UnusedRuns, JobIsCurrent, OkRuns
<1> QED BY <1>1, <1>2, <1>3, <1>4, StartTInv, CollectTInv, PersistTInv, ProcessTInv, CrashTInv
        DEF Next

(* Every table and local of the runner keeps its type, whatever the source *)
(* returns and wherever the process dies.                                  *)
THEOREM TypeCorrect == Spec => []TypeOK
<1>1. TInv => TypeOK
  BY DEF TInv
<1> QED BY <1>1, TInvInit, TInvNext, PTL DEF Spec

-----------------------------------------------------------------------------
(* Silence of the baseline.                                                *)

\* A step replaces at most one row of collector_runs, one that is not
\* finished; only FinishOk makes it ok, and no step takes a receipt back.
OneRowStep(i, row) ==
  /\ runs[i].status \in {"none", "running"}
  /\ row.status = "ok" => FinishOk
  /\ runs[i].receipt => row.receipt
  /\ runs' = [runs EXCEPT ![i] = row]

LEMMA RunsStep ==
  TInv /\ [Next]_vars =>
    UNCHANGED runs \/ \E i \in RunIds : \E row \in RunType : OneRowStep(i, row)
<1> SUFFICES ASSUME TInv, [Next]_vars
             PROVE  UNCHANGED runs \/ \E i \in RunIds : \E row \in RunType : OneRowStep(i, row)
  OBVIOUS
<1>1. CASE StartRun
  <2> DEFINE row == RunRow("running", 0, FALSE)
  <2>1. lastRun + 1 \in RunIds /\ lastRun + 1 > lastRun
    BY <1>1, Types, RunnerAssumption DEF StartRun, TInv, RunIds
  <2>2. runs[lastRun + 1].status = "none" /\ ~runs[lastRun + 1].receipt
    BY <2>1 DEF TInv, UnusedRuns
  <2>3. /\ row \in RunType /\ row.status = "running"
        /\ runs' = [runs EXCEPT ![lastRun + 1] = row]
    BY <1>1 DEF StartRun, RunRow, RunType
  <2> HIDE DEF row
  <2> QED BY <2>1, <2>2, <2>3 DEF OneRowStep
<1>2. ASSUME NEW status \in {"ok", "failed", "blocked_zero_result"}, NEW n \in Nat,
             pc # "idle", FinishRun(status, n), status = "ok" => FinishOk
      PROVE  \E i \in RunIds : \E row \in RunType : OneRowStep(i, row)
  <2> DEFINE row == RunRow(status, n, runs[job.run].receipt)
  <2>1. job.run \in RunIds /\ runs[job.run].status = "running" /\ runs[job.run] \in RunType
    BY <1>2, OwnRow
  <2>2. runs \in [RunIds -> RunType]
    BY Types DEF TInv
  <2>3. row \in RunType /\ row.receipt = runs[job.run].receipt /\ row.status = status
    BY <2>1 DEF RunRow, RunType
  <2>4. runs' = [runs EXCEPT ![job.run] = row]
    BY <1>2, <2>1, <2>2 DEF FinishRun
  <2> HIDE DEF row
  <2> QED BY <1>2, <2>1, <2>3, <2>4 DEF OneRowStep
<1>3. CASE ProcessRun
  <2> DEFINE row == RunRow(runs[job.run].status, runs[job.run].observed, TRUE)
  <2>1. job.run \in RunIds /\ runs[job.run].status = "running" /\ runs[job.run] \in RunType
    BY <1>3, OwnRow DEF ProcessRun
  <2>2. runs \in [RunIds -> RunType]
    BY Types DEF TInv
  <2>3. row \in RunType /\ row.receipt /\ row.status = "running"
    BY <2>1 DEF RunRow, RunType
  <2>4. runs' = [runs EXCEPT ![job.run] = row]
    BY <1>3, <2>1, <2>2 DEF ProcessRun
  <2> HIDE DEF row
  <2> QED BY <2>1, <2>3, <2>4 DEF OneRowStep
<1>4. CASE Collect
  BY <1>4 DEF Collect, tables
<1>5. ASSUME NEW p \in Products, PersistClassification(p) PROVE UNCHANGED runs
  BY <1>5 DEF PersistClassification
<1>6. CASE FinishFailed
  BY <1>2, <1>6 DEF FinishFailed
<1>7. CASE BlockZeroResult
  BY <1>2, <1>7 DEF BlockZeroResult
<1>8. CASE FinishOk
  BY <1>2, <1>8, EmittedFinite DEF FinishOk
<1>9. CASE Crash \/ UNCHANGED vars
  BY <1>9 DEF Crash, tables, vars
<1> QED BY <1>1, <1>3, <1>4, <1>5, <1>6, <1>7, <1>8, <1>9 DEF Next

\* A run that finished ok stays ok, a receipt stays with its run.
LEMMA RunsGrow ==
  TInv /\ [Next]_vars =>
    /\ OkRuns \subseteq OkRuns'
    /\ \A r \in RunIds : runs[r].receipt => runs'[r].receipt
<1> SUFFICES ASSUME TInv, [Next]_vars
             PROVE  /\ OkRuns \subseteq OkRuns'
                    /\ \A r \in RunIds : runs[r].receipt => runs'[r].receipt
  OBVIOUS
<1>1. CASE UNCHANGED runs
  BY <1>1 DEF OkRuns
<1>2. ASSUME NEW i \in RunIds, NEW row \in RunType, OneRowStep(i, row)
      PROVE  /\ OkRuns \subseteq OkRuns'
             /\ \A r \in RunIds : runs[r].receipt => runs'[r].receipt
  <2>1. \A r \in RunIds : runs'[r] = IF r = i THEN row ELSE runs[r]
    BY <1>2, Types DEF TInv, OneRowStep
  <2> QED BY <1>2, <2>1 DEF OkRuns, OneRowStep
<1> QED BY <1>1, <1>2, RunsStep

\* Only process_run writes the four tables of the catalogue.
CatalogueTables == <<products, sightings, current, events>>

LEMMA OnlyProcessWrites == [Next]_vars => ProcessRun \/ UNCHANGED CatalogueTables
  BY DEF Next, vars, tables, CatalogueTables, StartRun, Collect, PersistClassification,
         FinishFailed, BlockZeroResult, FinishOk, FinishRun, Crash

(* No event exists before some run of the source finished ok: a first run  *)
(* that dies after its commit, or any number of them, announces nothing.   *)
THEOREM BaselineIsSilent == Spec => []BaselineSilent
<1>1. Init => BaselineSilent
  BY DEF Init, BaselineSilent
<1>2. TInv /\ BaselineSilent /\ [Next]_vars => BaselineSilent'
  <2> SUFFICES ASSUME TInv, BaselineSilent, [Next]_vars PROVE BaselineSilent'
    OBVIOUS
  <2>1. OkRuns \subseteq OkRuns'
    BY RunsGrow
  <2>2. CASE UNCHANGED CatalogueTables
    BY <2>1, <2>2 DEF BaselineSilent, CatalogueTables
  <2>3. CASE ProcessRun
    <3>1. job.baseline <=> OkRuns = {}
      BY <2>3 DEF TInv, JobIsCurrent, ProcessRun
    <3>2. CASE job.baseline
      <4>1. events' = events
        BY <2>3, <3>2 DEF ProcessRun, Told
      <4> QED BY <2>1, <4>1 DEF BaselineSilent
    <3>3. CASE ~job.baseline
      BY <2>1, <3>1, <3>3 DEF BaselineSilent
    <3> QED BY <3>2, <3>3
  <2> QED BY <2>2, <2>3, OnlyProcessWrites
<1> QED BY <1>1, <1>2, TInvInit, TInvNext, PTL DEF Spec

-----------------------------------------------------------------------------
(* Chronology of the current state.                                        *)

SightingsCommitted == \A s \in sightings : s.run \in RunIds /\ runs[s.run].receipt

Chronology == TInv /\ SightingsCommitted /\ PointerIsLastSighting

LEMMA ChronologyInit == Init => Chronology
  BY TInvInit DEF Init, Chronology, SightingsCommitted, PointerIsLastSighting, UnknownRow

\* process_run of a run without a receipt: its sightings are new, and later
\* than any other.
LEMMA ChronologyProcess ==
  ASSUME Chronology, ProcessRun, TInv'
  PROVE  Chronology'
<1>1. /\ TypeOK /\ job.run \in RunIds /\ job.run = lastRun /\ pc = "logging"
      /\ ~runs[job.run].receipt /\ job.run \in Nat /\ \A r \in RunIds : r \in Nat
  BY OwnRow DEF Chronology, TInv, JobIsCurrent, ProcessRun, RunIds
<1> DEFINE new == {[product |-> p, run |-> job.run, content |-> job.found[p]] : p \in Emitted}
<1>2. sightings' = sightings \cup new
  BY DEF ProcessRun
<1>3. \A s \in sightings : s.run \in RunIds /\ s.run # job.run /\ runs[s.run].receipt
  BY <1>1 DEF Chronology, SightingsCommitted
<1>4. \A r \in RunIds : runs[r].receipt => r <= job.run
  BY <1>1, Types DEF Chronology, TInv, UnusedRuns, RunIds
<1>5. \A s \in sightings : s.run < job.run
  <2>1. ASSUME NEW r \in Nat, NEW n \in Nat, r <= n, r # n PROVE r < n
    BY <2>1
  <2> QED BY <1>1, <1>3, <1>4, <2>1
<1>6. SightingsCommitted'
  <2>1. \A r \in RunIds : runs[r].receipt => runs'[r].receipt
    <3>1. Next
      BY DEF Next
    <3> QED BY <3>1, RunsGrow DEF Chronology
  <2>2. runs'[job.run].receipt
    BY <1>1, Types DEF ProcessRun, RunRow
  <2>3. \A s \in new : s.run = job.run
    OBVIOUS
  <2> HIDE DEF new
  <2> QED BY <1>1, <1>2, <1>3, <2>1, <2>2, <2>3 DEF SightingsCommitted
<1>7. PointerIsLastSighting'
  <2>1. SUFFICES ASSUME NEW p \in Products
        PROVE  IF products'[p].status = "unknown"
               THEN current'[p] = NoSighting /\ \A s \in sightings' : s.product # p
               ELSE /\ [product |-> p, run |-> current'[p].run, content |-> current'[p].content]
                          \in sightings'
                    /\ \A s \in sightings' : s.product = p => s.run <= current'[p].run
    BY DEF PointerIsLastSighting
  <2>2. products'[p] = NextRow(p) /\ current'[p] = NextPointer(p)
    BY DEF ProcessRun
  <2>3. CASE p \in Emitted
    <3>1. /\ products'[p].status = "active"
          /\ current'[p].run = job.run /\ current'[p].content = job.found[p]
      BY <2>2, <2>3 DEF NextRow, Seen, NextPointer
    <3>2. [product |-> p, run |-> job.run, content |-> job.found[p]] \in sightings'
      BY <1>2, <2>3
    <3>3. \A s \in sightings' : s.run <= job.run
      <4>1. \A s \in new : s.run = job.run
        OBVIOUS
      <4>2. job.run <= job.run
        BY <1>1
      <4>3. \A s \in sightings : s.run <= job.run
        BY <1>1, <1>3, <1>4
      <4> HIDE DEF new
      <4> QED BY <1>2, <4>1, <4>2, <4>3
    <3> QED BY <3>1, <3>2, <3>3
  <2>4. CASE p \notin Emitted
    <3>1. current'[p] = current[p]
      BY <2>2, <2>4 DEF NextPointer
    <3>2. products'[p].status = "unknown" <=> products[p].status = "unknown"
      BY <2>2, <2>4 DEF NextRow, Missed
    <3>3. \A s \in sightings' : s.product = p <=> s \in sightings /\ s.product = p
      BY <1>2, <2>4
    <3>4. sightings \subseteq sightings'
      BY <1>2
    <3> QED BY <3>1, <3>2, <3>3, <3>4 DEF Chronology, PointerIsLastSighting
  <2> QED BY <2>3, <2>4
<1> QED BY <1>6, <1>7 DEF Chronology

(* The pointer of every product is its latest committed sighting, in every *)
(* reachable state: recurrences, crashes, rollbacks and baselines included.*)
THEOREM CurrentIsChronological == Spec => []PointerIsLastSighting
<1>1. Chronology /\ [Next]_vars => Chronology'
  <2> SUFFICES ASSUME Chronology, [Next]_vars PROVE Chronology'
    OBVIOUS
  <2>1. TInv'
    BY TInvNext DEF Chronology
  <2>2. CASE ProcessRun
    BY <2>1, <2>2, ChronologyProcess
  <2>3. CASE UNCHANGED CatalogueTables
    <3>1. PointerIsLastSighting'
      BY <2>3 DEF Chronology, PointerIsLastSighting, CatalogueTables
    <3>2. SightingsCommitted'
      BY <2>3, RunsGrow DEF Chronology, SightingsCommitted, CatalogueTables
    <3> QED BY <2>1, <3>1, <3>2 DEF Chronology
  <2> QED BY <2>2, <2>3, OnlyProcessWrites
<1>2. Chronology => PointerIsLastSighting
  BY DEF Chronology
<1> QED BY <1>1, <1>2, ChronologyInit, PTL DEF Spec

-----------------------------------------------------------------------------
(* The zero-result guard.                                                  *)

Guarded == TInv /\ GuardKnowsHistory /\ CatalogueNeverEmptied

LEMMA GuardedInit == Init => Guarded
  BY TInvInit DEF Init, Guarded, GuardKnowsHistory, CatalogueNeverEmptied, Healthy, OkRuns, RunRow

\* What is known of the ok runs after a step that finishes none.
LEMMA SameHistory ==
  ASSUME TInv, TInv', OkRuns' = OkRuns, \A r \in OkRuns : runs'[r] = runs[r]
  PROVE  /\ Healthy' <=> Healthy
         /\ \A r \in RunIds : IsLastOk(r)' <=> IsLastOk(r)
  BY DEF Healthy, IsLastOk

\* Every step but FinishOk leaves the ok runs as they are.
LEMMA OkRunsKept ==
  ASSUME TInv, [Next]_vars, ~FinishOk
  PROVE  OkRuns' = OkRuns /\ \A r \in OkRuns : runs'[r] = runs[r]
<1>1. CASE UNCHANGED runs
  BY <1>1 DEF OkRuns
<1>2. ASSUME NEW i \in RunIds, NEW row \in RunType, OneRowStep(i, row)
      PROVE  OkRuns' = OkRuns /\ \A r \in OkRuns : runs'[r] = runs[r]
  <2>1. \A r \in RunIds : runs'[r] = IF r = i THEN row ELSE runs[r]
    BY <1>2, Types DEF TInv, OneRowStep
  <2> QED BY <1>2, <2>1 DEF OkRuns, OneRowStep
<1> QED BY <1>1, <1>2, RunsStep

LEMMA GuardedStart == Guarded /\ TInv' /\ StartRun => Guarded'
<1> SUFFICES ASSUME Guarded, TInv', StartRun PROVE Guarded'
  OBVIOUS
<1>1. OkRuns' = OkRuns /\ \A r \in OkRuns : runs'[r] = runs[r]
  <2>1. Next /\ ~FinishOk
    BY DEF Next, StartRun, FinishOk
  <2> QED BY <2>1, OkRunsKept DEF Guarded
<1>2. (Healthy' <=> Healthy) /\ \A r \in RunIds : IsLastOk(r)' <=> IsLastOk(r)
  BY <1>1, SameHistory DEF Guarded
<1>3. Healthy => job'.previous > 0
  <2>1. CASE OkRuns = {}
    BY <2>1 DEF Healthy
  <2>2. ASSUME NEW r \in RunIds, NEW t \in Notifying, IsLastOk(r), Healthy,
               job' = NewJob(FALSE, runs[r].observed, t)
        PROVE  job'.previous > 0
    <3>1. runs[r].observed > 0
      BY <2>2 DEF Guarded, GuardKnowsHistory, IsLastOk
    <3>2. job'.previous = runs[r].observed
      BY <2>2 DEF NewJob, NoJob
    <3> QED BY <3>1, <3>2
  <2> QED BY <2>1, <2>2 DEF StartRun
<1>4. GuardKnowsHistory'
  BY <1>1, <1>2, <1>3 DEF Guarded, GuardKnowsHistory, StartRun, OkRuns
<1>5. CatalogueNeverEmptied'
  BY <1>2 DEF Guarded, CatalogueNeverEmptied, StartRun
<1> QED BY <1>4, <1>5 DEF Guarded

LEMMA GuardedProcess == Guarded /\ TInv' /\ ProcessRun => Guarded'
<1> SUFFICES ASSUME Guarded, TInv', ProcessRun PROVE Guarded'
  OBVIOUS
<1>1. OkRuns' = OkRuns /\ \A r \in OkRuns : runs'[r] = runs[r]
  <2>1. Next /\ ~FinishOk
    BY DEF Next, ProcessRun, FinishOk
  <2> QED BY <2>1, OkRunsKept DEF Guarded
<1>2. (Healthy' <=> Healthy) /\ \A r \in RunIds : IsLastOk(r)' <=> IsLastOk(r)
  BY <1>1, SameHistory DEF Guarded
<1>3. job' = job /\ pc = "logging" /\ Emitted' = Emitted
  BY DEF ProcessRun, Emitted
<1>4. job.previous > 0 => Emitted # {}
  BY DEF ProcessRun, CatastrophicZero
<1>5. \A p \in Emitted : p \in Products /\ products'[p].status = "active"
  BY DEF ProcessRun, NextRow, Seen, Emitted
<1>6. GuardKnowsHistory'
  BY <1>1, <1>2, <1>3, <1>4, <1>5 DEF Guarded, GuardKnowsHistory, OkRuns
<1>7. CatalogueNeverEmptied'
  BY <1>2, <1>3, <1>4, <1>5 DEF Guarded, GuardKnowsHistory, CatalogueNeverEmptied
<1> QED BY <1>6, <1>7 DEF Guarded

\* A run that finishes ok is the last one, and has observed something
\* whenever an earlier one had.
LEMMA GuardedFinish == Guarded /\ TInv' /\ FinishOk => Guarded'
<1> SUFFICES ASSUME Guarded, TInv', FinishOk PROVE Guarded'
  OBVIOUS
<1> DEFINE n == Cardinality(Emitted)
           row == RunRow("ok", n, runs[job.run].receipt)
<1>1. /\ pc = "processed" /\ pc' = "idle" /\ UNCHANGED products
      /\ job.run \in RunIds /\ job.run = lastRun /\ runs \in [RunIds -> RunType]
  BY OwnRow, Types DEF Guarded, TInv, FinishOk, FinishRun
<1>2. runs' = [runs EXCEPT ![job.run] = row]
  BY <1>1 DEF FinishOk, FinishRun
<1>3. row.status = "ok" /\ row.observed = n
  BY DEF RunRow
<1> HIDE DEF row
<1>4. \A r \in RunIds : runs'[r] = IF r = job.run THEN row ELSE runs[r]
  BY <1>1, <1>2
<1>5. n \in Nat /\ (Emitted # {} => n > 0) /\ (n > 0 => Emitted # {})
  <2>1. Emitted = {} => n = 0
    BY FS_EmptySet
  <2> HIDE DEF n
  <2>2. ~(0 > 0)
    OBVIOUS
  <2>3. n \in Nat /\ (Emitted # {} => n > 0)
    BY EmittedFinite DEF n
  <2> QED BY <2>1, <2>2, <2>3
<1> HIDE DEF n
<1>6. Healthy => n > 0
  BY <1>1, <1>5 DEF Guarded, GuardKnowsHistory
<1>7. Healthy' => n > 0
  BY <1>3, <1>4, <1>6 DEF Healthy, OkRuns
<1>8. \A r \in RunIds : IsLastOk(r)' => r = job.run
  <2> SUFFICES ASSUME NEW r \in RunIds, IsLastOk(r)' PROVE r = job.run
    OBVIOUS
  <2>1. r \in OkRuns' /\ job.run \in OkRuns'
    BY <1>1, <1>3, <1>4 DEF IsLastOk, OkRuns
  <2>2. job.run <= r
    BY <2>1 DEF IsLastOk
  <2>3. r > lastRun => runs[r].status = "none"
    BY DEF Guarded, TInv, UnusedRuns
  <2>4. r # job.run => runs[r].status = "ok"
    BY <1>4, <2>1 DEF OkRuns
  <2>5. r \in Nat /\ lastRun \in Nat
    BY <1>1 DEF RunIds
  <2> QED BY <1>1, <2>2, <2>3, <2>4, <2>5
<1>9. GuardKnowsHistory'
  BY <1>1, <1>3, <1>4, <1>7, <1>8 DEF GuardKnowsHistory, OkRuns
<1>10. CatalogueNeverEmptied'
  <2>1. \A p \in Emitted : p \in Products /\ products[p].status = "active"
    BY <1>1 DEF Guarded, GuardKnowsHistory, Emitted
  <2> QED BY <1>1, <1>5, <1>7, <2>1 DEF CatalogueNeverEmptied
<1> QED BY <1>9, <1>10 DEF Guarded

\* The other steps finish no run ok and write no product.
LEMMA GuardedOther ==
  ASSUME Guarded, TInv', [Next]_vars, ~FinishOk, ~ProcessRun, ~StartRun
  PROVE  Guarded'
<1>1. (Healthy' <=> Healthy) /\ \A r \in RunIds : IsLastOk(r)' <=> IsLastOk(r)
  BY OkRunsKept, SameHistory DEF Guarded
<1>2. OkRuns' = OkRuns /\ (\A r \in OkRuns : runs'[r] = runs[r]) /\ UNCHANGED products
  BY OkRunsKept, OnlyProcessWrites DEF Guarded, CatalogueTables
<1>3. \/ pc' = "idle"
      \/ pc # "idle" /\ pc' \in {"collecting", "logging"} /\ job'.previous = job.previous
      \/ UNCHANGED <<pc, job>>
  <2>1. job \in JobType
    BY Types DEF Guarded, TInv
  <2>2. CASE Collect
    BY <2>1, <2>2 DEF Collect, JobType
  <2>3. ASSUME NEW p \in Products, PersistClassification(p)
        PROVE  pc = "logging" /\ pc' = pc /\ job'.previous = job.previous
    BY <2>1, <2>3 DEF PersistClassification, JobType
  <2> QED BY <2>2, <2>3 DEF Next, FinishFailed, BlockZeroResult, FinishRun, Crash, vars
<1>4. GuardKnowsHistory'
  <2>1. UNCHANGED job => Emitted' = Emitted
    BY DEF Emitted
  <2> QED BY <1>1, <1>2, <1>3, <2>1 DEF Guarded, GuardKnowsHistory, OkRuns
<1>5. CatalogueNeverEmptied'
  BY <1>1, <1>2 DEF Guarded, CatalogueNeverEmptied
<1> QED BY <1>4, <1>5 DEF Guarded

(* Once an ok run has observed products, no sequence of failed, blocked,   *)
(* crashed or empty runs leaves the source without an active product.      *)
THEOREM CatalogueIsNeverEmptied == Spec => []CatalogueNeverEmptied
<1>1. Guarded /\ [Next]_vars => Guarded'
  <2>1. Guarded /\ [Next]_vars => TInv'
    BY TInvNext DEF Guarded
  <2> QED BY <2>1, GuardedStart, GuardedProcess, GuardedFinish, GuardedOther
<1>2. Guarded => CatalogueNeverEmptied
  BY DEF Guarded
<1> QED BY <1>1, <1>2, GuardedInit, PTL DEF Spec

-----------------------------------------------------------------------------
(* What the events say: removals, and exactly the reportable transitions   *)
(* between successive sightings.                                           *)

\* A product is sighted once in a run.
OneSighting ==
  \A s, t \in sightings : s.product = t.product /\ s.run = t.run => s = t

\* A removal is told of a sighting whose run is committed.
RemovalsCommitted ==
  \A e \in events : e.type = "product_removed" => e.occ \in RunIds /\ runs[e.occ].receipt

Recorded ==
  /\ Chronology
  /\ OneSighting
  /\ RemovalsCommitted
  /\ RemovalReported
  /\ TransitionsReported
  /\ EventsAreTransitions

\* Nothing is sighted or told at first.
LEMMA RecordedInit == Init => Recorded
  BY ChronologyInit DEF Init, Recorded, OneSighting, RemovalsCommitted, RemovalReported,
       TransitionsReported, EventsAreTransitions, UnknownRow

-----------------------------------------------------------------------------
\* The sightings a processed run adds.
New == {[product |-> p, run |-> job.run, content |-> job.found[p]] : p \in Emitted}

\* The sighting the pointer of a product is at.
Pointed(p) == [product |-> p, run |-> current[p].run, content |-> current[p].content]

(* What is there when process_run commits: every sighting is earlier than  *)
(* the ones it adds.                                                       *)
LEMMA Before ==
  ASSUME Chronology, ProcessRun
  PROVE  /\ job.run \in RunIds /\ job.run = lastRun /\ RunIds \subseteq Nat
         /\ ~runs[job.run].receipt
         /\ sightings' = sightings \cup New
         /\ \A s \in sightings : s.run \in RunIds /\ s.run < job.run /\ runs[s.run].receipt
         /\ \A s \in New : s.run = job.run
<1>1. /\ TypeOK /\ job.run \in RunIds /\ job.run = lastRun /\ pc = "logging"
      /\ ~runs[job.run].receipt /\ job.run \in Nat /\ RunIds \subseteq Nat
  BY OwnRow DEF Chronology, TInv, JobIsCurrent, ProcessRun, RunIds
<1>2. sightings' = sightings \cup New
  BY DEF ProcessRun, New
<1>3. \A s \in sightings : s.run \in RunIds /\ s.run # job.run /\ runs[s.run].receipt
  BY <1>1 DEF Chronology, SightingsCommitted
<1>4. \A r \in RunIds : runs[r].receipt => r <= job.run
  BY <1>1, Types DEF Chronology, TInv, UnusedRuns, RunIds
<1>5. \A s \in sightings : s.run < job.run
  <2>1. ASSUME NEW r \in Nat, NEW n \in Nat, r <= n, r # n PROVE r < n
    BY <2>1
  <2> QED BY <1>1, <1>3, <1>4, <2>1
<1>6. \A s \in New : s.run = job.run
  BY DEF New
<1> QED BY <1>1, <1>2, <1>3, <1>5, <1>6

\* The row of a product that process_run did not find.
LEMMA MissedRow ==
  ASSUME NEW p \in Products, p \notin Emitted, ~job.baseline
  PROVE  /\ NextPointer(p) = current[p]
         /\ NextRow(p).status = "removed" <=> Confirmed(products[p]) \/ products[p].status = "removed"
         /\ NextRow(p).status = "unknown" <=> products[p].status = "unknown"
BY DEF NextPointer, NextRow, Missed, Confirmed

\* The types of what sightings and demotions owe.
LEMMA OnlyRemovalsRemove ==
  \A e \in SightingEvents \cup DemotionEvents : e.type # "product_removed"
BY DEF SightingEvents, DemotionEvents, Owed, DedupKey

\* A removal that is told confirms an absence since the last sighting.
LEMMA ToldRemovals ==
  ASSUME NEW e \in Told, e.type = "product_removed"
  PROVE  /\ ~job.baseline
         /\ e.product \in Products \ Emitted /\ Confirmed(products[e.product])
         /\ e.occ = current[e.product].run
<1>1. ~job.baseline /\ e \in RemovalEvents
  BY OnlyRemovalsRemove DEF Told
<1> QED BY <1>1 DEF RemovalEvents, DedupKey

(* Each disappearance is told once.                                        *)
LEMMA RemovalProcess ==
  ASSUME Recorded, ProcessRun
  PROVE  RemovalReported' /\ RemovalsCommitted'
<1> DEFINE Removes(e, p) == e.type = "product_removed" /\ e.product = p
<1>1. /\ job.run \in RunIds /\ ~runs[job.run].receipt
      /\ \A s \in sightings : s.run \in RunIds /\ s.run < job.run /\ runs[s.run].receipt
  BY Before DEF Recorded
<1>2. \A r \in RunIds : runs[r].receipt => runs'[r].receipt
  <2>1. Next
    BY DEF Next
  <2> QED BY <2>1, RunsGrow DEF Recorded, Chronology
<1>3. \A e \in events : e.type = "product_removed" => /\ e.occ \in RunIds /\ runs[e.occ].receipt
                                                     /\ e.occ # job.run
  BY <1>1 DEF Recorded, RemovalsCommitted
<1>4. \A p \in Products : products'[p] = NextRow(p) /\ current'[p] = NextPointer(p)
  BY DEF ProcessRun
<1>5. events' = events \cup Told
  BY DEF ProcessRun
<1>6. \A p \in Products : Confirmed(products[p]) =>
        /\ products[p].status = "active"
        /\ current[p].run \in RunIds /\ runs[current[p].run].receipt
  <2> SUFFICES ASSUME NEW p \in Products, products[p].status = "active"
               PROVE  current[p].run \in RunIds /\ runs[current[p].run].receipt
    BY DEF Confirmed
  <2>1. Pointed(p) \in sightings
    BY DEF Recorded, Chronology, PointerIsLastSighting, Pointed
  <2> QED BY <1>1, <2>1 DEF Pointed
<1>7. \A e \in Told : e.type = "product_removed" =>
        /\ ~job.baseline
        /\ e.product \in Products \ Emitted /\ Confirmed(products[e.product])
        /\ e.occ = current[e.product].run
  BY ToldRemovals
<1>8. \A p \in Products \ Emitted : Confirmed(products[p]) /\ ~job.baseline =>
        \E e \in Told : Removes(e, p) /\ e.occ = current[p].run
  <2> SUFFICES ASSUME NEW p \in Products \ Emitted, Confirmed(products[p]), ~job.baseline
               PROVE  \E e \in Told : Removes(e, p) /\ e.occ = current[p].run
    OBVIOUS
  <2> DEFINE e == DedupKey(p, "product_removed", current[p].content, NoContent, current[p].run)
  <2>1. e \in Told
    BY DEF Told, RemovalEvents
  <2>2. Removes(e, p) /\ e.occ = current[p].run
    BY DEF DedupKey
  <2> QED BY <2>1, <2>2
<1>9. RemovalsCommitted'
  <2>1. RunIds' = RunIds
    BY DEF RunIds
  <2>2. \A e \in events' : e.type = "product_removed" => e.occ \in RunIds /\ runs[e.occ].receipt
    BY <1>3, <1>5, <1>6, <1>7
  <2> QED BY <1>2, <2>1, <2>2 DEF RemovalsCommitted
<1>10. ASSUME NEW p \in Products
       PROVE  products'[p].status = "removed" <=>
                \E e \in events' : /\ Removes(e, p)
                                   /\ products'[p].status # "unknown" /\ e.occ = current'[p].run
  <2>1. products[p].status = "removed" <=>
          \E e \in events : /\ Removes(e, p)
                            /\ products[p].status # "unknown" /\ e.occ = current[p].run
    BY DEF Recorded, RemovalReported
  <2>2. CASE p \in Emitted
    <3>1. products'[p].status = "active" /\ current'[p].run = job.run
      <4>1. NextRow(p).status = "active" /\ NextPointer(p).run = job.run
        BY <2>2 DEF NextRow, NextPointer, Seen
      <4> QED BY <1>4, <4>1
    <3>2. \A e \in events' : Removes(e, p) => e.occ # job.run
      <4>1. \A e \in Told : ~Removes(e, p)
        BY <1>7, <2>2
      <4>2. \A e \in events : Removes(e, p) => e.occ # job.run
        BY <1>3
      <4> HIDE DEF Removes
      <4> QED BY <1>5, <4>1, <4>2
    <3> QED BY <3>1, <3>2
  <2>3. CASE p \notin Emitted /\ job.baseline
    <3>1. products'[p] = products[p] /\ current'[p] = current[p] /\ events' = events
      BY <1>4, <1>5, <2>3 DEF NextRow, NextPointer, Told
    <3> QED BY <2>1, <3>1
  <2>4. CASE p \notin Emitted /\ ~job.baseline
    <3>1. /\ current'[p] = current[p]
          /\ products'[p].status = "removed" <=> Confirmed(products[p]) \/ products[p].status = "removed"
          /\ products'[p].status = "unknown" <=> products[p].status = "unknown"
      BY <1>4, <2>4, MissedRow
    <3>2. Confirmed(products[p]) => products[p].status = "active"
      BY DEF Confirmed
    <3>3. CASE Confirmed(products[p])
      <4>1. PICK e \in Told : Removes(e, p) /\ e.occ = current[p].run
        BY <1>8, <2>4, <3>3
      <4>2. e \in events'
        BY <1>5
      <4>3. products'[p].status = "removed" /\ products'[p].status # "unknown"
        BY <3>1, <3>3
      <4> QED BY <3>1, <4>1, <4>2, <4>3
    <3>4. CASE ~Confirmed(products[p])
      <4>1. \A e \in events' : Removes(e, p) => e \in events
        BY <1>5, <1>7, <3>4
      <4> QED BY <1>5, <2>1, <3>1, <3>4, <4>1
    <3> QED BY <3>3, <3>4
  <2> QED BY <2>2, <2>3, <2>4
<1> QED BY <1>9, <1>10 DEF RemovalReported

-----------------------------------------------------------------------------
(* Whether a committed run was a baseline does not change any more, and a  *)
(* run that was none never becomes one.                                    *)
LEMMA BaselineStable ==
  ASSUME TInv, [Next]_vars, NEW r \in RunIds
  PROVE  /\ Baseline(r)' => Baseline(r)
         /\ runs[r].receipt /\ Baseline(r) => Baseline(r)'
<1>1. \A q \in RunIds : q \in OkRuns => q \in OkRuns'
  BY RunsGrow
<1>2. RunIds \subseteq Nat /\ \A q \in 1..(r - 1) : q \in RunIds /\ q < r
  BY RunnerAssumption DEF RunIds
<1>3. Baseline(r)' => Baseline(r)
  BY <1>1, <1>2 DEF Baseline, OkRuns, RunIds
<1>4. ASSUME runs[r].receipt, NEW q \in 1..(r - 1), runs'[q].status = "ok"
      PROVE  runs[q].status = "ok"
  <2> SUFFICES ASSUME runs[q].status # "ok"
               PROVE  FALSE
    OBVIOUS
  <2>1. PICK i \in RunIds : \E row \in RunType : OneRowStep(i, row)
    BY <1>4, RunsStep
  <2>2. PICK row \in RunType : OneRowStep(i, row)
    BY <2>1
  <2>3. runs'[q] = IF q = i THEN row ELSE runs[q]
    BY <1>2, <2>2, Types DEF OneRowStep, TInv
  <2>4. FinishOk
    BY <1>4, <2>2, <2>3 DEF OneRowStep
  <2>5. job.run = lastRun /\ runs' = [runs EXCEPT ![job.run] = RunRow("ok", Cardinality(Emitted), @.receipt)]
    BY <2>4 DEF FinishOk, FinishRun, TInv, JobIsCurrent
  <2>6. q = lastRun
    BY <1>2, <1>4, <2>5, Types DEF TInv
  <2>7. r <= lastRun
    BY <1>2, <1>4, Types DEF TInv, UnusedRuns
  <2> QED BY <1>2, <2>6, <2>7
<1> QED BY <1>3, <1>4 DEF Baseline

(* process_run tells nothing of a baseline, and its commit makes no        *)
(* baseline of any run.                                                    *)
LEMMA BaselineProcess ==
  ASSUME TInv, ProcessRun, NEW r, r = job.run
  PROVE  /\ job.baseline <=> Baseline(r)
         /\ job.baseline <=> Baseline(r)'
<1>1. /\ job.run \in RunIds /\ job.run = lastRun /\ runs[job.run].status = "running"
      /\ job.baseline <=> OkRuns = {}
  BY OwnRow DEF TInv, JobIsCurrent, ProcessRun
<1>2. \A q \in OkRuns : q \in 1..(job.run - 1)
  <2> SUFFICES ASSUME NEW q \in OkRuns
               PROVE  q \in 1..(job.run - 1)
    OBVIOUS
  <2>1. q \in RunIds /\ runs[q].status = "ok"
    BY DEF OkRuns
  <2>2. q # job.run /\ ~(q > lastRun)
    BY <1>1, <2>1 DEF TInv, UnusedRuns
  <2> QED BY <1>1, <2>1, <2>2, RunnerAssumption DEF RunIds
<1>3. \A q \in 1..(job.run - 1) : q \in RunIds
  BY <1>1, RunnerAssumption DEF RunIds
<1>4. Baseline(r) <=> OkRuns = {}
  BY <1>2, <1>3 DEF Baseline, OkRuns
<1>5. Baseline(r)' <=> Baseline(r)
  <2>1. runs' = [runs EXCEPT ![job.run] = RunRow(@.status, @.observed, TRUE)]
    BY DEF ProcessRun
  <2>2. \A q \in 1..(job.run - 1) : q # job.run /\ q \in RunIds
    BY <1>1, <1>3, RunnerAssumption DEF RunIds
  <2>3. \A q \in 1..(job.run - 1) : runs'[q] = runs[q]
    BY <2>1, <2>2, Types DEF TInv
  <2> QED BY <2>3 DEF Baseline
<1> QED BY <1>1, <1>4, <1>5

(* A discovery that differs reportably owes an event, whichever it is.     *)
LEMMA OwedWhenReportable ==
  ASSUME NEW row, NEW old \in Contents, NEW c \in Contents,
         row.status # "unknown", Reportable(old, c)
  PROVE  \E k \in ChangeType : k \in Owed(row, old, c)
<1>1. old.complete \in BOOLEAN /\ c.complete \in BOOLEAN
  BY ContentsAssumption
<1>2. old # c
  BY DEF Reportable
<1>3. CASE Anomalous(row, c)
  BY <1>2, <1>3 DEF Owed, ChangeType
<1>4. CASE ~Anomalous(row, c) /\ old.complete # c.complete
  BY <1>1, <1>2, <1>4 DEF Owed, ChangeType
<1>5. CASE ~Anomalous(row, c) /\ old.complete = c.complete
  <2>1. old.complete /\ c.complete /\ MeaningfulChanges(old, c) # {}
    BY <1>1, <1>5 DEF Reportable, MeaningfulChanges
  <2> QED BY <1>2, <1>5, <2>1 DEF Owed, ChangeType
<1> QED BY <1>3, <1>4, <1>5

-----------------------------------------------------------------------------
(* Committing a run puts its sightings right after the ones the pointers   *)
(* are at, and between no others.                                          *)
LEMMA SuccessiveProcess ==
  ASSUME Chronology, OneSighting, ProcessRun
  PROVE  /\ \A s \in sightings', t \in sightings' : Successive(s, t)' => s \in sightings
         /\ \A s, t \in sightings : Successive(s, t)' <=> Successive(s, t)
         /\ \A s \in sightings, t \in New : Successive(s, t)' <=>
              products[t.product].status # "unknown" /\ s = Pointed(t.product)
<1>1. /\ job.run \in Nat /\ RunIds \subseteq Nat
      /\ sightings' = sightings \cup New
      /\ \A s \in sightings : s.run \in Nat /\ s.run < job.run
      /\ \A s \in New : s.run = job.run
  BY Before
<1>2. \A t \in sightings' : t.run \in Nat /\ t.run <= job.run
  BY <1>1
<1>3. \A s \in sightings', t \in sightings' : Successive(s, t)' => s \in sightings
  BY <1>1, <1>2 DEF Successive
<1>4. \A s, t \in sightings : Successive(s, t)' <=> Successive(s, t)
  <2> SUFFICES ASSUME NEW s \in sightings, NEW t \in sightings
               PROVE  Successive(s, t)' <=> Successive(s, t)
    OBVIOUS
  <2>1. \A u \in New : ~(u.run < t.run)
    BY <1>1
  <2> QED BY <1>1, <2>1 DEF Successive
<1>5. ASSUME NEW s \in sightings, NEW t \in New
      PROVE  Successive(s, t)' <=> products[t.product].status # "unknown" /\ s = Pointed(t.product)
  <2> DEFINE p == t.product
  <2>1. p \in Products /\ t.run = job.run
    BY DEF New, Emitted
  <2>2. CASE products[p].status = "unknown"
    BY <2>1, <2>2 DEF Chronology, PointerIsLastSighting, Successive
  <2>3. CASE products[p].status # "unknown"
    <3>1. Pointed(p) \in sightings /\ \A u \in sightings : u.product = p => u.run <= current[p].run
      BY <2>1, <2>3 DEF Chronology, PointerIsLastSighting, Pointed
    <3>2. Pointed(p).product = p /\ Pointed(p).run = current[p].run
      BY DEF Pointed
    <3>3. current[p].run \in Nat /\ current[p].run < job.run
      BY <1>1, <3>1, <3>2
    <3>4. ASSUME Successive(s, t)' PROVE s = Pointed(p)
      <4>1. s.product = p
        BY <3>4 DEF Successive
      <4>2. s.run <= current[p].run
        BY <3>1, <4>1
      <4>3. ~(s.run < current[p].run)
        BY <1>1, <2>1, <3>1, <3>2, <3>3, <3>4 DEF Successive
      <4>4. s.run = current[p].run
        BY <1>1, <3>3, <4>2, <4>3
      <4> QED BY <3>1, <3>2, <4>1, <4>4 DEF OneSighting
    <3>5. ASSUME s = Pointed(p) PROVE Successive(s, t)'
      <4>1. ~\E u \in sightings' : u.product = p /\ current[p].run < u.run /\ u.run < job.run
        <5> SUFFICES ASSUME NEW u \in sightings', u.product = p, current[p].run < u.run, u.run < job.run
                     PROVE  FALSE
          OBVIOUS
        <5>1. u \in sightings
          BY <1>1
        <5>2. u.run <= current[p].run /\ u.run \in Nat
          BY <1>1, <3>1, <5>1
        <5> QED BY <3>3, <5>2
      <4>2. s.product = p /\ s.run = current[p].run
        BY <3>2, <3>5
      <4> QED BY <2>1, <3>3, <4>1, <4>2 DEF Successive
    <3> QED BY <2>3, <3>4, <3>5
  <2> QED BY <2>2, <2>3
<1> QED BY <1>3, <1>4, <1>5

(* No reportable change is lost by the run that commits it.                *)
LEMMA TransitionsProcess ==
  ASSUME Recorded, ProcessRun
  PROVE  TransitionsReported'
<1> SUFFICES ASSUME NEW s \in sightings', NEW t \in sightings', Successive(s, t)',
                    ~Baseline(t.run)', Reportable(s.content, t.content)
             PROVE  \E e \in events' : /\ e.product = t.product /\ e.occ = t.run
                                        /\ e.prev = s.content /\ e.cur = t.content
  BY DEF TransitionsReported, Reportable
<1>1. Chronology /\ OneSighting /\ TInv /\ [Next]_vars
  BY DEF Recorded, Chronology, Next
<1>2. s \in sightings /\ sightings' = sightings \cup New /\ events' = events \cup Told
  BY <1>1, Before, SuccessiveProcess DEF ProcessRun
<1>3. CASE t \in sightings
  <2>1. Successive(s, t)
    BY <1>1, <1>2, <1>3, SuccessiveProcess
  <2>2. t.run \in RunIds /\ runs[t.run].receipt
    BY <1>1, <1>3, Before
  <2>3. ~Baseline(t.run)
    BY <1>1, <2>2, BaselineStable
  <2> QED BY <1>2, <1>3, <2>1, <2>3 DEF Recorded, TransitionsReported
<1>4. CASE t \in New
  <2>1. PICK p \in Emitted : t = [product |-> p, run |-> job.run, content |-> job.found[p]]
    BY <1>4 DEF New
  <2>2. products[p].status # "unknown" /\ s = Pointed(p)
    BY <1>1, <1>2, <1>4, <2>1, SuccessiveProcess
  <2>3. s.content = current[p].content /\ t.content = job.found[p]
    BY <2>1, <2>2 DEF Pointed
  <2>4. s.content \in Contents /\ t.content \in Contents
    BY <1>1, <1>2, <2>1, <2>3, Types DEF TInv, JobType, Finds, Emitted
  <2>5. ~job.baseline
    BY <1>1, <2>1, BaselineProcess
  <2>6. PICK k \in ChangeType : k \in Owed(products[p], current[p].content, job.found[p])
    BY <2>2, <2>3, <2>4, OwedWhenReportable
  <2> DEFINE e == DedupKey(p, k, current[p].content, job.found[p], job.run)
  <2>7. e \in SightingEvents
    BY <2>6 DEF SightingEvents
  <2>8. e \in events'
    BY <1>2, <2>5, <2>7 DEF Told
  <2>9. e.product = t.product /\ e.occ = t.run /\ e.prev = s.content /\ e.cur = t.content
    BY <2>1, <2>3 DEF DedupKey
  <2> QED BY <2>8, <2>9
<1> QED BY <1>2, <1>3, <1>4

(* What a sighting's event says of it.                                     *)
LEMMA ToldOfSightings ==
  ASSUME NEW e \in Told, e.cur # NoContent
  PROVE  /\ ~job.baseline
         /\ \E p \in Emitted, k \in ChangeType :
              /\ k \in Owed(products[p], current[p].content, job.found[p])
              /\ e = DedupKey(p, k, current[p].content, job.found[p], job.run)
<1>1. ~job.baseline /\ e \in SightingEvents \cup DemotionEvents \cup RemovalEvents
  BY DEF Told
<1>2. e \notin DemotionEvents /\ e \notin RemovalEvents
  BY DEF DemotionEvents, RemovalEvents, DedupKey
<1>3. e \in SightingEvents
  BY <1>1, <1>2
<1>4. PICK p \in Emitted : e \in {DedupKey(p, k, current[p].content, job.found[p], job.run) :
                                    k \in Owed(products[p], current[p].content, job.found[p])}
  BY <1>3 DEF SightingEvents
<1>5. Owed(products[p], current[p].content, job.found[p]) \subseteq ChangeType
  BY DEF Owed
<1> QED BY <1>1, <1>4, <1>5

(* And nothing that is no transition is told.                              *)
LEMMA EventsProcess ==
  ASSUME Recorded, ProcessRun
  PROVE  EventsAreTransitions'
<1>1. Chronology /\ OneSighting /\ TInv /\ [Next]_vars
  BY DEF Recorded, Chronology, Next
<1>2. sightings' = sightings \cup New /\ events' = events \cup Told
  BY <1>1, Before DEF ProcessRun
<1> SUFFICES ASSUME NEW e \in events', e.cur # NoContent
             PROVE  \E t \in sightings' :
                      /\ t.product = e.product /\ t.run = e.occ /\ t.content = e.cur
                      /\ ~Baseline(t.run)'
                      /\ IF e.prev = NoContent
                         THEN ~\E s \in sightings' : Successive(s, t)'
                         ELSE e.prev # e.cur /\ \E s \in sightings' : Successive(s, t)' /\ s.content = e.prev
  BY DEF EventsAreTransitions
<1>3. CASE e \in events
  <2>1. PICK t \in sightings :
          /\ t.product = e.product /\ t.run = e.occ /\ t.content = e.cur
          /\ ~Baseline(t.run)
          /\ IF e.prev = NoContent
             THEN ~\E s \in sightings : Successive(s, t)
             ELSE e.prev # e.cur /\ \E s \in sightings : Successive(s, t) /\ s.content = e.prev
    BY <1>3 DEF Recorded, EventsAreTransitions
  <2>2. t.run \in RunIds
    BY <1>1, Before
  <2>3. ~Baseline(t.run)'
    BY <1>1, <2>1, <2>2, BaselineStable
  <2>4. \A s \in sightings : Successive(s, t)' <=> Successive(s, t)
    BY <1>1, SuccessiveProcess
  <2>5. t \in sightings' /\ \A s \in sightings' : Successive(s, t)' => s \in sightings
    BY <1>1, <1>2, SuccessiveProcess
  <2> QED BY <1>2, <2>1, <2>3, <2>4, <2>5
<1>4. CASE e \in Told
  <2>1. ~job.baseline
    BY <1>4, ToldOfSightings
  <2>2. PICK p \in Emitted, k \in ChangeType :
          /\ k \in Owed(products[p], current[p].content, job.found[p])
          /\ e = DedupKey(p, k, current[p].content, job.found[p], job.run)
    BY <1>4, ToldOfSightings
  <2>11. PICK t \in New : t = [product |-> p, run |-> job.run, content |-> job.found[p]]
    BY DEF New
  <2>3. t \in New /\ t \in sightings' /\ p \in Products
    BY <1>2 DEF New, Emitted
  <2>4. /\ e.product = p /\ e.occ = job.run /\ e.cur = job.found[p] /\ e.prev = current[p].content
        /\ t.product = p /\ t.run = job.run /\ t.content = job.found[p]
    BY <2>11, <2>2 DEF DedupKey
  <2>5. ~Baseline(t.run)'
    BY <1>1, <2>1, <2>4, BaselineProcess
  <2>6. \A s \in sightings' : Successive(s, t)' <=>
          s \in sightings /\ products[p].status # "unknown" /\ s = Pointed(p)
    <3> SUFFICES ASSUME NEW s \in sightings'
                 PROVE  Successive(s, t)' <=>
                          s \in sightings /\ products[p].status # "unknown" /\ s = Pointed(p)
      OBVIOUS
    <3>1. Successive(s, t)' => s \in sightings
      BY <1>1, <2>3, SuccessiveProcess
    <3>2. s \in sightings =>
            (Successive(s, t)' <=> products[t.product].status # "unknown" /\ s = Pointed(t.product))
      BY <1>1, <2>3, SuccessiveProcess
    <3> QED BY <2>4, <3>1, <3>2
  <2>7. CASE products[p].status = "unknown"
    <3>1. current[p] = NoSighting
      BY <1>1, <2>3, <2>7 DEF Chronology, PointerIsLastSighting
    <3>2. current[p].content = NoContent
      BY <3>1 DEF NoSighting
    <3> QED BY <2>3, <2>4, <2>5, <2>6, <2>7, <3>2
  <2>8. CASE products[p].status # "unknown"
    <3>1. Pointed(p) \in sightings /\ Pointed(p).content = current[p].content
      BY <1>1, <2>3, <2>8 DEF Chronology, PointerIsLastSighting, Pointed
    <3>2. current[p].content \in Contents
      BY <1>1, <3>1, Types DEF TInv
    <3>3. e.prev # NoContent
      BY <2>4, <3>2, ContentsAssumption
    <3>4. e.prev # e.cur
      BY <2>2, <2>4, <2>8 DEF Owed
    <3>5. Pointed(p) \in sightings' /\ Pointed(p).content = e.prev
      BY <1>2, <2>4, <3>1
    <3>6. \E s \in sightings' : Successive(s, t)' /\ s.content = e.prev
      BY <2>6, <2>8, <3>1, <3>5
    <3> QED BY <2>3, <2>4, <2>5, <3>3, <3>4, <3>6
  <2> QED BY <2>7, <2>8
<1> QED BY <1>2, <1>3, <1>4

-----------------------------------------------------------------------------
\* Only process_run disturbs what is recorded.
LEMMA RecordedNext == Recorded /\ [Next]_vars => Recorded'
<1> SUFFICES ASSUME Recorded, [Next]_vars PROVE Recorded'
  OBVIOUS
<1>1. TInv /\ TInv' /\ Chronology
  BY TInvNext DEF Recorded, Chronology
<1>2. CASE ProcessRun
  <2>1. Chronology'
    BY <1>1, <1>2, ChronologyProcess
  <2>2. OneSighting'
    <3>1. /\ sightings' = sightings \cup New
          /\ \A s \in sightings : s.run \in Nat /\ s.run < job.run
          /\ \A s \in New : s.run = job.run
      BY <1>1, <1>2, Before
    <3>2. \A s, t \in New : s.product = t.product => s = t
      BY DEF New
    <3>3. \A s \in sightings, t \in New : s.run # t.run
      BY <3>1
    <3> QED BY <3>1, <3>2, <3>3 DEF Recorded, OneSighting
  <2> QED BY <1>2, <2>1, <2>2, RemovalProcess, TransitionsProcess, EventsProcess DEF Recorded
<1>3. CASE UNCHANGED CatalogueTables
  <2>1. /\ sightings' = sightings /\ events' = events /\ products' = products /\ current' = current
        /\ RunIds' = RunIds
    BY <1>3 DEF CatalogueTables, RunIds
  <2>2. \A r \in RunIds : runs[r].receipt => runs'[r].receipt
    BY <1>1, RunsGrow
  <2>3. PointerIsLastSighting' /\ SightingsCommitted'
    BY <1>1, <2>1, <2>2 DEF Chronology, PointerIsLastSighting, SightingsCommitted
  <2>4. OneSighting' /\ RemovalReported'
    BY <2>1 DEF Recorded, OneSighting, RemovalReported
  <2>5. RemovalsCommitted'
    BY <2>1, <2>2 DEF Recorded, RemovalsCommitted
  <2>6. \A t \in sightings : Baseline(t.run)' <=> Baseline(t.run)
    <3> SUFFICES ASSUME NEW t \in sightings
                 PROVE  Baseline(t.run)' <=> Baseline(t.run)
      OBVIOUS
    <3>1. t.run \in RunIds /\ runs[t.run].receipt
      BY <1>1 DEF Chronology, SightingsCommitted
    <3> QED BY <1>1, <3>1, BaselineStable
  <2>7. \A s, t \in sightings : Successive(s, t)' <=> Successive(s, t)
    BY <2>1 DEF Successive
  <2>8. TransitionsReported'
    BY <2>1, <2>6, <2>7 DEF Recorded, TransitionsReported, Reportable
  <2>9. EventsAreTransitions'
    BY <2>1, <2>6, <2>7 DEF Recorded, EventsAreTransitions
  <2> QED BY <1>1, <2>3, <2>4, <2>5, <2>8, <2>9 DEF Recorded, Chronology
<1> QED BY <1>2, <1>3, OnlyProcessWrites

\* The invariant of what is recorded.
LEMMA RecordedAlways == Spec => []Recorded
  BY RecordedInit, RecordedNext, PTL DEF Spec

(* pipeline.py:304-326: a product is listed as removed exactly when its    *)
(* disappearance since its last sighting has been told, for any products,  *)
(* threshold and sequence of runs, crashes and recurrences.                *)
THEOREM RemovalsAreReported == Spec => []RemovalReported
<1>1. Recorded => RemovalReported
  BY DEF Recorded
<1> QED BY <1>1, RecordedAlways, PTL

(* pipeline.py:178-282: whatever recurs, each pair of successive sightings *)
(* that differ reportably has an event of its own unless a baseline saw it.*)
THEOREM NoTransitionIsLost == Spec => []TransitionsReported
<1>1. Recorded => TransitionsReported
  BY DEF Recorded
<1> QED BY <1>1, RecordedAlways, PTL

(* And every event about a content is such a step from the sighting just   *)
(* before, never a baseline's (pipeline.py:159-170, models.py:127-172).    *)
THEOREM NoEventIsInvented == Spec => []EventsAreTransitions
<1>1. Recorded => EventsAreTransitions
  BY DEF Recorded
<1> QED BY <1>1, RecordedAlways, PTL

-----------------------------------------------------------------------------
(* What the absence counter counts.                                        *)

LEMMA SomeRuns ==
  ASSUME NEW S \in SUBSET RunIds
  PROVE  IsFiniteSet(S) /\ Cardinality(S) \in Nat
<1>1. IsFiniteSet(RunIds)
  BY RunnerAssumption, FS_Interval DEF RunIds
<1> QED BY <1>1, FS_Subset, FS_CardinalityType

\* Only process_run gives a receipt.
LEMMA ReceiptsKept ==
  ASSUME TInv, [Next]_vars, ~ProcessRun, NEW r \in RunIds
  PROVE  runs'[r].receipt = runs[r].receipt
<1>1. runs \in [RunIds -> RunType] /\ lastRun \in Nat
  BY Types DEF TInv
<1>2. CASE StartRun
  <2>1. runs' = [runs EXCEPT ![lastRun + 1] = RunRow("running", 0, FALSE)]
    BY <1>2 DEF StartRun
  <2>2. r = lastRun + 1 => runs[r].receipt = FALSE
    BY <1>1 DEF TInv, UnusedRuns, RunType
  <2> QED BY <1>1, <2>1, <2>2 DEF RunRow
<1>3. ASSUME NEW status, NEW n, pc # "idle", FinishRun(status, n)
      PROVE  runs'[r].receipt = runs[r].receipt
  <2>1. runs' = [runs EXCEPT ![job.run] = RunRow(status, n, runs[job.run].receipt)]
    BY <1>1, <1>3, OwnRow DEF FinishRun
  <2> QED BY <1>1, <2>1 DEF RunRow
<1>4. CASE FinishFailed \/ BlockZeroResult \/ FinishOk
  BY <1>3, <1>4 DEF FinishFailed, BlockZeroResult, FinishOk
<1>5. CASE Collect \/ Crash \/ UNCHANGED vars \/ \E p \in Products : PersistClassification(p)
  BY <1>5 DEF Collect, Crash, PersistClassification, tables, vars
<1> QED BY <1>2, <1>4, <1>5 DEF Next

LEMMA MissesKept ==
  ASSUME TInv, [Next]_vars, ~ProcessRun, NEW p, NEW n
  PROVE  MissesAfter(p, n)' = MissesAfter(p, n)
<1>1. sightings' = sightings /\ RunIds' = RunIds
  BY OnlyProcessWrites DEF CatalogueTables, RunIds
<1>2. \A r \in RunIds : /\ runs'[r].receipt = runs[r].receipt
                        /\ runs[r].receipt => (Baseline(r)' <=> Baseline(r))
  BY ReceiptsKept, BaselineStable
<1> QED BY <1>1, <1>2 DEF MissesAfter

\* process_run lets the runs that missed a product grow by itself at most.
LEMMA MissesGrow ==
  ASSUME Chronology, ProcessRun, NEW p, NEW n \in Nat
  PROVE  /\ MissesAfter(p, n) \subseteq MissesAfter(p, n)'
         /\ job.run \notin MissesAfter(p, n)
         /\ n = job.run => MissesAfter(p, n)' = {}
         /\ /\ p \notin Emitted /\ n < job.run
            /\ \A s \in sightings : s.product = p => s.run <= n
            => MissesAfter(p, n)' =
                 MissesAfter(p, n) \cup (IF job.baseline THEN {} ELSE {job.run})
<1> DEFINE j == job.run
<1>1. /\ j \in RunIds /\ RunIds \subseteq Nat /\ RunIds' = RunIds /\ ~runs[j].receipt
      /\ sightings' = sightings \cup New
      /\ \A s \in sightings : s.run \in RunIds /\ s.run < j
      /\ \A s \in New : s.run = j /\ s.product \in Emitted
  BY Before DEF RunIds, New
<1>2. /\ TInv /\ Next /\ runs \in [RunIds -> RunType]
  BY Types DEF Next, Chronology, TInv
<1>3. \A r \in RunIds : runs'[r].receipt <=> runs[r].receipt \/ r = j
  <2>1. runs' = [runs EXCEPT ![j] = RunRow(runs[j].status, runs[j].observed, TRUE)]
    BY <1>1, <1>2 DEF ProcessRun
  <2> QED BY <1>1, <1>2, <2>1 DEF RunRow
<1>4. \A r \in RunIds : runs[r].receipt => r < j /\ (Baseline(r)' <=> Baseline(r))
  <2>1. \A r \in RunIds : runs[r].receipt => (Baseline(r)' <=> Baseline(r))
    BY <1>2, BaselineStable
  <2>2. \A r \in RunIds : runs[r].receipt => ~(r > lastRun) /\ r # lastRun /\ j = lastRun
    BY <1>1, <1>2, Before DEF TInv, UnusedRuns
  <2>3. lastRun \in Nat
    BY <1>1, <2>2, Before
  <2> QED BY <1>1, <2>1, <2>2, <2>3
<1>5. \A r : r = j => (job.baseline <=> Baseline(r)')
  BY <1>2, BaselineProcess
<1> HIDE DEF j
<1>6. MissesAfter(p, n) \subseteq MissesAfter(p, n)'
  <2>1. ASSUME NEW r \in RunIds, runs[r].receipt, NEW s \in sightings',
               s.product = p, n < s.run, s.run <= r
        PROVE  s \in sightings
    BY <1>1, <1>4, <2>1
  <2> QED BY <1>1, <1>3, <1>4, <2>1 DEF MissesAfter
<1>7. j \notin MissesAfter(p, n)
  BY <1>1 DEF MissesAfter
<1>8. ASSUME n = j PROVE MissesAfter(p, n)' = {}
  <2>1. \A r \in RunIds : runs'[r].receipt => ~(r > n)
    BY <1>1, <1>3, <1>4, <1>8
  <2> QED BY <1>1, <2>1 DEF MissesAfter
<1>9. ASSUME p \notin Emitted, n < j, \A s \in sightings : s.product = p => s.run <= n
      PROVE  MissesAfter(p, n)' = MissesAfter(p, n) \cup (IF job.baseline THEN {} ELSE {j})
  <2>1. /\ \A s \in sightings : s.product = p => ~(n < s.run)
        /\ \A s \in sightings' : s.product = p => ~(n < s.run)
    <3>1. ASSUME NEW s \in sightings, s.product = p PROVE ~(n < s.run)
      <4>1. s.run \in Nat /\ s.run <= n
        BY <1>1, <1>9, <3>1
      <4> QED BY <4>1
    <3>2. \A s \in sightings' : s.product = p => s \in sightings
      BY <1>1, <1>9
    <3> QED BY <3>1, <3>2
  <2>2. \A r \in RunIds : r \in MissesAfter(p, n)' <=> r > n /\ runs'[r].receipt /\ ~Baseline(r)'
    BY <1>1, <2>1 DEF MissesAfter
  <2>3. \A r \in RunIds : r \in MissesAfter(p, n) <=> r > n /\ runs[r].receipt /\ ~Baseline(r)
    BY <2>1 DEF MissesAfter
  <2>4. MissesAfter(p, n)' \subseteq RunIds /\ MissesAfter(p, n) \subseteq RunIds
    BY <1>1 DEF MissesAfter
  <2>5. ASSUME NEW r \in RunIds
        PROVE  r \in MissesAfter(p, n)' <=> r \in MissesAfter(p, n) \/ (r = j /\ ~job.baseline)
    BY <1>3, <1>4, <1>5, <1>9, <2>2, <2>3
  <2> QED BY <1>1, <2>4, <2>5
<1> QED BY <1>6, <1>7, <1>8, <1>9 DEF j

Confirming == Recorded /\ RemovalConfirmed

LEMMA ConfirmingInit == Init => Confirming
  BY RecordedInit DEF Init, Confirming, RemovalConfirmed, UnknownRow

\* The counter after a run that compared the catalogue.
LEMMA CountedRow ==
  ASSUME Confirming, ProcessRun, NEW p \in Products, products'[p].status = "active"
  PROVE  products'[p].absences = Cardinality(MissesAfter(p, current[p].run)')
<1>1. /\ Chronology /\ TypeOK /\ products'[p] = NextRow(p) /\ current'[p] = NextPointer(p)
      /\ job.run \in Nat
  BY DEF Confirming, Recorded, Chronology, TInv, ProcessRun, TypeOK
<1>2. PICK n : n = current'[p].run
  OBVIOUS
<1>3. MissesAfter(p, current[p].run)' = MissesAfter(p, n)'
  BY <1>2 DEF MissesAfter
<1>4. CASE p \in Emitted
  <2>1. products'[p].absences = 0 /\ n = job.run
    BY <1>1, <1>2, <1>4 DEF NextRow, NextPointer, Seen
  <2>2. MissesAfter(p, n)' = {}
    BY <1>1, <2>1, MissesGrow
  <2> QED BY <1>3, <2>1, <2>2, FS_EmptySet
<1>5. CASE p \notin Emitted
  <2>1. /\ n = current[p].run /\ products[p].status = "active"
        /\ products[p].absences \in Nat
        /\ products'[p].absences = IF job.baseline THEN products[p].absences
                                   ELSE products[p].absences + 1
    BY <1>1, <1>2, <1>5 DEF NextRow, NextPointer, Missed, TypeOK
  <2>2. products[p].absences = Cardinality(MissesAfter(p, n))
    BY <2>1 DEF Confirming, RemovalConfirmed
  <2>3. n \in Nat /\ n < job.run /\ \A s \in sightings : s.product = p => s.run <= n
    <3>1. /\ Pointed(p) \in sightings /\ Pointed(p).run = n
          /\ \A s \in sightings : s.product = p => s.run <= n
      BY <1>1, <2>1 DEF Chronology, PointerIsLastSighting, Pointed
    <3>2. n \in RunIds /\ RunIds \subseteq Nat /\ n < job.run
      BY <1>1, <3>1, Before
    <3> QED BY <3>1, <3>2
  <2>4. /\ MissesAfter(p, n)' = MissesAfter(p, n) \cup (IF job.baseline THEN {} ELSE {job.run})
        /\ job.run \notin MissesAfter(p, n)
    BY <1>1, <1>5, <2>3, MissesGrow
  <2>5. IsFiniteSet(MissesAfter(p, n))
    <3>1. MissesAfter(p, n) \in SUBSET RunIds
      BY DEF MissesAfter
    <3> QED BY <3>1, SomeRuns
  <2>6. CASE job.baseline
    BY <1>3, <2>1, <2>2, <2>4, <2>6
  <2>7. CASE ~job.baseline
    <3>1. Cardinality(MissesAfter(p, n) \cup {job.run}) = Cardinality(MissesAfter(p, n)) + 1
      BY <2>4, <2>5, FS_AddElement
    <3> QED BY <1>3, <2>1, <2>2, <2>4, <2>7, <3>1
  <2> QED BY <2>6, <2>7
<1> QED BY <1>4, <1>5

\* What a removal rests on is not taken back, and a new one rests on enough.
LEMMA RestsOnEnough ==
  ASSUME Confirming, ProcessRun, NEW e \in events', e.type = "product_removed"
  PROVE  Cardinality(MissesAfter(e.product, e.occ)') >= Threshold
<1> DEFINE p == e.product
           n == e.occ
<1>1. Chronology /\ TypeOK /\ RunIds \subseteq Nat /\ RunIds' = RunIds /\ Threshold \in Nat
  BY ThresholdAssumption DEF Confirming, Recorded, Chronology, TInv, RunIds
<1>2. MissesAfter(p, n) \in SUBSET RunIds /\ MissesAfter(p, n)' \in SUBSET RunIds
  BY <1>1 DEF MissesAfter
<1>3. /\ IsFiniteSet(MissesAfter(p, n)) /\ IsFiniteSet(MissesAfter(p, n)')
      /\ Cardinality(MissesAfter(p, n)) \in Nat /\ Cardinality(MissesAfter(p, n)') \in Nat
  BY <1>2, SomeRuns
<1>4. e \in events \/ e \in Told
  BY DEF ProcessRun
<1>5. CASE e \in events
  <2>1. n \in Nat /\ Cardinality(MissesAfter(p, n)) >= Threshold
    BY <1>1, <1>5 DEF Confirming, Recorded, RemovalsCommitted, RemovalConfirmed
  <2>2. MissesAfter(p, n) \subseteq MissesAfter(p, n)'
    BY <1>1, <2>1, MissesGrow
  <2>3. Cardinality(MissesAfter(p, n)) <= Cardinality(MissesAfter(p, n)')
    BY <1>3, <2>2, FS_Subset
  <2> QED BY <1>1, <1>3, <2>1, <2>3
<1>6. CASE e \in Told
  <2>1. /\ ~job.baseline /\ p \in Products \ Emitted /\ Confirmed(products[p])
        /\ n = current[p].run
    BY <1>6, ToldRemovals
  <2>2. /\ products[p].status = "active" /\ products[p].absences + 1 >= Threshold
        /\ products[p].absences = Cardinality(MissesAfter(p, n))
    BY <2>1 DEF Confirmed, Confirming, RemovalConfirmed
  <2>3. n \in Nat /\ n < job.run /\ \A s \in sightings : s.product = p => s.run <= n
    <3>1. /\ Pointed(p) \in sightings /\ Pointed(p).run = n
          /\ \A s \in sightings : s.product = p => s.run <= n
      BY <1>1, <2>1, <2>2 DEF Chronology, PointerIsLastSighting, Pointed
    <3>2. n \in RunIds /\ n < job.run
      BY <1>1, <3>1, Before
    <3> QED BY <1>1, <3>1, <3>2
  <2>4. /\ MissesAfter(p, n)' = MissesAfter(p, n) \cup {job.run}
        /\ job.run \notin MissesAfter(p, n)
    BY <1>1, <2>1, <2>3, MissesGrow
  <2>5. Cardinality(MissesAfter(p, n) \cup {job.run}) = Cardinality(MissesAfter(p, n)) + 1
    BY <1>3, <2>4, FS_AddElement
  <2> QED BY <2>2, <2>4, <2>5
<1> QED BY <1>4, <1>5, <1>6

LEMMA ConfirmingNext == Confirming /\ [Next]_vars => Confirming'
<1> SUFFICES ASSUME Confirming, [Next]_vars PROVE RemovalConfirmed'
  BY RecordedNext DEF Confirming
<1>1. CASE ProcessRun
  BY <1>1, CountedRow, RestsOnEnough DEF RemovalConfirmed
<1>2. CASE ~ProcessRun
  <2>1. products' = products /\ current' = current /\ events' = events
    BY <1>2, OnlyProcessWrites DEF CatalogueTables
  <2>2. \A p, n : MissesAfter(p, n)' = MissesAfter(p, n)
    BY <1>2, MissesKept DEF Confirming, Recorded, Chronology
  <2>3. ASSUME NEW p \in Products, products'[p].status = "active"
        PROVE  products'[p].absences = Cardinality(MissesAfter(p, current[p].run)')
    <3>1. PICK n : n = current[p].run
      OBVIOUS
    <3>2. MissesAfter(p, current[p].run)' = MissesAfter(p, n)'
      BY <2>1, <3>1 DEF MissesAfter
    <3> QED BY <2>1, <2>2, <2>3, <3>1, <3>2 DEF Confirming, RemovalConfirmed
  <2>4. ASSUME NEW e \in events', e.type = "product_removed"
        PROVE  Cardinality(MissesAfter(e.product, e.occ)') >= Threshold
    BY <2>1, <2>2, <2>4 DEF Confirming, RemovalConfirmed
  <2> QED BY <2>3, <2>4 DEF RemovalConfirmed
<1> QED BY <1>1, <1>2

(* pipeline.py:304-326: the absence counter of an active product is the    *)
(* number of healthy runs that missed it since its last sighting, and a    *)
(* removal is told only after Threshold of them, for any threshold and any *)
(* sequence of failed, blocked, crashed and baseline runs in between.      *)
THEOREM RemovalsAreConfirmed == Spec => []RemovalConfirmed
<1>1. Confirming => RemovalConfirmed
  BY DEF Confirming
<1> QED BY <1>1, ConfirmingInit, ConfirmingNext, PTL DEF Spec
=============================================================================
