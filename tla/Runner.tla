------------------------------- MODULE Runner -------------------------------
(***************************************************************************)
(* core/runner.py::_run over one source of the production store, with the  *)
(* whole of core/pipeline.py::process_run as one step of it.               *)
(*                                                                         *)
(* Every step ends at a commit of the store, so a process that dies        *)
(* between two steps leaves exactly the tables below.  process_run is one  *)
(* step because store.transaction() makes it one commit.  RunLock admits   *)
(* one runner at a time; sources share no product, run or classification   *)
(* row, so one source is modelled.                                         *)
(***************************************************************************)
EXTENDS Pipeline, FiniteSets

CONSTANTS
  Products,     \* slugs the source may publish
  MaxRuns,      \* bound on collector_runs rows
  LogsAccepted, \* TRUE: collectors that log a slug "feature_phone" exactly
                \* when they emit it (hmd, lava, itel, punkt); FALSE: those
                \* that log only what they turn away (doro, tcl, sunbeam, mudita)
  Notifying     \* subset of BOOLEAN: runs with a notifier (CLI) or without
                \* one (dashboard-triggered)

ASSUME RunnerAssumption ==
  /\ IsFiniteSet(Products)
  /\ MaxRuns \in Nat
  /\ LogsAccepted \in BOOLEAN
  /\ Notifying \subseteq BOOLEAN

VARIABLES
  runs,       \* collector_runs: status, products_observed, receipt
  lastRun,    \* the greatest id of that table
  products,   \* products of the source
  sightings,  \* observation_occurrences
  current,    \* current_product_observations: the pointer to the last sighting
  classLog,   \* classification_log
  events,     \* events, by dedup key
  outbox,     \* notifications as enqueued (their delivery: module Delivery)
  pc,         \* where the running process is inside _run
  job         \* its local variables

tables == <<runs, lastRun, products, sightings, current, classLog, events, outbox>>
vars == <<runs, lastRun, products, sightings, current, classLog, events, outbox, pc, job>>

-----------------------------------------------------------------------------

\* "feature_phone", anything else a collector may decide, and no row/entry.
Class == {"feature_phone", "other", "none"}

RunIds == 1..MaxRuns

NoSighting == [content |-> NoContent, run |-> 0]

NoJob == [run |-> 0, baseline |-> FALSE, previous |-> 0, notifying |-> FALSE,
          status |-> "none", found |-> [p \in Products |-> NoContent],
          log |-> [p \in Products |-> "none"],
          prior |-> [p \in Products |-> "none"], todo |-> {}]

RunRow(status, observed, receipt) ==
  [status |-> status, observed |-> observed, receipt |-> receipt]

\* products_observed is never NULL on an 'ok' run, so "no ok run" is the
\* only way previous_count can be None.
OkRuns == {r \in RunIds : runs[r].status = "ok"}

\* last_ok_run: the ok run with the greatest id.
MutantIsLastOk(r) ==    \* the last run that finished without failing, blocked ones included
  /\ runs[r].status \in {"ok", "blocked_zero_result"}
  /\ \A q \in RunIds : runs[q].status \in {"ok", "blocked_zero_result"} => q <= r

IsLastOk(r) == r \in OkRuns /\ \A q \in OkRuns : q <= r

Init ==
  /\ runs = [r \in RunIds |-> RunRow("none", 0, FALSE)]
  /\ lastRun = 0
  /\ products = [p \in Products |-> UnknownRow]
  /\ sightings = {}
  /\ current = [p \in Products |-> NoSighting]
  /\ classLog = [p \in Products |-> "none"]
  /\ events = {}
  /\ outbox = {}
  /\ pc = "idle"
  /\ job = NoJob

-----------------------------------------------------------------------------
NewJob(baseline, previous, notifying) ==
  [NoJob EXCEPT !.run = lastRun + 1, !.baseline = baseline,
                !.previous = previous, !.notifying = notifying]

(* ensure_source, last_ok_run, run_started.                                *)
StartRun ==
  /\ pc = "idle"
  /\ lastRun < MaxRuns
  /\ \E notifying \in Notifying :
       \/ OkRuns = {} /\ job' = NewJob(TRUE, 0, notifying)
       \/ \E r \in RunIds : IsLastOk(r) /\ job' = NewJob(FALSE, runs[r].observed, notifying)
  /\ lastRun' = lastRun + 1
  /\ runs' = [runs EXCEPT ![lastRun + 1] = RunRow("running", 0, FALSE)]
  /\ pc' = "collecting"
  /\ UNCHANGED <<products, sightings, current, classLog, events, outbox>>

\* What collector.run() may hand back.  A failure keeps the entries logged
\* before the exception and no discovery.
Logs == [Products -> Class]
Finds == [Products -> Contents \cup {NoContent}]

Coherent(found, log) ==
  \A p \in Products : IF LogsAccepted THEN found[p] # NoContent <=> log[p] = "feature_phone"
                                      ELSE log[p] # "feature_phone"

(* collector.run() and compute_classification_transitions, which reads the *)
(* prior classification of every examined slug before the log is upserted. *)
Collect ==
  /\ pc = "collecting"
  /\ \E log \in Logs, found \in Finds, status \in {"ok", "failed"} :
       /\ IF status = "ok" THEN Coherent(found, log)
                           ELSE /\ \A p \in Products : found[p] = NoContent
                                /\ ~LogsAccepted => Coherent(found, log)
       /\ job' = [job EXCEPT !.status = status, !.found = found, !.log = log,
                             !.prior = classLog,
                             !.todo = {p \in Products : log[p] # "none"}]
  /\ pc' = "logging"
  /\ UNCHANGED tables

(* One record_classification of _persist_classification_log: its own       *)
(* commit; an exception is swallowed and the entry is lost.                *)
PersistClassification(p) ==
  /\ pc = "logging"
  /\ p \in job.todo
  /\ classLog' \in {[classLog EXCEPT ![p] = job.log[p]], classLog}
  /\ job' = [job EXCEPT !.todo = @ \ {p}]
  /\ UNCHANGED <<runs, lastRun, products, sightings, current, events, outbox, pc>>

-----------------------------------------------------------------------------
Emitted == {p \in Products : job.found[p] # NoContent}

CatastrophicZero == job.previous > 0 /\ Emitted = {}

FinishRun(status, observed) ==
  /\ runs' = [runs EXCEPT ![job.run] = RunRow(status, observed, @.receipt)]
  /\ pc' = "idle"
  /\ job' = NoJob
  /\ UNCHANGED <<lastRun, products, sightings, current, classLog, events, outbox>>

FinishFailed ==
  /\ pc = "logging" /\ job.todo = {} /\ job.status = "failed"
  /\ FinishRun("failed", 0)

BlockZeroResult ==
  /\ pc = "logging" /\ job.todo = {} /\ job.status = "ok" /\ CatastrophicZero
  /\ FinishRun("blocked_zero_result", 0)

(* What process_run tells: one loop over the discoveries, one over the     *)
(* demotions, one over the active products it did not see.                 *)
SightingEvents ==
  UNION {{DedupKey(p, k, current[p].content, job.found[p], job.run) :
            k \in Owed(products[p], current[p].content, job.found[p])} : p \in Emitted}

\* t.new # "feature_phone" and t.prior = "feature_phone" on a catalogued
\* product; no observation and no occurrence enters the key.
DemotionEvents ==
  {DedupKey(p, "classification_changed", NoContent, NoContent, 0) :
     p \in {q \in Products : /\ job.prior[q] = "feature_phone"
                             /\ job.log[q] = "other"
                             /\ q \in Emitted \/ products[q].status # "unknown"}}

RemovalEvents ==
  {DedupKey(p, "product_removed", current[p].content, NoContent, current[p].run) :
     p \in {q \in Products \ Emitted : Confirmed(products[q])}}

MutantTold ==    \* baseline runs announce the catalogue
  SightingEvents \cup DemotionEvents \cup RemovalEvents

Told ==
  IF job.baseline THEN {} ELSE SightingEvents \cup DemotionEvents \cup RemovalEvents

\* The pointer follows the sighting, whether or not its content is new.
MutantNextPointer(p) ==    \* the newest content ever recorded stays current
  IF p \in Emitted /\ ~\E s \in sightings : s.product = p /\ s.content = job.found[p]
  THEN [content |-> job.found[p], run |-> job.run] ELSE current[p]

NextPointer(p) ==
  IF p \in Emitted THEN [content |-> job.found[p], run |-> job.run] ELSE current[p]

MutantNextRow(p) ==    \* baseline runs count absences too
  IF p \in Emitted THEN Seen(products[p], job.found[p]) ELSE Missed(products[p])

NextRow(p) ==
  IF p \in Emitted THEN Seen(products[p], job.found[p])
  ELSE IF job.baseline THEN products[p] ELSE Missed(products[p])

\* record_event returns None for a known key and then nothing is enqueued.
Enqueued ==
  IF job.notifying
  THEN {[event |-> e, status |-> InitialStatus(e.type)] : e \in Told \ events} ELSE {}

ProcessRun ==
  /\ pc = "logging" /\ job.todo = {} /\ job.status = "ok" /\ ~CatastrophicZero
  /\ products' = [p \in Products |-> NextRow(p)]
  /\ sightings' = sightings \cup
       {[product |-> p, run |-> job.run, content |-> job.found[p]] : p \in Emitted}
  /\ current' = [p \in Products |-> NextPointer(p)]
  /\ events' = events \cup Told
  /\ outbox' = outbox \cup Enqueued
  /\ runs' = [runs EXCEPT ![job.run] = RunRow(@.status, @.observed, TRUE)]
  /\ pc' = "processed"
  /\ UNCHANGED <<lastRun, classLog, job>>

\* n counts every discovery handed over, a repeated key included; only
\* whether it is zero is ever read.
FinishOk ==
  /\ pc = "processed"
  /\ FinishRun("ok", Cardinality(Emitted))

\* The process dies, or process_run raises and is rolled back.
Crash ==
  /\ pc # "idle"
  /\ pc' = "idle"
  /\ job' = NoJob
  /\ UNCHANGED tables

Next ==
  \/ StartRun
  \/ Collect
  \/ \E p \in Products : PersistClassification(p)
  \/ FinishFailed
  \/ BlockZeroResult
  \/ ProcessRun
  \/ FinishOk
  \/ Crash

Spec == Init /\ [][Next]_vars

-----------------------------------------------------------------------------
(* Vocabulary of the properties.                                           *)

\* A run is a baseline run when no run before it had finished ok.
Baseline(r) == ~\E q \in 1..(r - 1) : runs[q].status = "ok"

\* Some run that finished ok observed a product.
Healthy == \E r \in OkRuns : runs[r].observed > 0

\* t is the sighting of its product that follows s.
Successive(s, t) ==
  /\ s.product = t.product /\ s.run < t.run
  /\ ~\E u \in sightings : u.product = s.product /\ s.run < u.run /\ u.run < t.run

\* Healthy runs after run r0 that compared the catalogue and did not see p,
\* up to the next sighting of p.
MissesAfter(p, r0) ==
  {r \in RunIds : /\ r > r0 /\ runs[r].receipt /\ ~Baseline(r)
                       /\ ~\E s \in sightings : s.product = p /\ r0 < s.run /\ s.run <= r}

\* A change of content an operator must hear of: the specification appears
\* or disappears, or two complete ones differ in a field the new one carries.
Reportable(old, new) ==
  \/ old.complete # new.complete
  \/ old.complete /\ \E f \in Fields : new.spec[f] \notin {Absent, old.spec[f]}

-----------------------------------------------------------------------------
(* Every table holds rows of its shape and the process its locals.         *)
TypeOK ==
  /\ runs \in [RunIds -> [status : {"none", "running", "ok", "failed", "blocked_zero_result"},
                           observed : Nat, receipt : BOOLEAN]]
  /\ lastRun \in 0..MaxRuns
  /\ products \in [Products -> [status : {"unknown", "active", "removed"},
                                sku : {NoSku} \cup {c.sku : c \in Contents},
                                absences : Nat]]
  /\ sightings \subseteq [product : Products, run : Nat, content : Contents]
  /\ current \in [Products -> [content : Contents \cup {NoContent}, run : Nat]]
  /\ classLog \in [Products -> Class]
  /\ events \subseteq [product : Products, type : ChangeType,
                       prev : Contents \cup {NoContent},
                       cur : Contents \cup {NoContent}, occ : Nat]
  /\ outbox \subseteq [event : events, status : {"pending", "suppressed"}]
  /\ pc \in {"idle", "collecting", "logging", "processed"}
  /\ job \in [run : Nat, baseline : BOOLEAN, previous : Nat, notifying : BOOLEAN,
              status : {"none", "ok", "failed"}, found : Finds, log : Logs,
              prior : Logs, todo : SUBSET Products]

(* Ids above the greatest one are not in collector_runs.                   *)
UnusedRuns ==
  \A r \in RunIds : r > lastRun => runs[r].status = "none" /\ ~runs[r].receipt

(* The process that is inside _run works on the newest row of              *)
(* collector_runs; its receipt exists from the process_run commit on, and  *)
(* its idea of a baseline stays true until it ends.                        *)
JobIsCurrent ==
  pc # "idle" =>
    /\ job.run = lastRun /\ job.run > 0
    /\ runs[job.run].status = "running"
    /\ runs[job.run].receipt <=> pc = "processed"
    /\ job.baseline <=> OkRuns = {}

(* What the zero-result guard relies on: once some ok run observed         *)
(* products, so did the last one, the running job knows it, and what it    *)
(* emits stays active.                                                     *)
GuardKnowsHistory ==
  /\ Healthy => \A r \in OkRuns : IsLastOk(r) => runs[r].observed > 0
  /\ Healthy /\ pc # "idle" => job.previous > 0
  /\ pc = "processed" /\ job.previous > 0 => Emitted # {}
  /\ pc = "processed" => \A p \in Emitted : products[p].status = "active"

(* Current state is chronological: the pointer of a product is its latest  *)
(* committed sighting, also when an older content recurs and across        *)
(* crashes; a product without a row has no sighting.                       *)
PointerIsLastSighting ==
  \A p \in Products :
    IF products[p].status = "unknown"
    THEN current[p] = NoSighting /\ \A s \in sightings : s.product # p
    ELSE /\ [product |-> p, run |-> current[p].run, content |-> current[p].content] \in sightings
         /\ \A s \in sightings : s.product = p => s.run <= current[p].run

(* Nothing is announced before a source has a baseline, whatever crashed   *)
(* or was blocked before it.                                               *)
BaselineSilent == events # {} => OkRuns # {}

(* Every event about a content is a real transition: its sighting exists,  *)
(* is not a baseline's, and the sighting just before it had the previous   *)
(* content (or there was none).                                            *)
EventsAreTransitions ==
  \A e \in events : e.cur # NoContent =>
    \E t \in sightings :
      /\ t.product = e.product /\ t.run = e.occ /\ t.content = e.cur
      /\ ~Baseline(t.run)
      /\ IF e.prev = NoContent
         THEN ~\E s \in sightings : Successive(s, t)
         ELSE e.prev # e.cur /\ \E s \in sightings : Successive(s, t) /\ s.content = e.prev

(* No reportable change is lost, however often the same contents recur:    *)
(* each pair of successive sightings that differ reportably has an event   *)
(* of its own, unless the run that saw it was a baseline.                  *)
TransitionsReported ==
  \A s, t \in sightings :
    Successive(s, t) /\ ~Baseline(t.run) /\ Reportable(s.content, t.content) =>
      \E e \in events : /\ e.product = t.product /\ e.occ = t.run
                        /\ e.prev = s.content /\ e.cur = t.content

(* The absence counter of an active product is the number of healthy runs  *)
(* that missed it since its last sighting, and a removal is announced only *)
(* after Threshold of them: failed, blocked and baseline runs never count. *)
RemovalConfirmed ==
  /\ \A p \in Products : products[p].status = "active" =>
       products[p].absences = Cardinality(MissesAfter(p, current[p].run))
  /\ \A e \in events : e.type = "product_removed" =>
       Cardinality(MissesAfter(e.product, e.occ)) >= Threshold

(* A product is listed as removed exactly when its removal since its last  *)
(* sighting has been announced: each disappearance once, also after a      *)
(* reappearance with the same content.                                     *)
RemovalReported ==
  \A p \in Products :
    products[p].status = "removed" <=>
      \E e \in events : /\ e.type = "product_removed" /\ e.product = p
                        /\ products[p].status # "unknown" /\ e.occ = current[p].run

(* Once an ok run has observed products, zero-result runs can no longer    *)
(* empty the catalogue: some product stays active.                         *)
CatalogueNeverEmptied ==
  Healthy => \E p \in Products : products[p].status = "active"

-----------------------------------------------------------------------------
(* Statements of the repository's comments that the code does not meet.    *)

(* runner.py:12-16: a source that had an active catalogue and reports zero *)
(* products is a source-health problem; nothing is written to products.    *)
ZeroResultWritesNothing ==
  [][(\E p \in Products : products[p].status = "active") /\ Emitted = {}
       => UNCHANGED products]_vars

(* pipeline.py:47-50, 126-129: a transition is detected before the prior   *)
(* classification is overwritten and a failure can retry without losing    *)
(* it, so a run that leaves a demotion in the log leaves its event.        *)
DemotionNotLost ==
  [][pc # "idle" /\ pc' = "idle" =>
       \A p \in Products :
         /\ ~job.baseline /\ products[p].status # "unknown"
         /\ job.prior[p] = "feature_phone" /\ job.log[p] = "other" /\ classLog[p] = "other"
         => \E e \in events : e.type = "classification_changed" /\ e.product = p]_vars
=============================================================================
