# Verification of feature-phone-clank

TLA+ models of the collection, event and delivery core of
`src/src/feature_phone_clank/` (paths below are relative to that directory),
model-checked with TLC and, for the parts marked *proved*, proved with TLAPS for
every value of the constants. `PROJECT.json` lists the components, the runs, the
mutants (a plausible bug for every checked property, each of which TLC must catch),
the source lines behind every definition, the hazards, the findings and the theorems.

## 1. The system

A scheduled process (`cli.py run`) collects feature phones from manufacturers' sites,
compares what it finds with a SQLite store, records events for what changed, and posts
them to a Discord webhook through an outbox table. A local dashboard can trigger the
same collection without notifications and keeps human reviews in a second database.

| Component | State it keeps | Operations | Talks to |
|---|---|---|---|
| Event pipeline (`core/pipeline.py`, `diff.py`, `models.py`, `notifications.py`) | none of its own | `process_run`, `compute_classification_transitions`, `diff_meaningful_fields`, `Event.dedup_key`, `initial_status` | called by the runner inside one store transaction; calls the notifier's `enqueue` |
| Run orchestration (`core/runner.py`, `collector_base.py`) | locals of one run | `_run`: start, collect, persist classifications, zero-result guard, process, finish | collector, store, pipeline, qualification |
| Store (`providers/sqlite/__init__.py`) | products, observations, occurrences, current pointer, classification_log, events, notifications, collector_runs, delivery_policy, qualification tables | one committed statement each, or several inside `transaction()` | everybody |
| Store admission (`providers/sqlite/compatibility.py`, `SqliteStore.__init__`) | schema version, migration ledger | inspect, bootstrap, migrate, refuse | every process that opens the store |
| Delivery (`providers/discord`, `core/delivery_policy.py`, `core/run_lock.py`) | outbox rows, retry floors, cutoff, delivery grant | `enqueue`, `drain`, `enqueue_test`, requeue, set cutoff | store, channel |
| Qualification (`core/qualification.py`) | evidence per scope and material identity | `prepare`, `finish`, `gate` | runner, reports |
| GUI controller (`local_collection.py`) | current job, states per source, a thread | `start`, `start_all_production`, `_run_one` | run lock, store, runner |
| Human QC (`providers/qc_store.py`) | one review per event in a sidecar database, with the history of its corrections | `submit_review` | dashboard threads |
| Continuity (`core/continuity.py`) | append-only file of records, each with the hash of its own content | `ensure_registry`, `append_event`, `read_events`, `verify_hashes` | CLI |
| Recovery points (`backup_to`, `cmd_backup`) | a snapshot file and the registry's copy beside it | `backup` | store, registry |
| Dashboard, bridge, CLI reports | none | read-only queries | store |
| Collectors (`collectors/*.py`, `core/collector_base.py`) | none between runs; a queue, a classification log and discoveries within one | `run`, `collect`, `HttpFetcher.get` | the official sites, which change while they are read |

**Hard behaviour.** (a) The order of commits inside a run and a death between any two of
them: classification rows, the catalogue transaction and `run_finished` are separate
commits. (b) Recurrence: the same content, removal or SKU returning later, with
content-addressed observations and deduplicated events. (c) Health gating: which runs
may count absences, announce, or empty a catalogue. (d) Several processes over one
outbox, requests that take minutes on copied rows, lost answers, rate limits, retries,
and operator commands that take no lock. (e) Schema changes under concurrent openers,
nested transactions, threads of the dashboard, evidence invalidation. (f) Sites that are
edited between two requests of one crawl, pages that are lost or partial, items that claim
one identity in different spellings. (g) Commands that die between two files, or in the
middle of a line.

**What makes each part correct.** Pipeline and runner: current state is chronological;
events are exactly the reportable transitions; removals need confirmed healthy absences;
nothing is announced from a baseline; zero results cannot empty the catalogue. Delivery:
at least once, and once unless an answer was lost; given up only after the retry budget;
every eligible row settles. Store: an event and its outbox row are durable together;
migrations apply once. Qualification: no evidence survives a material change. Controller:
one run at a time and no run stuck. Collectors: a listed feature phone is handed over
whatever page is lost, nothing is guessed, a lost page is no change. Recovery points: whole,
and what was reported stays. Continuity: every seed once. QC: no verdict is lost, and it
names its run.

## 2. Modules

| Module | Models | State and actions |
|---|---|---|
| `Pipeline` | decisions of `core/pipeline.py` for one product | no state: `Owed` (which event a discovery owes), `Seen`/`Missed` (the product row), `MeaningfulChanges` (`diff.py`), `DedupKey` |
| `Runner` | `runner._run` and `process_run` over one source | tables as variables; one action per commit: `StartRun`, `Collect`, `PersistClassification`, `FinishFailed`, `BlockZeroResult`, `ProcessRun`, `FinishOk`, `Crash` |
| `MCRunner` | instances of it | contents, symmetry |
| `RunnerProofs` | theorems about `Runner`: its state, what its events say, and what its absence counters count | |
| `Outbox` | abstract promise of delivery | per row: state, copies that reached the channel, answers never recorded |
| `Delivery` | `drain`, `enqueue_test` and the commands around them | one action per statement or request of a process; `Crash` at every point; `ImplementsOutbox` maps it to `Outbox` |
| `DeliveryProofs` | theorems about `Delivery`, with the refinement of `Outbox` | |
| `MCDelivery` | instances of it | |
| `Qualification` | `core/qualification.py` under two processes of one scope | the scope's epochs, evidence and material identity as variables; `ReadGate`, `KeepEpoch`, `Reset`, `Finish`, `Crash`: the steps of `prepare` and `finish` that commit or read |
| `QualificationProofs` | theorems about `Qualification` | |
| `MCQualification` | instances of it | |
| `Collection` | `LocalCollectionController`'s threads, the run lock and command-line runs | states per source, workers with their place in `_run_one`/`_run_all_production`, lock holders |
| `CollectionProofs` | theorems about `Collection` | |
| `MCCollection` | instances of it | |
| `Fetcher` | one request of a crawl: `HttpFetcher.get` and the single-try fetchers | the request under way with its try, a ledger of failed tries; `Again`, `Answered`, `Raise` |
| `Listings` | `hmd.py`, `lava.py`, `itel.py`, `punkt.py`: two listings, then the pages of each product | the site as it is edited (`Move`), the queue, the log, the discoveries; one action per request answered |
| `Storefront` | `doro.py`, `sunbeam.py`, `tcl_alcatel.py`, `mudita.py`: one document read item by item | the document, the identities seen and handed over; `Catalogue`, `ReadItem`, `CheckFloor` |
| `Crawl` | `BaseCollector.run` of any of the eight | either machine |
| `CrawlProofs` | theorems about `Crawl`, for both machines | |
| `MCCrawl` | its instance | what a site may show of a product |
| `Admission` | `compatibility.py` and `SqliteStore.__init__` for openers of one version | committed tables, altered columns, version rows; one action per inspection, `CREATE TABLE`, stamp, migration transaction |
| `AdmissionProofs` | theorems about `Admission` | |
| `StoreTx` | `SqliteStore.transaction()` and the blocks `process_run` nests in it | committed rows; per connection its depth, uncommitted rows and place; one action per statement or end of a block, `Abandon` at every point |
| `StoreTxProofs` | theorems about `StoreTx` | |
| `Continuity` | `core/continuity.py` under several processes | the lines of the registry; `Read`, `AppendSeed`, `TearLine` |
| `Backup` | `cmd_backup` and `backup_to`, over `StoreTx` and `Continuity` | the snapshot, its partial file, the registry's copy; one action per file operation, `StopBackup` at every point |
| `QcReview` | `do_POST` and `submit_review` | runs and events with their times, reviews, requests; `Request`, `Begin`, `Commit`, `RequestFails` |
| `Stores` | all files the program keeps: `Admission`, `StoreTx`, `Backup`, `Continuity`, `QcReview` | a behaviour works on one file, recovery points are taken meanwhile |
| `StoresProofs` | theorems about `Stores`: the registry, recovery points and reviews, and that the files together do what each does alone | |
| `MCStores` | its instance | the real schema, version 7, with the table and column history of its migrations |

`Delivery` implements `Outbox` (`INSTANCE ... WITH` in `Delivery`). `Runner` extends
`Pipeline`, and `Listings` takes `Pipeline!Owed` to say what a damaged crawl would be
reported as. `Backup` composes `StoreTx` and `Continuity`; `Stores` adds the others. The
remaining modules meet where the code does: the run lock (`Collection`) is why `Runner`
has one job at a time, an admitted store (`Admission`) is what all of them run on, and
what a crawl hands over is what `Runner!Collect` takes.

Abstractions. A content stands for what `content_hash` covers (the hash is taken to be
injective) and so for its observation row; a run id stands for the occurrence row of a
product in that run. `Runner` takes `process_run` as one step because the outermost
`store.transaction()` is one commit, which `StoreTx` models and `StoreTxProofs` proves.
Sources share no product, run or classification
row, so one source is modelled; the run lock admits one runner. Alert levels, payloads
and timestamps are left out except the event time the activation policy compares. In
`Delivery` the fact whether a `not_before` floor is in force replaces the clock, and the
channel is external: an accepted request may look like an error to the sender. Whatever
raises between two statements (a locked database, for instance) is the `Crash` of the
model. A drain without a webhook or with a busy grant changes nothing and is not an action.

In `Qualification` a material identity (the hashes over code, configuration and scope) is
a model value, and the history variable `overlapped` remembers that two runs of the scope
were prepared at once, which the run lock excludes unless `--no-lock` is given. In
`Collection` a raise inside `RunLock.acquire` other than `LockError` ends the thread as
a raise while opening does and is not an action of its own. In `Admission` the rows a
bootstrap stamps commit together, the data migration 7 copies is left out, and a failed `quick_check` is
one more way to be refused.

In `Listings` and `Storefront` a document is what the collector's patterns tell apart in
it (which listings show a slug and how it is labelled there, which evidence a page
carries, the kind of an item), and an answer is whole, damaged, refused, busy or dead; the
patterns themselves are not modelled. A damaged answer is a 200 whose body lacks something:
the collector parses what is left (`hmd.py:491-495`), so any part of a listing or of a page
may be read of it (`Readings`, `Received`): some fields and not others, fewer values of one
field or a later row of the same label (`less`), a variant's SKU in place of the first
(`others`). A page that is refused or times out shows nothing at all. `doro.py` also
requires one accepted name to begin with "Doro" (`Anchored`); which name is a document's
choice. The slugs a crawl has still to visit are a set, each
with the turn of its group; the next is the smallest slug of the earliest turn, which is
what the loops over `sorted(...)` do. `Move` edits the site between two requests. Ledgers
(`past`, `torn`, `cut`, `faults`) remember what the site showed and what was lost, for the
properties only. A final status a retrying fetcher would try again counts as a failed try.

In `StoreTx` a row is its run, kind and product; which event is owed is `Runner`'s
business, so a product may or may not owe one. SQLite's write lock is the guard of
`Insert`. A registry line is a seed or torn; an append behind a torn line has no newline
to start after and is lost in it. The online backup ends with one committed state of its
source, whatever it read in between. In `QcReview` the clock orders runs, events and
requests; runs of a source follow one another, as the run lock has it.

## 3. Runs

| Run | Question |
|---|---|
| `runner_changes` | Pages that change, lose a field or their specification, alternate between SKUs and come back, with and without a notifier: is the pointer chronological, is every reportable change told once, and nothing else? |
| `runner_removals` | Two products vanish and return under the real threshold 3: which runs count, is each disappearance told once, can zero results empty the catalogue, is the baseline silent? |
| `delivery_outbox` | Does the outbox implement `Outbox` under two overlapping processes, tests, requeues, holds and up to two faults? |
| `delivery_settles` | Does every eligible row settle? |
| `qualification` | Two processes, overlapping runs, materials that change under them: does a qualified verdict rest on the current material's own runs, and is the lineage of epochs unbroken where the lock was used? |
| `collection_runs` | Does every queued or running source have a worker that ends it, does one collection run per database, do the controls become free again? |
| `crawl` | Any collector against a site that is edited while it is read, with every request failing in every way: is every listed feature phone handed over, is nothing guessed or decided twice, is a lost page never a change and a partial one only where it must be, are retries enough, does the first claim of an identity decide, is a catalogue that is too small refused, does every crawl end? |
| `stores` | The files: is nobody admitted without the schema, nothing touched that cannot be vouched for, no version stamped early, every older store upgraded; is a run committed whole or not at all and its replay a no-op; is a recovery point whole and what was reported kept; are seeds written once and completely; is no review lost or attributed to another run? |
| `zero_bypass`, `demotion_lost`, `test_race`, `collection_wedged` | statements of comments the code does not meet, and one defect (section 6) |

Type invariants are checked by `runner_changes` and `stores`; those of `Collection`,
`Crawl`, `Delivery` and `Qualification` are proved, `Crawl`'s as part of its invariant. What these runs check besides is about hazards in the code, at the
lines `PROJECT.json` lists.

Bounds. `MaxRuns` 4 (5 in `runner_removals`) rows of `collector_runs`: a baseline, and
enough further runs for a removal to be confirmed and undone (threshold 3 needs three misses after a
baseline) and for A-B-A-B contents. A second disappearance, after a return, would take eight
runs: that it is told once too is what the theorem `RemovalsAreReported` says and no run shows. One
product suffices where products do not interact; two where they do (the zero-result
guard counts all of them). Six contents reach every branch of the pipeline: complete,
changed, field absent, incomplete, a non-meaningful change, another SKU. `LogsAccepted`
is FALSE in `runner_removals` (collectors that log only what they turn away) and TRUE in
the other runner runs. `MaxRows` 2
rows: a head of the queue and one behind it. `MaxAttempts` 2 instead of 5: one retry and
then the limit. `MaxRequeued` 3 lets an operator requeue a given-up row once. `MaxFaults`
bounds crashes, 429 answers and accepted-but-unheard posts, which are otherwise unlimited
and would make every counter infinite; liveness needs faults to cease.
Runner runs end at `MaxRuns`, so they do not check deadlock; delivery runs do.
`Qualification`: two processes (evidence is shared by pairs of runs), two materials
(current and changed, and back), three runs (one more than it takes to earn a verdict
under one material and lose it under the other); the provenances leave out TEST, which
the code treats like MANUAL. `Collection`: two worker threads and one command-line run,
three sources and the two modes, each with its database, so that threads meet on one and not.

`crawl`: two slugs, one of any kind the collectors tell apart and one plain feature phone
that the crawl must still reach; `MaxTries` is the real 3 and failed tries are counted up
to `Enough` 3, which is where `OutagesAbsorbed` stops promising; `MaxMoves` 1, since one
edit between the two listings makes a product appear on both or on neither; six kinds of
product page (two fields and a SKU; the same with several values of one field, fields that
no alert is about and a variant's SKU, so that there is something of each kind to lose; SKU
on the second page only; two SKUs that differ; a SKU and no more; an empty shell); documents of up to three items over two identities, so that two claims and an
unrelated item meet in every order; floors of 1 and 2. A crawl stops, so deadlock is not
checked.

`stores`: two openers, the real seven versions, `MaxFaults` 2, so that each opener can
fail once; the origins are fresh, each earlier version, newer, foreign, torn, and half of
each migration. Two connections and two runs, one of them with a notifier, one product
(every kind of row; products are recorded one after the other and alike, and the proof is
for any number). Two processes over the registry and its two seeds. Two threads, two
decisions and `MaxTime` 6 ticks, which is two runs, an event of each and two requests, or one run
with an event and four requests. `part` keeps the files apart: they share nothing but what
a backup reads. Behaviours of `part` "archive" end at `MaxTime`, so deadlock is not checked.

Fairness (`Delivery!FairSpec`). A drain is scheduled again and again (`cli.py run`
ends with one and the platform's scheduler repeats it), a process that has started
keeps running, and a retry floor passes. No fairness is assumed of the operator,
of test-notify, of answers other than that a request returns (15 s timeout,
`discord/__init__.py:211`), or of `--include-held`. In `Collection` a thread that was
spawned runs on; no button is ever pressed by fairness. In `Crawl` a request ends within
its hard timeouts (`hmd.py:120`, `lava.py:108`, 15 s or Playwright's limits elsewhere; they
limit stalls, so a body that drips for ever is assumed away) and
the collector goes on by itself; nothing is assumed of what the site answers or when it is
edited. In `Stores` openers come
again because `scripts/install-schedule.ps1` runs the collection four times a day, and
one that runs goes on; the same script's execution limit is one reason for `Crash`.

## 4. Proofs

`RunnerProofs` assumes only `RunnerAssumption`, `ContentsAssumption` and
`ThresholdAssumption`; products, contents, runs and the threshold are arbitrary.

* `TypeCorrect`. `TypeOK` alone is not inductive: `StartRun` must know that the row it
  takes is unused and the later steps that the process owns the newest, still running
  row. `TInv` adds `UnusedRuns` and `JobIsCurrent`; one lemma per action.
* `BaselineIsSilent`. A job's idea of a baseline stays true until it ends
  (`JobIsCurrent`), ok runs never stop being ok (`RunsGrow`), and `process_run` is the
  only writer of events (`OnlyProcessWrites`).
* `CurrentIsChronological`. `Chronology` adds that sightings belong to runs with a
  receipt; the running row has none before its commit and is the newest, so its
  sightings are new and later than all others.
* `CatalogueIsNeverEmptied`. `Guarded` adds `GuardKnowsHistory`: once an ok run observed
  products the last ok run did, the job compares with it, and a run that passes the
  guard leaves what it emits active.

`AdmissionProofs` assumes only `AdmissionAssumption`: any list of tables headed by the
marker, any history of tables and added columns, any number of openers and faults.

* The invariant `IInv` has three parts. `Shape` says what the database can be: a
  bootstrap on its way (columns exactly those of its tables, versions last), an older
  store before or after its one migration, or what was never touched. `Knows(p)` says
  what an opener may rely on at its point: a bootstrapper that the tables it has passed
  exist, a migrator that the database is at its version, was migrated by someone else, or
  conflicts with it, an admitted opener that the schema is whole.
* `Knows(p)` must survive the steps of everybody else. `Effect` names the two changes any
  step can make to the database, a bootstrap growing or one migration; `KnowsStable` and
  `ShapeStable` show that neither takes anything away, and one lemma per action shows
  `Effect` and what its own opener knows afterwards.
* `AdmittedAreServed` and `AdmissionTypeCorrect` are parts of `IInv`.
  `RefusedStaysUntouched` also needs that an unvouched store is none of the vouched ones;
  `StampsComeLast` follows from `Effect` with `DbGrows`. `CompatibleIsWhole` is the
  point where the inspection's shortcut, to look only at the newest migration's columns,
  is shown to be enough for the stores that can exist.
* `CurrentStaysCurrent` is the safety half of `OlderIsUpgraded`: a store that is current is
  never changed again. That it becomes current stays with TLC.

What `Runner`'s events say rests on the invariant `Recorded`, which adds to
`Chronology` that a product is sighted once in a run and that a removal is told of a
sighting whose run is committed, and the three statements themselves.

* `RemovalsAreReported`: a product is marked removed exactly when the removal event of its
  latest sighting exists. `process_run` tells removals of the pointer's run, which is
  committed, while what it sights belongs to its own run, which is not; so no new sighting
  finds an old removal event, and no removal is told twice.
* `NoTransitionIsLost` and `NoEventIsInvented`: the two directions of "events are exactly
  the reportable transitions". Every sighting is earlier than those `process_run` adds
  (`Before`), so the sighting just before a new one is where the pointer was, and old
  pairs of sightings stay neighbours.
* `RemovalsAreConfirmed` counts: the absence counter of an active product is the number of
  committed runs, no baselines, since its last sighting. Only `ProcessRun` gives a run its
  receipt (`ReceiptsKept`), and whether a run with one was a baseline never changes, so
  every other step leaves the set of runs that missed a product alone (`MissesKept`).
  `ProcessRun` adds its own run to it or, where it sights the product, empties it
  (`MissesGrow`); the set's cardinality follows the counter (`CountedRow`), and a removal
  of an earlier disappearance keeps the runs it rested on (`RestsOnEnough`).

`StoreTxProofs` assumes only `TxAssumption`: any connections, runs and number of products.

* The invariant `TxInv` says what the uncommitted rows of a connection are at its place
  (`Progress`: products behind it settled, those ahead blank, the one at hand as far as
  the place says), that depth 1 and 2 are the places outside and inside an inner block,
  and that no two connections are at one run. Only `EndRun` leaves depth 1, at the place where
  everything is settled and the receipt is written, so what it commits is whole
  (`BlocksStayWhole`).
* `ReplaysAreNoOps`: a connection whose run has a receipt has gone straight to the end of
  its block and has nothing to commit.

`DeliveryProofs` assumes only `DeliveryAssumption`: any processes, rows, times and faults.

* The invariant `DInv`: whoever drains holds the grant (`Grants`), so at most one copy is
  between the channel and the outbox (`InFlight`); what a process has in hand is what the
  tables say (`Local`); a row without a status was never posted (`Untouched`); and the
  copies of an event's row that is still owed are those whose answer was lost and the one
  in flight (`Account`).
  The grant is what makes `Local` stable: only its holder records event rows, and a
  requeue touches failed ones, which nobody has in hand.
* `SelectionStaysCurrent` and `FailureIsEarned` are parts of `DInv`.
* `DeliveryImplementsOutbox` adds one fact per step. A post that the channel accepts is
  `Deliver`, its record `Confirm`, a last failed attempt `GiveUp`, a lost answer or a
  death after the post `Forget`; enqueuing and requeuing are the
  abstract actions of that name; selections, test rows and retries are stutters. `Account` is what lets a step of one
  process be a step of one abstract row.
* `RetriesRunOut` and `CommandsGoOn` are safety halves of `EligibleSettles`: a pending row
  is sent, given up or has one try less after each recorded error, as the count that the
  drain selected is still the row's (`Local`); and each step that moves a command takes it
  to its next stage or past a row, so a drain looks at each row it selected once.

`QualificationProofs` assumes only `QualificationAssumption`: any materials, processes and
number of runs.

* The invariant `IInv`: runs are created in order and there are at least as many prepared
  runs as epochs (a cardinality argument that bounds the counter of epochs); each process
  knows at its place what it has read of its run, the scope and the epoch; terminal
  evidence says what its run says.
  `Effect` names what one step may do to the tables and `StepKeeps` shows that it takes
  nothing away from the other processes; one lemma per action shows the rest.
* `QualifiedOnlyWhenEarned` and `GateStaysTrue` follow from it for overlapping runs as well.
  `LineageUnbroken` needs `Lineage`: while no run has met another, at most one process is
  between reading and writing the epoch, what it has read is still so, and each reset
  belongs to the one epoch it opened.

`CollectionProofs` assumes only `CollectionAssumption`: any sources, scope and threads.

* `LInv` (types with lists of distinct sources, the lock is its worker's, who collects has
  a source) is inductive and has `OneRun` as a part.
* `BusyIsOwned` adds that what a worker has left is queued or running and in no other
  worker's list (`BInv`). It needs that opening a store fails only with
  `StateCompatibilityError`: the run `collection_wedged` shows the state left behind by
  any other exception.
* `WorkersGoOn` is the safety half of `StartsEnd`: each step of a worker takes it to its next
  stage, to its next source or to its end, and no other step moves it.

`StoresProofs` assumes `AdmissionAssumption`, `TxAssumption`, `SeedsAssumption` (the seeds
are distinct records and none is a torn line) and `QcAssumption` (no decision is the absence
of one). Its invariant `StoresInv` is `IInv /\ TxInv` and one part for each further file.

* `StoresImplementParts`: a step on the files is a step of `Admission`, of `StoreTx` or of
  neither, so the theorems about those two hold of the composition
  (`StoresSpec => Spec /\ TxSpec`).
* `SeedsAreWrittenOnce`, `EnsuredSeedsAreThere`. `RegistryInv` adds what a process knows
  (`Informed`: what it read, and every seed behind it, is there) and that processes which
  keep apart are alone and have read all there is (`Alone`). A torn line swallows the next
  append, but whoever reads it afterwards fails, so a process that loses a line without
  knowing was at work together with another one (`Swallowed`).
* `PointsAreWhole`, `PromisesAreKept`. `PointInv` says that what is checked is whole: the
  copy ends with one committed state of the store, and `TxInv` says that there every run is
  whole. A command that was not forced and has passed `Prepare` found no recovery point, so
  nothing was promised; a forced one withdraws the promise when it replaces the file, before
  it touches the registry's copy.
* `VerdictsAreKept`, `ReviewsNameTheirRun`. `ArchiveInv` says what each event's run is (the
  latest that had started, `Recorded`, which later starts do not change), that a request
  names the run of its event, and that what a thread read inside its transaction is still
  so (`Pertinent`): only one thread is inside. The history and the verdicts are sequences
  of any length; `Condenses` relates them by a function between their places, which one
  commit extends by one place, so no induction over the sequences is needed.

`CrawlProofs` assumes `FetcherAssumption` (at least one try, counted far enough),
`SlugsAssumption` (slugs are numbers, for the order they are visited in),
`ContentAssumption` (no discovery is the absence of one), `GivensAssumption` (a crawl starts
from a site, pages and rulings of the kinds the module describes) and `FloorAssumption`.
Slugs, fields, values, SKUs, items, edits and tries are arbitrary.
Its invariant `CrawlInv` is `ListInv` for a collector that reads listings and `ShopInv` for
one that reads a catalogue; the other machine's variables are as they began.

* `ListedPhonesAreHandedOver`. `Told` says that the first listing as heard is what the site
  showed of each slug at some moment of the crawl; hence a product vouched for all the while
  is queued as a feature phone when the second has been read, and `Awaited` keeps it queued
  or found. It is on the other listing at no moment, and a request that fails costs evidence
  and never the product: `Specs` and `Base` emit whatever answer they get.
* `DiscoveriesAreWarranted` from `Told` and `Warranted`: what is queued as a feature phone
  was so listed, and not by both listings unless the second was torn.
* `LogAndDiscoveriesAgree`. A slug is queued once (`Stage`) and logged before its pages are
  asked for, so `Agreed` must except the slug being parsed: it alone may be logged as a
  feature phone and not found.
* `OutagesAreNotChanges`. `Truthful` says that a discovery carries what the pages of its
  product say or less (`Partial`): all fields or none where pages were only lost, any of
  them where a page arrived in part (`Readable`, with the ledger `cut`). What the pipeline
  would owe for the difference then follows from the definitions of `Pipeline` (`Owed`,
  `MeaningfulChanges`): nothing but specs that come and go for lost pages; a changed field
  only where a partial page may show less of a label than it says, or when such a page is
  whole again (section 6).
* `FewFailuresAreAbsorbed`. The try under way is at most one more than the failed tries of
  the whole crawl (`Unharmed`), so with fewer failures than tries no request failed on its
  last one.
* `SitemapPhonesAreJudged`. The site is not edited any more when the sitemap is read, so
  what it shows then is logged or queued (`Mapped`), and in the end nothing is queued.
* `TheFirstClaimDecides`, `CataloguesAreWhole`. `ShopInv` describes the loop over the
  document by the items behind it: the identities seen are those claimed so far, and those
  handed over are distinct and exactly the ones whose first claim was acceptable. The four
  shops claim and skip in four orders; `EveryShopReads` shows, shop by shop, that each
  amounts to this rule. The floor then compares a sequence without repetitions with the
  identities of the document, by the cardinality of an injective image.
* `EveryStepIsProgress` is the safety half of `CrawlEnds`: a step is an edit of the site or
  ends a leg of the crawl, settles a slug or an item, or takes one more try of the request at
  hand (`Progress`, compared leg by leg, then slug by slug, then try by try).

A safety half says that what happens goes only one way, down an order without infinite
descent when, as in the code, a page, a queue or a selection is finite; that it happens at
all needs fairness and stays with TLC, and so does the step from the order to the end of it.

Every invariant and every action property of the passing runs is a theorem. Only
model-checked are the liveness properties (`EligibleSettles`, `StartsEnd`,
`OlderIsUpgraded`, `CrawlEnds`), as fairness and ENABLED are beyond the prover, and what
the violation runs show.

## 5. Plan

1. Done: `Pipeline`, `Runner`, `RunnerProofs`; `Outbox`, `Delivery`,
   `DeliveryProofs`; `Qualification`, `QualificationProofs`; `Collection`,
   `CollectionProofs`; `Fetcher`, `Listings`, `Storefront`, `Crawl`, `CrawlProofs`;
   `Admission`, `AdmissionProofs`; `StoreTx`, `StoreTxProofs`; `Continuity`, `Backup`,
   `QcReview`, `Stores`, `StoresProofs`.
2. Left: `Catalogue`, what the runner promises, abstractly, and `Runner` shown to implement
   it, with TLC and then with the prover; composition of `Runner` and `Delivery` through
   the outbox, and of `Crawl` with `Runner`.
3. Proofs left: those of the abstractions above, for any products and runs.

## 6. Findings

Each is a violation run whose trace shows the code's behaviour against a comment.

1. `zero_bypass`: a first run that dies after its catalogue commit leaves products but
   no ok run. The next run that finds nothing is a baseline, finishes ok with 0, and the
   guard of `core/runner.py:12-16` never engages again.
2. `demotion_lost`: classification rows commit before and apart from the transaction
   that emits the demotion, on failed and blocked runs too (`core/pipeline.py:47-50`,
   `126-129`).
3. `test_race`: a test row can be posted by its own process and by a drain
   (`providers/discord/__init__.py:13-16`).
4. `collection_wedged`: an exception other than `StateCompatibilityError` while a
   dashboard worker opens its store or scope ends the thread with its sources still
   queued, and every later start is refused until the dashboard restarts
   (`local_collection.py:90`, `110`, `175`).

Also seen, without a run of its own: a specs page that is rendered in part passes as
complete with the fields that are left (`collectors/hmd.py:491-495`, `518-519`); that is
silent, but when the page is whole again each meaningful field it lacked is reported as
changed, with no old value (`core/diff.py:123`), although the product never changed. The
comment calls it "a genuine information gain, not suspicious" (`core/diff.py:100-101`) right
above the lines that take a lone missing field for "a parser/page hiccup". It is why
`OutageIsNotAChange` has to allow `field_changed` after a damaged page (`regained`; without
it run `crawl` fails at once), and no loss of whole pages does it.

Further: `identity_anomaly` repeats on any later content change
(`core/pipeline.py:202-214`); under a cutoff no later drain sends a test row left behind
(`providers/discord/__init__.py:325`); tests count in `delivery_health`
(`providers/discord/__init__.py:304`); a `Retry-After: nan` makes `drain()` raise
(`providers/discord/__init__.py:190-202`, against "Never raises" at 348); events of
dashboard-triggered production runs get no outbox row (documented in
`local_collection.py:26-32`); a crash while a fresh database is bootstrapped can leave
tables without version rows, which every later inspection calls UNKNOWN and refuses, and
two openers of a fresh database at once may both be refused the first time; a registry
line cut short makes every later `read_events` raise, and the next append joins it
(`core/continuity.py:111`, `142`); two processes that seed the registry at once write its
seeds twice, as the lock there is for threads (`core/continuity.py:89`); two backups
started with `--no-lock` share one `.partial` file
(`providers/sqlite/__init__.py:321-323`); `corrected_at` is taken before the archive's lock
and `previous_decided_at` is the first decision's time at every correction, so neither
orders the history (`providers/qc_store.py:236`, `254`); reviews are keyed by an event id
that restarts when the production database is replaced; the activation policy is read once
per drain, so a cutoff installed meanwhile holds nothing back until the next
(`providers/discord/__init__.py:388`); a collector without retries loses its whole run to
one transport exception on one product page (`collectors/punkt.py:91`); the shop API is
asked for one page of 100 items (`collectors/sunbeam.py:59`).

## 7. Not modelled

Reports, dashboard HTML and the runtime bridge (read-only queries), static configuration
(`core/scope.py`, `core/registry.py`, `paths.py`: no state that changes), packaging and
launchers, and the patterns by which the collectors extract text from a page: what a page
shows is an input of `Listings` and `Storefront`. `verify_hashes` only reads. The review
archive's own admission follows the store's pattern with one version and is left out.
