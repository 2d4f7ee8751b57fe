------------------------------- MODULE StoreTx -------------------------------
(***************************************************************************)
(* SqliteStore.transaction() and the blocks core/pipeline.py nests in it.  *)
(* A block is entered with the depth one higher; the writes of a           *)
(* connection pile up until the outermost block is left, which commits     *)
(* them, or until something raises, which rolls all of them back.          *)
(***************************************************************************)
EXTENDS Integers

CONSTANTS
  Writers,   \* connections that process runs
  Runs,
  Notified,  \* runs processed with a notifier
  NoRun,     \* no run
  Items      \* products a run sees or misses

ASSUME TxAssumption == Notified \subseteq Runs /\ NoRun \notin Runs /\ Items \in Nat

VARIABLES
  durable,  \* committed rows
  writer    \* each connection: its depth, its uncommitted rows, its place

txVars == <<durable, writer>>

-----------------------------------------------------------------------------
Kinds == {"product", "sighting", "missed", "event", "outbox", "receipt"}

\* The row a run writes of a kind for its i-th product (0: of the run).
Row(r, kind, i) == [run |-> r, kind |-> kind, item |-> i]

Rows == [run : Runs, kind : Kinds, item : 0..Items]

Outside == [at |-> "outside", depth |-> 0, run |-> NoRun, item |-> 0, pending |-> {}]

TxInit ==
  /\ durable = {}
  /\ writer = [w \in Writers |-> Outside]

Receipt(r) == Row(r, "receipt", 0)

\* The connection goes on with its run.
Goes(w, at, depth, item, pending) ==
  writer' = [writer EXCEPT ![w] = [at |-> at, depth |-> depth, run |-> writer[w].run,
                                   item |-> item, pending |-> pending]]

\* transaction(): depth + 1, at a place of the block's body.
Enter(w, at) == Goes(w, at, writer[w].depth + 1, writer[w].item, writer[w].pending)

\* A row is inserted; a statement of its own commits only outside any block
\* (_maybe_commit).  SQLite lets one connection write at a time.
MutantInsert(w, row, at) ==    \* notification_put commits whatever the depth
  /\ \A v \in Writers \ {w} : writer[v].pending = {}
  /\ IF writer[w].depth = 0 \/ row.kind = "outbox"
     THEN /\ durable' = durable \cup writer[w].pending \cup {row}
          /\ Goes(w, at, writer[w].depth, writer[w].item, {})
     ELSE /\ Goes(w, at, writer[w].depth, writer[w].item, writer[w].pending \cup {row})
          /\ UNCHANGED durable

Insert(w, row, at) ==
  /\ \A v \in Writers \ {w} : writer[v].pending = {}
  /\ IF writer[w].depth = 0
     THEN /\ durable' = durable \cup writer[w].pending \cup {row}
          /\ Goes(w, at, writer[w].depth, writer[w].item, {})
     ELSE /\ Goes(w, at, writer[w].depth, writer[w].item, writer[w].pending \cup {row})
          /\ UNCHANGED durable

\* The end of a block: the outermost one commits.
Leave(w, at) ==
  IF writer[w].depth = 1
  THEN /\ durable' = durable \cup writer[w].pending
       /\ writer' = [writer EXCEPT ![w] = Outside]
  ELSE /\ Goes(w, at, writer[w].depth - 1, writer[w].item, writer[w].pending)
       /\ UNCHANGED durable

-----------------------------------------------------------------------------
\* process_run of run r, which is this connection's own; its first
\* statement looks for the receipt.
MutantProcessRun(w, r) ==    \* a run's receipt is not looked for
  /\ writer[w] = Outside /\ \A v \in Writers : writer[v].run # r
  /\ writer' = [writer EXCEPT ![w] =
       [at |-> "next", depth |-> 1, run |-> r, item |-> 1, pending |-> {}]]
  /\ UNCHANGED durable

ProcessRun(w, r) ==
  /\ writer[w] = Outside /\ \A v \in Writers : writer[v].run # r
  /\ writer' = [writer EXCEPT ![w] =
       [at |-> IF Receipt(r) \in durable THEN "processed" ELSE "next",
        depth |-> 1, run |-> r, item |-> 1, pending |-> {}]]
  /\ UNCHANGED durable

MutantRecordProduct(w) ==    \* one product too many
  /\ writer[w].at = "next" /\ writer[w].item <= Items + 1
  /\ Insert(w, Row(writer[w].run, "product", writer[w].item), "known")

\* A discovery: the product's row is created or touched, in the run's block.
RecordProduct(w) ==
  /\ writer[w].at = "next" /\ writer[w].item <= Items
  /\ Insert(w, Row(writer[w].run, "product", writer[w].item), "known")

\* record_observation_get_id has a block of its own.
EnterSighting(w) ==
  /\ writer[w].at = "known"
  /\ Enter(w, "sighting")
  /\ UNCHANGED durable

RecordSighting(w) ==
  /\ writer[w].at = "sighting"
  /\ Insert(w, Row(writer[w].run, "sighting", writer[w].item), "sighted")

\* Whether an event is owed is module Runner's business.
LeaveSighting(w) ==
  /\ writer[w].at = "sighted"
  /\ Leave(w, "owing") \/ Leave(w, "done")

\* A product the run missed: its absences, or its removal.
Miss(w) ==
  /\ writer[w].at = "next" /\ writer[w].item <= Items
  /\ \E next \in {"owing", "done"} :
       Insert(w, Row(writer[w].run, "missed", writer[w].item), next)

\* _record_and_notify; an event that is there already ends its block.
EnterNotify(w) ==
  /\ writer[w].at = "owing"
  /\ Enter(w, "event")
  /\ UNCHANGED durable

RecordEvent(w) ==
  /\ writer[w].at = "event"
  /\ LET next == IF writer[w].run \in Notified THEN "notify" ELSE "noted" IN
     Insert(w, Row(writer[w].run, "event", writer[w].item), next)

EventKnown(w) ==
  /\ writer[w].at = "event"
  /\ Goes(w, "noted", writer[w].depth, writer[w].item, writer[w].pending)
  /\ UNCHANGED durable

Notify(w) ==
  /\ writer[w].at = "notify"
  /\ Insert(w, Row(writer[w].run, "outbox", writer[w].item), "noted")

LeaveNotify(w) ==
  /\ writer[w].at = "noted"
  /\ Leave(w, "done")

NextProduct(w) ==
  /\ writer[w].at = "done"
  /\ Goes(w, "next", writer[w].depth, writer[w].item + 1, writer[w].pending)
  /\ UNCHANGED durable

RecordProcessedRun(w) ==
  /\ writer[w].at = "next" /\ writer[w].item > Items
  /\ Insert(w, Receipt(writer[w].run), "processed")

\* The outermost block ends, after the receipt or because there was one.
EndRun(w) ==
  /\ writer[w].at = "processed"
  /\ Leave(w, "outside")

\* Any statement may raise: every block is left, the outermost rolls back.
\* A process that dies leaves the same rows.
Abandon(w) ==
  /\ writer[w].depth > 0
  /\ writer' = [writer EXCEPT ![w] = Outside]
  /\ UNCHANGED durable

TxNext ==
  \E w \in Writers :
    \/ \E r \in Runs : ProcessRun(w, r)
    \/ RecordProduct(w) \/ EnterSighting(w) \/ RecordSighting(w) \/ LeaveSighting(w)
    \/ Miss(w) \/ NextProduct(w)
    \/ EnterNotify(w) \/ RecordEvent(w) \/ EventKnown(w) \/ Notify(w) \/ LeaveNotify(w)
    \/ RecordProcessedRun(w) \/ EndRun(w) \/ Abandon(w)

TxSpec == TxInit /\ [][TxNext]_txVars

-----------------------------------------------------------------------------
(* Rows and connections keep their shape, and a depth counts the blocks.   *)
TxTypeOK ==
  /\ durable \subseteq Rows
  /\ writer \in [Writers ->
       [at : {"outside", "next", "known", "sighting", "sighted", "owing", "event", "notify",
              "noted", "done", "processed"},
        depth : 0..2, run : Runs \cup {NoRun}, item : 0..(Items + 1), pending : SUBSET Rows]]

\* All that a run owes the database is there: its receipt, every product
\* sighted or missed, and no event without its outbox row.
Whole(rows, r) ==
  /\ Receipt(r) \in rows
  /\ \A i \in 1..Items :
       /\ Row(r, "product", i) \in rows <=> Row(r, "sighting", i) \in rows
       /\ Row(r, "product", i) \in rows \/ Row(r, "missed", i) \in rows
       /\ Row(r, "outbox", i) \in rows => Row(r, "event", i) \in rows
       /\ r \in Notified /\ Row(r, "event", i) \in rows => Row(r, "outbox", i) \in rows

(* sqlite/__init__.py:273: current state, its sighting, events, outbox and *)
(* receipt commit atomically: a run with any committed row is whole,       *)
(* whatever raises at whatever depth.                                      *)
BlocksAreWhole == \A x \in durable : Whole(durable, x.run)

(* pipeline.py:126: exact replay of a processed run is a no-op, later runs *)
(* or not: its rows are never added to.                                    *)
ReplayIsNoOp ==
  [][\A r \in Runs : Receipt(r) \in durable =>
       {x \in durable' : x.run = r} = {x \in durable : x.run = r}]_txVars
=============================================================================
