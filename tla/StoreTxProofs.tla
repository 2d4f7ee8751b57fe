----------------------------- MODULE StoreTxProofs -----------------------------
(***************************************************************************)
(* Whatever raises at whatever depth, a run's block is committed whole, for *)
(* any number of connections, runs and products.                           *)
(***************************************************************************)
EXTENDS StoreTx, TLAPS

Places == [at : {"outside", "next", "known", "sighting", "sighted", "owing", "event", "notify",
                 "noted", "done", "processed"},
           depth : 0..2, run : Runs \cup {NoRun}, item : 0..(Items + 1), pending : SUBSET Rows]

Inner == {"sighting", "sighted", "event", "notify", "noted"}
Outer == {"next", "known", "owing", "done", "processed"}

Has(m, kind, i) == Row(m.run, kind, i) \in m.pending

\* Product i is sighted or missed.
Seen(m, i) ==
  /\ Has(m, "product", i) <=> Has(m, "sighting", i)
  /\ Has(m, "product", i) \/ Has(m, "missed", i)

Quiet(m, i) == ~Has(m, "event", i) /\ ~Has(m, "outbox", i)

\* Nothing is owed for product i any more.
Settled(m, i) ==
  /\ Seen(m, i)
  /\ Has(m, "outbox", i) => Has(m, "event", i)
  /\ m.run \in Notified /\ Has(m, "event", i) => Has(m, "outbox", i)

Blank(m, i) == \A kind \in Kinds : ~Has(m, kind, i)

\* What the uncommitted rows are at a connection's place.
Progress(m) ==
  /\ m.item \in 1..(Items + 1)
  /\ \A i \in 1..Items : i < m.item => Settled(m, i)
  /\ \A i \in 1..Items : i > m.item => Blank(m, i)
  /\ m.at = "next" => \A i \in 1..Items : i = m.item => Blank(m, i)
  /\ m.at \notin {"next", "processed"} => m.item \in 1..Items
  /\ m.at \in {"known", "sighting"} => Has(m, "product", m.item) /\ Quiet(m, m.item)
  /\ m.at \in {"sighted", "owing", "event"} => Seen(m, m.item) /\ Quiet(m, m.item)
  /\ m.at = "notify" => Seen(m, m.item) /\ Has(m, "event", m.item)
  /\ m.at \in {"noted", "done"} => Settled(m, m.item)
  /\ m.at = "processed" => m.item = Items + 1 /\ Has(m, "receipt", 0)

PlaceOK(m) ==
  /\ m \in Places
  /\ m.depth = 0 => m = Outside
  /\ m.depth > 0 => m.run \in Runs
  /\ m.depth = 1 <=> m.at \in Outer
  /\ m.depth = 2 <=> m.at \in Inner
  /\ \A x \in m.pending : x.run = m.run

\* A connection may find its run processed already; else its rows are the
\* only ones of the run.
WriterOK(m, rows) ==
  /\ PlaceOK(m)
  /\ m.depth > 0 /\ Receipt(m.run) \in rows => m.at = "processed" /\ m.pending = {}
  /\ m.depth > 0 /\ Receipt(m.run) \notin rows => Progress(m)

OwnRuns ==
  \A v, w \in Writers : v # w /\ writer[v].depth > 0 => writer[v].run # writer[w].run

TxInv ==
  /\ durable \subseteq Rows
  /\ writer \in [Writers -> Places]
  /\ BlocksAreWhole
  /\ \A w \in Writers : WriterOK(writer[w], durable)
  /\ OwnRuns

-----------------------------------------------------------------------------
(* A connection that moves on by itself, on the same run or on one nobody  *)
(* else is at, keeps the invariant (StoreTx: every step but a commit).     *)
LEMMA Moves ==
  ASSUME TxInv, NEW w \in Writers, NEW m,
         writer' = [writer EXCEPT ![w] = m], durable' = durable,
         WriterOK(m, durable),
         m.depth > 0 => \A v \in Writers \ {w} : writer[v].run # m.run
  PROVE  TxInv'
PROOF
  <1>1. m \in Places
    BY DEF WriterOK, PlaceOK
  <1>2. writer' \in [Writers -> Places]
    BY <1>1 DEF TxInv
  <1>3. \A v \in Writers : writer'[v] = IF v = w THEN m ELSE writer[v]
    BY DEF TxInv
  <1>4. \A v \in Writers : WriterOK(writer'[v], durable)
    BY <1>3 DEF TxInv
  <1>5. OwnRuns'
    <2> SUFFICES ASSUME NEW u \in Writers, NEW v \in Writers, u # v, writer'[u].depth > 0
                 PROVE  writer'[u].run # writer'[v].run
      BY DEF OwnRuns
    <2>1. CASE u = w
      BY <2>1, <1>3
    <2>2. CASE v = w /\ writer[u].depth > 0 /\ m.depth > 0
      BY <2>2, <1>3
    <2>3. CASE v = w /\ m.depth = 0
      <3>1. m.run = NoRun /\ writer'[u] = writer[u]
        BY <2>3, <1>3 DEF WriterOK, PlaceOK, Outside
      <3>2. writer[u].run \in Runs
        BY <3>1 DEF TxInv, WriterOK, PlaceOK
      <3>3. QED
        BY <2>3, <1>3, <3>1, <3>2, TxAssumption
    <2>4. CASE u # w /\ v # w
      BY <2>4, <1>3 DEF TxInv, OwnRuns
    <2>5. m.depth = 0 \/ m.depth > 0
      BY <1>1 DEF Places
    <2>6. QED
      BY <1>3, <2>1, <2>2, <2>3, <2>4, <2>5
  <1>6. BlocksAreWhole'
    BY DEF TxInv, BlocksAreWhole
  <1>7. QED
    BY <1>2, <1>4, <1>5, <1>6 DEF TxInv

\* What a connection can go on to inside its block.
Onward(m, at, depth, item, pending) ==
  [at |-> at, depth |-> depth, run |-> m.run, item |-> item, pending |-> pending]

(* An insertion inside a block adds to the uncommitted rows and to nothing *)
(* else (_maybe_commit).                                                   *)
LEMMA InsertInside ==
  ASSUME TxInv, NEW w \in Writers, NEW row, NEW at,
         writer[w].depth > 0, Insert(w, row, at)
  PROVE  /\ durable' = durable
         /\ Goes(w, at, writer[w].depth, writer[w].item, writer[w].pending \cup {row})
PROOF
  <1>1. writer[w] \in Places /\ writer[w].depth # 0
    BY DEF TxInv, Places
  <1>2. QED
    BY <1>1 DEF Insert

(* A connection that goes on within its block keeps the invariant when its *)
(* place and its rows fit.                                                 *)
LEMMA GoesOn ==
  ASSUME TxInv, NEW w \in Writers, NEW at, NEW depth, NEW item, NEW pending,
         Goes(w, at, depth, item, pending), durable' = durable,
         WriterOK(Onward(writer[w], at, depth, item, pending), durable),
         writer[w].depth > 0
  PROVE  TxInv'
PROOF
  <1> DEFINE m == Onward(writer[w], at, depth, item, pending)
  <1>1. writer' = [writer EXCEPT ![w] = m]
    BY DEF Goes, Onward
  <1>2. m.run = writer[w].run
    BY DEF Onward
  <1>3. \A v \in Writers \ {w} : writer[v].run # m.run
    BY <1>2 DEF TxInv, OwnRuns
  <1>4. WriterOK(m, durable)
    OBVIOUS
  <1> HIDE DEF m
  <1>5. QED
    BY <1>1, <1>3, <1>4, Moves

(* A connection inside its block whose run has no receipt yet.             *)
LEMMA Inside ==
  ASSUME TxInv, NEW w \in Writers, writer[w].at \notin {"outside", "processed"}
  PROVE  /\ PlaceOK(writer[w]) /\ writer[w].depth \in {1, 2}
         /\ writer[w].run \in Runs
         /\ Receipt(writer[w].run) \notin durable
         /\ Progress(writer[w])
PROOF
  <1>1. WriterOK(writer[w], durable)
    BY DEF TxInv
  <1>2. writer[w].depth \in {1, 2}
    BY <1>1 DEF WriterOK, PlaceOK, Outside, Places
  <1>3. QED
    BY <1>1, <1>2 DEF WriterOK, PlaceOK

(* After an insertion a row is there when it was before or is the new one. *)
LEMMA HasInserted ==
  ASSUME NEW m, NEW kind, NEW i, NEW at, NEW depth, NEW item, NEW k, NEW j
  PROVE  Has(Onward(m, at, depth, item, m.pending \cup {Row(m.run, kind, i)}), k, j)
         <=> Has(m, k, j) \/ (k = kind /\ j = i)
PROOF
  <1>1. Row(m.run, k, j) = Row(m.run, kind, i) <=> k = kind /\ j = i
    BY DEF Row
  <1>2. QED
    BY <1>1 DEF Has, Onward

(* Moving on without an insertion changes no row.                          *)
LEMMA HasKept ==
  ASSUME NEW m, NEW at, NEW depth, NEW item, NEW k, NEW j
  PROVE  Has(Onward(m, at, depth, item, m.pending), k, j) <=> Has(m, k, j)
BY DEF Has, Onward

(* An insertion at a place whose rows fit keeps the invariant.             *)
LEMMA Inserts ==
  ASSUME TxInv, NEW w \in Writers, NEW kind \in Kinds, NEW i \in 0..Items, NEW at,
         Insert(w, Row(writer[w].run, kind, i), at),
         writer[w].at \notin {"outside", "processed"},
         writer[w].depth = 1 <=> at \in Outer, writer[w].depth = 2 <=> at \in Inner,
         Progress(Onward(writer[w], at, writer[w].depth, writer[w].item,
                         writer[w].pending \cup {Row(writer[w].run, kind, i)}))
  PROVE  TxInv'
PROOF
  <1> DEFINE row == Row(writer[w].run, kind, i)
             m == Onward(writer[w], at, writer[w].depth, writer[w].item,
                         writer[w].pending \cup {row})
  <1>1. /\ PlaceOK(writer[w]) /\ writer[w].depth \in {1, 2} /\ writer[w].run \in Runs
        /\ Receipt(writer[w].run) \notin durable
    BY Inside
  <1>2. row \in Rows /\ row.run = writer[w].run
    BY <1>1 DEF Row, Rows
  <1>3. /\ m.at = at /\ m.depth = writer[w].depth /\ m.run = writer[w].run
        /\ m.item = writer[w].item /\ m.pending = writer[w].pending \cup {row}
    BY DEF Onward
  <1>4. at \in Outer \cup Inner
    BY <1>1
  <1>5. m \in Places
    <2>1. writer[w].item \in 0..(Items + 1) /\ writer[w].pending \subseteq Rows
      BY <1>1 DEF PlaceOK, Places
    <2>2. writer[w].pending \cup {row} \in SUBSET Rows
      BY <2>1, <1>2
    <2>3. QED
      BY <2>1, <2>2, <1>1, <1>4 DEF Onward, Places, Outer, Inner
  <1>6. \A x \in m.pending : x.run = m.run
    BY <1>1, <1>2, <1>3 DEF PlaceOK
  <1>7. Progress(m)
    OBVIOUS
  <1>8. /\ durable' = durable
        /\ Goes(w, at, writer[w].depth, writer[w].item, writer[w].pending \cup {row})
    <2>1. writer[w].depth > 0 /\ Insert(w, row, at)
      BY <1>1
    <2> HIDE DEF row
    <2>2. QED
      BY <2>1, InsertInside
  <1>9. PlaceOK(m)
    BY <1>1, <1>3, <1>5, <1>6 DEF PlaceOK
  <1>10. WriterOK(m, durable)
    BY <1>1, <1>3, <1>7, <1>9 DEF WriterOK
  <1>11. QED
    <2> HIDE DEF row
    <2>1. /\ writer[w].depth > 0
          /\ WriterOK(Onward(writer[w], at, writer[w].depth, writer[w].item,
                             writer[w].pending \cup {row}), durable)
      BY <1>1, <1>10
    <2>2. QED
      BY <1>8, <2>1, GoesOn

(* So does moving on without one.                                          *)
LEMMA Advances ==
  ASSUME TxInv, NEW w \in Writers, NEW at, NEW depth \in {1, 2}, NEW item,
         Goes(w, at, depth, item, writer[w].pending), durable' = durable,
         writer[w].at \notin {"outside", "processed"},
         depth = 1 <=> at \in Outer, depth = 2 <=> at \in Inner,
         Progress(Onward(writer[w], at, depth, item, writer[w].pending))
  PROVE  TxInv'
PROOF
  <1> DEFINE m == Onward(writer[w], at, depth, item, writer[w].pending)
  <1>1. /\ PlaceOK(writer[w]) /\ writer[w].depth \in {1, 2} /\ writer[w].run \in Runs
        /\ Receipt(writer[w].run) \notin durable
    BY Inside
  <1>2. /\ m.at = at /\ m.depth = depth /\ m.run = writer[w].run
        /\ m.item = item /\ m.pending = writer[w].pending
    BY DEF Onward
  <1>3. at \in Outer \cup Inner
    OBVIOUS
  <1>4. item \in 0..(Items + 1)
    BY <1>2, TxAssumption DEF Progress
  <1>5. m \in Places
    <2>1. writer[w].pending \in SUBSET Rows
      BY <1>1 DEF PlaceOK, Places
    <2>2. QED
      BY <2>1, <1>1, <1>3, <1>4 DEF Onward, Places, Outer, Inner
  <1>6. PlaceOK(m)
    BY <1>1, <1>2, <1>5 DEF PlaceOK
  <1>7. WriterOK(m, durable)
    BY <1>1, <1>2, <1>6 DEF WriterOK
  <1>8. QED
    BY <1>1, <1>7, GoesOn

-----------------------------------------------------------------------------
\* The products before the one at hand are settled, those after it blank.
Rest(m) ==
  /\ m.item \in 1..(Items + 1)
  /\ \A i \in 1..Items : i < m.item => Settled(m, i)
  /\ \A i \in 1..Items : i > m.item => Blank(m, i)

\* n is m with one more row of the product at hand, or with none more.
Gains(m, n, kinds) ==
  /\ n.item = m.item /\ n.run = m.run
  /\ \A k \in Kinds : Has(n, k, m.item) <=> Has(m, k, m.item) \/ k \in kinds

(* A step about one product leaves the rows of the others as they are.     *)
LEMMA Others ==
  ASSUME NEW m, NEW n, Progress(m), n.item = m.item, n.run = m.run,
         \A k \in Kinds, i \in 1..Items : i # m.item => (Has(n, k, i) <=> Has(m, k, i))
  PROVE  Rest(n)
PROOF
  <1>1. n.item \in 1..(Items + 1)
    BY DEF Progress
  <1>2. \A i \in 1..Items : i < n.item => Settled(n, i)
    <2> SUFFICES ASSUME NEW i \in 1..Items, i < n.item
                 PROVE  Settled(n, i)
      OBVIOUS
    <2>1. i # m.item /\ i < m.item
      BY <1>1, TxAssumption
    <2>2. \A k \in Kinds : Has(n, k, i) <=> Has(m, k, i)
      BY <2>1
    <2>3. Settled(m, i)
      BY <2>1 DEF Progress
    <2>4. QED
      BY <2>2, <2>3 DEF Settled, Seen, Kinds
  <1>3. \A i \in 1..Items : i > n.item => Blank(n, i)
    <2> SUFFICES ASSUME NEW i \in 1..Items, i > n.item
                 PROVE  Blank(n, i)
      OBVIOUS
    <2>1. i # m.item /\ i > m.item
      BY <1>1, TxAssumption
    <2>2. Blank(m, i)
      BY <2>1 DEF Progress
    <2>3. QED
      BY <2>1, <2>2 DEF Blank
  <1>4. QED
    BY <1>1, <1>2, <1>3 DEF Rest

(* An insertion about the product at hand adds its row and no other.       *)
LEMMA Grown ==
  ASSUME NEW m, NEW kind \in Kinds, NEW at, Progress(m), m.item \in 1..Items
  PROVE  LET n == Onward(m, at, m.depth, m.item, m.pending \cup {Row(m.run, kind, m.item)}) IN
         Rest(n) /\ Gains(m, n, {kind})
PROOF
  <1> DEFINE n == Onward(m, at, m.depth, m.item, m.pending \cup {Row(m.run, kind, m.item)})
  <1>1. n.item = m.item /\ n.run = m.run
    BY DEF Onward
  <1>2. \A k \in Kinds : Has(n, k, m.item) <=> Has(m, k, m.item) \/ k = kind
    BY DEF Has, Onward, Row
  <1>3. \A k \in Kinds, i \in 1..Items : i # m.item => (Has(n, k, i) <=> Has(m, k, i))
    BY HasInserted
  <1> HIDE DEF n
  <1>4. Rest(n)
    BY <1>1, <1>3, Others
  <1>5. Gains(m, n, {kind})
    BY <1>1, <1>2 DEF Gains
  <1>6. QED
    BY <1>4, <1>5 DEF n

(* Going on with the same product without one changes nothing.             *)
LEMMA Same ==
  ASSUME NEW m, NEW at, NEW depth, Progress(m)
  PROVE  LET n == Onward(m, at, depth, m.item, m.pending) IN
         Rest(n) /\ Gains(m, n, {})
PROOF
  <1> DEFINE n == Onward(m, at, depth, m.item, m.pending)
  <1>1. n.item = m.item /\ n.run = m.run
    BY DEF Onward
  <1>2. \A k, i : Has(n, k, i) <=> Has(m, k, i)
    BY HasKept
  <1> HIDE DEF n
  <1>3. Rest(n)
    BY <1>1, <1>2, Others
  <1>4. Gains(m, n, {})
    BY <1>1, <1>2 DEF Gains
  <1>5. QED
    BY <1>3, <1>4 DEF n

(* A discovery's product row.                                              *)
LEMMA ProductKeeps ==
  ASSUME TxInv, NEW w \in Writers, RecordProduct(w)
  PROVE  TxInv'
PROOF
  <1> DEFINE m == writer[w]
             n == Onward(m, "known", m.depth, m.item, m.pending \cup {Row(m.run, "product", m.item)})
  <1>1. m.at = "next"
    BY DEF RecordProduct
  <1>2. PlaceOK(m) /\ Progress(m)
    BY <1>1, Inside
  <1>3. m.item \in 1..Items
    BY <1>1, <1>2, TxAssumption DEF RecordProduct, Progress
  <1>4. "product" \in Kinds /\ m.item \in 0..Items
    BY <1>3, TxAssumption DEF Kinds
  <1>5. Rest(n) /\ Gains(m, n, {"product"})
    <2> HIDE DEF m
    <2>1. QED
      BY <1>2, <1>3, <1>4, Grown
  <1>6. n.at = "known"
    BY DEF Onward
  <1>7. Has(n, "product", m.item) /\ Quiet(n, m.item)
    <2> HIDE DEF n, m
    <2>1. QED
      BY <1>1, <1>2, <1>3, <1>5 DEF Gains, Kinds, Progress, Blank, Quiet
  <1>8. Progress(n)
    <2> HIDE DEF n, m
    <2>1. QED
      BY <1>3, <1>5, <1>6, <1>7 DEF Progress, Rest, Gains
  <1>9. m.at \notin {"outside", "processed"}
    BY <1>1
  <1>10. Insert(w, Row(m.run, "product", m.item), "known")
    BY DEF RecordProduct
  <1>11. m.depth = 1 <=> "known" \in Outer
    BY <1>1, <1>2 DEF PlaceOK, Outer, Inner
  <1>12. m.depth = 2 <=> "known" \in Inner
    BY <1>1, <1>2 DEF PlaceOK, Outer, Inner
  <1>13. QED
    BY <1>4, <1>8, <1>9, <1>10, <1>11, <1>12, Inserts

(* The sighting's own block is entered.                                    *)
LEMMA EnterSightingKeeps ==
  ASSUME TxInv, NEW w \in Writers, EnterSighting(w)
  PROVE  TxInv'
PROOF
  <1> DEFINE m == writer[w]
             n == Onward(m, "sighting", 2, m.item, m.pending)
  <1>1. m.at = "known"
    BY DEF EnterSighting
  <1>2. PlaceOK(m) /\ Progress(m)
    BY <1>1, Inside
  <1>3. m.item \in 1..Items
    BY <1>1, <1>2 DEF Progress
  <1>5. Rest(n) /\ Gains(m, n, {})
    <2> HIDE DEF m
    <2>1. QED
      BY <1>2, Same
  <1>6. n.at = "sighting"
    BY DEF Onward
  <1>7. Has(n, "product", m.item) /\ Quiet(n, m.item)
    <2> HIDE DEF n, m
    <2>1. QED
      BY <1>1, <1>2, <1>3, <1>5 DEF Gains, Kinds, Progress, Quiet
  <1>8. Progress(n)
    <2> HIDE DEF n, m
    <2>1. QED
      BY <1>3, <1>5, <1>6, <1>7 DEF Progress, Rest, Gains
  <1>9. m.at \notin {"outside", "processed"}
    BY <1>1
  <1>10. Goes(w, "sighting", 2, m.item, m.pending) /\ durable' = durable
    <2>1. m.depth = 1
      BY <1>1, <1>2 DEF PlaceOK, Outer, Inner
    <2>2. QED
      BY <2>1 DEF EnterSighting, Enter
  <1>11. 2 \in {1, 2} /\ (2 = 1 <=> "sighting" \in Outer) /\ (2 = 2 <=> "sighting" \in Inner)
    BY DEF Outer, Inner
  <1>12. QED
    BY <1>8, <1>9, <1>10, <1>11, Advances

(* The sighting.                                                           *)
LEMMA SightingKeeps ==
  ASSUME TxInv, NEW w \in Writers, RecordSighting(w)
  PROVE  TxInv'
PROOF
  <1> DEFINE m == writer[w]
             n == Onward(m, "sighted", m.depth, m.item, m.pending \cup {Row(m.run, "sighting", m.item)})
  <1>1. m.at = "sighting"
    BY DEF RecordSighting
  <1>2. PlaceOK(m) /\ Progress(m)
    BY <1>1, Inside
  <1>3. m.item \in 1..Items
    BY <1>1, <1>2 DEF Progress
  <1>4. "sighting" \in Kinds /\ m.item \in 0..Items
    BY <1>3, TxAssumption DEF Kinds
  <1>5. Rest(n) /\ Gains(m, n, {"sighting"})
    <2> HIDE DEF m
    <2>1. QED
      BY <1>2, <1>3, <1>4, Grown
  <1>6. n.at = "sighted"
    BY DEF Onward
  <1>7. Seen(n, m.item) /\ Quiet(n, m.item)
    <2> HIDE DEF n, m
    <2>1. QED
      BY <1>1, <1>2, <1>3, <1>5 DEF Gains, Kinds, Progress, Quiet, Seen
  <1>8. Progress(n)
    <2> HIDE DEF n, m
    <2>1. QED
      BY <1>3, <1>5, <1>6, <1>7 DEF Progress, Rest, Gains
  <1>9. m.at \notin {"outside", "processed"}
    BY <1>1
  <1>10. Insert(w, Row(m.run, "sighting", m.item), "sighted")
    BY DEF RecordSighting
  <1>11. m.depth = 1 <=> "sighted" \in Outer
    BY <1>1, <1>2 DEF PlaceOK, Outer, Inner
  <1>12. m.depth = 2 <=> "sighted" \in Inner
    BY <1>1, <1>2 DEF PlaceOK, Outer, Inner
  <1>13. QED
    BY <1>4, <1>8, <1>9, <1>10, <1>11, <1>12, Inserts

(* The event's own block is entered.                                       *)
LEMMA EnterNotifyKeeps ==
  ASSUME TxInv, NEW w \in Writers, EnterNotify(w)
  PROVE  TxInv'
PROOF
  <1> DEFINE m == writer[w]
             n == Onward(m, "event", 2, m.item, m.pending)
  <1>1. m.at = "owing"
    BY DEF EnterNotify
  <1>2. PlaceOK(m) /\ Progress(m)
    BY <1>1, Inside
  <1>3. m.item \in 1..Items
    BY <1>1, <1>2 DEF Progress
  <1>5. Rest(n) /\ Gains(m, n, {})
    <2> HIDE DEF m
    <2>1. QED
      BY <1>2, Same
  <1>6. n.at = "event"
    BY DEF Onward
  <1>7. Seen(n, m.item) /\ Quiet(n, m.item)
    <2> HIDE DEF n, m
    <2>1. QED
      BY <1>1, <1>2, <1>3, <1>5 DEF Gains, Kinds, Progress, Quiet, Seen
  <1>8. Progress(n)
    <2> HIDE DEF n, m
    <2>1. QED
      BY <1>3, <1>5, <1>6, <1>7 DEF Progress, Rest, Gains
  <1>9. m.at \notin {"outside", "processed"}
    BY <1>1
  <1>10. Goes(w, "event", 2, m.item, m.pending) /\ durable' = durable
    <2>1. m.depth = 1
      BY <1>1, <1>2 DEF PlaceOK, Outer, Inner
    <2>2. QED
      BY <2>1 DEF EnterNotify, Enter
  <1>11. 2 \in {1, 2} /\ (2 = 1 <=> "event" \in Outer) /\ (2 = 2 <=> "event" \in Inner)
    BY DEF Outer, Inner
  <1>12. QED
    BY <1>8, <1>9, <1>10, <1>11, Advances

(* The outbox row.                                                         *)
LEMMA NotifyKeeps ==
  ASSUME TxInv, NEW w \in Writers, Notify(w)
  PROVE  TxInv'
PROOF
  <1> DEFINE m == writer[w]
             n == Onward(m, "noted", m.depth, m.item, m.pending \cup {Row(m.run, "outbox", m.item)})
  <1>1. m.at = "notify"
    BY DEF Notify
  <1>2. PlaceOK(m) /\ Progress(m)
    BY <1>1, Inside
  <1>3. m.item \in 1..Items
    BY <1>1, <1>2 DEF Progress
  <1>4. "outbox" \in Kinds /\ m.item \in 0..Items
    BY <1>3, TxAssumption DEF Kinds
  <1>5. Rest(n) /\ Gains(m, n, {"outbox"})
    <2> HIDE DEF m
    <2>1. QED
      BY <1>2, <1>3, <1>4, Grown
  <1>6. n.at = "noted"
    BY DEF Onward
  <1>7. Settled(n, m.item)
    <2> HIDE DEF n, m
    <2>1. QED
      BY <1>1, <1>2, <1>3, <1>5 DEF Gains, Kinds, Progress, Settled, Seen
  <1>8. Progress(n)
    <2> HIDE DEF n, m
    <2>1. QED
      BY <1>3, <1>5, <1>6, <1>7 DEF Progress, Rest, Gains
  <1>9. m.at \notin {"outside", "processed"}
    BY <1>1
  <1>10. Insert(w, Row(m.run, "outbox", m.item), "noted")
    BY DEF Notify
  <1>11. m.depth = 1 <=> "noted" \in Outer
    BY <1>1, <1>2 DEF PlaceOK, Outer, Inner
  <1>12. m.depth = 2 <=> "noted" \in Inner
    BY <1>1, <1>2 DEF PlaceOK, Outer, Inner
  <1>13. QED
    BY <1>4, <1>8, <1>9, <1>10, <1>11, <1>12, Inserts

(* The event's block is left.                                              *)
LEMMA LeaveNotifyKeeps ==
  ASSUME TxInv, NEW w \in Writers, LeaveNotify(w)
  PROVE  TxInv'
PROOF
  <1> DEFINE m == writer[w]
             n == Onward(m, "done", 1, m.item, m.pending)
  <1>1. m.at = "noted"
    BY DEF LeaveNotify
  <1>2. PlaceOK(m) /\ Progress(m)
    BY <1>1, Inside
  <1>3. m.item \in 1..Items
    BY <1>1, <1>2 DEF Progress
  <1>5. Rest(n) /\ Gains(m, n, {})
    <2> HIDE DEF m
    <2>1. QED
      BY <1>2, Same
  <1>6. n.at = "done"
    BY DEF Onward
  <1>7. Settled(n, m.item)
    <2> HIDE DEF n, m
    <2>1. QED
      BY <1>1, <1>2, <1>3, <1>5 DEF Gains, Kinds, Progress, Settled, Seen
  <1>8. Progress(n)
    <2> HIDE DEF n, m
    <2>1. QED
      BY <1>3, <1>5, <1>6, <1>7 DEF Progress, Rest, Gains
  <1>9. m.at \notin {"outside", "processed"}
    BY <1>1
  <1>10. Goes(w, "done", 1, m.item, m.pending) /\ durable' = durable
    <2>1. m.depth = 2
      BY <1>1, <1>2 DEF PlaceOK, Outer, Inner
    <2>2. QED
      BY <2>1 DEF LeaveNotify, Leave
  <1>11. 1 \in {1, 2} /\ (1 = 1 <=> "done" \in Outer) /\ (1 = 2 <=> "done" \in Inner)
    BY DEF Outer, Inner
  <1>12. QED
    BY <1>8, <1>9, <1>10, <1>11, Advances

(* An event that is there already.                                         *)
LEMMA EventKnownKeeps ==
  ASSUME TxInv, NEW w \in Writers, EventKnown(w)
  PROVE  TxInv'
PROOF
  <1> DEFINE m == writer[w]
             n == Onward(m, "noted", 2, m.item, m.pending)
  <1>1. m.at = "event"
    BY DEF EventKnown
  <1>2. PlaceOK(m) /\ Progress(m)
    BY <1>1, Inside
  <1>3. m.item \in 1..Items
    BY <1>1, <1>2 DEF Progress
  <1>5. Rest(n) /\ Gains(m, n, {})
    <2> HIDE DEF m
    <2>1. QED
      BY <1>2, Same
  <1>6. n.at = "noted"
    BY DEF Onward
  <1>7. Settled(n, m.item)
    <2> HIDE DEF n, m
    <2>1. QED
      BY <1>1, <1>2, <1>3, <1>5 DEF Gains, Kinds, Progress, Settled, Seen, Quiet
  <1>8. Progress(n)
    <2> HIDE DEF n, m
    <2>1. QED
      BY <1>3, <1>5, <1>6, <1>7 DEF Progress, Rest, Gains
  <1>9. m.at \notin {"outside", "processed"}
    BY <1>1
  <1>10. Goes(w, "noted", 2, m.item, m.pending) /\ durable' = durable
    <2>1. m.depth = 2
      BY <1>1, <1>2 DEF PlaceOK, Outer, Inner
    <2>2. QED
      BY <2>1 DEF EventKnown
  <1>11. 2 \in {1, 2} /\ (2 = 1 <=> "noted" \in Outer) /\ (2 = 2 <=> "noted" \in Inner)
    BY DEF Outer, Inner
  <1>12. QED
    BY <1>8, <1>9, <1>10, <1>11, Advances

(* A sighting's block is left, with or without an event owed.              *)
LEMMA LeaveSightingKeeps ==
  ASSUME TxInv, NEW w \in Writers, LeaveSighting(w)
  PROVE  TxInv'
PROOF
  <1>1. PICK next \in {"owing", "done"} : Leave(w, next)
    BY DEF LeaveSighting
  <1> DEFINE m == writer[w]
             n == Onward(m, next, 1, m.item, m.pending)
  <1>2. m.at = "sighted"
    BY DEF LeaveSighting
  <1>3. PlaceOK(m) /\ Progress(m)
    BY <1>2, Inside
  <1>4. m.item \in 1..Items
    BY <1>2, <1>3 DEF Progress
  <1>5. Rest(n) /\ Gains(m, n, {})
    <2> HIDE DEF m
    <2>1. QED
      BY <1>3, Same
  <1>6. n.at = next
    BY DEF Onward
  <1>7. Seen(n, m.item) /\ Quiet(n, m.item)
    <2> HIDE DEF n, m
    <2>1. QED
      BY <1>2, <1>3, <1>5 DEF Gains, Kinds, Progress, Quiet, Seen
  <1>8. Progress(n)
    <2> HIDE DEF n, m
    <2>1. QED
      BY <1>1, <1>4, <1>5, <1>6, <1>7 DEF Progress, Rest, Gains, Settled, Quiet
  <1>9. m.at \notin {"outside", "processed"}
    BY <1>2
  <1>10. Goes(w, next, 1, m.item, m.pending) /\ durable' = durable
    <2>1. m.depth = 2
      BY <1>2, <1>3 DEF PlaceOK, Inner
    <2>2. QED
      BY <1>1, <2>1 DEF Leave
  <1>11. (1 = 1 <=> next \in Outer) /\ (1 = 2 <=> next \in Inner)
    BY <1>1 DEF Outer, Inner
  <1>12. QED
    BY <1>8, <1>9, <1>10, <1>11, Advances

(* A product missed, with or without an event owed.                        *)
LEMMA MissKeeps ==
  ASSUME TxInv, NEW w \in Writers, Miss(w)
  PROVE  TxInv'
PROOF
  <1>1. PICK next \in {"owing", "done"} : Insert(w, Row(writer[w].run, "missed", writer[w].item), next)
    BY DEF Miss
  <1> DEFINE m == writer[w]
             n == Onward(m, next, m.depth, m.item, m.pending \cup {Row(m.run, "missed", m.item)})
  <1>2. m.at = "next"
    BY DEF Miss
  <1>3. PlaceOK(m) /\ Progress(m)
    BY <1>2, Inside
  <1>4. m.item \in 1..Items
    BY <1>2, <1>3, TxAssumption DEF Miss, Progress
  <1>5. "missed" \in Kinds /\ m.item \in 0..Items
    BY <1>4, TxAssumption DEF Kinds
  <1>6. Rest(n) /\ Gains(m, n, {"missed"})
    <2> HIDE DEF m
    <2>1. QED
      BY <1>3, <1>4, <1>5, Grown
  <1>7. n.at = next
    BY DEF Onward
  <1>8. Seen(n, m.item) /\ Quiet(n, m.item)
    <2> HIDE DEF n, m
    <2>1. QED
      BY <1>2, <1>3, <1>4, <1>6 DEF Gains, Kinds, Progress, Blank, Quiet, Seen
  <1>9. Progress(n)
    <2> HIDE DEF n, m
    <2>1. QED
      BY <1>1, <1>4, <1>6, <1>7, <1>8 DEF Progress, Rest, Gains, Settled, Quiet
  <1>10. m.at \notin {"outside", "processed"}
    BY <1>2
  <1>11. m.depth = 1 <=> next \in Outer
    BY <1>1, <1>2, <1>3 DEF PlaceOK, Outer, Inner
  <1>12. m.depth = 2 <=> next \in Inner
    BY <1>1, <1>2, <1>3 DEF PlaceOK, Outer, Inner
  <1>13. QED
    BY <1>1, <1>5, <1>9, <1>10, <1>11, <1>12, Inserts

(* The event, with an outbox row to follow when the run has a notifier.    *)
LEMMA EventKeeps ==
  ASSUME TxInv, NEW w \in Writers, RecordEvent(w)
  PROVE  TxInv'
PROOF
  <1> DEFINE m == writer[w]
             next == IF m.run \in Notified THEN "notify" ELSE "noted"
             n == Onward(m, next, m.depth, m.item, m.pending \cup {Row(m.run, "event", m.item)})
  <1>1. m.at = "event" /\ Insert(w, Row(m.run, "event", m.item), next)
    BY DEF RecordEvent
  <1>2. next \in {"notify", "noted"} /\ (next = "noted" => m.run \notin Notified)
    OBVIOUS
  <1> HIDE DEF next
  <1>3. PlaceOK(m) /\ Progress(m)
    BY <1>1, Inside
  <1>4. m.item \in 1..Items
    BY <1>1, <1>3 DEF Progress
  <1>5. "event" \in Kinds /\ m.item \in 0..Items
    BY <1>4, TxAssumption DEF Kinds
  <1>6. Rest(n) /\ Gains(m, n, {"event"})
    <2> HIDE DEF m
    <2>1. QED
      BY <1>3, <1>4, <1>5, Grown
  <1>7. n.at = next
    BY DEF Onward
  <1>8. Seen(n, m.item) /\ Has(n, "event", m.item) /\ (next = "noted" => Settled(n, m.item))
    <2> HIDE DEF n, m
    <2>1. QED
      BY <1>1, <1>2, <1>3, <1>6 DEF Gains, Kinds, Progress, Quiet, Seen, Settled
  <1>9. Progress(n)
    <2> HIDE DEF n, m
    <2>1. QED
      BY <1>2, <1>4, <1>6, <1>7, <1>8 DEF Progress, Rest, Gains
  <1>10. m.at \notin {"outside", "processed"}
    BY <1>1
  <1>11. m.depth = 1 <=> next \in Outer
    BY <1>1, <1>2, <1>3 DEF PlaceOK, Outer, Inner
  <1>12. m.depth = 2 <=> next \in Inner
    BY <1>1, <1>2, <1>3 DEF PlaceOK, Outer, Inner
  <1>13. Insert(w, Row(m.run, "event", m.item), next)
    BY <1>1
  <1>14. QED
    BY <1>5, <1>9, <1>10, <1>11, <1>12, <1>13, Inserts

(* On to the next product.                                                 *)
LEMMA NextProductKeeps ==
  ASSUME TxInv, NEW w \in Writers, NextProduct(w)
  PROVE  TxInv'
PROOF
  <1> DEFINE m == writer[w]
             n == Onward(m, "next", 1, m.item + 1, m.pending)
  <1>1. m.at = "done"
    BY DEF NextProduct
  <1>2. PlaceOK(m) /\ Progress(m)
    BY <1>1, Inside
  <1>3. m.item \in 1..Items /\ Settled(m, m.item)
    BY <1>1, <1>2 DEF Progress
  <1>4. n.at = "next" /\ n.item = m.item + 1 /\ n.run = m.run
    BY DEF Onward
  <1>5. \A k, i : Has(n, k, i) <=> Has(m, k, i)
    BY HasKept
  <1>6. Progress(n)
    <2> HIDE DEF n, m
    <2>1. n.item \in 1..(Items + 1)
      BY <1>3, <1>4, TxAssumption
    <2>2. \A i \in 1..Items : i < n.item => Settled(n, i)
      <3> SUFFICES ASSUME NEW i \in 1..Items, i < n.item
                   PROVE  Settled(n, i)
        OBVIOUS
      <3>1. i < m.item \/ i = m.item
        BY <1>3, <1>4, TxAssumption
      <3>2. Settled(m, i)
        BY <1>2, <1>3, <3>1 DEF Progress
      <3>3. QED
        BY <1>4, <1>5, <3>2 DEF Settled, Seen
    <2>3. \A i \in 1..Items : i > m.item => Blank(n, i)
      BY <1>2, <1>5 DEF Progress, Blank
    <2>4. \A i \in 1..Items : i >= n.item => i > m.item
      BY <1>3, <1>4, TxAssumption
    <2>5. \A i \in 1..Items : i >= n.item => Blank(n, i)
      BY <2>3, <2>4
    <2>6. \A i \in 1..Items : i > n.item \/ i = n.item => i >= n.item
      BY <2>1, TxAssumption
    <2>7. QED
      BY <1>4, <2>1, <2>2, <2>5, <2>6 DEF Progress
  <1>7. m.at \notin {"outside", "processed"}
    BY <1>1
  <1>8. Goes(w, "next", 1, m.item + 1, m.pending) /\ durable' = durable
    <2>1. m.depth = 1
      BY <1>1, <1>2 DEF PlaceOK, Outer
    <2>2. QED
      BY <2>1 DEF NextProduct
  <1>9. (1 = 1 <=> "next" \in Outer) /\ (1 = 2 <=> "next" \in Inner)
    BY DEF Outer, Inner
  <1>10. QED
    BY <1>6, <1>7, <1>8, <1>9, Advances

(* The receipt, after the last product.                                    *)
LEMMA ReceiptKeeps ==
  ASSUME TxInv, NEW w \in Writers, RecordProcessedRun(w)
  PROVE  TxInv'
PROOF
  <1> DEFINE m == writer[w]
             n == Onward(m, "processed", m.depth, m.item, m.pending \cup {Row(m.run, "receipt", 0)})
  <1>1. m.at = "next" /\ Insert(w, Row(m.run, "receipt", 0), "processed")
    BY DEF RecordProcessedRun, Receipt
  <1>2. PlaceOK(m) /\ Progress(m)
    BY <1>1, Inside
  <1>3. m.item = Items + 1
    BY <1>2, TxAssumption DEF RecordProcessedRun, Progress
  <1>4. n.at = "processed" /\ n.item = m.item /\ n.run = m.run
    BY DEF Onward
  <1>5. \A k \in Kinds, i \in 1..Items : Has(n, k, i) <=> Has(m, k, i)
    BY DEF Has, Onward, Row
  <1>6. Has(n, "receipt", 0)
    BY DEF Has, Onward
  <1>7. Progress(n)
    <2> HIDE DEF n, m
    <2>1. Rest(n)
      BY <1>2, <1>4, <1>5, Others
    <2>2. QED
      BY <1>3, <1>4, <1>6, <2>1 DEF Progress, Rest
  <1>8. "receipt" \in Kinds /\ 0 \in 0..Items
    BY TxAssumption DEF Kinds
  <1>9. m.at \notin {"outside", "processed"}
    BY <1>1
  <1>10. m.depth = 1 <=> "processed" \in Outer
    BY <1>1, <1>2 DEF PlaceOK, Outer, Inner
  <1>11. m.depth = 2 <=> "processed" \in Inner
    BY <1>1, <1>2 DEF PlaceOK, Outer, Inner
  <1>12. Insert(w, Row(m.run, "receipt", 0), "processed")
    BY <1>1
  <1>13. QED
    BY <1>7, <1>8, <1>9, <1>10, <1>11, <1>12, Inserts

(* A connection outside any block is in order.                             *)
LEMMA OutsideOK ==
  ASSUME NEW rows
  PROVE  WriterOK(Outside, rows)
PROOF
  <1>1. Outside.at = "outside" /\ Outside.depth = 0 /\ Outside.pending = {}
    BY DEF Outside
  <1>2. Outside \in Places
    BY TxAssumption DEF Outside, Places
  <1>3. PlaceOK(Outside)
    BY <1>1, <1>2 DEF PlaceOK, Outer, Inner
  <1>4. QED
    BY <1>1, <1>3 DEF WriterOK

(* Whatever raises takes its run's rows with it.                           *)
LEMMA AbandonKeeps ==
  ASSUME TxInv, NEW w \in Writers, Abandon(w)
  PROVE  TxInv'
PROOF
  <1>1. writer' = [writer EXCEPT ![w] = Outside] /\ durable' = durable
    BY DEF Abandon
  <1>2. WriterOK(Outside, durable) /\ ~(Outside.depth > 0)
    BY OutsideOK DEF Outside
  <1>3. QED
    BY <1>1, <1>2, Moves

(* A committed row of a run comes with its receipt.                        *)
LEMMA RunsAreWhole ==
  ASSUME TxInv, NEW r, Receipt(r) \notin durable
  PROVE  \A x \in durable : x.run # r
BY DEF TxInv, BlocksAreWhole, Whole

(* A run is taken up that nobody else is at: nothing of it is committed,   *)
(* or all of it is.                                                        *)
LEMMA ProcessRunKeeps ==
  ASSUME TxInv, NEW w \in Writers, NEW r \in Runs, ProcessRun(w, r)
  PROVE  TxInv'
PROOF
  <1> DEFINE place == IF Receipt(r) \in durable THEN "processed" ELSE "next"
             m == [at |-> place, depth |-> 1, run |-> r, item |-> 1, pending |-> {}]
  <1>1. writer' = [writer EXCEPT ![w] = m] /\ durable' = durable
    BY DEF ProcessRun
  <1>2. \A v \in Writers \ {w} : writer[v].run # r
    BY DEF ProcessRun
  <1>3. /\ Receipt(r) \in durable => place = "processed"
        /\ Receipt(r) \notin durable => place = "next"
        /\ place \in {"processed", "next"}
    OBVIOUS
  <1> HIDE DEF place
  <1>4. m.at = place /\ m.depth = 1 /\ m.run = r /\ m.item = 1 /\ m.pending = {}
    OBVIOUS
  <1>5. m \in Places
    BY <1>3, TxAssumption DEF Places
  <1> HIDE DEF m
  <1>6. PlaceOK(m)
    BY <1>3, <1>4, <1>5 DEF PlaceOK, Outer, Inner
  <1>7. \A i \in 1..Items : Blank(m, i)
    BY <1>4 DEF Blank, Has
  <1>8. Receipt(r) \notin durable => Progress(m)
    BY <1>3, <1>4, <1>7, TxAssumption DEF Progress
  <1>9. WriterOK(m, durable)
    BY <1>3, <1>4, <1>6, <1>8 DEF WriterOK
  <1>10. QED
    BY <1>1, <1>2, <1>4, <1>9, Moves

(* The outermost block ends: the run is committed whole, or was before.    *)
LEMMA EndRunKeeps ==
  ASSUME TxInv, NEW w \in Writers, EndRun(w)
  PROVE  TxInv'
PROOF
  <1> DEFINE m == writer[w]
  <1>1. PlaceOK(m) /\ WriterOK(m, durable) /\ m.at = "processed" /\ m.depth = 1 /\ m.run \in Runs
    BY DEF TxInv, EndRun, WriterOK, PlaceOK, Outer
  <1>2. durable' = durable \cup m.pending /\ writer' = [writer EXCEPT ![w] = Outside]
    BY <1>1 DEF EndRun, Leave
  <1>3. CASE Receipt(m.run) \in durable
    <2>1. durable' = durable
      BY <1>1, <1>2, <1>3 DEF WriterOK
    <2>2. WriterOK(Outside, durable) /\ ~(Outside.depth > 0)
      BY OutsideOK DEF Outside
    <2>3. QED
      BY <1>2, <2>1, <2>2, Moves
  <1>4. CASE Receipt(m.run) \notin durable
    <2>1. Progress(m) /\ \A x \in m.pending : x.run = m.run
      BY <1>1, <1>4 DEF WriterOK, PlaceOK
    <2>2. m.item = Items + 1 /\ Has(m, "receipt", 0) /\ \A i \in 1..Items : Settled(m, i)
      <3>1. m.item = Items + 1 /\ Has(m, "receipt", 0)
        BY <1>1, <2>1 DEF Progress
      <3>2. \A i \in 1..Items : i < m.item
        BY <3>1, TxAssumption
      <3>3. QED
        BY <2>1, <3>1, <3>2 DEF Progress
    <2>3. \A x \in durable : x.run # m.run
      BY <1>4, RunsAreWhole
    <2>4. \A kind, i : Row(m.run, kind, i) \in durable' <=> Has(m, kind, i)
      <3>1. \A kind, i : Row(m.run, kind, i).run = m.run
        BY DEF Row
      <3>2. QED
        BY <1>2, <2>3, <3>1 DEF Has
    <2>5. \A r : r # m.run => \A kind, i : Row(r, kind, i) \in durable' <=> Row(r, kind, i) \in durable
      <3>1. \A r, kind, i : Row(r, kind, i).run = r
        BY DEF Row
      <3>2. QED
        BY <1>2, <2>1, <3>1
    <2>6. durable' \subseteq Rows
      BY <1>1, <1>2 DEF TxInv, PlaceOK, Places
    <2>7. BlocksAreWhole'
      <3> SUFFICES ASSUME NEW x \in durable'
                   PROVE  Whole(durable', x.run)
        BY DEF BlocksAreWhole
      <3>1. CASE x.run = m.run
        BY <2>2, <2>4, <3>1 DEF Whole, Settled, Seen, Receipt
      <3>2. CASE x.run # m.run
        <4>1. x \in durable
          BY <1>2, <2>1, <3>2
        <4>2. Whole(durable, x.run)
          BY <4>1 DEF TxInv, BlocksAreWhole
        <4>3. QED
          BY <2>5, <3>2, <4>2 DEF Whole, Receipt
      <3>3. QED
        BY <3>1, <3>2
    <2>8. \A v \in Writers : writer'[v] = IF v = w THEN Outside ELSE writer[v]
      BY <1>2 DEF TxInv
    <2>9. \A v \in Writers : WriterOK(writer'[v], durable')
      <3> SUFFICES ASSUME NEW v \in Writers, v # w
                   PROVE  WriterOK(writer[v], durable')
        BY <2>8, OutsideOK
      <3>1. WriterOK(writer[v], durable) /\ PlaceOK(writer[v])
        BY DEF TxInv, WriterOK
      <3>2. CASE writer[v].depth > 0
        <4>1. writer[v].run # m.run
          BY <3>2 DEF TxInv, OwnRuns
        <4>2. Receipt(writer[v].run) \in durable' <=> Receipt(writer[v].run) \in durable
          BY <2>5, <4>1 DEF Receipt
        <4>3. QED
          BY <3>1, <4>2 DEF WriterOK
      <3>3. CASE ~(writer[v].depth > 0)
        BY <3>1, <3>3 DEF WriterOK
      <3>4. QED
        BY <3>2, <3>3
    <2>10. OwnRuns'
      <3> SUFFICES ASSUME NEW u \in Writers, NEW v \in Writers, u # v, writer'[u].depth > 0
                   PROVE  writer'[u].run # writer'[v].run
        BY DEF OwnRuns
      <3>1. u # w /\ writer'[u] = writer[u]
        BY <2>8 DEF Outside
      <3>2. CASE v = w
        <4>1. writer'[v].run = NoRun /\ writer[u].run \in Runs
          BY <2>8, <3>1, <3>2 DEF Outside, TxInv, WriterOK, PlaceOK
        <4>2. QED
          BY <3>1, <4>1, TxAssumption
      <3>3. CASE v # w
        BY <2>8, <3>1, <3>3 DEF TxInv, OwnRuns
      <3>4. QED
        BY <3>2, <3>3
    <2>11. writer' \in [Writers -> Places]
      <3>1. Outside \in Places
        BY TxAssumption DEF Outside, Places
      <3>2. QED
        BY <1>2, <3>1 DEF TxInv
    <2>12. QED
      BY <2>6, <2>7, <2>9, <2>10, <2>11 DEF TxInv
  <1>5. QED
    BY <1>3, <1>4

-----------------------------------------------------------------------------
(* Every step keeps the invariant.                                         *)
LEMMA TxInductive ==
  ASSUME TxInv, [TxNext]_txVars
  PROVE  TxInv'
PROOF
  <1>1. CASE UNCHANGED txVars
    BY <1>1 DEF txVars, TxInv, BlocksAreWhole, OwnRuns
  <1>2. CASE TxNext
    <2>1. PICK w \in Writers :
            \/ \E r \in Runs : ProcessRun(w, r)
            \/ RecordProduct(w) \/ EnterSighting(w) \/ RecordSighting(w) \/ LeaveSighting(w)
            \/ Miss(w) \/ NextProduct(w)
            \/ EnterNotify(w) \/ RecordEvent(w) \/ EventKnown(w) \/ Notify(w) \/ LeaveNotify(w)
            \/ RecordProcessedRun(w) \/ EndRun(w) \/ Abandon(w)
      BY <1>2 DEF TxNext
    <2>2. CASE \E r \in Runs : ProcessRun(w, r)
      BY <2>2, ProcessRunKeeps
    <2>3. CASE RecordProduct(w) \/ EnterSighting(w) \/ RecordSighting(w) \/ LeaveSighting(w)
      BY <2>3, ProductKeeps, EnterSightingKeeps, SightingKeeps, LeaveSightingKeeps
    <2>4. CASE Miss(w) \/ NextProduct(w)
      BY <2>4, MissKeeps, NextProductKeeps
    <2>5. CASE EnterNotify(w) \/ RecordEvent(w) \/ EventKnown(w) \/ Notify(w) \/ LeaveNotify(w)
      BY <2>5, EnterNotifyKeeps, EventKeeps, EventKnownKeeps, NotifyKeeps, LeaveNotifyKeeps
    <2>6. CASE RecordProcessedRun(w) \/ EndRun(w) \/ Abandon(w)
      BY <2>6, ReceiptKeeps, EndRunKeeps, AbandonKeeps
    <2>7. QED
      BY <2>1, <2>2, <2>3, <2>4, <2>5, <2>6
  <1>3. QED
    BY <1>1, <1>2

(* No connection and no row is there before the first run.                 *)
LEMMA TxInitially == TxInit => TxInv
PROOF
  <1> SUFFICES ASSUME TxInit
               PROVE  TxInv
    OBVIOUS
  <1>1. durable = {} /\ \A w \in Writers : writer[w] = Outside
    BY DEF TxInit
  <1>2. Outside \in Places /\ ~(Outside.depth > 0)
    BY TxAssumption DEF Outside, Places
  <1>3. writer \in [Writers -> Places]
    BY <1>2 DEF TxInit
  <1>4. \A w \in Writers : WriterOK(writer[w], durable)
    BY <1>1, OutsideOK
  <1>5. QED
    BY <1>1, <1>2, <1>3, <1>4 DEF TxInv, BlocksAreWhole, OwnRuns

(* The invariant of the nested blocks.                                     *)
LEMMA TxInvariance == TxSpec => []TxInv
PROOF
  <1>1. TxInit => TxInv
    BY TxInitially
  <1>2. TxInv /\ [TxNext]_txVars => TxInv'
    BY TxInductive
  <1>3. QED
    BY <1>1, <1>2, PTL DEF TxSpec

(* StoreTx: rows and connections keep their shape, and a depth counts the  *)
(* blocks (sqlite/__init__.py:269).                                        *)
THEOREM TxTypeCorrect == TxSpec => []TxTypeOK
PROOF
  <1>1. TxInv => TxTypeOK
    BY DEF TxInv, TxTypeOK, Places
  <1>2. QED
    BY <1>1, TxInvariance, PTL

(* sqlite/__init__.py:273: a run with any committed row is whole, whatever *)
(* raises or dies at whatever depth, for any number of connections.        *)
THEOREM BlocksStayWhole == TxSpec => []BlocksAreWhole
PROOF
  <1>1. TxInv => BlocksAreWhole
    BY DEF TxInv
  <1>2. QED
    BY <1>1, TxInvariance, PTL

(* Nothing is committed inside a block.                                    *)
LEMMA OnlyTheEndCommits ==
  ASSUME TxInv, NEW w \in Writers, ~EndRun(w),
         \/ \E r \in Runs : ProcessRun(w, r)
         \/ RecordProduct(w) \/ EnterSighting(w) \/ RecordSighting(w) \/ LeaveSighting(w)
         \/ Miss(w) \/ NextProduct(w)
         \/ EnterNotify(w) \/ RecordEvent(w) \/ EventKnown(w) \/ Notify(w) \/ LeaveNotify(w)
         \/ RecordProcessedRun(w) \/ EndRun(w) \/ Abandon(w)
  PROVE  durable' = durable
PROOF
  <1>1. ASSUME NEW row, NEW at, Insert(w, row, at), writer[w].at \notin {"outside", "processed"}
        PROVE  durable' = durable
    <2>1. writer[w].depth > 0
      BY <1>1, Inside
    <2>2. QED
      BY <1>1, <2>1, InsertInside
  <1>2. ASSUME NEW at, Leave(w, at), writer[w].at \in Inner
        PROVE  durable' = durable
    <2>1. writer[w].at \notin {"outside", "processed"}
      BY <1>2 DEF Inner
    <2>2. writer[w].depth = 2
      BY <1>2, <2>1, Inside DEF PlaceOK
    <2>3. QED
      BY <1>2, <2>2 DEF Leave
  <1>3. CASE RecordProduct(w)
    BY <1>1, <1>3 DEF RecordProduct
  <1>4. CASE RecordSighting(w)
    BY <1>1, <1>4 DEF RecordSighting
  <1>5. CASE Miss(w)
    BY <1>1, <1>5 DEF Miss
  <1>6. CASE RecordEvent(w)
    <2>1. PICK next : writer[w].at = "event" /\ Insert(w, Row(writer[w].run, "event", writer[w].item), next)
      BY <1>6 DEF RecordEvent
    <2>2. QED
      BY <1>1, <2>1
  <1>7. CASE Notify(w)
    BY <1>1, <1>7 DEF Notify
  <1>8. CASE RecordProcessedRun(w)
    BY <1>1, <1>8 DEF RecordProcessedRun
  <1>9. CASE LeaveSighting(w) \/ LeaveNotify(w)
    BY <1>2, <1>9 DEF LeaveSighting, LeaveNotify, Inner
  <1>10. CASE (\E r \in Runs : ProcessRun(w, r)) \/ Abandon(w) \/ NextProduct(w) \/ EventKnown(w)
              \/ EnterSighting(w) \/ EnterNotify(w)
    BY <1>10 DEF ProcessRun, Abandon, NextProduct, EventKnown, EnterSighting, EnterNotify
  <1>11. QED
    BY <1>3, <1>4, <1>5, <1>6, <1>7, <1>8, <1>9, <1>10

(* pipeline.py:126: exact replay of a processed run is a no-op; nothing is *)
(* added to a run that has its receipt, whoever processes it again.        *)
THEOREM ReplaysAreNoOps == TxSpec => ReplayIsNoOp
PROOF
  <1> DEFINE Kept == \A r \in Runs : Receipt(r) \in durable =>
                       {x \in durable' : x.run = r} = {x \in durable : x.run = r}
  <1>1. TxInv /\ [TxNext]_txVars => [Kept]_txVars
    <2> SUFFICES ASSUME TxInv, TxNext, NEW r \in Runs, Receipt(r) \in durable
                 PROVE  {x \in durable' : x.run = r} = {x \in durable : x.run = r}
      OBVIOUS
    <2>1. PICK w \in Writers :
            \/ \E q \in Runs : ProcessRun(w, q)
            \/ RecordProduct(w) \/ EnterSighting(w) \/ RecordSighting(w) \/ LeaveSighting(w)
            \/ Miss(w) \/ NextProduct(w)
            \/ EnterNotify(w) \/ RecordEvent(w) \/ EventKnown(w) \/ Notify(w) \/ LeaveNotify(w)
            \/ RecordProcessedRun(w) \/ EndRun(w) \/ Abandon(w)
      BY DEF TxNext
    <2>2. CASE ~EndRun(w)
      <3>1. durable' = durable
        BY <2>1, <2>2, OnlyTheEndCommits
      <3>2. QED
        BY <3>1
    <2>3. CASE EndRun(w)
      <3> DEFINE m == writer[w]
      <3>1. PlaceOK(m) /\ WriterOK(m, durable) /\ m.at = "processed" /\ m.depth = 1
        BY <2>3 DEF TxInv, EndRun, WriterOK, PlaceOK, Outer
      <3>2. durable' = durable \cup m.pending
        BY <2>3, <3>1 DEF EndRun, Leave
      <3>3. CASE m.run = r
        BY <3>1, <3>2, <3>3 DEF WriterOK
      <3>4. CASE m.run # r
        BY <3>1, <3>2, <3>4 DEF PlaceOK
      <3>5. QED
        BY <3>3, <3>4
    <2>4. QED
      BY <2>2, <2>3
  <1>2. QED
    BY <1>1, TxInvariance, PTL DEF TxSpec, ReplayIsNoOp
=============================================================================
