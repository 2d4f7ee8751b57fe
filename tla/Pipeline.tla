------------------------------ MODULE Pipeline ------------------------------
(***************************************************************************)
(* The decisions core/pipeline.py takes for one product, as operators      *)
(* without state: what a discovery means when it is compared with the      *)
(* product row and with the last sighting, and which event it owes.        *)
(*                                                                         *)
(* A content is what Discovery.content_hash covers.  The hash is taken to  *)
(* be injective and an observation row is unique per (product, content),   *)
(* so a content also stands for the id of its observation row; an          *)
(* occurrence row is unique per (product, run), so a run id stands for it. *)
(***************************************************************************)
EXTENDS Naturals

CONSTANTS
  Fields,     \* names in diff.MEANINGFUL_FIELDS
  Absent,     \* the value of a field a discovery does not carry
  NoSku,      \* an empty or missing model_number
  Contents,   \* records [sku, complete, spec, rest] a discovery may carry
  NoContent,  \* no discovery, no previous or no current observation
  Threshold   \* REMOVAL_CONFIRMATION_THRESHOLD

ASSUME ContentsAssumption ==
  /\ NoContent \notin Contents
  /\ \A c \in Contents : c.complete \in BOOLEAN /\ DOMAIN c.spec = Fields

ASSUME ThresholdAssumption == Threshold \in Nat \ {0}

-----------------------------------------------------------------------------
(* core/models.py: the change types the pipeline can produce, and the part *)
(* of an event its dedup_key is computed from.                             *)

ChangeType ==
  {"new_product", "field_changed", "specs_became_available",
   "specs_became_unavailable", "identity_anomaly",
   "classification_changed", "product_removed"}

\* occ = 0 stands for an event built without a transition_occurrence_id.
DedupKey(p, type, prev, cur, occ) ==
  [product |-> p, type |-> type, prev |-> prev, cur |-> cur, occ |-> occ]

(* core/notifications.py: the allow-list that decides pending/suppressed.  *)
NotifyOnDefault ==
  {"new_product", "field_changed", "product_removed",
   "specs_became_available", "identity_anomaly"}

MutantInitialStatus(type) ==    \* a status outside the outbox vocabulary
  IF type \in NotifyOnDefault THEN "pending" ELSE "skipped"

InitialStatus(type) ==
  IF type \in NotifyOnDefault THEN "pending" ELSE "suppressed"

-----------------------------------------------------------------------------
(* Product rows.  "unknown" is the absence of a row.                       *)

UnknownRow == [status |-> "unknown", sku |-> NoSku, absences |-> 0]

\* create_product on first sight, touch_product afterwards: the SKU is the
\* one of the creation, a sighting reactivates and clears the absences.
MutantSeen(row, c) ==    \* touch_product forgets to reactivate
  [status |-> IF row.status = "unknown" THEN "active" ELSE row.status,
   sku |-> IF row.status = "unknown" THEN c.sku ELSE row.sku,
   absences |-> 0]

Seen(row, c) ==
  [status |-> "active",
   sku |-> IF row.status = "unknown" THEN c.sku ELSE row.sku,
   absences |-> 0]

\* The absence reached the threshold in this run.
Confirmed(row) == row.status = "active" /\ row.absences + 1 >= Threshold

\* set_absence_count and mark_removed for a product a healthy run missed.
Missed(row) ==
  IF row.status # "active" THEN row
  ELSE [status |-> IF Confirmed(row) THEN "removed" ELSE "active",
        sku |-> row.sku,
        absences |-> row.absences + 1]

-----------------------------------------------------------------------------
(* core/diff.py: a field that disappears is not a change, one that appears *)
(* is.  Values stand for their normalized projection.                      *)
MeaningfulChanges(old, new) ==
  {f \in Fields : new.spec[f] # Absent /\ new.spec[f] # old.spec[f]}

\* Same canonical URL, a different non-empty SKU than at creation.
Anomalous(row, c) == NoSku \notin {row.sku, c.sku} /\ row.sku # c.sku

\* The event types (at most one) a discovery c of a product owes, given its
\* row and the content `old` of its last sighting.
MutantOwed(row, old, c) ==    \* completeness flips are diffed like any other change
  {k \in ChangeType :
     \/ row.status = "unknown" /\ k = "new_product"
     \/ /\ row.status # "unknown" /\ old # c
        /\ \/ Anomalous(row, c) /\ k = "identity_anomaly"
           \/ /\ ~Anomalous(row, c)
              /\ MeaningfulChanges(old, c) # {} /\ k = "field_changed"}

Owed(row, old, c) ==
  {k \in ChangeType :
     \/ row.status = "unknown" /\ k = "new_product"
     \/ /\ row.status # "unknown" /\ old # c
        /\ \/ Anomalous(row, c) /\ k = "identity_anomaly"
           \/ /\ ~Anomalous(row, c)
              /\ \/ old.complete /\ ~c.complete /\ k = "specs_became_unavailable"
                 \/ ~old.complete /\ c.complete /\ k = "specs_became_available"
                 \/ /\ old.complete /\ c.complete
                    /\ MeaningfulChanges(old, c) # {} /\ k = "field_changed"}

=============================================================================
