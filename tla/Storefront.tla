----------------------------- MODULE Storefront -----------------------------
(***************************************************************************)
(* The collectors that read one catalogue document from top to bottom:     *)
(* doro.py (tiles), sunbeam.py (store API items), tcl_alcatel.py (product  *)
(* links) and mudita.py (list items).  Each decides item by item, keeps    *)
(* the identities it has seen, and refuses to hand over a catalogue that   *)
(* looks too small to be whole.                                            *)
(*                                                                         *)
(* An item is [id, kind]: the SKU or slug it would be known by, and what   *)
(* the shop's rules see in it.                                             *)
(***************************************************************************)
EXTENDS Fetcher, Sequences, FiniteSets

CONSTANTS
  Ids,        \* SKUs or slugs
  MaxItems,   \* longest document
  Floor       \* shop -> FLOOR_PRODUCTS, FLOOR_ACCEPTED_PHONES, ...

VARIABLES
  shelf,   \* the document as served
  at,      \* items read so far
  seen,    \* seen_skus, seen_slugs
  sold,    \* ids of the discoveries, in order
  notes    \* classification_log: <<item number, classification>>

shopVars == <<shelf, at, seen, sold, notes>>

Shops == {"doro-gb", "sunbeam-f1-us", "tcl-alcatel-global", "mudita-com"}

ASSUME FloorAssumption == MaxItems \in Nat /\ Floor \in [Shops -> Nat]

\* What the rules of a shop tell apart, in the order they are asked.
Kinds ==
  CASE collector = "doro-gb" -> {"nameless", "aurora", "linkless", "phone", "unbranded"}
    [] collector = "sunbeam-f1-us" -> {"premium", "service", "accessory", "outside", "phone"}
    [] collector = "tcl-alcatel-global" -> {"uppercase", "other", "phone"}
    [] collector = "mudita-com" -> {"adjacent", "unknown", "phone/", "phone"}

ShopInit ==
  /\ collector \in Shops /\ crawl = "running"
  /\ get = [page |-> "catalogue", try |-> 1] /\ faults = NoFaults
  /\ shelf = <<>> /\ at = 0 /\ seen = {} /\ sold = <<>> /\ notes = {}

\* A document may be cut short or drift from its template: what is left of
\* it is what a damaged answer shows.
Catalogue ==
  \E a \in Answers :
    /\ Answered("catalogue", a)
    /\ get' = NoGet
    /\ IF a \in Lost
       THEN crawl' = "failed" /\ UNCHANGED shelf
       ELSE /\ shelf' \in UNION {[1..n -> [id : Ids, kind : Kinds]] : n \in 0..MaxItems}
            /\ UNCHANGED crawl
    /\ UNCHANGED <<collector, at, seen, sold, notes>>

Item == shelf[at + 1]
Note(class) == notes' = notes \cup {<<at + 1, class>>}
Skip(class) == Note(class) /\ UNCHANGED <<seen, sold>>
Silent == UNCHANGED <<seen, sold, notes>>
Claim == seen' = seen \cup {Item.id}
Sell == sold' = Append(sold, Item.id) /\ UNCHANGED notes

\* The first well-formed tile of a SKU claims it, whatever becomes of it.
Doro ==
  CASE Item.kind = "nameless" -> Skip("quarantined")
    [] Item.kind # "nameless" /\ Item.id \in seen -> Skip("duplicate")
    [] OTHER ->
         /\ Claim
         /\ CASE Item.kind = "aurora" -> Note("ambiguous") /\ UNCHANGED sold
              [] Item.kind = "linkless" -> Note("quarantined") /\ UNCHANGED sold
              [] OTHER -> Sell

MutantSunbeam ==    \* an item claims its SKU before it is classified
  IF Item.id \in seen THEN Skip("duplicate")
  ELSE /\ Claim
       /\ CASE Item.kind \in {"premium", "accessory"} -> Note("rejected") /\ UNCHANGED sold
            [] Item.kind \in {"service", "outside"} -> Note("ambiguous") /\ UNCHANGED sold
            [] OTHER -> Sell

\* Only an accepted item claims its SKU.
Sunbeam ==
  CASE Item.kind \in {"premium", "accessory"} -> Skip("rejected")
    [] Item.kind \in {"service", "outside"} -> Skip("ambiguous")
    [] Item.kind = "phone" /\ Item.id \in seen -> Skip("duplicate")
    [] OTHER -> Claim /\ Sell

\* The link pattern ignores case and the slug pattern does not.
Alcatel ==
  CASE Item.kind = "uppercase" \/ Item.id \in seen -> Silent
    [] Item.kind = "other" /\ Item.id \notin seen ->
         Claim /\ Note("quarantined") /\ UNCHANGED sold
    [] OTHER -> Claim /\ Sell

\* The same link again is dropped unread; another link to the slug ("phone/"
\* has the trailing slash) is a duplicate.
Mudita ==
  CASE Item.kind = "adjacent" \/ \E i \in 1..at : shelf[i] = Item -> Silent
    [] Item.kind = "unknown" /\ ~\E i \in 1..at : shelf[i] = Item -> Skip("ambiguous")
    [] OTHER -> IF Item.id \in seen THEN Skip("duplicate") ELSE Claim /\ Sell

ReadItem ==
  /\ crawl = "running" /\ get = NoGet /\ at < Len(shelf)
  /\ \/ collector = "doro-gb" /\ Doro
     \/ collector = "sunbeam-f1-us" /\ Sunbeam
     \/ collector = "tcl-alcatel-global" /\ Alcatel
     \/ collector = "mudita-com" /\ Mudita
  /\ at' = at + 1
  /\ UNCHANGED <<collector, crawl, get, faults, shelf>>

\* doro: a name handed over must begin with REQUIRED_ANCHOR_SUBSTRING.
Anchored ==
  collector = "doro-gb" =>
    \E i \in 1..Len(shelf) :
      /\ shelf[i].kind = "phone"
      /\ \A j \in 1..(i - 1) : shelf[j].id = shelf[i].id => shelf[j].kind = "nameless"

MutantCheckFloor ==    \* the floor counts items, not accepted phones
  /\ crawl = "running" /\ get = NoGet /\ at = Len(shelf)
  /\ crawl' = IF Len(shelf) < Floor[collector] \/ ~Anchored THEN "failed" ELSE "done"
  /\ UNCHANGED <<collector, get, faults, shopVars>>

\* The completeness guard, and doro's naming anchor.
CheckFloor ==
  /\ crawl = "running" /\ get = NoGet /\ at = Len(shelf)
  /\ crawl' = IF Len(sold) < Floor[collector] \/ ~Anchored THEN "failed" ELSE "done"
  /\ UNCHANGED <<collector, get, faults, shopVars>>

ShopStep == Catalogue \/ ReadItem \/ CheckFloor \/ (Raise /\ UNCHANGED shopVars)

-----------------------------------------------------------------------------
(* Properties.                                                             *)

Acceptable(item) == item.kind \in {"phone", "phone/", "unbranded"}
Carrying(id) == {i \in 1..Len(shelf) : shelf[i].id = id}

\* Which items the shop lets claim an identity: every named tile for doro,
\* every well-formed link for alcatel, acceptable phones for the others.
Claims(item) ==
  CASE collector = "doro-gb" -> item.kind # "nameless"
    [] collector = "tcl-alcatel-global" -> item.kind # "uppercase"
    [] OTHER -> Acceptable(item)

\* doro.py:162-175, sunbeam.py:212-221, tcl_alcatel.py:118-124,
\* mudita.py:153-167: an identity is handed over exactly when the first item
\* that claims it is an acceptable phone, wherever rejected and malformed
\* items stand among its duplicates, and then once.
FirstClaimDecides ==
  crawl = "done" =>
    \A id \in Ids :
      LET claims == {i \in Carrying(id) : Claims(shelf[i])}
          accepted == \E i \in claims : Acceptable(shelf[i]) /\ \A j \in claims : i <= j
      IN  Cardinality({n \in 1..Len(sold) : sold[n] = id}) = IF accepted THEN 1 ELSE 0

\* doro.py:199-203, sunbeam.py:266-269, tcl_alcatel.py:144-147,
\* mudita.py:197-201: a catalogue is handed over only if the document names
\* enough different phones, so that a page cut short cannot start removals.
WholeEnough ==
  crawl = "done" /\ collector \in Shops =>
    Cardinality({shelf[i].id : i \in {j \in 1..Len(shelf) : Acceptable(shelf[j])}})
      >= Floor[collector]
=============================================================================
