------------------------------ MODULE Listings ------------------------------
(***************************************************************************)
(* The collectors that read official listings and then one page or two per *)
(* product: hmd.py, lava.py, itel.py and punkt.py.  The site is edited     *)
(* while it is being read, and every request may fail.                     *)
(*                                                                         *)
(* A slug is a number, so that sorted() is the order of the numbers.  A    *)
(* place says which documents show the slug ("fp" and "sp" the two         *)
(* category listings, "map" the sitemap) and how it is labelled there:     *)
(*   hmd    the shape of the slug: "phone", "artifact" (a bundle, an offer,*)
(*          a test page), "nav" (a KNOWN_NAV_SLUGS entry shaped like a     *)
(*          phone), "page" (anything else)                                 *)
(*   lava   parent_id: "featurephones", "smartphones" or "none"            *)
(*   itel   "phone"                                                        *)
(*   punkt  the family prefix: "mp", "mc", "ac", "new", or "plain"         *)
(* A product page is the evidence it carries, [spec, extra, sku, title,    *)
(* h1] (extra: fields that no alert is about), and what is left of it when *)
(* it is rendered in part.                                                 *)
(***************************************************************************)
EXTENDS Fetcher, FiniteSets

CONSTANTS
  Slugs,      \* numbers
  Fields,     \* names in diff.MEANINGFUL_FIELDS
  Values,     \* what a page may say of a label
  Absent,     \* a label the page does not carry
  Skus,       \* SKUs a page may name
  NoSku,      \* no SKU on the page
  NoContent,  \* no discovery
  Givens,     \* what a crawl may start from: [collector, over, orphans, truth, site]
  MaxMoves    \* edits of the site while the listings are read

Readers == {"hmd-nokia", "lava-india", "itel-india", "punkt-ch"}

Evidence == [spec : [Fields -> Values \cup {Absent}], extra : BOOLEAN,
             sku : Skus \cup {NoSku}, title : BOOLEAN, h1 : BOOLEAN]

\* A page as it is whole; what a label says when only part of its entries is
\* there (some values of a PimSpec, a later row of the same label); and the
\* SKUs that it names after the first.
Pages ==
  {p \in [whole : Evidence, less : [Fields -> SUBSET Values], others : SUBSET Skus] :
     /\ \A f \in Fields : p.whole.spec[f] = Absent => p.less[f] = {}
     /\ p.whole.sku = NoSku => p.others = {}}

Truths == [Slugs -> [card : BOOLEAN, specs : Pages, base : Pages]]

Labels(c) ==
  CASE c = "hmd-nokia" -> {"phone", "artifact", "nav", "page"}
    [] c = "lava-india" -> {"featurephones", "smartphones", "none"}
    [] c = "itel-india" -> {"phone"}
    [] c = "punkt-ch" -> {"mp", "mc", "ac", "new", "plain"}

Places(c) == [on : SUBSET {"fp", "sp", "map"}, label : Labels(c)]

Rulings == [Slugs -> {"none", "exclude", "feature", "smart"}]

\* What a discovery's content_hash covers; rest says where its name is from.
Discoveries ==
  [sku : Skus \cup {NoSku}, complete : BOOLEAN, spec : [Fields -> Values \cup {Absent}],
   rest : {"catalogue_card", "specs_title", "base_title", "specs_h1_fallback",
           "base_h1_fallback", "slug_fallback", "listing", "model_row", "card",
           "product_group", "slug"}]

ASSUME SlugsAssumption == Slugs \subseteq Nat
ASSUME ContentAssumption == NoContent \notin Discoveries
ASSUME GivensAssumption ==
  \A g \in Givens :
    /\ g.collector \in Readers /\ g.orphans \in BOOLEAN
    /\ g.over \in Rulings /\ g.truth \in Truths
    /\ g.site \in [Slugs -> Places(g.collector)]

P == INSTANCE Pipeline WITH Contents <- Discoveries, Threshold <- 1

VARIABLES
  given,  \* overrides, include_sitemap_orphans and the pages of this crawl
  site,   \* slug -> its place now
  past,   \* slug -> places it had while the listings were read (ledger)
  moves,  \* edits so far
  heard,  \* the first listing as it arrived
  torn,   \* documents that did not arrive whole (ledger)
  cut,    \* slugs with a page that arrived damaged (ledger)
  swept,  \* the sitemap has been asked for
  todo,   \* slugs still to visit: [turn, slug, auto, card]
  specs,  \* the first page of the slug being parsed
  log,    \* classification_log: pairs <<slug, classification>>
  found   \* slug -> content of its Discovery

listingVars == <<given, site, past, moves, heard, torn, cut, swept, todo, specs, log, found>>

NoSpec == [f \in Fields |-> Absent]
Blank == [spec |-> NoSpec, extra |-> FALSE, sku |-> NoSku, title |-> FALSE, h1 |-> FALSE]
NotRead == [ok |-> FALSE, page |-> Blank]
Nothing == [s \in Slugs |-> "absent"]
Unheard == [ok |-> FALSE, shows |-> Nothing]

-----------------------------------------------------------------------------
(* From two listings to the slugs to visit.                                *)

\* The document as the site serves it at this moment.
Served(doc) == [s \in Slugs |-> IF doc \in site[s].on THEN site[s].label ELSE "absent"]

\* What the collector may read of it.  Of a damaged document any part may be
\* there; itel renders whatever comes and waits for a first card only.
Readings(doc, a) ==
  CASE a = "ok" -> {Served(doc)}
    [] a \in Lost /\ collector # "itel-india" -> {Nothing}
    [] OTHER -> {r \in [Slugs -> Labels(collector) \cup {"absent"}] :
                   \A s \in Slugs : r[s] \in {"absent", Served(doc)[s]}}

Shown(r) == {s \in Slugs : r[s] # "absent"}
Labelled(r, l) == {s \in Slugs : r[s] = l}
Phoneish == {"phone", "artifact", "nav"}    \* _PHONE_SLUG_RE
Looks(r, labels) == {s \in Shown(r) : r[s] \in labels}

\* One group of slugs, each with the classification its listing suggests.
\* Groups are visited in their turn, and each in the order of its slugs.
Group(turn, group, auto, carded) ==
  {[turn |-> turn, slug |-> s, auto |-> auto, card |-> s \in carded] : s \in group}

Before(j, k) == j.turn < k.turn \/ (j.turn = k.turn /\ j.slug <= k.slug)

First(job) == job \in todo /\ \A other \in todo : Before(job, other)

MutantHmdQueue(fp, sp, carded) ==    \* the feature listing wins a conflict
  Group(1, Looks(fp, Phoneish), "feature_phone", carded)
  \cup Group(2, Looks(sp, Phoneish) \ Shown(fp), "smartphone", carded)

\* hmd: a nav slug is chrome only when both listings link it.
HmdQueue(fp, sp, carded) ==
  LET both == Shown(fp) \cap Shown(sp)
  IN  Group(1, Looks(fp, Phoneish) \ both, "feature_phone", carded)
      \cup Group(2, Looks(sp, Phoneish) \ both, "smartphone", carded)
      \cup Group(3, Looks(sp, {"phone", "artifact"}) \cap both, "ambiguous", carded)

\* lava: slugs both listings claim, or whose parent_id contradicts its listing.
Conflicted(fp, sp) ==
  (Labelled(fp, "featurephones") \cap Labelled(sp, "smartphones"))
    \cup Labelled(fp, "smartphones") \cup Labelled(sp, "featurephones")

MutantLavaQueue(fp, sp) ==    \* the mislabeled are reported and not taken out
  Group(1, Labelled(fp, "featurephones"), "feature_phone", Slugs)
  \cup Group(2, Conflicted(fp, sp), "ambiguous", Slugs)
  \cup Group(3, Labelled(sp, "smartphones"), "smartphone", Slugs)

\* lava: a parent_id that is missing is neither the listing's nor a conflict.
LavaQueue(fp, sp) ==
  Group(1, Labelled(fp, "featurephones") \ Conflicted(fp, sp), "feature_phone", Slugs)
  \cup Group(2, Conflicted(fp, sp), "ambiguous", Slugs)
  \cup Group(3, Labelled(sp, "smartphones") \ Conflicted(fp, sp), "smartphone", Slugs)

ItelQueue(fp, sp) ==
  Group(1, Shown(fp) \ Shown(sp), "feature_phone", Slugs)
  \cup Group(2, Shown(fp) \cap Shown(sp), "ambiguous", Slugs)
  \cup Group(3, Shown(sp) \ Shown(fp), "smartphone", Slugs)

\* punkt: one sitemap in slug order, the family prefix decides.
ClassifySlug(l) ==
  CASE l = "mp" -> "feature_phone"
    [] l = "mc" -> "smartphone"
    [] l = "new" -> "ambiguous"
    [] OTHER -> "accessory"

PunktQueue(sm) ==
  {[turn |-> 1, slug |-> s, auto |-> ClassifySlug(sm[s]), card |-> FALSE] : s \in Shown(sm)}

Queue(fp, sp) ==
  CASE collector = "hmd-nokia" ->
         HmdQueue(fp, sp, {s \in Shown(fp) \cup Shown(sp) : given.truth[s].card})
    [] collector = "lava-india" -> LavaQueue(fp, sp)
    [] collector = "itel-india" -> ItelQueue(fp, sp)
    [] collector = "punkt-ch" -> PunktQueue(sp)

-----------------------------------------------------------------------------
(* From the pages of a product to its Discovery.                           *)

\* What a page that is rendered in part may show.
Parts(page) ==
  [spec : {part \in [Fields -> Values \cup {Absent}] :
             \A f \in Fields : part[f] \in {page.whole.spec[f], Absent} \cup page.less[f]},
   extra : {page.whole.extra, FALSE}, sku : {page.whole.sku, NoSku} \cup page.others,
   title : {page.whole.title, FALSE}, h1 : {page.whole.h1, FALSE}]

MutantReceived(page, a) ==    \* a placeholder where the page could not be read
  IF a = "ok" THEN {page.whole} ELSE {[Blank EXCEPT !.sku = "n/a"]}

\* What the collector may read of a page.
Received(page, a) ==
  CASE a = "ok" -> {page.whole}
    [] a = "damaged" -> Parts(page)
    [] OTHER -> {Blank}

Scarred(s, a) == cut' = IF a = "damaged" THEN cut \cup {s} ELSE cut

\* The base page is asked for whenever it might add something.
NeedsBase(card, ok, page) ==
  collector = "hmd-nokia" /\ (~card \/ page.sku = NoSku \/ ~ok)

\* _resolve_name: the first source that carries a usable name.
NameTier(card, page, base) ==
  CASE card -> "catalogue_card"
    [] ~card /\ page.title -> "specs_title"
    [] ~card /\ ~page.title /\ base.title -> "base_title"
    [] ~card /\ ~page.title /\ ~base.title /\ page.h1 -> "specs_h1_fallback"
    [] ~card /\ ~page.title /\ ~base.title /\ ~page.h1 /\ base.h1 -> "base_h1_fallback"
    [] OTHER -> "slug_fallback"

\* Any field makes the specification complete.
FieldsArePresent(page) == page.spec # NoSpec \/ page.extra

HmdContent(card, page, base) ==
  [sku |-> IF page.sku # NoSku THEN page.sku ELSE base.sku,
   complete |-> FieldsArePresent(page), spec |-> page.spec,
   rest |-> NameTier(card, page, base)]

\* lava: name and price are the listing's.
LavaContent(page) ==
  [sku |-> page.sku, complete |-> FieldsArePresent(page), spec |-> page.spec, rest |-> "listing"]

\* itel: only the General tab is read, and its Model row is also the name.
ItelContent(page) ==
  [sku |-> page.sku, complete |-> FALSE, spec |-> page.spec,
   rest |-> IF page.sku # NoSku THEN "model_row" ELSE "card"]

\* punkt: name, lowest price and availability come with the ProductGroup.
PunktContent(page) ==
  [sku |-> page.sku, complete |-> FieldsArePresent(page), spec |-> page.spec,
   rest |-> IF page.title THEN "product_group" ELSE "slug"]

ContentOf(card, page, base) ==
  CASE collector = "hmd-nokia" -> HmdContent(card, page, base)
    [] collector = "lava-india" -> LavaContent(page)
    [] collector = "itel-india" -> ItelContent(page)
    [] collector = "punkt-ch" -> PunktContent(page)

-----------------------------------------------------------------------------

ListingInit ==
  \E g \in Givens :
    /\ collector = g.collector /\ crawl = "running"
    /\ given = [over |-> g.over, orphans |-> g.orphans, truth |-> g.truth]
    /\ get = [page |-> "first", try |-> 1] /\ faults = NoFaults
    /\ site = g.site /\ past = [s \in Slugs |-> {g.site[s]}] /\ moves = 0
    /\ heard = Unheard /\ torn = {} /\ cut = {} /\ swept = FALSE /\ todo = {} /\ specs = NotRead
    /\ log = {} /\ found = [s \in Slugs |-> NoContent]

\* The site is edited between two requests: a product enters or leaves a
\* listing, or changes its category.  Edits after the second listing has
\* been read change nothing the crawl still looks at.
Move(s) ==
  /\ get.page \in {"first", "second"} /\ moves < MaxMoves
  /\ collector # "punkt-ch"
  /\ \E on \in SUBSET {"fp", "sp"} :
     \E label \in IF collector = "lava-india"
                  THEN {"featurephones", "smartphones", "none"} ELSE {site[s].label} :
       LET place == [on |-> on \cup (site[s].on \cap {"map"}), label |-> label]
       IN  /\ place # site[s]
           /\ site' = [site EXCEPT ![s] = place]
           /\ past' = [past EXCEPT ![s] = @ \cup {place}]
  /\ moves' = moves + 1
  /\ UNCHANGED <<fetcherVars, given, heard, torn, cut, swept, todo, specs, log, found>>

Retry == Again /\ UNCHANGED listingVars
Abort == Raise /\ UNCHANGED listingVars

Fail == crawl' = "failed" /\ get' = NoGet

\* hmd asks for both listings before it looks at either status.
FirstListing ==
  \E a \in Answers, fatal \in BOOLEAN :
    /\ Answered("first", a)
    /\ fatal = \/ collector = "lava-india" /\ a # "ok"
               \/ collector = "punkt-ch" /\ a # "ok"
    /\ \E r \in Readings("fp", a) : heard' = [ok |-> a \notin Lost, shows |-> r]
    /\ torn' = IF a = "ok" THEN torn ELSE torn \cup {"first"}
    /\ IF fatal THEN Fail ELSE Ask("second") /\ UNCHANGED crawl
    /\ UNCHANGED <<collector, given, site, past, moves, cut, swept, todo, specs, log, found>>

SecondListing ==
  \E a \in Answers, fatal \in BOOLEAN :
    /\ Answered("second", a)
    /\ fatal = \/ collector = "hmd-nokia" /\ (a \in Lost \/ ~heard.ok)
               \/ collector = "lava-india" /\ a # "ok"
               \/ collector = "punkt-ch" /\ a \in Lost
    /\ torn' = IF a = "ok" THEN torn ELSE torn \cup {"second"}
    /\ IF fatal
       THEN Fail /\ UNCHANGED todo
       ELSE /\ \E r \in Readings(IF collector = "punkt-ch" THEN "map" ELSE "sp", a) :
                 todo' = Queue(heard.shows, r)
            /\ get' = NoGet /\ UNCHANGED crawl
    /\ heard' = Unheard
    /\ UNCHANGED <<collector, given, site, past, moves, cut, swept, specs, log, found>>

\* hmd only: a human's ruling for one slug beats the automatic one.
FinalClassification(s, auto) ==
  CASE given.over[s] = "exclude" -> "ambiguous"
    [] given.over[s] = "feature" -> "feature_phone"
    [] given.over[s] = "smart" -> "smartphone"
    [] OTHER -> auto

\* Log the slug whose turn it is, and go on to its pages.
Classify(job) ==
  LET class == FinalClassification(job.slug, job.auto)
  IN  /\ log' = log \cup {<<job.slug, class>>}
      /\ IF class = "feature_phone"
         THEN Ask("specs") /\ UNCHANGED todo
         ELSE get' = NoGet /\ todo' = todo \ {job}

\* hmd fetches the title of what no single listing vouches for, as evidence.
NeedsTitle(job) == collector = "hmd-nokia" /\ job.auto = "ambiguous"

Visit ==
  /\ crawl = "running" /\ get = NoGet
  /\ \E job \in todo :
       /\ First(job)
       /\ IF NeedsTitle(job) THEN Ask("title") /\ UNCHANGED <<todo, log>> ELSE Classify(job)
  /\ UNCHANGED <<collector, crawl, faults, given, site, past, moves, heard, torn, cut, swept, specs, found>>

\* Whatever the page says, the title decides nothing.
Title ==
  /\ \E a \in Answers : Answered("title", a)
  /\ \E job \in todo : First(job) /\ Classify(job)
  /\ UNCHANGED <<collector, crawl, given, site, past, moves, heard, torn, cut, swept, specs, found>>

Emit(job, content) ==
  /\ found' = [found EXCEPT ![job.slug] = content]
  /\ todo' = todo \ {job} /\ get' = NoGet /\ specs' = NotRead

MutantSpecs ==    \* a product whose page is lost is left out
  \E a \in Answers, job \in todo : \E page \in Received(given.truth[job.slug].specs, a) :
    /\ Answered("specs", a) /\ First(job) /\ Scarred(job.slug, a)
    /\ \/ /\ a \in Lost
          /\ todo' = todo \ {job} /\ get' = NoGet /\ UNCHANGED <<specs, found>>
       \/ /\ a \notin Lost /\ NeedsBase(job.card, TRUE, page)
          /\ Ask("base") /\ specs' = [ok |-> TRUE, page |-> page]
          /\ UNCHANGED <<todo, found>>
       \/ /\ a \notin Lost /\ ~NeedsBase(job.card, TRUE, page)
          /\ Emit(job, ContentOf(job.card, page, Blank))
    /\ UNCHANGED <<collector, crawl, given, site, past, moves, heard, torn, swept, log>>

Specs ==
  \E a \in Answers, job \in todo : \E page \in Received(given.truth[job.slug].specs, a) :
    /\ Answered("specs", a) /\ First(job) /\ Scarred(job.slug, a)
    /\ IF NeedsBase(job.card, a \notin Lost, page)
       THEN /\ Ask("base") /\ specs' = [ok |-> a \notin Lost, page |-> page]
            /\ UNCHANGED <<todo, found>>
       ELSE Emit(job, ContentOf(job.card, page, Blank))
    /\ UNCHANGED <<collector, crawl, given, site, past, moves, heard, torn, swept, log>>

Base ==
  \E a \in Answers, job \in todo : \E page \in Received(given.truth[job.slug].base, a) :
    /\ Answered("base", a) /\ First(job) /\ Scarred(job.slug, a)
    /\ Emit(job, ContentOf(job.card, specs.page, page))
    /\ UNCHANGED <<collector, crawl, given, site, past, moves, heard, torn, swept, log>>

MutantOrphans(sm) ==    \* what a category listing shows now is left to it
  {s \in Labelled(sm, "phone") : s \notin {e[1] : e \in log} /\ site[s].on = {"map"}}

\* _sitemap_orphans: product-like slugs that no listing has brought up.
Orphans(sm) == {s \in Labelled(sm, "phone") : s \notin {e[1] : e \in log}}

Sweep ==
  /\ crawl = "running" /\ get = NoGet /\ todo = {}
  /\ collector = "hmd-nokia" /\ given.orphans /\ ~swept
  /\ Ask("sitemap") /\ swept' = TRUE
  /\ UNCHANGED <<collector, crawl, faults, given, site, past, moves, heard, torn, cut, todo, specs, log, found>>

Sitemap ==
  \E a \in Answers :
    /\ Answered("sitemap", a)
    /\ \E sm \in Readings("map", a) : todo' = Group(1, Orphans(sm), "ambiguous", {})
    /\ torn' = IF a = "ok" THEN torn ELSE torn \cup {"sitemap"}
    /\ get' = NoGet
    /\ UNCHANGED <<collector, crawl, given, site, past, moves, heard, cut, swept, specs, log, found>>

HandOver ==
  /\ crawl = "running" /\ get = NoGet /\ todo = {}
  /\ collector = "hmd-nokia" /\ given.orphans => swept
  /\ crawl' = "done"
  /\ UNCHANGED <<collector, get, faults, listingVars>>

ListingStep ==
  \/ Retry \/ Abort \/ FirstListing \/ SecondListing
  \/ Visit \/ Title \/ Specs \/ Base \/ Sweep \/ Sitemap \/ HandOver

ListingNext == ListingStep \/ \E s \in Slugs : Move(s)

-----------------------------------------------------------------------------
(* Properties.                                                             *)

\* The place alone makes the product a feature phone.
Vouched(p) ==
  CASE collector = "hmd-nokia" -> p.on \cap {"fp", "sp"} = {"fp"} /\ p.label \in Phoneish
    [] collector = "lava-india" -> p.on = {"fp"} /\ p.label = "featurephones"
    [] collector = "itel-india" -> p.on = {"fp"}
    [] collector = "punkt-ch" -> "map" \in p.on /\ p.label = "mp"

Decider == IF collector = "punkt-ch" THEN "second" ELSE "first"

\* hmd.py:471-473, lava.py:134, itel.py and punkt.py likewise: a product the
\* site lists as a feature phone from beginning to end is handed over by
\* every crawl that completes, whichever of its pages cannot be read.
ListedIsEmitted ==
  crawl = "done" /\ collector \in Readers /\ Decider \notin torn =>
    \A s \in Slugs :
      given.over[s] = "none" /\ (\A p \in past[s] : Vouched(p)) => found[s] # NoContent

\* hmd.py:44, lava.py:298-304, itel.py:216-218: without a human's override
\* a discovery was listed as a feature phone, and not all the while as a
\* smartphone too, unless the second listing did not arrive whole.
NeverGuessed ==
  \A s \in Slugs :
    found[s] # NoContent /\ given.over[s] = "none" /\ collector # "punkt-ch" =>
      /\ \E p \in past[s] : "fp" \in p.on
      /\ \/ "second" \in torn
         \/ \E p \in past[s] : "sp" \notin p.on \/ p.label = "none"

\* runner._persist_classification_log and process_run take the log and the
\* discoveries of a run to agree: one verdict per slug, and a discovery for
\* exactly those whose verdict is feature_phone.
OneVerdict ==
  /\ \A e \in log, f \in log : e[1] = f[1] => e = f
  /\ crawl = "done" =>
       \A s \in Slugs : found[s] # NoContent <=> <<s, "feature_phone">> \in log

\* What the site would yield if every page of the product arrived whole.
Whole(s) ==
  LET t == given.truth[s] IN ContentOf(t.card, t.specs.whole, t.base.whole)

\* The SKUs that may be read first on a page of the product: where one may
\* have arrived in part, any SKU it names.
Named(s, damaged) ==
  LET t == given.truth[s]
      pages == {t.specs} \cup (IF collector = "hmd-nokia" THEN {t.base} ELSE {})
  IN  ({p.whole.sku : p \in pages}
         \cup (IF damaged THEN UNION {p.others : p \in pages} ELSE {})) \ {NoSku}

SkusDisagree(s, damaged) == \E a, b \in Named(s, damaged) : a # b

\* The row of a product that was first seen with this content.
FirstSeen(content) == P!Seen(P!UnknownRow, content)

\* hmd.py:470-480, pipeline.py:178-280, diff.py:115-128: pages that cannot be
\* read, now or when the product was first seen, are reported as specs that
\* come and go, and never as a changed field.  Nor is a page that arrives in
\* part, as long as its labels arrive whole or not at all.  When it is whole
\* again, what it lacked is reported as changed, with no old value
\* (diff.py:123): this the claim must leave out.  Another product is seen only
\* where the pages name different SKUs.
OutageIsNotAChange ==
  \A s \in Slugs :
    found[s] # NoContent =>
      LET f == found[s]
          w == Whole(s)
          damaged == s \in cut
          alarm == IF SkusDisagree(s, damaged) THEN {"identity_anomaly"} ELSE {}
          thinned == IF damaged /\ \E x \in Fields : given.truth[s].specs.less[x] # {}
                     THEN {"field_changed"} ELSE {}
          regained == IF damaged THEN {"field_changed"} ELSE {}
      IN  /\ P!Owed(FirstSeen(w), w, f) \subseteq {"specs_became_unavailable"} \cup alarm \cup thinned
          /\ P!Owed(FirstSeen(w), f, w) \subseteq {"specs_became_available"} \cup regained
          /\ P!Owed(FirstSeen(f), f, w) \subseteq {"specs_became_available"} \cup alarm \cup regained

Same(c, d) == c.sku = d.sku /\ c.complete = d.complete /\ c.spec = d.spec

\* hmd.py:130-156: fewer transient failures in the whole crawl than one
\* request has tries leave no trace.
OutagesAbsorbed ==
  collector \in Retrying /\ faults.tries < MaxTries /\ ~faults.bad =>
    /\ crawl # "failed"
    /\ \A s \in Slugs : found[s] # NoContent => Same(found[s], Whole(s))

\* hmd.py:580-597: a phone page in the sitemap gets a verdict even when it
\* moves from one listing to the other between the two requests and is
\* shown by neither.
NothingSlipsThrough ==
  crawl = "done" /\ collector = "hmd-nokia" /\ given.orphans /\ "sitemap" \notin torn =>
    \A s \in Slugs :
      site[s].label = "phone" /\ "map" \in site[s].on => \E e \in log : e[1] = s
=============================================================================
