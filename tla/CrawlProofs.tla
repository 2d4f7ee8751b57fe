----------------------------- MODULE CrawlProofs -----------------------------
(***************************************************************************)
(* Proofs about Crawl: what a crawl over listings hands over and what its  *)
(* verdicts are worth, and what a crawl over one catalogue document keeps. *)
(***************************************************************************)
EXTENDS Crawl, FiniteSetTheorems, SequenceTheorems, TLAPS

-----------------------------------------------------------------------------
(* Listings.                                                               *)

Classes == {"feature_phone", "smartphone", "ambiguous", "accessory"}

IsJob(j) == j.turn \in Nat /\ j.slug \in Slugs /\ j.auto \in Classes

ListTypes ==
  /\ collector \in Readers /\ crawl \in {"running", "done", "failed"}
  /\ get \in [page : {"none", "first", "second", "title", "specs", "base", "sitemap"}, try : Nat]
  /\ faults \in [tries : Nat, bad : BOOLEAN]
  /\ given \in [over : Rulings, orphans : BOOLEAN, truth : Truths]
  /\ site \in [Slugs -> Places(collector)]
  /\ past \in [Slugs -> SUBSET Places(collector)]
  /\ heard \in [ok : BOOLEAN, shows : [Slugs -> Labels(collector) \cup {"absent"}]]
  /\ torn \subseteq {"first", "second", "sitemap"} /\ cut \subseteq Slugs
  /\ swept \in BOOLEAN
  /\ \A j \in todo : IsJob(j)
  /\ specs \in [ok : BOOLEAN, page : Evidence]
  /\ log \subseteq Slugs \X Classes
  /\ found \in [Slugs -> Discoveries \cup {NoContent}]

\* The listings have not been read to their end.
Reading == get.page \in {"first", "second"}

\* The pages of the slug whose turn it is are being read.
Parsing == get.page \in {"specs", "base"}

Logged(s) == \E e \in log : e[1] = s
Queued(s) == \E job \in todo : job.slug = s

\* Where the crawl stands.
Stage ==
  /\ crawl # "running" => get = NoGet
  /\ Reading => log = {} /\ todo = {} /\ found = [s \in Slugs |-> NoContent] /\ ~swept
  /\ get.page = "sitemap" => todo = {} /\ swept
  /\ get.page \in {"title", "sitemap"} => collector = "hmd-nokia"
  /\ \A j, k \in todo : j.slug = k.slug => j = k
  /\ \A s \in Slugs : site[s] \in past[s]

\* What the first listing showed was so.
Told ==
  \A s \in Slugs :
    /\ heard.shows[s] # "absent" =>
         \E p \in past[s] : "fp" \in p.on /\ p.label = heard.shows[s]
    /\ get.page = "second" /\ "first" \notin torn =>
         \E p \in past[s] : heard.shows[s] = IF "fp" \in p.on THEN p.label ELSE "absent"

\* A phone the site has listed all the while is waited for or found.
Awaited ==
  crawl # "failed" /\ ~Reading /\ Decider \notin torn =>
    \A s \in Slugs :
      given.over[s] = "none" /\ (\A p \in past[s] : Vouched(p)) =>
        \/ found[s] # NoContent
        \/ \E job \in todo : job.slug = s /\ job.auto = "feature_phone"

\* What it takes to hand a product over without a human's ruling.
Justified(s) ==
  /\ \E p \in past[s] : "fp" \in p.on
  /\ \/ "second" \in torn
     \/ \E p \in past[s] : "sp" \notin p.on \/ p.label = "none"

Warranted ==
  /\ collector # "punkt-ch" =>
       \A job \in todo : job.auto = "feature_phone" => Justified(job.slug)
  /\ NeverGuessed
  /\ Parsing => \A job \in todo :
                  First(job) => FinalClassification(job.slug, job.auto) = "feature_phone"

\* A verdict is on the log from when the pages are asked for.
Agreed ==
  /\ \A e \in log, f \in log : e[1] = f[1] => e = f
  /\ crawl # "failed" =>
       /\ \A job \in todo : Logged(job.slug) => Parsing /\ First(job)
       /\ Parsing => \A job \in todo : First(job) => <<job.slug, "feature_phone">> \in log
       /\ Parsing => todo # {}
       /\ \A s \in Slugs :
            <<s, "feature_phone">> \in log <=>
              found[s] # NoContent \/ (Parsing /\ \E job \in todo : First(job) /\ job.slug = s)

\* What may be read of a page, of which some may have arrived in part.
Readable(p, some) == {Blank, p.whole} \cup (IF some THEN Parts(p) ELSE {})

\* A discovery carries what the pages of the product say, or less.
Partial(s, c, some) ==
  LET page == given.truth[s].specs IN
  /\ c.complete =>
       /\ collector # "itel-india" /\ FieldsArePresent(page.whole)
       /\ ~some => c.spec = page.whole.spec
       /\ \A x \in Fields : c.spec[x] \in {Absent, page.whole.spec[x]} \cup page.less[x]
  /\ c.sku = NoSku \/ c.sku \in Named(s, some)

Truthful ==
  /\ get.page = "base" => collector = "hmd-nokia" /\
       \A job \in todo :
         First(job) => specs.page \in Readable(given.truth[job.slug].specs, job.slug \in cut)
  /\ \A s \in Slugs : found[s] # NoContent => Partial(s, found[s], s \in cut)

\* So far no request has failed for good.
Clean == collector \in Retrying /\ faults.tries < MaxTries /\ ~faults.bad

CleanSoFar ==
  /\ crawl # "failed"
  /\ get.page = "second" => heard.ok
  /\ get.page = "base" => \A job \in todo : First(job) => specs.page = given.truth[job.slug].specs.whole
  /\ \A s \in Slugs : found[s] # NoContent => Same(found[s], Whole(s))

Unharmed ==
  /\ get.page # "none" => get.try \in 1..Tries /\ get.try <= faults.tries + 1
  /\ faults.tries <= Enough
  /\ Clean => CleanSoFar

\* The sitemap's phones have a verdict or wait for one.
Mapped ==
  collector = "hmd-nokia" /\ swept /\ get.page # "sitemap" /\ "sitemap" \notin torn
  /\ crawl # "failed" =>
    \A s \in Slugs :
      site[s].label = "phone" /\ "map" \in site[s].on => Logged(s) \/ Queued(s)

Handed == crawl = "done" => todo = {} /\ (collector = "hmd-nokia" /\ given.orphans => swept)

ListInv ==
  /\ ListTypes /\ Stage /\ Told /\ Awaited /\ Warranted /\ Agreed /\ Truthful /\ Unharmed
  /\ Mapped /\ Handed

-----------------------------------------------------------------------------
(* Catalogue documents.                                                    *)

ShopTypes ==
  /\ collector \in Shops /\ crawl \in {"running", "done", "failed"}
  /\ get \in [page : {"none", "catalogue"}, try : Nat]
  /\ shelf \in Seq([id : Ids, kind : Kinds])
  /\ at \in 0..Len(shelf)
  /\ sold \in Seq(Ids) /\ seen \subseteq Ids

\* The item is the first of its identity that the shop lets claim it.
Claimant(i) ==
  Claims(shelf[i]) /\ \A j \in 1..(i - 1) : shelf[j].id = shelf[i].id => ~Claims(shelf[j])

\* The identities claimed by the first k items, and those of them accepted.
Claimed(k) == {shelf[i].id : i \in {j \in 1..k : Claims(shelf[j])}}
Accepted(k) == {shelf[i].id : i \in {j \in 1..k : Claimant(j) /\ Acceptable(shelf[j])}}

ShopInv ==
  /\ ShopTypes
  /\ get.page = "catalogue" => at = 0 /\ shelf = <<>> /\ crawl = "running"
  /\ seen = Claimed(at)
  /\ {sold[n] : n \in 1..Len(sold)} = Accepted(at)
  /\ \A m, n \in 1..Len(sold) : sold[m] = sold[n] => m = n
  /\ crawl = "done" => at = Len(shelf) /\ Len(sold) >= Floor[collector]

\* A crawl is of one family, and the other's state is as it began.
CrawlInv ==
  \/ ListInv /\ shelf = <<>> /\ sold = <<>>
  \/ ShopInv /\ log = {} /\ found = [s \in Slugs |-> NoContent]

-----------------------------------------------------------------------------
(* What the constants are.                                                 *)

LEMMA Constants ==
  /\ Slugs \subseteq Nat /\ MaxTries \in Nat \ {0} /\ Enough \in Nat /\ Enough >= MaxTries
  /\ NoContent \notin Discoveries
  /\ \A c \in Readers : "absent" \notin Labels(c)
  /\ Tries \in Nat \ {0} /\ Tries <= Enough
  /\ Tries = 1 \/ Tries = MaxTries
<1>1. \A c \in Readers : "absent" \notin Labels(c)
  BY DEF Readers, Labels
<1>2. Tries = 1 \/ Tries = MaxTries
  BY DEF Tries
<1> QED BY <1>1, <1>2, SlugsAssumption, FetcherAssumption, ContentAssumption

LEMMA Blanks == NoSpec \in [Fields -> Values \cup {Absent}] /\ Blank \in Evidence
BY DEF NoSpec, Blank, Evidence

LEMMA ListInit == ListingInit => ListInv
<1> SUFFICES ASSUME ListingInit PROVE ListInv
  OBVIOUS
<1>1. PICK g \in Givens :
        /\ collector = g.collector /\ crawl = "running"
        /\ given = [over |-> g.over, orphans |-> g.orphans, truth |-> g.truth]
        /\ get = [page |-> "first", try |-> 1] /\ faults = NoFaults
        /\ site = g.site /\ past = [s \in Slugs |-> {g.site[s]}] /\ moves = 0
        /\ heard = Unheard /\ torn = {} /\ cut = {} /\ swept = FALSE /\ todo = {} /\ specs = NotRead
        /\ log = {} /\ found = [s \in Slugs |-> NoContent]
  BY DEF ListingInit
<1>2. /\ g.collector \in Readers /\ g.orphans \in BOOLEAN
      /\ g.over \in Rulings /\ g.truth \in Truths
      /\ g.site \in [Slugs -> Places(g.collector)]
  BY GivensAssumption
<1>3. ListTypes
  BY <1>1, <1>2, Blanks DEF ListTypes, NoFaults, Unheard, Nothing, NotRead
<1>4. Stage
  BY <1>1, <1>2 DEF Stage, Reading
<1>5. Told
  BY <1>1 DEF Told, Unheard, Nothing
<1>6. Awaited /\ Mapped /\ Handed
  BY <1>1 DEF Awaited, Mapped, Handed, Reading
<1>7. Warranted
  BY <1>1 DEF Warranted, NeverGuessed, Parsing
<1>8. Agreed
  BY <1>1 DEF Agreed, Parsing, Logged
<1>9. Truthful
  BY <1>1 DEF Truthful
<1>10. Unharmed
  BY <1>1, Constants DEF Unharmed, NoFaults, CleanSoFar
<1> QED BY <1>3, <1>4, <1>5, <1>6, <1>7, <1>8, <1>9, <1>10 DEF ListInv

-----------------------------------------------------------------------------
(* One job is first.                                                       *)

LEMMA OneIsFirst ==
  ASSUME ListTypes, Stage, NEW j, NEW k, First(j), First(k)
  PROVE  j = k
<1>1. j \in todo /\ k \in todo /\ Before(j, k) /\ Before(k, j)
  BY DEF First
<1>2. IsJob(j) /\ IsJob(k)
  BY <1>1 DEF ListTypes
<1>3. j.turn \in Nat /\ k.turn \in Nat /\ j.slug \in Nat /\ k.slug \in Nat
  BY <1>2, Constants DEF IsJob
<1>4. j.slug = k.slug
  BY <1>1, <1>3 DEF Before
<1> QED BY <1>1, <1>4 DEF Stage

\* What a crawl starts from stays.
LEMMA Steady ==
  ASSUME ListingNext
  PROVE  collector' = collector /\ given' = given
<1> USE DEF fetcherVars, listingVars
<1>1. CASE Retry \/ Abort
  BY <1>1 DEF Retry, Abort, Again, Raise
<1>2. CASE FirstListing \/ SecondListing
  BY <1>2 DEF FirstListing, SecondListing
<1>3. CASE Visit \/ Title \/ Specs \/ Base
  BY <1>3 DEF Visit, Title, Specs, Base
<1>4. CASE Sweep \/ Sitemap \/ HandOver
  BY <1>4 DEF Sweep, Sitemap, HandOver
<1>5. CASE \E s \in Slugs : Move(s)
  BY <1>5 DEF Move
<1> QED BY <1>1, <1>2, <1>3, <1>4, <1>5 DEF ListingNext, ListingStep

\* What depends on the collector and on what the crawl starts from stays.
LEMMA SameSite ==
  ASSUME collector' = collector, given' = given
  PROVE  /\ \A s \in Slugs : Whole(s)' = Whole(s)
         /\ \A p : Vouched(p)' <=> Vouched(p)
         /\ Decider' = Decider /\ Tries' = Tries
         /\ \A s \in Slugs : \A auto : FinalClassification(s, auto)' = FinalClassification(s, auto)
         /\ \A s \in Slugs : \A c, some : Partial(s, c, some)' <=> Partial(s, c, some)
<1>1. \A s \in Slugs : Whole(s)' = Whole(s)
  BY DEF Whole, ContentOf, HmdContent, LavaContent, ItelContent, PunktContent, NameTier,
         FieldsArePresent
<1>2. \A p : Vouched(p)' <=> Vouched(p)
  BY DEF Vouched
<1>3. Decider' = Decider /\ Tries' = Tries
  BY DEF Decider, Tries
<1>4. \A s \in Slugs : \A auto : FinalClassification(s, auto)' = FinalClassification(s, auto)
  BY DEF FinalClassification
<1>5. \A s \in Slugs : \A c, some : Partial(s, c, some)' <=> Partial(s, c, some)
  BY DEF Partial, Named
<1> QED BY <1>1, <1>2, <1>3, <1>4, <1>5

-----------------------------------------------------------------------------
(* Requests.                                                               *)

(* hmd.py:130: once a request has failed for good, the crawl is no longer  *)
(* one whose failures were few.                                            *)
LEMMA Answering ==
  ASSUME ListTypes, Unharmed, NEW page, page # "none", NEW a \in Answers,
         Answered(page, a), collector' = collector
  PROVE  /\ get.page = page /\ faults' \in [tries : Nat, bad : BOOLEAN]
         /\ faults'.tries <= Enough
         /\ Clean' => Clean /\ a = "ok"
<1>1. /\ get.page = page
      /\ a \in {"busy", "dead"} => collector \in Retrying /\ get.try = Tries
      /\ faults' = CASE a = "ok" -> faults
                     [] a \in {"refused", "damaged"} -> [faults EXCEPT !.bad = TRUE]
                     [] OTHER -> Counted
  BY DEF Answered
<1>2. /\ faults \in [tries : Nat, bad : BOOLEAN] /\ faults.tries \in Nat /\ faults.tries <= Enough
      /\ get.try \in Nat /\ get.try <= faults.tries + 1
  BY <1>1 DEF ListTypes, Unharmed
<1>3. CASE a = "ok"
  BY <1>1, <1>2, <1>3 DEF Clean
<1>4. CASE a \in {"refused", "damaged"}
  <2>1. faults' = [faults EXCEPT !.bad = TRUE]
    BY <1>1, <1>4
  <2> QED BY <1>1, <1>2, <2>1 DEF Clean
<1>5. CASE a \in {"busy", "dead"}
  <2>1. faults' = Counted /\ Tries = MaxTries /\ get.try = MaxTries
    BY <1>1, <1>5 DEF Tries
  <2>2. /\ faults' \in [tries : Nat, bad : BOOLEAN]
        /\ faults'.tries = IF faults.tries < Enough THEN faults.tries + 1 ELSE faults.tries
    BY <1>2, <2>1 DEF Counted
  <2>3. faults'.tries <= Enough /\ faults'.tries >= MaxTries
    BY <1>2, <2>1, <2>2, Constants
  <2>4. ~Clean'
    BY <2>2, <2>3, Constants DEF Clean
  <2> QED BY <1>1, <2>2, <2>3, <2>4
<1> QED BY <1>3, <1>4, <1>5 DEF Answers

\* A failed try, or a crawl that raises: nothing is learnt.
LEMMA WaitKeeps ==
  ASSUME ListInv, Retry \/ Abort
  PROVE  ListInv'
<1>1. /\ UNCHANGED <<collector, given, site, past, heard, torn, cut, swept, todo, specs, log, found>>
      /\ \/ /\ Again /\ crawl' = crawl /\ get'.page = get.page /\ get.page # "none"
         \/ Raise
  BY DEF Retry, Abort, Again, Raise, listingVars, ListInv, ListTypes
<1>2. ListTypes'
  <2>1. CASE Again
    <3>1. get.try + 1 \in Nat /\ get' = [get EXCEPT !.try = get.try + 1] /\ crawl' = crawl
      BY <2>1 DEF Again, ListInv, ListTypes
    <3>2. faults' \in [tries : Nat, bad : BOOLEAN]
      BY <2>1 DEF Again, Counted, ListInv, ListTypes
    <3> QED BY <1>1, <3>1, <3>2 DEF ListInv, ListTypes
  <2>2. CASE Raise
    BY <1>1, <2>2 DEF Raise, NoGet, ListInv, ListTypes
  <2> QED BY <1>1, <2>1, <2>2
<1>3. Stage' /\ Told'
  BY <1>1 DEF ListInv, Stage, Told, Reading, Raise, Again, NoGet
<1>4. Awaited' /\ Mapped' /\ Handed'
  BY <1>1 DEF ListInv, Awaited, Mapped, Handed, Reading, Decider, Vouched, Logged, Queued,
              Raise, Again, NoGet
<1>5. Warranted'
  BY <1>1 DEF ListInv, Warranted, NeverGuessed, Justified, Parsing, First, FinalClassification,
              Raise, Again, NoGet
<1>6. Agreed'
  BY <1>1 DEF ListInv, Agreed, Logged, Parsing, First, Raise, Again, NoGet
<1>7. Truthful'
  BY <1>1, SameSite DEF ListInv, Truthful, First, Raise, Again, NoGet
<1>8. Unharmed'
  <2>1. CASE Again
    <3>1. /\ get.try < Tries /\ get'.try = get.try + 1 /\ get'.page = get.page /\ get.try \in 1..Tries
          /\ faults'.bad = faults.bad
          /\ faults'.tries = IF faults.tries < Enough THEN faults.tries + 1 ELSE faults.tries
          /\ faults.tries \in Nat /\ get.try <= faults.tries + 1 /\ faults.tries <= Enough
      BY <2>1 DEF Again, Counted, ListInv, ListTypes, Unharmed
    <3>2. get'.try \in 1..Tries /\ get'.try <= faults'.tries + 1 /\ faults'.tries <= Enough
      BY <3>1, Constants
    <3>3. Clean' => Clean
      BY <1>1, <3>1, Constants DEF Clean
    <3>4. Tries' = Tries
      BY <1>1 DEF Tries
    <3>5. ASSUME Clean' PROVE CleanSoFar'
      BY <1>1, <2>1, <3>1, <3>3, <3>5, SameSite DEF Again, ListInv, Unharmed, CleanSoFar, First
    <3> QED BY <3>2, <3>4, <3>5 DEF Unharmed
  <2>2. CASE Raise
    <3>1. ~Clean'
      BY <1>1, <2>2 DEF Raise, Clean
    <3> QED BY <2>2, <3>1 DEF Raise, NoGet, ListInv, Unharmed
  <2> QED BY <1>1, <2>1, <2>2
<1> QED BY <1>2, <1>3, <1>4, <1>5, <1>6, <1>7, <1>8 DEF ListInv

-----------------------------------------------------------------------------
(* The listings.                                                           *)

(* The site is edited: what was so stays in the ledger.                    *)
LEMMA MoveKeeps ==
  ASSUME ListInv, NEW m \in Slugs, Move(m)
  PROVE  ListInv'
<1>1. PICK on \in SUBSET {"fp", "sp"},
           label \in IF collector = "lava-india" THEN {"featurephones", "smartphones", "none"}
                     ELSE {site[m].label} :
        LET place == [on |-> on \cup (site[m].on \cap {"map"}), label |-> label]
        IN  /\ site' = [site EXCEPT ![m] = place]
            /\ past' = [past EXCEPT ![m] = @ \cup {place}]
  BY DEF Move
<1> DEFINE place == [on |-> on \cup (site[m].on \cap {"map"}), label |-> label]
<1>2. /\ UNCHANGED <<collector, crawl, get, faults, given, heard, torn, cut, swept, todo, specs, log, found>>
      /\ Reading
  BY DEF Move, fetcherVars, Reading
<1>3. /\ site \in [Slugs -> Places(collector)] /\ past \in [Slugs -> SUBSET Places(collector)]
      /\ site[m] \in Places(collector)
  BY DEF ListInv, ListTypes
<1>4. place \in Places(collector)
  <2>1. label \in Labels(collector)
    BY <1>3 DEF Labels, Places
  <2> QED BY <2>1 DEF Places
<1> HIDE DEF place
<1>5. /\ site' = [site EXCEPT ![m] = place] /\ past' = [past EXCEPT ![m] = @ \cup {place}]
  BY <1>1 DEF place
<1>6. /\ site' \in [Slugs -> Places(collector)] /\ past' \in [Slugs -> SUBSET Places(collector)]
      /\ \A s \in Slugs : past[s] \subseteq past'[s]
      /\ \A s \in Slugs : site[s] \in past[s] => site'[s] \in past'[s]
  BY <1>3, <1>4, <1>5
<1>7. ListTypes'
  BY <1>2, <1>6 DEF ListInv, ListTypes
<1>8. Stage'
  BY <1>2, <1>6 DEF ListInv, Stage, Reading
<1>9. Told'
  BY <1>2, <1>6 DEF ListInv, Told
<1>10. Awaited' /\ Mapped' /\ Handed'
  BY <1>2 DEF ListInv, Stage, Awaited, Mapped, Handed, Reading, NoGet
<1>11. Warranted'
  BY <1>2 DEF ListInv, Stage, Warranted, NeverGuessed, Parsing, Reading
<1>12. Agreed'
  BY <1>2 DEF ListInv, Agreed, Logged, Parsing, First
<1>13. Truthful'
  BY <1>2, SameSite DEF ListInv, Truthful, First
<1>14. Unharmed'
  BY <1>2, SameSite DEF ListInv, Unharmed, Clean, CleanSoFar, First
<1> QED BY <1>7, <1>8, <1>9, <1>10, <1>11, <1>12, <1>13, <1>14 DEF ListInv

\* A document that arrives shows nothing that was not there, and one that
\* arrives whole all that was.
LEMMA ReadingsShow ==
  ASSUME ListTypes, NEW doc \in {"fp", "sp", "map"}, NEW a \in Answers, NEW r \in Readings(doc, a)
  PROVE  /\ r \in [Slugs -> Labels(collector) \cup {"absent"}]
         /\ \A s \in Slugs : r[s] # "absent" => doc \in site[s].on /\ site[s].label = r[s]
         /\ a = "ok" =>
              \A s \in Slugs : r[s] = IF doc \in site[s].on THEN site[s].label ELSE "absent"
<1>1. /\ site \in [Slugs -> Places(collector)]
      /\ \A s \in Slugs : site[s].label \in Labels(collector)
  BY DEF ListTypes, Places
<1>2. Served(doc) \in [Slugs -> Labels(collector) \cup {"absent"}]
  BY <1>1 DEF Served
<1>3. CASE a = "ok"
  <2>1. r = Served(doc)
    BY <1>3 DEF Readings, Lost
  <2> QED BY <1>2, <2>1 DEF Served
<1>4. CASE a \in Lost /\ collector # "itel-india"
  <2>1. r = Nothing /\ a # "ok"
    BY <1>4 DEF Readings, Lost
  <2> QED BY <2>1 DEF Nothing
<1>5. CASE a # "ok" /\ ~(a \in Lost /\ collector # "itel-india")
  <2>1. /\ r \in [Slugs -> Labels(collector) \cup {"absent"}]
        /\ \A s \in Slugs : r[s] \in {"absent", Served(doc)[s]}
    BY <1>5 DEF Readings
  <2> QED BY <1>5, <2>1 DEF Served
<1> QED BY <1>3, <1>4, <1>5

(* The first listing is heard, or the crawl fails.                         *)
LEMMA FirstListingKeeps ==
  ASSUME ListInv, FirstListing
  PROVE  ListInv'
<1>1. PICK a \in Answers, fatal \in BOOLEAN :
        /\ Answered("first", a)
        /\ fatal = \/ collector = "lava-india" /\ a # "ok"
                   \/ collector = "punkt-ch" /\ a # "ok"
        /\ \E r \in Readings("fp", a) : heard' = [ok |-> a \notin Lost, shows |-> r]
        /\ torn' = IF a = "ok" THEN torn ELSE torn \cup {"first"}
        /\ IF fatal THEN Fail ELSE Ask("second") /\ UNCHANGED crawl
        /\ UNCHANGED <<collector, given, site, past, moves, cut, swept, todo, specs, log, found>>
  BY DEF FirstListing
<1>2. PICK r \in Readings("fp", a) : heard' = [ok |-> a \notin Lost, shows |-> r]
  BY <1>1
<1>3. /\ get.page = "first" /\ faults' \in [tries : Nat, bad : BOOLEAN] /\ faults'.tries <= Enough
      /\ Clean' => Clean /\ a = "ok"
  <2>1. Answered("first", a) /\ collector' = collector
    BY <1>1
  <2> QED BY <2>1, Answering DEF ListInv
<1>4. /\ r \in [Slugs -> Labels(collector) \cup {"absent"}]
      /\ \A s \in Slugs : r[s] # "absent" => "fp" \in site[s].on /\ site[s].label = r[s]
      /\ a = "ok" => \A s \in Slugs : r[s] = IF "fp" \in site[s].on THEN site[s].label ELSE "absent"
  BY ReadingsShow DEF ListInv
<1>5. /\ log = {} /\ todo = {} /\ found = [s \in Slugs |-> NoContent] /\ ~swept /\ crawl = "running"
      /\ \A s \in Slugs : site[s] \in past[s]
  BY <1>3 DEF ListInv, ListTypes, Stage, Reading, NoGet
<1>6. /\ UNCHANGED <<collector, given, site, past, cut, swept, todo, specs, log, found>>
      /\ \/ crawl' = "failed" /\ get' = NoGet /\ fatal
         \/ crawl' = crawl /\ get' = [page |-> "second", try |-> 1]
  BY <1>1 DEF Fail, Ask
<1>7. heard'.shows = r /\ heard'.ok = (a \notin Lost) /\ ("first" \notin torn' => a = "ok")
  BY <1>1, <1>2
<1>8. ListTypes'
  <2>1. heard' \in [ok : BOOLEAN, shows : [Slugs -> Labels(collector) \cup {"absent"}]]
    BY <1>2, <1>4
  <2>2. torn' \subseteq {"first", "second", "sitemap"}
    BY <1>1 DEF ListInv, ListTypes
  <2>3. get' \in [page : {"none", "first", "second", "title", "specs", "base", "sitemap"}, try : Nat]
    BY <1>6 DEF NoGet
  <2> QED BY <1>3, <1>5, <1>6, <2>1, <2>2, <2>3 DEF ListInv, ListTypes
<1>9. Stage'
  BY <1>5, <1>6 DEF ListInv, Stage, Reading, NoGet
<1>10. Told'
  BY <1>4, <1>5, <1>6, <1>7 DEF Told, NoGet
<1>11. Awaited' /\ Mapped' /\ Handed'
  BY <1>5, <1>6 DEF Awaited, Mapped, Handed, Reading
<1>12. Warranted'
  BY <1>5, <1>6 DEF Warranted, NeverGuessed, Parsing, NoGet
<1>13. Agreed'
  BY <1>5, <1>6 DEF Agreed, Logged, Parsing, NoGet
<1>14. Truthful'
  BY <1>5, <1>6 DEF Truthful, NoGet
<1>15. Unharmed'
  <2>1. get'.page # "none" => get'.try \in 1..Tries' /\ get'.try <= faults'.tries + 1
    <3>1. Tries' = Tries /\ faults'.tries \in Nat
      BY <1>3, <1>6, SameSite
    <3> QED BY <1>6, <3>1, Constants DEF NoGet
  <2>2. ASSUME Clean' PROVE CleanSoFar'
    <3>1. a = "ok" /\ ~fatal
      BY <1>1, <1>3, <2>2
    <3> QED BY <1>5, <1>6, <1>7, <3>1 DEF CleanSoFar, Lost
  <2> QED BY <1>3, <2>1, <2>2 DEF Unharmed
<1> QED BY <1>8, <1>9, <1>10, <1>11, <1>12, <1>13, <1>14, <1>15 DEF ListInv

\* A group has one job for each of its slugs.
JobsOf(jobs, group, auto) ==
  /\ \A j \in jobs : IsJob(j) /\ j.slug \in group /\ j.auto = auto
  /\ \A j, k \in jobs : j.slug = k.slug => j = k
  /\ \A s \in group : \E j \in jobs : j.slug = s

LEMMA Grouping ==
  ASSUME NEW turn \in Nat, NEW group \in SUBSET Slugs, NEW carded, NEW auto \in Classes
  PROVE  JobsOf(Group(turn, group, auto, carded), group, auto)
<1> DEFINE G == Group(turn, group, auto, carded)
           Job(s) == [turn |-> turn, slug |-> s, auto |-> auto, card |-> s \in carded]
<1>1. G = {Job(s) : s \in group}
  BY DEF Group
<1>2. \A s \in group : Job(s).turn = turn /\ Job(s).slug = s /\ Job(s).auto = auto
  OBVIOUS
<1> HIDE DEF G, Job
<1>3. \A j \in G : IsJob(j) /\ j.slug \in group /\ j.auto = auto
  BY <1>1, <1>2 DEF IsJob
<1>4. \A j, k \in G : j.slug = k.slug => j = k
  BY <1>1, <1>2
<1>5. \A s \in group : \E j \in G : j.slug = s
  BY <1>1, <1>2
<1> QED BY <1>3, <1>4, <1>5 DEF G, JobsOf

\* The jobs that two listings make: one for each slug, a feature phone only
\* where the first listing shows it and the second does not gainsay it, and
\* always where the second does not show it.
Fits(queue, fp, sp) ==
  /\ \A j \in queue : IsJob(j)
  /\ \A j, k \in queue : j.slug = k.slug => j = k
  /\ collector # "punkt-ch" =>
       \A j \in queue : j.auto = "feature_phone" =>
         fp[j.slug] # "absent" /\ sp[j.slug] \in {"absent", "none"}
  /\ \A s \in Slugs :
       \/ /\ sp[s] = "absent"
          /\ \/ collector = "hmd-nokia" /\ fp[s] \in Phoneish
             \/ collector = "lava-india" /\ fp[s] = "featurephones"
             \/ collector = "itel-india" /\ fp[s] # "absent"
       \/ collector = "punkt-ch" /\ sp[s] = "mp"
       => \E job \in queue : job.slug = s /\ job.auto = "feature_phone"

LEMMA HmdQueues ==
  ASSUME collector = "hmd-nokia", NEW carded,
         NEW fp \in [Slugs -> Labels(collector) \cup {"absent"}],
         NEW sp \in [Slugs -> Labels(collector) \cup {"absent"}]
  PROVE  Fits(HmdQueue(fp, sp, carded), fp, sp)
<1> DEFINE both == Shown(fp) \cap Shown(sp)
           f == Looks(fp, Phoneish) \ both
           m == Looks(sp, Phoneish) \ both
           b == Looks(sp, {"phone", "artifact"}) \cap both
           G1 == Group(1, f, "feature_phone", carded)
           G2 == Group(2, m, "smartphone", carded)
           G3 == Group(3, b, "ambiguous", carded)
<1>1. /\ f \subseteq Slugs /\ m \subseteq Slugs /\ b \subseteq Slugs
      /\ f \cap m = {} /\ f \cap b = {} /\ m \cap b = {}
      /\ \A s \in f : fp[s] # "absent" /\ sp[s] = "absent"
      /\ \A s \in Slugs : sp[s] = "absent" /\ fp[s] \in Phoneish => s \in f
  BY DEF Shown, Looks, Phoneish
<1>2. HmdQueue(fp, sp, carded) = G1 \cup G2 \cup G3
  BY DEF HmdQueue
<1> HIDE DEF f, m, b
<1>3. /\ \A j \in G1 : IsJob(j) /\ j.slug \in f /\ j.auto = "feature_phone"
      /\ \A j \in G2 : IsJob(j) /\ j.slug \in m /\ j.auto = "smartphone"
      /\ \A j \in G3 : IsJob(j) /\ j.slug \in b /\ j.auto = "ambiguous"
      /\ \A j, k \in G1 : j.slug = k.slug => j = k
      /\ \A j, k \in G2 : j.slug = k.slug => j = k
      /\ \A j, k \in G3 : j.slug = k.slug => j = k
      /\ \A s \in f : \E j \in G1 : j.slug = s
  <2>1. JobsOf(G1, f, "feature_phone")
    BY <1>1, Grouping DEF Classes
  <2>2. JobsOf(G2, m, "smartphone")
    BY <1>1, Grouping DEF Classes
  <2>3. JobsOf(G3, b, "ambiguous")
    BY <1>1, Grouping DEF Classes
  <2> HIDE DEF G1, G2, G3
  <2> QED BY <2>1, <2>2, <2>3 DEF JobsOf
<1> HIDE DEF G1, G2, G3
<1> QED BY <1>1, <1>2, <1>3 DEF Fits

LEMMA LavaQueues ==
  ASSUME collector = "lava-india",
         NEW fp \in [Slugs -> Labels(collector) \cup {"absent"}],
         NEW sp \in [Slugs -> Labels(collector) \cup {"absent"}]
  PROVE  Fits(LavaQueue(fp, sp), fp, sp)
<1> DEFINE c == Conflicted(fp, sp)
           f == Labelled(fp, "featurephones") \ c
           m == Labelled(sp, "smartphones") \ c
           G1 == Group(1, f, "feature_phone", Slugs)
           G2 == Group(2, c, "ambiguous", Slugs)
           G3 == Group(3, m, "smartphone", Slugs)
<1>1. /\ f \subseteq Slugs /\ m \subseteq Slugs /\ c \subseteq Slugs
      /\ f \cap m = {} /\ f \cap c = {} /\ m \cap c = {}
      /\ \A s \in f : fp[s] # "absent" /\ sp[s] \in {"absent", "none"}
      /\ \A s \in Slugs : sp[s] = "absent" /\ fp[s] = "featurephones" => s \in f
  BY DEF Labelled, Conflicted, Labels
<1>2. LavaQueue(fp, sp) = G1 \cup G2 \cup G3
  BY DEF LavaQueue
<1> HIDE DEF f, m, c
<1>3. /\ \A j \in G1 : IsJob(j) /\ j.slug \in f /\ j.auto = "feature_phone"
      /\ \A j \in G2 : IsJob(j) /\ j.slug \in c /\ j.auto = "ambiguous"
      /\ \A j \in G3 : IsJob(j) /\ j.slug \in m /\ j.auto = "smartphone"
      /\ \A j, k \in G1 : j.slug = k.slug => j = k
      /\ \A j, k \in G2 : j.slug = k.slug => j = k
      /\ \A j, k \in G3 : j.slug = k.slug => j = k
      /\ \A s \in f : \E j \in G1 : j.slug = s
  <2>1. JobsOf(G1, f, "feature_phone")
    BY <1>1, Grouping DEF Classes
  <2>2. JobsOf(G2, c, "ambiguous")
    BY <1>1, Grouping DEF Classes
  <2>3. JobsOf(G3, m, "smartphone")
    BY <1>1, Grouping DEF Classes
  <2> HIDE DEF G1, G2, G3
  <2> QED BY <2>1, <2>2, <2>3 DEF JobsOf
<1> HIDE DEF G1, G2, G3
<1> QED BY <1>1, <1>2, <1>3 DEF Fits

LEMMA ItelQueues ==
  ASSUME collector = "itel-india",
         NEW fp \in [Slugs -> Labels(collector) \cup {"absent"}],
         NEW sp \in [Slugs -> Labels(collector) \cup {"absent"}]
  PROVE  Fits(ItelQueue(fp, sp), fp, sp)
<1> DEFINE f == Shown(fp) \ Shown(sp)
           b == Shown(fp) \cap Shown(sp)
           m == Shown(sp) \ Shown(fp)
           G1 == Group(1, f, "feature_phone", Slugs)
           G2 == Group(2, b, "ambiguous", Slugs)
           G3 == Group(3, m, "smartphone", Slugs)
<1>1. /\ f \subseteq Slugs /\ m \subseteq Slugs /\ b \subseteq Slugs
      /\ f \cap m = {} /\ f \cap b = {} /\ m \cap b = {}
      /\ \A s \in f : fp[s] # "absent" /\ sp[s] = "absent"
      /\ \A s \in Slugs : sp[s] = "absent" /\ fp[s] # "absent" => s \in f
  BY DEF Shown
<1>2. ItelQueue(fp, sp) = G1 \cup G2 \cup G3
  BY DEF ItelQueue
<1> HIDE DEF f, m, b
<1>3. /\ \A j \in G1 : IsJob(j) /\ j.slug \in f /\ j.auto = "feature_phone"
      /\ \A j \in G2 : IsJob(j) /\ j.slug \in b /\ j.auto = "ambiguous"
      /\ \A j \in G3 : IsJob(j) /\ j.slug \in m /\ j.auto = "smartphone"
      /\ \A j, k \in G1 : j.slug = k.slug => j = k
      /\ \A j, k \in G2 : j.slug = k.slug => j = k
      /\ \A j, k \in G3 : j.slug = k.slug => j = k
      /\ \A s \in f : \E j \in G1 : j.slug = s
  <2>1. JobsOf(G1, f, "feature_phone")
    BY <1>1, Grouping DEF Classes
  <2>2. JobsOf(G2, b, "ambiguous")
    BY <1>1, Grouping DEF Classes
  <2>3. JobsOf(G3, m, "smartphone")
    BY <1>1, Grouping DEF Classes
  <2> HIDE DEF G1, G2, G3
  <2> QED BY <2>1, <2>2, <2>3 DEF JobsOf
<1> HIDE DEF G1, G2, G3
<1> QED BY <1>1, <1>2, <1>3 DEF Fits

LEMMA PunktQueues ==
  ASSUME collector = "punkt-ch", NEW fp,
         NEW sp \in [Slugs -> Labels(collector) \cup {"absent"}]
  PROVE  Fits(PunktQueue(sp), fp, sp)
<1> DEFINE Job(s) == [turn |-> 1, slug |-> s, auto |-> ClassifySlug(sp[s]), card |-> FALSE]
<1>1. PunktQueue(sp) = {Job(s) : s \in Shown(sp)}
  BY DEF PunktQueue
<1>2. \A s \in Shown(sp) : s \in Slugs /\ IsJob(Job(s)) /\ Job(s).slug = s
  BY DEF Shown, IsJob, Classes, ClassifySlug
<1>3. \A s \in Slugs : sp[s] = "mp" => s \in Shown(sp) /\ Job(s).auto = "feature_phone"
  BY DEF Shown, ClassifySlug
<1> HIDE DEF Job
<1> QED BY <1>1, <1>2, <1>3 DEF Fits

LEMMA Queueing ==
  ASSUME collector \in Readers,
         NEW fp \in [Slugs -> Labels(collector) \cup {"absent"}],
         NEW sp \in [Slugs -> Labels(collector) \cup {"absent"}]
  PROVE  Fits(Queue(fp, sp), fp, sp)
BY HmdQueues, LavaQueues, ItelQueues, PunktQueues DEF Readers, Queue

\* The second document, as it was and as it may be read.
SecondDoc == IF collector = "punkt-ch" THEN "map" ELSE "sp"

\* What vouches for a phone: the first listing alone.
LEMMA VouchedShows ==
  ASSUME collector \in Readers, collector # "punkt-ch", NEW p, Vouched(p)
  PROVE  /\ "fp" \in p.on /\ "sp" \notin p.on
         /\ collector = "hmd-nokia" => p.label \in Phoneish
         /\ collector = "lava-india" => p.label = "featurephones"
<1>1. CASE collector = "hmd-nokia"
  <2>1. p.on \cap {"fp", "sp"} = {"fp"} /\ p.label \in Phoneish
    BY <1>1 DEF Vouched
  <2>2. "fp" \in p.on \cap {"fp", "sp"} /\ "sp" \notin p.on \cap {"fp", "sp"}
    BY <2>1
  <2> QED BY <1>1, <2>1, <2>2
<1>2. CASE collector = "lava-india"
  BY <1>2 DEF Vouched
<1>3. CASE collector = "itel-india"
  BY <1>3 DEF Vouched
<1> QED BY <1>1, <1>2, <1>3 DEF Readers

(* A phone the site has shown all the while gets a job of its own.         *)
LEMMA ListedIsQueued ==
  ASSUME ListInv, get.page = "second", NEW a \in Answers, NEW r \in Readings(SecondDoc, a),
         Decider = "first" => "first" \notin torn,
         Decider = "second" => a = "ok",
         NEW s \in Slugs, \A p \in past[s] : Vouched(p)
  PROVE  \E job \in Queue(heard.shows, r) : job.slug = s /\ job.auto = "feature_phone"
<1> DEFINE fp == heard.shows
<1>1. /\ collector \in Readers /\ fp \in [Slugs -> Labels(collector) \cup {"absent"}]
      /\ site[s] \in past[s] /\ site[s].label \in Labels(collector) /\ "absent" \notin Labels(collector)
      /\ \A p \in past[s] : p.label \in Labels(collector)
  BY Constants DEF ListInv, ListTypes, Stage, Places
<1>2. /\ r \in [Slugs -> Labels(collector) \cup {"absent"}]
      /\ r[s] # "absent" => SecondDoc \in site[s].on /\ site[s].label = r[s]
      /\ a = "ok" => r[s] = IF SecondDoc \in site[s].on THEN site[s].label ELSE "absent"
  <2>1. SecondDoc \in {"fp", "sp", "map"} /\ ListTypes
    BY DEF SecondDoc, ListInv
  <2> QED BY <2>1, ReadingsShow
<1>3. Fits(Queue(fp, r), fp, r)
  BY <1>1, <1>2, Queueing
<1>4. CASE collector # "punkt-ch"
  <2>1. "first" \notin torn
    BY <1>4 DEF Decider
  <2>2. PICK p \in past[s] : fp[s] = IF "fp" \in p.on THEN p.label ELSE "absent"
    BY <2>1 DEF ListInv, Told
  <2>3. Vouched(p) /\ Vouched(site[s]) /\ p.label \in Labels(collector)
    BY <1>1
  <2>4. /\ "fp" \in p.on /\ "sp" \notin site[s].on
        /\ collector = "hmd-nokia" => p.label \in Phoneish
        /\ collector = "lava-india" => p.label = "featurephones"
    BY <1>1, <1>4, <2>3, VouchedShows
  <2>5. r[s] = "absent"
    BY <1>2, <1>4, <2>4 DEF SecondDoc
  <2>6. fp[s] = p.label /\ fp[s] # "absent"
    BY <1>1, <2>2, <2>3, <2>4
  <2> QED BY <1>1, <1>3, <1>4, <2>4, <2>5, <2>6 DEF Fits, Readers
<1>5. CASE collector = "punkt-ch"
  <2>1. a = "ok" /\ Vouched(site[s])
    BY <1>1, <1>5 DEF Decider
  <2>2. "map" \in site[s].on /\ site[s].label = "mp"
    BY <1>5, <2>1 DEF Vouched
  <2>3. r[s] = "mp"
    BY <1>2, <1>5, <2>1, <2>2 DEF SecondDoc
  <2> QED BY <1>3, <1>5, <2>3 DEF Fits
<1> QED BY <1>4, <1>5

(* A job for a feature phone has its reason in what the site showed.       *)
LEMMA QueuedIsJustified ==
  ASSUME ListInv, collector # "punkt-ch", NEW a \in Answers, NEW r \in Readings(SecondDoc, a),
         NEW job \in Queue(heard.shows, r), job.auto = "feature_phone"
  PROVE  /\ \E p \in past[job.slug] : "fp" \in p.on
         /\ a # "ok" \/ \E p \in past[job.slug] : "sp" \notin p.on \/ p.label = "none"
<1> DEFINE fp == heard.shows
           s == job.slug
<1>1. /\ collector \in Readers /\ fp \in [Slugs -> Labels(collector) \cup {"absent"}]
  BY DEF ListInv, ListTypes
<1>2. /\ r \in [Slugs -> Labels(collector) \cup {"absent"}]
      /\ a = "ok" => \A q \in Slugs : r[q] = IF "sp" \in site[q].on THEN site[q].label ELSE "absent"
  <2>1. SecondDoc \in {"fp", "sp", "map"} /\ ListTypes /\ SecondDoc = "sp"
    BY DEF SecondDoc, ListInv
  <2> QED BY <2>1, ReadingsShow
<1>3. Fits(Queue(fp, r), fp, r)
  BY <1>1, <1>2, Queueing
<1>4. s \in Slugs /\ fp[s] # "absent" /\ r[s] \in {"absent", "none"}
  BY <1>3 DEF Fits, IsJob
<1>5. site[s] \in past[s] /\ site[s].label # "absent"
  <2>1. site[s] \in Places(collector) /\ site[s] \in past[s]
    BY <1>4 DEF ListInv, ListTypes, Stage
  <2>2. site[s].label \in Labels(collector)
    BY <2>1 DEF Places
  <2> QED BY <1>1, <2>1, <2>2, Constants
<1>6. \E p \in past[s] : "fp" \in p.on
  BY <1>4 DEF ListInv, Told
<1>7. a = "ok" => "sp" \notin site[s].on \/ site[s].label = "none"
  BY <1>2, <1>4, <1>5
<1> QED BY <1>5, <1>6, <1>7

(* The second listing: the slugs to visit are known, or the crawl fails.   *)
LEMMA SecondListingKeeps ==
  ASSUME ListInv, SecondListing
  PROVE  ListInv'
<1>1. PICK a \in Answers, fatal \in BOOLEAN :
        /\ Answered("second", a)
        /\ fatal = \/ collector = "hmd-nokia" /\ (a \in Lost \/ ~heard.ok)
                   \/ collector = "lava-india" /\ a # "ok"
                   \/ collector = "punkt-ch" /\ a \in Lost
        /\ torn' = IF a = "ok" THEN torn ELSE torn \cup {"second"}
        /\ IF fatal
           THEN Fail /\ UNCHANGED todo
           ELSE /\ \E r \in Readings(SecondDoc, a) : todo' = Queue(heard.shows, r)
                /\ get' = NoGet /\ UNCHANGED crawl
        /\ heard' = Unheard
        /\ UNCHANGED <<collector, given, site, past, moves, cut, swept, specs, log, found>>
  BY DEF SecondListing, SecondDoc
<1>2. /\ get.page = "second" /\ faults' \in [tries : Nat, bad : BOOLEAN] /\ faults'.tries <= Enough
      /\ Clean' => Clean /\ a = "ok"
  <2>1. Answered("second", a) /\ collector' = collector
    BY <1>1
  <2> QED BY <2>1, Answering DEF ListInv
<1>3. /\ log = {} /\ todo = {} /\ found = [s \in Slugs |-> NoContent] /\ ~swept /\ crawl = "running"
      /\ \A s \in Slugs : site[s] \in past[s]
  BY <1>2 DEF ListInv, ListTypes, Stage, Reading, NoGet
<1>4. /\ UNCHANGED <<collector, given, site, past, cut, swept, specs, log, found>>
      /\ get' = NoGet /\ heard' = Unheard
      /\ \/ crawl' = "failed" /\ fatal /\ todo' = {}
         \/ crawl' = crawl /\ \E r \in Readings(SecondDoc, a) : todo' = Queue(heard.shows, r)
  BY <1>1, <1>3 DEF Fail
<1>5. (\A j \in todo' : IsJob(j)) /\ (\A j, k \in todo' : j.slug = k.slug => j = k)
  <2>1. CASE crawl' = "failed" /\ todo' = {}
    BY <2>1
  <2>2. ASSUME NEW r \in Readings(SecondDoc, a), todo' = Queue(heard.shows, r)
        PROVE  (\A j \in todo' : IsJob(j)) /\ (\A j, k \in todo' : j.slug = k.slug => j = k)
    <3>1. r \in [Slugs -> Labels(collector) \cup {"absent"}]
      <4>1. SecondDoc \in {"fp", "sp", "map"} /\ ListTypes
        BY DEF SecondDoc, ListInv
      <4> QED BY <4>1, ReadingsShow
    <3>2. Fits(Queue(heard.shows, r), heard.shows, r)
      BY <3>1, Queueing DEF ListInv, ListTypes
    <3> QED BY <2>2, <3>2 DEF Fits
  <2> QED BY <1>4, <2>1, <2>2
<1>6. torn' \subseteq {"first", "second", "sitemap"} /\ torn \subseteq torn'
      /\ ("second" \notin torn' => a = "ok") /\ ("first" \notin torn' => "first" \notin torn)
  BY <1>1 DEF ListInv, ListTypes
<1>7. ListTypes'
  <2>1. heard' \in [ok : BOOLEAN, shows : [Slugs -> Labels(collector) \cup {"absent"}]]
    BY <1>4 DEF Unheard, Nothing
  <2>2. get' \in [page : {"none", "first", "second", "title", "specs", "base", "sitemap"}, try : Nat]
    BY <1>4 DEF NoGet
  <2> QED BY <1>2, <1>3, <1>4, <1>5, <1>6, <2>1, <2>2 DEF ListInv, ListTypes, IsJob
<1>8. Stage'
  BY <1>3, <1>4, <1>5 DEF ListInv, Stage, Reading, NoGet
<1>9. Told'
  BY <1>4 DEF Told, Unheard, Nothing, NoGet
<1>10. Awaited'
  <2> SUFFICES ASSUME crawl' # "failed", Decider' \notin torn', NEW s \in Slugs,
                      \A p \in past'[s] : Vouched(p)'
               PROVE  \E job \in todo' : job.slug = s /\ job.auto = "feature_phone"
    BY DEF Awaited
  <2>1. Decider \notin torn' /\ \A p \in past[s] : Vouched(p)
    BY <1>4, SameSite
  <2>2. (Decider = "first" => "first" \notin torn) /\ (Decider = "second" => a = "ok")
    BY <1>6, <2>1
  <2>3. PICK r \in Readings(SecondDoc, a) : todo' = Queue(heard.shows, r)
    BY <1>4
  <2> QED BY <1>2, <2>1, <2>2, <2>3, ListedIsQueued
<1>11. Warranted'
  <2>1. ASSUME collector # "punkt-ch", NEW job \in todo', job.auto = "feature_phone"
        PROVE  Justified(job.slug)'
    <3>1. PICK r \in Readings(SecondDoc, a) : todo' = Queue(heard.shows, r)
      BY <1>4, <2>1
    <3>2. /\ \E p \in past[job.slug] : "fp" \in p.on
          /\ a # "ok" \/ \E p \in past[job.slug] : "sp" \notin p.on \/ p.label = "none"
      BY <2>1, <3>1, QueuedIsJustified
    <3> QED BY <1>4, <1>6, <3>2 DEF Justified
  <2> QED BY <1>3, <1>4, <2>1 DEF Warranted, NeverGuessed, Parsing, NoGet
<1>12. Agreed'
  BY <1>3, <1>4 DEF Agreed, Logged, Parsing, NoGet
<1>13. Truthful'
  BY <1>3, <1>4 DEF Truthful, NoGet
<1>14. Unharmed'
  <2>1. ASSUME Clean' PROVE CleanSoFar'
    <3>1. a = "ok" /\ heard.ok /\ ~fatal
      BY <1>1, <1>2, <2>1 DEF ListInv, Unharmed, CleanSoFar, Lost
    <3> QED BY <1>1, <1>3, <1>4, <3>1 DEF CleanSoFar, NoGet
  <2> QED BY <1>2, <1>4, <2>1 DEF Unharmed, NoGet
<1>15. Mapped' /\ Handed'
  BY <1>3, <1>4 DEF Mapped, Handed
<1> QED BY <1>7, <1>8, <1>9, <1>10, <1>11, <1>12, <1>13, <1>14, <1>15 DEF ListInv

-----------------------------------------------------------------------------
(* Verdicts.                                                               *)

LEMMA FinalIsClass ==
  ASSUME ListTypes, NEW s \in Slugs, NEW auto \in Classes
  PROVE  /\ FinalClassification(s, auto) \in Classes
         /\ given.over[s] = "none" => FinalClassification(s, auto) = auto
<1>1. given.over[s] \in {"none", "exclude", "feature", "smart"}
  BY DEF ListTypes, Rulings
<1> QED BY <1>1 DEF FinalClassification, Classes

(* hmd.py:455: the slug whose turn it is gets its one verdict, and its     *)
(* pages are asked for when it is a feature phone.                         *)
LEMMA ClassifyKeeps ==
  ASSUME ListInv, NEW job, First(job), Classify(job), get.page \in {"none", "title"},
         crawl = "running",
         UNCHANGED <<collector, crawl, given, site, past, heard, torn, cut, swept, specs, found>>,
         faults' \in [tries : Nat, bad : BOOLEAN], faults'.tries <= Enough, Clean' => Clean
  PROVE  ListInv'
<1> DEFINE s == job.slug
           class == FinalClassification(s, job.auto)
<1>1. /\ job \in todo /\ IsJob(job) /\ s \in Slugs /\ class \in Classes
      /\ given.over[s] = "none" => class = job.auto
  BY FinalIsClass DEF First, ListInv, ListTypes, IsJob
<1>2. /\ log' = log \cup {<<s, class>>}
      /\ \/ class = "feature_phone" /\ get' = [page |-> "specs", try |-> 1] /\ todo' = todo
         \/ class # "feature_phone" /\ get' = NoGet /\ todo' = todo \ {job}
  BY DEF Classify, Ask
<1>3. /\ ~Parsing /\ ~Reading /\ ~Reading' /\ get.page # "sitemap"
      /\ get'.page \in {"specs", "none"} /\ (Parsing' <=> class = "feature_phone")
  BY <1>2 DEF Parsing, Reading, NoGet
<1>4. /\ todo' \subseteq todo /\ \A j \in todo : j.slug = s => j = job
      /\ \A j \in todo : ~Logged(j.slug)
      /\ \A q \in Slugs : <<q, "feature_phone">> \in log <=> found[q] # NoContent
      /\ \A e \in log, f \in log : e[1] = f[1] => e = f
  BY <1>1, <1>2, <1>3 DEF ListInv, Stage, Agreed
<1>5. ASSUME class = "feature_phone", NEW k
      PROVE  First(k)' <=> k = job
  BY <1>2, <1>5, OneIsFirst DEF ListInv, First
<1> HIDE DEF class
<1>6. \A q : Logged(q)' <=> Logged(q) \/ q = s
  <2>1. log' = log \cup {<<s, class>>} /\ <<s, class>>[1] = s
    BY <1>2
  <2> QED BY <2>1 DEF Logged
<1>7. ListTypes'
  BY <1>1, <1>2, <1>4 DEF ListInv, ListTypes, NoGet, IsJob
<1>8. Stage'
  BY <1>3, <1>4 DEF ListInv, Stage
<1>9. Told'
  BY <1>3 DEF ListInv, Told
<1>10. Awaited'
  <2> SUFFICES ASSUME Decider' \notin torn', NEW q \in Slugs, given.over[q] = "none",
                      \A p \in past[q] : Vouched(p)', found[q] = NoContent
               PROVE  \E j \in todo' : j.slug = q /\ j.auto = "feature_phone"
    BY DEF Awaited
  <2>1. PICK j \in todo : j.slug = q /\ j.auto = "feature_phone"
    BY <1>3, SameSite DEF ListInv, Awaited
  <2>2. j = job => class = "feature_phone"
    BY <1>1, <2>1
  <2> QED BY <1>2, <2>1, <2>2
<1>11. Warranted'
  <2>1. NeverGuessed'
    BY DEF ListInv, Warranted, NeverGuessed
  <2>2. \A j \in todo : Justified(j.slug)' <=> Justified(j.slug)
    BY DEF Justified
  <2>3. ASSUME Parsing', NEW k \in todo', First(k)'
        PROVE  FinalClassification(k.slug, k.auto)' = "feature_phone"
    <3>1. k = job /\ class = "feature_phone"
      BY <1>3, <1>5, <2>3
    <3> QED BY <1>1, <3>1, SameSite DEF class
  <2> QED BY <1>4, <2>1, <2>2, <2>3 DEF ListInv, Warranted
<1>12. Agreed'
  <2>1. \A e \in log', f \in log' : e[1] = f[1] => e = f
    BY <1>1, <1>2, <1>4 DEF Logged
  <2>2. ASSUME NEW j \in todo', Logged(j.slug)' PROVE Parsing' /\ First(j)'
    <3>1. j \in todo /\ j.slug = s
      BY <1>4, <1>6, <2>2
    <3>2. j = job /\ job \in todo'
      BY <1>4, <2>2, <3>1
    <3> QED BY <1>2, <1>3, <1>5, <3>2
  <2>3. ASSUME Parsing', NEW k \in todo', First(k)' PROVE <<k.slug, "feature_phone">> \in log'
    BY <1>2, <1>3, <1>5, <2>3
  <2>4. Parsing' => todo' # {}
    BY <1>1, <1>2, <1>3
  <2>5. ASSUME NEW q \in Slugs
        PROVE  <<q, "feature_phone">> \in log' <=>
                 found'[q] # NoContent \/ (Parsing' /\ \E j \in todo' : First(j)' /\ j.slug = q)
    <3>1. CASE class = "feature_phone"
      BY <1>1, <1>2, <1>3, <1>4, <1>5, <3>1
    <3>2. CASE class # "feature_phone"
      BY <1>2, <1>3, <1>4, <3>2
    <3> QED BY <3>1, <3>2
  <2> QED BY <2>1, <2>2, <2>3, <2>4, <2>5 DEF Agreed
<1>13. Truthful'
  BY <1>3, SameSite DEF ListInv, Truthful
<1>14. Unharmed'
  <2>1. get'.page # "none" => get'.try \in 1..Tries' /\ get'.try <= faults'.tries + 1
    BY <1>2, SameSite, Constants DEF NoGet
  <2>2. ASSUME Clean' PROVE CleanSoFar'
    BY <1>3, <2>2, SameSite DEF ListInv, Unharmed, CleanSoFar
  <2> QED BY <2>1, <2>2 DEF Unharmed
<1>15. Mapped'
  <2>1. ASSUME NEW q \in Slugs, Queued(q) PROVE Queued(q)' \/ q = s
    BY <1>2, <2>1 DEF Queued
  <2> QED BY <1>3, <1>6, <2>1 DEF ListInv, Mapped
<1>16. Handed'
  BY DEF Handed
<1> QED BY <1>7, <1>8, <1>9, <1>10, <1>11, <1>12, <1>13, <1>14, <1>15, <1>16 DEF ListInv

(* hmd.py: a title is asked for first where no single listing vouches.     *)
LEMMA VisitKeeps ==
  ASSUME ListInv, Visit
  PROVE  ListInv'
<1>1. PICK job \in todo :
        /\ First(job)
        /\ IF NeedsTitle(job) THEN Ask("title") /\ UNCHANGED <<todo, log>> ELSE Classify(job)
  BY DEF Visit
<1>2. /\ UNCHANGED <<collector, crawl, faults, given, site, past, heard, torn, cut, swept, specs, found>>
      /\ crawl = "running" /\ get = NoGet /\ get.page = "none"
  BY DEF Visit, NoGet
<1>3. (Clean' => Clean) /\ faults' \in [tries : Nat, bad : BOOLEAN] /\ faults'.tries <= Enough
  BY <1>2 DEF Clean, ListInv, ListTypes, Unharmed
<1>4. CASE ~NeedsTitle(job)
  BY <1>1, <1>2, <1>3, <1>4, ClassifyKeeps
<1>5. CASE NeedsTitle(job)
  <2>1. /\ UNCHANGED <<todo, log>> /\ get' = [page |-> "title", try |-> 1]
        /\ collector = "hmd-nokia" /\ ~Parsing /\ ~Parsing'
    BY <1>1, <1>2, <1>5 DEF Ask, NeedsTitle, Parsing
  <2>2. ListTypes' /\ Stage' /\ Told'
    BY <1>2, <2>1 DEF ListInv, ListTypes, Stage, Told, Reading
  <2>3. Awaited' /\ Mapped' /\ Handed'
    BY <1>2, <2>1, SameSite DEF ListInv, Awaited, Mapped, Handed, Reading, Logged, Queued
  <2>4. Warranted' /\ Agreed'
    BY <1>2, <2>1 DEF ListInv, Warranted, NeverGuessed, Justified, Agreed, Logged
  <2>5. Truthful'
    BY <1>2, <2>1, SameSite DEF ListInv, Truthful
  <2>6. Unharmed'
    BY <1>2, <1>3, <2>1, SameSite, Constants DEF ListInv, ListTypes, Unharmed, CleanSoFar
  <2> QED BY <2>2, <2>3, <2>4, <2>5, <2>6 DEF ListInv
<1> QED BY <1>4, <1>5

LEMMA TitleKeeps ==
  ASSUME ListInv, Title
  PROVE  ListInv'
<1>1. PICK a \in Answers, job \in todo : Answered("title", a) /\ First(job) /\ Classify(job)
  BY DEF Title
<1>2. UNCHANGED <<collector, crawl, given, site, past, heard, torn, cut, swept, specs, found>>
  BY DEF Title
<1>3. /\ get.page = "title" /\ faults' \in [tries : Nat, bad : BOOLEAN] /\ faults'.tries <= Enough
      /\ Clean' => Clean /\ a = "ok"
  BY <1>1, <1>2, Answering DEF ListInv
<1>4. crawl = "running"
  BY <1>3 DEF ListInv, Stage, NoGet
<1> QED BY <1>1, <1>2, <1>3, <1>4, ClassifyKeeps

-----------------------------------------------------------------------------
(* Discoveries.                                                            *)

\* What a discovery is, whichever collector builds it.
LEMMA ContentShows ==
  ASSUME collector \in Readers, NEW card, NEW page, NEW base
  PROVE  LET c == ContentOf(card, page, base) IN
         /\ c = [sku |-> c.sku, complete |-> c.complete, spec |-> c.spec, rest |-> c.rest]
         /\ c.spec = page.spec
         /\ c.complete = (collector # "itel-india" /\ FieldsArePresent(page))
         /\ c.sku = IF collector = "hmd-nokia" /\ page.sku = NoSku THEN base.sku ELSE page.sku
         /\ c.rest \in {"catalogue_card", "specs_title", "base_title", "specs_h1_fallback",
                        "base_h1_fallback", "slug_fallback", "listing", "model_row", "card",
                        "product_group", "slug"}
<1>1. CASE collector = "hmd-nokia"
  <2>1. ContentOf(card, page, base) = HmdContent(card, page, base)
    BY <1>1 DEF ContentOf
  <2>2. NameTier(card, page, base) \in
          {"catalogue_card", "specs_title", "base_title", "specs_h1_fallback",
           "base_h1_fallback", "slug_fallback"}
    BY Zenon DEF NameTier
  <2> QED BY <1>1, <2>1, <2>2 DEF HmdContent, FieldsArePresent
<1>2. CASE collector = "lava-india"
  BY <1>2 DEF ContentOf, LavaContent, FieldsArePresent
<1>3. CASE collector = "itel-india"
  BY <1>3 DEF ContentOf, ItelContent
<1>4. CASE collector = "punkt-ch"
  BY <1>4 DEF ContentOf, PunktContent, FieldsArePresent
<1> QED BY <1>1, <1>2, <1>3, <1>4 DEF Readers

\* What is read of a page is there, and none of it is made up.
LEMMA PartsShow ==
  ASSUME NEW p \in Pages, NEW some \in BOOLEAN, NEW page \in Readable(p, some)
  PROVE  /\ page \in Evidence /\ p.whole \in Evidence
         /\ ~some => page \in {Blank, p.whole}
         /\ FieldsArePresent(page) => page # Blank /\ FieldsArePresent(p.whole)
         /\ \A x \in Fields : page.spec[x] \in {Absent, p.whole.spec[x]} \cup p.less[x]
         /\ page.sku \in {NoSku, p.whole.sku} \cup p.others
<1>1. /\ p.whole \in Evidence /\ p.less \in [Fields -> SUBSET Values] /\ p.others \subseteq Skus
      /\ p.whole.sku \in Skus \cup {NoSku}
      /\ p.whole.title \in BOOLEAN /\ p.whole.h1 \in BOOLEAN /\ p.whole.extra \in BOOLEAN
      /\ \A x \in Fields : p.less[x] # {} => p.whole.spec[x] # Absent
      /\ Blank.spec = NoSpec /\ ~Blank.extra /\ Blank.sku = NoSku
      /\ NoSpec \in [Fields -> Values \cup {Absent}] /\ \A x \in Fields : NoSpec[x] = Absent
  BY Blanks DEF Pages, Evidence, Blank, NoSpec
<1>2. CASE page \in {Blank, p.whole}
  BY <1>1, <1>2, Blanks DEF FieldsArePresent
<1>3. CASE some /\ page \in Parts(p)
  <2>1. /\ page = [spec |-> page.spec, extra |-> page.extra, sku |-> page.sku,
                   title |-> page.title, h1 |-> page.h1]
        /\ page.extra \in {p.whole.extra, FALSE}
        /\ page.spec \in [Fields -> Values \cup {Absent}]
        /\ \A x \in Fields : page.spec[x] \in {p.whole.spec[x], Absent} \cup p.less[x]
        /\ page.sku \in {p.whole.sku, NoSku} \cup p.others
        /\ page.title \in {p.whole.title, FALSE} /\ page.h1 \in {p.whole.h1, FALSE}
    BY <1>3 DEF Parts
  <2>2. /\ page.sku \in Skus \cup {NoSku} /\ page.extra \in BOOLEAN
        /\ page.title \in BOOLEAN /\ page.h1 \in BOOLEAN
    BY <1>1, <2>1
  <2>3. page \in Evidence
    BY <2>1, <2>2 DEF Evidence
  <2>4. page.spec # NoSpec => p.whole.spec # NoSpec
    <3> SUFFICES ASSUME page.spec # NoSpec PROVE p.whole.spec # NoSpec
      OBVIOUS
    <3>1. PICK x \in Fields : page.spec[x] # Absent
      BY <1>1, <2>1
    <3> QED BY <1>1, <2>1, <3>1
  <2>5. FieldsArePresent(page) => page # Blank /\ FieldsArePresent(p.whole)
    BY <1>1, <2>1, <2>4 DEF FieldsArePresent
  <2> QED BY <1>1, <1>3, <2>1, <2>3, <2>5
<1> QED BY <1>2, <1>3 DEF Readable

\* What lost pages may leave, a page rendered in part may leave as well.
LEMMA MoreIsPartial ==
  ASSUME NEW s \in Slugs, NEW c, NEW some \in BOOLEAN, NEW more \in BOOLEAN,
         Partial(s, c, some), some => more
  PROVE  Partial(s, c, more)
<1>1. Named(s, some) \subseteq Named(s, more)
  BY DEF Named
<1> QED BY <1>1 DEF Partial

\* What an answer shows of a page, and that a scar remembers a damaged one.
LEMMA ReceivedShows ==
  ASSUME ListTypes, NEW s \in Slugs, NEW a \in Answers, Scarred(s, a),
         NEW p \in Pages, NEW page \in Received(p, a)
  PROVE  /\ page \in Readable(p, s \in cut')
         /\ a = "ok" => page = p.whole
         /\ cut \subseteq cut' /\ cut' \subseteq Slugs
         /\ \A q \in Slugs : q # s => (q \in cut' <=> q \in cut)
<1>1. cut' = IF a = "damaged" THEN cut \cup {s} ELSE cut
  BY DEF Scarred
<1>2. CASE a = "damaged"
  <2>1. page \in Parts(p) /\ s \in cut' /\ cut' = cut \cup {s}
    BY <1>1, <1>2 DEF Received
  <2> QED BY <1>2, <2>1 DEF Readable, ListTypes
<1>3. CASE a # "damaged"
  <2>1. page \in {p.whole, Blank} /\ (a = "ok" => page = p.whole) /\ cut' = cut
    BY <1>1, <1>3 DEF Received
  <2> QED BY <2>1 DEF Readable, ListTypes
<1> QED BY <1>2, <1>3

(* hmd.py:491-498: a page that cannot be read, or not all of it, takes     *)
(* away, and adds nothing but what the page said less of all along.        *)
LEMMA ContentFacts ==
  ASSUME ListTypes, NEW s \in Slugs, NEW card, NEW some \in BOOLEAN,
         NEW page \in Readable(given.truth[s].specs, some),
         NEW base \in Readable(given.truth[s].base, some),
         collector # "hmd-nokia" => base = Blank
  PROVE  LET c == ContentOf(card, page, base) IN
         /\ c \in Discoveries /\ Partial(s, c, some)
         /\ \/ page = given.truth[s].specs.whole /\ base = given.truth[s].base.whole
            \/ page = given.truth[s].specs.whole /\ (collector = "hmd-nokia" => page.sku # NoSku)
            => Same(c, Whole(s))
<1> DEFINE t == given.truth[s]
           c == ContentOf(card, page, base)
<1>1. t.specs \in Pages /\ t.base \in Pages /\ collector \in Readers
  BY DEF ListTypes, Truths
<1>2. /\ page \in Evidence /\ base \in Evidence /\ Blank.sku = NoSku
      /\ ~some => page \in {Blank, t.specs.whole}
      /\ FieldsArePresent(page) => page # Blank /\ FieldsArePresent(t.specs.whole)
      /\ \A x \in Fields : page.spec[x] \in {Absent, t.specs.whole.spec[x]} \cup t.specs.less[x]
      /\ page.sku \in {NoSku, t.specs.whole.sku} \cup (IF some THEN t.specs.others ELSE {})
      /\ base.sku \in {NoSku, t.base.whole.sku} \cup (IF some THEN t.base.others ELSE {})
  BY <1>1, PartsShow DEF Blank
<1>3. /\ c = [sku |-> c.sku, complete |-> c.complete, spec |-> c.spec, rest |-> c.rest]
      /\ c.spec = page.spec
      /\ c.complete = (collector # "itel-india" /\ FieldsArePresent(page))
      /\ c.sku = IF collector = "hmd-nokia" /\ page.sku = NoSku THEN base.sku ELSE page.sku
      /\ c.rest \in {"catalogue_card", "specs_title", "base_title", "specs_h1_fallback",
                     "base_h1_fallback", "slug_fallback", "listing", "model_row", "card",
                     "product_group", "slug"}
  BY <1>1, ContentShows
<1>4. /\ Whole(s).spec = t.specs.whole.spec
      /\ Whole(s).complete = (collector # "itel-india" /\ FieldsArePresent(t.specs.whole))
      /\ Whole(s).sku = IF collector = "hmd-nokia" /\ t.specs.whole.sku = NoSku
                        THEN t.base.whole.sku ELSE t.specs.whole.sku
  BY <1>1, ContentShows DEF Whole
<1> HIDE DEF c
<1>5. page.sku \in Skus \cup {NoSku} /\ base.sku \in Skus \cup {NoSku}
      /\ page.spec \in [Fields -> Values \cup {Absent}]
  BY <1>2 DEF Evidence
<1>6. c.complete \in BOOLEAN
  BY <1>3
<1>7. c \in Discoveries
  BY <1>3, <1>5, <1>6 DEF Discoveries
<1>8. Partial(s, c, some)
  <2>1. c.sku = NoSku \/ c.sku \in Named(s, some)
    BY <1>2, <1>3 DEF Named
  <2> QED BY <1>2, <1>3, <2>1 DEF Partial
<1>9. ASSUME \/ page = t.specs.whole /\ base = t.base.whole
             \/ page = t.specs.whole /\ (collector = "hmd-nokia" => page.sku # NoSku)
      PROVE  Same(c, Whole(s))
  BY <1>3, <1>4, <1>9 DEF Same
<1> QED BY <1>7, <1>8, <1>9 DEF c

(* hmd.py:485-516: the discovery is emitted and its slug is done with.     *)
LEMMA EmitKeeps ==
  ASSUME ListInv, NEW job, First(job), NEW content \in Discoveries, Emit(job, content),
         Parsing, Partial(job.slug, content, job.slug \in cut'),
         Clean' => Clean /\ Same(content, Whole(job.slug)),
         UNCHANGED <<collector, crawl, given, site, past, heard, torn, swept, log>>,
         cut' \subseteq Slugs, \A q \in Slugs : q # job.slug => (q \in cut' <=> q \in cut),
         faults' \in [tries : Nat, bad : BOOLEAN], faults'.tries <= Enough
  PROVE  ListInv'
<1> DEFINE s == job.slug
<1>1. /\ job \in todo /\ IsJob(job) /\ s \in Slugs /\ job.auto \in Classes
      /\ FinalClassification(s, job.auto) = "feature_phone"
      /\ given.over[s] = "none" => job.auto = "feature_phone"
  BY FinalIsClass DEF First, ListInv, ListTypes, IsJob, Warranted
<1>2. /\ todo' = todo \ {job} /\ get' = NoGet /\ specs' = NotRead
      /\ found' = [found EXCEPT ![s] = content]
  BY DEF Emit
<1>3. /\ found \in [Slugs -> Discoveries \cup {NoContent}] /\ content # NoContent
      /\ found'[s] = content /\ \A q \in Slugs : q # s => found'[q] = found[q]
      /\ \A q \in Slugs : found'[q] # NoContent <=> found[q] # NoContent \/ q = s
  BY <1>1, <1>2, Constants DEF ListInv, ListTypes
<1>4. /\ ~Reading /\ ~Reading' /\ ~Parsing' /\ get.page # "sitemap" /\ get'.page = "none"
      /\ crawl = "running"
  BY <1>2 DEF Parsing, Reading, NoGet, ListInv, Stage
<1>5. /\ todo' \subseteq todo /\ \A j \in todo : j.slug = s <=> j = job
      /\ \A j \in todo : Logged(j.slug) => j = job
      /\ <<s, "feature_phone">> \in log
      /\ \A q \in Slugs : <<q, "feature_phone">> \in log <=> found[q] # NoContent \/ q = s
      /\ \A e \in log, f \in log : e[1] = f[1] => e = f
  <2>1. \A j \in todo : Logged(j.slug) => j = job
    BY <1>4, OneIsFirst DEF ListInv, Agreed
  <2>2. \A q \in Slugs : <<q, "feature_phone">> \in log <=> found[q] # NoContent \/ q = s
    BY <1>1, <1>4, OneIsFirst DEF ListInv, Agreed
  <2> QED BY <1>1, <1>2, <2>1, <2>2 DEF ListInv, Stage, Agreed
<1>6. ListTypes'
  <2>1. found' \in [Slugs -> Discoveries \cup {NoContent}]
    BY <1>1, <1>2, <1>3
  <2>2. specs' \in [ok : BOOLEAN, page : Evidence]
    BY <1>2, Blanks DEF NotRead
  <2> QED BY <1>2, <1>5, <2>1, <2>2 DEF ListInv, ListTypes, NoGet, IsJob
<1>7. Stage'
  BY <1>2, <1>4, <1>5 DEF ListInv, Stage
<1>8. Told'
  BY <1>4 DEF ListInv, Told
<1>9. Awaited'
  <2> SUFFICES ASSUME Decider' \notin torn', NEW q \in Slugs, given.over[q] = "none",
                      \A p \in past[q] : Vouched(p)', found'[q] = NoContent
               PROVE  \E j \in todo' : j.slug = q /\ j.auto = "feature_phone"
    BY DEF Awaited
  <2>1. PICK j \in todo : j.slug = q /\ j.auto = "feature_phone"
    BY <1>3, <1>4, SameSite DEF ListInv, Awaited
  <2> QED BY <1>2, <1>3, <2>1
<1>10. Warranted'
  <2>1. \A q \in Slugs : Justified(q)' <=> Justified(q)
    BY DEF Justified
  <2>2. ASSUME collector # "punkt-ch", given.over[s] = "none" PROVE Justified(s)
    BY <1>1, <2>2 DEF ListInv, Warranted
  <2>3. NeverGuessed'
    BY <1>3, <2>2 DEF ListInv, Warranted, NeverGuessed, Justified
  <2>4. \A j \in todo' : j.slug \in Slugs
    BY <1>5 DEF ListInv, ListTypes, IsJob
  <2> QED BY <1>4, <1>5, <2>1, <2>3, <2>4 DEF ListInv, Warranted
<1>11. Agreed'
  <2>1. \A j \in todo' : ~Logged(j.slug)'
    BY <1>2, <1>5 DEF Logged
  <2> QED BY <1>3, <1>4, <1>5, <2>1 DEF Agreed
<1>12. Truthful'
  <2>1. ASSUME NEW q \in Slugs, found'[q] # NoContent PROVE Partial(q, found'[q], q \in cut')
    <3>1. CASE q = s
      BY <1>3, <3>1
    <3>2. CASE q # s
      <4>1. Partial(q, found[q], q \in cut) /\ found'[q] = found[q] /\ (q \in cut') = (q \in cut)
        BY <1>3, <2>1, <3>2 DEF ListInv, Truthful
      <4> QED BY <4>1
    <3> QED BY <3>1, <3>2
  <2> QED BY <1>4, <2>1, SameSite DEF Truthful
<1>13. Unharmed'
  <2>1. ASSUME Clean' PROVE CleanSoFar'
    <3>1. \A q \in Slugs : found'[q] # NoContent => Same(found'[q], Whole(q))
      BY <1>3, <2>1 DEF ListInv, Unharmed, CleanSoFar
    <3> QED BY <1>4, <3>1, SameSite DEF CleanSoFar
  <2> QED BY <1>4, <2>1 DEF Unharmed
<1>14. Mapped' /\ Handed'
  <2>1. \A q \in Slugs : Queued(q) => Queued(q)' \/ q = s
    BY <1>2 DEF Queued
  <2>2. Logged(s)' /\ \A q : Logged(q)' <=> Logged(q)
    BY <1>5 DEF Logged
  <2> QED BY <1>4, <2>1, <2>2 DEF ListInv, Mapped, Handed
<1> QED BY <1>6, <1>7, <1>8, <1>9, <1>10, <1>11, <1>12, <1>13, <1>14 DEF ListInv

(* hmd.py:482-494: the first page of a product has been answered.          *)
LEMMA SpecsKeeps ==
  ASSUME ListInv, Specs
  PROVE  ListInv'
<1> DEFINE Answer(job, a, page) ==
        /\ Answered("specs", a) /\ First(job) /\ Scarred(job.slug, a)
        /\ IF NeedsBase(job.card, a \notin Lost, page)
           THEN /\ Ask("base") /\ specs' = [ok |-> a \notin Lost, page |-> page]
                /\ UNCHANGED <<todo, found>>
           ELSE Emit(job, ContentOf(job.card, page, Blank))
        /\ UNCHANGED <<collector, crawl, given, site, past, moves, heard, torn, swept, log>>
<1>0. PICK a \in Answers, job \in todo :
        \E page \in Received(given.truth[job.slug].specs, a) : Answer(job, a, page)
  BY DEF Specs
<1>1. PICK page \in Received(given.truth[job.slug].specs, a) : Answer(job, a, page)
  BY <1>0
<1> DEFINE s == job.slug
           content == ContentOf(job.card, page, Blank)
<1>2. /\ UNCHANGED <<collector, crawl, given, site, past, heard, torn, swept, log>>
      /\ job \in todo /\ First(job) /\ s \in Slugs
      /\ given.truth[s].specs \in Pages
  BY <1>1 DEF ListInv, ListTypes, IsJob, Truths
<1>3. /\ get.page = "specs" /\ faults' \in [tries : Nat, bad : BOOLEAN] /\ faults'.tries <= Enough
      /\ Clean' => Clean /\ a = "ok"
  BY <1>1, <1>2, Answering DEF ListInv
<1>4. /\ Parsing /\ page \in Readable(given.truth[s].specs, s \in cut')
      /\ a = "ok" => page = given.truth[s].specs.whole
      /\ cut \subseteq cut' /\ cut' \subseteq Slugs
      /\ \A q \in Slugs : q # s => (q \in cut' <=> q \in cut)
      /\ (s \in cut') \in BOOLEAN
  BY <1>1, <1>2, <1>3, ReceivedShows DEF Parsing, ListInv
<1>5. CASE ~NeedsBase(job.card, a \notin Lost, page)
  <2>1. Emit(job, content)
    BY <1>1, <1>5
  <2>2. collector = "hmd-nokia" => page.sku # NoSku
    BY <1>5 DEF NeedsBase
  <2>3. /\ content \in Discoveries /\ Partial(s, content, s \in cut')
        /\ page = given.truth[s].specs.whole => Same(content, Whole(s))
    BY <1>2, <1>4, <2>2, ContentFacts DEF ListInv, Readable
  <2>4. Clean' => Clean /\ Same(content, Whole(s))
    BY <1>3, <1>4, <2>3
  <2> HIDE DEF content
  <2> QED BY <1>2, <1>3, <1>4, <2>1, <2>3, <2>4, EmitKeeps
<1>6. CASE NeedsBase(job.card, a \notin Lost, page)
  <2>1. /\ get' = [page |-> "base", try |-> 1] /\ specs' = [ok |-> a \notin Lost, page |-> page]
        /\ UNCHANGED <<todo, found>> /\ collector = "hmd-nokia"
    BY <1>1, <1>6 DEF Ask, NeedsBase
  <2>2. /\ Parsing' /\ ~Reading /\ ~Reading' /\ get.page # "sitemap" /\ get.page # "second"
        /\ crawl = "running"
    BY <1>3, <2>1 DEF Parsing, Reading, ListInv, ListTypes, Stage, NoGet
  <2>3. \A k \in todo : (First(k)' <=> First(k)) /\ (First(k) => k = job)
    BY <1>2, <2>1, OneIsFirst DEF ListInv, First
  <2>4. page \in Evidence
    BY <1>2, <1>4, PartsShow
  <2>5. ListTypes'
    <3>1. specs' \in [ok : BOOLEAN, page : Evidence]
      BY <2>1, <2>4
    <3> QED BY <1>2, <1>3, <1>4, <2>1, <3>1 DEF ListInv, ListTypes
  <2>6. Stage' /\ Told'
    BY <1>2, <2>1, <2>2 DEF ListInv, Stage, Told
  <2>7. Awaited' /\ Mapped' /\ Handed'
    BY <1>2, <2>1, <2>2, SameSite DEF ListInv, Awaited, Mapped, Handed, Logged, Queued
  <2>8. Warranted'
    <3>1. \A k \in todo : Justified(k.slug)' <=> Justified(k.slug)
      BY <1>2 DEF Justified
    <3>2. NeverGuessed'
      BY <1>2, <2>1 DEF ListInv, Warranted, NeverGuessed
    <3>3. \A k \in todo : k.slug \in Slugs
      BY DEF ListInv, ListTypes, IsJob
    <3> QED BY <1>2, <1>4, <2>1, <2>3, <3>1, <3>2, <3>3, SameSite DEF ListInv, Warranted
  <2>9. Agreed'
    BY <1>2, <1>4, <2>1, <2>2, <2>3 DEF ListInv, Agreed, Logged
  <2>10. Truthful'
    <3>1. \A k \in todo' : First(k)' => specs'.page \in Readable(given'.truth[k.slug].specs, k.slug \in cut')
      BY <1>2, <1>4, <2>1, <2>3
    <3>2. ASSUME NEW q \in Slugs, found'[q] # NoContent PROVE Partial(q, found'[q], q \in cut')
      <4>1. found[q] # NoContent /\ found'[q] = found[q] /\ (q \in cut => q \in cut')
        BY <1>4, <2>1, <3>2
      <4>2. Partial(q, found[q], q \in cut)
        BY <4>1 DEF ListInv, Truthful
      <4>3. (q \in cut) \in BOOLEAN /\ (q \in cut') \in BOOLEAN
        OBVIOUS
      <4>4. Partial(q, found[q], q \in cut')
        BY <4>1, <4>2, <4>3, MoreIsPartial
      <4> QED BY <4>1, <4>4
    <3> QED BY <1>2, <2>1, <3>1, <3>2, SameSite DEF Truthful
  <2>11. Unharmed'
    <3>1. get'.try \in 1..Tries' /\ get'.try <= faults'.tries + 1
      BY <1>2, <1>3, <2>1, SameSite, Constants
    <3>2. ASSUME Clean' PROVE CleanSoFar'
      <4>1. \A k \in todo' : First(k)' => specs'.page = given'.truth[k.slug].specs.whole
        BY <1>2, <1>3, <1>4, <2>1, <2>3, <3>2
      <4> QED BY <1>2, <1>3, <2>1, <2>2, <3>2, <4>1, SameSite DEF ListInv, Unharmed, CleanSoFar
    <3> QED BY <1>3, <3>1, <3>2 DEF Unharmed
  <2> QED BY <2>5, <2>6, <2>7, <2>8, <2>9, <2>10, <2>11 DEF ListInv
<1> QED BY <1>5, <1>6

(* hmd.py:488-494: so has the second.                                      *)
LEMMA BaseKeeps ==
  ASSUME ListInv, Base
  PROVE  ListInv'
<1> DEFINE Answer(job, a, base) ==
        /\ Answered("base", a) /\ First(job) /\ Scarred(job.slug, a)
        /\ Emit(job, ContentOf(job.card, specs.page, base))
        /\ UNCHANGED <<collector, crawl, given, site, past, moves, heard, torn, swept, log>>
<1>0. PICK a \in Answers, job \in todo :
        \E base \in Received(given.truth[job.slug].base, a) : Answer(job, a, base)
  BY DEF Base
<1>1. PICK base \in Received(given.truth[job.slug].base, a) : Answer(job, a, base)
  BY <1>0
<1> DEFINE s == job.slug
           content == ContentOf(job.card, specs.page, base)
<1>2. /\ UNCHANGED <<collector, crawl, given, site, past, heard, torn, swept, log>>
      /\ job \in todo /\ First(job) /\ s \in Slugs
      /\ given.truth[s].base \in Pages
  BY <1>1 DEF ListInv, ListTypes, IsJob, Truths
<1>3. /\ get.page = "base" /\ faults' \in [tries : Nat, bad : BOOLEAN] /\ faults'.tries <= Enough
      /\ Clean' => Clean /\ a = "ok"
  BY <1>1, <1>2, Answering DEF ListInv
<1>4. /\ Parsing /\ base \in Readable(given.truth[s].base, s \in cut')
      /\ a = "ok" => base = given.truth[s].base.whole
      /\ cut \subseteq cut' /\ cut' \subseteq Slugs
      /\ \A q \in Slugs : q # s => (q \in cut' <=> q \in cut)
  BY <1>1, <1>2, <1>3, ReceivedShows DEF Parsing, ListInv
<1>5. /\ specs.page \in Readable(given.truth[s].specs, s \in cut')
      /\ collector = "hmd-nokia" /\ (s \in cut') \in BOOLEAN
      /\ Clean => specs.page = given.truth[s].specs.whole
  BY <1>2, <1>3, <1>4 DEF Readable, ListInv, Truthful, Unharmed, CleanSoFar
<1>6. /\ content \in Discoveries /\ Partial(s, content, s \in cut')
      /\ specs.page = given.truth[s].specs.whole /\ base = given.truth[s].base.whole
         => Same(content, Whole(s))
  BY <1>2, <1>4, <1>5, ContentFacts DEF ListInv
<1>7. (Clean' => Clean /\ Same(content, Whole(s))) /\ Emit(job, content)
  BY <1>1, <1>3, <1>4, <1>5, <1>6
<1> HIDE DEF content
<1> QED BY <1>2, <1>3, <1>4, <1>6, <1>7, EmitKeeps

-----------------------------------------------------------------------------
(* The sitemap, and the end.                                               *)

LEMMA SweepKeeps ==
  ASSUME ListInv, Sweep
  PROVE  ListInv'
<1>1. /\ UNCHANGED <<collector, crawl, faults, given, site, past, heard, torn, cut, todo, specs, log, found>>
      /\ get = NoGet /\ get' = [page |-> "sitemap", try |-> 1] /\ swept' = TRUE /\ todo = {}
      /\ collector = "hmd-nokia" /\ crawl = "running" /\ ~swept
      /\ ~Reading /\ ~Reading' /\ ~Parsing /\ ~Parsing' /\ Tries' = Tries
  BY SameSite DEF Sweep, Ask, NoGet, Reading, Parsing
<1>2. ListTypes'
  BY <1>1 DEF ListInv, ListTypes
<1>3. Stage' /\ Told'
  BY <1>1 DEF ListInv, Stage, Told
<1>4. Awaited' /\ Mapped' /\ Handed'
  BY <1>1, SameSite DEF ListInv, Awaited, Mapped, Handed
<1>5. Warranted' /\ Agreed'
  BY <1>1 DEF ListInv, Warranted, NeverGuessed, Agreed
<1>6. Truthful'
  BY <1>1, SameSite DEF ListInv, Truthful
<1>7. Unharmed'
  <2>1. Clean' => Clean
    BY <1>1 DEF Clean
  <2> QED BY <1>1, <2>1, SameSite, Constants DEF ListInv, ListTypes, Unharmed, CleanSoFar
<1> QED BY <1>2, <1>3, <1>4, <1>5, <1>6, <1>7 DEF ListInv

(* hmd.py:580-597: the sitemap's phones without a verdict wait for one.    *)
LEMMA SitemapKeeps ==
  ASSUME ListInv, Sitemap
  PROVE  ListInv'
<1>1. PICK a \in Answers :
        /\ Answered("sitemap", a)
        /\ \E sm \in Readings("map", a) : todo' = Group(1, Orphans(sm), "ambiguous", {})
        /\ torn' = IF a = "ok" THEN torn ELSE torn \cup {"sitemap"}
        /\ get' = NoGet
        /\ UNCHANGED <<collector, crawl, given, site, past, moves, heard, cut, swept, specs, log, found>>
  BY DEF Sitemap
<1>2. PICK sm \in Readings("map", a) : todo' = Group(1, Orphans(sm), "ambiguous", {})
  BY <1>1
<1>3. /\ UNCHANGED <<collector, crawl, given, site, past, heard, cut, swept, specs, log, found>>
      /\ get'.page = "none" /\ get' = NoGet /\ ~Reading' /\ ~Parsing'
      /\ torn' \subseteq {"first", "second", "sitemap"} /\ torn \subseteq torn'
      /\ "sitemap" \notin torn' => a = "ok"
  BY <1>1 DEF NoGet, Reading, Parsing, ListInv, ListTypes
<1>4. /\ get.page = "sitemap" /\ faults' \in [tries : Nat, bad : BOOLEAN] /\ faults'.tries <= Enough
      /\ Clean' => Clean /\ a = "ok"
  BY <1>1, <1>3, Answering DEF ListInv
<1>5. todo = {} /\ swept /\ crawl = "running" /\ ~Reading /\ ~Parsing /\ collector = "hmd-nokia"
  BY <1>4 DEF ListInv, ListTypes, Stage, Reading, Parsing, NoGet
<1>6. a = "ok" => \A s \in Slugs : sm[s] = IF "map" \in site[s].on THEN site[s].label ELSE "absent"
  BY <1>2, ReadingsShow DEF ListInv
<1>7. Orphans(sm) \in SUBSET Slugs /\ \A s \in Slugs : s \in Orphans(sm) <=> sm[s] = "phone" /\ ~Logged(s)
  BY DEF Orphans, Labelled, Logged
<1>8. /\ \A j \in todo' : IsJob(j) /\ j.auto = "ambiguous" /\ ~Logged(j.slug)
      /\ \A j, k \in todo' : j.slug = k.slug => j = k
      /\ \A s \in Orphans(sm) : \E j \in todo' : j.slug = s
  <2>1. JobsOf(todo', Orphans(sm), "ambiguous")
    BY <1>2, <1>7, Grouping DEF Classes
  <2> QED BY <1>7, <2>1 DEF JobsOf
<1>9. ListTypes'
  BY <1>3, <1>4, <1>8 DEF ListInv, ListTypes, NoGet, IsJob
<1>10. Stage' /\ Told'
  BY <1>3, <1>5, <1>8 DEF ListInv, Stage, Told
<1>11. Awaited'
  BY <1>3, <1>5, SameSite DEF ListInv, Awaited
<1>12. Warranted'
  BY <1>3, <1>8 DEF ListInv, Warranted, NeverGuessed, Justified
<1>13. Agreed'
  BY <1>3, <1>5, <1>8 DEF ListInv, Agreed, Logged
<1>14. Truthful'
  BY <1>3, SameSite DEF ListInv, Truthful
<1>15. Unharmed'
  BY <1>3, <1>4, SameSite DEF ListInv, Unharmed, CleanSoFar
<1>16. Mapped'
  <2> SUFFICES ASSUME "sitemap" \notin torn', NEW s \in Slugs, site[s].label = "phone",
                      "map" \in site[s].on
               PROVE  Logged(s)' \/ Queued(s)'
    BY <1>3 DEF Mapped
  <2> QED BY <1>3, <1>6, <1>7, <1>8 DEF Logged, Queued
<1>17. Handed'
  BY <1>3, <1>5 DEF Handed
<1> QED BY <1>9, <1>10, <1>11, <1>12, <1>13, <1>14, <1>15, <1>16, <1>17 DEF ListInv

LEMMA HandOverKeeps ==
  ASSUME ListInv, HandOver
  PROVE  ListInv'
<1>1. /\ UNCHANGED <<collector, get, faults, given, site, past, heard, torn, cut, swept, todo, specs, log, found>>
      /\ get = NoGet /\ todo = {} /\ crawl = "running" /\ crawl' = "done"
      /\ collector = "hmd-nokia" /\ given.orphans => swept
      /\ Tries' = Tries
  BY SameSite DEF HandOver, listingVars
<1>2. ListTypes' /\ Stage' /\ Told'
  BY <1>1 DEF ListInv, ListTypes, Stage, Told, Reading
<1>3. Awaited' /\ Mapped' /\ Handed'
  BY <1>1, SameSite DEF ListInv, Awaited, Mapped, Handed, Reading, Logged, Queued
<1>4. Warranted' /\ Agreed'
  BY <1>1 DEF ListInv, Warranted, NeverGuessed, Parsing, Agreed, Logged
<1>5. Truthful'
  BY <1>1, SameSite DEF ListInv, Truthful
<1>6. Unharmed'
  <2>1. Clean' => Clean
    BY <1>1 DEF Clean
  <2> QED BY <1>1, <2>1, SameSite DEF ListInv, Unharmed, CleanSoFar
<1> QED BY <1>2, <1>3, <1>4, <1>5, <1>6 DEF ListInv

LEMMA ListNext ==
  ASSUME ListInv, ListingNext
  PROVE  ListInv'
<1>1. CASE Retry \/ Abort
  BY <1>1, WaitKeeps
<1>2. CASE FirstListing
  BY <1>2, FirstListingKeeps
<1>3. CASE SecondListing
  BY <1>3, SecondListingKeeps
<1>4. CASE Visit
  BY <1>4, VisitKeeps
<1>5. CASE Title
  BY <1>5, TitleKeeps
<1>6. CASE Specs
  BY <1>6, SpecsKeeps
<1>7. CASE Base
  BY <1>7, BaseKeeps
<1>8. CASE Sweep
  BY <1>8, SweepKeeps
<1>9. CASE Sitemap
  BY <1>9, SitemapKeeps
<1>10. CASE HandOver
  BY <1>10, HandOverKeeps
<1>11. CASE \E s \in Slugs : Move(s)
  BY <1>11, MoveKeeps
<1> QED BY <1>1, <1>2, <1>3, <1>4, <1>5, <1>6, <1>7, <1>8, <1>9, <1>10, <1>11
        DEF ListingNext, ListingStep

-----------------------------------------------------------------------------
(* What the invariant says of a crawl over listings.                       *)

LEMMA EmittedWhenDone == ListInv => ListedIsEmitted
BY DEF ListInv, ListedIsEmitted, Awaited, Handed, Stage, Reading, NoGet

LEMMA AgreedWhenDone == ListInv => OneVerdict
<1> SUFFICES ASSUME ListInv PROVE OneVerdict
  OBVIOUS
<1>1. crawl = "done" => ~Parsing
  BY DEF ListInv, Stage, Parsing, NoGet
<1> QED BY <1>1 DEF ListInv, Agreed, OneVerdict

LEMMA AbsorbedAlways == ListInv => OutagesAbsorbed
BY DEF ListInv, OutagesAbsorbed, Unharmed, Clean, CleanSoFar

LEMMA MappedWhenDone == ListInv => NothingSlipsThrough
BY DEF ListInv, NothingSlipsThrough, Mapped, Handed, Stage, Logged, Queued, NoGet

(* pipeline.py:178-280, diff.py:115-128: two readings of one product, of   *)
(* which one lacks what the other carries.  A field is reported as changed *)
(* only where a page arrived in part.                                      *)
LEMMA LessIsNoChange ==
  ASSUME ListTypes, NEW s \in Slugs, NEW some \in BOOLEAN, NEW f \in Discoveries, Partial(s, f, some)
  PROVE  LET w == Whole(s)
             alarm == IF SkusDisagree(s, some) THEN {"identity_anomaly"} ELSE {}
             thinned == IF some /\ \E x \in Fields : given.truth[s].specs.less[x] # {}
                        THEN {"field_changed"} ELSE {}
             regained == IF some THEN {"field_changed"} ELSE {}
         IN  /\ P!Owed(FirstSeen(w), w, f) \subseteq {"specs_became_unavailable"} \cup alarm \cup thinned
             /\ P!Owed(FirstSeen(w), f, w) \subseteq {"specs_became_available"} \cup regained
             /\ P!Owed(FirstSeen(f), f, w) \subseteq {"specs_became_available"} \cup alarm \cup regained
<1> DEFINE page == given.truth[s].specs
           w == Whole(s)
           cutShort == some /\ \E x \in Fields : page.less[x] # {}
           Row(c) == FirstSeen(c)
<1>1. collector \in Readers /\ page \in Pages /\ page.whole \in Evidence /\ given.truth[s].base \in Pages
  BY DEF ListTypes, Truths, Pages
<1>2. /\ w.spec = page.whole.spec
      /\ w.complete = (collector # "itel-india" /\ FieldsArePresent(page.whole))
      /\ w.sku = IF collector = "hmd-nokia" /\ page.whole.sku = NoSku
                 THEN given.truth[s].base.whole.sku ELSE page.whole.sku
  BY <1>1, ContentShows DEF Whole
<1>3. /\ f.complete =>
           /\ collector # "itel-india" /\ FieldsArePresent(page.whole)
           /\ ~some => f.spec = page.whole.spec
           /\ \A x \in Fields : f.spec[x] \in {Absent, page.whole.spec[x]} \cup page.less[x]
      /\ f.sku = NoSku \/ f.sku \in Named(s, some)
  BY DEF Partial
<1>4. f.complete => w.complete
  BY <1>2, <1>3
<1>5. \A c : Row(c).sku = c.sku /\ Row(c).status = "active"
  BY DEF FirstSeen, P!Seen, P!UnknownRow
<1>6. f.sku # NoSku /\ w.sku # NoSku /\ f.sku # w.sku => SkusDisagree(s, some)
  <2>1. w.sku # NoSku => w.sku \in Named(s, some)
    BY <1>2 DEF Named
  <2> QED BY <1>3, <2>1 DEF SkusDisagree
<1>7. /\ P!Anomalous(Row(w), f) => SkusDisagree(s, some)
      /\ P!Anomalous(Row(f), w) => SkusDisagree(s, some)
      /\ ~P!Anomalous(Row(w), w)
  BY <1>5, <1>6 DEF P!Anomalous
<1>8. /\ f.complete /\ ~some => P!MeaningfulChanges(w, f) = {} /\ P!MeaningfulChanges(f, w) = {}
      /\ f.complete /\ ~cutShort => P!MeaningfulChanges(w, f) = {}
  BY <1>2, <1>3 DEF P!MeaningfulChanges
<1> HIDE DEF w, Row, cutShort
<1>9. P!Owed(Row(w), w, f) \subseteq
        {"specs_became_unavailable"} \cup (IF SkusDisagree(s, some) THEN {"identity_anomaly"} ELSE {})
          \cup (IF cutShort THEN {"field_changed"} ELSE {})
  BY <1>4, <1>5, <1>7, <1>8 DEF P!Owed
<1>10. P!Owed(Row(w), f, w) \subseteq
         {"specs_became_available"} \cup (IF some THEN {"field_changed"} ELSE {})
  BY <1>4, <1>5, <1>7, <1>8 DEF P!Owed
<1>11. P!Owed(Row(f), f, w) \subseteq
         {"specs_became_available"} \cup (IF SkusDisagree(s, some) THEN {"identity_anomaly"} ELSE {})
           \cup (IF some THEN {"field_changed"} ELSE {})
  BY <1>4, <1>5, <1>7, <1>8 DEF P!Owed
<1> QED BY <1>9, <1>10, <1>11 DEF w, Row, cutShort

LEMMA LessAlways == ListInv => OutageIsNotAChange
<1> SUFFICES ASSUME ListInv, NEW s \in Slugs, found[s] # NoContent
             PROVE  LET f == found[s]
                        w == Whole(s)
                        damaged == s \in cut
                        alarm == IF SkusDisagree(s, damaged) THEN {"identity_anomaly"} ELSE {}
                        thinned == IF damaged /\ \E x \in Fields : given.truth[s].specs.less[x] # {}
                                   THEN {"field_changed"} ELSE {}
                        regained == IF damaged THEN {"field_changed"} ELSE {}
                    IN  /\ P!Owed(FirstSeen(w), w, f)
                             \subseteq {"specs_became_unavailable"} \cup alarm \cup thinned
                        /\ P!Owed(FirstSeen(w), f, w) \subseteq {"specs_became_available"} \cup regained
                        /\ P!Owed(FirstSeen(f), f, w)
                             \subseteq {"specs_became_available"} \cup alarm \cup regained
  BY DEF OutageIsNotAChange
<1>1. found[s] \in Discoveries /\ Partial(s, found[s], s \in cut) /\ (s \in cut) \in BOOLEAN
  BY DEF ListInv, ListTypes, Truthful
<1> QED BY <1>1, LessIsNoChange DEF ListInv

-----------------------------------------------------------------------------
(* Catalogue documents: the first claim of an identity decides.            *)

LEMMA ShopStarts == ShopInit => ShopInv
<1> SUFFICES ASSUME ShopInit PROVE ShopInv
  OBVIOUS
<1>1. /\ collector \in Shops /\ crawl = "running" /\ get = [page |-> "catalogue", try |-> 1]
      /\ shelf = <<>> /\ at = 0 /\ seen = {} /\ sold = <<>>
  BY DEF ShopInit
<1>2. ShopTypes
  BY <1>1 DEF ShopTypes
<1>3. Claimed(at) = {} /\ Accepted(at) = {} /\ {sold[n] : n \in 1..Len(sold)} = {}
  BY <1>1 DEF Claimed, Accepted
<1> QED BY <1>1, <1>2, <1>3 DEF ShopInv

\* What one more item adds to the identities claimed and accepted.
LEMMA OneMore ==
  ASSUME NEW k \in Nat
  PROVE  LET item == shelf[k + 1] IN
         /\ Claimed(k + 1) = Claimed(k) \cup (IF Claims(item) THEN {item.id} ELSE {})
         /\ Accepted(k + 1) =
              Accepted(k) \cup (IF /\ Claims(item) /\ item.id \notin Claimed(k)
                                   /\ Acceptable(item)
                                THEN {item.id} ELSE {})
<1> DEFINE item == shelf[k + 1]
<1>1. 1..(k + 1) = (1..k) \cup {k + 1} /\ (k + 1) - 1 = k
  OBVIOUS
<1>2. Claimed(k + 1) = Claimed(k) \cup (IF Claims(item) THEN {item.id} ELSE {})
  <2>1. {j \in 1..(k + 1) : Claims(shelf[j])} =
          {j \in 1..k : Claims(shelf[j])} \cup (IF Claims(item) THEN {k + 1} ELSE {})
    BY <1>1
  <2> QED BY <2>1 DEF Claimed
<1>3. Claimant(k + 1) <=> Claims(item) /\ item.id \notin Claimed(k)
  BY <1>1 DEF Claimant, Claimed
<1>4. {j \in 1..(k + 1) : Claimant(j) /\ Acceptable(shelf[j])} =
        {j \in 1..k : Claimant(j) /\ Acceptable(shelf[j])}
          \cup (IF Claimant(k + 1) /\ Acceptable(item) THEN {k + 1} ELSE {})
  BY <1>1
<1>5. Accepted(k + 1) = Accepted(k) \cup (IF Claimant(k + 1) /\ Acceptable(item) THEN {item.id} ELSE {})
  BY <1>4 DEF Accepted
<1> QED BY <1>2, <1>3, <1>5

(* doro.py:149-180, sunbeam.py:195-225, tcl_alcatel.py:110-130,            *)
(* mudita.py:140-170: an item claims its identity when the shop's rules    *)
(* let it, and is sold when it is the first to claim it and acceptable.    *)
Reads ==
  /\ seen' = seen \cup (IF Claims(Item) THEN {Item.id} ELSE {})
  /\ sold' = IF Claims(Item) /\ Item.id \notin seen /\ Acceptable(Item)
             THEN Append(sold, Item.id) ELSE sold

LEMMA EveryShopReads ==
  ASSUME ShopInv, ReadItem
  PROVE  Reads
<1>1. at \in Nat /\ at + 1 \in 1..Len(shelf) /\ seen = Claimed(at)
  BY LenProperties DEF ReadItem, ShopInv, ShopTypes
<1>2. Item.kind \in Kinds
  <2>1. Item \in [id : Ids, kind : Kinds] /\ Item = shelf[at + 1]
    BY <1>1, ElementOfSeq DEF Item, ShopInv, ShopTypes
  <2> QED BY <2>1
<1>3. CASE collector = "doro-gb" /\ Doro
  <2>1. Item.kind \in {"nameless", "aurora", "linkless", "phone", "unbranded"}
    BY <1>2, <1>3 DEF Kinds
  <2>2. Claims(Item) <=> Item.kind # "nameless"
    BY <1>3 DEF Claims
  <2> QED BY <1>3, <2>1, <2>2 DEF Doro, Skip, Claim, Note, Sell, Acceptable, Reads
<1>4. CASE collector = "sunbeam-f1-us" /\ Sunbeam
  <2>1. Item.kind \in {"premium", "service", "accessory", "outside", "phone"}
    BY <1>2, <1>4 DEF Kinds
  <2>2. Claims(Item) <=> Acceptable(Item)
    BY <1>4 DEF Claims
  <2> QED BY <1>4, <2>1, <2>2 DEF Sunbeam, Skip, Claim, Note, Sell, Acceptable, Reads
<1>5. CASE collector = "tcl-alcatel-global" /\ Alcatel
  <2>1. Item.kind \in {"uppercase", "other", "phone"}
    BY <1>2, <1>5 DEF Kinds
  <2>2. Claims(Item) <=> Item.kind # "uppercase"
    BY <1>5 DEF Claims
  <2> QED BY <1>5, <2>1, <2>2 DEF Alcatel, Silent, Claim, Note, Sell, Acceptable, Reads
<1>6. CASE collector = "mudita-com" /\ Mudita
  <2>1. Item.kind \in {"adjacent", "unknown", "phone/", "phone"}
    BY <1>2, <1>6 DEF Kinds
  <2>2. Claims(Item) <=> Acceptable(Item)
    BY <1>6 DEF Claims
  <2>3. (\E i \in 1..at : shelf[i] = Item) /\ Claims(Item) => Item.id \in seen
    BY <1>1 DEF Claimed
  <2> QED BY <1>6, <2>1, <2>2, <2>3
          DEF Mudita, Silent, Skip, Claim, Note, Sell, Acceptable, Reads
<1> QED BY <1>3, <1>4, <1>5, <1>6 DEF ReadItem

LEMMA ReadItemKeeps ==
  ASSUME ShopInv, ReadItem
  PROVE  ShopInv'
<1>1. /\ UNCHANGED <<collector, crawl, get, shelf>> /\ at' = at + 1 /\ at \in Nat
      /\ at + 1 \in 1..Len(shelf) /\ crawl = "running" /\ get.page = "none" /\ seen = Claimed(at)
  BY LenProperties DEF ReadItem, NoGet, ShopInv, ShopTypes
<1>2. Reads
  BY EveryShopReads
<1>3. Item \in [id : Ids, kind : Kinds] /\ Item = shelf[at + 1]
  BY <1>1, ElementOfSeq DEF Item, ShopInv, ShopTypes
<1>4. Kinds' = Kinds
  BY <1>1 DEF Kinds
<1>5. \A i : Claims(shelf[i])' <=> Claims(shelf[i])
  BY <1>1 DEF Claims
<1>6. Claimed(at)' = Claimed(at + 1)
  BY <1>1, <1>5 DEF Claimed
<1>7. Accepted(at)' = Accepted(at + 1)
  BY <1>1, <1>5 DEF Accepted, Claimant
<1>8. seen' = Claimed(at)'
  BY <1>1, <1>2, <1>3, <1>6, OneMore DEF Reads
<1>9. /\ sold' \in Seq(Ids) /\ {sold'[n] : n \in 1..Len(sold')} = Accepted(at)'
      /\ \A m, n \in 1..Len(sold') : sold'[m] = sold'[n] => m = n
  <2>1. /\ sold \in Seq(Ids) /\ {sold[n] : n \in 1..Len(sold)} = Accepted(at)
        /\ \A m, n \in 1..Len(sold) : sold[m] = sold[n] => m = n
        /\ Len(sold) \in Nat
    BY LenProperties DEF ShopInv, ShopTypes
  <2>2. CASE Claims(Item) /\ Item.id \notin seen /\ Acceptable(Item)
    <3>1. sold' = Append(sold, Item.id) /\ Item.id \in Ids
      BY <1>2, <1>3, <2>2 DEF Reads
    <3>2. /\ sold' \in Seq(Ids) /\ Len(sold') = Len(sold) + 1
          /\ \A i \in 1..Len(sold) : sold'[i] = sold[i]
          /\ sold'[Len(sold) + 1] = Item.id
      BY <2>1, <3>1, AppendProperties
    <3>3. 1..Len(sold') = (1..Len(sold)) \cup {Len(sold) + 1}
      BY <2>1, <3>2
    <3>4. Accepted(at)' = Accepted(at) \cup {Item.id}
      BY <1>1, <1>3, <1>7, <2>2, OneMore
    <3>5. Item.id \notin Accepted(at)
      BY <1>1, <2>2 DEF Accepted, Claimed, Claimant
    <3>6. \A n \in 1..Len(sold) : sold[n] # Item.id
      BY <2>1, <3>5
    <3> QED BY <2>1, <3>2, <3>3, <3>4, <3>6
  <2>3. CASE ~(Claims(Item) /\ Item.id \notin seen /\ Acceptable(Item))
    <3>1. sold' = sold
      BY <1>2, <2>3 DEF Reads
    <3>2. Accepted(at)' = Accepted(at)
      BY <1>1, <1>3, <1>7, <2>3, OneMore
    <3> QED BY <2>1, <3>1, <3>2
  <2> QED BY <2>2, <2>3
<1>10. ShopTypes'
  <2>1. seen' \subseteq Ids
    BY <1>2, <1>3 DEF Reads, ShopInv, ShopTypes
  <2>2. at' \in 0..Len(shelf')
    BY <1>1
  <2> QED BY <1>1, <1>4, <1>9, <2>1, <2>2 DEF ShopInv, ShopTypes
<1> QED BY <1>1, <1>8, <1>9, <1>10 DEF ShopInv

(* The document arrives, whole or damaged, or the crawl fails.             *)
LEMMA CatalogueKeeps ==
  ASSUME ShopInv, Catalogue
  PROVE  ShopInv'
<1>1. /\ UNCHANGED <<collector, at, seen, sold>> /\ get.page = "catalogue" /\ get' = NoGet
      /\ \/ crawl' = "failed" /\ shelf' = shelf
         \/ /\ crawl' = crawl
            /\ shelf' \in UNION {[1..n -> [id : Ids, kind : Kinds]] : n \in 0..MaxItems}
  BY DEF Catalogue, Answered
<1>2. at = 0 /\ shelf = <<>> /\ crawl = "running" /\ Kinds' = Kinds
  BY <1>1 DEF ShopInv, Kinds
<1>3. shelf' \in Seq([id : Ids, kind : Kinds])
  <2> DEFINE Items == [id : Ids, kind : Kinds]
  <2> SUFFICES shelf' \in Seq(Items)
    OBVIOUS
  <2>1. CASE shelf' = shelf
    BY <1>2, <2>1
  <2>2. ASSUME NEW n \in 0..MaxItems, shelf' \in [1..n -> Items]
        PROVE  shelf' \in Seq(Items)
    <3> HIDE DEF Items
    <3>1. n \in Nat
      BY <2>2, FloorAssumption
    <3> QED BY <2>2, <3>1, SeqDef
  <2> HIDE DEF Items
  <2>3. shelf' = shelf \/ \E n \in 0..MaxItems : shelf' \in [1..n -> Items]
    BY <1>1 DEF Items
  <2> QED BY <2>1, <2>2, <2>3
<1>4. ShopTypes'
  <2>1. at' \in 0..Len(shelf')
    BY <1>1, <1>2, <1>3, LenProperties
  <2> QED BY <1>1, <1>2, <1>3, <2>1 DEF ShopInv, ShopTypes, NoGet
<1>5. Claimed(at)' = Claimed(at) /\ Accepted(at)' = Accepted(at)
  BY <1>1, <1>2 DEF Claimed, Accepted
<1>6. UNCHANGED <<collector, at, seen, sold>> /\ get'.page = "none" /\ crawl' # "done"
  BY <1>1, <1>2 DEF NoGet
<1> QED BY <1>4, <1>5, <1>6 DEF ShopInv

(* doro.py:199-203: the completeness guard.                                *)
LEMMA CheckFloorKeeps ==
  ASSUME ShopInv, CheckFloor
  PROVE  ShopInv'
<1>1. /\ UNCHANGED <<collector, get, shelf, at, seen, sold>> /\ at = Len(shelf) /\ get.page = "none"
      /\ crawl' = IF Len(sold) < Floor[collector] \/ ~Anchored THEN "failed" ELSE "done"
  BY DEF CheckFloor, shopVars, NoGet
<1>2. Len(sold) \in Nat /\ Floor[collector] \in Nat
  BY FloorAssumption, LenProperties DEF ShopInv, ShopTypes
<1>3. ShopTypes'
  BY <1>1 DEF ShopInv, ShopTypes, Kinds
<1>4. Claimed(at)' = Claimed(at) /\ Accepted(at)' = Accepted(at)
  BY <1>1 DEF Claimed, Accepted, Claimant, Claims
<1> QED BY <1>1, <1>2, <1>3, <1>4 DEF ShopInv

LEMMA ShopNext ==
  ASSUME ShopInv, ShopStep
  PROVE  ShopInv' /\ collector' = collector
<1>1. collector' = collector
  BY DEF ShopStep, Catalogue, ReadItem, CheckFloor, Raise
<1>2. CASE Raise /\ UNCHANGED shopVars
  <2>1. /\ UNCHANGED <<collector, shelf, at, seen, sold>> /\ crawl' = "failed" /\ get' = NoGet
    BY <1>2 DEF Raise, shopVars
  <2>2. ShopTypes'
    BY <2>1 DEF ShopInv, ShopTypes, NoGet, Kinds
  <2>3. Claimed(at)' = Claimed(at) /\ Accepted(at)' = Accepted(at)
    BY <2>1 DEF Claimed, Accepted, Claimant, Claims
  <2> QED BY <1>1, <2>1, <2>2, <2>3 DEF ShopInv, NoGet
<1> QED BY <1>1, <1>2, CatalogueKeeps, ReadItemKeeps, CheckFloorKeeps DEF ShopStep

LEMMA FirstClaimWhenDone == ShopInv => FirstClaimDecides
<1> SUFFICES ASSUME ShopInv, crawl = "done", NEW id \in Ids
             PROVE  LET claims == {i \in Carrying(id) : Claims(shelf[i])}
                        accepted == \E i \in claims :
                                      Acceptable(shelf[i]) /\ \A j \in claims : i <= j
                    IN  Cardinality({n \in 1..Len(sold) : sold[n] = id}) =
                          IF accepted THEN 1 ELSE 0
  BY DEF FirstClaimDecides
<1> DEFINE claims == {i \in Carrying(id) : Claims(shelf[i])}
           accepted == \E i \in claims : Acceptable(shelf[i]) /\ \A j \in claims : i <= j
           copies == {n \in 1..Len(sold) : sold[n] = id}
<1>1. at = Len(shelf) /\ Len(shelf) \in Nat
  BY LenProperties DEF ShopInv, ShopTypes
<1>2. id \in Accepted(at) <=> accepted
  <2>1. ASSUME id \in Accepted(at) PROVE accepted
    <3>1. PICK i \in 1..at : Claimant(i) /\ Acceptable(shelf[i]) /\ shelf[i].id = id
      BY <2>1 DEF Accepted
    <3>2. i \in claims
      BY <1>1, <3>1 DEF Claimant, Carrying
    <3>3. ASSUME NEW j \in claims PROVE i <= j
      BY <1>1, <3>1, <3>3 DEF Claimant, Carrying
    <3> QED BY <3>1, <3>2, <3>3
  <2>2. ASSUME accepted PROVE id \in Accepted(at)
    <3>1. PICK i \in claims : Acceptable(shelf[i]) /\ \A j \in claims : i <= j
      BY <2>2
    <3>2. i \in 1..at /\ shelf[i].id = id /\ Claims(shelf[i])
      BY <1>1, <3>1 DEF Carrying
    <3>3. ASSUME NEW j \in 1..(i - 1), shelf[j].id = id PROVE ~Claims(shelf[j])
      BY <1>1, <3>1, <3>2, <3>3 DEF Carrying
    <3> QED BY <3>1, <3>2, <3>3 DEF Accepted, Claimant
  <2> QED BY <2>1, <2>2
<1>3. id \in Accepted(at) <=> \E n \in 1..Len(sold) : sold[n] = id
  BY DEF ShopInv
<1>4. CASE accepted
  <2>1. PICK n \in 1..Len(sold) : sold[n] = id
    BY <1>2, <1>3, <1>4
  <2>2. copies = {n}
    BY <2>1 DEF ShopInv
  <2> QED BY <1>4, <2>2, FS_Singleton
<1>5. CASE ~accepted
  <2>1. copies = {}
    BY <1>2, <1>3, <1>5
  <2> QED BY <1>5, <2>1, FS_EmptySet
<1> QED BY <1>4, <1>5

LEMMA UpTo ==
  ASSUME NEW n \in Nat
  PROVE  IsFiniteSet(1..n) /\ Cardinality(1..n) = n
<1>1. 1 \in Int /\ n \in Int
  OBVIOUS
<1>2. IsFiniteSet(1..n) /\ Cardinality(1..n) = IF 1 > n THEN 0 ELSE n - 1 + 1
  BY <1>1, FS_Interval
<1> QED BY <1>2

LEMMA EnoughWhenDone == ShopInv => WholeEnough
<1> SUFFICES ASSUME ShopInv, crawl = "done"
             PROVE  Cardinality({shelf[i].id : i \in {j \in 1..Len(shelf) : Acceptable(shelf[j])}})
                      >= Floor[collector]
  BY DEF WholeEnough
<1> DEFINE D == 1..Len(sold)
           phones == {j \in 1..Len(shelf) : Acceptable(shelf[j])}
           T == {shelf[i].id : i \in phones}
<1>1. /\ at = Len(shelf) /\ Len(shelf) \in Nat /\ Len(sold) \in Nat /\ sold \in [D -> Ids]
      /\ Len(sold) >= Floor[collector] /\ Floor[collector] \in Nat
      /\ \A m, n \in D : sold[m] = sold[n] => m = n
  BY LenProperties, FloorAssumption DEF ShopInv, ShopTypes
<1>2. IsFiniteSet(D) /\ Cardinality(D) = Len(sold)
  BY <1>1, UpTo
<1>3. IsFiniteSet(T)
  <2>1. IsFiniteSet(1..Len(shelf)) /\ phones \in SUBSET (1..Len(shelf))
    BY <1>1, UpTo
  <2>2. IsFiniteSet(phones)
    BY <2>1, FS_Subset
  <2>3. [i \in phones |-> shelf[i].id] \in Surjection(phones, T)
    BY DEF Surjection
  <2> HIDE DEF phones
  <2> QED BY <2>2, <2>3, FS_Surjection
<1>4. \A n \in D : sold[n] \in T
  <2>1. \A n \in D : sold[n] \in Accepted(at)
    BY DEF ShopInv
  <2> QED BY <1>1, <2>1 DEF Accepted
<1>5. sold \in Injection(D, T)
  BY <1>1, <1>4 DEF Injection, IsInjective
<1> HIDE DEF D, T
<1>6. Cardinality(D) <= Cardinality(T) /\ Cardinality(T) \in Nat
  BY <1>3, <1>5, FS_Injection, FS_CardinalityType
<1> QED BY <1>1, <1>2, <1>6 DEF T

-----------------------------------------------------------------------------
(* The invariant of a crawl, and what follows from it.                     *)

LEMMA CrawlStarts == Init => CrawlInv
<1>1. ListingInit /\ NoShop => CrawlInv
  BY ListInit DEF NoShop, CrawlInv
<1>2. ShopInit /\ NoListing => CrawlInv
  BY ShopStarts DEF NoListing, CrawlInv
<1> QED BY <1>1, <1>2 DEF Init

LEMMA CrawlKeeps == CrawlInv /\ [Next]_vars => CrawlInv'
<1> SUFFICES ASSUME CrawlInv, [Next]_vars PROVE CrawlInv'
  OBVIOUS
<1>1. CASE ListInv /\ shelf = <<>> /\ sold = <<>>
  <2>1. collector \in Readers
    BY <1>1 DEF ListInv, ListTypes
  <2>2. CASE ListingNext /\ UNCHANGED shopVars
    BY <1>1, <2>2, ListNext DEF CrawlInv, shopVars
  <2>3. CASE UNCHANGED vars
    <3>1. UNCHANGED <<collector, crawl, get, faults, given, site, past, heard, torn, cut, swept, todo,
                      specs, log, found, shelf, sold>>
      BY <2>3 DEF vars, fetcherVars, listingVars, shopVars
    <3>2. ListTypes' /\ Stage' /\ Told'
      BY <1>1, <3>1 DEF ListInv, ListTypes, Stage, Told, Reading
    <3>3. Awaited' /\ Mapped' /\ Handed'
      BY <1>1, <3>1, SameSite DEF ListInv, Awaited, Mapped, Handed, Reading, Logged, Queued
    <3>4. Warranted' /\ Agreed'
      BY <1>1, <3>1, SameSite DEF ListInv, Warranted, NeverGuessed, Justified, Parsing, First,
                                  FinalClassification, Agreed, Logged
    <3>5. Truthful'
      BY <1>1, <3>1, SameSite DEF ListInv, Truthful, First
    <3>6. Unharmed'
      BY <1>1, <3>1, SameSite DEF ListInv, Unharmed, Clean, CleanSoFar, First
    <3> QED BY <1>1, <3>1, <3>2, <3>3, <3>4, <3>5, <3>6 DEF ListInv, CrawlInv
  <2> QED BY <2>1, <2>2, <2>3 DEF Next, Step, ReadsListings, ListingNext
<1>2. CASE ShopInv /\ log = {} /\ found = [s \in Slugs |-> NoContent]
  <2>1. collector \in Shops /\ collector \notin Readers
    BY <1>2 DEF ShopInv, ShopTypes, Shops, Readers
  <2>2. CASE ShopStep /\ UNCHANGED listingVars
    BY <1>2, <2>2, ShopNext DEF CrawlInv, listingVars
  <2>3. CASE UNCHANGED vars
    <3>1. UNCHANGED <<collector, crawl, get, log, found, shelf, at, seen, sold>>
      BY <2>3 DEF vars, fetcherVars, listingVars, shopVars
    <3>2. ShopTypes'
      BY <1>2, <3>1 DEF ShopInv, ShopTypes, Kinds
    <3>3. Claimed(at)' = Claimed(at) /\ Accepted(at)' = Accepted(at)
      BY <3>1 DEF Claimed, Accepted, Claimant, Claims
    <3>4. ShopInv'
      BY <1>2, <3>1, <3>2, <3>3 DEF ShopInv
    <3> QED BY <1>2, <3>1, <3>4 DEF CrawlInv
  <2> QED BY <2>1, <2>2, <2>3 DEF Next, Step, ReadsListings
<1> QED BY <1>1, <1>2 DEF CrawlInv

LEMMA CrawlInvariant == Spec => []CrawlInv
BY CrawlStarts, CrawlKeeps, PTL DEF Spec

(* hmd.py:471-473, lava.py:134: a crawl that completes hands over every    *)
(* product the site has listed as a feature phone from beginning to end,   *)
(* whichever of its pages could not be read.                               *)
THEOREM ListedPhonesAreHandedOver == Spec => []ListedIsEmitted
<1>1. CrawlInv => ListedIsEmitted
  <2>1. ShopInv => ListedIsEmitted
    BY DEF ShopInv, ShopTypes, ListedIsEmitted, Shops, Readers
  <2> QED BY <2>1, EmittedWhenDone DEF CrawlInv
<1> QED BY <1>1, CrawlInvariant, PTL

(* hmd.py:44, lava.py:298-304, itel.py:216-218: no discovery is guessed.   *)
(* Unless a human ruled on it, the product was listed as a feature phone,  *)
(* and not all the while as a smartphone too.                              *)
THEOREM DiscoveriesAreWarranted == Spec => []NeverGuessed
<1>1. CrawlInv => NeverGuessed
  <2>1. found = [s \in Slugs |-> NoContent] => NeverGuessed
    BY DEF NeverGuessed
  <2>2. ListInv => NeverGuessed
    BY DEF ListInv, Warranted
  <2> QED BY <2>1, <2>2 DEF CrawlInv
<1> QED BY <1>1, CrawlInvariant, PTL

(* hmd.py:455, runner.py:_persist_classification_log: a slug has one       *)
(* verdict, and a finished crawl has a discovery for exactly the slugs     *)
(* whose verdict is feature_phone.                                         *)
THEOREM LogAndDiscoveriesAgree == Spec => []OneVerdict
<1>1. CrawlInv => OneVerdict
  <2>1. log = {} /\ found = [s \in Slugs |-> NoContent] => OneVerdict
    BY DEF OneVerdict
  <2> QED BY <2>1, AgreedWhenDone DEF CrawlInv
<1> QED BY <1>1, CrawlInvariant, PTL

(* hmd.py:470-498, pipeline.py:178-280, diff.py:115-128: pages that could  *)
(* not be read are never reported as a changed field.  One that arrives in *)
(* part is, only if what a label says may be cut short, or when it is      *)
(* whole again.  Another product is reported only if the pages of the      *)
(* product name different SKUs.                                            *)
THEOREM OutagesAreNotChanges == Spec => []OutageIsNotAChange
<1>1. CrawlInv => OutageIsNotAChange
  <2>1. found = [s \in Slugs |-> NoContent] => OutageIsNotAChange
    BY DEF OutageIsNotAChange
  <2> QED BY <2>1, LessAlways DEF CrawlInv
<1> QED BY <1>1, CrawlInvariant, PTL

(* hmd.py:130-156: fewer transient failures in the whole crawl than one    *)
(* request has tries neither fail it nor show in what it hands over.       *)
THEOREM FewFailuresAreAbsorbed == Spec => []OutagesAbsorbed
<1>1. CrawlInv => OutagesAbsorbed
  <2>1. ShopInv => OutagesAbsorbed
    BY DEF ShopInv, ShopTypes, OutagesAbsorbed, Shops, Retrying
  <2> QED BY <2>1, AbsorbedAlways DEF CrawlInv
<1> QED BY <1>1, CrawlInvariant, PTL

(* hmd.py:580-597: a phone page in the sitemap has a verdict when the      *)
(* crawl is done, whatever the two listings showed of it and when.         *)
THEOREM SitemapPhonesAreJudged == Spec => []NothingSlipsThrough
<1>1. CrawlInv => NothingSlipsThrough
  <2>1. ShopInv => NothingSlipsThrough
    BY DEF ShopInv, ShopTypes, NothingSlipsThrough, Shops
  <2> QED BY <2>1, MappedWhenDone DEF CrawlInv
<1> QED BY <1>1, CrawlInvariant, PTL

(* doro.py:162-175, sunbeam.py:212-221, tcl_alcatel.py:118-124,            *)
(* mudita.py:153-167: an identity is handed over, once, exactly when the   *)
(* first item that claims it is an acceptable phone.                       *)
THEOREM TheFirstClaimDecides == Spec => []FirstClaimDecides
<1>1. CrawlInv => FirstClaimDecides
  <2>1. shelf = <<>> /\ sold = <<>> => FirstClaimDecides
    BY FS_EmptySet DEF FirstClaimDecides, Carrying
  <2> QED BY <2>1, FirstClaimWhenDone DEF CrawlInv
<1> QED BY <1>1, CrawlInvariant, PTL

(* doro.py:199-203, sunbeam.py:266-269, tcl_alcatel.py:144-147,            *)
(* mudita.py:197-201: a catalogue is handed over only when it names as     *)
(* many different phones as the floor asks for.                            *)
THEOREM CataloguesAreWhole == Spec => []WholeEnough
<1>1. CrawlInv => WholeEnough
  <2>1. ListInv => WholeEnough
    BY DEF ListInv, ListTypes, WholeEnough, Shops, Readers
  <2> QED BY <2>1, EnoughWhenDone DEF CrawlInv
<1> QED BY <1>1, CrawlInvariant, PTL

-----------------------------------------------------------------------------
(* What a crawl has left grows smaller with each of its steps.             *)

\* The legs of a crawl: the documents it begins with, the slugs they show,
\* the sitemap, the slugs that only the sitemap shows.
Leg ==
  CASE get.page \in {"first", "catalogue"} -> 1
    [] get.page = "second" -> 2
    [] get.page = "sitemap" -> 4
    [] OTHER -> IF swept THEN 5 ELSE 3

\* The pages of one slug, in the order they are asked for.
Rung ==
  CASE get.page = "title" -> 1
    [] get.page = "specs" -> 2
    [] get.page = "base" -> 3
    [] OTHER -> 0

\* Nothing of the order below.
Edited == UNCHANGED <<crawl, get, swept, todo, at, shelf>> /\ moves' = moves + 1

\* One step down: the next leg, or in a leg a slug less or an item of the
\* document, or for a slug the next page, or for a page the next try.
Progress ==
  /\ crawl = "running"
  /\ \/ crawl' \in {"done", "failed"}
     \/ /\ crawl' = "running"
        /\ \/ Leg < Leg'
           \/ Leg' = Leg /\ todo' \subseteq todo /\ todo' # todo
           \/ Leg' = Leg /\ UNCHANGED <<todo, shelf>> /\ at' = at + 1 /\ at < Len(shelf)
           \/ Leg' = Leg /\ UNCHANGED <<todo, shelf, at>> /\ Rung < Rung'
           \/ /\ Leg' = Leg /\ UNCHANGED <<todo, shelf, at>> /\ get'.page = get.page
              /\ get'.try = get.try + 1 /\ get.try < Tries

LEMMA TriesProgress ==
  ASSUME ListTypes, crawl = "running", Again, UNCHANGED <<todo, shelf, at, swept>>
  PROVE  Progress
<1>1. get' = [get EXCEPT !.try = @ + 1] /\ get.try < Tries /\ crawl' = crawl
  BY DEF Again
<1>2. get'.page = get.page /\ get'.try = get.try + 1
  BY <1>1 DEF ListTypes
<1>3. Leg' = Leg
  BY <1>2 DEF Leg
<1> QED BY <1>1, <1>2, <1>3 DEF Progress

LEMMA ListProgress ==
  ASSUME ListInv, ListingStep, UNCHANGED <<shelf, at>>
  PROVE  Progress
<1>1. /\ get.page \in {"none", "first", "second", "title", "specs", "base", "sitemap"}
      /\ ListTypes /\ NoGet.page = "none"
      /\ crawl # "running" => get.page = "none"
      /\ get.page \in {"first", "second"} => ~swept
      /\ get.page = "sitemap" => swept /\ todo = {}
  BY DEF ListInv, ListTypes, Stage, Reading, NoGet
<1>2. CASE Retry
  BY <1>1, <1>2, TriesProgress DEF Retry, Again, listingVars
<1>3. CASE Abort
  BY <1>1, <1>3 DEF Abort, Raise, Progress
<1>4. CASE FirstListing
  BY <1>1, <1>4 DEF FirstListing, Answered, Fail, Ask, Leg, Progress
<1>5. CASE SecondListing
  BY <1>1, <1>5 DEF SecondListing, Answered, Fail, Leg, Progress
<1>6. ASSUME NEW job, First(job), Classify(job), crawl = "running", UNCHANGED <<crawl, swept>>,
             get.page \in {"none", "title"}
      PROVE  Progress
  <2>1. job \in todo /\ todo \ {job} # todo
    BY <1>6 DEF First
  <2> QED BY <1>1, <1>6, <2>1 DEF Classify, Ask, Leg, Rung, Progress
<1>7. CASE Visit
  <2>1. crawl = "running" /\ get.page = "none" /\ UNCHANGED <<crawl, swept>>
    BY <1>1, <1>7 DEF Visit
  <2>2. PICK job \in todo :
          /\ First(job)
          /\ IF NeedsTitle(job) THEN Ask("title") /\ UNCHANGED <<todo, log>> ELSE Classify(job)
    BY <1>7 DEF Visit
  <2>3. CASE NeedsTitle(job)
    BY <2>1, <2>2, <2>3 DEF Ask, Leg, Rung, Progress
  <2> QED BY <1>6, <2>1, <2>2, <2>3
<1>8. CASE Title
  <2>1. get.page = "title" /\ crawl = "running" /\ UNCHANGED <<crawl, swept>>
    BY <1>1, <1>8 DEF Title, Answered
  <2> QED BY <1>6, <1>8, <2>1 DEF Title
<1>9. ASSUME NEW job, NEW content, First(job), Emit(job, content), crawl = "running",
             UNCHANGED <<crawl, swept>>, get.page \in {"specs", "base"}
      PROVE  Progress
  <2>1. job \in todo /\ todo \ {job} # todo
    BY <1>9 DEF First
  <2> QED BY <1>1, <1>9, <2>1 DEF Emit, Leg, Progress
<1>10. CASE Specs
  <2>1. get.page = "specs" /\ crawl = "running" /\ UNCHANGED <<crawl, swept>>
    BY <1>1, <1>10 DEF Specs, Answered
  <2>2. \/ Ask("base") /\ UNCHANGED todo
        \/ \E job \in todo, a \in Answers :
             First(job) /\ \E page \in Received(given.truth[job.slug].specs, a) :
                             Emit(job, ContentOf(job.card, page, Blank))
    BY <1>10 DEF Specs
  <2>3. CASE Ask("base") /\ UNCHANGED todo
    BY <2>1, <2>3 DEF Ask, Leg, Rung, Progress
  <2> QED BY <1>9, <2>1, <2>2, <2>3
<1>11. CASE Base
  <2>1. get.page = "base" /\ crawl = "running" /\ UNCHANGED <<crawl, swept>>
    BY <1>1, <1>11 DEF Base, Answered
  <2>2. PICK a \in Answers, job \in todo :
          First(job) /\ \E base \in Received(given.truth[job.slug].base, a) :
                          Emit(job, ContentOf(job.card, specs.page, base))
    BY <1>11 DEF Base
  <2> QED BY <1>9, <2>1, <2>2
<1>12. CASE Sweep
  BY <1>1, <1>12 DEF Sweep, Ask, Leg, Progress
<1>13. CASE Sitemap
  BY <1>1, <1>13 DEF Sitemap, Answered, Leg, Progress
<1>14. CASE HandOver
  BY <1>14 DEF HandOver, Progress
<1> QED BY <1>2, <1>3, <1>4, <1>5, <1>7, <1>8, <1>10, <1>11, <1>12, <1>13, <1>14 DEF ListingStep

LEMMA ShopProgress ==
  ASSUME ShopInv, ShopStep, UNCHANGED <<todo, swept>>
  PROVE  Progress
<1>1. /\ get.page \in {"none", "catalogue"} /\ NoGet.page = "none"
      /\ get.page = "catalogue" => crawl = "running"
  BY DEF ShopInv, ShopTypes, NoGet
<1>2. CASE Catalogue
  BY <1>1, <1>2 DEF Catalogue, Answered, Leg, Progress
<1>3. CASE ReadItem
  BY <1>1, <1>3 DEF ReadItem, Leg, Progress
<1>4. CASE CheckFloor
  BY <1>4 DEF CheckFloor, Progress
<1>5. CASE Raise
  BY <1>1, <1>5 DEF Raise, Progress
<1> QED BY <1>2, <1>3, <1>4, <1>5 DEF ShopStep

(* hmd.py:116-119, lava.py:105-108: nothing a crawl does takes it back.    *)
(* Whatever the site answers, each of its steps ends it, or leaves a slug, *)
(* an item, a page or a try behind, in an order without infinite descent   *)
(* where the slugs are finitely many; edits of the site do not disturb it. *)
(* This is the safety half of CrawlEnds.                                   *)
THEOREM EveryStepIsProgress == Spec => [][Progress \/ Edited]_vars
<1>1. CrawlInv /\ [Next]_vars => [Progress \/ Edited]_vars
  <2> SUFFICES ASSUME CrawlInv, Next PROVE Progress \/ Edited
    OBVIOUS
  <2>1. CASE Step
    <3>1. CASE ListInv
      <4>1. collector \in Readers
        BY <3>1 DEF ListInv, ListTypes
      <4> QED BY <2>1, <3>1, <4>1, ListProgress DEF Step, ReadsListings, shopVars
    <3>2. CASE ShopInv
      <4>1. collector \notin Readers
        BY <3>2 DEF ShopInv, ShopTypes, Shops, Readers
      <4> QED BY <2>1, <3>2, <4>1, ShopProgress DEF Step, ReadsListings, listingVars
    <3> QED BY <3>1, <3>2 DEF CrawlInv
  <2>2. CASE (\E s \in Slugs : Move(s)) /\ UNCHANGED shopVars
    BY <2>2 DEF Move, Edited, fetcherVars, shopVars
  <2> QED BY <2>1, <2>2 DEF Next
<1> QED BY <1>1, CrawlInvariant, PTL DEF Spec
=============================================================================
