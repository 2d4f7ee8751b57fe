-------------------------------- MODULE Crawl --------------------------------
(***************************************************************************)
(* One run of BaseCollector.run(): any of the eight collectors, with the   *)
(* machine of its family.                                                  *)
(***************************************************************************)
EXTENDS Listings, Storefront

vars == <<fetcherVars, listingVars, shopVars>>

NoShop == shelf = <<>> /\ at = 0 /\ seen = {} /\ sold = <<>> /\ notes = {}

NoPage == [whole |-> Blank, less |-> [f \in Fields |-> {}], others |-> {}]

NoListing ==
  /\ given = [over |-> [s \in Slugs |-> "none"], orphans |-> FALSE,
              truth |-> [s \in Slugs |-> [card |-> FALSE, specs |-> NoPage, base |-> NoPage]]]
  /\ site = [s \in Slugs |-> [on |-> {}, label |-> "page"]]
  /\ past = [s \in Slugs |-> {site[s]}] /\ moves = 0
  /\ heard = Unheard /\ torn = {} /\ cut = {} /\ swept = FALSE /\ todo = {} /\ specs = NotRead
  /\ log = {} /\ found = [s \in Slugs |-> NoContent]

Init == \/ ListingInit /\ NoShop
        \/ ShopInit /\ NoListing

ReadsListings == collector \in Readers

Step == \/ ReadsListings /\ ListingStep /\ UNCHANGED shopVars
        \/ ~ReadsListings /\ ShopStep /\ UNCHANGED listingVars

Next == \/ Step
        \/ ReadsListings /\ (\E s \in Slugs : Move(s)) /\ UNCHANGED shopVars

Spec == Init /\ [][Next]_vars

\* Every request ends within its hard timeouts, and the collector then goes
\* on by itself.
FairSpec == Spec /\ WF_vars(Step)

-----------------------------------------------------------------------------

\* hmd.py:116-119, lava.py:105-108: a dead connection costs a bounded number
\* of tries and never a run that hangs; every crawl ends.
CrawlEnds == <>(crawl \in {"done", "failed"})
=============================================================================
