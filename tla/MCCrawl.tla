------------------------------- MODULE MCCrawl -------------------------------
(***************************************************************************)
(* Two slugs.  The first is any product the collectors tell apart, the     *)
(* second a plain feature phone, so that the crawl goes on after whatever  *)
(* befalls the first.                                                      *)
(***************************************************************************)
EXTENDS Crawl, TLC

MCSlugs == {1, 2}
MCFields == {"battery-capacity", "networks"}
MCValues == {"1450", "gsm", "gsm+lte"}
MCSkus == {"A", "B"}

Spec0 == [f \in MCFields |-> "absent"]
Spec1 == [Spec0 EXCEPT !["battery-capacity"] = "1450"]
Spec2 == [Spec1 EXCEPT !["networks"] = "gsm+lte"]

\* A page that says what it says once, and names one SKU.
Page(spec, sku, title, h1) ==
  [whole |-> [spec |-> spec, extra |-> FALSE, sku |-> sku, title |-> title, h1 |-> h1],
   less |-> [f \in MCFields |-> {}], others |-> {}]

Rich == [card |-> TRUE, specs |-> Page(Spec2, "A", FALSE, FALSE), base |-> Page(Spec0, "A", FALSE, FALSE)]

\* Several values of one label, fields that no alert is about, and a variant's
\* SKU after the first.
Thick == [Rich EXCEPT !.specs.less["networks"] = {"gsm"}, !.specs.whole.extra = TRUE,
                      !.specs.others = {"B"}]

\* No card, no SKU on the specs page.
Split == [card |-> FALSE,
          specs |-> Page(Spec1, "none", FALSE, TRUE), base |-> Page(Spec0, "A", TRUE, FALSE)]

\* The two pages name different SKUs first.
Disagreeing == [Rich EXCEPT !.base.whole.sku = "B"]

\* A CMS shell: nothing to read.
Shell == [card |-> FALSE,
          specs |-> Page(Spec0, "none", FALSE, FALSE), base |-> Page(Spec0, "none", FALSE, TRUE)]

\* A SKU and no more.
Plain == [card |-> TRUE,
          specs |-> Page(Spec0, "A", FALSE, FALSE), base |-> Page(Spec0, "none", FALSE, FALSE)]

Given(c, over, orphans, truth, place, other) ==
  [collector |-> c, orphans |-> orphans,
   over |-> (1 :> over @@ 2 :> "none"),
   truth |-> (1 :> truth @@ 2 :> Plain),
   site |-> (1 :> place @@ 2 :> other)]

At(on, label) == [on |-> on, label |-> label]
Lists == SUBSET {"fp", "sp"}

HmdGivens ==
  {Given("hmd-nokia", "none", orphans, Plain, At(on, "phone"), At({"fp", "map"}, "phone")) :
     orphans \in BOOLEAN, on \in {{"fp", "map"}, {"sp", "map"}, {"map"}}}
  \cup
  {Given("hmd-nokia", "none", FALSE, truth, At({"fp"}, "phone"), At({"fp"}, "phone")) :
     truth \in {Rich, Thick, Split, Disagreeing, Shell}}
  \cup
  {Given("hmd-nokia", "none", TRUE, Plain, At(on \cup {"map"}, label), At({"fp"}, "phone")) :
     on \in Lists, label \in {"artifact", "nav", "page"}}
  \cup
  {Given("hmd-nokia", over, TRUE, Plain, At(on \cup {"map"}, "phone"), At({"fp"}, "phone")) :
     over \in {"exclude", "feature", "smart"}, on \in Lists}

LavaGivens ==
  {Given("lava-india", "none", FALSE, Plain, At(on, label), At({"fp"}, "featurephones")) :
     on \in Lists, label \in {"featurephones", "smartphones", "none"}}
  \cup
  {Given("lava-india", "none", FALSE, truth, At({"fp"}, "featurephones"), At({"fp"}, "featurephones")) :
     truth \in {Thick, Shell}}

ItelGivens ==
  {Given("itel-india", "none", FALSE, Plain, At(on, "phone"), At({"fp"}, "phone")) : on \in Lists}
  \cup
  {Given("itel-india", "none", FALSE, truth, At({"fp"}, "phone"), At({"fp"}, "phone")) :
     truth \in {Thick, Shell}}

PunktGivens ==
  {Given("punkt-ch", "none", FALSE, truth, At(on, label), At({"map"}, "mp")) :
     truth \in {Thick, Shell}, on \in {{}, {"map"}}, label \in {"mp", "mc", "ac", "new", "plain"}}

MCGivens == HmdGivens \cup LavaGivens \cup ItelGivens \cup PunktGivens

MCFloor == ("doro-gb" :> 2 @@ "sunbeam-f1-us" :> 1 @@ "tcl-alcatel-global" :> 1 @@ "mudita-com" :> 1)
=============================================================================
