------------------------------ MODULE MCRunner ------------------------------
(***************************************************************************)
(* Small instances of Runner: one field, a handful of contents chosen so   *)
(* that every branch of the pipeline is taken.                             *)
(***************************************************************************)
EXTENDS Runner, TLC

CONSTANTS sku1, sku2, v1, v2, plain, priced

Content(sku, complete, v, rest) ==
  [sku |-> sku, complete |-> complete, spec |-> [f \in Fields |-> v], rest |-> rest]

OneField == {"battery"}

\* A complete page, its changed value, the field gone from a page that still
\* parsed, the page gone altogether, the page at another price and the URL
\* under another SKU.
MCChanging == {Content(sku1, TRUE, v1, plain), Content(sku1, TRUE, v2, plain),
               Content(sku1, TRUE, Absent, plain), Content(NoSku, FALSE, Absent, plain),
               Content(sku1, TRUE, v1, priced), Content(sku2, TRUE, v1, plain)}

MCSteady == {Content(sku1, TRUE, v1, plain)}

ProductSymmetry == Permutations(Products)
=============================================================================
