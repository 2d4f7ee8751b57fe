------------------------------ MODULE Fetcher ------------------------------
(***************************************************************************)
(* A crawl in progress and the request it waits for.  hmd.py and lava.py   *)
(* share one policy, HttpFetcher.get: a transport failure or a transient   *)
(* status is tried again, up to max_attempts, and what the last try brings *)
(* is the answer.  The other collectors try once.                          *)
(*                                                                         *)
(* Answers: "ok" is a 200 with the page; "damaged" a 200 whose body lacks  *)
(* some or all of it; "refused" any other final status; "busy" a transient *)
(* status and "dead" a transport failure on the last try.                  *)
(***************************************************************************)
EXTENDS Naturals

CONSTANTS
  MaxTries,   \* HttpFetcher.max_attempts
  Enough      \* failed tries are counted up to this number

ASSUME FetcherAssumption ==
  MaxTries \in Nat \ {0} /\ Enough \in Nat /\ Enough >= MaxTries

VARIABLES
  collector,  \* source_key of the collector that runs
  crawl,      \* "running", "done" (discoveries handed over) or "failed"
  get,        \* the request under way: which page, which try
  faults      \* ledger: failed tries; was an answer refused or damaged

fetcherVars == <<collector, crawl, get, faults>>

\* Collectors with HttpFetcher's retries.
Retrying == {"hmd-nokia", "lava-india"}
Tries == IF collector \in Retrying THEN MaxTries ELSE 1

Answers == {"ok", "damaged", "refused", "busy", "dead"}
Lost == {"refused", "busy", "dead"}    \* resp.status != 200

NoGet == [page |-> "none", try |-> 0]
NoFaults == [tries |-> 0, bad |-> FALSE]

Ask(page) == get' = [page |-> page, try |-> 1]

Counted == [faults EXCEPT !.tries = IF @ < Enough THEN @ + 1 ELSE @]

MutantAgain ==    \* the last try is tried again, from the first
  /\ get.page # "none"
  /\ get' = [get EXCEPT !.try = IF @ < Tries THEN @ + 1 ELSE 1]
  /\ faults' = Counted
  /\ UNCHANGED <<collector, crawl>>

\* A failed try that is not the last one.
Again ==
  /\ get.page # "none" /\ get.try < Tries
  /\ get' = [get EXCEPT !.try = @ + 1]
  /\ faults' = Counted
  /\ UNCHANGED <<collector, crawl>>

MutantAnswered(page, a) ==    \* the first failure is final
  /\ get.page = page
  /\ a \in {"busy", "dead"} => collector \in Retrying
  /\ faults' = CASE a = "ok" -> faults
                 [] a \in {"refused", "damaged"} -> [faults EXCEPT !.bad = TRUE]
                 [] OTHER -> Counted

\* What the request for a page ends with.
Answered(page, a) ==
  /\ get.page = page
  /\ a \in {"busy", "dead"} => collector \in Retrying /\ get.try = Tries
  /\ faults' = CASE a = "ok" -> faults
                 [] a \in {"refused", "damaged"} -> [faults EXCEPT !.bad = TRUE]
                 [] OTHER -> Counted

\* A single-try fetcher lets a transport or browser exception through, and
\* BaseCollector.run turns it into a failed run.
Raise ==
  /\ get.page # "none" /\ collector \notin Retrying
  /\ crawl' = "failed" /\ get' = NoGet
  /\ UNCHANGED <<collector, faults>>
=============================================================================
