----------------------------- MODULE MCStores --------------------------------
(***************************************************************************)
(* The real schema: the tables of schema.sql in its order, the version     *)
(* each came with and the tables each of the _MIGRATIONS alters.           *)
(***************************************************************************)
EXTENDS Stores, TLC

MCSchema == <<"schema_migrations", "sources", "products", "observations", "events",
              "collector_runs", "observation_occurrences", "current_product_observations",
              "qualification_state", "qualification_epochs", "qualification_events",
              "run_errors", "classification_log", "notifications", "delivery_policy">>

MCSince ==
  [t \in ToSet(MCSchema) |->
     CASE t = "classification_log" -> 2
       [] t \in {"qualification_state", "qualification_epochs", "qualification_events"} -> 5
       [] t = "delivery_policy" -> 6
       [] t \in {"observation_occurrences", "current_product_observations"} -> 7
       [] OTHER -> 1]

MCAlters == {<<3, "observations">>, <<4, "products">>, <<4, "events">>, <<5, "collector_runs">>,
             <<6, "notifications">>, <<7, "events">>, <<7, "collector_runs">>}

MCSeeds == <<"loss", "boundary">>
=============================================================================
