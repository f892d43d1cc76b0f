----------------------------- MODULE Refinement -----------------------------
(***************************************************************************)
(* The pipeline and its rebuild, with their processes, transactions and    *)
(* crashes, implement the promise of module Archive.                       *)
(***************************************************************************)
EXTENDS Pipeline

\* The dev fee of an order that no flag calls a duplicate.
Settling(k) ==
    LET paid == {f \in versions : f.kind = "dev_fee" /\ f.key = k} \ duplicates
    IN  IF paid = {} THEN None ELSE CHOOSE f \in paid : paid = {f}

\* What a reader of the tables is told of each id.
Shown ==
    [k \in Keys |-> [ order   |-> IF orders[k] = None THEN None ELSE orders[k].latest,
                      dispute |-> IF disputes[k] = None THEN None ELSE disputes[k].latest,
                      settled |-> Settling(k) ]]

Views == [Keys -> [order : Events \cup {None}, dispute : Events \cup {None},
                   settled : Events \cup {None}]]

\* No view is not a view.
ASSUME ViewAssumption == None \notin Views

\* The tables are a view unless a rebuild is owed or under way.
Abstract == INSTANCE Archive
    WITH known <- events, legible <- readable, view <- IF stale THEN None ELSE Shown

\* Whatever ingesters, rebuilds, crashes and releases do, the archive only
\* takes in what it may, one event at a time, and the tables show at once
\* the last word on every order and dispute and the one fee that settles
\* each order (docs/SPEC.md section 8; pipeline.rs:1, rebuild.rs:3).
ImplementsArchive == Abstract!Spec
=============================================================================
