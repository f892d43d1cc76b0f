------------------------------ MODULE MCPublish ------------------------------
(***************************************************************************)
(* One to three events of two kinds, one window document, one partition.   *)
(* A behaviour is set in one scenario: relays that prune and an archive    *)
(* that is rebuilt, two relays that do not answer alike and a clock that   *)
(* may be set back between ingests, or an archive whose coverage moves     *)
(* while what is sent is taken.                                            *)
(***************************************************************************)
EXTENDS Publish

CONSTANT Scenarios
VARIABLES scenario, runs

\* The runs a behaviour may begin.
MaxRuns == 3

Event(id, kind, at) == [id |-> id, kind |-> kind, at |-> at]

\* One event inside the partition, or two after it, so that only the window
\* document is computed.
Inside == { Event(1, "order", 2) }
After == { Event(2, "order", 9), Event(6, "order", 10) }

\* An order inside the partition, a first dispute after it, which ends the
\* partition's coverage, and an earlier one, which restores it.
Receding == { Event(3, "order", 2), Event(4, "dispute", 5), Event(5, "dispute", 3) }

Cast == [ prune |-> Inside, relays |-> After, restatement |-> Receding ]

AllEvents == UNION {Cast[s] : s \in DOMAIN Cast}

\* The window document says how long a dispute is open.
Aged == {<<"w", "dispute">>}

Span == [p \in {"p"} |-> [from |-> 2, until |-> 4]]

InScenario ==
    /\ archive' \subseteq Cast[scenario]
    /\ scenario # "restatement" => indexed_from' = indexed_from
    /\ scenario = "relays" /\ pc # "idle" => archive' = archive
    /\ scenario # "relays" => served'["r2"] = served["r2"]
    /\ scenario # "relays" => (pc = "idle" /\ pc' = "extent" => now' = runs')
    /\ scenario # "prune" => schema' = schema /\ projected \subseteq projected'
    /\ scenario # "prune" => \A r \in Relays, d \in Addresses :
                                served[r][d] # None => served'[r][d] # None
    /\ scenario # "prune" => republish' = {}
    /\ scenario = "restatement" => refusals' = {} /\ pc' # "failed"

MCInit ==
    /\ Init
    /\ scenario \in Scenarios /\ runs = 0
    /\ scenario # "restatement" => indexed_from = [k \in Kinds |-> 0]

MCNext ==
    /\ Next /\ UNCHANGED scenario
    /\ runs' = IF pc = "idle" /\ pc' = "extent" THEN runs + 1 ELSE runs
    /\ runs' <= MaxRuns
    /\ InScenario

MCSpec == MCInit /\ [][MCNext]_<<vars, scenario, runs>>
=============================================================================
