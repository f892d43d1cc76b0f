------------------------------ MODULE Disputes ------------------------------
(***************************************************************************)
(* The dispute figures (crates/stats/src/disputes.rs).  Nothing pairs a    *)
(* dispute with its order; the rate sets the disputes opened in a window   *)
(* against the orders that found a taker in it.                            *)
(***************************************************************************)
EXTENDS Activity

\* What a report of disputes is computed over.
DisputeData(rows, scope) ==
    [disputes |-> LoadDisputes(rows, scope), taken |-> LoadTaken(rows, scope)]

OpenedOver(data, w)   == {d \in data.disputes : Contains(w, d.opened_at)}
ResolvedOver(data, w) == {d \in data.disputes : Dated(d.resolved_at, w)}

\* The figures dated by the window.
DatedDisputes(data, w) ==
    LET opened   == OpenedOver(data, w)
        resolved == ResolvedOver(data, w)
        known    == {d \in opened : d.initiator # None}
        buyers   == {d \in known : d.initiator = "buyer"}
        taken    == {o \in data.taken : Contains(w, o.left_pending_at)}
        lasted   == [d \in resolved |-> d.resolved_at - d.opened_at]
    IN  [ opened         |-> Cardinality(opened),
          by_status      |-> [s \in DisputeStatuses |->
                                 Cardinality({d \in opened : d.status = s})],
          buyer_share    |-> Share(Cardinality(buyers), Cardinality(known)),
          seller_share   |-> Share(Cardinality(known \ buyers), Cardinality(known)),
          rate           |-> Share(Cardinality(opened), Cardinality(taken)),
          resolved       |-> Cardinality(resolved),
          outcome        |-> [s \in Terminals |->
                                 Share(Cardinality({d \in resolved : d.outcome = s}),
                                       Cardinality(resolved))],
          resolution_p50 |-> P50(lasted),
          resolution_p90 |-> P90(lasted) ]

\* Those still waiting for a solver, with their age: not the ones a solver
\* has, nor the ones whose opening is ahead of the clock.
OpenDisputes(data, now) ==
    {[dispute_id |-> d.dispute_id, age |-> now - d.opened_at] :
        d \in {e \in data.disputes : e.status = "initiated" /\ e.opened_at <= now}}

SummariseDisputes(data, w, now) ==
    Joined(DatedDisputes(data, w), [open |-> OpenDisputes(data, now)])

\* by_instance: a label with orders and no dispute is a group too.
DisputesByInstance(data) ==
    [p \in {r.pubkey : r \in data.disputes \cup data.taken} |->
        [ disputes |-> {d \in data.disputes : d.pubkey = p},
          taken    |-> {o \in data.taken : o.pubkey = p} ]]

\* report.  unavailable is what a view shows when a network narrows it: the
\* same rows with every value withheld.
DisputesReport(data, w, now, dimension, coverage) ==
    CASE dimension = None        -> SummariseDisputes(data, w, now)
      [] dimension = "status"    -> [by_status |-> DatedDisputes(data, w).by_status]
      [] dimension = "initiator" -> [ buyer_share  |-> DatedDisputes(data, w).buyer_share,
                                      seller_share |-> DatedDisputes(data, w).seller_share ]
      [] dimension \in {"month", "day"} ->
            {[bucket |-> b.bucket, block |-> Unless(b.missing, DatedDisputes(data, b.over))] :
                b \in BucketWalk(w, dimension, coverage)}
      [] dimension = "instance" ->
            [p \in DOMAIN DisputesByInstance(data) |->
                SummariseDisputes(DisputesByInstance(data)[p], w, now)]
      [] dimension = "network" ->
            Withheld(SummariseDisputes([disputes |-> {}, taken |-> {}], w, now))
=============================================================================
