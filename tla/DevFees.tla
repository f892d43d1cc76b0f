------------------------------ MODULE DevFees -------------------------------
(***************************************************************************)
(* The dev fees (crates/stats/src/dev_fees.rs) and the volume they imply   *)
(* (dev_fees/implied.rs).  A fee is a number of parts, and so is a share:  *)
(* an order of one sat at fee 1 and share 1 owes 1/SCALE of a sat, so that *)
(* a fee of d sats is inverted as d * SCALE over fee times share.          *)
(***************************************************************************)
EXTENDS Activity

CONSTANT SCALE          \* what a product of a fee and a share is a part of

ASSUME ScaleAssumption == SCALE \in Nat \ {0}

\* What a report of dev fees is computed over.
DevFeeData(rows, scope) ==
    [fees |-> LoadFees(rows, scope), settlements |-> LoadSettlements(rows, scope)]

\* A fault: every fee event of the window is money sent.
EveryFee(data, w) == {f \in data.fees : Contains(w, f.created_at)}

\* The fees that count in the window: one per order.
Canonical(data, w) == {f \in data.fees : ~f.is_duplicate /\ Contains(w, f.created_at)}

SummariseDevFees(data, w) ==
    LET paid    == Canonical(data, w)
        twice   == {f.order_id : f \in {g \in data.fees : g.is_duplicate}}
        settled == {f \in paid : f.settled_at # None}
        owed    == {s \in data.settlements : Contains(w, s.success_at) /\ s.charges = TRUE}
        late    == [f \in settled |-> f.created_at - f.settled_at]
    IN  [ total_sats  |-> SumOver(paid, LAMBDA f : f.amount_sats),
          paid        |-> Cardinality(paid),
          coverage    |-> Share(Cardinality({s \in owed : s.has_fee}), Cardinality(owed)),
          latency_p50 |-> P50(late),
          latency_p90 |-> P90(late),
          duplicates  |-> Cardinality({f \in paid : f.order_id \in twice}),
          orphans     |-> Cardinality({f \in paid : ~f.order_known}) ]

\* implied::summarise, with pct the share assumed of each publisher.  A sum
\* of inverses is rounded half up, a bound on its error up.
Implied(data, w, pct) ==
    LET paid       == Canonical(data, w)
        divisor(f) == f.fee_in_force * pct[f.pubkey]
        unknown    == {f \in paid : f.fee_in_force = None}
        zero       == {f \in paid \ unknown : divisor(f) <= 0}
        inverted   == (paid \ unknown) \ zero
        observed   == {f \in paid : f.settled_sats # None}
        matched    == {f \in inverted \cap observed : f.settled_sats > 0}
        settled(f) == f.settled_sats
        \* every divisor divides their product
        common(V)  == FoldSet(LAMBDA f, acc : divisor(f) * acc, 1, V)
        over(V, n(_)) == SumOver(V, LAMBDA f : (n(f) * SCALE * common(V)) \div divisor(f))
        volume(V)  == (2 * over(V, LAMBDA f : f.amount_sats) + common(V)) \div (2 * common(V))
        error(V)   == (over(V, LAMBDA f : 1) + common(V) - 1) \div common(V)
    IN  [ volume_sats      |-> IF inverted = {} /\ unknown \cup zero # {} THEN None
                               ELSE volume(inverted),
          error_sats       |-> error(inverted),
          inverted         |-> Cardinality(inverted),
          no_fee_in_force  |-> Cardinality(unknown),
          zero_fee         |-> Cardinality(zero),
          assumed_pcts     |-> {pct[f.pubkey] : f \in inverted},
          with_fee_volume  |-> IF observed = {} THEN None ELSE SumOver(observed, settled),
          with_fee_orders  |-> Cardinality(observed),
          matched          |-> Cardinality(matched),
          matched_implied  |-> volume(matched),
          matched_observed |-> SumOver(matched, settled),
          matched_error    |-> error(matched),
          zero_amount      |-> Cardinality((inverted \cap observed) \ matched) ]

\* Implied::implied_vs_observed and its error: how far the two stand apart.
ImpliedVsObserved(implied) ==
    [ ratio |-> Share(implied.matched_implied - implied.matched_observed,
                      implied.matched_observed),
      error |-> Share(implied.matched_error, implied.matched_observed) ]

ImpliedRows(implied) == [implied |-> implied, implied_vs_observed |-> ImpliedVsObserved(implied)]

\* by_instance: a label with settlements and no fee is a group too.
FeesByInstance(data) ==
    [p \in {r.pubkey : r \in data.fees} \cup {r.pubkey : r \in data.settlements} |->
        [ fees        |-> {f \in data.fees : f.pubkey = p},
          settlements |-> {s \in data.settlements : s.pubkey = p} ]]

DevFeesReport(data, w, dimension, pct, coverage) ==
    LET block(group, over) ==
            Joined(SummariseDevFees(group, over), ImpliedRows(Implied(group, over, pct)))
    IN  CASE dimension = None -> block(data, w)
          [] dimension \in {"month", "day"} ->
                {[bucket |-> b.bucket, block |-> Unless(b.missing, block(data, b.over))] :
                    b \in BucketWalk(w, dimension, coverage)}
          [] dimension = "instance" ->
                [p \in DOMAIN FeesByInstance(data) |-> block(FeesByInstance(data)[p], w)]
=============================================================================
