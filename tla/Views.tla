------------------------------- MODULE Views --------------------------------
(***************************************************************************)
(* The views that assemble the families (crates/stats/src: summary.rs,     *)
(* compare.rs, instances.rs, lifecycle.rs).  data is what a command loads: *)
(* orders, fees, disputes (None when a network narrows the scope, which    *)
(* disputes carry no tag for) and profiles.                                *)
(***************************************************************************)
EXTENDS Market, Disputes, DevFees

CONSTANT SILENT_AFTER   \* SILENT_AFTER_SECS

ASSUME SilenceAssumption == SILENT_AFTER \in Nat

LOCAL V == INSTANCE SequencesExt

ObservedSats(orders, w) == SumSats(Sats(CompletedOver(orders, w)))

LatestMethods(orders) == [o \in orders |-> o.methods]

\* The first three of a ranking, with their weights.
Top3(ranking) == SubSeq(ranking.entries, 1, Min({3, Len(ranking.entries)}))

SummaryView(data, w, now) ==
    LET activity == SummariseActivity(data.orders, w, now)
        created  == CreatedOver(data.orders, w)
    IN  [ created          |-> activity.created,
          completed        |-> activity.completed,
          completion_rate  |-> activity.completion_rate,
          volume_sats      |-> ObservedSats(data.orders, w),
          active_instances |-> Cardinality({o.pubkey : o \in created}),
          top_fiat         |-> Top3(Tally(FiatOf(created), One(created))),
          top_methods      |-> Top3(Tally(LatestMethods(created), One(created))),
          open_disputes    |-> IF data.disputes = None THEN None
                               ELSE Cardinality(OpenDisputes(data.disputes, now)) ]

Own(orders, p) == {o \in orders : o.pubkey = p}

\* One row per profile.
CompareView(data, w, now) ==
    [p \in {q.pubkey : q \in data.profiles} |->
        LET profile  == CHOOSE q \in data.profiles : q.pubkey = p
            activity == SummariseActivity(Own(data.orders, p), w, now)
            fees     == FeesByInstance(data.fees)
            disputes == IF data.disputes = None THEN << >> ELSE DisputesByInstance(data.disputes)
        IN  [ completed       |-> activity.completed,
              volume_sats     |-> ObservedSats(Own(data.orders, p), w),
              completion_rate |-> activity.completion_rate,
              fee             |-> profile.fee,
              dev_fees_sats   |-> IF p \in DOMAIN fees
                                  THEN SummariseDevFees(fees[p], w).total_sats ELSE 0,
              dispute_rate    |-> IF p \in DOMAIN disputes
                                  THEN DatedDisputes(disputes[p], w).rate ELSE None ]]

\* The profile's own rows: silence is a claim about the clock.
ProfileRows(profile, now) ==
    Joined(profile, [ silent_for |-> now - profile.last_seen_at,
                      silent     |-> now - profile.last_seen_at > SILENT_AFTER ])

InstancesView(data, w, now) ==
    [p \in {q.pubkey : q \in data.profiles} |->
        Joined(ProfileRows(CHOOSE q \in data.profiles : q.pubkey = p, now),
               [created |-> Cardinality(CreatedOver(Own(data.orders, p), w))])]

\* bestiario instance: own is the load narrowed to the instance, network
\* everybody's orders.
ProfileView(profile, own, network, w, now) ==
    LET activity == SummariseActivity(own.orders, w, now)
        sats     == ObservedSats(own.orders, w)
        all      == ObservedSats(network, w)
    IN  [ profile      |-> ProfileRows(profile, now),
          orders       |-> activity,
          volume       |-> sats,
          dev_fees     |-> SummariseDevFees(own.fees, w),
          disputes     |-> IF own.disputes = None
                           THEN Withheld(SummariseDisputes([disputes |-> {}, taken |-> {}], w, now))
                           ELSE SummariseDisputes(own.disputes, w, now),
          share_orders |-> Share(activity.created, Cardinality(CreatedOver(network, w))),
          share_volume |-> IF sats = None \/ all = None THEN None ELSE Share(sats, all) ]

\* bestiario orders <ORDER_ID>: every version and every fee, oldest first.
LifecycleView(rows, o) ==
    LET oldest(a, b) == a.at < b.at \/ (a.at = b.at /\ a.id < b.id)
        of(kind)     == {v \in OfKind(rows, kind) : v.key = o}
        fees         == V!SetToSortSeq(of("dev_fee"), oldest)
    IN  [ versions |-> V!SetToSortSeq(of("order"), oldest),
          fees     |-> [i \in DOMAIN fees |-> [at |-> fees[i].at, sats |-> fees[i].sats,
                                               duplicate |-> fees[i] # First(of("dev_fee"))]] ]
=============================================================================
