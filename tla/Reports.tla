------------------------------ MODULE Reports -------------------------------
(***************************************************************************)
(* The commands that answer from the archive (src/commands: query.rs,      *)
(* the files of stats, summary.rs, market.rs, compare.rs, instances.rs,    *)
(* series.rs, order.rs).  A question is a record of what was typed: a      *)
(* command, its argument (a currency, an order, a metric), --by or         *)
(* --split, --instance, --network, --from and --until, None where it was   *)
(* not given.                                                              *)
(***************************************************************************)
EXTENDS Series

CONSTANTS
    NetworksSetting,    \* [indexer] networks
    PctSetting,         \* [assumptions] dev_fee_percentage
    Letters,            \* the spelling of each pubkey
    NameOf              \* the name of each instance, None if it has none

\* No two pubkeys are spelt alike.
ASSUME LettersAssumption ==
    /\ \A p, r \in DOMAIN Letters : Letters[p] = Letters[r] => p = r
    /\ \A p \in DOMAIN Letters : Letters[p] # None

\* The commands that take --by instance, or --split instance.
ByInstance == {"orders", "volume", "timing", "market", "disputes", "dev-fees", "series"}

\* instances::all: ORDER BY first_seen_at, pubkey
KnownInstances(rows) ==
    LET known == Known(rows)
        seen(p) == Min({v.at : v \in {w \in rows : w.pubkey = p}})
        before(q, p) == seen(q) < seen(p) \/ (seen(q) = seen(p) /\ q < p)
        nth(i) == CHOOSE p \in known : Cardinality({q \in known : before(q, p)}) = i - 1
    IN  [i \in 1 .. Cardinality(known) |->
            [pubkey |-> nth(i), text |-> Letters[nth(i)], name |-> NameOf[nth(i)]]]

\* Query::resolve: no query when a bound or the instance is refused, or when
\* there is nothing archived.
Resolve(q, rows, now) ==
    {[ window   |-> w,
       scope    |-> [ pubkey   |-> p,
                      networks |-> IF q.network = None THEN NetworksSetting ELSE {q.network} ],
       narrowed |-> q.network # None ] :
        w \in {v \in ResolveRange(q.from, q.until, now) : EventsOf(rows) # {}},
        p \in ResolveInstance(q.instance, KnownInstances(rows))}

\* An order by its id takes no options: its span is that of its versions,
\* and there is none for an order nobody has seen.
ResolveOrder(o, rows, now) ==
    LET seen == {v.at : v \in {w \in OfKind(rows, "order") : w.key = o}}
    IN  {[window |-> w, scope |-> [pubkey |-> None, networks |-> {}], narrowed |-> FALSE] :
            w \in IF seen = {} THEN {} ELSE ResolveRange(Min(seen), Max(seen) + 1, now)}

\* refuse_network_scope: neither a dispute nor a snapshot names a network.
Refused(q) ==
    q.network # None /\ (q.command \in {"disputes", "rates"}
                         \/ (q.command = "series" /\ q.argument[1] = "disputes"))

-----------------------------------------------------------------------------
(* The report of each command, once its query is resolved.  Its figures    *)
(* are of the rows it loads; how far back they reach is asked of the       *)
(* archive afterwards, when it may hold more.                              *)

StatsOrders(q, query, rows, archive, now) ==
    OrdersReport(LoadOrders(rows, query.scope), query.window, now, q.by,
                 CoverageOf(archive, {"order"}, query.scope))

StatsVolume(q, query, rows, archive) ==
    VolumeReport(CompletedIn(rows, query.scope, query.window), query.window, q.by,
                 IF q.argument = None THEN None
                 ELSE [book |-> LoadBook(rows, query.window), code |-> q.argument],
                 CoverageOf(archive, {"order"}, query.scope))

StatsTiming(q, query, rows, now) ==
    TimingReport(TouchedIn(rows, query.scope, query.window, now), query.window, now, q.by)

StatsMarket(q, query, rows) ==
    MarketReport(LoadOrders(rows, query.scope), query.window, q.by)

StatsDisputes(q, query, rows, archive, now) ==
    DisputesReport(DisputeData(rows, query.scope), query.window, now, q.by,
                   CoverageOf(archive, {"dispute", "order"}, query.scope))

StatsDevFees(q, query, rows, archive) ==
    DevFeesReport(DevFeeData(rows, query.scope), query.window, q.by, PctSetting,
                  CoverageOf(archive, {"dev_fee", "order"}, query.scope))

StatsRates(q, query, rows, now) ==
    IF Orphans(rows, query.scope) # {} THEN "orphans"
    ELSE FeedsReport(LoadFeeds(rows, query.scope), q.argument, now)

\* market <FIAT>
MarketOf(q, query, rows, now) ==
    FiatReport(LoadOrders(rows, query.scope), q.argument, query.window, now)

\* A view goes without disputes when a network narrows it.
DisputesUnless(query, rows) == IF query.narrowed THEN None ELSE DisputeData(rows, query.scope)

Summary(query, rows, now) ==
    SummaryView([orders |-> LoadOrders(rows, query.scope), disputes |-> DisputesUnless(query, rows)],
                query.window, now)

\* A network is compared between those that traded on it.
Compare(query, rows, now) ==
    LET orders   == LoadOrders(rows, query.scope)
        profiles == {p \in LoadProfiles(rows, query.scope) :
                        query.narrowed => \E o \in orders : o.pubkey = p.pubkey}
    IN  CompareView([ orders |-> orders, disputes |-> DisputesUnless(query, rows),
                      fees |-> DevFeeData(rows, query.scope), profiles |-> profiles ],
                    query.window, now)

Instances(query, rows, now) ==
    InstancesView([ orders |-> LoadOrders(rows, query.scope),
                    profiles |-> LoadProfiles(rows, query.scope) ], query.window, now)

\* An instance against everybody, its own orders among them.
Instance(query, rows, now) ==
    LET p       == query.scope.pubkey
        network == LoadOrders(rows, [query.scope EXCEPT !.pubkey = None])
    IN  ProfileView(CHOOSE r \in LoadProfiles(rows, query.scope) : r.pubkey = p,
                    [ orders |-> Own(network, p), fees |-> DevFeeData(rows, query.scope),
                      disputes |-> DisputesUnless(query, rows) ],
                    network, query.window, now)

\* series::load_for: only what the family reads, everything for an unknown
\* one, whose error lists what there is.
LoadFor(rows, scope, family, priced, w) ==
    LET reads(some) == family \in some \/ family \notin Families
    IN  [ orders   |-> IF reads({"orders", "volume"}) THEN LoadOrders(rows, scope) ELSE {},
          fees     |-> IF reads({"dev-fees"}) THEN DevFeeData(rows, scope)
                       ELSE [fees |-> {}, settlements |-> {}],
          disputes |-> IF reads({"disputes"}) THEN DisputeData(rows, scope)
                       ELSE [disputes |-> {}, taken |-> {}],
          profiles |-> {},
          priced   |-> IF priced = None THEN None
                       ELSE [book |-> LoadBook(rows, w), code |-> priced],
          pct      |-> PctSetting ]

\* The argument is the family, the metric, the period and the currency to
\* price it in.
SeriesOf(q, query, rows, now) ==
    SeriesReport(q.argument[1], q.argument[2],
                 LoadFor(rows, query.scope, q.argument[1], q.argument[4], query.window),
                 query.window, q.argument[3], q.by, now)

-----------------------------------------------------------------------------
\* dispatch
Answer(q, query, rows, archive, now) ==
    CASE q.command = "orders"    -> StatsOrders(q, query, rows, archive, now)
      [] q.command = "volume"    -> StatsVolume(q, query, rows, archive)
      [] q.command = "timing"    -> StatsTiming(q, query, rows, now)
      [] q.command = "market"    -> StatsMarket(q, query, rows)
      [] q.command = "disputes"  -> StatsDisputes(q, query, rows, archive, now)
      [] q.command = "dev-fees"  -> StatsDevFees(q, query, rows, archive)
      [] q.command = "rates"     -> StatsRates(q, query, rows, now)
      [] q.command = "fiat"      -> MarketOf(q, query, rows, now)
      [] q.command = "summary"   -> Summary(query, rows, now)
      [] q.command = "compare"   -> Compare(query, rows, now)
      [] q.command = "instances" -> Instances(query, rows, now)
      [] q.command = "instance"  -> Instance(query, rows, now)
      [] q.command = "series"    -> SeriesOf(q, query, rows, now)
      [] q.command = "lifecycle" -> LifecycleView(rows, q.argument)

\* The queries a question resolves to: one, or none when it is refused.
Queries(q, rows, now) ==
    CASE Refused(q) -> {}
      [] ~Refused(q) /\ q.command = "lifecycle" -> ResolveOrder(q.argument, rows, now)
      [] OTHER -> Resolve(q, rows, now)
=============================================================================
