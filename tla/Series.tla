------------------------------- MODULE Series -------------------------------
(***************************************************************************)
(* A metric over time (crates/stats/src/series.rs) and the documents of a  *)
(* snapshot, which are made of the same blocks (publish/snapshot.rs).  A   *)
(* block is a record of figures; a metric is a family and one of its names.*)
(* data holds orders, fees, disputes, profiles, priced (a book and a code, *)
(* or None) and pct (the dev fee share assumed of each publisher).         *)
(***************************************************************************)
EXTENDS Views, Address

CONSTANTS
    MAX_BUCKETS,        \* how many buckets one series may have
    SpanDays            \* the days of each window of the grammar but "all"

ASSUME SeriesAssumption ==
    /\ MAX_BUCKETS \in Nat \ {0}
    /\ SpanDays \in [WindowNames \ {"all"} -> Nat]
    /\ \A m \in Months : (m - 1) \div YEAR \in DOMAIN YearText
    /\ 1 .. YEAR \subseteq DOMAIN MonthText

Families == {"orders", "volume", "dev-fees", "disputes"}

\* Family::metrics
Block(family, data, w, now) ==
    CASE family = "orders"   -> SummariseActivity(data.orders, w, now)
      [] family = "volume"   ->
            Joined(SummariseVolume(data.orders, w),
                   IF data.priced = None THEN << >>
                   ELSE [in |-> ConvertedRows(Convert(data.orders, w, data.priced.book,
                                                      data.priced.code))])
      [] family = "dev-fees" ->
            Joined(SummariseDevFees(data.fees, w),
                   IF data.pct = None THEN << >>
                   ELSE [implied |-> Implied(data.fees, w, data.pct)])
      [] family = "disputes" -> SummariseDisputes(data.disputes, w, now)

\* plottable: not a figure about now, nor one that is a change already.
AboutNow == {"open_now", "in_progress_now", "open"}
Deltas   == {"created_delta", "completed_delta"}
Plottable(name) == name \notin AboutNow \cup Deltas

\* catalogue_of
Catalogue(family, data, w, now) ==
    {name \in DOMAIN Block(family, data, w, now) : Plottable(name)}

\* measure: None when the family does not report it over the window.
FigureOf(block, name) == IF name \in DOMAIN block THEN block[name] ELSE None

Measure(family, name, data, w, now) == FigureOf(Block(family, data, w, now), name)

Supports(family, split) == split = "instance" \/ family \in {"orders", "volume"}

\* The figures that are proportions already.
Ratios == {"completion_rate", "abandonment_rate", "coverage", "rate", "buyer_share",
           "seller_share"}

\* delta: the difference of two proportions, the relative change of anything
\* else, and none against nothing or against zero.
Delta(name, previous, current) ==
    CASE previous = None \/ current = None -> None
      [] previous # None /\ current # None /\ name \in Ratios ->
            <<current[1] * previous[2] - previous[1] * current[2], current[2] * previous[2]>>
      [] OTHER -> IF previous = 0 THEN None
                  ELSE <<current - previous, IF previous < 0 THEN -previous ELSE previous>>

\* split_data: only what the family reads, and the book for every slice.
SplitData(data, family, split) ==
    LET none   == [ orders |-> {}, profiles |-> {}, priced |-> None, pct |-> None,
                    fees |-> [fees |-> {}, settlements |-> {}],
                    disputes |-> [disputes |-> {}, taken |-> {}] ]
        orders == Slice(data.orders, split)
    IN  CASE family \in {"orders", "volume"} ->
                [k \in DOMAIN orders |-> [none EXCEPT !.orders = orders[k],
                                                      !.priced = data.priced]]
          [] family = "dev-fees" ->
                [k \in DOMAIN FeesByInstance(data.fees) |->
                    [none EXCEPT !.fees = FeesByInstance(data.fees)[k], !.pct = data.pct]]
          [] family = "disputes" ->
                [k \in DOMAIN DisputesByInstance(data.disputes) |->
                    [none EXCEPT !.disputes = DisputesByInstance(data.disputes)[k]]]

\* Each bucket of a window with its value and its change against the bucket
\* plotted before it.
Points(name, value) ==
    {[ bucket |-> b,
       value  |-> value[b],
       delta  |-> LET before == {c \in DOMAIN value : c.until = b.from}
                  IN  IF before = {} THEN None
                      ELSE Delta(name, value[CHOOSE c \in before : TRUE], value[b]) ] :
        b \in DOMAIN value}

Plot(family, name, data, buckets, now) ==
    Points(name, [b \in buckets |-> Measure(family, name, data, b, now)])

\* report, with the errors of SeriesError as words.
SeriesReport(family, name, data, w, period, split, now) ==
    LET buckets == BucketsUpto(w, period, MAX_BUCKETS)
        slices  == SplitData(data, family, split)
    IN  CASE family \notin Families -> "unknown_metric"
          [] family \in Families /\ name \in AboutNow -> "about_now"
          [] family \in Families /\ name \in Deltas -> "already_a_delta"
          [] OTHER ->
             IF name \notin DOMAIN Block(family, data, w, now) THEN "unknown_metric"
             ELSE IF split # None /\ ~Supports(family, split) THEN "cannot_split"
             ELSE IF buckets = None THEN "too_many_buckets"
             ELSE IF split = None THEN Plot(family, name, data, buckets, now)
             ELSE [k \in DOMAIN slices |-> Plot(family, name, slices[k], buckets, now)]

-----------------------------------------------------------------------------
(* The documents of a snapshot.                                            *)

\* A fault: every span ends at the clock.
WindowToClock(span, coverage, now) ==
    IF span = "all" /\ coverage.earliest # None THEN Window(Min({coverage.earliest, now}), now)
    ELSE Window(IF span = "all" THEN now ELSE now - SpanDays[span] * DAY, now)

\* window_of: the span ends at the archive's ceiling, and all opens at its
\* floor, neither of them past the clock.
WindowOf(span, coverage, now) ==
    LET until == IF coverage.latest = None THEN now ELSE Min({coverage.latest, now})
    IN  IF span = "all"
        THEN Window(IF coverage.earliest = None THEN until
                    ELSE Min({coverage.earliest, until}), until)
        ELSE Window(until - SpanDays[span] * DAY, until)

\* A currency with nothing above zero has no block.
Traded(blocks, counts) ==
    [code \in {c \in DOMAIN blocks : \E name \in counts : blocks[c][name] > 0} |-> blocks[code]]

\* fiat_counts
FiatCounts(orders, w, now) ==
    LET slices   == Slice(orders, "fiat")
        brief(a) == [ created |-> a.created, completed |-> a.completed,
                      canceled |-> a.canceled, open_now |-> a.open_now ]
    IN  Traded([code \in DOMAIN slices |-> brief(SummariseActivity(slices[code], w, now))],
               {"created", "completed", "canceled", "open_now"})

\* instance_metrics: the instance's block, and one per currency it traded.
InstanceMetrics(own, w, now) ==
    LET slices == Slice(own, "fiat")
        blocks == [code \in DOMAIN slices |-> SummariseActivity(slices[code], w, now)]
    IN  Joined(SummariseActivity(own, w, now),
               [fiat |-> Traded(blocks, {"created", "completed", "canceled", "open_now",
                                         "in_progress_now"})])

WindowMetrics(report, data, w, now) ==
    CASE report = "orders"    -> Joined(Block("orders", data, w, now),
                                        [fiat |-> FiatCounts(data.orders, w, now)])
      [] report \in Families \ {"orders"} -> Block(report, data, w, now)
      [] report = "summary"   -> SummaryView(data, w, now)
      [] report = "market"    -> MarketReport(data.orders, w, None)
      [] report = "instances" -> InstancesView(data, w, now)
      [] report = "compare"   -> CompareView(data, w, now)

\* A fault: a week is cut where the month ends.
ClippedWeeks(resolution, span) ==
    CASE resolution = "daily"   -> Buckets(span, "day")
      [] resolution = "monthly" -> Buckets(span, "month")
      [] resolution = "weekly"  -> Buckets(span, "week")

\* rows_of: the days or months of the span, or the whole weeks that open in it.
RowsOf(resolution, span) ==
    CASE resolution = "daily"   -> Buckets(span, "day")
      [] resolution = "monthly" -> Buckets(span, "month")
      [] resolution = "weekly"  -> {Window(t, t + WEEK * DAY) :
                                       t \in {u \in Openings("week") : Contains(span, u)}}

\* A row has figures when the archive can speak for it and it has begun.
RowCovered(coverage, row, now) == SpeaksFor(coverage, row) /\ row.from < now

\* partition: a cell is null in a row without figures.
PartitionRows(data, family, resolution, span, coverage, now) ==
    [row \in RowsOf(resolution, span) |->
        [name \in Catalogue(family, data, span, now) |->
            IF RowCovered(coverage, row, now) THEN Measure(family, name, data, row, now)
            ELSE None]]

\* Bucket::window, the other way round: the bucket a partition is named by.
BucketOf(span, resolution) ==
    [ year  |-> YearOf(span.from),
      month |-> IF resolution = "monthly" THEN Absent
                ELSE ((MonthOf(span.from) - 1) % YEAR) + 1 ]

\* Snapshot::compute: every window of every report, the partitions of every
\* family, and the windows of each instance's orders, by their address.
Documents(data, coverage, now) ==
    LET windows == {WindowAddress(r, s, Absent) : r \in Reports, s \in WindowNames}
        spans(res) == {p \in Partitions(coverage, res, now) : SpeaksFor(coverage, p)}
        series  == UNION {{SeriesAddress(f, res, BucketOf(p, res), Absent) : p \in spans(res)} :
                             f \in Families, res \in Resolutions}
        scoped  == {WindowAddress("orders", s, [kind |-> "i", value |-> p]) :
                       s \in WindowNames, p \in {q.pubkey : q \in data.profiles} \cap DOMAIN Hex}
    IN  windows \cup series \cup scoped
=============================================================================
