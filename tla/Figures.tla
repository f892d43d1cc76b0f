------------------------------- MODULE Figures ------------------------------
(***************************************************************************)
(* The figures of an archive that grows: events come in in any order, the  *)
(* clock moves, commands load and report, snapshots are made of what is    *)
(* there and clients spell addresses.  Every definition of a figure is in  *)
(* the modules this one extends; here are the steps between two figures    *)
(* and what must hold of all of them together.                             *)
(***************************************************************************)
EXTENDS Reports

CONSTANTS
    Versions,           \* the rows there may be, and the sightings of the heartbeats in them
    Clocks,             \* the instants the wall clock shows
    Questions,          \* what may be asked
    Spans,              \* the windows the properties look at
    Reference,          \* [publish] reference_currency
    RATES_BUCKET,       \* RATES_BUCKET_SECS
    Segments            \* what a client may type between two colons

VARIABLES
    rows,               \* the version tables
    now,                \* the wall clock
    asked,              \* the command between its load and its report, or None
    answer,             \* what was last reported, until the archive moves on
    typed               \* the address a client spelt, << >> before it did

vars == <<rows, now, asked, answer, typed>>

\* What is left of a heartbeat that is not kept.
Sighting(v) == [v EXCEPT !.kind = "seen"]

ASSUME FiguresAssumption ==
    /\ IsFiniteSet(Versions) /\ Clocks \subseteq Instants
    /\ \A v \in Versions : v.kind \in {"info", "rates"} => Sighting(v) \in Versions
    /\ \A v \in Versions :
          /\ v.at \in Instants /\ v.id \in Nat /\ v.pubkey \in Nat
          /\ \A period \in {"day", "week", "month"} : \E t \in Openings(period) : v.at < t
          /\ v.kind \in {"order", "dispute"} => v.stamp \in Nat \cup {None}
          /\ v.kind = "rates" => v.stamp \in Nat
          /\ v.kind \in {"order", "dev_fee"} => v.sats \in Nat
          /\ v.kind = "order" => v.status \in OrderStatuses /\ v.direction \in {"buy", "sell"}
    /\ \A w \in Spans : /\ w.from \in Instants /\ w.until \in Instants /\ w.from <= w.until
                        /\ \E t \in Openings("week") : t <= w.from
                        /\ \A period \in {"day", "week", "month"} :
                              \E t \in Openings(period) : w.until <= t
    /\ RATES_BUCKET \in Nat \ {0} /\ None \notin {"hour", "weekday", "success", "canceled"}
    /\ None \notin [book : SUBSET Versions, code : {Reference}]
    /\ Segments \subseteq Seq(STRING)

\* What can be typed: the instance command names one, and what is plotted
\* over time lies within the calendar.
ASSUME QuestionsAssumption ==
    /\ \A v \in Versions : v.pubkey \in DOMAIN Letters
    /\ \A q \in Questions :
          /\ DOMAIN q = {"command", "argument", "by", "instance", "network", "from", "until"}
          /\ q.command = "instance" => q.instance # None
    /\ \A q \in {r \in Questions : r.command = "series"} :
          /\ q.argument[3] \in Periods
          /\ \A c \in Clocks : \A w \in ResolveRange(q.from, q.until, c) :
                /\ w.from \in Instants /\ w.until \in Instants
                /\ \E t \in Openings(q.argument[3]) : t <= w.from
                /\ \E t \in Openings(q.argument[3]) : w.until <= t
    /\ None \notin {"instance", "month", "day", "status", "initiator", "network"}

Everyone == [pubkey |-> None, networks |-> {}]

\* What a snapshot is computed from: one reading of everything, the extent
\* first and the rows after it.
Extent(archive) ==
    [ earliest |-> Floor(archive, DOMAIN IndexedFrom, Everyone),
      latest   |-> IF EventsOf(archive) = {} THEN None
                   ELSE Max({v.at : v \in EventsOf(archive)}) ]

SnapshotData(archive, clock) ==
    LET floor == Extent(archive).earliest
        from  == IF floor = None THEN clock ELSE floor
    IN  [ orders   |-> LoadOrders(archive, Everyone),
          fees     |-> DevFeeData(archive, Everyone),
          disputes |-> DisputeData(archive, Everyone),
          profiles |-> LoadProfiles(archive, Everyone),
          pct      |-> PctSetting,
          priced   |-> [book |-> LoadBook(archive, Window(from, clock)), code |-> Reference] ]

-----------------------------------------------------------------------------
Init ==
    /\ rows = {} /\ now \in Clocks
    /\ asked = None /\ answer = None /\ typed = << >>

\* Retention keeps one snapshot of a publisher in each bucket of its time,
\* and no announcement that says what the one before it said.  Relay lists
\* carry no figure and are not among the rows.
Redundant(v) ==
    LET others(kind) == {r \in OfKind(rows, kind) : r.pubkey = v.pubkey /\ r.id # v.id}
    IN  CASE v.kind = "rates" ->
                \E r \in others("rates") : r.stamp \div RATES_BUCKET = v.stamp \div RATES_BUCKET
          [] v.kind = "info" ->
                LET before == {r \in others("info") : r.at <= v.at}
                IN  before # {} /\ Last(before).fee = v.fee
          [] OTHER -> FALSE

\* A heartbeat that is dropped still moves when its publisher was seen.
Ingest(v) ==
    /\ v.kind # "seen" /\ v \notin rows
    /\ rows' = rows \cup {IF Redundant(v) THEN Sighting(v) ELSE v}
    /\ answer' = None /\ typed' = << >>
    /\ UNCHANGED <<now, asked>>

Tick ==
    /\ now' \in {t \in Clocks : t > now}
    /\ answer' = None
    /\ UNCHANGED <<rows, asked, typed>>

\* A command is given: its query is resolved and its rows are loaded.
Ask(q) ==
    /\ asked = None
    /\ \E query \in Queries(q, rows, now) :
          asked' = [question |-> q, query |-> query, read |-> rows, at |-> now]
    /\ answer' = None
    /\ UNCHANGED <<rows, now, typed>>

\* A fault: the command goes on when it has reported.
ReportAgain ==
    /\ asked # None
    /\ answer' = Joined(asked, [ told   |-> rows,
                                 report |-> Answer(asked.question, asked.query, asked.read,
                                                   rows, asked.at) ])
    /\ UNCHANGED <<rows, now, asked, typed>>

\* It reads how far the archive reaches, and reports.
Report ==
    /\ asked # None
    /\ answer' = Joined(asked, [ told   |-> rows,
                                 report |-> Answer(asked.question, asked.query, asked.read,
                                                   rows, asked.at) ])
    /\ asked' = None
    /\ UNCHANGED <<rows, now, typed>>

\* A client takes an address of the snapshot and changes, adds or drops one
\* of its segments.
Type(a, i, s) ==
    LET text == Render(a)
    IN  /\ asked = None /\ answer = None /\ typed = << >>
        /\ typed' \in { SubSeq(text, 1, i - 1) \o <<s>> \o SubSeq(text, i + 1, Len(text)),
                        SubSeq(text, 1, i - 1) \o SubSeq(text, i + 1, Len(text)) }
        /\ UNCHANGED <<rows, now, asked, answer>>

Indexer ==
    \/ \E v \in Versions : Ingest(v)
    \/ Tick
    \/ \E q \in Questions : Ask(q)
    \/ Report

Client ==
    \E a \in Documents(SnapshotData(rows, now), Extent(rows), now), s \in Segments :
        \E i \in 1 .. Len(Render(a)) + 1 : Type(a, i, s)

Next == Indexer \/ Client

Spec == Init /\ [][Next]_vars

-----------------------------------------------------------------------------
(* What must hold.                                                         *)

\* The words of addresses and of what a client may type.
Vocabulary ==
    {"index", "series", "dev", "fees", "i", "n"}
    \cup Reports \cup WindowNames \cup Resolutions \cup NETWORKS
    \cup UNION {{text[x] : x \in DOMAIN text} : text \in {YearText, MonthText, Hex} \cup Segments}

\* The archive holds what was stored, a command is between its load and its
\* report or has reported, nothing else is under way, and what a client
\* spelt is of the words there are.
TypeOK ==
    /\ rows \subseteq Versions /\ now \in Clocks
    /\ asked # None => /\ asked.question \in Questions /\ asked.read \subseteq rows
                       /\ answer = None
    /\ answer # None => answer.read \subseteq answer.told /\ answer.told = rows
    /\ typed \in Seq(Seq(Vocabulary))

\* The figures of a window that are sums over it.
Tallies(data, w) ==
    LET activity == DatedActivity(data.orders, w, None)
        disputes == DatedDisputes(data.disputes, w)
        fees     == SummariseDevFees(data.fees, w)
    IN  << activity.created, activity.completed, activity.canceled, disputes.opened,
           disputes.resolved, fees.paid, fees.total_sats >>

AddUp(parts, whole) ==
    \A i \in DOMAIN whole : SumOver(DOMAIN parts, LAMBDA b : parts[b][i]) = whole[i]

\* A table --by month, day or week, and the hours and weekdays of
\* histogram, add up to the same report without --by: window.rs' buckets
\* leave no instant of the window out and put none in two of them, whatever
\* the lengths of the months and wherever the window is cut.
ColumnsAddUp ==
    LET data == SnapshotData(rows, now)
    IN  \A w \in Spans :
           /\ \A period \in {"day", "week", "month"} :
                 AddUp([b \in Buckets(w, period) |-> Tallies(data, b)], Tallies(data, w))
           /\ \A by \in {"hour", "weekday"} :
                 LET h == OrdersReport(data.orders, w, now, by, Extent(rows))
                 IN  AddUp([b \in DOMAIN h |-> <<h[b].created, h[b].completed>>],
                           SubSeq(Tallies(data, w), 1, 2))

\* The partitions a snapshot publishes and the rows with figures in them.
SpansPublished(resolution) ==
    {p \in Partitions(Extent(rows), resolution, now) : SpeaksFor(Extent(rows), p)}

Filled(table) == {row \in DOMAIN table : table[row].created # None}

Plotted(resolution) ==
    LET data == SnapshotData(rows, now)
    IN  UNION {Filled(PartitionRows(data, "orders", resolution, p, Extent(rows), now)) :
                  p \in SpansPublished(resolution)}

\* The events that a row is owed, and whether each from t on has one.
InExtent == {v \in EventsOf(rows) : /\ Extent(rows).earliest # None
                                    /\ v.at >= Extent(rows).earliest /\ v.at < now}

PlottedOnce(resolution, t) ==
    LET plotted == Plotted(resolution)
    IN  \A v \in InExtent :
           v.at >= t => Cardinality({row \in plotted : Contains(row, v.at)}) = 1

\* A client that reads every partition of one resolution finds each event
\* between the archive's floor and the clock in exactly one row with figures:
\* Coverage::partitions, Bucket::window, rows_of and the null rule of
\* partition leave no gap between them.  Weekly partitions are cut by month
\* and hold whole weeks: no week has two rows, though months begin in the
\* middle of one, and from the first Monday of the archive's first month on
\* no event is without one.
EventsPlotted ==
    LET month  == MonthBucket(Extent(rows).earliest)
        monday == Min({t \in Openings("week") : t >= month.from})
    IN  /\ PlottedOnce("daily", 0) /\ PlottedOnce("monthly", 0)
        /\ InExtent # {} =>
              /\ \A row \in Plotted("weekly") : row.until - row.from = WEEK * DAY
              /\ PlottedOnce("weekly", monday)

\* What the publication says of its weekly partitions: a week that spans a
\* month boundary lives in one partition, so that none is missing.
EveryWeekPlotted == PlottedOnce("weekly", 0)

\* The documents whose figures are dated by the archive, not by the clock.
DatedDocuments(archive, clock) ==
    LET data   == SnapshotData(archive, clock)
        extent == Extent(archive)
        still  == {"volume", "market", "dev-fees", "compare"}
        tables == UNION {{<<f, res, p>> : p \in Partitions(extent, res, clock)} :
                            f \in Families, res \in Resolutions}
    IN  << [w \in still \X WindowNames |->
               WindowMetrics(w[1], data, WindowOf(w[2], extent, clock), clock)],
           [t \in tables |-> PartitionRows(data, t[1], t[2], t[3], extent, clock)] >>

\* Once the clock has passed the floor and the last event, it alone changes
\* no partition and no window document of volume, market, dev fees or the
\* comparison: a run over an archive that has not moved has nothing of these
\* to restate.
OnlyEventsMoveFigures ==
    [][(/\ rows' = rows /\ now' # now
        /\ EventsOf(rows) # {} /\ Extent(rows).latest < now
        /\ Extent(rows).earliest # None => Extent(rows).earliest <= now)
          => DatedDocuments(rows, now') = DatedDocuments(rows, now)]_vars

\* The previous window of a bucket of stats orders --by month shares no order
\* with it, and that of a whole month is the month before, so that a delta
\* is a change from one month to the next: shifting by a month clamps a day
\* the shorter month does not have.
NeighbourCompared ==
    LET orders == LoadOrders(rows, Everyone)
    IN  \A w \in Spans :
        \A b \in BucketWalk(w, "month", CoverageOf(rows, {"order"}, Everyone)) :
           b.previous # None =>
              /\ CreatedOver(orders, b.over) \cap CreatedOver(orders, b.previous) = {}
              /\ CreatedOver(orders, b.previous)
                    \subseteq CreatedOver(orders, MonthBucket(MonthBucket(b.bucket.from).from - 1))
              /\ b.bucket = MonthBucket(b.bucket.from) =>
                    CountsOver(orders, b.previous)
                    = CountsOver(orders, MonthBucket(b.bucket.from - 1))

\* What a command loads is enough for what it reports: narrowing the orders
\* to those completed or touched in the window, and the rate book to the
\* window and MAX_AGE before it, changes no figure of stats volume and of
\* stats timing (but its last two counts) against a load of everything.
LoadedEnough ==
    LET orders == LoadOrders(rows, Everyone)
        rates  == OfKind(rows, "rates")
    IN  \A w \in Spans :
           LET done == CompletedIn(rows, Everyone, w)
           IN  /\ SummariseVolume(done, w) = SummariseVolume(orders, w)
               /\ SummariseTiming(TouchedIn(rows, Everyone, w, now), w, now)
                  = SummariseTiming(orders, w, now)
               /\ Convert(done, w, LoadBook(rows, w), Reference)
                  = Convert(orders, w, rates, Reference)

\* The price of a settled order is that of its time: a snapshot published
\* after the settlement never changes it, and one of another publisher
\* changes nothing for an order its own publisher priced.
NoHindsight ==
    [][\A o \in LoadOrders(rows, Everyone) :
          LET quote(archive) ==
                  RateAt(OfKind(archive, "rates"), o.pubkey, Reference, o.success_at)
              own == quote(rows) # None /\ quote(rows).lender = None
          IN  (/\ o.success_at # None /\ o \in LoadOrders(rows', Everyone)
               /\ \A v \in OfKind(rows' \ rows, "rates") :
                     v.stamp > o.success_at \/ (own /\ v.pubkey # o.pubkey))
              => quote(rows') = quote(rows)]_vars

\* An order pays its dev fee once: over the days of all time the fees
\* counted are one per order that has any, the earliest, and each is either
\* inverted into implied volume or counted as not invertible.
PaidOnce ==
    LET data == DevFeeData(rows, Everyone)
        fees == OfKind(rows, "dev_fee")
        days == Buckets(Window(0, Max(Openings("day"))), "day")
        of(name) == SumOver(days, LAMBDA d : SummariseDevFees(data, d)[name])
        implied(d) == Implied(data, d, PctSetting)
    IN  /\ of("paid") = Cardinality({f.key : f \in fees})
        /\ of("total_sats") = SumOver({First({f \in fees : f.key = k}) : k \in {f.key : f \in fees}},
                                      LAMBDA f : f.sats)
        /\ \A d \in days : SummariseDevFees(data, d).paid
                           = implied(d).inverted + implied(d).no_fee_in_force + implied(d).zero_fee

\* A currency or a method is new once: no two buckets of a window announce
\* the same one, and together they announce those the window does.
SightedOnce ==
    LET orders == LoadOrders(rows, Everyone)
    IN  \A w \in Spans :
           LET days == Buckets(w, "day")
               new(b) == << FirstSightings(orders, b, FiatOf(orders)),
                            FirstSightings(orders, b, MethodsOf(orders)) >>
           IN  \A i \in {1, 2} :
                  /\ UNION {new(b)[i] : b \in days} = new(w)[i]
                  /\ \A b, c \in days : b # c => new(b)[i] \cap new(c)[i] = {}

\* The blocks of a report by currency share out its total: completed orders,
\* sats (unless i64 cannot hold them) and the counts of the orders document,
\* whose currencies with nothing to show are left out, and of the document
\* of each instance; so do the two sides and the size buckets.
CurrenciesPartition ==
    LET orders == LoadOrders(rows, Everyone)
    IN  \A w \in Spans :
           LET volume   == SummariseVolume(orders, w)
               codes    == DOMAIN volume.fiat
               activity == SummariseActivity(orders, w, now)
               counts   == FiatCounts(orders, w, now)
               own(p)   == InstanceMetrics(Own(orders, p), w, now)
           IN  /\ volume.completed = SumOver(codes, LAMBDA c : volume.fiat[c].completed)
               /\ volume.completed = SumOver(DOMAIN volume.buckets, LAMBDA i : volume.buckets[i])
               /\ volume.sats # None =>
                     /\ volume.sats = SumOver(codes, LAMBDA c : volume.fiat[c].sats)
                     /\ volume.sats = volume.buy_sats + volume.sell_sats
               /\ volume.sats = None => Total(Sats(CompletedOver(orders, w))) > I64_MAX
               /\ \A name \in {"created", "completed", "canceled", "open_now"} :
                     activity[name] = SumOver(DOMAIN counts, LAMBDA c : counts[c][name])
               /\ \A block \in {own(o.pubkey) : o \in orders} :
                  \A name \in {"created", "completed", "canceled", "in_progress_now"} :
                     block[name] = SumOver(DOMAIN block.fiat, LAMBDA c : block.fiat[c][name])

\* Once an order has ended, for timing and its funnel, nothing published
\* later about it ends it otherwise: not a success after a cancellation, and
\* not the other way round.
EndIsFinal ==
    [][\A k \in KeysOf(rows, "order") :
          LET of(archive) == {v \in OfKind(archive, "order") : v.key = k}
              end(archive) == Terminal(LoadOrder(archive, k))
          IN  (/\ end(rows).end # None
               /\ \A v \in of(rows') \ of(rows) : v.at > Last(of(rows)).at)
              => end(rows') = end(rows)]_vars

\* A series that was drawn, and not an error instead of one.
Plots(a) ==
    LET q == a.question
        w == a.query.window
    IN  /\ q.argument[1] \in Families
        /\ q.argument[2] \in Catalogue(q.argument[1],
                                       LoadFor(a.read, a.query.scope, q.argument[1],
                                               q.argument[4], w), w, a.at)
        /\ BucketsUpto(w, q.argument[3], MAX_BUCKETS) # None

\* The series of orders created, drawn.
PlotsCreated(a) ==
    /\ a.question.command = "series"
    /\ a.question.argument[1] = "orders" /\ a.question.argument[2] = "created"
    /\ Plots(a)

\* The same question put another way, for each p it can be put for: to one
\* instance instead of by instance, or to the command that knows the total.
Rewordings(a) ==
    LET q == a.question
    IN  CASE /\ q.by = "instance" /\ q.command \in ByInstance
             /\ q.command = "series" => Plots(a)                  -> DOMAIN a.report
          [] /\ q.by = None
             /\ q.command \in {"compare", "instance"} \/ PlotsCreated(a) -> {None}
          [] OTHER -> {}

Reworded(q, p) ==
    CASE p # None -> [q EXCEPT !.by = None, !.instance = Letters[p]]
      [] p = None /\ q.command = "compare" -> [q EXCEPT !.command = "summary"]
      [] p = None /\ q.command # "compare" -> [q EXCEPT !.command = "orders", !.argument = None]

\* Whether a report says what the other answer does.
Agrees(q, p, report, other) ==
    CASE p # None -> report[p] = other
      [] p = None /\ q.command = "compare" ->
            SumOver(DOMAIN report, LAMBDA i : report[i].completed) = other.completed
      [] p = None /\ q.command = "instance" ->
            /\ report.orders = other
            /\ report.share_orders # None => report.share_orders[1] <= report.share_orders[2]
      [] p = None /\ q.command = "series" ->
            SumOver(report, LAMBDA point : point.value) = other.created

\* The same figure asked for in two ways is the same: a slice --by instance
\* is the report with --instance, the comparison and the profiles share out
\* the summary, and a series adds up to the orders it plots.
AnswersAgree ==
    (answer # None /\ answer.told = answer.read) =>
        \A p \in Rewordings(answer) :
           LET again == Reworded(answer.question, p)
           IN  \E query \in Queries(again, answer.read, answer.at) :
                  Agrees(answer.question, p, answer.report,
                         Answer(again, query, answer.read, answer.read, answer.at))

\* What the commands say of a bucket before the first event of what they
\* read: it is a period nobody indexed, and no figure is printed for it.
NoFlatLine ==
    (answer # None /\ answer.question.by \in {"month", "day"}) =>
        LET floor == CoverageOf(answer.read, {"order"}, answer.query.scope)
        IN  \A line \in answer.report :
               line.block # Withheld(line.block) => SpeaksFor(floor, line.bucket)

\* Addresses are exact: two documents of a snapshot have different d tags,
\* each d parses back to its document, and what a client spells parses to an
\* address only when it is that address' one spelling.
AddressesParse ==
    /\ \A a \in Documents(SnapshotData(rows, now), Extent(rows), now) : Parse(Render(a)) = a
    /\ (typed # << >> /\ Parse(typed) # Absent) => Render(Parse(typed)) = typed
=============================================================================
