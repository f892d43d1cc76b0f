------------------------------ MODULE Activity ------------------------------
(***************************************************************************)
(* The activity figures (crates/stats/src/activity.rs), and the two things *)
(* every family shares: shares as fractions and percentiles by nearest     *)
(* rank.  A fraction is a pair of integers where the code has an f64, and  *)
(* None where the code has nothing to divide by.                           *)
(***************************************************************************)
EXTENDS Ledger

LOCAL S == INSTANCE SequencesExt

Share(n, d)  == IF d > 0 THEN <<n, d>> ELSE None
Growth(n, p) == IF p > 0 THEN <<n - p, p>> ELSE None

\* The figures of two blocks, one after the other.
Joined(block, more) ==
    [name \in DOMAIN block \cup DOMAIN more |->
        IF name \in DOMAIN block THEN block[name] ELSE more[name]]

\* Samples are a function: an order, a dispute or a fee to its value.
Total(samples) == MapThenSumSet(LAMBDA o : samples[o], DOMAIN samples)

SumOver(V, value(_)) == Total([x \in V |-> value(x)])

\* The num/den percentile of some samples: ceil(p * n), one-based, and never
\* below the first.
Percentile(samples, num, den) ==
    LET V      == DOMAIN samples
        sorted == S!SetToSortSeq(V, LAMBDA a, b : samples[a] < samples[b])
    IN  IF V = {} THEN None
        ELSE samples[sorted[Max({1, (num * Cardinality(V) + den - 1) \div den})]]

P50(samples) == Percentile(samples, 1, 2)
P90(samples) == Percentile(samples, 9, 10)

-----------------------------------------------------------------------------
\* The orders behind each dated count: every figure is dated by the event
\* that defines it.
CreatedOver(orders, w)   == {o \in orders : Contains(w, o.created_at)}
CompletedOver(orders, w) == {o \in orders : o.status = "success" /\ Dated(o.success_at, w)}
CanceledOver(orders, w)  == {o \in orders : o.status = "canceled" /\ Dated(o.canceled_at, w)}

CountsOver(orders, w) ==
    [ created   |-> Cardinality(CreatedOver(orders, w)),
      completed |-> Cardinality(CompletedOver(orders, w)),
      canceled  |-> Cardinality(CanceledOver(orders, w)) ]

\* summarise_against, less the two figures about now.  before is the window
\* to compare with, None when there is none to compare with.
DatedActivity(orders, w, before) ==
    LET current   == CountsOver(orders, w)
        past      == IF before = None THEN [created |-> 0, completed |-> 0, canceled |-> 0]
                     ELSE CountsOver(orders, before)
        abandoned == {o \in CreatedOver(orders, w) :
                         o.status = "canceled" /\ o.taken_at = None}
    IN  [ created          |-> current.created,
          completed        |-> current.completed,
          canceled         |-> current.canceled,
          completion_rate  |-> Share(current.completed, current.completed + current.canceled),
          abandonment_rate |-> Share(Cardinality(abandoned), current.created),
          created_delta    |-> Growth(current.created, past.created),
          completed_delta  |-> Growth(current.completed, past.completed) ]

\* The two about now.
LiveActivity(orders, now) ==
    [ open_now        |-> Cardinality({o \in orders : o.status = "pending" /\ o.expires_at > now}),
      in_progress_now |-> Cardinality({o \in orders : o.status = "in_progress"}) ]

SummariseActivity(orders, w, now) ==
    Joined(DatedActivity(orders, w, Previous(w)), LiveActivity(orders, now))

-----------------------------------------------------------------------------
(* stats orders --by.                                                      *)

GroupKeys(o, dimension) ==
    CASE dimension = "status"   -> {o.status}
      [] dimension = "kind"     -> {o.direction}
      [] dimension = "fiat"     -> {o.fiat_code}
      [] dimension = "method"   -> o.methods
      [] dimension = "instance" -> {o.pubkey}

\* slice: an order lands in each of its methods.
Slice(orders, dimension) ==
    [key \in UNION {GroupKeys(o, dimension) : o \in orders} |->
        {o \in orders : key \in GroupKeys(o, dimension)}]

\* by_hour and by_weekday, as the count of each bucket that an instant falls
\* in.  An instant no date can represent falls in none.
Histogram(orders, w, bucket, n) ==
    LET in(t, b) == t \in DOMAIN bucket /\ bucket[t] = b
    IN  [b \in 0 .. n - 1 |->
            [ created   |-> Cardinality({o \in CreatedOver(orders, w) : in(o.created_at, b)}),
              completed |-> Cardinality({o \in CompletedOver(orders, w) : in(o.success_at, b)}) ]]

HourOf    == [t \in Instants |-> t % DAY]
WeekdayOf == [t \in Instants |-> ((t \div DAY) - MONDAY) % WEEK]

\* Every value of a block withheld, as where nothing was indexed.
Withheld(block) == [name \in DOMAIN block |-> None]
Unless(missing, block) == IF missing THEN Withheld(block) ELSE block

\* report.  A period is cut by the calendar and carries no figure about now.
OrdersReport(orders, w, now, dimension, coverage) ==
    CASE dimension = None -> SummariseActivity(orders, w, now)
      [] dimension \in {"month", "day"} ->
            {[bucket |-> b.bucket,
              block  |-> Unless(b.missing, DatedActivity(orders, b.over, b.previous))] :
                b \in BucketWalk(w, dimension, coverage)}
      [] dimension = "hour"    -> Histogram(orders, w, HourOf, DAY)
      [] dimension = "weekday" -> Histogram(orders, w, WeekdayOf, WEEK)
      [] OTHER -> [key \in DOMAIN Slice(orders, dimension) |->
                      SummariseActivity(Slice(orders, dimension)[key], w, now)]
=============================================================================
