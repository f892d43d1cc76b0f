------------------------------ MODULE Calendar ------------------------------
(***************************************************************************)
(* Reporting windows and the calendar they are cut by: crates/stats'       *)
(* window.rs and bucket.rs, and the --from, --until and --instance options *)
(* that src/commands/range.rs resolves.                                    *)
(*                                                                         *)
(* The calendar itself is chrono's.  Here it is a first instant, 0, a last *)
(* one, and the instants a month opens between them, so that months may    *)
(* have any lengths and a date may lie outside what can be represented.    *)
(***************************************************************************)
EXTENDS Integers, Sequences, FiniteSets, FiniteSetsExt

CONSTANTS
    DAY,                \* seconds in a day, 86400
    WEEK,               \* days in a week, 7
    MONDAY,             \* the first day that opens a week
    YEAR,               \* months in a year, 12
    MonthStart,         \* the instant each month opens; the last is the end of time
    DEFAULT_WINDOW,     \* DEFAULT_WINDOW_DAYS, in seconds
    MAX_WINDOW,         \* MAX_WINDOW_SECS
    None                \* None of an instant, a window or a list of buckets

Months == 1 .. Len(MonthStart) - 1
Eternity == MonthStart[Len(MonthStart)]
Instants == 0 .. Eternity - 1

ASSUME CalendarAssumption ==
    /\ DAY \in Nat \ {0} /\ WEEK \in Nat \ {0} /\ YEAR \in Nat \ {0}
    /\ MONDAY \in 0 .. WEEK - 1
    /\ MonthStart \in Seq(Nat) /\ Len(MonthStart) > 1 /\ MonthStart[1] = 0
    /\ \A m \in Months : MonthStart[m] < MonthStart[m + 1]
    /\ \A m \in Months : MonthStart[m] % DAY = 0
    /\ DEFAULT_WINDOW \in Nat \ {0} /\ MAX_WINDOW \in Nat
    /\ None \notin Int

Periods == {"day", "week", "month", "year"}

Window(from, until) == [from |-> from, until |-> until]

Contains(w, t) == t >= w.from /\ t < w.until

\* The window of the same length before this one.
Previous(w) == Window(w.from - (w.until - w.from), w.from)

MonthOf(t) == CHOOSE m \in Months : MonthStart[m] <= t /\ t < MonthStart[m + 1]
YearOf(t)  == (MonthOf(t) - 1) \div YEAR

\* checked_sub_days, on an instant a date can represent.
BackDays(t, n) ==
    IF t \in Instants /\ t - n * DAY \in Instants THEN t - n * DAY ELSE None

\* A fault: the day keeps its number where the earlier month has no such day.
SpillMonths(t, n) ==
    IF t \notin Instants \/ MonthOf(t) <= n THEN None
    ELSE MonthStart[MonthOf(t) - n] + (t - MonthStart[MonthOf(t)])

\* checked_sub_months: the same time of the same day, or of the last day of
\* a month that is shorter.
BackMonths(t, n) ==
    IF t \notin Instants \/ MonthOf(t) <= n THEN None
    ELSE LET m    == MonthOf(t)
             into == t - MonthStart[m]
             last == (MonthStart[m - n + 1] - MonthStart[m - n]) \div DAY - 1
         IN  MonthStart[m - n] + (Min({into \div DAY, last}) * DAY) + (into % DAY)

\* A window between two dates, if there are such dates.
Between(from, until) == IF from = None \/ until = None THEN None ELSE Window(from, until)

\* The same span one period earlier.
Preceding(w, period) ==
    LET back(t) == CASE period = "day"   -> BackDays(t, 1)
                     [] period = "week"  -> BackDays(t, WEEK)
                     [] period = "month" -> BackMonths(t, 1)
                     [] period = "year"  -> BackMonths(t, YEAR)
    IN  Between(back(w.from), back(w.until))

\* The instants at which a bucket of the period opens.
Openings(period) ==
    CASE period = "day"   -> {t \in Instants : t % DAY = 0}
      [] period = "week"  -> {t \in Instants : t % DAY = 0 /\ (t \div DAY) % WEEK = MONDAY}
      [] period = "month" -> {MonthStart[m] : m \in Months}
      [] period = "year"  -> {MonthStart[m] : m \in {n \in Months : (n - 1) % YEAR = 0}}

\* The pairs of one opening and the next.
Whole(open) ==
    {b \in open \X open : b[1] < b[2] /\ ~\E e \in open : b[1] < e /\ e < b[2]}

AtMost(limit, buckets) == IF Cardinality(buckets) > limit THEN None ELSE buckets

\* A fault: a bucket is clipped at its end only.
WholeBucketsUpto(w, period, limit) ==
    LET open == Openings(period)
        clipped == {Window(b[1], Min({b[2], w.until})) :
                        b \in {c \in Whole(open) : c[2] > w.from /\ c[1] < w.until}}
    IN  AtMost(limit, clipped)

\* The whole buckets that reach into the window, each clipped to it.  There
\* are none when the first has no opening to walk from, and the walk ends at
\* the last bucket whose end can be dated.  More than limit is no answer.
BucketsUpto(w, period, limit) ==
    LET open    == Openings(period)
        clipped == {Window(Max({b[1], w.from}), Min({b[2], w.until})) :
                        b \in {c \in Whole(open) : /\ c[2] > w.from /\ c[1] < w.until
                                                   /\ w.from < w.until}}
    IN  IF ~\E c \in open : w.from \in Instants /\ c <= w.from THEN {}
        ELSE AtMost(limit, clipped)

\* No window is too wide for usize::MAX.
Buckets(w, period) == BucketsUpto(w, period, Eternity)

-----------------------------------------------------------------------------
(* What the archive can speak for: the created_at of its earliest and its  *)
(* latest event, either of them None.                                      *)

\* Coverage::covers: overlap, not containment.
SpeaksFor(coverage, w) ==
    /\ coverage.earliest # None /\ w.until > coverage.earliest
    /\ coverage.latest # None => w.from <= coverage.latest

\* The whole calendar month or year that holds instant t.
MonthBucket(t) == Window(MonthStart[MonthOf(t)], MonthStart[MonthOf(t) + 1])
YearBucket(t) ==
    LET inside == {m \in Months : (m - 1) \div YEAR = YearOf(t)}
    IN  Window(MonthStart[Min(inside)], MonthStart[Max(inside) + 1])

\* Coverage::partitions: months for a daily or weekly series, years for a
\* monthly one, from the one that holds the floor to the one that holds the
\* earlier of latest and now, which may be before the floor within it.
Partitions(coverage, resolution, now) ==
    IF coverage.earliest = None \/ coverage.earliest > now THEN {}
    ELSE LET last == IF coverage.latest = None THEN now
                     ELSE Min({coverage.latest, now})
             part(t) == IF resolution = "monthly" THEN YearBucket(t) ELSE MonthBucket(t)
         IN  {part(t) : t \in part(coverage.earliest).from .. last}

\* bucket::walk: each bucket with the window its rows are computed over and
\* the one they are compared with.  A bucket nobody indexed keeps its rows,
\* computed over nothing and withheld; a comparison needs a covered past.
Walked(b, before, coverage) ==
    [ bucket   |-> b,
      missing  |-> ~SpeaksFor(coverage, b),
      over     |-> IF SpeaksFor(coverage, b) THEN b ELSE Window(b.from, b.from),
      previous |-> IF SpeaksFor(coverage, b) /\ before # None /\ SpeaksFor(coverage, before)
                   THEN before ELSE None ]

BucketWalk(w, period, coverage) ==
    {Walked(b, Preceding(b, period), coverage) : b \in Buckets(w, period)}

-----------------------------------------------------------------------------
(* The options every report takes.                                         *)

\* Range::resolve: the window, or no window for an empty or too wide one.  A
\* bound that was not given is None.
ResolveRange(from, until, now) ==
    LET u == IF until = None THEN now ELSE until
        f == IF from = None THEN u - DEFAULT_WINDOW ELSE from
    IN  {w \in {Window(f, u)} : f < u /\ u - f <= MAX_WINDOW}

\* InstanceFilter::resolve over the rows of instances in the order they are
\* listed: the pubkey meant, None for all, or nothing when no instance or
\* too many match.  text is the spelling of a pubkey and name a name, both
\* sequences of letters of one case.
ResolveInstance(needle, known) ==
    LET exact   == {i \in DOMAIN known : known[i].text = needle \/ known[i].name = needle}
        prefix  == {i \in DOMAIN known : /\ Len(needle) <= Len(known[i].text)
                                         /\ SubSeq(known[i].text, 1, Len(needle)) = needle}
        matches == exact \cup prefix
        chosen  == IF Cardinality(matches) = 1 THEN matches
                   ELSE {i \in exact : \A j \in exact : i <= j}
    IN  IF needle = None THEN {None} ELSE {known[i].pubkey : i \in chosen}
=============================================================================
