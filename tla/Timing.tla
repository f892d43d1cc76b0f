------------------------------- MODULE Timing -------------------------------
(***************************************************************************)
(* How long the stages of an order take, how old the open book is, and the *)
(* funnel of the orders that entered it (crates/stats/src/timing.rs).      *)
(***************************************************************************)
EXTENDS Activity

\* A fault: the canonical end is the success, whenever there is one.
PreferSuccess(o) ==
    CASE o.success_at # None -> [end |-> "success", at |-> o.success_at]
      [] o.success_at = None /\ o.canceled_at # None -> [end |-> "canceled", at |-> o.canceled_at]
      [] OTHER -> [end |-> None, at |-> None]

\* The canonical end: the earlier of the two, the success when they tie.
Terminal(o) ==
    LET canceled == /\ o.canceled_at # None
                    /\ o.success_at # None => o.canceled_at < o.success_at
    IN  CASE canceled -> [end |-> "canceled", at |-> o.canceled_at]
          [] ~canceled /\ o.success_at # None -> [end |-> "success", at |-> o.success_at]
          [] OTHER -> [end |-> None, at |-> None]

SuccessAt(o)  == IF Terminal(o).end = "success" THEN Terminal(o).at ELSE None
CanceledAt(o) == IF Terminal(o).end = "canceled" THEN Terminal(o).at ELSE None

\* The orders book_age is defined on: its age is now - pending_at.
OnBook(orders, now) ==
    {o \in orders : /\ o.taken_at = None /\ Terminal(o).end = None
                    /\ o.expires_at > now
                    /\ o.pending_at # None /\ o.pending_at <= now}

Funnel(orders, w, now) ==
    LET cohort   == {o \in orders : Dated(o.pending_at, w)}
        ended(e) == {o \in cohort : Terminal(o).end = e}
        taken    == {o \in cohort : o.taken_at # None} \cup ended("success")
        expired  == {o \in ended(None) \ taken : o.expires_at <= now}
    IN  [ created          |-> cohort,
          taken            |-> taken,
          completed        |-> ended("success"),
          canceled_taken   |-> {o \in ended("canceled") : o.taken_at # None},
          canceled_untaken |-> {o \in ended("canceled") : o.taken_at = None},
          expired_untaken  |-> expired,
          open             |-> ended(None) \ expired ]

FunnelRows(funnel) ==
    LET n(name) == Cardinality(funnel[name])
    IN  [ funnel        |-> [name \in DOMAIN funnel |-> n(name)],
          taken_share   |-> Share(n("taken"), n("created")),
          untaken_share |-> Share(n("canceled_untaken"), n("created")) ]

\* The durations from one observed version to another that ends in the
\* window, of the orders whose gap is more than nothing.
Gaps(from, to, w) ==
    LET measured == {o \in DOMAIN from : /\ from[o] # None /\ Dated(to[o], w)
                                         /\ to[o] - from[o] > 0}
        gap      == [o \in measured |-> to[o] - from[o]]
    IN  [samples |-> Cardinality(measured), p50 |-> P50(gap), p90 |-> P90(gap)]

\* summarise, without its last two counts.
SummariseTiming(orders, w, now) ==
    LET pending    == [o \in orders |-> o.pending_at]
        taken      == [o \in orders |-> o.taken_at]
        success    == [o \in orders |-> SuccessAt(o)]
        canceled   == [o \in orders |-> CanceledAt(o)]
        book       == OnBook(orders, now)
        stages     == [ time_to_fill     |-> Gaps(pending, taken, w),
                        time_to_complete |-> Gaps(taken, success, w),
                        full_cycle       |-> Gaps(pending, success, w),
                        time_to_cancel   |-> Gaps(pending, canceled, w),
                        book_size        |-> Cardinality(book),
                        book_age_avg     |-> IF book = {} THEN None
                                             ELSE SumOver(book, LAMBDA o : now - o.pending_at)
                                                  \div Cardinality(book) ]
    IN  Joined(stages, FunnelRows(Funnel(orders, w, now)))

\* The last two: both look past what the window's own versions say.
UnknownOrigin(orders, w) ==
    {o \in orders : o.pending_at = None /\ Contains(w, o.created_at)}
Regressed(orders) == {o \in orders : o.success_at # None /\ o.canceled_at # None}

\* The slices are by what the maker first put on the book.
OriginKeys(o, dimension) ==
    CASE dimension = "fiat"     -> {o.first_fiat}
      [] dimension = "method"   -> o.first_methods
      [] dimension = "kind"     -> {o.first_dir}
      [] dimension = "instance" -> {o.pubkey}

OriginSlice(orders, dimension) ==
    [key \in UNION {OriginKeys(o, dimension) : o \in orders} |->
        {o \in orders : key \in OriginKeys(o, dimension)}]

TimingReport(orders, w, now, dimension) ==
    LET block(group) == Joined(SummariseTiming(group, w, now),
                               [ unknown_origin |-> Cardinality(UnknownOrigin(group, w)),
                                 regressed      |-> Cardinality(Regressed(group)) ])
        slices == OriginSlice(orders, dimension)
    IN  IF dimension = None THEN block(orders)
        ELSE [key \in DOMAIN slices |-> block(slices[key])]
=============================================================================
