------------------------------- MODULE Rates --------------------------------
(***************************************************************************)
(* The lookup that prices an order (crates/stats/src/rates.rs), the volume *)
(* it converts (volume/converted.rs) and the state of the feeds themselves *)
(* (rates/feeds.rs).  A snapshot is a row of the rates table: its quotes   *)
(* are a function from some currencies to the price of one coin, and its   *)
(* stamp is its published_at.  Codes and pubkeys are numbers, for their    *)
(* order.                                                                  *)
(***************************************************************************)
EXTENDS Activity

CONSTANTS
    DEAD_AFTER,         \* DEAD_AFTER_SECS
    I64_MAX,            \* i64::MAX
    FLOAT_MAX           \* the largest finite f64

ASSUME RatesAssumption ==
    /\ DEAD_AFTER \in Nat /\ MAX_AGE <= DEAD_AFTER
    /\ I64_MAX \in Nat /\ FLOAT_MAX \in Nat

\* sum_sats: added up in i128, no figure when i64 cannot hold it.
SumSats(samples) == IF Total(samples) > I64_MAX THEN None ELSE Total(samples)

\* A sum of f64s, no figure when it is not finite.
SumFloat(samples) == IF Total(samples) > FLOAT_MAX THEN None ELSE Total(samples)

Sats(orders) == [o \in orders |-> o.amount_sats]

\* RateBook::newest over a book ordered by published_at and then pubkey.
\* Two snapshots of one publisher at one instant keep the order they were
\* read in, published_at and then event_id.
Newest(snapshots, code, t) ==
    LET usable == {s \in snapshots : /\ code \in DOMAIN s.quotes
                                     /\ s.stamp <= t /\ t - s.stamp <= MAX_AGE}
        before(r, s) == \/ r.stamp < s.stamp
                        \/ r.stamp = s.stamp /\ r.pubkey < s.pubkey
                        \/ r.stamp = s.stamp /\ r.pubkey = s.pubkey /\ r.id <= s.id
    IN  IF usable = {} THEN None ELSE CHOOSE s \in usable : \A r \in usable : before(r, s)

\* A fault: the newest quote, whoever published it.
FreshestQuote(book, p, code, t) ==
    LET any == Newest(book, code, t)
    IN  IF any = None THEN None
        ELSE [ rate |-> any.quotes[code], age |-> t - any.stamp,
               lender |-> IF any.pubkey = p THEN None ELSE any.pubkey ]

\* RateBook::rate_at: the publisher's own quote, lent by nobody, else
\* anybody's.
RateAt(book, p, code, t) ==
    LET own == Newest({s \in book : s.pubkey = p}, code, t)
        any == Newest(book, code, t)
        quote(s, lender) == [rate |-> s.quotes[code], age |-> t - s.stamp, lender |-> lender]
    IN  CASE own # None -> quote(own, None)
          [] own = None /\ any # None -> quote(any, any.pubkey)
          [] OTHER -> None

\* What orders come to at the quotes they are given.  value(o) is in
\* hundred-millionths of the currency.
Converted(at) ==
    LET done     == DOMAIN at
        value(o) == o.amount_sats * at[o].rate
        unpriced == {o \in done : at[o] = None}
        unusable == {o \in done \ unpriced : value(o) > FLOAT_MAX}
        priced   == (done \ unpriced) \ unusable
        lent(p)  == {o \in priced : at[o].lender = p}
        lenders  == {at[o].lender : o \in priced} \ {None}
    IN  [ total         |-> SumFloat([o \in priced |-> value(o)]),
          priced        |-> Cardinality(priced),
          unpriced      |-> Cardinality(unpriced),
          unpriced_sats |-> SumSats(Sats(unpriced)),
          unusable      |-> Cardinality(unusable),
          unusable_sats |-> SumSats(Sats(unusable)),
          borrowed      |-> [p \in lenders |-> [orders |-> Cardinality(lent(p)),
                                                sats   |-> SumSats(Sats(lent(p)))]],
          rate_age_max  |-> IF priced = {} THEN None ELSE Max({at[o].age : o \in priced}) ]

\* converted::convert
Convert(orders, w, book, code) ==
    Converted([o \in CompletedOver(orders, w) |-> RateAt(book, o.pubkey, code, o.success_at)])

\* What converted::metrics shows: no total when there was something to price
\* and nothing was.
ConvertedRows(converted) ==
    LET excluded == converted.unpriced + converted.unusable
    IN  [ total         |-> IF converted.priced > 0 \/ excluded = 0
                            THEN converted.total ELSE None,
          orders        |-> converted.priced,
          unpriced_sats |-> converted.unpriced_sats,
          rate_age_max  |-> converted.rate_age_max ]

-----------------------------------------------------------------------------
(* stats rates.                                                            *)

Freshness(feed, now) ==
    LET age == now - feed.published_at
    IN  CASE feed.published_at = None -> "silent"
          [] feed.published_at # None /\ feed.published_at > now -> "skewed"
          [] feed.published_at # None /\ age \in 0 .. MAX_AGE -> "fresh"
          [] feed.published_at # None /\ age \in MAX_AGE + 1 .. DEAD_AFTER -> "stale"
          [] feed.published_at # None /\ age > DEAD_AFTER -> "dead"

SummariseFeeds(feeds, now) ==
    [ state      |-> [s \in {"fresh", "stale", "dead", "silent", "skewed"} |->
                         Cardinality({f \in feeds : Freshness(f, now) = s})],
      feeds      |-> Cardinality({f \in feeds : f.published_at # None}),
      currencies |-> Cardinality(UNION {DOMAIN f.quotes : f \in feeds}) ]

\* Feed::rate, as a condition: a price is a finite positive number.
Quotes(feed, code) == code \in DOMAIN feed.quotes /\ feed.quotes[code] \in 1 .. FLOAT_MAX

\* How far the live quotes of a currency stand apart, None when nobody
\* quotes it at all.
Disparity(feeds, code, now) ==
    LET quoting == {f \in feeds : Quotes(f, code)}
        live    == {f \in quoting : Freshness(f, now) = "fresh"}
        low     == IF live = {} THEN None ELSE Min({f.quotes[code] : f \in live})
        high    == IF live = {} THEN None ELSE Max({f.quotes[code] : f \in live})
    IN  IF quoting = {} THEN None
        ELSE [ quoted_by  |-> Cardinality(quoting),
               comparable |-> Cardinality(live),
               low        |-> low,
               high       |-> high,
               ratio      |-> IF Cardinality(live) > 1 THEN <<high - low, low>> ELSE None ]

\* feeds::report: the summary, the currency asked for with what each feed
\* quotes for it, and each feed.
FeedsReport(feeds, code, now) ==
    LET quoted == Disparity(feeds, code, now)
    IN  [ summary   |-> SummariseFeeds(feeds, now),
          disparity |-> CASE code = None -> None
                          [] code # None /\ quoted = None ->
                                [ quoted_by |-> 0, comparable |-> 0,
                                  low |-> None, high |-> None, ratio |-> None ]
                          [] code # None /\ quoted # None -> quoted,
          prices    |-> {[pubkey |-> f.pubkey, price |-> f.quotes[code]] :
                            f \in {g \in feeds : code # None /\ Quotes(g, code)}},
          rows      |-> {[ pubkey     |-> f.pubkey,
                           age        |-> IF f.published_at = None \/ f.published_at > now
                                          THEN None ELSE now - f.published_at,
                           status     |-> Freshness(f, now),
                           currencies |-> Cardinality(DOMAIN f.quotes) ] : f \in feeds} ]
=============================================================================
