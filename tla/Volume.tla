------------------------------- MODULE Volume -------------------------------
(***************************************************************************)
(* The volume of the orders that completed (crates/stats/src/volume.rs).   *)
(***************************************************************************)
EXTENDS Rates

CONSTANT SIZES          \* the upper bound of each bucket of BUCKETS but the last

ASSUME SizesAssumption == SIZES \in Seq(Nat)

\* The first bucket whose bound holds the size; the last is open.
SizeBucket(size) ==
    Min({i \in DOMAIN SIZES : size <= SIZES[i]} \cup {Len(SIZES) + 1})

\* The mean, rounded half up.
MeanSats(samples) ==
    LET n == Cardinality(DOMAIN samples)
        mean == (2 * Total(samples) + n) \div (2 * n)
    IN  IF n = 0 \/ mean > I64_MAX THEN None ELSE mean

\* A fault: a range order, which names no amount, is left out of the sats.
AmountedOnly(done) ==
    LET priced == {o \in done : o.fiat_amount # None}
        amount == [o \in priced |-> o.fiat_amount]
    IN  [ orders    |-> Cardinality(priced),
          completed |-> Cardinality(done),
          sats      |-> SumSats(Sats(priced)),
          total     |-> SumFloat(amount),
          ticket_p50 |-> P50(amount),
          ticket_p90 |-> P90(amount) ]

\* fiat_volume: the completed orders of one currency.  The fiat figures are
\* over those that name an amount, and withheld when there is none or their
\* sum is not a number; ticket_avg is total over orders.
FiatVolume(done) ==
    LET priced == {o \in done : o.fiat_amount # None}
        amount == [o \in priced |-> o.fiat_amount]
        sats   == Sats(done)
        figure(v) == IF priced = {} \/ SumFloat(amount) = None THEN None ELSE v
    IN  [ orders     |-> Cardinality(priced),
          completed  |-> Cardinality(done),
          sats       |-> SumSats(sats),
          total      |-> figure(SumFloat(amount)),
          ticket_p50 |-> figure(P50(amount)),
          ticket_p90 |-> figure(P90(amount)) ]

SummariseVolume(orders, w) ==
    LET done    == CompletedOver(orders, w)
        sats    == Sats(done)
        side(d) == SumSats(Sats({o \in done : o.direction = d}))
    IN  [ completed  |-> Cardinality(done),
          sats       |-> SumSats(sats),
          ticket_avg |-> MeanSats(sats),
          ticket_p50 |-> P50(sats),
          ticket_p90 |-> P90(sats),
          largest    |-> IF done = {} THEN None ELSE Max({o.amount_sats : o \in done}),
          buckets    |-> [i \in 1 .. Len(SIZES) + 1 |->
                             Cardinality({o \in done : SizeBucket(o.amount_sats) = i})],
          buy_sats   |-> side("buy"),
          sell_sats  |-> side("sell"),
          fiat       |-> [code \in {o.fiat_code : o \in done} |->
                             FiatVolume({o \in done : o.fiat_code = code})] ]

\* report.  conversion is None, or a book and the currency to convert to.
VolumeReport(orders, w, dimension, conversion, coverage) ==
    LET block(group, over) ==
            [ volume |-> SummariseVolume(group, over),
              in     |-> IF conversion = None THEN None
                         ELSE ConvertedRows(Convert(group, over, conversion.book,
                                                    conversion.code)) ]
    IN  CASE dimension = None -> block(orders, w)
          [] dimension \in {"month", "day"} ->
                {[bucket |-> b.bucket, block |-> Unless(b.missing, block(orders, b.over))] :
                    b \in BucketWalk(w, dimension, coverage)}
          [] OTHER -> [key \in DOMAIN Slice(orders, dimension) |->
                          block(Slice(orders, dimension)[key], w)]
=============================================================================
