------------------------------- MODULE Market -------------------------------
(***************************************************************************)
(* The market figures (crates/stats/src/market.rs), their rankings         *)
(* (market/ranking.rs) and the view of one currency (market/fiat.rs).  The *)
(* orders created in the window are the book, those completed in it the    *)
(* trades.                                                                 *)
(***************************************************************************)
EXTENDS Volume, Timing

LOCAL Q == INSTANCE SequencesExt

\* Ranking::new: the heaviest first and ties by key, keys of no weight left
\* out.
Ranking(total) ==
    LET ranked  == {k \in DOMAIN total : total[k] > 0}
        above(j, k) == total[j] > total[k] \/ (total[j] = total[k] /\ j < k)
        entries == Q!SetToSortSeq(ranked, above)
        first3  == {entries[i] : i \in 1 .. Min({3, Len(entries)})}
        all     == SumOver(ranked, LAMBDA k : total[k])
    IN  [ entries    |-> [i \in DOMAIN entries |-> <<entries[i], total[entries[i]]>>],
          top3_share |-> Share(SumOver(first3, LAMBDA k : total[k]), all),
          hhi        |-> Share(SumOver(ranked, LAMBDA k : total[k] * total[k]), all * all) ]

\* tally: the whole weight of an order to each key it names.
Tally(keys, weight) ==
    Ranking([k \in UNION {keys[o] : o \in DOMAIN keys} |->
                Total([o \in {p \in DOMAIN keys : k \in keys[p]} |-> weight[o]])])

\* A fault: a key is new when no earlier order of the window names it.
NewInWindow(orders, w, keys) == UNION {keys[o] : o \in CreatedOver(orders, w)}

\* The keys whose earliest order was created in the window.
FirstSightings(orders, w, keys) ==
    (UNION {keys[o] : o \in CreatedOver(orders, w)})
        \ (UNION {keys[o] : o \in {p \in orders : p.created_at < w.from}})

\* What is ranked: the keys each order names.
FiatOf(orders)     == [o \in orders |-> {o.fiat_code}]
MethodsOf(orders)  == [o \in orders |-> o.first_methods]
InstanceOf(orders) == [o \in orders |-> {o.pubkey}]

\* The weight of each order when orders are counted.
One(orders) == [o \in orders |-> 1]

\* summarise.  A premium and a range are numbers; the mean of the relative
\* widths is the set of its terms.
SummariseMarket(orders, w) ==
    LET book      == CreatedOver(orders, w)
        trades    == CompletedOver(orders, w)
        of(V, d)  == {o \in V : o.direction = d}
        premium(V) == [o \in V |-> o.premium]
        buy       == P50(premium(of(trades, "buy")))
        sell      == P50(premium(of(trades, "sell")))
        part(P)   == Share(Cardinality(P), Cardinality(book))
        ranges    == {o \in book : o.fiat_range # None /\ o.fiat_range[2] > 0}
        width(o)  == o.fiat_range[2] - o.fiat_range[1]
    IN  [ orders             |-> Cardinality(book),
          buy_orders_share   |-> part(of(book, "buy")),
          buy_volume_share   |-> Share(Total(Sats(of(trades, "buy"))), Total(Sats(trades))),
          premium_avg        |-> Share(Total(premium(trades)), Cardinality(trades)),
          premium_p50        |-> P50(premium(trades)),
          premium_p50_buy    |-> buy,
          premium_p50_sell   |-> sell,
          premium_spread     |-> IF buy = None \/ sell = None THEN None ELSE sell - buy,
          market_price_share |-> part({o \in book : o.market_price}),
          range_share        |-> part({o \in book : o.fiat_range # None}),
          range_widths       |-> {<<o.order_id, width(o), o.fiat_range[2]>> : o \in ranges},
          range_width_fiat   |-> Share(SumOver(ranges, width), Cardinality(ranges)),
          fiats_by_orders    |-> Tally(FiatOf(book), One(book)),
          fiats_by_volume    |-> Tally(FiatOf(trades), Sats(trades)),
          methods_by_orders  |-> Tally(MethodsOf(book), One(book)),
          methods_by_volume  |-> Tally(MethodsOf(trades), Sats(trades)),
          new_fiats          |-> FirstSightings(orders, w, FiatOf(orders)),
          new_methods        |-> FirstSightings(orders, w, MethodsOf(orders)) ]

\* metrics: a block of one currency ranks no currencies and names no new
\* ones; only such a block says how wide a range is in fiat.
MarketRows(market, single) ==
    LET dropped == IF single THEN {"fiats_by_orders", "fiats_by_volume", "new_fiats"}
                   ELSE {"range_width_fiat"}
    IN  [name \in DOMAIN market \ dropped |-> market[name]]

MarketReport(orders, w, dimension) ==
    IF dimension = None THEN MarketRows(SummariseMarket(orders, w), FALSE)
    ELSE [key \in DOMAIN Slice(orders, dimension) |->
             MarketRows(SummariseMarket(Slice(orders, dimension)[key], w), dimension = "fiat")]

\* fiat::report: what stands in the currency now, but how long those that
\* entered the book in it waited.
FiatReport(orders, code, w, now) ==
    LET standing == {o \in orders : o.fiat_code = code}
        entered  == {o \in orders : o.first_fiat = code}
        timing   == SummariseTiming(entered, w, now)
        created  == CreatedOver(standing, w)
        done     == CompletedOver(standing, w)
    IN  [ market       |-> MarketRows(SummariseMarket(standing, w), TRUE),
          time_to_fill |-> timing.time_to_fill,
          book_size    |-> timing.book_size,
          by_orders    |-> Tally(InstanceOf(created), One(created)),
          by_volume    |-> Tally(InstanceOf(done), Sats(done)) ]
=============================================================================
