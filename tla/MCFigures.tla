------------------------------ MODULE MCFigures -----------------------------
(***************************************************************************)
(* Small archives for the model checker.  A day has two instants and a     *)
(* week two days; months have 4, 6, 4 and 6 instants and open on either    *)
(* day of a week, so that a week spans two of them and one is shorter than *)
(* the next.  A behaviour is set in one scenario: a handful of events that *)
(* may be stored in any order, and the questions asked of them.            *)
(***************************************************************************)
EXTENDS Figures, TLC

CONSTANT Scenarios
VARIABLE scenario

FourMonths == <<0, 4, 10, 14, 20>>
Asked      == [ order |-> None, dispute |-> 1, dev_fee |-> 0, info |-> 3, rates |-> 0,
                relay_list |-> 1 ]
Days       == ("24h" :> 1) @@ ("7d" :> 2) @@ ("30d" :> 3) @@ ("90d" :> 5)
Years      == (0 :> "2025") @@ (1 :> "2026")
Digits     == <<"h1", "h2">>
MonthNames == <<"01", "02">>
Spellings  == << <<"a", "b">>, <<"a", "c">> >>
Nicknames  == << None, <<"w">> >>
Shares     == <<1, 2>>
Limits     == <<2, 5>>
TheSpans   == {Window(2, 14), Window(3, 9), Window(5, 13)}

Order(id, key, at, status) ==
    [ kind |-> "order", id |-> id, key |-> key, pubkey |-> 1, at |-> at, stamp |-> None,
      status |-> status, direction |-> "buy", fiat |-> 1, methods |-> {1}, sats |-> 3,
      amount |-> 4, premium |-> 0, range |-> None, expires |-> 12, network |-> "mainnet" ]
Dispute(id, key, at, status) ==
    [ kind |-> "dispute", id |-> id, key |-> key, pubkey |-> 1, at |-> at, stamp |-> None,
      status |-> status, initiator |-> None ]
Fee(id, key, p, at, sats) ==
    [ kind |-> "dev_fee", id |-> id, key |-> key, pubkey |-> p, at |-> at, sats |-> sats,
      network |-> "mainnet" ]
Info(id, p, at, fee) == [kind |-> "info", id |-> id, pubkey |-> p, at |-> at, fee |-> fee]
Rate(id, p, at, stamp, price) ==
    [kind |-> "rates", id |-> id, pubkey |-> p, at |-> at, stamp |-> stamp, quotes |-> <<price>>]

\* An order that succeeds and is called off after, and one created before
\* it was first seen that is called off and succeeds after.
LifeEvents ==
    { Order(1, 1, 4, "pending"), Order(2, 1, 6, "in_progress"),
      Order(3, 1, 8, "success"), Order(4, 1, 11, "canceled"),
      [Order(5, 2, 3, "pending") EXCEPT !.stamp = 1, !.fiat = 2],
      [Order(6, 2, 7, "canceled") EXCEPT !.fiat = 2, !.direction = "sell"],
      [Order(7, 2, 9, "success") EXCEPT !.fiat = 2, !.direction = "sell"] }

\* Completed orders of two currencies: a range, an amount too many, and more
\* sats than fit.
VolumeEvents ==
    { Order(11, 1, 4, "success"),
      [Order(12, 2, 6, "success") EXCEPT !.fiat = 2, !.amount = None, !.direction = "sell",
                                         !.range = <<1, 3>>, !.pubkey = 2],
      [Order(13, 3, 8, "success") EXCEPT !.sats = 6, !.amount = 38],
      [Order(14, 4, 10, "success") EXCEPT !.sats = 1, !.premium = 2],
      [Order(15, 4, 9, "pending") EXCEPT !.sats = 0] }

\* A dispute opened and settled, one opened twice, an order taken.
DisputeEvents ==
    { [Dispute(21, 1, 5, "initiated") EXCEPT !.stamp = 4, !.initiator = "buyer"],
      Dispute(22, 1, 8, "settled"), [Dispute(23, 2, 7, "initiated") EXCEPT !.pubkey = 2],
      [Dispute(24, 2, 9, "in_progress") EXCEPT !.initiator = "seller", !.pubkey = 2],
      Order(25, 1, 3, "in_progress"), Order(26, 1, 6, "success") }

\* Fees: one order's twice by its instance and once by another's, one for an
\* order never seen, and three announcements, two of which say the same.
FeeEvents ==
    { Fee(31, 1, 1, 6, 2), Fee(32, 1, 1, 9, 3), Fee(33, 1, 2, 5, 1), Fee(34, 2, 2, 7, 2),
      Info(35, 1, 2, 2), Info(36, 2, 8, 0), Info(38, 1, 7, 2), Order(37, 1, 5, "success") }

\* Rates on both sides of two settlements, of their publisher and another.
RateEvents ==
    { Rate(41, 1, 5, 5, 2), Rate(42, 1, 9, 9, 3), Rate(43, 2, 6, 6, 4), Rate(44, 2, 8, 7, 5),
      Order(45, 1, 8, "success"), [Order(46, 2, 6, "success") EXCEPT !.sats = 20] }

\* Currencies and methods that come back.
MarketEvents ==
    { Order(51, 1, 2, "pending"), [Order(52, 2, 6, "pending") EXCEPT !.methods = {1, 2}],
      [Order(53, 3, 8, "pending") EXCEPT !.fiat = 2, !.methods = {2}],
      [Order(54, 1, 9, "success") EXCEPT !.fiat = 2],
      [Order(55, 4, 11, "pending") EXCEPT !.fiat = 2, !.pubkey = 2] }

AddressEvents == {Order(61, 1, 9, "pending"), [Order(62, 2, 11, "pending") EXCEPT !.pubkey = 2]}

Cast == [ life |-> LifeEvents, volume |-> VolumeEvents, disputes |-> DisputeEvents,
          fees |-> FeeEvents, rates |-> RateEvents, market |-> MarketEvents,
          address |-> AddressEvents ]

WithSightings(s) == Cast[s] \cup {Sighting(v) : v \in {w \in Cast[s] : w.kind \in {"info", "rates"}}}

AllVersions == UNION {WithSightings(s) : s \in DOMAIN Cast}

Query(command, argument, by) ==
    [ command |-> command, argument |-> argument, by |-> by, instance |-> None,
      network |-> None, from |-> 2, until |-> None ]

\* What is asked in each scenario.
Asks ==
    [ life     |-> { Query("orders", None, "instance"), Query("orders", None, "month"),
                     Query("timing", None, "instance"), Query("instances", None, None),
                     Query("lifecycle", 1, None),
                     [Query("series", <<"orders", "created", "day", None>>, None)
                         EXCEPT !.until = 13] },
      volume   |-> { Query("volume", None, "instance"), Query("volume", 1, None),
                     Query("compare", None, None),
                     [Query("instance", None, None) EXCEPT !.instance = <<"w">>],
                     Query("series", <<"volume", "sats", "week", 1>>, "instance") },
      disputes |-> { Query("disputes", None, "instance"), Query("summary", None, None),
                     [Query("compare", None, None) EXCEPT !.network = "mainnet"],
                     [Query("disputes", None, None) EXCEPT !.network = "mainnet"],
                     Query("series", <<"disputes", "opened", "day", None>>, "instance") },
      fees     |-> { Query("dev-fees", None, "instance"), Query("dev-fees", None, "day"),
                     Query("series", <<"dev-fees", "total_sats", "month", None>>, "instance") },
      rates    |-> { Query("rates", 1, None),
                     Query("volume", 1, "instance") },
      market   |-> { Query("market", None, "instance"), Query("fiat", 2, None),
                     Query("orders", None, "month"),
                     [Query("orders", None, None) EXCEPT !.instance = <<"a">>] },
      address  |-> { [Query("orders", None, None) EXCEPT !.from = None] } ]

AllQuestions == UNION {Asks[s] : s \in DOMAIN Asks}

Words == { <<"series">>, <<"dev", "fees">>, <<"monthly">>, <<"2026", "02">>, <<"index">>,
           <<"i">>, <<"h1">>, <<"mainnet">> }

\* In one scenario an event may come in between the load of a command and
\* its report.
InScenario ==
    /\ rows' \subseteq WithSightings(scenario)
    /\ asked' # None => /\ asked'.question \in Asks[scenario] /\ now' = asked'.at
                        /\ Cardinality(rows' \ asked'.read) <= IF scenario = "market" THEN 1 ELSE 0

MCInit ==
    /\ Init
    /\ scenario \in Scenarios

\* Only one scenario has a client in it, once everything is stored.
MCNext ==
    /\ Indexer \/ (scenario = "address" /\ rows = AddressEvents /\ now = 13 /\ Client)
    /\ InScenario /\ UNCHANGED scenario

MCSpec == MCInit /\ [][MCNext]_<<vars, scenario>>
=============================================================================
