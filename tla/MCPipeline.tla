----------------------------- MODULE MCPipeline -----------------------------
(***************************************************************************)
(* Small worlds for the model checker: a handful of events each, chosen so *)
(* that the cases a property is about do arise (ties of created_at, two    *)
(* fees for one order, an event no parser reads yet, an unlisted           *)
(* publisher, repeated heartbeats).  A behaviour is set in one scenario:   *)
(* only its events are published, so that one run looks into all of them   *)
(* without looking into their product.                                     *)
(***************************************************************************)
EXTENDS Refinement

CONSTANT Scenarios
VARIABLE scenario

\* An event with the fields no case depends on filled in.
Event(id, pubkey, kind, at) ==
    [ id |-> id, pubkey |-> pubkey, kind |-> kind, at |-> at, verified |-> TRUE,
      mostro |-> kind \in PLATFORM_TAGGED, network |-> None, name |-> None,
      key |-> "k", status |-> "pending", stamp |-> IF kind = "rates" THEN at ELSE None,
      initiator |-> None, body |-> 1, urls |-> {} ]

\* Orders: two versions in one second, a third before them, and one that the
\* first parsers cannot read.
OrderEvents ==
    { [Event(1, "alice", "order", 1) EXCEPT !.stamp = 1],
      [Event(2, "alice", "order", 2) EXCEPT !.status = "success", !.network = "mainnet"],
      [Event(3, "alice", "order", 2) EXCEPT !.status = "canceled"],
      [Event(4, "alice", "order", 0) EXCEPT !.key = "l"] }

\* The fees of one order, paid three times over.
FeeEvents ==
    { Event(11, "alice", "dev_fee", 1),
      Event(12, "alice", "dev_fee", 1),
      Event(13, "alice", "dev_fee", 0) }

\* A dispute that is settled in the second it is opened, and its reopening.
DisputeEvents ==
    { [Event(14, "alice", "dispute", 1) EXCEPT !.stamp = 0, !.initiator = "buyer"],
      [Event(15, "alice", "dispute", 1) EXCEPT !.status = "success"],
      Event(16, "alice", "dispute", 2) }

\* Publishers: bob is proven by an event of his own, mallory by none that
\* passes, and both publish relay lists and rates.
TrustEvents ==
    { Event(21, "bob", "info", 1),
      [Event(22, "bob", "relay_list", 1) EXCEPT !.urls = {"r1", "r2"}],
      [Event(23, "mallory", "order", 1) EXCEPT !.mostro = FALSE],
      [Event(24, "mallory", "order", 1) EXCEPT !.network = "testnet"],
      [Event(25, "mallory", "relay_list", 1) EXCEPT !.urls = {"r2"}],
      Event(26, "mallory", "rates", 0),
      [Event(27, "bob", "rates", 0) EXCEPT !.verified = FALSE] }

\* The bestiary: names that change, and heartbeats around them.
NameEvents ==
    { [Event(31, "alice", "info", 1) EXCEPT !.name = "wolf"],
      [Event(32, "alice", "info", 2) EXCEPT !.name = "wolf"],
      [Event(33, "alice", "order", 2) EXCEPT !.name = "bear"],
      [Event(34, "alice", "info", 3) EXCEPT !.body = 2] }

\* The snapshots of two hours, on both sides of the boundary.
RateEvents ==
    { Event(41, "alice", "rates", 1),
      Event(42, "alice", "rates", 2),
      [Event(43, "alice", "rates", 4) EXCEPT !.stamp = 3] }

\* A profile that changes and changes back.
ProfileEvents ==
    { Event(52, "alice", "info", 1),
      [Event(53, "alice", "info", 2) EXCEPT !.body = 2],
      Event(54, "alice", "info", 3) }

Cast == [ orders |-> OrderEvents, fees |-> FeeEvents, disputes |-> DisputeEvents,
          trust |-> TrustEvents, bestiary |-> NameEvents,
          rates |-> RateEvents, profiles |-> ProfileEvents ]

AllEvents == UNION {Cast[s] : s \in DOMAIN Cast}

\* Everything but one order: its parser comes with a later release.
AllButOne == {e \in Events : e.id # 4}

\* Two ingesters, two relays and the recorded configuration are for the
\* question of trust.  The names do without the rebuild from raw, which does
\* no more to them than the other one, and the rates without the other one,
\* which does nothing to them.
InScenario ==
    /\ \A i \in Ingesters : job'[i] # None =>
          /\ job'[i].event \in Cast[scenario]
          /\ scenario # "trust" => i = "sync" /\ job'[i].relay = "r1"
    /\ scenario # "trust" => relays' = relays
    /\ readable' \subseteq readable \cup Cast[scenario]
    /\ scenario = "bestiary" => pc' # "order"
    /\ scenario = "rates" /\ pc = "idle" => pc' \in {"idle", "order"}

MCInit ==
    /\ Init
    /\ scenario \in Scenarios

MCNext == Next /\ InScenario /\ UNCHANGED scenario

\* A rebuild that has started is a loop in a running process: it goes on
\* until it ends or dies.  Nothing makes relays deliver or operators act.
MCSpec ==
    /\ MCInit /\ [][MCNext]_<<vars, scenario>>
    /\ WF_vars(RebuildStep)
=============================================================================
