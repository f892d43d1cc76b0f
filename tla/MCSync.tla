------------------------------- MODULE MCSync -------------------------------
(***************************************************************************)
(* One or two relays and two or three events: orders far enough apart for  *)
(* the overlap not to reach from the first to the last, relay lists that   *)
(* name the second relay, and publishers nothing vouches for.  A behaviour *)
(* is set in one scenario, and only its events are published.              *)
(***************************************************************************)
EXTENDS Sync

CONSTANT Scenarios
VARIABLE scenario

Event(id, pubkey, kind, at) ==
    [ id |-> id, pubkey |-> pubkey, kind |-> kind, at |-> at, verified |-> TRUE,
      mostro |-> kind \in TAGGED_KINDS, network |-> None, name |-> None,
      key |-> "k", status |-> "pending", stamp |-> None, initiator |-> None, body |-> 1,
      urls |-> {} ]

\* Orders: the overlap reaches from the last to the one before it, no further.
Orders == { Event(1, "bob", "order", 1), Event(2, "carol", "order", 2),
            Event(3, "carol", "order", 3) }

\* A listed instance names a relay, and another trades.
Lists == { [Event(4, "alice", "relay_list", 2) EXCEPT !.urls = {"r2"}],
           Event(5, "bob", "order", 1) }

\* Two instances nobody lists, one of which publishes nothing that would
\* prove it.
Strangers == { Event(6, "carol", "order", 1),
               [Event(7, "carol", "relay_list", 2) EXCEPT !.urls = {"r1"}],
               [Event(8, "bob", "relay_list", 1) EXCEPT !.urls = {"r1"}] }

\* Two orders further apart than the overlap, and a list, for a backfill to
\* read as well.
Walked == { Event(9, "carol", "order", 1), Event(10, "carol", "order", 3),
            [Event(11, "alice", "relay_list", 2) EXCEPT !.urls = {"r2"}] }

Cast == [ orders |-> Orders, lists |-> Lists, strangers |-> Strangers, walked |-> Walked ]

AllEvents == UNION {Cast[s] : s \in DOMAIN Cast}

\* How many events relays leave out of their replays.
MaxWithheld == 1

\* The second relay is for the relay lists, and what another process writes
\* for the questions of who is vouched for and of what a backfill overtakes:
\* elsewhere whatever is written comes with a step of the subscription or of
\* the loop.  Relays send less than they hold where orders alone are at stake.
InScenario ==
    /\ \A r \in Relays : held'[r] \subseteq Cast[scenario]
    /\ scenario # "lists" => up' \subseteq {"r1"} /\ held'["r2"] = {}
    /\ withheld' # withheld => scenario = "orders" /\ Cardinality(withheld') <= MaxWithheld
    /\ scenario = "strangers" \/ versions \subseteq versions'
    /\ \/ scenario \in {"strangers", "walked"}
       \/ database' = database
       \/ subscription' # subscription
       \/ phase' # phase

MCInit ==
    /\ Init
    /\ scenario \in Scenarios
    /\ scenario # "lists" => up \subseteq {"r1"}

MCNext == Next /\ InScenario /\ UNCHANGED scenario

\* A running sync goes on: its loop is one task, and its waits have time-outs.
\* Nothing makes a relay send what it has, or answer at all.
MCSpec ==
    /\ MCInit /\ [][MCNext]_<<vars, scenario>>
    /\ WF_vars(Loop)
=============================================================================
