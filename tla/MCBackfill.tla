----------------------------- MODULE MCBackfill -----------------------------
(***************************************************************************)
(* Four relays in a chain, each holding the list that names the next, with *)
(* two rounds of discovery: one too few to walk them all.                  *)
(***************************************************************************)
EXTENDS Backfill

Event(id, pubkey, kind, at, urls) ==
    [id |-> id, pubkey |-> pubkey, kind |-> kind, at |-> at, urls |-> urls, says |-> urls]

\* alice is listed; bob is proven by his order, which his list may precede;
\* carol by an order on another relay than her list's.  b repeats alice's
\* first list, and bob's order shares its second with one of hers; on c it is
\* newer than carol's.
Chain ==
    [ a |-> { Event(1, "alice", "relay_list", 1, {"b"}),
              Event(2, "carol", "relay_list", 2, {"d"}) },
      b |-> { Event(5, "bob", "order", 2, {}), Event(6, "bob", "relay_list", 1, {"c"}),
              Event(3, "alice", "order", 2, {}), Event(4, "alice", "relay_list", 2, {"b"}) },
      c |-> { Event(7, "carol", "order", 1, {}), Event(5, "bob", "order", 2, {}),
              Event(8, "alice", "relay_list", 2, {"d"}) },
      d |-> { Event(5, "bob", "order", 2, {}) } ]

\* Two runs that matter: of everything, and of relay lists alone.
Asked == {INDEXED_KINDS, <<"relay_list">>}

\* At most one relay is down, it is one in the middle, and it changes between
\* relays only; at most one walk of a run, of a kind its relay holds, fails or
\* misses an event.
MaxShort == 1
Steady ==
    /\ kinds' \in Asked \cup {<< >>}
    /\ Cardinality(Relays \ up') <= 1 /\ {"a", "d"} \subseteq up'
    /\ up' # up => relay = None
    /\ \A f \in failed' : \E e \in Holds[f[1]] : e.kind = f[2]
    /\ Cardinality(failed') + Cardinality(skipped') <= MaxShort

MCNext == Next /\ Steady
MCInit == Init /\ Cardinality(Relays \ up) <= 1 /\ {"a", "d"} \subseteq up
MCSpec == MCInit /\ [][MCNext]_vars
=============================================================================
