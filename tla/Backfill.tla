------------------------------ MODULE Backfill ------------------------------
(***************************************************************************)
(* A whole run of `backfill` (src/commands/backfill.rs): relays one after  *)
(* the other, each asked for every kind in turn, and then the relays that  *)
(* the relay lists it stored have named, round after round.                *)
(*                                                                         *)
(* One step is one relay and one kind.  What happens inside it, window by  *)
(* window, is module Walk; here it goes down to the floor, or fails and    *)
(* leaves what is newer than some instant, and either way it may step past *)
(* part of a second that a page could not hold.  The relays go up and down *)
(* beside the run and the operator may stop it anywhere.                   *)
(***************************************************************************)
EXTENDS Integers, Sequences, FiniteSets, FiniteSetsExt, Functions

CONSTANTS
    Relays,                \* every relay there is
    Holds,                 \* the events each of them serves
    Configured,            \* [nostr].relays
    DiscoverRelays,        \* [nostr].discover_relays
    Listed,                \* [indexer].instances
    AcceptUnknown,         \* accept_unknown_instances
    MAX_DISCOVERY_ROUNDS,
    From,                  \* the floor a run is given: --from or backfill_from
    None

ASSUME BackfillAssumption ==
    /\ Configured \subseteq Relays /\ Configured # {}
    /\ DiscoverRelays \in BOOLEAN /\ AcceptUnknown \in BOOLEAN
    /\ MAX_DISCOVERY_ROUNDS \in Nat \ {0}
    /\ DOMAIN Holds = Relays
    /\ \A r \in Relays : /\ IsFiniteSet(Holds[r])
                         /\ \A e \in Holds[r] : e.at \in Nat /\ e.urls \subseteq Relays
    /\ From \in Nat /\ None \notin Nat \cup Relays

VARIABLES
    archive,       \* the events stored
    indexed_kinds, \* how far back each kind was asked for, None if never
    up,            \* the relays that answer
    pc,            \* "idle", "walk", or "done" when a run has just ended well
    kinds,         \* the kinds of this run, in the order they are asked for
    client,        \* the relays it is connected to
    queue,         \* those of this round it has yet to walk
    relay,         \* the one it is walking, or None
    turn,          \* the position in kinds of the next one it is asked for
    round,         \* 0 for the configured relays, then the discovery rounds
    walked,        \* history: the relays walked in this run
    failed,        \* history: the pairs of relay and kind whose walk failed
    skipped,       \* history: the events stepped past, each with its relay
    refused,       \* history: the relays that did not answer a dial of this run
    proven,        \* history: the publishers proven when the run began
    heard          \* history: the round each relay of the set was known since

vars == <<archive, indexed_kinds, up, pc, kinds, client, queue, relay, turn, round,
          walked, failed, skipped, refused, proven, heard>>

\* A fault: the kinds that need a vouched publisher come first.
UntaggedFirst == <<"rates", "relay_list", "order", "dev_fee", "dispute", "info">>

\* The tagged kinds before the others, which they vouch for.
INDEXED_KINDS  == <<"order", "dev_fee", "dispute", "info", "rates", "relay_list">>
UNTAGGED_KINDS == {"rates", "relay_list"}

Proven(S) == {e.pubkey : e \in {f \in S : f.kind \notin UNTAGGED_KINDS}}

\* vouched: read anew for each kind.
Vouched == Listed \cup Proven(archive)

AcceptsInstance(p) == AcceptUnknown \/ p \in Listed

\* A fault: the walk of a kind takes what is archived for what was walked,
\* and asks only for what is newer.
AskNewer(r, k) ==
    {e \in Holds[r] : /\ e.kind = k /\ e.at >= From
                      /\ AcceptsInstance(e.pubkey)
                      /\ k \in UNTAGGED_KINDS => e.pubkey \in Vouched
                      /\ \A f \in Holds[r] \cap archive : f.kind = k => e.at >= f.at}

\* filters::for_kind and the admission rules behind it: what a relay that
\* answers in full hands to the pipeline.
Reply(r, k) ==
    {e \in Holds[r] : /\ e.kind = k /\ e.at >= From
                      /\ AcceptsInstance(e.pubkey)
                      /\ k \in UNTAGGED_KINDS => e.pubkey \in Vouched}

\* f says what e says: the rates of the same hour, or what an earlier
\* announcement of the same kind said.
Repeats(f, e) ==
    /\ f # e /\ f.pubkey = e.pubkey /\ f.kind = e.kind /\ f.says = e.says
    /\ \/ e.kind = "rates"
       \/ e.kind \in {"info", "relay_list"} /\ f.at <= e.at

\* is_redundant, with S archived: e repeats a snapshot of its hour, or the
\* last announcement before it.
IsRedundant(S, e) ==
    \E f \in S : /\ Repeats(f, e)
                 /\ e.kind # "rates" =>
                       \A g \in S \ {e} :
                          (g.pubkey = e.pubkey /\ g.kind = e.kind /\ g.at <= e.at)
                          => g.at < f.at \/ (g.at = f.at /\ f.id <= g.id)

\* The pipeline is given got, in an order that pages and the relay decide,
\* and keeps of it what nothing archived by then makes redundant.
Ingests(got, kept) ==
    \E order \in [got -> 1 .. Cardinality(got)] :
        /\ IsInjective(order)
        /\ \A e \in got \ archive :
              e \in kept <=>
                 ~IsRedundant(archive \cup {f \in kept : order[f] < order[e]}, e)

\* connection_set: the configured relays and, if wanted, those that relay
\* lists name.
ConnectionSet(S) ==
    Configured \cup (IF DiscoverRelays
                     THEN UNION {e.urls : e \in {f \in S : f.kind = "relay_list"}} ELSE {})

Hear(S) ==
    [r \in Relays |-> IF heard[r] = None /\ r \in ConnectionSet(S) THEN round ELSE heard[r]]
-----------------------------------------------------------------------------
Init ==
    /\ archive = {} /\ up \in SUBSET Relays
    /\ indexed_kinds = [k \in Range(INDEXED_KINDS) |-> None]
    /\ pc = "idle" /\ kinds = << >> /\ client = {} /\ queue = {} /\ relay = None
    /\ turn = 1 /\ round = 0
    /\ walked = {} /\ failed = {} /\ skipped = {} /\ refused = {} /\ proven = {}
    /\ heard = [r \in Relays |-> None]

\* run, up to the first relay: of all the kinds or of one, and only with a
\* relay to ask.
Start(asked) ==
    /\ pc # "walk"
    /\ ConnectionSet(archive) \cap up # {}
    /\ pc' = "walk" /\ kinds' = asked
    /\ client' = ConnectionSet(archive) \cap up
    /\ queue' = client' /\ relay' = None /\ turn' = 1 /\ round' = 0
    /\ walked' = {} /\ failed' = {} /\ skipped' = {}
    /\ refused' = ConnectionSet(archive) \ up
    /\ proven' = Proven(archive)
    /\ heard' = [r \in Relays |-> IF r \in ConnectionSet(archive) THEN 0 ELSE None]
    /\ UNCHANGED <<archive, indexed_kinds, up>>

\* walk_relays takes the next relay of the round.
NextRelay(r) ==
    /\ pc = "walk" /\ relay = None /\ r \in queue
    /\ relay' = r /\ queue' = queue \ {r} /\ walked' = walked \cup {r} /\ turn' = 1
    /\ UNCHANGED <<archive, indexed_kinds, up, pc, kinds, client, round, failed, skipped,
                   refused, proven, heard>>

\* The walk of one kind on it.  It ends at the floor, with no request made for
\* a kind that has nobody to be asked about, or fails with what is newer
\* than since; a request that fails where there is nothing ends it as well as
\* one that brings nothing.  Where a page fits inside a second the walk steps
\* past that second, and what else it held is missed.  A failed kind does not
\* end the relay.
WalkKind(fails, since, missed) ==
    LET k    == kinds[turn]
        got  == {e \in Reply(relay, k) \ missed : e.at >= since}
        last == turn = Len(kinds)
    IN  /\ pc = "walk" /\ relay # None
        /\ ~fails => since = From
        /\ relay \notin up => got = {} /\ (~fails => Reply(relay, k) = {})
        /\ missed \subseteq Reply(relay, k)
        /\ \A e \in missed : \E f \in got : f.at = e.at
        /\ \E kept \in SUBSET got :
              Ingests(got, kept) /\ archive' = archive \cup kept
        /\ failed' = IF fails THEN failed \cup {<<relay, k>>} ELSE failed
        /\ skipped' = skipped \cup ({relay} \X missed)
        /\ heard' = Hear(archive')
        /\ relay' = IF last THEN None ELSE relay
        /\ turn' = IF last THEN 1 ELSE turn + 1
        /\ UNCHANGED <<indexed_kinds, up, pc, kinds, client, queue, round, walked, refused,
                       proven>>

\* The relays of the set that a round would add.
Fresh == (ConnectionSet(archive) \ client) \cap up

\* A fault: a round too few.
RoundsLess == DiscoverRelays /\ round < MAX_DISCOVERY_ROUNDS - 1

\* Whether there is a round of discovery left.
RoundsLeft == DiscoverRelays /\ round < MAX_DISCOVERY_ROUNDS

\* A fault: a round over every relay there is.
DiscoverAgain ==
    /\ pc = "walk" /\ relay = None /\ queue = {}
    /\ RoundsLeft /\ Fresh # {}
    /\ client' = client \cup Fresh /\ queue' = client' /\ round' = round + 1
    /\ refused' = (refused \cup (ConnectionSet(archive) \ client)) \ Fresh
    /\ UNCHANGED <<archive, indexed_kinds, up, pc, kinds, relay, turn, walked, failed,
                   skipped, proven, heard>>

\* A round of discovery: the set is read again, what is new in it dialled,
\* and only what answers walked.
Discover ==
    /\ pc = "walk" /\ relay = None /\ queue = {}
    /\ RoundsLeft /\ Fresh # {}
    /\ client' = client \cup Fresh /\ queue' = Fresh /\ round' = round + 1
    /\ refused' = (refused \cup (ConnectionSet(archive) \ client)) \ Fresh
    /\ UNCHANGED <<archive, indexed_kinds, up, pc, kinds, relay, turn, walked, failed,
                   skipped, proven, heard>>

\* There is nothing to discover, nothing new that answers, or no round left:
\* what was asked for is recorded, whether or not it brought anything.
Finish ==
    /\ pc = "walk" /\ relay = None /\ queue = {}
    /\ RoundsLeft => Fresh = {}
    /\ pc' = "done"
    /\ indexed_kinds' = [k \in DOMAIN indexed_kinds |->
                            IF k \in Range(kinds) THEN Min({From, indexed_kinds[k]} \ {None})
                            ELSE indexed_kinds[k]]
    /\ refused' = IF RoundsLeft
                  THEN refused \cup (ConnectionSet(archive) \ client) ELSE refused
    /\ UNCHANGED <<archive, up, kinds, client, queue, relay, turn, round, walked, failed,
                   skipped, proven, heard>>

\* The operator stops the run, or a write fails: what was stored stays, of
\* the kind being walked whatever part of it that is.
Interrupt(got) ==
    /\ pc = "walk"
    /\ got = {} \/ (relay \in up /\ got \subseteq Reply(relay, kinds[turn]))
    /\ \E kept \in SUBSET got : Ingests(got, kept) /\ archive' = archive \cup kept
    /\ pc' = "idle" /\ kinds' = << >> /\ relay' = None /\ queue' = {} /\ client' = {}
    /\ turn' = 1 /\ round' = 0
    /\ walked' = {} /\ failed' = {} /\ skipped' = {} /\ refused' = {}
    /\ proven' = {} /\ heard' = [r \in Relays |-> None]
    /\ UNCHANGED <<indexed_kinds, up>>

\* The network: a relay goes away or comes back.
Flip(r) ==
    /\ up' = IF r \in up THEN up \ {r} ELSE up \cup {r}
    /\ UNCHANGED <<archive, indexed_kinds, pc, kinds, client, queue, relay, turn, round,
                   walked, failed, skipped, refused, proven, heard>>

Held(r) == IF r = None THEN {} ELSE Holds[r]
Times == {e.at : e \in UNION Range(Holds)}
Runs == {INDEXED_KINDS} \cup {<<k>> : k \in Range(INDEXED_KINDS)}

Next ==
    \/ \E asked \in Runs : Start(asked)
    \/ \E r \in Relays : NextRelay(r)
    \/ \E fails \in BOOLEAN, since \in Times \cup {From, Max(Times) + 1} :
       \E missed \in SUBSET Held(relay) : WalkKind(fails, since, missed)
    \/ Discover
    \/ Finish
    \/ \E got \in SUBSET Held(relay) : Interrupt(got)
    \/ \E r \in Relays : Flip(r)

Spec == Init /\ [][Next]_vars
-----------------------------------------------------------------------------
\* A run walks relays it is connected to, each once, within its rounds, and
\* a kind is recorded no higher than it was ever asked for.
TypeOK ==
    /\ archive \subseteq UNION Range(Holds)
    /\ up \subseteq Relays /\ client \subseteq Relays
    /\ pc \in {"idle", "walk", "done"} /\ kinds \in Runs \cup {<< >>}
    /\ queue \subseteq client \ walked
    /\ relay \in (walked \cap client) \cup {None}
    /\ round \in 0 .. MAX_DISCOVERY_ROUNDS
    /\ pc = "walk" => turn \in DOMAIN kinds
    /\ indexed_kinds \in [Range(INDEXED_KINDS) -> {None, From}]

\* What a run may not leave behind on a relay: what it was asked for and
\* was not stepped past, where no request failed.
Due(r) ==
    {e \in Holds[r] : /\ e.kind \in Range(kinds) /\ e.at >= From /\ AcceptsInstance(e.pubkey)
                      /\ <<r, e.kind>> \notin failed /\ <<r, e>> \notin skipped}

\* When a run ends well, every relay it walked has given all that was due:
\* tagged events of anybody accepted, and untagged ones of whoever was
\* listed, proven before the run, or proven by what is due of the relay
\* itself.  Each is archived, or repeats one that is.  It does not matter
\* which runs were interrupted before it and where, nor in which order relays
\* come.
WalkedThrough ==
    pc = "done" => \A r \in walked : \A e \in Due(r) :
        (e.kind \in UNTAGGED_KINDS => e.pubkey \in Listed \cup proven \cup Proven(Due(r)))
        => e \in archive \/ \E f \in archive : Repeats(f, e)

\* Discovery goes as far as its bound: when a run ends well, every relay
\* named before the last round began was walked, or did not answer when it
\* was last dialled.
NamesFollowed ==
    pc = "done" => \A r \in Relays :
        (heard[r] # None /\ heard[r] < MAX_DISCOVERY_ROUNDS) => r \in walked \cup refused
=============================================================================
