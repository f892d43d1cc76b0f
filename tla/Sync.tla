-------------------------------- MODULE Sync --------------------------------
(***************************************************************************)
(* `sync` (src/commands/sync.rs) and the relay client under it             *)
(* (src/nostr/client.rs): a process that dials the relays it knows, reads  *)
(* the tagged kinds to the end of what they have stored, subscribes to     *)
(* everything from where each cursor stands, and starts over when a relay  *)
(* list names somebody new or the stream ends.                             *)
(*                                                                         *)
(* Relays are the environment: events are published to them, they go away  *)
(* and come back, some of them refuse a REQ that others take, and they     *)
(* replay what they have stored newest first, as much of it as they care   *)
(* to, before they deliver what is new.  The pipeline is here what the     *)
(* module Pipeline shows it to be, one atomic step per event; every event  *)
(* of this world parses.                                                   *)
(***************************************************************************)
EXTENDS Tables, Sequences

CONSTANTS
    Listed,         \* [indexer].instances
    AcceptUnknown,  \* accept_unknown_instances
    Configured,     \* [nostr].relays
    Discover,       \* discover_relays
    Overlap,        \* resume_overlap_secs
    Beside          \* a backfill or a rebuild from raw may run beside the sync

ASSUME SyncAssumption ==
    /\ Listed \subseteq Pubkeys
    /\ Configured \subseteq Relays
    /\ AcceptUnknown \in BOOLEAN /\ Discover \in BOOLEAN /\ Beside \in BOOLEAN
    /\ Overlap \in Nat
    /\ "config" \notin Pubkeys \cup {None}

VARIABLES
    held,          \* what each relay has stored
    up,            \* the relays that answer
    events,        \* the archive
    versions,      \* the version tables
    relays,        \* the relay table
    sync_state,    \* the cursors
    indexed_from,  \* indexed_kinds
    phase,         \* where the process is in follow()
    configured,    \* RelayClient.configured
    attached,      \* RelayClient.relays
    since,         \* the lower bound each relay was asked for each kind, None if not asked
    vouched,       \* the authors the untagged kinds were asked of
    serving,       \* the relays that took the subscription and have not closed it
    stored,        \* what each relay has yet to replay on the subscription
    live,          \* what arrived at it since, in that order, and is not delivered yet
    waiting,       \* the relays whose EOSE priming still waits for
    answered,      \* history: the events the pipeline has taken
    stopped,       \* history: <<relay, event>> left out of a replay when it was stopped
    hurried,       \* history: those left out of a replay by PRIME_TIMEOUT
    withheld,      \* history: those a relay left out of a replay by itself
    overtaken,     \* history: those a backfill moved a cursor past
    unread         \* history: relays a backfill recorded since sync read the table

database == <<events, versions, relays, sync_state>>
client == <<configured, attached>>
subscription == <<since, vouched, serving, stored, live>>
losses == <<stopped, hurried, withheld, overtaken>>
history == <<answered, losses, unread>>
vars == <<held, up, events, versions, relays, sync_state, indexed_from, phase, configured,
          attached, since, vouched, serving, stored, live, waiting, answered, stopped,
          hurried, withheld, overtaken, unread>>

TAGGED_KINDS == Kinds \ {"rates", "relay_list"}

Unasked == [r \in Relays |-> [k \in Kinds |-> None]]
Nothing == [r \in Relays |-> {}]
Silence == [r \in Relays |-> << >>]

Init ==
    /\ held = Nothing
    /\ up \in SUBSET Relays
    /\ events = {} /\ versions = {}
    /\ relays = [u \in Relays |-> None]
    /\ sync_state = [r \in Relays |-> [k \in Kinds |-> -1]]
    /\ indexed_from = [k \in Kinds |-> None]
    /\ phase = "down"
    /\ configured = {} /\ attached = {}
    /\ since = Unasked /\ vouched = {} /\ serving = {}
    /\ stored = Nothing /\ live = Silence
    /\ waiting = {}
    /\ answered = {} /\ unread = {}
    /\ stopped = {} /\ hurried = {} /\ withheld = {} /\ overtaken = {}
-----------------------------------------------------------------------------
(* The pipeline, as far as sync depends on it.                             *)

Proven(p) == p \in Listed \/ IsPlatformProven(versions, p)

\* Pipeline::ingest of an event that reached relay r.
Ingest(e, r) ==
    LET refused == e.kind \notin TAGGED_KINDS /\ ~Proven(e.pubkey)
        new     == e \notin events /\ ~IsRedundant(events, versions, e)
    IN  IF refused THEN UNCHANGED <<events, versions, relays, sync_state, answered>>
        ELSE /\ events' = IF new THEN events \cup {e} ELSE events
             /\ versions' = IF new /\ e.kind \in VersionedKinds
                            THEN versions \cup {e} ELSE versions
             /\ relays' = IF new /\ e.kind = "relay_list"
                          THEN UpsertRelays(relays, e.urls, e.pubkey) ELSE relays
             /\ sync_state' = Advance(sync_state, r, e.kind, e.at)
             /\ answered' = answered \cup {e}

\* A fault: whatever is not refused counts as stored.
Accepts(e) == e.kind \in TAGGED_KINDS \/ Proven(e.pubkey)

\* IngestOutcome::Stored
Stores(e) ==
    /\ e.kind \in TAGGED_KINDS \/ Proven(e.pubkey)
    /\ e \notin events /\ ~IsRedundant(events, versions, e)

-----------------------------------------------------------------------------
(* The relays to dial, and what to ask them for.                           *)

\* A fault: what the instances named is read only by backfill.
ConfiguredOnly(table) == Configured

\* connection_set: the configured relays, and with discovery on those an
\* instance named.
ConnectionSet(table) ==
    Configured \cup (IF Discover THEN {u \in Relays : table[u] \notin {None, "config"}} ELSE {})

\* A fault: every kind is asked of everybody the policy lets in.
AskAnybody(k, p, who) == AcceptUnknown \/ p \in Listed

\* filters::for_kind: may author p be among those that kind is asked of?
Entitled(k, p, who) ==
    IF k \in TAGGED_KINDS THEN AcceptUnknown \/ p \in Listed ELSE p \in who

\* A fault: the rewind may reach below the epoch.
ResumeUnclamped(cursor) == cursor - Overlap

\* A fault: no rewind.
ResumeAtCursor(cursor) == IF cursor > 0 THEN cursor ELSE 0

\* resume_from: the cursor rewound by the overlap, the epoch at the earliest,
\* and everything the relay holds when there is no cursor.
ResumeFrom(cursor) == IF cursor - Overlap > 0 THEN cursor - Overlap ELSE 0

Matches(e, bounds, who) ==
    /\ bounds[e.kind] # None
    /\ bounds[e.kind] <= e.at
    /\ Entitled(e.kind, e.pubkey, who)

\* targets: the lower bound for each relay and kind, from the cursors as they
\* stand and the publishers vouched for so far.  What is asked is recorded
\* before it is asked.
Bounds(kinds) ==
    LET asks == {k \in kinds : k \in TAGGED_KINDS \/ \E p \in Pubkeys : Proven(p)}
    IN  [r \in Relays |-> [k \in Kinds |->
            IF r \in attached /\ k \in asks THEN ResumeFrom(sync_state[r][k]) ELSE None]]

RecordAsked(bounds) ==
    indexed_from' = [k \in Kinds |->
        MinOrNone(({bounds[r][k] : r \in Relays} \cup {indexed_from[k]}) \ {None})]

\* The subscription made of them.  It is open once one relay has taken the
\* REQ: nobody asks which others refused it, and those stay silent.  The
\* ones that took it start to replay what they have stored.
OpenSubscription(kinds) ==
    /\ vouched' = {p \in Pubkeys : Proven(p)}
    /\ since' = Bounds(kinds)
    /\ serving' \in SUBSET attached /\ serving' # {}
    /\ stored' = [r \in Relays |->
                    {e \in held[r] : r \in serving' /\ Matches(e, since'[r], vouched')}]
    /\ live' = Silence
    /\ RecordAsked(since')

CloseSubscription ==
    /\ since' = Unasked /\ vouched' = {} /\ serving' = {}
    /\ stored' = Nothing /\ live' = Silence

\* What is left of relay r's replay, and of every replay, that the pipeline
\* has not taken before.
Unsent(r) == {<<r, e>> : e \in stored[r] \ answered}
Unreplayed == UNION {Unsent(r) : r \in Relays}

\* Relay r delivers e: a stored event, the newest of its kind first, or, once
\* those are through, the next live one.
Delivers(r, e) ==
    /\ r \in up
    /\ \/ e \in stored[r] /\ \A f \in stored[r] : f.kind = e.kind => f.at <= e.at
       \/ stored[r] = {} /\ live[r] # << >> /\ e = Head(live[r])

Deliver(r, e) ==
    IF e \in stored[r]
    THEN stored' = [stored EXCEPT ![r] = @ \ {e}] /\ UNCHANGED live
    ELSE live' = [live EXCEPT ![r] = Tail(@)] /\ UNCHANGED stored

-----------------------------------------------------------------------------
(* sync.                                                                   *)

\* run: the connection set is recorded and read, and whoever answers is in.
Start ==
    /\ phase = "down"
    /\ relays' = UpsertRelays(relays, Configured, "config")
    /\ configured' = ConnectionSet(relays')
    /\ attached' = configured' \cap up
    /\ attached' # {}
    /\ phase' = "dial"
    /\ unread' = {}
    /\ UNCHANGED <<held, up, events, versions, sync_state, indexed_from, subscription,
                   waiting, answered, losses>>

\* rediscover, then reattach: the relays not in play are tried again.
Dial ==
    /\ phase = "dial"
    /\ configured' = IF Discover THEN ConnectionSet(relays) ELSE configured
    /\ attached' = {u \in configured' : u \in attached \/ u \in up}
    /\ phase' = "dialled"
    /\ unread' = IF Discover THEN {} ELSE unread
    /\ UNCHANGED <<held, up, database, indexed_from, subscription, waiting, answered, losses>>

\* prime: a subscription to the tagged kinds alone.
Prime ==
    /\ phase = "dialled"
    /\ OpenSubscription(TAGGED_KINDS)
    /\ waiting' = attached
    /\ phase' = "priming"
    /\ UNCHANGED <<held, up, database, client, history>>

\* No relay takes that REQ: the run goes on to the next one.
PrimeFails ==
    /\ phase = "dialled"
    /\ RecordAsked(Bounds(TAGGED_KINDS))
    /\ phase' = "primed"
    /\ UNCHANGED <<held, up, database, client, subscription, waiting, history>>

\* One event of the priming subscription.  It may also be a live one.  It is
\* never a relay list, whose kind carries no tag, so the connection set stays.
PrimeEvent(e, r) ==
    /\ phase = "priming"
    /\ waiting # {}
    /\ Delivers(r, e)
    /\ Deliver(r, e)
    /\ Ingest(e, r)
    /\ UNCHANGED <<held, up, indexed_from, phase, client, since, vouched, serving, waiting,
                   losses, unread>>

\* A relay reports the end of what it has stored, or of as much of it as it
\* sends.  One that refused the REQ never does.
EndOfStored(r) ==
    /\ phase = "priming"
    /\ r \in waiting
    /\ r \in serving \cap up
    /\ stored[r] = {}
    /\ waiting' = waiting \ {r}
    /\ UNCHANGED <<held, up, database, indexed_from, phase, client, subscription, history>>

\* Every relay has answered.
PrimeDone ==
    /\ phase = "priming"
    /\ waiting = {}
    /\ CloseSubscription
    /\ phase' = "primed"
    /\ UNCHANGED <<held, up, database, indexed_from, client, waiting, history>>

\* PRIME_TIMEOUT, or the end of the stream: the run goes ahead without the
\* relays still waited for.
PrimeTimeout ==
    /\ phase = "priming"
    /\ waiting # {}
    /\ hurried' = hurried \cup Unreplayed
    /\ CloseSubscription
    /\ waiting' = {}
    /\ phase' = "primed"
    /\ UNCHANGED <<held, up, database, indexed_from, client, answered, stopped, withheld,
                   overtaken, unread>>

\* The subscription to every kind, with the cursors read again.
Subscribe ==
    /\ phase = "primed"
    /\ OpenSubscription(Kinds)
    /\ phase' = "following"
    /\ UNCHANGED <<held, up, database, client, waiting, history>>

\* No relay takes the REQ: wait, and start over.
SubscribeFails ==
    /\ phase = "primed"
    /\ RecordAsked(Bounds(Kinds))
    /\ phase' = "backoff"
    /\ UNCHANGED <<held, up, database, client, subscription, waiting, history>>

\* One event of the live subscription.  A relay list that is stored and names
\* a relay nobody is dialling ends the subscription at once.
FollowEvent(e, r) ==
    LET fresh == ConnectionSet(relays')
        read  == Discover /\ e.kind = "relay_list" /\ Stores(e)
        widen == read /\ fresh \ attached # {}
    IN
    /\ phase = "following"
    /\ Delivers(r, e)
    /\ Ingest(e, r)
    /\ configured' = IF read THEN fresh ELSE configured
    /\ unread' = IF read THEN {} ELSE unread
    /\ IF widen
       THEN /\ CloseSubscription
            /\ phase' = "dial"
            /\ stopped' = stopped \cup (Unreplayed \ {<<r, e>>})
       ELSE /\ Deliver(r, e)
            /\ UNCHANGED <<since, vouched, serving, phase, stopped>>
    /\ UNCHANGED <<held, up, indexed_from, attached, waiting, hurried, withheld, overtaken>>

\* The notification stream ends.
StreamEnds ==
    /\ phase = "following"
    /\ stopped' = stopped \cup Unreplayed
    /\ CloseSubscription
    /\ phase' = "backoff"
    /\ UNCHANGED <<held, up, database, indexed_from, client, waiting, answered, hurried,
                   withheld, overtaken, unread>>

Retry ==
    /\ phase = "backoff"
    /\ phase' = "dial"
    /\ UNCHANGED <<held, up, database, indexed_from, client, subscription, waiting, history>>

\* SIGINT, a database that does not answer, or a crash: there is nothing to
\* flush, and the next run starts from the tables.
Stop ==
    /\ phase # "down"
    /\ stopped' = stopped \cup Unreplayed
    /\ CloseSubscription
    /\ waiting' = {}
    /\ configured' = {} /\ attached' = {}
    /\ phase' = "down"
    /\ UNCHANGED <<held, up, database, indexed_from, answered, hurried, withheld, overtaken,
                   unread>>

-----------------------------------------------------------------------------
(* The environment.                                                        *)

\* An event is published to a relay.  Publishers' clocks disagree by no more
\* than the overlap is there to absorb.
Publish(e, r) ==
    /\ e \notin held[r]
    /\ \A f \in held[r] : f.at <= e.at + Overlap
    /\ held' = [held EXCEPT ![r] = @ \cup {e}]
    /\ live' = IF r \in serving /\ Matches(e, since[r], vouched)
               THEN [live EXCEPT ![r] = Append(@, e)] ELSE live
    /\ UNCHANGED <<up, database, indexed_from, phase, client, since, vouched, serving, stored,
                   waiting, history>>

RelayDown(r) ==
    /\ r \in up
    /\ up' = up \ {r}
    /\ UNCHANGED <<held, database, indexed_from, phase, client, subscription, waiting, history>>

RelayUp(r) ==
    /\ r \notin up
    /\ up' = up \cup {r}
    /\ UNCHANGED <<held, database, indexed_from, phase, client, subscription, waiting, history>>

\* A relay sends less than it has stored: of one kind, the oldest event left
\* is not replayed.
CapReplay(r, e) ==
    /\ r \in up
    /\ e \in stored[r]
    /\ \A f \in stored[r] : f.kind = e.kind => e.at <= f.at
    /\ stored' = [stored EXCEPT ![r] = @ \ {e}]
    /\ withheld' = withheld \cup (Unsent(r) \cap {<<r, e>>})
    /\ UNCHANGED <<held, up, database, indexed_from, phase, client, since, vouched, serving,
                   live, waiting, answered, stopped, hurried, overtaken, unread>>

\* A relay closes the subscription.  Its CLOSED is not read: it just falls
\* silent, and what it had yet to replay is not sent.
Closed(r) ==
    /\ r \in serving \cap up
    /\ serving' = serving \ {r}
    /\ stored' = [stored EXCEPT ![r] = {}]
    /\ live' = [live EXCEPT ![r] = << >>]
    /\ withheld' = withheld \cup Unsent(r)
    /\ UNCHANGED <<held, up, database, indexed_from, phase, client, since, vouched, waiting,
                   answered, stopped, hurried, overtaken, unread>>

\* A backfill of another process hands an event of relay r to the pipeline.
\* It reads newest first, so the cursor it moves is past what it has yet to
\* read.
Backfill(e, r) ==
    /\ Beside
    /\ e \in held[r]
    /\ Ingest(e, r)
    /\ overtaken' = overtaken \cup
          {<<r, f>> : f \in {g \in held[r] \ (stored[r] \cup answered') :
                               g.kind = e.kind /\ g.at + Overlap < e.at}}
    /\ unread' = unread \cup {u \in Relays : relays[u] # relays'[u]}
    /\ UNCHANGED <<held, up, indexed_from, phase, client, subscription, waiting, stopped,
                   hurried, withheld>>

\* A rebuild from raw beside the sync empties a version table, and fills it
\* again a row at a time.
ClearVersions(k) ==
    /\ Beside
    /\ versions' = {v \in versions : v.kind # k}
    /\ UNCHANGED <<held, up, events, relays, sync_state, indexed_from, phase, client,
                   subscription, waiting, history>>

ReplayVersion(e) ==
    /\ Beside
    /\ e \in events /\ e.kind \in VersionedKinds
    /\ versions' = versions \cup {e}
    /\ UNCHANGED <<held, up, events, relays, sync_state, indexed_from, phase, client,
                   subscription, waiting, history>>

\* What the running process does on its own, whatever the relays do.
Loop ==
    \/ Dial
    \/ Prime \/ PrimeFails \/ PrimeDone \/ PrimeTimeout
    \/ Subscribe \/ SubscribeFails
    \/ Retry

Next ==
    \/ Start
    \/ Loop
    \/ \E r \in Relays : EndOfStored(r)
    \/ \E e \in Events, r \in Relays : PrimeEvent(e, r) \/ FollowEvent(e, r)
    \/ StreamEnds
    \/ Stop
    \/ \E e \in Events, r \in Relays : Publish(e, r) \/ CapReplay(r, e)
    \/ \E r \in Relays : RelayDown(r) \/ RelayUp(r) \/ Closed(r)
    \/ \E e \in Events, r \in Relays : Backfill(e, r)
    \/ \E k \in VersionedKinds : ClearVersions(k)
    \/ \E e \in Events : ReplayVersion(e)

Spec == Init /\ [][Next]_vars
-----------------------------------------------------------------------------
(* Properties.                                                             *)

Phases == {"down", "dial", "dialled", "priming", "primed", "following", "backoff"}

\* A bound that was asked for is a time a relay can answer for, and what is
\* on its way was published.
TypeOK ==
    /\ held \in [Relays -> SUBSET Events]
    /\ up \subseteq Relays
    /\ events \subseteq Events /\ answered \subseteq Events
    /\ versions \subseteq {e \in events : e.kind \in VersionedKinds}
    /\ relays \in [Relays -> Pubkeys \cup {None, "config"}]
    /\ sync_state \in [Relays -> [Kinds -> -1 .. Horizon]]
    /\ indexed_from \in [Kinds -> (0 .. Horizon) \cup {None}]
    /\ phase \in Phases
    /\ configured \subseteq Relays /\ attached \subseteq Relays /\ waiting \subseteq Relays
    /\ serving \subseteq Relays /\ unread \subseteq Relays
    /\ since \in [Relays -> [Kinds -> (0 .. Horizon) \cup {None}]]
    /\ vouched \subseteq Pubkeys
    /\ stored \in [Relays -> SUBSET Events]
    /\ live \in [Relays -> Seq(Events)]
    /\ stopped \subseteq Relays \X Events /\ hurried \subseteq Relays \X Events
    /\ withheld \subseteq Relays \X Events /\ overtaken \subseteq Relays \X Events

\* The tagged events that a relay holds, that it is not about to deliver, and
\* that the pipeline has never been handed.
Unheard(r) ==
    {e \in held[r] :
        /\ e.kind \in TAGGED_KINDS /\ Entitled(e.kind, e.pubkey, {})
        /\ e \notin stored[r]
        /\ \A i \in DOMAIN live[r] : live[r][i] # e
        /\ e \notin answered}

\* A relay that refused the subscription or closed it is not followed, and
\* nothing in the code says so.
Missed ==
    IF phase = "following" THEN UNION {{<<r, e>> : e \in Unheard(r)} : r \in serving} ELSE {}

\* What went unread, and by whose doing.
Lost == stopped \cup hurried \cup withheld \cup overtaken

\* Whatever the restarts, the reconnections, the relays that join late or
\* refuse a subscription that others take, and the events published between
\* two subscriptions: once it follows, sync misses nothing that the relays
\* serving it hold, from the first event of a relay without a cursor on
\* (sync.rs:12; deploy/replicated.sh:28 has it start "from roughly now").
\* The exceptions are what a replay that sync stopped or ran out of time for
\* had not sent, what the relay itself left out of a replay, and what a
\* backfill beside it moved the cursor past before reading it.
CaughtUp == Missed \subseteq Lost

\* Nothing that is asked for is turned away: by the time an untagged event
\* is delivered its publisher is vouched for (filters.rs:69), unless a
\* rebuild from raw has emptied the tables that vouch and is not done.
NothingRefused ==
    versions = {e \in events : e.kind \in VersionedKinds} =>
        \A r \in Relays : \A e \in stored[r] \cup {live[r][i] : i \in DOMAIN live[r]} :
            e.kind \notin TAGGED_KINDS => Proven(e.pubkey)

\* While sync follows, a relay that any stored relay list names is among
\* those the client dials (sync.rs:43), unless a backfill beside it stored
\* that list since sync last read the table.
Discovered ==
    Discover /\ phase = "following" =>
        \A u \in Relays : relays[u] # None => u \in configured \cup unread

\* A run that is not stopped, and whose stream and subscriptions no longer
\* fail, follows for good from some moment on: neither a relay that never
\* ends its replay nor a relay list naming one that does not answer, which
\* every replay brings again, makes it start over for ever (sync.rs:407).
Settles == <>[](phase \notin {"down", "backoff"}) => <>[](phase = "following")

-----------------------------------------------------------------------------
(* What the documents say and the code does not do.                        *)

\* README.md:142: interrupted, sync resumes from where it left off.
ResumesWhereItLeftOff == Missed \subseteq hurried \cup withheld \cup overtaken

\* sync.rs:35: a relay that was down when the indexer started rejoins the run
\* once it answers.
RejoinsOnceItAnswers ==
    \A r \in Configured : <>[](r \in up /\ phase # "down") => <>(r \in attached)
=============================================================================
