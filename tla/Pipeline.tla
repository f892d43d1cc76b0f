------------------------------ MODULE Pipeline ------------------------------
(***************************************************************************)
(* The ingest pipeline (src/ingest/pipeline.rs) and `rebuild`              *)
(* (src/commands/rebuild.rs) over one SQLite database.                     *)
(*                                                                         *)
(* Ingesters are the processes that call Pipeline::ingest, one event at a  *)
(* time: a `sync` and a `backfill` may run at once, and a `rebuild` beside *)
(* them.  Relays hand over any event at any time and any number of times.  *)
(* One call is two steps, because the code reads the database twice: the   *)
(* admission rules and the vouching query run first, on a connection of    *)
(* the pool, and the transaction of steps 6 to 8 comes later.  That        *)
(* transaction is one step: SQLite serialises writers and fails a          *)
(* transaction whose snapshot went stale, which is Fail.  A rebuild is one *)
(* step per statement or per replay transaction.                           *)
(***************************************************************************)
EXTENDS Tables

CONSTANTS
    Ingesters,         \* the processes that ingest
    Listed,            \* [indexer].instances
    AcceptUnknown,     \* accept_unknown_instances
    AcceptedNetworks,  \* [indexer].networks
    Configured,        \* [nostr].relays
    FirstReadable,     \* the events the first deployed parsers can read
    RebuildModes       \* the values of --from-raw an operator uses

ASSUME PolicyAssumption ==
    /\ Listed \subseteq Pubkeys
    /\ AcceptUnknown \in BOOLEAN
    /\ AcceptedNetworks \subseteq Networks
    /\ Configured \subseteq Relays
    /\ FirstReadable \subseteq Events
    /\ RebuildModes \subseteq BOOLEAN
    /\ None \notin Ingesters
    /\ "config" \notin Pubkeys \cup {None}
    /\ "malformed" \notin Networks \cup {None}

VARIABLES
    events,          \* the archive
    versions,        \* the five version tables
    orders,          \* the orders projection
    disputes,        \* the disputes projection
    duplicates,      \* the dev fees whose is_duplicate is set
    instances,       \* the bestiary
    instance_names,  \* the name history
    relays,          \* the source of each known relay
    sync_state,      \* the cursor of each relay and kind
    job,             \* what each ingester is between its two reads with
    pc,              \* the next statement of a running rebuild, or "idle"
    replaying,       \* the archive rows a rebuild has yet to replay
    sweeping,        \* the ids its current sweep has yet to refresh
    readable,        \* the events the deployed parsers can read
    heartbeats,      \* history: every event answered Redundant so far
    forgotten,       \* history: those of them no row of instances counts any more
    overlooked,      \* history: snapshots stored while an archived one had no row
    stale            \* history: a rebuild is owed or under way

tables == <<events, versions, orders, disputes, duplicates, instances,
            instance_names, relays, sync_state>>
rebuilding == <<pc, replaying, sweeping, stale>>
history == <<heartbeats, forgotten, overlooked>>
vars == <<events, versions, orders, disputes, duplicates, instances,
          instance_names, relays, sync_state, job, pc, replaying, sweeping,
          readable, heartbeats, forgotten, overlooked, stale>>

PLATFORM_TAGGED == {"order", "dev_fee", "dispute", "info"}
UNTAGGED_KINDS  == {"rates", "relay_list"}
NETWORK_TAGGED  == {"order", "dev_fee"}
-----------------------------------------------------------------------------
Init ==
    /\ events = {} /\ versions = {} /\ duplicates = {}
    /\ orders = [o \in Keys |-> None]
    /\ disputes = [d \in Keys |-> None]
    /\ instances = [p \in Pubkeys |-> None]
    /\ instance_names = [p \in Pubkeys |-> [n \in Names |-> None]]
    /\ relays = [u \in Relays |-> None]
    /\ sync_state = [r \in Relays |-> [k \in Kinds |-> -1]]
    /\ job = [i \in Ingesters |-> None]
    /\ pc = "idle" /\ replaying = {} /\ sweeping = {}
    /\ readable = FirstReadable
    /\ heartbeats = {} /\ forgotten = {} /\ overlooked = {}
    /\ stale = FALSE
-----------------------------------------------------------------------------
(* Ingest.                                                                 *)

AcceptsInstance(p) == AcceptUnknown \/ p \in Listed

\* A fault: the platform tag is not asked for.
AdmitAnyPlatform(e) ==
    /\ e.verified
    /\ AcceptsInstance(e.pubkey)
    /\ e.kind \in NETWORK_TAGGED => e.network \in AcceptedNetworks \cup {None}

\* Steps 2 to 5: what can be decided from the event alone.
Admit(e) ==
    /\ e.verified
    /\ AcceptsInstance(e.pubkey)
    /\ e.kind \in PLATFORM_TAGGED => e.mostro
    /\ e.kind \in NETWORK_TAGGED => e.network \in AcceptedNetworks \cup {None}

\* Two faults: rates, or relay lists, are taken on anybody's word.
VouchListsOnly(e) ==
    e.kind = "relay_list" => e.pubkey \in Listed \/ IsPlatformProven(versions, e.pubkey)

VouchRatesOnly(e) ==
    e.kind = "rates" => e.pubkey \in Listed \/ IsPlatformProven(versions, e.pubkey)

\* Step 4b: an untagged kind is taken from a publisher known for a Mostro.
VouchedFor(e) ==
    e.kind \in UNTAGGED_KINDS =>
        e.pubkey \in Listed \/ IsPlatformProven(versions, e.pubkey)

\* An ingester is handed e by relay r and lets it through.  An event that is
\* turned away here changes nothing, and so is not a step.
Receive(i, e, r) ==
    /\ job[i] = None
    /\ Admit(e)
    /\ VouchedFor(e)
    /\ job' = [job EXCEPT ![i] = [event |-> e, relay |-> r]]
    /\ UNCHANGED <<tables, rebuilding, readable, history>>

\* The parser rejects the event: it is archived, and that is all.
ArchiveUnreadable(i) ==
    /\ job[i] # None
    /\ job[i].event \notin readable
    /\ events' = events \cup {job[i].event}
    /\ job' = [job EXCEPT ![i] = None]
    /\ UNCHANGED <<versions, orders, disputes, duplicates, instances, instance_names,
                   relays, sync_state, rebuilding, readable, history>>

\* Step 6a: not archived, but its publisher was seen and its relay read.
SkipRedundant(i) ==
    LET e == job[i].event IN
    /\ job[i] # None
    /\ e \in readable
    /\ IsRedundant(events, versions, e)
    /\ instances' = UpsertInstance(instances, e.pubkey, None, e.at)
    /\ sync_state' = Advance(sync_state, job[i].relay, e.kind, e.at)
    /\ heartbeats' = heartbeats \cup {e}
    /\ forgotten' = forgotten \ {e}
    /\ job' = [job EXCEPT ![i] = None]
    /\ UNCHANGED <<events, versions, orders, disputes, duplicates, instance_names,
                   relays, rebuilding, readable, overlooked>>

\* Step 6: the archive already holds it.
SkipDuplicate(i) ==
    LET e == job[i].event IN
    /\ job[i] # None
    /\ e \in readable
    /\ ~IsRedundant(events, versions, e)
    /\ e \in events
    /\ sync_state' = Advance(sync_state, job[i].relay, e.kind, e.at)
    /\ job' = [job EXCEPT ![i] = None]
    /\ UNCHANGED <<events, versions, orders, disputes, duplicates, instances,
                   instance_names, relays, rebuilding, readable, history>>

\* Step 7's writes, which ingest and replay share: the publisher, the
\* version, and whatever is derived from the versions of the same key.
Persist(e) ==
    /\ versions' = versions \cup (IF e.kind \in VersionedKinds THEN {e} ELSE {})
    /\ instances' = UpsertInstance(instances, e.pubkey, e.name, e.at)
    /\ instance_names' = IF e.name = None THEN instance_names
                         ELSE RecordName(instance_names, e.pubkey, e.name, e.at)
    /\ orders' = IF e.kind = "order" THEN RefreshOrder(orders, versions', e.key)
                 ELSE orders
    /\ disputes' = IF e.kind = "dispute" THEN RefreshDispute(disputes, versions', e.key)
                   ELSE disputes
    /\ duplicates' = IF e.kind = "dev_fee"
                     THEN RefreshDuplicates(duplicates, versions', e.key)
                     ELSE duplicates
    /\ relays' = IF e.kind = "relay_list" THEN UpsertRelays(relays, e.urls, e.pubkey)
                 ELSE relays

\* The table that step 6a asks of rates lacks a snapshot the archive holds:
\* a rebuild from raw has emptied it and has not replayed that far.
RatesBehind == \E g \in events \cap readable : g.kind = "rates" /\ g \notin versions

\* Steps 6 to 8 for an event that is new.
Store(i) ==
    LET e == job[i].event IN
    /\ job[i] # None
    /\ e \in readable
    /\ ~IsRedundant(events, versions, e)
    /\ e \notin events
    /\ events' = events \cup {e}
    /\ Persist(e)
    /\ sync_state' = Advance(sync_state, job[i].relay, e.kind, e.at)
    /\ overlooked' = IF e.kind = "rates" /\ RatesBehind THEN overlooked \cup {e}
                     ELSE overlooked
    /\ job' = [job EXCEPT ![i] = None]
    /\ UNCHANGED <<rebuilding, readable, heartbeats, forgotten>>

\* A fault: the cursor is moved outside the transaction that is rolled back.
FailBehindCursor(i) ==
    /\ job[i] # None
    /\ sync_state' = Advance(sync_state, job[i].relay, job[i].event.kind, job[i].event.at)
    /\ job' = [job EXCEPT ![i] = None]
    /\ UNCHANGED <<events, versions, orders, disputes, duplicates, instances,
                   instance_names, relays, rebuilding, readable, history>>

\* The database refuses, or the process dies, before the commit: the
\* transaction is rolled back and the run that called ingest ends.
Fail(i) ==
    /\ job[i] # None
    /\ job' = [job EXCEPT ![i] = None]
    /\ UNCHANGED <<tables, rebuilding, readable, history>>

\* A run opens: the relays of the configuration are recorded as such, one
\* upsert statement each.
Connect(u) ==
    /\ u \in Configured
    /\ relays' = UpsertRelays(relays, {u}, "config")
    /\ UNCHANGED <<events, versions, orders, disputes, duplicates, instances,
                   instance_names, sync_state, job, rebuilding, readable, history>>

-----------------------------------------------------------------------------
(* rebuild [--from-raw].  pc names the statement that comes next.          *)

SweepPcs == {"sweep_orders", "sweep_disputes", "sweep_fees"}
Pcs == {"idle", "order", "dispute", "dev_fee", "info", "rates", "orders", "disputes",
        "instance_names", "instances", "load", "replay"} \cup SweepPcs

AfterClear(c) ==
    CASE c = "order" -> "dispute"
      [] c = "dispute" -> "dev_fee"
      [] c = "dev_fee" -> "info"
      [] c = "info" -> "rates"
      [] c = "rates" -> "orders"

StartRebuild(fromRaw) ==
    /\ pc = "idle"
    /\ pc' = IF fromRaw THEN "order" ELSE "orders"
    /\ stale' = TRUE
    /\ UNCHANGED <<tables, job, replaying, sweeping, readable, history>>

\* DELETE FROM one of the five version tables.
ClearVersions ==
    /\ pc \in VersionedKinds
    /\ versions' = {v \in versions : v.kind # pc}
    /\ duplicates' = IF pc = "dev_fee" THEN {} ELSE duplicates
    /\ pc' = AfterClear(pc)
    /\ UNCHANGED <<events, orders, disputes, instances, instance_names, relays,
                   sync_state, job, replaying, sweeping, readable, history, stale>>

\* A fault: the table is dropped, not emptied.
DropOrders ==
    /\ pc = "orders"
    /\ orders' = [o \in {} |-> None]
    /\ pc' = "disputes"
    /\ UNCHANGED <<events, versions, disputes, duplicates, instances, instance_names,
                   relays, sync_state, job, replaying, sweeping, readable, history,
                   stale>>

ClearOrders ==
    /\ pc = "orders"
    /\ orders' = [o \in Keys |-> None]
    /\ pc' = "disputes"
    /\ UNCHANGED <<events, versions, disputes, duplicates, instances, instance_names,
                   relays, sync_state, job, replaying, sweeping, readable, history,
                   stale>>

ClearDisputes ==
    /\ pc = "disputes"
    /\ disputes' = [d \in Keys |-> None]
    /\ pc' = "instance_names"
    /\ UNCHANGED <<events, versions, orders, duplicates, instances, instance_names,
                   relays, sync_state, job, replaying, sweeping, readable, history,
                   stale>>

\* instances::clear is two statements with no transaction around them.
ClearInstanceNames ==
    /\ pc = "instance_names"
    /\ instance_names' = [p \in Pubkeys |-> [n \in Names |-> None]]
    /\ pc' = "instances"
    /\ UNCHANGED <<events, versions, orders, disputes, duplicates, instances, relays,
                   sync_state, job, replaying, sweeping, readable, history, stale>>

ClearInstances ==
    /\ pc = "instances"
    /\ instances' = [p \in Pubkeys |-> None]
    /\ forgotten' = heartbeats
    /\ pc' = "load"
    /\ UNCHANGED <<events, versions, orders, disputes, duplicates, instance_names,
                   relays, sync_state, job, replaying, sweeping, readable, heartbeats,
                   overlooked, stale>>

\* events::all: the whole archive is read at once, and replayed from memory.
LoadArchive ==
    /\ pc = "load"
    /\ replaying' = events
    /\ pc' = "replay"
    /\ UNCHANGED <<tables, job, sweeping, readable, history, stale>>

\* A fault: the archive is queried again for each event.
ReplayAfresh ==
    /\ pc = "replay"
    /\ replaying # {}
    /\ replaying' = events
    /\ Persist(Oldest(replaying))
    /\ UNCHANGED <<events, sync_state, job, pc, sweeping, readable, history, stale>>

\* One archived event, oldest first, in a transaction of its own.  No rule
\* of admission is applied again and no cursor moves.
Replay ==
    LET e == Oldest(replaying) IN
    /\ pc = "replay"
    /\ replaying # {}
    /\ replaying' = replaying \ {e}
    /\ IF e \in readable
       THEN Persist(e)
       ELSE UNCHANGED <<versions, orders, disputes, duplicates, instances,
                        instance_names, relays>>
    /\ UNCHANGED <<events, sync_state, job, pc, sweeping, readable, history, stale>>

\* SELECT DISTINCT of the ids that one of the version tables holds.
IdsOf(kind) == {v.key : v \in {w \in versions : w.kind = kind}}

SweepKind(c) ==
    CASE c = "sweep_orders" -> "order"
      [] c = "sweep_disputes" -> "dispute"
      [] c = "sweep_fees" -> "dev_fee"

\* The replay, or a sweep, is done: the ids of the next sweep are read.
BeginSweep ==
    /\ \/ pc = "replay" /\ replaying = {} /\ pc' = "sweep_orders"
       \/ pc = "sweep_orders" /\ sweeping = {} /\ pc' = "sweep_disputes"
       \/ pc = "sweep_disputes" /\ sweeping = {} /\ pc' = "sweep_fees"
    /\ sweeping' = IdsOf(SweepKind(pc'))
    /\ UNCHANGED <<tables, job, replaying, readable, history, stale>>

\* One id of the sweep is refreshed, by a statement of its own.
Sweep(id) ==
    /\ pc \in SweepPcs
    /\ id \in sweeping
    /\ sweeping' = sweeping \ {id}
    /\ orders' = IF pc = "sweep_orders" THEN RefreshOrder(orders, versions, id)
                 ELSE orders
    /\ disputes' = IF pc = "sweep_disputes" THEN RefreshDispute(disputes, versions, id)
                   ELSE disputes
    /\ duplicates' = IF pc = "sweep_fees" THEN RefreshDuplicates(duplicates, versions, id)
                     ELSE duplicates
    /\ UNCHANGED <<events, versions, instances, instance_names, relays, sync_state, job,
                   pc, replaying, readable, history, stale>>

FinishRebuild ==
    /\ pc = "sweep_fees"
    /\ sweeping = {}
    /\ pc' = "idle"
    /\ stale' = FALSE
    /\ UNCHANGED <<tables, job, replaying, sweeping, readable, history>>

\* The rebuild dies, or a statement of it fails: what it did so far stays.
RebuildCrash ==
    /\ pc # "idle"
    /\ pc' = "idle"
    /\ replaying' = {}
    /\ sweeping' = {}
    /\ UNCHANGED <<tables, job, readable, history, stale>>

\* A release whose parsers read more of the archive is deployed.
Upgrade(e) ==
    /\ pc = "idle"
    /\ \A i \in Ingesters : job[i] = None
    /\ readable' = readable \cup {e}
    /\ stale' = TRUE
    /\ UNCHANGED <<tables, job, pc, replaying, sweeping, history>>

RebuildStep ==
    \/ ClearVersions \/ ClearOrders \/ ClearDisputes \/ ClearInstanceNames
    \/ ClearInstances \/ LoadArchive \/ Replay \/ BeginSweep
    \/ \E id \in Keys : Sweep(id)
    \/ FinishRebuild

Next ==
    \/ \E i \in Ingesters :
          \/ \E e \in Events, r \in Relays : Receive(i, e, r)
          \/ ArchiveUnreadable(i)
          \/ SkipRedundant(i)
          \/ SkipDuplicate(i)
          \/ Store(i)
          \/ Fail(i)
    \/ \E u \in Relays : Connect(u)
    \/ \E fromRaw \in RebuildModes : StartRebuild(fromRaw)
    \/ RebuildStep
    \/ RebuildCrash
    \/ \E e \in Events \ readable : Upgrade(e)

Spec == Init /\ [][Next]_vars
-----------------------------------------------------------------------------
(* Properties.                                                             *)

InstanceRows == [ first_seen_at : 0 .. Horizon, last_seen_at : 0 .. Horizon,
                  name : Names \cup {None}, name_seen_at : (0 .. Horizon) \cup {None} ]

OrderRows == [ latest : Events, first_seen_at : 0 .. Horizon, last_updated_at : 0 .. Horizon,
               success_at : (0 .. Horizon) \cup {None},
               canceled_at : (0 .. Horizon) \cup {None},
               order_created_at : Nat \cup {None} ]

DisputeRows == [ latest : Events, last_updated_at : 0 .. Horizon,
                 opened_at : Nat \cup {None}, initiator : {"buyer", "seller", None} ]

\* The absence of a row is not a row.
ASSUME RowsAssumption == None \notin InstanceRows \cup OrderRows \cup DisputeRows

\* Every table holds rows of its own columns, and a rebuild is at one of its
\* statements.
TypeOK ==
    /\ events \subseteq Events
    /\ versions \subseteq {e \in Events : e.kind \in VersionedKinds}
    /\ orders \in [Keys -> OrderRows \cup {None}]
    /\ disputes \in [Keys -> DisputeRows \cup {None}]
    /\ duplicates \subseteq {e \in Events : e.kind = "dev_fee"}
    /\ instances \in [Pubkeys -> InstanceRows \cup {None}]
    /\ instance_names \in [Pubkeys -> [Names -> (0 .. Horizon) \cup {None}]]
    /\ relays \in [Relays -> Pubkeys \cup {"config", None}]
    /\ sync_state \in [Relays -> [Kinds -> -1 .. Horizon]]
    /\ job \in [Ingesters -> [event : Events, relay : Relays] \cup {None}]
    /\ pc \in Pcs
    /\ replaying \subseteq Events
    /\ sweeping \subseteq Keys
    /\ readable \subseteq Events
    /\ heartbeats \subseteq Events /\ forgotten \subseteq Events
    /\ overlooked \subseteq Events
    /\ stale \in BOOLEAN

\* What the parsers can make of the archive as it stands.
Parsed == {e \in events \cap readable : e.kind \in VersionedKinds}

OrderView(V, o) ==
    LET S == VersionsOf(V, "order", o) IN IF S = {} THEN None ELSE ProjectOrder(S)

DisputeView(V, d) ==
    LET S == VersionsOf(V, "dispute", d) IN IF S = {} THEN None ELSE ProjectDispute(S)

\* Every derived table is a function of the archive (rebuild.rs:3): whatever
\* the order of arrival, the duplicates, the failed writes and the ingests
\* that ran beside a rebuild, once no rebuild is owed the version tables
\* hold exactly the archived events the parsers read, and orders and
\* disputes are their projections.
DerivedFromArchive ==
    ~stale =>
        /\ versions = Parsed
        /\ \A k \in Keys : /\ orders[k] = OrderView(Parsed, k)
                           /\ disputes[k] = DisputeView(Parsed, k)

\* At every moment, a half-done rebuild included, the dev fees flagged as
\* duplicates are all but the earliest stored for their order: no order is
\* ever counted as settled twice, nor left without its settlement
\* (dev_fees.rs:17).
DuplicateFlags ==
    duplicates = {f \in versions : /\ f.kind = "dev_fee"
                                   /\ f # Oldest(VersionsOf(versions, "dev_fee", f.key))}

\* A publisher the indexer has reason to believe: listed by the operator, or
\* the author of an archived event that carries the Mostro tag.
Trusted(p) ==
    \/ p \in Listed
    \/ \E e \in events : e.pubkey = p /\ e.kind \in PLATFORM_TAGGED /\ e.mostro

\* No event of an untagged kind is archived from a publisher nobody vouched
\* for, although the vouching query runs before, and apart from, the
\* transaction that archives (pipeline.rs:51).
VouchedArchive ==
    \A e \in events : e.kind \in UNTAGGED_KINDS => Trusted(e.pubkey)

\* Every relay that bestiario would dial on somebody's word is one that a
\* trusted publisher named, in a list that is still in the archive to show
\* for it (relays.rs:4).
VouchedRelays ==
    \A u \in Relays :
        relays[u] \in Pubkeys =>
            /\ Trusted(relays[u])
            /\ \E e \in events : /\ e.kind = "relay_list"
                                 /\ e.pubkey = relays[u]
                                 /\ u \in e.urls

\* For the kinds that are never thinned out, a cursor only ever stands at an
\* event that is in the archive: whatever failed, was rejected or was rolled
\* back, resuming from it skips nothing that was counted as read
\* (pipeline.rs:19).
CursorBacked ==
    \A r \in Relays, k \in {"order", "dev_fee", "dispute"} :
        sync_state[r][k] # -1 =>
            \E e \in events : e.kind = k /\ e.at = sync_state[r][k]

\* The sightings of p that the bestiary has to account for, those of them
\* that are in the archive, and those of these that carry a name.
Sightings(p) ==
    {e \in (events \cap readable) \cup (heartbeats \ forgotten) : e.pubkey = p}

Archived(p) == {e \in events \cap readable : e.pubkey = p}

Named(p) == {e \in events \cap readable : e.pubkey = p /\ e.name # None}

\* Once no rebuild is owed, an instance was last seen at its latest sighting,
\* dropped heartbeats included, and first seen at its oldest archived one;
\* its name is the one published at the latest moment any was, and the
\* history dates each name by its latest use (instances.rs:31).  Two cases
\* are left open, in which the repository does not agree with itself: a
\* dropped heartbeat older than everything archived, which moves
\* first_seen_at although docs/SPEC.md:675 has it move last_seen_at "and
\* nothing else", and two names of one second, of which the one ingested
\* last stays although instances.rs:31 promises the same row in any order.
Bestiary ==
    ~stale => \A p \in Pubkeys :
        /\ Sightings(p) = {} <=> instances[p] = None
        /\ Sightings(p) # {} =>
              /\ instances[p].last_seen_at = Max({e.at : e \in Sightings(p)})
              /\ (\E e \in Archived(p) : \A f \in Sightings(p) : e.at <= f.at)
                    => instances[p].first_seen_at = Min({e.at : e \in Archived(p)})
              /\ Named(p) = {}
                    => instances[p].name = None /\ instances[p].name_seen_at = None
              /\ Named(p) # {}
                    => instances[p].name_seen_at = Max({e.at : e \in Named(p)})
              /\ \A e \in Named(p) :
                    (\A f \in Named(p) : f.at < e.at \/ (f.at = e.at /\ f.name = e.name))
                        => instances[p].name = e.name
        /\ \A n \in Names :
              LET uses == {e.at : e \in {f \in Named(p) : f.name = n}}
              IN  instance_names[p][n] = IF uses = {} THEN None ELSE Max(uses)

\* A dropped announcement is not lost: the archive keeps an identical one,
\* published no later, by the same publisher at the same address
\* (heartbeats.rs:10).
FirstOfRunKept ==
    \A h \in heartbeats : h.kind \in {"info", "relay_list"} =>
        \E f \in events : /\ f.pubkey = h.pubkey /\ f.kind = h.kind /\ f.key = h.key
                          /\ f.body = h.body /\ f.at <= h.at

\* Of two snapshots of one publisher archived in one hour of published_at
\* (docs/SPEC.md:672), both read when they came, one was let in while a
\* rebuild from raw had emptied the table the rule is asked of
\* (heartbeats.rs:56).  In that window, and in no other, the rule of the
\* document is not kept; DerivedFromArchive says that it closes with the
\* rebuild.
OneRatePerHour ==
    \A e, f \in {g \in events \cap FirstReadable : g.kind = "rates"} :
        e.pubkey = f.pubkey /\ e.stamp \div RATES_BUCKET_SECS = f.stamp \div RATES_BUCKET_SECS
            => e = f \/ e \in overlooked \/ f \in overlooked

\* A rebuild, once started, does not run for ever, however much is ingested
\* beside it (rebuild.rs:62).
RebuildEnds == pc # "idle" ~> pc = "idle"

-----------------------------------------------------------------------------
(* What the documents say and the code does not do.                        *)

\* docs/SPEC.md:676: what an instance announces is fully described by the
\* versions that changed, so at the moment of a dropped announcement the
\* version in force (fee_in_force's lookup) says what it said.
HeartbeatDescribed ==
    \A h \in {g \in heartbeats : g.kind = "info"} :
        LET known == {f \in events : /\ f.pubkey = h.pubkey /\ f.kind = h.kind
                                     /\ f.key = h.key /\ f.at <= h.at}
        IN  known # {} /\ Newest(known).body = h.body
=============================================================================
