------------------------------- MODULE Tables -------------------------------
(***************************************************************************)
(* The database of bestiario as values, and its repository functions as    *)
(* operators on those values: what one SQL statement of src/db/repo reads  *)
(* or leaves behind.  Nothing here is a step; the modules that extend this *)
(* one decide which statements share a transaction.                        *)
(*                                                                         *)
(* An event is a record.  A row that is a function of one event (a row of  *)
(* events, order_versions, dispute_versions, dev_fees, instance_info or    *)
(* rates) is represented by the event itself, so a table of such rows is a *)
(* set of events, and the five version tables are the parts of one set     *)
(* that the kinds cut it into.                                             *)
(***************************************************************************)
EXTENDS Integers, FiniteSets, FiniteSetsExt

CONSTANTS
    Events,             \* every event some relay may ever deliver
    Pubkeys,            \* the keys that publish
    Relays,             \* relay urls
    Keys,               \* d tags: order ids and dispute ids
    Names,              \* instance names
    Networks,           \* the networks an event may name
    Horizon,            \* the latest created_at (i64 in the code)
    RATES_BUCKET_SECS,  \* how finely rate snapshots are kept
    None                \* SQL NULL, and the absence of a row

Kinds == {"order", "dev_fee", "dispute", "info", "rates", "relay_list"}

Statuses == {"pending", "in_progress", "success", "canceled"}

\* The kinds that have a version table: a relay list is taken apart into
\* the relays it names and leaves no row of its own.
VersionedKinds == Kinds \ {"relay_list"}

\* One published event, reduced to what the pipeline decides on.  stamp is
\* the time a kind carries besides created_at: order_created_at, opened_at
\* or a snapshot's published_at.  body stands for the content and the tags
\* taken as a set.
EventRecords ==
    [ id        : Nat,
      pubkey    : Pubkeys,
      kind      : Kinds,
      at        : 0 .. Horizon,
      verified  : BOOLEAN,
      mostro    : BOOLEAN,
      network   : Networks \cup {None, "malformed"},
      name      : Names \cup {None},
      key       : Keys,
      status    : Statuses,
      stamp     : Nat \cup {None},
      initiator : {"buyer", "seller", None},
      body      : Nat,
      urls      : SUBSET Relays ]

ASSUME EventsAssumption ==
    /\ Events \subseteq EventRecords
    /\ \A e, f \in Events : e.id = f.id => e = f
    /\ \A e \in Events : e.kind = "rates" => e.stamp \in Nat

ASSUME ConstantsAssumption ==
    /\ Horizon \in Nat
    /\ RATES_BUCKET_SECS \in Nat \ {0}
    /\ None \notin Pubkeys \cup Names \cup Networks \cup Nat

\* ORDER BY created_at DESC, event_id ASC LIMIT 1.  An id is hex text in the
\* code and a number here: all that is ever used of it is its order.
Newest(V) ==
    CHOOSE v \in V : \A w \in V :
        \/ w.at < v.at
        \/ w.at = v.at /\ v.id <= w.id

\* ORDER BY created_at, event_id LIMIT 1
Oldest(V) ==
    CHOOSE v \in V : \A w \in V :
        \/ v.at < w.at
        \/ v.at = w.at /\ v.id <= w.id

\* SQL MIN: the least value, NULL when there is none.
MinOrNone(S) == IF S = {} THEN None ELSE Min(S)

-----------------------------------------------------------------------------
(* orders and disputes: the projections of the version tables.             *)

VersionsOf(versions, kind, key) ==
    {v \in versions : v.kind = kind /\ v.key = key}

\* The columns copied from the latest version are represented by it.
ProjectOrder(V) ==
    [ latest           |-> Newest(V),
      first_seen_at    |-> MinOrNone({v.at : v \in V}),
      last_updated_at  |-> Newest(V).at,
      success_at       |-> MinOrNone({v.at : v \in {w \in V : w.status = "success"}}),
      canceled_at      |-> MinOrNone({v.at : v \in {w \in V : w.status = "canceled"}}),
      order_created_at |-> MinOrNone({v.stamp : v \in V} \ {None}) ]

\* A fault: an insert that leaves an existing row alone.
InsertOrderOnly(orders, versions, o) ==
    LET V == VersionsOf(versions, "order", o)
    IN  IF V = {} \/ orders[o] # None THEN orders
        ELSE [orders EXCEPT ![o] = ProjectOrder(V)]

RefreshOrder(orders, versions, o) ==
    LET V == VersionsOf(versions, "order", o)
    IN  IF V = {} THEN orders ELSE [orders EXCEPT ![o] = ProjectOrder(V)]

\* opened_at and initiator come from the newest version that names one.
ProjectDispute(V) ==
    LET opened == {v \in V : v.stamp # None}
        blamed == {v \in V : v.initiator # None}
    IN  [ latest          |-> Newest(V),
          last_updated_at |-> Newest(V).at,
          opened_at       |-> IF opened = {} THEN None ELSE Newest(opened).stamp,
          initiator       |-> IF blamed = {} THEN None ELSE Newest(blamed).initiator ]

RefreshDispute(disputes, versions, d) ==
    LET V == VersionsOf(versions, "dispute", d)
    IN  IF V = {} THEN disputes ELSE [disputes EXCEPT ![d] = ProjectDispute(V)]

\* A fault: two fees of one second are both the earliest.
FlagLater(duplicates, versions, o) ==
    LET fees == VersionsOf(versions, "dev_fee", o)
    IN  {d \in duplicates : d.key # o} \cup {f \in fees : f.at > Oldest(fees).at}

\* dev_fees.is_duplicate, as the set of the rows that carry the flag.
RefreshDuplicates(duplicates, versions, o) ==
    LET fees == VersionsOf(versions, "dev_fee", o)
    IN  {d \in duplicates : d.key # o} \cup {f \in fees : f # Oldest(fees)}

-----------------------------------------------------------------------------
(* instances, instance_names, relays and sync_state.                       *)

\* A fault: the name is whatever was ingested last.
LastNameWins(instances, p, name, t) ==
    LET old == instances[p]
        row == [ first_seen_at |-> IF old = None \/ t < old.first_seen_at
                                   THEN t ELSE old.first_seen_at,
                 last_seen_at  |-> IF old = None \/ t > old.last_seen_at
                                   THEN t ELSE old.last_seen_at,
                 name          |-> IF name # None THEN name
                                   ELSE IF old = None THEN None ELSE old.name,
                 name_seen_at  |-> IF name # None THEN t
                                   ELSE IF old = None THEN None ELSE old.name_seen_at ]
    IN  [instances EXCEPT ![p] = row]

\* A row of instances for pubkey p, made or widened by an event at t.
UpsertInstance(instances, p, name, t) ==
    LET old  == instances[p]
        wins == old = None \/ old.name_seen_at = None \/ t >= old.name_seen_at
        row  == [ first_seen_at |-> IF old = None \/ t < old.first_seen_at
                                    THEN t ELSE old.first_seen_at,
                  last_seen_at  |-> IF old = None \/ t > old.last_seen_at
                                    THEN t ELSE old.last_seen_at,
                  name          |-> IF name # None /\ wins THEN name
                                    ELSE IF old = None THEN None ELSE old.name,
                  name_seen_at  |-> IF name # None /\ wins THEN t
                                    ELSE IF old = None THEN None ELSE old.name_seen_at ]
    IN  [instances EXCEPT ![p] = row]

\* instance_names: the latest sighting of each name of each instance.
RecordName(instance_names, p, name, t) ==
    LET old == instance_names[p][name]
    IN  IF old # None /\ old >= t THEN instance_names
        ELSE [instance_names EXCEPT ![p][name] = t]

\* relays: the first source to name a url keeps it.
UpsertRelays(relays, urls, source) ==
    [u \in Relays |-> IF u \in urls /\ relays[u] = None THEN source ELSE relays[u]]

\* sync_state.last_created_at, -1 for a cursor that does not exist.
Advance(sync_state, r, kind, t) ==
    IF t > sync_state[r][kind] THEN [sync_state EXCEPT ![r][kind] = t] ELSE sync_state

-----------------------------------------------------------------------------
(* The two questions the pipeline asks of the tables before it writes.     *)

\* A row in one of the four tables whose kinds carry the platform tag.
IsPlatformProven(versions, p) ==
    \E v \in versions : v.pubkey = p /\ v.kind # "rates"

\* A fault: the first second of the bucket is left out of it.
OpenBucket(versions, e) ==
    LET bucket == e.stamp - (e.stamp % RATES_BUCKET_SECS)
    IN  \E v \in versions :
           /\ v.kind = "rates" /\ v.pubkey = e.pubkey /\ v.id # e.id
           /\ v.stamp > bucket /\ v.stamp < bucket + RATES_BUCKET_SECS

\* Another snapshot of the same publisher is held in the same bucket.
InHeldBucket(versions, e) ==
    LET bucket == e.stamp - (e.stamp % RATES_BUCKET_SECS)
    IN  \E v \in versions :
           /\ v.kind = "rates" /\ v.pubkey = e.pubkey /\ v.id # e.id
           /\ v.stamp >= bucket /\ v.stamp < bucket + RATES_BUCKET_SECS

\* A fault: the comparison is with the latest announcement, whenever that is.
RepeatsLatest(events, e) ==
    LET others == {f \in events : /\ f.pubkey = e.pubkey /\ f.kind = e.kind
                                  /\ f.key = e.key /\ f.id # e.id}
    IN  others # {} /\ Newest(others).body = e.body

\* The archived announcement that e follows says the same.
RepeatsPrevious(events, e) ==
    LET earlier == {f \in events : /\ f.pubkey = e.pubkey /\ f.kind = e.kind
                                   /\ f.key = e.key /\ f.at <= e.at /\ f.id # e.id}
    IN  earlier # {} /\ Newest(earlier).body = e.body

\* Step 6a: a heartbeat that repeats what is already held.
IsRedundant(events, versions, e) ==
    \/ e.kind = "rates" /\ InHeldBucket(versions, e)
    \/ e.kind \in {"info", "relay_list"} /\ RepeatsPrevious(events, e)
=============================================================================
