------------------------------ MODULE Publish ------------------------------
(***************************************************************************)
(* `publish` (src/commands/publish.rs, src/db/repo/published.rs and the    *)
(* publish half of crates/stats): a run reads the archive, computes every  *)
(* document of a snapshot, decides each one's revision against what was    *)
(* last recorded, sends what changed, the index last, and records.         *)
(*                                                                         *)
(* The worker of deploy/replicated.sh runs one publication at a time.      *)
(* Beside it the archive is written to and rebuilt, relays take or refuse  *)
(* what they are sent, their answers get lost, and they prune.             *)
(*                                                                         *)
(* A document is its figures: the payload is the set of rows it counts,    *)
(* the coverage it was computed under and the clock where a figure is an   *)
(* age, and stands for its own hash.  Every created_at is earlier than the *)
(* clock.                                                                  *)
(***************************************************************************)
EXTENDS Integers, FiniteSets, FiniteSetsExt

CONSTANTS
    Events,             \* what may be archived: records with kind and at
    Kinds,              \* the kinds a snapshot reads
    SINGLE_COPY_KINDS,  \* those a relay keeps one event of
    Relays,             \* [publish].relays
    Windows,            \* the addresses of window documents
    Partitions,         \* the addresses of series partitions
    Period,             \* the span of each partition, half-open
    Ageing,             \* the pairs of window document and kind whose rows it gives an age:
                        \* how long a dispute is open, how long an instance is silent
    Clocks,             \* the timestamps a run may carry
    Versions,           \* the schema versions that are ever deployed
    Rebuilds,           \* a rebuild may run beside a publication
    Prunes,             \* relays may drop what they hold
    None

Addresses == Windows \cup Partitions

ASSUME PublishAssumption ==
    /\ \A e \in Events : e.kind \in Kinds /\ e.at \in Nat
    /\ SINGLE_COPY_KINDS \subseteq Kinds
    /\ Windows \cap Partitions = {} /\ "index" \notin Addresses
    /\ \A p \in Partitions : Period[p].from \in Nat /\ Period[p].until \in Nat
    /\ Clocks \subseteq Nat /\ Versions \subseteq Nat \ {0} /\ 1 \in Versions
    /\ Rebuilds \in BOOLEAN /\ Prunes \in BOOLEAN
    /\ IsFiniteSet(Kinds)

Extents == [floor : Nat \cup {None}, latest : Nat \cup {None}]
Payloads == [schema : Versions, span : Extents \cup SUBSET Nat, rows : SUBSET Events,
             clock : Nat]
Reasons == {"backfill", "rebuild", "schema", None}

\* The rows of published_documents and of publication_runs, and what a relay
\* serves of either kind.
DocumentRows == [hash : Payloads, revision : Nat \ {0}, updated_at : Nat, because : Reasons]
RunRows == [generated_at : Nat, schema : Versions, floor : Nat \cup {None}, events : Nat]
Documents == [at : Nat, hash : Payloads, revision : Nat \ {0}]
Indexes == [at : Nat, documents : UNION {[D -> Payloads] : D \in SUBSET Addresses}]

\* No value is not a value, and no row is not a row.
ASSUME NoneAssumption ==
    None \notin Nat \cup {"backfill", "rebuild", "schema"} \cup DocumentRows \cup RunRows
                \cup Documents \cup Indexes

VARIABLES
    archive,              \* events
    projected,            \* the archived events whose derived rows are there to read
    indexed_from,         \* indexed_kinds
    schema,               \* SCHEMA_VERSION of the deployed release
    published_documents,  \* the row of each address, None if it has none
    latest_run,           \* the newest row of publication_runs
    served,               \* what each relay serves under each address
    pc,                   \* where the run is
    now,                  \* its timestamp
    republish,            \* the addresses it sends whether or not they changed
    coverage,             \* the extent it read
    loading,              \* the kinds it has yet to read
    loaded,               \* the rows it has loaded
    counted,              \* how many events it found in the archive
    state,                \* the row each computed address will leave behind
    not_sent,             \* the addresses that are skipped
    pending,              \* the documents on their way
    refusals,             \* the documents no relay acknowledged
    stray,                \* history: the latest timestamp of a run that was never recorded
                          \* and may have sent its index
    missing,              \* history: the events archived but not projected at some moment
                          \* of the reading
    delivered,            \* history: the addresses this run put on a relay
    spoiled,              \* history: addresses a run that was never recorded, or a relay
                          \* that prunes or has a later copy, left at odds with the row
    overtaken             \* history: addresses sent by a run no later than stray

database == <<archive, projected, indexed_from, schema>>
record == <<published_documents, latest_run>>
reading == <<coverage, loading, loaded, counted, missing>>
snapshot == <<now, republish, state, not_sent>>
sending == <<pending, refusals, delivered>>
history == <<stray, spoiled, overtaken>>
vars == <<database, record, served, pc, reading, snapshot, sending, history>>

Nowhere == [floor |-> None, latest |-> None]

Init ==
    /\ archive = {} /\ projected = {}
    /\ indexed_from \in [Kinds -> {0, None}]
    /\ schema = 1
    /\ published_documents = [d \in Addresses |-> None] /\ latest_run = None
    /\ served = [r \in Relays |-> [d \in Addresses \cup {"index"} |-> None]]
    /\ pc = "idle" /\ now = 0 /\ republish = {}
    /\ coverage = Nowhere /\ loading = {} /\ loaded = {} /\ counted = 0
    /\ state = << >> /\ not_sent = {} /\ pending = {} /\ refusals = {}
    /\ stray = 0 /\ missing = {}
    /\ delivered = {} /\ spoiled = {} /\ overtaken = {}
-----------------------------------------------------------------------------
(* What the archive can speak for.                                         *)

FirstOf(S) == IF S = {} THEN None ELSE Min({e.at : e \in S})

\* kind_floor: the earliest event of the kind, or what was asked for; for a
\* kind relays keep one event of, the other way round.
KindFloor(k) ==
    LET first == FirstOf({e \in archive : e.kind = k})
    IN  IF k \in SINGLE_COPY_KINDS
        THEN IF indexed_from[k] # None THEN indexed_from[k] ELSE first
        ELSE IF first # None THEN first ELSE indexed_from[k]

LatestCreatedAt == IF archive = {} THEN None ELSE Max({e.at : e \in archive})

\* Coverage::covers: the half-open span overlaps what is held.
Covers(from, until) ==
    /\ coverage.floor # None /\ until > coverage.floor
    /\ coverage.latest = None \/ from <= coverage.latest

-----------------------------------------------------------------------------
(* The documents.                                                          *)

\* Snapshot::compute: every window document, and the partitions that are not
\* entirely outside coverage.
Computed == Windows \cup {p \in Partitions : Covers(Period[p].from, Period[p].until)}

\* A window document carries its range, which ends at the archive's latest
\* event or, with none, at the clock, and figures over every row that was
\* loaded: the counts of what is live now and the deltas read beyond the
\* range, and an age counts to the clock.  A partition has a row per bucket,
\* null where nothing is covered.
Payload(d) ==
    IF d \in Windows
    THEN [schema |-> schema, span |-> coverage, rows |-> loaded,
          clock |-> IF coverage.latest = None \/ \E e \in loaded : <<d, e.kind>> \in Ageing
                    THEN now ELSE 0]
    ELSE LET covered == {t \in Period[d].from .. Period[d].until - 1 : Covers(t, t + 1)}
         IN  [schema |-> schema, span |-> covered, rows |-> {e \in loaded : e.at \in covered},
              clock |-> 0]

\* Because::inferred
Because ==
    IF latest_run = None THEN "rebuild"
    ELSE IF latest_run.schema # schema THEN "schema"
    ELSE IF \/ coverage.floor # None /\ latest_run.floor = None
            \/ /\ coverage.floor # None /\ latest_run.floor # None
               /\ coverage.floor < latest_run.floor
            \/ counted > latest_run.events
         THEN "backfill" ELSE "rebuild"

\* A fault: the revision goes up and says nothing of why.
RestateSilently(d) ==
    LET previous == published_documents[d]
        payload  == Payload(d)
    IN  IF previous = None
        THEN [hash |-> payload, revision |-> 1, updated_at |-> now, because |-> None]
        ELSE IF previous.hash = payload THEN previous
        ELSE [hash |-> payload, revision |-> previous.revision + 1, updated_at |-> now,
              because |-> None]

\* Snapshot::against: one document against its own history.
Against(d) ==
    LET previous == published_documents[d]
        payload  == Payload(d)
    IN  IF previous = None
        THEN [hash |-> payload, revision |-> 1, updated_at |-> now, because |-> None]
        ELSE IF previous.hash = payload THEN previous
        ELSE [hash |-> payload, revision |-> previous.revision + 1, updated_at |-> now,
              because |-> Because]

Unchanged(d) == published_documents[d] # None /\ published_documents[d].hash = Payload(d)

\* sends_unchanged: nothing, everything, or the partitions a range touches.
Republications ==
    {{}, Addresses} \cup
    {{p \in Partitions : Period[p].from < until /\ from < Period[p].until} :
        from \in {Period[p].from : p \in Partitions}, until \in {Period[p].until : p \in Partitions}}

-----------------------------------------------------------------------------
(* One run.                                                                *)

\* refuse_stalled_clock, and the first query of earliest_created_at.
Begin(t, force) ==
    /\ pc = "idle"
    /\ latest_run # None => t > latest_run.generated_at
    /\ now' = t /\ republish' = force
    /\ coverage' = [floor |-> FirstOf(archive), latest |-> None]
    /\ loading' = IF archive = {} THEN {} ELSE Kinds
    /\ loaded' = {} /\ counted' = 0 /\ missing' = {}
    /\ pc' = "extent"
    /\ UNCHANGED <<database, record, served, state, not_sent, sending, history>>

\* The rest of earliest_created_at, kind by kind: the latest of the floors,
\* and none at all as soon as a kind has none.
ReadFloor(k) ==
    /\ pc = "extent" /\ k \in loading
    /\ IF KindFloor(k) = None
       THEN coverage' = Nowhere /\ loading' = {}
       ELSE /\ coverage' = [coverage EXCEPT !.floor =
                               IF KindFloor(k) > @ THEN KindFloor(k) ELSE @]
            /\ loading' = loading \ {k}
    /\ UNCHANGED <<database, record, served, pc, loaded, counted, missing, snapshot, sending,
                   history>>

\* latest_created_at: the whole extent is read before the figures.
ReadCeiling ==
    /\ pc = "extent" /\ loading = {}
    /\ coverage' = [coverage EXCEPT !.latest = LatestCreatedAt]
    /\ missing' = archive \ projected
    /\ loading' = Kinds
    /\ pc' = "load"
    /\ UNCHANGED <<database, record, served, loaded, counted, snapshot, sending, history>>

\* load: one query per family, none of them in a transaction.
Load(k) ==
    /\ pc = "load"
    /\ k \in loading
    /\ loading' = loading \ {k}
    /\ loaded' = loaded \cup {e \in projected : e.kind = k}
    /\ UNCHANGED <<database, record, served, pc, coverage, counted, missing, snapshot,
                   sending, history>>

\* A fault: the ceiling is read after the figures.
CountLast ==
    /\ pc = "load" /\ loading = {}
    /\ counted' = Cardinality(archive)
    /\ coverage' = [coverage EXCEPT !.latest = LatestCreatedAt]
    /\ pc' = "compute"
    /\ UNCHANGED <<database, record, served, loading, loaded, missing, snapshot, sending,
                   history>>

\* The history is read, and the events counted.
Count ==
    /\ pc = "load" /\ loading = {}
    /\ counted' = Cardinality(archive)
    /\ pc' = "compute"
    /\ UNCHANGED <<database, record, served, coverage, loading, loaded, missing, snapshot,
                   sending, history>>

\* Snapshot::restated: revisions, and what is not sent.
Compute ==
    /\ pc = "compute"
    /\ state' = [d \in Computed |-> Against(d)]
    /\ not_sent' = {d \in Computed : Unchanged(d) /\ d \notin republish}
    /\ pending' = Computed \ not_sent'
    /\ refusals' = {} /\ delivered' = {}
    /\ pc' = "send"
    /\ UNCHANGED <<database, record, served, reading, now, republish, history>>

\* A relay keeps the later of two events under one address.  Of two that
\* carry the same second it keeps the lower id, which may be either.
Keeps(old, new, tie) == old = None \/ new.at > old.at \/ (new.at = old.at /\ tie)

\* The signed document d reaches the relays in S, and those in A say so in
\* time, whether they keep it or have a later one.
Send(d, S, A, tie) ==
    LET event == [at |-> now, hash |-> state[d].hash, revision |-> state[d].revision]
        kept  == [r \in Relays |->
                    IF r \in S /\ Keeps(served[r][d], event, tie)
                    THEN [served[r] EXCEPT ![d] = event] ELSE served[r]]
    IN
    /\ pc = "send"
    /\ d \in pending
    /\ served' = kept
    /\ pending' = pending \ {d}
    /\ refusals' = IF A = {} THEN refusals \cup {d} ELSE refusals
    /\ delivered' = IF S = {} THEN delivered ELSE delivered \cup {d}
    /\ spoiled' = IF A = {} THEN spoiled
                  ELSE IF \E r \in A : kept[r][d] = event THEN spoiled \ {d}
                  ELSE spoiled \cup {d}
    /\ overtaken' = IF now <= stray /\ S # {} THEN overtaken \cup {d}
                    ELSE IF \E r \in A : kept[r][d] = event THEN overtaken \ {d}
                    ELSE overtaken
    /\ UNCHANGED <<database, record, pc, reading, snapshot, stray>>

\* A fault: a document that nobody took does not hold the index back.
SendIndexAnyway(S, A, tie) ==
    LET index == [at |-> now, documents |-> [d \in DOMAIN state |-> state[d].hash]] IN
    /\ pc = "send" /\ pending = {}
    /\ served' = [r \in Relays |->
                    IF r \in S /\ Keeps(served[r]["index"], index, tie)
                    THEN [served[r] EXCEPT !["index"] = index] ELSE served[r]]
    /\ pc' = IF A = {} THEN "failed" ELSE "record"
    /\ UNCHANGED <<database, record, reading, snapshot, sending, history>>

\* The index, once nothing is left to send and somebody took all of it.
SendIndex(S, A, tie) ==
    LET index == [at |-> now, documents |-> [d \in DOMAIN state |-> state[d].hash]] IN
    /\ pc = "send" /\ pending = {} /\ refusals = {}
    /\ served' = [r \in Relays |->
                    IF r \in S /\ Keeps(served[r]["index"], index, tie)
                    THEN [served[r] EXCEPT !["index"] = index] ELSE served[r]]
    /\ pc' = IF A = {} THEN "failed" ELSE "record"
    /\ UNCHANGED <<database, record, reading, snapshot, sending, history>>

\* Nothing of the run is left behind but what the relays hold.
Over ==
    /\ pc' = "idle" /\ now' = 0 /\ republish' = {}
    /\ coverage' = Nowhere /\ loading' = {} /\ loaded' = {} /\ counted' = 0
    /\ missing' = {}
    /\ state' = << >> /\ not_sent' = {} /\ pending' = {} /\ refusals' = {} /\ delivered' = {}

\* A fault: the table is emptied and filled with what this run computed.
ReplaceTable ==
    /\ pc = "record"
    /\ published_documents' = [d \in Addresses |-> IF d \in DOMAIN state THEN state[d] ELSE None]
    /\ latest_run' = [generated_at |-> now, schema |-> schema, floor |-> coverage.floor,
                      events |-> counted]
    /\ Over
    /\ UNCHANGED <<database, served, history>>

\* record: every address computed and the run itself, in one transaction.
Record ==
    /\ pc = "record"
    /\ published_documents' = [d \in Addresses |->
            IF d \in DOMAIN state THEN state[d] ELSE published_documents[d]]
    /\ latest_run' = IF latest_run = None \/ now >= latest_run.generated_at
                     THEN [generated_at |-> now, schema |-> schema, floor |-> coverage.floor,
                           events |-> counted]
                     ELSE latest_run
    /\ Over
    /\ UNCHANGED <<database, served, history>>

\* A document is oversized, no relay answers, nobody took a document or the
\* index, the database fails, or the process dies: the run ends unrecorded.
Fail ==
    /\ pc # "idle"
    /\ spoiled' = spoiled \cup delivered
    /\ stray' = IF pc \in {"failed", "record"} /\ now > stray THEN now ELSE stray
    /\ Over
    /\ UNCHANGED <<database, record, served, overtaken>>

-----------------------------------------------------------------------------
(* Beside it.                                                              *)

Witness == missing' = IF pc = "load" THEN missing \cup (archive' \ projected') ELSE missing

\* The pipeline stores an event.
Ingest(e) ==
    /\ e \notin archive
    /\ archive' = archive \cup {e} /\ projected' = projected \cup {e}
    /\ Witness
    /\ UNCHANGED <<indexed_from, schema, record, served, pc, coverage, loading, loaded, counted,
                   snapshot, sending, history>>

\* A rebuild empties what is derived, and derives it again event by event.
RebuildClears ==
    /\ Rebuilds
    /\ projected # {}
    /\ projected' = {} /\ UNCHANGED archive
    /\ Witness
    /\ UNCHANGED <<indexed_from, schema, record, served, pc, coverage, loading, loaded,
                   counted, snapshot, sending, history>>

RebuildReplays(e) ==
    /\ Rebuilds
    /\ e \in archive \ projected
    /\ projected' = projected \cup {e} /\ UNCHANGED archive
    /\ Witness
    /\ UNCHANGED <<indexed_from, schema, record, served, pc, coverage, loading, loaded,
                   counted, snapshot, sending, history>>

\* A kind is asked for, from the beginning.
Ask(k) ==
    /\ indexed_from[k] = None
    /\ indexed_from' = [indexed_from EXCEPT ![k] = 0]
    /\ UNCHANGED <<archive, projected, schema, record, served, pc, reading, snapshot, sending,
                   history>>

\* A release with a new document format is deployed.
Release ==
    /\ pc = "idle"
    /\ schema + 1 \in Versions
    /\ schema' = schema + 1
    /\ UNCHANGED <<archive, projected, indexed_from, record, served, pc, reading, snapshot,
                   sending, history>>

Prune(r, d) ==
    /\ Prunes
    /\ served[r][d] # None
    /\ served' = [served EXCEPT ![r][d] = None]
    /\ spoiled' = spoiled \cup {d}
    /\ UNCHANGED <<database, record, pc, reading, snapshot, sending, stray, overtaken>>

Next ==
    \/ \E t \in Clocks, force \in Republications : Begin(t, force)
    \/ \E k \in Kinds : ReadFloor(k) \/ Load(k)
    \/ ReadCeiling
    \/ Count
    \/ Compute
    \/ \E S \in SUBSET Relays : \E A \in SUBSET S, tie \in BOOLEAN :
          \/ \E d \in Addresses : Send(d, S, A, tie)
          \/ SendIndex(S, A, tie)
    \/ Record
    \/ Fail
    \/ \E e \in Events : Ingest(e) \/ RebuildReplays(e)
    \/ RebuildClears
    \/ \E k \in Kinds : Ask(k)
    \/ Release
    \/ \E r \in Relays, d \in Addresses : Prune(r, d)

Spec == Init /\ [][Next]_vars
-----------------------------------------------------------------------------
(* Properties.                                                             *)

\* Every row is one of its table's, and a document above the first revision
\* carries a reason.
TypeOK ==
    /\ projected \subseteq archive /\ archive \subseteq Events
    /\ indexed_from \in [Kinds -> {0, None}]
    /\ schema \in Versions
    /\ \A d \in Addresses : published_documents[d] # None =>
          /\ published_documents[d].revision \in Nat \ {0}
          /\ published_documents[d].because \in Reasons
          /\ published_documents[d].revision = 1 <=> published_documents[d].because = None
    /\ pc \in {"idle", "extent", "load", "compute", "send", "failed", "record"}
    /\ coverage \in Extents
    /\ loading \subseteq Kinds /\ loaded \subseteq Events /\ counted \in Nat
    /\ DOMAIN state \subseteq Addresses
    /\ not_sent \cup pending \cup refusals \subseteq DOMAIN state
    /\ delivered \subseteq DOMAIN state /\ spoiled \cup overtaken \subseteq Addresses

\* Some relay serves d with what the index names, or with something sent no
\* earlier than the index.
Honoured(index, d) ==
    \E r \in Relays : /\ served[r][d] # None
                      /\ \/ served[r][d].hash = index.documents[d]
                         \/ served[r][d].at >= index.at

\* An index on a relay is a promise that the documents it names are there
\* (publish.rs:21), whatever was refused, lost or left half done, but for an
\* address that an unrecorded run or a pruning touched since it was last
\* taken, or that was acknowledged by relays that kept a later copy, and,
\* where the index of an unrecorded run is in the way, one that a run with an
\* earlier clock has replaced: the clock guard (publish.rs:211) compares with
\* recorded runs alone.
IndexPromise ==
    \A r \in Relays : served[r]["index"] # None =>
        \A d \in DOMAIN served[r]["index"].documents \ spoiled :
            \/ Honoured(served[r]["index"], d)
            \/ served[r]["index"].at <= stray /\ d \in overtaken

\* A row follows another: the same revision for the same figures, the next one
\* for others.
Follows(old, new) ==
    /\ new # None
    /\ new.revision = IF new.hash = old.hash THEN old.revision ELSE old.revision + 1

\* Across runs the recorded revision of an address goes up by one when its
\* figures change and never otherwise, and is never forgotten, not even while
\* the address is outside coverage (published.rs:92).
RevisionCounts ==
    [][\A d \in Addresses : published_documents[d] # None =>
          Follows(published_documents[d], published_documents'[d])]_vars

\* An ingest beside the run never leaves the figures short of what the index
\* says it covers: the event at the ceiling is one of those that were loaded
\* (publish.rs:300), unless a rebuild was under way.
CeilingLoaded ==
    pc = "compute" /\ coverage.latest # None /\ missing = {} =>
        \E e \in loaded : e.at = coverage.latest

-----------------------------------------------------------------------------
(* What the documents say and the code does not do.                        *)

\* publish.rs:21: an index on a relay is a promise that the documents it
\* names are already there.
PromiseKept ==
    \A r \in Relays : served[r]["index"] # None =>
        \A d \in DOMAIN served[r]["index"].documents : Honoured(served[r]["index"], d)
=============================================================================
