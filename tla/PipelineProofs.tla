--------------------------- MODULE PipelineProofs ---------------------------
(***************************************************************************)
(* Proofs about the pipeline, for every set of events, publishers, relays  *)
(* and ingesters: what the tables hold has its type; nothing enters the    *)
(* archive or the relay table on the word of a publisher nobody vouched    *)
(* for; and every derived table is a function of the archive whenever no   *)
(* rebuild is owed, although a rebuild is many transactions, may die       *)
(* between any two of them, and runs beside ingesters.  With that, the     *)
(* pipeline implements the promise of module Archive.                      *)
(***************************************************************************)
EXTENDS Refinement, NumberFacts

-----------------------------------------------------------------------------
(* Lemmas about the queries that pick one row out of several.              *)

\* A query ordered by created_at descending and then by id returns one of
\* the rows it ranges over.
LEMMA NewestType ==
    ASSUME NEW V \in SUBSET Events, V # {}
    PROVE  Newest(V) \in V
<1> USE EventsAssumption, ConstantsAssumption DEF EventRecords
<1> DEFINE ages == {Horizon - v.at : v \in V}
<1>1. PICK a \in ages : \A b \in ages : a <= b
  <2>1. ages \in SUBSET Nat /\ ages # {}
    OBVIOUS
  <2> QED BY <2>1, NatLeast
<1>2. PICK last \in V : a = Horizon - last.at
  OBVIOUS
<1>3. \A w \in V : w.at <= last.at
  BY <1>1, <1>2
<1> DEFINE ids == {v.id : v \in {w \in V : w.at = last.at}}
<1>4. PICK i \in ids : \A j \in ids : i <= j
  <2>1. ids \in SUBSET Nat /\ ids # {}
    OBVIOUS
  <2> QED BY <2>1, NatLeast
<1>5. PICK v \in V : v.at = last.at /\ v.id = i
  OBVIOUS
<1>6. \A w \in V : w.at < v.at \/ (w.at = v.at /\ v.id <= w.id)
  BY <1>3, <1>4, <1>5
<1> QED BY <1>5, <1>6 DEF Newest

\* So does one ordered by created_at and id.
LEMMA OldestType ==
    ASSUME NEW V \in SUBSET Events, V # {}
    PROVE  Oldest(V) \in V
<1> USE EventsAssumption, ConstantsAssumption DEF EventRecords
<1> DEFINE times == {v.at : v \in V}
<1>1. PICK t \in times : \A b \in times : t <= b
  <2>1. times \in SUBSET Nat /\ times # {}
    OBVIOUS
  <2> QED BY <2>1, NatLeast
<1>2. PICK first \in V : t = first.at
  OBVIOUS
<1>3. \A w \in V : first.at <= w.at
  BY <1>1, <1>2
<1> DEFINE ids == {v.id : v \in {w \in V : w.at = first.at}}
<1>4. PICK i \in ids : \A j \in ids : i <= j
  <2>1. ids \in SUBSET Nat /\ ids # {}
    OBVIOUS
  <2> QED BY <2>1, NatLeast
<1>5. PICK v \in V : v.at = first.at /\ v.id = i
  OBVIOUS
<1>6. \A w \in V : v.at < w.at \/ (v.at = w.at /\ v.id <= w.id)
  BY <1>3, <1>4, <1>5
<1> QED BY <1>5, <1>6 DEF Oldest

\* MIN of a nullable column of times.
LEMMA MinOrNoneType ==
    ASSUME NEW T \in SUBSET Nat, NEW S \in SUBSET T
    PROVE  MinOrNone(S) \in T \cup {None}
BY MinType DEF MinOrNone

\* The projection of a set of versions is a row of orders.
LEMMA ProjectOrderType ==
    ASSUME NEW V \in SUBSET Events, V # {}
    PROVE  ProjectOrder(V) \in OrderRows
<1> USE EventsAssumption, ConstantsAssumption DEF EventRecords
<1>1. Newest(V) \in Events
  BY NewestType
<1>2. MinOrNone({v.at : v \in V}) \in 0 .. Horizon
  <2>1. {v.at : v \in V} \subseteq 0 .. Horizon /\ {v.at : v \in V} # {}
    OBVIOUS
  <2> QED BY <2>1, MinType DEF MinOrNone
<1>3. MinOrNone({v.at : v \in {w \in V : w.status = "success"}}) \in (0 .. Horizon) \cup {None}
  <2>1. {v.at : v \in {w \in V : w.status = "success"}} \subseteq 0 .. Horizon
    OBVIOUS
  <2>2. 0 .. Horizon \subseteq Nat
    OBVIOUS
  <2> QED BY <2>1, <2>2, MinOrNoneType
<1>4. MinOrNone({v.at : v \in {w \in V : w.status = "canceled"}}) \in (0 .. Horizon) \cup {None}
  <2>1. {v.at : v \in {w \in V : w.status = "canceled"}} \subseteq 0 .. Horizon
    OBVIOUS
  <2>2. 0 .. Horizon \subseteq Nat
    OBVIOUS
  <2> QED BY <2>1, <2>2, MinOrNoneType
<1>5. MinOrNone({v.stamp : v \in V} \ {None}) \in Nat \cup {None}
  BY MinOrNoneType
<1> QED BY <1>1, <1>2, <1>3, <1>4, <1>5 DEF ProjectOrder, OrderRows

\* And a row of disputes.
LEMMA ProjectDisputeType ==
    ASSUME NEW V \in SUBSET Events, V # {}
    PROVE  ProjectDispute(V) \in DisputeRows
<1> DEFINE opened == {v \in V : v.stamp # None}
           blamed == {v \in V : v.initiator # None}
<1>1. Newest(V) \in Events /\ Newest(V).at \in 0 .. Horizon
  BY NewestType, EventsAssumption DEF EventRecords
<1>2. (IF opened = {} THEN None ELSE Newest(opened).stamp) \in Nat \cup {None}
  BY NewestType, EventsAssumption DEF EventRecords
<1>3. (IF blamed = {} THEN None ELSE Newest(blamed).initiator) \in {"buyer", "seller", None}
  BY NewestType, EventsAssumption DEF EventRecords
<1> QED BY <1>1, <1>2, <1>3 DEF ProjectDispute, DisputeRows

-----------------------------------------------------------------------------
(* Each table keeps its columns under the statement that writes it.        *)

\* Refreshing one order leaves a table of orders.
LEMMA RefreshOrderType ==
    ASSUME NEW T \in [Keys -> OrderRows \cup {None}], NEW V \in SUBSET Events, NEW o \in Keys
    PROVE  RefreshOrder(T, V, o) \in [Keys -> OrderRows \cup {None}]
<1>1. VersionsOf(V, "order", o) \in SUBSET Events
  BY DEF VersionsOf
<1>2. VersionsOf(V, "order", o) # {} =>
          ProjectOrder(VersionsOf(V, "order", o)) \in OrderRows
  BY <1>1, ProjectOrderType
<1> QED BY <1>2 DEF RefreshOrder

\* Refreshing one dispute leaves a table of disputes.
LEMMA RefreshDisputeType ==
    ASSUME NEW T \in [Keys -> DisputeRows \cup {None}], NEW V \in SUBSET Events,
           NEW d \in Keys
    PROVE  RefreshDispute(T, V, d) \in [Keys -> DisputeRows \cup {None}]
<1>1. VersionsOf(V, "dispute", d) \in SUBSET Events
  BY DEF VersionsOf
<1>2. VersionsOf(V, "dispute", d) # {} =>
          ProjectDispute(VersionsOf(V, "dispute", d)) \in DisputeRows
  BY <1>1, ProjectDisputeType
<1> QED BY <1>2 DEF RefreshDispute

\* Refreshing the flags of one order flags events and nothing else.
LEMMA RefreshDuplicatesType ==
    ASSUME NEW D, D \subseteq {e \in Events : e.kind = "dev_fee"},
           NEW V \in SUBSET Events, NEW o \in Keys
    PROVE  RefreshDuplicates(D, V, o) \subseteq {e \in Events : e.kind = "dev_fee"}
BY DEF RefreshDuplicates, VersionsOf

\* Upserting a publisher leaves a table of instances.
LEMMA UpsertInstanceType ==
    ASSUME NEW T \in [Pubkeys -> InstanceRows \cup {None}], NEW p \in Pubkeys,
           NEW name \in Names \cup {None}, NEW t \in 0 .. Horizon
    PROVE  UpsertInstance(T, p, name, t) \in [Pubkeys -> InstanceRows \cup {None}]
<1> DEFINE old  == T[p]
           wins == old = None \/ old.name_seen_at = None \/ t >= old.name_seen_at
           row  == [ first_seen_at |-> IF old = None \/ t < old.first_seen_at
                                       THEN t ELSE old.first_seen_at,
                     last_seen_at  |-> IF old = None \/ t > old.last_seen_at
                                       THEN t ELSE old.last_seen_at,
                     name          |-> IF name # None /\ wins THEN name
                                       ELSE IF old = None THEN None ELSE old.name,
                     name_seen_at  |-> IF name # None /\ wins THEN t
                                       ELSE IF old = None THEN None ELSE old.name_seen_at ]
<1>1. old \in InstanceRows \cup {None}
  OBVIOUS
<1>2. row \in InstanceRows
  BY <1>1 DEF InstanceRows
<1> HIDE DEF row
<1>3. [T EXCEPT ![p] = row] \in [Pubkeys -> InstanceRows \cup {None}]
  BY <1>2
<1> QED BY <1>3 DEF UpsertInstance, row

\* Recording a name leaves a name history.
LEMMA RecordNameType ==
    ASSUME NEW T \in [Pubkeys -> [Names -> (0 .. Horizon) \cup {None}]],
           NEW p \in Pubkeys, NEW name \in Names, NEW t \in 0 .. Horizon
    PROVE  RecordName(T, p, name, t) \in [Pubkeys -> [Names -> (0 .. Horizon) \cup {None}]]
BY DEF RecordName

\* Advancing a cursor leaves a table of cursors.
LEMMA AdvanceType ==
    ASSUME NEW T \in [Relays -> [Kinds -> -1 .. Horizon]],
           NEW r \in Relays, NEW k \in Kinds, NEW t \in 0 .. Horizon
    PROVE  Advance(T, r, k, t) \in [Relays -> [Kinds -> -1 .. Horizon]]
BY ConstantsAssumption DEF Advance

\* The writes of step 7, whichever transaction they are part of.
LEMMA PersistType ==
    ASSUME TypeOK, NEW e \in Events, Persist(e)
    PROVE  /\ versions' \subseteq {f \in Events : f.kind \in VersionedKinds}
           /\ orders' \in [Keys -> OrderRows \cup {None}]
           /\ disputes' \in [Keys -> DisputeRows \cup {None}]
           /\ duplicates' \subseteq {f \in Events : f.kind = "dev_fee"}
           /\ instances' \in [Pubkeys -> InstanceRows \cup {None}]
           /\ instance_names' \in [Pubkeys -> [Names -> (0 .. Horizon) \cup {None}]]
           /\ relays' \in [Relays -> Pubkeys \cup {"config", None}]
<1>1. /\ e.pubkey \in Pubkeys /\ e.key \in Keys /\ e.at \in 0 .. Horizon
      /\ e.name \in Names \cup {None}
  BY EventsAssumption DEF EventRecords
<1>2. versions' \subseteq {f \in Events : f.kind \in VersionedKinds}
  BY DEF TypeOK, Persist
<1>3. versions' \in SUBSET Events
  BY <1>2
<1>4. orders' \in [Keys -> OrderRows \cup {None}]
  BY <1>1, <1>3, RefreshOrderType DEF TypeOK, Persist
<1>5. disputes' \in [Keys -> DisputeRows \cup {None}]
  BY <1>1, <1>3, RefreshDisputeType DEF TypeOK, Persist
<1>6. duplicates' \subseteq {f \in Events : f.kind = "dev_fee"}
  BY <1>1, <1>3, RefreshDuplicatesType DEF TypeOK, Persist
<1>7. instances' \in [Pubkeys -> InstanceRows \cup {None}]
  BY <1>1, UpsertInstanceType DEF TypeOK, Persist
<1>8. instance_names' \in [Pubkeys -> [Names -> (0 .. Horizon) \cup {None}]]
  BY <1>1, RecordNameType DEF TypeOK, Persist
<1>9. relays' \in [Relays -> Pubkeys \cup {"config", None}]
  BY <1>1 DEF TypeOK, Persist, UpsertRelays
<1> QED BY <1>2, <1>4, <1>5, <1>6, <1>7, <1>8, <1>9

-----------------------------------------------------------------------------
(* Type correctness.                                                       *)

\* An empty database has its type.
LEMMA TypeOKInit == Init => TypeOK
<1> SUFFICES ASSUME Init PROVE TypeOK
  OBVIOUS
<1>1. sync_state \in [Relays -> [Kinds -> -1 .. Horizon]]
  BY ConstantsAssumption DEF Init
<1> QED BY <1>1, PolicyAssumption DEF Init, TypeOK, Pcs

\* Every statement of an ingest or a rebuild keeps the types of the tables.
LEMMA TypeOKNext == TypeOK /\ [Next]_vars => TypeOK'
<1> SUFFICES ASSUME TypeOK, [Next]_vars PROVE TypeOK'
  OBVIOUS
<1> USE DEF rebuilding, tables, history
<1>0. \A e \in Events : /\ e.pubkey \in Pubkeys /\ e.kind \in Kinds
                        /\ e.at \in 0 .. Horizon
  BY EventsAssumption DEF EventRecords
<1>1. ASSUME NEW i \in Ingesters, NEW e \in Events, NEW r \in Relays, Receive(i, e, r)
      PROVE  TypeOK'
  BY <1>1 DEF TypeOK, Receive
<1>2. ASSUME NEW i \in Ingesters, ArchiveUnreadable(i) PROVE TypeOK'
  BY <1>2 DEF TypeOK, ArchiveUnreadable
<1>3. ASSUME NEW i \in Ingesters, SkipRedundant(i) PROVE TypeOK'
  <2> DEFINE e == job[i].event
             r == job[i].relay
  <2>1. e \in Events /\ r \in Relays
    BY <1>3 DEF TypeOK, SkipRedundant
  <2>2. instances' \in [Pubkeys -> InstanceRows \cup {None}]
    BY <1>0, <1>3, <2>1, UpsertInstanceType DEF TypeOK, SkipRedundant
  <2>3. sync_state' \in [Relays -> [Kinds -> -1 .. Horizon]]
    BY <1>0, <1>3, <2>1, AdvanceType DEF TypeOK, SkipRedundant
  <2> QED BY <1>3, <2>1, <2>2, <2>3 DEF TypeOK, SkipRedundant
<1>4. ASSUME NEW i \in Ingesters, SkipDuplicate(i) PROVE TypeOK'
  <2>1. job[i].event \in Events /\ job[i].relay \in Relays
    BY <1>4 DEF TypeOK, SkipDuplicate
  <2>2. sync_state' \in [Relays -> [Kinds -> -1 .. Horizon]]
    BY <1>0, <1>4, <2>1, AdvanceType DEF TypeOK, SkipDuplicate
  <2> QED BY <1>4, <2>2 DEF TypeOK, SkipDuplicate
<1>5. ASSUME NEW i \in Ingesters, Store(i) PROVE TypeOK'
  <2> DEFINE e == job[i].event
             r == job[i].relay
  <2>1. e \in Events /\ r \in Relays
    BY <1>5 DEF TypeOK, Store
  <2>2. sync_state' \in [Relays -> [Kinds -> -1 .. Horizon]]
    BY <1>0, <1>5, <2>1, AdvanceType DEF TypeOK, Store
  <2>3. Persist(e)
    BY <1>5 DEF Store
  <2>4. /\ versions' \subseteq {f \in Events : f.kind \in VersionedKinds}
        /\ orders' \in [Keys -> OrderRows \cup {None}]
        /\ disputes' \in [Keys -> DisputeRows \cup {None}]
        /\ duplicates' \subseteq {f \in Events : f.kind = "dev_fee"}
        /\ instances' \in [Pubkeys -> InstanceRows \cup {None}]
        /\ instance_names' \in [Pubkeys -> [Names -> (0 .. Horizon) \cup {None}]]
        /\ relays' \in [Relays -> Pubkeys \cup {"config", None}]
    BY <2>1, <2>3, PersistType
  <2> QED BY <1>5, <2>1, <2>2, <2>4 DEF TypeOK, Store
<1>6. ASSUME NEW i \in Ingesters, Fail(i) PROVE TypeOK'
  BY <1>6 DEF TypeOK, Fail
<1>7. ASSUME NEW u \in Relays, Connect(u) PROVE TypeOK'
  BY <1>7 DEF TypeOK, Connect, UpsertRelays
<1>8. ASSUME NEW fromRaw \in RebuildModes, StartRebuild(fromRaw) PROVE TypeOK'
  BY <1>8 DEF TypeOK, StartRebuild, Pcs
<1>9. CASE ClearVersions
  BY <1>9 DEF TypeOK, ClearVersions, AfterClear, Pcs, VersionedKinds, Kinds
<1>10. CASE ClearOrders \/ ClearDisputes
  BY <1>10 DEF TypeOK, ClearOrders, ClearDisputes, Pcs
<1>11. CASE ClearInstanceNames \/ ClearInstances
  BY <1>11 DEF TypeOK, ClearInstanceNames, ClearInstances, Pcs
<1>12. CASE LoadArchive
  BY <1>12 DEF TypeOK, LoadArchive, Pcs
<1>13. CASE Replay
  <2> DEFINE e == Oldest(replaying)
  <2>1. e \in Events
    BY <1>13, OldestType DEF TypeOK, Replay
  <2>2. CASE e \in readable
    <3>1. Persist(e)
      BY <1>13, <2>2 DEF Replay
    <3> HIDE DEF e
    <3>2. /\ versions' \subseteq {f \in Events : f.kind \in VersionedKinds}
          /\ orders' \in [Keys -> OrderRows \cup {None}]
          /\ disputes' \in [Keys -> DisputeRows \cup {None}]
          /\ duplicates' \subseteq {f \in Events : f.kind = "dev_fee"}
          /\ instances' \in [Pubkeys -> InstanceRows \cup {None}]
          /\ instance_names' \in [Pubkeys -> [Names -> (0 .. Horizon) \cup {None}]]
          /\ relays' \in [Relays -> Pubkeys \cup {"config", None}]
      BY <2>1, <3>1, PersistType
    <3> QED BY <1>13, <3>2 DEF TypeOK, Replay
  <2>3. CASE e \notin readable
    BY <1>13, <2>3 DEF TypeOK, Replay
  <2> QED BY <2>2, <2>3
<1>14. CASE BeginSweep
  <2>1. sweeping' \subseteq Keys
    BY <1>14, EventsAssumption DEF TypeOK, BeginSweep, IdsOf, EventRecords
  <2> QED BY <1>14, <2>1 DEF TypeOK, BeginSweep, Pcs, SweepPcs
<1>15. ASSUME NEW id \in Keys, Sweep(id) PROVE TypeOK'
  <2>1. versions \in SUBSET Events
    BY DEF TypeOK
  <2>2. orders' \in [Keys -> OrderRows \cup {None}]
    BY <1>15, <2>1, RefreshOrderType DEF TypeOK, Sweep
  <2>3. disputes' \in [Keys -> DisputeRows \cup {None}]
    BY <1>15, <2>1, RefreshDisputeType DEF TypeOK, Sweep
  <2>4. duplicates' \subseteq {f \in Events : f.kind = "dev_fee"}
    BY <1>15, <2>1, RefreshDuplicatesType DEF TypeOK, Sweep
  <2> QED BY <1>15, <2>2, <2>3, <2>4 DEF TypeOK, Sweep
<1>16. CASE FinishRebuild
  BY <1>16 DEF TypeOK, FinishRebuild, Pcs
<1>17. CASE RebuildCrash
  BY <1>17 DEF TypeOK, RebuildCrash, Pcs
<1>18. ASSUME NEW e \in Events, Upgrade(e) PROVE TypeOK'
  BY <1>18 DEF TypeOK, Upgrade
<1>19. CASE UNCHANGED vars
  BY <1>19 DEF TypeOK, vars
<1> QED
  BY <1>1, <1>2, <1>3, <1>4, <1>5, <1>6, <1>7, <1>8, <1>9, <1>10, <1>11, <1>12,
     <1>13, <1>14, <1>15, <1>16, <1>17, <1>18, <1>19 DEF Next, RebuildStep

\* Every table keeps its columns and a rebuild stays at one of its
\* statements, in every behaviour of ingests and rebuilds.
THEOREM TypeCorrect == Spec => []TypeOK
BY TypeOKInit, TypeOKNext, PTL DEF Spec

-----------------------------------------------------------------------------
(* The archive is the dedup gate: nothing is ever taken out of it.         *)

\* No step of an ingester or of a rebuild removes an archived event.
LEMMA ArchiveGrows == [Next]_vars => events \subseteq events'
<1> SUFFICES ASSUME [Next]_vars PROVE events \subseteq events'
  OBVIOUS
<1> USE DEF rebuilding, tables, history
<1>1. ASSUME NEW i \in Ingesters,
             (\E e \in Events, r \in Relays : Receive(i, e, r)) \/ ArchiveUnreadable(i)
             \/ SkipRedundant(i) \/ SkipDuplicate(i) \/ Store(i) \/ Fail(i)
      PROVE  events \subseteq events'
  BY <1>1 DEF Receive, ArchiveUnreadable, SkipRedundant, SkipDuplicate, Store, Fail
<1>2. CASE RebuildStep
  BY <1>2 DEF RebuildStep, ClearVersions, ClearOrders, ClearDisputes, ClearInstanceNames,
              ClearInstances, LoadArchive, Replay, BeginSweep, Sweep, FinishRebuild
<1>3. CASE \/ \E u \in Relays : Connect(u)
           \/ \E fromRaw \in RebuildModes : StartRebuild(fromRaw)
           \/ RebuildCrash
           \/ \E e \in Events \ readable : Upgrade(e)
           \/ UNCHANGED vars
  BY <1>3 DEF Connect, StartRebuild, RebuildCrash, Upgrade, vars
<1> QED BY <1>1, <1>2, <1>3 DEF Next

-----------------------------------------------------------------------------
(* Trust: what is archived was admitted, and what was admitted was vouched *)
(* for by something that is still in the archive.                          *)

Vouched(e) == e.kind \in UNTAGGED_KINDS => Trusted(e.pubkey)

\* The strengthening: an ingester between its two reads holds an event whose
\* voucher is archived, every version row comes from the archive, and so
\* does everything a rebuild has left to replay.
TrustInv ==
    /\ TypeOK
    /\ \A e \in events : Admit(e)
    /\ \A i \in Ingesters : job[i] # None => Admit(job[i].event) /\ Vouched(job[i].event)
    /\ versions \subseteq events
    /\ replaying \subseteq events
    /\ VouchedArchive
    /\ VouchedRelays

\* A voucher, once archived, stays.
LEMMA TrustStays ==
    ASSUME [Next]_vars, NEW p, Trusted(p)
    PROVE  Trusted(p)'
BY ArchiveGrows DEF Trusted

\* An empty database trusts nobody.
LEMMA TrustInvInit == Init => TrustInv
<1> SUFFICES ASSUME Init PROVE TrustInv
  OBVIOUS
<1>1. TypeOK
  BY TypeOKInit
<1>2. \A i \in Ingesters : job[i] = None
  BY DEF Init
<1>3. VouchedRelays
  BY ConstantsAssumption DEF Init, VouchedRelays
<1> QED BY <1>1, <1>2, <1>3 DEF Init, TrustInv, VouchedArchive

\* The query of vouched_for finds no row that is not evidence.
LEMMA ProvenIsTrusted ==
    ASSUME TrustInv, NEW p, IsPlatformProven(versions, p)
    PROVE  Trusted(p)
<1>1. PICK v \in versions : v.pubkey = p /\ v.kind # "rates"
  BY DEF IsPlatformProven
<1>2. v \in events /\ Admit(v) /\ v.kind \in VersionedKinds
  BY DEF TrustInv, TypeOK
<1>3. v.kind \in PLATFORM_TAGGED
  BY <1>1, <1>2 DEF VersionedKinds, Kinds, PLATFORM_TAGGED
<1> QED BY <1>1, <1>2, <1>3 DEF Trusted, Admit

\* What step 7 writes to relays comes from the event it is given.
LEMMA PersistRelays ==
    ASSUME TrustInv, NEW e \in Events, Persist(e), Trusted(e.pubkey)' \/ e.kind # "relay_list",
           e \in events', events \subseteq events',
           \A p \in Pubkeys : Trusted(p) => Trusted(p)'
    PROVE  VouchedRelays'
<1> SUFFICES ASSUME NEW u \in Relays, relays'[u] \in Pubkeys
             PROVE  /\ Trusted(relays[u])'
                    /\ \E f \in events' : /\ f.kind = "relay_list"
                                          /\ f.pubkey = relays'[u]
                                          /\ u \in f.urls
  BY DEF VouchedRelays
<1>1. CASE relays'[u] = relays[u]
  BY <1>1 DEF TrustInv, VouchedRelays
<1>2. CASE relays'[u] # relays[u]
  <2>1. e.kind = "relay_list" /\ u \in e.urls /\ relays'[u] = e.pubkey
    BY <1>2 DEF Persist, UpsertRelays
  <2> QED BY <2>1
<1> QED BY <1>1, <1>2

\* No statement of an ingest or a rebuild relies on an unvouched publisher.
LEMMA TrustInvNext == TrustInv /\ [Next]_vars => TrustInv'
<1> SUFFICES ASSUME TrustInv, [Next]_vars PROVE TrustInv'
  OBVIOUS
<1>0. /\ TypeOK /\ TypeOK'
      /\ events \subseteq events'
      /\ \A p : Trusted(p) => Trusted(p)'
  BY TypeOKNext, ArchiveGrows, TrustStays DEF TrustInv
<1>1. \A e \in Events : Vouched(e) => Vouched(e)'
  BY <1>0 DEF Vouched
<1> DEFINE Rest ==
        /\ \A i \in Ingesters : job[i] # None => Admit(job[i].event) /\ Vouched(job[i].event)
        /\ \A e \in events : Admit(e)
        /\ VouchedArchive
<1> USE DEF rebuilding, tables, history
<1>2. ASSUME UNCHANGED <<events, job>> PROVE Rest'
  BY <1>2, <1>0 DEF TrustInv, Vouched, VouchedArchive, Trusted, Admit
<1>3. ASSUME NEW i \in Ingesters, events' = events, job' = [job EXCEPT ![i] = None]
      PROVE  Rest'
  BY <1>3, <1>0 DEF TrustInv, TypeOK, Vouched, VouchedArchive, Trusted, Admit
<1>4. ASSUME NEW i \in Ingesters, job[i] # None, events' = events \cup {job[i].event},
             job' = [job EXCEPT ![i] = None]
      PROVE  Rest'
  BY <1>4, <1>0 DEF TrustInv, TypeOK, Vouched, VouchedArchive, Admit
<1>5. ASSUME UNCHANGED relays PROVE VouchedRelays'
  BY <1>5, <1>0 DEF TrustInv, VouchedRelays
<1>6. ASSUME NEW i \in Ingesters, NEW e \in Events, NEW r \in Relays, Receive(i, e, r)
      PROVE  TrustInv'
  <2>1. Vouched(e)
    BY <1>6, ProvenIsTrusted DEF Receive, VouchedFor, Vouched, Trusted
  <2>2. Rest'
    BY <1>0, <1>1, <1>6, <2>1 DEF TrustInv, TypeOK, Receive, Vouched, VouchedArchive, Admit
  <2> QED BY <1>0, <1>5, <1>6, <2>2 DEF TrustInv, Receive
<1>7. ASSUME NEW i \in Ingesters, ArchiveUnreadable(i) PROVE TrustInv'
  BY <1>0, <1>4, <1>5, <1>7 DEF TrustInv, ArchiveUnreadable
<1>8. ASSUME NEW i \in Ingesters, SkipRedundant(i) \/ SkipDuplicate(i) \/ Fail(i)
      PROVE  TrustInv'
  BY <1>0, <1>3, <1>5, <1>8 DEF TrustInv, SkipRedundant, SkipDuplicate, Fail
<1>9. ASSUME NEW i \in Ingesters, Store(i) PROVE TrustInv'
  <2>0. PICK e \in Events : e = job[i].event
    BY <1>9 DEF TypeOK, TrustInv, Store
  <2>1. e \in Events /\ Vouched(e) /\ Persist(e) /\ e \in events'
    BY <1>9, <2>0 DEF TrustInv, TypeOK, Store
  <2>2. Trusted(e.pubkey)' \/ e.kind # "relay_list"
    BY <1>0, <2>1 DEF Vouched, UNTAGGED_KINDS
  <2>3. VouchedRelays'
    BY <1>0, <2>1, <2>2, PersistRelays
  <2>4. Rest'
    BY <1>4, <1>9, <2>0 DEF Store
  <2>5. versions' \subseteq events' /\ replaying' \subseteq events'
    BY <1>0, <1>9, <2>1 DEF TrustInv, Store, Persist
  <2> QED BY <1>0, <2>3, <2>4, <2>5 DEF TrustInv
<1>10. ASSUME NEW u \in Relays, Connect(u) PROVE TrustInv'
  <2>1. VouchedRelays'
    BY <1>0, <1>10, PolicyAssumption DEF TrustInv, VouchedRelays, Connect, UpsertRelays
  <2> QED BY <1>0, <1>2, <1>10, <2>1 DEF TrustInv, Connect
<1>11. CASE \/ \E fromRaw \in RebuildModes : StartRebuild(fromRaw)
            \/ ClearVersions \/ ClearOrders \/ ClearDisputes \/ ClearInstanceNames
            \/ ClearInstances \/ LoadArchive \/ BeginSweep
            \/ \E id \in Keys : Sweep(id)
            \/ FinishRebuild \/ RebuildCrash
            \/ \E e \in Events \ readable : Upgrade(e)
  BY <1>0, <1>2, <1>5, <1>11
     DEF TrustInv, StartRebuild, ClearVersions, ClearOrders, ClearDisputes,
         ClearInstanceNames, ClearInstances, LoadArchive, BeginSweep, Sweep,
         FinishRebuild, RebuildCrash, Upgrade
<1>12. CASE Replay
  <2>1. PICK e \in Events : e = Oldest(replaying) /\ e \in replaying /\ e \in events
    BY <1>12, OldestType DEF Replay, TrustInv, TypeOK
  <2>2. events' = events /\ job' = job /\ replaying' \subseteq replaying
    BY <1>12 DEF Replay
  <2>3. Rest'
    BY <1>2, <2>2
  <2>4. CASE e \in readable
    <3>1. Persist(e)
      BY <1>12, <2>1, <2>4 DEF Replay
    <3>2. Trusted(e.pubkey)' \/ e.kind # "relay_list"
      BY <1>0, <2>1 DEF TrustInv, VouchedArchive, UNTAGGED_KINDS
    <3>3. VouchedRelays'
      BY <1>0, <2>1, <2>2, <3>1, <3>2, PersistRelays
    <3>4. versions' \subseteq events'
      BY <2>1, <2>2, <3>1 DEF TrustInv, Persist
    <3> QED BY <1>0, <2>2, <2>3, <3>3, <3>4 DEF TrustInv
  <2>5. CASE e \notin readable
    <3>1. UNCHANGED <<versions, relays>>
      BY <1>12, <2>1, <2>5 DEF Replay
    <3> QED BY <1>0, <1>5, <2>2, <2>3, <3>1 DEF TrustInv
  <2> QED BY <2>4, <2>5
<1>13. CASE UNCHANGED vars
  BY <1>0, <1>2, <1>5, <1>13 DEF TrustInv, vars
<1> QED
  BY <1>6, <1>7, <1>8, <1>9, <1>10, <1>11, <1>12, <1>13 DEF Next, RebuildStep

\* No unvouched publisher's rates or relay list is ever archived, whatever a
\* rebuild empties between the vouching query and the transaction it licenses.
THEOREM TrustCorrect == Spec => []VouchedArchive
<1>1. TrustInv => VouchedArchive
  BY DEF TrustInv
<1> QED BY <1>1, TrustInvInit, TrustInvNext, PTL DEF Spec

\* No relay is recorded on the word of an unvouched publisher, and the list
\* that names it stays in the archive, through rebuilds that empty the table.
THEOREM VouchedRelaysCorrect == Spec => []VouchedRelays
<1>1. TrustInv => VouchedRelays
  BY DEF TrustInv
<1> QED BY <1>1, TrustInvInit, TrustInvNext, PTL DEF Spec

-----------------------------------------------------------------------------
(* Cursors.                                                                *)

Backed(s, A) ==
    \A r \in Relays, k \in {"order", "dev_fee", "dispute"} :
        s[r][k] # -1 => \E e \in A : e.kind = k /\ e.at = s[r][k]

\* A cursor that moves for an event stands where it did or at that event.
LEMMA AdvanceBacked ==
    ASSUME NEW s \in [Relays -> [Kinds -> -1 .. Horizon]], NEW A, NEW B, Backed(s, A),
           A \subseteq B, NEW r \in Relays, NEW e \in Events,
           e \in B \/ e.kind \notin {"order", "dev_fee", "dispute"}
    PROVE  Backed(Advance(s, r, e.kind, e.at), B)
<1> DEFINE t == Advance(s, r, e.kind, e.at)
<1> SUFFICES ASSUME NEW q \in Relays, NEW k \in {"order", "dev_fee", "dispute"},
                    t[q][k] # -1
             PROVE  \E f \in B : f.kind = k /\ f.at = t[q][k]
  BY DEF Backed
<1>1. e.kind \in Kinds /\ k \in Kinds
  BY EventsAssumption DEF EventRecords, Kinds
<1>2. \/ t[q][k] = s[q][k]
      \/ q = r /\ k = e.kind /\ t[q][k] = e.at
  BY <1>1 DEF Advance
<1> QED BY <1>2 DEF Backed

\* Only the heartbeat kinds are ever thinned out by step 6a.
LEMMA RedundantIsHeartbeat ==
    ASSUME NEW A, NEW V, NEW e \in Events, IsRedundant(A, V, e)
    PROVE  e.kind \notin {"order", "dev_fee", "dispute"}
BY DEF IsRedundant

\* Every step leaves each cursor at an archived event.
LEMMA CursorNext == TypeOK /\ CursorBacked /\ [Next]_vars => CursorBacked'
<1> SUFFICES ASSUME TypeOK, CursorBacked, [Next]_vars PROVE CursorBacked'
  OBVIOUS
<1>0. events \subseteq events' /\ Backed(sync_state, events)
  BY ArchiveGrows DEF CursorBacked, Backed
<1>1. SUFFICES Backed(sync_state', events')
  BY DEF CursorBacked, Backed
<1>2. ASSUME sync_state' = sync_state PROVE Backed(sync_state', events')
  BY <1>0, <1>2 DEF Backed
<1> USE DEF rebuilding, tables, history
<1>3. ASSUME NEW i \in Ingesters, SkipRedundant(i) \/ SkipDuplicate(i) \/ Store(i)
      PROVE  Backed(sync_state', events')
  <2>1. PICK e \in Events, r \in Relays : e = job[i].event /\ r = job[i].relay
    BY <1>3 DEF TypeOK, SkipRedundant, SkipDuplicate, Store
  <2>2. e \in events' \/ e.kind \notin {"order", "dev_fee", "dispute"}
    BY <1>3, <2>1, RedundantIsHeartbeat DEF SkipRedundant, SkipDuplicate, Store
  <2>3. sync_state' = Advance(sync_state, r, e.kind, e.at)
    BY <1>3, <2>1 DEF SkipRedundant, SkipDuplicate, Store
  <2> QED BY <1>0, <2>2, <2>3, AdvanceBacked DEF TypeOK
<1>4. CASE RebuildStep
  BY <1>2, <1>4
     DEF RebuildStep, ClearVersions, ClearOrders, ClearDisputes, ClearInstanceNames,
         ClearInstances, LoadArchive, Replay, BeginSweep, Sweep, FinishRebuild
<1>5. ASSUME NEW i \in Ingesters,
             (\E e \in Events, r \in Relays : Receive(i, e, r)) \/ ArchiveUnreadable(i) \/ Fail(i)
      PROVE  Backed(sync_state', events')
  BY <1>2, <1>5 DEF Receive, ArchiveUnreadable, Fail
<1>6. CASE \/ \E u \in Relays : Connect(u)
           \/ \E fromRaw \in RebuildModes : StartRebuild(fromRaw)
           \/ RebuildCrash
           \/ \E e \in Events \ readable : Upgrade(e)
           \/ UNCHANGED vars
  BY <1>2, <1>6 DEF Connect, StartRebuild, RebuildCrash, Upgrade, vars
<1> QED BY <1>3, <1>4, <1>5, <1>6 DEF Next

\* A cursor over orders, dev fees or disputes always stands at an archived
\* event: no failure, rejection or rebuild leaves it ahead of the archive.
THEOREM CursorCorrect == Spec => []CursorBacked
<1>1. Init => CursorBacked
  BY DEF Init, CursorBacked, Kinds
<1> QED BY <1>1, CursorNext, TypeOKInit, TypeOKNext, PTL DEF Spec

-----------------------------------------------------------------------------
(* Derivation.  Between the statement that empties a projection and the    *)
(* sweep of its ids, a row is either missing or right; the sweep brings    *)
(* the missing ones back.  The version tables lack, while the archive is   *)
(* replayed, only what is left to replay.                                  *)

VersionsInv ==
    /\ versions \subseteq Parsed
    /\ replaying \subseteq events
    /\ ~stale => pc = "idle"
    /\ pc = "replay" => Parsed \ versions \subseteq replaying
    /\ pc \in SweepPcs \/ ~stale => Parsed \subseteq versions

OrdersInv ==
    \A o \in Keys :
        /\ pc \in {"disputes", "instance_names", "instances", "load", "replay",
                  "sweep_orders"} =>
              orders[o] = None \/ orders[o] = OrderView(versions, o)
        /\ pc = "sweep_orders" => o \in sweeping \/ orders[o] = OrderView(versions, o)
        /\ pc \in {"sweep_disputes", "sweep_fees"} \/ ~stale =>
              orders[o] = OrderView(versions, o)

DisputesInv ==
    \A d \in Keys :
        /\ pc \in {"instance_names", "instances", "load", "replay", "sweep_orders",
                  "sweep_disputes"} =>
              disputes[d] = None \/ disputes[d] = DisputeView(versions, d)
        /\ pc = "sweep_disputes" => d \in sweeping \/ disputes[d] = DisputeView(versions, d)
        /\ pc = "sweep_fees" \/ ~stale => disputes[d] = DisputeView(versions, d)

DeriveInv == TypeOK /\ VersionsInv /\ OrdersInv /\ DisputesInv /\ DuplicateFlags

\* What step 7 adds to the version tables.
LEMMA PersistVersions ==
    ASSUME NEW e \in Events, Persist(e)
    PROVE  versions' = IF e.kind \in VersionedKinds THEN versions \cup {e} ELSE versions
BY DEF Persist

\* Step 7 leaves the row of an order right, or leaves alone both the row and
\* the versions it is the projection of.
LEMMA PersistOrders ==
    ASSUME TypeOK, NEW e \in Events, Persist(e), NEW o \in Keys
    PROVE  \/ orders'[o] = OrderView(versions', o)
           \/ orders'[o] = orders[o] /\ OrderView(versions', o) = OrderView(versions, o)
<1>1. CASE e.kind = "order" /\ e.key = o
  <2>1. versions' = versions \cup {e}
    BY <1>1, PersistVersions DEF VersionedKinds, Kinds
  <2>2. VersionsOf(versions', "order", o) # {}
    BY <1>1, <2>1 DEF VersionsOf
  <2>3. orders' = [orders EXCEPT ![o] = ProjectOrder(VersionsOf(versions', "order", o))]
    BY <1>1, <2>2 DEF Persist, RefreshOrder
  <2> QED BY <2>2, <2>3 DEF OrderView, TypeOK
<1>2. CASE ~(e.kind = "order" /\ e.key = o)
  <2>1. VersionsOf(versions', "order", o) = VersionsOf(versions, "order", o)
    BY <1>2, PersistVersions DEF VersionsOf
  <2>2. orders'[o] = orders[o]
    BY <1>2 DEF Persist, RefreshOrder, TypeOK
  <2> QED BY <2>1, <2>2 DEF OrderView
<1> QED BY <1>1, <1>2

\* The same of the row of a dispute.
LEMMA PersistDisputes ==
    ASSUME TypeOK, NEW e \in Events, Persist(e), NEW d \in Keys
    PROVE  \/ disputes'[d] = DisputeView(versions', d)
           \/ /\ disputes'[d] = disputes[d]
              /\ DisputeView(versions', d) = DisputeView(versions, d)
<1>1. CASE e.kind = "dispute" /\ e.key = d
  <2>1. versions' = versions \cup {e}
    BY <1>1, PersistVersions DEF VersionedKinds, Kinds
  <2>2. VersionsOf(versions', "dispute", d) # {}
    BY <1>1, <2>1 DEF VersionsOf
  <2>3. disputes' = [disputes EXCEPT ![d] = ProjectDispute(VersionsOf(versions', "dispute", d))]
    BY <1>1, <2>2 DEF Persist, RefreshDispute
  <2> QED BY <2>2, <2>3 DEF DisputeView, TypeOK
<1>2. CASE ~(e.kind = "dispute" /\ e.key = d)
  <2>1. VersionsOf(versions', "dispute", d) = VersionsOf(versions, "dispute", d)
    BY <1>2, PersistVersions DEF VersionsOf
  <2>2. disputes'[d] = disputes[d]
    BY <1>2 DEF Persist, RefreshDispute, TypeOK
  <2> QED BY <2>1, <2>2 DEF DisputeView
<1> QED BY <1>1, <1>2

\* The rows of dev_fees that ought to carry the flag.
Flagged(V) == {f \in V : /\ f.kind = "dev_fee"
                         /\ f # Oldest(VersionsOf(V, "dev_fee", f.key))}

\* Refreshing one order's flags is enough when only its fees have changed.
LEMMA RefreshFlagged ==
    ASSUME NEW V, NEW W, NEW o,
           \A k : k # o => VersionsOf(W, "dev_fee", k) = VersionsOf(V, "dev_fee", k)
    PROVE  RefreshDuplicates(Flagged(V), W, o) = Flagged(W)
<1>1. \A f : f \in Flagged(W) /\ f.key # o <=> f \in Flagged(V) /\ f.key # o
  <2> SUFFICES ASSUME NEW f, f.key # o
               PROVE  f \in Flagged(W) <=> f \in Flagged(V)
    OBVIOUS
  <2>1. VersionsOf(W, "dev_fee", f.key) = VersionsOf(V, "dev_fee", f.key)
    OBVIOUS
  <2>2. (f \in W /\ f.kind = "dev_fee") <=> (f \in V /\ f.kind = "dev_fee")
    BY <2>1 DEF VersionsOf
  <2> QED BY <2>1, <2>2 DEF Flagged
<1>2. {f \in VersionsOf(W, "dev_fee", o) : f # Oldest(VersionsOf(W, "dev_fee", o))}
         = {f \in Flagged(W) : f.key = o}
  BY DEF Flagged, VersionsOf
<1> QED BY <1>1, <1>2 DEF RefreshDuplicates

\* Step 7's writes keep the flags those of the fees that are stored.
LEMMA PersistFlags ==
    ASSUME TypeOK, NEW e \in Events, Persist(e), duplicates = Flagged(versions)
    PROVE  duplicates' = Flagged(versions')
<1>1. CASE e.kind = "dev_fee"
  <2>1. versions' = versions \cup {e}
    BY <1>1, PersistVersions DEF VersionedKinds, Kinds
  <2>2. \A k : k # e.key =>
            VersionsOf(versions', "dev_fee", k) = VersionsOf(versions, "dev_fee", k)
    BY <2>1 DEF VersionsOf
  <2>3. RefreshDuplicates(Flagged(versions), versions', e.key) = Flagged(versions')
    BY <2>2, RefreshFlagged
  <2> QED BY <1>1, <2>3 DEF Persist
<1>2. CASE e.kind # "dev_fee"
  <2>1. \A k : VersionsOf(versions', "dev_fee", k) = VersionsOf(versions, "dev_fee", k)
    BY <1>2, PersistVersions DEF VersionsOf
  <2>2. \A f : (f \in versions' /\ f.kind = "dev_fee") <=> (f \in versions /\ f.kind = "dev_fee")
    BY <1>2, PersistVersions
  <2>3. Flagged(versions') = Flagged(versions)
    BY <2>1, <2>2 DEF Flagged
  <2> QED BY <1>2, <2>3 DEF Persist
<1> QED BY <1>1, <1>2

\* An empty database is derived from an empty archive.
LEMMA DeriveInvInit == Init => DeriveInv
<1> SUFFICES ASSUME Init PROVE DeriveInv
  OBVIOUS
<1>1. \A k \in Keys : /\ orders[k] = OrderView(versions, k)
                      /\ disputes[k] = DisputeView(versions, k)
  BY DEF Init, OrderView, DisputeView, VersionsOf
<1>2. DuplicateFlags
  BY DEF Init, DuplicateFlags
<1>3. VersionsInv
  BY DEF Init, VersionsInv, Parsed
<1> QED
  BY <1>1, <1>2, <1>3, TypeOKInit DEF Init, DeriveInv, OrdersInv, DisputesInv, SweepPcs

\* A step that neither moves the rebuild nor spoils a row keeps the
\* projections as good as they were.
LEMMA ProjectionsKept ==
    ASSUME OrdersInv, DisputesInv, UNCHANGED <<pc, sweeping, stale>>,
           \A k \in Keys :
              /\ \/ orders'[k] = OrderView(versions', k)
                 \/ /\ orders'[k] = orders[k]
                    /\ OrderView(versions', k) = OrderView(versions, k)
              /\ \/ disputes'[k] = DisputeView(versions', k)
                 \/ /\ disputes'[k] = disputes[k]
                    /\ DisputeView(versions', k) = DisputeView(versions, k)
    PROVE  OrdersInv' /\ DisputesInv'
<1>1. OrdersInv'
  BY DEF OrdersInv
<1>2. DisputesInv'
  BY DEF DisputesInv
<1> QED BY <1>1, <1>2

\* One version parsed from an archived event is written.
LEMMA PersistKeeps ==
    ASSUME DeriveInv, NEW e \in Events, Persist(e), UNCHANGED <<pc, sweeping, stale>>
    PROVE  OrdersInv' /\ DisputesInv' /\ DuplicateFlags'
<1>1. TypeOK
  BY DEF DeriveInv
<1>2. OrdersInv' /\ DisputesInv'
  BY <1>1, PersistOrders, PersistDisputes, ProjectionsKept DEF DeriveInv
<1>3. DuplicateFlags'
  BY <1>1, PersistFlags DEF DeriveInv, DuplicateFlags, Flagged
<1> QED BY <1>2, <1>3

\* Every statement of an ingest or a rebuild keeps the inductive invariant.
LEMMA DeriveInvNext == DeriveInv /\ [Next]_vars => DeriveInv'
<1> SUFFICES ASSUME DeriveInv, [Next]_vars PROVE DeriveInv'
  OBVIOUS
<1>0. TypeOK /\ TypeOK'
  BY TypeOKNext DEF DeriveInv
<1> USE DEF rebuilding, tables, history
<1>1. ASSUME UNCHANGED <<versions, orders, disputes, duplicates, pc, sweeping, stale>>
      PROVE  OrdersInv' /\ DisputesInv' /\ DuplicateFlags'
  BY <1>1 DEF DeriveInv, OrdersInv, DisputesInv, DuplicateFlags
<1>2. ASSUME UNCHANGED <<events, versions, readable, pc, replaying, stale>>
      PROVE  VersionsInv'
  BY <1>2 DEF DeriveInv, VersionsInv, Parsed
<1>3. ASSUME NEW i \in Ingesters, NEW e \in Events, NEW r \in Relays, Receive(i, e, r)
      PROVE  DeriveInv'
  BY <1>0, <1>1, <1>2, <1>3 DEF Receive, DeriveInv
<1>4. ASSUME NEW i \in Ingesters, ArchiveUnreadable(i) PROVE DeriveInv'
  <2>1. VersionsInv'
    BY <1>4 DEF ArchiveUnreadable, DeriveInv, VersionsInv, Parsed
  <2> QED BY <1>0, <1>1, <1>4, <2>1 DEF ArchiveUnreadable, DeriveInv
<1>5. ASSUME NEW i \in Ingesters, SkipRedundant(i) \/ SkipDuplicate(i) \/ Fail(i)
      PROVE  DeriveInv'
  BY <1>0, <1>1, <1>2, <1>5 DEF SkipRedundant, SkipDuplicate, Fail, DeriveInv
<1>6. ASSUME NEW i \in Ingesters, Store(i) PROVE DeriveInv'
  <2>1. PICK e \in Events : e = job[i].event
    BY <1>0, <1>6 DEF TypeOK, Store
  <2>2. /\ Persist(e) /\ e \in readable /\ events' = events \cup {e}
        /\ UNCHANGED <<pc, replaying, sweeping, stale, readable>>
    BY <1>6, <2>1 DEF Store
  <2>3. Parsed' = Parsed \cup (IF e.kind \in VersionedKinds THEN {e} ELSE {})
    BY <2>2 DEF Parsed
  <2>4. VersionsInv'
    BY <2>2, <2>3, PersistVersions DEF DeriveInv, VersionsInv
  <2>5. OrdersInv' /\ DisputesInv' /\ DuplicateFlags'
    BY <2>2, PersistKeeps
  <2> QED BY <1>0, <2>4, <2>5 DEF DeriveInv
<1>7. ASSUME NEW u \in Relays, Connect(u) PROVE DeriveInv'
  BY <1>0, <1>1, <1>2, <1>7 DEF Connect, DeriveInv
<1>8. ASSUME NEW fromRaw \in RebuildModes, StartRebuild(fromRaw) PROVE DeriveInv'
  <2>1. pc' \in {"order", "orders"} /\ stale' = TRUE
    BY <1>8 DEF StartRebuild
  <2>2. VersionsInv'
    BY <1>8, <2>1 DEF StartRebuild, DeriveInv, VersionsInv, Parsed, SweepPcs
  <2>3. OrdersInv' /\ DisputesInv'
    BY <2>1 DEF OrdersInv, DisputesInv
  <2>4. DuplicateFlags'
    BY <1>8 DEF StartRebuild, DeriveInv, DuplicateFlags
  <2> QED BY <1>0, <2>2, <2>3, <2>4 DEF DeriveInv
<1>9. CASE ClearVersions
  <2>1. /\ pc' \in {"dispute", "dev_fee", "info", "rates", "orders"}
        /\ stale' = TRUE
        /\ UNCHANGED <<events, readable, replaying>>
        /\ versions' \subseteq versions
    BY <1>0, <1>9 DEF ClearVersions, AfterClear, VersionedKinds, Kinds, DeriveInv,
                      VersionsInv, TypeOK
  <2>2. VersionsInv'
    BY <2>1 DEF DeriveInv, VersionsInv, Parsed, SweepPcs
  <2>3. OrdersInv' /\ DisputesInv'
    BY <2>1 DEF OrdersInv, DisputesInv
  <2>4. CASE pc = "dev_fee"
    BY <1>0, <1>9, <2>2, <2>3, <2>4 DEF ClearVersions, DuplicateFlags, DeriveInv
  <2>5. CASE pc # "dev_fee"
    <3>1. \A k : VersionsOf(versions', "dev_fee", k) = VersionsOf(versions, "dev_fee", k)
      BY <1>9, <2>5 DEF ClearVersions, VersionsOf
    <3>2. DuplicateFlags'
      BY <1>9, <2>5, <3>1 DEF ClearVersions, DeriveInv, DuplicateFlags
    <3> QED BY <1>0, <2>2, <2>3, <3>2 DEF DeriveInv
  <2> QED BY <2>4, <2>5
<1>10. CASE ClearOrders
  <2>1. VersionsInv' /\ DuplicateFlags'
    BY <1>10 DEF ClearOrders, DeriveInv, VersionsInv, DuplicateFlags, Parsed, SweepPcs
  <2>2. OrdersInv' /\ DisputesInv'
    BY <1>10 DEF ClearOrders, DeriveInv, VersionsInv, OrdersInv, DisputesInv
  <2> QED BY <1>0, <2>1, <2>2 DEF DeriveInv
<1>11. CASE ClearDisputes
  <2>1. VersionsInv' /\ DuplicateFlags'
    BY <1>11 DEF ClearDisputes, DeriveInv, VersionsInv, DuplicateFlags, Parsed, SweepPcs
  <2>2. OrdersInv' /\ DisputesInv'
    BY <1>11 DEF ClearDisputes, DeriveInv, VersionsInv, OrdersInv, DisputesInv
  <2> QED BY <1>0, <2>1, <2>2 DEF DeriveInv
<1>12. CASE ClearInstanceNames \/ ClearInstances
  <2>1. VersionsInv' /\ DuplicateFlags'
    BY <1>12 DEF ClearInstanceNames, ClearInstances, DeriveInv, VersionsInv,
                 DuplicateFlags, Parsed, SweepPcs
  <2>2. OrdersInv' /\ DisputesInv'
    BY <1>12 DEF ClearInstanceNames, ClearInstances, DeriveInv, VersionsInv, OrdersInv,
                 DisputesInv
  <2> QED BY <1>0, <2>1, <2>2 DEF DeriveInv
<1>13. CASE LoadArchive
  <2>1. VersionsInv' /\ DuplicateFlags'
    BY <1>13 DEF LoadArchive, DeriveInv, VersionsInv, DuplicateFlags, Parsed, SweepPcs
  <2>2. OrdersInv' /\ DisputesInv'
    BY <1>13 DEF LoadArchive, DeriveInv, VersionsInv, OrdersInv, DisputesInv
  <2> QED BY <1>0, <2>1, <2>2 DEF DeriveInv
<1>14. CASE Replay
  <2>1. PICK e \in Events : e = Oldest(replaying) /\ e \in replaying
    BY <1>0, <1>14, OldestType DEF Replay, TypeOK
  <2>2. /\ UNCHANGED <<pc, sweeping, stale, events, readable>>
        /\ replaying' = replaying \ {e}
        /\ pc = "replay" /\ e \in events
        /\ Parsed' = Parsed
    BY <1>14, <2>1 DEF Replay, DeriveInv, VersionsInv, Parsed
  <2>3. CASE e \in readable
    <3>1. Persist(e)
      BY <1>14, <2>1, <2>3 DEF Replay
    <3>2. e.kind \in VersionedKinds <=> e \in Parsed
      BY <2>2, <2>3 DEF Parsed
    <3>3. VersionsInv'
      BY <2>2, <3>1, <3>2, PersistVersions DEF DeriveInv, VersionsInv, SweepPcs
    <3>4. OrdersInv' /\ DisputesInv' /\ DuplicateFlags'
      BY <2>2, <3>1, PersistKeeps
    <3> QED BY <1>0, <3>3, <3>4 DEF DeriveInv
  <2>4. CASE e \notin readable
    <3>1. UNCHANGED <<versions, orders, disputes, duplicates>>
      BY <1>14, <2>1, <2>4 DEF Replay
    <3>2. e \notin Parsed
      BY <2>4 DEF Parsed
    <3>3. VersionsInv'
      BY <2>2, <3>1, <3>2 DEF DeriveInv, VersionsInv, SweepPcs
    <3> QED BY <1>0, <1>1, <2>2, <3>1, <3>3 DEF DeriveInv
  <2> QED BY <2>3, <2>4
<1>15. CASE BeginSweep
  <2>1. UNCHANGED <<events, versions, orders, disputes, duplicates, readable, replaying, stale>>
    BY <1>15 DEF BeginSweep
  <2>2. VersionsInv' /\ DuplicateFlags'
    BY <1>15, <2>1 DEF BeginSweep, DeriveInv, VersionsInv, DuplicateFlags, Parsed, SweepPcs
  <2>3. \A k \in Keys : /\ k \notin IdsOf("order") => OrderView(versions, k) = None
                        /\ k \notin IdsOf("dispute") => DisputeView(versions, k) = None
    BY DEF IdsOf, OrderView, DisputeView, VersionsOf
  <2>4. CASE pc = "replay" /\ pc' = "sweep_orders"
    <3>1. sweeping' = IdsOf("order")
      BY <1>15, <2>4 DEF BeginSweep, SweepKind
    <3>2. OrdersInv' /\ DisputesInv'
      BY <2>1, <2>3, <2>4, <3>1 DEF DeriveInv, VersionsInv, OrdersInv, DisputesInv
    <3> QED BY <1>0, <2>2, <3>2 DEF DeriveInv
  <2>5. CASE pc = "sweep_orders" /\ sweeping = {} /\ pc' = "sweep_disputes"
    <3>1. sweeping' = IdsOf("dispute")
      BY <1>15, <2>5 DEF BeginSweep, SweepKind
    <3>2. OrdersInv' /\ DisputesInv'
      BY <2>1, <2>3, <2>5, <3>1 DEF DeriveInv, VersionsInv, OrdersInv, DisputesInv
    <3> QED BY <1>0, <2>2, <3>2 DEF DeriveInv
  <2>6. CASE pc = "sweep_disputes" /\ sweeping = {} /\ pc' = "sweep_fees"
    <3>1. OrdersInv' /\ DisputesInv'
      BY <2>1, <2>6 DEF DeriveInv, VersionsInv, OrdersInv, DisputesInv
    <3> QED BY <1>0, <2>2, <3>1 DEF DeriveInv
  <2> QED BY <1>15, <2>4, <2>5, <2>6 DEF BeginSweep
<1>16. ASSUME NEW id \in Keys, Sweep(id) PROVE DeriveInv'
  <2>1. /\ UNCHANGED <<events, versions, readable, pc, replaying, stale>>
        /\ pc \in SweepPcs /\ sweeping' = sweeping \ {id}
    BY <1>16 DEF Sweep
  <2>2. VersionsInv'
    BY <1>2, <2>1
  <2>3. DuplicateFlags'
    <3>1. duplicates = Flagged(versions)
      BY DEF DeriveInv, DuplicateFlags, Flagged
    <3>2. RefreshDuplicates(Flagged(versions), versions, id) = Flagged(versions)
      BY RefreshFlagged
    <3>3. duplicates' = Flagged(versions)
      BY <1>16, <3>1, <3>2 DEF Sweep
    <3> QED BY <2>1, <3>3 DEF DuplicateFlags, Flagged
  <2>4. \A k \in Keys : /\ orders'[k] = orders[k] \/ orders'[k] = OrderView(versions, k)
                        /\ disputes'[k] = disputes[k] \/ disputes'[k] = DisputeView(versions, k)
    BY <1>0, <1>16 DEF Sweep, RefreshOrder, RefreshDispute, OrderView, DisputeView, TypeOK
  <2>5. OrdersInv'
    <3>1. CASE pc = "sweep_orders"
      <4>1. orders[id] = None \/ orders[id] = OrderView(versions, id)
        BY <3>1 DEF DeriveInv, OrdersInv
      <4>2. VersionsOf(versions, "order", id) # {} => orders'[id] = OrderView(versions, id)
        BY <1>0, <1>16, <3>1 DEF Sweep, RefreshOrder, OrderView, TypeOK
      <4>3. VersionsOf(versions, "order", id) = {} => orders'[id] = OrderView(versions, id)
        BY <1>0, <1>16, <3>1, <4>1 DEF Sweep, RefreshOrder, OrderView, TypeOK
      <4> QED BY <2>1, <2>4, <3>1, <4>2, <4>3 DEF DeriveInv, VersionsInv, OrdersInv
    <3>2. CASE pc # "sweep_orders"
      BY <2>1, <2>4, <3>2 DEF DeriveInv, VersionsInv, OrdersInv, SweepPcs
    <3> QED BY <3>1, <3>2
  <2>6. DisputesInv'
    <3>1. CASE pc = "sweep_disputes"
      <4>1. disputes[id] = None \/ disputes[id] = DisputeView(versions, id)
        BY <3>1 DEF DeriveInv, DisputesInv
      <4>2. disputes'[id] = DisputeView(versions, id)
        BY <1>0, <1>16, <3>1, <4>1 DEF Sweep, RefreshDispute, DisputeView, TypeOK
      <4> QED BY <2>1, <2>4, <3>1, <4>2 DEF DeriveInv, VersionsInv, DisputesInv
    <3>2. CASE pc # "sweep_disputes"
      BY <2>1, <2>4, <3>2 DEF DeriveInv, VersionsInv, DisputesInv, SweepPcs
    <3> QED BY <3>1, <3>2
  <2> QED BY <1>0, <2>2, <2>3, <2>5, <2>6 DEF DeriveInv
<1>17. CASE FinishRebuild
  <2>1. VersionsInv' /\ DuplicateFlags'
    BY <1>17 DEF FinishRebuild, DeriveInv, VersionsInv, DuplicateFlags, Parsed, SweepPcs
  <2>2. OrdersInv' /\ DisputesInv'
    BY <1>17 DEF FinishRebuild, DeriveInv, OrdersInv, DisputesInv
  <2> QED BY <1>0, <2>1, <2>2 DEF DeriveInv
<1>18. CASE RebuildCrash
  <2>1. VersionsInv' /\ DuplicateFlags'
    BY <1>18 DEF RebuildCrash, DeriveInv, VersionsInv, DuplicateFlags, Parsed, SweepPcs
  <2>2. OrdersInv' /\ DisputesInv'
    BY <1>18 DEF RebuildCrash, DeriveInv, VersionsInv, OrdersInv, DisputesInv
  <2> QED BY <1>0, <2>1, <2>2 DEF DeriveInv
<1>19. ASSUME NEW e \in Events, Upgrade(e) PROVE DeriveInv'
  <2>1. VersionsInv' /\ DuplicateFlags'
    BY <1>19 DEF Upgrade, DeriveInv, VersionsInv, DuplicateFlags, Parsed, SweepPcs
  <2>2. OrdersInv' /\ DisputesInv'
    BY <1>19 DEF Upgrade, OrdersInv, DisputesInv
  <2> QED BY <1>0, <2>1, <2>2 DEF DeriveInv
<1>20. CASE UNCHANGED vars
  BY <1>0, <1>1, <1>2, <1>20 DEF vars, DeriveInv
<1> QED
  BY <1>3, <1>4, <1>5, <1>6, <1>7, <1>8, <1>9, <1>10, <1>11, <1>12, <1>13, <1>14,
     <1>15, <1>16, <1>17, <1>18, <1>19, <1>20 DEF Next, RebuildStep

\* Whenever no rebuild is owed, the version tables hold what the parsers
\* read of the archive and orders and disputes are its projections.
THEOREM DerivedCorrect == Spec => []DerivedFromArchive
<1>1. DeriveInv => DerivedFromArchive
  BY DEF DeriveInv, VersionsInv, OrdersInv, DisputesInv, DerivedFromArchive
<1> QED BY <1>1, DeriveInvInit, DeriveInvNext, PTL DEF Spec

\* At every moment, the middle of a rebuild included, exactly the dev fees
\* that are not the earliest of their order are flagged as duplicates.
THEOREM DuplicateFlagsCorrect == Spec => []DuplicateFlags
<1>1. DeriveInv => DuplicateFlags
  BY DEF DeriveInv
<1> QED BY <1>1, DeriveInvInit, DeriveInvNext, PTL DEF Spec

-----------------------------------------------------------------------------
(* The pipeline, its ingesters, rebuilds, crashes and releases implement   *)
(* the promise of module Archive: a step either leaves the archive and the *)
(* parsers alone, or takes in one admissible event, or deploys a parser;   *)
(* and whenever no rebuild is owed what the tables show is the view of the *)
(* archive.                                                                *)

\* The view as the mapping of module Refinement computes it.
ViewBar == IF stale THEN None ELSE Shown

\* The instances of the queries in Archive are the queries.
LEMMA SameQueries ==
    ASSUME NEW S, NEW kind, NEW k
    PROVE  /\ Abstract!Newest(S) = Newest(S)
           /\ Abstract!Oldest(S) = Oldest(S)
           /\ Abstract!VersionsOf(S, kind, k) = VersionsOf(S, kind, k)
BY DEF Abstract!Newest, Newest, Abstract!Oldest, Oldest, Abstract!VersionsOf, VersionsOf

\* The one fee of an order that carries no flag is its first.
LEMMA SettlingIsFirst ==
    ASSUME DeriveInv, NEW k \in Keys
    PROVE  LET fees == VersionsOf(versions, "dev_fee", k)
           IN  Settling(k) = IF fees = {} THEN None ELSE Oldest(fees)
<1> DEFINE fees == VersionsOf(versions, "dev_fee", k)
           paid == {f \in versions : f.kind = "dev_fee" /\ f.key = k} \ duplicates
<1>1. paid = {f \in fees : f = Oldest(fees)}
  BY DEF DeriveInv, DuplicateFlags, VersionsOf
<1>2. CASE fees = {}
  BY <1>1, <1>2 DEF Settling
<1>3. CASE fees # {}
  <2>1. fees \in SUBSET Events
    BY DEF DeriveInv, TypeOK, VersionsOf
  <2>2. Oldest(fees) \in fees
    BY <1>3, <2>1, OldestType
  <2>3. paid = {Oldest(fees)}
    BY <1>1, <2>2
  <2> HIDE DEF paid, fees
  <2>4. (CHOOSE f \in paid : paid = {f}) = Oldest(fees)
    BY <2>3
  <2>5. Settling(k) = CHOOSE f \in paid : paid = {f}
    BY <2>3 DEF Settling, paid
  <2> QED BY <1>3, <2>4, <2>5 DEF fees
<1> QED BY <1>2, <1>3

\* The parsers' part of the archive has the versions of the archive's.
LEMMA ParsedVersions ==
    ASSUME NEW kind \in VersionedKinds, NEW k
    PROVE  VersionsOf(Parsed, kind, k) = VersionsOf(events \cap readable, kind, k)
BY DEF Parsed, VersionsOf

\* Whenever no rebuild is owed, the tables show the view of the archive.
LEMMA ShownIsView ==
    ASSUME DeriveInv, ~stale
    PROVE  Shown = Abstract!ViewOf(events \cap readable)
<1> DEFINE A == events \cap readable
<1>0. versions = Parsed
  BY DEF DeriveInv, VersionsInv
<1>1. ASSUME NEW k \in Keys
      PROVE  (IF orders[k] = None THEN None ELSE orders[k].latest)
                = Abstract!Last(VersionsOf(A, "order", k))
  <2> DEFINE S == VersionsOf(A, "order", k)
  <2>1. S = VersionsOf(versions, "order", k)
    BY <1>0, ParsedVersions DEF VersionedKinds, Kinds
  <2>2. orders[k] = IF S = {} THEN None ELSE ProjectOrder(S)
    BY <2>1 DEF DeriveInv, OrdersInv, OrderView
  <2>3. S \in SUBSET Events
    BY DEF DeriveInv, TypeOK, VersionsOf
  <2>4. S # {} => ProjectOrder(S) # None /\ ProjectOrder(S).latest = Newest(S)
    <3> HIDE DEF S
    <3> QED BY <2>3, ProjectOrderType, RowsAssumption DEF ProjectOrder
  <2> QED BY <2>2, <2>4, SameQueries DEF Abstract!Last
<1>2. ASSUME NEW k \in Keys
      PROVE  (IF disputes[k] = None THEN None ELSE disputes[k].latest)
                = Abstract!Last(VersionsOf(A, "dispute", k))
  <2> DEFINE S == VersionsOf(A, "dispute", k)
  <2>1. S = VersionsOf(versions, "dispute", k)
    BY <1>0, ParsedVersions DEF VersionedKinds, Kinds
  <2>2. disputes[k] = IF S = {} THEN None ELSE ProjectDispute(S)
    BY <2>1 DEF DeriveInv, DisputesInv, DisputeView
  <2>3. S \in SUBSET Events
    BY DEF DeriveInv, TypeOK, VersionsOf
  <2>4. S # {} => ProjectDispute(S) # None /\ ProjectDispute(S).latest = Newest(S)
    <3> HIDE DEF S
    <3> QED BY <2>3, ProjectDisputeType, RowsAssumption DEF ProjectDispute
  <2> QED BY <2>2, <2>4, SameQueries DEF Abstract!Last
<1>3. ASSUME NEW k \in Keys
      PROVE  Settling(k) = Abstract!First(VersionsOf(A, "dev_fee", k))
  <2>1. VersionsOf(A, "dev_fee", k) = VersionsOf(versions, "dev_fee", k)
    BY <1>0, ParsedVersions DEF VersionedKinds, Kinds
  <2> QED BY <2>1, SettlingIsFirst, SameQueries DEF Abstract!First
<1> HIDE DEF A
<1>4. Abstract!ViewOf(A) =
        [k \in Keys |-> [ order   |-> Abstract!Last(VersionsOf(A, "order", k)),
                          dispute |-> Abstract!Last(VersionsOf(A, "dispute", k)),
                          settled |-> Abstract!First(VersionsOf(A, "dev_fee", k)) ]]
  BY SameQueries DEF Abstract!ViewOf
<1> QED BY <1>1, <1>2, <1>3, <1>4 DEF Shown, A

\* A view that is shown is not the absence of one.
LEMMA ViewIsShown ==
    ASSUME DeriveInv, ~stale
    PROVE  Shown # None
<1>1. ASSUME NEW k \in Keys
      PROVE  /\ (IF orders[k] = None THEN None ELSE orders[k].latest) \in Events \cup {None}
             /\ (IF disputes[k] = None THEN None ELSE disputes[k].latest) \in Events \cup {None}
  BY DEF DeriveInv, TypeOK, OrderRows, DisputeRows
<1>2. ASSUME NEW k \in Keys
      PROVE  Settling(k) \in Events \cup {None}
  <2>1. VersionsOf(versions, "dev_fee", k) \in SUBSET Events
    BY DEF DeriveInv, TypeOK, VersionsOf
  <2> QED BY <2>1, SettlingIsFirst, OldestType
<1>3. Shown \in Views
  BY <1>1, <1>2 DEF Shown, Views
<1> QED BY <1>3, ViewAssumption

-----------------------------------------------------------------------------
(* What a step does to the archive and to the parsers.                     *)

\* May the archive take e in: signed, and tagged or from a known publisher.
Admissible(e) ==
    /\ e.verified
    /\ IF e.kind \in Abstract!TAGGED_KINDS THEN e.mostro ELSE Abstract!Known(e.pubkey)

Quiet == UNCHANGED <<events, readable>>

TakesIn(e) ==
    /\ e \notin events /\ Admissible(e)
    /\ events' = events \cup {e}
    /\ UNCHANGED <<readable, stale>>

Deploys(e) ==
    /\ e \notin readable
    /\ readable' = readable \cup {e} /\ stale' = TRUE
    /\ UNCHANGED events

\* What an ingester holds between its two reads is still admissible when it
\* is written.
LEMMA JobAdmissible ==
    ASSUME TrustInv, NEW i \in Ingesters, job[i] # None
    PROVE  job[i].event \in Events /\ Admissible(job[i].event)
<1>1. job[i].event \in Events
  BY DEF TrustInv, TypeOK
<1>2. Admit(job[i].event) /\ Vouched(job[i].event)
  BY DEF TrustInv
<1>3. PICK e \in Events : e = job[i].event
  BY <1>1
<1>4. e.kind \in Kinds
  BY EventsAssumption DEF EventRecords
<1>5. CASE e.kind \in PLATFORM_TAGGED
  BY <1>2, <1>3, <1>5 DEF Admissible, Admit, PLATFORM_TAGGED, Abstract!TAGGED_KINDS
<1>6. CASE e.kind \notin PLATFORM_TAGGED
  <2>1. e.kind \in UNTAGGED_KINDS
    BY <1>4, <1>6 DEF Kinds, PLATFORM_TAGGED, UNTAGGED_KINDS
  <2>2. Abstract!Known(e.pubkey)
    BY <1>2, <1>3, <2>1
       DEF Vouched, Trusted, Abstract!Known, PLATFORM_TAGGED, Abstract!TAGGED_KINDS
  <2> QED BY <1>2, <1>3, <1>6, <2>2 DEF Admissible, Admit, PLATFORM_TAGGED, Abstract!TAGGED_KINDS
<1> QED BY <1>1, <1>3, <1>5, <1>6

\* Every step is one of the three.
LEMMA StepKinds ==
    ASSUME TrustInv, [Next]_vars
    PROVE  \/ Quiet
           \/ \E e \in Events : TakesIn(e)
           \/ \E e \in Events : Deploys(e)
<1> USE DEF rebuilding, tables, history, Quiet
<1>1. ASSUME NEW i \in Ingesters, ArchiveUnreadable(i) \/ Store(i)
      PROVE  Quiet \/ \E e \in Events : TakesIn(e)
  <2>1. PICK e \in Events : e = job[i].event /\ Admissible(e)
    BY <1>1, JobAdmissible DEF ArchiveUnreadable, Store
  <2>2. events' = events \cup {e} /\ UNCHANGED <<readable, stale>>
    BY <1>1, <2>1 DEF ArchiveUnreadable, Store
  <2> QED BY <2>1, <2>2 DEF TakesIn
<1>2. ASSUME NEW i \in Ingesters,
             (\E e \in Events, r \in Relays : Receive(i, e, r))
             \/ SkipRedundant(i) \/ SkipDuplicate(i) \/ Fail(i)
      PROVE  Quiet
  BY <1>2 DEF Receive, SkipRedundant, SkipDuplicate, Fail
<1>3. CASE RebuildStep
  BY <1>3 DEF RebuildStep, ClearVersions, ClearOrders, ClearDisputes, ClearInstanceNames,
              ClearInstances, LoadArchive, Replay, BeginSweep, Sweep, FinishRebuild
<1>4. CASE \/ \E u \in Relays : Connect(u)
           \/ \E fromRaw \in RebuildModes : StartRebuild(fromRaw)
           \/ RebuildCrash
           \/ UNCHANGED vars
  BY <1>4 DEF Connect, StartRebuild, RebuildCrash, vars
<1>5. ASSUME NEW e \in Events \ readable, Upgrade(e)
      PROVE  Deploys(e)
  BY <1>5 DEF Upgrade, Deploys
<1> QED BY <1>1, <1>2, <1>3, <1>4, <1>5 DEF Next

-----------------------------------------------------------------------------
(* The refinement.                                                         *)

\* An empty database is an empty archive whose view is shown.
LEMMA InitMapped == Init => Abstract!Init
<1> SUFFICES ASSUME Init PROVE Abstract!Init
  OBVIOUS
<1>1. DeriveInv /\ ~stale
  BY DeriveInvInit DEF Init
<1>2. Shown = Abstract!ViewOf({})
  BY <1>1, ShownIsView DEF Init
<1> QED BY <1>1, <1>2 DEF Init, Abstract!Init

\* The view is shown after a step as it is before it.
LEMMA ShownIsViewNext ==
    (DeriveInv /\ ~stale => Shown = Abstract!ViewOf(events \cap readable))'
<1>1. DeriveInv /\ ~stale => Shown = Abstract!ViewOf(events \cap readable)
  BY ShownIsView
<1> QED BY <1>1, PTL

\* Every step is a step of the promise, or changes nothing it speaks of.
LEMMA NextMapped ==
    ASSUME TrustInv, DeriveInv, DeriveInv', [Next]_vars
    PROVE  [Abstract!Next]_<<events, readable, ViewBar>>
<1>1. ~stale => Shown = Abstract!ViewOf(events \cap readable) /\ Shown # None
  BY ShownIsView, ViewIsShown
<1>2. ~stale' => Shown' = Abstract!ViewOf(events' \cap readable')
  BY ShownIsViewNext
<1>3. stale \in BOOLEAN /\ stale' \in BOOLEAN
  BY DEF DeriveInv, TypeOK
<1>4. CASE Quiet
  <2>1. CASE stale'
    BY <1>4, <2>1 DEF Quiet, ViewBar, Abstract!Next, Abstract!Withdraw
  <2>2. CASE ~stale' /\ stale
    BY <1>2, <1>4, <2>2 DEF Quiet, ViewBar, Abstract!Next, Abstract!Restore
  <2>3. CASE ~stale' /\ ~stale
    BY <1>1, <1>2, <1>4, <2>3 DEF Quiet, ViewBar
  <2> QED BY <2>1, <2>2, <2>3
<1>5. ASSUME NEW e \in Events, TakesIn(e)
      PROVE  Abstract!Next
  <2>1. Abstract!Learn(e)
    BY <1>1, <1>2, <1>5 DEF TakesIn, Admissible, ViewBar, Abstract!Learn
  <2> QED BY <2>1 DEF Abstract!Next
<1>6. ASSUME NEW e \in Events, Deploys(e)
      PROVE  Abstract!Next
  <2>1. Abstract!Release(e)
    BY <1>6 DEF Deploys, ViewBar, Abstract!Release
  <2> QED BY <2>1 DEF Abstract!Next
<1> QED BY <1>4, <1>5, <1>6, StepKinds

\* Whatever ingesters, rebuilds, crashes and releases do, the indexer keeps
\* the promise of module Archive.
THEOREM RefinesArchive == Spec => ImplementsArchive
<1>1. Spec => [](TrustInv /\ DeriveInv)
  BY TrustInvInit, TrustInvNext, DeriveInvInit, DeriveInvNext, PTL DEF Spec
<1>2. TrustInv /\ DeriveInv /\ DeriveInv' /\ [Next]_vars
         => [Abstract!Next]_<<events, readable, ViewBar>>
  BY NextMapped
<1> QED BY <1>1, <1>2, InitMapped, PTL
        DEF Spec, ImplementsArchive, Abstract!Spec, Abstract!archive, ViewBar

-----------------------------------------------------------------------------
(* The inductive invariant.  From the statement that empties a table on,   *)
(* its rows only ever report events that happened, and cover those that    *)
(* were written since: the heartbeats not forgotten and, once the archive  *)
(* is loaded, all of it but what is left to replay.                        *)

\* Each end of the row is the time of an event of S.
Reports(row, S) ==
    row # None => /\ \E e \in S : e.at = row.first_seen_at
                  /\ \E e \in S : e.at = row.last_seen_at

\* The row spans every event of S.
Spans(row, S) ==
    \A e \in S : row # None /\ row.first_seen_at <= e.at /\ e.at <= row.last_seen_at

\* The row's name is one that an event of S gave when it says.
ReportsName(row, S) ==
    row # None => IF row.name_seen_at = None THEN row.name = None
                  ELSE \E e \in S : e.at = row.name_seen_at /\ e.name = row.name

\* No event of S gave a name later.
SpansNames(row, S) ==
    \A e \in S : row # None /\ row.name_seen_at # None /\ e.at <= row.name_seen_at

Beats(p) == {e \in heartbeats \ forgotten : e.pubkey = p}

InstancesInv ==
    pc \in {"load", "replay"} \cup SweepPcs \/ ~stale => \A p \in Pubkeys :
        /\ Reports(instances[p], Sightings(p))
        /\ ReportsName(instances[p], Named(p))
        /\ Spans(instances[p], Beats(p))
        /\ pc # "load" => /\ Spans(instances[p], Archived(p) \ replaying)
                          /\ SpansNames(instances[p], Named(p) \ replaying)

\* The same of one name of the history, used by the events of S.
ReportsUse(t, S) == t # None => \E e \in S : e.at = t
SpansUses(t, S) == \A e \in S : t # None /\ e.at <= t

Uses(p, n) == {e \in Named(p) : e.name = n}

NamesInv ==
    pc \in {"instances", "load", "replay"} \cup SweepPcs \/ ~stale =>
        \A p \in Pubkeys, n \in Names :
            /\ ReportsUse(instance_names[p][n], Uses(p, n))
            /\ pc \notin {"instances", "load"} =>
                  SpansUses(instance_names[p][n], Uses(p, n) \ replaying)

BestiaryInv ==
    /\ TypeOK
    /\ ~stale => pc = "idle"
    /\ pc # "replay" => replaying = {}
    /\ replaying \subseteq events
    /\ InstancesInv
    /\ NamesInv

-----------------------------------------------------------------------------
(* What one upsert does to a row.                                          *)

\* The row an upsert leaves, column by column.
LEMMA UpsertRow ==
    ASSUME NEW T \in [Pubkeys -> InstanceRows \cup {None}], NEW p \in Pubkeys,
           NEW name \in Names \cup {None}, NEW t \in 0 .. Horizon
    PROVE  LET old == T[p]
               new == UpsertInstance(T, p, name, t)[p]
               wins == old = None \/ old.name_seen_at = None \/ t >= old.name_seen_at
           IN  /\ new # None
               /\ new.first_seen_at = IF old = None \/ t < old.first_seen_at
                                      THEN t ELSE old.first_seen_at
               /\ new.last_seen_at = IF old = None \/ t > old.last_seen_at
                                     THEN t ELSE old.last_seen_at
               /\ new.name = IF name # None /\ wins THEN name
                             ELSE IF old = None THEN None ELSE old.name
               /\ new.name_seen_at = IF name # None /\ wins THEN t
                                     ELSE IF old = None THEN None ELSE old.name_seen_at
<1> DEFINE old  == T[p]
           wins == old = None \/ old.name_seen_at = None \/ t >= old.name_seen_at
           row  == [ first_seen_at |-> IF old = None \/ t < old.first_seen_at
                                       THEN t ELSE old.first_seen_at,
                     last_seen_at  |-> IF old = None \/ t > old.last_seen_at
                                       THEN t ELSE old.last_seen_at,
                     name          |-> IF name # None /\ wins THEN name
                                       ELSE IF old = None THEN None ELSE old.name,
                     name_seen_at  |-> IF name # None /\ wins THEN t
                                       ELSE IF old = None THEN None ELSE old.name_seen_at ]
<1>1. row \in InstanceRows
  <2>1. old \in InstanceRows \cup {None}
    OBVIOUS
  <2> QED BY <2>1 DEF InstanceRows
<1>2. row # None
  BY <1>1, RowsAssumption
<1>3. UpsertInstance(T, p, name, t)[p] = row
  <2>1. UpsertInstance(T, p, name, t) = [T EXCEPT ![p] = row]
    BY DEF UpsertInstance
  <2> HIDE DEF row
  <2> QED BY <2>1
<1> QED BY <1>2, <1>3

\* The row of another publisher is left alone; the row of this one is there
\* and takes in the event.
LEMMA UpsertReports ==
    ASSUME NEW T \in [Pubkeys -> InstanceRows \cup {None}], NEW e \in Events,
           NEW name \in Names \cup {None}, NEW p \in Pubkeys,
           NEW S, NEW C \in SUBSET Events
    PROVE  LET new == UpsertInstance(T, e.pubkey, name, e.at)[p] IN
           /\ p # e.pubkey => new = T[p]
           /\ p = e.pubkey /\ Reports(T[p], S) => Reports(new, S \cup {e})
           /\ p = e.pubkey /\ Spans(T[p], C) => Spans(new, C \cup {e})
<1> DEFINE new == UpsertInstance(T, e.pubkey, name, e.at)[p]
<1>0. e.pubkey \in Pubkeys /\ e.at \in 0 .. Horizon
  BY EventsAssumption DEF EventRecords
<1>1. p # e.pubkey => new = T[p]
  BY <1>0 DEF UpsertInstance
<1>2. ASSUME p = e.pubkey
      PROVE  /\ new # None
             /\ T[p] = None => new.first_seen_at = e.at /\ new.last_seen_at = e.at
             /\ T[p] # None =>
                  /\ new.first_seen_at = IF e.at < T[p].first_seen_at THEN e.at
                                         ELSE T[p].first_seen_at
                  /\ new.last_seen_at = IF e.at > T[p].last_seen_at THEN e.at
                                        ELSE T[p].last_seen_at
  BY <1>0, <1>2, UpsertRow
<1>3. T[p] # None => T[p].first_seen_at \in Int /\ T[p].last_seen_at \in Int
  BY DEF InstanceRows
<1>4. ASSUME p = e.pubkey, Reports(T[p], S) PROVE Reports(new, S \cup {e})
  <2> HIDE DEF new
  <2> QED BY <1>2, <1>4 DEF Reports
<1>5. ASSUME p = e.pubkey, Spans(T[p], C) PROVE Spans(new, C \cup {e})
  <2> HIDE DEF new
  <2>1. \A f \in C : f.at \in Int
    BY EventsAssumption DEF EventRecords
  <2> QED BY <1>0, <1>2, <1>3, <1>5, <2>1 DEF Spans
<1> QED BY <1>1, <1>4, <1>5

\* An upsert that names the publisher dates and takes the name unless a
\* later one is known; one that does not leaves the name alone.
LEMMA UpsertReportsName ==
    ASSUME NEW T \in [Pubkeys -> InstanceRows \cup {None}], NEW e \in Events,
           NEW name \in {e.name, None}, NEW p \in Pubkeys,
           NEW S, NEW C \in SUBSET Events
    PROVE  LET new == UpsertInstance(T, e.pubkey, name, e.at)[p]
               N == IF name = None THEN {} ELSE {e} IN
           /\ p # e.pubkey => new = T[p]
           /\ p = e.pubkey /\ ReportsName(T[p], S) => ReportsName(new, S \cup N)
           /\ p = e.pubkey /\ SpansNames(T[p], C) => SpansNames(new, C \cup N)
<1> DEFINE new == UpsertInstance(T, e.pubkey, name, e.at)[p]
           N == IF name = None THEN {} ELSE {e}
<1>0. e.pubkey \in Pubkeys /\ e.at \in 0 .. Horizon /\ name \in Names \cup {None}
  BY EventsAssumption DEF EventRecords
<1>1. p # e.pubkey => new = T[p]
  BY <1>0 DEF UpsertInstance
<1>2. ASSUME p = e.pubkey
      PROVE  LET wins == T[p] = None \/ T[p].name_seen_at = None \/ e.at >= T[p].name_seen_at
             IN  /\ new # None
                 /\ name # None /\ wins => new.name = name /\ new.name_seen_at = e.at
                 /\ ~(name # None /\ wins) /\ T[p] = None =>
                       new.name = None /\ new.name_seen_at = None
                 /\ ~(name # None /\ wins) /\ T[p] # None =>
                       new.name = T[p].name /\ new.name_seen_at = T[p].name_seen_at
  BY <1>0, <1>2, UpsertRow
<1>3. /\ e.at # None
      /\ T[p] # None => T[p].name_seen_at \in Int \cup {None}
      /\ \A f \in C : f.at \in Int
  BY <1>0, EventsAssumption, ConstantsAssumption DEF InstanceRows, EventRecords
<1>4. ASSUME p = e.pubkey, ReportsName(T[p], S) PROVE ReportsName(new, S \cup N)
  <2> HIDE DEF new
  <2>1. CASE name # None /\ new.name_seen_at = e.at /\ new.name = name
    BY <1>2, <1>3, <1>4, <2>1 DEF ReportsName
  <2>2. CASE T[p] = None /\ new.name = None /\ new.name_seen_at = None
    BY <2>2 DEF ReportsName
  <2>3. CASE T[p] # None /\ new.name = T[p].name /\ new.name_seen_at = T[p].name_seen_at
    BY <1>4, <2>3 DEF ReportsName
  <2> QED BY <1>2, <1>4, <2>1, <2>2, <2>3
<1>5. ASSUME p = e.pubkey, SpansNames(T[p], C) PROVE SpansNames(new, C \cup N)
  <2> HIDE DEF new
  <2>1. CASE name = None
    BY <1>2, <1>3, <1>5, <2>1 DEF SpansNames
  <2>2. CASE name # None
    BY <1>0, <1>2, <1>3, <1>5, <2>2 DEF SpansNames
  <2> QED BY <2>1, <2>2
<1> QED BY <1>1, <1>4, <1>5

\* The same of the history of names.
LEMMA RecordReports ==
    ASSUME NEW T \in [Pubkeys -> [Names -> (0 .. Horizon) \cup {None}]], NEW e \in Events,
           e.name # None, NEW p \in Pubkeys, NEW n \in Names,
           NEW S, NEW C \in SUBSET Events
    PROVE  LET new == RecordName(T, e.pubkey, e.name, e.at)[p][n]
               mine == p = e.pubkey /\ n = e.name IN
           /\ ~mine => new = T[p][n]
           /\ mine /\ ReportsUse(T[p][n], S) => ReportsUse(new, S \cup {e})
           /\ mine /\ SpansUses(T[p][n], C) => SpansUses(new, C \cup {e})
<1> DEFINE new == RecordName(T, e.pubkey, e.name, e.at)[p][n]
           mine == p = e.pubkey /\ n = e.name
<1>0. /\ e.pubkey \in Pubkeys /\ e.at \in 0 .. Horizon /\ e.name \in Names
      /\ e.at # None
      /\ \A f \in C : f.at \in Int
  BY EventsAssumption, ConstantsAssumption DEF EventRecords
<1>1. ~mine => new = T[p][n]
  BY <1>0 DEF RecordName
<1>2. mine => new = IF T[p][n] # None /\ T[p][n] >= e.at THEN T[p][n] ELSE e.at
  BY <1>0 DEF RecordName
<1>3. T[p][n] \in Int \cup {None}
  OBVIOUS
<1> HIDE DEF new
<1>4. mine /\ ReportsUse(T[p][n], S) => ReportsUse(new, S \cup {e})
  BY <1>2 DEF ReportsUse
<1>5. mine /\ SpansUses(T[p][n], C) => SpansUses(new, C \cup {e})
  BY <1>0, <1>2, <1>3 DEF SpansUses
<1> QED BY <1>1, <1>4, <1>5 DEF new

-----------------------------------------------------------------------------
(* Every step keeps the invariant.                                         *)

\* Step 7's writes, for an event that is new or that a rebuild replays.
LEMMA PersistBestiary ==
    ASSUME BestiaryInv, NEW e \in Events, e \in readable, Persist(e),
           events' = events \cup {e}, replaying' = replaying \ {e},
           UNCHANGED <<pc, stale, readable, heartbeats, forgotten>>
    PROVE  InstancesInv' /\ NamesInv'
<1>0. /\ TypeOK
      /\ e.pubkey \in Pubkeys /\ e.name \in Names \cup {None} /\ e.at \in 0 .. Horizon
  BY EventsAssumption DEF BestiaryInv, EventRecords
<1> DEFINE M == IF e.name = None THEN {} ELSE {e}
<1>1. instances' = UpsertInstance(instances, e.pubkey, e.name, e.at)
  BY DEF Persist
<1>2. ASSUME NEW p \in Pubkeys
      PROVE  /\ Beats(p)' = Beats(p)
             /\ p # e.pubkey => /\ Sightings(p)' = Sightings(p)
                                /\ Named(p)' = Named(p)
                                /\ Archived(p)' \ replaying' = Archived(p) \ replaying
                                /\ Named(p)' \ replaying' = Named(p) \ replaying
             /\ p = e.pubkey => /\ Sightings(p)' = Sightings(p) \cup {e}
                                /\ Named(p)' = Named(p) \cup M
                                /\ Archived(p)' \ replaying' = (Archived(p) \ replaying) \cup {e}
                                /\ Named(p)' \ replaying' = (Named(p) \ replaying) \cup M
  BY DEF Beats, Sightings, Named, Archived
<1>3. ASSUME NEW p \in Pubkeys
      PROVE  /\ Beats(p) \in SUBSET Events
             /\ Archived(p) \ replaying \in SUBSET Events
             /\ Named(p) \ replaying \in SUBSET Events
  BY <1>0 DEF TypeOK, Beats, Archived, Named
<1>4. InstancesInv'
  <2> SUFFICES ASSUME pc \in {"load", "replay"} \cup SweepPcs \/ ~stale,
                      NEW p \in Pubkeys
               PROVE  /\ Reports(instances'[p], Sightings(p)')
                      /\ ReportsName(instances'[p], Named(p)')
                      /\ Spans(instances'[p], Beats(p)')
                      /\ pc # "load" => /\ Spans(instances'[p], Archived(p)' \ replaying')
                                        /\ SpansNames(instances'[p], Named(p)' \ replaying')
    BY DEF InstancesInv
  <2>1. /\ Reports(instances[p], Sightings(p))
        /\ ReportsName(instances[p], Named(p))
        /\ Spans(instances[p], Beats(p))
        /\ pc # "load" => /\ Spans(instances[p], Archived(p) \ replaying)
                          /\ SpansNames(instances[p], Named(p) \ replaying)
    BY DEF BestiaryInv, InstancesInv
  <2>2. CASE p # e.pubkey
    <3>1. instances'[p] = instances[p]
      BY <1>0, <1>1, <2>2 DEF UpsertInstance, TypeOK
    <3> QED BY <1>2, <2>1, <2>2, <3>1
  <2>3. CASE p = e.pubkey
    <3>0. instances \in [Pubkeys -> InstanceRows \cup {None}]
      BY <1>0 DEF TypeOK
    <3>1. Reports(instances'[p], Sightings(p) \cup {e})
      BY <1>0, <1>1, <1>3, <2>1, <2>3, <3>0, UpsertReports
    <3>2. ReportsName(instances'[p], Named(p) \cup M)
      BY <1>0, <1>1, <1>3, <2>1, <2>3, <3>0, UpsertReportsName
    <3>3. Spans(instances'[p], Beats(p) \cup {e})
      BY <1>0, <1>1, <1>3, <2>1, <2>3, <3>0, UpsertReports
    <3>4. Spans(instances'[p], Beats(p))
      BY <3>3 DEF Spans
    <3>5. pc # "load" => Spans(instances'[p], (Archived(p) \ replaying) \cup {e})
      BY <1>0, <1>1, <1>3, <2>1, <2>3, <3>0, UpsertReports
    <3>6. pc # "load" => SpansNames(instances'[p], (Named(p) \ replaying) \cup M)
      BY <1>0, <1>1, <1>3, <2>1, <2>3, <3>0, UpsertReportsName
    <3> QED BY <1>2, <2>3, <3>1, <3>2, <3>4, <3>5, <3>6
  <2> QED BY <2>2, <2>3
<1>5. NamesInv'
  <2> SUFFICES ASSUME pc \in {"instances", "load", "replay"} \cup SweepPcs \/ ~stale,
                      NEW p \in Pubkeys, NEW n \in Names
               PROVE  /\ ReportsUse(instance_names'[p][n], Uses(p, n)')
                      /\ pc \notin {"instances", "load"} =>
                            SpansUses(instance_names'[p][n], Uses(p, n)' \ replaying')
    BY DEF NamesInv
  <2>1. /\ ReportsUse(instance_names[p][n], Uses(p, n))
        /\ pc \notin {"instances", "load"} =>
              SpansUses(instance_names[p][n], Uses(p, n) \ replaying)
    BY DEF BestiaryInv, NamesInv
  <2>2. CASE ~(e.name # None /\ p = e.pubkey /\ n = e.name)
    <3>1. instance_names'[p][n] = instance_names[p][n]
      <4>1. CASE e.name = None
        BY <4>1 DEF Persist
      <4>2. CASE e.name # None
        BY <1>0, <2>2, <4>2 DEF Persist, RecordName, TypeOK
      <4> QED BY <4>1, <4>2
    <3>2. Uses(p, n)' = Uses(p, n) /\ Uses(p, n)' \ replaying' = Uses(p, n) \ replaying
      BY <2>2, ConstantsAssumption DEF Uses, Named
    <3> QED BY <2>1, <3>1, <3>2
  <2>3. CASE e.name # None /\ p = e.pubkey /\ n = e.name
    <3>1. /\ Uses(p, n)' = Uses(p, n) \cup {e}
          /\ Uses(p, n)' \ replaying' = (Uses(p, n) \ replaying) \cup {e}
      BY <2>3 DEF Uses, Named
    <3>2. instance_names' = RecordName(instance_names, e.pubkey, e.name, e.at)
      BY <2>3 DEF Persist
    <3>3. Uses(p, n) \ replaying \in SUBSET Events
      BY <1>0 DEF TypeOK, Uses, Named
    <3>4. instance_names \in [Pubkeys -> [Names -> (0 .. Horizon) \cup {None}]]
      BY <1>0 DEF TypeOK
    <3>5. ReportsUse(instance_names'[p][n], Uses(p, n) \cup {e})
      BY <2>1, <2>3, <3>2, <3>3, <3>4, RecordReports
    <3>6. pc \notin {"instances", "load"} =>
             SpansUses(instance_names'[p][n], (Uses(p, n) \ replaying) \cup {e})
      BY <2>1, <2>3, <3>2, <3>3, <3>4, RecordReports
    <3> QED BY <3>1, <3>5, <3>6
  <2> QED BY <2>2, <2>3
<1> QED BY <1>4, <1>5

\* A heartbeat that is dropped is a sighting and no use of a name.
LEMMA BeatBestiary ==
    ASSUME BestiaryInv, NEW i \in Ingesters, SkipRedundant(i)
    PROVE  InstancesInv' /\ NamesInv'
<1> USE DEF rebuilding
<1>0. TypeOK
  BY DEF BestiaryInv
<1>1. PICK e \in Events : e = job[i].event
  BY <1>0 DEF TypeOK, SkipRedundant
<1>2. /\ instances' = UpsertInstance(instances, e.pubkey, None, e.at)
      /\ heartbeats' = heartbeats \cup {e} /\ forgotten' = forgotten \ {e}
      /\ UNCHANGED <<events, readable, instance_names, pc, replaying, stale>>
  BY <1>1 DEF SkipRedundant
<1>3. e.pubkey \in Pubkeys /\ e.at \in 0 .. Horizon
  BY EventsAssumption DEF EventRecords
<1>4. NamesInv'
  BY <1>2 DEF BestiaryInv, NamesInv, Uses, Named
<1>5. InstancesInv'
  <2> SUFFICES ASSUME pc \in {"load", "replay"} \cup SweepPcs \/ ~stale,
                      NEW p \in Pubkeys
               PROVE  /\ Reports(instances'[p], Sightings(p)')
                      /\ ReportsName(instances'[p], Named(p)')
                      /\ Spans(instances'[p], Beats(p)')
                      /\ pc # "load" => /\ Spans(instances'[p], Archived(p)' \ replaying')
                                        /\ SpansNames(instances'[p], Named(p)' \ replaying')
    BY <1>2 DEF InstancesInv
  <2>1. /\ Reports(instances[p], Sightings(p))
        /\ ReportsName(instances[p], Named(p))
        /\ Spans(instances[p], Beats(p))
        /\ pc # "load" => /\ Spans(instances[p], Archived(p) \ replaying)
                          /\ SpansNames(instances[p], Named(p) \ replaying)
    BY DEF BestiaryInv, InstancesInv
  <2>2. /\ Named(p)' = Named(p) /\ Archived(p)' = Archived(p) /\ replaying' = replaying
        /\ p # e.pubkey => Sightings(p)' = Sightings(p) /\ Beats(p)' = Beats(p)
        /\ p = e.pubkey => /\ Sightings(p)' = Sightings(p) \cup {e}
                           /\ Beats(p)' = Beats(p) \cup {e}
    BY <1>2 DEF Named, Archived, Sightings, Beats
  <2>3. CASE p # e.pubkey
    <3>1. instances'[p] = instances[p]
      BY <1>0, <1>2, <1>3, <2>3 DEF UpsertInstance, TypeOK
    <3> QED BY <2>1, <2>2, <2>3, <3>1
  <2>4. CASE p = e.pubkey
    <3>0. /\ instances \in [Pubkeys -> InstanceRows \cup {None}]
          /\ Beats(p) \in SUBSET Events
          /\ Archived(p) \ replaying \in SUBSET Events
          /\ Named(p) \ replaying \in SUBSET Events
      BY <1>0 DEF TypeOK, Beats, Archived, Named
    <3>1. Reports(instances'[p], Sightings(p) \cup {e})
      BY <1>2, <2>1, <2>4, <3>0, UpsertReports
    <3>2. Spans(instances'[p], Beats(p) \cup {e})
      BY <1>2, <2>1, <2>4, <3>0, UpsertReports
    <3>3. pc # "load" => Spans(instances'[p], (Archived(p) \ replaying) \cup {e})
      BY <1>2, <2>1, <2>4, <3>0, UpsertReports
    <3>4. pc # "load" => Spans(instances'[p], Archived(p) \ replaying)
      BY <3>3 DEF Spans
    <3>5. ReportsName(instances'[p], Named(p) \cup {})
      BY <1>2, <2>1, <2>4, <3>0, UpsertReportsName
    <3>6. pc # "load" => SpansNames(instances'[p], (Named(p) \ replaying) \cup {})
      BY <1>2, <2>1, <2>4, <3>0, UpsertReportsName
    <3>7. Named(p) \cup {} = Named(p) /\ (Named(p) \ replaying) \cup {} = Named(p) \ replaying
      OBVIOUS
    <3> QED BY <2>2, <2>4, <3>1, <3>2, <3>4, <3>5, <3>6, <3>7
  <2> QED BY <2>3, <2>4
<1> QED BY <1>4, <1>5

\* Nobody has been seen in an empty database.
LEMMA BestiaryInvInit == Init => BestiaryInv
<1> SUFFICES ASSUME Init PROVE BestiaryInv
  OBVIOUS
<1>1. \A p \in Pubkeys : /\ instances[p] = None /\ Beats(p) = {} /\ Archived(p) = {}
                         /\ Named(p) = {}
                         /\ \A n \in Names : instance_names[p][n] = None /\ Uses(p, n) = {}
  BY DEF Init, Beats, Archived, Named, Uses
<1>2. InstancesInv
  BY <1>1 DEF InstancesInv, Reports, ReportsName, Spans, SpansNames
<1>3. NamesInv
  BY <1>1 DEF NamesInv, ReportsUse, SpansUses
<1> QED BY <1>2, <1>3, TypeOKInit DEF BestiaryInv, Init

\* Every statement of an ingest or a rebuild keeps the inductive invariant.
LEMMA BestiaryInvNext == BestiaryInv /\ [Next]_vars => BestiaryInv'
<1> SUFFICES ASSUME BestiaryInv, [Next]_vars PROVE BestiaryInv'
  OBVIOUS
<1>0. TypeOK /\ TypeOK'
  BY TypeOKNext DEF BestiaryInv
<1> USE DEF rebuilding, tables, history
<1> DEFINE seen == <<instances, instance_names, events \cap readable, heartbeats, forgotten>>
<1>1. ASSUME UNCHANGED <<seen, pc, stale, replaying>>
      PROVE  InstancesInv' /\ NamesInv'
  <2>1. \A p : /\ Sightings(p)' = Sightings(p) /\ Named(p)' = Named(p)
               /\ Beats(p)' = Beats(p) /\ Archived(p)' = Archived(p)
               /\ \A n : Uses(p, n)' = Uses(p, n)
    BY <1>1 DEF Sightings, Named, Beats, Archived, Uses
  <2> QED BY <1>1, <2>1 DEF BestiaryInv, InstancesInv, NamesInv
<1>2. ASSUME NEW i \in Ingesters,
             (\E e \in Events, r \in Relays : Receive(i, e, r)) \/ SkipDuplicate(i) \/ Fail(i)
      PROVE  BestiaryInv'
  BY <1>0, <1>1, <1>2 DEF Receive, SkipDuplicate, Fail, BestiaryInv
<1>3. ASSUME NEW i \in Ingesters, ArchiveUnreadable(i) PROVE BestiaryInv'
  <2>1. events' \cap readable' = events \cap readable
    BY <1>3 DEF ArchiveUnreadable
  <2>2. InstancesInv' /\ NamesInv'
    BY <1>1, <1>3, <2>1 DEF ArchiveUnreadable
  <2> QED BY <1>0, <1>3, <2>2 DEF ArchiveUnreadable, BestiaryInv
<1>4. ASSUME NEW i \in Ingesters, SkipRedundant(i) PROVE BestiaryInv'
  <2>1. InstancesInv' /\ NamesInv'
    BY <1>4, BeatBestiary
  <2> QED BY <1>0, <1>4, <2>1 DEF SkipRedundant, BestiaryInv
<1>5. ASSUME NEW i \in Ingesters, Store(i) PROVE BestiaryInv'
  <2>1. PICK e \in Events : e = job[i].event
    BY <1>0, <1>5 DEF TypeOK, Store
  <2>2. /\ Persist(e) /\ e \in readable /\ events' = events \cup {e} /\ e \notin events
        /\ UNCHANGED <<pc, replaying, stale, readable, heartbeats, forgotten>>
    BY <1>5, <2>1 DEF Store
  <2>3. replaying' = replaying \ {e}
    BY <2>2 DEF BestiaryInv
  <2>4. InstancesInv' /\ NamesInv'
    BY <2>2, <2>3, PersistBestiary
  <2> QED BY <1>0, <2>2, <2>4 DEF BestiaryInv
<1>6. ASSUME NEW u \in Relays, Connect(u) PROVE BestiaryInv'
  BY <1>0, <1>1, <1>6 DEF Connect, BestiaryInv
<1>7. ASSUME pc' \in {"idle", "order", "dispute", "dev_fee", "info", "rates", "orders",
                     "disputes", "instance_names"},
             stale'
      PROVE  InstancesInv' /\ NamesInv'
  BY <1>7 DEF InstancesInv, NamesInv, SweepPcs
<1>8. ASSUME NEW fromRaw \in RebuildModes, StartRebuild(fromRaw) PROVE BestiaryInv'
  BY <1>0, <1>7, <1>8 DEF StartRebuild, BestiaryInv
<1>9. CASE ClearVersions \/ ClearOrders \/ ClearDisputes
  <2>1. /\ pc' \in {"dispute", "dev_fee", "info", "rates", "orders", "disputes",
                    "instance_names"}
        /\ pc # "idle" /\ pc # "replay"
        /\ UNCHANGED <<stale, replaying, events>>
    BY <1>9 DEF ClearVersions, ClearOrders, ClearDisputes, AfterClear, VersionedKinds, Kinds
  <2>2. stale'
    BY <1>0, <2>1 DEF BestiaryInv, TypeOK
  <2> QED BY <1>0, <1>7, <2>1, <2>2 DEF BestiaryInv
<1>10. CASE ClearInstanceNames
  <2>1. stale' /\ pc' = "instances"
    BY <1>0, <1>10 DEF ClearInstanceNames, BestiaryInv, TypeOK
  <2>2. InstancesInv'
    BY <2>1 DEF InstancesInv, SweepPcs
  <2>3. NamesInv'
    BY <1>10, <2>1 DEF ClearInstanceNames, NamesInv, ReportsUse
  <2> QED BY <1>0, <1>10, <2>2, <2>3 DEF ClearInstanceNames, BestiaryInv
<1>11. CASE ClearInstances
  <2>1. stale' /\ pc' = "load" /\ pc = "instances"
    BY <1>0, <1>11 DEF ClearInstances, BestiaryInv, TypeOK
  <2>2. \A p \in Pubkeys : instances'[p] = None /\ Beats(p)' = {}
    BY <1>11 DEF ClearInstances, Beats
  <2>3. InstancesInv'
    BY <2>1, <2>2 DEF InstancesInv, Reports, ReportsName, Spans
  <2>4. \A p, n : Uses(p, n)' = Uses(p, n)
    BY <1>11 DEF ClearInstances, Uses, Named
  <2>5. NamesInv'
    BY <1>11, <2>1, <2>4 DEF ClearInstances, BestiaryInv, NamesInv
  <2> QED BY <1>0, <1>11, <2>3, <2>5 DEF ClearInstances, BestiaryInv
<1>12. CASE LoadArchive
  <2>1. /\ stale' /\ pc = "load" /\ pc' = "replay" /\ replaying' = events
        /\ UNCHANGED <<events, readable, instances, instance_names, heartbeats, forgotten>>
    BY <1>0, <1>12 DEF LoadArchive, BestiaryInv, TypeOK
  <2>2. \A p : /\ Sightings(p)' = Sightings(p) /\ Named(p)' = Named(p) /\ Beats(p)' = Beats(p)
               /\ Archived(p)' \ replaying' = {} /\ Named(p)' \ replaying' = {}
               /\ \A n : Uses(p, n)' = Uses(p, n) /\ Uses(p, n)' \ replaying' = {}
    BY <2>1 DEF Sightings, Named, Beats, Archived, Uses
  <2>3. InstancesInv'
    BY <2>1, <2>2 DEF BestiaryInv, InstancesInv, Spans, SpansNames
  <2>4. NamesInv'
    BY <2>1, <2>2 DEF BestiaryInv, NamesInv, SpansUses
  <2> QED BY <1>0, <2>1, <2>3, <2>4 DEF BestiaryInv
<1>13. CASE Replay
  <2>1. PICK e \in Events : e = Oldest(replaying) /\ e \in replaying
    BY <1>0, <1>13, OldestType DEF Replay, TypeOK
  <2>2. /\ UNCHANGED <<pc, stale, events, readable, heartbeats, forgotten>>
        /\ replaying' = replaying \ {e} /\ pc = "replay" /\ e \in events
    BY <1>13, <2>1 DEF Replay, BestiaryInv
  <2>3. CASE e \in readable
    <3>1. Persist(e) /\ events' = events \cup {e}
      BY <1>13, <2>1, <2>2, <2>3 DEF Replay
    <3>2. InstancesInv' /\ NamesInv'
      BY <2>2, <2>3, <3>1, PersistBestiary
    <3> QED BY <1>0, <2>2, <3>2 DEF BestiaryInv
  <2>4. CASE e \notin readable
    <3>1. UNCHANGED <<instances, instance_names>>
      BY <1>13, <2>1, <2>4 DEF Replay
    <3>2. \A p : /\ Sightings(p)' = Sightings(p) /\ Named(p)' = Named(p) /\ Beats(p)' = Beats(p)
                 /\ Archived(p)' \ replaying' = Archived(p) \ replaying
                 /\ Named(p)' \ replaying' = Named(p) \ replaying
                 /\ \A n : /\ Uses(p, n)' = Uses(p, n)
                           /\ Uses(p, n)' \ replaying' = Uses(p, n) \ replaying
      BY <2>2, <2>4 DEF Sightings, Named, Beats, Archived, Uses
    <3>3. InstancesInv' /\ NamesInv'
      BY <2>2, <3>1, <3>2 DEF BestiaryInv, InstancesInv, NamesInv
    <3> QED BY <1>0, <2>2, <3>3 DEF BestiaryInv
  <2> QED BY <2>3, <2>4
<1>14. ASSUME UNCHANGED <<seen, stale, replaying>>, replaying = {},
              pc \in {"replay"} \cup SweepPcs, pc' \in SweepPcs
       PROVE  InstancesInv' /\ NamesInv'
  <2>1. \A p : /\ Sightings(p)' = Sightings(p) /\ Named(p)' = Named(p)
               /\ Beats(p)' = Beats(p) /\ Archived(p)' = Archived(p)
               /\ \A n : Uses(p, n)' = Uses(p, n)
    BY <1>14 DEF Sightings, Named, Beats, Archived, Uses
  <2> QED BY <1>14, <2>1 DEF BestiaryInv, InstancesInv, NamesInv, SweepPcs
<1>15. CASE BeginSweep
  <2>1. /\ pc \in {"replay"} \cup SweepPcs /\ pc' \in SweepPcs /\ replaying = {}
        /\ UNCHANGED <<seen, stale, replaying, events>>
    BY <1>15 DEF BeginSweep, BestiaryInv, SweepPcs
  <2>2. pc # "idle" /\ stale /\ pc' # "replay"
    BY <1>0, <2>1 DEF BestiaryInv, SweepPcs, TypeOK
  <2> QED BY <1>0, <1>14, <2>1, <2>2 DEF BestiaryInv
<1>16. ASSUME NEW id \in Keys, Sweep(id) PROVE BestiaryInv'
  BY <1>0, <1>1, <1>16 DEF Sweep, BestiaryInv
<1>17. CASE FinishRebuild
  <2>1. /\ pc = "sweep_fees" /\ pc' = "idle" /\ ~stale' /\ replaying = {}
        /\ UNCHANGED <<seen, replaying, events>>
    BY <1>17 DEF FinishRebuild, BestiaryInv
  <2>2. \A p : /\ Sightings(p)' = Sightings(p) /\ Named(p)' = Named(p)
               /\ Beats(p)' = Beats(p) /\ Archived(p)' = Archived(p)
               /\ \A n : Uses(p, n)' = Uses(p, n)
    BY <2>1 DEF Sightings, Named, Beats, Archived, Uses
  <2>3. InstancesInv' /\ NamesInv'
    BY <2>1, <2>2 DEF BestiaryInv, InstancesInv, NamesInv, SweepPcs
  <2> QED BY <1>0, <2>1, <2>3 DEF BestiaryInv
<1>18. CASE RebuildCrash
  <2>1. pc' = "idle" /\ stale'
    BY <1>0, <1>18 DEF RebuildCrash, BestiaryInv, TypeOK
  <2> QED BY <1>0, <1>7, <1>18, <2>1 DEF RebuildCrash, BestiaryInv
<1>19. ASSUME NEW e \in Events, Upgrade(e) PROVE BestiaryInv'
  BY <1>0, <1>7, <1>19 DEF Upgrade, BestiaryInv
<1>20. CASE UNCHANGED vars
  BY <1>0, <1>1, <1>20 DEF vars, BestiaryInv
<1> QED
  BY <1>2, <1>3, <1>4, <1>5, <1>6, <1>8, <1>9, <1>10, <1>11, <1>12, <1>13,
     <1>15, <1>16, <1>17, <1>18, <1>19, <1>20 DEF Next, RebuildStep

\* What the invariant says of one row once nothing is left to replay.
LEMMA RowIsRight ==
    ASSUME BestiaryInv, ~stale, NEW p \in Pubkeys
    PROVE  /\ Sightings(p) = {} <=> instances[p] = None
           /\ Sightings(p) # {} =>
                 /\ instances[p].last_seen_at = Max({e.at : e \in Sightings(p)})
                 /\ (\E e \in Archived(p) : \A f \in Sightings(p) : e.at <= f.at)
                       => instances[p].first_seen_at = Min({e.at : e \in Archived(p)})
                 /\ Named(p) = {}
                       => instances[p].name = None /\ instances[p].name_seen_at = None
                 /\ Named(p) # {}
                       => instances[p].name_seen_at = Max({e.at : e \in Named(p)})
                 /\ \A e \in Named(p) :
                       (\A f \in Named(p) : f.at < e.at \/ (f.at = e.at /\ f.name = e.name))
                           => instances[p].name = e.name
<1> DEFINE row == instances[p]
           S == Sightings(p)
           A == Archived(p)
           N == Named(p)
<1>0. pc = "idle" /\ replaying = {}
  BY DEF BestiaryInv
<1>1. Reports(row, S) /\ ReportsName(row, N) /\ Spans(row, S) /\ SpansNames(row, N)
  <2>1. /\ Reports(row, S) /\ ReportsName(row, N) /\ Spans(row, Beats(p))
        /\ Spans(row, A) /\ SpansNames(row, N)
    BY <1>0 DEF BestiaryInv, InstancesInv
  <2>2. S = Beats(p) \cup A
    BY DEF Sightings, Beats, Archived
  <2>3. Spans(row, S)
    BY <2>1, <2>2 DEF Spans
  <2> QED BY <2>1, <2>3
<1>2. /\ S \in SUBSET Events /\ N \subseteq S /\ A \subseteq S
      /\ \A e \in S : e.at \in Nat
      /\ {e.at : e \in S} \in SUBSET Nat /\ {e.at : e \in N} \in SUBSET Nat
      /\ {e.at : e \in A} \in SUBSET Nat
  BY EventsAssumption DEF BestiaryInv, TypeOK, Sightings, Archived, Named, EventRecords
<1> HIDE DEF row, S, A, N
<1>3. S = {} <=> row = None
  BY <1>1 DEF Reports, Spans
<1>4. ASSUME S # {} PROVE row.last_seen_at = Max({e.at : e \in S})
  <2>1. row.last_seen_at \in {e.at : e \in S}
    BY <1>1, <1>3, <1>4 DEF Reports
  <2>2. \A t \in {e.at : e \in S} : t <= row.last_seen_at
    BY <1>1 DEF Spans
  <2> QED BY <1>2, <2>1, <2>2, MaxIs
<1>5. ASSUME NEW e \in A, \A f \in S : e.at <= f.at
      PROVE  row.first_seen_at = Min({a.at : a \in A})
  <2>1. e \in S
    BY <1>2
  <2>2. PICK g \in S : row.first_seen_at = g.at
    BY <1>1, <1>3, <2>1 DEF Reports
  <2>3. row.first_seen_at <= e.at
    BY <1>1, <2>1 DEF Spans
  <2>4. row.first_seen_at = e.at
    BY <1>2, <1>5, <2>1, <2>2, <2>3
  <2>5. \A t \in {a.at : a \in A} : row.first_seen_at <= t
    BY <1>1, <1>2 DEF Spans
  <2> QED BY <1>2, <2>4, <2>5, MinIs
<1>6. ASSUME S # {}, N = {}
      PROVE  row.name = None /\ row.name_seen_at = None
  BY <1>1, <1>3, <1>6 DEF ReportsName
<1>7. ASSUME N # {}
      PROVE  /\ row.name_seen_at = Max({e.at : e \in N})
             /\ \E e \in N : e.at = row.name_seen_at /\ e.name = row.name
             /\ \A e \in N : e.at <= row.name_seen_at
  <2>1. row # None /\ row.name_seen_at # None
    BY <1>1, <1>7 DEF SpansNames
  <2>2. \E e \in N : e.at = row.name_seen_at /\ e.name = row.name
    BY <1>1, <2>1 DEF ReportsName
  <2>3. \A e \in N : e.at <= row.name_seen_at
    BY <1>1 DEF SpansNames
  <2>4. \A t \in {e.at : e \in N} : t <= row.name_seen_at
    BY <2>3
  <2> QED BY <1>2, <2>2, <2>3, <2>4, MaxIs
<1>8. ASSUME NEW e \in N, \A f \in N : f.at < e.at \/ (f.at = e.at /\ f.name = e.name)
      PROVE  row.name = e.name
  <2>1. PICK g \in N : g.at = row.name_seen_at /\ g.name = row.name
    BY <1>7
  <2>2. e.at <= g.at /\ e.at \in Nat /\ g.at \in Nat
    BY <1>2, <1>7, <2>1
  <2> QED BY <1>8, <2>1, <2>2
<1> QED BY <1>3, <1>4, <1>5, <1>6, <1>7, <1>8 DEF row, S, A, N

\* And of one name of the history.
LEMMA NameIsRight ==
    ASSUME BestiaryInv, ~stale, NEW p \in Pubkeys, NEW n \in Names
    PROVE  LET uses == {e.at : e \in {f \in Named(p) : f.name = n}}
           IN  instance_names[p][n] = IF uses = {} THEN None ELSE Max(uses)
<1> DEFINE t == instance_names[p][n]
           U == Uses(p, n)
           uses == {e.at : e \in U}
<1>1. ReportsUse(t, U) /\ SpansUses(t, U)
  BY DEF BestiaryInv, NamesInv
<1>2. uses \in SUBSET Nat
  BY EventsAssumption DEF BestiaryInv, TypeOK, Uses, Named, EventRecords
<1>3. U = {f \in Named(p) : f.name = n}
  BY DEF Uses
<1> HIDE DEF t, U
<1>4. U = {} => t = None
  BY <1>1 DEF ReportsUse
<1>5. U # {} => t \in uses /\ \A s \in uses : s <= t
  BY <1>1 DEF ReportsUse, SpansUses
<1>6. U # {} => t = Max(uses)
  BY <1>2, <1>5, MaxIs
<1> QED BY <1>3, <1>4, <1>6 DEF t

\* Whenever no rebuild is owed, an instance was last seen at its latest
\* sighting, the heartbeats dropped since the last rebuild included, and first
\* seen at its oldest archived one unless a dropped one is older; it has the
\* latest name, where one name is the latest, and every name is dated by its
\* latest use.
THEOREM BestiaryCorrect == Spec => []Bestiary
<1>1. BestiaryInv => Bestiary
  BY RowIsRight, NameIsRight DEF Bestiary
<1> QED BY <1>1, BestiaryInvInit, BestiaryInvNext, PTL DEF Spec

-----------------------------------------------------------------------------
(* Heartbeat retention.                                                    *)

\* An announcement that repeats the previous one has it in the archive.
LEMMA RepeatedIsKept ==
    ASSUME TypeOK, NEW e \in Events, RepeatsPrevious(events, e)
    PROVE  \E f \in events : /\ f.pubkey = e.pubkey /\ f.kind = e.kind /\ f.key = e.key
                             /\ f.body = e.body /\ f.at <= e.at
<1> DEFINE earlier == {f \in events : /\ f.pubkey = e.pubkey /\ f.kind = e.kind
                                      /\ f.key = e.key /\ f.at <= e.at /\ f.id # e.id}
<1>1. earlier # {} /\ Newest(earlier).body = e.body
  BY DEF RepeatsPrevious
<1>2. Newest(earlier) \in earlier
  BY <1>1, NewestType DEF TypeOK
<1> QED BY <1>1, <1>2

\* Every step keeps, for each announcement it ever dropped, one that says
\* the same.
LEMMA FirstOfRunNext == TypeOK /\ FirstOfRunKept /\ [Next]_vars => FirstOfRunKept'
<1> SUFFICES ASSUME TypeOK, FirstOfRunKept, [Next]_vars PROVE FirstOfRunKept'
  OBVIOUS
<1>0. events \subseteq events'
  BY ArchiveGrows
<1> USE DEF rebuilding, tables, history
<1>1. ASSUME heartbeats' = heartbeats PROVE FirstOfRunKept'
  BY <1>0, <1>1 DEF FirstOfRunKept
<1>2. ASSUME NEW i \in Ingesters, SkipRedundant(i) PROVE FirstOfRunKept'
  <2>1. PICK e \in Events : e = job[i].event
    BY <1>2 DEF TypeOK, SkipRedundant
  <2>2. IsRedundant(events, versions, e) /\ heartbeats' = heartbeats \cup {e}
    BY <1>2, <2>1 DEF SkipRedundant
  <2>3. e.kind \in {"info", "relay_list"} => RepeatsPrevious(events, e)
    BY <2>2 DEF IsRedundant
  <2>4. e.kind \in {"info", "relay_list"} =>
           \E f \in events : /\ f.pubkey = e.pubkey /\ f.kind = e.kind /\ f.key = e.key
                             /\ f.body = e.body /\ f.at <= e.at
    BY <2>3, RepeatedIsKept
  <2> QED BY <1>0, <2>2, <2>4 DEF FirstOfRunKept
<1>3. ASSUME NEW i \in Ingesters,
             (\E e \in Events, r \in Relays : Receive(i, e, r)) \/ ArchiveUnreadable(i)
             \/ SkipDuplicate(i) \/ Store(i) \/ Fail(i)
      PROVE  heartbeats' = heartbeats
  BY <1>3 DEF Receive, ArchiveUnreadable, SkipDuplicate, Store, Fail
<1>4. CASE RebuildStep
  BY <1>1, <1>4
     DEF RebuildStep, ClearVersions, ClearOrders, ClearDisputes, ClearInstanceNames,
         ClearInstances, LoadArchive, Replay, BeginSweep, Sweep, FinishRebuild
<1>5. CASE \/ \E u \in Relays : Connect(u)
           \/ \E fromRaw \in RebuildModes : StartRebuild(fromRaw)
           \/ RebuildCrash
           \/ \E e \in Events \ readable : Upgrade(e)
           \/ UNCHANGED vars
  BY <1>1, <1>5 DEF Connect, StartRebuild, RebuildCrash, Upgrade, vars
<1> QED BY <1>1, <1>2, <1>3, <1>4, <1>5 DEF Next

\* Every info event or relay list that was ever dropped as a repetition is
\* preceded in the archive by one of the same publisher and address that
\* says the same, whatever a rebuild empties.
THEOREM FirstOfRunCorrect == Spec => []FirstOfRunKept
<1>1. Init => FirstOfRunKept
  BY DEF Init, FirstOfRunKept
<1> QED BY <1>1, FirstOfRunNext, TypeOKInit, TypeOKNext, PTL DEF Spec

\* What was readable at first stays so, which is all the hourly rule needs to
\* be inductive.
RatesInv ==
    /\ TypeOK
    /\ FirstReadable \subseteq readable
    /\ OneRatePerHour

\* A snapshot that step 6a lets through while the table is complete is the
\* first of its hour.
LEMMA NewHour ==
    ASSUME RatesInv, ~RatesBehind, NEW e \in Events, e.kind = "rates",
           ~IsRedundant(events, versions, e),
           NEW f \in events, f \in FirstReadable, f.kind = "rates", f.pubkey = e.pubkey,
           f.stamp \div RATES_BUCKET_SECS = e.stamp \div RATES_BUCKET_SECS
    PROVE  f = e
<1> DEFINE bucket == e.stamp - (e.stamp % RATES_BUCKET_SECS)
<1>1. f \in versions /\ f \in Events /\ e.stamp \in Nat /\ f.stamp \in Nat
  BY EventsAssumption DEF RatesInv, TypeOK, RatesBehind
<1>2. f.stamp >= bucket /\ f.stamp < bucket + RATES_BUCKET_SECS
  BY <1>1, ConstantsAssumption, SameBucket
<1>3. ~InHeldBucket(versions, e)
  BY DEF IsRedundant
<1>4. f.id = e.id
  BY <1>1, <1>2, <1>3 DEF InHeldBucket
<1> QED BY <1>1, <1>4, EventsAssumption

\* No step of an ingest or of a rebuild, from raw or not, loses it.
LEMMA RatesInvNext == RatesInv /\ [Next]_vars => RatesInv'
<1> SUFFICES ASSUME RatesInv, [Next]_vars PROVE RatesInv'
  OBVIOUS
<1>0. TypeOK /\ TypeOK'
  BY TypeOKNext DEF RatesInv
<1> USE DEF rebuilding, tables, history
<1>1. ASSUME events' \cap FirstReadable = events \cap FirstReadable,
             readable \subseteq readable', overlooked' = overlooked
      PROVE  RatesInv'
  BY <1>0, <1>1 DEF RatesInv, OneRatePerHour
<1>2. ASSUME NEW i \in Ingesters,
             (\E e \in Events, r \in Relays : Receive(i, e, r))
             \/ SkipRedundant(i) \/ SkipDuplicate(i) \/ Fail(i)
      PROVE  RatesInv'
  BY <1>1, <1>2 DEF Receive, SkipRedundant, SkipDuplicate, Fail
<1>3. ASSUME NEW i \in Ingesters, ArchiveUnreadable(i) PROVE RatesInv'
  BY <1>1, <1>3 DEF ArchiveUnreadable, RatesInv
<1>4. ASSUME NEW i \in Ingesters, Store(i) PROVE RatesInv'
  <2>1. PICK e \in Events : e = job[i].event
    BY <1>0, <1>4 DEF TypeOK, Store
  <2>2. /\ ~IsRedundant(events, versions, e) /\ events' = events \cup {e}
        /\ UNCHANGED readable
        /\ overlooked' = IF e.kind = "rates" /\ RatesBehind THEN overlooked \cup {e}
                         ELSE overlooked
    BY <1>4, <2>1 DEF Store
  <2>3. OneRatePerHour'
    <3> SUFFICES ASSUME NEW g \in events', NEW h \in events', g \in FirstReadable,
                        h \in FirstReadable, g.kind = "rates", h.kind = "rates",
                        g.pubkey = h.pubkey,
                        g.stamp \div RATES_BUCKET_SECS = h.stamp \div RATES_BUCKET_SECS,
                        g \notin overlooked', h \notin overlooked'
                 PROVE  g = h
      BY DEF OneRatePerHour
    <3>0. overlooked \subseteq overlooked'
      BY <2>2
    <3>1. CASE g \in events /\ h \in events
      BY <3>0, <3>1 DEF RatesInv, OneRatePerHour
    <3>2. CASE g = e /\ h \in events
      BY <2>2, <3>2, NewHour
    <3>3. CASE g \in events /\ h = e
      BY <2>2, <3>3, NewHour
    <3> QED BY <2>2, <3>1, <3>2, <3>3
  <2> QED BY <1>0, <2>2, <2>3 DEF RatesInv
<1>5. CASE RebuildStep
  BY <1>1, <1>5
     DEF RebuildStep, ClearVersions, ClearOrders, ClearDisputes, ClearInstanceNames,
         ClearInstances, LoadArchive, Replay, BeginSweep, Sweep, FinishRebuild
<1>6. CASE \/ \E u \in Relays : Connect(u)
           \/ \E fromRaw \in RebuildModes : StartRebuild(fromRaw)
           \/ RebuildCrash
           \/ \E e \in Events \ readable : Upgrade(e)
           \/ UNCHANGED vars
  BY <1>1, <1>6 DEF Connect, StartRebuild, RebuildCrash, Upgrade, vars
<1> QED BY <1>2, <1>3, <1>4, <1>5, <1>6 DEF Next

\* Of two archived snapshots of one publisher and hour, of those that could be
\* read when they came, one was stored while the table that the rule is asked
\* of lacked a snapshot the archive holds: outside the window that a rebuild
\* from raw opens, the archive holds at most one.
THEOREM OneRateCorrect == Spec => []OneRatePerHour
<1>1. Init => RatesInv
  <2> SUFFICES ASSUME Init PROVE RatesInv
    OBVIOUS
  <2>1. TypeOK
    BY TypeOKInit
  <2> QED BY <2>1 DEF Init, RatesInv, OneRatePerHour
<1>2. RatesInv => OneRatePerHour
  BY DEF RatesInv
<1> QED BY <1>1, <1>2, RatesInvNext, PTL DEF Spec
=============================================================================
