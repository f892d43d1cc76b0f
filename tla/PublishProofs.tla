---------------------------- MODULE PublishProofs ----------------------------
(***************************************************************************)
(* `publish`, for any archive, addresses, relays and clocks: the ceiling a *)
(* document states was loaded, a revision counts the changes of its        *)
(* document, and an index on a relay keeps its promise, whatever is        *)
(* refused, lost, pruned or left half done around it.                      *)
(***************************************************************************)
EXTENDS Publish, NumberFacts

-----------------------------------------------------------------------------
(* Types.                                                                  *)

Slots == Addresses \cup {"index"}

\* A first publication needs no reason, and every other has one.
Reasoned(row) == row.revision = 1 <=> row.because = None

\* What a relay serves under each address is a document, or the index.
ServedOK ==
    /\ served \in [Relays -> [Slots -> Documents \cup Indexes \cup {None}]]
    /\ \A r \in Relays :
          /\ \A d \in Addresses : served[r][d] \in Documents \cup {None}
          /\ served[r]["index"] \in Indexes \cup {None}

\* The rows the run is about to record are rows.
StateOK ==
    /\ DOMAIN state \subseteq Addresses
    /\ \A d \in DOMAIN state : state[d] \in DocumentRows /\ Reasoned(state[d])

\* The recorded rows are rows.
RecordOK ==
    /\ published_documents \in [Addresses -> DocumentRows \cup {None}]
    /\ \A d \in Addresses : published_documents[d] # None => Reasoned(published_documents[d])
    /\ latest_run \in RunRows \cup {None}

\* What the run read of the archive.
ReadOK ==
    /\ coverage \in Extents
    /\ loading \subseteq Kinds /\ loaded \subseteq Events /\ counted \in Nat

\* The archive, which is finite.
ArchiveOK ==
    /\ projected \subseteq archive /\ archive \subseteq Events /\ IsFiniteSet(archive)
    /\ indexed_from \in [Kinds -> {0, None}]
    /\ schema \in Versions

\* The addresses the run keeps track of.
SendOK ==
    /\ not_sent \cup pending \cup refusals \subseteq DOMAIN state
    /\ delivered \subseteq DOMAIN state
    /\ spoiled \subseteq Addresses /\ overtaken \subseteq Addresses

Typed ==
    /\ ServedOK /\ StateOK /\ RecordOK /\ ReadOK /\ ArchiveOK /\ SendOK
    /\ pc \in {"idle", "extent", "load", "compute", "send", "failed", "record"}
    /\ now \in Nat /\ stray \in Nat
    /\ pc = "extent" /\ loading # {} => coverage.floor \in Nat

\* The least created_at of a table is a time.
LEMMA FirstOfType ==
    ASSUME NEW S \in SUBSET Events
    PROVE  FirstOf(S) \in Nat \cup {None}
<1> DEFINE T == {e.at : e \in S}
<1>1. T \in SUBSET Nat
  BY PublishAssumption
<1>2. CASE S = {}
  BY <1>2 DEF FirstOf
<1>3. CASE S # {}
  <2>1. T # {}
    BY <1>3
  <2> HIDE DEF T
  <2>2. Min(T) \in T
    BY <1>1, <2>1, MinType
  <2>3. FirstOf(S) = Min(T)
    BY <1>3 DEF FirstOf, T
  <2> QED BY <1>1, <2>2, <2>3
<1> QED BY <1>2, <1>3

\* The floor of a kind is a time, if it has one.
LEMMA KindFloorType ==
    ASSUME ArchiveOK, NEW k \in Kinds
    PROVE  KindFloor(k) \in Nat \cup {None}
<1>1. {e \in archive : e.kind = k} \in SUBSET Events
  BY DEF ArchiveOK
<1>2. FirstOf({e \in archive : e.kind = k}) \in Nat \cup {None}
  BY <1>1, FirstOfType
<1>3. indexed_from[k] \in Nat \cup {None}
  BY DEF ArchiveOK
<1> QED BY <1>2, <1>3 DEF KindFloor

\* The ceiling is that of an archived event, and an archive that holds one has
\* a first event.
LEMMA ExtentType ==
    ASSUME ArchiveOK
    PROVE  /\ FirstOf(archive) \in Nat \cup {None}
           /\ archive # {} => FirstOf(archive) \in Nat
           /\ LatestCreatedAt \in Nat \cup {None}
           /\ LatestCreatedAt # None => \E e \in archive : e.at = LatestCreatedAt
<1>1. FirstOf(archive) \in Nat \cup {None}
  BY FirstOfType DEF ArchiveOK
<1>2. ASSUME archive # {} PROVE FirstOf(archive) \in Nat
  <2>1. {e.at : e \in archive} \in SUBSET Nat /\ {e.at : e \in archive} # {}
    BY <1>2, PublishAssumption DEF ArchiveOK
  <2>2. Min({e.at : e \in archive}) \in {e.at : e \in archive}
    BY <2>1, MinType
  <2> QED BY <1>2, <2>1, <2>2 DEF FirstOf
<1>3. CASE archive = {}
  BY <1>1, <1>2, <1>3 DEF LatestCreatedAt
<1>4. CASE archive # {}
  <2> DEFINE T == {e.at : e \in archive}
             f == [e \in archive |-> e.at]
  <2>1. T \in SUBSET Nat /\ T # {}
    BY <1>4, PublishAssumption DEF ArchiveOK
  <2>2. T = {f[e] : e \in archive}
    OBVIOUS
  <2>3. LatestCreatedAt = Max(T)
    BY <1>4 DEF LatestCreatedAt
  <2>4. IsFiniteSet(T)
    <3> HIDE DEF f, T
    <3> QED BY <2>2, ColumnFinite DEF ArchiveOK
  <2>5. Max(T) \in T
    <3> HIDE DEF f, T
    <3> QED BY <2>1, <2>4, MaxType
  <2>6. \E e \in archive : e.at = LatestCreatedAt
    BY <2>3, <2>5
  <2>7. LatestCreatedAt \in Nat
    BY <2>1, <2>3, <2>5
  <2> QED BY <1>1, <1>2, <2>6, <2>7
<1> QED BY <1>3, <1>4

\* The figures of a document are figures.
LEMMA PayloadType ==
    ASSUME Typed, NEW d \in Addresses
    PROVE  Payload(d) \in Payloads
<1>1. schema \in Versions /\ coverage \in Extents /\ loaded \subseteq Events
  BY DEF Typed, ArchiveOK, ReadOK
<1>2. CASE d \in Windows
  <2>1. now \in Nat
    BY DEF Typed
  <2> QED BY <1>1, <1>2, <2>1 DEF Payload, Payloads
<1>3. CASE d \notin Windows
  <2> DEFINE covered == {t \in Period[d].from .. Period[d].until - 1 : Covers(t, t + 1)}
  <2>1. covered \in SUBSET Nat
    BY <1>3, PublishAssumption DEF Addresses
  <2>2. Payload(d) = [schema |-> schema, span |-> covered,
                      rows |-> {e \in loaded : e.at \in covered}, clock |-> 0]
    BY <1>3 DEF Payload
  <2> HIDE DEF covered
  <2> QED BY <1>1, <2>1, <2>2 DEF Payloads
<1> QED BY <1>2, <1>3

\* The row a document will leave behind is a row; against a recorded one it
\* is that row, or the next revision of other figures.
LEMMA AgainstFacts ==
    ASSUME Typed, NEW d \in Addresses
    PROVE  /\ Against(d) \in DocumentRows
           /\ Reasoned(Against(d))
           /\ Unchanged(d) => Against(d) = published_documents[d]
           /\ published_documents[d] # None =>
                 \/ Against(d) = published_documents[d]
                 \/ /\ Against(d).hash # published_documents[d].hash
                    /\ Against(d).revision = published_documents[d].revision + 1
<1>1. Payload(d) \in Payloads
  BY PayloadType
<1>2. Because \in Reasons /\ Because # None
  BY NoneAssumption DEF Because, Reasons
<1>3. now \in Nat
  BY DEF Typed
<1>4. CASE published_documents[d] = None
  <2>1. Against(d) = [hash |-> Payload(d), revision |-> 1, updated_at |-> now, because |-> None]
    BY <1>4 DEF Against
  <2> QED BY <1>1, <1>3, <1>4, <2>1 DEF DocumentRows, Reasons, Reasoned, Unchanged
<1>5. CASE published_documents[d] # None
  <2>1. published_documents[d] \in DocumentRows /\ Reasoned(published_documents[d])
    BY <1>5 DEF Typed, RecordOK
  <2>2. CASE published_documents[d].hash = Payload(d)
    BY <1>5, <2>1, <2>2 DEF Against, Unchanged
  <2>3. CASE published_documents[d].hash # Payload(d)
    <3>1. Against(d) = [hash |-> Payload(d), revision |-> published_documents[d].revision + 1,
                        updated_at |-> now, because |-> Because]
      BY <1>5, <2>3 DEF Against
    <3>2. published_documents[d].revision \in Nat \ {0}
      BY <2>1 DEF DocumentRows
    <3>3. published_documents[d].revision + 1 \in Nat \ {0, 1}
      BY <3>2
    <3> QED BY <1>1, <1>2, <1>3, <1>5, <2>3, <3>1, <3>3 DEF DocumentRows, Reasoned, Unchanged
  <2> QED BY <2>2, <2>3
<1> QED BY <1>4, <1>5

\* What is computed has an address.
LEMMA ComputedType ==
    Computed \subseteq Addresses
BY DEF Computed, Addresses

\* What a run signs.
SignedDocument(d) == [at |-> now, hash |-> state[d].hash, revision |-> state[d].revision]
SignedIndex == [at |-> now, documents |-> [d \in DOMAIN state |-> state[d].hash]]

\* A document that is sent replaces what some relays serve under its address.
LEMMA SendFacts ==
    ASSUME Typed, NEW d \in Addresses, NEW S \in SUBSET Relays, NEW A \in SUBSET S, NEW tie,
           Send(d, S, A, tie)
    PROVE  /\ SignedDocument(d) \in Documents /\ SignedDocument(d) # None
           /\ ServedOK'
           /\ \A r \in Relays, x \in Slots : x # d => served'[r][x] = served[r][x]
           /\ \A r \in Relays : served'[r][d] \in {SignedDocument(d), served[r][d]}
           /\ \A r \in S : served[r][d] = None \/ now > served[r][d].at =>
                              served'[r][d] = SignedDocument(d)
           /\ \A r \in Relays \ S : served'[r][d] = served[r][d]
           /\ spoiled' \in {spoiled, spoiled \ {d}, spoiled \cup {d}}
           /\ A = {} => spoiled' = spoiled
           /\ A # {} /\ d \notin spoiled' => \E r \in A : served'[r][d] = SignedDocument(d)
           /\ overtaken' \in {overtaken, overtaken \ {d}, overtaken \cup {d}}
           /\ now <= stray /\ S # {} => d \in overtaken'
           /\ d \notin overtaken' =>
                 \/ d \notin overtaken
                 \/ \E r \in S : served'[r][d] = SignedDocument(d)
<1> DEFINE event == SignedDocument(d)
<1>1. /\ d \in pending
      /\ served' = [r \in Relays |-> IF r \in S /\ Keeps(served[r][d], event, tie)
                                     THEN [served[r] EXCEPT ![d] = event] ELSE served[r]]
  BY DEF Send, SignedDocument
<1>2. state[d] \in DocumentRows
  BY <1>1 DEF Typed, StateOK, SendOK
<1>3. event \in Documents
  BY <1>2 DEF Typed, SignedDocument, Documents, DocumentRows
<1>4. event # None
  BY <1>3, NoneAssumption
<1>5. served \in [Relays -> [Slots -> Documents \cup Indexes \cup {None}]]
  BY DEF Typed, ServedOK
<1>6. d \in Slots /\ d # "index"
  BY PublishAssumption DEF Slots
<1> HIDE DEF event
<1>7. /\ \A r \in Relays, x \in Slots : x # d => served'[r][x] = served[r][x]
      /\ \A r \in Relays : served'[r][d] \in {event, served[r][d]}
      /\ \A r \in S : Keeps(served[r][d], event, tie) => served'[r][d] = event
      /\ \A r \in Relays \ S : served'[r][d] = served[r][d]
  BY <1>1, <1>5, <1>6
<1>8. served' \in [Relays -> [Slots -> Documents \cup Indexes \cup {None}]]
  BY <1>1, <1>3, <1>5, <1>6
<1>9. ServedOK'
  <2>1. \A r \in Relays : /\ \A x \in Addresses : served[r][x] \in Documents \cup {None}
                          /\ served[r]["index"] \in Indexes \cup {None}
    BY DEF Typed, ServedOK
  <2>2. \A r \in Relays : served'[r]["index"] = served[r]["index"]
    BY <1>6, <1>7 DEF Slots
  <2>3. \A r \in Relays, x \in Addresses : served'[r][x] \in Documents \cup {None}
    BY <1>3, <1>7, <2>1 DEF Slots
  <2> QED BY <1>8, <2>1, <2>2, <2>3 DEF ServedOK, Slots, Addresses, Documents, Indexes, Payloads, Extents
<1>10. /\ spoiled' = IF A = {} THEN spoiled
                     ELSE IF \E r \in A : served'[r][d] = event THEN spoiled \ {d}
                     ELSE spoiled \cup {d}
       /\ overtaken' = IF now <= stray /\ S # {} THEN overtaken \cup {d}
                       ELSE IF \E r \in A : served'[r][d] = event THEN overtaken \ {d}
                       ELSE overtaken
  BY DEF Send, SignedDocument, event
<1>11. \A r \in S : served[r][d] = None \/ now > served[r][d].at => served'[r][d] = event
  BY <1>7 DEF Keeps, event, SignedDocument
<1>12. /\ spoiled' \in {spoiled, spoiled \ {d}, spoiled \cup {d}}
       /\ A = {} => spoiled' = spoiled
       /\ A # {} /\ d \notin spoiled' => \E r \in A : served'[r][d] = event
  BY <1>10
<1>13. /\ overtaken' \in {overtaken, overtaken \ {d}, overtaken \cup {d}}
       /\ now <= stray /\ S # {} => d \in overtaken'
       /\ d \notin overtaken' => d \notin overtaken \/ \E r \in S : served'[r][d] = event
  BY <1>10
<1> QED BY <1>3, <1>4, <1>7, <1>9, <1>11, <1>12, <1>13 DEF event

\* The index that is sent replaces what some relays serve as the index.
LEMMA SendIndexFacts ==
    ASSUME Typed, NEW S \in SUBSET Relays, NEW A \in SUBSET S, NEW tie, SendIndex(S, A, tie)
    PROVE  /\ SignedIndex \in Indexes
           /\ ServedOK'
           /\ \A r \in Relays, d \in Addresses : served'[r][d] = served[r][d]
           /\ \A r \in Relays : served'[r]["index"] \in {SignedIndex, served[r]["index"]}
<1> DEFINE index == SignedIndex
<1>1. served' = [r \in Relays |-> IF r \in S /\ Keeps(served[r]["index"], index, tie)
                                  THEN [served[r] EXCEPT !["index"] = index] ELSE served[r]]
  BY DEF SendIndex, SignedIndex
<1>2. index \in Indexes
  <2>1. \A d \in DOMAIN state : state[d].hash \in Payloads
    BY DEF Typed, StateOK, DocumentRows
  <2>2. DOMAIN state \in SUBSET Addresses /\ now \in Nat
    BY DEF Typed, StateOK
  <2>3. [d \in DOMAIN state |-> state[d].hash] \in UNION {[D -> Payloads] : D \in SUBSET Addresses}
    BY <2>1, <2>2
  <2> QED BY <2>2, <2>3 DEF SignedIndex, Indexes
<1>3. served \in [Relays -> [Slots -> Documents \cup Indexes \cup {None}]]
  BY DEF Typed, ServedOK
<1>4. "index" \in Slots /\ "index" \notin Addresses /\ Addresses \subseteq Slots
  BY PublishAssumption DEF Slots
<1> HIDE DEF index
<1>5. /\ \A r \in Relays, d \in Addresses : served'[r][d] = served[r][d]
      /\ \A r \in Relays : served'[r]["index"] \in {index, served[r]["index"]}
  BY <1>1, <1>3, <1>4
<1>6. served' \in [Relays -> [Slots -> Documents \cup Indexes \cup {None}]]
  BY <1>1, <1>2, <1>3, <1>4
<1>7. \A r \in Relays : /\ \A x \in Addresses : served'[r][x] \in Documents \cup {None}
                        /\ served'[r]["index"] \in Indexes \cup {None}
  BY <1>2, <1>5 DEF Typed, ServedOK
<1>8. ServedOK'
  BY <1>6, <1>7 DEF ServedOK, Slots, Addresses, Documents, Indexes, Payloads, Extents
<1> QED BY <1>2, <1>5, <1>8 DEF index

\* The first state is typed.
LEMMA TypedInit ==
    Init => Typed
<1> SUFFICES ASSUME Init PROVE Typed
  OBVIOUS
<1>1. ServedOK
  BY DEF Init, ServedOK, Slots
<1>2. StateOK /\ SendOK
  BY DEF Init, StateOK, SendOK
<1>3. RecordOK
  BY DEF Init, RecordOK
<1>4. ReadOK
  BY DEF Init, ReadOK, Nowhere, Extents
<1>5. ArchiveOK
  BY FS_EmptySet, PublishAssumption DEF Init, ArchiveOK
<1> QED BY <1>1, <1>2, <1>3, <1>4, <1>5 DEF Init, Typed

\* A run that is over leaves nothing to type.
LEMMA OverTyped ==
    ASSUME Typed, Over, spoiled' \subseteq Addresses, overtaken' = overtaken
    PROVE  /\ StateOK' /\ SendOK' /\ ReadOK' /\ now' \in Nat
           /\ pc' \in {"idle", "extent", "load", "compute", "send", "failed", "record"}
<1>1. DOMAIN state' = {} /\ pc' = "idle" /\ now' = 0
  BY DEF Over
<1>2. StateOK' /\ SendOK'
  BY <1>1 DEF Over, Typed, StateOK, SendOK
<1>3. ReadOK'
  BY DEF Over, ReadOK, Nowhere, Extents
<1> QED BY <1>1, <1>2, <1>3

\* Every step keeps the tables, the relays and the run typed.
LEMMA TypedNext ==
    Typed /\ [Next]_vars => Typed'
<1> SUFFICES ASSUME Typed, [Next]_vars PROVE Typed'
  OBVIOUS
<1> USE DEF database, record, reading, snapshot, sending, history
<1>1. ASSUME NEW t \in Clocks, NEW force \in Republications, Begin(t, force) PROVE Typed'
  <2>0. /\ coverage' = [floor |-> FirstOf(archive), latest |-> None]
        /\ loading' = IF archive = {} THEN {} ELSE Kinds
    BY <1>1 DEF Begin
  <2>1. ReadOK' /\ (loading' # {} => coverage'.floor \in Nat)
    <3>1. /\ FirstOf(archive) \in Nat \cup {None}
          /\ archive # {} => FirstOf(archive) \in Nat
      BY ExtentType DEF Typed
    <3> QED BY <1>1, <2>0, <3>1 DEF Begin, ReadOK, Extents
  <2>2. t \in Nat
    BY PublishAssumption
  <2> QED BY <1>1, <2>1, <2>2 DEF Begin, Typed, ServedOK, StateOK, RecordOK, ArchiveOK, SendOK, Reasoned
<1>16. ASSUME NEW k \in Kinds, ReadFloor(k) PROVE Typed'
  <2>0. pc = "extent" /\ k \in loading /\ coverage \in Extents /\ coverage.floor \in Nat
    BY <1>16 DEF ReadFloor, Typed, ReadOK
  <2>1. KindFloor(k) \in Nat \cup {None}
    BY KindFloorType DEF Typed
  <2>2. ReadOK' /\ (loading' # {} => coverage'.floor \in Nat)
    <3>1. CASE KindFloor(k) = None
      BY <1>16, <3>1 DEF ReadFloor, Typed, ReadOK, Nowhere, Extents
    <3>2. CASE KindFloor(k) # None
      <4>1. coverage' = [coverage EXCEPT !.floor =
                            IF KindFloor(k) > coverage.floor THEN KindFloor(k) ELSE coverage.floor]
        BY <1>16, <3>2 DEF ReadFloor
      <4>2. coverage' \in Extents /\ coverage'.floor \in Nat
        BY <2>0, <2>1, <3>2, <4>1 DEF Extents
      <4> QED BY <1>16, <3>2, <4>2 DEF ReadFloor, Typed, ReadOK
    <3> QED BY <3>1, <3>2
  <2> QED BY <1>16, <2>2 DEF ReadFloor, Typed, ServedOK, StateOK, RecordOK, ArchiveOK, SendOK, Reasoned
<1>17. CASE ReadCeiling
  <2>1. ReadOK'
    <3>1. LatestCreatedAt \in Nat \cup {None} /\ coverage \in Extents
      BY ExtentType DEF Typed, ReadOK
    <3>2. coverage' = [coverage EXCEPT !.latest = LatestCreatedAt]
      BY <1>17 DEF ReadCeiling
    <3>3. coverage' \in Extents
      BY <3>1, <3>2 DEF Extents
    <3> QED BY <1>17, <3>3 DEF ReadCeiling, Typed, ReadOK
  <2> QED BY <1>17, <2>1 DEF ReadCeiling, Typed, ServedOK, StateOK, RecordOK, ArchiveOK, SendOK, Reasoned
<1>2. ASSUME NEW k \in Kinds, Load(k) PROVE Typed'
  <2>1. ReadOK'
    BY <1>2 DEF Load, Typed, ReadOK, ArchiveOK
  <2> QED BY <1>2, <2>1 DEF Load, Typed, ServedOK, StateOK, RecordOK, ArchiveOK, SendOK, Reasoned
<1>3. CASE Count
  <2>1. ReadOK'
    BY <1>3, FS_CardinalityType DEF Count, Typed, ReadOK, ArchiveOK
  <2> QED BY <1>3, <2>1 DEF Count, Typed, ServedOK, StateOK, RecordOK, ArchiveOK, SendOK, Reasoned
<1>4. CASE Compute
  <2>1. state' = [d \in Computed |-> Against(d)] /\ not_sent' \subseteq Computed
        /\ pending' \subseteq Computed /\ refusals' = {} /\ delivered' = {}
        /\ UNCHANGED <<spoiled, overtaken>>
    BY <1>4 DEF Compute
  <2>2. StateOK'
    BY <2>1, ComputedType, AgainstFacts DEF StateOK, Reasoned
  <2>3. SendOK'
    BY <2>1 DEF Typed, SendOK
  <2> QED BY <1>4, <2>2, <2>3 DEF Compute, Typed, ServedOK, RecordOK, ReadOK, ArchiveOK, Reasoned
<1>5. ASSUME NEW S \in SUBSET Relays, NEW A \in SUBSET S, NEW tie \in BOOLEAN,
             NEW d \in Addresses, Send(d, S, A, tie)
      PROVE  Typed'
  <2>1. ServedOK'
    BY <1>5, SendFacts
  <2>2. SendOK'
    <3>0. /\ spoiled' \in {spoiled, spoiled \ {d}, spoiled \cup {d}}
          /\ overtaken' \in {overtaken, overtaken \ {d}, overtaken \cup {d}}
      BY <1>5 DEF Send
    <3>1. spoiled' \subseteq Addresses /\ overtaken' \subseteq Addresses
      BY <3>0 DEF Typed, SendOK
    <3> QED BY <1>5, <3>1 DEF Send, Typed, SendOK
  <2> QED BY <1>5, <2>1, <2>2 DEF Send, Typed, StateOK, RecordOK, ReadOK, ArchiveOK, Reasoned
<1>6. ASSUME NEW S \in SUBSET Relays, NEW A \in SUBSET S, NEW tie \in BOOLEAN, SendIndex(S, A, tie)
      PROVE  Typed'
  <2>1. ServedOK'
    BY <1>6, SendIndexFacts
  <2> QED BY <1>6, <2>1
          DEF SendIndex, Typed, StateOK, RecordOK, ReadOK, ArchiveOK, SendOK, Reasoned
<1>7. CASE Record
  <2>1. /\ Over /\ UNCHANGED <<stray, spoiled, overtaken>>
        /\ UNCHANGED <<archive, projected, indexed_from, schema, served>>
    BY <1>7 DEF Record
  <2>2. /\ StateOK' /\ SendOK' /\ ReadOK' /\ now' \in Nat
        /\ pc' \in {"idle", "extent", "load", "compute", "send", "failed", "record"}
    BY <2>1, OverTyped DEF Typed, SendOK
  <2>3. RecordOK'
    <3>1. published_documents' = [d \in Addresses |->
             IF d \in DOMAIN state THEN state[d] ELSE published_documents[d]]
      BY <1>7 DEF Record
    <3>2. \A d \in DOMAIN state : state[d] \in DocumentRows /\ Reasoned(state[d])
      BY DEF Typed, StateOK
    <3>3. \A d \in Addresses : /\ published_documents[d] \in DocumentRows \cup {None}
                               /\ published_documents[d] # None => Reasoned(published_documents[d])
      BY DEF Typed, RecordOK
    <3>4. latest_run' \in RunRows \cup {None}
      <4>1. [generated_at |-> now, schema |-> schema, floor |-> coverage.floor, events |-> counted]
               \in RunRows
        BY DEF Typed, ArchiveOK, ReadOK, Extents, RunRows
      <4> QED BY <1>7, <4>1 DEF Record, Typed, RecordOK
    <3>5. /\ published_documents' \in [Addresses -> DocumentRows \cup {None}]
          /\ \A d \in Addresses : published_documents'[d] # None => Reasoned(published_documents'[d])
      BY <3>1, <3>2, <3>3
    <3> QED BY <3>4, <3>5 DEF RecordOK, Reasoned
  <2>4. pc' = "idle"
    BY <2>1 DEF Over
  <2> QED BY <2>1, <2>2, <2>3, <2>4 DEF Typed, ServedOK, ArchiveOK
<1>8. CASE Fail
  <2>1. /\ Over /\ spoiled' = spoiled \cup delivered /\ overtaken' = overtaken
        /\ UNCHANGED <<archive, projected, indexed_from, schema, served>>
        /\ UNCHANGED <<published_documents, latest_run>>
    BY <1>8 DEF Fail
  <2>2. spoiled' \subseteq Addresses
    BY <2>1 DEF Typed, StateOK, SendOK
  <2>3. /\ StateOK' /\ SendOK' /\ ReadOK' /\ now' \in Nat
        /\ pc' \in {"idle", "extent", "load", "compute", "send", "failed", "record"}
    BY <2>1, <2>2, OverTyped
  <2>4. stray' \in Nat /\ pc' = "idle"
    BY <1>8, <2>1 DEF Fail, Over, Typed
  <2> QED BY <2>1, <2>3, <2>4 DEF Typed, ServedOK, RecordOK, ArchiveOK, Reasoned
<1>9. ASSUME NEW e \in Events, Ingest(e) PROVE Typed'
  <2>1. ArchiveOK'
    BY <1>9, FS_AddElement DEF Ingest, Typed, ArchiveOK
  <2> QED BY <1>9, <2>1 DEF Ingest, Typed, ServedOK, StateOK, RecordOK, ReadOK, SendOK, Reasoned
<1>10. ASSUME NEW e \in Events, RebuildReplays(e) PROVE Typed'
  <2>1. ArchiveOK'
    BY <1>10 DEF RebuildReplays, Typed, ArchiveOK
  <2> QED BY <1>10, <2>1
          DEF RebuildReplays, Typed, ServedOK, StateOK, RecordOK, ReadOK, SendOK, Reasoned
<1>11. CASE RebuildClears
  <2>1. ArchiveOK'
    BY <1>11 DEF RebuildClears, Typed, ArchiveOK
  <2> QED BY <1>11, <2>1
          DEF RebuildClears, Typed, ServedOK, StateOK, RecordOK, ReadOK, SendOK, Reasoned
<1>12. ASSUME NEW k \in Kinds, Ask(k) PROVE Typed'
  <2>1. ArchiveOK'
    BY <1>12 DEF Ask, Typed, ArchiveOK
  <2> QED BY <1>12, <2>1 DEF Ask, Typed, ServedOK, StateOK, RecordOK, ReadOK, SendOK, Reasoned
<1>13. CASE Release
  <2>1. ArchiveOK'
    BY <1>13 DEF Release, Typed, ArchiveOK
  <2> QED BY <1>13, <2>1 DEF Release, Typed, ServedOK, StateOK, RecordOK, ReadOK, SendOK, Reasoned
<1>14. ASSUME NEW r \in Relays, NEW d \in Addresses, Prune(r, d) PROVE Typed'
  <2>1. ServedOK'
    <3>1. ServedOK
      BY DEF Typed
    <3>2. served' = [served EXCEPT ![r][d] = None] /\ d # "index" /\ d \in Slots
      BY <1>14, PublishAssumption DEF Prune, Slots
    <3> QED BY ONLY <3>1, <3>2, r \in Relays DEF ServedOK
  <2>2. SendOK'
    BY <1>14 DEF Prune, Typed, SendOK
  <2> QED BY <1>14, <2>1, <2>2 DEF Prune, Typed, StateOK, RecordOK, ReadOK, ArchiveOK, Reasoned
<1>15. CASE UNCHANGED vars
  BY <1>15 DEF vars, Typed, ServedOK, StateOK, RecordOK, ReadOK, ArchiveOK, SendOK, Reasoned
<1> QED
  BY <1>1, <1>2, <1>3, <1>4, <1>5, <1>6, <1>7, <1>8, <1>9, <1>10, <1>11, <1>12, <1>13, <1>14,
     <1>15, <1>16, <1>17 DEF Next

\* That is what the type invariant says.
LEMMA TypedIsTypeOK ==
    Typed => TypeOK
<1> SUFFICES ASSUME Typed PROVE TypeOK
  OBVIOUS
<1>1. \A d \in Addresses : published_documents[d] # None =>
         /\ published_documents[d].revision \in Nat \ {0}
         /\ published_documents[d].because \in Reasons
         /\ published_documents[d].revision = 1 <=> published_documents[d].because = None
  BY DEF Typed, RecordOK, DocumentRows, Reasoned
<1> QED BY <1>1 DEF Typed, StateOK, ReadOK, ArchiveOK, SendOK, TypeOK

\* Every row that publish records is one of its table's, a document above
\* the first revision carries a reason, and the extent a run states is one.
THEOREM PublishTypeCorrect == Spec => []TypeOK
BY TypedInit, TypedNext, TypedIsTypeOK, PTL DEF Spec

-----------------------------------------------------------------------------
(* The ceiling.                                                            *)

\* While nothing was seen archived and not projected, the rows of the event
\* at the ceiling are loaded or among those yet to be loaded.
LoadInv ==
    /\ pc = "load" /\ missing = {} => archive \subseteq projected
    /\ pc \in {"load", "compute"} /\ coverage.latest # None /\ missing = {} =>
          \E e \in archive : e.at = coverage.latest /\ (e.kind \in loading \/ e \in loaded)
    /\ pc = "compute" => loading = {}

\* The steps of the archive beside the run.
LEMMA BesideLoads ==
    ASSUME LoadInv, Witness, archive \subseteq archive',
           UNCHANGED <<pc, coverage, loading, loaded>>
    PROVE  LoadInv'
BY DEF LoadInv, Witness

\* Every step keeps the ceiling within reach.
LEMMA LoadInvNext ==
    Typed /\ LoadInv /\ [Next]_vars => LoadInv'
<1> SUFFICES ASSUME Typed, LoadInv, [Next]_vars PROVE LoadInv'
  OBVIOUS
<1> USE DEF database, record, reading, snapshot, sending, history
<1>1. CASE ReadCeiling
  <2>1. /\ pc' = "load" /\ missing' = archive \ projected /\ loading' = Kinds
        /\ archive' = archive /\ projected' = projected
        /\ coverage' = [coverage EXCEPT !.latest = LatestCreatedAt]
    BY <1>1 DEF ReadCeiling
  <2>2. LatestCreatedAt # None => \E e \in archive : e.at = LatestCreatedAt
    BY ExtentType DEF Typed
  <2>3. \A e \in archive : e.kind \in Kinds
    BY PublishAssumption DEF Typed, ArchiveOK
  <2>4. coverage'.latest = LatestCreatedAt
    BY <2>1 DEF Typed, ReadOK, Extents
  <2> QED BY <2>1, <2>2, <2>3, <2>4 DEF LoadInv
<1>14. ASSUME NEW t, NEW force, Begin(t, force) PROVE LoadInv'
  BY <1>14 DEF Begin, LoadInv
<1>15. ASSUME NEW k, ReadFloor(k) PROVE LoadInv'
  BY <1>15 DEF ReadFloor, LoadInv
<1>2. ASSUME NEW k \in Kinds, Load(k) PROVE LoadInv'
  <2>1. /\ pc = "load" /\ pc' = "load" /\ loading' = loading \ {k}
        /\ loaded' = loaded \cup {e \in projected : e.kind = k}
        /\ UNCHANGED <<archive, projected, coverage, missing>>
    BY <1>2 DEF Load
  <2> QED BY <2>1 DEF LoadInv
<1>3. CASE Count
  BY <1>3 DEF Count, LoadInv
<1>4. CASE Compute
  BY <1>4 DEF Compute, LoadInv
<1>5. ASSUME NEW S, NEW A, NEW tie, NEW d, Send(d, S, A, tie) PROVE LoadInv'
  BY <1>5 DEF Send, LoadInv
<1>6. ASSUME NEW S, NEW A, NEW tie, SendIndex(S, A, tie) PROVE LoadInv'
  BY <1>6 DEF SendIndex, LoadInv
<1>7. CASE Record \/ Fail
  BY <1>7 DEF Record, Fail, Over, LoadInv
<1>8. ASSUME NEW e \in Events, Ingest(e) \/ RebuildReplays(e) PROVE LoadInv'
  BY <1>8, BesideLoads DEF Ingest, RebuildReplays
<1>9. CASE RebuildClears
  BY <1>9, BesideLoads DEF RebuildClears
<1>10. ASSUME NEW k \in Kinds, Ask(k) PROVE LoadInv'
  BY <1>10 DEF Ask, LoadInv
<1>11. CASE Release
  BY <1>11 DEF Release, LoadInv
<1>12. ASSUME NEW r, NEW d, Prune(r, d) PROVE LoadInv'
  BY <1>12 DEF Prune, LoadInv
<1>13. CASE UNCHANGED vars
  BY <1>13 DEF vars, LoadInv
<1> QED
  BY <1>1, <1>2, <1>3, <1>4, <1>5, <1>6, <1>7, <1>8, <1>9, <1>10, <1>11, <1>12, <1>13,
     <1>14, <1>15 DEF Next

\* However an ingest falls between the reading of the extent and the queries
\* that load the figures, the event at the ceiling is one of those loaded,
\* unless a rebuild was under way (publish.rs:300).
THEOREM CeilingLoadedCorrect == Spec => []CeilingLoaded
<1>1. Init => Typed /\ LoadInv
  BY TypedInit DEF Init, LoadInv
<1>2. Typed /\ LoadInv /\ [Next]_vars => Typed' /\ LoadInv'
  BY TypedNext, LoadInvNext
<1>3. Typed /\ LoadInv => CeilingLoaded
  BY DEF LoadInv, CeilingLoaded
<1> QED BY <1>1, <1>2, <1>3, PTL DEF Spec

-----------------------------------------------------------------------------
(* Revisions.                                                              *)

Carrying == {"send", "record", "failed"}

\* From the computation to the record a run's rows stay what they were
\* decided to be against the recorded ones, which nobody else writes.
DecidedInv ==
    pc \in Carrying => \A d \in DOMAIN state : published_documents[d] # None =>
        Follows(published_documents[d], state[d])

\* What is not sent is what is recorded, and nothing is sent twice.
SkippedInv ==
    /\ \A d \in not_sent :
          /\ pc \in Carrying
          /\ published_documents[d] # None /\ state[d] = published_documents[d]
          /\ d \notin delivered \cup pending
    /\ pending \cap delivered = {}
    /\ pc \notin Carrying => delivered = {}
    /\ pc \in {"record", "failed"} => pending = {} /\ refusals = {}

RunInv == DecidedInv /\ SkippedInv

\* A row follows itself.
LEMMA FollowsItself ==
    ASSUME Typed, NEW d \in Addresses, published_documents[d] # None
    PROVE  Follows(published_documents[d], published_documents[d])
BY DEF Follows

\* Every step of a run keeps to what it decided.
LEMMA RunInvNext ==
    Typed /\ RunInv /\ [Next]_vars => RunInv'
<1> SUFFICES ASSUME Typed, RunInv, [Next]_vars PROVE RunInv'
  OBVIOUS
<1> USE DEF database, record, reading, snapshot, sending, history
<1>1. CASE Compute
  <2>1. /\ state' = [d \in Computed |-> Against(d)]
        /\ not_sent' = {d \in Computed : Unchanged(d) /\ d \notin republish}
        /\ pending' = Computed \ not_sent'
        /\ refusals' = {} /\ delivered' = {} /\ pc' = "send"
        /\ published_documents' = published_documents
    BY <1>1 DEF Compute
  <2>2. DecidedInv'
    <3> SUFFICES ASSUME NEW d \in Computed, published_documents[d] # None
                 PROVE  Follows(published_documents[d], Against(d))
      BY <2>1 DEF DecidedInv, Follows
    <3>1. d \in Addresses
      BY ComputedType
    <3>2. Against(d) \in DocumentRows
      BY <3>1, AgainstFacts
    <3>3. Against(d) # None
      BY <3>2, NoneAssumption
    <3>4. CASE Against(d) = published_documents[d]
      BY <3>3, <3>4 DEF Follows
    <3>5. CASE /\ Against(d).hash # published_documents[d].hash
               /\ Against(d).revision = published_documents[d].revision + 1
      BY <3>3, <3>5 DEF Follows
    <3> QED BY <3>1, <3>4, <3>5, AgainstFacts
  <2>3. \A d \in not_sent' : d \in Computed /\ published_documents[d] # None
                             /\ Against(d) = published_documents[d]
    BY <2>1, ComputedType, AgainstFacts DEF Unchanged
  <2>4. SkippedInv'
    BY <2>1, <2>3 DEF SkippedInv, Carrying
  <2> QED BY <2>2, <2>4 DEF RunInv
<1>2. ASSUME NEW S \in SUBSET Relays, NEW A \in SUBSET S, NEW tie, NEW d, Send(d, S, A, tie)
      PROVE  RunInv'
  <2>1. /\ pc = "send" /\ pc' = "send" /\ d \in pending
        /\ pending' = pending \ {d} /\ delivered' \in {delivered, delivered \cup {d}}
        /\ UNCHANGED <<published_documents, state, not_sent>>
    BY <1>2 DEF Send
  <2> QED BY <2>1 DEF RunInv, DecidedInv, SkippedInv, Carrying, Follows
<1>3. ASSUME NEW S, NEW A, NEW tie, SendIndex(S, A, tie) PROVE RunInv'
  BY <1>3 DEF SendIndex, RunInv, DecidedInv, SkippedInv, Carrying, Follows
<1>4. CASE Record \/ Fail
  <2>1. pc' = "idle" /\ not_sent' = {} /\ pending' = {} /\ delivered' = {}
    BY <1>4 DEF Record, Fail, Over
  <2> QED BY <2>1 DEF RunInv, DecidedInv, SkippedInv, Carrying
<1>5. CASE /\ UNCHANGED <<published_documents, state, not_sent, pending, refusals, delivered>>
           /\ pc' = pc \/ (pc \notin Carrying /\ pc' \notin Carrying)
  BY <1>5 DEF RunInv, DecidedInv, SkippedInv, Carrying, Follows
<1>6. ASSUME NEW t, NEW force, Begin(t, force) PROVE RunInv'
  BY <1>5, <1>6 DEF Begin, Carrying
<1>7. ASSUME NEW k, ReadFloor(k) \/ Load(k) \/ Ask(k) PROVE RunInv'
  BY <1>5, <1>7 DEF ReadFloor, Load, Ask, Carrying
<1>8. CASE ReadCeiling \/ Count \/ Release \/ RebuildClears \/ UNCHANGED vars
  BY <1>5, <1>8 DEF ReadCeiling, Count, Release, RebuildClears, vars, Carrying
<1>9. ASSUME NEW e, Ingest(e) \/ RebuildReplays(e) PROVE RunInv'
  BY <1>5, <1>9 DEF Ingest, RebuildReplays, Carrying
<1>10. ASSUME NEW r, NEW d, Prune(r, d) PROVE RunInv'
  BY <1>5, <1>10 DEF Prune, Carrying
<1> QED
  BY <1>1, <1>2, <1>3, <1>4, <1>6, <1>7, <1>8, <1>9, <1>10 DEF Next

\* No run is under way at first.
LEMMA RunInvInit ==
    Init => RunInv
BY DEF Init, RunInv, DecidedInv, SkippedInv, Carrying

\* Only a record changes the recorded rows, and it puts the decided ones in.
LEMMA RevisionStep ==
    ASSUME Typed, RunInv, Next, NEW d \in Addresses, published_documents[d] # None
    PROVE  Follows(published_documents[d], published_documents'[d])
<1> USE DEF database, record, reading, snapshot, sending, history
<1>1. CASE Record
  <2>1. published_documents'[d] = IF d \in DOMAIN state THEN state[d] ELSE published_documents[d]
    BY <1>1 DEF Record
  <2>2. pc \in Carrying
    BY <1>1 DEF Record, Carrying
  <2> QED BY <2>1, <2>2, FollowsItself DEF RunInv, DecidedInv
<1>2. CASE ~Record
  <2>1. published_documents' = published_documents
    <3>1. ASSUME NEW t, NEW force, Begin(t, force) PROVE published_documents' = published_documents
      BY <3>1 DEF Begin
    <3>2. ASSUME NEW k, ReadFloor(k) \/ Load(k) \/ Ask(k)
          PROVE  published_documents' = published_documents
      BY <3>2 DEF ReadFloor, Load, Ask
    <3>3. CASE ReadCeiling \/ Count \/ Compute \/ Fail
      BY <3>3 DEF ReadCeiling, Count, Compute, Fail
    <3>4. ASSUME NEW S, NEW A, NEW tie, NEW x, Send(x, S, A, tie)
          PROVE  published_documents' = published_documents
      BY <3>4 DEF Send
    <3>5. ASSUME NEW S, NEW A, NEW tie, SendIndex(S, A, tie)
          PROVE  published_documents' = published_documents
      BY <3>5 DEF SendIndex
    <3>6. ASSUME NEW e, Ingest(e) \/ RebuildReplays(e)
          PROVE  published_documents' = published_documents
      BY <3>6 DEF Ingest, RebuildReplays
    <3>7. CASE RebuildClears \/ Release
      BY <3>7 DEF RebuildClears, Release
    <3>8. ASSUME NEW r, NEW x, Prune(r, x) PROVE published_documents' = published_documents
      BY <3>8 DEF Prune
    <3> QED BY <1>2, <3>1, <3>2, <3>3, <3>4, <3>5, <3>6, <3>7, <3>8 DEF Next
  <2> QED BY <2>1, FollowsItself
<1> QED BY <1>1, <1>2

\* Across runs, failures and releases the recorded revision of an address
\* goes up by one when its figures change and never otherwise, and is never
\* forgotten, not even while the address is outside coverage
\* (published.rs:92).
THEOREM RevisionCountsCorrect == Spec => RevisionCounts
<1>1. Init => Typed /\ RunInv
  BY TypedInit, RunInvInit
<1>2. Typed /\ RunInv /\ [Next]_vars => Typed' /\ RunInv'
  BY TypedNext, RunInvNext
<1>3. Typed /\ RunInv /\ [Next]_vars
        => [\A d \in Addresses : published_documents[d] # None =>
              Follows(published_documents[d], published_documents'[d])]_vars
  BY RevisionStep
<1> QED BY <1>1, <1>2, <1>3, PTL DEF Spec, RevisionCounts

-----------------------------------------------------------------------------
(* The index.                                                              *)

\* An index on a relay is no newer than the last run that was recorded, than
\* the last that was not and had sent one, or than the run that is sending.
IndexDated ==
    \A r \in Relays : served[r]["index"] # None =>
        \/ served[r]["index"].at <= stray
        \/ latest_run # None /\ served[r]["index"].at <= latest_run.generated_at
        \/ pc \in {"record", "failed"} /\ served[r]["index"].at <= now

\* The clock of a run is ahead of the recorded ones.
ClockInv ==
    /\ IndexDated
    /\ pc # "idle" /\ latest_run # None => now > latest_run.generated_at

\* The created_at of an index is a number.
LEMMA IndexAt ==
    ASSUME Typed, NEW r \in Relays, served[r]["index"] # None
    PROVE  served[r]["index"].at \in Nat
<1>1. served[r]["index"] \in Indexes
  BY DEF Typed, ServedOK
<1> QED BY <1>1 DEF Indexes

\* Every step keeps the clock of the run ahead and the indexes dated.
LEMMA ClockInvNext ==
    Typed /\ ClockInv /\ [Next]_vars => ClockInv'
<1> SUFFICES ASSUME Typed, ClockInv, [Next]_vars PROVE ClockInv'
  OBVIOUS
<1> USE DEF database, record, reading, snapshot, sending, history
<1>0. now \in Nat /\ stray \in Nat /\ (latest_run # None => latest_run.generated_at \in Nat)
  BY DEF Typed, RecordOK, RunRows
<1>1. ASSUME NEW t, NEW force, Begin(t, force) PROVE ClockInv'
  <2>1. /\ pc = "idle" /\ pc' = "extent" /\ now' = t
        /\ latest_run # None => t > latest_run.generated_at
        /\ UNCHANGED <<served, stray, latest_run>>
    BY <1>1 DEF Begin
  <2> QED BY <2>1 DEF ClockInv, IndexDated
<1>2. ASSUME NEW S \in SUBSET Relays, NEW A \in SUBSET S, NEW tie, NEW d \in Addresses,
             Send(d, S, A, tie)
      PROVE  ClockInv'
  <2>1. pc = "send" /\ UNCHANGED <<pc, now, stray, latest_run>>
    BY <1>2 DEF Send
  <2>2. "index" \in Slots /\ d # "index"
    BY PublishAssumption DEF Slots
  <2>3. \A r \in Relays : served'[r]["index"] = served[r]["index"]
    <3>1. ServedOK
      BY DEF Typed
    <3>2. PICK event : served' = [r \in Relays |->
             IF r \in S /\ Keeps(served[r][d], event, tie)
             THEN [served[r] EXCEPT ![d] = event] ELSE served[r]]
      BY <1>2 DEF Send
    <3> QED BY ONLY <2>2, <3>1, <3>2 DEF ServedOK
  <2> QED BY <2>1, <2>3 DEF ClockInv, IndexDated
<1>3. ASSUME NEW S \in SUBSET Relays, NEW A \in SUBSET S, NEW tie, SendIndex(S, A, tie)
      PROVE  ClockInv'
  <2>1. /\ pc = "send" /\ pc' \in {"failed", "record"}
        /\ UNCHANGED <<now, stray, latest_run>>
    BY <1>3 DEF SendIndex
  <2>2. \A r \in Relays : served'[r]["index"] \in {SignedIndex, served[r]["index"]}
    BY <1>3, SendIndexFacts
  <2>3. SignedIndex.at = now /\ now <= now
    BY <1>0 DEF SignedIndex
  <2>4. IndexDated'
    <3> SUFFICES ASSUME NEW r \in Relays, served'[r]["index"] # None
                 PROVE  \/ served'[r]["index"].at <= stray
                        \/ latest_run # None /\ served'[r]["index"].at <= latest_run.generated_at
                        \/ served'[r]["index"].at <= now
      BY <2>1 DEF IndexDated
    <3>1. CASE served'[r]["index"] = SignedIndex
      BY <2>3, <3>1
    <3>2. CASE served'[r]["index"] = served[r]["index"]
      BY <2>1, <3>2 DEF ClockInv, IndexDated
    <3> QED BY <2>2, <3>1, <3>2
  <2> QED BY <2>1, <2>4 DEF ClockInv
<1>4. CASE Record
  <2>1. pc = "record" /\ pc' = "idle" /\ UNCHANGED <<served, stray>>
    BY <1>4 DEF Record, Over
  <2>2. latest_run # None => now > latest_run.generated_at
    BY <2>1 DEF ClockInv
  <2>3. latest_run' = [generated_at |-> now, schema |-> schema, floor |-> coverage.floor,
                       events |-> counted]
    BY <1>0, <1>4, <2>2 DEF Record
  <2>4. latest_run' \in RunRows
    BY <2>3 DEF Typed, ArchiveOK, ReadOK, Extents, RunRows
  <2>5. latest_run' # None /\ latest_run'.generated_at = now
    BY <2>3, <2>4, NoneAssumption
  <2>6. IndexDated'
    <3> SUFFICES ASSUME NEW r \in Relays, served[r]["index"] # None
                 PROVE  served[r]["index"].at <= stray \/ served[r]["index"].at <= now
      BY <2>1, <2>5 DEF IndexDated
    <3>1. served[r]["index"].at \in Nat
      BY IndexAt
    <3>2. \/ served[r]["index"].at <= stray
          \/ latest_run # None /\ served[r]["index"].at <= latest_run.generated_at
          \/ served[r]["index"].at <= now
      BY DEF ClockInv, IndexDated
    <3> QED BY <1>0, <2>2, <3>1, <3>2
  <2> QED BY <2>1, <2>6 DEF ClockInv
<1>5. CASE Fail
  <2>1. /\ pc # "idle" /\ pc' = "idle" /\ UNCHANGED <<served, latest_run>>
        /\ stray' = IF pc \in {"failed", "record"} /\ now > stray THEN now ELSE stray
    BY <1>5 DEF Fail, Over
  <2>2. stray' >= stray /\ (pc \in {"failed", "record"} => stray' >= now) /\ stray' \in Nat
    BY <1>0, <2>1
  <2>3. IndexDated'
    <3> SUFFICES ASSUME NEW r \in Relays, served[r]["index"] # None
                 PROVE  \/ served[r]["index"].at <= stray'
                        \/ latest_run # None /\ served[r]["index"].at <= latest_run.generated_at
      BY <2>1 DEF IndexDated
    <3>1. served[r]["index"].at \in Nat
      BY IndexAt
    <3>2. \/ served[r]["index"].at <= stray
          \/ latest_run # None /\ served[r]["index"].at <= latest_run.generated_at
          \/ pc \in {"record", "failed"} /\ served[r]["index"].at <= now
      BY DEF ClockInv, IndexDated
    <3> QED BY <1>0, <2>2, <3>1, <3>2
  <2> QED BY <2>1, <2>3 DEF ClockInv
<1>6. ASSUME NEW r \in Relays, NEW d \in Addresses, Prune(r, d) PROVE ClockInv'
  <2>1. /\ served' = [served EXCEPT ![r][d] = None]
        /\ UNCHANGED <<pc, now, stray, latest_run>>
    BY <1>6 DEF Prune
  <2>2. "index" \in Slots /\ d # "index"
    BY PublishAssumption DEF Slots
  <2>3. \A q \in Relays : served'[q]["index"] = served[q]["index"]
    BY <2>1, <2>2 DEF Typed, ServedOK
  <2> QED BY <2>1, <2>3 DEF ClockInv, IndexDated
<1>7. CASE /\ UNCHANGED <<served, now, stray, latest_run>>
           /\ pc' = pc \/ (/\ pc \in {"extent", "load", "compute"}
                           /\ pc' \in {"load", "compute", "send"})
  BY <1>7 DEF ClockInv, IndexDated
<1>8. CASE ReadCeiling \/ Count \/ Compute \/ Release \/ RebuildClears \/ UNCHANGED vars
  BY <1>7, <1>8 DEF ReadCeiling, Count, Compute, Release, RebuildClears, vars
<1>9. ASSUME NEW k, ReadFloor(k) \/ Load(k) \/ Ask(k) PROVE ClockInv'
  BY <1>7, <1>9 DEF ReadFloor, Load, Ask
<1>10. ASSUME NEW e, Ingest(e) \/ RebuildReplays(e) PROVE ClockInv'
  BY <1>7, <1>10 DEF Ingest, RebuildReplays
<1> QED
  BY <1>1, <1>2, <1>3, <1>4, <1>5, <1>6, <1>8, <1>9, <1>10 DEF Next

\* Some relay serves d with these figures.
Serves(d, hash) == \E r \in Relays : served[r][d] # None /\ served[r][d].hash = hash

\* What was recorded of an address is served, until the run sends another.
RecordedServed ==
    \A d \in Addresses \ (spoiled \cup delivered) :
        published_documents[d] # None => Serves(d, published_documents[d].hash)

\* What the run sent and somebody took is served.
TakenServed ==
    pc \in Carrying =>
        \A d \in DOMAIN state \ (not_sent \cup pending \cup refusals \cup spoiled) :
            Serves(d, state[d].hash)

PromiseInv == RecordedServed /\ TakenServed /\ IndexPromise

\* What IndexPromise says of one address.
Answered(index, d) == Honoured(index, d) \/ (index.at <= stray /\ d \in overtaken)

\* The addresses an index names are addresses.
LEMMA IndexNames ==
    ASSUME Typed, NEW r \in Relays, served[r]["index"] # None
    PROVE  DOMAIN served[r]["index"].documents \subseteq Addresses
<1>1. served[r]["index"] \in Indexes
  BY DEF Typed, ServedOK
<1>2. PICK D \in SUBSET Addresses : served[r]["index"].documents \in [D -> Payloads]
  BY <1>1 DEF Indexes
<1> QED BY <1>2

\* Steps that leave the relays and the recorded rows alone and spoil no less.
LEMMA QuietPromise ==
    ASSUME Typed, RecordedServed, IndexPromise, served' = served, spoiled \subseteq spoiled',
           stray' \in Nat, stray' >= stray, overtaken' = overtaken,
           published_documents' = published_documents,
           spoiled \cup delivered \subseteq spoiled' \cup delivered'
    PROVE  RecordedServed' /\ IndexPromise'
<1>1. RecordedServed'
  BY DEF RecordedServed, Serves
<1>2. IndexPromise'
  <2> SUFFICES ASSUME NEW r \in Relays, served[r]["index"] # None,
                      NEW d \in DOMAIN served[r]["index"].documents, d \notin spoiled
               PROVE  Answered(served[r]["index"], d)'
    BY DEF IndexPromise, Answered
  <2>1. Answered(served[r]["index"], d)
    BY DEF IndexPromise, Answered
  <2>2. served[r]["index"].at \in Nat /\ stray \in Nat
    BY IndexAt DEF Typed
  <2>3. served[r]["index"].at <= stray => served[r]["index"].at <= stray'
    BY <2>2
  <2> QED BY <2>1, <2>3 DEF Answered, Honoured
<1> QED BY <1>1, <1>2

\* A document is sent: what keeps it serves something newer than every index
\* but those in the way, so the promises stand.
LEMMA SendPromise ==
    ASSUME Typed, RunInv, ClockInv, PromiseInv, NEW d \in Addresses, NEW S \in SUBSET Relays,
           NEW A \in SUBSET S, NEW tie, Send(d, S, A, tie)
    PROVE  PromiseInv'
<1> USE DEF database, record, reading, snapshot, sending, history
<1>0. /\ pc = "send" /\ pc' = "send" /\ d \in pending /\ pending' = pending \ {d}
      /\ refusals' = IF A = {} THEN refusals \cup {d} ELSE refusals
      /\ delivered' = IF S = {} THEN delivered ELSE delivered \cup {d}
      /\ UNCHANGED <<published_documents, state, not_sent, now, stray>>
  BY DEF Send
<1>1. /\ SignedDocument(d) # None
      /\ \A r \in Relays, x \in Slots : x # d => served'[r][x] = served[r][x]
      /\ \A r \in Relays : served'[r][d] \in {SignedDocument(d), served[r][d]}
      /\ \A r \in Relays \ S : served'[r][d] = served[r][d]
      /\ spoiled' \in {spoiled, spoiled \ {d}, spoiled \cup {d}}
      /\ A = {} => spoiled' = spoiled
      /\ A # {} /\ d \notin spoiled' => \E r \in A : served'[r][d] = SignedDocument(d)
      /\ overtaken' \in {overtaken, overtaken \ {d}, overtaken \cup {d}}
      /\ now <= stray /\ S # {} => d \in overtaken'
      /\ d \notin overtaken' =>
            d \notin overtaken \/ \E r \in S : served'[r][d] = SignedDocument(d)
  BY SendFacts
<1>2. SignedDocument(d).at = now /\ SignedDocument(d).hash = state[d].hash
  BY DEF SignedDocument
<1>3. Addresses \subseteq Slots /\ "index" \in Slots /\ d # "index"
  BY PublishAssumption DEF Slots
<1>4. now \in Nat /\ stray \in Nat
  BY DEF Typed
<1>6. RecordedServed'
  <2> SUFFICES ASSUME NEW x \in Addresses, x \notin spoiled', x \notin delivered',
                      published_documents[x] # None
               PROVE  Serves(x, published_documents[x].hash)'
    BY <1>0 DEF RecordedServed, Serves
  <2>1. \A r \in Relays : served'[r][x] = served[r][x]
    BY <1>0, <1>1, <1>3
  <2>2. x \notin spoiled /\ x \notin delivered
    <3>1. CASE x = d
      <4>1. S = {} /\ A = {}
        BY <1>0, <3>1
      <4> QED BY <1>0, <1>1, <3>1, <4>1
    <3>2. CASE x # d
      BY <1>0, <1>1, <3>2
    <3> QED BY <3>1, <3>2
  <2>3. Serves(x, published_documents[x].hash)
    BY <2>2 DEF PromiseInv, RecordedServed
  <2> QED BY <1>0, <2>1, <2>3 DEF Serves
<1>7. TakenServed'
  <2> SUFFICES ASSUME NEW x \in DOMAIN state,
                      x \notin not_sent' \cup pending' \cup refusals' \cup spoiled'
               PROVE  Serves(x, state[x].hash)'
    BY <1>0 DEF TakenServed, Serves
  <2>1. CASE x = d
    <3>1. PICK r \in A : served'[r][d] = SignedDocument(d)
      BY <1>0, <1>1, <2>1
    <3> QED BY <1>0, <1>1, <1>2, <2>1, <3>1 DEF Serves
  <2>2. CASE x # d
    <3>1. x \notin not_sent \cup pending \cup refusals \cup spoiled
      BY <1>0, <1>1, <2>2
    <3>2. Serves(x, state[x].hash)
      BY <1>0, <3>1 DEF PromiseInv, TakenServed, Carrying
    <3>3. x \in Slots
      BY <1>3 DEF Typed, StateOK
    <3> QED BY <1>0, <1>1, <2>2, <3>2, <3>3 DEF Serves
  <2> QED BY <2>1, <2>2
<1>8. IndexPromise'
  <2>1. \A r \in Relays : served'[r]["index"] = served[r]["index"]
    BY <1>1, <1>3
  <2> SUFFICES ASSUME NEW r \in Relays, served[r]["index"] # None,
                      NEW x \in DOMAIN served[r]["index"].documents, x \notin spoiled'
               PROVE  Answered(served[r]["index"], x)'
    BY <2>1 DEF IndexPromise, Answered, Honoured
  <2> DEFINE index == served[r]["index"]
  <2>2. index.at \in Nat /\ x \in Addresses
    BY IndexAt, IndexNames
  <2>3. x \in Slots /\ index' = index
    BY <1>3, <2>1, <2>2
  <2>4. x \notin spoiled => Answered(index, x)
    BY DEF PromiseInv, IndexPromise, Answered
  <2>5. index.at <= stray \/ index.at <= now
    <3>1. \/ index.at <= stray
          \/ latest_run # None /\ index.at <= latest_run.generated_at
      BY <1>0 DEF ClockInv, IndexDated
    <3>2. latest_run # None => latest_run.generated_at \in Nat /\ now > latest_run.generated_at
      BY <1>0 DEF ClockInv, Typed, RecordOK, RunRows
    <3> QED BY <1>4, <2>2, <3>1, <3>2
  <2> HIDE DEF index
  <2>6. CASE x # d
    <3>1. x \notin spoiled /\ (x \in overtaken => x \in overtaken')
      BY <1>1, <2>6
    <3>2. \A q \in Relays : served'[q][x] = served[q][x]
      BY <1>1, <2>3, <2>6
    <3>3. Honoured(index, x) => Honoured(index, x)'
      BY <2>3, <3>2 DEF Honoured
    <3> QED BY <1>0, <2>3, <2>4, <3>1, <3>3 DEF Answered, index
  <2>7. CASE x = d /\ now <= stray /\ S # {}
    <3>1. d \in overtaken' /\ index.at <= stray
      BY <1>1, <1>4, <2>2, <2>5, <2>7
    <3> QED BY <1>0, <2>3, <2>7, <3>1 DEF Answered, index
  <2>8. CASE x = d /\ ~(now <= stray) /\ \E q \in S : served'[q][d] = SignedDocument(d)
    <3>1. PICK q \in S : served'[q][d] = SignedDocument(d)
      BY <2>8
    <3>2. served'[q][d] # None /\ served'[q][d].at >= index.at
      BY <1>1, <1>2, <1>4, <2>2, <2>5, <2>8, <3>1
    <3>3. q \in Relays
      BY <3>1
    <3>4. Honoured(index, x)'
      BY <2>3, <2>8, <3>2, <3>3 DEF Honoured
    <3> QED BY <2>3, <3>4 DEF Answered, index
  <2>9. CASE x = d /\ ~\E q \in S : served'[q][d] = SignedDocument(d)
    <3>1. A = {}
      BY <1>1, <2>9
    <3>2. x \notin spoiled
      BY <1>1, <2>9, <3>1
    <3>3. \A q \in Relays : served'[q][x] = served[q][x]
      BY <1>1, <2>9
    <3>4. x \in overtaken => x \in overtaken'
      BY <1>1, <2>9
    <3>5. Honoured(index, x) => Honoured(index, x)'
      BY <2>3, <3>3 DEF Honoured
    <3> QED BY <1>0, <2>3, <2>4, <3>2, <3>4, <3>5 DEF Answered, index
  <2> QED BY <2>6, <2>7, <2>8, <2>9
<1> QED BY <1>6, <1>7, <1>8 DEF PromiseInv

\* The index is sent: everything it names was taken in this run or is what
\* was recorded of it before.
LEMMA SendIndexPromise ==
    ASSUME Typed, RunInv, ClockInv, PromiseInv, NEW S \in SUBSET Relays, NEW A \in SUBSET S,
           NEW tie, SendIndex(S, A, tie)
    PROVE  PromiseInv'
<1> USE DEF database, record, reading, snapshot, sending, history
<1>0. /\ pc = "send" /\ pc' \in Carrying /\ pending = {} /\ refusals = {}
      /\ UNCHANGED <<published_documents, state, not_sent, pending, refusals, delivered, spoiled>>
      /\ UNCHANGED <<stray, overtaken>>
  BY DEF SendIndex, Carrying
<1>1. /\ \A r \in Relays, d \in Addresses : served'[r][d] = served[r][d]
      /\ \A r \in Relays : served'[r]["index"] \in {SignedIndex, served[r]["index"]}
  BY SendIndexFacts
<1>2. DOMAIN state \subseteq Addresses /\ not_sent \subseteq DOMAIN state
  BY DEF Typed, StateOK, SendOK
<1>3. RecordedServed'
  BY <1>0, <1>1 DEF PromiseInv, RecordedServed, Serves
<1>4. ASSUME NEW d \in DOMAIN state, d \notin spoiled
      PROVE  Serves(d, state[d].hash)
  <2>1. CASE d \in not_sent
    BY <1>2, <1>4, <2>1 DEF PromiseInv, RecordedServed, RunInv, SkippedInv
  <2>2. CASE d \notin not_sent
    BY <1>0, <1>4, <2>2 DEF PromiseInv, TakenServed, Carrying
  <2> QED BY <2>1, <2>2
<1>5. TakenServed'
  BY <1>0, <1>1, <1>2, <1>4 DEF TakenServed, Serves
<1>6. IndexPromise'
  <2> SUFFICES ASSUME NEW r \in Relays, served'[r]["index"] # None,
                      NEW d \in DOMAIN served'[r]["index"].documents, d \notin spoiled
               PROVE  Answered(served[r]["index"], d)'
    BY <1>0 DEF IndexPromise, Answered
  <2>1. CASE served'[r]["index"] = SignedIndex
    <3>1. d \in DOMAIN state /\ SignedIndex.documents[d] = state[d].hash
      BY <2>1 DEF SignedIndex
    <3>2. Serves(d, state[d].hash)
      BY <1>4, <3>1
    <3>3. \A q \in Relays : served'[q][d] = served[q][d]
      BY <1>1, <1>2, <3>1
    <3> QED BY <2>1, <3>1, <3>2, <3>3 DEF Serves, Answered, Honoured
  <2>2. CASE served'[r]["index"] = served[r]["index"]
    <3>1. d \in Addresses
      BY <2>2, IndexNames
    <3>2. Answered(served[r]["index"], d)
      BY <2>2 DEF PromiseInv, IndexPromise, Answered
    <3>3. \A q \in Relays : served'[q][d] = served[q][d]
      BY <1>1, <3>1
    <3> QED BY <1>0, <2>2, <3>2, <3>3 DEF Answered, Honoured
  <2> QED BY <1>1, <2>1, <2>2
<1> QED BY <1>3, <1>5, <1>6 DEF PromiseInv

\* Every step keeps the promise.
LEMMA PromiseInvNext ==
    Typed /\ RunInv /\ ClockInv /\ PromiseInv /\ [Next]_vars => PromiseInv'
<1> SUFFICES ASSUME Typed, RunInv, ClockInv, PromiseInv, [Next]_vars PROVE PromiseInv'
  OBVIOUS
<1> USE DEF database, record, reading, snapshot, sending, history
<1>1. ASSUME NEW S \in SUBSET Relays, NEW A \in SUBSET S, NEW tie, NEW d \in Addresses,
             Send(d, S, A, tie)
      PROVE  PromiseInv'
  BY <1>1, SendPromise
<1>2. ASSUME NEW S \in SUBSET Relays, NEW A \in SUBSET S, NEW tie, SendIndex(S, A, tie)
      PROVE  PromiseInv'
  BY <1>2, SendIndexPromise
<1>3. CASE Record
  <2>1. /\ pc = "record" /\ pc' = "idle" /\ UNCHANGED <<served, spoiled, stray, overtaken>>
        /\ delivered' = {}
        /\ published_documents' = [d \in Addresses |->
              IF d \in DOMAIN state THEN state[d] ELSE published_documents[d]]
    BY <1>3 DEF Record, Over
  <2>2. pending = {} /\ refusals = {}
    BY <2>1 DEF RunInv, SkippedInv
  <2>3. RecordedServed'
    <3> SUFFICES ASSUME NEW d \in Addresses, d \notin spoiled, published_documents'[d] # None
                 PROVE  Serves(d, published_documents'[d].hash)
      BY <2>1 DEF RecordedServed, Serves
    <3>1. CASE d \in not_sent
      <4>1. d \in DOMAIN state
        BY <3>1 DEF Typed, SendOK
      <4> QED BY <2>1, <3>1, <4>1 DEF PromiseInv, RecordedServed, RunInv, SkippedInv
    <3>2. CASE d \in DOMAIN state /\ d \notin not_sent
      BY <2>1, <2>2, <3>2 DEF PromiseInv, TakenServed, Carrying
    <3>3. CASE d \notin DOMAIN state
      <4>1. d \notin delivered
        BY <3>3 DEF Typed, SendOK
      <4> QED BY <2>1, <3>3, <4>1 DEF PromiseInv, RecordedServed
    <3> QED BY <3>1, <3>2, <3>3
  <2>4. TakenServed'
    BY <2>1 DEF TakenServed, Carrying
  <2>5. IndexPromise'
    BY <2>1 DEF PromiseInv, IndexPromise, Honoured
  <2> QED BY <2>3, <2>4, <2>5 DEF PromiseInv
<1>4. CASE Fail
  <2>1. /\ pc' = "idle" /\ served' = served /\ published_documents' = published_documents
        /\ spoiled' = spoiled \cup delivered /\ delivered' = {} /\ overtaken' = overtaken
        /\ stray' \in {stray, now} /\ (stray' = now => now > stray \/ now = stray)
    BY <1>4 DEF Fail, Over
  <2>3. stray' \in Nat /\ stray' >= stray
    BY <2>1 DEF Typed
  <2>2. TakenServed'
    BY <2>1 DEF TakenServed, Carrying
  <2> QED BY <2>1, <2>2, <2>3, QuietPromise DEF PromiseInv
<1>5. ASSUME NEW r \in Relays, NEW d \in Addresses, Prune(r, d) PROVE PromiseInv'
  <2>1. /\ served' = [served EXCEPT ![r][d] = None] /\ spoiled' = spoiled \cup {d}
        /\ UNCHANGED <<pc, published_documents, state, not_sent, pending, refusals, delivered>>
        /\ UNCHANGED <<stray, overtaken>>
    BY <1>5 DEF Prune
  <2>2. \A q \in Relays, x \in Slots : x # d => served'[q][x] = served[q][x]
    BY <2>1 DEF Typed, ServedOK, Slots
  <2>3. Addresses \subseteq Slots /\ "index" \in Slots /\ d # "index"
    BY PublishAssumption DEF Slots
  <2>4. RecordedServed'
    <3> SUFFICES ASSUME NEW x \in Addresses, x \notin spoiled \cup delivered, x # d,
                        published_documents[x] # None
                 PROVE  Serves(x, published_documents[x].hash)'
      BY <2>1 DEF RecordedServed, Serves
    <3>1. Serves(x, published_documents[x].hash)
      BY DEF PromiseInv, RecordedServed
    <3> QED BY <2>1, <2>2, <2>3, <3>1 DEF Serves
  <2>5. TakenServed'
    <3> SUFFICES ASSUME NEW x \in DOMAIN state, pc \in Carrying, x # d,
                        x \notin not_sent \cup pending \cup refusals \cup spoiled
                 PROVE  Serves(x, state[x].hash)'
      BY <2>1 DEF TakenServed, Serves
    <3>1. Serves(x, state[x].hash)
      BY DEF PromiseInv, TakenServed
    <3>2. x \in Slots
      BY <2>3 DEF Typed, StateOK
    <3> QED BY <2>1, <2>2, <3>1, <3>2 DEF Serves
  <2>6. IndexPromise'
    <3>1. \A q \in Relays : served'[q]["index"] = served[q]["index"]
      BY <2>2, <2>3
    <3> SUFFICES ASSUME NEW q \in Relays, served[q]["index"] # None,
                        NEW x \in DOMAIN served[q]["index"].documents, x \notin spoiled, x # d
                 PROVE  Answered(served[q]["index"], x)'
      BY <2>1, <3>1 DEF IndexPromise, Answered, Honoured
    <3>2. Answered(served[q]["index"], x)
      BY DEF PromiseInv, IndexPromise, Answered
    <3>3. x \in Slots
      BY <2>3, IndexNames
    <3>4. \A p \in Relays : served'[p][x] = served[p][x]
      BY <2>2, <3>3
    <3> QED BY <2>1, <3>1, <3>2, <3>4 DEF Answered, Honoured
  <2> QED BY <2>4, <2>5, <2>6 DEF PromiseInv
<1>6. CASE Compute
  <2>1. /\ DOMAIN state' = Computed /\ pending' = Computed \ not_sent'
        /\ UNCHANGED <<served, spoiled, published_documents, stray, overtaken>>
        /\ delivered' = {} /\ stray \in Nat
    BY <1>6 DEF Compute, Typed
  <2>2. delivered = {}
    BY <1>6 DEF Compute, RunInv, SkippedInv, Carrying
  <2>3. TakenServed'
    BY <2>1 DEF TakenServed
  <2> QED BY <2>1, <2>2, <2>3, QuietPromise DEF PromiseInv
<1>7. CASE /\ UNCHANGED <<served, spoiled, delivered, published_documents, state>>
           /\ UNCHANGED <<not_sent, pending, refusals, stray, overtaken>>
           /\ pc' = pc \/ pc' \notin Carrying
  <2>1. TakenServed'
    BY <1>7 DEF PromiseInv, TakenServed, Serves
  <2>2. stray' \in Nat /\ stray' >= stray
    BY <1>7 DEF Typed
  <2> QED BY <1>7, <2>1, <2>2, QuietPromise DEF PromiseInv
<1>8. ASSUME NEW t, NEW force, Begin(t, force) PROVE PromiseInv'
  BY <1>7, <1>8 DEF Begin, Carrying
<1>9. ASSUME NEW k, ReadFloor(k) \/ Load(k) \/ Ask(k) PROVE PromiseInv'
  BY <1>7, <1>9 DEF ReadFloor, Load, Ask
<1>10. CASE ReadCeiling \/ Count \/ Release \/ RebuildClears \/ UNCHANGED vars
  BY <1>7, <1>10 DEF ReadCeiling, Count, Release, RebuildClears, vars, Carrying
<1>11. ASSUME NEW e, Ingest(e) \/ RebuildReplays(e) PROVE PromiseInv'
  BY <1>7, <1>11 DEF Ingest, RebuildReplays
<1> QED
  BY <1>1, <1>2, <1>3, <1>4, <1>5, <1>6, <1>8, <1>9, <1>10, <1>11 DEF Next

\* An index on a relay is a promise that the documents it names are there
\* (publish.rs:21), whatever was refused, lost or left half done, and
\* whatever clock a run that follows a failed one carries, but for an address
\* that an unrecorded run or a pruning touched since it was last taken, or
\* that was acknowledged by relays that kept a later copy, and, where the
\* index of an unrecorded run is in the way, one that a run with an earlier
\* clock has replaced.
THEOREM IndexPromiseCorrect == Spec => []IndexPromise
<1>1. Init => Typed /\ RunInv /\ ClockInv /\ PromiseInv
  <2>1. ASSUME Init PROVE ClockInv /\ PromiseInv
    <3>1. \A r \in Relays, x \in Slots : served[r][x] = None
      BY <2>1 DEF Init, Slots
    <3>2. ClockInv
      BY <2>1, <3>1 DEF Init, ClockInv, IndexDated, Slots
    <3>3. PromiseInv
      BY <2>1, <3>1
      DEF Init, PromiseInv, RecordedServed, TakenServed, IndexPromise, Carrying, Slots
    <3> QED BY <3>2, <3>3
  <2> QED BY <2>1, TypedInit, RunInvInit
<1>2. Typed /\ RunInv /\ ClockInv /\ PromiseInv /\ [Next]_vars
        => Typed' /\ RunInv' /\ ClockInv' /\ PromiseInv'
  BY TypedNext, RunInvNext, ClockInvNext, PromiseInvNext
<1>3. Typed /\ RunInv /\ ClockInv /\ PromiseInv => IndexPromise
  BY DEF PromiseInv
<1> QED BY <1>1, <1>2, <1>3, PTL DEF Spec
=============================================================================
