----------------------------- MODULE SyncProofs -----------------------------
(***************************************************************************)
(* `sync`, for any relays, events and overlap, and any order of restarts,  *)
(* reconnections, refusals and publications, with other processes writing  *)
(* beside it: nothing that was asked for is turned away while the tables   *)
(* that vouch are whole, what a stored relay list names is dialled unless  *)
(* a backfill stored it since, and nothing that a serving relay holds of   *)
(* the tagged kinds is missed but for what is on record as left out.       *)
(***************************************************************************)
EXTENDS Sync, NumberFacts

-----------------------------------------------------------------------------
(* The stream of a relay.                                                  *)

Elements(s) == {s[i] : i \in DOMAIN s}

\* What is appended comes last.
LEMMA AppendFacts ==
    ASSUME NEW S, NEW s \in Seq(S), NEW e \in S
    PROVE  /\ Append(s, e) \in Seq(S)
           /\ Elements(Append(s, e)) = Elements(s) \cup {e}
           /\ \A i \in DOMAIN Append(s, e) :
                 \/ i \in DOMAIN s /\ Append(s, e)[i] = s[i]
                 \/ Append(s, e)[i] = e /\ i = Len(s) + 1
<1>1. /\ Append(s, e) \in Seq(S) /\ DOMAIN s = 1 .. Len(s) /\ Len(s) \in Nat
      /\ DOMAIN Append(s, e) = 1 .. Len(s) + 1
      /\ \A i \in 1 .. Len(s) : Append(s, e)[i] = s[i]
      /\ Append(s, e)[Len(s) + 1] = e
  OBVIOUS
<1>2. \A i \in DOMAIN Append(s, e) :
         \/ i \in DOMAIN s /\ Append(s, e)[i] = s[i]
         \/ Append(s, e)[i] = e /\ i = Len(s) + 1
  BY <1>1
<1>3. Elements(Append(s, e)) = Elements(s) \cup {e}
  BY <1>1, <1>2 DEF Elements
<1> QED BY <1>1, <1>2, <1>3

\* What is taken from the head leaves the rest in its order.
LEMMA TailFacts ==
    ASSUME NEW S, NEW s \in Seq(S), s # << >>
    PROVE  /\ Tail(s) \in Seq(S) /\ Head(s) \in S
           /\ Elements(s) = {Head(s)} \cup Elements(Tail(s))
           /\ \A i \in DOMAIN Tail(s) : i + 1 \in DOMAIN s /\ Tail(s)[i] = s[i + 1]
           /\ 1 \in DOMAIN s /\ Head(s) = s[1]
           /\ DOMAIN Tail(s) \subseteq Nat \ {0}
<1>1. /\ Tail(s) \in Seq(S) /\ DOMAIN s = 1 .. Len(s) /\ Len(s) \in Nat \ {0}
      /\ Head(s) = s[1] /\ DOMAIN Tail(s) = 1 .. Len(s) - 1
      /\ \A i \in 1 .. Len(s) - 1 : Tail(s)[i] = s[i + 1]
  OBVIOUS
<1>2. 1 \in DOMAIN s /\ Head(s) \in S
  BY <1>1
<1>3. \A i \in DOMAIN Tail(s) : i + 1 \in DOMAIN s /\ Tail(s)[i] = s[i + 1]
  BY <1>1
<1>4. Elements(s) = {Head(s)} \cup Elements(Tail(s))
  <2>1. ASSUME NEW i \in DOMAIN s PROVE s[i] \in {Head(s)} \cup Elements(Tail(s))
    <3>1. CASE i = 1
      BY <1>1, <3>1
    <3>2. CASE i # 1
      <4>1. i - 1 \in DOMAIN Tail(s) /\ Tail(s)[i - 1] = s[i]
        BY <1>1, <3>2
      <4> QED BY <4>1 DEF Elements
    <3> QED BY <3>1, <3>2
  <2> QED BY <1>1, <1>2, <1>3, <2>1 DEF Elements
<1> QED BY <1>1, <1>2, <1>3, <1>4

-----------------------------------------------------------------------------
(* What one event does to the tables.                                      *)

\* A cursor moves to the event or stays.
LEMMA AdvanceFacts ==
    ASSUME NEW s \in [Relays -> [Kinds -> -1 .. Horizon]], NEW r \in Relays, NEW e \in Events
    PROVE  LET t == Advance(s, r, e.kind, e.at) IN
           /\ t \in [Relays -> [Kinds -> -1 .. Horizon]]
           /\ \A q \in Relays, k \in Kinds :
                 \/ t[q][k] = s[q][k]
                 \/ q = r /\ k = e.kind /\ t[q][k] = e.at /\ s[q][k] < e.at
<1>1. e.kind \in Kinds /\ e.at \in -1 .. Horizon
  BY EventsAssumption, ConstantsAssumption DEF EventRecords
<1> QED BY <1>1 DEF Advance

\* Ingesting an event only adds: to the archive, to the relay table if it is
\* a relay list, to what was answered.
LEMMA IngestFacts ==
    ASSUME TypeOK, NEW e \in Events, NEW r \in Relays, Ingest(e, r)
    PROVE  /\ events \subseteq events' /\ events' \subseteq events \cup {e}
           /\ versions' \subseteq {v \in events' : v.kind \in VersionedKinds}
           /\ answered \subseteq answered' /\ answered' \subseteq answered \cup {e}
           /\ relays' \in [Relays -> Pubkeys \cup {None, "config"}]
           /\ sync_state' \in [Relays -> [Kinds -> -1 .. Horizon]]
           /\ \A q \in Relays, k \in Kinds :
                 \/ sync_state'[q][k] = sync_state[q][k]
                 \/ /\ q = r /\ k = e.kind
                    /\ sync_state'[q][k] = e.at /\ sync_state[q][k] < e.at
           /\ e.kind \in TAGGED_KINDS => e \in answered'
           /\ IF e.kind = "relay_list" /\ Stores(e)
              THEN relays' = UpsertRelays(relays, e.urls, e.pubkey) ELSE relays' = relays
<1> DEFINE refused == e.kind \notin TAGGED_KINDS /\ ~Proven(e.pubkey)
<1>0. e.pubkey \in Pubkeys
  BY EventsAssumption DEF EventRecords
<1>1. CASE refused
  <2>1. UNCHANGED <<events, versions, relays, sync_state, answered>>
    BY <1>1 DEF Ingest
  <2> QED BY <1>1, <2>1 DEF TypeOK, Stores
<1>2. CASE ~refused
  <2> DEFINE new == e \notin events /\ ~IsRedundant(events, versions, e)
  <2>1. /\ events' = IF new THEN events \cup {e} ELSE events
        /\ versions' = IF new /\ e.kind \in VersionedKinds THEN versions \cup {e} ELSE versions
        /\ relays' = IF new /\ e.kind = "relay_list"
                     THEN UpsertRelays(relays, e.urls, e.pubkey) ELSE relays
        /\ sync_state' = Advance(sync_state, r, e.kind, e.at)
        /\ answered' = answered \cup {e}
    BY <1>2 DEF Ingest
  <2>2. Stores(e) <=> new
    BY <1>2 DEF Stores
  <2>3. relays' \in [Relays -> Pubkeys \cup {None, "config"}]
    BY <1>0, <2>1 DEF TypeOK, UpsertRelays
  <2>4. /\ sync_state \in [Relays -> [Kinds -> -1 .. Horizon]]
        /\ versions \subseteq {v \in events : v.kind \in VersionedKinds}
    BY DEF TypeOK
  <2> HIDE DEF new
  <2>5. versions' \subseteq {v \in events' : v.kind \in VersionedKinds}
    BY <2>1, <2>4
  <2> QED BY <2>1, <2>2, <2>3, <2>4, <2>5, AdvanceFacts
<1> QED BY <1>1, <1>2

-----------------------------------------------------------------------------
(* Types.                                                                  *)

\* What is asked of a relay is a time of this world, or nothing.
LEMMA BoundsType ==
    ASSUME TypeOK, NEW kinds
    PROVE  Bounds(kinds) \in [Relays -> [Kinds -> (0 .. Horizon) \cup {None}]]
<1>1. \A r \in Relays, k \in Kinds : ResumeFrom(sync_state[r][k]) \in 0 .. Horizon
  <2> SUFFICES ASSUME NEW r \in Relays, NEW k \in Kinds
               PROVE  ResumeFrom(sync_state[r][k]) \in 0 .. Horizon
    OBVIOUS
  <2>1. sync_state[r][k] \in -1 .. Horizon
    BY DEF TypeOK
  <2> QED BY <2>1, SyncAssumption, ConstantsAssumption DEF ResumeFrom
<1> QED BY <1>1 DEF Bounds

\* What indexed_kinds remembers is a time of this world, or nothing.
LEMMA RecordAskedType ==
    ASSUME TypeOK, NEW bounds \in [Relays -> [Kinds -> (0 .. Horizon) \cup {None}]],
           RecordAsked(bounds)
    PROVE  indexed_from' \in [Kinds -> (0 .. Horizon) \cup {None}]
<1> SUFFICES ASSUME NEW k \in Kinds
             PROVE  MinOrNone(({bounds[r][k] : r \in Relays} \cup {indexed_from[k]}) \ {None})
                       \in (0 .. Horizon) \cup {None}
  BY DEF RecordAsked
<1> DEFINE S == ({bounds[r][k] : r \in Relays} \cup {indexed_from[k]}) \ {None}
<1>1. S \subseteq 0 .. Horizon
  BY DEF TypeOK
<1>2. S \in SUBSET Nat
  BY <1>1, ConstantsAssumption
<1>3. MinOrNone(S) = None \/ MinOrNone(S) \in S
  <2> HIDE DEF S
  <2>1. CASE S = {}
    BY <2>1 DEF MinOrNone
  <2>2. CASE S # {}
    <3>1. Min(S) \in S
      BY <1>2, <2>2, MinType
    <3> QED BY <2>2, <3>1 DEF MinOrNone
  <2> QED BY <2>1, <2>2
<1> QED BY <1>1, <1>3

\* A new subscription is one of stored events, with nothing live on it yet.
LEMMA OpenFacts ==
    ASSUME TypeOK, NEW kinds, OpenSubscription(kinds), held' = held
    PROVE  /\ since' \in [Relays -> [Kinds -> (0 .. Horizon) \cup {None}]]
           /\ since' = Bounds(kinds)
           /\ vouched' = {p \in Pubkeys : Proven(p)}
           /\ stored' \in [Relays -> SUBSET Events]
           /\ serving' \subseteq attached
           /\ \A r \in Relays :
                 stored'[r] = {e \in held[r] : r \in serving' /\ Matches(e, since'[r], vouched')}
           /\ live' = Silence
           /\ live' \in [Relays -> Seq(Events)]
           /\ indexed_from' \in [Kinds -> (0 .. Horizon) \cup {None}]
<1>1. since' = Bounds(kinds) /\ RecordAsked(since')
  BY DEF OpenSubscription
<1>2. since' \in [Relays -> [Kinds -> (0 .. Horizon) \cup {None}]]
  BY <1>1, BoundsType
<1>3. indexed_from' \in [Kinds -> (0 .. Horizon) \cup {None}]
  BY <1>1, <1>2, RecordAskedType
<1>4. /\ serving' \subseteq attached
      /\ stored' = [r \in Relays |->
                      {e \in held[r] : r \in serving' /\ Matches(e, since'[r], vouched')}]
  BY DEF OpenSubscription
<1>5. /\ stored' \in [Relays -> SUBSET Events]
      /\ \A r \in Relays :
            stored'[r] = {e \in held[r] : r \in serving' /\ Matches(e, since'[r], vouched')}
  BY <1>4 DEF TypeOK
<1>6. live' = Silence /\ vouched' = {p \in Pubkeys : Proven(p)}
  BY DEF OpenSubscription
<1>7. live' \in [Relays -> Seq(Events)]
  BY <1>6 DEF Silence
<1> QED BY <1>1, <1>2, <1>3, <1>4, <1>5, <1>6, <1>7

\* A closed subscription asks for nothing.
LEMMA CloseFacts ==
    ASSUME CloseSubscription
    PROVE  /\ since' \in [Relays -> [Kinds -> (0 .. Horizon) \cup {None}]]
           /\ vouched' \subseteq Pubkeys
           /\ stored' \in [Relays -> SUBSET Events]
           /\ live' \in [Relays -> Seq(Events)]
           /\ since' = Unasked /\ vouched' = {} /\ serving' = {}
           /\ stored' = Nothing /\ live' = Silence
BY DEF CloseSubscription, Unasked, Nothing, Silence

\* A delivery takes one event off one relay's replay, or the first off its
\* stream once the replay is through.
LEMMA DeliverFacts ==
    ASSUME TypeOK, NEW e \in Events, NEW r \in Relays, Delivers(r, e), Deliver(r, e)
    PROVE  /\ stored' \in [Relays -> SUBSET Events]
           /\ live' \in [Relays -> Seq(Events)]
           /\ \A q \in Relays : q # r => stored'[q] = stored[q] /\ live'[q] = live[q]
           /\ \/ /\ e \in stored[r]
                 /\ stored'[r] = stored[r] \ {e} /\ live'[r] = live[r]
              \/ /\ stored[r] = {} /\ stored'[r] = {}
                 /\ live[r] # << >> /\ e = Head(live[r]) /\ live'[r] = Tail(live[r])
<1>0. live \in [Relays -> Seq(Events)] /\ stored \in [Relays -> SUBSET Events]
  BY DEF TypeOK
<1>1. CASE e \in stored[r]
  BY <1>0, <1>1 DEF Deliver
<1>2. CASE e \notin stored[r]
  <2>1. stored[r] = {} /\ live[r] # << >> /\ e = Head(live[r])
    BY <1>2 DEF Delivers
  <2>2. Tail(live[r]) \in Seq(Events)
    BY <1>0, <2>1, TailFacts
  <2> QED BY <1>0, <1>2, <2>1, <2>2 DEF Deliver
<1> QED BY <1>1, <1>2

\* What is left of the replays is a set of pairs, of all that was not taken.
LEMMA UnreplayedType ==
    ASSUME TypeOK
    PROVE  /\ Unreplayed \subseteq Relays \X Events
           /\ \A r \in Relays : Unsent(r) \subseteq Relays \X Events
           /\ \A r \in Relays, e \in Events :
                 e \in stored[r] => e \in answered \/ <<r, e>> \in Unsent(r)
           /\ \A r \in Relays, e \in Events :
                 e \in stored[r] => e \in answered \/ <<r, e>> \in Unreplayed
<1>1. \A r \in Relays : /\ Unsent(r) \subseteq Relays \X Events
                        /\ Unsent(r) \subseteq Unreplayed
  BY DEF TypeOK, Unsent, Unreplayed
<1>2. \A r \in Relays, e \in Events : e \in stored[r] => e \in answered \/ <<r, e>> \in Unsent(r)
  BY DEF Unsent
<1>3. Unreplayed \subseteq Relays \X Events
  BY <1>1 DEF Unreplayed
<1> QED BY <1>1, <1>2, <1>3

\* The first state of a sync is typed.
LEMMA TypedInit ==
    Init => TypeOK
<1> SUFFICES ASSUME Init PROVE TypeOK
  OBVIOUS
<1>1. -1 \in -1 .. Horizon
  BY ConstantsAssumption
<1> QED BY <1>1 DEF Init, TypeOK, Phases, Nothing, Unasked, Silence

\* Every step of sync and of its relays keeps it typed.
LEMMA TypedNext ==
    TypeOK /\ [Next]_vars => TypeOK'
<1> SUFFICES ASSUME TypeOK, [Next]_vars PROVE TypeOK'
  OBVIOUS
<1> USE DEF database, client, subscription, history, losses
<1>1. CASE Start
  <2>1. relays' \in [Relays -> Pubkeys \cup {None, "config"}]
    BY <1>1 DEF Start, TypeOK, UpsertRelays
  <2>2. configured' \subseteq Relays /\ attached' \subseteq Relays
    BY <1>1, SyncAssumption DEF Start, ConnectionSet
  <2> QED BY <1>1, <2>1, <2>2 DEF Start, TypeOK, Phases
<1>2. CASE Dial
  <2>1. configured' \subseteq Relays
    BY <1>2, SyncAssumption DEF Dial, ConnectionSet, TypeOK
  <2> QED BY <1>2, <2>1 DEF Dial, TypeOK, Phases
<1>3. CASE Prime
  <2>1. OpenSubscription(TAGGED_KINDS) /\ held' = held
    BY <1>3 DEF Prime
  <2>2. vouched' \subseteq Pubkeys
    BY <2>1, OpenFacts
  <2> QED BY <1>3, <2>1, <2>2, OpenFacts DEF Prime, TypeOK, Phases
<1>4. CASE PrimeFails
  <2>1. indexed_from' \in [Kinds -> (0 .. Horizon) \cup {None}]
    BY <1>4, BoundsType, RecordAskedType DEF PrimeFails
  <2> QED BY <1>4, <2>1 DEF PrimeFails, TypeOK, Phases
<1>5. ASSUME NEW e \in Events, NEW r \in Relays, PrimeEvent(e, r) PROVE TypeOK'
  <2>1. Ingest(e, r) /\ Delivers(r, e) /\ Deliver(r, e)
    BY <1>5 DEF PrimeEvent
  <2>2. /\ events' \subseteq Events /\ answered' \subseteq Events
        /\ versions' \subseteq {v \in events' : v.kind \in VersionedKinds}
        /\ relays' \in [Relays -> Pubkeys \cup {None, "config"}]
        /\ sync_state' \in [Relays -> [Kinds -> -1 .. Horizon]]
    BY <2>1, IngestFacts DEF TypeOK
  <2>3. stored' \in [Relays -> SUBSET Events] /\ live' \in [Relays -> Seq(Events)]
    BY <2>1, DeliverFacts
  <2> QED BY <1>5, <2>2, <2>3 DEF PrimeEvent, TypeOK
<1>6. ASSUME NEW r \in Relays, EndOfStored(r) PROVE TypeOK'
  BY <1>6 DEF EndOfStored, TypeOK
<1>7. CASE PrimeDone
  <2>1. CloseSubscription
    BY <1>7 DEF PrimeDone
  <2> QED BY <1>7, <2>1, CloseFacts DEF PrimeDone, TypeOK, Phases
<1>8. CASE PrimeTimeout
  <2>1. CloseSubscription
    BY <1>8 DEF PrimeTimeout
  <2>2. hurried' \subseteq Relays \X Events
    BY <1>8, UnreplayedType DEF PrimeTimeout, TypeOK
  <2> QED BY <1>8, <2>1, <2>2, CloseFacts DEF PrimeTimeout, TypeOK, Phases
<1>9. CASE Subscribe
  <2>1. OpenSubscription(Kinds) /\ held' = held
    BY <1>9 DEF Subscribe
  <2>2. vouched' \subseteq Pubkeys
    BY <2>1, OpenFacts
  <2> QED BY <1>9, <2>1, <2>2, OpenFacts DEF Subscribe, TypeOK, Phases
<1>10. CASE SubscribeFails
  <2>1. indexed_from' \in [Kinds -> (0 .. Horizon) \cup {None}]
    BY <1>10, BoundsType, RecordAskedType DEF SubscribeFails
  <2> QED BY <1>10, <2>1 DEF SubscribeFails, TypeOK, Phases
<1>11. ASSUME NEW e \in Events, NEW r \in Relays, FollowEvent(e, r) PROVE TypeOK'
  <2>1. Ingest(e, r) /\ Delivers(r, e)
    BY <1>11 DEF FollowEvent
  <2>2. /\ events' \subseteq Events /\ answered' \subseteq Events
        /\ versions' \subseteq {v \in events' : v.kind \in VersionedKinds}
        /\ relays' \in [Relays -> Pubkeys \cup {None, "config"}]
        /\ sync_state' \in [Relays -> [Kinds -> -1 .. Horizon]]
    BY <2>1, IngestFacts DEF TypeOK
  <2>3. configured' \subseteq Relays
    BY <1>11, SyncAssumption DEF FollowEvent, ConnectionSet, TypeOK
  <2>4. CASE CloseSubscription /\ phase' = "dial" /\ stopped' = stopped \cup (Unreplayed \ {<<r, e>>})
    <3>1. stopped' \subseteq Relays \X Events
      BY <2>4, UnreplayedType DEF TypeOK
    <3> QED BY <1>11, <2>2, <2>3, <2>4, <3>1, CloseFacts DEF FollowEvent, TypeOK, Phases
  <2>5. CASE Deliver(r, e) /\ UNCHANGED <<since, vouched, serving, phase, stopped>>
    <3>1. stored' \in [Relays -> SUBSET Events] /\ live' \in [Relays -> Seq(Events)]
      BY <2>1, <2>5, DeliverFacts
    <3> QED BY <1>11, <2>2, <2>3, <2>5, <3>1 DEF FollowEvent, TypeOK
  <2> QED BY <1>11, <2>4, <2>5 DEF FollowEvent
<1>12. CASE StreamEnds
  <2>1. CloseSubscription
    BY <1>12 DEF StreamEnds
  <2>2. stopped' \subseteq Relays \X Events
    BY <1>12, UnreplayedType DEF StreamEnds, TypeOK
  <2> QED BY <1>12, <2>1, <2>2, CloseFacts DEF StreamEnds, TypeOK, Phases
<1>13. CASE Retry
  BY <1>13 DEF Retry, TypeOK, Phases
<1>14. CASE Stop
  <2>1. CloseSubscription
    BY <1>14 DEF Stop
  <2>2. stopped' \subseteq Relays \X Events
    BY <1>14, UnreplayedType DEF Stop, TypeOK
  <2> QED BY <1>14, <2>1, <2>2, CloseFacts DEF Stop, TypeOK, Phases
<1>15. ASSUME NEW e \in Events, NEW r \in Relays, Publish(e, r) PROVE TypeOK'
  <2>1. held' \in [Relays -> SUBSET Events]
    BY <1>15 DEF Publish, TypeOK
  <2>2. live \in [Relays -> Seq(Events)]
    BY DEF TypeOK
  <2>3. Append(live[r], e) \in Seq(Events)
    BY <2>2, AppendFacts
  <2>4. live' \in [Relays -> Seq(Events)]
    BY <1>15, <2>2, <2>3 DEF Publish
  <2> QED BY <1>15, <2>1, <2>4 DEF Publish, TypeOK
<1>16. ASSUME NEW r \in Relays, RelayDown(r) \/ RelayUp(r) PROVE TypeOK'
  BY <1>16 DEF RelayDown, RelayUp, TypeOK
<1>17. ASSUME NEW e \in Events, NEW r \in Relays, Backfill(e, r) PROVE TypeOK'
  <2>1. /\ events' \subseteq Events /\ answered' \subseteq Events
        /\ versions' \subseteq {v \in events' : v.kind \in VersionedKinds}
        /\ relays' \in [Relays -> Pubkeys \cup {None, "config"}]
        /\ sync_state' \in [Relays -> [Kinds -> -1 .. Horizon]]
    BY <1>17, IngestFacts DEF Backfill, TypeOK
  <2>2. overtaken' \subseteq Relays \X Events /\ unread' \subseteq Relays
    BY <1>17 DEF Backfill, TypeOK
  <2> QED BY <1>17, <2>1, <2>2 DEF Backfill, TypeOK
<1>18. CASE UNCHANGED vars
  BY <1>18 DEF vars, TypeOK
<1>19. ASSUME NEW e \in Events, NEW r \in Relays, CapReplay(r, e) PROVE TypeOK'
  <2>1. stored' \in [Relays -> SUBSET Events] /\ withheld' \subseteq Relays \X Events
    BY <1>19, UnreplayedType DEF CapReplay, TypeOK
  <2> QED BY <1>19, <2>1 DEF CapReplay, TypeOK
<1>20. ASSUME NEW r \in Relays, Closed(r) PROVE TypeOK'
  <2>1. stored' \in [Relays -> SUBSET Events] /\ withheld' \subseteq Relays \X Events
    BY <1>20, UnreplayedType DEF Closed, TypeOK
  <2>2. live' \in [Relays -> Seq(Events)]
    BY <1>20 DEF Closed, TypeOK
  <2> QED BY <1>20, <2>1, <2>2 DEF Closed, TypeOK
<1>21. ASSUME NEW k, ClearVersions(k) PROVE TypeOK'
  BY <1>21 DEF ClearVersions, TypeOK
<1>22. ASSUME NEW e \in Events, ReplayVersion(e) PROVE TypeOK'
  BY <1>22 DEF ReplayVersion, TypeOK
<1> QED
  BY <1>1, <1>2, <1>3, <1>4, <1>5, <1>6, <1>7, <1>8, <1>9, <1>10, <1>11, <1>12, <1>13, <1>14,
     <1>15, <1>16, <1>17, <1>18, <1>19, <1>20, <1>21, <1>22 DEF Next, Loop

\* A sync keeps its tables and its subscription typed: in particular the
\* lower bound of every filter is a time between the epoch and the horizon
\* (resume_from's clamp), and so is what indexed_kinds remembers of it.
THEOREM SyncTypeCorrect == Spec => []TypeOK
BY TypedInit, TypedNext, PTL DEF Spec

-----------------------------------------------------------------------------
(* What a subscription carries.                                            *)

\* What the archive vouches for, whatever a rebuild has emptied.
Attested(p) ==
    p \in Listed \/ IsPlatformProven({v \in events : v.kind \in VersionedKinds}, p)

\* The authors the untagged kinds were asked of are vouched for.
VouchedInv == \A p \in vouched : Attested(p)

\* A subscription carries only what its relay holds and what was asked of it.
CarriedInv ==
    \A r \in Relays : \A e \in stored[r] \cup Elements(live[r]) :
        e \in held[r] /\ Matches(e, since[r], vouched)

\* Outside of a subscription there is nothing on the way.
IdleInv ==
    phase \notin {"priming", "following"} => since = Unasked /\ stored = Nothing /\ live = Silence

\* A relay that does not serve the subscription has nothing on the way.
SilentInv == \A r \in Relays \ serving : stored[r] = {} /\ live[r] = << >>

\* Priming asks for no untagged kind, and does not end before the replays.
PrimingInv ==
    phase = "priming" =>
        /\ \A r \in Relays, k \in Kinds \ TAGGED_KINDS : since[r][k] = None
        /\ \A r \in Relays \ waiting : stored[r] = {}

\* Every relay that serves sync was asked for every tagged kind.
FollowingInv ==
    phase = "following" => \A r \in serving, k \in TAGGED_KINDS : since[r][k] # None

SubscriptionInv ==
    VouchedInv /\ CarriedInv /\ IdleInv /\ SilentInv /\ PrimingInv /\ FollowingInv

\* A publisher once proven stays so: the archive only grows.
LEMMA StillProven ==
    ASSUME events \subseteq events', NEW p, Attested(p)
    PROVE  Attested(p)'
BY DEF Attested, IsPlatformProven

\* What the tables vouch for, the archive does.
LEMMA ProvenIsAttested ==
    ASSUME TypeOK, NEW p, Proven(p)
    PROVE  Attested(p)
BY DEF TypeOK, Proven, Attested, IsPlatformProven

\* Nothing is on a stream that nothing came over.
LEMMA NothingComes ==
    ASSUME stored = Nothing, live = Silence
    PROVE  \A r \in Relays : stored[r] \cup Elements(live[r]) = {}
BY DEF Nothing, Silence, Elements

\* A subscription that was just opened.
LEMMA OpenKeeps ==
    ASSUME TypeOK, NEW kinds \in SUBSET Kinds, OpenSubscription(kinds), held' = held,
           events' = events, attached' = attached
    PROVE  /\ VouchedInv' /\ CarriedInv' /\ SilentInv'
           /\ \A r \in Relays, k \in Kinds \ kinds : since'[r][k] = None
           /\ \A r \in serving', k \in kinds \cap TAGGED_KINDS : since'[r][k] # None
           /\ \A r \in Relays \ attached : stored'[r] = {}
<1>1. VouchedInv'
  <2>1. \A p \in vouched' : Attested(p)
    BY OpenFacts, ProvenIsAttested
  <2> QED BY <2>1, StillProven DEF VouchedInv
<1>2. CarriedInv'
  <2>1. \A r \in Relays : Elements(live'[r]) = {}
    BY OpenFacts DEF Silence, Elements
  <2>2. \A r \in Relays :
           stored'[r] = {e \in held[r] : r \in serving' /\ Matches(e, since'[r], vouched')}
    BY OpenFacts
  <2> QED BY <2>1, <2>2 DEF CarriedInv, Elements, Matches, Entitled
<1>3. since' = Bounds(kinds)
  BY OpenFacts
<1>4. \A r \in Relays, k \in Kinds \ kinds : since'[r][k] = None
  BY <1>3 DEF Bounds
<1>5. \A r \in serving', k \in kinds \cap TAGGED_KINDS : since'[r][k] # None
  <2> SUFFICES ASSUME NEW r \in attached, NEW k \in kinds \cap TAGGED_KINDS
               PROVE  since'[r][k] # None
    BY OpenFacts
  <2>1. r \in Relays /\ sync_state[r][k] \in -1 .. Horizon
    BY DEF TypeOK
  <2>2. since'[r][k] = ResumeFrom(sync_state[r][k])
    BY <1>3, <2>1 DEF Bounds
  <2>3. ResumeFrom(sync_state[r][k]) \in Nat
    BY <2>1, SyncAssumption DEF ResumeFrom
  <2> QED BY <2>2, <2>3, ConstantsAssumption
<1>6. \A r \in Relays \ attached : stored'[r] = {}
  <2> SUFFICES ASSUME NEW r \in Relays \ attached PROVE stored'[r] = {}
    OBVIOUS
  <2>1. \A k \in Kinds : since'[r][k] = None
    BY <1>3 DEF Bounds
  <2>2. \A e \in held[r] : e.kind \in Kinds
    BY EventsAssumption DEF TypeOK, EventRecords
  <2> QED BY <2>1, <2>2, OpenFacts DEF Matches
<1>7. SilentInv'
  <2>1. \A r \in Relays : live'[r] = << >>
    BY OpenFacts DEF Silence
  <2>2. \A r \in Relays \ serving' : stored'[r] = {}
    BY OpenFacts
  <2> QED BY <2>1, <2>2 DEF SilentInv
<1> QED BY <1>1, <1>2, <1>4, <1>5, <1>6, <1>7

\* A delivery leaves a part of what was carried.
LEMMA DeliverLess ==
    ASSUME TypeOK, NEW e \in Events, NEW r \in Relays, Delivers(r, e), Deliver(r, e)
    PROVE  /\ e \in stored[r] \cup Elements(live[r])
           /\ \A q \in Relays : /\ stored'[q] \subseteq stored[q]
                                /\ Elements(live'[q]) \subseteq Elements(live[q])
<1>1. live[r] \in Seq(Events)
  BY DEF TypeOK
<1>2. live[r] # << >> => /\ Head(live[r]) \in Elements(live[r])
                         /\ Elements(Tail(live[r])) \subseteq Elements(live[r])
  BY <1>1, TailFacts
<1> QED BY <1>2, DeliverFacts

\* What a relay delivers is on the subscription.
LEMMA DeliversCarried ==
    ASSUME TypeOK, NEW e \in Events, NEW r \in Relays, Delivers(r, e)
    PROVE  e \in stored[r] \cup Elements(live[r])
<1>1. live[r] \in Seq(Events)
  BY DEF TypeOK
<1>2. live[r] # << >> => Head(live[r]) \in Elements(live[r])
  BY <1>1, TailFacts
<1> QED BY <1>2 DEF Delivers

\* Nothing is carried before the first subscription.
LEMMA SubscriptionInvInit ==
    Init => SubscriptionInv
<1> SUFFICES ASSUME Init PROVE SubscriptionInv
  OBVIOUS
<1>1. stored = Nothing /\ live = Silence /\ vouched = {} /\ phase = "down" /\ since = Unasked
  BY DEF Init
<1> QED BY <1>1, NothingComes
        DEF SubscriptionInv, VouchedInv, CarriedInv, IdleInv, SilentInv, PrimingInv, FollowingInv,
            Nothing, Silence

\* The steps that leave the subscription as it is, and hold no less.
LEMMA SubscriptionStays ==
    ASSUME TypeOK, SubscriptionInv, UNCHANGED subscription, held' = held,
           events \subseteq events'
    PROVE  VouchedInv' /\ CarriedInv' /\ SilentInv'
<1>1. VouchedInv'
  BY StillProven DEF SubscriptionInv, VouchedInv, subscription
<1>2. CarriedInv'
  BY DEF SubscriptionInv, CarriedInv, subscription, Elements, Matches, Entitled
<1>3. SilentInv'
  BY DEF SubscriptionInv, SilentInv, subscription
<1> QED BY <1>1, <1>2, <1>3

\* The steps that end a subscription.
LEMMA SubscriptionEnds ==
    ASSUME CloseSubscription
    PROVE  /\ VouchedInv' /\ CarriedInv' /\ SilentInv'
           /\ since' = Unasked /\ stored' = Nothing /\ live' = Silence
<1>1. since' = Unasked /\ vouched' = {} /\ stored' = Nothing /\ live' = Silence
  BY CloseFacts
<1>2. \A r \in Relays : stored'[r] \cup Elements(live'[r]) = {}
  BY <1>1 DEF Nothing, Silence, Elements
<1> QED BY <1>1, <1>2 DEF VouchedInv, CarriedInv, SilentInv, Elements, Nothing, Silence

\* The delivery of an event, and what the pipeline makes of it.
LEMMA SubscriptionDelivers ==
    ASSUME TypeOK, SubscriptionInv, NEW e \in Events, NEW r \in Relays,
           Delivers(r, e), Deliver(r, e), events \subseteq events', held' = held,
           UNCHANGED <<since, vouched, serving>>
    PROVE  /\ VouchedInv' /\ CarriedInv' /\ SilentInv'
           /\ \A q \in Relays : stored[q] = {} => stored'[q] = {}
<1>1. VouchedInv'
  BY StillProven DEF SubscriptionInv, VouchedInv
<1>2. \A q \in Relays : /\ stored'[q] \subseteq stored[q]
                        /\ Elements(live'[q]) \subseteq Elements(live[q])
  BY DeliverLess
<1>3. CarriedInv'
  BY <1>2 DEF SubscriptionInv, CarriedInv, Elements, Matches, Entitled
<1>4. SilentInv'
  BY DeliverFacts DEF SubscriptionInv, SilentInv
<1> QED BY <1>1, <1>2, <1>3, <1>4

\* Every step keeps what a subscription carries to what was asked for.
LEMMA SubscriptionInvNext ==
    TypeOK /\ SubscriptionInv /\ [Next]_vars => SubscriptionInv'
<1> SUFFICES ASSUME TypeOK, SubscriptionInv, [Next]_vars PROVE SubscriptionInv'
  OBVIOUS
<1> USE DEF database, client, subscription, history, losses
<1>1. CASE Start \/ Dial \/ PrimeFails \/ SubscribeFails \/ Retry
  <2>1. /\ UNCHANGED subscription /\ held' = held /\ events' = events
        /\ phase \notin {"priming", "following"} /\ phase' \notin {"priming", "following"}
    BY <1>1 DEF Start, Dial, PrimeFails, SubscribeFails, Retry
  <2>2. VouchedInv' /\ CarriedInv' /\ SilentInv'
    BY <2>1, SubscriptionStays
  <2> QED BY <2>1, <2>2
          DEF SubscriptionInv, IdleInv, PrimingInv, FollowingInv, Unasked, Nothing, Silence
<1>2. CASE Prime
  <2>1. /\ OpenSubscription(TAGGED_KINDS) /\ held' = held /\ events' = events
        /\ attached' = attached /\ TAGGED_KINDS \in SUBSET Kinds
        /\ waiting' = attached /\ phase' = "priming"
    BY <1>2 DEF Prime, TAGGED_KINDS
  <2>2. /\ VouchedInv' /\ CarriedInv' /\ SilentInv'
        /\ \A r \in Relays, k \in Kinds \ TAGGED_KINDS : since'[r][k] = None
        /\ \A r \in Relays \ attached : stored'[r] = {}
    BY <2>1, OpenKeeps
  <2> QED BY <2>1, <2>2 DEF SubscriptionInv, IdleInv, PrimingInv, FollowingInv, TAGGED_KINDS
<1>3. CASE Subscribe
  <2>1. /\ OpenSubscription(Kinds) /\ held' = held /\ events' = events
        /\ attached' = attached /\ Kinds \in SUBSET Kinds /\ phase' = "following"
    BY <1>3 DEF Subscribe
  <2>2. /\ VouchedInv' /\ CarriedInv' /\ SilentInv'
        /\ \A r \in serving', k \in Kinds \cap TAGGED_KINDS : since'[r][k] # None
    BY <2>1, OpenKeeps
  <2> QED BY <2>1, <2>2 DEF SubscriptionInv, IdleInv, PrimingInv, FollowingInv, TAGGED_KINDS
<1>4. ASSUME NEW e \in Events, NEW r \in Relays, PrimeEvent(e, r) PROVE SubscriptionInv'
  <2>1. /\ Delivers(r, e) /\ Deliver(r, e) /\ Ingest(e, r) /\ held' = held
        /\ UNCHANGED <<since, vouched, serving>> /\ phase = "priming" /\ phase' = "priming"
        /\ waiting' = waiting
    BY <1>4 DEF PrimeEvent
  <2>2. events \subseteq events'
    BY <2>1, IngestFacts
  <2>3. VouchedInv' /\ CarriedInv' /\ SilentInv' /\ \A q \in Relays : stored[q] = {} => stored'[q] = {}
    BY <2>1, <2>2, SubscriptionDelivers
  <2> QED BY <2>1, <2>3 DEF SubscriptionInv, IdleInv, PrimingInv, FollowingInv, TAGGED_KINDS
<1>5. ASSUME NEW r \in Relays, EndOfStored(r) PROVE SubscriptionInv'
  <2>1. /\ UNCHANGED subscription /\ held' = held /\ events' = events
        /\ phase = "priming" /\ phase' = "priming" /\ stored[r] = {} /\ waiting' = waiting \ {r}
    BY <1>5 DEF EndOfStored
  <2>2. VouchedInv' /\ CarriedInv' /\ SilentInv'
    BY <2>1, SubscriptionStays
  <2> QED BY <2>1, <2>2 DEF SubscriptionInv, IdleInv, PrimingInv, FollowingInv, TAGGED_KINDS
<1>6. CASE PrimeDone \/ PrimeTimeout \/ StreamEnds \/ Stop
  <2>1. CloseSubscription /\ phase' \notin {"priming", "following"}
    BY <1>6 DEF PrimeDone, PrimeTimeout, StreamEnds, Stop
  <2>2. VouchedInv' /\ CarriedInv' /\ SilentInv' /\ since' = Unasked /\ stored' = Nothing /\ live' = Silence
    BY <2>1, SubscriptionEnds
  <2> QED BY <2>1, <2>2
          DEF SubscriptionInv, IdleInv, PrimingInv, FollowingInv, Unasked, Nothing, Silence
<1>7. ASSUME NEW e \in Events, NEW r \in Relays, FollowEvent(e, r) PROVE SubscriptionInv'
  <2>1. /\ Delivers(r, e) /\ Ingest(e, r) /\ held' = held /\ attached' = attached
        /\ phase = "following"
    BY <1>7 DEF FollowEvent
  <2>2. events \subseteq events'
    BY <2>1, IngestFacts
  <2>3. CASE CloseSubscription /\ phase' = "dial"
    <3>1. VouchedInv' /\ CarriedInv' /\ SilentInv' /\ since' = Unasked /\ stored' = Nothing /\ live' = Silence
      BY <2>3, SubscriptionEnds
    <3> QED BY <2>3, <3>1
            DEF SubscriptionInv, IdleInv, PrimingInv, FollowingInv, Unasked, Nothing, Silence
  <2>4. CASE Deliver(r, e) /\ UNCHANGED <<since, vouched, serving, phase>>
    <3>1. VouchedInv' /\ CarriedInv' /\ SilentInv'
      BY <2>1, <2>2, <2>4, SubscriptionDelivers
    <3> QED BY <2>1, <2>4, <3>1
            DEF SubscriptionInv, IdleInv, PrimingInv, FollowingInv, TAGGED_KINDS
  <2> QED BY <1>7, <2>3, <2>4 DEF FollowEvent
<1>8. ASSUME NEW e \in Events, NEW r \in Relays, Publish(e, r) PROVE SubscriptionInv'
  <2>1. /\ UNCHANGED <<since, vouched, serving, stored, events, phase, attached, waiting>>
        /\ held' = [held EXCEPT ![r] = @ \cup {e}]
        /\ live' = IF r \in serving /\ Matches(e, since[r], vouched)
                   THEN [live EXCEPT ![r] = Append(@, e)] ELSE live
    BY <1>8 DEF Publish
  <2>2. VouchedInv'
    BY <2>1, StillProven DEF SubscriptionInv, VouchedInv
  <2>3. live \in [Relays -> Seq(Events)] /\ held \in [Relays -> SUBSET Events]
    BY DEF TypeOK
  <2>4. /\ \A q \in Relays : held[q] \subseteq held'[q]
        /\ e \in held'[r]
    BY <2>1, <2>3
  <2>5. \A q \in Relays : \/ Elements(live'[q]) = Elements(live[q])
                          \/ /\ q = r /\ Matches(e, since[r], vouched)
                             /\ Elements(live'[q]) = Elements(live[q]) \cup {e}
    <3>1. Elements(Append(live[r], e)) = Elements(live[r]) \cup {e}
      BY <2>3, AppendFacts
    <3> QED BY <2>1, <2>3, <3>1
  <2>6. ASSUME NEW q \in Relays, NEW f \in stored'[q] \cup Elements(live'[q])
        PROVE  f \in held'[q] /\ Matches(f, since[q], vouched)
    BY <2>1, <2>4, <2>5 DEF SubscriptionInv, CarriedInv
  <2>7. CarriedInv'
    BY <2>1, <2>6 DEF CarriedInv, Elements, Matches, Entitled
  <2>8. IdleInv'
    <3>1. \A q \in Relays, k \in Kinds : Unasked[q][k] = None
      BY DEF Unasked
    <3>2. e.kind \in Kinds
      BY EventsAssumption DEF EventRecords
    <3> QED BY <2>1, <3>1, <3>2 DEF SubscriptionInv, IdleInv, Matches, Unasked, Nothing, Silence
  <2>9. SilentInv'
    BY <2>1, <2>3 DEF SubscriptionInv, SilentInv
  <2> QED BY <2>1, <2>2, <2>7, <2>8, <2>9
          DEF SubscriptionInv, PrimingInv, FollowingInv, TAGGED_KINDS
<1>9. ASSUME NEW r \in Relays, RelayDown(r) \/ RelayUp(r) PROVE SubscriptionInv'
  <2>1. /\ UNCHANGED subscription /\ held' = held /\ events' = events
        /\ UNCHANGED <<phase, attached, waiting>>
    BY <1>9 DEF RelayDown, RelayUp
  <2>2. VouchedInv' /\ CarriedInv' /\ SilentInv'
    BY <2>1, SubscriptionStays
  <2> QED BY <2>1, <2>2
          DEF SubscriptionInv, IdleInv, PrimingInv, FollowingInv, TAGGED_KINDS, Unasked, Nothing,
              Silence
<1>10. ASSUME NEW e \in Events, NEW r \in Relays, Backfill(e, r) PROVE SubscriptionInv'
  <2>1. /\ UNCHANGED subscription /\ held' = held /\ Ingest(e, r)
        /\ UNCHANGED <<phase, attached, waiting>>
    BY <1>10 DEF Backfill
  <2>2. events \subseteq events'
    BY <2>1, IngestFacts
  <2>3. VouchedInv' /\ CarriedInv' /\ SilentInv'
    BY <2>1, <2>2, SubscriptionStays
  <2> QED BY <2>1, <2>3
          DEF SubscriptionInv, IdleInv, PrimingInv, FollowingInv, TAGGED_KINDS, Unasked, Nothing,
              Silence
<1>11. CASE UNCHANGED vars
  <2>1. /\ UNCHANGED subscription /\ held' = held /\ events' = events
        /\ UNCHANGED <<phase, attached, waiting>>
    BY <1>11 DEF vars
  <2>2. VouchedInv' /\ CarriedInv' /\ SilentInv'
    BY <2>1, SubscriptionStays
  <2> QED BY <2>1, <2>2
          DEF SubscriptionInv, IdleInv, PrimingInv, FollowingInv, TAGGED_KINDS, Unasked, Nothing,
              Silence
<1>12. ASSUME NEW r \in Relays, (\E e \in Events : CapReplay(r, e)) \/ Closed(r)
       PROVE  SubscriptionInv'
  <2>1. /\ held' = held /\ events' = events /\ UNCHANGED <<since, vouched, phase, waiting>>
        /\ serving' \subseteq serving
        /\ \A q \in Relays : /\ stored'[q] \subseteq stored[q]
                             /\ live'[q] = live[q] \/ live'[q] = << >>
                             /\ q \in serving' \/ (q \notin serving /\ live'[q] = live[q])
                                   \/ (stored'[q] = {} /\ live'[q] = << >>)
    BY <1>12, ZenonT(60) DEF CapReplay, Closed, TypeOK
  <2>2. \A q \in Relays : Elements(live'[q]) \subseteq Elements(live[q])
    BY <2>1 DEF Elements
  <2>3. VouchedInv'
    BY <2>1, StillProven DEF SubscriptionInv, VouchedInv
  <2>4. CarriedInv'
    BY <2>1, <2>2 DEF SubscriptionInv, CarriedInv, Elements, Matches, Entitled
  <2>5. SilentInv'
    BY <2>1 DEF SubscriptionInv, SilentInv
  <2>6. IdleInv'
    <3>1. phase \notin {"priming", "following"} => \A q \in Relays : stored[q] = {} /\ live[q] = << >>
      BY DEF SubscriptionInv, IdleInv, Nothing, Silence
    <3>2. stored' \in [Relays -> SUBSET Events] /\ live' \in [Relays -> Seq(Events)]
      BY TypedNext DEF TypeOK
    <3> QED BY <2>1, <3>1, <3>2 DEF SubscriptionInv, IdleInv, Unasked, Nothing, Silence
  <2> QED BY <2>1, <2>3, <2>4, <2>5, <2>6
          DEF SubscriptionInv, PrimingInv, FollowingInv, TAGGED_KINDS
<1>13. CASE (\E k \in VersionedKinds : ClearVersions(k)) \/ \E e \in Events : ReplayVersion(e)
  <2>1. /\ UNCHANGED subscription /\ held' = held /\ events' = events
        /\ UNCHANGED <<phase, attached, waiting>>
    BY <1>13 DEF ClearVersions, ReplayVersion
  <2>2. VouchedInv' /\ CarriedInv' /\ SilentInv'
    BY <2>1, SubscriptionStays
  <2> QED BY <2>1, <2>2
          DEF SubscriptionInv, IdleInv, PrimingInv, FollowingInv, TAGGED_KINDS, Unasked, Nothing,
              Silence
<1> QED
  BY <1>1, <1>2, <1>3, <1>4, <1>5, <1>6, <1>7, <1>8, <1>9, <1>10, <1>11, <1>12, <1>13
     DEF Next, Loop

\* An untagged event is asked of the vouched alone.
LEMMA CarriedIsProven ==
    SubscriptionInv => NothingRefused
<1> SUFFICES ASSUME SubscriptionInv, versions = {v \in events : v.kind \in VersionedKinds},
                    NEW r \in Relays,
                    NEW e \in stored[r] \cup {live[r][i] : i \in DOMAIN live[r]},
                    e.kind \notin TAGGED_KINDS
             PROVE  Proven(e.pubkey)
  BY DEF NothingRefused
<1>1. Matches(e, since[r], vouched)
  BY DEF SubscriptionInv, CarriedInv, Elements
<1>2. e.pubkey \in vouched
  BY <1>1 DEF Matches, Entitled
<1>3. Attested(e.pubkey)
  BY <1>2 DEF SubscriptionInv, VouchedInv
<1> QED BY <1>3 DEF Attested, Proven

\* Nothing that sync asks for is turned away by the pipeline when it arrives,
\* with or without a backfill beside it, while no rebuild from raw holds back
\* the rows that vouch (filters.rs:69).
THEOREM NothingRefusedCorrect == Spec => []NothingRefused
<1>1. Init => TypeOK /\ SubscriptionInv
  BY TypedInit, SubscriptionInvInit
<1>2. TypeOK /\ SubscriptionInv /\ [Next]_vars => TypeOK' /\ SubscriptionInv'
  BY TypedNext, SubscriptionInvNext
<1>3. TypeOK /\ SubscriptionInv => NothingRefused
  BY CarriedIsProven
<1> QED BY <1>1, <1>2, <1>3, PTL DEF Spec

-----------------------------------------------------------------------------
(* The relays that are dialled.                                            *)

\* The table calls "config" only what the configuration names, and from the
\* dialling on every relay of the table is among those dialled, or was put
\* there by somebody else since the table was read.
DialInv ==
    /\ \A u \in Relays : relays[u] = "config" => u \in Configured
    /\ Discover /\ phase \in {"dialled", "priming", "primed", "following"} =>
          \A u \in Relays : relays[u] # None => u \in configured \cup unread

\* What an instance names is not of the configuration.
LEMMA NamedByInstance ==
    ASSUME \A u \in Relays : relays[u] = "config" => u \in Configured,
           NEW e \in Events, NEW r \in Relays, TypeOK, Ingest(e, r)
    PROVE  \A u \in Relays : relays'[u] = "config" => u \in Configured
<1>1. e.pubkey # "config"
  BY EventsAssumption, SyncAssumption DEF EventRecords
<1>2. relays' = UpsertRelays(relays, e.urls, e.pubkey) \/ relays' = relays
  BY IngestFacts
<1> QED BY <1>1, <1>2 DEF UpsertRelays

\* The connection set holds every relay of the table.
LEMMA SetHoldsTable ==
    ASSUME Discover, NEW table \in [Relays -> Pubkeys \cup {None, "config"}],
           \A u \in Relays : table[u] = "config" => u \in Configured
    PROVE  \A u \in Relays : table[u] # None => u \in ConnectionSet(table)
BY DEF ConnectionSet

\* Sync keeps dialling every relay of the table it has read.
LEMMA DialInvNext ==
    TypeOK /\ SubscriptionInv /\ DialInv /\ [Next]_vars => DialInv'
<1> SUFFICES ASSUME TypeOK, SubscriptionInv, DialInv, [Next]_vars PROVE DialInv'
  OBVIOUS
<1> USE DEF database, client, subscription, history, losses
<1>1. CASE Start
  <2>1. /\ phase' = "dial" /\ relays' = UpsertRelays(relays, Configured, "config")
    BY <1>1 DEF Start
  <2> QED BY <2>1 DEF DialInv, UpsertRelays
<1>2. CASE Dial
  <2>1. /\ relays' = relays
        /\ Discover => configured' = ConnectionSet(relays)
    BY <1>2 DEF Dial
  <2>2. Discover => \A u \in Relays : relays[u] # None => u \in ConnectionSet(relays)
    BY SetHoldsTable DEF DialInv, TypeOK
  <2> QED BY <2>1, <2>2 DEF DialInv
<1>3. CASE Prime \/ PrimeFails \/ PrimeDone \/ PrimeTimeout \/ Subscribe
  BY <1>3 DEF Prime, PrimeFails, PrimeDone, PrimeTimeout, Subscribe, DialInv
<1>4. CASE SubscribeFails \/ Retry \/ StreamEnds \/ Stop
  BY <1>4 DEF SubscribeFails, Retry, StreamEnds, Stop, DialInv
<1>5. ASSUME NEW e \in Events, NEW r \in Relays, PrimeEvent(e, r) PROVE DialInv'
  <2>1. Delivers(r, e) /\ Ingest(e, r) /\ phase = "priming"
    BY <1>5 DEF PrimeEvent
  <2>2. e.kind # "relay_list"
    <3>1. Matches(e, since[r], vouched)
      BY <2>1, DeliversCarried DEF SubscriptionInv, CarriedInv
    <3> QED BY <2>1, <3>1 DEF Matches, SubscriptionInv, PrimingInv, TAGGED_KINDS, Kinds
  <2>3. relays' = relays
    BY <2>1, <2>2, IngestFacts
  <2> QED BY <1>5, <2>3 DEF PrimeEvent, DialInv
<1>6. ASSUME NEW r \in Relays, EndOfStored(r) PROVE DialInv'
  BY <1>6 DEF EndOfStored, DialInv
<1>7. ASSUME NEW e \in Events, NEW r \in Relays, FollowEvent(e, r) PROVE DialInv'
  <2>1. Ingest(e, r) /\ phase = "following"
    BY <1>7 DEF FollowEvent
  <2>2. \A u \in Relays : relays'[u] = "config" => u \in Configured
    BY <2>1, NamedByInstance DEF DialInv
  <2>3. ASSUME Discover PROVE \A u \in Relays : relays'[u] # None => u \in configured' \cup unread'
    <3>1. CASE e.kind = "relay_list" /\ Stores(e)
      <4>1. configured' = ConnectionSet(relays')
        BY <1>7, <2>3, <3>1 DEF FollowEvent
      <4>2. relays' \in [Relays -> Pubkeys \cup {None, "config"}]
        BY <2>1, IngestFacts
      <4> QED BY <2>2, <2>3, <4>1, <4>2, SetHoldsTable
    <3>2. CASE ~(e.kind = "relay_list" /\ Stores(e))
      <4>1. configured' = configured /\ unread' = unread
        BY <1>7, <3>2 DEF FollowEvent
      <4>2. relays' = relays
        BY <2>1, <3>2, IngestFacts
      <4> QED BY <2>1, <2>3, <4>1, <4>2 DEF DialInv
    <3> QED BY <3>1, <3>2
  <2> QED BY <2>2, <2>3 DEF DialInv
<1>8. ASSUME NEW e \in Events, NEW r \in Relays, Publish(e, r) PROVE DialInv'
  BY <1>8 DEF Publish, DialInv
<1>9. ASSUME NEW r \in Relays, RelayDown(r) \/ RelayUp(r) PROVE DialInv'
  BY <1>9 DEF RelayDown, RelayUp, DialInv
<1>10. CASE UNCHANGED vars
  BY <1>10 DEF vars, DialInv
<1>11. ASSUME NEW e \in Events, NEW r \in Relays, Backfill(e, r) PROVE DialInv'
  <2>1. Ingest(e, r) /\ UNCHANGED <<phase, configured>>
    BY <1>11 DEF Backfill
  <2>2. \A u \in Relays : relays'[u] = "config" => u \in Configured
    BY <2>1, NamedByInstance DEF DialInv
  <2>3. unread' = unread \cup {u \in Relays : relays[u] # relays'[u]}
    BY <1>11 DEF Backfill
  <2> QED BY <2>1, <2>2, <2>3 DEF DialInv
<1>12. ASSUME NEW e \in Events, NEW r \in Relays, CapReplay(r, e) PROVE DialInv'
  BY <1>12 DEF CapReplay, DialInv
<1>13. ASSUME NEW r \in Relays, Closed(r) PROVE DialInv'
  BY <1>13 DEF Closed, DialInv
<1>14. CASE (\E k \in VersionedKinds : ClearVersions(k)) \/ \E e \in Events : ReplayVersion(e)
  BY <1>14 DEF ClearVersions, ReplayVersion, DialInv
<1> QED
  BY <1>1, <1>2, <1>3, <1>4, <1>5, <1>6, <1>7, <1>8, <1>9, <1>10, <1>11, <1>12, <1>13, <1>14
     DEF Next, Loop

\* While sync follows, a relay that any stored relay list names is among
\* those it dials, other than one that a backfill beside it recorded since
\* sync read the table: that one waits for the next reading (sync.rs:43).
THEOREM DiscoveredCorrect == Spec => []Discovered
<1>1. Init => TypeOK /\ SubscriptionInv /\ DialInv
  <2>1. Init => DialInv
    BY SyncAssumption DEF Init, DialInv
  <2> QED BY <2>1, TypedInit, SubscriptionInvInit
<1>2. TypeOK /\ SubscriptionInv /\ DialInv /\ [Next]_vars
        => TypeOK' /\ SubscriptionInv' /\ DialInv'
  BY TypedNext, SubscriptionInvNext, DialInvNext
<1>3. TypeOK /\ SubscriptionInv /\ DialInv => Discovered
  BY DEF DialInv, Discovered
<1> QED BY <1>1, <1>2, <1>3, PTL DEF Spec

-----------------------------------------------------------------------------
(* Nothing is missed.                                                      *)

\* The tagged events of relay r that the filters let through.
Wanted(r) == {e \in held[r] : e.kind \in TAGGED_KINDS /\ Entitled(e.kind, e.pubkey, {})}

\* The pipeline had it, or it is on record as left out.
Excused(r, e) == e \in answered \/ <<r, e>> \in Lost

\* A cursor stands on an event of its relay.
CursorInv ==
    \A r \in Relays, k \in Kinds :
        sync_state[r][k] # -1 => \E f \in held[r] : f.at = sync_state[r][k]

\* A filter that starts after the epoch starts an overlap before its cursor.
BoundInv ==
    \A r \in Relays, k \in Kinds :
        since[r][k] # None /\ since[r][k] # 0 => since[r][k] + Overlap <= sync_state[r][k]

\* Nothing on its way to the pipeline is newer by more than the overlap than
\* what is to be delivered after it.
OrderInv ==
    \A r \in Relays : \A i \in DOMAIN live[r] :
        /\ \A g \in stored[r] : g.at <= live[r][i].at + Overlap
        /\ \A j \in DOMAIN live[r] : j < i => live[r][j].at <= live[r][i].at + Overlap

\* What lies further behind a cursor than the overlap reaches is accounted
\* for: nobody will ask for it again.
BehindInv ==
    \A r \in Relays : \A e \in Wanted(r) :
        e.at + Overlap < sync_state[r][e.kind] => Excused(r, e) \/ e \in stored[r]

\* What a serving relay was asked for is accounted for or on its way.
AskedInv ==
    \A r \in serving : \A e \in Wanted(r) :
        since[r][e.kind] # None /\ since[r][e.kind] <= e.at =>
            Excused(r, e) \/ e \in stored[r] \/ e \in Elements(live[r])

CatchInv == CursorInv /\ BoundInv /\ OrderInv /\ BehindInv /\ AskedInv

\* The numbers those inequalities are about.
LEMMA Stamps ==
    ASSUME TypeOK, NEW r \in Relays
    PROVE  /\ Overlap \in Nat /\ Horizon \in Nat /\ None \notin Nat
           /\ \A e \in Events : e.at \in 0 .. Horizon /\ e.at \in Nat /\ e.kind \in Kinds
           /\ \A k \in Kinds : sync_state[r][k] \in -1 .. Horizon /\ sync_state[r][k] \in Int
           /\ \A k \in Kinds : since[r][k] \in Nat \cup {None}
           /\ held[r] \subseteq Events /\ stored[r] \subseteq Events
           /\ live[r] \in Seq(Events)
           /\ Wanted(r) \subseteq Events /\ Elements(live[r]) \subseteq Events
<1>1. /\ Overlap \in Nat /\ Horizon \in Nat /\ None \notin Nat
      /\ \A e \in Events : e.at \in 0 .. Horizon /\ e.kind \in Kinds
  BY EventsAssumption, ConstantsAssumption, SyncAssumption DEF EventRecords
<1>2. /\ \A k \in Kinds : sync_state[r][k] \in -1 .. Horizon
      /\ held[r] \subseteq Events /\ stored[r] \subseteq Events /\ live[r] \in Seq(Events)
      /\ \A k \in Kinds : since[r][k] \in (0 .. Horizon) \cup {None}
  BY DEF TypeOK
<1>3. Wanted(r) \subseteq Events /\ Elements(live[r]) \subseteq Events
  BY <1>2 DEF Wanted, Elements
<1> QED BY <1>1, <1>2, <1>3

\* The steps that touch neither what is held nor the subscription.
LEMMA QuietCatch ==
    ASSUME CatchInv, UNCHANGED <<held, sync_state, answered, losses, since, serving, stored, live>>
    PROVE  CatchInv'
BY DEF CatchInv, CursorInv, BoundInv, OrderInv, BehindInv, AskedInv, Wanted, Excused, Elements,
       Entitled, Lost, losses

\* A subscription is opened where none was.
LEMMA OpenCatch ==
    ASSUME TypeOK, CatchInv, NEW kinds \in SUBSET Kinds, OpenSubscription(kinds), stored = Nothing,
           UNCHANGED <<held, sync_state, answered, losses>>
    PROVE  CatchInv'
<1>0. serving' \subseteq Relays
  BY OpenFacts DEF TypeOK
<1>1. \A r \in Relays : Wanted(r)' = Wanted(r)
  BY DEF Wanted, Entitled
<1>2. CursorInv'
  BY DEF CatchInv, CursorInv
<1>3. BoundInv'
  <2> SUFFICES ASSUME NEW r \in Relays, NEW k \in Kinds, since'[r][k] # None, since'[r][k] # 0
               PROVE  since'[r][k] + Overlap <= sync_state[r][k]
    BY DEF BoundInv
  <2>1. since' = Bounds(kinds)
    BY OpenFacts
  <2>2. since'[r][k] = ResumeFrom(sync_state[r][k])
    BY <2>1 DEF Bounds
  <2>3. sync_state[r][k] \in Int /\ Overlap \in Nat
    BY Stamps
  <2> QED BY <2>2, <2>3 DEF ResumeFrom
<1>4. OrderInv'
  <2>1. \A r \in Relays : live'[r] = << >>
    BY OpenFacts DEF Silence
  <2> QED BY <2>1 DEF OrderInv
<1>5. BehindInv'
  BY <1>1 DEF CatchInv, BehindInv, Excused, Nothing, Lost, losses
<1>6. AskedInv'
  <2> SUFFICES ASSUME NEW r \in serving', NEW e \in Wanted(r), since'[r][e.kind] # None,
                      since'[r][e.kind] <= e.at
               PROVE  e \in stored'[r]
    BY <1>0, <1>1 DEF AskedInv
  <2>1. stored'[r] = {f \in held[r] : r \in serving' /\ Matches(f, since'[r], vouched')}
    BY <1>0, OpenFacts
  <2> QED BY <2>1 DEF Wanted, Matches, Entitled
<1> QED BY <1>2, <1>3, <1>4, <1>5, <1>6 DEF CatchInv

\* A subscription is closed, and what its replays had left is on record.
LEMMA CloseCatch ==
    ASSUME TypeOK, CatchInv, CloseSubscription, UNCHANGED <<held, sync_state, answered>>,
           Lost \cup Unreplayed \subseteq Lost'
    PROVE  CatchInv'
<1>1. \A r \in Relays : Wanted(r)' = Wanted(r)
  BY DEF Wanted, Entitled
<1>2. CursorInv'
  BY DEF CatchInv, CursorInv
<1>3. /\ \A r \in Relays, k \in Kinds : since'[r][k] = None
      /\ \A r \in Relays : live'[r] = << >>
  BY CloseFacts DEF Unasked, Silence
<1>4. BoundInv' /\ OrderInv'
  BY <1>3 DEF BoundInv, OrderInv
<1>5. AskedInv'
  <2>1. serving' = {}
    BY CloseFacts
  <2> QED BY <2>1 DEF AskedInv
<1>6. BehindInv'
  <2> SUFFICES ASSUME NEW r \in Relays, NEW e \in Wanted(r),
                      e.at + Overlap < sync_state[r][e.kind]
               PROVE  e \in answered \/ <<r, e>> \in Lost'
    BY <1>1 DEF BehindInv, Excused
  <2>1. Excused(r, e) \/ e \in stored[r]
    BY DEF CatchInv, BehindInv
  <2>2. e \in stored[r] => e \in answered \/ <<r, e>> \in Unreplayed
    BY UnreplayedType, Stamps
  <2> QED BY <2>1, <2>2 DEF Excused
<1> QED BY <1>2, <1>4, <1>5, <1>6 DEF CatchInv

\* Where the cursors stand after a delivery, and what they leave behind: the
\* argument for the overlap.
LEMMA IngestBehind ==
    ASSUME TypeOK, SubscriptionInv, CatchInv, NEW e \in Events, NEW r \in Relays,
           Delivers(r, e), Ingest(e, r), held' = held
    PROVE  /\ CursorInv'
           /\ \A q \in Relays, k \in Kinds : sync_state[q][k] <= sync_state'[q][k]
           /\ \A q \in Relays : \A g \in Wanted(q) :
                 g.at + Overlap < sync_state'[q][g.kind] => Excused(q, g) \/ g \in stored[q]
<1>1. /\ e \in stored[r] \cup Elements(live[r])
      /\ e \in held[r]
      /\ Matches(e, since[r], vouched)
  BY DeliversCarried DEF SubscriptionInv, CarriedInv
<1>2. \A q \in Relays, k \in Kinds :
         \/ sync_state'[q][k] = sync_state[q][k]
         \/ q = r /\ k = e.kind /\ sync_state'[q][k] = e.at /\ sync_state[q][k] < e.at
  BY IngestFacts
<1>3. CursorInv'
  BY <1>1, <1>2 DEF CatchInv, CursorInv
<1>4. \A q \in Relays, k \in Kinds : sync_state[q][k] <= sync_state'[q][k]
  <2> SUFFICES ASSUME NEW q \in Relays, NEW k \in Kinds
               PROVE  sync_state[q][k] <= sync_state'[q][k]
    OBVIOUS
  <2>1. sync_state[q][k] \in Int /\ e.at \in Int
    BY Stamps
  <2> QED BY <1>2, <2>1
<1>5. ASSUME NEW q \in Relays, NEW g \in Wanted(q), g.at + Overlap < sync_state'[q][g.kind]
      PROVE  Excused(q, g) \/ g \in stored[q]
  <2>0. g \in Events /\ g.kind \in Kinds
    BY Stamps
  <2>1. CASE g.at + Overlap < sync_state[q][g.kind]
    BY <2>1 DEF CatchInv, BehindInv
  <2>2. CASE ~(g.at + Overlap < sync_state[q][g.kind])
    <3>1. q = r /\ g.kind = e.kind /\ sync_state'[q][g.kind] = e.at
      BY <1>2, <1>5, <2>0, <2>2
    <3>2. /\ g.at \in Nat /\ e.at \in Nat /\ Overlap \in Nat /\ sync_state[r][g.kind] \in Int
          /\ since[r][g.kind] \in Nat \cup {None} /\ None \notin Nat
      BY <2>0, Stamps
    <3>3. since[r][g.kind] # None
      BY <1>1, <3>1 DEF Matches
    <3>4. since[r][g.kind] <= g.at
      <4>1. CASE since[r][g.kind] = 0
        BY <3>2, <4>1
      <4>2. CASE since[r][g.kind] # 0
        <5>1. since[r][g.kind] + Overlap <= sync_state[r][g.kind]
          BY <2>0, <3>3, <4>2 DEF CatchInv, BoundInv
        <5> QED BY <2>2, <3>1, <3>2, <3>3, <5>1
      <4> QED BY <4>1, <4>2
    <3>5. Excused(r, g) \/ g \in stored[r] \/ g \in Elements(live[r])
      <4>1. r \in serving
        BY DEF Delivers, SubscriptionInv, SilentInv
      <4> QED BY <1>5, <3>1, <3>3, <3>4, <4>1 DEF CatchInv, AskedInv
    <3>6. g.at + Overlap < e.at
      BY <1>5, <3>1
    <3>7. ASSUME g \in Elements(live[r]) PROVE FALSE
      <4>1. PICK i \in DOMAIN live[r] : live[r][i] = g
        BY <3>7 DEF Elements
      <4>2. CASE e \in stored[r]
        <5>1. e.at <= g.at + Overlap
          BY <4>1, <4>2 DEF CatchInv, OrderInv
        <5> QED BY <3>2, <3>6, <5>1
      <4>3. CASE e \notin stored[r]
        <5>1. live[r] # << >> /\ e = Head(live[r])
          BY <4>3 DEF Delivers
        <5>2. live[r] \in Seq(Events)
          BY Stamps
        <5>3. 1 \in DOMAIN live[r] /\ e = live[r][1]
          BY <5>1, <5>2, TailFacts
        <5>4. i = 1 \/ 1 < i
          BY <4>1, <5>2
        <5>5. CASE i = 1
          BY <3>2, <3>6, <4>1, <5>3, <5>5
        <5>6. CASE 1 < i
          <6>1. e.at <= g.at + Overlap
            BY <4>1, <5>3, <5>6 DEF CatchInv, OrderInv
          <6> QED BY <3>2, <3>6, <6>1
        <5> QED BY <5>4, <5>5, <5>6
      <4> QED BY <4>2, <4>3
    <3> QED BY <3>1, <3>5, <3>7
  <2> QED BY <2>1, <2>2
<1> QED BY <1>3, <1>4, <1>5

\* A bound stays an overlap behind a cursor that only grows.
LEMMA BoundStays ==
    ASSUME TypeOK, CatchInv, since' = since,
           sync_state' \in [Relays -> [Kinds -> -1 .. Horizon]],
           \A q \in Relays, k \in Kinds : sync_state[q][k] <= sync_state'[q][k]
    PROVE  BoundInv'
<1> SUFFICES ASSUME NEW q \in Relays, NEW k \in Kinds, since[q][k] # None, since[q][k] # 0
             PROVE  since[q][k] + Overlap <= sync_state'[q][k]
  BY DEF BoundInv
<1>1. since[q][k] + Overlap <= sync_state[q][k]
  BY DEF CatchInv, BoundInv
<1>2. /\ since[q][k] \in Nat \cup {None} /\ Overlap \in Nat /\ sync_state[q][k] \in Int
  BY Stamps
<1>3. sync_state'[q][k] \in Int
  OBVIOUS
<1>4. sync_state[q][k] <= sync_state'[q][k]
  OBVIOUS
<1> QED BY <1>1, <1>2, <1>3, <1>4

\* The delivery of an event on a subscription that goes on.
LEMMA DeliverCatch ==
    ASSUME TypeOK, SubscriptionInv, CatchInv, NEW e \in Events, NEW r \in Relays,
           Delivers(r, e), Deliver(r, e), Ingest(e, r),
           UNCHANGED <<held, since, serving, losses>>
    PROVE  CatchInv'
<1>1. \A q \in Relays : Wanted(q)' = Wanted(q)
  BY DEF Wanted, Entitled
<1>2. /\ answered \subseteq answered'
      /\ e.kind \in TAGGED_KINDS => e \in answered'
      /\ sync_state' \in [Relays -> [Kinds -> -1 .. Horizon]]
  BY IngestFacts
<1>3. /\ CursorInv'
      /\ \A q \in Relays, k \in Kinds : sync_state[q][k] <= sync_state'[q][k]
      /\ \A q \in Relays : \A g \in Wanted(q) :
            g.at + Overlap < sync_state'[q][g.kind] => Excused(q, g) \/ g \in stored[q]
  BY IngestBehind
<1>4. BoundInv'
  BY <1>2, <1>3, BoundStays
<1>5. \A q \in Relays : /\ stored[q] \ {e} \subseteq stored'[q] /\ stored'[q] \subseteq stored[q]
                        /\ Elements(live[q]) \ {e} \subseteq Elements(live'[q])
  <2>1. live[r] \in Seq(Events)
    BY Stamps
  <2>2. live[r] # << >> => Elements(live[r]) = {Head(live[r])} \cup Elements(Tail(live[r]))
    BY <2>1, TailFacts
  <2> QED BY <2>2, DeliverFacts
<1>6. \A q \in Relays : \A g \in Wanted(q) : g = e => g \in answered'
  BY <1>2 DEF Wanted
<1>7. BehindInv'
  <2> SUFFICES ASSUME NEW q \in Relays, NEW g \in Wanted(q),
                      g.at + Overlap < sync_state'[q][g.kind]
               PROVE  g \in answered' \/ <<q, g>> \in Lost \/ g \in stored'[q]
    BY <1>1 DEF BehindInv, Excused, Lost, losses
  <2> QED BY <1>2, <1>3, <1>5, <1>6 DEF Excused
<1>8. AskedInv'
  <2> SUFFICES ASSUME NEW q \in serving, NEW g \in Wanted(q),
                      since[q][g.kind] # None, since[q][g.kind] <= g.at
               PROVE  \/ g \in answered' \/ <<q, g>> \in Lost
                      \/ g \in stored'[q] \/ g \in Elements(live'[q])
    BY <1>1, ZenonT(60) DEF AskedInv, Excused, Elements, Lost, losses, TypeOK
  <2>0. q \in Relays
    BY DEF TypeOK
  <2>1. Excused(q, g) \/ g \in stored[q] \/ g \in Elements(live[q])
    BY DEF CatchInv, AskedInv
  <2> QED BY <1>2, <1>5, <1>6, <2>0, <2>1 DEF Excused
<1>9. OrderInv'
  <2> SUFFICES ASSUME NEW q \in Relays, NEW i \in DOMAIN live'[q]
               PROVE  /\ \A g \in stored'[q] : g.at <= live'[q][i].at + Overlap
                      /\ \A j \in DOMAIN live'[q] :
                            j < i => live'[q][j].at <= live'[q][i].at + Overlap
    BY DEF OrderInv
  <2>1. CASE live'[q] = live[q]
    BY <1>5, <2>1 DEF CatchInv, OrderInv
  <2>2. CASE live'[q] # live[q]
    <3>1. q = r /\ stored'[r] = {} /\ live[r] # << >> /\ live'[r] = Tail(live[r])
      BY <2>2, DeliverFacts
    <3>2. live[r] \in Seq(Events)
      BY Stamps
    <3>3. /\ DOMAIN Tail(live[r]) \subseteq Nat \ {0}
          /\ \A j \in DOMAIN Tail(live[r]) :
                j + 1 \in DOMAIN live[r] /\ Tail(live[r])[j] = live[r][j + 1]
      BY <3>1, <3>2, TailFacts
    <3>4. ASSUME NEW j \in DOMAIN live'[q], j < i
          PROVE  live'[q][j].at <= live'[q][i].at + Overlap
      <4>1. /\ i + 1 \in DOMAIN live[r] /\ live'[q][i] = live[r][i + 1]
            /\ j + 1 \in DOMAIN live[r] /\ live'[q][j] = live[r][j + 1]
            /\ j + 1 < i + 1
        BY <3>1, <3>3, <3>4
      <4> QED BY <4>1 DEF CatchInv, OrderInv
    <3> QED BY <3>1, <3>4
  <2> QED BY <2>1, <2>2
<1> QED BY <1>3, <1>4, <1>7, <1>8, <1>9 DEF CatchInv

\* The delivery of a relay list that ends its subscription.
LEMMA WidenCatch ==
    ASSUME TypeOK, SubscriptionInv, CatchInv, NEW e \in Events, NEW r \in Relays,
           Delivers(r, e), Ingest(e, r), CloseSubscription,
           Lost \cup (Unreplayed \ {<<r, e>>}) \subseteq Lost', UNCHANGED held
    PROVE  CatchInv'
<1>1. \A q \in Relays : Wanted(q)' = Wanted(q)
  BY DEF Wanted, Entitled
<1>2. /\ answered \subseteq answered'
      /\ e.kind \in TAGGED_KINDS => e \in answered'
  BY IngestFacts
<1>3. /\ CursorInv'
      /\ \A q \in Relays : \A g \in Wanted(q) :
            g.at + Overlap < sync_state'[q][g.kind] => Excused(q, g) \/ g \in stored[q]
  BY IngestBehind
<1>4. /\ \A q \in Relays, k \in Kinds : since'[q][k] = None
      /\ \A q \in Relays : live'[q] = << >>
  BY CloseFacts DEF Unasked, Silence
<1>5. BoundInv' /\ OrderInv'
  BY <1>4 DEF BoundInv, OrderInv
<1>6. AskedInv'
  <2>1. serving' = {}
    BY CloseFacts
  <2> QED BY <2>1 DEF AskedInv
<1>7. BehindInv'
  <2> SUFFICES ASSUME NEW q \in Relays, NEW g \in Wanted(q),
                      g.at + Overlap < sync_state'[q][g.kind]
               PROVE  g \in answered' \/ <<q, g>> \in Lost'
    BY <1>1 DEF BehindInv, Excused
  <2>1. Excused(q, g) \/ g \in stored[q]
    BY <1>3
  <2>2. g \in stored[q] => g \in answered \/ <<q, g>> \in Unreplayed
    BY UnreplayedType, Stamps
  <2>3. <<q, g>> = <<r, e>> => g \in answered'
    BY <1>2 DEF Wanted
  <2> QED BY <1>2, <2>1, <2>2, <2>3 DEF Excused
<1> QED BY <1>3, <1>5, <1>6, <1>7 DEF CatchInv

\* A publication: by the publishers' clocks it is behind no cursor by more
\* than the overlap, and a subscription it matches carries it last.
LEMMA PublishCatch ==
    ASSUME TypeOK, SubscriptionInv, CatchInv, NEW e \in Events, NEW r \in Relays, Publish(e, r)
    PROVE  CatchInv'
<1>1. /\ \A f \in held[r] : f.at <= e.at + Overlap
      /\ held' = [held EXCEPT ![r] = @ \cup {e}]
      /\ live' = IF r \in serving /\ Matches(e, since[r], vouched)
                 THEN [live EXCEPT ![r] = Append(@, e)] ELSE live
      /\ UNCHANGED <<sync_state, since, vouched, serving, stored, answered>>
      /\ Lost' = Lost
  BY DEF Publish, database, history, losses, Lost
<1>2. held \in [Relays -> SUBSET Events] /\ live \in [Relays -> Seq(Events)]
  BY DEF TypeOK
<1>3. \A q \in Relays : held'[q] = IF q = r THEN held[q] \cup {e} ELSE held[q]
  BY <1>1, <1>2
<1>4. ASSUME NEW q \in Relays, NEW g \in Wanted(q)' PROVE g \in Wanted(q) \/ (q = r /\ g = e)
  <2>1. g \in held'[q] /\ g.kind \in TAGGED_KINDS /\ Entitled(g.kind, g.pubkey, {})
    BY DEF Wanted, Entitled
  <2>2. g \in held[q] \/ (q = r /\ g = e)
    BY <1>3, <2>1
  <2> QED BY <2>1, <2>2 DEF Wanted
<1>5. \A q \in Relays : Elements(live[q]) \subseteq Elements(live'[q])
  <2>1. Elements(Append(live[r], e)) = Elements(live[r]) \cup {e}
    BY <1>2, AppendFacts
  <2> QED BY <1>1, <1>2, <2>1
<1>6. CursorInv'
  BY <1>1, <1>3 DEF CatchInv, CursorInv
<1>7. BoundInv'
  BY <1>1 DEF CatchInv, BoundInv
<1>8. BehindInv'
  <2> SUFFICES ASSUME NEW q \in Relays, NEW g \in Wanted(q)',
                      g.at + Overlap < sync_state[q][g.kind]
               PROVE  Excused(q, g) \/ g \in stored[q]
    BY <1>1 DEF BehindInv, Excused
  <2>1. CASE g \in Wanted(q)
    BY <2>1 DEF CatchInv, BehindInv
  <2>2. CASE q = r /\ g = e
    <3>1. /\ e.at \in Nat /\ Overlap \in Nat /\ e.kind \in Kinds /\ sync_state[r][e.kind] \in Int
          /\ held[r] \subseteq Events
      BY Stamps
    <3>2. e.at + Overlap < sync_state[r][e.kind]
      BY <2>2
    <3>3. sync_state[r][e.kind] # -1
      BY <3>1, <3>2
    <3>4. PICK f \in held[r] : f.at = sync_state[r][e.kind]
      BY <3>1, <3>3 DEF CatchInv, CursorInv
    <3> QED BY <1>1, <3>1, <3>2, <3>4
  <2> QED BY <1>4, <2>1, <2>2
<1>9. AskedInv'
  <2> SUFFICES ASSUME NEW q \in serving, NEW g \in Wanted(q)', since[q][g.kind] # None,
                      since[q][g.kind] <= g.at
               PROVE  Excused(q, g) \/ g \in stored[q] \/ g \in Elements(live'[q])
    BY <1>1 DEF AskedInv, Excused, Elements
  <2>0. q \in Relays
    BY DEF TypeOK
  <2>1. CASE g \in Wanted(q)
    BY <1>5, <2>0, <2>1 DEF CatchInv, AskedInv
  <2>2. CASE q = r /\ g = e
    <3>1. Matches(e, since[r], vouched)
      BY <2>2 DEF Wanted, Matches, Entitled
    <3>2. live'[r] = Append(live[r], e)
      BY <1>1, <1>2, <2>2, <3>1
    <3>3. e \in Elements(Append(live[r], e))
      BY <1>2, AppendFacts
    <3> QED BY <2>2, <3>2, <3>3
  <2> QED BY <1>4, <2>0, <2>1, <2>2
<1>10. OrderInv'
  <2> SUFFICES ASSUME NEW q \in Relays, NEW i \in DOMAIN live'[q]
               PROVE  /\ \A g \in stored[q] : g.at <= live'[q][i].at + Overlap
                      /\ \A j \in DOMAIN live'[q] :
                            j < i => live'[q][j].at <= live'[q][i].at + Overlap
    BY <1>1 DEF OrderInv
  <2>1. CASE live'[q] = live[q]
    BY <2>1 DEF CatchInv, OrderInv
  <2>2. CASE live'[q] # live[q]
    <3>1. q = r /\ live'[q] = Append(live[r], e)
      BY <1>1, <1>2, <2>2
    <3>2. live[r] \in Seq(Events)
      BY <1>2
    <3>3. \A j \in DOMAIN live'[q] :
             \/ j \in DOMAIN live[r] /\ live'[q][j] = live[r][j]
             \/ live'[q][j] = e /\ j = Len(live[r]) + 1
      BY <3>1, <3>2, AppendFacts
    <3>4. \A g \in stored[r] \cup Elements(live[r]) : g.at <= e.at + Overlap
      BY <1>1 DEF SubscriptionInv, CarriedInv
    <3>5. CASE i \in DOMAIN live[r] /\ live'[q][i] = live[r][i]
      <4>1. \A j \in DOMAIN live'[q] : j < i => j \in DOMAIN live[r] /\ live'[q][j] = live[r][j]
        BY <3>2, <3>3, <3>5
      <4> QED BY <3>1, <3>5, <4>1 DEF CatchInv, OrderInv
    <3>6. CASE live'[q][i] = e /\ i = Len(live[r]) + 1
      <4>1. \A j \in DOMAIN live'[q] : j < i => j \in DOMAIN live[r] /\ live'[q][j] = live[r][j]
        BY <3>2, <3>3, <3>6
      <4>2. \A j \in DOMAIN live'[q] : j < i => live'[q][j] \in Elements(live[r])
        BY <4>1 DEF Elements
      <4> QED BY <3>1, <3>4, <3>6, <4>2
    <3> QED BY <3>3, <3>5, <3>6
  <2> QED BY <2>1, <2>2
<1> QED BY <1>6, <1>7, <1>8, <1>9, <1>10 DEF CatchInv

\* A relay leaves out of a replay what is put on record.
LEMMA CapCatch ==
    ASSUME TypeOK, CatchInv, NEW e \in Events, NEW r \in Relays, CapReplay(r, e)
    PROVE  CatchInv'
<1>1. /\ UNCHANGED <<held, sync_state, since, serving, live, answered>>
      /\ stored' = [stored EXCEPT ![r] = @ \ {e}]
      /\ Lost' = Lost \cup (Unsent(r) \cap {<<r, e>>})
  BY DEF CapReplay, database, Lost
<1>2. \A q \in Relays : Wanted(q)' = Wanted(q)
  BY <1>1 DEF Wanted, Entitled
<1>3. \A q \in Relays : /\ stored'[q] \subseteq stored[q]
                        /\ \A g \in stored[q] : g \in stored'[q] \/ (q = r /\ g = e)
  BY <1>1 DEF TypeOK
<1>4. \A q \in Relays, g \in Events :
         Excused(q, g) \/ g \in stored[q] => Excused(q, g)' \/ g \in stored'[q]
  <2> SUFFICES ASSUME NEW q \in Relays, NEW g \in Events, Excused(q, g) \/ g \in stored[q]
               PROVE  g \in answered \/ <<q, g>> \in Lost' \/ g \in stored'[q]
    BY <1>1 DEF Excused
  <2>1. CASE Excused(q, g)
    BY <1>1, <2>1 DEF Excused
  <2>2. CASE g \in stored[q] /\ q = r /\ g = e
    BY <1>1, <2>2, UnreplayedType
  <2> QED BY <1>3, <2>1, <2>2
<1>5. CursorInv' /\ BoundInv'
  BY <1>1 DEF CatchInv, CursorInv, BoundInv
<1>6. OrderInv'
  BY <1>1, <1>3 DEF CatchInv, OrderInv
<1>7. BehindInv'
  <2>1. \A q \in Relays : Wanted(q) \subseteq Events
    BY Stamps
  <2> QED BY <1>1, <1>2, <1>4, <2>1 DEF CatchInv, BehindInv
<1>8. AskedInv'
  <2>1. serving \subseteq Relays /\ \A q \in Relays : Wanted(q) \subseteq Events
    BY Stamps DEF TypeOK
  <2>2. ASSUME NEW q \in serving, NEW g \in Wanted(q), since[q][g.kind] # None,
               since[q][g.kind] <= g.at
        PROVE  Excused(q, g)' \/ g \in stored'[q] \/ g \in Elements(live[q])
    <3>1. Excused(q, g) \/ g \in stored[q] \/ g \in Elements(live[q])
      BY <2>2 DEF CatchInv, AskedInv
    <3> QED BY <1>4, <2>1, <3>1
  <2> QED BY <1>1, <1>2, <2>1, <2>2 DEF AskedInv, Elements
<1> QED BY <1>5, <1>6, <1>7, <1>8 DEF CatchInv

\* A relay closes its subscription, and no longer serves it.
LEMMA ClosedCatch ==
    ASSUME TypeOK, CatchInv, NEW r \in Relays, Closed(r)
    PROVE  CatchInv'
<1>1. /\ UNCHANGED <<held, sync_state, since, answered>>
      /\ serving' = serving \ {r}
      /\ stored' = [stored EXCEPT ![r] = {}]
      /\ live' = [live EXCEPT ![r] = << >>]
      /\ Lost' = Lost \cup Unsent(r)
  BY DEF Closed, database, Lost
<1>2. \A q \in Relays : Wanted(q)' = Wanted(q)
  BY <1>1 DEF Wanted, Entitled
<1>3. /\ \A q \in Relays : q # r => stored'[q] = stored[q] /\ live'[q] = live[q]
      /\ stored'[r] = {} /\ live'[r] = << >>
  BY <1>1 DEF TypeOK
<1>4. CursorInv' /\ BoundInv'
  BY <1>1 DEF CatchInv, CursorInv, BoundInv
<1>5. OrderInv'
  BY <1>3 DEF CatchInv, OrderInv
<1>6. BehindInv'
  <2> SUFFICES ASSUME NEW q \in Relays, NEW g \in Wanted(q), g.at + Overlap < sync_state[q][g.kind]
               PROVE  g \in answered \/ <<q, g>> \in Lost' \/ g \in stored'[q]
    BY <1>1, <1>2 DEF BehindInv, Excused
  <2>1. Excused(q, g) \/ g \in stored[q]
    BY DEF CatchInv, BehindInv
  <2>2. g \in Events
    BY Stamps
  <2>3. CASE q = r
    BY <1>1, <2>1, <2>2, <2>3, UnreplayedType DEF Excused
  <2> QED BY <1>1, <1>3, <2>1, <2>3 DEF Excused
<1>7. AskedInv'
  <2> SUFFICES ASSUME NEW q \in serving', NEW g \in Wanted(q), since[q][g.kind] # None,
                      since[q][g.kind] <= g.at
               PROVE  \/ g \in answered \/ <<q, g>> \in Lost'
                      \/ g \in stored'[q] \/ g \in Elements(live'[q])
    BY <1>1, <1>2, ZenonT(60) DEF AskedInv, Excused, Elements, TypeOK
  <2>1. q \in Relays /\ q \in serving /\ q # r
    BY <1>1 DEF TypeOK
  <2>2. Excused(q, g) \/ g \in stored[q] \/ g \in Elements(live[q])
    BY <2>1 DEF CatchInv, AskedInv
  <2> QED BY <1>1, <1>3, <2>1, <2>2 DEF Excused
<1> QED BY <1>4, <1>5, <1>6, <1>7 DEF CatchInv

\* A backfill beside it moves a cursor, and what it moves it past is taken,
\* still to be replayed, or put on record.
LEMMA BackfillCatch ==
    ASSUME TypeOK, CatchInv, NEW e \in Events, NEW r \in Relays, Backfill(e, r)
    PROVE  CatchInv'
<1>1. /\ e \in held[r] /\ Ingest(e, r)
      /\ UNCHANGED <<held, since, serving, stored, live>>
      /\ Lost' = Lost \cup
            {<<r, f>> : f \in {g \in held[r] \ (stored[r] \cup answered') :
                                 g.kind = e.kind /\ g.at + Overlap < e.at}}
  BY DEF Backfill, subscription, Lost
<1>2. \A q \in Relays : Wanted(q)' = Wanted(q)
  BY <1>1 DEF Wanted, Entitled
<1>3. /\ answered \subseteq answered'
      /\ sync_state' \in [Relays -> [Kinds -> -1 .. Horizon]]
      /\ \A q \in Relays, k \in Kinds :
            \/ sync_state'[q][k] = sync_state[q][k]
            \/ q = r /\ k = e.kind /\ sync_state'[q][k] = e.at /\ sync_state[q][k] < e.at
  BY <1>1, IngestFacts
<1>4. CursorInv'
  BY <1>1, <1>3 DEF CatchInv, CursorInv
<1>5. \A q \in Relays, k \in Kinds : sync_state[q][k] <= sync_state'[q][k]
  <2> SUFFICES ASSUME NEW q \in Relays, NEW k \in Kinds
               PROVE  sync_state[q][k] <= sync_state'[q][k]
    OBVIOUS
  <2>1. sync_state[q][k] \in Int /\ e.at \in Int
    BY Stamps
  <2> QED BY <1>3, <2>1
<1>6. BoundInv'
  BY <1>1, <1>3, <1>5, BoundStays
<1>7. OrderInv'
  BY <1>1 DEF CatchInv, OrderInv
<1>8. BehindInv'
  <2> SUFFICES ASSUME NEW q \in Relays, NEW g \in Wanted(q),
                      g.at + Overlap < sync_state'[q][g.kind]
               PROVE  g \in answered' \/ <<q, g>> \in Lost' \/ g \in stored[q]
    BY <1>1, <1>2 DEF BehindInv, Excused
  <2>0. g \in Events /\ g.kind \in Kinds /\ g \in held[q]
    BY Stamps DEF Wanted
  <2>1. CASE g.at + Overlap < sync_state[q][g.kind]
    BY <1>1, <1>3, <2>1 DEF CatchInv, BehindInv, Excused
  <2>2. CASE ~(g.at + Overlap < sync_state[q][g.kind])
    <3>1. q = r /\ g.kind = e.kind /\ sync_state'[q][g.kind] = e.at
      BY <1>3, <2>0, <2>2
    <3>2. g.at + Overlap < e.at
      BY <3>1
    <3> QED BY <1>1, <2>0, <3>1, <3>2
  <2> QED BY <2>1, <2>2
<1>9. AskedInv'
  <2>1. serving \subseteq Relays
    BY DEF TypeOK
  <2> SUFFICES ASSUME NEW q \in serving, NEW g \in Wanted(q), since[q][g.kind] # None,
                      since[q][g.kind] <= g.at
               PROVE  \/ g \in answered' \/ <<q, g>> \in Lost'
                      \/ g \in stored[q] \/ g \in Elements(live[q])
    BY <1>1, <1>2, <2>1 DEF AskedInv, Excused, Elements
  <2>2. Excused(q, g) \/ g \in stored[q] \/ g \in Elements(live[q])
    BY DEF CatchInv, AskedInv
  <2>3. Lost \subseteq Lost'
    BY <1>1
  <2> QED BY <1>3, <2>2, <2>3 DEF Excused
<1> QED BY <1>4, <1>6, <1>7, <1>8, <1>9 DEF CatchInv

\* Every step of sync, of its relays and beside it keeps account of the events.
LEMMA CatchInvNext ==
    TypeOK /\ SubscriptionInv /\ CatchInv /\ [Next]_vars => CatchInv'
<1> SUFFICES ASSUME TypeOK, SubscriptionInv, CatchInv, [Next]_vars PROVE CatchInv'
  OBVIOUS
<1> USE DEF database, client, subscription, history, losses
<1>1. CASE Start \/ Dial \/ PrimeFails \/ SubscribeFails \/ Retry \/ UNCHANGED vars
  <2>1. UNCHANGED <<held, sync_state, answered, losses, since, serving, stored, live>>
    BY <1>1 DEF Start, Dial, PrimeFails, SubscribeFails, Retry, vars
  <2> QED BY <2>1, QuietCatch
<1>2. ASSUME NEW r \in Relays, EndOfStored(r) \/ RelayDown(r) \/ RelayUp(r) PROVE CatchInv'
  <2>1. UNCHANGED <<held, sync_state, answered, losses, since, serving, stored, live>>
    BY <1>2 DEF EndOfStored, RelayDown, RelayUp
  <2> QED BY <2>1, QuietCatch
<1>3. CASE Prime \/ Subscribe
  <2>1. /\ OpenSubscription(TAGGED_KINDS) \/ OpenSubscription(Kinds)
        /\ stored = Nothing
        /\ UNCHANGED <<held, sync_state, answered, losses>>
    BY <1>3 DEF Prime, Subscribe, SubscriptionInv, IdleInv
  <2>2. TAGGED_KINDS \in SUBSET Kinds /\ Kinds \in SUBSET Kinds
    BY DEF TAGGED_KINDS
  <2> QED BY <2>1, <2>2, OpenCatch
<1>4. ASSUME NEW e \in Events, NEW r \in Relays, PrimeEvent(e, r) PROVE CatchInv'
  <2>1. /\ Delivers(r, e) /\ Deliver(r, e) /\ Ingest(e, r)
        /\ UNCHANGED <<held, since, serving, losses>>
    BY <1>4 DEF PrimeEvent
  <2> QED BY <2>1, DeliverCatch
<1>5. CASE PrimeDone
  <2>1. \A r \in Relays : stored[r] = {}
    BY <1>5 DEF PrimeDone, SubscriptionInv, PrimingInv
  <2>2. Unreplayed = {}
    BY <2>1 DEF Unreplayed, Unsent
  <2>3. CloseSubscription /\ UNCHANGED <<held, sync_state, answered>> /\ Lost' = Lost
    BY <1>5 DEF PrimeDone, Lost
  <2> QED BY <2>2, <2>3, CloseCatch
<1>6. CASE PrimeTimeout \/ StreamEnds \/ Stop
  <2>1. /\ CloseSubscription /\ UNCHANGED <<held, sync_state, answered>>
        /\ Lost' = Lost \cup Unreplayed
    BY <1>6 DEF PrimeTimeout, StreamEnds, Stop, Lost
  <2> QED BY <2>1, CloseCatch
<1>7. ASSUME NEW e \in Events, NEW r \in Relays, FollowEvent(e, r) PROVE CatchInv'
  <2>1. Delivers(r, e) /\ Ingest(e, r) /\ UNCHANGED <<held, hurried, withheld, overtaken>>
    BY <1>7 DEF FollowEvent
  <2>2. CASE CloseSubscription /\ stopped' = stopped \cup (Unreplayed \ {<<r, e>>})
    <3>1. Lost \cup (Unreplayed \ {<<r, e>>}) \subseteq Lost'
      BY <2>1, <2>2 DEF Lost
    <3> QED BY <2>1, <2>2, <3>1, WidenCatch
  <2>3. CASE Deliver(r, e) /\ UNCHANGED <<since, serving, stopped>>
    BY <2>1, <2>3, DeliverCatch
  <2> QED BY <1>7, <2>2, <2>3 DEF FollowEvent
<1>8. ASSUME NEW e \in Events, NEW r \in Relays,
             Publish(e, r) \/ CapReplay(r, e) \/ Closed(r) \/ Backfill(e, r)
      PROVE  CatchInv'
  BY <1>8, PublishCatch, CapCatch, ClosedCatch, BackfillCatch
<1>9. ASSUME NEW r \in Relays, Closed(r) PROVE CatchInv'
  BY <1>9, ClosedCatch
<1>10. CASE (\E k \in VersionedKinds : ClearVersions(k)) \/ \E e \in Events : ReplayVersion(e)
  <2>1. UNCHANGED <<held, sync_state, answered, losses, since, serving, stored, live>>
    BY <1>10 DEF ClearVersions, ReplayVersion
  <2> QED BY <2>1, QuietCatch
<1> QED
  BY <1>1, <1>2, <1>3, <1>4, <1>5, <1>6, <1>7, <1>8, <1>9, <1>10 DEF Next, Loop

\* Nothing is owed before the first subscription.
LEMMA CatchInvInit ==
    Init => CatchInv
<1> SUFFICES ASSUME Init PROVE CatchInv
  OBVIOUS
<1>1. \A r \in Relays : /\ Wanted(r) = {} /\ live[r] = << >>
                        /\ \A k \in Kinds : sync_state[r][k] = -1 /\ since[r][k] = None
  BY DEF Init, Wanted, Nothing, Silence, Unasked
<1>2. serving = {}
  BY DEF Init
<1> QED BY <1>1, <1>2 DEF CatchInv, CursorInv, BoundInv, OrderInv, BehindInv, AskedInv

\* An event on no subscription is either behind the overlap, and then it is
\* accounted for, or was asked for, and then it was taken.
LEMMA CatchImplies ==
    TypeOK /\ SubscriptionInv /\ CatchInv => CaughtUp
<1> SUFFICES ASSUME TypeOK, SubscriptionInv, CatchInv, phase = "following",
                    NEW r \in serving, NEW e \in Unheard(r)
             PROVE  <<r, e>> \in Lost
  BY DEF CaughtUp, Missed
<1>1. r \in Relays /\ e \in Wanted(r) /\ e \notin stored[r] /\ e \notin answered
  BY DEF Unheard, Wanted, TypeOK
<1>2. e \notin Elements(live[r])
  BY DEF Unheard, Elements
<1>3. e.kind \in TAGGED_KINDS /\ e.kind \in Kinds
  BY <1>1 DEF Wanted, TAGGED_KINDS
<1>4. since[r][e.kind] # None
  BY <1>3 DEF SubscriptionInv, FollowingInv
<1>5. CASE since[r][e.kind] <= e.at
  <2>1. Excused(r, e) \/ e \in stored[r] \/ e \in Elements(live[r])
    BY <1>1, <1>4, <1>5 DEF CatchInv, AskedInv
  <2> QED BY <1>1, <1>2, <2>1 DEF Excused
<1>6. CASE ~(since[r][e.kind] <= e.at)
  <2>1. /\ e.at \in Nat /\ Overlap \in Nat /\ sync_state[r][e.kind] \in Int
        /\ since[r][e.kind] \in Nat \cup {None}
    BY <1>1, <1>3, Stamps
  <2>2. since[r][e.kind] # 0
    BY <1>6, <2>1
  <2>3. since[r][e.kind] + Overlap <= sync_state[r][e.kind]
    BY <1>1, <1>3, <1>4, <2>2 DEF CatchInv, BoundInv
  <2>4. e.at + Overlap < sync_state[r][e.kind]
    BY <1>4, <1>6, <2>1, <2>3
  <2>5. Excused(r, e) \/ e \in stored[r]
    BY <1>1, <2>4 DEF CatchInv, BehindInv
  <2> QED BY <1>1, <2>5 DEF Excused
<1> QED BY <1>5, <1>6

\* Whatever the restarts, the reconnections, the relays that join late or
\* refuse a subscription, and the events published between two of them: a
\* sync that follows misses no tagged event that the relays serving it hold,
\* except what a replay that was stopped, timed out or cut short by the relay
\* had not sent, and what a backfill beside it moved a cursor past (sync.rs:12).
THEOREM CaughtUpCorrect == Spec => []CaughtUp
<1>1. Init => TypeOK /\ SubscriptionInv /\ CatchInv
  BY TypedInit, SubscriptionInvInit, CatchInvInit
<1>2. TypeOK /\ SubscriptionInv /\ CatchInv /\ [Next]_vars
        => TypeOK' /\ SubscriptionInv' /\ CatchInv'
  BY TypedNext, SubscriptionInvNext, CatchInvNext
<1>3. TypeOK /\ SubscriptionInv /\ CatchInv => CaughtUp
  BY CatchImplies
<1> QED BY <1>1, <1>2, <1>3, PTL DEF Spec
=============================================================================
