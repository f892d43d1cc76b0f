---------------------------- MODULE FiguresProofs ---------------------------
(***************************************************************************)
(* Proofs about the figures, for every archive and every calendar: how an  *)
(* order ended stays what it was, what a settled order was worth is not    *)
(* repriced by what is published after it, and a currency is new once.     *)
(***************************************************************************)
EXTENDS Figures, NumberFacts, SequenceTheorems

-----------------------------------------------------------------------------
(* The archive grows.                                                      *)

\* The archive holds rows that may be stored.
Stored == rows \subseteq Versions

\* An empty archive does.
LEMMA StoredInit == Init => Stored
BY DEF Init, Stored

\* Nothing takes a row away.
LEMMA RowsGrow ==
    ASSUME Stored, [Next]_vars
    PROVE  Stored' /\ rows \subseteq rows'
<1>1. ASSUME NEW v \in Versions, Ingest(v) PROVE Stored' /\ rows \subseteq rows'
  <2>1. rows' = rows \cup {IF Redundant(v) THEN Sighting(v) ELSE v}
    BY <1>1 DEF Ingest
  <2>2. Redundant(v) => v.kind \in {"info", "rates"}
    BY DEF Redundant
  <2>3. Redundant(v) => Sighting(v) \in Versions
    BY <2>2, FiguresAssumption
  <2> QED BY <2>1, <2>3 DEF Stored
<1>2. CASE Tick
  BY <1>2 DEF Tick, Stored
<1>3. ASSUME NEW q \in Questions, Ask(q) PROVE Stored' /\ rows \subseteq rows'
  BY <1>3 DEF Ask, Stored
<1>4. CASE Report
  BY <1>4 DEF Report, Stored
<1>5. CASE Client
  BY <1>5 DEF Client, Type, Stored
<1>6. CASE UNCHANGED vars
  BY <1>6 DEF vars, Stored
<1> QED BY <1>1, <1>2, <1>3, <1>4, <1>5, <1>6 DEF Next, Indexer

\* Every row is dated by a number, before the end of time.
LEMMA RowsDated ==
    /\ \A v \in Versions : v.at \in Nat /\ v.id \in Nat /\ v.pubkey \in Nat /\ v.at < Eternity
    /\ Eternity \in Nat /\ None \notin Int
<1>1. \A v \in Versions : v.at \in 0 .. Eternity - 1
  BY FiguresAssumption DEF Instants
<1>2. Eternity \in Nat
  BY CalendarAssumption DEF Eternity
<1> QED BY <1>1, <1>2, FiguresAssumption, CalendarAssumption

-----------------------------------------------------------------------------
(* How an order ended.                                                     *)

\* The latest version of an order is at the latest moment of any.
LEMMA LastIsLatest ==
    ASSUME NEW V \in SUBSET Versions, V # {}
    PROVE  Last(V) \in V /\ \A w \in V : w.at <= Last(V).at
<1> USE RowsDated
<1>1. \A v \in V : v.at \in Nat /\ v.id \in Nat
  OBVIOUS
<1> DEFINE ages == {Eternity - v.at : v \in V}
<1>2. PICK a \in ages : \A b \in ages : a <= b
  <2>1. ages \in SUBSET Nat /\ ages # {}
    BY <1>1
  <2> QED BY <2>1, NatLeast
<1>3. PICK last \in V : a = Eternity - last.at
  OBVIOUS
<1>4. \A w \in V : w.at <= last.at
  <2> SUFFICES ASSUME NEW w \in V PROVE w.at <= last.at
    OBVIOUS
  <2>1. Eternity - w.at \in ages
    OBVIOUS
  <2>2. Eternity - last.at <= Eternity - w.at
    BY <1>2, <1>3, <2>1
  <2> QED BY <1>1, <2>2
<1> DEFINE ids == {v.id : v \in {w \in V : w.at = last.at}}
<1>5. PICK i \in ids : \A j \in ids : i <= j
  <2>1. ids \in SUBSET Nat /\ ids # {}
    BY <1>1
  <2> QED BY <2>1, NatLeast
<1>6. PICK v \in V : v.at = last.at /\ v.id = i
  OBVIOUS
<1>7. \A w \in V : w.at < v.at \/ (w.at = v.at /\ v.id <= w.id)
  BY <1>1, <1>4, <1>5, <1>6
<1>8. Last(V) \in V /\ \A w \in V : w.at < Last(V).at \/ (w.at = Last(V).at /\ Last(V).id <= w.id)
  BY <1>6, <1>7 DEF Last
<1> QED BY <1>1, <1>8

\* The first time an order was seen in a status does not move when all that
\* comes in is later than what was there.
LEMMA EarliestStays ==
    ASSUME NEW V \in SUBSET Versions, NEW W \in SUBSET Versions, V \subseteq W,
           \A w \in W \ V : \A v \in V : v.at < w.at,
           NEW s
    PROVE  LET at(X) == Earliest({v \in X : v.status = s})
           IN  /\ at(V) # None => /\ at(W) = at(V) /\ at(V) \in Nat
                                  /\ \E v \in V : v.at = at(V)
               /\ at(V) = None => \/ at(W) = None
                                  \/ at(W) \in Nat /\ \A v \in V : v.at < at(W)
<1> USE RowsDated
<1> DEFINE of(X) == {v \in X : v.status = s}
           times(X) == {v.at : v \in of(X)}
<1>1. times(V) \in SUBSET Nat /\ times(W) \in SUBSET Nat
  OBVIOUS
<1>2. None \notin Nat
  OBVIOUS
<1>3. CASE of(V) # {}
  <2>1. times(V) # {} /\ times(W) # {}
    BY <1>3
  <2>2. Min(times(V)) \in times(V) /\ \A y \in times(V) : Min(times(V)) <= y
    BY <1>1, <2>1, MinType
  <2>3. PICK v \in of(V) : v.at = Min(times(V))
    BY <2>2
  <2>4. \A w \in of(W) : v.at <= w.at
    <3> SUFFICES ASSUME NEW w \in of(W) PROVE v.at <= w.at
      OBVIOUS
    <3>1. CASE w \in V
      <4>1. w.at \in times(V)
        BY <3>1
      <4> QED BY <2>2, <2>3, <4>1
    <3>2. CASE w \notin V
      <4>1. v.at < w.at
        BY <2>3, <3>2
      <4>2. v.at \in Nat /\ w.at \in Nat
        BY <2>3
      <4> QED BY <4>1, <4>2
    <3> QED BY <3>1, <3>2
  <2>5. v.at \in times(W) /\ \A y \in times(W) : v.at <= y
    BY <2>3, <2>4
  <2>6. Min(times(W)) = v.at
    BY <1>1, <2>5, MinIs
  <2> QED BY <1>1, <1>2, <1>3, <2>3, <2>6 DEF Earliest
<1>4. CASE of(V) = {}
  <2>1. CASE of(W) = {}
    BY <1>4, <2>1 DEF Earliest
  <2>2. CASE of(W) # {}
    <3>1. Min(times(W)) \in times(W)
      <4>1. times(W) # {}
        BY <2>2
      <4> QED BY <1>1, <4>1, MinType
    <3>2. PICK w \in of(W) : w.at = Min(times(W))
      BY <3>1
    <3>3. w \in W \ V
      BY <1>4, <3>2
    <3> QED BY <1>1, <1>4, <2>2, <3>1, <3>2, <3>3 DEF Earliest
  <2> QED BY <2>1, <2>2
<1> QED BY <1>3, <1>4

\* The versions of an order, and when it was first seen in a status.
Life(archive, k) == {v \in OfKind(archive, "order") : v.key = k}
Reached(archive, k, s) == Earliest({v \in Life(archive, k) : v.status = s})

\* What Terminal reads of an order.
LEMMA TerminalOf ==
    ASSUME NEW archive, NEW k
    PROVE  /\ LoadOrder(archive, k).success_at = Reached(archive, k, "success")
           /\ LoadOrder(archive, k).canceled_at = Reached(archive, k, "canceled")
BY DEF LoadOrder, OrderOf, IntoOrder, Life, Reached

\* An order that ended, of which only later versions come in.
LEMMA EndStays ==
    ASSUME NEW A, NEW B, A \subseteq B, B \subseteq Versions, NEW k \in KeysOf(A, "order"),
           Terminal(LoadOrder(A, k)).end # None,
           \A v \in Life(B, k) \ Life(A, k) : v.at > Last(Life(A, k)).at
    PROVE  Terminal(LoadOrder(B, k)) = Terminal(LoadOrder(A, k))
<1> USE RowsDated
<1> DEFINE at(X, s) == Reached(X, k, s)
<1>1. Life(A, k) \in SUBSET Versions /\ Life(B, k) \in SUBSET Versions /\ Life(A, k) \subseteq Life(B, k) /\ Life(A, k) # {}
  BY DEF OfKind, KeysOf, Life
<1>2. Last(Life(A, k)) \in Life(A, k) /\ \A v \in Life(A, k) : v.at <= Last(Life(A, k)).at
  BY <1>1, LastIsLatest
<1>3. \A w \in Life(B, k) \ Life(A, k) : \A v \in Life(A, k) : v.at < w.at
  <2> SUFFICES ASSUME NEW w \in Life(B, k) \ Life(A, k), NEW v \in Life(A, k) PROVE v.at < w.at
    OBVIOUS
  <2>1. v.at \in Nat /\ w.at \in Nat /\ Last(Life(A, k)).at \in Nat
    BY <1>1, <1>2
  <2> QED BY <1>2, <2>1
<1>4. \A s : /\ at(A, s) # None => /\ at(B, s) = at(A, s) /\ at(A, s) \in Nat
                                   /\ \E v \in Life(A, k) : v.at = at(A, s)
             /\ at(A, s) = None => \/ at(B, s) = None
                                   \/ at(B, s) \in Nat /\ \A v \in Life(A, k) : v.at < at(B, s)
  BY <1>1, <1>3, EarliestStays DEF Reached
<1>5. /\ LoadOrder(A, k).success_at = at(A, "success")
      /\ LoadOrder(A, k).canceled_at = at(A, "canceled")
      /\ LoadOrder(B, k).success_at = at(B, "success")
      /\ LoadOrder(B, k).canceled_at = at(B, "canceled")
  BY TerminalOf
<1>6. None \notin Nat /\ \A v \in Life(A, k) : v.at \in Nat
  BY <1>1
<1> HIDE DEF at
<1>7. \/ at(A, "canceled") # None /\ (at(A, "success") # None => at(A, "canceled") < at(A, "success"))
      \/ at(A, "success") # None
  BY <1>5 DEF Terminal
<1>8. CASE at(A, "canceled") # None /\ (at(A, "success") # None => at(A, "canceled") < at(A, "success"))
  <2>1. at(B, "canceled") = at(A, "canceled")
    BY <1>4, <1>8
  <2>2. at(B, "success") # None => at(B, "canceled") < at(B, "success")
    BY <1>4, <1>6, <1>8
  <2> QED BY <1>5, <1>8, <2>1, <2>2 DEF Terminal
<1>9. CASE /\ at(A, "success") # None
           /\ ~(at(A, "canceled") # None /\ at(A, "canceled") < at(A, "success"))
  <2>1. at(B, "success") = at(A, "success")
    BY <1>4, <1>9
  <2>2. ~(at(B, "canceled") # None /\ at(B, "canceled") < at(B, "success"))
    BY <1>4, <1>6, <1>9
  <2> QED BY <1>5, <1>9, <2>1, <2>2 DEF Terminal
<1> QED BY <1>7, <1>8, <1>9

\* Once an order has ended, for timing and its funnel, nothing published
\* later about it ends it otherwise (timing.rs:69): not a success after a
\* cancellation, and not the other way round, for any order and any versions.
THEOREM EndIsFinalCorrect == Spec => EndIsFinal
<1>1. Stored /\ [Next]_vars => Stored'
  BY RowsGrow
<1>2. Stored /\ [Next]_vars =>
        [\A k \in KeysOf(rows, "order") :
            LET of(archive) == {v \in OfKind(archive, "order") : v.key = k}
                end(archive) == Terminal(LoadOrder(archive, k))
            IN  (/\ end(rows).end # None
                 /\ \A v \in of(rows') \ of(rows) : v.at > Last(of(rows)).at)
                => end(rows') = end(rows)]_vars
  <2> SUFFICES ASSUME Stored, [Next]_vars, NEW k \in KeysOf(rows, "order"),
                      Terminal(LoadOrder(rows, k)).end # None,
                      LET of(archive) == {v \in OfKind(archive, "order") : v.key = k}
                      IN  \A v \in of(rows') \ of(rows) : v.at > Last(of(rows)).at
               PROVE  Terminal(LoadOrder(rows', k)) = Terminal(LoadOrder(rows, k))
    OBVIOUS
  <2>1. rows \subseteq rows' /\ rows' \subseteq Versions
    BY RowsGrow DEF Stored
  <2> QED BY <2>1, EndStays DEF Life
<1> QED BY <1>1, <1>2, StoredInit, PTL DEF Spec, EndIsFinal

-----------------------------------------------------------------------------
(* What a settled order was worth.                                         *)

\* The snapshots that could price an order settled at t.
Usable(S, code, t) ==
    {s \in S : /\ code \in DOMAIN s.quotes
               /\ s.stamp <= t /\ t - s.stamp <= MAX_AGE}

\* The newest quote depends on no snapshot but those.
LEMMA SameNewest ==
    ASSUME NEW S, NEW T, NEW code, NEW t, Usable(S, code, t) = Usable(T, code, t)
    PROVE  Newest(S, code, t) = Newest(T, code, t)
<1> DEFINE newest(U) ==
        IF U = {} THEN None
        ELSE CHOOSE s \in U : \A r \in U :
                \/ r.stamp < s.stamp
                \/ r.stamp = s.stamp /\ r.pubkey < s.pubkey
                \/ r.stamp = s.stamp /\ r.pubkey = s.pubkey /\ r.id <= s.id
<1>1. \A X : Newest(X, code, t) = newest(Usable(X, code, t))
  BY DEF Newest, Usable
<1> HIDE DEF newest
<1> QED BY <1>1

\* When one of them could, the newest quote is one of them: published_at,
\* pubkey and event_id leave no two apart.
LEMMA NewestUsable ==
    ASSUME NEW S \in SUBSET OfKind(Versions, "rates"), NEW code, NEW t \in Nat,
           Usable(S, code, t) # {}
    PROVE  Newest(S, code, t) \in S
<1> DEFINE U == Usable(S, code, t)
<1>1. /\ U \subseteq Versions /\ U \subseteq S
      /\ \A s \in U : s.stamp \in Nat /\ s.pubkey \in Nat /\ s.id \in Nat /\ s.stamp <= t
  BY FiguresAssumption DEF OfKind, Usable
<1>2. IsFiniteSet(Versions)
  BY FiguresAssumption
<1> HIDE DEF U
<1>3. PICK m \in U : \A r \in U : r.stamp <= m.stamp
  <2> DEFINE ages == {t - s.stamp : s \in U}
  <2>1. ages \in SUBSET Nat /\ ages # {}
    BY <1>1 DEF U
  <2>2. PICK a \in ages : \A b \in ages : a <= b
    BY <2>1, NatLeast
  <2>3. PICK m \in U : a = t - m.stamp
    OBVIOUS
  <2>4. ASSUME NEW r \in U PROVE r.stamp <= m.stamp
    <3>1. t - m.stamp <= t - r.stamp
      BY <2>2, <2>3
    <3> QED BY <1>1, <3>1
  <2> QED BY <2>4
<1> DEFINE P == {s \in U : s.stamp = m.stamp}
<1>4. PICK p \in P : \A r \in P : r.pubkey <= p.pubkey
  <2> DEFINE keys == {s.pubkey : s \in P}
             f == [s \in P |-> s.pubkey]
  <2>1. IsFiniteSet(P)
    BY <1>1, <1>2, FS_Subset
  <2>2. IsFiniteSet({f[s] : s \in P})
    BY <2>1, ColumnFinite
  <2>3. keys = {f[s] : s \in P}
    OBVIOUS
  <2>4. keys \in SUBSET Nat /\ keys # {} /\ IsFiniteSet(keys)
    BY <1>1, <2>2, <2>3
  <2>5. Max(keys) \in keys /\ \A y \in keys : Max(keys) >= y
    BY <2>4, MaxType
  <2>6. PICK p \in P : p.pubkey = Max(keys)
    BY <2>5
  <2>7. \A r \in P : r.pubkey <= p.pubkey
    BY <2>4, <2>5, <2>6
  <2> QED BY <2>7
<1> DEFINE Q == {s \in P : s.pubkey = p.pubkey}
<1>5. PICK q \in Q : \A r \in Q : r.id <= q.id
  <2> DEFINE ids == {s.id : s \in Q}
             f == [s \in Q |-> s.id]
  <2>1. IsFiniteSet(Q)
    BY <1>1, <1>2, FS_Subset
  <2>2. IsFiniteSet({f[s] : s \in Q})
    BY <2>1, ColumnFinite
  <2>3. ids = {f[s] : s \in Q}
    OBVIOUS
  <2>4. ids \in SUBSET Nat /\ ids # {} /\ IsFiniteSet(ids)
    BY <1>1, <2>2, <2>3
  <2>5. Max(ids) \in ids /\ \A y \in ids : Max(ids) >= y
    BY <2>4, MaxType
  <2>6. PICK q \in Q : q.id = Max(ids)
    BY <2>5
  <2>7. \A r \in Q : r.id <= q.id
    BY <2>4, <2>5, <2>6
  <2> QED BY <2>7
<1>6. ASSUME NEW r \in U
      PROVE  \/ r.stamp < q.stamp
             \/ r.stamp = q.stamp /\ r.pubkey < q.pubkey
             \/ r.stamp = q.stamp /\ r.pubkey = q.pubkey /\ r.id <= q.id
  <2>1. q.stamp = m.stamp /\ q.pubkey = p.pubkey /\ q \in U
    OBVIOUS
  <2>2. r.stamp <= m.stamp /\ (r \in P => r.pubkey <= p.pubkey) /\ (r \in Q => r.id <= q.id)
    BY <1>3, <1>4, <1>5
  <2> QED BY <1>1, <2>1, <2>2
<1>7. q \in U
  OBVIOUS
<1>8. Newest(S, code, t) \in U
  BY <1>6, <1>7 DEF Newest, U, Usable
<1> QED BY <1>1, <1>8

\* An order is settled at an instant.
LEMMA SettledAt ==
    ASSUME Stored, NEW o \in LoadOrders(rows, Everyone), o.success_at # None
    PROVE  o.success_at \in Nat
<1>1. PICK k \in KeysOf(rows, "order") : o = LoadOrder(rows, k)
  BY DEF LoadOrders
<1> DEFINE V == {v \in Life(rows, k) : v.status = "success"}
           times == {v.at : v \in V}
<1>2. o.success_at = Earliest(V)
  BY <1>1, TerminalOf DEF Reached
<1>3. times \in SUBSET Nat
  BY RowsDated DEF Stored, Life, OfKind
<1>4. V # {}
  BY <1>2 DEF Earliest
<1>5. times # {}
  BY <1>4
<1>6. Min(times) \in times
  BY <1>3, <1>5, MinType
<1> QED BY <1>2, <1>3, <1>4, <1>6 DEF Earliest

\* Its publisher is that of its latest version.
LEMMA PublisherNumber ==
    ASSUME Stored, NEW o \in LoadOrders(rows, Everyone)
    PROVE  o.pubkey \in Nat
<1>1. PICK k \in KeysOf(rows, "order") : o = LoadOrder(rows, k)
  BY DEF LoadOrders
<1>2. o.pubkey = Last(Life(rows, k)).pubkey
  BY <1>1 DEF LoadOrder, OrderOf, IntoOrder, Life
<1>3. Life(rows, k) \in SUBSET Versions /\ Life(rows, k) # {}
  BY DEF Stored, Life, KeysOf, OfKind
<1>4. Last(Life(rows, k)) \in Versions
  BY <1>3, LastIsLatest
<1> QED BY <1>2, <1>4, RowsDated

\* Snapshots that are later than a settlement, or another publisher's where
\* the order's own priced it, leave its quote as it was.
LEMMA QuoteStays ==
    ASSUME NEW A \in SUBSET OfKind(Versions, "rates"), NEW B \in SUBSET OfKind(Versions, "rates"),
           A \subseteq B, NEW p \in Nat, NEW code, NEW t \in Nat,
           \A v \in B \ A :
              \/ v.stamp > t
              \/ /\ RateAt(A, p, code, t) # None /\ RateAt(A, p, code, t).lender = None
                 /\ v.pubkey # p
    PROVE  RateAt(B, p, code, t) = RateAt(A, p, code, t)
<1> DEFINE Mine(X) == {s \in X : s.pubkey = p}
<1>1. \A v \in B : v.stamp \in Nat /\ v.pubkey \in Nat
  BY FiguresAssumption DEF OfKind
<1>2. None \notin Nat
  BY RowsDated
<1>3. Usable(Mine(B), code, t) = Usable(Mine(A), code, t)
  <2>1. \A v \in B \ A : v.pubkey = p => v.stamp > t
    OBVIOUS
  <2> QED BY <1>1, <2>1 DEF Usable
<1>4. Newest(Mine(B), code, t) = Newest(Mine(A), code, t)
  BY <1>3, SameNewest
<1>5. CASE Newest(Mine(A), code, t) # None
  BY <1>4, <1>5 DEF RateAt
<1>6. CASE Newest(Mine(A), code, t) = None
  <2>1. ~(RateAt(A, p, code, t) # None /\ RateAt(A, p, code, t).lender = None)
    <3>1. CASE Newest(A, code, t) = None
      BY <1>6, <3>1 DEF RateAt
    <3>2. CASE Newest(A, code, t) # None
      <4>1. Usable(A, code, t) # {}
        BY <3>2 DEF Newest, Usable
      <4>2. Newest(A, code, t) \in A
        BY <4>1, NewestUsable
      <4>3. Newest(A, code, t).pubkey # None
        BY <1>1, <1>2, <4>2
      <4>4. RateAt(A, p, code, t).lender = Newest(A, code, t).pubkey
        BY <1>6, <3>2 DEF RateAt
      <4> QED BY <4>3, <4>4
    <3> QED BY <3>1, <3>2
  <2>2. \A v \in B \ A : v.stamp > t
    BY <2>1
  <2>3. Usable(B, code, t) = Usable(A, code, t)
    BY <1>1, <2>2 DEF Usable
  <2>4. Newest(B, code, t) = Newest(A, code, t)
    BY <2>3, SameNewest
  <2> QED BY <1>4, <1>6, <2>4 DEF RateAt
<1> QED BY <1>5, <1>6

\* The price of a settled order is that of its time (rates.rs:113): a
\* snapshot published after the settlement never changes it, and one of
\* another publisher changes nothing for an order its own publisher priced,
\* for any snapshots, in any order they come in.
THEOREM NoHindsightCorrect == Spec => NoHindsight
<1>1. Stored /\ [Next]_vars => Stored'
  BY RowsGrow
<1>2. Stored /\ [Next]_vars =>
        [\A o \in LoadOrders(rows, Everyone) :
            LET quote(archive) ==
                    RateAt(OfKind(archive, "rates"), o.pubkey, Reference, o.success_at)
                own == quote(rows) # None /\ quote(rows).lender = None
            IN  (/\ o.success_at # None /\ o \in LoadOrders(rows', Everyone)
                 /\ \A v \in OfKind(rows' \ rows, "rates") :
                       v.stamp > o.success_at \/ (own /\ v.pubkey # o.pubkey))
                => quote(rows') = quote(rows)]_vars
  <2> SUFFICES ASSUME Stored, [Next]_vars, NEW o \in LoadOrders(rows, Everyone),
                      o.success_at # None,
                      \A v \in OfKind(rows' \ rows, "rates") :
                         \/ v.stamp > o.success_at
                         \/ /\ RateAt(OfKind(rows, "rates"), o.pubkey, Reference, o.success_at)
                               # None
                            /\ RateAt(OfKind(rows, "rates"), o.pubkey, Reference, o.success_at).lender
                               = None
                            /\ v.pubkey # o.pubkey
               PROVE  RateAt(OfKind(rows', "rates"), o.pubkey, Reference, o.success_at)
                      = RateAt(OfKind(rows, "rates"), o.pubkey, Reference, o.success_at)
    BY Zenon
  <2>1. rows \subseteq rows' /\ rows' \subseteq Versions
    BY RowsGrow DEF Stored
  <2>2. o.success_at \in Nat
    BY SettledAt
  <2>3. o.pubkey \in Nat
    BY PublisherNumber
  <2>4. /\ OfKind(rows, "rates") \in SUBSET OfKind(Versions, "rates")
        /\ OfKind(rows', "rates") \in SUBSET OfKind(Versions, "rates")
        /\ OfKind(rows, "rates") \subseteq OfKind(rows', "rates")
        /\ OfKind(rows', "rates") \ OfKind(rows, "rates") = OfKind(rows' \ rows, "rates")
    BY <2>1 DEF OfKind
  <2> DEFINE A == OfKind(rows, "rates")
             B == OfKind(rows', "rates")
             t == o.success_at
             p == o.pubkey
  <2>5. \A v \in B \ A : \/ v.stamp > t
                         \/ /\ RateAt(A, p, Reference, t) # None
                            /\ RateAt(A, p, Reference, t).lender = None
                            /\ v.pubkey # p
    BY <2>4
  <2>6. A \in SUBSET OfKind(Versions, "rates") /\ B \in SUBSET OfKind(Versions, "rates") /\ A \subseteq B
    BY <2>4
  <2>7. t \in Nat /\ p \in Nat
    BY <2>2, <2>3
  <2> HIDE DEF A, B, t, p
  <2>8. RateAt(B, p, Reference, t) = RateAt(A, p, Reference, t)
    BY <2>5, <2>6, <2>7, QuoteStays
  <2> QED BY <2>8 DEF A, B, t, p
<1> QED BY <1>1, <1>2, StoredInit, PTL DEF Spec, NoHindsight

-----------------------------------------------------------------------------
(* The calendar: how a window is cut.                                      *)

\* The later of two instants.
LEMMA MaxOfTwo ==
    ASSUME NEW x \in Nat, NEW y \in Nat
    PROVE  Max({x, y}) = IF x >= y THEN x ELSE y
<1>1. CASE x >= y
  BY <1>1, MaxIs
<1>2. CASE ~(x >= y)
  <2>1. \A z \in {x, y} : z <= y
    BY <1>2
  <2> QED BY <1>2, <2>1, MaxIs
<1> QED BY <1>1, <1>2

\* The earlier of two instants.
LEMMA MinOfTwo ==
    ASSUME NEW x \in Nat, NEW y \in Nat
    PROVE  Min({x, y}) = IF x <= y THEN x ELSE y
<1>1. CASE x <= y
  BY <1>1, MinIs
<1>2. CASE ~(x <= y)
  <2>1. \A z \in {x, y} : y <= z
    BY <1>2
  <2> QED BY <1>2, <2>1, MinIs
<1> QED BY <1>1, <1>2

\* An instant with an opening before and one after it is in a whole bucket.
LEMMA WholeAround ==
    ASSUME NEW open \in SUBSET Nat, NEW t \in Nat,
           \E c \in open : c <= t, \E d \in open : t < d
    PROVE  \E b \in Whole(open) : b[1] <= t /\ t < b[2]
<1> DEFINE before == {e \in open : e <= t}
           after == {e \in open : t < e}
           ages == {t - c : c \in before}
<1>1. ages \in SUBSET Nat /\ ages # {} /\ after \in SUBSET Nat /\ after # {}
  <2>1. before # {} /\ after # {} /\ after \subseteq Nat
    OBVIOUS
  <2>2. ASSUME NEW c \in before PROVE t - c \in Nat
    <3>1. c \in Nat /\ c <= t
      OBVIOUS
    <3> QED BY <3>1
  <2> QED BY <2>1, <2>2
<1>2. PICK a \in ages : \A x \in ages : a <= x
  BY <1>1, NatLeast
<1>3. PICK d \in after : \A x \in after : d <= x
  BY <1>1, NatLeast
<1>4. PICK c \in before : a = t - c
  OBVIOUS
<1>5. ASSUME NEW e \in open, c < e, e < d PROVE FALSE
  <2>1. e <= t
    BY <1>3, <1>5
  <2>2. t - e \in ages
    BY <2>1
  <2>3. t - c <= t - e
    BY <1>2, <1>4, <2>2
  <2>4. c \in Nat /\ e \in Nat
    OBVIOUS
  <2> QED BY <1>5, <2>3, <2>4
<1>6. <<c, d>> \in Whole(open)
  BY <1>3, <1>4, <1>5 DEF Whole
<1>7. <<c, d>>[1] <= t /\ t < <<c, d>>[2]
  BY <1>3, <1>4
<1> QED BY <1>6, <1>7

\* Two whole buckets do not overlap.
LEMMA WholeApart ==
    ASSUME NEW open \in SUBSET Nat, NEW b \in Whole(open), NEW c \in Whole(open), b # c
    PROVE  b[2] <= c[1] \/ c[2] <= b[1]
<1>1. /\ b \in open \X open /\ c \in open \X open
      /\ b[1] < b[2] /\ ~\E e \in open : b[1] < e /\ e < b[2]
      /\ c[1] < c[2] /\ ~\E e \in open : c[1] < e /\ e < c[2]
  BY DEF Whole
<1>2. /\ b[1] \in open /\ b[2] \in open /\ c[1] \in open /\ c[2] \in open
      /\ b[1] # c[1] \/ b[2] # c[2]
  BY <1>1
<1>3. PICK b1 \in Nat, b2 \in Nat, c1 \in Nat, c2 \in Nat :
         b1 = b[1] /\ b2 = b[2] /\ c1 = c[1] /\ c2 = c[2]
  BY <1>2
<1>4. /\ ~(b1 < c1 /\ c1 < b2) /\ ~(c1 < b1 /\ b1 < c2)
      /\ ~(b1 < c2 /\ c2 < b2) /\ ~(c1 < b2 /\ b2 < c2)
      /\ b1 < b2 /\ c1 < c2 /\ (b1 # c1 \/ b2 # c2)
  BY <1>1, <1>2, <1>3
<1>5. b2 <= c1 \/ c2 <= b1
  BY <1>4
<1> QED BY <1>3, <1>5

\* The buckets that reach into a window, as BucketsUpto clips them.
Clip(w, b) == Window(Max({b[1], w.from}), Min({b[2], w.until}))
Reaching(w, open) == {c \in Whole(open) : /\ c[2] > w.from /\ c[1] < w.until
                                          /\ w.from < w.until}
Clipped(w, open) == {Clip(w, b) : b \in Reaching(w, open)}

\* A clipped bucket is the part of the whole one that lies in the window.
LEMMA ClipFacts ==
    ASSUME NEW open \in SUBSET Nat, NEW w, w.from \in Nat, w.until \in Nat,
           NEW b \in Reaching(w, open)
    PROVE  /\ b[1] \in Nat /\ b[2] \in Nat
           /\ Clip(w, b).from \in Nat /\ Clip(w, b).until \in Nat
           /\ b[1] <= Clip(w, b).from /\ w.from <= Clip(w, b).from
           /\ Clip(w, b).until <= b[2] /\ Clip(w, b).until <= w.until
           /\ Clip(w, b).from < Clip(w, b).until
           /\ Clip(w, b) = [from |-> Clip(w, b).from, until |-> Clip(w, b).until]
           /\ \A t \in Nat : Contains(Clip(w, b), t) <=> Contains(w, t) /\ b[1] <= t /\ t < b[2]
<1>1. /\ b[1] \in Nat /\ b[2] \in Nat /\ b[1] < b[2]
      /\ b[2] > w.from /\ b[1] < w.until /\ w.from < w.until
  BY DEF Reaching, Whole
<1>2. Max({b[1], w.from}) = IF b[1] >= w.from THEN b[1] ELSE w.from
  BY <1>1, MaxOfTwo
<1>3. Min({b[2], w.until}) = IF b[2] <= w.until THEN b[2] ELSE w.until
  BY <1>1, MinOfTwo
<1> DEFINE f == IF b[1] >= w.from THEN b[1] ELSE w.from
           u == IF b[2] <= w.until THEN b[2] ELSE w.until
<1>4. Clip(w, b) = [from |-> f, until |-> u]
  BY <1>2, <1>3 DEF Clip, Window
<1>5. /\ f \in Nat /\ u \in Nat /\ b[1] <= f /\ w.from <= f /\ u <= b[2] /\ u <= w.until /\ f < u
      /\ \A t \in Nat : t >= f /\ t < u <=> (t >= w.from /\ t < w.until) /\ b[1] <= t /\ t < b[2]
  BY <1>1
<1> HIDE DEF f, u
<1>6. Clip(w, b).from = f /\ Clip(w, b).until = u
  BY <1>4
<1>7. \A t \in Nat : Contains(Clip(w, b), t) <=> t >= f /\ t < u
  BY <1>6 DEF Contains
<1>8. \A t \in Nat : Contains(w, t) <=> t >= w.from /\ t < w.until
  BY DEF Contains
<1> QED BY <1>1, <1>4, <1>5, <1>6, <1>7, <1>8

\* Two clipped buckets do not overlap.
LEMMA ClippedApart ==
    ASSUME NEW open \in SUBSET Nat, NEW w, w.from \in Nat, w.until \in Nat,
           NEW b \in Clipped(w, open), NEW c \in Clipped(w, open), b # c
    PROVE  b.until <= c.from \/ c.until <= b.from
<1>1. PICK p \in Reaching(w, open) : b = Clip(w, p)
  BY DEF Clipped
<1>2. PICK q \in Reaching(w, open) : c = Clip(w, q)
  BY DEF Clipped
<1>3. p \in Whole(open) /\ q \in Whole(open) /\ p # q
  BY <1>1, <1>2 DEF Reaching
<1>4. p[2] <= q[1] \/ q[2] <= p[1]
  BY <1>3, WholeApart
<1>5. /\ p[1] \in Nat /\ p[2] \in Nat /\ b.from \in Nat /\ b.until \in Nat
      /\ p[1] <= b.from /\ b.until <= p[2]
  BY <1>1, ClipFacts
<1>6. /\ q[1] \in Nat /\ q[2] \in Nat /\ c.from \in Nat /\ c.until \in Nat
      /\ q[1] <= c.from /\ c.until <= q[2]
  BY <1>2, ClipFacts
<1> QED BY <1>4, <1>5, <1>6

\* There are no more buckets than instants, so that BucketsUpto answers.
LEMMA FewBuckets ==
    ASSUME NEW open \in SUBSET Nat, NEW w, w.from \in Nat, w.until \in Nat, w.until <= Eternity
    PROVE  IsFiniteSet(Clipped(w, open)) /\ ~(Cardinality(Clipped(w, open)) > Eternity)
<1> DEFINE B == Clipped(w, open)
           f == [b \in B |-> b.from]
<1>1. Eternity \in Nat /\ w.until \in Nat /\ w.until <= Eternity
  BY RowsDated
<1>2. \A b \in B : b.from \in Nat /\ b.until \in Nat /\ b.from < b.until /\ b.until <= w.until
  BY <1>1, ClipFacts DEF Clipped
<1>3. \A b, c \in B : b # c => b.until <= c.from \/ c.until <= b.from
  BY <1>1, ClippedApart
<1>4. \A b \in B : b.from \in Instants
  BY <1>1, <1>2 DEF Instants
<1>5. \A b, c \in B : b.from = c.from => b = c
  <2> SUFFICES ASSUME NEW b \in B, NEW c \in B, b.from = c.from, b # c PROVE FALSE
    OBVIOUS
  <2>1. b.until <= c.from \/ c.until <= b.from
    BY <1>3
  <2> QED BY <1>2, <2>1
<1> HIDE DEF B
<1>6. f \in Injection(B, Instants)
  BY <1>4, <1>5 DEF Injection, IsInjective
<1>7. IsFiniteSet(Instants) /\ Cardinality(Instants) <= Eternity
  <2>1. 0 \in Int /\ Eternity - 1 \in Int
    BY <1>1
  <2>2. /\ IsFiniteSet(0 .. Eternity - 1)
        /\ Cardinality(0 .. Eternity - 1) = IF 0 > Eternity - 1 THEN 0 ELSE (Eternity - 1) - 0 + 1
    BY <2>1, FS_Interval
  <2> QED BY <1>1, <2>2 DEF Instants
<1>8. IsFiniteSet(B) /\ Cardinality(B) <= Cardinality(Instants)
  <2> HIDE DEF f
  <2> QED BY <1>6, <1>7, FS_Injection
<1>9. Cardinality(B) \in Nat /\ Cardinality(Instants) \in Nat
  BY <1>7, <1>8, FS_CardinalityType
<1> QED BY <1>1, <1>7, <1>8, <1>9 DEF B

\* Every opening is an instant.
LEMMA OpeningsAreInstants ==
    ASSUME NEW period \in Periods
    PROVE  Openings(period) \in SUBSET Nat
<1>1. \A m \in Months : MonthStart[m] \in Nat
  <2>1. MonthStart \in Seq(Nat)
    BY CalendarAssumption
  <2>2. Len(MonthStart) \in Nat /\ \A i \in 1 .. Len(MonthStart) : MonthStart[i] \in Nat
    BY <2>1
  <2>3. \A m \in Months : m \in 1 .. Len(MonthStart)
    BY <2>2 DEF Months
  <2> QED BY <2>2, <2>3
<1>2. Instants \subseteq Nat
  BY DEF Instants
<1>3. {t \in Instants : t % DAY = 0} \in SUBSET Nat
  BY <1>2
<1>4. {t \in Instants : t % DAY = 0 /\ (t \div DAY) % WEEK = MONDAY} \in SUBSET Nat
  BY <1>2
<1>5. {MonthStart[m] : m \in Months} \in SUBSET Nat
  BY <1>1
<1>6. {MonthStart[m] : m \in {n \in Months : (n - 1) % YEAR = 0}} \in SUBSET Nat
  BY <1>1
<1> QED BY <1>3, <1>4, <1>5, <1>6 DEF Openings, Periods

\* The buckets of a window are the whole ones that reach into it, clipped.
LEMMA BucketsAreClipped ==
    ASSUME NEW period \in Periods, NEW w, w.from \in Instants,
           w.until \in Nat, w.until <= Eternity, \E t \in Openings(period) : t <= w.from
    PROVE  /\ Buckets(w, period) = Clipped(w, Openings(period))
           /\ IsFiniteSet(Buckets(w, period)) /\ w.from \in Nat
<1> DEFINE open == Openings(period)
<1>1. open \in SUBSET Nat
  BY OpeningsAreInstants
<1>2. w.from \in Nat
  BY DEF Instants
<1>3. IsFiniteSet(Clipped(w, open)) /\ ~(Cardinality(Clipped(w, open)) > Eternity)
  BY <1>1, <1>2, FewBuckets
<1>4. \E c \in open : w.from \in Instants /\ c <= w.from
  OBVIOUS
<1>5. BucketsUpto(w, period, Eternity) = AtMost(Eternity, Clipped(w, open))
  BY <1>4 DEF BucketsUpto, Clipped, Clip, Reaching
<1> QED BY <1>2, <1>3, <1>5 DEF Buckets, AtMost

\* For every calendar, whatever the lengths of its months and wherever a
\* window is cut: the buckets of a window that lies between two openings
\* leave no instant of it out, put none in two of them, hold nothing outside
\* it and are never empty (Window::buckets, window.rs).
THEOREM BucketsPartition ==
    ASSUME NEW period \in Periods, NEW w, w.from \in Instants, w.until \in Instants,
           \E t \in Openings(period) : t <= w.from,
           \E t \in Openings(period) : w.until <= t
    PROVE  /\ IsFiniteSet(Buckets(w, period))
           /\ \A t \in Nat : Contains(w, t) <=> \E b \in Buckets(w, period) : Contains(b, t)
           /\ \A b, c \in Buckets(w, period) : b # c => b.until <= c.from \/ c.until <= b.from
           /\ \A b \in Buckets(w, period) :
                 /\ b.from \in Nat /\ b.until \in Nat /\ b.from < b.until
                 /\ w.from <= b.from /\ b.until <= w.until
<1> DEFINE open == Openings(period)
<1>1. open \in SUBSET Nat
  BY OpeningsAreInstants
<1>2. w.from \in Nat /\ w.until \in Nat /\ w.until <= Eternity
  BY RowsDated DEF Instants
<1>3. IsFiniteSet(Clipped(w, open))
  BY <1>2, BucketsAreClipped
<1>4. Buckets(w, period) = Clipped(w, open)
  BY <1>2, BucketsAreClipped
<1> HIDE DEF open
<1>5. ASSUME NEW t \in Nat, Contains(w, t) PROVE \E b \in Clipped(w, open) : Contains(b, t)
  <2>1. t >= w.from /\ t < w.until
    BY <1>5 DEF Contains
  <2>2. \E c \in open : c <= t
    BY <1>1, <1>2, <2>1 DEF open
  <2>3. \E d \in open : t < d
    BY <1>1, <1>2, <2>1 DEF open
  <2>4. PICK b \in Whole(open) : b[1] <= t /\ t < b[2]
    BY <1>1, <2>2, <2>3, WholeAround
  <2>5. b[1] \in Nat /\ b[2] \in Nat
    BY <1>1 DEF Whole
  <2>6. b \in Reaching(w, open)
    BY <1>2, <2>1, <2>4, <2>5 DEF Reaching
  <2>7. Contains(Clip(w, b), t)
    BY <1>1, <1>2, <1>5, <2>4, <2>6, ClipFacts
  <2> QED BY <2>6, <2>7 DEF Clipped
<1>6. ASSUME NEW b \in Clipped(w, open)
      PROVE  /\ b.from \in Nat /\ b.until \in Nat /\ b.from < b.until
             /\ w.from <= b.from /\ b.until <= w.until
             /\ \A t \in Nat : Contains(b, t) => Contains(w, t)
  <2>1. PICK p \in Reaching(w, open) : b = Clip(w, p)
    BY DEF Clipped
  <2> QED BY <1>1, <1>2, <2>1, ClipFacts
<1>7. \A b, c \in Clipped(w, open) : b # c => b.until <= c.from \/ c.until <= b.from
  BY <1>1, <1>2, ClippedApart
<1> QED BY <1>3, <1>4, <1>5, <1>6, <1>7

-----------------------------------------------------------------------------
(* What is new.                                                            *)

\* When an order was created is a number: the earliest of the times its
\* versions were seen and of those they claim.
LEMMA CreatedAtNumber ==
    ASSUME Stored, NEW o \in LoadOrders(rows, Everyone)
    PROVE  o.created_at \in Nat
<1>1. PICK k \in KeysOf(rows, "order") : o = LoadOrder(rows, k)
  BY DEF LoadOrders
<1> DEFINE V == Life(rows, k)
           seen == {v.at : v \in V}
           claimed == {v.stamp : v \in V} \ {None}
<1>2. o.created_at = CreatedAt(V)
  BY <1>1 DEF LoadOrder, OrderOf, IntoOrder, Life
<1>3. V \subseteq Versions /\ V # {} /\ \A v \in V : v.kind = "order"
  BY DEF Stored, Life, KeysOf, OfKind
<1>4. \A v \in V : v.stamp \in Nat \cup {None}
  BY <1>3, FiguresAssumption
<1>5. \A v \in V : v.at \in Nat
  BY <1>3, RowsDated
<1> HIDE DEF V
<1>6. seen \cup claimed \in SUBSET Nat /\ seen \cup claimed # {}
  BY <1>3, <1>4, <1>5
<1>7. Min(seen \cup claimed) \in seen \cup claimed
  BY <1>6, MinType
<1> QED BY <1>2, <1>6, <1>7 DEF CreatedAt

\* A key is new in a window when one of its orders was created in it and
\* none before.
LEMMA NewIn ==
    ASSUME NEW orders, NEW w, NEW keys, NEW x
    PROVE  x \in FirstSightings(orders, w, keys) <=>
              /\ \E o \in orders : Contains(w, o.created_at) /\ x \in keys[o]
              /\ \A o \in orders : o.created_at < w.from => x \notin keys[o]
<1> DEFINE named == UNION {keys[o] : o \in CreatedOver(orders, w)}
           known == UNION {keys[o] : o \in {p \in orders : p.created_at < w.from}}
<1>1. x \in named <=> \E o \in orders : Contains(w, o.created_at) /\ x \in keys[o]
  BY DEF CreatedOver
<1>2. x \in known <=> \E o \in orders : o.created_at < w.from /\ x \in keys[o]
  OBVIOUS
<1>3. FirstSightings(orders, w, keys) = named \ known
  BY DEF FirstSightings
<1> HIDE DEF named, known
<1>4. x \in FirstSightings(orders, w, keys) <=> x \in named /\ x \notin known
  BY <1>3
<1> QED BY <1>1, <1>2, <1>4

\* Windows that share out another share out what is new in it.
LEMMA NewOnce ==
    ASSUME NEW orders, \A o \in orders : o.created_at \in Nat, NEW keys,
           NEW w, w.from \in Nat, w.until \in Nat, NEW B,
           \A t \in Nat : Contains(w, t) <=> \E b \in B : Contains(b, t),
           \A b, c \in B : b # c => b.until <= c.from \/ c.until <= b.from,
           \A b \in B : /\ b.from \in Nat /\ b.until \in Nat /\ b.from < b.until
                        /\ w.from <= b.from /\ b.until <= w.until
    PROVE  /\ UNION {FirstSightings(orders, b, keys) : b \in B} = FirstSightings(orders, w, keys)
           /\ \A b, c \in B : b # c =>
                 FirstSightings(orders, b, keys) \cap FirstSightings(orders, c, keys) = {}
<1>1. ASSUME NEW b \in B, NEW x \in FirstSightings(orders, b, keys)
      PROVE  x \in FirstSightings(orders, w, keys)
  <2>1. PICK o \in orders : Contains(b, o.created_at) /\ x \in keys[o]
    BY NewIn
  <2>2. Contains(w, o.created_at)
    BY <2>1
  <2>3. \A p \in orders : p.created_at < b.from => x \notin keys[p]
    BY NewIn
  <2>4. \A p \in orders : p.created_at < w.from => x \notin keys[p]
    BY <2>3
  <2> QED BY <2>1, <2>2, <2>4, NewIn
<1>2. ASSUME NEW x \in FirstSightings(orders, w, keys)
      PROVE  \E b \in B : x \in FirstSightings(orders, b, keys)
  <2> DEFINE naming == {o \in orders : x \in keys[o]}
             times == {o.created_at : o \in naming}
  <2>1. PICK o \in naming : Contains(w, o.created_at)
    BY NewIn
  <2>2. times \in SUBSET Nat /\ times # {}
    BY <2>1
  <2>3. PICK t \in times : \A u \in times : t <= u
    BY <2>2, NatLeast
  <2>4. PICK p \in naming : p.created_at = t
    BY <2>3
  <2>5. Contains(w, t)
    <3>1. t <= o.created_at /\ t \in Nat /\ o.created_at \in Nat
      BY <2>1, <2>2, <2>3
    <3>2. ~(t < w.from)
      BY <2>4, NewIn
    <3>3. o.created_at < w.until
      BY <2>1 DEF Contains
    <3> QED BY <3>1, <3>2, <3>3 DEF Contains
  <2>6. PICK b \in B : Contains(b, t)
    BY <2>2, <2>5
  <2>7. t >= b.from
    BY <2>6 DEF Contains
  <2>8. \A q \in orders : q.created_at < b.from => x \notin keys[q]
    <3> SUFFICES ASSUME NEW q \in orders, q.created_at < b.from, x \in keys[q] PROVE FALSE
      OBVIOUS
    <3>1. q.created_at \in times
      OBVIOUS
    <3>2. t <= q.created_at /\ t \in Nat /\ q.created_at \in Nat /\ b.from \in Nat
      BY <2>2, <2>3, <3>1
    <3> QED BY <2>7, <3>2
  <2> QED BY <2>4, <2>6, <2>8, NewIn
<1>3. ASSUME NEW b \in B, NEW c \in B, b.until <= c.from,
             NEW x \in FirstSightings(orders, b, keys), x \in FirstSightings(orders, c, keys)
      PROVE  FALSE
  <2>1. PICK o \in orders : Contains(b, o.created_at) /\ x \in keys[o]
    BY NewIn
  <2>2. o.created_at < b.until
    BY <2>1 DEF Contains
  <2>3. o.created_at < c.from
    BY <1>3, <2>2
  <2> QED BY <1>3, <2>1, <2>3, NewIn
<1>4. UNION {FirstSightings(orders, b, keys) : b \in B} = FirstSightings(orders, w, keys)
  BY <1>1, <1>2
<1>5. ASSUME NEW b \in B, NEW c \in B, b # c
      PROVE  FirstSightings(orders, b, keys) \cap FirstSightings(orders, c, keys) = {}
  <2>1. b.until <= c.from \/ c.until <= b.from
    BY <1>5
  <2> QED BY <1>3, <2>1
<1> QED BY <1>4, <1>5

\* A currency or a method is new once (market.rs): no two days of a window
\* announce the same one, and together they announce those the window does,
\* for every archive, every calendar and every window.
THEOREM SightedOnceCorrect == Spec => []SightedOnce
<1>1. Stored => SightedOnce
  <2> SUFFICES ASSUME Stored, NEW w \in Spans
               PROVE  LET orders == LoadOrders(rows, Everyone)
                          days == Buckets(w, "day")
                          new(b) == << FirstSightings(orders, b, FiatOf(orders)),
                                       FirstSightings(orders, b, MethodsOf(orders)) >>
                      IN  \A i \in {1, 2} :
                             /\ UNION {new(b)[i] : b \in days} = new(w)[i]
                             /\ \A b, c \in days : b # c => new(b)[i] \cap new(c)[i] = {}
    BY DEF SightedOnce
  <2> DEFINE orders == LoadOrders(rows, Everyone)
             days == Buckets(w, "day")
             fiat(b) == FirstSightings(orders, b, FiatOf(orders))
             methods(b) == FirstSightings(orders, b, MethodsOf(orders))
  <2>1. w.from \in Instants /\ w.until \in Instants
    BY FiguresAssumption
  <2>2. /\ \E t \in Openings("day") : t <= w.from
        /\ \E t \in Openings("day") : w.until <= t
    BY FiguresAssumption DEF Openings
  <2>3. /\ \A t \in Nat : Contains(w, t) <=> \E b \in days : Contains(b, t)
        /\ \A b, c \in days : b # c => b.until <= c.from \/ c.until <= b.from
        /\ \A b \in days : /\ b.from \in Nat /\ b.until \in Nat /\ b.from < b.until
                           /\ w.from <= b.from /\ b.until <= w.until
    BY <2>1, <2>2, BucketsPartition DEF Periods
  <2>4. \A o \in orders : o.created_at \in Nat
    BY CreatedAtNumber
  <2>5. w.from \in Nat /\ w.until \in Nat
    BY <2>1 DEF Instants
  <2> HIDE DEF orders, days
  <2>6. /\ UNION {fiat(b) : b \in days} = fiat(w)
        /\ \A b, c \in days : b # c => fiat(b) \cap fiat(c) = {}
    BY <2>3, <2>4, <2>5, NewOnce
  <2>7. /\ UNION {methods(b) : b \in days} = methods(w)
        /\ \A b, c \in days : b # c => methods(b) \cap methods(c) = {}
    BY <2>3, <2>4, <2>5, NewOnce
  <2> HIDE DEF fiat, methods
  <2>8. \A i \in {1, 2} :
           /\ UNION {<<fiat(b), methods(b)>>[i] : b \in days} = <<fiat(w), methods(w)>>[i]
           /\ \A b, c \in days : b # c => <<fiat(b), methods(b)>>[i] \cap <<fiat(c), methods(c)>>[i] = {}
    <3>1. \A b : <<fiat(b), methods(b)>>[1] = fiat(b) /\ <<fiat(b), methods(b)>>[2] = methods(b)
      OBVIOUS
    <3>2. UNION {<<fiat(b), methods(b)>>[1] : b \in days} = UNION {fiat(b) : b \in days}
      BY <3>1
    <3>3. UNION {<<fiat(b), methods(b)>>[2] : b \in days} = UNION {methods(b) : b \in days}
      BY <3>1
    <3>4. ASSUME NEW i \in {1, 2}
          PROVE  /\ UNION {<<fiat(b), methods(b)>>[i] : b \in days} = <<fiat(w), methods(w)>>[i]
                 /\ \A b, c \in days :
                       b # c => <<fiat(b), methods(b)>>[i] \cap <<fiat(c), methods(c)>>[i] = {}
      <4>1. CASE i = 1
        BY <2>6, <3>1, <3>2, <4>1
      <4>2. CASE i = 2
        BY <2>7, <3>1, <3>3, <4>2
      <4> QED BY <4>1, <4>2
    <3> QED BY <3>4
  <2> QED BY <2>8 DEF orders, days, fiat, methods
<1> QED BY <1>1, StoredInit, RowsGrow, PTL DEF Spec

-----------------------------------------------------------------------------
(* Addresses.                                                              *)

\* The scopes, buckets and addresses there are.
Scopes == {Absent} \cup {[kind |-> "i", value |-> p] : p \in DOMAIN Hex}
                   \cup {[kind |-> "n", value |-> n] : n \in NETWORKS}

NamedBuckets == [year : DOMAIN YearText, month : {Absent} \cup DOMAIN MonthText]

WindowAddresses == {WindowAddress(r, w, scope) : r \in Reports, w \in WindowNames, scope \in Scopes}

SeriesAddresses ==
    {a \in {SeriesAddress(r, res, b, scope) :
               r \in Reports, res \in Resolutions, b \in NamedBuckets, scope \in Scopes} :
        Fits(a.bucket, a.resolution)}

\* A spelling is of one year or month.
LEMMA SpeltIs ==
    ASSUME NEW f \in {YearText, MonthText, Hex}, NEW x \in DOMAIN f
    PROVE  Spells(f, f[x]) /\ Spelt(f, f[x]) = x
<1>1. \A z \in DOMAIN f : f[z] = f[x] => z = x
  BY AddressAssumption
<1> QED BY <1>1 DEF Spells, Spelt

\* What is read of a spelling has it.
LEMMA SpeltBack ==
    ASSUME NEW f, NEW part, Spells(f, part)
    PROVE  Spelt(f, part) \in DOMAIN f /\ f[Spelt(f, part)] = part
BY DEF Spells, Spelt

\* Reports are told apart by their text.
LEMMA ReportsApart ==
    ASSUME NEW r \in Reports
    PROVE  /\ {q \in Reports : ReportText(q) = ReportText(r)} = {r}
           /\ ReportText(r) # <<"index">> /\ ReportText(r) # <<"series">>
<1>1. ReportText(r) # <<"index">> /\ ReportText(r) # <<"series">>
  BY DEF Reports, ReportText
<1>2. ASSUME NEW q \in Reports, ReportText(q) = ReportText(r) PROVE q = r
  <2>1. CASE q = "dev-fees" /\ r = "dev-fees"
    BY <2>1
  <2>2. CASE q # "dev-fees" /\ r # "dev-fees"
    BY <1>2, <2>2 DEF ReportText
  <2>3. \A z : Len(<<z>>) = 1
    OBVIOUS
  <2>4. Len(<<"dev", "fees">>) = 2
    OBVIOUS
  <2>5. CASE q # "dev-fees" /\ r = "dev-fees"
    BY <1>2, <2>3, <2>4, <2>5 DEF ReportText
  <2>6. CASE q = "dev-fees" /\ r # "dev-fees"
    BY <1>2, <2>3, <2>4, <2>6 DEF ReportText
  <2> QED BY <2>1, <2>2, <2>5, <2>6
<1> QED BY <1>1, <1>2

\* A scope is what its text spells, and nothing else spells it.
LEMMA ScopeBack ==
    ASSUME NEW scope \in Scopes
    PROVE  /\ ParseScope(ScopeText(scope)) = {scope}
           /\ Len(ScopeText(scope)) \in {0, 2}
<1>1. CASE scope = Absent
  BY <1>1 DEF ScopeText, ParseScope
<1>2. ASSUME NEW p \in DOMAIN Hex, scope = [kind |-> "i", value |-> p]
      PROVE  /\ ParseScope(ScopeText(scope)) = {scope}
             /\ Len(ScopeText(scope)) \in {0, 2}
  <2> DEFINE rest == << <<"i">>, <<Hex[p]>> >>
  <2>1. scope # Absent
    BY <1>2, AddressAssumption
  <2>2. ScopeText(scope) = rest
    BY <1>2, <2>1 DEF ScopeText
  <2>3. rest # << >> /\ Len(rest) = 2 /\ Len(rest[2]) = 1
    OBVIOUS
  <2>4. {q \in DOMAIN Hex : rest = << <<"i">>, <<Hex[q]>> >>} = {p}
    <3>1. \A q \in DOMAIN Hex : Hex[q] = Hex[p] => q = p
      BY AddressAssumption
    <3> QED BY <3>1
  <2>5. {m \in NETWORKS : rest = << <<"n">>, <<m>> >>} = {}
    OBVIOUS
  <2> HIDE DEF rest
  <2>6. ParseScope(rest) = {[kind |-> "i", value |-> q] : q \in {p}}
                           \cup {[kind |-> "n", value |-> m] : m \in {}}
    BY <2>3, <2>4, <2>5 DEF ParseScope
  <2> QED BY <1>2, <2>2, <2>3, <2>6
<1>3. ASSUME NEW n \in NETWORKS, scope = [kind |-> "n", value |-> n]
      PROVE  /\ ParseScope(ScopeText(scope)) = {scope}
             /\ Len(ScopeText(scope)) \in {0, 2}
  <2> DEFINE rest == << <<"n">>, <<n>> >>
  <2>1. scope # Absent
    BY <1>3, AddressAssumption
  <2>2. ScopeText(scope) = rest
    BY <1>3, <2>1 DEF ScopeText
  <2>3. rest # << >> /\ Len(rest) = 2 /\ Len(rest[2]) = 1
    OBVIOUS
  <2>4. {q \in DOMAIN Hex : rest = << <<"i">>, <<Hex[q]>> >>} = {}
    OBVIOUS
  <2>5. {m \in NETWORKS : rest = << <<"n">>, <<m>> >>} = {n}
    OBVIOUS
  <2> HIDE DEF rest
  <2>6. ParseScope(rest) = {[kind |-> "i", value |-> q] : q \in {}}
                           \cup {[kind |-> "n", value |-> m] : m \in {n}}
    BY <2>3, <2>4, <2>5 DEF ParseScope
  <2> QED BY <1>3, <2>2, <2>3, <2>6
<1> QED BY <1>1, <1>2, <1>3 DEF Scopes

\* What is read of a text as its scope is spelt by it.
LEMMA ScopeThere ==
    ASSUME NEW rest, NEW scope \in ParseScope(rest)
    PROVE  scope \in Scopes /\ ScopeText(scope) = rest
<1>1. CASE rest = << >>
  BY <1>1 DEF ParseScope, ScopeText, Scopes
<1>2. CASE rest # << >>
  <2>1. \/ \E p \in DOMAIN Hex : scope = [kind |-> "i", value |-> p] /\ rest = << <<"i">>, <<Hex[p]>> >>
        \/ \E n \in NETWORKS : scope = [kind |-> "n", value |-> n] /\ rest = << <<"n">>, <<n>> >>
    BY <1>2 DEF ParseScope
  <2>2. scope # Absent
    BY <2>1, AddressAssumption
  <2> QED BY <2>1, <2>2 DEF ScopeText, Scopes
<1> QED BY <1>1, <1>2

\* The same of a bucket.
LEMMA BucketBack ==
    ASSUME NEW b \in NamedBuckets
    PROVE  ParseBucket(BucketText(b)) = b
<1>1. b = [year |-> b.year, month |-> b.month] /\ b.year \in DOMAIN YearText
  BY DEF NamedBuckets
<1>2. Spells(YearText, YearText[b.year]) /\ Spelt(YearText, YearText[b.year]) = b.year
  BY <1>1, SpeltIs
<1>3. CASE b.month = Absent
  <2> DEFINE s == <<YearText[b.year]>>
  <2>1. BucketText(b) = s /\ Len(s) = 1 /\ s[1] = YearText[b.year]
    BY <1>3 DEF BucketText
  <2> HIDE DEF s
  <2>2. ParseBucket(s) = [year |-> b.year, month |-> Absent]
    BY <1>2, <2>1 DEF ParseBucket
  <2> QED BY <1>1, <1>3, <2>1, <2>2
<1>4. CASE b.month # Absent
  <2> DEFINE s == <<YearText[b.year], MonthText[b.month]>>
  <2>1. /\ BucketText(b) = s /\ Len(s) = 2
        /\ s[1] = YearText[b.year] /\ s[2] = MonthText[b.month]
    BY <1>4 DEF BucketText
  <2>2. Spells(MonthText, MonthText[b.month]) /\ Spelt(MonthText, MonthText[b.month]) = b.month
    <3>1. b.month \in DOMAIN MonthText
      BY <1>4 DEF NamedBuckets
    <3> QED BY <3>1, SpeltIs
  <2> HIDE DEF s
  <2>3. ParseBucket(s) = [year |-> b.year, month |-> b.month]
    BY <1>2, <2>1, <2>2 DEF ParseBucket
  <2> QED BY <1>1, <2>1, <2>3
<1> QED BY <1>3, <1>4

\* And so it is of a bucket.
LEMMA BucketThere ==
    ASSUME NEW W, NEW segment \in Seq(W), ParseBucket(segment) # Absent
    PROVE  /\ ParseBucket(segment) \in NamedBuckets
           /\ BucketText(ParseBucket(segment)) = segment
<1> DEFINE y == Spelt(YearText, segment[1])
           m == Spelt(MonthText, segment[2])
<1>1. CASE Len(segment) = 1 /\ Spells(YearText, segment[1])
  <2>1. ParseBucket(segment) = [year |-> y, month |-> Absent]
    BY <1>1 DEF ParseBucket
  <2>2. y \in DOMAIN YearText /\ YearText[y] = segment[1]
    BY <1>1, SpeltBack
  <2>3. segment = <<segment[1]>>
    BY <1>1
  <2> HIDE DEF y
  <2> QED BY <2>1, <2>2, <2>3 DEF NamedBuckets, BucketText
<1>2. CASE Len(segment) = 2 /\ Spells(YearText, segment[1]) /\ Spells(MonthText, segment[2])
  <2>1. ParseBucket(segment) = [year |-> y, month |-> m]
    BY <1>2 DEF ParseBucket
  <2>2. /\ y \in DOMAIN YearText /\ YearText[y] = segment[1]
        /\ m \in DOMAIN MonthText /\ MonthText[m] = segment[2]
    BY <1>2, SpeltBack
  <2>3. segment = <<segment[1], segment[2]>>
    BY <1>2
  <2>4. m # Absent
    BY <2>2, AddressAssumption
  <2> HIDE DEF y, m
  <2> QED BY <2>1, <2>2, <2>3, <2>4 DEF NamedBuckets, BucketText
<1> QED BY <1>1, <1>2 DEF ParseBucket

\* What Address::parse takes a text of several segments for.
Reading(text, first) == ParseScope(SubSeq(text, first, Len(text)))

WindowReadings(text) ==
    {WindowAddress(r, w, scope) :
        r \in {q \in Reports : ReportText(q) = text[1]},
        w \in {v \in WindowNames : text[2] = <<v>>}, scope \in Reading(text, 3)}

SeriesReadings(text) ==
    {SeriesAddress(r, res, b, scope) :
        r \in {q \in Reports : ReportText(q) = text[2]},
        res \in {s \in Resolutions : text[3] = <<s>>},
        b \in {c \in {ParseBucket(text[4])} \ {Absent} : Fits(c, text[3][1])},
        scope \in Reading(text, 5)}

IndexReadings(text) == {Index(y) : y \in {z \in DOMAIN YearText : text[2] = <<YearText[z]>>}}

TheReading(set) == IF set = {} THEN Absent ELSE CHOOSE x \in set : TRUE

\* The shapes of a text.
IsIndex(text)  == Len(text) = 1 /\ text[1] = <<"index">>
IsYear(text)   == Len(text) = 2 /\ text[1] = <<"index">>
IsSeries(text) == Len(text) >= 4 /\ text[1] = <<"series">>
IsWindow(text) == \/ Len(text) = 2 /\ text[1] # <<"index">>
                  \/ Len(text) = 3
                  \/ Len(text) >= 4 /\ text[1] # <<"series">>

\* Each shape has its own reading, and no text has two.
LEMMA ParseIs ==
    ASSUME NEW text, Len(text) \in Nat
    PROVE  /\ IsIndex(text) => Parse(text) = Index(Absent)
           /\ IsYear(text) => Parse(text) = TheReading(IndexReadings(text))
           /\ IsSeries(text) => Parse(text) = TheReading(SeriesReadings(text))
           /\ IsWindow(text) => Parse(text) = TheReading(WindowReadings(text))
           /\ (~IsIndex(text) /\ ~IsYear(text) /\ ~IsSeries(text) /\ ~IsWindow(text))
                 => Parse(text) = Absent
<1> DEFINE n == Len(text)
           index == text[1] = <<"index">>
           series == text[1] = <<"series">>
           window == (n \in {2, 3} /\ (n = 2 => ~index)) \/ (n >= 4 /\ ~series)
<1>1. Parse(text) = CASE n = 1 /\ index -> Index(Absent)
                      [] n = 2 /\ index -> TheReading(IndexReadings(text))
                      [] n >= 4 /\ series -> TheReading(SeriesReadings(text))
                      [] window -> TheReading(WindowReadings(text))
                      [] OTHER -> Absent
  BY DEF Parse, TheReading, IndexReadings, SeriesReadings, WindowReadings, Reading
<1>2. IsIndex(text) <=> n = 1 /\ index
  BY DEF IsIndex
<1>3. IsYear(text) <=> n = 2 /\ index
  BY DEF IsYear
<1>4. IsSeries(text) <=> n >= 4 /\ series
  BY DEF IsSeries
<1>5. IsWindow(text) <=> window
  <2>1. \A k \in Nat : \A p, q \in BOOLEAN :
           ((k = 2 /\ ~p) \/ k = 3 \/ (k >= 4 /\ ~q))
           <=> ((k \in {2, 3} /\ (k = 2 => ~p)) \/ (k >= 4 /\ ~q))
    OBVIOUS
  <2>2. IsWindow(text) <=> ((n = 2 /\ ~index) \/ n = 3 \/ (n >= 4 /\ ~series))
    BY Zenon DEF IsWindow
  <2>3. n \in Nat
    OBVIOUS
  <2>4. index \in BOOLEAN /\ series \in BOOLEAN
    BY Zenon
  <2> HIDE DEF n, index, series
  <2> QED BY <2>1, <2>2, <2>3, <2>4
<1>6. n \in Nat
  OBVIOUS
<1>7. Parse(text) = CASE IsIndex(text) -> Index(Absent)
                      [] IsYear(text) -> TheReading(IndexReadings(text))
                      [] IsSeries(text) -> TheReading(SeriesReadings(text))
                      [] IsWindow(text) -> TheReading(WindowReadings(text))
                      [] OTHER -> Absent
  <2> HIDE DEF n, index, series, window
  <2> QED BY <1>1, <1>2, <1>3, <1>4, <1>5
<1>8. /\ IsIndex(text) => ~IsYear(text) /\ ~IsSeries(text) /\ ~IsWindow(text)
      /\ IsYear(text) => ~IsIndex(text) /\ ~IsSeries(text) /\ ~IsWindow(text)
      /\ IsSeries(text) => ~IsIndex(text) /\ ~IsYear(text) /\ ~IsWindow(text)
  <2> HIDE DEF n, index, series
  <2> QED BY <1>2, <1>3, <1>4, <1>5, <1>6
<1> QED BY <1>7, <1>8

\* One reading is taken,
LEMMA TheOnlyReading ==
    ASSUME NEW x
    PROVE  TheReading({x}) = x
BY DEF TheReading

\* and only one there is.
LEMMA SomeReading ==
    ASSUME NEW set, TheReading(set) # Absent
    PROVE  TheReading(set) \in set
BY DEF TheReading

\* What is left of a text after its first segments.
LEMMA RestOfTwo ==
    ASSUME NEW a, NEW b, NEW S, NEW rest \in Seq(S)
    PROVE  LET text == <<a, b>> \o rest
           IN  /\ Len(text) = 2 + Len(rest) /\ text[1] = a /\ text[2] = b
               /\ SubSeq(text, 3, Len(text)) = rest
<1> DEFINE text == <<a, b>> \o rest
           T == S \cup {a, b}
           u == SubSeq(text, 3, Len(text))
<1>1. <<a, b>> \in Seq(T) /\ rest \in Seq(T)
  OBVIOUS
<1>2. text \in Seq(T) /\ Len(text) = 2 + Len(rest) /\ text[1] = a /\ text[2] = b
  BY <1>1
<1>3. \A i \in 1 .. Len(rest) : text[i + 2] = rest[i]
  BY <1>1
<1> HIDE DEF text
<1>4. u \in Seq(T) /\ Len(u) = Len(rest)
  BY <1>1, <1>2
<1>5. \A i \in 1 .. Len(rest) : u[i] = rest[i]
  BY <1>1, <1>2, <1>3
<1>6. u = rest
  BY <1>1, <1>4, <1>5
<1> QED BY <1>2, <1>6 DEF text

\* The same of four.
LEMMA RestOfFour ==
    ASSUME NEW a, NEW b, NEW c, NEW d, NEW S, NEW rest \in Seq(S)
    PROVE  LET text == <<a, b, c, d>> \o rest
           IN  /\ Len(text) = 4 + Len(rest)
               /\ text[1] = a /\ text[2] = b /\ text[3] = c /\ text[4] = d
               /\ SubSeq(text, 5, Len(text)) = rest
<1> DEFINE text == <<a, b, c, d>> \o rest
           T == S \cup {a, b, c, d}
           u == SubSeq(text, 5, Len(text))
<1>1. <<a, b, c, d>> \in Seq(T) /\ rest \in Seq(T)
  OBVIOUS
<1>2. /\ text \in Seq(T) /\ Len(text) = 4 + Len(rest)
      /\ text[1] = a /\ text[2] = b /\ text[3] = c /\ text[4] = d
  BY <1>1
<1>3. \A i \in 1 .. Len(rest) : text[i + 4] = rest[i]
  BY <1>1
<1> HIDE DEF text
<1>4. u \in Seq(T) /\ Len(u) = Len(rest)
  BY <1>1, <1>2
<1>5. \A i \in 1 .. Len(rest) : u[i] = rest[i]
  BY <1>1, <1>2, <1>3
<1>6. u = rest
  BY <1>1, <1>4, <1>5
<1> QED BY <1>2, <1>6 DEF text

\* Two segments are a text,
LEMMA PairIsText ==
    ASSUME NEW x, NEW y
    PROVE  <<x, y>> \in Seq({x, y})
OBVIOUS

\* and so is every scope.
LEMMA ScopeIsText ==
    ASSUME NEW scope \in Scopes
    PROVE  \E S : ScopeText(scope) \in Seq(S)
<1>1. CASE scope = Absent
  <2>1. ScopeText(scope) \in Seq({})
    BY <1>1 DEF ScopeText
  <2> QED BY <2>1
<1>2. ASSUME NEW p \in DOMAIN Hex, scope = [kind |-> "i", value |-> p]
      PROVE  \E S : ScopeText(scope) \in Seq(S)
  <2>1. scope # Absent
    BY <1>2, AddressAssumption
  <2>2. ScopeText(scope) = << <<"i">>, <<Hex[p]>> >>
    BY <1>2, <2>1 DEF ScopeText
  <2>3. << <<"i">>, <<Hex[p]>> >> \in Seq({<<"i">>, <<Hex[p]>>})
    BY PairIsText
  <2>4. ScopeText(scope) \in Seq({<<"i">>, <<Hex[p]>>})
    BY <2>2, <2>3, Zenon
  <2> QED BY <2>4
<1>3. ASSUME NEW n \in NETWORKS, scope = [kind |-> "n", value |-> n]
      PROVE  \E S : ScopeText(scope) \in Seq(S)
  <2>1. scope # Absent
    BY <1>3, AddressAssumption
  <2>2. ScopeText(scope) = << <<"n">>, <<n>> >>
    BY <1>3, <2>1 DEF ScopeText
  <2>3. << <<"n">>, <<n>> >> \in Seq({<<"n">>, <<n>>})
    BY PairIsText
  <2>4. ScopeText(scope) \in Seq({<<"n">>, <<n>>})
    BY <2>2, <2>3, Zenon
  <2> QED BY <2>4
<1> QED BY <1>1, <1>2, <1>3 DEF Scopes

\* A window document's d parses back to it.
LEMMA WindowParses ==
    ASSUME NEW a \in WindowAddresses
    PROVE  Parse(Render(a)) = a
<1>1. PICK r \in Reports, w \in WindowNames, scope \in Scopes : a = WindowAddress(r, w, scope)
  BY DEF WindowAddresses
<1> DEFINE rest == ScopeText(scope)
           text == << ReportText(r), <<w>> >> \o rest
<1>2. Render(a) = text
  BY <1>1 DEF Render, WindowAddress
<1>3. PICK S : rest \in Seq(S)
  BY ScopeIsText
<1>4. Len(rest) \in {0, 2} /\ ParseScope(rest) = {scope}
  BY ScopeBack
<1> HIDE DEF rest
<1>5. /\ Len(text) = 2 + Len(rest) /\ text[1] = ReportText(r) /\ text[2] = <<w>>
      /\ SubSeq(text, 3, Len(text)) = rest
  BY <1>3, RestOfTwo
<1> HIDE DEF text
<1>6. text[1] # <<"index">> /\ text[1] # <<"series">>
  BY <1>5, ReportsApart
<1>7. Parse(text) = TheReading(WindowReadings(text))
  <2>1. \A k : (k = 0 \/ k = 2) => (2 + k = 2 \/ 2 + k = 4)
    OBVIOUS
  <2>2. Len(text) = 2 \/ Len(text) = 4
    BY <1>4, <1>5, <2>1, Zenon
  <2>3. \A k : (k = 2 \/ k = 4) => (k \in Nat /\ (k = 2 \/ k >= 4))
    OBVIOUS
  <2>4. Len(text) \in Nat /\ (Len(text) = 2 \/ Len(text) >= 4)
    BY <2>2, <2>3, Zenon
  <2>5. IsWindow(text)
    BY <1>6, <2>4, Zenon DEF IsWindow
  <2> QED BY <2>4, <2>5, ParseIs
<1>8. {q \in Reports : ReportText(q) = text[1]} = {r}
  BY <1>5, ReportsApart
<1>9. {v \in WindowNames : text[2] = <<v>>} = {w}
  BY <1>5
<1>10. Reading(text, 3) = {scope}
  BY <1>4, <1>5 DEF Reading
<1>11. WindowReadings(text) = {a}
  BY <1>1, <1>8, <1>9, <1>10 DEF WindowReadings
<1> QED BY <1>2, <1>7, <1>11, TheOnlyReading

\* And a partition's.
LEMMA SeriesParses ==
    ASSUME NEW a \in SeriesAddresses
    PROVE  Parse(Render(a)) = a
<1>1. PICK r \in Reports, res \in Resolutions, b \in NamedBuckets, scope \in Scopes :
         a = SeriesAddress(r, res, b, scope) /\ Fits(b, res)
  BY DEF SeriesAddresses, SeriesAddress
<1> DEFINE rest == ScopeText(scope)
           text == << <<"series">>, ReportText(r), <<res>>, BucketText(b) >> \o rest
<1>2. Render(a) = text
  BY <1>1 DEF Render, SeriesAddress
<1>3. PICK S : rest \in Seq(S)
  BY ScopeIsText
<1>4. Len(rest) \in {0, 2} /\ ParseScope(rest) = {scope}
  BY ScopeBack
<1> HIDE DEF rest
<1>5. /\ Len(text) = 4 + Len(rest) /\ text[1] = <<"series">> /\ text[2] = ReportText(r)
      /\ text[3] = <<res>> /\ text[4] = BucketText(b)
      /\ SubSeq(text, 5, Len(text)) = rest
  BY <1>3, RestOfFour
<1> HIDE DEF text
<1>6. Parse(text) = TheReading(SeriesReadings(text))
  <2>1. \A k : (k = 0 \/ k = 2) => (4 + k = 4 \/ 4 + k = 6)
    OBVIOUS
  <2>2. Len(text) = 4 \/ Len(text) = 6
    BY <1>4, <1>5, <2>1, Zenon
  <2>3. \A k : (k = 4 \/ k = 6) => (k \in Nat /\ k >= 4)
    OBVIOUS
  <2>4. Len(text) \in Nat /\ Len(text) >= 4
    BY <2>2, <2>3, Zenon
  <2>5. IsSeries(text)
    BY <1>5, <2>4, Zenon DEF IsSeries
  <2> QED BY <2>4, <2>5, ParseIs
<1>7. {q \in Reports : ReportText(q) = text[2]} = {r}
  BY <1>5, ReportsApart
<1>8. {s \in Resolutions : text[3] = <<s>>} = {res} /\ text[3][1] = res
  BY <1>5
<1>9. ParseBucket(text[4]) = b /\ b # Absent
  BY <1>5, BucketBack, AddressAssumption DEF NamedBuckets
<1>10. {c \in {ParseBucket(text[4])} \ {Absent} : Fits(c, text[3][1])} = {b}
  BY <1>1, <1>8, <1>9
<1>11. Reading(text, 5) = {scope}
  BY <1>4, <1>5 DEF Reading
<1>12. SeriesReadings(text) = {a}
  BY <1>1, <1>7, <1>8, <1>10, <1>11 DEF SeriesReadings
<1> QED BY <1>2, <1>6, <1>12, TheOnlyReading

\* A sequence is its elements.
LEMMA TwoLong ==
    ASSUME NEW S, NEW s \in Seq(S), Len(s) = 2
    PROVE  s = <<s[1], s[2]>>
OBVIOUS

\* It is its first four and what follows them.
LEMMA FourFirst ==
    ASSUME NEW S, NEW s \in Seq(S), Len(s) >= 4
    PROVE  <<s[1], s[2], s[3], s[4]>> \o SubSeq(s, 5, Len(s)) = s
<1> DEFINE h == <<s[1], s[2], s[3], s[4]>>
           g == SubSeq(s, 1, 4)
<1>1. s[1] \in S /\ s[2] \in S /\ s[3] \in S /\ s[4] \in S
  OBVIOUS
<1>2. h \in Seq(S) /\ Len(h) = 4 /\ \A i \in 1 .. 4 : h[i] = s[i]
  BY <1>1
<1>3. g \in Seq(S) /\ Len(g) = 4 /\ \A i \in 1 .. 4 : g[i] = s[i]
  OBVIOUS
<1> HIDE DEF h, g
<1>4. g = h
  BY <1>2, <1>3, SeqEqual
<1>5. Len(s) \in Nat /\ 4 \in 1 - 1 .. Len(s) /\ Len(s) \in 4 .. Len(s) /\ 1 \in 1 .. Len(s) + 1
  OBVIOUS
<1>6. g \o SubSeq(s, 5, Len(s)) = s
  <2>1. SubSeq(s, 1, 4) \o SubSeq(s, 4 + 1, Len(s)) = SubSeq(s, 1, Len(s))
    BY ONLY <1>5, s \in Seq(S), ConcatAdjacentSubSeq, Zenon
  <2>2. SubSeq(s, 1, Len(s)) = s
    BY SubSeqFull
  <2> QED BY <2>1, <2>2 DEF g
<1> QED BY <1>4, <1>6 DEF h

\* What a client spells is an address only in its one spelling.
LEMMA SpelledExactly ==
    ASSUME NEW W, NEW text \in Seq(Seq(W)), Parse(text) # Absent
    PROVE  Render(Parse(text)) = text
<1> DEFINE n == Len(text)
           rest(k) == SubSeq(text, k, n)
<1>1. n \in Nat
  OBVIOUS
<1>2. CASE IsIndex(text)
  <2>1. Parse(text) = Index(Absent)
    BY <1>1, <1>2, ParseIs
  <2>2. Render(Index(Absent)) = << <<"index">> >>
    BY DEF Render, Index
  <2>3. Len(text) = 1 /\ text[1] = <<"index">>
    BY <1>2 DEF IsIndex
  <2>4. text = <<text[1]>>
    BY <2>3
  <2> QED BY <2>1, <2>2, <2>3, <2>4
<1>3. CASE IsYear(text)
  <2>1. Parse(text) \in IndexReadings(text)
    BY <1>1, <1>3, ParseIs, SomeReading
  <2>2. PICK y \in DOMAIN YearText : text[2] = <<YearText[y]>> /\ Parse(text) = Index(y)
    BY <2>1 DEF IndexReadings
  <2>3. Len(text) = 2 /\ text[1] = <<"index">>
    BY <1>3 DEF IsYear
  <2>4. text = <<text[1], text[2]>>
    BY <2>3, TwoLong
  <2>5. y # Absent
    BY AddressAssumption
  <2>6. Render(Index(y)) = << <<"index">>, <<YearText[y]>> >>
    BY <2>5 DEF Render, Index
  <2> QED BY <2>2, <2>3, <2>4, <2>6
<1>4. CASE IsSeries(text)
  <2>1. Parse(text) \in SeriesReadings(text)
    BY <1>1, <1>4, ParseIs, SomeReading
  <2>2. PICK r \in Reports, res \in Resolutions, b \in {ParseBucket(text[4])},
             scope \in Reading(text, 5) :
           /\ Parse(text) = SeriesAddress(r, res, b, scope)
           /\ ReportText(r) = text[2] /\ text[3] = <<res>> /\ b # Absent
    BY <2>1 DEF SeriesReadings
  <2>3. Len(text) >= 4 /\ text[1] = <<"series">>
    BY <1>4 DEF IsSeries
  <2>4. text[4] \in Seq(W) /\ b = ParseBucket(text[4])
    BY <1>1, <2>3
  <2>5. BucketText(b) = text[4]
    BY <2>2, <2>4, BucketThere
  <2>6. scope \in Scopes /\ ScopeText(scope) = rest(5)
    BY ScopeThere DEF Reading
  <2>7. Render(SeriesAddress(r, res, b, scope))
        = << <<"series">>, ReportText(r), <<res>>, BucketText(b) >> \o ScopeText(scope)
    BY DEF Render, SeriesAddress
  <2>8. <<text[1], text[2], text[3], text[4]>> \o rest(5) = text
    BY <2>3, FourFirst
  <2> HIDE DEF rest
  <2> QED BY <2>2, <2>3, <2>5, <2>6, <2>7, <2>8
<1>5. CASE IsWindow(text)
  <2>1. Parse(text) \in WindowReadings(text)
    BY <1>1, <1>5, ParseIs, SomeReading
  <2>2. PICK r \in Reports, w \in WindowNames, scope \in Reading(text, 3) :
           /\ Parse(text) = WindowAddress(r, w, scope)
           /\ ReportText(r) = text[1] /\ text[2] = <<w>>
    BY <2>1 DEF WindowReadings
  <2>3. Len(text) >= 2
    BY <1>1, <1>5 DEF IsWindow
  <2>4. scope \in Scopes /\ ScopeText(scope) = rest(3)
    BY ScopeThere DEF Reading
  <2>5. Render(WindowAddress(r, w, scope)) = << ReportText(r), <<w>> >> \o ScopeText(scope)
    BY DEF Render, WindowAddress
  <2>6. <<text[1], text[2]>> \o rest(3) = text
    BY <1>1, <2>3
  <2> HIDE DEF rest
  <2> QED BY <2>2, <2>4, <2>5, <2>6
<1> QED BY <1>1, <1>2, <1>3, <1>4, <1>5, ParseIs
=============================================================================
