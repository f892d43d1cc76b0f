---------------------------- MODULE ReportsProofs ---------------------------
(***************************************************************************)
(* Proofs about reports and documents, for every archive, every calendar   *)
(* and every window: tables add up to totals and shares to their whole,    *)
(* narrowed loads are enough, months are compared with the months before,  *)
(* every event has its row in the partitions, the clock alone restates     *)
(* nothing that is dated, addresses are exact, and a figure asked for in   *)
(* two ways is the same.                                                   *)
(***************************************************************************)
EXTENDS FiguresProofs

-----------------------------------------------------------------------------
(* What is loaded is finite and dated.                                     *)

\* Total adds up what Added does.
LEMMA TotalAdded == \A f : Total(f) = Added(f)
BY DEF Total, Added

\* One record per key of a finite table is a finite load.
LEMMA LoadFinite ==
    ASSUME Stored, NEW kind
    PROVE  IsFiniteSet(OfKind(rows, kind)) /\ IsFiniteSet(KeysOf(rows, kind))
<1> DEFINE V == OfKind(rows, kind)
           f == [v \in V |-> v.key]
<1>1. IsFiniteSet(V)
  BY FiguresAssumption, FS_Subset DEF Stored, OfKind
<1>2. IsFiniteSet({f[v] : v \in V})
  BY <1>1, ColumnFinite
<1>3. {f[v] : v \in V} = KeysOf(rows, kind)
  BY DEF KeysOf
<1> QED BY <1>1, <1>2, <1>3

\* The orders are.
LEMMA OrdersFinite ==
    ASSUME Stored
    PROVE  IsFiniteSet(LoadOrders(rows, Everyone))
<1> DEFINE K == KeysOf(rows, "order")
           f == [k \in K |-> LoadOrder(rows, k)]
           all == {f[k] : k \in K}
<1>1. IsFiniteSet(K)
  BY LoadFinite
<1>2. IsFiniteSet(all)
  BY <1>1, ColumnFinite
<1>3. all = {LoadOrder(rows, k) : k \in K}
  OBVIOUS
<1>4. LoadOrders(rows, Everyone) \subseteq all
  BY <1>3 DEF LoadOrders
<1> HIDE DEF all
<1> QED BY <1>2, <1>4, FS_Subset

\* The disputes are.
LEMMA DisputesFinite ==
    ASSUME Stored
    PROVE  IsFiniteSet(LoadDisputes(rows, Everyone))
<1> DEFINE K == KeysOf(rows, "dispute")
           f == [k \in K |-> LoadDispute(rows, k)]
           all == {f[k] : k \in K}
<1>1. IsFiniteSet(K)
  BY LoadFinite
<1>2. IsFiniteSet(all)
  BY <1>1, ColumnFinite
<1>3. all = {LoadDispute(rows, k) : k \in K}
  OBVIOUS
<1>4. LoadDisputes(rows, Everyone) \subseteq all
  BY <1>3 DEF LoadDisputes
<1> HIDE DEF all
<1> QED BY <1>2, <1>4, FS_Subset

\* A fee event as it is loaded for everyone.
FeeOf(f) ==
    IntoFee(rows, Everyone, f, {o \in LoadOrders(rows, Everyone) : o.order_id = f.key})

\* The dev fees are one per fee event, and finite.
LEMMA FeesLoaded ==
    ASSUME Stored
    PROVE  /\ LoadFees(rows, Everyone) = {FeeOf(f) : f \in OfKind(rows, "dev_fee")}
           /\ IsFiniteSet(LoadFees(rows, Everyone))
<1> DEFINE V == OfKind(rows, "dev_fee")
           g == [f \in V |-> FeeOf(f)]
<1>1. \A f \in V : InScope(Everyone, f)
  BY DEF InScope, Everyone
<1>2. LoadFees(rows, Everyone) = {FeeOf(f) : f \in V}
  <2>1. {f \in V : InScope(Everyone, f)} = V
    BY <1>1
  <2>2. Everyone = [pubkey |-> None, networks |-> {}]
    BY DEF Everyone
  <2> QED BY <2>1, <2>2 DEF LoadFees, FeeOf
<1>3. IsFiniteSet(V)
  BY LoadFinite
<1>4. IsFiniteSet({g[f] : f \in V})
  BY <1>3, ColumnFinite
<1>5. {g[f] : f \in V} = {FeeOf(f) : f \in V}
  OBVIOUS
<1> QED BY <1>2, <1>4, <1>5

\* The earliest of some rows, if there are any, is when one of them was seen.
LEMMA EarliestIsSeen ==
    ASSUME NEW V \in SUBSET Versions
    PROVE  \/ V = {} /\ Earliest(V) = None
           \/ /\ V # {} /\ Earliest(V) \in Instants /\ Earliest(V) \in Nat
              /\ \E v \in V : v.at = Earliest(V)
              /\ \A v \in V : Earliest(V) <= v.at
<1>1. CASE V = {}
  BY <1>1 DEF Earliest
<1>2. CASE V # {}
  <2> DEFINE times == {v.at : v \in V}
  <2>1. times \in SUBSET Nat /\ times # {} /\ \A v \in V : v.at \in Instants
    BY <1>2, RowsDated, FiguresAssumption
  <2>2. Min(times) \in times /\ \A y \in times : Min(times) <= y
    BY <2>1, MinType
  <2>3. PICK v \in V : v.at = Min(times)
    BY <2>2
  <2>4. Earliest(V) = Min(times)
    BY <1>2 DEF Earliest
  <2> QED BY <1>2, <2>1, <2>2, <2>3, <2>4
<1> QED BY <1>1, <1>2

\* A moment an order has reached is an instant, and one of its versions was
\* seen at it.
LEMMA ReachedIsSeen ==
    ASSUME Stored, NEW k, NEW s
    PROVE  \/ Reached(rows, k, s) = None
           \/ /\ Reached(rows, k, s) \in Instants /\ Reached(rows, k, s) \in Nat
              /\ \E v \in Life(rows, k) : v.status = s /\ v.at = Reached(rows, k, s)
<1> DEFINE V == {v \in Life(rows, k) : v.status = s}
<1>1. V \in SUBSET Versions
  BY DEF Stored, Life, OfKind
<1>2. Reached(rows, k, s) = Earliest(V)
  BY DEF Reached
<1> HIDE DEF V
<1>3. \/ Earliest(V) = None
      \/ /\ Earliest(V) \in Instants /\ Earliest(V) \in Nat
         /\ \E v \in V : v.at = Earliest(V)
  BY <1>1, EarliestIsSeen
<1> QED BY <1>2, <1>3 DEF V

\* The fields of an order: it was created at an instant, and each moment it
\* reached is one.
LEMMA OrderFields ==
    ASSUME Stored, NEW o \in LoadOrders(rows, Everyone)
    PROVE  /\ o.created_at \in Instants /\ o.created_at \in Nat
           /\ o.success_at \in Nat \cup {None}
           /\ o.success_at # None => o.success_at \in Instants
           /\ o.canceled_at \in Nat \cup {None}
           /\ o.amount_sats \in Nat /\ o.direction \in {"buy", "sell"}
           /\ o.status \in OrderStatuses
<1>1. PICK k \in KeysOf(rows, "order") : o = LoadOrder(rows, k)
  BY DEF LoadOrders
<1> DEFINE V == Life(rows, k)
<1>2. V \subseteq Versions /\ V # {} /\ \A v \in V : v.kind = "order"
  BY DEF Stored, Life, KeysOf, OfKind
<1>3. Last(V) \in V
  BY <1>2, LastIsLatest
<1>4. /\ o.amount_sats = Last(V).sats /\ o.direction = Last(V).direction
      /\ o.status = Last(V).status /\ o.created_at = CreatedAt(V)
  BY <1>1 DEF LoadOrder, OrderOf, IntoOrder, Life
<1>5. o.success_at = Reached(rows, k, "success") /\ o.canceled_at = Reached(rows, k, "canceled")
  BY <1>1, TerminalOf
<1>6. o.created_at \in Nat
  BY CreatedAtNumber
<1>7. o.created_at \in Instants
  <2> DEFINE times == {v.at : v \in V} \cup ({v.stamp : v \in V} \ {None})
  <2>1. times \in SUBSET Nat
    <3>1. \A v \in V : v.at \in Nat /\ v.stamp \in Nat \cup {None}
      BY <1>2, RowsDated, FiguresAssumption
    <3> QED BY <3>1
  <2>2. PICK v \in V : v.at \in times
    BY <1>2
  <2>3. Min(times) <= v.at
    BY <2>1, <2>2, MinType
  <2>4. o.created_at = Min(times)
    BY <1>4 DEF CreatedAt
  <2>5. v.at \in Nat /\ v.at < Eternity
    BY <1>2, RowsDated
  <2> QED BY <1>6, <2>3, <2>4, <2>5, RowsDated DEF Instants
<1> HIDE DEF V
<1>8. Last(V).sats \in Nat /\ Last(V).direction \in {"buy", "sell"} /\ Last(V).status \in OrderStatuses
  BY <1>2, <1>3, FiguresAssumption
<1> QED BY <1>4, <1>5, <1>6, <1>7, <1>8, ReachedIsSeen

\* The fields of a dispute: it was opened at a number, and settled at one.
LEMMA DisputeFields ==
    ASSUME Stored, NEW d \in LoadDisputes(rows, Everyone)
    PROVE  d.opened_at \in Nat /\ d.resolved_at \in Nat \cup {None}
<1>1. PICK k \in KeysOf(rows, "dispute") : d = LoadDispute(rows, k)
  BY DEF LoadDisputes
<1> DEFINE V == {v \in OfKind(rows, "dispute") : v.key = k}
           stamped == {v \in V : v.stamp # None}
           resolved == {v \in V : v.status \in Terminals}
<1>2. /\ d.opened_at = IF stamped = {} THEN Earliest(V) ELSE Last(stamped).stamp
      /\ d.resolved_at = Earliest(resolved)
  BY <1>1 DEF LoadDispute
<1>3. /\ V \in SUBSET Versions /\ V # {} /\ \A v \in V : v.kind = "dispute"
      /\ stamped \subseteq V /\ resolved \subseteq V
  BY DEF Stored, KeysOf, OfKind
<1>4. \A v \in stamped : v.stamp \in Nat
  BY <1>3, FiguresAssumption
<1> HIDE DEF V, stamped, resolved
<1>5. d.resolved_at \in Nat \cup {None}
  BY <1>2, <1>3, EarliestIsSeen
<1>6. CASE stamped = {}
  BY <1>2, <1>3, <1>5, <1>6, EarliestIsSeen
<1>7. CASE stamped # {}
  <2>1. Last(stamped) \in stamped
    BY <1>3, <1>7, LastIsLatest
  <2> QED BY <1>2, <1>4, <1>5, <1>7, <2>1
<1> QED BY <1>6, <1>7

\* The fields of a fee.
LEMMA FeeFields ==
    ASSUME Stored, NEW f \in LoadFees(rows, Everyone)
    PROVE  f.created_at \in Nat /\ f.amount_sats \in Nat
<1>1. PICK v \in OfKind(rows, "dev_fee") : f = FeeOf(v)
  BY FeesLoaded
<1>2. f.created_at = v.at /\ f.amount_sats = v.sats
  BY <1>1 DEF FeeOf, IntoFee
<1>3. v \in Versions /\ v.kind = "dev_fee"
  BY DEF OfKind, Stored
<1> QED BY <1>2, <1>3, RowsDated, FiguresAssumption

-----------------------------------------------------------------------------
(* The columns of a table.                                                 *)

\* B cuts w into windows that do not overlap.
Cut(w, B) ==
    /\ IsFiniteSet(B)
    /\ \A t \in Nat : Contains(w, t) <=> \E b \in B : Contains(b, t)
    /\ \A b, c \in B : b # c => b.until <= c.from \/ c.until <= b.from
    /\ \A b \in B : b.from \in Nat /\ b.until \in Nat

\* The buckets of a window a report is asked for cut it.
LEMMA SpansCut ==
    ASSUME NEW w \in Spans, NEW period \in {"day", "week", "month"}
    PROVE  Cut(w, Buckets(w, period))
<1>1. w.from \in Instants /\ w.until \in Instants
  BY FiguresAssumption
<1>2. \E t \in Openings(period) : w.until <= t
  BY FiguresAssumption
<1>3. \E t \in Openings(period) : t <= w.from
  <2>1. CASE period = "week"
    BY <2>1, FiguresAssumption
  <2>2. CASE period = "day"
    <3>1. PICK t \in Openings("week") : t <= w.from
      BY FiguresAssumption
    <3>2. t \in Openings("day")
      BY <3>1 DEF Openings
    <3> QED BY <2>2, <3>1, <3>2
  <2>3. CASE period = "month"
    <3>1. 1 \in Months /\ MonthStart[1] = 0
      <4>1. Len(MonthStart) \in Nat /\ Len(MonthStart) > 1
        BY CalendarAssumption
      <4> QED BY <4>1, CalendarAssumption DEF Months
    <3>2. 0 \in Openings("month")
      BY <3>1 DEF Openings
    <3>3. 0 <= w.from
      BY <1>1 DEF Instants
    <3> QED BY <2>3, <3>2, <3>3
  <2> QED BY <2>1, <2>2, <2>3
<1>4. period \in Periods
  BY DEF Periods
<1> HIDE DEF Cut
<1>5. /\ IsFiniteSet(Buckets(w, period))
      /\ \A t \in Nat : Contains(w, t) <=> \E b \in Buckets(w, period) : Contains(b, t)
      /\ \A b, c \in Buckets(w, period) : b # c => b.until <= c.from \/ c.until <= b.from
      /\ \A b \in Buckets(w, period) : b.from \in Nat /\ b.until \in Nat
  BY <1>1, <1>2, <1>3, <1>4, BucketsPartition
<1> QED BY <1>5 DEF Cut

\* An instant is in one window of a cut at most.
LEMMA CutApart ==
    ASSUME NEW w, NEW B, Cut(w, B), NEW b \in B, NEW c \in B, NEW t \in Nat,
           Contains(b, t), Contains(c, t)
    PROVE  b = c
<1> SUFFICES ASSUME b # c PROVE FALSE
  OBVIOUS
<1>1. b.until <= c.from \/ c.until <= b.from
  BY DEF Cut
<1>2. b.from \in Nat /\ b.until \in Nat /\ c.from \in Nat /\ c.until \in Nat
  BY DEF Cut
<1>3. t >= b.from /\ t < b.until /\ t >= c.from /\ t < c.until
  BY DEF Contains
<1> QED BY <1>1, <1>2, <1>3

\* What is dated in a window is divided by the windows that cut it.
LEMMA CutDivides ==
    ASSUME NEW w, NEW B, Cut(w, B), NEW D, IsFiniteSet(D),
           NEW when, \A x \in D : when[x] \in Nat \cup {None}
    PROVE  LET part(b) == {x \in D : Dated(when[x], b)}
           IN  /\ IsFiniteSet(part(w)) /\ \A b \in B : part(b) \subseteq part(w)
               /\ \A y \in part(w) : \E b \in B : y \in part(b)
               /\ \A b, c \in B : b # c => part(b) \cap part(c) = {}
<1> DEFINE part(b) == {x \in D : Dated(when[x], b)}
<1>1. \A x \in D : Dated(when[x], w) <=> \E b \in B : Dated(when[x], b)
  <2> SUFFICES ASSUME NEW x \in D, when[x] # None
               PROVE  Contains(w, when[x]) <=> \E b \in B : Contains(b, when[x])
    BY DEF Dated
  <2>1. when[x] \in Nat
    OBVIOUS
  <2> QED BY <2>1 DEF Cut
<1>2. ASSUME NEW b \in B, NEW c \in B, b # c PROVE part(b) \cap part(c) = {}
  <2> SUFFICES ASSUME NEW x \in D, Dated(when[x], b), Dated(when[x], c) PROVE FALSE
    OBVIOUS
  <2>1. when[x] \in Nat /\ Contains(b, when[x]) /\ Contains(c, when[x])
    BY DEF Dated
  <2> QED BY <1>2, <2>1, CutApart
<1>3. IsFiniteSet(part(w))
  BY FS_Subset
<1> QED BY <1>1, <1>2, <1>3

\* They share it out by number.
LEMMA CutCounts ==
    ASSUME NEW w, NEW B, Cut(w, B), NEW D, IsFiniteSet(D),
           NEW when, \A x \in D : when[x] \in Nat \cup {None}
    PROVE  Total([b \in B |-> Cardinality({x \in D : Dated(when[x], b)})])
           = Cardinality({x \in D : Dated(when[x], w)})
<1> DEFINE part(b) == {x \in D : Dated(when[x], b)}
           p == [b \in B |-> part(b)]
<1>1. /\ IsFiniteSet(part(w)) /\ \A b \in B : part(b) \subseteq part(w)
      /\ \A y \in part(w) : \E b \in B : y \in part(b)
      /\ \A b, c \in B : b # c => part(b) \cap part(c) = {}
  BY CutDivides
<1>2. IsFiniteSet(B)
  BY DEF Cut
<1> HIDE DEF part
<1>3. \A b \in B : p[b] = part(b)
  OBVIOUS
<1>4. /\ \A b \in B : p[b] \subseteq part(w)
      /\ \A y \in part(w) : \E b \in B : y \in p[b]
      /\ \A b, c \in B : b # c => p[b] \cap p[c] = {}
  BY <1>1, <1>3
<1> HIDE DEF p
<1>5. Added([b \in B |-> Cardinality(p[b])]) = Cardinality(part(w))
  BY <1>1, <1>2, <1>4, CountedParts
<1>6. [b \in B |-> Cardinality(p[b])] = [b \in B |-> Cardinality(part(b))]
  BY <1>3
<1> QED BY <1>5, <1>6, TotalAdded DEF part

\* And by value.
LEMMA CutAdds ==
    ASSUME NEW w, NEW B, Cut(w, B), NEW D, IsFiniteSet(D),
           NEW when, \A x \in D : when[x] \in Nat \cup {None}, NEW f, Ints(f, D)
    PROVE  Total([b \in B |-> Total(Narrowed(f, {x \in D : Dated(when[x], b)}))])
           = Total(Narrowed(f, {x \in D : Dated(when[x], w)}))
<1> DEFINE part(b) == {x \in D : Dated(when[x], b)}
           p == [b \in B |-> part(b)]
<1>1. /\ IsFiniteSet(part(w)) /\ \A b \in B : part(b) \subseteq part(w)
      /\ \A y \in part(w) : \E b \in B : y \in part(b)
      /\ \A b, c \in B : b # c => part(b) \cap part(c) = {}
  BY CutDivides
<1>2. IsFiniteSet(B)
  BY DEF Cut
<1>3. \A x \in part(w) : f[x] \in Int
  BY DEF Ints
<1> HIDE DEF part
<1>4. \A b \in B : p[b] = part(b)
  OBVIOUS
<1>5. /\ \A b \in B : p[b] \subseteq part(w)
      /\ \A y \in part(w) : \E b \in B : y \in p[b]
      /\ \A b, c \in B : b # c => p[b] \cap p[c] = {}
  BY <1>1, <1>4
<1> HIDE DEF p
<1>6. Added([b \in B |-> Added(Narrowed(f, p[b]))]) = Added(Narrowed(f, part(w)))
  BY <1>1, <1>2, <1>3, <1>5, AddedParts
<1>7. [b \in B |-> Added(Narrowed(f, p[b]))] = [b \in B |-> Total(Narrowed(f, part(b)))]
  BY <1>4, TotalAdded
<1> QED BY <1>6, <1>7, TotalAdded DEF part

\* The seven tallies of a window.
LEMMA TalliesOf ==
    ASSUME NEW w
    PROVE  LET data   == SnapshotData(rows, now)
               orders == LoadOrders(rows, Everyone)
           IN  Tallies(data, w) =
                  << Cardinality(CreatedOver(orders, w)), Cardinality(CompletedOver(orders, w)),
                     Cardinality(CanceledOver(orders, w)),
                     Cardinality(OpenedOver(DisputeData(rows, Everyone), w)),
                     Cardinality(ResolvedOver(DisputeData(rows, Everyone), w)),
                     Cardinality(Canonical(DevFeeData(rows, Everyone), w)),
                     SumOver(Canonical(DevFeeData(rows, Everyone), w), LAMBDA f : f.amount_sats) >>
<1> DEFINE data == SnapshotData(rows, now)
<1>1. /\ data.orders = LoadOrders(rows, Everyone) /\ data.fees = DevFeeData(rows, Everyone)
      /\ data.disputes = DisputeData(rows, Everyone)
  BY DEF SnapshotData
<1> HIDE DEF data
<1>2. \A orders : /\ DatedActivity(orders, w, None).created = Cardinality(CreatedOver(orders, w))
                  /\ DatedActivity(orders, w, None).completed = Cardinality(CompletedOver(orders, w))
                  /\ DatedActivity(orders, w, None).canceled = Cardinality(CanceledOver(orders, w))
  BY DEF DatedActivity, CountsOver
<1>3. \A d : /\ DatedDisputes(d, w).opened = Cardinality(OpenedOver(d, w))
             /\ DatedDisputes(d, w).resolved = Cardinality(ResolvedOver(d, w))
  BY DEF DatedDisputes
<1>4. \A d : /\ SummariseDevFees(d, w).paid = Cardinality(Canonical(d, w))
             /\ SummariseDevFees(d, w).total_sats = SumOver(Canonical(d, w), LAMBDA f : f.amount_sats)
  BY DEF SummariseDevFees
<1> QED BY <1>1, <1>2, <1>3, <1>4 DEF Tallies, data

\* The counts of orders, disputes and fees over the windows that cut another
\* add up to those over it.
LEMMA CountsAdd ==
    ASSUME Stored, NEW w, NEW B, Cut(w, B)
    PROVE  LET orders   == LoadOrders(rows, Everyone)
               disputes == DisputeData(rows, Everyone)
               fees     == DevFeeData(rows, Everyone)
           IN  /\ Total([b \in B |-> Cardinality(CreatedOver(orders, b))])
                  = Cardinality(CreatedOver(orders, w))
               /\ Total([b \in B |-> Cardinality(CompletedOver(orders, b))])
                  = Cardinality(CompletedOver(orders, w))
               /\ Total([b \in B |-> Cardinality(CanceledOver(orders, b))])
                  = Cardinality(CanceledOver(orders, w))
               /\ Total([b \in B |-> Cardinality(OpenedOver(disputes, b))])
                  = Cardinality(OpenedOver(disputes, w))
               /\ Total([b \in B |-> Cardinality(ResolvedOver(disputes, b))])
                  = Cardinality(ResolvedOver(disputes, w))
               /\ Total([b \in B |-> Cardinality(Canonical(fees, b))])
                  = Cardinality(Canonical(fees, w))
               /\ Total([b \in B |-> SumOver(Canonical(fees, b), LAMBDA f : f.amount_sats)])
                  = SumOver(Canonical(fees, w), LAMBDA f : f.amount_sats)
<1> DEFINE orders   == LoadOrders(rows, Everyone)
           disputes == DisputeData(rows, Everyone)
           fees     == DevFeeData(rows, Everyone)
<1>1. None \notin Nat
  BY RowsDated
<1>2. IsFiniteSet(orders) /\ IsFiniteSet(disputes.disputes) /\ IsFiniteSet(fees.fees)
  BY OrdersFinite, DisputesFinite, FeesLoaded DEF DisputeData, DevFeeData
<1>3. /\ \A o \in orders : /\ o.created_at \in Nat /\ o.success_at \in Nat \cup {None}
                           /\ o.canceled_at \in Nat \cup {None}
      /\ \A d \in disputes.disputes : d.opened_at \in Nat /\ d.resolved_at \in Nat \cup {None}
      /\ \A f \in fees.fees : f.created_at \in Nat /\ f.amount_sats \in Nat
  <2>1. \A o \in orders : /\ o.created_at \in Nat /\ o.success_at \in Nat \cup {None}
                          /\ o.canceled_at \in Nat \cup {None}
    <3> SUFFICES ASSUME NEW o \in orders
                 PROVE  /\ o.created_at \in Nat /\ o.success_at \in Nat \cup {None}
                        /\ o.canceled_at \in Nat \cup {None}
      OBVIOUS
    <3> QED BY OrderFields
  <2>2. disputes.disputes = LoadDisputes(rows, Everyone) /\ fees.fees = LoadFees(rows, Everyone)
    BY DEF DisputeData, DevFeeData
  <2> HIDE DEF orders, disputes, fees
  <2> QED BY <2>1, <2>2, DisputeFields, FeeFields
<1> HIDE DEF orders, disputes, fees
<1>4. Total([b \in B |-> Cardinality(CreatedOver(orders, b))]) = Cardinality(CreatedOver(orders, w))
  <2> DEFINE when == [o \in orders |-> o.created_at]
  <2>1. \A o \in orders : when[o] \in Nat \cup {None}
    BY <1>3
  <2>2. \A b : {o \in orders : Dated(when[o], b)} = CreatedOver(orders, b)
    BY <1>1, <1>3 DEF Dated, CreatedOver
  <2> HIDE DEF when
  <2>3. Total([b \in B |-> Cardinality({o \in orders : Dated(when[o], b)})])
        = Cardinality({o \in orders : Dated(when[o], w)})
    BY <1>2, <2>1, CutCounts
  <2> QED BY <2>2, <2>3
<1>5. Total([b \in B |-> Cardinality(CompletedOver(orders, b))]) = Cardinality(CompletedOver(orders, w))
  <2> DEFINE D == {o \in orders : o.status = "success"}
             when == [o \in D |-> o.success_at]
  <2>1. \A o \in D : when[o] \in Nat \cup {None}
    BY <1>3
  <2>2. \A b : {o \in D : Dated(when[o], b)} = CompletedOver(orders, b)
    BY DEF CompletedOver
  <2>3. IsFiniteSet(D)
    BY <1>2, FS_Subset
  <2> HIDE DEF D, when
  <2>4. Total([b \in B |-> Cardinality({o \in D : Dated(when[o], b)})])
        = Cardinality({o \in D : Dated(when[o], w)})
    BY <2>1, <2>3, CutCounts
  <2> QED BY <2>2, <2>4
<1>6. Total([b \in B |-> Cardinality(CanceledOver(orders, b))]) = Cardinality(CanceledOver(orders, w))
  <2> DEFINE D == {o \in orders : o.status = "canceled"}
             when == [o \in D |-> o.canceled_at]
  <2>1. \A o \in D : when[o] \in Nat \cup {None}
    BY <1>3
  <2>2. \A b : {o \in D : Dated(when[o], b)} = CanceledOver(orders, b)
    BY DEF CanceledOver
  <2>3. IsFiniteSet(D)
    BY <1>2, FS_Subset
  <2> HIDE DEF D, when
  <2>4. Total([b \in B |-> Cardinality({o \in D : Dated(when[o], b)})])
        = Cardinality({o \in D : Dated(when[o], w)})
    BY <2>1, <2>3, CutCounts
  <2> QED BY <2>2, <2>4
<1>7. Total([b \in B |-> Cardinality(OpenedOver(disputes, b))]) = Cardinality(OpenedOver(disputes, w))
  <2> DEFINE D == disputes.disputes
             when == [d \in D |-> d.opened_at]
  <2>1. \A d \in D : when[d] \in Nat \cup {None}
    BY <1>3
  <2>2. \A b : {d \in D : Dated(when[d], b)} = OpenedOver(disputes, b)
    BY <1>1, <1>3 DEF Dated, OpenedOver
  <2> HIDE DEF D, when
  <2>3. Total([b \in B |-> Cardinality({d \in D : Dated(when[d], b)})])
        = Cardinality({d \in D : Dated(when[d], w)})
    <3>1. IsFiniteSet(D)
      BY <1>2 DEF D
    <3> QED BY <2>1, <3>1, CutCounts
  <2> QED BY <2>2, <2>3
<1>8. Total([b \in B |-> Cardinality(ResolvedOver(disputes, b))]) = Cardinality(ResolvedOver(disputes, w))
  <2> DEFINE D == disputes.disputes
             when == [d \in D |-> d.resolved_at]
  <2>1. \A d \in D : when[d] \in Nat \cup {None}
    BY <1>3
  <2>2. \A b : {d \in D : Dated(when[d], b)} = ResolvedOver(disputes, b)
    BY DEF ResolvedOver
  <2> HIDE DEF D, when
  <2>3. Total([b \in B |-> Cardinality({d \in D : Dated(when[d], b)})])
        = Cardinality({d \in D : Dated(when[d], w)})
    <3>1. IsFiniteSet(D)
      BY <1>2 DEF D
    <3> QED BY <2>1, <3>1, CutCounts
  <2> QED BY <2>2, <2>3
<1>9. /\ Total([b \in B |-> Cardinality(Canonical(fees, b))]) = Cardinality(Canonical(fees, w))
      /\ Total([b \in B |-> SumOver(Canonical(fees, b), LAMBDA f : f.amount_sats)])
         = SumOver(Canonical(fees, w), LAMBDA f : f.amount_sats)
  <2> DEFINE D == {f \in fees.fees : ~f.is_duplicate}
             when == [f \in D |-> f.created_at]
             sats == [f \in D |-> f.amount_sats]
  <2>1. \A f \in D : when[f] \in Nat \cup {None} /\ sats[f] \in Int
    BY <1>3
  <2>2. \A b : {f \in D : Dated(when[f], b)} = Canonical(fees, b)
    BY <1>1, <1>3 DEF Dated, Canonical
  <2>3. IsFiniteSet(D)
    BY <1>2, FS_Subset
  <2>4. \A b : SumOver(Canonical(fees, b), LAMBDA f : f.amount_sats)
               = Total(Narrowed(sats, {f \in D : Dated(when[f], b)}))
    <3> SUFFICES ASSUME NEW b
                 PROVE  SumOver(Canonical(fees, b), LAMBDA f : f.amount_sats)
                        = Total(Narrowed(sats, Canonical(fees, b)))
      BY <2>2
    <3>1. Canonical(fees, b) \subseteq D
      BY DEF Canonical
    <3>2. [f \in Canonical(fees, b) |-> f.amount_sats] = Narrowed(sats, Canonical(fees, b))
      BY <3>1 DEF Narrowed
    <3> QED BY <3>2 DEF SumOver
  <2> HIDE DEF D, when, sats
  <2>5. Total([b \in B |-> Cardinality({f \in D : Dated(when[f], b)})])
        = Cardinality({f \in D : Dated(when[f], w)})
    BY <2>1, <2>3, CutCounts
  <2>6. Total([b \in B |-> Total(Narrowed(sats, {f \in D : Dated(when[f], b)}))])
        = Total(Narrowed(sats, {f \in D : Dated(when[f], w)}))
    <3>1. Ints(sats, D)
      BY <2>1 DEF Ints
    <3>2. \A x \in D : when[x] \in Nat \cup {None}
      BY <2>1
    <3> QED BY <2>3, <3>1, <3>2, CutAdds
  <2>7. Total([b \in B |-> Cardinality(Canonical(fees, b))]) = Cardinality(Canonical(fees, w))
    BY <2>2, <2>5
  <2>8. [b \in B |-> SumOver(Canonical(fees, b), LAMBDA f : f.amount_sats)]
        = [b \in B |-> Total(Narrowed(sats, {f \in D : Dated(when[f], b)}))]
    BY <2>4
  <2> QED BY <2>4, <2>6, <2>7, <2>8
<1> QED BY <1>4, <1>5, <1>6, <1>7, <1>8, <1>9 DEF orders, disputes, fees

\* The hours of a day, or the days of a week, share out what was created and
\* what was completed: every order was, at an instant that falls in one.
LEMMA HistogramAdds ==
    ASSUME Stored, NEW w, NEW n \in Nat, NEW bucket \in [Instants -> 0 .. n - 1]
    PROVE  LET orders == LoadOrders(rows, Everyone)
               h      == Histogram(orders, w, bucket, n)
           IN  /\ Total([b \in 0 .. n - 1 |-> h[b].created]) = Cardinality(CreatedOver(orders, w))
               /\ Total([b \in 0 .. n - 1 |-> h[b].completed]) = Cardinality(CompletedOver(orders, w))
<1> DEFINE orders == LoadOrders(rows, Everyone)
           h == Histogram(orders, w, bucket, n)
           B == 0 .. n - 1
           C == CreatedOver(orders, w)
           S == CompletedOver(orders, w)
           c == [b \in B |-> {o \in C : o.created_at \in DOMAIN bucket /\ bucket[o.created_at] = b}]
           s == [b \in B |-> {o \in S : o.success_at \in DOMAIN bucket /\ bucket[o.success_at] = b}]
<1>1. \A b \in B : h[b].created = Cardinality(c[b]) /\ h[b].completed = Cardinality(s[b])
  BY DEF Histogram
<1>2. IsFiniteSet(B)
  BY FS_Interval
<1>3. IsFiniteSet(C) /\ IsFiniteSet(S)
  <2>1. C \subseteq orders /\ S \subseteq orders
    BY DEF CreatedOver, CompletedOver
  <2> HIDE DEF C, S, orders
  <2> QED BY <2>1, OrdersFinite, FS_Subset DEF orders
<1>4. \A o \in C : o.created_at \in Instants
  <2> SUFFICES ASSUME NEW o \in orders PROVE o.created_at \in Instants
    BY DEF CreatedOver
  <2> QED BY OrderFields
<1>5. \A o \in S : o.success_at \in Instants
  <2> SUFFICES ASSUME NEW o \in orders, o.success_at # None PROVE o.success_at \in Instants
    BY DEF CompletedOver, Dated
  <2> QED BY OrderFields
<1> HIDE DEF h, C, S
<1>6. /\ \A b \in B : c[b] \subseteq C
      /\ \A b, d \in B : b # d => c[b] \cap c[d] = {}
      /\ \A o \in C : \E b \in B : o \in c[b]
  BY <1>4
<1>7. /\ \A b \in B : s[b] \subseteq S
      /\ \A b, d \in B : b # d => s[b] \cap s[d] = {}
      /\ \A o \in S : \E b \in B : o \in s[b]
  BY <1>5
<1> HIDE DEF c, s, B
<1>8. Added([b \in B |-> Cardinality(c[b])]) = Cardinality(C)
  BY <1>2, <1>3, <1>6, CountedParts
<1>9. Added([b \in B |-> Cardinality(s[b])]) = Cardinality(S)
  BY <1>2, <1>3, <1>7, CountedParts
<1>10. /\ [b \in B |-> Cardinality(c[b])] = [b \in B |-> h[b].created]
       /\ [b \in B |-> Cardinality(s[b])] = [b \in B |-> h[b].completed]
  BY <1>1
<1> QED BY <1>8, <1>9, <1>10, TotalAdded DEF h, B, C, S

\* The first two of seven.
LEMMA FirstTwo ==
    ASSUME NEW x, NEW y, NEW a, NEW b, NEW c, NEW d, NEW e
    PROVE  SubSeq(<<x, y, a, b, c, d, e>>, 1, 2) = <<x, y>>
<1> DEFINE s == <<x, y, a, b, c, d, e>>
           r == SubSeq(s, 1, 2)
           S == {x, y, a, b, c, d, e}
<1>1. s \in Seq(S) /\ Len(s) = 7 /\ s[1] = x /\ s[2] = y
  OBVIOUS
<1> HIDE DEF s, S
<1>2. r \in Seq(S) /\ Len(r) = 2 /\ r[1] = x /\ r[2] = y
  BY <1>1
<1> HIDE DEF r
<1>3. r = <<r[1], r[2]>>
  BY <1>2
<1> QED BY <1>2, <1>3 DEF r, s

\* Parts that add up one figure at a time add up.
LEMMA AddUpBy ==
    ASSUME NEW B, NEW part, NEW whole, DOMAIN part = B,
           \A i \in DOMAIN whole : Total([b \in B |-> part[b][i]]) = whole[i]
    PROVE  AddUp(part, whole)
BY DEF AddUp, SumOver

\* The columns of a table cut from a window.
LEMMA TableAddsUp ==
    ASSUME Stored, NEW w, NEW B, Cut(w, B)
    PROVE  AddUp([b \in B |-> Tallies(SnapshotData(rows, now), b)],
                 Tallies(SnapshotData(rows, now), w))
<1> DEFINE orders   == LoadOrders(rows, Everyone)
           disputes == DisputeData(rows, Everyone)
           fees     == DevFeeData(rows, Everyone)
           t1(b) == Cardinality(CreatedOver(orders, b))
           t2(b) == Cardinality(CompletedOver(orders, b))
           t3(b) == Cardinality(CanceledOver(orders, b))
           t4(b) == Cardinality(OpenedOver(disputes, b))
           t5(b) == Cardinality(ResolvedOver(disputes, b))
           t6(b) == Cardinality(Canonical(fees, b))
           t7(b) == SumOver(Canonical(fees, b), LAMBDA f : f.amount_sats)
           whole == Tallies(SnapshotData(rows, now), w)
           part == [b \in B |-> Tallies(SnapshotData(rows, now), b)]
<1>1. \A b : Tallies(SnapshotData(rows, now), b)
             = <<t1(b), t2(b), t3(b), t4(b), t5(b), t6(b), t7(b)>>
  BY TalliesOf
<1>2. /\ Total([b \in B |-> t1(b)]) = t1(w) /\ Total([b \in B |-> t2(b)]) = t2(w)
      /\ Total([b \in B |-> t3(b)]) = t3(w) /\ Total([b \in B |-> t4(b)]) = t4(w)
      /\ Total([b \in B |-> t5(b)]) = t5(w) /\ Total([b \in B |-> t6(b)]) = t6(w)
      /\ Total([b \in B |-> t7(b)]) = t7(w)
  BY CountsAdd
<1> HIDE DEF t1, t2, t3, t4, t5, t6, t7
<1>3. DOMAIN whole = 1 .. 7 /\ DOMAIN part = B
  BY <1>1
<1>4. \A b \in B : part[b] = <<t1(b), t2(b), t3(b), t4(b), t5(b), t6(b), t7(b)>>
  BY <1>1
<1>5. whole = <<t1(w), t2(w), t3(w), t4(w), t5(w), t6(w), t7(w)>>
  BY <1>1
<1> HIDE DEF whole, part
<1>6. /\ [b \in B |-> part[b][1]] = [b \in B |-> t1(b)] /\ [b \in B |-> part[b][2]] = [b \in B |-> t2(b)]
      /\ [b \in B |-> part[b][3]] = [b \in B |-> t3(b)] /\ [b \in B |-> part[b][4]] = [b \in B |-> t4(b)]
      /\ [b \in B |-> part[b][5]] = [b \in B |-> t5(b)] /\ [b \in B |-> part[b][6]] = [b \in B |-> t6(b)]
      /\ [b \in B |-> part[b][7]] = [b \in B |-> t7(b)]
  BY <1>4
<1>7. /\ whole[1] = t1(w) /\ whole[2] = t2(w) /\ whole[3] = t3(w) /\ whole[4] = t4(w)
      /\ whole[5] = t5(w) /\ whole[6] = t6(w) /\ whole[7] = t7(w)
  BY <1>5
<1>8. ASSUME NEW i \in DOMAIN whole PROVE Total([b \in B |-> part[b][i]]) = whole[i]
  <2>1. i = 1 \/ i = 2 \/ i = 3 \/ i = 4 \/ i = 5 \/ i = 6 \/ i = 7
    BY <1>3
  <2> QED BY <1>2, <1>6, <1>7, <2>1
<1>9. AddUp(part, whole)
  BY <1>3, <1>8, AddUpBy
<1> QED BY <1>9 DEF part, whole

\* A table --by month, day or week, and the hours and weekdays of histogram,
\* add up to the same report without --by (window.rs, activity.rs): for every
\* archive, every calendar and every window that is asked for.
THEOREM ColumnsAddUpCorrect == Spec => []ColumnsAddUp
<1>1. Stored => ColumnsAddUp
  <2> SUFFICES ASSUME Stored PROVE ColumnsAddUp
    OBVIOUS
  <2> DEFINE data == SnapshotData(rows, now)
             orders == LoadOrders(rows, Everyone)
             hist(w, by) == OrdersReport(data.orders, w, now, by, Extent(rows))
             cols(w, by) == [b \in DOMAIN hist(w, by) |->
                                <<hist(w, by)[b].created, hist(w, by)[b].completed>>]
  <2>1. ASSUME NEW w \in Spans, NEW period \in {"day", "week", "month"}
        PROVE  AddUp([b \in Buckets(w, period) |-> Tallies(data, b)], Tallies(data, w))
    BY SpansCut, TableAddsUp
  <2>2. ASSUME NEW w \in Spans, NEW by \in {"hour", "weekday"}
        PROVE  AddUp(cols(w, by), SubSeq(Tallies(data, w), 1, 2))
    <3> DEFINE bucket == IF by = "hour" THEN HourOf ELSE WeekdayOf
               n == IF by = "hour" THEN DAY ELSE WEEK
               whole == SubSeq(Tallies(data, w), 1, 2)
               part == cols(w, by)
               B == 0 .. n - 1
    <3>1. n \in Nat /\ bucket \in [Instants -> 0 .. n - 1]
      <4>1. DAY \in Nat \ {0} /\ WEEK \in Nat \ {0} /\ MONDAY \in Int
        BY CalendarAssumption
      <4>2. \A t \in Instants : t \in Int /\ t \div DAY \in Int
        BY <4>1 DEF Instants
      <4>3. HourOf \in [Instants -> 0 .. DAY - 1]
        BY <4>1, <4>2 DEF HourOf
      <4>4. WeekdayOf \in [Instants -> 0 .. WEEK - 1]
        <5>1. \A t \in Instants : ((t \div DAY) - MONDAY) % WEEK \in 0 .. WEEK - 1
          <6> SUFFICES ASSUME NEW t \in Instants
                       PROVE  ((t \div DAY) - MONDAY) % WEEK \in 0 .. WEEK - 1
            OBVIOUS
          <6>1. PICK d \in Int : d = (t \div DAY) - MONDAY
            BY <4>1, <4>2
          <6>2. d % WEEK \in 0 .. WEEK - 1
            BY <4>1
          <6> QED BY <6>1, <6>2
        <5> QED BY <5>1 DEF WeekdayOf
      <4> QED BY <4>1, <4>3, <4>4
    <3>2. hist(w, by) = Histogram(orders, w, bucket, n)
      <4>1. None \notin {"hour", "weekday"}
        BY FiguresAssumption
      <4>2. data.orders = orders
        BY DEF SnapshotData
      <4>3. by # None /\ by \notin {"month", "day"}
        BY <4>1
      <4> HIDE DEF data, orders
      <4> QED BY <4>2, <4>3 DEF OrdersReport
    <3> HIDE DEF bucket, n
    <3>3. /\ Total([b \in B |-> hist(w, by)[b].created]) = Cardinality(CreatedOver(orders, w))
          /\ Total([b \in B |-> hist(w, by)[b].completed]) = Cardinality(CompletedOver(orders, w))
      BY <3>1, <3>2, HistogramAdds
    <3>4. DOMAIN hist(w, by) = B
      BY <3>2 DEF Histogram
    <3>5. \E a, b, c, d, e : Tallies(data, w) = <<Cardinality(CreatedOver(orders, w)),
                Cardinality(CompletedOver(orders, w)), a, b, c, d, e>>
      BY TalliesOf
    <3>6. whole = <<Cardinality(CreatedOver(orders, w)), Cardinality(CompletedOver(orders, w))>>
      <4>1. PICK a, b, c, d, e : Tallies(data, w) = <<Cardinality(CreatedOver(orders, w)),
                Cardinality(CompletedOver(orders, w)), a, b, c, d, e>>
        BY <3>5
      <4> DEFINE x == Cardinality(CreatedOver(orders, w))
                 y == Cardinality(CompletedOver(orders, w))
      <4> HIDE DEF x, y
      <4>2. SubSeq(<<x, y, a, b, c, d, e>>, 1, 2) = <<x, y>>
        BY FirstTwo
      <4> QED BY <4>1, <4>2 DEF x, y
    <3> HIDE DEF whole, hist, B
    <3>7. /\ [b \in B |-> part[b][1]] = [b \in B |-> hist(w, by)[b].created]
          /\ [b \in B |-> part[b][2]] = [b \in B |-> hist(w, by)[b].completed]
          /\ DOMAIN part = B
      BY <3>4
    <3>8. ASSUME NEW i \in DOMAIN whole PROVE Total([b \in B |-> part[b][i]]) = whole[i]
      <4>1. i = 1 \/ i = 2
        BY <3>6
      <4>2. /\ whole[1] = Cardinality(CreatedOver(orders, w))
            /\ whole[2] = Cardinality(CompletedOver(orders, w))
        BY <3>6
      <4> QED BY <3>3, <3>7, <4>1, <4>2
    <3> HIDE DEF part
    <3>9. AddUp(part, whole)
      BY <3>7, <3>8, AddUpBy
    <3> QED BY <3>9 DEF part, whole
  <2> QED BY <2>1, <2>2 DEF ColumnsAddUp
<1> QED BY <1>1, StoredInit, RowsGrow, PTL DEF Spec

-----------------------------------------------------------------------------
(* The fees that are paid.                                                 *)

\* The first of some rows is one of them.
LEMMA FirstIsThere ==
    ASSUME NEW V \in SUBSET Versions, V # {}
    PROVE  First(V) \in V
<1> USE RowsDated
<1>1. \A v \in V : v.at \in Nat /\ v.id \in Nat
  OBVIOUS
<1> DEFINE times == {v.at : v \in V}
<1>2. PICK t \in times : \A u \in times : t <= u
  <2>1. times \in SUBSET Nat /\ times # {}
    BY <1>1
  <2> QED BY <2>1, NatLeast
<1> DEFINE ids == {v.id : v \in {w \in V : w.at = t}}
<1>3. PICK i \in ids : \A j \in ids : i <= j
  <2>1. ids \in SUBSET Nat /\ ids # {}
    BY <1>1, <1>2
  <2> QED BY <2>1, NatLeast
<1>4. PICK v \in V : v.at = t /\ v.id = i
  BY <1>3
<1>5. \A w \in V : v.at < w.at \/ (v.at = w.at /\ v.id <= w.id)
  <2> SUFFICES ASSUME NEW w \in V PROVE v.at < w.at \/ (v.at = w.at /\ v.id <= w.id)
    OBVIOUS
  <2>1. w.at \in times /\ t <= w.at
    BY <1>2
  <2>2. CASE w.at = t
    <3>1. w.id \in ids
      BY <2>2
    <3> QED BY <1>3, <1>4, <2>2, <3>1
  <2>3. CASE w.at # t
    BY <1>1, <1>4, <2>1, <2>3
  <2> QED BY <2>2, <2>3
<1> QED BY <1>4, <1>5 DEF First

\* All of time, to the last day that opens.
AllTime == Window(0, Max(Openings("day")))

\* Its days cut it, and every row is dated in it.
LEMMA AllTimeCut ==
    /\ Cut(AllTime, Buckets(AllTime, "day"))
    /\ \A v \in Versions : Contains(AllTime, v.at)
<1> DEFINE open == Openings("day")
           last == Max(open)
<1>1. open \in SUBSET Nat /\ open \subseteq Instants /\ 0 \in open
  <2>1. Eternity \in Nat /\ Eternity > 0
    <3>1. /\ Len(MonthStart) \in Nat /\ Len(MonthStart) > 1
          /\ \A i \in 1 .. Len(MonthStart) : MonthStart[i] \in Nat
      BY CalendarAssumption
    <3> DEFINE m == Len(MonthStart) - 1
    <3>2. m \in Months /\ m + 1 = Len(MonthStart) /\ MonthStart[m] \in Nat
      BY <3>1 DEF Months
    <3>3. MonthStart[m] < MonthStart[m + 1]
      BY <3>2, CalendarAssumption
    <3> QED BY <3>1, <3>2, <3>3, RowsDated DEF Eternity
  <2>2. DAY \in Nat \ {0}
    BY CalendarAssumption
  <2>3. 0 \in Instants /\ 0 % DAY = 0
    BY <2>1, <2>2 DEF Instants
  <2> QED BY <2>3 DEF Openings, Instants
<1>2. IsFiniteSet(open)
  <2>1. IsFiniteSet(Instants)
    BY RowsDated, FS_Interval DEF Instants
  <2> QED BY <1>1, <2>1, FS_Subset
<1>3. last \in open /\ \A t \in open : last >= t
  BY <1>1, <1>2, MaxType
<1>4. last \in Nat /\ last \in Instants /\ 0 \in Instants
  BY <1>1, <1>3
<1>5. AllTime = [from |-> 0, until |-> last]
  BY DEF AllTime, Window
<1>6. AllTime.from = 0 /\ AllTime.until = last
  BY <1>5
<1> HIDE DEF open, last
<1>7. /\ IsFiniteSet(Buckets(AllTime, "day"))
      /\ \A t \in Nat : Contains(AllTime, t) <=> \E b \in Buckets(AllTime, "day") : Contains(b, t)
      /\ \A b, c \in Buckets(AllTime, "day") : b # c => b.until <= c.from \/ c.until <= b.from
      /\ \A b \in Buckets(AllTime, "day") : b.from \in Nat /\ b.until \in Nat
  <2>1. \E t \in Openings("day") : t <= AllTime.from
    BY <1>1, <1>6 DEF open
  <2>2. \E t \in Openings("day") : AllTime.until <= t
    BY <1>3, <1>4, <1>6 DEF open
  <2>3. AllTime.from \in Instants /\ AllTime.until \in Instants
    BY <1>4, <1>6
  <2>4. "day" \in Periods
    BY DEF Periods
  <2> QED BY <2>1, <2>2, <2>3, <2>4, BucketsPartition
<1>8. ASSUME NEW v \in Versions PROVE Contains(AllTime, v.at)
  <2>1. PICK t \in open : v.at < t
    BY FiguresAssumption DEF open
  <2>2. v.at \in Nat /\ t \in Nat /\ last >= t
    BY <1>1, <1>3, RowsDated
  <2> QED BY <1>4, <1>6, <2>1, <2>2 DEF Contains
<1> QED BY <1>7, <1>8 DEF Cut

\* The fee of an order that counts.
FeeFor(k) == First({f \in OfKind(rows, "dev_fee") : f.key = k})

\* There is one for each order that any fee names, and it is as stored.
LEMMA FeeForKey ==
    ASSUME Stored, NEW k \in KeysOf(rows, "dev_fee")
    PROVE  /\ FeeFor(k) \in OfKind(rows, "dev_fee") /\ FeeFor(k).key = k
           /\ FeeOf(FeeFor(k)).order_id = k /\ ~FeeOf(FeeFor(k)).is_duplicate
           /\ FeeOf(FeeFor(k)).amount_sats = FeeFor(k).sats /\ FeeFor(k).sats \in Nat
<1> DEFINE V == {f \in OfKind(rows, "dev_fee") : f.key = k}
<1>1. V \in SUBSET Versions /\ V # {}
  BY DEF Stored, KeysOf, OfKind
<1>2. First(V) \in V
  BY <1>1, FirstIsThere
<1>3. FeeFor(k) \in OfKind(rows, "dev_fee") /\ FeeFor(k).key = k
  BY <1>2 DEF FeeFor
<1>4. ~IsDuplicate(rows, Everyone, FeeFor(k))
  BY <1>3 DEF IsDuplicate, FeeFor
<1>5. FeeFor(k).sats \in Nat
  BY <1>3, FiguresAssumption DEF Stored, OfKind
<1> QED BY <1>3, <1>4, <1>5 DEF FeeOf, IntoFee

\* The fees that count, over all time, are those.
LEMMA CanonicalByKey ==
    ASSUME Stored
    PROVE  Canonical(DevFeeData(rows, Everyone), AllTime)
           = {FeeOf(FeeFor(k)) : k \in KeysOf(rows, "dev_fee")}
<1> DEFINE data == DevFeeData(rows, Everyone)
           fees == OfKind(rows, "dev_fee")
           K == KeysOf(rows, "dev_fee")
<1>1. data.fees = {FeeOf(f) : f \in fees}
  BY FeesLoaded DEF DevFeeData
<1>2. \A f \in fees : /\ FeeOf(f).is_duplicate = IsDuplicate(rows, Everyone, f)
                      /\ FeeOf(f).created_at = f.at
  BY DEF FeeOf, IntoFee
<1>3. \A f \in fees : Contains(AllTime, f.at)
  BY AllTimeCut DEF Stored, OfKind
<1>4. \A f \in fees : f.key \in K /\ IsDuplicate(rows, Everyone, f) = (f # FeeFor(f.key))
  BY DEF KeysOf, IsDuplicate, FeeFor
<1>5. \A k \in K : FeeFor(k) \in fees /\ FeeFor(k).key = k
  BY FeeForKey
<1> HIDE DEF fees, K, data
<1>6. {x \in data.fees : ~x.is_duplicate /\ Contains(AllTime, x.created_at)}
      = {FeeOf(f) : f \in {g \in fees : g = FeeFor(g.key)}}
  BY <1>1, <1>2, <1>3, <1>4
<1>7. {g \in fees : g = FeeFor(g.key)} = {FeeFor(k) : k \in K}
  BY <1>4, <1>5
<1>8. {FeeOf(f) : f \in {FeeFor(k) : k \in K}} = {FeeOf(FeeFor(k)) : k \in K}
  OBVIOUS
<1> QED BY <1>6, <1>7, <1>8 DEF Canonical, data, K

\* They are as many, and come to as much, as the first fees of the orders.
LEMMA CanonicalTotals ==
    ASSUME Stored
    PROVE  LET paid == Canonical(DevFeeData(rows, Everyone), AllTime)
               K    == KeysOf(rows, "dev_fee")
           IN  /\ Cardinality(paid) = Cardinality(K)
               /\ SumOver(paid, LAMBDA f : f.amount_sats)
                  = SumOver({FeeFor(k) : k \in K}, LAMBDA f : f.sats)
<1> DEFINE paid == Canonical(DevFeeData(rows, Everyone), AllTime)
           K == KeysOf(rows, "dev_fee")
           g == [k \in K |-> FeeOf(FeeFor(k))]
           h == [k \in K |-> FeeFor(k)]
           P == {g[k] : k \in K}
           H == {h[k] : k \in K}
           owed == [f \in P |-> f.amount_sats]
           sent == [f \in H |-> f.sats]
<1>1. IsFiniteSet(K)
  BY LoadFinite
<1>2. paid = P /\ H = {FeeFor(k) : k \in K}
  BY CanonicalByKey
<1>3. \A k \in K : /\ g[k].order_id = k /\ h[k].key = k /\ g[k].amount_sats = h[k].sats
                   /\ h[k].sats \in Nat
  BY FeeForKey
<1>4. (\A k, l \in K : k # l => g[k] # g[l]) /\ (\A k, l \in K : k # l => h[k] # h[l])
  BY <1>3
<1>5. SumOver(paid, LAMBDA f : f.amount_sats) = Total(owed)
      /\ SumOver({FeeFor(k) : k \in K}, LAMBDA f : f.sats) = Total(sent)
  BY <1>2 DEF SumOver
<1>6. \A k \in K : owed[g[k]] = h[k].sats /\ sent[h[k]] = h[k].sats
  BY <1>3
<1>7. Narrowed(owed, P) = owed /\ Narrowed(sent, H) = sent
  BY DEF Narrowed
<1>8. Ints(owed, P) /\ Ints(sent, H)
  BY <1>3 DEF Ints
<1> HIDE DEF K, g, h, owed, sent
<1>9. Added([k \in K |-> owed[g[k]]]) = Added(Narrowed(owed, {g[k] : k \in K}))
  BY <1>1, <1>4, <1>8, AddedImage
<1>10. Added([k \in K |-> sent[h[k]]]) = Added(Narrowed(sent, {h[k] : k \in K}))
  BY <1>1, <1>4, <1>8, AddedImage
<1>11. [k \in K |-> owed[g[k]]] = [k \in K |-> sent[h[k]]]
  BY <1>6
<1>12. Total(owed) = Total(sent)
  BY <1>7, <1>9, <1>10, <1>11, TotalAdded
<1>13. Cardinality(P) = Cardinality(K)
  <2>1. g \in Bijection(K, P)
    BY <1>4 DEF g, Bijection, Injection, Surjection, IsInjective
  <2> HIDE DEF P
  <2> QED BY <1>1, <2>1, FS_Bijection DEF ExistsBijection
<1> QED BY <1>2, <1>5, <1>12, <1>13 DEF K

\* A fee that counts is inverted, is zero or has no fee in force.
LEMMA InvertedOrNot ==
    ASSUME Stored, NEW w
    PROVE  LET data    == DevFeeData(rows, Everyone)
               implied == Implied(data, w, PctSetting)
           IN  SummariseDevFees(data, w).paid
               = implied.inverted + implied.no_fee_in_force + implied.zero_fee
<1> DEFINE data == DevFeeData(rows, Everyone)
           paid == Canonical(data, w)
           unknown == {f \in paid : f.fee_in_force = None}
           zero == {f \in paid \ unknown : f.fee_in_force * PctSetting[f.pubkey] <= 0}
           inverted == (paid \ unknown) \ zero
           implied == Implied(data, w, PctSetting)
<1>1. IsFiniteSet(paid)
  <2>1. data.fees = LoadFees(rows, Everyone) /\ paid \subseteq data.fees
    BY DEF DevFeeData, Canonical
  <2> HIDE DEF data, paid
  <2> QED BY <2>1, FeesLoaded, FS_Subset
<1>2. SummariseDevFees(data, w).paid = Cardinality(paid)
  BY DEF SummariseDevFees
<1>3. implied.inverted = Cardinality(inverted)
  BY DEF Implied
<1>4. implied.no_fee_in_force = Cardinality(unknown) /\ implied.zero_fee = Cardinality(zero)
  BY DEF Implied
<1> HIDE DEF implied
<1>5. zero \subseteq paid /\ unknown \subseteq paid /\ zero \cap unknown = {}
  OBVIOUS
<1> HIDE DEF data, paid, unknown, zero
<1>6. IsFiniteSet(unknown) /\ IsFiniteSet(zero)
  BY <1>1, <1>5, FS_Subset
<1>7. IsFiniteSet(paid \ unknown) /\ zero \subseteq paid \ unknown
  BY <1>1, <1>5, FS_Subset
<1>8. Cardinality(paid \ unknown) = Cardinality(paid) - Cardinality(paid \cap unknown)
  BY <1>1, FS_Difference
<1>9. Cardinality(inverted) = Cardinality(paid \ unknown) - Cardinality((paid \ unknown) \cap zero)
  BY <1>7, FS_Difference
<1>10. paid \cap unknown = unknown /\ (paid \ unknown) \cap zero = zero
  BY <1>5, <1>7
<1>11. Cardinality(paid) \in Nat /\ Cardinality(unknown) \in Nat /\ Cardinality(zero) \in Nat
  BY <1>1, <1>6, FS_CardinalityType
<1>12. PICK p, u, z \in Nat :
          Cardinality(paid) = p /\ Cardinality(unknown) = u /\ Cardinality(zero) = z
  BY <1>11
<1>13. Cardinality(inverted) = p - u - z
  BY <1>8, <1>9, <1>10, <1>12
<1> HIDE DEF inverted
<1>14. SummariseDevFees(data, w).paid
       = implied.inverted + implied.no_fee_in_force + implied.zero_fee
  BY <1>2, <1>3, <1>4, <1>12, <1>13
<1> QED BY <1>14 DEF implied, data

\* An order pays its dev fee once (dev_fees.rs, db/dev_fees.rs): over the days
\* of all time the fees counted are one per order that has any, the earliest,
\* whoever published them, and each is either inverted into implied volume or
\* counted as not invertible.
THEOREM PaidOnceCorrect == Spec => []PaidOnce
<1>1. Stored => PaidOnce
  <2> SUFFICES ASSUME Stored PROVE PaidOnce
    OBVIOUS
  <2> DEFINE data == DevFeeData(rows, Everyone)
             fees == OfKind(rows, "dev_fee")
             K == {f.key : f \in fees}
             days == Buckets(Window(0, Max(Openings("day"))), "day")
             of(name) == SumOver(days, LAMBDA d : SummariseDevFees(data, d)[name])
             implied(d) == Implied(data, d, PctSetting)
             w == AllTime
  <2>1. Cut(w, days) /\ w = Window(0, Max(Openings("day"))) /\ K = KeysOf(rows, "dev_fee")
    BY AllTimeCut DEF AllTime, KeysOf
  <2>2. /\ Total([b \in days |-> Cardinality(Canonical(data, b))]) = Cardinality(Canonical(data, w))
        /\ Total([b \in days |-> SumOver(Canonical(data, b), LAMBDA f : f.amount_sats)])
           = SumOver(Canonical(data, w), LAMBDA f : f.amount_sats)
    <3> HIDE DEF w, days
    <3> QED BY <2>1, CountsAdd
  <2>3. \A d : /\ SummariseDevFees(data, d)["paid"] = Cardinality(Canonical(data, d))
               /\ SummariseDevFees(data, d)["total_sats"]
                  = SumOver(Canonical(data, d), LAMBDA f : f.amount_sats)
    BY DEF SummariseDevFees
  <2>4. of("paid") = Cardinality(Canonical(data, w))
        /\ of("total_sats") = SumOver(Canonical(data, w), LAMBDA f : f.amount_sats)
    <3>1. of("paid") = Total([d \in days |-> SummariseDevFees(data, d)["paid"]])
          /\ of("total_sats") = Total([d \in days |-> SummariseDevFees(data, d)["total_sats"]])
      BY DEF SumOver
    <3>2. [d \in days |-> SummariseDevFees(data, d)["paid"]]
          = [b \in days |-> Cardinality(Canonical(data, b))]
      BY <2>3
    <3>3. [d \in days |-> SummariseDevFees(data, d)["total_sats"]]
          = [b \in days |-> SumOver(Canonical(data, b), LAMBDA f : f.amount_sats)]
      BY <2>3
    <3> QED BY <2>2, <3>1, <3>2, <3>3
  <2>5. /\ Cardinality(Canonical(data, w)) = Cardinality(K)
        /\ SumOver(Canonical(data, w), LAMBDA f : f.amount_sats)
           = SumOver({FeeFor(k) : k \in K}, LAMBDA f : f.sats)
    BY <2>1, CanonicalTotals
  <2>6. {FeeFor(k) : k \in K} = {First({f \in fees : f.key = k}) : k \in K}
    BY DEF FeeFor
  <2>7. \A d \in days : SummariseDevFees(data, d).paid
                        = implied(d).inverted + implied(d).no_fee_in_force + implied(d).zero_fee
    BY InvertedOrNot
  <2>8. of("paid") = Cardinality(K)
    BY <2>4, <2>5
  <2>9. of("total_sats") = SumOver({First({f \in fees : f.key = k}) : k \in K}, LAMBDA f : f.sats)
    BY <2>4, <2>5, <2>6
  <2> QED BY <2>7, <2>8, <2>9 DEF PaidOnce
<1> QED BY <1>1, StoredInit, RowsGrow, PTL DEF Spec

-----------------------------------------------------------------------------
(* The currencies of a report.                                             *)

\* What a report counts over some orders, each the orders counted.
Counted(orders, w, clock) ==
    [ created         |-> CreatedOver(orders, w),
      completed       |-> CompletedOver(orders, w),
      canceled        |-> CanceledOver(orders, w),
      open_now        |-> {o \in orders : o.status = "pending" /\ o.expires_at > clock},
      in_progress_now |-> {o \in orders : o.status = "in_progress"} ]

CountNames == {"created", "completed", "canceled", "open_now", "in_progress_now"}

\* The counts of an activity report are those, and it has no block of
\* currencies of its own.
LEMMA ActivityCounts ==
    ASSUME NEW orders, NEW w, NEW clock
    PROVE  LET activity == SummariseActivity(orders, w, clock)
           IN  /\ \A name \in CountNames :
                     /\ name \in DOMAIN activity
                     /\ activity[name] = Cardinality(Counted(orders, w, clock)[name])
               /\ "fiat" \notin DOMAIN activity
<1> DEFINE dated == DatedActivity(orders, w, Previous(w))
           live == LiveActivity(orders, clock)
           activity == SummariseActivity(orders, w, clock)
           counted == Counted(orders, w, clock)
<1>1. /\ DOMAIN dated = {"created", "completed", "canceled", "completion_rate",
                         "abandonment_rate", "created_delta", "completed_delta"}
      /\ dated.created = Cardinality(counted.created)
      /\ dated.completed = Cardinality(counted.completed)
      /\ dated.canceled = Cardinality(counted.canceled)
  BY DEF DatedActivity, CountsOver, Counted
<1>2. /\ DOMAIN live = {"open_now", "in_progress_now"}
      /\ live.open_now = Cardinality(counted.open_now)
      /\ live.in_progress_now = Cardinality(counted.in_progress_now)
  BY DEF LiveActivity, Counted
<1>3. activity = [x \in DOMAIN dated \cup DOMAIN live |->
                     IF x \in DOMAIN dated THEN dated[x] ELSE live[x]]
  BY DEF SummariseActivity, Joined
<1> HIDE DEF dated, live, activity, counted
<1>4. DOMAIN activity = {"created", "completed", "canceled", "completion_rate",
                         "abandonment_rate", "created_delta", "completed_delta", "open_now",
                         "in_progress_now"}
  BY <1>1, <1>2, <1>3
<1>5. /\ activity.created = dated.created /\ activity.completed = dated.completed
      /\ activity.canceled = dated.canceled
      /\ activity.open_now = live.open_now /\ activity.in_progress_now = live.in_progress_now
  BY <1>1, <1>2, <1>3
<1>6. \A name \in CountNames : activity[name] = Cardinality(counted[name])
  BY <1>1, <1>2, <1>5 DEF CountNames
<1>7. \A name \in CountNames : name \in DOMAIN activity
  BY <1>4 DEF CountNames
<1>8. "fiat" \notin DOMAIN activity
  BY <1>4
<1> QED BY <1>6, <1>7, <1>8 DEF activity, counted

\* Those of one currency.
InFiat(orders, c) == {o \in orders : o.fiat_code = c}

\* The orders of a currency that are counted are those counted of that
\* currency.
LEMMA CountedOfCurrency ==
    ASSUME NEW orders, NEW w, NEW clock, NEW c, NEW name \in CountNames
    PROVE  LET all == Counted(orders, w, clock)[name]
           IN  /\ Counted(InFiat(orders, c), w, clock)[name] = InFiat(all, c)
               /\ all \subseteq orders
BY DEF InFiat, Counted, CountNames, CreatedOver, CompletedOver, CanceledOver

\* Currencies share out orders by number.
LEMMA CurrencyShares ==
    ASSUME NEW A, IsFiniteSet(A), NEW C, IsFiniteSet(C), \A o \in A : o.fiat_code \in C
    PROVE  Total([c \in C |-> Cardinality(InFiat(A, c))]) = Cardinality(A)
<1> DEFINE part == [c \in C |-> InFiat(A, c)]
<1>1. /\ \A c \in C : part[c] \subseteq A
      /\ \A b, c \in C : b # c => part[b] \cap part[c] = {}
      /\ \A y \in A : \E c \in C : y \in part[c]
  BY DEF InFiat
<1>2. [c \in C |-> Cardinality(part[c])] = [c \in C |-> Cardinality(InFiat(A, c))]
  OBVIOUS
<1> HIDE DEF part
<1>3. Added([c \in C |-> Cardinality(part[c])]) = Cardinality(A)
  BY <1>1, CountedParts
<1> QED BY <1>2, <1>3, TotalAdded

\* The slices of some orders by currency.
LEMMA FiatSlices ==
    ASSUME NEW orders
    PROVE  /\ DOMAIN Slice(orders, "fiat") = {o.fiat_code : o \in orders}
           /\ \A c \in {o.fiat_code : o \in orders} :
                 Slice(orders, "fiat")[c] = InFiat(orders, c)
<1>1. \A o : GroupKeys(o, "fiat") = {o.fiat_code}
  BY DEF GroupKeys
<1>2. UNION {GroupKeys(o, "fiat") : o \in orders} = {o.fiat_code : o \in orders}
  BY <1>1
<1> QED BY <1>1, <1>2 DEF Slice, InFiat

\* Blocks of counts, one per currency,
CountsByCurrency(blocks, counts, orders, w, clock) ==
    /\ IsFiniteSet(orders) /\ counts \in SUBSET CountNames
    /\ DOMAIN blocks = {o.fiat_code : o \in orders}
    /\ \A c \in DOMAIN blocks : \A n \in counts :
          blocks[c][n] = Cardinality(Counted(InFiat(orders, c), w, clock)[n])

TradedTotal(traded, name) == Total([c \in DOMAIN traded |-> traded[c][name]])

\* share out each count, though the currencies with nothing to show have none.
LEMMA TradedShares ==
    ASSUME NEW orders, NEW w, NEW clock, NEW counts, NEW blocks, NEW name \in counts,
           CountsByCurrency(blocks, counts, orders, w, clock)
    PROVE  TradedTotal(Traded(blocks, counts), name) = Cardinality(Counted(orders, w, clock)[name])
<1> USE DEF CountsByCurrency, TradedTotal
<1> DEFINE traded == Traded(blocks, counts)
           C == {c \in DOMAIN blocks : \E n \in counts : blocks[c][n] > 0}
           A == Counted(orders, w, clock)[name]
           of(c) == InFiat(A, c)
<1>1. DOMAIN traded = C /\ \A c \in C : traded[c] = blocks[c]
  BY DEF Traded
<1>2. A \subseteq orders /\ \A c \in DOMAIN blocks : blocks[c][name] = Cardinality(of(c))
  <2>1. name \in CountNames
    OBVIOUS
  <2>2. A \subseteq orders
    BY <2>1, CountedOfCurrency
  <2>3. \A c : Counted(InFiat(orders, c), w, clock)[name] = of(c)
    BY <2>1, CountedOfCurrency
  <2> QED BY <2>2, <2>3
<1>3. IsFiniteSet(A) /\ IsFiniteSet(C)
  <2>1. IsFiniteSet(DOMAIN blocks)
    <3> DEFINE f == [o \in orders |-> o.fiat_code]
    <3>1. {f[o] : o \in orders} = DOMAIN blocks
      OBVIOUS
    <3> HIDE DEF f
    <3>2. IsFiniteSet({f[o] : o \in orders})
      BY ColumnFinite
    <3> QED BY <3>1, <3>2
  <2>2. C \subseteq DOMAIN blocks
    OBVIOUS
  <2> HIDE DEF A, C
  <2> QED BY <1>2, <2>1, <2>2, FS_Subset
<1>4. ASSUME NEW o \in A PROVE o.fiat_code \in C
  <2> DEFINE c == o.fiat_code
  <2>1. c \in DOMAIN blocks /\ o \in of(c) /\ of(c) \subseteq A
    BY <1>2 DEF InFiat
  <2>2. IsFiniteSet(of(c)) /\ of(c) # {}
    BY <1>3, <2>1, FS_Subset
  <2>3. Cardinality(of(c)) \in Nat /\ Cardinality(of(c)) # 0
    <3> HIDE DEF of, A, C, c
    <3> QED BY <2>2, FS_CardinalityType, FS_EmptySet
  <2>4. blocks[c][name] > 0
    BY <1>2, <2>1, <2>3
  <2> QED BY <2>1, <2>4
<1> HIDE DEF A, C, traded
<1>5. Total([c \in C |-> Cardinality(of(c))]) = Cardinality(A)
  BY <1>3, <1>4, CurrencyShares
<1>6. [c \in DOMAIN traded |-> traded[c][name]] = [c \in C |-> Cardinality(of(c))]
  BY <1>1, <1>2 DEF C
<1>7. Total([c \in DOMAIN traded |-> traded[c][name]]) = Cardinality(A)
  BY <1>5, <1>6
<1> QED BY <1>7 DEF A, traded

\* The sats of some of the orders are a sum of naturals, and so is each part.
LEMMA SatsAdd ==
    ASSUME Stored, NEW D \in SUBSET LoadOrders(rows, Everyone)
    PROVE  LET f == [o \in D |-> o.amount_sats]
           IN  /\ IsFiniteSet(D) /\ Total(Sats(D)) = Added(Narrowed(f, D)) /\ Total(Sats(D)) \in Nat
               /\ Ints(f, D)
               /\ \A T \in SUBSET D : /\ Total(Sats(T)) = Added(Narrowed(f, T))
                                      /\ Total(Sats(T)) <= Total(Sats(D))
<1> DEFINE f == [o \in D |-> o.amount_sats]
<1>1. IsFiniteSet(D)
  BY OrdersFinite, FS_Subset
<1>2. \A o \in D : f[o] \in Nat
  <2> SUFFICES ASSUME NEW o \in LoadOrders(rows, Everyone) PROVE o.amount_sats \in Nat
    OBVIOUS
  <2> QED BY OrderFields
<1>3. \A T \in SUBSET D : Sats(T) = Narrowed(f, T)
  BY DEF Sats, Narrowed
<1> HIDE DEF f
<1>4. \A T \in SUBSET D : Total(Sats(T)) = Added(Narrowed(f, T))
  BY <1>3, TotalAdded
<1>5. \A T \in SUBSET D : Added(Narrowed(f, T)) <= Added(Narrowed(f, D))
  BY <1>1, <1>2, AddedLess
<1>6. Added(Narrowed(f, D)) \in Nat
  BY <1>1, <1>2, AddedNat
<1>7. Ints(f, D)
  BY <1>2 DEF Ints
<1>8. D \in SUBSET D
  OBVIOUS
<1> QED BY <1>1, <1>4, <1>5, <1>6, <1>7, <1>8 DEF f

\* Every size has its bucket.
LEMMA SizeHasBucket ==
    ASSUME NEW size \in Nat
    PROVE  SizeBucket(size) \in 1 .. Len(SIZES) + 1
<1> DEFINE S == {i \in DOMAIN SIZES : size <= SIZES[i]} \cup {Len(SIZES) + 1}
<1>1. Len(SIZES) \in Nat /\ DOMAIN SIZES = 1 .. Len(SIZES)
  BY SizesAssumption
<1>2. S \in SUBSET Nat /\ S # {} /\ \A i \in S : i \in 1 .. Len(SIZES) + 1
  BY <1>1
<1>3. Min(S) \in S
  BY <1>2, MinType
<1> QED BY <1>2, <1>3 DEF SizeBucket

\* The completed orders of a report and their sats are shared out by its
\* currencies, its sides and its sizes.
LEMMA VolumeShares ==
    ASSUME Stored, NEW w
    PROVE  LET volume == SummariseVolume(LoadOrders(rows, Everyone), w)
               codes  == DOMAIN volume.fiat
           IN  /\ volume.completed = SumOver(codes, LAMBDA c : volume.fiat[c].completed)
               /\ volume.completed = SumOver(DOMAIN volume.buckets, LAMBDA i : volume.buckets[i])
               /\ volume.sats # None =>
                     /\ volume.sats = SumOver(codes, LAMBDA c : volume.fiat[c].sats)
                     /\ volume.sats = volume.buy_sats + volume.sell_sats
               /\ volume.sats = None =>
                     Total(Sats(CompletedOver(LoadOrders(rows, Everyone), w))) > I64_MAX
<1> DEFINE orders == LoadOrders(rows, Everyone)
           D == CompletedOver(orders, w)
           volume == SummariseVolume(orders, w)
           codes == {o.fiat_code : o \in D}
           side(d) == {o \in D : o.direction = d}
           sized(i) == {o \in D : SizeBucket(o.amount_sats) = i}
           n == Len(SIZES) + 1
           f == [o \in D |-> o.amount_sats]
<1>1. /\ volume.completed = Cardinality(D) /\ volume.sats = SumSats(Sats(D))
      /\ volume.buckets = [i \in 1 .. n |-> Cardinality(sized(i))]
      /\ volume.buy_sats = SumSats(Sats(side("buy")))
      /\ volume.sell_sats = SumSats(Sats(side("sell")))
      /\ volume.fiat = [c \in codes |-> FiatVolume(InFiat(D, c))]
  BY DEF SummariseVolume, InFiat
<1>2. \A X : FiatVolume(X).completed = Cardinality(X) /\ FiatVolume(X).sats = SumSats(Sats(X))
  BY DEF FiatVolume
<1>3. D \in SUBSET orders
  BY DEF CompletedOver
<1>4. \A o \in D : o.amount_sats \in Nat /\ o.direction \in {"buy", "sell"}
  <2> SUFFICES ASSUME NEW o \in orders PROVE o.amount_sats \in Nat /\ o.direction \in {"buy", "sell"}
    BY <1>3
  <2> QED BY OrderFields
<1> HIDE DEF orders, D, volume
<1>5. /\ IsFiniteSet(D) /\ Total(Sats(D)) = Added(Narrowed(f, D)) /\ Total(Sats(D)) \in Nat
      /\ Ints(f, D)
      /\ \A T \in SUBSET D : Total(Sats(T)) = Added(Narrowed(f, T)) /\ Total(Sats(T)) <= Total(Sats(D))
  BY <1>3, SatsAdd DEF orders
<1>6. IsFiniteSet(codes) /\ \A o \in D : o.fiat_code \in codes
  <2> DEFINE g == [o \in D |-> o.fiat_code]
  <2>1. {g[o] : o \in D} = codes
    OBVIOUS
  <2> HIDE DEF g
  <2>2. IsFiniteSet({g[o] : o \in D})
    BY <1>5, ColumnFinite
  <2> QED BY <2>1, <2>2
<1> HIDE DEF f
<1>7. volume.completed = Total([c \in codes |-> volume.fiat[c].completed])
  <2>1. Total([c \in codes |-> Cardinality(InFiat(D, c))]) = Cardinality(D)
    <3> HIDE DEF codes
    <3> QED BY <1>5, <1>6, CurrencyShares
  <2>2. \A c \in codes : volume.fiat[c].completed = Cardinality(InFiat(D, c))
    BY <1>1, <1>2
  <2> HIDE DEF codes
  <2>3. [c \in codes |-> volume.fiat[c].completed] = [c \in codes |-> Cardinality(InFiat(D, c))]
    BY <2>2
  <2> QED BY <1>1, <2>1, <2>3
<1>8. volume.completed = Total(volume.buckets)
  <2> DEFINE B == 1 .. n
             part == [i \in B |-> sized(i)]
  <2>1. n \in Nat /\ IsFiniteSet(B)
    BY SizesAssumption, FS_Interval
  <2>2. /\ \A i \in B : part[i] \subseteq D
        /\ \A i, j \in B : i # j => part[i] \cap part[j] = {}
    OBVIOUS
  <2>3. \A y \in D : \E i \in B : y \in part[i]
    BY <1>4, SizeHasBucket
  <2>4. [i \in B |-> Cardinality(part[i])] = volume.buckets
    BY <1>1
  <2> HIDE DEF B, part
  <2>5. Added([i \in B |-> Cardinality(part[i])]) = Cardinality(D)
    BY <1>5, <2>1, <2>2, <2>3, CountedParts
  <2> QED BY <1>1, <2>4, <2>5, TotalAdded
<1>9. I64_MAX \in Nat /\ None \notin Int
  BY RatesAssumption, CalendarAssumption
<1>10. volume.sats = None => Total(Sats(D)) > I64_MAX
  BY <1>1, <1>5, <1>9 DEF SumSats
<1>11. ASSUME volume.sats # None
       PROVE  /\ volume.sats = Total(Sats(D))
              /\ \A T \in SUBSET D : SumSats(Sats(T)) = Total(Sats(T))
  <2>1. ~(Total(Sats(D)) > I64_MAX) /\ volume.sats = Total(Sats(D))
    BY <1>1, <1>11 DEF SumSats
  <2>2. ASSUME NEW T \in SUBSET D PROVE SumSats(Sats(T)) = Total(Sats(T))
    <3>1. Total(Sats(T)) \in Int
      <4>1. IsFiniteSet(T) /\ \A y \in T : f[y] \in Int
        BY <1>5, FS_Subset DEF Ints
      <4>2. Added(Narrowed(f, T)) \in Int
        BY <4>1, AddedOver
      <4> QED BY <1>5, <4>2
    <3>2. Total(Sats(T)) <= Total(Sats(D))
      BY <1>5
    <3>3. ~(Total(Sats(T)) > I64_MAX)
      BY <1>5, <1>9, <2>1, <3>1, <3>2
    <3> QED BY <3>3 DEF SumSats
  <2> QED BY <2>1, <2>2
<1>12. ASSUME volume.sats # None PROVE volume.sats = Total([c \in codes |-> volume.fiat[c].sats])
  <2> DEFINE part == [c \in codes |-> InFiat(D, c)]
  <2>1. \A c : InFiat(D, c) \in SUBSET D
    BY DEF InFiat
  <2>2. \A c \in codes : volume.fiat[c].sats = Added(Narrowed(f, InFiat(D, c)))
    BY <1>1, <1>2, <1>5, <1>11, <1>12, <2>1
  <2>3. /\ \A c \in codes : part[c] \subseteq D
        /\ \A b, c \in codes : b # c => part[b] \cap part[c] = {}
        /\ \A y \in D : \E c \in codes : y \in part[c]
    BY DEF InFiat
  <2>4. \A y \in D : f[y] \in Int
    BY <1>5 DEF Ints
  <2>5. [c \in codes |-> volume.fiat[c].sats] = [c \in codes |-> Added(Narrowed(f, part[c]))]
    BY <2>2
  <2> HIDE DEF part, codes
  <2>6. Added([c \in codes |-> Added(Narrowed(f, part[c]))]) = Added(Narrowed(f, D))
    BY <1>5, <1>6, <2>3, <2>4, AddedParts
  <2> QED BY <1>5, <1>11, <1>12, <2>5, <2>6, TotalAdded
<1>13. ASSUME volume.sats # None PROVE volume.sats = volume.buy_sats + volume.sell_sats
  <2> DEFINE X == side("buy")
             Y == side("sell")
  <2>1. X \in SUBSET D /\ Y \in SUBSET D /\ X \cap Y = {} /\ X \cup Y = D
    BY <1>4
  <2>2. volume.buy_sats = Added(Narrowed(f, X)) /\ volume.sell_sats = Added(Narrowed(f, Y))
    BY <1>1, <1>5, <1>11, <1>13, <2>1
  <2>3. IsFiniteSet(X) /\ IsFiniteSet(Y) /\ \A y \in X \cup Y : f[y] \in Int
    BY <1>5, <2>1, FS_Subset DEF Ints
  <2> HIDE DEF X, Y
  <2>4. Added(Narrowed(f, X \cup Y)) = Added(Narrowed(f, X)) + Added(Narrowed(f, Y))
    BY <2>1, <2>3, AddedUnion
  <2> QED BY <1>5, <1>11, <1>13, <2>1, <2>2, <2>4
<1>14. /\ DOMAIN volume.fiat = codes
       /\ [i \in DOMAIN volume.buckets |-> volume.buckets[i]] = volume.buckets
  BY <1>1
<1> HIDE DEF codes
<1>15. SumOver(codes, LAMBDA c : volume.fiat[c].completed)
       = Total([c \in codes |-> volume.fiat[c].completed])
  BY DEF SumOver
<1>16. SumOver(codes, LAMBDA c : volume.fiat[c].sats) = Total([c \in codes |-> volume.fiat[c].sats])
  BY DEF SumOver
<1>17. SumOver(DOMAIN volume.buckets, LAMBDA i : volume.buckets[i]) = Total(volume.buckets)
  BY <1>14 DEF SumOver
<1> QED BY <1>7, <1>8, <1>10, <1>12, <1>13, <1>14, <1>15, <1>16, <1>17 DEF volume, orders, D

\* The counts of the orders document are shared out by its currencies.
LEMMA FiatCountsShare ==
    ASSUME NEW orders, IsFiniteSet(orders), NEW w, NEW clock,
           NEW name \in {"created", "completed", "canceled", "open_now"}
    PROVE  LET counts == FiatCounts(orders, w, clock)
           IN  SummariseActivity(orders, w, clock)[name]
               = Total([c \in DOMAIN counts |-> counts[c][name]])
<1> DEFINE names == {"created", "completed", "canceled", "open_now"}
           slices == Slice(orders, "fiat")
           codes == {o.fiat_code : o \in orders}
           of(c) == SummariseActivity(slices[c], w, clock)
           blocks == [c \in DOMAIN slices |->
                         [ created |-> of(c).created, completed |-> of(c).completed,
                           canceled |-> of(c).canceled, open_now |-> of(c).open_now ]]
           counts == FiatCounts(orders, w, clock)
<1>1. counts = Traded(blocks, names)
  BY DEF FiatCounts
<1>2. DOMAIN slices = codes /\ \A c \in codes : slices[c] = InFiat(orders, c)
  BY FiatSlices
<1>3. \A n \in names : n \in CountNames
  BY DEF CountNames
<1>4. \A c \in codes : \A n \in names :
         SummariseActivity(slices[c], w, clock)[n]
         = Cardinality(Counted(InFiat(orders, c), w, clock)[n])
  BY <1>2, <1>3, ActivityCounts
<1> HIDE DEF slices
<1>5. DOMAIN blocks = codes /\ \A c \in codes : \A n \in names : blocks[c][n] = of(c)[n]
  BY <1>2
<1>6. \A c \in DOMAIN blocks : \A n \in names :
         blocks[c][n] = Cardinality(Counted(InFiat(orders, c), w, clock)[n])
  BY <1>4, <1>5
<1>7. names \in SUBSET CountNames /\ DOMAIN blocks = codes /\ name \in names
  BY <1>3, <1>5
<1>8. SummariseActivity(orders, w, clock)[name] = Cardinality(Counted(orders, w, clock)[name])
  BY <1>3, ActivityCounts
<1> HIDE DEF blocks, names, counts
<1>9. CountsByCurrency(blocks, names, orders, w, clock)
  BY <1>6, <1>7 DEF CountsByCurrency
<1>10. TradedTotal(counts, name) = Cardinality(Counted(orders, w, clock)[name])
  BY <1>1, <1>7, <1>9, TradedShares
<1>11. SummariseActivity(orders, w, clock)[name] = Total([c \in DOMAIN counts |-> counts[c][name]])
  BY <1>8, <1>10 DEF TradedTotal
<1> QED BY <1>11 DEF counts

\* And so are those of the document of an instance.
LEMMA InstanceShares ==
    ASSUME NEW own, IsFiniteSet(own), NEW w, NEW clock,
           NEW name \in {"created", "completed", "canceled", "in_progress_now"},
           NEW block, block = InstanceMetrics(own, w, clock)
    PROVE  block[name] = Total([c \in DOMAIN block.fiat |-> block.fiat[c][name]])
<1> DEFINE names == {"created", "completed", "canceled", "open_now", "in_progress_now"}
           slices == Slice(own, "fiat")
           codes == {o.fiat_code : o \in own}
           blocks == [c \in DOMAIN slices |-> SummariseActivity(slices[c], w, clock)]
           activity == SummariseActivity(own, w, clock)
           traded == Traded(blocks, names)
<1>1. block = Joined(activity, [fiat |-> traded])
  BY DEF InstanceMetrics
<1>2. DOMAIN slices = codes /\ \A c \in codes : slices[c] = InFiat(own, c)
  BY FiatSlices
<1>3. names = CountNames /\ name \in CountNames
  BY DEF CountNames
<1>4. /\ name \in DOMAIN activity /\ "fiat" \notin DOMAIN activity
      /\ activity[name] = Cardinality(Counted(own, w, clock)[name])
  BY <1>3, ActivityCounts
<1>5. \A c \in codes : \A n \in names :
         SummariseActivity(slices[c], w, clock)[n] = Cardinality(Counted(InFiat(own, c), w, clock)[n])
  BY <1>2, <1>3, ActivityCounts
<1> HIDE DEF slices
<1>6. DOMAIN blocks = codes /\ \A c \in codes : blocks[c] = SummariseActivity(slices[c], w, clock)
  BY <1>2
<1>7. \A c \in DOMAIN blocks : \A n \in names :
         blocks[c][n] = Cardinality(Counted(InFiat(own, c), w, clock)[n])
  BY <1>5, <1>6
<1>8. names \in SUBSET CountNames /\ name \in names
  BY <1>3
<1> HIDE DEF blocks, names, activity
<1>9. CountsByCurrency(blocks, names, own, w, clock)
  BY <1>6, <1>7, <1>8 DEF CountsByCurrency
<1> HIDE DEF traded
<1>10. block[name] = activity[name] /\ block.fiat = traded
  BY <1>1, <1>4 DEF Joined
<1>11. TradedTotal(traded, name) = Cardinality(Counted(own, w, clock)[name])
  BY <1>8, <1>9, TradedShares DEF traded
<1> QED BY <1>4, <1>10, <1>11 DEF TradedTotal

\* The blocks of a report by currency share out its total (volume.rs,
\* snapshot.rs): completed orders, sats unless i64 cannot hold them, and the
\* counts of the orders document and of each instance's, whose currencies with
\* nothing to show are left out; so do the two sides and the size buckets.
THEOREM CurrenciesPartitionCorrect == Spec => []CurrenciesPartition
<1>1. Stored => CurrenciesPartition
  <2> SUFFICES ASSUME Stored PROVE CurrenciesPartition
    OBVIOUS
  <2> DEFINE orders == LoadOrders(rows, Everyone)
             own(p, w) == InstanceMetrics(Own(orders, p), w, now)
  <2>1. IsFiniteSet(orders)
    BY OrdersFinite
  <2>2. \A p : IsFiniteSet(Own(orders, p))
    <3> HIDE DEF orders
    <3>1. \A p : Own(orders, p) \subseteq orders
      BY DEF Own
    <3> QED BY <2>1, <3>1, FS_Subset
  <2>3. ASSUME NEW w \in Spans, NEW name \in {"created", "completed", "canceled", "open_now"}
        PROVE  SummariseActivity(orders, w, now)[name]
               = SumOver(DOMAIN FiatCounts(orders, w, now),
                         LAMBDA c : FiatCounts(orders, w, now)[c][name])
    <3> DEFINE counts == FiatCounts(orders, w, now)
    <3> HIDE DEF orders
    <3>1. SummariseActivity(orders, w, now)[name] = Total([c \in DOMAIN counts |-> counts[c][name]])
      BY <2>1, FiatCountsShare, ZenonT(40)
    <3> QED BY <3>1 DEF SumOver
  <2>4. ASSUME NEW w \in Spans, NEW block \in {own(o.pubkey, w) : o \in orders},
               NEW name \in {"created", "completed", "canceled", "in_progress_now"}
        PROVE  block[name] = SumOver(DOMAIN block.fiat, LAMBDA c : block.fiat[c][name])
    <3>1. PICK o \in orders : block = own(o.pubkey, w)
      OBVIOUS
    <3> DEFINE mine == Own(orders, o.pubkey)
    <3>2. IsFiniteSet(mine) /\ block = InstanceMetrics(mine, w, now)
      BY <2>2, <3>1
    <3> HIDE DEF mine, own, orders
    <3>3. block[name] = Total([c \in DOMAIN block.fiat |-> block.fiat[c][name]])
      BY <3>2, InstanceShares
    <3> QED BY <3>3 DEF SumOver
  <2>5. ASSUME NEW w \in Spans
        PROVE  LET volume == SummariseVolume(orders, w)
                   codes  == DOMAIN volume.fiat
               IN  /\ volume.completed = SumOver(codes, LAMBDA c : volume.fiat[c].completed)
                   /\ volume.completed = SumOver(DOMAIN volume.buckets, LAMBDA i : volume.buckets[i])
                   /\ volume.sats # None =>
                         /\ volume.sats = SumOver(codes, LAMBDA c : volume.fiat[c].sats)
                         /\ volume.sats = volume.buy_sats + volume.sell_sats
                   /\ volume.sats = None => Total(Sats(CompletedOver(orders, w))) > I64_MAX
    BY VolumeShares
  <2> QED BY <2>3, <2>4, <2>5 DEF CurrenciesPartition
<1> QED BY <1>1, StoredInit, RowsGrow, PTL DEF Spec

-----------------------------------------------------------------------------
(* What a command loads.                                                   *)

\* The moments of an order are those of its versions, and it is in a status
\* that one of them reached.
LEMMA OrderMoments ==
    ASSUME Stored, NEW o \in LoadOrders(rows, Everyone)
    PROVE  /\ \A t \in {o.pending_at, o.taken_at, o.success_at, o.canceled_at} :
                 t # None => /\ t \in Nat
                             /\ \E v \in OfKind(rows, "order") : v.key = o.order_id /\ v.at = t
           /\ o.status = "in_progress" => o.taken_at # None
           /\ o.status = "success" => o.success_at # None
           /\ o.status = "canceled" => o.canceled_at # None
<1>1. PICK k \in KeysOf(rows, "order") : o = LoadOrder(rows, k)
  BY DEF LoadOrders
<1> DEFINE V == Life(rows, k)
           of(s) == {v \in V : v.status = s}
<1>2. V \in SUBSET Versions /\ V # {} /\ \A v \in V : v \in OfKind(rows, "order") /\ v.key = k
  BY DEF Stored, Life, KeysOf, OfKind
<1>3. Last(V) \in V
  BY <1>2, LastIsLatest
<1>4. /\ o.order_id = Last(V).key /\ o.status = Last(V).status
      /\ o.pending_at = Earliest(of("pending")) /\ o.taken_at = Earliest(of("in_progress"))
      /\ o.success_at = Earliest(of("success")) /\ o.canceled_at = Earliest(of("canceled"))
  BY <1>1 DEF LoadOrder, OrderOf, IntoOrder, Life
<1>5. o.order_id = k
  BY <1>2, <1>3, <1>4
<1> HIDE DEF V
<1>6. ASSUME NEW s
      PROVE  /\ Earliest(of(s)) # None =>
                   /\ Earliest(of(s)) \in Nat
                   /\ \E v \in OfKind(rows, "order") : v.key = k /\ v.at = Earliest(of(s))
             /\ Last(V).status = s => Earliest(of(s)) # None
  <2> DEFINE W == of(s)
  <2>1. W \in SUBSET Versions
    BY <1>2
  <2>2. Last(V).status = s => W # {}
    BY <1>3
  <2>3. \A v \in W : v \in OfKind(rows, "order") /\ v.key = k
    BY <1>2
  <2> HIDE DEF W
  <2>4. \/ W = {} /\ Earliest(W) = None
        \/ W # {} /\ Earliest(W) \in Nat /\ \E v \in W : v.at = Earliest(W)
    BY <2>1, EarliestIsSeen
  <2>5. None \notin Nat
    BY RowsDated
  <2>6. Earliest(W) # None => /\ Earliest(W) \in Nat
                              /\ \E v \in OfKind(rows, "order") : v.key = k /\ v.at = Earliest(W)
    BY <2>3, <2>4
  <2>7. Last(V).status = s => Earliest(W) # None
    BY <2>2, <2>4, <2>5
  <2> QED BY <2>6, <2>7 DEF W
<1> HIDE DEF of
<1> QED BY <1>4, <1>5, <1>6

\* An order with a moment in the window has a version in it.
LEMMA MomentTouches ==
    ASSUME Stored, NEW o \in LoadOrders(rows, Everyone), NEW w,
           NEW t \in {o.pending_at, o.taken_at, o.success_at, o.canceled_at}, Dated(t, w)
    PROVE  o \in TouchedIn(rows, Everyone, w, now)
<1>1. PICK v \in OfKind(rows, "order") : v.key = o.order_id /\ v.at = t
  BY OrderMoments DEF Dated
<1>2. Contains(w, v.at)
  BY <1>1 DEF Dated
<1> QED BY <1>1, <1>2 DEF TouchedIn

\* An order on the book is pending and live, and one that ended did so at its
\* success or its cancellation.
LEMMA BookTouches ==
    ASSUME Stored, NEW o \in LoadOrders(rows, Everyone)
    PROVE  /\ \A w : o \in OnBook(LoadOrders(rows, Everyone), now) =>
                 o \in TouchedIn(rows, Everyone, w, now)
           /\ SuccessAt(o) # None => SuccessAt(o) = o.success_at
           /\ CanceledAt(o) # None => CanceledAt(o) = o.canceled_at
<1>1. o.status \in OrderStatuses
  BY OrderFields
<1>2. /\ o.status = "in_progress" => o.taken_at # None
      /\ o.status = "success" => o.success_at # None
      /\ o.status = "canceled" => o.canceled_at # None
  BY OrderMoments
<1>3. Terminal(o).end = None => o.success_at = None /\ o.canceled_at = None
  <2>1. None \notin {"success", "canceled"}
    BY FiguresAssumption
  <2> QED BY <2>1 DEF Terminal
<1>4. ASSUME NEW w, o \in OnBook(LoadOrders(rows, Everyone), now)
      PROVE  o \in TouchedIn(rows, Everyone, w, now)
  <2>1. o.taken_at = None /\ Terminal(o).end = None /\ o.expires_at > now
    BY <1>4 DEF OnBook
  <2>2. o.status = "pending"
    BY <1>1, <1>2, <1>3, <2>1 DEF OrderStatuses
  <2> QED BY <2>1, <2>2 DEF TouchedIn
<1>5. SuccessAt(o) # None => SuccessAt(o) = o.success_at
  BY DEF SuccessAt, Terminal
<1>6. CanceledAt(o) # None => CanceledAt(o) = o.canceled_at
  BY DEF CanceledAt, Terminal
<1> QED BY <1>4, <1>5, <1>6

\* The durations that end in a window are those of the orders that a moment
\* of theirs puts there.
LEMMA GapsNarrow ==
    ASSUME NEW S, NEW from, NEW to, DOMAIN from = S, DOMAIN to = S, NEW T \in SUBSET S, NEW w,
           \A o \in S : Dated(to[o], w) => o \in T
    PROVE  Gaps(Narrowed(from, T), Narrowed(to, T), w) = Gaps(from, to, w)
<1> DEFINE f == Narrowed(from, T)
           g == Narrowed(to, T)
           P(a, b, o) == a[o] # None /\ Dated(b[o], w) /\ b[o] - a[o] > 0
           measured == {o \in DOMAIN from : P(from, to, o)}
           fewer == {o \in DOMAIN f : P(f, g, o)}
           gap == [o \in measured |-> to[o] - from[o]]
           less == [o \in fewer |-> g[o] - f[o]]
<1>1. DOMAIN f = T /\ \A o \in T : f[o] = from[o] /\ g[o] = to[o]
  BY DEF Narrowed
<1>2. fewer = measured
  BY <1>1
<1>3. gap = less
  BY <1>1, <1>2
<1>4. Gaps(from, to, w) = [samples |-> Cardinality(measured), p50 |-> P50(gap), p90 |-> P90(gap)]
  BY DEF Gaps
<1>5. Gaps(f, g, w) = [samples |-> Cardinality(fewer), p50 |-> P50(less), p90 |-> P90(less)]
  BY DEF Gaps
<1> QED BY <1>2, <1>3, <1>4, <1>5

\* The timing of the orders touched in a window is that of all of them.
LEMMA TouchedEnough ==
    ASSUME Stored, NEW w
    PROVE  SummariseTiming(TouchedIn(rows, Everyone, w, now), w, now)
           = SummariseTiming(LoadOrders(rows, Everyone), w, now)
<1> DEFINE S == LoadOrders(rows, Everyone)
           T == TouchedIn(rows, Everyone, w, now)
           pending(X) == [o \in X |-> o.pending_at]
           taken(X) == [o \in X |-> o.taken_at]
           success(X) == [o \in X |-> SuccessAt(o)]
           canceled(X) == [o \in X |-> CanceledAt(o)]
           book(X) == OnBook(X, now)
           age(X) == IF book(X) = {} THEN None
                     ELSE SumOver(book(X), LAMBDA o : now - o.pending_at) \div Cardinality(book(X))
           stages(X) == [ time_to_fill     |-> Gaps(pending(X), taken(X), w),
                          time_to_complete |-> Gaps(taken(X), success(X), w),
                          full_cycle       |-> Gaps(pending(X), success(X), w),
                          time_to_cancel   |-> Gaps(pending(X), canceled(X), w),
                          book_size        |-> Cardinality(book(X)),
                          book_age_avg     |-> age(X) ]
<1>1. \A X : SummariseTiming(X, w, now) = Joined(stages(X), FunnelRows(Funnel(X, w, now)))
  BY DEF SummariseTiming
<1>2. T \in SUBSET S
  BY DEF TouchedIn
<1>3. \A o \in S : \A t \in {o.pending_at, o.taken_at, o.success_at, o.canceled_at} :
         Dated(t, w) => o \in T
  BY MomentTouches
<1>4. \A o \in S : /\ Dated(o.pending_at, w) => o \in T
                   /\ Dated(o.taken_at, w) => o \in T
                   /\ Dated(SuccessAt(o), w) => o \in T
                   /\ Dated(CanceledAt(o), w) => o \in T
  <2> SUFFICES ASSUME NEW o \in S
               PROVE  /\ Dated(o.pending_at, w) => o \in T
                      /\ Dated(o.taken_at, w) => o \in T
                      /\ Dated(SuccessAt(o), w) => o \in T
                      /\ Dated(CanceledAt(o), w) => o \in T
    OBVIOUS
  <2>1. Dated(SuccessAt(o), w) => SuccessAt(o) = o.success_at
    BY BookTouches DEF Dated
  <2>2. Dated(CanceledAt(o), w) => CanceledAt(o) = o.canceled_at
    BY BookTouches DEF Dated
  <2> HIDE DEF T
  <2> QED BY <1>3, <2>1, <2>2
<1>5. \A o \in S : o \in OnBook(S, now) => o \in T
  BY BookTouches
<1> HIDE DEF S, T
<1>6. book(T) = book(S)
  BY <1>2, <1>5 DEF OnBook
<1>7. Funnel(T, w, now) = Funnel(S, w, now)
  <2>1. {o \in T : Dated(o.pending_at, w)} = {o \in S : Dated(o.pending_at, w)}
    BY <1>2, <1>4
  <2> QED BY <2>1 DEF Funnel
<1>8. /\ pending(T) = Narrowed(pending(S), T) /\ taken(T) = Narrowed(taken(S), T)
      /\ success(T) = Narrowed(success(S), T) /\ canceled(T) = Narrowed(canceled(S), T)
  BY <1>2 DEF Narrowed
<1>9. /\ DOMAIN pending(S) = S /\ DOMAIN taken(S) = S /\ DOMAIN success(S) = S
      /\ DOMAIN canceled(S) = S
  OBVIOUS
<1>10. /\ \A o \in S : Dated(taken(S)[o], w) => o \in T
       /\ \A o \in S : Dated(success(S)[o], w) => o \in T
       /\ \A o \in S : Dated(canceled(S)[o], w) => o \in T
  BY <1>4
<1> HIDE DEF pending, taken, success, canceled
<1>11. Gaps(pending(T), taken(T), w) = Gaps(pending(S), taken(S), w)
  BY <1>2, <1>8, <1>9, <1>10, GapsNarrow
<1>12. Gaps(taken(T), success(T), w) = Gaps(taken(S), success(S), w)
  BY <1>2, <1>8, <1>9, <1>10, GapsNarrow
<1>13. Gaps(pending(T), success(T), w) = Gaps(pending(S), success(S), w)
  BY <1>2, <1>8, <1>9, <1>10, GapsNarrow
<1>14. Gaps(pending(T), canceled(T), w) = Gaps(pending(S), canceled(S), w)
  BY <1>2, <1>8, <1>9, <1>10, GapsNarrow
<1>15. age(T) = age(S) /\ Cardinality(book(T)) = Cardinality(book(S))
  BY <1>6
<1> HIDE DEF book, age
<1>16. stages(T) = stages(S)
  BY <1>11, <1>12, <1>13, <1>14, <1>15
<1> HIDE DEF stages
<1>17. SummariseTiming(T, w, now) = SummariseTiming(S, w, now)
  BY <1>1, <1>7, <1>16
<1> QED BY <1>17 DEF S, T

\* The quotes that may price an order of the window are in its book.
LEMMA BookEnough ==
    ASSUME Stored, NEW w, w.from \in Nat, w.until \in Nat, NEW t \in Nat, Contains(w, t), NEW p
    PROVE  RateAt(LoadBook(rows, w), p, Reference, t) = RateAt(OfKind(rows, "rates"), p, Reference, t)
<1> DEFINE A == OfKind(rows, "rates")
           B == LoadBook(rows, w)
           own(X) == {s \in X : s.pubkey = p}
<1>1. \A s \in A : s.stamp \in Nat
  BY FiguresAssumption DEF OfKind, Stored
<1>2. MAX_AGE \in Nat /\ t >= w.from /\ t < w.until
  BY LedgerAssumption DEF Contains
<1>3. B = {s \in A : s.stamp >= w.from - MAX_AGE /\ s.stamp < w.until}
  BY DEF LoadBook
<1>4. \A s \in A : s.stamp <= t /\ t - s.stamp <= MAX_AGE => s \in B
  BY <1>1, <1>2, <1>3
<1>5. Usable(B, Reference, t) = Usable(A, Reference, t)
  BY <1>3, <1>4 DEF Usable
<1>6. Usable(own(B), Reference, t) = Usable(own(A), Reference, t)
  BY <1>3, <1>4 DEF Usable
<1> DEFINE mine == own(A)
           few == own(B)
<1> HIDE DEF A, B, mine, few
<1>7. Newest(B, Reference, t) = Newest(A, Reference, t)
  BY <1>5, SameNewest
<1>8. Newest(few, Reference, t) = Newest(mine, Reference, t)
  BY <1>6, SameNewest DEF mine, few
<1>9. Newest(own(B), Reference, t) = Newest(own(A), Reference, t)
  BY <1>8 DEF mine, few
<1>10. RateAt(B, p, Reference, t) = RateAt(A, p, Reference, t)
  BY <1>7, <1>9 DEF RateAt
<1> QED BY <1>10 DEF A, B

\* What a command loads is enough for what it reports (db/load, rates.rs):
\* narrowing the orders to those completed or touched in the window, and the
\* rate book to the window and MAX_AGE before it, changes no figure of stats
\* volume and of stats timing, but the two counts that look past the window,
\* against a load of everything.
THEOREM LoadedEnoughCorrect == Spec => []LoadedEnough
<1>1. Stored => LoadedEnough
  <2> SUFFICES ASSUME Stored, NEW w \in Spans
               PROVE  LET orders == LoadOrders(rows, Everyone)
                          rates  == OfKind(rows, "rates")
                          done   == CompletedIn(rows, Everyone, w)
                      IN  /\ SummariseVolume(done, w) = SummariseVolume(orders, w)
                          /\ SummariseTiming(TouchedIn(rows, Everyone, w, now), w, now)
                             = SummariseTiming(orders, w, now)
                          /\ Convert(done, w, LoadBook(rows, w), Reference)
                             = Convert(orders, w, rates, Reference)
    BY DEF LoadedEnough
  <2> DEFINE orders == LoadOrders(rows, Everyone)
             rates == OfKind(rows, "rates")
             done == CompletedIn(rows, Everyone, w)
             book == LoadBook(rows, w)
             D == CompletedOver(orders, w)
  <2>1. CompletedOver(done, w) = D
    BY DEF CompletedIn, CompletedOver
  <2>2. SummariseVolume(done, w) = SummariseVolume(orders, w)
    <3> HIDE DEF done, orders
    <3> QED BY <2>1 DEF SummariseVolume
  <2>3. ASSUME NEW o \in D
        PROVE  RateAt(book, o.pubkey, Reference, o.success_at)
               = RateAt(rates, o.pubkey, Reference, o.success_at)
    <3>1. o \in orders /\ o.success_at # None /\ Contains(w, o.success_at)
      BY DEF CompletedOver, Dated
    <3>2. o.success_at \in Nat
      BY <3>1, SettledAt
    <3>3. w.from \in Nat /\ w.until \in Nat
      BY FiguresAssumption DEF Instants
    <3> QED BY <3>1, <3>2, <3>3, BookEnough
  <2>4. [o \in D |-> RateAt(book, o.pubkey, Reference, o.success_at)]
        = [o \in D |-> RateAt(rates, o.pubkey, Reference, o.success_at)]
    BY <2>3
  <2>5. Convert(done, w, book, Reference) = Convert(orders, w, rates, Reference)
    <3> HIDE DEF done, orders, rates, book
    <3> QED BY <2>1, <2>4 DEF Convert
  <2> QED BY <2>2, <2>5, TouchedEnough
<1> QED BY <1>1, StoredInit, RowsGrow, PTL DEF Spec

-----------------------------------------------------------------------------
(* The months.                                                             *)

\* Months open one after the other.
LEMMA MonthsRise ==
    /\ Len(MonthStart) \in Nat /\ Len(MonthStart) > 1
    /\ \A i \in 1 .. Len(MonthStart) : MonthStart[i] \in Nat
    /\ \A i, j \in 1 .. Len(MonthStart) : i < j => MonthStart[i] < MonthStart[j]
<1> DEFINE n == Len(MonthStart)
<1>1. n \in Nat /\ n > 1 /\ \A i \in 1 .. n : MonthStart[i] \in Nat
  BY CalendarAssumption
<1>2. \A i \in 1 .. n - 1 : MonthStart[i] < MonthStart[i + 1]
  BY CalendarAssumption DEF Months
<1> HIDE DEF n
<1> DEFINE G == {k \in Nat : \A i \in 1 .. n : i + 1 + k <= n => MonthStart[i] < MonthStart[i + 1 + k]}
<1>3. 0 \in G
  BY <1>1, <1>2
<1>4. ASSUME NEW k \in G PROVE k + 1 \in G
  <2> SUFFICES ASSUME NEW i \in 1 .. n, i + 1 + (k + 1) <= n
               PROVE  MonthStart[i] < MonthStart[i + 1 + (k + 1)]
    OBVIOUS
  <2>1. PICK j \in 1 .. n - 1 : j = i + 1 + k
    BY <1>1
  <2>2. MonthStart[i] < MonthStart[j]
    BY <1>1, <2>1
  <2>3. MonthStart[j] < MonthStart[j + 1] /\ j + 1 = i + 1 + (k + 1)
    BY <1>2, <2>1
  <2>4. MonthStart[i] \in Nat /\ MonthStart[j] \in Nat /\ MonthStart[j + 1] \in Nat
    BY <1>1, <2>1
  <2> QED BY <2>2, <2>3, <2>4
<1>5. G = Nat
  BY <1>3, <1>4, NumbersBySteps
<1>6. ASSUME NEW i \in 1 .. n, NEW j \in 1 .. n, i < j PROVE MonthStart[i] < MonthStart[j]
  <2>1. PICK k \in Nat : j = i + 1 + k
    <3>1. j - i - 1 \in Nat /\ j = i + 1 + (j - i - 1)
      BY <1>1, <1>6
    <3> QED BY <3>1
  <2>2. k \in G
    BY <1>5
  <2> QED BY <1>1, <2>1, <2>2
<1> QED BY <1>1, <1>6 DEF n

\* The month an instant is in is the one that opened last.
LEMMA MonthOfIs ==
    ASSUME NEW m \in Months, NEW t \in Nat, MonthStart[m] <= t, t < MonthStart[m + 1]
    PROVE  MonthOf(t) = m
<1> DEFINE n == Len(MonthStart)
<1>1. /\ n \in Nat /\ n > 1 /\ \A i \in 1 .. n : MonthStart[i] \in Nat
      /\ \A i, j \in 1 .. n : i < j => MonthStart[i] < MonthStart[j]
  BY MonthsRise
<1>2. \A k \in Months : k \in 1 .. n - 1
  BY DEF Months
<1> HIDE DEF n
<1>3. ASSUME NEW k \in Months, MonthStart[k] <= t, t < MonthStart[k + 1], k # m PROVE FALSE
  <2>1. k \in 1 .. n /\ m \in 1 .. n /\ k + 1 \in 1 .. n /\ m + 1 \in 1 .. n
    BY <1>1, <1>2
  <2>2. CASE k < m
    <3>1. MonthStart[k + 1] <= MonthStart[m]
      <4>1. k + 1 = m \/ k + 1 < m
        BY <2>1, <2>2
      <4> QED BY <1>1, <2>1, <4>1
    <3> QED BY <1>1, <1>3, <2>1, <3>1
  <2>3. CASE m < k
    <3>1. MonthStart[m + 1] <= MonthStart[k]
      <4>1. m + 1 = k \/ m + 1 < k
        BY <2>1, <2>3
      <4> QED BY <1>1, <2>1, <4>1
    <3> QED BY <1>1, <1>3, <2>1, <3>1
  <2> QED BY <1>3, <2>1, <2>2, <2>3
<1> QED BY <1>3 DEF MonthOf

\* Every instant is in a month.
LEMMA MonthOfHas ==
    ASSUME NEW t \in Instants
    PROVE  /\ MonthOf(t) \in Months
           /\ MonthStart[MonthOf(t)] <= t /\ t < MonthStart[MonthOf(t) + 1]
<1> DEFINE n == Len(MonthStart)
           after == {j \in 1 .. n : t < MonthStart[j]}
<1>1. /\ n \in Nat /\ n > 1 /\ \A i \in 1 .. n : MonthStart[i] \in Nat /\ MonthStart[1] = 0
  BY MonthsRise, CalendarAssumption
<1>2. t \in Nat /\ t < MonthStart[n]
  <2>1. Eternity \in Nat
    BY RowsDated
  <2> QED BY <2>1 DEF Instants, Eternity
<1>3. Months = 1 .. n - 1
  BY DEF Months
<1> HIDE DEF n
<1>4. after \in SUBSET Nat /\ n \in after
  BY <1>1, <1>2
<1>5. PICK j \in after : \A k \in after : j <= k
  <2>1. after # {}
    BY <1>4
  <2> QED BY <1>4, <2>1, NatLeast
<1>6. j # 1 /\ j \in 1 .. n
  BY <1>1, <1>2
<1>7. PICK m \in 1 .. n - 1 : j = m + 1
  <2>1. j - 1 \in 1 .. n - 1 /\ j = (j - 1) + 1
    BY <1>1, <1>6
  <2> QED BY <2>1
<1>8. m \notin after
  BY <1>1, <1>5, <1>7
<1>9. MonthStart[m] <= t /\ t < MonthStart[m + 1] /\ m \in Months
  BY <1>1, <1>2, <1>3, <1>7, <1>8
<1> QED BY <1>2, <1>9, MonthOfIs

\* Two months that open one after the other.
LEMMA WholeMonths ==
    ASSUME NEW b \in Whole(Openings("month"))
    PROVE  \E m \in Months : /\ m + 1 \in Months
                             /\ b[1] = MonthStart[m] /\ b[2] = MonthStart[m + 1]
<1> DEFINE n == Len(MonthStart)
<1>1. /\ n \in Nat /\ n > 1 /\ \A i \in 1 .. n : MonthStart[i] \in Nat
      /\ \A i, j \in 1 .. n : i < j => MonthStart[i] < MonthStart[j]
  BY MonthsRise
<1>2. Months = 1 .. n - 1
  BY DEF Months
<1>3. Openings("month") = {MonthStart[m] : m \in Months}
  BY DEF Openings
<1> HIDE DEF n
<1>4. /\ b[1] \in Openings("month") /\ b[2] \in Openings("month") /\ b[1] < b[2]
      /\ ~\E e \in Openings("month") : b[1] < e /\ e < b[2]
  BY DEF Whole
<1>5. PICK i \in Months, j \in Months : b[1] = MonthStart[i] /\ b[2] = MonthStart[j]
  BY <1>3, <1>4
<1>6. i < j
  <2>1. CASE i = j
    BY <1>1, <1>2, <1>4, <1>5, <2>1
  <2>2. CASE j < i
    BY <1>1, <1>2, <1>4, <1>5, <2>2
  <2> QED BY <1>1, <1>2, <2>1, <2>2
<1>7. i + 1 = j
  <2> SUFFICES ASSUME i + 1 # j PROVE FALSE
    OBVIOUS
  <2>1. i + 1 \in Months /\ i < i + 1 /\ i + 1 < j
    BY <1>1, <1>2, <1>6
  <2>2. MonthStart[i] < MonthStart[i + 1] /\ MonthStart[i + 1] < MonthStart[j]
    BY <1>1, <1>2, <2>1
  <2> QED BY <1>3, <1>4, <1>5, <2>1, <2>2
<1> QED BY <1>5, <1>7

\* A month earlier is in the month before, and at its opening when it is the
\* opening that is moved.
LEMMA BackIsWithin ==
    ASSUME NEW m \in Months, m > 1, NEW t \in Nat, MonthStart[m] <= t, t < MonthStart[m + 1]
    PROVE  /\ BackMonths(t, 1) \in Nat
           /\ MonthStart[m - 1] <= BackMonths(t, 1) /\ BackMonths(t, 1) < MonthStart[m]
           /\ t = MonthStart[m] => BackMonths(t, 1) = MonthStart[m - 1]
<1> DEFINE n == Len(MonthStart)
           from == MonthStart[m - 1]
           until == MonthStart[m]
           into == t - until
           last == (until - from) \div DAY - 1
           day == Min({into \div DAY, last})
<1>1. /\ n \in Nat /\ n > 1 /\ \A i \in 1 .. n : MonthStart[i] \in Nat
      /\ \A i, j \in 1 .. n : i < j => MonthStart[i] < MonthStart[j]
  BY MonthsRise
<1>2. m \in 1 .. n - 1 /\ m - 1 \in 1 .. n - 1 /\ m - 1 \in Months
  BY <1>1 DEF Months
<1>3. DAY \in Nat \ {0} /\ from % DAY = 0 /\ until % DAY = 0
  BY <1>2, CalendarAssumption
<1>4. from \in Nat /\ until \in Nat /\ from < until /\ into \in Nat
  BY <1>1, <1>2
<1>5. /\ (until - from) \div DAY \in Nat /\ (until - from) \div DAY >= 1
      /\ ((until - from) \div DAY) * DAY = until - from
  BY <1>3, <1>4, MultiplesApart
<1>6. t \in Instants
  <2>1. MonthStart[m + 1] <= MonthStart[n] /\ MonthStart[m + 1] \in Nat /\ MonthStart[n] \in Nat
    <3>1. m + 1 = n \/ m + 1 < n
      BY <1>1, <1>2
    <3>2. m + 1 \in 1 .. n /\ n \in 1 .. n
      BY <1>1, <1>2
    <3> QED BY <1>1, <3>1, <3>2
  <2> QED BY <2>1 DEF Instants, Eternity
<1>7. MonthOf(t) = m
  BY MonthOfIs
<1>8. BackMonths(t, 1) = from + (day * DAY) + (into % DAY)
  <2>1. ~(MonthOf(t) <= 1) /\ m - 1 + 1 = m
    BY <1>2, <1>7
  <2> QED BY <1>6, <1>7, <2>1 DEF BackMonths
<1>9. into \div DAY \in Nat /\ into % DAY \in 0 .. DAY - 1 /\ (into = 0 => into \div DAY = 0 /\ into % DAY = 0)
  <2>1. into \div DAY \in Nat /\ into % DAY \in 0 .. DAY - 1
    BY <1>3, <1>4, Divided
  <2>2. 0 \div DAY = 0 /\ 0 % DAY = 0
    BY <1>3, Z3
  <2> QED BY <2>1, <2>2
<1>10. PICK k \in Nat : k = (until - from) \div DAY /\ k >= 1 /\ k * DAY = until - from
  BY <1>5
<1>11. PICK q \in Nat, r \in Nat : q = into \div DAY /\ r = into % DAY /\ r < DAY
  BY <1>3, <1>9
<1>12. last = k - 1 /\ last \in Nat
  BY <1>10
<1>13. day = IF q <= last THEN q ELSE last
  BY <1>11, <1>12, MinOfTwo
<1> HIDE DEF last, into
<1>14. day \in Nat /\ day < k /\ (q = 0 => day = 0)
  BY <1>10, <1>12, <1>13
<1>15. PICK d \in Nat : d = day
  BY <1>14
<1>16. d * DAY \in Nat /\ d * DAY + DAY <= k * DAY
  <2>1. d * DAY + DAY <= k * DAY /\ d * DAY \in Int
    BY <1>3, <1>10, <1>14, <1>15, FewerTimes
  <2>2. d * DAY >= 0
    BY <1>3, Z3
  <2> QED BY <2>1, <2>2
<1>17. d = 0 => d * DAY = 0
  BY <1>3
<1>18. BackMonths(t, 1) = from + d * DAY + r
  BY <1>8, <1>11, <1>15
<1>19. /\ BackMonths(t, 1) \in Nat /\ from <= BackMonths(t, 1) /\ BackMonths(t, 1) < until
  <2>1. PICK x \in Nat : x = d * DAY
    BY <1>16
  <2>2. x + DAY <= until - from
    BY <1>10, <1>16, <2>1
  <2> QED BY <1>3, <1>4, <1>11, <1>18, <2>1, <2>2
<1>20. ASSUME t = until PROVE BackMonths(t, 1) = from
  <2>1. into = 0
    BY <1>4, <1>20 DEF into
  <2>2. q = 0 /\ r = 0
    BY <1>9, <1>11, <2>1
  <2> QED BY <1>4, <1>14, <1>15, <1>17, <1>18, <2>2
<1> QED BY <1>19, <1>20

\* The buckets of a window a report is asked for are whole months, clipped.
LEMMA BucketsOfSpan ==
    ASSUME NEW w \in Spans
    PROVE  /\ Buckets(w, "month") = Clipped(w, Openings("month"))
           /\ w.from \in Nat /\ w.until \in Nat
<1>1. w.from \in Instants /\ w.until \in Instants
  BY FiguresAssumption
<1>2. 0 \in Openings("month") /\ 0 <= w.from
  <2>1. 1 \in Months /\ MonthStart[1] = 0
    BY CalendarAssumption DEF Months
  <2> QED BY <1>1, <2>1 DEF Openings, Instants
<1>3. w.until \in Nat /\ w.until <= Eternity
  BY <1>1, RowsDated DEF Instants
<1> QED BY <1>1, <1>2, <1>3, BucketsAreClipped DEF Periods

\* A month's bucket, clipped or not, is compared with the month before it.
LEMMA MonthNeighbour ==
    ASSUME NEW w, w.from \in Nat, w.until \in Nat, NEW b \in Clipped(w, Openings("month")),
           NEW p, p = Preceding(b, "month"), p # None
    PROVE  \E m \in Months :
              /\ m > 1 /\ m - 1 \in Months /\ m + 1 \in Months
              /\ b.from \in Nat /\ b.until \in Nat
              /\ MonthStart[m] <= b.from /\ b.from < MonthStart[m + 1]
              /\ p.from \in Nat /\ p.until \in Nat
              /\ MonthStart[m - 1] <= p.from /\ p.until <= MonthStart[m]
              /\ b.from = MonthStart[m] /\ b.until = MonthStart[m + 1]
                    => p = Window(MonthStart[m - 1], MonthStart[m])
<1> DEFINE open == Openings("month")
           n == Len(MonthStart)
<1>1. open \in SUBSET Nat
  BY OpeningsAreInstants DEF Periods
<1>2. PICK q \in Reaching(w, open) : b = Clip(w, q)
  BY DEF Clipped
<1>3. /\ b.from \in Nat /\ b.until \in Nat /\ b.from < b.until
      /\ q[1] <= b.from /\ b.until <= q[2] /\ q[1] \in Nat /\ q[2] \in Nat
  BY <1>1, <1>2, ClipFacts
<1>4. PICK m \in Months : m + 1 \in Months /\ q[1] = MonthStart[m] /\ q[2] = MonthStart[m + 1]
  <2>1. q \in Whole(open)
    BY <1>2 DEF Reaching
  <2> QED BY <2>1, WholeMonths
<1>5. /\ n \in Nat /\ n > 1 /\ \A i \in 1 .. n : MonthStart[i] \in Nat
      /\ \A i, j \in 1 .. n : i < j => MonthStart[i] < MonthStart[j]
  BY MonthsRise
<1>6. Months = 1 .. n - 1
  BY DEF Months
<1> HIDE DEF n
<1>7. b.from < MonthStart[m + 1] /\ MonthStart[m] <= b.from
  BY <1>3, <1>4
<1>8. MonthOf(b.from) = m
  BY <1>3, <1>7, MonthOfIs
<1>9. /\ p = Window(BackMonths(b.from, 1), BackMonths(b.until, 1))
      /\ BackMonths(b.from, 1) # None
  <2>1. Preceding(b, "month") = Between(BackMonths(b.from, 1), BackMonths(b.until, 1))
    BY DEF Preceding
  <2> QED BY <2>1 DEF Between
<1>10. m > 1 /\ m - 1 \in Months
  <2>1. ~(MonthOf(b.from) <= 1)
    BY <1>9 DEF BackMonths
  <2> QED BY <1>5, <1>6, <1>8, <2>1
<1>11. /\ BackMonths(b.from, 1) \in Nat /\ MonthStart[m - 1] <= BackMonths(b.from, 1)
       /\ b.from = MonthStart[m] => BackMonths(b.from, 1) = MonthStart[m - 1]
  BY <1>3, <1>7, <1>10, BackIsWithin
<1>12. /\ BackMonths(b.until, 1) \in Nat /\ BackMonths(b.until, 1) <= MonthStart[m]
       /\ b.until = MonthStart[m + 1] => BackMonths(b.until, 1) = MonthStart[m]
  <2>1. CASE b.until < MonthStart[m + 1]
    <3>1. MonthStart[m] <= b.until /\ MonthStart[m] \in Nat
      BY <1>3, <1>4, <1>7
    <3>2. BackMonths(b.until, 1) \in Nat /\ BackMonths(b.until, 1) < MonthStart[m]
      BY <1>3, <1>10, <2>1, <3>1, BackIsWithin
    <3> QED BY <1>3, <1>4, <2>1, <3>1, <3>2
  <2>2. CASE b.until = MonthStart[m + 1]
    <3>1. PICK k \in Months : k = m + 1
      BY <1>4
    <3>2. /\ k > 1 /\ k - 1 = m /\ MonthStart[k] <= b.until /\ b.until < MonthStart[k + 1]
          /\ MonthStart[m] \in Nat
      BY <1>3, <1>4, <1>5, <1>6, <1>10, <2>2, <3>1
    <3>3. BackMonths(b.until, 1) = MonthStart[k - 1]
      BY <1>3, <2>2, <3>1, <3>2, BackIsWithin
    <3> QED BY <3>2, <3>3
  <2> QED BY <1>3, <1>4, <2>1, <2>2
<1> QED BY <1>3, <1>4, <1>7, <1>9, <1>10, <1>11, <1>12 DEF Window

\* The instant before a month opens is in the month before.
LEMMA MonthBefore ==
    ASSUME NEW m \in Months, m > 1
    PROVE  MonthBucket(MonthStart[m] - 1) = Window(MonthStart[m - 1], MonthStart[m])
<1> DEFINE n == Len(MonthStart)
<1>1. /\ n \in Nat /\ n > 1 /\ \A i \in 1 .. n : MonthStart[i] \in Nat
      /\ \A i, j \in 1 .. n : i < j => MonthStart[i] < MonthStart[j]
  BY MonthsRise
<1>2. Months = 1 .. n - 1
  BY DEF Months
<1> HIDE DEF n
<1>3. PICK k \in Months : k = m - 1
  BY <1>1, <1>2
<1>4. k + 1 = m /\ MonthStart[k] \in Nat /\ MonthStart[m] \in Nat /\ MonthStart[k] < MonthStart[m]
  BY <1>1, <1>2, <1>3
<1>5. PICK t \in Nat : t = MonthStart[m] - 1 /\ MonthStart[k] <= t /\ t < MonthStart[k + 1]
  BY <1>4
<1>6. MonthOf(t) = k
  BY <1>5, MonthOfIs
<1> QED BY <1>3, <1>4, <1>5, <1>6 DEF MonthBucket

\* The previous window of a bucket of stats orders --by month (bucket.rs'
\* walk, Bucket::preceding with checked_sub_months) shares no order with it
\* and lies in the month before, and that of a whole month is the month
\* before, whatever the lengths of the two.
THEOREM NeighbourComparedCorrect == Spec => []NeighbourCompared
<1>1. Stored => NeighbourCompared
  <2> DEFINE orders == LoadOrders(rows, Everyone)
             coverage == CoverageOf(rows, {"order"}, Everyone)
  <2> SUFFICES ASSUME Stored, NEW w \in Spans, NEW x \in BucketWalk(w, "month", coverage),
                      x.previous # None
               PROVE  /\ CreatedOver(orders, x.over) \cap CreatedOver(orders, x.previous) = {}
                      /\ CreatedOver(orders, x.previous)
                            \subseteq CreatedOver(orders,
                                          MonthBucket(MonthBucket(x.bucket.from).from - 1))
                      /\ x.bucket = MonthBucket(x.bucket.from) =>
                            CountsOver(orders, x.previous)
                            = CountsOver(orders, MonthBucket(x.bucket.from - 1))
    BY DEF NeighbourCompared
  <2>1. PICK b \in Buckets(w, "month") : x = Walked(b, Preceding(b, "month"), coverage)
    BY DEF BucketWalk
  <2> HIDE DEF coverage
  <2>2. x.bucket = b /\ x.over = b /\ x.previous = Preceding(b, "month")
    BY <2>1 DEF Walked
  <2>3. PICK p : p = Preceding(b, "month")
    OBVIOUS
  <2>4. b \in Clipped(w, Openings("month")) /\ w.from \in Nat /\ w.until \in Nat
    BY BucketsOfSpan
  <2>5. p # None
    BY <2>2, <2>3
  <2>6. PICK m \in Months :
              /\ m > 1 /\ m - 1 \in Months /\ m + 1 \in Months
              /\ b.from \in Nat /\ b.until \in Nat
              /\ MonthStart[m] <= b.from /\ b.from < MonthStart[m + 1]
              /\ p.from \in Nat /\ p.until \in Nat
              /\ MonthStart[m - 1] <= p.from /\ p.until <= MonthStart[m]
              /\ b.from = MonthStart[m] /\ b.until = MonthStart[m + 1]
                    => p = Window(MonthStart[m - 1], MonthStart[m])
    BY <2>3, <2>4, <2>5, MonthNeighbour
  <2>7. MonthStart[m] \in Nat /\ MonthStart[m - 1] \in Nat
    BY <2>6, MonthsRise DEF Months
  <2>8. MonthBucket(b.from) = Window(MonthStart[m], MonthStart[m + 1])
    BY <2>6, MonthOfIs DEF MonthBucket
  <2>9. MonthBucket(MonthStart[m] - 1) = Window(MonthStart[m - 1], MonthStart[m])
    BY <2>6, MonthBefore
  <2>10. \A o \in orders : o.created_at \in Nat
    BY OrderFields
  <2> HIDE DEF orders
  <2>11. CreatedOver(orders, b) \cap CreatedOver(orders, p) = {}
    BY <2>6, <2>7, <2>10 DEF CreatedOver, Contains
  <2>12. CreatedOver(orders, p) \subseteq CreatedOver(orders, MonthBucket(MonthStart[m] - 1))
    BY <2>6, <2>7, <2>9, <2>10 DEF CreatedOver, Contains, Window
  <2>13. MonthBucket(b.from).from = MonthStart[m]
    BY <2>8 DEF Window
  <2>14. ASSUME b = MonthBucket(b.from) PROVE p = MonthBucket(b.from - 1)
    <3>1. b.from = MonthStart[m] /\ b.until = MonthStart[m + 1]
      BY <2>8, <2>14 DEF Window
    <3> QED BY <2>6, <2>9, <3>1
  <2> QED BY <2>2, <2>3, <2>11, <2>12, <2>13, <2>14
<1> QED BY <1>1, StoredInit, RowsGrow, PTL DEF Spec

-----------------------------------------------------------------------------
(* The partitions.                                                         *)

\* Months open in order, so that an instant of a run of them is in one of it.
LEMMA MonthAmong ==
    ASSUME NEW a \in Months, NEW z \in Months, NEW t \in Instants
    PROVE  MonthStart[a] <= t /\ t < MonthStart[z + 1] <=> a <= MonthOf(t) /\ MonthOf(t) <= z
<1> DEFINE n == Len(MonthStart)
<1>1. /\ n \in Nat /\ n > 1 /\ \A i \in 1 .. n : MonthStart[i] \in Nat
      /\ \A i, j \in 1 .. n : i < j => MonthStart[i] < MonthStart[j]
  BY MonthsRise
<1>2. Months = 1 .. n - 1
  BY DEF Months
<1> HIDE DEF n
<1>3. PICK m \in Months : m = MonthOf(t) /\ MonthStart[m] <= t /\ t < MonthStart[m + 1]
  BY MonthOfHas
<1>4. t \in Nat
  BY DEF Instants
<1>5. /\ a \in 1 .. n /\ z \in 1 .. n /\ m \in 1 .. n /\ z + 1 \in 1 .. n /\ m + 1 \in 1 .. n
      /\ a + 1 \in 1 .. n
  BY <1>1, <1>2
<1>6. a <= m => MonthStart[a] <= MonthStart[m]
  <2>1. CASE a < m
    BY <1>1, <1>5, <2>1
  <2>2. CASE a = m
    BY <1>1, <1>5, <2>2
  <2> QED BY <1>5, <2>1, <2>2
<1>7. m < a => MonthStart[m + 1] <= MonthStart[a]
  <2>1. CASE m + 1 < a
    BY <1>1, <1>5, <2>1
  <2>2. CASE m + 1 = a
    BY <1>1, <1>5, <2>2
  <2> QED BY <1>5, <2>1, <2>2
<1>8. m <= z => MonthStart[m + 1] <= MonthStart[z + 1]
  <2>1. CASE m + 1 < z + 1
    BY <1>1, <1>5, <2>1
  <2>2. CASE m = z
    BY <1>1, <1>5, <2>2
  <2> QED BY <1>5, <2>1, <2>2
<1>9. z < m => MonthStart[z + 1] <= MonthStart[m]
  <2>1. CASE z + 1 < m
    BY <1>1, <1>5, <2>1
  <2>2. CASE z + 1 = m
    BY <1>1, <1>5, <2>2
  <2> QED BY <1>5, <2>1, <2>2
<1>10. /\ MonthStart[a] \in Nat /\ MonthStart[m] \in Nat /\ MonthStart[m + 1] \in Nat
       /\ MonthStart[z + 1] \in Nat
  BY <1>1, <1>5
<1> QED BY <1>3, <1>4, <1>5, <1>6, <1>7, <1>8, <1>9, <1>10

\* A month or a year is a run of months: it holds the instant it was asked
\* for, and any other instant of it names the same one.
IsPart(p, t) ==
    /\ \E a, z \in Months : p = Window(MonthStart[a], MonthStart[z + 1])
    /\ Contains(p, t)

LEMMA MonthIsPart ==
    ASSUME NEW t \in Instants
    PROVE  /\ IsPart(MonthBucket(t), t)
           /\ \A s \in Instants : Contains(MonthBucket(t), s) => MonthBucket(s) = MonthBucket(t)
<1>1. PICK m \in Months : m = MonthOf(t) /\ MonthStart[m] <= t /\ t < MonthStart[m + 1]
  BY MonthOfHas
<1>2. MonthBucket(t) = Window(MonthStart[m], MonthStart[m + 1])
  BY <1>1 DEF MonthBucket
<1>3. ASSUME NEW s \in Instants, Contains(MonthBucket(t), s) PROVE MonthBucket(s) = MonthBucket(t)
  <2>1. MonthStart[m] <= s /\ s < MonthStart[m + 1] /\ s \in Nat /\ MonthStart[m] \in Nat
    <3>1. MonthStart[m] \in Nat
      BY MonthsRise DEF Months
    <3> QED BY <1>2, <1>3, <3>1 DEF Contains, Window, Instants
  <2>2. MonthOf(s) = m
    BY <2>1, MonthOfIs
  <2> QED BY <1>1, <2>2 DEF MonthBucket
<1>4. MonthStart[m] \in Nat /\ t \in Nat
  BY MonthsRise DEF Months, Instants
<1> QED BY <1>1, <1>2, <1>3, <1>4 DEF IsPart, Contains, Window

\* The months of a year.
InYear(y) == {m \in Months : (m - 1) \div YEAR = y}

LEMMA YearIsPart ==
    ASSUME NEW t \in Instants
    PROVE  /\ IsPart(YearBucket(t), t)
           /\ \A s \in Instants : Contains(YearBucket(t), s) => YearBucket(s) = YearBucket(t)
<1> DEFINE n == Len(MonthStart)
           y == YearOf(t)
           a == Min(InYear(y))
           z == Max(InYear(y))
<1>1. n \in Nat /\ n > 1 /\ \A i \in 1 .. n : MonthStart[i] \in Nat
  BY MonthsRise
<1>2. Months = 1 .. n - 1
  BY DEF Months
<1>3. MonthOf(t) \in InYear(y) /\ MonthOf(t) \in Months
  BY MonthOfHas DEF InYear, YearOf
<1>4. InYear(y) \in SUBSET Nat /\ InYear(y) # {} /\ IsFiniteSet(InYear(y))
  <2>1. IsFiniteSet(1 .. n - 1)
    BY <1>1, FS_Interval
  <2>2. InYear(y) \subseteq 1 .. n - 1
    BY <1>2 DEF InYear
  <2>3. 1 .. n - 1 \subseteq Nat
    BY <1>1
  <2> QED BY <1>3, <2>1, <2>2, <2>3, FS_Subset
<1>5. /\ a \in InYear(y) /\ \A m \in InYear(y) : a <= m
      /\ z \in InYear(y) /\ \A m \in InYear(y) : z >= m
  BY <1>4, MinType, MaxType
<1>6. YearBucket(t) = Window(MonthStart[a], MonthStart[z + 1])
  BY DEF YearBucket, InYear
<1>7. a \in Months /\ z \in Months
  BY <1>5 DEF InYear
<1> HIDE DEF n, a, z
<1>8. \A m \in InYear(y) : m \in Nat /\ m <= z
  BY <1>4, <1>5
<1>9. MonthStart[a] \in Nat /\ MonthStart[z + 1] \in Nat /\ t \in Nat
  BY <1>1, <1>2, <1>7 DEF Instants
<1>10. IsPart(YearBucket(t), t)
  <2>1. MonthStart[a] <= t /\ t < MonthStart[z + 1]
    BY <1>3, <1>5, <1>7, <1>8, MonthAmong
  <2> QED BY <1>6, <1>7, <1>9, <2>1 DEF IsPart, Contains, Window
<1>11. ASSUME NEW s \in Instants, Contains(YearBucket(t), s) PROVE YearBucket(s) = YearBucket(t)
  <2>1. MonthStart[a] <= s /\ s < MonthStart[z + 1]
    BY <1>6, <1>9, <1>11 DEF Contains, Window, Instants
  <2>2. PICK m \in Months : m = MonthOf(s) /\ a <= m /\ m <= z
    BY <1>7, <2>1, MonthAmong, MonthOfHas
  <2>3. PICK i, j, k \in Nat : i = a - 1 /\ j = m - 1 /\ k = z - 1 /\ i <= j /\ j <= k
    <3>1. a - 1 \in Nat /\ m - 1 \in Nat /\ z - 1 \in Nat /\ a - 1 <= m - 1 /\ m - 1 <= z - 1
      BY <1>1, <1>2, <1>7, <2>2
    <3> QED BY <3>1
  <2>4. i \div YEAR = y /\ k \div YEAR = y
    BY <1>5, <2>3 DEF InYear
  <2>5. YEAR \in Nat \ {0}
    BY CalendarAssumption
  <2>6. /\ i \div YEAR \in Nat /\ j \div YEAR \in Nat /\ k \div YEAR \in Nat
        /\ i \div YEAR <= j \div YEAR /\ j \div YEAR <= k \div YEAR
    BY <2>3, <2>5, DividedRises
  <2>7. j \div YEAR = y
    BY <2>4, <2>6
  <2>8. YearOf(s) = YearOf(t)
    BY <2>2, <2>3, <2>7 DEF YearOf
  <2> QED BY <2>8 DEF YearBucket
<1> QED BY <1>10, <1>11

\* Which a resolution is cut by.
PartOf(resolution, t) == IF resolution = "monthly" THEN YearBucket(t) ELSE MonthBucket(t)

LEMMA PartFacts ==
    ASSUME NEW resolution, NEW t \in Instants
    PROVE  /\ \A s \in Instants :
                 Contains(PartOf(resolution, s), t) => PartOf(resolution, s) = PartOf(resolution, t)
           /\ Contains(PartOf(resolution, t), t)
           /\ PartOf(resolution, t).from \in Openings("month") \cap Openings("day")
           /\ PartOf(resolution, t).from \in Instants
           /\ PartOf(resolution, t).until \in Nat /\ PartOf(resolution, t).until <= Eternity
<1> DEFINE p == PartOf(resolution, t)
           n == Len(MonthStart)
<1>1. \A s \in Instants : Contains(PartOf(resolution, s), t) => PartOf(resolution, s) = p
  BY MonthIsPart, YearIsPart DEF PartOf
<1>2. IsPart(p, t)
  BY MonthIsPart, YearIsPart DEF PartOf
<1>3. PICK a, z \in Months : p = Window(MonthStart[a], MonthStart[z + 1])
  BY <1>2 DEF IsPart
<1>4. /\ n \in Nat /\ n > 1 /\ \A i \in 1 .. n : MonthStart[i] \in Nat
      /\ \A i, j \in 1 .. n : i < j => MonthStart[i] < MonthStart[j]
  BY MonthsRise
<1>5. Months = 1 .. n - 1 /\ Eternity = MonthStart[n]
  BY DEF Months, Eternity
<1> HIDE DEF p, n
<1>6. /\ a \in 1 .. n /\ z + 1 \in 1 .. n /\ n \in 1 .. n /\ a < n /\ (z + 1 < n \/ z + 1 = n)
  BY <1>4, <1>5
<1>7. /\ MonthStart[a] \in Nat /\ MonthStart[z + 1] \in Nat /\ Eternity \in Nat
      /\ MonthStart[a] < Eternity /\ MonthStart[z + 1] <= Eternity
  BY <1>4, <1>5, <1>6
<1>8. MonthStart[a] \in Instants
  BY <1>7 DEF Instants
<1>9. MonthStart[a] \in Openings("month") /\ MonthStart[a] \in Openings("day")
  BY <1>8, CalendarAssumption DEF Openings
<1>10. p.from = MonthStart[a] /\ p.until = MonthStart[z + 1]
  BY <1>3 DEF Window
<1> QED BY <1>1, <1>2, <1>7, <1>8, <1>9, <1>10 DEF IsPart, p

\* An instant of a window that has an opening after it is in one bucket of
\* it, and every bucket lies in the window.
LEMMA BucketAround ==
    ASSUME NEW period \in Periods, NEW w, w.from \in Openings(period), w.from \in Instants,
           w.until \in Nat, w.until <= Eternity
    PROVE  /\ \A t \in Nat : Contains(w, t) /\ (\E d \in Openings(period) : t < d)
                             => \E b \in Buckets(w, period) : Contains(b, t)
           /\ \A b \in Buckets(w, period), t \in Nat :
                 Contains(b, t) => /\ Contains(w, t)
                                   /\ \A c \in Buckets(w, period) : Contains(c, t) => c = b
           /\ \A b \in Buckets(w, period) : b.from \in Nat /\ b.until \in Nat
<1> DEFINE open == Openings(period)
<1>1. open \in SUBSET Nat
  BY OpeningsAreInstants
<1>2. w.from \in Nat /\ \E t \in open : t <= w.from
  BY DEF Instants
<1>3. Buckets(w, period) = Clipped(w, open)
  BY <1>2, BucketsAreClipped
<1>4. ASSUME NEW t \in Nat, Contains(w, t), \E d \in open : t < d
      PROVE  \E b \in Clipped(w, open) : Contains(b, t)
  <2>1. t >= w.from /\ t < w.until
    BY <1>4 DEF Contains
  <2>2. \E c \in open : c <= t
    BY <1>2, <2>1
  <2>3. PICK b \in Whole(open) : b[1] <= t /\ t < b[2]
    BY <1>1, <1>4, <2>2, WholeAround
  <2>4. b[1] \in Nat /\ b[2] \in Nat
    BY <1>1 DEF Whole
  <2>5. b \in Reaching(w, open)
    BY <1>2, <2>1, <2>3, <2>4 DEF Reaching
  <2>6. Contains(Clip(w, b), t)
    BY <1>1, <1>2, <1>4, <2>3, <2>5, ClipFacts
  <2> QED BY <2>5, <2>6 DEF Clipped
<1>5. ASSUME NEW b \in Clipped(w, open)
      PROVE  /\ b.from \in Nat /\ b.until \in Nat
             /\ \A t \in Nat : Contains(b, t) => Contains(w, t)
  <2>1. PICK q \in Reaching(w, open) : b = Clip(w, q)
    BY DEF Clipped
  <2> QED BY <1>1, <1>2, <2>1, ClipFacts
<1>6. ASSUME NEW b \in Clipped(w, open), NEW c \in Clipped(w, open), NEW t \in Nat,
             Contains(b, t), Contains(c, t), b # c
      PROVE  FALSE
  <2>1. b.until <= c.from \/ c.until <= b.from
    BY <1>1, <1>2, <1>6, ClippedApart
  <2> QED BY <1>5, <1>6, <2>1 DEF Contains
<1> QED BY <1>3, <1>4, <1>5, <1>6

\* An opening of a week is so many days, and these so many weeks and the
\* first Monday.
LEMMA WeekIs ==
    ASSUME NEW u \in Nat
    PROVE  u \in Openings("week") <=>
              /\ u \in Instants
              /\ \E q \in Nat, k \in Nat : u = q * DAY /\ q = k * WEEK + MONDAY
<1>1. /\ DAY \in Nat \ {0} /\ WEEK \in Nat \ {0} /\ MONDAY \in Nat /\ MONDAY < WEEK
      /\ Openings("week") = {t \in Instants : t % DAY = 0 /\ (t \div DAY) % WEEK = MONDAY}
  BY CalendarAssumption DEF Openings
<1>2. ASSUME u \in Openings("week")
      PROVE  u \in Instants /\ \E q \in Nat, k \in Nat : u = q * DAY /\ q = k * WEEK + MONDAY
  <2>1. u \in Instants /\ u % DAY = 0 /\ (u \div DAY) % WEEK = MONDAY
    BY <1>1, <1>2
  <2>2. PICK q, r \in Nat : q = u \div DAY /\ r = u % DAY /\ q * DAY \in Nat /\ u = q * DAY + r
    BY <1>1, DividedParts
  <2>3. PICK k, m \in Nat : k = q \div WEEK /\ m = q % WEEK /\ k * WEEK \in Nat /\ q = k * WEEK + m
    BY <1>1, DividedParts
  <2>4. r = 0 /\ m = MONDAY
    BY <2>1, <2>2, <2>3
  <2>5. u = q * DAY
    BY <2>2, <2>4
  <2>6. q = k * WEEK + MONDAY
    BY <2>3, <2>4
  <2> QED BY <2>1, <2>5, <2>6
<1>3. ASSUME NEW q \in Nat, NEW k \in Nat, u \in Instants, u = q * DAY, q = k * WEEK + MONDAY
      PROVE  u \in Openings("week")
  <2>1. q * DAY + 0 = q * DAY
    BY <1>3
  <2>2. u \div DAY = q /\ u % DAY = 0
    <3>1. 0 \in Nat /\ 0 < DAY
      BY <1>1
    <3>2. (q * DAY + 0) \div DAY = q /\ (q * DAY + 0) % DAY = 0
      BY <1>1, <3>1, DividedIs
    <3> QED BY <1>3, <2>1, <3>2
  <2>3. q % WEEK = MONDAY
    BY <1>1, <1>3, DividedIs
  <2> QED BY <1>1, <1>3, <2>2, <2>3
<1> QED BY <1>2, <1>3

\* A day and a week later.
LEMMA TimesMore ==
    ASSUME NEW x \in Nat, NEW y \in Nat, NEW d \in Nat
    PROVE  (x + y) * d = x * d + y * d /\ x * d \in Nat /\ y * d \in Nat
BY Z3

\* Openings of weeks are a week or more apart.
LEMMA WeeksApart ==
    ASSUME NEW u \in Openings("week"), NEW v \in Openings("week"), u < v
    PROVE  u + WEEK * DAY <= v
<1>1. DAY \in Nat \ {0} /\ WEEK \in Nat \ {0} /\ MONDAY \in Nat /\ MONDAY < WEEK
  BY CalendarAssumption
<1>2. u \in Nat /\ v \in Nat
  BY OpeningsAreInstants DEF Periods
<1>3. PICK p \in Nat, i \in Nat : u = p * DAY /\ p = i * WEEK + MONDAY
  BY <1>2, WeekIs
<1>4. PICK q \in Nat, j \in Nat : v = q * DAY /\ q = j * WEEK + MONDAY
  BY <1>2, WeekIs
<1>5. p % WEEK = q % WEEK
  <2>1. (i * WEEK + MONDAY) % WEEK = MONDAY
    BY <1>1, DividedIs
  <2>2. (j * WEEK + MONDAY) % WEEK = MONDAY
    BY <1>1, DividedIs
  <2> QED BY <1>3, <1>4, <2>1, <2>2
<1>6. p < q
  <2>1. CASE q < p
    <3>1. q * DAY + DAY <= p * DAY
      BY <1>1, <2>1, FewerTimes
    <3> QED BY <1>1, <1>2, <1>3, <1>4, <3>1
  <2>2. CASE p = q
    BY <1>2, <1>3, <1>4, <2>2
  <2> QED BY <2>1, <2>2
<1>7. p + WEEK <= q
  BY <1>1, <1>5, <1>6, SameRemainder
<1>8. (p + WEEK) * DAY = p * DAY + WEEK * DAY /\ WEEK * DAY \in Nat
  BY <1>1, TimesMore
<1>9. (p + WEEK) * DAY <= q * DAY
  <2>1. CASE p + WEEK = q
    BY <1>2, <1>4, <2>1
  <2>2. CASE p + WEEK < q
    <3>1. PICK x \in Nat : x = p + WEEK
      BY <1>1
    <3>2. x * DAY + DAY <= q * DAY /\ x * DAY \in Int
      BY <1>1, <2>2, <3>1, FewerTimes
    <3> QED BY <1>1, <1>2, <1>4, <3>1, <3>2
  <2> QED BY <1>1, <1>7, <2>1, <2>2
<1> QED BY <1>2, <1>3, <1>4, <1>8, <1>9

\* From the first of them on every instant is in a week.
LEMMA WeekAround ==
    ASSUME NEW t \in Instants, NEW c \in Openings("week"), c <= t
    PROVE  \E u \in Openings("week") : c <= u /\ u <= t /\ t < u + WEEK * DAY
<1> DEFINE before == {e \in Openings("week") : e <= t}
           ages == {t - e : e \in before}
<1>1. DAY \in Nat \ {0} /\ WEEK \in Nat \ {0} /\ MONDAY \in Nat
  BY CalendarAssumption
<1>2. t \in Nat /\ Openings("week") \in SUBSET Nat
  BY OpeningsAreInstants DEF Periods, Instants
<1>3. ages \in SUBSET Nat /\ ages # {}
  <2>1. ASSUME NEW e \in before PROVE t - e \in Nat
    <3>1. e \in Nat /\ e <= t
      BY <1>2
    <3> QED BY <1>2, <3>1
  <2> QED BY <2>1
<1>4. PICK a \in ages : \A x \in ages : a <= x
  BY <1>3, NatLeast
<1>5. PICK u \in before : a = t - u
  OBVIOUS
<1>6. \A e \in before : e <= u /\ e \in Nat
  <2> SUFFICES ASSUME NEW e \in before PROVE e <= u
    BY <1>2
  <2>1. t - u <= t - e
    BY <1>4, <1>5
  <2>2. e \in Nat /\ u \in Nat
    BY <1>2
  <2> QED BY <1>2, <2>1, <2>2
<1>7. u \in Openings("week") /\ u \in Nat /\ u <= t
  BY <1>2
<1>8. ASSUME ~(t < u + WEEK * DAY) PROVE FALSE
  <2>1. PICK q \in Nat, k \in Nat : u = q * DAY /\ q = k * WEEK + MONDAY
    BY <1>7, WeekIs
  <2>2. PICK m \in Nat : m = WEEK * DAY /\ m > 0
    <3>1. WEEK * DAY \in Nat /\ WEEK * DAY > 0
      BY <1>1, Z3
    <3> QED BY <3>1
  <2>3. PICK v \in Nat : v = u + m
    BY <1>7, <2>2
  <2>4. v <= t /\ u < v
    BY <1>2, <1>7, <1>8, <2>2, <2>3
  <2>5. v = (q + WEEK) * DAY
    BY <1>1, <2>1, <2>2, <2>3, TimesMore
  <2>6. q + WEEK = (k + 1) * WEEK + MONDAY
    <3>1. (k + 1) * WEEK = k * WEEK + 1 * WEEK /\ k * WEEK \in Nat
      BY <1>1, TimesMore
    <3>2. 1 * WEEK = WEEK
      BY <1>1
    <3> QED BY <1>1, <2>1, <3>1, <3>2
  <2>7. v \in Instants
    BY <1>2, <2>4, RowsDated DEF Instants
  <2>8. q + WEEK \in Nat /\ k + 1 \in Nat
    BY <1>1
  <2>9. v \in Openings("week")
    BY <2>5, <2>6, <2>7, <2>8, WeekIs
  <2>10. v \in before
    BY <2>4, <2>9
  <2> QED BY <1>6, <1>7, <2>4, <2>10
<1>9. c \in before
  OBVIOUS
<1> QED BY <1>6, <1>7, <1>8, <1>9

-----------------------------------------------------------------------------
(* The rows with figures.                                                  *)

\* The ceiling of the archive is no earlier than any of its events.
LEMMA CeilingFacts ==
    ASSUME Stored, NEW v \in EventsOf(rows)
    PROVE  /\ Extent(rows).latest \in Instants /\ Extent(rows).latest \in Nat
           /\ v.at \in Nat /\ v.at \in Instants /\ v.at <= Extent(rows).latest
<1> DEFINE E == EventsOf(rows)
           at == [x \in E |-> x.at]
           ats == {at[x] : x \in E}
<1>0. E \subseteq rows
  BY DEF EventsOf
<1>1. \A x \in E : x.at \in Nat /\ x.at \in Instants
  BY <1>0, RowsDated, FiguresAssumption DEF Stored
<1>2. Extent(rows).latest = Max(ats)
  BY DEF Extent
<1>3. ats \in SUBSET Nat /\ ats # {} /\ ats \subseteq Instants /\ v.at \in ats
  BY <1>1
<1>4. IsFiniteSet(ats)
  <2>1. IsFiniteSet(E)
    BY <1>0, FiguresAssumption, FS_Subset DEF Stored
  <2> QED BY <2>1, ColumnFinite
<1> HIDE DEF ats
<1>5. Max(ats) \in ats /\ Max(ats) >= v.at
  BY <1>3, <1>4, MaxType
<1> QED BY <1>1, <1>2, <1>3, <1>5

\* The floors of the kinds, and of the archive after them.
Floors == {KindFloor(rows, k, Everyone) : k \in DOMAIN IndexedFrom}

LEMMA FloorIs ==
    /\ Extent(rows).earliest = IF Earliest(EventsOf(rows)) = None \/ None \in Floors THEN None
                               ELSE Max(Floors \cup {Earliest(EventsOf(rows))})
    /\ \A k \in DOMAIN IndexedFrom :
          KindFloor(rows, k, Everyone)
          = IF k \in SINGLE_COPY_KINDS
            THEN IF IndexedFrom[k] # None THEN IndexedFrom[k] ELSE Earliest(OfKind(rows, k))
            ELSE IF Earliest(OfKind(rows, k)) # None THEN Earliest(OfKind(rows, k))
                 ELSE IndexedFrom[k]
<1>1. {v \in EventsOf(rows) : InInstance(Everyone, v)} = EventsOf(rows)
  BY DEF InInstance, Everyone
<1>2. \A k : {v \in OfKind(rows, k) : InInstance(Everyone, v)} = OfKind(rows, k)
  BY DEF InInstance, Everyone
<1>3. Extent(rows).earliest = Floor(rows, DOMAIN IndexedFrom, Everyone)
  BY DEF Extent
<1> QED BY <1>1, <1>2, <1>3 DEF Floor, KindFloor, Floors

\* When there are all of them their latest is a number.
LEMMA FloorNumber ==
    ASSUME Stored, Earliest(EventsOf(rows)) # None, None \notin Floors
    PROVE  Max(Floors \cup {Earliest(EventsOf(rows))}) \in Nat
<1> DEFINE K == DOMAIN IndexedFrom
           of == [k \in K |-> KindFloor(rows, k, Everyone)]
           all == Floors \cup {Earliest(EventsOf(rows))}
<1>1. \A V \in SUBSET Versions : Earliest(V) \in Nat \cup {None}
  BY EarliestIsSeen, RowsDated
<1>2. ASSUME NEW k \in K PROVE KindFloor(rows, k, Everyone) \in Nat \cup {None}
  <2>1. OfKind(rows, k) \in SUBSET Versions
    BY DEF Stored, OfKind
  <2>2. Earliest(OfKind(rows, k)) \in Nat \cup {None} /\ IndexedFrom[k] \in Nat \cup {None}
    BY <1>1, <2>1, LedgerAssumption
  <2> QED BY <2>2, FloorIs
<1>3. Earliest(EventsOf(rows)) \in Nat
  BY <1>1 DEF Stored, EventsOf
<1>4. IsFiniteSet(Floors)
  <2>1. IsFiniteSet({of[k] : k \in K})
    BY LedgerAssumption, ColumnFinite
  <2>2. {of[k] : k \in K} = Floors
    BY DEF Floors
  <2> QED BY <2>1, <2>2
<1>5. all \in SUBSET Nat /\ all # {}
  BY <1>2, <1>3 DEF Floors
<1>6. IsFiniteSet(all)
  BY <1>4, FS_AddElement
<1> HIDE DEF all
<1>7. Max(all) \in Nat
  BY <1>5, <1>6, MaxType
<1> QED BY <1>7 DEF all

\* The floor of the archive, when it has one, is a number.
LEMMA ExtentFacts ==
    ASSUME Stored, Extent(rows).earliest # None
    PROVE  /\ Extent(rows).earliest \in Nat
           /\ \A v \in EventsOf(rows) :
                 /\ Extent(rows).latest \in Instants /\ Extent(rows).latest \in Nat
                 /\ v.at \in Nat /\ v.at \in Instants /\ v.at <= Extent(rows).latest
<1>1. /\ Earliest(EventsOf(rows)) # None /\ None \notin Floors
      /\ Extent(rows).earliest = Max(Floors \cup {Earliest(EventsOf(rows))})
  BY FloorIs
<1> QED BY <1>1, FloorNumber, CeilingFacts

\* The rows of a partition with figures are those the archive speaks for.
LEMMA FilledRows ==
    ASSUME Stored, NEW resolution, NEW p
    PROVE  Filled(PartitionRows(SnapshotData(rows, now), "orders", resolution, p, Extent(rows), now))
           = {row \in RowsOf(resolution, p) : RowCovered(Extent(rows), row, now)}
<1> DEFINE orders == LoadOrders(rows, Everyone)
           data == SnapshotData(rows, now)
           table == PartitionRows(data, "orders", resolution, p, Extent(rows), now)
<1>1. data.orders = orders
  BY DEF SnapshotData
<1>2. IsFiniteSet(orders)
  BY OrdersFinite
<1> HIDE DEF data
<1>3. \A w : Block("orders", data, w, now) = SummariseActivity(orders, w, now)
  BY <1>1 DEF Block
<1>4. "created" \in Catalogue("orders", data, p, now)
  <2>1. "created" \in DOMAIN SummariseActivity(orders, p, now)
    BY ActivityCounts DEF CountNames
  <2> QED BY <1>3, <2>1 DEF Catalogue, Plottable, AboutNow, Deltas
<1>5. ASSUME NEW row PROVE Measure("orders", "created", data, row, now) # None
  <2>1. /\ "created" \in DOMAIN SummariseActivity(orders, row, now)
        /\ SummariseActivity(orders, row, now).created = Cardinality(CreatedOver(orders, row))
    <3>1. "created" \in CountNames
      BY DEF CountNames
    <3>2. /\ "created" \in DOMAIN SummariseActivity(orders, row, now)
          /\ SummariseActivity(orders, row, now)["created"]
             = Cardinality(Counted(orders, row, now)["created"])
      BY <3>1, ActivityCounts
    <3>3. Counted(orders, row, now)["created"] = CreatedOver(orders, row)
      BY DEF Counted
    <3> QED BY <3>2, <3>3
  <2>2. Measure("orders", "created", data, row, now) = Cardinality(CreatedOver(orders, row))
    BY <1>3, <2>1 DEF Measure, FigureOf
  <2>3. CreatedOver(orders, row) \subseteq orders
    BY DEF CreatedOver
  <2>4. Cardinality(CreatedOver(orders, row)) \in Nat
    <3> HIDE DEF orders
    <3> QED BY <1>2, <2>3, FS_Subset, FS_CardinalityType
  <2> QED BY <2>2, <2>4, CalendarAssumption
<1>6. DOMAIN table = RowsOf(resolution, p)
  BY DEF PartitionRows
<1>7. ASSUME NEW row \in RowsOf(resolution, p)
      PROVE  table[row].created # None <=> RowCovered(Extent(rows), row, now)
  <2>1. table[row].created = IF RowCovered(Extent(rows), row, now)
                             THEN Measure("orders", "created", data, row, now) ELSE None
    BY <1>4 DEF PartitionRows
  <2> QED BY <1>5, <2>1
<1> HIDE DEF table
<1>8. Filled(table) = {row \in RowsOf(resolution, p) : RowCovered(Extent(rows), row, now)}
  BY <1>6, <1>7 DEF Filled
<1> QED BY <1>8 DEF table, data

\* One thing is one.
LEMMA OnlyOne ==
    ASSUME NEW S, NEW x \in S, \A y \in S : y = x
    PROVE  Cardinality(S) = 1
<1>1. S = {x}
  OBVIOUS
<1> QED BY <1>1, FS_Singleton

\* The partitions that are published, when the archive has a floor and an
\* event: one for each instant from the floor to the ceiling or the clock.
LEMMA PublishedParts ==
    ASSUME Stored, NEW v \in InExtent, now \in Nat, NEW resolution
    PROVE  /\ \A t \in Instants :
                 /\ t >= Extent(rows).earliest /\ t <= v.at
                 => PartOf(resolution, t) \in SpansPublished(resolution)
           /\ \A p \in SpansPublished(resolution) : \E s \in Instants : p = PartOf(resolution, s)
<1> DEFINE e == Extent(rows).earliest
           l == Extent(rows).latest
           last == Min({l, now})
           first == PartOf(resolution, e).from
<1>1. v \in EventsOf(rows) /\ e # None /\ v.at >= e /\ v.at < now
  BY DEF InExtent
<1>2. e \in Nat /\ l \in Instants /\ l \in Nat /\ v.at \in Nat /\ v.at \in Instants /\ v.at <= l
  BY <1>1, ExtentFacts
<1>3. last = IF l <= now THEN l ELSE now
  BY <1>2, MinOfTwo
<1>4. l # None /\ ~(e > now)
  BY <1>1, <1>2, RowsDated
<1>5. Partitions(Extent(rows), resolution, now) = {PartOf(resolution, t) : t \in first .. last}
  BY <1>1, <1>4 DEF Partitions, PartOf
<1> HIDE DEF last, e, l
<1>6. last \in Nat /\ last <= l /\ v.at <= last
  BY <1>1, <1>2, <1>3
<1>9. first \in Nat /\ first <= e
  <2>1. e \in Instants
    BY <1>1, <1>2, RowsDated DEF Instants
  <2> QED BY <1>2, <2>1, PartFacts DEF Contains, Instants
<1> HIDE DEF first
<1>7. \A t \in first .. last : t \in Instants
  BY <1>2, <1>6, <1>9, RowsDated DEF Instants
<1>8. ASSUME NEW t \in Instants, t >= e, t <= v.at
      PROVE  PartOf(resolution, t) \in SpansPublished(resolution)
  <2>1. t \in Nat /\ t \in first .. last
    BY <1>2, <1>6, <1>8, <1>9 DEF Instants
  <2>2. PICK p : p = PartOf(resolution, t)
    OBVIOUS
  <2>3. Contains(p, t) /\ p.from \in Nat /\ p.until \in Nat
    BY <2>2, PartFacts DEF Instants
  <2>4. p.until > e /\ p.from <= l
    BY <1>2, <1>6, <1>8, <2>1, <2>3 DEF Contains
  <2>5. SpeaksFor(Extent(rows), p)
    BY <1>1, <2>4 DEF SpeaksFor, e, l
  <2> QED BY <1>5, <2>1, <2>2, <2>5 DEF SpansPublished
<1> QED BY <1>5, <1>7, <1>8 DEF SpansPublished, e

\* What is plotted at a resolution.
LEMMA PlottedRows ==
    ASSUME Stored, NEW resolution, NEW row
    PROVE  row \in Plotted(resolution) <=>
              \E p \in SpansPublished(resolution) :
                 row \in RowsOf(resolution, p) /\ RowCovered(Extent(rows), row, now)
<1> DEFINE filled(p) == Filled(PartitionRows(SnapshotData(rows, now), "orders", resolution, p,
                                             Extent(rows), now))
<1>1. Plotted(resolution) = UNION {filled(p) : p \in SpansPublished(resolution)}
  BY DEF Plotted
<1>2. \A p : filled(p) = {r \in RowsOf(resolution, p) : RowCovered(Extent(rows), r, now)}
  BY FilledRows
<1> HIDE DEF filled
<1> QED BY <1>1, <1>2

\* A row that holds an event of the extent is covered.
LEMMA EventCovered ==
    ASSUME Stored, NEW v \in InExtent, now \in Nat, NEW row, row.from \in Nat, row.until \in Nat,
           Contains(row, v.at)
    PROVE  RowCovered(Extent(rows), row, now)
<1> DEFINE e == Extent(rows).earliest
           l == Extent(rows).latest
<1>1. v \in EventsOf(rows) /\ e # None /\ v.at >= e /\ v.at < now
  BY DEF InExtent
<1>2. e \in Nat /\ l \in Nat /\ v.at \in Nat /\ v.at <= l
  BY <1>1, ExtentFacts
<1> HIDE DEF e, l
<1>3. row.until > e /\ row.from <= l /\ row.from < now
  BY <1>1, <1>2 DEF Contains
<1> QED BY <1>1, <1>3 DEF RowCovered, SpeaksFor, e, l

\* At the resolutions whose rows are the buckets of a partition each event
\* has one.
LEMMA BucketsPlotted ==
    ASSUME Stored, now \in Nat, NEW v \in InExtent,
           NEW resolution, NEW period \in {"day", "month"},
           \A p : RowsOf(resolution, p) = Buckets(p, period)
    PROVE  Cardinality({row \in Plotted(resolution) : Contains(row, v.at)}) = 1
<1> DEFINE S == {row \in Plotted(resolution) : Contains(row, v.at)}
           p == PartOf(resolution, v.at)
<1>1. /\ v \in EventsOf(rows) /\ v \in rows
      /\ v.at >= Extent(rows).earliest /\ Extent(rows).earliest # None
  BY DEF InExtent, EventsOf
<1>2. v.at \in Nat /\ v.at \in Instants /\ v.at <= v.at
  BY <1>1, ExtentFacts
<1>3. period \in Periods /\ period \in {"day", "week", "month"}
  BY DEF Periods
<1>4. \E d \in Openings(period) : v.at < d
  BY <1>1, <1>3, FiguresAssumption DEF Stored
<1>5. p \in SpansPublished(resolution)
  BY <1>1, <1>2, PublishedParts
<1>6. /\ Contains(p, v.at) /\ p.from \in Openings(period) /\ p.from \in Instants
      /\ p.until \in Nat /\ p.until <= Eternity
  BY <1>2, PartFacts
<1> HIDE DEF p
<1>7. PICK b \in Buckets(p, period) : Contains(b, v.at)
  BY <1>2, <1>3, <1>4, <1>6, BucketAround
<1>8. b.from \in Nat /\ b.until \in Nat
  BY <1>3, <1>6, BucketAround
<1>9. b \in S
  <2>1. RowCovered(Extent(rows), b, now)
    BY <1>7, <1>8, EventCovered
  <2>2. b \in Plotted(resolution)
    BY <1>5, <1>7, <2>1, PlottedRows
  <2> QED BY <1>7, <2>2
<1>10. ASSUME NEW c \in S PROVE c = b
  <2>1. PICK q \in SpansPublished(resolution) : c \in Buckets(q, period)
    BY PlottedRows
  <2>2. PICK s \in Instants : q = PartOf(resolution, s)
    BY PublishedParts
  <2>3. /\ q.from \in Openings(period) /\ q.from \in Instants
        /\ q.until \in Nat /\ q.until <= Eternity
    BY <2>2, PartFacts
  <2>4. Contains(q, v.at)
    BY <1>2, <1>3, <2>1, <2>3, BucketAround
  <2>5. q = p
    BY <1>2, <2>2, <2>4, PartFacts DEF p
  <2> QED BY <1>2, <1>3, <1>6, <1>7, <2>1, <2>5, BucketAround
<1> HIDE DEF S
<1>11. Cardinality(S) = 1
  BY <1>9, <1>10, OnlyOne
<1> QED BY <1>11 DEF S

\* The rows of a weekly partition.
LEMMA WeeklyRows ==
    ASSUME NEW p, NEW row
    PROVE  row \in RowsOf("weekly", p) <=>
              \E u \in Openings("week") : Contains(p, u) /\ row = Window(u, u + WEEK * DAY)
BY DEF RowsOf

\* From the first Monday of the archive's first month on each event has one
\* weekly row.
LEMMA WeeksPlotted ==
    ASSUME Stored, now \in Nat, NEW v \in InExtent, NEW monday,
           monday = Min({t \in Openings("week") : t >= MonthBucket(Extent(rows).earliest).from}),
           v.at >= monday
    PROVE  Cardinality({row \in Plotted("weekly") : Contains(row, v.at)}) = 1
<1> DEFINE S == {row \in Plotted("weekly") : Contains(row, v.at)}
           e == Extent(rows).earliest
           month == MonthBucket(e)
           later == {t \in Openings("week") : t >= month.from}
<1>1. v \in EventsOf(rows) /\ v \in rows /\ v.at >= e /\ e # None
  BY DEF InExtent, EventsOf
<1>2. v.at \in Nat /\ v.at \in Instants /\ e \in Nat
  BY <1>1, ExtentFacts
<1>3. e \in Instants
  BY <1>1, <1>2, RowsDated DEF Instants
<1>4. month = PartOf("weekly", e)
  BY DEF PartOf
<1>5. Contains(month, e) /\ month.from \in Nat /\ month.until \in Nat
  BY <1>3, <1>4, PartFacts DEF Instants
<1>6. Openings("week") \in SUBSET Nat
  BY OpeningsAreInstants DEF Periods
<1>7. PICK d \in Openings("week") : v.at < d
  BY <1>1, FiguresAssumption DEF Stored
<1>8. monday = Min(later)
  OBVIOUS
<1> HIDE DEF e, month
<1>9. d \in later
  BY <1>1, <1>2, <1>5, <1>6, <1>7 DEF Contains
<1>10. later \in SUBSET Nat /\ later # {}
  BY <1>6, <1>9
<1>11. monday \in Openings("week") /\ monday >= month.from /\ monday \in Nat
  <2>1. Min(later) \in later
    BY <1>10, MinType
  <2> QED BY <1>8, <1>10, <2>1
<1>12. monday <= v.at
  BY <1>2, <1>11
<1>13. PICK u \in Openings("week") : monday <= u /\ u <= v.at /\ v.at < u + WEEK * DAY
  BY <1>2, <1>11, <1>12, WeekAround
<1>14. u \in Nat /\ u \in Instants /\ WEEK * DAY \in Nat
  <2>1. u \in Nat
    BY <1>6
  <2>2. WEEK * DAY \in Nat
    BY CalendarAssumption, TimesMore
  <2> QED BY <1>2, <1>13, <2>1, <2>2, RowsDated DEF Instants
<1> DEFINE row == Window(u, u + WEEK * DAY)
<1>15. row.from \in Nat /\ row.until \in Nat /\ Contains(row, v.at)
  BY <1>2, <1>13, <1>14 DEF Window, Contains
<1>16. PICK p \in SpansPublished("weekly") : Contains(p, u)
  <2>1. CASE u >= e
    <3>1. PartOf("weekly", u) \in SpansPublished("weekly")
      BY <1>13, <1>14, <2>1, PublishedParts DEF e
    <3> QED BY <1>14, <3>1, PartFacts
  <2>2. CASE u < e
    <3>1. PartOf("weekly", e) \in SpansPublished("weekly")
      BY <1>1, <1>2, <1>3, PublishedParts DEF e
    <3>2. Contains(month, u)
      BY <1>2, <1>5, <1>11, <1>13, <1>14, <2>2 DEF Contains
    <3> QED BY <1>4, <3>1, <3>2
  <2> QED BY <1>2, <1>14, <2>1, <2>2
<1>17. row \in S
  <2>1. row \in RowsOf("weekly", p)
    BY <1>16, WeeklyRows
  <2>2. RowCovered(Extent(rows), row, now)
    BY <1>15, EventCovered
  <2>3. row \in Plotted("weekly")
    BY <1>16, <2>1, <2>2, PlottedRows
  <2> QED BY <1>15, <2>3
<1>18. ASSUME NEW c \in S PROVE c = row
  <2>1. PICK x \in Openings("week") : c = Window(x, x + WEEK * DAY)
    BY PlottedRows, WeeklyRows
  <2>2. x \in Nat /\ x <= v.at /\ v.at < x + WEEK * DAY
    BY <1>6, <2>1 DEF Contains, Window
  <2>3. CASE x < u
    <3>1. x + WEEK * DAY <= u
      BY <2>3, WeeksApart
    <3> QED BY <1>2, <1>13, <1>14, <2>2, <3>1
  <2>4. CASE u < x
    <3>1. u + WEEK * DAY <= x
      BY <2>4, WeeksApart
    <3> QED BY <1>2, <1>13, <1>14, <2>2, <3>1
  <2>5. CASE x = u
    BY <2>1, <2>5
  <2> QED BY <1>14, <2>2, <2>3, <2>4, <2>5
<1> HIDE DEF S, row
<1>19. Cardinality(S) = 1
  BY <1>17, <1>18, OnlyOne
<1> QED BY <1>19 DEF S

\* The clock shows an instant.
Clocked == now \in Clocks

\* It does from the start and goes on doing so.
LEMMA ClockRuns ==
    /\ Init => Clocked
    /\ Clocked /\ [Next]_vars => Clocked'
<1>1. Init => Clocked
  BY DEF Init, Clocked
<1>2. ASSUME Clocked, [Next]_vars PROVE Clocked'
  <2>1. CASE Tick
    BY <2>1 DEF Tick, Clocked
  <2>2. ASSUME NEW v \in Versions, Ingest(v) PROVE Clocked'
    BY <1>2, <2>2 DEF Ingest, Clocked
  <2>3. ASSUME NEW q \in Questions, Ask(q) PROVE Clocked'
    BY <1>2, <2>3 DEF Ask, Clocked
  <2>4. CASE Report
    BY <1>2, <2>4 DEF Report, Clocked
  <2>5. CASE Client
    BY <1>2, <2>5 DEF Client, Type, Clocked
  <2>6. CASE UNCHANGED vars
    BY <1>2, <2>6 DEF vars, Clocked
  <2> QED BY <1>2, <2>1, <2>2, <2>3, <2>4, <2>5, <2>6 DEF Next, Indexer
<1> QED BY <1>1, <1>2

\* A client that reads every partition of one resolution finds each event
\* between the archive's floor and the clock in exactly one row with figures
\* (Coverage::partitions, Bucket::window, rows_of and the null rule of
\* partition); weekly rows are whole weeks, and from the first Monday of the
\* archive's first month on no event is without one.
THEOREM EventsPlottedCorrect == Spec => []EventsPlotted
<1>1. Stored /\ Clocked => EventsPlotted
  <2> SUFFICES ASSUME Stored, Clocked PROVE EventsPlotted
    OBVIOUS
  <2> DEFINE monday == Min({t \in Openings("week") :
                               t >= MonthBucket(Extent(rows).earliest).from})
  <2>1. now \in Nat
    BY FiguresAssumption DEF Clocked, Instants
  <2>2. PlottedOnce("daily", 0)
    <3>1. \A p : RowsOf("daily", p) = Buckets(p, "day")
      BY DEF RowsOf
    <3>2. \A v \in InExtent :
             Cardinality({row \in Plotted("daily") : Contains(row, v.at)}) = 1
      BY <2>1, <3>1, BucketsPlotted
    <3> QED BY <3>2 DEF PlottedOnce
  <2>3. PlottedOnce("monthly", 0)
    <3>1. \A p : RowsOf("monthly", p) = Buckets(p, "month")
      BY DEF RowsOf
    <3>2. \A v \in InExtent :
             Cardinality({row \in Plotted("monthly") : Contains(row, v.at)}) = 1
      BY <2>1, <3>1, BucketsPlotted
    <3> QED BY <3>2 DEF PlottedOnce
  <2>4. PlottedOnce("weekly", monday)
    <3>1. \A v \in InExtent :
             v.at >= monday =>
                Cardinality({row \in Plotted("weekly") : Contains(row, v.at)}) = 1
      BY <2>1, WeeksPlotted
    <3> QED BY <3>1 DEF PlottedOnce
  <2>5. ASSUME NEW row \in Plotted("weekly") PROVE row.until - row.from = WEEK * DAY
    <3>1. PICK u \in Openings("week") : row = Window(u, u + WEEK * DAY)
      BY PlottedRows, WeeklyRows
    <3>2. u \in Nat /\ WEEK * DAY \in Nat
      BY OpeningsAreInstants, CalendarAssumption, TimesMore DEF Periods
    <3> QED BY <3>1, <3>2 DEF Window
  <2> HIDE DEF monday
  <2>6. EventsPlotted <=>
           /\ PlottedOnce("daily", 0) /\ PlottedOnce("monthly", 0)
           /\ InExtent # {} =>
                 /\ \A row \in Plotted("weekly") : row.until - row.from = WEEK * DAY
                 /\ PlottedOnce("weekly", monday)
    BY DEF EventsPlotted, monday
  <2> QED BY <2>2, <2>3, <2>4, <2>5, <2>6
<1> QED BY <1>1, StoredInit, RowsGrow, ClockRuns, PTL DEF Spec

-----------------------------------------------------------------------------
(* What the clock moves.                                                   *)

\* Two clocks that have both passed the last event.
Passed(c) ==
    /\ EventsOf(rows) # {} /\ c \in Nat /\ c \in Instants /\ Extent(rows).latest < c
    /\ Extent(rows).earliest # None => Extent(rows).earliest <= c

\* What a joined block holds.
LEMMA JoinedFacts ==
    ASSUME NEW block, NEW more
    PROVE  /\ DOMAIN Joined(block, more) = DOMAIN block \cup DOMAIN more
           /\ \A name \in DOMAIN block : Joined(block, more)[name] = block[name]
BY DEF Joined

\* The ceiling is a number before both.
LEMMA PassedFacts ==
    ASSUME Stored, NEW c, Passed(c)
    PROVE  /\ Extent(rows).latest \in Nat /\ Extent(rows).latest \in Instants
           /\ Extent(rows).latest # None
           /\ Min({Extent(rows).latest, c}) = Extent(rows).latest
<1>1. PICK v \in EventsOf(rows) : TRUE
  BY DEF Passed
<1>2. Extent(rows).latest \in Nat /\ Extent(rows).latest \in Instants
  BY CeilingFacts
<1>3. PICK l \in Nat : l = Extent(rows).latest
  BY <1>2
<1>4. Min({l, c}) = l
  BY <1>3, MinOfTwo DEF Passed
<1> QED BY <1>2, <1>3, <1>4, RowsDated

\* The windows of the documents are the same,
LEMMA WindowStill ==
    ASSUME Stored, NEW c, NEW d, Passed(c), Passed(d), NEW span
    PROVE  WindowOf(span, Extent(rows), c) = WindowOf(span, Extent(rows), d)
BY PassedFacts DEF WindowOf

\* and so are the partitions.
LEMMA PartitionsStill ==
    ASSUME Stored, NEW c, Passed(c), NEW resolution
    PROVE  Partitions(Extent(rows), resolution, c)
           = IF Extent(rows).earliest = None THEN {}
             ELSE {PartOf(resolution, t) :
                      t \in PartOf(resolution, Extent(rows).earliest).from .. Extent(rows).latest}
<1> DEFINE e == Extent(rows).earliest
           l == Extent(rows).latest
<1>1. l \in Nat /\ l # None /\ Min({l, c}) = l /\ l < c /\ c \in Nat
  BY PassedFacts DEF Passed
<1>2. CASE e = None
  BY <1>2 DEF Partitions
<1>3. CASE e # None
  <2>1. e \in Nat /\ ~(e > c)
    BY <1>1, <1>3, ExtentFacts DEF Passed
  <2> QED BY <1>1, <1>3, <2>1 DEF Partitions, PartOf
<1> QED BY <1>2, <1>3

\* The partitions are months and years of the calendar.
LEMMA PartitionsAreParts ==
    ASSUME Stored, NEW c, Passed(c), NEW resolution,
           NEW p \in Partitions(Extent(rows), resolution, c)
    PROVE  \E s \in Instants : p = PartOf(resolution, s)
<1>1. Extent(rows).earliest # None
  BY PartitionsStill
<1> DEFINE first == PartOf(resolution, Extent(rows).earliest).from
<1>2. PICK t \in first .. Extent(rows).latest : p = PartOf(resolution, t)
  BY <1>1, PartitionsStill
<1>3. first \in Nat /\ Extent(rows).latest \in Nat /\ Extent(rows).latest < Eternity
  <2>1. Extent(rows).latest \in Instants
    BY PassedFacts
  <2>2. PICK e \in Nat : e = Extent(rows).earliest /\ e <= c
    BY <1>1, ExtentFacts DEF Passed
  <2>3. e \in Instants
    BY <2>2, RowsDated DEF Passed, Instants
  <2>4. first \in Instants
    BY <2>2, <2>3, PartFacts
  <2> QED BY <2>1, <2>4, RowsDated DEF Instants
<1> HIDE DEF first
<1>4. t \in Instants
  <2>1. PICK e, l \in Nat : e = first /\ l = Extent(rows).latest /\ l < Eternity
    BY <1>3
  <2> QED BY <1>2, <2>1, RowsDated DEF Instants
<1> QED BY <1>2, <1>4

\* Their rows open at numbers, so that a row the archive speaks for has
\* begun by both clocks.
LEMMA CoveredStill ==
    ASSUME Stored, NEW c, NEW d, Passed(c), Passed(d), NEW resolution \in Resolutions,
           NEW p \in Partitions(Extent(rows), resolution, c), NEW row \in RowsOf(resolution, p)
    PROVE  RowCovered(Extent(rows), row, c) <=> RowCovered(Extent(rows), row, d)
<1>1. PICK s \in Instants : p = PartOf(resolution, s)
  BY PartitionsAreParts
<1>2. /\ p.from \in Openings("month") \cap Openings("day") /\ p.from \in Instants
      /\ p.until \in Nat /\ p.until <= Eternity
  BY <1>1, PartFacts
<1>3. row.from \in Nat
  <2>1. CASE resolution = "daily"
    <3>1. row \in Buckets(p, "day") /\ "day" \in Periods
      BY <2>1 DEF RowsOf, Periods
    <3> QED BY <1>2, <3>1, BucketAround
  <2>2. CASE resolution = "monthly"
    <3>1. row \in Buckets(p, "month") /\ "month" \in Periods
      BY <2>2 DEF RowsOf, Periods
    <3> QED BY <1>2, <3>1, BucketAround
  <2>3. CASE resolution = "weekly"
    <3>1. PICK u \in Openings("week") : row = Window(u, u + WEEK * DAY)
      BY <2>3, WeeklyRows
    <3> QED BY <3>1, OpeningsAreInstants DEF Periods, Window
  <2> QED BY <2>1, <2>2, <2>3 DEF Resolutions
<1>4. PICK l \in Nat : l = Extent(rows).latest /\ l # None
  BY PassedFacts
<1>5. l < c /\ l < d /\ c \in Nat /\ d \in Nat
  BY <1>4 DEF Passed
<1>6. SpeaksFor(Extent(rows), row) => row.from <= l
  BY <1>4 DEF SpeaksFor
<1>7. row.from <= l => row.from < c /\ row.from < d
  BY <1>3, <1>4, <1>5
<1> QED BY <1>6, <1>7 DEF RowCovered

\* Every kind was asked for, but orders and rates may not have been.
OthersAsked == \A k \in DOMAIN IndexedFrom \ {"order", "rates"} : IndexedFrom[k] # None

\* Then an archive without a floor has no orders or no rates.
LEMMA NoFloor ==
    ASSUME Stored, EventsOf(rows) # {}, OthersAsked, Extent(rows).earliest = None
    PROVE  OfKind(rows, "order") = {} \/ OfKind(rows, "rates") = {}
<1>1. \A V \in SUBSET Versions : V # {} => Earliest(V) # None
  BY EarliestIsSeen, RowsDated
<1>2. Earliest(EventsOf(rows)) # None
  BY <1>1 DEF Stored, EventsOf
<1>3. None \in Floors
  <2> SUFFICES ASSUME None \notin Floors PROVE FALSE
    OBVIOUS
  <2>1. Max(Floors \cup {Earliest(EventsOf(rows))}) = None
    BY <1>2, FloorIs
  <2>2. Max(Floors \cup {Earliest(EventsOf(rows))}) \in Nat
    BY <1>2, FloorNumber
  <2> QED BY <2>1, <2>2, RowsDated
<1>4. PICK k \in DOMAIN IndexedFrom : KindFloor(rows, k, Everyone) = None
  BY <1>3 DEF Floors
<1>5. IndexedFrom[k] = None /\ Earliest(OfKind(rows, k)) = None
  BY <1>4, FloorIs
<1>6. OfKind(rows, k) = {}
  <2>1. OfKind(rows, k) \in SUBSET Versions
    BY DEF Stored, OfKind
  <2> QED BY <1>1, <1>5, <2>1
<1>7. k \in {"order", "rates"}
  BY <1>5 DEF OthersAsked
<1> QED BY <1>6, <1>7

\* The book a snapshot is priced with.
BookAt(c) == LoadBook(rows, Window(IF Extent(rows).earliest = None THEN c
                                   ELSE Extent(rows).earliest, c))

\* It prices what was settled the same.
LEMMA QuotesStill ==
    ASSUME Stored, OthersAsked, NEW c, NEW d, Passed(c), Passed(d),
           NEW o \in LoadOrders(rows, Everyone), o.success_at # None
    PROVE  RateAt(BookAt(c), o.pubkey, Reference, o.success_at)
           = RateAt(BookAt(d), o.pubkey, Reference, o.success_at)
<1> DEFINE A == OfKind(rows, "rates")
           B == BookAt(c)
           C == BookAt(d)
           p == o.pubkey
           t == o.success_at
           own(X) == {s \in X : s.pubkey = p}
<1>1. \A s \in A : s.stamp \in Nat
  BY FiguresAssumption DEF OfKind, Stored
<1>2. PICK v \in OfKind(rows, "order") : v.at = t
  BY OrderMoments
<1>3. t \in Nat /\ t < c /\ t < d /\ c \in Nat /\ d \in Nat /\ MAX_AGE \in Nat
  <2>1. v \in EventsOf(rows)
    BY DEF OfKind, EventsOf
  <2>2. PICK l \in Nat : l = Extent(rows).latest /\ t <= l /\ t \in Nat
    BY <1>2, <2>1, CeilingFacts
  <2> QED BY <2>2, LedgerAssumption DEF Passed
<1>4. \A s \in A : s.stamp <= t => (s \in B <=> s \in C)
  <2>1. CASE Extent(rows).earliest = None
    <3>1. A = {}
      BY <1>2, <2>1, NoFloor DEF Passed
    <3> QED BY <3>1
  <2>2. CASE Extent(rows).earliest # None
    <3>1. PICK f \in Nat : f = Extent(rows).earliest
      BY <2>2, ExtentFacts
    <3>2. /\ B = {s \in A : s.stamp >= f - MAX_AGE /\ s.stamp < c}
          /\ C = {s \in A : s.stamp >= f - MAX_AGE /\ s.stamp < d}
      BY <2>2, <3>1 DEF BookAt, LoadBook, Window
    <3> QED BY <1>1, <1>3, <3>2
  <2> QED BY <2>1, <2>2
<1>5. B \subseteq A /\ C \subseteq A
  BY DEF BookAt, LoadBook
<1> HIDE DEF A, B, C, p, t
<1>6. Usable(B, Reference, t) = Usable(C, Reference, t)
  BY <1>4, <1>5 DEF Usable
<1>7. Usable(own(B), Reference, t) = Usable(own(C), Reference, t)
  BY <1>4, <1>5 DEF Usable
<1> DEFINE mine == own(B)
           others == own(C)
<1> HIDE DEF mine, others
<1>8. Newest(B, Reference, t) = Newest(C, Reference, t)
  BY <1>6, SameNewest
<1>9. Newest(mine, Reference, t) = Newest(others, Reference, t)
  BY <1>7, SameNewest DEF mine, others
<1>10. Newest(own(B), Reference, t) = Newest(own(C), Reference, t)
  BY <1>9 DEF mine, others
<1>11. RateAt(B, p, Reference, t) = RateAt(C, p, Reference, t)
  BY <1>8, <1>10 DEF RateAt
<1> QED BY <1>11 DEF B, C, p, t

\* So what is converted stays.
LEMMA ConvertStill ==
    ASSUME Stored, OthersAsked, NEW c, NEW d, Passed(c), Passed(d), NEW w
    PROVE  Convert(LoadOrders(rows, Everyone), w, BookAt(c), Reference)
           = Convert(LoadOrders(rows, Everyone), w, BookAt(d), Reference)
<1> DEFINE D == CompletedOver(LoadOrders(rows, Everyone), w)
<1>1. \A o \in D : o \in LoadOrders(rows, Everyone) /\ o.success_at # None
  BY DEF CompletedOver, Dated
<1> HIDE DEF D
<1>2. \A o \in D : RateAt(BookAt(c), o.pubkey, Reference, o.success_at)
                   = RateAt(BookAt(d), o.pubkey, Reference, o.success_at)
  BY <1>1, QuotesStill
<1>3. [o \in D |-> RateAt(BookAt(c), o.pubkey, Reference, o.success_at)]
      = [o \in D |-> RateAt(BookAt(d), o.pubkey, Reference, o.success_at)]
  BY <1>2
<1> QED BY <1>3 DEF Convert, D

\* What a snapshot is computed from: the clock shows in the book alone.
LEMMA DataAt ==
    ASSUME Stored, NEW c
    PROVE  LET data == SnapshotData(rows, c)
           IN  /\ data.orders = LoadOrders(rows, Everyone)
               /\ data.fees = DevFeeData(rows, Everyone)
               /\ data.disputes = DisputeData(rows, Everyone)
               /\ data.profiles = LoadProfiles(rows, Everyone) /\ data.pct = PctSetting
               /\ data.priced = [book |-> BookAt(c), code |-> Reference]
               /\ data.priced # None
               /\ data.priced.book = BookAt(c) /\ data.priced.code = Reference
<1>1. [book |-> BookAt(c), code |-> Reference] # None
  <2>1. BookAt(c) \in SUBSET Versions
    BY DEF BookAt, LoadBook, OfKind, Stored
  <2> QED BY <2>1, FiguresAssumption
<1> QED BY <1>1 DEF SnapshotData, BookAt

\* The blocks that look at no clock stay whole,
LEMMA BlocksStill ==
    ASSUME Stored, OthersAsked, NEW c, NEW d, Passed(c), Passed(d), NEW w,
           NEW family \in {"volume", "dev-fees"}
    PROVE  Block(family, SnapshotData(rows, c), w, c) = Block(family, SnapshotData(rows, d), w, d)
<1> DEFINE orders == LoadOrders(rows, Everyone)
           fees == DevFeeData(rows, Everyone)
           C == SnapshotData(rows, c)
           D == SnapshotData(rows, d)
           rowsOf(x) == ConvertedRows(Convert(orders, w, BookAt(x), Reference))
<1>1. /\ C.orders = orders /\ C.priced # None /\ C.fees = fees /\ C.pct = PctSetting
      /\ C.priced.book = BookAt(c) /\ C.priced.code = Reference
  BY DataAt
<1>2. /\ D.orders = orders /\ D.priced # None /\ D.fees = fees /\ D.pct = PctSetting
      /\ D.priced.book = BookAt(d) /\ D.priced.code = Reference
  BY DataAt
<1>3. rowsOf(c) = rowsOf(d)
  BY ConvertStill
<1> HIDE DEF C, D, orders, fees
<1>4. CASE family = "volume"
  <2>1. Block(family, C, w, c) = Joined(SummariseVolume(orders, w), [in |-> rowsOf(c)])
    BY <1>1, <1>4 DEF Block
  <2>2. Block(family, D, w, d) = Joined(SummariseVolume(orders, w), [in |-> rowsOf(d)])
    BY <1>2, <1>4 DEF Block
  <2>3. Block(family, C, w, c) = Block(family, D, w, d)
    BY <1>3, <2>1, <2>2
  <2> QED BY <2>3 DEF C, D
<1>5. CASE family = "dev-fees"
  <2> DEFINE block == Joined(SummariseDevFees(fees, w),
                             IF PctSetting = None THEN << >>
                             ELSE [implied |-> Implied(fees, w, PctSetting)])
  <2>1. Block(family, C, w, c) = block
    BY <1>1, <1>5 DEF Block
  <2>2. Block(family, D, w, d) = block
    BY <1>2, <1>5 DEF Block
  <2> QED BY <2>1, <2>2 DEF C, D
<1> QED BY <1>4, <1>5

\* and of the other two all that is plotted.
LEMMA MeasuresStill ==
    ASSUME Stored, OthersAsked, NEW c, NEW d, Passed(c), Passed(d), NEW w,
           NEW family \in Families
    PROVE  /\ Catalogue(family, SnapshotData(rows, c), w, c)
              = Catalogue(family, SnapshotData(rows, d), w, d)
           /\ \A name : Plottable(name) =>
                 Measure(family, name, SnapshotData(rows, c), w, c)
                 = Measure(family, name, SnapshotData(rows, d), w, d)
<1> DEFINE C == SnapshotData(rows, c)
           D == SnapshotData(rows, d)
           orders == LoadOrders(rows, Everyone)
           disputes == DisputeData(rows, Everyone)
<1>1. CASE family \in {"volume", "dev-fees"}
  BY <1>1, BlocksStill DEF Catalogue, Measure
<1>2. ASSUME NEW dated, NEW live, NEW later, NEW names \in SUBSET AboutNow,
             DOMAIN live = names, DOMAIN later = names,
             Block(family, C, w, c) = Joined(dated, live),
             Block(family, D, w, d) = Joined(dated, later)
      PROVE  /\ Catalogue(family, C, w, c) = Catalogue(family, D, w, d)
             /\ \A name : Plottable(name) =>
                   Measure(family, name, C, w, c) = Measure(family, name, D, w, d)
  <2> DEFINE B == Block(family, C, w, c)
             E == Block(family, D, w, d)
  <2>1. /\ DOMAIN B = DOMAIN dated \cup names /\ DOMAIN E = DOMAIN dated \cup names
        /\ \A name \in DOMAIN dated : B[name] = dated[name] /\ E[name] = dated[name]
    BY <1>2, JoinedFacts
  <2>2. \A name : Plottable(name) => name \notin names
    BY DEF Plottable
  <2> HIDE DEF B, E
  <2>3. \A name : Plottable(name) => FigureOf(B, name) = FigureOf(E, name)
    BY <2>1, <2>2 DEF FigureOf
  <2>4. {name \in DOMAIN B : Plottable(name)} = {name \in DOMAIN E : Plottable(name)}
    BY <2>1
  <2> QED BY <2>3, <2>4 DEF Catalogue, Measure, B, E
<1>3. C.orders = orders /\ D.orders = orders /\ C.disputes = disputes /\ D.disputes = disputes
  BY DataAt
<1> HIDE DEF C, D, orders, disputes
<1>4. CASE family = "orders"
  <2> DEFINE live(x) == LiveActivity(orders, x)
             dated == DatedActivity(orders, w, Previous(w))
             names == {"open_now", "in_progress_now"}
  <2>1. Block(family, C, w, c) = Joined(dated, live(c)) /\ Block(family, D, w, d) = Joined(dated, live(d))
    BY <1>3, <1>4 DEF Block, SummariseActivity
  <2>2. names \in SUBSET AboutNow /\ \A x \in {c, d} : DOMAIN live(x) = names
    BY DEF AboutNow, LiveActivity
  <2> DEFINE before == live(c)
             later == live(d)
  <2> HIDE DEF live, dated, names, before, later
  <2>3. /\ Catalogue(family, C, w, c) = Catalogue(family, D, w, d)
        /\ \A name : Plottable(name) =>
              Measure(family, name, C, w, c) = Measure(family, name, D, w, d)
    <3>1. /\ Block(family, C, w, c) = Joined(dated, before) /\ DOMAIN before = names
          /\ Block(family, D, w, d) = Joined(dated, later) /\ DOMAIN later = names
      BY <2>1, <2>2 DEF before, later
    <3> QED BY <1>2, <2>2, <3>1
  <2> QED BY <2>3 DEF C, D
<1>5. CASE family = "disputes"
  <2> DEFINE live(x) == [open |-> OpenDisputes(disputes, x)]
             dated == DatedDisputes(disputes, w)
             names == {"open"}
  <2>1. Block(family, C, w, c) = Joined(dated, live(c)) /\ Block(family, D, w, d) = Joined(dated, live(d))
    BY <1>3, <1>5 DEF Block, SummariseDisputes
  <2>2. names \in SUBSET AboutNow /\ \A x \in {c, d} : DOMAIN live(x) = names
    BY DEF AboutNow
  <2> DEFINE before == live(c)
             later == live(d)
  <2> HIDE DEF live, dated, names, before, later
  <2>3. /\ Catalogue(family, C, w, c) = Catalogue(family, D, w, d)
        /\ \A name : Plottable(name) =>
              Measure(family, name, C, w, c) = Measure(family, name, D, w, d)
    <3>1. /\ Block(family, C, w, c) = Joined(dated, before) /\ DOMAIN before = names
          /\ Block(family, D, w, d) = Joined(dated, later) /\ DOMAIN later = names
      BY <2>1, <2>2 DEF before, later
    <3> QED BY <1>2, <2>2, <3>1
  <2> QED BY <2>3 DEF C, D
<1> QED BY <1>1, <1>4, <1>5 DEF Families

\* Only a tick moves it, and forward.
LEMMA ClockTicks ==
    ASSUME [Next]_vars, now' # now
    PROVE  now' \in Clocks /\ now' > now
<1>1. CASE Tick
  BY <1>1 DEF Tick
<1>2. ASSUME NEW v \in Versions, Ingest(v) PROVE FALSE
  BY <1>2 DEF Ingest
<1>3. ASSUME NEW q \in Questions, Ask(q) PROVE FALSE
  BY <1>3 DEF Ask
<1>4. CASE Report
  BY <1>4 DEF Report
<1>5. CASE Client
  BY <1>5 DEF Client, Type
<1>6. CASE UNCHANGED vars
  BY <1>6 DEF vars
<1> QED BY <1>1, <1>2, <1>3, <1>4, <1>5, <1>6 DEF Next, Indexer

\* A row of the comparison reads two dated figures of the activity.
LEMMA CompareStill ==
    ASSUME Stored, NEW c, NEW d, NEW w
    PROVE  CompareView(SnapshotData(rows, c), w, c) = CompareView(SnapshotData(rows, d), w, d)
<1> DEFINE C == SnapshotData(rows, c)
           D == SnapshotData(rows, d)
           orders == LoadOrders(rows, Everyone)
           profiles == LoadProfiles(rows, Everyone)
           paid == DevFeeData(rows, Everyone)
           opened == DisputeData(rows, Everyone)
           P == {q.pubkey : q \in profiles}
           line(p, completed, rate) ==
              LET profile  == CHOOSE q \in profiles : q.pubkey = p
                  fees     == FeesByInstance(paid)
                  disputes == IF opened = None THEN << >> ELSE DisputesByInstance(opened)
              IN  [ completed       |-> completed,
                    volume_sats     |-> ObservedSats(Own(orders, p), w),
                    completion_rate |-> rate,
                    fee             |-> profile.fee,
                    dev_fees_sats   |-> IF p \in DOMAIN fees
                                        THEN SummariseDevFees(fees[p], w).total_sats ELSE 0,
                    dispute_rate    |-> IF p \in DOMAIN disputes
                                        THEN DatedDisputes(disputes[p], w).rate ELSE None ]
           of(p, x) == SummariseActivity(Own(orders, p), w, x)
<1>1. /\ C.orders = orders /\ C.fees = paid /\ C.disputes = opened /\ C.profiles = profiles
      /\ D.orders = orders /\ D.fees = paid /\ D.disputes = opened /\ D.profiles = profiles
  BY DataAt
<1>2. ASSUME NEW p
      PROVE  /\ of(p, c).completed = of(p, d).completed
             /\ of(p, c).completion_rate = of(p, d).completion_rate
  <2> DEFINE dated == DatedActivity(Own(orders, p), w, Previous(w))
  <2>1. {"completed", "completion_rate"} \subseteq DOMAIN dated
    BY DEF DatedActivity
  <2>2. \A x : of(p, x) = Joined(dated, LiveActivity(Own(orders, p), x))
    BY DEF SummariseActivity
  <2>3. ASSUME NEW x, NEW name \in DOMAIN dated PROVE of(p, x)[name] = dated[name]
    <3> DEFINE live == LiveActivity(Own(orders, p), x)
    <3>1. of(p, x) = Joined(dated, live)
      BY <2>2
    <3> HIDE DEF dated, of, live
    <3>2. Joined(dated, live)[name] = dated[name]
      BY JoinedFacts
    <3> QED BY <3>1, <3>2
  <2> HIDE DEF dated, of
  <2> QED BY <2>1, <2>3
<1> HIDE DEF C, D, orders, profiles, paid, opened
<1>3. CompareView(C, w, c) = [p \in P |-> line(p, of(p, c).completed, of(p, c).completion_rate)]
  BY <1>1 DEF CompareView
<1>4. CompareView(D, w, d) = [p \in P |-> line(p, of(p, d).completed, of(p, d).completion_rate)]
  BY <1>1 DEF CompareView
<1> HIDE DEF line, of, P
<1>5. \A p \in P : line(p, of(p, c).completed, of(p, c).completion_rate)
                   = line(p, of(p, d).completed, of(p, d).completion_rate)
  BY <1>2
<1>6. CompareView(C, w, c) = CompareView(D, w, d)
  BY <1>3, <1>4, <1>5
<1> QED BY <1>6 DEF C, D

\* The documents dated by the archive stay,
LEMMA DocumentsStill ==
    ASSUME Stored, OthersAsked, NEW c, NEW d, Passed(c), Passed(d), NEW w,
           NEW report \in {"volume", "market", "dev-fees", "compare"}
    PROVE  WindowMetrics(report, SnapshotData(rows, c), w, c)
           = WindowMetrics(report, SnapshotData(rows, d), w, d)
<1> DEFINE C == SnapshotData(rows, c)
           D == SnapshotData(rows, d)
<1>1. CASE report \in {"volume", "dev-fees"}
  <2>1. \A data, x : WindowMetrics(report, data, w, x) = Block(report, data, w, x)
    BY <1>1 DEF WindowMetrics, Families
  <2> QED BY <1>1, <2>1, BlocksStill
<1>2. CASE report = "market"
  <2>1. \A data, x : WindowMetrics(report, data, w, x) = MarketReport(data.orders, w, None)
    BY <1>2 DEF WindowMetrics, Families
  <2>2. C.orders = D.orders
    BY DataAt
  <2> HIDE DEF C, D
  <2>3. WindowMetrics(report, C, w, c) = WindowMetrics(report, D, w, d)
    BY <2>1, <2>2
  <2> QED BY <2>3 DEF C, D
<1>3. CASE report = "compare"
  <2>1. \A data, x : WindowMetrics(report, data, w, x) = CompareView(data, w, x)
    BY <1>3 DEF WindowMetrics, Families
  <2> QED BY <2>1, CompareStill
<1> QED BY <1>1, <1>2, <1>3

\* and so does every row of every partition.
LEMMA PartitionStill ==
    ASSUME Stored, OthersAsked, NEW c, NEW d, Passed(c), Passed(d), NEW family \in Families,
           NEW resolution \in Resolutions, NEW p \in Partitions(Extent(rows), resolution, c)
    PROVE  PartitionRows(SnapshotData(rows, c), family, resolution, p, Extent(rows), c)
           = PartitionRows(SnapshotData(rows, d), family, resolution, p, Extent(rows), d)
<1> DEFINE C == SnapshotData(rows, c)
           D == SnapshotData(rows, d)
           N == Catalogue(family, C, p, c)
           cell(data, row, name, x) == IF RowCovered(Extent(rows), row, x)
                                       THEN Measure(family, name, data, row, x) ELSE None
<1>1. N = Catalogue(family, D, p, d) /\ \A name \in N : Plottable(name)
  BY MeasuresStill DEF Catalogue
<1>2. \A row, name : Plottable(name) =>
         Measure(family, name, C, row, c) = Measure(family, name, D, row, d)
  BY MeasuresStill
<1>3. \A row \in RowsOf(resolution, p) :
         RowCovered(Extent(rows), row, c) <=> RowCovered(Extent(rows), row, d)
  BY CoveredStill
<1>4. PartitionRows(C, family, resolution, p, Extent(rows), c)
      = [row \in RowsOf(resolution, p) |-> [name \in N |-> cell(C, row, name, c)]]
  BY DEF PartitionRows
<1>5. PartitionRows(D, family, resolution, p, Extent(rows), d)
      = [row \in RowsOf(resolution, p) |-> [name \in N |-> cell(D, row, name, d)]]
  BY <1>1 DEF PartitionRows
<1> HIDE DEF C, D, N
<1>6. \A row \in RowsOf(resolution, p), name \in N : cell(C, row, name, c) = cell(D, row, name, d)
  BY <1>1, <1>2, <1>3
<1> HIDE DEF cell
<1>7. \A row \in RowsOf(resolution, p) :
         [name \in N |-> cell(C, row, name, c)] = [name \in N |-> cell(D, row, name, d)]
  BY <1>6
<1>8. PartitionRows(C, family, resolution, p, Extent(rows), c)
      = PartitionRows(D, family, resolution, p, Extent(rows), d)
  BY <1>4, <1>5, <1>7
<1> QED BY <1>8 DEF C, D

\* All of them together.
LEMMA DatedStill ==
    ASSUME Stored, OthersAsked, NEW c, NEW d, Passed(c), Passed(d)
    PROVE  DatedDocuments(rows, c) = DatedDocuments(rows, d)
<1> DEFINE extent == Extent(rows)
           still == {"volume", "market", "dev-fees", "compare"}
           windows == still \X WindowNames
           tables(x) == UNION {{<<f, res, p>> : p \in Partitions(extent, res, x)} :
                                  f \in Families, res \in Resolutions}
           figures(w, x) == WindowMetrics(w[1], SnapshotData(rows, x),
                                          WindowOf(w[2], extent, x), x)
           table(t, x) == PartitionRows(SnapshotData(rows, x), t[1], t[2], t[3], extent, x)
<1>1. \A x : DatedDocuments(rows, x) = << [w \in windows |-> figures(w, x)],
                                         [t \in tables(x) |-> table(t, x)] >>
  BY DEF DatedDocuments
<1>2. ASSUME NEW w \in windows PROVE figures(w, c) = figures(w, d)
  <2>1. w[1] \in still
    OBVIOUS
  <2>2. WindowOf(w[2], extent, c) = WindowOf(w[2], extent, d)
    BY WindowStill
  <2> QED BY <2>1, <2>2, DocumentsStill
<1>3. \A res : Partitions(extent, res, c) = Partitions(extent, res, d)
  BY PartitionsStill
<1>4. tables(c) = tables(d)
  BY <1>3
<1>5. ASSUME NEW t \in tables(c) PROVE table(t, c) = table(t, d)
  <2>1. PICK f \in Families, res \in Resolutions :
           \E p \in Partitions(extent, res, c) : t = <<f, res, p>>
    OBVIOUS
  <2>2. PICK p \in Partitions(extent, res, c) : t = <<f, res, p>>
    BY <2>1
  <2>3. t[1] = f /\ t[2] = res /\ t[3] = p
    BY <2>2
  <2> QED BY <2>3, PartitionStill
<1> HIDE DEF windows, figures, tables, table
<1>6. [w \in windows |-> figures(w, c)] = [w \in windows |-> figures(w, d)]
  BY <1>2
<1>7. [t \in tables(c) |-> table(t, c)] = [t \in tables(d) |-> table(t, d)]
  BY <1>4, <1>5
<1> QED BY <1>1, <1>6, <1>7

\* Once the clock has passed the floor and the last event, it alone changes
\* no partition and no window document of volume, market, dev fees or the
\* comparison (window_of, Coverage::partitions, partition): a run over an
\* archive that has not moved restates none.  Every kind but orders and
\* rates has been asked for, as a sync does of all it has a filter for: the
\* book of an archive without a floor is read from the clock on.
THEOREM OnlyEventsMoveFiguresCorrect ==
    OthersAsked => (Spec => OnlyEventsMoveFigures)
<1> SUFFICES ASSUME OthersAsked PROVE Spec => OnlyEventsMoveFigures
  OBVIOUS
<1>1. ASSUME Stored, Clocked, [Next]_vars
      PROVE  [(/\ rows' = rows /\ now' # now
               /\ EventsOf(rows) # {} /\ Extent(rows).latest < now
               /\ Extent(rows).earliest # None => Extent(rows).earliest <= now)
                => DatedDocuments(rows, now') = DatedDocuments(rows, now)]_vars
  <2> SUFFICES ASSUME now' # now, EventsOf(rows) # {}, Extent(rows).latest < now,
                      Extent(rows).earliest # None => Extent(rows).earliest <= now
               PROVE  DatedDocuments(rows, now') = DatedDocuments(rows, now)
    OBVIOUS
  <2>1. now \in Nat
    BY <1>1, FiguresAssumption DEF Clocked, Instants
  <2>2. now' \in Clocks /\ now' > now
    BY <1>1, ClockTicks
  <2>3. now' \in Nat
    BY <2>2, FiguresAssumption DEF Instants
  <2>4. PICK v \in EventsOf(rows) : TRUE
    OBVIOUS
  <2>5. PICK l \in Nat : l = Extent(rows).latest
    BY <1>1, <2>4, CeilingFacts
  <2>6. l < now'
    BY <2>1, <2>2, <2>3, <2>5
  <2>7. Extent(rows).earliest # None => Extent(rows).earliest <= now'
    <3> SUFFICES ASSUME Extent(rows).earliest # None PROVE Extent(rows).earliest <= now'
      OBVIOUS
    <3>1. PICK e \in Nat : e = Extent(rows).earliest /\ e <= now
      BY <1>1, ExtentFacts
    <3> QED BY <2>1, <2>2, <2>3, <3>1
  <2>8. now \in Instants /\ now' \in Instants
    BY <1>1, <2>2, FiguresAssumption DEF Clocked
  <2>9. Passed(now) /\ Passed(now')
    BY <2>1, <2>3, <2>5, <2>6, <2>7, <2>8 DEF Passed
  <2> QED BY <1>1, <2>9, DatedStill
<1> QED BY <1>1, StoredInit, RowsGrow, ClockRuns, PTL DEF Spec, OnlyEventsMoveFigures

-----------------------------------------------------------------------------
(* What a snapshot addresses and a client spells.                          *)

\* The partitions of an archive at a clock are those of instants.
LEMMA PartitionsOfInstants ==
    ASSUME Stored, Clocked, NEW resolution, NEW p \in Partitions(Extent(rows), resolution, now)
    PROVE  \E t \in Instants : p = PartOf(resolution, t)
<1> DEFINE e == Extent(rows).earliest
           l == Extent(rows).latest
           last == IF l = None THEN now ELSE Min({l, now})
<1>1. e # None
  BY DEF Partitions
<1> DEFINE first == PartOf(resolution, e).from
<1>2. ~(e > now) /\ \E t \in first .. last : p = PartOf(resolution, t)
  BY <1>1 DEF Partitions, PartOf
<1>3. now \in Nat /\ now \in Instants
  BY FiguresAssumption DEF Clocked, Instants
<1>4. e \in Nat
  BY <1>1, ExtentFacts
<1>5. last \in Nat /\ last <= now
  <2>1. CASE l = None
    BY <1>3, <2>1
  <2>2. CASE l # None
    <3>1. PICK v \in EventsOf(rows) : TRUE
      BY <2>2 DEF Extent
    <3>2. l \in Nat
      BY <3>1, CeilingFacts
    <3> HIDE DEF l
    <3>3. Min({l, now}) = IF l <= now THEN l ELSE now
      BY <1>3, <3>2, MinOfTwo
    <3> QED BY <1>3, <2>2, <3>2, <3>3
  <2> QED BY <2>1, <2>2
<1>6. first \in Instants
  <2>1. e \in Instants
    BY <1>2, <1>3, <1>4, RowsDated DEF Instants
  <2> QED BY <2>1, PartFacts
<1> HIDE DEF e, last, first
<1>7. PICK t \in first .. last : p = PartOf(resolution, t)
  BY <1>2
<1>8. t \in Instants
  BY <1>3, <1>5, <1>6, <1>7, RowsDated DEF Instants
<1> QED BY <1>7, <1>8

\* Its bucket can be spelt, and fits the resolution.
LEMMA BucketIsNamed ==
    ASSUME NEW resolution \in Resolutions, NEW t \in Instants
    PROVE  LET b == BucketOf(PartOf(resolution, t), resolution)
           IN  b \in NamedBuckets /\ Fits(b, resolution)
<1> DEFINE f == PartOf(resolution, t).from
           b == BucketOf(PartOf(resolution, t), resolution)
<1>1. f \in Instants
  BY PartFacts
<1> HIDE DEF f
<1>2. PICK m \in Months : m = MonthOf(f)
  BY <1>1, MonthOfHas
<1>3. YearOf(f) \in DOMAIN YearText
  BY <1>2, SeriesAssumption DEF YearOf
<1>4. ((m - 1) % YEAR) + 1 \in 1 .. YEAR
  BY <1>2, CalendarAssumption DEF Months
<1>5. ((m - 1) % YEAR) + 1 \in DOMAIN MonthText
  BY <1>4, SeriesAssumption
<1>6. b = [year |-> YearOf(f), month |-> IF resolution = "monthly" THEN Absent
                                         ELSE ((m - 1) % YEAR) + 1]
  BY <1>2 DEF BucketOf, f
<1>7. \A k \in DOMAIN MonthText : k # Absent
  BY AddressAssumption
<1> HIDE DEF b
<1>8. b \in NamedBuckets
  BY <1>3, <1>5, <1>6 DEF NamedBuckets
<1>9. Fits(b, resolution)
  BY <1>5, <1>6, <1>7 DEF Fits
<1> QED BY <1>8, <1>9 DEF b

\* Every document of a snapshot has an address of the grammar.
LEMMA DocumentsAddressed ==
    ASSUME Stored, Clocked, NEW a \in Documents(SnapshotData(rows, now), Extent(rows), now)
    PROVE  a \in WindowAddresses \cup SeriesAddresses
<1>1. \/ \E r \in Reports, s \in WindowNames : a = WindowAddress(r, s, Absent)
      \/ \E f \in Families, res \in Resolutions :
            \E p \in Partitions(Extent(rows), res, now) :
               a = SeriesAddress(f, res, BucketOf(p, res), Absent)
      \/ \E s \in WindowNames, p \in DOMAIN Hex :
            a = WindowAddress("orders", s, [kind |-> "i", value |-> p])
  <2> DEFINE known == {q.pubkey : q \in SnapshotData(rows, now).profiles}
             windows == {WindowAddress(r, s, Absent) : r \in Reports, s \in WindowNames}
             spans(res) == {p \in Partitions(Extent(rows), res, now) : SpeaksFor(Extent(rows), p)}
             drawn(f, res) == {SeriesAddress(f, res, BucketOf(p, res), Absent) : p \in spans(res)}
             series == UNION {drawn(f, res) : f \in Families, res \in Resolutions}
             of(s, p) == WindowAddress("orders", s, [kind |-> "i", value |-> p])
             scoped == {of(s, p) : s \in WindowNames, p \in known \cap DOMAIN Hex}
  <2>1. a \in windows \cup series \cup scoped
    BY DEF Documents
  <2>2. a \in windows => \E r \in Reports, s \in WindowNames : a = WindowAddress(r, s, Absent)
    OBVIOUS
  <2>3. ASSUME a \in series
        PROVE  \E f \in Families, res \in Resolutions :
                  \E p \in Partitions(Extent(rows), res, now) :
                     a = SeriesAddress(f, res, BucketOf(p, res), Absent)
    <3> HIDE DEF drawn
    <3>1. PICK f \in Families, res \in Resolutions : a \in drawn(f, res)
      BY <2>3
    <3> QED BY <3>1 DEF drawn
  <2>4. ASSUME a \in scoped
        PROVE  \E s \in WindowNames, p \in DOMAIN Hex :
                  a = WindowAddress("orders", s, [kind |-> "i", value |-> p])
    <3> HIDE DEF known, of
    <3>1. PICK s \in WindowNames, p \in DOMAIN Hex : a = of(s, p)
      BY <2>4
    <3> QED BY <3>1 DEF of
  <2> HIDE DEF windows, series, scoped
  <2> QED BY <2>1, <2>2, <2>3, <2>4
<1>2. Absent \in Scopes /\ \A p \in DOMAIN Hex : [kind |-> "i", value |-> p] \in Scopes
  BY DEF Scopes
<1>3. Families \subseteq Reports /\ "orders" \in Reports
  BY DEF Families, Reports
<1>4. ASSUME NEW f \in Families, NEW res \in Resolutions,
             NEW p \in Partitions(Extent(rows), res, now)
      PROVE  SeriesAddress(f, res, BucketOf(p, res), Absent) \in SeriesAddresses
  <2>1. PICK t \in Instants : p = PartOf(res, t)
    BY PartitionsOfInstants
  <2>2. BucketOf(p, res) \in NamedBuckets /\ Fits(BucketOf(p, res), res)
    BY <2>1, BucketIsNamed
  <2>3. PICK b \in NamedBuckets : b = BucketOf(p, res) /\ Fits(b, res)
    BY <2>2
  <2>4. SeriesAddress(f, res, b, Absent).bucket = b /\ SeriesAddress(f, res, b, Absent).resolution = res
    BY DEF SeriesAddress
  <2>5. SeriesAddress(f, res, b, Absent) \in SeriesAddresses
    BY <1>2, <1>3, <2>3, <2>4 DEF SeriesAddresses
  <2> QED BY <2>3, <2>5
<1>5. \A r \in Reports, s \in WindowNames, scope \in Scopes :
         WindowAddress(r, s, scope) \in WindowAddresses
  BY DEF WindowAddresses
<1>6. CASE \E r \in Reports, s \in WindowNames : a = WindowAddress(r, s, Absent)
  BY <1>2, <1>5, <1>6
<1>7. CASE \E f \in Families, res \in Resolutions :
              \E p \in Partitions(Extent(rows), res, now) :
                 a = SeriesAddress(f, res, BucketOf(p, res), Absent)
  BY <1>4, <1>7
<1>8. CASE \E s \in WindowNames, p \in DOMAIN Hex :
              a = WindowAddress("orders", s, [kind |-> "i", value |-> p])
  <2>1. PICK s \in WindowNames, p \in DOMAIN Hex :
           a = WindowAddress("orders", s, [kind |-> "i", value |-> p])
    BY <1>8
  <2> QED BY <1>2, <1>3, <1>5, <2>1
<1> QED BY <1>1, <1>6, <1>7, <1>8

\* What is spelt of an address is made of the words there are.
LEMMA AddressWords ==
    /\ \A word \in {"index", "series", "dev", "fees", "i", "n"} : word \in Vocabulary
    /\ Reports \cup WindowNames \cup Resolutions \cup NETWORKS \subseteq Vocabulary
    /\ \A text \in {YearText, MonthText, Hex} \cup Segments :
          \A x \in DOMAIN text : text[x] \in Vocabulary
BY DEF Vocabulary

\* Two words are a text of two segments.
LEMMA PairOfWords ==
    ASSUME NEW W, NEW x \in W, NEW y \in W
    PROVE  << <<x>>, <<y>> >> \in Seq(Seq(W))
<1>1. <<x>> \in Seq(W) /\ <<y>> \in Seq(W)
  OBVIOUS
<1>2. \A T : \A p, q \in T : <<p, q>> \in Seq(T)
  OBVIOUS
<1> QED BY <1>1, <1>2

\* Its scope is,
LEMMA ScopeWords ==
    ASSUME NEW scope \in Scopes
    PROVE  ScopeText(scope) \in Seq(Seq(Vocabulary))
<1>1. CASE scope = Absent
  <2>1. ScopeText(scope) = << >>
    BY <1>1 DEF ScopeText
  <2> QED BY <2>1, EmptySeq
<1>2. ASSUME NEW p \in DOMAIN Hex, scope = [kind |-> "i", value |-> p]
      PROVE  ScopeText(scope) \in Seq(Seq(Vocabulary))
  <2>1. scope # Absent
    BY <1>2, AddressAssumption
  <2>2. ScopeText(scope) = << <<"i">>, <<Hex[p]>> >>
    BY <1>2, <2>1 DEF ScopeText
  <2>3. "i" \in Vocabulary /\ Hex[p] \in Vocabulary
    BY AddressWords
  <2> QED BY <2>2, <2>3, PairOfWords
<1>3. ASSUME NEW n \in NETWORKS, scope = [kind |-> "n", value |-> n]
      PROVE  ScopeText(scope) \in Seq(Seq(Vocabulary))
  <2>1. scope # Absent
    BY <1>3, AddressAssumption
  <2>2. ScopeText(scope) = << <<"n">>, <<n>> >>
    BY <1>3, <2>1 DEF ScopeText
  <2>3. "n" \in Vocabulary /\ n \in Vocabulary
    BY AddressWords
  <2> QED BY <2>2, <2>3, PairOfWords
<1> QED BY <1>1, <1>2, <1>3 DEF Scopes

\* and so is its report
LEMMA ReportWords ==
    ASSUME NEW r \in Reports
    PROVE  ReportText(r) \in Seq(Vocabulary)
<1>1. r \in Vocabulary /\ "dev" \in Vocabulary /\ "fees" \in Vocabulary
  BY AddressWords
<1>2. \A W : \A x, y \in W : <<x>> \in Seq(W) /\ <<x, y>> \in Seq(W)
  OBVIOUS
<1> QED BY <1>1, <1>2 DEF ReportText

\* and its bucket,
LEMMA BucketWords ==
    ASSUME NEW b \in NamedBuckets
    PROVE  BucketText(b) \in Seq(Vocabulary)
<1>1. \A W : \A x, y \in W : <<x>> \in Seq(W) /\ <<x, y>> \in Seq(W)
  OBVIOUS
<1>2. YearText[b.year] \in Vocabulary
  BY AddressWords DEF NamedBuckets
<1>3. CASE b.month = Absent
  BY <1>1, <1>2, <1>3 DEF BucketText
<1>4. CASE b.month # Absent
  <2>1. MonthText[b.month] \in Vocabulary
    BY <1>4, AddressWords DEF NamedBuckets
  <2> QED BY <1>1, <1>2, <1>4, <2>1 DEF BucketText
<1> QED BY <1>3, <1>4

\* and it is as a whole.
LEMMA RenderWords ==
    ASSUME NEW a \in WindowAddresses \cup SeriesAddresses
    PROVE  Render(a) \in Seq(Seq(Vocabulary))
<1> DEFINE T == Seq(Vocabulary)
<1>1. \A x \in Vocabulary : <<x>> \in T
  OBVIOUS
<1>2. CASE a \in WindowAddresses
  <2>1. PICK r \in Reports, w \in WindowNames, scope \in Scopes : a = WindowAddress(r, w, scope)
    BY <1>2 DEF WindowAddresses
  <2>2. Render(a) = << ReportText(r), <<w>> >> \o ScopeText(scope)
    BY <2>1 DEF Render, WindowAddress
  <2>3. ReportText(r) \in T /\ <<w>> \in T /\ ScopeText(scope) \in Seq(T)
    BY <1>1, ReportWords, ScopeWords, AddressWords
  <2> HIDE DEF T
  <2>4. << ReportText(r), <<w>> >> \in Seq(T)
    BY <2>3
  <2>5. Render(a) \in Seq(T)
    BY <2>2, <2>3, <2>4, ConcatProperties
  <2> QED BY <2>5 DEF T
<1>3. CASE a \in SeriesAddresses
  <2>1. PICK r \in Reports, res \in Resolutions, b \in NamedBuckets, scope \in Scopes :
           a = SeriesAddress(r, res, b, scope)
    BY <1>3 DEF SeriesAddresses
  <2>2. Render(a) = << <<"series">>, ReportText(r), <<res>>, BucketText(b) >> \o ScopeText(scope)
    BY <2>1 DEF Render, SeriesAddress
  <2>3. /\ <<"series">> \in T /\ ReportText(r) \in T /\ <<res>> \in T /\ BucketText(b) \in T
        /\ ScopeText(scope) \in Seq(T)
    BY <1>1, ReportWords, BucketWords, ScopeWords, AddressWords
  <2> HIDE DEF T
  <2>4. << <<"series">>, ReportText(r), <<res>>, BucketText(b) >> \in Seq(T)
    <3>1. \A p, q, s, u \in T : <<p, q, s, u>> \in Seq(T)
      OBVIOUS
    <3> QED BY <2>3, <3>1
  <2>5. Render(a) \in Seq(T)
    BY <2>2, <2>3, <2>4, ConcatProperties
  <2> QED BY <2>5 DEF T
<1> QED BY <1>2, <1>3

\* A client's change of one segment leaves a text of words.
LEMMA TypedWords ==
    ASSUME NEW T, NEW text \in Seq(T), NEW i \in 1 .. Len(text) + 1, NEW s \in T
    PROVE  /\ SubSeq(text, 1, i - 1) \o <<s>> \o SubSeq(text, i + 1, Len(text)) \in Seq(T)
           /\ SubSeq(text, 1, i - 1) \o SubSeq(text, i + 1, Len(text)) \in Seq(T)
<1> DEFINE h == SubSeq(text, 1, i - 1)
           r == SubSeq(text, i + 1, Len(text))
<1>1. h \in Seq(T) /\ r \in Seq(T) /\ <<s>> \in Seq(T)
  OBVIOUS
<1> HIDE DEF h, r
<1>2. h \o <<s>> \in Seq(T)
  BY <1>1, ConcatProperties
<1>3. (h \o <<s>>) \o r \in Seq(T) /\ h \o r \in Seq(T)
  BY <1>1, <1>2, ConcatProperties
<1> QED BY <1>3 DEF h, r

\* A command under way is a question, its query, what it read and when.
Asking == asked # None => DOMAIN asked = {"question", "query", "read", "at"}

\* The archive only ever holds what may be stored, a command reads what is
\* there and reports on no less than it read (Report joins the load and the
\* report), and a client spells segments: every step keeps its state's type.
THEOREM FiguresTypeCorrect == Spec => []TypeOK
<1>1. Init => TypeOK /\ Asking
  <2>1. << >> \in Seq(Seq(Vocabulary))
    BY EmptySeq
  <2> QED BY <2>1 DEF Init, TypeOK, Asking
<1>2. ASSUME TypeOK, Asking, [Next]_vars PROVE TypeOK' /\ Asking'
  <2>0. Stored /\ Clocked
    BY <1>2 DEF TypeOK, Stored, Clocked
  <2>1. ASSUME NEW v \in Versions, Ingest(v) PROVE TypeOK' /\ Asking'
    <3>1. << >> \in Seq(Seq(Vocabulary))
      BY EmptySeq
    <3>2. /\ v.kind # "seen" /\ answer' = None /\ typed' = << >> /\ UNCHANGED <<now, asked>>
      BY <2>1 DEF Ingest
    <3>3. rows' \subseteq Versions /\ rows \subseteq rows'
      BY <1>2, <2>0, RowsGrow DEF Stored
    <3> QED BY <1>2, <3>1, <3>2, <3>3 DEF TypeOK, Asking
  <2>2. CASE Tick
    BY <1>2, <2>2 DEF Tick, TypeOK, Asking
  <2>3. ASSUME NEW q \in Questions, Ask(q) PROVE TypeOK' /\ Asking'
    <3>1. PICK query : asked' = [question |-> q, query |-> query, read |-> rows, at |-> now]
      BY <2>3 DEF Ask
    <3>2. /\ asked'.question = q /\ asked'.read = rows
          /\ DOMAIN asked' = {"question", "query", "read", "at"}
      BY <3>1
    <3> QED BY <1>2, <2>3, <3>2 DEF Ask, TypeOK, Asking
  <2>4. CASE Report
    <3> DEFINE more == [ told   |-> rows,
                         report |-> Answer(asked.question, asked.query, asked.read, rows, asked.at) ]
    <3>1. answer' = Joined(asked, more) /\ asked # None /\ asked' = None
      BY <2>4 DEF Report
    <3>2. DOMAIN asked = {"question", "query", "read", "at"} /\ asked.read \subseteq rows
      BY <1>2, <3>1 DEF TypeOK, Asking
    <3>3. DOMAIN more = {"told", "report"} /\ more.told = rows
      OBVIOUS
    <3> HIDE DEF more
    <3>4. answer'.read = asked.read /\ answer'.told = rows
      BY <3>1, <3>2, <3>3 DEF Joined
    <3> QED BY <1>2, <2>4, <3>1, <3>2, <3>4 DEF Report, TypeOK, Asking
  <2>5. CASE Client
    <3>1. PICK a \in Documents(SnapshotData(rows, now), Extent(rows), now), s \in Segments :
             \E i \in 1 .. Len(Render(a)) + 1 : Type(a, i, s)
      BY <2>5 DEF Client
    <3>2. PICK i \in 1 .. Len(Render(a)) + 1 : Type(a, i, s)
      BY <3>1
    <3>3. PICK text \in Seq(Seq(Vocabulary)) : text = Render(a)
      BY <2>0, DocumentsAddressed, RenderWords
    <3>4. s \in Seq(Vocabulary)
      <4>1. s \in Seq(STRING) /\ \A x \in DOMAIN s : s[x] \in Vocabulary
        BY FiguresAssumption, AddressWords
      <4> QED BY <4>1
    <3>5. typed' \in Seq(Seq(Vocabulary))
      <4>1. /\ SubSeq(text, 1, i - 1) \o <<s>> \o SubSeq(text, i + 1, Len(text))
                  \in Seq(Seq(Vocabulary))
            /\ SubSeq(text, 1, i - 1) \o SubSeq(text, i + 1, Len(text)) \in Seq(Seq(Vocabulary))
        BY <3>2, <3>3, <3>4, TypedWords
      <4>2. typed' \in { SubSeq(text, 1, i - 1) \o <<s>> \o SubSeq(text, i + 1, Len(text)),
                         SubSeq(text, 1, i - 1) \o SubSeq(text, i + 1, Len(text)) }
        BY <3>2, <3>3 DEF Type
      <4> QED BY <4>1, <4>2
    <3>6. UNCHANGED <<rows, now, asked, answer>>
      BY <3>2 DEF Type
    <3> QED BY <1>2, <3>5, <3>6 DEF TypeOK, Asking
  <2>6. CASE UNCHANGED vars
    BY <1>2, <2>6 DEF vars, TypeOK, Asking
  <2> QED BY <1>2, <2>1, <2>2, <2>3, <2>4, <2>5, <2>6 DEF Next, Indexer
<1> QED BY <1>1, <1>2, PTL DEF Spec

\* Addresses are exact (Address::parse, Display for Address): each document
\* of a snapshot has a d tag that parses back to it, so that no two share
\* one, and what a client spells parses to an address only when it is that
\* address' one spelling.
THEOREM AddressesParseCorrect == Spec => []AddressesParse
<1>1. TypeOK => AddressesParse
  <2> SUFFICES ASSUME TypeOK PROVE AddressesParse
    OBVIOUS
  <2>1. Stored /\ Clocked
    BY DEF TypeOK, Stored, Clocked
  <2>2. \A a \in Documents(SnapshotData(rows, now), Extent(rows), now) : Parse(Render(a)) = a
    BY <2>1, DocumentsAddressed, WindowParses, SeriesParses
  <2>3. typed \in Seq(Seq(Vocabulary))
    BY DEF TypeOK
  <2>4. Parse(typed) # Absent => Render(Parse(typed)) = typed
    BY <2>3, SpelledExactly
  <2> QED BY <2>2, <2>4 DEF AddressesParse
<1> QED BY <1>1, FiguresTypeCorrect, PTL

-----------------------------------------------------------------------------
(* The same figure asked for in two ways.                                  *)

\* Known instances are numbers, as many as the archive can name.
LEMMA KnownFinite ==
    ASSUME Stored
    PROVE  /\ IsFiniteSet(Known(rows)) /\ Known(rows) \in SUBSET Nat
           /\ \A p \in Known(rows) : p \in DOMAIN Letters
<1> DEFINE of == [v \in rows |-> v.pubkey]
<1>1. IsFiniteSet(rows)
  BY FiguresAssumption, FS_Subset DEF Stored
<1>2. Known(rows) = {of[v] : v \in rows}
  BY DEF Known
<1>3. IsFiniteSet({of[v] : v \in rows})
  BY <1>1, ColumnFinite
<1>4. \A v \in rows : v.pubkey \in Nat /\ v.pubkey \in DOMAIN Letters
  BY RowsDated, QuestionsAssumption DEF Stored
<1> QED BY <1>2, <1>3, <1>4 DEF Known

\* When an instance was first seen, and the instances listed before it.
SeenFirst(p) == Min({v.at : v \in {w \in rows : w.pubkey = p}})
ListedBefore(q, p) == SeenFirst(q) < SeenFirst(p) \/ (SeenFirst(q) = SeenFirst(p) /\ q < p)
Ahead(p) == {q \in Known(rows) : ListedBefore(q, p)}
Nth(i) == CHOOSE p \in Known(rows) : Cardinality(Ahead(p)) = i - 1

\* Who is known was first seen at an instant.
LEMMA SeenIsNumber ==
    ASSUME Stored, NEW p \in Known(rows)
    PROVE  SeenFirst(p) \in Nat
<1> DEFINE S == {v.at : v \in {w \in rows : w.pubkey = p}}
<1>1. S \in SUBSET Nat
  BY RowsDated DEF Stored
<1>2. S # {}
  BY DEF Known
<1> HIDE DEF S
<1>3. Min(S) \in S
  BY <1>1, <1>2, MinType
<1> QED BY <1>1, <1>3 DEF SeenFirst, S

\* An instance that is listed before another has fewer before it.
LEMMA AheadIsFewer ==
    ASSUME Stored, NEW p \in Known(rows), NEW q \in Known(rows), ListedBefore(q, p)
    PROVE  /\ Cardinality(Ahead(q)) \in Nat /\ Cardinality(Ahead(p)) \in Nat
           /\ Cardinality(Ahead(q)) < Cardinality(Ahead(p))
<1>1. IsFiniteSet(Known(rows)) /\ Known(rows) \in SUBSET Nat
  BY KnownFinite
<1>2. \A r \in Known(rows) : SeenFirst(r) \in Nat
  BY SeenIsNumber
<1>3. Ahead(q) \subseteq Ahead(p) /\ q \in Ahead(p) /\ q \notin Ahead(q)
  BY <1>1, <1>2 DEF Ahead, ListedBefore
<1>4. IsFiniteSet(Ahead(p)) /\ IsFiniteSet(Ahead(q))
  BY <1>1, FS_Subset DEF Ahead
<1>5. Cardinality(Ahead(p)) \in Nat /\ Cardinality(Ahead(q)) \in Nat
  BY <1>4, FS_CardinalityType
<1>6. Cardinality(Ahead(q)) <= Cardinality(Ahead(p))
      /\ (Cardinality(Ahead(p)) = Cardinality(Ahead(q)) => Ahead(p) = Ahead(q))
  BY <1>3, <1>4, FS_Subset
<1> QED BY <1>3, <1>5, <1>6

\* Each place of the list has an instance, and each instance a place.
LEMMA EachHasAPlace ==
    ASSUME Stored
    PROVE  LET n == Cardinality(Known(rows))
           IN  /\ n \in Nat
               /\ \A i \in 1 .. n : Nth(i) \in Known(rows)
               /\ \A p \in Known(rows) : \E i \in 1 .. n : Nth(i) = p
               /\ \A i, j \in 1 .. n : Nth(i) = Nth(j) => i = j
<1> DEFINE K == Known(rows)
           n == Cardinality(K)
           place == [p \in K |-> Cardinality(Ahead(p)) + 1]
<1>1. IsFiniteSet(K) /\ K \in SUBSET Nat
  BY KnownFinite
<1>2. n \in Nat
  BY <1>1, FS_CardinalityType
<1>3. \A p \in K : SeenFirst(p) \in Nat
  BY SeenIsNumber
<1>4. \A p \in K : Cardinality(Ahead(p)) \in Nat /\ Cardinality(Ahead(p)) < n
  <2> SUFFICES ASSUME NEW p \in K PROVE Cardinality(Ahead(p)) \in Nat /\ Cardinality(Ahead(p)) < n
    OBVIOUS
  <2>1. Ahead(p) \subseteq K /\ p \notin Ahead(p)
    BY <1>1, <1>3 DEF Ahead, ListedBefore
  <2>2. IsFiniteSet(Ahead(p)) /\ Cardinality(Ahead(p)) <= n /\ (n = Cardinality(Ahead(p)) => K = Ahead(p))
    BY <1>1, <2>1, FS_Subset
  <2>3. Cardinality(Ahead(p)) \in Nat
    BY <2>2, FS_CardinalityType
  <2> QED BY <1>2, <2>1, <2>2, <2>3
<1>5. \A p, q \in K : p # q => place[p] # place[q]
  <2> SUFFICES ASSUME NEW p \in K, NEW q \in K, p # q PROVE place[p] # place[q]
    OBVIOUS
  <2>1. ListedBefore(q, p) \/ ListedBefore(p, q)
    BY <1>1, <1>3 DEF ListedBefore
  <2>2. CASE ListedBefore(q, p)
    <3>1. Cardinality(Ahead(q)) < Cardinality(Ahead(p))
      BY <2>2, AheadIsFewer
    <3> QED BY <1>4, <3>1
  <2>3. CASE ListedBefore(p, q)
    <3>1. Cardinality(Ahead(p)) < Cardinality(Ahead(q))
      BY <2>3, AheadIsFewer
    <3> QED BY <1>4, <3>1
  <2> QED BY <2>1, <2>2, <2>3
<1>6. place \in [K -> 1 .. n]
  BY <1>2, <1>4
<1>7. IsFiniteSet(1 .. n) /\ Cardinality(1 .. n) = n
  BY <1>2, FS_Interval
<1>8. place \in Injection(K, 1 .. n)
  BY <1>5, <1>6 DEF Injection, IsInjective
<1> HIDE DEF place, n
<1>9. place \in Surjection(K, 1 .. n)
  BY <1>7, <1>8, FS_Injection DEF n
<1>10. \A i \in 1 .. n : \E p \in K : place[p] = i
  BY <1>9 DEF Surjection
<1>11. \A i \in 1 .. n : Nth(i) \in K /\ place[Nth(i)] = i
  <2> SUFFICES ASSUME NEW i \in 1 .. n PROVE Nth(i) \in K /\ place[Nth(i)] = i
    OBVIOUS
  <2>1. PICK p \in K : place[p] = i
    BY <1>10
  <2>2. Cardinality(Ahead(p)) = i - 1
    BY <1>4, <2>1 DEF place
  <2>3. Nth(i) \in K /\ Cardinality(Ahead(Nth(i))) = i - 1
    BY <2>2 DEF Nth
  <2> QED BY <1>2, <2>3 DEF place
<1>12. \A p \in K : \E i \in 1 .. n : Nth(i) = p
  <2> SUFFICES ASSUME NEW p \in K PROVE \E i \in 1 .. n : Nth(i) = p
    OBVIOUS
  <2>1. place[p] \in 1 .. n
    BY <1>6
  <2>2. Nth(place[p]) \in K /\ place[Nth(place[p])] = place[p]
    BY <1>11, <2>1
  <2> QED BY <1>5, <2>1, <2>2
<1>13. \A i, j \in 1 .. n : Nth(i) = Nth(j) => i = j
  BY <1>11
<1> QED BY <1>2, <1>11, <1>12, <1>13 DEF n

\* No instance calls itself by what another's pubkey is spelt like.
NamesApart ==
    \A v, w \in Versions : NameOf[v.pubkey] = Letters[w.pubkey] => v.pubkey = w.pubkey

\* What a pubkey is spelt like means its instance and no other.
LEMMA SpellingMeansOne ==
    ASSUME Stored, NamesApart, NEW p \in Known(rows)
    PROVE  ResolveInstance(Letters[p], KnownInstances(rows)) = {p}
<1> DEFINE n == Cardinality(Known(rows))
           known == KnownInstances(rows)
           needle == Letters[p]
           exact == {i \in DOMAIN known : known[i].text = needle \/ known[i].name = needle}
           prefix == {i \in DOMAIN known : /\ Len(needle) <= Len(known[i].text)
                                           /\ SubSeq(known[i].text, 1, Len(needle)) = needle}
           matches == exact \cup prefix
<1>1. /\ n \in Nat /\ \A i \in 1 .. n : Nth(i) \in Known(rows)
      /\ \A i, j \in 1 .. n : Nth(i) = Nth(j) => i = j
  BY EachHasAPlace
<1>2. PICK i \in 1 .. n : Nth(i) = p
  BY EachHasAPlace
<1>3. known = [j \in 1 .. n |-> [pubkey |-> Nth(j), text |-> Letters[Nth(j)], name |-> NameOf[Nth(j)]]]
  BY DEF KnownInstances, Nth, Ahead, ListedBefore, SeenFirst
<1>4. /\ DOMAIN known = 1 .. n
      /\ \A j \in 1 .. n : /\ known[j].pubkey = Nth(j) /\ known[j].text = Letters[Nth(j)]
                           /\ known[j].name = NameOf[Nth(j)]
  BY <1>3
<1>5. \A q \in Known(rows) : NameOf[q] = needle \/ Letters[q] = needle => q = p
  <2>1. \A q \in Known(rows) : \E v \in Versions : v.pubkey = q
    BY DEF Known, Stored
  <2>2. \A q \in Known(rows) : q \in DOMAIN Letters
    BY KnownFinite
  <2> QED BY <2>1, <2>2, LettersAssumption DEF NamesApart
<1> HIDE DEF known, needle, n
<1>6. exact = {i}
  BY <1>1, <1>2, <1>4, <1>5 DEF needle
<1>7. needle # None
  BY LettersAssumption, KnownFinite DEF needle
<1>8. IsFiniteSet(matches)
  <2>1. IsFiniteSet(1 .. n)
    BY <1>1, FS_Interval
  <2>2. matches \subseteq 1 .. n
    BY <1>4
  <2> QED BY <2>1, <2>2, FS_Subset
<1> HIDE DEF exact, prefix
<1> DEFINE chosen == IF Cardinality(matches) = 1 THEN matches
                     ELSE {j \in exact : \A k \in exact : j <= k}
<1>9. chosen = {i}
  <2>1. CASE Cardinality(matches) = 1
    <3>1. PICK x : matches = {x}
      BY <1>8, <2>1, FS_Singleton
    <3>2. i \in matches
      BY <1>6
    <3> QED BY <2>1, <3>1, <3>2
  <2>2. CASE Cardinality(matches) # 1
    <3>1. i <= i
      BY <1>2, <1>1
    <3> QED BY <1>6, <2>2, <3>1
  <2> QED BY <2>1, <2>2
<1>10. ResolveInstance(needle, known) = {known[j].pubkey : j \in chosen}
  BY <1>7 DEF ResolveInstance, exact, prefix
<1> HIDE DEF chosen
<1>11. ResolveInstance(needle, known) = {p}
  BY <1>2, <1>4, <1>9, <1>10
<1> QED BY <1>11 DEF needle, known

-----------------------------------------------------------------------------
(* What the scope of one instance loads is its slice of the load.          *)

\* A scope narrowed to one instance.
OfInstance(scope, p) == [pubkey |-> p, networks |-> scope.networks]

\* An instance that a scope does not leave out.
Within(scope, p) == p \in Known(rows) /\ (scope.pubkey # None => scope.pubkey = p)

\* An instance of a scope is not the absence of one.
LEMMA WithinIsNumber ==
    ASSUME Stored, NEW scope, NEW p, Within(scope, p)
    PROVE  p # None
BY KnownFinite, CalendarAssumption DEF Within

\* Whoever an order, a dispute or a fee is of has published something, and
\* is in the scope it was loaded with.
LEMMA OrderWithin ==
    ASSUME Stored, NEW scope, NEW o \in LoadOrders(rows, scope)
    PROVE  Within(scope, o.pubkey)
<1>1. PICK k \in KeysOf(rows, "order") : o = LoadOrder(rows, k)
  BY DEF LoadOrders
<1> DEFINE V == {v \in OfKind(rows, "order") : v.key = k}
<1>2. V \in SUBSET Versions /\ V # {} /\ V \subseteq rows
  BY DEF Stored, OfKind, KeysOf
<1> HIDE DEF V
<1>3. Last(V) \in rows
  BY <1>2, LastIsLatest
<1>4. o.pubkey = Last(V).pubkey
  BY <1>1 DEF LoadOrder, OrderOf, IntoOrder, V
<1>5. InScope(scope, o)
  BY DEF LoadOrders
<1> QED BY <1>3, <1>4, <1>5 DEF Within, Known, InScope

\* A dispute's instance.
LEMMA DisputeWithin ==
    ASSUME Stored, NEW scope, NEW d \in LoadDisputes(rows, scope)
    PROVE  Within(scope, d.pubkey)
<1>1. PICK k \in KeysOf(rows, "dispute") : d = LoadDispute(rows, k)
  BY DEF LoadDisputes
<1> DEFINE V == {v \in OfKind(rows, "dispute") : v.key = k}
<1>2. V \in SUBSET Versions /\ V # {} /\ V \subseteq rows
  BY DEF Stored, OfKind, KeysOf
<1>4. d.pubkey = Last(V).pubkey
  BY <1>1 DEF LoadDispute
<1> HIDE DEF V
<1>3. Last(V) \in rows
  BY <1>2, LastIsLatest
<1>5. InInstance(scope, d)
  BY DEF LoadDisputes
<1> QED BY <1>3, <1>4, <1>5 DEF Within, Known, InInstance

\* That of an order that was taken.
LEMMA TakenWithin ==
    ASSUME Stored, NEW scope, NEW t \in LoadTaken(rows, scope)
    PROVE  Within(scope, t.pubkey)
<1>1. PICK o \in LoadOrders(rows, Everyone) : InInstance(scope, o) /\ t.pubkey = o.pubkey
  BY DEF LoadTaken, Everyone
<1>2. Within(Everyone, o.pubkey)
  BY OrderWithin
<1> QED BY <1>1, <1>2 DEF Within, InInstance

\* That of a fee.
LEMMA FeeWithin ==
    ASSUME Stored, NEW scope, NEW f \in LoadFees(rows, scope)
    PROVE  Within(scope, f.pubkey)
<1> DEFINE all == LoadOrders(rows, [pubkey |-> None, networks |-> {}])
           of(g) == {o \in all : o.order_id = g.key}
<1>1. PICK g \in OfKind(rows, "dev_fee") : InScope(scope, g) /\ f = IntoFee(rows, scope, g, of(g))
  BY DEF LoadFees
<1>2. f.pubkey = g.pubkey
  BY <1>1 DEF IntoFee
<1> QED BY <1>1, <1>2 DEF Within, Known, InScope, OfKind

\* That of a settlement.
LEMMA SettlementWithin ==
    ASSUME Stored, NEW scope, NEW s \in LoadSettlements(rows, scope)
    PROVE  Within(scope, s.pubkey)
<1>1. PICK o \in LoadOrders(rows, scope) : s.pubkey = o.pubkey
  BY DEF LoadSettlements
<1> QED BY <1>1, OrderWithin

\* The loads themselves.
LEMMA OrdersOf ==
    ASSUME Stored, NEW scope, NEW p, Within(scope, p)
    PROVE  Own(LoadOrders(rows, scope), p) = LoadOrders(rows, OfInstance(scope, p))
<1>1. p # None
  BY WithinIsNumber
<1>2. \A o : (InScope(scope, o) /\ o.pubkey = p) <=> InScope(OfInstance(scope, p), o)
  BY <1>1 DEF InScope, OfInstance, Within
<1> QED BY <1>2 DEF LoadOrders, Own

\* Disputes, and the orders taken that they are measured against.
LEMMA DisputesOf ==
    ASSUME Stored, NEW scope, NEW p, Within(scope, p)
    PROVE  /\ {d \in LoadDisputes(rows, scope) : d.pubkey = p}
              = LoadDisputes(rows, OfInstance(scope, p))
           /\ {t \in LoadTaken(rows, scope) : t.pubkey = p} = LoadTaken(rows, OfInstance(scope, p))
<1>1. p # None
  BY WithinIsNumber
<1>2. \A o : (InInstance(scope, o) /\ o.pubkey = p) <=> InInstance(OfInstance(scope, p), o)
  BY <1>1 DEF InInstance, OfInstance, Within
<1>3. {d \in LoadDisputes(rows, scope) : d.pubkey = p} = LoadDisputes(rows, OfInstance(scope, p))
  BY <1>2 DEF LoadDisputes
<1> DEFINE left(o) == IF o.taken_at # None THEN o.taken_at ELSE o.success_at
           made(o) == [order_id |-> o.order_id, pubkey |-> o.pubkey, left_pending_at |-> left(o)]
           all == LoadOrders(rows, [pubkey |-> None, networks |-> {}])
           A == {o \in all : InInstance(scope, o) /\ left(o) # None}
           B == {o \in all : InInstance(OfInstance(scope, p), o) /\ left(o) # None}
<1>4. LoadTaken(rows, scope) = {made(o) : o \in A}
      /\ LoadTaken(rows, OfInstance(scope, p)) = {made(o) : o \in B}
  BY DEF LoadTaken
<1>5. B = {o \in A : o.pubkey = p}
  BY <1>2
<1>6. \A o : made(o).pubkey = o.pubkey
  OBVIOUS
<1> HIDE DEF A, B, made
<1>7. {t \in LoadTaken(rows, scope) : t.pubkey = p} = LoadTaken(rows, OfInstance(scope, p))
  BY <1>4, <1>5, <1>6
<1> QED BY <1>3, <1>7

\* Fees, and the settlements they are paid for: a fee is a duplicate or not
\* whatever the scope it is read with.
LEMMA FeesOf ==
    ASSUME Stored, NEW scope, NEW p, Within(scope, p)
    PROVE  /\ {f \in LoadFees(rows, scope) : f.pubkey = p} = LoadFees(rows, OfInstance(scope, p))
           /\ {s \in LoadSettlements(rows, scope) : s.pubkey = p}
              = LoadSettlements(rows, OfInstance(scope, p))
<1>1. p # None
  BY WithinIsNumber
<1>2. \A o : (InScope(scope, o) /\ o.pubkey = p) <=> InScope(OfInstance(scope, p), o)
  BY <1>1 DEF InScope, OfInstance, Within
<1> DEFINE all == LoadOrders(rows, [pubkey |-> None, networks |-> {}])
           of(f) == {o \in all : o.order_id = f.key}
           made(f) == IntoFee(rows, scope, f, of(f))
           A == {g \in OfKind(rows, "dev_fee") : InScope(scope, g)}
           B == {g \in OfKind(rows, "dev_fee") : InScope(OfInstance(scope, p), g)}
<1>3. \A f, order : IntoFee(rows, scope, f, order) = IntoFee(rows, OfInstance(scope, p), f, order)
  BY DEF IntoFee, IsDuplicate
<1>4. LoadFees(rows, scope) = {made(f) : f \in A}
  BY DEF LoadFees
<1>5. LoadFees(rows, OfInstance(scope, p)) = {made(f) : f \in B}
  BY <1>3 DEF LoadFees
<1>6. B = {g \in A : g.pubkey = p}
  BY <1>2
<1>7. \A f : made(f).pubkey = f.pubkey
  BY DEF IntoFee
<1> HIDE DEF A, B, made
<1>8. {f \in LoadFees(rows, scope) : f.pubkey = p} = LoadFees(rows, OfInstance(scope, p))
  BY <1>4, <1>5, <1>6, <1>7
<1> DEFINE fee(o) == FeeInForce(rows, o.pubkey, o.success_at)
           paid(o) == [ order_id   |-> o.order_id,
                        pubkey     |-> o.pubkey,
                        success_at |-> o.success_at,
                        has_fee    |-> \E f \in OfKind(rows, "dev_fee") : f.key = o.order_id,
                        charges    |-> IF fee(o) = None THEN None ELSE fee(o) > 0 ]
           C == {o \in LoadOrders(rows, scope) : o.status = "success"}
           D == {o \in LoadOrders(rows, OfInstance(scope, p)) : o.status = "success"}
<1>9. LoadSettlements(rows, scope) = {paid(o) : o \in C}
      /\ LoadSettlements(rows, OfInstance(scope, p)) = {paid(o) : o \in D}
  BY DEF LoadSettlements
<1>10. D = {o \in C : o.pubkey = p}
  BY OrdersOf DEF Own
<1>11. \A o : paid(o).pubkey = o.pubkey
  OBVIOUS
<1> HIDE DEF C, D, paid
<1>12. {s \in LoadSettlements(rows, scope) : s.pubkey = p}
       = LoadSettlements(rows, OfInstance(scope, p))
  BY <1>9, <1>10, <1>11
<1> QED BY <1>8, <1>12

\* The groups of a load by instance.
LEMMA SlicesByInstance ==
    ASSUME NEW orders
    PROVE  /\ DOMAIN Slice(orders, "instance") = {o.pubkey : o \in orders}
           /\ \A p \in {o.pubkey : o \in orders} :
                 Slice(orders, "instance")[p] = Own(orders, p)
           /\ DOMAIN OriginSlice(orders, "instance") = {o.pubkey : o \in orders}
           /\ \A p \in {o.pubkey : o \in orders} :
                 OriginSlice(orders, "instance")[p] = Own(orders, p)
<1>1. \A o : GroupKeys(o, "instance") = {o.pubkey} /\ OriginKeys(o, "instance") = {o.pubkey}
  BY DEF GroupKeys, OriginKeys
<1>2. /\ UNION {GroupKeys(o, "instance") : o \in orders} = {o.pubkey : o \in orders}
      /\ UNION {OriginKeys(o, "instance") : o \in orders} = {o.pubkey : o \in orders}
  BY <1>1
<1> QED BY <1>1, <1>2 DEF Slice, OriginSlice, Own

-----------------------------------------------------------------------------
(* A slice --by instance is the report with --instance, command by command.*)

\* What a command reports of one instance, and what it is asked then.
Rephrased(q, again, query, other, p) ==
    /\ again.by = None /\ again.argument = q.argument
    /\ other.window = query.window /\ other.scope = OfInstance(query.scope, p)

\* Nothing asked for is no dimension.
LEMMA NoDimension ==
    None \notin {"instance", "month", "day", "status", "initiator", "network", "hour", "weekday"}
BY QuestionsAssumption, FiguresAssumption

\* stats orders --by instance.
LEMMA OrdersSliced ==
    ASSUME Stored, NEW q, NEW query, NEW clock, q.by = "instance",
           NEW p \in DOMAIN StatsOrders(q, query, rows, rows, clock)
    PROVE  /\ Within(query.scope, p)
           /\ \A again, other : Rephrased(q, again, query, other, p) =>
                 StatsOrders(q, query, rows, rows, clock)[p]
                 = StatsOrders(again, other, rows, rows, clock)
<1> DEFINE orders == LoadOrders(rows, query.scope)
           w == query.window
           block(V) == SummariseActivity(V, w, clock)
           R == StatsOrders(q, query, rows, rows, clock)
<1>1. R = [k \in DOMAIN Slice(orders, "instance") |-> block(Slice(orders, "instance")[k])]
  BY NoDimension DEF StatsOrders, OrdersReport
<1>2. p \in {o.pubkey : o \in orders} /\ R[p] = block(Own(orders, p))
  <2>1. p \in DOMAIN Slice(orders, "instance") /\ R[p] = block(Slice(orders, "instance")[p])
    BY <1>1
  <2> HIDE DEF R, orders
  <2>2. p \in {o.pubkey : o \in orders}
    BY <2>1, SlicesByInstance
  <2>3. Slice(orders, "instance")[p] = Own(orders, p)
    BY <2>2, SlicesByInstance
  <2> QED BY <2>1, <2>2, <2>3
<1>3. Within(query.scope, p)
  BY <1>2, OrderWithin
<1>4. R[p] = block(LoadOrders(rows, OfInstance(query.scope, p)))
  BY <1>2, <1>3, OrdersOf
<1>5. ASSUME NEW again, NEW other, Rephrased(q, again, query, other, p)
      PROVE  StatsOrders(again, other, rows, rows, clock)
             = block(LoadOrders(rows, OfInstance(query.scope, p)))
  BY <1>5, NoDimension DEF Rephrased, StatsOrders, OrdersReport
<1> QED BY <1>3, <1>4, <1>5

\* stats volume --by instance: completed orders are narrowed alike.
LEMMA VolumeSliced ==
    ASSUME Stored, NEW q, NEW query, q.by = "instance",
           NEW p \in DOMAIN StatsVolume(q, query, rows, rows)
    PROVE  /\ Within(query.scope, p)
           /\ \A again, other : Rephrased(q, again, query, other, p) =>
                 StatsVolume(q, query, rows, rows)[p] = StatsVolume(again, other, rows, rows)
<1> DEFINE orders == CompletedIn(rows, query.scope, query.window)
           w == query.window
           conversion == IF q.argument = None THEN None
                         ELSE [book |-> LoadBook(rows, w), code |-> q.argument]
           block(V) == [ volume |-> SummariseVolume(V, w),
                         in     |-> IF conversion = None THEN None
                                    ELSE ConvertedRows(Convert(V, w, conversion.book,
                                                               conversion.code)) ]
           R == StatsVolume(q, query, rows, rows)
<1>1. R = [k \in DOMAIN Slice(orders, "instance") |-> block(Slice(orders, "instance")[k])]
  BY NoDimension DEF StatsVolume, VolumeReport
<1>2. ASSUME NEW again, NEW other, Rephrased(q, again, query, other, p)
      PROVE  StatsVolume(again, other, rows, rows)
             = block(CompletedIn(rows, OfInstance(query.scope, p), w))
  BY <1>2, NoDimension DEF Rephrased, StatsVolume, VolumeReport
<1> HIDE DEF block
<1>3. p \in {o.pubkey : o \in orders} /\ R[p] = block(Own(orders, p))
  <2>1. p \in DOMAIN Slice(orders, "instance") /\ R[p] = block(Slice(orders, "instance")[p])
    BY <1>1
  <2> HIDE DEF R, orders
  <2>2. p \in {o.pubkey : o \in orders}
    BY <2>1, SlicesByInstance
  <2>3. Slice(orders, "instance")[p] = Own(orders, p)
    BY <2>2, SlicesByInstance
  <2> QED BY <2>1, <2>2, <2>3
<1>4. Within(query.scope, p)
  BY <1>3, OrderWithin DEF CompletedIn
<1>5. Own(orders, p) = CompletedIn(rows, OfInstance(query.scope, p), w)
  BY <1>4, OrdersOf DEF CompletedIn, Own
<1> QED BY <1>2, <1>3, <1>4, <1>5

\* stats timing --by instance: orders touched in the window are.
LEMMA TimingSliced ==
    ASSUME Stored, NEW q, NEW query, NEW clock, q.by = "instance",
           NEW p \in DOMAIN StatsTiming(q, query, rows, clock)
    PROVE  /\ Within(query.scope, p)
           /\ \A again, other : Rephrased(q, again, query, other, p) =>
                 StatsTiming(q, query, rows, clock)[p] = StatsTiming(again, other, rows, clock)
<1> DEFINE w == query.window
           orders == TouchedIn(rows, query.scope, w, clock)
           block(V) == Joined(SummariseTiming(V, w, clock),
                              [ unknown_origin |-> Cardinality(UnknownOrigin(V, w)),
                                regressed      |-> Cardinality(Regressed(V)) ])
           R == StatsTiming(q, query, rows, clock)
<1>1. R = [k \in DOMAIN OriginSlice(orders, "instance") |->
              block(OriginSlice(orders, "instance")[k])]
  BY NoDimension DEF StatsTiming, TimingReport
<1>2. ASSUME NEW again, NEW other, Rephrased(q, again, query, other, p)
      PROVE  StatsTiming(again, other, rows, clock)
             = block(TouchedIn(rows, OfInstance(query.scope, p), w, clock))
  BY <1>2 DEF Rephrased, StatsTiming, TimingReport
<1> HIDE DEF block
<1>3. p \in {o.pubkey : o \in orders} /\ R[p] = block(Own(orders, p))
  <2>1. p \in DOMAIN OriginSlice(orders, "instance") /\ R[p] = block(OriginSlice(orders, "instance")[p])
    BY <1>1
  <2> HIDE DEF R, orders
  <2>2. p \in {o.pubkey : o \in orders}
    BY <2>1, SlicesByInstance
  <2>3. OriginSlice(orders, "instance")[p] = Own(orders, p)
    BY <2>2, SlicesByInstance
  <2> QED BY <2>1, <2>2, <2>3
<1>4. Within(query.scope, p)
  BY <1>3, OrderWithin DEF TouchedIn
<1>5. Own(orders, p) = TouchedIn(rows, OfInstance(query.scope, p), w, clock)
  BY <1>4, OrdersOf DEF TouchedIn, Own
<1> QED BY <1>2, <1>3, <1>4, <1>5

\* stats market --by instance.
LEMMA MarketSliced ==
    ASSUME Stored, NEW q, NEW query, q.by = "instance",
           NEW p \in DOMAIN StatsMarket(q, query, rows)
    PROVE  /\ Within(query.scope, p)
           /\ \A again, other : Rephrased(q, again, query, other, p) =>
                 StatsMarket(q, query, rows)[p] = StatsMarket(again, other, rows)
<1> DEFINE w == query.window
           orders == LoadOrders(rows, query.scope)
           block(V) == MarketRows(SummariseMarket(V, w), FALSE)
           R == StatsMarket(q, query, rows)
<1>0. \A V : MarketRows(SummariseMarket(V, w), "instance" = "fiat") = block(V)
  <2>1. ("instance" = "fiat") = FALSE
    OBVIOUS
  <2> QED BY <2>1, Zenon
<1>1. R = [k \in DOMAIN Slice(orders, "instance") |-> block(Slice(orders, "instance")[k])]
  <2>1. R = [k \in DOMAIN Slice(orders, "instance") |->
                MarketRows(SummariseMarket(Slice(orders, "instance")[k], w), "instance" = "fiat")]
    BY NoDimension DEF StatsMarket, MarketReport
  <2> QED BY <1>0, <2>1
<1>2. ASSUME NEW again, NEW other, Rephrased(q, again, query, other, p)
      PROVE  StatsMarket(again, other, rows) = block(LoadOrders(rows, OfInstance(query.scope, p)))
  BY <1>2 DEF Rephrased, StatsMarket, MarketReport
<1> HIDE DEF block
<1>3. p \in {o.pubkey : o \in orders} /\ R[p] = block(Own(orders, p))
  <2>1. p \in DOMAIN Slice(orders, "instance") /\ R[p] = block(Slice(orders, "instance")[p])
    BY <1>1
  <2> HIDE DEF R, orders
  <2>2. p \in {o.pubkey : o \in orders}
    BY <2>1, SlicesByInstance
  <2>3. Slice(orders, "instance")[p] = Own(orders, p)
    BY <2>2, SlicesByInstance
  <2> QED BY <2>1, <2>2, <2>3
<1>4. Within(query.scope, p)
  BY <1>3, OrderWithin
<1>5. Own(orders, p) = LoadOrders(rows, OfInstance(query.scope, p))
  BY <1>4, OrdersOf
<1> QED BY <1>2, <1>3, <1>4, <1>5

\* The groups of disputes and of fees.
LEMMA DisputeGroups ==
    ASSUME Stored, NEW scope, NEW p \in DOMAIN DisputesByInstance(DisputeData(rows, scope))
    PROVE  /\ Within(scope, p)
           /\ DisputesByInstance(DisputeData(rows, scope))[p]
              = DisputeData(rows, OfInstance(scope, p))
<1> DEFINE D == LoadDisputes(rows, scope)
           T == LoadTaken(rows, scope)
           data == DisputeData(rows, scope)
<1>1. data.disputes = D /\ data.taken = T
  BY DEF DisputeData
<1> HIDE DEF data
<1>2. /\ p \in {r.pubkey : r \in D \cup T}
      /\ DisputesByInstance(data)[p] = [ disputes |-> {d \in D : d.pubkey = p},
                                         taken    |-> {t \in T : t.pubkey = p} ]
  BY <1>1 DEF DisputesByInstance, data
<1>3. Within(scope, p)
  BY <1>2, DisputeWithin, TakenWithin
<1>4. DisputesByInstance(data)[p] = DisputeData(rows, OfInstance(scope, p))
  BY <1>2, <1>3, DisputesOf DEF DisputeData
<1> QED BY <1>3, <1>4 DEF data

\* The fees of one instance.
LEMMA FeeGroups ==
    ASSUME Stored, NEW scope, NEW p \in DOMAIN FeesByInstance(DevFeeData(rows, scope))
    PROVE  /\ Within(scope, p)
           /\ FeesByInstance(DevFeeData(rows, scope))[p] = DevFeeData(rows, OfInstance(scope, p))
<1> DEFINE F == LoadFees(rows, scope)
           S == LoadSettlements(rows, scope)
           data == DevFeeData(rows, scope)
<1>1. data.fees = F /\ data.settlements = S
  BY DEF DevFeeData
<1> HIDE DEF data
<1>2. /\ p \in {r.pubkey : r \in F} \cup {r.pubkey : r \in S}
      /\ FeesByInstance(data)[p] = [ fees        |-> {f \in F : f.pubkey = p},
                                     settlements |-> {s \in S : s.pubkey = p} ]
  BY <1>1 DEF FeesByInstance, data
<1>3. Within(scope, p)
  BY <1>2, FeeWithin, SettlementWithin
<1>4. FeesByInstance(data)[p] = DevFeeData(rows, OfInstance(scope, p))
  BY <1>2, <1>3, FeesOf DEF DevFeeData
<1> QED BY <1>3, <1>4 DEF data

\* stats disputes --by instance.
LEMMA DisputesSliced ==
    ASSUME Stored, NEW q, NEW query, NEW clock, q.by = "instance",
           NEW p \in DOMAIN StatsDisputes(q, query, rows, rows, clock)
    PROVE  /\ Within(query.scope, p)
           /\ \A again, other : Rephrased(q, again, query, other, p) =>
                 StatsDisputes(q, query, rows, rows, clock)[p]
                 = StatsDisputes(again, other, rows, rows, clock)
<1> DEFINE w == query.window
           data == DisputeData(rows, query.scope)
           block(d) == SummariseDisputes(d, w, clock)
           R == StatsDisputes(q, query, rows, rows, clock)
<1>1. R = [k \in DOMAIN DisputesByInstance(data) |-> block(DisputesByInstance(data)[k])]
  BY NoDimension DEF StatsDisputes, DisputesReport
<1>2. ASSUME NEW again, NEW other, Rephrased(q, again, query, other, p)
      PROVE  StatsDisputes(again, other, rows, rows, clock)
             = block(DisputeData(rows, OfInstance(query.scope, p)))
  BY <1>2, NoDimension DEF Rephrased, StatsDisputes, DisputesReport
<1> HIDE DEF block
<1>3. p \in DOMAIN DisputesByInstance(data) /\ R[p] = block(DisputesByInstance(data)[p])
  BY <1>1
<1> QED BY <1>2, <1>3, DisputeGroups

\* stats dev-fees --by instance.
LEMMA DevFeesSliced ==
    ASSUME Stored, NEW q, NEW query, q.by = "instance",
           NEW p \in DOMAIN StatsDevFees(q, query, rows, rows)
    PROVE  /\ Within(query.scope, p)
           /\ \A again, other : Rephrased(q, again, query, other, p) =>
                 StatsDevFees(q, query, rows, rows)[p] = StatsDevFees(again, other, rows, rows)
<1> DEFINE w == query.window
           data == DevFeeData(rows, query.scope)
           block(d) == Joined(SummariseDevFees(d, w), ImpliedRows(Implied(d, w, PctSetting)))
           R == StatsDevFees(q, query, rows, rows)
<1>1. R = [k \in DOMAIN FeesByInstance(data) |-> block(FeesByInstance(data)[k])]
  BY NoDimension DEF StatsDevFees, DevFeesReport
<1>2. ASSUME NEW again, NEW other, Rephrased(q, again, query, other, p)
      PROVE  StatsDevFees(again, other, rows, rows)
             = block(DevFeeData(rows, OfInstance(query.scope, p)))
  BY <1>2, NoDimension DEF Rephrased, StatsDevFees, DevFeesReport
<1> HIDE DEF block
<1>3. p \in DOMAIN FeesByInstance(data) /\ R[p] = block(FeesByInstance(data)[p])
  BY <1>1
<1> QED BY <1>2, <1>3, FeeGroups

-----------------------------------------------------------------------------
(* A series split by instance.                                             *)

\* Two loads with the same rows of what a family reads.
SameFor(family, d, e) ==
    /\ family \in {"orders", "volume"} => d.orders = e.orders /\ d.priced = e.priced
    /\ family = "dev-fees" => d.fees = e.fees /\ d.pct = e.pct
    /\ family = "disputes" => d.disputes = e.disputes

\* The same data for a family give the same block.
LEMMA SameBlock ==
    ASSUME NEW family \in Families, NEW d, NEW e, SameFor(family, d, e), NEW w, NEW clock
    PROVE  Block(family, d, w, clock) = Block(family, e, w, clock)
<1>1. CASE family = "orders"
  BY <1>1 DEF Block, SameFor
<1>2. CASE family = "volume"
  BY <1>2 DEF Block, SameFor
<1>3. CASE family = "dev-fees"
  BY <1>3 DEF Block, SameFor
<1>4. CASE family = "disputes"
  BY <1>4 DEF Block, SameFor
<1> QED BY <1>1, <1>2, <1>3, <1>4 DEF Families

\* Records with the same fields are joined into such.
LEMMA JoinedAlike ==
    ASSUME NEW a, NEW b, NEW c, NEW d, DOMAIN a = DOMAIN c, DOMAIN b = DOMAIN d
    PROVE  DOMAIN Joined(a, b) = DOMAIN Joined(c, d)
BY DEF Joined

\* Which figures a block has depends on no row.
LEMMA BlockNames ==
    ASSUME NEW family \in Families, NEW d, NEW e, NEW w, NEW clock,
           family = "volume" => d.priced = e.priced, family = "dev-fees" => d.pct = e.pct
    PROVE  DOMAIN Block(family, d, w, clock) = DOMAIN Block(family, e, w, clock)
<1>1. CASE family = "orders"
  <2>1. \A o : /\ DOMAIN DatedActivity(o, w, Previous(w))
                  = {"created", "completed", "canceled", "completion_rate", "abandonment_rate",
                     "created_delta", "completed_delta"}
               /\ DOMAIN LiveActivity(o, clock) = {"open_now", "in_progress_now"}
    BY DEF DatedActivity, LiveActivity
  <2>2. /\ DOMAIN DatedActivity(d.orders, w, Previous(w)) = DOMAIN DatedActivity(e.orders, w, Previous(w))
        /\ DOMAIN LiveActivity(d.orders, clock) = DOMAIN LiveActivity(e.orders, clock)
    BY <2>1
  <2>3. /\ Block(family, d, w, clock) = Joined(DatedActivity(d.orders, w, Previous(w)),
                                               LiveActivity(d.orders, clock))
        /\ Block(family, e, w, clock) = Joined(DatedActivity(e.orders, w, Previous(w)),
                                               LiveActivity(e.orders, clock))
    BY <1>1 DEF Block, SummariseActivity
  <2> QED BY <2>2, <2>3, JoinedAlike
<1>2. CASE family = "volume"
  <2> DEFINE more(x) == IF x.priced = None THEN << >>
                        ELSE [in |-> ConvertedRows(Convert(x.orders, w, x.priced.book, x.priced.code))]
  <2>1. \A o : DOMAIN SummariseVolume(o, w) = {"completed", "sats", "ticket_avg", "ticket_p50",
                  "ticket_p90", "largest", "buckets", "buy_sats", "sell_sats", "fiat"}
    BY DEF SummariseVolume
  <2>2. /\ Block(family, d, w, clock) = Joined(SummariseVolume(d.orders, w), more(d))
        /\ Block(family, e, w, clock) = Joined(SummariseVolume(e.orders, w), more(e))
    BY <1>2 DEF Block
  <2>3. DOMAIN more(d) = DOMAIN more(e)
    BY <1>2
  <2> HIDE DEF more
  <2>4. DOMAIN SummariseVolume(d.orders, w) = DOMAIN SummariseVolume(e.orders, w)
    BY <2>1
  <2> QED BY <2>2, <2>3, <2>4, JoinedAlike
<1>3. CASE family = "dev-fees"
  <2> DEFINE more(x) == IF x.pct = None THEN << >> ELSE [implied |-> Implied(x.fees, w, x.pct)]
  <2>1. \A o : DOMAIN SummariseDevFees(o, w) = {"total_sats", "paid", "coverage", "latency_p50",
                  "latency_p90", "duplicates", "orphans"}
    BY DEF SummariseDevFees
  <2>2. /\ Block(family, d, w, clock) = Joined(SummariseDevFees(d.fees, w), more(d))
        /\ Block(family, e, w, clock) = Joined(SummariseDevFees(e.fees, w), more(e))
    BY <1>3 DEF Block
  <2>3. DOMAIN more(d) = DOMAIN more(e)
    BY <1>3
  <2> HIDE DEF more
  <2>4. DOMAIN SummariseDevFees(d.fees, w) = DOMAIN SummariseDevFees(e.fees, w)
    BY <2>1
  <2> QED BY <2>2, <2>3, <2>4, JoinedAlike
<1>4. CASE family = "disputes"
  <2>1. \A o : DOMAIN DatedDisputes(o, w) = {"opened", "by_status", "buyer_share", "seller_share",
                  "rate", "resolved", "outcome", "resolution_p50", "resolution_p90"}
    BY DEF DatedDisputes
  <2> DEFINE more(x) == [open |-> OpenDisputes(x.disputes, clock)]
  <2>2. /\ Block(family, d, w, clock) = Joined(DatedDisputes(d.disputes, w), more(d))
        /\ Block(family, e, w, clock) = Joined(DatedDisputes(e.disputes, w), more(e))
    BY <1>4 DEF Block, SummariseDisputes
  <2>3. DOMAIN more(d) = DOMAIN more(e)
    OBVIOUS
  <2> HIDE DEF more
  <2>4. DOMAIN DatedDisputes(d.disputes, w) = DOMAIN DatedDisputes(e.disputes, w)
    BY <2>1
  <2> QED BY <2>2, <2>3, <2>4, JoinedAlike
<1> QED BY <1>1, <1>2, <1>3, <1>4 DEF Families

\* What is loaded for a family, and the part of it that is an instance's.
Pricing(priced, w) == IF priced = None THEN None ELSE [book |-> LoadBook(rows, w), code |-> priced]

\* What series loads for a family.
LEMMA LoadedFor ==
    ASSUME NEW family \in Families, NEW scope, NEW priced, NEW w, NEW data,
           data = LoadFor(rows, scope, family, priced, w)
    PROVE  /\ family \in {"orders", "volume"} => data.orders = LoadOrders(rows, scope)
           /\ family = "dev-fees" => data.fees = DevFeeData(rows, scope)
           /\ family = "disputes" => data.disputes = DisputeData(rows, scope)
           /\ data.priced = Pricing(priced, w) /\ data.pct = PctSetting
BY DEF LoadFor, Pricing

\* A slice of it is what the instance's scope loads.
LEMMA SplitFor ==
    ASSUME Stored, NEW family \in Families, NEW scope, NEW priced, NEW w,
           NEW p \in DOMAIN SplitData(LoadFor(rows, scope, family, priced, w), family, "instance")
    PROVE  /\ Within(scope, p)
           /\ SameFor(family,
                      SplitData(LoadFor(rows, scope, family, priced, w), family, "instance")[p],
                      LoadFor(rows, OfInstance(scope, p), family, priced, w))
<1> DEFINE data == LoadFor(rows, scope, family, priced, w)
           other == LoadFor(rows, OfInstance(scope, p), family, priced, w)
           slices == SplitData(data, family, "instance")
           none == [ orders |-> {}, profiles |-> {}, priced |-> None, pct |-> None,
                     fees |-> [fees |-> {}, settlements |-> {}],
                     disputes |-> [disputes |-> {}, taken |-> {}] ]
<1>0. /\ data = LoadFor(rows, scope, family, priced, w)
      /\ other = LoadFor(rows, OfInstance(scope, p), family, priced, w)
  OBVIOUS
<1> HIDE DEF data, other
<1>1. data.priced = other.priced /\ data.pct = other.pct
  BY <1>0, LoadedFor
<1>2. CASE family \in {"orders", "volume"}
  <2> DEFINE orders == LoadOrders(rows, scope)
             S == Slice(orders, "instance")
  <2>1. data.orders = orders /\ other.orders = LoadOrders(rows, OfInstance(scope, p))
    BY <1>0, <1>2, LoadedFor
  <2>2. slices = [k \in DOMAIN S |-> [none EXCEPT !.orders = S[k], !.priced = data.priced]]
    BY <1>2, <2>1 DEF SplitData
  <2>3. p \in DOMAIN S
    BY <2>2 DEF data
  <2>4. slices[p].orders = S[p] /\ slices[p].priced = data.priced
    BY <2>2, <2>3
  <2> HIDE DEF orders, slices
  <2>5. p \in {o.pubkey : o \in orders}
    BY <2>3, SlicesByInstance
  <2>6. S[p] = Own(orders, p)
    BY <2>5, SlicesByInstance
  <2>7. Within(scope, p)
    BY <2>5, OrderWithin DEF orders
  <2>8. slices[p].orders = other.orders
    BY <2>1, <2>4, <2>6, <2>7, OrdersOf DEF orders
  <2> QED BY <1>1, <1>2, <2>4, <2>7, <2>8 DEF SameFor, data, other, slices
<1>3. CASE family = "dev-fees"
  <2> DEFINE S == FeesByInstance(DevFeeData(rows, scope))
  <2>1. data.fees = DevFeeData(rows, scope) /\ other.fees = DevFeeData(rows, OfInstance(scope, p))
    BY <1>0, <1>3, LoadedFor
  <2>2. slices = [k \in DOMAIN S |-> [none EXCEPT !.fees = S[k], !.pct = data.pct]]
    BY <1>3, <2>1 DEF SplitData
  <2>3. p \in DOMAIN S
    BY <2>2 DEF data
  <2>4. slices[p].fees = S[p] /\ slices[p].pct = data.pct
    BY <2>2, <2>3
  <2> HIDE DEF slices
  <2>5. Within(scope, p) /\ S[p] = DevFeeData(rows, OfInstance(scope, p))
    BY <2>3, FeeGroups
  <2> QED BY <1>1, <1>3, <2>1, <2>4, <2>5 DEF SameFor, data, other, slices
<1>4. CASE family = "disputes"
  <2> DEFINE S == DisputesByInstance(DisputeData(rows, scope))
  <2>1. /\ data.disputes = DisputeData(rows, scope)
        /\ other.disputes = DisputeData(rows, OfInstance(scope, p))
    BY <1>0, <1>4, LoadedFor
  <2>2. slices = [k \in DOMAIN S |-> [none EXCEPT !.disputes = S[k]]]
    BY <1>4, <2>1 DEF SplitData
  <2>3. p \in DOMAIN S
    BY <2>2 DEF data
  <2>4. slices[p].disputes = S[p]
    BY <2>2, <2>3
  <2> HIDE DEF slices
  <2>5. Within(scope, p) /\ S[p] = DisputeData(rows, OfInstance(scope, p))
    BY <2>3, DisputeGroups
  <2> QED BY <1>1, <1>4, <2>1, <2>4, <2>5 DEF SameFor, data, other, slices
<1> QED BY <1>2, <1>3, <1>4 DEF Families

\* A series that is no error, unsplit and split.
Drawable(family, name, data, w, period, clock) ==
    /\ family \in Families /\ name \in Catalogue(family, data, w, clock)
    /\ BucketsUpto(w, period, MAX_BUCKETS) # None

\* What is reported of a series that can be drawn.
LEMMA SeriesDrawn ==
    ASSUME NEW family, NEW name, NEW data, NEW w, NEW period, NEW clock,
           Drawable(family, name, data, w, period, clock)
    PROVE  LET B == BucketsUpto(w, period, MAX_BUCKETS)
               S == SplitData(data, family, "instance")
           IN  /\ SeriesReport(family, name, data, w, period, None, clock)
                  = Plot(family, name, data, B, clock)
               /\ SeriesReport(family, name, data, w, period, "instance", clock)
                  = [k \in DOMAIN S |-> Plot(family, name, S[k], B, clock)]
<1>1. /\ family \in Families /\ name \notin AboutNow /\ name \notin Deltas
      /\ name \in DOMAIN Block(family, data, w, clock)
      /\ BucketsUpto(w, period, MAX_BUCKETS) # None
  BY DEF Drawable, Catalogue, Plottable
<1>2. Supports(family, "instance")
  BY DEF Supports
<1> QED BY <1>1, <1>2, NoDimension DEF SeriesReport

\* series --split instance.
LEMMA SeriesSliced ==
    ASSUME Stored, NEW q, NEW query, NEW clock, q.by = "instance",
           Drawable(q.argument[1], q.argument[2],
                    LoadFor(rows, query.scope, q.argument[1], q.argument[4], query.window),
                    query.window, q.argument[3], clock),
           NEW p \in DOMAIN SeriesOf(q, query, rows, clock)
    PROVE  /\ Within(query.scope, p)
           /\ \A again, other : Rephrased(q, again, query, other, p) =>
                 SeriesOf(q, query, rows, clock)[p] = SeriesOf(again, other, rows, clock)
<1> DEFINE w == query.window
           family == q.argument[1]
           name == q.argument[2]
           period == q.argument[3]
           data == LoadFor(rows, query.scope, family, q.argument[4], w)
           own == LoadFor(rows, OfInstance(query.scope, p), family, q.argument[4], w)
           S == SplitData(data, family, "instance")
           B == BucketsUpto(w, period, MAX_BUCKETS)
<1>1. SeriesOf(q, query, rows, clock) = [k \in DOMAIN S |-> Plot(family, name, S[k], B, clock)]
  BY SeriesDrawn DEF SeriesOf
<1>2. p \in DOMAIN S /\ SeriesOf(q, query, rows, clock)[p] = Plot(family, name, S[p], B, clock)
  BY <1>1
<1>3. family \in Families
  BY DEF Drawable
<1>4. Within(query.scope, p) /\ SameFor(family, S[p], own)
  BY <1>2, <1>3, SplitFor
<1>5. Drawable(family, name, own, w, period, clock)
  <2>0. /\ data = LoadFor(rows, query.scope, family, q.argument[4], w)
        /\ own = LoadFor(rows, OfInstance(query.scope, p), family, q.argument[4], w)
    OBVIOUS
  <2> HIDE DEF data, own, w, family, name, period
  <2>1. data.priced = own.priced /\ data.pct = own.pct
    BY <1>3, <2>0, LoadedFor
  <2>2. DOMAIN Block(family, data, w, clock) = DOMAIN Block(family, own, w, clock)
    BY <1>3, <2>1, BlockNames
  <2> QED BY <2>2 DEF Drawable, Catalogue, data, w, family, name, period
<1>6. \A again, other : Rephrased(q, again, query, other, p) =>
         SeriesOf(again, other, rows, clock) = Plot(family, name, own, B, clock)
  <2> SUFFICES ASSUME NEW again, NEW other, Rephrased(q, again, query, other, p)
               PROVE  SeriesOf(again, other, rows, clock) = Plot(family, name, own, B, clock)
    OBVIOUS
  <2>1. SeriesOf(again, other, rows, clock) = SeriesReport(family, name, own, w, period, None, clock)
    BY DEF Rephrased, SeriesOf
  <2> HIDE DEF own, family, name, period, w
  <2> QED BY <1>5, <2>1, SeriesDrawn
<1>7. Plot(family, name, S[p], B, clock) = Plot(family, name, own, B, clock)
  <2> HIDE DEF S, own, B, family
  <2>1. \A b : Block(family, S[p], b, clock) = Block(family, own, b, clock)
    BY <1>3, <1>4, SameBlock
  <2> QED BY <2>1 DEF Plot, Measure
<1> QED BY <1>2, <1>4, <1>6, <1>7

-----------------------------------------------------------------------------
(* The comparison, the profile and the series of created orders.           *)

\* A scope loads some of the orders there are.
LEMMA ScopedOrders ==
    ASSUME Stored, NEW scope
    PROVE  /\ LoadOrders(rows, scope) \subseteq LoadOrders(rows, Everyone)
           /\ IsFiniteSet(LoadOrders(rows, scope))
<1>1. LoadOrders(rows, scope) \subseteq LoadOrders(rows, Everyone)
  BY DEF LoadOrders, InScope, Everyone
<1> QED BY <1>1, OrdersFinite, FS_Subset

\* What an activity report counts, and what a table of one does.
LEMMA ActivityIs ==
    ASSUME NEW orders, NEW w, NEW clock
    PROVE  /\ SummariseActivity(orders, w, clock).created = Cardinality(CreatedOver(orders, w))
           /\ SummariseActivity(orders, w, clock).completed = Cardinality(CompletedOver(orders, w))
           /\ "created" \in DOMAIN SummariseActivity(orders, w, clock)
<1>1. \A name \in CountNames :
         /\ name \in DOMAIN SummariseActivity(orders, w, clock)
         /\ SummariseActivity(orders, w, clock)[name] = Cardinality(Counted(orders, w, clock)[name])
  BY ActivityCounts
<1>2. "created" \in CountNames /\ "completed" \in CountNames
  BY DEF CountNames
<1>3. /\ Counted(orders, w, clock)["created"] = CreatedOver(orders, w)
      /\ Counted(orders, w, clock)["completed"] = CompletedOver(orders, w)
  BY DEF Counted
<1> QED BY <1>1, <1>2, <1>3

\* Instances share out orders by number.
LEMMA InstancesShare ==
    ASSUME NEW orders, NEW w, IsFiniteSet(CompletedOver(orders, w)), NEW P, IsFiniteSet(P),
           \A o \in orders : o.pubkey \in P
    PROVE  Total([p \in P |-> Cardinality(CompletedOver(Own(orders, p), w))])
           = Cardinality(CompletedOver(orders, w))
<1> DEFINE D == CompletedOver(orders, w)
           part == [p \in P |-> CompletedOver(Own(orders, p), w)]
<1>1. \A p \in P : part[p] = {o \in D : o.pubkey = p}
  BY DEF CompletedOver, Own
<1>2. \A o \in D : o.pubkey \in P
  BY DEF CompletedOver
<1>3. [p \in P |-> Cardinality(part[p])]
      = [p \in P |-> Cardinality(CompletedOver(Own(orders, p), w))]
  OBVIOUS
<1> HIDE DEF D, part
<1>4. /\ \A p \in P : part[p] \subseteq D
      /\ \A p, r \in P : p # r => part[p] \cap part[r] = {}
      /\ \A y \in D : \E p \in P : y \in part[p]
  BY <1>1, <1>2
<1>5. IsFiniteSet(D)
  BY DEF D
<1>6. Added([p \in P |-> Cardinality(part[p])]) = Cardinality(D)
  BY <1>4, <1>5, CountedParts
<1> QED BY <1>3, <1>6, TotalAdded DEF D

\* The profiles of a comparison: none is left out that has an order.
LEMMA ProfilesOf ==
    ASSUME Stored, NEW scope
    PROVE  {r.pubkey : r \in LoadProfiles(rows, scope)}
           = {p \in Known(rows) : InInstance(scope, [pubkey |-> p])}
<1> DEFINE said(p) == {v \in OfKind(rows, "info") : v.pubkey = p /\ v.fee # None}
           made(p) == [ pubkey        |-> p,
                        first_seen_at |-> Min({v.at : v \in {r \in rows : r.pubkey = p}}),
                        last_seen_at  |-> Max({v.at : v \in {r \in rows : r.pubkey = p}}),
                        fee           |-> IF said(p) = {} THEN None ELSE Last(said(p)).fee ]
           Q == {p \in Known(rows) : InInstance(scope, [pubkey |-> p])}
<1>1. LoadProfiles(rows, scope) = {made(p) : p \in Q}
  BY DEF LoadProfiles
<1>2. \A p : made(p).pubkey = p
  OBVIOUS
<1> HIDE DEF made, Q
<1>3. {r.pubkey : r \in LoadProfiles(rows, scope)} = Q
  BY <1>1, <1>2
<1> QED BY <1>3 DEF Q

\* The completed orders of the instances compared are those of the summary.
LEMMA CompareShares ==
    ASSUME Stored, NEW query, NEW clock
    PROVE  LET report == Compare(query, rows, clock)
           IN  SumOver(DOMAIN report, LAMBDA i : report[i].completed)
               = Summary(query, rows, clock).completed
<1> DEFINE w == query.window
           orders == LoadOrders(rows, query.scope)
           profiles == {p \in LoadProfiles(rows, query.scope) :
                           query.narrowed => \E o \in orders : o.pubkey = p.pubkey}
           P == {r.pubkey : r \in profiles}
           report == Compare(query, rows, clock)
           data == [ orders |-> orders, disputes |-> DisputesUnless(query, rows),
                     fees |-> DevFeeData(rows, query.scope), profiles |-> profiles ]
<1>1. report = CompareView(data, w, clock)
  BY DEF Compare
<1>2. data.orders = orders /\ data.profiles = profiles
  OBVIOUS
<1>3. IsFiniteSet(P) /\ \A o \in orders : o.pubkey \in P
  <2>1. P \subseteq Known(rows)
    <3>1. \A r \in LoadProfiles(rows, query.scope) : r.pubkey \in Known(rows)
      <4> DEFINE L == LoadProfiles(rows, query.scope)
      <4>1. {r.pubkey : r \in L} = {p \in Known(rows) : InInstance(query.scope, [pubkey |-> p])}
        BY ProfilesOf
      <4> HIDE DEF L
      <4> QED BY <4>1 DEF L
    <3> QED BY <3>1
  <2>2. ASSUME NEW o \in orders PROVE o.pubkey \in P
    <3>1. Within(query.scope, o.pubkey)
      BY OrderWithin
    <3>2. o.pubkey \in {r.pubkey : r \in LoadProfiles(rows, query.scope)}
      BY <3>1, ProfilesOf DEF Within, InInstance
    <3> QED BY <3>2
  <2>3. IsFiniteSet(Known(rows))
    BY KnownFinite
  <2> QED BY <2>1, <2>2, <2>3, FS_Subset
<1>4. IsFiniteSet(CompletedOver(orders, w))
  BY ScopedOrders, FS_Subset DEF CompletedOver
<1>5. Summary(query, rows, clock).completed = Cardinality(CompletedOver(orders, w))
  <2>1. Summary(query, rows, clock).completed = SummariseActivity(orders, w, clock).completed
    BY DEF Summary, SummaryView
  <2> HIDE DEF orders, w
  <2> QED BY <2>1, ActivityIs
<1> HIDE DEF data, orders, profiles, w
<1>6. DOMAIN report = P
  BY <1>1, <1>2 DEF CompareView
<1>7. \A p \in P : report[p].completed = Cardinality(CompletedOver(Own(orders, p), w))
  <2> SUFFICES ASSUME NEW p \in P
               PROVE  report[p].completed = Cardinality(CompletedOver(Own(orders, p), w))
    OBVIOUS
  <2> HIDE DEF report
  <2>1. report[p].completed = SummariseActivity(Own(orders, p), w, clock).completed
    BY <1>1, <1>2 DEF CompareView
  <2> QED BY <2>1, ActivityIs
<1> HIDE DEF report, P
<1>8. [p \in P |-> report[p].completed]
      = [p \in P |-> Cardinality(CompletedOver(Own(orders, p), w))]
  BY <1>7
<1>9. SumOver(DOMAIN report, LAMBDA i : report[i].completed) = Total([p \in P |-> report[p].completed])
  BY <1>6 DEF SumOver
<1>10. Total([p \in P |-> Cardinality(CompletedOver(Own(orders, p), w))])
       = Cardinality(CompletedOver(orders, w))
  BY <1>3, <1>4, InstancesShare
<1> QED BY <1>5, <1>8, <1>9, <1>10 DEF report

\* A name, a spelling or the beginning of one means an instance there is.
LEMMA NamedIsKnown ==
    ASSUME Stored, NEW needle, needle # None,
           NEW p \in ResolveInstance(needle, KnownInstances(rows))
    PROVE  p \in Known(rows)
<1> DEFINE n == Cardinality(Known(rows))
           known == KnownInstances(rows)
<1>1. \A i \in 1 .. n : Nth(i) \in Known(rows)
  BY EachHasAPlace
<1>2. known = [j \in 1 .. n |-> [pubkey |-> Nth(j), text |-> Letters[Nth(j)], name |-> NameOf[Nth(j)]]]
  BY DEF KnownInstances, Nth, Ahead, ListedBefore, SeenFirst
<1>3. DOMAIN known = 1 .. n /\ \A j \in 1 .. n : known[j].pubkey = Nth(j)
  BY <1>2
<1> HIDE DEF known, n
<1>4. \E i \in DOMAIN known : p = known[i].pubkey
  BY DEF ResolveInstance, known
<1> QED BY <1>1, <1>3, <1>4

\* The profile of an instance counts the orders of its own, and its share is
\* of no fewer.
LEMMA InstanceIsOwn ==
    ASSUME Stored, NEW query, NEW clock, NEW again, again.by = None, NEW p \in Known(rows), NEW N,
           query.scope = [pubkey |-> p, networks |-> N]
    PROVE  LET report == Instance(query, rows, clock)
           IN  /\ report.orders = StatsOrders(again, query, rows, rows, clock)
               /\ report.share_orders # None => report.share_orders[1] <= report.share_orders[2]
<1> DEFINE w == query.window
           all == [pubkey |-> None, networks |-> N]
           network == LoadOrders(rows, all)
           own == Own(network, p)
           report == Instance(query, rows, clock)
<1>1. [query.scope EXCEPT !.pubkey = None] = all /\ query.scope.pubkey = p
  OBVIOUS
<1>2. own = LoadOrders(rows, query.scope)
  <2>1. Within(all, p) /\ OfInstance(all, p) = query.scope
    BY DEF Within, OfInstance
  <2> QED BY <2>1, OrdersOf
<1>3. /\ report.orders = SummariseActivity(own, w, clock)
      /\ report.share_orders = Share(SummariseActivity(own, w, clock).created,
                                     Cardinality(CreatedOver(network, w)))
  BY <1>1 DEF Instance, ProfileView
<1>4. StatsOrders(again, query, rows, rows, clock) = SummariseActivity(LoadOrders(rows, query.scope), w, clock)
  BY NoDimension DEF StatsOrders, OrdersReport
<1>5. SummariseActivity(own, w, clock).created = Cardinality(CreatedOver(own, w))
  BY ActivityIs
<1>6. Cardinality(CreatedOver(own, w)) <= Cardinality(CreatedOver(network, w))
  <2>1. IsFiniteSet(network)
    BY ScopedOrders
  <2>2. IsFiniteSet(CreatedOver(network, w))
    BY <2>1, FS_Subset DEF CreatedOver
  <2>3. CreatedOver(own, w) \subseteq CreatedOver(network, w)
    BY DEF CreatedOver, Own
  <2> QED BY <2>2, <2>3, FS_Subset
<1> HIDE DEF report, own, network, w
<1>7. report.share_orders # None => report.share_orders[1] <= report.share_orders[2]
  <2> SUFFICES ASSUME report.share_orders # None
               PROVE  report.share_orders[1] <= report.share_orders[2]
    OBVIOUS
  <2>1. report.share_orders = <<Cardinality(CreatedOver(own, w)), Cardinality(CreatedOver(network, w))>>
    BY <1>3, <1>5 DEF Share
  <2> QED BY <1>6, <2>1
<1>8. report.orders = StatsOrders(again, query, rows, rows, clock)
  BY <1>2, <1>3, <1>4 DEF w
<1> QED BY <1>7, <1>8 DEF report

\* A series is drawn over the buckets that cut its window.
LEMMA SeriesCut ==
    ASSUME NEW period \in Periods, NEW w, w.from \in Instants, w.until \in Instants,
           \E t \in Openings(period) : t <= w.from, \E t \in Openings(period) : w.until <= t,
           BucketsUpto(w, period, MAX_BUCKETS) # None
    PROVE  Cut(w, BucketsUpto(w, period, MAX_BUCKETS))
<1> DEFINE B == Buckets(w, period)
<1>1. /\ IsFiniteSet(B)
      /\ \A t \in Nat : Contains(w, t) <=> \E b \in B : Contains(b, t)
      /\ \A b, c \in B : b # c => b.until <= c.from \/ c.until <= b.from
      /\ \A b \in B : b.from \in Nat /\ b.until \in Nat
  BY BucketsPartition
<1>2. w.from \in Nat /\ w.until \in Nat /\ w.until <= Eternity
  BY RowsDated DEF Instants
<1>3. B = Clipped(w, Openings(period))
  BY <1>2, BucketsAreClipped
<1>4. BucketsUpto(w, period, MAX_BUCKETS) = AtMost(MAX_BUCKETS, Clipped(w, Openings(period)))
  BY DEF BucketsUpto, Clipped, Clip, Reaching
<1>5. BucketsUpto(w, period, MAX_BUCKETS) = B
  BY <1>3, <1>4 DEF AtMost
<1> HIDE DEF B
<1> QED BY <1>1, <1>5 DEF Cut

\* The values of points add up to those of their buckets.
LEMMA PointsAdd ==
    ASSUME NEW B, IsFiniteSet(B), NEW name, NEW value, DOMAIN value = B, \A b \in B : value[b] \in Int
    PROVE  SumOver(Points(name, value), LAMBDA point : point.value) = Total([b \in B |-> value[b]])
<1> DEFINE delta(b) == LET before == {c \in DOMAIN value : c.until = b.from}
                       IN  IF before = {} THEN None
                           ELSE Delta(name, value[CHOOSE c \in before : TRUE], value[b])
           g == [b \in B |-> [bucket |-> b, value |-> value[b], delta |-> delta(b)]]
           D == {g[b] : b \in B}
           f == [x \in D |-> x.value]
<1>1. Points(name, value) = D
  BY DEF Points
<1>2. \A b \in B : g[b].bucket = b /\ g[b].value = value[b]
  OBVIOUS
<1>3. SumOver(Points(name, value), LAMBDA point : point.value) = Total(f)
  BY <1>1 DEF SumOver
<1> HIDE DEF g
<1>4. \A b, c \in B : b # c => g[b] # g[c]
  BY <1>2
<1>5. \A b \in B : f[g[b]] = value[b]
  BY <1>2
<1>6. Ints(f, D) /\ Narrowed(f, D) = f
  BY <1>2 DEF Ints, Narrowed
<1> HIDE DEF f
<1>7. Added([b \in B |-> f[g[b]]]) = Added(Narrowed(f, {g[b] : b \in B}))
  BY <1>4, <1>6, AddedImage
<1>8. Added([b \in B |-> value[b]]) = Added(f)
  BY <1>5, <1>6, <1>7
<1> QED BY <1>3, <1>8, TotalAdded

\* The points of orders created add up to the orders created in the window.
LEMMA SeriesAdds ==
    ASSUME Stored, NEW q, NEW query, NEW clock, NEW again, again.by = None, q.by = None,
           q.argument[1] = "orders", q.argument[2] = "created",
           Drawable(q.argument[1], q.argument[2],
                    LoadFor(rows, query.scope, q.argument[1], q.argument[4], query.window),
                    query.window, q.argument[3], clock),
           Cut(query.window, BucketsUpto(query.window, q.argument[3], MAX_BUCKETS))
    PROVE  SumOver(SeriesOf(q, query, rows, clock), LAMBDA point : point.value)
           = StatsOrders(again, query, rows, rows, clock).created
<1> DEFINE w == query.window
           data == LoadFor(rows, query.scope, "orders", q.argument[4], w)
           orders == LoadOrders(rows, query.scope)
           B == BucketsUpto(w, q.argument[3], MAX_BUCKETS)
           value == [b \in B |-> Measure("orders", "created", data, b, clock)]
<1>0. "orders" \in Families
  BY DEF Families
<1>1. SeriesOf(q, query, rows, clock) = Points("created", value)
  <2>1. SeriesOf(q, query, rows, clock) = Plot("orders", "created", data, B, clock)
    BY SeriesDrawn DEF SeriesOf
  <2> QED BY <2>1 DEF Plot
<1>2. data.orders = orders
  <2>1. data = LoadFor(rows, query.scope, "orders", q.argument[4], w)
    OBVIOUS
  <2> HIDE DEF data
  <2> QED BY <1>0, <2>1, LoadedFor
<1>3. StatsOrders(again, query, rows, rows, clock).created = Cardinality(CreatedOver(orders, w))
  <2>1. StatsOrders(again, query, rows, rows, clock) = SummariseActivity(orders, w, clock)
    BY NoDimension DEF StatsOrders, OrdersReport
  <2> QED BY <2>1, ActivityIs
<1> HIDE DEF data
<1>4. \A b : Measure("orders", "created", data, b, clock) = Cardinality(CreatedOver(orders, b))
  <2> SUFFICES ASSUME NEW b
               PROVE  Measure("orders", "created", data, b, clock) = Cardinality(CreatedOver(orders, b))
    OBVIOUS
  <2>1. Block("orders", data, b, clock) = SummariseActivity(orders, b, clock)
    BY <1>2 DEF Block
  <2> HIDE DEF orders
  <2> QED BY <2>1, ActivityIs DEF Measure, FigureOf
<1>5. orders \subseteq LoadOrders(rows, Everyone) /\ IsFiniteSet(orders)
  BY ScopedOrders
<1>6. \A o \in orders : o.created_at \in Nat
  BY <1>5, CreatedAtNumber
<1> HIDE DEF orders
<1>7. Total([b \in B |-> Cardinality(CreatedOver(orders, b))]) = Cardinality(CreatedOver(orders, w))
  <2> DEFINE when == [o \in orders |-> o.created_at]
  <2>1. \A o \in orders : when[o] \in Nat \cup {None}
    BY <1>6
  <2>2. \A b : {o \in orders : Dated(when[o], b)} = CreatedOver(orders, b)
    BY <1>6, RowsDated DEF Dated, CreatedOver
  <2> HIDE DEF when, B
  <2>3. Cut(w, B)
    BY DEF B
  <2>4. Total([b \in B |-> Cardinality({o \in orders : Dated(when[o], b)})])
        = Cardinality({o \in orders : Dated(when[o], w)})
    BY <1>5, <2>1, <2>3, CutCounts
  <2> QED BY <2>2, <2>4
<1>9. DOMAIN value = B /\ \A b \in B : value[b] \in Int
  <2> SUFFICES ASSUME NEW b \in B PROVE value[b] \in Int
    OBVIOUS
  <2>1. IsFiniteSet(CreatedOver(orders, b))
    BY <1>5, FS_Subset DEF CreatedOver
  <2>2. Cardinality(CreatedOver(orders, b)) \in Nat
    BY <2>1, FS_CardinalityType
  <2> QED BY <1>4, <2>2
<1>10. IsFiniteSet(B)
  BY DEF Cut
<1>11. [b \in B |-> value[b]] = [b \in B |-> Cardinality(CreatedOver(orders, b))]
  BY <1>4
<1> HIDE DEF value, B
<1>12. SumOver(Points("created", value), LAMBDA point : point.value) = Total([b \in B |-> value[b]])
  BY <1>9, <1>10, PointsAdd
<1> QED BY <1>1, <1>3, <1>7, <1>11, <1>12

-----------------------------------------------------------------------------
(* All of them together.                                                   *)

\* A slice by instance, whatever the command.
LEMMA SliceAgrees ==
    ASSUME Stored, NEW q, NEW query, NEW clock, q.by = "instance", q.command \in ByInstance,
           q.command = "series" =>
              Drawable(q.argument[1], q.argument[2],
                       LoadFor(rows, query.scope, q.argument[1], q.argument[4], query.window),
                       query.window, q.argument[3], clock),
           NEW p \in DOMAIN Answer(q, query, rows, rows, clock)
    PROVE  /\ Within(query.scope, p)
           /\ \A again, other :
                 again.command = q.command /\ Rephrased(q, again, query, other, p) =>
                    Answer(q, query, rows, rows, clock)[p] = Answer(again, other, rows, rows, clock)
<1>1. CASE q.command = "orders"
  <2>1. \A r, s : r.command = "orders" =>
           Answer(r, s, rows, rows, clock) = StatsOrders(r, s, rows, rows, clock)
    BY DEF Answer
  <2>2. p \in DOMAIN StatsOrders(q, query, rows, rows, clock)
    BY <1>1, <2>1
  <2> QED BY <1>1, <2>1, <2>2, OrdersSliced
<1>2. CASE q.command = "volume"
  <2>1. \A r, s : r.command = "volume" =>
           Answer(r, s, rows, rows, clock) = StatsVolume(r, s, rows, rows)
    BY DEF Answer
  <2>2. p \in DOMAIN StatsVolume(q, query, rows, rows)
    BY <1>2, <2>1
  <2> QED BY <1>2, <2>1, <2>2, VolumeSliced
<1>3. CASE q.command = "timing"
  <2>1. \A r, s : r.command = "timing" =>
           Answer(r, s, rows, rows, clock) = StatsTiming(r, s, rows, clock)
    BY DEF Answer
  <2>2. p \in DOMAIN StatsTiming(q, query, rows, clock)
    BY <1>3, <2>1
  <2> QED BY <1>3, <2>1, <2>2, TimingSliced
<1>4. CASE q.command = "market"
  <2>1. \A r, s : r.command = "market" => Answer(r, s, rows, rows, clock) = StatsMarket(r, s, rows)
    BY DEF Answer
  <2>2. p \in DOMAIN StatsMarket(q, query, rows)
    BY <1>4, <2>1
  <2> QED BY <1>4, <2>1, <2>2, MarketSliced
<1>5. CASE q.command = "disputes"
  <2>1. \A r, s : r.command = "disputes" =>
           Answer(r, s, rows, rows, clock) = StatsDisputes(r, s, rows, rows, clock)
    BY DEF Answer
  <2>2. p \in DOMAIN StatsDisputes(q, query, rows, rows, clock)
    BY <1>5, <2>1
  <2> QED BY <1>5, <2>1, <2>2, DisputesSliced
<1>6. CASE q.command = "dev-fees"
  <2>1. \A r, s : r.command = "dev-fees" =>
           Answer(r, s, rows, rows, clock) = StatsDevFees(r, s, rows, rows)
    BY DEF Answer
  <2>2. p \in DOMAIN StatsDevFees(q, query, rows, rows)
    BY <1>6, <2>1
  <2> QED BY <1>6, <2>1, <2>2, DevFeesSliced
<1>7. CASE q.command = "series"
  <2>1. \A r, s : r.command = "series" =>
           Answer(r, s, rows, rows, clock) = SeriesOf(r, s, rows, clock)
    BY DEF Answer
  <2>2. p \in DOMAIN SeriesOf(q, query, rows, clock)
    BY <1>7, <2>1
  <2> QED BY <1>7, <2>1, <2>2, SeriesSliced
<1> QED BY <1>1, <1>2, <1>3, <1>4, <1>5, <1>6, <1>7 DEF ByInstance

\* What a question that is not refused resolves to.
NetworksOf(q) == IF q.network = None THEN NetworksSetting ELSE {q.network}

\* A question that is refused has no query, and another the one it resolves
\* to.
LEMMA QueriesAre ==
    ASSUME NEW q, NEW clock, q.command # "lifecycle"
    PROVE  /\ Refused(q) => Queries(q, rows, clock) = {}
           /\ ~Refused(q) => Queries(q, rows, clock) = Resolve(q, rows, clock)
BY DEF Queries

\* It resolves to a window, the scope of an instance and its networks.
LEMMA ResolvedTo ==
    ASSUME NEW q, NEW clock, NEW query
    PROVE  query \in Resolve(q, rows, clock) <=>
              \E w \in ResolveRange(q.from, q.until, clock) :
              \E p \in ResolveInstance(q.instance, KnownInstances(rows)) :
                 /\ EventsOf(rows) # {}
                 /\ query = [ window   |-> w,
                              scope    |-> [pubkey |-> p, networks |-> NetworksOf(q)],
                              narrowed |-> q.network # None ]
BY DEF Resolve, NetworksOf

\* A command under way was asked, and what was reported last is the answer to
\* its question.
Traced ==
    /\ Asking
    /\ asked # None =>
          /\ asked.question \in Questions /\ asked.at \in Clocks
          /\ asked.query \in Queries(asked.question, asked.read, asked.at)
    /\ answer # None =>
          /\ answer.question \in Questions /\ answer.at \in Clocks
          /\ answer.query \in Queries(answer.question, answer.read, answer.at)
          /\ answer.report = Answer(answer.question, answer.query, answer.read, answer.told,
                                    answer.at)

\* Every step keeps that.
LEMMA TracedSteps ==
    /\ Init => Traced
    /\ TypeOK /\ Traced /\ [Next]_vars => Traced'
<1>1. Init => Traced
  BY DEF Init, Traced, Asking
<1>2. ASSUME TypeOK, Traced, [Next]_vars PROVE Traced'
  <2>1. ASSUME NEW v \in Versions, Ingest(v) PROVE Traced'
    BY <1>2, <2>1 DEF Ingest, Traced, Asking
  <2>2. CASE Tick
    BY <1>2, <2>2 DEF Tick, Traced, Asking
  <2>3. ASSUME NEW q \in Questions, Ask(q) PROVE Traced'
    <3>1. PICK query \in Queries(q, rows, now) :
             asked' = [question |-> q, query |-> query, read |-> rows, at |-> now]
      BY <2>3 DEF Ask
    <3>2. /\ asked'.question = q /\ asked'.query = query /\ asked'.read = rows /\ asked'.at = now
          /\ DOMAIN asked' = {"question", "query", "read", "at"}
      BY <3>1
    <3>3. answer' = None /\ now \in Clocks
      BY <1>2, <2>3 DEF Ask, TypeOK
    <3> QED BY <3>2, <3>3 DEF Traced, Asking
  <2>4. CASE Report
    <3> DEFINE more == [ told   |-> rows,
                         report |-> Answer(asked.question, asked.query, asked.read, rows, asked.at) ]
    <3>1. answer' = Joined(asked, more) /\ asked # None /\ asked' = None
      BY <2>4 DEF Report
    <3>2. /\ DOMAIN asked = {"question", "query", "read", "at"}
          /\ asked.question \in Questions /\ asked.at \in Clocks
          /\ asked.query \in Queries(asked.question, asked.read, asked.at)
      BY <1>2, <3>1 DEF Traced, Asking
    <3>3. /\ DOMAIN more = {"told", "report"} /\ more.told = rows
          /\ more.report = Answer(asked.question, asked.query, asked.read, rows, asked.at)
      OBVIOUS
    <3> HIDE DEF more
    <3>4. /\ answer'.question = asked.question /\ answer'.query = asked.query
          /\ answer'.read = asked.read /\ answer'.at = asked.at
          /\ answer'.told = rows /\ answer'.report = more.report
      BY <3>1, <3>2, <3>3 DEF Joined
    <3> QED BY <3>1, <3>2, <3>3, <3>4 DEF Traced, Asking
  <2>5. CASE Client
    <3>1. asked' = asked /\ answer' = answer
      BY <2>5 DEF Client, Type
    <3> QED BY <1>2, <3>1 DEF Traced, Asking
  <2>6. CASE UNCHANGED vars
    BY <1>2, <2>6 DEF vars, Traced, Asking
  <2> QED BY <1>2, <2>1, <2>2, <2>3, <2>4, <2>5, <2>6 DEF Next, Indexer
<1> QED BY <1>1, <1>2

\* A slice asked for by name is what was reported of it.
LEMMA SliceReworded ==
    ASSUME Stored, NamesApart, NEW q \in Questions, NEW clock, NEW query \in Queries(q, rows, clock),
           q.by = "instance", q.command \in ByInstance,
           q.command = "series" =>
              Drawable(q.argument[1], q.argument[2],
                       LoadFor(rows, query.scope, q.argument[1], q.argument[4], query.window),
                       query.window, q.argument[3], clock),
           NEW p \in DOMAIN Answer(q, query, rows, rows, clock)
    PROVE  LET again == Reworded(q, p)
           IN  \E other \in Queries(again, rows, clock) :
                  Agrees(q, p, Answer(q, query, rows, rows, clock),
                         Answer(again, other, rows, rows, clock))
<1> DEFINE R == Answer(q, query, rows, rows, clock)
           again == Reworded(q, p)
           other == [ window   |-> query.window,
                      scope    |-> [pubkey |-> p, networks |-> NetworksOf(q)],
                      narrowed |-> q.network # None ]
<1>1. /\ Within(query.scope, p)
      /\ \A r, s : r.command = q.command /\ Rephrased(q, r, query, s, p) =>
            R[p] = Answer(r, s, rows, rows, clock)
  BY SliceAgrees
<1>2. p \in Known(rows) /\ p # None
  BY <1>1, WithinIsNumber DEF Within
<1>3. again = [q EXCEPT !.by = None, !.instance = Letters[p]]
  BY <1>2 DEF Reworded
<1>4. DOMAIN q = {"command", "argument", "by", "instance", "network", "from", "until"}
  BY QuestionsAssumption
<1>5. /\ again.by = None /\ again.instance = Letters[p] /\ again.command = q.command
      /\ again.argument = q.argument /\ again.network = q.network
      /\ again.from = q.from /\ again.until = q.until
  BY <1>3, <1>4
<1>6. q.command # "lifecycle"
  BY DEF ByInstance
<1>7. ~Refused(q) /\ query \in Resolve(q, rows, clock)
  BY <1>6, QueriesAre
<1>8. PICK w \in ResolveRange(q.from, q.until, clock) :
      \E r \in ResolveInstance(q.instance, KnownInstances(rows)) :
         /\ EventsOf(rows) # {}
         /\ query = [ window |-> w, scope |-> [pubkey |-> r, networks |-> NetworksOf(q)],
                      narrowed |-> q.network # None ]
  BY <1>7, ResolvedTo
<1>9. EventsOf(rows) # {} /\ query.window = w /\ query.scope.networks = NetworksOf(q)
  BY <1>8
<1>10. NetworksOf(again) = NetworksOf(q) /\ ~Refused(again)
  BY <1>5, <1>7 DEF NetworksOf, Refused
<1>11. p \in ResolveInstance(again.instance, KnownInstances(rows))
  BY <1>2, <1>5, SpellingMeansOne
<1>12. other.window = query.window /\ other.scope = OfInstance(query.scope, p)
  BY <1>9 DEF OfInstance
<1>13. /\ w \in ResolveRange(again.from, again.until, clock)
       /\ other = [ window |-> w, scope |-> [pubkey |-> p, networks |-> NetworksOf(again)],
                    narrowed |-> again.network # None ]
  BY <1>5, <1>9, <1>10
<1>14. other \in Queries(again, rows, clock)
  <2> HIDE DEF other, again
  <2>1. other \in Resolve(again, rows, clock)
    BY <1>9, <1>11, <1>13, ResolvedTo
  <2> QED BY <1>5, <1>6, <1>10, <2>1, QueriesAre
<1>15. Rephrased(q, again, query, other, p)
  BY <1>5, <1>12 DEF Rephrased
<1>16. R[p] = Answer(again, other, rows, rows, clock)
  <2> HIDE DEF other, again, R
  <2> QED BY <1>1, <1>5, <1>15
<1>17. Agrees(q, p, R, Answer(again, other, rows, rows, clock))
  <2> HIDE DEF other, again, R
  <2> QED BY <1>2, <1>16 DEF Agrees
<1> HIDE DEF other, again, R
<1> QED BY <1>14, <1>17 DEF again, R

\* A total asked for of the command that knows it is what was reported.
LEMMA TotalReworded ==
    ASSUME Stored, NEW q \in Questions, NEW clock \in Clocks, NEW query \in Queries(q, rows, clock),
           q.by = None,
           \/ q.command \in {"compare", "instance"}
           \/ /\ q.command = "series" /\ q.argument[1] = "orders" /\ q.argument[2] = "created"
              /\ Drawable(q.argument[1], q.argument[2],
                          LoadFor(rows, query.scope, q.argument[1], q.argument[4], query.window),
                          query.window, q.argument[3], clock)
    PROVE  LET again == Reworded(q, None)
           IN  \E other \in Queries(again, rows, clock) :
                  Agrees(q, None, Answer(q, query, rows, rows, clock),
                         Answer(again, other, rows, rows, clock))
<1> DEFINE R == Answer(q, query, rows, rows, clock)
           again == Reworded(q, None)
<1>1. again = IF q.command = "compare" THEN [q EXCEPT !.command = "summary"]
              ELSE [q EXCEPT !.command = "orders", !.argument = None]
  BY DEF Reworded
<1>2. DOMAIN q = {"command", "argument", "by", "instance", "network", "from", "until"}
  BY QuestionsAssumption
<1>3. /\ again.command = (IF q.command = "compare" THEN "summary" ELSE "orders")
      /\ again.by = None /\ again.instance = q.instance /\ again.network = q.network
      /\ again.from = q.from /\ again.until = q.until
  BY <1>1, <1>2
<1>4. q.command # "lifecycle"
  OBVIOUS
<1>5. ~Refused(q) /\ query \in Resolve(q, rows, clock)
  BY <1>4, QueriesAre
<1>6. PICK w \in ResolveRange(q.from, q.until, clock),
           r \in ResolveInstance(q.instance, KnownInstances(rows)) :
         query = [ window |-> w, scope |-> [pubkey |-> r, networks |-> NetworksOf(q)],
                   narrowed |-> q.network # None ]
  BY <1>5, ResolvedTo
<1>7. query.window = w /\ query.scope = [pubkey |-> r, networks |-> NetworksOf(q)]
  BY <1>6
<1> HIDE DEF again, R
<1>8. ~Refused(again) /\ again.command # "lifecycle"
  BY <1>3 DEF Refused
<1>9. Resolve(again, rows, clock) = Resolve(q, rows, clock)
  BY <1>3 DEF Resolve
<1>10. query \in Queries(again, rows, clock)
  BY <1>5, <1>8, <1>9, QueriesAre
<1> DEFINE S == Answer(again, query, rows, rows, clock)
<1>11. CASE q.command = "compare"
  <2>1. R = Compare(query, rows, clock)
    BY <1>11 DEF Answer, R
  <2>2. S = Summary(query, rows, clock)
    BY <1>3, <1>11 DEF Answer
  <2> HIDE DEF S
  <2>3. SumOver(DOMAIN R, LAMBDA i : R[i].completed) = S.completed
    <3>1. SumOver(DOMAIN Compare(query, rows, clock),
                  LAMBDA i : Compare(query, rows, clock)[i].completed)
          = Summary(query, rows, clock).completed
      BY CompareShares
    <3>2. Total([i \in DOMAIN Compare(query, rows, clock) |-> Compare(query, rows, clock)[i].completed])
          = Summary(query, rows, clock).completed
      BY <3>1 DEF SumOver
    <3>3. Total([i \in DOMAIN R |-> R[i].completed]) = S.completed
      BY <2>1, <2>2, <3>2
    <3> QED BY <3>3 DEF SumOver
  <2>4. Agrees(q, None, R, S)
    BY <1>11, <2>3 DEF Agrees
  <2> QED BY <1>10, <2>4 DEF R, S, again
<1>12. CASE q.command # "compare"
  <2>1. S = StatsOrders(again, query, rows, rows, clock)
    BY <1>3, <1>12 DEF Answer
  <2> HIDE DEF S
  <2>2. CASE q.command = "instance"
    <3>1. R = Instance(query, rows, clock)
      BY <2>2 DEF Answer, R
    <3>2. r \in Known(rows)
      BY <2>2, NamedIsKnown, QuestionsAssumption
    <3>3. /\ R.orders = S
          /\ R.share_orders # None => R.share_orders[1] <= R.share_orders[2]
      BY <1>3, <1>7, <2>1, <3>1, <3>2, InstanceIsOwn
    <3>4. Agrees(q, None, R, S)
      BY <2>2, <3>3 DEF Agrees
    <3> QED BY <1>10, <3>4 DEF R, S, again
  <2>3. CASE q.command = "series"
    <3>1. R = SeriesOf(q, query, rows, clock)
      BY <2>3 DEF Answer, R
    <3>2. Drawable(q.argument[1], q.argument[2],
                   LoadFor(rows, query.scope, q.argument[1], q.argument[4], query.window),
                   query.window, q.argument[3], clock)
          /\ q.argument[1] = "orders" /\ q.argument[2] = "created"
      BY <2>3
    <3>3. /\ q.argument[3] \in Periods /\ w.from \in Instants /\ w.until \in Instants
          /\ \E t \in Openings(q.argument[3]) : t <= w.from
          /\ \E t \in Openings(q.argument[3]) : w.until <= t
      BY <2>3, QuestionsAssumption
    <3>4. BucketsUpto(w, q.argument[3], MAX_BUCKETS) # None
      BY <1>7, <3>2 DEF Drawable
    <3>5. Cut(query.window, BucketsUpto(query.window, q.argument[3], MAX_BUCKETS))
      BY <1>7, <3>3, <3>4, SeriesCut
    <3>6. SumOver(SeriesOf(q, query, rows, clock), LAMBDA point : point.value)
          = StatsOrders(again, query, rows, rows, clock).created
      BY <1>3, <3>2, <3>5, SeriesAdds
    <3>7. SumOver(R, LAMBDA point : point.value) = S.created
      BY <2>1, <3>1, <3>6
    <3>8. Agrees(q, None, R, S)
      BY <2>3, <3>7 DEF Agrees
    <3> QED BY <1>10, <3>8 DEF R, S, again
  <2> QED BY <1>12, <2>2, <2>3
<1> QED BY <1>11, <1>12

\* The same figure asked for in two ways is the same: a slice --by instance
\* is the report with --instance (SliceAgrees), the comparison and the
\* profiles share out the summary, and a series adds up to the orders it
\* plots.  No instance calls itself by what another's pubkey is spelt like:
\* InstanceFilter::resolve takes the first match, be it a pubkey or a name.
THEOREM AnswersAgreeCorrect ==
    NamesApart => (Spec => []AnswersAgree)
<1> SUFFICES ASSUME NamesApart PROVE Spec => []AnswersAgree
  OBVIOUS
<1>1. ASSUME TypeOK, Traced PROVE AnswersAgree
  <2> SUFFICES ASSUME answer # None, answer.told = answer.read, NEW p \in Rewordings(answer)
               PROVE  LET again == Reworded(answer.question, p)
                      IN  \E query \in Queries(again, answer.read, answer.at) :
                             Agrees(answer.question, p, answer.report,
                                    Answer(again, query, answer.read, answer.read, answer.at))
    BY DEF AnswersAgree
  <2> DEFINE q == answer.question
             query == answer.query
             clock == answer.at
  <2>1. answer.read = rows /\ answer.told = rows /\ Stored
    BY <1>1 DEF TypeOK, Stored
  <2>2. /\ q \in Questions /\ clock \in Clocks /\ query \in Queries(q, rows, clock)
        /\ answer.report = Answer(q, query, rows, rows, clock)
    BY <1>1, <2>1 DEF Traced
  <2>3. Plots(answer) <=>
           Drawable(q.argument[1], q.argument[2],
                    LoadFor(rows, query.scope, q.argument[1], q.argument[4], query.window),
                    query.window, q.argument[3], clock)
    BY <2>1 DEF Plots, Drawable
  <2> HIDE DEF q, query, clock
  <2>4. CASE q.by = "instance" /\ q.command \in ByInstance /\ (q.command = "series" => Plots(answer))
    <3>1. p \in DOMAIN answer.report
      BY <2>4, NoDimension DEF Rewordings, q
    <3>2. p \in DOMAIN Answer(q, query, rows, rows, clock)
      BY <2>2, <3>1
    <3> QED BY <2>1, <2>2, <2>3, <2>4, <3>2, SliceReworded DEF q, clock
  <2>5. CASE /\ q.by = None /\ (q.command \in {"compare", "instance"} \/ PlotsCreated(answer))
             /\ ~(q.by = "instance" /\ q.command \in ByInstance /\ (q.command = "series" => Plots(answer)))
    <3>1. p = None
      BY <2>5, NoDimension DEF Rewordings, q
    <3>2. PlotsCreated(answer) =>
             /\ q.command = "series" /\ q.argument[1] = "orders" /\ q.argument[2] = "created"
             /\ Plots(answer)
      BY DEF PlotsCreated, q
    <3> QED BY <2>1, <2>2, <2>3, <2>5, <3>1, <3>2, TotalReworded DEF q, clock
  <2>6. CASE /\ ~(q.by = "instance" /\ q.command \in ByInstance /\ (q.command = "series" => Plots(answer)))
             /\ ~(q.by = None /\ (q.command \in {"compare", "instance"} \/ PlotsCreated(answer)))
    BY <2>6 DEF Rewordings, q
  <2> QED BY <2>4, <2>5, <2>6
<1> QED BY <1>1, FiguresTypeCorrect, TracedSteps, PTL DEF Spec
=============================================================================
