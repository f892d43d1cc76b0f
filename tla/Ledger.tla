------------------------------- MODULE Ledger -------------------------------
(***************************************************************************)
(* What the statistics are computed over: src/db/load, which joins the     *)
(* projections with the version tables and hands the aggregation crate one *)
(* record per order, dispute, dev fee, settlement, feed or profile.        *)
(*                                                                         *)
(* rows is the content of the version tables: a set of parsed events, each *)
(* a record with its kind, its id, its publisher and its created_at; stamp *)
(* is the time it claims for itself (published_at).  A row of kind "seen"  *)
(* is in no version table: it is what a heartbeat that was dropped left in *)
(* instances, when its publisher was seen.  A scope narrows a              *)
(* read to one instance (None for all) and to some networks ({} for any).  *)
(* The label of an instance is its pubkey: the name before it is wording.  *)
(***************************************************************************)
EXTENDS Calendar

CONSTANTS
    MAX_AGE,            \* MAX_AGE_SECS: how long a quote may price an order
    IndexedFrom,        \* indexed_kinds: since when each kind was asked for, None if never
    SINGLE_COPY_KINDS   \* the kinds a relay keeps one event of

ASSUME LedgerAssumption ==
    /\ MAX_AGE \in Nat /\ IsFiniteSet(DOMAIN IndexedFrom)
    /\ \A k \in DOMAIN IndexedFrom : IndexedFrom[k] \in Nat \cup {None}
    /\ SINGLE_COPY_KINDS \subseteq DOMAIN IndexedFrom

OrderStatuses    == {"pending", "in_progress", "success", "canceled"}
Terminals        == {"seller_refunded", "settled", "released", "cooperatively_canceled"}
DisputeStatuses  == {"initiated", "in_progress"} \cup Terminals

OfKind(rows, kind) == {v \in rows : v.kind = kind}
EventsOf(rows)     == {v \in rows : v.kind # "seen"}
KeysOf(rows, kind) == {v.key : v \in OfKind(rows, kind)}

\* ORDER BY created_at DESC, event_id ASC, and ORDER BY created_at, event_id
Last(V)  == CHOOSE v \in V : \A w \in V : w.at < v.at \/ (w.at = v.at /\ v.id <= w.id)
First(V) == CHOOSE v \in V : \A w \in V : v.at < w.at \/ (v.at = w.at /\ v.id <= w.id)

Earliest(V) == IF V = {} THEN None ELSE Min({v.at : v \in V})

Dated(t, w) == t # None /\ Contains(w, t)

-----------------------------------------------------------------------------
(* Orders.                                                                 *)

\* MIN(first_seen_at, COALESCE(order_created_at, first_seen_at))
CreatedAt(V) == Min({v.at : v \in V} \cup ({v.stamp : v \in V} \ {None}))

\* Row::into_order, over the versions of an order.  The fields named first_*
\* are those of Origin; market and range read the first version, whatever
\* later ones say.
IntoOrder(V, first, last) ==
    LET at(s) == Earliest({v \in V : v.status = s})
    IN  [ order_id      |-> last.key,
          pubkey        |-> last.pubkey,
          network       |-> last.network,
          created_at    |-> CreatedAt(V),
          first_seen_at |-> Earliest(V),
          status        |-> last.status,
          direction     |-> last.direction,
          fiat_code     |-> last.fiat,
          methods       |-> last.methods,
          amount_sats   |-> last.sats,
          fiat_amount   |-> last.amount,
          premium       |-> last.premium,
          market_price  |-> first.sats = 0,
          fiat_range    |-> first.range,
          first_fiat    |-> first.fiat,
          first_methods |-> first.methods,
          first_dir     |-> first.direction,
          pending_at    |-> at("pending"),
          taken_at      |-> at("in_progress"),
          success_at    |-> at("success"),
          canceled_at   |-> at("canceled"),
          expires_at    |-> last.expires ]

OrderOf(V) == IntoOrder(V, First(V), Last(V))

LoadOrder(rows, o) == OrderOf({v \in OfKind(rows, "order") : v.key = o})

\* Scope::apply, on a table with a network column.
InScope(scope, row) ==
    /\ scope.pubkey # None => row.pubkey = scope.pubkey
    /\ scope.networks # {} => row.network \in scope.networks

\* Scope::apply_instance, on one without.
InInstance(scope, row) == scope.pubkey # None => row.pubkey = scope.pubkey

\* Filter::All
LoadOrders(rows, scope) ==
    {o \in {LoadOrder(rows, k) : k \in KeysOf(rows, "order")} : InScope(scope, o)}

\* Filter::CompletedIn
CompletedIn(rows, scope, w) ==
    {o \in LoadOrders(rows, scope) : o.status = "success" /\ Dated(o.success_at, w)}

\* A fault: only what was touched in the window is read, not the live book.
TouchedOnly(rows, scope, w, now) ==
    {o \in LoadOrders(rows, scope) :
        \E v \in OfKind(rows, "order") : v.key = o.order_id /\ Contains(w, v.at)}

\* Filter::TouchedIn: a version in the window, or a pending order still live.
TouchedIn(rows, scope, w, now) ==
    {o \in LoadOrders(rows, scope) :
        \/ \E v \in OfKind(rows, "order") : v.key = o.order_id /\ Contains(w, v.at)
        \/ o.status = "pending" /\ o.expires_at > now}

-----------------------------------------------------------------------------
(* How far back the archive can speak for a report.                        *)

\* kind_floor: the earliest event, or what was asked for; the other way
\* round for a kind relays keep one event of.
KindFloor(rows, kind, scope) ==
    LET first == Earliest({v \in OfKind(rows, kind) : InInstance(scope, v)})
        asked == IndexedFrom[kind]
    IN  IF kind \in SINGLE_COPY_KINDS
        THEN IF asked # None THEN asked ELSE first
        ELSE IF first # None THEN first ELSE asked

\* earliest_created_at: the latest of the floors of what the report reads,
\* and of the archive's own; None when a kind has none.
Floor(rows, kinds, scope) ==
    LET archive == Earliest({v \in EventsOf(rows) : InInstance(scope, v)})
        floors  == {KindFloor(rows, k, scope) : k \in kinds}
    IN  IF archive = None \/ None \in floors THEN None ELSE Max(floors \cup {archive})

\* A report's coverage has no ceiling.
CoverageOf(rows, kinds, scope) == [earliest |-> Floor(rows, kinds, scope), latest |-> None]

-----------------------------------------------------------------------------
(* Disputes, and the orders a dispute can arise from: blind to networks.   *)

LoadDispute(rows, d) ==
    LET V        == {v \in OfKind(rows, "dispute") : v.key = d}
        stamped  == {v \in V : v.stamp # None}
        blamed   == {v \in V : v.initiator # None}
        resolved == {v \in V : v.status \in Terminals}
    IN  [ dispute_id  |-> d,
          pubkey      |-> Last(V).pubkey,
          opened_at   |-> IF stamped = {} THEN Earliest(V) ELSE Last(stamped).stamp,
          status      |-> Last(V).status,
          initiator   |-> IF blamed = {} THEN None ELSE Last(blamed).initiator,
          resolved_at |-> Earliest(resolved),
          outcome     |-> IF resolved = {} THEN None ELSE First(resolved).status ]

LoadDisputes(rows, scope) ==
    {d \in {LoadDispute(rows, k) : k \in KeysOf(rows, "dispute")} : InInstance(scope, d)}

\* left_pending_at: the first in-progress version, else the settlement.
LoadTaken(rows, scope) ==
    LET left(o) == IF o.taken_at # None THEN o.taken_at ELSE o.success_at
    IN  {[order_id |-> o.order_id, pubkey |-> o.pubkey, left_pending_at |-> left(o)] :
            o \in {p \in LoadOrders(rows, [pubkey |-> None, networks |-> {}]) :
                      InInstance(scope, p) /\ left(p) # None}}

-----------------------------------------------------------------------------
(* Dev fees, and the settlements they are owed for.                        *)

\* The fee the publisher announced last at or before t, None before the
\* first announcement that names one.
FeeInForce(rows, p, t) ==
    LET known == {v \in OfKind(rows, "info") : v.pubkey = p /\ v.at <= t /\ v.fee # None}
    IN  IF known = {} THEN None ELSE Last(known).fee

\* A fault: a duplicate is one among the fees that were asked for.
DuplicateInScope(rows, scope, f) ==
    f # First({g \in OfKind(rows, "dev_fee") : g.key = f.key /\ InScope(scope, g)})

\* is_duplicate was decided over everybody's fees when they were stored,
\* whatever the scope they are read with.
IsDuplicate(rows, scope, f) ==
    f # First({g \in OfKind(rows, "dev_fee") : g.key = f.key})

\* One fee, joined with the order it names if that is known.
IntoFee(rows, scope, f, order) ==
    LET settled == {o \in order : o.status = "success"}
        at      == Earliest({[at |-> o.success_at] : o \in settled})
    IN  [ event_id     |-> f.id,
          order_id     |-> f.key,
          pubkey       |-> f.pubkey,
          created_at   |-> f.at,
          amount_sats  |-> f.sats,
          is_duplicate |-> IsDuplicate(rows, scope, f),
          order_known  |-> order # {},
          settled_at   |-> at,
          fee_in_force |-> FeeInForce(rows, f.pubkey, IF at = None THEN f.at ELSE at),
          settled_sats |-> IF settled = {} THEN None
                           ELSE (CHOOSE o \in settled : TRUE).amount_sats ]

LoadFees(rows, scope) ==
    LET orders == LoadOrders(rows, [pubkey |-> None, networks |-> {}])
    IN  {IntoFee(rows, scope, f, {o \in orders : o.order_id = f.key}) :
            f \in {g \in OfKind(rows, "dev_fee") : InScope(scope, g)}}

\* charges is charges_fee: whether the fee in force at the settlement was
\* more than nothing, None when none was known.
LoadSettlements(rows, scope) ==
    LET fee(o) == FeeInForce(rows, o.pubkey, o.success_at)
    IN  {[ order_id   |-> o.order_id,
           pubkey     |-> o.pubkey,
           success_at |-> o.success_at,
           has_fee    |-> \E f \in OfKind(rows, "dev_fee") : f.key = o.order_id,
           charges    |-> IF fee(o) = None THEN None ELSE fee(o) > 0 ] :
            o \in {p \in LoadOrders(rows, scope) : p.status = "success"}}

-----------------------------------------------------------------------------
(* Rates and profiles.                                                     *)

\* The snapshots that can price an order completed in the window, from every
\* publisher.
LoadBook(rows, w) ==
    {v \in OfKind(rows, "rates") : v.stamp >= w.from - MAX_AGE /\ v.stamp < w.until}

\* The bestiary: whoever published a row, kept or dropped.
Known(rows) == {v.pubkey : v \in rows}

\* The publishers of rates that are not in it, for whom feeds fails.
Orphans(rows, scope) ==
    {v.pubkey : v \in {r \in OfKind(rows, "rates") : InInstance(scope, r)}} \ Known(rows)

\* One feed per known instance, with its latest snapshot or none: the latest
\* by created_at, which the protocol goes by, not by its own claim.
LoadFeeds(rows, scope) ==
    LET of(p) == {v \in OfKind(rows, "rates") : v.pubkey = p}
    IN  {[ pubkey       |-> p,
           published_at |-> IF of(p) = {} THEN None ELSE Last(of(p)).stamp,
           quotes       |-> IF of(p) = {} THEN <<>> ELSE Last(of(p)).quotes ] :
            p \in {q \in Known(rows) : InInstance(scope, [pubkey |-> q])}}

\* Each optional field comes from the latest announcement that has it; fee
\* stands for all of them.
LoadProfiles(rows, scope) ==
    LET said(p) == {v \in OfKind(rows, "info") : v.pubkey = p /\ v.fee # None}
    IN  {[ pubkey        |-> p,
           first_seen_at |-> Min({v.at : v \in {r \in rows : r.pubkey = p}}),
           last_seen_at  |-> Max({v.at : v \in {r \in rows : r.pubkey = p}}),
           fee           |-> IF said(p) = {} THEN None ELSE Last(said(p)).fee ] :
            p \in {q \in Known(rows) : InInstance(scope, [pubkey |-> q])}}
=============================================================================
