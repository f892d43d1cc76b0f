------------------------------ MODULE Archive -------------------------------
(***************************************************************************)
(* What the indexer promises (docs/SPEC.md section 8, README): an archive  *)
(* of events that are only ever added, each signed and, where its kind     *)
(* says nothing of Mostro, from a publisher known for one; and a view of   *)
(* it that is a function of the events the deployed parsers read.  The     *)
(* view may be taken back while it is being made again, and is never       *)
(* wrong.  Ingesters, transactions, version tables, sweeps and crashes are *)
(* not part of the promise.                                                *)
(***************************************************************************)
EXTENDS Tables

CONSTANTS
    Listed,        \* the publishers the operator vouches for
    FirstReadable  \* the events the first deployed parsers can read

VARIABLES
    known,         \* the archived events
    legible,       \* those a deployed parser could read, archived or not
    view           \* what the tables say of each id, or None

archive == <<known, legible, view>>

TAGGED_KINDS == {"order", "dev_fee", "dispute", "info"}

\* The last word on an order and on a dispute, and the payment that settles
\* an order: the first.
Last(S)  == IF S = {} THEN None ELSE Newest(S)
First(S) == IF S = {} THEN None ELSE Oldest(S)

ViewOf(S) ==
    [k \in Keys |-> [ order   |-> Last(VersionsOf(S, "order", k)),
                      dispute |-> Last(VersionsOf(S, "dispute", k)),
                      settled |-> First(VersionsOf(S, "dev_fee", k)) ]]

Known(p) ==
    \/ p \in Listed
    \/ \E e \in known : e.pubkey = p /\ e.kind \in TAGGED_KINDS /\ e.mostro

Init ==
    /\ known = {}
    /\ legible = FirstReadable
    /\ view = ViewOf({})

\* An event nobody had yet.  A view that is shown takes it in at once.
Learn(e) ==
    /\ e \in Events \ known
    /\ e.verified
    /\ IF e.kind \in TAGGED_KINDS THEN e.mostro ELSE Known(e.pubkey)
    /\ known' = known \cup {e}
    /\ view' = IF view = None THEN None ELSE ViewOf(known' \cap legible)
    /\ UNCHANGED legible

\* The view is taken back, and shown again.
Withdraw ==
    /\ view' = None
    /\ UNCHANGED <<known, legible>>

Restore ==
    /\ view = None
    /\ view' = ViewOf(known \cap legible)
    /\ UNCHANGED <<known, legible>>

\* A release reads more, and the view waits for a rebuild to show it.
Release(e) ==
    /\ e \in Events \ legible
    /\ legible' = legible \cup {e}
    /\ view' = None
    /\ UNCHANGED known

Next ==
    \/ \E e \in Events : Learn(e) \/ Release(e)
    \/ Withdraw
    \/ Restore

Spec == Init /\ [][Next]_archive
=============================================================================
