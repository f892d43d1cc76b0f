-------------------------------- MODULE Walk --------------------------------
(***************************************************************************)
(* The backwards walk of `backfill` (src/commands/backfill.rs): one relay, *)
(* one kind, from the top of a range down to its floor, and the line that  *)
(* `backfill --kind K` leaves in indexed_kinds when it is over.            *)
(*                                                                         *)
(* The relay is the environment.  It answers a request with the newest     *)
(* events of the window, as many as were asked for unless it caps its      *)
(* replies lower; a time-out leaves whatever arrived of that, newest       *)
(* first.  While the walk goes on events reach the relay, old ones too,    *)
(* and replaced ones leave it.                                             *)
(***************************************************************************)
EXTENDS Integers, FiniteSets, FiniteSetsExt

CONSTANTS
    Events,        \* what the relay may hold of the kind, each with its at
    From,          \* range.from()
    Until,         \* range.until(), which is outside the range
    WINDOW_LIMIT,  \* how many events one window asks for
    None

ASSUME WalkAssumption ==
    /\ \A e \in Events : e.at \in Nat
    /\ IsFiniteSet(Events)
    /\ From \in Nat /\ Until \in Nat /\ From < Until
    /\ WINDOW_LIMIT \in Nat \ {0}
    /\ None \notin Nat

VARIABLES
    held,          \* the relay's events of this kind, by the authors asked about
    cap,           \* the most events the relay puts in one reply
    askable,       \* filters::for_kind has somebody to ask about
    pc,            \* where the walk is
    until,         \* the exclusive top of the next window
    page,          \* the events of the last answer
    cut,           \* that answer was cut short by the time-out
    pending,       \* the events of the page not yet ingested
    ingested,      \* the events handed to the pipeline
    indexed_from,  \* the row of indexed_kinds
    kept,          \* history: held since the walk began
    passed         \* history: the seconds stepped past on one page, and that page

relay == <<held, kept>>
vars == <<held, cap, askable, pc, until, page, cut, pending, ingested, indexed_from,
          kept, passed>>

Init ==
    /\ held \in SUBSET Events
    /\ kept = held
    /\ cap \in 1 .. WINDOW_LIMIT
    /\ askable \in BOOLEAN
    /\ pc = "ask"
    /\ until = Until
    /\ page = {} /\ cut = FALSE /\ pending = {}
    /\ ingested = {} /\ passed = {}
    /\ indexed_from = None
-----------------------------------------------------------------------------
\* filters::window: the half-open range as the two inclusive bounds of a REQ.
InWindow(e, from, to) == from <= e.at /\ e.at <= to - 1

Window == {e \in held : InWindow(e, From, until)}

\* The newest events of the window, the rest no newer than any of them.
NewestOf(P, W) == \A p \in P, w \in W \ P : w.at <= p.at

\* An untagged kind and no vouched publisher: nothing is asked.
Skip ==
    /\ pc = "ask"
    /\ until > From
    /\ ~askable
    /\ pc' = "over"
    /\ UNCHANGED <<held, cap, askable, until, page, cut, pending, ingested,
                   indexed_from, kept, passed>>

\* The relay's reply, to its end: as many of the newest as it will send.
Answer(P) ==
    /\ NewestOf(P, Window)
    /\ Cardinality(P) <= cap
    /\ P = Window \/ Cardinality(P) = cap

\* One round of the loop up to the page: the request goes out and P comes
\* back, all of the reply or, after FETCH_TIMEOUT, the beginning of it.
Fetch(P, timedOut) ==
    /\ pc = "ask"
    /\ until > From
    /\ askable
    /\ P # {}
    /\ \/ Answer(P) /\ ~timedOut
       \/ /\ \E A \in SUBSET Window : Answer(A) /\ P \subseteq A /\ NewestOf(P, A)
          /\ timedOut
    /\ page' = P
    /\ cut' = timedOut
    /\ pending' = P
    /\ pc' = "ingest"
    /\ UNCHANGED <<relay, cap, askable, until, ingested, indexed_from, passed>>

\* An empty window: the relay holds nothing older.
NoMoreHistory ==
    /\ pc = "ask"
    /\ until > From
    /\ askable
    /\ Window = {}
    /\ pc' = "over"
    /\ UNCHANGED <<relay, cap, askable, until, page, cut, pending, ingested,
                   indexed_from, passed>>

\* The relay does not answer, or sends nothing in time: the walk leaves it.
WindowFailed ==
    /\ pc = "ask"
    /\ until > From
    /\ askable
    /\ pc' = "failed"
    /\ UNCHANGED <<relay, cap, askable, until, page, cut, pending, ingested,
                   indexed_from, passed>>

\* One event of the page goes through the pipeline, oldest first.
IngestOne(e) ==
    /\ pc = "ingest"
    /\ e \in pending
    /\ \A f \in pending : e.at <= f.at
    /\ pending' = pending \ {e}
    /\ ingested' = ingested \cup {e}
    /\ UNCHANGED <<relay, cap, askable, pc, until, page, cut, indexed_from,
                   passed>>

\* A write that fails ends the whole run, with nothing recorded.
IngestFailed ==
    /\ pc = "ingest"
    /\ pending # {}
    /\ pc' = "aborted"
    /\ UNCHANGED <<relay, cap, askable, until, page, cut, pending, ingested,
                   indexed_from, passed>>

OldestOf(P) == Min({e.at : e \in P})

\* Two faults for the mutation runs: the walk that never overlaps a second
\* it has seen, and the one that always does.
NeverOverlap(oldest, bound) == oldest
AlwaysOverlap(oldest, bound) == oldest + 1

\* The bound moves to the oldest second seen, keeping it, unless the whole
\* page fits inside that second: then it moves past it.
NextUntil(oldest, bound) == IF oldest + 1 < bound THEN oldest + 1 ELSE oldest

\* A page is done and the next window is asked for below it.
StepDown ==
    LET oldest == OldestOf(page) IN
    /\ pc = "ingest"
    /\ pending = {}
    /\ pc' = "ask"
    /\ until' = NextUntil(oldest, until)
    /\ IF oldest + 1 < until
       THEN UNCHANGED passed
       ELSE passed' = passed \cup
                  {[second |-> oldest, got |-> Cardinality(page), cut |-> cut]}
    /\ UNCHANGED <<relay, cap, askable, page, cut, pending, ingested, indexed_from>>

\* A fault: the walk waits for the bound to pass below the floor.
PassFloor ==
    /\ pc = "ask"
    /\ until < From
    /\ pc' = "over"
    /\ UNCHANGED <<relay, cap, askable, until, page, cut, pending, ingested,
                   indexed_from, passed>>

\* The floor and the ceiling have met.
ReachFloor ==
    /\ pc = "ask"
    /\ until <= From
    /\ pc' = "over"
    /\ UNCHANGED <<relay, cap, askable, until, page, cut, pending, ingested,
                   indexed_from, passed>>

\* A fault: the row says how deep the walk went instead of what was asked.
RecordDepth ==
    /\ pc \in {"over", "failed"}
    /\ indexed_from = None
    /\ indexed_from' = until
    /\ UNCHANGED <<relay, cap, askable, pc, until, page, cut, pending, ingested,
                   passed>>

\* indexed_kinds::record, once the walks have returned without an error.
Record ==
    /\ pc \in {"over", "failed"}
    /\ indexed_from = None
    /\ indexed_from' = From
    /\ UNCHANGED <<relay, cap, askable, pc, until, page, cut, pending, ingested,
                   passed>>

\* The relay takes in an event, of any age, or lets a replaced one go.
Arrive(e) ==
    /\ held' = held \cup {e}
    /\ UNCHANGED <<kept, cap, askable, pc, until, page, cut, pending, ingested,
                   indexed_from, passed>>

Replace(e) ==
    /\ held' = held \ {e}
    /\ kept' = kept \ {e}
    /\ UNCHANGED <<cap, askable, pc, until, page, cut, pending, ingested,
                   indexed_from, passed>>

WalkStep ==
    \/ Skip
    \/ \E P \in SUBSET Window, timedOut \in BOOLEAN : Fetch(P, timedOut)
    \/ NoMoreHistory
    \/ WindowFailed
    \/ \E e \in pending : IngestOne(e)
    \/ IngestFailed
    \/ StepDown
    \/ ReachFloor
    \/ Record

Next ==
    \/ WalkStep
    \/ \E e \in Events : Arrive(e)
    \/ \E e \in Events : Replace(e)

Spec == Init /\ [][Next]_vars

\* The walk is a loop in a running process, and fetch_window always returns:
\* with a page, with an error or by its time-out.
FairSpec == Spec /\ WF_vars(WalkStep)
-----------------------------------------------------------------------------
(* Properties.                                                             *)

\* The bound stays a bound, a page is part of what the relay may hold, and
\* what is recorded is the floor that was asked for.
TypeOK ==
    /\ held \in SUBSET Events /\ kept \in SUBSET Events
    /\ cap \in 1 .. WINDOW_LIMIT
    /\ askable \in BOOLEAN /\ cut \in BOOLEAN
    /\ pc \in {"ask", "ingest", "over", "failed", "aborted"}
    /\ until \in Nat
    /\ page \in SUBSET Events /\ pending \in SUBSET Events /\ ingested \in SUBSET Events
    /\ passed \subseteq [second : Nat, got : Nat, cut : BOOLEAN]
    /\ indexed_from \in {None, From}

InRange(e) == From <= e.at /\ e.at < Until

\* A walk that ended on its own has handed the pipeline every event of the
\* range the relay held throughout, whatever arrived and whatever was
\* replaced beneath it, but for those of a second that filled a whole reply
\* or whose reply the time-out cut short (backfill.rs:29).
Complete ==
    pc = "over" /\ askable =>
        \A e \in kept : InRange(e) =>
            \/ e \in ingested
            \/ \E p \in passed : p.second = e.at /\ (p.cut \/ p.got = cap)

\* The bound only ever moves down, and once a window was asked for the next
\* one is strictly smaller (backfill.rs:256).
AlwaysMoves ==
    [][pc = "ingest" /\ pc' = "ask" => until' < until]_vars

\* Every walk ends, whatever the relay keeps receiving (backfill.rs:36).
WalkEnds == <>(pc \in {"over", "failed", "aborted"})
=============================================================================
