----------------------------- MODULE WalkProofs -----------------------------
(***************************************************************************)
(* Proofs about the backwards walk, for every history a relay may hold,    *)
(* every range and every limit: it always moves, and it is complete but    *)
(* for seconds that fill a whole reply.                                    *)
(***************************************************************************)
EXTENDS Walk, NumberFacts, FiniteSetTheorems

\* A page has an oldest second, and nothing on it is older.
LEMMA OldestIsLeast ==
    ASSUME NEW P \in SUBSET Events, P # {}
    PROVE  /\ OldestOf(P) \in Nat
           /\ \E e \in P : OldestOf(P) = e.at
           /\ \A e \in P : OldestOf(P) <= e.at
<1> DEFINE times == {e.at : e \in P}
<1>1. times \in SUBSET Nat /\ times # {}
  BY WalkAssumption
<1>2. Min(times) \in times /\ \A t \in times : Min(times) <= t
  BY <1>1, MinType
<1> QED BY <1>1, <1>2 DEF OldestOf

\* The inductive invariant.  Between a fetch and the step down, the page is
\* not empty and below the bound, and what it left out of the window is no
\* newer than anything on it; an event of the range that the walk has
\* neither ingested nor lost to a crowded second is on the page or below
\* the bound.
Excused(e) == \E p \in passed : p.second = e.at /\ (p.cut \/ p.got = cap)

OnPage ==
    pc = "ingest" =>
        /\ page # {}
        /\ \A p \in page : p.at < until
        /\ page \subseteq ingested \cup pending

Below(e) ==
    IF pc = "ingest"
    THEN \/ e \in page
         \/ /\ e.at < until
            /\ \A p \in page : e.at <= p.at
            /\ cut \/ Cardinality(page) = cap
    ELSE e.at < until

Accounted ==
    pc \in {"ask", "ingest"} =>
        \A e \in kept : InRange(e) => e \in ingested \/ Excused(e) \/ Below(e)

WalkInv == TypeOK /\ kept \subseteq held /\ OnPage /\ Accounted /\ Complete

-----------------------------------------------------------------------------
\* Before the first request nothing is ingested and all of the range is ahead.
LEMMA WalkInvInit == Init => WalkInv
<1> SUFFICES ASSUME Init PROVE WalkInv
  OBVIOUS
<1> USE WalkAssumption DEF Init
<1>1. TypeOK
  BY DEF TypeOK
<1>2. OnPage /\ Complete
  BY DEF OnPage, Complete
<1>3. Accounted
  BY DEF Accounted, Below, InRange
<1> QED BY <1>1, <1>2, <1>3 DEF WalkInv

\* Every page is a finite set of events.
LEMMA PageSize ==
    ASSUME NEW P \in SUBSET Events
    PROVE  Cardinality(P) \in Nat
BY WalkAssumption, FS_Subset, FS_CardinalityType

\* The step down moves the bound to a smaller number: to the second after
\* the oldest event of the page, or to that second itself.
LEMMA StepDownMoves ==
    ASSUME WalkInv, StepDown
    PROVE  /\ until' \in Nat /\ until' < until
           /\ OldestOf(page) \in Nat
           /\ \E p \in page : OldestOf(page) = p.at
           /\ \A p \in page : OldestOf(page) <= p.at
<1>1. page \in SUBSET Events /\ page # {} /\ \A p \in page : p.at < until
  BY DEF WalkInv, TypeOK, OnPage, StepDown
<1>2. /\ OldestOf(page) \in Nat
      /\ \E p \in page : OldestOf(page) = p.at
      /\ \A p \in page : OldestOf(page) <= p.at
  BY <1>1, OldestIsLeast
<1>3. until \in Nat
  BY DEF WalkInv, TypeOK
<1>4. \/ until' = OldestOf(page) + 1 /\ OldestOf(page) + 1 < until
      \/ until' = OldestOf(page)
  BY DEF StepDown, NextUntil
<1>5. OldestOf(page) < until
  BY <1>1, <1>2
<1> QED BY <1>2, <1>3, <1>4, <1>5

\* Every step of the walk and of the relay keeps the inductive invariant.
LEMMA WalkInvNext == WalkInv /\ [Next]_vars => WalkInv'
<1> SUFFICES ASSUME WalkInv, [Next]_vars PROVE WalkInv'
  OBVIOUS
<1> USE WalkAssumption
<1>0. TypeOK /\ kept \subseteq held /\ OnPage /\ Accounted /\ Complete
  BY DEF WalkInv
<1>1. CASE Skip
  BY <1>0, <1>1 DEF Skip, WalkInv, TypeOK, OnPage, Accounted, Complete
<1>2. ASSUME NEW P \in SUBSET Window, NEW timedOut \in BOOLEAN, Fetch(P, timedOut)
      PROVE  WalkInv'
  <2>1. P \in SUBSET Events /\ P # {} /\ \A p \in P : p.at < until
    BY <1>0, <1>2 DEF Fetch, Window, InWindow, TypeOK
  <2>2. TypeOK'
    BY <1>0, <1>2, <2>1 DEF Fetch, TypeOK, relay
  <2>3. OnPage' /\ (kept \subseteq held)' /\ Complete'
    BY <1>0, <1>2, <2>1 DEF Fetch, OnPage, Complete, relay
  <2>4. ASSUME NEW e \in kept, InRange(e)
        PROVE  e \in ingested \/ Excused(e) \/ e \in P
               \/ /\ e.at < until
                  /\ \A p \in P : e.at <= p.at
                  /\ timedOut \/ Cardinality(P) = cap
    <3>1. e \in ingested \/ Excused(e) \/ e.at < until
      BY <1>0, <1>2, <2>4 DEF Accounted, Below, Fetch
    <3>2. ASSUME e.at < until PROVE e \in Window
      BY <1>0, <2>4, <3>2 DEF Window, InWindow, InRange, TypeOK
    <3>3. CASE Answer(P) /\ ~timedOut
      BY <3>1, <3>2, <3>3 DEF Answer, NewestOf
    <3>4. CASE timedOut
      <4>1. PICK A \in SUBSET Window : Answer(A) /\ P \subseteq A /\ NewestOf(P, A)
        BY <1>2, <3>4 DEF Fetch
      <4>2. ASSUME e \in Window, e \notin P, NEW p \in P PROVE e.at <= p.at
        <5>1. CASE e \in A
          BY <4>1, <4>2, <5>1 DEF NewestOf
        <5>2. CASE e \notin A
          BY <4>1, <4>2, <5>2 DEF NewestOf, Answer
        <5> QED BY <5>1, <5>2
      <4> QED BY <3>1, <3>2, <3>4, <4>2
    <3> QED BY <1>2, <3>3, <3>4 DEF Fetch
  <2>5. Accounted'
    <3>1. /\ pc' = "ingest" /\ page' = P /\ cut' = timedOut /\ kept' = kept
          /\ ingested' = ingested /\ passed' = passed /\ cap' = cap /\ until' = until
      BY <1>2 DEF Fetch, relay
    <3> QED BY <2>4, <3>1 DEF Accounted, Below, Excused
  <2> QED BY <2>2, <2>3, <2>5 DEF WalkInv
<1>3. CASE NoMoreHistory
  <2>1. TypeOK' /\ OnPage' /\ Accounted' /\ (kept \subseteq held)'
    BY <1>0, <1>3 DEF NoMoreHistory, TypeOK, OnPage, Accounted, relay
  <2>2. \A e \in kept : InRange(e) => e \in ingested \/ Excused(e)
    BY <1>0, <1>3 DEF NoMoreHistory, Accounted, Below, Window, InWindow, InRange, TypeOK
  <2>3. Complete'
    BY <1>3, <2>2 DEF NoMoreHistory, Complete, Excused, relay
  <2> QED BY <2>1, <2>3 DEF WalkInv
<1>4. CASE WindowFailed
  BY <1>0, <1>4 DEF WindowFailed, WalkInv, TypeOK, OnPage, Accounted, Complete, relay
<1>5. ASSUME NEW e \in pending, IngestOne(e)
      PROVE  WalkInv'
  <2>1. TypeOK' /\ OnPage' /\ Complete' /\ (kept \subseteq held)'
    BY <1>0, <1>5 DEF IngestOne, TypeOK, OnPage, Complete, relay
  <2>2. Accounted'
    BY <1>0, <1>5 DEF IngestOne, Accounted, Below, Excused, relay
  <2> QED BY <2>1, <2>2 DEF WalkInv
<1>6. CASE IngestFailed
  BY <1>0, <1>6 DEF IngestFailed, WalkInv, TypeOK, OnPage, Accounted, Complete, relay
<1>7. CASE StepDown
  <2> DEFINE oldest == OldestOf(page)
  <2>1. /\ until' \in Nat /\ until' < until /\ oldest \in Nat
        /\ \E p \in page : oldest = p.at
        /\ \A p \in page : oldest <= p.at
    BY <1>7, StepDownMoves
  <2>2. Cardinality(page) \in Nat
    BY <1>0, PageSize DEF TypeOK
  <2> HIDE DEF oldest
  <2>3. /\ pc = "ingest" /\ pending = {} /\ pc' = "ask"
        /\ kept' = kept /\ held' = held /\ ingested' = ingested /\ cap' = cap
        /\ page' = page /\ cut' = cut /\ pending' = pending /\ askable' = askable
        /\ indexed_from' = indexed_from
    BY <1>7 DEF StepDown, relay
  <2>4. \/ until' = oldest + 1 /\ passed' = passed
        \/ /\ until' = oldest
           /\ passed' = passed \cup
                 {[second |-> oldest, got |-> Cardinality(page), cut |-> cut]}
    BY <1>7 DEF StepDown, NextUntil, oldest
  <2>5. TypeOK'
    <3>1. passed' \subseteq [second : Nat, got : Nat, cut : BOOLEAN]
      <4> DEFINE r == [second |-> oldest, got |-> Cardinality(page), cut |-> cut]
      <4>1. r \in [second : Nat, got : Nat, cut : BOOLEAN]
        BY <1>0, <2>1, <2>2 DEF TypeOK
      <4>2. passed' \subseteq passed \cup {r}
        BY <2>4
      <4> QED BY <1>0, <4>1, <4>2 DEF TypeOK
    <3> QED BY <1>0, <2>1, <2>3, <3>1 DEF TypeOK
  <2>6. OnPage' /\ Complete' /\ (kept \subseteq held)'
    BY <1>0, <2>3 DEF OnPage, Complete
  <2>7. ASSUME NEW e \in kept, InRange(e)
        PROVE  (e \in ingested \/ Excused(e) \/ Below(e))'
    <3>0. e.at \in Nat
      BY <1>0 DEF TypeOK
    <3>1. \/ e \in ingested \/ Excused(e)
          \/ e \in page
          \/ e.at <= oldest /\ (cut \/ Cardinality(page) = cap)
      BY <1>0, <2>1, <2>3, <2>7 DEF Accounted, Below
    <3>2. CASE e \in ingested \/ e \in page
      BY <1>0, <2>3, <3>2 DEF OnPage
    <3>3. CASE Excused(e)
      BY <2>3, <2>4, <3>3 DEF Excused
    <3>4. CASE e.at <= oldest /\ (cut \/ Cardinality(page) = cap)
      <4>1. CASE e.at < until'
        BY <2>3, <4>1 DEF Below
      <4>2. CASE ~(e.at < until')
        <5> DEFINE r == [second |-> oldest, got |-> Cardinality(page), cut |-> cut]
        <5>1. e.at = oldest /\ r \in passed'
          BY <2>1, <2>4, <3>0, <3>4, <4>2
        <5>2. r.second = e.at /\ (r.cut \/ r.got = cap')
          BY <2>3, <3>4, <5>1
        <5> QED BY <5>1, <5>2 DEF Excused
      <4> QED BY <4>1, <4>2
    <3> QED BY <3>1, <3>2, <3>3, <3>4
  <2>8. Accounted'
    BY <2>3, <2>7 DEF Accounted, InRange
  <2> QED BY <2>5, <2>6, <2>8 DEF WalkInv
<1>8. CASE ReachFloor
  <2>1. TypeOK' /\ OnPage' /\ Accounted' /\ (kept \subseteq held)'
    BY <1>0, <1>8 DEF ReachFloor, TypeOK, OnPage, Accounted, relay
  <2>2. \A e \in kept : InRange(e) => e \in ingested \/ Excused(e)
    BY <1>0, <1>8 DEF ReachFloor, Accounted, Below, InRange, TypeOK
  <2>3. Complete'
    BY <1>8, <2>2 DEF ReachFloor, Complete, Excused, relay
  <2> QED BY <2>1, <2>3 DEF WalkInv
<1>9. CASE Record
  BY <1>0, <1>9 DEF Record, WalkInv, TypeOK, OnPage, Accounted, Complete, relay
<1>10. ASSUME NEW e \in Events, Arrive(e)
       PROVE  WalkInv'
  BY <1>0, <1>10 DEF Arrive, WalkInv, TypeOK, OnPage, Accounted, Below, Excused, Complete
<1>11. ASSUME NEW e \in Events, Replace(e)
       PROVE  WalkInv'
  BY <1>0, <1>11 DEF Replace, WalkInv, TypeOK, OnPage, Accounted, Below, Excused, Complete
<1>12. CASE UNCHANGED vars
  BY <1>0, <1>12 DEF vars, WalkInv, TypeOK, OnPage, Accounted, Below, Excused, Complete,
                     Window
<1> QED BY <1>1, <1>2, <1>3, <1>4, <1>5, <1>6, <1>7, <1>8, <1>9, <1>10, <1>11, <1>12
        DEF Next, WalkStep

\* The upper bound of a window never falls below the epoch, and the
\* walk keeps its types, for every history and range.
THEOREM WalkTypeCorrect == Spec => []TypeOK
<1>1. WalkInv => TypeOK
  BY DEF WalkInv
<1> QED BY WalkInvInit, WalkInvNext, <1>1, PTL DEF Spec

\* For every history, range, limit and reply cap: a walk that ended on its own
\* ingested every event of the range the relay held throughout, except in
\* seconds that filled a whole reply or were cut short by the time-out.
THEOREM WalkComplete == Spec => []Complete
<1>1. WalkInv => Complete
  BY DEF WalkInv
<1> QED BY WalkInvInit, WalkInvNext, <1>1, PTL DEF Spec

\* The bound strictly decreases from one window to the next, so no page makes
\* the walk ask the same question twice.
THEOREM WalkMoves == Spec => AlwaysMoves
<1>1. WalkInv /\ [Next]_vars => [pc = "ingest" /\ pc' = "ask" => until' < until]_vars
  <2> SUFFICES ASSUME WalkInv, Next, pc = "ingest", pc' = "ask" PROVE until' < until
    BY DEF vars
  <2>1. StepDown
    BY DEF Next, WalkStep, Skip, Fetch, NoMoreHistory, WindowFailed, IngestOne,
           IngestFailed, ReachFloor, Record, Arrive, Replace
  <2> QED BY <2>1, StepDownMoves
<1> QED BY WalkInvInit, WalkInvNext, <1>1, PTL DEF Spec, AlwaysMoves
=============================================================================
