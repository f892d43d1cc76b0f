--------------------------- MODULE BackfillProofs ---------------------------
(***************************************************************************)
(* A run of backfill that ends well, for any relays, any chain of relay    *)
(* lists and any number of discovery rounds: every relay it walked has     *)
(* given all it was asked for, and every relay that was named in time was  *)
(* walked or did not answer.                                               *)
(***************************************************************************)
EXTENDS Backfill, NumberFacts

-----------------------------------------------------------------------------
(* The kinds of a run, and the relays it knows.                            *)

\* A run asks for at least one kind, and for those that vouch for a
\* publisher before those that need one vouched for.
LEMMA RunsOrdered ==
    ASSUME NEW q \in Runs
    PROVE  /\ Len(q) \in Nat /\ Len(q) >= 1 /\ DOMAIN q = 1 .. Len(q)
           /\ \A i, j \in DOMAIN q :
                 q[i] \notin UNTAGGED_KINDS /\ q[j] \in UNTAGGED_KINDS => i < j
<1>1. CASE q = INDEXED_KINDS
  BY <1>1 DEF INDEXED_KINDS, UNTAGGED_KINDS
<1>2. CASE \E k \in Range(INDEXED_KINDS) : q = <<k>>
  BY <1>2
<1> QED BY <1>1, <1>2 DEF Runs

\* What is stored came from a relay, so the relays it names are relays.
LEMMA ConnectionSetType ==
    ASSUME NEW S, S \subseteq UNION Range(Holds)
    PROVE  ConnectionSet(S) \subseteq Relays
BY BackfillAssumption DEF ConnectionSet, Range

\* What a relay answers is something it holds.
LEMMA ReplyType ==
    ASSUME NEW r \in Relays, NEW k
    PROVE  Reply(r, k) \subseteq UNION Range(Holds)
BY BackfillAssumption DEF Reply, Range

\* A set that grows names no fewer relays and proves no fewer publishers.
LEMMA GrowingSet ==
    ASSUME NEW S, NEW T, S \subseteq T
    PROVE  ConnectionSet(S) \subseteq ConnectionSet(T) /\ Proven(S) \subseteq Proven(T)
BY DEF ConnectionSet, Proven

-----------------------------------------------------------------------------
(* Types.                                                                  *)

\* The run's own book-keeping besides TypeOK.
Typed ==
    /\ TypeOK
    /\ walked \subseteq client
    /\ pc = "walk" => kinds \in Runs
    /\ pc # "walk" => relay = None

\* Nothing has been asked for.
LEMMA TypedInit == Init => Typed
BY BackfillAssumption DEF Init, Typed, TypeOK

\* The floor a kind is recorded with is the one it was asked with.
LEMMA RecordedFloor ==
    ASSUME NEW t \in {None, From}
    PROVE  Min({From, t} \ {None}) = From
<1>1. {From, t} \ {None} = {From} /\ From \in Nat
  BY BackfillAssumption
<1> QED BY <1>1, MinIs

\* Every step of a run, of the network or of the operator keeps the types.
LEMMA TypedNext == Typed /\ [Next]_vars => Typed'
<1> SUFFICES ASSUME Typed, [Next]_vars PROVE Typed'
  OBVIOUS
<1>0. TypeOK
  BY DEF Typed
<1>1. ConnectionSet(archive) \subseteq Relays
  BY <1>0, ConnectionSetType DEF TypeOK
<1>2. ASSUME NEW asked \in Runs, Start(asked) PROVE Typed'
  <2>1. 1 \in DOMAIN asked
    BY RunsOrdered
  <2> QED BY <1>0, <1>1, <1>2, <2>1, BackfillAssumption DEF Start, Typed, TypeOK
<1>3. ASSUME NEW r \in Relays, NextRelay(r) PROVE Typed'
  <2>1. 1 \in DOMAIN kinds
    BY <1>3, RunsOrdered DEF NextRelay, Typed
  <2> QED BY <1>0, <1>3, <2>1 DEF NextRelay, Typed, TypeOK
<1>4. ASSUME NEW fails, NEW since, NEW missed, WalkKind(fails, since, missed) PROVE Typed'
  <2> DEFINE last == turn = Len(kinds)
  <2>1. kinds \in Runs /\ turn \in DOMAIN kinds /\ relay \in Relays
    BY <1>0, <1>4 DEF WalkKind, Typed, TypeOK
  <2>2. (IF last THEN 1 ELSE turn + 1) \in DOMAIN kinds
    BY <2>1, RunsOrdered
  <2>3. archive' \subseteq UNION Range(Holds)
    BY <1>0, <1>4, <2>1, ReplyType DEF WalkKind, TypeOK
  <2> QED BY <1>0, <1>4, <2>1, <2>2, <2>3 DEF WalkKind, Typed, TypeOK
<1>5. CASE Discover
  <2>1. round' \in 0 .. MAX_DISCOVERY_ROUNDS
    BY <1>0, <1>5, BackfillAssumption DEF Discover, RoundsLeft, TypeOK
  <2>2. Fresh \subseteq Relays \ walked
    BY <1>1 DEF Fresh, Typed
  <2> QED BY <1>0, <1>5, <2>1, <2>2 DEF Discover, Typed, TypeOK
<1>6. CASE Finish
  <2>1. indexed_kinds' \in [Range(INDEXED_KINDS) -> {None, From}]
    BY <1>0, <1>6, RecordedFloor DEF Finish, TypeOK
  <2> QED BY <1>0, <1>6, <2>1 DEF Finish, Typed, TypeOK
<1>7. ASSUME NEW got, Interrupt(got) PROVE Typed'
  <2>1. relay \in up => relay \in Relays
    BY <1>0 DEF TypeOK
  <2>2. archive' \subseteq UNION Range(Holds)
    BY <1>0, <1>7, <2>1, ReplyType DEF Interrupt, TypeOK
  <2> QED BY <1>0, <1>7, <2>2, BackfillAssumption DEF Interrupt, Typed, TypeOK
<1>8. ASSUME NEW r \in Relays, Flip(r) PROVE Typed'
  BY <1>0, <1>8 DEF Flip, Typed, TypeOK
<1>9. CASE UNCHANGED vars
  BY <1>9 DEF vars, Typed, TypeOK
<1> QED BY <1>2, <1>3, <1>4, <1>5, <1>6, <1>7, <1>8, <1>9 DEF Next

\* A run walks relays it is connected to, each once, within its rounds, and
\* records a kind with the floor it was asked with.
THEOREM BackfillTypeCorrect == Spec => []TypeOK
<1>1. Typed => TypeOK
  BY DEF Typed
<1> QED BY <1>1, TypedInit, TypedNext, PTL DEF Spec
-----------------------------------------------------------------------------
(* What a run owes.                                                        *)

\* What WalkedThrough asks of a relay r.
Owed(r, e) ==
    /\ e \in Due(r)
    /\ e.kind \in UNTAGGED_KINDS => e.pubkey \in Listed \cup proven \cup Proven(Due(r))

\* It is archived, or repeats something that is.
Given(e) == e \in archive \/ \E f \in archive : Repeats(f, e)

\* The relay at hand has answered for the kinds before the next one.
Asked(r, k) == r = relay => \E j \in 1 .. turn - 1 : j \in DOMAIN kinds /\ kinds[j] = k

\* Inductively: every relay walked so far has given what it was asked for,
\* and the publishers proven at the start still are.
GivenInv ==
    /\ proven \subseteq Proven(archive)
    /\ \A r \in walked : \A e \in Holds[r] :
          Owed(r, e) /\ Asked(r, e.kind) => Given(e)

\* What fails or is stepped past proves nobody, so the more of it the less
\* is owed.
LEMMA LessOwed ==
    ASSUME NEW r, NEW e, failed \subseteq failed', skipped \subseteq skipped',
           UNCHANGED <<kinds, proven>>
    PROVE  Owed(r, e)' => Owed(r, e)
<1>1. Due(r)' \subseteq Due(r)
  BY DEF Due
<1>2. Proven(Due(r)') \subseteq Proven(Due(r))
  BY <1>1, GrowingSet
<1> QED BY <1>1, <1>2 DEF Owed

\* What the pipeline is given it archives, or something archived says it.
LEMMA IngestsAll ==
    ASSUME NEW got, NEW kept, Ingests(got, kept), NEW e \in got
    PROVE  \/ e \in archive \cup kept
           \/ \E f \in archive \cup kept : Repeats(f, e)
<1>1. PICK order : \A g \in got \ archive :
         g \in kept <=> ~IsRedundant(archive \cup {f \in kept : order[f] < order[g]}, g)
  BY DEF Ingests
<1>2. CASE e \notin archive /\ e \notin kept
  <2>1. IsRedundant(archive \cup {f \in kept : order[f] < order[e]}, e)
    BY <1>1, <1>2
  <2> QED BY <2>1 DEF IsRedundant
<1> QED BY <1>2

\* An archive that grows gives no less.
LEMMA GivenGrows ==
    ASSUME NEW e, Given(e), archive \subseteq archive'
    PROVE  Given(e)'
BY DEF Given

\* What says the same comes from the same publisher and is of the same kind.
LEMMA GivenProves ==
    ASSUME NEW e, Given(e), e.kind \notin UNTAGGED_KINDS
    PROVE  e.pubkey \in Proven(archive)
BY DEF Given, Repeats, Proven

\* When a kind that needs a voucher comes up, whoever the relay itself could
\* vouch for is proven.
LEMMA VouchersFirst ==
    ASSUME Typed, GivenInv, pc = "walk", relay # None, kinds[turn] \in UNTAGGED_KINDS
    PROVE  Proven(Due(relay)) \subseteq Proven(archive)
<1> SUFFICES ASSUME NEW e \in Due(relay), e.kind \notin UNTAGGED_KINDS
             PROVE  e.pubkey \in Proven(archive)
  BY DEF Proven
<1>0. e \in Holds[relay] /\ e.kind \in Range(kinds) /\ Owed(relay, e)
  BY DEF Due, Owed
<1>1. relay \in walked /\ kinds \in Runs /\ turn \in DOMAIN kinds
  BY DEF Typed, TypeOK
<1>2. PICK j \in DOMAIN kinds : kinds[j] = e.kind
  BY <1>0 DEF Range
<1>3. j < turn /\ DOMAIN kinds = 1 .. Len(kinds) /\ Len(kinds) \in Nat
  BY <1>1, <1>2, RunsOrdered
<1>4. j \in 1 .. turn - 1
  BY <1>1, <1>2, <1>3
<1>5. Given(e)
  BY <1>0, <1>1, <1>2, <1>4 DEF GivenInv, Asked
<1> QED BY <1>5, GivenProves

\* One relay is asked for one kind.
LEMMA GivenWalk ==
    ASSUME Typed, GivenInv, NEW fails, NEW since, NEW missed, WalkKind(fails, since, missed)
    PROVE  GivenInv'
<1> DEFINE k == kinds[turn]
           got == {e \in Reply(relay, k) \ missed : e.at >= since}
<1>k. PICK kept : Ingests(got, kept) /\ archive' = archive \cup kept
  BY DEF WalkKind
<1>0. /\ pc = "walk" /\ relay # None /\ (~fails => since = From)
      /\ failed' = IF fails THEN failed \cup {<<relay, k>>} ELSE failed
      /\ skipped' = skipped \cup ({relay} \X missed)
      /\ relay' = IF turn = Len(kinds) THEN None ELSE relay
      /\ turn' = IF turn = Len(kinds) THEN 1 ELSE turn + 1
      /\ UNCHANGED <<kinds, walked, proven>>
  BY DEF WalkKind
<1>1. /\ kinds \in Runs /\ turn \in 1 .. Len(kinds) /\ DOMAIN kinds = 1 .. Len(kinds)
      /\ Len(kinds) \in Nat /\ relay \in walked /\ relay \in Relays
  BY <1>0, RunsOrdered DEF Typed, TypeOK
<1>2. proven' \subseteq Proven(archive)'
  <2>1. Proven(archive) \subseteq Proven(archive')
    BY <1>k, GrowingSet
  <2> QED BY <1>0, <2>1 DEF GivenInv
<1>3. failed \subseteq failed' /\ skipped \subseteq skipped' /\ archive \subseteq archive'
  BY <1>0, <1>k
<1>4. ASSUME NEW r \in walked, NEW e \in Holds[r], Owed(r, e)', Asked(r, e.kind)'
      PROVE  Given(e)'
  <2>1. Owed(r, e)
    BY <1>0, <1>3, <1>4, LessOwed
  <2>2. CASE Asked(r, e.kind)
    <3>1. Given(e)
      BY <2>1, <2>2 DEF GivenInv
    <3> QED BY <1>3, <3>1, GivenGrows
  <2>3. CASE ~Asked(r, e.kind)
    <3>1. r = relay
      BY <2>3 DEF Asked
    <3>2. e.kind = k
      <4>1. PICK j \in DOMAIN kinds : kinds[j] = e.kind /\ j <= turn
        <5>1. CASE turn = Len(kinds)
          BY <1>1, <2>1, <5>1 DEF Owed, Due, Range
        <5>2. CASE turn # Len(kinds)
          <6>1. relay' = relay /\ turn' = turn + 1
            BY <1>0, <5>2
          <6>2. \E j \in 1 .. turn' - 1 : j \in DOMAIN kinds' /\ kinds'[j] = e.kind
            BY <1>4, <3>1, <6>1 DEF Asked
          <6>3. kinds' = kinds
            BY <1>0
          <6>4. PICK j \in 1 .. turn' - 1 : j \in DOMAIN kinds /\ kinds[j] = e.kind
            BY <6>2, <6>3
          <6>5. j <= turn
            BY <1>1, <6>1
          <6> QED BY <6>4, <6>5
        <5> QED BY <5>1, <5>2
      <4>2. j \notin 1 .. turn - 1
        BY <2>3, <4>1 DEF Asked
      <4> QED BY <1>1, <4>1, <4>2
    <3>3. <<relay, k>> \notin failed' /\ <<relay, e>> \notin skipped'
      BY <1>4, <3>1, <3>2 DEF Owed, Due
    <3>4. since = From /\ e \notin missed
      BY <1>0, <3>3
    <3>5. k \in UNTAGGED_KINDS => e.pubkey \in Vouched
      <4> SUFFICES ASSUME k \in UNTAGGED_KINDS PROVE e.pubkey \in Vouched
        OBVIOUS
      <4>1. Proven(Due(relay)) \subseteq Proven(archive)
        BY <1>0, VouchersFirst
      <4> QED BY <2>1, <3>1, <3>2, <4>1 DEF Owed, Vouched, GivenInv
    <3>6. e \in Reply(relay, k) /\ e.at >= From
      BY <2>1, <3>1, <3>2, <3>5 DEF Reply, Owed, Due
    <3>7. e \in got
      BY <3>4, <3>6
    <3> QED BY <1>k, <3>7, IngestsAll DEF Given
  <2> QED BY <2>2, <2>3
<1> QED BY <1>0, <1>2, <1>4 DEF GivenInv

\* Every other step owes no more than was given.
LEMMA GivenNext == Typed /\ GivenInv /\ [Next]_vars => GivenInv'
<1> SUFFICES ASSUME Typed, GivenInv, [Next]_vars PROVE GivenInv'
  OBVIOUS
<1>1. ASSUME NEW asked \in Runs, Start(asked) PROVE GivenInv'
  BY <1>1 DEF Start, GivenInv
<1>2. ASSUME NEW r \in Relays, NextRelay(r) PROVE GivenInv'
  <2>1. ASSUME NEW q \in walked', NEW e \in Holds[q], Owed(q, e)', Asked(q, e.kind)'
        PROVE  Given(e)'
    <3>1. q # r
      BY <1>2, <2>1 DEF NextRelay, Asked
    <3>2. q \in walked /\ q # None /\ relay = None
      BY <1>2, <3>1, BackfillAssumption DEF NextRelay, Typed, TypeOK
    <3>3. Owed(q, e) /\ Asked(q, e.kind)
      BY <1>2, <2>1, <3>2 DEF NextRelay, Owed, Due, Asked
    <3> QED BY <1>2, <3>2, <3>3 DEF NextRelay, GivenInv, Given
  <2> QED BY <1>2, <2>1 DEF NextRelay, GivenInv
<1>3. ASSUME NEW fails, NEW since, NEW missed, WalkKind(fails, since, missed)
      PROVE  GivenInv'
  BY <1>3, GivenWalk
<1>4. ASSUME UNCHANGED <<archive, kinds, relay, turn, walked, failed, skipped, proven>>
      PROVE  GivenInv'
  BY <1>4 DEF GivenInv, Given, Owed, Asked, Due
<1>5. CASE Discover \/ Finish \/ (\E r \in Relays : Flip(r)) \/ UNCHANGED vars
  BY <1>4, <1>5 DEF Discover, Finish, Flip, vars
<1>6. ASSUME NEW got, Interrupt(got) PROVE GivenInv'
  BY <1>6 DEF Interrupt, GivenInv
<1> QED BY <1>1, <1>2, <1>3, <1>5, <1>6 DEF Next

\* When a run ends well, every relay it walked has given all it holds of the
\* kinds asked for, but for requests that failed and seconds that were
\* stepped past, whatever was interrupted before it and in whichever order
\* relays, pages and lists came; what is not archived repeats what is.
THEOREM WalkedThroughCorrect == Spec => []WalkedThrough
<1>1. Init => GivenInv
  BY DEF Init, GivenInv
<1>2. Typed /\ GivenInv => WalkedThrough
  <2> SUFFICES ASSUME Typed, GivenInv, pc = "done", NEW r \in walked, NEW e \in Holds[r],
                      Owed(r, e)
               PROVE  Given(e)
    BY DEF WalkedThrough, Owed, Due, Given
  <2>1. relay = None /\ r # None
    BY BackfillAssumption DEF Typed, TypeOK
  <2> QED BY <2>1 DEF GivenInv, Asked
<1> QED BY <1>1, <1>2, TypedInit, TypedNext, GivenNext, PTL DEF Spec

-----------------------------------------------------------------------------
(* Discovery.                                                              *)

Reached == client \cup refused

\* While a run walks, heard dates exactly the relays of the set, those known
\* before the round began were dialled, and a relay that answered was walked
\* or is waiting to be.
DialledInv ==
    /\ heard \in [Relays -> Nat \cup {None}]
    /\ \A r \in Relays : heard[r] # None <=> r \in ConnectionSet(archive)
    /\ \A r \in Relays : heard[r] # None /\ heard[r] < round => r \in Reached
    /\ ~DiscoverRelays => Configured \subseteq Reached
    /\ client \subseteq walked \cup queue

NamesInv == (pc = "walk" => DialledInv) /\ NamesFollowed

\* A walk may name more relays, and dates those in this round.
LEMMA DialledWalk ==
    ASSUME Typed, DialledInv, NEW fails, NEW since, NEW missed, WalkKind(fails, since, missed)
    PROVE  DialledInv'
<1>1. /\ UNCHANGED <<client, refused, walked, queue, round>>
      /\ archive \subseteq archive' /\ heard' = Hear(archive')
  BY DEF WalkKind
<1>2. round \in Nat /\ round # None
  BY BackfillAssumption DEF Typed, TypeOK
<1>3. ConnectionSet(archive) \subseteq ConnectionSet(archive')
  BY <1>1, GrowingSet
<1>4. ASSUME NEW r \in Relays
      PROVE  /\ heard'[r] \in Nat \cup {None}
             /\ heard'[r] # None <=> r \in ConnectionSet(archive')
             /\ heard'[r] # None /\ heard'[r] < round => r \in Reached
  <2>1. heard'[r] = IF heard[r] = None /\ r \in ConnectionSet(archive') THEN round ELSE heard[r]
    BY <1>1 DEF Hear
  <2>2. ~(round < round)
    BY <1>2
  <2> QED BY <1>2, <1>3, <2>1, <2>2 DEF DialledInv
<1>5. heard' \in [Relays -> Nat \cup {None}]
  BY <1>1, <1>4 DEF Hear
<1> QED BY <1>1, <1>4, <1>5 DEF DialledInv, Reached

\* A round of discovery dials everything the set holds.
LEMMA DialledDiscover ==
    ASSUME Typed, DialledInv, Discover
    PROVE  DialledInv'
<1>1. /\ client' = client \cup Fresh /\ queue' = Fresh /\ round' = round + 1 /\ queue = {}
      /\ refused' = (refused \cup (ConnectionSet(archive) \ client)) \ Fresh
      /\ UNCHANGED <<archive, walked, heard>>
  BY DEF Discover
<1>2. ConnectionSet(archive) \subseteq Reached' /\ Reached \subseteq Reached'
  BY <1>1 DEF Reached
<1>3. client' \subseteq walked' \cup queue'
  BY <1>1 DEF DialledInv
<1> QED BY <1>1, <1>2, <1>3 DEF DialledInv

\* A run that ends well has no round left, or nothing left to dial.
LEMMA FollowedFinish ==
    ASSUME Typed, DialledInv, Finish
    PROVE  NamesFollowed'
<1> SUFFICES ASSUME NEW r \in Relays, heard'[r] # None, heard'[r] < MAX_DISCOVERY_ROUNDS
             PROVE  r \in walked' \cup refused'
  BY DEF NamesFollowed
<1>1. /\ heard' = heard /\ walked' = walked /\ refused \subseteq refused'
      /\ client \subseteq walked
      /\ r \in ConnectionSet(archive)
  BY DEF Finish, DialledInv
<1>2. CASE RoundsLeft
  <2>1. refused' = refused \cup (ConnectionSet(archive) \ client)
    BY <1>2 DEF Finish
  <2> QED BY <1>1, <2>1
<1>3. CASE ~DiscoverRelays
  <2>1. r \in Configured
    BY <1>1, <1>3 DEF ConnectionSet
  <2> QED BY <1>1, <1>3, <2>1 DEF DialledInv, Reached
<1>4. CASE DiscoverRelays /\ ~RoundsLeft
  <2>1. round = MAX_DISCOVERY_ROUNDS
    BY <1>4, BackfillAssumption DEF RoundsLeft, Typed, TypeOK
  <2>2. r \in Reached
    BY <1>1, <2>1 DEF DialledInv
  <2> QED BY <1>1, <2>2 DEF Reached
<1> QED BY <1>2, <1>3, <1>4

\* Every step dials what it has to.
LEMMA NamesInvNext == Typed /\ NamesInv /\ [Next]_vars => NamesInv'
<1> SUFFICES ASSUME Typed, NamesInv, [Next]_vars PROVE NamesInv'
  OBVIOUS
<1>1. ASSUME NEW asked \in Runs, Start(asked) PROVE NamesInv'
  <2>1. /\ pc' = "walk" /\ client' = ConnectionSet(archive) \cap up /\ queue' = client'
        /\ refused' = ConnectionSet(archive) \ up /\ round' = 0 /\ archive' = archive
        /\ heard' = [r \in Relays |-> IF r \in ConnectionSet(archive) THEN 0 ELSE None]
    BY <1>1 DEF Start
  <2>2. /\ 0 # None
        /\ Configured \subseteq ConnectionSet(archive)
        /\ Reached' = ConnectionSet(archive)
    BY <2>1, BackfillAssumption DEF ConnectionSet, Reached
  <2>3. DialledInv'
    BY <2>1, <2>2 DEF DialledInv
  <2> QED BY <2>1, <2>3 DEF NamesInv, NamesFollowed
<1>2. ASSUME NEW r \in Relays, NextRelay(r) PROVE NamesInv'
  <2>1. /\ DialledInv /\ pc' = "walk"
        /\ queue' = queue \ {r} /\ walked' = walked \cup {r}
        /\ UNCHANGED <<heard, archive, round, client, refused>>
    BY <1>2 DEF NextRelay, NamesInv
  <2>2. DialledInv'
    BY <2>1 DEF DialledInv, Reached
  <2> QED BY <2>1, <2>2 DEF NamesInv, NamesFollowed
<1>3. ASSUME NEW fails, NEW since, NEW missed, WalkKind(fails, since, missed)
      PROVE  NamesInv'
  BY <1>3, DialledWalk DEF WalkKind, NamesInv, NamesFollowed
<1>4. CASE Discover
  BY <1>4, DialledDiscover DEF Discover, NamesInv, NamesFollowed
<1>5. CASE Finish
  BY <1>5, FollowedFinish DEF Finish, NamesInv
<1>6. ASSUME NEW got, Interrupt(got) PROVE NamesInv'
  BY <1>6 DEF Interrupt, NamesInv, NamesFollowed
<1>7. CASE (\E r \in Relays : Flip(r)) \/ UNCHANGED vars
  <2>1. UNCHANGED <<pc, heard, archive, round, client, refused, walked, queue>>
    BY <1>7 DEF Flip, vars
  <2> QED BY <2>1 DEF NamesInv, DialledInv, NamesFollowed, Reached
<1> QED BY <1>1, <1>2, <1>3, <1>4, <1>5, <1>6, <1>7 DEF Next

\* When a run ends well, every relay that was named before the last round of
\* discovery began was walked, or did not answer when it was last dialled.
THEOREM NamesFollowedCorrect == Spec => []NamesFollowed
<1>1. Init => NamesInv
  BY DEF Init, NamesInv, NamesFollowed
<1>2. NamesInv => NamesFollowed
  BY DEF NamesInv
<1> QED BY <1>1, <1>2, TypedInit, TypedNext, NamesInvNext, PTL DEF Spec

=============================================================================
