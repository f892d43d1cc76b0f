# Bestiario in TLA+

Bestiario indexes what Mostro instances publish on Nostr. It walks relays
backwards for history (`backfill`), follows them for what is new (`sync`), keeps
every event it accepts in a SQLite archive with tables derived from it
(`rebuild` derives them again), reports statistics over the archive, and publishes
them as signed documents (`publish`). These modules model the parts of it that keep
state, share it, depend on a network, or compute the figures; line numbers refer
to the files of the repository.

## The system

| Part | State | Operations | Interacts with |
|---|---|---|---|
| ingest pipeline, `src/ingest/pipeline.rs` | the archive `events`, version tables, projections, `instances`, `relays`, `sync_state` | `ingest`, `replay` | called by `sync`, `backfill` (one process each) and `rebuild`; the database is the shared state |
| heartbeat retention, `db/repo/heartbeats.rs` | reads `events` and `rates` | `is_redundant` | inside the ingest transaction |
| rebuild, `commands/rebuild.rs` | none of its own | clears, replay, sweeps | runs beside ingesters, statement by statement |
| backfill, `commands/backfill.rs` | the bound of each walk, the relays of each round | windows downwards, kinds in order, rounds of discovery | relays, pipeline, `indexed_kinds` |
| sync, `commands/sync.rs`, and the relay client, `nostr/client.rs` | the relays in play, the open subscription | dial, prime, subscribe, follow, back off | relays, pipeline, `sync_state`, `relays`, `indexed_kinds` |
| publish, `commands/publish.rs`, `publish/restatement.rs` | `published_documents`, `publication_runs` | read, compute, decide, send, record | archive written beside it, relays |
| loading, `db/load`, and the report commands, `commands/stats` and others | none | resolve the options, load, read the coverage, report | archive written beside them |
| statistics, `crates/stats` | none | windows, buckets, families of figures, views, documents, addresses | fed by `db/load`, used by reports and `publish` |
| parsers, `ingest/parse` | none | pure functions of one event | pipeline |

What is hard about it:

* several processes write one database, and most operations read it more than
  once outside a transaction (the vouching query, the rebuild, a report, the
  publication);
* relays replay newest first, cap replies, time out, go away, answer late or
  never, drop what was replaced;
* cursors, retention and duplicate flags must come out the same in whichever
  order events arrive;
* discovery feeds itself: a relay walked names relays to walk, and a publisher met
  decides what may be asked of the next relay;
* a publication is seen by readers while it is being made, and may fail anywhere;
* the same figure is computed along several paths (a report, a slice, a series, a
  document), over loads narrowed in different ways, and cut by a calendar whose
  months have different lengths.

What makes each part correct: the pipeline, that its tables are a function of
the archive and its cursors never ahead of it; trust, that nothing untagged
enters on a stranger's word; retention, that it loses no change; the walk, that
it moves, ends and misses nothing; a backfill, that it brings all it may ask for
from every relay it reaches; the sync, that it misses nothing its relays
hold; the publication, that an index is honoured and revisions count changes; the
figures, that tables add up, that every path to a figure gives the same one, and
that the past is settled. `PROJECT.json` lists the hazards behind these line by line.

## The modules

Collecting:

* **Tables** holds the rows and the statements: one operator per SQL statement
  of `src/db/repo`. An event is a record with the fields that some statement
  reads; a parsed field is given with the event. `key` is the order id, dispute
  id or `d` tag, `stamp` the time a payload carries, `body` the rest.
* **Pipeline** (extends Tables) has one variable per table. `Receive` is the part
  of `ingest` before the transaction, `Store`, `SkipDuplicate`, `SkipRedundant` and
  `ArchiveUnreadable` are its ends, `Fail` a transaction that rolls back.
  `Connect` is the start of a run that records the configured relays. A rebuild
  is a program counter over the statements of `rebuild()`; `RebuildCrash` ends it
  anywhere. `Upgrade` deploys a parser that reads one more event. `stale` says that
  a rebuild is owed: it was started, or died, or a new parser came.
* **Archive** is the abstract specification of the above: a set of events that
  only grows, and by admissible events alone, and a view that is a function of it
  (the last word on each order and dispute, the first fee of each order). It may
  be withdrawn and restored, and is never wrong. It knows of no process,
  transaction, version table or crash.
* **Refinement** maps one to the other: `known` is `events`, `legible` is `readable`,
  and `view` is `None` while a rebuild is owed and otherwise what the
  projections and the fees not flagged as duplicates say (`Shown`).
  `ImplementsArchive` is the specification of Archive under that mapping.
* **Walk** is one relay and one kind of a backfill. The relay chooses its answer
  (`Fetch`), may cap replies below `WINDOW_LIMIT`, and changes while it is read
  (`Arrive`, `Replace`).
* **Backfill** is a whole run: `Start`, `NextRelay`, `WalkKind` for each kind of
  `INDEXED_KINDS` in order, `Discover` for a round over the relays that stored
  lists have named since, `Finish` with the record in `indexed_kinds`, and
  `Interrupt` anywhere. One step of it is one behaviour of Walk, by what it brings:
  all, the newer part (a failure), or any part (an interruption), and in each case
  without what else was in a second the walk stepped past. `Ingests` hands it to the
  pipeline in some order, which drops what retention finds redundant by then.
* **Sync** (extends Tables) is the loop of `Sync::follow`. `phase` is where in the
  loop the process is; `stored` is what a relay has yet to replay on the open
  subscription, `live` what arrived since. The pipeline is one atomic step here.
  A subscription is open once one relay took it (`client.rs:347-358`): `serving` are
  those that did and have not closed it since (`Closed`, a message `client.rs:490` does
  not read), and a relay may leave the oldest of a replay out (`CapReplay`). Beside it
  run a backfill and the tables of a rebuild from raw (`ClearVersions`,
  `ReplayVersion`), which shrink what vouches for a publisher. `stopped`, `hurried`,
  `withheld` and `overtaken` remember which events went unread and by whose doing.

Reporting and publishing:

* **Publish** is one publication at a time over an archive that is written to and
  rebuilt beside it. A payload is the set of rows it is computed from, the coverage
  it was computed under, and the clock where a row's age is a figure (`Ageing`: open
  disputes and silent instances), and stands for its hash: two payloads are equal
  when nothing they read differs. The extent is read query by query: `Begin` the
  archive's first event, `ReadFloor` each kind, `ReadCeiling` the last event; the two
  queries about one kind are one step. A run carries any clock the guard of
  `publish.rs:211` lets pass.
* **Calendar** has windows, the instants periods open, `Shift` by months with its
  clamping, buckets, coverage and partitions, and the resolution of `--from`,
  `--until` and `--instance`. The calendar itself is a sequence of month openings,
  so that months have any lengths.
* **Ledger** is `db/load`: what each loader makes of the version tables, narrowed
  as the code narrows it, and the error for rates of a publisher that has no row.
* **Activity, Timing, Disputes, Rates, Volume, Market, DevFees** are the families of
  figures, one module per file of `crates/stats`, and **Views** the summary, the
  comparison, the instances and the life of an order. A fraction is a pair of
  integers, an `i64` and an `f64` have a largest value, and names, units and
  wording are left out.
* **Address** is the grammar of `d` tags, its parser and its rendering; **Series** a
  metric over time and the documents of a snapshot.
* **Reports** (extends all of these) has one operator per command: what it
  refuses, loads, and reports.
* **Figures** puts them over an archive that grows: `Ingest`, which keeps of a
  redundant heartbeat only that its publisher was seen, `Tick`, `Ask` (the
  options and the load), `Report` (the coverage and the figures, read after it),
  `Type` (a client that spells an address).

Checking and proving:

* **MCPipeline, MCWalk, MCBackfill, MCSync, MCPublish, MCFigures** give the
  constants their values. A behaviour of MCPipeline, MCSync, MCPublish or MCFigures
  is set in one *scenario*, a choice made in the initial state that says which events
  are ever published, which relays exist and which of the environment's actions
  happen (`InScenario`). One run then looks into all the scenarios, without looking
  into their product.
* **NumberFacts** has the lemmas every proof uses: `Min` and `Max` of a column, least
  elements, induction over numbers and finite sets, sums over them, division, buckets of
  time. **PipelineProofs** (types, trust, cursors, derived tables, the bestiary, retention
  and the refinement of Archive), **WalkProofs**, **BackfillProofs**, **SyncProofs**,
  **PublishProofs**, **FiguresProofs** (what is settled, the buckets of a window, the
  grammar of addresses) and **ReportsProofs** (sums, shares, months, partitions, the
  clock, the documents of a snapshot) have the theorems.

Definitions whose comment begins "A fault" are not part of any specification:
each is a plausible slip in the code, kept so that every property can be seen to
fail on one (`mutants` in `PROJECT.json`).

## The runs

`tlc -workers 2 -config X.cfg M`, each in at most about four minutes.

| Run | Scenarios | Shows |
|---|---|---|
| `pipeline` | `orders`, `fees`, `disputes`, `trust`, `bestiary`, `rates`, `profiles` | tables are what the archive says whenever no rebuild is owed; cursors stand at archived events; duplicate flags are right at every moment; no untagged event is archived and no relay learnt on a stranger's word; an instance's row and names are those of its sightings; one rate snapshot an hour, but for the window a rebuild from raw opens; no change lost to retention; rebuilds end; and the whole implements Archive |
| `walk` | | the walk moves, ends, and accounts for every event held throughout |
| `backfill` | | a run that ends well has everything it may ask for from each relay it walked, but for walks that failed, seconds stepped past and repeats, whatever was interrupted before it; every name it had a round for was followed |
| `sync` | `orders`, `lists`, `strangers`, `walked` | nothing a serving relay holds is missed but for what is accounted for; named relays are dialled; nothing asked for is refused; a run left alone settles on following |
| `publish` | `prune`, `relays`, `restatement` | an index is honoured at every address that no unrecorded run and no pruning has spoiled, also when the clock is set back after a failed run; revisions count changes and survive a gap in coverage; figures are never short of the stated extent |
| `figures` | `life`, `volume`, `disputes`, `fees`, `rates`, `market`, `address` | tables add up to totals across uneven months, and each event is in one row of a partition; a narrowed load gives the figures of a full one, and a narrowed question those of a slice; deltas compare neighbours; fees and first sightings count once; currencies share out the total; a price, an end and a closed partition are settled; addresses are exact |

Some of these have exceptions, and each is where the code does not do better:

* `Bestiary` leaves two cases open in which the repository disagrees with itself: a
  dropped heartbeat older than everything archived, and two names of one second
  (below).
* `OneRatePerHour` excepts pairs of which one was let in while a rebuild from raw had
  emptied the table the rule is asked of (`overlooked`).
* `CaughtUp` is about the relays in `serving`, and excepts what a replay had not sent
  when sync stopped it (`stopped`) or ran out of time for it (`hurried`), what the relay
  left out of it (`withheld`), and what a backfill moved the cursor past (`overtaken`).
  It takes `sync.rs:12-14` at its word, that a relay with no cursor is asked for all it
  holds; the comment of `deploy/replicated.sh:28-30` says the opposite, and the code
  (`sync.rs:540`) is with the former.
* `Discovered` excepts relays that a backfill recorded since sync last read the table
  (`unread`): a list already archived is a duplicate to the sync.
* `NothingRefused` speaks of the moments at which the version tables are complete:
  while a rebuild from raw has emptied them nobody but the listed is vouched for, and
  the pipeline refuses what the sync asked for.
* `WalkedThrough` excepts a walk whose request failed (`failed`), events of a second
  that a page could not hold (`skipped`), and repeats of an archived heartbeat.
* `IndexPromise` excepts addresses that an unrecorded run or a pruning left at odds with
  the record (`spoiled`; `stale_skip` is about those), and, where the index of a run that
  was never recorded is in the way, addresses that a run with a clock no later than its
  has sent (`stray`, `overtaken`).
* `OnlyEventsMoveFigures` speaks of a clock that has passed the floor and the last
  event: before that, a window is clamped to the clock. Disputes and instances carry
  ages and are left out (`docs/NOSTR-PUBLICATION.md:320-327`).

Six runs end in a counterexample. Each states one sentence of a document or
a comment that the code does not keep, quoted in `findings`:

* `fee_in_force`: a profile that arrives late, between a kept version and a repeat
  that was dropped, and nothing archived says that the profile changed back;
* `resume`: a replay cut short leaves a gap behind the cursor;
* `rejoin`: a relay that came up late is not dialled while the stream lasts;
* `stale_skip`: what a run that failed left on the relays is not known to the next
  one;
* `first_week`: an archive that begins before the first Monday of a month has a week
  that no weekly partition shows;
* `late_floor`: a report reads the coverage after its rows, and prints zeros for a
  period that an event stored in between has opened.

The models also show these, which no run is spent on.

Collecting: a rebuild from raw empties the table the hourly rule of the rates reads,
and lets an ingest beside it archive a second snapshot of an hour (`heartbeats.rs:56`,
against `docs/SPEC.md:672`); a redundant heartbeat older than anything seen also moves
`first_seen_at`, though `docs/SPEC.md:675` has it move `last_seen_at`, the cursor "and
nothing else"; an instance that only repeats its profile trails by
more than an hour after a rebuild (`docs/SPEC.md:680`); two names in one second depend
on the order of arrival, though `instances.rs:31` promises the same row; a page shorter than `WINDOW_LIMIT` from a
relay that caps its replies lets the walk step past a second with no warning
(`backfill.rs:267`); backfill records kinds it never asked for, and those of relays
that failed (`backfill.rs:389`, `indexed_kinds.rs:1`); a publisher proven on a later relay
of a run is not asked for its untagged kinds on an earlier one; a priming pass cut
short by its time-out has moved the cursor past what it did not read (`sync.rs:342`); a
relay list another process stored first is a duplicate to the sync, which then does not
dial what it names (`sync.rs:43`); a relay that refuses the subscription others take
(`client.rs:347-358`), or closes it (`client.rs:490`), is not followed, and nothing says so;
a relay that caps its replay leaves a gap behind the cursor that no later run asks for;
`deploy/replicated.sh:28` has sync start "from roughly now" and `sync.rs:12` from the
first event a relay holds.

Publishing: an index goes to a relay that refused a document it names
(`docs/NOSTR-PUBLICATION.md:496`); the revision of a failed run is used again for
other figures (`docs/NOSTR-PUBLICATION.md:507`); after a run that failed, one
in the same second or with a clock set back is refused by nobody, since the guard of
`publish.rs:211` looks at recorded runs, and where the index of the first got through it
stays; an
event stored between the load and the count is put down to a rebuild
(`restatement.rs:150`); the families of a snapshot are read in no transaction
(`publish.rs:29`).

Figures: a window document ends, half-open, at the archive's latest event, so that the
newest event is never counted, and a snapshot of an archive that has not moved restates
few of its windows, though `docs/NOSTR-PUBLICATION.md:137` has them "relative to the
publishing moment" and "perpetually restated"; `heartbeats.rs:18` calls an hour "far finer than
anything the rate lookup values an order at", which is five minutes (`rates.rs:20`);
`Timing`'s `unknown_origin` and `regressed` count orders that the narrowed load of
`stats timing` leaves out (`timing.rs:154`; `LoadedEnough` is about the other figures);
two instances of one name are not told apart by `--instance`, and the first is taken
(`range.rs:176` promises that of no prefix), and a name that is what another's pubkey is
spelt like is taken for it when its bearer was seen first (`range.rs:208`, where `range.rs:156`
has "Use a pubkey to disambiguate"): `AnswersAgreeCorrect` excludes it; a market counts methods of an order's first
version and currencies of its latest (`market.rs:157`, against `activity.rs:52`); the
`created_at` an order claims may lie before the archive's floor.

### Bounds

Every scenario has one to seven events, chosen for the case: ties of
`created_at`, events in reverse order, both sides of an hour (`RATES_BUCKET_SECS = 2`
for 3600), a second that overflows a page (`WINDOW_LIMIT = 3` for 500), events the
overlap reaches and events it does not (`Overlap = 1`). All order of arrival,
repetition and failure is left to the model checker. `Horizon` bounds timestamps.
One ingester suffices for the table properties because an ingest is one
transaction; `trust` has two because the vouching query is outside it. `bestiary`
goes without a rebuild from raw, which does no more to names than the other one, and
`rates` without the other, which leaves the rates alone. In
`sync`, `lists` has two relays, `strangers` and `walked` a backfill beside the sync,
`strangers` a rebuild from raw too; in `orders` relays leave one event out of a replay
(`MaxWithheld`).

`backfill` has four relays in a chain of lists and two rounds of discovery
(`MAX_DISCOVERY_ROUNDS = 2` for 3), one too few for the last link; one publisher is
listed, one proven by the relay that holds its list and one elsewhere. A run is of
everything or of relay lists alone. At most one relay is down at a time, of the two in
the middle of the chain, changing between relays, and at most one walk of a run fails
or steps past an event (`MaxShort`): these are enough for each of the ways a relay or a
kind is left out.

`MaxRuns` bounds the publications: three let a run be recorded, another fail and a
third come after both. In `relays` their clocks are any of `Clocks` that the guard lets
pass, in the other scenarios they go up. `relays` sends the window document alone to two relays that answer
differently; `prune` has both documents, one relay, rebuilds, pruning and a release;
`restatement` has an archive whose coverage recedes and returns while everything
that is sent is taken.

In `figures` a day has two instants and a week two days; the months have 4, 6, 4 and 6
instants, so that one is shorter than the next and weeks span them; the clock shows 9
and 13, in the second and the third. `I64_MAX = 9` and `FLOAT_MAX = 40` are
passed by sums of the `volume` scenario, `MAX_AGE = 3` and `DEAD_AFTER = 5` by the quotes
of `rates`, `MAX_BUCKETS = 6` by a daily series. Each scenario has two to seven events and
the questions its figures answer; in `market` one event may come in between the load of
a command and its report; in `address` a client changes one segment of the address of
any document of the snapshot.

Once the runs are used up nothing more can be published, so the publication's cfgs
turn deadlock checking off; every other run checks it.
TLC's coverage shows every conjunct of every action reached, except the refusal in
Sync's `Ingest` on the way from a subscription, which `NothingRefused` rules out.
No symmetry is used: the constants are small and ids are ordered.

### Fairness

`pipeline`, `walk`, `sync` and `rejoin` assume weak fairness of the process's own
next step: a rebuild, a walk and a sync are loops
that go on as long as the process runs and the relay client bounds every wait
(`CONNECT_TIMEOUT`, `FETCH_TIMEOUT`, `PRIME_TIMEOUT`). In Sync that is `Loop`, which no
delivery and no end of a replay is part of. Nothing is assumed of relays,
ingesters or operators: no relay must come back, send or answer, no event must arrive.
Where a property needs a relay to stay up, or a run not to be stopped, it says so.

## The proofs

`tlapm` checks them for every set of events, publishers, relays, ingesters, clocks and
calendars that satisfies the named assumptions of the modules (`EventsAssumption`,
`ConstantsAssumption`, `PolicyAssumption`, `RowsAssumption`, `ViewAssumption`,
`WalkAssumption`, `BackfillAssumption`, `SyncAssumption`, `PublishAssumption`,
`NoneAssumption`, `CalendarAssumption`, `LedgerAssumption`, `AddressAssumption`,
`SeriesAssumption`, `LettersAssumption`, `FiguresAssumption`,
`QuestionsAssumption`). They say that tables are finite, that timestamps and sats are natural numbers (the parsers refuse a negative one), that events
have distinct ids, that an order has one of the statuses and directions a parser makes,
that `None` is no row, timestamp, name, scope or bucket, that events and the windows looked at lie
inside the calendar (chrono's ends a quarter of a million years off), that its years
have four digits, as the grammar of addresses has, that no two pubkeys are spelt alike, and
that `instance` is given the instance the command line requires of it. TLC evaluates each of them on the runs.

Sums, counts and divisions over archives of any size are proved from two
facts of NumberFacts, `NumbersBySteps` and `SetsBySteps`: a *set* of numbers, or of
subsets of a finite set, that is closed under one more step holds them all. The induction
theorems of the library take a predicate as a parameter, which the provers cannot
instantiate; a set they can. From them come `AddedUnion`, `AddedParts`, `CountedParts` and the other lemmas on
`Total`, and `DividedParts` and `DividedIs` on `\div` and `%`.

Pipeline (PipelineProofs):

* `TypeCorrect`: `TypeOK` is inductive once the operators of Tables are shown to return
  rows (`ProjectOrderType`, `UpsertInstanceType`, ...).
* `TrustCorrect`, `VouchedRelaysCorrect`: `VouchedArchive` and `VouchedRelays`. Not
  inductive alone: `TrustInv` adds that every version and every event between the two
  reads of an ingest is backed by the archive, which only grows (`ArchiveGrows`); a
  rebuild from raw may empty the table the vouching query reads, never the archive.
* `CursorCorrect`: `CursorBacked`, with `TypeOK`.
* `DerivedCorrect`, `DuplicateFlagsCorrect`: `DeriveInv` says, for each program
  counter of a rebuild, which archive rows may still be missing from the version
  tables (`VersionsInv`: those left to replay) and which projections may still be
  out of date (`OrdersInv`, `DisputesInv`: those left to sweep). An ingest beside
  the rebuild preserves it because it refreshes what it touches.
* `RefinesArchive`: `ImplementsArchive`. The initial state maps to one of Archive
  (`InitMapped`), and under `DeriveInv` and `TrustInv` each step maps to `Learn`,
  `Withdraw`, `Restore`, `Release` or a stutter (`NextMapped`): what is shown is
  the view of the archive (`ShownIsView`), and what is learnt was admissible
  (`JobAdmissible`).
* `BestiaryCorrect`: `Bestiary`. `BestiaryInv` says, for each program counter of a
  rebuild, that a row of `instances` and a date of `instance_names` only report events
  that happened, and cover all but the events left to replay.
* `FirstOfRunCorrect`: `FirstOfRunKept`, inductive with `TypeOK`.
* `OneRateCorrect`: `OneRatePerHour`, for both modes of rebuild. Retention looks for the
  hour's snapshot in the version table; a snapshot archived while that table lacked one of
  the archive's is in `overlooked`, and any other was compared with all of them.

Relays (WalkProofs, BackfillProofs, SyncProofs):

* `WalkTypeCorrect`, `WalkComplete`, `WalkMoves`: `WalkInv` adds that a page is the
  newest part of its window (`OnPage`) and that every event at or above the bound was
  ingested or lies in a second that was stepped past (`Accounted`).
* `BackfillTypeCorrect`: `TypeOK`, with the connection set and the sequence of kinds.
* `WalkedThroughCorrect`: `WalkedThrough`, for every graph of relays. `GivenInv` says
  what the relay being walked has given up to the kind it is at; it holds because the kinds that
  vouch are asked for before those that need vouching (`RunsOrdered`, `VouchersFirst`),
  and because whatever the pipeline drops repeats something it keeps, in whichever order
  it is handed the events.
* `NamesFollowedCorrect`: `NamesFollowed`. `NamesInv` ties the round a name was heard in
  to the rounds in which it is dialled.
* `SyncTypeCorrect`: `TypeOK`.
* `NothingRefusedCorrect`: `NothingRefused`, with or without a backfill and rebuilds from
  raw beside the sync.
  `SubscriptionInv` follows a publisher's filter from the moment it is vouched for to
  the last event it delivers (`VouchedInv`, `CarriedInv`, `PrimingInv`, `FollowingInv`).
* `DiscoveredCorrect`, `CaughtUpCorrect`: `Discovered` and `CaughtUp`, with or without a
  backfill beside the sync. `CatchInv` relates the three things an event may hide behind:
  the cursor, the bound a subscription was opened with and the queue it is delivered from
  (`CursorInv`, `BoundInv`, `OrderInv`, `BehindInv`, `AskedInv`), and says that whatever
  is behind one of them and was never handed over is in `Lost`.

Publication (PublishProofs):

* `PublishTypeCorrect`: `TypeOK` from `Typed`, which also types the run under way.
* `CeilingLoadedCorrect`: `CeilingLoaded`; `LoadInv` says that the event at the ceiling is
  among the rows loaded or of a kind yet to be loaded, as long as the run saw nothing
  archived that was not projected.
* `RevisionCountsCorrect`: `RevisionCounts`; `RunInv` says that the rows a run carries
  from its decision to its record follow the recorded ones.
* `IndexPromiseCorrect`: `IndexPromise`, for every clock the guard lets pass. The code
  compares its clock with the runs it recorded only, and a relay keeps the newer of two
  events of one address. `ClockInv` dates the indexes that relays serve: by a
  recorded run, the run under way, or no later than `stray`; `PromiseInv` says that what is recorded or about to be is served,
  except where a run no later than `stray` has replaced it.

Statistics (FiguresProofs):

* `EndIsFinalCorrect`: `EndIsFinal`, an action property; the archive only grows
  (`RowsGrow`), and the first time a status was seen does not move when all that comes in
  is later (`EarliestStays`).
* `NoHindsightCorrect`: `NoHindsight`. The newest quote depends on the snapshots that
  could price the order alone (`SameNewest`), and when there are any it is one of
  them (`NewestUsable`): the order of the book leaves no two apart.
* `BucketsPartition`: for every calendar, whatever the lengths of its months, the buckets
  of a window between two openings leave no instant of it out, put none in two of
  them and hold nothing outside it. No run states this by itself; it is what
  `ColumnsAddUp` needs of the calendar, for day, week, month and year alike.
* `SightedOnceCorrect`: `SightedOnce`, from `BucketsPartition`.
* `WindowParses`, `SeriesParses`, `SpelledExactly` (lemmas): an address of the grammar parses back from
  its text, for every scope and bucket, and a text that parses is the text of what it
  parses to.

Reports and documents (ReportsProofs):

* `FiguresTypeCorrect`: `TypeOK`, inductive with the fields of a command under way
  (`Asking`).
* `ColumnsAddUpCorrect`: `ColumnsAddUp`. Each tally is the size of a set of orders,
  disputes or fees, or a sum over one, and each element has one date; buckets that
  partition the window (`BucketsPartition`) partition these sets.
* `PaidOnceCorrect`: `PaidOnce`. Of the fees of an order one is the first, and it alone
  is not a duplicate; it falls on one day.
* `CurrenciesPartitionCorrect`: `CurrenciesPartition`. An order has one latest currency, one
  direction and one size; a currency that is left out has nothing to add.
* `LoadedEnoughCorrect`: `LoadedEnough`. What a figure reads of an order that the load
  leaves out is nothing: its completion lies outside the window, or no version of it in it;
  no snapshot older than `MAX_AGE` prices anything.
* `NeighbourComparedCorrect`: `NeighbourCompared`. `BackMonths` lands in the month before,
  at a day it has; so the shifted bucket ends where the bucket begins, or before.
* `EventsPlottedCorrect`: `EventsPlotted`. Months and years partition the instants, a
  published partition is that of an instant between floor and clock, and its rows
  partition it; weeks are whole and open in one month.
* `OnlyEventsMoveFiguresCorrect`: `OnlyEventsMoveFigures`, **if every kind but orders and
  rates was asked for** (`OthersAsked`, as `sync.rs:499` records of every kind it has a filter
  for). Windows and partitions end at the last event (`WindowStill`, `PartitionsStill`), and
  the figures in them read nothing of the clock; only the book of an archive without a
  floor would be read from the clock on, and without a floor there is nothing to price
  (`NoFloor`, `QuotesStill`).
* `AddressesParseCorrect`: `AddressesParse`, from the type invariant, and from the documents of a
  snapshot having addresses of the grammar (`DocumentsAddressed`).
* `AnswersAgreeCorrect`: `AnswersAgree`, **if no instance calls itself by what another's
  pubkey is spelt like** (`NamesApart`). What was
  last reported is the answer to its question over the archive as it is (`Traced`). The
  scope of an instance loads the slice of what the wider scope loads (`OrdersOf`,
  `DisputesOf`, `FeesOf`), so each command reports of a slice what it reports of the instance
  (`SliceAgrees`). The list of known instances ranks them by first sight and names
  each once (`EachHasAPlace`), so the spelling of a pubkey means its instance alone
  (`SpellingMeansOne`). Every order is of one profile, so the comparison adds up to the summary
  (`CompareShares`), and in one bucket of a drawn series, so its points add up to the orders
  (`SeriesAdds`). A series that is an error instead of a plot has no other wording.

Only model-checked:

* liveness (`RebuildEnds`, `WalkEnds`, `Settles`): fairness and ENABLED are
  outside what tlapm proves. Every invariant and every action property of a passing
  run has a theorem.

## What is not modelled

* Parsers: each is a pure function of one event with unit tests of its own. The
  pipeline is given what they read, and that they may not read an event.
* The envelope of a document, its size in bytes and its signature, and the NIP-11
  request: encoding, cryptography and one HTTP call. A document over the ceiling is
  one of the ways a publication fails.
* The rendering of reports as tables, JSON or columns: layout of figures that are
  modelled, with no state.
* Configuration and command line, whose values are the constants; migrations, among
  them the one that thins an existing archive once; the shell of the deployment.
* The sdk under the relay client, which is modelled by what the client relies on.
* The branch of `prime` for a stored relay list (`sync.rs:411-416`): a priming pass asks
  for the tagged kinds alone, and a relay list carries no tag.
* Two publications at once: the deployment's worker runs one.
* A backfill and a sync sharing a cursor: `Pipeline` has the cursor and several
  ingesters, `Sync` a backfill that stores events beside it; that an interrupted backfill
  moves the cursor a later sync resumes from is `overtaken` in Sync, and what `resume` shows
  for a replay.
* The relay lists among the rows of Figures: no figure reads them.

## Plan

Done: Pipeline with rebuild, Walk, Sync, Publish; Backfill with rounds of discovery; the
abstract Archive and its refinement; the statistics, reports, documents and addresses;
the proofs above, which leave no invariant to the model checker alone.

Left: two publishers at once, should the deployment ever run them.
