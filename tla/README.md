# KLA-Sync in TLA+

KLA-Sync monitors radio stations and venues: edge devices capture audio and send landmark
fingerprints, the server matches them against a catalog, reviewers decide the candidate
detections and settle disputes, and royalties are computed from split sheets and paid out.
This directory specifies the parts of it that keep state under failure and concurrency,
model-checks them with TLC and proves the main results with TLAPS.

## The system

| Component | State | Operations | Talks to | What is hard |
| --- | --- | --- | --- | --- |
| Edge capture spool (`ingestion/edge.py`) | SQLite table `capture_outbox` | enqueue, claim, acknowledge, retry | server, through a `ChunkUploader` | power loss between two commits, backoff order, unlocked read in `mark_retry` |
| Chunk ingestion endpoint (`ingestion_api/`) | `capture_chunks`, `detection_events`, `audit_events`, a replay cache per process | verify, parse, ingest | devices, landmark index, PostgreSQL | concurrent retries, rollbacks, duplicated requests, restarts |
| Review and dispute service (`review/`) | detection status, disputes, audit trail | decide, open and resolve a dispute | portal users | sequences of users and roles; concurrent decisions on PostgreSQL |
| Catalog (`catalog/`, `http_api/`) | parties, recordings, works, split sheets, idempotency keys | onboard, activate a split sheet | operators, browser clients | batches that fail halfway, retries, restarts; deferred triggers under concurrent edits |
| Database guards (`migrations/001`, `003`) | royalty runs, allocations, payouts | triggers | every writer | checks that run once, at insert or at commit |
| Royalty calculator (`royalties/`) | none | split a gross amount | command line | exact rounding |
| Landmark index (`matching/`) | Redis buckets or Python dictionaries | enroll, remove, query | ingestion | re-enrolment during a query, two writers |
| Migration runner (`db/`) | the ledger table | plan, apply | PostgreSQL | interruption, two runners, several checkouts |
| Mobile money (`integrations/`) | submitted instructions | dispatch | providers | retried dispatch |
| Shadow monitoring (`shadow/`) | none | reconcile, score, report | station logs | one-to-one matching |
| Audio (`audio/`) | none | decode, fingerprint, segment | - | signal processing |

What makes each correct: the spool never forgets a chunk and never takes back an
acknowledgement; the endpoint ingests a chunk once and tells the truth about it; device and
server agree on the receipt; a detection is held exactly while it is disputed, and its audit
trail tells its story; an active split sheet totals exactly 100 %; a document is stored as a
whole or not at all, and a retried one creates one catalog; only verified detections are paid, and allocations add up to the amount; the index
holds the landmarks of the current version of each track and nothing else; the migration ledger
tells what the schema went through; plays and reports claim no more than their evidence.

`PROJECT.json` lists every component with its status, and every hazard with its line.

## Modules

| Module | Models | Kind |
| --- | --- | --- |
| `Outbox` | what the spool promises | abstract specification |
| `EdgeSpool` | `EdgeSpool` and `flush_one` | component |
| `EdgeSpoolProofs` | theorems about `EdgeSpool` | proofs |
| `Ingestion` | the ingestion endpoint | component |
| `EvidenceLedger` | what device and server promise together | abstract specification |
| `Delivery` | spool, network and endpoint | composition |
| `DeliveryProofs` | theorems about `Ingestion` and `Delivery` | proofs |
| `DetectionLifecycle` | the documented life of a detection and its table of roles | abstract specification |
| `Review` | `ReviewService` on the in-memory store | component |
| `ReviewProofs` | theorems about `Review` | proofs |
| `ReviewPg` | `ReviewService` on `PostgresReviewStore` | component |
| `ReviewPgProofs` | theorems about `ReviewPg` | proofs |
| `SplitSheets` | split sheets in PostgreSQL under the browser role | component |
| `SplitSheetsProofs` | theorems about `SplitSheets` | proofs |
| `CatalogService` | the catalog server over the in-memory store | component |
| `CatalogServiceProofs` | theorems about `CatalogService` | proofs |
| `OnboardingDocument` | the document parser and the rows of a document | pure algorithm |
| `Royalty` | `RoyaltyCalculator` | pure algorithm |
| `Segmentation` | `DJMixSegmenter` behind the signal processing | pure algorithm |
| `Reconciliation` | `reconcile_with_station_log` | pure algorithm |
| `ShadowReport` | `generate_report`, over `Reconciliation` | pure algorithm |
| `Migrations` | `plan_migrations`, `run_migrations` | component |
| `Commands` | the commands over the algorithms, beside `Migrations` | composition |
| `CommandsProofs` | theorems about `Migrations` and the payouts, mixes, reports and documents of `Commands` | proofs |
| `LandmarkIndex` | the Redis index, the in-memory index, queries | component |
| `LandmarkIndexProofs` | theorems about `LandmarkIndex` | proofs |
| `MC*` | finite instances, symmetry | model checking |

### Edge spool

`status`, `attempts`, `wait`, `created` and `receipt` are the columns of `capture_outbox`;
`wait` is `next_attempt_at` minus now. `worker` is the program counter of each worker inside
`flush_one`. Each SQLite transaction is an action, except that `mark_retry` reads outside a
transaction and is two (`ReadAttempts`, `WriteRetry`). `Crash` is a power loss or an SQLite
error at any point. The reference deployment has one worker; the code claims atomically
and the model lets several share the spool.

`attempts` is counted up to `MaxAttempts`, where the backoff has reached its cap, so the bound
changes no delay (assumed as `AttemptsAssumption`). `mark_retry` caps its own backoff at six hours
and takes a `retry_after` of its caller as it is (`ingestion/edge.py:291`): `RetryAfters` is any set
of durations, and `TypeOK` says that no row waits longer than six hours unless a caller asked
for it.

### Ingestion

One server process is one element of `Handlers`: it serves a request at a time and owns a
connection and a replay cache. `Receive` is `verify_request`; `LookUp`, `Insert` and `Commit`
are the statements of the transaction as READ COMMITTED lets others see them; `Abort` is any
error after the insert; `Restart` loses the transaction and the cache. The UNIQUE index makes
a second insert of the same chunk wait and then fail. A request identifies device, timestamp
and body, which is what replay protection keys on. The number of candidates is any number up to
`MaxCandidates`.

### Delivery

`Delivery` composes the two through a network that loses, duplicates and delays requests and
loses responses. It extends `Ingestion`, whose requests are those the device signs, and
instantiates `EdgeSpool`; what both would name is prefixed with `System`. A worker waits on one
request; a response reaches the worker that waits on it or nobody. A request is sent once more as
a new one when nothing in the system refers to the old one (`Dead`), so that the supply of
requests is no bound on the attempts. At most `MaxFaults` faults happen: losses and duplicates on
the network, rollbacks and restarts of a server, power losses of the device.

### Review

`Review` treats each service call as one action, as in the reference server, which is
single-threaded. `ReviewPg` splits `decide` and `open_dispute` at the points where other
connections can act: the read, the dispute insert (which waits on the partial unique index),
the update (which waits on the row lock), and the end of the transaction.
`PostgresReviewStore` has no `get_dispute`, so `open_dispute` always rolls back and
`resolve_dispute` fails before it touches anything.

`DetectionLifecycle` is the documented life of a detection with the documented table of roles.
The rule beside that table, that who triages a detection does not adjudicate the dispute about it
(`docs/reviewer-dispute-dashboard.md:20`), is `DutiesSeparated`, and it fails (`ReviewDuties`).

On PostgreSQL the audit trail has no order: a row of `audit_events` has a random id and, as
`occurred_at`, the time at which its transaction began (`001_core_schema.sql:606`), and
`write_audit` gives neither. `audit` is therefore a bag, the number of committed events of each
kind, and `TrailMatches` says what such a trail tells: a detection is a candidate exactly when there
is no event, and otherwise some event names its status. When two decisions raced, the trail does
not tell which of them stands.

What the model shows beside its properties: `DecisionsBounded` is tight. Two requests that read
the same candidate both decide it, and the second overwrites the first, although
`decide` refuses anything that is not a candidate (`review/service.py:112`).

`usage` is the `royalty_usage_items` row of each detection. The trigger of
`003_integrity_guards.sql:129` admits a detection by its committed status and is the only check
there is (`EnterRun`); the settlement commits or rolls back later (`EndRun`), and the foreign
key's lock does not hold up an update of the status. The program that settles is not in the
repository; when it inserts is therefore left open. `PaidWasVerified` says what this single
check guarantees: what entered a run was verified by somebody, and a detection that was decided
once only is verified still. It is also as much as it guarantees: of two decisions that race, the
first may be paid for and the second reject the detection.

### Split sheets

`SplitSheets` is about the rows and triggers of `001_core_schema.sql` under the policies of
`002_supabase_rls.sql`: what browser clients may do, since no program of the repository reaches
these tables (see below). `status` and `total` are the committed rows of `split_sheets` and the
sums of `split_lines`; `session` is the transaction of each connection, which is one statement, the
deferred trigger (`Verify`) and the commit. Editors insert drafts, delete them, and add, remove and
move lines of drafts (`EditLine`, `MoveLine`); administrators set any status (`SetStatus`) and
delete any sheet. `InsertSheet` and `DeleteSheet` are whole transactions: the trigger refuses nothing
they do but an active sheet without lines. Totals are counted in units of which `Whole` make
10,000 basis points, up to `MaxTotal`.

Two history variables tell the property what the database does not keep: `raced` (the last commit
on the sheet was by a transaction whose check was out of date, `stale`) and `moved` (a line left
the sheet while it was active). Both are gaps of the triggers, against the comment in
`001_core_schema.sql:209`. An edit that began on a draft and an approval check and then commit: each check
reads what is committed, and an active sheet is not 100 %. And when a line moves to
another sheet, the trigger looks at the sheet it enters only (`001_core_schema.sql:224`), so that the
one it leaves, approved meanwhile, is never checked, even when nothing overlaps the check.
`CheckedTotal` says that there is no other way.

### Catalog server

`CatalogService` is the catalog server over `InMemoryCatalogStore`. It serves one request at a time,
but a batch is many inserts, any of which may fail: `Begin` takes the copy of the store that
`transaction` makes, `Insert` is one `create_*` call, which puts the copy back when an identifier is
taken, and `Finish` writes the audit event and the response under the key. `Activate` is the
approval of a sheet, a transaction that either fails at once or changes everything at once. `Restart`
empties the store. `store` is a record of what the dictionaries hold: rows, active sheets, the
catalog of each key, and the number of audit events. A catalog is named after the request that made it.
No approval supersedes another sheet here: a document has one sheet for a right and an asset
(`catalog/models.py:522`), and its assets are new.

Over PostgreSQL there is nothing to model. Every method of `PostgresCatalogStore` enters
`self._cursor(tx)` (`catalog/store.py:579` to `948`), and neither the class nor a base class
defines `_cursor`: the first call raises `AttributeError`, the transaction rolls back, and the
server answers 500 to every document that parses and to every activation. None of the store's SQL
is therefore executed: neither the idempotency table of migration 004 nor the statements that retire
the predecessor of an activated sheet. Once `_cursor` exists, differences between the stores begin to
matter that cannot be observed now: `SMALLINT` columns for display orders and track numbers
(`001_core_schema.sql:134`, `143`, `151`) where the parser accepts any integer, durations rounded by
`NUMERIC(10,3)`, unique links and track numbers that the in-memory store does not check, and UPCs
that are unique within a catalog in the one and over all catalogs in the other.

### Onboarding documents

`OnboardingDocument` follows one document from the parser to rows. An item's field-by-field
checks are one Boolean; what the parser compares across items (local ids, references, shares,
duplicates) is modelled in full (`Accepted`). `Rows` are the inserts of `_persist`. A row carries its
place in the program (the loop of `_persist`, the item, the list of the item, the position on it),
the unique entries it takes and the ids it needs; `Earlier` is the order of the
places. An insert ends well or in an answer (`Refusal`), which depends on what the store held and on
the rows before it; the first one refused ends the transaction (`Transaction`), and the batch leaves
nothing. Nothing in this is recursive, so that it can be proved about. `DocumentsWhole` compares
the answers to two documents with what their identifiers alone call for.

### Landmark index

`bucket`, `trackkeys` and `count` are the Redis keys of `RedisLandmarkStore`; `writer` and
`reader` are the clients, which may interleave, and a writer may die, between any two calls. A
pipeline is MULTI/EXEC and one action; the SSCAN calls before it are separate. `memory` is the
in-memory index, to which each replacement is applied where it takes effect in Redis, and
against which Redis is compared (`IndexPrecise`). Its lists are sets of occurrences, and a removal
goes over the buckets of the registered landmarks only, as in the code. No fingerprint is
empty (`FingerprintsAssumption`): `register` refuses one. `QueriesAssumption` says what `vote_candidates`
accepts. A query is one SMEMBERS per bucket in the
order of `vote_candidates`, then one HGET per candidate; `Answers` are its possible results:
Redis returns sets, so which occurrence of a bucket counts as the reference is not
determined. `match` of the in-memory index is the same computation over its own buckets.
`AnswersRight` compares a result with the definition of a vote (`TrueVotes`). `Sorted` puts a finite
set in order by counting what comes before each element.

Two writers of one track (two workers enrolling the same recording) break the index for good: the
`remove` of one reads the track's keys and scans the buckets, the other's pipeline adds, and the
first's pipeline then deletes the keys of landmarks it leaves behind, which no later removal
finds, although `matching/store.py:109` speaks of deleting them "precisely". `overlapped` collects
such tracks, and both properties leave them out. A query that overlaps the replacement of
a track sees parts of two versions or none; `AnswersRight` leaves these tracks out of the
comparison and no others.

### Migrations

A release is a sequence of file contents, and `directory` the release that is checked out.
`ReadLedger` and `Plan` are the two reads of `plan_migrations`; the plan carries on with the
release it read, while other runners, other checkouts and crashes may intervene. The
statements of a file and its ledger row are one transaction (`Execute`, `Commit`); the primary
key of the ledger makes the second of two runners wait and fail. `schema` counts how often each
file took effect, so that `LedgerTellsSchema` can compare it with the ledger. The files' own
statements could fail where they clash with what is there; that is `Execute`'s failing branch.
Files are numbered without gaps, as `validate_migrations.py` and the runner's discovery demand.

### Commands

`Commands` puts the algorithms behind the command line. One action is one run of a command, with
its input and output in `job`; the properties compare the two with definitions that do not follow
the code. Times, amounts and confidences are whole numbers; `Royalty` counts in
exact fractions of the settlement unit, so its results are the exact ones as long as `Decimal`'s
28 digits suffice. A quantum of several units passes the constructor and rounds like a
quantum of one (`quantize` looks at the exponent only), and then mostly fails the final sum
check: `PayoutExact` says that it never ends in a wrong sum. `ReportTrue` says that a logged play
confirms a candidate exactly when it corroborates it, except that of an ISRC logged twice only the
last entry is looked at (`shadow/reconciliation.py:124`). Where the code takes the first of a
Python set, every choice is followed. A play is named by the position of its payload, so a chunk
that is in the input twice is two plays, and the decisions file may hold any status: one that is not
documented is counted in no column of the scorecard and as an outcome "candidate"
(`shadow/service.py:194`), so the columns are the whole of the plays only without one.

`CommandsSpec` interleaves all of them freely, and is what the theorems are about. The commands
share no state with each other and with migrations, so the model that TLC runs (`MCSpec`) lets a
behaviour either migrate or compute once. `PayoutsAssumption` is what the data classes of the
calculator check when they are built: no negative amount or weight, shares between
0 and the whole, a positive quantum. `WeeksAssumption` says which inputs of a report are lists, and
`MixesAssumption` what `MatchWindow` and `SegmenterConfig` check: no negative time or threshold,
windows that go forward; a novelty is a sum of quantities that are not negative.
`DocumentsAssumption` says which parts of a document are lists.

In `Segmentation` Python's stable `sorted` is `Sorted`, over keys that end in the position where
two may be equal. Windows in order of time and boundary proposals in order of time are grouped
by the same loop (`Clusters`): a cluster is a range of positions and the end of what it covers, and the
next span joins it when it starts within the gap of that end. `PlaysAreEvidence` compares the
plays with the windows second by second, and never with clusters.

## Runs

| Run | Bounds | Checks |
| --- | --- | --- |
| `EdgeSpool` | 3 chunks (one always refused), 2 workers, backoff 2, 3 ticks | types, exclusive claims, final acknowledgements, refinement of `Outbox`, queued chunks settle |
| `EdgeSpoolPowerLoss` | 2 chunks, 1 worker | finding: a crash strands a claimed chunk |
| `Ingestion` | 3 chunks (one malformed), 4 requests, 2 processes | types, answers match the database, ingested once, receipts final |
| `Delivery` | 2 chunks, 2 request slots for each, 2 processes, 1 fault | types, what is acknowledged is stored, refinement of `EvidenceLedger` |
| `DeliveryLive` | 1 chunk, 3 faults | captured and ingested once, queued chunks settle |
| `Review` | 2 detections, 2 disputes, 4 users of different roles | types, hold, audit trail, refinement of `DetectionLifecycle` |
| `ReviewDuties` | the same | finding: one user triages a detection and settles its dispute |
| `ReviewPg` | 2 detections, 2 connections | types, the trail names the status, bounded races, only verified detections are paid, every request ends |
| `SplitSheets` | 2 sheets, 3 connections, totals 0 to 2 with `Whole` 1 | types, checked totals |
| `CatalogService` | 6 requests, 5 documents (one malformed), 3 identifiers, 2 keys | types, unique identifiers, batches whole or absent, true answers, only a restart loses |
| `LandmarkIndex` | 2 tracks (4 versions), 2 writers, 2 queries at 2 tempos | the index is precise, answers are right |
| `Commands` | 2 runners, 3 files, 4 releases; 4 families of inputs | ledger and schema agree, no hole in the chain, exact payouts, plays by evidence, true reports, documents stored whole |

Why the bounds are enough: the conflicts are between two parties over one row, and every run
has two parties and at least two rows (so that one can be confused with the other); with three
connections on two sheets an edit, a move and an approval are under way together, and
a unit too many or too few of one unit stands for any wrong total; the backoff
runs reach the cap; the request slots of `Delivery` are recycled, so the number of attempts is not
bounded. The six requests of `CatalogService` are a POST, its retry, another document under the same
key, a batch that clashes with the rows of another after its first row, one that clashes with
itself, and one that is refused; two of the sheets may be approved and one may not. `LandmarkIndex` is followed up to
the step with which a second writer joins another at one track, or with which all tracks of a
query were touched (the constraint `UpToOverlap`): nothing is claimed of that track or that query
afterwards, and queries change nothing;
its queries shift and scale against both versions of a track, with ties and a full list. The
releases of `Commands` extend each other, leave a file out, edit an applied file and need
an environment; its windows nest, touch, leave gaps on both sides of the limit and run past the
end; its gross amounts have every remainder; its documents differ from a plain one in each
place where the parser or a store looks. Every property of a passing run has a mutant in
`PROJECT.json`: a plausible bug in the modelled code that makes the same run fail.

`CHECK_DEADLOCK FALSE` appears only where the system can stop for good: the spool when all
chunks are uploaded or stranded, `Review`, `SplitSheets` and `CatalogService` when the finite
supply of disputes, sheets and requests is used up, `Commands` after a computation, and
`LandmarkIndex` at the edge of its constraint.

## Fairness

- Device: the daemon calls `flush_one` again and again, so a worker's own steps are weakly fair;
  the clock advances, but not while a worker could claim a row (`Prompt`: a flush is far
  shorter than the smallest backoff, 30 s). Uploads end one way or the other because HTTP
  clients time out. In `EdgeSpool`, which has no server, delivery of a chunk that is not
  refused is strongly fair.
- Server: a process goes on with a request it accepted, and its response leaves. Rollbacks,
  restarts and losses are never required.
- PostgreSQL: a transaction that can go on does; lock queues are served, so a statement that can
  run again and again is run (strong fairness on the two waiting statements).

## Proofs

| Theorem | For every |
| --- | --- |
| `EdgeSpoolProofs!TypeCorrect`, `ClaimsAreExclusive`, `AcknowledgementIsFinal`, `SpoolImplementsOutbox` | set of chunks and workers, backoff |
| `DeliveryProofs!TypeCorrect`, `AnswersAreTrue`, `EachChunkIngestedOnce`, `ReceiptIsFinal` (the endpoint alone) | set of chunks, requests, processes |
| `DeliveryProofs!SystemTypeCorrect`, `AcknowledgedAreStored`, `CapturedAreIngestedOnce`, `SystemImplementsLedger` (device, network and server) | the same, and set of workers, backoff, number of faults |
| `ReviewProofs!TypeCorrect`, `HeldWhileDisputed`, `TrailIsFaithful`, `ServiceImplementsLifecycle` | set of detections, disputes, users and assignment of roles |
| `ReviewPgProofs!TypeCorrect`, `TrailIsFaithful`, `RaceEnds`, `PaidDetections` | set of detections, finite set of connections |
| `SplitSheetsProofs!TypeCorrect`, `TriggersGuardTotal` | set of sheets, finite set of connections, whole and bound |
| `CatalogServiceProofs!TypeCorrect`, `IdentifiersAreUnique`, `StoreIsWhole`, `AnswersAreTrue`, `RestartAloneLoses` | set of requests, keys and identifiers, documents with any number of rows |
| `CommandsProofs!TypeCorrect`, `LedgerIsTrue`, `ChainHasNoHole`, `CommandsKeepLedger` | set of runners, of releases and of gated contents |
| `CommandsProofs!PayoutsAreExact` | settlement scale, whole, set of payouts with any number of lines |
| `CommandsProofs!PlaysAreShown` | thresholds, gaps and durations, set of mixes with any number of windows, tracks and frames |
| `CommandsProofs!ReportsAreTrue` | tolerance, set of weeks with any number of sources, payloads and log entries, any catalog |
| `CommandsProofs!DocumentsStored` | set of documents with any number of items, links and lines |
| `LandmarkIndexProofs!RedisIsPrecise`, `MemoryIsPrecise`, `AnswersAreRight` | set of tracks, of fingerprints and queries of any length, of writers and readers, finite set of tempo scales, tolerances, limit |

Assumptions are the named ASSUMEs of each component module: the markers for "nothing" are not
real ids, backoff delays are positive, capped and reach their cap, and a delay that a caller asks for is a number
(`DelayAssumption`, `DeviceAssumption`), the number of
faults is a number (`MaxFaultsAssumption`), roles are assigned to users, fingerprints and payouts
are what the code accepts (`FingerprintsAssumption`, `PayoutsAssumption`), and so are queries, with
tracks as numbers for their order (`QueriesAssumption`); sources, payloads and logs of a week are
finite lists (`WeeksAssumption`), windows, scores and thresholds of a mix are what the segmenter
accepts (`MixesAssumption`), and the lists of a document are finite (`DocumentsAssumption`).

How the arguments go:

- *Spool.* `ClaimsExclusive` is inductive once types are known: a claim takes a row that is not
  `uploading`, and only the worker that holds it moves it on. Finality and the refinement follow,
  because `MarkUploaded` and `WriteRetry` then act on a row that is `uploading` only.
- *Ingestion.* The invariant adds that a transaction that has inserted a row holds a receipt
  nobody else has and that its chunk is not stored, and that two such transactions are on
  different chunks: this is the unique index. With it a commit never overwrites.
- *Delivery.* `SystemInv` puts the invariants of the endpoint and of the spool beside each other
  (`EndpointInv`, `DeviceInv`; the spool's lemmas are restated, since tlapm carries no theorem
  over an INSTANCE) and adds what ties them together: a worker waits only on requests for
  the chunk it claimed (`AwaitsOwnChunk`), only captured chunks are on the network or at the
  server (`OnlyCaptured`), and a receipt the device holds, or is about to store, is the
  one in the database, and so is that of a response it still waits for (`AcknowledgedIsStored`
  and the endpoint's `AnswersMatchDatabase`). Rows are never
  withdrawn, so a late or repeated answer cannot become false. Every step is then a step of
  `EvidenceLedger` or changes nothing it sees.
- *Review.* The hold invariant needs that open disputes refer to existing detections that are
  `disputed`; the trail invariant, that the last event about a detection names its state.
- *ReviewPg.* `DecisionsBounded` counts: a connection that has read `candidate` may still
  decide, and after the first commit no new one can join, so decided plus pending never
  exceeds the number of connections. `PaidDetections` needs `EverVerified`: the trail only grows, so
  that an event the trigger saw the effect of is there for ever.
- *SplitSheets.* Types need counting: the removals under way on a sheet never exceed its total,
  and the additions never pass the bound (`Counts`); `Shape` says what each phase of a transaction
  implies about its sheets. `CheckedTotal` needs `ChecksHold`: until another transaction on the
  sheet commits, what the deferred trigger of this one checked is still true. A commit then either
  is stale, or moves a line out of an active sheet, or leaves a total that was checked.
- *Catalog server.* The invariant says what a transaction relies on (`BatchOpen`): while a batch is
  inserted, the store is the copy and the rows of the batch so far, and the copy is whole and knows
  nothing of the request or its key. Putting the copy back is then the same as never having begun, and
  finishing adds one whole catalog. Answers stay true because a request that was not served has
  no rows (`NothingAhead`), and neither has one that was refused.
- *Migrations.* A plan may be stale when it is applied, so the invariant says what of it cannot
  become so: records are never withdrawn, hence what was recorded when the plan was made still
  is (`PlansHold`); whatever lies before a pending file is recorded or pending too
  (`PendingClosed`); pending files are files of the planned release (`PendingReleased`); and no two transactions are open on one
  file (`OpenAlone`). Then a commit never records a file twice and never before its predecessor,
  although the plan's own check ran on an older ledger.
- *Landmark index.* The in-memory index is precise by itself (`MemoryPrecise`): a bucket holds
  exactly the occurrences of the registered fingerprints. For a track that no two writers were
  ever at together, `AloneOnTrack` says that at most one works on it, and `NothingOverlooked` what
  this one has found: whatever is in the buckets it has scanned is in `found`, and the rest of the
  track's keys is still to be scanned. So its pipeline leaves nothing behind, and Redis agrees
  with memory before and after it. What a query has read of a track that is neither `overlapped` nor
  `touched` is then what memory still holds of it (`ReadersPrecise`): a writer is at its track
  before it changes anything of it. The rest is about the vote alone (`AnswerIsRight`), whatever was
  read of the other tracks: each bucket is looked at once (`OrderComplete`), so the landmarks of
  the query that voted for an alignment are those it aligns by definition (`HitsAreAligned`), and a
  best one has `TrueVotes` (`BestIsTrue`, by `Least`); coverages are compared as fractions, which
  is a strict total order (`AheadOrders`); and in a strict total order of a finite set the numbers
  of what comes before are the positions (`Ranks`), so that the list is complete up to its
  limit (`RankedIsBest`).
- *Payouts.* The calculator is recursive over the lines, and the library's induction theorems
  are out of reach. `Least` takes their place: a set of naturals that is not empty has a
  least element, by the well-foundedness of strict inclusion among finite sets; applied to the
  lengths for which a claim fails, it gives that the recursion of `Total` exists, and that
  `Total` is monotone and linear. `Ahead` numbers the lines without gaps (`Ranking`,
  `FirstInLine`), so exactly `remaining` of them get a unit; the
  floors leave out at least 0 and at most as many units as there are positive remainders
  (`FewRemain`), so nobody gets a unit for nothing. The rest is arithmetic of floors and of
  rounding half up.
- *Reports.* That a matching is right goes through the three indexes of the log: an entry that
  corroborates a play is under the play's recording or key, or it is the last of its ISRC
  (`MatchingIsTrue`). Sums need no recursion: `Sum` counts pairs, and the sizes of the classes of a
  finite set add up to its own because the members of each class are numbered, so that pairs and
  members correspond one to one (`ClassesAddUp`). It is used for the slices (classes of reviewed
  plays), the outcomes (classes of all plays) and the totals (plays by source, `PairsAddUp`). What
  the log's rows add up to is a count of images of the matching (`LogCovered`).
- *Mixes.* `SortedInOrder` turns `Sorted` into a listing: finite set and different keys give each element one
  position, in the order of the keys (by `Ranks`). The loop of `Clusters` is the recursion of a
  function, which exists by `Least`, and its invariant (`Clustered`) says that every span is in
  a cluster, that a cluster ends with one of its spans and none later, that each span after the first
  follows an earlier one within the gap, and that the next cluster starts beyond the gap. Hence a
  window outside a cluster shows none of its play's seconds (`OutsideShowsNothing`), a silence inside a
  play is bounded by the gap (`EventRight`), plays of a track are apart and no long window is lost
  (`TrackEventsRight`). The sweep over a cluster has as invariant that what it has summed up are the
  seconds before its open interval (`Swept`), so `matched` is a number of seconds. Boundaries are
  clusters of proposals: the chosen one is of the chain, and claims an identity if the
  chain does (`MergedChain`), which only proposals from two plays do (`TransitionsPropose`).
- *Documents.* The places of rows are tuples of numbers, so every set of rows has a first one
  (`FirstPlace`, by `Least`), and the answer of a transaction is the refusal at that place
  (`TransactionAnswer`). In an accepted document every row finds what it refers to: the parser looked
  each local id up, and the loops of `_persist` run in the order of the references (`RefsResolve`);
  hence a refused row is a conflict (`RefusalOfRow`). An entry is an identifier that the document
  claims or the catalog's name (`RowEntries`, `ClaimEntries`), so conflicts are identifiers claimed
  twice or held by a stored catalog, and nothing else (`ConflictsMean`). What the first document leaves
  behind are its entries, or nothing (`EntriesMet`, `FirstPosted`).

Only model-checked: liveness (`QueuedSettles`, `RequestsEnd`), which rests on fairness and ENABLED
and is beyond the prover; and the findings, which are counterexamples. Every invariant, action property
and refinement of a passing run is a theorem.

## Findings

1. A crash while a chunk is `uploading` strands it (`EdgeSpoolPowerLoss`).
2. One user, a `catalog_admin`, triages a detection and settles the dispute about it, against
   `docs/reviewer-dispute-dashboard.md:20`; the code compares roles and never persons
   (`ReviewDuties`).

Seen while modelling, and without a run of their own:

- the catalog server cannot run over PostgreSQL, for want of `_cursor` (`catalog/store.py:579`),
  although `catalog/service.py:3` has the same flow run "against PostgreSQL in production";
- on PostgreSQL a dispute cannot be opened or resolved, for want of `get_dispute` (`ReadBack`);
- overlapping deferred checks, and a line that moves to another sheet, let an active sheet miss 100 %
  (the exceptions in `CheckedTotal`), against `001_core_schema.sql:209` and
  `docs/architecture.md:216`;
- two concurrent decisions both commit (the bound of `DecisionsBounded`), a detection that is
  in a royalty run may be rejected by the second (the exception in `PaidWasVerified`), and the
  audit trail does not tell which came last (`TrailMatches`);
- `mark_retry` does not limit a delay its caller asks for (`Delays`);
- a key that was used is answered with its first result, whatever the document (`Replay`);
- two writers of one track leave landmarks in Redis for good (the exception in `IndexPrecise`);
- of an ISRC that a station logged twice, only the last entry is looked at (`ReportTrue`);
- settlement quanta other than one unit are accepted and mostly end in an `ArithmeticError`;
- the allocation trigger looks at the new run of a moved row only (`001_core_schema.sql:566`);
- an upload that overlaps its own retry is answered 500 and not `replayed`;
- dismissing a dispute about an undecided candidate verifies it.

## Plan

Done: every component listed above as modelled, with proofs for spool, ingestion, their composition,
review on both stores, split sheets, the catalog server, migrations, payouts, mixes, reports,
documents and the landmark index.
What is left: the settlement triggers over runs, allocations, batches and payouts, once a program of
the repository writes those rows; and the PostgreSQL catalog store, once it has `_cursor`: concurrent
activations of two drafts of one asset, and overlapping retries under one key, are what to look at.

## Not modelled

- Signal processing and file decoding (`audio/`): floating point.
- Routing, JSON and formatting of the three HTTP servers and of the command line, bearer-token
  comparison, rendering of reports: no state, and one request is one modelled call.
- Field-by-field checks of documents and manifests: one Boolean for each item.
- The settlement triggers other than the admission of usage: the repository has no program that
  writes allocations, runs, batches or payouts, so every sequence of statements would be invented.
- The SQL of `PostgresCatalogStore`: no statement of it is ever issued, for want of `_cursor`.
- Mobile money dispatch: the sandbox gateway is a dictionary; the worker is not in the repository.
- Row-level policies other than those on split sheets and lines: they change no state.
- The path of a shadow report that calls a matcher: the supplied candidates take its place.
- The text checks of `validate_migrations.py`, the FFmpeg command lines, the public site.
