# Verification of the WatZappa data pipeline

WatZappa is a fork of the atproto monorepo: a personal data server (PDS) that
keeps the repositories of its accounts and serves a firehose of their changes,
an AppView and other services that consume it, and the services of the PARA
network beside them. This project models the pipeline everything else rests on,
from a write request to a repository, through the sequencer and the firehose, to
a consumer that handles each event, and four parts beside it that keep state of
their own: the log of operations the AppViews share, the permissioned
repositories of spaces, the notices of their deletion, and the proposals of a
community in the Matrix bridge, itself a consumer of the firehose:

    client --> repository writes --> repo_seq --> poller --> Outbox --> consumer
               (RepoWrite)           (Sequencer)            (Outbox)   (MemoryRunner)
                                                                            |
    client --> space writes --> records, log, set hash --> copy      proposals, votes
               (SpaceRepo)  --> deletion --> notices                  (Governance)
                                             (SpaceNotices)
    client --> AppView API --> operation log --> long poll --> collections
                               (Bsync)                        (CollectionOps)

- [Inventory](#inventory): the parts of the system, their state, what is hard
- [Modules](#modules): which module models what, and how it corresponds to the code
- [Runs](#runs): what TLC checks, with which bounds, and what it shows
- [Fairness](#fairness)
- [Proofs](#proofs): what holds for all values of the constants, and why
- [Where the code and its documents differ](#where-the-code-and-its-documents-differ)
- [Not modelled](#not-modelled)
- [Plan](#plan)

To check a model: `tlc -config repo_write.cfg MCRepoWrite` (the module of each
configuration is in the table of runs). To check the proofs of a module:
`tlapm SequencerProofs.tla`.

## Inventory

Paths are relative to `packages/` unless they start with `services/`. For each
part: its state, its operations, what makes it hard, what makes it correct. A
mark says whether it is modelled here (M), in part (P), or not yet (-).

### The PDS

**Repository writes** (P) `pds/src/actor-store`, `pds/src/api/com/atproto/repo`.
One SQLite database per account holds the repository: `repo_root`, `repo_block`,
`record`, backlinks, blobs. createRecord, putRecord, deleteRecord, applyWrites
and importRepo run one transaction on it: read the root, form a commit on it
(`formatCommit`), persist it (`applyCommit`, `indexWrites`), insert the event
into the sequencer's database, COMMIT; then update the account database's copy of
the root, in a call whose failure is only logged. The database runs in WAL mode
with `timeout: 0`: a transaction that finds it locked, or changed since it began
to read, fails and is started over as a whole (`retrySqlite`, up to about five
seconds). Hard: three databases without a common transaction; reads that are
stale after an await; retries of a transaction that has done something outside
of its database; a crash between any two steps. Correct: no update is lost; a
swap (`swapCommit`, `swapRecord`) is tested against what it replaces; whatever
the store has, consumers are told of, in order.

**Account status and deletion** (P) `pds/src/account-manager`,
`pds/src/api/com/atproto/server/deleteAccount.ts`. Activation and deactivation
are a statement of the account database, a read of the store and events in the
sequencer, one after another; deletion unlinks the account, sequences a Deleted
event, purges the account's other rows and destroys the store. Hard: nothing
holds writes off while they go on. Correct: events describe the repository as
it is when they come; nothing but the Deleted event is left of a deleted
account.

**Sequencer** (M) `pds/src/sequencer/sequencer.ts`. State: the table
`repo_seq`, autoincremented, and `lastSeen` of the poller. Inserts by every
request that changes a repository or an account, in batches; a poller that
reads what follows `lastSeen` and emits it; the purge of a deletion. Hard:
inserts between a query and the use of its result; rows that disappear; restart
in the middle. Correct: numbers grow and are not reused; a deletion leaves a
Deleted event for consumers that come late.

**Outbox, subscribeRepos** (M) `pds/src/sequencer/outbox.ts`,
`pds/src/api/com/atproto/sync/subscribeRepos.ts`, `common-web/src/async.ts`. A
connection backfills in pages from the client's cursor, then attaches to the
emitter, makes a last query while what is emitted goes to a buffer, and goes
over to streaming from a bounded buffer. Hard: the cutover; the limit; cursors
in the future or too old; disconnections at any point. Correct: no event is
missed over all of it, and within a connection events come in order.

**Spaces** (P) `pds/src/actor-store/space`, `pds/src/api/com/atproto/space`,
`pds/src/simplespace`, `space/`. Permissioned repositories: records, a
revision, a set hash (LtHash) instead of a tree, an operation log, and in the
owner's store the table of writers with a revision of the space. Consumers
synchronise in full (a STAR stream) or from the log. Hard: `getRepo` reads the
state and then pages through the records without a transaction; a batch may
create, update and delete one path; a space deleted and created again between
two pages. Correct: the set hash is that of the records; what a consumer accepts
is one state of the repository.

**Space deletion notifications** (M) `pds/src/space-deletion-notifications.ts`.
A table of notices and a lease of a minute on working it off; generations
protect a notice that was put again from being cleared for the earlier one;
retries with growing delay until the registration expires. Hard: the lease may
run out during a delivery; two processes share the table while one replaces the
other; the notice is put in another database than the deletion. Correct: a
registered service is told, or its registration expires.

**Blobs** (-) `pds/src/actor-store/blob`. Uploads are temporary until a record
refers to them; they are made permanent inside of the transaction of the write,
and removed in the background after one. Hard: the move is not undone by a
rollback; the removal may come after a new upload of the same blob.

**Sessions** (-) `pds/src/account-manager`. `rotateRefreshToken` gives every
use of one token the same successor, by a retry when two chose different ones.

**Account creation, recovery scripts** (-) `createAccount.ts`,
`pds/src/scripts/sequencer-recovery`. Five steps over four stores with
compensations; rebuilding stores from `repo_seq`.

**PARA endpoints** (-) `pds/src/api/com/para`. Communities and civic records;
they write through the repository writes, some to two repositories in turn.

### Consumers of the firehose

**Firehose, MemoryRunner** (M) `sync/src`. The connection is opened from the
runner's cursor; each event becomes a task of a main queue with a number of
slots, and in it a task of the queue of its repository; the cursor is the last
number before which all is complete (`ConsecutiveList`), and `setCursor` may
save it. Hard: completion out of order, reconnection behind what is being
handled, several saves under way, restart, destroy. Correct: no event is
dropped, a repository's events are handled in order, and all end up handled.

**AppView** (-) `bsky/`. The data plane indexes through a MemoryRunner; the API,
hydration and views only read. **Ozone** (-) `ozone/`: moderation, with a label
sequencer and an outbox of the form of those of the PDS. **Tap** (-) `tap/`: acks of
events over a connection that is replaced.

**bsync** (P) `bsync/`, `bsky/src/data-plane/server/bsync-subscription.ts`. A log
of operations with serial numbers in Postgres, scanned with a cursor and long
polls by the AppViews, which keep the cursor in memory and fold edits of
collections (`bsky/src/api/com/para/collection/ops.ts`). Hard: serial numbers
become visible out of order; a notification between an empty query and the wait;
pages and the whole log that come again. Correct: who has caught up shows what the
log says.

### PARA services

**Matrix bridge** `services/matrix-bridge`. Consumes the firehose and keeps
communities, constitutions, proposals and votes (P), sortition, sanctions and
membership leases (-) in its database, and projects them on rooms and roles of a
Matrix homeserver (-). Hard: its cursor runs ahead of what is handled; a proposal
is decided with votes read before awaits; decisions are several statements;
leases are renewed while they are taken away; failed synchronisations are
retried until a limit. Correct: one proposal of a community is voted on at a
time, each is decided, and by the votes that were cast in time.

**para-idp** (-) `services/para-idp`. Challenges, codes and completions that
are taken once and expire.

### Libraries

`repo`, `car`: the tree, commits and diffs; here a repository is a function from
keys to records. `oauth/*`, `lex*`, `xrpc*`, `syntax`, `identity`, `did`,
`crypto`, `api`: protocols, parsing and generated code.

## Modules

| module | models | extends / instantiates |
| --- | --- | --- |
| `Sequencer` | `repo_seq`, poller, account deletion | |
| `Outbox` | connections of subscribeRepos and their clients | extends `Sequencer` |
| `FirehosePromise` | what the firehose promises (abstract) | |
| `MCOutbox` | the refinement of `FirehosePromise` | extends `Outbox`, instantiates `FirehosePromise` |
| `MemoryRunner` | a consumer: connection, queues, cursor | |
| `RepoRequests` | write requests and what they do to records | |
| `RepoPromise` | what a repository promises its writers (abstract) | extends `RepoRequests` |
| `RepoWrite` | transactions, sequencing, account root, account status | extends `RepoRequests`, instantiates `RepoPromise` |
| `MCRepoWrite` | symmetry for TLC | extends `RepoWrite` |
| `CollectionOps` | the fold of a collection's edits | |
| `Bsync` | operation log, long-polling scan, subscriber | extends `CollectionOps` |
| `SpacePromise` | what a copy of a repository is promised (abstract) | |
| `SpaceRepo` | a permissioned repository and a consumer of it | instantiates `SpacePromise` |
| `SpaceNotices` | deletion of a space and its notices | |
| `Governance` | proposals, votes and decisions in the bridge | |
| `MCBsync`, `MCSpaceRepo`, `MCGovernance` | inputs for TLC | extend the module they are about |
| `SequencerProofs`, `MemoryRunnerProofs`, `RepoWriteProofs`, `BsyncProofs`, `SpaceRepoProofs`, `SpaceNoticesProofs`, `GovernanceProofs` | theorems | extend the module they are about |
| `OutboxProofs` | theorems about `Outbox` and its refinement | extends `MCOutbox`, `SequencerProofs` |

### Sequencer

A row never changes and a number is never reused, so `evt[s]` is what was
inserted under `s` and `log` the set of numbers whose row is still there. A
statement of SQLite is one action; what is done with its result after the await
is another, which is why a poll is `PollQuery` and `PollEmit`, and a deletion is
`SequenceAccountDeletion` and `PurgeDeletedAccount` (or `PurgeFails`). The
events of one account are told apart only by whether they are a Deleted event;
the actions differ in how many rows they insert at once. Two deletions of one
account may be under way at the same time: server.deleteAccount and
admin.deleteAccount take no lock in common. `overlapped` and `unpurged` are history:
the accounts whose last deletions overlapped, and those not cleanly purged since a
deletion of theirs overlapped, failed or was cut off by a restart.

### Outbox, FirehosePromise

`phase[c]` is where the generator `Outbox.events` of client `c`'s connection
stands; the comment at the head of the module lists the phases. `seen`,
`cutoverBuffer` and `outBuffer` are the fields of the class, `rows` is a query
result in hand. The client keeps the number of the last event it received and
asks for what follows when it connects again. `floor` and `sent` are history:
from where it was promised everything (its first cursor, the start of an
OutdatedCursor answer, the tail), and what it received.

Time is only in `horizon`: rows up to it are older than the backfill window.
Listeners of the emitter run synchronously in `PollEmit`, so `Emit` fills the
buffers of all attached connections in the same step.

`FirehosePromise` has only the log, the clients' cursors, promises and receipts.
A client never receives an event before an earlier one, still in the log, that
it has not received; and it receives everything the log keeps. Refinement keeps
the variables of the same names, with `last` the length of `evt`.

### MemoryRunner

Task `i` is the `i`-th call of `trackEvent`. Both kinds of queue are p-queues,
first in, first out: who has a slot (`Started`) and who runs (`Running`) follow
from who has settled, so they are operators and not state. `passed` is how many
items `ConsecutiveList` has spliced off. A save of the cursor is an element of
`saving` from its call to its end. A task is done in two steps if it moves the
cursor (`HandledAtHead`, `CursorSaved`), in one otherwise (`HandledBehind`).
`Handle` is the call of the handler; errors go to `onError` and complete the
item all the same. A connection without a cursor begins where the stream ends:
`tail` is history and says where one began last, and only what comes after it was
ever asked for (`Promised`). The firehose is an environment that may purge an account
and, after a reconnection, may send again what is not behind the cursor.

### RepoRequests, RepoWrite, RepoPromise

A commit is its number in `made`, which holds the commit it was made on and the
records it has; the number stands for its CID and its rev. `roots` is the
history of the committed root of the store. A batch of applyWrites writes
each key once. `RepoRequests` says what each request comes to on the records it
finds: putRecord is a create or an update, or nothing if the record is there;
createRecord of a like, a repost or a follow (`Links`) deletes its duplicates;
deleteRecord of no record does nothing; a swap has to hold. A client's swaps are
those of a state it has read, which is that of its request and may be old when
the transaction runs.

A writer `w` goes `idle -> asked -> formed -> applied -> sequenced ->
committed -> idle`:

| step | action | code |
| --- | --- | --- |
| account check | `Ask` | findAccount in the handler |
| reads, commit formed | `FormCommit`, `NoOp`, `Refused` | `formatCommit` |
| first write takes the lock | `ApplyCommit`; `Busy`, `GiveUp` | `applyCommit`, `retrySqlite` |
| row in repo_seq | `SequenceCommit`, `SequencingFails` | `sequencer.sequenceCommit` |
| COMMIT | `CommitTxn`, `CommitImport`, `CommitFails` | end of `actorStore.transact` |
| root of the account | `UpdateRepoRoot`, `UpdateRepoRootFails` | `accountManager.updateRepoRoot` |

Reads of one transaction are of one snapshot and what is read decides what is
written, so reading and forming are one action; the lock is taken only if the
snapshot is still the root. `Crash` takes all that is in memory and rolls back
what had not committed. The account's status goes from active and deactivated
through the steps of the deletion.

`RepoPromise` is a repository whose requests take effect in one step on the
records and the commit of that moment, or not at all. In the refinement a
request takes effect at COMMIT.

### CollectionOps, Bsync

`ops[i]` is the row with serial number `i`, `open` those whose transaction has not
committed: the number is taken inside of it, so numbers become visible in the order
of the commits. `scan` is where a long poll stands; the handler listens for the
notification before it queries, so `fired` may be set from `query` on. `runScanner`
keeps the cursor in a local variable: it follows the page, and is 0 after
`RestartSubscription`. A page is handled operation by operation, in the order of the
numbers (`IsNext`), and `done` is what of it was handled (`ProcessOp`); a failure of the
collection's own handler is logged and passed over (`IndexingFails`), any other makes
the page come again (`PageFails`). An actor's
only collection is `row`; its edits are the fold of `CollectionOps`, where an item is
its key, a value and nothing else, and an item without an id gets a key made of the
operation and its place in it. `Names` is what clients name items by, `RelationIds` the
ids of relations. The handler of updateCollection takes any collection
(`updateCollection.ts:10-20`), and so does `UpdateCollection`: one with an item twice, with
relations that lead nowhere, with more items than the limits or with keys that batches
minted. What the row then is worth depends on what clients sent, so the properties of the
row say of which updates they speak: `UpdatesConsistent` for the limits and relations,
and for the keys `UpdatesOfReaders`, updates made of what their clients may have read.

`processed`, `lost`, `overlapped` and `dirty` are history: what was handled, what of it
was never indexed, what was invisible when a later number was read, and that a
repetition has left traces in the row: a batch was applied on top of itself, or an
operation was indexed at first and failed when it came again.

### SpaceRepo, SpacePromise

The set hash of the code is a sum of hashes of elements, which is a bag: here it is a
counter per path and cid, and equality of digests is equality of counters. A revision
is its number among the commits. `applyWrites` is one transaction, but the batch is
applied write by write (`ApplyWrite`) because each reads what the ones before it left;
readers see the committed columns, not `txRecords`, `txHash` and `txOps`. `getRepo`
is `BeginFullSync` (state and commit), a `RecordsPage` per query, and `EndFullSync`
(the consumer compares); `listRepoOps` is `OpsPage`, `ReadCommit` (its second
statement) and `ApplyPageOp` for each operation received. The consumer's choice
between the two ways, a first copy or one after a refusal in full and else from the
log, is not in the repository: it is what the lexicons and the tests expect of one.

`SpacePromise` is a consumer that in one step takes over one commit as a whole, never
one older than it has. A copy of a former life of a space that is brought up to date with
the operations of the next life is exempt: both may have the same record, which is
then twice in the sum, and another one missing of it, so that the counters of a record
table the consumer does not hold come out. Each `commits[r]` therefore has the life it
was made in. What is brought up to date from such a copy may be accepted too, because
the operations that follow move both sums alike, so it is exempt as well, until a
synchronisation in full.

### SpaceNotices

One space, a row of `queue` per service. The deletion is a transaction of the
account's store, which takes the registrations with it (`DeleteSpace`), and the notices
are written by a second statement on another database (`Enqueue`); between them the
call is an element of `handlers`. `retry()` of a process is `AcquireLease`,
`SelectRows`, and for each row `ReadState`, `Deliver` and `Clear` or `Reschedule`; its
`mode` is where it stands, `rows` the batch it has in hand while others go on. Times
are ticks of a clock. `owed` is history: until when a service has to be told.

### Governance

The stream is a sequence of commits, each of one or more records. `lastSeq` is the commit
the consumer received last and `op` the record of it that is in hand: all records of a
commit come under its one sequence number (`sync/src/firehose/index.ts:197-206`), to
which `handleEvent` sets the cursor at the first of them, before it is handled. A
proposal is the number of its row. The handlers are their statements (`InsertProposal`;
`CheckVote`, `InsertVote`, `UpdateProposalVoteCounts`). The uri of a proposal or a vote is
its author and the millisecond it was seen at; `tracked` and `cast` are what got a uri in
the present millisecond, so that two votes of one voter in it have one uri, and of two
proposals of one author in it the second is dropped. `votes` is the table, with one row for
each voter and proposal. Votes count one each.

A run `r` of `processStateTransitions` is `run[r]`, whose `at` is where it stands:

| `at` | action | code |
| --- | --- | --- |
| `idle` | `BeginTransitions`: the clock and the list of deliberated proposals | `proposals.ts:173-177` |
| `listed` | `ReadActive`: the communities with a voting | `178-184` |
| `start` | `StartVoting` per proposal, then `ReadVoting` | `186-218`, `245` |
| `opened` | `Announced`: Matrix has answered, or its error is logged | `announceInMatrix` |
| `decide` | `FinalizeProposal`: the state | `246-279` |
| `record` | `InsertDecision`: the decision, refused if there is one | `281-301` |
| `recorded` | `Announced` | `announceInMatrix` |

The timer (`bridge.ts:217-223`) starts a run without looking whether the last one is done,
and a request to Matrix has no limit of the bridge's own: any number of runs, `Runs`, may be
under way. `now` and the list are one action, since nothing is awaited between the clock and
the query and SQLite answers it at once; with PostgreSQL `Due` does not depend on `now`.
The consumer and all runs are one process, and each goes on between two statements of the
others; `Crash` takes all of them, and the consumer starts again behind the commit of the
cursor that a timer saved (`SaveCursor`). Which proposals' deliberation has passed is in
`ripe`; `over` has pairs of a proposal and the number of an opening of it, because a second
run may open a voting again, with an end of its own. `run[r].over` is what had passed when
the run began.

History: `handled`, `overwritten` (proposals that lost a vote to another one of its voter
and millisecond), `inTime` (what was counted when an opening's time passed), `overlap` (the
most runs that were under way at once), `raced` (proposals whose state a run set while
another had them in its list), `taken` (proposals with a fault between the state and the
decision).

## Runs

Deadlock is not checked: a bounded system stops when its bounds are used up, and
the real one when nobody asks anything of it. Runs whose properties hold:

| configuration | module | properties | distinct states |
| --- | --- | --- | --- |
| `sequencer` | `Sequencer` | `ForgottenOnlyByOverlap`, `DeletionComesFirst` | 1 318 000 |
| `outbox` | `MCOutbox` | `TypeOK`, `NoGap`, `NoGapInv`, `KeepsPromise`, `OrderedWithinConnection` | 691 000 |
| `runner` | `MemoryRunner` | `RunnerTypeOK`, `NoneDropped`, `InOrderPerRepo`, `ConvergesOnline` | 124 000 |
| `repo_write` | `MCRepoWrite` | `RepoTypeOK`, `NoLostUpdate`, `AnnouncedInOrder`, `SinceUnlessCrashed` | 1 490 000 |
| `repo_atomic` | `RepoWrite` | `TakesEffectAtOnce`, `RequestsAnswered` | 138 000 |
| `bsync` | `MCBsync` | `BsyncTypeOK`, `CaughtUpIsCurrent`, `SkippedOnlyByOverlap`, `NoSleepOnWork`, `ItemsDistinct`, `EventuallyProcessed` | 1 141 000 |
| `space_repo` | `MCSpaceRepo` | `SpaceTypeOK`, `HashIsRecords`, `OplogReplays`, `AcceptedHasValues`, `ReadsCommitted`, `CatchesUp` | 232 000 |
| `space_notices` | `SpaceNotices` | `NoticesTypeOK`, `NoticeKept`, `OneSender`, `RetriesEnd` | 727 000 |
| `governance` | `MCGovernance` | `GovernanceTypeOK`, `OneVotingPerRun`, `OneVoteEach`, `CountedInTime`, `DecisionUnlessRaced`, `CrashLosesOneCommit`, `EventuallyDecided` | 631 000 |

Runs whose property is what a document, a comment or a test says, and which TLC
refutes: `runner_destroy`, `bsync_replay`, `governance_voting`, see
[below](#where-the-code-and-its-documents-differ).

**sequencer.** Two accounts, five rows, polls of two. A batch of four and one
more row, or a row, two deletions and rows after them all fit; a poll may need
two queries. Deletions overlap, of one account or of both, their purges fail or are cut off by
a restart, and an account comes back and is deleted again. `ForgottenOnlyByOverlap`: an
account that was ever deleted has a Deleted event unless its last deletions overlapped,
and a later deletion mends what an overlap lost. `DeletionComesFirst`: once a deletion has
ended, and no purge failed, was cut off or overlapped since the last clean one, the Deleted
event is the account's first row: nothing from before it reaches a consumer that comes late.

**outbox.** One client: connections share only the emitter, which treats each of
them alike, and the theorem of `NoGap` is for any number. Three rows with pages
of two, so that a backfill takes more than a page and "within half a page" is
both true and false; a buffer of two, so that it is overfull in some
behaviours, and in others takes the query's rows and the buffered ones and
still streams; a disconnection or restart at any point; a row that grows too
old; the purge of a deletion. `KeepsPromise` says that with its liveness: what
the log keeps is received in the end.

**runner.** Two repositories and two slots: enough for one repository to fill the
main queue, for events of different ones to complete out of order and for two
saves to be under way. Three events, a dropped connection, a restart, a purge and a
destroy. `NoneDropped` is about both cursors, the one a reconnection uses and the
one a restart uses, and about what is `Promised`. `ConvergesOnline` is about a process
that does not restart: with restarts it is false (`Converges`).

**repo_write.** Two writers, each any request, over two keys and one value that is
also a link, so that duplicates exist: a stale write needs a second commit between
the first's read and its write, and a third transaction meets nothing new. One
failed statement, one crash or failed COMMIT, one activation, a deletion. Writers
and keys are symmetric, which is sound for invariants. Imports are left out,
because they are not sequenced: `AnnouncedInOrder` does not hold with them.

**repo_atomic.** The refinement of `RepoPromise` and the liveness, with imports,
over one key and without symmetry, which is not sound for liveness.

**bsync.** Four operations, two of them under way at once, pages of two: an operation
can be put, committed late and skipped, a page can be repeated after its first
operation, and a creation, a batch and a deletion fit, or two batches. Two failures,
so that a page is repeated in which the indexing of an operation failed, and one restart.
Of the two batches one adds an item, a note without an id and relations over their
limit, the other updates and removes items and renames the collection. Of the two
collections that clients send back whole one carries a key that a batch minted, the other
an item twice and a relation to an item that it does not have.
`CaughtUpIsCurrent` says what the replay from the start that a restart is comes to;
`SkippedOnlyByOverlap` what a cursor may pass by.

**space_repo.** Three paths and two cids, pages of one record and two operations,
four commits from seven batches, some of which create and update or delete and
create one path; one batch fails halfway; the space is deleted and created again.
`OplogReplays` is about the log since every commit of the present life of the space, which
is where a consumer may stand; `AcceptedHasValues` about every copy that is complete,
whether or not it matches.
A synchronisation of three pages meets commits and a deletion between any two of
them. `ReadsCommitted` is the refinement of `SpacePromise`; `CatchesUp` its liveness.

**space_notices.** Two services, two processes, a lease of one tick and a clock of two,
registrations until its end; two registrations and two deletions, so that a notice is
put again while a batch that holds it is under way; and one failed delivery or read,
one destroyed or crashed process, or one change of the account's status.

**governance.** SQLite. Four streams: a vote that changes within one commit, two proposals
of one community in one commit, a proposal with one vote, and two proposals of two
communities with the votes on both in one commit. One crash or failing statement between any
two statements; a replay after it tracks proposals a second time, up to `MaxProposals`. A
quorum of half of two voters, so that every outcome is reached. Two runs overlap where
`HeldUp` says: between the two reads of a list of two proposals, so that each opens one, and
in an announcement, so that the second finds a list behind the first's back, decides on
other counts and is overtaken again. That is where something can happen that no single run
does: two votings of one community, a proposal opened again that was decided, a state that
is not the decision, a second decision refused. All of these occur in the run. TLC needs
`HeldUp` and two runs as a bound, the theorems hold for every `HeldUp` and any number of runs.

Bounds are constants whose names begin with `Max`: numbers of rows, requests,
operations, deletions, faults, crashes, drops, restarts, activations, the clock, and how
far rows age; and `Runs` and `HeldUp` of `Governance`. None of them is a limit of the code
except `MaxBuffer`, the buffer's.

## Fairness

- `SequencerSpec` needs none: only safety is asked of it.
- `Outbox`: weak fairness of the poller (it schedules itself after every poll and
  error, `sequencer.ts:150`), of its emission, and for each client of connecting,
  backfill, cutover and stream (queries return, a client reads its connection and
  connects again). Nothing is assumed of inserts, purges, restarts or
  disconnections. A client that does not read is not covered by the liveness.
- `MemoryRunner`: weak fairness of connecting (`Firehose.start` calls itself again
  after an error and a delay), of the delivery of the next event, and for each
  repository of the tasks of its partition: handlers and `setCursor` return. It is
  per repository, since partitions run side by side, and not for destroy or restart.
- `RepoWrite`: weak fairness of each writer's own steps; a failure is never assumed.
  `Busy` starts a transaction over, and a writer can only lose to another's commit, of
  which the bound on requests allows finitely many; so weak fairness is enough, and a
  lock that is not given back shows as a request that is never answered. With requests
  without end a writer may lose every race: in the code `retrySqlite`'s limit of about
  five seconds (`GiveUp`) then answers it with an error.
- `Bsync`: weak fairness of the scanner (`runScanner` is a loop that sleeps after an
  error), of the notification and of the end of open transactions. None of the timer of
  the long poll: `EventuallyProcessed` does not need it.
- `SpaceRepo`: weak fairness of the consumer, which asks again; none of the host.
- `SpaceNotices`: weak fairness of the clock, of `Enqueue`, and for each process of its
  timer and of what a batch began (requests have a timeout). Not of start, destroy or
  crash: `RetriesEnd` is about behaviours in which some process goes on running.
- `Governance`: weak fairness of time, of the consumer, of the timer of ten minutes, and of
  each run that is under way: a request to Matrix ends, because the `fetch` it is made with
  gives up by its own defaults (`matrix.ts:53-74` sets no limit), and an error is logged. Not
  of saving the cursor, failures or crashes. Failures of a run are transient: a row whose
  `created_at` cannot be parsed, or a `votingDays` that is out of the range of dates, would
  stop every run at the same place, and such rows are not modelled.

## Proofs

TLAPS checks these theorems, for all values of the constants that satisfy the
named assumptions of the modules: numbers of clients, writers, repositories, processes,
voters and rows, sizes of pages, buffers and batches, and every bound.

| assumption | says, beside the types of the bounds |
| --- | --- |
| `SequencerAssumption`, `OutboxAssumption`, `RunnerAssumption` | nothing else |
| `RepoRequestsAssumption`, `RepoWriteAssumption` | the values that stand for "none" are not values |
| `LimitsAssumption`, `BsyncAssumption` | an absent row is not a collection; batches are sequences of ops that `validateOpShape` lets pass; nothing of whole collections |
| `SpaceAssumption` | batches have one to 200 writes (more are refused), a write has a cid unless it deletes |
| `NoticesAssumption` | the value for no owner is not a process; finitely many services; registrations end within the clock |
| `GovernanceAssumption` | quorum and threshold are percentages; streams are sequences of commits of one or more proposals and votes; finitely many runs |

| theorem | module | says |
| --- | --- | --- |
| `SequencerTypeCorrect` | `SequencerProofs` | `SequencerSpec => []SequencerTypeOK` |
| `ForgottenOnlyByOverlapCorrect` | `SequencerProofs` | `SequencerSpec => []ForgottenOnlyByOverlap` |
| `DeletionComesFirstCorrect` | `SequencerProofs` | `SequencerSpec => []DeletionComesFirst` |
| `TypeCorrect` | `OutboxProofs` | `Spec => []TypeOK` |
| `NoGapInvCorrect`, `NoGapCorrect` | `OutboxProofs` | `Spec => []NoGapInv`, `Spec => []NoGap` |
| `OrderedCorrect` | `OutboxProofs` | `Spec => OrderedWithinConnection` |
| `PromiseCorrect` | `OutboxProofs` | `Spec` implements the initial states and the steps of `FirehosePromise` |
| `RunnerTypeCorrect` | `MemoryRunnerProofs` | `RunnerSpec => []RunnerTypeOK` |
| `NoneDroppedCorrect` | `MemoryRunnerProofs` | `RunnerSpec => []NoneDropped` |
| `InOrderPerRepoCorrect` | `MemoryRunnerProofs` | `RunnerSpec => []InOrderPerRepo` |
| `RepoTypeCorrect` | `RepoWriteProofs` | `RepoSpec => []RepoTypeOK` |
| `NoLostUpdateCorrect` | `RepoWriteProofs` | `RepoSpec => []NoLostUpdate` |
| `TakesEffectCorrect` | `RepoWriteProofs` | `RepoSpec => TakesEffectAtOnce`, the refinement |
| `AnnouncedInOrderCorrect` | `RepoWriteProofs` | without imports, `RepoSpec => []AnnouncedInOrder` |
| `SinceUnlessCrashedCorrect` | `RepoWriteProofs` | without imports, `RepoSpec => []SinceUnlessCrashed` |
| `BsyncTypeCorrect` | `BsyncProofs` | `BsyncSpec => []BsyncTypeOK` |
| `SkippedOnlyByOverlapCorrect` | `BsyncProofs` | `BsyncSpec => []SkippedOnlyByOverlap` |
| `NoSleepOnWorkCorrect` | `BsyncProofs` | `BsyncSpec => []NoSleepOnWork` |
| `CaughtUpIsCurrentCorrect` | `BsyncProofs` | `BsyncSpec => []CaughtUpIsCurrent` |
| `ItemsDistinctCorrect` | `BsyncProofs` | `BsyncSpec => []ItemsDistinct` |
| `SpaceTypeCorrect` | `SpaceRepoProofs` | `SpaceSpec => []SpaceTypeOK` |
| `HashIsRecordsCorrect` | `SpaceRepoProofs` | `SpaceSpec => []HashIsRecords` |
| `OplogReplaysCorrect` | `SpaceRepoProofs` | `SpaceSpec => []OplogReplays` |
| `AcceptedHasValuesCorrect` | `SpaceRepoProofs` | `SpaceSpec => []AcceptedHasValues` |
| `ReadsCommittedCorrect` | `SpaceRepoProofs` | `SpaceSpec => ReadsCommitted`, the refinement |
| `NoticesTypeCorrect` | `SpaceNoticesProofs` | `NoticesSpec => []NoticesTypeOK` |
| `OneSenderCorrect` | `SpaceNoticesProofs` | `NoticesSpec => []OneSender` |
| `NoticeKeptCorrect` | `SpaceNoticesProofs` | `NoticesSpec => []NoticeKept` |
| `GovernanceTypeCorrect` | `GovernanceProofs` | `GovernanceSpec => []GovernanceTypeOK` |
| `OneVotingPerRunCorrect` | `GovernanceProofs` | `GovernanceSpec => []OneVotingPerRun` |
| `OneVoteEachCorrect` | `GovernanceProofs` | `GovernanceSpec => []OneVoteEach` |
| `DecisionUnlessRacedCorrect` | `GovernanceProofs` | `GovernanceSpec => []DecisionUnlessRaced` |
| `CountedInTimeCorrect` | `GovernanceProofs` | with SQLite, `GovernanceSpec => []CountedInTime` |
| `CrashLosesOneCommitCorrect` | `GovernanceProofs` | `GovernanceSpec => []CrashLosesOneCommit` |

**ForgottenOnlyByOverlap, DeletionComesFirst.** Neither is inductive: a purge could remove
the one Deleted event if nothing said that the deletion under way still finds its own.
`SequencerInv` adds that it does unless the account is `overlapped`, that two deletions under
way of one account make it so, and that an overlap counts as unpurged until a clean purge,
which leaves of the account the event it is about and what came after it. No assumption on
the deletions is left: those that overlap are in the theorems, as the accounts excepted.

**NoGap.** `NoGapInv` adds, for each phase, what the connection holds in hand. Up to
the cutover's query, everything before the base of the next query was received. In
a page, in the cutover's rows with the buffer behind them, and in the stream's
buffer, nothing is skipped: what the log holds below an entry was received or
stands before it. From the cutover's query on, what the poller has passed is
received or in hand (`Covered`): this is why attaching comes before the query. The
poller's own rows follow `lastSeen` without a gap (`PolledInOrder`). Duplicates are
harmless because the statement is about the first time.

**OrderedWithinConnection** needs what a connection holds in hand to be ascending and
beyond what it yielded: a page and the rows of the cutover because a query returns them
so, the buffer because the poller's emissions are, and the two together because what
the buffer has of the query's rows is dropped. **The firehose's promise** is then a step by
step refinement: by `NoGapInv` a number that a client receives for the first time has no
smaller one in the log before it, and the starting point it is given hides nothing.

**NoneDropped, InOrderPerRepo.** `RunnerInv` says of the tasks that the events up to a
task's own are handled or stand before it (`TasksOK`); of the connection that those up to
its position are handled or tasks (`PosOK`); of an item that is complete that it was
handled, and of those the list has spliced off that they are complete. So the cursor
has only what was handled behind it, wherever a save of it stands (`CursorOK`). Events of
a repository are in order because only the first of its waiting tasks may run, and
destroy takes a task only with all that wait before it in its partition (`ClearedOK`).

**NoLostUpdate.** `RepoInv` says of each writer what its transaction knows: a
formed commit is of a commit that exists and whose records its request fits; one
that has written holds the lock, was made on the present root with the records
its request gives, and is new. The lock keeps other writers from moving the root
between. A client is told of a commit only when it is in `roots`.

**TakesEffectAtOnce.** By `RepoInv`, COMMIT moves the root to a commit whose records
are the request's effect on the present ones, and the request fits: it is the
abstract `TakesEffect`. `Ask` is `Ask`; every other end of a request, and a crash,
takes requests away without effect; all other steps change nothing the abstract
specification sees.

**AnnouncedInOrder, SinceUnlessCrashed.** While the account is present nothing leaves
the stream, and at the moment a row is inserted all committed roots were announced
before it; until COMMIT the lock keeps it so. As long as no COMMIT was lost, the last
commit of the stream is the root, or the one of the writer that holds the lock: the
next commit to be announced was made on it.

**Bsync.** What is skipped and what a scan waits for follow from how the page lies in
the log (`ScanInv`): it has every visible operation between the cursor and its last one,
what was handled beyond the cursor comes again in its turn, and since the wait for a
notification begins before the query, a scan that has found nothing knows of what came
after. **CaughtUpIsCurrent** is not inductive, because in a replay the row is ahead of the
log. Let `Behind` be the operations that were applied and that the subscriber has passed,
`Again` those that were applied and come once more. `RowInv`: the row is the fold of
`Behind`, or a creation or deletion comes again, which sets the row right whatever it is,
or the next to come again is an update and the row is there when that fold says so. When
a page is given up, the operations of it move from `Behind` to `Again`; if they are all updates,
the fold is there without them when it was with them. **ItemsDistinct** rests on `MintInv`:
a key that was minted is of a batch the subscriber has passed, so the next batch mints a
new one; of updates this is `UpdatesOfReaders`, which the log either has for good or, once
an update made a key up, never again. **BsyncTypeOK** says of the row that batches never put
a relation or an item into it that should not be there; an update may, and then the row has
what the client sent. The lemmas on `ApplyOp`, `ApplyCollectionOps` and the fold say what one op, a
batch and one more operation make of a collection.

**HashIsRecords.** Inside of a transaction the hash is that of the records written so far
(`HashOK`), by a lemma on what a write does to a hash. **OplogReplays**: let `Logged` be the
states that the log goes through, from no records on. `LogOK` says that each operation's
`prev` is what the state before it has at the path, that the last state is the records,
and that the state at the end of a commit's operations is the records of that commit,
for the commits since the space was created; `TxOK` says the same of the open
transaction. **ReadsCommitted**: `CopyOK` says that on top of a copy that is the commit it
says it is, of the same life of the space (`CleanBase`), the operations received lead
along the log, and the hash counted is that of what was seen; `ArchiveOK` says it of a full
copy. A copy is accepted when its hash is a commit's, and two sets of records with one
hash are one (`HashTellsApart`). What the consumer builds on a copy that is no commit is
where the promise is silent. **AcceptedHasValues**: a path without a value has a later
operation in the page, or one still to be listed (`BlankOK`).

**OneSender**: a process whose batch has not ended owns the lease, and the lease ends
when its batch does (`LeaseOK`). **NoticeKept**: a generation is one deletion's, so a batch
that holds an older one clears nothing newer; what a batch of the present generation
clears was delivered or has expired (`QueueOK`, `CallsOK`, `BatchesOK`, `ClearOK`).

**OneVotingPerRun.** A run may open a voting of a community from its `ReadActive`, which found
none, until it opens one: these are `Openers(c)`. `QueueOK`: the votings of a community and
its openers are together no more than `overlap`. A run joins the openers only when there is
no voting, and then openers are runs under way; it leaves them when it opens one. For runs
that do not overlap this is one voting. **DecisionUnlessRaced**: what a run has in hand still
is what it read if no other run had it in its list when the state was set: deliberating for
one that opens votings, being voted on for one that decides, and from `FinalizeProposal` to
`InsertDecision` the outcome of what the run has seen, with no decision and in no other
run's hands (`InHand`, `HandsOK`). A second decision is refused, and a decided proposal
without one is the one a run is about to record, or one that a fault left (`DecisionsOK`).
**OneVoteEach**: the table has one row for each voter and proposal, the stream asked for each, and
the totals are at most the number of its rows, unless a row made way for one of another
proposal and the same millisecond (`VotesOK`). **CountedInTime**: the counts that a run has
read are at least those of `inTime` for every opening that had passed when the run began,
because the clock is read before the counts; and what passes later is a pair that the run
does not have (`SeenAll`, `TimedOK`). **CrashLosesOneCommit**: of the commits before the last
one nothing is waiting, so a crash or a failing handler adds at most the last one to `Lost`.

Induction over data is out of the provers' reach with the library's induction theorems;
where it was needed (the places of a log, a batch or a list) it is by the least element
of a set of numbers, which `NatLessThanWellFounded` and `WFMin` give: the recursion is
written as a recursive function, and its existence and values are lemmas of their own
(`FollowsExists` and `UpToIs` in `BsyncProofs`, `LeadsExists` and `StatesLead` in `SpaceRepoProofs`).

Not proved, and checked by TLC only: liveness, which the proof system cannot handle
(`ConvergesOnline`, `RequestsAnswered`, `EventuallyProcessed`, `CatchesUp`, `RetriesEnd`,
`EventuallyDecided` and the liveness of `KeepsPromise`; its safety is `PromiseCorrect`).
`TombstoneKept` and `OneVoting`, `AnnouncedInOrder` and `SinceUnlessCrashed` with
imports and `CountedInTime` with PostgreSQL are not theorems because they are false, see
below.

## Where the code and its documents differ

Three have a run that TLC refutes:

- `runner_destroy`: `destroy()` clears the partitions, but a task of the main queue
  waits for its partition task, which when cleared never settles; `onIdle()` then
  never resolves, and the AppView's `stop()`, which awaits it, does not drain its
  background queue as its comment says.
- `bsync_replay`: a comment and a test say that edits of collections are idempotent and
  that a replay changes nothing. An item without an id is stored under a key made from
  the operation but looked for under the key of its title and date: a page that is
  repeated after a failed statement adds it a second time. So is an edit that was
  skipped because what it names came later in the page.
- `governance_voting`: `votingDays` are described as the days voting remains open. With
  PostgreSQL the end of the voting comes as a Date, and the comparison of the run's ISO
  string with a Date is never true: the run that opens the voting also decides it. With
  SQLite, where it is a string, it is as described.

The others are statements of the modules that are false of the code, so no configuration
checks them as they stand; to see one, add it to the configuration named (`Converges` as
a `PROPERTY`, the others as an `INVARIANT`) or change the constant named:

- `TombstoneKept` (`sequencer.cfg`): two deletions of one account (server.deleteAccount
  and admin.deleteAccount take no common lock) each purge the Deleted event of the other,
  and none is left; `account-deletion.test.ts` says there is one.
- `OneVoting` (`governance.cfg`): one proposal of a community is voted on at a time, the
  others queue (`proposals.ts:178-181`). The timer starts a run while another one waits, and
  both open one. So it is with the state of a proposal and its decision: a run held up in an
  announcement decides with counts that it read before, a proposal that another run has
  decided on later ones, and its decision is refused (`DecisionUnlessRaced` without `raced`).
- `Converges` (`runner.cfg`): the README of `sync` says replays are harmless to an
  idempotent handler. A replay passes through older states, and a restart in its
  middle, with a saved cursor behind its end, leaves a repository at an older state.
- `SinceLastEmitted` (`repo_write.cfg`): `since` is described as the rev of the last
  emitted commit. A crash after the row and before COMMIT leaves an event of a commit
  that does not exist, and the next one follows the commit before it.
- `HeadIsRoot` (`repo_write.cfg`): listRepos's head is described as current. Root
  updates may end in the other order than their commits.
- `SyncNeverBack` (`repo_write.cfg`): a sync event is described as an update to a new
  state. The one of an activation carries a root read before, and may come after a
  commit on it.
- `DeletedLeavesNothing` (`repo_write.cfg`): a test says a deletion leaves no root row
  and only the Deleted event. A write that was let in before it puts rows back.
- `NoticeNeverLost` (`space_notices.cfg`): the lexicon of notifySpaceDeleted says a
  notice is retried until delivered or until the registration expires. The
  registrations go with the space before the notices are written to another database:
  a process that stops in between loses them, and a repeated deletion finds none. Also, an
  older deletion whose notices are written last replaces those of a newer one, whose
  registrations may expire later (`Expiries = {1, 2}`).

Others were seen on the way. Without a start cursor a consumer that loses its connection
before its first completed event misses what comes meanwhile: it begins at the new end
of the stream, `tail`, and `NoneDropped` promises it nothing before. importRepo moves
the root with neither a row in `repo_seq` nor a new root of the account
(`AcceptingImports = TRUE` and `AnnouncedInOrder`). In the bridge: a proposal is tracked
under a uri made of the time it was seen at, so a vote that names the record's uri is
dropped (a comment on `handleCommunityCreate` describes the same mistake made once for
boards) and a replay tracks it a second time; of two proposals of one author in one
millisecond the second is dropped, and of two votes of one voter in it the first is
lost; a second vote on a proposal replaces the first in SQLite and is refused by
PostgreSQL; a crash between `finalizeProposal` and `insertDecision` leaves a decided
proposal without a decision; a vote that passed the check is stored although the
proposal is decided meanwhile; and since the cursor is at a commit from its first record
on, one crash may cost all the others of it: applyWrites makes commits of up to 200
records. A copy of a space is accepted by its hash alone: a consumer that keeps a copy
over a deletion and a new creation may hold contents that were never committed, and goes
on to hold such until it synchronises in full.

## Not modelled

Within the modelled parts: blobs, validation of records, permissions and rate limits
before a transaction begins; the form of commits, trees and events; takedowns;
rebuild-repo; failures of the queries of subscribeRepos (an unhandled rejection of
`cutover()`); the time `sequencedAt` of rows, of which only an order by number is kept
(inserts may take their times in another order); the parsing and authentication of
events in a consumer, which runs inside of the task; of bsync the mute and notification
streams, the other namespaces and the purge of an actor's operations; of spaces members,
the writer table, getRecord and listRecords, MACs, signatures and the STAR format; of
the bridge's governance weights other than one, chambers, budgets, changes of the
constitution while a proposal is open, what is announced, and rows that make every run
fail (a `created_at` or a `votingDays` that is no date). The parts marked (-) in the
inventory are not modelled; PROJECT.json gives the reason for each. API, hydration,
views, lexicons and protocol libraries have no state worth a model; OAuth and Ozone are
systems of their own.

## Plan

Done, in this order: `Sequencer`, `Outbox` with `FirehosePromise`, their proofs;
`MemoryRunner`; `RepoRequests`, `RepoWrite`, `RepoPromise`, their proofs;
`CollectionOps`, `Bsync`; `SpaceRepo` with `SpacePromise`; `SpaceNotices`;
`Governance`. A full run of the configurations stays within minutes, which is why new
runs have taken the place of refuted ones that had served.

Every invariant and action property of the runs is now a theorem. Theorems still worth
proving:

1. That `SinceLastEmitted` holds again from the first commit after a lost one on, for
   any number of crashes.
2. `ReplayChangesNothing` of `Bsync` for restarts alone, and how far a repeated page can
   lead the row astray: nothing but items without an id and edits that were skipped.
3. Of the compositions below, the refinement that `RepoWrite` is over `Sequencer`.

Models still worth writing: membership leases of the bridge (renewals against eviction)
and its sanctions; blobs under rollbacks and retries; refresh tokens, account creation
and its compensations; the recovery scripts over the streams `RepoWrite` produces; Tap's
acks, the identity provider's single-use state, OAuth's sessions.

Compositions: `RepoWrite` over `Sequencer` (its `stream` is the restriction of `log` to
one account), and `Outbox` with `MemoryRunner` over `FirehosePromise`, so that "every
committed write is handled in the end, in order" follows from two promises; `Governance`
over `FirehosePromise` instead of a fixed stream.
