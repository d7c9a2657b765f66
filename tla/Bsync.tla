------------------------------- MODULE Bsync -------------------------------
(***************************************************************************)
(* The operation log of bsync (packages/bsync/src/routes) and the AppView  *)
(* that follows it (packages/bsky/src/data-plane/server/bsync-             *)
(* subscription.ts), seen through one collection of one actor.             *)
(*                                                                         *)
(* putOperation takes the next serial number inside of its transaction:    *)
(* numbers become visible in the order of the commits.  scanOperations     *)
(* listens for the notification before it queries, waits once when there   *)
(* is nothing, and queries again.  The subscriber keeps its cursor in      *)
(* memory: a restart replays the log, an error repeats the page.           *)
(***************************************************************************)
EXTENDS CollectionOps

CONSTANTS Absent,       \* no row of the collection
          Batches,      \* the batches of ops clients send
          Payloads,     \* the whole collections clients send
          PageLimit,    \* limit of a scan
          MaxOps,       \* bound: operations put
          MaxOpen,      \* bound: transactions open at once
          MaxFailures,  \* bound: failed requests and statements
          MaxRestarts   \* bound: restarts of the subscriber

ASSUME BsyncAssumption ==
  /\ Absent \notin Collections
  /\ Batches \subseteq Seq(Ops) /\ Payloads \subseteq Collections
  /\ PageLimit \in Nat \ {0}
  /\ {MaxOps, MaxOpen, MaxFailures, MaxRestarts} \subseteq Nat

(* The operations of a client, as the log has them.                        *)
Operations ==
  [method : {"CREATE"}, payload : {EmptyCollection}] \cup [method : {"UPDATE"}, payload : Payloads]
    \cup [method : {"DELETE"}] \cup [method : {"OPS"}, batch : Batches]

VARIABLES ops,        \* ops[i]: the operation with serial number i
          open,       \* those whose transaction is not committed
          notifying,  \* a notification is on its way to the bsync process
          scan,       \* "idle", "query", "asked" (nothing found), "wait", "page"
          fired,      \* the promise of the scan's next notification has resolved
          page,       \* the operations the last scan returned, until all are handled
          done,       \* those of them processOperations has handled
          cursor,     \* local to runScanner; 0 when undefined
          row,        \* the row of the collection in the AppView, or Absent
          processed,  \* history: operations handled since the start
          lost,       \* history: those of them whose indexing never succeeded
          overlapped, \* history: open when a larger number was scanned
          dirty,      \* history: a repetition has left its traces in the row
          failures, restarts

logVars  == <<ops, open, notifying>>
scanVars == <<scan, fired, page, done, cursor>>
rowVars  == <<row, processed, lost, overlapped, dirty>>
vars     == <<logVars, scanVars, rowVars, failures, restarts>>

Ids     == 1 .. Len(ops)
Visible == Ids \ open

BsyncInit ==
  /\ ops = <<>> /\ open = {} /\ notifying = FALSE
  /\ scan = "idle" /\ fired = FALSE /\ page = {} /\ done = {} /\ cursor = 0
  /\ row = Absent
  /\ processed = {} /\ lost = {} /\ overlapped = {} /\ dirty = FALSE
  /\ failures = 0 /\ restarts = 0

----------------------------------------------------------------------------
(* The AppView API puts operations.                                        *)

PutOp(op) ==
  /\ Len(ops) < MaxOps
  /\ Cardinality(open) < MaxOpen
  /\ ops' = Append(ops, op)
  /\ open' = open \cup {Len(ops) + 1}
  /\ UNCHANGED <<notifying, scanVars, rowVars, failures, restarts>>

(* The key of a collection is a new TID: it is created once.               *)
CreateCollection ==
  /\ \A i \in Ids : ops[i].method # "CREATE"
  /\ PutOp([method |-> "CREATE", payload |-> EmptyCollection])

(* The client has the id of a collection once its creation is committed.   *)
Known == \E i \in Visible : ops[i].method = "CREATE"

UpdateCollection(c) == Known /\ PutOp([method |-> "UPDATE", payload |-> c])

DeleteCollection == Known /\ PutOp([method |-> "DELETE"])

(* applyOps looks the row up before it puts the batch; the row may be gone *)
(* or may have changed when the batch is inserted.                          *)
ApplyOps(batch) ==
  /\ row # Absent
  /\ PutOp([method |-> "OPS", batch |-> batch])

(* The notification is emitted with the commit.                            *)
CommitPut(i) ==
  /\ i \in open
  /\ open' = open \ {i}
  /\ notifying' = TRUE
  /\ UNCHANGED <<ops, scanVars, rowVars, failures, restarts>>

(* Mutant: who has not got the answer of the query does not listen yet. *)
NotifyWaiting ==
  /\ notifying
  /\ notifying' = FALSE
  /\ fired' = (fired \/ scan = "wait")
  /\ UNCHANGED <<ops, open, scan, page, done, cursor, rowVars, failures, restarts>>

Notify ==
  /\ notifying
  /\ notifying' = FALSE
  /\ fired' = (fired \/ scan \in {"query", "asked", "wait"})
  /\ UNCHANGED <<ops, open, scan, page, done, cursor, rowVars, failures, restarts>>

----------------------------------------------------------------------------
(* scanOperations.                                                         *)

Beyond == {i \in Visible : i > cursor}

(* Mutant: the newest operations come first. *)
NewestPage == {i \in Beyond : Cardinality({j \in Beyond : j > i}) < PageLimit}

(* Those beyond the cursor with the smallest numbers.                      *)
NextOpPage == {i \in Beyond : Cardinality({j \in Beyond : j < i}) < PageLimit}

StartScan ==
  /\ scan = "idle"
  /\ scan' = "query"
  /\ UNCHANGED <<logVars, fired, page, done, cursor, rowVars, failures, restarts>>

(* Mutant: the answer to an empty scan has no cursor. *)
QueryForgets(none) ==
  /\ page' = NextOpPage
  /\ done' = {}
  /\ scan' = IF page' = {} THEN none ELSE "page"
  /\ fired' = (fired /\ scan' = "asked")
  /\ cursor' = IF page' = {} THEN 0 ELSE cursor
  /\ overlapped' = overlapped
  /\ UNCHANGED <<logVars, row, processed, lost, dirty, failures, restarts>>

(* A query that finds something ends the scan; otherwise it goes to `none`.*)
QueryElse(none) ==
  /\ page' = NextOpPage
  /\ done' = {}
  /\ scan' = IF page' = {} THEN none ELSE "page"
  /\ fired' = (fired /\ scan' = "asked")
  /\ overlapped' = overlapped \cup
       {i \in open : \E j \in page' : i < j}
  /\ UNCHANGED <<logVars, cursor, row, processed, lost, dirty, failures, restarts>>

Query   == scan = "query" /\ QueryElse("asked")
Requery == scan = "wait" /\ fired /\ QueryElse("idle")

AwaitNextOp ==
  /\ scan = "asked"
  /\ scan' = "wait"
  /\ UNCHANGED <<logVars, fired, page, done, cursor, rowVars, failures, restarts>>

LongPollTimeout ==
  /\ scan = "wait"
  /\ scan' = "idle" /\ fired' = FALSE
  /\ UNCHANGED <<logVars, page, done, cursor, rowVars, failures, restarts>>

(* The request or its answer fails: runScanner tries again.                *)
ScanFails ==
  /\ scan \in {"query", "asked", "wait"}
  /\ failures < MaxFailures
  /\ failures' = failures + 1
  /\ scan' = "idle" /\ fired' = FALSE
  /\ UNCHANGED <<logVars, page, done, cursor, rowVars, restarts>>

----------------------------------------------------------------------------
(* processOperations.                                                      *)

(* Mutant: a creation that finds the row leaves it, like that of a draft. *)
IndexKeepsRow(r, op, i) ==
  CASE op.method = "CREATE" -> IF r = Absent THEN op.payload ELSE r
    [] op.method = "UPDATE" -> IF r = Absent THEN r ELSE op.payload
    [] op.method = "DELETE" -> Absent
    [] op.method = "OPS"    -> IF r = Absent THEN r ELSE ApplyCollectionOps(r, op.batch, i)

(* handleCollectionOperation and handleCollectionOpsOperation on row r.    *)
Index(r, op, i) ==
  CASE op.method = "CREATE" -> op.payload
    [] op.method = "UPDATE" -> IF r = Absent THEN r ELSE op.payload
    [] op.method = "DELETE" -> Absent
    [] op.method = "OPS"    -> IF r = Absent THEN r ELSE ApplyCollectionOps(r, op.batch, i)

(* The operations of a page are handled in the order of their numbers.     *)
IsNext(i) == i \in page \ done /\ \A j \in page \ done : i <= j

(* One more is handled; after the last one the cursor follows the page.    *)
Advance(i) ==
  /\ IF page = done \cup {i}
     THEN scan' = "idle" /\ page' = {} /\ done' = {} /\ cursor' = i
     ELSE done' = done \cup {i} /\ UNCHANGED <<scan, page, cursor>>
  /\ processed' = processed \cup {i}
  /\ UNCHANGED <<logVars, fired, overlapped, restarts>>

ProcessOp ==
  \E i \in page :
    /\ IsNext(i)
    /\ Advance(i)
    /\ row' = Index(row, ops[i], i)
    /\ lost' = lost \ {i}
    /\ dirty' = (dirty /\ ops[i].method \in {"UPDATE", "OPS"})
    /\ UNCHANGED failures

(* The collection handler fails: it is logged and the stream moves on.     *)
IndexingFails ==
  /\ failures < MaxFailures
  /\ failures' = failures + 1
  /\ \E i \in page :
       /\ IsNext(i)
       /\ Advance(i)
       /\ LET before == i \in processed \ lost IN
          /\ lost' = IF before THEN lost ELSE lost \cup {i}
          /\ dirty' = (dirty \/ before)
       /\ UNCHANGED row

(* The generic handler fails: the whole page comes again.                  *)
PageFails ==
  /\ scan = "page"
  /\ failures < MaxFailures
  /\ failures' = failures + 1
  /\ scan' = "idle"
  /\ page' = {} /\ done' = {}
  /\ dirty' = (dirty \/ \E i \in done : ops[i].method = "OPS")
  /\ UNCHANGED <<logVars, fired, cursor, row, processed, lost, overlapped, restarts>>

(* destroy and start, or a crash: the cursor is undefined again.           *)
RestartSubscription ==
  /\ restarts < MaxRestarts
  /\ restarts' = restarts + 1
  /\ scan' = "idle" /\ fired' = FALSE
  /\ page' = {} /\ done' = {} /\ cursor' = 0
  /\ processed' = {} /\ lost' = {} /\ overlapped' = {}
  /\ dirty' = (row # Absent)
  /\ UNCHANGED <<logVars, row, failures>>

----------------------------------------------------------------------------
ApiNext ==
  \/ CreateCollection
  \/ \E c \in Payloads : UpdateCollection(c)
  \/ DeleteCollection
  \/ \E b \in Batches : ApplyOps(b)
  \/ \E i \in Ids : CommitPut(i)
  \/ Notify

ScannerNext == StartScan \/ Query \/ AwaitNextOp \/ Requery \/ ProcessOp

BsyncNext ==
  \/ ApiNext
  \/ ScannerNext
  \/ LongPollTimeout
  \/ ScanFails
  \/ IndexingFails
  \/ PageFails
  \/ RestartSubscription

(* Transactions end, the database notifies and the scanner goes on.  The   *)
(* timer of the long poll is not needed.                                   *)
BsyncFairness ==
  /\ WF_vars(ScannerNext)
  /\ WF_vars(Notify)
  /\ WF_vars(\E i \in Ids : CommitPut(i))

BsyncSpec == BsyncInit /\ [][BsyncNext]_vars /\ BsyncFairness

----------------------------------------------------------------------------
(* Properties.                                                             *)

(* An update may carry any collection: updateCollection checks none.       *)
UpdatesConsistent ==
  \A i \in Visible : ops[i].method = "UPDATE" => Consistent(ops[i].payload)

(* The updates are made of what their clients may have read: the items     *)
(* have different keys, minted, if they are, by operations before them     *)
(* that the subscriber did not pass by.                                    *)
UpdatesOfReaders ==
  \A i \in Visible : ops[i].method = "UPDATE" =>
    /\ Distinct(ops[i].payload)
    /\ \A key \in KeysOf(ops[i].payload) :
         key[2] # 0 => key[2] < i /\ key[2] \notin overlapped

(* Every variable has its type; a page is of visible operations beyond the *)
(* cursor and handled from its first one; and no relation of the row leads  *)
(* to an item it does not have, nor has it too many items, unless an update *)
(* carried such a collection: batches never make one.                      *)
BsyncTypeOK ==
  /\ ops \in Seq(Operations)
  /\ open \subseteq Ids
  /\ {notifying, fired, dirty} \subseteq BOOLEAN
  /\ scan \in {"idle", "query", "asked", "wait", "page"}
  /\ page \subseteq Beyond /\ done \subseteq page
  /\ \A i \in done, j \in page \ done : i < j
  /\ IF scan = "page" THEN done # page ELSE page = {}
  /\ cursor \in {0} \cup Visible
  /\ row \in Collections \cup {Absent}
  /\ row # Absent /\ UpdatesConsistent => Consistent(row)
  /\ lost \subseteq processed
  /\ processed \subseteq Visible

(* The collection after the operations of a log that are in S, in order,   *)
(* up to each place of the log.                                            *)
UpTo(log, S) ==
  LET after[i \in 0 .. Len(log)] ==
        IF i = 0 THEN Absent
        ELSE IF i \in S THEN Index(after[i - 1], log[i], i) ELSE after[i - 1]
  IN  after

Fold(S) == UpTo(ops, S)[Len(ops)]

(* The subscriber has been through everything the log shows.               *)
CaughtUp == scan # "page" /\ \A i \in Visible : i <= cursor

(* A subscriber that has caught up shows what the log says, also after a   *)
(* restart, which replays it on top of the old rows: the exceptions are    *)
(* the operations whose indexing failed or that it never saw, and, until    *)
(* the collection is created or deleted, batches that were applied twice    *)
(* and operations that were handled a first time and failed in a repetition.*)
CaughtUpIsCurrent == CaughtUp /\ ~dirty => row = Fold(processed \ lost)

(* An operation below the cursor that was not handled is one whose          *)
(* transaction was open while a larger number was read, and nothing else.  *)
SkippedOnlyByOverlap ==
  \A i \in Visible : i <= cursor => i \in processed \cup overlapped

(* A scan does not wait while the log has something for it, unless a        *)
(* notification has come or is on its way.                                  *)
NoSleepOnWork ==
  scan = "wait" /\ (\E i \in Visible : i > cursor) => fired \/ notifying

(* Two items of a collection have different keys, also when clients send    *)
(* back whole collections with the keys batches minted: unless a batch was  *)
(* applied twice, or an update repeats a key or makes one up.               *)
ItemsDistinct == row # Absent /\ ~dirty /\ UpdatesOfReaders => Distinct(row)

(* When no more operations are put, every one is handled in the end, or was*)
(* skipped because its number became visible too late: errors, restarts     *)
(* and the wait for a notification hold nothing up for good, and no timer   *)
(* is needed for it.  (The runs put at most MaxOps operations.)              *)
EventuallyProcessed == []<>(Ids \subseteq processed \cup overlapped)

(* ops.ts and bsync-subscription.ts: every op is idempotent, a replay       *)
(* changes nothing.  A subscriber that has caught up and has handled        *)
(* everything shows what the log says, whatever was replayed.               *)
ReplayChangesNothing ==
  CaughtUp /\ lost = {} /\ processed = Visible => row = Fold(Visible)
=============================================================================
