----------------------------- MODULE SpaceRepo -----------------------------
(***************************************************************************)
(* A permissioned repository in the space its account governs, on the PDS  *)
(* (packages/pds/src/actor-store/space and api/com/atproto/space), and a   *)
(* consumer that keeps a verified copy of it (packages/space).             *)
(*                                                                         *)
(* applyWrites runs in a transaction of the account's SQLite store, one    *)
(* write after another; readers see what is committed.  getRepo reads the  *)
(* state of the repository first and then pages through the records, and    *)
(* listRepoOps reads a page of the operation log and then the state: none  *)
(* of it is inside of a transaction.  The consumer folds what it gets into *)
(* a set hash and accepts it when that is the hash of the commit.          *)
(*                                                                         *)
(* The set hash is a counter per element; a revision is its place among    *)
(* the commits; the value of a record is told apart by its cid.  Paths are *)
(* numbered in the order of their bytes.  MACs are left out.               *)
(***************************************************************************)
EXTENDS Integers, Sequences, FiniteSets

CONSTANTS Paths,       \* record paths, by their rank
          Cids,
          NoCid,       \* no record, or the cid of a delete
          Batches,     \* the batches of writes clients send
          PageSize,    \* records of a page of getRepo
          OpsLimit,    \* operations of a page of listRepoOps
          MaxCommits,  \* bound: commits
          MaxAborts,   \* bound: batches that fail
          MaxDeletes   \* bound: deletions of the space

Writes == [action : {"create", "update", "delete"}, path : Paths, cid : Cids \cup {NoCid}]

(* Beyond every index of a batch: a batch of more writes is refused. *)
MaxIdx == 200

ASSUME SpaceAssumption ==
  /\ Paths \subseteq Nat
  /\ NoCid \notin Cids
  /\ Batches \subseteq Seq(Writes)
  /\ \A b \in Batches :
       /\ Len(b) \in 1 .. MaxIdx
       /\ \A i \in 1 .. Len(b) : b[i].cid = NoCid <=> b[i].action = "delete"
  /\ {PageSize, OpsLimit} \subseteq Nat \ {0}
  /\ {MaxCommits, MaxAborts, MaxDeletes} \subseteq Nat

VARIABLES space,      \* the row of the space: "none", "live" or "deleted"
          records,    \* space_record: the cid at each path
          setHash,    \* space_repo.setHash
          rev,        \* space_repo.rev; 0 when null or without a row
          oplog,      \* space_record_oplog
          todo,       \* the writes the open transaction still has to do
          txRecords, txHash, txOps,   \* what it has written
          mode,       \* the consumer: "idle", "full", "ops", "apply" or "commit"
          commit,     \* the commit the answer came with: its rev and hash
          streamed,   \* the last path of the archive so far
          cursor,     \* the last operation received: its rev and index
          page,       \* operations received and not applied yet
          last,       \* the page was not full
          seen, seenHash, blank,      \* what it has folded; paths without a value
          at, have,   \* the copy it accepted last, and its revision
          refused,    \* what came last did not match its commit
          commits,    \* history: commits[r], the records of revision r and in which
                      \* life of the space, by the deletions before it
          begun,      \* history: deletions before the synchronisation began
          aborts, deletes

storeVars == <<space, records, setHash, rev, oplog>>
txVars    == <<todo, txRecords, txHash, txOps>>
syncVars  == <<mode, commit, streamed, cursor, page, last, seen, seenHash, blank, begun>>
haveVars  == <<at, have, refused>>
vars      == <<storeVars, txVars, syncVars, haveVars, commits, aborts, deletes>>

NoRecords == [p \in Paths |-> NoCid]
EmptyHash == [e \in Paths \X Cids |-> 0]
NoCommit  == [rev |-> 0, hash |-> EmptyHash]

(* The set hash of a set of records.                                       *)
HashOf(r) == [e \in Paths \X Cids |-> IF r[e[1]] = e[2] THEN 1 ELSE 0]

HashAdd(h, p, c)    == IF c = NoCid THEN h ELSE [h EXCEPT ![<<p, c>>] = @ + 1]
HashRemove(h, p, c) == IF c = NoCid THEN h ELSE [h EXCEPT ![<<p, c>>] = @ - 1]

(* Mutant: what was there before stays in the hash. *)
ApplyOpAddsOnly(h, p, cid, prev) == HashAdd(h, p, cid)

(* RepoCommit.applyOp.                                                     *)
ApplyOp(h, p, cid, prev) == HashAdd(HashRemove(h, p, prev), p, cid)

SpaceInit ==
  /\ space = "none" /\ records = NoRecords /\ setHash = EmptyHash /\ rev = 0 /\ oplog = <<>>
  /\ todo = <<>> /\ txRecords = NoRecords /\ txHash = EmptyHash /\ txOps = <<>>
  /\ mode = "idle" /\ commit = NoCommit /\ streamed = -1
  /\ cursor = <<0, 0>> /\ page = <<>> /\ last = FALSE
  /\ seen = NoRecords /\ seenHash = EmptyHash /\ blank = {}
  /\ begun = 0 /\ at = 0 /\ have = NoRecords /\ refused = FALSE
  /\ commits = <<>> /\ aborts = 0 /\ deletes = 0

----------------------------------------------------------------------------
(* The host.                                                               *)

InTransaction == todo # <<>>

CreateSpace ==
  /\ ~InTransaction
  /\ space # "live"
  /\ space' = "live"
  /\ UNCHANGED <<records, setHash, rev, oplog, txVars, syncVars, haveVars,
                 commits, aborts, deletes>>

(* The row stays as a tombstone; the repository goes with the space.       *)
DeleteSpace ==
  /\ ~InTransaction
  /\ space = "live"
  /\ deletes < MaxDeletes
  /\ deletes' = deletes + 1
  /\ space' = "deleted"
  /\ records' = NoRecords /\ setHash' = EmptyHash /\ rev' = 0 /\ oplog' = <<>>
  /\ UNCHANGED <<txVars, syncVars, haveVars, commits, aborts>>

BeginWrites(batch) ==
  /\ ~InTransaction
  /\ space = "live"
  /\ Len(commits) < MaxCommits
  /\ todo' = batch
  /\ txRecords' = records /\ txHash' = setHash /\ txOps' = <<>>
  /\ UNCHANGED <<storeVars, syncVars, haveVars, commits, aborts, deletes>>

(* A create needs a free path, an update or a delete a taken one.          *)
Fits(w) == (txRecords[w.path] = NoCid) <=> (w.action = "create")

(* Mutant: every operation of a batch gets the same index. *)
OpsAtZero(w) ==
  Append(txOps, [rev |-> Len(commits) + 1, idx |-> 0, action |-> w.action,
                 path |-> w.path, cid |-> w.cid, prev |-> txRecords[w.path]])

(* Mutant: a delete is not written to the log. *)
OpsWithoutDeletes(w) ==
  IF w.action = "delete" THEN txOps
  ELSE Append(txOps, [rev |-> Len(commits) + 1, idx |-> Len(txOps), action |-> w.action,
                      path |-> w.path, cid |-> w.cid, prev |-> txRecords[w.path]])

OpsWith(w) ==
  Append(txOps, [rev |-> Len(commits) + 1, idx |-> Len(txOps), action |-> w.action,
                 path |-> w.path, cid |-> w.cid, prev |-> txRecords[w.path]])

(* One write of the batch, on top of what the batch has built up; the last *)
(* one is followed by the commit.                                          *)
ApplyWrite ==
  /\ InTransaction
  /\ LET w    == Head(todo)
         recs == [txRecords EXCEPT ![w.path] = w.cid]
         hash == ApplyOp(txHash, w.path, w.cid, txRecords[w.path])
         ops  == OpsWith(w)
     IN  /\ Fits(w)
         /\ todo' = Tail(todo)
         /\ IF Tail(todo) # <<>>
            THEN /\ txRecords' = recs /\ txHash' = hash /\ txOps' = ops
                 /\ UNCHANGED <<storeVars, commits>>
            ELSE /\ records' = recs
                 /\ setHash' = hash
                 /\ rev' = Len(commits) + 1
                 /\ oplog' = oplog \o ops
                 /\ commits' = Append(commits, [life |-> deletes, records |-> recs])
                 /\ txRecords' = NoRecords /\ txHash' = EmptyHash /\ txOps' = <<>>
                 /\ UNCHANGED space
  /\ UNCHANGED <<syncVars, haveVars, aborts, deletes>>

(* RecordNotFound, RecordAlreadyExists, or a statement that fails.         *)
AbortWrites ==
  /\ InTransaction
  /\ aborts < MaxAborts
  /\ aborts' = aborts + 1
  /\ todo' = <<>>
  /\ txRecords' = NoRecords /\ txHash' = EmptyHash /\ txOps' = <<>>
  /\ UNCHANGED <<storeVars, syncVars, haveVars, commits, deletes>>

----------------------------------------------------------------------------
(* getRepo and verifyRepoStar: for a first copy, or after a refusal.       *)

(* buildCommit: there is no commit before the first write.                 *)
BeginFullSync ==
  /\ mode = "idle"
  /\ at = 0 \/ refused
  /\ rev # 0
  /\ mode' = "full"
  /\ commit' = [rev |-> rev, hash |-> setHash]
  /\ streamed' = -1
  /\ seen' = NoRecords /\ seenHash' = EmptyHash /\ blank' = {}
  /\ begun' = deletes
  /\ UNCHANGED <<storeVars, txVars, cursor, page, last, haveVars, commits, aborts, deletes>>

(* Mutant: the cursor skips the record after it. *)
NextRecordsSkip ==
  LET later == {p \in Paths : streamed + 1 < p /\ records[p] # NoCid}
  IN  {p \in later : Cardinality({q \in later : q < p}) < PageSize}

(* streamRecords: the first PageSize records after the last one streamed.  *)
NextRecords ==
  LET later == {p \in Paths : streamed < p /\ records[p] # NoCid}
  IN  {p \in later : Cardinality({q \in later : q < p}) < PageSize}

RecordsPage ==
  /\ mode = "full"
  /\ NextRecords # {}
  /\ streamed' \in NextRecords
  /\ \A p \in NextRecords : p <= streamed'
  /\ seen' = [p \in Paths |-> IF p \in NextRecords THEN records[p] ELSE seen[p]]
  /\ seenHash' = [e \in Paths \X Cids |->
       IF e[1] \in NextRecords /\ records[e[1]] = e[2] THEN seenHash[e] + 1 ELSE seenHash[e]]
  /\ UNCHANGED <<storeVars, txVars, mode, commit, cursor, page, last, blank, begun, haveVars,
                 commits, aborts, deletes>>

(* Mutant: the end of the archive is taken for its completeness. *)
MatchesAnything == TRUE

(* RepoCommit.matches.                                                     *)
Matches == seenHash = commit.hash

(* The consumer keeps what matches the commit; what does not, it throws    *)
(* away and asks for the whole repository next.                            *)
Verify ==
  /\ mode' = "idle"
  /\ IF Matches THEN at' = commit.rev /\ have' = seen /\ refused' = FALSE
     ELSE refused' = TRUE /\ UNCHANGED <<at, have>>
  /\ commit' = NoCommit /\ streamed' = -1 /\ cursor' = <<0, 0>> /\ last' = FALSE
  /\ seen' = NoRecords /\ seenHash' = EmptyHash /\ blank' = {} /\ begun' = 0

EndFullSync ==
  /\ mode = "full"
  /\ NextRecords = {}
  /\ Verify
  /\ UNCHANGED <<storeVars, txVars, page, commits, aborts, deletes>>

----------------------------------------------------------------------------
(* listRepoOps and RepoCommit.applyOps.                                    *)

BeginOpsSync ==
  /\ mode = "idle"
  /\ at # 0 /\ ~refused
  /\ mode' = "ops"
  /\ cursor' = <<at, MaxIdx>>
  /\ seen' = have /\ seenHash' = HashOf(have) /\ blank' = {}
  /\ begun' = deletes
  /\ UNCHANGED <<storeVars, txVars, commit, streamed, page, last, haveVars,
                 commits, aborts, deletes>>

Beyond(op) == \/ op.rev > cursor[1]
              \/ op.rev = cursor[1] /\ op.idx > cursor[2]

(* Mutant: only what a create wrote comes with the operation. *)
ValuesOfCreates(op) == op.action = "create" /\ records[op.path] = op.cid

(* The join on uri and cid: the value comes while it is the current one.   *)
HasValue(op) == records[op.path] = op.cid

(* The log is in the order of revisions and indexes: the page begins after *)
(* the operations that are not beyond the cursor.                          *)
Received == Cardinality({i \in 1 .. Len(oplog) : ~Beyond(oplog[i])})

PageOp(op) == [path |-> op.path, cid |-> op.cid, prev |-> op.prev, value |-> HasValue(op)]

OpsPage ==
  /\ mode = "ops"
  /\ LET left  == Len(oplog) - Received
         n     == IF left < OpsLimit THEN left ELSE OpsLimit
         final == oplog[Received + n]
     IN  /\ page' = [i \in 1 .. n |-> PageOp(oplog[Received + i])]
         /\ cursor' = IF n = 0 THEN cursor ELSE <<final.rev, final.idx>>
         /\ mode' = IF n = OpsLimit THEN "apply" ELSE "commit"
  /\ last' = FALSE
  /\ UNCHANGED <<storeVars, txVars, commit, streamed, seen, seenHash, blank, begun, haveVars,
                 commits, aborts, deletes>>

(* The state is read by a statement of its own.  It may be gone: the       *)
(* answer has a cursor then if it has operations, and no commit.           *)
ReadCommit ==
  /\ mode = "commit"
  /\ commit' = [rev |-> rev, hash |-> setHash]
  /\ last' = (rev # 0)
  /\ mode' = IF rev = 0 /\ page = <<>> THEN "idle" ELSE "apply"
  /\ UNCHANGED <<storeVars, txVars, cursor, streamed, page, seen, seenHash, blank, begun, haveVars,
                 commits, aborts, deletes>>

ApplyPageOp ==
  /\ mode = "apply"
  /\ page # <<>>
  /\ LET op == Head(page)
     IN  /\ seen' = [seen EXCEPT ![op.path] = op.cid]
         /\ seenHash' = ApplyOp(seenHash, op.path, op.cid, op.prev)
         /\ blank' = IF op.value \/ op.cid = NoCid THEN blank \ {op.path}
                     ELSE blank \cup {op.path}
  /\ page' = Tail(page)
  /\ UNCHANGED <<storeVars, txVars, mode, commit, cursor, streamed, last, begun, haveVars,
                 commits, aborts, deletes>>

AskForMoreOps ==
  /\ mode = "apply"
  /\ page = <<>>
  /\ ~last
  /\ mode' = "ops"
  /\ UNCHANGED <<storeVars, txVars, commit, cursor, streamed, page, last, seen, seenHash,
                 blank, begun, haveVars, commits, aborts, deletes>>

EndOpsSync ==
  /\ mode = "apply"
  /\ page = <<>>
  /\ last
  /\ Verify
  /\ UNCHANGED <<storeVars, txVars, page, commits, aborts, deletes>>

----------------------------------------------------------------------------
HostNext ==
  \/ CreateSpace
  \/ DeleteSpace
  \/ \E b \in Batches : BeginWrites(b)
  \/ ApplyWrite
  \/ AbortWrites

FullNext == BeginFullSync \/ RecordsPage \/ EndFullSync

OpsNext ==
  BeginOpsSync \/ OpsPage \/ ReadCommit \/ ApplyPageOp \/ AskForMoreOps \/ EndOpsSync

SpaceNext == HostNext \/ FullNext \/ OpsNext

(* The consumer keeps asking.                                              *)
SpaceSpec == SpaceInit /\ [][SpaceNext]_vars /\ WF_vars(FullNext \/ OpsNext)

----------------------------------------------------------------------------
(* Properties.                                                             *)

Contents == [Paths -> Cids \cup {NoCid}]
Hashes   == [Paths \X Cids -> Int]
Ops      == [rev : Nat, idx : Nat, action : {"create", "update", "delete"},
             path : Paths, cid : Cids \cup {NoCid}, prev : Cids \cup {NoCid}]

(* Types; the operation log is in the order of its revisions and indexes.  *)
SpaceTypeOK ==
  /\ space \in {"none", "live", "deleted"}
  /\ {records, txRecords, seen, have} \subseteq Contents
  /\ {setHash, txHash, seenHash, commit.hash} \subseteq Hashes
  /\ {rev, at, commit.rev} \subseteq 0 .. Len(commits)
  /\ {oplog, txOps} \subseteq Seq(Ops)
  /\ \A i, j \in 1 .. Len(oplog) : i < j =>
       \/ oplog[i].rev < oplog[j].rev
       \/ oplog[i].rev = oplog[j].rev /\ oplog[i].idx < oplog[j].idx
  /\ todo \in Seq(Writes)
  /\ mode \in {"idle", "full", "ops", "commit", "apply"}
  /\ blank \subseteq Paths
  /\ \A r \in 1 .. Len(commits) : commits[r] \in [life : 0 .. deletes, records : Contents]

(* The set hash that is committed is that of the records, through batches  *)
(* that create, update and delete one path, batches that fail halfway and  *)
(* deletions of the space.                                                 *)
HashIsRecords == setHash = HashOf(records)

(* The records after each of the operations of s, from the records r.      *)
States(r, s) ==
  LET after[i \in 0 .. Len(s)] ==
        IF i = 0 THEN r ELSE [after[i - 1] EXCEPT ![s[i].path] = s[i].cid]
  IN  after

Replay(r, s) == States(r, s)[Len(s)]

UpTo(r)  == Cardinality({i \in 1 .. Len(oplog) : oplog[i].rev <= r})
Since(r) == SubSeq(oplog, UpTo(r) + 1, Len(oplog))

(* The log leads from nothing to the records there are, and from those of  *)
(* every commit since the space was created, by what it says since.        *)
OplogReplays ==
  /\ Replay(NoRecords, oplog) = records
  /\ \A r \in 1 .. Len(commits) :
       commits[r].life = deletes => Replay(commits[r].records, Since(r)) = records

(* A copy that is complete has the value of every record, whether or not  *)
(* it matches the commit: those the host left off because a later          *)
(* operation replaced them are not in it.                                  *)
(* (When the space is deleted and created again between two pages, with    *)
(* the records the first page led to, one may be missing.)                 *)
Ended == \/ mode = "full" /\ NextRecords = {}
         \/ mode = "apply" /\ page = <<>> /\ last

AcceptedHasValues == Ended /\ begun = deletes => blank = {}

Promise == INSTANCE SpacePromise

(* Whatever the consumer accepts is a commit of the host as a whole and    *)
(* none older than it had, whichever way the pages were torn by writes, a  *)
(* deletion or a new creation between them.  Only a copy of a former life  *)
(* of the space, brought up to date with the operations of the next one,   *)
(* may match a commit it does not hold: a record both lives have is twice  *)
(* in the sum.  What is accepted on top of such a copy is no better.       *)
ReadsCommitted == Promise!PromiseSpec

(* When the writes end the consumer comes to have the last commit, unless  *)
(* the space is deleted.                                                   *)
CatchesUp == <>[](rev # 0 => at = rev /\ have = records)
=============================================================================
