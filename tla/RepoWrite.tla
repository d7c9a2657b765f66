----------------------------- MODULE RepoWrite -----------------------------
(***************************************************************************)
(* The writes to one repository of the PDS and the three databases they go *)
(* through: the actor's store (packages/pds/src/actor-store), in a         *)
(* transaction; the sequencer's, whose row is inserted before that         *)
(* transaction commits and outside of it; the account manager's, whose     *)
(* repo_root follows the commit.  With them the activation, deactivation   *)
(* and deletion of the account.                                            *)
(*                                                                         *)
(* A commit is its number in made, which holds the commit it was made on   *)
(* and the records of it.  A transaction of SQLite in WAL mode reads from  *)
(* the snapshot of its first read; its first write takes the lock of the   *)
(* database, or fails at once if another one has it or has committed since *)
(* (timeout: 0), and ActorDb.transaction starts it over.                   *)
(***************************************************************************)
EXTENDS RepoRequests, Sequences, FiniteSets

CONSTANTS Writers,           \* requests in flight at the same time
          NoRequest,
          AcceptingImports,  \* cfg.service.acceptingImports
          MaxRequests,       \* bound: requests
          MaxFaults,         \* bound: failed statements that lose no transaction
          MaxCrashes,        \* bound: crashes and failed COMMITs
          MaxActivations     \* bound: account activations

ASSUME RepoWriteAssumption ==
  /\ NoRequest \notin Writers \cup AllRequests
  /\ AcceptingImports \in BOOLEAN
  /\ {MaxRequests, MaxFaults, MaxCrashes, MaxActivations} \subseteq Nat

VARIABLES made,         \* made[c]: commit c, persisted or not
          roots,        \* the committed repo_root of the actor's store, after those before it
          lock,         \* the writer whose transaction has written
          txn,          \* txn[w]: where writer w is, and with what
          stream,       \* the rows of this repository in repo_seq
          accountRoot,  \* repo_root of the account database; 0 if no row
          status,       \* of the account, and how far its deletion is
          syncing,      \* activateAccount: NotSyncing, 0 before its read, the root it read
          acked,        \* history: commits clients were told of
          requests, faults, crashes, activations

NotSyncing == -1

storeVars   == <<made, roots, lock>>
accountVars == <<accountRoot, status, syncing, activations>>
countVars   == <<requests, faults, crashes>>
vars == <<storeVars, txn, stream, accountVars, acked, countVars>>

Statuses == {"active", "deactivated", "unlinked", "sequenced", "purged", "destroyed"}
Places   == {"idle", "asked", "formed", "applied", "sequenced", "committed"}

Idle     == [at |-> "idle", req |-> NoRequest, snap |-> 0, mine |-> 0]
Asked(r) == [at |-> "asked", req |-> r, snap |-> 0, mine |-> 0]

Event(kind, c) == [kind |-> kind, cid |-> c]

Root        == roots[Len(roots)]
HeadRecords == made[Root].records

(* createRepo: an empty repository, sequenced with its account.            *)
RepoInit ==
  /\ made = <<[prev |-> 0, records |-> [k \in Keys |-> Gone]]>>
  /\ roots = <<1>>
  /\ lock = NoRequest
  /\ txn = [w \in Writers |-> Idle]
  /\ stream = <<Event("commit", 1)>>
  /\ accountRoot = 1
  /\ status = "active" /\ syncing = NotSyncing
  /\ acked = {}
  /\ requests = 0 /\ faults = 0 /\ crashes = 0 /\ activations = 0

Goto(w, place)  == txn' = [txn EXCEPT ![w].at = place]
Ends(w)         == txn' = [txn EXCEPT ![w] = Idle]
StartsOver(w)   == txn' = [txn EXCEPT ![w] = Asked(txn[w].req)]
FaultHappens    == faults < MaxFaults /\ faults' = faults + 1 /\ UNCHANGED <<requests, crashes>>
CrashHappens    == crashes < MaxCrashes /\ crashes' = crashes + 1 /\ UNCHANGED <<requests, faults>>

----------------------------------------------------------------------------
(* A request comes, and the account may write: findAccount.                *)
Ask(w) ==
  /\ txn[w] = Idle
  /\ requests < MaxRequests
  /\ \E r \in Requests(Root, HeadRecords) \cup Imports :
       /\ IF r.api = "importRepo"
          THEN AcceptingImports /\ status \in {"active", "deactivated"}
          ELSE status = "active"
       /\ txn' = [txn EXCEPT ![w] = Asked(r)]
  /\ requests' = requests + 1
  /\ UNCHANGED <<storeVars, stream, accountVars, acked, faults, crashes>>

(* The transaction up to its first write: what it reads is of one moment,  *)
(* and it may change nothing and succeed ...                               *)
NoOp(w) ==
  /\ txn[w].at = "asked"
  /\ status # "destroyed"
  /\ IsNoOp(txn[w].req, HeadRecords)
  /\ Ends(w)
  /\ UNCHANGED <<storeVars, stream, accountVars, acked, countVars>>

(* ... or fail, on a bad swap, a tree that does not take it, no store ...  *)
Refused(w) ==
  /\ txn[w].at = "asked"
  /\ \/ status = "destroyed"
     \/ ~IsNoOp(txn[w].req, HeadRecords) /\ ~Fits(txn[w].req, Root, HeadRecords)
  /\ Ends(w)
  /\ UNCHANGED <<storeVars, stream, accountVars, acked, countVars>>

(* ... or form a commit on the root.                                       *)
FormCommit(w) ==
  /\ txn[w].at = "asked"
  /\ status # "destroyed"
  /\ Fits(txn[w].req, Root, HeadRecords)
  /\ txn' = [txn EXCEPT ![w].at = "formed", ![w].snap = Root]
  /\ UNCHANGED <<storeVars, stream, accountVars, acked, countVars>>

(* applyCommit, indexWrites and the blobs                                  *)
Persist(w) ==
  /\ made' = Append(made, [prev |-> txn[w].snap,
                           records |-> Applied(txn[w].req, made[txn[w].snap].records)])
  /\ lock' = w
  /\ txn' = [txn EXCEPT ![w].at = "applied", ![w].mine = Len(made')]
  /\ UNCHANGED <<roots, stream, accountVars, acked, countVars>>

MayWrite(w) == lock = NoRequest /\ txn[w].snap = Root

(* Mutant: the lock alone is enough to write.                              *)
ApplyCommitStale(w) == txn[w].at = "formed" /\ lock = NoRequest /\ Persist(w)

ApplyCommit(w) == txn[w].at = "formed" /\ MayWrite(w) /\ Persist(w)

(* SQLITE_BUSY or SQLITE_BUSY_SNAPSHOT: the transaction starts over ...    *)
Busy(w) ==
  /\ txn[w].at = "formed"
  /\ ~MayWrite(w)
  /\ StartsOver(w)
  /\ UNCHANGED <<storeVars, stream, accountVars, acked, countVars>>

(* ... until retrySqlite has waited for five seconds.                      *)
GiveUp(w) ==
  /\ txn[w].at = "formed"
  /\ ~MayWrite(w)
  /\ FaultHappens
  /\ Ends(w)
  /\ UNCHANGED <<storeVars, stream, accountVars, acked>>

Sequencing(w) == txn[w].at = "applied" /\ txn[w].req.api # "importRepo"

(* The row is in the sequencer's database, whatever becomes of the commit. *)
SequenceCommit(w) ==
  /\ Sequencing(w)
  /\ stream' = Append(stream, Event("commit", txn[w].mine))
  /\ Goto(w, "sequenced")
  /\ UNCHANGED <<storeVars, accountVars, acked, countVars>>

(* Mutant: the error is caught, and the transaction commits.               *)
SequencingFailureIgnored(w) ==
  /\ Sequencing(w)
  /\ FaultHappens
  /\ Goto(w, "sequenced")
  /\ UNCHANGED <<storeVars, stream, accountVars, acked>>

(* Mutant: the transaction is not rolled back.                             *)
SequencingFailureKeepsLock(w) ==
  /\ Sequencing(w)
  /\ FaultHappens
  /\ Ends(w)
  /\ UNCHANGED <<storeVars, stream, accountVars, acked>>

(* The insert fails: the transaction is rolled back and, if it failed on a *)
(* busy database, started over.                                            *)
SequencingFails(w) ==
  /\ Sequencing(w)
  /\ FaultHappens
  /\ lock' = NoRequest
  /\ Ends(w) \/ StartsOver(w)
  /\ UNCHANGED <<made, roots, stream, accountVars, acked>>

Committed(w) == roots' = Append(roots, txn[w].mine)

(* Mutant: the transaction commits before the row is inserted.             *)
CommitBeforeSequencing(w) ==
  /\ txn[w].at = "applied"
  /\ Committed(w)
  /\ lock' = NoRequest
  /\ Goto(w, "committed")
  /\ UNCHANGED <<made, stream, accountVars, acked, countVars>>

(* Mutant: the connection is not given back.                               *)
CommitKeepsLock(w) ==
  /\ txn[w].at = "sequenced"
  /\ Committed(w)
  /\ Goto(w, "committed")
  /\ UNCHANGED <<made, lock, stream, accountVars, acked, countVars>>

CommitTxn(w) ==
  /\ txn[w].at = "sequenced"
  /\ Committed(w)
  /\ lock' = NoRequest
  /\ Goto(w, "committed")
  /\ UNCHANGED <<made, stream, accountVars, acked, countVars>>

(* importRepo sequences nothing and leaves the account's root alone.       *)
CommitImport(w) ==
  /\ txn[w].at = "applied"
  /\ txn[w].req.api = "importRepo"
  /\ Committed(w)
  /\ lock' = NoRequest
  /\ acked' = acked \cup {txn[w].mine}
  /\ Ends(w)
  /\ UNCHANGED <<made, stream, accountVars, countVars>>

(* COMMIT fails, on the disk for one: this is not tried again.             *)
CommitFails(w) ==
  /\ lock = w
  /\ CrashHappens
  /\ lock' = NoRequest
  /\ Ends(w)
  /\ UNCHANGED <<made, roots, stream, accountVars, acked>>

(* accountManager.updateRepoRoot: an upsert, without a condition ...       *)
UpdateRepoRoot(w) ==
  /\ txn[w].at = "committed"
  /\ accountRoot' = txn[w].mine
  /\ acked' = acked \cup {txn[w].mine}
  /\ Ends(w)
  /\ UNCHANGED <<storeVars, stream, status, syncing, activations, countVars>>

(* ... whose failure is only logged.                                       *)
UpdateRepoRootFails(w) ==
  /\ txn[w].at = "committed"
  /\ FaultHappens
  /\ acked' = acked \cup {txn[w].mine}
  /\ Ends(w)
  /\ UNCHANGED <<storeVars, stream, accountVars>>

----------------------------------------------------------------------------
(* The account.                                                            *)
Present == status \in {"active", "deactivated"}

DeactivateAccount ==
  /\ status = "active"
  /\ status' = "deactivated"
  /\ UNCHANGED <<storeVars, txn, stream, accountRoot, syncing, activations, acked, countVars>>

(* activateAccount: the account database, then the root of the store, ...  *)
ActivateAccount ==
  /\ Present
  /\ syncing = NotSyncing
  /\ activations < MaxActivations
  /\ activations' = activations + 1
  /\ status' = "active"
  /\ syncing' = 0
  /\ UNCHANGED <<storeVars, txn, stream, accountRoot, acked, countVars>>

GetSyncEventData ==
  /\ syncing = 0
  /\ syncing' = IF Present THEN Root ELSE NotSyncing
  /\ UNCHANGED <<storeVars, txn, stream, accountRoot, status, activations, acked, countVars>>

(* ... and the row of a sync event, with the root that was read.           *)
SequenceAccountActivation ==
  /\ syncing > 0
  /\ stream' = Append(stream, Event("sync", syncing))
  /\ syncing' = NotSyncing
  /\ UNCHANGED <<storeVars, txn, accountRoot, status, activations, acked, countVars>>

(* deleteAccount: the account is unlinked, so that no request passes, ...  *)
UnlinkAccount ==
  /\ Present
  /\ status' = "unlinked"
  /\ accountRoot' = 0
  /\ UNCHANGED <<storeVars, txn, stream, syncing, activations, acked, countVars>>

(* ... the deletion is sequenced, the other rows are purged ...            *)
SequenceAccountDeletion ==
  /\ status = "unlinked"
  /\ stream' = Append(stream, Event("deleted", 0))
  /\ status' = "sequenced"
  /\ UNCHANGED <<storeVars, txn, accountRoot, syncing, activations, acked, countVars>>

PurgeDeletedAccount ==
  /\ status = "sequenced"
  /\ stream' = <<Event("deleted", 0)>>
  /\ status' = "purged"
  /\ UNCHANGED <<storeVars, txn, accountRoot, syncing, activations, acked, countVars>>

(* ... and, if one of these fails too, the store is destroyed.  What has   *)
(* it open keeps it.                                                       *)
DestroyStore ==
  /\ \/ status = "purged" /\ UNCHANGED countVars
     \/ status \in {"unlinked", "sequenced"} /\ FaultHappens
  /\ status' = "destroyed"
  /\ UNCHANGED <<storeVars, txn, stream, accountRoot, syncing, activations, acked>>

(* The server stops and starts again; who asks to delete may ask again.    *)
Crash ==
  /\ CrashHappens
  /\ txn' = [w \in Writers |-> Idle]
  /\ lock' = NoRequest
  /\ syncing' = NotSyncing
  /\ status' = IF status \in {"sequenced", "purged"} THEN "unlinked" ELSE status
  /\ UNCHANGED <<made, roots, stream, accountRoot, activations, acked>>

----------------------------------------------------------------------------
Work(w) ==
  \/ NoOp(w) \/ Refused(w) \/ FormCommit(w)
  \/ ApplyCommit(w) \/ Busy(w)
  \/ SequenceCommit(w)
  \/ CommitTxn(w) \/ CommitImport(w)
  \/ UpdateRepoRoot(w)

Fail(w) == GiveUp(w) \/ SequencingFails(w) \/ CommitFails(w) \/ UpdateRepoRootFails(w)

Account ==
  \/ DeactivateAccount \/ ActivateAccount \/ GetSyncEventData \/ SequenceAccountActivation
  \/ UnlinkAccount \/ SequenceAccountDeletion \/ PurgeDeletedAccount \/ DestroyStore

RepoNext ==
  \/ \E w \in Writers : Ask(w) \/ Work(w) \/ Fail(w)
  \/ Crash
  \/ Account

(* The server goes on with every request it has taken.                     *)
RepoSpec == RepoInit /\ [][RepoNext]_vars /\ \A w \in Writers : WF_vars(Work(w))
----------------------------------------------------------------------------
(* Types; and who has the lock is the writer with writes to commit.        *)
RepoTypeOK ==
  /\ made \in Seq([prev : Nat, records : Records])
  /\ roots \in Seq(1 .. Len(made)) /\ roots # <<>>
  /\ lock \in Writers \cup {NoRequest}
  /\ txn \in [Writers -> [at : Places, req : AllRequests \cup {NoRequest},
                           snap : 0 .. Len(made), mine : 0 .. Len(made)]]
  /\ stream \in Seq([kind : {"commit", "sync", "deleted"}, cid : 0 .. Len(made)])
  /\ accountRoot \in 0 .. Len(made)
  /\ status \in Statuses
  /\ syncing \in NotSyncing .. Len(made)
  /\ acked \subseteq 1 .. Len(made)
  /\ \A w \in Writers : txn[w].at \in {"applied", "sequenced"} <=> lock = w

(* No lost update: every commit of the store was made on the one before    *)
(* it, and no commit a client was told of is missing, whoever else was     *)
(* writing and whatever failed.                                            *)
NoLostUpdate ==
  /\ \A i \in 1 .. Len(roots) - 1 : made[roots[i + 1]].prev = roots[i]
  /\ \A c \in acked : \E i \in 1 .. Len(roots) : roots[i] = c

(* What the store has was sequenced before it committed, and in the order  *)
(* it committed: no crash makes a commit that no consumer hears of.        *)
(* Imports are not sequenced.                                              *)
Announced(i, j) ==
  \E k, l \in 1 .. Len(stream) :
    /\ k <= l
    /\ stream[k] = Event("commit", roots[i])
    /\ stream[l] = Event("commit", roots[j])

AnnouncedInOrder ==
  Present => \A i, j \in 1 .. Len(roots) : i <= j => Announced(i, j)

(* "since: The rev of the last emitted commit from this repo (if any)".    *)
SinceLastEmitted ==
  \A i, j \in 1 .. Len(stream) :
    /\ i < j
    /\ stream[i].kind = "commit" /\ stream[j].kind = "commit"
    /\ \A h \in i + 1 .. j - 1 : stream[h].kind # "commit"
    => made[stream[j].cid].prev = stream[i].cid

(* ... and so it is unless a commit was lost after it was sequenced.        *)
SinceUnlessCrashed == crashes = 0 => SinceLastEmitted

(* A sync event "updates the repo to a new state": not to one older than   *)
(* what was sequenced before it.                                           *)
SyncNeverBack ==
  \A i, j \in 1 .. Len(stream) :
    i < j /\ stream[j].kind = "sync" => stream[i].cid <= stream[j].cid

Quiet == \A w \in Writers : txn[w] = Idle

(* listRepos: "Current repo commit CID" is that of the store.              *)
HeadIsRoot == Quiet /\ Present => accountRoot = Root

(* Of a deleted account only the Deleted event is left.                    *)
DeletedLeavesNothing ==
  Quiet /\ status = "destroyed" => accountRoot = 0 /\ stream = <<Event("deleted", 0)>>

(* Every request is answered, or lost in a crash.                          *)
RequestsAnswered == \A w \in Writers : txn[w] # Idle ~> txn[w] = Idle

(* The transactions, retries and crashes come to requests that each take   *)
(* effect in one step, on the records and the commit they swap.            *)
Promise == INSTANCE RepoPromise WITH
  head <- Root,
  records <- HeadRecords,
  asked <- [w \in Writers |-> IF txn[w].at = "committed" THEN NoRequest ELSE txn[w].req]

TakesEffectAtOnce == Promise!PromiseSpec
=============================================================================
