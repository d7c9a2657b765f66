----------------------------- MODULE Sequencer -----------------------------
(***************************************************************************)
(* The PDS sequencer (packages/pds/src/sequencer/sequencer.ts): the        *)
(* autoincremented table repo_seq every repo, identity and account event   *)
(* of the server is appended to, the poller that reads the table and emits *)
(* the rows to the open streams, and the two steps of an account deletion: *)
(* append a Deleted event, then delete every other row of the account.     *)
(*                                                                         *)
(* A row's content never changes and a sequence number is never reused     *)
(* (AUTOINCREMENT), so a row is its number: evt[s] is what was inserted    *)
(* under s, and log is the set of numbers whose row is still in the table. *)
(* SQLite runs one statement at a time: a statement is one atomic action,  *)
(* and whatever its result is used for happens after an await, later.      *)
(***************************************************************************)
EXTENDS Integers, Sequences, FiniteSets

CONSTANTS Dids,       \* accounts
          MaxSeq,     \* bound: rows ever inserted
          PollLimit   \* rows per poll (1000 in the code)

ASSUME SequencerAssumption ==
  /\ MaxSeq \in Nat
  /\ PollLimit \in Nat \ {0}

VARIABLES evt,         \* evt[s]: the event inserted under sequence number s
          log,         \* sequence numbers of the rows now in repo_seq
          lastSeen,    \* Sequencer.lastSeen: the last row the poller emitted
          polled,      \* rows a poll has read and not emitted yet
          deleting,    \* Deleted events whose deletion has not purged yet
          overlapped,  \* history: accounts whose last deletions overlapped
          unpurged     \* history: accounts not cleanly purged since a deletion
                       \* of theirs overlapped, failed or was cut off

deletionVars == <<deleting, overlapped, unpurged>>
seqVars      == <<evt, log, lastSeen, polled, deletionVars>>

(* Only an account event of status Deleted is told apart from the others.  *)
Events     == [did : Dids, deleted : BOOLEAN]
Update(d)  == [did |-> d, deleted |-> FALSE]
Deleted(d) == [did |-> d, deleted |-> TRUE]

----------------------------------------------------------------------------
(* Queries.  A listing of S is a sequence with its members in order.       *)

Listings(S) ==
  {q \in [1 .. Cardinality(S) -> S] :
     /\ \A i, j \in 1 .. Cardinality(S) : i < j => q[i] < q[j]
     /\ \A s \in S : \E i \in 1 .. Cardinality(S) : q[i] = s}

FirstN(S, n) == {s \in S : Cardinality({r \in S : r < s}) < n}

Above(n) == {s \in log : s > n}

RequestSeqRange(earliest, limit) == Listings(FirstN(Above(earliest), limit))

IsCurr(n) == n \in log \cup {0} /\ \A s \in log : s <= n

----------------------------------------------------------------------------
SequencerInit ==
  /\ evt = <<>>
  /\ log = {}
  /\ lastSeen = 0
  /\ polled = <<>>
  /\ deleting = {}
  /\ overlapped = {}
  /\ unpurged = {}

(* One insert statement: the batch gets consecutive numbers, atomically.   *)
SequenceEvts(batch) ==
  /\ Len(evt) + Len(batch) <= MaxSeq
  /\ evt' = evt \o batch
  /\ log' = log \cup (Len(evt) + 1 .. Len(evt) + Len(batch))

Inserted(batch) == SequenceEvts(batch) /\ UNCHANGED <<lastSeen, polled, deletionVars>>

(* sequenceCommit, sequenceSync, sequenceIdentity, sequenceAccount         *)
SequenceOne(d) == Inserted(<<Update(d)>>)

(* identity, account, commit and sync events of a new account, atomically  *)
SequenceAccountCreation(d) == Inserted([i \in 1 .. 4 |-> Update(d)])

(* account, identity and sync events                                       *)
SequenceAccountActivation(d) == Inserted([i \in 1 .. 3 |-> Update(d)])

(* The account of a deletion under way.                                    *)
Deletees == {evt[s].did : s \in deleting}

(* sequenceAccountDeletion, up to its first await on the database.         *)
(* deleteAccount of the server and of the admin take no lock: two          *)
(* deletions of one account may overlap ...                                *)
SequenceAccountDeletion(d) ==
  /\ SequenceEvts(<<Deleted(d)>>)
  /\ deleting' = deleting \cup {Len(evt) + 1}
  /\ overlapped' = IF d \in Deletees THEN overlapped \cup {d} ELSE overlapped \ {d}
  /\ unpurged' = IF d \in Deletees THEN unpurged \cup {d} ELSE unpurged
  /\ UNCHANGED <<lastSeen, polled>>

(* Mutant: the purge does not spare the event just appended.               *)
PurgedWithTombstone(s) == {r \in log : evt[r].did = evt[s].did}

(* Mutant: the purge takes the rows after the event, not those before it.  *)
PurgedAfter(s) == {r \in log : evt[r].did = evt[s].did /\ r > s}

(* ... and its second statement.                                           *)
Purged(s) == {r \in log : evt[r].did = evt[s].did /\ r # s}

PurgeDeletedAccount(s) ==
  /\ s \in deleting
  /\ log' = log \ Purged(s)
  /\ deleting' = deleting \ {s}
  /\ unpurged' = IF evt[s].did \in overlapped THEN unpurged ELSE unpurged \ {evt[s].did}
  /\ UNCHANGED <<evt, lastSeen, polled, overlapped>>

(* It may also fail, when the database stays busy: nobody tries it again.  *)
PurgeFails(s) ==
  /\ s \in deleting
  /\ deleting' = deleting \ {s}
  /\ unpurged' = unpurged \cup {evt[s].did}
  /\ UNCHANGED <<evt, log, lastSeen, polled, overlapped>>

(* pollDb: the query.  An empty result, or an error, only backs off.       *)
PollQuery ==
  /\ polled = <<>>
  /\ Above(lastSeen) # {}
  /\ polled' \in RequestSeqRange(lastSeen, PollLimit)
  /\ UNCHANGED <<evt, log, lastSeen, deletionVars>>

(* Mutant: lastSeen moves one too far.                                     *)
PollEmitSkipsOne ==
  /\ polled # <<>>
  /\ lastSeen' = polled[Len(polled)] + 1
  /\ polled' = <<>>
  /\ UNCHANGED <<evt, log, deletionVars>>

(* pollDb after the await: emit('events') calls the listeners, in Outbox,  *)
(* synchronously; then lastSeen moves.                                     *)
PollEmit ==
  /\ polled # <<>>
  /\ lastSeen' = polled[Len(polled)]
  /\ polled' = <<>>
  /\ UNCHANGED <<evt, log, deletionVars>>

(* The process stops and starts again: start() takes lastSeen from curr(). *)
SequencerRestart ==
  /\ IsCurr(lastSeen')
  /\ polled' = <<>>
  /\ deleting' = {}
  /\ unpurged' = unpurged \cup Deletees
  /\ UNCHANGED <<evt, log, overlapped>>

Sequence(d) ==
  \/ SequenceOne(d)
  \/ SequenceAccountCreation(d)
  \/ SequenceAccountActivation(d)
  \/ SequenceAccountDeletion(d)

SequencerNext ==
  \/ \E d \in Dids : Sequence(d)
  \/ \E s \in deleting : PurgeDeletedAccount(s) \/ PurgeFails(s)
  \/ PollQuery
  \/ PollEmit
  \/ SequencerRestart

SequencerSpec == SequencerInit /\ [][SequencerNext]_seqVars

----------------------------------------------------------------------------
SequencerTypeOK ==
  /\ evt \in Seq(Events)
  /\ log \subseteq 1 .. Len(evt)
  /\ lastSeen \in 0 .. Len(evt)
  /\ polled \in Seq(1 .. Len(evt))
  /\ deleting \subseteq 1 .. Len(evt)
  /\ overlapped \subseteq Dids
  /\ unpurged \subseteq Dids

EverDeleted(d) == \E s \in 1 .. Len(evt) : evt[s] = Deleted(d)

(* What packages/pds/tests/account-deletion.test.ts looks for in repo_seq. *)
(* It is not an invariant: of two overlapping deletions of one account     *)
(* each purges the Deleted event of the other.                             *)
TombstoneKept ==
  \A d \in Dids : EverDeleted(d) => \E s \in log : evt[s] = Deleted(d)

(* Only overlapping deletions lose it, and the next deletion mends what    *)
(* they lost: of an account ever deleted whose last deletions did not      *)
(* overlap, repo_seq holds a Deleted event, over purges that fail, crashes *)
(* between the two statements and accounts that come back.                 *)
ForgottenOnlyByOverlap ==
  \A d \in Dids \ overlapped :
    EverDeleted(d) => \E s \in log : evt[s] = Deleted(d)

(* A deletion that has ended, with no purge cut off, failed or overlapped  *)
(* since the last clean one, leaves the Deleted event as the account's     *)
(* first row: a consumer that comes late meets no event of the account     *)
(* from before its deletion, whatever was sequenced, purged or restarted.  *)
DeletionComesFirst ==
  \A d \in Dids \ unpurged :
    (\E s \in 1 .. Len(evt) \ deleting : evt[s] = Deleted(d))
      => \E s \in log : /\ evt[s] = Deleted(d)
                        /\ \A r \in log : evt[r].did = d => s <= r

(* Inductive: the one deletion of an account that is under way alone finds *)
(* its own event, and an overlap counts as unpurged until a clean purge.   *)
SequencerInv ==
  /\ SequencerTypeOK
  /\ ForgottenOnlyByOverlap
  /\ DeletionComesFirst
  /\ overlapped \subseteq unpurged
  /\ \A s \in deleting : /\ evt[s].deleted
                         /\ evt[s].did \notin overlapped => s \in log
  /\ \A s, t \in deleting :
       evt[s].did = evt[t].did => s = t \/ evt[s].did \in overlapped
=============================================================================
