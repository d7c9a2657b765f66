----------------------------- MODULE Governance -----------------------------
(***************************************************************************)
(* The proposals of a community in the Matrix bridge                       *)
(* (services/matrix-bridge): the firehose consumer that tracks proposals   *)
(* and counts votes, and the periodic state machine that opens the voting  *)
(* and decides (proposals.ts), over the tables of the bridge's database.   *)
(*                                                                         *)
(* The consumer and the state machine are one process, but every statement *)
(* is awaited: between any two of them the others go on, and a crash takes *)
(* all.  The timer starts a run of the state machine every ten minutes and *)
(* does not look whether the last one is done: as many are under way as    *)
(* Runs has members.  The code lets the timer find a run anywhere; HeldUp  *)
(* bounds where it does, for the model checker.                            *)
(*                                                                         *)
(* A proposal is tracked under a uri made of its author and the            *)
(* millisecond it was seen at; here it is the number of its row, which     *)
(* clients learn from GET /api/proposals; 0 is any other uri, that of the  *)
(* proposal's record among them.  created_at comes from the client:        *)
(* deliberation may be over from the start, and the order of a community's *)
(* proposals is any.  The stream is what it will ever be; the consumer     *)
(* reads it at any pace.                                                   *)
(***************************************************************************)
EXTENDS Integers, Sequences, FiniteSets

CONSTANTS Communities, Voters,
          Members,    \* getEligibleVoterCount
          Quorum,     \* percent
          Threshold,  \* percent
          Postgres,   \* the database: PostgreSQL or SQLite
          Streams,    \* what clients publish: commits of proposals and votes
          Runs,       \* bound: runs of the state machine at one time
          HeldUp,     \* bound: where, with how many to go, in which stream
                      \* the timer finds a run that is under way
          MaxProposals, \* bound: proposals that are tracked
          MaxFaults   \* bound: crashes and statements that fail

Choices == {"for", "against", "abstain"}

Events == [kind : {"proposal"}, community : Communities]
            \cup [kind : {"vote"}, proposal : Nat, choice : Choices]

Commits == [did : Voters, ops : Seq(Events) \ {<<>>}]

ASSUME GovernanceAssumption ==
  /\ {Members, MaxProposals, MaxFaults} \subseteq Nat
  /\ {Quorum, Threshold} \subseteq 0 .. 100
  /\ Postgres \in BOOLEAN
  /\ Streams \subseteq Seq(Commits)
  /\ IsFiniteSet(Runs)

Decided == {"approved", "rejected", "tied", "quorum_not_met"}

VARIABLES stream,     \* the commits of the firehose
          lastSeq,    \* the commit that was received last
          op,         \* the record of it that was
          saved,      \* the cursor in the database
          step,       \* where its handler is, "idle" when it is done
          tracked,    \* authors of proposals tracked in the present millisecond
          cast,       \* rows of votes inserted in it
          rows,       \* table proposals
          votes,      \* table votes
          decisions,  \* table decisions
          ripe,       \* proposals whose deliberation is over
          over,       \* openings of proposals whose voting time has passed
          run,        \* the runs of processStateTransitions
          handled,    \* history: records whose handler ended
          overwritten,\* history: proposals with a vote in whose place another is
          inTime,     \* history: what was counted when the voting time passed
          overlap,    \* history: the most runs that were under way at once
          raced,      \* history: proposals set while another run had them in hand
          taken,      \* history: proposals with a fault between state and decision
          faults

tables    == <<rows, votes, decisions>>
clock     == <<ripe, over, inTime>>
uris      == <<tracked, cast>>
consumer  == <<lastSeq, op, saved, step, uris, handled, overwritten>>
machine   == <<run, overlap, raced, taken>>
vars      == <<stream, consumer, tables, clock, machine, faults>>

NoVotes == [c \in Choices |-> 0]
Idle    == [at |-> "idle", todo |-> {}, busy |-> {}, over |-> {}, seen |-> <<>>]

Total(counts) == counts["for"] + counts["against"] + counts["abstain"]

Proposals       == 1 .. Len(rows)
InState(states) == {p \in Proposals : rows[p].state \in states}

GovernanceInit ==
  /\ stream \in Streams /\ lastSeq = 0 /\ op = 0 /\ saved = 0 /\ step = "idle"
  /\ tracked = {} /\ cast = {}
  /\ rows = <<>> /\ votes = {} /\ decisions = {}
  /\ ripe = {} /\ over = {} /\ inTime = {}
  /\ run = [r \in Runs |-> Idle] /\ overlap = 0 /\ raced = {} /\ taken = {}
  /\ handled = {} /\ overwritten = {} /\ faults = 0

----------------------------------------------------------------------------
(* Time.                                                                   *)

DeliberationPasses(p) ==
  /\ p \in InState({"deliberating"}) \ ripe
  /\ ripe' = ripe \cup {p}
  /\ UNCHANGED <<stream, consumer, tables, over, inTime, machine, faults>>

(* Every opening of the voting has its own voting_ends_at; the later one   *)
(* is the later time.                                                      *)
VotingTimePasses(p) ==
  /\ \E k \in 1 .. rows[p].ends :
       /\ \A j \in 1 .. k : <<p, j>> \in over <=> j # k
       /\ over' = over \cup {<<p, k>>}
       /\ inTime' = inTime \cup {[proposal |-> p, ends |-> k, total |-> Total(rows[p].counts)]}
  /\ UNCHANGED <<stream, consumer, tables, ripe, machine, faults>>

----------------------------------------------------------------------------
(* The consumer.                                                           *)

Ops(n) == IF n = 0 THEN 0 ELSE Len(stream[n].ops)

Author == stream[lastSeq].did
Event  == stream[lastSeq].ops[op]

(* The records of a commit come one by one, all with its seq, to which     *)
(* lastSeq is set at the first, before it is handled.  The uri they get is *)
(* that of this millisecond, the same as the last one's or a new one.      *)
HandleEvent ==
  /\ step = "idle"
  /\ \/ /\ op < Ops(lastSeq)
        /\ op' = op + 1
        /\ UNCHANGED lastSeq
     \/ /\ op = Ops(lastSeq)
        /\ lastSeq < Len(stream)
        /\ lastSeq' = lastSeq + 1
        /\ op' = 1
  /\ step' = stream[lastSeq'].ops[op'].kind
  /\ \/ UNCHANGED uris
     \/ /\ tracked' = {}
        /\ cast' = {}
  /\ UNCHANGED <<stream, saved, handled, overwritten, tables, clock, machine, faults>>

Handled == step' = "idle" /\ handled' = handled \cup {<<lastSeq, op>>}

(* onProposalCreated: what has the uri of one that is tracked is dropped.  *)
InsertProposal ==
  /\ step = "proposal"
  /\ IF Author \in tracked
     THEN UNCHANGED <<rows, ripe, tracked>>
     ELSE /\ Len(rows) < MaxProposals
          /\ rows' = Append(rows, [community |-> Event.community, state |-> "deliberating",
                                   counts |-> NoVotes, ends |-> 0])
          /\ ripe' \in {ripe, ripe \cup {Len(rows')}}
          /\ tracked' = tracked \cup {Author}
  /\ Handled
  /\ UNCHANGED <<stream, lastSeq, op, saved, cast, overwritten, votes, decisions, over, inTime,
                 machine, faults>>

(* onVoteCast: for an unknown proposal, or outside of the voting window,   *)
(* the vote is ignored.                                                    *)
CheckVote ==
  /\ step = "vote"
  /\ IF Event.proposal \in InState({"voting"})
     THEN step' = "insertVote" /\ UNCHANGED handled
     ELSE Handled
  /\ UNCHANGED <<stream, lastSeq, op, saved, uris, overwritten, tables, clock, machine,
                 faults>>

(* Mutant: no index is on voter and proposal. *)
SameVoteNever(vote) == FALSE

(* idx_votes_voter_proposal.                                               *)
SameVote(vote) == vote.voter = Author /\ vote.proposal = Event.proposal

(* The primary key: the voter and the millisecond.                         *)
SameUri(vote) == vote.voter = Author /\ vote \in cast

(* SQLite puts the row in the place of those it conflicts with; PostgreSQL *)
(* only of the one with its uri, and refuses a second vote of a voter.     *)
InsertVote ==
  /\ step = "insertVote"
  /\ LET old == {vote \in votes : SameVote(vote) \/ SameUri(vote)}
         new == [voter |-> Author, proposal |-> Event.proposal, choice |-> Event.choice]
     IN  IF Postgres /\ \E vote \in old : ~SameUri(vote)
         THEN Handled /\ UNCHANGED <<votes, cast, overwritten>>
         ELSE /\ votes' = (votes \ old) \cup {new}
              /\ cast' = (cast \ old) \cup {new}
              /\ overwritten' = overwritten
                   \cup {vote.proposal : vote \in {other \in old : ~SameVote(other)}}
              /\ step' = "count"
              /\ UNCHANGED handled
  /\ UNCHANGED <<stream, lastSeq, op, saved, tracked, rows, decisions, clock, machine,
                 faults>>

Count(p) == [c \in Choices |->
  Cardinality({vote \in votes : vote.proposal = p /\ vote.choice = c})]

UpdateProposalVoteCounts ==
  /\ step = "count"
  /\ LET p == Event.proposal
     IN  rows' = [rows EXCEPT ![p].counts = Count(p)]
  /\ Handled
  /\ UNCHANGED <<stream, lastSeq, op, saved, uris, overwritten, votes, decisions, clock, machine,
                 faults>>

(* onError logs it, and the next record comes.                             *)
HandlerFails ==
  /\ step # "idle"
  /\ faults < MaxFaults
  /\ faults' = faults + 1
  /\ step' = "idle"
  /\ UNCHANGED <<stream, lastSeq, op, saved, uris, handled, overwritten, tables, clock, machine>>

(* Mutant: the cursor is the commit to go on with. *)
CursorAfter == IF lastSeq < Len(stream) THEN lastSeq + 1 ELSE lastSeq

Cursor == lastSeq

SaveCursor ==
  /\ saved # lastSeq
  /\ saved' = Cursor
  /\ UNCHANGED <<stream, lastSeq, op, step, uris, handled, overwritten, tables, clock, machine,
                 faults>>

----------------------------------------------------------------------------
(* processStateTransitions.                                                *)

UnderWay == {r \in Runs : run[r].at # "idle"}

Free == CHOOSE r \in Runs : run[r].at = "idle"

(* The timer fires: now is the time, and the list is read at once.         *)
BeginTransitions(r) ==
  /\ run[r].at = "idle"
  /\ r = Free
  /\ \A q \in UnderWay : <<stream, run[q].at, Cardinality(run[q].todo)>> \in HeldUp
  /\ run' = [run EXCEPT ![r] = [Idle EXCEPT !.at = "listed", !.over = over,
                                            !.todo = InState({"deliberating"})]]
  /\ overlap' = IF Cardinality(UnderWay') > overlap THEN Cardinality(UnderWay') ELSE overlap
  /\ UNCHANGED <<stream, consumer, tables, clock, raced, taken, faults>>

(* The communities where one is voted on already.                          *)
ReadActive(r) ==
  /\ run[r].at = "listed"
  /\ run' = [run EXCEPT ![r].at = "start",
                        ![r].busy = {rows[p].community : p \in InState({"voting"})}]
  /\ UNCHANGED <<stream, consumer, tables, clock, overlap, raced, taken, faults>>

(* Another run has the proposal in the list it has read.                   *)
InOtherHands(r, p) == \E q \in Runs \ {r} : p \in run[q].todo

RacedBy(r, p) == IF InOtherHands(r, p) THEN raced \cup {p} ELSE raced

(* Mutant: deliberation may be cut short. *)
CanVoteAtOnce(p) == TRUE

CanVote(p) == p \in ripe

(* Mutant: the proposals of one run do not wait for each other. *)
BusyWithout(r, p) == run[r].busy

BusyWith(r, p) == run[r].busy \cup {rows[p].community}

(* One proposal of the list, whose state is not looked at again.           *)
StartVoting(r, p) ==
  /\ run[r].at = "start"
  /\ p \in run[r].todo
  /\ IF rows[p].community \notin run[r].busy /\ CanVote(p)
     THEN /\ rows' = [rows EXCEPT ![p].state = "voting", ![p].ends = @ + 1]
          /\ run' = [run EXCEPT ![r].at = "opened", ![r].todo = @ \ {p},
                                ![r].busy = BusyWith(r, p)]
          /\ raced' = RacedBy(r, p)
     ELSE /\ run' = [run EXCEPT ![r].todo = @ \ {p}]
          /\ UNCHANGED <<rows, raced>>
  /\ UNCHANGED <<stream, consumer, votes, decisions, clock, overlap, taken, faults>>

Decide(r, voting, seen) ==
  IF voting = {} THEN Idle
  ELSE [run[r] EXCEPT !.at = "decide", !.todo = voting, !.busy = {}, !.seen = seen]

(* The rows as they are now: what changes later is not looked at.          *)
ReadVoting(r) ==
  /\ run[r].at = "start"
  /\ run[r].todo = {}
  /\ run' = [run EXCEPT ![r] = Decide(r, InState({"voting"}), [p \in InState({"voting"}) |->
                                 [counts |-> rows[p].counts, ends |-> rows[p].ends]])]
  /\ UNCHANGED <<stream, consumer, tables, clock, overlap, raced, taken, faults>>

(* Mutant: the time is not that of the beginning of the run. *)
DueByNow(r, p) == Postgres \/ <<p, run[r].seen[p].ends>> \in over

(* Mutant: the comparison the other way round. *)
DueSwapped(r, p) == <<p, run[r].seen[p].ends>> \notin run[r].over

(* now < p.voting_ends_at keeps the voting open.  PostgreSQL's TIMESTAMP   *)
(* comes as a Date, which a string is never less than.                     *)
Due(r, p) == Postgres \/ <<p, run[r].seen[p].ends>> \in run[r].over

QuorumNeeded == (Members * Quorum + 99) \div 100

Outcome(counts) ==
  LET all == counts["for"] + counts["against"]
  IN  IF Total(counts) < QuorumNeeded THEN "quorum_not_met"
      ELSE IF counts["for"] = counts["against"] THEN "tied"
      ELSE IF 100 * counts["for"] >= Threshold * all THEN "approved"
      ELSE "rejected"

FinalizeProposal(r, p) ==
  /\ run[r].at = "decide"
  /\ p \in run[r].todo
  /\ IF Due(r, p)
     THEN /\ rows' = [rows EXCEPT ![p].state = Outcome(run[r].seen[p].counts)]
          /\ run' = [run EXCEPT ![r].at = "record", ![r].busy = {p}]
          /\ raced' = RacedBy(r, p)
     ELSE /\ run' = [run EXCEPT ![r] = Decide(r, run[r].todo \ {p}, run[r].seen)]
          /\ UNCHANGED <<rows, raced>>
  /\ UNCHANGED <<stream, consumer, votes, decisions, clock, overlap, taken, faults>>

Decision(p, seen) ==
  [proposal |-> p, result |-> Outcome(seen.counts), counts |-> seen.counts, ends |-> seen.ends]

(* A proposal has one decision: a second one is refused, which ends the    *)
(* run.                                                                    *)
Insert(r, p, decision) ==
  /\ run[r].at = "record"
  /\ p \in run[r].busy
  /\ IF \E d \in decisions : d.proposal = p
     THEN run' = [run EXCEPT ![r] = Idle] /\ UNCHANGED decisions
     ELSE /\ decisions' = decisions \cup {decision}
          /\ run' = [run EXCEPT ![r].at = "recorded", ![r].todo = @ \ {p}, ![r].busy = {}]
  /\ UNCHANGED <<stream, consumer, rows, votes, clock, overlap, raced, taken, faults>>

(* Mutant: the decision is that of the counts at the time it is written. *)
InsertDecisionNow(r, p) == Insert(r, p, Decision(p, rows[p]))

InsertDecision(r, p) == Insert(r, p, Decision(p, run[r].seen[p]))

(* announceInMatrix is done, or has failed and the error is logged.        *)
Announced(r) ==
  /\ \/ run[r].at = "opened" /\ run' = [run EXCEPT ![r].at = "start"]
     \/ run[r].at = "recorded"
        /\ run' = [run EXCEPT ![r] = Decide(r, run[r].todo, run[r].seen)]
  /\ UNCHANGED <<stream, consumer, tables, clock, overlap, raced, taken, faults>>

(* The proposals whose state these runs have set and whose decision they   *)
(* have not written.                                                       *)
Recording(runs) == UNION {run[r].busy : r \in {q \in runs : run[q].at = "record"}}

(* What is left is for the next run.                                       *)
TransitionsFail(r) ==
  /\ run[r].at # "idle"
  /\ faults < MaxFaults
  /\ faults' = faults + 1
  /\ run' = [run EXCEPT ![r] = Idle]
  /\ taken' = taken \cup Recording({r})
  /\ UNCHANGED <<stream, consumer, tables, clock, overlap, raced>>

(* The consumer comes back with the cursor that was saved, behind the      *)
(* whole commit.  (A bridge without one starts at the tail, or with        *)
(* BRIDGE_BACKFILL_FROM_START at the start: saved is 0 then.)              *)
Crash ==
  /\ faults < MaxFaults
  /\ faults' = faults + 1
  /\ lastSeq' = saved
  /\ op' = Ops(saved)
  /\ step' = "idle"
  /\ tracked' = {} /\ cast' = {}
  /\ run' = [r \in Runs |-> Idle]
  /\ taken' = taken \cup Recording(Runs)
  /\ UNCHANGED <<stream, saved, handled, overwritten, tables, clock, overlap, raced>>

----------------------------------------------------------------------------
TimeNext == \E p \in Proposals : DeliberationPasses(p) \/ VotingTimePasses(p)

ConsumerNext ==
  \/ HandleEvent \/ InsertProposal \/ CheckVote \/ InsertVote \/ UpdateProposalVoteCounts

RunNext(r) ==
  \/ ReadActive(r) \/ ReadVoting(r) \/ Announced(r)
  \/ \E p \in Proposals : StartVoting(r, p) \/ FinalizeProposal(r, p) \/ InsertDecision(r, p)

GovernanceNext ==
  \/ TimeNext \/ ConsumerNext
  \/ \E r \in Runs : BeginTransitions(r) \/ RunNext(r) \/ TransitionsFail(r)
  \/ SaveCursor \/ HandlerFails \/ Crash

(* Time passes, the consumer reads on, the timer fires, and a run goes on: *)
(* Matrix answers, or fetch gives up.                                      *)
GovernanceSpec ==
  /\ GovernanceInit /\ [][GovernanceNext]_vars
  /\ WF_vars(TimeNext) /\ WF_vars(ConsumerNext)
  /\ WF_vars(\E r \in Runs : BeginTransitions(r))
  /\ \A r \in Runs : WF_vars(RunNext(r))

----------------------------------------------------------------------------
(* Properties.                                                             *)

Rows == [community : Communities, state : Decided \cup {"deliberating", "voting"},
         counts : [Choices -> Nat], ends : Nat]

(* Types; and no proposal is voted on before it was deliberated.           *)
GovernanceTypeOK ==
  /\ rows \in Seq(Rows)
  /\ votes \subseteq [voter : Voters, proposal : Proposals, choice : Choices]
  /\ decisions \subseteq [proposal : Proposals, result : Decided, counts : [Choices -> Nat],
                          ends : Nat]
  /\ step \in {"idle", "proposal", "vote", "insertVote", "count"}
  /\ \A r \in Runs :
       run[r].at \in {"idle", "listed", "start", "opened", "decide", "record", "recorded"}
  /\ {lastSeq, saved} \subseteq 0 .. Len(stream) /\ op \in 0 .. Ops(lastSeq)
  /\ \A p \in Proposals : rows[p].state # "deliberating" => p \in ripe

VotingIn(c) == {p \in InState({"voting"}) : rows[p].community = c}

(* The queue: as many proposals of a community are voted on at most as     *)
(* runs were ever under way at once, whatever run a crash or a failure     *)
(* ended halfway and whatever came meanwhile.  A run that does not overlap *)
(* with another keeps to one.                                              *)
OneVotingPerRun == \A c \in Communities : Cardinality(VotingIn(c)) <= overlap

(* One proposal per community is voted on at a time.  False: a run that    *)
(* waits for Matrix when the timer fires opens a second one.               *)
OneVoting == \A p, q \in InState({"voting"}) : rows[p].community = rows[q].community => p = q

Asked(p, choices) == {v \in Voters : \E n \in 1 .. Len(stream) :
  /\ stream[n].did = v
  /\ \E i \in 1 .. Ops(n) : LET e == stream[n].ops[i]
                            IN  e.kind = "vote" /\ e.proposal = p /\ e.choice \in choices}

(* No voter counts twice for a proposal, nor for what they did not choose, *)
(* when they vote again, a restart replays what was counted or two of      *)
(* their votes come in one millisecond.                                    *)
OneVoteEach ==
  \A p \in Proposals :
    /\ \A c \in Choices : rows[p].counts[c] <= Cardinality(Asked(p, {c}))
    /\ Total(rows[p].counts) <= Cardinality(Asked(p, Choices))

(* No decision comes before the voting time has passed, of the opening it  *)
(* is of, and what was counted by then is what it rests on, or votes that  *)
(* came later are counted with it: nothing is left out because a run had   *)
(* read the counts before.  Votes in whose place another one of the same   *)
(* millisecond came are lost.                                              *)
CountedInTime ==
  \A d \in decisions : \E t \in inTime :
    /\ t.proposal = d.proposal /\ t.ends = d.ends
    /\ d.proposal \in overwritten \/ t.total <= Total(d.counts)

(* A proposal has one decision.  It is the state the proposal got, though  *)
(* votes are still counted between the two statements, unless two runs had *)
(* the proposal in hand; and only a crash or a failure there leaves a      *)
(* proposal that is decided without one.                                   *)
DecisionUnlessRaced ==
  /\ \A d, e \in decisions : d.proposal = e.proposal => d = e
  /\ \A d \in decisions : d.proposal \in raced \/ rows[d.proposal].state = d.result
  /\ InState(Decided) \subseteq {d.proposal : d \in decisions} \cup Recording(Runs) \cup taken

(* Commits with a record that was received and is not handled.             *)
Lost == {n \in 1 .. lastSeq : \E i \in 1 .. Ops(n) :
  /\ <<n, i>> \notin handled
  /\ n = lastSeq => i < op \/ (i = op /\ step = "idle")}

(* A crash costs what is left of one commit, and a failed handler one      *)
(* record: no other commit loses anything, although the cursor moves       *)
(* before the first record is handled.                                     *)
CrashLosesOneCommit == Cardinality(Lost) <= faults

(* Every proposal is decided in the end: none waits in its queue for ever. *)
EventuallyDecided == <>[](\A p \in Proposals : rows[p].state \in Decided)

(* votingDays are the days voting remains open.                            *)
VotingRemainsOpen == \A p \in InState(Decided) : <<p, rows[p].ends>> \in over
=============================================================================
