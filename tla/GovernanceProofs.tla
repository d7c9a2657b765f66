-------------------------- MODULE GovernanceProofs --------------------------
(* Proofs about proposals and votes, for every community, every rule of    *)
(* it, every stream of commits, any number of runs of the state machine    *)
(* that overlap wherever the timer finds them, and any number of faults.   *)
EXTENDS Governance, FunctionTheorems, FiniteSetTheorems, SequenceTheorems, TLAPS

USE GovernanceAssumption

----------------------------------------------------------------------------
(* The inductive invariant, in parts that rest on the ones before: types;  *)
(* the queue of a community; a proposal that no two runs had in hand; the  *)
(* votes; and what was counted in time.                                    *)

Recorded == {d.proposal : d \in decisions}

Tally == [counts : [Choices -> Nat], ends : Nat]

Opening  == {"listed", "start", "opened"}
Deciding == {"decide", "record", "recorded"}

RunState == [at : {"idle"} \cup Opening \cup Deciding, todo : SUBSET Nat,
             busy : SUBSET (Nat \cup Communities), over : SUBSET (Nat \X Nat),
             seen : UNION {[S -> Tally] : S \in SUBSET Nat}]

ConsumerOK ==
  /\ stream \in Streams
  /\ lastSeq \in 0 .. Len(stream) /\ saved \in 0 .. lastSeq /\ op \in 0 .. Ops(lastSeq)
  /\ step \in {"idle", "proposal", "vote", "insertVote", "count"}
  /\ step # "idle" =>
       /\ lastSeq > 0 /\ op > 0
       /\ Event.kind = (IF step = "proposal" THEN "proposal" ELSE "vote")
  /\ faults \in Nat

TablesOK ==
  /\ step \in {"insertVote", "count"} => Event.proposal \in Proposals
  /\ rows \in Seq(Rows)
  /\ votes \subseteq [voter : Voters, proposal : Proposals, choice : Choices]
  /\ IsFiniteSet(votes)
  /\ decisions \subseteq [proposal : Proposals, result : Decided, counts : [Choices -> Nat],
                          ends : Nat]
  /\ over \subseteq Nat \X Nat
  /\ inTime \subseteq [proposal : Proposals, ends : Nat, total : Nat]
  /\ \A p \in Proposals : rows[p].state # "deliberating" => p \in ripe

RunsOK ==
  /\ run \in [Runs -> RunState]
  /\ \A r \in Runs :
       /\ run[r].todo \subseteq Proposals /\ run[r].over \subseteq over
       /\ run[r].at \in Deciding => run[r].todo \subseteq ripe \cap DOMAIN run[r].seen
       /\ run[r].at = "record" => \E p \in run[r].todo : run[r].busy = {p}

TypesOK == ConsumerOK /\ TablesOK /\ RunsOK

(* The runs that may still open a voting of the community.                 *)
Openers(c) == {r \in Runs : run[r].at \in {"start", "opened"} /\ c \notin run[r].busy}

(* A run joins them only when the community has no voting, and leaves them *)
(* when it opens one.                                                      *)
QueueOK ==
  /\ overlap \in Nat /\ Cardinality(UnderWay) <= overlap
  /\ \A c \in Communities : Cardinality(VotingIn(c)) + Cardinality(Openers(c)) <= overlap

(* A run that has a proposal in hand knows its state, if no other had.     *)
InHand(r, p) ==
  \/ run[r].at \in Opening /\ rows[p].state = "deliberating"
  \/ /\ run[r].at \in Deciding /\ rows[p].state = "voting"
     /\ run[r].at = "record" => p \notin run[r].busy
  \/ /\ run[r].at = "record" /\ run[r].busy = {p}
     /\ rows[p].state = Outcome(run[r].seen[p].counts)
     /\ p \notin Recorded /\ \A q \in Runs \ {r} : p \notin run[q].todo

HandsOK ==
  \A p \in Proposals \ raced :
    /\ \A d \in decisions : d.proposal = p => rows[p].state = d.result
    /\ \A r \in Runs : p \in run[r].todo => InHand(r, p)

DecisionsOK ==
  /\ \A d, e \in decisions : d.proposal = e.proposal => d = e
  /\ InState(Decided) \subseteq Recorded \cup Recording(Runs) \cup taken

VotedFor(p, S) == {v \in Voters : \E vote \in votes :
  vote.voter = v /\ vote.proposal = p /\ vote.choice \in S}

(* A row per voter and proposal, each asked for by the stream, and counts  *)
(* that are numbers of voters.                                             *)
VotesOK ==
  /\ \A u, w \in votes : u.voter = w.voter /\ u.proposal = w.proposal => u = w
  /\ \A w \in votes : w.voter \in Asked(w.proposal, {w.choice})
  /\ \A p \in Proposals :
       /\ \A c \in Choices : rows[p].counts[c] <= Cardinality(Asked(p, {c}))
       /\ Total(rows[p].counts) <= Cardinality(Asked(p, Choices))
       /\ p \notin overwritten => Total(rows[p].counts) <= Cardinality(VotedFor(p, Choices))
  /\ \A t \in inTime : t.proposal \in overwritten \/ t.total <= Total(rows[t.proposal].counts)

(* The run has counted what was counted when the time had passed.          *)
SeenAll(r, p) ==
  <<p, run[r].seen[p].ends>> \in run[r].over =>
    \A t \in inTime : t.proposal = p /\ t.ends = run[r].seen[p].ends =>
      p \in overwritten \/ t.total <= Total(run[r].seen[p].counts)

TimedOK ==
  /\ \A pair \in over : \E t \in inTime : pair = <<t.proposal, t.ends>>
  /\ \A r \in Runs :
       /\ run[r].at \in Deciding => \A p \in run[r].todo : SeenAll(r, p)
       /\ run[r].at = "record" =>
            \A p \in run[r].busy : <<p, run[r].seen[p].ends>> \in run[r].over
  /\ CountedInTime

----------------------------------------------------------------------------
(* Commits, records, rows and outcomes.                                    *)

LEMMA CommitType ==
  ASSUME stream \in Streams, NEW n \in 1 .. Len(stream)
  PROVE  /\ stream[n].did \in Voters /\ stream[n].ops \in Seq(Events)
         /\ Ops(n) = Len(stream[n].ops) /\ Ops(n) \in Nat /\ Ops(n) > 0
         /\ \A i \in 1 .. Ops(n) : /\ stream[n].ops[i] \in Events
                                   /\ stream[n].ops[i].kind \in {"proposal", "vote"}
<1>1. stream \in Seq(Commits) /\ Len(stream) \in Nat
  OBVIOUS
<1>2. stream[n] \in Commits /\ n # 0
  BY <1>1
<1>3. stream[n].did \in Voters /\ stream[n].ops \in Seq(Events) /\ stream[n].ops # <<>>
  BY <1>2 DEF Commits
<1>4. Ops(n) = Len(stream[n].ops) /\ Ops(n) \in Nat /\ Ops(n) # 0
  BY <1>2, <1>3, EmptySeq DEF Ops
<1>5. \A i \in 1 .. Ops(n) : stream[n].ops[i] \in Events
  BY <1>3, <1>4
<1> QED
  BY <1>3, <1>4, <1>5 DEF Events

LEMMA OpsType ==
  ASSUME stream \in Streams, NEW n \in 0 .. Len(stream)
  PROVE  Ops(n) \in Nat
<1>1. CASE n = 0
  BY <1>1 DEF Ops
<1>2. CASE n # 0
  BY <1>2, CommitType
<1> QED
  BY <1>1, <1>2

LEMMA SeqType ==
  ASSUME ConsumerOK
  PROVE  /\ Len(stream) \in Nat /\ lastSeq \in Nat /\ saved \in Nat /\ op \in Nat
         /\ Ops(lastSeq) \in Nat
<1>1. Len(stream) \in Nat /\ Ops(lastSeq) \in Nat
  BY OpsType DEF ConsumerOK
<1> QED
  BY <1>1 DEF ConsumerOK

LEMMA EventType ==
  ASSUME ConsumerOK, step # "idle"
  PROVE  /\ lastSeq \in 1 .. Len(stream) /\ op \in 1 .. Ops(lastSeq) /\ Author \in Voters
         /\ step = "proposal" => Event.community \in Communities
         /\ step # "proposal" => /\ Event.kind = "vote" /\ Event.proposal \in Nat
                                 /\ Event.choice \in Choices
<1>1. lastSeq \in 1 .. Len(stream) /\ op \in 1 .. Ops(lastSeq)
  BY SeqType DEF ConsumerOK
<1>2. Author \in Voters /\ Event \in Events
  BY <1>1, CommitType DEF Author, Event, ConsumerOK
<1>3. Event.kind = (IF step = "proposal" THEN "proposal" ELSE "vote")
  BY DEF ConsumerOK
<1> QED
  BY <1>1, <1>2, <1>3 DEF Events

LEMMA OutcomeType ==
  ASSUME NEW counts PROVE Outcome(counts) \in Decided
BY DEF Outcome, Decided

LEMMA TotalType ==
  ASSUME NEW counts \in [Choices -> Nat] PROVE Total(counts) \in Nat
BY DEF Total, Choices

LEMMA RowsType ==
  ASSUME TablesOK
  PROVE  /\ Len(rows) \in Nat
         /\ \A p \in Proposals : /\ rows[p] \in Rows /\ rows[p].ends \in Nat
                                 /\ rows[p].state \in Decided \cup {"deliberating", "voting"}
                                 /\ rows[p].community \in Communities
                                 /\ rows[p].counts \in [Choices -> Nat]
                                 /\ Total(rows[p].counts) \in Nat
<1>1. rows \in Seq(Rows) /\ Proposals = 1 .. Len(rows)
  BY DEF TablesOK, Proposals
<1>2. Len(rows) \in Nat /\ \A p \in Proposals : rows[p] \in Rows
  BY <1>1
<1>3. \A p \in Proposals : rows[p].counts \in [Choices -> Nat]
  BY <1>2 DEF Rows
<1> QED
  BY <1>2, <1>3, TotalType DEF Rows

LEMMA InStateFinite ==
  ASSUME TablesOK, NEW c
  PROVE  IsFiniteSet(VotingIn(c)) /\ Cardinality(VotingIn(c)) \in Nat
<1>1. VotingIn(c) \subseteq 1 .. Len(rows) /\ IsFiniteSet(1 .. Len(rows))
  BY RowsType, FS_Interval DEF VotingIn, InState, Proposals
<1> QED
  BY <1>1, FS_Subset, FS_CardinalityType

(* One row in another's place.                                             *)
LEMMA RowUpdate ==
  ASSUME TablesOK, NEW p \in Proposals, NEW e \in Rows,
         DOMAIN rows' = DOMAIN rows, rows' = [rows EXCEPT ![p] = e]
  PROVE  /\ rows' \in Seq(Rows) /\ Proposals' = Proposals
         /\ \A q \in Proposals : rows'[q] = IF q = p THEN e ELSE rows[q]
<1>1. rows \in Seq(Rows) /\ p \in 1 .. Len(rows)
  BY DEF TablesOK, Proposals
<1>2. rows' \in Seq(Rows) /\ Len(rows') = Len(rows)
      /\ \A q \in 1 .. Len(rows) : rows'[q] = IF q = p THEN e ELSE rows[q]
  BY <1>1, ExceptSeq
<1> QED
  BY <1>2 DEF Proposals

LEMMA StateUpdate ==
  ASSUME TablesOK, NEW p \in Proposals, NEW s \in Decided,
         rows' = [rows EXCEPT ![p].state = s]
  PROVE  /\ rows' \in Seq(Rows) /\ Proposals' = Proposals /\ rows'[p].state = s
         /\ \A q \in Proposals : /\ rows'[q].community = rows[q].community
                                 /\ rows'[q].counts = rows[q].counts
                                 /\ q # p => rows'[q] = rows[q]
<1> DEFINE e == [rows[p] EXCEPT !.state = s]
<1>1. e \in Rows /\ e.state = s /\ e.community = rows[p].community /\ e.counts = rows[p].counts
  BY RowsType DEF Rows
<1>2. rows' = [rows EXCEPT ![p] = e] /\ DOMAIN rows' = DOMAIN rows
  OBVIOUS
<1> HIDE DEF e
<1>3. /\ rows' \in Seq(Rows) /\ Proposals' = Proposals
      /\ \A q \in Proposals : rows'[q] = IF q = p THEN e ELSE rows[q]
  BY <1>1, <1>2, RowUpdate
<1> QED
  BY <1>1, <1>3

LEMMA VotingUpdate ==
  ASSUME TablesOK, NEW p \in Proposals,
         rows' = [rows EXCEPT ![p].state = "voting", ![p].ends = @ + 1]
  PROVE  /\ rows' \in Seq(Rows) /\ Proposals' = Proposals /\ rows'[p].state = "voting"
         /\ \A q \in Proposals : /\ rows'[q].community = rows[q].community
                                 /\ rows'[q].counts = rows[q].counts
                                 /\ q # p => rows'[q] = rows[q]
<1> DEFINE e == [rows[p] EXCEPT !.state = "voting", !.ends = @ + 1]
<1>1. /\ e \in Rows /\ e.state = "voting" /\ e.community = rows[p].community
      /\ e.counts = rows[p].counts
  <2>1. rows[p] \in Rows /\ rows[p].ends + 1 \in Nat
    BY RowsType
  <2> QED
    BY <2>1 DEF Rows
<1>2. rows' = [rows EXCEPT ![p] = e] /\ DOMAIN rows' = DOMAIN rows
  BY DEF TablesOK, Proposals
<1> HIDE DEF e
<1>3. /\ rows' \in Seq(Rows) /\ Proposals' = Proposals
      /\ \A q \in Proposals : rows'[q] = IF q = p THEN e ELSE rows[q]
  BY <1>1, <1>2, RowUpdate
<1> QED
  BY <1>1, <1>3

LEMMA CountsUpdate ==
  ASSUME TablesOK, NEW p \in Proposals, NEW n \in [Choices -> Nat],
         rows' = [rows EXCEPT ![p].counts = n]
  PROVE  /\ rows' \in Seq(Rows) /\ Proposals' = Proposals /\ rows'[p].counts = n
         /\ \A q \in Proposals : /\ rows'[q].community = rows[q].community
                                 /\ rows'[q].state = rows[q].state
                                 /\ q # p => rows'[q] = rows[q]
<1> DEFINE e == [rows[p] EXCEPT !.counts = n]
<1>1. e \in Rows /\ e.counts = n /\ e.community = rows[p].community /\ e.state = rows[p].state
  BY RowsType DEF Rows
<1>2. rows' = [rows EXCEPT ![p] = e] /\ DOMAIN rows' = DOMAIN rows
  OBVIOUS
<1> HIDE DEF e
<1>3. /\ rows' \in Seq(Rows) /\ Proposals' = Proposals
      /\ \A q \in Proposals : rows'[q] = IF q = p THEN e ELSE rows[q]
  BY <1>1, <1>2, RowUpdate
<1> QED
  BY <1>1, <1>3

LEMMA NewRow ==
  ASSUME TypesOK, InsertProposal, rows' # rows
  PROVE  /\ rows' \in Seq(Rows) /\ Proposals' = Proposals \cup {Len(rows')}
         /\ Len(rows') \notin Proposals
         /\ \A q \in Proposals : rows'[q] = rows[q]
         /\ rows'[Len(rows')].state = "deliberating" /\ rows'[Len(rows')].counts = NoVotes
<1> DEFINE row == [community |-> Event.community, state |-> "deliberating",
                   counts |-> NoVotes, ends |-> 0]
<1>1. row \in Rows /\ row.state = "deliberating" /\ row.counts = NoVotes
  BY EventType DEF TypesOK, InsertProposal, NoVotes, Rows
<1>2. rows' = Append(rows, row) /\ rows \in Seq(Rows) /\ Len(rows) \in Nat
  BY RowsType DEF TypesOK, TablesOK, InsertProposal
<1> HIDE DEF row
<1>3. /\ rows' \in Seq(Rows) /\ Len(rows') = Len(rows) + 1 /\ rows'[Len(rows) + 1] = row
      /\ \A q \in 1 .. Len(rows) : rows'[q] = rows[q]
  BY <1>1, <1>2, AppendProperties
<1>4. 1 .. (Len(rows) + 1) = (1 .. Len(rows)) \cup {Len(rows) + 1}
      /\ Len(rows) + 1 \notin 1 .. Len(rows)
  BY <1>2
<1> QED
  BY <1>1, <1>3, <1>4 DEF Proposals

(* Counts are numbers, for the table is finite.                            *)
LEMMA CountType ==
  ASSUME IsFiniteSet(votes), NEW p
  PROVE  Count(p) \in [Choices -> Nat]
<1>1. ASSUME NEW c \in Choices
      PROVE  Cardinality({vote \in votes : vote.proposal = p /\ vote.choice = c}) \in Nat
  <2> DEFINE T == {vote \in votes : vote.proposal = p /\ vote.choice = c}
  <2>1. T \in SUBSET votes
    OBVIOUS
  <2> HIDE DEF T
  <2>2. Cardinality(T) \in Nat
    BY <2>1, FS_Subset, FS_CardinalityType
  <2> QED
    BY <2>2 DEF T
<1> QED
  BY <1>1 DEF Count

----------------------------------------------------------------------------
(* Types.                                                                  *)

LEMMA IdleType == Idle \in RunState /\ Idle.at = "idle" /\ Idle.todo = {} /\ Idle.over = {}
<1>1. <<>> \in [{} -> Tally]
  OBVIOUS
<1>2. <<>> \in UNION {[S -> Tally] : S \in SUBSET Nat}
  BY <1>1
<1> QED
  BY <1>2 DEF Idle, RunState

LEMMA ConsumerKept ==
  ASSUME ConsumerOK, UNCHANGED <<stream, lastSeq, op>>, saved' \in 0 .. lastSeq,
         step' \in {"idle", "proposal", "vote", "insertVote", "count"},
         step' # "idle" => step # "idle" /\ (step' = "proposal" <=> step = "proposal"),
         faults' \in Nat
  PROVE  ConsumerOK'
<1>1. Ops(lastSeq)' = Ops(lastSeq) /\ Event' = Event
  BY DEF Ops, Event
<1> QED
  BY <1>1 DEF ConsumerOK

LEMMA TablesKept ==
  ASSUME TablesOK, UNCHANGED <<tables, over, inTime>>, ripe \subseteq ripe',
         step' \in {"insertVote", "count"} =>
           step \in {"insertVote", "count"} /\ Event'.proposal = Event.proposal
  PROVE  TablesOK'
BY DEF TablesOK, Proposals, tables

LEMMA RunsKept ==
  ASSUME RunsOK, run' = run, Proposals \subseteq Proposals', over \subseteq over',
         ripe \subseteq ripe'
  PROVE  RunsOK'
BY DEF RunsOK

(* One run is in another state.                                            *)
LEMMA RunChanged ==
  ASSUME RunsOK, NEW r \in Runs, NEW x \in RunState, run' = [run EXCEPT ![r] = x],
         Proposals' = Proposals, over' = over, ripe' = ripe,
         x.todo \subseteq Proposals, x.over \subseteq over,
         x.at \in Deciding => x.todo \subseteq ripe \cap DOMAIN x.seen,
         x.at = "record" => \E p \in x.todo : x.busy = {p}
  PROVE  RunsOK' /\ run'[r] = x /\ \A q \in Runs \ {r} : run'[q] = run[q]
<1>1. run' \in [Runs -> RunState] /\ run'[r] = x /\ \A q \in Runs \ {r} : run'[q] = run[q]
  BY DEF RunsOK
<1>2. ASSUME NEW q \in Runs
      PROVE  /\ run'[q].todo \subseteq Proposals' /\ run'[q].over \subseteq over'
             /\ run'[q].at \in Deciding => run'[q].todo \subseteq ripe' \cap DOMAIN run'[q].seen
             /\ run'[q].at = "record" => \E p \in run'[q].todo : run'[q].busy = {p}
  <2>1. CASE q = r
    BY <1>1, <2>1, Zenon
  <2>2. CASE q # r
    <3>1. run'[q] = run[q]
      BY <1>1, <2>2
    <3> QED
      BY <3>1 DEF RunsOK
  <2> QED
    BY <2>1, <2>2
<1> QED
  BY <1>1, <1>2 DEF RunsOK

(* A run that is over, or was cut off.                                     *)
LEMMA RunIdle ==
  ASSUME RunsOK, NEW r \in Runs, run' = [run EXCEPT ![r] = Idle],
         Proposals' = Proposals, over' = over, ripe' = ripe
  PROVE  RunsOK' /\ run'[r] = Idle /\ \A q \in Runs \ {r} : run'[q] = run[q]
<1>1. Idle.at \notin Deciding /\ Idle.at # "record"
  BY IdleType DEF Deciding
<1> QED
  BY <1>1, IdleType, RunChanged

(* The same at, or another, and what else it has.                          *)
LEMMA RunFields ==
  ASSUME RunsOK, NEW r \in Runs
  PROVE  /\ run[r] \in RunState /\ run[r].todo \subseteq Proposals
         /\ run[r].todo \in SUBSET Nat
         /\ run[r].busy \in SUBSET (Nat \cup Communities) /\ run[r].over \in SUBSET (Nat \X Nat)
         /\ run[r].over \subseteq over
         /\ run[r].seen \in UNION {[S -> Tally] : S \in SUBSET Nat}
         /\ run[r] = [at |-> run[r].at, todo |-> run[r].todo, busy |-> run[r].busy,
                      over |-> run[r].over, seen |-> run[r].seen]
<1>1. run[r] \in RunState
  BY DEF RunsOK
<1> QED
  BY <1>1 DEF RunsOK, RunState

(* The run goes on.                                                        *)
Becomes(r, at, todo, busy, seen) ==
  /\ run'[r].at = at /\ run'[r].todo = todo /\ run'[r].busy = busy
  /\ run'[r].over = run[r].over /\ run'[r].seen = seen

(* The next proposal of a list that is being decided, or the end of it.    *)
LEMMA DecideRun ==
  ASSUME RunsOK, NEW r \in Runs, NEW voting, voting \subseteq Proposals,
         NEW seen \in UNION {[S -> Tally] : S \in SUBSET Nat},
         voting \subseteq ripe \cap DOMAIN seen,
         run' = [run EXCEPT ![r] = Decide(r, voting, seen)],
         Proposals' = Proposals, over' = over, ripe' = ripe
  PROVE  /\ RunsOK' /\ \A q \in Runs \ {r} : run'[q] = run[q]
         /\ \/ voting = {} /\ run'[r] = Idle
            \/ Becomes(r, "decide", voting, {}, seen)
<1>1. CASE voting = {}
  <2>1. Decide(r, voting, seen) = Idle
    BY <1>1 DEF Decide
  <2> QED
    BY <1>1, <2>1, RunIdle
<1>2. CASE voting # {}
  <2> DEFINE x == [at |-> "decide", todo |-> voting, busy |-> {}, over |-> run[r].over,
                   seen |-> seen]
  <2>1. Decide(r, voting, seen) = x
    <3>1. run[r] \in RunState
      BY RunFields
    <3> QED
      BY <1>2, <3>1 DEF Decide, RunState
  <2>2. voting \in SUBSET Nat
    BY DEF Proposals
  <2>3. x \in RunState /\ x.at = "decide" /\ x.todo = voting /\ x.over \subseteq over
        /\ x.seen = seen
    BY <2>2, RunFields DEF RunState, Deciding
  <2> HIDE DEF x
  <2>4. run' = [run EXCEPT ![r] = x]
    BY <2>1
  <2>5. RunsOK' /\ run'[r] = x /\ \A q \in Runs \ {r} : run'[q] = run[q]
    BY <2>3, <2>4, RunChanged
  <2> QED
    BY <2>5 DEF x, Becomes
<1> QED
  BY <1>1, <1>2

(* What each statement of a run does to the run.                           *)

LEMMA BeginRun ==
  ASSUME TypesOK, NEW r \in Runs, BeginTransitions(r)
  PROVE  /\ RunsOK' /\ \A q \in Runs \ {r} : run'[q] = run[q]
         /\ run'[r].at = "listed" /\ run'[r].todo = InState({"deliberating"})
         /\ run'[r].over = over
<1> DEFINE x == [at |-> "listed", todo |-> InState({"deliberating"}), busy |-> {},
                 over |-> over, seen |-> <<>>]
<1>1. UNCHANGED <<rows, over, ripe>> /\ run' = [run EXCEPT ![r] = x]
  <2>1. PICK z : z = [Idle EXCEPT !.at = "listed", !.over = over,
                                  !.todo = InState({"deliberating"})]
    OBVIOUS
  <2>2. z = x
    BY <2>1 DEF Idle
  <2>3. UNCHANGED <<rows, over, ripe>> /\ run' = [run EXCEPT ![r] = z]
    BY <2>1 DEF BeginTransitions, tables, clock
  <2> QED
    BY <2>2, <2>3
<1>2. Proposals' = Proposals /\ InState({"deliberating"}) \subseteq Proposals
      /\ InState({"deliberating"}) \in SUBSET Nat /\ over \in SUBSET (Nat \X Nat)
  BY <1>1 DEF Proposals, InState, TypesOK, TablesOK
<1>3. x \in RunState /\ x.at = "listed" /\ x.todo \subseteq Proposals /\ x.over = over
  BY <1>2, IdleType DEF RunState, Opening, Idle
<1> HIDE DEF x
<1>4. x.at \notin Deciding /\ x.at # "record" /\ x.over \subseteq over
  BY <1>3 DEF Deciding
<1>5. RunsOK' /\ run'[r] = x /\ \A q \in Runs \ {r} : run'[q] = run[q]
  BY <1>1, <1>2, <1>3, <1>4, RunChanged DEF TypesOK
<1> QED
  BY <1>5 DEF x

(* Still before the voting is decided.                                     *)
LEMMA OpeningRun ==
  ASSUME RunsOK, NEW r \in Runs, NEW at \in Opening, NEW todo, todo \subseteq run[r].todo,
         NEW busy \in SUBSET (Nat \cup Communities),
         Proposals' = Proposals, over' = over, ripe' = ripe,
         NEW z, z = [at |-> at, todo |-> todo, busy |-> busy, over |-> run[r].over,
                     seen |-> run[r].seen],
         run' = [run EXCEPT ![r] = z]
  PROVE  RunsOK' /\ run'[r] = z /\ \A q \in Runs \ {r} : run'[q] = run[q]
<1>1. todo \in SUBSET Nat /\ todo \subseteq Proposals
  BY RunFields
<1>2. z \in RunState /\ z.todo \subseteq Proposals /\ z.over \subseteq over /\ z.at = at
  BY <1>1, RunFields DEF RunState
<1>3. z.at \notin Deciding /\ z.at # "record"
  BY <1>2 DEF Opening, Deciding
<1> QED
  BY <1>2, <1>3, RunChanged

LEMMA ReadActiveRun ==
  ASSUME TypesOK, NEW r \in Runs, ReadActive(r)
  PROVE  /\ RunsOK' /\ \A q \in Runs \ {r} : run'[q] = run[q]
         /\ Becomes(r, "start", run[r].todo, {rows[p].community : p \in InState({"voting"})},
                    run[r].seen)
<1> DEFINE busy == {rows[p].community : p \in InState({"voting"})}
           todo == run[r].todo
<1>1. over' = over /\ ripe' = ripe /\ Proposals' = Proposals /\ RunsOK
  BY DEF ReadActive, tables, clock, Proposals, TypesOK
<1>2. busy \in SUBSET (Nat \cup Communities)
  BY RowsType DEF TypesOK, InState
<1>3. PICK z : z = [run[r] EXCEPT !.at = "start", !.busy = busy]
  OBVIOUS
<1>4. run' = [run EXCEPT ![r] = z]
  BY <1>3 DEF ReadActive
<1>5. /\ run \in [Runs -> RunState] /\ run[r] \in RunState
      /\ todo \subseteq run[r].todo /\ "start" \in Opening
  BY DEF TypesOK, RunsOK, Opening
<1>6. z = [at |-> "start", todo |-> todo, busy |-> busy, over |-> run[r].over,
           seen |-> run[r].seen]
  BY <1>3, <1>5 DEF RunState
<1>7. RunsOK' /\ run'[r] = z /\ \A q \in Runs \ {r} : run'[q] = run[q]
  <2> HIDE DEF busy, todo
  <2> QED
    BY <1>1, <1>2, <1>4, <1>5, <1>6, OpeningRun
<1> QED
  BY <1>6, <1>7 DEF Becomes

LEMMA StartVotingRun ==
  ASSUME TypesOK, NEW r \in Runs, NEW p \in Proposals, StartVoting(r, p)
  PROVE  /\ RunsOK' /\ \A q \in Runs \ {r} : run'[q] = run[q]
         /\ run[r].at = "start" /\ p \in run[r].todo /\ Proposals' = Proposals
         /\ \/ /\ rows[p].community \notin run[r].busy /\ p \in ripe
               /\ Becomes(r, "opened", run[r].todo \ {p},
                          run[r].busy \cup {rows[p].community}, run[r].seen)
               /\ rows' = [rows EXCEPT ![p].state = "voting", ![p].ends = @ + 1]
               /\ raced' = RacedBy(r, p)
            \/ /\ Becomes(r, "start", run[r].todo \ {p}, run[r].busy, run[r].seen)
               /\ UNCHANGED <<rows, raced>>
<1> DEFINE todo == run[r].todo \ {p}
           more == run[r].busy \cup {rows[p].community}
           same == run[r].busy
<1>1. run[r].at = "start" /\ p \in run[r].todo /\ over' = over /\ ripe' = ripe
  BY DEF StartVoting, clock
<1>2. /\ run \in [Runs -> RunState] /\ run[r] \in RunState
      /\ more \in SUBSET (Nat \cup Communities) /\ same \in SUBSET (Nat \cup Communities)
      /\ "start" \in Opening /\ "opened" \in Opening /\ todo \subseteq run[r].todo
  BY RunFields, RowsType DEF TypesOK, RunsOK, Opening
<1>3. CASE rows[p].community \notin run[r].busy /\ CanVote(p)
  <2>1. /\ rows' = [rows EXCEPT ![p].state = "voting", ![p].ends = @ + 1]
        /\ raced' = RacedBy(r, p) /\ p \in ripe
        /\ run' = [run EXCEPT ![r].at = "opened", ![r].todo = @ \ {p}, ![r].busy = more]
    BY <1>3 DEF StartVoting, BusyWith, CanVote
  <2>2. Proposals' = Proposals
    BY <2>1, VotingUpdate DEF TypesOK
  <2>3. PICK z : z = [run[r] EXCEPT !.at = "opened", !.todo = @ \ {p}, !.busy = more]
    OBVIOUS
  <2>4. run' = [run EXCEPT ![r] = z]
    BY <2>1, <2>3
  <2>5. z = [at |-> "opened", todo |-> todo, busy |-> more, over |-> run[r].over,
             seen |-> run[r].seen]
    BY <1>2, <2>3 DEF RunState
  <2>6. RunsOK' /\ run'[r] = z /\ \A q \in Runs \ {r} : run'[q] = run[q]
    <3> HIDE DEF todo, more, same
    <3> QED
      BY <1>1, <1>2, <2>2, <2>4, <2>5, OpeningRun DEF TypesOK
  <2>7. Becomes(r, "opened", todo, more, run[r].seen)
    BY <2>5, <2>6 DEF Becomes
  <2> QED
    BY <1>1, <1>3, <2>1, <2>2, <2>6, <2>7
<1>4. CASE ~(rows[p].community \notin run[r].busy /\ CanVote(p))
  <2>1. run' = [run EXCEPT ![r].todo = @ \ {p}] /\ UNCHANGED <<rows, raced>>
    BY <1>4 DEF StartVoting
  <2>2. Proposals' = Proposals
    BY <2>1 DEF Proposals
  <2>3. PICK z : z = [run[r] EXCEPT !.todo = @ \ {p}]
    OBVIOUS
  <2>4. run' = [run EXCEPT ![r] = z]
    BY <2>1, <2>3
  <2>5. z = [at |-> "start", todo |-> todo, busy |-> same, over |-> run[r].over,
             seen |-> run[r].seen]
    BY <1>1, <1>2, <2>3 DEF RunState
  <2>6. RunsOK' /\ run'[r] = z /\ \A q \in Runs \ {r} : run'[q] = run[q]
    <3> HIDE DEF todo, more, same
    <3> QED
      BY <1>1, <1>2, <2>2, <2>4, <2>5, OpeningRun DEF TypesOK
  <2>7. Becomes(r, "start", todo, same, run[r].seen)
    BY <2>5, <2>6 DEF Becomes
  <2> QED
    BY <1>1, <2>1, <2>2, <2>6, <2>7
<1> QED
  BY <1>3, <1>4

VotingNow ==
  [p \in InState({"voting"}) |-> [counts |-> rows[p].counts, ends |-> rows[p].ends]]

LEMMA ReadVotingRun ==
  ASSUME TypesOK, NEW r \in Runs, ReadVoting(r)
  PROVE  /\ RunsOK' /\ \A q \in Runs \ {r} : run'[q] = run[q]
         /\ \/ run'[r] = Idle
            \/ Becomes(r, "decide", InState({"voting"}), {}, VotingNow)
<1> DEFINE voting == InState({"voting"})
           seen   == VotingNow
<1>1. UNCHANGED <<rows, over, ripe>> /\ Proposals' = Proposals
  BY DEF ReadVoting, tables, clock, Proposals
<1>2. run' = [run EXCEPT ![r] = Decide(r, voting, seen)]
  BY DEF ReadVoting, VotingNow
<1>3. voting \subseteq Proposals /\ voting \in SUBSET Nat
  BY DEF InState, Proposals
<1>4. \A p \in voting : [counts |-> rows[p].counts, ends |-> rows[p].ends] \in Tally
  BY <1>3, RowsType DEF TypesOK, Tally
<1>5. seen \in [voting -> Tally] /\ voting \subseteq ripe \cap DOMAIN seen
  BY <1>4 DEF TypesOK, TablesOK, InState, VotingNow
<1>6. seen \in UNION {[S -> Tally] : S \in SUBSET Nat}
  BY <1>3, <1>5
<1> HIDE DEF voting, seen
<1>7. /\ RunsOK' /\ \A q \in Runs \ {r} : run'[q] = run[q]
      /\ \/ voting = {} /\ run'[r] = Idle
         \/ Becomes(r, "decide", voting, {}, seen)
  BY <1>1, <1>2, <1>3, <1>5, <1>6, DecideRun DEF TypesOK
<1> QED
  BY <1>7 DEF voting, seen

LEMMA AnnouncedRun ==
  ASSUME TypesOK, NEW r \in Runs, Announced(r)
  PROVE  /\ RunsOK' /\ \A q \in Runs \ {r} : run'[q] = run[q]
         /\ \/ /\ run[r].at = "opened"
               /\ Becomes(r, "start", run[r].todo, run[r].busy, run[r].seen)
            \/ /\ run[r].at = "recorded"
               /\ \/ run'[r] = Idle
                  \/ Becomes(r, "decide", run[r].todo, {}, run[r].seen)
<1> DEFINE todo == run[r].todo
           busy == run[r].busy
           seen == run[r].seen
<1>1. UNCHANGED <<rows, over, ripe>> /\ Proposals' = Proposals
  BY DEF Announced, tables, clock, Proposals
<1>2. run \in [Runs -> RunState] /\ run[r] \in RunState /\ "start" \in Opening
  BY DEF TypesOK, RunsOK, Opening
<1>3. CASE run[r].at = "opened" /\ run' = [run EXCEPT ![r].at = "start"]
  <2>1. PICK z : z = [run[r] EXCEPT !.at = "start"]
    OBVIOUS
  <2>2. run' = [run EXCEPT ![r] = z]
    BY <1>3, <2>1
  <2>3. z = [at |-> "start", todo |-> todo, busy |-> busy, over |-> run[r].over, seen |-> seen]
    BY <1>2, <2>1 DEF RunState
  <2>4. todo \subseteq run[r].todo /\ busy \in SUBSET (Nat \cup Communities)
    BY RunFields DEF TypesOK
  <2>5. RunsOK' /\ run'[r] = z /\ \A q \in Runs \ {r} : run'[q] = run[q]
    <3> HIDE DEF todo, busy
    <3> QED
      BY <1>1, <1>2, <2>2, <2>3, <2>4, OpeningRun DEF TypesOK, seen
  <2> QED
    BY <1>3, <2>3, <2>5 DEF Becomes
<1>4. CASE /\ run[r].at = "recorded"
           /\ run' = [run EXCEPT ![r] = Decide(r, run[r].todo, run[r].seen)]
  <2>1. run[r].at \in Deciding
    BY <1>4 DEF Deciding
  <2>2. todo \subseteq ripe \cap DOMAIN seen /\ todo \subseteq Proposals
    BY <2>1 DEF TypesOK, RunsOK
  <2>3. seen \in UNION {[S -> Tally] : S \in SUBSET Nat}
    BY RunFields DEF TypesOK
  <2>4. run' = [run EXCEPT ![r] = Decide(r, todo, seen)]
    BY <1>4
  <2>5. /\ RunsOK' /\ \A q \in Runs \ {r} : run'[q] = run[q]
        /\ \/ todo = {} /\ run'[r] = Idle
           \/ Becomes(r, "decide", todo, {}, seen)
    <3> HIDE DEF todo, seen
    <3> QED
      BY <1>1, <2>2, <2>3, <2>4, DecideRun DEF TypesOK
  <2> QED
    BY <1>4, <2>5
<1> QED
  BY <1>3, <1>4 DEF Announced

LEMMA FinalizeRun ==
  ASSUME TypesOK, NEW r \in Runs, NEW p \in Proposals, FinalizeProposal(r, p)
  PROVE  /\ RunsOK' /\ \A q \in Runs \ {r} : run'[q] = run[q]
         /\ run[r].at = "decide" /\ p \in run[r].todo /\ Proposals' = Proposals
         /\ \/ /\ Due(r, p)
               /\ Becomes(r, "record", run[r].todo, {p}, run[r].seen)
               /\ rows' = [rows EXCEPT ![p].state = Outcome(run[r].seen[p].counts)]
               /\ raced' = RacedBy(r, p)
            \/ /\ \/ run'[r] = Idle
                  \/ Becomes(r, "decide", run[r].todo \ {p}, {}, run[r].seen)
               /\ UNCHANGED <<rows, raced>>
<1> DEFINE todo == run[r].todo
           left == run[r].todo \ {p}
           seen == run[r].seen
<1>1. /\ run[r].at = "decide" /\ p \in run[r].todo /\ run[r].at \in Deciding
      /\ over' = over /\ ripe' = ripe
  BY DEF FinalizeProposal, clock, Deciding
<1>2. /\ run \in [Runs -> RunState] /\ run[r] \in RunState /\ run[r].over \subseteq over
      /\ todo \subseteq ripe \cap DOMAIN seen /\ todo \subseteq Proposals /\ todo \in SUBSET Nat
      /\ seen \in UNION {[S -> Tally] : S \in SUBSET Nat} /\ p \in Nat
  BY <1>1, RunFields DEF TypesOK, RunsOK, Proposals
<1>3. CASE Due(r, p)
  <2>1. /\ rows' = [rows EXCEPT ![p].state = Outcome(run[r].seen[p].counts)]
        /\ run' = [run EXCEPT ![r].at = "record", ![r].busy = {p}]
        /\ raced' = RacedBy(r, p)
    BY <1>3 DEF FinalizeProposal
  <2>2. Proposals' = Proposals
    BY <2>1, OutcomeType, StateUpdate DEF TypesOK
  <2>3. PICK z : z = [run[r] EXCEPT !.at = "record", !.busy = {p}]
    OBVIOUS
  <2>4. run' = [run EXCEPT ![r] = z]
    BY <2>1, <2>3
  <2>5. z = [at |-> "record", todo |-> todo, busy |-> {p}, over |-> run[r].over, seen |-> seen]
    BY <1>2, <2>3 DEF RunState
  <2>6. /\ z \in RunState /\ z.todo \subseteq Proposals /\ z.over \subseteq over
        /\ z.todo \subseteq ripe \cap DOMAIN z.seen /\ p \in z.todo /\ z.busy = {p}
    BY <1>1, <1>2, <2>5 DEF RunState, Deciding
  <2>7. RunsOK' /\ run'[r] = z /\ \A q \in Runs \ {r} : run'[q] = run[q]
    BY <1>1, <1>2, <2>2, <2>4, <2>6, RunChanged DEF TypesOK
  <2>8. Becomes(r, "record", todo, {p}, seen)
    BY <2>5, <2>7 DEF Becomes
  <2> QED
    BY <1>1, <1>3, <2>1, <2>2, <2>7, <2>8
<1>4. CASE ~Due(r, p)
  <2>1. run' = [run EXCEPT ![r] = Decide(r, left, seen)] /\ UNCHANGED <<rows, raced>>
    BY <1>4 DEF FinalizeProposal
  <2>2. Proposals' = Proposals
    BY <2>1 DEF Proposals
  <2>3. left \subseteq ripe \cap DOMAIN seen /\ left \subseteq Proposals
    BY <1>2
  <2>4. /\ RunsOK' /\ \A q \in Runs \ {r} : run'[q] = run[q]
        /\ \/ left = {} /\ run'[r] = Idle
           \/ Becomes(r, "decide", left, {}, seen)
    <3> HIDE DEF left, seen
    <3> QED
      BY <1>1, <1>2, <2>1, <2>2, <2>3, DecideRun DEF TypesOK
  <2> QED
    BY <1>1, <2>1, <2>2, <2>4
<1> QED
  BY <1>3, <1>4

LEMMA InsertRun ==
  ASSUME TypesOK, NEW r \in Runs, NEW p \in Proposals, InsertDecision(r, p)
  PROVE  /\ RunsOK' /\ \A q \in Runs \ {r} : run'[q] = run[q]
         /\ run[r].at = "record" /\ run[r].busy = {p} /\ p \in run[r].todo
         /\ run[r].seen[p] \in Tally /\ Proposals' = Proposals
         /\ \/ p \in Recorded /\ run'[r] = Idle /\ decisions' = decisions
            \/ /\ p \notin Recorded
               /\ Becomes(r, "recorded", run[r].todo \ {p}, {}, run[r].seen)
               /\ decisions' = decisions \cup {Decision(p, run[r].seen[p])}
<1> DEFINE left == run[r].todo \ {p}
           seen == run[r].seen
<1>1. /\ run[r].at = "record" /\ p \in run[r].busy /\ over' = over /\ ripe' = ripe /\ rows' = rows
      /\ run[r].at \in Deciding
  BY DEF InsertDecision, Insert, clock, Deciding
<1>2. /\ run \in [Runs -> RunState] /\ run[r] \in RunState /\ run[r].over \subseteq over
      /\ run[r].todo \subseteq ripe \cap DOMAIN seen /\ run[r].todo \subseteq Proposals
      /\ run[r].todo \in SUBSET Nat /\ seen \in UNION {[S -> Tally] : S \in SUBSET Nat}
      /\ run[r].busy = {p} /\ p \in run[r].todo
  BY <1>1, RunFields DEF TypesOK, RunsOK
<1>3. seen[p] \in Tally
  <2>1. PICK S \in SUBSET Nat : seen \in [S -> Tally]
    BY <1>2
  <2> QED
    BY <1>2, <2>1
<1>4. Proposals' = Proposals
  BY <1>1 DEF Proposals
<1>5. CASE p \in Recorded
  <2>1. run' = [run EXCEPT ![r] = Idle] /\ decisions' = decisions
    BY <1>5 DEF InsertDecision, Insert, Recorded
  <2>2. RunsOK' /\ run'[r] = Idle /\ \A q \in Runs \ {r} : run'[q] = run[q]
    BY <1>1, <1>4, <2>1, RunIdle DEF TypesOK
  <2> QED
    BY <1>1, <1>2, <1>3, <1>4, <1>5, <2>1, <2>2
<1>6. CASE p \notin Recorded
  <2>1. /\ run' = [run EXCEPT ![r].at = "recorded", ![r].todo = @ \ {p}, ![r].busy = {}]
        /\ decisions' = decisions \cup {Decision(p, run[r].seen[p])}
    BY <1>6 DEF InsertDecision, Insert, Recorded
  <2>2. PICK z : z = [run[r] EXCEPT !.at = "recorded", !.todo = @ \ {p}, !.busy = {}]
    OBVIOUS
  <2>3. run' = [run EXCEPT ![r] = z]
    BY <2>1, <2>2
  <2>4. z = [at |-> "recorded", todo |-> left, busy |-> {}, over |-> run[r].over, seen |-> seen]
    BY <1>2, <2>2 DEF RunState
  <2>5. /\ z \in RunState /\ z.todo \subseteq Proposals /\ z.over \subseteq over
        /\ z.todo \subseteq ripe \cap DOMAIN z.seen /\ z.at # "record"
    BY <1>1, <1>2, <2>4 DEF RunState, Deciding
  <2>6. RunsOK' /\ run'[r] = z /\ \A q \in Runs \ {r} : run'[q] = run[q]
    BY <1>1, <1>2, <1>4, <2>3, <2>5, RunChanged DEF TypesOK
  <2> QED
    BY <1>1, <1>2, <1>3, <1>4, <1>6, <2>1, <2>4, <2>6 DEF Becomes
<1> QED
  BY <1>5, <1>6

LEMMA FailRun ==
  ASSUME TypesOK, NEW r \in Runs, TransitionsFail(r)
  PROVE  RunsOK' /\ run'[r] = Idle /\ \A q \in Runs \ {r} : run'[q] = run[q]
<1>1. run' = [run EXCEPT ![r] = Idle] /\ Proposals' = Proposals /\ over' = over /\ ripe' = ripe
  BY DEF TransitionsFail, tables, clock, Proposals
<1> QED
  BY <1>1, RunIdle DEF TypesOK

LEMMA CrashRun ==
  ASSUME TypesOK, Crash
  PROVE  RunsOK' /\ \A r \in Runs : run'[r] = Idle
<1>1. run' \in [Runs -> RunState] /\ \A r \in Runs : run'[r] = Idle
  BY IdleType DEF Crash
<1>2. Idle.at \notin Deciding /\ Idle.at # "record"
  BY IdleType DEF Deciding
<1> QED
  BY <1>1, <1>2, IdleType DEF RunsOK

----------------------------------------------------------------------------
(* A statement of a run, as far as the types go: rows and decisions.       *)
LEMMA StatementTypes ==
  ASSUME TypesOK, RunsOK', UNCHANGED <<stream, consumer, votes, clock, faults>>,
         rows' \in Seq(Rows), Proposals' = Proposals,
         decisions' \subseteq [proposal : Proposals, result : Decided, counts : [Choices -> Nat],
                               ends : Nat],
         \A p \in Proposals : rows'[p].state # "deliberating" => p \in ripe
  PROVE  TypesOK'
<1>1. UNCHANGED <<lastSeq, op, saved, step, over, inTime, ripe>>
  BY DEF consumer, clock
<1>2. ConsumerOK'
  BY <1>1, ConsumerKept DEF TypesOK, ConsumerOK
<1>3. Event' = Event
  BY <1>1 DEF Event
<1>4. TablesOK'
  BY <1>1, <1>3 DEF TypesOK, TablesOK
<1> QED
  BY <1>2, <1>4 DEF TypesOK

LEMMA RunTypes ==
  ASSUME TypesOK, NEW r \in Runs, BeginTransitions(r) \/ RunNext(r)
  PROVE  TypesOK'
<1>1. rows \in Seq(Rows) /\ \A p \in Proposals : rows[p].state # "deliberating" => p \in ripe
  BY DEF TypesOK, TablesOK
<1>2. decisions \subseteq [proposal : Proposals, result : Decided, counts : [Choices -> Nat],
                           ends : Nat]
  BY DEF TypesOK, TablesOK
<1>3. CASE BeginTransitions(r) \/ ReadActive(r) \/ ReadVoting(r) \/ Announced(r)
  <2>1. UNCHANGED <<stream, consumer, tables, clock, faults>>
    BY <1>3 DEF BeginTransitions, ReadActive, ReadVoting, Announced
  <2>2. RunsOK'
    BY <1>3, BeginRun, ReadActiveRun, ReadVotingRun, AnnouncedRun
  <2> QED
    BY <1>1, <1>2, <2>1, <2>2, StatementTypes DEF tables, Proposals
<1>4. ASSUME NEW p \in Proposals, StartVoting(r, p) PROVE TypesOK'
  <2>1. UNCHANGED <<stream, consumer, votes, decisions, clock, faults>>
    BY <1>4 DEF StartVoting
  <2>2. /\ RunsOK' /\ Proposals' = Proposals
        /\ \/ /\ rows' = [rows EXCEPT ![p].state = "voting", ![p].ends = @ + 1]
              /\ p \in ripe
           \/ rows' = rows
    BY <1>4, StartVotingRun
  <2>3. rows' \in Seq(Rows) /\ \A q \in Proposals : rows'[q].state # "deliberating" => q \in ripe
    BY <1>1, <2>2, VotingUpdate DEF TypesOK
  <2> QED
    BY <1>2, <2>1, <2>2, <2>3, StatementTypes
<1>5. ASSUME NEW p \in Proposals, FinalizeProposal(r, p) PROVE TypesOK'
  <2>1. UNCHANGED <<stream, consumer, votes, decisions, clock, faults>>
    BY <1>5 DEF FinalizeProposal
  <2>2. RunsOK' /\ Proposals' = Proposals
    BY <1>5, FinalizeRun
  <2>3. rows' = [rows EXCEPT ![p].state = Outcome(run[r].seen[p].counts)] \/ rows' = rows
    BY <1>5, FinalizeRun
  <2>4. rows' \in Seq(Rows)
    BY <1>1, <2>3, OutcomeType, StateUpdate DEF TypesOK
  <2>5. ASSUME NEW q \in Proposals, rows'[q].state # "deliberating" PROVE q \in ripe
    <3>1. CASE q = p
      <4>1. run[r].at \in Deciding /\ p \in run[r].todo
        BY <1>5, FinalizeRun DEF Deciding
      <4> QED
        BY <3>1, <4>1 DEF TypesOK, RunsOK
    <3>2. CASE q # p
      <4>1. rows'[q] = rows[q]
        BY <2>3, <3>2, OutcomeType, StateUpdate DEF TypesOK
      <4> QED
        BY <1>1, <2>5, <4>1
    <3> QED
      BY <3>1, <3>2
  <2> QED
    BY <1>2, <2>1, <2>2, <2>4, <2>5, StatementTypes
<1>6. ASSUME NEW p \in Proposals, InsertDecision(r, p) PROVE TypesOK'
  <2>1. UNCHANGED <<stream, consumer, rows, votes, clock, faults>>
    BY <1>6 DEF InsertDecision, Insert
  <2>2. /\ RunsOK' /\ Proposals' = Proposals /\ run[r].seen[p] \in Tally
        /\ decisions' = decisions \/ decisions' = decisions \cup {Decision(p, run[r].seen[p])}
    BY <1>6, InsertRun
  <2>3. Decision(p, run[r].seen[p]) \in [proposal : Proposals, result : Decided,
                                         counts : [Choices -> Nat], ends : Nat]
    BY <2>2, OutcomeType DEF Decision, Tally
  <2>4. decisions' \subseteq [proposal : Proposals, result : Decided,
                              counts : [Choices -> Nat], ends : Nat]
    BY <1>2, <2>2, <2>3
  <2> QED
    BY <1>1, <2>1, <2>2, <2>4, StatementTypes
<1> QED
  BY <1>3, <1>4, <1>5, <1>6 DEF RunNext

LEMMA TimeTypes ==
  ASSUME TypesOK, NEW p \in Proposals, DeliberationPasses(p) \/ VotingTimePasses(p)
  PROVE  TypesOK'
<1>1. UNCHANGED <<stream, lastSeq, op, saved, step, rows, votes, decisions, run, faults>>
  BY DEF DeliberationPasses, VotingTimePasses, consumer, tables, machine
<1>2. Proposals' = Proposals /\ Event' = Event
  BY <1>1 DEF Proposals, Event
<1>3. ConsumerOK'
  BY <1>1, ConsumerKept DEF TypesOK, ConsumerOK
<1>4. /\ over \subseteq over' /\ over' \subseteq Nat \X Nat /\ ripe \subseteq ripe'
      /\ inTime' \subseteq [proposal : Proposals, ends : Nat, total : Nat]
  <2>1. CASE DeliberationPasses(p)
    BY <2>1 DEF DeliberationPasses, TypesOK, TablesOK
  <2>2. CASE VotingTimePasses(p)
    <3>1. PICK k \in 1 .. rows[p].ends :
            /\ over' = over \cup {<<p, k>>}
            /\ inTime' = inTime
                 \cup {[proposal |-> p, ends |-> k, total |-> Total(rows[p].counts)]}
      BY <2>2 DEF VotingTimePasses
    <3>2. rows[p].ends \in Nat /\ Total(rows[p].counts) \in Nat /\ p \in Nat
      BY RowsType DEF TypesOK, Proposals
    <3>3. k \in Nat
      BY <3>2
    <3>4. ripe' = ripe
      BY <2>2 DEF VotingTimePasses
    <3> QED
      BY <3>1, <3>2, <3>3, <3>4 DEF TypesOK, TablesOK
  <2> QED
    BY <2>1, <2>2
<1>5. TablesOK'
  BY <1>1, <1>2, <1>4 DEF TypesOK, TablesOK
<1>6. RunsOK'
  BY <1>1, <1>2, <1>4, RunsKept DEF TypesOK
<1> QED
  BY <1>3, <1>5, <1>6 DEF TypesOK

LEMMA HandleEventTypes ==
  ASSUME TypesOK, HandleEvent
  PROVE  TypesOK'
<1>1. UNCHANGED <<stream, saved, tables, clock, run, faults>>
  BY DEF HandleEvent, machine
<1>2. /\ stream \in Streams /\ Len(stream) \in Nat /\ lastSeq \in 0 .. Len(stream)
      /\ saved \in 0 .. lastSeq /\ op \in Nat /\ Ops(lastSeq) \in Nat
  BY SeqType DEF TypesOK, ConsumerOK
<1>3. lastSeq' \in 1 .. Len(stream) /\ op' \in 1 .. Ops(lastSeq') /\ saved \in 0 .. lastSeq'
  <2>1. CASE op < Ops(lastSeq) /\ op' = op + 1 /\ lastSeq' = lastSeq
    <3>1. lastSeq # 0
      BY <1>2, <2>1 DEF Ops
    <3> QED
      BY <1>2, <2>1, <3>1
  <2>2. CASE lastSeq < Len(stream) /\ lastSeq' = lastSeq + 1 /\ op' = 1
    <3>1. lastSeq' \in 1 .. Len(stream) /\ saved \in 0 .. lastSeq'
      BY <1>2, <2>2
    <3>2. Ops(lastSeq') \in Nat /\ Ops(lastSeq') > 0
      BY <1>2, <3>1, CommitType
    <3> QED
      BY <2>2, <3>1, <3>2
  <2> QED
    BY <2>1, <2>2 DEF HandleEvent
<1>4. step' = stream[lastSeq'].ops[op'].kind /\ step' \in {"proposal", "vote"}
  BY <1>2, <1>3, CommitType DEF HandleEvent
<1>5. Event' = stream[lastSeq'].ops[op'] /\ (Ops(lastSeq))' = Ops(lastSeq')
  BY <1>1 DEF Event, Ops
<1>6. ConsumerOK'
  <2>1. lastSeq' \in 0 .. Len(stream) /\ op' \in 0 .. Ops(lastSeq') /\ lastSeq' > 0 /\ op' > 0
    BY <1>2, <1>3
  <2>2. Event'.kind = (IF step' = "proposal" THEN "proposal" ELSE "vote")
    BY <1>4, <1>5
  <2> QED
    BY <1>1, <1>3, <1>4, <1>5, <2>1, <2>2 DEF TypesOK, ConsumerOK
<1>7. TablesOK'
  BY <1>1, <1>4, TablesKept DEF TypesOK, clock
<1>8. RunsOK'
  BY <1>1, RunsKept DEF TypesOK, clock, tables, Proposals
<1> QED
  BY <1>6, <1>7, <1>8 DEF TypesOK

LEMMA InsertProposalTypes ==
  ASSUME TypesOK, InsertProposal
  PROVE  TypesOK'
<1>1. /\ step' = "idle" /\ ripe \subseteq ripe'
      /\ UNCHANGED <<stream, lastSeq, op, saved, votes, decisions, over, inTime, run, faults>>
  BY DEF InsertProposal, Handled, machine
<1>2. ConsumerOK'
  BY <1>1, ConsumerKept DEF TypesOK, ConsumerOK
<1>3. /\ rows' \in Seq(Rows) /\ Proposals \subseteq Proposals'
      /\ \A p \in Proposals' : rows'[p].state # "deliberating" => p \in ripe'
  <2>1. CASE rows' = rows
    BY <1>1, <2>1 DEF TypesOK, TablesOK, Proposals
  <2>2. CASE rows' # rows
    BY <1>1, <2>2, NewRow DEF TypesOK, TablesOK
  <2> QED
    BY <2>1, <2>2
<1>4. TablesOK'
  BY <1>1, <1>3 DEF TypesOK, TablesOK
<1>5. RunsOK'
  BY <1>1, <1>3, RunsKept DEF TypesOK
<1> QED
  BY <1>2, <1>4, <1>5 DEF TypesOK

(* A row in the place of those it conflicts with.                          *)
LEMMA VotesAfter ==
  ASSUME TypesOK, InsertVote
  PROVE  /\ votes' \subseteq [voter : Voters, proposal : Proposals, choice : Choices]
         /\ IsFiniteSet(votes')
<1> DEFINE others == votes \ {vote \in votes : SameVote(vote) \/ SameUri(vote)}
           new    == [voter |-> Author, proposal |-> Event.proposal, choice |-> Event.choice]
<1>1. votes' = votes \/ votes' = others \cup {new}
  BY DEF InsertVote
<1>2. new \in [voter : Voters, proposal : Proposals, choice : Choices]
  BY EventType DEF InsertVote, TypesOK, TablesOK
<1>3. others \in SUBSET votes
  OBVIOUS
<1> HIDE DEF others, new
<1>4. IsFiniteSet(others \cup {new})
  BY <1>3, FS_Subset, FS_AddElement DEF TypesOK, TablesOK
<1> QED
  BY <1>1, <1>2, <1>3, <1>4 DEF TypesOK, TablesOK

(* A step of the consumer within a record, or the end of it.               *)
LEMMA HandlerTypes ==
  ASSUME TypesOK,
         CheckVote \/ InsertVote \/ UpdateProposalVoteCounts \/ SaveCursor \/ HandlerFails
  PROVE  TypesOK'
<1>1. /\ UNCHANGED <<stream, lastSeq, op, decisions, over, inTime, ripe, run>>
      /\ \/ saved' = saved
         \/ saved' = lastSeq
      /\ step' \in {"idle", "insertVote", "count", step}
      /\ step' # "idle" /\ step' # step => step # "idle" /\ step # "proposal"
      /\ faults' \in {faults, faults + 1}
  BY DEF CheckVote, InsertVote, UpdateProposalVoteCounts, SaveCursor, HandlerFails, Handled,
         Cursor, tables, clock, machine
<1>2. saved \in 0 .. lastSeq /\ lastSeq \in 0 .. lastSeq /\ faults \in Nat
  BY SeqType DEF TypesOK, ConsumerOK
<1>3. ConsumerOK'
  <2>1. step \in {"idle", "proposal", "vote", "insertVote", "count"}
    BY DEF TypesOK, ConsumerOK
  <2>2. step' \in {"idle", "proposal", "vote", "insertVote", "count"}
    BY <1>1, <2>1
  <2>3. step' # "idle" => step # "idle" /\ (step' = "proposal" <=> step = "proposal")
    BY <1>1
  <2> QED
    BY <1>1, <1>2, <2>2, <2>3, ConsumerKept DEF TypesOK
<1>4. Event' = Event
  BY <1>1 DEF Event
<1>5. /\ rows' \in Seq(Rows) /\ Proposals' = Proposals
      /\ \A p \in Proposals : rows'[p].state = rows[p].state
  <2>1. CASE rows' = rows
    BY <2>1 DEF TypesOK, TablesOK, Proposals
  <2>2. CASE UpdateProposalVoteCounts
    <3>1. /\ Event.proposal \in Proposals /\ Count(Event.proposal) \in [Choices -> Nat]
          /\ rows' = [rows EXCEPT ![Event.proposal].counts = Count(Event.proposal)]
      BY <2>2, CountType DEF UpdateProposalVoteCounts, TypesOK, TablesOK
    <3> DEFINE p == Event.proposal
               n == Count(p)
    <3>2. p \in Proposals /\ n \in [Choices -> Nat] /\ rows' = [rows EXCEPT ![p].counts = n]
      BY <3>1
    <3> HIDE DEF p, n
    <3> QED
      BY <3>2, CountsUpdate DEF TypesOK
  <2> QED
    BY <2>1, <2>2 DEF CheckVote, InsertVote, SaveCursor, HandlerFails, tables
<1>6. /\ votes' \subseteq [voter : Voters, proposal : Proposals, choice : Choices]
      /\ IsFiniteSet(votes')
  <2>1. CASE votes' = votes
    BY <2>1 DEF TypesOK, TablesOK
  <2> QED
    BY <2>1, VotesAfter DEF CheckVote, UpdateProposalVoteCounts, SaveCursor, HandlerFails, tables
<1>7. step' \in {"insertVote", "count"} => Event.proposal \in Proposals
  BY DEF CheckVote, InsertVote, UpdateProposalVoteCounts, SaveCursor, HandlerFails, Handled,
         InState, TypesOK, TablesOK
<1>8. TablesOK'
  BY <1>1, <1>4, <1>5, <1>6, <1>7 DEF TypesOK, TablesOK
<1>9. RunsOK'
  BY <1>1, <1>5, RunsKept DEF TypesOK
<1> QED
  BY <1>3, <1>8, <1>9 DEF TypesOK

LEMMA FaultTypes ==
  ASSUME TypesOK, Crash \/ \E r \in Runs : TransitionsFail(r)
  PROVE  TypesOK'
<1>1. RunsOK'
  BY CrashRun, FailRun
<1>2. faults' = faults + 1 /\ UNCHANGED <<stream, saved, tables, clock>> /\ faults \in Nat
  BY DEF Crash, TransitionsFail, consumer, TypesOK, ConsumerOK
<1>3. ConsumerOK'
  <2>1. CASE Crash
    <3>1. /\ stream \in Streams /\ lastSeq' \in 0 .. Len(stream) /\ saved \in 0 .. lastSeq'
          /\ op' = Ops(saved) /\ lastSeq' = saved /\ step' = "idle"
      BY <2>1, SeqType DEF Crash, TypesOK, ConsumerOK
    <3>2. Ops(saved) \in Nat /\ Ops(lastSeq)' = Ops(saved)
      BY <1>2, <3>1, OpsType DEF Ops
    <3>3. op' \in 0 .. Ops(lastSeq)'
      BY <3>1, <3>2
    <3> QED
      BY <1>2, <3>1, <3>3 DEF ConsumerOK
  <2>2. CASE \E r \in Runs : TransitionsFail(r)
    <3>1. UNCHANGED <<lastSeq, op, step>>
      BY <2>2 DEF TransitionsFail, consumer
    <3> QED
      BY <1>2, <3>1, ConsumerKept DEF TypesOK, ConsumerOK
  <2> QED
    BY <2>1, <2>2
<1>4. TablesOK'
  <2>1. step' \in {"insertVote", "count"} =>
          step \in {"insertVote", "count"} /\ Event'.proposal = Event.proposal
    BY <1>2 DEF Crash, TransitionsFail, consumer, Event
  <2> QED
    BY <1>2, <2>1, TablesKept DEF TypesOK, clock
<1> QED
  BY <1>1, <1>3, <1>4 DEF TypesOK

LEMMA TypesInit == GovernanceInit => TypesOK
<1> SUFFICES ASSUME GovernanceInit PROVE TypesOK
  OBVIOUS
<1> USE DEF GovernanceInit
<1>1. Proposals = {} /\ rows \in Seq(Rows)
  BY EmptySeq DEF Proposals
<1>2. ConsumerOK
  BY DEF ConsumerOK, Ops
<1>3. TablesOK
  BY <1>1, FS_EmptySet DEF TablesOK
<1>4. RunsOK
  <2>1. run \in [Runs -> RunState] /\ \A r \in Runs : run[r] = Idle
    BY IdleType
  <2> QED
    BY <2>1, IdleType DEF RunsOK, Deciding
<1> QED
  BY <1>2, <1>3, <1>4 DEF TypesOK

LEMMA TypesNext ==
  ASSUME TypesOK, [GovernanceNext]_vars PROVE TypesOK'
<1>1. CASE TimeNext
  BY <1>1, TimeTypes DEF TimeNext
<1>2. CASE ConsumerNext \/ SaveCursor \/ HandlerFails
  BY <1>2, HandleEventTypes, InsertProposalTypes, HandlerTypes DEF ConsumerNext
<1>3. CASE \E r \in Runs : BeginTransitions(r) \/ RunNext(r)
  BY <1>3, RunTypes
<1>4. CASE Crash \/ \E r \in Runs : TransitionsFail(r)
  BY <1>4, FaultTypes
<1>5. CASE UNCHANGED vars
  <2>1. UNCHANGED <<stream, lastSeq, op, saved, step, tables, clock, run, faults>>
    BY <1>5 DEF vars, consumer, machine
  <2>2. ConsumerOK'
    BY <2>1, ConsumerKept DEF TypesOK, ConsumerOK
  <2>3. TablesOK'
    BY <2>1, TablesKept DEF TypesOK, clock, Event
  <2>4. RunsOK'
    BY <2>1, RunsKept DEF TypesOK, tables, clock, Proposals
  <2> QED
    BY <2>2, <2>3, <2>4 DEF TypesOK
<1> QED
  BY <1>1, <1>2, <1>3, <1>4, <1>5 DEF GovernanceNext

LEMMA TypesCorrect == GovernanceSpec => []TypesOK
BY TypesInit, TypesNext, PTL DEF GovernanceSpec

(* Types; no proposal is voted on, or decided, before it was deliberated   *)
(* (StartVoting's test of the deliberation's end).                         *)
THEOREM GovernanceTypeCorrect == GovernanceSpec => []GovernanceTypeOK
<1>1. TypesOK => GovernanceTypeOK
  <2> SUFFICES ASSUME TypesOK PROVE GovernanceTypeOK
    OBVIOUS
  <2>1. \A r \in Runs : run[r] \in RunState
    BY DEF TypesOK, RunsOK
  <2>2. \A r \in Runs :
          run[r].at \in {"idle", "listed", "start", "opened", "decide", "record", "recorded"}
    BY <2>1 DEF RunState, Opening, Deciding
  <2>3. lastSeq \in 0 .. Len(stream) /\ saved \in 0 .. Len(stream)
    BY SeqType DEF TypesOK, ConsumerOK
  <2> QED
    BY <2>2, <2>3 DEF TypesOK, ConsumerOK, TablesOK, GovernanceTypeOK
<1> QED
  BY <1>1, TypesCorrect, PTL

----------------------------------------------------------------------------
(* The queue.                                                              *)

(* What the consumer, and time, leave to the runs.                         *)
Quiet == TimeNext \/ ConsumerNext \/ SaveCursor \/ HandlerFails \/ UNCHANGED vars

LEMMA QuietRows ==
  ASSUME TypesOK, Quiet
  PROVE  /\ UNCHANGED <<run, overlap, raced, taken, decisions>>
         /\ Proposals \subseteq Proposals'
         /\ \A p \in Proposals : rows'[p].state = rows[p].state
                              /\ rows'[p].community = rows[p].community
         /\ \A p \in Proposals' \ Proposals : rows'[p].state = "deliberating"
<1>1. UNCHANGED <<run, overlap, raced, taken, decisions>>
  BY DEF Quiet, TimeNext, DeliberationPasses, VotingTimePasses, ConsumerNext, HandleEvent,
         InsertProposal, CheckVote, InsertVote, UpdateProposalVoteCounts, SaveCursor,
         HandlerFails, vars, tables, machine
<1>2. CASE rows' = rows
  BY <1>1, <1>2 DEF Proposals
<1>3. CASE InsertProposal /\ rows' # rows
  BY <1>1, <1>3, NewRow
<1>4. CASE UpdateProposalVoteCounts
  <2> DEFINE p == Event.proposal
             n == Count(p)
  <2>1. p \in Proposals /\ n \in [Choices -> Nat] /\ rows' = [rows EXCEPT ![p].counts = n]
    BY <1>4, CountType DEF UpdateProposalVoteCounts, TypesOK, TablesOK
  <2> HIDE DEF p, n
  <2>2. /\ Proposals' = Proposals
        /\ \A q \in Proposals : /\ rows'[q].community = rows[q].community
                                /\ rows'[q].state = rows[q].state
    BY <2>1, CountsUpdate DEF TypesOK
  <2> QED
    BY <1>1, <2>2
<1> QED
  BY <1>2, <1>3, <1>4
     DEF Quiet, TimeNext, DeliberationPasses, VotingTimePasses, ConsumerNext, HandleEvent,
         CheckVote, InsertVote, SaveCursor, HandlerFails, vars, tables

LEMMA RunsFinite ==
  ASSUME NEW S \in SUBSET Runs
  PROVE  IsFiniteSet(S) /\ Cardinality(S) \in Nat
BY FS_Subset, FS_CardinalityType

(* What only gets smaller stays within the bound.                          *)
LEMMA QueueLess ==
  ASSUME TypesOK, QueueOK, overlap' \in Nat, overlap <= overlap',
         Cardinality(UnderWay') <= overlap',
         \A c \in Communities : VotingIn(c)' \subseteq VotingIn(c)
                             /\ Openers(c)' \subseteq Openers(c)
  PROVE  QueueOK'
<1>1. ASSUME NEW c \in Communities
      PROVE  Cardinality(VotingIn(c)') + Cardinality(Openers(c)') <= overlap'
  <2>1. /\ IsFiniteSet(VotingIn(c)) /\ Cardinality(VotingIn(c)) \in Nat
        /\ IsFiniteSet(Openers(c)) /\ Cardinality(Openers(c)) \in Nat
    BY InStateFinite, RunsFinite DEF TypesOK, Openers
  <2>2. /\ Cardinality(VotingIn(c)') <= Cardinality(VotingIn(c))
        /\ Cardinality(Openers(c)') <= Cardinality(Openers(c))
        /\ Cardinality(VotingIn(c)') \in Nat /\ Cardinality(Openers(c)') \in Nat
    BY <2>1, FS_Subset, FS_CardinalityType
  <2>3. Cardinality(VotingIn(c)) + Cardinality(Openers(c)) <= overlap /\ overlap \in Nat
    BY DEF QueueOK
  <2> QED
    BY <2>1, <2>2, <2>3
<1> QED
  BY <1>1 DEF QueueOK

(* Fewer runs are under way.                                               *)
LEMMA UnderWayLess ==
  ASSUME QueueOK, UnderWay' \subseteq UnderWay
  PROVE  Cardinality(UnderWay') <= overlap /\ overlap \in Nat
<1>1. IsFiniteSet(UnderWay) /\ Cardinality(UnderWay) \in Nat
  BY RunsFinite DEF UnderWay
<1>2. Cardinality(UnderWay') <= Cardinality(UnderWay) /\ Cardinality(UnderWay') \in Nat
  BY <1>1, FS_Subset, FS_CardinalityType
<1> QED
  BY <1>1, <1>2 DEF QueueOK

LEMMA VotingKept ==
  ASSUME rows' = rows, NEW c
  PROVE  VotingIn(c)' = VotingIn(c)
BY DEF VotingIn, InState, Proposals

LEMMA BeginQueue ==
  ASSUME TypesOK, QueueOK, NEW r \in Runs, BeginTransitions(r)
  PROVE  QueueOK'
<1>1. /\ rows' = rows
      /\ overlap' = IF Cardinality(UnderWay') > overlap THEN Cardinality(UnderWay') ELSE overlap
  BY DEF BeginTransitions, tables
<1>2. Cardinality(UnderWay') \in Nat /\ overlap \in Nat
  BY RunsFinite DEF UnderWay, QueueOK
<1>3. overlap' \in Nat /\ overlap <= overlap' /\ Cardinality(UnderWay') <= overlap'
  BY <1>1, <1>2
<1>4. ASSUME NEW c \in Communities PROVE Openers(c)' \subseteq Openers(c)
  BY BeginRun DEF Openers
<1> QED
  BY <1>1, <1>3, <1>4, VotingKept, QueueLess

(* The run may open a voting now, but only where there is none.            *)
LEMMA ReadActiveQueue ==
  ASSUME TypesOK, QueueOK, NEW r \in Runs, ReadActive(r)
  PROVE  QueueOK'
<1>1. rows' = rows /\ overlap' = overlap /\ run[r].at = "listed"
  BY DEF ReadActive, tables
<1>2. /\ \A q \in Runs \ {r} : run'[q] = run[q]
      /\ run'[r].at = "start"
      /\ run'[r].busy = {rows[p].community : p \in InState({"voting"})}
  BY ReadActiveRun DEF Becomes
<1>3. UnderWay' \subseteq UnderWay
  BY <1>1, <1>2 DEF UnderWay
<1>4. Cardinality(UnderWay') <= overlap' /\ overlap' \in Nat
  BY <1>1, <1>3, UnderWayLess
<1>5. ASSUME NEW c \in Communities
      PROVE  Cardinality(VotingIn(c)') + Cardinality(Openers(c)') <= overlap'
  <2>1. VotingIn(c)' = VotingIn(c)
    BY <1>1, VotingKept
  <2>2. /\ IsFiniteSet(Openers(c)) /\ Cardinality(Openers(c)) \in Nat
        /\ IsFiniteSet(Openers(c)') /\ Cardinality(Openers(c)') \in Nat
        /\ Cardinality(VotingIn(c)) \in Nat
    BY RunsFinite, InStateFinite DEF Openers, TypesOK
  <2>3. CASE VotingIn(c) = {}
    <3>1. Openers(c)' \subseteq UnderWay' /\ IsFiniteSet(UnderWay')
          /\ Cardinality(UnderWay') \in Nat
      BY RunsFinite DEF Openers, UnderWay
    <3>2. Cardinality(Openers(c)') <= Cardinality(UnderWay')
      BY <3>1, FS_Subset
    <3>3. Cardinality(VotingIn(c)') = 0
      BY <2>1, <2>3, FS_EmptySet
    <3> QED
      BY <1>4, <2>2, <3>1, <3>2, <3>3
  <2>4. CASE VotingIn(c) # {}
    <3>1. c \in run'[r].busy
      BY <1>2, <2>4 DEF VotingIn
    <3>2. Openers(c)' \subseteq Openers(c)
      BY <1>2, <3>1 DEF Openers
    <3>3. Cardinality(Openers(c)') <= Cardinality(Openers(c))
      BY <2>2, <3>2, FS_Subset
    <3>4. Cardinality(VotingIn(c)) + Cardinality(Openers(c)) <= overlap /\ overlap \in Nat
      BY DEF QueueOK
    <3> QED
      BY <1>1, <2>1, <2>2, <3>3, <3>4
  <2> QED
    BY <2>3, <2>4
<1> QED
  BY <1>4, <1>5 DEF QueueOK

(* It opens one, and opens no other one of the community.                  *)
LEMMA StartVotingQueue ==
  ASSUME TypesOK, QueueOK, NEW r \in Runs, NEW p \in Proposals, StartVoting(r, p)
  PROVE  QueueOK'
<1>1. overlap' = overlap
  BY DEF StartVoting
<1>2. /\ run[r].at = "start" /\ Proposals' = Proposals /\ \A q \in Runs \ {r} : run'[q] = run[q]
      /\ run'[r].at \in {"start", "opened"}
  BY StartVotingRun DEF Becomes
<1>3. UnderWay' \subseteq UnderWay
  BY <1>2 DEF UnderWay
<1>4. Cardinality(UnderWay') <= overlap' /\ overlap' \in Nat
  BY <1>1, <1>3, UnderWayLess
<1>5. CASE rows' = rows
  <2>1. run'[r].busy = run[r].busy \/ run[r].busy \subseteq run'[r].busy
    BY StartVotingRun DEF Becomes
  <2>2. \A c \in Communities : Openers(c)' \subseteq Openers(c)
    BY <1>2, <2>1 DEF Openers
  <2> QED
    BY <1>1, <1>4, <1>5, <2>2, VotingKept, QueueLess
<1>6. CASE rows' # rows
  <2> DEFINE home == rows[p].community
  <2>1. /\ home \notin run[r].busy /\ run'[r].busy = run[r].busy \cup {home}
        /\ rows' = [rows EXCEPT ![p].state = "voting", ![p].ends = @ + 1]
    BY <1>6, StartVotingRun DEF Becomes
  <2>2. /\ rows'[p].state = "voting"
        /\ \A q \in Proposals : /\ rows'[q].community = rows[q].community
                                /\ q # p => rows'[q] = rows[q]
    BY <2>1, VotingUpdate DEF TypesOK
  <2>3. ASSUME NEW c \in Communities
        PROVE  Cardinality(VotingIn(c)') + Cardinality(Openers(c)') <= overlap'
    <3>1. /\ IsFiniteSet(VotingIn(c)) /\ Cardinality(VotingIn(c)) \in Nat
          /\ IsFiniteSet(Openers(c)) /\ Cardinality(Openers(c)) \in Nat
      BY InStateFinite, RunsFinite DEF TypesOK, Openers
    <3>2. Cardinality(VotingIn(c)) + Cardinality(Openers(c)) <= overlap /\ overlap \in Nat
      BY DEF QueueOK
    <3>3. CASE c # home
      <4>1. VotingIn(c)' \subseteq VotingIn(c)
        BY <1>2, <2>2, <3>3 DEF VotingIn, InState
      <4>2. Openers(c)' \subseteq Openers(c)
        BY <1>2, <2>1, <3>3 DEF Openers
      <4>3. /\ Cardinality(VotingIn(c)') <= Cardinality(VotingIn(c))
            /\ Cardinality(Openers(c)') <= Cardinality(Openers(c))
            /\ Cardinality(VotingIn(c)') \in Nat /\ Cardinality(Openers(c)') \in Nat
        BY <3>1, <4>1, <4>2, FS_Subset, FS_CardinalityType
      <4> QED
        BY <1>1, <3>1, <3>2, <4>3
    <3>4. CASE c = home
      <4>1. VotingIn(c)' \subseteq VotingIn(c) \cup {p}
        BY <1>2, <2>2 DEF VotingIn, InState
      <4>2. Openers(c)' \subseteq Openers(c) \ {r} /\ r \in Openers(c)
        BY <1>2, <2>1, <3>4 DEF Openers
      <4>3. /\ IsFiniteSet(VotingIn(c) \cup {p})
            /\ Cardinality(VotingIn(c) \cup {p})
                 = IF p \in VotingIn(c) THEN Cardinality(VotingIn(c))
                   ELSE Cardinality(VotingIn(c)) + 1
        BY <3>1, FS_AddElement, Zenon
      <4>4. /\ IsFiniteSet(Openers(c) \ {r})
            /\ Cardinality(Openers(c) \ {r}) = Cardinality(Openers(c)) - 1
        BY <3>1, <4>2, FS_RemoveElement
      <4>5. /\ Cardinality(VotingIn(c)') <= Cardinality(VotingIn(c) \cup {p})
            /\ Cardinality(VotingIn(c)') \in Nat
        BY <4>1, <4>3, FS_Subset, FS_CardinalityType
      <4>6. /\ Cardinality(Openers(c)') <= Cardinality(Openers(c) \ {r})
            /\ Cardinality(Openers(c)') \in Nat
        BY <4>2, <4>4, FS_Subset, FS_CardinalityType
      <4>7. Cardinality(VotingIn(c)') <= Cardinality(VotingIn(c)) + 1
        BY <3>1, <4>3, <4>5
      <4> QED
        BY <1>1, <3>1, <3>2, <4>4, <4>5, <4>6, <4>7
    <3> QED
      BY <3>3, <3>4
  <2> QED
    BY <1>4, <2>3 DEF QueueOK
<1> QED
  BY <1>5, <1>6

(* No other statement adds to either.                                      *)
LEMMA DecidingQueue ==
  ASSUME TypesOK, QueueOK, NEW r \in Runs,
         \/ ReadVoting(r) \/ Announced(r) \/ TransitionsFail(r)
         \/ \E p \in Proposals : FinalizeProposal(r, p) \/ InsertDecision(r, p)
  PROVE  QueueOK'
<1>1. overlap' = overlap /\ run[r].at # "idle"
  BY DEF ReadVoting, Announced, TransitionsFail, FinalizeProposal, InsertDecision, Insert
<1>2. /\ \A q \in Runs \ {r} : run'[q] = run[q]
      /\ run'[r].at \in {"start", "opened"} =>
           run[r].at \in {"start", "opened"} /\ run'[r].busy = run[r].busy
  BY ReadVotingRun, AnnouncedRun, FailRun, FinalizeRun, InsertRun, IdleType DEF Becomes
<1>3. UnderWay' \subseteq UnderWay /\ \A c \in Communities : Openers(c)' \subseteq Openers(c)
  BY <1>1, <1>2 DEF UnderWay, Openers
<1>4. Cardinality(UnderWay') <= overlap' /\ overlap' \in Nat
  BY <1>1, <1>3, UnderWayLess
<1>5. ASSUME NEW c \in Communities PROVE VotingIn(c)' \subseteq VotingIn(c)
  <2>1. CASE rows' = rows
    BY <2>1, VotingKept
  <2>2. CASE rows' # rows
    <3>1. PICK p \in Proposals : FinalizeProposal(r, p)
      BY <2>2 DEF ReadVoting, Announced, TransitionsFail, InsertDecision, Insert, tables
    <3> DEFINE s == Outcome(run[r].seen[p].counts)
    <3>2. Proposals' = Proposals /\ rows' = [rows EXCEPT ![p].state = s] /\ s \in Decided
      BY <2>2, <3>1, FinalizeRun, OutcomeType
    <3> HIDE DEF s
    <3>3. /\ rows'[p].state \in Decided
          /\ \A q \in Proposals : q # p => rows'[q] = rows[q]
      BY <3>2, StateUpdate DEF TypesOK
    <3>4. rows'[p].state # "voting"
      BY <3>3 DEF Decided
    <3>5. ASSUME NEW q \in VotingIn(c)' PROVE q \in VotingIn(c)
      <4>1. q \in Proposals /\ q # p
        BY <3>2, <3>4, <3>5 DEF VotingIn, InState
      <4>2. rows'[q] = rows[q]
        BY <3>3, <4>1
      <4> QED
        BY <3>5, <4>1, <4>2 DEF VotingIn, InState
    <3> QED
      BY <3>5
  <2> QED
    BY <2>1, <2>2
<1> QED
  BY <1>1, <1>3, <1>4, <1>5, QueueLess

LEMMA QueueNext ==
  ASSUME TypesOK, QueueOK, [GovernanceNext]_vars PROVE QueueOK'
<1>1. CASE Quiet
  <2>1. UNCHANGED <<run, overlap>>
    BY <1>1, QuietRows
  <2>2. \A c \in Communities : VotingIn(c)' \subseteq VotingIn(c)
    BY <1>1, QuietRows DEF VotingIn, InState
  <2>3. UnderWay' = UnderWay /\ \A c : Openers(c)' = Openers(c)
    BY <2>1 DEF UnderWay, Openers
  <2>4. overlap' \in Nat /\ overlap <= overlap' /\ Cardinality(UnderWay') <= overlap'
    BY <2>1, <2>3, UnderWayLess
  <2> QED
    BY <2>2, <2>3, <2>4, QueueLess
<1>2. CASE Crash
  <2>1. /\ rows' = rows /\ overlap' = overlap /\ \A r \in Runs : run'[r] = Idle
    BY <1>2, CrashRun DEF Crash, tables
  <2>2. UnderWay' = {} /\ \A c : Openers(c)' = {}
    BY <2>1, IdleType DEF UnderWay, Openers
  <2>3. overlap' \in Nat /\ overlap <= overlap' /\ Cardinality(UnderWay') <= overlap'
    BY <2>1, <2>2, UnderWayLess
  <2> QED
    BY <2>1, <2>2, <2>3, VotingKept, QueueLess
<1>3. ASSUME NEW r \in Runs, BeginTransitions(r) \/ RunNext(r) \/ TransitionsFail(r)
      PROVE  QueueOK'
  BY <1>3, BeginQueue, ReadActiveQueue, StartVotingQueue, DecidingQueue DEF RunNext
<1> QED
  BY <1>1, <1>2, <1>3 DEF GovernanceNext, Quiet

(* A community has as many votings at most as runs of the state machine    *)
(* ever overlapped, whatever run a crash or a failing statement ended      *)
(* halfway (processStateTransitions, and the timer that starts it).        *)
THEOREM OneVotingPerRunCorrect == GovernanceSpec => []OneVotingPerRun
<1>1. GovernanceInit => QueueOK
  <2> SUFFICES ASSUME GovernanceInit PROVE QueueOK
    OBVIOUS
  <2>1. UnderWay = {} /\ \A c : Openers(c) = {} /\ VotingIn(c) = {}
    BY IdleType DEF GovernanceInit, UnderWay, Openers, VotingIn, InState, Proposals
  <2>2. Cardinality({}) = 0
    BY FS_EmptySet
  <2>3. Cardinality(UnderWay) = 0 /\ overlap = 0
    BY <2>1, <2>2 DEF GovernanceInit
  <2>4. ASSUME NEW c \in Communities
        PROVE  Cardinality(VotingIn(c)) = 0 /\ Cardinality(Openers(c)) = 0
    BY <2>1, <2>2
  <2> QED
    BY <2>3, <2>4 DEF QueueOK
<1>2. TypesOK /\ QueueOK => OneVotingPerRun
  <2> SUFFICES ASSUME TypesOK, QueueOK, NEW c \in Communities
               PROVE  Cardinality(VotingIn(c)) <= overlap
    BY DEF OneVotingPerRun
  <2>1. Cardinality(VotingIn(c)) \in Nat /\ Cardinality(Openers(c)) \in Nat
    BY InStateFinite, RunsFinite DEF TypesOK, Openers
  <2> QED
    BY <2>1 DEF QueueOK
<1>3. TypesOK /\ QueueOK /\ [GovernanceNext]_vars => QueueOK'
  BY QueueNext
<1> QED
  BY <1>1, <1>2, <1>3, TypesCorrect, PTL DEF GovernanceSpec

----------------------------------------------------------------------------
(* Decisions, and the proposals in hand.                                   *)

LEMMA DecisionTypes ==
  ASSUME TypesOK
  PROVE  /\ \A d \in decisions : d.proposal \in Proposals /\ d.result \in Decided
         /\ Recorded \subseteq Proposals
         /\ "voting" \notin Decided /\ "deliberating" \notin Decided
BY DEF TypesOK, TablesOK, Recorded, Decided

(* A run that was not about to write a decision is not missed.             *)
LEMMA RecordingKept ==
  ASSUME NEW r \in Runs, run[r].at # "record", \A q \in Runs \ {r} : run'[q] = run[q]
  PROVE  Recording(Runs) \subseteq Recording(Runs)'
<1> SUFFICES ASSUME NEW q \in Runs, run[q].at = "record", NEW p \in run[q].busy
             PROVE  p \in Recording(Runs)'
  BY DEF Recording
<1>1. run'[q] = run[q]
  OBVIOUS
<1> QED
  BY <1>1 DEF Recording

(* Neither a decision nor a decided proposal more.                         *)
LEMMA DecisionsKept ==
  ASSUME DecisionsOK, decisions' = decisions, InState(Decided)' \subseteq InState(Decided),
         Recording(Runs) \subseteq Recording(Runs)' \cup taken', taken \subseteq taken'
  PROVE  DecisionsOK'
BY DEF DecisionsOK, Recorded

LEMMA RunDecisions ==
  ASSUME TypesOK, DecisionsOK, NEW r \in Runs, BeginTransitions(r) \/ RunNext(r)
  PROVE  DecisionsOK'
<1>1. taken' = taken
  BY DEF BeginTransitions, RunNext, ReadActive, ReadVoting, Announced, StartVoting,
         FinalizeProposal, InsertDecision, Insert
<1>2. CASE BeginTransitions(r) \/ ReadActive(r) \/ ReadVoting(r) \/ Announced(r)
  <2>1. /\ run[r].at # "record" /\ decisions' = decisions /\ rows' = rows
        /\ \A q \in Runs \ {r} : run'[q] = run[q]
    BY <1>2, BeginRun, ReadActiveRun, ReadVotingRun, AnnouncedRun
       DEF BeginTransitions, ReadActive, ReadVoting, Announced, tables
  <2>2. InState(Decided)' = InState(Decided)
    BY <2>1 DEF InState, Proposals
  <2> QED
    BY <1>1, <2>1, <2>2, RecordingKept, DecisionsKept
<1>3. ASSUME NEW p \in Proposals, StartVoting(r, p) PROVE DecisionsOK'
  <2>1. /\ run[r].at # "record" /\ decisions' = decisions /\ Proposals' = Proposals
        /\ \A q \in Runs \ {r} : run'[q] = run[q]
        /\ \/ rows' = rows
           \/ rows' = [rows EXCEPT ![p].state = "voting", ![p].ends = @ + 1]
    BY <1>3, StartVotingRun DEF StartVoting
  <2>2. \A q \in Proposals : rows'[q].state \in Decided => rows[q].state \in Decided
    BY <2>1, VotingUpdate, DecisionTypes DEF TypesOK
  <2>3. InState(Decided)' \subseteq InState(Decided)
    BY <2>1, <2>2 DEF InState
  <2> QED
    BY <1>1, <2>1, <2>3, RecordingKept, DecisionsKept
<1>4. ASSUME NEW p \in Proposals, FinalizeProposal(r, p) PROVE DecisionsOK'
  <2>1. /\ run[r].at # "record" /\ decisions' = decisions /\ Proposals' = Proposals
        /\ \A q \in Runs \ {r} : run'[q] = run[q]
    BY <1>4, FinalizeRun DEF FinalizeProposal
  <2>2. CASE rows' = rows
    <3>1. InState(Decided)' = InState(Decided)
      BY <2>2 DEF InState, Proposals
    <3> QED
      BY <1>1, <2>1, <3>1, RecordingKept, DecisionsKept
  <2>3. CASE rows' # rows
    <3>1. /\ rows' = [rows EXCEPT ![p].state = Outcome(run[r].seen[p].counts)]
          /\ run'[r].at = "record" /\ run'[r].busy = {p}
      BY <1>4, <2>3, FinalizeRun DEF Becomes
    <3>2. \A q \in Proposals : q # p => rows'[q] = rows[q]
      BY <3>1, OutcomeType, StateUpdate DEF TypesOK
    <3>3. InState(Decided)' \subseteq InState(Decided) \cup {p}
      BY <2>1, <3>2 DEF InState
    <3>4. p \in Recording(Runs)'
      BY <3>1 DEF Recording
    <3>5. Recording(Runs) \subseteq Recording(Runs)' /\ Recorded' = Recorded
      BY <2>1, RecordingKept DEF Recorded
    <3> QED
      BY <1>1, <2>1, <3>3, <3>4, <3>5 DEF DecisionsOK
  <2> QED
    BY <2>2, <2>3
<1>5. ASSUME NEW p \in Proposals, InsertDecision(r, p) PROVE DecisionsOK'
  <2> DEFINE new == Decision(p, run[r].seen[p])
  <2>1. /\ run[r].busy = {p} /\ \A q \in Runs \ {r} : run'[q] = run[q]
        /\ \/ p \in Recorded /\ decisions' = decisions
           \/ p \notin Recorded /\ decisions' = decisions \cup {new}
    BY <1>5, InsertRun
  <2>2. new.proposal = p /\ rows' = rows
    BY <1>5 DEF Decision, InsertDecision, Insert
  <2> HIDE DEF new
  <2>3. Recorded' = Recorded \cup {p}
    BY <2>1, <2>2 DEF Recorded
  <2>4. InState(Decided)' = InState(Decided)
    BY <2>2 DEF InState, Proposals
  <2>5. Recording(Runs) \subseteq Recording(Runs)' \cup {p}
    <3> SUFFICES ASSUME NEW q \in Runs, run[q].at = "record", NEW x \in run[q].busy, x # p
                 PROVE  x \in Recording(Runs)'
      BY DEF Recording
    <3>1. q # r
      BY <2>1
    <3>2. run'[q] = run[q]
      BY <2>1, <3>1
    <3> QED
      BY <3>2 DEF Recording
  <2>6. \A d, e \in decisions' : d.proposal = e.proposal => d = e
    BY <2>1, <2>2 DEF DecisionsOK, Recorded
  <2> QED
    BY <1>1, <2>3, <2>4, <2>5, <2>6 DEF DecisionsOK
<1> QED
  BY <1>2, <1>3, <1>4, <1>5 DEF RunNext

LEMMA DecisionsNext ==
  ASSUME TypesOK, DecisionsOK, [GovernanceNext]_vars PROVE DecisionsOK'
<1>1. CASE Quiet
  <2>1. /\ UNCHANGED <<run, taken, decisions>> /\ Proposals \subseteq Proposals'
        /\ \A p \in Proposals : rows'[p].state = rows[p].state
        /\ \A p \in Proposals' \ Proposals : rows'[p].state = "deliberating"
    BY <1>1, QuietRows
  <2>2. InState(Decided)' \subseteq InState(Decided)
    BY <2>1, DecisionTypes DEF InState
  <2>3. Recording(Runs)' = Recording(Runs)
    BY <2>1 DEF Recording
  <2> QED
    BY <2>1, <2>2, <2>3, DecisionsKept
<1>2. CASE Crash
  <2>1. decisions' = decisions /\ rows' = rows /\ taken' = taken \cup Recording(Runs)
    BY <1>2 DEF Crash, tables
  <2>2. InState(Decided)' = InState(Decided)
    BY <2>1 DEF InState, Proposals
  <2> QED
    BY <2>1, <2>2, DecisionsKept
<1>3. ASSUME NEW r \in Runs, TransitionsFail(r) PROVE DecisionsOK'
  <2>1. /\ decisions' = decisions /\ rows' = rows /\ taken' = taken \cup Recording({r})
        /\ \A q \in Runs \ {r} : run'[q] = run[q]
    BY <1>3, FailRun DEF TransitionsFail, tables
  <2>2. InState(Decided)' = InState(Decided)
    BY <2>1 DEF InState, Proposals
  <2>3. Recording(Runs) \subseteq Recording(Runs)' \cup taken'
    <3> SUFFICES ASSUME NEW q \in Runs, run[q].at = "record", NEW p \in run[q].busy
                 PROVE  p \in Recording(Runs)' \cup taken'
      BY DEF Recording
    <3>1. CASE q = r
      BY <2>1, <3>1 DEF Recording
    <3>2. CASE q # r
      <4>1. run'[q] = run[q]
        BY <2>1, <3>2
      <4> QED
        BY <4>1 DEF Recording
    <3> QED
      BY <3>1, <3>2
  <2> QED
    BY <2>1, <2>2, <2>3, DecisionsKept
<1> QED
  BY <1>1, <1>2, <1>3, RunDecisions DEF GovernanceNext, Quiet

(* No row, no decision; and the run has in hand what it had, or what is    *)
(* not decided.                                                            *)
LEMMA HandsKept ==
  ASSUME TypesOK, HandsOK, NEW r \in Runs, \A q \in Runs \ {r} : run'[q] = run[q],
         UNCHANGED <<rows, decisions, raced>>,
         \A p \in run'[r].todo : p \in run[r].todo \/ rows[p].state \notin Decided,
         \A p \in (run'[r].todo \cap Proposals) \ raced : InHand(r, p)'
  PROVE  HandsOK'
<1>1. Proposals' = Proposals /\ Recorded' = Recorded
  BY DEF Proposals, Recorded
<1>2. ASSUME NEW p \in Proposals \ raced, NEW q \in Runs, p \in run'[q].todo
      PROVE  InHand(q, p)'
  <2>1. CASE q = r
    BY <1>2, <2>1
  <2>2. CASE q # r
    <3>1. run'[q] = run[q] /\ InHand(q, p)
      BY <1>2, <2>2 DEF HandsOK
    <3>2. ASSUME \A x \in Runs \ {q} : p \notin run[x].todo, rows[p].state \in Decided
          PROVE  \A x \in Runs \ {q} : p \notin run'[x].todo
      <4>1. p \notin run'[r].todo
        BY <2>2, <3>2
      <4> QED
        BY <3>2, <4>1
    <3>3. Outcome(run[q].seen[p].counts) \in Decided
      BY OutcomeType
    <3> QED
      BY <1>1, <3>1, <3>2, <3>3 DEF InHand
  <2> QED
    BY <2>1, <2>2
<1>3. ASSUME NEW p \in Proposals \ raced, NEW d \in decisions, d.proposal = p
      PROVE  rows[p].state = d.result
  BY <1>3 DEF HandsOK
<1> QED
  BY <1>1, <1>2, <1>3 DEF HandsOK

LEMMA QuietHands ==
  ASSUME TypesOK, HandsOK, Quiet
  PROVE  HandsOK'
<1>1. /\ UNCHANGED <<run, raced, decisions>> /\ Proposals \subseteq Proposals'
      /\ \A p \in Proposals : rows'[p].state = rows[p].state
  BY QuietRows
<1>2. Recorded' = Recorded
  BY <1>1 DEF Recorded
<1>3. ASSUME NEW p \in Proposals' \ raced', NEW d \in decisions', d.proposal = p
      PROVE  rows'[p].state = d.result
  BY <1>1, <1>3, DecisionTypes DEF HandsOK
<1>4. ASSUME NEW p \in Proposals' \ raced', NEW r \in Runs, p \in run'[r].todo
      PROVE  InHand(r, p)'
  <2>1. p \in Proposals \ raced
    BY <1>1, <1>4 DEF TypesOK, RunsOK
  <2>2. InHand(r, p)
    BY <1>1, <1>4, <2>1 DEF HandsOK
  <2> QED
    BY <1>1, <1>2, <2>1, <2>2 DEF InHand
<1> QED
  BY <1>3, <1>4 DEF HandsOK

(* Statements that set no state.                                           *)
LEMMA ReadingHands ==
  ASSUME TypesOK, HandsOK, NEW r \in Runs,
         \/ BeginTransitions(r) \/ ReadActive(r) \/ ReadVoting(r) \/ Announced(r)
         \/ TransitionsFail(r)
  PROVE  HandsOK'
<1>1. UNCHANGED <<rows, decisions, raced>>
  BY DEF BeginTransitions, ReadActive, ReadVoting, Announced, TransitionsFail, tables
<1>2. \A q \in Runs \ {r} : run'[q] = run[q]
  BY BeginRun, ReadActiveRun, ReadVotingRun, AnnouncedRun, FailRun
<1>3. ASSUME NEW p \in run'[r].todo
      PROVE  /\ p \in run[r].todo \/ rows[p].state \notin Decided
             /\ p \in Proposals \ raced => InHand(r, p)'
  <2>1. CASE BeginTransitions(r)
    <3>1. run'[r].at = "listed" /\ run'[r].todo = InState({"deliberating"})
      BY <2>1, BeginRun
    <3>2. rows[p].state = "deliberating"
      BY <1>3, <3>1 DEF InState
    <3> QED
      BY <1>1, <3>1, <3>2, DecisionTypes DEF InHand, Opening
  <2>2. CASE ReadVoting(r) /\ run'[r] # Idle
    <3>1. run'[r].at = "decide" /\ run'[r].todo = InState({"voting"})
      BY <2>2, ReadVotingRun DEF Becomes
    <3>2. rows[p].state = "voting"
      BY <1>3, <3>1 DEF InState
    <3> QED
      BY <1>1, <3>1, <3>2, DecisionTypes DEF InHand, Deciding
  <2>3. CASE run'[r] = Idle
    BY <1>3, <2>3, IdleType
  <2>4. CASE ReadActive(r)
    <3>1. /\ run[r].at = "listed" /\ run'[r].at = "start" /\ run'[r].todo = run[r].todo
      BY <2>4, ReadActiveRun DEF Becomes, ReadActive
    <3>2. p \in Proposals \ raced => InHand(r, p)
      BY <1>3, <3>1 DEF HandsOK
    <3> QED
      BY <1>1, <1>3, <3>1, <3>2 DEF InHand, Opening, Deciding
  <2>5. CASE Announced(r) /\ run'[r] # Idle
    <3>1. /\ run'[r].todo = run[r].todo
          /\ \/ run[r].at = "opened" /\ run'[r].at = "start"
             \/ run[r].at = "recorded" /\ run'[r].at = "decide"
      BY <2>5, AnnouncedRun DEF Becomes
    <3>2. p \in Proposals \ raced => InHand(r, p)
      BY <1>3, <3>1 DEF HandsOK
    <3> QED
      BY <1>1, <1>3, <3>1, <3>2 DEF InHand, Opening, Deciding
  <2> QED
    BY <2>1, <2>2, <2>3, <2>4, <2>5, FailRun
<1> QED
  BY <1>1, <1>2, <1>3, HandsKept

(* The state is set without a look; but what no other run has in hand      *)
(* still is what it was.                                                   *)
LEMMA HandsSet ==
  ASSUME TypesOK, HandsOK, NEW r \in Runs, NEW p \in Proposals,
         \A q \in Runs \ {r} : run'[q] = run[q], run'[r].todo \subseteq run[r].todo,
         Proposals' = Proposals, decisions' = decisions, raced' = RacedBy(r, p),
         \A x \in Proposals : x # p => rows'[x] = rows[x],
         p \notin raced => p \notin Recorded,
         p \notin raced' /\ p \in run'[r].todo => InHand(r, p)',
         \A x \in run'[r].todo \ (raced \cup {p}) : InHand(r, x)'
  PROVE  HandsOK'
<1>1. raced \subseteq raced' /\ (p \notin raced' => \A q \in Runs \ {r} : p \notin run[q].todo)
  BY DEF RacedBy, InOtherHands
<1>2. Recorded' = Recorded
  BY DEF Recorded
<1>3. ASSUME NEW x \in Proposals \ raced', NEW d \in decisions', d.proposal = x
      PROVE  rows'[x].state = d.result
  <2>1. x # p
    BY <1>1, <1>3 DEF Recorded
  <2> QED
    BY <1>1, <1>3, <2>1 DEF HandsOK
<1>4. ASSUME NEW x \in Proposals \ raced', NEW q \in Runs, x \in run'[q].todo
      PROVE  InHand(q, x)'
  <2>1. CASE q = r
    BY <1>1, <1>4, <2>1
  <2>2. CASE q # r
    <3>1. run'[q] = run[q] /\ x # p
      BY <1>1, <1>4, <2>2
    <3>2. InHand(q, x) /\ rows'[x] = rows[x]
      BY <1>1, <1>4, <3>1 DEF HandsOK
    <3>3. ASSUME \A y \in Runs \ {q} : x \notin run[y].todo
          PROVE  \A y \in Runs \ {q} : x \notin run'[y].todo
      BY <2>2, <3>3
    <3> QED
      BY <1>2, <3>1, <3>2, <3>3 DEF InHand
  <2> QED
    BY <2>1, <2>2
<1> QED
  BY <1>3, <1>4 DEF HandsOK

(* A proposal that is deliberated on, or voted on, has no decision.        *)
LEMMA Undecided ==
  ASSUME TypesOK, HandsOK, NEW p \in Proposals \ raced, rows[p].state \notin Decided
  PROVE  p \notin Recorded
<1> SUFFICES ASSUME NEW d \in decisions, d.proposal = p PROVE FALSE
  BY DEF Recorded
<1>1. rows[p].state = d.result /\ d.result \in Decided
  BY DEF HandsOK, TypesOK, TablesOK
<1> QED
  BY <1>1

LEMMA StartVotingHands ==
  ASSUME TypesOK, HandsOK, NEW r \in Runs, NEW p \in Proposals, StartVoting(r, p)
  PROVE  HandsOK'
<1>1. /\ run[r].at = "start" /\ p \in run[r].todo /\ Proposals' = Proposals
      /\ \A q \in Runs \ {r} : run'[q] = run[q]
      /\ run'[r].at \in Opening /\ run'[r].todo = run[r].todo \ {p}
      /\ decisions' = decisions
  BY StartVotingRun DEF Becomes, Opening, StartVoting
<1>2. ASSUME NEW x \in Proposals \ raced, x \in run[r].todo
      PROVE  rows[x].state = "deliberating"
  BY <1>1, <1>2 DEF HandsOK, InHand, Deciding
<1>3. CASE UNCHANGED <<rows, raced>>
  <2>1. \A x \in (run'[r].todo \cap Proposals) \ raced : InHand(r, x)'
    BY <1>1, <1>2, <1>3 DEF InHand
  <2> QED
    BY <1>1, <1>3, <2>1, HandsKept
<1>4. CASE /\ rows' = [rows EXCEPT ![p].state = "voting", ![p].ends = @ + 1]
           /\ raced' = RacedBy(r, p)
  <2>1. \A x \in Proposals : x # p => rows'[x] = rows[x]
    BY <1>4, VotingUpdate DEF TypesOK
  <2>2. p \notin raced => p \notin Recorded
    BY <1>1, <1>2, DecisionTypes, Undecided
  <2>3. \A x \in run'[r].todo \ (raced \cup {p}) : InHand(r, x)'
    <3>1. run[r].todo \subseteq Proposals
      BY DEF TypesOK, RunsOK
    <3> QED
      BY <1>1, <1>2, <2>1, <3>1 DEF InHand
  <2> QED
    BY <1>1, <1>4, <2>1, <2>2, <2>3, HandsSet
<1> QED
  BY <1>3, <1>4, StartVotingRun

LEMMA FinalizeHands ==
  ASSUME TypesOK, HandsOK, NEW r \in Runs, NEW p \in Proposals, FinalizeProposal(r, p)
  PROVE  HandsOK'
<1>1. /\ run[r].at = "decide" /\ p \in run[r].todo /\ Proposals' = Proposals
      /\ \A q \in Runs \ {r} : run'[q] = run[q]
      /\ decisions' = decisions
  BY FinalizeRun DEF FinalizeProposal
<1>2. ASSUME NEW x \in Proposals \ raced, x \in run[r].todo
      PROVE  rows[x].state = "voting"
  BY <1>1, <1>2 DEF HandsOK, InHand, Opening
<1>3. CASE /\ \/ run'[r] = Idle
              \/ Becomes(r, "decide", run[r].todo \ {p}, {}, run[r].seen)
           /\ UNCHANGED <<rows, raced>>
  <2>1. CASE run'[r] = Idle
    BY <1>1, <1>3, <2>1, IdleType, HandsKept
  <2>2. CASE Becomes(r, "decide", run[r].todo \ {p}, {}, run[r].seen)
    <3>1. run'[r].at = "decide" /\ run'[r].todo = run[r].todo \ {p}
      BY <2>2 DEF Becomes
    <3>2. \A x \in (run'[r].todo \cap Proposals) \ raced : InHand(r, x)'
      BY <1>2, <1>3, <3>1 DEF InHand, Deciding
    <3> QED
      BY <1>1, <1>3, <3>1, <3>2, HandsKept
  <2> QED
    BY <1>3, <2>1, <2>2
<1>4. CASE /\ Becomes(r, "record", run[r].todo, {p}, run[r].seen)
           /\ rows' = [rows EXCEPT ![p].state = Outcome(run[r].seen[p].counts)]
           /\ raced' = RacedBy(r, p)
  <2>1. /\ run'[r].at = "record" /\ run'[r].todo = run[r].todo /\ run'[r].busy = {p}
        /\ run'[r].seen = run[r].seen
    BY <1>4 DEF Becomes
  <2>2. /\ \A x \in Proposals : x # p => rows'[x] = rows[x]
        /\ rows'[p].state = Outcome(run[r].seen[p].counts)
    BY <1>4, OutcomeType, StateUpdate DEF TypesOK
  <2>3. p \notin raced => p \notin Recorded
    BY <1>1, <1>2, DecisionTypes, Undecided
  <2>4. ASSUME p \notin raced' PROVE InHand(r, p)'
    <3>1. p \notin raced /\ \A q \in Runs \ {r} : p \notin run[q].todo
      BY <1>4, <2>4 DEF RacedBy, InOtherHands
    <3>2. p \notin Recorded' /\ \A q \in Runs \ {r} : p \notin run'[q].todo
      BY <1>1, <2>3, <3>1 DEF Recorded
    <3> QED
      BY <2>1, <2>2, <3>2 DEF InHand
  <2>5. \A x \in run'[r].todo \ (raced \cup {p}) : InHand(r, x)'
    <3>1. run[r].todo \subseteq Proposals
      BY DEF TypesOK, RunsOK
    <3> QED
      BY <1>2, <2>1, <2>2, <3>1 DEF InHand, Deciding
  <2>6. run'[r].todo \subseteq run[r].todo
    BY <2>1
  <2> QED
    BY <1>1, <1>4, <2>2, <2>3, <2>4, <2>5, <2>6, HandsSet
<1> QED
  BY <1>3, <1>4, FinalizeRun

LEMMA InsertHands ==
  ASSUME TypesOK, HandsOK, NEW r \in Runs, NEW p \in Proposals, InsertDecision(r, p)
  PROVE  HandsOK'
<1>1. /\ run[r].at = "record" /\ run[r].busy = {p} /\ p \in run[r].todo
      /\ Proposals' = Proposals /\ \A q \in Runs \ {r} : run'[q] = run[q]
      /\ UNCHANGED <<rows, raced>>
  BY InsertRun DEF InsertDecision, Insert
<1>2. CASE run'[r] = Idle /\ decisions' = decisions
  BY <1>1, <1>2, IdleType, HandsKept
<1>3. CASE /\ Becomes(r, "recorded", run[r].todo \ {p}, {}, run[r].seen)
           /\ decisions' = decisions \cup {Decision(p, run[r].seen[p])}
  <2> DEFINE new == Decision(p, run[r].seen[p])
  <2>1. run'[r].at = "recorded" /\ run'[r].todo = run[r].todo \ {p}
    BY <1>3 DEF Becomes
  <2>2. new.proposal = p /\ new.result = Outcome(run[r].seen[p].counts)
    BY DEF Decision
  <2>3. decisions' = decisions \cup {new}
    BY <1>3
  <2> HIDE DEF new
  <2>4. Recorded' = Recorded \cup {p}
    BY <2>2, <2>3 DEF Recorded
  <2>5. p \notin raced => /\ rows[p].state = Outcome(run[r].seen[p].counts)
                          /\ \A q \in Runs \ {r} : p \notin run[q].todo
    BY <1>1 DEF HandsOK, InHand, Opening
  <2>6. ASSUME NEW x \in Proposals \ raced, NEW d \in decisions', d.proposal = x
        PROVE  rows[x].state = d.result
    BY <2>2, <2>3, <2>5, <2>6 DEF HandsOK
  <2>7. ASSUME NEW x \in Proposals \ raced, NEW q \in Runs, x \in run'[q].todo
        PROVE  InHand(q, x)'
    <3>1. x # p
      BY <1>1, <2>1, <2>5, <2>7
    <3>2. CASE q = r
      <4>1. InHand(r, x)
        BY <2>1, <2>7, <3>2 DEF HandsOK
      <4>2. rows[x].state = "voting"
        BY <1>1, <3>1, <4>1 DEF InHand, Opening
      <4> QED
        BY <1>1, <2>1, <3>2, <4>2 DEF InHand, Deciding
    <3>3. CASE q # r
      <4>1. run'[q] = run[q] /\ InHand(q, x)
        BY <1>1, <2>7, <3>3 DEF HandsOK
      <4>2. ASSUME \A y \in Runs \ {q} : x \notin run[y].todo
            PROVE  \A y \in Runs \ {q} : x \notin run'[y].todo
        BY <1>1, <2>1, <3>3, <4>2
      <4> QED
        BY <1>1, <2>4, <3>1, <4>1, <4>2 DEF InHand
    <3> QED
      BY <3>2, <3>3
  <2> QED
    BY <1>1, <2>6, <2>7 DEF HandsOK
<1> QED
  BY <1>2, <1>3, InsertRun

LEMMA CrashHands ==
  ASSUME TypesOK, HandsOK, Crash PROVE HandsOK'
<1>1. \A r \in Runs : run'[r].todo = {}
  BY CrashRun, IdleType
<1>2. UNCHANGED <<rows, decisions, raced>>
  BY DEF Crash, tables
<1>3. Proposals' = Proposals
  BY <1>2 DEF Proposals
<1> QED
  BY <1>1, <1>2, <1>3 DEF HandsOK

LEMMA HandsNext ==
  ASSUME TypesOK, HandsOK, [GovernanceNext]_vars PROVE HandsOK'
<1>1. CASE Quiet
  BY <1>1, QuietHands
<1>2. ASSUME NEW r \in Runs,
             \/ BeginTransitions(r) \/ ReadActive(r) \/ ReadVoting(r) \/ Announced(r)
             \/ TransitionsFail(r)
      PROVE  HandsOK'
  BY <1>2, ReadingHands
<1>3. ASSUME NEW r \in Runs, NEW p \in Proposals,
             StartVoting(r, p) \/ FinalizeProposal(r, p) \/ InsertDecision(r, p)
      PROVE  HandsOK'
  BY <1>3, StartVotingHands, FinalizeHands, InsertHands
<1>4. CASE Crash
  BY <1>4, CrashHands
<1> QED
  BY <1>1, <1>2, <1>3, <1>4 DEF GovernanceNext, RunNext, Quiet

(* A proposal has one decision (a second one is refused), which is its     *)
(* state although FinalizeProposal and InsertDecision are two statements,  *)
(* unless two runs had it in hand; without one it is only in the hands of  *)
(* a run, or after a crash or a failure there.                             *)
THEOREM DecisionUnlessRacedCorrect == GovernanceSpec => []DecisionUnlessRaced
<1>1. GovernanceInit => TypesOK /\ HandsOK /\ DecisionsOK
  <2> SUFFICES ASSUME GovernanceInit PROVE HandsOK /\ DecisionsOK
    BY TypesInit
  <2>1. decisions = {} /\ Proposals = {}
    BY DEF GovernanceInit, Proposals
  <2> QED
    BY <2>1 DEF HandsOK, DecisionsOK, InState
<1>2. TypesOK /\ HandsOK /\ DecisionsOK /\ [GovernanceNext]_vars
        => (TypesOK /\ HandsOK /\ DecisionsOK)'
  BY TypesNext, HandsNext, DecisionsNext
<1>3. TypesOK /\ HandsOK /\ DecisionsOK => DecisionUnlessRaced
  <2> SUFFICES ASSUME TypesOK, HandsOK, DecisionsOK PROVE DecisionUnlessRaced
    OBVIOUS
  <2>1. ASSUME NEW d \in decisions
        PROVE  d.proposal \in raced \/ rows[d.proposal].state = d.result
    <3>1. d.proposal \in Proposals
      BY DEF TypesOK, TablesOK
    <3> QED
      BY <3>1 DEF HandsOK
  <2> QED
    BY <2>1 DEF DecisionsOK, DecisionUnlessRaced, Recorded
<1> QED
  BY <1>1, <1>2, <1>3, PTL DEF GovernanceSpec

----------------------------------------------------------------------------
(* Votes.                                                                  *)

(* A voter who asks has a commit of their own.                             *)
LEMMA AskedFinite ==
  ASSUME TypesOK, NEW p, NEW S
  PROVE  IsFiniteSet(Asked(p, S)) /\ Cardinality(Asked(p, S)) \in Nat
<1> DEFINE of(v) == CHOOSE n \in 1 .. Len(stream) : stream[n].did = v
           f     == [v \in Asked(p, S) |-> of(v)]
<1>1. Len(stream) \in Nat
  BY SeqType DEF TypesOK
<1>2. ASSUME NEW v \in Asked(p, S)
      PROVE  of(v) \in 1 .. Len(stream) /\ stream[of(v)].did = v
  <2>1. \E n \in 1 .. Len(stream) : stream[n].did = v
    BY DEF Asked
  <2> QED
    BY <2>1
<1>3. f \in [Asked(p, S) -> 1 .. Len(stream)] /\ \A u, v \in Asked(p, S) : f[u] = f[v] => u = v
  BY <1>2
<1>4. f \in Injection(Asked(p, S), 1 .. Len(stream))
  <2> HIDE DEF f
  <2> QED
    BY <1>3, Fun_IsInj
<1>5. IsFiniteSet(1 .. Len(stream))
  BY <1>1, FS_Interval
<1> QED
  BY <1>4, <1>5, FS_Injection, FS_CardinalityType

(* The count of a choice is the number of voters whose row has it.         *)
LEMMA CountIsVoters ==
  ASSUME TypesOK, VotesOK, NEW p, NEW c \in Choices
  PROVE  /\ Count(p)[c] = Cardinality(VotedFor(p, {c}))
         /\ IsFiniteSet(VotedFor(p, {c})) /\ Count(p)[c] \in Nat
         /\ VotedFor(p, {c}) \subseteq Asked(p, {c})
<1> DEFINE T == {vote \in votes : vote.proposal = p /\ vote.choice = c}
           V == VotedFor(p, {c})
           f == [vote \in T |-> vote.voter]
<1>1. Count(p)[c] = Cardinality(T)
  BY DEF Count
<1>2. T \in SUBSET votes /\ IsFiniteSet(votes)
  BY DEF TypesOK, TablesOK
<1>3. f \in [T -> V] /\ (\A u, w \in T : f[u] = f[w] => u = w) /\ \A v \in V : \E w \in T : f[w] = v
  <2>1. \A w \in T : w \in votes /\ w.voter \in Voters /\ w.proposal = p /\ w.choice = c
    BY DEF TypesOK, TablesOK
  <2>2. \A w \in T : w.voter \in V
    BY <2>1 DEF VotedFor
  <2>3. \A v \in V : \E w \in T : w.voter = v
    BY DEF VotedFor
  <2>4. \A u, w \in T : u.voter = w.voter => u = w
    BY <2>1 DEF VotesOK
  <2> QED
    BY <2>2, <2>3, <2>4
<1>4. V \subseteq Asked(p, {c})
  BY DEF VotedFor, VotesOK
<1> HIDE DEF T, V, f
<1>5. IsFiniteSet(T)
  BY <1>2, FS_Subset
<1>6. f \in Surjection(T, V) /\ f \in Injection(T, V)
  BY <1>3, Fun_IsInj, Fun_IsSurj
<1>7. IsFiniteSet(V) /\ Cardinality(V) = Cardinality(T)
  BY <1>5, <1>6, FS_Surjection
<1>8. Cardinality(V) \in Nat
  BY <1>7, FS_CardinalityType
<1> QED
  BY <1>1, <1>4, <1>7, <1>8 DEF V

LEMMA DisjointUnion ==
  ASSUME NEW S, NEW T, IsFiniteSet(S), IsFiniteSet(T), S \cap T = {}
  PROVE  /\ IsFiniteSet(S \cup T) /\ Cardinality(S) \in Nat /\ Cardinality(T) \in Nat
         /\ Cardinality(S \cup T) = Cardinality(S) + Cardinality(T)
<1>1. Cardinality(S \cap T) = 0
  BY FS_EmptySet
<1>2. Cardinality(S) \in Nat /\ Cardinality(T) \in Nat
  BY FS_CardinalityType
<1>3. /\ IsFiniteSet(S \cup T)
      /\ Cardinality(S \cup T) = Cardinality(S) + Cardinality(T) - Cardinality(S \cap T)
  BY FS_Union
<1> QED
  BY <1>1, <1>2, <1>3

(* Nobody is counted for two choices.                                      *)
LEMMA TotalIsVoters ==
  ASSUME TypesOK, VotesOK, NEW p
  PROVE  /\ Total(Count(p)) = Cardinality(VotedFor(p, Choices))
         /\ IsFiniteSet(VotedFor(p, Choices)) /\ Total(Count(p)) \in Nat
         /\ VotedFor(p, Choices) \subseteq Asked(p, Choices)
<1> DEFINE F == VotedFor(p, {"for"})
           A == VotedFor(p, {"against"})
           N == VotedFor(p, {"abstain"})
<1>1. /\ Count(p)["for"] = Cardinality(F) /\ IsFiniteSet(F)
      /\ Count(p)["against"] = Cardinality(A) /\ IsFiniteSet(A)
      /\ Count(p)["abstain"] = Cardinality(N) /\ IsFiniteSet(N)
      /\ Cardinality(F) \in Nat /\ Cardinality(A) \in Nat /\ Cardinality(N) \in Nat
  BY CountIsVoters, FS_CardinalityType DEF Choices
<1>2. VotedFor(p, Choices) = (F \cup A) \cup N
  BY DEF VotedFor, Choices
<1>3. F \cap A = {} /\ (F \cup A) \cap N = {}
  BY DEF VotedFor, VotesOK
<1>4. VotedFor(p, Choices) \subseteq Asked(p, Choices)
  <2>1. ASSUME NEW v \in VotedFor(p, Choices) PROVE v \in Asked(p, Choices)
    <3>1. PICK vote \in votes : vote.voter = v /\ vote.proposal = p /\ vote.choice \in Choices
      BY DEF VotedFor
    <3>2. v \in Asked(p, {vote.choice})
      BY <3>1 DEF VotesOK
    <3> QED
      BY <3>1, <3>2 DEF Asked
  <2> QED
    BY <2>1
<1> HIDE DEF F, A, N
<1>5. IsFiniteSet(F \cup A) /\ Cardinality(F \cup A) = Cardinality(F) + Cardinality(A)
  BY <1>1, <1>3, DisjointUnion
<1>6. IsFiniteSet((F \cup A) \cup N)
      /\ Cardinality((F \cup A) \cup N) = Cardinality(F \cup A) + Cardinality(N)
  BY <1>1, <1>3, <1>5, DisjointUnion
<1> QED
  BY <1>1, <1>2, <1>4, <1>5, <1>6 DEF Total

(* Steps that count nothing; some of what was counted may be passed over.  *)
LEMMA VotesKept ==
  ASSUME VotesOK, UNCHANGED <<stream, votes, overwritten>>, Proposals' = Proposals,
         \A p \in Proposals : rows'[p].counts = rows[p].counts,
         \A t \in inTime' : \/ t \in inTime /\ t.proposal \in Proposals
                            \/ t.total <= Total(rows'[t.proposal].counts)
  PROVE  VotesOK'
<1>1. \A p, S : VotedFor(p, S)' = VotedFor(p, S) /\ Asked(p, S)' = Asked(p, S)
  BY DEF VotedFor, Asked, Ops
<1> QED
  BY <1>1 DEF VotesOK

LEMMA VotingTimePassesVotes ==
  ASSUME TypesOK, VotesOK, NEW p \in Proposals, VotingTimePasses(p)
  PROVE  VotesOK'
<1>1. PICK k \in 1 .. rows[p].ends :
        inTime' = inTime \cup {[proposal |-> p, ends |-> k, total |-> Total(rows[p].counts)]}
  BY DEF VotingTimePasses
<1>2. UNCHANGED <<stream, votes, overwritten, rows>>
  BY DEF VotingTimePasses, consumer, tables
<1>3. Proposals' = Proposals /\ Total(rows[p].counts) <= Total(rows[p].counts)
  BY <1>2, RowsType DEF Proposals, TypesOK
<1>4. \A t \in inTime : t.proposal \in Proposals
  BY DEF TypesOK, TablesOK
<1> QED
  BY <1>1, <1>2, <1>3, <1>4, VotesKept

LEMMA InsertProposalVotes ==
  ASSUME TypesOK, VotesOK, InsertProposal
  PROVE  VotesOK'
<1>1. UNCHANGED <<stream, votes, overwritten, inTime>>
  BY DEF InsertProposal
<1>2. \A t \in inTime : t.proposal \in Proposals
  BY DEF TypesOK, TablesOK
<1>3. CASE rows' = rows
  BY <1>1, <1>2, <1>3, VotesKept DEF Proposals
<1>4. CASE rows' # rows
  <2>1. /\ Proposals' = Proposals \cup {Len(rows')} /\ \A q \in Proposals : rows'[q] = rows[q]
        /\ rows'[Len(rows')].counts = NoVotes
    BY <1>4, NewRow
  <2>2. \A p, S : VotedFor(p, S)' = VotedFor(p, S) /\ Asked(p, S)' = Asked(p, S)
    BY <1>1 DEF VotedFor, Asked, Ops
  <2>3. Total(NoVotes) = 0 /\ \A c \in Choices : NoVotes[c] = 0
    BY DEF Total, NoVotes, Choices
  <2>4. ASSUME NEW p \in Proposals'
        PROVE  /\ \A c \in Choices : rows'[p].counts[c] <= Cardinality(Asked(p, {c}))
               /\ Total(rows'[p].counts) <= Cardinality(Asked(p, Choices))
               /\ p \notin overwritten =>
                    Total(rows'[p].counts) <= Cardinality(VotedFor(p, Choices))
    <3>1. CASE p \in Proposals
      BY <2>1, <3>1 DEF VotesOK
    <3>2. CASE p = Len(rows')
      <4>1. \A S : Cardinality(Asked(p, S)) \in Nat
        BY AskedFinite
      <4>2. Cardinality(VotedFor(p, Choices)) \in Nat
        BY TotalIsVoters, FS_CardinalityType
      <4>3. \A c \in Choices : NoVotes[c] <= Cardinality(Asked(p, {c}))
        BY <2>3, <4>1
      <4>4. /\ Total(NoVotes) <= Cardinality(Asked(p, Choices))
            /\ Total(NoVotes) <= Cardinality(VotedFor(p, Choices))
        BY <2>3, <4>1, <4>2
      <4> QED
        BY <2>1, <3>2, <4>3, <4>4, Zenon
    <3> QED
      BY <2>1, <3>1, <3>2
  <2>5. \A u, w \in votes' : u.voter = w.voter /\ u.proposal = w.proposal => u = w
    BY <1>1 DEF VotesOK
  <2>6. \A w \in votes' : w.voter \in Asked(w.proposal, {w.choice})'
    BY <1>1, <2>2 DEF VotesOK
  <2>7. \A t \in inTime' : t.proposal \in overwritten'
                        \/ t.total <= Total(rows'[t.proposal].counts)
    BY <1>1, <1>2, <2>1 DEF VotesOK
  <2> QED
    BY <1>1, <2>2, <2>4, <2>5, <2>6, <2>7 DEF VotesOK
<1> QED
  BY <1>3, <1>4

(* The row is in the place of those that are removed: only the proposal of *)
(* another row of the millisecond loses a voter.                           *)
LEMMA InsertVoteVotes ==
  ASSUME TypesOK, VotesOK, InsertVote
  PROVE  VotesOK'
<1> DEFINE old    == {vote \in votes : SameVote(vote) \/ SameUri(vote)}
           others == votes \ old
           new    == [voter |-> Author, proposal |-> Event.proposal, choice |-> Event.choice]
           lost   == {vote.proposal : vote \in {other \in old : ~SameVote(other)}}
<1>1. /\ \/ votes' = votes /\ overwritten' = overwritten
         \/ votes' = others \cup {new} /\ overwritten' = overwritten \cup lost
      /\ UNCHANGED <<stream, rows, inTime>> /\ step = "insertVote"
  BY DEF InsertVote, clock
<1>2. Proposals' = Proposals /\ \A p, S : Asked(p, S)' = Asked(p, S)
  BY <1>1 DEF Proposals, Asked, Ops
<1>3. CASE votes' = votes /\ overwritten' = overwritten
  <2>1. \A t \in inTime : t.proposal \in Proposals
    BY DEF TypesOK, TablesOK
  <2> QED
    BY <1>1, <1>2, <1>3, <2>1, VotesKept
<1>4. CASE votes' = others \cup {new} /\ overwritten' = overwritten \cup lost
  <2>1. /\ Author \in Voters /\ Event.kind = "vote" /\ lastSeq \in 1 .. Len(stream)
        /\ op \in 1 .. Ops(lastSeq) /\ Event.choice \in Choices
    BY <1>1, EventType DEF TypesOK
  <2>2. /\ new.voter = Author /\ new.proposal = Event.proposal
        /\ new.choice = Event.choice /\ new.choice \in Choices
    BY <2>1
  <2>3. \A w \in others : w \in votes /\ ~(w.voter = new.voter /\ w.proposal = new.proposal)
    BY <2>2 DEF SameVote
  <2>4. Author \in Asked(Event.proposal, {Event.choice})
    BY <2>1 DEF Asked, Event, Author
  <2>5. \A w \in votes : w \notin others =>
          w.proposal \in lost \/ (w.voter = new.voter /\ w.proposal = new.proposal)
    BY <2>2 DEF SameVote
  <2> HIDE DEF old, others, new, lost
  <2>6. \A u, w \in votes' : u.voter = w.voter /\ u.proposal = w.proposal => u = w
    BY <1>4, <2>3 DEF VotesOK
  <2>7. \A w \in votes' : w.voter \in Asked(w.proposal, {w.choice})'
    BY <1>2, <1>4, <2>2, <2>3, <2>4 DEF VotesOK
  <2>8. ASSUME NEW p \in Proposals, p \notin overwritten'
        PROVE  Total(rows[p].counts) <= Cardinality(VotedFor(p, Choices)')
    <3>1. Total(rows[p].counts) <= Cardinality(VotedFor(p, Choices))
      BY <1>4, <2>8 DEF VotesOK
    <3>2. Total(rows[p].counts) \in Nat
      BY RowsType DEF TypesOK
    <3>3. VotedFor(p, Choices) \subseteq VotedFor(p, Choices)'
      BY <1>4, <2>2, <2>5, <2>8 DEF VotedFor
    <3>4. VotedFor(p, Choices)' \subseteq VotedFor(p, Choices) \cup {new.voter}
      BY <1>4, <2>3 DEF VotedFor
    <3>5. IsFiniteSet(VotedFor(p, Choices) \cup {new.voter})
      BY TotalIsVoters, FS_AddElement
    <3>6. IsFiniteSet(VotedFor(p, Choices)')
      BY <3>4, <3>5, FS_Subset
    <3>7. /\ Cardinality(VotedFor(p, Choices)) <= Cardinality(VotedFor(p, Choices)')
          /\ Cardinality(VotedFor(p, Choices)) \in Nat
          /\ Cardinality(VotedFor(p, Choices)') \in Nat
      BY <3>3, <3>6, FS_Subset, FS_CardinalityType, TotalIsVoters
    <3> QED
      BY <3>1, <3>2, <3>7
  <2>9. \A p \in Proposals : /\ \A c \in Choices : rows[p].counts[c] <= Cardinality(Asked(p, {c}))
                             /\ Total(rows[p].counts) <= Cardinality(Asked(p, Choices))
    BY DEF VotesOK
  <2>10. \A t \in inTime' : t.proposal \in overwritten'
                         \/ t.total <= Total(rows'[t.proposal].counts)
    BY <1>1, <1>4 DEF VotesOK
  <2> QED
    BY <1>1, <1>2, <2>6, <2>7, <2>8, <2>9, <2>10 DEF VotesOK
<1> QED
  BY <1>1, <1>3, <1>4

LEMMA UpdateProposalVoteCountsVotes ==
  ASSUME TypesOK, VotesOK, UpdateProposalVoteCounts
  PROVE  VotesOK'
<1> DEFINE p == Event.proposal
           n == Count(p)
<1>1. /\ UNCHANGED <<stream, votes, overwritten, inTime>>
      /\ rows' = [rows EXCEPT ![p].counts = n] /\ p \in Proposals
  BY DEF UpdateProposalVoteCounts, clock, TypesOK, TablesOK
<1>2. /\ \A c \in Choices : n[c] <= Cardinality(Asked(p, {c}))
      /\ Total(n) = Cardinality(VotedFor(p, Choices)) /\ Total(n) \in Nat
      /\ Total(n) <= Cardinality(Asked(p, Choices))
      /\ n \in [Choices -> Nat]
  <2>1. ASSUME NEW c \in Choices PROVE n[c] <= Cardinality(Asked(p, {c}))
    <3>1. VotedFor(p, {c}) \subseteq Asked(p, {c}) /\ IsFiniteSet(Asked(p, {c}))
      BY CountIsVoters, AskedFinite
    <3>2. Cardinality(VotedFor(p, {c})) <= Cardinality(Asked(p, {c}))
      BY <3>1, FS_Subset
    <3>3. n[c] = Cardinality(VotedFor(p, {c}))
      BY CountIsVoters
    <3> QED
      BY <3>2, <3>3
  <2>2. Total(n) <= Cardinality(Asked(p, Choices))
    <3>1. VotedFor(p, Choices) \subseteq Asked(p, Choices) /\ IsFiniteSet(Asked(p, Choices))
      BY TotalIsVoters, AskedFinite
    <3> QED
      BY <3>1, TotalIsVoters, FS_Subset
  <2>3. n \in [Choices -> Nat]
    BY CountType DEF TypesOK, TablesOK
  <2> QED
    BY <2>1, <2>2, <2>3, TotalIsVoters
<1> HIDE DEF p, n
<1>3. /\ Proposals' = Proposals /\ rows'[p].counts = n
      /\ \A q \in Proposals : q # p => rows'[q] = rows[q]
  BY <1>1, <1>2, CountsUpdate DEF TypesOK
<1>4. \A q, S : VotedFor(q, S)' = VotedFor(q, S) /\ Asked(q, S)' = Asked(q, S)
  BY <1>1 DEF VotedFor, Asked, Ops
<1>5. ASSUME NEW q \in Proposals
      PROVE  /\ \A c \in Choices : rows'[q].counts[c] <= Cardinality(Asked(q, {c}))
             /\ Total(rows'[q].counts) <= Cardinality(Asked(q, Choices))
             /\ q \notin overwritten =>
                  Total(rows'[q].counts) <= Cardinality(VotedFor(q, Choices))
  <2>1. CASE q = p
    BY <1>2, <1>3, <2>1
  <2>2. CASE q # p
    BY <1>3, <2>2 DEF VotesOK
  <2> QED
    BY <2>1, <2>2
<1>6. ASSUME NEW t \in inTime, t.proposal \notin overwritten
      PROVE  t.total <= Total(rows'[t.proposal].counts)
  <2>1. t.proposal \in Proposals /\ t.total \in Nat /\ t.total <= Total(rows[t.proposal].counts)
    BY <1>6 DEF VotesOK, TypesOK, TablesOK
  <2>2. CASE t.proposal = p
    <3>1. Total(rows[p].counts) <= Total(n) /\ Total(rows[p].counts) \in Nat
      BY <1>1, <1>2, <1>6, <2>2, RowsType DEF VotesOK, TypesOK
    <3> QED
      BY <1>2, <1>3, <2>1, <2>2, <3>1
  <2>3. CASE t.proposal # p
    BY <1>3, <2>1, <2>3
  <2> QED
    BY <2>2, <2>3
<1> QED
  BY <1>1, <1>3, <1>4, <1>5, <1>6 DEF VotesOK

LEMMA VotesNext ==
  ASSUME TypesOK, VotesOK, [GovernanceNext]_vars PROVE VotesOK'
<1>a. \A t \in inTime : t.proposal \in Proposals
  BY DEF TypesOK, TablesOK
<1>b. ASSUME UNCHANGED <<stream, votes, overwritten, inTime, rows>> PROVE VotesOK'
  BY <1>a, <1>b, VotesKept DEF Proposals
<1>1. ASSUME NEW p \in Proposals, DeliberationPasses(p) \/ VotingTimePasses(p) PROVE VotesOK'
  <2>1. CASE DeliberationPasses(p)
    BY <1>b, <2>1 DEF DeliberationPasses, consumer, tables
  <2> QED
    BY <1>1, <2>1, VotingTimePassesVotes
<1>2. CASE HandleEvent \/ CheckVote \/ SaveCursor \/ HandlerFails \/ Crash
  BY <1>2, <1>b DEF HandleEvent, CheckVote, SaveCursor, HandlerFails, Crash, tables, clock
<1>3. CASE InsertProposal \/ InsertVote \/ UpdateProposalVoteCounts
  BY <1>3, InsertProposalVotes, InsertVoteVotes, UpdateProposalVoteCountsVotes
<1>4. ASSUME NEW r \in Runs,
             \/ BeginTransitions(r) \/ ReadActive(r) \/ ReadVoting(r) \/ Announced(r)
             \/ TransitionsFail(r)
      PROVE  VotesOK'
  BY <1>4, <1>b DEF BeginTransitions, ReadActive, ReadVoting, Announced, TransitionsFail,
                    consumer, tables, clock
<1>5. ASSUME NEW r \in Runs, NEW p \in Proposals, StartVoting(r, p) \/ FinalizeProposal(r, p)
      PROVE  VotesOK'
  <2>1. UNCHANGED <<stream, votes, overwritten, inTime>>
    BY <1>5 DEF StartVoting, FinalizeProposal, consumer, clock
  <2>2. \/ rows' = rows
        \/ rows' = [rows EXCEPT ![p].state = "voting", ![p].ends = @ + 1]
        \/ rows' = [rows EXCEPT ![p].state = Outcome(run[r].seen[p].counts)]
    BY <1>5 DEF StartVoting, FinalizeProposal
  <2>3. Proposals' = Proposals /\ \A q \in Proposals : rows'[q].counts = rows[q].counts
    BY <2>2, VotingUpdate, OutcomeType, StateUpdate DEF TypesOK, Proposals
  <2> QED
    BY <1>a, <2>1, <2>3, VotesKept
<1>6. ASSUME NEW r \in Runs, NEW p \in Proposals, InsertDecision(r, p) PROVE VotesOK'
  BY <1>6, <1>b DEF InsertDecision, Insert, consumer, clock
<1>7. CASE UNCHANGED vars
  BY <1>7, <1>b DEF vars, consumer, tables, clock
<1> QED
  BY <1>1, <1>2, <1>3, <1>4, <1>5, <1>6, <1>7
     DEF GovernanceNext, TimeNext, ConsumerNext, RunNext

LEMMA VotesCorrect == GovernanceSpec => []VotesOK
<1>1. GovernanceInit => VotesOK
  BY DEF GovernanceInit, VotesOK, Proposals
<1>2. TypesOK /\ VotesOK /\ [GovernanceNext]_vars => VotesOK'
  BY VotesNext
<1> QED
  BY <1>1, <1>2, TypesCorrect, PTL DEF GovernanceSpec

(* No voter counts twice for a proposal nor for what they did not choose,  *)
(* when they vote again, a restart replays the stream or a row takes the   *)
(* place of another (onVoteCast and the keys of the votes).                *)
THEOREM OneVoteEachCorrect == GovernanceSpec => []OneVoteEach
<1>1. VotesOK => OneVoteEach
  BY DEF VotesOK, OneVoteEach
<1> QED
  BY <1>1, VotesCorrect, PTL

----------------------------------------------------------------------------
(* What was counted in time.  PostgreSQL decides without looking at the    *)
(* time: the rest is about SQLite.                                         *)

(* A run that goes on, with what it had or what it has just read.          *)
LEMMA TimedKept ==
  ASSUME TypesOK, TimedOK, NEW r \in Runs, UNCHANGED <<decisions, over, inTime, overwritten>>,
         \A q \in Runs \ {r} : run'[q] = run[q],
         run'[r].at \in Deciding => \A p \in run'[r].todo : SeenAll(r, p)',
         run'[r].at = "record" =>
           \A p \in run'[r].busy : <<p, run'[r].seen[p].ends>> \in run'[r].over
  PROVE  TimedOK'
<1>1. CountedInTime'
  BY DEF TimedOK, CountedInTime
<1>2. ASSUME NEW q \in Runs
      PROVE  /\ run'[q].at \in Deciding => \A p \in run'[q].todo : SeenAll(q, p)'
             /\ run'[q].at = "record" =>
                  \A p \in run'[q].busy : <<p, run'[q].seen[p].ends>> \in run'[q].over
  <2>1. CASE q = r
    BY <2>1
  <2>2. CASE q # r
    <3>1. run'[q] = run[q]
      BY <2>2
    <3> QED
      BY <3>1 DEF TimedOK, SeenAll
  <2> QED
    BY <2>1, <2>2
<1> QED
  BY <1>1, <1>2 DEF TimedOK

(* What is counted now, or opened, or passes now, is not of a time that    *)
(* had passed when a run began.                                            *)
LEMMA QuietTimed ==
  ASSUME TypesOK, TimedOK, Quiet
  PROVE  TimedOK'
<1>1. /\ run' = run /\ decisions' = decisions /\ overwritten \subseteq overwritten'
      /\ inTime \subseteq inTime'
      /\ \A pair \in over' : pair \in over \/ \E t \in inTime' : pair = <<t.proposal, t.ends>>
      /\ \A t \in inTime' \ inTime : <<t.proposal, t.ends>> \notin over
  <2>1. ASSUME NEW p \in Proposals, VotingTimePasses(p)
        PROVE  /\ overwritten' = overwritten /\ inTime \subseteq inTime'
               /\ \A pair \in over' : \/ pair \in over
                                      \/ \E t \in inTime' : pair = <<t.proposal, t.ends>>
               /\ \A t \in inTime' \ inTime : <<t.proposal, t.ends>> \notin over
    <3>1. PICK k \in 1 .. rows[p].ends :
            /\ \A j \in 1 .. k : <<p, j>> \in over <=> j # k
            /\ over' = over \cup {<<p, k>>}
            /\ inTime' = inTime
                 \cup {[proposal |-> p, ends |-> k, total |-> Total(rows[p].counts)]}
      BY <2>1 DEF VotingTimePasses
    <3>2. k \in 1 .. k
      BY RowsType DEF TypesOK
    <3>3. overwritten' = overwritten
      BY <2>1 DEF VotingTimePasses, consumer
    <3> DEFINE t == [proposal |-> p, ends |-> k, total |-> Total(rows[p].counts)]
    <3>4. t.proposal = p /\ t.ends = k /\ inTime' = inTime \cup {t}
      BY <3>1
    <3> HIDE DEF t
    <3> QED
      BY <3>1, <3>2, <3>3, <3>4
  <2>2. CASE \A p \in Proposals : ~VotingTimePasses(p)
    <3>1. over' = over /\ inTime' = inTime
      BY <2>2 DEF Quiet, TimeNext, DeliberationPasses, ConsumerNext, HandleEvent,
         InsertProposal, CheckVote, InsertVote, UpdateProposalVoteCounts, SaveCursor,
         HandlerFails, vars, clock
    <3>2. overwritten \subseteq overwritten'
      BY <2>2 DEF Quiet, TimeNext, DeliberationPasses, ConsumerNext, HandleEvent,
         InsertProposal, CheckVote, InsertVote, UpdateProposalVoteCounts, SaveCursor,
         HandlerFails, vars, consumer
    <3> QED
      BY <3>1, <3>2, QuietRows
  <2>3. run' = run /\ decisions' = decisions
    BY QuietRows
  <2> QED
    BY <2>1, <2>2, <2>3
<1>2. \A pair \in over' : \E t \in inTime' : pair = <<t.proposal, t.ends>>
  BY <1>1 DEF TimedOK
<1>3. ASSUME NEW r \in Runs, NEW p, SeenAll(r, p) PROVE SeenAll(r, p)'
  <2>1. run[r].over \subseteq over
    BY DEF TypesOK, RunsOK
  <2> QED
    BY <1>1, <1>3, <2>1 DEF SeenAll
<1>4. CountedInTime'
  BY <1>1 DEF TimedOK, CountedInTime
<1> QED
  BY <1>1, <1>2, <1>3, <1>4 DEF TimedOK

LEMMA ReadVotingTimed ==
  ASSUME TypesOK, VotesOK, TimedOK, NEW r \in Runs, ReadVoting(r)
  PROVE  TimedOK'
<1>1. /\ UNCHANGED <<decisions, over, inTime, overwritten, rows>>
      /\ \A q \in Runs \ {r} : run'[q] = run[q]
      /\ \/ run'[r] = Idle
         \/ Becomes(r, "decide", InState({"voting"}), {}, VotingNow)
  BY ReadVotingRun DEF ReadVoting, consumer, tables, clock
<1>2. CASE run'[r] = Idle
  BY <1>1, <1>2, IdleType, TimedKept DEF Deciding
<1>3. CASE Becomes(r, "decide", InState({"voting"}), {}, VotingNow)
  <2>1. run'[r].at = "decide" /\ run'[r].todo = InState({"voting"}) /\ run'[r].seen = VotingNow
    BY <1>3 DEF Becomes
  <2>2. ASSUME NEW p \in run'[r].todo PROVE SeenAll(r, p)'
    <3>1. run'[r].seen[p].counts = rows[p].counts
      BY <2>1, <2>2 DEF VotingNow
    <3>2. \A t \in inTime : t.proposal \in overwritten
                         \/ t.total <= Total(rows[t.proposal].counts)
      BY DEF VotesOK
    <3> QED
      BY <1>1, <3>1, <3>2 DEF SeenAll
  <2> QED
    BY <1>1, <2>1, <2>2, TimedKept
<1> QED
  BY <1>1, <1>2, <1>3

LEMMA FinalizeTimed ==
  ASSUME ~Postgres, TypesOK, TimedOK, NEW r \in Runs, NEW p \in Proposals,
         FinalizeProposal(r, p)
  PROVE  TimedOK'
<1>1. /\ UNCHANGED <<decisions, over, inTime, overwritten>>
      /\ \A q \in Runs \ {r} : run'[q] = run[q]
      /\ run[r].at \in Deciding
  BY FinalizeRun DEF FinalizeProposal, consumer, clock, Deciding
<1>2. ASSUME NEW x \in run[r].todo, run'[r].over = run[r].over, run'[r].seen = run[r].seen
      PROVE  SeenAll(r, x)'
  BY <1>1, <1>2 DEF TimedOK, SeenAll
<1>3. CASE Due(r, p) /\ Becomes(r, "record", run[r].todo, {p}, run[r].seen)
  <2>1. <<p, run[r].seen[p].ends>> \in run[r].over
    BY <1>3 DEF Due
  <2> QED
    BY <1>1, <1>2, <1>3, <2>1, TimedKept DEF Becomes
<1>4. CASE run'[r] = Idle
  BY <1>1, <1>4, IdleType, TimedKept DEF Deciding
<1>5. CASE Becomes(r, "decide", run[r].todo \ {p}, {}, run[r].seen)
  <2>1. /\ run'[r].at = "decide" /\ run'[r].todo \subseteq run[r].todo
        /\ run'[r].over = run[r].over /\ run'[r].seen = run[r].seen
    BY <1>5 DEF Becomes
  <2> QED
    BY <1>1, <1>2, <2>1, TimedKept
<1> QED
  BY <1>3, <1>4, <1>5, FinalizeRun

(* The time had passed when the run began, so something was counted then.  *)
LEMMA InsertTimed ==
  ASSUME TypesOK, TimedOK, NEW r \in Runs, NEW p \in Proposals, InsertDecision(r, p)
  PROVE  TimedOK'
<1>1. /\ UNCHANGED <<over, inTime, overwritten>> /\ run[r].at = "record"
      /\ \A q \in Runs \ {r} : run'[q] = run[q]
      /\ run[r].busy = {p} /\ p \in run[r].todo
  BY InsertRun DEF InsertDecision, Insert, consumer, clock
<1>2. CASE run'[r] = Idle /\ decisions' = decisions
  BY <1>1, <1>2, IdleType, TimedKept DEF Deciding
<1>3. CASE /\ Becomes(r, "recorded", run[r].todo \ {p}, {}, run[r].seen)
           /\ decisions' = decisions \cup {Decision(p, run[r].seen[p])}
  <2> DEFINE new == Decision(p, run[r].seen[p])
  <2>1. /\ new.proposal = p /\ new.ends = run[r].seen[p].ends
        /\ new.counts = run[r].seen[p].counts
    BY DEF Decision
  <2>2. decisions' = decisions \cup {new}
    BY <1>3
  <2> HIDE DEF new
  <2>3. <<p, new.ends>> \in run[r].over /\ run[r].over \subseteq over /\ SeenAll(r, p)
    BY <1>1, <2>1 DEF TimedOK, TypesOK, RunsOK, Deciding
  <2>4. PICK t \in inTime : <<p, new.ends>> = <<t.proposal, t.ends>>
    BY <2>3 DEF TimedOK
  <2>5. t.proposal = p /\ t.ends = new.ends /\ (p \in overwritten \/ t.total <= Total(new.counts))
    BY <2>1, <2>3, <2>4 DEF SeenAll
  <2>6. CountedInTime'
    <3>1. ASSUME NEW d \in decisions'
          PROVE  \E x \in inTime : /\ x.proposal = d.proposal /\ x.ends = d.ends
                                   /\ d.proposal \in overwritten \/ x.total <= Total(d.counts)
      <4>1. CASE d = new
        BY <2>1, <2>5, <4>1
      <4>2. CASE d \in decisions
        BY <4>2 DEF TimedOK, CountedInTime
      <4> QED
        BY <2>2, <3>1, <4>1, <4>2
    <3> QED
      BY <1>1, <3>1 DEF CountedInTime
  <2>7. ASSUME NEW q \in Runs
        PROVE  /\ run'[q].at \in Deciding => \A x \in run'[q].todo : SeenAll(q, x)'
               /\ run'[q].at = "record" =>
                    \A x \in run'[q].busy : <<x, run'[q].seen[x].ends>> \in run'[q].over
    <3>1. CASE q = r
      <4>1. /\ run'[r].at = "recorded" /\ run'[r].todo \subseteq run[r].todo
            /\ run'[r].over = run[r].over /\ run'[r].seen = run[r].seen
        BY <1>3 DEF Becomes
      <4>2. \A x \in run[r].todo : SeenAll(r, x)
        BY <1>1 DEF TimedOK, Deciding
      <4> QED
        BY <1>1, <3>1, <4>1, <4>2 DEF SeenAll
    <3>2. CASE q # r
      <4>1. run'[q] = run[q]
        BY <1>1, <3>2
      <4> QED
        BY <1>1, <4>1 DEF TimedOK, SeenAll
    <3> QED
      BY <3>1, <3>2
  <2> QED
    BY <1>1, <2>6, <2>7 DEF TimedOK
<1> QED
  BY <1>2, <1>3, InsertRun

LEMMA TimedNext ==
  ASSUME ~Postgres, TypesOK, VotesOK, TimedOK, [GovernanceNext]_vars
  PROVE  TimedOK'
<1>1. CASE Quiet
  BY <1>1, QuietTimed
<1>2. ASSUME NEW r \in Runs,
             \/ BeginTransitions(r) \/ ReadActive(r) \/ Announced(r) \/ TransitionsFail(r)
      PROVE  TimedOK'
  <2>1. UNCHANGED <<decisions, over, inTime, overwritten>>
    BY <1>2 DEF BeginTransitions, ReadActive, Announced, TransitionsFail, consumer, tables, clock
  <2>2. \A q \in Runs \ {r} : run'[q] = run[q]
    BY <1>2, BeginRun, ReadActiveRun, AnnouncedRun, FailRun
  <2>3. CASE run'[r].at \notin Deciding
    BY <2>1, <2>2, <2>3, TimedKept DEF Deciding
  <2>4. CASE run'[r].at \in Deciding
    <3>1. run[r].at = "recorded" /\ Becomes(r, "decide", run[r].todo, {}, run[r].seen)
      BY <1>2, <2>4, BeginRun, ReadActiveRun, AnnouncedRun, FailRun, IdleType
         DEF Becomes, Deciding
    <3>2. /\ run'[r].at = "decide" /\ run'[r].todo = run[r].todo /\ run'[r].seen = run[r].seen
          /\ run'[r].over = run[r].over /\ run[r].at \in Deciding
      BY <3>1 DEF Becomes, Deciding
    <3>3. \A p \in run'[r].todo : SeenAll(r, p)'
      BY <2>1, <3>2 DEF TimedOK, SeenAll
    <3> QED
      BY <2>1, <2>2, <3>2, <3>3, TimedKept
  <2> QED
    BY <2>3, <2>4
<1>3. ASSUME NEW r \in Runs, NEW p \in Proposals, StartVoting(r, p) PROVE TimedOK'
  <2>1. /\ UNCHANGED <<decisions, over, inTime, overwritten>>
        /\ \A q \in Runs \ {r} : run'[q] = run[q]
        /\ run'[r].at \notin Deciding /\ run'[r].at # "record"
    BY <1>3, StartVotingRun DEF StartVoting, Becomes, Deciding, consumer, clock
  <2> QED
    BY <2>1, TimedKept
<1>4. ASSUME NEW r \in Runs, ReadVoting(r) PROVE TimedOK'
  BY <1>4, ReadVotingTimed
<1>5. ASSUME NEW r \in Runs, NEW p \in Proposals, FinalizeProposal(r, p) \/ InsertDecision(r, p)
      PROVE  TimedOK'
  BY <1>5, FinalizeTimed, InsertTimed
<1>6. CASE Crash
  <2>1. UNCHANGED <<decisions, over, inTime, overwritten>>
    BY <1>6 DEF Crash, tables, clock
  <2>2. \A r \in Runs : run'[r].at \notin Deciding /\ run'[r].at # "record"
    BY <1>6, CrashRun, IdleType DEF Deciding
  <2> QED
    BY <2>1, <2>2 DEF TimedOK, CountedInTime
<1> QED
  BY <1>1, <1>2, <1>3, <1>4, <1>5, <1>6 DEF GovernanceNext, RunNext, Quiet

(* With SQLite a decision rests on all that was counted when the voting    *)
(* time of its opening had passed, though the run reads the counts once    *)
(* and the clock before (getProposalsByState, now), and another run, or a  *)
(* later opening, may come between.                                        *)
THEOREM CountedInTimeCorrect == ~Postgres /\ GovernanceSpec => []CountedInTime
<1> SUFFICES ASSUME ~Postgres PROVE GovernanceSpec => []CountedInTime
  OBVIOUS
<1>1. GovernanceInit => TimedOK
  <2> SUFFICES ASSUME GovernanceInit PROVE TimedOK
    OBVIOUS
  <2>1. \A r \in Runs : run[r].at = "idle"
    BY IdleType DEF GovernanceInit
  <2> QED
    BY <2>1 DEF GovernanceInit, TimedOK, CountedInTime, Deciding
<1>2. TypesOK /\ VotesOK /\ TimedOK /\ [GovernanceNext]_vars => TimedOK'
  BY TimedNext
<1>3. TimedOK => CountedInTime
  BY DEF TimedOK
<1> QED
  BY <1>1, <1>2, <1>3, TypesCorrect, VotesCorrect, PTL DEF GovernanceSpec

----------------------------------------------------------------------------
(* The cursor.                                                             *)

LEMMA LostKept ==
  ASSUME TypesOK, CrashLosesOneCommit, NEW x,
         \/ Lost' \subseteq Lost /\ faults' \in {faults, faults + 1}
         \/ Lost' \subseteq Lost \cup {x} /\ faults' = faults + 1
  PROVE  CrashLosesOneCommit'
<1>1. lastSeq \in Nat /\ faults \in Nat
  BY SeqType DEF TypesOK, ConsumerOK
<1>2. IsFiniteSet(Lost) /\ Cardinality(Lost) \in Nat
  <2>1. IsFiniteSet(1 .. lastSeq)
    BY <1>1, FS_Interval
  <2>2. Lost \in SUBSET (1 .. lastSeq)
    BY DEF Lost
  <2>3. IsFiniteSet(Lost)
    BY <2>1, <2>2, FS_Subset
  <2> QED
    BY <2>3, FS_CardinalityType
<1>3. Cardinality(Lost) <= faults
  BY DEF CrashLosesOneCommit
<1>4. /\ IsFiniteSet(Lost \cup {x}) /\ Cardinality(Lost \cup {x}) \in Nat
      /\ Cardinality(Lost \cup {x}) <= Cardinality(Lost) + 1
  <2>1. /\ IsFiniteSet(Lost \cup {x})
        /\ Cardinality(Lost \cup {x}) = IF x \in Lost THEN Cardinality(Lost)
                                        ELSE Cardinality(Lost) + 1
    BY <1>2, FS_AddElement, Zenon
  <2> QED
    BY <1>2, <2>1
<1>5. CASE Lost' \subseteq Lost /\ faults' \in {faults, faults + 1}
  <2>1. Cardinality(Lost') <= Cardinality(Lost) /\ Cardinality(Lost') \in Nat
    BY <1>2, <1>5, FS_Subset, FS_CardinalityType
  <2> QED
    BY <1>1, <1>2, <1>3, <1>5, <2>1 DEF CrashLosesOneCommit
<1>6. CASE Lost' \subseteq Lost \cup {x} /\ faults' = faults + 1
  <2>1. Cardinality(Lost') <= Cardinality(Lost \cup {x}) /\ Cardinality(Lost') \in Nat
    BY <1>4, <1>6, FS_Subset, FS_CardinalityType
  <2> QED
    BY <1>1, <1>2, <1>3, <1>4, <1>6, <2>1 DEF CrashLosesOneCommit
<1> QED
  BY <1>5, <1>6

(* The next record of the commit, or the first of the next one, is in hand *)
(* now; what was handled, or lost, before is as it was.                    *)
LEMMA HandleEventLost ==
  ASSUME TypesOK, HandleEvent
  PROVE  Lost' \subseteq Lost
<1>1. /\ UNCHANGED <<stream, handled>> /\ step = "idle" /\ Lost' \subseteq 1 .. lastSeq'
      /\ \A n : Ops(n)' = Ops(n)
  BY DEF HandleEvent, Lost, Ops
<1>2. step' # "idle"
  <2>1. TypesOK' /\ Len(stream) \in Nat
    BY HandleEventTypes, SeqType DEF TypesOK
  <2>2. lastSeq' \in 1 .. Len(stream) /\ op' \in 1 .. Ops(lastSeq')
    <3>1. CASE op < Ops(lastSeq) /\ op' = op + 1 /\ lastSeq' = lastSeq
      <4>1. lastSeq # 0
        BY <3>1, SeqType DEF Ops, TypesOK
      <4> QED
        BY <3>1, <4>1, SeqType DEF TypesOK, ConsumerOK
    <3>2. CASE lastSeq < Len(stream) /\ lastSeq' = lastSeq + 1 /\ op' = 1
      <4>1. lastSeq' \in 1 .. Len(stream)
        BY <3>2, SeqType DEF TypesOK, ConsumerOK
      <4> QED
        BY <3>2, <4>1, CommitType DEF TypesOK, ConsumerOK
    <3> QED
      BY <3>1, <3>2 DEF HandleEvent
  <2> QED
    BY <2>2, CommitType DEF HandleEvent, TypesOK, ConsumerOK
<1>3. ASSUME NEW n \in Lost' PROVE n \in Lost
  <2>1. PICK i \in 1 .. Ops(n) : <<n, i>> \notin handled /\ (n = lastSeq' => i < op')
    BY <1>1, <1>2, <1>3 DEF Lost
  <2>2. lastSeq \in Nat /\ op \in Nat /\ Ops(lastSeq) \in Nat
    BY SeqType DEF TypesOK
  <2>3. CASE op' = op + 1 /\ lastSeq' = lastSeq
    <3>1. n \in 1 .. lastSeq
      BY <1>1, <1>3, <2>3
    <3>2. n = lastSeq => i < op \/ i = op
      <4>1. i \in Nat /\ (n = lastSeq => i < op + 1)
        BY <2>1, <2>3
      <4> QED
        BY <2>2, <4>1
    <3> QED
      BY <1>1, <2>1, <3>1, <3>2 DEF Lost
  <2>4. CASE op = Ops(lastSeq) /\ lastSeq' = lastSeq + 1 /\ op' = 1
    <3>1. n \in 1 .. lastSeq
      <4>1. n \in 1 .. (lastSeq + 1) /\ n # lastSeq + 1
        BY <1>1, <1>3, <2>1, <2>4
      <4> QED
        BY <2>2, <4>1
    <3>2. n = lastSeq => i < op \/ i = op
      <4>1. n = lastSeq => i \in 1 .. op
        BY <2>1, <2>4
      <4> QED
        BY <2>2, <4>1
    <3> QED
      BY <1>1, <2>1, <3>1, <3>2 DEF Lost
  <2> QED
    BY <2>3, <2>4 DEF HandleEvent
<1> QED
  BY <1>3

LEMMA HandlerLost ==
  ASSUME TypesOK, InsertProposal \/ CheckVote \/ InsertVote \/ UpdateProposalVoteCounts
  PROVE  Lost' \subseteq Lost
<1>1. /\ UNCHANGED <<stream, lastSeq, op>> /\ step # "idle"
      /\ \/ step' = "idle" /\ handled' = handled \cup {<<lastSeq, op>>}
         \/ step' # "idle" /\ handled' = handled
  BY DEF InsertProposal, CheckVote, InsertVote, UpdateProposalVoteCounts, Handled
<1>2. \A n : Ops(n)' = Ops(n)
  BY <1>1 DEF Ops
<1>3. ASSUME NEW n \in Lost' PROVE n \in Lost
  <2>1. PICK i \in 1 .. Ops(n) : /\ <<n, i>> \notin handled'
                                 /\ n = lastSeq => i < op \/ (i = op /\ step' = "idle")
    BY <1>1, <1>2, <1>3 DEF Lost
  <2>2. <<n, i>> \notin handled /\ (n = lastSeq => i < op)
    BY <1>1, <2>1
  <2> QED
    BY <1>1, <1>3, <2>2 DEF Lost
<1> QED
  BY <1>3

(* Of the commit in hand; the ones behind the cursor are as they were.     *)
LEMMA FaultLost ==
  ASSUME TypesOK, HandlerFails \/ Crash
  PROVE  Lost' \subseteq Lost \cup {lastSeq}
<1>1. /\ UNCHANGED <<stream, handled>> /\ lastSeq' \in 0 .. lastSeq
      /\ lastSeq \in Nat
  BY SeqType DEF HandlerFails, Crash, TypesOK, ConsumerOK
<1>2. ASSUME NEW n \in Lost', n # lastSeq PROVE n \in Lost
  <2>1. n \in 1 .. lastSeq
    BY <1>1, <1>2 DEF Lost
  <2>2. \E i \in 1 .. Ops(n) : <<n, i>> \notin handled
    BY <1>1, <1>2 DEF Lost, Ops
  <2> QED
    BY <1>2, <2>1, <2>2 DEF Lost
<1> QED
  BY <1>2

LEMMA LostNext ==
  ASSUME TypesOK, CrashLosesOneCommit, [GovernanceNext]_vars
  PROVE  CrashLosesOneCommit'
<1>1. CASE ConsumerNext
  <2>1. faults' = faults
    BY <1>1 DEF ConsumerNext, HandleEvent, InsertProposal, CheckVote, InsertVote,
       UpdateProposalVoteCounts
  <2> QED
    BY <1>1, <2>1, HandleEventLost, HandlerLost, LostKept DEF ConsumerNext
<1>2. CASE HandlerFails \/ Crash
  <2>1. faults' = faults + 1
    BY <1>2 DEF HandlerFails, Crash
  <2> QED
    BY <1>2, <2>1, FaultLost, LostKept
<1>3. CASE ~ConsumerNext /\ ~HandlerFails /\ ~Crash
  <2>1. UNCHANGED <<stream, lastSeq, op, step, handled>> /\ faults' \in {faults, faults + 1}
    <3>1. CASE SaveCursor \/ TimeNext \/ UNCHANGED vars
      BY <3>1 DEF TimeNext, DeliberationPasses, VotingTimePasses, SaveCursor, consumer, vars
    <3>2. ASSUME NEW r \in Runs, BeginTransitions(r) \/ TransitionsFail(r)
          PROVE  UNCHANGED <<stream, consumer>> /\ faults' \in {faults, faults + 1}
      BY <3>2 DEF BeginTransitions, TransitionsFail
    <3>3. ASSUME NEW r \in Runs, RunNext(r)
          PROVE  UNCHANGED <<stream, consumer, faults>>
      BY <3>3 DEF RunNext, ReadActive, ReadVoting, Announced, StartVoting, FinalizeProposal,
         InsertDecision, Insert
    <3> QED
      BY <1>3, <3>1, <3>2, <3>3 DEF GovernanceNext, consumer
  <2>2. Lost' = Lost
    BY <2>1 DEF Lost, Ops
  <2> QED
    BY <2>1, <2>2, LostKept
<1> QED
  BY <1>1, <1>2, <1>3

(* A crash costs what is left of the commit it was about, a failed handler *)
(* one record, and neither another commit, although the cursor moves       *)
(* before the first record is handled (handleEvent, getCursor).            *)
THEOREM CrashLosesOneCommitCorrect == GovernanceSpec => []CrashLosesOneCommit
<1>1. GovernanceInit => CrashLosesOneCommit
  <2> SUFFICES ASSUME GovernanceInit PROVE CrashLosesOneCommit
    OBVIOUS
  <2>1. Lost = {}
    BY DEF GovernanceInit, Lost
  <2> QED
    BY <2>1, FS_EmptySet DEF GovernanceInit, CrashLosesOneCommit
<1>2. TypesOK /\ CrashLosesOneCommit /\ [GovernanceNext]_vars => CrashLosesOneCommit'
  BY LostNext
<1> QED
  BY <1>1, <1>2, TypesCorrect, PTL DEF GovernanceSpec
=============================================================================
