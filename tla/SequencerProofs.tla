-------------------------- MODULE SequencerProofs --------------------------
(* Proofs about the sequencer's table, for every number of accounts, every *)
(* poll limit and every bound on the rows.                                 *)
EXTENDS Sequencer, FiniteSetTheorems, TLAPS

USE SequencerAssumption

LEMMA SeqSubset ==
  ASSUME NEW S, NEW T, S \subseteq T, NEW q \in Seq(S)
  PROVE  q \in Seq(T)
<1>1. Len(q) \in Nat /\ DOMAIN q = 1 .. Len(q) /\ \A i \in 1 .. Len(q) : q[i] \in T
  OBVIOUS
<1>2. q \in [1 .. Len(q) -> T]
  BY <1>1
<1> QED
  BY <1>1, <1>2

(* A listing of S has the members of S, all of them, in order.             *)
LEMMA ListingsProp ==
  ASSUME NEW S, S \subseteq Nat, IsFiniteSet(S), NEW q \in Listings(S)
  PROVE  /\ q \in Seq(S)
         /\ \A i, j \in DOMAIN q : i < j => q[i] < q[j]
         /\ \A s \in S : \E i \in DOMAIN q : q[i] = s
<1>1. Cardinality(S) \in Nat
  BY FS_CardinalityType
<1>2. q \in [1 .. Cardinality(S) -> S] /\ DOMAIN q = 1 .. Cardinality(S)
  BY DEF Listings
<1>3. q \in Seq(S)
  BY <1>1, <1>2
<1> QED
  BY <1>2, <1>3 DEF Listings

(* LIMIT n keeps a set that misses nothing below its members.              *)
LEMMA FirstNProp ==
  ASSUME NEW S, S \subseteq Nat, IsFiniteSet(S), NEW n \in Nat
  PROVE  /\ FirstN(S, n) \subseteq S
         /\ \A r \in S : \A s \in FirstN(S, n) : r < s => r \in FirstN(S, n)
<1>1. FirstN(S, n) \subseteq S
  BY DEF FirstN
<1>2. ASSUME NEW r \in S, NEW s \in FirstN(S, n), r < s
      PROVE  r \in FirstN(S, n)
  <2> DEFINE below(x) == {y \in S : y < x}
  <2>a. r \in Nat /\ s \in Nat /\ below(s) \subseteq S
    BY <1>1
  <2>b. ASSUME NEW y \in S, y < r
        PROVE  y < s
    <3>1. y \in Nat
      OBVIOUS
    <3> QED
      BY <1>2, <2>a, <2>b, <3>1
  <2>0. below(s) \subseteq S /\ below(r) \subseteq below(s)
    BY <2>a, <2>b
  <2>1. IsFiniteSet(below(s)) /\ below(r) \subseteq below(s)
    BY <2>0, FS_Subset
  <2>2. IsFiniteSet(below(r)) /\ Cardinality(below(r)) <= Cardinality(below(s))
    BY <2>1, FS_Subset
  <2>3. Cardinality(below(r)) \in Nat /\ Cardinality(below(s)) \in Nat
    BY <2>1, <2>2, FS_CardinalityType
  <2>4. Cardinality(below(s)) < n
    BY DEF FirstN
  <2> QED
    BY <2>2, <2>3, <2>4 DEF FirstN
<1> QED
  BY <1>1, <1>2

LEMMA LogFinite ==
  ASSUME SequencerTypeOK, NEW n \in Int
  PROVE  /\ Len(evt) \in Nat
         /\ log \subseteq Nat /\ Above(n) \subseteq Nat
         /\ IsFiniteSet(log) /\ IsFiniteSet(Above(n))
<1>1. Len(evt) \in Nat /\ log \subseteq 1 .. Len(evt) /\ Above(n) \subseteq log
  BY DEF SequencerTypeOK, Above
<1>2. IsFiniteSet(1 .. Len(evt))
  BY <1>1, FS_Interval
<1>3. IsFiniteSet(log) /\ IsFiniteSet(Above(n))
  <2>1. IsFiniteSet(log)
    BY <1>1, <1>2, FS_Subset
  <2> QED
    BY <1>1, <2>1, FS_Subset
<1>4. 1 .. Len(evt) \subseteq Nat
  BY <1>1
<1>5. log \subseteq Nat /\ Above(n) \subseteq Nat
  BY <1>1, <1>4
<1> QED
  BY <1>1, <1>3, <1>5

(* What a range query returns.                                             *)
LEMMA RangeQuery ==
  ASSUME SequencerTypeOK, NEW n \in Int, NEW limit \in Nat,
         NEW q \in RequestSeqRange(n, limit)
  PROVE  /\ q \in Seq(log)
         /\ \A i \in DOMAIN q : q[i] > n
         /\ \A i, j \in DOMAIN q : i < j => q[i] < q[j]
         /\ \A i \in DOMAIN q : \A r \in log :
              n < r /\ r < q[i] => \E j \in DOMAIN q : j < i /\ q[j] = r
<1> DEFINE F == FirstN(Above(n), limit)
<1>1. /\ F \subseteq Above(n) /\ IsFiniteSet(F) /\ F \subseteq Nat
      /\ \A r \in Above(n) : \A s \in F : r < s => r \in F
  BY LogFinite, FirstNProp, FS_Subset
<1>2. /\ q \in Seq(F)
      /\ \A i, j \in DOMAIN q : i < j => q[i] < q[j]
      /\ \A s \in F : \E i \in DOMAIN q : q[i] = s
  BY <1>1, ListingsProp DEF RequestSeqRange
<1>a. F \subseteq log /\ \A s \in F : s > n /\ s \in Nat
  BY <1>1 DEF Above
<1>b. q \in Seq(log)
  BY <1>a, <1>2
<1>3. q \in Seq(log) /\ \A i \in DOMAIN q : q[i] \in F /\ q[i] > n /\ q[i] \in Nat
  BY <1>a, <1>b, <1>2
<1>4. ASSUME NEW i \in DOMAIN q, NEW r \in log, n < r, r < q[i]
      PROVE  \E j \in DOMAIN q : j < i /\ q[j] = r
  <2>1. r \in F /\ r \in Nat
    BY <1>1, <1>3, <1>4, LogFinite DEF Above
  <2>2. PICK j \in DOMAIN q : q[j] = r
    BY <1>2, <2>1
  <2>3. j \in Nat /\ i \in Nat
    BY <1>2
  <2> QED
    BY <1>2, <1>3, <1>4, <2>1, <2>2, <2>3
<1> QED
  BY <1>2, <1>3, <1>4

----------------------------------------------------------------------------
(* An insert extends the table and changes no row that is there.           *)
LEMMA InsertExtends ==
  ASSUME SequencerTypeOK, NEW batch \in Seq(Events), SequenceEvts(batch)
  PROVE  /\ evt' \in Seq(Events)
         /\ Len(evt') \in Nat /\ Len(evt) \in Nat /\ Len(evt) <= Len(evt')
         /\ \A s \in 1 .. Len(evt) : s \in 1 .. Len(evt') /\ evt'[s] = evt[s]
         /\ log \subseteq log' /\ log' \subseteq 1 .. Len(evt')
         /\ \A s \in log' : s \in log \/ s > Len(evt)
<1>1. evt \in Seq(Events) /\ Len(evt) \in Nat /\ Len(batch) \in Nat
  BY DEF SequencerTypeOK
<1>2. evt' \in Seq(Events) /\ Len(evt') = Len(evt) + Len(batch)
  BY <1>1 DEF SequenceEvts
<1>3. ASSUME NEW s \in 1 .. Len(evt)
      PROVE  s \in 1 .. Len(evt') /\ evt'[s] = evt[s]
  BY <1>1, <1>2 DEF SequenceEvts
<1>4. log' = log \cup (Len(evt) + 1 .. Len(evt')) /\ log \subseteq 1 .. Len(evt)
  BY <1>2 DEF SequenceEvts, SequencerTypeOK
<1>5. \A s \in log' : s \in log \/ s > Len(evt)
  BY <1>1, <1>2, <1>4
<1>b. /\ 1 .. Len(evt) \subseteq 1 .. Len(evt')
      /\ Len(evt) + 1 .. Len(evt') \subseteq 1 .. Len(evt')
  BY <1>1, <1>2
<1>6. log \subseteq log' /\ log' \subseteq 1 .. Len(evt')
  BY <1>4, <1>b
<1> QED
  BY <1>1, <1>2, <1>3, <1>5, <1>6

(* What the actions that append have in common.                            *)
LEMMA SequenceInserts ==
  ASSUME SequencerTypeOK, NEW d \in Dids, Sequence(d)
  PROVE  /\ \E batch \in Seq(Events) : SequenceEvts(batch)
         /\ lastSeen' = lastSeen /\ polled' = polled
         /\ \A s \in deleting' : s \in deleting \/ s \in log'
         /\ overlapped' \subseteq overlapped \cup {d}
         /\ unpurged' \subseteq unpurged \cup {d}
<1> USE DEF deletionVars
<1>1. Update(d) \in Events /\ Deleted(d) \in Events
  BY DEF Events, Update, Deleted
<1>a. <<Update(d)>> \in Seq(Events) /\ <<Deleted(d)>> \in Seq(Events)
  BY <1>1
<1>2. CASE SequenceOne(d)
  BY <1>a, <1>2 DEF SequenceOne, Inserted
<1>3. CASE SequenceAccountCreation(d)
  <2> DEFINE batch == [i \in 1 .. 4 |-> Update(d)]
  <2>1. batch \in Seq(Events)
    BY <1>1
  <2>2. SequenceEvts(batch) /\ UNCHANGED <<lastSeen, polled, deletionVars>>
    BY <1>3 DEF SequenceAccountCreation, Inserted
  <2> QED
    BY <2>1, <2>2
<1>4. CASE SequenceAccountActivation(d)
  <2> DEFINE batch == [i \in 1 .. 3 |-> Update(d)]
  <2>1. batch \in Seq(Events)
    BY <1>1
  <2>2. SequenceEvts(batch) /\ UNCHANGED <<lastSeen, polled, deletionVars>>
    BY <1>4 DEF SequenceAccountActivation, Inserted
  <2> QED
    BY <2>1, <2>2
<1>5. CASE SequenceAccountDeletion(d)
  <2>1. /\ SequenceEvts(<<Deleted(d)>>)
        /\ deleting' = deleting \cup {Len(evt) + 1} /\ UNCHANGED <<lastSeen, polled>>
        /\ overlapped' \subseteq overlapped \cup {d}
        /\ unpurged' \subseteq unpurged \cup {d}
    BY <1>5 DEF SequenceAccountDeletion
  <2>2. Len(evt) + 1 \in log'
    BY <2>1 DEF SequenceEvts, SequencerTypeOK
  <2> QED
    BY <1>a, <2>1, <2>2
<1> QED
  BY <1>2, <1>3, <1>4, <1>5 DEF Sequence

(* The sequencer's steps preserve its types, whoever else moves.           *)
LEMMA SequencerStepType ==
  ASSUME SequencerTypeOK, [SequencerNext]_seqVars
  PROVE  SequencerTypeOK' /\ Len(evt) <= Len(evt')
<1> USE DEF SequencerTypeOK, deletionVars
<1>0. Len(evt) \in Nat /\ lastSeen \in Int /\ PollLimit \in Nat
  OBVIOUS
<1>1. ASSUME NEW d \in Dids, Sequence(d)
      PROVE  SequencerTypeOK' /\ Len(evt) <= Len(evt')
  <2>1. PICK batch \in Seq(Events) : SequenceEvts(batch)
    BY <1>1, SequenceInserts
  <2>2. /\ evt' \in Seq(Events)
        /\ Len(evt') \in Nat /\ Len(evt) \in Nat /\ Len(evt) <= Len(evt')
        /\ log' \subseteq 1 .. Len(evt')
    BY <2>1, InsertExtends
  <2>3. 1 .. Len(evt) \subseteq 1 .. Len(evt') /\ 0 .. Len(evt) \subseteq 0 .. Len(evt')
    BY <2>2
  <2>4. lastSeen' \in 0 .. Len(evt') /\ polled' \in Seq(1 .. Len(evt'))
    BY <1>1, <2>3, SequenceInserts, SeqSubset
  <2>5. deleting' \subseteq 1 .. Len(evt')
    BY <1>1, <2>2, <2>3, SequenceInserts
  <2>6. overlapped' \subseteq Dids /\ unpurged' \subseteq Dids
    BY <1>1, SequenceInserts
  <2> QED
    BY <2>2, <2>4, <2>5, <2>6
<1>2. ASSUME NEW s \in deleting, PurgeDeletedAccount(s)
      PROVE  SequencerTypeOK' /\ Len(evt) <= Len(evt')
  <2>1. evt' = evt /\ log' \subseteq log /\ deleting' \subseteq deleting
    BY <1>2 DEF PurgeDeletedAccount
  <2>2. log' \subseteq 1 .. Len(evt) /\ deleting' \subseteq 1 .. Len(evt)
    BY <2>1
  <2> QED
    BY <1>0, <1>2, <2>1, <2>2 DEF PurgeDeletedAccount
<1>3. ASSUME NEW s \in deleting, PurgeFails(s)
      PROVE  SequencerTypeOK' /\ Len(evt) <= Len(evt')
  <2>0. evt[s] \in Events
    BY <1>3
  <2>1. evt[s].did \in Dids
    BY <2>0 DEF Events
  <2> QED
    BY <1>0, <1>3, <2>1 DEF PurgeFails
<1>4. CASE PollQuery
  <2>1. polled' \in Seq(log)
    BY <1>0, <1>4, RangeQuery DEF PollQuery
  <2>2. polled' \in Seq(1 .. Len(evt))
    BY <2>1, SeqSubset
  <2> QED
    BY <1>0, <1>4, <2>2 DEF PollQuery
<1>5. CASE PollEmit
  <2>1. polled[Len(polled)] \in 1 .. Len(evt)
    BY <1>5 DEF PollEmit
  <2> QED
    BY <1>0, <1>5, <2>1 DEF PollEmit
<1>6. CASE SequencerRestart
  <2>0. \A s \in deleting : evt[s] \in Events
    OBVIOUS
  <2>1. Deletees \subseteq Dids
    BY <2>0 DEF Deletees, Events
  <2> QED
    BY <1>0, <1>6, <2>1 DEF SequencerRestart, IsCurr
<1>7. CASE UNCHANGED seqVars
  BY <1>0, <1>7 DEF seqVars
<1> QED
  BY <1>1, <1>2, <1>3, <1>4, <1>5, <1>6, <1>7 DEF SequencerNext

(* Every variable of the sequencer keeps its type.                         *)
THEOREM SequencerTypeCorrect == SequencerSpec => []SequencerTypeOK
<1>1. SequencerInit => SequencerTypeOK
  BY DEF SequencerInit, SequencerTypeOK
<1>2. SequencerTypeOK /\ [SequencerNext]_seqVars => SequencerTypeOK'
  BY SequencerStepType
<1> QED
  BY <1>1, <1>2, PTL DEF SequencerSpec

----------------------------------------------------------------------------
(* What a step that appends keeps of the table.                            *)
LEMMA SequenceTable ==
  ASSUME SequencerTypeOK, NEW d \in Dids, Sequence(d)
  PROVE  /\ Len(evt) \in Nat /\ Len(evt') \in Nat /\ Len(evt) <= Len(evt')
         /\ evt' \in Seq(Events)
         /\ \A s \in 1 .. Len(evt) : s \in 1 .. Len(evt') /\ evt'[s] = evt[s]
         /\ log \subseteq log' /\ log' \subseteq 1 .. Len(evt')
         /\ \A s \in log' : s \in log \/ s > Len(evt)
         /\ \A s \in 1 .. Len(evt') : s \in 1 .. Len(evt) \/ s \in log'
<1>1. PICK batch \in Seq(Events) : SequenceEvts(batch)
  BY SequenceInserts
<1>2. /\ evt \in Seq(Events) /\ Len(batch) \in Nat /\ Len(evt) \in Nat
      /\ Len(evt') = Len(evt) + Len(batch)
      /\ log' = log \cup (Len(evt) + 1 .. Len(evt) + Len(batch))
  BY <1>1 DEF SequenceEvts, SequencerTypeOK
<1>3. \A s \in 1 .. Len(evt') : s \in 1 .. Len(evt) \/ s \in log'
  BY <1>2
<1> QED
  BY <1>1, <1>3, InsertExtends

(* What it does to the deletions: a Deleted event comes with its deletion  *)
(* under way, and an account leaves overlapped only with such an event.    *)
LEMMA SequenceDeletions ==
  ASSUME SequencerInv, NEW d \in Dids, Sequence(d)
  PROVE  /\ unpurged \subseteq unpurged' /\ overlapped' \subseteq unpurged'
         /\ \A e \in Dids \ overlapped' :
              e \in overlapped => \E s \in log' : evt'[s] = Deleted(e)
         /\ \A s \in 1 .. Len(evt') :
              s \in 1 .. Len(evt) \/ s \in deleting' \/ ~evt'[s].deleted
         /\ deleting \subseteq deleting'
         /\ \A s \in deleting' : /\ evt'[s].deleted
                                 /\ evt'[s].did \notin overlapped' => s \in log'
         /\ \A s, t \in deleting' :
              evt'[s].did = evt'[t].did => s = t \/ evt'[s].did \in overlapped'
<1>1. SequencerTypeOK /\ Len(evt) \in Nat /\ evt \in Seq(Events)
  BY DEF SequencerInv, SequencerTypeOK
<1>2. /\ \A s \in 1 .. Len(evt) : evt'[s] = evt[s]
      /\ log \subseteq log' /\ deleting \subseteq 1 .. Len(evt)
  BY <1>1, SequenceTable DEF SequencerTypeOK
<1>3. CASE \E n \in Nat : Inserted([i \in 1 .. n |-> Update(d)])
  <2>1. PICK n \in Nat : Inserted([i \in 1 .. n |-> Update(d)])
    BY <1>3
  <2> DEFINE batch == [i \in 1 .. n |-> Update(d)]
  <2>2. batch \in Seq(Events) /\ Len(batch) = n /\ \A i \in 1 .. n : ~batch[i].deleted
    BY DEF Events, Update
  <2>3. /\ evt' = evt \o batch /\ UNCHANGED <<deleting, overlapped, unpurged>>
    BY <2>1 DEF Inserted, SequenceEvts, deletionVars
  <2>4. \A s \in 1 .. Len(evt') : s \in 1 .. Len(evt) \/ ~evt'[s].deleted
    <3> SUFFICES ASSUME NEW s \in 1 .. Len(evt'), s \notin 1 .. Len(evt)
                 PROVE  ~evt'[s].deleted
      OBVIOUS
    <3>1. Len(evt') = Len(evt) + n
      BY <1>1, <2>2, <2>3
    <3>2. s - Len(evt) \in 1 .. n /\ evt'[s] = batch[s - Len(evt)]
      BY <1>1, <2>2, <2>3, <3>1
    <3> QED
      BY <2>2, <3>2
  <2>5. \A s \in deleting : evt'[s] = evt[s]
    BY <1>2
  <2> HIDE DEF batch
  <2> QED
    BY <1>2, <2>3, <2>4, <2>5 DEF SequencerInv
<1>4. CASE SequenceAccountDeletion(d)
  <2> DEFINE new == Len(evt) + 1
  <2>1. /\ evt' = evt \o <<Deleted(d)>> /\ new \in log'
        /\ deleting' = deleting \cup {new}
        /\ overlapped' = IF d \in Deletees THEN overlapped \cup {d} ELSE overlapped \ {d}
        /\ unpurged' = IF d \in Deletees THEN unpurged \cup {d} ELSE unpurged
    BY <1>1, <1>4 DEF SequenceAccountDeletion, SequenceEvts
  <2>2. /\ Len(evt') = new /\ evt'[new] = Deleted(d)
        /\ \A s \in 1 .. new : s \in 1 .. Len(evt) \/ s = new
    BY <1>1, <2>1
  <2>3. evt'[new].deleted /\ evt'[new].did = d
    BY <2>2 DEF Deleted
  <2>4. unpurged \subseteq unpurged' /\ overlapped' \subseteq unpurged'
    BY <2>1 DEF SequencerInv
  <2>5. ASSUME NEW e \in Dids \ overlapped', e \in overlapped
        PROVE  \E s \in log' : evt'[s] = Deleted(e)
    BY <2>1, <2>2, <2>5
  <2>6. ASSUME NEW s \in deleting
        PROVE  /\ evt'[s] = evt[s] /\ evt'[s].deleted
               /\ evt'[s].did \notin overlapped' => s \in log'
               /\ evt'[s].did = d => d \in overlapped'
    <3>1. evt'[s] = evt[s] /\ evt'[s].deleted
      BY <1>2 DEF SequencerInv
    <3>2. evt[s].did = d => d \in Deletees
      BY DEF Deletees
    <3>3. evt'[s].did \notin overlapped' => evt[s].did \notin overlapped
      BY <2>1, <3>1, <3>2
    <3> QED
      BY <1>2, <2>1, <3>1, <3>2, <3>3 DEF SequencerInv
  <2>7. \A s \in deleting' : /\ evt'[s].deleted
                             /\ evt'[s].did \notin overlapped' => s \in log'
    BY <2>1, <2>3, <2>6
  <2>8. ASSUME NEW s \in deleting', NEW t \in deleting', evt'[s].did = evt'[t].did
        PROVE  s = t \/ evt'[s].did \in overlapped'
    <3>1. CASE s \in deleting /\ t \in deleting
      <4>1. s = t \/ evt[s].did \in overlapped
        BY <2>6, <2>8, <3>1 DEF SequencerInv
      <4>2. evt'[s] = evt[s] /\ (evt'[s].did = d => d \in overlapped')
        BY <2>6, <3>1
      <4> QED
        BY <2>1, <4>1, <4>2
    <3>2. CASE s = new \/ t = new
      BY <2>1, <2>3, <2>6, <2>8, <3>2
    <3> QED
      BY <2>1, <3>1, <3>2
  <2>9. \A s \in 1 .. Len(evt') : s \in 1 .. Len(evt) \/ s \in deleting'
    BY <2>1, <2>2
  <2> HIDE DEF new
  <2> QED
    BY <2>1, <2>4, <2>5, <2>7, <2>8, <2>9
<1>5. ASSUME SequenceOne(d) \/ SequenceAccountCreation(d) \/ SequenceAccountActivation(d)
      PROVE  \E n \in Nat : Inserted([i \in 1 .. n |-> Update(d)])
  <2>1. <<Update(d)>> = [i \in 1 .. 1 |-> Update(d)]
    OBVIOUS
  <2>2. 1 \in Nat /\ 3 \in Nat /\ 4 \in Nat
    OBVIOUS
  <2>3. CASE SequenceOne(d)
    BY <2>1, <2>2, <2>3 DEF SequenceOne
  <2>4. CASE SequenceAccountCreation(d)
    BY <2>2, <2>4 DEF SequenceAccountCreation
  <2>5. CASE SequenceAccountActivation(d)
    BY <2>2, <2>5 DEF SequenceAccountActivation
  <2> QED
    BY <1>5, <2>3, <2>4, <2>5
<1> QED
  BY <1>3, <1>4, <1>5 DEF Sequence

(* An append loses no Deleted event, and an account whose rows began with  *)
(* one still has it first: what is appended has a larger number.           *)
LEMMA SequenceTombstone ==
  ASSUME SequencerInv, NEW d \in Dids, Sequence(d)
  PROVE  SequencerInv'
<1>1. SequencerTypeOK /\ SequencerTypeOK'
  <2>1. SequencerTypeOK /\ SequencerNext
    BY DEF SequencerInv, SequencerNext
  <2> QED
    BY <2>1, SequencerStepType
<1>2. /\ Len(evt) \in Nat /\ Len(evt') \in Nat /\ Len(evt) <= Len(evt')
      /\ \A s \in 1 .. Len(evt) : s \in 1 .. Len(evt') /\ evt'[s] = evt[s]
      /\ log \subseteq log' /\ log' \subseteq 1 .. Len(evt')
      /\ log \subseteq 1 .. Len(evt)
      /\ \A s \in log' : s \in log \/ s > Len(evt)
      /\ \A s \in 1 .. Len(evt') : s \in 1 .. Len(evt) \/ s \in log'
  BY <1>1, SequenceTable DEF SequencerTypeOK
<1>3. ForgottenOnlyByOverlap'
  <2> SUFFICES ASSUME NEW e \in Dids \ overlapped', NEW s \in 1 .. Len(evt'),
                      evt'[s] = Deleted(e)
               PROVE  \E t \in log' : evt'[t] = Deleted(e)
    BY DEF ForgottenOnlyByOverlap, EverDeleted, Deleted
  <2>1. CASE s \in log'
    BY <2>1
  <2>2. CASE e \in overlapped
    BY <2>2, SequenceDeletions
  <2>3. CASE s \in 1 .. Len(evt) /\ e \notin overlapped
    <3>1. EverDeleted(e)
      BY <1>2, <2>3 DEF EverDeleted
    <3>2. PICK t \in log : evt[t] = Deleted(e)
      BY <2>3, <3>1 DEF SequencerInv, ForgottenOnlyByOverlap
    <3> QED
      BY <1>2, <3>2
  <2> QED
    BY <1>2, <2>1, <2>2, <2>3
<1>4. DeletionComesFirst'
  <2> SUFFICES ASSUME NEW e \in Dids \ unpurged', NEW s \in 1 .. Len(evt') \ deleting',
                      evt'[s] = Deleted(e)
               PROVE  \E t \in log' : /\ evt'[t] = Deleted(e)
                                      /\ \A r \in log' : evt'[r].did = e => t <= r
    BY DEF DeletionComesFirst, Deleted
  <2>1. evt'[s].deleted
    BY DEF Deleted
  <2>2. s \in 1 .. Len(evt) \ deleting /\ e \in Dids \ unpurged
    BY <2>1, SequenceDeletions
  <2>3. evt[s] = Deleted(e)
    BY <1>2, <2>2
  <2>4. PICK t \in log : /\ evt[t] = Deleted(e)
                         /\ \A r \in log : evt[r].did = e => t <= r
    BY <2>2, <2>3 DEF SequencerInv, DeletionComesFirst
  <2>5. ASSUME NEW r \in log', evt'[r].did = e
        PROVE  t <= r
    BY <1>2, <2>4, <2>5
  <2> QED
    BY <1>2, <2>4, <2>5
<1> QED
  BY <1>1, <1>3, <1>4, SequenceDeletions DEF SequencerInv

(* A purge that no other deletion of the account overlaps finds its event, *)
(* and leaves nothing else of the account.                                 *)
LEMMA PurgeTombstone ==
  ASSUME SequencerInv, NEW s \in deleting, PurgeDeletedAccount(s)
  PROVE  SequencerInv'
<1> DEFINE d == evt[s].did
<1>1. SequencerTypeOK /\ SequencerTypeOK'
  <2>1. SequencerTypeOK /\ SequencerNext
    BY DEF SequencerInv, SequencerNext
  <2> QED
    BY <2>1, SequencerStepType
<1>2. /\ evt[s].deleted /\ evt[s] \in Events /\ s \in Nat /\ log \subseteq Nat
      /\ evt' = evt /\ log' = log \ Purged(s) /\ deleting' = deleting \ {s}
      /\ overlapped' = overlapped
      /\ unpurged' = IF d \in overlapped THEN unpurged ELSE unpurged \ {d}
  BY <1>1 DEF SequencerInv, SequencerTypeOK, PurgeDeletedAccount
<1>3. evt[s] = Deleted(d) /\ (d \notin overlapped => s \in log')
  BY <1>2 DEF SequencerInv, Events, Deleted, Purged
<1>4. /\ \A r \in log : evt[r].did # d => r \in log'
      /\ \A r \in log' : r \in log /\ (evt[r].did = d => r = s)
  BY <1>2 DEF Purged
<1>5. ForgottenOnlyByOverlap'
  <2> SUFFICES ASSUME NEW e \in Dids \ overlapped, EverDeleted(e)
               PROVE  \E u \in log' : evt[u] = Deleted(e)
    BY <1>2 DEF ForgottenOnlyByOverlap, EverDeleted, Deleted
  <2>1. PICK t \in log : evt[t] = Deleted(e)
    BY DEF SequencerInv, ForgottenOnlyByOverlap
  <2>2. evt[t].did = e
    BY <2>1 DEF Deleted
  <2> QED
    BY <1>3, <1>4, <2>1, <2>2
<1>6. DeletionComesFirst'
  <2> SUFFICES ASSUME NEW e \in Dids \ unpurged',
                      NEW t \in 1 .. Len(evt) \ deleting', evt[t] = Deleted(e)
               PROVE  \E u \in log' : /\ evt[u] = Deleted(e)
                                      /\ \A r \in log' : evt[r].did = e => u <= r
    BY <1>2 DEF DeletionComesFirst, Deleted
  <2>1. CASE e = d
    <3>1. d \notin overlapped
      BY <1>2, <2>1 DEF SequencerInv
    <3> QED
      BY <1>2, <1>3, <1>4, <2>1, <3>1
  <2>2. CASE e # d
    <3>1. t # s
      BY <2>2 DEF Deleted
    <3>2. t \in 1 .. Len(evt) \ deleting /\ e \in Dids \ unpurged
      BY <1>2, <2>2, <3>1
    <3>3. PICK u \in log : /\ evt[u] = Deleted(e)
                           /\ \A r \in log : evt[r].did = e => u <= r
      BY <3>2 DEF SequencerInv, DeletionComesFirst
    <3>4. evt[u].did = e
      BY <3>3 DEF Deleted
    <3> QED
      BY <1>4, <2>2, <3>3, <3>4
  <2> QED
    BY <2>1, <2>2
<1>7. overlapped' \subseteq unpurged'
  BY <1>2 DEF SequencerInv
<1>8. ASSUME NEW t \in deleting'
      PROVE  evt[t].deleted /\ (evt[t].did \notin overlapped => t \in log')
  <2>1. t \in deleting /\ t # s
    BY <1>2
  <2>2. evt[t].did = d => d \in overlapped
    BY <2>1 DEF SequencerInv
  <2> QED
    BY <1>4, <2>1, <2>2 DEF SequencerInv
<1>9. \A t, u \in deleting' :
        evt[t].did = evt[u].did => t = u \/ evt[t].did \in overlapped
  BY <1>2 DEF SequencerInv
<1> HIDE DEF d
<1> QED
  BY <1>1, <1>2, <1>5, <1>6, <1>7, <1>8, <1>9 DEF SequencerInv

(* A deletion that fails, or a restart that cuts deletions off.            *)
LEMMA CutOffTombstone ==
  ASSUME SequencerInv, SequencerTypeOK', UNCHANGED <<evt, log, overlapped>>,
         deleting' \subseteq deleting, unpurged \subseteq unpurged',
         \A s \in deleting \ deleting' : evt[s].did \in unpurged'
  PROVE  SequencerInv'
<1>1. ForgottenOnlyByOverlap'
  BY DEF SequencerInv, ForgottenOnlyByOverlap, EverDeleted
<1>2. DeletionComesFirst'
  <2> SUFFICES ASSUME NEW e \in Dids \ unpurged',
                      NEW t \in 1 .. Len(evt) \ deleting', evt[t] = Deleted(e)
               PROVE  \E u \in log : /\ evt[u] = Deleted(e)
                                     /\ \A r \in log : evt[r].did = e => u <= r
    BY DEF DeletionComesFirst, Deleted
  <2>1. evt[t].did = e
    BY DEF Deleted
  <2>2. t \notin deleting
    BY <2>1
  <2> QED
    BY <2>2 DEF SequencerInv, DeletionComesFirst
<1> QED
  BY <1>1, <1>2 DEF SequencerInv

LEMMA SequencerInvHolds == SequencerSpec => []SequencerInv
<1>1. SequencerInit => SequencerInv
  BY DEF SequencerInit, SequencerInv, SequencerTypeOK, ForgottenOnlyByOverlap,
     DeletionComesFirst, EverDeleted
<1>2. SequencerInv /\ [SequencerNext]_seqVars => SequencerInv'
  <2> SUFFICES ASSUME SequencerInv, [SequencerNext]_seqVars
               PROVE  SequencerInv'
    OBVIOUS
  <2>1. SequencerTypeOK'
    BY SequencerStepType DEF SequencerInv
  <2>2. ASSUME NEW d \in Dids, Sequence(d)
        PROVE  SequencerInv'
    BY <2>2, SequenceTombstone
  <2>3. ASSUME NEW s \in deleting, PurgeDeletedAccount(s)
        PROVE  SequencerInv'
    BY <2>3, PurgeTombstone
  <2>4. ASSUME NEW s \in deleting, PurgeFails(s)
        PROVE  SequencerInv'
    BY <2>1, <2>4, CutOffTombstone DEF PurgeFails
  <2>5. CASE SequencerRestart
    <3>1. \A s \in deleting : evt[s].did \in Deletees
      BY DEF Deletees
    <3> QED
      BY <2>1, <2>5, <3>1, CutOffTombstone DEF SequencerRestart
  <2>6. CASE PollQuery \/ PollEmit \/ UNCHANGED seqVars
    BY <2>1, <2>6, CutOffTombstone DEF PollQuery, PollEmit, seqVars, deletionVars
  <2> QED
    BY <2>2, <2>3, <2>4, <2>5, <2>6 DEF SequencerNext
<1> QED
  BY <1>1, <1>2, PTL DEF SequencerSpec

(* An account that was ever deleted, and whose last deletions did not      *)
(* overlap, has a Deleted event in repo_seq: over purges that fail,        *)
(* crashes between the two statements and accounts that come back, a lone  *)
(* deletion mends what overlapping ones of the past have lost.             *)
THEOREM ForgottenOnlyByOverlapCorrect == SequencerSpec => []ForgottenOnlyByOverlap
<1>1. SequencerInv => ForgottenOnlyByOverlap
  BY DEF SequencerInv
<1> QED
  BY <1>1, SequencerInvHolds, PTL

(* Once a deletion has ended, and none was cut off, failed or overlapped   *)
(* since the last clean purge, the first row the log holds of the account  *)
(* is a Deleted event, whatever was sequenced since.                       *)
THEOREM DeletionComesFirstCorrect == SequencerSpec => []DeletionComesFirst
<1>1. SequencerInv => DeletionComesFirst
  BY DEF SequencerInv
<1> QED
  BY <1>1, SequencerInvHolds, PTL
=============================================================================
