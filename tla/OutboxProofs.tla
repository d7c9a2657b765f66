---------------------------- MODULE OutboxProofs ----------------------------
(* Proofs about the firehose of a PDS, for every number of clients, every  *)
(* page and buffer size and every bound on the rows and disconnections.    *)
EXTENDS MCOutbox, SequencerProofs

USE OutboxAssumption

----------------------------------------------------------------------------
(* The parts of the invariant as facts about values: a queue q, a log L, a *)
(* promise f, what was received S, and how far the poller is, m.           *)
NoSkip(q, L, f, S) ==
  \A i \in DOMAIN q : \A r \in L :
    f < r /\ r < q[i] => r \in S \/ \E j \in DOMAIN q : j < i /\ q[j] = r

Has(q, L, f, S, m) ==
  \A r \in L : f < r /\ r <= m => r \in S \/ \E i \in DOMAIN q : q[i] = r

InOrder(p, L, m) ==
  \A i \in DOMAIN p :
    /\ p[i] > m
    /\ \A r \in L : m < r /\ r < p[i] => \E j \in DOMAIN p : j < i /\ p[j] = r

(* Rows that come are above all in a queue; rows that go do no harm.       *)
LEMMA FrameQueue ==
  ASSUME NEW N \in Nat, NEW L, NEW M, NEW q \in Seq(1 .. N), NEW f, NEW S, NEW m \in 0 .. N,
         \A r \in M : r \in L \/ (r \in Nat /\ r > N)
  PROVE  /\ NoSkip(q, L, f, S) => NoSkip(q, M, f, S)
         /\ Has(q, L, f, S, m) => Has(q, M, f, S, m)
         /\ InOrder(q, L, m) => InOrder(q, M, m)
<1>1. ASSUME NEW i \in DOMAIN q, NEW r \in M, r < q[i]
      PROVE  r \in L
  <2>1. q[i] \in 1 .. N
    OBVIOUS
  <2> QED
    BY <1>1, <2>1
<1>2. ASSUME NEW r \in M, r <= m
      PROVE  r \in L
  BY <1>2
<1> QED
  BY <1>1, <1>2 DEF NoSkip, Has, InOrder

(* The head of a queue is received.                                        *)
LEMMA TakeHead ==
  ASSUME NEW q \in Seq(Nat), q # <<>>, NEW L, NEW f, NEW S, NEW T, NEW m,
         S \subseteq T, Head(q) \in L /\ f < Head(q) => Head(q) \in T
  PROVE  /\ NoSkip(q, L, f, S) => NoSkip(Tail(q), L, f, T)
         /\ Has(q, L, f, S, m) => Has(Tail(q), L, f, T, m)
<1>a. Tail(q) \in Seq(Nat)
  OBVIOUS
<1>0. PICK t \in Seq(Nat) : t = Tail(q)
  BY <1>a
<1>1. /\ Len(q) \in Nat \ {0} /\ Len(t) = Len(q) - 1
      /\ DOMAIN q = 1 .. Len(q) /\ DOMAIN t = 1 .. Len(q) - 1
      /\ \A i \in 1 .. Len(q) - 1 : t[i] = q[i + 1]
      /\ Head(q) = q[1]
  BY <1>0
<1>2. ASSUME NEW j \in 1 .. Len(q), q[j] \in L, f < q[j]
      PROVE  q[j] \in T \/ (j - 1 \in 1 .. Len(q) - 1 /\ t[j - 1] = q[j])
  <2>1. CASE j = 1
    BY <1>1, <1>2, <2>1
  <2>2. CASE j # 1
    BY <1>1, <2>2, SMTT(30)
  <2> QED
    BY <2>1, <2>2
<1>3. ASSUME NoSkip(q, L, f, S)
      PROVE  NoSkip(t, L, f, T)
  <2> SUFFICES ASSUME NEW i \in DOMAIN t, NEW r \in L, f < r, r < t[i], r \notin T
               PROVE  \E j \in DOMAIN t : j < i /\ t[j] = r
    BY DEF NoSkip
  <2>1. i \in 1 .. Len(q) - 1
    BY <1>1
  <2>2. PICK k \in 1 .. Len(q) : k = i + 1
    BY <1>1, <2>1
  <2>3. r < q[k]
    BY <1>1, <2>1, <2>2
  <2>4. PICK j \in DOMAIN q : j < k /\ q[j] = r
    BY <1>1, <1>3, <2>3 DEF NoSkip
  <2>5. j - 1 \in DOMAIN t /\ t[j - 1] = r
    BY <1>1, <1>2, <2>4
  <2>6. j - 1 < i
    BY <1>1, <2>1, <2>2, <2>4
  <2> QED
    BY <2>5, <2>6
<1>4. ASSUME Has(q, L, f, S, m)
      PROVE  Has(t, L, f, T, m)
  <2> SUFFICES ASSUME NEW r \in L, f < r, r <= m, r \notin T
               PROVE  \E i \in 1 .. Len(q) - 1 : t[i] = r
    BY <1>1 DEF Has
  <2>1. PICK j \in 1 .. Len(q) : q[j] = r
    BY <1>1, <1>4 DEF Has
  <2> QED
    BY <1>2, <2>1
<1> QED
  BY <1>0, <1>3, <1>4

(* The poller's rows are put behind a queue that has all it passed before. *)
LEMMA AppendPolled ==
  ASSUME NEW q \in Seq(Nat), NEW p \in Seq(Nat), p # <<>>, NEW L, L \subseteq Nat,
         NEW f \in Nat, NEW S, NEW m \in Nat,
         NoSkip(q, L, f, S), Has(q, L, f, S, m), InOrder(p, L, m)
  PROVE  NoSkip(q \o p, L, f, S) /\ Has(q \o p, L, f, S, p[Len(p)])
<1>a. q \o p \in Seq(Nat)
  OBVIOUS
<1>0. PICK s \in Seq(Nat) : s = q \o p
  BY <1>a
<1>1. /\ Len(q) \in Nat /\ Len(p) \in Nat \ {0}
      /\ DOMAIN q = 1 .. Len(q) /\ DOMAIN p = 1 .. Len(p)
      /\ DOMAIN s = 1 .. Len(q) + Len(p)
      /\ \A i \in 1 .. Len(q) : i \in DOMAIN s /\ s[i] = q[i]
      /\ \A i \in 1 .. Len(p) : Len(q) + i \in DOMAIN s /\ s[Len(q) + i] = p[i]
      /\ \A i \in 1 .. Len(p) : p[i] \in Nat
  BY <1>0
<1>2. ASSUME NEW r \in L, f < r, r <= m, r \notin S
      PROVE  \E j \in DOMAIN s : j <= Len(q) /\ s[j] = r
  <2>1. PICK j \in 1 .. Len(q) : q[j] = r
    BY <1>1, <1>2 DEF Has
  <2>2. j \in DOMAIN s /\ s[j] = r /\ j <= Len(q)
    BY <1>1, <2>1
  <2> QED
    BY <2>2
<1>3. ASSUME NEW k \in 1 .. Len(p), NEW r \in L, f < r, r < p[k], r \notin S
      PROVE  \E j \in DOMAIN s : j < Len(q) + k /\ s[j] = r
  <2>1. CASE r <= m
    BY <1>1, <1>2, <1>3, <2>1
  <2>2. CASE m < r
    <3>1. PICK j \in 1 .. Len(p) : j < k /\ p[j] = r
      BY <1>1, <1>3, <2>2 DEF InOrder
    <3>2. Len(q) + j \in DOMAIN s /\ s[Len(q) + j] = r /\ Len(q) + j < Len(q) + k
      BY <1>1, <3>1
    <3> QED
      BY <3>2
  <2> QED
    BY <2>1, <2>2
<1>4. NoSkip(s, L, f, S)
  <2> SUFFICES ASSUME NEW i \in DOMAIN s, NEW r \in L, f < r, r < s[i], r \notin S
               PROVE  \E j \in DOMAIN s : j < i /\ s[j] = r
    BY DEF NoSkip
  <2>1. CASE i \in 1 .. Len(q)
    <3>1. PICK j \in 1 .. Len(q) : j < i /\ q[j] = r
      BY <1>1, <2>1 DEF NoSkip
    <3> QED
      BY <1>1, <3>1
  <2>2. CASE i \notin 1 .. Len(q)
    <3>0. i \in 1 .. Len(q) + Len(p)
      BY <1>1
    <3>1. i - Len(q) \in 1 .. Len(p) /\ i = Len(q) + (i - Len(q))
      BY <1>1, <2>2, <3>0, SMTT(30)
    <3>2. s[i] = p[i - Len(q)]
      BY <1>1, <3>1
    <3> QED
      BY <1>1, <1>3, <3>1, <3>2
  <2> QED
    BY <2>1, <2>2
<1>5. Has(s, L, f, S, p[Len(p)])
  <2> SUFFICES ASSUME NEW r \in L, f < r, r <= p[Len(p)], r \notin S
               PROVE  \E i \in DOMAIN s : s[i] = r
    BY DEF Has
  <2>1. CASE r < p[Len(p)]
    <3>1. Len(p) \in 1 .. Len(p)
      BY <1>1
    <3> QED
      BY <1>3, <2>1, <3>1
  <2>2. CASE r = p[Len(p)]
    <3>1. Len(q) + Len(p) \in DOMAIN s /\ s[Len(q) + Len(p)] = r
      BY <1>1, <2>2, SMTT(30)
    <3> QED
      BY <3>1
  <2> QED
    BY <1>1, <2>1, <2>2
<1> QED
  BY <1>0, <1>4, <1>5

(* A queue that starts with the rows of a query, in order, holds all that  *)
(* was not received, at its place.                                         *)
LEMMA QueryFirst ==
  ASSUME NEW e \in Seq(Nat), NEW b \in Seq(Nat), NEW L, NEW f, NEW S, NEW m,
         \A i, j \in DOMAIN e : i < j => e[i] < e[j],
         \A r \in L : f < r /\ r \notin S => \E i \in DOMAIN e : e[i] = r
  PROVE  NoSkip(e \o b, L, f, S) /\ Has(e \o b, L, f, S, m)
<1>a. e \o b \in Seq(Nat)
  OBVIOUS
<1>0. PICK q \in Seq(Nat) : q = e \o b
  BY <1>a
<1>1. /\ \A i \in DOMAIN e : i \in DOMAIN q /\ q[i] = e[i]
      /\ \A i \in DOMAIN q : \A j \in DOMAIN e : i \in Nat /\ j \in Nat /\ (i <= j => i \in DOMAIN e)
      /\ \A i \in DOMAIN q : q[i] \in Nat
  BY <1>0
<1>2. NoSkip(q, L, f, S)
  <2> SUFFICES ASSUME NEW i \in DOMAIN q, NEW r \in L, f < r, r < q[i], r \notin S
               PROVE  \E j \in DOMAIN q : j < i /\ q[j] = r
    BY DEF NoSkip
  <2>1. PICK j \in DOMAIN e : e[j] = r
    OBVIOUS
  <2>2. j \in DOMAIN q /\ q[j] = r
    BY <1>1, <2>1
  <2>3. CASE j < i
    BY <2>2, <2>3
  <2>4. CASE ~(j < i)
    <3>1. i \in DOMAIN e /\ (i = j \/ i < j)
      BY <1>1, <2>4, SMTT(30)
    <3>2. q[i] = q[j] \/ q[i] < q[j]
      BY <1>1, <3>1
    <3>3. q[i] \in Nat /\ q[j] \in Nat
      BY <1>1, <2>2
    <3> QED
      BY <2>2, <3>2, <3>3
  <2> QED
    BY <2>3, <2>4
<1>3. Has(q, L, f, S, m)
  BY <1>1 DEF Has
<1> QED
  BY <1>0, <1>2, <1>3

----------------------------------------------------------------------------
(* The types a step of a connection relies on.                             *)
LEMMA ConnTypes ==
  ASSUME TypeOK, NEW c \in Clients
  PROVE  /\ Len(evt) \in Nat /\ lastSeen \in 0 .. Len(evt) /\ lastSeen \in Nat
         /\ log \subseteq 1 .. Len(evt) /\ log \subseteq Nat
         /\ polled \in Seq(1 .. Len(evt)) /\ polled \in Seq(Nat)
         /\ phase[c] \in Phases
         /\ seen[c] \in None .. Len(evt) /\ start[c] \in None .. Len(evt)
         /\ cursor[c] \in None .. Len(evt)
         /\ floor[c] \in 0 .. Len(evt) /\ floor[c] \in Nat
         /\ rows[c] \in Seq(1 .. Len(evt)) /\ rows[c] \in Seq(Nat)
         /\ cutoverBuffer[c] \in Seq(1 .. Len(evt)) /\ cutoverBuffer[c] \in Seq(Nat)
         /\ outBuffer[c] \in Seq(1 .. Len(evt)) /\ outBuffer[c] \in Seq(Nat)
         /\ sent[c] \subseteq 1 .. Len(evt)
         /\ Base(c) \in None .. Len(evt) /\ Base(c) \in Int
<1>1. Len(evt) \in Nat /\ 1 .. Len(evt) \subseteq Nat
  BY DEF TypeOK, SequencerTypeOK
<1>2. /\ lastSeen \in 0 .. Len(evt) /\ log \subseteq 1 .. Len(evt)
      /\ polled \in Seq(1 .. Len(evt))
  BY DEF TypeOK, SequencerTypeOK
<1>3. /\ phase[c] \in Phases
      /\ seen[c] \in None .. Len(evt) /\ start[c] \in None .. Len(evt)
      /\ cursor[c] \in None .. Len(evt) /\ floor[c] \in 0 .. Len(evt)
      /\ rows[c] \in Seq(1 .. Len(evt)) /\ cutoverBuffer[c] \in Seq(1 .. Len(evt))
      /\ outBuffer[c] \in Seq(1 .. Len(evt)) /\ sent[c] \in SUBSET (1 .. Len(evt))
  BY DEF TypeOK
<1>4. Base(c) \in None .. Len(evt)
  BY <1>3 DEF Base
<1>5. /\ polled \in Seq(Nat) /\ rows[c] \in Seq(Nat)
      /\ cutoverBuffer[c] \in Seq(Nat) /\ outBuffer[c] \in Seq(Nat)
  BY <1>1, <1>2, <1>3, SeqSubset
<1>6. /\ log \subseteq Nat /\ lastSeen \in Nat /\ floor[c] \in Nat /\ Base(c) \in Int
  BY <1>1, <1>2, <1>3, <1>4 DEF None
<1> QED
  BY <1>1, <1>2, <1>3, <1>4, <1>5, <1>6

(* The connection of c and its client stay as they are.                    *)
Unmoved(c) ==
  /\ phase'[c] = phase[c] /\ start'[c] = start[c] /\ seen'[c] = seen[c]
  /\ rows'[c] = rows[c]
  /\ cutoverBuffer'[c] = cutoverBuffer[c] /\ outBuffer'[c] = outBuffer[c]
  /\ cursor'[c] = cursor[c] /\ floor'[c] = floor[c] /\ sent'[c] = sent[c]

(* What an appending, purging or polling step does to the table.           *)
LogStep ==
  /\ Len(evt) \in Nat /\ log \subseteq 1 .. Len(evt)
  /\ \A r \in log' : r \in log \/ (r \in Nat /\ r > Len(evt))

LEMMA SequencerStepLog ==
  ASSUME TypeOK, SequencerStep
  PROVE  LogStep /\ lastSeen' = lastSeen /\ SequencerTypeOK' /\ Len(evt) <= Len(evt')
<1>1. SequencerTypeOK /\ SequencerNext
  BY DEF TypeOK, SequencerStep, SequencerNext
<1>2. SequencerTypeOK' /\ Len(evt) <= Len(evt')
  BY <1>1, SequencerStepType
<1>3. /\ Len(evt) \in Nat /\ log \subseteq 1 .. Len(evt)
      /\ Len(evt') \in Nat /\ log' \subseteq 1 .. Len(evt')
  BY <1>1, <1>2 DEF SequencerTypeOK
<1>4. ASSUME NEW d \in Dids, Sequence(d)
      PROVE  lastSeen' = lastSeen /\ \A r \in log' : r \in log \/ r > Len(evt)
  <2>1. PICK batch \in Seq(Events) : SequenceEvts(batch)
    BY <1>1, <1>4, SequenceInserts
  <2> QED
    BY <1>1, <1>4, <2>1, InsertExtends, SequenceInserts
<1>5. ASSUME NEW s \in deleting, PurgeDeletedAccount(s) \/ PurgeFails(s)
      PROVE  lastSeen' = lastSeen /\ log' \subseteq log
  BY <1>5 DEF PurgeDeletedAccount, PurgeFails
<1>7. lastSeen' = lastSeen /\ \A r \in log' : r \in log \/ r > Len(evt)
  <2>1. CASE \E d \in Dids : Sequence(d)
    BY <1>4, <2>1
  <2>2. CASE \E s \in deleting : PurgeDeletedAccount(s) \/ PurgeFails(s)
    BY <1>5, <2>2
  <2>3. CASE PollQuery
    BY <2>3 DEF PollQuery
  <2> QED
    BY <2>1, <2>2, <2>3 DEF SequencerStep
<1>8. 1 .. Len(evt') \subseteq Nat
  BY <1>3
<1> QED
  BY <1>2, <1>3, <1>7, <1>8 DEF LogStep

(* A connection that does not move keeps its invariant when rows appear    *)
(* above all there are, or go.                                             *)
LEMMA FrameConnection ==
  ASSUME TypeOK, LogStep, lastSeen' = lastSeen,
         NEW c \in Clients, Unmoved(c), ConnectionInv(c), Received(c, cursor[c])
  PROVE  ConnectionInv(c)' /\ Received(c, cursor[c])'
<1> DEFINE N == Len(evt)
           f == floor[c]
           S == sent[c]
<1>1. N \in Nat /\ lastSeen \in 0 .. N /\ \A r \in log' : r \in log \/ (r \in Nat /\ r > N)
  BY ConnTypes DEF LogStep
<1>2. rows[c] \in Seq(1 .. N) /\ outBuffer[c] \in Seq(1 .. N) /\ CutoverQueue(c) \in Seq(1 .. N)
  BY ConnTypes DEF CutoverQueue
<1>3. ASSUME NEW n \in None .. N, Received(c, n)
      PROVE  \A r \in log' : f < r /\ r <= n => r \in S
  BY <1>1, <1>3 DEF Received, None
<1>4. ASSUME NEW q \in Seq(1 .. N)
      PROVE  /\ NoSkip(q, log, f, S) => NoSkip(q, log', f, S)
             /\ Has(q, log, f, S, lastSeen) => Has(q, log', f, S, lastSeen)
  BY <1>1, FrameQueue
<1>5. Received(c, cursor[c])'
  BY <1>3, ConnTypes DEF Received, Unmoved
<1>6. phase[c] \in {"paging", "yielding", "backfilled", "cutover"} => Received(c, Base(c))'
  <2>1. Base(c) \in None .. N /\ Base(c)' = Base(c)
    BY ConnTypes DEF Base, Unmoved
  <2> QED
    BY <1>3, <2>1 DEF Received, Unmoved, ConnectionInv
<1>7. phase[c] = "yielding" => NothingSkipped(c, rows[c])'
  <2>1. phase[c] = "yielding" => NoSkip(rows[c], log', f, S)
    BY <1>2, <1>4 DEF ConnectionInv, NothingSkipped, NoSkip
  <2> QED
    BY <2>1 DEF NothingSkipped, NoSkip, Unmoved
<1>8. phase[c] = "pushing" => /\ NothingSkipped(c, CutoverQueue(c))'
                              /\ Covered(c, CutoverQueue(c))'
  <2>1. phase[c] = "pushing" => /\ NoSkip(CutoverQueue(c), log', f, S)
                                /\ Has(CutoverQueue(c), log', f, S, lastSeen)
    <3>1. phase[c] = "pushing" => /\ NoSkip(CutoverQueue(c), log, f, S)
                                  /\ Has(CutoverQueue(c), log, f, S, lastSeen)
      BY DEF ConnectionInv, NothingSkipped, NoSkip, Covered, Has
    <3> QED
      BY <1>2, <1>4, <3>1
  <2>2. CutoverQueue(c)' = CutoverQueue(c)
    BY DEF CutoverQueue, Unmoved
  <2> QED
    BY <2>1, <2>2 DEF NothingSkipped, NoSkip, Covered, Has, Unmoved
<1>9. phase[c] = "streaming" => /\ NothingSkipped(c, outBuffer[c])'
                                /\ Covered(c, outBuffer[c])'
  <2>1. phase[c] = "streaming" => /\ NoSkip(outBuffer[c], log', f, S)
                                  /\ Has(outBuffer[c], log', f, S, lastSeen)
    <3>1. phase[c] = "streaming" => /\ NoSkip(outBuffer[c], log, f, S)
                                    /\ Has(outBuffer[c], log, f, S, lastSeen)
      BY DEF ConnectionInv, NothingSkipped, NoSkip, Covered, Has
    <3> QED
      BY <1>2, <1>4, <3>1
  <2> QED
    BY <2>1 DEF NothingSkipped, NoSkip, Covered, Has, Unmoved
<1> QED
  BY <1>5, <1>6, <1>7, <1>8, <1>9 DEF ConnectionInv, Unmoved

----------------------------------------------------------------------------
(* Types.                                                                  *)
LEMMA PhaseType ==
  ASSUME TypeOK, NEW c \in Clients, NEW p \in Phases, NEW n \in None .. Len(evt),
         phase' = [phase EXCEPT ![c] = p],
         start' = [start EXCEPT ![c] = n] \/ start' = start,
         floor' \in [Clients -> 0 .. Len(evt)],
         UNCHANGED <<seqVars, seen, rows, cutoverBuffer, outBuffer, cursor, sent, envVars>>
  PROVE  TypeOK'
<1>1. phase' \in [Clients -> Phases] /\ start' \in [Clients -> None .. Len(evt)]
  BY DEF TypeOK
<1> QED
  BY <1>1 DEF TypeOK, SequencerTypeOK, seqVars, deletionVars, envVars

LEMMA ConnectType ==
  ASSUME TypeOK, NEW c \in Clients, Connect(c) \/ BackfillPageDone(c) \/ Attach(c)
  PROVE  TypeOK'
<1>1. /\ Len(evt) \in Nat /\ lastSeen \in 0 .. Len(evt) /\ horizon \in 0 .. Len(evt)
      /\ cursor[c] \in None .. Len(evt) /\ floor \in [Clients -> 0 .. Len(evt)]
      /\ log \subseteq 1 .. Len(evt) /\ floor[c] \in 0 .. Len(evt)
  BY DEF TypeOK, SequencerTypeOK
<1>2. None \in None .. Len(evt) /\ horizon \in None .. Len(evt)
  BY <1>1 DEF None
<1>3. {"streaming", "paging", "outdated", "tail", "backfilled", "cutover"} \subseteq Phases
  BY DEF Phases
<1>4. CASE ConnectTail(c)
  <2>1. floor' \in [Clients -> 0 .. Len(evt)]
    BY <1>1, <1>4 DEF ConnectTail
  <2> QED
    BY <1>2, <1>3, <1>4, <2>1, PhaseType DEF ConnectTail, Open
<1>5. CASE ConnectBackfill(c)
  <2>1. cursor[c] \in 0 .. Len(evt)
    BY <1>1, <1>5 DEF ConnectBackfill, None
  <2>2. floor' \in [Clients -> 0 .. Len(evt)]
    BY <1>1, <1>5, <2>1 DEF ConnectBackfill
  <2> QED
    BY <1>1, <1>3, <1>5, <2>2, PhaseType DEF ConnectBackfill, Open
<1>6. CASE ConnectOutdated(c)
  <2>1. floor' \in [Clients -> 0 .. Len(evt)]
    BY <1>1, <1>6 DEF ConnectOutdated, clientVars
  <2> QED
    BY <1>2, <1>3, <1>6, <2>1, PhaseType DEF ConnectOutdated, Open, clientVars
<1>7. CASE StartInWindow(c)
  <2>1. PICK s \in Above(start[c]) : /\ Open(c, "paging", s - 1)
                                     /\ floor' = [floor EXCEPT ![c] = s - 1]
    BY <1>7 DEF StartInWindow
  <2>2. s - 1 \in 0 .. Len(evt) /\ s - 1 \in None .. Len(evt)
    BY <1>1 DEF Above, None
  <2>3. floor' \in [Clients -> 0 .. Len(evt)]
    BY <1>1, <2>1, <2>2
  <2> QED
    BY <1>3, <1>7, <2>1, <2>2, <2>3, PhaseType DEF StartInWindow, Open
<1>8. CASE StartAfterWindow(c)
  <2>1. floor' \in [Clients -> 0 .. Len(evt)]
    BY <1>1, <1>8 DEF StartAfterWindow, clientVars
  <2> QED
    BY <1>2, <1>3, <1>8, <2>1, PhaseType DEF StartAfterWindow, Open, clientVars
<1>9. CASE AttachTail(c)
  <2>1. floor' \in [Clients -> 0 .. Len(evt)]
    BY <1>1, <1>9 DEF AttachTail
  <2> QED
    BY <1>2, <1>3, <1>9, <2>1, PhaseType DEF AttachTail
<1>10. CASE BackfillPageDone(c) \/ Attach(c)
  <2>1. floor' \in [Clients -> 0 .. Len(evt)]
    BY <1>1, <1>10 DEF BackfillPageDone, Attach, clientVars
  <2> QED
    BY <1>2, <1>3, <1>10, <2>1, PhaseType DEF BackfillPageDone, Attach, clientVars
<1> QED
  BY <1>4, <1>5, <1>6, <1>7, <1>8, <1>9, <1>10 DEF Connect

LEMMA QueueType ==
  ASSUME TypeOK, NEW c \in Clients,
         \/ PageQuery(c) \/ CutoverQuery(c) \/ CutoverPush(c)
         \/ BackfillYield(c) \/ StreamYield(c) \/ StreamSkip(c)
  PROVE  TypeOK'
<1> DEFINE N == Len(evt)
<1>1. /\ rows[c] \in Seq(1 .. N) /\ cutoverBuffer[c] \in Seq(1 .. N)
      /\ outBuffer[c] \in Seq(1 .. N) /\ Base(c) \in Int /\ SequencerTypeOK
      /\ log \subseteq 1 .. N /\ N \in Nat /\ sent[c] \subseteq 1 .. N
  BY ConnTypes DEF TypeOK
<1>2. ASSUME PageQuery(c)
      PROVE  TypeOK'
  <2>1. PICK page \in RequestSeqRange(Base(c), PageSize) :
          /\ rows' = [rows EXCEPT ![c] = page]
          /\ phase' = [phase EXCEPT ![c] = IF page = <<>> THEN "backfilled" ELSE "yielding"]
    BY <1>2 DEF PageQuery
  <2>2. page \in Seq(1 .. N)
    BY <1>1, RangeQuery, SeqSubset
  <2> QED
    BY <1>2, <2>1, <2>2 DEF PageQuery, TypeOK, SequencerTypeOK, seqVars, deletionVars, envVars, clientVars, Phases
<1>3. ASSUME CutoverQuery(c)
      PROVE  TypeOK'
  <2>1. PICK evts \in Listings(Above(Base(c))) : rows' = [rows EXCEPT ![c] = evts]
    BY <1>3 DEF CutoverQuery
  <2>2. evts \in Seq(1 .. N)
    <3>1. IsFiniteSet(Above(Base(c))) /\ Above(Base(c)) \subseteq Nat
      BY <1>1, LogFinite
    <3>2. Above(Base(c)) \subseteq 1 .. N
      BY <1>1 DEF Above
    <3> QED
      BY <3>1, <3>2, ListingsProp, SeqSubset
  <2> QED
    BY <1>3, <2>1, <2>2 DEF CutoverQuery, TypeOK, SequencerTypeOK, seqVars, deletionVars, envVars, clientVars, Phases
<1>4. ASSUME CutoverPush(c)
      PROVE  TypeOK'
  <2>1. outBuffer[c] \o CutoverQueue(c) \in Seq(1 .. N) /\ <<>> \in Seq(1 .. N)
    BY <1>1 DEF CutoverQueue
  <2> QED
    BY <1>4, <2>1 DEF CutoverPush, TypeOK, SequencerTypeOK, seqVars, deletionVars, envVars, clientVars, Phases
<1>5. ASSUME NEW q \in Seq(1 .. N), q # <<>>
      PROVE  /\ Head(q) \in 1 .. N /\ Head(q) \in None .. N /\ Tail(q) \in Seq(1 .. N)
             /\ sent[c] \cup {Head(q)} \subseteq 1 .. N
  BY <1>1, <1>5 DEF None
<1>6. ASSUME BackfillYield(c)
      PROVE  TypeOK'
  BY <1>1, <1>5, <1>6 DEF BackfillYield, Yield, TypeOK, SequencerTypeOK, seqVars, deletionVars, envVars
<1>7. ASSUME StreamYield(c)
      PROVE  TypeOK'
  BY <1>1, <1>5, <1>7 DEF StreamYield, Yield, TypeOK, SequencerTypeOK, seqVars, deletionVars, envVars
<1>8. ASSUME StreamSkip(c)
      PROVE  TypeOK'
  BY <1>1, <1>5, <1>8 DEF StreamSkip, TypeOK, SequencerTypeOK, seqVars, deletionVars, envVars, clientVars
<1> QED
  BY <1>2, <1>3, <1>4, <1>6, <1>7, <1>8

LEMMA CloseType ==
  ASSUME TypeOK, NEW C \in SUBSET Clients, Close(C), UNCHANGED seqVars,
         horizon' = horizon, drops' \in 0 .. MaxDrops
  PROVE  TypeOK'
<1>1. Len(evt) \in Nat /\ None \in None .. Len(evt) /\ <<>> \in Seq(1 .. Len(evt))
  BY DEF TypeOK, SequencerTypeOK, None
<1>2. phase' \in [Clients -> Phases]
  BY DEF Close, TypeOK, Phases
<1>3. start' \in [Clients -> None .. Len(evt)] /\ seen' \in [Clients -> None .. Len(evt)]
  BY <1>1 DEF Close, TypeOK
<1>4. /\ rows' \in [Clients -> Seq(1 .. Len(evt))]
      /\ cutoverBuffer' \in [Clients -> Seq(1 .. Len(evt))]
      /\ outBuffer' \in [Clients -> Seq(1 .. Len(evt))]
  BY <1>1 DEF Close, TypeOK
<1> QED
  BY <1>2, <1>3, <1>4 DEF Close, TypeOK, SequencerTypeOK, seqVars, deletionVars, clientVars

(* Appending rows widens every type.                                       *)
LEMMA WidenType ==
  ASSUME TypeOK, UNCHANGED outboxVars, SequencerTypeOK', Len(evt) <= Len(evt')
  PROVE  TypeOK'
<1>1. Len(evt) \in Nat /\ Len(evt') \in Nat
  BY DEF TypeOK, SequencerTypeOK
<1>2. /\ 1 .. Len(evt) \subseteq 1 .. Len(evt') /\ 0 .. Len(evt) \subseteq 0 .. Len(evt')
      /\ None .. Len(evt) \subseteq None .. Len(evt')
  BY <1>1 DEF None
<1>3. \A q \in Seq(1 .. Len(evt)) : q \in Seq(1 .. Len(evt'))
  BY <1>2, SeqSubset
<1>4. /\ rows \in [Clients -> Seq(1 .. Len(evt'))]
      /\ cutoverBuffer \in [Clients -> Seq(1 .. Len(evt'))]
      /\ outBuffer \in [Clients -> Seq(1 .. Len(evt'))]
  BY <1>3 DEF TypeOK
<1>5. sent \in [Clients -> SUBSET (1 .. Len(evt'))]
  BY <1>2 DEF TypeOK
<1>6. /\ start \in [Clients -> None .. Len(evt')] /\ seen \in [Clients -> None .. Len(evt')]
      /\ cursor \in [Clients -> None .. Len(evt')] /\ floor \in [Clients -> 0 .. Len(evt')]
      /\ horizon \in 0 .. Len(evt')
  BY <1>2 DEF TypeOK
<1> QED
  BY <1>4, <1>5, <1>6 DEF TypeOK, outboxVars, connVars, clientVars, envVars

(* The steps that touch every connection.                                  *)
LEMMA EmitType ==
  ASSUME TypeOK, Emit
  PROVE  TypeOK' /\ SequencerTypeOK' /\ evt' = evt
<1>1. SequencerTypeOK /\ SequencerNext /\ PollEmit
  BY DEF TypeOK, Emit, SequencerNext
<1>2. SequencerTypeOK' /\ evt' = evt
  BY <1>1, SequencerStepType DEF PollEmit
<1>3. polled \in Seq(1 .. Len(evt))
  BY <1>1 DEF SequencerTypeOK
<1>4. ASSUME NEW c \in Clients
      PROVE  /\ CutoverBufferAfter(c) \in Seq(1 .. Len(evt))
             /\ OutBufferAfter(c) \in Seq(1 .. Len(evt))
  <2>1. /\ cutoverBuffer[c] \in Seq(1 .. Len(evt))
        /\ outBuffer[c] \in Seq(1 .. Len(evt))
    BY DEF TypeOK
  <2>2. /\ cutoverBuffer[c] \o polled \in Seq(1 .. Len(evt))
        /\ outBuffer[c] \o polled \in Seq(1 .. Len(evt))
    BY <1>3, <2>1
  <2> QED
    BY <2>1, <2>2 DEF CutoverBufferAfter, OutBufferAfter
<1>5. /\ cutoverBuffer' \in [Clients -> Seq(1 .. Len(evt))]
      /\ outBuffer' \in [Clients -> Seq(1 .. Len(evt))]
  BY <1>4 DEF Emit
<1> QED
  BY <1>2, <1>5 DEF Emit, TypeOK, clientVars, envVars

LEMMA RestartType ==
  ASSUME TypeOK, Restart
  PROVE  TypeOK' /\ evt' = evt
<1>1. SequencerTypeOK /\ SequencerNext /\ SequencerRestart
  BY DEF TypeOK, Restart, SequencerNext
<1>2. SequencerTypeOK' /\ evt' = evt
  BY <1>1, SequencerStepType DEF SequencerRestart
<1>3. drops' \in 0 .. MaxDrops /\ horizon' = horizon /\ Close(Clients)
  BY DEF Restart, TypeOK
<1>4. Len(evt) \in Nat /\ None \in None .. Len(evt) /\ <<>> \in Seq(1 .. Len(evt))
  BY <1>1 DEF SequencerTypeOK, None
<1>5. /\ phase' \in [Clients -> Phases]
      /\ start' \in [Clients -> None .. Len(evt)] /\ seen' \in [Clients -> None .. Len(evt)]
      /\ rows' \in [Clients -> Seq(1 .. Len(evt))]
      /\ cutoverBuffer' \in [Clients -> Seq(1 .. Len(evt))]
      /\ outBuffer' \in [Clients -> Seq(1 .. Len(evt))]
  BY <1>3, <1>4 DEF Close, TypeOK, Phases
<1> QED
  BY <1>2, <1>3, <1>5 DEF Close, TypeOK, clientVars

LEMMA NextType ==
  ASSUME TypeOK, [Next]_vars
  PROVE  TypeOK'
<1>1. CASE SequencerStep
  <2>1. SequencerTypeOK' /\ Len(evt) <= Len(evt') /\ UNCHANGED outboxVars
    BY <1>1, SequencerStepLog DEF SequencerStep
  <2> QED
    BY <2>1, WidenType
<1>2. CASE Emit
  BY <1>2, EmitType
<1>3. CASE RowsAge
  <2>1. horizon' \in 0 .. Len(evt)
    BY <1>3 DEF RowsAge, TypeOK
  <2>2. UNCHANGED <<seqVars, connVars, clientVars, drops>>
    BY <1>3 DEF RowsAge
  <2> QED
    BY <2>1, <2>2 DEF TypeOK, SequencerTypeOK, seqVars, deletionVars, connVars, clientVars
<1>4. CASE Restart
  BY <1>4, RestartType
<1>5. ASSUME NEW c \in Clients, Connect(c) \/ Backfill(c) \/ Cutover(c) \/ Stream(c) \/ Disconnect(c)
      PROVE  TypeOK'
  <2>1. CASE Connect(c) \/ BackfillPageDone(c) \/ Attach(c)
    BY <2>1, ConnectType
  <2>2. CASE \/ PageQuery(c) \/ CutoverQuery(c) \/ CutoverPush(c)
             \/ BackfillYield(c) \/ StreamYield(c) \/ StreamSkip(c)
    BY <2>2, QueueType
  <2>3. CASE ConsumerTooSlow(c) \/ Disconnect(c)
    <3>1. /\ Close({c}) /\ UNCHANGED seqVars /\ horizon' = horizon
          /\ drops' \in 0 .. MaxDrops /\ {c} \in SUBSET Clients
      BY <2>3, SMTT(30) DEF ConsumerTooSlow, Disconnect, envVars, TypeOK
    <3> QED
      BY <3>1, CloseType
  <2> QED
    BY <1>5, <2>1, <2>2, <2>3 DEF Backfill, Cutover, Stream
<1>6. CASE UNCHANGED vars
  BY <1>6 DEF vars, seqVars, deletionVars, outboxVars, connVars, clientVars, envVars, TypeOK, SequencerTypeOK
<1> QED
  BY <1>1, <1>2, <1>3, <1>4, <1>5, <1>6 DEF Next

(* The variables of the sequencer, of every connection and of every client *)
(* keep their types.                                                       *)
THEOREM TypeCorrect == Spec => []TypeOK
<1>1. Init => TypeOK
  BY DEF Init, SequencerInit, OutboxInit, TypeOK, SequencerTypeOK, Phases, None
<1>2. TypeOK /\ [Next]_vars => TypeOK'
  BY NextType
<1> QED
  BY <1>1, <1>2, PTL DEF Spec

----------------------------------------------------------------------------
(* No gap.  The connection that moves, one lemma per group of actions.     *)
LEMMA ConnectGap ==
  ASSUME NoGapInv, NEW c \in Clients, Connect(c)
  PROVE  ConnectionInv(c)' /\ Received(c, cursor[c])'
<1>1. /\ TypeOK /\ ConnectionInv(c) /\ Received(c, cursor[c])
      /\ phase \in [Clients -> Phases] /\ start \in [Clients -> None .. Len(evt)]
      /\ floor \in [Clients -> 0 .. Len(evt)]
  BY DEF NoGapInv, NoGap, Received, TypeOK
<1>2. /\ Len(evt) \in Nat /\ log \subseteq Nat /\ lastSeen \in Nat
      /\ cursor[c] \in None .. Len(evt) /\ floor[c] \in Nat
      /\ seen[c] \in None .. Len(evt) /\ start[c] \in None .. Len(evt)
      /\ outBuffer[c] \in Seq(Nat) /\ horizon \in Nat
  BY <1>1, ConnTypes, SMTT(30) DEF TypeOK
<1> USE DEF Received, ConnectionInv, seqVars, envVars, clientVars, None
<1>3. CASE ConnectTail(c)
  BY <1>1, <1>2, <1>3 DEF ConnectTail, Open, NothingSkipped, Covered
<1>4. CASE ConnectBackfill(c)
  <2>1. /\ phase'[c] = "paging" /\ start'[c] = cursor[c] /\ seen'[c] = seen[c]
        /\ floor'[c] = IF floor[c] < cursor[c] THEN floor[c] ELSE cursor[c]
        /\ seen[c] = None /\ outBuffer'[c] = outBuffer[c] /\ log' = log
        /\ cursor' = cursor /\ sent' = sent
    BY <1>1, <1>4 DEF ConnectBackfill, Open
  <2>2. Received(c, cursor[c])'
    <3> SUFFICES ASSUME NEW r \in log, floor'[c] < r, r <= cursor[c]
                 PROVE  r \in sent[c]
      BY <2>1
    <3>1. floor[c] < r
      BY <1>2, <2>1
    <3> QED
      BY <1>1, <3>1
  <2>3. Base(c)' = cursor'[c]
    BY <2>1 DEF Base
  <2> QED
    BY <1>1, <1>4, <2>1, <2>2, <2>3 DEF ConnectBackfill, Open
<1>5. CASE ConnectOutdated(c)
  BY <1>1, <1>2, <1>5 DEF ConnectOutdated, OutdatedCursor, Above, Open
<1>6. CASE StartInWindow(c)
  <2>1. PICK s \in Above(start[c]) : /\ Open(c, "paging", s - 1)
                                     /\ floor' = [floor EXCEPT ![c] = s - 1]
    BY <1>6 DEF StartInWindow
  <2>2. /\ phase'[c] = "paging" /\ start'[c] = s - 1 /\ seen'[c] = None
        /\ floor'[c] = s - 1 /\ outBuffer'[c] = <<>> /\ log' = log
        /\ cursor' = cursor /\ sent' = sent
    BY <1>1, <1>6, <2>1 DEF StartInWindow, Open
  <2>a. s \in log /\ s > start[c] /\ phase[c] = "outdated"
    BY <1>6 DEF StartInWindow, Above
  <2>b. cursor[c] < start[c]
    BY <1>1, <2>a
  <2>3. s \in Nat /\ cursor[c] < s
    BY <1>2, <2>a, <2>b
  <2>4. ASSUME NEW r \in log, s - 1 < r
        PROVE  ~(r <= cursor[c]) /\ ~(r <= s - 1)
    BY <1>2, <2>3, <2>4
  <2>5. Base(c)' = s - 1
    BY <2>2 DEF Base
  <2>6. Received(c, Base(c))' /\ Received(c, cursor[c])'
    BY <2>2, <2>4, <2>5
  <2> QED
    BY <1>1, <2>2, <2>6
<1>7. CASE StartAfterWindow(c)
  BY <1>1, <1>2, <1>7 DEF StartAfterWindow, Open
<1>8. CASE AttachTail(c)
  BY <1>1, <1>2, <1>8 DEF AttachTail, NothingSkipped, Covered
<1> QED
  BY <1>3, <1>4, <1>5, <1>6, <1>7, <1>8 DEF Connect

(* A row is yielded: whatever the log holds below it was received.         *)
LEMMA YieldReceives ==
  ASSUME TypeOK, NEW c \in Clients, NEW q \in Seq(Nat), q # <<>>,
         NothingSkipped(c, q), Yield(c, Head(q)), floor' = floor, log' = log
  PROVE  /\ Head(q) \in Nat /\ Tail(q) \in Seq(Nat)
         /\ \A n : n = Head(q) => \A r \in log : floor[c] < r /\ r <= n => r \in sent'[c]
         /\ NoSkip(Tail(q), log, floor[c], sent'[c])
         /\ \A m : Has(q, log, floor[c], sent[c], m) => Has(Tail(q), log, floor[c], sent'[c], m)
<1>1. /\ Head(q) \in Nat /\ Tail(q) \in Seq(Nat) /\ 1 \in DOMAIN q /\ q[1] = Head(q)
      /\ \A i \in DOMAIN q : i \in Nat /\ ~(i < 1)
  OBVIOUS
<1>2. sent'[c] = sent[c] \cup {Head(q)}
  BY DEF Yield, TypeOK
<1>3. ASSUME NEW r \in log, floor[c] < r, r <= Head(q)
      PROVE  r \in sent'[c]
  <2>1. CASE r = Head(q)
    BY <1>2, <2>1
  <2>2. CASE r # Head(q)
    <3>1. r \in Nat
      BY ConnTypes
    <3>2. r < q[1]
      BY <1>1, <1>3, <2>2, <3>1
    <3>3. r \in sent[c]
      BY <1>1, <1>3, <3>2 DEF NothingSkipped
    <3> QED
      BY <1>2, <3>3
  <2> QED
    BY <2>1, <2>2
<1>4. NoSkip(q, log, floor[c], sent[c])
  BY DEF NothingSkipped, NoSkip
<1>5. sent[c] \subseteq sent'[c] /\ Head(q) \in sent'[c]
  BY <1>2
<1> QED
  BY <1>1, <1>3, <1>4, <1>5, TakeHead

LEMMA BackfillGap ==
  ASSUME NoGapInv, NEW c \in Clients, Backfill(c)
  PROVE  ConnectionInv(c)' /\ Received(c, cursor[c])'
<1>1. /\ TypeOK /\ ConnectionInv(c) /\ Received(c, cursor[c]) /\ SequencerTypeOK
      /\ phase \in [Clients -> Phases] /\ rows \in [Clients -> Seq(1 .. Len(evt))]
      /\ seen \in [Clients -> None .. Len(evt)] /\ cursor \in [Clients -> None .. Len(evt)]
  BY DEF NoGapInv, NoGap, Received, TypeOK
<1>2. /\ log \subseteq Nat /\ rows[c] \in Seq(Nat) /\ Base(c) \in Int
      /\ seen[c] \in None .. Len(evt) /\ Len(evt) \in Nat
  BY <1>1, ConnTypes
<1>3. CASE PageQuery(c)
  <2>1. PICK page \in RequestSeqRange(Base(c), PageSize) :
          /\ rows' = [rows EXCEPT ![c] = page]
          /\ phase' = [phase EXCEPT ![c] = IF page = <<>> THEN "backfilled" ELSE "yielding"]
    BY <1>3 DEF PageQuery
  <2>2. /\ phase[c] = "paging" /\ phase'[c] \in {"backfilled", "yielding"} /\ rows'[c] = page
        /\ start' = start /\ seen' = seen /\ outBuffer' = outBuffer /\ log' = log
        /\ cursor' = cursor /\ floor' = floor /\ sent' = sent
    BY <1>1, <1>3, <2>1 DEF PageQuery, seqVars, clientVars
  <2>3. \A i \in DOMAIN page : \A r \in log :
          Base(c) < r /\ r < page[i] => \E j \in DOMAIN page : j < i /\ page[j] = r
    BY <1>1, <1>2, RangeQuery
  <2>4. \A r \in log : floor[c] < r /\ r <= Base(c) => r \in sent[c]
    BY <1>1, <2>2 DEF ConnectionInv, Received
  <2>5. NothingSkipped(c, rows[c])'
    <3> SUFFICES ASSUME NEW i \in DOMAIN page, NEW r \in log, floor[c] < r, r < page[i]
                 PROVE  r \in sent[c] \/ \E j \in DOMAIN page : j < i /\ page[j] = r
      BY <2>2 DEF NothingSkipped
    <3>1. r <= Base(c) \/ Base(c) < r
      BY <1>2
    <3> QED
      BY <2>3, <2>4, <3>1
  <2>6. Base(c)' = Base(c)
    BY <2>2 DEF Base
  <2>7. Received(c, Base(c))' /\ Received(c, cursor[c])'
    BY <1>1, <2>2, <2>4, <2>6 DEF Received
  <2> QED
    BY <1>1, <2>2, <2>5, <2>7 DEF ConnectionInv
<1>4. CASE BackfillYield(c)
  <2>1. /\ phase[c] = "yielding" /\ rows[c] # <<>> /\ NothingSkipped(c, rows[c])
        /\ Yield(c, Head(rows[c])) /\ floor' = floor /\ log' = log
        /\ phase' = phase /\ outBuffer' = outBuffer /\ rows'[c] = Tail(rows[c])
    BY <1>1, <1>4 DEF BackfillYield, ConnectionInv, seqVars
  <2>2. seen'[c] = Head(rows[c]) /\ cursor'[c] = Head(rows[c])
    BY <1>1, <2>1 DEF Yield
  <2>3. /\ Head(rows[c]) \in Nat
        /\ \A n : n = Head(rows[c]) =>
             \A r \in log : floor[c] < r /\ r <= n => r \in sent'[c]
        /\ NoSkip(Tail(rows[c]), log, floor[c], sent'[c])
    BY <1>1, <1>2, <2>1, YieldReceives
  <2>4. Base(c)' = cursor'[c]
    BY <2>2, <2>3 DEF Base, None
  <2>5. Received(c, Base(c))' /\ Received(c, cursor[c])'
    BY <2>1, <2>2, <2>3, <2>4 DEF Received
  <2>6. NothingSkipped(c, rows[c])'
    BY <2>1, <2>3 DEF NothingSkipped, NoSkip
  <2> QED
    BY <1>1, <2>1, <2>2, <2>5, <2>6 DEF ConnectionInv
<1>5. CASE BackfillPageDone(c) \/ Attach(c)
  <2>1. /\ phase[c] \in {"yielding", "backfilled"}
        /\ phase'[c] \in {"paging", "backfilled", "cutover"}
        /\ start' = start /\ seen' = seen /\ outBuffer' = outBuffer /\ log' = log
        /\ cursor' = cursor /\ floor' = floor /\ sent' = sent
    BY <1>1, <1>5 DEF BackfillPageDone, Attach, seqVars, clientVars
  <2>2. Base(c)' = Base(c)
    BY <2>1 DEF Base
  <2>3. Received(c, Base(c))' /\ Received(c, cursor[c])'
    BY <1>1, <2>1, <2>2 DEF ConnectionInv, Received
  <2> QED
    BY <1>1, <2>1, <2>3 DEF ConnectionInv
<1> QED
  BY <1>3, <1>4, <1>5 DEF Backfill

LEMMA CutoverGap ==
  ASSUME NoGapInv, NEW c \in Clients, Cutover(c)
  PROVE  ConnectionInv(c)' /\ Received(c, cursor[c])'
<1>1. /\ TypeOK /\ ConnectionInv(c) /\ Received(c, cursor[c]) /\ SequencerTypeOK
      /\ phase \in [Clients -> Phases] /\ rows \in [Clients -> Seq(1 .. Len(evt))]
      /\ outBuffer \in [Clients -> Seq(1 .. Len(evt))]
  BY DEF NoGapInv, NoGap, Received, TypeOK
<1>2. /\ log \subseteq Nat /\ cutoverBuffer[c] \in Seq(Nat) /\ Base(c) \in Int
  BY <1>1, ConnTypes
<1>3. CASE CutoverQuery(c)
  <2>1. PICK evts \in Listings(Above(Base(c))) : rows' = [rows EXCEPT ![c] = evts]
    BY <1>3 DEF CutoverQuery
  <2>2. /\ phase[c] = "cutover" /\ phase'[c] = "pushing" /\ rows'[c] = evts
        /\ seen' = seen /\ outBuffer' = outBuffer /\ log' = log /\ lastSeen' = lastSeen
        /\ cursor' = cursor /\ floor' = floor /\ sent' = sent
        /\ cutoverBuffer' = cutoverBuffer
    BY <1>1, <1>3, <2>1 DEF CutoverQuery, seqVars, clientVars
  <2>3. /\ evts \in Seq(Nat) /\ DOMAIN evts = 1 .. Len(evts) /\ Len(evts) \in Nat
        /\ \A i, j \in DOMAIN evts : i < j => evts[i] < evts[j]
        /\ \A r \in log : Base(c) < r => \E i \in DOMAIN evts : evts[i] = r
    <3>1. IsFiniteSet(Above(Base(c))) /\ Above(Base(c)) \subseteq Nat
      BY <1>1, <1>2, LogFinite
    <3>2. /\ evts \in Seq(Above(Base(c)))
          /\ \A i, j \in DOMAIN evts : i < j => evts[i] < evts[j]
          /\ \A s \in Above(Base(c)) : \E i \in DOMAIN evts : evts[i] = s
      BY <3>1, ListingsProp
    <3>3. evts \in Seq(Nat)
      BY <3>1, <3>2, SeqSubset
    <3> QED
      BY <3>2, <3>3 DEF Above
  <2>4. \A r \in log : floor[c] < r /\ r <= Base(c) => r \in sent[c]
    BY <1>1, <2>2 DEF ConnectionInv, Received
  <2>5. ASSUME NEW r \in log, floor[c] < r, r \notin sent[c]
        PROVE  \E i \in DOMAIN evts : evts[i] = r
    BY <1>2, <2>3, <2>4, <2>5
  <2>6. CutoverQueue(c)' = evts \o cutoverBuffer[c]
    BY <2>2 DEF CutoverQueue
  <2>7. /\ NoSkip(evts \o cutoverBuffer[c], log, floor[c], sent[c])
        /\ Has(evts \o cutoverBuffer[c], log, floor[c], sent[c], lastSeen)
    BY <1>2, <2>3, <2>5, QueryFirst
  <2>8. PICK q : q = evts \o cutoverBuffer[c]
    OBVIOUS
  <2>9. NothingSkipped(c, CutoverQueue(c))' /\ Covered(c, CutoverQueue(c))'
    BY <2>2, <2>6, <2>7, <2>8 DEF NothingSkipped, NoSkip, Covered, Has
  <2>10. Received(c, cursor[c])'
    BY <1>1, <2>2 DEF Received
  <2> QED
    BY <1>1, <2>2, <2>9, <2>10 DEF ConnectionInv
<1>4. CASE CutoverPush(c)
  <2>1. /\ phase[c] = "pushing" /\ phase'[c] = "streaming"
        /\ outBuffer'[c] = outBuffer[c] \o CutoverQueue(c)
        /\ seen' = seen /\ log' = log /\ lastSeen' = lastSeen
        /\ cursor' = cursor /\ floor' = floor /\ sent' = sent
    BY <1>1, <1>4 DEF CutoverPush, seqVars, clientVars
  <2>2. outBuffer[c] = <<>> /\ CutoverQueue(c) \in Seq(1 .. Len(evt))
    BY <1>1, <2>1, ConnTypes DEF ConnectionInv, CutoverQueue
  <2>3. outBuffer'[c] = CutoverQueue(c)
    BY <2>1, <2>2
  <2>4. NothingSkipped(c, outBuffer[c])' /\ Covered(c, outBuffer[c])'
    BY <1>1, <2>1, <2>3 DEF ConnectionInv, NothingSkipped, Covered
  <2>5. Received(c, cursor[c])'
    BY <1>1, <2>1 DEF Received
  <2> QED
    BY <1>1, <2>1, <2>4, <2>5 DEF ConnectionInv
<1> QED
  BY <1>3, <1>4 DEF Cutover

LEMMA StreamGap ==
  ASSUME NoGapInv, NEW c \in Clients, StreamYield(c) \/ StreamSkip(c)
  PROVE  ConnectionInv(c)' /\ Received(c, cursor[c])'
<1>1. /\ TypeOK /\ ConnectionInv(c) /\ Received(c, cursor[c]) /\ phase[c] = "streaming"
      /\ outBuffer[c] # <<>> /\ phase' = phase /\ floor' = floor /\ log' = log
      /\ lastSeen' = lastSeen /\ outBuffer'[c] = Tail(outBuffer[c])
  BY DEF NoGapInv, NoGap, Received, TypeOK, StreamYield, StreamSkip, seqVars, clientVars
<1>2. /\ outBuffer[c] \in Seq(Nat) /\ Head(outBuffer[c]) \in Nat
      /\ seen[c] \in None .. Len(evt) /\ Len(evt) \in Nat
  BY <1>1, ConnTypes, SMTT(30)
<1>3. /\ NothingSkipped(c, outBuffer[c])
      /\ NoSkip(outBuffer[c], log, floor[c], sent[c])
      /\ Has(outBuffer[c], log, floor[c], sent[c], lastSeen)
  BY <1>1 DEF ConnectionInv, NothingSkipped, NoSkip, Covered, Has
<1>4. CASE StreamYield(c)
  <2>1. /\ Yield(c, Head(outBuffer[c]))
        /\ seen'[c] = Head(outBuffer[c]) /\ cursor'[c] = Head(outBuffer[c])
    BY <1>1, <1>4 DEF StreamYield, Yield, TypeOK
  <2>2. /\ \A n : n = Head(outBuffer[c]) =>
             \A r \in log : floor[c] < r /\ r <= n => r \in sent'[c]
        /\ NoSkip(Tail(outBuffer[c]), log, floor[c], sent'[c])
        /\ Has(Tail(outBuffer[c]), log, floor[c], sent'[c], lastSeen)
    BY <1>1, <1>2, <1>3, <2>1, YieldReceives
  <2>3. Received(c, cursor[c])'
    BY <1>1, <2>1, <2>2 DEF Received
  <2>4. NothingSkipped(c, outBuffer[c])' /\ Covered(c, outBuffer[c])'
    BY <1>1, <2>2 DEF NothingSkipped, NoSkip, Covered, Has
  <2> QED
    BY <1>1, <2>1, <2>3, <2>4 DEF ConnectionInv
<1>5. CASE StreamSkip(c)
  <2>1. /\ seen' = seen /\ cursor' = cursor /\ sent' = sent
        /\ Head(outBuffer[c]) <= seen[c]
    BY <1>5 DEF StreamSkip, clientVars
  <2>2. seen[c] = cursor[c]
    BY <1>1, <1>2, <2>1 DEF ConnectionInv, None
  <2>3. Head(outBuffer[c]) \in log /\ floor[c] < Head(outBuffer[c])
          => Head(outBuffer[c]) \in sent[c]
    BY <1>1, <2>1, <2>2 DEF Received
  <2>4. /\ NoSkip(Tail(outBuffer[c]), log, floor[c], sent[c])
        /\ Has(Tail(outBuffer[c]), log, floor[c], sent[c], lastSeen)
    BY <1>1, <1>2, <1>3, <2>3, TakeHead
  <2>5. NothingSkipped(c, outBuffer[c])' /\ Covered(c, outBuffer[c])'
    BY <1>1, <2>1, <2>4 DEF NothingSkipped, NoSkip, Covered, Has
  <2>6. Received(c, cursor[c])'
    BY <1>1, <2>1 DEF Received
  <2> QED
    BY <1>1, <2>1, <2>5, <2>6 DEF ConnectionInv
<1> QED
  BY <1>4, <1>5

(* A closed connection leaves the client what it received.                 *)
LEMMA CloseGap ==
  ASSUME NoGapInv, NEW C \in SUBSET Clients, Close(C), log' = log, NEW c \in C
  PROVE  ConnectionInv(c)' /\ Received(c, cursor[c])'
<1>1. TypeOK /\ Received(c, cursor[c]) /\ c \in Clients
  BY DEF NoGapInv, NoGap, Received, TypeOK
<1>2. /\ phase'[c] = "closed" /\ seen'[c] = None /\ outBuffer'[c] = <<>>
      /\ cursor' = cursor /\ floor' = floor /\ sent' = sent
  BY <1>1 DEF Close, clientVars
<1> QED
  BY <1>1, <1>2 DEF ConnectionInv, Received

(* The poller hands its rows to every connection.                          *)
LEMMA EmitGap ==
  ASSUME NoGapInv, Emit, NEW c \in Clients
  PROVE  ConnectionInv(c)' /\ Received(c, cursor[c])'
<1>1. /\ TypeOK /\ ConnectionInv(c) /\ Received(c, cursor[c]) /\ PolledInOrder
      /\ phase' = phase /\ start' = start /\ seen' = seen /\ rows' = rows
      /\ cursor' = cursor /\ floor' = floor /\ sent' = sent /\ log' = log
      /\ lastSeen' = polled[Len(polled)] /\ polled # <<>>
      /\ cutoverBuffer'[c] = CutoverBufferAfter(c)
      /\ outBuffer'[c] = OutBufferAfter(c)
  BY DEF NoGapInv, NoGap, Received, TypeOK, Emit, PollEmit, clientVars
<1>2. /\ polled \in Seq(Nat) /\ log \subseteq Nat /\ floor[c] \in Nat /\ lastSeen \in Nat
      /\ outBuffer[c] \in Seq(Nat) /\ rows[c] \in Seq(Nat) /\ cutoverBuffer[c] \in Seq(Nat)
  BY <1>1, ConnTypes
<1>3. InOrder(polled, log, lastSeen)
  BY <1>1 DEF PolledInOrder, InOrder
<1>4. ASSUME NEW q \in Seq(Nat), NothingSkipped(c, q), Covered(c, q)
      PROVE  \A s : s = q \o polled => NothingSkipped(c, s)' /\ Covered(c, s)'
  <2>1. NoSkip(q, log, floor[c], sent[c]) /\ Has(q, log, floor[c], sent[c], lastSeen)
    BY <1>4 DEF NothingSkipped, NoSkip, Covered, Has
  <2>2. /\ NoSkip(q \o polled, log, floor[c], sent[c])
        /\ Has(q \o polled, log, floor[c], sent[c], polled[Len(polled)])
    BY <1>1, <1>2, <1>3, <2>1, AppendPolled
  <2> SUFFICES ASSUME NEW s, s = q \o polled
               PROVE  NothingSkipped(c, s)' /\ Covered(c, s)'
    OBVIOUS
  <2>3. /\ NoSkip(s, log, floor[c], sent[c])
        /\ Has(s, log, floor[c], sent[c], polled[Len(polled)])
    BY <2>2
  <2> QED
    BY <1>1, <2>3 DEF NothingSkipped, NoSkip, Covered, Has
<1>5. Received(c, cursor[c])' /\ (Received(c, Base(c)) => Received(c, Base(c))')
  BY <1>1 DEF Received, Base
<1>6. phase[c] = "yielding" => NothingSkipped(c, rows[c])'
  BY <1>1 DEF ConnectionInv, NothingSkipped
<1>7. phase[c] = "pushing" => /\ NothingSkipped(c, CutoverQueue(c))'
                              /\ Covered(c, CutoverQueue(c))'
  <2> HAVE phase[c] = "pushing"
  <2>1. CutoverQueue(c) \in Seq(Nat) /\ NothingSkipped(c, CutoverQueue(c))
          /\ Covered(c, CutoverQueue(c))
    BY <1>1, <1>2 DEF ConnectionInv, CutoverQueue
  <2>2. CutoverQueue(c)' = CutoverQueue(c) \o polled
    <3>1. CutoverQueue(c)' = rows[c] \o (cutoverBuffer[c] \o polled)
      BY <1>1 DEF CutoverQueue, CutoverBufferAfter
    <3>2. PICK r \in Seq(Nat), b \in Seq(Nat), p \in Seq(Nat) :
            r = rows[c] /\ b = cutoverBuffer[c] /\ p = polled
      BY <1>2
    <3>3. CutoverQueue(c)' = r \o (b \o p) /\ CutoverQueue(c) \o polled = (r \o b) \o p
      BY <3>1, <3>2 DEF CutoverQueue
    <3>4. (r \o b) \o p = r \o (b \o p)
      OBVIOUS
    <3> QED
      BY <3>3, <3>4, Zenon
  <2>3. PICK s : s = CutoverQueue(c) \o polled
    OBVIOUS
  <2>4. NothingSkipped(c, s)' /\ Covered(c, s)'
    BY <1>4, <2>1, <2>3
  <2> QED
    BY <2>2, <2>3, <2>4 DEF NothingSkipped, Covered
<1>8. phase[c] = "streaming" => /\ NothingSkipped(c, outBuffer[c])'
                                /\ Covered(c, outBuffer[c])'
  <2> HAVE phase[c] = "streaming"
  <2>1. outBuffer'[c] = outBuffer[c] \o polled
    BY <1>1 DEF OutBufferAfter
  <2>2. NothingSkipped(c, outBuffer[c]) /\ Covered(c, outBuffer[c])
    BY <1>1 DEF ConnectionInv
  <2>3. PICK s : s = outBuffer'[c]
    OBVIOUS
  <2>4. NothingSkipped(c, s)' /\ Covered(c, s)'
    BY <1>2, <1>4, <2>1, <2>2, <2>3
  <2> QED
    BY <2>3, <2>4 DEF NothingSkipped, Covered
<1>9. phase[c] # "streaming" => outBuffer'[c] = <<>>
  BY <1>1 DEF ConnectionInv, OutBufferAfter
<1> QED
  BY <1>1, <1>5, <1>6, <1>7, <1>8, <1>9 DEF ConnectionInv

(* The rows a poll has in hand stay in order.                              *)
LEMMA PolledStep ==
  ASSUME TypeOK, PolledInOrder, [Next]_vars
  PROVE  PolledInOrder'
<1>1. /\ Len(evt) \in Nat /\ lastSeen \in 0 .. Len(evt) /\ lastSeen \in Int
      /\ polled \in Seq(1 .. Len(evt)) /\ SequencerTypeOK
  BY DEF TypeOK, SequencerTypeOK
<1>2. InOrder(polled, log, lastSeen)
  BY DEF PolledInOrder, InOrder
<1>3. CASE SequencerStep
  <2>1. CASE PollQuery
    <3>1. /\ polled' \in RequestSeqRange(lastSeen, PollLimit) /\ log' = log
          /\ lastSeen' = lastSeen
      BY <2>1 DEF PollQuery
    <3>2. PollLimit \in Nat \ {0}
      BY SequencerAssumption
    <3>3. /\ \A i \in DOMAIN polled' : polled'[i] > lastSeen
          /\ \A i \in DOMAIN polled' : \A r \in log :
               lastSeen < r /\ r < polled'[i] => \E j \in DOMAIN polled' : j < i /\ polled'[j] = r
      BY <1>1, <3>1, <3>2, RangeQuery
    <3> QED
      BY <3>1, <3>3 DEF PolledInOrder
  <2>2. CASE ~PollQuery
    <3>1. polled' = polled /\ lastSeen' = lastSeen
      <4>1. ASSUME NEW d \in Dids, Sequence(d)
            PROVE  polled' = polled
        BY <4>1, <1>1, SequenceInserts
      <4>2. ASSUME NEW s \in deleting, PurgeDeletedAccount(s) \/ PurgeFails(s)
            PROVE  polled' = polled
        BY <4>2 DEF PurgeDeletedAccount, PurgeFails
      <4> QED
        BY <1>3, <2>2, <4>1, <4>2, SequencerStepLog DEF SequencerStep
    <3>2. \A r \in log' : r \in log \/ (r \in Nat /\ r > Len(evt))
      BY <1>3, SequencerStepLog DEF LogStep
    <3>3. InOrder(polled, log', lastSeen)
      <4>1. InOrder(polled, log, lastSeen) => InOrder(polled, log', lastSeen)
        BY <1>1, <3>2, FrameQueue
      <4> QED
        BY <1>2, <4>1
    <3> QED
      BY <3>1, <3>3 DEF PolledInOrder, InOrder
  <2> QED
    BY <2>1, <2>2
<1>4. CASE Emit \/ Restart
  <2>1. polled' = <<>>
    BY <1>4 DEF Emit, PollEmit, Restart, SequencerRestart
  <2> QED
    BY <2>1 DEF PolledInOrder
<1>5. CASE UNCHANGED seqVars
  BY <1>5 DEF PolledInOrder, seqVars
<1>6. ASSUME NEW c \in Clients, Connect(c) \/ Backfill(c) \/ Cutover(c) \/ Stream(c) \/ Disconnect(c)
      PROVE  UNCHANGED seqVars
  BY <1>6 DEF Connect, ConnectTail, ConnectBackfill, ConnectOutdated, StartInWindow,
              StartAfterWindow, AttachTail, Backfill, PageQuery, BackfillYield,
              BackfillPageDone, Attach, Cutover, CutoverQuery, CutoverPush,
              Stream, StreamYield, StreamSkip, ConsumerTooSlow, Disconnect
<1> QED
  BY <1>3, <1>4, <1>5, <1>6 DEF Next, RowsAge, vars

(* A connection that moves leaves the others where they are.               *)
LEMMA OthersUnmoved ==
  ASSUME TypeOK, NEW c \in Clients, NEW d \in Clients, c # d,
         Connect(c) \/ Backfill(c) \/ Cutover(c) \/ Stream(c) \/ Disconnect(c)
  PROVE  Unmoved(d) /\ UNCHANGED seqVars
<1> USE DEF TypeOK, Unmoved, clientVars
<1>1. CASE Connect(c)
  <2>1. CASE ConnectTail(c) \/ ConnectBackfill(c) \/ ConnectOutdated(c)
    BY <2>1 DEF ConnectTail, ConnectBackfill, ConnectOutdated, Open
  <2>2. CASE StartInWindow(c) \/ StartAfterWindow(c) \/ AttachTail(c)
    BY <2>2 DEF StartInWindow, StartAfterWindow, AttachTail, Open
  <2> QED
    BY <1>1, <2>1, <2>2 DEF Connect
<1>2. CASE Backfill(c)
  <2>1. CASE PageQuery(c) \/ BackfillYield(c)
    BY <2>1 DEF PageQuery, BackfillYield, Yield
  <2>2. CASE BackfillPageDone(c) \/ Attach(c)
    BY <2>2 DEF BackfillPageDone, Attach
  <2> QED
    BY <1>2, <2>1, <2>2 DEF Backfill
<1>3. CASE Cutover(c)
  BY <1>3 DEF Cutover, CutoverQuery, CutoverPush
<1>4. CASE Stream(c)
  <2>1. CASE StreamYield(c) \/ StreamSkip(c)
    BY <2>1 DEF StreamYield, StreamSkip, Yield
  <2>2. CASE ConsumerTooSlow(c)
    BY <2>2 DEF ConsumerTooSlow, Close
  <2> QED
    BY <1>4, <2>1, <2>2 DEF Stream
<1>5. CASE Disconnect(c)
  BY <1>5 DEF Disconnect, Close
<1> QED
  BY <1>1, <1>2, <1>3, <1>4, <1>5

LEMMA ConnectionStep ==
  ASSUME NoGapInv, [Next]_vars, NEW d \in Clients
  PROVE  ConnectionInv(d)' /\ Received(d, cursor[d])'
<1>1. TypeOK /\ ConnectionInv(d) /\ Received(d, cursor[d])
  BY DEF NoGapInv, NoGap, Received
<1>2. ASSUME UNCHANGED seqVars
      PROVE  LogStep /\ lastSeen' = lastSeen
  BY <1>1, <1>2 DEF LogStep, seqVars, TypeOK, SequencerTypeOK
<1>3. CASE SequencerStep
  <2>1. LogStep /\ lastSeen' = lastSeen /\ Unmoved(d)
    BY <1>1, <1>3, SequencerStepLog
       DEF SequencerStep, outboxVars, connVars, clientVars, Unmoved
  <2> QED
    BY <1>1, <2>1, FrameConnection
<1>4. CASE Emit
  BY <1>4, EmitGap
<1>5. CASE RowsAge \/ UNCHANGED vars
  <2>1. UNCHANGED seqVars /\ Unmoved(d)
    BY <1>5 DEF RowsAge, vars, outboxVars, connVars, clientVars, Unmoved
  <2> QED
    BY <1>1, <1>2, <2>1, FrameConnection
<1>6. CASE Restart
  <2>1. Close(Clients) /\ log' = log
    BY <1>6 DEF Restart, SequencerRestart
  <2> QED
    BY <2>1, CloseGap
<1>7. ASSUME NEW c \in Clients, Connect(c) \/ Backfill(c) \/ Cutover(c) \/ Stream(c) \/ Disconnect(c)
      PROVE  ConnectionInv(d)' /\ Received(d, cursor[d])'
  <2>1. CASE c # d
    <3>1. Unmoved(d) /\ UNCHANGED seqVars
      BY <1>1, <1>7, <2>1, OthersUnmoved
    <3> QED
      BY <1>1, <1>2, <3>1, FrameConnection
  <2>2. CASE c = d
    <3>1. CASE ConsumerTooSlow(d) \/ Disconnect(d)
      <4>1. Close({d}) /\ log' = log
        BY <3>1 DEF ConsumerTooSlow, Disconnect, seqVars
      <4> QED
        BY <4>1, CloseGap
    <3> QED
      BY <1>7, <2>2, <3>1, ConnectGap, BackfillGap, CutoverGap, StreamGap DEF Stream
  <2> QED
    BY <2>1, <2>2
<1> QED
  BY <1>3, <1>4, <1>5, <1>6, <1>7 DEF Next

(* The inductive invariant: every connection is on the way to all that its *)
(* client was promised, whatever phase it is in and whatever it has in its *)
(* queues.                                                                 *)
THEOREM NoGapInvCorrect == Spec => []NoGapInv
<1>1. Init => NoGapInv
  <2> SUFFICES ASSUME Init
               PROVE  NoGapInv
    OBVIOUS
  <2>1. TypeOK
    BY DEF Init, SequencerInit, OutboxInit, TypeOK, SequencerTypeOK, Phases, None
  <2>2. PolledInOrder /\ NoGap
    BY DEF Init, SequencerInit, OutboxInit, PolledInOrder, NoGap
  <2>3. \A c \in Clients : ConnectionInv(c)
    BY DEF Init, OutboxInit, ConnectionInv
  <2> QED
    BY <2>1, <2>2, <2>3 DEF NoGapInv
<1>2. NoGapInv /\ [Next]_vars => NoGapInv'
  <2> SUFFICES ASSUME NoGapInv, [Next]_vars
               PROVE  NoGapInv'
    OBVIOUS
  <2>1. TypeOK' /\ PolledInOrder'
    BY NextType, PolledStep DEF NoGapInv
  <2>2. \A c \in Clients : ConnectionInv(c)' /\ Received(c, cursor[c])'
    BY ConnectionStep
  <2> QED
    BY <2>1, <2>2 DEF NoGapInv, NoGap, Received
<1> QED
  BY <1>1, <1>2, PTL DEF Spec

(* No client of the firehose misses an event the log still holds: over     *)
(* backfill, cutover, stream, dropped connections and restarts.            *)
THEOREM NoGapCorrect == Spec => []NoGap
<1>1. NoGapInv => NoGap
  BY DEF NoGapInv
<1> QED
  BY <1>1, NoGapInvCorrect, PTL

----------------------------------------------------------------------------
(* The order of a connection.  A page in hand is ascending and above what  *)
(* was yielded; the stream compares every event with the last one.         *)
Ascending(c) ==
  phase[c] = "yielding" =>
    /\ \A i \in DOMAIN rows[c] : rows[c][i] > seen[c]
    /\ \A i, j \in DOMAIN rows[c] : i < j => rows[c][i] < rows[c][j]

YieldsInOrder(c) == phase'[c] # "closed" /\ seen'[c] # seen[c] => seen'[c] > seen[c]

LEMMA TailAscends ==
  ASSUME NEW q \in Seq(Nat), q # <<>>, NEW n \in Int,
         \A i \in DOMAIN q : q[i] > n,
         \A i, j \in DOMAIN q : i < j => q[i] < q[j]
  PROVE  /\ Head(q) > n /\ Head(q) \in Nat
         /\ \A i \in DOMAIN Tail(q) : Tail(q)[i] > Head(q)
         /\ \A i, j \in DOMAIN Tail(q) : i < j => Tail(q)[i] < Tail(q)[j]
<1>a. Tail(q) \in Seq(Nat)
  OBVIOUS
<1>0. PICK t \in Seq(Nat) : t = Tail(q)
  BY <1>a
<1>1. /\ Len(q) \in Nat \ {0} /\ DOMAIN q = 1 .. Len(q) /\ DOMAIN t = 1 .. Len(q) - 1
      /\ \A i \in 1 .. Len(q) - 1 : t[i] = q[i + 1]
      /\ Head(q) = q[1] /\ 1 \in DOMAIN q /\ \A i \in DOMAIN q : q[i] \in Nat
  BY <1>0
<1>2. \A i \in DOMAIN t : i + 1 \in DOMAIN q /\ 1 < i + 1 /\ t[i] = q[i + 1]
  BY <1>1
<1>3. ASSUME NEW i \in DOMAIN t PROVE t[i] > Head(q)
  <2>1. i + 1 \in DOMAIN q /\ 1 < i + 1 /\ t[i] = q[i + 1]
    BY <1>2
  <2>2. q[1] < q[i + 1] /\ q[1] \in Nat /\ q[i + 1] \in Nat
    BY <1>1, <2>1
  <2> QED
    BY <1>1, <2>1, <2>2
<1>4. ASSUME NEW i \in DOMAIN t, NEW j \in DOMAIN t, i < j PROVE t[i] < t[j]
  <2>1. i + 1 < j + 1
    BY <1>1, <1>4
  <2> QED
    BY <1>2, <2>1
<1> QED
  BY <1>0, <1>1, <1>3, <1>4

LEMMA BackfillOrder ==
  ASSUME TypeOK, NEW c \in Clients, Ascending(c), Backfill(c)
  PROVE  Ascending(c)' /\ YieldsInOrder(c)
<1>1. /\ SequencerTypeOK /\ phase \in [Clients -> Phases]
      /\ rows \in [Clients -> Seq(1 .. Len(evt))] /\ seen \in [Clients -> None .. Len(evt)]
  BY DEF TypeOK
<1>2. /\ log \subseteq Nat /\ rows[c] \in Seq(Nat) /\ Base(c) \in Int
      /\ seen[c] \in None .. Len(evt) /\ Len(evt) \in Nat /\ start[c] \in None .. Len(evt)
  BY ConnTypes
<1>3. CASE PageQuery(c)
  <2>1. PICK page \in RequestSeqRange(Base(c), PageSize) :
          /\ rows' = [rows EXCEPT ![c] = page]
          /\ phase' = [phase EXCEPT ![c] = IF page = <<>> THEN "backfilled" ELSE "yielding"]
    BY <1>3 DEF PageQuery
  <2>2. rows'[c] = page /\ seen' = seen
    BY <1>1, <1>3, <2>1 DEF PageQuery
  <2>3. /\ page \in Seq(log) /\ \A i \in DOMAIN page : page[i] > Base(c)
        /\ \A i, j \in DOMAIN page : i < j => page[i] < page[j]
    BY <1>1, <1>2, RangeQuery
  <2>4. seen[c] <= Base(c)
    BY <1>2 DEF Base, None
  <2>5. ASSUME NEW i \in DOMAIN page PROVE page[i] > seen[c]
    <3>0. page[i] \in log
      BY <2>3
    <3>1. page[i] > Base(c)
      BY <2>3
    <3>a. page[i] \in Nat
      BY <1>2, <3>0
    <3>b. seen[c] \in Int
      BY <1>2 DEF None
    <3>2. page[i] \in Int /\ Base(c) \in Int /\ seen[c] \in Int
      BY <1>2, <3>a, <3>b
    <3> QED
      BY <2>4, <3>1, <3>2
  <2> QED
    BY <2>2, <2>3, <2>5 DEF Ascending, YieldsInOrder
<1>4. CASE BackfillYield(c)
  <2>1. /\ phase[c] = "yielding" /\ rows[c] # <<>> /\ phase' = phase
        /\ rows'[c] = Tail(rows[c]) /\ seen'[c] = Head(rows[c])
    BY <1>1, <1>4 DEF BackfillYield, Yield
  <2>2. PICK q : q = rows[c]
    OBVIOUS
  <2>3. /\ q \in Seq(Nat) /\ q # <<>> /\ seen[c] \in Int
        /\ \A i \in DOMAIN q : q[i] > seen[c]
        /\ \A i, j \in DOMAIN q : i < j => q[i] < q[j]
    BY <1>2, <2>1, <2>2 DEF Ascending, None
  <2>4. /\ Head(q) > seen[c]
        /\ \A i \in DOMAIN Tail(q) : Tail(q)[i] > Head(q)
        /\ \A i, j \in DOMAIN Tail(q) : i < j => Tail(q)[i] < Tail(q)[j]
    BY <2>3, TailAscends
  <2> QED
    BY <2>1, <2>2, <2>4 DEF Ascending, YieldsInOrder
<1>5. CASE BackfillPageDone(c) \/ Attach(c)
  <2>1. phase'[c] \in {"paging", "backfilled", "cutover"} /\ seen' = seen
    BY <1>1, <1>5 DEF BackfillPageDone, Attach
  <2> QED
    BY <2>1 DEF Ascending, YieldsInOrder
<1> QED
  BY <1>3, <1>4, <1>5 DEF Backfill

LEMMA OrderStep ==
  ASSUME TypeOK, [Next]_vars, NEW d \in Clients, Ascending(d)
  PROVE  Ascending(d)' /\ YieldsInOrder(d)
<1>1. ASSUME Unmoved(d) \/ (phase'[d] = phase[d] /\ seen'[d] = seen[d] /\ rows'[d] = rows[d])
      PROVE  Ascending(d)' /\ YieldsInOrder(d)
  BY <1>1 DEF Unmoved, Ascending, YieldsInOrder
<1>2. ASSUME phase'[d] = "closed"
      PROVE  Ascending(d)' /\ YieldsInOrder(d)
  BY <1>2 DEF Ascending, YieldsInOrder
<1>3. CASE SequencerStep \/ Emit \/ RowsAge \/ UNCHANGED vars
  <2>1. UNCHANGED <<phase, seen, rows>>
    BY <1>3 DEF SequencerStep, Emit, RowsAge, vars, outboxVars, connVars
  <2> QED
    BY <1>1, <2>1
<1>4. CASE Restart
  BY <1>2, <1>4 DEF Restart, Close
<1>5. ASSUME NEW c \in Clients, Connect(c) \/ Backfill(c) \/ Cutover(c) \/ Stream(c) \/ Disconnect(c)
      PROVE  Ascending(d)' /\ YieldsInOrder(d)
  <2>1. CASE c # d
    BY <1>1, <1>5, <2>1, OthersUnmoved
  <2>2. CASE c = d
    <3>0. /\ phase \in [Clients -> Phases] /\ seen \in [Clients -> None .. Len(evt)]
          /\ outBuffer[d] \in Seq(Nat)
      BY ConnTypes DEF TypeOK
    <3>1. CASE Connect(d)
      <4>1. seen' = seen /\ phase'[d] # "yielding"
        <5>1. CASE ConnectTail(d) \/ ConnectBackfill(d) \/ ConnectOutdated(d)
          BY <3>0, <5>1 DEF ConnectTail, ConnectBackfill, ConnectOutdated, Open
        <5>2. CASE StartInWindow(d) \/ StartAfterWindow(d) \/ AttachTail(d)
          BY <3>0, <5>2 DEF StartInWindow, StartAfterWindow, AttachTail, Open
        <5> QED
          BY <3>1, <5>1, <5>2 DEF Connect
      <4> QED
        BY <4>1 DEF Ascending, YieldsInOrder
    <3>2. CASE Cutover(d) \/ StreamSkip(d)
      <4>1. seen' = seen /\ phase'[d] # "yielding"
        BY <3>0, <3>2 DEF Cutover, CutoverQuery, CutoverPush, StreamSkip
      <4> QED
        BY <4>1 DEF Ascending, YieldsInOrder
    <3>3. CASE StreamYield(d)
      <4>1. seen'[d] > seen[d] /\ phase'[d] = "streaming"
        BY <3>0, <3>3 DEF StreamYield, Yield
      <4> QED
        BY <4>1 DEF Ascending, YieldsInOrder
    <3>4. CASE ConsumerTooSlow(d) \/ Disconnect(d)
      BY <1>2, <3>4 DEF ConsumerTooSlow, Disconnect, Close
    <3> QED
      BY <1>5, <2>2, <3>1, <3>2, <3>3, <3>4, BackfillOrder DEF Stream
  <2> QED
    BY <2>1, <2>2
<1> QED
  BY <1>3, <1>4, <1>5 DEF Next

(* "We then dedupe the query & the buffer & stream the events in order":   *)
(* the numbers one connection yields increase, over the pages, the cutover *)
(* and the stream, in whatever order polls and queries see the rows.       *)
THEOREM OrderedCorrect == Spec => OrderedWithinConnection
<1> DEFINE AllAscending == \A c \in Clients : Ascending(c)
           AllInOrder == \A c \in Clients : YieldsInOrder(c)
<1>1. Init => AllAscending
  BY DEF Init, OutboxInit, Ascending
<1>2. TypeOK /\ AllAscending /\ [Next]_vars => AllAscending' /\ AllInOrder
  BY OrderStep
<1>3. AllInOrder => \A c \in Clients :
        phase'[c] # "closed" /\ seen'[c] # seen[c] => seen'[c] > seen[c]
  BY DEF YieldsInOrder
<1> QED
  BY <1>1, <1>2, <1>3, TypeCorrect, PTL DEF Spec, OrderedWithinConnection

----------------------------------------------------------------------------
(* The promise.                                                            *)

ClientStep(c) == Promise!MovePromise(c) \/ \E s \in 1 .. Len(evt) : Promise!Receive(c, s)

(* A sequencer step appends to the log or purges it, or changes neither.   *)
LEMMA PromiseLog ==
  ASSUME SequencerTypeOK, SequencerStep
  PROVE  Promise!Append \/ Promise!Purge
<1>1. UNCHANGED <<cursor, floor, sent>>
  BY DEF SequencerStep, outboxVars, clientVars
<1>2. CASE \E d \in Dids : Sequence(d)
  <2>1. PICK batch \in Seq(Events) : SequenceEvts(batch)
    BY <1>2, SequenceInserts
  <2>2. /\ Len(evt) \in Nat /\ Len(batch) \in Nat /\ evt \in Seq(Events)
        /\ evt' = evt \o batch /\ log' = log \cup (Len(evt) + 1 .. Len(evt) + Len(batch))
    BY <2>1 DEF SequencerTypeOK, SequenceEvts
  <2>3. Len(evt') = Len(evt) + Len(batch)
    BY <2>2
  <2>4. CASE Len(batch) = 0
    BY <1>1, <2>2, <2>3, <2>4 DEF Promise!Purge
  <2>5. CASE Len(batch) # 0
    BY <1>1, <2>2, <2>3, <2>5 DEF Promise!Append
  <2> QED
    BY <2>4, <2>5
<1>3. CASE PollQuery \/ \E s \in deleting : PurgeDeletedAccount(s) \/ PurgeFails(s)
  <2>1. evt' = evt /\ log' \subseteq log
    BY <1>3 DEF PollQuery, PurgeDeletedAccount, PurgeFails
  <2> QED
    BY <1>1, <2>1 DEF Promise!Purge
<1> QED
  BY <1>2, <1>3 DEF SequencerStep

(* A connection tells the client a point; it hides no gap.                 *)
LEMMA PromiseConnect ==
  ASSUME NoGapInv, NEW c \in Clients, Connect(c)
  PROVE  ClientStep(c) \/ UNCHANGED <<Len(evt), log, cursor, floor, sent>>
<1>1. /\ TypeOK /\ ConnectionInv(c) /\ floor \in [Clients -> 0 .. Len(evt)]
  BY DEF NoGapInv, TypeOK
<1>2. /\ Len(evt) \in Nat /\ log \subseteq Nat /\ lastSeen \in Nat
      /\ cursor[c] \in None .. Len(evt) /\ floor[c] \in Nat /\ start[c] \in None .. Len(evt)
  BY <1>1, ConnTypes
<1>3. ASSUME NEW n \in Int, floor' = [floor EXCEPT ![c] = n], n >= cursor[c] \/ n >= floor[c],
             UNCHANGED <<seqVars, cursor, sent>>
      PROVE  Promise!MovePromise(c)
  BY <1>1, <1>3 DEF Promise!MovePromise, seqVars
<1>4. CASE ConnectTail(c)
  <2>1. PICK n \in Int : n = lastSeen
    BY <1>2
  <2>2. floor' = [floor EXCEPT ![c] = n] /\ UNCHANGED <<seqVars, cursor, sent>>
    BY <1>4, <2>1 DEF ConnectTail
  <2>3. n >= cursor[c]
    BY <1>2, <1>4, <2>1 DEF ConnectTail, None
  <2> QED
    BY <1>3, <2>2, <2>3 DEF ClientStep
<1>5. CASE ConnectBackfill(c)
  <2>1. PICK n : n = IF floor[c] < cursor[c] THEN floor[c] ELSE cursor[c]
    OBVIOUS
  <2>2. floor' = [floor EXCEPT ![c] = n] /\ UNCHANGED <<seqVars, cursor, sent>>
    BY <1>5, <2>1 DEF ConnectBackfill
  <2>3. n \in Int /\ (n >= cursor[c] \/ n >= floor[c])
    BY <1>2, <2>1 DEF None
  <2> QED
    BY <1>3, <2>2, <2>3 DEF ClientStep
<1>6. CASE StartInWindow(c)
  <2>1. PICK s \in Above(start[c]) : floor' = [floor EXCEPT ![c] = s - 1]
    BY <1>6 DEF StartInWindow
  <2>2. s \in Nat /\ s > start[c] /\ phase[c] = "outdated" /\ UNCHANGED <<seqVars, cursor, sent>>
    BY <1>2, <1>6 DEF StartInWindow, Above
  <2>3. cursor[c] < start[c]
    BY <1>1, <2>2 DEF ConnectionInv
  <2>4. s - 1 \in Int /\ s - 1 >= cursor[c]
    BY <1>2, <2>2, <2>3 DEF None
  <2> QED
    BY <1>3, <2>1, <2>2, <2>4 DEF ClientStep
<1>7. CASE AttachTail(c)
  <2>1. PICK n : n = IF floor[c] < lastSeen THEN lastSeen ELSE floor[c]
    OBVIOUS
  <2>2. floor' = [floor EXCEPT ![c] = n] /\ UNCHANGED <<seqVars, cursor, sent>>
    BY <1>7, <2>1 DEF AttachTail
  <2>3. n \in Int /\ n >= floor[c]
    BY <1>2, <2>1
  <2> QED
    BY <1>3, <2>2, <2>3 DEF ClientStep
<1>8. CASE ConnectOutdated(c) \/ StartAfterWindow(c)
  BY <1>8 DEF ConnectOutdated, StartAfterWindow, seqVars, clientVars
<1> QED
  BY <1>4, <1>5, <1>6, <1>7, <1>8 DEF Connect

(* What is yielded has been waited for: nothing before it is outstanding.  *)
LEMMA PromiseYield ==
  ASSUME NoGapInv, NEW c \in Clients, BackfillYield(c) \/ StreamYield(c)
  PROVE  ClientStep(c)
<1>1. TypeOK /\ ConnectionInv(c)
  BY DEF NoGapInv
<1>2. PICK q : q = IF BackfillYield(c) THEN rows[c] ELSE outBuffer[c]
  OBVIOUS
<1>3. q \in Seq(1 .. Len(evt)) /\ Len(evt) \in Nat
  BY <1>1, <1>2, ConnTypes
<1>4. /\ q # <<>> /\ NothingSkipped(c, q) /\ Yield(c, Head(q)) /\ floor' = floor
      /\ UNCHANGED seqVars
  <2>1. CASE BackfillYield(c)
    BY <1>1, <1>2, <2>1 DEF BackfillYield, ConnectionInv
  <2>2. CASE ~BackfillYield(c)
    BY <1>1, <1>2, <2>2 DEF StreamYield, ConnectionInv
  <2> QED
    BY <2>1, <2>2
<1>5. PICK s : s = Head(q)
  OBVIOUS
<1>6. /\ s \in 1 .. Len(evt) /\ 1 \in DOMAIN q /\ q[1] = s
      /\ \A j \in DOMAIN q : ~(j < 1)
  BY <1>3, <1>4, <1>5
<1>7. \A r \in log : floor[c] < r /\ r < s => r \in sent[c]
  BY <1>4, <1>6 DEF NothingSkipped
<1>8. Promise!Receive(c, s)
  BY <1>4, <1>5, <1>7 DEF Yield, Promise!Receive, seqVars
<1> QED
  BY <1>6, <1>8 DEF ClientStep

LEMMA PromiseStep ==
  ASSUME NoGapInv, [Next]_vars
  PROVE  Promise!Next \/ UNCHANGED <<Len(evt), log, cursor, floor, sent>>
<1>1. CASE SequencerStep
  BY <1>1, PromiseLog DEF NoGapInv, TypeOK, Promise!Next
<1>2. CASE Emit \/ RowsAge \/ Restart \/ UNCHANGED vars
  <2>1. UNCHANGED <<evt, log, cursor, floor, sent>>
    BY <1>2 DEF Emit, PollEmit, RowsAge, Restart, SequencerRestart, Close, vars, seqVars,
           outboxVars, clientVars
  <2> QED
    BY <2>1
<1>3. ASSUME NEW c \in Clients, Connect(c) \/ Backfill(c) \/ Cutover(c) \/ Stream(c) \/ Disconnect(c)
      PROVE  ClientStep(c) \/ UNCHANGED <<Len(evt), log, cursor, floor, sent>>
  <2>1. CASE PageQuery(c) \/ BackfillPageDone(c) \/ Attach(c) \/ Cutover(c)
    BY <2>1 DEF PageQuery, BackfillPageDone, Attach, Cutover, CutoverQuery, CutoverPush, seqVars,
           clientVars
  <2>2. CASE StreamSkip(c) \/ ConsumerTooSlow(c) \/ Disconnect(c)
    BY <2>2 DEF StreamSkip, ConsumerTooSlow, Disconnect, Close, seqVars, clientVars
  <2> QED
    BY <1>3, <2>1, <2>2, PromiseConnect, PromiseYield DEF Backfill, Stream
<1>4. ASSUME NEW c \in Clients, ClientStep(c) PROVE Promise!Next
  BY <1>4 DEF ClientStep, Promise!Next
<1> QED
  BY <1>1, <1>2, <1>3, <1>4 DEF Next

(* The firehose keeps FirehosePromise, but for its liveness: a client is   *)
(* told a starting point that hides no gap, and then receives no event     *)
(* for the first time before one of the log with a smaller number.         *)
THEOREM PromiseCorrect == Spec => Promise!Init /\ [][Promise!Next]_(Promise!vars)
<1>1. Init => Promise!Init
  BY DEF Init, SequencerInit, OutboxInit, Promise!Init, None
<1>2. NoGapInv /\ [Next]_vars => [Promise!Next]_(Promise!vars)
  BY PromiseStep DEF Promise!vars
<1> QED
  BY <1>1, <1>2, NoGapInvCorrect, PTL DEF Spec
=============================================================================
