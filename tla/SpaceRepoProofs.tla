-------------------------- MODULE SpaceRepoProofs --------------------------
(***************************************************************************)
(* Proofs about SpaceRepo: the set hash is that of the records, the        *)
(* operation log replays to them, a complete copy has every value, and     *)
(* what the consumer accepts is a commit of the host.                      *)
(*                                                                         *)
(* The induction over the operations of a log is one over their places: a  *)
(* set of natural numbers that is not empty has a least one.               *)
(***************************************************************************)
EXTENDS SpaceRepo, FiniteSetTheorems, SequenceTheorems, WellFoundedInduction, TLAPS

MaybeCids == Cids \cup {NoCid}
PageOps   == [path : Paths, cid : MaybeCids, prev : MaybeCids, value : BOOLEAN]

----------------------------------------------------------------------------
(* The least element of a set of numbers.                                  *)

LEMMA Least ==
  ASSUME NEW T, T \subseteq Nat, T # {}
  PROVE  \E m \in T : \A n \in T : m <= n
<1> DEFINE R == OpToRel(<, Nat)
<1>1. IsWellFoundedOn(R, Nat)
  BY NatLessThanWellFounded
<1>2. \A x, y \in Nat : <<y, x>> \in R <=> y < x
  BY DEF OpToRel
<1> HIDE DEF R
<1>3. PICK m \in T : \A n \in T : ~ (<<n, m>> \in R)
  BY <1>1, WFMin
<1>4. \A n \in T : ~ (n < m)
  BY <1>2, <1>3
<1> QED
  BY <1>4

(* Numbers out of 1 .. n are at most n.                                    *)
LEMMA CountBound ==
  ASSUME NEW n \in Nat, NEW S, S \subseteq 1 .. n
  PROVE  Cardinality(S) \in 0 .. n
<1>1. IsFiniteSet(1 .. n) /\ Cardinality(1 .. n) = n
  BY FS_Interval
<1>2. IsFiniteSet(S) /\ Cardinality(S) <= Cardinality(1 .. n)
  BY <1>1, FS_Subset
<1>3. Cardinality(S) \in Nat
  BY <1>2, FS_CardinalityType
<1> QED
  BY <1>1, <1>2, <1>3

LEMMA CountAll == ASSUME NEW n \in Nat PROVE Cardinality(1 .. n) = n
  BY FS_Interval

----------------------------------------------------------------------------
(* What the operations of a sequence lead to.                              *)

(* Operations: those of the log, of the open transaction or of a page.     *)
AreOps(s) ==
  /\ Len(s) \in Nat
  /\ \A i \in 1 .. Len(s) : s[i].path \in Paths /\ s[i].cid \in MaybeCids

(* The records x with one operation.                                       *)
Does(x, op) == [x EXCEPT ![op.path] = op.cid]

(* after is what the first n operations of s lead to from r.               *)
Leads(after, r, s, n) ==
  /\ after \in [0 .. n -> Contents]
  /\ after[0] = r
  /\ \A i \in 1 .. n : after[i] = [after[i - 1] EXCEPT ![s[i].path] = s[i].cid]

LEMMA LeadsExists ==
  ASSUME NEW r \in Contents, NEW s, AreOps(s)
  PROVE  \A n \in 0 .. Len(s) : \E after : Leads(after, r, s, n)
<1> DEFINE Bad == {n \in 0 .. Len(s) : ~ \E after : Leads(after, r, s, n)}
<1>1. CASE Bad = {}
  BY <1>1
<1>2. CASE Bad # {}
  <2>0. Bad \subseteq Nat
    BY DEF AreOps
  <2>1. PICK n \in Bad : \A k \in Bad : n <= k
    BY <1>2, <2>0, Least
  <2>2. n \in 0 .. Len(s) /\ Len(s) \in Nat
    BY DEF AreOps
  <2>3. CASE n = 0
    <3>1. Leads([i \in 0 .. 0 |-> r], r, s, 0)
      BY DEF Leads
    <3> QED
      BY <3>1, <2>3
  <2>4. CASE n # 0
    <3>1. n - 1 \in 0 .. Len(s) /\ n - 1 \notin Bad /\ n \in 1 .. Len(s)
      BY <2>1, <2>2, <2>4
    <3>2. PICK before : Leads(before, r, s, n - 1)
      BY <3>1
    <3> DEFINE step  == [before[n - 1] EXCEPT ![s[n].path] = s[n].cid]
               after == [i \in 0 .. n |-> IF i = n THEN step ELSE before[i]]
    <3>3. before[n - 1] \in Contents
      BY <3>1, <3>2 DEF Leads
    <3>4. s[n].path \in Paths /\ s[n].cid \in MaybeCids
      BY <3>1 DEF AreOps
    <3>5. step \in Contents
      BY <3>3, <3>4 DEF Contents, MaybeCids
    <3>6. \A i \in 0 .. n - 1 : before[i] \in Contents
      BY <3>1, <3>2 DEF Leads
    <3> HIDE DEF step
    <3>7. after \in [0 .. n -> Contents]
      BY <3>1, <3>5, <3>6
    <3>8. after[0] = r
      BY <3>1, <3>2 DEF Leads
    <3>9. \A i \in 1 .. n : after[i] = [after[i - 1] EXCEPT ![s[i].path] = s[i].cid]
      <4>1. TAKE i \in 1 .. n
      <4>2. CASE i = n
        <5>1. after[n] = step /\ after[n - 1] = before[n - 1]
          BY <3>1
        <5> QED
          BY <5>1, <4>2 DEF step
      <4>3. CASE i # n
        <5>1. i \in 1 .. n - 1 /\ after[i] = before[i] /\ after[i - 1] = before[i - 1]
          BY <3>1, <4>3
        <5> QED
          BY <5>1, <3>2 DEF Leads
      <4> QED
        BY <4>2, <4>3
    <3>10. Leads(after, r, s, n)
      BY <3>7, <3>8, <3>9 DEF Leads
    <3> QED
      BY <3>10
  <2> QED
    BY <2>3, <2>4
<1> QED
  BY <1>1, <1>2

(* States as the code folds it: the state before, with one operation.      *)
LEMMA StatesLead ==
  ASSUME NEW r \in Contents, NEW s, AreOps(s)
  PROVE  Leads(States(r, s), r, s, Len(s))
<1> DEFINE after[i \in 0 .. Len(s)] ==
      IF i = 0 THEN r ELSE [after[i - 1] EXCEPT ![s[i].path] = s[i].cid]
<1>1. PICK S : Leads(S, r, s, Len(s))
  BY LeadsExists DEF AreOps
<1>2. Len(s) \in Nat
  BY DEF AreOps
<1>3. S = [i \in 0 .. Len(s) |->
        IF i = 0 THEN r ELSE [S[i - 1] EXCEPT ![s[i].path] = s[i].cid]]
  <2>1. \A i \in 0 .. Len(s) :
          S[i] = IF i = 0 THEN r ELSE [S[i - 1] EXCEPT ![s[i].path] = s[i].cid]
    <3>1. TAKE i \in 0 .. Len(s)
    <3>2. CASE i = 0
      BY <1>1, <3>2 DEF Leads
    <3>3. CASE i # 0
      <4>1. i \in 1 .. Len(s)
        BY <1>2, <3>3
      <4>2. S[i] = [S[i - 1] EXCEPT ![s[i].path] = s[i].cid]
        BY <1>1, <4>1 DEF Leads
      <4> QED
        BY <3>3, <4>2
    <3> QED
      BY <3>2, <3>3
  <2>2. S = [i \in 0 .. Len(s) |-> S[i]]
    BY <1>1 DEF Leads
  <2> QED
    BY <2>1, <2>2, Zenon
<1>4. after = [i \in 0 .. Len(s) |->
        IF i = 0 THEN r ELSE [after[i - 1] EXCEPT ![s[i].path] = s[i].cid]]
  BY <1>3
<1>5. States(r, s) = after
  BY DEF States
<1> HIDE DEF after
<1> DEFINE Bad == {i \in 0 .. Len(s) : after[i] # S[i]}
<1>6. Bad = {}
  <2>1. SUFFICES ASSUME Bad # {} PROVE FALSE
    OBVIOUS
  <2>2. Bad \subseteq Nat
    BY <1>2
  <2>3. PICK n \in Bad : \A k \in Bad : n <= k
    BY <2>1, <2>2, Least
  <2>4. after[0] = S[0]
    BY <1>1, <1>2, <1>4 DEF Leads
  <2>5. n \in 1 .. Len(s) /\ n - 1 \in 0 .. Len(s)
    BY <1>2, <2>3, <2>4
  <2>6. n - 1 \notin Bad
    BY <2>3, <2>5
  <2>7. after[n - 1] = S[n - 1]
    BY <2>5, <2>6
  <2>8. after[n] = [after[n - 1] EXCEPT ![s[n].path] = s[n].cid]
    <3>1. n \in 0 .. Len(s) /\ n # 0
      BY <2>5
    <3>2. after[n] = IF n = 0 THEN r ELSE [after[n - 1] EXCEPT ![s[n].path] = s[n].cid]
      BY <1>4, <3>1, Zenon
    <3> QED
      BY <3>1, <3>2
  <2>9. S[n] = [S[n - 1] EXCEPT ![s[n].path] = s[n].cid]
    BY <1>1, <2>5 DEF Leads
  <2> QED
    BY <2>3, <2>7, <2>8, <2>9
<1>7. after = S
  <2>1. \A i \in 0 .. Len(s) : after[i] = S[i]
    BY <1>6
  <2>2. after = [i \in 0 .. Len(s) |-> after[i]]
    <3>1. \A i \in 0 .. Len(s) :
            after[i] = IF i = 0 THEN r ELSE [after[i - 1] EXCEPT ![s[i].path] = s[i].cid]
      BY <1>4, Zenon
    <3> QED
      BY <1>4, <3>1, Zenon
  <2>3. S = [i \in 0 .. Len(s) |-> S[i]]
    BY <1>1 DEF Leads
  <2> HIDE DEF Bad
  <2> QED
    BY <2>1, <2>2, <2>3, Zenon
<1> QED
  BY <1>1, <1>5, <1>7

(* The first n operations of t are those of s after the kth.               *)
Part(t, s, k, n) ==
  /\ k \in Nat /\ n \in Nat /\ k + n <= Len(s) /\ n <= Len(t)
  /\ \A i \in 1 .. n : t[i].path = s[k + i].path /\ t[i].cid = s[k + i].cid

(* A part of a sequence leads along what the whole of it leads to.         *)
LEMMA Along ==
  ASSUME NEW r \in Contents, NEW s, AreOps(s), NEW q \in Contents, NEW t, AreOps(t),
         NEW k, NEW n, Part(t, s, k, n), States(r, s)[k] = q
  PROVE  \A i \in 0 .. n : States(q, t)[i] = States(r, s)[k + i]
<1>0. /\ k \in Nat /\ n \in Nat /\ k + n <= Len(s) /\ n <= Len(t)
      /\ \A i \in 1 .. n : t[i].path = s[k + i].path /\ t[i].cid = s[k + i].cid
  BY DEF Part
<1> DEFINE S == States(r, s)
           Q == States(q, t)
<1>1. Leads(S, r, s, Len(s)) /\ Leads(Q, q, t, Len(t))
  BY StatesLead
<1>2. Len(s) \in Nat /\ Len(t) \in Nat
  BY DEF AreOps
<1>3. S[k] = q
  OBVIOUS
<1> HIDE DEF S, Q
<1> DEFINE Bad == {i \in 0 .. n : Q[i] # S[k + i]}
<1>4. Bad = {}
  <2>1. SUFFICES ASSUME Bad # {} PROVE FALSE
    OBVIOUS
  <2>2. Bad \subseteq Nat
    BY <1>0
  <2>3. PICK m \in Bad : \A j \in Bad : m <= j
    BY <2>1, <2>2, Least
  <2>4. Q[0] = S[k + 0]
    BY <1>0, <1>1, <1>3 DEF Leads
  <2>13. m \in 0 .. n /\ Q[m] # S[k + m]
    BY <2>3
  <2>14. m # 0
    BY <2>4, <2>13, Zenon
  <2>5. m \in 1 .. n /\ m - 1 \in 0 .. n /\ k + m \in 1 .. Len(s) /\ m \in 1 .. Len(t)
    BY <1>0, <1>2, <2>13, <2>14
  <2>6. m - 1 \notin Bad
    BY <2>3, <2>5
  <2>7. Q[m - 1] = S[k + (m - 1)]
    <3>1. \A i \in 0 .. n : i \notin Bad => Q[i] = S[k + i]
      OBVIOUS
    <3> HIDE DEF Bad
    <3> QED
      BY <2>5, <2>6, <3>1
  <2>11. k + (m - 1) = (k + m) - 1
    BY <1>0, <2>5
  <2>8. Q[m] = [Q[m - 1] EXCEPT ![t[m].path] = t[m].cid]
    BY <1>1, <2>5 DEF Leads
  <2>9. S[k + m] = [S[(k + m) - 1] EXCEPT ![s[k + m].path] = s[k + m].cid]
    BY <1>1, <2>5 DEF Leads
  <2>10. t[m].path = s[k + m].path /\ t[m].cid = s[k + m].cid
    BY <1>0, <2>5
  <2>12. Q[m] = S[k + m]
    BY <2>7, <2>8, <2>9, <2>10, <2>11, Zenon
  <2> QED
    BY <2>3, <2>12
<1> QED
  BY <1>4 DEF S, Q

(* What no operation after the kth is about stays as the kth left it.      *)
LEMMA Untouched ==
  ASSUME NEW r \in Contents, NEW s, AreOps(s), NEW k \in 0 .. Len(s), NEW p \in Paths,
         \A j \in k + 1 .. Len(s) : s[j].path # p
  PROVE  States(r, s)[Len(s)][p] = States(r, s)[k][p]
<1> DEFINE S == States(r, s)
<1>1. Leads(S, r, s, Len(s))
  BY StatesLead
<1>2. Len(s) \in Nat /\ k \in Nat
  BY DEF AreOps
<1> HIDE DEF S
<1> DEFINE Bad == {j \in k .. Len(s) : S[j][p] # S[k][p]}
<1>3. Bad = {}
  <2>1. SUFFICES ASSUME Bad # {} PROVE FALSE
    OBVIOUS
  <2>2. Bad \subseteq Nat
    BY <1>2
  <2>3. PICK m \in Bad : \A j \in Bad : m <= j
    BY <2>1, <2>2, Least
  <2>4. m \in k + 1 .. Len(s) /\ m - 1 \in k .. Len(s) /\ m \in 1 .. Len(s)
    BY <1>2, <2>3
  <2>5. S[m - 1][p] = S[k][p]
    BY <2>3, <2>4
  <2>6. S[m] = [S[m - 1] EXCEPT ![s[m].path] = s[m].cid]
    BY <1>1, <2>4 DEF Leads
  <2>7. S[m - 1] \in Contents
    BY <1>1, <2>4 DEF Leads
  <2>8. S[m][p] = S[m - 1][p]
    BY <2>4, <2>6, <2>7 DEF Contents
  <2> QED
    BY <2>3, <2>5, <2>8
<1> QED
  BY <1>2, <1>3 DEF S

----------------------------------------------------------------------------
(* The set hash of a set of records.                                       *)

LEMMA HashOfIsHash == ASSUME NEW r \in Contents PROVE HashOf(r) \in Hashes
  BY DEF HashOf, Hashes

LEMMA ApplyOpIsHash ==
  ASSUME NEW h \in Hashes, NEW p \in Paths, NEW c \in MaybeCids, NEW prev \in MaybeCids
  PROVE  ApplyOp(h, p, c, prev) \in Hashes
<1>1. HashRemove(h, p, prev) \in Hashes
  BY DEF HashRemove, Hashes, MaybeCids
<1> QED
  BY <1>1 DEF ApplyOp, HashAdd, Hashes, MaybeCids

(* applyOp, told what was there before, keeps the hash that of the records.*)
LEMMA ApplyOpKeepsHash ==
  ASSUME NEW r \in Contents, NEW p \in Paths, NEW c \in MaybeCids
  PROVE  ApplyOp(HashOf(r), p, c, r[p]) = HashOf([r EXCEPT ![p] = c])
<1> DEFINE h    == HashRemove(HashOf(r), p, r[p])
           next == [r EXCEPT ![p] = c]
<1>0. NoCid \notin Cids /\ r[p] \in MaybeCids
  BY SpaceAssumption DEF Contents, MaybeCids
<1>1. next \in Contents /\ next[p] = c /\ \A q \in Paths \ {p} : next[q] = r[q]
  BY DEF Contents, MaybeCids
<1>2. h = [e \in Paths \X Cids |-> IF e[1] = p THEN 0 ELSE HashOf(r)[e]]
  <2>1. CASE r[p] = NoCid
    BY <1>0, <2>1 DEF HashRemove, HashOf
  <2>2. CASE r[p] # NoCid
    <3>1. r[p] \in Cids
      BY <1>0, <2>2 DEF MaybeCids
    <3>2. \A e \in Paths \X Cids :
            e[1] = p => HashOf(r)[e] = IF e = <<p, r[p]>> THEN 1 ELSE 0
      BY <3>1 DEF HashOf
    <3>3. h = [HashOf(r) EXCEPT ![<<p, r[p]>>] = @ - 1]
      BY <2>2 DEF HashRemove
    <3> DEFINE g == HashOf(r)
    <3>6. g \in Hashes
      BY HashOfIsHash
    <3>7. h = [g EXCEPT ![<<p, r[p]>>] = @ - 1]
      BY <3>3
    <3>8. \A e \in Paths \X Cids :
            e[1] = p => g[e] = IF e = <<p, r[p]>> THEN 1 ELSE 0
      BY <3>2
    <3> HIDE DEF h, g
    <3>4. h \in Hashes
      BY <3>1, <3>6, <3>7 DEF Hashes
    <3>9. \A e \in Paths \X Cids : h[e] = IF e = <<p, r[p]>> THEN g[e] - 1 ELSE g[e]
      BY <3>1, <3>6, <3>7 DEF Hashes
    <3>5. \A e \in Paths \X Cids : h[e] = IF e[1] = p THEN 0 ELSE HashOf(r)[e]
      BY <3>8, <3>9 DEF g
    <3> QED
      BY <3>4, <3>5 DEF Hashes
  <2> QED
    BY <2>1, <2>2
<1>3. ApplyOp(HashOf(r), p, c, r[p]) = HashAdd(h, p, c)
  BY DEF ApplyOp
<1> HIDE DEF h, next
<1>4. \A e \in Paths \X Cids : HashAdd(h, p, c)[e] = IF next[e[1]] = e[2] THEN 1 ELSE 0
  <2>1. CASE c = NoCid
    BY <1>0, <1>1, <1>2, <2>1 DEF HashAdd, HashOf
  <2>2. CASE c # NoCid
    <3>1. c \in Cids
      BY <2>2 DEF MaybeCids
    <3>2. HashAdd(h, p, c) = [h EXCEPT ![<<p, c>>] = @ + 1]
      BY <2>2 DEF HashAdd
    <3>3. TAKE e \in Paths \X Cids
    <3>7. h \in Hashes
      BY <1>2, HashOfIsHash DEF Hashes
    <3>8. HashAdd(h, p, c)[e] = IF e = <<p, c>> THEN h[e] + 1 ELSE h[e]
      BY <3>1, <3>2, <3>7 DEF Hashes
    <3>4. CASE e = <<p, c>>
      <4>1. h[e] = 0
        BY <1>2, <3>1, <3>4
      <4> QED
        BY <1>1, <3>1, <3>4, <3>8, <4>1
    <3>5. CASE e # <<p, c>> /\ e[1] = p
      <4>1. h[e] = 0 /\ e[2] # c
        BY <1>2, <3>5
      <4> QED
        BY <1>1, <3>5, <3>8, <4>1
    <3>6. CASE e[1] # p
      <4>1. h[e] = HashOf(r)[e] /\ e # <<p, c>>
        BY <1>2, <3>6
      <4>2. next[e[1]] = r[e[1]]
        BY <1>1, <3>6
      <4> QED
        BY <3>8, <4>1, <4>2 DEF HashOf
    <3> QED
      BY <3>4, <3>5, <3>6
  <2> QED
    BY <2>1, <2>2
<1>5. HashAdd(h, p, c) = [e \in Paths \X Cids |-> HashAdd(h, p, c)[e]]
  BY <1>2 DEF HashAdd
<1> QED
  BY <1>3, <1>4, <1>5 DEF HashOf, next

(* Two sets of records with one hash are one.                              *)
LEMMA HashTellsApart ==
  ASSUME NEW r \in Contents, NEW q \in Contents, HashOf(r) = HashOf(q)
  PROVE  r = q
<1>1. ASSUME NEW x \in Contents, NEW y \in Contents, HashOf(x) = HashOf(y),
             NEW p \in Paths, x[p] # NoCid
      PROVE  x[p] = y[p]
  <2>1. x[p] \in Cids
    BY <1>1 DEF Contents
  <2>2. HashOf(x)[<<p, x[p]>>] = 1
    BY <2>1 DEF HashOf
  <2>3. HashOf(y)[<<p, x[p]>>] = IF y[p] = x[p] THEN 1 ELSE 0
    BY <2>1 DEF HashOf
  <2> QED
    BY <1>1, <2>2, <2>3
<1>2. \A p \in Paths : r[p] = q[p]
  BY <1>1
<1> QED
  BY <1>2 DEF Contents

----------------------------------------------------------------------------
(* The inductive invariant.                                                *)

(* The host's types; the operations of the log and of the open transaction *)
(* have the revision and the indexes of their batch.                       *)
StoreTypes ==
  /\ space \in {"none", "live", "deleted"}
  /\ records \in Contents /\ txRecords \in Contents
  /\ setHash \in Hashes /\ txHash \in Hashes
  /\ deletes \in Nat /\ aborts \in Nat
  /\ commits \in Seq([life : Nat, records : Contents])
  /\ \A r \in 1 .. Len(commits) : commits[r].life <= deletes
  /\ rev \in 0 .. Len(commits)
  /\ todo \in Seq(Writes) /\ txOps \in Seq(Ops) /\ Len(txOps) + Len(todo) <= MaxIdx
  /\ \A i \in 1 .. Len(txOps) : txOps[i].rev = Len(commits) + 1 /\ txOps[i].idx = i - 1
  /\ oplog \in Seq(Ops)
  /\ \A i \in 1 .. Len(oplog) : oplog[i].rev <= Len(commits) /\ oplog[i].idx <= MaxIdx

(* The log is in the order of its revisions and indexes.                   *)
OrderOK ==
  \A i, j \in 1 .. Len(oplog) : i < j =>
    \/ oplog[i].rev < oplog[j].rev
    \/ oplog[i].rev = oplog[j].rev /\ oplog[i].idx < oplog[j].idx

(* The consumer's types.                                                   *)
SyncTypes ==
  /\ mode \in {"idle", "full", "ops", "commit", "apply"}
  /\ commit \in [rev : 0 .. Len(commits), hash : Hashes]
  /\ streamed \in Int /\ cursor \in (0 .. Len(commits)) \X Nat
  /\ page \in Seq(PageOps) /\ last \in BOOLEAN
  /\ seen \in Contents /\ seenHash \in Hashes /\ blank \subseteq Paths
  /\ begun \in 0 .. deletes
  /\ at \in 0 .. Len(commits) /\ have \in Contents /\ refused \in BOOLEAN

(* The set hash is that of the records, in the tables and in the open      *)
(* transaction.                                                            *)
HashOK == HashIsRecords /\ (InTransaction => txHash = HashOf(txRecords))

(* The state is that of the last commit, or nothing was committed since    *)
(* the space was created.                                                  *)
RevOK ==
  \/ /\ rev = Len(commits) /\ rev # 0
     /\ commits[rev].life = deletes /\ commits[rev].records = records
  \/ /\ rev = 0 /\ records = NoRecords /\ oplog = <<>>
     /\ \A r \in 1 .. Len(commits) : commits[r].life < deletes

Logged == States(NoRecords, oplog)

(* The log goes through every commit since the space was created, and each *)
(* operation knows what was there before it.                               *)
LogOK ==
  /\ \A i \in 1 .. Len(oplog) : oplog[i].prev = Logged[i - 1][oplog[i].path]
  /\ Logged[Len(oplog)] = records
  /\ \A r \in 1 .. Len(commits) :
       commits[r].life = deletes => Logged[UpTo(r)] = commits[r].records

(* So do the operations of the open transaction.                           *)
TxOK ==
  InTransaction =>
    /\ \A i \in 1 .. Len(txOps) : txOps[i].prev = States(records, txOps)[i - 1][txOps[i].path]
    /\ States(records, txOps)[Len(txOps)] = txRecords

(* The commit an answer came with is one of the host's, and none before    *)
(* the copy.                                                               *)
ModesOK ==
  /\ last => mode = "apply"
  /\ mode \in {"idle", "full", "ops"} => page = <<>>
  /\ mode \in {"ops", "commit", "apply"} => at # 0
  /\ mode = "full" \/ last =>
       /\ commit.rev # 0 /\ at <= commit.rev
       /\ commit.hash = HashOf(commits[commit.rev].records)

(* What comes of an archive is folded as it comes.                         *)
ArchiveOK ==
  mode = "full" =>
    /\ blank = {} /\ seenHash = HashOf(seen)
    /\ \A p \in Paths : streamed < p => seen[p] = NoCid

(* The copy is a commit of the life the operations are of.                 *)
CleanBase ==
  /\ mode \in {"ops", "commit", "apply"}
  /\ have = commits[at].records
  /\ commits[at].life = IF last THEN commits[commit.rev].life ELSE deletes

(* On top of such a copy the operations lead along the log.                *)
CopyOK ==
  CleanBase =>
    /\ seenHash = HashOf(seen)
    /\ \A i \in 1 .. Len(page) : page[i].prev = States(seen, page)[i - 1][page[i].path]
    /\ ~last => States(seen, page)[Len(page)] = Logged[Received]

Pending == mode = "ops" \/ (mode = "apply" /\ ~last)

Coming(p) == Pending /\ \E j \in Received + 1 .. Len(oplog) : oplog[j].path = p

(* A record without its value has a later operation in the page, or one is *)
(* still to be asked for.                                                  *)
BlankOK ==
  mode \in {"ops", "commit", "apply"} /\ begun = deletes =>
    /\ \A p \in blank : (\E j \in 1 .. Len(page) : page[j].path = p) \/ Coming(p)
    /\ \A i \in 1 .. Len(page) :
         \/ page[i].value \/ page[i].cid = NoCid
         \/ \E j \in i + 1 .. Len(page) : page[j].path = page[i].path
         \/ Coming(page[i].path)

StoreInv == StoreTypes /\ OrderOK /\ HashOK /\ RevOK /\ LogOK /\ TxOK
SyncInv  == SyncTypes /\ ModesOK /\ ArchiveOK /\ CopyOK /\ BlankOK

----------------------------------------------------------------------------
(* The host.                                                               *)

LEMMA OpsAreOps == ASSUME NEW s \in Seq(Ops) PROVE AreOps(s)
<1>1. Len(s) \in Nat /\ \A i \in 1 .. Len(s) : s[i] \in Ops
  OBVIOUS
<1> QED
  BY <1>1 DEF AreOps, Ops, MaybeCids

LEMMA PageOpsAreOps == ASSUME NEW s \in Seq(PageOps) PROVE AreOps(s)
<1>1. Len(s) \in Nat /\ \A i \in 1 .. Len(s) : s[i] \in PageOps
  OBVIOUS
<1> QED
  BY <1>1 DEF AreOps, PageOps

LEMMA NothingIsContents == NoRecords \in Contents /\ EmptyHash = HashOf(NoRecords)
<1>1. NoRecords \in Contents
  BY DEF NoRecords, Contents
<1>2. \A e \in Paths \X Cids : NoRecords[e[1]] # e[2]
  BY SpaceAssumption DEF NoRecords
<1> QED
  BY <1>1, <1>2 DEF EmptyHash, HashOf

LEMMA NothingLogged == States(NoRecords, << >>)[0] = NoRecords
<1>1. AreOps(<< >>)
  BY DEF AreOps
<1> QED
  BY <1>1, NothingIsContents, StatesLead DEF Leads

(* One more operation: the states before it are the same.                  *)
LEMMA AppendLeads ==
  ASSUME NEW r \in Contents, NEW s \in Seq(Ops), NEW op \in Ops
  PROVE  /\ \A i \in 0 .. Len(s) : States(r, Append(s, op))[i] = States(r, s)[i]
         /\ States(r, Append(s, op))[Len(s) + 1]
              = Does(States(r, s)[Len(s)], op)
<1> DEFINE t == Append(s, op)
<1>1. t \in Seq(Ops) /\ Len(t) = Len(s) + 1 /\ t[Len(s) + 1] = op
  OBVIOUS
<1>2. \A i \in 1 .. Len(s) : s[i] = t[i] /\ s[i] = t[0 + i]
  OBVIOUS
<1>3. AreOps(s) /\ AreOps(t)
  BY <1>1, OpsAreOps
<1> HIDE DEF t
<1>4. Leads(States(r, s), r, s, Len(s)) /\ Leads(States(r, t), r, t, Len(t))
  BY <1>3, StatesLead
<1>5. States(r, t)[0] = r
  BY <1>4 DEF Leads
<1>6. \A i \in 1 .. Len(s) : s[i].path = t[0 + i].path /\ s[i].cid = t[0 + i].cid
  BY <1>2
<1>7. Len(s) \in Nat
  OBVIOUS
<1>12. Part(s, t, 0, Len(s))
  BY <1>1, <1>6, <1>7 DEF Part
<1>8. \A i \in 0 .. Len(s) : States(r, s)[i] = States(r, t)[0 + i]
  BY <1>3, <1>5, <1>12, Along
<1>9. \A i \in 0 .. Len(s) : States(r, t)[i] = States(r, s)[i]
  <2>1. TAKE i \in 0 .. Len(s)
  <2>2. 0 + i = i
    BY <1>7
  <2> QED
    BY <1>8, <2>2
<1>10. States(r, t)[Len(s) + 1] = [States(r, t)[Len(s)] EXCEPT ![op.path] = op.cid]
  <2>1. Len(s) + 1 \in 1 .. Len(t) /\ (Len(s) + 1) - 1 = Len(s)
    BY <1>1, <1>7
  <2> QED
    BY <1>1, <1>4, <2>1 DEF Leads
<1>11. States(r, t)[Len(s)] = States(r, s)[Len(s)]
  BY <1>7, <1>9
<1> QED
  BY <1>9, <1>10, <1>11 DEF t, Does

(* A batch after the log: the log's states, then the batch's from there.   *)
LEMMA ConcatLeads ==
  ASSUME NEW r \in Contents, NEW s \in Seq(Ops), NEW t \in Seq(Ops)
  PROVE  /\ \A i \in 0 .. Len(s) : States(r, s \o t)[i] = States(r, s)[i]
         /\ \A i \in 0 .. Len(t) :
              States(r, s \o t)[Len(s) + i] = States(States(r, s)[Len(s)], t)[i]
<1> DEFINE u == s \o t
<1>0. Len(s) \in Nat /\ Len(t) \in Nat
  OBVIOUS
<1>1. u \in Seq(Ops) /\ Len(u) = Len(s) + Len(t)
  OBVIOUS
<1>2. \A i \in 1 .. Len(s) : s[i] = u[0 + i]
  OBVIOUS
<1>3. \A i \in 1 .. Len(t) : t[i] = u[Len(s) + i]
  OBVIOUS
<1>4. AreOps(s) /\ AreOps(u)
  BY <1>1, OpsAreOps
<1>16. AreOps(t)
  BY OpsAreOps
<1> HIDE DEF u
<1>5. Leads(States(r, s), r, s, Len(s)) /\ Leads(States(r, u), r, u, Len(u))
  BY <1>4, StatesLead
<1>6. States(r, u)[0] = r
  BY <1>5 DEF Leads
<1>7. \A i \in 1 .. Len(s) : s[i].path = u[0 + i].path /\ s[i].cid = u[0 + i].cid
  BY <1>2
<1>8. Part(s, u, 0, Len(s))
  BY <1>0, <1>1, <1>7 DEF Part
<1>9. \A i \in 0 .. Len(s) : States(r, s)[i] = States(r, u)[0 + i]
  BY <1>4, <1>6, <1>8, Along
<1>10. \A i \in 0 .. Len(s) : States(r, u)[i] = States(r, s)[i]
  <2>1. TAKE i \in 0 .. Len(s)
  <2>2. 0 + i = i
    BY <1>0
  <2> QED
    BY <1>9, <2>2
<1>11. States(r, u)[Len(s)] = States(r, s)[Len(s)]
  BY <1>0, <1>10
<1>12. States(r, s)[Len(s)] \in Contents
  BY <1>0, <1>5 DEF Leads
<1>13. \A i \in 1 .. Len(t) : t[i].path = u[Len(s) + i].path /\ t[i].cid = u[Len(s) + i].cid
  BY <1>3
<1>14. Part(t, u, Len(s), Len(t))
  BY <1>0, <1>1, <1>13 DEF Part
<1>15. \A i \in 0 .. Len(t) :
         States(States(r, s)[Len(s)], t)[i] = States(r, u)[Len(s) + i]
  BY <1>4, <1>16, <1>11, <1>12, <1>14, Along
<1> QED
  BY <1>10, <1>15 DEF u

(* What ApplyWrite builds.                                                 *)
Written(w) == [txRecords EXCEPT ![w.path] = w.cid]

(* A write, folded into the hash and noted with what was there before.     *)
LEMMA WriteNoted ==
  ASSUME StoreInv, InTransaction, NEW w, w = Head(todo)
  PROVE  /\ w \in Writes /\ Tail(todo) \in Seq(Writes) /\ Len(todo) = Len(Tail(todo)) + 1
         /\ Written(w) \in Contents
         /\ ApplyOp(txHash, w.path, w.cid, txRecords[w.path]) = HashOf(Written(w))
         /\ OpsWith(w) \in Seq(Ops) /\ Len(OpsWith(w)) = Len(txOps) + 1
         /\ \A i \in 1 .. Len(OpsWith(w)) :
              /\ OpsWith(w)[i].rev = Len(commits) + 1 /\ OpsWith(w)[i].idx = i - 1
              /\ OpsWith(w)[i].prev = States(records, OpsWith(w))[i - 1][OpsWith(w)[i].path]
         /\ States(records, OpsWith(w))[Len(OpsWith(w))] = Written(w)
<1> DEFINE op == [rev |-> Len(commits) + 1, idx |-> Len(txOps), action |-> w.action,
                  path |-> w.path, cid |-> w.cid, prev |-> txRecords[w.path]]
           s  == txOps
           T  == States(records, s)
           T1 == States(records, OpsWith(w))
<1>1. /\ todo \in Seq(Writes) /\ todo # << >>
      /\ records \in Contents /\ txRecords \in Contents /\ s \in Seq(Ops)
      /\ txHash = HashOf(txRecords)
  BY DEF StoreInv, StoreTypes, HashOK, InTransaction
<1>2. w \in Writes /\ Tail(todo) \in Seq(Writes) /\ Len(todo) = Len(Tail(todo)) + 1
  BY <1>1
<1>3. w.path \in Paths /\ w.cid \in MaybeCids /\ w.action \in {"create", "update", "delete"}
  BY <1>2 DEF Writes, MaybeCids
<1>4. txRecords[w.path] \in MaybeCids
  BY <1>1, <1>3 DEF Contents, MaybeCids
<1>5. Written(w) \in Contents
  BY <1>1, <1>3 DEF Written, Contents, MaybeCids
<1>6. ApplyOp(txHash, w.path, w.cid, txRecords[w.path]) = HashOf(Written(w))
  BY <1>1, <1>3, ApplyOpKeepsHash DEF Written
<1>7. Len(commits) + 1 \in Nat /\ Len(txOps) \in Nat
  BY DEF StoreInv, StoreTypes
<1>8. op \in Ops
  BY <1>3, <1>4, <1>7 DEF Ops, MaybeCids
<1>9. OpsWith(w) = Append(s, op)
  BY DEF OpsWith
<1>10. op.path = w.path /\ op.cid = w.cid /\ op.prev = txRecords[w.path]
       /\ op.rev = Len(commits) + 1 /\ op.idx = Len(s)
  OBVIOUS
<1>11. \A i \in 1 .. Len(s) : /\ s[i].rev = Len(commits) + 1 /\ s[i].idx = i - 1
                              /\ s[i].prev = T[i - 1][s[i].path]
  BY DEF StoreInv, StoreTypes, TxOK
<1>12. T[Len(s)] = txRecords
  BY DEF StoreInv, TxOK
<1> HIDE DEF op
<1>13. /\ OpsWith(w) \in Seq(Ops) /\ Len(OpsWith(w)) = Len(s) + 1
       /\ OpsWith(w)[Len(s) + 1] = op
       /\ \A i \in 1 .. Len(s) : OpsWith(w)[i] = s[i]
  BY <1>1, <1>8, <1>9, AppendProperties
<1>14. /\ \A i \in 0 .. Len(s) : T1[i] = T[i]
       /\ T1[Len(s) + 1] = Does(T[Len(s)], op)
  <2>1. records \in Contents /\ txOps \in Seq(Ops)
    BY <1>1
  <2>2. /\ \A i \in 0 .. Len(txOps) :
             States(records, Append(txOps, op))[i] = States(records, txOps)[i]
        /\ States(records, Append(txOps, op))[Len(txOps) + 1]
             = Does(States(records, txOps)[Len(txOps)], op)
    BY <1>8, <2>1, AppendLeads, Zenon
  <2> QED
    BY <1>9, <2>2, Zenon
<1>15. T1[Len(s) + 1] = Written(w)
  BY <1>10, <1>12, <1>14 DEF Written, Does
<1> HIDE DEF T, T1, s
<1>16. \A i \in 1 .. Len(OpsWith(w)) :
         /\ OpsWith(w)[i].rev = Len(commits) + 1 /\ OpsWith(w)[i].idx = i - 1
         /\ OpsWith(w)[i].prev = T1[i - 1][OpsWith(w)[i].path]
  <2>0. Len(s) \in Nat
    BY <1>7 DEF s
  <2>1. TAKE i \in 1 .. Len(OpsWith(w))
  <2>2. CASE i \in 1 .. Len(s)
    <3>1. OpsWith(w)[i] = s[i] /\ i - 1 \in 0 .. Len(s)
      BY <1>13, <2>0, <2>2
    <3>2. T1[i - 1] = T[i - 1]
      BY <1>14, <3>1
    <3> QED
      BY <1>11, <2>2, <3>1, <3>2
  <2>3. CASE i = Len(s) + 1
    <3>1. OpsWith(w)[i] = op /\ i - 1 = Len(s)
      BY <1>13, <2>0, <2>3
    <3>2. T1[i - 1] = txRecords
      BY <1>12, <1>14, <2>0, <3>1
    <3> QED
      BY <1>10, <3>1, <3>2
  <2> QED
    BY <1>13, <2>0, <2>2, <2>3
<1>17. T1[Len(OpsWith(w))] = Written(w)
  BY <1>13, <1>15, Zenon
<1> QED
  BY <1>2, <1>5, <1>6, <1>13, <1>16, <1>17 DEF T1, s

LEMMA StoreKept ==
  ASSUME StoreInv, UNCHANGED <<storeVars, txVars, commits, aborts, deletes>>
  PROVE  StoreInv'
<1>1. /\ space' = space /\ records' = records /\ setHash' = setHash /\ rev' = rev
      /\ oplog' = oplog /\ todo' = todo /\ txRecords' = txRecords /\ txHash' = txHash
      /\ txOps' = txOps /\ commits' = commits /\ aborts' = aborts /\ deletes' = deletes
  BY DEF storeVars, txVars
<1>2. StoreTypes'
  BY <1>1 DEF StoreInv, StoreTypes
<1>3. OrderOK' /\ HashOK' /\ RevOK'
  BY <1>1 DEF StoreInv, OrderOK, HashOK, HashIsRecords, InTransaction, RevOK
<1>4. LogOK'
  BY <1>1 DEF StoreInv, LogOK, Logged, UpTo
<1>5. TxOK'
  BY <1>1 DEF StoreInv, TxOK, InTransaction
<1> QED
  BY <1>2, <1>3, <1>4, <1>5 DEF StoreInv

LEMMA StoreInit == SpaceInit => StoreInv
<1> SUFFICES ASSUME SpaceInit PROVE StoreInv
  OBVIOUS
<1> USE DEF SpaceInit
<1>0. EmptyHash \in Hashes /\ NoRecords \in Contents
  BY NothingIsContents, HashOfIsHash
<1>1. StoreTypes
  BY <1>0 DEF StoreTypes, MaxIdx
<1>2. OrderOK /\ TxOK
  BY DEF OrderOK, TxOK, InTransaction
<1>3. HashOK
  BY NothingIsContents DEF HashOK, HashIsRecords, InTransaction
<1>4. RevOK
  BY DEF RevOK
<1>5. LogOK
  BY NothingLogged DEF LogOK, Logged
<1> QED
  BY <1>1, <1>2, <1>3, <1>4, <1>5 DEF StoreInv

LEMMA CreateSpaceKeeps ==
  ASSUME StoreInv, CreateSpace PROVE StoreInv'
<1> USE DEF CreateSpace, storeVars, txVars
<1>1. StoreTypes'
  BY DEF StoreInv, StoreTypes
<1>2. OrderOK' /\ HashOK' /\ RevOK'
  BY DEF StoreInv, OrderOK, HashOK, HashIsRecords, InTransaction, RevOK
<1>3. LogOK' /\ TxOK'
  BY DEF StoreInv, LogOK, Logged, UpTo, TxOK, InTransaction
<1> QED
  BY <1>1, <1>2, <1>3 DEF StoreInv

(* With the space goes what its log said; no commit is of the life after.  *)
LEMMA DeleteSpaceKeeps ==
  ASSUME StoreInv, DeleteSpace PROVE StoreInv'
<1>0. /\ deletes \in Nat /\ deletes' = deletes + 1 /\ commits' = commits
      /\ \A r \in 1 .. Len(commits) : commits[r].life \in Nat /\ commits[r].life <= deletes
  <2>1. /\ deletes \in Nat /\ deletes' = deletes + 1 /\ commits' = commits
        /\ \A r \in 1 .. Len(commits) : commits[r].life <= deletes
    BY DEF StoreInv, StoreTypes, DeleteSpace
  <2>2. commits \in Seq([life : Nat, records : Contents])
    BY DEF StoreInv, StoreTypes
  <2>3. \A r \in 1 .. Len(commits) : commits[r] \in [life : Nat, records : Contents]
    BY <2>2, ElementOfSeq
  <2> QED
    BY <2>1, <2>3
<1>1. StoreTypes'
  <2>1. EmptyHash \in Hashes /\ NoRecords \in Contents
    BY NothingIsContents, HashOfIsHash
  <2>2. /\ space' = "deleted" /\ records' = NoRecords /\ setHash' = EmptyHash /\ rev' = 0
        /\ oplog' = << >> /\ deletes' = deletes + 1
        /\ UNCHANGED <<todo, txRecords, txHash, txOps, commits, aborts>>
    BY DEF DeleteSpace, txVars
  <2>3. \A r \in 1 .. Len(commits) : commits[r].life <= deletes + 1
    BY <1>0
  <2> QED
    BY <2>1, <2>2, <2>3 DEF StoreInv, StoreTypes
<1>2. OrderOK'
  BY DEF DeleteSpace, OrderOK
<1>3. HashOK' /\ TxOK'
  BY NothingIsContents DEF StoreInv, HashOK, HashIsRecords, TxOK, InTransaction, DeleteSpace,
     txVars
<1>4. \A r \in 1 .. Len(commits') : commits'[r].life < deletes'
  BY <1>0
<1>5. RevOK'
  BY <1>4 DEF RevOK, DeleteSpace
<1>6. LogOK'
  <2>1. oplog' = << >> /\ records' = NoRecords
    BY DEF DeleteSpace
  <2>2. Logged'[0] = NoRecords
    BY <2>1, NothingLogged DEF Logged
  <2>3. \A r \in 1 .. Len(commits') : commits'[r].life # deletes'
    BY <1>0
  <2> QED
    BY <2>1, <2>2, <2>3 DEF LogOK
<1> QED
  BY <1>1, <1>2, <1>3, <1>5, <1>6 DEF StoreInv

LEMMA BeginWritesKeeps ==
  ASSUME StoreInv, NEW batch \in Batches, BeginWrites(batch) PROVE StoreInv'
<1>0. /\ UNCHANGED <<space, records, setHash, rev, oplog, commits, aborts, deletes>>
      /\ todo' = batch /\ txRecords' = records /\ txHash' = setHash /\ txOps' = << >>
  BY DEF BeginWrites, storeVars
<1>1. batch \in Seq(Writes) /\ Len(batch) <= MaxIdx
  <2>1. Batches \subseteq Seq(Writes) /\ \A b \in Batches : Len(b) \in 1 .. MaxIdx
    BY SpaceAssumption, Zenon
  <2>2. batch \in Seq(Writes) /\ Len(batch) \in 1 .. MaxIdx
    BY <2>1
  <2>3. MaxIdx \in Nat
    BY DEF MaxIdx
  <2> QED
    BY <2>2, <2>3
<1>2. StoreTypes'
  <2>1. << >> \in Seq(Ops) /\ Len(<< >>) + Len(batch) <= MaxIdx
    BY <1>1
  <2> QED
    BY <1>0, <1>1, <2>1 DEF StoreInv, StoreTypes
<1>3. OrderOK' /\ HashOK' /\ RevOK'
  BY <1>0 DEF StoreInv, OrderOK, HashOK, HashIsRecords, RevOK
<1>4. LogOK'
  BY <1>0 DEF StoreInv, LogOK, Logged, UpTo
<1>5. TxOK'
  <2>1. AreOps(<< >>) /\ records \in Contents
    BY DEF AreOps, StoreInv, StoreTypes
  <2>2. States(records, << >>)[0] = records
    BY <2>1, StatesLead DEF Leads
  <2> QED
    BY <1>0, <2>2 DEF TxOK
<1> QED
  BY <1>2, <1>3, <1>4, <1>5 DEF StoreInv

LEMMA AbortWritesKeeps ==
  ASSUME StoreInv, AbortWrites PROVE StoreInv'
<1>0. /\ UNCHANGED <<space, records, setHash, rev, oplog, commits, deletes>>
      /\ todo' = << >> /\ txRecords' = NoRecords /\ txHash' = EmptyHash /\ txOps' = << >>
      /\ aborts' = aborts + 1
  BY DEF AbortWrites, storeVars
<1>1. StoreTypes'
  <2>1. EmptyHash \in Hashes /\ NoRecords \in Contents
    BY NothingIsContents, HashOfIsHash
  <2> QED
    BY <1>0, <2>1 DEF StoreInv, StoreTypes, MaxIdx
<1>2. OrderOK' /\ HashOK' /\ RevOK'
  BY <1>0 DEF StoreInv, OrderOK, HashOK, HashIsRecords, RevOK, InTransaction
<1>3. LogOK' /\ TxOK'
  BY <1>0 DEF StoreInv, LogOK, Logged, UpTo, TxOK, InTransaction
<1> QED
  BY <1>1, <1>2, <1>3 DEF StoreInv

(* A write that is not the last of its batch.                              *)
LEMMA WriteKeeps ==
  ASSUME StoreInv, ApplyWrite, Tail(todo) # << >> PROVE StoreInv'
<1> DEFINE w == Head(todo)
<1>0. InTransaction
  BY DEF ApplyWrite
<1>1. /\ UNCHANGED <<space, records, setHash, rev, oplog, commits, aborts, deletes>>
      /\ todo' = Tail(todo) /\ txRecords' = Written(w) /\ txOps' = OpsWith(w)
      /\ txHash' = ApplyOp(txHash, w.path, w.cid, txRecords[w.path])
  BY DEF ApplyWrite, storeVars, Written
<1> HIDE DEF w
<1>2. /\ w \in Writes /\ Tail(todo) \in Seq(Writes) /\ Len(todo) = Len(Tail(todo)) + 1
      /\ Written(w) \in Contents
      /\ ApplyOp(txHash, w.path, w.cid, txRecords[w.path]) = HashOf(Written(w))
      /\ OpsWith(w) \in Seq(Ops) /\ Len(OpsWith(w)) = Len(txOps) + 1
      /\ \A i \in 1 .. Len(OpsWith(w)) :
           /\ OpsWith(w)[i].rev = Len(commits) + 1 /\ OpsWith(w)[i].idx = i - 1
           /\ OpsWith(w)[i].prev = States(records, OpsWith(w))[i - 1][OpsWith(w)[i].path]
      /\ States(records, OpsWith(w))[Len(OpsWith(w))] = Written(w)
  BY <1>0, WriteNoted DEF w
<1>3. StoreTypes'
  <2>1. txHash' \in Hashes
    BY <1>1, <1>2, HashOfIsHash
  <2>2. Len(OpsWith(w)) + Len(Tail(todo)) <= MaxIdx
    BY <1>2 DEF StoreInv, StoreTypes, MaxIdx
  <2> QED
    BY <1>1, <1>2, <2>1, <2>2 DEF StoreInv, StoreTypes
<1>4. OrderOK' /\ HashOK' /\ RevOK'
  BY <1>1, <1>2 DEF StoreInv, OrderOK, HashOK, HashIsRecords, RevOK
<1>5. LogOK'
  BY <1>1 DEF StoreInv, LogOK, Logged, UpTo
<1>6. TxOK'
  BY <1>1, <1>2 DEF TxOK
<1> QED
  BY <1>3, <1>4, <1>5, <1>6 DEF StoreInv

(* What the last write of a batch changes.                                 *)
Committed(ops, recs) ==
  /\ todo' = << >> /\ records' = recs /\ setHash' = HashOf(recs) /\ rev' = Len(commits) + 1
  /\ oplog' = oplog \o ops
  /\ commits' = Append(commits, [life |-> deletes, records |-> recs])
  /\ txRecords' = NoRecords /\ txHash' = EmptyHash /\ txOps' = << >>
  /\ UNCHANGED <<space, aborts, deletes>>

(* The operations of a batch, from the records before it.                  *)
Batch(ops, recs) ==
  /\ recs \in Contents /\ ops \in Seq(Ops) /\ Len(ops) <= MaxIdx
  /\ \A i \in 1 .. Len(ops) :
       /\ ops[i].rev = Len(commits) + 1 /\ ops[i].idx = i - 1
       /\ ops[i].prev = States(records, ops)[i - 1][ops[i].path]
  /\ States(records, ops)[Len(ops)] = recs

LEMMA LastWrite ==
  ASSUME StoreInv, ApplyWrite, Tail(todo) = << >>
  PROVE  \E ops, recs : Committed(ops, recs) /\ Batch(ops, recs)
<1> DEFINE w == Head(todo)
<1>0. InTransaction
  BY DEF ApplyWrite
<1>1. /\ records' = Written(w) /\ setHash' = ApplyOp(txHash, w.path, w.cid, txRecords[w.path])
      /\ todo' = Tail(todo) /\ rev' = Len(commits) + 1 /\ oplog' = oplog \o OpsWith(w)
      /\ commits' = Append(commits, [life |-> deletes, records |-> Written(w)])
      /\ txRecords' = NoRecords /\ txHash' = EmptyHash /\ txOps' = << >>
      /\ UNCHANGED <<space, aborts, deletes>>
  BY DEF ApplyWrite, Written
<1> HIDE DEF w
<1>2. /\ Len(todo) = Len(Tail(todo)) + 1
      /\ Written(w) \in Contents
      /\ ApplyOp(txHash, w.path, w.cid, txRecords[w.path]) = HashOf(Written(w))
      /\ OpsWith(w) \in Seq(Ops) /\ Len(OpsWith(w)) = Len(txOps) + 1
      /\ \A i \in 1 .. Len(OpsWith(w)) :
           /\ OpsWith(w)[i].rev = Len(commits) + 1 /\ OpsWith(w)[i].idx = i - 1
           /\ OpsWith(w)[i].prev = States(records, OpsWith(w))[i - 1][OpsWith(w)[i].path]
      /\ States(records, OpsWith(w))[Len(OpsWith(w))] = Written(w)
  BY <1>0, WriteNoted DEF w
<1>3. Committed(OpsWith(w), Written(w))
  BY <1>1, <1>2 DEF Committed
<1>4. Len(OpsWith(w)) <= MaxIdx
  BY <1>2 DEF StoreInv, StoreTypes, MaxIdx
<1>5. Batch(OpsWith(w), Written(w))
  BY <1>2, <1>4 DEF Batch
<1> QED
  BY <1>3, <1>5

(* The operations of the log after a commit: those before, then the batch. *)
LEMMA LogGrows ==
  ASSUME StoreInv, NEW ops, NEW recs, Committed(ops, recs), Batch(ops, recs)
  PROVE  /\ oplog' \in Seq(Ops) /\ Len(oplog') = Len(oplog) + Len(ops)
         /\ Len(oplog) \in Nat /\ Len(ops) \in Nat
         /\ \A i \in 1 .. Len(oplog) : oplog'[i] = oplog[i]
         /\ \A i \in 1 .. Len(ops) : oplog'[Len(oplog) + i] = ops[i]
         /\ \A i \in 0 .. Len(oplog) : Logged'[i] = Logged[i]
         /\ \A i \in 0 .. Len(ops) : Logged'[Len(oplog) + i] = States(records, ops)[i]
<1>1. oplog \in Seq(Ops) /\ ops \in Seq(Ops) /\ oplog' = oplog \o ops
  BY DEF StoreInv, StoreTypes, Batch, Committed
<1>2. /\ oplog' \in Seq(Ops) /\ Len(oplog') = Len(oplog) + Len(ops)
      /\ Len(oplog) \in Nat /\ Len(ops) \in Nat
  BY <1>1
<1>3. \A i \in 1 .. Len(oplog) : oplog'[i] = oplog[i]
  BY <1>1
<1>4. \A i \in 1 .. Len(ops) : oplog'[Len(oplog) + i] = ops[i]
  BY <1>1
<1>5. /\ \A i \in 0 .. Len(oplog) : States(NoRecords, oplog \o ops)[i] = Logged[i]
      /\ \A i \in 0 .. Len(ops) :
           States(NoRecords, oplog \o ops)[Len(oplog) + i]
             = States(Logged[Len(oplog)], ops)[i]
  BY <1>1, NothingIsContents, ConcatLeads DEF Logged
<1>6. Logged[Len(oplog)] = records
  BY DEF StoreInv, LogOK
<1>7. Logged' = States(NoRecords, oplog \o ops)
  BY <1>1 DEF Logged
<1> QED
  BY <1>2, <1>3, <1>4, <1>5, <1>6, <1>7

LEMMA CommitsGrow ==
  ASSUME StoreInv, NEW ops, NEW recs, Committed(ops, recs), Batch(ops, recs)
  PROVE  /\ commits' \in Seq([life : Nat, records : Contents])
         /\ Len(commits) \in Nat /\ Len(commits') = Len(commits) + 1
         /\ \A r \in 1 .. Len(commits) : commits'[r] = commits[r]
         /\ commits'[Len(commits) + 1] = [life |-> deletes, records |-> recs]
<1> DEFINE new == [life |-> deletes, records |-> recs]
<1>1. new \in [life : Nat, records : Contents]
  BY DEF StoreInv, StoreTypes, Batch
<1>2. commits \in Seq([life : Nat, records : Contents]) /\ commits' = Append(commits, new)
  BY DEF StoreInv, StoreTypes, Committed
<1> HIDE DEF new
<1>3. /\ commits' \in Seq([life : Nat, records : Contents])
      /\ Len(commits) \in Nat /\ Len(commits') = Len(commits) + 1
      /\ \A r \in 1 .. Len(commits) : commits'[r] = commits[r]
      /\ commits'[Len(commits) + 1] = new
  BY <1>1, <1>2, AppendProperties
<1> QED
  BY <1>3 DEF new

LEMMA UpToBound ==
  ASSUME StoreInv, NEW r PROVE UpTo(r) \in 0 .. Len(oplog)
<1>1. Len(oplog) \in Nat
  BY DEF StoreInv, StoreTypes
<1>2. {i \in 1 .. Len(oplog) : oplog[i].rev <= r} \subseteq 1 .. Len(oplog)
  OBVIOUS
<1> QED
  BY <1>1, <1>2, CountBound DEF UpTo

(* What a log says up to a revision, when operations beyond it are added.  *)
LEMMA UpToIs ==
  ASSUME StoreInv, NEW ops, NEW recs, Committed(ops, recs), Batch(ops, recs)
  PROVE  /\ \A r \in 1 .. Len(commits) : UpTo(r)' = UpTo(r) /\ UpTo(r) \in 0 .. Len(oplog)
         /\ \A r : r = Len(commits) + 1 => UpTo(r)' = Len(oplog')
<1>1. /\ oplog' \in Seq(Ops) /\ Len(oplog') = Len(oplog) + Len(ops)
      /\ Len(oplog) \in Nat /\ Len(ops) \in Nat
      /\ \A i \in 1 .. Len(oplog) : oplog'[i] = oplog[i]
      /\ \A i \in 1 .. Len(ops) : oplog'[Len(oplog) + i] = ops[i]
  BY LogGrows
<1>2. /\ \A i \in 1 .. Len(oplog) : oplog[i].rev <= Len(commits)
      /\ \A i \in 1 .. Len(ops) : ops[i].rev = Len(commits) + 1
      /\ Len(commits) \in Nat
  BY DEF StoreInv, StoreTypes, Batch
<1>3. \A i \in 1 .. Len(oplog') :
        /\ i <= Len(oplog) => oplog'[i] = oplog[i]
        /\ i > Len(oplog) => oplog'[i].rev = Len(commits) + 1
  <2>1. TAKE i \in 1 .. Len(oplog')
  <2>2. CASE i <= Len(oplog)
    BY <1>1, <2>2
  <2>3. CASE i > Len(oplog)
    <3>1. i - Len(oplog) \in 1 .. Len(ops) /\ Len(oplog) + (i - Len(oplog)) = i
      BY <1>1, <2>3
    <3>2. oplog'[Len(oplog) + (i - Len(oplog))] = ops[i - Len(oplog)]
      BY <1>1, <3>1
    <3>3. oplog'[i] = ops[i - Len(oplog)]
      BY <3>1, <3>2, Zenon
    <3> QED
      BY <1>1, <1>2, <2>3, <3>1, <3>3
  <2> QED
    BY <1>1, <2>2, <2>3
<1>4. ASSUME NEW r \in 1 .. Len(commits) PROVE UpTo(r)' = UpTo(r) /\ UpTo(r) \in 0 .. Len(oplog)
  <2> DEFINE was == {i \in 1 .. Len(oplog)  : oplog[i].rev <= r}
             is  == {i \in 1 .. Len(oplog') : oplog'[i].rev <= r}
  <2>1. is = was
    <3>1. \A i \in 1 .. Len(oplog') : i > Len(oplog) => ~(oplog'[i].rev <= r)
      BY <1>2, <1>3
    <3>2. \A i \in 1 .. Len(oplog') : i <= Len(oplog) => oplog'[i] = oplog[i]
      BY <1>3
    <3>3. \A i : i \in 1 .. Len(oplog) <=> i \in 1 .. Len(oplog') /\ i <= Len(oplog)
      BY <1>1
    <3>4. \A i \in 1 .. Len(oplog') : ~(i <= Len(oplog)) => i > Len(oplog)
      BY <1>1
    <3>5. \A i : i \in is <=> i \in was
      BY <3>1, <3>2, <3>3, <3>4
    <3> QED
      BY <3>5
  <2>4. UpTo(r) = Cardinality(was) /\ UpTo(r)' = Cardinality(is)
    BY DEF UpTo
  <2>5. Cardinality(is) = Cardinality(was)
    BY <2>1, Zenon
  <2>6. UpTo(r) \in 0 .. Len(oplog)
    BY UpToBound
  <2> QED
    BY <2>4, <2>5, <2>6
<1>5. ASSUME NEW r, r = Len(commits) + 1 PROVE UpTo(r)' = Len(oplog')
  <2> DEFINE all == {i \in 1 .. Len(oplog') : oplog'[i].rev <= r}
  <2>1. \A i \in 1 .. Len(oplog') : oplog'[i].rev <= Len(commits) + 1
    <3>1. TAKE i \in 1 .. Len(oplog')
    <3>2. CASE i <= Len(oplog)
      <4>1. oplog'[i] = oplog[i] /\ i \in 1 .. Len(oplog) /\ oplog[i] \in Ops
        BY <1>1, <1>3, <3>2 DEF StoreInv, StoreTypes
      <4>2. oplog[i].rev \in Nat
        BY <4>1 DEF Ops
      <4> QED
        BY <1>2, <4>1, <4>2
    <3>3. CASE i > Len(oplog)
      BY <1>2, <1>3, <3>3
    <3> QED
      BY <1>1, <3>2, <3>3
  <2>2. all = 1 .. Len(oplog')
    BY <1>5, <2>1
  <2>4. UpTo(r)' = Cardinality(all)
    BY DEF UpTo
  <2>5. Cardinality(all) = Cardinality(1 .. Len(oplog'))
    BY <2>2, Zenon
  <2>3. Cardinality(1 .. Len(oplog')) = Len(oplog')
    <3> HIDE DEF all
    <3>1. Len(oplog') \in Nat
      BY <1>1
    <3> QED
      BY <3>1, CountAll
  <2> QED
    BY <2>3, <2>4, <2>5
<1> QED
  BY <1>4, <1>5

(* The last write of a batch, and its commit.                              *)
LEMMA CommitKeeps ==
  ASSUME StoreInv, ApplyWrite, Tail(todo) = << >> PROVE StoreInv'
<1> PICK ops, recs : Committed(ops, recs) /\ Batch(ops, recs)
  BY LastWrite
<1>1. /\ oplog' \in Seq(Ops) /\ Len(oplog') = Len(oplog) + Len(ops)
      /\ Len(oplog) \in Nat /\ Len(ops) \in Nat
      /\ \A i \in 1 .. Len(oplog) : oplog'[i] = oplog[i]
      /\ \A i \in 1 .. Len(ops) : oplog'[Len(oplog) + i] = ops[i]
  BY LogGrows
<1>2. /\ \A i \in 0 .. Len(oplog) : Logged'[i] = Logged[i]
      /\ \A i \in 0 .. Len(ops) : Logged'[Len(oplog) + i] = States(records, ops)[i]
  BY LogGrows
<1>3. /\ commits' \in Seq([life : Nat, records : Contents])
      /\ Len(commits) \in Nat /\ Len(commits') = Len(commits) + 1
      /\ \A r \in 1 .. Len(commits) : commits'[r] = commits[r]
      /\ commits'[Len(commits) + 1] = [life |-> deletes, records |-> recs]
  BY CommitsGrow
<1>4. /\ todo' = << >> /\ records' = recs /\ setHash' = HashOf(recs) /\ rev' = Len(commits) + 1
      /\ txRecords' = NoRecords /\ txHash' = EmptyHash /\ txOps' = << >>
      /\ UNCHANGED <<space, aborts, deletes>>
  BY DEF Committed
<1>5. /\ recs \in Contents /\ ops \in Seq(Ops) /\ Len(ops) <= MaxIdx
      /\ \A i \in 1 .. Len(ops) :
           /\ ops[i].rev = Len(commits) + 1 /\ ops[i].idx = i - 1
           /\ ops[i].prev = States(records, ops)[i - 1][ops[i].path]
      /\ States(records, ops)[Len(ops)] = recs
  BY DEF Batch
<1>6. /\ \A i \in 1 .. Len(oplog) : oplog[i].rev <= Len(commits) /\ oplog[i].idx <= MaxIdx
      /\ \A i \in 1 .. Len(oplog) : oplog[i] \in Ops
      /\ \A r \in 1 .. Len(commits) : commits[r].life <= deletes
      /\ deletes \in Nat /\ aborts \in Nat /\ space \in {"none", "live", "deleted"}
  BY DEF StoreInv, StoreTypes
<1>7. \A i \in 1 .. Len(oplog') :
        \/ i \in 1 .. Len(oplog) /\ oplog'[i] = oplog[i]
        \/ \E j \in 1 .. Len(ops) : i = Len(oplog) + j /\ oplog'[i] = ops[j]
  <2>1. TAKE i \in 1 .. Len(oplog')
  <2>2. CASE i <= Len(oplog)
    BY <1>1, <2>2
  <2>3. CASE i > Len(oplog)
    <3>1. i - Len(oplog) \in 1 .. Len(ops) /\ i = Len(oplog) + (i - Len(oplog))
      BY <1>1, <2>3
    <3>2. oplog'[Len(oplog) + (i - Len(oplog))] = ops[i - Len(oplog)]
      BY <1>1, <3>1
    <3>3. oplog'[i] = ops[i - Len(oplog)]
      BY <3>1, <3>2, Zenon
    <3> QED
      BY <3>1, <3>3
  <2> QED
    BY <1>1, <2>2, <2>3
<1>8. StoreTypes'
  <2>1. EmptyHash \in Hashes /\ NoRecords \in Contents /\ HashOf(recs) \in Hashes
    BY <1>5, NothingIsContents, HashOfIsHash
  <2>2. \A i \in 1 .. Len(oplog') :
          oplog'[i].rev <= Len(commits) + 1 /\ oplog'[i].idx <= MaxIdx
    <3>1. TAKE i \in 1 .. Len(oplog')
    <3>2. CASE i \in 1 .. Len(oplog) /\ oplog'[i] = oplog[i]
      <4>1. oplog[i].rev \in Nat
        BY <1>6, <3>2 DEF Ops
      <4> QED
        BY <1>3, <1>6, <3>2, <4>1
    <3>3. CASE \E j \in 1 .. Len(ops) : i = Len(oplog) + j /\ oplog'[i] = ops[j]
      <4>1. PICK j \in 1 .. Len(ops) : oplog'[i] = ops[j]
        BY <3>3
      <4>2. ops[j].rev = Len(commits) + 1 /\ ops[j].idx = j - 1
        BY <1>5
      <4>3. j - 1 <= MaxIdx
        BY <1>1, <1>5 DEF MaxIdx
      <4> QED
        BY <1>3, <4>1, <4>2, <4>3
    <3> QED
      BY <1>7, <3>2, <3>3
  <2>3. \A r \in 1 .. Len(commits') : commits'[r].life <= deletes
    <3>1. TAKE r \in 1 .. Len(commits')
    <3>2. CASE r \in 1 .. Len(commits)
      BY <1>3, <1>6, <3>2
    <3>3. CASE r = Len(commits) + 1
      BY <1>3, <1>6, <3>3
    <3> QED
      BY <1>3, <3>2, <3>3
  <2>4. << >> \in Seq(Writes) /\ << >> \in Seq(Ops) /\ Len(<< >>) + Len(<< >>) <= MaxIdx
    BY DEF MaxIdx
  <2>5. Len(commits) + 1 \in 0 .. Len(commits')
    BY <1>3
  <2> QED
    BY <1>1, <1>3, <1>4, <1>5, <1>6, <2>1, <2>2, <2>3, <2>4, <2>5 DEF StoreTypes
<1>9. OrderOK'
  <2>1. SUFFICES ASSUME NEW i \in 1 .. Len(oplog'), NEW j \in 1 .. Len(oplog'), i < j
                 PROVE  \/ oplog'[i].rev < oplog'[j].rev
                        \/ oplog'[i].rev = oplog'[j].rev /\ oplog'[i].idx < oplog'[j].idx
    BY DEF OrderOK
  <2>2. CASE j \in 1 .. Len(oplog) /\ oplog'[j] = oplog[j]
    <3>1. i \in 1 .. Len(oplog) /\ oplog'[i] = oplog[i]
      BY <1>1, <2>1, <2>2
    <3> QED
      BY <2>1, <2>2, <3>1 DEF StoreInv, OrderOK
  <2>3. CASE \E k \in 1 .. Len(ops) : j = Len(oplog) + k /\ oplog'[j] = ops[k]
    <3>1. PICK k \in 1 .. Len(ops) : j = Len(oplog) + k /\ oplog'[j] = ops[k]
      BY <2>3
    <3>2. oplog'[j].rev = Len(commits) + 1 /\ oplog'[j].idx = k - 1
      BY <1>5, <3>1
    <3>3. CASE i \in 1 .. Len(oplog) /\ oplog'[i] = oplog[i]
      <4>1. oplog'[i].rev <= Len(commits) /\ oplog'[i].rev \in Nat
        BY <1>6, <3>3 DEF Ops
      <4> QED
        BY <1>3, <3>2, <4>1
    <3>4. CASE \E h \in 1 .. Len(ops) : i = Len(oplog) + h /\ oplog'[i] = ops[h]
      <4>1. PICK h \in 1 .. Len(ops) : i = Len(oplog) + h /\ oplog'[i] = ops[h]
        BY <3>4
      <4>2. oplog'[i].rev = Len(commits) + 1 /\ oplog'[i].idx = h - 1
        BY <1>5, <4>1
      <4> QED
        BY <1>1, <2>1, <3>1, <3>2, <4>1, <4>2
    <3> QED
      BY <1>7, <3>3, <3>4
  <2> QED
    BY <1>7, <2>2, <2>3
<1>10. HashOK' /\ TxOK'
  BY <1>4 DEF HashOK, HashIsRecords, TxOK, InTransaction
<1>11. RevOK'
  <2>1. rev' = Len(commits') /\ rev' # 0 /\ commits'[rev'] = [life |-> deletes, records |-> recs]
    BY <1>3, <1>4
  <2>2. commits'[rev'].life = deletes' /\ commits'[rev'].records = records'
    BY <1>4, <2>1
  <2> QED
    BY <2>1, <2>2 DEF RevOK
<1>12. \A i \in 1 .. Len(oplog') : oplog'[i].prev = Logged'[i - 1][oplog'[i].path]
  <2>1. TAKE i \in 1 .. Len(oplog')
  <2>2. CASE i \in 1 .. Len(oplog) /\ oplog'[i] = oplog[i]
    <3>1. oplog[i].prev = Logged[i - 1][oplog[i].path]
      BY <2>2 DEF StoreInv, LogOK
    <3>2. Logged'[i - 1] = Logged[i - 1]
      BY <1>1, <1>2, <2>2
    <3> QED
      BY <2>2, <3>1, <3>2
  <2>3. CASE \E j \in 1 .. Len(ops) : i = Len(oplog) + j /\ oplog'[i] = ops[j]
    <3>1. PICK j \in 1 .. Len(ops) : i = Len(oplog) + j /\ oplog'[i] = ops[j]
      BY <2>3
    <3>2. j - 1 \in 0 .. Len(ops) /\ i - 1 = Len(oplog) + (j - 1)
      BY <1>1, <3>1
    <3>3. Logged'[Len(oplog) + (j - 1)] = States(records, ops)[j - 1]
      BY <1>2, <3>2
    <3>4. Logged'[i - 1] = States(records, ops)[j - 1]
      BY <3>2, <3>3, Zenon
    <3> QED
      BY <1>5, <3>1, <3>4
  <2> QED
    BY <1>7, <2>2, <2>3
<1>13. Logged'[Len(oplog')] = recs
  <2>1. Len(ops) \in 0 .. Len(ops)
    BY <1>1
  <2>2. Logged'[Len(oplog) + Len(ops)] = recs
    BY <1>2, <1>5, <2>1
  <2> QED
    BY <1>1, <2>2, Zenon
<1>14. \A r \in 1 .. Len(commits') :
         commits'[r].life = deletes' => Logged'[UpTo(r)'] = commits'[r].records
  <2>0. /\ \A r \in 1 .. Len(commits) : UpTo(r)' = UpTo(r) /\ UpTo(r) \in 0 .. Len(oplog)
        /\ \A r : r = Len(commits) + 1 => UpTo(r)' = Len(oplog')
    BY UpToIs
  <2>1. TAKE r \in 1 .. Len(commits')
  <2>2. CASE r \in 1 .. Len(commits)
    <3>1. commits'[r] = commits[r] /\ UpTo(r)' = UpTo(r) /\ UpTo(r) \in 0 .. Len(oplog)
      BY <1>3, <2>0, <2>2
    <3>2. commits[r].life = deletes => Logged[UpTo(r)] = commits[r].records
      BY <2>2 DEF StoreInv, LogOK
    <3>3. Logged'[UpTo(r)] = Logged[UpTo(r)]
      BY <1>2, <3>1
    <3> QED
      BY <1>4, <3>1, <3>2, <3>3
  <2>3. CASE r = Len(commits) + 1
    <3>1. UpTo(r)' = Len(oplog')
      BY <2>0, <2>3
    <3>2. commits'[r].records = recs
      BY <1>3, <2>3
    <3> QED
      BY <1>13, <3>1, <3>2
  <2> QED
    BY <1>3, <2>2, <2>3
<1>15. LogOK'
  BY <1>4, <1>12, <1>13, <1>14 DEF LogOK
<1> QED
  BY <1>8, <1>9, <1>10, <1>11, <1>15 DEF StoreInv

LEMMA StoreNext == StoreInv /\ [SpaceNext]_vars => StoreInv'
<1> SUFFICES ASSUME StoreInv, [SpaceNext]_vars PROVE StoreInv'
  OBVIOUS
<1>1. CASE CreateSpace
  BY <1>1, CreateSpaceKeeps
<1>2. CASE DeleteSpace
  BY <1>2, DeleteSpaceKeeps
<1>3. CASE \E b \in Batches : BeginWrites(b)
  BY <1>3, BeginWritesKeeps
<1>4. CASE ApplyWrite
  BY <1>4, WriteKeeps, CommitKeeps
<1>5. CASE AbortWrites
  BY <1>5, AbortWritesKeeps
<1>6. CASE FullNext
  BY <1>6, StoreKept DEF FullNext, BeginFullSync, RecordsPage, EndFullSync
<1>7. CASE OpsNext
  BY <1>7, StoreKept DEF OpsNext, BeginOpsSync, OpsPage, ReadCommit, ApplyPageOp,
     AskForMoreOps, EndOpsSync
<1>8. CASE UNCHANGED vars
  BY <1>8, StoreKept DEF vars
<1> QED
  BY <1>1, <1>2, <1>3, <1>4, <1>5, <1>6, <1>7, <1>8 DEF SpaceNext, HostNext

LEMMA StoreInvCorrect == SpaceSpec => []StoreInv
BY StoreInit, StoreNext, PTL DEF SpaceSpec

(* The set hash that is committed is that of the records, through batches  *)
(* that create, update and delete one path, batches that fail halfway and  *)
(* deletions of the space (applyWrites, deleteSpace).                      *)
THEOREM HashIsRecordsCorrect == SpaceSpec => []HashIsRecords
<1>1. StoreInv => HashIsRecords
  BY DEF StoreInv, HashOK
<1> QED
  BY <1>1, StoreInvCorrect, PTL

(* The operation log leads from nothing to the records there are, and from *)
(* those of every commit since the space was created: what listRepoOps     *)
(* serves from (space_record_oplog).                                       *)
THEOREM OplogReplaysCorrect == SpaceSpec => []OplogReplays
<1>1. ASSUME StoreInv PROVE OplogReplays
  <2>1. /\ oplog \in Seq(Ops) /\ Len(oplog) \in Nat /\ NoRecords \in Contents
        /\ commits \in Seq([life : Nat, records : Contents])
    BY <1>1, NothingIsContents DEF StoreInv, StoreTypes
  <2>2. Logged[Len(oplog)] = records
    BY <1>1 DEF StoreInv, LogOK
  <2>3. Replay(NoRecords, oplog) = records
    BY <2>2 DEF Replay, Logged
  <2>4. ASSUME NEW r \in 1 .. Len(commits), commits[r].life = deletes
        PROVE  Replay(commits[r].records, Since(r)) = records
    <3> DEFINE k == UpTo(r)
               t == Since(r)
               q == commits[r].records
               n == Len(oplog) - k
    <3>1. k \in 0 .. Len(oplog)
      BY <1>1, UpToBound
    <3>2. q \in Contents
      <4>1. commits[r] \in [life : Nat, records : Contents]
        BY <2>1, <2>4, ElementOfSeq
      <4> QED
        BY <4>1
    <3>3. Logged[k] = q
      BY <1>1, <2>4 DEF StoreInv, LogOK
    <3>4. t = SubSeq(oplog, k + 1, Len(oplog))
      BY DEF Since
    <3> HIDE DEF k, t, q
    <3>5. /\ t \in Seq(Ops) /\ Len(t) = n /\ k \in Nat /\ n \in Nat /\ k + n = Len(oplog)
          /\ \A i \in 1 .. n : t[i] = oplog[k + i]
      BY <2>1, <3>1, <3>4
    <3>6. Part(t, oplog, k, n)
      BY <2>1, <3>5 DEF Part
    <3>7. AreOps(t) /\ AreOps(oplog)
      BY <2>1, <3>5, OpsAreOps
    <3>8. States(NoRecords, oplog)[k] = q
      BY <3>3 DEF Logged
    <3> HIDE DEF n
    <3>9. \A i \in 0 .. n : States(q, t)[i] = States(NoRecords, oplog)[k + i]
      BY <2>1, <3>2, <3>6, <3>7, <3>8, Along
    <3>10. States(q, t)[n] = States(NoRecords, oplog)[k + n]
      BY <3>5, <3>9
    <3>11. States(q, t)[Len(t)] = records
      BY <2>2, <3>5, <3>10 DEF Logged
    <3> QED
      BY <3>11 DEF Replay, t, q
  <2> QED
    BY <2>3, <2>4 DEF OplogReplays
<1>2. StoreInv => OplogReplays
  BY <1>1
<1> QED
  BY <1>2, StoreInvCorrect, PTL

----------------------------------------------------------------------------
(* The consumer.                                                           *)

SyncKinds == {"ops", "commit", "apply"}

LEMMA ReceivedBound == ASSUME StoreInv PROVE Received \in 0 .. Len(oplog)
<1>1. Len(oplog) \in Nat
  BY DEF StoreInv, StoreTypes
<1>2. {i \in 1 .. Len(oplog) : ~Beyond(oplog[i])} \subseteq 1 .. Len(oplog)
  OBVIOUS
<1> QED
  BY <1>1, <1>2, CountBound DEF Received

LEMMA CommitIsRecord ==
  ASSUME StoreInv, NEW r \in 1 .. Len(commits)
  PROVE  commits[r].life \in Nat /\ commits[r].life <= deletes /\ commits[r].records \in Contents
<1>1. commits \in Seq([life : Nat, records : Contents])
  BY DEF StoreInv, StoreTypes
<1>2. commits[r] \in [life : Nat, records : Contents]
  BY <1>1, ElementOfSeq
<1>3. commits[r].life <= deletes
  BY DEF StoreInv, StoreTypes
<1> QED
  BY <1>2, <1>3

(* The last operation on a path is what the table has there.               *)
LEMMA LastOperation ==
  ASSUME StoreInv, NEW i \in 1 .. Len(oplog), records[oplog[i].path] # oplog[i].cid
  PROVE  \E j \in i + 1 .. Len(oplog) : oplog[j].path = oplog[i].path
<1> SUFFICES ASSUME \A j \in i + 1 .. Len(oplog) : oplog[j].path # oplog[i].path
             PROVE  FALSE
  OBVIOUS
<1>1. AreOps(oplog) /\ Len(oplog) \in Nat
  BY OpsAreOps DEF StoreInv, StoreTypes
<1>2. oplog[i].path \in Paths /\ i \in 0 .. Len(oplog)
  BY <1>1 DEF AreOps
<1>3. Logged[Len(oplog)][oplog[i].path] = Logged[i][oplog[i].path]
  BY <1>1, <1>2, NothingIsContents, Untouched DEF Logged
<1>4. Leads(Logged, NoRecords, oplog, Len(oplog))
  BY <1>1, NothingIsContents, StatesLead DEF Logged
<1>5. Logged[i] = [Logged[i - 1] EXCEPT ![oplog[i].path] = oplog[i].cid]
  BY <1>4 DEF Leads
<1>6. Logged[i - 1] \in Contents
  BY <1>1, <1>4 DEF Leads
<1>7. Logged[i][oplog[i].path] = oplog[i].cid
  BY <1>2, <1>5, <1>6 DEF Contents
<1>8. Logged[Len(oplog)] = records
  BY DEF StoreInv, LogOK
<1> QED
  BY <1>3, <1>7, <1>8

(* Steps of the host that neither commit nor delete.                       *)
LEMMA SyncKept ==
  ASSUME SyncInv, UNCHANGED <<syncVars, haveVars, oplog, commits, deletes>>
  PROVE  SyncInv'
<1>1. /\ mode' = mode /\ commit' = commit /\ streamed' = streamed /\ cursor' = cursor
      /\ page' = page /\ last' = last /\ seen' = seen /\ seenHash' = seenHash /\ blank' = blank
      /\ begun' = begun /\ at' = at /\ have' = have /\ refused' = refused
      /\ oplog' = oplog /\ commits' = commits /\ deletes' = deletes
  BY DEF syncVars, haveVars
<1>2. SyncTypes'
  BY <1>1 DEF SyncInv, SyncTypes
<1>3. ModesOK' /\ ArchiveOK'
  BY <1>1 DEF SyncInv, ModesOK, ArchiveOK
<1>4. Received' = Received
  BY <1>1 DEF Received, Beyond
<1>5. CopyOK'
  BY <1>1, <1>4 DEF SyncInv, CopyOK, CleanBase, Logged
<1>6. BlankOK'
  BY <1>1, <1>4 DEF SyncInv, BlankOK, Coming, Pending
<1> QED
  BY <1>2, <1>3, <1>5, <1>6 DEF SyncInv

LEMMA DeleteSpaceSyncs ==
  ASSUME StoreInv, SyncInv, DeleteSpace PROVE SyncInv'
<1>1. /\ mode' = mode /\ commit' = commit /\ streamed' = streamed /\ cursor' = cursor
      /\ page' = page /\ last' = last /\ seen' = seen /\ seenHash' = seenHash /\ blank' = blank
      /\ begun' = begun /\ at' = at /\ have' = have /\ refused' = refused
      /\ commits' = commits /\ deletes' = deletes + 1
  BY DEF DeleteSpace, syncVars, haveVars
<1>2. deletes \in Nat /\ begun \in 0 .. deletes /\ at \in 0 .. Len(commits) /\ Len(commits) \in Nat
  BY DEF StoreInv, StoreTypes, SyncInv, SyncTypes
<1>3. SyncTypes'
  <2>1. begun \in 0 .. deletes + 1
    BY <1>2
  <2> QED
    BY <1>1, <2>1 DEF SyncInv, SyncTypes
<1>4. ModesOK' /\ ArchiveOK'
  BY <1>1 DEF SyncInv, ModesOK, ArchiveOK
<1>5. CopyOK'
  <2>1. SUFFICES ASSUME CleanBase'
                 PROVE  /\ seenHash = HashOf(seen)
                        /\ \A i \in 1 .. Len(page) :
                             page[i].prev = States(seen, page)[i - 1][page[i].path]
                        /\ last
    BY <1>1 DEF CopyOK
  <2>2. at \in 1 .. Len(commits)
    BY <1>1, <1>2, <2>1 DEF CleanBase, SyncInv, ModesOK
  <2>3. commits[at].life <= deletes /\ commits[at].life \in Nat
    BY <2>2, CommitIsRecord
  <2>4. last
    BY <1>1, <1>2, <2>1, <2>3 DEF CleanBase
  <2>5. CleanBase
    BY <1>1, <2>1, <2>4 DEF CleanBase
  <2> QED
    BY <2>4, <2>5 DEF SyncInv, CopyOK
<1>6. BlankOK'
  BY <1>1, <1>2 DEF BlankOK
<1> QED
  BY <1>3, <1>4, <1>5, <1>6 DEF SyncInv

(* What the page asked for last is beyond, a new commit is as well.        *)
LEMMA ReceivedStays ==
  ASSUME StoreInv, SyncInv, NEW ops, NEW recs, Committed(ops, recs), Batch(ops, recs),
         cursor' = cursor
  PROVE  Received' = Received
<1>1. /\ oplog' \in Seq(Ops) /\ Len(oplog') = Len(oplog) + Len(ops)
      /\ Len(oplog) \in Nat /\ Len(ops) \in Nat
      /\ \A i \in 1 .. Len(oplog) : oplog'[i] = oplog[i]
      /\ \A i \in 1 .. Len(ops) : oplog'[Len(oplog) + i] = ops[i]
  BY LogGrows
<1>2. /\ \A i \in 1 .. Len(ops) : ops[i].rev = Len(commits) + 1
      /\ Len(commits) \in Nat /\ cursor[1] \in 0 .. Len(commits)
  BY DEF StoreInv, StoreTypes, SyncInv, SyncTypes, Batch
<1>3. \A i \in 1 .. Len(oplog') : i > Len(oplog) => oplog'[i].rev = Len(commits) + 1
  <2>1. TAKE i \in 1 .. Len(oplog')
  <2>2. HAVE i > Len(oplog)
  <2>3. i - Len(oplog) \in 1 .. Len(ops) /\ Len(oplog) + (i - Len(oplog)) = i
    BY <1>1, <2>2
  <2>4. oplog'[Len(oplog) + (i - Len(oplog))] = ops[i - Len(oplog)]
    BY <1>1, <2>3
  <2>5. oplog'[i] = ops[i - Len(oplog)]
    BY <2>3, <2>4, Zenon
  <2> QED
    BY <1>2, <2>3, <2>5
<1> DEFINE was == {i \in 1 .. Len(oplog)  : ~Beyond(oplog[i])}
           is  == {i \in 1 .. Len(oplog') : ~Beyond(oplog[i])'}
<1>4. \A i \in 1 .. Len(oplog') : i > Len(oplog) => Beyond(oplog[i])'
  BY <1>2, <1>3 DEF Beyond
<1>5. \A i \in 1 .. Len(oplog) : Beyond(oplog[i])' <=> Beyond(oplog[i])
  BY <1>1 DEF Beyond
<1>6. \A i : i \in 1 .. Len(oplog) <=> i \in 1 .. Len(oplog') /\ ~(i > Len(oplog))
  BY <1>1
<1>7. is = was
  <2>1. \A i : i \in is <=> i \in was
    BY <1>4, <1>5, <1>6
  <2> QED
    BY <2>1
<1>8. Received = Cardinality(was) /\ Received' = Cardinality(is)
  BY DEF Received
<1> QED
  BY <1>7, <1>8, Zenon

LEMMA CommitSyncs ==
  ASSUME StoreInv, SyncInv, ApplyWrite, Tail(todo) = << >> PROVE SyncInv'
<1> PICK ops, recs : Committed(ops, recs) /\ Batch(ops, recs)
  BY LastWrite
<1>1. /\ mode' = mode /\ commit' = commit /\ streamed' = streamed /\ cursor' = cursor
      /\ page' = page /\ last' = last /\ seen' = seen /\ seenHash' = seenHash /\ blank' = blank
      /\ begun' = begun /\ at' = at /\ have' = have /\ refused' = refused
      /\ deletes' = deletes
  BY DEF ApplyWrite, syncVars, haveVars
<1>2. /\ Len(oplog') = Len(oplog) + Len(ops) /\ Len(oplog) \in Nat /\ Len(ops) \in Nat
      /\ \A i \in 1 .. Len(oplog) : oplog'[i] = oplog[i]
      /\ \A i \in 0 .. Len(oplog) : Logged'[i] = Logged[i]
  BY LogGrows
<1>3. /\ Len(commits) \in Nat /\ Len(commits') = Len(commits) + 1
      /\ \A r \in 1 .. Len(commits) : commits'[r] = commits[r]
  BY CommitsGrow
<1>4. Received' = Received /\ Received \in 0 .. Len(oplog)
  BY <1>1, ReceivedStays, ReceivedBound
<1>5. SyncTypes'
  <2>1. 0 .. Len(commits) \subseteq 0 .. Len(commits')
    BY <1>3
  <2>2. /\ commit \in [rev : 0 .. Len(commits'), hash : Hashes]
        /\ cursor \in (0 .. Len(commits')) \X Nat /\ at \in 0 .. Len(commits')
    BY <2>1 DEF SyncInv, SyncTypes
  <2> QED
    BY <1>1, <2>2 DEF SyncInv, SyncTypes
<1>6. commit.rev \in 0 .. Len(commits) /\ at \in 0 .. Len(commits)
  BY DEF SyncInv, SyncTypes
<1>7. ModesOK'
  <2>1. commit.rev # 0 => commits'[commit.rev] = commits[commit.rev]
    BY <1>3, <1>6
  <2> QED
    BY <1>1, <2>1 DEF SyncInv, ModesOK
<1>8. ArchiveOK'
  BY <1>1 DEF SyncInv, ArchiveOK
<1>9. CopyOK'
  <2>1. SUFFICES ASSUME CleanBase'
                 PROVE  /\ seenHash = HashOf(seen)
                        /\ \A i \in 1 .. Len(page) :
                             page[i].prev = States(seen, page)[i - 1][page[i].path]
                        /\ ~last => States(seen, page)[Len(page)] = Logged'[Received']
    BY <1>1 DEF CopyOK
  <2>2. mode \in SyncKinds
    BY <1>1, <2>1 DEF CleanBase, SyncKinds
  <2>3. commits'[at] = commits[at]
    BY <1>3, <1>6, <2>2 DEF SyncInv, ModesOK, SyncKinds
  <2>4. last => commits'[commit.rev] = commits[commit.rev]
    BY <1>3, <1>6 DEF SyncInv, ModesOK
  <2>5. CleanBase
    BY <1>1, <2>1, <2>3, <2>4 DEF CleanBase
  <2>6. Logged'[Received'] = Logged[Received]
    BY <1>2, <1>4
  <2> QED
    BY <2>5, <2>6 DEF SyncInv, CopyOK
<1>10. BlankOK'
  <2>1. \A p : Coming(p) => Coming(p)'
    <3>1. \A j \in Received + 1 .. Len(oplog) :
            j \in Received' + 1 .. Len(oplog') /\ oplog'[j] = oplog[j]
      BY <1>2, <1>4
    <3>2. Pending' <=> Pending
      BY <1>1 DEF Pending
    <3> QED
      BY <3>1, <3>2 DEF Coming
  <2> QED
    BY <1>1, <2>1 DEF SyncInv, BlankOK
<1> QED
  BY <1>5, <1>7, <1>8, <1>9, <1>10 DEF SyncInv

LEMMA BeginFullSyncs ==
  ASSUME StoreInv, SyncInv, BeginFullSync PROVE SyncInv'
<1>1. /\ mode = "idle" /\ rev # 0
      /\ mode' = "full" /\ commit' = [rev |-> rev, hash |-> setHash] /\ streamed' = -1
      /\ seen' = NoRecords /\ seenHash' = EmptyHash /\ blank' = {} /\ begun' = deletes
      /\ UNCHANGED <<cursor, page, last, at, have, refused, commits, deletes>>
  BY DEF BeginFullSync, haveVars
<1>2. /\ rev = Len(commits) /\ commits[rev].records = records /\ setHash = HashOf(records)
      /\ setHash \in Hashes /\ rev \in 0 .. Len(commits) /\ deletes \in Nat
  BY <1>1 DEF StoreInv, StoreTypes, RevOK, HashOK, HashIsRecords
<1>3. at \in 0 .. Len(commits) /\ Len(commits) \in Nat
  BY DEF SyncInv, SyncTypes, StoreInv, StoreTypes
<1>4. EmptyHash = HashOf(NoRecords) /\ NoRecords \in Contents /\ EmptyHash \in Hashes
  BY NothingIsContents, HashOfIsHash
<1>5. SyncTypes'
  <2>1. [rev |-> rev, hash |-> setHash] \in [rev : 0 .. Len(commits), hash : Hashes]
    BY <1>2
  <2>2. deletes \in 0 .. deletes /\ -1 \in Int
    BY <1>2
  <2> QED
    BY <1>1, <1>4, <2>1, <2>2 DEF SyncInv, SyncTypes
<1>6. ModesOK'
  <2>1. page = << >> /\ ~last
    BY <1>1 DEF SyncInv, ModesOK
  <2>2. commit'.rev = rev /\ commit'.hash = HashOf(records)
    BY <1>1, <1>2
  <2> QED
    BY <1>1, <1>2, <1>3, <2>1, <2>2 DEF ModesOK
<1>7. ArchiveOK'
  BY <1>1, <1>4 DEF ArchiveOK, NoRecords
<1>8. CopyOK' /\ BlankOK'
  BY <1>1 DEF CopyOK, CleanBase, BlankOK
<1> QED
  BY <1>5, <1>6, <1>7, <1>8 DEF SyncInv

(* What comes of the archive was not there before, and is counted once.    *)
LEMMA RecordsPageSyncs ==
  ASSUME StoreInv, SyncInv, RecordsPage PROVE SyncInv'
<1>1. /\ mode = "full" /\ streamed' \in NextRecords /\ \A p \in NextRecords : p <= streamed'
      /\ seen' = [p \in Paths |-> IF p \in NextRecords THEN records[p] ELSE seen[p]]
      /\ seenHash' = [e \in Paths \X Cids |->
           IF e[1] \in NextRecords /\ records[e[1]] = e[2] THEN seenHash[e] + 1 ELSE seenHash[e]]
      /\ UNCHANGED <<mode, commit, cursor, page, last, blank, begun, at, have, refused,
                     commits, deletes>>
  BY DEF RecordsPage, haveVars
<1>2. /\ \A p \in NextRecords : p \in Paths /\ streamed < p
      /\ Paths \subseteq Nat
  BY SpaceAssumption DEF NextRecords
<1>3. /\ streamed \in Int /\ seen \in Contents /\ seenHash \in Hashes
      /\ records \in Contents
  BY DEF SyncInv, SyncTypes, StoreInv, StoreTypes
<1>4. blank = {} /\ seenHash = HashOf(seen) /\ \A p \in Paths : streamed < p => seen[p] = NoCid
  BY <1>1 DEF SyncInv, ArchiveOK
<1>5. seen' \in Contents
  BY <1>1, <1>3 DEF Contents
<1>6. seenHash' = HashOf(seen')
  <2>1. \A e \in Paths \X Cids : seenHash'[e] = IF seen'[e[1]] = e[2] THEN 1 ELSE 0
    <3>1. TAKE e \in Paths \X Cids
    <3>2. e[1] \in Paths /\ e[2] \in Cids /\ e[2] # NoCid
      BY SpaceAssumption
    <3>3. seenHash[e] = IF seen[e[1]] = e[2] THEN 1 ELSE 0
      BY <1>4 DEF HashOf
    <3>4. CASE e[1] \in NextRecords
      <4>1. seen[e[1]] = NoCid
        BY <1>2, <1>4, <3>4
      <4>2. seenHash[e] = 0
        BY <3>2, <3>3, <4>1
      <4> QED
        BY <1>1, <3>2, <3>4, <4>2
    <3>5. CASE e[1] \notin NextRecords
      BY <1>1, <3>2, <3>3, <3>5
    <3> QED
      BY <3>4, <3>5
  <2>2. seenHash' = [e \in Paths \X Cids |-> seenHash'[e]]
    BY <1>1
  <2> QED
    BY <2>1, <2>2 DEF HashOf
<1>7. SyncTypes'
  <2>1. seenHash' \in Hashes /\ streamed' \in Int
    BY <1>1, <1>2, <1>5, <1>6, HashOfIsHash
  <2> QED
    BY <1>1, <1>5, <2>1 DEF SyncInv, SyncTypes
<1>8. ModesOK'
  BY <1>1 DEF SyncInv, ModesOK
<1>9. ArchiveOK'
  <2>1. ASSUME NEW p \in Paths, streamed' < p PROVE seen'[p] = NoCid
    <3>2. streamed' \in Nat /\ streamed < streamed' /\ p \in Nat
      BY <1>1, <1>2
    <3>3. p \notin NextRecords
      BY <1>1, <2>1, <3>2
    <3>1. p \notin NextRecords /\ streamed < p
      BY <1>3, <2>1, <3>2, <3>3
    <3> QED
      BY <1>1, <1>4, <3>1
  <2> QED
    BY <1>1, <1>4, <1>6, <2>1 DEF ArchiveOK
<1>10. CopyOK' /\ BlankOK'
  BY <1>1 DEF CopyOK, CleanBase, BlankOK
<1> QED
  BY <1>7, <1>8, <1>9, <1>10 DEF SyncInv

LEMMA VerifySyncs ==
  ASSUME StoreInv, SyncInv, Verify, page = << >>, UNCHANGED <<page, commits, deletes>>
  PROVE  SyncInv'
<1>1. /\ mode' = "idle" /\ page' = << >> /\ last' = FALSE
      /\ UNCHANGED <<commits, deletes>>
  BY DEF Verify
<1>2. SyncTypes'
  <2>1. NoRecords \in Contents /\ EmptyHash \in Hashes
    BY NothingIsContents, HashOfIsHash
  <2>2. Len(commits) \in Nat /\ deletes \in Nat
    BY DEF StoreInv, StoreTypes
  <2>3. NoCommit \in [rev : 0 .. Len(commits), hash : Hashes]
    BY <2>1, <2>2 DEF NoCommit
  <2>4. <<0, 0>> \in (0 .. Len(commits)) \X Nat /\ 0 \in 0 .. deletes /\ -1 \in Int
    BY <2>2
  <2>5. /\ commit' = NoCommit /\ streamed' = -1 /\ cursor' = <<0, 0>>
        /\ seen' = NoRecords /\ seenHash' = EmptyHash /\ blank' = {} /\ begun' = 0
    BY DEF Verify
  <2>6. /\ at' \in 0 .. Len(commits) /\ have' \in Contents /\ refused' \in BOOLEAN
    BY DEF Verify, SyncInv, SyncTypes
  <2>7. << >> \in Seq(PageOps)
    OBVIOUS
  <2> QED
    BY <1>1, <2>1, <2>3, <2>4, <2>5, <2>6, <2>7 DEF SyncTypes
<1>3. ModesOK' /\ ArchiveOK' /\ CopyOK' /\ BlankOK'
  BY <1>1 DEF ModesOK, ArchiveOK, CopyOK, CleanBase, BlankOK
<1> QED
  BY <1>2, <1>3 DEF SyncInv

LEMMA EndFullSyncs ==
  ASSUME StoreInv, SyncInv, EndFullSync PROVE SyncInv'
<1>1. page = << >>
  BY DEF EndFullSync, SyncInv, ModesOK
<1> QED
  BY <1>1, VerifySyncs DEF EndFullSync

LEMMA EndOpsSyncs ==
  ASSUME StoreInv, SyncInv, EndOpsSync PROVE SyncInv'
  BY VerifySyncs DEF EndOpsSync

LEMMA BeginOpsSyncs ==
  ASSUME StoreInv, SyncInv, BeginOpsSync PROVE SyncInv'
<1>1. /\ mode = "idle" /\ at # 0 /\ mode' = "ops" /\ cursor' = <<at, MaxIdx>>
      /\ seen' = have /\ seenHash' = HashOf(have) /\ blank' = {} /\ begun' = deletes
      /\ UNCHANGED <<oplog, commit, streamed, page, last, at, have, refused, commits, deletes>>
  BY DEF BeginOpsSync, haveVars, storeVars
<1>2. /\ at \in 0 .. Len(commits) /\ have \in Contents /\ Len(commits) \in Nat /\ deletes \in Nat
      /\ page = << >> /\ last = FALSE
  BY <1>1 DEF StoreInv, StoreTypes, SyncInv, SyncTypes, ModesOK
<1>3. SyncTypes'
  <2>1. HashOf(have) \in Hashes /\ deletes \in 0 .. deletes
    BY <1>2, HashOfIsHash
  <2>2. <<at, MaxIdx>> \in (0 .. Len(commits)) \X Nat
    BY <1>2 DEF MaxIdx
  <2> QED
    BY <1>1, <1>2, <2>1, <2>2 DEF SyncInv, SyncTypes
<1>4. ModesOK' /\ ArchiveOK'
  BY <1>1, <1>2 DEF SyncInv, ModesOK, ArchiveOK
<1>5. Received' = UpTo(at)
  <2> DEFINE is  == {i \in 1 .. Len(oplog) : ~Beyond(oplog[i])'}
             was == {i \in 1 .. Len(oplog) : oplog[i].rev <= at}
  <2>1. \A i \in 1 .. Len(oplog) : oplog[i] \in Ops /\ oplog[i].idx <= MaxIdx
    BY DEF StoreInv, StoreTypes
  <2>2. \A i \in 1 .. Len(oplog) : ~Beyond(oplog[i])' <=> oplog[i].rev <= at
    <3>1. TAKE i \in 1 .. Len(oplog)
    <3>2. oplog[i].rev \in Nat /\ oplog[i].idx \in Nat /\ oplog[i].idx <= MaxIdx
      BY <2>1 DEF Ops
    <3>3. Beyond(oplog[i])' <=> \/ oplog[i].rev > at
                                \/ oplog[i].rev = at /\ oplog[i].idx > MaxIdx
      BY <1>1 DEF Beyond
    <3> QED
      BY <1>2, <3>2, <3>3 DEF MaxIdx
  <2>3. is = was
    BY <2>2
  <2>4. Received' = Cardinality(is) /\ UpTo(at) = Cardinality(was)
    BY <1>1 DEF Received, UpTo
  <2> QED
    BY <2>3, <2>4, Zenon
<1>6. CopyOK'
  <2>1. SUFFICES ASSUME CleanBase'
                 PROVE  States(have, << >>)[0] = Logged[UpTo(at)]
    BY <1>1, <1>2, <1>5 DEF CopyOK, Logged
  <2>2. have = commits[at].records /\ commits[at].life = deletes
    BY <1>1, <1>2, <2>1 DEF CleanBase
  <2>3. at \in 1 .. Len(commits)
    BY <1>1, <1>2
  <2>4. Logged[UpTo(at)] = commits[at].records
    BY <2>2, <2>3 DEF StoreInv, LogOK
  <2>5. AreOps(<< >>)
    BY DEF AreOps
  <2>6. States(have, << >>)[0] = have
    BY <1>2, <2>5, StatesLead DEF Leads
  <2> QED
    BY <2>2, <2>4, <2>6
<1>7. BlankOK'
  BY <1>1, <1>2 DEF BlankOK
<1> QED
  BY <1>3, <1>4, <1>6, <1>7 DEF SyncInv

LEMMA ReadCommitSyncs ==
  ASSUME StoreInv, SyncInv, ReadCommit PROVE SyncInv'
<1>1. /\ mode = "commit" /\ commit' = [rev |-> rev, hash |-> setHash] /\ last' = (rev # 0)
      /\ mode' = IF rev = 0 /\ page = << >> THEN "idle" ELSE "apply"
      /\ UNCHANGED <<oplog, cursor, streamed, page, seen, seenHash, blank, begun,
                     at, have, refused, commits, deletes>>
  BY DEF ReadCommit, haveVars, storeVars
<1>2. /\ rev \in 0 .. Len(commits) /\ setHash \in Hashes /\ setHash = HashOf(records)
      /\ rev # 0 => /\ rev = Len(commits) /\ commits[rev].life = deletes
                    /\ commits[rev].records = records
      /\ at \in 0 .. Len(commits) /\ at # 0 /\ last = FALSE /\ Len(commits) \in Nat
  BY <1>1 DEF StoreInv, StoreTypes, RevOK, HashOK, HashIsRecords, SyncInv, SyncTypes, ModesOK
<1>3. commit'.rev = rev /\ commit'.hash = setHash
  BY <1>1
<1>4. SyncTypes'
  <2>1. commit' \in [rev : 0 .. Len(commits), hash : Hashes]
    BY <1>1, <1>2
  <2>2. mode' \in {"idle", "apply"} /\ last' \in BOOLEAN
    BY <1>1
  <2> QED
    BY <1>1, <2>1, <2>2 DEF SyncInv, SyncTypes
<1>5. ModesOK'
  <2>1. last' => at <= rev
    <3>1. rev # 0 => at <= rev
      BY <1>2
    <3> QED
      BY <1>1, <3>1
  <2> QED
    BY <1>1, <1>2, <1>3, <2>1 DEF ModesOK
<1>6. ArchiveOK'
  BY <1>1 DEF ArchiveOK
<1>7. Received' = Received
  BY <1>1 DEF Received, Beyond
<1>8. CopyOK'
  <2>1. SUFFICES ASSUME CleanBase'
                 PROVE  /\ seenHash = HashOf(seen)
                        /\ \A i \in 1 .. Len(page) :
                             page[i].prev = States(seen, page)[i - 1][page[i].path]
                        /\ States(seen, page)[Len(page)] = Logged[Received]
    BY <1>1, <1>7 DEF CopyOK, Logged
  <2>2. commits[at].life = deletes
    BY <1>1, <1>2, <1>3, <2>1 DEF CleanBase
  <2>3. CleanBase
    BY <1>1, <1>2, <2>1, <2>2 DEF CleanBase
  <2> QED
    BY <1>2, <2>3 DEF SyncInv, CopyOK
<1>9. BlankOK'
  <2>1. \A p : ~Coming(p)
    BY <1>1 DEF Coming, Pending
  <2> QED
    BY <1>1, <2>1 DEF SyncInv, BlankOK
<1> QED
  BY <1>4, <1>5, <1>6, <1>8, <1>9 DEF SyncInv

LEMMA AskForMoreOpsSyncs ==
  ASSUME StoreInv, SyncInv, AskForMoreOps PROVE SyncInv'
<1>1. /\ mode = "apply" /\ page = << >> /\ last = FALSE /\ mode' = "ops"
      /\ UNCHANGED <<oplog, commit, cursor, streamed, page, last, seen, seenHash, blank, begun,
                     at, have, refused, commits, deletes>>
  BY DEF AskForMoreOps, haveVars, storeVars, SyncInv, SyncTypes
<1>2. SyncTypes'
  BY <1>1 DEF SyncInv, SyncTypes
<1>3. ModesOK' /\ ArchiveOK'
  BY <1>1 DEF SyncInv, ModesOK, ArchiveOK
<1>4. Received' = Received
  BY <1>1 DEF Received, Beyond
<1>5. CopyOK'
  BY <1>1, <1>4 DEF SyncInv, CopyOK, CleanBase, Logged
<1>6. BlankOK'
  BY <1>1, <1>4 DEF SyncInv, BlankOK, Coming, Pending
<1> QED
  BY <1>2, <1>3, <1>5, <1>6 DEF SyncInv

(* One operation of the page: the rest of the page leads on from there.    *)
LEMMA ApplyPageOpSyncs ==
  ASSUME StoreInv, SyncInv, ApplyPageOp PROVE SyncInv'
<1> DEFINE op == page[1]
           rest == Tail(page)
           to == Does(seen, op)
<1>1. /\ mode = "apply" /\ page # << >> /\ Head(page) = page[1]
      /\ seen' = to /\ seenHash' = ApplyOp(seenHash, op.path, op.cid, op.prev)
      /\ blank' = IF op.value \/ op.cid = NoCid THEN blank \ {op.path} ELSE blank \cup {op.path}
      /\ page' = rest
      /\ UNCHANGED <<oplog, mode, commit, cursor, streamed, last, begun, at, have, refused,
                     commits, deletes>>
  <2>1. page \in Seq(PageOps) /\ page # << >>
    BY DEF SyncInv, SyncTypes, ApplyPageOp
  <2>2. Head(page) = page[1]
    BY <2>1
  <2> QED
    BY <2>1, <2>2 DEF ApplyPageOp, haveVars, storeVars, Does
<1>2. /\ page \in Seq(PageOps) /\ rest \in Seq(PageOps)
      /\ Len(page) \in Nat /\ Len(rest) \in Nat /\ Len(page) = Len(rest) + 1
      /\ \A i \in 1 .. Len(rest) : rest[i] = page[i + 1]
  <2>1. page \in Seq(PageOps)
    BY DEF SyncInv, SyncTypes
  <2> QED
    BY <1>1, <2>1
<1>3. op \in PageOps
  <2>1. 1 \in 1 .. Len(page)
    BY <1>2
  <2> QED
    BY <1>2, <2>1, ElementOfSeq
<1>4. op.path \in Paths /\ op.cid \in MaybeCids /\ op.prev \in MaybeCids /\ op.value \in BOOLEAN
  BY <1>3 DEF PageOps
<1>5. seen \in Contents /\ seenHash \in Hashes /\ blank \subseteq Paths
  BY DEF SyncInv, SyncTypes
<1>6. to \in Contents
  BY <1>4, <1>5 DEF Does, Contents, MaybeCids
<1> HIDE DEF op, rest, to
<1>7. SyncTypes'
  <2>1. seenHash' \in Hashes
    BY <1>1, <1>4, <1>5, ApplyOpIsHash
  <2>2. blank' \subseteq Paths
    BY <1>1, <1>4, <1>5
  <2> QED
    BY <1>1, <1>2, <1>6, <2>1, <2>2 DEF SyncInv, SyncTypes
<1>8. ModesOK' /\ ArchiveOK'
  BY <1>1 DEF SyncInv, ModesOK, ArchiveOK
<1>9. Received' = Received
  BY <1>1 DEF Received, Beyond
<1>10. /\ States(seen, page)[0] = seen
       /\ \A i \in 0 .. Len(rest) : States(to, rest)[i] = States(seen, page)[1 + i]
  <2>1. AreOps(page) /\ AreOps(rest)
    BY <1>2, PageOpsAreOps
  <2>2. Leads(States(seen, page), seen, page, Len(page))
    BY <1>5, <2>1, StatesLead
  <2>3. States(seen, page)[0] = seen
    BY <2>2 DEF Leads
  <2>4. States(seen, page)[1] = to
    <3>1. 1 \in 1 .. Len(page) /\ 1 - 1 = 0
      BY <1>2
    <3>2. States(seen, page)[1]
            = [States(seen, page)[1 - 1] EXCEPT ![page[1].path] = page[1].cid]
      BY <2>2, <3>1 DEF Leads
    <3> QED
      BY <2>3, <3>1, <3>2 DEF to, op, Does
  <2>5. Part(rest, page, 1, Len(rest))
    BY <1>2 DEF Part
  <2>6. \A i \in 0 .. Len(rest) : States(to, rest)[i] = States(seen, page)[1 + i]
    BY <1>5, <1>6, <2>1, <2>4, <2>5, Along
  <2> QED
    BY <2>3, <2>6
<1>11. CopyOK'
  <2>1. SUFFICES ASSUME CleanBase'
                 PROVE  /\ seenHash' = HashOf(to)
                        /\ \A i \in 1 .. Len(rest) :
                             rest[i].prev = States(to, rest)[i - 1][rest[i].path]
                        /\ ~last => States(to, rest)[Len(rest)] = Logged[Received]
    BY <1>1, <1>9 DEF CopyOK, Logged
  <2>2. CleanBase
    BY <1>1, <2>1 DEF CleanBase
  <2>3. /\ seenHash = HashOf(seen)
        /\ \A i \in 1 .. Len(page) : page[i].prev = States(seen, page)[i - 1][page[i].path]
        /\ ~last => States(seen, page)[Len(page)] = Logged[Received]
    BY <2>2 DEF SyncInv, CopyOK
  <2>4. op.prev = seen[op.path]
    <3>1. 1 \in 1 .. Len(page) /\ 1 - 1 = 0
      BY <1>2
    <3>2. page[1].prev = States(seen, page)[1 - 1][page[1].path]
      BY <2>3, <3>1
    <3> QED
      BY <1>10, <3>1, <3>2 DEF op
  <2>5. seenHash' = HashOf(to)
    <3>1. ApplyOp(HashOf(seen), op.path, op.cid, seen[op.path])
            = HashOf([seen EXCEPT ![op.path] = op.cid])
      BY <1>4, <1>5, ApplyOpKeepsHash
    <3> QED
      BY <1>1, <2>3, <2>4, <3>1 DEF to, Does
  <2>6. ASSUME NEW i \in 1 .. Len(rest)
        PROVE  rest[i].prev = States(to, rest)[i - 1][rest[i].path]
    <3>1. i + 1 \in 1 .. Len(page) /\ (i + 1) - 1 = i /\ rest[i] = page[i + 1]
      BY <1>2
    <3>2. i - 1 \in 0 .. Len(rest) /\ 1 + (i - 1) = i
      BY <1>2
    <3>3. page[i + 1].prev = States(seen, page)[(i + 1) - 1][page[i + 1].path]
      BY <2>3, <3>1
    <3>4. States(to, rest)[i - 1] = States(seen, page)[1 + (i - 1)]
      BY <1>10, <3>2
    <3> QED
      BY <3>1, <3>2, <3>3, <3>4, Zenon
  <2>7. ~last => States(to, rest)[Len(rest)] = Logged[Received]
    <3>1. Len(rest) \in 0 .. Len(rest) /\ 1 + Len(rest) = Len(page)
      BY <1>2
    <3>2. States(to, rest)[Len(rest)] = States(seen, page)[1 + Len(rest)]
      BY <1>10, <3>1
    <3> QED
      BY <2>3, <3>1, <3>2, Zenon
  <2> QED
    BY <2>5, <2>6, <2>7
<1>12. BlankOK'
  <2>1. SUFFICES ASSUME begun = deletes
                 PROVE  /\ \A p \in blank' :
                             (\E j \in 1 .. Len(rest) : rest[j].path = p) \/ Coming(p)
                        /\ \A i \in 1 .. Len(rest) :
                             \/ rest[i].value \/ rest[i].cid = NoCid
                             \/ \E j \in i + 1 .. Len(rest) : rest[j].path = rest[i].path
                             \/ Coming(rest[i].path)
    BY <1>1, <1>9 DEF BlankOK, Coming, Pending
  <2>2. /\ \A p \in blank : (\E j \in 1 .. Len(page) : page[j].path = p) \/ Coming(p)
        /\ \A i \in 1 .. Len(page) :
             \/ page[i].value \/ page[i].cid = NoCid
             \/ \E j \in i + 1 .. Len(page) : page[j].path = page[i].path
             \/ Coming(page[i].path)
    BY <1>1, <2>1 DEF SyncInv, BlankOK
  <2>3. \A i \in 1 .. Len(rest) : \A p :
          (\E j \in (i + 1) + 1 .. Len(page) : page[j].path = p)
            => \E j \in i + 1 .. Len(rest) : rest[j].path = p
    <3>1. TAKE i \in 1 .. Len(rest)
    <3> TAKE p
    <3>2. HAVE \E j \in (i + 1) + 1 .. Len(page) : page[j].path = p
    <3>3. PICK j \in (i + 1) + 1 .. Len(page) : page[j].path = p
      BY <3>2
    <3>4. j - 1 \in i + 1 .. Len(rest) /\ j - 1 \in 1 .. Len(rest) /\ (j - 1) + 1 = j
      BY <1>2, <3>3
    <3>5. rest[j - 1] = page[(j - 1) + 1]
      BY <1>2, <3>4
    <3>6. rest[j - 1].path = p
      BY <3>3, <3>4, <3>5, Zenon
    <3> QED
      BY <3>4, <3>6
  <2>4. ASSUME NEW p, NEW j \in 2 .. Len(page), page[j].path = p
        PROVE  \E k \in 1 .. Len(rest) : rest[k].path = p
    <3>1. j - 1 \in 1 .. Len(rest) /\ (j - 1) + 1 = j
      BY <1>2, <2>4
    <3>2. rest[j - 1] = page[(j - 1) + 1]
      BY <1>2, <3>1
    <3>3. rest[j - 1].path = p
      BY <2>4, <3>1, <3>2, Zenon
    <3> QED
      BY <3>1, <3>3
  <2>5. ASSUME NEW p \in blank'
        PROVE  (\E j \in 1 .. Len(rest) : rest[j].path = p) \/ Coming(p)
    <3>1. CASE p = op.path
      <4>1. ~op.value /\ op.cid # NoCid
        BY <1>1, <2>5, <3>1
      <4>2. 1 \in 1 .. Len(page) /\ 1 + 1 = 2
        BY <1>2
      <4>3. \/ \E j \in 1 + 1 .. Len(page) : page[j].path = op.path
            \/ Coming(op.path)
        BY <2>2, <4>1, <4>2 DEF op
      <4>4. (\E j \in 2 .. Len(page) : page[j].path = p) \/ Coming(p)
        BY <3>1, <4>2, <4>3, Zenon
      <4> QED
        BY <2>4, <4>4
    <3>2. CASE p # op.path
      <4>1. p \in blank
        BY <1>1, <2>5, <3>2
      <4>2. (\E j \in 1 .. Len(page) : page[j].path = p) \/ Coming(p)
        BY <2>2, <4>1
      <4>3. CASE \E j \in 1 .. Len(page) : page[j].path = p
        <5>1. PICK j \in 1 .. Len(page) : page[j].path = p
          BY <4>3
        <5>2. j # 1
          BY <3>2, <5>1 DEF op
        <5>3. j \in 2 .. Len(page)
          BY <1>2, <5>2
        <5> QED
          BY <2>4, <5>1, <5>3
      <4> QED
        BY <4>2, <4>3
    <3> QED
      BY <3>1, <3>2
  <2>6. ASSUME NEW i \in 1 .. Len(rest)
        PROVE  \/ rest[i].value \/ rest[i].cid = NoCid
               \/ \E j \in i + 1 .. Len(rest) : rest[j].path = rest[i].path
               \/ Coming(rest[i].path)
    <3>1. i + 1 \in 1 .. Len(page) /\ rest[i] = page[i + 1]
      BY <1>2
    <3>2. \/ page[i + 1].value \/ page[i + 1].cid = NoCid
          \/ \E j \in (i + 1) + 1 .. Len(page) : page[j].path = page[i + 1].path
          \/ Coming(page[i + 1].path)
      BY <2>2, <3>1
    <3>3. CASE \E j \in (i + 1) + 1 .. Len(page) : page[j].path = page[i + 1].path
      <4>1. \E j \in i + 1 .. Len(rest) : rest[j].path = page[i + 1].path
        BY <2>3, <3>3
      <4> QED
        BY <3>1, <4>1
    <3>4. CASE ~ \E j \in (i + 1) + 1 .. Len(page) : page[j].path = page[i + 1].path
      <4>1. page[i + 1].value \/ page[i + 1].cid = NoCid \/ Coming(page[i + 1].path)
        BY <3>2, <3>4
      <4> QED
        BY <3>1, <4>1, Zenon
    <3> QED
      BY <3>3, <3>4
  <2> QED
    BY <2>5, <2>6
<1> QED
  BY <1>7, <1>8, <1>11, <1>12 DEF SyncInv

(* What is not beyond the cursor after a page: what was not, and the page. *)
LEMMA ReceivedGrows ==
  ASSUME StoreInv, NEW m \in 1 .. Len(oplog), oplog' = oplog,
         cursor' = <<oplog[m].rev, oplog[m].idx>>
  PROVE  Received' = m
<1> DEFINE is == {i \in 1 .. Len(oplog) : ~Beyond(oplog[i])'}
<1>1. /\ Len(oplog) \in Nat
      /\ \A i \in 1 .. Len(oplog) : oplog[i].rev \in Nat /\ oplog[i].idx \in Nat
  <2>1. Len(oplog) \in Nat /\ \A i \in 1 .. Len(oplog) : oplog[i] \in Ops
    BY DEF StoreInv, StoreTypes
  <2> QED
    BY <2>1 DEF Ops
<1>2. cursor'[1] = oplog[m].rev /\ cursor'[2] = oplog[m].idx
  OBVIOUS
<1>3. ASSUME NEW i \in 1 .. Len(oplog) PROVE Beyond(oplog[i])' <=> i > m
  <2>1. Beyond(oplog[i])' <=> \/ oplog[i].rev > oplog[m].rev
                              \/ oplog[i].rev = oplog[m].rev /\ oplog[i].idx > oplog[m].idx
    BY <1>2 DEF Beyond
  <2>2. CASE i > m
    <3>1. \/ oplog[m].rev < oplog[i].rev
          \/ oplog[m].rev = oplog[i].rev /\ oplog[m].idx < oplog[i].idx
      BY <1>1, <2>2 DEF StoreInv, OrderOK
    <3> QED
      BY <1>1, <2>1, <2>2, <3>1
  <2>3. CASE i < m
    <3>1. \/ oplog[i].rev < oplog[m].rev
          \/ oplog[i].rev = oplog[m].rev /\ oplog[i].idx < oplog[m].idx
      BY <1>1, <2>3 DEF StoreInv, OrderOK
    <3> QED
      BY <1>1, <2>1, <2>3, <3>1
  <2>4. CASE i = m
    BY <1>1, <2>1, <2>4
  <2> QED
    BY <1>1, <2>2, <2>3, <2>4
<1>4. is = 1 .. m
  <2>1. \A i : i \in 1 .. m <=> i \in 1 .. Len(oplog) /\ ~(i > m)
    BY <1>1
  <2>2. \A i : i \in is <=> i \in 1 .. m
    BY <1>3, <2>1
  <2> QED
    BY <2>2
<1>5. Received' = Cardinality(is)
  BY DEF Received
<1>6. Cardinality(1 .. m) = m
  <2>1. m \in Nat
    BY <1>1
  <2> QED
    BY <2>1, CountAll
<1> QED
  BY <1>4, <1>5, <1>6, Zenon

(* A page of the log, as OpsPage reads it.                                 *)
LEMMA PageIsRead ==
  ASSUME StoreInv, SyncInv, OpsPage
  PROVE  \E n \in Nat :
           /\ Received + n <= Len(oplog) /\ Received' = Received + n
           /\ n = Len(oplog) - Received \/ mode' = "apply"
           /\ mode' \in {"apply", "commit"}
           /\ page' = [i \in 1 .. n |-> PageOp(oplog[Received + i])]
           /\ cursor' \in (0 .. Len(commits)) \X Nat
<1> DEFINE k == Received
           n == IF Len(oplog) - Received < OpsLimit THEN Len(oplog) - Received ELSE OpsLimit
<1>1. k \in 0 .. Len(oplog) /\ Len(oplog) \in Nat /\ OpsLimit \in Nat
  BY ReceivedBound, SpaceAssumption DEF StoreInv, StoreTypes
<1>2. /\ oplog' = oplog /\ page' = [i \in 1 .. n |-> PageOp(oplog[Received + i])]
      /\ cursor' = IF n = 0 THEN cursor ELSE <<oplog[k + n].rev, oplog[k + n].idx>>
      /\ mode' = IF n = OpsLimit THEN "apply" ELSE "commit"
  BY DEF OpsPage, storeVars
<1>3. n \in Nat /\ k + n <= Len(oplog)
  BY <1>1
<1>4. n = Len(oplog) - k \/ mode' = "apply"
  BY <1>1, <1>2
<1>5. mode' \in {"apply", "commit"}
  BY <1>2
<1> HIDE DEF n, k
<1>6. Received' = k + n
  <2>1. CASE n = 0
    <3>1. Received' = Received
      BY <1>2, <2>1 DEF Received, Beyond
    <3> QED
      BY <1>1, <2>1, <3>1 DEF k
  <2>2. CASE n # 0
    <3>1. k + n \in 1 .. Len(oplog)
      BY <1>1, <1>3, <2>2
    <3>2. cursor' = <<oplog[k + n].rev, oplog[k + n].idx>>
      BY <1>2, <2>2
    <3> QED
      BY <1>2, <3>1, <3>2, ReceivedGrows
  <2> QED
    BY <2>1, <2>2
<1>7. cursor' \in (0 .. Len(commits)) \X Nat
  <2>1. CASE n = 0
    BY <1>2, <2>1 DEF SyncInv, SyncTypes
  <2>2. CASE n # 0
    <3>1. k + n \in 1 .. Len(oplog)
      BY <1>1, <1>3, <2>2
    <3>2. oplog[k + n] \in Ops /\ oplog[k + n].rev <= Len(commits) /\ Len(commits) \in Nat
      BY <3>1 DEF StoreInv, StoreTypes
    <3>3. oplog[k + n].rev \in Nat /\ oplog[k + n].idx \in Nat
      BY <3>2 DEF Ops
    <3>4. oplog[k + n].rev \in 0 .. Len(commits)
      BY <3>2, <3>3
    <3> QED
      BY <1>2, <2>2, <3>3, <3>4
  <2> QED
    BY <2>1, <2>2
<1> QED
  BY <1>2, <1>3, <1>4, <1>5, <1>6, <1>7 DEF k

LEMMA OpsPageSyncs ==
  ASSUME StoreInv, SyncInv, OpsPage PROVE SyncInv'
<1> DEFINE k == Received
<1>0. PICK n \in Nat :
      /\ k + n <= Len(oplog) /\ Received' = k + n
      /\ n = Len(oplog) - k \/ mode' = "apply"
      /\ mode' \in {"apply", "commit"}
      /\ page' = [i \in 1 .. n |-> PageOp(oplog[k + i])]
      /\ cursor' \in (0 .. Len(commits)) \X Nat
  BY PageIsRead
<1>1. /\ mode = "ops" /\ last' = FALSE
      /\ UNCHANGED <<oplog, commit, streamed, seen, seenHash, blank, begun,
                     at, have, refused, commits, deletes>>
  BY DEF OpsPage, haveVars, storeVars
<1>2. /\ at # 0 /\ page = << >> /\ last = FALSE
      /\ seen \in Contents /\ oplog \in Seq(Ops) /\ Len(oplog) \in Nat /\ k \in 0 .. Len(oplog)
  <2>1. k \in 0 .. Len(oplog)
    BY ReceivedBound
  <2> HIDE DEF k
  <2> QED
    BY <1>1, <2>1 DEF StoreInv, StoreTypes, SyncInv, SyncTypes, ModesOK
<1> HIDE DEF k
<1>3. Len(page') = n /\ \A i \in 1 .. n : page'[i] = PageOp(oplog[k + i])
  BY <1>0
<1>4. \A i \in 1 .. n : k + i \in 1 .. Len(oplog) /\ oplog[k + i] \in Ops
  BY <1>0, <1>2
<1>5. \A i \in 1 .. n :
        /\ page'[i].path = oplog[k + i].path /\ page'[i].cid = oplog[k + i].cid
        /\ page'[i].prev = oplog[k + i].prev
        /\ page'[i].value <=> HasValue(oplog[k + i])
  BY <1>3 DEF PageOp
<1>6. page' \in Seq(PageOps)
  <2>1. \A i \in 1 .. n : PageOp(oplog[k + i]) \in PageOps
    <3>1. TAKE i \in 1 .. n
    <3>2. oplog[k + i] \in Ops
      BY <1>4
    <3>3. HasValue(oplog[k + i]) \in BOOLEAN
      BY DEF HasValue
    <3> QED
      BY <3>2, <3>3 DEF PageOp, PageOps, Ops, MaybeCids
  <2> QED
    BY <1>0, <2>1
<1>7. SyncTypes'
  BY <1>0, <1>1, <1>6 DEF SyncInv, SyncTypes
<1>8. ModesOK' /\ ArchiveOK'
  BY <1>0, <1>1, <1>2 DEF SyncInv, ModesOK, ArchiveOK
<1>9. CopyOK'
  <2>1. SUFFICES ASSUME CleanBase'
                 PROVE  /\ seenHash = HashOf(seen)
                        /\ \A i \in 1 .. n :
                             page'[i].prev = States(seen, page')[i - 1][page'[i].path]
                        /\ States(seen, page')[n] = Logged[k + n]
    BY <1>0, <1>1, <1>3 DEF CopyOK, Logged
  <2>2. CleanBase
    BY <1>1, <1>2, <2>1 DEF CleanBase
  <2>3. seenHash = HashOf(seen) /\ States(seen, << >>)[0] = Logged[k]
    BY <1>2, <2>2 DEF SyncInv, CopyOK, k
  <2>4. AreOps(<< >>)
    BY DEF AreOps
  <2>5. States(seen, << >>)[0] = seen
    BY <1>2, <2>4, StatesLead DEF Leads
  <2>6. AreOps(page') /\ AreOps(oplog)
    BY <1>2, <1>6, PageOpsAreOps, OpsAreOps
  <2>7. Part(page', oplog, k, n)
    <3>1. k \in Nat /\ n \in Nat /\ k + n <= Len(oplog) /\ n <= Len(page')
      BY <1>0, <1>2, <1>3
    <3>2. \A i \in 1 .. n : page'[i].path = oplog[k + i].path /\ page'[i].cid = oplog[k + i].cid
      BY <1>5
    <3> QED
      BY <3>1, <3>2, Zenon DEF Part
  <2>8. \A i \in 0 .. n : States(seen, page')[i] = Logged[k + i]
    <3>1. States(NoRecords, oplog)[k] = seen
      BY <2>3, <2>5 DEF Logged
    <3>2. NoRecords \in Contents /\ seen \in Contents
      BY <1>2, NothingIsContents
    <3>3. \A i \in 0 .. n : States(seen, page')[i] = States(NoRecords, oplog)[k + i]
      <4> DEFINE t == page'
                 r == NoRecords
      <4>1. /\ AreOps(t) /\ AreOps(oplog) /\ Part(t, oplog, k, n)
            /\ States(r, oplog)[k] = seen /\ r \in Contents /\ seen \in Contents
        BY <2>6, <2>7, <3>1, <3>2
      <4> HIDE DEF t, r
      <4>2. \A i \in 0 .. n : States(seen, t)[i] = States(r, oplog)[k + i]
        BY <4>1, Along
      <4> QED
        BY <4>2 DEF t, r
    <3> QED
      BY <3>3 DEF Logged
  <2>9. ASSUME NEW i \in 1 .. n
        PROVE  page'[i].prev = States(seen, page')[i - 1][page'[i].path]
    <3>1. i - 1 \in 0 .. n /\ k + (i - 1) = (k + i) - 1 /\ k + i \in 1 .. Len(oplog)
      BY <1>2, <1>4
    <3>2. States(seen, page')[i - 1] = Logged[k + (i - 1)]
      BY <2>8, <3>1
    <3>3. oplog[k + i].prev = Logged[(k + i) - 1][oplog[k + i].path]
      BY <3>1 DEF StoreInv, LogOK
    <3>4. page'[i].path = oplog[k + i].path /\ page'[i].prev = oplog[k + i].prev
      BY <1>5
    <3> QED
      BY <3>1, <3>2, <3>3, <3>4, Zenon
  <2>10. States(seen, page')[n] = Logged[k + n]
    <3>1. n \in 0 .. n
      OBVIOUS
    <3> QED
      BY <2>8, <3>1
  <2> QED
    BY <2>3, <2>9, <2>10
<1>10. BlankOK'
  <2>1. SUFFICES ASSUME begun = deletes PROVE BlankOK'
    BY <1>1 DEF BlankOK
  <2>2. ASSUME NEW p, NEW j \in k + 1 .. Len(oplog), oplog[j].path = p
        PROVE  \/ j - k \in 1 .. n /\ page'[j - k].path = p
               \/ Coming(p)'
    <3>1. CASE j <= k + n
      <4>1. j - k \in 1 .. n /\ k + (j - k) = j
        BY <1>2, <2>2, <3>1
      <4>2. page'[j - k].path = oplog[k + (j - k)].path
        BY <1>5, <4>1
      <4> QED
        BY <2>2, <4>1, <4>2, Zenon
    <3>2. CASE j > k + n
      <4>1. mode' = "apply" /\ j \in (k + n) + 1 .. Len(oplog)
        BY <1>0, <1>2, <2>2, <3>2
      <4> QED
        BY <1>0, <1>1, <2>2, <4>1 DEF Coming, Pending
    <3> QED
      BY <1>2, <2>2, <3>1, <3>2
  <2>3. ASSUME NEW p \in blank
        PROVE  (\E j \in 1 .. n : page'[j].path = p) \/ Coming(p)'
    <3>1. \E j \in k + 1 .. Len(oplog) : oplog[j].path = p
      BY <1>1, <1>2, <2>1, <2>3 DEF SyncInv, BlankOK, Coming, k
    <3> QED
      BY <2>2, <3>1
  <2>4. ASSUME NEW i \in 1 .. n, NEW p, p = page'[i].path
        PROVE  \/ page'[i].value \/ page'[i].cid = NoCid
               \/ \E j \in i + 1 .. n : page'[j].path = p
               \/ Coming(p)'
    <3>0. k + i \in 1 .. Len(oplog) /\ p = oplog[k + i].path
      BY <1>4, <1>5, <2>4
    <3>1. CASE HasValue(oplog[k + i])
      BY <1>5, <3>1
    <3>2. CASE ~HasValue(oplog[k + i])
      <4>1. records[oplog[k + i].path] # oplog[k + i].cid
        BY <3>2 DEF HasValue
      <4>2. PICK j \in (k + i) + 1 .. Len(oplog) : oplog[j].path = oplog[k + i].path
        BY <3>0, <4>1, LastOperation
      <4>3. j \in k + 1 .. Len(oplog)
        BY <1>2, <4>2
      <4>4. \/ j - k \in 1 .. n /\ page'[j - k].path = p
            \/ Coming(p)'
        BY <2>2, <3>0, <4>2, <4>3
      <4>5. CASE j - k \in 1 .. n /\ page'[j - k].path = p
        <5>1. j - k \in i + 1 .. n
          BY <1>2, <4>2, <4>5
        <5> QED
          BY <4>5, <5>1
      <4> QED
        BY <4>4, <4>5
    <3> QED
      BY <3>1, <3>2
  <2>5. \A i \in 1 .. n :
          \/ page'[i].value \/ page'[i].cid = NoCid
          \/ \E j \in i + 1 .. n : page'[j].path = page'[i].path
          \/ Coming(page[i].path)'
    <3>1. TAKE i \in 1 .. n
    <3>2. PICK p : p = page'[i].path
      OBVIOUS
    <3>3. Coming(p)' => Coming(page[i].path)'
      BY <3>2 DEF Coming
    <3> QED
      BY <2>4, <3>2, <3>3
  <2> QED
    BY <1>1, <1>3, <2>3, <2>5 DEF BlankOK
<1> QED
  BY <1>7, <1>8, <1>9, <1>10 DEF SyncInv

LEMMA SyncInit == SpaceInit => SyncInv
<1> SUFFICES ASSUME SpaceInit PROVE SyncInv
  OBVIOUS
<1> USE DEF SpaceInit
<1>0. EmptyHash \in Hashes /\ NoRecords \in Contents
  BY NothingIsContents, HashOfIsHash
<1>1. SyncTypes
  <2>1. NoCommit \in [rev : 0 .. 0, hash : Hashes]
    BY <1>0 DEF NoCommit
  <2>2. <<0, 0>> \in (0 .. 0) \X Nat /\ << >> \in Seq(PageOps) /\ -1 \in Int
    OBVIOUS
  <2> QED
    BY <1>0, <2>1, <2>2 DEF SyncTypes
<1>2. ModesOK /\ ArchiveOK /\ CopyOK /\ BlankOK
  BY DEF ModesOK, ArchiveOK, CopyOK, CleanBase, BlankOK
<1> QED
  BY <1>1, <1>2 DEF SyncInv

SpaceInv == StoreInv /\ SyncInv

LEMMA SyncNext == SpaceInv /\ [SpaceNext]_vars => SyncInv'
<1> SUFFICES ASSUME StoreInv, SyncInv, [SpaceNext]_vars PROVE SyncInv'
  BY DEF SpaceInv
<1>1. CASE CreateSpace
  BY <1>1, SyncKept DEF CreateSpace
<1>2. CASE DeleteSpace
  BY <1>2, DeleteSpaceSyncs
<1>3. CASE \E b \in Batches : BeginWrites(b)
  BY <1>3, SyncKept DEF BeginWrites, storeVars
<1>4. CASE ApplyWrite
  <2>1. CASE Tail(todo) # << >>
    <3>1. UNCHANGED <<syncVars, haveVars, oplog, commits, deletes>>
      BY <1>4, <2>1 DEF ApplyWrite, storeVars
    <3> QED
      BY <3>1, SyncKept
  <2> QED
    BY <1>4, <2>1, CommitSyncs
<1>5. CASE AbortWrites
  BY <1>5, SyncKept DEF AbortWrites, storeVars
<1>6. CASE FullNext
  BY <1>6, BeginFullSyncs, RecordsPageSyncs, EndFullSyncs DEF FullNext
<1>7. CASE OpsNext
  BY <1>7, BeginOpsSyncs, OpsPageSyncs, ReadCommitSyncs, ApplyPageOpSyncs,
     AskForMoreOpsSyncs, EndOpsSyncs DEF OpsNext
<1>8. CASE UNCHANGED vars
  BY <1>8, SyncKept DEF vars, storeVars
<1> QED
  BY <1>1, <1>2, <1>3, <1>4, <1>5, <1>6, <1>7, <1>8 DEF SpaceNext, HostNext

LEMMA SpaceInvCorrect == SpaceSpec => []SpaceInv
<1>1. SpaceInit => SpaceInv
  BY StoreInit, SyncInit DEF SpaceInv
<1>2. SpaceInv /\ [SpaceNext]_vars => SpaceInv'
  BY StoreNext, SyncNext DEF SpaceInv
<1> QED
  BY <1>1, <1>2, PTL DEF SpaceSpec

(* Types; the operation log is in the order of its revisions and indexes   *)
(* (listRepoOps pages by them).                                            *)
THEOREM SpaceTypeCorrect == SpaceSpec => []SpaceTypeOK
<1>1. ASSUME SpaceInv PROVE SpaceTypeOK
  <2>1. /\ StoreTypes /\ OrderOK /\ SyncTypes
    BY <1>1 DEF SpaceInv, StoreInv, SyncInv
  <2>2. commit.rev \in 0 .. Len(commits) /\ commit.hash \in Hashes
    BY <2>1 DEF SyncTypes
  <2>3. \A r \in 1 .. Len(commits) : commits[r] \in [life : 0 .. deletes, records : Contents]
    <3>1. TAKE r \in 1 .. Len(commits)
    <3>2. commits \in Seq([life : Nat, records : Contents]) /\ deletes \in Nat
      BY <2>1 DEF StoreTypes
    <3>3. commits[r] \in [life : Nat, records : Contents]
      BY <3>2, ElementOfSeq
    <3>4. commits[r].life \in 0 .. deletes
      BY <2>1, <3>2, <3>3 DEF StoreTypes
    <3> QED
      BY <3>3, <3>4
  <2> QED
    BY <2>1, <2>2, <2>3 DEF StoreTypes, OrderOK, SyncTypes, SpaceTypeOK
<1>2. SpaceInv => SpaceTypeOK
  BY <1>1
<1> QED
  BY <1>2, SpaceInvCorrect, PTL

(* A complete copy has the value of every record: those listRepoOps left   *)
(* off come with a later operation (the join on uri and cid).              *)
THEOREM AcceptedHasValuesCorrect == SpaceSpec => []AcceptedHasValues
<1>1. ASSUME SpaceInv PROVE AcceptedHasValues
  <2>1. SUFFICES ASSUME Ended, begun = deletes PROVE blank = {}
    BY DEF AcceptedHasValues
  <2>2. CASE mode = "full"
    BY <1>1, <2>2 DEF SpaceInv, SyncInv, ArchiveOK
  <2>3. CASE mode = "apply" /\ page = << >> /\ last
    <3>1. \A p \in blank : (\E j \in 1 .. Len(page) : page[j].path = p) \/ Coming(p)
      BY <1>1, <2>1, <2>3 DEF SpaceInv, SyncInv, BlankOK
    <3>2. \A p : ~Coming(p)
      BY <2>3 DEF Coming, Pending
    <3>3. 1 .. Len(page) = {}
      BY <2>3
    <3> QED
      BY <3>1, <3>2, <3>3
  <2> QED
    BY <2>1, <2>2, <2>3 DEF Ended
<1>2. SpaceInv => AcceptedHasValues
  BY <1>1
<1> QED
  BY <1>2, SpaceInvCorrect, PTL

(* What matches its commit is the commit, from an archive or on top of a   *)
(* copy that was a commit of the same life of the space.                   *)
LEMMA MatchIsCommit ==
  ASSUME SpaceInv, Verify, Matches, mode = "full" \/ last, UNCHANGED commits
  PROVE  Promise!Accept
<1>1. /\ commit.rev \in 0 .. Len(commits) /\ commit.rev # 0 /\ at <= commit.rev
      /\ at \in 0 .. Len(commits) /\ Len(commits) \in Nat
      /\ commit.hash = HashOf(commits[commit.rev].records)
      /\ seen \in Contents /\ have \in Contents
  BY DEF SpaceInv, StoreInv, StoreTypes, SyncInv, SyncTypes, ModesOK
<1>2. commit.rev \in 1 .. Len(commits)
  BY <1>1
<1>3. commits[commit.rev].records \in Contents
  BY <1>2, CommitIsRecord DEF SpaceInv
<1>4. at' = commit.rev /\ have' = seen /\ seenHash = commit.hash
  BY DEF Verify, Matches
<1>5. seenHash = HashOf(seen) => seen = commits[commit.rev].records
  BY <1>1, <1>3, <1>4, HashTellsApart
<1>6. \/ have' = commits[commit.rev].records
      \/ /\ at # 0
         /\ commits[at].life # commits[commit.rev].life \/ have # commits[at].records
         /\ have' \in Contents
  <2>1. CASE mode = "full"
    BY <1>4, <1>5, <2>1 DEF SpaceInv, SyncInv, ArchiveOK
  <2>2. CASE last
    <3>1. mode = "apply" /\ at # 0
      BY <2>2 DEF SpaceInv, SyncInv, ModesOK
    <3>2. CASE have = commits[at].records /\ commits[at].life = commits[commit.rev].life
      <4>1. CleanBase
        BY <2>2, <3>1, <3>2 DEF CleanBase
      <4>2. seenHash = HashOf(seen)
        BY <4>1 DEF SpaceInv, SyncInv, CopyOK
      <4> QED
        BY <1>4, <1>5, <4>2
    <3> QED
      BY <1>1, <1>4, <3>1, <3>2
  <2> QED
    BY <2>1, <2>2
<1> QED
  BY <1>1, <1>2, <1>4, <1>6 DEF Promise!Accept

LEMMA FrontOfLonger ==
  ASSUME NEW S, NEW s \in Seq(S), NEW t \in Seq(S), Len(t) = Len(s) + 1,
         \A r \in 1 .. Len(s) : t[r] = s[r]
  PROVE  SubSeq(t, 1, Len(s)) = s
<1> DEFINE front == SubSeq(t, 1, Len(s))
<1>1. Len(s) \in Nat /\ Len(s) <= Len(t)
  BY LenProperties
<1>2. /\ front \in Seq(S) /\ Len(front) = Len(s)
      /\ \A r \in 1 .. Len(s) : front[r] = t[r]
  BY <1>1, SubSeqProperties
<1> HIDE DEF front
<1>3. \A r \in 1 .. Len(s) : front[r] = s[r]
  BY <1>2
<1>4. front = s
  BY <1>2, <1>3, SeqEqual
<1> QED
  BY <1>4 DEF front

(* Whatever the consumer accepts is a commit of the host, whole, and none  *)
(* older than it had: SpaceRepo implements SpacePromise (RepoCommit.matches*)
(* against what getRepo and listRepoOps read outside of a transaction).    *)
THEOREM ReadsCommittedCorrect == SpaceSpec => ReadsCommitted
<1>1. SpaceInit => Promise!PromiseInit
  BY NothingIsContents DEF SpaceInit, Promise!PromiseInit
<1>2. ASSUME SpaceInv, [SpaceNext]_vars
      PROVE  [Promise!Publish \/ Promise!Accept]_<<commits, at, have>>
  <2>1. CASE ApplyWrite
    <3>0. UNCHANGED <<at, have>>
      BY <2>1 DEF ApplyWrite, haveVars
    <3>1. CASE Tail(todo) # << >>
      BY <2>1, <3>0, <3>1 DEF ApplyWrite
    <3>2. CASE Tail(todo) = << >>
      <4>1. PICK ops, recs : Committed(ops, recs) /\ Batch(ops, recs)
        BY <1>2, <2>1, <3>2, LastWrite DEF SpaceInv
      <4>2. /\ commits' \in Seq([life : Nat, records : Contents])
            /\ Len(commits) \in Nat /\ Len(commits') = Len(commits) + 1
            /\ \A r \in 1 .. Len(commits) : commits'[r] = commits[r]
            /\ commits'[Len(commits) + 1] = [life |-> deletes, records |-> recs]
        BY <1>2, <4>1, CommitsGrow DEF SpaceInv
      <4>3. commits \in Seq([life : Nat, records : Contents])
        BY <1>2 DEF SpaceInv, StoreInv, StoreTypes
      <4>4. SubSeq(commits', 1, Len(commits)) = commits
        <5> DEFINE t == commits'
        <5>1. /\ t \in Seq([life : Nat, records : Contents]) /\ Len(t) = Len(commits) + 1
              /\ \A r \in 1 .. Len(commits) : t[r] = commits[r]
          BY <4>2
        <5> HIDE DEF t
        <5>2. SubSeq(t, 1, Len(commits)) = commits
          BY <4>3, <5>1, FrontOfLonger
        <5> QED
          BY <5>2 DEF t
      <4>5. commits'[Len(commits')] \in [life : Nat, records : Contents]
        <5> DEFINE t == commits'
        <5>1. Len(t) \in 1 .. Len(t) /\ t \in Seq([life : Nat, records : Contents])
          BY <4>2
        <5> HIDE DEF t
        <5>2. t[Len(t)] \in [life : Nat, records : Contents]
          BY <5>1, ElementOfSeq
        <5> QED
          BY <5>2 DEF t
      <4> QED
        BY <3>0, <4>2, <4>4, <4>5 DEF Promise!Publish
    <3> QED
      BY <3>1, <3>2
  <2>2. CASE EndFullSync \/ EndOpsSync
    <3>1. Verify /\ (mode = "full" \/ last) /\ UNCHANGED commits
      BY <2>2 DEF EndFullSync, EndOpsSync
    <3>2. CASE Matches
      BY <1>2, <3>1, <3>2, MatchIsCommit
    <3>3. CASE ~Matches
      BY <3>1, <3>3 DEF Verify
    <3> QED
      BY <3>2, <3>3
  <2>3. CASE CreateSpace \/ DeleteSpace \/ (\E b \in Batches : BeginWrites(b)) \/ AbortWrites
    BY <2>3 DEF CreateSpace, DeleteSpace, BeginWrites, AbortWrites, haveVars
  <2>4. CASE BeginFullSync \/ RecordsPage
    BY <2>4 DEF BeginFullSync, RecordsPage, haveVars
  <2>5. CASE \/ BeginOpsSync \/ OpsPage \/ ReadCommit \/ ApplyPageOp \/ AskForMoreOps
    BY <2>5 DEF BeginOpsSync, OpsPage, ReadCommit, ApplyPageOp, AskForMoreOps, haveVars
  <2>6. CASE UNCHANGED vars
    BY <2>6 DEF vars, haveVars
  <2> QED
    BY <1>2, <2>1, <2>2, <2>3, <2>4, <2>5, <2>6 DEF SpaceNext, HostNext, FullNext, OpsNext
<1>3. SpaceInv /\ [SpaceNext]_vars => [Promise!Publish \/ Promise!Accept]_<<commits, at, have>>
  BY <1>2
<1> QED
  BY <1>1, <1>3, SpaceInvCorrect, PTL
     DEF SpaceSpec, ReadsCommitted, Promise!PromiseSpec, Promise!promiseVars
=============================================================================
