-------------------------- MODULE RepoWriteProofs --------------------------
(***************************************************************************)
(* Theorems about RepoWrite, for any number of writers, keys, records,     *)
(* requests, failures and crashes: types, no lost update, and requests     *)
(* that take effect in one step.                                           *)
(***************************************************************************)
EXTENDS RepoWrite, TLAPS

----------------------------------------------------------------------------
(* The requests.                                                           *)

(* What a client may ask is a request.                                     *)
LEMMA RequestsTyped ==
  ASSUME NEW records \in Records, NEW head \in Nat
  PROVE  Requests(head, records) \cup Imports \subseteq AllRequests
<1> SUFFICES ASSUME NEW r \in Requests(head, records) \cup Imports
             PROVE  r \in AllRequests
  OBVIOUS
<1> DEFINE Batch == (SUBSET AllWrites) \ {{}}
           Swap  == Values \cup {Gone, NotGiven}
<1>1. /\ Creates \subseteq AllWrites /\ Updates \subseteq AllWrites /\ Deletes \subseteq AllWrites
      /\ Batches \subseteq Batch
  <2>1. /\ Creates \subseteq AllWrites /\ Updates \subseteq AllWrites /\ Deletes \subseteq AllWrites
    BY DEF Creates, Updates, Deletes, Write, AllWrites
  <2>2. ASSUME NEW b \in Batches PROVE b \subseteq AllWrites /\ b # {}
    <3>1. b \in (SUBSET (Creates \cup Updates \cup Deletes)) \ {{}}
      BY DEF Batches
    <3>2. b \subseteq Creates \cup Updates \cup Deletes /\ b # {}
      BY <3>1, Zenon
    <3> QED
      BY <2>1, <3>2
  <2> QED
    BY <2>1, <2>2
<1>2. \A x \in AllWrites : x.key \in Keys /\ {x} \in Batch
  <2> SUFFICES ASSUME NEW x \in AllWrites PROVE x.key \in Keys /\ {x} \in Batch
    OBVIOUS
  <2>1. x.key \in Keys
    BY DEF AllWrites
  <2>2. {x} \subseteq AllWrites /\ {x} # {}
    OBVIOUS
  <2> QED
    BY <2>1, <2>2
<1>3. \A k \in Keys : records[k] \in Swap
  BY DEF Records
<1>4. \A api \in Apis, ws \in Batch, sr \in Swap, sc \in Nat \cup {NotGiven} :
        Request(api, ws, sr, sc) \in AllRequests
  BY DEF Request, AllRequests
<1>5. /\ NotGiven \in Swap /\ {NotGiven, head} \subseteq Nat \cup {NotGiven}
      /\ {"createRecord", "putRecord", "deleteRecord", "applyWrites", "importRepo"} = Apis
  BY DEF Apis
<1> HIDE DEF Batch, Swap
<1>6. CASE \E x \in Creates, c \in {NotGiven, head} :
             r = Request("createRecord", {x}, NotGiven, c)
  BY <1>1, <1>2, <1>4, <1>5, <1>6
<1>7. CASE \E x \in Updates, c \in {NotGiven, head} :
             r = Request("putRecord", {x}, NotGiven, c)
  BY <1>1, <1>2, <1>4, <1>5, <1>7
<1>8. CASE \E x \in Updates : r = Request("putRecord", {x}, records[x.key], NotGiven)
  BY <1>1, <1>2, <1>3, <1>4, <1>5, <1>8
<1>9. CASE \E x \in Deletes, c \in {NotGiven, head} :
             r = Request("deleteRecord", {x}, NotGiven, c)
  BY <1>1, <1>2, <1>4, <1>5, <1>9
<1>10. CASE \E x \in Deletes : r = Request("deleteRecord", {x}, records[x.key], NotGiven)
  BY <1>1, <1>2, <1>3, <1>4, <1>5, <1>10
<1>11. CASE \E b \in Batches, c \in {NotGiven, head} :
              r = Request("applyWrites", b, NotGiven, c)
  BY <1>1, <1>4, <1>5, <1>11
<1>12. CASE \E x \in Creates \cup Deletes : r = Request("importRepo", {x}, NotGiven, NotGiven)
  BY <1>1, <1>2, <1>4, <1>5, <1>12
<1>13. CASE r \in Imports
  BY <1>12, <1>13 DEF Imports
<1>14. CASE r \in Requests(head, records)
  <2> DEFINE A1 == {Request("createRecord", {x}, NotGiven, c) : x \in Creates, c \in {NotGiven, head}}
             A2 == {Request("putRecord", {x}, NotGiven, c) : x \in Updates, c \in {NotGiven, head}}
             A3 == {Request("putRecord", {x}, records[x.key], NotGiven) : x \in Updates}
             A4 == {Request("deleteRecord", {x}, NotGiven, c) : x \in Deletes, c \in {NotGiven, head}}
             A5 == {Request("deleteRecord", {x}, records[x.key], NotGiven) :
                      x \in {y \in Deletes : records[y.key] # Gone}}
             A6 == {Request("applyWrites", b, NotGiven, c) : b \in Batches, c \in {NotGiven, head}}
  <2>1. Requests(head, records) = A1 \cup A2 \cup A3 \cup A4 \cup A5 \cup A6
    BY DEF Requests
  <2>2. CASE r \in A1
    BY <2>2, <1>6
  <2>3. CASE r \in A2
    BY <2>3, <1>7
  <2>4. CASE r \in A3
    BY <2>4, <1>8
  <2>5. CASE r \in A4
    BY <2>5, <1>9
  <2>6. CASE r \in A5
    BY <2>6, <1>10
  <2>7. CASE r \in A6
    BY <2>7, <1>11
  <2> HIDE DEF A1, A2, A3, A4, A5, A6
  <2> QED
    BY <1>14, <2>1, <2>2, <2>3, <2>4, <2>5, <2>6, <2>7
<1> QED
  BY <1>13, <1>14

(* The writes a request amounts to are writes.                             *)
LEMMA PreparedTyped ==
  ASSUME NEW r \in AllRequests, NEW records \in Records
  PROVE  Prepared(r, records) \subseteq AllWrites
<1> DEFINE x == The(r)
           dups == Duplicates(x, records)
<1>1. x \in AllWrites
  BY DEF The, AllRequests
<1>2. r.writes \subseteq AllWrites
  BY DEF AllRequests
<1>3. \A y \in AllWrites, a \in {"create", "update", "delete"} :
        [y EXCEPT !.action = a] \in AllWrites
  BY DEF AllWrites
<1>4. \A k \in Keys : Write("delete", k, Gone) \in AllWrites
  BY DEF Write, AllWrites
<1>5. dups \subseteq Keys
  BY DEF Duplicates
<1> HIDE DEF x, dups
<1>6. CASE r.api = "putRecord"
  <2>1. Prepared(r, records)
          = {[x EXCEPT !.action = IF records[x.key] = Gone THEN "create" ELSE "update"]}
    BY <1>6 DEF Prepared, x
  <2> QED
    BY <2>1, <1>1, <1>3
<1>7. CASE r.api = "createRecord"
  <2>1. Prepared(r, records)
          = {Write("delete", k, Gone) : k \in dups \ {x.key}}
              \cup {[x EXCEPT !.action = IF x.key \in dups THEN "update" ELSE "create"]}
    BY <1>7 DEF Prepared, x, dups
  <2> QED
    BY <2>1, <1>1, <1>3, <1>4, <1>5
<1>8. CASE r.api \notin {"putRecord", "createRecord"}
  BY <1>8, <1>2 DEF Prepared
<1> QED
  BY <1>6, <1>7, <1>8

(* A request makes records of records.                                     *)
LEMMA AppliedTyped ==
  ASSUME NEW r \in AllRequests, NEW records \in Records
  PROVE  Applied(r, records) \in Records
<1> DEFINE writes == Prepared(r, records)
<1>1. \A x \in writes : x.value \in Values \cup {Gone}
  BY PreparedTyped DEF AllWrites
<1> HIDE DEF writes
<1>2. ASSUME NEW k \in Keys, \E x \in writes : x.key = k
      PROVE  (CHOOSE x \in writes : x.key = k).value \in Values \cup {Gone}
  BY <1>1, <1>2
<1>3. ASSUME NEW k \in Keys
      PROVE  (IF \E x \in writes : x.key = k
              THEN (CHOOSE x \in writes : x.key = k).value
              ELSE records[k]) \in Values \cup {Gone}
  BY <1>2, <1>3 DEF Records
<1> QED
  BY <1>3 DEF Applied, Records, writes

----------------------------------------------------------------------------
(* The inductive invariant.  What a transaction is about to commit was     *)
(* made on the root, of a request that fits it, for as long as it has the  *)
(* lock; what it has only formed may be of an older root.                  *)

TxnOK(w) ==
  /\ txn[w].at = "idle" => txn[w] = Idle
  /\ txn[w].at # "idle" => txn[w].req \in AllRequests
  /\ txn[w].at = "formed" =>
       /\ txn[w].snap \in 1 .. Len(made)
       /\ Fits(txn[w].req, txn[w].snap, made[txn[w].snap].records)
  /\ txn[w].at \in {"applied", "sequenced"} =>
       /\ txn[w].mine \in 1 .. Len(made)
       /\ txn[w].mine # Root
       /\ made[txn[w].mine].prev = Root
       /\ made[txn[w].mine].records = Applied(txn[w].req, HeadRecords)
       /\ Fits(txn[w].req, Root, HeadRecords)
  /\ txn[w].at = "committed" => \E i \in 1 .. Len(roots) : roots[i] = txn[w].mine

RepoInv ==
  /\ RepoTypeOK
  /\ \A w \in Writers : TxnOK(w)
  /\ NoLostUpdate

TxnRecords == [at : Places, req : AllRequests \cup {NoRequest},
               snap : 0 .. Len(made), mine : 0 .. Len(made)]

(* What the types say of sequences.                                        *)
LEMMA Elements ==
  ASSUME NEW S, NEW s \in Seq(S)
  PROVE  Len(s) \in Nat /\ \A i \in 1 .. Len(s) : s[i] \in S
  OBVIOUS

LEMMA WiderSeq ==
  ASSUME NEW S, NEW T, S \subseteq T, NEW s \in Seq(S)
  PROVE  s \in Seq(T)
  OBVIOUS

(* The roots are commits, and the records of a commit are records.         *)
LEMMA RootTyped ==
  ASSUME RepoTypeOK
  PROVE  /\ Len(roots) \in Nat /\ Len(roots) > 0 /\ Len(made) \in Nat
         /\ \A i \in 1 .. Len(roots) : roots[i] \in 1 .. Len(made)
         /\ \A c \in 1 .. Len(made) : made[c].records \in Records
         /\ Root \in 1 .. Len(made)
         /\ HeadRecords \in Records
<1>1. /\ roots \in Seq(1 .. Len(made)) /\ roots # <<>>
      /\ made \in Seq([prev : Nat, records : Records])
  BY DEF RepoTypeOK
<1>2. /\ Len(roots) \in Nat /\ Len(made) \in Nat
      /\ \A i \in 1 .. Len(roots) : roots[i] \in 1 .. Len(made)
      /\ \A c \in 1 .. Len(made) : made[c] \in [prev : Nat, records : Records]
  BY <1>1, Elements, Zenon
<1>3. Len(roots) > 0
  BY <1>1
<1>4. \A c \in 1 .. Len(made) : made[c].records \in Records
  BY <1>2
<1>5. Root \in 1 .. Len(made)
  BY <1>2, <1>3 DEF Root
<1> QED
  BY <1>2, <1>3, <1>4, <1>5 DEF HeadRecords

LEMMA InitRepoInv == RepoInit => RepoInv
<1> SUFFICES ASSUME RepoInit PROVE RepoInv
  OBVIOUS
<1> USE DEF RepoInit
<1>1. RepoTypeOK
  <2>1. [k \in Keys |-> Gone] \in Records
    BY DEF Records
  <2>2. /\ made \in Seq([prev : Nat, records : Records]) /\ Len(made) = 1
        /\ roots \in Seq(1 .. Len(made)) /\ roots # <<>>
    BY <2>1
  <2>3. \A w \in Writers : txn[w] = Idle
    OBVIOUS
  <2>4. txn \in [Writers -> TxnRecords]
    BY <2>2 DEF TxnRecords, Idle, Places
  <2>5. stream \in Seq([kind : {"commit", "sync", "deleted"}, cid : 0 .. Len(made)])
    BY <2>2 DEF Event
  <2>6. \A w \in Writers : lock # w /\ txn[w].at \notin {"applied", "sequenced"}
    BY <2>3, RepoWriteAssumption DEF Idle
  <2> QED
    BY <2>2, <2>4, <2>5, <2>6 DEF RepoTypeOK, TxnRecords, Statuses, NotSyncing
<1>2. ASSUME NEW w \in Writers PROVE TxnOK(w)
  <2>1. txn[w] = Idle /\ txn[w].at = "idle"
    BY DEF Idle
  <2> QED
    BY <2>1 DEF TxnOK
<1>3. NoLostUpdate
  BY DEF NoLostUpdate
<1> QED
  BY <1>1, <1>2, <1>3 DEF RepoInv

----------------------------------------------------------------------------
(* No commit is ever changed or forgotten.                                 *)
Grows ==
  /\ Len(made') \in Nat /\ Len(made) <= Len(made')
  /\ \A c \in 1 .. Len(made) : made'[c] = made[c]
  /\ Len(roots') \in Nat /\ Len(roots) <= Len(roots')
  /\ \A i \in 1 .. Len(roots) : roots'[i] = roots[i]

LEMMA StoreUnchanged ==
  ASSUME RepoTypeOK, UNCHANGED <<made, roots>>
  PROVE  Grows /\ Root' = Root /\ HeadRecords' = HeadRecords
  BY RootTyped DEF Grows, Root, HeadRecords

(* Who does nothing is left with what the invariant says, as long as no    *)
(* other writer moves the root under a transaction that has written.       *)
LEMMA OthersKept ==
  ASSUME RepoInv, Grows,
         NEW v \in Writers, txn'[v] = txn[v],
         \/ Root' = Root
         \/ txn[v].at \notin {"applied", "sequenced"}
  PROVE  TxnOK(v)'
<1>1. /\ Len(roots) \in Nat /\ Len(made) \in Nat /\ Root \in 1 .. Len(made)
      /\ TxnOK(v)
  BY RootTyped DEF RepoInv
<1>2. (txn[v].at = "idle" => txn[v] = Idle)' /\ (txn[v].at # "idle" => txn[v].req \in AllRequests)'
  BY <1>1 DEF TxnOK
<1>3. ASSUME txn[v].at = "formed"
      PROVE  /\ txn[v].snap \in 1 .. Len(made')
             /\ Fits(txn[v].req, txn[v].snap, made'[txn[v].snap].records)
  <2>1. /\ txn[v].snap \in 1 .. Len(made)
        /\ Fits(txn[v].req, txn[v].snap, made[txn[v].snap].records)
    BY <1>1, <1>3 DEF TxnOK
  <2>2. made'[txn[v].snap] = made[txn[v].snap] /\ txn[v].snap \in 1 .. Len(made')
    BY <2>1, <1>1 DEF Grows
  <2> QED
    BY <2>1, <2>2
<1>4. ASSUME txn[v].at \in {"applied", "sequenced"}
      PROVE  /\ txn[v].mine \in 1 .. Len(made')
             /\ txn[v].mine # Root'
             /\ made'[txn[v].mine].prev = Root'
             /\ made'[txn[v].mine].records = Applied(txn[v].req, HeadRecords')
             /\ Fits(txn[v].req, Root', HeadRecords')
  <2>1. Root' = Root
    BY <1>4
  <2>2. HeadRecords' = HeadRecords
    BY <1>1, <2>1 DEF HeadRecords, Grows
  <2>3. /\ txn[v].mine \in 1 .. Len(made)
        /\ txn[v].mine # Root
        /\ made[txn[v].mine].prev = Root
        /\ made[txn[v].mine].records = Applied(txn[v].req, HeadRecords)
        /\ Fits(txn[v].req, Root, HeadRecords)
    BY <1>1, <1>4 DEF TxnOK
  <2>4. txn[v].mine \in 1 .. Len(made') /\ made'[txn[v].mine] = made[txn[v].mine]
    BY <1>1, <2>3 DEF Grows
  <2> QED
    BY <2>1, <2>2, <2>3, <2>4
<1>5. ASSUME txn[v].at = "committed"
      PROVE  \E i \in 1 .. Len(roots') : roots'[i] = txn[v].mine
  <2>1. PICK i \in 1 .. Len(roots) : roots[i] = txn[v].mine
    BY <1>1, <1>5 DEF TxnOK
  <2>2. i \in 1 .. Len(roots') /\ roots'[i] = roots[i]
    BY <1>1 DEF Grows
  <2> QED
    BY <2>1, <2>2
<1> QED
  BY <1>2, <1>3, <1>4, <1>5 DEF TxnOK

(* No update is lost where none is added, and clients are told of no more  *)
(* than what the store has.                                                *)
LEMMA NoLossKept ==
  ASSUME RepoInv, Grows, roots' = roots,
         \A c \in acked' \ acked : \E i \in 1 .. Len(roots) : roots[i] = c
  PROVE  NoLostUpdate'
<1>1. /\ Len(roots) \in Nat /\ Len(made) \in Nat /\ NoLostUpdate
      /\ \A i \in 1 .. Len(roots) : roots[i] \in 1 .. Len(made)
  BY RootTyped DEF RepoInv
<1>2. ASSUME NEW i \in 1 .. Len(roots) - 1
      PROVE  made'[roots[i + 1]].prev = roots[i]
  <2>1. i + 1 \in 1 .. Len(roots)
    BY <1>1
  <2>2. roots[i + 1] \in 1 .. Len(made)
    BY <1>1, <2>1
  <2>3. made'[roots[i + 1]] = made[roots[i + 1]]
    BY <2>2 DEF Grows
  <2> QED
    BY <1>1, <2>3 DEF NoLostUpdate
<1>3. \A c \in acked' : \E i \in 1 .. Len(roots) : roots[i] = c
  BY <1>1 DEF NoLostUpdate
<1> QED
  BY <1>2, <1>3 DEF NoLostUpdate

----------------------------------------------------------------------------
(* The steps of a writer that leave the store as it is.                    *)
MovesTo(w, rec) ==
  /\ txn' \in [Writers -> TxnRecords]
  /\ txn'[w] = rec
  /\ \A v \in Writers \ {w} : txn'[v] = txn[v]

LEMMA Moves ==
  ASSUME RepoTypeOK, NEW w \in Writers
  PROVE  /\ Ends(w) => MovesTo(w, Idle)
         /\ StartsOver(w) => MovesTo(w, Asked(txn[w].req))
         /\ \A p \in Places :
              Goto(w, p) => MovesTo(w, [at |-> p, req |-> txn[w].req,
                                        snap |-> txn[w].snap, mine |-> txn[w].mine])
<1>0. Len(made) \in Nat
  BY RootTyped
<1>1. txn \in [Writers -> TxnRecords] /\ Len(made) \in Nat
  BY <1>0 DEF RepoTypeOK, TxnRecords
<1>2. Idle \in TxnRecords
  BY <1>1 DEF Idle, TxnRecords, Places
<1>3. Asked(txn[w].req) \in TxnRecords
  BY <1>1 DEF Asked, TxnRecords, Places
<1>4. \A p \in Places : [at |-> p, req |-> txn[w].req, snap |-> txn[w].snap, mine |-> txn[w].mine]
                            \in TxnRecords
  BY <1>1 DEF TxnRecords
<1>5. \A p : [txn[w] EXCEPT !.at = p] = [at |-> p, req |-> txn[w].req,
                                       snap |-> txn[w].snap, mine |-> txn[w].mine]
  BY <1>1 DEF TxnRecords
<1>6. ASSUME NEW rec \in TxnRecords, txn' = [txn EXCEPT ![w] = rec]
      PROVE  MovesTo(w, rec)
  BY <1>1, <1>6 DEF MovesTo
<1>7. Ends(w) => MovesTo(w, Idle)
  BY <1>2, <1>6 DEF Ends
<1>8. StartsOver(w) => MovesTo(w, Asked(txn[w].req))
  BY <1>3, <1>6 DEF StartsOver
<1>9. ASSUME NEW p \in Places, Goto(w, p)
       PROVE  MovesTo(w, [at |-> p, req |-> txn[w].req,
                          snap |-> txn[w].snap, mine |-> txn[w].mine])
  <2>1. txn' = [txn EXCEPT ![w] = [txn[w] EXCEPT !.at = p]]
    BY <1>9, Zenon DEF Goto
  <2> QED
    BY <2>1, <1>4, <1>5, <1>6
<1> QED
  BY <1>7, <1>8, <1>9

HoldsLock(rec) == rec.at \in {"applied", "sequenced"}

LEMMA WriterStep ==
  ASSUME RepoInv, NEW w \in Writers, NEW rec, MovesTo(w, rec),
         UNCHANGED <<made, roots>>,
         \/ lock' = lock /\ (HoldsLock(rec) <=> HoldsLock(txn[w]))
         \/ lock = w /\ lock' = NoRequest /\ ~HoldsLock(rec),
         TxnOK(w)',
         \/ stream' = stream
         \/ \E c \in 1 .. Len(made) : stream' = Append(stream, Event("commit", c)),
         accountRoot' \in 0 .. Len(made),
         UNCHANGED <<status, syncing>>,
         \/ acked' = acked
         \/ \E i \in 1 .. Len(roots) : acked' = acked \cup {roots[i]}
  PROVE  RepoInv'
<1>1. /\ RepoTypeOK
      /\ \A i \in 1 .. Len(roots) : roots[i] \in 1 .. Len(made)
      /\ Grows /\ Root' = Root
  BY RootTyped, StoreUnchanged DEF RepoInv
<1>2. ASSUME NEW v \in Writers
      PROVE  TxnOK(v)'
  <2>1. CASE v # w
    BY <1>1, <2>1, OthersKept DEF MovesTo
  <2> QED
    BY <2>1
<1>3. NoLostUpdate'
  BY <1>1, NoLossKept
<1>4. ASSUME NEW v \in Writers
      PROVE  txn'[v].at \in {"applied", "sequenced"} <=> lock' = v
  <2>1. txn[v].at \in {"applied", "sequenced"} <=> lock = v
    BY <1>1 DEF RepoTypeOK
  <2>2. txn[w].at \in {"applied", "sequenced"} <=> lock = w
    BY <1>1 DEF RepoTypeOK
  <2>3. NoRequest # v /\ NoRequest # w
    BY RepoWriteAssumption
  <2> QED
    BY <2>1, <2>2, <2>3 DEF MovesTo, HoldsLock
<1>5. lock' \in Writers \cup {NoRequest}
  BY <1>1 DEF RepoTypeOK
<1>6. stream' \in Seq([kind : {"commit", "sync", "deleted"}, cid : 0 .. Len(made)])
  <2>1. \A c \in 1 .. Len(made) : Event("commit", c) \in [kind : {"commit", "sync", "deleted"},
                                                          cid : 0 .. Len(made)]
    BY DEF Event
  <2>2. stream \in Seq([kind : {"commit", "sync", "deleted"}, cid : 0 .. Len(made)])
    BY <1>1 DEF RepoTypeOK
  <2>3. CASE stream' = stream
    BY <2>2, <2>3
  <2>4. ASSUME NEW c \in 1 .. Len(made), stream' = Append(stream, Event("commit", c))
        PROVE  stream' \in Seq([kind : {"commit", "sync", "deleted"}, cid : 0 .. Len(made)])
    BY <2>1, <2>2, <2>4
  <2> QED
    BY <2>3, <2>4
<1>7. acked' \subseteq 1 .. Len(made)
  <2>1. acked \subseteq 1 .. Len(made)
    BY <1>1 DEF RepoTypeOK
  <2>2. ASSUME NEW i \in 1 .. Len(roots), acked' = acked \cup {roots[i]}
        PROVE  acked' \subseteq 1 .. Len(made)
    <3>1. roots[i] \in 1 .. Len(made)
      BY <1>1
    <3> QED
      BY <2>1, <2>2, <3>1
  <2> QED
    BY <2>1, <2>2
<1>8. /\ made' \in Seq([prev : Nat, records : Records])
      /\ roots' \in Seq(1 .. Len(made)) /\ roots' # <<>>
      /\ status' \in Statuses /\ syncing' \in NotSyncing .. Len(made)
      /\ made' = made
  BY <1>1 DEF RepoTypeOK
<1>9. txn' \in [Writers -> [at : Places, req : AllRequests \cup {NoRequest},
                             snap : 0 .. Len(made), mine : 0 .. Len(made)]]
  BY DEF MovesTo, TxnRecords
<1>10. RepoTypeOK'
  BY <1>4, <1>5, <1>6, <1>7, <1>8, <1>9 DEF RepoTypeOK
<1> QED
  BY <1>2, <1>3, <1>10 DEF RepoInv

(* A request that waits, or one that is over.                              *)
LEMMA WaitsOrOver ==
  ASSUME NEW w \in Writers
  PROVE  /\ txn'[w] = Idle => TxnOK(w)'
         /\ \A r \in AllRequests : txn'[w] = Asked(r) => TxnOK(w)'
         /\ ~HoldsLock(Idle) /\ \A r : ~HoldsLock(Asked(r))
<1>1. ASSUME txn'[w] = Idle PROVE TxnOK(w)'
  <2>1. txn'[w].at = "idle"
    BY <1>1 DEF Idle
  <2> QED
    BY <1>1, <2>1 DEF TxnOK
<1>2. ASSUME NEW r \in AllRequests, txn'[w] = Asked(r) PROVE TxnOK(w)'
  <2>1. txn'[w].at = "asked" /\ txn'[w].req = r
    BY <1>2 DEF Asked
  <2> QED
    BY <2>1 DEF TxnOK
<1> QED
  BY <1>1, <1>2 DEF HoldsLock, Idle, Asked

LEMMA AskMoves ==
  ASSUME RepoInv, NEW w \in Writers, Ask(w)
  PROVE  \E r \in Requests(Root, HeadRecords) \cup Imports :
           r \in AllRequests /\ MovesTo(w, Asked(r))
<1>1. PICK r \in Requests(Root, HeadRecords) \cup Imports :
        txn' = [txn EXCEPT ![w] = Asked(r)]
  BY DEF Ask
<1>2. /\ Root \in Nat /\ HeadRecords \in Records /\ Len(made) \in Nat
      /\ txn \in [Writers -> TxnRecords]
  <2>1. RepoTypeOK
    BY DEF RepoInv
  <2>2. txn \in [Writers -> TxnRecords]
    BY <2>1 DEF RepoTypeOK, TxnRecords
  <2> QED
    BY <2>1, <2>2, RootTyped
<1>3. r \in AllRequests
  BY <1>2, RequestsTyped
<1>4. Asked(r) \in TxnRecords
  BY <1>2, <1>3 DEF Asked, TxnRecords, Places
<1> QED
  BY <1>1, <1>2, <1>3, <1>4 DEF MovesTo

LEMMA AskStep ==
  ASSUME RepoInv, NEW w \in Writers, Ask(w)
  PROVE  RepoInv'
<1>1. PICK r \in AllRequests : MovesTo(w, Asked(r))
  BY AskMoves
<1>2. ~HoldsLock(txn[w])
  BY DEF Ask, HoldsLock, Idle
<1>3. TxnOK(w)' /\ ~HoldsLock(Asked(r))
  BY <1>1, WaitsOrOver DEF MovesTo
<1>4. accountRoot \in 0 .. Len(made)
  BY DEF RepoInv, RepoTypeOK
<1> QED
  BY <1>1, <1>2, <1>3, <1>4, WriterStep DEF Ask, storeVars, accountVars

(* A transaction that is over, or starts over, has nothing left to keep.   *)
LEMMA OverStep ==
  ASSUME RepoInv, NEW w \in Writers,
         Ends(w) \/ (StartsOver(w) /\ txn[w].at # "idle"),
         UNCHANGED <<made, roots, stream, status, syncing>>,
         \/ lock' = lock /\ ~HoldsLock(txn[w])
         \/ lock = w /\ lock' = NoRequest,
         accountRoot' \in 0 .. Len(made),
         \/ acked' = acked
         \/ \E i \in 1 .. Len(roots) : acked' = acked \cup {roots[i]}
  PROVE  RepoInv'
<1>1. RepoTypeOK /\ TxnOK(w)
  BY DEF RepoInv
<1>2. CASE Ends(w)
  <2>1. MovesTo(w, Idle)
    BY <1>1, <1>2, Moves
  <2>2. TxnOK(w)' /\ ~HoldsLock(Idle)
    BY <2>1, WaitsOrOver DEF MovesTo
  <2> QED
    BY <2>1, <2>2, WriterStep
<1>3. CASE StartsOver(w) /\ txn[w].at # "idle"
  <2>1. MovesTo(w, Asked(txn[w].req))
    BY <1>1, <1>3, Moves
  <2>2. txn[w].req \in AllRequests
    BY <1>1, <1>3 DEF TxnOK
  <2>3. TxnOK(w)' /\ ~HoldsLock(Asked(txn[w].req))
    BY <2>1, <2>2, WaitsOrOver DEF MovesTo
  <2> QED
    BY <2>1, <2>3, WriterStep
<1> QED
  BY <1>2, <1>3

LEMMA EndingStep ==
  ASSUME RepoInv, NEW w \in Writers,
         NoOp(w) \/ Refused(w) \/ Busy(w) \/ GiveUp(w)
           \/ SequencingFails(w) \/ CommitFails(w)
           \/ UpdateRepoRoot(w) \/ UpdateRepoRootFails(w)
  PROVE  RepoInv'
<1>1. /\ RepoTypeOK /\ TxnOK(w)
      /\ accountRoot \in 0 .. Len(made)
      /\ \A i \in 1 .. Len(roots) : roots[i] \in 1 .. Len(made)
      /\ HoldsLock(txn[w]) <=> lock = w
  BY RootTyped DEF RepoInv, RepoTypeOK, HoldsLock
<1>2. CASE NoOp(w) \/ Refused(w)
  <2>1. /\ Ends(w) /\ ~HoldsLock(txn[w])
        /\ UNCHANGED <<made, roots, lock, stream, accountRoot, status, syncing, acked>>
    BY <1>2 DEF NoOp, Refused, HoldsLock, storeVars, accountVars
  <2>2. accountRoot' \in 0 .. Len(made)
    BY <1>1, <2>1
  <2> QED
    BY <2>1, <2>2, OverStep
<1>3. CASE Busy(w) \/ GiveUp(w)
  <2>1. /\ Ends(w) \/ (StartsOver(w) /\ txn[w].at # "idle")
        /\ ~HoldsLock(txn[w])
        /\ UNCHANGED <<made, roots, lock, stream, accountRoot, status, syncing, acked>>
    BY <1>3 DEF Busy, GiveUp, HoldsLock, storeVars, accountVars
  <2>2. accountRoot' \in 0 .. Len(made)
    BY <1>1, <2>1
  <2> QED
    BY <2>1, <2>2, OverStep
<1>4. CASE SequencingFails(w)
  <2>1. HoldsLock(txn[w]) /\ txn[w].at # "idle"
    BY <1>4 DEF SequencingFails, Sequencing, HoldsLock
  <2> QED
    BY <1>1, <1>4, <2>1, OverStep DEF SequencingFails, accountVars
<1>5. CASE CommitFails(w)
  BY <1>1, <1>5, OverStep DEF CommitFails, accountVars
<1>6. CASE UpdateRepoRoot(w) \/ UpdateRepoRootFails(w)
  <2>1. txn[w].at = "committed" /\ ~HoldsLock(txn[w])
    BY <1>6 DEF UpdateRepoRoot, UpdateRepoRootFails, HoldsLock
  <2>2. PICK i \in 1 .. Len(roots) : roots[i] = txn[w].mine
    BY <1>1, <2>1 DEF TxnOK
  <2>3. /\ txn[w].mine \in 0 .. Len(made)
        /\ \E j \in 1 .. Len(roots) : acked' = acked \cup {roots[j]}
    BY <1>1, <1>6, <2>2 DEF UpdateRepoRoot, UpdateRepoRootFails
  <2>4. /\ Ends(w) /\ accountRoot' \in {accountRoot, txn[w].mine}
        /\ UNCHANGED <<made, roots, lock, stream, status, syncing>>
    BY <1>6 DEF UpdateRepoRoot, UpdateRepoRootFails, storeVars, accountVars
  <2>5. accountRoot' \in 0 .. Len(made)
    BY <1>1, <2>3, <2>4
  <2> QED
    BY <2>1, <2>3, <2>4, <2>5, OverStep
<1> QED
  BY <1>2, <1>3, <1>4, <1>5, <1>6

LEMMA FormCommitStep ==
  ASSUME RepoInv, NEW w \in Writers, FormCommit(w)
  PROVE  RepoInv'
<1> DEFINE rec == [at |-> "formed", req |-> txn[w].req, snap |-> Root, mine |-> txn[w].mine]
<1>1. /\ RepoTypeOK /\ TxnOK(w) /\ accountRoot \in 0 .. Len(made)
      /\ Len(made) \in Nat /\ Root \in 1 .. Len(made)
      /\ txn \in [Writers -> TxnRecords]
  BY RootTyped DEF RepoInv, RepoTypeOK, TxnRecords
<1>2. rec \in TxnRecords
  BY <1>1 DEF TxnRecords, Places
<1>3. MovesTo(w, rec)
  <2>1. txn' = [txn EXCEPT ![w].at = "formed", ![w].snap = Root]
    BY DEF FormCommit
  <2>2. txn'[w] = rec
    BY <1>1, <2>1 DEF TxnRecords
  <2>3. \A v \in Writers : txn'[v] = IF v = w THEN rec ELSE txn[v]
    BY <1>1, <2>1, <2>2
  <2>4. txn' = [v \in Writers |-> txn'[v]]
    BY <1>1, <2>1
  <2>5. txn' \in [Writers -> TxnRecords]
    BY <1>1, <1>2, <2>3, <2>4
  <2> QED
    BY <2>3, <2>5 DEF MovesTo
<1>4. TxnOK(w)'
  <2>1. /\ Fits(txn[w].req, Root, HeadRecords) /\ made' = made /\ txn[w].at = "asked"
    BY DEF FormCommit, storeVars
  <2>2. txn'[w] = rec /\ txn[w].req \in AllRequests
    BY <1>1, <1>3, <2>1 DEF MovesTo, TxnOK
  <2> QED
    BY <1>1, <2>1, <2>2 DEF TxnOK, HeadRecords
<1>5. ~HoldsLock(rec) /\ ~HoldsLock(txn[w])
  BY DEF HoldsLock, FormCommit
<1>6. UNCHANGED <<made, roots, lock, stream, accountRoot, status, syncing, acked>>
  BY DEF FormCommit, storeVars, accountVars
<1> QED
  BY <1>1, <1>3, <1>4, <1>5, <1>6, WriterStep

LEMMA SequenceCommitStep ==
  ASSUME RepoInv, NEW w \in Writers, SequenceCommit(w)
  PROVE  RepoInv'
<1> DEFINE rec == [at |-> "sequenced", req |-> txn[w].req, snap |-> txn[w].snap, mine |-> txn[w].mine]
<1>1. /\ RepoTypeOK /\ TxnOK(w) /\ accountRoot \in 0 .. Len(made)
      /\ txn[w].at = "applied"
      /\ Goto(w, "sequenced") /\ "sequenced" \in Places
      /\ UNCHANGED <<made, roots, lock, accountRoot, status, syncing, acked>>
  BY DEF RepoInv, RepoTypeOK, SequenceCommit, Sequencing, Places, storeVars, accountVars
<1>2. MovesTo(w, rec)
  BY <1>1, Moves
<1>3. HoldsLock(rec) /\ HoldsLock(txn[w])
  BY <1>1 DEF HoldsLock
<1>4. /\ txn[w].req \in AllRequests
      /\ txn[w].mine \in 1 .. Len(made)
      /\ txn[w].mine # Root
      /\ made[txn[w].mine].prev = Root
      /\ made[txn[w].mine].records = Applied(txn[w].req, HeadRecords)
      /\ Fits(txn[w].req, Root, HeadRecords)
  BY <1>1 DEF TxnOK
<1>5. TxnOK(w)'
  <2>1. Root' = Root /\ HeadRecords' = HeadRecords /\ made' = made
    BY <1>1, StoreUnchanged
  <2>2. /\ txn'[w].at = "sequenced" /\ txn'[w].req = txn[w].req
        /\ txn'[w].mine = txn[w].mine
    BY <1>2 DEF MovesTo
  <2> QED
    BY <1>4, <2>1, <2>2 DEF TxnOK
<1>6. \E c \in 1 .. Len(made) : stream' = Append(stream, Event("commit", c))
  BY <1>4 DEF SequenceCommit
<1> QED
  BY <1>1, <1>2, <1>3, <1>5, <1>6, WriterStep

----------------------------------------------------------------------------
(* The steps that change the store.                                        *)

(* The commit of a request: made on the root, not yet the root.            *)
LEMMA CommitMade ==
  ASSUME RepoInv, NEW w \in Writers, ApplyCommit(w)
  PROVE  /\ lock = NoRequest
         /\ txn[w].req \in AllRequests
         /\ Fits(txn[w].req, Root, HeadRecords)
         /\ made' \in Seq([prev : Nat, records : Records])
         /\ Len(made') = Len(made) + 1
         /\ made'[Len(made) + 1] = [prev |-> Root, records |-> Applied(txn[w].req, HeadRecords)]
         /\ Grows /\ Root' = Root /\ HeadRecords' = HeadRecords
<1> DEFINE new == [prev |-> txn[w].snap,
                   records |-> Applied(txn[w].req, made[txn[w].snap].records)]
<1>1. /\ RepoTypeOK /\ TxnOK(w)
      /\ Len(made) \in Nat /\ Len(roots) \in Nat /\ Root \in 1 .. Len(made)
      /\ \A i \in 1 .. Len(roots) : roots[i] \in 1 .. Len(made)
      /\ HeadRecords \in Records
  BY RootTyped DEF RepoInv, RepoTypeOK
<1>2. /\ txn[w].at = "formed" /\ txn[w].snap = Root /\ lock = NoRequest
      /\ txn[w].req \in AllRequests
      /\ Fits(txn[w].req, Root, HeadRecords)
  BY <1>1 DEF ApplyCommit, MayWrite, TxnOK, HeadRecords
<1>3. /\ new = [prev |-> Root, records |-> Applied(txn[w].req, HeadRecords)]
      /\ new \in [prev : Nat, records : Records]
  <2>1. Applied(txn[w].req, HeadRecords) \in Records
    BY <1>1, <1>2, AppliedTyped
  <2> QED
    BY <1>1, <1>2, <2>1 DEF HeadRecords
<1>4. made' = Append(made, new) /\ roots' = roots
  BY DEF ApplyCommit, Persist
<1> HIDE DEF new
<1>5. /\ made' \in Seq([prev : Nat, records : Records])
      /\ Len(made') = Len(made) + 1
      /\ \A i \in 1 .. Len(made) : made'[i] = made[i]
      /\ made'[Len(made) + 1] = new
  <2>1. made \in Seq([prev : Nat, records : Records])
    BY <1>1 DEF RepoTypeOK
  <2> QED
    BY <1>1, <1>3, <1>4, <2>1
<1>6. Grows /\ Root' = Root
  BY <1>1, <1>4, <1>5 DEF Grows, Root
<1>7. HeadRecords' = HeadRecords
  BY <1>1, <1>5, <1>6 DEF HeadRecords
<1>8. made'[Len(made) + 1] = [prev |-> Root, records |-> Applied(txn[w].req, HeadRecords)]
  BY <1>3, <1>5, Zenon
<1> QED
  BY <1>2, <1>5, <1>6, <1>7, <1>8

LEMMA ApplyCommitStep ==
  ASSUME RepoInv, NEW w \in Writers, ApplyCommit(w)
  PROVE  RepoInv'
<1> DEFINE c   == Len(made) + 1
           rec == [at |-> "applied", req |-> txn[w].req, snap |-> txn[w].snap, mine |-> c]
<1>1. /\ RepoTypeOK
      /\ Len(made) \in Nat /\ Len(roots) \in Nat /\ Root \in 1 .. Len(made)
      /\ txn \in [Writers -> TxnRecords]
  BY RootTyped DEF RepoInv, RepoTypeOK, TxnRecords
<1>2. /\ lock = NoRequest
      /\ txn[w].req \in AllRequests
      /\ Fits(txn[w].req, Root, HeadRecords)
      /\ made' \in Seq([prev : Nat, records : Records])
      /\ Len(made') = c
      /\ made'[c] = [prev |-> Root, records |-> Applied(txn[w].req, HeadRecords)]
      /\ Grows /\ Root' = Root /\ HeadRecords' = HeadRecords
  BY CommitMade
<1>3. /\ UNCHANGED <<roots, stream, accountRoot, status, syncing, acked>>
      /\ lock' = w
      /\ txn' = [txn EXCEPT ![w].at = "applied", ![w].mine = Len(made')]
  BY DEF ApplyCommit, Persist, accountVars
<1>4. \A v \in Writers : txn'[v] = IF v = w THEN rec ELSE txn[v]
  <2>1. txn' = [txn EXCEPT ![w].at = "applied", ![w].mine = c]
    BY <1>3, <1>2
  <2>2. txn'[w] = rec
    BY <1>1, <2>1 DEF TxnRecords
  <2> QED
    BY <1>1, <2>1, <2>2
<1>5. txn' \in [Writers -> TxnRecords']
  <2>1. TxnRecords \subseteq TxnRecords' /\ rec \in TxnRecords'
    BY <1>1, <1>2 DEF TxnRecords, Places
  <2>2. txn' = [v \in Writers |-> txn'[v]]
    BY <1>1, <1>3
  <2> QED
    BY <1>1, <1>4, <2>1, <2>2
<1>6. RepoTypeOK'
  <2>1. /\ roots' \in Seq(1 .. Len(made')) /\ roots' # <<>>
    BY <1>1, <1>3, <1>2 DEF RepoTypeOK
  <2>2. stream' \in Seq([kind : {"commit", "sync", "deleted"}, cid : 0 .. Len(made')])
    <3> DEFINE old  == [kind : {"commit", "sync", "deleted"}, cid : 0 .. Len(made)]
               wide == [kind : {"commit", "sync", "deleted"}, cid : 0 .. Len(made')]
    <3>1. stream \in Seq(old)
      BY <1>1 DEF RepoTypeOK
    <3>2. old \subseteq wide
      BY <1>1, <1>2
    <3> HIDE DEF old, wide
    <3>3. stream' \in Seq(wide)
      BY <1>3, <3>1, <3>2, WiderSeq, Zenon
    <3> QED
      BY <3>3 DEF wide
  <2>3. /\ accountRoot' \in 0 .. Len(made') /\ status' \in Statuses
        /\ syncing' \in NotSyncing .. Len(made')
    <3>1. accountRoot \in 0 .. Len(made) /\ status \in Statuses /\ syncing \in NotSyncing .. Len(made)
      BY <1>1 DEF RepoTypeOK
    <3> QED
      BY <1>1, <1>3, <1>2, <3>1 DEF NotSyncing
  <2>4. acked' \subseteq 1 .. Len(made')
    <3>1. acked \subseteq 1 .. Len(made)
      BY <1>1 DEF RepoTypeOK
    <3> QED
      BY <1>1, <1>3, <1>2, <3>1
  <2>5. lock' \in Writers \cup {NoRequest}
    BY <1>3
  <2>6. ASSUME NEW v \in Writers
        PROVE  txn'[v].at \in {"applied", "sequenced"} <=> lock' = v
    <3>1. txn[v].at \notin {"applied", "sequenced"}
      BY <1>1, <1>2, RepoWriteAssumption DEF RepoTypeOK
    <3>2. CASE v = w
      <4>1. txn'[w] = rec /\ rec.at = "applied"
        BY <1>4
      <4> QED
        BY <1>3, <3>2, <4>1
    <3>3. CASE v # w
      <4>1. txn'[v] = txn[v]
        BY <1>4, <3>3
      <4> QED
        BY <1>3, <3>1, <3>3, <4>1
    <3> QED
      BY <3>2, <3>3
  <2> QED
    BY <1>2, <1>5, <2>1, <2>2, <2>3, <2>4, <2>5, <2>6 DEF RepoTypeOK, TxnRecords
<1>7. ASSUME NEW v \in Writers PROVE TxnOK(v)'
  <2>1. CASE v = w
    <3>1. txn'[w] = rec
      BY <1>4
    <3>2. made'[c].prev = Root /\ made'[c].records = Applied(txn[w].req, HeadRecords)
      <4>1. made'[c] = [prev |-> Root, records |-> Applied(txn[w].req, HeadRecords)]
        BY <1>2, Zenon
      <4> QED
        BY <4>1
    <3>3. c \in 1 .. Len(made') /\ c # Root
      BY <1>1, <1>2
    <3> QED
      BY <1>2, <2>1, <3>1, <3>2, <3>3 DEF TxnOK
  <2>2. CASE v # w
    BY <1>2, <1>4, <2>2, OthersKept
  <2> QED
    BY <2>1, <2>2
<1>8. NoLostUpdate'
  BY <1>3, <1>2, NoLossKept
<1> QED
  BY <1>6, <1>7, <1>8 DEF RepoInv

(* A transaction commits: it has the lock, so that its commit was made on  *)
(* the root, and no other one is left that was.                            *)
LEMMA CommittedStep ==
  ASSUME RepoInv, NEW w \in Writers, HoldsLock(txn[w]), Committed(w),
         lock' = NoRequest,
         UNCHANGED <<made, stream, accountRoot, status, syncing>>,
         \/ Goto(w, "committed") /\ acked' = acked
         \/ Ends(w) /\ acked' = acked \cup {txn[w].mine}
  PROVE  RepoInv'
<1> DEFINE c == txn[w].mine
<1>1. /\ RepoTypeOK /\ TxnOK(w) /\ NoLostUpdate
      /\ Len(roots) \in Nat /\ Len(roots) > 0 /\ Len(made) \in Nat
      /\ \A i \in 1 .. Len(roots) : roots[i] \in 1 .. Len(made)
      /\ roots \in Seq(1 .. Len(made))
  BY RootTyped DEF RepoInv, RepoTypeOK
<1>2. c \in 1 .. Len(made) /\ made[c].prev = Root
  BY <1>1 DEF TxnOK, HoldsLock
<1> HIDE DEF c
<1>3. /\ roots' \in Seq(1 .. Len(made')) /\ roots' # <<>>
      /\ Len(roots') = Len(roots) + 1
      /\ \A i \in 1 .. Len(roots) : roots'[i] = roots[i]
      /\ roots'[Len(roots) + 1] = c
  <2>1. roots' = Append(roots, c)
    BY DEF Committed, c
  <2> QED
    BY <1>1, <1>2, <2>1
<1>4. Grows
  BY <1>1, <1>3 DEF Grows
<1>5. /\ \E rec \in {Idle, [at |-> "committed", req |-> txn[w].req,
                            snap |-> txn[w].snap, mine |-> c]} : MovesTo(w, rec)
      /\ acked' \subseteq acked \cup {c}
  BY <1>1, Moves DEF Places, c
<1>6. PICK rec \in {Idle, [at |-> "committed", req |-> txn[w].req,
                          snap |-> txn[w].snap, mine |-> c]} : MovesTo(w, rec)
  BY <1>5
<1>7. rec.at \in {"idle", "committed"} /\ (rec.at = "committed" => rec.mine = c /\ rec.req = txn[w].req)
      /\ (rec.at = "idle" => rec = Idle)
  BY <1>6 DEF Idle
<1>8. ASSUME NEW v \in Writers, v # w
      PROVE  txn'[v] = txn[v] /\ ~HoldsLock(txn[v])
  BY <1>1, <1>6, <1>8 DEF MovesTo, RepoTypeOK, HoldsLock
<1>9. ASSUME NEW v \in Writers PROVE TxnOK(v)'
  <2>1. CASE v # w
    BY <1>4, <1>8, <2>1, OthersKept DEF HoldsLock
  <2>2. CASE v = w
    <3>1. txn'[w] = rec /\ txn[w].req \in AllRequests
      BY <1>1, <1>6 DEF MovesTo, TxnOK, HoldsLock
    <3>2. Len(roots) + 1 \in 1 .. Len(roots')
      BY <1>1, <1>3
    <3> QED
      BY <1>3, <1>7, <2>2, <3>1, <3>2 DEF TxnOK
  <2> QED
    BY <2>1, <2>2
<1>10. NoLostUpdate'
  <2>1. ASSUME NEW i \in 1 .. Len(roots') - 1
        PROVE  made[roots'[i + 1]].prev = roots'[i]
    <3>1. CASE i = Len(roots)
      BY <1>1, <1>2, <1>3, <3>1 DEF Root
    <3>2. CASE i # Len(roots)
      <4>1. i \in 1 .. Len(roots) - 1 /\ i + 1 \in 1 .. Len(roots) /\ i \in 1 .. Len(roots)
        BY <1>1, <1>3, <3>2
      <4> QED
        BY <1>1, <1>3, <4>1 DEF NoLostUpdate
    <3> QED
      BY <3>1, <3>2
  <2>2. ASSUME NEW d \in acked' PROVE \E i \in 1 .. Len(roots') : roots'[i] = d
    <3>1. CASE d = c
      <4>1. Len(roots) + 1 \in 1 .. Len(roots')
        BY <1>1, <1>3
      <4> QED
        BY <1>3, <3>1, <4>1
    <3>2. CASE d \in acked
      <4>1. PICK i \in 1 .. Len(roots) : roots[i] = d
        BY <1>1, <3>2 DEF NoLostUpdate
      <4>2. i \in 1 .. Len(roots') /\ roots'[i] = d
        BY <1>1, <1>3, <4>1
      <4> QED
        BY <4>2
    <3> QED
      BY <1>5, <3>1, <3>2
  <2> QED
    BY <2>1, <2>2 DEF NoLostUpdate
<1>11. RepoTypeOK'
  <2>1. txn' \in [Writers -> TxnRecords] /\ txn'[w] = rec
    BY <1>6 DEF MovesTo
  <2>2. ASSUME NEW v \in Writers
        PROVE  ~(txn'[v].at \in {"applied", "sequenced"}) /\ lock' # v
    BY <1>7, <1>8, <2>1, RepoWriteAssumption DEF HoldsLock
  <2>3. acked' \subseteq 1 .. Len(made')
    <3>1. acked \subseteq 1 .. Len(made)
      BY <1>1 DEF RepoTypeOK
    <3> QED
      BY <1>2, <1>5, <3>1
  <2>4. /\ made' \in Seq([prev : Nat, records : Records]) /\ made' = made
        /\ stream' \in Seq([kind : {"commit", "sync", "deleted"}, cid : 0 .. Len(made)])
        /\ accountRoot' \in 0 .. Len(made) /\ status' \in Statuses
        /\ syncing' \in NotSyncing .. Len(made)
    BY <1>1 DEF RepoTypeOK
  <2> QED
    BY <1>3, <2>1, <2>2, <2>3, <2>4 DEF RepoTypeOK, TxnRecords
<1> QED
  BY <1>9, <1>10, <1>11 DEF RepoInv

LEMMA CommitTxnStep ==
  ASSUME RepoInv, NEW w \in Writers, CommitTxn(w) \/ CommitImport(w)
  PROVE  RepoInv'
<1>1. /\ HoldsLock(txn[w]) /\ Committed(w) /\ lock' = NoRequest
      /\ UNCHANGED <<made, stream, accountRoot, status, syncing>>
      /\ \/ Goto(w, "committed") /\ acked' = acked
         \/ Ends(w) /\ acked' = acked \cup {txn[w].mine}
  BY DEF CommitTxn, CommitImport, HoldsLock, accountVars
<1> QED
  BY <1>1, CommittedStep

(* A crash leaves what has committed.                                      *)
LEMMA CrashStep ==
  ASSUME RepoInv, Crash
  PROVE  RepoInv'
<1>1. /\ RepoTypeOK /\ Grows /\ Root' = Root
      /\ roots' = roots /\ made' = made /\ stream' = stream /\ acked' = acked
      /\ accountRoot' = accountRoot /\ lock' = NoRequest /\ syncing' = NotSyncing
      /\ status' \in {status, "unlinked"}
      /\ txn' = [w \in Writers |-> Idle]
      /\ Len(made) \in Nat
  BY StoreUnchanged, RootTyped DEF RepoInv, Crash
<1>2. ASSUME NEW v \in Writers PROVE TxnOK(v)' /\ txn'[v].at \notin {"applied", "sequenced"}
  BY <1>1, WaitsOrOver DEF Idle
<1>3. NoLostUpdate'
  BY <1>1, NoLossKept
<1>4. txn' \in [Writers -> TxnRecords]
  <2>1. Idle \in TxnRecords
    BY <1>1 DEF Idle, TxnRecords, Places
  <2> QED
    BY <1>1, <2>1
<1>5. /\ status' \in Statuses /\ syncing' \in NotSyncing .. Len(made)
      /\ lock' \in Writers \cup {NoRequest}
      /\ \A w \in Writers : lock' # w
  BY <1>1, RepoWriteAssumption DEF RepoTypeOK, Statuses, NotSyncing
<1>6. RepoTypeOK'
  BY <1>1, <1>2, <1>4, <1>5 DEF RepoTypeOK, TxnRecords
<1> QED
  BY <1>2, <1>3, <1>6 DEF RepoInv

(* The account's steps leave the store and the writers alone.              *)
LEMMA AccountStep ==
  ASSUME RepoInv, Account
  PROVE  RepoInv'
<1>1. /\ RepoTypeOK /\ Len(made) \in Nat /\ Root \in 1 .. Len(made)
      /\ accountRoot \in 0 .. Len(made) /\ syncing \in NotSyncing .. Len(made)
      /\ status \in Statuses
      /\ stream \in Seq([kind : {"commit", "sync", "deleted"}, cid : 0 .. Len(made)])
  BY RootTyped DEF RepoInv, RepoTypeOK
<1>2. UNCHANGED <<made, roots, lock, txn, acked>>
  BY DEF Account, DeactivateAccount, ActivateAccount, GetSyncEventData,
         SequenceAccountActivation, UnlinkAccount, SequenceAccountDeletion,
         PurgeDeletedAccount, DestroyStore, storeVars
<1>3. Grows /\ Root' = Root
  BY <1>1, <1>2, StoreUnchanged
<1>4. ASSUME NEW v \in Writers PROVE TxnOK(v)'
  BY <1>2, <1>3, OthersKept
<1>5. NoLostUpdate'
  BY <1>2, <1>3, NoLossKept
<1>6. accountRoot' \in 0 .. Len(made) /\ status' \in Statuses
  BY <1>1 DEF Account, DeactivateAccount, ActivateAccount, GetSyncEventData,
         SequenceAccountActivation, UnlinkAccount, SequenceAccountDeletion,
         PurgeDeletedAccount, DestroyStore, Statuses
<1>7. syncing' \in NotSyncing .. Len(made)
  BY <1>1 DEF Account, DeactivateAccount, ActivateAccount, GetSyncEventData,
         SequenceAccountActivation, UnlinkAccount, SequenceAccountDeletion,
         PurgeDeletedAccount, DestroyStore, NotSyncing
<1>8. stream' \in Seq([kind : {"commit", "sync", "deleted"}, cid : 0 .. Len(made)])
  <2>1. ASSUME NEW k \in {"commit", "sync", "deleted"}, NEW d \in 0 .. Len(made)
        PROVE  /\ Append(stream, Event(k, d)) \in Seq([kind : {"commit", "sync", "deleted"},
                                                      cid : 0 .. Len(made)])
               /\ <<Event(k, d)>> \in Seq([kind : {"commit", "sync", "deleted"}, cid : 0 .. Len(made)])
    <3>1. Event(k, d) \in [kind : {"commit", "sync", "deleted"}, cid : 0 .. Len(made)]
      BY DEF Event
    <3> QED
      BY <1>1, <3>1
  <2>2. CASE SequenceAccountActivation
    <3>1. syncing \in 0 .. Len(made)
      BY <1>1, <2>2 DEF SequenceAccountActivation, NotSyncing
    <3> QED
      BY <2>1, <2>2, <3>1 DEF SequenceAccountActivation
  <2>3. CASE SequenceAccountDeletion \/ PurgeDeletedAccount
    <3>1. 0 \in 0 .. Len(made)
      BY <1>1
    <3> QED
      BY <2>1, <2>3, <3>1 DEF SequenceAccountDeletion, PurgeDeletedAccount
  <2>4. CASE UNCHANGED stream
    BY <1>1, <2>4
  <2> QED
    BY <2>2, <2>3, <2>4
    DEF Account, DeactivateAccount, ActivateAccount, GetSyncEventData, UnlinkAccount, DestroyStore
<1>9. RepoTypeOK'
  BY <1>1, <1>2, <1>6, <1>7, <1>8 DEF RepoTypeOK
<1> QED
  BY <1>4, <1>5, <1>9 DEF RepoInv

----------------------------------------------------------------------------
LEMMA NextRepoInv ==
  ASSUME RepoInv, [RepoNext]_vars
  PROVE  RepoInv'
<1>1. CASE \E w \in Writers : Ask(w)
  BY <1>1, AskStep
<1>2. ASSUME NEW w \in Writers, Work(w) PROVE RepoInv'
  BY <1>2, EndingStep, FormCommitStep, ApplyCommitStep, SequenceCommitStep, CommitTxnStep
  DEF Work
<1>3. ASSUME NEW w \in Writers, Fail(w) PROVE RepoInv'
  BY <1>3, EndingStep DEF Fail
<1>4. CASE Crash
  BY <1>4, CrashStep
<1>5. CASE Account
  BY <1>5, AccountStep
<1>6. CASE UNCHANGED vars
  <2>1. UNCHANGED <<made, roots, lock, txn, stream, accountRoot, status, syncing, acked>>
    BY <1>6 DEF vars, storeVars, accountVars
  <2>2. RepoTypeOK /\ Grows /\ Root' = Root
    BY <2>1, StoreUnchanged DEF RepoInv
  <2>3. NoLostUpdate'
    BY <2>1, <2>2, NoLossKept
  <2>4. \A v \in Writers : TxnOK(v)'
    BY <2>1, <2>2, OthersKept
  <2>5. RepoTypeOK'
    BY <2>1, <2>2 DEF RepoTypeOK
  <2> QED
    BY <2>3, <2>4, <2>5 DEF RepoInv
<1> QED
  BY <1>1, <1>2, <1>3, <1>4, <1>5, <1>6 DEF RepoNext

LEMMA RepoInvariant == RepoSpec => []RepoInv
<1>1. RepoInv /\ [RepoNext]_vars => RepoInv'
  BY NextRepoInv
<1> QED
  BY <1>1, InitRepoInv, PTL DEF RepoSpec

(* Types, and the lock is with the writer that has written.                *)
THEOREM RepoTypeCorrect == RepoSpec => []RepoTypeOK
<1>1. RepoInv => RepoTypeOK
  BY DEF RepoInv
<1> QED
  BY <1>1, RepoInvariant, PTL

(* No lost update: every commit of a store was made on the one before it,  *)
(* and every commit a client was told of is there, whatever crashes.       *)
THEOREM NoLostUpdateCorrect == RepoSpec => []NoLostUpdate
<1>1. RepoInv => NoLostUpdate
  BY DEF RepoInv
<1> QED
  BY <1>1, RepoInvariant, PTL

----------------------------------------------------------------------------
(* The refinement of RepoPromise.                                          *)

(* Requests and what they do are the same there.                           *)
LEMMA SameRequests ==
  /\ \A h, rs : Promise!Requests(h, rs) = Requests(h, rs)
  /\ Promise!Imports = Imports
  BY DEF Promise!Requests, Promise!Imports, Promise!Request, Promise!Creates, Promise!Updates,
         Promise!Deletes, Promise!Batches, Promise!Write,
         Requests, Imports, Request, Creates, Updates, Deletes, Batches, Write

LEMMA SamePrepared ==
  \A r, rs : Promise!Prepared(r, rs) = Prepared(r, rs)
  BY DEF Promise!Prepared, Promise!The, Promise!Duplicates, Promise!Write,
         Prepared, The, Duplicates, Write

LEMMA SameEffects ==
  /\ \A r, h, rs : Promise!Fits(r, h, rs) <=> Fits(r, h, rs)
  /\ \A r, rs : Promise!Applied(r, rs) = Applied(r, rs)
<1>1. \A r, rs : Promise!IsNoOp(r, rs) <=> IsNoOp(r, rs)
  BY DEF Promise!IsNoOp, IsNoOp, Promise!The, The
<1>2. \A r, h, rs : Promise!SwapsHold(r, h, rs) <=> SwapsHold(r, h, rs)
  BY DEF Promise!SwapsHold, SwapsHold, Promise!The, The
<1>3. \A ws, rs : Promise!Possible(ws, rs) <=> Possible(ws, rs)
  BY DEF Promise!Possible, Possible
<1>4. ASSUME NEW r, NEW h, NEW rs PROVE Promise!Fits(r, h, rs) <=> Fits(r, h, rs)
  <2>1. Promise!Possible(Promise!Prepared(r, rs), rs) <=> Possible(Prepared(r, rs), rs)
    <3>1. Promise!Possible(Promise!Prepared(r, rs), rs) <=> Possible(Promise!Prepared(r, rs), rs)
      BY <1>3
    <3>2. Promise!Prepared(r, rs) = Prepared(r, rs)
      BY SamePrepared
    <3> QED
      BY <3>1, <3>2
  <2> QED
    BY <1>1, <1>2, <2>1 DEF Promise!Fits, Fits
<1>5. ASSUME NEW r, NEW rs PROVE Promise!Applied(r, rs) = Applied(r, rs)
  <2>1. Promise!Prepared(r, rs) = Prepared(r, rs)
    BY SamePrepared
  <2> QED
    BY <2>1 DEF Promise!Applied, Applied
<1> QED
  BY <1>4, <1>5

(* What RepoPromise sees of a writer: its request, until that has an       *)
(* effect or has none.                                                     *)
Asking == [w \in Writers |-> IF txn[w].at = "committed" THEN NoRequest ELSE txn[w].req]

LEMMA AskingOf ==
  ASSUME RepoInv, NEW w \in Writers
  PROVE  /\ txn[w].at = "idle" => Asking[w] = NoRequest
         /\ txn[w].at \notin {"idle", "committed"} =>
              Asking[w] = txn[w].req /\ Asking[w] # NoRequest
  BY RepoWriteAssumption DEF Asking, RepoInv, TxnOK, Idle

LEMMA AskingAfter ==
  ASSUME NEW w \in Writers, NEW rec, MovesTo(w, rec)
  PROVE  Asking' = [Asking EXCEPT ![w] = IF rec.at = "committed" THEN NoRequest ELSE rec.req]
  BY DEF Asking, MovesTo

LEMMA PromiseUnchanged ==
  ASSUME RepoTypeOK, UNCHANGED <<made, roots, Asking>>
  PROVE  UNCHANGED Promise!promiseVars
  BY StoreUnchanged DEF Promise!promiseVars, Asking

(* A request that is over without an effect, or starts over.               *)
LEMMA PromiseOver ==
  ASSUME RepoInv, NEW w \in Writers, UNCHANGED <<made, roots>>,
         Ends(w) \/ (StartsOver(w) /\ txn[w].at \notin {"idle", "committed"})
  PROVE  Promise!HasNone({w}) \/ UNCHANGED Promise!promiseVars
<1>1. RepoTypeOK
  BY DEF RepoInv
<1>2. CASE Ends(w)
  <2>1. Asking' = [Asking EXCEPT ![w] = NoRequest]
    BY <1>1, <1>2, Moves, AskingAfter DEF Idle
  <2>2. Root' = Root /\ HeadRecords' = HeadRecords
    BY <1>1, StoreUnchanged
  <2>3. Asking' = [v \in Writers |-> IF v \in {w} THEN NoRequest ELSE Asking[v]]
    BY <2>1 DEF Asking
  <2> QED
    BY <2>2, <2>3 DEF Promise!HasNone, Asking
<1>3. CASE StartsOver(w) /\ txn[w].at \notin {"idle", "committed"}
  <2>1. Asking' = [Asking EXCEPT ![w] = txn[w].req]
    <3>1. MovesTo(w, Asked(txn[w].req))
      BY <1>1, <1>3, Moves
    <3>2. Asked(txn[w].req).at # "committed" /\ Asked(txn[w].req).req = txn[w].req
      BY DEF Asked
    <3> QED
      BY <3>1, <3>2, AskingAfter
  <2>2. Asking[w] = txn[w].req
    BY <1>3, AskingOf
  <2>3. Asking' = Asking
    BY <2>1, <2>2 DEF Asking
  <2> QED
    BY <1>1, <2>3, PromiseUnchanged
<1> QED
  BY <1>2, <1>3

LEMMA PromiseEnding ==
  ASSUME RepoInv, NEW w \in Writers,
         NoOp(w) \/ Refused(w) \/ Busy(w) \/ GiveUp(w)
           \/ SequencingFails(w) \/ CommitFails(w)
           \/ UpdateRepoRoot(w) \/ UpdateRepoRootFails(w)
  PROVE  Promise!HasNone({w}) \/ UNCHANGED Promise!promiseVars
<1>1. /\ UNCHANGED <<made, roots>>
      /\ Ends(w) \/ (StartsOver(w) /\ txn[w].at \notin {"idle", "committed"})
  BY DEF NoOp, Refused, Busy, GiveUp, SequencingFails, Sequencing, CommitFails,
         UpdateRepoRoot, UpdateRepoRootFails, storeVars
<1> QED
  BY <1>1, PromiseOver

LEMMA PromiseAsk ==
  ASSUME RepoInv, NEW w \in Writers, Ask(w)
  PROVE  Promise!Ask(w)
<1>1. PICK r \in Requests(Root, HeadRecords) \cup Imports : MovesTo(w, Asked(r))
  BY AskMoves
<1>2. RepoTypeOK /\ txn[w] = Idle /\ UNCHANGED <<made, roots>>
  BY DEF RepoInv, Ask, storeVars
<1>3. Root' = Root /\ HeadRecords' = HeadRecords
  BY <1>2, StoreUnchanged
<1>4. Asking[w] = NoRequest
  BY <1>2 DEF Asking, Idle
<1>5. Asking' = [Asking EXCEPT ![w] = r]
  BY <1>1, AskingAfter DEF Asked
<1>6. r \in Promise!Requests(Root, HeadRecords) \cup Promise!Imports
  BY SameRequests
<1> QED
  BY <1>3, <1>4, <1>5, <1>6 DEF Promise!Ask, Asking

(* The commit of a transaction is where its request takes effect.          *)
LEMMA PromiseCommits ==
  ASSUME RepoInv, NEW w \in Writers, CommitTxn(w) \/ CommitImport(w)
  PROVE  Promise!TakesEffect(w)
<1> DEFINE c == txn[w].mine
<1>1. /\ RepoTypeOK /\ TxnOK(w) /\ Len(roots) \in Nat
      /\ roots \in Seq(1 .. Len(made))
      /\ txn[w].at \in {"applied", "sequenced"}
      /\ roots' = Append(roots, c) /\ made' = made
  BY RootTyped DEF RepoInv, RepoTypeOK, CommitTxn, CommitImport, Committed
<1>2. /\ c \in 1 .. Len(made) /\ c # Root
      /\ made[c].records = Applied(txn[w].req, HeadRecords)
      /\ Fits(txn[w].req, Root, HeadRecords)
  BY <1>1 DEF TxnOK
<1> HIDE DEF c
<1>3. Root' = c
  <2>1. Len(roots') = Len(roots) + 1 /\ roots'[Len(roots) + 1] = c
    BY <1>1, <1>2
  <2> QED
    BY <2>1 DEF Root
<1>4. HeadRecords' = Applied(txn[w].req, HeadRecords)
  BY <1>1, <1>2, <1>3 DEF HeadRecords
<1>5. Asking[w] = txn[w].req /\ Asking[w] # NoRequest
  BY <1>1, AskingOf
<1>6. Asking' = [Asking EXCEPT ![w] = NoRequest]
  <2>1. Ends(w) \/ Goto(w, "committed")
    BY DEF CommitTxn, CommitImport
  <2>2. CASE Ends(w)
    BY <1>1, <2>2, Moves, AskingAfter DEF Idle
  <2>3. CASE Goto(w, "committed")
    <3> DEFINE rec == [at |-> "committed", req |-> txn[w].req,
                       snap |-> txn[w].snap, mine |-> txn[w].mine]
    <3>1. MovesTo(w, rec)
      BY <1>1, <2>3, Moves DEF Places
    <3>2. rec.at = "committed"
      OBVIOUS
    <3> HIDE DEF rec
    <3> QED
      BY <3>1, <3>2, AskingAfter
  <2> QED
    BY <2>1, <2>2, <2>3
<1>7. /\ Promise!Fits(Asking[w], Root, HeadRecords)
      /\ HeadRecords' = Promise!Applied(Asking[w], HeadRecords)
  BY <1>2, <1>4, <1>5, SameEffects
<1> QED
  BY <1>2, <1>3, <1>5, <1>6, <1>7 DEF Promise!TakesEffect, Asking

LEMMA PromiseWorks ==
  ASSUME RepoInv, NEW w \in Writers,
         FormCommit(w) \/ ApplyCommit(w) \/ SequenceCommit(w)
  PROVE  UNCHANGED Promise!promiseVars
<1>1. RepoTypeOK /\ txn \in [Writers -> TxnRecords]
  BY DEF RepoInv, RepoTypeOK, TxnRecords
<1>2. Root' = Root /\ HeadRecords' = HeadRecords
  BY <1>1, StoreUnchanged, CommitMade DEF FormCommit, SequenceCommit, storeVars
<1>3. \E p \in {"formed", "applied", "sequenced"} :
        /\ txn[w].at \notin {"idle", "committed"}
        /\ txn'[w].at = p /\ txn'[w].req = txn[w].req
        /\ \A v \in Writers \ {w} : txn'[v] = txn[v]
  <2>1. CASE FormCommit(w)
    BY <1>1, <2>1 DEF FormCommit, TxnRecords
  <2>2. CASE ApplyCommit(w)
    BY <1>1, <2>2 DEF ApplyCommit, Persist, TxnRecords
  <2>3. CASE SequenceCommit(w)
    BY <1>1, <2>3 DEF SequenceCommit, Sequencing, Goto, TxnRecords
  <2> QED
    BY <2>1, <2>2, <2>3
<1>4. Asking' = Asking
  BY <1>3 DEF Asking
<1> QED
  BY <1>2, <1>4 DEF Promise!promiseVars, Asking

LEMMA PromiseStep ==
  ASSUME RepoInv, [RepoNext]_vars
  PROVE  [Promise!PromiseNext]_(Promise!promiseVars)
<1>1. RepoTypeOK
  BY DEF RepoInv
<1>2. ASSUME NEW w \in Writers, Ask(w)
      PROVE  Promise!PromiseNext
  BY <1>2, PromiseAsk DEF Promise!PromiseNext
<1>3. ASSUME NEW w \in Writers, CommitTxn(w) \/ CommitImport(w)
      PROVE  Promise!PromiseNext
  BY <1>3, PromiseCommits DEF Promise!PromiseNext
<1>4. ASSUME NEW w \in Writers, Work(w) \/ Fail(w)
      PROVE  [Promise!PromiseNext]_(Promise!promiseVars)
  <2>1. CASE NoOp(w) \/ Refused(w) \/ Busy(w) \/ GiveUp(w)
               \/ SequencingFails(w) \/ CommitFails(w)
               \/ UpdateRepoRoot(w) \/ UpdateRepoRootFails(w)
    <3>1. Promise!HasNone({w}) \/ UNCHANGED Promise!promiseVars
      BY <2>1, PromiseEnding
    <3> QED
      BY <3>1 DEF Promise!PromiseNext
  <2>2. CASE FormCommit(w) \/ ApplyCommit(w) \/ SequenceCommit(w)
    BY <2>2, PromiseWorks
  <2> QED
    BY <1>3, <1>4, <2>1, <2>2 DEF Work, Fail
<1>5. CASE Crash
  <2>1. /\ Root' = Root /\ HeadRecords' = HeadRecords
        /\ txn' = [w \in Writers |-> Idle]
    BY <1>1, <1>5, StoreUnchanged DEF Crash
  <2>2. Asking' = [w \in Writers |-> IF w \in Writers THEN NoRequest ELSE Asking[w]]
    BY <2>1 DEF Asking, Idle
  <2>3. Promise!HasNone(Writers)
    BY <2>1, <2>2 DEF Promise!HasNone, Asking
  <2> QED
    BY <2>3 DEF Promise!PromiseNext
<1>6. CASE Account \/ UNCHANGED vars
  <2>1. UNCHANGED <<made, roots, txn>>
    BY <1>6 DEF Account, DeactivateAccount, ActivateAccount, GetSyncEventData,
           SequenceAccountActivation, UnlinkAccount, SequenceAccountDeletion,
           PurgeDeletedAccount, DestroyStore, storeVars, vars
  <2>2. Asking' = Asking
    BY <2>1 DEF Asking
  <2> QED
    BY <1>1, <2>1, <2>2, PromiseUnchanged
<1> QED
  BY <1>2, <1>4, <1>5, <1>6 DEF RepoNext

LEMMA PromiseStart ==
  ASSUME RepoInit
  PROVE  Promise!PromiseInit
<1>1. HeadRecords = [k \in Keys |-> Gone]
  BY DEF RepoInit, HeadRecords, Root
<1>2. Asking = [w \in Writers |-> NoRequest]
  BY DEF RepoInit, Asking, Idle
<1> QED
  BY <1>1, <1>2 DEF Promise!PromiseInit, Asking

(* The detailed writes implement the abstract ones: a request takes effect *)
(* in one step, the commit of its transaction, on the records and the      *)
(* commit it finds then, or it has none.                                   *)
THEOREM TakesEffectCorrect == RepoSpec => TakesEffectAtOnce
<1>1. RepoInit => Promise!PromiseInit
  BY PromiseStart
<1>2. RepoInv /\ [RepoNext]_vars => [Promise!PromiseNext]_(Promise!promiseVars)
  BY PromiseStep
<1> QED
  BY <1>1, <1>2, RepoInvariant, PTL DEF RepoSpec, TakesEffectAtOnce, Promise!PromiseSpec

----------------------------------------------------------------------------
(* What is committed was sequenced before.  The strengthening: a           *)
(* transaction that has sequenced its commit has done so after every       *)
(* commit of the store, and without imports every one sequences.           *)

Heard(c, d) ==
  \E k, l \in 1 .. Len(stream) :
    /\ k <= l
    /\ stream[k] = Event("commit", c)
    /\ stream[l] = Event("commit", d)

AnnouncedInv ==
  /\ \A w \in Writers : txn[w].at # "idle" => txn[w].req.api # "importRepo"
  /\ Present => \A i, j \in 1 .. Len(roots) : i <= j => Heard(roots[i], roots[j])
  /\ Present => \A w \in Writers :
       txn[w].at = "sequenced" => \A i \in 1 .. Len(roots) : Heard(roots[i], txn[w].mine)

(* Rows stay, and a new one is after them.                                 *)
LEMMA HeardKept ==
  ASSUME RepoInv,
         stream' = stream \/ \E kind, e : stream' = Append(stream, Event(kind, e)),
         NEW c, NEW d, Heard(c, d)
  PROVE  Heard(c, d)'
<1>1. /\ Len(stream) \in Nat /\ Len(stream') \in Nat /\ Len(stream) <= Len(stream')
      /\ \A k \in 1 .. Len(stream) : stream'[k] = stream[k]
  <2>1. stream \in Seq([kind : {"commit", "sync", "deleted"}, cid : 0 .. Len(made)])
    BY DEF RepoInv, RepoTypeOK
  <2> QED
    BY <2>1
<1> QED
  BY <1>1 DEF Heard

LEMMA HeardNow ==
  ASSUME RepoInv, NEW c, NEW d, NEW e, stream' = Append(stream, Event("commit", d)), Heard(c, e)
  PROVE  Heard(c, d)'
<1>1. stream \in Seq([kind : {"commit", "sync", "deleted"}, cid : 0 .. Len(made)])
  BY DEF RepoInv, RepoTypeOK
<1>2. /\ Len(stream) \in Nat /\ Len(stream') = Len(stream) + 1
      /\ stream'[Len(stream) + 1] = Event("commit", d)
      /\ \A k \in 1 .. Len(stream) : stream'[k] = stream[k]
  BY <1>1
<1>3. PICK k \in 1 .. Len(stream) : stream[k] = Event("commit", c)
  BY DEF Heard
<1> QED
  BY <1>2, <1>3 DEF Heard

LEMMA AnnouncedStart ==
  ASSUME RepoInit
  PROVE  AnnouncedInv
<1>1. /\ Len(roots) = 1 /\ roots[1] = 1 /\ Len(stream) = 1 /\ stream[1] = Event("commit", 1)
      /\ \A w \in Writers : txn[w].at = "idle"
  BY DEF RepoInit, Idle
<1>2. Heard(1, 1)
  BY <1>1 DEF Heard
<1> QED
  BY <1>1, <1>2 DEF AnnouncedInv

(* While the account is there, nothing is taken from the stream.           *)
LEMMA StreamGrows ==
  ASSUME [RepoNext]_vars, Present'
  PROVE  /\ Present
         /\ stream' = stream \/ \E kind, e : stream' = Append(stream, Event(kind, e))
<1>1. CASE \E w \in Writers : Ask(w) \/ Work(w) \/ Fail(w)
  BY <1>1 DEF Present, Ask, Work, Fail, NoOp, Refused, FormCommit, ApplyCommit, Persist, Busy,
     SequenceCommit, CommitTxn, CommitImport, UpdateRepoRoot, GiveUp, SequencingFails,
     CommitFails, UpdateRepoRootFails, accountVars
<1>2. CASE Crash
  BY <1>2 DEF Crash, Present
<1>3. CASE Account
  BY <1>3 DEF Present, Account, DeactivateAccount, ActivateAccount, GetSyncEventData,
     SequenceAccountActivation, UnlinkAccount, SequenceAccountDeletion,
     PurgeDeletedAccount, DestroyStore
<1>4. CASE UNCHANGED vars
  BY <1>4 DEF vars, accountVars, Present
<1> QED
  BY <1>1, <1>2, <1>3, <1>4 DEF RepoNext

(* Steps that neither commit nor sequence a commit.                        *)
LEMMA AnnouncedKept ==
  ASSUME RepoInv, AnnouncedInv, [RepoNext]_vars,
         roots' = roots,
         \A v \in Writers : txn'[v].at = "sequenced" => txn'[v] = txn[v],
         \A v \in Writers : txn'[v].at # "idle" => txn'[v].req.api # "importRepo"
  PROVE  AnnouncedInv'
<1>1. ASSUME Present'
      PROVE  Present /\ \A c, d : Heard(c, d) => Heard(c, d)'
  BY <1>1, StreamGrows, HeardKept
<1> QED
  BY <1>1 DEF AnnouncedInv

LEMMA AnnouncedBySequencing ==
  ASSUME RepoInv, AnnouncedInv, NEW w \in Writers, SequenceCommit(w)
  PROVE  AnnouncedInv'
<1> DEFINE c == txn[w].mine
<1>1. /\ RepoTypeOK /\ roots' = roots /\ status' = status
      /\ Len(roots) \in Nat /\ Len(roots) > 0
      /\ txn[w].at = "applied"
      /\ stream' = Append(stream, Event("commit", c))
  BY RootTyped DEF RepoInv, SequenceCommit, Sequencing, storeVars, accountVars
<1>2. MovesTo(w, [at |-> "sequenced", req |-> txn[w].req, snap |-> txn[w].snap, mine |-> c])
  BY <1>1, Moves DEF SequenceCommit, Places
<1>3. txn'[w].mine = c /\ txn'[w].req = txn[w].req
  BY <1>2 DEF MovesTo
<1>4. \A v \in Writers \ {w} : txn'[v] = txn[v] /\ txn[v].at # "sequenced"
  BY <1>1, <1>2 DEF MovesTo, RepoTypeOK
<1> HIDE DEF c
<1>5. \A v \in Writers : txn'[v].at # "idle" => txn'[v].req.api # "importRepo"
  BY <1>1, <1>3, <1>4 DEF AnnouncedInv
<1>6. ASSUME NEW d, NEW e, Heard(d, e) PROVE Heard(d, e)'
  BY <1>1, <1>6, HeardKept
<1>7. ASSUME NEW d, NEW e, Heard(d, d), e = c PROVE Heard(d, e)'
  BY <1>1, <1>7, HeardNow
<1>8. Present' => Present
  BY <1>1 DEF Present
<1>9. ASSUME Present'
      PROVE  /\ \A i, j \in 1 .. Len(roots') : i <= j => Heard(roots[i], roots[j])
             /\ \A i \in 1 .. Len(roots') : Heard(roots[i], roots[i])
  BY <1>1, <1>8, <1>9 DEF AnnouncedInv
<1>10. ASSUME Present', NEW v \in Writers, txn'[v].at = "sequenced"
       PROVE  v = w /\ txn'[v].mine = c
  BY <1>3, <1>4, <1>10
<1> QED
  BY <1>1, <1>5, <1>6, <1>7, <1>9, <1>10 DEF AnnouncedInv

LEMMA AnnouncedByCommit ==
  ASSUME RepoInv, AnnouncedInv, NEW w \in Writers, CommitTxn(w)
  PROVE  AnnouncedInv'
<1> DEFINE c == txn[w].mine
           n == Len(roots)
<1>1. /\ RepoTypeOK /\ stream' = stream /\ status' = status
      /\ n \in Nat /\ n > 0
      /\ roots \in Seq(1 .. Len(made)) /\ roots' = Append(roots, c)
      /\ c \in 1 .. Len(made)
      /\ txn[w].at = "sequenced"
  BY RootTyped DEF RepoInv, RepoTypeOK, TxnOK, CommitTxn, Committed, accountVars
<1>2. MovesTo(w, [at |-> "committed", req |-> txn[w].req, snap |-> txn[w].snap, mine |-> c])
  BY <1>1, Moves DEF CommitTxn, Places
<1>3. ASSUME NEW v \in Writers
      PROVE  txn'[v].at # "sequenced" /\ (txn'[v].at # "idle" => txn'[v].req.api # "importRepo")
  <2>1. CASE v = w
    <3>1. txn'[w].at = "committed" /\ txn'[w].req = txn[w].req
      BY <1>2 DEF MovesTo
    <3> QED
      BY <1>1, <2>1, <3>1 DEF AnnouncedInv
  <2>2. CASE v # w
    BY <1>1, <1>2, <2>2 DEF MovesTo, RepoTypeOK, AnnouncedInv
  <2> QED
    BY <2>1, <2>2
<1> HIDE DEF c
<1>4. /\ Len(roots') = n + 1 /\ roots'[n + 1] = c
      /\ \A i \in 1 .. n : roots'[i] = roots[i]
  BY <1>1
<1>5. \A d, e : Heard(d, e)' <=> Heard(d, e)
  BY <1>1 DEF Heard
<1>6. Present' => Present
  BY <1>1 DEF Present
<1>7. ASSUME Present, NEW i \in 1 .. n PROVE Heard(roots[i], c)
  BY <1>1, <1>7 DEF AnnouncedInv, c
<1>8. ASSUME Present PROVE Heard(c, c)
  <2>1. 1 \in 1 .. n
    BY <1>1
  <2>2. Heard(roots[1], c)
    BY <1>7, <1>8, <2>1
  <2>3. Len(stream) \in Nat
    BY <1>1 DEF RepoTypeOK
  <2> QED
    BY <2>2, <2>3 DEF Heard
<1>9. ASSUME Present', NEW i \in 1 .. n + 1, NEW j \in 1 .. n + 1, i <= j
      PROVE  Heard(roots'[i], roots'[j])
  <2>1. CASE j \in 1 .. n
    <3>1. i \in 1 .. n
      BY <1>1, <1>9, <2>1
    <3> QED
      BY <1>4, <1>6, <1>9, <2>1, <3>1 DEF AnnouncedInv
  <2>2. CASE j = n + 1 /\ i \in 1 .. n
    BY <1>4, <1>6, <1>7, <1>9, <2>2
  <2>3. CASE j = n + 1 /\ i = n + 1
    BY <1>4, <1>6, <1>8, <1>9, <2>3
  <2> QED
    BY <1>1, <2>1, <2>2, <2>3
<1> QED
  BY <1>3, <1>4, <1>5, <1>9 DEF AnnouncedInv

LEMMA AnnouncedStep ==
  ASSUME RepoInv, AnnouncedInv, [RepoNext]_vars, ~AcceptingImports
  PROVE  AnnouncedInv'
<1> USE DEF AnnouncedInv
<1>1. ASSUME NEW w \in Writers, NEW rec, MovesTo(w, rec), roots' = roots,
             rec.at # "sequenced",
             rec.at # "idle" => rec.req.api # "importRepo"
      PROVE  AnnouncedInv'
  <2>1. \A v \in Writers : /\ txn'[v].at = "sequenced" => txn'[v] = txn[v]
                           /\ txn'[v].at # "idle" => txn'[v].req.api # "importRepo"
    BY <1>1 DEF MovesTo
  <2> QED
    BY <1>1, <2>1, AnnouncedKept
<1> HIDE DEF AnnouncedInv
<1>2. ASSUME NEW w \in Writers, Ask(w) PROVE AnnouncedInv'
  <2>1. PICK r \in Requests(Root, HeadRecords) \cup Imports :
          /\ txn' = [txn EXCEPT ![w] = Asked(r)]
          /\ r.api # "importRepo"
    BY <1>2 DEF Ask
  <2>2. MovesTo(w, Asked(r)) /\ roots' = roots
    <3>1. txn \in [Writers -> TxnRecords]
      BY DEF RepoInv, RepoTypeOK, TxnRecords
    <3>2. \E q \in AllRequests : MovesTo(w, Asked(q))
      BY <1>2, AskMoves
    <3>3. txn'[w] = Asked(r)
      BY <2>1, <3>1
    <3> QED
      BY <1>2, <3>2, <3>3 DEF MovesTo, Ask, storeVars
  <2> QED
    BY <1>1, <2>1, <2>2 DEF Asked
<1>3. ASSUME NEW w \in Writers,
             NoOp(w) \/ Refused(w) \/ Busy(w) \/ GiveUp(w)
               \/ SequencingFails(w) \/ CommitFails(w)
               \/ UpdateRepoRoot(w) \/ UpdateRepoRootFails(w)
      PROVE  AnnouncedInv'
  <2>1. /\ roots' = roots /\ RepoTypeOK
        /\ Ends(w) \/ (StartsOver(w) /\ txn[w].at # "idle")
    BY <1>3 DEF RepoInv, NoOp, Refused, Busy, GiveUp, SequencingFails, Sequencing, CommitFails,
           UpdateRepoRoot, UpdateRepoRootFails, storeVars
  <2>2. CASE Ends(w)
    BY <1>1, <2>1, <2>2, Moves DEF Idle
  <2>3. CASE StartsOver(w) /\ txn[w].at # "idle"
    <3>1. MovesTo(w, Asked(txn[w].req))
      BY <2>1, <2>3, Moves
    <3>2. Asked(txn[w].req).at = "asked" /\ Asked(txn[w].req).req = txn[w].req
      BY DEF Asked
    <3>3. txn[w].req.api # "importRepo"
      BY <2>3 DEF AnnouncedInv
    <3> QED
      BY <1>1, <2>1, <3>1, <3>2, <3>3
  <2> QED
    BY <2>1, <2>2, <2>3
<1>4. ASSUME NEW w \in Writers, FormCommit(w) \/ ApplyCommit(w) PROVE AnnouncedInv'
  <2>1. txn \in [Writers -> TxnRecords] /\ roots' = roots
    BY <1>4 DEF RepoInv, RepoTypeOK, TxnRecords, FormCommit, ApplyCommit, Persist, storeVars
  <2>2. /\ txn'[w].at \in {"formed", "applied"} /\ txn'[w].req = txn[w].req
        /\ txn[w].at # "idle"
        /\ \A v \in Writers \ {w} : txn'[v] = txn[v]
    BY <1>4, <2>1 DEF FormCommit, ApplyCommit, Persist, TxnRecords
  <2> QED
    BY <2>1, <2>2, AnnouncedKept DEF AnnouncedInv
<1>5. ASSUME NEW w \in Writers, CommitImport(w) PROVE FALSE
  BY <1>5 DEF CommitImport, AnnouncedInv
<1>6. CASE Crash
  <2>1. roots' = roots /\ \A v \in Writers : txn'[v].at = "idle"
    BY <1>6 DEF Crash, Idle
  <2> QED
    BY <2>1, AnnouncedKept
<1>7. CASE Account \/ UNCHANGED vars
  <2>1. UNCHANGED <<roots, txn>>
    BY <1>7 DEF Account, DeactivateAccount, ActivateAccount, GetSyncEventData,
           SequenceAccountActivation, UnlinkAccount, SequenceAccountDeletion,
           PurgeDeletedAccount, DestroyStore, storeVars, vars
  <2> QED
    BY <2>1, AnnouncedKept DEF AnnouncedInv
<1>8. ASSUME NEW w \in Writers, Work(w) \/ Fail(w) PROVE AnnouncedInv'
  BY <1>3, <1>4, <1>5, <1>8, AnnouncedBySequencing, AnnouncedByCommit DEF Work, Fail
<1> QED
  BY <1>2, <1>6, <1>7, <1>8 DEF RepoNext

(* Where repositories are not imported, no commit is in a store that the   *)
(* sequencer has not heard of, and it heard of them in the order in which  *)
(* they were made, whatever fails or crashes.                              *)
THEOREM AnnouncedInOrderCorrect == ~AcceptingImports => (RepoSpec => []AnnouncedInOrder)
<1> SUFFICES ASSUME ~AcceptingImports PROVE RepoSpec => []AnnouncedInOrder
  OBVIOUS
<1>1. RepoInit => AnnouncedInv
  BY AnnouncedStart
<1>2. RepoInv /\ AnnouncedInv /\ [RepoNext]_vars => AnnouncedInv'
  BY AnnouncedStep
<1>3. AnnouncedInv => AnnouncedInOrder
  BY DEF AnnouncedInv, AnnouncedInOrder, Announced, Heard
<1> QED
  BY <1>1, <1>2, <1>3, RepoInvariant, PTL DEF RepoSpec

----------------------------------------------------------------------------
(* `since` is the last emitted commit, as long as none was lost after it   *)
(* was sequenced.  The strengthening: the last commit of the stream is the *)
(* root of the store, or the one a transaction has just sequenced.         *)

LastCommit(j) ==
  /\ stream[j].kind = "commit"
  /\ \A h \in j + 1 .. Len(stream) : stream[h].kind # "commit"

LastIsLatest ==
  \A j \in 1 .. Len(stream) : LastCommit(j) =>
    /\ \A w \in Writers : txn[w].at = "sequenced" => stream[j].cid = txn[w].mine
    /\ (\A w \in Writers : txn[w].at # "sequenced") => stream[j].cid = Root

CommitsMade ==
  \A j \in 1 .. Len(stream) : stream[j].kind = "commit" => stream[j].cid \in 1 .. Len(made)

SinceInv ==
  /\ crashes \in Nat
  /\ CommitsMade
  /\ crashes = 0 => SinceLastEmitted /\ LastIsLatest

LEMMA SinceStart ==
  ASSUME RepoInit
  PROVE  SinceInv
<1>1. /\ Len(stream) = 1 /\ stream[1] = Event("commit", 1) /\ crashes = 0
      /\ Len(made) = 1 /\ Root = 1
      /\ \A w \in Writers : txn[w].at = "idle"
  BY DEF RepoInit, Idle, Root
<1>2. Event("commit", 1).kind = "commit" /\ Event("commit", 1).cid = 1
  BY DEF Event
<1>3. SinceLastEmitted
  BY <1>1 DEF SinceLastEmitted
<1> QED
  BY <1>1, <1>2, <1>3 DEF SinceInv, CommitsMade, LastIsLatest

(* A row that is no commit, or a stream without commits.                   *)
NoNewCommit ==
  \/ stream' = stream
  \/ \E c : stream' = Append(stream, Event("sync", c)) \/ stream' = Append(stream, Event("deleted", c))
  \/ stream' = <<Event("deleted", 0)>>

(* What a commit row of the next state says of this one.                   *)
LEMMA SameCommits ==
  ASSUME RepoInv, NoNewCommit
  PROVE  /\ Len(stream) \in Nat /\ Len(stream') \in Nat
         /\ \A j \in 1 .. Len(stream') : stream'[j].kind = "commit" =>
              j <= Len(stream) /\ Len(stream) <= Len(stream')
         /\ Len(stream) <= Len(stream') /\ (\E j \in 1 .. Len(stream') : stream'[j].kind = "commit")
              => \A j \in 1 .. Len(stream) : stream'[j] = stream[j]
<1>1. stream \in Seq([kind : {"commit", "sync", "deleted"}, cid : 0 .. Len(made)])
  BY DEF RepoInv, RepoTypeOK
<1>2. CASE stream' = stream
  BY <1>1, <1>2
<1>3. ASSUME NEW c, NEW kind \in {"sync", "deleted"}, stream' = Append(stream, Event(kind, c))
      PROVE  /\ Len(stream) \in Nat /\ Len(stream') = Len(stream) + 1
             /\ stream'[Len(stream) + 1].kind # "commit"
             /\ \A j \in 1 .. Len(stream) : stream'[j] = stream[j]
  BY <1>1, <1>3 DEF Event
<1>4. CASE stream' = <<Event("deleted", 0)>>
  <2>1. Len(stream') = 1 /\ stream'[1].kind = "deleted"
    BY <1>4 DEF Event
  <2> QED
    BY <1>1, <2>1
<1> QED
  BY <1>2, <1>3, <1>4 DEF NoNewCommit

LEMMA SinceKept ==
  ASSUME RepoInv, SinceInv, Grows, NoNewCommit, Root' = Root, crashes' = crashes,
         \A v \in Writers : txn'[v].at = "sequenced" <=> txn[v].at = "sequenced",
         \A v \in Writers : txn'[v].at = "sequenced" => txn'[v].mine = txn[v].mine
  PROVE  SinceInv'
<1> DEFINE n == Len(stream)
           m == Len(stream')
<1>1. /\ n \in Nat /\ m \in Nat /\ Len(made) \in Nat
      /\ \A j \in 1 .. m : stream'[j].kind = "commit" =>
           /\ j \in 1 .. n /\ n <= m
           /\ \A h \in 1 .. n : stream'[h] = stream[h]
  BY SameCommits, RootTyped DEF RepoInv
<1> HIDE DEF n, m
<1>2. CommitsMade'
  <2>1. ASSUME NEW j \in 1 .. m, stream'[j].kind = "commit"
        PROVE  stream'[j].cid \in 1 .. Len(made')
    <3>1. j \in 1 .. n /\ stream'[j] = stream[j]
      BY <1>1, <2>1
    <3>2. stream[j].cid \in 1 .. Len(made)
      BY <2>1, <3>1 DEF SinceInv, CommitsMade, n
    <3> QED
      BY <1>1, <3>1, <3>2 DEF Grows
  <2> QED
    BY <2>1 DEF CommitsMade, m
<1>3. ASSUME crashes = 0 PROVE SinceLastEmitted'
  <2>1. ASSUME NEW i \in 1 .. m, NEW j \in 1 .. m, i < j,
               stream'[i].kind = "commit", stream'[j].kind = "commit",
               \A h \in i + 1 .. j - 1 : stream'[h].kind # "commit"
        PROVE  made'[stream'[j].cid].prev = stream'[i].cid
    <3>1. /\ i \in 1 .. n /\ j \in 1 .. n
          /\ \A h \in 1 .. n : stream'[h] = stream[h]
      BY <1>1, <2>1
    <3>2. \A h \in i + 1 .. j - 1 : stream[h].kind # "commit"
      BY <1>1, <2>1, <3>1
    <3>3. stream[i].kind = "commit" /\ stream[j].kind = "commit"
      BY <2>1, <3>1
    <3>4. made[stream[j].cid].prev = stream[i].cid
      BY <1>3, <2>1, <3>1, <3>2, <3>3 DEF SinceInv, SinceLastEmitted, n
    <3>5. stream[j].cid \in 1 .. Len(made)
      BY <3>1, <3>3 DEF SinceInv, CommitsMade, n
    <3> QED
      BY <3>1, <3>4, <3>5 DEF Grows
  <2> QED
    BY <2>1 DEF SinceLastEmitted, m
<1>4. ASSUME crashes = 0 PROVE LastIsLatest'
  <2>1. ASSUME NEW j \in 1 .. m, LastCommit(j)'
        PROVE  j \in 1 .. n /\ stream'[j] = stream[j] /\ LastCommit(j)
    <3>1. stream'[j].kind = "commit" /\ \A h \in j + 1 .. m : stream'[h].kind # "commit"
      BY <2>1 DEF LastCommit, m
    <3>2. j \in 1 .. n /\ n <= m /\ \A h \in 1 .. n : stream'[h] = stream[h]
      BY <1>1, <3>1
    <3>3. \A h \in j + 1 .. n : h \in j + 1 .. m /\ stream'[h] = stream[h]
      BY <1>1, <3>2
    <3> QED
      BY <3>1, <3>2, <3>3 DEF LastCommit, n
  <2> QED
    BY <1>4, <2>1 DEF LastIsLatest, SinceInv, n, m
<1> QED
  BY <1>2, <1>3, <1>4 DEF SinceInv

(* The row of a commit made on the root.                                   *)
LEMMA SinceBySequencing ==
  ASSUME RepoInv, SinceInv, NEW w \in Writers, SequenceCommit(w)
  PROVE  SinceInv'
<1> DEFINE c == txn[w].mine
           n == Len(stream)
<1>1. /\ RepoTypeOK /\ roots' = roots /\ made' = made /\ crashes' = crashes
      /\ txn[w].at = "applied" /\ lock = w
      /\ stream' = Append(stream, Event("commit", c))
      /\ c \in 1 .. Len(made) /\ made[c].prev = Root
  BY DEF RepoInv, RepoTypeOK, TxnOK, SequenceCommit, Sequencing, storeVars, countVars
<1>2. /\ n \in Nat /\ Len(stream') = n + 1
      /\ stream'[n + 1] = Event("commit", c)
      /\ \A j \in 1 .. n : stream'[j] = stream[j]
  <2>1. stream \in Seq([kind : {"commit", "sync", "deleted"}, cid : 0 .. Len(made)])
    BY <1>1 DEF RepoTypeOK
  <2> QED
    BY <1>1, <2>1
<1>3. MovesTo(w, [at |-> "sequenced", req |-> txn[w].req, snap |-> txn[w].snap, mine |-> c])
  BY <1>1, Moves DEF SequenceCommit, Places
<1>4. \A v \in Writers : txn[v].at # "sequenced"
  BY <1>1 DEF RepoTypeOK
<1>5. \A v \in Writers : txn'[v].at = "sequenced" => txn'[v].mine = c
  BY <1>3, <1>4 DEF MovesTo
<1>6. txn'[w].at = "sequenced"
  BY <1>3 DEF MovesTo
<1>7. stream'[n + 1].kind = "commit" /\ stream'[n + 1].cid = c
  BY <1>2 DEF Event
<1> HIDE DEF c, n
<1>8. CommitsMade'
  <2>1. ASSUME NEW j \in 1 .. n + 1, stream'[j].kind = "commit"
        PROVE  stream'[j].cid \in 1 .. Len(made)
    <3>1. CASE j = n + 1
      BY <1>1, <1>7, <3>1
    <3>2. CASE j \in 1 .. n
      BY <1>2, <2>1, <3>2 DEF SinceInv, CommitsMade, n
    <3> QED
      BY <1>2, <3>1, <3>2
  <2> QED
    BY <1>1, <1>2, <2>1 DEF CommitsMade
<1>9. ASSUME crashes = 0 PROVE SinceLastEmitted'
  <2>1. ASSUME NEW i \in 1 .. n + 1, NEW j \in 1 .. n + 1, i < j,
               stream'[i].kind = "commit", stream'[j].kind = "commit",
               \A h \in i + 1 .. j - 1 : stream'[h].kind # "commit"
        PROVE  made[stream'[j].cid].prev = stream'[i].cid
    <3>1. i \in 1 .. n /\ stream[i].kind = "commit" /\ stream'[i] = stream[i]
      BY <1>2, <2>1
    <3>2. CASE j = n + 1
      <4>1. \A h \in i + 1 .. n : stream[h].kind # "commit"
        BY <1>2, <2>1, <3>1, <3>2
      <4>2. LastCommit(i)
        BY <3>1, <4>1 DEF LastCommit, n
      <4>3. stream[i].cid = Root
        BY <1>4, <1>9, <3>1, <4>2 DEF SinceInv, LastIsLatest, n
      <4> QED
        BY <1>1, <1>7, <3>1, <3>2, <4>3
    <3>3. CASE j \in 1 .. n
      <4>1. \A h \in i + 1 .. j - 1 : stream[h].kind # "commit"
        BY <1>2, <2>1, <3>1, <3>3
      <4> QED
        BY <1>2, <1>9, <2>1, <3>1, <3>3, <4>1 DEF SinceInv, SinceLastEmitted, n
    <3> QED
      BY <1>2, <3>2, <3>3
  <2> QED
    BY <1>1, <1>2, <2>1 DEF SinceLastEmitted
<1>10. LastIsLatest'
  <2>1. ASSUME NEW j \in 1 .. n + 1, LastCommit(j)' PROVE stream'[j].cid = c
    <3>1. j \notin 1 .. n
      BY <1>2, <1>7, <2>1 DEF LastCommit
    <3> QED
      BY <1>2, <1>7, <3>1
  <2> QED
    BY <1>2, <1>5, <1>6, <2>1 DEF LastIsLatest
<1> QED
  BY <1>1, <1>8, <1>9, <1>10 DEF SinceInv

LEMMA SinceByCommit ==
  ASSUME RepoInv, SinceInv, NEW w \in Writers, CommitTxn(w)
  PROVE  SinceInv'
<1>1. /\ RepoTypeOK /\ stream' = stream /\ made' = made /\ crashes' = crashes
      /\ roots' = Append(roots, txn[w].mine)
      /\ txn[w].at = "sequenced" /\ lock = w
  BY DEF RepoInv, RepoTypeOK, CommitTxn, Committed, countVars
<1>2. MovesTo(w, [at |-> "committed", req |-> txn[w].req, snap |-> txn[w].snap, mine |-> txn[w].mine])
  BY <1>1, Moves DEF CommitTxn, Places
<1>3. \A v \in Writers : txn'[v].at # "sequenced"
  <2>1. txn'[w].at = "committed"
    BY <1>2 DEF MovesTo
  <2>2. \A v \in Writers \ {w} : txn[v].at # "sequenced"
    BY <1>1 DEF RepoTypeOK
  <2>3. \A v \in Writers \ {w} : txn'[v] = txn[v]
    BY <1>2 DEF MovesTo
  <2> QED
    BY <2>1, <2>2, <2>3
<1>4. Root' = txn[w].mine
  <2>1. roots \in Seq(1 .. Len(made))
    BY <1>1 DEF RepoTypeOK
  <2> QED
    BY <1>1, <2>1 DEF Root
<1>5. CommitsMade' /\ (crashes = 0 => SinceLastEmitted')
  BY <1>1 DEF SinceInv, CommitsMade, SinceLastEmitted
<1>6. ASSUME crashes = 0 PROVE LastIsLatest'
  <2>1. \A j \in 1 .. Len(stream) : LastCommit(j)' => stream[j].cid = txn[w].mine
    BY <1>1, <1>6 DEF SinceInv, LastIsLatest, LastCommit
  <2> QED
    BY <1>1, <1>3, <1>4, <2>1 DEF LastIsLatest
<1> QED
  BY <1>1, <1>5, <1>6 DEF SinceInv

(* A crash: from here on nothing is claimed.                               *)
LEMMA SinceByCrash ==
  ASSUME SinceInv, CrashHappens, UNCHANGED <<made, stream>>
  PROVE  SinceInv'
<1>1. crashes' \in Nat /\ crashes' # 0
  BY DEF SinceInv, CrashHappens
<1>2. CommitsMade'
  BY DEF SinceInv, CommitsMade
<1> QED
  BY <1>1, <1>2 DEF SinceInv

LEMMA SinceStep ==
  ASSUME RepoInv, AnnouncedInv, SinceInv, [RepoNext]_vars
  PROVE  SinceInv'
<1>1. RepoTypeOK /\ txn \in [Writers -> TxnRecords]
  BY DEF RepoInv, RepoTypeOK, TxnRecords
<1>2. ASSUME NEW w \in Writers, NEW rec, MovesTo(w, rec), UNCHANGED <<made, roots, stream, crashes>>,
             rec.at # "sequenced", txn[w].at # "sequenced"
      PROVE  SinceInv'
  <2>1. Grows /\ Root' = Root
    BY <1>1, <1>2, StoreUnchanged
  <2>2. \A v \in Writers : /\ txn'[v].at = "sequenced" <=> txn[v].at = "sequenced"
                           /\ txn'[v].at = "sequenced" => txn'[v].mine = txn[v].mine
    BY <1>2 DEF MovesTo
  <2> QED
    BY <1>2, <2>1, <2>2, SinceKept DEF NoNewCommit
<1>3. ASSUME NEW w \in Writers, Ask(w) PROVE SinceInv'
  <2>1. UNCHANGED <<made, roots, stream, crashes>> /\ txn[w].at # "sequenced"
    BY <1>3 DEF Ask, storeVars, Idle
  <2>2. PICK q \in AllRequests : MovesTo(w, Asked(q))
    BY <1>3, AskMoves
  <2>3. Asked(q).at # "sequenced"
    BY DEF Asked
  <2> QED
    BY <1>2, <2>1, <2>2, <2>3
<1>4. ASSUME NEW w \in Writers,
             NoOp(w) \/ Refused(w) \/ Busy(w) \/ GiveUp(w)
               \/ SequencingFails(w) \/ UpdateRepoRoot(w) \/ UpdateRepoRootFails(w)
      PROVE  SinceInv'
  <2>1. /\ UNCHANGED <<made, roots, stream, crashes>>
        /\ Ends(w) \/ StartsOver(w)
        /\ txn[w].at # "sequenced"
    BY <1>4 DEF NoOp, Refused, Busy, GiveUp, SequencingFails, Sequencing, FaultHappens,
           UpdateRepoRoot, UpdateRepoRootFails, storeVars, countVars
  <2>2. Idle.at # "sequenced" /\ Asked(txn[w].req).at # "sequenced"
    BY DEF Idle, Asked
  <2> QED
    BY <1>1, <1>2, <2>1, <2>2, Moves
<1>5. ASSUME NEW w \in Writers, FormCommit(w) PROVE SinceInv'
  <2>1. UNCHANGED <<made, roots, stream, crashes>> /\ txn[w].at = "asked"
    BY <1>5 DEF FormCommit, storeVars, countVars
  <2>2. /\ txn'[w].at = "formed"
        /\ \A v \in Writers \ {w} : txn'[v] = txn[v]
    BY <1>1, <1>5 DEF FormCommit, TxnRecords
  <2>3. \A v \in Writers : /\ txn'[v].at = "sequenced" <=> txn[v].at = "sequenced"
                           /\ txn'[v].at = "sequenced" => txn'[v].mine = txn[v].mine
    BY <2>1, <2>2
  <2>4. Grows /\ Root' = Root
    BY <1>1, <2>1, StoreUnchanged
  <2> QED
    BY <2>1, <2>3, <2>4, SinceKept DEF NoNewCommit
<1>6. ASSUME NEW w \in Writers, ApplyCommit(w) PROVE SinceInv'
  <2>1. /\ UNCHANGED <<roots, stream, crashes>> /\ txn[w].at = "formed"
        /\ \E m : made' = Append(made, m)
    BY <1>6 DEF ApplyCommit, Persist, countVars
  <2>2. /\ txn'[w].at = "applied"
        /\ \A v \in Writers \ {w} : txn'[v] = txn[v]
    BY <1>1, <1>6 DEF ApplyCommit, Persist, TxnRecords
  <2>3. \A v \in Writers : /\ txn'[v].at = "sequenced" <=> txn[v].at = "sequenced"
                           /\ txn'[v].at = "sequenced" => txn'[v].mine = txn[v].mine
    BY <2>1, <2>2
  <2>4. Grows
    <3>1. made \in Seq([prev : Nat, records : Records]) /\ Len(roots) \in Nat
      BY <1>1, RootTyped DEF RepoTypeOK
    <3> QED
      BY <2>1, <3>1 DEF Grows
  <2>5. Root' = Root
    BY <2>1 DEF Root
  <2> QED
    BY <2>1, <2>3, <2>4, <2>5, SinceKept DEF NoNewCommit
<1>7. ASSUME NEW w \in Writers, CommitImport(w) PROVE FALSE
  BY <1>7 DEF CommitImport, AnnouncedInv
<1>8. ASSUME Crash \/ \E w \in Writers : CommitFails(w) PROVE SinceInv'
  BY <1>8, SinceByCrash DEF Crash, CommitFails
<1>9. ASSUME Account \/ UNCHANGED vars PROVE SinceInv'
  <2>1. UNCHANGED <<made, roots, txn, crashes>>
    BY <1>9 DEF Account, DeactivateAccount, ActivateAccount, GetSyncEventData,
           SequenceAccountActivation, UnlinkAccount, SequenceAccountDeletion,
           PurgeDeletedAccount, DestroyStore, storeVars, countVars, FaultHappens, vars
  <2>2. NoNewCommit
    BY <1>9 DEF NoNewCommit, Account, DeactivateAccount, ActivateAccount, GetSyncEventData,
           SequenceAccountActivation, UnlinkAccount, SequenceAccountDeletion,
           PurgeDeletedAccount, DestroyStore, vars
  <2>3. Grows /\ Root' = Root
    BY <1>1, <2>1, StoreUnchanged
  <2> QED
    BY <2>1, <2>2, <2>3, SinceKept
<1>10. ASSUME NEW w \in Writers, Work(w) \/ Fail(w) PROVE SinceInv'
  BY <1>4, <1>5, <1>6, <1>7, <1>8, <1>10, SinceBySequencing, SinceByCommit DEF Work, Fail
<1> QED
  BY <1>3, <1>8, <1>9, <1>10 DEF RepoNext

(* "since: The rev of the last emitted commit from this repo (if any)":    *)
(* where repositories are not imported, each commit that is emitted was    *)
(* made on the one emitted before it, however writers interleave and       *)
(* whatever fails, unless a commit was lost between its row and COMMIT.    *)
THEOREM SinceUnlessCrashedCorrect == ~AcceptingImports => (RepoSpec => []SinceUnlessCrashed)
<1> SUFFICES ASSUME ~AcceptingImports PROVE RepoSpec => []SinceUnlessCrashed
  OBVIOUS
<1>1. RepoInit => AnnouncedInv /\ SinceInv
  BY AnnouncedStart, SinceStart
<1>2. RepoInv /\ AnnouncedInv /\ SinceInv /\ [RepoNext]_vars => AnnouncedInv' /\ SinceInv'
  BY AnnouncedStep, SinceStep
<1>3. SinceInv => SinceUnlessCrashed
  BY DEF SinceInv, SinceUnlessCrashed
<1> QED
  BY <1>1, <1>2, <1>3, RepoInvariant, PTL DEF RepoSpec
=============================================================================
