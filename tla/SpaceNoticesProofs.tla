------------------------- MODULE SpaceNoticesProofs -------------------------
(***************************************************************************)
(* Proofs about SpaceNotices: one process at a time is in a batch, and the *)
(* services that are owed a notice have one, for any number of services,   *)
(* processes, registrations and deletions.                                 *)
(***************************************************************************)
EXTENDS SpaceNotices, FiniteSetTheorems, TLAPS

USE NoticesAssumption

(* A row that was read for a batch, and a deletion that is not enqueued.   *)
Notices == [service : Services, generation : Nat, expiresAt : Times]

Calls == [process : Processes, id : Nat, recipients : [Services -> Times]]

Modes == {"idle", "select", "state", "deliver", "clear", "reschedule", "gone"}

InHand(p) == {rows[p][i] : i \in 1 .. Len(rows[p])}

Types ==
  /\ now \in Times
  /\ account \in {"active", "paused", "missing"} /\ space \in {"active", "deleted"}
  /\ registered \in [Services -> Times]
  /\ queue \in [Services -> [generation : Nat, retryAt : Times, expiresAt : Times]]
  /\ lease \in [owner : Processes \cup {NoOwner}, expiresAt : 0 .. MaxTime + LeaseTime]
  /\ handlers \subseteq Calls
  /\ mode \in [Processes -> Modes]
  /\ aborted \in [Processes -> BOOLEAN]
  /\ leaseUntil \in [Processes -> 0 .. MaxTime + LeaseTime]
  /\ rows \in [Processes -> Seq(Notices)]
  /\ \A p \in Processes : mode[p] \in {"state", "deliver", "clear", "reschedule"} => rows[p] # <<>>
  /\ owed \in [Services -> Times]
  /\ deletes \in Nat

(* A process holds the lease until its batch ends or the lease does.       *)
LeaseOK ==
  \A p \in Processes :
    /\ mode[p] \in {"idle", "gone"} => leaseUntil[p] = 0
    /\ now < leaseUntil[p] => lease.owner = p /\ lease.expiresAt = leaseUntil[p]

(* A generation is one deletion's: what is in the queue or in a batch has  *)
(* been enqueued.                                                          *)
QueueOK ==
  \A s \in Services :
    /\ queue[s].generation <= deletes
    /\ queue[s].generation = 0 => queue[s] = NoRow
    /\ queue[s].retryAt <= queue[s].expiresAt
    /\ queue[s].generation = deletes => owed[s] <= queue[s].expiresAt

CallsOK ==
  /\ \A h \in handlers :
       /\ h.id \in 1 .. deletes
       /\ \A s \in Services : queue[s].generation # h.id
       /\ h.id = deletes => \A s \in Services : owed[s] <= h.recipients[s]
  /\ \A g, h \in handlers : g.id = h.id => g = h

NoticeOK(n) ==
  /\ n.generation \in 1 .. deletes
  /\ \A h \in handlers : h.id # n.generation
  /\ SameRow(n) => n.expiresAt = queue[n.service].expiresAt
  /\ n.generation = deletes => owed[n.service] <= n.expiresAt

BatchesOK == \A p \in Processes : \A n \in InHand(p) : NoticeOK(n)

(* What is cleared is not owed, and what is owed is of the last deletion.  *)
ClearOK ==
  \A p \in Processes :
    mode[p] = "clear" /\ Head(rows[p]).generation = deletes => owed[Head(rows[p]).service] <= now

OwedOK ==
  /\ account = "missing" \/ space = "active" => \A s \in Services : owed[s] = 0
  /\ \A s \in Services :
       now < owed[s] /\ s \notin lost =>
         \/ queue[s].generation = deletes
         \/ \E h \in handlers : h.id = deletes

NoticesInv == Types /\ LeaseOK /\ QueueOK /\ CallsOK /\ BatchesOK /\ ClearOK /\ OwedOK

Lowered == \A s \in Services : owed'[s] \in {0, owed[s]}

----------------------------------------------------------------------------
(* Batches.                                                                *)

LEMMA HeadAndTail ==
  ASSUME NEW S, NEW q \in Seq(S), q # <<>>
  PROVE  /\ \E i \in 1 .. Len(q) : q[i] = Head(q)
         /\ Tail(q) \in Seq(S)
         /\ \A i \in 1 .. Len(Tail(q)) : \E j \in 1 .. Len(q) : Tail(q)[i] = q[j]
<1>1. Len(q) \in Nat /\ Len(q) # 0
  OBVIOUS
<1>2. 1 \in 1 .. Len(q) /\ q[1] = Head(q)
  BY <1>1
<1>3. Tail(q) \in Seq(S) /\ Len(Tail(q)) = Len(q) - 1
      /\ \A i \in 1 .. Len(q) - 1 : Tail(q)[i] = q[i + 1]
  BY <1>1
<1>4. \A i \in 1 .. Len(q) - 1 : i + 1 \in 1 .. Len(q)
  BY <1>1
<1> QED
  BY <1>2, <1>3, <1>4

LEMMA HeadInHand ==
  ASSUME Types, NEW p \in Processes, rows[p] # <<>>
  PROVE  /\ Head(rows[p]) \in InHand(p) /\ Head(rows[p]) \in Notices
         /\ Tail(rows[p]) \in Seq(Notices)
         /\ \A i \in 1 .. Len(Tail(rows[p])) : Tail(rows[p])[i] \in InHand(p)
<1>1. rows[p] \in Seq(Notices)
  BY DEF Types
<1>2. \A i \in 1 .. Len(rows[p]) : rows[p][i] \in Notices
  BY <1>1
<1> QED
  BY <1>1, <1>2, HeadAndTail DEF InHand

(* A batch goes on with a row, or ends.                                    *)
LEMMA GoingOn ==
  ASSUME Types, NEW p \in Processes, NEW batch \in Seq(Notices), GoOn(p, batch)
  PROVE  \E m \in {"idle", "clear", "state"}, b \in {<<>>, batch}, u \in {0, leaseUntil[p]} :
           /\ mode' = [mode EXCEPT ![p] = m]
           /\ rows' = [rows EXCEPT ![p] = b]
           /\ leaseUntil' = [leaseUntil EXCEPT ![p] = u]
           /\ m = "idle" => u = 0
           /\ m # "idle" => b # <<>>
           /\ m = "clear" => Head(b).expiresAt <= now
<1>1. CASE batch = <<>> \/ aborted[p] \/ now >= leaseUntil[p]
  BY <1>1 DEF GoOn, EndBatch
<1>2. CASE ~(batch = <<>> \/ aborted[p] \/ now >= leaseUntil[p])
  <2> DEFINE m == IF Head(batch).expiresAt <= now THEN "clear" ELSE "state"
  <2>1. /\ mode' = [mode EXCEPT ![p] = m] /\ rows' = [rows EXCEPT ![p] = batch]
        /\ leaseUntil' = leaseUntil
    BY <1>2 DEF GoOn
  <2>2. leaseUntil' = [leaseUntil EXCEPT ![p] = leaseUntil[p]]
    BY <2>1 DEF Types
  <2>3. m \in {"clear", "state"} /\ (m = "clear" => Head(batch).expiresAt <= now)
    OBVIOUS
  <2> HIDE DEF m
  <2> QED
    BY <1>2, <2>1, <2>2, <2>3
<1> QED
  BY <1>1, <1>2

----------------------------------------------------------------------------
(* What keeps each part of the invariant.                                  *)

LEMMA LeaseKept ==
  ASSUME Types, LeaseOK, now' \in Nat, now <= now', lease' = lease,
         \A p \in Processes : leaseUntil'[p] \in {0, leaseUntil[p]},
         \A p \in Processes : mode'[p] \in {"idle", "gone"} => leaseUntil'[p] = 0
  PROVE  LeaseOK'
<1>1. SUFFICES ASSUME NEW p \in Processes, now' < leaseUntil'[p]
               PROVE  lease'.owner = p /\ lease'.expiresAt = leaseUntil'[p]
  BY DEF LeaseOK
<1>2. now \in Nat /\ leaseUntil[p] \in 0 .. MaxTime + LeaseTime
  BY DEF Types, Times
<1>3. leaseUntil'[p] = leaseUntil[p] /\ now < leaseUntil[p]
  BY <1>1, <1>2
<1> QED
  BY <1>3 DEF LeaseOK

LEMMA QueueKept ==
  ASSUME Types, QueueOK, UNCHANGED <<queue, deletes>>, Lowered
  PROVE  QueueOK'
<1>1. \A s \in Services : owed[s] \in Nat /\ queue[s].expiresAt \in Nat
  BY DEF Types, Times
<1> QED
  BY <1>1 DEF QueueOK, Lowered

LEMMA CallsKept ==
  ASSUME Types, CallsOK, UNCHANGED <<queue, deletes>>, handlers' \subseteq handlers, Lowered
  PROVE  CallsOK'
<1>1. \A h \in handlers : \A s \in Services : owed[s] \in Nat /\ h.recipients[s] \in Nat
  BY DEF Types, Times, Calls
<1>2. ASSUME NEW h \in handlers', NEW s \in Services, h.id = deletes
      PROVE  owed'[s] <= h.recipients[s]
  BY <1>1, <1>2 DEF CallsOK, Lowered
<1> QED
  BY <1>2 DEF CallsOK

LEMMA NoticeKeptOK ==
  ASSUME Types, NEW n \in Notices, NoticeOK(n), UNCHANGED <<queue, deletes>>,
         handlers' \subseteq handlers, Lowered
  PROVE  NoticeOK(n)'
<1>1. owed[n.service] \in Nat /\ n.expiresAt \in Nat /\ n.service \in Services
  BY DEF Types, Times, Notices
<1> QED
  BY <1>1 DEF NoticeOK, SameRow, Lowered

LEMMA BatchesKept ==
  ASSUME Types, BatchesOK, UNCHANGED <<queue, deletes>>, handlers' \subseteq handlers, Lowered,
         \A p \in Processes : InHand(p)' \subseteq InHand(p)
  PROVE  BatchesOK'
<1>1. \A p \in Processes : InHand(p) \subseteq Notices
  BY DEF Types, InHand
<1> QED
  BY <1>1, NoticeKeptOK DEF BatchesOK

LEMMA ClearKept ==
  ASSUME Types, ClearOK, deletes' = deletes, now' \in Nat, now <= now', Lowered,
         \A p \in Processes : mode'[p] = "clear" =>
           \/ mode[p] = "clear" /\ rows'[p] = rows[p]
           \/ Head(rows'[p]).generation = deletes => owed'[Head(rows'[p]).service] <= now'
  PROVE  ClearOK'
<1>1. SUFFICES ASSUME NEW p \in Processes, mode'[p] = "clear",
                      Head(rows'[p]).generation = deletes
               PROVE  owed'[Head(rows'[p]).service] <= now'
  BY DEF ClearOK
<1>2. now \in Nat
  BY DEF Types, Times
<1>3. CASE mode[p] = "clear" /\ rows'[p] = rows[p]
  <2>1. Head(rows[p]) \in Notices
    BY <1>3, HeadInHand DEF Types
  <2>2. Head(rows[p]).service \in Services
    BY <2>1 DEF Notices
  <2>3. owed[Head(rows[p]).service] <= now /\ owed[Head(rows[p]).service] \in Nat
    BY <1>1, <1>3, <2>2 DEF ClearOK, Types, Times
  <2>4. owed'[Head(rows[p]).service] \in {0, owed[Head(rows[p]).service]}
    BY <2>2 DEF Lowered
  <2> QED
    BY <1>2, <1>3, <2>3, <2>4
<1> QED
  BY <1>1, <1>3

LEMMA OwedKept ==
  ASSUME Types, OwedOK, UNCHANGED <<queue, handlers, deletes, lost>>, now' \in Nat, now <= now',
         Lowered,
         account' = "missing" \/ space' = "active" =>
           account = "missing" \/ space = "active" \/ \A s \in Services : owed'[s] = 0
  PROVE  OwedOK'
<1>1. \A s \in Services : owed[s] \in Nat
  BY DEF Types, Times
<1>2. now \in Nat
  BY DEF Types, Times
<1>3. ASSUME NEW s \in Services, now' < owed'[s] PROVE now < owed[s]
  BY <1>1, <1>2, <1>3 DEF Lowered
<1>4. ASSUME account' = "missing" \/ space' = "active" PROVE \A s \in Services : owed'[s] = 0
  BY <1>4 DEF OwedOK, Lowered
<1> QED
  BY <1>3, <1>4 DEF OwedOK

----------------------------------------------------------------------------
(* The clock, the space and its account.                                   *)

LEMMA InitInv == NoticesInit => NoticesInv
<1> SUFFICES ASSUME NoticesInit PROVE NoticesInv
  OBVIOUS
<1>0. 0 \in Times /\ MaxTime \in Nat /\ LeaseTime \in Nat
  BY DEF Times
<1>1. NoRow \in [generation : Nat, retryAt : Times, expiresAt : Times]
  BY <1>0 DEF NoRow
<1>2. Types
  <2>1. now \in Times /\ deletes \in Nat /\ owed \in [Services -> Times]
        /\ registered \in [Services -> Times]
    BY <1>0 DEF NoticesInit
  <2>2. queue \in [Services -> [generation : Nat, retryAt : Times, expiresAt : Times]]
    BY <1>1 DEF NoticesInit
  <2>3. lease \in [owner : Processes \cup {NoOwner}, expiresAt : 0 .. MaxTime + LeaseTime]
        /\ leaseUntil \in [Processes -> 0 .. MaxTime + LeaseTime]
    BY <1>0 DEF NoticesInit
  <2>4. /\ account \in {"active", "paused", "missing"} /\ space \in {"active", "deleted"}
        /\ handlers \subseteq Calls
        /\ mode \in [Processes -> Modes] /\ aborted \in [Processes -> BOOLEAN]
        /\ rows \in [Processes -> Seq(Notices)]
        /\ \A p \in Processes : mode[p] = "idle" /\ rows[p] = <<>>
    BY DEF NoticesInit, Modes
  <2> QED
    BY <2>1, <2>2, <2>3, <2>4 DEF Types
<1>3. LeaseOK
  BY DEF NoticesInit, LeaseOK
<1>4. QueueOK /\ CallsOK /\ OwedOK
  BY DEF NoticesInit, QueueOK, CallsOK, OwedOK, NoRow
<1>5. BatchesOK /\ ClearOK
  BY DEF NoticesInit, BatchesOK, ClearOK, InHand
<1> QED
  BY <1>2, <1>3, <1>4, <1>5 DEF NoticesInv

LEMMA NoProcessMoves ==
  ASSUME NoticesInv, UNCHANGED <<queue, lease, handlers, mode, leaseUntil, rows, deletes, lost>>,
         Types', now <= now', Lowered,
         account' = "missing" \/ space' = "active" =>
           account = "missing" \/ space = "active" \/ \A s \in Services : owed'[s] = 0
  PROVE  NoticesInv'
<1>1. now' \in Nat
  BY DEF Types, Times
<1>2. Types /\ LeaseOK /\ QueueOK /\ CallsOK /\ BatchesOK /\ ClearOK /\ OwedOK
  BY DEF NoticesInv
<1>3. LeaseOK'
  BY <1>1, <1>2, LeaseKept DEF LeaseOK
<1>4. QueueOK' /\ CallsOK'
  BY <1>2, QueueKept, CallsKept
<1>5. BatchesOK'
  BY <1>2, BatchesKept DEF InHand
<1>6. ClearOK'
  BY <1>1, <1>2, ClearKept
<1>7. OwedOK'
  BY <1>1, <1>2, OwedKept
<1> QED
  BY <1>3, <1>4, <1>5, <1>6, <1>7 DEF NoticesInv

LEMMA TickInv == ASSUME NoticesInv, Tick PROVE NoticesInv'
<1>1. now \in Times /\ now' = now + 1 /\ now' \in Times /\ now <= now'
  BY DEF NoticesInv, Types, Tick, Times
<1>2. UNCHANGED <<account, space, registered, queue, lease, handlers, mode, aborted, leaseUntil,
                  rows, owed, lost, deletes>>
  BY DEF Tick, storeVars, processVars, boundVars
<1>3. Types'
  BY <1>1, <1>2 DEF NoticesInv, Types
<1>4. Lowered
  BY <1>2 DEF Lowered
<1> QED
  BY <1>1, <1>2, <1>3, <1>4, NoProcessMoves

LEMMA AccountInv ==
  ASSUME NoticesInv, PauseAccount \/ ResumeAccount \/ DeleteAccount
  PROVE  NoticesInv'
<1>1. /\ UNCHANGED <<now, space, registered, queue, lease, handlers, mode, aborted, leaseUntil,
                     rows, lost, deletes>>
      /\ account' \in {"active", "paused", "missing"}
      /\ \/ account' # "missing" /\ owed' = owed
         \/ owed' = [s \in Services |-> 0]
  BY DEF PauseAccount, ResumeAccount, DeleteAccount, processVars, boundVars
<1>2. 0 \in Times /\ now <= now
  BY DEF NoticesInv, Types, Times
<1>3. owed' \in [Services -> Times] /\ Lowered
  BY <1>1, <1>2 DEF NoticesInv, Types, Lowered
<1>4. Types'
  BY <1>1, <1>3 DEF NoticesInv, Types
<1>5. account' = "missing" \/ space' = "active" =>
        account = "missing" \/ space = "active" \/ \A s \in Services : owed'[s] = 0
  BY <1>1
<1> QED
  BY <1>1, <1>2, <1>3, <1>4, <1>5, NoProcessMoves

LEMMA CreateSpaceInv == ASSUME NoticesInv, CreateSpace PROVE NoticesInv'
<1>1. /\ UNCHANGED <<now, account, registered, queue, lease, handlers, mode, aborted, leaseUntil,
                     rows, lost, deletes>>
      /\ space' = "active" /\ owed' = [s \in Services |-> 0]
  BY DEF CreateSpace, processVars, boundVars
<1>2. 0 \in Times /\ now <= now
  BY DEF NoticesInv, Types, Times
<1>3. owed' \in [Services -> Times] /\ Lowered
  BY <1>1, <1>2 DEF Lowered
<1>4. Types'
  BY <1>1, <1>3 DEF NoticesInv, Types
<1> QED
  BY <1>1, <1>2, <1>3, <1>4, NoProcessMoves

LEMMA RegisterInv ==
  ASSUME NoticesInv, NEW s \in Services, NEW t \in Expiries, RecordCredentialRecipient(s, t)
  PROVE  NoticesInv'
<1>1. /\ UNCHANGED <<now, account, space, queue, lease, handlers, mode, aborted, leaseUntil,
                     rows, owed, lost, deletes>>
      /\ registered' = [registered EXCEPT ![s] = t]
  BY DEF RecordCredentialRecipient, processVars
<1>2. t \in Times /\ now <= now
  BY DEF NoticesInv, Types, Times
<1>3. Types' /\ Lowered
  BY <1>1, <1>2 DEF NoticesInv, Types, Lowered
<1> QED
  BY <1>1, <1>2, <1>3, NoProcessMoves

----------------------------------------------------------------------------
(* The deletion and its notices.                                           *)

LEMMA DeleteSpaceInv ==
  ASSUME NoticesInv, NEW p \in Processes, DeleteSpace(p)
  PROVE  NoticesInv'
<1> DEFINE told == [s \in Services |-> IF now < registered[s] THEN registered[s] ELSE 0]
           call == [process |-> p, id |-> deletes + 1, recipients |-> told]
<1>1. /\ deletes' = deletes + 1 /\ owed' = told
      /\ handlers' = handlers \cup {call}
      /\ account = "active" /\ space' = "deleted"
      /\ registered' = [s \in Services |-> 0] /\ lost' = {}
      /\ UNCHANGED <<now, account, queue, lease, mode, aborted, leaseUntil, rows>>
  BY DEF DeleteSpace, processVars
<1>2. deletes \in Nat /\ 0 \in Times
  BY DEF NoticesInv, Types, Times
<1>3. told \in [Services -> Times]
  BY <1>2 DEF NoticesInv, Types
<1>4. call \in Calls /\ call.id = deletes + 1 /\ call.recipients = told
  BY <1>2, <1>3 DEF Calls
<1> HIDE DEF call, told
<1>5. Types'
  <2>1. /\ handlers' \subseteq Calls /\ owed' \in [Services -> Times] /\ deletes' \in Nat
        /\ registered' \in [Services -> Times] /\ space' \in {"active", "deleted"}
    BY <1>1, <1>2, <1>3, <1>4 DEF NoticesInv, Types
  <2> QED
    BY <1>1, <2>1 DEF NoticesInv, Types
<1>6. LeaseOK'
  BY <1>1 DEF NoticesInv, LeaseOK
<1>7. QueueOK'
  <2>1. \A s \in Services : queue[s].generation \in Nat /\ queue[s].generation <= deletes
    BY DEF NoticesInv, Types, QueueOK
  <2> QED
    BY <1>1, <1>2, <2>1 DEF NoticesInv, QueueOK
<1>8. CallsOK'
  <2>1. \A s \in Services : queue[s].generation \in Nat /\ queue[s].generation <= deletes
    BY DEF NoticesInv, Types, QueueOK
  <2>2. \A h \in handlers : /\ h.id \in 1 .. deletes
                            /\ \A s \in Services : queue[s].generation # h.id
    BY DEF NoticesInv, CallsOK
  <2>3. \A g, h \in handlers : g.id = h.id => g = h
    BY DEF NoticesInv, CallsOK
  <2>4. \A h \in handlers' :
          /\ h.id \in 1 .. deletes + 1
          /\ \A s \in Services : queue[s].generation # h.id
          /\ h.id = deletes + 1 => \A s \in Services : told[s] <= h.recipients[s]
    <3>1. \A s \in Services : told[s] <= told[s]
      BY <1>3 DEF Times
    <3> QED
      BY <1>1, <1>2, <1>4, <2>1, <2>2, <3>1
  <2>5. \A g, h \in handlers' : g.id = h.id => g = h
    BY <1>1, <1>2, <1>4, <2>2, <2>3
  <2> QED
    BY <1>1, <2>4, <2>5 DEF CallsOK
<1>9. BatchesOK'
  <2>1. ASSUME NEW q \in Processes, NEW n \in InHand(q) PROVE NoticeOK(n)'
    <3>1. NoticeOK(n)
      BY DEF NoticesInv, BatchesOK
    <3>2. n.generation \in 1 .. deletes + 1 /\ n.generation # deletes + 1
      BY <1>2, <3>1 DEF NoticeOK
    <3> QED
      BY <1>1, <1>4, <3>1, <3>2 DEF NoticeOK, SameRow
  <2>2. \A q \in Processes : InHand(q)' = InHand(q)
    BY <1>1 DEF InHand
  <2> QED
    BY <2>1, <2>2 DEF BatchesOK
<1>10. ClearOK'
  <2>1. SUFFICES ASSUME NEW q \in Processes, mode[q] = "clear"
                 PROVE  Head(rows[q]).generation # deletes + 1
    BY <1>1 DEF ClearOK
  <2>2. Head(rows[q]) \in InHand(q)
    BY <2>1, HeadInHand DEF NoticesInv, Types
  <2>3. Head(rows[q]).generation \in 1 .. deletes
    BY <2>2 DEF NoticesInv, BatchesOK, NoticeOK
  <2> QED
    BY <1>2, <2>3
<1>11. OwedOK'
  BY <1>1, <1>4 DEF OwedOK
<1> QED
  BY <1>5, <1>6, <1>7, <1>8, <1>9, <1>10, <1>11 DEF NoticesInv

LEMMA EnqueueInv ==
  ASSUME NoticesInv, NEW h \in handlers, Enqueue(h)
  PROVE  NoticesInv'
<1>1. /\ handlers' = handlers \ {h}
      /\ lost' = lost \cup {s \in Services :
                             now < h.recipients[s] /\ h.id < queue[s].generation}
      /\ UNCHANGED <<now, account, space, registered, lease, mode, aborted, leaseUntil, rows, owed,
                     deletes>>
  BY DEF Enqueue, storeVars, processVars, boundVars
<1>2. \A s \in Services :
        queue'[s] = IF now < h.recipients[s]
                    THEN [generation |-> h.id, retryAt |-> now, expiresAt |-> h.recipients[s]]
                    ELSE queue[s]
  BY DEF Enqueue
<1>a. h \in Calls /\ deletes \in Nat /\ now \in Times /\ now \in Nat
  BY DEF NoticesInv, Types, Times
<1>b. h.id \in Nat /\ \A s \in Services : h.recipients[s] \in Times
  BY <1>a DEF Calls
<1>3. /\ h.id \in 1 .. deletes
      /\ \A s \in Services : queue[s].generation # h.id
      /\ h.id = deletes => \A s \in Services : owed[s] <= h.recipients[s]
      /\ \A g \in handlers : g.id = h.id => g = h
  BY DEF NoticesInv, CallsOK
<1>4. \A s \in Services :
        now < h.recipients[s] =>
          /\ queue'[s] \in [generation : Nat, retryAt : Times, expiresAt : Times]
          /\ queue'[s].generation = h.id /\ queue'[s].retryAt = now
          /\ queue'[s].expiresAt = h.recipients[s]
  <2>1. TAKE s \in Services
  <2>2. HAVE now < h.recipients[s]
  <2>3. queue'[s] = [generation |-> h.id, retryAt |-> now, expiresAt |-> h.recipients[s]]
    BY <1>2, <2>2
  <2> QED
    BY <1>a, <1>b, <2>3
<1>5. \A s \in Services : ~(now < h.recipients[s]) => queue'[s] = queue[s]
  BY <1>2
<1>6. Types'
  <2>1. queue' \in [Services -> [generation : Nat, retryAt : Times, expiresAt : Times]]
    <3>1. \A s \in Services : queue'[s] \in [generation : Nat, retryAt : Times, expiresAt : Times]
      BY <1>4, <1>5 DEF NoticesInv, Types
    <3>2. queue' = [s \in Services |-> queue'[s]]
      BY DEF Enqueue
    <3> QED
      BY <3>1, <3>2
  <2> QED
    BY <1>1, <2>1 DEF NoticesInv, Types
<1>7. LeaseOK'
  BY <1>1 DEF NoticesInv, LeaseOK
<1>8. QueueOK'
  <2>1. SUFFICES ASSUME NEW s \in Services
                 PROVE  /\ queue'[s].generation <= deletes
                        /\ queue'[s].generation = 0 => queue'[s] = NoRow
                        /\ queue'[s].retryAt <= queue'[s].expiresAt
                        /\ queue'[s].generation = deletes => owed[s] <= queue'[s].expiresAt
    BY <1>1 DEF QueueOK
  <2>2. CASE now < h.recipients[s]
    <3>1. queue'[s].generation = h.id /\ queue'[s].retryAt = now
          /\ queue'[s].expiresAt = h.recipients[s] /\ h.recipients[s] \in Nat
      BY <1>a, <1>b, <1>4, <2>2 DEF Times
    <3> QED
      BY <1>a, <1>3, <2>2, <3>1
  <2>3. CASE ~(now < h.recipients[s])
    BY <1>5, <2>3 DEF NoticesInv, QueueOK
  <2> QED
    BY <2>2, <2>3
<1>9. CallsOK'
  <2>1. ASSUME NEW g \in handlers', NEW s \in Services PROVE queue'[s].generation # g.id
    <3>1. g \in handlers /\ g.id # h.id /\ queue[s].generation # g.id
      BY <1>1, <1>3 DEF NoticesInv, CallsOK
    <3> QED
      BY <1>4, <1>5, <3>1
  <2> QED
    BY <1>1, <2>1 DEF NoticesInv, CallsOK
<1>10. BatchesOK'
  <2>1. ASSUME NEW q \in Processes, NEW n \in InHand(q) PROVE NoticeOK(n)'
    <3>1. NoticeOK(n) /\ n \in Notices
      BY DEF NoticesInv, BatchesOK, InHand, Types
    <3>2. n.generation # h.id /\ n.service \in Services
      BY <3>1 DEF NoticeOK, Notices
    <3>3. SameRow(n)' => SameRow(n) /\ queue'[n.service] = queue[n.service]
      BY <1>4, <1>5, <3>2 DEF SameRow
    <3> QED
      BY <1>1, <3>1, <3>3 DEF NoticeOK
  <2>2. \A q \in Processes : InHand(q)' = InHand(q)
    BY <1>1 DEF InHand
  <2> QED
    BY <2>1, <2>2 DEF BatchesOK
<1>11. ClearOK'
  BY <1>1 DEF NoticesInv, ClearOK
<1>12. OwedOK'
  <2>1. SUFFICES ASSUME NEW s \in Services, now < owed[s], s \notin lost'
                 PROVE  queue'[s].generation = deletes \/ \E g \in handlers' : g.id = deletes
    BY <1>1 DEF NoticesInv, OwedOK
  <2>2. owed[s] \in Nat /\ h.recipients[s] \in Nat /\ queue[s].generation \in Nat
    <3>1. owed \in [Services -> Times]
          /\ queue \in [Services -> [generation : Nat, retryAt : Times, expiresAt : Times]]
      BY DEF NoticesInv, Types
    <3>2. Times \subseteq Nat
      BY DEF Times
    <3> QED
      BY <1>b, <3>1, <3>2
  <2>3. CASE queue[s].generation = deletes
    <3>1. ~(now < h.recipients[s])
      BY <1>a, <1>b, <1>1, <1>3, <2>1, <2>2, <2>3
    <3> QED
      BY <1>5, <2>3, <3>1
  <2>4. CASE \E g \in handlers : g.id = deletes
    <3>1. PICK g \in handlers : g.id = deletes
      BY <2>4
    <3>2. CASE g = h
      <4>1. now < h.recipients[s]
        BY <1>a, <1>3, <2>1, <2>2, <3>1, <3>2
      <4> QED
        BY <1>4, <3>1, <3>2, <4>1
    <3> QED
      BY <1>1, <3>1, <3>2
  <2> QED
    BY <1>1, <2>1, <2>3, <2>4 DEF NoticesInv, OwedOK
<1> QED
  BY <1>6, <1>7, <1>8, <1>9, <1>10, <1>11, <1>12 DEF NoticesInv

----------------------------------------------------------------------------
(* A process: it moves to m with the rest b of its batch, and keeps the    *)
(* lease's time or gives it up.                                            *)

Moves(p, m, b, u) ==
  /\ mode' = [mode EXCEPT ![p] = m]
  /\ rows' = [rows EXCEPT ![p] = b]
  /\ leaseUntil' = [leaseUntil EXCEPT ![p] = u]

LEMMA MovesOf ==
  ASSUME Types, NEW p \in Processes, NEW m, NEW b, NEW u, Moves(p, m, b, u)
  PROVE  /\ mode'[p] = m /\ rows'[p] = b /\ leaseUntil'[p] = u
         /\ \A q \in Processes : q # p =>
              mode'[q] = mode[q] /\ rows'[q] = rows[q] /\ leaseUntil'[q] = leaseUntil[q]
  BY DEF Types, Moves

LEMMA MovesTypes ==
  ASSUME Types, NEW p \in Processes, NEW m \in Modes, NEW b \in Seq(Notices),
         NEW u \in 0 .. MaxTime + LeaseTime, Moves(p, m, b, u),
         m \in {"state", "deliver", "clear", "reschedule"} => b # <<>>
  PROVE  /\ mode' \in [Processes -> Modes] /\ rows' \in [Processes -> Seq(Notices)]
         /\ leaseUntil' \in [Processes -> 0 .. MaxTime + LeaseTime]
         /\ \A q \in Processes :
              mode'[q] \in {"state", "deliver", "clear", "reschedule"} => rows'[q] # <<>>
<1>1. mode' \in [Processes -> Modes] /\ rows' \in [Processes -> Seq(Notices)]
      /\ leaseUntil' \in [Processes -> 0 .. MaxTime + LeaseTime]
  BY DEF Types, Moves
<1>a. /\ mode'[p] = m /\ rows'[p] = b
      /\ \A q \in Processes : q # p => mode'[q] = mode[q] /\ rows'[q] = rows[q]
  BY MovesOf
<1>b. \A q \in Processes :
        mode[q] \in {"state", "deliver", "clear", "reschedule"} => rows[q] # <<>>
  BY DEF Types
<1>2. ASSUME NEW q \in Processes,
             mode'[q] \in {"state", "deliver", "clear", "reschedule"}
      PROVE  rows'[q] # <<>>
  BY <1>2, <1>a, <1>b
<1> QED
  BY <1>1, <1>2

(* It keeps what it has of its batch, and the queue and the deletions are  *)
(* as they were.                                                           *)
LEMMA ProcessKept ==
  ASSUME NoticesInv, NEW p \in Processes, NEW m \in Modes, NEW b \in Seq(Notices),
         NEW u \in {0, leaseUntil[p]}, Moves(p, m, b, u),
         m \in {"idle", "gone"} => u = 0,
         m \in {"state", "deliver", "clear", "reschedule"} => b # <<>>,
         \A i \in 1 .. Len(b) : b[i] \in InHand(p),
         UNCHANGED <<now, account, space, registered, queue, lease, handlers, deletes, lost>>,
         aborted' \in [Processes -> BOOLEAN], owed' \in [Services -> Times], Lowered,
         m = "clear" /\ Head(b).generation = deletes => owed'[Head(b).service] <= now
  PROVE  NoticesInv'
<1>1. Types /\ LeaseOK /\ QueueOK /\ CallsOK /\ BatchesOK /\ ClearOK /\ OwedOK
  BY DEF NoticesInv
<1>2. u \in 0 .. MaxTime + LeaseTime
  <2>1. leaseUntil[p] \in 0 .. MaxTime + LeaseTime
    BY <1>1 DEF Types
  <2> QED
    BY <2>1
<1>3. /\ mode' \in [Processes -> Modes] /\ rows' \in [Processes -> Seq(Notices)]
      /\ leaseUntil' \in [Processes -> 0 .. MaxTime + LeaseTime]
      /\ \A q \in Processes :
           mode'[q] \in {"state", "deliver", "clear", "reschedule"} => rows'[q] # <<>>
  BY <1>1, <1>2, MovesTypes
<1>4. /\ mode'[p] = m /\ rows'[p] = b /\ leaseUntil'[p] = u
      /\ \A q \in Processes : q # p =>
           mode'[q] = mode[q] /\ rows'[q] = rows[q] /\ leaseUntil'[q] = leaseUntil[q]
  BY <1>1, MovesOf
<1>5. Types'
  BY <1>1, <1>3 DEF Types
<1>6. now' \in Nat /\ now <= now'
  BY <1>1 DEF Types, Times
<1>7. LeaseOK'
  <2>1. \A q \in Processes : leaseUntil'[q] \in {0, leaseUntil[q]}
    BY <1>4
  <2>2. \A q \in Processes : mode'[q] \in {"idle", "gone"} => leaseUntil'[q] = 0
    BY <1>1, <1>4 DEF LeaseOK
  <2> QED
    BY <1>1, <1>6, <2>1, <2>2, LeaseKept
<1>8. QueueOK' /\ CallsOK'
  BY <1>1, QueueKept, CallsKept
<1>9. BatchesOK'
  <2>1. ASSUME NEW q \in Processes PROVE InHand(q)' \subseteq InHand(q)
    <3>1. CASE q = p
      <4>1. \A n \in InHand(q)' : \E i \in 1 .. Len(b) : n = b[i]
        BY <1>4, <3>1 DEF InHand
      <4> QED
        BY <3>1, <4>1
    <3>2. CASE q # p
      BY <1>4, <3>2 DEF InHand
    <3> QED
      BY <3>1, <3>2
  <2>2. UNCHANGED <<queue, deletes>> /\ handlers' \subseteq handlers
    OBVIOUS
  <2> QED
    BY <1>1, <2>1, <2>2, BatchesKept
<1>10. ClearOK'
  <2>1. \A q \in Processes : mode'[q] = "clear" =>
          \/ mode[q] = "clear" /\ rows'[q] = rows[q]
          \/ Head(rows'[q]).generation = deletes => owed'[Head(rows'[q]).service] <= now'
    <3>1. TAKE q \in Processes
    <3>2. CASE q = p
      BY <1>4, <3>2
    <3>3. CASE q # p
      BY <1>4, <3>3
    <3> QED
      BY <3>2, <3>3
  <2> QED
    BY <1>1, <1>6, <2>1, ClearKept
<1>11. OwedOK'
  BY <1>1, <1>6, OwedKept
<1> QED
  BY <1>5, <1>7, <1>8, <1>9, <1>10, <1>11 DEF NoticesInv

LEMMA SameMove ==
  ASSUME Types, NEW p \in Processes, NEW m, mode' = [mode EXCEPT ![p] = m],
         UNCHANGED <<rows, leaseUntil>>
  PROVE  Moves(p, m, rows[p], leaseUntil[p])
  BY DEF Types, Moves

LEMMA EndBatchKept ==
  ASSUME NoticesInv, NEW p \in Processes, EndBatch(p),
         UNCHANGED <<now, account, space, registered, queue, lease, handlers, aborted, deletes, lost>>,
         owed' \in [Services -> Times], Lowered
  PROVE  NoticesInv'
<1>1. Moves(p, "idle", <<>>, 0) /\ "idle" \in Modes
  BY DEF EndBatch, Moves, Modes
<1>2. <<>> \in Seq(Notices) /\ 1 .. Len(<<>>) = {}
  OBVIOUS
<1>3. aborted' \in [Processes -> BOOLEAN]
  BY DEF NoticesInv, Types
<1> QED
  BY <1>1, <1>2, <1>3, ProcessKept

(* It looks at its row.                                                    *)
LEMMA SameRowKept ==
  ASSUME NoticesInv, NEW p \in Processes, rows[p] # <<>>,
         NEW m \in {"state", "deliver", "clear", "reschedule"},
         mode' = [mode EXCEPT ![p] = m],
         UNCHANGED <<now, account, space, registered, queue, lease, handlers, aborted, leaseUntil,
                     rows, deletes, lost>>,
         owed' \in [Services -> Times], Lowered,
         m = "clear" /\ Head(rows[p]).generation = deletes =>
           owed'[Head(rows[p]).service] <= now
  PROVE  NoticesInv'
<1>1. Types
  BY DEF NoticesInv
<1>2. Moves(p, m, rows[p], leaseUntil[p]) /\ m \in Modes
  BY <1>1, SameMove DEF Modes
<1>3. rows[p] \in Seq(Notices) /\ aborted' \in [Processes -> BOOLEAN]
  BY <1>1 DEF Types
<1>4. \A i \in 1 .. Len(rows[p]) : rows[p][i] \in InHand(p)
  BY DEF InHand
<1>5. leaseUntil[p] \in {0, leaseUntil[p]} /\ ~(m \in {"idle", "gone"})
  OBVIOUS
<1> QED
  BY <1>2, <1>3, <1>4, <1>5, ProcessKept

LEMMA OwedSame ==
  ASSUME Types, owed' = owed PROVE owed' \in [Services -> Times] /\ Lowered
  BY DEF Types, Lowered

LEMMA OwedTold ==
  ASSUME Types, NEW s \in Services, owed' = [owed EXCEPT ![s] = 0]
  PROVE  owed' \in [Services -> Times] /\ Lowered /\ owed'[s] = 0
<1>1. 0 \in Times
  BY DEF Times
<1> QED
  BY <1>1 DEF Types, Lowered

LEMMA AcquireLeaseInv ==
  ASSUME NoticesInv, NEW p \in Processes, AcquireLease(p)
  PROVE  NoticesInv'
<1>1. /\ MayLease(p)
      /\ lease' = [owner |-> p, expiresAt |-> now + LeaseTime]
      /\ leaseUntil' = [leaseUntil EXCEPT ![p] = now + LeaseTime]
      /\ mode' = [mode EXCEPT ![p] = "select"]
      /\ UNCHANGED <<now, account, space, registered, queue, handlers, aborted, rows, owed, lost,
                     deletes>>
  BY DEF AcquireLease, storeVars, boundVars
<1>2. Types /\ LeaseOK /\ QueueOK /\ CallsOK /\ BatchesOK /\ ClearOK /\ OwedOK
  BY DEF NoticesInv
<1>a. now \in Times
  BY <1>2 DEF Types
<1>3. now \in Times /\ now \in 0 .. MaxTime /\ now + LeaseTime \in 0 .. MaxTime + LeaseTime
  BY <1>a DEF Times
<1>4. /\ mode'[p] = "select" /\ leaseUntil'[p] = now + LeaseTime
      /\ \A q \in Processes : q # p => mode'[q] = mode[q] /\ leaseUntil'[q] = leaseUntil[q]
  BY <1>1, <1>2 DEF Types
<1>5. Types'
  <2>1. lease' \in [owner : Processes \cup {NoOwner}, expiresAt : 0 .. MaxTime + LeaseTime]
    BY <1>1, <1>3
  <2>2. mode' \in [Processes -> Modes]
        /\ leaseUntil' \in [Processes -> 0 .. MaxTime + LeaseTime]
    BY <1>1, <1>2, <1>3 DEF Types, Modes
  <2>3. ASSUME NEW q \in Processes,
               mode'[q] \in {"state", "deliver", "clear", "reschedule"}
        PROVE  rows'[q] # <<>>
    <3>1. q # p
      BY <1>4, <2>3
    <3> QED
      BY <1>1, <1>2, <1>4, <2>3, <3>1 DEF Types
  <2> QED
    BY <1>1, <1>2, <2>1, <2>2, <2>3 DEF Types
<1>6. LeaseOK'
  <2>1. SUFFICES ASSUME NEW q \in Processes
                 PROVE  /\ mode'[q] \in {"idle", "gone"} => leaseUntil'[q] = 0
                        /\ now < leaseUntil'[q] =>
                             lease'.owner = q /\ lease'.expiresAt = leaseUntil'[q]
    BY <1>1 DEF LeaseOK
  <2>2. CASE q = p
    BY <1>1, <1>4, <2>2
  <2>3. CASE q # p
    <3>1. ASSUME now < leaseUntil[q] PROVE FALSE
      <4>1. lease.owner = q /\ lease.expiresAt = leaseUntil[q]
        BY <1>2, <3>1 DEF LeaseOK
      <4>2. lease.expiresAt <= now
        BY <1>1, <2>3, <4>1 DEF MayLease
      <4>3. leaseUntil[q] \in 0 .. MaxTime + LeaseTime /\ now \in Nat
        BY <1>2, <1>3 DEF Types
      <4> QED
        BY <3>1, <4>1, <4>2, <4>3
    <3> QED
      BY <1>2, <1>4, <2>3, <3>1 DEF LeaseOK
  <2> QED
    BY <2>2, <2>3
<1>7. Lowered /\ now' \in Nat /\ now <= now'
  BY <1>1, <1>2, <1>3, OwedSame
<1>8. QueueOK' /\ CallsOK' /\ OwedOK'
  BY <1>1, <1>2, <1>7, QueueKept, CallsKept, OwedKept
<1>9. BatchesOK'
  BY <1>1, <1>2, <1>7, BatchesKept DEF InHand
<1>10. ClearOK'
  <2>1. \A q \in Processes : mode'[q] = "clear" => mode[q] = "clear" /\ rows'[q] = rows[q]
    BY <1>1, <1>4
  <2> QED
    BY <1>1, <1>2, <1>7, <2>1, ClearKept
<1> QED
  BY <1>5, <1>6, <1>8, <1>9, <1>10 DEF NoticesInv

LEMMA ReadStateInv ==
  ASSUME NoticesInv, NEW p \in Processes, ReadState(p)
  PROVE  NoticesInv'
<1> DEFINE m == IF account = "missing" THEN "clear"
                ELSE IF account = "paused" THEN "reschedule"
                ELSE IF space = "active" THEN "clear" ELSE "deliver"
<1>1. /\ mode[p] = "state" /\ mode' = [mode EXCEPT ![p] = m]
      /\ UNCHANGED <<now, account, space, registered, queue, lease, handlers, aborted, leaseUntil,
                     rows, owed, lost, deletes>>
  BY DEF ReadState, storeVars, boundVars
<1>2. Types /\ OwedOK /\ rows[p] # <<>>
  BY <1>1 DEF NoticesInv, Types
<1>3. owed' \in [Services -> Times] /\ Lowered
  BY <1>1, <1>2, OwedSame
<1>4. m \in {"state", "deliver", "clear", "reschedule"}
  OBVIOUS
<1>5. m = "clear" => account = "missing" \/ space = "active"
  OBVIOUS
<1>6. m = "clear" => owed'[Head(rows[p]).service] <= now
  <2>1. Head(rows[p]).service \in Services
    BY <1>2, HeadInHand DEF Notices
  <2>2. now \in Nat
    BY <1>2 DEF Types, Times
  <2> QED
    BY <1>1, <1>2, <1>5, <2>1, <2>2 DEF OwedOK
<1> HIDE DEF m
<1> QED
  BY <1>1, <1>2, <1>3, <1>4, <1>6, SameRowKept

LEMMA DeliverInv ==
  ASSUME NoticesInv, NEW p \in Processes, Deliver(p) \/ DeliverFails(p)
  PROVE  NoticesInv'
<1> DEFINE s == Head(rows[p]).service
<1>1. /\ mode[p] = "deliver"
      /\ \/ owed' = [owed EXCEPT ![s] = 0] /\ mode' = [mode EXCEPT ![p] = "clear"]
           /\ UNCHANGED <<rows, leaseUntil>>
         \/ owed' \in {owed, [owed EXCEPT ![s] = 0]} /\ EndBatch(p)
         \/ owed' \in {owed, [owed EXCEPT ![s] = 0]} /\ mode' = [mode EXCEPT ![p] = "reschedule"]
           /\ UNCHANGED <<rows, leaseUntil>>
      /\ UNCHANGED <<now, account, space, registered, queue, lease, handlers, aborted, lost,
                     deletes>>
  BY DEF Deliver, DeliverFails, storeVars, boundVars
<1>2. Types /\ rows[p] # <<>>
  BY <1>1 DEF NoticesInv, Types
<1>3. s \in Services
  BY <1>2, HeadInHand DEF Notices
<1>4. owed' = [owed EXCEPT ![s] = 0] =>
        owed' \in [Services -> Times] /\ Lowered /\ owed'[s] = 0
  BY <1>2, <1>3, OwedTold
<1>5. owed' \in [Services -> Times] /\ Lowered
  BY <1>1, <1>2, <1>4, OwedSame
<1>6. CASE owed' = [owed EXCEPT ![s] = 0] /\ mode' = [mode EXCEPT ![p] = "clear"]
           /\ UNCHANGED <<rows, leaseUntil>>
  <2>1. owed'[s] <= now
    BY <1>2, <1>4, <1>6 DEF Types, Times
  <2> QED
    BY <1>1, <1>2, <1>5, <1>6, <2>1, SameRowKept
<1>7. CASE EndBatch(p)
  BY <1>1, <1>5, <1>7, EndBatchKept
<1>8. CASE mode' = [mode EXCEPT ![p] = "reschedule"] /\ UNCHANGED <<rows, leaseUntil>>
  BY <1>1, <1>2, <1>5, <1>8, SameRowKept
<1> QED
  BY <1>1, <1>6, <1>7, <1>8

LEMMA ReadStateFailsInv ==
  ASSUME NoticesInv, NEW p \in Processes, ReadStateFails(p)
  PROVE  NoticesInv'
<1>1. /\ EndBatch(p)
      /\ UNCHANGED <<now, account, space, registered, queue, lease, handlers, aborted, owed, lost,
                     deletes>>
  BY DEF ReadStateFails, storeVars
<1>2. owed' \in [Services -> Times] /\ Lowered
  BY <1>1, OwedSame DEF NoticesInv
<1> QED
  BY <1>1, <1>2, EndBatchKept

(* A batch begins or goes on, with rows that are as NoticeOK says.         *)
LEMMA BatchGoesOn ==
  ASSUME Types, LeaseOK, ClearOK, NEW p \in Processes, NEW batch \in Seq(Notices),
         GoOn(p, batch), UNCHANGED <<now, lease, handlers, owed, deletes>>,
         \A i \in 1 .. Len(batch) : NoticeOK(batch[i])',
         \A q \in Processes : \A z \in InHand(q) : NoticeOK(z)'
  PROVE  /\ mode' \in [Processes -> Modes] /\ rows' \in [Processes -> Seq(Notices)]
         /\ leaseUntil' \in [Processes -> 0 .. MaxTime + LeaseTime]
         /\ \A q \in Processes :
              mode'[q] \in {"state", "deliver", "clear", "reschedule"} => rows'[q] # <<>>
         /\ LeaseOK' /\ BatchesOK' /\ ClearOK'
<1>1. PICK m \in {"idle", "clear", "state"}, b \in {<<>>, batch}, u \in {0, leaseUntil[p]} :
        /\ Moves(p, m, b, u)
        /\ m = "idle" => u = 0
        /\ m # "idle" => b # <<>>
        /\ m = "clear" => Head(b).expiresAt <= now
  BY GoingOn DEF Moves
<1>2. b \in Seq(Notices) /\ \A i \in 1 .. Len(b) : NoticeOK(b[i])'
  <2>1. 1 .. Len(<<>>) = {} /\ <<>> \in Seq(Notices)
    OBVIOUS
  <2>2. CASE b = batch
    BY <2>2
  <2>3. CASE b = <<>>
    BY <2>1, <2>3
  <2> QED
    BY <1>1, <2>2, <2>3
<1>3. m \in Modes /\ u \in 0 .. MaxTime + LeaseTime
  BY <1>1 DEF Modes, Types
<1>4. b # <<>> => Head(b) \in Notices /\ NoticeOK(Head(b))'
  <2>1. b # <<>> => \E i \in 1 .. Len(b) : b[i] = Head(b) /\ b[i] \in Notices
    BY <1>2, HeadAndTail
  <2> QED
    BY <1>2, <2>1
<1>5. /\ mode'[p] = m /\ rows'[p] = b /\ leaseUntil'[p] = u
      /\ \A q \in Processes : q # p =>
           mode'[q] = mode[q] /\ rows'[q] = rows[q] /\ leaseUntil'[q] = leaseUntil[q]
  BY <1>1, MovesOf
<1>6. /\ mode' \in [Processes -> Modes] /\ rows' \in [Processes -> Seq(Notices)]
      /\ leaseUntil' \in [Processes -> 0 .. MaxTime + LeaseTime]
      /\ \A q \in Processes :
           mode'[q] \in {"state", "deliver", "clear", "reschedule"} => rows'[q] # <<>>
  BY <1>1, <1>2, <1>3, MovesTypes
<1>7. Lowered /\ now' \in Nat /\ now <= now'
  <2>1. now' \in Nat /\ now <= now'
    BY DEF Types, Times
  <2> QED
    BY <2>1, OwedSame
<1>8. LeaseOK'
  <2>1. \A q \in Processes : leaseUntil'[q] \in {0, leaseUntil[q]}
    BY <1>1, <1>5
  <2>2. \A q \in Processes : mode'[q] \in {"idle", "gone"} => leaseUntil'[q] = 0
    BY <1>1, <1>5 DEF LeaseOK
  <2> QED
    BY <1>7, <2>1, <2>2, LeaseKept
<1>9. BatchesOK'
  <2>1. ASSUME NEW q \in Processes, NEW z \in InHand(q)' PROVE NoticeOK(z)'
    <3>1. CASE q = p
      <4>1. \E i \in 1 .. Len(b) : z = b[i]
        BY <1>5, <3>1 DEF InHand
      <4> QED
        BY <1>2, <4>1
    <3>2. CASE q # p
      <4>1. z \in InHand(q)
        BY <1>5, <3>2 DEF InHand
      <4> QED
        BY <4>1
    <3> QED
      BY <3>1, <3>2
  <2> QED
    BY <2>1 DEF BatchesOK
<1>10. m = "clear" /\ Head(b).generation = deletes => owed'[Head(b).service] <= now'
  <2>1. SUFFICES ASSUME m = "clear", Head(b).generation = deletes
                 PROVE  owed'[Head(b).service] <= now'
    OBVIOUS
  <2>2. Head(b).expiresAt <= now /\ Head(b) \in Notices /\ NoticeOK(Head(b))'
    BY <1>1, <1>4, <2>1
  <2>3. owed[Head(b).service] <= Head(b).expiresAt
    BY <2>1, <2>2 DEF NoticeOK
  <2>4. Head(b).service \in Services /\ Head(b).expiresAt \in Nat
    BY <2>2 DEF Notices, Times
  <2>5. owed[Head(b).service] \in Nat /\ now \in Nat
    BY <2>4 DEF Types, Times
  <2> QED
    BY <2>2, <2>3, <2>4, <2>5
<1>11. ClearOK'
  <2>1. \A q \in Processes : mode'[q] = "clear" =>
          \/ mode[q] = "clear" /\ rows'[q] = rows[q]
          \/ Head(rows'[q]).generation = deletes => owed'[Head(rows'[q]).service] <= now'
    <3>1. TAKE q \in Processes
    <3>2. CASE q = p
      BY <1>5, <1>10, <3>2
    <3>3. CASE q # p
      BY <1>5, <3>3
    <3> QED
      BY <3>2, <3>3
  <2> QED
    BY <1>7, <2>1, ClearKept
<1> QED
  BY <1>6, <1>8, <1>9, <1>11

LEMMA SameNotices ==
  ASSUME UNCHANGED <<queue, handlers, owed, deletes>>
  PROVE  \A z : NoticeOK(z)' <=> NoticeOK(z)
  BY DEF NoticeOK, SameRow

(* What is in the queue may be taken up.                                   *)
LEMMA QueuedNotice ==
  ASSUME NoticesInv, NEW s \in Services, queue[s] # NoRow
  PROVE  Notice(s) \in Notices /\ NoticeOK(Notice(s))
<1>1. queue[s] \in [generation : Nat, retryAt : Times, expiresAt : Times] /\ deletes \in Nat
  BY DEF NoticesInv, Types
<1>2. /\ Notice(s).service = s /\ Notice(s).generation = queue[s].generation
      /\ Notice(s).expiresAt = queue[s].expiresAt
      /\ Notice(s) \in Notices
  BY <1>1 DEF Notice, Notices
<1>3. /\ queue[s].generation \in 1 .. deletes
      /\ queue[s].generation = deletes => owed[s] <= queue[s].expiresAt
  BY <1>1 DEF NoticesInv, QueueOK
<1>4. \A h \in handlers : h.id # queue[s].generation
  BY DEF NoticesInv, CallsOK
<1> QED
  BY <1>2, <1>3, <1>4 DEF NoticeOK

LEMMA SelectRowsInv ==
  ASSUME NoticesInv, NEW p \in Processes, SelectRows(p)
  PROVE  NoticesInv'
<1> DEFINE due == {s \in Services : /\ queue[s] # NoRow
                                   /\ queue[s].retryAt <= leaseUntil[p] - LeaseTime}
           n == IF Cardinality(due) < BatchSize THEN Cardinality(due) ELSE BatchSize
<1>1. PICK order \in [1 .. n -> due] : GoOn(p, [i \in 1 .. n |-> Notice(order[i])])
  BY DEF SelectRows
<1>2. UNCHANGED <<now, account, space, registered, queue, lease, handlers, aborted, owed, lost,
                  deletes>>
  BY DEF SelectRows, storeVars, boundVars
<1>3. n \in Nat
  <2>1. IsFiniteSet(due)
    BY FS_Subset
  <2>2. Cardinality(due) \in Nat
    BY <2>1, FS_CardinalityType
  <2> QED
    BY <2>2
<1>4. \A s \in due : s \in Services /\ queue[s] # NoRow
  OBVIOUS
<1> HIDE DEF due, n
<1> DEFINE batch == [i \in 1 .. n |-> Notice(order[i])]
<1>5. \A i \in 1 .. n : batch[i] \in Notices /\ NoticeOK(batch[i])
  <2>1. TAKE i \in 1 .. n
  <2>2. order[i] \in Services /\ queue[order[i]] # NoRow
    BY <1>1, <1>4
  <2>3. Notice(order[i]) \in Notices /\ NoticeOK(Notice(order[i]))
    BY <2>2, QueuedNotice
  <2> QED
    BY <2>3
<1>6. batch \in Seq(Notices) /\ Len(batch) = n
  BY <1>3, <1>5
<1>7. PICK z : z \in Seq(Notices) /\ GoOn(p, z) /\ \A i \in 1 .. Len(z) : NoticeOK(z[i])
  BY <1>1, <1>5, <1>6
<1> HIDE DEF batch
<1>8. Types /\ LeaseOK /\ QueueOK /\ CallsOK /\ BatchesOK /\ ClearOK /\ OwedOK
  BY DEF NoticesInv
<1>9. /\ \A i \in 1 .. Len(z) : NoticeOK(z[i])'
      /\ \A q \in Processes : \A y \in InHand(q) : NoticeOK(y)'
  <2>1. \A y : NoticeOK(y)' <=> NoticeOK(y)
    BY <1>2, SameNotices
  <2> QED
    BY <1>7, <1>8, <2>1 DEF BatchesOK
<1>10. /\ mode' \in [Processes -> Modes] /\ rows' \in [Processes -> Seq(Notices)]
       /\ leaseUntil' \in [Processes -> 0 .. MaxTime + LeaseTime]
       /\ \A q \in Processes :
            mode'[q] \in {"state", "deliver", "clear", "reschedule"} => rows'[q] # <<>>
       /\ LeaseOK' /\ BatchesOK' /\ ClearOK'
  BY <1>2, <1>7, <1>8, <1>9, BatchGoesOn
<1>11. Types'
  BY <1>2, <1>8, <1>10 DEF Types
<1>12. Lowered /\ now' \in Nat /\ now <= now'
  <2>1. now' \in Nat /\ now <= now'
    BY <1>2, <1>8 DEF Types, Times
  <2> QED
    BY <1>2, <1>8, <2>1, OwedSame
<1>13. QueueOK' /\ CallsOK' /\ OwedOK'
  BY <1>2, <1>8, <1>12, QueueKept, CallsKept, OwedKept
<1> QED
  BY <1>10, <1>11, <1>13 DEF NoticesInv

(* The row of one service changes and keeps its notice, or goes, when the  *)
(* notice is not owed.                                                     *)
LEMMA RowSettled ==
  ASSUME NoticesInv, NEW p \in Processes, rows[p] # <<>>, NEW s \in Services,
         NEW row \in [generation : Nat, retryAt : Times, expiresAt : Times],
         queue' = [queue EXCEPT ![s] = row],
         \/ /\ row = NoRow /\ queue[s].generation \in 1 .. deletes
            /\ queue[s].generation = deletes => owed[s] <= now
         \/ /\ row.generation = queue[s].generation /\ row.generation \in 1 .. deletes
            /\ row.expiresAt = queue[s].expiresAt /\ row.retryAt <= row.expiresAt,
         GoOn(p, Tail(rows[p])),
         UNCHANGED <<now, account, space, registered, lease, handlers, aborted, owed, lost, deletes>>
  PROVE  NoticesInv'
<1>1. Types /\ LeaseOK /\ QueueOK /\ CallsOK /\ BatchesOK /\ ClearOK /\ OwedOK
  BY DEF NoticesInv
<1>2. queue'[s] = row /\ \A t \in Services : t # s => queue'[t] = queue[t]
  BY <1>1 DEF Types
<1>3. deletes \in Nat /\ now \in Nat
      /\ \A t \in Services : owed[t] \in Nat /\ queue[t].generation \in Nat
  <2>1. Times \subseteq Nat
    BY DEF Times
  <2>2. deletes \in Nat /\ now \in Times /\ owed \in [Services -> Times]
        /\ queue \in [Services -> [generation : Nat, retryAt : Times, expiresAt : Times]]
    BY <1>1 DEF Types
  <2> QED
    BY <2>1, <2>2
<1>4. NoRow.generation = 0 /\ NoRow.retryAt = 0 /\ NoRow.expiresAt = 0
  BY DEF NoRow
<1>5. /\ row.generation \in {0, queue[s].generation}
      /\ queue[s].generation \in 1 .. deletes
      /\ row.generation # 0 => row.expiresAt = queue[s].expiresAt
  BY <1>4
<1>6. QueueOK'
  <2>1. SUFFICES ASSUME NEW t \in Services
                 PROVE  /\ queue'[t].generation <= deletes
                        /\ queue'[t].generation = 0 => queue'[t] = NoRow
                        /\ queue'[t].retryAt <= queue'[t].expiresAt
                        /\ queue'[t].generation = deletes => owed[t] <= queue'[t].expiresAt
    BY DEF QueueOK
  <2>2. CASE t = s
    <3>1. CASE row = NoRow
      BY <1>2, <1>3, <1>4, <1>5, <2>2, <3>1
    <3>2. CASE row # NoRow
      BY <1>1, <1>2, <1>3, <2>2, <3>2 DEF QueueOK
    <3> QED
      BY <3>1, <3>2
  <2>3. CASE t # s
    BY <1>1, <1>2, <2>3 DEF QueueOK
  <2> QED
    BY <2>2, <2>3
<1>7. CallsOK'
  <2>1. ASSUME NEW h \in handlers, NEW t \in Services PROVE queue'[t].generation # h.id
    <3>1. h.id \in 1 .. deletes /\ queue[t].generation # h.id
      BY <1>1 DEF CallsOK
    <3> QED
      BY <1>2, <1>5, <3>1
  <2> QED
    BY <1>1, <2>1 DEF CallsOK
<1>8. ASSUME NEW z, NoticeOK(z), z.service \in Services PROVE NoticeOK(z)'
  <2>1. z.generation \in 1 .. deletes
    BY <1>8 DEF NoticeOK
  <2>2. SameRow(z)' => SameRow(z) /\ queue'[z.service].expiresAt = queue[z.service].expiresAt
    BY <1>2, <1>5, <1>8, <2>1 DEF SameRow
  <2> QED
    BY <1>8, <2>2 DEF NoticeOK
<1>9. \A q \in Processes : \A z \in InHand(q) : NoticeOK(z)'
  <2>0. rows \in [Processes -> Seq(Notices)]
    BY <1>1 DEF Types
  <2>1. \A q \in Processes : \A z \in InHand(q) : z \in Notices
    BY <2>0 DEF InHand
  <2>2. \A z \in Notices : z.service \in Services
    BY DEF Notices
  <2>3. \A q \in Processes : \A z \in InHand(q) : z.service \in Services /\ NoticeOK(z)
    BY <1>1, <2>1, <2>2 DEF BatchesOK
  <2> QED
    BY <1>8, <2>3
<1>10. PICK b : b = Tail(rows[p])
  OBVIOUS
<1>11. b \in Seq(Notices) /\ GoOn(p, b) /\ \A i \in 1 .. Len(b) : NoticeOK(b[i])'
  <2>1. b \in Seq(Notices) /\ \A i \in 1 .. Len(b) : b[i] \in InHand(p)
    BY <1>1, <1>10, HeadInHand
  <2> QED
    BY <1>9, <1>10, <2>1
<1>12. /\ mode' \in [Processes -> Modes] /\ rows' \in [Processes -> Seq(Notices)]
       /\ leaseUntil' \in [Processes -> 0 .. MaxTime + LeaseTime]
       /\ \A q \in Processes :
            mode'[q] \in {"state", "deliver", "clear", "reschedule"} => rows'[q] # <<>>
       /\ LeaseOK' /\ BatchesOK' /\ ClearOK'
  BY <1>1, <1>9, <1>11, BatchGoesOn
<1>13. Types'
  <2>1. queue' \in [Services -> [generation : Nat, retryAt : Times, expiresAt : Times]]
    BY <1>1 DEF Types
  <2> QED
    BY <1>1, <1>12, <2>1 DEF Types
<1>14. OwedOK'
  <2>1. SUFFICES ASSUME NEW t \in Services, now < owed[t], t \notin lost
                 PROVE  queue'[t].generation = deletes \/ \E h \in handlers : h.id = deletes
    BY <1>1 DEF OwedOK
  <2>2. queue[t].generation = deletes \/ \E h \in handlers : h.id = deletes
    BY <1>1, <2>1 DEF OwedOK
  <2>3. CASE t = s /\ queue[s].generation = deletes
    <3>1. row # NoRow \/ owed[s] <= now
      BY <1>3, <1>4, <2>3
    <3> QED
      BY <1>2, <1>3, <2>1, <2>3, <3>1
  <2> QED
    BY <1>2, <2>2, <2>3
<1> QED
  BY <1>6, <1>7, <1>12, <1>13, <1>14 DEF NoticesInv

(* The row of the notice in hand may be another's, or none.                *)
LEMMA RowSame ==
  ASSUME NoticesInv, NEW p \in Processes, rows[p] # <<>>, queue' = queue,
         GoOn(p, Tail(rows[p])),
         UNCHANGED <<now, account, space, registered, lease, handlers, aborted, owed, lost, deletes>>
  PROVE  NoticesInv'
<1>1. Types /\ LeaseOK /\ QueueOK /\ CallsOK /\ BatchesOK /\ ClearOK /\ OwedOK
  BY DEF NoticesInv
<1>2. PICK b : b = Tail(rows[p])
  OBVIOUS
<1>3. \A z : NoticeOK(z)' <=> NoticeOK(z)
  BY SameNotices
<1>4. \A q \in Processes : \A z \in InHand(q) : NoticeOK(z)'
  BY <1>1, <1>3 DEF BatchesOK
<1>5. b \in Seq(Notices) /\ GoOn(p, b) /\ \A i \in 1 .. Len(b) : NoticeOK(b[i])'
  <2>1. b \in Seq(Notices) /\ \A i \in 1 .. Len(b) : b[i] \in InHand(p)
    BY <1>1, <1>2, HeadInHand
  <2> QED
    BY <1>2, <1>4, <2>1
<1>6. /\ mode' \in [Processes -> Modes] /\ rows' \in [Processes -> Seq(Notices)]
      /\ leaseUntil' \in [Processes -> 0 .. MaxTime + LeaseTime]
      /\ \A q \in Processes :
           mode'[q] \in {"state", "deliver", "clear", "reschedule"} => rows'[q] # <<>>
      /\ LeaseOK' /\ BatchesOK' /\ ClearOK'
  BY <1>1, <1>4, <1>5, BatchGoesOn
<1>7. Types'
  BY <1>1, <1>6 DEF Types
<1>8. now' \in Nat /\ now <= now'
  BY <1>1 DEF Types, Times
<1>9. Lowered
  BY <1>1, OwedSame
<1>10. QueueOK' /\ CallsOK' /\ OwedOK'
  BY <1>1, <1>8, <1>9, QueueKept, CallsKept, OwedKept
<1> QED
  BY <1>6, <1>7, <1>10 DEF NoticesInv

(* What the head of a batch means for the row of its service.              *)
LEMMA HeadsRow ==
  ASSUME NoticesInv, NEW p \in Processes, rows[p] # <<>>, SameRow(Head(rows[p]))
  PROVE  LET s == Head(rows[p]).service
         IN  /\ s \in Services
             /\ queue[s] \in [generation : Nat, retryAt : Times, expiresAt : Times]
             /\ queue[s].generation = Head(rows[p]).generation
             /\ queue[s].generation \in 1 .. deletes
             /\ queue[s].expiresAt = Head(rows[p]).expiresAt
<1>1. Head(rows[p]) \in InHand(p) /\ Head(rows[p]) \in Notices
  BY HeadInHand DEF NoticesInv
<1>2. NoticeOK(Head(rows[p])) /\ Head(rows[p]).service \in Services
  BY <1>1 DEF NoticesInv, BatchesOK, Notices
<1> QED
  BY <1>2 DEF NoticeOK, SameRow, NoticesInv, Types

LEMMA ClearInv ==
  ASSUME NoticesInv, NEW p \in Processes, Clear(p)
  PROVE  NoticesInv'
<1> DEFINE notice == Head(rows[p])
<1>1. /\ mode[p] = "clear"
      /\ queue' = IF SameRow(notice) THEN [queue EXCEPT ![notice.service] = NoRow] ELSE queue
      /\ GoOn(p, Tail(rows[p]))
      /\ UNCHANGED <<now, account, space, registered, lease, handlers, aborted, owed, lost,
                     deletes>>
  BY DEF Clear, storeVars, boundVars
<1>2. rows[p] # <<>>
  BY <1>1 DEF NoticesInv, Types
<1>3. CASE ~SameRow(notice)
  BY <1>1, <1>2, <1>3, RowSame
<1>4. CASE SameRow(notice)
  <2>1. /\ notice.service \in Services
        /\ queue[notice.service].generation = notice.generation
        /\ queue[notice.service].generation \in 1 .. deletes
    BY <1>2, <1>4, HeadsRow
  <2>2. notice.generation = deletes => owed[notice.service] <= now
    BY <1>1 DEF NoticesInv, ClearOK
  <2>3. NoRow \in [generation : Nat, retryAt : Times, expiresAt : Times]
    BY DEF NoRow, Times
  <2> HIDE DEF notice
  <2> QED
    BY <1>1, <1>2, <1>4, <2>1, <2>2, <2>3, RowSettled
<1> QED
  BY <1>3, <1>4

LEMMA RescheduleInv ==
  ASSUME NoticesInv, NEW p \in Processes, Reschedule(p)
  PROVE  NoticesInv'
<1> DEFINE notice == Head(rows[p])
<1>1. PICK delay \in 1 .. MaxDelay :
        queue' = IF SameRow(notice)
                 THEN [queue EXCEPT ![notice.service].retryAt =
                         NoLaterThan(now + delay, notice.expiresAt)]
                 ELSE queue
  BY DEF Reschedule
<1>2. /\ mode[p] = "reschedule"
      /\ GoOn(p, Tail(rows[p]))
      /\ UNCHANGED <<now, account, space, registered, lease, handlers, aborted, owed, lost,
                     deletes>>
  BY DEF Reschedule, storeVars, boundVars
<1>3. rows[p] # <<>>
  BY <1>2 DEF NoticesInv, Types
<1>4. CASE ~SameRow(notice)
  BY <1>1, <1>2, <1>3, <1>4, RowSame
<1>5. CASE SameRow(notice)
  <2>1. /\ notice.service \in Services
        /\ queue[notice.service] \in [generation : Nat, retryAt : Times, expiresAt : Times]
        /\ queue[notice.service].generation \in 1 .. deletes
        /\ queue[notice.service].expiresAt = notice.expiresAt
    BY <1>3, <1>5, HeadsRow
  <2> DEFINE t == NoLaterThan(now + delay, notice.expiresAt)
             row == [queue[notice.service] EXCEPT !.retryAt = t]
  <2>2. now \in Times /\ notice.expiresAt \in Times
    BY <2>1 DEF NoticesInv, Types
  <2>3. t \in Times /\ t <= notice.expiresAt
    BY <2>2 DEF NoLaterThan, Times
  <2>4. queue' = [queue EXCEPT ![notice.service] = row]
    BY <1>1, <1>5
  <2> HIDE DEF t
  <2>5. /\ row \in [generation : Nat, retryAt : Times, expiresAt : Times]
        /\ row.generation = queue[notice.service].generation
        /\ row.expiresAt = queue[notice.service].expiresAt /\ row.retryAt = t
    BY <2>1, <2>3
  <2> HIDE DEF row, notice
  <2> QED
    BY <1>2, <1>3, <2>1, <2>3, <2>4, <2>5, RowSettled
<1> QED
  BY <1>4, <1>5

LEMMA DestroyInv ==
  ASSUME NoticesInv, NEW p \in Processes, Destroy(p)
  PROVE  NoticesInv'
<1>1. /\ aborted' = [aborted EXCEPT ![p] = TRUE]
      /\ UNCHANGED <<now, account, space, registered, queue, lease, handlers, mode, leaseUntil,
                     rows, owed, lost, deletes>>
  BY DEF Destroy, storeVars
<1>2. aborted' \in [Processes -> BOOLEAN]
  BY <1>1 DEF NoticesInv, Types
<1>3. now <= now
  BY DEF NoticesInv, Types, Times
<1>4. Types' /\ Lowered
  BY <1>1, <1>2 DEF NoticesInv, Types, Lowered
<1> QED
  BY <1>1, <1>3, <1>4, NoProcessMoves

LEMMA ReleaseLeaseInv ==
  ASSUME NoticesInv, NEW p \in Processes, ReleaseLease(p)
  PROVE  NoticesInv'
<1>1. /\ mode[p] = "idle"
      /\ lease' = IF lease.owner = p THEN [lease EXCEPT !.expiresAt = 0] ELSE lease
      /\ mode' = [mode EXCEPT ![p] = IF @ = "idle" THEN "gone" ELSE @]
      /\ UNCHANGED <<now, account, space, registered, queue, handlers, aborted, leaseUntil, rows,
                     owed, lost, deletes>>
  BY DEF ReleaseLease, BatchOver, storeVars, boundVars
<1>2. Types /\ LeaseOK /\ QueueOK /\ CallsOK /\ BatchesOK /\ ClearOK /\ OwedOK
  BY DEF NoticesInv
<1>3. /\ mode'[p] = "gone" /\ \A q \in Processes : q # p => mode'[q] = mode[q]
  BY <1>1, <1>2 DEF Types
<1>4. Types'
  <2>1. lease' \in [owner : Processes \cup {NoOwner}, expiresAt : 0 .. MaxTime + LeaseTime]
    <3>1. 0 \in 0 .. MaxTime + LeaseTime
      OBVIOUS
    <3> QED
      BY <1>1, <1>2, <3>1 DEF Types
  <2>2. mode' \in [Processes -> Modes]
    BY <1>1, <1>2 DEF Types, Modes
  <2>3. ASSUME NEW q \in Processes,
               mode'[q] \in {"state", "deliver", "clear", "reschedule"}
        PROVE  rows'[q] # <<>>
    BY <1>1, <1>2, <1>3, <2>3 DEF Types
  <2> QED
    BY <1>1, <1>2, <2>1, <2>2, <2>3 DEF Types
<1>5. now \in Nat /\ leaseUntil[p] = 0
  BY <1>1, <1>2 DEF Types, Times, LeaseOK
<1>6. LeaseOK'
  <2>1. SUFFICES ASSUME NEW q \in Processes
                 PROVE  /\ mode'[q] \in {"idle", "gone"} => leaseUntil[q] = 0
                        /\ now < leaseUntil[q] =>
                             lease'.owner = q /\ lease'.expiresAt = leaseUntil[q]
    BY <1>1 DEF LeaseOK
  <2>2. CASE q = p
    BY <1>5, <2>2
  <2>3. CASE q # p
    BY <1>1, <1>2, <1>3, <2>3 DEF LeaseOK
  <2> QED
    BY <2>2, <2>3
<1>7. Lowered /\ now' \in Nat /\ now <= now'
  BY <1>1, <1>2, <1>5, OwedSame
<1>8. QueueOK' /\ CallsOK' /\ OwedOK'
  BY <1>1, <1>2, <1>7, QueueKept, CallsKept, OwedKept
<1>9. BatchesOK'
  BY <1>1, <1>2, <1>7, BatchesKept DEF InHand
<1>10. ClearOK'
  <2>1. \A q \in Processes : mode'[q] = "clear" => mode[q] = "clear" /\ rows'[q] = rows[q]
    BY <1>1, <1>3
  <2> QED
    BY <1>1, <1>2, <1>7, <2>1, ClearKept
<1> QED
  BY <1>4, <1>6, <1>8, <1>9, <1>10 DEF NoticesInv

LEMMA CrashInv ==
  ASSUME NoticesInv, NEW p \in Processes, Crash(p)
  PROVE  NoticesInv'
<1>1. /\ Moves(p, "gone", <<>>, 0)
      /\ handlers' = {h \in handlers : h.process # p}
      /\ lost' = lost \cup {s \in Services : \E h \in handlers \ handlers' : now < h.recipients[s]}
      /\ UNCHANGED <<now, account, space, registered, queue, lease, aborted, owed, deletes>>
  BY DEF Crash, Moves, storeVars
<1>2. Types /\ LeaseOK /\ QueueOK /\ CallsOK /\ BatchesOK /\ ClearOK /\ OwedOK
  BY DEF NoticesInv
<1>3. /\ mode'[p] = "gone" /\ rows'[p] = <<>> /\ leaseUntil'[p] = 0
      /\ \A q \in Processes : q # p =>
           mode'[q] = mode[q] /\ rows'[q] = rows[q] /\ leaseUntil'[q] = leaseUntil[q]
  BY <1>1, <1>2, MovesOf
<1>4. Types'
  <2>1. "gone" \in Modes /\ <<>> \in Seq(Notices) /\ 0 \in 0 .. MaxTime + LeaseTime
    BY DEF Modes
  <2>2. /\ mode' \in [Processes -> Modes] /\ rows' \in [Processes -> Seq(Notices)]
        /\ leaseUntil' \in [Processes -> 0 .. MaxTime + LeaseTime]
        /\ \A q \in Processes :
             mode'[q] \in {"state", "deliver", "clear", "reschedule"} => rows'[q] # <<>>
    BY <1>1, <1>2, <2>1, MovesTypes
  <2> QED
    BY <1>1, <1>2, <2>2 DEF Types
<1>5. now' \in Nat /\ now <= now'
  BY <1>1, <1>2 DEF Types, Times
<1>6. Lowered
  BY <1>1, <1>2, OwedSame
<1>7. LeaseOK'
  <2>1. \A q \in Processes : leaseUntil'[q] \in {0, leaseUntil[q]}
    BY <1>3
  <2>2. \A q \in Processes : mode'[q] \in {"idle", "gone"} => leaseUntil'[q] = 0
    BY <1>2, <1>3 DEF LeaseOK
  <2> QED
    BY <1>1, <1>2, <1>5, <2>1, <2>2, LeaseKept
<1>8. handlers' \subseteq handlers
  BY <1>1
<1>9. QueueOK' /\ CallsOK'
  BY <1>1, <1>2, <1>6, <1>8, QueueKept, CallsKept
<1>10. BatchesOK'
  <2>1. ASSUME NEW q \in Processes PROVE InHand(q)' \subseteq InHand(q)
    <3>1. CASE q = p
      <4>1. 1 .. Len(rows'[q]) = {}
        BY <1>3, <3>1
      <4> QED
        BY <4>1 DEF InHand
    <3>2. CASE q # p
      BY <1>3, <3>2 DEF InHand
    <3> QED
      BY <3>1, <3>2
  <2> QED
    BY <1>1, <1>2, <1>6, <1>8, <2>1, BatchesKept
<1>11. ClearOK'
  <2>1. \A q \in Processes : mode'[q] = "clear" => mode[q] = "clear" /\ rows'[q] = rows[q]
    BY <1>3
  <2> QED
    BY <1>1, <1>2, <1>5, <1>6, <2>1, ClearKept
<1>12. OwedOK'
  <2>1. SUFFICES ASSUME NEW s \in Services, now < owed[s], s \notin lost'
                 PROVE  queue[s].generation = deletes \/ \E h \in handlers' : h.id = deletes
    BY <1>1, <1>2 DEF OwedOK
  <2>2. queue[s].generation = deletes \/ \E h \in handlers : h.id = deletes
    BY <1>1, <1>2, <2>1 DEF OwedOK
  <2>3. ASSUME NEW h \in handlers, h.id = deletes PROVE h \in handlers'
    <3>1. SUFFICES ASSUME h \notin handlers' PROVE FALSE
      OBVIOUS
    <3>2. owed[s] <= h.recipients[s]
      BY <1>2, <2>3 DEF CallsOK
    <3>3. h \in Calls /\ owed \in [Services -> Times] /\ now \in Times
      BY <1>2 DEF Types
    <3>4. owed[s] \in Nat /\ h.recipients[s] \in Nat /\ now \in Nat
      BY <3>3 DEF Calls, Times
    <3>5. now < h.recipients[s]
      BY <2>1, <3>2, <3>4
    <3> QED
      BY <1>1, <2>1, <3>1, <3>5
  <2> QED
    BY <2>2, <2>3
<1> QED
  BY <1>4, <1>7, <1>9, <1>10, <1>11, <1>12 DEF NoticesInv

----------------------------------------------------------------------------
LEMMA NextInv == NoticesInv /\ [Next]_vars => NoticesInv'
<1> SUFFICES ASSUME NoticesInv, [Next]_vars PROVE NoticesInv'
  OBVIOUS
<1>1. CASE Tick
  BY <1>1, TickInv
<1>2. CASE SpaceNext
  BY <1>2, AccountInv, RegisterInv, CreateSpaceInv, DeleteSpaceInv DEF SpaceNext
<1>3. CASE \E h \in handlers : Enqueue(h)
  BY <1>3, EnqueueInv
<1>4. ASSUME NEW p \in Processes, RetryNext(p) PROVE NoticesInv'
  BY <1>4, AcquireLeaseInv, SelectRowsInv, ReadStateInv, DeliverInv, ClearInv, RescheduleInv
  DEF RetryNext
<1>5. ASSUME NEW p \in Processes, ProcessNext(p) PROVE NoticesInv'
  BY <1>4, <1>5, ReadStateFailsInv, DeliverInv, DestroyInv, ReleaseLeaseInv, CrashInv
  DEF ProcessNext
<1>6. CASE UNCHANGED vars
  <2>1. UNCHANGED <<now, account, space, registered, queue, lease, handlers, mode, aborted,
                    leaseUntil, rows, owed, lost, deletes>>
    BY <1>6 DEF vars, storeVars, processVars, boundVars
  <2>2. now <= now
    BY DEF NoticesInv, Types, Times
  <2>3. Types' /\ Lowered
    BY <2>1 DEF NoticesInv, Types, Lowered
  <2> QED
    BY <2>1, <2>2, <2>3, NoProcessMoves
<1> QED
  BY <1>1, <1>2, <1>3, <1>5, <1>6 DEF Next

LEMMA NoticesInvCorrect == NoticesSpec => []NoticesInv
<1>1. NoticesInit => NoticesInv
  BY InitInv
<1>2. NoticesInv /\ [Next]_vars => NoticesInv'
  BY NextInv
<1> QED
  BY <1>1, <1>2, PTL DEF NoticesSpec

(* Types; a retry is due by the time the registration expires (the minimum *)
(* retry takes).                                                           *)
THEOREM NoticesTypeCorrect == NoticesSpec => []NoticesTypeOK
<1>1. ASSUME NoticesInv PROVE NoticesTypeOK
  <2>1. Types /\ QueueOK
    BY <1>1 DEF NoticesInv
  <2>2. queue \in [Services -> Rows]
    <3>1. ASSUME NEW s \in Services PROVE queue[s] \in Rows
      <4>1. queue[s] \in [generation : Nat, retryAt : Times, expiresAt : Times]
        BY <2>1 DEF Types
      <4>2. queue[s].generation \in 0 .. deletes
        BY <2>1, <4>1 DEF QueueOK, Types
      <4> QED
        BY <4>1, <4>2 DEF Rows
    <3> QED
      BY <2>1, <3>1 DEF Types
  <2> QED
    BY <2>1, <2>2 DEF Types, QueueOK, NoticesTypeOK, Modes
<1>2. NoticesInv => NoticesTypeOK
  BY <1>1
<1> QED
  BY <1>2, NoticesInvCorrect, PTL

(* No two processes are in a batch whose lease has not ended: the one that *)
(* is owns the lease, and no other may take it before.                     *)
THEOREM OneSenderCorrect == NoticesSpec => []OneSender
<1>1. NoticesInv => OneSender
  BY DEF NoticesInv, LeaseOK, OneSender, Sending
<1> QED
  BY <1>1, NoticesInvCorrect, PTL

(* A service that is owed a notice has one in the queue or in a deletion   *)
(* that is about to write it, whatever older batches clear.                *)
THEOREM NoticeKeptCorrect == NoticesSpec => []NoticeKept
<1>1. ASSUME NoticesInv PROVE NoticeKept
  <2>1. SUFFICES ASSUME NEW s \in Services, now < owed[s], s \notin lost PROVE Pending(s)
    BY DEF NoticeKept
  <2>2. queue[s].generation = deletes \/ \E h \in handlers : h.id = deletes
    BY <1>1, <2>1 DEF NoticesInv, OwedOK
  <2>3. CASE queue[s].generation = deletes
    <3>1. owed[s] <= queue[s].expiresAt
      BY <1>1, <2>3 DEF NoticesInv, QueueOK
    <3>2. owed \in [Services -> Times]
          /\ queue \in [Services -> [generation : Nat, retryAt : Times, expiresAt : Times]]
      BY <1>1 DEF NoticesInv, Types
    <3>3. Times \subseteq Int
      BY DEF Times
    <3> QED
      BY <3>1, <3>2, <3>3 DEF Pending
  <2>4. CASE \E h \in handlers : h.id = deletes
    <3>1. PICK h \in handlers : h.id = deletes
      BY <2>4
    <3>2. owed[s] <= h.recipients[s]
      BY <1>1, <3>1 DEF NoticesInv, CallsOK
    <3>3. h \in Calls /\ owed \in [Services -> Times]
      BY <1>1 DEF NoticesInv, Types
    <3>4. owed[s] \in Int /\ h.recipients[s] \in Int
      BY <3>3 DEF Calls, Times
    <3> QED
      BY <3>1, <3>2, <3>4 DEF Pending
  <2> QED
    BY <2>2, <2>3, <2>4
<1>2. NoticesInv => NoticeKept
  BY <1>1
<1> QED
  BY <1>2, NoticesInvCorrect, PTL
=============================================================================
