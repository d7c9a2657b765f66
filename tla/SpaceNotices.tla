---------------------------- MODULE SpaceNotices ----------------------------
(***************************************************************************)
(* Telling the services that keep copies of a space that it was deleted    *)
(* (packages/pds/src/space-deletion-notifications.ts), and the deletion    *)
(* they are told of (simplespace/manager.ts and its handler).              *)
(*                                                                         *)
(* The deletion is a transaction of the account's store, which takes the   *)
(* registrations with it; the notices are rows of the account database,    *)
(* written after it.  Processes of the PDS (an old one and the one that    *)
(* replaces it) share that database: a lease lets one of them send at a    *)
(* time.  Between any two awaits of a process the others, the space and    *)
(* the clock go on.                                                        *)
(*                                                                         *)
(* One space.  Times are ticks of a clock; the backoff, which grows with   *)
(* the attempts and is randomised, is any of 1 .. MaxDelay.                *)
(***************************************************************************)
EXTENDS Integers, Sequences, FiniteSets

CONSTANTS Services,      \* services that keep copies of the space
          Processes,     \* processes of the PDS, each with an owner id of its own
          NoOwner,       \* the owner of the lease at first
          BatchSize,     \* rows of a batch: 5 in the code
          LeaseTime,     \* a minute
          MaxDelay,
          MaxTime,       \* bound: the clock
          Expiries,      \* bound: when registrations expire
          MaxRegistrations, \* bound: registrations
          MaxDeletes,    \* bound: deletions of the space
          MaxFaults      \* bound: deliveries and reads of the state that fail,
                         \* processes destroyed or crashed, and changes of the
                         \* account's status

ASSUME NoticesAssumption ==
  /\ NoOwner \notin Processes
  /\ IsFiniteSet(Services)
  /\ {BatchSize, LeaseTime, MaxDelay, MaxTime} \subseteq Nat \ {0}
  /\ Expiries \subseteq 1 .. MaxTime
  /\ {MaxRegistrations, MaxDeletes, MaxFaults} \subseteq Nat

VARIABLES now,         \* the clock
          account,     \* "active", "paused" or "missing"
          space,       \* "active" or "deleted"
          registered,  \* when the registration of a service expires; 0: none
          queue,       \* space_deleted_notification_retry, by service
          lease,       \* space_deleted_notification_lease
          handlers,    \* deleteSpace calls between the deletion and enqueue
          mode,        \* where the process is in retry()
          aborted,     \* abort.signal.aborted
          leaseUntil,  \* of the batch of the process
          rows,        \* the rest of the batch; its head is in retryOne
          owed,        \* history: until when a service has to be told; 0: not
          lost,        \* history: services a crash before enqueue forgot, or whose
                       \* notice an older deletion's replaced
          registrations, deletes, faults

storeVars   == <<account, space, registered>>
processVars == <<mode, aborted, leaseUntil, rows>>
boundVars   == <<registrations, deletes, faults>>
vars == <<now, storeVars, queue, lease, handlers, processVars, owed, lost, boundVars>>

NoRow == [generation |-> 0, retryAt |-> 0, expiresAt |-> 0]

Times == 0 .. MaxTime

NoticesInit ==
  /\ now = 0
  /\ account = "active" /\ space = "active"
  /\ registered = [s \in Services |-> 0]
  /\ queue = [s \in Services |-> NoRow]
  /\ lease = [owner |-> NoOwner, expiresAt |-> 0]
  /\ handlers = {}
  /\ mode = [p \in Processes |-> "idle"]
  /\ aborted = [p \in Processes |-> FALSE]
  /\ leaseUntil = [p \in Processes |-> 0]
  /\ rows = [p \in Processes |-> <<>>]
  /\ owed = [s \in Services |-> 0] /\ lost = {}
  /\ registrations = 0 /\ deletes = 0 /\ faults = 0

Tick ==
  /\ now < MaxTime
  /\ now' = now + 1
  /\ UNCHANGED <<storeVars, queue, lease, handlers, processVars, owed, lost, boundVars>>

----------------------------------------------------------------------------
(* The space and its account.                                              *)

PauseAccount ==
  /\ account = "active"
  /\ faults < MaxFaults
  /\ faults' = faults + 1
  /\ account' = "paused"
  /\ UNCHANGED <<now, space, registered, queue, lease, handlers, processVars, owed, lost, deletes,
                 registrations>>

ResumeAccount ==
  /\ account = "paused"
  /\ account' = "active"
  /\ UNCHANGED <<now, space, registered, queue, lease, handlers, processVars, owed, lost,
                 boundVars>>

(* The services learn of the account's deletion from the firehose.         *)
DeleteAccount ==
  /\ account # "missing"
  /\ faults < MaxFaults
  /\ faults' = faults + 1
  /\ account' = "missing"
  /\ owed' = [s \in Services |-> 0]
  /\ UNCHANGED <<now, space, registered, queue, lease, handlers, processVars, lost, deletes,
                 registrations>>

RecordCredentialRecipient(s, expiresAt) ==
  /\ account = "active" /\ space = "active"
  /\ now < expiresAt
  /\ registrations < MaxRegistrations
  /\ registrations' = registrations + 1
  /\ registered' = [registered EXCEPT ![s] = expiresAt]
  /\ UNCHANGED <<now, account, space, queue, lease, handlers, processVars, owed, lost, deletes,
                 faults>>

CreateSpace ==
  /\ account = "active" /\ space = "deleted"
  /\ space' = "active"
  /\ owed' = [s \in Services |-> 0]
  /\ UNCHANGED <<now, account, registered, queue, lease, handlers, processVars, lost, boundVars>>

Running(p) == mode[p] # "gone"

(* The registrations that have not expired, then the deletion: a tombstone *)
(* has none.                                                               *)
DeleteSpace(p) ==
  /\ Running(p) /\ ~aborted[p]
  /\ account = "active" /\ space = "active"
  /\ deletes < MaxDeletes
  /\ deletes' = deletes + 1
  /\ LET recipients == [s \in Services |-> IF now < registered[s] THEN registered[s] ELSE 0]
     IN  /\ handlers' = handlers \cup {[process |-> p, id |-> deletes', recipients |-> recipients]}
         /\ owed' = recipients
  /\ space' = "deleted"
  /\ registered' = [s \in Services |-> 0]
  /\ lost' = {}
  /\ UNCHANGED <<now, account, queue, lease, processVars, registrations, faults>>

(* One transaction: a notice that is there is replaced.  The generation is *)
(* a fresh one; the number of the deletion stands for it.                  *)
Enqueue(h) ==
  /\ h \in handlers
  /\ handlers' = handlers \ {h}
  /\ queue' = [s \in Services |->
       IF now < h.recipients[s]
       THEN [generation |-> h.id, retryAt |-> now, expiresAt |-> h.recipients[s]]
       ELSE queue[s]]
  /\ lost' = lost \cup {s \in Services :
                          now < h.recipients[s] /\ h.id < queue[s].generation}
  /\ UNCHANGED <<now, storeVars, lease, processVars, owed, boundVars>>

----------------------------------------------------------------------------
(* A process.                                                              *)

(* Mutant: the lease of a process that is gone is never taken over. *)
MayLeaseOwn(p) == lease.owner \in {p, NoOwner}

MayLease(p) == lease.owner = p \/ lease.expiresAt <= now

(* Every ten seconds, after a deletion, and after a batch.                 *)
AcquireLease(p) ==
  /\ mode[p] = "idle"
  /\ ~aborted[p]
  /\ MayLease(p)
  /\ lease' = [owner |-> p, expiresAt |-> now + LeaseTime]
  /\ leaseUntil' = [leaseUntil EXCEPT ![p] = now + LeaseTime]
  /\ mode' = [mode EXCEPT ![p] = "select"]
  /\ UNCHANGED <<now, storeVars, queue, handlers, aborted, rows, owed, lost, boundVars>>

Notice(s) == [service |-> s, generation |-> queue[s].generation, expiresAt |-> queue[s].expiresAt]

EndBatch(p) == /\ mode' = [mode EXCEPT ![p] = "idle"]
               /\ rows' = [rows EXCEPT ![p] = <<>>]
               /\ leaseUntil' = [leaseUntil EXCEPT ![p] = 0]

(* The loop over the batch, and the first look at a row.                   *)
GoOn(p, batch) ==
  IF batch = <<>> \/ aborted[p] \/ now >= leaseUntil[p] THEN EndBatch(p)
  ELSE /\ mode' = [mode EXCEPT ![p] = IF Head(batch).expiresAt <= now THEN "clear" ELSE "state"]
       /\ rows' = [rows EXCEPT ![p] = batch]
       /\ UNCHANGED leaseUntil

(* The rows that were due when the lease was taken, in the order in which  *)
(* they came to be.                                                        *)
SelectRows(p) ==
  /\ mode[p] = "select"
  /\ LET due == {s \in Services : /\ queue[s] # NoRow
                                  /\ queue[s].retryAt <= leaseUntil[p] - LeaseTime}
         n   == IF Cardinality(due) < BatchSize THEN Cardinality(due) ELSE BatchSize
     IN  \E order \in [1 .. n -> due] :
           /\ \A i, j \in 1 .. n : i < j =>
                order[i] # order[j] /\ queue[order[i]].retryAt <= queue[order[j]].retryAt
           /\ n > 0 => \A s \in due : (\A i \in 1 .. n : order[i] # s) =>
                queue[order[n]].retryAt <= queue[s].retryAt
           /\ GoOn(p, [i \in 1 .. n |-> Notice(order[i])])
  /\ UNCHANGED <<now, storeVars, queue, lease, handlers, aborted, owed, lost,
                 boundVars>>

(* deps.state: the account, then the row of the space.                     *)
ReadState(p) ==
  /\ mode[p] = "state"
  /\ mode' = [mode EXCEPT ![p] = IF account = "missing" THEN "clear"
                                 ELSE IF account = "paused" THEN "reschedule"
                                 ELSE IF space = "active" THEN "clear" ELSE "deliver"]
  /\ UNCHANGED <<now, storeVars, queue, lease, handlers, aborted, leaseUntil, rows, owed, lost,
                 boundVars>>

(* It is outside of the try: the rest of the batch is not looked at.       *)
ReadStateFails(p) ==
  /\ mode[p] = "state"
  /\ faults < MaxFaults
  /\ faults' = faults + 1
  /\ EndBatch(p)
  /\ UNCHANGED <<now, storeVars, queue, lease, handlers, aborted, owed, lost, deletes,
                 registrations>>

(* The service has the notice, or refuses it for good.                     *)
Deliver(p) ==
  /\ mode[p] = "deliver"
  /\ owed' = [owed EXCEPT ![Head(rows[p]).service] = 0]
  /\ mode' = [mode EXCEPT ![p] = "clear"]
  /\ UNCHANGED <<now, storeVars, queue, lease, handlers, aborted, leaseUntil, rows, lost,
                 boundVars>>

(* It does not get there, or its answer does not come back; when the       *)
(* process is being destroyed the row stays as it is.                      *)
DeliverFails(p) ==
  /\ mode[p] = "deliver"
  /\ \/ faults < MaxFaults /\ faults' = faults + 1
     \/ aborted[p] /\ UNCHANGED faults
  /\ IF aborted[p] THEN EndBatch(p)
     ELSE mode' = [mode EXCEPT ![p] = "reschedule"] /\ UNCHANGED <<rows, leaseUntil>>
  /\ owed' \in {owed, [owed EXCEPT ![Head(rows[p]).service] = 0]}
  /\ UNCHANGED <<now, storeVars, queue, lease, handlers, aborted, lost, deletes,
                 registrations>>

(* Mutant: without the generation the row that replaced it is meant too. *)
SameServiceRow(notice) == queue[notice.service] # NoRow

SameRow(notice) == queue[notice.service].generation = notice.generation

Clear(p) ==
  /\ mode[p] = "clear"
  /\ LET notice == Head(rows[p])
     IN  queue' = IF SameRow(notice) THEN [queue EXCEPT ![notice.service] = NoRow] ELSE queue
  /\ GoOn(p, Tail(rows[p]))
  /\ UNCHANGED <<now, storeVars, lease, handlers, aborted, owed, lost, boundVars>>

(* Mutant: a retry is not due before the registration has expired. *)
NoLaterThanAnything(t, expiresAt) == t

NoLaterThan(t, expiresAt) == IF t < expiresAt THEN t ELSE expiresAt

Reschedule(p) ==
  /\ mode[p] = "reschedule"
  /\ LET notice == Head(rows[p])
     IN  \E delay \in 1 .. MaxDelay :
           queue' = IF SameRow(notice)
                    THEN [queue EXCEPT ![notice.service].retryAt =
                            NoLaterThan(now + delay, notice.expiresAt)]
                    ELSE queue
  /\ GoOn(p, Tail(rows[p]))
  /\ UNCHANGED <<now, storeVars, lease, handlers, aborted, owed, lost, boundVars>>

(* destroy: no new batch, and the deliveries are cut off.                  *)
Destroy(p) ==
  /\ Running(p)
  /\ ~aborted[p]
  /\ faults < MaxFaults
  /\ faults' = faults + 1
  /\ aborted' = [aborted EXCEPT ![p] = TRUE]
  /\ UNCHANGED <<now, storeVars, queue, lease, handlers, mode, leaseUntil, rows, owed, lost,
                 deletes, registrations>>

(* Mutant: the batch that runs is not awaited. *)
BatchOverAtOnce(p) == TRUE

BatchOver(p) == mode[p] = "idle"

(* After this.running, the lease; the account database is closed last,     *)
(* when the requests are done.                                             *)
ReleaseLease(p) ==
  /\ aborted[p] /\ Running(p)
  /\ BatchOver(p)
  /\ lease' = IF lease.owner = p THEN [lease EXCEPT !.expiresAt = 0] ELSE lease
  /\ mode' = [mode EXCEPT ![p] = IF @ = "idle" THEN "gone" ELSE @]
  /\ UNCHANGED <<now, storeVars, queue, handlers, aborted, leaseUntil, rows, owed, lost,
                 boundVars>>

(* With it go the deletions it had not enqueued.  (The clock is bounded:   *)
(* no process crashes with a lease it does not come to the end of.)        *)
Crash(p) ==
  /\ Running(p)
  /\ faults < MaxFaults
  /\ lease.owner = p => lease.expiresAt <= MaxTime
  /\ faults' = faults + 1
  /\ mode' = [mode EXCEPT ![p] = "gone"]
  /\ rows' = [rows EXCEPT ![p] = <<>>]
  /\ leaseUntil' = [leaseUntil EXCEPT ![p] = 0]
  /\ handlers' = {h \in handlers : h.process # p}
  /\ lost' = lost \cup {s \in Services :
                          \E h \in handlers \ handlers' : now < h.recipients[s]}
  /\ UNCHANGED <<now, storeVars, queue, lease, aborted, owed, deletes, registrations>>

----------------------------------------------------------------------------
SpaceNext ==
  \/ PauseAccount \/ ResumeAccount \/ DeleteAccount
  \/ \E s \in Services, t \in Expiries : RecordCredentialRecipient(s, t)
  \/ CreateSpace
  \/ \E p \in Processes : DeleteSpace(p)

RetryNext(p) ==
  \/ AcquireLease(p) \/ SelectRows(p) \/ ReadState(p)
  \/ Deliver(p) \/ Clear(p) \/ Reschedule(p)

ProcessNext(p) ==
  \/ RetryNext(p) \/ ReadStateFails(p) \/ DeliverFails(p)
  \/ Destroy(p) \/ ReleaseLease(p) \/ Crash(p)

Next ==
  \/ Tick
  \/ SpaceNext
  \/ \E h \in handlers : Enqueue(h)
  \/ \E p \in Processes : ProcessNext(p)

(* The clock goes on, the timer of a process fires and what it began goes   *)
(* on; that it is started, destroyed or crashes is not assumed.            *)
NoticesSpec ==
  /\ NoticesInit /\ [][Next]_vars
  /\ WF_vars(Tick)
  /\ WF_vars(\E h \in handlers : Enqueue(h))
  /\ \A p \in Processes : WF_vars(RetryNext(p)) /\ WF_vars(ReleaseLease(p))

----------------------------------------------------------------------------
(* Properties.                                                             *)

Rows == [generation : 0 .. deletes, retryAt : Times, expiresAt : Times]

(* Types; a process in retryOne has a row, and a retry is due by the time  *)
(* the registration expires, so that an expired notice is cleared.         *)
NoticesTypeOK ==
  /\ now \in Times
  /\ account \in {"active", "paused", "missing"} /\ space \in {"active", "deleted"}
  /\ registered \in [Services -> Times]
  /\ queue \in [Services -> Rows]
  /\ \A s \in Services : queue[s].retryAt <= queue[s].expiresAt
  /\ lease.owner \in Processes \cup {NoOwner} /\ lease.expiresAt \in 0 .. MaxTime + LeaseTime
  /\ mode \in [Processes -> {"idle", "select", "state", "deliver", "clear",
                             "reschedule", "gone"}]
  /\ \A p \in Processes : mode[p] \in {"state", "deliver", "clear", "reschedule"} => rows[p] # <<>>
  /\ owed \in [Services -> Times]

Pending(s) == \/ queue[s].expiresAt >= owed[s]
              \/ \E h \in handlers : h.recipients[s] >= owed[s]

(* A service that was registered when the space was deleted has a notice   *)
(* until it has been told, unless its registration expires, the space is   *)
(* created again or the account goes; whatever batches of older notices    *)
(* are under way.  (A crash before the notices are written loses them, and *)
(* those of an older deletion may replace it when they are written last.)  *)
NoticeKept == \A s \in Services : now < owed[s] /\ s \notin lost => Pending(s)

(* As the lexicon says it: retried until delivered or the registration     *)
(* expires.                                                                *)
NoticeNeverLost == \A s \in Services : now < owed[s] => Pending(s)

Sending(p) == mode[p] \in {"state", "deliver"} /\ now < leaseUntil[p]

(* No two processes are in a batch whose lease has not ended.              *)
OneSender == \A p, q \in Processes : Sending(p) /\ Sending(q) => p = q

(* Retries end: while a process goes on running no notice stays, though    *)
(* others crashed with the lease in hand.                                  *)
RetriesEnd ==
  <>[](\E p \in Processes : Running(p) /\ ~aborted[p])
    => <>[](\A s \in Services : queue[s] = NoRow)
=============================================================================
