---------------------------- MODULE MemoryRunner ----------------------------
(***************************************************************************)
(* A consumer of the firehose: Firehose (packages/sync/src/firehose) with  *)
(* a MemoryRunner (packages/sync/src/runner), the queues that handle the   *)
(* events of one repository one after another and of different ones at the *)
(* same time, and the ConsecutiveList from which the cursor is taken.      *)
(*                                                                         *)
(* An event is tracked once per delivery: task i is the i-th trackEvent of *)
(* this process and tracked[i] its sequence number.  Both p-queues are     *)
(* first in, first out and start a task as soon as they may, so who holds  *)
(* a slot of the main queue and who is running follows from who has        *)
(* settled; the list of ConsecutiveList is the tasks above passed.         *)
(***************************************************************************)
EXTENDS Integers, Sequences, FiniteSets

CONSTANTS Dids,
          MaxSeq,       \* bound: events of the firehose
          Concurrency,  \* slots of the main queue
          HasStartCursor, \* is opts.startCursor given (0) to the first process?
          MaxDrops,     \* bound: dropped connections
          MaxRestarts   \* bound: crashes and restarts

ASSUME RunnerAssumption ==
  /\ MaxSeq \in Nat
  /\ Concurrency \in Nat \ {0}
  /\ HasStartCursor \in BOOLEAN
  /\ MaxDrops \in Nat
  /\ MaxRestarts \in Nat

VARIABLES repo,       \* the firehose: repo[s] is the repository of event s
          log,        \* the events a firehose can still send
          pos,        \* the open connection: last event sent; Down without one
          tracked,    \* tracked[i]: sequence number of the i-th task
          complete,   \* tasks whose item isComplete
          passed,     \* the first tasks, spliced off the consecutive list
          settled,    \* tasks whose promise has settled
          cleared,    \* tasks destroy() took out of a queue
          stuck,      \* those of them that hold a slot of the main queue
          saving,     \* calls of setCursor under way: <<task, cursor>>
          cursor,     \* MemoryRunner.cursor
          stored,     \* what setCursor wrote last
          paused,     \* destroy() was called
          handled,    \* history: events given to the handler
          view,       \* history: view[d], the last event of d handled
          tail,       \* history: where a connection without a cursor began last
          drops, restarts

None == -1
Down == -2

StartCursor == IF HasStartCursor THEN 0 ELSE None

procVars == <<pos, tracked, complete, passed, settled, cleared, stuck, saving, cursor, paused>>
vars     == <<repo, log, procVars, stored, handled, view, tail, drops, restarts>>

Tasks == 1 .. Len(tracked)

RunnerInit ==
  /\ repo = <<>>
  /\ log = {}
  /\ pos = Down
  /\ tracked = <<>>
  /\ complete = {} /\ passed = 0 /\ settled = {} /\ saving = {}
  /\ cleared = {} /\ stuck = {}
  /\ cursor = StartCursor
  /\ stored = StartCursor
  /\ paused = FALSE
  /\ handled = {}
  /\ view = [d \in Dids |-> 0]
  /\ tail = 0
  /\ drops = 0 /\ restarts = 0

----------------------------------------------------------------------------
(* The firehose: events come, an account deletion takes some away.         *)
EventSequenced(d) ==
  /\ Len(repo) < MaxSeq
  /\ repo' = repo \o <<d>>
  /\ log' = log \cup {Len(repo) + 1}
  /\ UNCHANGED <<procVars, stored, handled, view, tail, drops, restarts>>

AccountPurged(d) ==
  /\ log' = {s \in log : repo[s] = d => \A r \in log : repo[r] = d => r <= s}
  /\ log' # log
  /\ UNCHANGED <<repo, procVars, stored, handled, view, tail, drops, restarts>>

(* getParams: without a cursor the stream starts at its tail; with one it  *)
(* follows the cursor or, when that was ahead of the poller, before it.     *)
Connect ==
  /\ pos = Down
  /\ ~paused
  /\ IF cursor = None
     THEN pos' = Len(repo) /\ tail' = Len(repo)
     ELSE pos' \in 0 .. cursor /\ UNCHANGED tail
  /\ UNCHANGED <<repo, log, tracked, complete, passed, settled, cleared, stuck, saving,
                 cursor, stored, paused, handled, view, drops, restarts>>

Disconnect ==
  /\ pos # Down
  /\ drops < MaxDrops
  /\ pos' = Down
  /\ drops' = drops + 1
  /\ UNCHANGED <<repo, log, tracked, complete, passed, settled, cleared, stuck, saving,
                 cursor, stored, paused, handled, view, tail, restarts>>

(* The next event comes: trackEvent pushes it on the list and adds a task. *)
(* The firehose skips nothing it still has.                                *)
TrackEvent(s) ==
  /\ pos # Down
  /\ pos < s
  /\ \A r \in log : ~(pos < r /\ r < s)
  /\ pos' = s
  /\ tracked' = Append(tracked, s)
  /\ UNCHANGED <<repo, log, complete, passed, settled, cleared, stuck, saving,
                 cursor, stored, paused, handled, view, tail, drops, restarts>>

----------------------------------------------------------------------------
(* The queues.                                                             *)

Waiting == Tasks \ (settled \cup cleared)

(* Holds a slot of the main queue: no more than Concurrency - 1 before it. *)
Started(i) == Cardinality({j \in Waiting : j < i}) < Concurrency

(* Mutant: a partition runs all it has at once.                            *)
RunningUnordered(i) == i \in Waiting /\ Started(i)

(* Its partition runs it: one task at a time, in the order they came.      *)
Running(i) ==
  /\ i \in Waiting
  /\ Started(i)
  /\ \A j \in Waiting : j < i => repo[tracked[j]] # repo[tracked[i]]

(* Mutant: the list is spliced up to the last complete item.               *)
PassedBeyond(done) ==
  CHOOSE k \in passed .. Len(tracked) :
    /\ k = passed \/ k \in done
    /\ \A j \in done : j <= k

(* ConsecutiveList.complete: how far the list is complete from its head.   *)
PassedWith(done) ==
  CHOOSE k \in passed .. Len(tracked) :
    /\ passed + 1 .. k \subseteq done
    /\ k + 1 \notin done

Handle(s) ==
  /\ handled' = handled \cup {s}
  /\ view' = [view EXCEPT ![repo[s]] = s]

(* The handler returns, its errors given to onError, and the item is       *)
(* complete: either it is not at the head of the list ...                  *)
HandledBehind(i) ==
  /\ Running(i)
  /\ i \notin complete
  /\ Handle(tracked[i])
  /\ complete' = complete \cup {i}
  /\ PassedWith(complete') = passed
  /\ settled' = settled \cup {i}
  /\ UNCHANGED <<repo, log, pos, tracked, passed, cleared, stuck, saving, cursor, stored,
                 paused, tail, drops, restarts>>

(* ... or the cursor moves, to the last number spliced off, and is saved.  *)
HandledAtHead(i) ==
  /\ Running(i)
  /\ i \notin complete
  /\ Handle(tracked[i])
  /\ complete' = complete \cup {i}
  /\ passed' = PassedWith(complete')
  /\ passed' # passed
  /\ cursor' = tracked[passed']
  /\ saving' = saving \cup {<<i, cursor'>>}
  /\ UNCHANGED <<repo, log, pos, tracked, settled, cleared, stuck, stored,
                 paused, tail, drops, restarts>>

(* Mutant: the partition is not freed after a save.                        *)
CursorSavedHoldsPartition(i) ==
  /\ \E save \in saving :
       /\ save[1] = i
       /\ stored' = save[2]
       /\ saving' = saving \ {save}
  /\ UNCHANGED <<repo, log, pos, tracked, complete, passed, settled, cleared, stuck, cursor,
                 paused, handled, view, tail, drops, restarts>>

(* A setCursor ends.  Those of several partitions may be under way at the  *)
(* same time, and what they write may land in any order.                   *)
CursorSaved(i) ==
  /\ \E save \in saving :
       /\ save[1] = i
       /\ stored' = save[2]
       /\ saving' = saving \ {save}
  /\ settled' = settled \cup {i}
  /\ UNCHANGED <<repo, log, pos, tracked, complete, passed, cleared, stuck, cursor, paused,
                 handled, view, tail, drops, restarts>>

(* Mutant: the queues are not emptied.                                     *)
DestroyClearsNothing ==
  /\ ~paused
  /\ paused' = TRUE
  /\ pos' = Down
  /\ stuck' = {i \in Waiting : Started(i) /\ ~Running(i)}
  /\ UNCHANGED <<repo, log, tracked, complete, passed, settled, cleared, saving, cursor,
                 stored, handled, view, tail, drops, restarts>>

(* Firehose.destroy, then MemoryRunner.destroy up to its await: the queues *)
(* are emptied; a task that holds a slot of the main queue and waits in    *)
(* its partition never settles.                                            *)
Destroy ==
  /\ ~paused
  /\ paused' = TRUE
  /\ pos' = Down
  /\ cleared' = {i \in Waiting : ~Running(i)}
  /\ stuck' = {i \in cleared' : Started(i)}
  /\ UNCHANGED <<repo, log, tracked, complete, passed, settled, saving, cursor, stored,
                 handled, view, tail, drops, restarts>>

(* The process stops, in good order or not, and another one starts from    *)
(* the cursor that was saved.                                              *)
RunnerRestart ==
  /\ restarts < MaxRestarts
  /\ restarts' = restarts + 1
  /\ pos' = Down
  /\ tracked' = <<>>
  /\ complete' = {} /\ passed' = 0 /\ settled' = {} /\ saving' = {}
  /\ cleared' = {} /\ stuck' = {}
  /\ cursor' = stored
  /\ paused' = FALSE
  /\ UNCHANGED <<repo, log, stored, handled, view, tail, drops>>

RunTask(i) == HandledBehind(i) \/ HandledAtHead(i) \/ CursorSaved(i)

RunnerNext ==
  \/ \E d \in Dids : EventSequenced(d) \/ AccountPurged(d)
  \/ Connect
  \/ Disconnect
  \/ \E s \in 1 .. Len(repo) : TrackEvent(s)
  \/ \E i \in Tasks : RunTask(i)
  \/ Destroy
  \/ RunnerRestart

(* Tasks end, the connection is opened again, and what the firehose has is *)
(* sent.                                                                   *)
RunnerFairness ==
  /\ \A d \in Dids : WF_vars(\E i \in Tasks : repo[tracked[i]] = d /\ RunTask(i))
  /\ WF_vars(Connect)
  /\ WF_vars(\E s \in 1 .. Len(repo) : TrackEvent(s))

RunnerSpec == RunnerInit /\ [][RunnerNext]_vars /\ RunnerFairness

----------------------------------------------------------------------------
RunnerTypeOK ==
  /\ repo \in Seq(Dids)
  /\ log \subseteq 1 .. Len(repo)
  /\ pos \in {Down} \cup (0 .. Len(repo))
  /\ tracked \in Seq(1 .. Len(repo))
  /\ complete \subseteq Tasks
  /\ passed \in 0 .. Len(tracked)
  /\ settled \subseteq complete
  /\ cleared \subseteq Tasks
  /\ stuck \subseteq cleared
  /\ saving \subseteq Tasks \X (1 .. Len(repo))
  /\ cursor \in None .. Len(repo)
  /\ stored \in None .. Len(repo)
  /\ paused \in BOOLEAN
  /\ handled \subseteq 1 .. Len(repo)
  /\ view \in [Dids -> 0 .. Len(repo)]
  /\ tail \in 0 .. Len(repo)
  /\ drops \in 0 .. MaxDrops
  /\ restarts \in 0 .. MaxRestarts

(* "This ensures that no events are dropped": whatever the firehose has up *)
(* to the cursor, the one in memory or the one that was saved, went to the *)
(* handler.  It is what a reconnection or a restart does not ask for again.*)
(* Without a first cursor, from where a connection last began without one. *)
Promised(s) == s > tail

NoneDropped ==
  \A s \in log : Promised(s) /\ (s <= cursor \/ s <= stored) => s \in handled

(* "Events from a given repo must be processed in order": no event goes to *)
(* the handler before an earlier one of its repository, over reconnections *)
(* and restarts; only what was handled before may come again.              *)
InOrderPerRepo ==
  \A s \in handled : \A r \in log :
    Promised(r) /\ r < s /\ repo[r] = repo[s] => r \in handled

(* When events stop coming, each repository ends at its last one: replays  *)
(* do not leave it at an older event ...                                   *)
UpToDate(d) == \A s \in log : repo[s] = d => s <= view[d]

Converges == \A d \in Dids : <>[](paused \/ UpToDate(d))

(* ... in a process that does not restart.                                 *)
ConvergesOnline == \A d \in Dids : <>[](paused \/ restarts > 0 \/ UpToDate(d))

(* The promise of destroy() resolves (mainQueue.onIdle): no task holds a   *)
(* slot of the main queue.                                                 *)
DestroyResolves == paused ~> (~paused \/ (Waiting = {} /\ stuck = {}))
=============================================================================
