------------------------------- MODULE Outbox -------------------------------
(***************************************************************************)
(* The firehose a PDS serves: com.atproto.sync.subscribeRepos over one     *)
(* Outbox per connection (packages/pds/src/sequencer/outbox.ts), fed by    *)
(* the sequencer's table and by its 'events' emitter.                      *)
(*                                                                         *)
(* A connection goes through the phases of Outbox.events():                *)
(*   closed     no connection                                              *)
(*   outdated   subscribeRepos sent OutdatedCursor, looks for a new start  *)
(*   tail       it found no row in the backfill window: no backfill        *)
(*   paging     getBackfill is about to query a page                       *)
(*   yielding   rows[c] is what is left of the page                        *)
(*   backfilled getBackfill has ended                                      *)
(*   cutover    attached to the emitter; the last query is on its way      *)
(*   pushing    its result, rows[c], is on its way back                    *)
(*   streaming  caughtUp; yields from outBuffer                            *)
(* A client keeps the number of the last event it received and, after any  *)
(* disconnection, asks for what follows it.                                *)
(***************************************************************************)
EXTENDS Sequencer

CONSTANTS Clients,
          PageSize,    \* getBackfill's PAGE_SIZE (500)
          MaxBuffer,   \* maxBufferSize of the outBuffer (500)
          MaxHorizon,  \* bound: how many rows grow older than the backfill window
          MaxDrops     \* bound: disconnections and restarts

ASSUME OutboxAssumption ==
  /\ PageSize \in Nat \ {0}
  /\ MaxBuffer \in Nat \ {0}
  /\ MaxHorizon \in Nat
  /\ MaxDrops \in Nat

None == -1   \* an undefined cursor; also Outbox.lastSeen before the first yield

VARIABLES phase,          \* phase[c]: where the generator of c's connection is
          start,          \* the backfillCursor passed to events(); while
                          \* outdated, the horizon of the connection request
          seen,           \* Outbox.lastSeen
          rows,           \* a query result in hand: page or cutoverEvts
          cutoverBuffer,  \* Outbox.cutoverBuffer
          outBuffer,      \* the content of Outbox.outBuffer
          cursor,         \* the client: last sequence number received
          floor,          \* history: the point the client was promised all after
          sent,           \* history: the sequence numbers received by the client
          horizon,        \* rows up to this one are older than the backfill window
          drops           \* bound: disconnections and restarts so far

connVars   == <<phase, start, seen, rows, cutoverBuffer, outBuffer>>
clientVars == <<cursor, floor, sent>>
envVars    == <<horizon, drops>>
outboxVars == <<connVars, clientVars, envVars>>
vars       == <<seqVars, outboxVars>>

Phases == {"closed", "outdated", "tail", "paging", "yielding", "backfilled",
           "cutover", "pushing", "streaming"}

(* "this.lastSeen > -1 ? this.lastSeen : backfillCursor"                   *)
Base(c) == IF seen[c] > None THEN seen[c] ELSE start[c]

----------------------------------------------------------------------------
OutboxInit ==
  /\ phase = [c \in Clients |-> "closed"]
  /\ start = [c \in Clients |-> None]
  /\ seen = [c \in Clients |-> None]
  /\ rows = [c \in Clients |-> <<>>]
  /\ cutoverBuffer = [c \in Clients |-> <<>>]
  /\ outBuffer = [c \in Clients |-> <<>>]
  /\ cursor \in [Clients -> {None, 0}]
  /\ floor = [c \in Clients |-> 0]
  /\ sent = [c \in Clients |-> {}]
  /\ horizon = 0
  /\ drops = 0

Init == SequencerInit /\ OutboxInit

(* The sequencer's own steps; its emitter and its restart are below.       *)
SequencerStep ==
  /\ \/ \E d \in Dids : Sequence(d)
     \/ \E s \in deleting : PurgeDeletedAccount(s) \/ PurgeFails(s)
     \/ PollQuery
  /\ UNCHANGED outboxVars

(* Time passes: the oldest rows fall out of repoBackfillLimitMs.           *)
RowsAge ==
  /\ horizon < MaxHorizon
  /\ horizon < Len(evt)
  /\ horizon' = horizon + 1
  /\ UNCHANGED <<seqVars, connVars, clientVars, drops>>

(* A new Outbox, its generator stopped at phase p with backfillCursor n.   *)
Open(c, p, n) ==
  /\ phase' = [phase EXCEPT ![c] = p]
  /\ start' = [start EXCEPT ![c] = n]
  /\ UNCHANGED <<seen, rows, cutoverBuffer, outBuffer>>

(* subscribeRepos without a cursor: events() attaches in the same turn.    *)
ConnectTail(c) ==
  /\ phase[c] = "closed"
  /\ cursor[c] = None
  /\ Open(c, "streaming", None)
  /\ floor' = [floor EXCEPT ![c] = lastSeen]
  /\ UNCHANGED <<seqVars, cursor, sent, envVars>>

(* cursor > (curr ?? 0): FutureCursor, the connection is refused.          *)
FutureCursor(n) == n > 0 /\ \A s \in log : s < n

(* next(cursor) is older than the backfill window.                         *)
OutdatedCursor(n) == \E s \in Above(n) : s <= horizon

ConnectBackfill(c) ==
  /\ phase[c] = "closed"
  /\ cursor[c] # None
  /\ ~FutureCursor(cursor[c])
  /\ ~OutdatedCursor(cursor[c])
  /\ Open(c, "paging", cursor[c])
  /\ floor' = [floor EXCEPT ![c] = IF @ < cursor[c] THEN @ ELSE cursor[c]]
  /\ UNCHANGED <<seqVars, cursor, sent, envVars>>

ConnectOutdated(c) ==
  /\ phase[c] = "closed"
  /\ cursor[c] # None
  /\ ~FutureCursor(cursor[c])
  /\ OutdatedCursor(cursor[c])
  /\ Open(c, "outdated", horizon)
  /\ UNCHANGED <<seqVars, clientVars, envVars>>

(* earliestAfterTime(backfillTime): start one before the row it finds ...  *)
StartInWindow(c) ==
  /\ phase[c] = "outdated"
  /\ \E s \in Above(start[c]) :
       /\ \A r \in Above(start[c]) : s <= r
       /\ Open(c, "paging", s - 1)
       /\ floor' = [floor EXCEPT ![c] = s - 1]
  /\ UNCHANGED <<seqVars, cursor, sent, envVars>>

(* ... or, when it finds none, without a cursor.                           *)
StartAfterWindow(c) ==
  /\ phase[c] = "outdated"
  /\ Above(start[c]) = {}
  /\ Open(c, "tail", None)
  /\ UNCHANGED <<seqVars, clientVars, envVars>>

AttachTail(c) ==
  /\ phase[c] = "tail"
  /\ phase' = [phase EXCEPT ![c] = "streaming"]
  /\ floor' = [floor EXCEPT ![c] = IF @ < lastSeen THEN lastSeen ELSE @]
  /\ UNCHANGED <<seqVars, start, seen, rows, cutoverBuffer, outBuffer,
                 cursor, sent, envVars>>

(* getBackfill: the query of a page.                                       *)
PageQuery(c) ==
  /\ phase[c] = "paging"
  /\ \E page \in RequestSeqRange(Base(c), PageSize) :
       /\ rows' = [rows EXCEPT ![c] = page]
       /\ phase' = [phase EXCEPT ![c] = IF page = <<>> THEN "backfilled" ELSE "yielding"]
  /\ UNCHANGED <<seqVars, start, seen, cutoverBuffer, outBuffer, clientVars, envVars>>

(* "yield evt": Outbox.lastSeen moves and the client receives the event.   *)
Yield(c, s) ==
  /\ seen' = [seen EXCEPT ![c] = s]
  /\ cursor' = [cursor EXCEPT ![c] = s]
  /\ sent' = [sent EXCEPT ![c] = @ \cup {s}]

BackfillYield(c) ==
  /\ phase[c] = "yielding"
  /\ rows[c] # <<>>
  /\ Yield(c, Head(rows[c]))
  /\ rows' = [rows EXCEPT ![c] = Tail(@)]
  /\ UNCHANGED <<seqVars, phase, start, cutoverBuffer, outBuffer, floor, envVars>>

(* "within half a pagesize of the sequencer, we call it good"              *)
CloseToSequencer(c) == 2 * (lastSeen - seen[c]) < PageSize

BackfillPageDone(c) ==
  /\ phase[c] = "yielding"
  /\ rows[c] = <<>>
  /\ phase' = [phase EXCEPT ![c] = IF CloseToSequencer(c) THEN "backfilled" ELSE "paging"]
  /\ UNCHANGED <<seqVars, start, seen, rows, cutoverBuffer, outBuffer, clientVars, envVars>>

(* sequencer.on('events', addToBuffer), then cutover() up to its query.    *)
Attach(c) ==
  /\ phase[c] = "backfilled"
  /\ phase' = [phase EXCEPT ![c] = "cutover"]
  /\ UNCHANGED <<seqVars, start, seen, rows, cutoverBuffer, outBuffer, clientVars, envVars>>

CutoverQuery(c) ==
  /\ phase[c] = "cutover"
  /\ \E evts \in Listings(Above(Base(c))) : rows' = [rows EXCEPT ![c] = evts]
  /\ phase' = [phase EXCEPT ![c] = "pushing"]
  /\ UNCHANGED <<seqVars, start, seen, cutoverBuffer, outBuffer, clientVars, envVars>>

(* Mutant: the buffered events are put before those of the query.          *)
CutoverQueueSwapped(c) == cutoverBuffer[c] \o rows[c]

(* "dont worry about dupes, we ensure order on yield"                      *)
CutoverQueue(c) == rows[c] \o cutoverBuffer[c]

(* Mutant: caughtUp is never set.                                          *)
CutoverNeverCaughtUp(c) ==
  /\ phase[c] = "pushing"
  /\ outBuffer' = [outBuffer EXCEPT ![c] = @ \o CutoverQueue(c)]
  /\ rows' = [rows EXCEPT ![c] = <<>>]
  /\ cutoverBuffer' = [cutoverBuffer EXCEPT ![c] = <<>>]
  /\ UNCHANGED <<seqVars, phase, start, seen, clientVars, envVars>>

CutoverPush(c) ==
  /\ phase[c] = "pushing"
  /\ outBuffer' = [outBuffer EXCEPT ![c] = @ \o CutoverQueue(c)]
  /\ rows' = [rows EXCEPT ![c] = <<>>]
  /\ cutoverBuffer' = [cutoverBuffer EXCEPT ![c] = <<>>]
  /\ phase' = [phase EXCEPT ![c] = "streaming"]
  /\ UNCHANGED <<seqVars, start, seen, clientVars, envVars>>

(* Mutant: the events of the cutover are not buffered.                     *)
CutoverNotBuffered(c) == cutoverBuffer[c]

(* pollDb emits: addToBuffer runs for every attached connection.           *)
CutoverBufferAfter(c) ==
  IF phase[c] \in {"cutover", "pushing"} THEN cutoverBuffer[c] \o polled ELSE cutoverBuffer[c]

OutBufferAfter(c) ==
  IF phase[c] = "streaming" THEN outBuffer[c] \o polled ELSE outBuffer[c]

Emit ==
  /\ PollEmit
  /\ cutoverBuffer' = [c \in Clients |-> CutoverBufferAfter(c)]
  /\ outBuffer' = [c \in Clients |-> OutBufferAfter(c)]
  /\ UNCHANGED <<phase, start, seen, rows, clientVars, envVars>>

(* The next() of outBuffer.events() the connection asks for: an overfull   *)
(* buffer ends the connection, an event already yielded is skipped.        *)
Overfull(c) == Len(outBuffer[c]) > MaxBuffer

(* Mutant: an event is not compared with the last one yielded.             *)
StreamYieldUnordered(c) ==
  /\ phase[c] = "streaming"
  /\ outBuffer[c] # <<>>
  /\ ~Overfull(c)
  /\ Yield(c, Head(outBuffer[c]))
  /\ outBuffer' = [outBuffer EXCEPT ![c] = Tail(@)]
  /\ UNCHANGED <<seqVars, phase, start, rows, cutoverBuffer, floor, envVars>>

StreamYield(c) ==
  /\ phase[c] = "streaming"
  /\ outBuffer[c] # <<>>
  /\ ~Overfull(c)
  /\ Head(outBuffer[c]) > seen[c]
  /\ Yield(c, Head(outBuffer[c]))
  /\ outBuffer' = [outBuffer EXCEPT ![c] = Tail(@)]
  /\ UNCHANGED <<seqVars, phase, start, rows, cutoverBuffer, floor, envVars>>

StreamSkip(c) ==
  /\ phase[c] = "streaming"
  /\ outBuffer[c] # <<>>
  /\ ~Overfull(c)
  /\ Head(outBuffer[c]) <= seen[c]
  /\ outBuffer' = [outBuffer EXCEPT ![c] = Tail(@)]
  /\ UNCHANGED <<seqVars, phase, start, seen, rows, cutoverBuffer, clientVars, envVars>>

(* The connections of the set are gone, and with them their Outboxes.      *)
Close(C) ==
  /\ phase' = [c \in Clients |-> IF c \in C THEN "closed" ELSE phase[c]]
  /\ start' = [c \in Clients |-> IF c \in C THEN None ELSE start[c]]
  /\ seen' = [c \in Clients |-> IF c \in C THEN None ELSE seen[c]]
  /\ rows' = [c \in Clients |-> IF c \in C THEN <<>> ELSE rows[c]]
  /\ cutoverBuffer' = [c \in Clients |-> IF c \in C THEN <<>> ELSE cutoverBuffer[c]]
  /\ outBuffer' = [c \in Clients |-> IF c \in C THEN <<>> ELSE outBuffer[c]]
  /\ UNCHANGED clientVars

ConsumerTooSlow(c) ==
  /\ phase[c] = "streaming"
  /\ Overfull(c)
  /\ Close({c})
  /\ UNCHANGED <<seqVars, envVars>>

Disconnect(c) ==
  /\ phase[c] # "closed"
  /\ drops < MaxDrops
  /\ drops' = drops + 1
  /\ Close({c})
  /\ UNCHANGED <<seqVars, horizon>>

Restart ==
  /\ drops < MaxDrops
  /\ drops' = drops + 1
  /\ SequencerRestart
  /\ Close(Clients)
  /\ UNCHANGED horizon

Connect(c) ==
  \/ ConnectTail(c)
  \/ ConnectBackfill(c)
  \/ ConnectOutdated(c)
  \/ StartInWindow(c)
  \/ StartAfterWindow(c)
  \/ AttachTail(c)

Backfill(c) == PageQuery(c) \/ BackfillYield(c) \/ BackfillPageDone(c) \/ Attach(c)

Cutover(c) == CutoverQuery(c) \/ CutoverPush(c)

Stream(c) == StreamYield(c) \/ StreamSkip(c) \/ ConsumerTooSlow(c)

Next ==
  \/ SequencerStep
  \/ Emit
  \/ RowsAge
  \/ Restart
  \/ \E c \in Clients : \/ Connect(c)
                        \/ Backfill(c)
                        \/ Cutover(c)
                        \/ Stream(c)
                        \/ Disconnect(c)

(* The poller reschedules itself, queries return, a connection is read by  *)
(* its client, and a client without a connection tries again.              *)
Fairness ==
  /\ WF_vars(PollQuery /\ UNCHANGED outboxVars)
  /\ WF_vars(Emit)
  /\ \A c \in Clients : /\ WF_vars(Connect(c))
                        /\ WF_vars(Backfill(c))
                        /\ WF_vars(Cutover(c))
                        /\ WF_vars(Stream(c))

Spec == Init /\ [][Next]_vars /\ Fairness

----------------------------------------------------------------------------
TypeOK ==
  /\ SequencerTypeOK
  /\ phase \in [Clients -> Phases]
  /\ start \in [Clients -> None .. Len(evt)]
  /\ seen \in [Clients -> None .. Len(evt)]
  /\ rows \in [Clients -> Seq(1 .. Len(evt))]
  /\ cutoverBuffer \in [Clients -> Seq(1 .. Len(evt))]
  /\ outBuffer \in [Clients -> Seq(1 .. Len(evt))]
  /\ cursor \in [Clients -> None .. Len(evt)]
  /\ floor \in [Clients -> 0 .. Len(evt)]
  /\ sent \in [Clients -> SUBSET (1 .. Len(evt))]
  /\ horizon \in 0 .. Len(evt)
  /\ drops \in 0 .. MaxDrops

(* No client misses an event: what repo_seq still holds up to the last     *)
(* number a client received, it received, over backfill, cutover, stream,  *)
(* dropped connections and restarts, from the point it was promised        *)
(* everything after (its first cursor, or where OutdatedCursor moved it).  *)
NoGap ==
  \A c \in Clients : \A s \in log :
    floor[c] < s /\ s <= cursor[c] => s \in sent[c]

(* Why: the inductive invariant behind NoGap.  Nothing is skipped in a     *)
(* queue of c when whatever the log holds below an entry was received, or  *)
(* stands in the queue before that entry.                                  *)
NothingSkipped(c, q) ==
  \A i \in DOMAIN q : \A r \in log :
    floor[c] < r /\ r < q[i] => r \in sent[c] \/ \E j \in DOMAIN q : j < i /\ q[j] = r

Received(c, n) == \A r \in log : floor[c] < r /\ r <= n => r \in sent[c]

(* What the poller has passed, c has received or finds in its queue q.     *)
Covered(c, q) ==
  \A r \in log :
    floor[c] < r /\ r <= lastSeen => r \in sent[c] \/ \E i \in DOMAIN q : q[i] = r

PolledInOrder ==
  \A i \in DOMAIN polled :
    /\ polled[i] > lastSeen
    /\ \A r \in log : lastSeen < r /\ r < polled[i] =>
                        \E j \in DOMAIN polled : j < i /\ polled[j] = r

ConnectionInv(c) ==
  /\ seen[c] # None => /\ phase[c] \notin {"closed", "outdated", "tail"}
                       /\ seen[c] = cursor[c]
  /\ phase[c] = "outdated" => cursor[c] < start[c]
  /\ phase[c] \in {"paging", "yielding", "backfilled", "cutover"} => Received(c, Base(c))
  /\ phase[c] = "yielding" => NothingSkipped(c, rows[c])
  /\ phase[c] = "pushing" => /\ NothingSkipped(c, CutoverQueue(c))
                             /\ Covered(c, CutoverQueue(c))
  /\ phase[c] = "streaming" => /\ NothingSkipped(c, outBuffer[c])
                               /\ Covered(c, outBuffer[c])
  /\ phase[c] # "streaming" => outBuffer[c] = <<>>

NoGapInv == TypeOK /\ PolledInOrder /\ NoGap /\ \A c \in Clients : ConnectionInv(c)

(* "We then dedupe the query & the buffer & stream the events in order":   *)
(* what one connection yields has strictly increasing numbers, across the  *)
(* pages of the backfill, the cutover and the stream.                      *)
OrderedWithinConnection ==
  [][\A c \in Clients :
       phase'[c] # "closed" /\ seen'[c] # seen[c] => seen'[c] > seen[c]]_vars
=============================================================================
