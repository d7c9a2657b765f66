------------------------- MODULE MemoryRunnerProofs -------------------------
(***************************************************************************)
(* Proofs about MemoryRunner: a consumer drops no event below its cursor   *)
(* and handles the events of a repository in order, for any number of      *)
(* repositories, events, slots, dropped connections and restarts.          *)
(***************************************************************************)
EXTENDS MemoryRunner, NaturalsInduction, WellFoundedInduction, TLAPS

USE RunnerAssumption

Owing(s) == s \in log /\ Promised(s)

(* The events up to s went to the handler, or are one of the first i tasks.*)
TakenBy(s, i) == \A r \in log : Promised(r) /\ r <= s =>
                   r \in handled \/ \E j \in 1 .. i : tracked[j] = r

Behind(s) == \A r \in log : Promised(r) /\ r <= s => r \in handled

Types == RunnerTypeOK /\ \A save \in saving : save[1] \in complete

(* Tasks stand in the order their events came in, with none left out.      *)
TasksOK == \A i \in Tasks : TakenBy(tracked[i], i)

PosOK == pos # Down => TakenBy(pos, Len(tracked))

(* The items that are complete were handled, all of those spliced off are. *)
CompleteOK ==
  /\ \A i \in complete : tracked[i] \in handled
  /\ 1 .. passed \subseteq complete

CursorOK ==
  /\ Behind(cursor)
  /\ Behind(stored)
  /\ \A save \in saving : Behind(save[2])

(* destroy() leaves no task whose partition had an earlier one cleared.    *)
ClearedOK ==
  /\ cleared # {} => paused
  /\ paused => pos = Down
  /\ \A j \in cleared : \A i \in Waiting : j < i => repo[tracked[j]] # repo[tracked[i]]

RunnerInv ==
  Types /\ TasksOK /\ PosOK /\ CompleteOK /\ CursorOK /\ ClearedOK /\ InOrderPerRepo

(* A step asks for no event it did not ask for before, but for new ones.   *)
NoMoreOwing == \A r \in log' : Promised(r)' /\ r <= Len(repo) => Owing(r)

SameRepos ==
  /\ Len(repo) <= Len(repo')
  /\ repo' \in Seq(Dids)
  /\ \A s \in 1 .. Len(repo) : repo'[s] = repo[s]

----------------------------------------------------------------------------
(* The list: PassedWith is where it stops being complete.                  *)

LEMMA Least ==
  ASSUME NEW T, T \subseteq Nat, T # {}
  PROVE  \E m \in T : \A n \in T : m <= n
<1> DEFINE R == OpToRel(<, Nat)
<1>1. IsWellFoundedOn(R, Nat)
  BY NatLessThanWellFounded
<1>2. \A x, y \in Nat : <<y, x>> \in R <=> y < x
  BY DEF OpToRel
<1> HIDE DEF R
<1>3. PICK m \in T : \A n \in T : ~ (<<n, m>> \in R)
  BY <1>1, WFMin
<1>4. \A n \in T : ~ (n < m)
  BY <1>2, <1>3
<1> QED
  BY <1>4

LEMMA ListStops ==
  ASSUME Types, NEW done, done \subseteq Tasks
  PROVE  /\ PassedWith(done) \in passed .. Len(tracked)
         /\ passed + 1 .. PassedWith(done) \subseteq done
<1> DEFINE T == {n \in Nat : passed <= n /\ n + 1 \notin done}
<1>1. passed \in 0 .. Len(tracked) /\ Len(tracked) \in Nat
  BY DEF Types, RunnerTypeOK
<1>2. Len(tracked) \in T
  BY <1>1 DEF Tasks
<1>3. PICK k \in T : \A n \in T : k <= n
  BY <1>2, Least
<1>4. k \in passed .. Len(tracked)
  BY <1>1, <1>2, <1>3
<1>5. ASSUME NEW n \in passed + 1 .. k PROVE n \in done
  <2>1. n - 1 \in Nat /\ passed <= n - 1 /\ n - 1 < k /\ (n - 1) + 1 = n
    BY <1>1, <1>4
  <2>2. n - 1 \notin T
    BY <2>1, <1>3
  <2> QED
    BY <2>1, <2>2
<1>6. \E m \in passed .. Len(tracked) : passed + 1 .. m \subseteq done /\ m + 1 \notin done
  BY <1>3, <1>4, <1>5
<1> QED
  BY <1>6 DEF PassedWith

----------------------------------------------------------------------------
(* What keeps each part of the invariant.                                  *)

LEMMA TypeFacts ==
  ASSUME Types
  PROVE  /\ repo \in Seq(Dids) /\ Len(repo) \in Nat /\ Len(tracked) \in Nat
         /\ log \subseteq 1 .. Len(repo) /\ handled \subseteq 1 .. Len(repo)
         /\ tail \in 0 .. Len(repo) /\ tail \in Int
         /\ \A i \in Tasks : tracked[i] \in 1 .. Len(repo)
         /\ complete \subseteq Tasks /\ settled \subseteq complete /\ cleared \subseteq Tasks
<1>1. /\ repo \in Seq(Dids) /\ tracked \in Seq(1 .. Len(repo)) /\ tail \in 0 .. Len(repo)
  BY DEF Types, RunnerTypeOK
<1>2. /\ log \subseteq 1 .. Len(repo) /\ handled \subseteq 1 .. Len(repo)
  BY DEF Types, RunnerTypeOK
<1>3. complete \subseteq Tasks /\ settled \subseteq complete /\ cleared \subseteq Tasks
  BY DEF Types, RunnerTypeOK
<1>4. \A i \in Tasks : tracked[i] \in 1 .. Len(repo)
  BY <1>1 DEF Tasks
<1>5. Len(repo) \in Nat /\ Len(tracked) \in Nat
  BY <1>1
<1>6. tail \in Int
  BY <1>1, <1>5
<1> QED
  BY <1>1, <1>2, <1>3, <1>4, <1>5, <1>6

LEMMA TakenKept ==
  ASSUME NEW s \in Int, s <= Len(repo), NEW i \in Nat, TakenBy(s, i), NoMoreOwing, Types,
         log' \subseteq Int, handled \subseteq handled',
         \A j \in 1 .. i : tracked'[j] = tracked[j]
  PROVE  TakenBy(s, i)'
<1>1. Len(repo) \in Nat
  BY DEF Types, RunnerTypeOK
<1>2. SUFFICES ASSUME NEW r \in log', Promised(r)', r <= s
               PROVE  r \in handled' \/ \E j \in 1 .. i : tracked'[j] = r
  BY DEF TakenBy
<1>3. r <= Len(repo)
  BY <1>1, <1>2
<1>4. r \in log /\ Promised(r)
  BY <1>2, <1>3 DEF NoMoreOwing, Owing
<1> QED
  BY <1>2, <1>4 DEF TakenBy

LEMMA BehindKept ==
  ASSUME NEW s \in Int, s <= Len(repo), Behind(s), NoMoreOwing, Types,
         log' \subseteq Int, handled \subseteq handled'
  PROVE  Behind(s)'
<1>1. Len(repo) \in Nat
  BY DEF Types, RunnerTypeOK
<1>2. SUFFICES ASSUME NEW r \in log', Promised(r)', r <= s PROVE r \in handled'
  BY DEF Behind
<1>3. r <= Len(repo)
  BY <1>1, <1>2
<1> QED
  BY <1>2, <1>3 DEF NoMoreOwing, Owing, Behind

LEMMA TasksKept ==
  ASSUME Types, TasksOK, NoMoreOwing, log' \subseteq Int, handled \subseteq handled',
         tracked' = tracked
  PROVE  TasksOK'
<1>1. \A i \in Tasks : i \in Nat /\ tracked[i] \in Int /\ tracked[i] <= Len(repo)
  BY TypeFacts DEF Tasks
<1>2. ASSUME NEW i \in Tasks, NEW s, s = tracked[i] PROVE TakenBy(s, i)'
  BY <1>1, <1>2, TakenKept DEF TasksOK
<1>3. ASSUME NEW i \in Tasks' PROVE TakenBy(tracked[i], i)'
  <2>1. PICK s : s = tracked'[i]
    OBVIOUS
  <2>2. TakenBy(s, i)'
    BY <1>2, <2>1 DEF Tasks
  <2> QED
    BY <2>1, <2>2 DEF TakenBy
<1> QED
  BY <1>3 DEF TasksOK

LEMMA PosKept ==
  ASSUME Types, PosOK, NoMoreOwing, log' \subseteq Int, handled \subseteq handled',
         tracked' = tracked, pos' \in {Down, pos}
  PROVE  PosOK'
<1>1. SUFFICES ASSUME pos' # Down PROVE TakenBy(pos, Len(tracked))'
  BY DEF PosOK
<1>2. PICK p, n : p = pos /\ n = Len(tracked)
  OBVIOUS
<1>3. p \in Int /\ p <= Len(repo) /\ n \in Nat /\ TakenBy(p, n)
  BY <1>1, <1>2 DEF Types, RunnerTypeOK, PosOK, Down
<1>4. TakenBy(p, n)'
  BY <1>3, TakenKept
<1> QED
  BY <1>1, <1>2, <1>4 DEF TakenBy

LEMMA CompleteKept ==
  ASSUME CompleteOK, handled \subseteq handled', UNCHANGED <<tracked, complete, passed>>
  PROVE  CompleteOK'
  BY DEF CompleteOK

LEMMA CursorKept ==
  ASSUME Types, CursorOK, NoMoreOwing, log' \subseteq Int, handled \subseteq handled',
         NEW c \in None .. Len(repo), cursor' = c, Behind(c),
         NEW d \in None .. Len(repo), stored' = d, Behind(d),
         saving' \subseteq saving
  PROVE  CursorOK'
<1>1. Len(repo) \in Nat /\ \A save \in saving : save[2] \in 1 .. Len(repo)
  BY DEF Types, RunnerTypeOK
<1>2. Behind(c)' /\ Behind(d)'
  BY <1>1, BehindKept DEF None
<1>3. ASSUME NEW save \in saving PROVE Behind(save[2])'
  BY <1>1, BehindKept DEF CursorOK
<1>4. Behind(cursor)' /\ Behind(stored)'
  BY <1>2 DEF Behind
<1> QED
  BY <1>3, <1>4 DEF CursorOK

LEMMA ClearedKept ==
  ASSUME Types, ClearedOK, SameRepos, UNCHANGED <<tracked, cleared, paused>>,
         settled \subseteq settled', pos' = pos \/ pos' = Down \/ ~paused
  PROVE  ClearedOK'
<1>1. \A i \in Tasks : tracked[i] \in 1 .. Len(repo)
  BY TypeFacts
<1>2. cleared \subseteq Tasks /\ Waiting' \subseteq Waiting /\ Waiting \subseteq Tasks
  BY DEF Types, RunnerTypeOK, Waiting, Tasks
<1>3. \A i \in Tasks : repo'[tracked'[i]] = repo[tracked[i]]
  BY <1>1 DEF SameRepos
<1>4. \A j \in cleared' : \A i \in Waiting' : j < i => repo'[tracked'[j]] # repo'[tracked'[i]]
  BY <1>2, <1>3 DEF ClearedOK
<1> QED
  BY <1>4 DEF ClearedOK

LEMMA OrderKept ==
  ASSUME Types, InOrderPerRepo, SameRepos, NoMoreOwing, log' \subseteq 1 .. Len(repo'),
         handled' = handled
  PROVE  InOrderPerRepo'
<1>1. Len(repo) \in Nat /\ handled \subseteq 1 .. Len(repo)
  BY DEF Types, RunnerTypeOK
<1>2. SUFFICES ASSUME NEW s \in handled', NEW r \in log', Promised(r)', r < s, repo'[r] = repo'[s]
               PROVE  r \in handled'
  BY DEF InOrderPerRepo
<1>3. r \in 1 .. Len(repo) /\ s \in 1 .. Len(repo)
  BY <1>1, <1>2 DEF SameRepos
<1>4. r \in log /\ Promised(r) /\ repo[r] = repo[s]
  BY <1>2, <1>3 DEF NoMoreOwing, Owing, SameRepos
<1> QED
  BY <1>2, <1>4 DEF InOrderPerRepo

----------------------------------------------------------------------------
(* The steps.                                                              *)

LEMMA InitInv == RunnerInit => RunnerInv
<1> SUFFICES ASSUME RunnerInit PROVE RunnerInv
  OBVIOUS
<1>1. Types
  <2>1. /\ repo = <<>> /\ Len(repo) = 0 /\ tracked = <<>> /\ Len(tracked) = 0
        /\ StartCursor \in None .. 0
    BY DEF RunnerInit, None, StartCursor
  <2>2. view \in [Dids -> 0 .. 0] /\ repo \in Seq(Dids) /\ tracked \in Seq(1 .. 0)
    BY <2>1 DEF RunnerInit
  <2>3. /\ pos \in {Down} \cup (0 .. Len(repo)) /\ passed \in 0 .. Len(tracked)
        /\ cursor \in None .. Len(repo) /\ stored \in None .. Len(repo)
        /\ tail \in 0 .. Len(repo) /\ drops \in 0 .. MaxDrops /\ restarts \in 0 .. MaxRestarts
    BY <2>1 DEF RunnerInit
  <2>4. /\ log = {} /\ complete = {} /\ settled = {} /\ cleared = {} /\ stuck = {}
        /\ saving = {} /\ handled = {} /\ paused = FALSE
    BY DEF RunnerInit
  <2> QED
    BY <2>1, <2>2, <2>3, <2>4 DEF Types, RunnerTypeOK
<1>2. TasksOK /\ PosOK /\ CompleteOK /\ CursorOK /\ ClearedOK /\ InOrderPerRepo
  BY DEF RunnerInit, TasksOK, PosOK, CompleteOK, CursorOK, ClearedOK, InOrderPerRepo, TakenBy,
         Behind, Tasks
<1> QED
  BY <1>1, <1>2 DEF RunnerInv

(* Nothing of the runner moves, or only its connection.                    *)
LEMMA RunnerStays ==
  ASSUME RunnerInv, Types', SameRepos, NoMoreOwing,
         UNCHANGED <<tracked, complete, passed, settled, cleared, saving, cursor, stored,
                     paused, handled>>,
         pos' \in {Down, pos}
  PROVE  RunnerInv'
<1>1. log' \subseteq 1 .. Len(repo') /\ log' \subseteq Int
  BY DEF Types, RunnerTypeOK
<1>2. TasksOK' /\ PosOK'
  BY <1>1, TasksKept, PosKept DEF RunnerInv
<1>3. CompleteOK'
  BY CompleteKept DEF RunnerInv
<1>4. CursorOK'
  <2>1. cursor \in None .. Len(repo) /\ stored \in None .. Len(repo)
    BY DEF RunnerInv, Types, RunnerTypeOK
  <2>2. PICK c, d : c = cursor /\ d = stored
    OBVIOUS
  <2>3. Behind(c) /\ Behind(d)
    BY <2>2 DEF RunnerInv, CursorOK
  <2> QED
    BY <1>1, <2>1, <2>2, <2>3, CursorKept DEF RunnerInv
<1>5. ClearedOK'
  BY ClearedKept DEF RunnerInv
<1>6. InOrderPerRepo'
  BY <1>1, OrderKept DEF RunnerInv
<1> QED
  BY <1>2, <1>3, <1>4, <1>5, <1>6 DEF RunnerInv

LEMMA SeqOfMore ==
  ASSUME NEW S, NEW T, S \subseteq T, NEW q \in Seq(S)
  PROVE  q \in Seq(T)
  OBVIOUS

LEMMA EventSequencedInv ==
  ASSUME RunnerInv, NEW d \in Dids, EventSequenced(d)
  PROVE  RunnerInv'
<1>1. /\ repo \in Seq(Dids) /\ Len(repo) \in Nat /\ log \subseteq 1 .. Len(repo)
  BY DEF RunnerInv, Types, RunnerTypeOK
<1>2. /\ repo' = Append(repo, d) /\ log' = log \cup {Len(repo) + 1}
      /\ UNCHANGED <<pos, tracked, complete, passed, settled, cleared, stuck, saving, cursor,
                     stored, paused, handled, view, tail, drops, restarts>>
  BY <1>1 DEF EventSequenced, procVars
<1>3. /\ SameRepos /\ Len(repo') = Len(repo) + 1
  BY <1>1, <1>2 DEF SameRepos
<1>4. NoMoreOwing
  BY <1>1, <1>2 DEF NoMoreOwing, Owing, Promised
<1>5. Types'
  <2>1. /\ log' \subseteq 1 .. Len(repo') /\ 1 .. Len(repo) \subseteq 1 .. Len(repo')
        /\ 0 .. Len(repo) \subseteq 0 .. Len(repo') /\ None .. Len(repo) \subseteq None .. Len(repo')
    <3>1. PICK n \in Nat : n = Len(repo)
      BY <1>1
    <3>2. /\ 1 .. n \subseteq 1 .. n + 1 /\ 0 .. n \subseteq 0 .. n + 1
          /\ None .. n \subseteq None .. n + 1 /\ n + 1 \in 1 .. n + 1
      BY DEF None
    <3>3. log \subseteq 1 .. n /\ Len(repo') = n + 1 /\ log' = log \cup {n + 1}
      BY <1>1, <1>2, <1>3, <3>1
    <3> QED
      BY <3>1, <3>2, <3>3
  <2>2. tracked \in Seq(1 .. Len(repo'))
    BY <2>1, SeqOfMore DEF RunnerInv, Types, RunnerTypeOK
  <2>3. pos \in {Down} \cup (0 .. Len(repo')) /\ view \in [Dids -> 0 .. Len(repo')]
    <3>1. pos \in {Down} \cup (0 .. Len(repo)) /\ view \in [Dids -> 0 .. Len(repo)]
      BY DEF RunnerInv, Types, RunnerTypeOK
    <3>2. view \in [Dids -> 0 .. Len(repo')]
      <4>1. \A d1 \in Dids : view[d1] \in 0 .. Len(repo')
        BY <2>1, <3>1
      <4> QED
        BY <3>1, <4>1
    <3> QED
      BY <2>1, <3>1, <3>2
  <2>4. saving \subseteq Tasks \X (1 .. Len(repo'))
    BY <2>1 DEF RunnerInv, Types, RunnerTypeOK
  <2>5. /\ cursor \in None .. Len(repo') /\ stored \in None .. Len(repo')
        /\ handled \subseteq 1 .. Len(repo') /\ tail \in 0 .. Len(repo')
    BY <2>1 DEF RunnerInv, Types, RunnerTypeOK
  <2> QED
    BY <1>2, <1>3, <2>1, <2>2, <2>3, <2>4, <2>5 DEF RunnerInv, Types, RunnerTypeOK, Tasks, SameRepos
<1> QED
  BY <1>2, <1>3, <1>4, <1>5, RunnerStays

(* Steps that leave the firehose as it is or take events away.             *)
LEMMA FirehoseSame ==
  ASSUME Types, repo' = repo, log' \subseteq log, tail' \in Int, tail <= tail'
  PROVE  SameRepos /\ NoMoreOwing
<1>1. repo \in Seq(Dids) /\ Len(repo) \in Nat /\ log \subseteq Int /\ tail \in Int
  BY TypeFacts
<1> QED
  BY <1>1 DEF SameRepos, NoMoreOwing, Owing, Promised

LEMMA AccountPurgedInv ==
  ASSUME RunnerInv, NEW d \in Dids, AccountPurged(d)
  PROVE  RunnerInv'
<1>1. /\ log' \subseteq log
      /\ UNCHANGED <<repo, pos, tracked, complete, passed, settled, cleared, stuck, saving,
                     cursor, stored, paused, handled, view, tail, drops, restarts>>
  BY DEF AccountPurged, procVars
<1>2. Types'
  BY <1>1 DEF RunnerInv, Types, RunnerTypeOK, Tasks
<1>3. SameRepos /\ NoMoreOwing
  BY <1>1, TypeFacts, FirehoseSame DEF RunnerInv
<1> QED
  BY <1>1, <1>2, <1>3, RunnerStays

LEMMA DisconnectInv == ASSUME RunnerInv, Disconnect PROVE RunnerInv'
<1>1. Types'
  <2>1. pos' \in {Down} \cup (0 .. Len(repo')) /\ drops' \in 0 .. MaxDrops
    BY DEF RunnerInv, Types, RunnerTypeOK, Disconnect
  <2> QED
    BY <2>1 DEF RunnerInv, Types, RunnerTypeOK, Tasks, Disconnect
<1>2. SameRepos /\ NoMoreOwing
  BY TypeFacts, FirehoseSame DEF RunnerInv, Disconnect
<1> QED
  BY <1>1, <1>2, RunnerStays DEF Disconnect

(* A connection starts at the tail, above what it promises, or below the   *)
(* cursor, where all was handled.                                          *)
LEMMA ConnectInv == ASSUME RunnerInv, Connect PROVE RunnerInv'
<1>1. /\ UNCHANGED <<repo, log, tracked, complete, passed, settled, cleared, stuck, saving,
                     cursor, stored, paused, handled, view, drops, restarts>>
      /\ ~paused
      /\ \/ cursor = None /\ pos' = Len(repo) /\ tail' = Len(repo)
         \/ cursor # None /\ pos' \in 0 .. cursor /\ tail' = tail
  BY DEF Connect
<1>2. /\ Len(repo) \in Nat /\ log \subseteq 1 .. Len(repo) /\ tail \in 0 .. Len(repo)
      /\ cursor \in None .. Len(repo) /\ stored \in None .. Len(repo)
  BY DEF RunnerInv, Types, RunnerTypeOK
<1>3. pos' \in 0 .. Len(repo) /\ tail' \in 0 .. Len(repo) /\ tail <= tail'
  BY <1>1, <1>2 DEF None
<1>4. Types'
  BY <1>1, <1>3 DEF RunnerInv, Types, RunnerTypeOK, Tasks
<1>5. SameRepos /\ NoMoreOwing
  BY <1>1, <1>2, <1>3, FirehoseSame DEF RunnerInv
<1>6. PosOK'
  <2>1. SUFFICES ASSUME NEW r \in log, r > tail', r <= pos' PROVE r \in handled
    BY <1>1 DEF PosOK, TakenBy, Promised
  <2>2. r \in 1 .. Len(repo)
    BY <1>2
  <2>3. cursor # None /\ r <= cursor /\ r > tail
    BY <1>1, <1>2, <1>3, <2>1, <2>2 DEF None
  <2> QED
    BY <2>3 DEF RunnerInv, CursorOK, Behind, Promised
<1>7. /\ log' \subseteq 1 .. Len(repo') /\ log' \subseteq Int /\ handled \subseteq handled'
  BY <1>1, <1>2
<1>8. TasksOK' /\ CompleteOK'
  BY <1>1, <1>5, <1>7, TasksKept, CompleteKept DEF RunnerInv
<1>9. CursorOK'
  <2>1. PICK c, d : c = cursor /\ d = stored
    OBVIOUS
  <2>2. Behind(c) /\ Behind(d)
    BY <2>1 DEF RunnerInv, CursorOK
  <2> QED
    BY <1>1, <1>2, <1>5, <1>7, <2>1, <2>2, CursorKept DEF RunnerInv
<1>10. ClearedOK'
  BY <1>1, <1>5, ClearedKept DEF RunnerInv
<1>11. InOrderPerRepo'
  BY <1>1, <1>5, <1>7, OrderKept DEF RunnerInv
<1> QED
  BY <1>4, <1>6, <1>8, <1>9, <1>10, <1>11 DEF RunnerInv

(* The event that comes is the next one: between it and the last there is  *)
(* none.                                                                   *)
LEMMA TrackEventInv ==
  ASSUME RunnerInv, NEW s \in 1 .. Len(repo), TrackEvent(s)
  PROVE  RunnerInv'
<1>1. /\ pos # Down /\ pos < s /\ \A r \in log : ~(pos < r /\ r < s)
      /\ pos' = s /\ tracked' = Append(tracked, s)
      /\ UNCHANGED <<repo, log, complete, passed, settled, cleared, stuck, saving, cursor,
                     stored, paused, handled, view, tail, drops, restarts>>
  BY DEF TrackEvent
<1>2. /\ Len(repo) \in Nat /\ log \subseteq 1 .. Len(repo) /\ tail \in 0 .. Len(repo)
      /\ tracked \in Seq(1 .. Len(repo)) /\ Len(tracked) \in Nat
      /\ cursor \in None .. Len(repo) /\ stored \in None .. Len(repo)
  BY DEF RunnerInv, Types, RunnerTypeOK
<1>3. pos \in 0 .. Len(repo)
  BY <1>1 DEF RunnerInv, Types, RunnerTypeOK
<1>4. PICK n : n = Len(tracked)
  OBVIOUS
<1>5. /\ Len(tracked') = n + 1 /\ tracked'[n + 1] = s
      /\ \A j \in 1 .. n : tracked'[j] = tracked[j]
      /\ tracked' \in Seq(1 .. Len(repo'))
  BY <1>1, <1>2, <1>4
<1>6. Tasks = 1 .. n /\ Tasks' = 1 .. n + 1 /\ Tasks \subseteq Tasks'
  BY <1>2, <1>4, <1>5 DEF Tasks
<1>7. Types'
  <2>1. saving \subseteq Tasks' \X (1 .. Len(repo))
    <3>1. saving \subseteq Tasks \X (1 .. Len(repo))
      BY DEF RunnerInv, Types, RunnerTypeOK
    <3> QED
      BY <1>6, <3>1
  <2>2. passed \in 0 .. n + 1
    BY <1>2, <1>4 DEF RunnerInv, Types, RunnerTypeOK
  <2>3. complete \subseteq Tasks' /\ cleared \subseteq Tasks'
    BY <1>6 DEF RunnerInv, Types, RunnerTypeOK
  <2>4. pos' \in {Down} \cup (0 .. Len(repo'))
    BY <1>1, <1>2
  <2>5. passed' \in 0 .. Len(tracked')
    BY <1>1, <1>5, <2>2
  <2> QED
    BY <1>1, <1>5, <2>1, <2>3, <2>4, <2>5 DEF RunnerInv, Types, RunnerTypeOK
<1>8. SameRepos /\ NoMoreOwing
  BY <1>1, <1>2, FirehoseSame DEF RunnerInv
<1>9. /\ log' \subseteq 1 .. Len(repo') /\ log' \subseteq Int /\ handled \subseteq handled'
  BY <1>1, <1>2
<1>10. TakenBy(s, n + 1)'
  <2>1. SUFFICES ASSUME NEW r \in log, r > tail, r <= s, r \notin handled
                 PROVE  \E j \in 1 .. n + 1 : tracked'[j] = r
    BY <1>1 DEF TakenBy, Promised
  <2>2. r = s \/ r <= pos
    BY <1>1, <1>2, <1>3, <2>1
  <2>3. CASE r = s
    BY <1>2, <1>4, <1>5, <2>3
  <2>4. CASE r <= pos
    <3>1. \E j \in 1 .. n : tracked[j] = r
      BY <1>1, <1>4, <2>1, <2>4 DEF RunnerInv, PosOK, TakenBy, Promised
    <3> QED
      BY <1>2, <1>4, <1>5, <3>1
  <2> QED
    BY <2>2, <2>3, <2>4
<1>11. PosOK'
  BY <1>1, <1>5, <1>10 DEF PosOK, TakenBy
<1>12. TasksOK'
  <2>1. ASSUME NEW i \in 1 .. n PROVE TakenBy(tracked[i], i)'
    <3>1. PICK t : t = tracked[i]
      OBVIOUS
    <3>2. t \in Int /\ t <= Len(repo) /\ i \in Nat /\ \A j \in 1 .. i : j \in 1 .. n
      BY <1>2, <1>4, <3>1
    <3>3. TakenBy(t, i)
      BY <1>6, <3>1 DEF RunnerInv, TasksOK
    <3>4. TakenBy(t, i)'
      BY <1>5, <1>8, <1>9, <3>2, <3>3, TakenKept DEF RunnerInv
    <3> QED
      BY <1>5, <3>1, <3>4 DEF TakenBy
  <2>2. TakenBy(tracked[n + 1], n + 1)'
    BY <1>5, <1>10 DEF TakenBy
  <2>3. ASSUME NEW i \in Tasks' PROVE TakenBy(tracked[i], i)'
    <3>1. i \in 1 .. n \/ i = n + 1
      BY <1>2, <1>4, <1>6
    <3> QED
      BY <2>1, <2>2, <3>1
  <2> QED
    BY <2>3 DEF TasksOK
<1>13. CompleteOK'
  <2>1. complete \subseteq 1 .. n
    BY <1>6 DEF RunnerInv, Types, RunnerTypeOK
  <2> QED
    BY <1>1, <1>5, <2>1 DEF RunnerInv, CompleteOK
<1>14. CursorOK'
  <2>1. PICK c, d : c = cursor /\ d = stored
    OBVIOUS
  <2>2. Behind(c) /\ Behind(d)
    BY <2>1 DEF RunnerInv, CursorOK
  <2> QED
    BY <1>1, <1>2, <1>8, <1>9, <2>1, <2>2, CursorKept DEF RunnerInv
<1>15. ClearedOK'
  <2>1. cleared = {} /\ ~paused
    BY <1>1 DEF RunnerInv, ClearedOK, Types, RunnerTypeOK
  <2> QED
    BY <1>1, <2>1 DEF ClearedOK
<1>16. InOrderPerRepo'
  BY <1>1, <1>8, <1>9, OrderKept DEF RunnerInv
<1> QED
  BY <1>7, <1>11, <1>12, <1>13, <1>14, <1>15, <1>16 DEF RunnerInv

----------------------------------------------------------------------------
(* The tasks.                                                              *)

(* The handler gets the event of a task that runs: whatever its repository *)
(* has before it was one of the tasks before, and those have been handled. *)
LEMMA HandledOrder ==
  ASSUME RunnerInv, NEW i \in Tasks, Running(i), Handle(tracked[i]),
         UNCHANGED <<repo, log, tail>>
  PROVE  InOrderPerRepo'
<1>1. /\ Len(repo) \in Nat /\ Len(tracked) \in Nat
      /\ handled \subseteq 1 .. Len(repo) /\ log \subseteq 1 .. Len(repo)
      /\ \A k \in Tasks : tracked[k] \in 1 .. Len(repo)
      /\ complete \subseteq Tasks /\ settled \subseteq complete /\ cleared \subseteq Tasks
  BY TypeFacts DEF RunnerInv
<1>2. handled' = handled \cup {tracked[i]}
  BY DEF Handle
<1>3. SUFFICES ASSUME NEW s \in handled', NEW r \in log, Promised(r), r < s, repo[r] = repo[s]
               PROVE  r \in handled'
  BY DEF InOrderPerRepo, Promised
<1>4. CASE s \in handled
  BY <1>2, <1>3, <1>4 DEF RunnerInv, InOrderPerRepo
<1>5. CASE s = tracked[i] /\ r \notin handled
  <2>1. TakenBy(tracked[i], i)
    BY DEF RunnerInv, TasksOK
  <2>2. r <= tracked[i]
    BY <1>1, <1>3, <1>5 DEF Tasks
  <2>3. PICK j \in 1 .. i : tracked[j] = r
    BY <1>3, <1>5, <2>1, <2>2 DEF TakenBy
  <2>4. j \in Tasks /\ j < i
    BY <1>1, <1>3, <1>5, <2>3 DEF Tasks
  <2>5. i \in Waiting /\ \A k \in Waiting : k < i => repo[tracked[k]] # repo[tracked[i]]
    BY DEF Running
  <2>6. j \notin Waiting
    BY <1>3, <1>5, <2>3, <2>4, <2>5
  <2>7. j \notin cleared
    BY <1>3, <1>5, <2>3, <2>4, <2>5 DEF RunnerInv, ClearedOK
  <2>8. j \in complete
    BY <1>1, <2>4, <2>6, <2>7 DEF Waiting
  <2> QED
    BY <1>5, <2>3, <2>8 DEF RunnerInv, CompleteOK
<1> QED
  BY <1>2, <1>3, <1>4, <1>5

(* What a handled task leaves as it was.                                   *)
LEMMA HandledKeeps ==
  ASSUME RunnerInv, NEW i \in Tasks, Running(i), Handle(tracked[i]),
         complete' = complete \cup {i}, settled \subseteq settled',
         UNCHANGED <<repo, log, pos, tracked, cleared, paused, tail>>
  PROVE  /\ SameRepos /\ NoMoreOwing /\ TasksOK' /\ PosOK' /\ ClearedOK' /\ InOrderPerRepo'
         /\ \A k \in complete' : tracked'[k] \in handled'
<1>1. /\ Len(repo) \in Nat /\ log \subseteq 1 .. Len(repo) /\ tail \in 0 .. Len(repo)
  BY DEF RunnerInv, Types, RunnerTypeOK
<1>2. handled' = handled \cup {tracked[i]}
  BY DEF Handle
<1>3. SameRepos /\ NoMoreOwing
  BY <1>1, FirehoseSame DEF RunnerInv
<1>4. log' \subseteq Int /\ handled \subseteq handled'
  BY <1>1, <1>2
<1>5. TasksOK'
  BY <1>3, <1>4, TasksKept DEF RunnerInv
<1>6. PosOK'
  BY <1>3, <1>4, PosKept DEF RunnerInv
<1>7. ClearedOK'
  BY <1>3, ClearedKept DEF RunnerInv
<1>8. InOrderPerRepo'
  BY HandledOrder
<1>9. \A k \in complete' : tracked'[k] \in handled'
  BY <1>2 DEF RunnerInv, CompleteOK
<1> QED
  BY <1>3, <1>5, <1>6, <1>7, <1>8, <1>9

LEMMA HandledTypes ==
  ASSUME RunnerInv, NEW i \in Tasks, Handle(tracked[i])
  PROVE  /\ handled' \subseteq 1 .. Len(repo)
         /\ view' \in [Dids -> 0 .. Len(repo)]
         /\ tracked[i] \in 1 .. Len(repo)
<1>1. tracked[i] \in 1 .. Len(repo)
  BY TypeFacts DEF RunnerInv
<1>2. repo[tracked[i]] \in Dids
  BY <1>1, TypeFacts DEF RunnerInv
<1>3. handled \subseteq 1 .. Len(repo) /\ view \in [Dids -> 0 .. Len(repo)] /\ Len(repo) \in Nat
  BY DEF RunnerInv, Types, RunnerTypeOK
<1>4. tracked[i] \in 0 .. Len(repo)
  BY <1>1, <1>3
<1> QED
  BY <1>1, <1>2, <1>3, <1>4 DEF Handle

LEMMA HandledBehindInv ==
  ASSUME RunnerInv, NEW i \in Tasks, HandledBehind(i)
  PROVE  RunnerInv'
<1>1. /\ Running(i) /\ Handle(tracked[i])
      /\ complete' = complete \cup {i} /\ settled' = settled \cup {i}
      /\ UNCHANGED <<repo, log, pos, tracked, passed, cleared, stuck, saving, cursor, stored,
                     paused, tail, drops, restarts>>
  BY DEF HandledBehind
<1>2. /\ SameRepos /\ NoMoreOwing /\ TasksOK' /\ PosOK' /\ ClearedOK' /\ InOrderPerRepo'
      /\ \A k \in complete' : tracked'[k] \in handled'
  BY <1>1, HandledKeeps
<1>3. Types'
  <2>1. /\ handled' \subseteq 1 .. Len(repo) /\ view' \in [Dids -> 0 .. Len(repo)]
    BY <1>1, HandledTypes
  <2>2. complete' \subseteq Tasks' /\ settled' \subseteq complete' /\ complete \subseteq complete'
    BY <1>1 DEF RunnerInv, Types, RunnerTypeOK, Tasks
  <2> QED
    BY <1>1, <2>1, <2>2 DEF RunnerInv, Types, RunnerTypeOK, Tasks
<1>4. CompleteOK'
  BY <1>1, <1>2 DEF RunnerInv, CompleteOK
<1>5. CursorOK'
  <2>1. /\ cursor \in None .. Len(repo) /\ stored \in None .. Len(repo) /\ log \subseteq 1 .. Len(repo)
    BY DEF RunnerInv, Types, RunnerTypeOK
  <2>2. log' \subseteq Int /\ handled \subseteq handled'
    BY <1>1, <2>1 DEF Handle
  <2>3. PICK c, d : c = cursor /\ d = stored
    OBVIOUS
  <2>4. Behind(c) /\ Behind(d)
    BY <2>3 DEF RunnerInv, CursorOK
  <2> QED
    BY <1>1, <1>2, <2>1, <2>2, <2>3, <2>4, CursorKept DEF RunnerInv
<1> QED
  BY <1>2, <1>3, <1>4, <1>5 DEF RunnerInv

(* The cursor moves to the last task spliced off: all tasks up to it are   *)
(* complete, so all events up to it have been handled.                     *)
LEMMA HandledAtHeadInv ==
  ASSUME RunnerInv, NEW i \in Tasks, HandledAtHead(i)
  PROVE  RunnerInv'
<1>1. /\ Running(i) /\ Handle(tracked[i])
      /\ complete' = complete \cup {i}
      /\ passed' = PassedWith(complete') /\ passed' # passed
      /\ cursor' = tracked[passed'] /\ saving' = saving \cup {<<i, cursor'>>}
      /\ UNCHANGED <<repo, log, pos, tracked, settled, cleared, stuck, stored, paused, tail,
                     drops, restarts>>
  BY DEF HandledAtHead
<1>2. /\ SameRepos /\ NoMoreOwing /\ TasksOK' /\ PosOK' /\ ClearedOK' /\ InOrderPerRepo'
      /\ \A k \in complete' : tracked'[k] \in handled'
  BY <1>1, HandledKeeps
<1>3. /\ Len(repo) \in Nat /\ log \subseteq 1 .. Len(repo) /\ Len(tracked) \in Nat
      /\ complete \subseteq Tasks /\ passed \in 0 .. Len(tracked)
      /\ tracked \in Seq(1 .. Len(repo)) /\ stored \in None .. Len(repo)
      /\ saving \subseteq Tasks \X (1 .. Len(repo)) /\ \A save \in saving : save[1] \in complete
  BY DEF RunnerInv, Types, RunnerTypeOK
<1>4. PICK k : k = passed'
  OBVIOUS
<1>5. k \in passed .. Len(tracked) /\ passed + 1 .. k \subseteq complete'
  <2>1. PICK done : done = complete'
    OBVIOUS
  <2>2. done \subseteq Tasks
    BY <1>1, <1>3, <2>1
  <2>3. PassedWith(done) \in passed .. Len(tracked) /\ passed + 1 .. PassedWith(done) \subseteq done
    BY <2>2, ListStops DEF RunnerInv
  <2>4. PassedWith(done) = k
    BY <1>1, <1>4, <2>1 DEF PassedWith
  <2> QED
    BY <2>1, <2>3, <2>4
<1>6. k \in Tasks
  BY <1>1, <1>3, <1>4, <1>5 DEF Tasks
<1>7. PICK c : c = tracked[k]
  OBVIOUS
<1>8. cursor' = c /\ c \in 1 .. Len(repo)
  BY <1>1, <1>3, <1>4, <1>6, <1>7 DEF Tasks
<1>9. 1 .. k \subseteq complete'
  <2>1. 1 .. passed \subseteq complete
    BY DEF RunnerInv, CompleteOK
  <2>2. ASSUME NEW n \in 1 .. k PROVE n \in complete'
    <3>1. n \in 1 .. passed \/ n \in passed + 1 .. k
      BY <1>3, <1>5
    <3> QED
      BY <1>1, <1>5, <2>1, <3>1
  <2> QED
    BY <2>2
<1>10. CompleteOK'
  BY <1>2, <1>4, <1>9 DEF CompleteOK
<1>11. Types'
  <2>1. /\ handled' \subseteq 1 .. Len(repo) /\ view' \in [Dids -> 0 .. Len(repo)]
    BY <1>1, HandledTypes
  <2>2. complete' \subseteq Tasks' /\ complete \subseteq complete' /\ settled' \subseteq complete'
    BY <1>1, <1>3 DEF RunnerInv, Types, RunnerTypeOK, Tasks
  <2>3. saving' \subseteq Tasks \X (1 .. Len(repo)) /\ \A save \in saving' : save[1] \in complete'
    BY <1>1, <1>3, <1>8
  <2>4. passed' \in 0 .. Len(tracked) /\ cursor' \in None .. Len(repo)
    BY <1>3, <1>4, <1>5, <1>8 DEF None
  <2> QED
    BY <1>1, <2>1, <2>2, <2>3, <2>4 DEF RunnerInv, Types, RunnerTypeOK, Tasks
<1>12. Behind(c)'
  <2>1. TakenBy(tracked[k], k)'
    BY <1>1, <1>2, <1>6 DEF TasksOK, Tasks
  <2>2. SUFFICES ASSUME NEW r \in log', Promised(r)', r <= c PROVE r \in handled'
    BY DEF Behind
  <2>3. r \in handled' \/ \E j \in 1 .. k : tracked'[j] = r
    BY <1>1, <1>7, <2>1, <2>2 DEF TakenBy
  <2>4. ASSUME NEW j \in 1 .. k, tracked'[j] = r PROVE r \in handled'
    BY <1>2, <1>9, <2>4
  <2> QED
    BY <2>3, <2>4
<1>13. CursorOK'
  <2>1. log' \subseteq Int /\ handled \subseteq handled'
    BY <1>1, <1>3 DEF Handle
  <2>2. ASSUME NEW save \in saving' PROVE Behind(save[2])'
    <3>1. CASE save \in saving
      <4>1. save[2] \in Int /\ save[2] <= Len(repo) /\ Behind(save[2])
        BY <1>3, <3>1 DEF RunnerInv, CursorOK
      <4> QED
        BY <1>2, <2>1, <4>1, BehindKept DEF RunnerInv
    <3>2. CASE save = <<i, c>>
      BY <1>12, <3>2
    <3> QED
      BY <1>1, <1>8, <3>1, <3>2
  <2>3. Behind(stored)'
    <3>1. PICK d : d = stored
      OBVIOUS
    <3>2. d \in Int /\ d <= Len(repo) /\ Behind(d)
      BY <1>3, <3>1 DEF RunnerInv, CursorOK, None
    <3>3. Behind(d)'
      BY <1>2, <2>1, <3>2, BehindKept DEF RunnerInv
    <3> QED
      BY <1>1, <3>1, <3>3 DEF Behind
  <2>4. Behind(cursor)'
    BY <1>8, <1>12 DEF Behind
  <2> QED
    BY <2>2, <2>3, <2>4 DEF CursorOK
<1> QED
  BY <1>2, <1>10, <1>11, <1>13 DEF RunnerInv

LEMMA CursorSavedInv ==
  ASSUME RunnerInv, NEW i \in Tasks, CursorSaved(i)
  PROVE  RunnerInv'
<1>1. PICK save \in saving : save[1] = i /\ stored' = save[2] /\ saving' = saving \ {save}
  BY DEF CursorSaved
<1>2. /\ settled' = settled \cup {i}
      /\ UNCHANGED <<repo, log, pos, tracked, complete, passed, cleared, stuck, cursor, paused,
                     handled, view, tail, drops, restarts>>
  BY DEF CursorSaved
<1>3. /\ Len(repo) \in Nat /\ log \subseteq 1 .. Len(repo) /\ tail \in 0 .. Len(repo)
      /\ cursor \in None .. Len(repo) /\ saving \subseteq Tasks \X (1 .. Len(repo))
      /\ i \in complete
  BY <1>1 DEF RunnerInv, Types, RunnerTypeOK
<1>4. PICK c, d : c = cursor /\ d = save[2]
  OBVIOUS
<1>5. d \in None .. Len(repo) /\ Behind(c) /\ Behind(d)
  BY <1>1, <1>3, <1>4 DEF RunnerInv, CursorOK, None
<1>6. Types'
  <2>1. settled' \subseteq complete /\ saving' \subseteq saving
    BY <1>1, <1>2, <1>3 DEF RunnerInv, Types, RunnerTypeOK
  <2> QED
    BY <1>1, <1>2, <1>4, <1>5, <2>1 DEF RunnerInv, Types, RunnerTypeOK, Tasks
<1>7. SameRepos /\ NoMoreOwing
  BY <1>2, <1>3, FirehoseSame DEF RunnerInv
<1>8. log' \subseteq Int /\ log' \subseteq 1 .. Len(repo') /\ handled \subseteq handled'
  BY <1>2, <1>3
<1>9. TasksOK' /\ CompleteOK'
  BY <1>2, <1>7, <1>8, TasksKept, CompleteKept DEF RunnerInv
<1>10. PosOK'
  BY <1>2, <1>7, <1>8, PosKept DEF RunnerInv
<1>11. CursorOK'
  BY <1>1, <1>2, <1>3, <1>4, <1>5, <1>7, <1>8, CursorKept DEF RunnerInv
<1>12. ClearedOK'
  BY <1>2, <1>7, ClearedKept DEF RunnerInv
<1>13. InOrderPerRepo'
  BY <1>2, <1>7, <1>8, OrderKept DEF RunnerInv
<1> QED
  BY <1>6, <1>9, <1>10, <1>11, <1>12, <1>13 DEF RunnerInv

(* A task that is left after destroy() runs: no earlier task of its        *)
(* repository waits, so none is cleared.                                   *)
LEMMA DestroyInv == ASSUME RunnerInv, Destroy PROVE RunnerInv'
<1>1. /\ ~paused /\ paused' = TRUE /\ pos' = Down
      /\ cleared' = {i \in Waiting : ~Running(i)}
      /\ stuck' \subseteq cleared'
      /\ UNCHANGED <<repo, log, tracked, complete, passed, settled, saving, cursor, stored,
                     handled, view, tail, drops, restarts>>
  BY DEF Destroy
<1>2. /\ Len(repo) \in Nat /\ log \subseteq 1 .. Len(repo) /\ tail \in 0 .. Len(repo)
      /\ cursor \in None .. Len(repo) /\ stored \in None .. Len(repo)
  BY DEF RunnerInv, Types, RunnerTypeOK
<1>3. Types'
  BY <1>1 DEF RunnerInv, Types, RunnerTypeOK, Tasks, Waiting
<1>4. SameRepos /\ NoMoreOwing
  BY <1>1, <1>2, FirehoseSame DEF RunnerInv
<1>5. log' \subseteq Int /\ log' \subseteq 1 .. Len(repo') /\ handled \subseteq handled'
  BY <1>1, <1>2
<1>6. TasksOK' /\ CompleteOK'
  BY <1>1, <1>4, <1>5, TasksKept, CompleteKept DEF RunnerInv
<1>7. PosOK'
  BY <1>1 DEF PosOK
<1>8. CursorOK'
  <2>1. PICK c, d : c = cursor /\ d = stored
    OBVIOUS
  <2>2. Behind(c) /\ Behind(d)
    BY <2>1 DEF RunnerInv, CursorOK
  <2> QED
    BY <1>1, <1>2, <1>4, <1>5, <2>1, <2>2, CursorKept DEF RunnerInv
<1>9. ClearedOK'
  <2>1. cleared = {}
    BY <1>1 DEF RunnerInv, ClearedOK
  <2>2. ASSUME NEW j \in cleared', NEW i \in Waiting', j < i
        PROVE  repo[tracked[j]] # repo[tracked[i]]
    <3>1. i \in Waiting /\ i \notin cleared' /\ j \in Waiting
      BY <1>1, <2>1, <2>2 DEF Waiting, Tasks
    <3>2. Running(i)
      BY <1>1, <3>1
    <3> QED
      BY <2>2, <3>1, <3>2 DEF Running
  <2> QED
    BY <1>1, <2>2 DEF ClearedOK
<1>10. InOrderPerRepo'
  BY <1>1, <1>4, <1>5, OrderKept DEF RunnerInv
<1> QED
  BY <1>3, <1>6, <1>7, <1>8, <1>9, <1>10 DEF RunnerInv

LEMMA RunnerRestartInv == ASSUME RunnerInv, RunnerRestart PROVE RunnerInv'
<1>1. /\ restarts < MaxRestarts /\ restarts' = restarts + 1 /\ pos' = Down /\ tracked' = <<>>
      /\ complete' = {} /\ passed' = 0 /\ settled' = {} /\ saving' = {}
      /\ cleared' = {} /\ stuck' = {} /\ cursor' = stored /\ paused' = FALSE
      /\ UNCHANGED <<repo, log, stored, handled, view, tail, drops>>
  BY DEF RunnerRestart
<1>2. /\ Len(repo) \in Nat /\ log \subseteq 1 .. Len(repo) /\ tail \in 0 .. Len(repo)
      /\ stored \in None .. Len(repo) /\ restarts \in 0 .. MaxRestarts
  BY DEF RunnerInv, Types, RunnerTypeOK
<1>3. Len(tracked') = 0 /\ tracked' \in Seq(1 .. Len(repo)) /\ Tasks' = {}
  BY <1>1 DEF Tasks
<1>4. Types'
  <2>1. restarts' \in 0 .. MaxRestarts /\ passed' \in 0 .. Len(tracked')
    BY <1>1, <1>2, <1>3
  <2> QED
    BY <1>1, <1>2, <1>3, <2>1 DEF RunnerInv, Types, RunnerTypeOK
<1>5. SameRepos /\ NoMoreOwing
  BY <1>1, <1>2, FirehoseSame DEF RunnerInv
<1>6. log' \subseteq Int /\ log' \subseteq 1 .. Len(repo') /\ handled \subseteq handled'
  BY <1>1, <1>2
<1>7. TasksOK' /\ CompleteOK' /\ PosOK' /\ ClearedOK'
  BY <1>1, <1>3 DEF TasksOK, CompleteOK, PosOK, ClearedOK
<1>8. CursorOK'
  <2>1. PICK d : d = stored
    OBVIOUS
  <2>2. Behind(d) /\ saving' \subseteq saving
    BY <1>1, <2>1 DEF RunnerInv, CursorOK
  <2> QED
    BY <1>1, <1>2, <1>5, <1>6, <2>1, <2>2, CursorKept DEF RunnerInv
<1>9. InOrderPerRepo'
  BY <1>1, <1>5, <1>6, OrderKept DEF RunnerInv
<1> QED
  BY <1>4, <1>7, <1>8, <1>9 DEF RunnerInv

LEMMA StutterInv == ASSUME RunnerInv, UNCHANGED vars PROVE RunnerInv'
<1>1. UNCHANGED <<repo, log, pos, tracked, complete, passed, settled, cleared, stuck, saving,
                  cursor, stored, paused, handled, view, tail, drops, restarts>>
  BY DEF vars, procVars
<1>2. Types'
  BY <1>1 DEF RunnerInv, Types, RunnerTypeOK, Tasks
<1>3. SameRepos /\ NoMoreOwing
  BY <1>1, TypeFacts, FirehoseSame DEF RunnerInv
<1> QED
  BY <1>1, <1>2, <1>3, RunnerStays

LEMMA NextInv == RunnerInv /\ [RunnerNext]_vars => RunnerInv'
<1> SUFFICES ASSUME RunnerInv, [RunnerNext]_vars PROVE RunnerInv'
  OBVIOUS
<1>1. ASSUME NEW d \in Dids, EventSequenced(d) \/ AccountPurged(d) PROVE RunnerInv'
  BY <1>1, EventSequencedInv, AccountPurgedInv
<1>2. ASSUME NEW s \in 1 .. Len(repo), TrackEvent(s) PROVE RunnerInv'
  BY <1>2, TrackEventInv
<1>3. ASSUME NEW i \in Tasks, RunTask(i) PROVE RunnerInv'
  BY <1>3, HandledBehindInv, HandledAtHeadInv, CursorSavedInv DEF RunTask
<1> QED
  BY <1>1, <1>2, <1>3, ConnectInv, DisconnectInv, DestroyInv, RunnerRestartInv, StutterInv
  DEF RunnerNext

LEMMA RunnerInvCorrect == RunnerSpec => []RunnerInv
  BY InitInv, NextInv, PTL DEF RunnerSpec

----------------------------------------------------------------------------
(* The state of a consumer and of its runner has the types it is meant to, *)
(* and a task that was settled or cleared is one of those of the process.  *)
THEOREM RunnerTypeCorrect == RunnerSpec => []RunnerTypeOK
<1>1. RunnerInv => RunnerTypeOK
  BY DEF RunnerInv, Types
<1> QED
  BY <1>1, RunnerInvCorrect, PTL

(* "This ensures that no events are dropped": whatever a reconnection or a *)
(* restart does not ask for again has been handled, for any number of      *)
(* tasks at the same time, and whichever setCursor is the last to land.    *)
THEOREM NoneDroppedCorrect == RunnerSpec => []NoneDropped
<1>1. RunnerInv => NoneDropped
  BY DEF RunnerInv, CursorOK, Behind, NoneDropped
<1> QED
  BY <1>1, RunnerInvCorrect, PTL

(* "Events from a given repo must be processed in order", over dropped     *)
(* connections, restarts and destroy(), for any number of repositories.    *)
THEOREM InOrderPerRepoCorrect == RunnerSpec => []InOrderPerRepo
<1>1. RunnerInv => InOrderPerRepo
  BY DEF RunnerInv
<1> QED
  BY <1>1, RunnerInvCorrect, PTL
=============================================================================
