--------------------------- MODULE FirehosePromise ---------------------------
(***************************************************************************)
(* What the firehose promises a client, whatever happens to connections,   *)
(* buffers and processes in between: from a point it was told (floor), the *)
(* client never receives an event for the first time before one the log    *)
(* still holds with a smaller number, and it receives every event the log  *)
(* keeps in the end.                                                       *)
(***************************************************************************)
EXTENDS Integers

CONSTANT Clients

VARIABLES last,    \* sequence numbers handed out so far
          log,     \* those whose event is still in the log
          cursor,  \* cursor[c]: the last event client c received
          floor,   \* floor[c]: the point it was promised all after
          sent     \* sent[c]: all it received

vars == <<last, log, cursor, floor, sent>>

Init ==
  /\ last = 0
  /\ log = {}
  /\ cursor \in [Clients -> {-1, 0}]
  /\ floor = [c \in Clients |-> 0]
  /\ sent = [c \in Clients |-> {}]

Append ==
  /\ last' > last
  /\ log' = log \cup (last + 1 .. last')
  /\ UNCHANGED <<cursor, floor, sent>>

Purge ==
  /\ log' \subseteq log
  /\ UNCHANGED <<last, cursor, floor, sent>>

(* The client is told a new starting point; never one that would hide a    *)
(* gap in what it was promised before.                                     *)
MovePromise(c) ==
  /\ floor'[c] >= cursor[c] \/ floor'[c] >= floor[c]
  /\ floor' = [floor EXCEPT ![c] = floor'[c]]
  /\ UNCHANGED <<last, log, cursor, sent>>

(* An event may come again, after a reconnection; none comes too early.    *)
Receive(c, s) ==
  /\ \A r \in log : floor[c] < r /\ r < s => r \in sent[c]
  /\ cursor' = [cursor EXCEPT ![c] = s]
  /\ sent' = [sent EXCEPT ![c] = @ \cup {s}]
  /\ UNCHANGED <<last, log, floor>>

Next ==
  \/ Append
  \/ Purge
  \/ \E c \in Clients : MovePromise(c) \/ \E s \in 1 .. last : Receive(c, s)

Due(c) == {s \in log : s > floor[c] /\ s \notin sent[c]}

Fairness == \A c \in Clients : WF_vars(\E s \in Due(c) : Receive(c, s))

Spec == Init /\ [][Next]_vars /\ Fairness
=============================================================================
