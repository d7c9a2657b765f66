---------------------------- MODULE RepoPromise ----------------------------
(***************************************************************************)
(* What a repository promises its writers: a request takes effect at once, *)
(* on the records and the commit of that moment, or not at all.            *)
(***************************************************************************)
EXTENDS RepoRequests

CONSTANTS Writers,
          NoRequest

VARIABLES head,     \* the current commit
          records,  \* its records
          asked     \* asked[w]: the request of w that has no effect yet

promiseVars == <<head, records, asked>>

PromiseInit ==
  /\ records = [k \in Keys |-> Gone]
  /\ asked = [w \in Writers |-> NoRequest]

Ask(w) ==
  /\ asked[w] = NoRequest
  /\ \E req \in Requests(head, records) \cup Imports : asked' = [asked EXCEPT ![w] = req]
  /\ UNCHANGED <<head, records>>

(* A commit: what was to be swapped is there now.                          *)
TakesEffect(w) ==
  /\ asked[w] # NoRequest
  /\ Fits(asked[w], head, records)
  /\ records' = Applied(asked[w], records)
  /\ head' # head
  /\ asked' = [asked EXCEPT ![w] = NoRequest]

(* No-ops, refusals and failures; a crash takes all requests away.         *)
HasNone(W) ==
  /\ asked' = [w \in Writers |-> IF w \in W THEN NoRequest ELSE asked[w]]
  /\ UNCHANGED <<head, records>>

PromiseNext ==
  \/ \E w \in Writers : Ask(w) \/ TakesEffect(w)
  \/ \E W \in SUBSET Writers : HasNone(W)

PromiseSpec == PromiseInit /\ [][PromiseNext]_promiseVars
=============================================================================
