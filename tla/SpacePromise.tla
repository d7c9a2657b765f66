---------------------------- MODULE SpacePromise ----------------------------
(***************************************************************************)
(* What a consumer of a permissioned repository is promised: the host makes*)
(* one commit after another, and whatever the consumer accepts is one of   *)
(* them, whole, and never an older one than it has.  What it accepts on    *)
(* top of a copy of a former life of the space is not promised to be it,   *)
(* nor what it accepts on top of a copy that is not.                       *)
(***************************************************************************)
EXTENDS Naturals, Sequences

CONSTANT Contents   \* the contents a repository may have

VARIABLES commits,  \* commits[r]: the records of revision r, and the life of the space
          at, have  \* the revision and the contents the consumer holds

promiseVars == <<commits, at, have>>

PromiseInit ==
  /\ commits = <<>>
  /\ at = 0
  /\ have \in Contents

Publish ==
  /\ Len(commits') = Len(commits) + 1
  /\ SubSeq(commits', 1, Len(commits)) = commits
  /\ commits'[Len(commits')] \in [life : Nat, records : Contents]
  /\ UNCHANGED <<at, have>>

Accept ==
  /\ \E r \in 1 .. Len(commits) :
       /\ at <= r
       /\ at' = r
       /\ \/ have' = commits[r].records
          \/ /\ at # 0
             /\ commits[at].life # commits[r].life \/ have # commits[at].records
             /\ have' \in Contents
  /\ UNCHANGED commits

PromiseSpec == PromiseInit /\ [][Publish \/ Accept]_promiseVars
=============================================================================
