---------------------------- MODULE MCGovernance ----------------------------
(* Streams for the model checker.  A vote that changes in one commit, and   *)
(* replays of it; two proposals of one community whose lists two runs read  *)
(* before either opens one; two runs that decide one proposal on different  *)
(* counts; and two communities with two votes of one voter in one commit.   *)
EXTENDS Governance

CONSTANTS c1, c2, v1, v2, r1, r2

By(did, ops) == [did |-> did, ops |-> ops]
P(c)         == [kind |-> "proposal", community |-> c]
V(p, c)      == [kind |-> "vote", proposal |-> p, choice |-> c]

Revote  == <<By(v1, <<P(c1)>>), By(v2, <<V(1, "for"), V(1, "against")>>)>>
Queue   == <<By(v1, <<P(c1), P(c1)>>)>>
Ballot  == <<By(v1, <<P(c1)>>), By(v2, <<V(1, "for")>>)>>
TwoOpen == <<By(v1, <<P(c1)>>), By(v2, <<P(c2)>>), By(v1, <<V(1, "for"), V(2, "for")>>)>>

MCStreams == {Revote, Queue, Ballot, TwoOpen}

(* Between the two reads of a list of two, and in the first announcement.   *)
MCHeldUp == {<<Queue, "listed", 2>>, <<Ballot, "opened", 0>>}
=============================================================================
