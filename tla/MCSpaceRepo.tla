---------------------------- MODULE MCSpaceRepo ----------------------------
(* Batches for the model checker.                                           *)
EXTENDS SpaceRepo

CONSTANTS a, b

Create(p, c) == [action |-> "create", path |-> p, cid |-> c]
Update(p, c) == [action |-> "update", path |-> p, cid |-> c]
Delete(p)    == [action |-> "delete", path |-> p, cid |-> NoCid]

MCBatches ==
  {<<Create(1, a), Update(1, b)>>, <<Create(2, a), Delete(1)>>, <<Update(1, a), Create(3, b)>>,
   <<Create(1, a), Create(3, a)>>, <<Delete(2), Create(2, b)>>, <<Update(3, b)>>, <<Delete(1)>>}
=============================================================================
