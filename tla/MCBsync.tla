------------------------------ MODULE MCBsync ------------------------------
(* Batches and payloads for the model checker: two named items, a note      *)
(* without an id, a relation between the named items.  One client sends     *)
(* back the note with the key the second operation minted, another one a    *)
(* collection with an item twice and a relation that leads nowhere.         *)
EXTENDS Bsync

Add(n)  == [type |-> "addItem", name |-> n, named |-> TRUE]
Note    == [type |-> "addItem", name |-> "note", named |-> FALSE]
Upd(n)  == [type |-> "updateItem", name |-> n, val |-> 1]
Rem(n)  == [type |-> "removeItem", name |-> n]
Rel     == [type |-> "addRelation", id |-> "r", from |-> "a", to |-> "b"]
Unrel   == [type |-> "removeRelation", id |-> "r"]
Details == [type |-> "updateDetails", val |-> 1]

MCBatches == {<<Unrel, Add("b"), Note, Rel>>, <<Upd("a"), Rem("b"), Details>>}

Item(key) == [key |-> key, val |-> 2]

MCPayloads ==
  {[EmptyCollection EXCEPT !.items = <<Item(ItemKey("a")), Item(<<"note", 2, 3>>)>>],
   [EmptyCollection EXCEPT
      !.items = <<Item(ItemKey("b")), Item(ItemKey("b"))>>,
      !.relations = {[id |-> "r", from |-> ItemKey("a"), to |-> ItemKey("b")]}]}
=============================================================================
