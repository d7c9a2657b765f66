--------------------------- MODULE CollectionOps ---------------------------
(***************************************************************************)
(* Edits of a personal collection as operations, the fold of               *)
(* packages/bsky/src/api/com/para/collection/ops.ts.  A batch of ops is    *)
(* applied to whatever the collection is at that point of the log, so that *)
(* edits of two devices merge.                                             *)
(*                                                                         *)
(* An item is its key and a value that stands for its other fields.  The   *)
(* key of an item a client named (by itemId or policyUri) is <<name, 0, 0>>*)
(* and of one that came without an id <<name, op, index>>, minted from the *)
(* operation that added it.  Name, description and colour are one value,   *)
(* the limit in bytes is left out.                                         *)
(***************************************************************************)
EXTENDS Integers, Sequences, FiniteSets

CONSTANTS ItemLimit,      \* COLLECTION_LIMITS.items
          RelationLimit,  \* COLLECTION_LIMITS.relations
          Names,          \* what clients name items by, or call the notes without an id
          RelationIds

ASSUME LimitsAssumption == ItemLimit \in Nat /\ RelationLimit \in Nat

ItemKeys    == Names \X Nat \X Nat
Items       == [key : ItemKeys, val : Nat]
Relations   == [id : RelationIds, from : ItemKeys, to : ItemKeys]
Collections == [items : Seq(Items), relations : SUBSET Relations, details : Nat]

(* The ops that validateOpShape lets pass.                                 *)
Ops ==
  [type : {"addItem"}, name : Names, named : BOOLEAN]
    \cup [type : {"updateItem"}, name : Names, val : Nat]
    \cup [type : {"removeItem"}, name : Names]
    \cup [type : {"addRelation"}, id : RelationIds, from : Names, to : Names]
    \cup [type : {"removeRelation"}, id : RelationIds]
    \cup [type : {"updateDetails"}, val : Nat]

EmptyCollection == [items |-> <<>>, relations |-> {}, details |-> 0]

(* The key a client sees in the item it sends, and the one it is stored by.*)
ItemKey(name) == <<name, 0, 0>>
StoredKey(op, opKey, index) ==
  IF op.named THEN ItemKey(op.name) ELSE <<op.name, opKey, index>>

KeysOf(c) == {c.items[i].key : i \in 1 .. Len(c.items)}

(* No two items have the same key; and there are not too many, nor is there *)
(* a relation to an item that is not there.                                *)
Distinct(c) == \A i, j \in 1 .. Len(c.items) : c.items[i].key = c.items[j].key => i = j
Consistent(c) ==
  /\ Len(c.items) <= ItemLimit
  /\ \A r \in c.relations : {r.from, r.to} \subseteq KeysOf(c)

(* Mutant: an item that is there already is added again. *)
AddItemAlways(c, op, opKey, index) ==
  IF Len(c.items) >= ItemLimit THEN c
  ELSE [c EXCEPT !.items = Append(@, [key |-> StoredKey(op, opKey, index), val |-> 0])]

(* addItem: an item that is there already is not added again.  One without *)
(* an id is looked for by the key derived from its title and date, which   *)
(* no stored item has.                                                     *)
AddItem(c, op, opKey, index) ==
  IF ItemKey(op.name) \in KeysOf(c) \/ Len(c.items) >= ItemLimit THEN c
  ELSE [c EXCEPT !.items = Append(@, [key |-> StoredKey(op, opKey, index), val |-> 0])]

UpdateItem(c, op) ==
  [c EXCEPT !.items = [i \in 1 .. Len(@) |->
      IF @[i].key = ItemKey(op.name) THEN [@[i] EXCEPT !.val = op.val] ELSE @[i]]]

(* The items with another key, in their order.                             *)
Without(items, key) ==
  LET kept[i \in 0 .. Len(items)] ==
        IF i = 0 THEN <<>>
        ELSE IF items[i].key = key THEN kept[i - 1] ELSE Append(kept[i - 1], items[i])
  IN  kept[Len(items)]

(* Mutant: the relations of a removed item stay. *)
RemoveItemOnly(c, op) == [c EXCEPT !.items = Without(@, ItemKey(op.name))]

RemoveItem(c, op) ==
  [c EXCEPT !.items = Without(@, ItemKey(op.name)),
            !.relations = {r \in @ : ItemKey(op.name) \notin {r.from, r.to}}]

AddRelation(c, op) ==
  IF \/ \E r \in c.relations : r.id = op.id
     \/ ~({ItemKey(op.from), ItemKey(op.to)} \subseteq KeysOf(c))
     \/ Cardinality(c.relations) >= RelationLimit
  THEN c
  ELSE [c EXCEPT !.relations =
          @ \cup {[id |-> op.id, from |-> ItemKey(op.from), to |-> ItemKey(op.to)]}]

RemoveRelation(c, op) == [c EXCEPT !.relations = {r \in @ : r.id # op.id}]

ApplyOp(c, op, opKey, index) ==
  CASE op.type = "addItem"        -> AddItem(c, op, opKey, index)
    [] op.type = "updateItem"     -> UpdateItem(c, op)
    [] op.type = "removeItem"     -> RemoveItem(c, op)
    [] op.type = "addRelation"    -> AddRelation(c, op)
    [] op.type = "removeRelation" -> RemoveRelation(c, op)
    [] op.type = "updateDetails"  -> [c EXCEPT !.details = op.val]

(* applyCollectionOps: an op that cannot apply is skipped, the others go on.*)
ApplyCollectionOps(c, batch, opKey) ==
  LET after[i \in 0 .. Len(batch)] ==
        IF i = 0 THEN c ELSE ApplyOp(after[i - 1], batch[i], opKey, i)
  IN  after[Len(batch)]
=============================================================================
