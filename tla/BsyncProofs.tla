---------------------------- MODULE BsyncProofs ----------------------------
(***************************************************************************)
(* Theorems about Bsync, for any log, page, number of failures, restarts   *)
(* and open transactions: types, what is skipped, what a scan waits for,   *)
(* and what the row of a subscriber that has caught up says.               *)
(*                                                                         *)
(* The inductions over a list of items, a batch or the log are over places *)
(* (Places): a set of places that has the next of each one has all.        *)
(***************************************************************************)
EXTENDS Bsync, FiniteSetTheorems, WellFoundedInduction, TLAPS

----------------------------------------------------------------------------
(* Recursion over the places of a sequence.                                *)

LEMMA Least ==
  ASSUME NEW T, T \subseteq Nat, T # {}
  PROVE  \E m \in T : \A n \in T : m <= n
<1> DEFINE R == OpToRel(<, Nat)
<1>1. IsWellFoundedOn(R, Nat)
  BY NatLessThanWellFounded
<1>2. \A x, y \in Nat : <<y, x>> \in R <=> y < x
  BY DEF OpToRel
<1> HIDE DEF R
<1>3. PICK m \in T : \A n \in T : ~ (<<n, m>> \in R)
  BY <1>1, WFMin
<1>4. \A n \in T : ~ (n < m)
  BY <1>2, <1>3
<1> QED
  BY <1>4

LEMMA Places ==
  ASSUME NEW n \in Nat, NEW T, 0 \in T, \A i \in 1 .. n : i - 1 \in T => i \in T
  PROVE  0 .. n \subseteq T
<1> SUFFICES ASSUME (0 .. n) \ T # {} PROVE FALSE
  OBVIOUS
<1>0. (0 .. n) \ T \subseteq Nat
  OBVIOUS
<1>1. PICK m \in (0 .. n) \ T : \A k \in (0 .. n) \ T : m <= k
  BY <1>0, Least
<1>2. m \in 1 .. n /\ m - 1 \in 0 .. n
  BY <1>1
<1>3. m - 1 \in T
  BY <1>1, <1>2
<1> QED
  BY <1>1, <1>2, <1>3

(* f starts with a and goes on with step.                                  *)
Follows(f, a, step, n, S) ==
  /\ f \in [0 .. n -> S] /\ f[0] = a
  /\ \A i \in 1 .. n : f[i] = step[<<i, f[i - 1]>>]

LEMMA FollowsExists ==
  ASSUME NEW n \in Nat, NEW S, NEW a \in S, NEW step \in [(1 .. n) \X S -> S]
  PROVE  \E f : Follows(f, a, step, n, S)
<1> DEFINE T == {i \in 0 .. n : \E f : Follows(f, a, step, i, S)}
<1>1. 0 \in T
  <2>1. Follows([j \in 0 .. 0 |-> a], a, step, 0, S)
    BY DEF Follows
  <2> QED
    BY <2>1
<1>2. ASSUME NEW i \in 1 .. n, i - 1 \in T PROVE i \in T
  <2>1. PICK f : Follows(f, a, step, i - 1, S)
    BY <1>2
  <2>2. /\ f \in [0 .. i - 1 -> S] /\ f[0] = a
        /\ \A j \in 1 .. i - 1 : f[j] = step[<<j, f[j - 1]>>]
    BY <2>1 DEF Follows
  <2> DEFINE g == [j \in 0 .. i |-> IF j = i THEN step[<<i, f[i - 1]>>] ELSE f[j]]
  <2>3. step[<<i, f[i - 1]>>] \in S
    BY <2>2
  <2>4. g \in [0 .. i -> S] /\ g[0] = a
    BY <2>2, <2>3
  <2>5. ASSUME NEW j \in 1 .. i PROVE g[j] = step[<<j, g[j - 1]>>]
    <3>1. j - 1 \in 0 .. i /\ j - 1 # i /\ j \in 0 .. i
      OBVIOUS
    <3>4. g[j - 1] = f[j - 1]
      BY <3>1
    <3>2. CASE j = i
      <4>1. g[j] = step[<<i, f[i - 1]>>]
        BY <3>1, <3>2
      <4> HIDE DEF g
      <4> QED
        BY <3>2, <3>4, <4>1
    <3>3. CASE j # i
      <4>1. g[j] = f[j] /\ j \in 1 .. i - 1
        BY <3>1, <3>3
      <4> HIDE DEF g
      <4> QED
        BY <2>2, <3>4, <4>1
    <3> QED
      BY <3>2, <3>3
  <2>6. Follows(g, a, step, i, S)
    BY <2>4, <2>5 DEF Follows
  <2> QED
    BY <2>6
<1> HIDE DEF T
<1>3. n \in T
  BY <1>1, <1>2, Places
<1> QED
  BY <1>3 DEF T

----------------------------------------------------------------------------
(* Items and relations of a collection.                                    *)

(* The keys of the first n items.                                          *)
FirstKeys(s, n) == {s[i].key : i \in 1 .. n}
NoTwo(s) == \A i, j \in 1 .. Len(s) : s[i].key = s[j].key => i = j

LEMMA AppendItem ==
  ASSUME NEW s \in Seq(Items), NEW it \in Items
  PROVE  LET w == Append(s, it) IN
         /\ w \in Seq(Items) /\ Len(w) = Len(s) + 1
         /\ FirstKeys(w, Len(w)) = FirstKeys(s, Len(s)) \cup {it.key}
         /\ NoTwo(s) /\ it.key \notin FirstKeys(s, Len(s)) => NoTwo(w)
<1> DEFINE w == Append(s, it)
<1>1. /\ w \in Seq(Items) /\ Len(w) = Len(s) + 1 /\ Len(s) \in Nat
      /\ w[Len(s) + 1] = it /\ \A j \in 1 .. Len(s) : w[j] = s[j]
  OBVIOUS
<1> HIDE DEF w
<1>2. /\ \A j \in 1 .. Len(w) : j = Len(s) + 1 \/ j \in 1 .. Len(s)
      /\ \A j \in 1 .. Len(s) : j \in 1 .. Len(w)
      /\ Len(s) + 1 \in 1 .. Len(w)
  BY <1>1
<1>3. FirstKeys(w, Len(w)) = FirstKeys(s, Len(s)) \cup {it.key}
  BY <1>1, <1>2 DEF FirstKeys
<1>4. ASSUME NoTwo(s), it.key \notin FirstKeys(s, Len(s)) PROVE NoTwo(w)
  <2>1. \A j \in 1 .. Len(s) : s[j].key # it.key
    BY <1>4 DEF FirstKeys
  <2> QED
    BY <1>1, <1>2, <1>4, <2>1 DEF NoTwo
<1> QED
  BY <1>1, <1>3, <1>4 DEF w

(* What is left of the items of s when those with key k are taken out.     *)
LEMMA WithoutIs ==
  ASSUME NEW s \in Seq(Items), NEW k
  PROVE  LET w == Without(s, k) IN
         /\ w \in Seq(Items) /\ Len(w) <= Len(s)
         /\ FirstKeys(w, Len(w)) = FirstKeys(s, Len(s)) \ {k}
         /\ NoTwo(s) => NoTwo(w)
<1> DEFINE kept[i \in 0 .. Len(s)] ==
      IF i = 0 THEN <<>>
      ELSE IF s[i].key = k THEN kept[i - 1] ELSE Append(kept[i - 1], s[i])
    step == [p \in (1 .. Len(s)) \X Seq(Items) |->
               IF s[p[1]].key = k THEN p[2] ELSE Append(p[2], s[p[1]])]
<1>1. Len(s) \in Nat /\ \A i \in 1 .. Len(s) : s[i] \in Items
  OBVIOUS
<1>2. step \in [(1 .. Len(s)) \X Seq(Items) -> Seq(Items)] /\ <<>> \in Seq(Items)
  BY <1>1
<1>3. PICK f : Follows(f, <<>>, step, Len(s), Seq(Items))
  <2> HIDE DEF step
  <2> QED
    BY <1>1, <1>2, FollowsExists
<1>4. f = [i \in 0 .. Len(s) |->
             IF i = 0 THEN <<>> ELSE IF s[i].key = k THEN f[i - 1] ELSE Append(f[i - 1], s[i])]
  <2>1. ASSUME NEW i \in 0 .. Len(s), i # 0
        PROVE  f[i] = IF s[i].key = k THEN f[i - 1] ELSE Append(f[i - 1], s[i])
    <3>1. i \in 1 .. Len(s) /\ i - 1 \in 0 .. Len(s)
      BY <1>1, <2>1
    <3>2. f[i - 1] \in Seq(Items) /\ f[i] = step[<<i, f[i - 1]>>]
      <4> HIDE DEF step
      <4> QED
        BY <1>3, <3>1 DEF Follows
    <3> QED
      BY <3>1, <3>2
  <2>2. f[0] = <<>> /\ f = [i \in 0 .. Len(s) |-> f[i]]
    BY <1>3 DEF Follows
  <2> QED
    BY <2>1, <2>2
<1>5. kept = [i \in 0 .. Len(s) |->
             IF i = 0 THEN <<>>
             ELSE IF s[i].key = k THEN kept[i - 1] ELSE Append(kept[i - 1], s[i])]
  BY <1>4
<1>6. Without(s, k) = kept[Len(s)]
  BY DEF Without
<1>7. kept[0] = <<>>
  <2>1. 0 \in 0 .. Len(s)
    BY <1>1
  <2> HIDE DEF kept
  <2> QED
    BY <2>1, <1>5
<1>8. \A i \in 1 .. Len(s) :
        kept[i] = IF s[i].key = k THEN kept[i - 1] ELSE Append(kept[i - 1], s[i])
  <2>1. \A i \in 1 .. Len(s) : i \in 0 .. Len(s) /\ i # 0
    BY <1>1
  <2> HIDE DEF kept
  <2> QED
    BY <2>1, <1>5
<1> HIDE DEF kept, step
<1> DEFINE Good(i) == /\ kept[i] \in Seq(Items) /\ Len(kept[i]) <= i
                      /\ FirstKeys(kept[i], Len(kept[i])) = FirstKeys(s, i) \ {k}
                      /\ NoTwo(s) => NoTwo(kept[i])
           T == {i \in 0 .. Len(s) : Good(i)}
<1>9. 0 \in T
  <2>1. FirstKeys(s, 0) = {} /\ FirstKeys(<<>>, Len(<<>>)) = {} /\ NoTwo(<<>>)
    BY DEF FirstKeys, NoTwo
  <2>2. <<>> \in Seq(Items) /\ Len(<<>>) <= 0
    OBVIOUS
  <2>3. FirstKeys(<<>>, Len(<<>>)) = FirstKeys(s, 0) \ {k}
    BY <2>1
  <2>4. Good(0)
    BY <1>7, <2>1, <2>2, <2>3, Zenon
  <2>5. 0 \in 0 .. Len(s)
    BY <1>1
  <2> QED
    BY <2>4, <2>5
<1>10. ASSUME NEW i \in 1 .. Len(s), i - 1 \in T PROVE i \in T
  <2> DEFINE w == kept[i - 1]
             v == kept[i]
  <2>1. /\ w \in Seq(Items) /\ Len(w) <= i - 1
        /\ FirstKeys(w, Len(w)) = FirstKeys(s, i - 1) \ {k}
        /\ NoTwo(s) => NoTwo(w)
    BY <1>10
  <2>2. v = IF s[i].key = k THEN w ELSE Append(w, s[i])
    BY <1>8
  <2>3. s[i] \in Items /\ i \in 0 .. Len(s) /\ i \in Nat
    BY <1>1
  <2>4. FirstKeys(s, i) = FirstKeys(s, i - 1) \cup {s[i].key}
    <3>1. \A j \in 1 .. i : j = i \/ j \in 1 .. i - 1
      BY <2>3
    <3>2. \A j \in 1 .. i - 1 : j \in 1 .. i
      BY <2>3
    <3>3. i \in 1 .. i
      BY <2>3, <1>1
    <3> QED
      BY <3>1, <3>2, <3>3 DEF FirstKeys
  <2> HIDE DEF w, v
  <2>5. CASE s[i].key = k
    BY <2>1, <2>2, <2>3, <2>4, <2>5 DEF v
  <2>6. CASE s[i].key # k
    <3>1. v = Append(w, s[i])
      BY <2>2, <2>6
    <3>2. /\ v \in Seq(Items) /\ Len(v) = Len(w) + 1 /\ Len(w) \in Nat
          /\ FirstKeys(v, Len(v)) = FirstKeys(w, Len(w)) \cup {s[i].key}
          /\ NoTwo(w) /\ s[i].key \notin FirstKeys(w, Len(w)) => NoTwo(v)
      BY <2>1, <2>3, <3>1, AppendItem
    <3>3. Len(v) <= i
      BY <2>1, <2>3, <3>2
    <3>8. FirstKeys(v, Len(v)) = FirstKeys(s, i) \ {k}
      BY <2>1, <2>4, <2>6, <3>2
    <3>9. ASSUME NoTwo(s) PROVE NoTwo(v)
      <4>1. NoTwo(w)
        BY <2>1, <3>9
      <4>2. \A j \in 1 .. i - 1 : s[j].key # s[i].key
        BY <1>1, <3>9 DEF NoTwo
      <4>3. s[i].key \notin FirstKeys(w, Len(w))
        BY <2>1, <4>2 DEF FirstKeys
      <4> QED
        BY <3>2, <4>1, <4>3
    <3> QED
      BY <2>3, <3>2, <3>3, <3>8, <3>9 DEF v
  <2> QED
    BY <2>5, <2>6
<1> HIDE DEF T
<1>11. Len(s) \in T
  <2>1. 0 .. Len(s) \subseteq T
    BY <1>1, <1>9, <1>10, Places
  <2> QED
    BY <1>1, <2>1
<1>12. Good(Len(s))
  BY <1>11 DEF T
<1> QED
  BY <1>6, <1>12
----------------------------------------------------------------------------
(* One op of a batch.                                                      *)

LEMMA Parts ==
  ASSUME NEW c \in Collections
  PROVE  /\ c.items \in Seq(Items) /\ c.relations \subseteq Relations /\ c.details \in Nat
         /\ Len(c.items) \in Nat
         /\ \A i \in 1 .. Len(c.items) : c.items[i] \in Items
         /\ KeysOf(c) = FirstKeys(c.items, Len(c.items)) /\ KeysOf(c) \subseteq ItemKeys
         /\ Distinct(c) <=> NoTwo(c.items)
         /\ \A s \in Seq(Items) : [c EXCEPT !.items = s]
                                    = [items |-> s, relations |-> c.relations, details |-> c.details]
<1>1. c.items \in Seq(Items) /\ c.relations \subseteq Relations /\ c.details \in Nat
  BY DEF Collections
<1>2. Len(c.items) \in Nat /\ \A i \in 1 .. Len(c.items) : c.items[i] \in Items
  BY <1>1
<1>3. \A i \in 1 .. Len(c.items) : c.items[i].key \in ItemKeys
  BY <1>2 DEF Items
<1>4. KeysOf(c) = FirstKeys(c.items, Len(c.items)) /\ KeysOf(c) \subseteq ItemKeys
  BY <1>3 DEF KeysOf, FirstKeys
<1>5. Distinct(c) <=> NoTwo(c.items)
  BY DEF Distinct, NoTwo
<1>6. \A s \in Seq(Items) : [c EXCEPT !.items = s]
                            = [items |-> s, relations |-> c.relations, details |-> c.details]
  BY DEF Collections
<1> QED
  BY <1>1, <1>2, <1>4, <1>5, <1>6

(* What op number index of batch k makes of collection c: a collection, a  *)
(* consistent one if c is, with no other new keys than those that clients  *)
(* give and the one that is minted of k and index.                         *)
Edited(c, d, k, index) ==
  /\ d \in Collections
  /\ Consistent(c) => Consistent(d)
  /\ \A key \in KeysOf(d) : \/ key \in KeysOf(c)
                            \/ key[2] = 0
                            \/ key[2] = k /\ key[3] = index
  /\ Distinct(c) /\ (\A key \in KeysOf(c) : key[2] = k => key[3] < index) => Distinct(d)

LEMMA Unedited ==
  ASSUME NEW c \in Collections, NEW k, NEW index
  PROVE  Edited(c, c, k, index)
  BY DEF Edited

LEMMA KeyTyped ==
  ASSUME NEW name \in Names, NEW k \in Nat, NEW index \in Nat
  PROVE  /\ ItemKey(name) \in ItemKeys /\ ItemKey(name)[2] = 0
         /\ <<name, k, index>> \in ItemKeys
         /\ <<name, k, index>>[2] = k /\ <<name, k, index>>[3] = index
  BY DEF ItemKey, ItemKeys

(* Other items, and the relations between them.                            *)
Reworked(c, s, rs, k, index) ==
  /\ s \in Seq(Items) /\ rs \subseteq c.relations
  /\ Len(c.items) <= ItemLimit => Len(s) <= ItemLimit
  /\ \A r \in rs : {r.from, r.to} \subseteq KeysOf(c) =>
                     {r.from, r.to} \subseteq FirstKeys(s, Len(s))
  /\ \A key \in FirstKeys(s, Len(s)) : \/ key \in KeysOf(c)
                                       \/ key[2] = 0
                                       \/ key[2] = k /\ key[3] = index
  /\ Distinct(c) /\ (\A key \in KeysOf(c) : key[2] = k => key[3] < index) => NoTwo(s)

LEMMA EditedItems ==
  ASSUME NEW c \in Collections, NEW k, NEW index, NEW s, NEW rs, Reworked(c, s, rs, k, index)
  PROVE  Edited(c, [items |-> s, relations |-> rs, details |-> c.details], k, index)
<1> DEFINE d == [items |-> s, relations |-> rs, details |-> c.details]
<1>1. d \in Collections
  BY Parts DEF Collections, Reworked
<1>2. d.items = s /\ d.relations = rs
  OBVIOUS
<1> HIDE DEF d
<1>3. KeysOf(d) = FirstKeys(s, Len(s)) /\ (Distinct(d) <=> NoTwo(s))
  BY <1>2 DEF KeysOf, FirstKeys, Distinct, NoTwo
<1>4. Consistent(c) => Consistent(d)
  BY <1>2, <1>3 DEF Consistent, Reworked
<1> QED
  BY <1>1, <1>3, <1>4 DEF Edited, d, Reworked

LEMMA AddItemEdits ==
  ASSUME NEW c \in Collections, NEW k \in Nat \ {0}, NEW index \in Nat \ {0},
         NEW op \in [type : {"addItem"}, name : Names, named : BOOLEAN]
  PROVE  Edited(c, AddItem(c, op, k, index), k, index)
<1> DEFINE key == StoredKey(op, k, index)
           it  == [key |-> key, val |-> 0]
           s   == Append(c.items, it)
<1>1. CASE ItemKey(op.name) \in KeysOf(c) \/ Len(c.items) >= ItemLimit
  BY <1>1, Unedited DEF AddItem
<1>2. CASE ~(ItemKey(op.name) \in KeysOf(c) \/ Len(c.items) >= ItemLimit)
  <2>1. op.name \in Names
    OBVIOUS
  <2>2. /\ key \in ItemKeys
        /\ key = ItemKey(op.name) \/ (key[2] = k /\ key[3] = index)
        /\ key[2] = 0 \/ (key[2] = k /\ key[3] = index)
    BY <2>1, KeyTyped DEF StoredKey
  <2> HIDE DEF key
  <2>3. it \in Items /\ it.key = key
    BY <2>2 DEF Items
  <2>4. c.items \in Seq(Items) /\ Len(c.items) \in Nat /\ KeysOf(c) = FirstKeys(c.items, Len(c.items))
    BY Parts
  <2> HIDE DEF it
  <2>5. /\ s \in Seq(Items) /\ Len(s) = Len(c.items) + 1
        /\ FirstKeys(s, Len(s)) = KeysOf(c) \cup {key}
        /\ NoTwo(c.items) /\ key \notin KeysOf(c) => NoTwo(s)
    BY <2>3, <2>4, AppendItem
  <2> HIDE DEF s
  <2>6. AddItem(c, op, k, index) = [items |-> s, relations |-> c.relations, details |-> c.details]
    <3>1. AddItem(c, op, k, index) = [c EXCEPT !.items = s]
      BY <1>2 DEF AddItem, s, it, key
    <3> QED
      BY <2>5, <3>1, Parts
  <2>7. Len(s) <= ItemLimit
    BY <1>2, <2>4, <2>5, LimitsAssumption
  <2>8. ASSUME Distinct(c), \A q \in KeysOf(c) : q[2] = k => q[3] < index
        PROVE  NoTwo(s)
    <3>1. NoTwo(c.items)
      BY <2>8, Parts
    <3>2. key \notin KeysOf(c)
      <4>1. CASE key = ItemKey(op.name)
        BY <1>2, <4>1
      <4>2. CASE key[2] = k /\ key[3] = index
        BY <2>8, <4>2
      <4> QED
        BY <2>2, <4>1, <4>2
    <3> QED
      BY <2>5, <3>1, <3>2
  <2>9. c.details \in Nat /\ c.relations \subseteq c.relations
    BY Parts
  <2>10. \A q \in FirstKeys(s, Len(s)) :
           q \in KeysOf(c) \/ q[2] = 0 \/ (q[2] = k /\ q[3] = index)
    BY <2>2, <2>5
  <2>11. \A r \in c.relations : {r.from, r.to} \subseteq KeysOf(c) =>
                                {r.from, r.to} \subseteq FirstKeys(s, Len(s))
    BY <2>5
  <2>12. Edited(c, [items |-> s, relations |-> c.relations, details |-> c.details], k, index)
    <3>1. Reworked(c, s, c.relations, k, index)
      BY <2>5, <2>7, <2>8, <2>9, <2>10, <2>11 DEF Reworked
    <3> QED
      BY <3>1, EditedItems
  <2> QED
    BY <2>6, <2>12
<1> QED
  BY <1>1, <1>2

LEMMA UpdateItemEdits ==
  ASSUME NEW c \in Collections, NEW k, NEW index,
         NEW op \in [type : {"updateItem"}, name : Names, val : Nat]
  PROVE  Edited(c, UpdateItem(c, op), k, index)
<1> DEFINE s == [i \in 1 .. Len(c.items) |->
                   IF c.items[i].key = ItemKey(op.name) THEN [c.items[i] EXCEPT !.val = op.val]
                   ELSE c.items[i]]
<1>1. /\ Len(c.items) \in Nat /\ op.val \in Nat
      /\ \A i \in 1 .. Len(c.items) : c.items[i] \in Items
      /\ KeysOf(c) = FirstKeys(c.items, Len(c.items))
      /\ c.details \in Nat /\ (Distinct(c) <=> NoTwo(c.items))
  BY Parts
<1>2. \A it \in Items : /\ [it EXCEPT !.val = op.val] \in Items
                       /\ [it EXCEPT !.val = op.val].key = it.key
  BY <1>1 DEF Items
<1>3. \A i \in 1 .. Len(c.items) : s[i] \in Items /\ s[i].key = c.items[i].key
  BY <1>1, <1>2
<1>4. s \in Seq(Items) /\ Len(s) = Len(c.items)
  <2>1. s \in [1 .. Len(c.items) -> Items]
    BY <1>3
  <2> HIDE DEF s
  <2> QED
    BY <1>1, <2>1
<1>5. UpdateItem(c, op) = [items |-> s, relations |-> c.relations, details |-> c.details]
  <2>1. UpdateItem(c, op) = [c EXCEPT !.items = s]
    BY DEF UpdateItem
  <2> HIDE DEF s
  <2> QED
    BY <1>4, <2>1, Parts
<1> HIDE DEF s
<1>6. FirstKeys(s, Len(s)) = KeysOf(c)
  BY <1>1, <1>3, <1>4 DEF FirstKeys
<1>7. NoTwo(c.items) => NoTwo(s)
  BY <1>3, <1>4 DEF NoTwo
<1>8. \A r \in c.relations : {r.from, r.to} \subseteq KeysOf(c) =>
                              {r.from, r.to} \subseteq FirstKeys(s, Len(s))
  BY <1>6
<1>9. \A q \in FirstKeys(s, Len(s)) : q \in KeysOf(c) \/ q[2] = 0 \/ (q[2] = k /\ q[3] = index)
  BY <1>6
<1>10. Edited(c, [items |-> s, relations |-> c.relations, details |-> c.details], k, index)
  <2>1. Reworked(c, s, c.relations, k, index)
    BY <1>1, <1>4, <1>7, <1>8, <1>9 DEF Reworked
  <2> QED
    BY <2>1, EditedItems
<1> QED
  BY <1>5, <1>10

LEMMA RemoveItemEdits ==
  ASSUME NEW c \in Collections, NEW k, NEW index,
         NEW op \in [type : {"removeItem"}, name : Names]
  PROVE  Edited(c, RemoveItem(c, op), k, index)
<1> DEFINE key == ItemKey(op.name)
           s   == Without(c.items, key)
           rs  == {r \in c.relations : key \notin {r.from, r.to}}
<1>1. /\ Len(c.items) \in Nat /\ c.items \in Seq(Items) /\ c.details \in Nat
      /\ KeysOf(c) = FirstKeys(c.items, Len(c.items))
      /\ (Distinct(c) <=> NoTwo(c.items))
  BY Parts
<1> HIDE DEF key
<1>2. /\ s \in Seq(Items) /\ Len(s) <= Len(c.items)
      /\ FirstKeys(s, Len(s)) = KeysOf(c) \ {key}
      /\ NoTwo(c.items) => NoTwo(s)
  BY <1>1, WithoutIs
<1>10. RemoveItem(c, op) = [c EXCEPT !.items = s, !.relations = rs]
  BY DEF RemoveItem, key
<1> HIDE DEF s, rs
<1>3. RemoveItem(c, op) = [items |-> s, relations |-> rs, details |-> c.details]
  BY <1>10 DEF Collections
<1> USE DEF rs
<1>4. Len(s) \in Nat
  BY <1>2
<1>5. rs \subseteq c.relations
  OBVIOUS
<1>6. \A r \in rs : {r.from, r.to} \subseteq KeysOf(c) => {r.from, r.to} \subseteq FirstKeys(s, Len(s))
  BY <1>2
<1> HIDE DEF rs
<1>7. Len(c.items) <= ItemLimit => Len(s) <= ItemLimit
  BY <1>1, <1>2, <1>4, LimitsAssumption
<1>8. \A q \in FirstKeys(s, Len(s)) : q \in KeysOf(c) \/ q[2] = 0 \/ (q[2] = k /\ q[3] = index)
  BY <1>2
<1>9. Reworked(c, s, rs, k, index)
  BY <1>1, <1>2, <1>5, <1>6, <1>7, <1>8 DEF Reworked
<1> QED
  BY <1>3, <1>9, EditedItems

(* The relations and the details.                                          *)
LEMMA EditedRest ==
  ASSUME NEW c \in Collections, NEW d \in Collections, NEW k, NEW index,
         d.items = c.items,
         \A r \in d.relations \ c.relations : {r.from, r.to} \subseteq KeysOf(c)
  PROVE  Edited(c, d, k, index)
<1>1. KeysOf(d) = KeysOf(c) /\ (Distinct(d) <=> Distinct(c))
  BY DEF KeysOf, Distinct
<1>2. Consistent(c) => Consistent(d)
  BY <1>1 DEF Consistent
<1> QED
  BY <1>1, <1>2 DEF Edited

LEMMA AddRelationEdits ==
  ASSUME NEW c \in Collections, NEW k, NEW index,
         NEW op \in [type : {"addRelation"}, id : RelationIds, from : Names, to : Names]
  PROVE  Edited(c, AddRelation(c, op), k, index)
<1> DEFINE d == AddRelation(c, op)
           r == [id |-> op.id, from |-> ItemKey(op.from), to |-> ItemKey(op.to)]
<1>1. CASE d = c
  BY <1>1, Unedited
<1>2. CASE d # c
  <2>1. /\ {ItemKey(op.from), ItemKey(op.to)} \subseteq KeysOf(c)
        /\ d = [c EXCEPT !.relations = @ \cup {r}]
    BY <1>2 DEF AddRelation
  <2>2. r \in Relations /\ {r.from, r.to} \subseteq KeysOf(c)
    <3>1. ItemKey(op.from) \in ItemKeys /\ ItemKey(op.to) \in ItemKeys
      BY <2>1, Parts
    <3> QED
      BY <2>1, <3>1 DEF Relations
  <2> HIDE DEF r, d
  <2>3. d \in Collections /\ d.items = c.items /\ d.relations = c.relations \cup {r}
    BY <2>1, <2>2 DEF Collections
  <2> QED
    BY <2>2, <2>3, EditedRest DEF d
<1> QED
  BY <1>1, <1>2

LEMMA ApplyOpEdits ==
  ASSUME NEW c \in Collections, NEW op \in Ops, NEW k \in Nat \ {0}, NEW index \in Nat \ {0}
  PROVE  Edited(c, ApplyOp(c, op, k, index), k, index)
<1>1. CASE op \in [type : {"addItem"}, name : Names, named : BOOLEAN]
  <2>1. ApplyOp(c, op, k, index) = AddItem(c, op, k, index)
    BY <1>1 DEF ApplyOp
  <2> QED
    BY <1>1, <2>1, AddItemEdits
<1>2. CASE op \in [type : {"updateItem"}, name : Names, val : Nat]
  <2>1. ApplyOp(c, op, k, index) = UpdateItem(c, op)
    BY <1>2 DEF ApplyOp
  <2> QED
    BY <1>2, <2>1, UpdateItemEdits
<1>3. CASE op \in [type : {"removeItem"}, name : Names]
  <2>1. ApplyOp(c, op, k, index) = RemoveItem(c, op)
    BY <1>3 DEF ApplyOp
  <2> QED
    BY <1>3, <2>1, RemoveItemEdits
<1>4. CASE op \in [type : {"addRelation"}, id : RelationIds, from : Names, to : Names]
  <2>1. ApplyOp(c, op, k, index) = AddRelation(c, op)
    BY <1>4 DEF ApplyOp
  <2> QED
    BY <1>4, <2>1, AddRelationEdits
<1>5. CASE op \in [type : {"removeRelation"}, id : RelationIds]
  <2> DEFINE rs == {r \in c.relations : r.id # op.id}
  <2>1. ApplyOp(c, op, k, index) = [c EXCEPT !.relations = rs]
    BY <1>5 DEF ApplyOp, RemoveRelation
  <2>2. rs \subseteq c.relations
    OBVIOUS
  <2> HIDE DEF rs
  <2>3. /\ [c EXCEPT !.relations = rs] \in Collections
        /\ [c EXCEPT !.relations = rs].items = c.items
        /\ [c EXCEPT !.relations = rs].relations = rs
    BY <2>2 DEF Collections
  <2> QED
    BY <2>1, <2>2, <2>3, EditedRest
<1>6. CASE op \in [type : {"updateDetails"}, val : Nat]
  <2>1. ApplyOp(c, op, k, index) = [c EXCEPT !.details = op.val]
    BY <1>6 DEF ApplyOp
  <2>2. /\ [c EXCEPT !.details = op.val] \in Collections
        /\ [c EXCEPT !.details = op.val].items = c.items
        /\ [c EXCEPT !.details = op.val].relations = c.relations
    BY <1>6 DEF Collections
  <2> QED
    BY <2>1, <2>2, EditedRest
<1> QED
  BY <1>1, <1>2, <1>3, <1>4, <1>5, <1>6 DEF Ops
----------------------------------------------------------------------------
(* A batch.                                                                *)

LEMMA BatchEdits ==
  ASSUME NEW c \in Collections, NEW b \in Seq(Ops), NEW k \in Nat \ {0}
  PROVE  LET d == ApplyCollectionOps(c, b, k) IN
         /\ d \in Collections
         /\ Consistent(c) => Consistent(d)
         /\ \A key \in KeysOf(d) : key \in KeysOf(c) \/ key[2] = 0 \/ key[2] = k
         /\ Distinct(c) /\ (\A key \in KeysOf(c) : key[2] # k) => Distinct(d)
<1> DEFINE after[i \in 0 .. Len(b)] ==
      IF i = 0 THEN c ELSE ApplyOp(after[i - 1], b[i], k, i)
    step == [p \in (1 .. Len(b)) \X Collections |-> ApplyOp(p[2], b[p[1]], k, p[1])]
<1>1. Len(b) \in Nat /\ \A i \in 1 .. Len(b) : b[i] \in Ops /\ i \in Nat \ {0}
  OBVIOUS
<1>2. \A i \in 1 .. Len(b), e \in Collections : Edited(e, ApplyOp(e, b[i], k, i), k, i)
  BY <1>1, ApplyOpEdits
<1>3. step \in [(1 .. Len(b)) \X Collections -> Collections]
  <2>1. \A i \in 1 .. Len(b), e \in Collections : ApplyOp(e, b[i], k, i) \in Collections
    BY <1>2 DEF Edited
  <2> QED
    BY <2>1
<1>4. PICK f : Follows(f, c, step, Len(b), Collections)
  <2> HIDE DEF step
  <2> QED
    BY <1>1, <1>3, FollowsExists
<1>5. f = [i \in 0 .. Len(b) |-> IF i = 0 THEN c ELSE ApplyOp(f[i - 1], b[i], k, i)]
  <2>1. ASSUME NEW i \in 0 .. Len(b), i # 0
        PROVE  f[i] = ApplyOp(f[i - 1], b[i], k, i)
    <3>1. i \in 1 .. Len(b) /\ i - 1 \in 0 .. Len(b)
      BY <1>1, <2>1
    <3>2. f[i - 1] \in Collections /\ f[i] = step[<<i, f[i - 1]>>]
      <4> HIDE DEF step
      <4> QED
        BY <1>4, <3>1 DEF Follows
    <3> QED
      BY <3>1, <3>2
  <2>2. f[0] = c /\ f = [i \in 0 .. Len(b) |-> f[i]]
    BY <1>4 DEF Follows
  <2> QED
    BY <2>1, <2>2
<1>6. after = [i \in 0 .. Len(b) |-> IF i = 0 THEN c ELSE ApplyOp(after[i - 1], b[i], k, i)]
  BY <1>5
<1>7. ApplyCollectionOps(c, b, k) = after[Len(b)]
  BY DEF ApplyCollectionOps
<1> HIDE DEF after, step
<1>8. after[0] = c
  <2>1. 0 \in 0 .. Len(b)
    BY <1>1
  <2> QED
    BY <2>1, <1>6
<1>9. \A i \in 1 .. Len(b) : after[i] = ApplyOp(after[i - 1], b[i], k, i)
  <2>1. \A i \in 1 .. Len(b) : i \in 0 .. Len(b) /\ i # 0
    BY <1>1
  <2> QED
    BY <2>1, <1>6
<1> DEFINE Fresh == Distinct(c) /\ \A key \in KeysOf(c) : key[2] # k
           Good(i) == /\ after[i] \in Collections
                      /\ Consistent(c) => Consistent(after[i])
                      /\ \A key \in KeysOf(after[i]) :
                           key \in KeysOf(c) \/ key[2] = 0 \/ (key[2] = k /\ key[3] <= i)
                      /\ Fresh => Distinct(after[i])
           T == {i \in 0 .. Len(b) : Good(i)}
<1>10. 0 \in T
  <2>1. 0 \in 0 .. Len(b)
    BY <1>1
  <2>2. Good(0)
    BY <1>8
  <2> QED
    BY <2>1, <2>2
<1>11. ASSUME NEW i \in 1 .. Len(b), i - 1 \in T PROVE i \in T
  <2> DEFINE d == after[i - 1]
             e == after[i]
  <2>1. Good(i - 1) /\ i \in 0 .. Len(b) /\ i \in Nat /\ i - 1 \in Nat
    BY <1>1, <1>11
  <2>2. /\ d \in Collections
        /\ Consistent(c) => Consistent(d)
        /\ \A key \in KeysOf(d) : key \in KeysOf(c) \/ key[2] = 0 \/ (key[2] = k /\ key[3] <= i - 1)
        /\ Fresh => Distinct(d)
    BY <2>1
  <2>3. Edited(d, e, k, i)
    BY <1>2, <1>9, <2>2
  <2> HIDE DEF d, e
  <2>4. /\ e \in Collections
        /\ Consistent(d) => Consistent(e)
        /\ \A key \in KeysOf(e) : key \in KeysOf(d) \/ key[2] = 0 \/ (key[2] = k /\ key[3] = i)
        /\ Distinct(d) /\ (\A key \in KeysOf(d) : key[2] = k => key[3] < i) => Distinct(e)
    BY <2>3 DEF Edited
  <2>5. \A key \in KeysOf(d) : key[3] \in Nat
    BY <2>2, Parts DEF ItemKeys
  <2>6. \A key \in KeysOf(e) : key \in KeysOf(c) \/ key[2] = 0 \/ (key[2] = k /\ key[3] <= i)
    <3>1. \A key \in KeysOf(d) : key[3] <= i - 1 => key[3] <= i
      BY <2>1, <2>5
    <3>2. i <= i
      BY <2>1
    <3> QED
      BY <2>2, <2>4, <3>1, <3>2
  <2>7. ASSUME Fresh PROVE Distinct(e)
    <3>1. \A key \in KeysOf(d) : key[2] = k => key[3] <= i - 1
      BY <2>2, <2>7
    <3>2. \A key \in KeysOf(d) : key[3] <= i - 1 => key[3] < i
      BY <2>1, <2>5
    <3> HIDE DEF Fresh
    <3> QED
      BY <2>2, <2>4, <2>7, <3>1, <3>2
  <2> HIDE DEF Fresh
  <2>8. Good(i)
    BY <2>2, <2>4, <2>6, <2>7 DEF e
  <2> QED
    BY <2>1, <2>8
<1>12. 0 .. Len(b) \subseteq T
  <2> HIDE DEF T
  <2> QED
    BY <1>1, <1>10, <1>11, Places
<1>13. Good(Len(b))
  BY <1>1, <1>12
<1> QED
  BY <1>7, <1>13

----------------------------------------------------------------------------
(* An operation of the log.                                                *)

Rows == Collections \cup {Absent}

(* A collection that is there keeps to the limits.                         *)
Sound(r) == r # Absent => Consistent(r)

IsReset(op) == op.method \in {"CREATE", "DELETE"}

LEMMA EmptyIsCollection ==
  EmptyCollection \in Collections /\ Consistent(EmptyCollection) /\ KeysOf(EmptyCollection) = {}
    /\ Distinct(EmptyCollection)
<1>1. EmptyCollection.items = <<>> /\ EmptyCollection.relations = {}
  BY DEF EmptyCollection
<1>2. <<>> \in Seq(Items) /\ Len(<<>>) = 0
  OBVIOUS
<1>3. EmptyCollection \in Collections
  BY <1>2 DEF EmptyCollection, Collections
<1> QED
  BY <1>1, <1>2, <1>3, LimitsAssumption DEF Consistent, KeysOf, Distinct

(* The payload of a creation is empty, that of an update any collection.   *)
LEMMA PayloadIs ==
  ASSUME NEW op \in Operations, op.method \in {"CREATE", "UPDATE"}
  PROVE  /\ op.payload \in Collections /\ op.payload # Absent
         /\ op.method = "CREATE" => op.payload = EmptyCollection
<1>1. /\ op.payload = EmptyCollection \/ op.payload \in Payloads
      /\ op.method = "CREATE" => op.payload = EmptyCollection
  BY DEF Operations
<1> QED
  BY <1>1, EmptyIsCollection, BsyncAssumption

LEMMA MethodIs ==
  ASSUME NEW op \in Operations
  PROVE  /\ op.method \in {"CREATE", "UPDATE", "DELETE", "OPS"}
         /\ op.method = "OPS" => op.batch \in Seq(Ops)
  BY BsyncAssumption DEF Operations

LEMMA IndexIs ==
  ASSUME NEW r \in Rows, NEW op \in Operations, NEW i \in Nat \ {0}
  PROVE  /\ Index(r, op, i) \in Rows
         /\ Sound(r) /\ (op.method = "UPDATE" => Consistent(op.payload))
              => Sound(Index(r, op, i))
         /\ IsReset(op) => \A q : Index(q, op, i) = Index(r, op, i)
         /\ op.method = "UPDATE" => Index(r, op, i) = IF r = Absent THEN Absent ELSE op.payload
         /\ ~IsReset(op) => (Index(r, op, i) = Absent <=> r = Absent)
         /\ op.method = "CREATE" => Index(r, op, i) = op.payload
         /\ op.method = "DELETE" => Index(r, op, i) = Absent
         /\ op.method = "OPS" => Index(r, op, i) = IF r = Absent THEN Absent
                                                  ELSE ApplyCollectionOps(r, op.batch, i)
<1>1. CASE op.method = "CREATE"
  <2>1. \A q : Index(q, op, i) = op.payload
    BY <1>1 DEF Index
  <2> QED
    BY <1>1, <2>1, PayloadIs, EmptyIsCollection DEF Rows, Sound, IsReset
<1>2. CASE op.method = "DELETE"
  <2>1. \A q : Index(q, op, i) = Absent
    BY <1>2 DEF Index
  <2> QED
    BY <1>2, <2>1 DEF Rows, Sound, IsReset
<1>3. CASE op.method = "UPDATE"
  <2>1. Index(r, op, i) = IF r = Absent THEN Absent ELSE op.payload
    BY <1>3 DEF Index
  <2> QED
    BY <1>3, <2>1, PayloadIs DEF Rows, Sound, IsReset
<1>4. CASE op.method = "OPS"
  <2>1. Index(r, op, i) = IF r = Absent THEN Absent ELSE ApplyCollectionOps(r, op.batch, i)
    BY <1>4 DEF Index
  <2>2. ASSUME r # Absent
        PROVE  /\ ApplyCollectionOps(r, op.batch, i) \in Collections
               /\ Consistent(r) => Consistent(ApplyCollectionOps(r, op.batch, i))
    BY <1>4, <2>2, MethodIs, BatchEdits DEF Rows
  <2>3. \A c \in Collections : c # Absent
    BY BsyncAssumption
  <2> QED
    BY <1>4, <2>1, <2>2, <2>3 DEF Rows, Sound, IsReset
<1> QED
  BY <1>1, <1>2, <1>3, <1>4, MethodIs
----------------------------------------------------------------------------
(* The fold of a log.                                                      *)

LEMMA UpToIs ==
  ASSUME NEW log \in Seq(Operations), NEW S
  PROVE  /\ \A i \in 0 .. Len(log) : UpTo(log, S)[i] \in Rows
         /\ UpTo(log, S)[0] = Absent
         /\ \A i \in 1 .. Len(log) :
              UpTo(log, S)[i] = IF i \in S THEN Index(UpTo(log, S)[i - 1], log[i], i)
                                ELSE UpTo(log, S)[i - 1]
<1> DEFINE after[i \in 0 .. Len(log)] ==
      IF i = 0 THEN Absent
      ELSE IF i \in S THEN Index(after[i - 1], log[i], i) ELSE after[i - 1]
    step == [p \in (1 .. Len(log)) \X Rows |->
               IF p[1] \in S THEN Index(p[2], log[p[1]], p[1]) ELSE p[2]]
<1>1. Len(log) \in Nat /\ \A i \in 1 .. Len(log) : log[i] \in Operations /\ i \in Nat \ {0}
  OBVIOUS
<1>2. Absent \in Rows
  BY DEF Rows
<1>3. step \in [(1 .. Len(log)) \X Rows -> Rows]
  <2>1. \A i \in 1 .. Len(log), r \in Rows : Index(r, log[i], i) \in Rows
    BY <1>1, IndexIs
  <2> QED
    BY <2>1
<1>4. PICK f : Follows(f, Absent, step, Len(log), Rows)
  <2> HIDE DEF step
  <2> QED
    BY <1>1, <1>2, <1>3, FollowsExists
<1>5. f = [i \in 0 .. Len(log) |->
             IF i = 0 THEN Absent ELSE IF i \in S THEN Index(f[i - 1], log[i], i) ELSE f[i - 1]]
  <2>1. ASSUME NEW i \in 0 .. Len(log), i # 0
        PROVE  f[i] = IF i \in S THEN Index(f[i - 1], log[i], i) ELSE f[i - 1]
    <3>1. i \in 1 .. Len(log) /\ i - 1 \in 0 .. Len(log)
      BY <1>1, <2>1
    <3>2. f[i - 1] \in Rows /\ f[i] = step[<<i, f[i - 1]>>]
      <4> HIDE DEF step
      <4> QED
        BY <1>4, <3>1 DEF Follows
    <3> QED
      BY <3>1, <3>2
  <2>2. f[0] = Absent /\ f = [i \in 0 .. Len(log) |-> f[i]]
    BY <1>4 DEF Follows
  <2> QED
    BY <2>1, <2>2
<1>6. after = [i \in 0 .. Len(log) |->
                 IF i = 0 THEN Absent
                 ELSE IF i \in S THEN Index(after[i - 1], log[i], i) ELSE after[i - 1]]
  BY <1>5
<1>7. UpTo(log, S) = after
  BY DEF UpTo
<1> HIDE DEF after, step
<1>8. after[0] = Absent
  <2>1. 0 \in 0 .. Len(log)
    BY <1>1
  <2> QED
    BY <2>1, <1>6
<1>9. \A i \in 1 .. Len(log) :
        after[i] = IF i \in S THEN Index(after[i - 1], log[i], i) ELSE after[i - 1]
  <2>1. \A i \in 1 .. Len(log) : i \in 0 .. Len(log) /\ i # 0
    BY <1>1
  <2> QED
    BY <2>1, <1>6
<1> DEFINE T == {i \in 0 .. Len(log) : after[i] \in Rows}
<1>10. 0 \in T
  BY <1>1, <1>2, <1>8
<1>11. ASSUME NEW i \in 1 .. Len(log), i - 1 \in T PROVE i \in T
  <2>1. after[i - 1] \in Rows /\ i \in 0 .. Len(log)
    BY <1>1, <1>11
  <2>2. Index(after[i - 1], log[i], i) \in Rows
    BY <1>1, <2>1, IndexIs
  <2>3. after[i] \in Rows
    BY <1>9, <2>1, <2>2
  <2> QED
    BY <2>1, <2>3
<1>12. 0 .. Len(log) \subseteq T
  <2> HIDE DEF T
  <2> QED
    BY <1>1, <1>10, <1>11, Places
<1>13. \A i \in 0 .. Len(log) : after[i] \in Rows
  BY <1>12
<1> QED
  BY <1>7, <1>8, <1>9, <1>13

(* Two folds that go through the same operations up to n are the same.     *)
LEMMA SameUpTo ==
  ASSUME NEW log \in Seq(Operations), NEW more \in Seq(Operations), NEW S, NEW R, NEW n \in Nat,
         n <= Len(log), n <= Len(more),
         \A i \in 1 .. n : log[i] = more[i] /\ (i \in S <=> i \in R)
  PROVE  UpTo(log, S)[n] = UpTo(more, R)[n]
<1> DEFINE f == UpTo(log, S)
           g == UpTo(more, R)
           T == {i \in 0 .. n : f[i] = g[i]}
<1>1. /\ f[0] = Absent /\ g[0] = Absent
      /\ \A i \in 1 .. Len(log) : f[i] = IF i \in S THEN Index(f[i - 1], log[i], i) ELSE f[i - 1]
      /\ \A i \in 1 .. Len(more) : g[i] = IF i \in R THEN Index(g[i - 1], more[i], i) ELSE g[i - 1]
  BY UpToIs
<1>2. Len(log) \in Nat /\ Len(more) \in Nat
  OBVIOUS
<1> HIDE DEF f, g
<1>3. 0 \in T
  BY <1>1
<1>4. ASSUME NEW i \in 1 .. n, i - 1 \in T PROVE i \in T
  <2>1. i \in 1 .. Len(log) /\ i \in 1 .. Len(more) /\ f[i - 1] = g[i - 1] /\ i \in 0 .. n
    BY <1>2, <1>4
  <2>2. f[i] = g[i]
    BY <1>1, <2>1
  <2> QED
    BY <2>1, <2>2
<1>5. 0 .. n \subseteq T
  <2> HIDE DEF T
  <2> QED
    BY <1>3, <1>4, Places
<1>6. f[n] = g[n]
  BY <1>5
<1> QED
  BY <1>6 DEF f, g

(* Where no operation is gone through, nothing changes.                    *)
LEMMA NoneBetween ==
  ASSUME NEW log \in Seq(Operations), NEW S, NEW m \in Nat, NEW n \in Nat,
         m <= n, n <= Len(log), \A i \in 1 .. Len(log) : i \in S /\ i <= n => i <= m
  PROVE  UpTo(log, S)[n] = UpTo(log, S)[m]
<1> DEFINE f == UpTo(log, S)
           T == {i \in 0 .. n : i >= m => f[i] = f[m]}
<1>1. \A i \in 1 .. Len(log) : f[i] = IF i \in S THEN Index(f[i - 1], log[i], i) ELSE f[i - 1]
  BY UpToIs
<1>2. Len(log) \in Nat
  OBVIOUS
<1> HIDE DEF f
<1>3. 0 \in T
  <2>1. 0 >= m => m = 0
    OBVIOUS
  <2> QED
    BY <2>1
<1>4. ASSUME NEW i \in 1 .. n, i - 1 \in T PROVE i \in T
  <2>1. i \in 1 .. Len(log) /\ i \in 0 .. n /\ (i - 1 >= m => f[i - 1] = f[m])
    BY <1>2, <1>4
  <2>2. CASE i = m
    BY <2>1, <2>2
  <2>3. CASE i > m
    <3>1. i - 1 >= m /\ i \notin S
      BY <2>1, <2>3
    <3> QED
      BY <1>1, <2>1, <3>1
  <2>4. CASE i < m
    BY <2>1, <2>4
  <2> QED
    BY <2>1, <2>2, <2>3, <2>4
<1>5. 0 .. n \subseteq T
  <2> HIDE DEF T
  <2> QED
    BY <1>3, <1>4, Places
<1>6. f[n] = f[m]
  BY <1>5
<1> QED
  BY <1>6 DEF f

(* The fold with one more operation, after all of the others.              *)
LEMMA OneMore ==
  ASSUME NEW log \in Seq(Operations), NEW S, NEW i \in 1 .. Len(log),
         \A j \in 1 .. Len(log) : j \in S => j < i
  PROVE  UpTo(log, S \cup {i})[Len(log)] = Index(UpTo(log, S)[Len(log)], log[i], i)
<1> DEFINE n == Len(log)
           R == S \cup {i}
<1>1. n \in Nat /\ i \in Nat /\ i - 1 \in Nat /\ i - 1 <= n /\ i <= n /\ i \in 1 .. n
  OBVIOUS
<1>2. UpTo(log, R)[n] = UpTo(log, R)[i]
  <2>1. \A j \in 1 .. n : j \in R /\ j <= n => j <= i
    BY <1>1
  <2> QED
    BY <1>1, <2>1, NoneBetween
<1>3. UpTo(log, S)[n] = UpTo(log, S)[i - 1]
  <2>1. \A j \in 1 .. n : j \in S /\ j <= n => j <= i - 1
    BY <1>1
  <2> QED
    BY <1>1, <2>1, NoneBetween
<1>4. UpTo(log, R)[i] = Index(UpTo(log, R)[i - 1], log[i], i)
  BY <1>1, UpToIs
<1>5. UpTo(log, R)[i - 1] = UpTo(log, S)[i - 1]
  <2>1. \A j \in 1 .. i - 1 : log[j] = log[j] /\ (j \in R <=> j \in S)
    BY <1>1
  <2> HIDE DEF R, n
  <2>2. i - 1 <= Len(log)
    BY <1>1 DEF n
  <2> QED
    BY <1>1, <2>1, <2>2, SameUpTo
<1> QED
  BY <1>2, <1>3, <1>4, <1>5

(* Updates create nothing and delete nothing.                              *)
LEMMA MoreUpdates ==
  ASSUME NEW log \in Seq(Operations), NEW S, NEW R, S \subseteq R,
         \A i \in 1 .. Len(log) : i \in R \ S => ~IsReset(log[i])
  PROVE  UpTo(log, R)[Len(log)] = Absent <=> UpTo(log, S)[Len(log)] = Absent
<1> DEFINE f == UpTo(log, S)
           g == UpTo(log, R)
           n == Len(log)
           T == {i \in 0 .. n : g[i] = Absent <=> f[i] = Absent}
<1>1. /\ f[0] = Absent /\ g[0] = Absent
      /\ \A i \in 0 .. n : f[i] \in Rows /\ g[i] \in Rows
      /\ \A i \in 1 .. n : f[i] = IF i \in S THEN Index(f[i - 1], log[i], i) ELSE f[i - 1]
      /\ \A i \in 1 .. n : g[i] = IF i \in R THEN Index(g[i - 1], log[i], i) ELSE g[i - 1]
  BY UpToIs
<1>2. n \in Nat /\ \A i \in 1 .. n : log[i] \in Operations
  OBVIOUS
<1> HIDE DEF f, g, n
<1>3. 0 \in T
  BY <1>1, <1>2
<1>4. ASSUME NEW i \in 1 .. n, i - 1 \in T PROVE i \in T
  <2>1. /\ i \in 0 .. n /\ i - 1 \in 0 .. n /\ i \in Nat \ {0}
        /\ g[i - 1] = Absent <=> f[i - 1] = Absent
    BY <1>2, <1>4
  <2>2. f[i - 1] \in Rows /\ g[i - 1] \in Rows /\ log[i] \in Operations
    BY <1>1, <1>2, <2>1
  <2>3. CASE IsReset(log[i])
    <3>1. Index(f[i - 1], log[i], i) = Index(g[i - 1], log[i], i)
      BY <2>1, <2>2, <2>3, IndexIs
    <3>2. i \in R <=> i \in S
      BY <1>2, <2>1, <2>3 DEF n
    <3>3. f[i] = (IF i \in S THEN Index(f[i - 1], log[i], i) ELSE f[i - 1])
          /\ g[i] = (IF i \in R THEN Index(g[i - 1], log[i], i) ELSE g[i - 1])
      BY <1>1
    <3> QED
      BY <2>1, <3>1, <3>2, <3>3
  <2>4. CASE ~IsReset(log[i])
    <3>1. /\ Index(f[i - 1], log[i], i) = Absent <=> f[i - 1] = Absent
          /\ Index(g[i - 1], log[i], i) = Absent <=> g[i - 1] = Absent
      BY <2>1, <2>2, <2>4, IndexIs
    <3>2. /\ f[i] = Absent <=> f[i - 1] = Absent
          /\ g[i] = Absent <=> g[i - 1] = Absent
      BY <1>1, <3>1
    <3> QED
      BY <2>1, <3>2
  <2> QED
    BY <2>3, <2>4
<1>5. 0 .. n \subseteq T
  <2> HIDE DEF T
  <2> QED
    BY <1>2, <1>3, <1>4, Places
<1>6. g[n] = Absent <=> f[n] = Absent
  BY <1>2, <1>5
<1> QED
  BY <1>6 DEF f, g, n

(* An operation that is appended is in no fold of those before it.         *)
LEMMA LongerLog ==
  ASSUME NEW log \in Seq(Operations), NEW op \in Operations, NEW S, S \subseteq 1 .. Len(log)
  PROVE  LET more == Append(log, op) IN UpTo(more, S)[Len(more)] = UpTo(log, S)[Len(log)]
<1> DEFINE more == Append(log, op)
           n == Len(log)
<1>1. /\ more \in Seq(Operations) /\ Len(more) = n + 1 /\ n \in Nat
      /\ \A i \in 1 .. n : log[i] = more[i] /\ (i \in S <=> i \in S)
  OBVIOUS
<1> HIDE DEF more
<1>2. UpTo(more, S)[n + 1] = UpTo(more, S)[n]
  <2>1. \A i \in 1 .. Len(more) : i \in S /\ i <= n + 1 => i <= n
    BY <1>1
  <2>2. n + 1 \in Nat /\ n <= n + 1 /\ n + 1 <= Len(more)
    BY <1>1
  <2> QED
    BY <1>1, <2>1, <2>2, NoneBetween
<1>3. UpTo(log, S)[n] = UpTo(more, S)[n]
  <2>1. n <= Len(log) /\ n <= Len(more)
    BY <1>1
  <2> HIDE DEF n
  <2> QED
    BY <1>1, <2>1, SameUpTo
<1> QED
  BY <1>1, <1>2, <1>3 DEF more
----------------------------------------------------------------------------
(* The scan and the page.  The strengthening: what was handled beyond the  *)
(* cursor is in the page, as far as the page goes, so that it comes again  *)
(* in its turn; and a scan that has found nothing knows of what came since.*)

HandledOK ==
  /\ done \subseteq processed
  /\ \A i \in processed : cursor < i /\ (\E j \in page : i < j) => i \in page

SkipOK ==
  \A i \in Ids : i <= cursor \/ (i \notin page /\ \E j \in page : i < j)
                   => i \in processed \cup overlapped

SleepOK == scan \in {"asked", "wait"} /\ Beyond # {} => fired \/ notifying

ScanInv == BsyncTypeOK /\ HandledOK /\ SkipOK /\ SleepOK

LEMMA TypeFacts ==
  ASSUME BsyncTypeOK
  PROVE  /\ ops \in Seq(Operations) /\ Len(ops) \in Nat /\ Ids \subseteq Nat \ {0}
         /\ \A i \in Ids : ops[i] \in Operations
         /\ open \subseteq Ids /\ Visible \subseteq Ids /\ Beyond \subseteq Visible
         /\ cursor \in Nat /\ cursor <= Len(ops)
         /\ page \subseteq Visible /\ page \subseteq Nat \ {0}
         /\ \A i \in page : cursor < i
         /\ done \subseteq page /\ \A i \in done, j \in page \ done : i < j
         /\ lost \subseteq processed /\ processed \subseteq Visible /\ processed \subseteq Ids
         /\ scan # "page" => page = {} /\ done = {}
         /\ row \in Rows /\ (UpdatesConsistent => Sound(row))
<1>1. ops \in Seq(Operations)
  BY DEF BsyncTypeOK
<1>2. Len(ops) \in Nat /\ \A i \in 1 .. Len(ops) : ops[i] \in Operations
  BY <1>1
<1>3. Ids \subseteq Nat \ {0} /\ \A i \in Ids : ops[i] \in Operations /\ i <= Len(ops)
  BY <1>2 DEF Ids
<1>4. open \subseteq Ids /\ Visible \subseteq Ids /\ Beyond \subseteq Visible
  BY DEF BsyncTypeOK, Visible, Beyond
<1>5. cursor \in Nat /\ cursor <= Len(ops)
  BY <1>2, <1>3, <1>4 DEF BsyncTypeOK
<1>6. page \subseteq Beyond
  BY DEF BsyncTypeOK
<1>7. page \subseteq Visible /\ page \subseteq Nat \ {0} /\ \A i \in page : cursor < i
  BY <1>3, <1>4, <1>5, <1>6 DEF Beyond
<1>8. /\ done \subseteq page /\ \A i \in done, j \in page \ done : i < j
      /\ scan # "page" => page = {} /\ done = {}
      /\ lost \subseteq processed /\ processed \subseteq Visible
      /\ row \in Rows /\ (UpdatesConsistent => Sound(row))
  BY DEF BsyncTypeOK, Rows, Sound
<1> QED
  BY <1>1, <1>2, <1>3, <1>4, <1>5, <1>7, <1>8

LEMMA PageIs ==
  ASSUME BsyncTypeOK
  PROVE  /\ NextOpPage \subseteq Beyond
         /\ NextOpPage = {} => Beyond = {}
         /\ \A j \in NextOpPage, i \in Beyond : i < j => i \in NextOpPage
<1>1. Beyond \subseteq 1 .. Len(ops) /\ Len(ops) \in Nat
  BY TypeFacts DEF Ids
<1>2. IsFiniteSet(Beyond)
  <2>1. IsFiniteSet(1 .. Len(ops))
    BY <1>1, FS_Interval
  <2> QED
    BY <1>1, <2>1, FS_Subset
<1>3. ASSUME NEW j \in NextOpPage, NEW i \in Beyond, i < j
      PROVE  i \in NextOpPage
  <2> DEFINE A == {k \in Beyond : k < i}
             B == {k \in Beyond : k < j}
  <2>1. A \subseteq B
    <3>1. j \in Beyond
      BY DEF NextOpPage
    <3>2. i \in Nat /\ j \in Nat /\ Beyond \subseteq Nat
      BY <1>1, <3>1
    <3>3. \A k \in Nat : k < i => k < j
      BY <1>3, <3>2
    <3> QED
      BY <3>2, <3>3
  <2>2. IsFiniteSet(B)
    BY <1>2, FS_Subset
  <2>3. Cardinality(A) <= Cardinality(B) /\ Cardinality(B) \in Nat /\ Cardinality(A) \in Nat
    BY <2>1, <2>2, FS_Subset, FS_CardinalityType
  <2>4. Cardinality(B) < PageLimit
    BY DEF NextOpPage
  <2>5. Cardinality(A) < PageLimit
    BY <2>3, <2>4, BsyncAssumption
  <2> QED
    BY <2>5 DEF NextOpPage
<1>4. ASSUME Beyond # {} PROVE NextOpPage # {}
  <2>1. Beyond \subseteq Nat
    BY <1>1
  <2>2. PICK i \in Beyond : \A j \in Beyond : i <= j
    BY <1>4, <2>1, Least
  <2>3. {j \in Beyond : j < i} = {}
    <3>1. \A j \in Beyond : ~(j < i)
      BY <2>1, <2>2
    <3> QED
      BY <3>1
  <2>4. Cardinality({j \in Beyond : j < i}) = 0
    BY <2>3, FS_EmptySet
  <2>5. i \in NextOpPage
    BY <2>4, BsyncAssumption DEF NextOpPage
  <2> QED
    BY <2>5
<1> QED
  BY <1>3, <1>4 DEF NextOpPage

(* What the premises on the updates of the log say of a step.              *)
LogGrows ==
  /\ Visible \subseteq Visible' /\ overlapped \subseteq overlapped'
  /\ \A i \in Visible : ops'[i] = ops[i]

LEMMA UpdatesBefore ==
  ASSUME LogGrows
  PROVE  /\ UpdatesConsistent' => UpdatesConsistent
         /\ UpdatesOfReaders' => UpdatesOfReaders
  BY DEF LogGrows, UpdatesConsistent, UpdatesOfReaders

(* What clients put.                                                       *)
Puts ==
  \/ CreateCollection
  \/ \E c \in Payloads : UpdateCollection(c)
  \/ DeleteCollection
  \/ \E b \in Batches : ApplyOps(b)

LEMMA PutsIs ==
  ASSUME BsyncTypeOK, Puts
  PROVE  /\ \E op \in Operations : ops' = Append(ops, op)
         /\ ops' \in Seq(Operations)
         /\ Ids' = Ids \cup {Len(ops) + 1} /\ open' = open \cup {Len(ops) + 1}
         /\ \A i \in Ids : ops'[i] = ops[i]
         /\ Visible' = Visible /\ Beyond' = Beyond
         /\ UNCHANGED <<notifying, scanVars, rowVars>> /\ LogGrows
<1>1. PICK op \in Operations : PutOp(op)
  BY DEF Puts, CreateCollection, UpdateCollection, DeleteCollection, ApplyOps, Operations
<1>2. /\ ops' = Append(ops, op) /\ open' = open \cup {Len(ops) + 1}
      /\ UNCHANGED <<notifying, scanVars, rowVars>>
  BY <1>1 DEF PutOp
<1>3. ops \in Seq(Operations) /\ Len(ops) \in Nat /\ open \subseteq Ids /\ Len(ops) + 1 \notin Ids
  BY TypeFacts DEF Ids
<1>4. /\ ops' \in Seq(Operations) /\ Len(ops') = Len(ops) + 1
      /\ \A i \in 1 .. Len(ops) : ops'[i] = ops[i]
  BY <1>2, <1>3
<1>5. Ids' = Ids \cup {Len(ops) + 1}
  BY <1>3, <1>4 DEF Ids
<1>6. Visible' = Visible
  BY <1>2, <1>3, <1>5 DEF Visible
<1>7. Beyond' = Beyond
  BY <1>2, <1>6 DEF Beyond, scanVars
<1>8. LogGrows
  BY <1>2, <1>3, <1>4, <1>6 DEF LogGrows, rowVars, Ids, Visible
<1> QED
  BY <1>2, <1>4, <1>5, <1>6, <1>7, <1>8 DEF Ids

(* The next operation of a page, and where it leaves the scan.             *)
LEMMA AdvanceIs ==
  ASSUME ScanInv, NEW i \in page, IsNext(i), Advance(i)
  PROVE  /\ UNCHANGED <<ops, open, notifying, fired, overlapped, restarts>>
         /\ Ids' = Ids /\ Visible' = Visible
         /\ i \in Visible /\ i \in Ids /\ i \in Nat \ {0} /\ cursor < i /\ i \notin done
         /\ scan = "page"
         /\ \A j \in done : j < i
         /\ processed' = processed \cup {i}
         /\ \/ scan' = "page" /\ page' = page /\ done' = done \cup {i} /\ cursor' = cursor
               /\ page # done \cup {i}
            \/ scan' = "idle" /\ page' = {} /\ done' = {} /\ cursor' = i /\ page = done \cup {i}
         /\ \A j \in processed : (j <= cursor' \/ j \in done') =>
              (j <= cursor \/ j \in done \/ j = i)
         /\ \A j \in Nat : (j <= cursor \/ j \in done \/ j = i) => (j <= cursor' \/ j \in done')
         /\ \A j \in processed : (j <= cursor \/ j \in done) => j < i
         /\ \A j \in processed : (cursor < j /\ j \notin done) => i <= j
<1>1. /\ UNCHANGED <<ops, open, notifying, fired, overlapped, restarts>>
      /\ processed' = processed \cup {i}
      /\ IF page = done \cup {i}
         THEN scan' = "idle" /\ page' = {} /\ done' = {} /\ cursor' = i
         ELSE done' = done \cup {i} /\ UNCHANGED <<scan, page, cursor>>
  BY DEF Advance, logVars
<1>2. Ids' = Ids /\ Visible' = Visible
  BY <1>1 DEF Ids, Visible
<1>3. /\ i \in Visible /\ i \in Ids /\ i \in Nat \ {0} /\ cursor < i /\ cursor \in Nat
      /\ page \subseteq Nat \ {0} /\ scan = "page"
      /\ processed \subseteq Nat
      /\ \A j \in page : cursor < j
      /\ done \subseteq page
  BY TypeFacts DEF ScanInv
<1>4. i \notin done /\ \A j \in done : j < i
  BY TypeFacts DEF ScanInv, IsNext
<1>5. \A j \in page \ done : i <= j
  BY DEF IsNext
<1>6. ASSUME NEW j \in processed, cursor < j, j \notin done PROVE i <= j
  <2>1. SUFFICES ASSUME j < i PROVE FALSE
    BY <1>3
  <2>2. j \in page
    BY <1>6, <2>1 DEF ScanInv, HandledOK
  <2> QED
    BY <1>3, <1>5, <1>6, <2>1, <2>2
<1>7. \/ scan' = "page" /\ page' = page /\ done' = done \cup {i} /\ cursor' = cursor
         /\ page # done \cup {i}
      \/ scan' = "idle" /\ page' = {} /\ done' = {} /\ cursor' = i /\ page = done \cup {i}
  BY <1>1, <1>3
<1>8. ASSUME NEW j \in processed, j <= cursor' \/ j \in done'
      PROVE  j <= cursor \/ j \in done \/ j = i
  BY <1>3, <1>6, <1>7, <1>8
<1>9. ASSUME NEW j \in Nat, j <= cursor \/ j \in done \/ j = i
      PROVE  j <= cursor' \/ j \in done'
  BY <1>3, <1>4, <1>7, <1>9
<1>10. ASSUME NEW j \in processed, j <= cursor \/ j \in done PROVE j < i
  BY <1>3, <1>4, <1>10
<1> QED
  BY <1>1, <1>2, <1>3, <1>4, <1>6, <1>7, <1>8, <1>9, <1>10

(* The variables of the scan, when only the log goes on.                   *)
LEMMA ScanPuts ==
  ASSUME ScanInv, Puts
  PROVE  ScanInv'
<1>1. /\ ops' \in Seq(Operations)
      /\ Ids' = Ids \cup {Len(ops) + 1} /\ open' = open \cup {Len(ops) + 1}
      /\ Visible' = Visible /\ Beyond' = Beyond
      /\ UNCHANGED <<notifying, scan, fired, page, done, cursor>>
      /\ UNCHANGED <<row, processed, lost, overlapped, dirty>> /\ LogGrows
  BY PutsIs DEF ScanInv, scanVars, rowVars
<1>2. BsyncTypeOK'
  BY <1>1, UpdatesBefore DEF ScanInv, BsyncTypeOK
<1>3. HandledOK' /\ SleepOK'
  BY <1>1 DEF ScanInv, HandledOK, SleepOK
<1>4. SkipOK'
  <2>1. /\ cursor \in Nat /\ cursor <= Len(ops) /\ Len(ops) \in Nat
        /\ \A j \in page : j \in 1 .. Len(ops)
    BY TypeFacts DEF ScanInv, Ids
  <2>2. ~(Len(ops) + 1 <= cursor) /\ \A j \in page : ~(Len(ops) + 1 < j)
    BY <2>1
  <2> QED
    BY <1>1, <2>2 DEF ScanInv, SkipOK
<1> QED
  BY <1>2, <1>3, <1>4 DEF ScanInv

LEMMA ScanCommit ==
  ASSUME ScanInv, NEW i \in Ids, CommitPut(i)
  PROVE  ScanInv'
<1>1. /\ i \in open /\ open' = open \ {i} /\ notifying' = TRUE
      /\ UNCHANGED <<ops, scan, fired, page, done, cursor>>
      /\ UNCHANGED <<row, processed, lost, overlapped, dirty>>
  BY DEF CommitPut, scanVars, rowVars
<1>2. Ids' = Ids /\ Visible' = Visible \cup {i} /\ Beyond \subseteq Beyond'
  <2>1. Ids' = Ids
    BY <1>1 DEF Ids
  <2>2. Visible' = Visible \cup {i}
    BY <1>1, <2>1 DEF Visible
  <2> QED
    BY <1>1, <2>1, <2>2 DEF Beyond
<1>0. UpdatesConsistent' => UpdatesConsistent
  BY <1>1, <1>2 DEF UpdatesConsistent
<1>3. BsyncTypeOK'
  BY <1>1, <1>2, <1>0 DEF ScanInv, BsyncTypeOK
<1>4. HandledOK' /\ SleepOK' /\ SkipOK'
  BY <1>1, <1>2 DEF ScanInv, HandledOK, SleepOK, SkipOK
<1> QED
  BY <1>3, <1>4 DEF ScanInv

LEMMA ScanNotify ==
  ASSUME ScanInv, Notify
  PROVE  ScanInv'
<1>1. /\ notifying' = FALSE /\ fired' = (fired \/ scan \in {"query", "asked", "wait"})
      /\ UNCHANGED <<ops, open, scan, page, done, cursor>>
      /\ UNCHANGED <<row, processed, lost, overlapped, dirty>>
  BY DEF Notify, rowVars
<1>2. Ids' = Ids /\ Visible' = Visible /\ Beyond' = Beyond
  BY <1>1 DEF Ids, Visible, Beyond
<1>0. UpdatesConsistent' => UpdatesConsistent
  BY <1>1, <1>2 DEF UpdatesConsistent
<1>3. BsyncTypeOK'
  BY <1>1, <1>2, <1>0 DEF ScanInv, BsyncTypeOK
<1>4. HandledOK' /\ SkipOK'
  BY <1>1, <1>2 DEF ScanInv, HandledOK, SkipOK
<1>5. SleepOK'
  BY <1>1 DEF SleepOK
<1> QED
  BY <1>3, <1>4, <1>5 DEF ScanInv

(* The steps of a scan that return nothing.                                *)
Waits == StartScan \/ AwaitNextOp \/ LongPollTimeout \/ ScanFails

LEMMA WaitsIs ==
  ASSUME Waits
  PROVE  /\ UNCHANGED <<ops, open, notifying, page, done, cursor>>
         /\ UNCHANGED <<row, processed, lost, overlapped, dirty>>
         /\ scan # "page"
         /\ \/ scan' \in {"idle", "query"} /\ fired' \in {fired, FALSE}
            \/ scan = "asked" /\ scan' = "wait" /\ fired' = fired
  BY DEF Waits, StartScan, AwaitNextOp, LongPollTimeout, ScanFails, logVars, rowVars

LEMMA ScanWaits ==
  ASSUME ScanInv, Waits
  PROVE  ScanInv'
<1>1. /\ UNCHANGED <<ops, open, notifying, page, done, cursor>>
      /\ UNCHANGED <<row, processed, lost, overlapped, dirty>>
      /\ scan # "page"
      /\ \/ scan' \in {"idle", "query"} /\ fired' \in {fired, FALSE}
         \/ scan = "asked" /\ scan' = "wait" /\ fired' = fired
  BY WaitsIs
<1>2. Ids' = Ids /\ Visible' = Visible /\ Beyond' = Beyond
  BY <1>1 DEF Ids, Visible, Beyond
<1>0. UpdatesConsistent' => UpdatesConsistent
  BY <1>1, <1>2 DEF UpdatesConsistent
<1>3. BsyncTypeOK'
  BY <1>1, <1>2, <1>0 DEF ScanInv, BsyncTypeOK
<1>4. HandledOK' /\ SkipOK'
  BY <1>1, <1>2 DEF ScanInv, HandledOK, SkipOK
<1>5. SleepOK'
  <2>1. CASE scan' \in {"idle", "query"}
    BY <2>1 DEF SleepOK
  <2>2. CASE scan = "asked" /\ fired' = fired
    <3>1. Beyond # {} => fired \/ notifying
      BY <2>2 DEF ScanInv, SleepOK
    <3>2. fired' = fired /\ notifying' = notifying /\ Beyond' = Beyond
      BY <1>1, <1>2, <2>2
    <3> QED
      BY <3>1, <3>2 DEF SleepOK
  <2> QED
    BY <1>1, <2>1, <2>2
<1> QED
  BY <1>3, <1>4, <1>5 DEF ScanInv

(* The queries.                                                            *)
Queries == Query \/ Requery

LEMMA QueriesIs ==
  ASSUME BsyncTypeOK, Queries
  PROVE  /\ UNCHANGED <<ops, open, notifying, cursor, row, processed, lost, dirty>>
         /\ Ids' = Ids /\ Visible' = Visible /\ Beyond' = Beyond
         /\ scan # "page" /\ page = {} /\ done = {} /\ done' = {}
         /\ page' = NextOpPage
         /\ \/ page' # {} /\ scan' = "page"
            \/ page' = {} /\ scan' = "idle"
            \/ page' = {} /\ scan' = "asked" /\ fired' = fired
         /\ fired' \in {fired, FALSE}
         /\ overlapped' = overlapped \cup {i \in open : \E j \in page' : i < j}
<1>1. /\ UNCHANGED <<ops, open, notifying, cursor, row, processed, lost, dirty>>
      /\ scan # "page" /\ done' = {}
      /\ page' = NextOpPage
      /\ \/ page' # {} /\ scan' = "page"
         \/ page' = {} /\ scan' = "idle"
         \/ page' = {} /\ scan' = "asked" /\ fired' = (fired /\ scan' = "asked")
      /\ fired' = (fired /\ scan' = "asked")
      /\ overlapped' = overlapped \cup {i \in open : \E j \in page' : i < j}
  BY DEF Queries, Query, Requery, QueryElse, logVars
<1>2. Ids' = Ids /\ Visible' = Visible /\ Beyond' = Beyond
  BY <1>1 DEF Ids, Visible, Beyond
<1>3. page = {} /\ done = {}
  BY <1>1, TypeFacts
<1>4. fired \in BOOLEAN
  BY DEF BsyncTypeOK
<1> QED
  BY <1>1, <1>2, <1>3, <1>4

LEMMA ScanQueries ==
  ASSUME ScanInv, Queries
  PROVE  ScanInv'
<1>1. /\ UNCHANGED <<ops, open, notifying, cursor, row, processed, lost, dirty>>
      /\ Ids' = Ids /\ Visible' = Visible /\ Beyond' = Beyond
      /\ scan # "page" /\ page = {} /\ done = {} /\ done' = {}
      /\ page' = NextOpPage
      /\ \/ page' # {} /\ scan' = "page"
         \/ page' = {} /\ scan' = "idle"
         \/ page' = {} /\ scan' = "asked" /\ fired' = fired
      /\ fired' \in {fired, FALSE}
      /\ overlapped' = overlapped \cup {i \in open : \E j \in page' : i < j}
  BY QueriesIs DEF ScanInv
<1>2. /\ NextOpPage \subseteq Beyond
      /\ NextOpPage = {} => Beyond = {}
      /\ \A j \in NextOpPage, i \in Beyond : i < j => i \in NextOpPage
  BY PageIs DEF ScanInv
<1>0. UpdatesConsistent' => UpdatesConsistent
  BY <1>1, <1>2 DEF UpdatesConsistent
<1>3. BsyncTypeOK'
  BY <1>1, <1>2, <1>0 DEF ScanInv, BsyncTypeOK
<1>4. cursor \in Nat /\ Ids \subseteq Nat /\ processed \subseteq Visible
  BY TypeFacts DEF ScanInv
<1>5. \A i \in Visible : i <= cursor \/ i \in Beyond
  <2>1. Visible \subseteq Nat
    BY <1>4 DEF Visible
  <2> QED
    BY <1>4, <2>1 DEF Beyond
<1>6. HandledOK'
  <2>1. \A i \in processed : cursor < i => i \in Beyond
    BY <1>4 DEF Beyond
  <2> QED
    BY <1>1, <1>2, <2>1 DEF HandledOK
<1>7. SkipOK'
  <2> SUFFICES ASSUME NEW i \in Ids, i <= cursor \/ (i \notin page' /\ \E j \in page' : i < j)
               PROVE  i \in processed \cup overlapped'
    BY <1>1 DEF SkipOK
  <2>1. CASE i <= cursor
    BY <1>1, <2>1 DEF ScanInv, SkipOK
  <2>2. CASE i \in open /\ \E j \in page' : i < j
    BY <1>1, <2>2
  <2>3. CASE i \notin open /\ ~(i <= cursor)
    <3>1. i \in Beyond
      BY <1>5, <2>3 DEF Visible
    <3> QED
      BY <1>1, <1>2, <2>3, <3>1
  <2> QED
    BY <2>1, <2>2, <2>3
<1>8. SleepOK'
  BY <1>1, <1>2 DEF SleepOK
<1> QED
  BY <1>3, <1>6, <1>7, <1>8 DEF ScanInv

(* One operation is handled: r is the row it leaves.                       *)
LEMMA ScanAdvance ==
  ASSUME ScanInv, NEW i \in page, IsNext(i), Advance(i),
         row' \in Rows, UpdatesConsistent => Sound(row'), lost' \subseteq processed', dirty' \in BOOLEAN
  PROVE  ScanInv'
<1>1. /\ UNCHANGED <<ops, open, notifying, fired, overlapped>>
      /\ Ids' = Ids /\ Visible' = Visible
      /\ i \in Visible /\ i \in Ids /\ i \in Nat \ {0} /\ cursor < i /\ i \notin done
      /\ processed' = processed \cup {i}
      /\ \/ scan' = "page" /\ page' = page /\ done' = done \cup {i} /\ cursor' = cursor
            /\ page # done \cup {i}
         \/ scan' = "idle" /\ page' = {} /\ done' = {} /\ cursor' = i /\ page = done \cup {i}
  BY AdvanceIs
<1>2. /\ page \subseteq Beyond /\ page \subseteq Nat \ {0} /\ cursor \in {0} \cup Visible
      /\ done \subseteq page
      /\ \A k \in done, j \in page \ done : k < j
      /\ \A j \in page \ done : i <= j
      /\ processed \subseteq Visible
      /\ done \subseteq processed
      /\ cursor \in Nat
  BY TypeFacts DEF ScanInv, BsyncTypeOK, HandledOK, IsNext
<1>3. BsyncTypeOK'
  <2>1. ops' \in Seq(Operations) /\ open' \subseteq Ids' /\ {notifying, fired, dirty}' \subseteq BOOLEAN
    BY <1>1 DEF ScanInv, BsyncTypeOK
  <2>2. /\ page' \subseteq Beyond' /\ done' \subseteq page' /\ cursor' \in {0} \cup Visible'
        /\ scan' \in {"idle", "query", "asked", "wait", "page"}
        /\ IF scan' = "page" THEN done' # page' ELSE page' = {}
    <3>1. CASE scan' = "page"
      <4>1. Beyond' = Beyond
        BY <1>1, <3>1 DEF Beyond
      <4> QED
        BY <1>1, <1>2, <3>1, <4>1
    <3>2. CASE scan' # "page"
      BY <1>1, <1>2, <3>2
    <3> QED
      BY <3>1, <3>2
  <2>3. \A k \in done', j \in page' \ done' : k < j
    <3>1. \A j \in page \ (done \cup {i}) : i < j
      BY <1>1, <1>2
    <3> QED
      BY <1>1, <1>2, <3>1
  <2>4. /\ row' \in Collections \cup {Absent}
        /\ row' # Absent /\ UpdatesConsistent' => Consistent(row')
        /\ lost' \subseteq processed' /\ processed' \subseteq Visible'
    BY <1>1, <1>2 DEF Rows, Sound, UpdatesConsistent
  <2> QED
    BY <2>1, <2>2, <2>3, <2>4 DEF BsyncTypeOK
<1>4. HandledOK'
  BY <1>1, <1>2 DEF ScanInv, HandledOK
<1>5. SkipOK'
  <2> SUFFICES ASSUME NEW k \in Ids, k <= cursor' \/ (k \notin page' /\ \E j \in page' : k < j)
               PROVE  k \in processed \cup {i} \cup overlapped
    BY <1>1 DEF SkipOK
  <2>0. k \in Nat
    BY TypeFacts DEF ScanInv
  <2>1. CASE page' = page
    BY <1>1, <2>1 DEF ScanInv, SkipOK
  <2>2. CASE page' = {} /\ cursor' = i /\ page = done \cup {i}
    <3>1. CASE k \in page
      BY <1>2, <2>2, <3>1
    <3>2. CASE k \notin page
      <4>1. k < i
        BY <1>1, <2>0, <2>2, <3>2
      <4> QED
        BY <3>2, <4>1 DEF ScanInv, SkipOK
    <3> QED
      BY <3>1, <3>2
  <2> QED
    BY <1>1, <2>1, <2>2
<1>6. SleepOK'
  BY <1>1 DEF SleepOK
<1> QED
  BY <1>3, <1>4, <1>5, <1>6 DEF ScanInv

(* The page is given up, or the subscriber.                                *)
LEMMA ScanPageFails ==
  ASSUME ScanInv, PageFails
  PROVE  ScanInv'
<1>1. /\ UNCHANGED <<ops, open, notifying, fired, cursor>>
      /\ UNCHANGED <<row, processed, lost, overlapped>>
      /\ scan' = "idle" /\ page' = {} /\ done' = {} /\ dirty' \in BOOLEAN
  BY DEF PageFails, logVars, ScanInv, BsyncTypeOK
<1>2. Ids' = Ids /\ Visible' = Visible /\ Beyond' = Beyond
  BY <1>1 DEF Ids, Visible, Beyond
<1>0. UpdatesConsistent' => UpdatesConsistent
  BY <1>1, <1>2 DEF UpdatesConsistent
<1>3. BsyncTypeOK'
  BY <1>1, <1>2, <1>0 DEF ScanInv, BsyncTypeOK
<1>4. HandledOK' /\ SkipOK' /\ SleepOK'
  BY <1>1, <1>2 DEF ScanInv, HandledOK, SkipOK, SleepOK
<1> QED
  BY <1>3, <1>4 DEF ScanInv

LEMMA ScanRestart ==
  ASSUME ScanInv, RestartSubscription
  PROVE  ScanInv'
<1>1. /\ UNCHANGED <<ops, open, notifying, row>>
      /\ scan' = "idle" /\ fired' = FALSE /\ page' = {} /\ done' = {} /\ cursor' = 0
      /\ processed' = {} /\ lost' = {} /\ overlapped' = {} /\ dirty' \in BOOLEAN
  BY DEF RestartSubscription, logVars
<1>2. Ids' = Ids /\ Visible' = Visible
  BY <1>1 DEF Ids, Visible
<1>0. UpdatesConsistent' => UpdatesConsistent
  BY <1>1, <1>2 DEF UpdatesConsistent
<1>3. BsyncTypeOK'
  BY <1>1, <1>2, <1>0 DEF ScanInv, BsyncTypeOK
<1>4. SkipOK'
  <2>1. \A i \in Ids : ~(i <= 0)
    BY TypeFacts DEF ScanInv
  <2> QED
    BY <1>1, <1>2, <2>1 DEF SkipOK
<1>5. HandledOK' /\ SleepOK'
  BY <1>1 DEF HandledOK, SleepOK
<1> QED
  BY <1>3, <1>4, <1>5 DEF ScanInv

LEMMA ScanStill ==
  ASSUME ScanInv, UNCHANGED vars
  PROVE  ScanInv'
<1>1. /\ UNCHANGED <<ops, open, notifying, scan, fired, page, done, cursor>>
      /\ UNCHANGED <<row, processed, lost, overlapped, dirty>>
  BY DEF vars, logVars, scanVars, rowVars
<1>2. Ids' = Ids /\ Visible' = Visible /\ Beyond' = Beyond
  BY <1>1 DEF Ids, Visible, Beyond
<1>0. UpdatesConsistent' => UpdatesConsistent
  BY <1>1, <1>2 DEF UpdatesConsistent
<1>3. BsyncTypeOK'
  BY <1>1, <1>2, <1>0 DEF ScanInv, BsyncTypeOK
<1>4. HandledOK' /\ SkipOK' /\ SleepOK'
  BY <1>1, <1>2 DEF ScanInv, HandledOK, SkipOK, SleepOK
<1> QED
  BY <1>3, <1>4 DEF ScanInv

----------------------------------------------------------------------------
(* The row.  Behind are the operations that were applied and that the      *)
(* subscriber has passed since its cursor was last set back, Again those   *)
(* that come once more.  The row is the fold of the former, or it is ahead *)
(* of it and what comes again sets it right: a creation or deletion does   *)
(* so whatever the row is, an update if the row is there when it should be.*)

Applied == processed \ lost
Behind  == {i \in Applied : i <= cursor \/ i \in done}
Again   == {i \in Applied : cursor < i /\ i \notin done}
Exact   == row = Fold(Behind)

AheadOfReset  == \E i \in Again : IsReset(ops[i])
AheadOfUpdate ==
  \E i \in Again : /\ \A j \in Again : i <= j
                   /\ ops[i].method = "UPDATE"
                   /\ row = Absent <=> Fold(Behind) = Absent

RowInv == ~dirty => Exact \/ AheadOfReset \/ AheadOfUpdate

(* The numbers that the keys of the row are minted of are not of batches   *)
(* that are still to be applied: the next one mints new keys.              *)
Passed(k) == k \in Ids /\ (k <= cursor \/ k \in done \/ ops[k].method # "OPS")
MintInv ==
  row # Absent /\ ~dirty /\ UpdatesOfReaders =>
    Distinct(row) /\ \A key \in KeysOf(row) : key[2] = 0 \/ Passed(key[2])

BsyncInv == ScanInv /\ RowInv /\ MintInv

LEMMA AppliedFacts ==
  ASSUME ScanInv
  PROVE  /\ Applied \subseteq Ids /\ Applied \subseteq Nat /\ cursor \in Nat
         /\ Behind \subseteq Applied /\ Again \subseteq Applied /\ Again = Applied \ Behind
         /\ Fold(Behind) \in Rows
<1>1. /\ Applied \subseteq Ids /\ Applied \subseteq Nat /\ cursor \in Nat
      /\ ops \in Seq(Operations) /\ Len(ops) \in Nat
  BY TypeFacts DEF ScanInv, Applied
<1>2. Behind \subseteq Applied /\ Again \subseteq Applied /\ Again = Applied \ Behind
  <2>1. \A i \in Applied : cursor < i <=> ~(i <= cursor)
    BY <1>1
  <2> QED
    BY <2>1 DEF Behind, Again
<1>3. Fold(Behind) \in Rows
  <2>1. Len(ops) \in 0 .. Len(ops)
    BY <1>1
  <2> QED
    BY <1>1, <2>1, UpToIs DEF Fold
<1> QED
  BY <1>1, <1>2, <1>3

(* Steps that touch neither the log nor the row.                           *)
LEMMA RowStill ==
  ASSUME RowInv, MintInv, LogGrows,
         UNCHANGED <<ops, cursor, done, row, processed, lost, dirty>>
  PROVE  RowInv' /\ MintInv'
<1>1. Ids' = Ids /\ Applied' = Applied
  BY DEF Ids, Applied
<1>2. Behind' = Behind /\ Again' = Again
  BY <1>1 DEF Behind, Again
<1>3. Fold(Behind)' = Fold(Behind)
  BY <1>2 DEF Fold
<1>4. RowInv'
  BY <1>2, <1>3 DEF RowInv, Exact, AheadOfReset, AheadOfUpdate
<1>5. MintInv'
  <2>1. \A k : Passed(k)' <=> Passed(k)
    BY <1>1 DEF Passed
  <2>2. row' = row /\ dirty' = dirty
    OBVIOUS
  <2> QED
    BY <2>1, <2>2, UpdatesBefore DEF MintInv
<1> QED
  BY <1>4, <1>5

LEMMA RowPuts ==
  ASSUME BsyncInv, Puts
  PROVE  RowInv' /\ MintInv'
<1>1. PICK op \in Operations : ops' = Append(ops, op)
  BY PutsIs DEF BsyncInv, ScanInv
<1>2. /\ Ids \subseteq Ids' /\ \A i \in Ids : ops'[i] = ops[i]
      /\ UNCHANGED <<page, done, cursor, row, processed, lost, dirty>> /\ LogGrows
  BY PutsIs DEF BsyncInv, ScanInv, scanVars, rowVars
<1>3. Applied' = Applied
  BY <1>2 DEF Applied
<1>4. Behind' = Behind /\ Again' = Again
  BY <1>2, <1>3 DEF Behind, Again
<1>5. /\ Behind \subseteq Ids /\ Again \subseteq Ids /\ Ids = 1 .. Len(ops)
      /\ ops \in Seq(Operations)
  BY AppliedFacts, TypeFacts DEF BsyncInv, ScanInv, Ids
<1>6. Fold(Behind)' = Fold(Behind)
  <2>1. UpTo(ops', Behind)[Len(ops')] = UpTo(ops, Behind)[Len(ops)]
    BY <1>1, <1>5, LongerLog
  <2> QED
    BY <1>4, <2>1 DEF Fold
<1>7. RowInv'
  <2>1. \A i \in Again : ops'[i] = ops[i]
    BY <1>2, <1>5
  <2> QED
    BY <1>2, <1>4, <1>6, <2>1 DEF BsyncInv, RowInv, Exact, AheadOfReset, AheadOfUpdate
<1>8. MintInv'
  <2>1. \A k : Passed(k) => Passed(k)'
    BY <1>2 DEF Passed
  <2> QED
    BY <1>2, <2>1, UpdatesBefore DEF BsyncInv, MintInv
<1> QED
  BY <1>7, <1>8

(* What the subscriber has passed after one more operation: an operation   *)
(* before it that it has not passed was open while a later one was read.   *)
LEMMA AdvancePasses ==
  ASSUME BsyncInv, NEW i \in page, IsNext(i), Advance(i)
  PROVE  /\ LogGrows /\ (UpdatesOfReaders' <=> UpdatesOfReaders)
         /\ \A k : Passed(k) => Passed(k)'
         /\ Passed(i)' /\ i # 0
         /\ ops[i].method = "OPS" => ~Passed(i)
         /\ \A k \in Nat \ {0} : k < i /\ k \notin overlapped => Passed(k)'
<1>1. /\ UNCHANGED <<ops, open, overlapped>> /\ Ids' = Ids /\ Visible' = Visible
      /\ i \in Ids /\ i \in Nat \ {0} /\ cursor < i /\ i \notin done
      /\ \A j \in Nat : (j <= cursor \/ j \in done \/ j = i) => (j <= cursor' \/ j \in done')
  BY AdvanceIs DEF BsyncInv
<1>2. Ids \subseteq Nat /\ cursor \in Nat /\ Ids = 1 .. Len(ops) /\ page \subseteq Nat
  BY TypeFacts DEF BsyncInv, ScanInv, Ids
<1>3. ASSUME NEW k \in Ids, k <= cursor \/ k \in done \/ k = i \/ ops[k].method # "OPS"
      PROVE  Passed(k)'
  <2>1. k \in Ids' /\ k \in Nat /\ ops'[k] = ops[k]
    BY <1>1, <1>2
  <2> QED
    BY <1>1, <1>3, <2>1 DEF Passed
<1>4. \A k : Passed(k) => Passed(k)'
  BY <1>3 DEF Passed
<1>5. Passed(i)'
  BY <1>1, <1>3
<1>6. ops[i].method = "OPS" => ~Passed(i)
  BY <1>1, <1>2 DEF Passed
<1>7. ASSUME NEW k \in Nat \ {0}, k < i, k \notin overlapped
      PROVE  Passed(k)'
  <2>1. k \in Ids
    <3>1. Len(ops) \in Nat /\ i \in 1 .. Len(ops)
      BY <1>1, <1>2, TypeFacts DEF BsyncInv, ScanInv
    <3> QED
      BY <1>2, <1>7, <3>1
  <2>2. CASE k <= cursor
    BY <1>3, <2>1, <2>2
  <2>3. CASE ~(k <= cursor)
    <3>1. k \in page
      <4>1. k \in page \/ k \in processed
        BY <1>7, <2>1 DEF BsyncInv, ScanInv, SkipOK
      <4>2. cursor < k
        BY <1>2, <2>3
      <4> QED
        BY <1>7, <4>1, <4>2 DEF BsyncInv, ScanInv, HandledOK
    <3>2. k \in done
      <4>1. \A j \in page \ done : i <= j
        BY DEF IsNext
      <4>2. ~(i <= k)
        BY <1>1, <1>7
      <4> QED
        BY <3>1, <4>1, <4>2
    <3> QED
      BY <1>3, <2>1, <3>2
  <2> QED
    BY <2>2, <2>3
<1>8. LogGrows /\ (UpdatesOfReaders' <=> UpdatesOfReaders)
  BY <1>1 DEF LogGrows, UpdatesOfReaders
<1> QED
  BY <1>1, <1>4, <1>5, <1>6, <1>7, <1>8

LEMMA RowProcess ==
  ASSUME BsyncInv, NEW i \in page, IsNext(i), Advance(i),
         row' = Index(row, ops[i], i), lost' = lost \ {i},
         dirty' = (dirty /\ ops[i].method \in {"UPDATE", "OPS"})
  PROVE  RowInv' /\ MintInv'
<1> DEFINE op == ops[i]
<1>1. /\ UNCHANGED ops /\ Ids' = Ids /\ i \in Ids /\ i \in Nat \ {0} /\ cursor < i /\ i \notin done
      /\ processed' = processed \cup {i}
      /\ \A j \in processed : (j <= cursor' \/ j \in done') => (j <= cursor \/ j \in done \/ j = i)
      /\ \A j \in Nat : (j <= cursor \/ j \in done \/ j = i) => (j <= cursor' \/ j \in done')
      /\ \A j \in processed : (j <= cursor \/ j \in done) => j < i
      /\ \A j \in processed : (cursor < j /\ j \notin done) => i <= j
      /\ cursor' \in {cursor, i}
  BY AdvanceIs DEF BsyncInv
<1>2. /\ Applied \subseteq Ids /\ Applied \subseteq Nat /\ cursor \in Nat
      /\ Behind \subseteq Applied /\ Again \subseteq Applied /\ Again = Applied \ Behind
      /\ Fold(Behind) \in Rows
  BY AppliedFacts DEF BsyncInv
<1>3. /\ ops \in Seq(Operations) /\ op \in Operations /\ row \in Rows /\ Ids = 1 .. Len(ops)
      /\ lost \subseteq processed /\ cursor' \in Nat
  BY <1>1, <1>2, TypeFacts DEF BsyncInv, ScanInv, Ids
<1> HIDE DEF op
<1>4. Applied' = Applied \cup {i}
  BY <1>1, <1>3 DEF Applied
<1>5. Behind' = Behind \cup {i} /\ Again' = Again \ {i}
  <2>1. \A j \in Applied : j \in processed
    BY DEF Applied
  <2>2. \A j \in Applied' : (j <= cursor' \/ j \in done') <=> (j \in Behind \/ j = i)
    BY <1>1, <1>2, <1>4, <2>1 DEF Behind
  <2>3. Behind' = Behind \cup {i}
    BY <1>4, <2>2 DEF Behind
  <2>4. \A j \in Applied' : (cursor' < j /\ j \notin done') <=> ~(j <= cursor' \/ j \in done')
    <3>1. cursor' \in Nat /\ Applied' \subseteq Nat
      BY <1>1, <1>2, <1>4
    <3>2. \A j \in Applied' : cursor' < j <=> ~(j <= cursor')
      BY <3>1
    <3> QED
      BY <3>2
  <2>5. \A j \in Applied' : (cursor' < j /\ j \notin done') <=> (j \in Again /\ j # i)
    BY <1>2, <1>4, <2>2, <2>4
  <2>6. Again' = Again \ {i}
    BY <1>4, <1>2, <2>5 DEF Again
  <2> QED
    BY <2>3, <2>6
<1>6. Fold(Behind)' = Index(Fold(Behind), op, i)
  <2>1. \A j \in 1 .. Len(ops) : j \in Behind => j < i
    BY <1>1, <1>2 DEF Behind, Applied
  <2>2. UpTo(ops, Behind \cup {i})[Len(ops)] = Index(UpTo(ops, Behind)[Len(ops)], ops[i], i)
    BY <1>1, <1>3, <2>1, OneMore
  <2> QED
    BY <1>1, <1>5, <2>2 DEF Fold, op
<1>7. row' = Index(row, op, i) /\ ops' = ops
  BY <1>1 DEF op
<1>8. CASE IsReset(op)
  <2>1. Index(row, op, i) = Index(Fold(Behind), op, i)
    BY <1>1, <1>2, <1>3, <1>8, IndexIs
  <2>2. RowInv'
    BY <1>6, <1>7, <2>1 DEF RowInv, Exact
  <2>3. CASE op.method = "DELETE"
    <3>1. row' = Absent
      BY <1>1, <1>3, <1>7, <2>3, IndexIs
    <3> QED
      BY <2>2, <3>1 DEF MintInv
  <2>4. CASE op.method = "CREATE"
    <3>1. row' = op.payload
      BY <1>1, <1>3, <1>7, <2>4, IndexIs
    <3>2. Distinct(row') /\ KeysOf(row') = {}
      BY <1>3, <2>4, <3>1, PayloadIs, EmptyIsCollection
    <3> QED
      BY <2>2, <3>2 DEF MintInv
  <2> QED
    BY <1>8, <2>3, <2>4 DEF IsReset
<1>9. CASE ~IsReset(op)
  <2>1. op.method \in {"UPDATE", "OPS"} /\ (dirty' <=> dirty)
    BY <1>3, <1>9, MethodIs DEF op, IsReset
  <2>2. /\ Index(row, op, i) = Absent <=> row = Absent
        /\ Index(Fold(Behind), op, i) = Absent <=> Fold(Behind) = Absent
    BY <1>1, <1>2, <1>3, <1>9, IndexIs
  <2>3. RowInv'
    <3> SUFFICES ASSUME ~dirty PROVE Exact' \/ AheadOfReset' \/ AheadOfUpdate'
      BY <2>1 DEF RowInv
    <3>1. CASE Exact
      BY <1>6, <1>7, <3>1 DEF Exact
    <3>2. CASE AheadOfReset
      <4>1. PICK j \in Again : IsReset(ops[j])
        BY <3>2 DEF AheadOfReset
      <4>2. j \in Again'
        BY <1>5, <1>9, <4>1 DEF op
      <4> QED
        BY <1>7, <4>1, <4>2 DEF AheadOfReset
    <3>3. CASE AheadOfUpdate
      <4>1. PICK j \in Again : /\ \A l \in Again : j <= l
                               /\ ops[j].method = "UPDATE"
                               /\ row = Absent <=> Fold(Behind) = Absent
        BY <3>3 DEF AheadOfUpdate
      <4>2. CASE j = i
        <5>1. /\ Index(row, op, i) = (IF row = Absent THEN Absent ELSE op.payload)
              /\ Index(Fold(Behind), op, i) = (IF Fold(Behind) = Absent THEN Absent ELSE op.payload)
          BY <1>1, <1>2, <1>3, <4>1, <4>2, IndexIs DEF op
        <5> QED
          BY <1>6, <1>7, <4>1, <5>1 DEF Exact
      <4>3. CASE j # i
        <5>1. j \in Again' /\ \A l \in Again' : j <= l
          BY <1>5, <4>1, <4>3
        <5>2. ops'[j].method = "UPDATE" /\ (row' = Absent <=> Fold(Behind)' = Absent)
          BY <1>6, <1>7, <2>2, <4>1
        <5> QED
          BY <5>1, <5>2 DEF AheadOfUpdate
      <4> QED
        BY <4>2, <4>3
    <3> QED
      BY <3>1, <3>2, <3>3 DEF BsyncInv, RowInv
  <2>4. MintInv'
    <3> SUFFICES ASSUME row' # Absent, ~dirty, UpdatesOfReaders'
                 PROVE  Distinct(row') /\ \A key \in KeysOf(row') : key[2] = 0 \/ Passed(key[2])'
      BY <2>1 DEF MintInv
    <3>1. /\ UpdatesOfReaders /\ Passed(i)' /\ i # 0
          /\ \A k : Passed(k) => Passed(k)'
          /\ op.method = "OPS" => ~Passed(i)
          /\ \A k \in Nat \ {0} : k < i /\ k \notin overlapped => Passed(k)'
      BY AdvancePasses DEF op
    <3>2. row # Absent
      BY <1>7, <2>2
    <3>3. Distinct(row) /\ \A key \in KeysOf(row) : key[2] = 0 \/ Passed(key[2])
      BY <3>1, <3>2 DEF BsyncInv, MintInv
    <3>4. CASE op.method = "UPDATE"
      <4>1. row' = op.payload
        BY <1>1, <1>3, <1>7, <3>2, <3>4, IndexIs
      <4>2. i \in Visible
        BY TypeFacts DEF BsyncInv, ScanInv
      <4>3. /\ Distinct(op.payload)
            /\ \A key \in KeysOf(op.payload) :
                 key[2] # 0 => key[2] < i /\ key[2] \notin overlapped
        BY <3>1, <3>4, <4>2 DEF UpdatesOfReaders, op
      <4>4. \A key \in KeysOf(op.payload) : key[2] \in Nat
        <5>1. op.payload \in Collections
          BY <1>3, <3>4, PayloadIs
        <5> QED
          BY <5>1, Parts DEF ItemKeys
      <4> QED
        BY <3>1, <4>1, <4>3, <4>4
    <3>5. CASE op.method = "OPS"
      <4>1. row' = ApplyCollectionOps(row, op.batch, i) /\ op.batch \in Seq(Ops) /\ row \in Collections
        BY <1>1, <1>3, <1>7, <3>2, <3>5, IndexIs, MethodIs DEF Rows
      <4>2. /\ \A key \in KeysOf(row') : key \in KeysOf(row) \/ key[2] = 0 \/ key[2] = i
            /\ Distinct(row) /\ (\A key \in KeysOf(row) : key[2] # i) => Distinct(row')
        BY <1>1, <4>1, BatchEdits
      <4>3. \A key \in KeysOf(row) : key[2] # i
        BY <3>1, <3>3, <3>5
      <4>4. ASSUME NEW key \in KeysOf(row') PROVE key[2] = 0 \/ Passed(key[2])'
        <5>1. CASE key \in KeysOf(row)
          BY <3>1, <3>3, <5>1
        <5>2. CASE key[2] = i
          BY <3>1, <5>2
        <5> QED
          BY <4>2, <5>1, <5>2
      <4> QED
        BY <3>3, <4>2, <4>3, <4>4
    <3> QED
      BY <2>1, <3>4, <3>5
  <2> QED
    BY <2>3, <2>4
<1> QED
  BY <1>8, <1>9

LEMMA RowIndexingFails ==
  ASSUME BsyncInv, NEW i \in page, IsNext(i), Advance(i),
         lost' = IF i \in Applied THEN lost ELSE lost \cup {i},
         dirty' = (dirty \/ i \in Applied), row' = row
  PROVE  RowInv' /\ MintInv'
<1>1. /\ UNCHANGED ops /\ Ids' = Ids /\ i \in Nat \ {0}
      /\ processed' = processed \cup {i}
      /\ \A j \in processed : (j <= cursor' \/ j \in done') => (j <= cursor \/ j \in done \/ j = i)
      /\ \A j \in Nat : (j <= cursor \/ j \in done \/ j = i) => (j <= cursor' \/ j \in done')
      /\ cursor' \in {cursor, i}
  BY AdvanceIs DEF BsyncInv
<1>2. Applied \subseteq Nat /\ cursor \in Nat /\ cursor' \in Nat
  BY <1>1, AppliedFacts DEF BsyncInv
<1>3. CASE i \in Applied
  BY <1>3 DEF RowInv, MintInv
<1>4. CASE i \notin Applied
  <2>1. Applied' = Applied
    BY <1>1, <1>4 DEF Applied
  <2>2. \A j \in Applied : (j <= cursor' \/ j \in done') <=> (j <= cursor \/ j \in done)
    BY <1>1, <1>2, <1>4 DEF Applied
  <2>3. Behind' = Behind
    BY <2>1, <2>2 DEF Behind
  <2>4. Again' = Again
    <3>1. \A j \in Applied : /\ cursor < j <=> ~(j <= cursor)
                             /\ cursor' < j <=> ~(j <= cursor')
      BY <1>2
    <3> QED
      BY <2>1, <2>2, <3>1 DEF Again
  <2>5. Fold(Behind)' = Fold(Behind)
    BY <1>1, <2>3 DEF Fold
  <2>6. dirty' <=> dirty
    BY <1>4
  <2>7. RowInv'
    BY <1>1, <2>3, <2>4, <2>5, <2>6
       DEF BsyncInv, RowInv, Exact, AheadOfReset, AheadOfUpdate
  <2>8. MintInv'
    <3>1. (UpdatesOfReaders' <=> UpdatesOfReaders) /\ \A k : Passed(k) => Passed(k)'
      BY AdvancePasses
    <3> QED
      BY <2>6, <3>1 DEF BsyncInv, MintInv
  <2> QED
    BY <2>7, <2>8
<1> QED
  BY <1>3, <1>4

(* The page comes again: what of it was applied is to be applied again.    *)
LEMMA RowPageFails ==
  ASSUME BsyncInv, PageFails
  PROVE  RowInv' /\ MintInv'
<1>1. /\ UNCHANGED <<ops, open, overlapped, cursor, row, processed, lost>>
      /\ done' = {}
      /\ dirty' = (dirty \/ \E i \in done : ops[i].method = "OPS")
  BY DEF PageFails, logVars
<1>2. Ids' = Ids /\ Applied' = Applied
  BY <1>1 DEF Ids, Applied
<1>3. /\ Applied \subseteq Ids /\ Applied \subseteq Nat /\ cursor \in Nat
      /\ Behind \subseteq Applied /\ Again \subseteq Applied /\ Again = Applied \ Behind
  BY AppliedFacts DEF BsyncInv
<1>4. /\ Behind' = {i \in Applied : i <= cursor} /\ Again' = {i \in Applied : cursor < i}
      /\ Behind' \subseteq Behind /\ Again \subseteq Again'
      /\ Behind \ Behind' = Again' \cap done /\ Again' \ Again = Again' \cap done
  <2>1. Behind' = {i \in Applied : i <= cursor} /\ Again' = {i \in Applied : cursor < i}
    BY <1>1, <1>2 DEF Behind, Again
  <2>2. \A i \in Applied : cursor < i <=> ~(i <= cursor)
    BY <1>3
  <2> QED
    BY <2>1, <2>2 DEF Behind, Again
<1>5. /\ ops \in Seq(Operations) /\ Ids = 1 .. Len(ops) /\ page \subseteq Nat
      /\ done \subseteq page /\ \A i \in done, j \in page \ done : i < j
      /\ \A i \in Ids : ops[i] \in Operations
  BY TypeFacts DEF BsyncInv, ScanInv, Ids
<1>6. RowInv'
  <2> SUFFICES ASSUME ~dirty, \A i \in done : ops[i].method # "OPS"
               PROVE  Exact' \/ AheadOfReset' \/ AheadOfUpdate'
    BY <1>1 DEF RowInv
  <2>1. CASE \E i \in Again' : IsReset(ops[i])
    BY <1>1, <2>1 DEF AheadOfReset
  <2>2. CASE ~(\E i \in Again' : IsReset(ops[i])) /\ Again' \cap done = {}
    <3>1. Behind' = Behind /\ Again' = Again
      BY <1>4, <2>2
    <3>2. Fold(Behind)' = Fold(Behind)
      BY <1>1, <3>1 DEF Fold
    <3> QED
      BY <1>1, <3>1, <3>2 DEF BsyncInv, RowInv, Exact, AheadOfReset, AheadOfUpdate
  <2>3. CASE ~(\E i \in Again' : IsReset(ops[i])) /\ Again' \cap done # {}
    <3>1. PICK d : d \in Again' \cap done
      BY <2>3
    <3>2. Again' \subseteq Nat /\ Again' # {}
      BY <1>3, <1>4, <3>1
    <3>3. PICK i \in Again' : \A j \in Again' : i <= j
      BY <3>2, Least
    <3>4. i \in done
      <4> SUFFICES ASSUME i \notin done PROVE FALSE
        OBVIOUS
      <4>1. i \in Nat /\ d \in Nat /\ i <= d /\ i # d
        BY <3>1, <3>2, <3>3
      <4>2. i < d /\ d \in page
        BY <1>5, <3>1, <4>1
      <4>3. i \in processed /\ cursor < i
        BY <1>4, <3>3 DEF Applied
      <4>4. i \in page
        BY <4>2, <4>3 DEF BsyncInv, ScanInv, HandledOK
      <4>5. d < i
        BY <1>5, <3>1, <4>4
      <4> QED
        BY <4>1, <4>2, <4>5
    <3>5. ops[i].method = "UPDATE"
      <4>1. ops[i] \in Operations /\ ~IsReset(ops[i]) /\ ops[i].method # "OPS"
        BY <1>3, <1>4, <1>5, <2>3, <3>3, <3>4
      <4> QED
        BY <4>1, MethodIs DEF IsReset
    <3>6. Fold(Behind) = Absent <=> Fold(Behind)' = Absent
      <4>1. \A j \in 1 .. Len(ops) : j \in Behind \ Behind' => ~IsReset(ops[j])
        BY <1>4, <2>3
      <4> DEFINE S == Behind'
                 R == Behind
      <4>2. S \subseteq R /\ \A j \in 1 .. Len(ops) : j \in R \ S => ~IsReset(ops[j])
        BY <1>4, <4>1
      <4>3. Fold(Behind)' = UpTo(ops, S)[Len(ops)] /\ Fold(Behind) = UpTo(ops, R)[Len(ops)]
        BY <1>1 DEF Fold
      <4> HIDE DEF S, R
      <4>4. UpTo(ops, R)[Len(ops)] = Absent <=> UpTo(ops, S)[Len(ops)] = Absent
        BY <1>5, <4>2, MoreUpdates
      <4> QED
        BY <4>3, <4>4
    <3>7. row = Absent <=> Fold(Behind) = Absent
      <4>1. ~AheadOfReset
        BY <1>4, <2>3 DEF AheadOfReset
      <4> QED
        BY <4>1 DEF BsyncInv, RowInv, Exact, AheadOfUpdate
    <3>8. row' = Absent <=> Fold(Behind)' = Absent
      BY <1>1, <3>6, <3>7
    <3> QED
      BY <1>1, <3>3, <3>5, <3>8 DEF AheadOfUpdate
  <2> QED
    BY <2>1, <2>2, <2>3
<1>7. MintInv'
  <2> SUFFICES ASSUME ~dirty, \A i \in done : ops[i].method # "OPS", row # Absent,
                      UpdatesOfReaders'
               PROVE  Distinct(row) /\ \A key \in KeysOf(row) : key[2] = 0 \/ Passed(key[2])'
    BY <1>1 DEF MintInv
  <2>1. \A k : Passed(k) => Passed(k)'
    BY <1>1, <1>2 DEF Passed
  <2>2. UpdatesOfReaders
    BY <1>1, <1>2 DEF UpdatesOfReaders, Visible
  <2> QED
    BY <2>1, <2>2 DEF BsyncInv, MintInv
<1> QED
  BY <1>6, <1>7

LEMMA RowRestart ==
  ASSUME BsyncInv, RestartSubscription
  PROVE  RowInv' /\ MintInv'
<1>1. /\ UNCHANGED <<ops, row>> /\ processed' = {} /\ dirty' = (row # Absent)
  BY DEF RestartSubscription, logVars
<1>2. Behind' = {}
  BY <1>1 DEF Behind, Applied
<1>3. UpTo(ops, {})[Len(ops)] = Absent
  <2>1. ops \in Seq(Operations) /\ Len(ops) \in Nat
    BY TypeFacts DEF BsyncInv, ScanInv
  <2>2. /\ 0 \in Nat /\ 0 <= Len(ops) /\ Len(ops) <= Len(ops)
        /\ \A i \in 1 .. Len(ops) : i \in {} /\ i <= Len(ops) => i <= 0
    BY <2>1
  <2>3. UpTo(ops, {})[Len(ops)] = UpTo(ops, {})[0]
    BY <2>1, <2>2, NoneBetween
  <2> QED
    BY <2>1, <2>3, UpToIs
<1>4. Fold(Behind)' = Absent
  BY <1>1, <1>2, <1>3 DEF Fold
<1> QED
  BY <1>1, <1>4 DEF RowInv, MintInv, Exact

LEMMA BsyncInvInit == BsyncInit => BsyncInv
<1> SUFFICES ASSUME BsyncInit PROVE BsyncInv
  OBVIOUS
<1>1. /\ ops = <<>> /\ open = {} /\ notifying = FALSE
      /\ scan = "idle" /\ fired = FALSE /\ page = {} /\ done = {} /\ cursor = 0
      /\ row = Absent
      /\ processed = {} /\ lost = {} /\ overlapped = {} /\ dirty = FALSE
  BY DEF BsyncInit
<1>2. ops \in Seq(Operations) /\ Len(ops) = 0 /\ Ids = {}
  BY <1>1 DEF Ids
<1>3. BsyncTypeOK
  BY <1>1, <1>2 DEF BsyncTypeOK, Beyond, Visible
<1>4. HandledOK /\ SkipOK /\ SleepOK
  BY <1>1, <1>2 DEF HandledOK, SkipOK, SleepOK
<1>5. Behind = {}
  BY <1>1 DEF Behind, Applied
<1>6. UpTo(ops, {})[Len(ops)] = Absent
  <2>1. UpTo(ops, {})[0] = Absent
    <3>1. ops \in Seq(Operations)
      BY <1>2
    <3> QED
      BY ONLY <3>1, UpToIs
  <2> QED
    BY <1>2, <2>1
<1>7. RowInv /\ MintInv
  BY <1>1, <1>5, <1>6 DEF RowInv, MintInv, Exact, Fold
<1> QED
  BY <1>3, <1>4, <1>7 DEF BsyncInv, ScanInv

LEMMA BsyncInvStep == BsyncInv /\ [BsyncNext]_vars => BsyncInv'
<1> SUFFICES ASSUME BsyncInv, [BsyncNext]_vars PROVE BsyncInv'
  OBVIOUS
<1>0. ScanInv /\ RowInv /\ MintInv /\ BsyncTypeOK
  BY DEF BsyncInv, ScanInv
<1>1. CASE Puts
  BY <1>0, <1>1, ScanPuts, RowPuts DEF BsyncInv
<1>2. ASSUME NEW i \in Ids, CommitPut(i) PROVE BsyncInv'
  <2>1. UNCHANGED <<ops, cursor, done, row, processed, lost, dirty>> /\ LogGrows
    BY <1>2 DEF CommitPut, LogGrows, Ids, Visible, scanVars, rowVars
  <2> QED
    BY <1>0, <1>2, <2>1, ScanCommit, RowStill DEF BsyncInv
<1>3. CASE Notify
  <2>1. UNCHANGED <<ops, cursor, done, row, processed, lost, dirty>> /\ LogGrows
    BY <1>3 DEF Notify, LogGrows, Ids, Visible, rowVars
  <2> QED
    BY <1>0, <1>3, <2>1, ScanNotify, RowStill DEF BsyncInv
<1>4. CASE Waits
  <2>1. UNCHANGED <<ops, cursor, done, row, processed, lost, dirty>> /\ LogGrows
    BY <1>4, WaitsIs DEF LogGrows, Ids, Visible
  <2> QED
    BY <1>0, <1>4, <2>1, ScanWaits, RowStill DEF BsyncInv
<1>5. CASE Queries
  <2>1. UNCHANGED <<ops, cursor, done, row, processed, lost, dirty>> /\ LogGrows
    BY <1>0, <1>5, QueriesIs DEF LogGrows
  <2> QED
    BY <1>0, <1>5, <2>1, ScanQueries, RowStill DEF BsyncInv
<1>6. CASE ProcessOp
  <2>1. PICK i \in page : /\ IsNext(i) /\ Advance(i)
                          /\ row' = Index(row, ops[i], i) /\ lost' = lost \ {i}
                          /\ dirty' = (dirty /\ ops[i].method \in {"UPDATE", "OPS"})
    BY <1>6 DEF ProcessOp
  <2>2. /\ row \in Rows /\ (UpdatesConsistent => Sound(row))
        /\ ops[i] \in Operations /\ i \in Nat \ {0} /\ i \in Visible
        /\ lost \subseteq processed /\ dirty \in BOOLEAN
    BY <1>0, TypeFacts DEF BsyncTypeOK
  <2>3. row' \in Rows /\ (UpdatesConsistent => Sound(row'))
    BY <2>1, <2>2, IndexIs DEF UpdatesConsistent
  <2>4. lost' \subseteq processed' /\ dirty' \in BOOLEAN
    BY <2>1, <2>2 DEF Advance
  <2>5. ScanInv'
    BY <1>0, <2>1, <2>3, <2>4, ScanAdvance
  <2>6. RowInv' /\ MintInv'
    BY <2>1, RowProcess
  <2> QED
    BY <2>5, <2>6 DEF BsyncInv
<1>7. CASE IndexingFails
  <2>1. PICK i \in page : /\ IsNext(i) /\ Advance(i)
                          /\ lost' = IF i \in Applied THEN lost ELSE lost \cup {i}
                          /\ dirty' = (dirty \/ i \in Applied)
                          /\ row' = row
    BY <1>7 DEF IndexingFails, Applied
  <2>2. /\ row \in Rows /\ (UpdatesConsistent => Sound(row))
        /\ lost \subseteq processed /\ dirty \in BOOLEAN
    BY <1>0, TypeFacts DEF BsyncTypeOK
  <2>3. row' \in Rows /\ (UpdatesConsistent => Sound(row'))
    BY <2>1, <2>2
  <2>4. lost' \subseteq processed' /\ dirty' \in BOOLEAN
    BY <2>1, <2>2 DEF Advance
  <2>5. ScanInv'
    BY <1>0, <2>1, <2>3, <2>4, ScanAdvance
  <2>6. RowInv' /\ MintInv'
    BY <2>1, RowIndexingFails
  <2> QED
    BY <2>5, <2>6 DEF BsyncInv
<1>8. CASE PageFails
  BY <1>0, <1>8, ScanPageFails, RowPageFails DEF BsyncInv
<1>9. CASE RestartSubscription
  BY <1>0, <1>9, ScanRestart, RowRestart DEF BsyncInv
<1>10. CASE UNCHANGED vars
  <2>1. UNCHANGED <<ops, cursor, done, row, processed, lost, dirty>> /\ LogGrows
    BY <1>10 DEF vars, logVars, scanVars, rowVars, LogGrows, Ids, Visible
  <2> QED
    BY <1>0, <1>10, <2>1, ScanStill, RowStill DEF BsyncInv
<1> QED
  BY <1>1, <1>2, <1>3, <1>4, <1>5, <1>6, <1>7, <1>8, <1>9, <1>10
     DEF BsyncNext, ApiNext, ScannerNext, Puts, Waits, Queries

LEMMA BsyncInvAlways == BsyncSpec => []BsyncInv
  BY BsyncInvInit, BsyncInvStep, PTL DEF BsyncSpec

----------------------------------------------------------------------------
(* The theorems.                                                           *)

(* Every variable has its type: in particular a page is of visible         *)
(* operations beyond the cursor, handled from its first one, and no edit   *)
(* of ops.ts, in whatever order the edits of two devices arrive, leaves a  *)
(* relation to an item that is not there or more items than the limit; an  *)
(* update that carries such a collection is all that can.                  *)
THEOREM BsyncTypeCorrect == BsyncSpec => []BsyncTypeOK
<1>1. BsyncInv => BsyncTypeOK
  BY DEF BsyncInv, ScanInv
<1> QED
  BY <1>1, BsyncInvAlways, PTL

(* Of the operations the cursor of bsync-subscription.ts has passed, those *)
(* that were never handled are those whose transaction was open while a    *)
(* larger number was read: failures, repeated pages and restarts skip none.*)
THEOREM SkippedOnlyByOverlapCorrect == BsyncSpec => []SkippedOnlyByOverlap
<1>1. BsyncInv => SkippedOnlyByOverlap
  BY DEF BsyncInv, ScanInv, SkipOK, SkippedOnlyByOverlap, Visible
<1> QED
  BY <1>1, BsyncInvAlways, PTL

(* scanOperations listens before it asks: a long poll never sleeps on an   *)
(* operation unless the notification of it has come or is on its way.      *)
THEOREM NoSleepOnWorkCorrect == BsyncSpec => []NoSleepOnWork
<1>1. BsyncInv => NoSleepOnWork
  BY DEF BsyncInv, ScanInv, SleepOK, NoSleepOnWork, Beyond
<1> QED
  BY <1>1, BsyncInvAlways, PTL

(* A subscriber that has caught up shows the fold of the operations it has *)
(* applied, also after a restart or a repeated page has replayed them on   *)
(* top of what they had made of the row.                                   *)
THEOREM CaughtUpIsCurrentCorrect == BsyncSpec => []CaughtUpIsCurrent
<1>1. BsyncInv => CaughtUpIsCurrent
  <2> SUFFICES ASSUME BsyncInv, CaughtUp, ~dirty PROVE row = Fold(processed \ lost)
    BY DEF CaughtUpIsCurrent
  <2>1. /\ scan # "page" /\ \A i \in Visible : i <= cursor
        /\ processed \subseteq Visible /\ Visible \subseteq Nat /\ cursor \in Nat
    BY TypeFacts DEF BsyncInv, ScanInv, CaughtUp
  <2>2. Behind = Applied /\ Again = {}
    <3>1. \A i \in Applied : i <= cursor /\ ~(cursor < i)
      BY <2>1 DEF Applied
    <3> QED
      BY <3>1 DEF Behind, Again
  <2>3. Exact
    BY <2>2 DEF BsyncInv, RowInv, AheadOfReset, AheadOfUpdate
  <2> QED
    BY <2>2, <2>3 DEF Exact, Applied
<1> QED
  BY <1>1, BsyncInvAlways, PTL

(* The key minted of an operation and its place in the batch is no item's  *)
(* yet, also when clients have sent whole collections back with the keys   *)
(* minted before, and an item a client names is not added twice: items     *)
(* have different keys unless a batch was applied twice, or an update      *)
(* repeats a key or makes one up.                                          *)
THEOREM ItemsDistinctCorrect == BsyncSpec => []ItemsDistinct
<1>1. BsyncInv => ItemsDistinct
  BY DEF BsyncInv, MintInv, ItemsDistinct
<1> QED
  BY <1>1, BsyncInvAlways, PTL
=============================================================================
