----------------------------- MODULE JsonLinks ------------------------------
(***************************************************************************)
(* The lists of cJSON.c: an item has links to its siblings (next, prev)    *)
(* and to its first child (child), and each function below rewrites some   *)
(* of them by hand.  They take a heap m, with the items in m.item, and     *)
(* return the heap they leave.                                             *)
(***************************************************************************)
EXTENDS Integers, Sequences, SequencesExt, FiniteSets

CONSTANTS Id,         \* addresses of items
          Null

ASSUME LinksAssumption == IsFiniteSet(Id) /\ Null \notin Id

Link == Id \cup {Null}

\* The chain of siblings that starts at `first': next is followed until it is NULL.
\* A chain that runs in a circle is cut off, where the code would not return.
List(m, first) ==
  LET walk[n \in Nat] ==
        [i \in Link |-> IF n = 0 \/ i = Null THEN <<>> ELSE <<i>> \o walk[n - 1][m.item[i].next]]
  IN walk[Cardinality(Id)][first]

Children(m, p) == List(m, m.item[p].child)

SetNext(m, i, j) == IF i = Null THEN m ELSE [m EXCEPT !.item[i].next = j]
SetPrev(m, i, j) == IF i = Null THEN m ELSE [m EXCEPT !.item[i].prev = j]
SetChild(m, p, j) == [m EXCEPT !.item[p].child = j]

\* Slip: the new last item is not linked back.
SuffixOneWay(m, prev, i) == SetNext(m, prev, i)
suffix_object(m, prev, i) == SetPrev(SetNext(m, prev, i), i, prev)

get_array_item(m, p, index) ==
  LET list == Children(m, p) IN IF index + 1 \in DOMAIN list THEN list[index + 1] ELSE Null

add_item_to_array(m, p, i) ==
  LET list == Children(m, p)
  IN CASE i = Null -> [m |-> m, ok |-> FALSE]
       [] i # Null /\ list = <<>> -> [m |-> SetChild(m, p, i), ok |-> TRUE]
       [] OTHER -> [m |-> suffix_object(m, Last(list), i), ok |-> TRUE]

\* Slip: the parent's child stays when the first child is taken out.
DetachKeepsHead(m, p, i) ==
  LET unlinked == SetPrev(SetNext(m, m.item[i].prev, m.item[i].next), m.item[i].next, m.item[i].prev)
  IN IF i = Null THEN [m |-> m, p |-> Null]
     ELSE [m |-> SetNext(SetPrev(unlinked, i, Null), i, Null), p |-> i]

cJSON_DetachItemViaPointer(m, p, i) ==
  LET it == m.item[i]
      unlinked == SetPrev(SetNext(m, it.prev, it.next), it.next, it.prev)
      headed == IF i = m.item[p].child THEN SetChild(unlinked, p, it.next) ELSE unlinked
  IN IF i = Null THEN [m |-> m, p |-> Null]
     ELSE [m |-> SetNext(SetPrev(headed, i, Null), i, Null), p |-> i]

cJSON_InsertItemInArray(m, p, which, new) ==
  LET after == get_array_item(m, p, which)
      before == m.item[after].prev
      linked == SetPrev(SetPrev(SetNext(m, new, after), new, before), after, new)
  IN CASE which < 0 -> [m |-> m, ok |-> FALSE]
       [] which >= 0 /\ after = Null -> add_item_to_array(m, p, new)
       [] which >= 0 /\ after # Null /\ after = m.item[p].child ->
            [m |-> SetChild(linked, p, new), ok |-> TRUE]
       [] OTHER -> [m |-> SetNext(linked, before, new), ok |-> TRUE]

\* cJSON_ReplaceItemViaPointer up to the point where item i is deleted.
TakePlace(m, p, i, new) ==
  LET it == m.item[i]
      taken == SetPrev(SetNext(m, new, it.next), new, it.prev)
      linked == SetNext(SetPrev(taken, it.next, new), it.prev, new)
      headed == IF m.item[p].child = i THEN SetChild(linked, p, new) ELSE linked
  IN SetPrev(SetNext(headed, i, Null), i, Null)

\* Links n below p, after the item `last' that was linked before it.
\* Slip: every copied child becomes the first one.
GrowAtHead(m, p, last, n) == SetChild(IF last = Null THEN m ELSE suffix_object(m, n, last), p, n)
Grow(m, p, last, n) == IF last = Null THEN SetChild(m, p, n) ELSE suffix_object(m, last, n)
-----------------------------------------------------------------------------
OneToOne(s) == \A m, n \in DOMAIN s : s[m] = s[n] => m = n

\* The chain that starts at `first' is the sequence `list', linked both ways.
Linked(m, first, list) ==
  /\ first = IF list = <<>> THEN Null ELSE list[1]
  /\ \A a \in DOMAIN list :
       /\ m.item[list[a]].next = IF a = Len(list) THEN Null ELSE list[a + 1]
       /\ m.item[list[a]].prev = IF a = 1 THEN Null ELSE list[a - 1]

\* What the forest k with the roots r is in memory: every item is at one place, and
\* a root has no siblings.  What hangs on a reference belongs to another item.
Shows(m, k, r) ==
  /\ k \in [Id -> Seq(Id)] /\ r \subseteq Id
  /\ \A p \in Id : IF m.item[p].ref THEN k[p] = <<>> ELSE Linked(m, m.item[p].child, k[p])
  /\ \A p \in Id : OneToOne(k[p]) /\ r \cap ToSet(k[p]) = {}
  /\ \A p, q \in Id : p # q => ToSet(k[p]) \cap ToSet(k[q]) = {}
  /\ \A i \in r : m.item[i].next = Null /\ m.item[i].prev = Null
=============================================================================
