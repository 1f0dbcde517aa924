----------------------------- MODULE JsonItems ------------------------------
(***************************************************************************)
(* A program that calls cJSON.c: it holds the items that a function gave   *)
(* it and that no function took over (roots), and reaches the others       *)
(* through them.  It keeps to what cJSON.h asks of it:                     *)
(*   - it hands over roots only, and no document becomes part of itself;   *)
(*   - children are added to arrays and objects that are no references,    *)
(*     without a name to arrays and with a name to objects;                *)
(*   - an item is left alone while a reference to it is about.             *)
(*                                                                         *)
(* A program creates items of some types, uses some names, and has room    *)
(* for some blocks (Program).  MaxPlace bounds the place in an array,      *)
(* MaxHeld the roots.                                                      *)
(***************************************************************************)
EXTENDS JsonHeap, FiniteSetsExt

CONSTANTS Program, Val, MaxPlace, MaxHeld

Type == Text \cup Container \cup Scalar
Key == DOMAIN Fold

ASSUME ItemsAssumption == /\ Program \subseteq [types : SUBSET Type, keys : SUBSET Key,
                                                room : 1..Cardinality(Id)]
                          /\ Val \subseteq Nat \ {0}
                          /\ MaxPlace \in Nat /\ MaxHeld \in Nat

VARIABLES program,  \* what the program uses; it does not change
          heap,     \* the blocks of cJSON.c
          roots,    \* the items that the program holds
          lost,     \* items that nobody can reach any more
          starved   \* whether the name of a replacement could not be copied

vars == <<program, heap, roots, lost, starved>>

Item(i) == heap.item[i]

TypeOK ==
  /\ program \in Program
  /\ heap.item \in [Id -> [type : Type \cup {"freed"},
                           ref : BOOLEAN, cst : BOOLEAN, next : Id \cup {Null},
                           prev : Id \cup {Null}, child : Id \cup {Null},
                           val : Val \cup {0}, string : Key \cup {0}, of : Id \cup {Null}]]
  /\ heap.strings \in Nat /\ heap.room \in Nat
  /\ roots \subseteq Live(heap) /\ lost \subseteq Live(heap)
  /\ starved \in BOOLEAN

Init == /\ program \in Program /\ heap = EmptyHeap(program.room)
        /\ roots = {} /\ lost = {} /\ starved = FALSE

Trees == UNION {Owned(heap, r) : r \in roots}
Referred == {Item(r).of : r \in Live(heap)} \ {Null}

Parents(type) == {p \in Trees : Is(heap, p, type) /\ ~Item(p).ref /\ p \notin Referred}
Fits(p, i) == i \in roots \ Referred /\ p \notin Seen(heap, i)
MayGo(i) == {r \in Live(heap) : Item(r).of \in Owned(heap, i)} \subseteq Owned(heap, i)
Values(type) == IF type \in Text \cup {"Number"} THEN Val ELSE {0}

\* A call that returns a pointer to an item that is the caller's from now on.
Gain(r) == /\ heap' = r.m
           /\ roots' = roots \cup ({r.p} \ {Null})
           /\ Cardinality(roots') <= MaxHeld
           /\ UNCHANGED <<program, lost, starved>>

\* A call that leaves heap m, and takes over the root i when `taken' holds.
Hand(m, i, taken) == /\ heap' = m
                     /\ roots' = IF taken THEN roots \ {i} ELSE roots
                     /\ UNCHANGED <<program, lost, starved>>
-----------------------------------------------------------------------------
CreateItem == \E type \in program.types : \E v \in Values(type) : Gain(Create(heap, type, v))

CreateArray == \E type \in program.types \cap {"Number", "String"}, values \in Val \X Val :
  Gain(CreateArrayOf(heap, type, values))

CreateReference ==
  \/ "String" \in program.types /\ \E v \in Val : Gain(cJSON_CreateStringReference(heap, v))
  \/ \E type \in Container \cap program.types, i \in roots \ Referred :
       Item(i).of = Null /\ Gain(CreateContainerReference(heap, type, i))

Duplicate == \E i \in Trees, recurse \in BOOLEAN : Gain(cJSON_Duplicate(heap, i, recurse))

AddItemToArray == \E p \in Parents("Array") : \E i \in {j \in roots : Fits(p, j)} :
  Hand(add_item_to_array(heap, p, i).m, i, TRUE)

\* cJSON_AddItemToObject and, when the name is constant, cJSON_AddItemToObjectCS.
AddItemToObject == \E o \in Parents("Object"), key \in program.keys, constant_key \in BOOLEAN :
  \E i \in {j \in roots : Fits(o, j)} :
    LET r == add_item_to_object(heap, o, key, i, constant_key) IN Hand(r.m, i, r.ok)

AddItemReferenceToArray == \E p \in Parents("Array"), i \in Trees :
  /\ p \notin Seen(heap, i)
  /\ LET new == create_reference(heap, i)
     IN Hand(add_item_to_array(new.m, p, new.p).m, Null, FALSE)

\* Without memory for the name, nobody has the new reference.
AddItemReferenceToObject == \E o \in Parents("Object"), i \in Trees, key \in program.keys :
  /\ o \notin Seen(heap, i)
  /\ LET new == create_reference(heap, i)
         r == add_item_to_object(new.m, o, key, new.p, FALSE)
     IN /\ heap' = r.m
        /\ lost' = IF r.ok THEN lost ELSE lost \cup ({new.p} \ {Null})
        /\ UNCHANGED <<program, roots, starved>>

AddToObject == \E o \in Parents("Object"), key \in program.keys, type \in program.types : \E v \in Values(type) :
  Hand(AddNewToObject(heap, o, key, type, v).m, Null, FALSE)

\* What a place or a name leads to, and that it may be taken out or thrown away.
Detach(p, i) == /\ i \notin Referred
                /\ Gain(cJSON_DetachItemViaPointer(heap, p, i))
DeleteItem(p, i) ==
  /\ MayGo(i)
  /\ LET r == cJSON_DetachItemViaPointer(heap, p, i)
     IN Hand(cJSON_Delete(r.m, r.p), Null, FALSE)

FromArray == \E p \in Parents("Array"), which \in -1..MaxPlace :
  LET i == get_array_item(heap, p, which) IN Detach(p, i) \/ DeleteItem(p, i)

FromObject == \E o \in Parents("Object"), key \in program.keys, case_sensitive \in BOOLEAN :
  LET i == get_object_item(heap, o, key, case_sensitive) IN Detach(o, i) \/ DeleteItem(o, i)

InsertItemInArray == \E p \in Parents("Array"), which \in -1..MaxPlace :
  \E i \in {j \in roots : Fits(p, j)} :
    LET r == cJSON_InsertItemInArray(heap, p, which, i) IN Hand(r.m, i, r.ok)

ReplaceItemInArray == \E p \in Parents("Array"), which \in -1..MaxPlace :
  \E i \in {j \in roots : Fits(p, j)} :
    LET old == get_array_item(heap, p, which)
        r == cJSON_ReplaceItemViaPointer(heap, p, old, i)
    IN MayGo(old) /\ Hand(r.m, i, r.ok)

ReplaceItemInObject == \E o \in Parents("Object"), key \in program.keys, case_sensitive \in BOOLEAN :
  \E i \in {j \in roots : Fits(o, j)} :
    LET old == get_object_item(heap, o, key, case_sensitive)
        r == replace_item_in_object(heap, o, key, i, case_sensitive)
    IN /\ MayGo(old)
       /\ heap' = r.m
       /\ roots' = IF r.ok THEN roots \ {i} ELSE roots
       /\ starved' = (starved \/ r.m.item[i].string = 0)
       /\ UNCHANGED <<program, lost>>

Delete == \E i \in roots : /\ MayGo(i)
                           /\ heap' = cJSON_Delete(heap, i)
                           /\ roots' = roots \ {i}
                           /\ UNCHANGED <<program, lost, starved>>

Next == \/ CreateItem \/ CreateArray \/ CreateReference \/ Duplicate
        \/ AddItemToArray \/ AddItemToObject \/ AddToObject
        \/ AddItemReferenceToArray \/ AddItemReferenceToObject
        \/ FromArray \/ FromObject
        \/ InsertItemInArray \/ ReplaceItemInArray \/ ReplaceItemInObject
        \/ Delete

Spec == Init /\ [][Next]_vars
-----------------------------------------------------------------------------
\* Every item that is no reference has a list of children, and the lists are linked
\* both ways: an item is in one list at one place, or is a root without siblings.
\* suffix_object, InsertItemInArray, ReplaceItemViaPointer and DetachItemViaPointer
\* each rewrite up to five links by hand, and an append or a removal by place
\* never looks at prev: a wrong one shows only in a later call.
Lists == [i \in Id |-> IF Item(i).ref THEN <<>> ELSE Children(heap, i)]
ListsLinked == Shows(heap, Lists, roots)

\* Every block is owned: an item that is in use is under a root or is one of the
\* references that AddItemReferenceToObject dropped, the strings in use are the
\* ones those items free, and nothing was freed twice, whatever allocation of
\* whatever call failed.
NothingLost == /\ Live(heap) = Trees \cup lost
               /\ Trees \cap lost = {} /\ \A i \in lost : Item(i).ref
               /\ heap.strings = MapThenSumSet(LAMBDA i : Strings(Item(i)), Live(heap))
               /\ heap.room + Cardinality(Live(heap)) + heap.strings = program.room
               /\ ~heap.twice

\* Every member of an object has a name and is found by it, unless the name of a
\* replacement could not be copied once: the replacement, and what is copied from
\* it, has no name then, and the search that respects case stops at it, so it
\* hides the members behind it.
NamedMembersFound == \A o \in {p \in Trees : Is(heap, p, "Object") /\ ~Item(p).ref} :
  \A i \in Members(heap, o) :
    /\ Item(i).string = 0 => starved
    /\ Item(i).string # 0 =>
         /\ get_object_item(heap, o, Item(i).string, FALSE) # Null
         /\ \/ \E j \in Members(heap, o) : Item(j).string = 0
            \/ LET found == get_object_item(heap, o, Item(i).string, TRUE)
               IN found # Null /\ Item(found).string = Item(i).string

\* The value of a document, with the members of an object in any order.
RECURSIVE Value(_, _)
Value(i, case_sensitive) ==
  LET list == Children(heap, i)
      Label(n) == CASE Item(i).type = "Array" -> n
                    [] case_sensitive -> Item(list[n]).string
                    [] OTHER -> Fold[Item(list[n]).string]
  IN [type |-> Item(i).type, val |-> Item(i).val,
      kids |-> {<<Label(n), Value(list[n], case_sensitive)>> : n \in DOMAIN list}]

\* No object in it has a member without a name or two of one name.
Distinct(i, case_sensitive) == \A o \in Seen(heap, i) : Is(heap, o, "Object") =>
  LET list == Children(heap, o)
      Name(n) == Item(list[n]).string
  IN \A m, n \in DOMAIN list :
       /\ Name(n) # 0 /\ Name(m) # 0
       /\ m # n => IF case_sensitive THEN Name(m) # Name(n) ELSE Fold[Name(m)] # Fold[Name(n)]

\* cJSON_Compare says whether two documents have the same value, through
\* references too, as long as no name is twice in an object.
CompareIsEquality == \A a, b \in Trees, case_sensitive \in BOOLEAN :
  Distinct(a, case_sensitive) /\ Distinct(b, case_sensitive) =>
    (cJSON_Compare(heap, a, b, case_sensitive)
       <=> Value(a, case_sensitive) = Value(b, case_sensitive))

\* What can be seen of item i in heap m, with names and order.
RECURSIVE Shape(_, _)
Shape(m, i) == LET list == Children(m, i)
               IN [type |-> m.item[i].type, val |-> m.item[i].val, string |-> m.item[i].string,
                   kids |-> [n \in DOMAIN list |-> Shape(m, list[n])]]

\* cJSON_Duplicate copies all of a document, what its references show included,
\* into items of the copy alone; or, when any of the allocations fails, it frees
\* what it had copied and leaves the heap as it was: for every room there may be.
CopyWholeOrNothing == \A i \in Trees, room \in 0..Cardinality(Id \ Live(heap)) :
  LET before == [heap EXCEPT !.room = room]
      copy == cJSON_Duplicate(before, i, TRUE)
  IN IF copy.p = Null THEN copy.m = before
     ELSE /\ Shape(copy.m, copy.p) = Shape(heap, i)
          /\ Seen(copy.m, copy.p) \cap Live(heap) = {}

\* The items are documents: every call is one edit of JsonForest, or none.
Forest == INSTANCE JsonForest WITH
  Node <- Id,
  kids <- Lists
ImplementsForest == Forest!Spec
=============================================================================
