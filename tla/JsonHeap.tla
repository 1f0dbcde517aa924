------------------------------ MODULE JsonHeap ------------------------------
(***************************************************************************)
(* The items of cJSON.c in memory: an item is a block with links to its    *)
(* siblings and to its first child; its string value and its name are      *)
(* blocks of their own.  A function of cJSON.c is an operator that takes a *)
(* heap and returns the heap it leaves, with the pointer or the success it *)
(* returns.  malloc fails when there is no room for another block.         *)
(*                                                                         *)
(* Strings and numbers are positive numbers, and 0 stands for none: only   *)
(* equality is told apart, and for names equality up to case (Fold).  `of' *)
(* is not in the code: it is the item a reference was made from.           *)
(***************************************************************************)
EXTENDS JsonLinks

CONSTANT Fold        \* name -> the name in lower case

ASSUME HeapAssumption == /\ DOMAIN Fold \subseteq Nat \ {0}
                         /\ Fold \in [DOMAIN Fold -> DOMAIN Fold]

Text == {"String", "Raw"}                     \* the types with a valuestring
Container == {"Array", "Object"}
Scalar == {"False", "True", "NULL", "Number"}

Zeroed == [type |-> "Invalid", ref |-> FALSE, cst |-> FALSE, next |-> Null,
           prev |-> Null, child |-> Null, val |-> 0, string |-> 0, of |-> Null]
Freed == [Zeroed EXCEPT !.type = "freed"]
EmptyHeap(room) == [item |-> [i \in Id |-> Freed], strings |-> 0, room |-> room,
                    twice |-> FALSE]

Live(m) == {i \in Id : m.item[i].type # "freed"}

\* The string blocks that item `it' frees when it is deleted.
Strings(it) == (IF ~it.ref /\ it.type \in Text /\ it.val # 0 THEN 1 ELSE 0)
               + (IF ~it.cst /\ it.string # 0 THEN 1 ELSE 0)

Members(m, p) == ToSet(Children(m, p))

\* What is deleted with i, and what can be seen from i: the walk through a
\* reference shows the children of another item.
RECURSIVE Owned(_, _)
Owned(m, i) == IF i = Null THEN {}
               ELSE {i} \cup (IF m.item[i].ref THEN {}
                              ELSE UNION {Owned(m, j) : j \in Members(m, i)})
RECURSIVE Seen(_, _)
Seen(m, i) == {i} \cup UNION {Seen(m, j) : j \in Members(m, i)}
-----------------------------------------------------------------------------
NewAddress(m) == CHOOSE i \in Id \ Live(m) : TRUE

cJSON_New_Item(m) ==
  IF m.room = 0 THEN [m |-> m, p |-> Null]
  ELSE [m |-> [m EXCEPT !.room = @ - 1, !.item[NewAddress(m)] = Zeroed],
        p |-> NewAddress(m)]

\* Slip: the string is copied without a look at what malloc returned.
UncheckedStrdup(m) == [m |-> [m EXCEPT !.room = @ - 1, !.strings = @ + 1], ok |-> TRUE]
cJSON_strdup(m) ==
  IF m.room = 0 THEN [m |-> m, ok |-> FALSE]
  ELSE [m |-> [m EXCEPT !.room = @ - 1, !.strings = @ + 1], ok |-> TRUE]
FreeStrings(m, n) == [m EXCEPT !.room = @ + n, !.strings = @ - n]

\* cJSON_Delete frees i, what i owns, and the siblings that follow i.
RECURSIVE cJSON_Delete(_, _)
cJSON_Delete(m, i) ==
  IF i = Null THEN m
  ELSE LET it == m.item[i]
           below == IF ~it.ref THEN cJSON_Delete(m, it.child) ELSE m
           bare == FreeStrings(below, Strings(it))
       IN cJSON_Delete([bare EXCEPT !.room = @ + 1,
                                    !.twice = @ \/ bare.item[i].type = "freed",
                                    !.item[i] = Freed], it.next)

Give(m, p) == [m |-> m, p |-> p]
\* Slip: what was made so far is not deleted when a later allocation fails.
GiveUpLeaking(m, p) == Give(m, Null)
GiveUp(m, p) == Give(cJSON_Delete(m, p), Null)

\* The copy of a string value or of a name that item p gets.
WithValue(m, p, v) ==
  LET copy == cJSON_strdup(m)
  IN IF copy.ok THEN Give([copy.m EXCEPT !.item[p].val = v], p) ELSE GiveUp(m, p)

\* cJSON_CreateNull, ...Number, ...String, ...Raw, ...Array, ...Object and so on.
Create(m, type, v) ==
  LET new == cJSON_New_Item(m)
      typed == [new.m EXCEPT !.item[new.p].type = type]
  IN CASE new.p = Null -> new
       [] type \in Text -> WithValue(typed, new.p, v)
       [] type = "Number" -> Give([typed EXCEPT !.item[new.p].val = v], new.p)
       [] OTHER -> Give(typed, new.p)

cJSON_CreateStringReference(m, v) ==
  LET new == cJSON_New_Item(m)
  IN IF new.p = Null THEN new
     ELSE Give([new.m EXCEPT !.item[new.p] =
                  [@ EXCEPT !.type = "String", !.ref = TRUE, !.val = v]], new.p)

\* cJSON_CreateObjectReference and cJSON_CreateArrayReference.
CreateContainerReference(m, type, child) ==
  LET new == cJSON_New_Item(m)
  IN IF new.p = Null THEN new
     ELSE Give([new.m EXCEPT !.item[new.p] =
                  [@ EXCEPT !.type = type, !.ref = TRUE, !.child = child, !.of = child]],
               new.p)

create_reference(m, i) ==
  LET new == cJSON_New_Item(m)
      it == m.item[i]
      original == IF it.of # Null THEN it.of ELSE i
  IN IF new.p = Null THEN new
     ELSE Give([new.m EXCEPT !.item[new.p] =
                  [it EXCEPT !.string = 0, !.ref = TRUE, !.next = Null, !.prev = Null,
                             !.of = original]], new.p)
-----------------------------------------------------------------------------
\* The walk that respects case also stops at a member without a name.
\* Slip: case is respected whether or not that was asked for.
RespectCase(m, o, name, case_sensitive) ==
  LET found == {i \in Members(m, o) : m.item[i].string = name}
  IN IF name = 0 \/ found = {} THEN Null ELSE CHOOSE i \in found : TRUE

get_object_item(m, o, name, case_sensitive) ==
  LET list == Children(m, o)
      key(n) == m.item[list[n]].string
      Stops(n) == IF case_sensitive THEN key(n) \in {0, name}
                  ELSE key(n) # 0 /\ Fold[key(n)] = Fold[name]
      stop == {n \in DOMAIN list : Stops(n)}
      first == CHOOSE n \in stop : \A k \in stop : n <= k
  IN IF name = 0 \/ stop = {} THEN Null
     ELSE IF key(first) = 0 THEN Null ELSE list[first]

\* The name item i had is freed, unless the caller owns it.
Rename(m, i, name, constant_key) ==
  LET old == IF ~m.item[i].cst /\ m.item[i].string # 0 THEN 1 ELSE 0
  IN [FreeStrings(m, old) EXCEPT !.item[i] = [@ EXCEPT !.string = name, !.cst = constant_key]]

\* Slip: the item keeps the name it had.
AddUnnamed(m, o, name, i, constant_key) == add_item_to_array(m, o, i)
add_item_to_object(m, o, name, i, constant_key) ==
  LET key == IF constant_key THEN [m |-> m, ok |-> TRUE] ELSE cJSON_strdup(m)
  IN IF i = Null \/ ~key.ok THEN [m |-> m, ok |-> FALSE]
     ELSE add_item_to_array(Rename(key.m, i, name, constant_key), o, i)

\* cJSON_AddNullToObject, ...NumberToObject, ...ArrayToObject and so on.
AddNewToObject(m, o, name, type, v) ==
  LET new == Create(m, type, v)
      added == add_item_to_object(new.m, o, name, new.p, FALSE)
  IN IF added.ok THEN Give(added.m, new.p) ELSE GiveUp(new.m, new.p)

cJSON_ReplaceItemViaPointer(m, p, i, new) ==
  CASE i = Null -> [m |-> m, ok |-> FALSE]
    [] i = new -> [m |-> m, ok |-> TRUE]
    [] OTHER -> [m |-> cJSON_Delete(TakePlace(m, p, i, new), i), ok |-> TRUE]

\* The replacement is named first, with no look at whether strdup succeeded.
replace_item_in_object(m, o, name, new, case_sensitive) ==
  LET bare == Rename(m, new, 0, FALSE)
      copy == cJSON_strdup(bare)
      named == IF copy.ok THEN [copy.m EXCEPT !.item[new].string = name] ELSE copy.m
  IN cJSON_ReplaceItemViaPointer(named, o, get_object_item(named, o, name, case_sensitive), new)
-----------------------------------------------------------------------------
\* The rest of cJSON_CreateIntArray, ...FloatArray, ...DoubleArray, ...StringArray.
RECURSIVE FillArray(_, _, _, _, _)
FillArray(m, a, last, type, values) ==
  IF values = <<>> THEN Give(m, a)
  ELSE LET n == Create(m, type, Head(values))
       IN IF n.p = Null THEN GiveUp(n.m, a)
          ELSE FillArray(Grow(n.m, a, last, n.p), a, n.p, type, Tail(values))

CreateArrayOf(m, type, values) ==
  LET a == Create(m, "Array", 0)
  IN IF a.p = Null THEN a ELSE FillArray(a.m, a.p, Null, type, values)

RECURSIVE cJSON_Duplicate(_, _, _), DuplicateChain(_, _, _, _)
cJSON_Duplicate(m, i, recurse) ==
  LET it == m.item[i]
      new == cJSON_New_Item(m)
      typed == [new.m EXCEPT !.item[new.p].type = it.type, !.item[new.p].cst = it.cst]
      value == IF it.type \in Text /\ it.val # 0 THEN WithValue(typed, new.p, it.val)
               ELSE Give([typed EXCEPT !.item[new.p].val = it.val], new.p)
      copy == IF it.cst \/ it.string = 0 THEN [m |-> value.m, ok |-> TRUE]
              ELSE cJSON_strdup(value.m)
      named == [copy.m EXCEPT !.item[new.p].string = it.string]
  IN CASE new.p = Null -> new
       [] new.p # Null /\ value.p = Null -> value
       [] new.p # Null /\ value.p # Null /\ ~copy.ok -> GiveUp(value.m, new.p)
       [] OTHER -> IF recurse THEN DuplicateChain(named, new.p, Null, it.child)
                   ELSE Give(named, new.p)

DuplicateChain(m, new, last, child) ==
  IF child = Null THEN Give(m, new)
  ELSE LET n == cJSON_Duplicate(m, child, TRUE)
       IN IF n.p = Null THEN GiveUp(n.m, new)
          ELSE DuplicateChain(Grow(n.m, new, last, n.p), new, n.p, m.item[child].next)
-----------------------------------------------------------------------------
\* cJSON_IsInvalid, cJSON_IsFalse, ..., cJSON_IsRaw.
Is(m, i, type) == i # Null /\ m.item[i].type = type

RECURSIVE cJSON_Compare(_, _, _, _)
cJSON_Compare(m, a, b, case_sensitive) ==
  LET ia == m.item[a]
      ib == m.item[b]
      la == Children(m, a)
      lb == Children(m, b)
      Pairs == Len(la) = Len(lb)
               /\ \A n \in DOMAIN la : cJSON_Compare(m, la[n], lb[n], case_sensitive)
      Within(o, list) == \A n \in DOMAIN list :
        LET twin == get_object_item(m, o, m.item[list[n]].string, case_sensitive)
        IN twin # Null /\ cJSON_Compare(m, list[n], twin, case_sensitive)
  IN /\ a # Null /\ b # Null /\ ia.type = ib.type /\ ~Is(m, a, "Invalid")
     /\ \/ a = b
        \/ ia.type \in Scalar \ {"Number"}
        \/ ia.type = "Number" /\ ia.val = ib.val
        \/ ia.type \in Text /\ ia.val # 0 /\ ia.val = ib.val
        \/ ia.type = "Array" /\ Pairs
        \/ ia.type = "Object" /\ Within(b, la) /\ Within(a, lb)
=============================================================================
