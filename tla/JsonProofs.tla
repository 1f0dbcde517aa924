----------------------------- MODULE JsonProofs -----------------------------
(***************************************************************************)
(* Proofs about the documents of cJSON.c, for documents of every size.     *)
(***************************************************************************)
EXTENDS JsonForest, JsonLinks, Counting, SequenceTheorems

(***************************************************************************)
(* Sequences of children, as sets                                          *)
(***************************************************************************)

\* InsertAt adds one element; RemoveAt takes one away, as a list of children has
\* a child once only.
LEMMA InsertAtIs ==
  ASSUME NEW S, NEW s \in Seq(S), NEW n \in 1..(Len(s) + 1), NEW e \in S
  PROVE  /\ InsertAt(s, n, e) \in Seq(S) /\ Len(InsertAt(s, n, e)) = Len(s) + 1
         /\ \A m \in 1..(Len(s) + 1) :
              InsertAt(s, n, e)[m] = IF m < n THEN s[m] ELSE IF m = n THEN e ELSE s[m - 1]
<1> DEFINE front == SubSeq(s, 1, n - 1)
           one == <<e>>
           both == front \o one
           rear == SubSeq(s, n, Len(s))
<1>1. /\ front \in Seq(S) /\ Len(front) = n - 1
      /\ \A m \in 1..(n - 1) : front[m] = s[m]
  BY SubSeqProperties
<1>2. /\ rear \in Seq(S) /\ Len(rear) = Len(s) - n + 1
      /\ \A m \in 1..(Len(s) - n + 1) : rear[m] = s[n + m - 1]
  BY SubSeqProperties
<1>3. InsertAt(s, n, e) = both \o rear
  BY DEF InsertAt
<1>4. one \in Seq(S) /\ Len(one) = 1 /\ one[1] = e
  OBVIOUS
<1>5. Len(s) \in Nat
  OBVIOUS
<1> HIDE DEF front, rear, one
<1>6. /\ both \in Seq(S) /\ Len(both) = n
      /\ \A m \in 1..n : both[m] = IF m <= n - 1 THEN front[m] ELSE one[m - (n - 1)]
  <2>1. /\ both \in Seq(S) /\ Len(both) = Len(front) + Len(one)
        /\ \A m \in 1..(Len(front) + Len(one)) :
             both[m] = IF m <= Len(front) THEN front[m] ELSE one[m - Len(front)]
    BY <1>1, <1>4, ConcatProperties
  <2>2. Len(front) + Len(one) = n /\ Len(front) = n - 1
    BY <1>1, <1>4, <1>5
  <2> QED
    BY <2>1, <2>2
<1>7. \A m \in 1..n : both[m] = IF m < n THEN s[m] ELSE e
  <2> TAKE m \in 1..n
  <2>0. n \in Int /\ m \in Int /\ m <= n
    BY <1>5
  <2>1. CASE m < n
    BY <2>1, <1>1, <1>6, <1>5
  <2>2. CASE m = n
    <3>1. ~(m <= n - 1) /\ m - (n - 1) = 1
      BY <2>2, <1>5
    <3> QED
      BY <3>1, <2>2, <1>4, <1>6
  <2>3. m < n \/ m = n
    BY <2>0
  <2> QED
    BY <2>1, <2>2, <2>3
<1> HIDE DEF both
<1>8. /\ both \o rear \in Seq(S) /\ Len(both \o rear) = Len(s) + 1
      /\ \A m \in 1..(Len(s) + 1) :
           (both \o rear)[m] = IF m <= n THEN both[m] ELSE rear[m - n]
  BY <1>2, <1>5, <1>6, ConcatProperties
<1>9. \A m \in 1..(Len(s) + 1) :
        (both \o rear)[m] = IF m < n THEN s[m] ELSE IF m = n THEN e ELSE s[m - 1]
  <2> TAKE m \in 1..(Len(s) + 1)
  <2>0. n \in Int /\ m \in Int
    BY <1>5
  <2>1. CASE m <= n
    <3>1. m \in 1..n /\ (both \o rear)[m] = both[m]
      BY <2>1, <1>8, <1>5
    <3> QED
      BY <3>1, <1>7, <2>1, <1>5
  <2>2. CASE m > n
    <3>1. (both \o rear)[m] = rear[m - n] /\ m - n \in 1..(Len(s) - n + 1)
      BY <2>2, <1>8, <1>5
    <3>2. rear[m - n] = s[n + (m - n) - 1] /\ n + (m - n) - 1 = m - 1
      BY <3>1, <1>2, <1>5
    <3> QED
      BY <3>1, <3>2, <2>2, <1>5
  <2>3. m <= n \/ m > n
    BY <2>0
  <2> QED
    BY <2>1, <2>2, <2>3
<1> QED
  BY <1>3, <1>8, <1>9

LEMMA RemoveAtIs ==
  ASSUME NEW S, NEW s \in Seq(S), NEW n \in 1..Len(s)
  PROVE  /\ RemoveAt(s, n) \in Seq(S) /\ Len(RemoveAt(s, n)) = Len(s) - 1
         /\ \A m \in 1..(Len(s) - 1) :
              RemoveAt(s, n)[m] = IF m < n THEN s[m] ELSE s[m + 1]
<1> DEFINE front == SubSeq(s, 1, n - 1)
           rear == SubSeq(s, n + 1, Len(s))
<1>1. /\ front \in Seq(S) /\ Len(front) = n - 1
      /\ \A m \in 1..(n - 1) : front[m] = s[m]
  BY SubSeqProperties
<1>2. /\ rear \in Seq(S) /\ Len(rear) = Len(s) - n
      /\ \A m \in 1..(Len(s) - n) : rear[m] = s[n + 1 + m - 1]
  BY SubSeqProperties
<1>3. RemoveAt(s, n) = front \o rear
  BY DEF RemoveAt
<1>4. Len(s) \in Nat
  OBVIOUS
<1> HIDE DEF front, rear
<1>5. /\ front \o rear \in Seq(S) /\ Len(front \o rear) = Len(s) - 1
      /\ \A m \in 1..(Len(s) - 1) :
           (front \o rear)[m] = IF m <= n - 1 THEN front[m] ELSE rear[m - (n - 1)]
  <2>1. /\ front \o rear \in Seq(S) /\ Len(front \o rear) = Len(front) + Len(rear)
        /\ \A m \in 1..(Len(front) + Len(rear)) :
             (front \o rear)[m] = IF m <= Len(front) THEN front[m] ELSE rear[m - Len(front)]
    BY <1>1, <1>2, ConcatProperties
  <2>2. Len(front) + Len(rear) = Len(s) - 1 /\ Len(front) = n - 1
    BY <1>1, <1>2, <1>4
  <2> QED
    BY <2>1, <2>2
<1>6. \A m \in 1..(Len(s) - 1) : (front \o rear)[m] = IF m < n THEN s[m] ELSE s[m + 1]
  <2> TAKE m \in 1..(Len(s) - 1)
  <2>0. n \in Int /\ m \in Int
    BY <1>4
  <2>1. CASE m < n
    BY <2>1, <1>1, <1>4, <1>5
  <2>2. CASE m >= n
    <3>1. (front \o rear)[m] = rear[m - (n - 1)] /\ m - (n - 1) \in 1..(Len(s) - n)
      <4>1. ~(m <= n - 1) /\ m - (n - 1) \in 1..(Len(s) - n)
        BY <2>0, <2>2, <1>4
      <4> QED
        BY <4>1, <1>5
    <3>2. rear[m - (n - 1)] = s[n + 1 + (m - (n - 1)) - 1] /\ n + 1 + (m - (n - 1)) - 1 = m + 1
      BY <3>1, <1>2, <1>4
    <3> QED
      BY <3>1, <3>2, <2>2, <1>4
  <2>3. m < n \/ m >= n
    BY <2>0
  <2> QED
    BY <2>1, <2>2, <2>3
<1> QED
  BY <1>3, <1>5, <1>6

LEMMA Inserting ==
  ASSUME NEW S, NEW s \in Seq(S), NEW n \in 1..(Len(s) + 1), NEW e \in S \ ToSet(s), OneToOne(s)
  PROVE  LET t == InsertAt(s, n, e)
         IN t \in Seq(S) /\ OneToOne(t) /\ ToSet(t) = ToSet(s) \cup {e}
<1> DEFINE t == InsertAt(s, n, e)
<1>1. /\ t \in Seq(S) /\ Len(t) = Len(s) + 1
      /\ \A m \in 1..(Len(s) + 1) : t[m] = IF m < n THEN s[m] ELSE IF m = n THEN e ELSE s[m - 1]
  BY InsertAtIs
<1> HIDE DEF t
<1>2. Len(s) \in Nat /\ DOMAIN s = 1..Len(s) /\ DOMAIN t = 1..(Len(s) + 1)
  BY <1>1
<1>3. \A m \in DOMAIN s : s[m] # e
  BY DEF ToSet
<1>4. OneToOne(t)
  <2> SUFFICES ASSUME NEW a \in DOMAIN t, NEW b \in DOMAIN t, a < b
               PROVE  t[a] # t[b]
    BY <1>2 DEF OneToOne
  <2>1. \A c, d \in DOMAIN s : c # d => s[c] # s[d]
    BY DEF OneToOne
  <2>2. CASE b < n
    BY <2>1, <2>2, <1>1, <1>2
  <2>3. CASE a < n /\ b = n
    <3>1. t[a] = s[a] /\ t[b] = e /\ a \in DOMAIN s
      BY <2>3, <1>1, <1>2
    <3> QED
      BY <3>1, <1>3
  <2>4. CASE a < n /\ n < b
    <3>1. t[a] = s[a] /\ t[b] = s[b - 1] /\ a \in DOMAIN s /\ b - 1 \in DOMAIN s /\ a # b - 1
      BY <2>4, <1>1, <1>2
    <3> QED
      BY <3>1, <2>1
  <2>5. CASE a = n
    <3>1. t[b] = s[b - 1] /\ t[a] = e /\ b - 1 \in DOMAIN s
      BY <2>5, <1>1, <1>2
    <3> QED
      BY <3>1, <1>3
  <2>6. CASE n < a
    <3>1. /\ t[a] = s[a - 1] /\ t[b] = s[b - 1] /\ a - 1 # b - 1
          /\ a - 1 \in DOMAIN s /\ b - 1 \in DOMAIN s
      BY <2>6, <1>1, <1>2
    <3> QED
      BY <3>1, <2>1
  <2>7. b < n \/ (a < n /\ b = n) \/ (a < n /\ n < b) \/ a = n \/ n < a
    BY <1>2
  <2> QED
    BY <2>2, <2>3, <2>4, <2>5, <2>6, <2>7
<1>5. ToSet(t) \subseteq ToSet(s) \cup {e}
  BY <1>1, <1>2 DEF ToSet
<1>6. e \in ToSet(t)
  BY <1>1, <1>2 DEF ToSet
<1>7. \A m \in DOMAIN s : s[m] \in ToSet(t)
  <2> TAKE m \in DOMAIN s
  <2>1. CASE m < n
    BY <2>1, <1>1, <1>2 DEF ToSet
  <2>2. CASE m >= n
    <3>1. m + 1 \in DOMAIN t /\ t[m + 1] = s[m]
      BY <2>2, <1>1, <1>2
    <3> QED
      BY <3>1 DEF ToSet
  <2> QED
    BY <2>1, <2>2, <1>2
<1>8. ToSet(s) \subseteq ToSet(t)
  BY <1>7 DEF ToSet
<1> QED
  BY <1>1, <1>4, <1>5, <1>6, <1>8 DEF t

LEMMA Removing ==
  ASSUME NEW S, NEW s \in Seq(S), NEW n \in DOMAIN s, OneToOne(s)
  PROVE  LET t == RemoveAt(s, n)
         IN t \in Seq(S) /\ OneToOne(t) /\ ToSet(t) = ToSet(s) \ {s[n]}
<1> DEFINE t == RemoveAt(s, n)
<1>0. Len(s) \in Nat /\ DOMAIN s = 1..Len(s)
  OBVIOUS
<1>1. /\ t \in Seq(S) /\ Len(t) = Len(s) - 1
      /\ \A m \in 1..(Len(s) - 1) : t[m] = IF m < n THEN s[m] ELSE s[m + 1]
  BY <1>0, RemoveAtIs
<1> HIDE DEF t
<1>2. DOMAIN t = 1..(Len(s) - 1)
  BY <1>0, <1>1
<1>3. OneToOne(t)
  BY <1>0, <1>1, <1>2 DEF OneToOne
<1>4. \A m \in DOMAIN t : t[m] \in ToSet(s) /\ t[m] # s[n]
  <2> TAKE m \in DOMAIN t
  <2>1. PICK l \in DOMAIN s : t[m] = s[l] /\ l # n
    BY <1>0, <1>1, <1>2
  <2> QED
    BY <2>1 DEF OneToOne, ToSet
<1>5. \A m \in DOMAIN s : s[m] # s[n] => s[m] \in ToSet(t)
  <2> SUFFICES ASSUME NEW m \in DOMAIN s, s[m] # s[n]
               PROVE  \E l \in DOMAIN t : t[l] = s[m]
    BY DEF ToSet
  <2>1. CASE m < n
    <3>1. m \in DOMAIN t /\ t[m] = s[m]
      BY <2>1, <1>0, <1>1, <1>2
    <3> QED
      BY <3>1
  <2>2. CASE m > n
    <3>1. m - 1 \in DOMAIN t /\ t[m - 1] = s[m]
      BY <2>2, <1>0, <1>1, <1>2
    <3> QED
      BY <3>1
  <2> QED
    BY <2>1, <2>2, <1>0
<1>6. ToSet(t) = ToSet(s) \ {s[n]}
  <2>1. \A y \in ToSet(t) : \E m \in DOMAIN t : y = t[m]
    BY DEF ToSet
  <2>2. \A y \in ToSet(s) : \E m \in DOMAIN s : y = s[m]
    BY DEF ToSet
  <2> QED
    BY <2>1, <2>2, <1>4, <1>5
<1> QED
  BY <1>1, <1>3, <1>6 DEF t

\* The sequence t is s with e at place n.
Replaced(s, n, e, t) == /\ DOMAIN t = DOMAIN s
                        /\ \A m \in DOMAIN s : t[m] = IF m = n THEN e ELSE s[m]

LEMMA Replacing ==
  ASSUME NEW s, OneToOne(s), NEW n \in DOMAIN s, NEW e, e \notin ToSet(s),
         NEW t, Replaced(s, n, e, t)
  PROVE  OneToOne(t) /\ ToSet(t) = (ToSet(s) \ {s[n]}) \cup {e}
<1>1. DOMAIN t = DOMAIN s /\ \A m \in DOMAIN s : t[m] = IF m = n THEN e ELSE s[m]
  BY DEF Replaced
<1>2. \A m \in DOMAIN s : s[m] # e
  BY DEF ToSet
<1>3. OneToOne(t)
  BY <1>1, <1>2 DEF OneToOne
<1>4. \A m \in DOMAIN t : t[m] \in (ToSet(s) \ {s[n]}) \cup {e}
  BY <1>1 DEF ToSet, OneToOne
<1>5. e \in ToSet(t)
  BY <1>1 DEF ToSet
<1>6. \A m \in DOMAIN s : s[m] # s[n] => s[m] \in ToSet(t)
  BY <1>1 DEF ToSet
<1>7. ToSet(t) = (ToSet(s) \ {s[n]}) \cup {e}
  <2>1. \A y \in ToSet(t) : \E m \in DOMAIN t : y = t[m]
    BY DEF ToSet
  <2>2. \A y \in ToSet(s) : \E m \in DOMAIN s : y = s[m]
    BY DEF ToSet
  <2> QED
    BY <2>1, <2>2, <1>4, <1>5, <1>6
<1> QED
  BY <1>3, <1>7

(***************************************************************************)
(* The edits, on sets of children                                          *)
(*                                                                         *)
(* Where a child stands matters to none of what makes a forest: each lemma *)
(* is about C, the set of the children of each node, and r, what is held.  *)
(***************************************************************************)

Kin(k) == [p \in Node |-> ToSet(k[p])]
Used(C, r) == r \cup UNION {C[p] : p \in Node}

LEMMA UsedIs ==
  ASSUME NEW C, NEW r, NEW x
  PROVE  x \in Used(C, r) <=> x \in r \/ \E q \in Node : x \in C[q]
BY DEF Used

\* No node under two parents, none below itself, no root under a parent; a node
\* not in use has no children.
Grove(C, r) ==
  /\ \A p, q \in Node : p # q => C[p] \cap C[q] = {}
  /\ \A S \in (SUBSET Node) \ {{}} : \E p \in S : C[p] \cap S = {}
  /\ \A p \in Node : r \cap C[p] = {}
  /\ \A p \in Node \ Used(C, r) : C[p] = {}

\* T has i and all that is below its members.
Holds(T, i, C) == T \subseteq Node /\ i \in T /\ \A p \in T : C[p] \subseteq T

\* A node that is held, or new, becomes a child of a node in use outside its own tree.
LEMMA HangKeeps ==
  ASSUME NEW C \in [Node -> SUBSET Node], NEW r \in SUBSET Node, Grove(C, r),
         NEW p \in Used(C, r), NEW i \in Node, \A q \in Node : i \notin C[q],
         NEW T, Holds(T, i, C), p \notin T, p \in Node
  PROVE  Grove([C EXCEPT ![p] = @ \cup {i}], r \ {i})
<1> DEFINE D == [C EXCEPT ![p] = @ \cup {i}]
<1>1. \A q \in Node : D[q] = IF q = p THEN C[q] \cup {i} ELSE C[q]
  OBVIOUS
<1> HIDE DEF D
<1>2. ASSUME NEW a \in Node, NEW b \in Node, a # b, NEW x \in D[a], x \in D[b]
      PROVE  FALSE
  <2>1. x \in C[a] \cup {i} /\ x \in C[b] \cup {i} /\ ~(x \in C[a] /\ x \in C[b])
    BY <1>1, <1>2 DEF Grove
  <2>2. x = i
    BY <2>1, <1>1, <1>2
  <2> QED
    BY <2>2, <1>1, <1>2
<1>3. ASSUME NEW S \in (SUBSET Node) \ {{}}
      PROVE  \E a \in S : D[a] \cap S = {}
  <2>1. CASE S \cap T = {}
    <3>1. PICK a \in S : C[a] \cap S = {}
      BY DEF Grove
    <3>2. D[a] \subseteq C[a] \cup {i} /\ i \notin S
      BY <1>1, <2>1 DEF Holds
    <3> QED
      BY <3>1, <3>2
  <2>2. CASE S \cap T # {}
    <3>1. PICK a \in S \cap T : C[a] \cap (S \cap T) = {}
      BY <2>2 DEF Grove
    <3>2. D[a] = C[a] /\ C[a] \subseteq T
      BY <3>1, <1>1 DEF Holds
    <3> QED
      BY <3>1, <3>2
  <2> QED
    BY <2>1, <2>2
<1>4. \A a \in Node : (r \ {i}) \cap D[a] = {}
  BY <1>1 DEF Grove
<1>5. ASSUME NEW a \in Node \ Used(D, r \ {i})
      PROVE  D[a] = {}
  <2>0. a \notin r \ {i} /\ \A q \in Node : a \notin D[q]
    BY <1>5, UsedIs
  <2>1. a # i
    BY <2>0, <1>1
  <2>2. a \notin Used(C, r)
    <3>1. a \notin r /\ \A q \in Node : a \notin C[q]
      BY <2>0, <2>1, <1>1
    <3> QED
      BY <3>1, UsedIs
  <2>3. a # p
    BY <2>2
  <2> QED
    BY <2>2, <2>3, <1>1 DEF Grove
<1> QED
  BY <1>2, <1>3, <1>4, <1>5 DEF Grove, D

\* A child becomes a root.
LEMMA DetachKeeps ==
  ASSUME NEW C \in [Node -> SUBSET Node], NEW r \in SUBSET Node, Grove(C, r),
         NEW p \in Node, NEW i \in C[p]
  PROVE  Grove([C EXCEPT ![p] = @ \ {i}], r \cup {i})
<1> DEFINE D == [C EXCEPT ![p] = @ \ {i}]
<1>1. \A q \in Node : D[q] = IF q = p THEN C[q] \ {i} ELSE C[q]
  OBVIOUS
<1> HIDE DEF D
<1>2. \A a \in Node : D[a] \subseteq C[a]
  BY <1>1
<1>3. \A a, b \in Node : a # b => D[a] \cap D[b] = {}
  BY <1>2 DEF Grove
<1>4. ASSUME NEW S \in (SUBSET Node) \ {{}}
      PROVE  \E a \in S : D[a] \cap S = {}
  <2>1. PICK a \in S : C[a] \cap S = {}
    BY DEF Grove
  <2> QED
    BY <2>1, <1>2
<1>5. ASSUME NEW a \in Node
      PROVE  (r \cup {i}) \cap D[a] = {}
  <2>1. r \cap D[a] = {}
    BY <1>2 DEF Grove
  <2>2. i \notin D[a]
    <3>1. CASE a = p
      BY <3>1, <1>1
    <3>2. CASE a # p
      <4>1. C[a] \cap C[p] = {}
        BY <3>2 DEF Grove
      <4> QED
        BY <4>1, <1>2
    <3> QED
      BY <3>1, <3>2
  <2> QED
    BY <2>1, <2>2
<1>6. ASSUME NEW a \in Node \ Used(D, r \cup {i})
      PROVE  D[a] = {}
  <2>1. ASSUME NEW q \in Node, a \in C[q]
        PROVE  FALSE
    <3>1. a \in D[q] \/ a = i
      BY <1>1, <2>1
    <3> QED
      BY <1>6, <3>1 DEF Used
  <2>2. a \notin Used(C, r)
    BY <1>6, <2>1 DEF Used
  <2> QED
    BY <2>2, <1>1, <1>2 DEF Grove
<1> QED
  BY <1>3, <1>4, <1>5, <1>6 DEF Grove, D

\* A root goes, with its tree.
LEMMA DropKeeps ==
  ASSUME NEW C \in [Node -> SUBSET Node], NEW r \in SUBSET Node, Grove(C, r),
         NEW top \in r, NEW T, Holds(T, top, C)
  PROVE  Grove([q \in Node |-> IF q \in T THEN {} ELSE C[q]], r \ {top})
<1> DEFINE D == [q \in Node |-> IF q \in T THEN {} ELSE C[q]]
<1>1. \A q \in Node : D[q] = IF q \in T THEN {} ELSE C[q]
  OBVIOUS
<1> HIDE DEF D
<1>2. \A a \in Node : D[a] \subseteq C[a]
  BY <1>1
<1>3. \A a, b \in Node : a # b => D[a] \cap D[b] = {}
  BY <1>2 DEF Grove
<1>4. ASSUME NEW S \in (SUBSET Node) \ {{}}
      PROVE  \E a \in S : D[a] \cap S = {}
  <2>1. PICK a \in S : C[a] \cap S = {}
    BY DEF Grove
  <2> QED
    BY <2>1, <1>2
<1>5. \A a \in Node : (r \ {top}) \cap D[a] = {}
  BY <1>2 DEF Grove
<1>6. ASSUME NEW a \in Node \ Used(D, r \ {top}), a \notin T
      PROVE  D[a] = {}
  <2>1. a \notin r
    BY <1>6 DEF Used, Holds
  <2>2. ASSUME NEW b \in Node, a \in C[b]
        PROVE  FALSE
    <3>1. b \notin T
      BY <2>2, <1>6 DEF Holds
    <3> QED
      BY <3>1, <2>2, <1>1, <1>6 DEF Used
  <2>3. a \notin Used(C, r)
    BY <2>1, <2>2 DEF Used
  <2> QED
    BY <2>3, <1>2 DEF Grove
<1>7. \A a \in Node \ Used(D, r \ {top}) : D[a] = {}
  BY <1>1, <1>6
<1> QED
  BY <1>3, <1>4, <1>5, <1>7 DEF Grove, D

\* A tree of nodes that were not in use becomes a document.
LEMMA BuildKeeps ==
  ASSUME NEW C \in [Node -> SUBSET Node], NEW r \in SUBSET Node, Grove(C, r),
         NEW D \in [Node -> SUBSET Node], NEW top \in Node, NEW T \in SUBSET Node,
         T \cap Used(C, r) = {}, \A p \in Node \ T : D[p] = C[p],
         \A p \in T : D[p] \subseteq T \ {top}, T = {top} \cup UNION {D[p] : p \in T},
         \A p, q \in T : p # q => D[p] \cap D[q] = {},
         \A S \in (SUBSET T) \ {{}} : \E p \in S : D[p] \cap S = {}
  PROVE  Grove(D, r \cup {top})
<1>1. \A p \in Node : C[p] \cap T = {}
  BY DEF Used
<1>2. \A a, b \in Node : a # b => D[a] \cap D[b] = {}
  BY <1>1 DEF Grove
<1>3. ASSUME NEW S \in (SUBSET Node) \ {{}}
      PROVE  \E a \in S : D[a] \cap S = {}
  <2>1. CASE S \cap T = {}
    <3>1. PICK a \in S : C[a] \cap S = {}
      BY DEF Grove
    <3> QED
      BY <3>1, <2>1
  <2>2. CASE S \cap T # {}
    <3>1. PICK a \in S \cap T : D[a] \cap (S \cap T) = {}
      BY <2>2
    <3> QED
      BY <3>1
  <2> QED
    BY <2>1, <2>2
<1>4. ASSUME NEW a \in Node
      PROVE  (r \cup {top}) \cap D[a] = {}
  <2>1. r \cap T = {} /\ top \in T
    BY DEF Used
  <2>2. CASE a \in T
    BY <2>1, <2>2
  <2>3. CASE a \notin T
    BY <2>1, <2>3, <1>1 DEF Grove
  <2> QED
    BY <2>2, <2>3
<1>5. ASSUME NEW a \in Node \ Used(D, r \cup {top})
      PROVE  D[a] = {}
  <2>1. a \notin T
    BY <1>5 DEF Used
  <2>2. ASSUME NEW b \in Node, a \in C[b]
        PROVE  FALSE
    <3>1. b \notin T
      <4>1. \A q \in T : C[q] = {}
        BY DEF Grove
      <4> QED
        BY <4>1, <2>2
    <3> QED
      BY <3>1, <2>2, <1>5 DEF Used
  <2>3. a \notin Used(C, r)
    BY <2>2, <1>5 DEF Used
  <2> QED
    BY <2>1, <2>3 DEF Grove
<1> QED
  BY <1>2, <1>3, <1>4, <1>5 DEF Grove

(***************************************************************************)
(* The documents                                                           *)
(***************************************************************************)

\* A forest, seen as a grove whose lists of children name a child once.
LEMMA ForestIsGrove ==
  ASSUME NEW k \in [Node -> Seq(Node)], NEW r \in SUBSET Node
  PROVE  /\ Kin(k) \in [Node -> SUBSET Node] /\ \A p \in Node : Kin(k)[p] = ToSet(k[p])
         /\ InUse(k, r) = Used(Kin(k), r)
         /\ IsForest(k, r) <=> Grove(Kin(k), r) /\ \A p \in Node : OneToOne(k[p])
<1>1. \A p \in Node : k[p] \in Seq(Node)
  OBVIOUS
<1>2. ASSUME NEW s \in Seq(Node)
      PROVE  ToSet(s) \subseteq Node /\ (ToSet(s) = {} <=> s = <<>>)
  <2>1. Len(s) \in Nat /\ DOMAIN s = 1..Len(s) /\ \A m \in 1..Len(s) : s[m] \in Node
    OBVIOUS
  <2>2. ToSet(s) \subseteq Node
    BY <2>1 DEF ToSet
  <2>3. CASE Len(s) = 0
    <3>1. s = <<>> /\ DOMAIN s = {}
      BY <2>1, <2>3
    <3> QED
      BY <2>2, <3>1 DEF ToSet
  <2>4. CASE Len(s) # 0
    <3>1. 1 \in DOMAIN s /\ s # <<>>
      BY <2>1, <2>4
    <3>2. s[1] \in ToSet(s)
      BY <3>1 DEF ToSet
    <3> QED
      BY <2>2, <3>1, <3>2
  <2> QED
    BY <2>3, <2>4
<1>3. Kin(k) \in [Node -> SUBSET Node] /\ \A p \in Node : Kin(k)[p] = ToSet(k[p])
  BY <1>1, <1>2 DEF Kin
<1>4. InUse(k, r) = Used(Kin(k), r)
  BY <1>3 DEF InUse, Used
<1>5. Places(Node, k) <=> /\ \A p, q \in Node : p # q => Kin(k)[p] \cap Kin(k)[q] = {}
                          /\ \A p \in Node : OneToOne(k[p])
  <2>1. ASSUME Places(Node, k)
        PROVE  /\ \A p, q \in Node : p # q => Kin(k)[p] \cap Kin(k)[q] = {}
               /\ \A p \in Node : OneToOne(k[p])
    BY <2>1, <1>3 DEF Places, OneToOne, ToSet
  <2>2. ASSUME \A p, q \in Node : p # q => Kin(k)[p] \cap Kin(k)[q] = {},
               \A p \in Node : OneToOne(k[p])
        PROVE  Places(Node, k)
    <3> SUFFICES ASSUME NEW p \in Node, NEW q \in Node, NEW m \in DOMAIN k[p],
                        NEW n \in DOMAIN k[q], k[p][m] = k[q][n]
                 PROVE  p = q /\ m = n
      BY DEF Places
    <3>1. k[p][m] \in Kin(k)[p] /\ k[p][m] \in Kin(k)[q]
      BY <1>3 DEF ToSet
    <3>2. p = q
      BY <3>1, <2>2
    <3> QED
      BY <3>2, <2>2 DEF OneToOne
  <2> QED
    BY <2>1, <2>2
<1>6. Descends(Node, k) <=>
        \A S \in (SUBSET Node) \ {{}} : \E p \in S : Kin(k)[p] \cap S = {}
  <2>1. \A S \in (SUBSET Node) \ {{}} :
          (\E p \in S : ToSet(k[p]) \cap S = {}) <=> \E p \in S : Kin(k)[p] \cap S = {}
    BY <1>3
  <2> QED
    BY <2>1, Zenon DEF Descends
<1>7. \A p \in Node : Kin(k)[p] = {} <=> k[p] = <<>>
  BY <1>1, <1>2, <1>3
<1>8. (\A p \in Node : r \cap ToSet(k[p]) = {}) <=> \A p \in Node : r \cap Kin(k)[p] = {}
  BY <1>3
<1>9. (\A p \in Node \ InUse(k, r) : k[p] = <<>>) <=>
        \A p \in Node \ Used(Kin(k), r) : Kin(k)[p] = {}
  BY <1>4, <1>7
<1>10. IsForest(k, r) <=> Grove(Kin(k), r) /\ \A p \in Node : OneToOne(k[p])
  BY <1>5, <1>6, <1>8, <1>9 DEF IsForest, Grove
<1> QED
  BY <1>3, <1>4, <1>10

LEMMA BelowHolds ==
  ASSUME NEW k \in [Node -> Seq(Node)], NEW T, NEW i, Below(T, i, k)
  PROVE  Holds(T, i, Kin(k))
<1>1. T \subseteq Node /\ i \in T /\ \A p \in T : ToSet(k[p]) \subseteq T
  BY DEF Below
<1> QED
  BY <1>1 DEF Holds, Kin

FInv == kids \in [Node -> Seq(Node)] /\ roots \in SUBSET Node /\ DocumentsAreTrees

\* What the invariant says, in the terms of the lemmas.
GInv == /\ kids \in [Node -> Seq(Node)] /\ roots \in SUBSET Node
        /\ Grove(Kin(kids), roots) /\ \A p \in Node : OneToOne(kids[p])
        /\ Kin(kids) \in [Node -> SUBSET Node] /\ \A p \in Node : Kin(kids)[p] = ToSet(kids[p])
        /\ Nodes = Used(Kin(kids), roots) /\ Nodes \subseteq Node

LEMMA FInvIsGInv == FInv => GInv
<1> SUFFICES ASSUME FInv PROVE GInv
  OBVIOUS
<1>1. /\ Kin(kids) \in [Node -> SUBSET Node] /\ \A p \in Node : Kin(kids)[p] = ToSet(kids[p])
      /\ Nodes = Used(Kin(kids), roots)
      /\ Grove(Kin(kids), roots) /\ \A p \in Node : OneToOne(kids[p])
  BY ForestIsGrove DEF FInv, Nodes, DocumentsAreTrees
<1>2. Nodes \subseteq Node
  BY <1>1, UsedIs DEF FInv
<1> QED
  BY <1>1, <1>2 DEF GInv, FInv

\* A forest after a step, from what the step does to the sets of children.
LEMMA GroveIsFInv ==
  ASSUME kids' \in [Node -> Seq(Node)], roots' \in SUBSET Node, NEW C,
         Grove(C, roots'), C \in [Node -> SUBSET Node],
         \A p \in Node : C[p] = ToSet(kids'[p]),
         \A p \in Node : OneToOne(kids'[p])
  PROVE  FInv'
<1>1. Kin(kids') = C
  BY DEF Kin
<1>2. IsForest(kids', roots')
  BY <1>1, ForestIsGrove
<1> QED
  BY <1>2 DEF FInv, DocumentsAreTrees

LEMMA FInvInit == Init => FInv
<1> SUFFICES ASSUME Init PROVE FInv
  OBVIOUS
<1>1. /\ kids \in [Node -> Seq(Node)] /\ roots \in SUBSET Node
      /\ \A p \in Node : kids[p] = <<>>
  BY DEF Init
<1>2. \A p \in Node : OneToOne(kids[p]) /\ ToSet(kids[p]) = {}
  BY <1>1 DEF OneToOne, ToSet
<1>3. \A p \in Node : Kin(kids)[p] = {}
  BY <1>1, <1>2, ForestIsGrove
<1>4. Grove(Kin(kids), roots)
  BY <1>3 DEF Grove, Init
<1> QED
  BY <1>1, <1>2, <1>4, ForestIsGrove DEF FInv, DocumentsAreTrees

LEMMA AdoptKeeps ==
  ASSUME FInv, NEW p \in Nodes, NEW n \in 1..(Len(kids[p]) + 1), Adopt(p, n)
  PROVE  FInv'
<1>0. GInv
  BY FInvIsGInv
<1>1. PICK i \in roots : /\ roots' = roots \ {i}
                         /\ kids' = [kids EXCEPT ![p] = InsertAt(@, n, i)]
                         /\ MayAdopt(p, i)
  BY DEF Adopt
<1>2. PICK T : p \notin T /\ Holds(T, i, Kin(kids))
  BY <1>0, <1>1, BelowHolds DEF MayAdopt, GInv
<1> DEFINE C == [Kin(kids) EXCEPT ![p] = @ \cup {i}]
<1>3. p \in Node /\ i \in Node /\ (\A q \in Node : i \notin Kin(kids)[q])
  BY <1>0 DEF GInv, Grove
<1>4. Grove(C, roots')
  BY <1>0, <1>1, <1>2, <1>3, HangKeeps DEF GInv
<1>5. LET t == InsertAt(kids[p], n, i)
      IN t \in Seq(Node) /\ OneToOne(t) /\ ToSet(t) = ToSet(kids[p]) \cup {i}
  BY <1>0, <1>3, Inserting DEF GInv
<1>6. /\ kids' \in [Node -> Seq(Node)] /\ C \in [Node -> SUBSET Node]
      /\ \A q \in Node : OneToOne(kids'[q]) /\ C[q] = ToSet(kids'[q])
  BY <1>0, <1>1, <1>3, <1>5 DEF GInv
<1>7. roots' \in SUBSET Node
  BY <1>0, <1>1 DEF GInv
<1> HIDE DEF C
<1> QED
  BY <1>4, <1>6, <1>7, GroveIsFInv

LEMMA AddNewKeeps ==
  ASSUME FInv, NEW p \in Nodes, AddNew(p)
  PROVE  FInv'
<1>0. GInv
  BY FInvIsGInv
<1>1. PICK i \in Node \ Nodes : kids' = [kids EXCEPT ![p] = Append(@, i)]
  BY DEF AddNew
<1> DEFINE C == [Kin(kids) EXCEPT ![p] = @ \cup {i}]
<1>2. roots' = roots /\ roots \ {i} = roots /\ (\A q \in Node : i \notin Kin(kids)[q])
  BY <1>0, UsedIs DEF AddNew, GInv
<1>3. p \in Node /\ p # i /\ Holds({i}, i, Kin(kids))
  BY <1>0 DEF GInv, Grove, Holds
<1>4. Grove(C, roots')
  <2>1. Grove(C, roots \ {i})
    BY <1>0, <1>2, <1>3, HangKeeps DEF GInv
  <2> QED
    BY <2>1, <1>2
<1>5. LET t == Append(kids[p], i)
      IN t \in Seq(Node) /\ OneToOne(t) /\ ToSet(t) = ToSet(kids[p]) \cup {i}
  <2> DEFINE s == kids[p]
             t == Append(s, i)
  <2>1. s \in Seq(Node) /\ OneToOne(s) /\ Len(s) \in Nat /\ DOMAIN s = 1..Len(s)
    BY <1>0, <1>3 DEF GInv
  <2>2. \A m \in DOMAIN s : s[m] # i
    BY <1>0, <1>2, <1>3 DEF GInv, ToSet
  <2>3. /\ t \in Seq(Node) /\ DOMAIN t = DOMAIN s \cup {Len(s) + 1} /\ Len(s) + 1 \notin DOMAIN s
        /\ t[Len(s) + 1] = i /\ \A m \in DOMAIN s : t[m] = s[m]
    BY <2>1
  <2> HIDE DEF s, t
  <2>4. OneToOne(t)
    BY <2>1, <2>2, <2>3 DEF OneToOne
  <2>5. ToSet(t) = ToSet(s) \cup {i}
    BY <2>3 DEF ToSet
  <2> QED
    BY <2>3, <2>4, <2>5 DEF s, t
<1>6. /\ kids' \in [Node -> Seq(Node)] /\ C \in [Node -> SUBSET Node]
      /\ \A q \in Node : OneToOne(kids'[q]) /\ C[q] = ToSet(kids'[q])
  BY <1>0, <1>1, <1>3, <1>5 DEF GInv
<1>7. roots' \in SUBSET Node
  BY <1>0, <1>2 DEF GInv
<1> HIDE DEF C
<1> QED
  BY <1>4, <1>6, <1>7, GroveIsFInv

LEMMA DetachStepKeeps ==
  ASSUME FInv, NEW p \in Nodes, NEW n \in DOMAIN kids[p], Detach(p, n)
  PROVE  FInv'
<1>0. GInv
  BY FInvIsGInv
<1> DEFINE i == kids[p][n]
           C == [Kin(kids) EXCEPT ![p] = @ \ {i}]
<1>1. p \in Node /\ i \in Kin(kids)[p] /\ i \in Node
  BY <1>0 DEF GInv, ToSet
<1>2. roots' = roots \cup {i} /\ kids' = [kids EXCEPT ![p] = RemoveAt(@, n)]
  BY DEF Detach
<1>4. Grove(C, roots')
  BY <1>0, <1>1, <1>2, DetachKeeps DEF GInv
<1>5. LET t == RemoveAt(kids[p], n)
      IN t \in Seq(Node) /\ OneToOne(t) /\ ToSet(t) = ToSet(kids[p]) \ {i}
  BY <1>0, <1>1, Removing DEF GInv
<1>6. /\ kids' \in [Node -> Seq(Node)] /\ C \in [Node -> SUBSET Node]
      /\ \A q \in Node : OneToOne(kids'[q]) /\ C[q] = ToSet(kids'[q])
  BY <1>0, <1>1, <1>2, <1>5 DEF GInv
<1>7. roots' \in SUBSET Node
  BY <1>0, <1>1, <1>2 DEF GInv
<1> HIDE DEF C, i
<1> QED
  BY <1>4, <1>6, <1>7, GroveIsFInv

LEMMA DeleteKeeps ==
  ASSUME FInv, NEW top \in roots, Delete(top)
  PROVE  FInv'
<1>0. GInv
  BY FInvIsGInv
<1>1. PICK T : /\ Below(T, top, kids) /\ roots' = roots \ {top}
               /\ kids' = [q \in Node |-> IF q = top THEN <<>>
                                          ELSE IF q \in T THEN <<>> ELSE kids[q]]
  BY DEF Delete, Prune
<1>2. Holds(T, top, Kin(kids))
  BY <1>0, <1>1, BelowHolds DEF GInv
<1> DEFINE C == [q \in Node |-> IF q \in T THEN {} ELSE Kin(kids)[q]]
<1>3. Grove(C, roots')
  BY <1>0, <1>1, <1>2, DropKeeps DEF GInv
<1>4. \A q \in Node : kids'[q] = IF q \in T THEN <<>> ELSE kids[q]
  BY <1>1, <1>2 DEF Holds
<1>5. <<>> \in Seq(Node) /\ OneToOne(<<>>) /\ ToSet(<<>>) = {}
  BY DEF OneToOne, ToSet
<1>6. /\ kids' \in [Node -> Seq(Node)] /\ C \in [Node -> SUBSET Node]
      /\ \A q \in Node : OneToOne(kids'[q]) /\ C[q] = ToSet(kids'[q])
  <2>1. kids' \in [Node -> Seq(Node)]
    BY <1>0, <1>1, <1>5 DEF GInv
  <2>2. C \in [Node -> SUBSET Node] /\ \A q \in Node : OneToOne(kids'[q]) /\ C[q] = ToSet(kids'[q])
    BY <1>0, <1>4, <1>5 DEF GInv
  <2> QED
    BY <2>1, <2>2
<1>7. roots' \in SUBSET Node
  BY <1>0, <1>1 DEF GInv
<1> HIDE DEF C
<1> QED
  BY <1>3, <1>6, <1>7, GroveIsFInv

\* The child x of p goes with its tree, after which p has the children `list'.
LEMMA PruneKeeps ==
  ASSUME FInv, NEW p \in Node, NEW x \in ToSet(kids[p]), NEW list \in Seq(Node), OneToOne(list),
         NEW r \in SUBSET Node, NEW B \in [Node -> SUBSET Node], Grove(B, r), x \in B[p],
         \A q \in Node \ {p} : B[q] = ToSet(kids[q]), ToSet(list) = B[p] \ {x},
         roots' = r, Prune(x, p, list)
  PROVE  FInv'
<1>0. GInv
  BY FInvIsGInv
<1>1. PICK T : /\ Below(T, x, kids) /\ p \notin T \ {x}
               /\ kids' = [q \in Node |-> IF q = p THEN list
                                          ELSE IF q \in T THEN <<>> ELSE kids[q]]
  BY DEF Prune
<1>2. Holds(T, x, Kin(kids))
  BY <1>0, <1>1, BelowHolds DEF GInv
<1>3. p \notin T
  <2>1. p # x
    <3>1. {p} \in (SUBSET Node) \ {{}}
      OBVIOUS
    <3>2. B[p] \cap {p} = {}
      BY <3>1 DEF Grove
    <3> QED
      BY <3>2
  <2> QED
    BY <2>1, <1>1
<1> DEFINE D == [B EXCEPT ![p] = @ \ {x}]
           C == [q \in Node |-> IF q \in T THEN {} ELSE D[q]]
<1>4. D \in [Node -> SUBSET Node] /\ Grove(D, r \cup {x}) /\ x \in Node
  BY DetachKeeps
<1>5. Holds(T, x, D)
  BY <1>0, <1>2, <1>3 DEF Holds, GInv
<1> HIDE DEF D
<1>6. Grove(C, (r \cup {x}) \ {x})
  BY <1>4, <1>5, DropKeeps
<1>7. x \notin r
  BY DEF Grove
<1>8. Grove(C, roots')
  BY <1>6, <1>7, (r \cup {x}) \ {x} = r
<1>9. <<>> \in Seq(Node) /\ OneToOne(<<>>) /\ ToSet(<<>>) = {}
  BY DEF OneToOne, ToSet
<1>10. kids' \in [Node -> Seq(Node)] /\ \A q \in Node : OneToOne(kids'[q])
  BY <1>0, <1>1, <1>9 DEF GInv
<1>11. C \in [Node -> SUBSET Node] /\ \A q \in Node : C[q] = ToSet(kids'[q])
  <2>1. C \in [Node -> SUBSET Node]
    BY <1>4
  <2>2. ASSUME NEW q \in Node
        PROVE  C[q] = ToSet(kids'[q])
    <3>1. CASE q = p
      BY <3>1, <1>1, <1>3 DEF D
    <3>2. CASE q # p
      BY <3>2, <1>1, <1>9 DEF D
    <3> QED
      BY <3>1, <3>2
  <2> QED
    BY <2>1, <2>2
<1> HIDE DEF C
<1> QED
  BY <1>8, <1>10, <1>11, GroveIsFInv

LEMMA DiscardKeeps ==
  ASSUME FInv, NEW p \in Nodes, NEW n \in DOMAIN kids[p], Discard(p, n)
  PROVE  FInv'
<1>0. GInv
  BY FInvIsGInv
<1> DEFINE x == kids[p][n]
           list == RemoveAt(kids[p], n)
           B == Kin(kids)
<1>1. p \in Node /\ x \in ToSet(kids[p])
  BY <1>0 DEF GInv, ToSet
<1>2. list \in Seq(Node) /\ OneToOne(list) /\ ToSet(list) = B[p] \ {x}
  BY <1>0, <1>1, Removing DEF GInv
<1>3. /\ roots \in SUBSET Node /\ B \in [Node -> SUBSET Node] /\ Grove(B, roots) /\ x \in B[p]
      /\ \A q \in Node \ {p} : B[q] = ToSet(kids[q])
  BY <1>0, <1>1 DEF GInv
<1>4. roots' = roots /\ Prune(x, p, list)
  BY DEF Discard
<1> HIDE DEF x, list, B
<1> QED
  BY <1>1, <1>2, <1>3, <1>4, PruneKeeps

LEMMA ReplaceKeeps ==
  ASSUME FInv, NEW p \in Nodes, NEW n \in DOMAIN kids[p], Replace(p, n)
  PROVE  FInv'
<1>0. GInv
  BY FInvIsGInv
<1>1. PICK i \in roots : /\ roots' = roots \ {i}
                         /\ Prune(kids[p][n], p, [kids[p] EXCEPT ![n] = i])
                         /\ MayAdopt(p, i)
  BY DEF Replace
<1> DEFINE x == kids[p][n]
           list == [kids[p] EXCEPT ![n] = i]
           B == [Kin(kids) EXCEPT ![p] = @ \cup {i}]
<1>2. PICK T : p \notin T /\ Holds(T, i, Kin(kids))
  BY <1>0, <1>1, BelowHolds DEF MayAdopt, GInv
<1>3. p \in Node /\ i \in Node /\ (\A q \in Node : i \notin Kin(kids)[q])
  BY <1>0 DEF GInv, Grove
<1>4. Grove(B, roots \ {i})
  BY <1>0, <1>2, <1>3, HangKeeps DEF GInv
<1>5. x \in ToSet(kids[p]) /\ x # i
  BY <1>0, <1>3 DEF GInv, ToSet
<1>6. list \in Seq(Node) /\ OneToOne(list) /\ ToSet(list) = (ToSet(kids[p]) \ {x}) \cup {i}
  <2>1. kids[p] \in Seq(Node) /\ OneToOne(kids[p]) /\ i \in Node /\ i \notin ToSet(kids[p])
    BY <1>0, <1>3 DEF GInv
  <2>2. list \in Seq(Node) /\ Replaced(kids[p], n, i, list)
    BY <2>1 DEF Replaced
  <2> HIDE DEF list
  <2> QED
    BY <2>1, <2>2, Replacing
<1>7. /\ roots \ {i} \in SUBSET Node /\ B \in [Node -> SUBSET Node] /\ x \in B[p]
      /\ \A q \in Node \ {p} : B[q] = ToSet(kids[q])
      /\ ToSet(list) = B[p] \ {x}
  BY <1>0, <1>3, <1>5, <1>6 DEF GInv
<1>8. roots' = roots \ {i} /\ Prune(x, p, list)
  BY <1>1
<1> HIDE DEF x, list, B
<1> QED
  BY <1>3, <1>4, <1>5, <1>6, <1>7, <1>8, PruneKeeps

LEMMA BuildStepKeeps ==
  ASSUME FInv, Build
  PROVE  FInv'
<1>0. GInv
  BY FInvIsGInv
<1>1. PICK top \in Node \ Nodes, T \in SUBSET Node :
        /\ roots' = roots \cup {top} /\ T \cap Nodes = {}
        /\ kids' = [p \in Node |-> IF p \in T THEN kids'[p] ELSE kids[p]]
        /\ \A p \in T : kids'[p] \in Seq(T \ {top})
        /\ Below(T, top, kids') /\ Places(T, kids') /\ Descends(T, kids')
  BY DEF Build, Below
<1>2. T \in SUBSET Node /\ T = {top} \cup UNION {ToSet(kids'[p]) : p \in T}
  BY <1>1 DEF Below
<1>3. \A p \in Node \ T : kids'[p] = kids[p]
  BY <1>1
<1>4. \A p \in T : kids'[p] \in Seq(Node) /\ ToSet(kids'[p]) \subseteq T \ {top}
  <2>1. \A s \in Seq(T \ {top}) : ToSet(s) \subseteq T \ {top}
    BY DEF ToSet
  <2>2. \A s \in Seq(T \ {top}) : s \in Seq(Node)
    BY <1>2
  <2> QED
    BY <1>1, <2>1, <2>2
<1>5. kids' \in [Node -> Seq(Node)]
  <2>1. \A p \in Node : kids'[p] \in Seq(Node)
    BY <1>0, <1>3, <1>4 DEF GInv
  <2>2. DOMAIN kids' = Node /\ kids' = [p \in DOMAIN kids' |-> kids'[p]]
    BY <1>1
  <2> QED
    BY <2>1, <2>2
<1> DEFINE C == Kin(kids')
<1>6. C \in [Node -> SUBSET Node] /\ \A p \in Node : C[p] = ToSet(kids'[p])
  <2>1. roots' \in SUBSET Node
    BY <1>0, <1>1 DEF GInv
  <2> QED
    BY <1>5, <2>1, ForestIsGrove
<1> HIDE DEF C
<1>7. \A p, q \in T : p # q => C[p] \cap C[q] = {}
  BY <1>1, <1>2, <1>6 DEF Places, ToSet
<1>8. \A S \in (SUBSET T) \ {{}} : \E p \in S : C[p] \cap S = {}
  BY <1>1, <1>2, <1>6 DEF Descends
<1>9. Grove(C, roots')
  <2>1. T \cap Used(Kin(kids), roots) = {} /\ Grove(Kin(kids), roots) /\ roots \in SUBSET Node
    BY <1>0, <1>1 DEF GInv
  <2>2. Kin(kids) \in [Node -> SUBSET Node] /\ \A p \in Node \ T : C[p] = Kin(kids)[p]
    BY <1>0, <1>3, <1>6 DEF GInv
  <2>3. \A p \in T : C[p] \subseteq T \ {top}
    BY <1>2, <1>4, <1>6
  <2>4. T = {top} \cup UNION {C[p] : p \in T}
    BY <1>2, <1>6
  <2> QED
    BY <2>1, <2>2, <2>3, <2>4, <1>1, <1>2, <1>6, <1>7, <1>8, BuildKeeps
<1>10. \A p \in Node : OneToOne(kids'[p])
  BY <1>0, <1>1, <1>3 DEF GInv, Places, OneToOne
<1>11. roots' \in SUBSET Node
  BY <1>0, <1>1 DEF GInv
<1> QED
  BY <1>5, <1>6, <1>9, <1>10, <1>11, GroveIsFInv

LEMMA FInvStep == FInv /\ [Next]_forestVars => FInv'
<1> SUFFICES ASSUME FInv, [Next]_forestVars PROVE FInv'
  OBVIOUS
<1>1. CASE Build
  BY <1>1, BuildStepKeeps
<1>2. CASE \E top \in roots : Delete(top)
  BY <1>2, DeleteKeeps
<1>3. ASSUME NEW p \in Nodes, AddNew(p)
      PROVE  FInv'
  BY <1>3, AddNewKeeps
<1>4. ASSUME NEW p \in Nodes, NEW n \in 1..(Len(kids[p]) + 1), Adopt(p, n)
      PROVE  FInv'
  BY <1>4, AdoptKeeps
<1>5. ASSUME NEW p \in Nodes, NEW n \in DOMAIN kids[p],
             Detach(p, n) \/ Discard(p, n) \/ Replace(p, n)
      PROVE  FInv'
  BY <1>5, DetachStepKeeps, DiscardKeeps, ReplaceKeeps
<1>6. CASE UNCHANGED forestVars
  BY <1>6 DEF forestVars, FInv, DocumentsAreTrees
<1> QED
  BY <1>1, <1>2, <1>3, <1>4, <1>5, <1>6 DEF Next

\* However many nodes there are, and whatever is built, added, inserted, taken
\* out, replaced and deleted: a node is at one place under one parent, a root is
\* under none, no node is below itself, and nothing hangs on a node that was
\* thrown away.  It is what cJSON_Delete, which walks the children of a node and
\* frees each, needs to end and to free a node once (cJSON.c:253).
THEOREM ForestStaysForest == Spec => []DocumentsAreTrees
<1>1. FInv => DocumentsAreTrees
  BY DEF FInv
<1> QED
  BY FInvInit, FInvStep, <1>1, PTL DEF Spec

(***************************************************************************)
(* The links                                                               *)
(***************************************************************************)

Items(T, V, K) == [type : T, ref : BOOLEAN, cst : BOOLEAN, next : Link, prev : Link,
                   child : Link, val : V, string : K, of : Link]
Heaps(T, V, K) == [item : [Id -> Items(T, V, K)], strings : Nat, room : Nat, twice : BOOLEAN]

\* All of an item but its links, and all of a heap but its items.
Content(it) == <<it.type, it.ref, it.cst, it.val, it.string, it.of>>
OnlyLinks(m, n) == /\ \A x \in Id : Content(n.item[x]) = Content(m.item[x])
                   /\ n.strings = m.strings /\ n.room = m.room /\ n.twice = m.twice

LEMMA SetNextIs ==
  ASSUME NEW T, NEW V, NEW K, NEW m \in Heaps(T, V, K), NEW i \in Link, NEW j \in Link
  PROVE  LET n == SetNext(m, i, j)
         IN /\ n \in Heaps(T, V, K) /\ OnlyLinks(m, n)
            /\ \A x \in Id : /\ n.item[x].next = IF x = i THEN j ELSE m.item[x].next
                             /\ n.item[x].prev = m.item[x].prev
                             /\ n.item[x].child = m.item[x].child
<1>1. CASE i = Null
  BY <1>1, LinksAssumption DEF SetNext, OnlyLinks
<1>2. CASE i # Null
  <2>1. i \in Id
    BY <1>2 DEF Link
  <2> DEFINE n == [m EXCEPT !.item[i].next = j]
  <2>2. n \in Heaps(T, V, K)
    BY <2>1 DEF Heaps, Items
  <2>3. \A x \in Id : n.item[x] = IF x = i THEN [m.item[x] EXCEPT !.next = j] ELSE m.item[x]
    BY <2>1 DEF Heaps
  <2>4. n.strings = m.strings /\ n.room = m.room /\ n.twice = m.twice
    BY DEF Heaps
  <2>5. m.item[i] \in Items(T, V, K)
    BY <2>1 DEF Heaps
  <2>6. LET it == [m.item[i] EXCEPT !.next = j]
        IN /\ it.next = j /\ it.prev = m.item[i].prev /\ it.child = m.item[i].child
           /\ Content(it) = Content(m.item[i])
    BY <2>5 DEF Items, Content
  <2>7. n = SetNext(m, i, j)
    BY <1>2 DEF SetNext
  <2> HIDE DEF n
  <2> QED
    BY <2>2, <2>3, <2>4, <2>6, <2>7 DEF OnlyLinks
<1> QED
  BY <1>1, <1>2

LEMMA SetPrevIs ==
  ASSUME NEW T, NEW V, NEW K, NEW m \in Heaps(T, V, K), NEW i \in Link, NEW j \in Link
  PROVE  LET n == SetPrev(m, i, j)
         IN /\ n \in Heaps(T, V, K) /\ OnlyLinks(m, n)
            /\ \A x \in Id : /\ n.item[x].prev = IF x = i THEN j ELSE m.item[x].prev
                             /\ n.item[x].next = m.item[x].next
                             /\ n.item[x].child = m.item[x].child
<1>1. CASE i = Null
  BY <1>1, LinksAssumption DEF SetPrev, OnlyLinks
<1>2. CASE i # Null
  <2>1. i \in Id
    BY <1>2 DEF Link
  <2> DEFINE n == [m EXCEPT !.item[i].prev = j]
  <2>2. n \in Heaps(T, V, K)
    BY <2>1 DEF Heaps, Items
  <2>3. \A x \in Id : n.item[x] = IF x = i THEN [m.item[x] EXCEPT !.prev = j] ELSE m.item[x]
    BY <2>1 DEF Heaps
  <2>4. n.strings = m.strings /\ n.room = m.room /\ n.twice = m.twice
    BY DEF Heaps
  <2>5. m.item[i] \in Items(T, V, K)
    BY <2>1 DEF Heaps
  <2>6. LET it == [m.item[i] EXCEPT !.prev = j]
        IN /\ it.prev = j /\ it.next = m.item[i].next /\ it.child = m.item[i].child
           /\ Content(it) = Content(m.item[i])
    BY <2>5 DEF Items, Content
  <2>7. n = SetPrev(m, i, j)
    BY <1>2 DEF SetPrev
  <2> HIDE DEF n
  <2> QED
    BY <2>2, <2>3, <2>4, <2>6, <2>7 DEF OnlyLinks
<1> QED
  BY <1>1, <1>2

LEMMA SetChildIs ==
  ASSUME NEW T, NEW V, NEW K, NEW m \in Heaps(T, V, K), NEW p \in Id, NEW j \in Link
  PROVE  LET n == SetChild(m, p, j)
         IN /\ n \in Heaps(T, V, K) /\ OnlyLinks(m, n)
            /\ \A x \in Id : /\ n.item[x].child = IF x = p THEN j ELSE m.item[x].child
                             /\ n.item[x].next = m.item[x].next
                             /\ n.item[x].prev = m.item[x].prev
<1> DEFINE n == [m EXCEPT !.item[p].child = j]
<1>1. n \in Heaps(T, V, K)
  BY DEF Heaps, Items
<1>2. \A x \in Id : n.item[x] = IF x = p THEN [m.item[x] EXCEPT !.child = j] ELSE m.item[x]
  BY DEF Heaps
<1>3. n.strings = m.strings /\ n.room = m.room /\ n.twice = m.twice
  BY DEF Heaps
<1>4. m.item[p] \in Items(T, V, K)
  BY DEF Heaps
<1>5. LET it == [m.item[p] EXCEPT !.child = j]
      IN /\ it.child = j /\ it.prev = m.item[p].prev /\ it.next = m.item[p].next
         /\ Content(it) = Content(m.item[p])
  BY <1>4 DEF Items, Content
<1>6. n = SetChild(m, p, j)
  BY DEF SetChild
<1> HIDE DEF n
<1> QED
  BY <1>1, <1>2, <1>3, <1>5, <1>6 DEF OnlyLinks


LEMMA OnlyLinksChain ==
  ASSUME NEW l, NEW m, NEW n, OnlyLinks(l, m), OnlyLinks(m, n)
  PROVE  OnlyLinks(l, n)
BY DEF OnlyLinks

(* The walk *)

LEMMA NoLongerThanIds ==
  ASSUME NEW s \in Seq(Id), OneToOne(s)
  PROVE  Len(s) <= Cardinality(Id) /\ Cardinality(Id) \in Nat
<1>1. Len(s) \in Nat /\ s \in [1..Len(s) -> Id]
  OBVIOUS
<1>2. s \in Injection(1..Len(s), Id)
  BY <1>1 DEF Injection, IsInjective, OneToOne
<1>3. Cardinality(1..Len(s)) = Len(s)
  BY <1>1, FS_Interval
<1> QED
  BY <1>2, <1>3, FS_Injection, FS_CardinalityType, LinksAssumption

LEMMA TailIs ==
  ASSUME NEW S, NEW s \in Seq(S), NEW k \in 1..Len(s)
  PROVE  <<s[k]>> \o SubSeq(s, k + 1, Len(s)) = SubSeq(s, k, Len(s))
<1> DEFINE one == <<s[k]>>
           rest == SubSeq(s, k + 1, Len(s))
           whole == SubSeq(s, k, Len(s))
<1>1. Len(s) \in Nat /\ s[k] \in S
  OBVIOUS
<1>2. one \in Seq(S) /\ Len(one) = 1 /\ one[1] = s[k]
  BY <1>1
<1>3. /\ rest \in Seq(S) /\ Len(rest) = Len(s) - k
      /\ \A n \in 1..(Len(s) - k) : rest[n] = s[k + 1 + n - 1]
  BY <1>1, SubSeqProperties
<1>4. /\ whole \in Seq(S) /\ Len(whole) = Len(s) - k + 1
      /\ \A n \in 1..(Len(s) - k + 1) : whole[n] = s[k + n - 1]
  BY <1>1, SubSeqProperties
<1> HIDE DEF one, rest, whole
<1>5. /\ one \o rest \in Seq(S) /\ Len(one \o rest) = Len(s) - k + 1
      /\ \A n \in 1..(Len(s) - k + 1) : (one \o rest)[n] = IF n <= 1 THEN one[n] ELSE rest[n - 1]
  <2>1. /\ one \o rest \in Seq(S) /\ Len(one \o rest) = Len(one) + Len(rest)
        /\ \A n \in 1..(Len(one) + Len(rest)) :
             (one \o rest)[n] = IF n <= Len(one) THEN one[n] ELSE rest[n - Len(one)]
    BY <1>2, <1>3, ConcatProperties
  <2>2. Len(one) + Len(rest) = Len(s) - k + 1 /\ Len(one) = 1
    BY <1>1, <1>2, <1>3
  <2> QED
    BY <2>1, <2>2
<1>6. ASSUME NEW n \in 1..(Len(s) - k + 1)
      PROVE  (one \o rest)[n] = whole[n]
  <2>1. CASE n = 1
    BY <2>1, <1>1, <1>2, <1>4, <1>5
  <2>2. CASE n # 1
    <3>1. n - 1 \in 1..(Len(s) - k) /\ ~(n <= 1) /\ k + 1 + (n - 1) - 1 = k + n - 1
      BY <2>2, <1>1
    <3>2. (one \o rest)[n] = rest[n - 1] /\ rest[n - 1] = s[k + 1 + (n - 1) - 1]
      BY <3>1, <1>3, <1>5
    <3> QED
      BY <3>1, <3>2, <1>4
  <2> QED
    BY <2>1, <2>2
<1>7. one \o rest = whole
  BY <1>4, <1>5, <1>6, SeqEqual
<1> QED
  BY <1>7 DEF one, rest, whole

\* Following next from an item of the list gives the rest of the list.
LEMMA ListIs ==
  ASSUME NEW T, NEW V, NEW K, NEW m \in Heaps(T, V, K), NEW list \in Seq(Id),
         OneToOne(list), NEW first \in Link, Linked(m, first, list)
  PROVE  List(m, first) = list
<1> DEFINE S == [Link -> Seq(Id)]
           base == [i \in Link |-> <<>>]
           Step(h) == [i \in Link |-> IF i = Null THEN <<>> ELSE <<i>> \o h[m.item[i].next]]
           step == [h \in S |-> Step(h)]
           Rest(g, n, i) == IF n = 0 \/ i = Null THEN <<>> ELSE <<i>> \o g[n - 1][m.item[i].next]
           walk[n \in Nat] == [i \in Link |-> Rest(walk, n, i)]
<1>1. base \in S
  OBVIOUS
<1>2. \A i \in Id : m.item[i].next \in Link
  BY DEF Heaps, Items
<1>3. step \in [S -> S]
  <2> SUFFICES ASSUME NEW h \in S PROVE Step(h) \in S
    BY Zenon
  <2>1. ASSUME NEW i \in Link, i # Null
        PROVE  <<i>> \o h[m.item[i].next] \in Seq(Id)
    <3>1. i \in Id /\ h[m.item[i].next] \in Seq(Id)
      BY <2>1, <1>2 DEF Link
    <3> QED
      BY <3>1
  <2> QED
    BY <2>1
<1>4. PICK f \in [Nat -> S] : f[0] = base /\ \A n \in Nat : f[n + 1] = step[f[n]]
  <2> HIDE DEF S, base, step
  <2>1. \E f \in [Nat -> S] : Iterates(f, base, step)
    BY <1>1, <1>3, Iteration
  <2> QED
    BY <2>1 DEF Iterates
<1>5. ASSUME NEW n \in Nat, NEW i \in Link
      PROVE  f[n] \in S /\ f[n][i] = Rest(f, n, i)
  <2>1. f[n] \in S
    BY <1>4
  <2>2. CASE n = 0
    BY <2>1, <2>2, <1>4
  <2>3. CASE n # 0
    <3>1. n - 1 \in Nat /\ n - 1 + 1 = n
      BY <2>3
    <3>2. f[n - 1] \in S /\ f[n] = step[f[n - 1]]
      BY <3>1, <1>4
    <3>3. f[n] = Step(f[n - 1])
      BY <3>2
    <3> QED
      BY <2>1, <2>3, <3>3
  <2> QED
    BY <2>2, <2>3
<1> HIDE DEF Rest
<1>6. walk = [n \in Nat |-> [i \in Link |-> Rest(walk, n, i)]]
  <2>1. f = [n \in Nat |-> [i \in Link |-> Rest(f, n, i)]]
    <3>1. ASSUME NEW n \in Nat
          PROVE  f[n] = [i \in Link |-> Rest(f, n, i)]
      <4>1. f[n] = [i \in Link |-> f[n][i]]
        BY <1>4
      <4> QED
        BY <1>5, <4>1, Zenon
    <3>2. f = [n \in Nat |-> f[n]]
      BY <1>4
    <3> QED
      BY <3>1, <3>2, Zenon
  <2> QED
    BY <2>1, Zenon
<1>7. List(m, first) = walk[Cardinality(Id)][first]
  BY Zenon DEF List, Rest
<1> HIDE DEF walk, S, base, step
<1>8. \A n \in Nat, i \in Link :
        walk[n][i] = IF n = 0 \/ i = Null THEN <<>> ELSE <<i>> \o walk[n - 1][m.item[i].next]
  <2>1. \A n \in Nat : walk[n] = [i \in Link |-> Rest(walk, n, i)]
    BY <1>6, Zenon
  <2>2. \A n \in Nat, i \in Link : walk[n][i] = Rest(walk, n, i)
    BY <2>1, Zenon
  <2> QED
    BY <2>2, Zenon DEF Rest
<1>9. Len(list) \in Nat /\ DOMAIN list = 1..Len(list) /\ \A k \in 1..Len(list) : list[k] \in Id
  OBVIOUS
<1> DEFINE At(k) == IF k = Len(list) + 1 THEN Null ELSE list[k]
           Good == {n \in Nat : \A k \in 1..(Len(list) + 1) :
                      Len(list) - k + 1 <= n => walk[n][At(k)] = SubSeq(list, k, Len(list))}
<1>10. Null \in Link /\ Null \notin Id /\ Id \subseteq Link
  BY LinksAssumption DEF Link
<1>11. SubSeq(list, Len(list) + 1, Len(list)) = <<>>
  BY <1>9
<1>12. 0 \in Good
  <2> SUFFICES ASSUME NEW k \in 1..(Len(list) + 1), Len(list) - k + 1 <= 0
               PROVE  walk[0][At(k)] = SubSeq(list, k, Len(list))
    OBVIOUS
  <2>1. k = Len(list) + 1
    BY <1>9
  <2> QED
    BY <2>1, <1>8, <1>10, <1>11
<1>13. ASSUME NEW n \in Good
       PROVE  n + 1 \in Good
  <2> SUFFICES ASSUME NEW k \in 1..(Len(list) + 1), Len(list) - k + 1 <= n + 1
               PROVE  walk[n + 1][At(k)] = SubSeq(list, k, Len(list))
    OBVIOUS
  <2>1. n + 1 \in Nat /\ n + 1 # 0 /\ n + 1 - 1 = n
    OBVIOUS
  <2>2. CASE k = Len(list) + 1
    BY <2>2, <2>1, <1>8, <1>10, <1>11
  <2>3. CASE k # Len(list) + 1
    <3>1. k \in 1..Len(list) /\ k + 1 \in 1..(Len(list) + 1) /\ Len(list) - (k + 1) + 1 <= n
      BY <2>3, <1>9
    <3>2. At(k) = list[k] /\ list[k] \in Id /\ list[k] # Null /\ list[k] \in Link
      BY <2>3, <3>1, <1>9, <1>10
    <3>3. m.item[list[k]].next = At(k + 1)
      <4>1. m.item[list[k]].next = IF k = Len(list) THEN Null ELSE list[k + 1]
        BY <3>1, <1>9 DEF Linked
      <4>2. k \in Int /\ Len(list) \in Int
        BY <3>1, <1>9
      <4>3. k + 1 = Len(list) + 1 <=> k = Len(list)
        BY <4>2
      <4> QED
        BY <4>1, <4>3
    <3>4. walk[n][At(k + 1)] = SubSeq(list, k + 1, Len(list))
      BY <3>1
    <3>5. walk[n + 1][list[k]] = <<list[k]>> \o walk[n][m.item[list[k]].next]
      <4> DEFINE s == n + 1
      <4>1. s \in Nat /\ s # 0 /\ s - 1 = n
        BY <2>1
      <4> HIDE DEF s, At
      <4>2. walk[s][list[k]] = <<list[k]>> \o walk[s - 1][m.item[list[k]].next]
        BY <3>2, <4>1, <1>8, Zenon
      <4>3. walk[s][list[k]] = <<list[k]>> \o walk[n][m.item[list[k]].next]
        BY <4>1, <4>2, Zenon
      <4> QED
        BY <4>3, Zenon DEF s
    <3> HIDE DEF At
    <3>6. walk[n + 1][list[k]] = <<list[k]>> \o SubSeq(list, k + 1, Len(list))
      BY <3>3, <3>4, <3>5
    <3> QED
      BY <3>1, <3>2, <3>6, TailIs
  <2> QED
    BY <2>2, <2>3
<1>14. Good = Nat
  <2>1. Good \in SUBSET Nat
    OBVIOUS
  <2> HIDE DEF Good
  <2> QED
    BY <1>12, <1>13, <2>1, Climb
<1>15. walk[Cardinality(Id)][At(1)] = SubSeq(list, 1, Len(list))
  <2>1. Cardinality(Id) \in Good /\ Len(list) <= Cardinality(Id) /\ Cardinality(Id) \in Nat
    BY <1>14, NoLongerThanIds
  <2> QED
    BY <2>1, <1>9
<1>16. At(1) = first
  BY <1>9 DEF Linked
<1>17. SubSeq(list, 1, Len(list)) = list
  BY <1>9
<1> QED
  BY <1>7, <1>15, <1>16, <1>17

(* The other lists *)

\* An edit of the children of p that touches the links of its children and of roots
\* only, and leaves new roots without siblings, changes nothing else.
LEMMA EditKeeps ==
  ASSUME NEW m, NEW n, NEW k, NEW r, Shows(m, k, r), OnlyLinks(m, n),
         NEW p \in Id, NEW s \in Seq(Id), NEW t \in SUBSET Id,
         OneToOne(s), ToSet(s) \subseteq ToSet(k[p]) \cup r,
         t \subseteq (ToSet(k[p]) \cup r) \ ToSet(s),
         ~m.item[p].ref, Linked(n, n.item[p].child, s),
         \A x \in Id \ {p} : n.item[x].child = m.item[x].child,
         \A x \in Id \ (ToSet(k[p]) \cup r) : /\ n.item[x].next = m.item[x].next
                                              /\ n.item[x].prev = m.item[x].prev,
         \A x \in t : n.item[x].next = Null /\ n.item[x].prev = Null
  PROVE  Shows(n, [k EXCEPT ![p] = s], t)
<1> DEFINE l == [k EXCEPT ![p] = s]
<1>1. l \in [Id -> Seq(Id)] /\ l[p] = s /\ \A q \in Id \ {p} : l[q] = k[q]
  BY DEF Shows
<1> HIDE DEF l
<1>2. \A x \in Id : n.item[x].ref = m.item[x].ref
  BY DEF OnlyLinks, Content
<1>3. \A q \in Id \ {p} : ToSet(k[q]) \cap (ToSet(k[p]) \cup r) = {} /\ OneToOne(k[q])
  BY DEF Shows
<1>4. ASSUME NEW q \in Id
      PROVE  IF n.item[q].ref THEN l[q] = <<>> ELSE Linked(n, n.item[q].child, l[q])
  <2>1. CASE q = p
    BY <2>1, <1>1, <1>2
  <2>2. CASE q # p
    <3>1. l[q] = k[q] /\ n.item[q].ref = m.item[q].ref /\ n.item[q].child = m.item[q].child
      BY <2>2, <1>1, <1>2
    <3>2. CASE m.item[q].ref
      BY <3>1, <3>2 DEF Shows
    <3>3. CASE ~m.item[q].ref
      <4>1. Linked(m, m.item[q].child, k[q]) /\ k[q] \in Seq(Id)
        BY <3>3 DEF Shows
      <4>2. \A a \in DOMAIN k[q] : k[q][a] \in Id /\ k[q][a] \in ToSet(k[q])
        BY <4>1 DEF ToSet
      <4>3. \A a \in DOMAIN k[q] : /\ n.item[k[q][a]].next = m.item[k[q][a]].next
                                   /\ n.item[k[q][a]].prev = m.item[k[q][a]].prev
        BY <2>2, <4>2, <1>3
      <4> DEFINE list == k[q]
                 first == m.item[q].child
      <4>4. /\ first = IF list = <<>> THEN Null ELSE list[1]
            /\ \A a \in DOMAIN list :
                 /\ m.item[list[a]].next = IF a = Len(list) THEN Null ELSE list[a + 1]
                 /\ m.item[list[a]].prev = IF a = 1 THEN Null ELSE list[a - 1]
        BY <4>1 DEF Linked
      <4>5. \A a \in DOMAIN list :
              /\ n.item[list[a]].next = IF a = Len(list) THEN Null ELSE list[a + 1]
              /\ n.item[list[a]].prev = IF a = 1 THEN Null ELSE list[a - 1]
        BY <4>3, <4>4
      <4> HIDE DEF list, first
      <4>6. Linked(n, first, list)
        BY <4>4, <4>5 DEF Linked
      <4> QED
        BY <3>1, <3>3, <4>6 DEF list, first
    <3> QED
      BY <3>2, <3>3
  <2> QED
    BY <2>1, <2>2
<1>5. ASSUME NEW q \in Id
      PROVE  OneToOne(l[q]) /\ t \cap ToSet(l[q]) = {}
  BY <1>1, <1>3
<1>6. ASSUME NEW q \in Id, NEW o \in Id, q # o
      PROVE  ToSet(l[q]) \cap ToSet(l[o]) = {}
  <2>1. CASE q = p
    BY <2>1, <1>1, <1>3, <1>6
  <2>2. CASE o = p
    BY <2>2, <1>1, <1>3, <1>6
  <2>3. CASE q # p /\ o # p
    BY <2>3, <1>1, <1>6 DEF Shows
  <2> QED
    BY <2>1, <2>2, <2>3
<1> QED
  BY <1>1, <1>4, <1>5, <1>6 DEF Shows, l

(* One list *)

\* Item i is at place a, between its neighbours.
LEMMA InsertLinked ==
  ASSUME NEW m, NEW n, NEW first, NEW f, NEW list \in Seq(Id), OneToOne(list), Linked(m, first, list),
         NEW i \in Id \ ToSet(list), NEW a \in 1..(Len(list) + 1),
         f = IF a = 1 THEN i ELSE first,
         \A x \in Id : n.item[x].next = IF x = i THEN IF a = Len(list) + 1 THEN Null ELSE list[a]
                                        ELSE IF a # 1 /\ x = list[a - 1] THEN i
                                        ELSE m.item[x].next,
         \A x \in Id : n.item[x].prev = IF x = i THEN IF a = 1 THEN Null ELSE list[a - 1]
                                        ELSE IF a # Len(list) + 1 /\ x = list[a] THEN i
                                        ELSE m.item[x].prev
  PROVE  Linked(n, f, InsertAt(list, a, i))
<1> DEFINE N == Len(list)
           t == InsertAt(list, a, i)
<1>1. N \in Nat /\ DOMAIN list = 1..N /\ (\A b \in 1..N : list[b] \in Id /\ list[b] # i)
  BY DEF ToSet
<1>2. /\ t \in Seq(Id) /\ Len(t) = N + 1
      /\ \A b \in 1..(N + 1) : t[b] = IF b < a THEN list[b] ELSE IF b = a THEN i ELSE list[b - 1]
  BY InsertAtIs
<1> HIDE DEF t
<1>3. DOMAIN t = 1..(N + 1) /\ t # <<>>
  BY <1>1, <1>2
<1>4. \A b, c \in 1..N : list[b] = list[c] => b = c
  BY <1>1 DEF OneToOne
<1>5. \A b \in 1..N : /\ m.item[list[b]].next = IF b = N THEN Null ELSE list[b + 1]
                      /\ m.item[list[b]].prev = IF b = 1 THEN Null ELSE list[b - 1]
  BY <1>1 DEF Linked
<1>6. f = t[1]
  <2>1. CASE a = 1
    BY <2>1, <1>1, <1>2
  <2>2. CASE a # 1
    <3>1. 1 < a /\ 1 \in 1..(N + 1) /\ N >= 1
      BY <2>2, <1>1
    <3>2. t[1] = list[1] /\ first = list[1]
      BY <3>1, <1>1, <1>2 DEF Linked
    <3> QED
      BY <2>2, <3>2
  <2> QED
    BY <2>1, <2>2
<1> HIDE DEF N
<1>7. ASSUME NEW b \in 1..(N + 1)
      PROVE  n.item[t[b]].next = IF b = N + 1 THEN Null ELSE t[b + 1]
  <2>0. a \in Int /\ b \in Int /\ N \in Int /\ a \in 1..(N + 1)
    BY <1>1 DEF N
  <2>1. CASE b < a - 1
    <3>1. /\ b \in 1..N /\ b + 1 \in 1..N /\ a - 1 \in 1..N
          /\ b < a /\ b + 1 < a /\ b # a - 1 /\ a # b + 1 /\ b # N /\ b # N + 1
      BY <2>0, <2>1
    <3>2. /\ t[b] = list[b] /\ t[b + 1] = list[b + 1]
          /\ list[b] # i /\ list[b] # list[a - 1] /\ list[b] \in Id
      BY <2>0, <3>1, <1>1, <1>2, <1>4
    <3>3. n.item[list[b]].next = m.item[list[b]].next
      BY <3>2
    <3> QED
      BY <3>1, <3>2, <3>3, <1>5
  <2>2. CASE b = a - 1
    <3>1. b \in 1..N /\ b + 1 = a /\ a # 1 /\ b < a /\ b # N + 1 /\ a \in 1..(N + 1)
      BY <2>0, <2>2
    <3>2. t[b] = list[b] /\ t[b + 1] = i /\ list[b] # i /\ list[b] \in Id
      BY <2>0, <3>1, <1>1, <1>2
    <3>3. n.item[list[b]].next = i
      BY <2>2, <3>1, <3>2
    <3> QED
      BY <3>1, <3>2, <3>3
  <2>3. CASE b = a
    <3>1. t[b] = i
      BY <2>3, <2>0, <1>2
    <3>2. n.item[i].next = IF a = N + 1 THEN Null ELSE list[a]
      BY DEF N
    <3>3. CASE a = N + 1
      BY <2>3, <3>1, <3>2, <3>3
    <3>4. CASE a # N + 1
      <4>1. b + 1 \in 1..(N + 1) /\ ~(b + 1 < a) /\ b + 1 # a /\ b + 1 - 1 = a
        BY <2>0, <2>3, <3>4
      <4>2. t[b + 1] = list[a]
        BY <4>1, <1>2
      <4> QED
        BY <2>3, <3>1, <3>2, <3>4, <4>2
    <3> QED
      BY <3>3, <3>4
  <2>4. CASE b > a
    <3> DEFINE c == b - 1
    <3>1. /\ c \in 1..N /\ c \in Int /\ b = c + 1 /\ ~(b < a) /\ b # a
          /\ a # 1 => a - 1 \in 1..N /\ c # a - 1
      BY <2>0, <2>4
    <3>2. t[b] = list[c] /\ list[c] # i /\ list[c] \in Id /\ (a # 1 => list[c] # list[a - 1])
      BY <3>1, <1>1, <1>2, <1>4
    <3>3. n.item[list[c]].next = m.item[list[c]].next
      BY <3>2
    <3>4. CASE b = N + 1
      <4>1. c = N
        BY <3>4, <2>0
      <4> QED
        BY <3>1, <3>2, <3>3, <3>4, <4>1, <1>5
    <3>5. CASE b # N + 1
      <4>1. b + 1 \in 1..(N + 1) /\ ~(b + 1 < a) /\ b + 1 # a /\ b + 1 - 1 = c + 1 /\ c # N
        BY <3>5, <2>0, <2>4
      <4>2. t[b + 1] = list[c + 1]
        BY <4>1, <1>2
      <4>3. m.item[list[c]].next = list[c + 1]
        BY <3>1, <4>1, <1>5
      <4> QED
        BY <3>2, <3>3, <3>5, <4>2, <4>3
    <3> QED
      BY <3>4, <3>5
  <2>5. b < a - 1 \/ b = a - 1 \/ b = a \/ b > a
    BY <2>0
  <2> QED
    BY <2>1, <2>2, <2>3, <2>4, <2>5
<1>8. ASSUME NEW b \in 1..(N + 1)
      PROVE  n.item[t[b]].prev = IF b = 1 THEN Null ELSE t[b - 1]
  <2>0. a \in Int /\ b \in Int /\ N \in Int /\ a \in 1..(N + 1)
    BY <1>1 DEF N
  <2>1. CASE b < a
    <3>1. b \in 1..N /\ (b # 1 => b - 1 \in 1..(N + 1) /\ b - 1 < a)
          /\ (a # N + 1 => a \in 1..N /\ a # b)
      BY <2>0, <2>1
    <3>2. t[b] = list[b] /\ list[b] # i /\ list[b] \in Id /\ (a # N + 1 => list[b] # list[a])
      BY <2>1, <3>1, <1>1, <1>2, <1>4
    <3>3. n.item[list[b]].prev = m.item[list[b]].prev
      BY <3>2 DEF N
    <3>4. CASE b = 1
      BY <3>1, <3>2, <3>3, <3>4, <1>5
    <3>5. CASE b # 1
      <4>1. t[b - 1] = list[b - 1]
        BY <3>1, <3>5, <1>2
      <4>2. m.item[list[b]].prev = list[b - 1]
        BY <3>1, <3>5, <1>5
      <4> QED
        BY <3>2, <3>3, <3>5, <4>1, <4>2
    <3> QED
      BY <3>4, <3>5
  <2>2. CASE b = a
    <3>1. t[b] = i
      BY <2>2, <2>0, <1>2
    <3>2. n.item[i].prev = IF a = 1 THEN Null ELSE list[a - 1]
      OBVIOUS
    <3>3. CASE a = 1
      BY <2>2, <3>1, <3>2, <3>3
    <3>4. CASE a # 1
      <4>1. b - 1 \in 1..(N + 1) /\ b - 1 < a
        BY <2>0, <2>2, <3>4
      <4>2. t[b - 1] = list[a - 1]
        BY <2>2, <4>1, <1>2
      <4> QED
        BY <2>2, <3>1, <3>2, <3>4, <4>2
    <3> QED
      BY <3>3, <3>4
  <2>3. CASE b = a + 1
    <3>1. a \in 1..N /\ a # N + 1 /\ ~(b < a) /\ b # a /\ b - 1 = a /\ b # 1 /\ ~(a < a)
      BY <2>0, <2>3
    <3>2. t[b] = list[a] /\ t[b - 1] = i /\ list[a] # i /\ list[a] \in Id
      BY <3>1, <1>1, <1>2
    <3>3. n.item[list[a]].prev = i
      BY <3>1, <3>2 DEF N
    <3> QED
      BY <3>1, <3>2, <3>3
  <2>4. CASE b > a + 1
    <3> DEFINE c == b - 1
    <3>1. c \in 1..N /\ a \in 1..N /\ c # a /\ ~(b < a) /\ b # a /\ b # 1 /\ c # 1 /\ c \in 1..(N + 1)
          /\ ~(c < a)
      BY <2>0, <2>4
    <3>2. t[b] = list[c] /\ t[c] = list[c - 1] /\ list[c] # i /\ list[c] \in Id /\ list[c] # list[a]
      BY <3>1, <1>1, <1>2, <1>4
    <3>3. n.item[list[c]].prev = m.item[list[c]].prev
      BY <3>2
    <3>4. m.item[list[c]].prev = list[c - 1]
      BY <3>1, <1>5
    <3> QED
      BY <3>1, <3>2, <3>3, <3>4
  <2>5. b < a \/ b = a \/ b = a + 1 \/ b > a + 1
    BY <2>0
  <2> QED
    BY <2>1, <2>2, <2>3, <2>4, <2>5
<1> QED
  BY <1>2, <1>3, <1>6, <1>7, <1>8 DEF Linked, t

\* The item at place a is taken out.
LEMMA RemoveLinked ==
  ASSUME NEW m, NEW n, NEW first, NEW f, NEW list \in Seq(Id), OneToOne(list), Linked(m, first, list),
         NEW a \in 1..Len(list),
         f = IF a = 1 THEN m.item[list[a]].next ELSE first,
         \A x \in Id \ {list[a]} :
           /\ n.item[x].next = IF a # 1 /\ x = list[a - 1] THEN m.item[list[a]].next
                               ELSE m.item[x].next
           /\ n.item[x].prev = IF a # Len(list) /\ x = list[a + 1] THEN m.item[list[a]].prev
                               ELSE m.item[x].prev
  PROVE  Linked(n, f, RemoveAt(list, a))
<1> DEFINE N == Len(list)
           t == RemoveAt(list, a)
<1>1. N \in Nat /\ DOMAIN list = 1..N /\ (\A b \in 1..N : list[b] \in Id)
  OBVIOUS
<1>2. /\ t \in Seq(Id) /\ Len(t) = N - 1
      /\ \A b \in 1..(N - 1) : t[b] = IF b < a THEN list[b] ELSE list[b + 1]
  BY RemoveAtIs
<1> HIDE DEF t
<1>3. DOMAIN t = 1..(N - 1) /\ (t = <<>> <=> N = 1) /\ list # <<>>
  <2>1. N \in Int /\ a \in 1..N
    <3>1. a \in 1..N
      BY Zenon
    <3> HIDE DEF N
    <3>2. N \in Int
      BY <1>1
    <3> QED
      BY <3>1, <3>2
  <2>2. t = <<>> <=> Len(t) = 0
    BY <1>2, EmptySeq
  <2>3. Len(t) = 0 <=> N = 1
    BY <1>2, <2>1
  <2>4. list # <<>>
    BY <2>1
  <2>5. DOMAIN t = 1..(N - 1)
    BY <1>2
  <2> QED
    BY <2>2, <2>3, <2>4, <2>5
<1>4. \A b, c \in 1..N : list[b] = list[c] => b = c
  BY <1>1 DEF OneToOne
<1>5. \A b \in 1..N : /\ m.item[list[b]].next = IF b = N THEN Null ELSE list[b + 1]
                      /\ m.item[list[b]].prev = IF b = 1 THEN Null ELSE list[b - 1]
  BY <1>1 DEF Linked
<1>6. f = IF t = <<>> THEN Null ELSE t[1]
  <2>1. CASE a = 1
    <3>1. f = IF N = 1 THEN Null ELSE list[2]
      <4>1. f = m.item[list[1]].next
        BY <2>1
      <4>2. 1 \in 1..N
        BY <2>1
      <4> HIDE DEF N
      <4> QED
        BY <4>1, <4>2, <1>5
    <3>2. N # 1 => t[1] = list[2]
      BY <2>1, <1>1, <1>2
    <3> QED
      BY <3>1, <3>2, <1>3
  <2>2. CASE a # 1
    <3>0. a \in 1..N
      BY Zenon
    <3> HIDE DEF N
    <3>1. 1 < a /\ 1 \in 1..(N - 1) /\ N # 1 /\ N # 0
      BY <2>2, <3>0, <1>1
    <3>2. first = list[1]
      BY <1>3 DEF Linked
    <3>3. t[1] = list[1]
      BY <3>1, <1>2
    <3> QED
      BY <2>2, <3>1, <3>2, <3>3, <1>3
  <2> QED
    BY <2>1, <2>2
<1> HIDE DEF N
<1>7. ASSUME NEW b \in 1..(N - 1)
      PROVE  n.item[t[b]].next = IF b = N - 1 THEN Null ELSE t[b + 1]
  <2>0. a \in Int /\ b \in Int /\ N \in Int /\ a \in 1..N /\ b \in 1..N
    BY <1>1 DEF N
  <2>1. CASE b < a - 1
    <3>1. /\ b \in 1..N /\ b + 1 \in 1..(N - 1) /\ a - 1 \in 1..N
          /\ b < a /\ b + 1 < a /\ b # a - 1 /\ b # a /\ b # N /\ b # N - 1
      BY <2>0, <2>1
    <3>2. /\ t[b] = list[b] /\ t[b + 1] = list[b + 1]
          /\ list[b] # list[a] /\ list[b] # list[a - 1] /\ list[b] \in Id
      BY <2>0, <3>1, <1>1, <1>2, <1>4
    <3>3. n.item[list[b]].next = m.item[list[b]].next
      BY <3>2
    <3> QED
      BY <3>1, <3>2, <3>3, <1>5
  <2>2. CASE b = a - 1
    <3>1. b \in 1..N /\ b + 1 = a /\ a # 1 /\ b < a /\ b # a /\ a - 1 = b /\ (b = N - 1 <=> a = N)
      BY <2>0, <2>2
    <3>2. t[b] = list[b] /\ list[b] # list[a] /\ list[b] \in Id
      BY <2>0, <3>1, <1>1, <1>2, <1>4
    <3>3. n.item[list[b]].next = IF a = N THEN Null ELSE list[a + 1]
      BY <2>0, <3>1, <3>2, <1>5
    <3>4. a # N => t[b + 1] = list[a + 1]
      <4>1. a # N => a \in 1..(N - 1) /\ ~(a < a)
        BY <2>0
      <4> QED
        BY <3>1, <4>1, <1>2
    <3> QED
      BY <3>1, <3>2, <3>3, <3>4
  <2>3. CASE b >= a
    <3> DEFINE c == b + 1
    <3>1. /\ c \in 1..N /\ c \in Int /\ ~(b < a) /\ c # a /\ (c = N <=> b = N - 1)
          /\ a # 1 => a - 1 \in 1..N /\ c # a - 1
      BY <2>0, <2>3
    <3>2. t[b] = list[c] /\ list[c] # list[a] /\ list[c] \in Id /\ (a # 1 => list[c] # list[a - 1])
      BY <2>0, <3>1, <1>1, <1>2, <1>4
    <3>3. n.item[list[c]].next = m.item[list[c]].next
      BY <3>2
    <3>4. m.item[list[c]].next = IF c = N THEN Null ELSE list[c + 1]
      BY <3>1, <1>5
    <3>5. b # N - 1 => t[b + 1] = list[c + 1]
      <4>1. b # N - 1 => c \in 1..(N - 1) /\ ~(c < a)
        BY <2>0, <2>3
      <4> QED
        BY <4>1, <1>2
    <3> HIDE DEF c
    <3> QED
      BY <3>1, <3>2, <3>3, <3>4, <3>5
  <2>4. b < a - 1 \/ b = a - 1 \/ b >= a
    BY <2>0
  <2> QED
    BY <2>1, <2>2, <2>3, <2>4
<1>8. ASSUME NEW b \in 1..(N - 1)
      PROVE  n.item[t[b]].prev = IF b = 1 THEN Null ELSE t[b - 1]
  <2>0. a \in Int /\ b \in Int /\ N \in Int /\ a \in 1..N /\ b \in 1..N
    BY <1>1 DEF N
  <2>1. CASE b < a
    <3>1. /\ b # a /\ b # a + 1 /\ (a # N => a + 1 \in 1..N)
          /\ (b # 1 => b - 1 \in 1..(N - 1) /\ b - 1 < a)
      BY <2>0, <2>1
    <3>2. t[b] = list[b] /\ list[b] # list[a] /\ list[b] \in Id /\ (a # N => list[b] # list[a + 1])
      BY <2>0, <2>1, <3>1, <1>1, <1>2, <1>4
    <3>3. n.item[list[b]].prev = m.item[list[b]].prev
      BY <3>2 DEF N
    <3>4. b # 1 => t[b - 1] = list[b - 1]
      BY <3>1, <1>2
    <3> QED
      BY <2>0, <3>2, <3>3, <3>4, <1>5
  <2>2. CASE b = a
    <3>1. a \in 1..(N - 1) /\ a + 1 \in 1..N /\ a # N /\ a + 1 # a /\ ~(a < a)
          /\ (a # 1 => a - 1 \in 1..(N - 1) /\ a - 1 < a)
      BY <2>0, <2>2
    <3>2. t[a] = list[a + 1] /\ list[a + 1] # list[a] /\ list[a + 1] \in Id
      BY <3>1, <2>0, <1>1, <1>2, <1>4
    <3>3. n.item[list[a + 1]].prev = m.item[list[a]].prev
      BY <3>1, <3>2 DEF N
    <3>4. a # 1 => t[a - 1] = list[a - 1]
      BY <3>1, <1>2
    <3> QED
      BY <2>0, <2>2, <3>2, <3>3, <3>4, <1>5
  <2>3. CASE b > a
    <3> DEFINE c == b + 1
    <3>1. c \in 1..N /\ c # a /\ c # a + 1 /\ ~(b < a) /\ b # 1 /\ c # 1 /\ c - 1 = b
          /\ a + 1 \in 1..N /\ b - 1 \in 1..(N - 1) /\ ~(b - 1 < a) /\ b - 1 + 1 = b
      BY <2>0, <2>3
    <3>2. t[b] = list[c] /\ list[c] # list[a] /\ list[c] # list[a + 1] /\ list[c] \in Id
      BY <2>0, <3>1, <1>1, <1>2, <1>4
    <3>3. n.item[list[c]].prev = m.item[list[c]].prev
      BY <3>2
    <3>4. m.item[list[c]].prev = list[c - 1]
      BY <3>1, <1>5
    <3>5. t[b - 1] = list[b - 1 + 1]
      BY <3>1, <1>2
    <3> HIDE DEF c
    <3> QED
      BY <3>1, <3>2, <3>3, <3>4, <3>5
  <2>4. b < a \/ b = a \/ b > a
    BY <2>0
  <2> QED
    BY <2>1, <2>2, <2>3, <2>4
<1>9. Len(t) = N - 1
  BY <1>2
<1> QED
  BY <1>3, <1>6, <1>7, <1>8, <1>9 DEF Linked, t

\* The links that change when item i takes the place of the one at place a.
TakesOver(m, n, list, a, i) ==
  \A x \in Id \ {list[a]} :
    /\ n.item[x].next = IF x = i THEN m.item[list[a]].next
                        ELSE IF a # 1 /\ x = list[a - 1] THEN i ELSE m.item[x].next
    /\ n.item[x].prev = IF x = i THEN m.item[list[a]].prev
                        ELSE IF a # Len(list) /\ x = list[a + 1] THEN i ELSE m.item[x].prev

LEMMA ReplaceLinked ==
  ASSUME NEW m, NEW n, NEW first, NEW list \in Seq(Id), OneToOne(list), Linked(m, first, list),
         NEW i \in Id, i \notin ToSet(list), NEW a \in DOMAIN list, TakesOver(m, n, list, a, i),
         NEW t \in Seq(Id), Replaced(list, a, i, t)
  PROVE  Linked(n, IF a = 1 THEN i ELSE first, t)
<1> DEFINE N == Len(list)
           f == IF a = 1 THEN i ELSE first
<1>0. \A x \in Id \ {list[a]} :
        /\ n.item[x].next = IF x = i THEN m.item[list[a]].next
                            ELSE IF a # 1 /\ x = list[a - 1] THEN i ELSE m.item[x].next
        /\ n.item[x].prev = IF x = i THEN m.item[list[a]].prev
                            ELSE IF a # N /\ x = list[a + 1] THEN i ELSE m.item[x].prev
  BY Zenon DEF TakesOver
<1>1. N \in Nat /\ DOMAIN list = 1..N /\ (\A b \in 1..N : list[b] \in Id /\ list[b] # i)
  BY DEF ToSet
<1>2. DOMAIN t = 1..N /\ a \in 1..N /\ \A b \in 1..N : t[b] = IF b = a THEN i ELSE list[b]
  BY <1>1, Zenon DEF Replaced
<1>3. Len(t) = N /\ t # <<>> /\ list # <<>>
  <2> HIDE DEF N
  <2>1. Len(t) = N
    BY <1>1, <1>2
  <2>2. N # 0
    BY <1>1, <1>2
  <2> QED
    BY <2>1, <2>2, EmptySeq DEF N
<1>4. \A b, c \in 1..N : list[b] = list[c] => b = c
  BY <1>1 DEF OneToOne
<1>5. \A b \in 1..N : /\ m.item[list[b]].next = IF b = N THEN Null ELSE list[b + 1]
                      /\ m.item[list[b]].prev = IF b = 1 THEN Null ELSE list[b - 1]
  BY <1>1 DEF Linked
<1>6. f = t[1]
  <2>1. 1 \in 1..N /\ first = list[1]
    BY <1>1, <1>3 DEF Linked
  <2> QED
    BY <2>1, <1>2
<1> HIDE DEF N
<1>7. ASSUME NEW b \in 1..N
      PROVE  /\ n.item[t[b]].next = IF b = N THEN Null ELSE t[b + 1]
             /\ n.item[t[b]].prev = IF b = 1 THEN Null ELSE t[b - 1]
  <2>0. a \in Int /\ b \in Int /\ N \in Int /\ a \in 1..N /\ b \in 1..N
    <3>1. b \in Int /\ N \in Int
      BY <1>1
    <3>2. a \in 1..N
      BY <1>2
    <3> QED
      BY <3>1, <3>2
  <2>1. CASE b = a
    <3>1. t[b] = i /\ i # list[a]
      BY <2>0, <2>1, <1>1, <1>2
    <3>2. n.item[i].next = m.item[list[a]].next /\ n.item[i].prev = m.item[list[a]].prev
      BY <3>1, <1>0
    <3>3. a # N => t[a + 1] = list[a + 1]
      <4>1. a # N => a + 1 \in 1..N /\ a + 1 # a
        BY <2>0
      <4> QED
        BY <4>1, <1>2
    <3>4. a # 1 => t[a - 1] = list[a - 1]
      <4>1. a # 1 => a - 1 \in 1..N /\ a - 1 # a
        BY <2>0
      <4> QED
        BY <4>1, <1>2
    <3> QED
      BY <2>0, <2>1, <3>1, <3>2, <3>3, <3>4, <1>5
  <2>2. CASE b # a
    <3>1. t[b] = list[b] /\ list[b] # list[a] /\ list[b] \in Id /\ list[b] # i
      BY <2>0, <2>2, <1>1, <1>2, <1>4
    <3>2. n.item[list[b]].next = IF b = N THEN Null ELSE t[b + 1]
      <4>1. CASE b = a - 1
        <5>1. a # 1 /\ b + 1 = a /\ b # N
          BY <2>0, <4>1
        <5> QED
          BY <5>1, <4>1, <3>1, <2>0, <1>0, <1>2
      <4>2. CASE b # a - 1
        <5>1. a # 1 => a - 1 \in 1..N
          BY <2>0
        <5>2. a # 1 => list[b] # list[a - 1]
          BY <5>1, <4>2, <2>0, <1>4
        <5>3. n.item[list[b]].next = m.item[list[b]].next
          BY <3>1, <5>2, <1>0
        <5>4. b # N => b + 1 \in 1..N /\ b + 1 # a
          BY <2>0, <4>2
        <5>5. b # N => t[b + 1] = list[b + 1]
          BY <5>4, <1>2
        <5> QED
          BY <2>0, <5>3, <5>5, <1>5
      <4> QED
        BY <4>1, <4>2
    <3>3. n.item[list[b]].prev = IF b = 1 THEN Null ELSE t[b - 1]
      <4>1. CASE b = a + 1
        <5>1. a # N /\ b - 1 = a /\ b # 1
          BY <2>0, <4>1
        <5>2. n.item[list[b]].prev = i
          BY <5>1, <4>1, <3>1, <1>0
        <5> QED
          BY <5>1, <5>2, <2>0, <1>2
      <4>2. CASE b # a + 1
        <5>1. a # N => a + 1 \in 1..N
          BY <2>0
        <5>2. a # N => list[b] # list[a + 1]
          BY <5>1, <4>2, <2>0, <1>4
        <5>3. n.item[list[b]].prev = m.item[list[b]].prev
          BY <3>1, <5>2, <1>0
        <5>4. b # 1 => b - 1 \in 1..N /\ b - 1 # a
          BY <2>0, <4>2
        <5>5. b # 1 => t[b - 1] = list[b - 1]
          BY <5>4, <1>2
        <5> QED
          BY <2>0, <5>3, <5>5, <1>5
      <4> QED
        BY <4>1, <4>2
    <3> QED
      BY <3>1, <3>2, <3>3
  <2> QED
    BY <2>1, <2>2
<1> QED
  BY <1>2, <1>3, <1>6, <1>7 DEF Linked

(* The edits *)

\* The children of an item are those the forest says.
THEOREM ChildrenShown ==
  ASSUME NEW T, NEW V, NEW K, NEW m \in Heaps(T, V, K), NEW k, NEW r, Shows(m, k, r),
         NEW p \in Id, ~m.item[p].ref
  PROVE  Children(m, p) = k[p]
<1>1. m.item[p].child \in Link
  BY DEF Heaps, Items
<1> QED
  BY <1>1, ListIs DEF Shows, Children

\* What the proofs below need of p and of its children.
ListFacts(m, r, p, list) ==
  /\ list \in Seq(Id) /\ OneToOne(list) /\ Linked(m, m.item[p].child, list)
  /\ Children(m, p) = list /\ r \cap ToSet(list) = {}
  /\ Len(list) \in Nat /\ DOMAIN list = 1..Len(list) /\ (list = <<>> <=> Len(list) = 0)
  /\ m.item[p].child = IF list = <<>> THEN Null ELSE list[1]
  /\ \A a \in 1..Len(list) : /\ list[a] \in Id /\ list[a] \in ToSet(list)
                             /\ m.item[list[a]].next = IF a = Len(list) THEN Null ELSE list[a + 1]
                             /\ m.item[list[a]].prev = IF a = 1 THEN Null ELSE list[a - 1]
  /\ \A a, b \in 1..Len(list) : list[a] = list[b] => a = b

LEMMA ListOf ==
  ASSUME NEW T, NEW V, NEW K, NEW m \in Heaps(T, V, K), NEW k, NEW r, Shows(m, k, r),
         NEW p \in Id, ~m.item[p].ref
  PROVE  ListFacts(m, r, p, k[p])
<1> DEFINE list == k[p]
<1>1. list \in Seq(Id) /\ OneToOne(list) /\ Linked(m, m.item[p].child, list) /\ r \cap ToSet(list) = {}
  BY DEF Shows
<1>2. Children(m, p) = list
  BY ChildrenShown
<1> HIDE DEF list
<1>3. Len(list) \in Nat /\ DOMAIN list = 1..Len(list) /\ \A a \in 1..Len(list) : list[a] \in Id
  BY <1>1
<1>4. list = <<>> <=> Len(list) = 0
  BY <1>1, EmptySeq
<1>5. /\ \A a \in 1..Len(list) : /\ m.item[list[a]].next = IF a = Len(list) THEN Null ELSE list[a + 1]
                                 /\ m.item[list[a]].prev = IF a = 1 THEN Null ELSE list[a - 1]
      /\ m.item[p].child = IF list = <<>> THEN Null ELSE list[1]
  BY <1>1, <1>3 DEF Linked
<1>6. \A a, b \in 1..Len(list) : list[a] = list[b] => a = b
  BY <1>1, <1>3 DEF OneToOne
<1>7. \A a \in 1..Len(list) : list[a] \in ToSet(list)
  BY <1>3 DEF ToSet
<1>8. ListFacts(m, r, p, list)
  BY <1>1, <1>2, <1>3, <1>4, <1>5, <1>6, <1>7 DEF ListFacts
<1> QED
  BY <1>8, Zenon DEF list

\* A root that becomes a child of p at place a.
LEMMA InsertShown ==
  ASSUME NEW T, NEW V, NEW K, NEW m \in Heaps(T, V, K), NEW n, NEW k, NEW r, Shows(m, k, r),
         OnlyLinks(m, n), NEW p \in Id, ~m.item[p].ref,
         NEW i \in r, NEW a \in 1..(Len(k[p]) + 1),
         \A x \in Id : n.item[x].child = IF x = p /\ a = 1 THEN i ELSE m.item[x].child,
         \A x \in Id : n.item[x].next = IF x = i THEN IF a = Len(k[p]) + 1 THEN Null ELSE k[p][a]
                                        ELSE IF a # 1 /\ x = k[p][a - 1] THEN i
                                        ELSE m.item[x].next,
         \A x \in Id : n.item[x].prev = IF x = i THEN IF a = 1 THEN Null ELSE k[p][a - 1]
                                        ELSE IF a # Len(k[p]) + 1 /\ x = k[p][a] THEN i
                                        ELSE m.item[x].prev
  PROVE  Shows(n, [k EXCEPT ![p] = InsertAt(k[p], a, i)], r \ {i})
<1> DEFINE list == k[p]
           s == InsertAt(list, a, i)
<1>1. /\ list \in Seq(Id) /\ OneToOne(list) /\ Linked(m, m.item[p].child, list)
      /\ r \cap ToSet(list) = {} /\ Len(list) \in Nat /\ \A b \in 1..Len(list) : list[b] \in ToSet(list)
  <2>1. ListFacts(m, r, p, list)
    BY ListOf, Zenon
  <2> HIDE DEF list
  <2> QED
    BY <2>1 DEF ListFacts
<1>2. /\ i \in Id \ ToSet(list) /\ r \subseteq Id
      /\ \A x \in r : m.item[x].next = Null /\ m.item[x].prev = Null
  BY <1>1 DEF Shows
<1>3. a \in 1..(Len(list) + 1)
  BY Zenon DEF list
<1> HIDE DEF list
<1>4. s \in Seq(Id) /\ OneToOne(s) /\ ToSet(s) = ToSet(list) \cup {i}
  BY <1>1, <1>2, <1>3, Inserting
<1>5. Linked(n, n.item[p].child, s)
  <2>1. n.item[p].child = IF a = 1 THEN i ELSE m.item[p].child
    OBVIOUS
  <2> HIDE DEF s
  <2>2. /\ \A x \in Id : n.item[x].next = IF x = i THEN IF a = Len(list) + 1 THEN Null ELSE list[a]
                                          ELSE IF a # 1 /\ x = list[a - 1] THEN i
                                          ELSE m.item[x].next
        /\ \A x \in Id : n.item[x].prev = IF x = i THEN IF a = 1 THEN Null ELSE list[a - 1]
                                          ELSE IF a # Len(list) + 1 /\ x = list[a] THEN i
                                          ELSE m.item[x].prev
    BY Zenon DEF list
  <2> QED
    BY <1>1, <1>2, <1>3, <2>1, <2>2, InsertLinked DEF s
<1>6. \A x \in Id \ (ToSet(list) \cup {i}) : /\ n.item[x].next = m.item[x].next
                                             /\ n.item[x].prev = m.item[x].prev
  <2> SUFFICES ASSUME NEW x \in Id, x \notin ToSet(list), x # i
               PROVE  n.item[x].next = m.item[x].next /\ n.item[x].prev = m.item[x].prev
    BY Zenon
  <2>1. a # 1 => a - 1 \in 1..Len(list)
    BY <1>1, <1>3
  <2>2. a # Len(list) + 1 => a \in 1..Len(list)
    BY <1>1, <1>3
  <2>3. (a # 1 => x # list[a - 1]) /\ (a # Len(list) + 1 => x # list[a])
    BY <1>1, <2>1, <2>2
  <2> QED
    BY <2>3 DEF list
<1>7. \A x \in r \ {i} : n.item[x].next = Null /\ n.item[x].prev = Null
  BY <1>1, <1>2, <1>6
<1>8. \A x \in Id \ {p} : n.item[x].child = m.item[x].child
  OBVIOUS
<1> HIDE DEF s
<1>9. /\ ToSet(s) \subseteq ToSet(list) \cup r /\ r \ {i} \in SUBSET Id
      /\ r \ {i} \subseteq (ToSet(list) \cup r) \ ToSet(s)
  BY <1>1, <1>2, <1>4
<1>10. \A x \in Id \ (ToSet(list) \cup r) : /\ n.item[x].next = m.item[x].next
                                            /\ n.item[x].prev = m.item[x].prev
  BY <1>6
<1> QED
  BY <1>4, <1>5, <1>7, <1>8, <1>9, <1>10, EditKeeps DEF list, s

\* The places that get_array_item finds, counted from 0.
LEMMA ItemAt ==
  ASSUME NEW T, NEW V, NEW K, NEW m \in Heaps(T, V, K), NEW k, NEW r, Shows(m, k, r),
         NEW p \in Id, ~m.item[p].ref, NEW which \in Nat
  PROVE  get_array_item(m, p, which)
           = IF which < Len(k[p]) THEN k[p][which + 1] ELSE Null
<1>1. Children(m, p) = k[p] /\ Len(k[p]) \in Nat /\ DOMAIN k[p] = 1..Len(k[p])
  <2>1. ListFacts(m, r, p, k[p])
    BY ListOf, Zenon
  <2> QED
    BY <2>1, Zenon DEF ListFacts
<1>2. get_array_item(m, p, which) = IF which + 1 \in DOMAIN k[p] THEN k[p][which + 1] ELSE Null
  BY <1>1, Zenon DEF get_array_item
<1> DEFINE N == Len(k[p])
<1>3. N \in Int /\ which \in Nat
  BY <1>1
<1> HIDE DEF N
<1>4. which + 1 \in 1..N <=> which < N
  BY <1>3
<1> QED
  BY <1>1, <1>2, <1>4 DEF N

\* add_item_to_array puts a root behind the last child.
THEOREM AppendKeepsLists ==
  ASSUME NEW T, NEW V, NEW K, NEW m \in Heaps(T, V, K), NEW k, NEW r, Shows(m, k, r),
         NEW p \in Id, ~m.item[p].ref, NEW i \in r
  PROVE  LET done == add_item_to_array(m, p, i)
         IN /\ done.ok /\ done.m \in Heaps(T, V, K)
            /\ Shows(done.m, [k EXCEPT ![p] = InsertAt(k[p], Len(k[p]) + 1, i)], r \ {i})
<1> DEFINE list == k[p]
           a == Len(list) + 1
           done == add_item_to_array(m, p, i)
<1>1. /\ Children(m, p) = list /\ Len(list) \in Nat /\ (list = <<>> <=> Len(list) = 0)
      /\ \A b \in 1..Len(list) : list[b] \in Id /\ list[b] \in ToSet(list)
      /\ r \cap ToSet(list) = {}
      /\ m.item[p].child = IF list = <<>> THEN Null ELSE list[1]
  <2>1. ListFacts(m, r, p, list)
    BY ListOf, Zenon
  <2> HIDE DEF list
  <2> QED
    BY <2>1 DEF ListFacts
<1>2. i \in Id /\ i # Null /\ i \in Link /\ m.item[i].next = Null /\ m.item[i].prev = Null
  BY LinksAssumption DEF Shows, Link
<1> HIDE DEF list
<1>3. CASE list = <<>>
  <2> DEFINE n == SetChild(m, p, i)
  <2>1. done.m = n /\ done.ok
    BY <1>1, <1>2, <1>3 DEF add_item_to_array
  <2>2. /\ n \in Heaps(T, V, K) /\ OnlyLinks(m, n)
        /\ \A x \in Id : /\ n.item[x].child = IF x = p THEN i ELSE m.item[x].child
                         /\ n.item[x].next = m.item[x].next
                         /\ n.item[x].prev = m.item[x].prev
    BY <1>2, SetChildIs
  <2> HIDE DEF n
  <2>3. a = 1 /\ a \in 1..(Len(list) + 1)
    BY <1>1, <1>3
  <2>4. /\ \A x \in Id : n.item[x].child = IF x = p /\ a = 1 THEN i ELSE m.item[x].child
        /\ \A x \in Id : n.item[x].next = IF x = i THEN IF a = Len(list) + 1 THEN Null ELSE list[a]
                                          ELSE IF a # 1 /\ x = list[a - 1] THEN i
                                          ELSE m.item[x].next
        /\ \A x \in Id : n.item[x].prev = IF x = i THEN IF a = 1 THEN Null ELSE list[a - 1]
                                          ELSE IF a # Len(list) + 1 /\ x = list[a] THEN i
                                          ELSE m.item[x].prev
    BY <1>2, <2>2, <2>3
  <2>5. Shows(n, [k EXCEPT ![p] = InsertAt(list, a, i)], r \ {i})
    <3> HIDE DEF a
    <3> QED
      BY <2>2, <2>3, <2>4, InsertShown DEF list
  <2> QED
    BY <2>1, <2>2, <2>5 DEF list
<1>4. CASE list # <<>>
  <2> DEFINE last == Last(list)
             h == SetNext(m, last, i)
             n == SetPrev(h, i, last)
  <2>1. last = list[Len(list)] /\ last \in Id /\ last \in Link /\ last # Null
    BY <1>1, <1>4, LinksAssumption DEF Last, Link
  <2>2. done.m = n /\ done.ok
    BY <1>1, <1>2, <1>4 DEF add_item_to_array, suffix_object
  <2> HIDE DEF last
  <2>3. /\ h \in Heaps(T, V, K) /\ OnlyLinks(m, h)
        /\ \A x \in Id : /\ h.item[x].next = IF x = last THEN i ELSE m.item[x].next
                         /\ h.item[x].prev = m.item[x].prev
                         /\ h.item[x].child = m.item[x].child
    BY <1>2, <2>1, SetNextIs
  <2> HIDE DEF h
  <2>4. /\ n \in Heaps(T, V, K) /\ OnlyLinks(h, n)
        /\ \A x \in Id : /\ n.item[x].prev = IF x = i THEN last ELSE h.item[x].prev
                         /\ n.item[x].next = h.item[x].next
                         /\ n.item[x].child = h.item[x].child
    BY <1>2, <2>1, <2>3, SetPrevIs
  <2> HIDE DEF n
  <2>5. a # 1 /\ a - 1 = Len(list) /\ a \in 1..(Len(list) + 1)
    BY <1>1, <1>4
  <2>6. i # last
    <3>1. Len(list) \in 1..Len(list)
      BY <1>1, <1>4
    <3>2. last \in ToSet(list)
      BY <1>1, <2>1, <3>1
    <3> QED
      BY <1>1, <3>2
  <2>7. /\ \A x \in Id : n.item[x].child = IF x = p /\ a = 1 THEN i ELSE m.item[x].child
        /\ \A x \in Id : n.item[x].next = IF x = i THEN IF a = Len(list) + 1 THEN Null ELSE list[a]
                                          ELSE IF a # 1 /\ x = list[a - 1] THEN i
                                          ELSE m.item[x].next
        /\ \A x \in Id : n.item[x].prev = IF x = i THEN IF a = 1 THEN Null ELSE list[a - 1]
                                          ELSE IF a # Len(list) + 1 /\ x = list[a] THEN i
                                          ELSE m.item[x].prev
    BY <1>2, <2>1, <2>3, <2>4, <2>5, <2>6
  <2>8. OnlyLinks(m, n)
    BY <2>3, <2>4, OnlyLinksChain
  <2>9. Shows(n, [k EXCEPT ![p] = InsertAt(list, a, i)], r \ {i})
    <3> HIDE DEF a
    <3> QED
      BY <2>5, <2>7, <2>8, InsertShown DEF list
  <2> QED
    BY <2>2, <2>4, <2>9 DEF list
<1> QED
  BY <1>3, <1>4

\* cJSON_InsertItemInArray puts a root before the child at a place, or behind the
\* last child when there is none, and refuses a place before the first.
THEOREM InsertKeepsLists ==
  ASSUME NEW T, NEW V, NEW K, NEW m \in Heaps(T, V, K), NEW k, NEW r, Shows(m, k, r),
         NEW p \in Id, ~m.item[p].ref, NEW i \in r, NEW which \in Int
  PROVE  LET done == cJSON_InsertItemInArray(m, p, which, i)
             a == IF which < Len(k[p]) THEN which + 1 ELSE Len(k[p]) + 1
         IN /\ which < 0 => ~done.ok /\ done.m = m
            /\ which >= 0 => /\ done.ok /\ done.m \in Heaps(T, V, K)
                             /\ Shows(done.m, [k EXCEPT ![p] = InsertAt(k[p], a, i)], r \ {i})
<1> DEFINE list == k[p]
           after == get_array_item(m, p, which)
           before == m.item[after].prev
           done == cJSON_InsertItemInArray(m, p, which, i)
<1>1. /\ Len(list) \in Nat /\ (list = <<>> <=> Len(list) = 0)
      /\ \A b \in 1..Len(list) :
           list[b] \in Id /\ m.item[list[b]].prev = IF b = 1 THEN Null ELSE list[b - 1]
      /\ m.item[p].child = IF list = <<>> THEN Null ELSE list[1]
      /\ \A b, c \in 1..Len(list) : list[b] = list[c] => b = c
      /\ r \cap ToSet(list) = {} /\ DOMAIN list = 1..Len(list)
  <2>1. ListFacts(m, r, p, list)
    BY ListOf, Zenon
  <2> HIDE DEF list
  <2> QED
    BY <2>1 DEF ListFacts
<1>2. i \in Id /\ i # Null /\ i \in Link /\ m.item[i].next = Null /\ m.item[i].prev = Null
  BY LinksAssumption DEF Shows, Link
<1> HIDE DEF list
<1>3. CASE which < 0
  BY <1>3 DEF cJSON_InsertItemInArray
<1>4. CASE which >= 0 /\ ~(which < Len(list))
  <2>1. which \in Nat
    BY <1>4
  <2>2. after = Null
    BY <1>4, <2>1, ItemAt, Zenon DEF list
  <2>3. done = add_item_to_array(m, p, i)
    BY <1>4, <2>2 DEF cJSON_InsertItemInArray
  <2> HIDE DEF done
  <2>4. /\ done.ok /\ done.m \in Heaps(T, V, K)
        /\ Shows(done.m, [k EXCEPT ![p] = InsertAt(list, Len(list) + 1, i)], r \ {i})
    BY <2>3, AppendKeepsLists DEF list
  <2> QED
    BY <1>4, <2>4 DEF done, list
<1>5. CASE which >= 0 /\ which < Len(list)
  <2> DEFINE a == which + 1
             h1 == SetNext(m, i, after)
             h2 == SetPrev(h1, i, before)
             h3 == SetPrev(h2, after, i)
             n == IF a = 1 THEN SetChild(h3, p, i) ELSE SetNext(h3, before, i)
  <2>1. /\ which \in Nat /\ a \in Int
        /\ a \in 1..Len(list) /\ a \in 1..(Len(list) + 1) /\ a # Len(list) + 1
    BY <1>1, <1>5
  <2>2. after = list[a]
    <3>1. after = IF which < Len(list) THEN list[which + 1] ELSE Null
      BY <2>1, ItemAt, Zenon DEF list
    <3> QED
      BY <1>5, <3>1
  <2>3. after \in Id /\ after \in Link /\ after # Null
    BY <2>1, <2>2, <1>1, LinksAssumption DEF Link
  <2>4. before = IF a = 1 THEN Null ELSE list[a - 1]
    BY <1>1, <2>1, <2>2
  <2>5. a # 1 => a - 1 \in 1..Len(list)
    BY <2>1
  <2>6. before \in Link /\ (a # 1 => before # Null /\ before # after)
    BY <1>1, <2>1, <2>2, <2>4, <2>5, LinksAssumption DEF Link
  <2>7. i # after /\ i # before
    <3>1. \A b \in 1..Len(list) : list[b] \in ToSet(list)
      BY <1>1 DEF ToSet
    <3> QED
      BY <3>1, <1>1, <1>2, <2>1, <2>2, <2>4, <2>5
  <2>8. a = 1 <=> after = m.item[p].child
    BY <1>1, <2>1, <2>2
  <2>9. done.ok /\ done.m = n
    BY <1>5, <2>3, <2>8 DEF cJSON_InsertItemInArray
  <2> HIDE DEF a, after, before, done
  <2>10. /\ h1 \in Heaps(T, V, K) /\ OnlyLinks(m, h1)
         /\ \A x \in Id : /\ h1.item[x].next = IF x = i THEN after ELSE m.item[x].next
                          /\ h1.item[x].prev = m.item[x].prev
                          /\ h1.item[x].child = m.item[x].child
    BY <1>2, <2>3, SetNextIs
  <2> HIDE DEF h1
  <2>11. /\ h2 \in Heaps(T, V, K) /\ OnlyLinks(h1, h2)
         /\ \A x \in Id : /\ h2.item[x].prev = IF x = i THEN before ELSE h1.item[x].prev
                          /\ h2.item[x].next = h1.item[x].next
                          /\ h2.item[x].child = h1.item[x].child
    BY <1>2, <2>6, <2>10, SetPrevIs
  <2> HIDE DEF h2
  <2>12. /\ h3 \in Heaps(T, V, K) /\ OnlyLinks(h2, h3)
         /\ \A x \in Id : /\ h3.item[x].prev = IF x = after THEN i ELSE h2.item[x].prev
                          /\ h3.item[x].next = h2.item[x].next
                          /\ h3.item[x].child = h2.item[x].child
    BY <1>2, <2>3, <2>11, SetPrevIs
  <2> HIDE DEF h3
  <2>13. /\ n \in Heaps(T, V, K) /\ OnlyLinks(h3, n)
         /\ \A x \in Id : /\ n.item[x].child = IF x = p /\ a = 1 THEN i ELSE h3.item[x].child
                          /\ n.item[x].next = IF a # 1 /\ x = before THEN i ELSE h3.item[x].next
                          /\ n.item[x].prev = h3.item[x].prev
    <3>1. CASE a = 1
      <4>1. n = SetChild(h3, p, i)
        BY <3>1
      <4> HIDE DEF n
      <4> QED
        BY <3>1, <4>1, <1>2, <2>12, SetChildIs
    <3>2. CASE a # 1
      <4>1. n = SetNext(h3, before, i)
        BY <3>2
      <4> HIDE DEF n
      <4> QED
        BY <3>2, <4>1, <1>2, <2>6, <2>12, SetNextIs
    <3> QED
      BY <3>1, <3>2
  <2> HIDE DEF n
  <2>14. OnlyLinks(m, n)
    BY <2>10, <2>11, <2>12, <2>13, OnlyLinksChain
  <2>15. /\ \A x \in Id : n.item[x].child = IF x = p /\ a = 1 THEN i ELSE m.item[x].child
         /\ \A x \in Id : n.item[x].next = IF x = i THEN IF a = Len(list) + 1 THEN Null ELSE list[a]
                                           ELSE IF a # 1 /\ x = list[a - 1] THEN i
                                           ELSE m.item[x].next
         /\ \A x \in Id : n.item[x].prev = IF x = i THEN IF a = 1 THEN Null ELSE list[a - 1]
                                           ELSE IF a # Len(list) + 1 /\ x = list[a] THEN i
                                           ELSE m.item[x].prev
    BY <2>1, <2>2, <2>4, <2>7, <2>10, <2>11, <2>12, <2>13
  <2>16. Shows(n, [k EXCEPT ![p] = InsertAt(list, a, i)], r \ {i})
    BY <2>1, <2>14, <2>15, InsertShown DEF list
  <2>17. ~(which < 0)
    BY <1>5
  <2> QED
    BY <1>5, <2>9, <2>13, <2>16, <2>17 DEF list, done, a
<1> QED
  BY <1>1, <1>3, <1>4, <1>5

\* cJSON_DetachItemViaPointer takes out the child that the pointer names, and no
\* other: it is a root from then on.
THEOREM DetachKeepsLists ==
  ASSUME NEW T, NEW V, NEW K, NEW m \in Heaps(T, V, K), NEW k, NEW r, Shows(m, k, r),
         NEW p \in Id, ~m.item[p].ref, NEW a \in 1..Len(k[p])
  PROVE  LET done == cJSON_DetachItemViaPointer(m, p, k[p][a])
         IN /\ done.p = k[p][a] /\ done.m \in Heaps(T, V, K)
            /\ Shows(done.m, [k EXCEPT ![p] = RemoveAt(k[p], a)], r \cup {k[p][a]})
<1> DEFINE list == k[p]
           i == list[a]
           next == m.item[i].next
           prev == m.item[i].prev
           h1 == SetNext(m, prev, next)
           h2 == SetPrev(h1, next, prev)
           h3 == IF i = m.item[p].child THEN SetChild(h2, p, next) ELSE h2
           h4 == SetPrev(h3, i, Null)
           n == SetNext(h4, i, Null)
           s == RemoveAt(list, a)
           t == r \cup {i}
<1>1. /\ list \in Seq(Id) /\ OneToOne(list) /\ Linked(m, m.item[p].child, list)
      /\ Len(list) \in Nat /\ (list = <<>> <=> Len(list) = 0) /\ DOMAIN list = 1..Len(list)
      /\ \A b \in 1..Len(list) : /\ list[b] \in Id
                                 /\ m.item[list[b]].next = IF b = Len(list) THEN Null ELSE list[b + 1]
                                 /\ m.item[list[b]].prev = IF b = 1 THEN Null ELSE list[b - 1]
      /\ m.item[p].child = IF list = <<>> THEN Null ELSE list[1]
      /\ \A b, c \in 1..Len(list) : list[b] = list[c] => b = c
      /\ r \cap ToSet(list) = {}
  <2>1. ListFacts(m, r, p, list)
    BY ListOf, Zenon
  <2> HIDE DEF list
  <2> QED
    BY <2>1 DEF ListFacts
<1>2. a \in 1..Len(list) /\ a \in DOMAIN list
  <2>1. a \in 1..Len(list)
    BY Zenon
  <2> QED
    BY <2>1, <1>1, Zenon
<1>3. /\ a # 1 => a - 1 \in 1..Len(list)
      /\ a # Len(list) => a + 1 \in 1..Len(list)
      /\ 1 \in 1..Len(list) /\ list # <<>>
  <2> DEFINE N == Len(list)
  <2>1. N \in Nat /\ a \in 1..N /\ (list = <<>> <=> N = 0)
    BY <1>1, <1>2, Zenon
  <2> HIDE DEF N, list
  <2>2. a \in Int /\ N \in Int /\ 1 <= a /\ a <= N
    BY <2>1
  <2>3. (a # 1 => a - 1 \in 1..N) /\ (a # N => a + 1 \in 1..N) /\ 1 \in 1..N /\ N # 0
    BY <2>2
  <2> QED
    BY <2>1, <2>3, Zenon DEF N
<1> HIDE DEF list
<1>4. i \in Id /\ i # Null /\ i \in Link /\ Null \in Link
  BY <1>1, <1>2, LinksAssumption DEF Link
<1>5. i \in ToSet(list)
  BY <1>1, <1>2 DEF ToSet
<1>6. /\ next = IF a = Len(list) THEN Null ELSE list[a + 1]
      /\ prev = IF a = 1 THEN Null ELSE list[a - 1]
  BY <1>1, <1>2
<1>7. next \in Link /\ prev \in Link
  BY <1>4 DEF Heaps, Items
<1>8. i = m.item[p].child <=> a = 1
  <2>1. m.item[p].child = list[1]
    BY <1>3, <1>1, Zenon
  <2>2. \A b \in 1..Len(list) : list[b] = list[1] => b = 1
    BY <1>3, <1>1, Zenon
  <2> QED
    BY <2>1, <2>2, <1>2, Zenon
<1>9. cJSON_DetachItemViaPointer(m, p, i) = [m |-> n, p |-> i]
  BY <1>4, Zenon DEF cJSON_DetachItemViaPointer
<1> HIDE DEF i, next, prev, n
<1>10. /\ h1 \in Heaps(T, V, K) /\ OnlyLinks(m, h1)
      /\ \A x \in Id : /\ h1.item[x].next = IF x = prev THEN next ELSE m.item[x].next
                       /\ h1.item[x].prev = m.item[x].prev
                       /\ h1.item[x].child = m.item[x].child
  BY <1>7, SetNextIs
<1> HIDE DEF h1
<1>11. /\ h2 \in Heaps(T, V, K) /\ OnlyLinks(h1, h2)
       /\ \A x \in Id : /\ h2.item[x].prev = IF x = next THEN prev ELSE h1.item[x].prev
                        /\ h2.item[x].next = h1.item[x].next
                        /\ h2.item[x].child = h1.item[x].child
  BY <1>7, <1>10, SetPrevIs
<1> HIDE DEF h2
<1>12. /\ h3 \in Heaps(T, V, K) /\ OnlyLinks(h2, h3)
       /\ \A x \in Id : /\ h3.item[x].child = IF x = p /\ a = 1 THEN next ELSE h2.item[x].child
                        /\ h3.item[x].next = h2.item[x].next
                        /\ h3.item[x].prev = h2.item[x].prev
  <2>1. CASE a = 1
    <3>1. h3 = SetChild(h2, p, next)
      BY <2>1, <1>8
    <3> HIDE DEF h3
    <3> QED
      BY <2>1, <3>1, <1>7, <1>11, SetChildIs
  <2>2. CASE a # 1
    <3>1. h3 = h2
      BY <2>2, <1>8
    <3> HIDE DEF h3
    <3> QED
      BY <2>2, <3>1, <1>11 DEF OnlyLinks
  <2> QED
    BY <2>1, <2>2
<1> HIDE DEF h3
<1>13. /\ h4 \in Heaps(T, V, K) /\ OnlyLinks(h3, h4)
       /\ \A x \in Id : /\ h4.item[x].prev = IF x = i THEN Null ELSE h3.item[x].prev
                        /\ h4.item[x].next = h3.item[x].next
                        /\ h4.item[x].child = h3.item[x].child
  BY <1>4, <1>12, SetPrevIs
<1> HIDE DEF h4
<1>14. /\ n \in Heaps(T, V, K) /\ OnlyLinks(h4, n)
       /\ \A x \in Id : /\ n.item[x].next = IF x = i THEN Null ELSE h4.item[x].next
                        /\ n.item[x].prev = h4.item[x].prev
                        /\ n.item[x].child = h4.item[x].child
  BY <1>4, <1>13, SetNextIs DEF n
<1>15. OnlyLinks(m, n)
  BY <1>10, <1>11, <1>12, <1>13, <1>14, OnlyLinksChain
<1>16. \A x \in Id : /\ n.item[x].child = IF x = p /\ a = 1 THEN next ELSE m.item[x].child
                     /\ n.item[x].next = IF x = i THEN Null ELSE IF x = prev THEN next ELSE m.item[x].next
                     /\ n.item[x].prev = IF x = i THEN Null ELSE IF x = next THEN prev ELSE m.item[x].prev
  BY <1>10, <1>11, <1>12, <1>13, <1>14
<1>17. \A x \in Id : x # Null
  BY LinksAssumption
<1>18. Linked(n, n.item[p].child, s)
  <2>1. n.item[p].child = IF a = 1 THEN m.item[list[a]].next ELSE m.item[p].child
    BY <1>16 DEF i, next
  <2>2. \A x \in Id \ {list[a]} :
          /\ n.item[x].next = IF a # 1 /\ x = list[a - 1] THEN m.item[list[a]].next ELSE m.item[x].next
          /\ n.item[x].prev = IF a # Len(list) /\ x = list[a + 1] THEN m.item[list[a]].prev
                              ELSE m.item[x].prev
    BY <1>6, <1>16, <1>17 DEF i, next, prev
  <2> QED
    <3>1. /\ list \in Seq(Id) /\ OneToOne(list) /\ Linked(m, m.item[p].child, list)
          /\ a \in 1..Len(list)
      BY <1>1, <1>2, Zenon
    <3> QED
      BY <3>1, <2>1, <2>2, RemoveLinked, Zenon
<1>19. s \in Seq(Id) /\ OneToOne(s) /\ ToSet(s) = ToSet(list) \ {i}
  <2>1. list \in Seq(Id) /\ OneToOne(list) /\ a \in DOMAIN list
    BY <1>1, <1>2, Zenon
  <2> QED
    BY <2>1, Removing DEF i
<1>20. prev # Null => prev \in ToSet(list)
  <2>1. a # 1 => a - 1 \in 1..Len(list)
    BY <1>3
  <2> QED
    BY <2>1, <1>1, <1>6 DEF ToSet
<1>21. next # Null => next \in ToSet(list)
  <2>1. a # Len(list) => a + 1 \in 1..Len(list)
    BY <1>3
  <2> QED
    BY <2>1, <1>1, <1>6 DEF ToSet
<1>22. \A x \in Id \ ToSet(list) : n.item[x].next = m.item[x].next /\ n.item[x].prev = m.item[x].prev
  BY <1>5, <1>16, <1>17, <1>20, <1>21
<1> HIDE DEF s
<1>23. r \subseteq Id /\ \A x \in r : m.item[x].next = Null /\ m.item[x].prev = Null
  BY DEF Shows
<1>24. \A x \in t : n.item[x].next = Null /\ n.item[x].prev = Null
  BY <1>1, <1>4, <1>16, <1>22, <1>23
<1>25. /\ t \in SUBSET Id /\ ToSet(s) \subseteq ToSet(list) \cup r
       /\ t \subseteq (ToSet(list) \cup r) \ ToSet(s)
  BY <1>1, <1>4, <1>5, <1>19, <1>23
<1>26. \A x \in Id \ {p} : n.item[x].child = m.item[x].child
  BY <1>16
<1>27. \A x \in Id \ (ToSet(list) \cup r) :
         n.item[x].next = m.item[x].next /\ n.item[x].prev = m.item[x].prev
  BY <1>22
<1> HIDE DEF t
<1>28. Shows(n, [k EXCEPT ![p] = s], t)
  BY <1>15, <1>18, <1>19, <1>24, <1>25, <1>26, <1>27, EditKeeps DEF list
<1>29. cJSON_DetachItemViaPointer(m, p, k[p][a]) = [m |-> n, p |-> k[p][a]]
  BY <1>9 DEF i, list
<1> QED
  BY <1>14, <1>28, <1>29 DEF s, t, i, list

\* cJSON_ReplaceItemViaPointer puts a root in the place of a child, and the child is
\* out of the tree, without siblings, when it is deleted.
THEOREM ReplaceKeepsLists ==
  ASSUME NEW T, NEW V, NEW K, NEW m \in Heaps(T, V, K), NEW k, NEW r, Shows(m, k, r),
         NEW p \in Id, ~m.item[p].ref, NEW a \in 1..Len(k[p]), NEW i \in r
  PROVE  LET n == TakePlace(m, p, k[p][a], i)
         IN /\ n \in Heaps(T, V, K)
            /\ Shows(n, [k EXCEPT ![p] = [@ EXCEPT ![a] = i]], (r \ {i}) \cup {k[p][a]})
<1> DEFINE list == k[p]
           old == list[a]
           next == m.item[old].next
           prev == m.item[old].prev
           h1 == SetNext(m, i, next)
           h2 == SetPrev(h1, i, prev)
           h3 == SetPrev(h2, next, i)
           h4 == SetNext(h3, prev, i)
           h5 == IF m.item[p].child = old THEN SetChild(h4, p, i) ELSE h4
           h6 == SetNext(h5, old, Null)
           n == SetPrev(h6, old, Null)
           s == [list EXCEPT ![a] = i]
           t == (r \ {i}) \cup {old}
<1>1. /\ list \in Seq(Id) /\ OneToOne(list) /\ Linked(m, m.item[p].child, list)
      /\ Len(list) \in Nat /\ (list = <<>> <=> Len(list) = 0) /\ DOMAIN list = 1..Len(list)
      /\ \A b \in 1..Len(list) : /\ list[b] \in Id
                                 /\ m.item[list[b]].next = IF b = Len(list) THEN Null ELSE list[b + 1]
                                 /\ m.item[list[b]].prev = IF b = 1 THEN Null ELSE list[b - 1]
      /\ m.item[p].child = IF list = <<>> THEN Null ELSE list[1]
      /\ \A b, c \in 1..Len(list) : list[b] = list[c] => b = c
      /\ r \cap ToSet(list) = {}
  <2>1. ListFacts(m, r, p, list)
    BY ListOf, Zenon
  <2> HIDE DEF list
  <2> QED
    BY <2>1 DEF ListFacts
<1>2. a \in 1..Len(list) /\ a \in DOMAIN list
  <2>1. a \in 1..Len(list)
    BY Zenon
  <2> QED
    BY <2>1, <1>1, Zenon
<1>3. /\ a # 1 => a - 1 \in 1..Len(list)
      /\ a # Len(list) => a + 1 \in 1..Len(list)
      /\ 1 \in 1..Len(list) /\ list # <<>>
  <2> DEFINE N == Len(list)
  <2>1. N \in Nat /\ a \in 1..N /\ (list = <<>> <=> N = 0)
    BY <1>1, <1>2, Zenon
  <2> HIDE DEF N, list
  <2>2. a \in Int /\ N \in Int /\ 1 <= a /\ a <= N
    BY <2>1
  <2>3. (a # 1 => a - 1 \in 1..N) /\ (a # N => a + 1 \in 1..N) /\ 1 \in 1..N /\ N # 0
    BY <2>2
  <2> QED
    BY <2>1, <2>3, Zenon DEF N
<1>4. r \subseteq Id /\ \A x \in r : m.item[x].next = Null /\ m.item[x].prev = Null
  BY DEF Shows
<1>5. TakePlace(m, p, old, i) = n
  BY Zenon DEF TakePlace
<1> HIDE DEF list, n
<1>6. /\ old \in Id /\ old # Null /\ old \in Link /\ Null \in Link
      /\ i \in Id /\ i # Null /\ i \in Link
  BY <1>1, <1>2, <1>4, LinksAssumption DEF Link
<1>7. old \in ToSet(list) /\ i \notin ToSet(list)
  BY <1>1, <1>2 DEF ToSet
<1>8. /\ next = IF a = Len(list) THEN Null ELSE list[a + 1]
      /\ prev = IF a = 1 THEN Null ELSE list[a - 1]
  BY <1>1, <1>2
<1>9. next \in Link /\ prev \in Link
  BY <1>6 DEF Heaps, Items
<1>10. m.item[p].child = old <=> a = 1
  <2>1. m.item[p].child = list[1]
    BY <1>3, <1>1, Zenon
  <2>2. \A b \in 1..Len(list) : list[b] = list[1] => b = 1
    BY <1>3, <1>1, Zenon
  <2> QED
    BY <2>1, <2>2, <1>2, Zenon
<1>11. \A x \in Id : x # Null
  BY LinksAssumption
<1>12. prev # Null => prev \in ToSet(list)
  <2>1. a # 1 => a - 1 \in 1..Len(list)
    BY <1>3
  <2> QED
    BY <2>1, <1>1, <1>8 DEF ToSet
<1>13. next # Null => next \in ToSet(list)
  <2>1. a # Len(list) => a + 1 \in 1..Len(list)
    BY <1>3
  <2> QED
    BY <2>1, <1>1, <1>8 DEF ToSet
<1> HIDE DEF old, next, prev
<1>14. /\ h1 \in Heaps(T, V, K) /\ OnlyLinks(m, h1)
       /\ \A x \in Id : /\ h1.item[x].next = IF x = i THEN next ELSE m.item[x].next
                        /\ h1.item[x].prev = m.item[x].prev
                        /\ h1.item[x].child = m.item[x].child
  BY <1>6, <1>9, SetNextIs
<1> HIDE DEF h1
<1>15. /\ h2 \in Heaps(T, V, K) /\ OnlyLinks(h1, h2)
       /\ \A x \in Id : /\ h2.item[x].prev = IF x = i THEN prev ELSE h1.item[x].prev
                        /\ h2.item[x].next = h1.item[x].next
                        /\ h2.item[x].child = h1.item[x].child
  BY <1>6, <1>9, <1>14, SetPrevIs
<1> HIDE DEF h2
<1>16. /\ h3 \in Heaps(T, V, K) /\ OnlyLinks(h2, h3)
       /\ \A x \in Id : /\ h3.item[x].prev = IF x = next THEN i ELSE h2.item[x].prev
                        /\ h3.item[x].next = h2.item[x].next
                        /\ h3.item[x].child = h2.item[x].child
  BY <1>6, <1>9, <1>15, SetPrevIs
<1> HIDE DEF h3
<1>17. /\ h4 \in Heaps(T, V, K) /\ OnlyLinks(h3, h4)
       /\ \A x \in Id : /\ h4.item[x].next = IF x = prev THEN i ELSE h3.item[x].next
                        /\ h4.item[x].prev = h3.item[x].prev
                        /\ h4.item[x].child = h3.item[x].child
  BY <1>6, <1>9, <1>16, SetNextIs
<1> HIDE DEF h4
<1>18. /\ h5 \in Heaps(T, V, K) /\ OnlyLinks(h4, h5)
       /\ \A x \in Id : /\ h5.item[x].child = IF x = p /\ a = 1 THEN i ELSE h4.item[x].child
                        /\ h5.item[x].next = h4.item[x].next
                        /\ h5.item[x].prev = h4.item[x].prev
  <2>1. CASE a = 1
    <3>1. h5 = SetChild(h4, p, i)
      BY <2>1, <1>10
    <3> HIDE DEF h5
    <3> QED
      <4>1. i \in Link /\ h4 \in Heaps(T, V, K)
        BY <1>6, <1>17
      <4>2. /\ h5 \in Heaps(T, V, K) /\ OnlyLinks(h4, h5)
            /\ \A x \in Id : /\ h5.item[x].child = IF x = p THEN i ELSE h4.item[x].child
                             /\ h5.item[x].next = h4.item[x].next
                             /\ h5.item[x].prev = h4.item[x].prev
        BY <3>1, <4>1, SetChildIs
      <4> QED
        BY <2>1, <4>2
  <2>2. CASE a # 1
    <3>1. h5 = h4
      BY <2>2, <1>10
    <3> HIDE DEF h5
    <3> QED
      BY <2>2, <3>1, <1>17 DEF OnlyLinks
  <2> QED
    BY <2>1, <2>2
<1> HIDE DEF h5
<1>19. /\ h6 \in Heaps(T, V, K) /\ OnlyLinks(h5, h6)
       /\ \A x \in Id : /\ h6.item[x].next = IF x = old THEN Null ELSE h5.item[x].next
                        /\ h6.item[x].prev = h5.item[x].prev
                        /\ h6.item[x].child = h5.item[x].child
  BY <1>6, <1>18, SetNextIs
<1> HIDE DEF h6
<1>20. /\ n \in Heaps(T, V, K) /\ OnlyLinks(h6, n)
       /\ \A x \in Id : /\ n.item[x].prev = IF x = old THEN Null ELSE h6.item[x].prev
                        /\ n.item[x].next = h6.item[x].next
                        /\ n.item[x].child = h6.item[x].child
  BY <1>6, <1>19, SetPrevIs DEF n
<1>21. OnlyLinks(m, n)
  BY <1>14, <1>15, <1>16, <1>17, <1>18, <1>19, <1>20, OnlyLinksChain
<1>22. \A x \in Id :
         /\ n.item[x].child = IF x = p /\ a = 1 THEN i ELSE m.item[x].child
         /\ n.item[x].next = IF x = old THEN Null ELSE IF x = prev THEN i
                             ELSE IF x = i THEN next ELSE m.item[x].next
         /\ n.item[x].prev = IF x = old THEN Null ELSE IF x = next THEN i
                             ELSE IF x = i THEN prev ELSE m.item[x].prev
  BY <1>14, <1>15, <1>16, <1>17, <1>18, <1>19, <1>20
<1>23. /\ list \in Seq(Id) /\ OneToOne(list) /\ Linked(m, m.item[p].child, list)
       /\ a \in DOMAIN list /\ i \in Id /\ i \notin ToSet(list)
  BY <1>1, <1>2, <1>6, <1>7, Zenon
<1>24. s \in Seq(Id) /\ Replaced(list, a, i, s)
  BY <1>23 DEF Replaced
<1> HIDE DEF s
<1>25. Linked(n, n.item[p].child, s)
  <2>1. n.item[p].child = IF a = 1 THEN i ELSE m.item[p].child
    BY <1>22
  <2>2. i # prev /\ i # next
    BY <1>6, <1>7, <1>12, <1>13
  <2>3. TakesOver(m, n, list, a, i)
    BY <2>2, <1>8, <1>11, <1>22 DEF old, next, prev, TakesOver
  <2>4. Linked(n, IF a = 1 THEN i ELSE m.item[p].child, s)
    BY <1>23, <1>24, <2>3, ReplaceLinked, Zenon
  <2> QED
    BY <2>1, <2>4
<1>26. OneToOne(s) /\ ToSet(s) = (ToSet(list) \ {old}) \cup {i}
  <2>1. a \in DOMAIN list /\ OneToOne(list) /\ i \notin ToSet(list) /\ Replaced(list, a, i, s)
    BY <1>23, <1>24
  <2> HIDE DEF old, t
  <2>2. OneToOne(s) /\ ToSet(s) = (ToSet(list) \ {list[a]}) \cup {i}
    BY <2>1, Replacing
  <2> QED
    BY <2>2 DEF old
<1>27. \A x \in Id \ (ToSet(list) \cup {i}) :
         n.item[x].next = m.item[x].next /\ n.item[x].prev = m.item[x].prev
  BY <1>7, <1>11, <1>12, <1>13, <1>22
<1>28. \A x \in t : n.item[x].next = Null /\ n.item[x].prev = Null
  BY <1>1, <1>4, <1>6, <1>22, <1>27
<1>29. /\ t \in SUBSET Id /\ ToSet(s) \subseteq ToSet(list) \cup r
       /\ t \subseteq (ToSet(list) \cup r) \ ToSet(s)
  BY <1>1, <1>4, <1>6, <1>7, <1>26
<1>30. \A x \in Id \ {p} : n.item[x].child = m.item[x].child
  BY <1>22
<1>31. \A x \in Id \ (ToSet(list) \cup r) :
         n.item[x].next = m.item[x].next /\ n.item[x].prev = m.item[x].prev
  BY <1>27
<1> HIDE DEF t
<1>32. Shows(n, [k EXCEPT ![p] = s], t)
  BY <1>21, <1>24, <1>25, <1>26, <1>28, <1>29, <1>30, <1>31, EditKeeps DEF list
<1>33. [k EXCEPT ![p] = [@ EXCEPT ![a] = i]] = [k EXCEPT ![p] = s]
  BY Zenon DEF s, list
<1>34. TakePlace(m, p, k[p][a], i) = n
  BY <1>5 DEF old, list
<1> QED
  BY <1>20, <1>32, <1>33, <1>34 DEF t, old, list
=============================================================================
