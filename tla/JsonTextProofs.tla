--------------------------- MODULE JsonTextProofs ----------------------------
(***************************************************************************)
(* Proofs about the printer and the parser of cJSON.c: for documents and   *)
(* texts of every shape, buffers of every size, any nesting limit and      *)
(* however many allocations succeed, nothing is written outside of a block *)
(* and no block is lost.                                                   *)
(***************************************************************************)
EXTENDS JsonMeaning, Counting, SequenceTheorems

(***************************************************************************)
(* Recursion by levels                                                     *)
(***************************************************************************)

\* The functions defined by recursion on how deep a document is nested, each with
\* below for its value one level down.
Level(of, n, below) ==
  IF of = "documents"
  THEN Items({"Number"}, Numbers, {<<>>})
         \cup Items({"Invalid"} \cup DOMAIN Word, {NoText}, {<<>>})
         \cup Items({"String", "Raw"}, CharPointer, {<<>>})
         \cup (IF n = 0 THEN {} ELSE Items(DOMAIN Open, {NoText}, Seq(below)))
  ELSE IF of = "blocks"
  THEN [d \in Nested[n] |-> OwnBlocks(d) + (IF n = 0 THEN 0 ELSE SumOf(d.kids, below))]
  ELSE IF of = "print"
  THEN [q \in Buffer |-> [i \in Nested[n] |-> value_of_type(q, i, IF n = 0 THEN <<>> ELSE below)]]
  ELSE IF of = "render"
  THEN [d \in Nested[n] |-> [format \in BOOLEAN |-> [depth \in Nat |->
          Compose(d, format, depth, IF n = 0 THEN <<>> ELSE below)]]]
  ELSE IF of = "again"
  THEN [d \in Nested[n] |-> [member \in BOOLEAN |-> Again(d, member, IF n = 0 THEN <<>> ELSE below)]]
  ELSE IF of = "within"
  THEN [d \in Nested[n] |-> {d} \cup (IF n = 0 THEN {}
                                      ELSE UNION {below[d.kids[k]] : k \in DOMAIN d.kids})]
  ELSE [c \in ParseBuffer |-> [i \in NewItems |-> value_from(c, i, IF n = 0 THEN <<>> ELSE below)]]

LEMMA BottomLevel ==
  \A of, x, y : Level(of, 0, x) = Level(of, 0, y)
BY DEF Level

LEMMA LevelsExist ==
  ASSUME NEW of, NEW N \in Nat
  PROVE  \E f : f = [n \in 0..N |-> Level(of, n, f[n - 1])]
<1> DEFINE T == {m \in 0..N : \E f : f = [n \in 0..m |-> Level(of, n, f[n - 1])]}
<1>1. 0 \in T
  <2> DEFINE f == [n \in 0..0 |-> Level(of, 0, 0)]
  <2>1. ASSUME NEW n \in 0..0
        PROVE  f[n] = Level(of, n, f[n - 1])
    <3>1. n = 0 /\ f[n] = Level(of, 0, 0)
      OBVIOUS
    <3> HIDE DEF f
    <3>2. Level(of, 0, f[n - 1]) = Level(of, 0, 0)
      BY BottomLevel, Zenon
    <3> QED
      BY <3>1, <3>2
  <2>2. f = [n \in 0..0 |-> f[n]]
    OBVIOUS
  <2> HIDE DEF f
  <2>3. f = [n \in 0..0 |-> Level(of, n, f[n - 1])]
    BY <2>1, <2>2, Zenon
  <2>4. 0 \in 0..N
    OBVIOUS
  <2> QED
    BY <2>3, <2>4, Zenon
<1>2. ASSUME NEW m \in 1..N, m - 1 \in T
      PROVE  m \in T
  <2>1. PICK f : f = [n \in 0..(m - 1) |-> Level(of, n, f[n - 1])]
    BY <1>2
  <2> DEFINE v == Level(of, m, f[m - 1])
             g == [n \in 0..m |-> IF n = m THEN v ELSE f[n]]
  <2>2. m \in 0..N /\ m - 1 \in 0..(m - 1) /\ m \in 0..m /\ m - 1 \in 0..m /\ m # 0 /\ m - 1 # m
    OBVIOUS
  <2>3. \A n \in 0..m : g[n] = IF n = m THEN v ELSE f[n]
    OBVIOUS
  <2>4. g = [n \in 0..m |-> g[n]]
    OBVIOUS
  <2> HIDE DEF g, v
  <2>5. ASSUME NEW n \in 0..m
        PROVE  g[n] = Level(of, n, g[n - 1])
    <3>1. CASE n = m
      <4>1. g[m] = v /\ g[m - 1] = f[m - 1]
        BY <2>2, <2>3
      <4> QED
        BY <3>1, <4>1 DEF v
    <3>2. CASE n # m /\ n # 0
      <4>1. n \in 0..(m - 1) /\ n - 1 \in 0..m /\ n - 1 # m
        BY <2>2, <3>2
      <4>2. g[n] = f[n] /\ g[n - 1] = f[n - 1]
        BY <2>3, <3>2, <4>1
      <4>3. f[n] = Level(of, n, f[n - 1])
        BY <2>1, <4>1, Zenon
      <4> QED
        BY <4>2, <4>3
    <3>3. CASE n = 0
      <4>1. 0 \in 0..(m - 1) /\ 0 # m
        BY <2>2
      <4>2. g[0] = f[0]
        BY <2>3, <3>3, <4>1
      <4>3. f[0] = Level(of, 0, f[0 - 1])
        BY <2>1, <4>1, Zenon
      <4>4. Level(of, 0, f[0 - 1]) = Level(of, 0, g[0 - 1])
        BY BottomLevel, Zenon
      <4>5. g[0] = Level(of, 0, g[0 - 1])
        BY <4>2, <4>3, <4>4
      <4> QED
        BY <3>3, <4>5
    <3> QED
      BY <3>1, <3>2, <3>3
  <2>6. g = [n \in 0..m |-> Level(of, n, g[n - 1])]
    BY <2>4, <2>5, Zenon
  <2> QED
    BY <2>2, <2>6, Zenon
<1>3. 0..N \subseteq T
  <2> HIDE DEF T
  <2> QED
    BY <1>1, <1>2, ClimbTo
<1>4. N \in T
  <2> HIDE DEF T
  <2>1. N \in 0..N
    OBVIOUS
  <2> QED
    BY <1>3, <2>1
<1> QED
  BY <1>4

(***************************************************************************)
(* The documents                                                           *)
(***************************************************************************)

Scalar == Items({"Number"}, Numbers, {<<>>})
            \cup Items({"Invalid"} \cup DOMAIN Word, {NoText}, {<<>>})
            \cup Items({"String", "Raw"}, CharPointer, {<<>>})

LEMMA NestedIs ==
  \A n \in 0..Levels : Nested[n] = Scalar \cup (IF n = 0 THEN {} ELSE Items(DOMAIN Open, {NoText}, Seq(Nested[n - 1])))
<1>1. Levels \in Nat
  BY LevelsAssumption
<1>2. \A n, below : Level("documents", n, below)
                      = Scalar \cup (IF n = 0 THEN {} ELSE Items(DOMAIN Open, {NoText}, Seq(below)))
  BY Zenon DEF Level, Scalar
<1>3. \E f : f = [n \in 0..Levels |-> Level("documents", n, f[n - 1])]
  BY <1>1, LevelsExist
<1>4. Nested = CHOOSE f : f = [n \in 0..Levels |-> Level("documents", n, f[n - 1])]
  BY Zenon DEF Nested, Level
<1>5. Nested = [n \in 0..Levels |-> Level("documents", n, Nested[n - 1])]
  BY <1>3, <1>4, Zenon
<1> QED
  BY <1>2, <1>5, Zenon

LEMMA NestedGrows ==
  \A n \in 1..Levels : Nested[n - 1] \subseteq Nested[n]
<1>1. Levels \in Nat
  BY LevelsAssumption
<1> DEFINE T == {n \in 0..Levels : n > 0 => Nested[n - 1] \subseteq Nested[n]}
<1>2. 0 \in T
  BY <1>1
<1>3. ASSUME NEW n \in 1..Levels, n - 1 \in T
      PROVE  n \in T
  <2>1. n \in 0..Levels /\ n # 0 /\ n - 1 \in 0..Levels
    BY <1>1
  <2>2. Nested[n] = Scalar \cup Items(DOMAIN Open, {NoText}, Seq(Nested[n - 1]))
    BY <2>1, NestedIs
  <2>3. CASE n - 1 = 0
    <3>1. Nested[n - 1] = Scalar
      BY <2>1, <2>3, NestedIs
    <3> QED
      BY <2>1, <2>2, <3>1
  <2>4. CASE n - 1 # 0
    <3>1. Nested[n - 1] = Scalar \cup Items(DOMAIN Open, {NoText}, Seq(Nested[n - 1 - 1]))
      BY <2>1, <2>4, NestedIs
    <3>2. Nested[n - 1 - 1] \subseteq Nested[n - 1]
      BY <1>3, <2>1, <2>4
    <3> DEFINE A == Nested[n - 1 - 1]
               B == Nested[n - 1]
    <3>3. Items(DOMAIN Open, {NoText}, Seq(A)) \subseteq Items(DOMAIN Open, {NoText}, Seq(B))
      <4> HIDE DEF A, B
      <4>1. A \subseteq B
        BY <3>2 DEF A, B
      <4>2. Seq(A) \subseteq Seq(B)
        BY <4>1
      <4> QED
        BY <4>2 DEF Items
    <3>4. Nested[n - 1] \subseteq Nested[n]
      BY <2>2, <3>1, <3>3, Zenon
    <3> QED
      BY <2>1, <3>4
  <2> QED
    BY <2>3, <2>4
<1>4. 0..Levels \subseteq T
  <2> HIDE DEF T
  <2> QED
    BY <1>1, <1>2, <1>3, ClimbTo
<1> QED
  BY <1>1, <1>4

LEMMA NestedMonotone ==
  ASSUME NEW m \in 0..Levels, NEW n \in 0..Levels, m <= n
  PROVE  Nested[m] \subseteq Nested[n]
<1>1. Levels \in Nat
  BY LevelsAssumption
<1> DEFINE T == {k \in 0..Levels : m <= k => Nested[m] \subseteq Nested[k]}
<1>2. 0 \in T
  <2>1. m <= 0 => m = 0
    BY <1>1
  <2> QED
    BY <1>1, <2>1
<1>3. ASSUME NEW k \in 1..Levels, k - 1 \in T
      PROVE  k \in T
  <2>1. k \in 0..Levels /\ (m <= k => m = k \/ m <= k - 1)
    BY <1>1
  <2>2. Nested[k - 1] \subseteq Nested[k]
    BY NestedGrows
  <2> QED
    BY <1>3, <2>1, <2>2
<1>4. 0..Levels \subseteq T
  <2> HIDE DEF T
  <2> QED
    BY <1>1, <1>2, <1>3, ClimbTo
<1> QED
  BY <1>4

\* The text of a number is one of characters.
LEMMA NumbersAre ==
  Numbers \subseteq Seq(Character)
<1>1. Word.NULL = <<110, 117, 108, 108>>
  BY DEF Word
<1>2. 110 \in Character /\ 117 \in Character /\ 108 \in Character
  BY DEF Character, Byte
<1>3. <<110, 117, 108, 108>> \in Seq(Character)
  BY <1>2
<1> QED
  BY <1>1, <1>3 DEF Numbers

\* What an item of a document is.
LEMMA ItemIs ==
  ASSUME NEW n \in 0..Levels, NEW doc \in Nested[n]
  PROVE  /\ doc.type \in {"Invalid", "Number", "String", "Raw"} \cup DOMAIN Word \cup DOMAIN Open
         /\ doc.string \in CharPointer /\ doc.val \in CharPointer
         /\ doc.type = "Number" => doc.val \in Numbers /\ doc.val \in Seq(Character)
         /\ doc.type \notin {"Number", "String", "Raw"} => doc.val = NoText
         /\ doc.type \in DOMAIN Open => n # 0 /\ doc.kids \in Seq(Nested[n - 1])
         /\ doc.type \notin DOMAIN Open => doc.kids = <<>>
<1>1. doc \in Scalar \/ (n # 0 /\ doc \in Items(DOMAIN Open, {NoText}, Seq(Nested[n - 1])))
  <2>1. Nested[n] = Scalar \cup (IF n = 0 THEN {} ELSE Items(DOMAIN Open, {NoText}, Seq(Nested[n - 1])))
    BY NestedIs, Zenon
  <2> QED
    BY <2>1, Zenon
<1>2. CASE doc \in Scalar
  <2>1. DOMAIN Open = {"Array", "Object"} /\ DOMAIN Word = {"NULL", "False", "True"}
    BY DEF Open, Word
  <2> QED
    BY <1>2, <2>1, NumbersAre DEF Scalar, Items, CharPointer
<1>3. CASE n # 0 /\ doc \in Items(DOMAIN Open, {NoText}, Seq(Nested[n - 1]))
  BY <1>3 DEF Items, Open, CharPointer
<1> QED
  BY <1>1, <1>2, <1>3

LEMMA MinIs ==
  ASSUME NEW S \in SUBSET Nat, S # {}
  PROVE  Min(S) \in S /\ \A n \in S : Min(S) <= n
<1>1. PICK n \in S : \A m \in S : n <= m
  BY LeastOf
<1> QED
  BY <1>1 DEF Min

LEMMA MaxIs ==
  ASSUME NEW N \in Nat, NEW S \in SUBSET (0..N), S # {}
  PROVE  Max(S) \in S /\ \A n \in S : Max(S) >= n
<1> DEFINE T == {N - n : n \in S}
<1>1. T \in SUBSET Nat /\ T # {}
  <2>1. ASSUME NEW n \in S
        PROVE  n \in 0..N /\ N - n \in Nat
    OBVIOUS
  <2> QED
    BY <2>1
<1>2. PICK m \in T : \A k \in T : m <= k
  <2> HIDE DEF T
  <2> QED
    BY <1>1, LeastOf
<1>3. PICK n \in S : m = N - n
  BY <1>2
<1>4. \A k \in S : n >= k
  BY <1>2, <1>3
<1> QED
  BY <1>4 DEF Max

LEMMA CharactersAreBytes ==
  Seq(Character) \subseteq Seq(Byte)
<1>1. Character \subseteq Byte
  BY DEF Character
<1> QED
  BY <1>1

\* A string has no byte 0.
LEMMA CStringIs ==
  ASSUME NEW bytes \in Seq(Byte)
  PROVE  CString(bytes) \in Seq(Character)
<1> DEFINE zeros == {n \in DOMAIN bytes : bytes[n] = 0}
           S == {Len(bytes) + 1} \cup zeros
<1>1. S \in SUBSET (1..(Len(bytes) + 1)) /\ S # {} /\ Len(bytes) \in Nat /\ zeros \subseteq S
  OBVIOUS
<1>2. CString(bytes) = SubSeq(bytes, 1, Min(S) - 1)
  BY DEF CString
<1>3. \A n \in 1..Len(bytes) : n \notin S => bytes[n] \in Character
  BY DEF Character
<1> HIDE DEF S
<1>4. Min(S) \in 1..(Len(bytes) + 1) /\ \A n \in S : Min(S) <= n
  <2>1. S \in SUBSET Nat
    BY <1>1
  <2>2. Min(S) \in S /\ \A n \in S : Min(S) <= n
    BY <1>1, <2>1, MinIs
  <2> QED
    BY <1>1, <2>2
<1> DEFINE last == Min(S) - 1
<1>5. last \in 0..Len(bytes) /\ \A n \in 1..last : n \notin S
  BY <1>1, <1>4
<1> HIDE DEF last
<1>6. \A n \in 1..last : bytes[n] \in Character
  BY <1>1, <1>3, <1>5
<1>7. SubSeq(bytes, 1, last) \in Seq(Character)
  <2>1. SubSeq(bytes, 1, last) = [n \in 1..last |-> bytes[n]]
    BY <1>1, <1>5
  <2> QED
    BY <1>5, <1>6, <2>1
<1> QED
  BY <1>2, <1>7 DEF last

(***************************************************************************)
(* The blocks of a document                                                *)
(***************************************************************************)

Sums(f, kids, blocks) == f[0] = 0 /\ \A n \in 1..Len(kids) : f[n] = f[n - 1] + blocks[kids[n]]

LEMMA SumIs ==
  ASSUME NEW docs, NEW blocks, \A d \in docs : blocks[d] \in Nat, NEW kids \in Seq(docs)
  PROVE  \E f \in [0..Len(kids) -> Nat] : Sums(f, kids, blocks) /\ SumOf(kids, blocks) = f[Len(kids)]
<1> DEFINE N == Len(kids)
           upto[n \in 0..N] == IF n = 0 THEN 0 ELSE upto[n - 1] + blocks[kids[n]]
           step == [x \in (1..N) \X Nat |-> x[2] + blocks[kids[x[1]]]]
<1>1. N \in Nat /\ \A n \in 1..N : kids[n] \in docs
  OBVIOUS
<1>2. SumOf(kids, blocks) = upto[N]
  BY Zenon DEF SumOf
<1> HIDE DEF N
<1>3. step \in [(1..N) \X Nat -> Nat]
  <2> SUFFICES ASSUME NEW x \in (1..N) \X Nat
               PROVE  x[2] + blocks[kids[x[1]]] \in Nat
    BY Zenon
  <2>1. x[2] \in Nat /\ x[1] \in 1..N
    OBVIOUS
  <2>2. blocks[kids[x[1]]] \in Nat
    BY <1>1, <2>1
  <2> QED
    BY <2>1, <2>2
<1>4. PICK f \in [0..N -> Nat] : Recurs(f, N, 0, step)
  <2> HIDE DEF step
  <2> QED
    BY <1>1, <1>3, Recursion
<1>5. ASSUME NEW n \in 1..N
      PROVE  f[n] = f[n - 1] + blocks[kids[n]]
  <2>1. n - 1 \in 0..N /\ f[n - 1] \in Nat
    BY <1>1, <1>4
  <2>2. f[n] = step[<<n, f[n - 1]>>]
    BY <1>4 DEF Recurs
  <2> QED
    BY <2>1, <2>2
<1>6. ASSUME NEW n \in 0..N
      PROVE  f[n] = IF n = 0 THEN 0 ELSE f[n - 1] + blocks[kids[n]]
  <2>1. CASE n = 0
    BY <1>4, <2>1 DEF Recurs
  <2>2. CASE n # 0
    <3>1. n \in 1..N
      BY <1>1, <2>2
    <3> QED
      BY <1>5, <2>2, <3>1
  <2> QED
    BY <2>1, <2>2
<1>7. f = [n \in 0..N |-> IF n = 0 THEN 0 ELSE f[n - 1] + blocks[kids[n]]]
  <2>1. f = [n \in 0..N |-> f[n]]
    BY <1>4
  <2> QED
    BY <1>6, <2>1, Zenon
<1>8. upto = [n \in 0..N |-> IF n = 0 THEN 0 ELSE upto[n - 1] + blocks[kids[n]]]
  BY <1>7, Zenon
<1> HIDE DEF upto
<1> DEFINE Right == {n \in 0..N : upto[n] = f[n]}
<1>9. 0 \in Right
  BY <1>1, <1>6, <1>8
<1>10. ASSUME NEW n \in 1..N, n - 1 \in Right
       PROVE  n \in Right
  <2>1. n \in 0..N /\ n # 0
    BY <1>1
  <2>2. upto[n] = upto[n - 1] + blocks[kids[n]]
    BY <1>8, <2>1
  <2> QED
    BY <1>5, <1>10, <2>1, <2>2
<1>11. 0..N \subseteq Right
  <2> HIDE DEF Right
  <2> QED
    BY <1>1, <1>9, <1>10, ClimbTo
<1>12. upto[N] = f[N]
  <2>1. N \in 0..N
    BY <1>1
  <2> QED
    BY <1>11, <2>1
<1>13. Sums(f, kids, blocks)
  BY <1>4, <1>5 DEF Sums, Recurs, N
<1> QED
  BY <1>2, <1>4, <1>12, <1>13 DEF N

\* Two sums are the same as far as their summands are.
LEMMA SumsAgree ==
  ASSUME NEW N \in Nat, NEW f, NEW g, NEW k1, NEW k2, NEW b1, NEW b2,
         Sums(f, k1, b1), Sums(g, k2, b2), 1..N \subseteq 1..Len(k1), 1..N \subseteq 1..Len(k2),
         \A n \in 1..N : b1[k1[n]] = b2[k2[n]]
  PROVE  f[N] = g[N]
<1> DEFINE T == {n \in 0..N : f[n] = g[n]}
<1>1. 0 \in T
  BY DEF Sums
<1>2. ASSUME NEW n \in 1..N, n - 1 \in T
      PROVE  n \in T
  <2>1. n \in 1..Len(k1) /\ n \in 1..Len(k2) /\ f[n - 1] = g[n - 1] /\ n \in 0..N
    BY <1>2
  <2>2. f[n] = f[n - 1] + b1[k1[n]] /\ g[n] = g[n - 1] + b2[k2[n]]
    BY <2>1 DEF Sums
  <2> QED
    BY <2>1, <2>2
<1>3. 0..N \subseteq T
  <2> HIDE DEF T
  <2> QED
    BY <1>1, <1>2, ClimbTo
<1> QED
  BY <1>3

LEMMA SumAppend ==
  ASSUME NEW docs, NEW blocks, \A d \in docs : blocks[d] \in Nat, NEW kids \in Seq(docs),
         NEW kid \in docs
  PROVE  /\ SumOf(kids, blocks) \in Nat
         /\ SumOf(Append(kids, kid), blocks) = SumOf(kids, blocks) + blocks[kid]
<1> DEFINE N == Len(kids)
           longer == Append(kids, kid)
<1>1. /\ N \in Nat /\ longer \in Seq(docs) /\ Len(longer) = N + 1 /\ longer[N + 1] = kid
      /\ \A n \in 1..N : longer[n] = kids[n]
  OBVIOUS
<1> HIDE DEF longer
<1>2. PICK f \in [0..N -> Nat] : Sums(f, kids, blocks) /\ SumOf(kids, blocks) = f[N]
  BY SumIs
<1>3. PICK g \in [0..(N + 1) -> Nat] : Sums(g, longer, blocks) /\ SumOf(longer, blocks) = g[N + 1]
  BY <1>1, SumIs
<1>4. f[N] = g[N]
  <2>1. 1..N \subseteq 1..Len(kids) /\ 1..N \subseteq 1..Len(longer)
    BY <1>1
  <2>2. \A n \in 1..N : blocks[kids[n]] = blocks[longer[n]]
    BY <1>1
  <2> HIDE DEF N
  <2> QED
    BY <1>1, <1>2, <1>3, <2>1, <2>2, SumsAgree
<1>5. g[N + 1] = g[N] + blocks[longer[N + 1]]
  <2>1. N + 1 \in 1..Len(longer) /\ N + 1 - 1 = N
    BY <1>1
  <2> QED
    BY <1>3, <2>1 DEF Sums
<1> QED
  BY <1>1, <1>2, <1>3, <1>4, <1>5 DEF longer

LEMMA SumSame ==
  ASSUME NEW docs, NEW b1, NEW b2, \A d \in docs : b1[d] \in Nat /\ b2[d] = b1[d],
         NEW kids \in Seq(docs)
  PROVE  SumOf(kids, b1) = SumOf(kids, b2) /\ SumOf(kids, b1) \in Nat
<1> DEFINE N == Len(kids)
<1>1. N \in Nat /\ \A n \in 1..N : kids[n] \in docs
  OBVIOUS
<1>2. PICK f \in [0..N -> Nat] : Sums(f, kids, b1) /\ SumOf(kids, b1) = f[N]
  BY SumIs
<1>3. PICK g \in [0..N -> Nat] : Sums(g, kids, b2) /\ SumOf(kids, b2) = g[N]
  BY SumIs
<1>4. f[N] = g[N]
  <2>1. 1..N \subseteq 1..Len(kids)
    OBVIOUS
  <2>2. \A n \in 1..N : b1[kids[n]] = b2[kids[n]]
    BY <1>1
  <2> HIDE DEF N
  <2> QED
    BY <1>1, <1>2, <1>3, <2>1, <2>2, SumsAgree
<1> QED
  BY <1>1, <1>2, <1>3, <1>4

LEMMA NoSum ==
  ASSUME NEW blocks
  PROVE  SumOf(<<>>, blocks) = 0
<1> DEFINE none == <<>>
<1>1. none \in Seq({}) /\ Len(none) = 0
  OBVIOUS
<1> HIDE DEF none
<1>2. PICK f \in [0..Len(none) -> Nat] : Sums(f, none, blocks) /\ SumOf(none, blocks) = f[Len(none)]
  BY <1>1, SumIs
<1> QED
  BY <1>1, <1>2 DEF Sums, none

LEMMA OwnIs ==
  \A d : OwnBlocks(d) \in Nat /\ OwnBlocks(d) >= 1
BY DEF OwnBlocks

\* What is counted level by level is what is counted for the whole document.
LEMMA BlocksIs ==
  ASSUME NEW d \in Documents
  PROVE  BlocksOf[d] \in Nat /\ BlocksOf[d] = OwnBlocks(d) + SumOf(d.kids, BlocksOf)
<1> DEFINE Count(n, below) == [e \in Nested[n] |-> OwnBlocks(e) + (IF n = 0 THEN 0
                                                                ELSE SumOf(e.kids, below))]
           levels[n \in 0..Levels] ==
             [e \in Nested[n] |-> OwnBlocks(e) + (IF n = 0 THEN 0
                                                  ELSE SumOf(e.kids, levels[n - 1]))]
<1>1. BlocksOf = levels[Levels]
  BY Zenon DEF BlocksOf
<1>2. Levels \in Nat
  BY LevelsAssumption
<1>3. levels = [n \in 0..Levels |-> Count(n, levels[n - 1])]
  <2>1. \A n, below : Level("blocks", n, below) = Count(n, below)
    BY DEF Level
  <2>2. levels = CHOOSE f : f = [n \in 0..Levels |-> Count(n, f[n - 1])]
    BY Zenon
  <2> HIDE DEF Count, levels
  <2>3. PICK f : f = [n \in 0..Levels |-> Level("blocks", n, f[n - 1])]
    BY <1>2, LevelsExist
  <2>4. f = [n \in 0..Levels |-> Count(n, f[n - 1])]
    BY <2>1, <2>3
  <2> QED
    BY <2>2, <2>4, Zenon
<1> HIDE DEF levels
<1>4. ASSUME NEW n \in 0..Levels, NEW e \in Nested[n]
      PROVE  levels[n][e] = OwnBlocks(e) + (IF n = 0 THEN 0 ELSE SumOf(e.kids, levels[n - 1]))
  BY <1>3
<1> HIDE DEF Count
<1>5. ASSUME NEW n \in 1..Levels, NEW e \in Nested[n]
      PROVE  e.kids \in Seq(Nested[n - 1])
  <2>1. n \in 0..Levels /\ n # 0
    BY <1>2
  <2>2. \/ e.type \in DOMAIN Open /\ e.kids \in Seq(Nested[n - 1])
        \/ e.kids = <<>>
    BY <2>1, ItemIs
  <2>3. <<>> \in Seq(Nested[n - 1])
    OBVIOUS
  <2> QED
    BY <2>2, <2>3
<1> DEFINE Right == {n \in 0..Levels :
                       /\ \A e \in Nested[n] : levels[n][e] \in Nat
                       /\ n # 0 => \A e \in Nested[n - 1] : levels[n][e] = levels[n - 1][e]}
<1>6. 0 \in Right
  <2>1. 0 \in 0..Levels
    BY <1>2
  <2>2. \A e \in Nested[0] : levels[0][e] \in Nat
    <3> SUFFICES ASSUME NEW e \in Nested[0] PROVE levels[0][e] \in Nat
      OBVIOUS
    <3>1. levels[0][e] = OwnBlocks(e) + 0
      BY <1>4, <2>1
    <3> QED
      BY <3>1, OwnIs
  <2> QED
    BY <2>1, <2>2
<1>7. ASSUME NEW n \in 1..Levels, n - 1 \in Right
      PROVE  n \in Right
  <2>1. n \in 0..Levels /\ n - 1 \in 0..Levels /\ n # 0
    BY <1>2
  <2>2. \A e \in Nested[n - 1] : levels[n - 1][e] \in Nat
    BY <1>7
  <2>3. \A e \in Nested[n] : levels[n][e] \in Nat
    <3> SUFFICES ASSUME NEW e \in Nested[n] PROVE levels[n][e] \in Nat
      OBVIOUS
    <3>1. levels[n][e] = OwnBlocks(e) + SumOf(e.kids, levels[n - 1])
      BY <1>4, <2>1
    <3>2. SumOf(e.kids, levels[n - 1]) \in Nat
      BY <1>5, <2>2, SumSame
    <3> QED
      BY <3>1, <3>2, OwnIs
  <2>4. ASSUME NEW e \in Nested[n - 1]
        PROVE  levels[n][e] = levels[n - 1][e]
    <3>1. e \in Nested[n]
      BY NestedGrows
    <3>2. levels[n][e] = OwnBlocks(e) + SumOf(e.kids, levels[n - 1])
      BY <1>4, <2>1, <3>1
    <3>3. CASE n - 1 = 0
      <4>1. e.kids = <<>>
        BY <2>1, <3>3, ItemIs
      <4>2. levels[n - 1][e] = OwnBlocks(e) + 0
        BY <1>4, <2>1, <3>3
      <4>3. SumOf(e.kids, levels[n - 1]) = 0
        BY <4>1, NoSum
      <4> QED
        BY <3>2, <4>2, <4>3
    <3>4. CASE n - 1 # 0
      <4>1. n - 1 \in 1..Levels /\ n - 1 - 1 \in 0..Levels
        BY <1>2, <2>1, <3>4
      <4>2. levels[n - 1][e] = OwnBlocks(e) + SumOf(e.kids, levels[n - 1 - 1])
        BY <1>4, <2>1, <3>4
      <4>3. e.kids \in Seq(Nested[n - 1 - 1])
        BY <1>5, <4>1
      <4>4. Nested[n - 1 - 1] \subseteq Nested[n - 1]
        BY <4>1, NestedGrows
      <4>5. \A x \in Nested[n - 1 - 1] : levels[n - 1][x] \in Nat /\ levels[n - 1 - 1][x] = levels[n - 1][x]
        BY <1>7, <2>2, <3>4, <4>4
      <4> DEFINE docs == Nested[n - 1 - 1]
                 b1 == levels[n - 1]
                 b2 == levels[n - 1 - 1]
      <4>6. SumOf(e.kids, b1) = SumOf(e.kids, b2)
        <5>1. (\A x \in docs : b1[x] \in Nat /\ b2[x] = b1[x]) /\ e.kids \in Seq(docs)
          BY <4>3, <4>5
        <5> HIDE DEF docs, b1, b2
        <5> QED
          BY <5>1, SumSame
      <4> QED
        BY <3>2, <4>2, <4>6
    <3> QED
      BY <3>3, <3>4
  <2> QED
    BY <2>1, <2>3, <2>4
<1>8. 0..Levels \subseteq Right
  <2> HIDE DEF Right
  <2> QED
    BY <1>2, <1>6, <1>7, ClimbTo
<1>9. Levels \in Right /\ Levels \in 0..Levels /\ d \in Nested[Levels]
  BY <1>2, <1>8 DEF Documents
<1>10. BlocksOf[d] \in Nat
  BY <1>1, <1>9
<1>11. CASE Levels = 0
  <2>1. d.kids = <<>>
    BY <1>9, <1>11, ItemIs
  <2>2. SumOf(d.kids, BlocksOf) = 0
    BY <2>1, NoSum
  <2>3. levels[Levels][d] = OwnBlocks(d) + 0
    BY <1>4, <1>9, <1>11
  <2> QED
    BY <1>1, <1>10, <2>2, <2>3
<1>12. CASE Levels # 0
  <2>1. Levels \in 1..Levels /\ Levels - 1 \in 0..Levels
    BY <1>2, <1>12
  <2>2. levels[Levels][d] = OwnBlocks(d) + SumOf(d.kids, levels[Levels - 1])
    BY <1>4, <1>9, <1>12
  <2>3. d.kids \in Seq(Nested[Levels - 1])
    BY <1>5, <1>9, <2>1
  <2>4. Nested[Levels - 1] \subseteq Nested[Levels]
    BY <2>1, NestedGrows
  <2>5. \A x \in Nested[Levels - 1] : levels[Levels][x] \in Nat /\ levels[Levels - 1][x] = levels[Levels][x]
    BY <1>9, <1>12, <2>4
  <2> DEFINE docs == Nested[Levels - 1]
             b1 == levels[Levels]
             b2 == levels[Levels - 1]
  <2>6. SumOf(d.kids, b1) = SumOf(d.kids, b2)
    <3>1. (\A x \in docs : b1[x] \in Nat /\ b2[x] = b1[x]) /\ d.kids \in Seq(docs)
      BY <2>3, <2>5
    <3> HIDE DEF docs, b1, b2
    <3> QED
      BY <3>1, SumSame
  <2> QED
    BY <1>1, <1>10, <2>2, <2>6
<1> QED
  BY <1>11, <1>12

LEMMA ScalarIs ==
  ASSUME NEW d \in Scalar
  PROVE  /\ d.kids = <<>> /\ d \in Documents /\ \A n \in 0..Levels : d \in Nested[n]
         /\ BlocksOf[d] = OwnBlocks(d)
<1>1. Levels \in 0..Levels
  BY LevelsAssumption
<1>2. \A n \in 0..Levels : d \in Nested[n]
  BY NestedIs
<1>3. d \in Documents
  BY <1>1, <1>2 DEF Documents
<1>4. d.kids = <<>>
  BY DEF Scalar, Items
<1>5. BlocksOf[d] = OwnBlocks(d) + 0 /\ OwnBlocks(d) \in Nat
  BY <1>3, <1>4, BlocksIs, NoSum, OwnIs
<1> QED
  BY <1>2, <1>3, <1>4, <1>5
(***************************************************************************)
(* The print buffer                                                        *)
(***************************************************************************)

\* A print buffer that nothing was written outside of; there is one block for it,
\* or none when it belongs to the caller or could not grow.
Fine(p) == /\ p \in Buffer /\ ~p.overrun /\ p.depth \in Nat
           /\ p.ok \/ p.noalloc => p.alive
           /\ p.held = IF p.noalloc \/ ~p.alive THEN 0 ELSE 1

\* What each printer makes of p; a failure stays one, and a buffer of the caller's
\* does not grow.
Follows(p, q) == /\ Fine(q) /\ q.depth = p.depth
                 /\ q.noalloc = p.noalloc /\ q.format = p.format
                 /\ q.ok => p.ok
                 /\ ~p.ok => q.luck = p.luck
                 /\ p.noalloc => Len(q.bytes) = Len(p.bytes)

\* The text in q ends inside the block.
Ended(q) == q.ok => \E n \in 1..Len(q.bytes) : n > q.offset /\ q.bytes[n] = 0

\* What is before the offset of p stays what it is.
Kept(p, q) == \A n \in 1..Len(p.bytes) : n <= p.offset => q.bytes[n] = p.bytes[n]

LEMMA EnsureFits ==
  ASSUME NEW p, Fine(p), p.ok, NEW needed \in Nat
  PROVE  /\ Follows(p, ensure(p, needed))
         /\ ensure(p, needed).ok => /\ ensure(p, needed).offset = p.offset
                                    /\ needed + p.offset + 1 <= Len(ensure(p, needed).bytes)
                                    /\ Kept(p, ensure(p, needed))
<1> DEFINE need == needed + p.offset + 1
           newsize == IF need > INT_MAX \div 2 THEN INT_MAX ELSE 2 * need
           kept == IF p.reallocate THEN Len(p.bytes) ELSE p.offset + 1
           Old(n) == IF n <= kept /\ n <= Len(p.bytes) THEN p.bytes[n] ELSE Garbage
           bytes == [n \in 1..newsize |-> Old(n)]
           q == ensure(p, needed)
           lost == [p EXCEPT !.held = @ - 1, !.alive = FALSE, !.bytes = <<>>]
           grown == [p EXCEPT !.luck = @ - 1, !.bytes = bytes]
<1>1. /\ p \in Buffer /\ p.offset \in Nat /\ p.luck \in Nat /\ p.held \in Int /\ need \in Nat
      /\ p.alive /\ p.depth \in Nat /\ p.bytes \in Seq(Byte) /\ Len(p.bytes) \in Nat
  BY DEF Fine, Buffer
<1>2. \/ q = Fail(p)
      \/ q = p /\ need <= Len(p.bytes)
      \/ q = Fail(lost) /\ ~p.noalloc
      \/ q = grown /\ need <= INT_MAX /\ p.luck # 0 /\ ~p.noalloc
  <2>1. q = IF ~p.alive \/ (p.bytes # <<>> /\ p.offset >= Len(p.bytes)) \/ needed > INT_MAX
            THEN Fail(p)
            ELSE IF need <= Len(p.bytes) THEN p
            ELSE IF p.noalloc \/ need > INT_MAX THEN Fail(p)
            ELSE IF p.luck = 0 THEN Fail(lost) ELSE grown
    BY Zenon DEF ensure
  <2>2. need <= INT_MAX \/ need > INT_MAX
    BY <1>1, PrinterAssumption
  <2> HIDE DEF q, lost, grown, need
  <2> QED
    BY <2>1, <2>2, Zenon
<1>3. CASE q = Fail(p)
  <2>1. Fail(p) \in Buffer
    BY <1>1 DEF Buffer, Fail
  <2> QED
    BY <1>3, <2>1, <1>1 DEF Fine, Follows, Fail
<1>4. CASE q = p /\ need <= Len(p.bytes)
  BY <1>4, <1>1 DEF Fine, Follows, Kept
<1>5. CASE q = Fail(lost) /\ ~p.noalloc
  <2>1. <<>> \in Seq(Byte) /\ p.held - 1 \in Int
    BY <1>1
  <2>2. lost \in Buffer
    BY <1>1, <2>1 DEF Buffer
  <2>3. Fail(lost) \in Buffer
    <3> HIDE DEF lost
    <3> QED
      BY <2>2 DEF Buffer, Fail
  <2> QED
    BY <1>5, <2>3, <1>1 DEF Fine, Follows, Fail
<1>6. CASE q = grown /\ need <= INT_MAX /\ p.luck # 0 /\ ~p.noalloc
  <2>1. newsize \in Nat /\ need <= newsize
    <3>1. need \in Nat /\ need <= INT_MAX /\ INT_MAX \in Nat
      BY <1>1, <1>6, PrinterAssumption
    <3> HIDE DEF need
    <3> QED
      BY <3>1
  <2>2. bytes \in Seq(Byte) /\ Len(bytes) = newsize
    <3>1. \A n \in 1..newsize : Old(n) \in Byte
      <4>1. Garbage \in Byte
        BY DEF Garbage, Byte
      <4>2. \A n \in 1..newsize : n <= Len(p.bytes) => n \in 1..Len(p.bytes)
        BY <1>1, <2>1
      <4>3. \A n \in 1..Len(p.bytes) : p.bytes[n] \in Byte
        BY <1>1
      <4> QED
        BY <4>1, <4>2, <4>3
    <3> HIDE DEF newsize, Old
    <3> QED
      BY <2>1, <3>1
  <2>4. \A n \in 1..Len(p.bytes) : n <= p.offset => bytes[n] = p.bytes[n]
    <3>1. \A n \in 1..Len(p.bytes) : n <= p.offset => Old(n) = p.bytes[n]
      BY <1>1
    <3>2. \A n \in 1..Len(p.bytes) : n <= p.offset => n \in 1..newsize
      <4> HIDE DEF newsize
      <4> QED
        BY <1>1, <2>1
    <3> HIDE DEF Old, newsize
    <3> QED
      BY <3>1, <3>2
  <2> HIDE DEF bytes, newsize
  <2>3. grown \in Buffer
    <3>1. p.luck - 1 \in Nat
      BY <1>1, <1>6
    <3> QED
      BY <1>1, <2>2, <3>1 DEF Buffer
  <2> QED
    BY <1>6, <2>1, <2>2, <2>3, <2>4, <1>1 DEF Fine, Follows, Kept
<1> QED
  BY <1>2, <1>3, <1>4, <1>5, <1>6

LEMMA WriteFits ==
  ASSUME NEW p, Fine(p), NEW at \in Nat, NEW bytes \in Seq(Byte), at + Len(bytes) <= Len(p.bytes)
  PROVE  /\ Follows(p, Write(p, at, bytes))
         /\ Write(p, at, bytes).ok = p.ok /\ Write(p, at, bytes).offset = p.offset
         /\ Len(Write(p, at, bytes).bytes) = Len(p.bytes)
         /\ \A n \in 1..Len(bytes) : Write(p, at, bytes).bytes[at + n] = bytes[n]
         /\ \A n \in 1..Len(p.bytes) : n <= at => Write(p, at, bytes).bytes[n] = p.bytes[n]
<1> DEFINE q == Write(p, at, bytes)
           Following(n) == IF n \in (at + 1)..(at + Len(bytes)) THEN bytes[n - at] ELSE p.bytes[n]
           new == [n \in DOMAIN p.bytes |-> Following(n)]
<1>1. /\ p \in Buffer /\ p.bytes \in Seq(Byte) /\ Len(p.bytes) \in Nat /\ Len(bytes) \in Nat
      /\ DOMAIN p.bytes = 1..Len(p.bytes) /\ DOMAIN bytes = 1..Len(bytes)
  BY DEF Fine, Buffer
<1>2. new \in Seq(Byte) /\ Len(new) = Len(p.bytes)
  <2>1. \A n \in 1..Len(p.bytes) : Following(n) \in Byte
    <3> SUFFICES ASSUME NEW n \in 1..Len(p.bytes) PROVE Following(n) \in Byte
      OBVIOUS
    <3>1. CASE n \in (at + 1)..(at + Len(bytes))
      <4>1. n - at \in 1..Len(bytes)
        BY <1>1, <3>1
      <4> QED
        BY <4>1, <3>1
    <3> QED
      BY <3>1, <1>1
  <2> HIDE DEF Following
  <2> QED
    BY <1>1, <2>1
<1>3. /\ \A n \in 1..Len(bytes) : new[at + n] = bytes[n]
      /\ \A n \in 1..Len(p.bytes) : n <= at => new[n] = p.bytes[n]
  BY <1>1
<1>4. q = [p EXCEPT !.overrun = p.overrun \/ at + Len(bytes) > Len(p.bytes), !.bytes = new]
  BY DEF Write
<1> HIDE DEF new
<1>5. q = [p EXCEPT !.overrun = FALSE, !.bytes = new]
  <2>1. (p.overrun \/ at + Len(bytes) > Len(p.bytes)) = FALSE
    <3>1. ~p.overrun /\ ~(at + Len(bytes) > Len(p.bytes))
      BY <1>1 DEF Fine
    <3> QED
      BY <3>1
  <2> QED
    BY <1>4, <2>1
<1> HIDE DEF q
<1>6. /\ q \in Buffer /\ q.bytes = new /\ q.offset = p.offset /\ q.ok = p.ok
      /\ q.luck = p.luck /\ Len(q.bytes) = Len(p.bytes)
  BY <1>1, <1>2, <1>5 DEF Buffer
<1>7. Follows(p, q)
  BY <1>1, <1>5, <1>6 DEF Fine, Follows, Buffer
<1> QED
  BY <1>2, <1>3, <1>6, <1>7 DEF q

\* What the step that all printing is made of does.
Emits(p, q, needed, bytes, step) ==
  /\ Follows(p, q)
  /\ q.ok => /\ q.offset = p.offset + step /\ needed + p.offset + 1 <= Len(q.bytes)
             /\ \A n \in 1..Len(bytes) : q.bytes[p.offset + n] = bytes[n]
             /\ Kept(p, q)

LEMMA EmitFits ==
  ASSUME NEW p, Fine(p), NEW needed \in Nat, NEW bytes \in Seq(Byte), Len(bytes) <= needed + 1,
         NEW step \in Nat
  PROVE  Emits(p, Emit(p, needed, bytes, step), needed, bytes, step)
<1> DEFINE room == ensure(p, needed)
           w == Write(room, room.offset, bytes)
           q == [w EXCEPT !.offset = @ + step]
<1>1. CASE ~p.ok
  <2>1. Emit(p, needed, bytes, step) = p
    BY <1>1 DEF Emit
  <2> QED
    BY <1>1, <2>1 DEF Emits, Follows
<1>2. CASE p.ok
  <2>1. /\ Follows(p, room)
        /\ room.ok => /\ room.offset = p.offset /\ needed + p.offset + 1 <= Len(room.bytes)
                      /\ Kept(p, room)
    BY <1>2, EnsureFits
  <2>2. CASE ~room.ok
    <3>1. Emit(p, needed, bytes, step) = room
      BY <1>2, <2>2 DEF Emit
    <3> QED
      BY <2>1, <2>2, <3>1 DEF Emits
  <2>3. CASE room.ok
    <3>1. Emit(p, needed, bytes, step) = q
      BY <1>2, <2>3 DEF Emit
    <3>2. /\ p.offset \in Nat /\ Fine(room) /\ Len(bytes) \in Nat /\ Len(room.bytes) \in Nat
          /\ room.offset + Len(bytes) <= Len(room.bytes) /\ room.offset \in Nat
      BY <2>1, <2>3 DEF Fine, Follows, Buffer
    <3> HIDE DEF room
    <3>3. /\ Follows(room, w) /\ w.ok = room.ok /\ w.offset = room.offset
          /\ Len(w.bytes) = Len(room.bytes)
          /\ \A n \in 1..Len(bytes) : w.bytes[room.offset + n] = bytes[n]
          /\ \A n \in 1..Len(room.bytes) : n <= room.offset => w.bytes[n] = room.bytes[n]
      <4> DEFINE at == room.offset
      <4>1. /\ Fine(room) /\ at \in Nat /\ bytes \in Seq(Byte) /\ at + Len(bytes) <= Len(room.bytes)
            /\ w = Write(room, at, bytes)
        BY <3>2
      <4>2. /\ Follows(room, w) /\ w.ok = room.ok /\ w.offset = room.offset
            /\ Len(w.bytes) = Len(room.bytes)
            /\ \A n \in 1..Len(bytes) : w.bytes[at + n] = bytes[n]
            /\ \A n \in 1..Len(room.bytes) : n <= at => w.bytes[n] = room.bytes[n]
        <5> DEFINE u == Write(room, at, bytes)
        <5> HIDE DEF at, w
        <5>1. /\ Follows(room, u) /\ u.ok = room.ok /\ u.offset = room.offset
              /\ Len(u.bytes) = Len(room.bytes)
              /\ \A n \in 1..Len(bytes) : u.bytes[at + n] = bytes[n]
              /\ \A n \in 1..Len(room.bytes) : n <= at => u.bytes[n] = room.bytes[n]
          BY <4>1, WriteFits, Zenon
        <5> QED
          BY <4>1, <5>1
      <4> QED
        BY <4>2
    <3> HIDE DEF w
    <3>4. w \in Buffer /\ w.offset + step \in Nat
      BY <3>2, <3>3 DEF Follows, Fine
    <3>5. q \in Buffer
      BY <3>4 DEF Buffer
    <3>6. Follows(w, q) /\ q.ok = w.ok /\ q.bytes = w.bytes /\ q.offset = w.offset + step
      BY <3>3, <3>4, <3>5 DEF Follows, Fine, Buffer
    <3>7. Kept(p, w)
      BY <2>1, <2>3, <3>2, <3>3 DEF Kept
    <3> HIDE DEF q
    <3> QED
      BY <1>2, <2>1, <2>3, <3>1, <3>2, <3>3, <3>6, <3>7 DEF Emits, Follows, Kept
  <2> QED
    BY <2>2, <2>3
<1> QED
  BY <1>1, <1>2

LEMMA OffsetMoves ==
  ASSUME NEW p, Fine(p), Ended(p)
  PROVE  Follows(p, update_offset(p))
<1> DEFINE zeros == {n \in DOMAIN p.bytes : n > p.offset /\ p.bytes[n] = 0}
<1>1. CASE ~p.ok
  BY <1>1 DEF update_offset, Follows
<1>2. CASE p.ok
  <2>1. p \in Buffer /\ p.offset \in Nat /\ DOMAIN p.bytes = 1..Len(p.bytes) /\ Len(p.bytes) \in Nat
    BY DEF Fine, Buffer
  <2>2. zeros # {} /\ zeros \in SUBSET Nat /\ \A n \in zeros : n > p.offset
    BY <1>2, <2>1 DEF Ended
  <2>3. Min(zeros) \in zeros
    <3> HIDE DEF zeros
    <3>1. PICK n \in zeros : \A k \in zeros : n <= k
      BY <2>2, LeastOf
    <3> QED
      BY <3>1 DEF Min
  <2>4. update_offset(p) = [p EXCEPT !.overrun = @ \/ zeros = {},
                                     !.offset = IF zeros = {} THEN @ ELSE Min(zeros) - 1]
    BY <1>2 DEF update_offset
  <2> HIDE DEF zeros
  <2>5. update_offset(p) = [p EXCEPT !.overrun = FALSE, !.offset = Min(zeros) - 1]
    BY <2>2, <2>4 DEF Fine
  <2>6. Min(zeros) - 1 \in Nat
    <3>1. PICK m \in zeros : m = Min(zeros)
      BY <2>3
    <3>2. m \in Nat /\ m > p.offset
      BY <2>2
    <3> QED
      BY <2>1, <3>1, <3>2
  <2>7. update_offset(p) \in Buffer
    BY <2>1, <2>5, <2>6 DEF Buffer
  <2> QED
    BY <2>1, <2>5, <2>7 DEF Follows, Fine, Buffer
<1> QED
  BY <1>1, <1>2
(***************************************************************************)
(* The printers                                                            *)
(***************************************************************************)

\* Printing from p to q keeps the buffer, and the text it leaves ends inside it.
Prints(p, q) == Follows(p, q) /\ Ended(q)

LEMMA EscapedIs ==
  ASSUME NEW c \in Byte
  PROVE  Escaped(c) \in Seq(Byte) /\ Len(Escaped(c)) = 1 + Extra(c) /\ Extra(c) \in Nat
<1> DEFINE short == c \in {Quote, Backslash, 8, 12, NewLine, 13, Tab}
<1>1. DOMAIN ShortEscape = {Quote, Backslash, 8, 12, NewLine, 13, Tab}
  BY DEF ShortEscape
<1>2. CASE short
  <2>1. ShortEscape[c] \in Byte
    BY <1>2 DEF ShortEscape, Quote, Backslash, NewLine, Tab, Byte
  <2>2. Escaped(c) = <<Backslash, ShortEscape[c]>> /\ Extra(c) = 1
    BY <1>1, <1>2, Zenon DEF Escaped, Extra
  <2> QED
    BY <2>1, <2>2 DEF Backslash, Byte
<1>3. CASE ~short /\ c < 32
  <2>1. Escaped(c) = <<Backslash, 117, 48, 48, HexByte(c \div 16), HexByte(c % 16)>> /\ Extra(c) = 5
    <3>1. c \notin DOMAIN ShortEscape
      BY <1>1, <1>3
    <3> QED
      BY <1>3, <3>1 DEF Escaped, Extra
  <2>2. HexByte(c \div 16) \in Byte /\ HexByte(c % 16) \in Byte
    BY <1>3 DEF HexByte, Byte
  <2> QED
    BY <2>1, <2>2 DEF Backslash, Byte
<1>4. CASE ~short /\ ~(c < 32)
  <2>1. Escaped(c) = <<c>> /\ Extra(c) = 0
    <3>1. c \notin DOMAIN ShortEscape
      BY <1>1, <1>4
    <3> QED
      BY <1>4, <3>1 DEF Escaped, Extra
  <2> QED
    BY <2>1
<1> QED
  BY <1>2, <1>3, <1>4

\* The room counted for a string is what its spelling needs.
LEMMA SpelledIs ==
  ASSUME NEW string \in Seq(Byte)
  PROVE  /\ Spelled(string) \in Seq(Byte) /\ OutputLength(string) \in Nat
         /\ Len(Spelled(string)) = OutputLength(string)
<1> DEFINE N == Len(string)
           written[n \in 0..N] == IF n = 0 THEN <<>> ELSE written[n - 1] \o Escaped(string[n])
           count[n \in 0..N] == IF n = 0 THEN 0 ELSE count[n - 1] + 1 + Extra(string[n])
<1>1. N \in Nat /\ \A n \in 1..N : string[n] \in Byte
  OBVIOUS
<1>2. Spelled(string) = written[N] /\ OutputLength(string) = count[N]
  BY Zenon DEF Spelled, OutputLength
<1> HIDE DEF N
<1>3. written = [n \in 0..N |-> IF n = 0 THEN <<>> ELSE written[n - 1] \o Escaped(string[n])]
  <2> DEFINE step == [x \in (1..N) \X Seq(Byte) |-> x[2] \o Escaped(string[x[1]])]
  <2>1. step \in [(1..N) \X Seq(Byte) -> Seq(Byte)]
    <3> SUFFICES ASSUME NEW x \in (1..N) \X Seq(Byte)
                 PROVE  x[2] \o Escaped(string[x[1]]) \in Seq(Byte)
      BY Zenon
    <3>1. x[2] \in Seq(Byte) /\ x[1] \in 1..N /\ string[x[1]] \in Byte
      BY <1>1
    <3>2. Escaped(string[x[1]]) \in Seq(Byte)
      BY <3>1, EscapedIs
    <3> QED
      BY <3>1, <3>2
  <2>2. <<>> \in Seq(Byte)
    OBVIOUS
  <2>3. PICK f \in [0..N -> Seq(Byte)] : Recurs(f, N, <<>>, step)
    <3> HIDE DEF step
    <3> QED
      BY <1>1, <2>1, <2>2, Recursion
  <2>4. ASSUME NEW n \in 0..N
        PROVE  f[n] = IF n = 0 THEN <<>> ELSE f[n - 1] \o Escaped(string[n])
    <3>1. CASE n = 0
      BY <2>3, <3>1 DEF Recurs
    <3>2. CASE n # 0
      <4>1. n \in 1..N /\ n - 1 \in 0..N
        BY <3>2, <1>1
      <4>2. f[n] = step[<<n, f[n - 1]>>] /\ f[n - 1] \in Seq(Byte)
        BY <2>3, <4>1 DEF Recurs
      <4> QED
        BY <3>2, <4>1, <4>2
    <3> QED
      BY <3>1, <3>2
  <2>5. f = [n \in 0..N |-> IF n = 0 THEN <<>> ELSE f[n - 1] \o Escaped(string[n])]
    <3>1. f = [n \in 0..N |-> f[n]]
      BY <2>3
    <3> QED
      BY <2>4, <3>1, Zenon
  <2> QED
    BY <2>5, Zenon
<1>4. count = [n \in 0..N |-> IF n = 0 THEN 0 ELSE count[n - 1] + 1 + Extra(string[n])]
  <2> DEFINE step == [x \in (1..N) \X Nat |-> x[2] + 1 + Extra(string[x[1]])]
  <2>1. step \in [(1..N) \X Nat -> Nat]
    <3> SUFFICES ASSUME NEW x \in (1..N) \X Nat
                 PROVE  x[2] + 1 + Extra(string[x[1]]) \in Nat
      BY Zenon
    <3>1. x[2] \in Nat /\ x[1] \in 1..N /\ string[x[1]] \in Byte
      BY <1>1
    <3>2. Extra(string[x[1]]) \in Nat
      BY <3>1, EscapedIs
    <3> QED
      BY <3>1, <3>2
  <2>2. PICK f \in [0..N -> Nat] : Recurs(f, N, 0, step)
    <3> HIDE DEF step
    <3> QED
      BY <1>1, <2>1, Recursion
  <2>3. ASSUME NEW n \in 0..N
        PROVE  f[n] = IF n = 0 THEN 0 ELSE f[n - 1] + 1 + Extra(string[n])
    <3>1. CASE n = 0
      BY <2>2, <3>1 DEF Recurs
    <3>2. CASE n # 0
      <4>1. n \in 1..N /\ n - 1 \in 0..N
        BY <3>2, <1>1
      <4>2. f[n] = step[<<n, f[n - 1]>>] /\ f[n - 1] \in Nat
        BY <2>2, <4>1 DEF Recurs
      <4> QED
        BY <3>2, <4>1, <4>2
    <3> QED
      BY <3>1, <3>2
  <2>4. f = [n \in 0..N |-> IF n = 0 THEN 0 ELSE f[n - 1] + 1 + Extra(string[n])]
    <3>1. f = [n \in 0..N |-> f[n]]
      BY <2>2
    <3> QED
      BY <2>3, <3>1, Zenon
  <2> QED
    BY <2>4, Zenon
<1> HIDE DEF written, count
<1> DEFINE Right == {n \in 0..N : /\ written[n] \in Seq(Byte) /\ count[n] \in Nat
                                  /\ Len(written[n]) = count[n]}
<1>5. 0 \in Right
  BY <1>1, <1>3, <1>4
<1>6. ASSUME NEW n \in 1..N, n - 1 \in Right
      PROVE  n \in Right
  <2>1. n \in 0..N /\ n # 0 /\ string[n] \in Byte
    BY <1>1
  <2>2. written[n] = written[n - 1] \o Escaped(string[n]) /\ count[n] = count[n - 1] + 1 + Extra(string[n])
    BY <1>3, <1>4, <2>1
  <2>3. /\ Escaped(string[n]) \in Seq(Byte) /\ Len(Escaped(string[n])) = 1 + Extra(string[n])
        /\ Extra(string[n]) \in Nat
    BY <2>1, EscapedIs
  <2>4. /\ written[n - 1] \in Seq(Byte) /\ count[n - 1] \in Nat
        /\ Len(written[n - 1]) = count[n - 1]
    BY <1>6
  <2> DEFINE before == written[n - 1]
             added == Escaped(string[n])
             extra == Extra(string[n])
  <2>5. before \o added \in Seq(Byte) /\ Len(before \o added) = Len(before) + Len(added)
    <3> HIDE DEF before, added
    <3>1. before \in Seq(Byte) /\ added \in Seq(Byte)
      BY <2>3, <2>4 DEF before, added
    <3> QED
      BY <3>1
  <2>6. written[n] \in Seq(Byte) /\ Len(written[n]) = count[n - 1] + (1 + extra)
    BY <2>2, <2>3, <2>4, <2>5
  <2>7. count[n] = count[n - 1] + 1 + extra /\ extra \in Nat
    BY <2>2, <2>3
  <2>8. count[n] \in Nat /\ Len(written[n]) = count[n]
    <3>1. \A c, e \in Nat : c + 1 + e \in Nat /\ c + (1 + e) = c + 1 + e
      OBVIOUS
    <3> HIDE DEF extra
    <3> QED
      BY <2>4, <2>6, <2>7, <3>1, Zenon
  <2> QED
    BY <2>1, <2>6, <2>8
<1>7. 0..N \subseteq Right
  <2> HIDE DEF Right
  <2> QED
    BY <1>1, <1>5, <1>6, ClimbTo
<1>8. N \in 0..N
  BY <1>1
<1> QED
  BY <1>2, <1>7, <1>8

LEMMA StringPrints ==
  ASSUME NEW p, Fine(p), NEW input \in CharPointer
  PROVE  Prints(p, print_string_ptr(p, input))
<1> DEFINE string == IF input = NoText THEN <<>> ELSE input
           out == OutputLength(string)
           written == <<Quote>> \o Spelled(string)
           body == Emit(p, out + 3, written, 0)
           at == body.offset + out + 1
           q == Write(body, at, <<Quote, 0>>)
<1>1. print_string_ptr(p, input) = IF ~body.ok THEN body ELSE q
  BY Zenon DEF print_string_ptr
<1>2. string \in Seq(Byte)
  BY CharactersAreBytes DEF CharPointer
<1> HIDE DEF string
<1>3. out \in Nat /\ written \in Seq(Byte) /\ Len(written) = out + 1
  <2>1. Spelled(string) \in Seq(Byte) /\ out \in Nat /\ Len(Spelled(string)) = out
    BY <1>2, SpelledIs
  <2> QED
    BY <2>1 DEF Quote, Byte
<1> HIDE DEF out, written
<1>4. Emits(p, body, out + 3, written, 0)
  BY <1>3, EmitFits
<1> HIDE DEF body
<1>5. CASE ~body.ok
  BY <1>1, <1>4, <1>5 DEF Emits, Prints, Ended
<1>6. CASE body.ok
  <2>1. /\ Fine(body) /\ body.offset \in Nat /\ p.offset \in Nat /\ body.offset = p.offset
        /\ Len(body.bytes) \in Nat
    BY <1>4, <1>6 DEF Emits, Follows, Fine, Buffer
  <2>2. at \in Nat /\ at + 2 <= Len(body.bytes)
    <3>1. out + 3 + p.offset + 1 <= Len(body.bytes)
      BY <1>4, <1>6 DEF Emits
    <3>2. \A o, k, l \in Nat : k + 3 + o + 1 <= l => o + k + 1 \in Nat /\ o + k + 1 + 2 <= l
      OBVIOUS
    <3> QED
      BY <1>3, <2>1, <3>1, <3>2, Zenon
  <2> HIDE DEF at
  <2>3. <<Quote, 0>> \in Seq(Byte) /\ Len(<<Quote, 0>>) = 2 /\ <<Quote, 0>>[2] = 0
    BY DEF Quote, Byte
  <2>4. /\ Follows(body, q) /\ q.ok = body.ok /\ q.offset = body.offset
        /\ Len(q.bytes) = Len(body.bytes) /\ q.bytes[at + 2] = 0
    <3> DEFINE end == <<Quote, 0>>
    <3>1. end \in Seq(Byte) /\ Len(end) = 2 /\ end[2] = 0 /\ at + Len(end) <= Len(body.bytes)
      BY <2>2, <2>3
    <3> HIDE DEF end
    <3>2. /\ Follows(body, Write(body, at, end)) /\ Write(body, at, end).ok = body.ok
          /\ Write(body, at, end).offset = body.offset
          /\ Len(Write(body, at, end).bytes) = Len(body.bytes)
          /\ \A n \in 1..Len(end) : Write(body, at, end).bytes[at + n] = end[n]
      BY <2>1, <2>2, <3>1, WriteFits
    <3> QED
      BY <3>1, <3>2 DEF end
  <2> HIDE DEF q
  <2>5. at + 2 > q.offset /\ at + 2 \in 1..Len(q.bytes)
    BY <1>3, <2>1, <2>2, <2>4 DEF at
  <2>6. Follows(p, q)
    BY <1>4, <2>4 DEF Emits, Follows
  <2> QED
    BY <1>1, <1>6, <2>4, <2>5, <2>6 DEF Prints, Ended
<1> QED
  BY <1>5, <1>6

LEMMA FollowsOn ==
  ASSUME NEW p, NEW q, NEW r, Follows(p, q), Follows(q, r)
  PROVE  Follows(p, r)
BY DEF Follows

LEMMA FailPrints ==
  ASSUME NEW p, Fine(p)
  PROVE  Prints(p, Fail(p))
<1>1. Fail(p) \in Buffer
  BY DEF Fine, Buffer, Fail
<1> QED
  BY <1>1 DEF Prints, Follows, Ended, Fine, Fail

LEMMA NestFits ==
  ASSUME NEW p, Fine(p), NEW n \in Int, p.depth + n \in Nat
  PROVE  /\ Fine(Nest(p, n)) /\ Nest(p, n).depth = p.depth + n
         /\ Nest(p, n).noalloc = p.noalloc /\ Nest(p, n).format = p.format
         /\ Nest(p, n).ok = p.ok /\ Nest(p, n).offset = p.offset /\ Nest(p, n).bytes = p.bytes
         /\ Nest(p, n).luck = p.luck
<1> DEFINE q == Nest(p, n)
<1>1. p \in Buffer /\ p.depth + n \in Int
  BY DEF Fine
<1>2. q = [p EXCEPT !.depth = p.depth + n]
  BY DEF Nest
<1> HIDE DEF q
<1>3. q \in Buffer
  BY <1>1, <1>2 DEF Buffer
<1>4. /\ q.depth = p.depth + n /\ q.noalloc = p.noalloc /\ q.format = p.format /\ q.ok = p.ok
      /\ q.offset = p.offset /\ q.bytes = p.bytes /\ q.overrun = p.overrun /\ q.alive = p.alive
      /\ q.held = p.held /\ q.luck = p.luck
  BY <1>1, <1>2 DEF Buffer
<1>5. Fine(q)
  BY <1>3, <1>4 DEF Fine
<1> QED
  BY <1>4, <1>5 DEF q

\* Bytes that end with 0, when what is left behind does too.
LEMMA EmitEnds ==
  ASSUME NEW p, Fine(p), NEW needed \in Nat, NEW bytes \in Seq(Byte), Len(bytes) <= needed + 1,
         NEW step \in Nat, step < Len(bytes), bytes[Len(bytes)] = 0
  PROVE  Prints(p, Emit(p, needed, bytes, step))
<1> DEFINE q == Emit(p, needed, bytes, step)
           last == p.offset + Len(bytes)
<1>1. Emits(p, q, needed, bytes, step)
  BY EmitFits
<1> HIDE DEF q
<1>2. Follows(p, q) /\ Fine(q)
  BY <1>1 DEF Emits, Follows
<1>3. CASE ~q.ok
  BY <1>2, <1>3 DEF Prints, Ended, q
<1>4. CASE q.ok
  <2>1. /\ q.offset = p.offset + step /\ needed + p.offset + 1 <= Len(q.bytes)
        /\ \A n \in 1..Len(bytes) : q.bytes[p.offset + n] = bytes[n]
    BY <1>1, <1>4 DEF Emits
  <2>2. p.offset \in Nat /\ Len(q.bytes) \in Nat /\ Len(bytes) \in Nat
    BY <1>2 DEF Fine, Buffer
  <2>3. Len(bytes) \in 1..Len(bytes)
    BY <2>2
  <2>4. q.bytes[last] = 0
    BY <2>1, <2>3
  <2>5. last \in 1..Len(q.bytes) /\ last > q.offset
    <3>1. \A o, k, l, d, s \in Nat :
            /\ k <= d + 1 /\ s < k /\ d + o + 1 <= l => o + k \in 1..l /\ o + k > o + s
      OBVIOUS
    <3> QED
      BY <2>1, <2>2, <3>1
  <2> HIDE DEF last
  <2> QED
    BY <1>2, <2>4, <2>5 DEF Prints, Ended, q
<1> QED
  BY <1>3, <1>4

LEMMA PrintsMoves ==
  ASSUME NEW p, NEW q, Prints(p, q)
  PROVE  Follows(p, update_offset(q))
<1>1. Fine(q) /\ Ended(q) /\ Follows(p, q)
  BY DEF Prints, Follows
<1>2. Follows(q, update_offset(q))
  BY <1>1, OffsetMoves
<1> QED
  BY <1>1, <1>2, FollowsOn

LEMMA ZeroEnded ==
  ASSUME NEW bytes \in Seq(Byte)
  PROVE  LET b == Append(bytes, 0)
         IN b \in Seq(Byte) /\ Len(b) = Len(bytes) + 1 /\ b[Len(b)] = 0 /\ Len(bytes) \in Nat
BY DEF Byte

\* The bytes, with the 0 that ends them: what most of the printers write.
LEMMA TextPrints ==
  ASSUME NEW p, Fine(p), NEW bytes \in Seq(Byte), NEW step \in Nat, step <= Len(bytes)
  PROVE  Prints(p, Emit(p, Len(bytes) + 1, Append(bytes, 0), step))
<1> DEFINE b == Append(bytes, 0)
           needed == Len(bytes) + 1
<1>1. b \in Seq(Byte) /\ Len(b) = Len(bytes) + 1 /\ b[Len(b)] = 0 /\ Len(bytes) \in Nat
  BY ZeroEnded
<1>2. needed \in Nat /\ Len(b) <= needed + 1 /\ step < Len(b)
  BY <1>1
<1> HIDE DEF b, needed
<1>3. Prints(p, Emit(p, needed, b, step))
  BY <1>1, <1>2, EmitEnds
<1> QED
  BY <1>3 DEF b, needed

LEMMA TextFollows ==
  ASSUME NEW p, Fine(p), NEW bytes \in Seq(Byte), NEW needed \in Nat, Len(bytes) <= needed + 1
  PROVE  Follows(p, Emit(p, needed, bytes, Len(bytes)))
<1>1. Len(bytes) \in Nat
  OBVIOUS
<1> QED
  BY <1>1, EmitFits DEF Emits

(***************************************************************************)
(* The items                                                               *)
(***************************************************************************)

\* What value does for the documents docs.
Printer(value, docs) == \A q \in Buffer, i \in docs : Fine(q) => Prints(q, value[q][i])

Named(docs) == \A i \in docs : i.string \in CharPointer

LEMMA JoinedIs ==
  ASSUME NEW a \in Seq(Byte), NEW b \in Seq(Byte)
  PROVE  /\ a \o b \in Seq(Byte) /\ Len(a \o b) = Len(a) + Len(b)
         /\ \A n \in 1..Len(b) : (a \o b)[Len(a) + n] = b[n]
OBVIOUS

LEMMA IfIs ==
  ASSUME NEW condition, NEW bytes \in Seq(Byte)
  PROVE  If(condition, bytes) \in Seq(Byte)
<1>1. <<>> \in Seq(Byte)
  OBVIOUS
<1> QED
  BY <1>1 DEF If

LEMMA CommaFollows ==
  ASSUME NEW p, Fine(p), NEW last \in BOOLEAN
  PROVE  Follows(p, print_comma(p, last))
<1> DEFINE comma == <<Comma>> \o If(p.format, <<Space>>)
<1>1. CASE last
  BY <1>1 DEF print_comma, Follows
<1>2. CASE ~last
  <2>1. comma \in Seq(Byte) /\ Len(comma) \in Nat
    <3>1. <<Comma>> \in Seq(Byte) /\ <<Space>> \in Seq(Byte)
      BY DEF Comma, Space, Byte
    <3>2. If(p.format, <<Space>>) \in Seq(Byte)
      BY <3>1, IfIs
    <3> QED
      BY <3>1, <3>2
  <2>2. print_comma(p, last) = Emit(p, Len(comma) + 1, Append(comma, 0), Len(comma))
    BY <1>2 DEF print_comma
  <2> HIDE DEF comma
  <2>3. Prints(p, Emit(p, Len(comma) + 1, Append(comma, 0), Len(comma)))
    BY <2>1, TextPrints
  <2> QED
    BY <2>2, <2>3 DEF Prints
<1> QED
  BY <1>1, <1>2

LEMMA ElementFollows ==
  ASSUME NEW docs, NEW value, Printer(value, docs), NEW p, Fine(p), NEW kid \in docs,
         NEW last \in BOOLEAN
  PROVE  Follows(p, print_comma(update_offset(value[p][kid]), last))
<1> DEFINE q == value[p][kid]
           r == update_offset(q)
<1>1. Prints(p, q)
  BY DEF Printer, Fine
<1> HIDE DEF q
<1>2. Follows(p, r)
  BY <1>1, PrintsMoves
<1> HIDE DEF r
<1>3. Fine(r)
  BY <1>2 DEF Follows
<1>4. Follows(r, print_comma(r, last))
  BY <1>3, CommaFollows
<1>5. Follows(p, print_comma(r, last))
  BY <1>2, <1>4, FollowsOn
<1> QED
  BY <1>5 DEF q, r

\* The elements are printed one after the other.
LEMMA ElementsAre ==
  ASSUME NEW docs, NEW value, Printer(value, docs), NEW p, Fine(p), NEW kids \in Seq(docs)
  PROVE  \E upto : /\ print_elements(p, kids, value) = upto[Len(kids)] /\ upto[0] = p
                   /\ \A n \in 0..Len(kids) : Follows(p, upto[n])
                   /\ \A n \in 1..Len(kids) : upto[n] = print_comma(update_offset(value[upto[n - 1]][kids[n]]), n = Len(kids))
<1> DEFINE N == Len(kids)
           After == {q \in Buffer : Follows(p, q)}
           Element(q, n) == print_comma(update_offset(value[q][kids[n]]), n = N)
           upto[n \in 0..N] == IF n = 0 THEN p ELSE Element(upto[n - 1], n)
<1>1. N \in Nat /\ \A n \in 1..N : kids[n] \in docs
  OBVIOUS
<1>2. print_elements(p, kids, value) = upto[N]
  BY Zenon DEF print_elements
<1> HIDE DEF N
<1>3. ASSUME NEW q \in After, NEW n \in 1..N
      PROVE  Element(q, n) \in After
  <2>1. Follows(p, q) /\ Fine(q) /\ kids[n] \in docs /\ (n = N) \in BOOLEAN
    BY <1>1, <1>3 DEF Follows
  <2>2. Follows(q, Element(q, n))
    BY <2>1, ElementFollows
  <2> HIDE DEF Element
  <2>3. Follows(p, Element(q, n)) /\ Element(q, n) \in Buffer
    BY <2>1, <2>2, FollowsOn DEF Follows, Fine
  <2> QED
    BY <2>3
<1>4. p \in After
  BY DEF Follows, Fine
<1> HIDE DEF After, Element
<1>5. upto = [n \in 0..N |-> IF n = 0 THEN p ELSE Element(upto[n - 1], n)]
  <2> DEFINE step == [x \in (1..N) \X After |-> Element(x[2], x[1])]
  <2>1. step \in [(1..N) \X After -> After]
    <3> SUFFICES ASSUME NEW x \in (1..N) \X After
                 PROVE  Element(x[2], x[1]) \in After
      BY Zenon
    <3>1. x[1] \in 1..N /\ x[2] \in After
      OBVIOUS
    <3> QED
      BY <1>3, <3>1
  <2>2. PICK f \in [0..N -> After] : Recurs(f, N, p, step)
    <3> HIDE DEF step
    <3> QED
      BY <1>1, <1>4, <2>1, Recursion
  <2>3. ASSUME NEW n \in 0..N
        PROVE  f[n] = IF n = 0 THEN p ELSE Element(f[n - 1], n)
    <3>1. CASE n = 0
      BY <2>2, <3>1 DEF Recurs
    <3>2. CASE n # 0
      <4>1. n \in 1..N /\ n - 1 \in 0..N
        BY <3>2, <1>1
      <4>2. f[n] = step[<<n, f[n - 1]>>] /\ f[n - 1] \in After
        BY <2>2, <4>1 DEF Recurs
      <4> QED
        BY <3>2, <4>1, <4>2
    <3> QED
      BY <3>1, <3>2
  <2>4. f = [n \in 0..N |-> IF n = 0 THEN p ELSE Element(f[n - 1], n)]
    <3>1. f = [n \in 0..N |-> f[n]]
      BY <2>2
    <3> QED
      BY <2>3, <3>1, Zenon
  <2> QED
    BY <2>4, Zenon
<1>16. upto[0] = p
  <2>1. 0 \in 0..N
    BY <1>1
  <2> QED
    BY <1>5, <2>1
<1>15. \A n \in 1..N : upto[n] = Element(upto[n - 1], n)
  <2>1. \A n \in 1..N : n \in 0..N /\ n # 0
    BY <1>1
  <2> HIDE DEF upto
  <2> QED
    BY <1>5, <2>1
<1> HIDE DEF upto
<1> DEFINE Right == {n \in 0..N : upto[n] \in After}
<1>6. 0 \in Right
  BY <1>1, <1>4, <1>5
<1>7. ASSUME NEW n \in 1..N, n - 1 \in Right
      PROVE  n \in Right
  <2>1. n \in 0..N /\ n # 0 /\ upto[n - 1] \in After
    BY <1>1, <1>7
  <2>2. upto[n] = Element(upto[n - 1], n)
    BY <1>5, <2>1
  <2> QED
    BY <1>3, <2>1, <2>2
<1>8. 0..N \subseteq Right
  <2> HIDE DEF Right
  <2> QED
    BY <1>1, <1>6, <1>7, ClimbTo
<1>9. N \in 0..N
  BY <1>1
<1>10. \A n \in 0..N : Follows(p, upto[n])
  BY <1>8 DEF After
<1>11. \A n \in 1..N : upto[n] = print_comma(update_offset(value[upto[n - 1]][kids[n]]), n = N)
  BY <1>15 DEF Element
<1> QED
  BY <1>2, <1>10, <1>11, <1>16 DEF N

LEMMA ElementsFollow ==
  ASSUME NEW docs, NEW value, Printer(value, docs), NEW p, Fine(p), NEW kids \in Seq(docs)
  PROVE  Follows(p, print_elements(p, kids, value))
<1>1. Len(kids) \in 0..Len(kids)
  OBVIOUS
<1> QED
  BY <1>1, ElementsAre


\* What was opened one level down is closed.
LEMMA ClosedPrints ==
  ASSUME NEW p, NEW open, NEW opened, NEW inner, NEW close, Follows(p, open),
         Fine(opened), p.depth \in Nat, opened.depth = p.depth + 1, opened.noalloc = p.noalloc,
         opened.format = p.format, opened.ok = open.ok, opened.luck = open.luck,
         opened.bytes = open.bytes,
         Follows(opened, inner), Prints(inner, close)
  PROVE  Prints(p, Nest(close, -1))
<1>1. /\ Fine(close) /\ Ended(close) /\ close.depth = p.depth + 1 /\ close.noalloc = p.noalloc
      /\ close.format = p.format
      /\ close.ok => p.ok
      /\ ~p.ok => close.luck = p.luck
      /\ p.noalloc => Len(close.bytes) = Len(p.bytes)
  BY DEF Prints, Follows
<1>2. close.depth + (-1) = p.depth /\ close.depth + (-1) \in Nat /\ -1 \in Int
  BY <1>1
<1> DEFINE q == Nest(close, -1)
<1>3. /\ Fine(q) /\ q.depth = p.depth /\ q.noalloc = close.noalloc /\ q.format = close.format
      /\ q.ok = close.ok /\ q.offset = close.offset /\ q.bytes = close.bytes
      /\ q.luck = close.luck
  BY <1>1, <1>2, NestFits
<1> HIDE DEF q
<1>4. Follows(p, q)
  BY <1>1, <1>2, <1>3 DEF Follows
<1>5. Ended(q)
  BY <1>1, <1>3 DEF Ended
<1> QED
  BY <1>4, <1>5 DEF Prints, q

LEMMA ArrayPrints ==
  ASSUME NEW docs, NEW value, Printer(value, docs), NEW p, Fine(p), NEW doc,
         doc.kids \in Seq(docs)
  PROVE  Prints(p, print_array(p, doc, value))
<1> DEFINE open == Emit(p, 1, <<Open.Array>>, 1)
           opened == Nest(open, 1)
           elements == print_elements(opened, doc.kids, value)
           close == Emit(elements, 2, <<Close.Array, 0>>, 0)
<1>1. print_array(p, doc, value) = Nest(close, -1)
  BY Zenon DEF print_array
<1>2. /\ <<Open.Array>> \in Seq(Byte) /\ Len(<<Open.Array>>) = 1
      /\ <<Close.Array, 0>> \in Seq(Byte) /\ Len(<<Close.Array, 0>>) = 2
      /\ <<Close.Array, 0>>[2] = 0
  BY DEF Open, Close, Byte
<1>3. Follows(p, open)
  <2> DEFINE b == <<Open.Array>>
  <2>1. b \in Seq(Byte) /\ Len(b) = 1 /\ Len(b) <= 1 + 1
    BY <1>2
  <2> HIDE DEF b
  <2>2. Follows(p, Emit(p, 1, b, Len(b)))
    BY <2>1, TextFollows
  <2>3. Emit(p, 1, b, 1) = open
    BY DEF b
  <2> QED
    BY <2>1, <2>2, <2>3
<1> HIDE DEF open
<1>4. /\ Fine(opened) /\ opened.depth = p.depth + 1 /\ opened.noalloc = p.noalloc
      /\ opened.format = p.format /\ opened.ok = open.ok /\ p.depth \in Nat
      /\ opened.luck = open.luck /\ opened.bytes = open.bytes
  <2>1. Fine(open) /\ open.depth = p.depth /\ p.depth \in Nat /\ open.depth + 1 \in Nat
    BY <1>3 DEF Follows, Fine
  <2>2. /\ Fine(Nest(open, 1)) /\ Nest(open, 1).depth = open.depth + 1
        /\ Nest(open, 1).noalloc = open.noalloc /\ Nest(open, 1).format = open.format
        /\ Nest(open, 1).ok = open.ok /\ Nest(open, 1).luck = open.luck
        /\ Nest(open, 1).bytes = open.bytes
    BY <2>1, NestFits
  <2> QED
    BY <1>3, <2>1, <2>2 DEF Follows
<1> HIDE DEF opened
<1>5. Follows(opened, elements)
  BY <1>4, ElementsFollow
<1> HIDE DEF elements
<1>6. Prints(elements, close)
  <2> DEFINE b == <<Close.Array, 0>>
  <2>1. /\ b \in Seq(Byte) /\ b[Len(b)] = 0 /\ 0 < Len(b) /\ Len(b) <= 2 + 1
        /\ 2 \in Nat /\ 0 \in Nat
    BY <1>2
  <2>2. Fine(elements)
    BY <1>5 DEF Follows
  <2> HIDE DEF b
  <2>3. Prints(elements, Emit(elements, 2, b, 0))
    BY <2>1, <2>2, EmitEnds, Zenon
  <2> QED
    BY <2>3 DEF b
<1> HIDE DEF close
<1>7. Prints(p, Nest(close, -1))
  BY <1>3, <1>4, <1>5, <1>6, ClosedPrints
<1> QED
  BY <1>1, <1>7

LEMMA TabsIs ==
  ASSUME NEW n \in Nat
  PROVE  Tabs(n) \in Seq(Byte) /\ Len(Tabs(n)) = n
<1>1. Tab \in Byte
  BY DEF Tab, Byte
<1> QED
  BY <1>1 DEF Tabs

LEMMA MemberFollows ==
  ASSUME NEW docs, Named(docs), NEW value, Printer(value, docs), NEW p, Fine(p), NEW kid \in docs,
         NEW last \in BOOLEAN
  PROVE  Follows(p, print_member(p, kid, last, value))
<1> DEFINE indented == IF p.format THEN Emit(p, p.depth, Tabs(p.depth), p.depth) ELSE p
           name == print_string_ptr(indented, kid.string)
           named == update_offset(name)
           colon == <<Colon>> \o If(p.format, <<Tab>>)
           colons == Emit(named, Len(colon), colon, Len(colon))
           val == value[colons][kid]
           valued == update_offset(val)
           end == If(~last, <<Comma>>) \o If(p.format, <<NewLine>>)
           all == Emit(valued, Len(end) + 1, Append(end, 0), Len(end))
<1>1. print_member(p, kid, last, value) = all
  BY Zenon DEF print_member
<1>2. /\ colon \in Seq(Byte) /\ Len(colon) \in Nat /\ end \in Seq(Byte) /\ Len(end) \in Nat
      /\ Len(colon) <= Len(colon) + 1
  <2>1. /\ <<Colon>> \in Seq(Byte) /\ <<Tab>> \in Seq(Byte) /\ <<Comma>> \in Seq(Byte)
        /\ <<NewLine>> \in Seq(Byte)
    BY DEF Colon, Tab, Comma, NewLine, Byte
  <2>2. /\ If(p.format, <<Tab>>) \in Seq(Byte) /\ If(~last, <<Comma>>) \in Seq(Byte)
        /\ If(p.format, <<NewLine>>) \in Seq(Byte)
    BY <2>1, IfIs
  <2>3. colon \in Seq(Byte) /\ end \in Seq(Byte)
    BY <2>1, <2>2
  <2> HIDE DEF colon, end
  <2> QED
    BY <2>3
<1>3. Follows(p, indented)
  <2>1. CASE p.format
    <3>1. p.depth \in Nat
      BY DEF Fine
    <3>2. Tabs(p.depth) \in Seq(Byte) /\ Len(Tabs(p.depth)) = p.depth
      BY <3>1, TabsIs
    <3>3. Follows(p, Emit(p, p.depth, Tabs(p.depth), Len(Tabs(p.depth))))
      BY <3>1, <3>2, TextFollows
    <3> QED
      BY <2>1, <3>2, <3>3
  <2>2. CASE ~p.format
    BY <2>2 DEF Follows
  <2> QED
    BY <2>1, <2>2
<1> HIDE DEF indented, colon, end
<1>4. Follows(p, named)
  <2>1. Fine(indented) /\ kid.string \in CharPointer
    BY <1>3 DEF Follows, Named
  <2>2. Prints(indented, name)
    BY <2>1, StringPrints
  <2> HIDE DEF name
  <2>3. Follows(indented, named)
    BY <2>2, PrintsMoves
  <2> HIDE DEF named
  <2> QED
    BY <1>3, <2>3, FollowsOn
<1> HIDE DEF named
<1>5. Follows(p, colons)
  <2>1. Fine(named)
    BY <1>4 DEF Follows
  <2>2. Follows(named, colons)
    BY <1>2, <2>1, TextFollows
  <2> HIDE DEF colons
  <2> QED
    BY <1>4, <2>2, FollowsOn
<1> HIDE DEF colons
<1>6. Follows(p, valued)
  <2>1. Fine(colons)
    BY <1>5 DEF Follows
  <2>2. Prints(colons, val)
    BY <2>1 DEF Printer, Fine
  <2> HIDE DEF val
  <2>3. Follows(colons, valued)
    BY <2>2, PrintsMoves
  <2> HIDE DEF valued
  <2> QED
    BY <1>5, <2>3, FollowsOn
<1> HIDE DEF valued
<1>7. Follows(p, all)
  <2>1. Fine(valued)
    BY <1>6 DEF Follows
  <2>2. Len(end) <= Len(end)
    BY <1>2
  <2>3. Prints(valued, all)
    BY <1>2, <2>1, <2>2, TextPrints
  <2> HIDE DEF all
  <2> QED
    BY <1>6, <2>3, FollowsOn DEF Prints
<1> QED
  BY <1>1, <1>7

\* The members are printed one after the other.
LEMMA MembersAre ==
  ASSUME NEW docs, Named(docs), NEW value, Printer(value, docs), NEW p, Fine(p), NEW kids \in Seq(docs)
  PROVE  \E upto : /\ print_members(p, kids, value) = upto[Len(kids)] /\ upto[0] = p
                   /\ \A n \in 0..Len(kids) : Follows(p, upto[n])
                   /\ \A n \in 1..Len(kids) : upto[n] = print_member(upto[n - 1], kids[n], n = Len(kids), value)
<1> DEFINE N == Len(kids)
           After == {q \in Buffer : Follows(p, q)}
           Member(q, n) == print_member(q, kids[n], n = N, value)
           upto[n \in 0..N] == IF n = 0 THEN p ELSE Member(upto[n - 1], n)
<1>1. N \in Nat /\ \A n \in 1..N : kids[n] \in docs
  OBVIOUS
<1>2. print_members(p, kids, value) = upto[N]
  BY Zenon DEF print_members
<1> HIDE DEF N
<1>3. ASSUME NEW q \in After, NEW n \in 1..N
      PROVE  Member(q, n) \in After
  <2>1. Follows(p, q) /\ Fine(q) /\ kids[n] \in docs /\ (n = N) \in BOOLEAN
    BY <1>1, <1>3 DEF Follows
  <2>2. Follows(q, Member(q, n))
    BY <2>1, MemberFollows
  <2> HIDE DEF Member
  <2>3. Follows(p, Member(q, n)) /\ Member(q, n) \in Buffer
    BY <2>1, <2>2, FollowsOn DEF Follows, Fine
  <2> QED
    BY <2>3
<1>4. p \in After
  BY DEF Follows, Fine
<1> HIDE DEF After, Member
<1>5. upto = [n \in 0..N |-> IF n = 0 THEN p ELSE Member(upto[n - 1], n)]
  <2> DEFINE step == [x \in (1..N) \X After |-> Member(x[2], x[1])]
  <2>1. step \in [(1..N) \X After -> After]
    <3> SUFFICES ASSUME NEW x \in (1..N) \X After
                 PROVE  Member(x[2], x[1]) \in After
      BY Zenon
    <3>1. x[1] \in 1..N /\ x[2] \in After
      OBVIOUS
    <3> QED
      BY <1>3, <3>1
  <2>2. PICK f \in [0..N -> After] : Recurs(f, N, p, step)
    <3> HIDE DEF step
    <3> QED
      BY <1>1, <1>4, <2>1, Recursion
  <2>3. ASSUME NEW n \in 0..N
        PROVE  f[n] = IF n = 0 THEN p ELSE Member(f[n - 1], n)
    <3>1. CASE n = 0
      BY <2>2, <3>1 DEF Recurs
    <3>2. CASE n # 0
      <4>1. n \in 1..N /\ n - 1 \in 0..N
        BY <3>2, <1>1
      <4>2. f[n] = step[<<n, f[n - 1]>>] /\ f[n - 1] \in After
        BY <2>2, <4>1 DEF Recurs
      <4> QED
        BY <3>2, <4>1, <4>2
    <3> QED
      BY <3>1, <3>2
  <2>4. f = [n \in 0..N |-> IF n = 0 THEN p ELSE Member(f[n - 1], n)]
    <3>1. f = [n \in 0..N |-> f[n]]
      BY <2>2
    <3> QED
      BY <2>3, <3>1, Zenon
  <2> QED
    BY <2>4, Zenon
<1>16. upto[0] = p
  <2>1. 0 \in 0..N
    BY <1>1
  <2> QED
    BY <1>5, <2>1
<1>15. \A n \in 1..N : upto[n] = Member(upto[n - 1], n)
  <2>1. \A n \in 1..N : n \in 0..N /\ n # 0
    BY <1>1
  <2> HIDE DEF upto
  <2> QED
    BY <1>5, <2>1
<1> HIDE DEF upto
<1> DEFINE Right == {n \in 0..N : upto[n] \in After}
<1>6. 0 \in Right
  BY <1>1, <1>4, <1>5
<1>7. ASSUME NEW n \in 1..N, n - 1 \in Right
      PROVE  n \in Right
  <2>1. n \in 0..N /\ n # 0 /\ upto[n - 1] \in After
    BY <1>1, <1>7
  <2>2. upto[n] = Member(upto[n - 1], n)
    BY <1>5, <2>1
  <2> QED
    BY <1>3, <2>1, <2>2
<1>8. 0..N \subseteq Right
  <2> HIDE DEF Right
  <2> QED
    BY <1>1, <1>6, <1>7, ClimbTo
<1>9. N \in 0..N
  BY <1>1
<1>10. \A n \in 0..N : Follows(p, upto[n])
  BY <1>8 DEF After
<1>11. \A n \in 1..N : upto[n] = print_member(upto[n - 1], kids[n], n = N, value)
  BY <1>15 DEF Member
<1> QED
  BY <1>2, <1>10, <1>11, <1>16 DEF N

LEMMA MembersFollow ==
  ASSUME NEW docs, Named(docs), NEW value, Printer(value, docs), NEW p, Fine(p), NEW kids \in Seq(docs)
  PROVE  Follows(p, print_members(p, kids, value))
<1>1. Len(kids) \in 0..Len(kids)
  OBVIOUS
<1> QED
  BY <1>1, MembersAre

LEMMA ObjectPrints ==
  ASSUME NEW docs, Named(docs), NEW value, Printer(value, docs), NEW p, Fine(p), NEW doc,
         doc.kids \in Seq(docs)
  PROVE  Prints(p, print_object(p, doc, value))
<1> DEFINE bytes == <<Open.Object>> \o If(p.format, <<NewLine>>)
           open == Emit(p, Len(bytes) + 1, bytes, Len(bytes))
           opened == Nest(open, 1)
           members == print_members(opened, doc.kids, value)
           needed == IF p.format THEN p.depth + 2 ELSE 2
           last == If(p.format, Tabs(p.depth)) \o <<Close.Object, 0>>
           close == Emit(members, needed, last, 0)
<1>1. print_object(p, doc, value) = Nest(close, -1)
  BY Zenon DEF print_object
<1>2. /\ bytes \in Seq(Byte) /\ Len(bytes) + 1 \in Nat /\ Len(bytes) <= Len(bytes) + 1 + 1
  <2>1. <<Open.Object>> \in Seq(Byte) /\ <<NewLine>> \in Seq(Byte)
    BY DEF Open, NewLine, Byte
  <2>2. If(p.format, <<NewLine>>) \in Seq(Byte)
    BY <2>1, IfIs
  <2>3. bytes \in Seq(Byte)
    BY <2>1, <2>2
  <2> HIDE DEF bytes
  <2> QED
    BY <2>3
<1>3. /\ needed \in Nat /\ last \in Seq(Byte) /\ Len(last) = needed /\ last[Len(last)] = 0
      /\ needed > 0
  <2> DEFINE indent == If(p.format, Tabs(p.depth))
             end == <<Close.Object, 0>>
  <2>1. p.depth \in Nat
    BY DEF Fine
  <2>2. indent \in Seq(Byte) /\ Len(indent) + 2 = needed /\ Len(indent) \in Nat
    <3>1. Tabs(p.depth) \in Seq(Byte) /\ Len(Tabs(p.depth)) = p.depth
      BY <2>1, TabsIs
    <3>2. CASE p.format
      BY <2>1, <3>1, <3>2 DEF If
    <3>3. CASE ~p.format
      BY <3>3 DEF If
    <3> QED
      BY <3>2, <3>3
  <2>3. end \in Seq(Byte) /\ Len(end) = 2 /\ end[2] = 0
    BY DEF Close, Byte
  <2> HIDE DEF indent, end, needed
  <2>4. /\ indent \o end \in Seq(Byte) /\ Len(indent \o end) = Len(indent) + 2
        /\ \A n \in 1..2 : (indent \o end)[Len(indent) + n] = end[n]
    <3>1. /\ indent \o end \in Seq(Byte) /\ Len(indent \o end) = Len(indent) + Len(end)
          /\ \A n \in 1..Len(end) : (indent \o end)[Len(indent) + n] = end[n]
      BY <2>2, <2>3, JoinedIs
    <3> QED
      BY <2>3, <3>1, Zenon
  <2>5. (indent \o end)[Len(indent) + 2] = 0
    BY <2>3, <2>4
  <2>6. last = indent \o end
    BY DEF indent, end
  <2> HIDE DEF last
  <2> QED
    BY <2>2, <2>4, <2>5, <2>6
<1>4. Follows(p, open)
  <2> HIDE DEF bytes
  <2> QED
    BY <1>2, TextFollows
<1> HIDE DEF open, needed, last
<1>5. /\ Fine(opened) /\ opened.depth = p.depth + 1 /\ opened.noalloc = p.noalloc
      /\ opened.format = p.format /\ opened.ok = open.ok /\ p.depth \in Nat
      /\ opened.luck = open.luck /\ opened.bytes = open.bytes
  <2>1. Fine(open) /\ open.depth = p.depth /\ p.depth \in Nat /\ open.depth + 1 \in Nat
    BY <1>4 DEF Follows, Fine
  <2>2. /\ Fine(Nest(open, 1)) /\ Nest(open, 1).depth = open.depth + 1
        /\ Nest(open, 1).noalloc = open.noalloc /\ Nest(open, 1).format = open.format
        /\ Nest(open, 1).ok = open.ok /\ Nest(open, 1).luck = open.luck
        /\ Nest(open, 1).bytes = open.bytes
    BY <2>1, NestFits
  <2> QED
    BY <1>4, <2>1, <2>2 DEF Follows
<1> HIDE DEF opened
<1>6. Follows(opened, members)
  BY <1>5, MembersFollow
<1> HIDE DEF members
<1>7. Prints(members, close)
  <2>1. Fine(members) /\ 0 < Len(last) /\ Len(last) <= needed + 1
    BY <1>3, <1>6 DEF Follows
  <2> QED
    BY <1>3, <2>1, EmitEnds
<1> HIDE DEF close
<1>8. Prints(p, Nest(close, -1))
  BY <1>4, <1>5, <1>6, <1>7, ClosedPrints
<1> QED
  BY <1>1, <1>8

LEMMA WordIs ==
  ASSUME NEW type \in DOMAIN Word
  PROVE  Word[type] \in Seq(Byte)
<1>1. \/ Word[type] = <<110, 117, 108, 108>>
      \/ Word[type] = <<102, 97, 108, 115, 101>>
      \/ Word[type] = <<116, 114, 117, 101>>
  BY DEF Word
<1>2. /\ <<110, 117, 108, 108>> \in Seq(Byte) /\ <<102, 97, 108, 115, 101>> \in Seq(Byte)
      /\ <<116, 114, 117, 101>> \in Seq(Byte)
  BY DEF Byte
<1> QED
  BY <1>1, <1>2, Zenon

LEMMA ValuePrints ==
  ASSUME NEW n \in 0..Levels, NEW value, n = 0 \/ Printer(value, Nested[n - 1]),
         NEW p, Fine(p), NEW doc \in Nested[n]
  PROVE  Prints(p, value_of_type(p, doc, value))
<1> DEFINE q == value_of_type(p, doc, value)
           Spelling(bytes, step) == Emit(p, Len(bytes) + 1, Append(bytes, 0), step)
<1> DEFINE docs == Nested[n - 1]
<1>1. /\ doc.val \in CharPointer /\ (doc.type = "Number" => doc.val \in Seq(Character))
      /\ doc.type \in DOMAIN Open => Printer(value, docs) /\ Named(docs) /\ doc.kids \in Seq(docs)
  <2>1. /\ doc.val \in CharPointer /\ (doc.type = "Number" => doc.val \in Seq(Character))
        /\ doc.type \in DOMAIN Open => n # 0 /\ doc.kids \in Seq(docs)
    BY ItemIs
  <2>2. n # 0 => Named(docs)
    <3>1. Levels \in Nat
      BY LevelsAssumption
    <3>2. n # 0 => n - 1 \in 0..Levels
      BY <3>1
    <3> QED
      BY <3>2, ItemIs DEF Named
  <2> HIDE DEF docs
  <2>3. n # 0 => Printer(value, docs)
    BY DEF docs
  <2> QED
    BY <2>1, <2>2, <2>3
<1> HIDE DEF docs
<1>2. \/ ~p.ok /\ q = p
      \/ doc.type \in DOMAIN Word /\ q = Spelling(Word[doc.type], 0)
      \/ doc.type = "Number" /\ q = Spelling(doc.val, Len(doc.val))
      \/ doc.val # NoText /\ q = Spelling(doc.val, 0)
      \/ q = print_string_ptr(p, doc.val)
      \/ doc.type = "Array" /\ q = print_array(p, doc, value)
      \/ doc.type = "Object" /\ q = print_object(p, doc, value)
      \/ q = Fail(p)
  BY DEF value_of_type, print_number
<1> HIDE DEF q
<1>3. ASSUME ~p.ok /\ q = p
      PROVE  Prints(p, q)
  BY <1>3 DEF Prints, Follows, Ended
<1>4. ASSUME doc.type \in DOMAIN Word /\ q = Spelling(Word[doc.type], 0)
      PROVE  Prints(p, q)
  <2> DEFINE word == Word[doc.type]
  <2>1. word \in Seq(Byte) /\ 0 <= Len(word)
    <3>1. word \in Seq(Byte)
      BY <1>4, WordIs
    <3> HIDE DEF word
    <3> QED
      BY <3>1
  <2>2. q = Spelling(word, 0)
    BY <1>4
  <2> HIDE DEF word
  <2> QED
    BY <2>1, <2>2, TextPrints
<1>5. ASSUME doc.type = "Number" /\ q = Spelling(doc.val, Len(doc.val))
      PROVE  Prints(p, q)
  <2>1. doc.val \in Seq(Byte) /\ Len(doc.val) \in Nat /\ Len(doc.val) <= Len(doc.val)
    BY <1>1, <1>5, CharactersAreBytes
  <2> QED
    BY <1>5, <2>1, TextPrints
<1>6. ASSUME doc.val # NoText /\ q = Spelling(doc.val, 0)
      PROVE  Prints(p, q)
  <2>1. doc.val \in Seq(Byte) /\ 0 <= Len(doc.val)
    BY <1>1, <1>6, CharactersAreBytes DEF CharPointer
  <2> QED
    BY <1>6, <2>1, TextPrints
<1>7. ASSUME q = print_string_ptr(p, doc.val)
      PROVE  Prints(p, q)
  BY <1>1, <1>7, StringPrints
<1>8. ASSUME doc.type = "Array" /\ q = print_array(p, doc, value)
      PROVE  Prints(p, q)
  <2>1. doc.type \in DOMAIN Open
    BY <1>8 DEF Open
  <2> QED
    BY <1>1, <1>8, <2>1, ArrayPrints
<1>9. ASSUME doc.type = "Object" /\ q = print_object(p, doc, value)
      PROVE  Prints(p, q)
  <2>1. doc.type \in DOMAIN Open
    BY <1>9 DEF Open
  <2> QED
    BY <1>1, <1>9, <2>1, ObjectPrints
<1>10. ASSUME q = Fail(p)
      PROVE  Prints(p, q)
  BY <1>10, FailPrints
<1>11. Prints(p, q)
  <2> HIDE DEF Spelling
  <2> QED
    BY <1>2, <1>3, <1>4, <1>5, <1>6, <1>7, <1>8, <1>9, <1>10
<1> QED
  BY <1>11 DEF q

LEMMA PrintValuePrints ==
  ASSUME NEW p, Fine(p), NEW doc \in Documents
  PROVE  Prints(p, print_value(p, doc))
<1> DEFINE levels[n \in 0..Levels] ==
             [q \in Buffer |-> [i \in Nested[n] |->
                value_of_type(q, i, IF n = 0 THEN <<>> ELSE levels[n - 1])]]
<1>1. print_value(p, doc) = levels[Levels][p][doc]
  BY Zenon DEF print_value
<1>2. Levels \in Nat
  BY LevelsAssumption
<1>3. levels = [n \in 0..Levels |-> Level("print", n, levels[n - 1])]
  <2> DEFINE Printing(n, below) == [q \in Buffer |-> [i \in Nested[n] |->
                                    value_of_type(q, i, IF n = 0 THEN <<>> ELSE below)]]
  <2>1. \A n, below : Level("print", n, below) = Printing(n, below)
    BY DEF Level
  <2>2. levels = CHOOSE f : f = [n \in 0..Levels |-> Printing(n, f[n - 1])]
    BY Zenon
  <2> HIDE DEF Printing, levels
  <2>3. PICK f : f = [n \in 0..Levels |-> Level("print", n, f[n - 1])]
    BY <1>2, LevelsExist
  <2>4. f = [n \in 0..Levels |-> Printing(n, f[n - 1])]
    BY <2>1, <2>3
  <2>5. levels = [n \in 0..Levels |-> Printing(n, levels[n - 1])]
    BY <2>2, <2>4, Zenon
  <2> QED
    BY <2>1, <2>5
<1> HIDE DEF levels
<1> DEFINE Right == {n \in 0..Levels : Printer(levels[n], Nested[n])}
<1>4. ASSUME NEW n \in 0..Levels, NEW below, n = 0 \/ Printer(below, Nested[n - 1])
      PROVE  Printer(Level("print", n, below), Nested[n])
  <2> SUFFICES ASSUME NEW q \in Buffer, NEW i \in Nested[n], Fine(q)
               PROVE  Prints(q, Level("print", n, below)[q][i])
    BY Zenon DEF Printer
  <2> DEFINE value == IF n = 0 THEN <<>> ELSE below
  <2>1. Level("print", n, below)[q][i] = value_of_type(q, i, value)
    BY DEF Level
  <2>2. n = 0 \/ Printer(value, Nested[n - 1])
    BY <1>4
  <2> HIDE DEF value
  <2> QED
    BY <2>1, <2>2, ValuePrints
<1>5. 0 \in Right
  <2>1. 0 \in 0..Levels
    BY <1>2
  <2>2. levels[0] = Level("print", 0, levels[0 - 1])
    BY <1>3, <2>1, Zenon
  <2>3. Printer(Level("print", 0, levels[0 - 1]), Nested[0])
    BY <1>4, <2>1
  <2> QED
    BY <2>1, <2>2, <2>3, Zenon
<1>6. ASSUME NEW n \in 1..Levels, n - 1 \in Right
      PROVE  n \in Right
  <2>1. n \in 0..Levels /\ Printer(levels[n - 1], Nested[n - 1])
    BY <1>2, <1>6
  <2>2. levels[n] = Level("print", n, levels[n - 1])
    BY <1>3, <2>1, Zenon
  <2>3. Printer(Level("print", n, levels[n - 1]), Nested[n])
    BY <1>4, <2>1
  <2> QED
    BY <2>1, <2>2, <2>3, Zenon
<1>7. 0..Levels \subseteq Right
  <2> HIDE DEF Right
  <2> QED
    BY <1>2, <1>5, <1>6, ClimbTo
<1>8. Printer(levels[Levels], Documents)
  <2>1. Levels \in 0..Levels
    BY <1>2
  <2> QED
    BY <1>7, <2>1, Zenon DEF Documents
<1> QED
  BY <1>1, <1>8 DEF Printer, Fine

LEMMA PrintBufferFine ==
  ASSUME NEW size \in Nat, NEW noalloc \in BOOLEAN, NEW format \in BOOLEAN, NEW luck \in Nat,
         NEW reallocate \in BOOLEAN
  PROVE  /\ Fine(PrintBuffer(size, noalloc, format, luck, reallocate))
         /\ PrintBuffer(size, noalloc, format, luck, reallocate).noalloc = noalloc
<1> DEFINE bytes == [n \in 1..size |-> Garbage]
           p == PrintBuffer(size, noalloc, format, luck, reallocate)
           held == IF noalloc THEN 0 ELSE 1
<1>1. bytes \in Seq(Byte) /\ held \in Int
  BY DEF Garbage, Byte
<1> HIDE DEF bytes, held
<1>2. p = [bytes |-> bytes, offset |-> 0, depth |-> 0, noalloc |-> noalloc, format |-> format,
           luck |-> luck, reallocate |-> reallocate, ok |-> TRUE, alive |-> TRUE,
           held |-> held, overrun |-> FALSE]
  BY DEF PrintBuffer, bytes, held
<1> HIDE DEF p
<1>3. p \in Buffer
  BY <1>1, <1>2 DEF Buffer
<1>4. Fine(p) /\ p.noalloc = noalloc
  BY <1>2, <1>3 DEF Fine, held
<1> QED
  BY <1>4 DEF p

(***************************************************************************)
(* The print functions                                                     *)
(***************************************************************************)

LEMMA PrintedText ==
  ASSUME NEW p, p.bytes \in Seq(Byte)
  PROVE  Printed(p).text \in Seq(Byte)
BY CStringIs, CharactersAreBytes DEF Printed

LEMMA FreedBuffer ==
  ASSUME NEW p, Fine(p), ~p.noalloc
  PROVE  FreeBuffer(p).held = 0 /\ ~FreeBuffer(p).ok /\ ~FreeBuffer(p).overrun
<1>1. p.alive \/ ~p.alive
  OBVIOUS
<1> QED
  BY <1>1 DEF FreeBuffer, NotPrinted, Fine

\* print, behind cJSON_Print and cJSON_PrintUnformatted, writes nothing outside of
\* the buffer it has at the time, finds the end of what it printed inside of it, and
\* leaves one block with the bytes of a text or, when an allocation failed or an item has no
\* text, none: for every document, in both formats, however many of its allocations
\* succeed, with and without a realloc.
THEOREM PrintStaysInside ==
  ASSUME NEW doc \in Documents, NEW format \in BOOLEAN, NEW luck \in Nat,
         NEW reallocate \in BOOLEAN
  PROVE  LET r == print(doc, format, luck, reallocate)
         IN ~r.overrun /\ r.held = (IF r.ok THEN 1 ELSE 0) /\ (r.ok => r.text \in Seq(Byte))
<1> DEFINE r == print(doc, format, luck, reallocate)
           p == PrintBuffer(DefaultBufferSize, FALSE, format, luck - 1, reallocate)
           v == print_value(p, doc)
           q == update_offset(v)
<1>1. CASE luck = 0
  BY <1>1 DEF print, NotPrinted
<1>2. CASE luck # 0
  <2>1. r = finish_print(q)
    BY <1>2, Zenon DEF print
  <2>2. luck - 1 \in Nat /\ DefaultBufferSize \in Nat
    BY <1>2, PrinterAssumption
  <2>3. Fine(p) /\ ~p.noalloc
    BY <2>2, PrintBufferFine
  <2> HIDE DEF p
  <2>4. Prints(p, v)
    BY <2>3, PrintValuePrints
  <2> HIDE DEF v
  <2>5. Fine(q) /\ ~q.noalloc
    BY <2>3, <2>4, PrintsMoves DEF Follows
  <2> HIDE DEF q, r
  <2>6. CASE ~q.ok \/ q.luck = 0
    BY <2>1, <2>5, <2>6, FreedBuffer DEF finish_print, r
  <2>7. CASE ~(~q.ok \/ q.luck = 0)
    <3>1. r = Printed(move_text(q))
      BY <2>1, <2>7 DEF finish_print
    <3>2. move_text(q).held = q.held /\ move_text(q).overrun = q.overrun
      BY <2>5 DEF move_text, Fine, Buffer
    <3> DEFINE bytes == [n \in 1..(q.offset + 1) |->
                           CASE ~q.reallocate /\ n = q.offset + 1 -> 0
                             [] n \in DOMAIN q.bytes -> q.bytes[n]
                             [] OTHER -> Garbage]
    <3>4. move_text(q).bytes = bytes
      BY <2>5 DEF move_text, Fine, Buffer
    <3>5. bytes \in Seq(Byte)
      <4>1. q.offset + 1 \in Nat /\ q.bytes \in Seq(Byte) /\ 0 \in Byte /\ Garbage \in Byte
        BY <2>5 DEF Fine, Buffer, Byte, Garbage
      <4>2. ASSUME NEW n \in 1..(q.offset + 1)
            PROVE  bytes[n] \in Byte
        <5>1. n \in DOMAIN q.bytes => q.bytes[n] \in Byte
          BY <4>1
        <5> QED
          BY <4>1, <5>1
      <4> QED
        BY <4>1, <4>2
    <3> HIDE DEF bytes
    <3>6. Printed(move_text(q)).text \in Seq(Byte)
      BY <3>4, <3>5, PrintedText
    <3>3. q.held = 1 /\ ~q.overrun
      BY <2>5, <2>7 DEF Fine
    <3> QED
      BY <3>1, <3>2, <3>3, <3>6 DEF Printed, r
  <2> QED
    BY <2>6, <2>7 DEF r
<1> QED
  BY <1>1, <1>2

\* cJSON_PrintBuffered, with a buffer of any size to begin with, does the same.
THEOREM PrintBufferedStaysInside ==
  ASSUME NEW doc \in Documents, NEW prebuffer \in Int, NEW format \in BOOLEAN,
         NEW luck \in Nat, NEW reallocate \in BOOLEAN
  PROVE  LET r == cJSON_PrintBuffered(doc, prebuffer, format, luck, reallocate)
         IN ~r.overrun /\ r.held = (IF r.ok THEN 1 ELSE 0) /\ (r.ok => r.text \in Seq(Byte))
<1> DEFINE r == cJSON_PrintBuffered(doc, prebuffer, format, luck, reallocate)
           p == PrintBuffer(prebuffer, FALSE, format, luck - 1, reallocate)
           q == print_value(p, doc)
<1>1. CASE prebuffer < 0 \/ luck = 0
  BY <1>1 DEF cJSON_PrintBuffered, NotPrinted
<1>2. CASE ~(prebuffer < 0 \/ luck = 0)
  <2>1. r = PrintedOrFreed(q)
    BY <1>2, Zenon DEF cJSON_PrintBuffered
  <2>2. luck - 1 \in Nat /\ prebuffer \in Nat
    BY <1>2
  <2>3. Fine(p) /\ ~p.noalloc
    BY <2>2, PrintBufferFine
  <2> HIDE DEF p
  <2>4. Fine(q) /\ ~q.noalloc
    BY <2>3, PrintValuePrints DEF Prints, Follows
  <2> HIDE DEF q, r
  <2>5. CASE q.ok
    <3>1. Printed(q).text \in Seq(Byte)
      BY <2>4, PrintedText DEF Fine, Buffer
    <3> QED
      BY <2>1, <2>4, <2>5, <3>1 DEF PrintedOrFreed, Printed, Fine, r
  <2>6. CASE ~q.ok
    BY <2>1, <2>4, <2>6, FreedBuffer DEF PrintedOrFreed, r
  <2> QED
    BY <2>5, <2>6
<1> QED
  BY <1>1, <1>2

\* cJSON_PrintPreallocated writes nothing outside of the buffer it is given, however
\* short that is, and allocates nothing.
THEOREM PrintPreallocatedStaysInside ==
  ASSUME NEW doc \in Documents, NEW length \in Int, NEW format \in BOOLEAN
  PROVE  LET r == cJSON_PrintPreallocated(doc, length, format)
         IN ~r.overrun /\ r.held = 0 /\ (r.ok => r.text \in Seq(Byte))
<1> DEFINE r == cJSON_PrintPreallocated(doc, length, format)
           p == PrintBuffer(length, TRUE, format, 0, TRUE)
           q == print_value(p, doc)
<1>1. CASE length < 0
  BY <1>1 DEF cJSON_PrintPreallocated, NotPrinted
<1>2. CASE ~(length < 0)
  <2>1. r = PrintedOrNot(q)
    BY <1>2, Zenon DEF cJSON_PrintPreallocated
  <2>2. length \in Nat
    BY <1>2
  <2>3. Fine(p) /\ p.noalloc
    BY <2>2, PrintBufferFine
  <2> HIDE DEF p
  <2>4. Fine(q) /\ q.noalloc
    BY <2>3, PrintValuePrints DEF Prints, Follows
  <2> HIDE DEF q, r
  <2>5. q.held = 0 /\ ~q.overrun
    BY <2>4 DEF Fine
  <2>6. Printed(q).text \in Seq(Byte)
    BY <2>4, PrintedText DEF Fine, Buffer
  <2> QED
    BY <2>1, <2>5, <2>6 DEF PrintedOrNot, Printed, NotPrinted, r
<1> QED
  BY <1>1, <1>2
(***************************************************************************)
(* What is printed                                                         *)
(***************************************************************************)

\* f[n] is what the first n of the sequences make, one after the other.
Joins(f, seqs) == f[0] = <<>> /\ \A n \in 1..Len(seqs) : f[n] = f[n - 1] \o seqs[n]

LEMMA FlattenedIs ==
  ASSUME NEW S, NEW seqs \in Seq(Seq(S))
  PROVE  \E f \in [0..Len(seqs) -> Seq(S)] : Joins(f, seqs) /\ FlattenSeq(seqs) = f[Len(seqs)]
<1> DEFINE N == Len(seqs)
           step == [x \in (1..N) \X Seq(S) |-> x[2] \o seqs[x[1]]]
           flatten[i \in 1..N] == IF i = 1 THEN seqs[i] ELSE flatten[i - 1] \o seqs[i]
<1>1. N \in Nat /\ (\A n \in 1..N : seqs[n] \in Seq(S)) /\ (N = 0 => seqs = <<>>)
  OBVIOUS
<1>2. FlattenSeq(seqs) = IF N = 0 THEN seqs ELSE flatten[N]
  BY Zenon DEF FlattenSeq
<1> HIDE DEF N
<1>3. PICK f \in [0..N -> Seq(S)] : Recurs(f, N, <<>>, step)
  <2>1. step \in [(1..N) \X Seq(S) -> Seq(S)]
    <3> SUFFICES ASSUME NEW x \in (1..N) \X Seq(S)
                 PROVE  x[2] \o seqs[x[1]] \in Seq(S)
      BY Zenon
    <3>1. x[2] \in Seq(S) /\ x[1] \in 1..N /\ seqs[x[1]] \in Seq(S)
      BY <1>1
    <3> QED
      BY <3>1
  <2>2. <<>> \in Seq(S)
    OBVIOUS
  <2> HIDE DEF step
  <2> QED
    BY <1>1, <2>1, <2>2, Recursion
<1>4. ASSUME NEW n \in 1..N
      PROVE  f[n] = f[n - 1] \o seqs[n]
  <2>1. n - 1 \in 0..N /\ f[n - 1] \in Seq(S)
    BY <1>1, <1>3
  <2>2. f[n] = step[<<n, f[n - 1]>>]
    BY <1>3 DEF Recurs
  <2> QED
    BY <2>1, <2>2
<1>5. f[0] = <<>>
  BY <1>3 DEF Recurs
<1>6. FlattenSeq(seqs) = f[N]
  <2>1. CASE N = 0
    BY <1>1, <1>2, <1>5, <2>1
  <2>2. CASE N # 0
    <3> DEFINE g == [i \in 1..N |-> f[i]]
    <3>1. ASSUME NEW i \in 1..N
          PROVE  g[i] = IF i = 1 THEN seqs[i] ELSE g[i - 1] \o seqs[i]
      <4>1. CASE i = 1
        <5>1. i - 1 = 0 /\ seqs[i] \in Seq(S)
          BY <1>1, <4>1
        <5>2. f[i] = <<>> \o seqs[i]
          BY <1>4, <1>5, <5>1
        <5>3. f[i] = seqs[i]
          BY <5>1, <5>2
        <5> QED
          BY <4>1, <5>3
      <4>2. CASE i # 1
        <5>1. i - 1 \in 1..N
          BY <1>1, <4>2
        <5> QED
          BY <1>4, <4>2, <5>1
      <4> QED
        BY <4>1, <4>2
    <3>2. g = [i \in 1..N |-> g[i]]
      OBVIOUS
    <3> HIDE DEF g
    <3>3. g = [i \in 1..N |-> IF i = 1 THEN seqs[i] ELSE g[i - 1] \o seqs[i]]
      BY <3>1, <3>2, Zenon
    <3>4. flatten = [i \in 1..N |-> IF i = 1 THEN seqs[i] ELSE flatten[i - 1] \o seqs[i]]
      BY <3>3, Zenon
    <3> HIDE DEF flatten
    <3> DEFINE T == {n \in 0..N : n = 0 \/ flatten[n] = g[n]}
    <3>5. 0 \in T
      BY <1>1
    <3>6. ASSUME NEW n \in 1..N, n - 1 \in T
          PROVE  n \in T
      <4>1. flatten[n] = IF n = 1 THEN seqs[n] ELSE flatten[n - 1] \o seqs[n]
        BY <3>4, Zenon
      <4>2. g[n] = IF n = 1 THEN seqs[n] ELSE g[n - 1] \o seqs[n]
        BY <3>1, Zenon
      <4>3. n \in 0..N /\ (n = 1 \/ flatten[n - 1] = g[n - 1])
        BY <1>1, <3>6
      <4>4. flatten[n] = g[n]
        BY <4>1, <4>2, <4>3, Zenon
      <4> QED
        BY <4>3, <4>4
    <3>7. 0..N \subseteq T
      <4> HIDE DEF T
      <4> QED
        BY <1>1, <3>5, <3>6, ClimbTo
    <3>8. flatten[N] = g[N]
      <4>1. N \in 0..N
        BY <1>1
      <4> QED
        BY <2>2, <3>7, <4>1
    <3>9. g[N] = f[N]
      BY <1>1, <2>2 DEF g
    <3> QED
      BY <1>2, <2>2, <3>8, <3>9
  <2> QED
    BY <2>1, <2>2
<1> QED
  BY <1>3, <1>4, <1>5, <1>6 DEF N, Joins

\* The escapes of a string have no byte 0 either.
LEMMA EscapedCharacters ==
  ASSUME NEW c \in Character
  PROVE  Escaped(c) \in Seq(Character)
<1> DEFINE short == c \in {Quote, Backslash, 8, 12, NewLine, 13, Tab}
<1>1. DOMAIN ShortEscape = {Quote, Backslash, 8, 12, NewLine, 13, Tab}
  BY DEF ShortEscape
<1>2. CASE short
  <2>1. ShortEscape[c] \in Character
    BY <1>2 DEF ShortEscape, Quote, Backslash, NewLine, Tab, Byte, Character
  <2>2. Escaped(c) = <<Backslash, ShortEscape[c]>>
    BY <1>1, <1>2, Zenon DEF Escaped
  <2> QED
    BY <2>1, <2>2 DEF Backslash, Byte, Character
<1>3. CASE ~short /\ c < 32
  <2>1. Escaped(c) = <<Backslash, 117, 48, 48, HexByte(c \div 16), HexByte(c % 16)>>
    BY <1>1, <1>3 DEF Escaped
  <2>2. HexByte(c \div 16) \in Character /\ HexByte(c % 16) \in Character
    BY <1>3 DEF HexByte, Byte, Character
  <2> QED
    BY <2>1, <2>2 DEF Backslash, Byte, Character
<1>4. CASE ~short /\ ~(c < 32)
  <2>1. Escaped(c) = <<c>>
    BY <1>1, <1>4 DEF Escaped
  <2> QED
    BY <2>1
<1> QED
  BY <1>2, <1>3, <1>4

\* What print_string_ptr writes between the quotes is what JsonMeaning says it is.
LEMMA SpelledIsFlattened ==
  ASSUME NEW string \in Seq(Character)
  PROVE  /\ Spelled(string) = FlattenSeq([n \in DOMAIN string |-> Escaped(string[n])])
         /\ Spelled(string) \in Seq(Character)
<1> DEFINE N == Len(string)
           seqs == [n \in DOMAIN string |-> Escaped(string[n])]
           written[n \in 0..N] == IF n = 0 THEN <<>> ELSE written[n - 1] \o Escaped(string[n])
<1>1. N \in Nat /\ DOMAIN string = 1..N /\ \A n \in 1..N : string[n] \in Character
  OBVIOUS
<1>2. Spelled(string) = written[N]
  BY Zenon DEF Spelled
<1>3. /\ seqs \in Seq(Seq(Character)) /\ Len(seqs) = N
      /\ \A n \in 1..N : seqs[n] = Escaped(string[n])
  <2>1. \A n \in 1..N : Escaped(string[n]) \in Seq(Character)
    BY <1>1, EscapedCharacters
  <2> HIDE DEF N
  <2> QED
    BY <1>1, <2>1
<1> HIDE DEF N, seqs
<1>4. PICK f \in [0..N -> Seq(Character)] : Joins(f, seqs) /\ FlattenSeq(seqs) = f[N]
  BY <1>3, FlattenedIs
<1>5. f[0] = <<>> /\ \A n \in 1..N : f[n] = f[n - 1] \o Escaped(string[n])
  BY <1>3, <1>4 DEF Joins
<1>6. ASSUME NEW n \in 0..N
      PROVE  f[n] = IF n = 0 THEN <<>> ELSE f[n - 1] \o Escaped(string[n])
  <2>1. n # 0 => n \in 1..N
    BY <1>1
  <2> QED
    BY <1>5, <2>1
<1>7. f = [n \in 0..N |-> IF n = 0 THEN <<>> ELSE f[n - 1] \o Escaped(string[n])]
  <2>1. f = [n \in 0..N |-> f[n]]
    BY <1>4
  <2> QED
    BY <1>6, <2>1, Zenon
<1>8. written = [n \in 0..N |-> IF n = 0 THEN <<>> ELSE written[n - 1] \o Escaped(string[n])]
  BY <1>7, Zenon
<1> HIDE DEF written
<1> DEFINE T == {n \in 0..N : written[n] = f[n]}
<1>9. 0 \in T
  <2>1. 0 \in 0..N
    BY <1>1
  <2>2. written[0] = <<>>
    BY <1>8, <2>1
  <2> QED
    BY <1>5, <2>1, <2>2
<1>10. ASSUME NEW n \in 1..N, n - 1 \in T
       PROVE  n \in T
  <2>1. n \in 0..N /\ n # 0
    BY <1>1
  <2>2. written[n] = written[n - 1] \o Escaped(string[n])
    BY <1>8, <2>1
  <2> QED
    BY <1>5, <1>10, <2>1, <2>2
<1>11. 0..N \subseteq T
  <2> HIDE DEF T
  <2> QED
    BY <1>1, <1>9, <1>10, ClimbTo
<1>12. N \in 0..N
  BY <1>1
<1>13. written[N] = f[N] /\ f[N] \in Seq(Character)
  BY <1>4, <1>11, <1>12
<1> QED
  BY <1>2, <1>4, <1>13 DEF seqs

LEMMA LiteralSpelled ==
  ASSUME NEW input \in CharPointer, NEW string,
         string = IF input = NoText THEN <<>> ELSE input
  PROVE  /\ string \in Seq(Character) /\ Spelled(string) \in Seq(Character)
         /\ Literal(input) = <<Quote>> \o Spelled(string) \o <<Quote>>
         /\ Literal(input) \in Seq(Character)
         /\ Len(Literal(input)) = OutputLength(string) + 2
<1> DEFINE seqs == [n \in DOMAIN string |-> Escaped(string[n])]
<1>1. string \in Seq(Character)
  BY DEF CharPointer
<1>2. Literal(input) = <<Quote>> \o FlattenSeq(seqs) \o <<Quote>>
  BY Zenon DEF Literal
<1>3. Spelled(string) = FlattenSeq(seqs) /\ Spelled(string) \in Seq(Character)
  BY <1>1, SpelledIsFlattened
<1> HIDE DEF seqs
<1>4. Literal(input) = <<Quote>> \o Spelled(string) \o <<Quote>>
  BY <1>2, <1>3
<1>5. Len(Spelled(string)) = OutputLength(string) /\ OutputLength(string) \in Nat
  BY <1>1, CharactersAreBytes, SpelledIs
<1>6. Quote \in Character
  BY DEF Quote, Byte, Character
<1>7. /\ Literal(input) \in Seq(Character) /\ Len(Literal(input)) = OutputLength(string) + 2
  <2> DEFINE spelled == Spelled(string)
             l == OutputLength(string)
  <2>1. spelled \in Seq(Character) /\ Len(spelled) = l /\ l \in Nat
    BY <1>3, <1>5
  <2>2. Literal(input) = <<Quote>> \o spelled \o <<Quote>>
    BY <1>4
  <2> HIDE DEF spelled, l
  <2>3. <<Quote>> \in Seq(Character) /\ Len(<<Quote>>) = 1
    BY <1>6
  <2>4. /\ <<Quote>> \o spelled \in Seq(Character) /\ Len(<<Quote>> \o spelled) = 1 + l
    BY <2>1, <2>3
  <2> DEFINE first == <<Quote>> \o spelled
  <2> HIDE DEF first
  <2>5. /\ first \o <<Quote>> \in Seq(Character) /\ Len(first \o <<Quote>>) = 1 + l + 1
    BY <2>1, <2>3, <2>4 DEF first
  <2> QED
    BY <2>1, <2>2, <2>5 DEF first, spelled, l
<1> QED
  BY <1>1, <1>3, <1>4, <1>7


\* The bytes of p begin with s.
Shows(p, s) == Len(s) <= Len(p.bytes) /\ \A n \in 1..Len(s) : p.bytes[n] = s[n]

\* Why the printing of k bytes to p may have failed: they are too many, or an
\* allocation failed; and, with without the items that have no text, of any text s.
Lacks(p, k) == k + 2 > INT_MAX \/ (IF p.noalloc THEN Len(p.bytes) < k + 2 ELSE p.luck = 0)
Excused(p, s, without) == without # {} \/ Lacks(p, Len(s))

\* The text s has been printed to p, and is all before the offset ...
Written(p, s, without) ==
  /\ p.ok => /\ without = {} /\ Shows(p, s) /\ p.offset = Len(s)
             /\ p.bytes = <<>> \/ p.offset < Len(p.bytes)
  /\ ~p.ok => Excused(p, s, without)

\* ... or the offset is still before the end of it, which is a 0.
Pending(p, s, without) ==
  /\ p.ok => /\ without = {} /\ Shows(p, s) /\ p.offset <= Len(s) /\ Len(s) < Len(p.bytes)
             /\ p.bytes[Len(s) + 1] = 0
  /\ ~p.ok => Excused(p, s, without)

LEMMA JoinIs ==
  ASSUME NEW S, NEW s \in Seq(S), NEW t \in Seq(S)
  PROVE  /\ s \o t \in Seq(S) /\ Len(s \o t) = Len(s) + Len(t)
         /\ Len(s) \in Nat /\ Len(t) \in Nat
         /\ \A n \in 1..(Len(s) + Len(t)) : (s \o t)[n] = IF n <= Len(s) THEN s[n] ELSE t[n - Len(s)]
OBVIOUS

LEMMA ExcusedStill ==
  ASSUME NEW p, NEW q, Follows(p, q), ~p.ok, NEW s \in Seq(Character), NEW t \in Seq(Character),
         Len(s) <= Len(t), NEW without, NEW more, without \subseteq more, Excused(p, s, without)
  PROVE  Excused(q, t, more) /\ ~q.ok
<1>1. ~q.ok /\ q.luck = p.luck /\ q.noalloc = p.noalloc /\ (p.noalloc => Len(q.bytes) = Len(p.bytes))
  BY DEF Follows
<1>2. Len(s) \in Nat /\ Len(t) \in Nat /\ INT_MAX \in Nat
  BY PrinterAssumption
<1>3. Len(q.bytes) \in Nat
  BY DEF Follows, Fine, Buffer
<1>4. CASE without # {}
  <2>1. more # {}
    BY <1>4
  <2> QED
    BY <1>1, <2>1 DEF Excused
<1>5. CASE Lacks(p, Len(s))
  <2>1. Lacks(q, Len(t))
    BY <1>1, <1>2, <1>3, <1>5 DEF Lacks
  <2> QED
    BY <1>1, <2>1 DEF Excused
<1> QED
  BY <1>4, <1>5 DEF Excused

\* A print that failed goes on to do so.
LEMMA FailedStill ==
  ASSUME NEW p, NEW q, Follows(p, q), ~p.ok, NEW s \in Seq(Character), NEW t \in Seq(Character),
         Len(s) <= Len(t), NEW without, NEW more, without \subseteq more,
         Written(p, s, without) \/ Pending(p, s, without)
  PROVE  Written(q, t, more) /\ Pending(q, t, more)
<1>1. Excused(p, s, without)
  BY DEF Written, Pending
<1>2. Excused(q, t, more) /\ ~q.ok
  BY <1>1, ExcusedStill
<1> QED
  BY <1>2 DEF Written, Pending

LEMMA EnsureLacks ==
  ASSUME NEW p, Fine(p), p.ok, p.bytes = <<>> \/ p.offset < Len(p.bytes), NEW needed \in Nat,
         NEW k \in Nat, needed + p.offset + 1 <= k + 2, ~ensure(p, needed).ok
  PROVE  Lacks(ensure(p, needed), k)
<1> DEFINE need == needed + p.offset + 1
           newsize == IF need > INT_MAX \div 2 THEN INT_MAX ELSE 2 * need
           kept == IF p.reallocate THEN Len(p.bytes) ELSE p.offset + 1
           Old(n) == IF n <= kept /\ n <= Len(p.bytes) THEN p.bytes[n] ELSE Garbage
           q == ensure(p, needed)
           lost == [p EXCEPT !.held = @ - 1, !.alive = FALSE, !.bytes = <<>>]
           grown == [p EXCEPT !.luck = @ - 1, !.bytes = [n \in 1..newsize |-> Old(n)]]
<1>1. /\ p \in Buffer /\ p.offset \in Nat /\ need \in Nat /\ p.alive /\ p.ok = TRUE
      /\ Len(p.bytes) \in Nat /\ p.noalloc \in BOOLEAN /\ INT_MAX \in Nat
  BY PrinterAssumption DEF Fine, Buffer
<1>2. q = IF ~p.alive \/ (p.bytes # <<>> /\ p.offset >= Len(p.bytes)) \/ needed > INT_MAX
          THEN Fail(p)
          ELSE IF need <= Len(p.bytes) THEN p
          ELSE IF p.noalloc \/ need > INT_MAX THEN Fail(p)
          ELSE IF p.luck = 0 THEN Fail(lost) ELSE grown
  BY Zenon DEF ensure
<1>3. grown.ok
  <2> DEFINE new == [n \in 1..newsize |-> Old(n)]
  <2>1. grown.ok = p.ok
    <3> HIDE DEF new
    <3> QED
      BY <1>1 DEF Buffer
  <2> QED
    BY <1>1, <2>1
<1>4. ~(p.bytes # <<>> /\ p.offset >= Len(p.bytes))
  BY <1>1
<1> HIDE DEF grown, q, lost
<1>5. \/ q = Fail(p) /\ (need > INT_MAX \/ (p.noalloc /\ need > Len(p.bytes)))
      \/ q = Fail(lost) /\ ~p.noalloc /\ p.luck = 0
  <2>1. needed > INT_MAX => need > INT_MAX
    BY <1>1
  <2>2. need <= Len(p.bytes) \/ need > Len(p.bytes)
    BY <1>1
  <2>3. q # p /\ q # grown
    BY <1>1, <1>3 DEF q
  <2> HIDE DEF need
  <2> QED
    BY <1>1, <1>2, <1>4, <2>1, <2>2, <2>3, Zenon
<1>6. CASE q = Fail(p) /\ (need > INT_MAX \/ (p.noalloc /\ need > Len(p.bytes)))
  <2>1. q.noalloc = p.noalloc /\ q.bytes = p.bytes
    BY <1>1, <1>6 DEF Fail, Buffer
  <2> QED
    BY <1>1, <1>6, <2>1 DEF Lacks, q
<1>7. CASE q = Fail(lost) /\ ~p.noalloc /\ p.luck = 0
  <2>1. q.noalloc = p.noalloc /\ q.luck = p.luck
    BY <1>1, <1>7 DEF Fail, Buffer, lost
  <2> QED
    BY <1>7, <2>1 DEF Lacks, q
<1> QED
  BY <1>5, <1>6, <1>7


LEMMA EmitLacks ==
  ASSUME NEW p, Fine(p), p.ok, p.bytes = <<>> \/ p.offset < Len(p.bytes), NEW needed \in Nat,
         NEW bytes \in Seq(Byte), Len(bytes) <= needed + 1, NEW step \in Nat,
         NEW k \in Nat, needed + p.offset + 1 <= k + 2, ~Emit(p, needed, bytes, step).ok
  PROVE  Lacks(Emit(p, needed, bytes, step), k)
<1> DEFINE room == ensure(p, needed)
           w == Write(room, room.offset, bytes)
           q == [w EXCEPT !.offset = @ + step]
<1>1. /\ Follows(p, room)
      /\ room.ok => room.offset = p.offset /\ needed + p.offset + 1 <= Len(room.bytes)
  BY EnsureFits
<1>2. CASE ~room.ok
  <2>1. Emit(p, needed, bytes, step) = room
    BY <1>2 DEF Emit
  <2>2. Lacks(room, k)
    BY <1>2, EnsureLacks
  <2> QED
    BY <2>1, <2>2
<1>3. CASE room.ok
  <2>1. Emit(p, needed, bytes, step) = q
    BY <1>3 DEF Emit
  <2>2. /\ p.offset \in Nat /\ Fine(room) /\ Len(bytes) \in Nat /\ Len(room.bytes) \in Nat
        /\ room.offset + Len(bytes) <= Len(room.bytes) /\ room.offset \in Nat
    BY <1>1, <1>3 DEF Fine, Follows, Buffer
  <2> HIDE DEF room
  <2>3. Follows(room, w) /\ w.ok = room.ok
    BY <2>2, WriteFits
  <2> HIDE DEF w
  <2>4. q.ok = w.ok
    BY <2>3 DEF Follows, Fine, Buffer
  <2> QED
    BY <1>3, <2>1, <2>3, <2>4
<1> QED
  BY <1>2, <1>3

\* What was shown stays, and the bytes of t come behind it.
LEMMA EmitShows ==
  ASSUME NEW p, Fine(p), p.ok, NEW s \in Seq(Character), Shows(p, s), p.offset = Len(s),
         NEW t \in Seq(Character), NEW bytes \in Seq(Byte), Len(t) <= Len(bytes),
         \A n \in 1..Len(t) : bytes[n] = t[n],
         NEW needed \in Nat, Len(bytes) <= needed + 1, NEW step, NEW q,
         Emits(p, q, needed, bytes, step), q.ok
  PROVE  Shows(q, s \o t)
<1> DEFINE l == Len(s)
           m == Len(t)
<1>1. /\ l \in Nat /\ m \in Nat /\ Len(s \o t) = l + m
      /\ \A n \in 1..(l + m) : (s \o t)[n] = IF n <= l THEN s[n] ELSE t[n - l]
      /\ Len(bytes) \in Nat
  BY JoinIs
<1>2. Len(q.bytes) \in Nat /\ Len(p.bytes) \in Nat
  BY DEF Emits, Follows, Fine, Buffer
<1>3. l + m <= Len(q.bytes)
  BY <1>1, <1>2 DEF Emits
<1>4. ASSUME NEW n \in 1..(l + m)
      PROVE  q.bytes[n] = (s \o t)[n]
  <2>1. CASE n <= l
    <3>1. n \in 1..Len(s) /\ n \in 1..Len(p.bytes) /\ n <= p.offset
      BY <1>1, <1>2, <2>1 DEF Shows
    <3>2. q.bytes[n] = p.bytes[n] /\ p.bytes[n] = s[n]
      BY <3>1 DEF Emits, Kept, Shows
    <3>3. (s \o t)[n] = s[n]
      BY <1>1, <2>1
    <3> QED
      BY <3>2, <3>3
  <2>2. CASE ~(n <= l)
    <3>1. n - l \in 1..m /\ n - l \in 1..Len(bytes) /\ p.offset + (n - l) = n
      BY <1>1, <2>2
    <3>2. q.bytes[p.offset + (n - l)] = bytes[n - l] /\ bytes[n - l] = t[n - l]
      BY <3>1 DEF Emits
    <3>3. (s \o t)[n] = t[n - l]
      BY <1>1, <2>2
    <3> QED
      BY <3>1, <3>2, <3>3
  <2> QED
    BY <2>1, <2>2
<1> HIDE DEF l, m
<1> QED
  BY <1>1, <1>3, <1>4 DEF Shows

LEMMA EmitWritten ==
  ASSUME NEW p, Fine(p), NEW s \in Seq(Character), NEW without, Written(p, s, without),
         NEW t \in Seq(Character), NEW needed \in Nat, Len(t) <= needed, needed <= Len(t) + 1
  PROVE  /\ Follows(p, Emit(p, needed, t, Len(t)))
         /\ Written(Emit(p, needed, t, Len(t)), s \o t, without)
<1> DEFINE q == Emit(p, needed, t, Len(t))
<1>1. /\ s \o t \in Seq(Character) /\ Len(s \o t) = Len(s) + Len(t)
      /\ Len(s) \in Nat /\ Len(t) \in Nat /\ t \in Seq(Byte)
  BY JoinIs, CharactersAreBytes
<1>2. Emits(p, q, needed, t, Len(t))
  BY <1>1, EmitFits
<1>3. Follows(p, q)
  BY <1>2 DEF Emits
<1>4. CASE ~p.ok
  <2> HIDE DEF q
  <2>1. Len(s) <= Len(s \o t) /\ without \subseteq without
    BY <1>1
  <2>2. Written(q, s \o t, without)
    BY <1>1, <1>3, <1>4, <2>1, FailedStill
  <2> QED
    BY <1>3, <2>2 DEF q
<1>5. CASE p.ok /\ q.ok
  <2> HIDE DEF q
  <2>1. without = {} /\ Shows(p, s) /\ p.offset = Len(s)
    BY <1>5 DEF Written
  <2>2. \A n \in 1..Len(t) : t[n] = t[n]
    OBVIOUS
  <2>3. Len(t) <= Len(t) /\ Len(t) <= needed + 1
    BY <1>1
  <2>4. Shows(q, s \o t)
    BY <1>1, <1>2, <1>5, <2>1, <2>2, <2>3, EmitShows
  <2>5. q.offset = Len(s \o t) /\ q.offset < Len(q.bytes)
    <3>1. q.offset = p.offset + Len(t) /\ needed + p.offset + 1 <= Len(q.bytes)
      BY <1>2, <1>5 DEF Emits
    <3>2. Len(q.bytes) \in Nat
      BY <1>3 DEF Follows, Fine, Buffer
    <3> QED
      BY <1>1, <2>1, <3>1, <3>2
  <2>6. Written(q, s \o t, without)
    BY <1>5, <2>1, <2>4, <2>5 DEF Written
  <2> QED
    BY <1>3, <2>6 DEF q
<1>6. CASE p.ok /\ ~q.ok
  <2>1. p.offset = Len(s) /\ (p.bytes = <<>> \/ p.offset < Len(p.bytes))
    BY <1>6 DEF Written
  <2>2. needed + p.offset + 1 <= Len(s \o t) + 2 /\ Len(s \o t) \in Nat /\ Len(t) <= needed + 1
    BY <1>1, <2>1
  <2>3. Lacks(q, Len(s \o t))
    BY <1>1, <1>6, <2>1, <2>2, EmitLacks
  <2> HIDE DEF q
  <2>4. Written(q, s \o t, without)
    BY <1>6, <2>3 DEF Written, Excused
  <2> QED
    BY <1>3, <2>4 DEF q
<1> QED
  BY <1>4, <1>5, <1>6

LEMMA EmitEnded ==
  ASSUME NEW p, Fine(p), NEW s \in Seq(Character), NEW without, Written(p, s, without),
         NEW t \in Seq(Character), NEW step \in Nat, step <= Len(t)
  PROVE  LET q == Emit(p, Len(t) + 1, Append(t, 0), step)
         IN /\ Follows(p, q) /\ Pending(q, s \o t, without)
            /\ step = Len(t) => Written(q, s \o t, without)
<1> DEFINE b == Append(t, 0)
           m == Len(t)
           needed == m + 1
           q == Emit(p, needed, b, step)
<1>1. /\ s \o t \in Seq(Character) /\ Len(s \o t) = Len(s) + m
      /\ Len(s) \in Nat /\ m \in Nat /\ t \in Seq(Byte)
  BY JoinIs, CharactersAreBytes
<1>2. b \in Seq(Byte) /\ Len(b) = m + 1 /\ b[m + 1] = 0 /\ \A n \in 1..m : b[n] = t[n]
  BY <1>1, ZeroEnded
<1>3. needed \in Nat /\ Len(b) <= needed + 1 /\ m <= Len(b)
  BY <1>1, <1>2
<1> HIDE DEF b
<1>4. Emits(p, q, needed, b, step)
  BY <1>2, <1>3, EmitFits
<1>5. Follows(p, q) /\ Len(q.bytes) \in Nat
  BY <1>4 DEF Emits, Follows, Fine, Buffer
<1>6. CASE ~p.ok
  <2> HIDE DEF q, m
  <2>1. Len(s) <= Len(s \o t) /\ without \subseteq without
    BY <1>1
  <2>2. Written(q, s \o t, without) /\ Pending(q, s \o t, without)
    BY <1>1, <1>5, <1>6, <2>1, FailedStill
  <2> QED
    BY <1>5, <2>2 DEF q, b, m
<1>7. CASE p.ok /\ q.ok
  <2> HIDE DEF q
  <2>1. without = {} /\ Shows(p, s) /\ p.offset = Len(s)
    BY <1>7 DEF Written
  <2>2. Shows(q, s \o t)
    BY <1>1, <1>2, <1>3, <1>4, <1>7, <2>1, EmitShows
  <2>3. q.offset = Len(s) + step /\ Len(s) + m + 1 < Len(q.bytes)
    <3>1. q.offset = p.offset + step /\ needed + p.offset + 1 <= Len(q.bytes)
      BY <1>4, <1>7 DEF Emits
    <3> QED
      BY <1>1, <1>5, <2>1, <3>1
  <2>4. q.bytes[Len(s \o t) + 1] = 0
    <3>1. m + 1 \in 1..Len(b) /\ p.offset + (m + 1) = Len(s \o t) + 1
      BY <1>1, <1>2, <2>1
    <3>2. q.bytes[p.offset + (m + 1)] = b[m + 1]
      BY <1>4, <1>7, <3>1 DEF Emits
    <3> QED
      BY <1>2, <3>1, <3>2
  <2>5. /\ q.offset <= Len(s \o t) /\ Len(s \o t) < Len(q.bytes)
        /\ q.offset < Len(q.bytes) /\ (step = m => q.offset = Len(s \o t))
    <3> HIDE DEF m
    <3>1. step <= m
      BY DEF m
    <3> QED
      BY <1>1, <1>5, <2>3, <3>1
  <2>6. Pending(q, s \o t, without)
    BY <1>7, <2>1, <2>2, <2>4, <2>5 DEF Pending
  <2>7. step = m => Written(q, s \o t, without)
    BY <1>7, <2>1, <2>2, <2>5 DEF Written
  <2> QED
    BY <1>5, <2>6, <2>7 DEF q, b, m
<1>8. CASE p.ok /\ ~q.ok
  <2>1. p.offset = Len(s) /\ (p.bytes = <<>> \/ p.offset < Len(p.bytes))
    BY <1>8 DEF Written
  <2>2. needed + p.offset + 1 <= Len(s \o t) + 2 /\ Len(s \o t) \in Nat
    BY <1>1, <2>1
  <2>3. Lacks(q, Len(s \o t))
    BY <1>2, <1>3, <1>8, <2>1, <2>2, EmitLacks
  <2> HIDE DEF q
  <2>4. Written(q, s \o t, without) /\ Pending(q, s \o t, without)
    BY <1>8, <2>3 DEF Written, Pending, Excused
  <2> QED
    BY <1>5, <2>4 DEF q, b, m
<1> QED
  BY <1>6, <1>7, <1>8

\* update_offset finds the end of what was written.
LEMMA MoveWritten ==
  ASSUME NEW p, Fine(p), NEW s \in Seq(Character), NEW without, Pending(p, s, without)
  PROVE  /\ Follows(p, update_offset(p)) /\ Written(update_offset(p), s, without)
         /\ update_offset(p).bytes = p.bytes /\ update_offset(p).luck = p.luck
         /\ update_offset(p).ok = p.ok
<1> DEFINE zeros == {n \in DOMAIN p.bytes : n > p.offset /\ p.bytes[n] = 0}
           end == Len(s) + 1
<1>1. /\ p \in Buffer /\ p.offset \in Nat /\ DOMAIN p.bytes = 1..Len(p.bytes) /\ Len(p.bytes) \in Nat
      /\ Len(s) \in Nat
  BY DEF Fine, Buffer
<1>2. CASE ~p.ok
  <2>1. update_offset(p) = p /\ Follows(p, p)
    BY <1>2 DEF update_offset, Follows
  <2>2. Written(p, s, without)
    BY <1>2 DEF Written, Pending
  <2> QED
    BY <2>1, <2>2
<1>3. CASE p.ok
  <2>1. /\ without = {} /\ Shows(p, s) /\ p.offset <= Len(s) /\ Len(s) < Len(p.bytes)
        /\ p.bytes[Len(s) + 1] = 0
    BY <1>3 DEF Pending
  <2>2. Ended(p)
    <3>1. end \in 1..Len(p.bytes) /\ end > p.offset /\ p.bytes[end] = 0
      BY <1>1, <2>1
    <3> QED
      BY <3>1 DEF Ended
  <2>3. Follows(p, update_offset(p))
    BY <2>2, OffsetMoves
  <2>4. end \in zeros /\ zeros \in SUBSET Nat
    BY <1>1, <2>1
  <2>5. \A n \in zeros : end <= n
    <3> SUFFICES ASSUME NEW n \in zeros, n < end
                 PROVE  FALSE
      BY <1>1, <2>4
    <3>1. n \in 1..Len(s)
      BY <1>1
    <3>2. p.bytes[n] = s[n] /\ s[n] \in Character
      BY <2>1, <3>1 DEF Shows
    <3> QED
      BY <3>2 DEF Character
  <2> HIDE DEF zeros
  <2>6. Min(zeros) = end
    <3> DEFINE m == Min(zeros)
    <3>1. m \in zeros /\ \A n \in zeros : m <= n
      BY <2>4, MinIs
    <3> HIDE DEF m, end
    <3>2. m \in Nat /\ end \in Nat /\ m <= end /\ end <= m
      BY <2>4, <2>5, <3>1
    <3>3. m = end
      BY <3>2
    <3> QED
      BY <3>3 DEF m
  <2>7. update_offset(p) = [p EXCEPT !.overrun = @ \/ zeros = {},
                                     !.offset = IF zeros = {} THEN @ ELSE Min(zeros) - 1]
    BY <1>3 DEF update_offset, zeros
  <2>8. /\ update_offset(p).offset = Len(s) /\ update_offset(p).bytes = p.bytes
        /\ update_offset(p).luck = p.luck /\ update_offset(p).ok = p.ok
    BY <1>1, <2>4, <2>6, <2>7 DEF Buffer
  <2>9. Written(update_offset(p), s, without)
    BY <1>1, <1>3, <2>1, <2>8 DEF Written, Shows
  <2> QED
    BY <2>3, <2>8, <2>9
<1> QED
  BY <1>2, <1>3

\* print_string_ptr prints the literal of the string.
LEMMA StringWritten ==
  ASSUME NEW p, Fine(p), NEW input \in CharPointer, NEW s \in Seq(Character), NEW without,
         Written(p, s, without)
  PROVE  Pending(print_string_ptr(p, input), s \o Literal(input), without)
<1> DEFINE string == IF input = NoText THEN <<>> ELSE input
           out == OutputLength(string)
           written == <<Quote>> \o Spelled(string)
           body == Emit(p, out + 3, written, 0)
           at == body.offset + out + 1
           q == Write(body, at, <<Quote, 0>>)
           t == Literal(input)
<1>1. print_string_ptr(p, input) = IF ~body.ok THEN body ELSE q
  BY Zenon DEF print_string_ptr
<1>2. /\ Spelled(string) \in Seq(Character) /\ t \in Seq(Character) /\ Len(t) = out + 2
      /\ t = written \o <<Quote>> /\ string \in Seq(Character)
  <2>1. string = IF input = NoText THEN <<>> ELSE input
    OBVIOUS
  <2> HIDE DEF string
  <2> QED
    BY <2>1, LiteralSpelled
<1>3. out \in Nat /\ Len(Spelled(string)) = out
  <2> HIDE DEF string
  <2> QED
    BY <1>2, CharactersAreBytes, SpelledIs
<1> HIDE DEF string
<1>4. /\ written \in Seq(Character) /\ written \in Seq(Byte) /\ Len(written) = out + 1
      /\ <<Quote>> \in Seq(Character) /\ Len(<<Quote>>) = 1
  <2> DEFINE spelled == Spelled(string)
  <2>1. Quote \in Character
    BY DEF Quote, Byte, Character
  <2>2. spelled \in Seq(Character) /\ Len(spelled) = out
    BY <1>2, <1>3
  <2> HIDE DEF spelled, out
  <2>3. <<Quote>> \o spelled \in Seq(Character) /\ Len(<<Quote>> \o spelled) = out + 1
    BY <1>3, <2>1, <2>2
  <2>4. written \in Seq(Character) /\ Len(written) = out + 1
    BY <2>3 DEF spelled
  <2>5. <<Quote>> \in Seq(Character) /\ Len(<<Quote>>) = 1
    BY <2>1
  <2> HIDE DEF written
  <2> QED
    BY <2>4, <2>5, CharactersAreBytes
<1> HIDE DEF written, t, out
<1>5. /\ Len(s) \in Nat /\ Len(s \o t) = Len(s) + out + 2 /\ s \o t \in Seq(Character)
      /\ s \o written \in Seq(Character) /\ Len(s \o written) = Len(s) + out + 1
      /\ s \o t = (s \o written) \o <<Quote>>
  <2>1. /\ Len(s) \in Nat /\ Len(s \o t) = Len(s) + Len(t) /\ s \o t \in Seq(Character)
        /\ s \o written \in Seq(Character) /\ Len(s \o written) = Len(s) + Len(written)
    BY <1>2, <1>4, JoinIs
  <2>2. s \o (written \o <<Quote>>) = (s \o written) \o <<Quote>>
    BY <1>4
  <2> QED
    BY <1>2, <1>3, <1>4, <2>1, <2>2
<1>6. Emits(p, body, out + 3, written, 0)
  <2>1. out + 3 \in Nat /\ Len(written) <= out + 3 + 1 /\ 0 \in Nat
    BY <1>3, <1>4
  <2> QED
    BY <1>4, <2>1, EmitFits
<1>7. CASE ~p.ok
  <2>1. Follows(p, print_string_ptr(p, input))
    BY StringPrints DEF Prints
  <2>2. Len(s) <= Len(s \o t) /\ without \subseteq without
    BY <1>3, <1>5
  <2> HIDE DEF body, q
  <2> QED
    BY <1>5, <1>7, <2>1, <2>2, FailedStill DEF t
<1>8. CASE p.ok /\ ~body.ok
  <2>1. p.offset = Len(s) /\ (p.bytes = <<>> \/ p.offset < Len(p.bytes))
    BY <1>8 DEF Written
  <2> DEFINE k == Len(s \o t)
             needed == out + 3
  <2>2. /\ needed + p.offset + 1 <= k + 2 /\ k \in Nat /\ Len(written) <= needed + 1
        /\ needed \in Nat /\ 0 \in Nat
    BY <1>3, <1>4, <1>5, <2>1
  <2>3. body = Emit(p, needed, written, 0)
    OBVIOUS
  <2> HIDE DEF body, needed, k
  <2>4. Lacks(body, k)
    BY <1>4, <1>8, <2>1, <2>2, <2>3, EmitLacks
  <2> QED
    BY <1>1, <1>8, <2>4 DEF Pending, Excused, k, t
<1>9. CASE p.ok /\ body.ok
  <2>1. without = {} /\ Shows(p, s) /\ p.offset = Len(s)
    BY <1>9 DEF Written
  <2> HIDE DEF body
  <2>2. /\ Fine(body) /\ body.offset = Len(s) /\ Len(body.bytes) \in Nat
        /\ out + 3 + Len(s) + 1 <= Len(body.bytes)
    <3>1. body.offset = p.offset + 0 /\ out + 3 + p.offset + 1 <= Len(body.bytes)
      BY <1>6, <1>9 DEF Emits
    <3>2. Fine(body) /\ Len(body.bytes) \in Nat
      BY <1>6 DEF Emits, Follows, Fine, Buffer
    <3> QED
      BY <1>5, <2>1, <3>1, <3>2
  <2>3. Shows(body, s \o written)
    <3> DEFINE needed == out + 3
    <3>1. /\ needed \in Nat /\ Len(written) <= needed + 1 /\ Len(written) <= Len(written)
          /\ \A n \in 1..Len(written) : written[n] = written[n]
      BY <1>3, <1>4
    <3>2. Emits(p, body, needed, written, 0)
      BY <1>6
    <3> HIDE DEF needed
    <3> QED
      BY <1>4, <1>9, <2>1, <3>1, <3>2, EmitShows
  <2>4. at = Len(s \o written) /\ at \in Nat /\ at + 2 < Len(body.bytes)
    BY <1>3, <1>5, <2>2
  <2> DEFINE end == <<Quote, 0>>
  <2>5. end \in Seq(Byte) /\ Len(end) = 2 /\ end[1] = Quote /\ end[2] = 0
    BY DEF Quote, Byte
  <2>6. q = Write(body, at, end)
    OBVIOUS
  <2> HIDE DEF end, at, q
  <2>7. /\ q.ok = body.ok /\ q.offset = body.offset /\ Len(q.bytes) = Len(body.bytes)
        /\ \A n \in 1..Len(end) : q.bytes[at + n] = end[n]
        /\ \A n \in 1..Len(body.bytes) : n <= at => q.bytes[n] = body.bytes[n]
    <3>1. at + Len(end) <= Len(body.bytes)
      BY <2>2, <2>4, <2>5
    <3> QED
      BY <2>2, <2>4, <2>5, <2>6, <3>1, WriteFits
  <2>8. q.bytes[at + 1] = Quote /\ q.bytes[at + 2] = 0
    BY <2>5, <2>7
  <2> DEFINE most == s \o written
             last == <<Quote>>
  <2>9. Shows(q, most \o last)
    <3>1. /\ most \in Seq(Character) /\ last \in Seq(Character) /\ Len(most) = at /\ Len(last) = 1
          /\ last[1] = Quote
      BY <1>4, <1>5, <2>4
    <3> HIDE DEF most, last
    <3>2. /\ Len(most \o last) = at + 1
          /\ \A n \in 1..(at + 1) : (most \o last)[n] = IF n <= at THEN most[n] ELSE last[n - at]
      <4>1. /\ Len(most \o last) = Len(most) + Len(last)
            /\ \A n \in 1..(Len(most) + Len(last)) :
                 (most \o last)[n] = IF n <= Len(most) THEN most[n] ELSE last[n - Len(most)]
        BY <3>1, JoinIs
      <4> QED
        BY <3>1, <4>1, Zenon
    <3>3. ASSUME NEW n \in 1..(at + 1)
          PROVE  q.bytes[n] = (most \o last)[n]
      <4>1. CASE n <= at
        <5>1. n \in 1..Len(most) /\ n \in 1..Len(body.bytes)
          BY <2>2, <2>4, <3>1, <4>1
        <5>2. q.bytes[n] = body.bytes[n] /\ body.bytes[n] = most[n]
          BY <2>3, <2>7, <4>1, <5>1 DEF Shows, most
        <5> QED
          BY <3>2, <4>1, <5>2
      <4>2. CASE ~(n <= at)
        <5>1. n = at + 1 /\ n - at = 1
          BY <2>4, <4>2
        <5>2. (most \o last)[n] = last[1]
          BY <3>2, <4>2, <5>1
        <5> QED
          BY <2>8, <3>1, <5>1, <5>2
      <4> QED
        BY <4>1, <4>2
    <3>4. at + 1 <= Len(q.bytes)
      BY <2>2, <2>4, <2>7
    <3> QED
      BY <3>2, <3>3, <3>4 DEF Shows
  <2>10. /\ q.offset <= Len(s \o t) /\ Len(s \o t) < Len(q.bytes) /\ q.bytes[Len(s \o t) + 1] = 0
    <3>1. Len(s \o t) + 1 = at + 2 /\ Len(s) <= Len(s \o t)
      BY <1>3, <1>5, <2>4
    <3>2. Len(s \o t) < Len(q.bytes)
      BY <1>3, <1>5, <2>2, <2>7
    <3> QED
      BY <2>2, <2>7, <2>8, <3>1, <3>2
  <2>11. Shows(q, s \o t)
    BY <1>5, <2>9
  <2> QED
    BY <1>1, <1>9, <2>1, <2>7, <2>10, <2>11 DEF Pending, t
<1> QED
  BY <1>7, <1>8, <1>9

\* An item that has no text makes the print fail.
LEMMA FailPending ==
  ASSUME NEW p, Fine(p), NEW s, NEW without, without # {}
  PROVE  Pending(Fail(p), s, without)
<1>1. ~Fail(p).ok
  BY DEF Fail, Fine, Buffer
<1> QED
  BY <1>1 DEF Pending, Excused

\* To go one level down or up changes nothing of that.
LEMMA NestWritten ==
  ASSUME NEW p, Fine(p), NEW n \in Int, p.depth + n \in Nat, NEW s, NEW without
  PROVE  /\ Written(p, s, without) => Written(Nest(p, n), s, without)
         /\ Pending(p, s, without) => Pending(Nest(p, n), s, without)
<1> DEFINE q == Nest(p, n)
<1>1. /\ q.ok = p.ok /\ q.offset = p.offset /\ q.bytes = p.bytes /\ q.luck = p.luck
      /\ q.noalloc = p.noalloc
  BY NestFits
<1> HIDE DEF q
<1>2. Shows(p, s) => Shows(q, s)
  BY <1>1 DEF Shows
<1>3. Excused(p, s, without) => Excused(q, s, without)
  BY <1>1 DEF Excused, Lacks
<1>4. Written(p, s, without) => Written(q, s, without)
  BY <1>1, <1>2, <1>3 DEF Written
<1>5. Pending(p, s, without) => Pending(q, s, without)
  BY <1>1, <1>2, <1>3 DEF Pending
<1> QED
  BY <1>4, <1>5 DEF q

\* The items among the parts that have no text.
NoTextIn(parts) == {part \in parts : HasNoText(part)}

\* What value does for the documents docs, whose texts are in texts and whose parts
\* are in within.
TextPrinter(value, docs, texts, within) ==
  /\ \A i \in docs, format \in BOOLEAN, depth \in Nat : texts[i][format][depth] \in Seq(Character)
  /\ \A q \in Buffer, i \in docs, s \in Seq(Character) : \A without :
       Fine(q) /\ Written(q, s, without) =>
         Pending(value[q][i], s \o texts[i][q.format][q.depth], without \cup NoTextIn(within[i]))

LEMMA Associates ==
  ASSUME NEW a \in Seq(Character), NEW b \in Seq(Character), NEW c \in Seq(Character)
  PROVE  /\ a \o b \in Seq(Character) /\ b \o c \in Seq(Character)
         /\ (a \o b) \o c = a \o (b \o c)
<1>1. a \o b \in Seq(Character) /\ b \o c \in Seq(Character)
  OBVIOUS
<1>2. (a \o b) \o c = a \o (b \o c)
  OBVIOUS
<1> QED
  BY <1>1, <1>2

\* What the first n of the sets have.
AllOf(sets, n) == UNION {sets[k] : k \in 1..n}

\* Each of the N steps from p prints its text.
Advances(p, upto, N, seqs, missing) ==
  \A n \in 1..N, s \in Seq(Character) : \A without :
    Follows(p, upto[n - 1]) /\ Written(upto[n - 1], s, without) =>
      Written(upto[n], s \o seqs[n], without \cup missing[n])

\* A list is printed when each of its n is: seqs are their texts, f[n] the texts of
\* the first n, and missing[n] the parts of the n-th that have no text.
LEMMA ListWritten ==
  ASSUME NEW N \in Nat, NEW upto, NEW p, NEW s0 \in Seq(Character), NEW W, Written(p, s0, W),
         upto[0] = p, \A n \in 0..N : Follows(p, upto[n]),
         NEW seqs, \A n \in 1..N : seqs[n] \in Seq(Character),
         NEW f \in [0..N -> Seq(Character)], f[0] = <<>>, \A n \in 1..N : f[n] = f[n - 1] \o seqs[n],
         NEW missing,
         Advances(p, upto, N, seqs, missing)
  PROVE  Written(upto[N], s0 \o f[N], W \cup AllOf(missing, N))
<1> DEFINE all(n) == W \cup AllOf(missing, n)
           T == {n \in 0..N : Written(upto[n], s0 \o f[n], all(n))}
<1>1. 0 \in T
  <2>1. s0 \o f[0] = s0 /\ 0 \in 0..N
    OBVIOUS
  <2>2. all(0) = W
    <3>1. 1..0 = {}
      OBVIOUS
    <3> QED
      BY <3>1, Zenon DEF AllOf
  <2> HIDE DEF all
  <2> QED
    BY <2>1, <2>2
<1>2. ASSUME NEW n \in 1..N, n - 1 \in T
      PROVE  n \in T
  <2>1. n - 1 \in 0..N /\ n \in 0..N /\ f[n - 1] \in Seq(Character) /\ seqs[n] \in Seq(Character)
    OBVIOUS
  <2> DEFINE s == s0 \o f[n - 1]
  <2>2. s \in Seq(Character) /\ s \o seqs[n] = s0 \o f[n]
    <3> DEFINE a == f[n - 1]
               b == seqs[n]
    <3>1. a \in Seq(Character) /\ b \in Seq(Character) /\ f[n] = a \o b
      BY <2>1
    <3> HIDE DEF a, b
    <3>2. s0 \o a \in Seq(Character) /\ (s0 \o a) \o b = s0 \o (a \o b)
      BY <3>1, Associates
    <3> QED
      BY <3>1, <3>2 DEF a, b
  <2>3. Written(upto[n - 1], s, all(n - 1)) /\ Follows(p, upto[n - 1])
    BY <1>2, <2>1
  <2>4. all(n - 1) \cup missing[n] = all(n)
    <3>1. 1..n = (1..(n - 1)) \cup {n}
      OBVIOUS
    <3> DEFINE S == 1..(n - 1)
    <3> HIDE DEF S
    <3>2. (W \cup (UNION {missing[k] : k \in S})) \cup missing[n]
            = W \cup (UNION {missing[k] : k \in S \cup {n}})
      OBVIOUS
    <3> QED
      BY <3>1, <3>2, Zenon DEF S, AllOf
  <2> HIDE DEF all, s
  <2>5. Written(upto[n], s \o seqs[n], all(n - 1) \cup missing[n])
    BY <2>2, <2>3 DEF Advances
  <2>6. Written(upto[n], s0 \o f[n], all(n))
    BY <2>2, <2>4, <2>5, Zenon
  <2> QED
    BY <2>1, <2>6
<1>3. 0..N \subseteq T
  <2> HIDE DEF T
  <2> QED
    BY <1>1, <1>2, ClimbTo
<1>4. N \in 0..N
  OBVIOUS
<1> QED
  BY <1>3, <1>4

LEMMA IfCharacters ==
  ASSUME NEW condition, NEW bytes \in Seq(Character)
  PROVE  If(condition, bytes) \in Seq(Character)
<1>1. <<>> \in Seq(Character)
  OBVIOUS
<1> QED
  BY <1>1 DEF If

LEMMA Signs ==
  /\ <<Quote>> \in Seq(Character) /\ <<Comma>> \in Seq(Character) /\ <<Colon>> \in Seq(Character)
  /\ <<Space>> \in Seq(Character) /\ <<Tab>> \in Seq(Character) /\ <<NewLine>> \in Seq(Character)
  /\ <<Open.Array>> \in Seq(Character) /\ <<Open.Object>> \in Seq(Character)
  /\ <<Close.Array>> \in Seq(Character) /\ <<Close.Object>> \in Seq(Character)
BY DEF Quote, Comma, Colon, Space, Tab, NewLine, Open, Close, Byte, Character

LEMMA CommaWritten ==
  ASSUME NEW p, Fine(p), NEW last \in BOOLEAN, NEW s \in Seq(Character), NEW without,
         Written(p, s, without)
  PROVE  Written(print_comma(p, last),
                 s \o If(~last, <<Comma>> \o If(p.format, <<Space>>)), without)
<1> DEFINE comma == <<Comma>> \o If(p.format, <<Space>>)
<1>1. CASE last
  <2>1. If(~last, comma) = <<>> /\ print_comma(p, last) = p
    BY <1>1 DEF If, print_comma
  <2>2. s \o <<>> = s
    OBVIOUS
  <2> QED
    BY <2>1, <2>2
<1>2. CASE ~last
  <2>1. comma \in Seq(Character) /\ Len(comma) \in Nat
    <3>1. If(p.format, <<Space>>) \in Seq(Character)
      BY Signs, IfCharacters
    <3> QED
      BY <3>1, Signs
  <2>2. If(~last, comma) = comma
    BY <1>2 DEF If
  <2>3. print_comma(p, last) = Emit(p, Len(comma) + 1, Append(comma, 0), Len(comma))
    BY <1>2 DEF print_comma
  <2> HIDE DEF comma
  <2>4. Len(comma) <= Len(comma)
    BY <2>1
  <2>5. Written(Emit(p, Len(comma) + 1, Append(comma, 0), Len(comma)), s \o comma, without)
    BY <2>1, <2>4, EmitEnded
  <2> QED
    BY <2>2, <2>3, <2>5 DEF comma
<1> QED
  BY <1>1, <1>2

LEMMA ValueWritten ==
  ASSUME NEW docs, NEW value, Printer(value, docs), NEW texts, NEW within,
         TextPrinter(value, docs, texts, within), NEW p, Fine(p), NEW kid \in docs,
         NEW s \in Seq(Character), NEW without, Written(p, s, without)
  PROVE  /\ texts[kid][p.format][p.depth] \in Seq(Character)
         /\ Follows(p, update_offset(value[p][kid]))
         /\ Written(update_offset(value[p][kid]), s \o texts[kid][p.format][p.depth],
                    without \cup NoTextIn(within[kid]))
<1> DEFINE v == value[p][kid]
           t == texts[kid][p.format][p.depth]
           r == update_offset(v)
           more == without \cup NoTextIn(within[kid])
<1>1. p \in Buffer /\ p.format \in BOOLEAN /\ p.depth \in Nat
  BY DEF Fine, Buffer
<1>2. t \in Seq(Character)
  BY <1>1, Zenon DEF TextPrinter
<1>3. Pending(v, s \o t, more)
  BY <1>1, Zenon DEF TextPrinter
<1>4. Prints(p, v)
  BY <1>1 DEF Printer
<1> HIDE DEF v, t, more
<1>5. s \o t \in Seq(Character) /\ Fine(v)
  BY <1>2, <1>4, JoinIs DEF Prints, Follows
<1>6. Written(r, s \o t, more)
  BY <1>3, <1>5, MoveWritten
<1>7. Follows(p, r)
  BY <1>4, PrintsMoves
<1> QED
  BY <1>2, <1>6, <1>7 DEF v, t, more

LEMMA ElementWritten ==
  ASSUME NEW docs, NEW value, Printer(value, docs), NEW texts, NEW within,
         TextPrinter(value, docs, texts, within), NEW p, Fine(p), NEW kid \in docs,
         NEW last \in BOOLEAN, NEW s \in Seq(Character), NEW without, Written(p, s, without)
  PROVE  Written(print_comma(update_offset(value[p][kid]), last),
                 s \o (texts[kid][p.format][p.depth]
                         \o If(~last, <<Comma>> \o If(p.format, <<Space>>))),
                 without \cup NoTextIn(within[kid]))
<1> DEFINE v == update_offset(value[p][kid])
           t == texts[kid][p.format][p.depth]
           more == without \cup NoTextIn(within[kid])
           comma == If(~last, <<Comma>> \o If(p.format, <<Space>>))
<1>1. t \in Seq(Character) /\ Follows(p, v) /\ Written(v, s \o t, more)
  BY ValueWritten
<1>2. comma \in Seq(Character)
  <2>1. If(p.format, <<Space>>) \in Seq(Character)
    BY Signs, IfCharacters
  <2>2. <<Comma>> \o If(p.format, <<Space>>) \in Seq(Character)
    BY <2>1, Signs
  <2> QED
    BY <2>2, IfCharacters
<1> HIDE DEF v, t, more
<1>3. Fine(v) /\ v.format = p.format /\ s \o t \in Seq(Character)
  BY <1>1, Associates DEF Follows
<1>4. Written(print_comma(v, last), (s \o t) \o comma, more)
  <2>1. Written(print_comma(v, last), (s \o t) \o If(~last, <<Comma>> \o If(v.format, <<Space>>)), more)
    BY <1>1, <1>3, CommaWritten
  <2> QED
    BY <1>3, <2>1
<1> HIDE DEF comma
<1>5. (s \o t) \o comma = s \o (t \o comma)
  BY <1>1, <1>2, Associates
<1>6. Written(print_comma(v, last), s \o (t \o comma), more)
  BY <1>4, <1>5
<1> QED
  BY <1>6 DEF v, t, more, comma

\* The texts of the elements and of the members of a document at a depth, and the
\* parts of all of them that have no text.
ElementTexts(doc, format, depth, texts) ==
  [n \in DOMAIN doc.kids |-> Place(doc, n, format, texts[doc.kids[n]][format][depth])]
MemberTexts(doc, format, depth, texts) ==
  [n \in DOMAIN doc.kids |-> Line(doc, n, format, depth, texts[doc.kids[n]][format][depth + 1])]
KidsMissing(doc, within) ==
  AllOf([n \in DOMAIN doc.kids |-> NoTextIn(within[doc.kids[n]])], Len(doc.kids))

LEMMA ElementsWritten ==
  ASSUME NEW docs, NEW value, Printer(value, docs), NEW texts, NEW within,
         TextPrinter(value, docs, texts, within), NEW p, Fine(p), NEW doc,
         doc.kids \in Seq(docs), NEW s0 \in Seq(Character), NEW W, Written(p, s0, W)
  PROVE  /\ FlattenSeq(ElementTexts(doc, p.format, p.depth, texts)) \in Seq(Character)
         /\ Written(print_elements(p, doc.kids, value),
                    s0 \o FlattenSeq(ElementTexts(doc, p.format, p.depth, texts)),
                    W \cup KidsMissing(doc, within))
<1> DEFINE kids == doc.kids
           N == Len(kids)
           seqs == ElementTexts(doc, p.format, p.depth, texts)
           missing == [n \in DOMAIN doc.kids |-> NoTextIn(within[doc.kids[n]])]
           Inner(n) == texts[kids[n]][p.format][p.depth]
           Sign(n) == If(~(n = N), <<Comma>> \o If(p.format, <<Space>>))
<1>1. N \in Nat /\ DOMAIN kids = 1..N /\ \A n \in 1..N : kids[n] \in docs
  OBVIOUS
<1>2. p.format \in BOOLEAN /\ p.depth \in Nat
  BY DEF Fine, Buffer
<1>3. ASSUME NEW n \in 1..N
      PROVE  seqs[n] = Inner(n) \o Sign(n) /\ seqs[n] \in Seq(Character)
  <2>1. seqs[n] = Place(doc, n, p.format, Inner(n))
    BY <1>1 DEF ElementTexts
  <2>2. (n < N) = (~(n = N))
    BY <1>1
  <2>3. seqs[n] = Inner(n) \o Sign(n)
    BY <2>1, <2>2 DEF Place
  <2>4. Inner(n) \in Seq(Character)
    <3>1. kids[n] \in docs
      BY <1>1
    <3> QED
      BY <1>2, <3>1, Zenon DEF TextPrinter
  <2>5. Sign(n) \in Seq(Character)
    <3>1. If(p.format, <<Space>>) \in Seq(Character)
      BY Signs, IfCharacters
    <3>2. <<Comma>> \o If(p.format, <<Space>>) \in Seq(Character)
      BY <3>1, Signs
    <3> QED
      BY <3>2, IfCharacters
  <2> HIDE DEF Inner, Sign
  <2>6. Inner(n) \o Sign(n) \in Seq(Character)
    BY <2>4, <2>5
  <2> QED
    BY <2>3, <2>6
<1>4. seqs \in Seq(Seq(Character)) /\ Len(seqs) = N
  <2>1. DOMAIN seqs = 1..N /\ seqs = [n \in 1..N |-> seqs[n]]
    BY <1>1 DEF ElementTexts
  <2>2. \A n \in 1..N : seqs[n] \in Seq(Character)
    BY <1>3
  <2> DEFINE S == Seq(Character)
  <2>3. \A n \in 1..N : seqs[n] \in S
    BY <2>2
  <2> HIDE DEF N, S, seqs, Inner, Sign
  <2>4. seqs \in Seq(S) /\ Len(seqs) = N
    BY <1>1, <2>1, <2>3
  <2> QED
    BY <2>4 DEF S
<1> HIDE DEF seqs
<1>5. PICK f \in [0..N -> Seq(Character)] : Joins(f, seqs) /\ FlattenSeq(seqs) = f[N]
  BY <1>4, FlattenedIs
<1>6. f[0] = <<>> /\ \A n \in 1..N : f[n] = f[n - 1] \o seqs[n]
  BY <1>4, <1>5 DEF Joins
<1>7. PICK upto : /\ print_elements(p, kids, value) = upto[N] /\ upto[0] = p
                  /\ \A n \in 0..N : Follows(p, upto[n])
                  /\ \A n \in 1..N : upto[n] = print_comma(update_offset(value[upto[n - 1]][kids[n]]), n = N)
  <2>1. kids \in Seq(docs)
    OBVIOUS
  <2> HIDE DEF kids
  <2> QED
    BY <2>1, ElementsAre
<1>8. ASSUME NEW n \in 1..N, NEW s \in Seq(Character), NEW without,
             Follows(p, upto[n - 1]), Written(upto[n - 1], s, without)
      PROVE  Written(upto[n], s \o seqs[n], without \cup missing[n])
  <2> DEFINE q == upto[n - 1]
             kid == kids[n]
             last == n = N
  <2>1. /\ Fine(q) /\ q.format = p.format /\ q.depth = p.depth /\ kid \in docs
        /\ last \in BOOLEAN /\ Written(q, s, without)
    BY <1>1, <1>8 DEF Follows
  <2>2. upto[n] = print_comma(update_offset(value[q][kid]), last)
    BY <1>7
  <2>3. missing[n] = NoTextIn(within[kid])
    BY <1>1
  <2>4. seqs[n] = texts[kid][p.format][p.depth] \o If(~last, <<Comma>> \o If(p.format, <<Space>>))
    BY <1>3
  <2> HIDE DEF q, kid, last, missing
  <2>5. Written(print_comma(update_offset(value[q][kid]), last),
                s \o (texts[kid][q.format][q.depth]
                        \o If(~last, <<Comma>> \o If(q.format, <<Space>>))),
                without \cup NoTextIn(within[kid]))
    BY <2>1, ElementWritten
  <2> QED
    BY <2>1, <2>2, <2>3, <2>4, <2>5
<1> HIDE DEF N, missing
<1>9. Written(upto[N], s0 \o f[N], W \cup AllOf(missing, N))
  <2>1. \A n \in 1..N : seqs[n] \in Seq(Character)
    BY <1>3
  <2> HIDE DEF Inner, Sign
  <2>2. Advances(p, upto, N, seqs, missing)
    BY <1>8 DEF Advances
  <2>3. /\ N \in Nat /\ upto[0] = p /\ \A n \in 0..N : Follows(p, upto[n])
        /\ f \in [0..N -> Seq(Character)] /\ f[0] = <<>> /\ \A n \in 1..N : f[n] = f[n - 1] \o seqs[n]
    BY <1>1, <1>5, <1>6, <1>7
  <2> QED
    BY <2>1, <2>2, <2>3, ListWritten
<1>10. f[N] \in Seq(Character)
  <2>1. N \in 0..N
    BY <1>1
  <2> QED
    BY <1>5, <2>1
<1> QED
  BY <1>5, <1>7, <1>9, <1>10 DEF N, seqs, missing, KidsMissing

LEMMA AssociatesTwice ==
  ASSUME NEW s \in Seq(Character), NEW a \in Seq(Character), NEW b \in Seq(Character),
         NEW c \in Seq(Character), NEW whole, whole = a \o b \o c
  PROVE  whole \in Seq(Character) /\ ((s \o a) \o b) \o c = s \o whole
<1>1. whole \in Seq(Character)
  OBVIOUS
<1>2. ((s \o a) \o b) \o c = s \o whole
  OBVIOUS
<1> QED
  BY <1>1, <1>2

LEMMA ClosesEnded ==
  ASSUME NEW c \in Byte
  PROVE  Append(<<c>>, 0) = <<c, 0>> /\ Len(<<c>>) = 1
<1> DEFINE s == Append(<<c>>, 0)
           t == <<c, 0>>
<1>1. 0 \in Byte
  BY DEF Byte
<1>2. s \in Seq(Byte) /\ Len(s) = 2 /\ s[1] = c /\ s[2] = 0
  BY <1>1
<1>3. t \in Seq(Byte) /\ Len(t) = 2 /\ t[1] = c /\ t[2] = 0
  BY <1>1
<1> HIDE DEF s, t
<1>4. \A i \in 1..Len(s) : s[i] = t[i]
  BY <1>2, <1>3
<1>5. s = t
  BY <1>2, <1>3, <1>4, SeqEqual
<1> QED
  BY <1>5 DEF s, t

LEMMA ArrayWritten ==
  ASSUME NEW docs, NEW value, Printer(value, docs), NEW texts, NEW within,
         TextPrinter(value, docs, texts, within), NEW p, Fine(p), NEW doc, doc.type = "Array",
         doc.kids \in Seq(docs), NEW s \in Seq(Character), NEW W, Written(p, s, W)
  PROVE  /\ Compose(doc, p.format, p.depth, texts) \in Seq(Character)
         /\ Pending(print_array(p, doc, value), s \o Compose(doc, p.format, p.depth, texts),
                    W \cup KidsMissing(doc, within))
<1> DEFINE open == Emit(p, 1, <<Open.Array>>, 1)
           opened == Nest(open, 1)
           elements == print_elements(opened, doc.kids, value)
           close == Emit(elements, 2, <<Close.Array, 0>>, 0)
           first == <<Open.Array>>
           last == <<Close.Array>>
           seqs == ElementTexts(doc, p.format, p.depth + 1, texts)
           inner == FlattenSeq(seqs)
           all == W \cup KidsMissing(doc, within)
<1>1. print_array(p, doc, value) = Nest(close, -1)
  BY Zenon DEF print_array
<1>2. Compose(doc, p.format, p.depth, texts) = first \o inner \o last
  <2>1. "Array" \notin DOMAIN Word
    BY DEF Word
  <2> QED
    BY <2>1 DEF Compose, ElementTexts
<1>3. /\ first \in Seq(Character) /\ Len(first) = 1 /\ last \in Seq(Character) /\ Len(last) = 1
      /\ Append(last, 0) = <<Close.Array, 0>>
  <2>1. first \in Seq(Character) /\ last \in Seq(Character)
    BY Signs
  <2>2. Open.Array \in Byte /\ Close.Array \in Byte
    BY DEF Open, Close, Byte
  <2>3. Len(first) = 1 /\ Len(last) = 1 /\ Append(last, 0) = <<Close.Array, 0>>
    BY <2>2, ClosesEnded
  <2> QED
    BY <2>1, <2>2, <2>3
<1>4. Follows(p, open) /\ Written(open, s \o first, W)
  <2>1. open = Emit(p, 1, first, Len(first)) /\ Len(first) <= 1 /\ 1 <= Len(first) + 1 /\ 1 \in Nat
    BY <1>3
  <2> HIDE DEF open, first
  <2> QED
    BY <1>3, <2>1, EmitWritten
<1> HIDE DEF open, first
<1>5. /\ Fine(opened) /\ opened.depth = p.depth + 1 /\ opened.format = p.format
      /\ opened.noalloc = p.noalloc /\ Written(opened, s \o first, W)
  <2>1. Fine(open) /\ open.depth = p.depth /\ p.depth \in Nat /\ open.depth + 1 \in Nat /\ 1 \in Int
    BY <1>4 DEF Follows, Fine
  <2> QED
    BY <1>4, <2>1, NestFits, NestWritten DEF Follows
<1> HIDE DEF opened
<1>6. Follows(opened, elements)
  BY <1>5, ElementsFollow
<1>7. inner \in Seq(Character) /\ Written(elements, (s \o first) \o inner, all)
  <2>1. seqs = ElementTexts(doc, opened.format, opened.depth, texts)
    BY <1>5
  <2>2. PICK t \in Seq(Character) : t = s \o first
    BY <1>3, Associates
  <2>3. Written(opened, t, W)
    BY <1>5, <2>2
  <2> HIDE DEF seqs
  <2>4. FlattenSeq(seqs) \in Seq(Character) /\ Written(elements, t \o FlattenSeq(seqs), all)
    BY <1>5, <2>1, <2>3, ElementsWritten
  <2> QED
    BY <2>2, <2>4
<1> HIDE DEF elements, seqs, inner, all
<1>8. Follows(elements, close) /\ Pending(close, ((s \o first) \o inner) \o last, all)
  <2> DEFINE t == (s \o first) \o inner
  <2>1. t \in Seq(Character)
    BY <1>3, <1>7, Associates
  <2>2. close = Emit(elements, Len(last) + 1, Append(last, 0), 0) /\ 0 \in Nat /\ 0 <= Len(last)
    <3>1. Len(last) + 1 = 2 /\ 0 <= Len(last)
      BY <1>3
    <3> HIDE DEF last
    <3> QED
      BY <1>3, <3>1
  <2>3. Fine(elements) /\ Written(elements, t, all)
    BY <1>6, <1>7 DEF Follows
  <2> HIDE DEF t, close, last
  <2>4. Follows(elements, close) /\ Pending(close, t \o last, all)
    BY <1>3, <2>1, <2>2, <2>3, EmitEnded
  <2> QED
    BY <2>4 DEF t
<1> HIDE DEF close, last
<1>9. Pending(Nest(close, -1), ((s \o first) \o inner) \o last, all)
  <2>1. Fine(close) /\ close.depth = p.depth + 1 /\ p.depth \in Nat
    BY <1>5, <1>6, <1>8 DEF Follows, Fine
  <2>2. close.depth + (-1) \in Nat /\ -1 \in Int
    BY <2>1
  <2> DEFINE t == ((s \o first) \o inner) \o last
  <2>3. Pending(close, t, all)
    BY <1>8
  <2> HIDE DEF t
  <2>4. Pending(Nest(close, -1), t, all)
    BY <2>1, <2>2, <2>3, NestWritten
  <2> QED
    BY <2>4 DEF t
<1>10. PICK whole : whole = Compose(doc, p.format, p.depth, texts)
  OBVIOUS
<1>11. whole \in Seq(Character) /\ ((s \o first) \o inner) \o last = s \o whole
  <2>1. PICK a \in Seq(Character) : a = first
    BY <1>3
  <2>2. PICK b \in Seq(Character) : b = inner
    BY <1>7
  <2>3. PICK c \in Seq(Character) : c = last
    BY <1>3
  <2>4. whole = a \o b \o c
    BY <1>2, <1>10, <2>1, <2>2, <2>3
  <2>5. whole \in Seq(Character) /\ ((s \o a) \o b) \o c = s \o whole
    BY <2>4, AssociatesTwice
  <2> QED
    BY <2>1, <2>2, <2>3, <2>5
<1> QED
  BY <1>1, <1>9, <1>10, <1>11 DEF all

\* t is a and then b, for the provers: of many concatenations in one place they lose track.
Glued(t, a, b) == t = a \o b

LEMMA GluedIs ==
  ASSUME NEW a \in Seq(Character), NEW b \in Seq(Character)
  PROVE  \E t \in Seq(Character) : Glued(t, a, b)
<1>1. a \o b \in Seq(Character)
  OBVIOUS
<1> QED
  BY <1>1 DEF Glued

LEMMA GluedAgain ==
  ASSUME NEW a \in Seq(Character), NEW b \in Seq(Character), NEW c \in Seq(Character),
         NEW t, Glued(t, b, c), NEW u, Glued(u, a, b), NEW v, Glued(v, u, c)
  PROVE  Glued(v, a, t)
BY DEF Glued

LEMMA GluedUndone ==
  ASSUME NEW a \in Seq(Character), NEW b \in Seq(Character), NEW c \in Seq(Character),
         NEW t, Glued(t, b, c), NEW u, Glued(u, a, b), NEW v, Glued(v, a, t)
  PROVE  Glued(v, u, c)
BY DEF Glued

LEMMA TabsCharacters ==
  ASSUME NEW n \in Nat
  PROVE  Tabs(n) \in Seq(Character) /\ Len(Tabs(n)) = n
<1>1. Tab \in Character
  BY DEF Tab, Byte, Character
<1> QED
  BY <1>1 DEF Tabs

\* A member is printed to p: the indentation, the name, the colon, the value, the end.
LEMMA MemberWritten ==
  ASSUME NEW docs, Named(docs), NEW value, Printer(value, docs), NEW texts, NEW within,
         TextPrinter(value, docs, texts, within), NEW p, Fine(p), NEW kid \in docs,
         NEW last \in BOOLEAN, NEW s \in Seq(Character), NEW W, Written(p, s, W),
         NEW line, line = If(p.format, Tabs(p.depth)) \o Literal(kid.string) \o <<Colon>>
                            \o If(p.format, <<Tab>>) \o texts[kid][p.format][p.depth]
                            \o If(~last, <<Comma>>) \o If(p.format, <<NewLine>>)
  PROVE  /\ line \in Seq(Character)
         /\ Written(print_member(p, kid, last, value), s \o line, W \cup NoTextIn(within[kid]))
<1> DEFINE indented == IF p.format THEN Emit(p, p.depth, Tabs(p.depth), p.depth) ELSE p
           name == print_string_ptr(indented, kid.string)
           named == update_offset(name)
           colon == <<Colon>> \o If(p.format, <<Tab>>)
           colons == Emit(named, Len(colon), colon, Len(colon))
           valued == update_offset(value[colons][kid])
           end == If(~last, <<Comma>>) \o If(p.format, <<NewLine>>)
           all == Emit(valued, Len(end) + 1, Append(end, 0), Len(end))
<1>1. print_member(p, kid, last, value) = all
  BY Zenon DEF print_member
<1>2. PICK a \in Seq(Character) : a = If(p.format, Tabs(p.depth))
  <2>1. p.depth \in Nat
    BY DEF Fine
  <2> QED
    BY <2>1, TabsCharacters, IfCharacters
<1>3. PICK b \in Seq(Character) : b = Literal(kid.string)
  <2>1. kid.string \in CharPointer
    BY DEF Named
  <2> QED
    BY <2>1, LiteralSpelled
<1>4. PICK d \in Seq(Character) : d = If(p.format, <<Tab>>)
  BY Signs, IfCharacters
<1>5. PICK f \in Seq(Character) : f = If(~last, <<Comma>>)
  BY Signs, IfCharacters
<1>6. PICK g \in Seq(Character) : g = If(p.format, <<NewLine>>)
  BY Signs, IfCharacters
<1>7. PICK c \in Seq(Character) : c = <<Colon>>
  BY Signs
<1>8. /\ Glued(colon, c, d) /\ colon \in Seq(Character) /\ Len(colon) \in Nat
      /\ Glued(end, f, g) /\ end \in Seq(Character) /\ Len(end) \in Nat
  <2>1. Glued(colon, c, d) /\ Glued(end, f, g)
    BY <1>4, <1>5, <1>6, <1>7 DEF Glued
  <2> HIDE DEF colon, end
  <2>2. colon \in Seq(Character) /\ end \in Seq(Character)
    BY <2>1 DEF Glued
  <2> QED
    BY <2>1, <2>2
<1> HIDE DEF colon, end
<1>20. PICK one \in Seq(Character) : Glued(one, s, a)
  BY GluedIs
<1>21. PICK two \in Seq(Character) : Glued(two, one, b)
  BY GluedIs
<1>22. PICK three \in Seq(Character) : Glued(three, two, colon)
  BY <1>8, GluedIs
<1>9. Follows(p, indented) /\ Written(indented, one, W)
  <2>1. CASE p.format
    <3>1. p.depth \in Nat
      BY DEF Fine
    <3>2. a = Tabs(p.depth) /\ Len(a) = p.depth
      BY <1>2, <2>1, <3>1, TabsCharacters DEF If
    <3>3. Len(a) <= p.depth /\ p.depth <= Len(a) + 1
      BY <3>1, <3>2
    <3>4. Follows(p, Emit(p, p.depth, a, Len(a))) /\ Written(Emit(p, p.depth, a, Len(a)), s \o a, W)
      BY <3>1, <3>3, EmitWritten
    <3>5. indented = Emit(p, p.depth, a, Len(a))
      BY <2>1, <3>2
    <3> QED
      BY <1>20, <3>4, <3>5 DEF Glued
  <2>2. CASE ~p.format
    <3>1. a = <<>> /\ indented = p
      BY <1>2, <2>2 DEF If
    <3>2. s \o <<>> = s
      OBVIOUS
    <3> QED
      BY <1>20, <3>1, <3>2 DEF Follows, Glued
  <2> QED
    BY <2>1, <2>2
<1> HIDE DEF indented
<1>10. Follows(p, named) /\ Written(named, two, W)
  <2>1. Fine(indented) /\ kid.string \in CharPointer
    BY <1>9 DEF Follows, Named
  <2>2. Pending(name, one \o b, W) /\ Prints(indented, name)
    BY <1>3, <1>9, <2>1, StringWritten, StringPrints
  <2> HIDE DEF name
  <2>3. Pending(name, two, W)
    BY <1>21, <2>2 DEF Glued
  <2>4. Fine(name)
    BY <2>2 DEF Prints, Follows
  <2>5. Written(named, two, W)
    BY <2>3, <2>4, MoveWritten
  <2>6. Follows(indented, named)
    BY <2>2, PrintsMoves
  <2> HIDE DEF named
  <2>7. Follows(p, named)
    BY <1>9, <2>6, FollowsOn
  <2> QED
    BY <2>5, <2>7
<1> HIDE DEF named
<1>11. Follows(p, colons) /\ Written(colons, three, W)
  <2>1. Fine(named) /\ Len(colon) <= Len(colon) /\ Len(colon) <= Len(colon) + 1
    BY <1>8, <1>10 DEF Follows
  <2>2. Follows(named, colons) /\ Written(colons, two \o colon, W)
    BY <1>8, <1>10, <2>1, EmitWritten
  <2> HIDE DEF colons
  <2>3. Follows(p, colons)
    BY <1>10, <2>2, FollowsOn
  <2> QED
    BY <1>22, <2>2, <2>3 DEF Glued
<1> HIDE DEF colons
<1>13. Fine(colons) /\ colons.format = p.format /\ colons.depth = p.depth
  BY <1>11 DEF Follows
<1>14. PICK e \in Seq(Character) :
         /\ e = texts[kid][p.format][p.depth]
         /\ Follows(colons, valued) /\ Written(valued, three \o e, W \cup NoTextIn(within[kid]))
  <2>1. /\ texts[kid][colons.format][colons.depth] \in Seq(Character)
        /\ Follows(colons, valued)
        /\ Written(valued, three \o texts[kid][colons.format][colons.depth],
                   W \cup NoTextIn(within[kid]))
    BY <1>11, <1>13, ValueWritten
  <2> HIDE DEF valued
  <2> QED
    BY <1>13, <2>1
<1> HIDE DEF valued
<1>23. PICK four \in Seq(Character) : Glued(four, three, e)
  BY GluedIs
<1>24. PICK five \in Seq(Character) : Glued(five, four, end)
  BY <1>8, GluedIs
<1>15. Written(all, five, W \cup NoTextIn(within[kid]))
  <2>1. PICK more : more = W \cup NoTextIn(within[kid])
    OBVIOUS
  <2>2. Fine(valued) /\ Written(valued, four, more) /\ Len(end) <= Len(end)
    <3>1. Fine(valued) /\ Len(end) <= Len(end)
      BY <1>8, <1>14 DEF Follows
    <3>2. Written(valued, four, more)
      BY <1>14, <1>23, <2>1, Zenon DEF Glued
    <3> QED
      BY <3>1, <3>2
  <2>3. Written(all, four \o end, more)
    BY <1>8, <2>2, EmitEnded
  <2> QED
    BY <1>24, <2>1, <2>3 DEF Glued
<1> HIDE DEF all
<1>16. PICK t \in Seq(Character) : Glued(t, a, b)
  BY GluedIs
<1>17. PICK u \in Seq(Character) : Glued(u, t, c)
  BY GluedIs
<1>18. PICK v \in Seq(Character) : Glued(v, u, d)
  BY GluedIs
<1>25. PICK w \in Seq(Character) : Glued(w, v, e)
  BY GluedIs
<1>26. PICK y \in Seq(Character) : Glued(y, w, f)
  BY GluedIs
<1>27. PICK z \in Seq(Character) : Glued(z, y, g)
  BY GluedIs
<1>28. line = z
  <2>1. e = texts[kid][p.format][p.depth]
    BY <1>14
  <2>2. line = a \o b \o c \o d \o e \o f \o g
    <3>1. /\ If(p.format, Tabs(p.depth)) = a /\ Literal(kid.string) = b /\ <<Colon>> = c
          /\ If(p.format, <<Tab>>) = d /\ texts[kid][p.format][p.depth] = e
          /\ If(~last, <<Comma>>) = f /\ If(p.format, <<NewLine>>) = g
      BY <1>2, <1>3, <1>4, <1>5, <1>6, <1>7, <2>1
    <3>2. line = a \o Literal(kid.string) \o <<Colon>> \o If(p.format, <<Tab>>)
                  \o texts[kid][p.format][p.depth] \o If(~last, <<Comma>>) \o If(p.format, <<NewLine>>)
      BY <3>1, Zenon
    <3>3. line = a \o b \o <<Colon>> \o If(p.format, <<Tab>>)
                  \o texts[kid][p.format][p.depth] \o If(~last, <<Comma>>) \o If(p.format, <<NewLine>>)
      BY <3>2, <3>1, Zenon
    <3>4. line = a \o b \o c \o If(p.format, <<Tab>>)
                  \o texts[kid][p.format][p.depth] \o If(~last, <<Comma>>) \o If(p.format, <<NewLine>>)
      BY <3>3, <3>1, Zenon
    <3>5. line = a \o b \o c \o d
                  \o texts[kid][p.format][p.depth] \o If(~last, <<Comma>>) \o If(p.format, <<NewLine>>)
      BY <3>4, <3>1, Zenon
    <3>6. line = a \o b \o c \o d \o e
                  \o If(~last, <<Comma>>) \o If(p.format, <<NewLine>>)
      BY <3>5, <3>1, Zenon
    <3>7. line = a \o b \o c \o d \o e \o f \o If(p.format, <<NewLine>>)
      BY <3>6, <3>1, Zenon
    <3> QED
      BY <1>6, <3>7, Zenon
  <2>3. /\ a \o b = t /\ t \o c = u /\ u \o d = v /\ v \o e = w /\ w \o f = y /\ y \o g = z
    BY <1>16, <1>17, <1>18, <1>25, <1>26, <1>27 DEF Glued
  <2>4. line = t \o c \o d \o e \o f \o g
    BY <2>2, <2>3, Zenon
  <2>5. line = v \o e \o f \o g
    BY <2>3, <2>4, Zenon
  <2> QED
    BY <2>3, <2>5, Zenon
<1>29. Glued(five, s, z)
  <2>1. Glued(two, s, t)
    BY <1>16, <1>20, <1>21, GluedAgain
  <2>2. PICK x \in Seq(Character) : Glued(x, two, c)
    BY GluedIs
  <2>3. Glued(x, s, u)
    BY <1>17, <2>1, <2>2, GluedAgain
  <2>4. Glued(three, x, d)
    BY <1>8, <1>22, <2>2, GluedUndone
  <2>5. Glued(three, s, v)
    BY <1>18, <2>3, <2>4, GluedAgain
  <2>6. Glued(four, s, w)
    BY <1>23, <1>25, <2>5, GluedAgain
  <2>7. PICK r \in Seq(Character) : Glued(r, four, f)
    BY GluedIs
  <2>8. Glued(r, s, y)
    BY <1>26, <2>6, <2>7, GluedAgain
  <2>9. Glued(five, r, g)
    BY <1>8, <1>24, <2>7, GluedUndone
  <2> QED
    BY <1>27, <2>8, <2>9, GluedAgain
<1> QED
  BY <1>1, <1>15, <1>28, <1>29, Zenon DEF Glued

LEMMA MembersWritten ==
  ASSUME NEW docs, Named(docs), NEW value, Printer(value, docs), NEW texts, NEW within,
         TextPrinter(value, docs, texts, within), NEW p, Fine(p), NEW depth \in Nat,
         p.depth = depth + 1, NEW doc, doc.kids \in Seq(docs),
         NEW s0 \in Seq(Character), NEW W, Written(p, s0, W)
  PROVE  /\ FlattenSeq(MemberTexts(doc, p.format, depth, texts)) \in Seq(Character)
         /\ Written(print_members(p, doc.kids, value),
                    s0 \o FlattenSeq(MemberTexts(doc, p.format, depth, texts)),
                    W \cup KidsMissing(doc, within))
<1> DEFINE kids == doc.kids
           N == Len(kids)
           seqs == MemberTexts(doc, p.format, depth, texts)
           missing == [n \in DOMAIN doc.kids |-> NoTextIn(within[doc.kids[n]])]
<1>1. N \in Nat /\ DOMAIN kids = 1..N /\ \A n \in 1..N : kids[n] \in docs
  OBVIOUS
<1>2. p.format \in BOOLEAN /\ p.depth \in Nat
  BY DEF Fine, Buffer
<1>3. ASSUME NEW n \in 1..N, NEW q, Follows(p, q), NEW s \in Seq(Character), NEW without,
             Written(q, s, without)
      PROVE  /\ seqs[n] \in Seq(Character)
             /\ Written(print_member(q, kids[n], n = N, value), s \o seqs[n], without \cup missing[n])
  <2> DEFINE kid == kids[n]
             last == n = N
             line == seqs[n]
  <2>1. /\ Fine(q) /\ q.format = p.format /\ q.depth = depth + 1 /\ kid \in docs
        /\ last \in BOOLEAN
    BY <1>1, <1>3 DEF Follows
  <2>2. line = Line(doc, n, p.format, depth, texts[kid][p.format][depth + 1])
    BY <1>1 DEF MemberTexts
  <2>3. (n < N) = (~last)
    BY <1>1
  <2>4. line = If(p.format, Tabs(depth + 1)) \o Literal(kid.string) \o <<Colon>>
                 \o If(p.format, <<Tab>>) \o texts[kid][p.format][depth + 1]
                 \o If(~last, <<Comma>>) \o If(p.format, <<NewLine>>)
    BY <2>2, <2>3, Zenon DEF Line
  <2>5. missing[n] = NoTextIn(within[kid])
    BY <1>1
  <2> HIDE DEF kid, last, line, missing
  <2>6. line = If(q.format, Tabs(q.depth)) \o Literal(kid.string) \o <<Colon>>
                 \o If(q.format, <<Tab>>) \o texts[kid][q.format][q.depth]
                 \o If(~last, <<Comma>>) \o If(q.format, <<NewLine>>)
    BY <2>1, <2>4, Zenon
  <2>7. PICK whole : whole = line
    OBVIOUS
  <2>8. whole = If(q.format, Tabs(q.depth)) \o Literal(kid.string) \o <<Colon>>
                  \o If(q.format, <<Tab>>) \o texts[kid][q.format][q.depth]
                  \o If(~last, <<Comma>>) \o If(q.format, <<NewLine>>)
    BY <2>6, <2>7, Zenon
  <2>9. /\ whole \in Seq(Character)
        /\ Written(print_member(q, kid, last, value), s \o whole, without \cup NoTextIn(within[kid]))
    BY <1>3, <2>1, <2>8, MemberWritten
  <2> QED
    BY <2>5, <2>7, <2>9 DEF kid, last, line
<1>4. seqs \in Seq(Seq(Character)) /\ Len(seqs) = N
  <2>1. DOMAIN seqs = 1..N /\ seqs = [n \in 1..N |-> seqs[n]]
    BY <1>1 DEF MemberTexts
  <2> DEFINE S == Seq(Character)
  <2>2. Follows(p, p)
    BY DEF Follows
  <2>3. \A n \in 1..N : seqs[n] \in S
    BY <1>3, <2>2
  <2> HIDE DEF N, S, seqs
  <2>4. seqs \in Seq(S) /\ Len(seqs) = N
    BY <1>1, <2>1, <2>3
  <2> QED
    BY <2>4 DEF S
<1> HIDE DEF seqs
<1>5. PICK f \in [0..N -> Seq(Character)] : Joins(f, seqs) /\ FlattenSeq(seqs) = f[N]
  BY <1>4, FlattenedIs
<1>6. f[0] = <<>> /\ \A n \in 1..N : f[n] = f[n - 1] \o seqs[n]
  BY <1>4, <1>5 DEF Joins
<1>7. PICK upto : /\ print_members(p, kids, value) = upto[N] /\ upto[0] = p
                  /\ \A n \in 0..N : Follows(p, upto[n])
                  /\ \A n \in 1..N : upto[n] = print_member(upto[n - 1], kids[n], n = N, value)
  <2>1. kids \in Seq(docs)
    OBVIOUS
  <2> HIDE DEF kids
  <2> QED
    BY <2>1, MembersAre
<1> HIDE DEF N, missing
<1>8. Written(upto[N], s0 \o f[N], W \cup AllOf(missing, N))
  <2>1. \A n \in 1..N : seqs[n] \in Seq(Character)
    <3>1. Follows(p, p)
      BY DEF Follows
    <3> QED
      BY <1>3, <3>1
  <2>2. Advances(p, upto, N, seqs, missing)
    <3> SUFFICES ASSUME NEW n \in 1..N, NEW s \in Seq(Character), NEW without,
                        Follows(p, upto[n - 1]), Written(upto[n - 1], s, without)
                 PROVE  Written(upto[n], s \o seqs[n], without \cup missing[n])
      BY DEF Advances
    <3>1. upto[n] = print_member(upto[n - 1], kids[n], n = N, value)
      BY <1>7
    <3>2. Written(print_member(upto[n - 1], kids[n], n = N, value), s \o seqs[n], without \cup missing[n])
      BY <1>3
    <3> QED
      BY <3>1, <3>2, Zenon
  <2>3. /\ N \in Nat /\ upto[0] = p /\ \A n \in 0..N : Follows(p, upto[n])
        /\ f \in [0..N -> Seq(Character)] /\ f[0] = <<>> /\ \A n \in 1..N : f[n] = f[n - 1] \o seqs[n]
    BY <1>1, <1>5, <1>6, <1>7
  <2> QED
    BY <2>1, <2>2, <2>3, ListWritten
<1>9. f[N] \in Seq(Character)
  <2>1. N \in 0..N
    BY <1>1
  <2> QED
    BY <1>5, <2>1
<1> QED
  BY <1>5, <1>7, <1>8, <1>9 DEF N, seqs, missing, KidsMissing

LEMMA AppendsLast ==
  ASSUME NEW tabs \in Seq(Character), NEW c \in Character
  PROVE  /\ tabs \o <<c>> \in Seq(Character) /\ Len(tabs \o <<c>>) = Len(tabs) + 1
         /\ Append(tabs \o <<c>>, 0) = tabs \o <<c, 0>>
<1>1. Character \subseteq Byte /\ 0 \in Byte
  BY DEF Character, Byte
<1>2. tabs \in Seq(Byte) /\ c \in Byte /\ Len(tabs) \in Nat
  BY <1>1, CharactersAreBytes
<1>3. tabs \o <<c>> \in Seq(Character) /\ Len(tabs \o <<c>>) = Len(tabs) + 1
  OBVIOUS
<1> DEFINE s == tabs \o <<c>>
           a == Append(s, 0)
           b == tabs \o <<c, 0>>
<1>4. s \in Seq(Byte) /\ Len(s) = Len(tabs) + 1 /\ s[Len(tabs) + 1] = c
      /\ \A n \in 1..Len(tabs) : s[n] = tabs[n]
  BY <1>2
<1> HIDE DEF s
<1>5. /\ a \in Seq(Byte) /\ Len(a) = Len(tabs) + 2 /\ a[Len(tabs) + 1] = c /\ a[Len(tabs) + 2] = 0
      /\ \A n \in 1..Len(tabs) : a[n] = tabs[n]
  BY <1>1, <1>2, <1>4
<1>6. /\ b \in Seq(Byte) /\ Len(b) = Len(tabs) + 2 /\ b[Len(tabs) + 1] = c /\ b[Len(tabs) + 2] = 0
      /\ \A n \in 1..Len(tabs) : b[n] = tabs[n]
  <2> DEFINE end == <<c, 0>>
  <2>1. end \in Seq(Byte) /\ Len(end) = 2 /\ end[1] = c /\ end[2] = 0
    BY <1>1, <1>2
  <2> HIDE DEF end
  <2>2. /\ tabs \o end \in Seq(Byte) /\ Len(tabs \o end) = Len(tabs) + 2
        /\ \A n \in 1..(Len(tabs) + 2) :
             (tabs \o end)[n] = IF n <= Len(tabs) THEN tabs[n] ELSE end[n - Len(tabs)]
    <3>1. /\ tabs \o end \in Seq(Byte) /\ Len(tabs \o end) = Len(tabs) + Len(end)
          /\ \A n \in 1..(Len(tabs) + Len(end)) :
               (tabs \o end)[n] = IF n <= Len(tabs) THEN tabs[n] ELSE end[n - Len(tabs)]
      BY <1>2, <2>1, JoinIs
    <3> QED
      BY <2>1, <3>1, Zenon
  <2>3. b = tabs \o end
    BY DEF end
  <2> HIDE DEF b
  <2> QED
    BY <1>2, <2>1, <2>2, <2>3
<1> HIDE DEF a, b
<1>7. \A n \in 1..Len(a) : a[n] = b[n]
  <2> SUFFICES ASSUME NEW n \in 1..Len(a)
               PROVE  a[n] = b[n]
    OBVIOUS
  <2>1. n \in 1..Len(tabs) \/ n = Len(tabs) + 1 \/ n = Len(tabs) + 2
    BY <1>2, <1>5
  <2> QED
    BY <1>5, <1>6, <2>1
<1>8. a = b
  BY <1>5, <1>6, <1>7, SeqEqual
<1> QED
  BY <1>3, <1>8 DEF a, b, s

LEMMA ClosingText ==
  ASSUME NEW format \in BOOLEAN, NEW depth \in Nat, NEW tabs, tabs = If(format, Tabs(depth)),
         NEW end, end = <<Close.Object>>, NEW last, Glued(last, tabs, end)
  PROVE  /\ tabs \in Seq(Character) /\ end \in Seq(Character) /\ last \in Seq(Character)
         /\ Len(last) + 1 = (IF format THEN depth + 2 ELSE 2)
         /\ Append(last, 0) = If(format, Tabs(depth)) \o <<Close.Object, 0>>
<1>1. Close.Object \in Character
  BY DEF Close, Byte, Character
<1>2. tabs \in Seq(Character) /\ Len(tabs) = IF format THEN depth ELSE 0
  <2>1. Tabs(depth) \in Seq(Character) /\ Len(Tabs(depth)) = depth
    BY TabsCharacters
  <2>2. <<>> \in Seq(Character) /\ Len(<<>>) = 0
    OBVIOUS
  <2> QED
    BY <2>1, <2>2 DEF If
<1>3. end \in Seq(Character)
  BY <1>1
<1>4. PICK c \in Character : c = Close.Object
  BY <1>1
<1>5. /\ tabs \o <<c>> \in Seq(Character) /\ Len(tabs \o <<c>>) = Len(tabs) + 1
      /\ Append(tabs \o <<c>>, 0) = tabs \o <<c, 0>>
  BY <1>2, AppendsLast
<1>6. last = tabs \o <<c>>
  BY <1>4 DEF Glued
<1>7. last \in Seq(Character) /\ Len(last) = Len(tabs) + 1 /\ Append(last, 0) = tabs \o <<c, 0>>
  BY <1>5, <1>6, Zenon
<1>8. Len(last) + 1 = (IF format THEN depth + 2 ELSE 2)
  BY <1>2, <1>7
<1>9. Append(last, 0) = If(format, Tabs(depth)) \o <<Close.Object, 0>>
  BY <1>4, <1>7, Zenon
<1> QED
  BY <1>2, <1>3, <1>7, <1>8, <1>9

LEMMA ObjectWritten ==
  ASSUME NEW docs, Named(docs), NEW value, Printer(value, docs), NEW texts, NEW within,
         TextPrinter(value, docs, texts, within), NEW p, Fine(p), NEW doc, doc.type = "Object",
         doc.kids \in Seq(docs), NEW s \in Seq(Character), NEW W, Written(p, s, W)
  PROVE  /\ Compose(doc, p.format, p.depth, texts) \in Seq(Character)
         /\ Pending(print_object(p, doc, value), s \o Compose(doc, p.format, p.depth, texts),
                    W \cup KidsMissing(doc, within))
<1> DEFINE bytes == <<Open.Object>> \o If(p.format, <<NewLine>>)
           open == Emit(p, Len(bytes) + 1, bytes, Len(bytes))
           opened == Nest(open, 1)
           members == print_members(opened, doc.kids, value)
           needed == IF p.format THEN p.depth + 2 ELSE 2
           ending == If(p.format, Tabs(p.depth)) \o <<Close.Object, 0>>
           close == Emit(members, needed, ending, 0)
           seqs == MemberTexts(doc, p.format, p.depth, texts)
           all == W \cup KidsMissing(doc, within)
<1>1. print_object(p, doc, value) = Nest(close, -1)
  BY Zenon DEF print_object
<1>2. PICK tabs : tabs = If(p.format, Tabs(p.depth))
  OBVIOUS
<1>3. PICK end : end = <<Close.Object>>
  OBVIOUS
<1>4. PICK last : Glued(last, tabs, end)
  BY DEF Glued
<1>5. p.format \in BOOLEAN /\ p.depth \in Nat
  BY DEF Fine, Buffer
<1>6. /\ tabs \in Seq(Character) /\ end \in Seq(Character) /\ last \in Seq(Character)
      /\ Len(last) + 1 = needed /\ Append(last, 0) = ending
  <2>1. PICK format \in BOOLEAN, depth \in Nat : format = p.format /\ depth = p.depth
    BY <1>5
  <2>2. tabs = If(format, Tabs(depth))
    BY <1>2, <2>1
  <2>3. /\ tabs \in Seq(Character) /\ end \in Seq(Character) /\ last \in Seq(Character)
        /\ Len(last) + 1 = (IF format THEN depth + 2 ELSE 2)
        /\ Append(last, 0) = If(format, Tabs(depth)) \o <<Close.Object, 0>>
    BY <1>3, <1>4, <2>2, ClosingText
  <2> QED
    BY <2>1, <2>3
<1>7. PICK first \in Seq(Character) : first = bytes
  <2>1. <<Open.Object>> \in Seq(Character) /\ If(p.format, <<NewLine>>) \in Seq(Character)
    BY Signs, IfCharacters
  <2>2. bytes \in Seq(Character)
    BY <2>1
  <2> HIDE DEF bytes
  <2> QED
    BY <2>2
<1>8. Compose(doc, p.format, p.depth, texts) = first \o FlattenSeq(seqs) \o tabs \o end
  <2>1. "Object" \notin DOMAIN Word
    BY DEF Word
  <2>2. Compose(doc, p.format, p.depth, texts)
          = bytes \o FlattenSeq(seqs) \o If(p.format, Tabs(p.depth)) \o <<Close.Object>>
    BY <2>1 DEF Compose, MemberTexts
  <2> HIDE DEF bytes, seqs
  <2> QED
    BY <1>2, <1>3, <1>7, <2>2, Zenon
<1> HIDE DEF needed, ending, seqs
<1>9. PICK one \in Seq(Character) : Glued(one, s, first)
  BY GluedIs
<1>10. Follows(p, open) /\ Written(open, one, W)
  <2>1. Len(first) <= Len(first) + 1 /\ Len(first) + 1 <= Len(first) + 1 /\ Len(first) + 1 \in Nat
    OBVIOUS
  <2>2. open = Emit(p, Len(first) + 1, first, Len(first))
    BY <1>7
  <2> HIDE DEF open, bytes
  <2>3. Written(open, s \o first, W) /\ Follows(p, open)
    BY <2>1, <2>2, EmitWritten
  <2> QED
    BY <1>9, <2>3 DEF Glued
<1> HIDE DEF open, bytes
<1>11. /\ Fine(opened) /\ opened.depth = p.depth + 1 /\ opened.format = p.format
       /\ Written(opened, one, W)
  <2>1. Fine(open) /\ open.depth = p.depth /\ p.depth \in Nat /\ open.depth + 1 \in Nat /\ 1 \in Int
    BY <1>10 DEF Follows, Fine
  <2> QED
    BY <1>10, <2>1, NestFits, NestWritten DEF Follows
<1> HIDE DEF opened
<1>12. Follows(opened, members)
  BY <1>11, MembersFollow
<1>13. FlattenSeq(seqs) \in Seq(Character) /\ Written(members, one \o FlattenSeq(seqs), all)
  <2>1. seqs = MemberTexts(doc, opened.format, p.depth, texts)
    BY <1>11 DEF seqs
  <2> QED
    BY <1>5, <1>11, <2>1, MembersWritten
<1> HIDE DEF members, all
<1>14. PICK inner \in Seq(Character) : inner = FlattenSeq(seqs)
  BY <1>13
<1>15. PICK two \in Seq(Character) : Glued(two, one, inner)
  BY GluedIs
<1>16. Written(members, two, all)
  BY <1>13, <1>14, <1>15, Zenon DEF Glued
<1>17. PICK three \in Seq(Character) : Glued(three, two, last)
  BY <1>6, GluedIs
<1>18. Follows(members, close) /\ Pending(close, three, all)
  <2>1. close = Emit(members, Len(last) + 1, Append(last, 0), 0) /\ 0 \in Nat /\ 0 <= Len(last)
    <3>1. close = Emit(members, Len(last) + 1, Append(last, 0), 0)
      BY <1>6, Zenon
    <3>2. 0 <= Len(last)
      BY <1>6
    <3> QED
      BY <3>1, <3>2
  <2>2. Fine(members)
    BY <1>12 DEF Follows
  <2> HIDE DEF close
  <2>3. Follows(members, close) /\ Pending(close, two \o last, all)
    BY <1>6, <1>16, <2>1, <2>2, EmitEnded
  <2> QED
    BY <1>17, <2>3 DEF Glued
<1> HIDE DEF close
<1>19. Pending(Nest(close, -1), three, all)
  <2>1. Fine(close) /\ close.depth = p.depth + 1 /\ p.depth \in Nat
    BY <1>11, <1>12, <1>18 DEF Follows, Fine
  <2>2. close.depth + (-1) \in Nat /\ -1 \in Int
    BY <2>1
  <2> QED
    BY <1>18, <2>1, <2>2, NestWritten
<1>20. PICK a \in Seq(Character) : Glued(a, first, inner)
  BY GluedIs
<1>21. PICK b \in Seq(Character) : Glued(b, a, tabs)
  BY <1>6, GluedIs
<1>22. PICK whole \in Seq(Character) : Glued(whole, b, end)
  BY <1>6, GluedIs
<1>23. Compose(doc, p.format, p.depth, texts) = whole
  <2>1. /\ first \o inner = a /\ a \o tabs = b /\ b \o end = whole
    BY <1>20, <1>21, <1>22 DEF Glued
  <2>2. Compose(doc, p.format, p.depth, texts) = first \o inner \o tabs \o end
    BY <1>8, <1>14, Zenon
  <2> QED
    BY <2>1, <2>2, Zenon
<1>24. Glued(three, s, whole)
  <2>1. Glued(two, s, a)
    BY <1>9, <1>15, <1>20, GluedAgain
  <2>2. Glued(whole, a, last)
    BY <1>4, <1>6, <1>21, <1>22, GluedAgain
  <2> QED
    BY <1>6, <1>17, <2>1, <2>2, GluedAgain
<1> QED
  BY <1>1, <1>19, <1>23, <1>24, Zenon DEF all, Glued

\* The items of a document, of which within has those of its kids.
Parts(doc, n, within) ==
  {doc} \cup (IF n = 0 THEN {} ELSE UNION {within[doc.kids[k]] : k \in DOMAIN doc.kids})

LEMMA PartsMissing ==
  ASSUME NEW n, NEW doc, NEW within, DOMAIN doc.kids = 1..Len(doc.kids)
  PROVE  NoTextIn(Parts(doc, n, within))
           = (IF HasNoText(doc) THEN {doc} ELSE {})
               \cup (IF n = 0 THEN {} ELSE KidsMissing(doc, within))
<1> DEFINE kids == DOMAIN doc.kids
           missing == [k \in kids |-> NoTextIn(within[doc.kids[k]])]
           below == IF n = 0 THEN {} ELSE UNION {within[doc.kids[k]] : k \in kids}
<1>1. KidsMissing(doc, within) = UNION {missing[k] : k \in kids}
  BY Zenon DEF KidsMissing, AllOf
<1>2. \A k \in kids : missing[k] = NoTextIn(within[doc.kids[k]])
  OBVIOUS
<1> HIDE DEF missing
<1>3. NoTextIn(UNION {within[doc.kids[k]] : k \in kids}) = UNION {missing[k] : k \in kids}
  BY <1>2 DEF NoTextIn
<1>4. NoTextIn(below) = IF n = 0 THEN {} ELSE KidsMissing(doc, within)
  <2>1. NoTextIn({}) = {}
    BY DEF NoTextIn
  <2> QED
    BY <1>1, <1>3, <2>1
<1>5. NoTextIn({doc} \cup below) = NoTextIn({doc}) \cup NoTextIn(below)
  <2> HIDE DEF below
  <2> QED
    BY DEF NoTextIn
<1>6. NoTextIn({doc}) = IF HasNoText(doc) THEN {doc} ELSE {}
  <2> DEFINE lacks == HasNoText(doc)
  <2>1. \A part : part \in NoTextIn({doc}) <=> part = doc /\ lacks
    BY DEF NoTextIn
  <2> HIDE DEF lacks
  <2>2. NoTextIn({doc}) = IF lacks THEN {doc} ELSE {}
    BY <2>1
  <2> QED
    BY <2>2 DEF lacks
<1>7. Parts(doc, n, within) = {doc} \cup below
  BY DEF Parts
<1> HIDE DEF below
<1> QED
  BY <1>4, <1>5, <1>6, <1>7, Zenon

LEMMA WordCharacters ==
  ASSUME NEW type \in DOMAIN Word
  PROVE  Word[type] \in Seq(Character)
<1>1. \/ Word[type] = <<110, 117, 108, 108>>
      \/ Word[type] = <<102, 97, 108, 115, 101>>
      \/ Word[type] = <<116, 114, 117, 101>>
  BY DEF Word
<1>2. /\ <<110, 117, 108, 108>> \in Seq(Character) /\ <<102, 97, 108, 115, 101>> \in Seq(Character)
      /\ <<116, 114, 117, 101>> \in Seq(Character)
  BY DEF Character, Byte
<1> QED
  BY <1>1, <1>2, Zenon

\* What an item of a document, other than a list, is printed as.
LEMMA ScalarWritten ==
  ASSUME NEW p, Fine(p), p.ok, NEW doc, doc.type \notin DOMAIN Open,
         doc.type \in {"Invalid", "Number", "String", "Raw"} \cup DOMAIN Word,
         doc.val \in CharPointer, doc.type = "Number" => doc.val \in Seq(Character),
         ~HasNoText(doc), NEW value, NEW texts, NEW s \in Seq(Character), NEW W, Written(p, s, W)
  PROVE  /\ Compose(doc, p.format, p.depth, texts) \in Seq(Character)
         /\ Pending(value_of_type(p, doc, value), s \o Compose(doc, p.format, p.depth, texts), W)
<1> DEFINE Spelling(bytes, step) == Emit(p, Len(bytes) + 1, Append(bytes, 0), step)
           q == value_of_type(p, doc, value)
           t == Compose(doc, p.format, p.depth, texts)
<1>1. DOMAIN Word = {"NULL", "False", "True"} /\ DOMAIN Open = {"Array", "Object"}
  BY DEF Word, Open
<1>2. ASSUME NEW bytes \in Seq(Character), NEW step \in Nat, step <= Len(bytes)
      PROVE  Pending(Spelling(bytes, step), s \o bytes, W)
  <2> HIDE DEF q, t
  <2>1. Pending(Emit(p, Len(bytes) + 1, Append(bytes, 0), step), s \o bytes, W)
    BY <1>2, EmitEnded
  <2> QED
    BY <2>1
<1>3. CASE doc.type \in DOMAIN Word
  <2>1. q = Spelling(Word[doc.type], 0)
    BY <1>1, <1>3 DEF value_of_type
  <2>2. t = Word[doc.type]
    BY <1>1, <1>3 DEF Compose
  <2>3. PICK word \in Seq(Character) : word = Word[doc.type]
    BY <1>3, WordCharacters
  <2>4. 0 \in Nat /\ 0 <= Len(word)
    OBVIOUS
  <2> HIDE DEF q, t, Spelling
  <2>5. Pending(Spelling(word, 0), s \o word, W)
    BY <1>2, <2>4
  <2> QED
    BY <2>1, <2>2, <2>3, <2>5 DEF q, t
<1>4. CASE doc.type = "Number"
  <2>1. q = Spelling(doc.val, Len(doc.val))
    BY <1>1, <1>4 DEF value_of_type, print_number
  <2>2. t = doc.val
    BY <1>1, <1>4 DEF Compose
  <2>3. PICK digits \in Seq(Character) : digits = doc.val
    BY <1>4
  <2>4. Len(digits) \in Nat /\ Len(digits) <= Len(digits)
    OBVIOUS
  <2> HIDE DEF q, t, Spelling
  <2>5. Pending(Spelling(digits, Len(digits)), s \o digits, W)
    BY <1>2, <2>4
  <2> QED
    BY <2>1, <2>2, <2>3, <2>5 DEF q, t
<1>5. CASE doc.type = "Raw"
  <2>1. doc.val # NoText
    BY <1>5 DEF HasNoText
  <2>2. q = Spelling(doc.val, 0)
    BY <1>1, <1>5, <2>1 DEF value_of_type
  <2>3. t = doc.val
    BY <1>1, <1>5, <2>1 DEF Compose
  <2>4. PICK raw \in Seq(Character) : raw = doc.val
    BY <2>1 DEF CharPointer
  <2>5. 0 \in Nat /\ 0 <= Len(raw)
    OBVIOUS
  <2> HIDE DEF q, t, Spelling
  <2>6. Pending(Spelling(raw, 0), s \o raw, W)
    BY <1>2, <2>5
  <2> QED
    BY <2>2, <2>3, <2>4, <2>6 DEF q, t
<1>6. CASE doc.type = "String"
  <2>1. q = print_string_ptr(p, doc.val)
    BY <1>1, <1>6 DEF value_of_type
  <2>2. t = Literal(doc.val)
    BY <1>1, <1>6 DEF Compose
  <2>3. Literal(doc.val) \in Seq(Character)
    BY LiteralSpelled
  <2>4. Pending(print_string_ptr(p, doc.val), s \o Literal(doc.val), W)
    BY StringWritten
  <2> HIDE DEF q, t
  <2> QED
    BY <2>1, <2>2, <2>3, <2>4 DEF q, t
<1> QED
  BY <1>1, <1>3, <1>4, <1>5, <1>6 DEF HasNoText

\* value_of_type prints the text of its document, or fails for a reason.
LEMMA ValueTexts ==
  ASSUME NEW n \in 0..Levels, NEW value, NEW texts, NEW within,
         n = 0 \/ (Printer(value, Nested[n - 1]) /\ TextPrinter(value, Nested[n - 1], texts, within)),
         NEW p, Fine(p), NEW doc \in Nested[n], NEW s \in Seq(Character), NEW W, Written(p, s, W)
  PROVE  /\ Compose(doc, p.format, p.depth, texts) \in Seq(Character)
         /\ Pending(value_of_type(p, doc, value), s \o Compose(doc, p.format, p.depth, texts),
                    W \cup NoTextIn(Parts(doc, n, within)))
<1> DEFINE docs == Nested[n - 1]
           q == value_of_type(p, doc, value)
           t == Compose(doc, p.format, p.depth, texts)
           more == W \cup NoTextIn(Parts(doc, n, within))
<1>1. /\ doc.type \in {"Invalid", "Number", "String", "Raw"} \cup DOMAIN Word \cup DOMAIN Open
      /\ doc.val \in CharPointer /\ (doc.type = "Number" => doc.val \in Seq(Character))
      /\ doc.type \in DOMAIN Open => n # 0 /\ doc.kids \in Seq(docs)
      /\ doc.type \notin DOMAIN Open => doc.kids = <<>>
  BY ItemIs
<1>2. n # 0 => Named(docs) /\ Printer(value, docs) /\ TextPrinter(value, docs, texts, within)
  <2>1. Levels \in Nat
    BY LevelsAssumption
  <2>2. n # 0 => n - 1 \in 0..Levels
    BY <2>1
  <2> QED
    BY <2>2, ItemIs DEF Named
<1>3. /\ DOMAIN Word = {"NULL", "False", "True"} /\ DOMAIN Open = {"Array", "Object"}
      /\ p.ok \in BOOLEAN
  BY DEF Word, Open, Fine, Buffer
<1> HIDE DEF docs
<1>4. DOMAIN doc.kids = 1..Len(doc.kids)
  BY <1>1
<1>5. more = W \cup ((IF HasNoText(doc) THEN {doc} ELSE {})
                       \cup (IF n = 0 THEN {} ELSE KidsMissing(doc, within)))
  BY <1>4, PartsMissing, Zenon
<1> HIDE DEF more
<1>6. ASSUME doc.type \in DOMAIN Open
      PROVE  /\ t \in Seq(Character)
             /\ p.ok => Pending(q, s \o t, more)
  <2>1. n # 0 /\ doc.kids \in Seq(docs) /\ ~HasNoText(doc)
    BY <1>1, <1>3, <1>6 DEF HasNoText
  <2>2. more = W \cup KidsMissing(doc, within)
    BY <1>5, <2>1
  <2>3. CASE doc.type = "Array"
    <3>1. p.ok => q = print_array(p, doc, value)
      BY <1>3, <2>3 DEF value_of_type
    <3> HIDE DEF q
    <3>2. t \in Seq(Character) /\ Pending(print_array(p, doc, value), s \o t, W \cup KidsMissing(doc, within))
      BY <1>2, <2>1, <2>3, ArrayWritten
    <3> QED
      BY <2>2, <3>1, <3>2, Zenon
  <2>4. CASE doc.type = "Object"
    <3>1. p.ok => q = print_object(p, doc, value)
      BY <1>3, <2>4 DEF value_of_type
    <3> HIDE DEF q
    <3>2. t \in Seq(Character) /\ Pending(print_object(p, doc, value), s \o t, W \cup KidsMissing(doc, within))
      BY <1>2, <2>1, <2>4, ObjectWritten
    <3> QED
      BY <2>2, <3>1, <3>2, Zenon
  <2> QED
    BY <1>3, <1>6, <2>3, <2>4
<1>7. ASSUME doc.type \notin DOMAIN Open, HasNoText(doc)
      PROVE  t \in Seq(Character) /\ (p.ok => Pending(q, s \o t, more))
  <2>1. more # {}
    BY <1>5, <1>7
  <2>2. doc.type = "Invalid" \/ (doc.type = "Raw" /\ doc.val = NoText)
    BY <1>7 DEF HasNoText
  <2>3. t = <<>>
    BY <1>3, <2>2 DEF Compose
  <2>4. p.ok => q = Fail(p)
    BY <1>3, <2>2 DEF value_of_type
  <2>5. Pending(Fail(p), s \o t, more)
    BY <2>1, FailPending
  <2>6. t \in Seq(Character)
    BY <2>3
  <2> QED
    BY <2>4, <2>5, <2>6
<1>8. ASSUME doc.type \notin DOMAIN Open, ~HasNoText(doc)
      PROVE  t \in Seq(Character) /\ (p.ok => Pending(q, s \o t, more))
  <2>1. more = W
    <3>1. KidsMissing(doc, within) = {}
      <4>1. Len(doc.kids) = 0 /\ 1..0 = {}
        BY <1>1, <1>8
      <4> QED
        BY <4>1 DEF KidsMissing, AllOf
    <3> QED
      BY <1>5, <1>8, <3>1
  <2>2. /\ doc.type \in {"Invalid", "Number", "String", "Raw"} \cup DOMAIN Word
        /\ doc.type = "Number" => doc.val \in Seq(Character)
    BY <1>1, <1>8
  <2>3. p.ok => t \in Seq(Character) /\ Pending(q, s \o t, W)
    <3> HIDE DEF q, t
    <3> SUFFICES ASSUME p.ok
                 PROVE  t \in Seq(Character) /\ Pending(q, s \o t, W)
      OBVIOUS
    <3>1. /\ Compose(doc, p.format, p.depth, texts) \in Seq(Character)
          /\ Pending(value_of_type(p, doc, value), s \o Compose(doc, p.format, p.depth, texts), W)
      BY <1>1, <1>8, <2>2, ScalarWritten
    <3> QED
      BY <3>1 DEF q, t
  <2>4. ~p.ok => t \in Seq(Character)
    <3>1. CASE doc.type \in DOMAIN Word
      <4>1. t = Word[doc.type]
        BY <1>3, <3>1 DEF Compose
      <4> HIDE DEF t
      <4> QED
        BY <3>1, <4>1, WordCharacters
    <3>2. CASE doc.type = "Number"
      BY <1>1, <1>3, <3>2 DEF Compose
    <3>3. CASE doc.type = "Raw"
      <4>1. doc.val # NoText
        BY <1>8, <3>3 DEF HasNoText
      <4> QED
        BY <1>1, <1>3, <3>3, <4>1 DEF Compose, CharPointer
    <3>4. CASE doc.type = "String"
      <4>1. t = Literal(doc.val)
        BY <1>3, <3>4 DEF Compose
      <4> QED
        BY <1>1, <4>1, LiteralSpelled
    <3> QED
      BY <1>8, <2>2, <3>1, <3>2, <3>3, <3>4 DEF HasNoText
  <2> QED
    BY <2>1, <2>3, <2>4
<1>9. ~p.ok /\ t \in Seq(Character) => Pending(q, s \o t, more)
  <2> SUFFICES ASSUME ~p.ok, t \in Seq(Character)
               PROVE  Pending(q, s \o t, more)
    OBVIOUS
  <2>1. q = p
    BY DEF value_of_type
  <2> HIDE DEF q, t
  <2>2. Follows(p, p) /\ W \subseteq more
    BY <1>5 DEF Follows
  <2>3. s \o t \in Seq(Character) /\ Len(s) <= Len(s \o t)
    <3>1. s \o t \in Seq(Character) /\ Len(s \o t) = Len(s) + Len(t) /\ Len(s) \in Nat /\ Len(t) \in Nat
      BY JoinIs
    <3> QED
      BY <3>1
  <2> QED
    BY <2>1, <2>2, <2>3, FailedStill
<1> HIDE DEF q, t
<1>10. t \in Seq(Character) /\ Pending(q, s \o t, more)
  BY <1>3, <1>6, <1>7, <1>8, <1>9, Zenon
<1> QED
  BY <1>10 DEF q, t, more

\* print_value, the texts and the parts of the documents, by levels.
LEMMA PrintLevels ==
  \E levels : /\ levels = [n \in 0..Levels |-> Level("print", n, levels[n - 1])]
              /\ \A p, doc : print_value(p, doc) = levels[Levels][p][doc]
<1> DEFINE levels[n \in 0..Levels] ==
             [q \in Buffer |-> [i \in Nested[n] |->
                value_of_type(q, i, IF n = 0 THEN <<>> ELSE levels[n - 1])]]
           Printing(n, below) == [q \in Buffer |-> [i \in Nested[n] |->
                                   value_of_type(q, i, IF n = 0 THEN <<>> ELSE below)]]
<1>1. \A p, doc : print_value(p, doc) = levels[Levels][p][doc]
  BY Zenon DEF print_value
<1>2. \A n, below : Level("print", n, below) = Printing(n, below)
  BY DEF Level
<1>3. levels = CHOOSE f : f = [n \in 0..Levels |-> Printing(n, f[n - 1])]
  BY Zenon
<1> HIDE DEF Printing, levels
<1>4. PICK f : f = [n \in 0..Levels |-> Level("print", n, f[n - 1])]
  BY LevelsAssumption, LevelsExist
<1>5. f = [n \in 0..Levels |-> Printing(n, f[n - 1])]
  BY <1>2, <1>4
<1>6. levels = [n \in 0..Levels |-> Printing(n, levels[n - 1])]
  BY <1>3, <1>5, Zenon
<1>7. levels = [n \in 0..Levels |-> Level("print", n, levels[n - 1])]
  BY <1>2, <1>6
<1> QED
  BY <1>1, <1>7, Zenon

LEMMA TextLevels ==
  \E levels : /\ levels = [n \in 0..Levels |-> Level("render", n, levels[n - 1])]
              /\ TextOf = levels[Levels]
<1> DEFINE levels[n \in 0..Levels] ==
             [d \in Nested[n] |-> [format \in BOOLEAN |-> [depth \in Nat |->
                Compose(d, format, depth, IF n = 0 THEN <<>> ELSE levels[n - 1])]]]
           Rendering(n, below) ==
             [d \in Nested[n] |-> [format \in BOOLEAN |-> [depth \in Nat |->
                Compose(d, format, depth, IF n = 0 THEN <<>> ELSE below)]]]
<1>1. TextOf = levels[Levels]
  BY Zenon DEF TextOf
<1>2. \A n, below : Level("render", n, below) = Rendering(n, below)
  BY DEF Level
<1>3. levels = CHOOSE f : f = [n \in 0..Levels |-> Rendering(n, f[n - 1])]
  BY Zenon
<1> HIDE DEF Rendering, levels
<1>4. PICK f : f = [n \in 0..Levels |-> Level("render", n, f[n - 1])]
  BY LevelsAssumption, LevelsExist
<1>5. f = [n \in 0..Levels |-> Rendering(n, f[n - 1])]
  BY <1>2, <1>4
<1>6. levels = [n \in 0..Levels |-> Rendering(n, levels[n - 1])]
  BY <1>3, <1>5, Zenon
<1>7. levels = [n \in 0..Levels |-> Level("render", n, levels[n - 1])]
  BY <1>2, <1>6
<1> QED
  BY <1>1, <1>7, Zenon

LEMMA WithinLevels ==
  \E levels : /\ levels = [n \in 0..Levels |-> Level("within", n, levels[n - 1])]
              /\ Within = levels[Levels]
<1> DEFINE levels[n \in 0..Levels] ==
             [d \in Nested[n] |-> {d} \cup (IF n = 0 THEN {}
                                            ELSE UNION {levels[n - 1][d.kids[k]] : k \in DOMAIN d.kids})]
           Collect(n, below) ==
             [d \in Nested[n] |-> {d} \cup (IF n = 0 THEN {}
                                            ELSE UNION {below[d.kids[k]] : k \in DOMAIN d.kids})]
<1>1. Within = levels[Levels]
  BY Zenon DEF Within
<1>2. \A n, below : Level("within", n, below) = Collect(n, below)
  BY DEF Level
<1>3. levels = CHOOSE f : f = [n \in 0..Levels |-> Collect(n, f[n - 1])]
  BY Zenon
<1> HIDE DEF Collect, levels
<1>4. PICK f : f = [n \in 0..Levels |-> Level("within", n, f[n - 1])]
  BY LevelsAssumption, LevelsExist
<1>5. f = [n \in 0..Levels |-> Collect(n, f[n - 1])]
  BY <1>2, <1>4
<1>6. levels = [n \in 0..Levels |-> Collect(n, levels[n - 1])]
  BY <1>3, <1>5, Zenon
<1>7. levels = [n \in 0..Levels |-> Level("within", n, levels[n - 1])]
  BY <1>2, <1>6
<1> QED
  BY <1>1, <1>7, Zenon

\* To a new buffer nothing has been printed.
LEMMA PrintBufferWritten ==
  ASSUME NEW size \in Nat, NEW noalloc, NEW format, NEW luck, NEW reallocate,
         NEW p, p = PrintBuffer(size, noalloc, format, luck, reallocate)
  PROVE  /\ Written(p, <<>>, {}) /\ Len(p.bytes) = size /\ p.depth = 0 /\ p.format = format
         /\ p.noalloc = noalloc
<1> DEFINE bytes == [n \in 1..size |-> Garbage]
<1>1. /\ p.ok /\ p.offset = 0 /\ p.depth = 0 /\ p.format = format /\ p.noalloc = noalloc
      /\ p.bytes = bytes
  BY DEF PrintBuffer
<1>2. Len(bytes) = size /\ (bytes = <<>> \/ 0 < Len(bytes))
  <2>1. bytes \in Seq(Byte)
    BY DEF Garbage, Byte
  <2>2. Len(bytes) = size
    OBVIOUS
  <2> HIDE DEF bytes
  <2>3. size = 0 => bytes = <<>>
    BY <2>1, <2>2
  <2> QED
    BY <2>2, <2>3
<1> HIDE DEF bytes
<1>3. Written(p, <<>>, {})
  BY <1>1, <1>2 DEF Written, Shows
<1> QED
  BY <1>1, <1>2, <1>3

\* One level up, value_of_type prints the texts of the documents of that level.
LEMMA LevelTexts ==
  ASSUME NEW n \in 0..Levels, NEW value, NEW texts, NEW within,
         n = 0 \/ (Printer(value, Nested[n - 1]) /\ TextPrinter(value, Nested[n - 1], texts, within))
  PROVE  TextPrinter(Level("print", n, value), Nested[n], Level("render", n, texts),
                     Level("within", n, within))
<1> DEFINE V == IF n = 0 THEN <<>> ELSE value
           T == IF n = 0 THEN <<>> ELSE texts
<1>1. n = 0 \/ (Printer(V, Nested[n - 1]) /\ TextPrinter(V, Nested[n - 1], T, within))
  OBVIOUS
<1>2. ASSUME NEW q \in Buffer, NEW i \in Nested[n]
      PROVE  Level("print", n, value)[q][i] = value_of_type(q, i, V)
  BY DEF Level
<1>3. ASSUME NEW i \in Nested[n], NEW format \in BOOLEAN, NEW depth \in Nat
      PROVE  Level("render", n, texts)[i][format][depth] = Compose(i, format, depth, T)
  BY DEF Level
<1>4. ASSUME NEW i \in Nested[n]
      PROVE  Level("within", n, within)[i] = Parts(i, n, within)
  BY DEF Level, Parts
<1> HIDE DEF V, T
<1>5. ASSUME NEW i \in Nested[n], NEW format \in BOOLEAN, NEW depth \in Nat
      PROVE  Level("render", n, texts)[i][format][depth] \in Seq(Character)
  <2>0. PICK none \in Nat, yes \in BOOLEAN : none = 0 /\ yes = TRUE
    OBVIOUS
  <2>1. PICK b : b = PrintBuffer(none, yes, format, none, yes)
    OBVIOUS
  <2>2. Fine(b) /\ b.depth = 0 /\ b.format = format /\ Written(b, <<>>, {})
    <3>1. Fine(b)
      BY <2>1, PrintBufferFine
    <3> QED
      BY <2>1, <3>1, PrintBufferWritten
  <2>3. depth \in Int /\ b.depth + depth = depth /\ b.depth + depth \in Nat
    BY <2>2
  <2>4. PICK blank : blank = Nest(b, depth)
    OBVIOUS
  <2>5. Fine(blank) /\ blank.format = format /\ blank.depth = depth
    BY <2>2, <2>3, <2>4, NestFits
  <2>6. Written(blank, <<>>, {}) /\ <<>> \in Seq(Character)
    BY <2>2, <2>3, <2>4, NestWritten
  <2>7. Compose(i, blank.format, blank.depth, T) \in Seq(Character)
    BY <1>1, <2>5, <2>6, ValueTexts
  <2> QED
    BY <1>3, <2>5, <2>7
<1>6. ASSUME NEW q \in Buffer, NEW i \in Nested[n], NEW s \in Seq(Character), NEW without,
             Fine(q), Written(q, s, without)
      PROVE  Pending(Level("print", n, value)[q][i], s \o Level("render", n, texts)[i][q.format][q.depth],
                     without \cup NoTextIn(Level("within", n, within)[i]))
  <2>1. q.format \in BOOLEAN /\ q.depth \in Nat
    BY <1>6 DEF Fine, Buffer
  <2>2. Pending(value_of_type(q, i, V), s \o Compose(i, q.format, q.depth, T),
                without \cup NoTextIn(Parts(i, n, within)))
    BY <1>1, <1>6, ValueTexts
  <2>3. Level("print", n, value)[q][i] = value_of_type(q, i, V)
    BY <1>2
  <2>4. Level("render", n, texts)[i][q.format][q.depth] = Compose(i, q.format, q.depth, T)
    BY <1>3, <2>1
  <2>5. Level("within", n, within)[i] = Parts(i, n, within)
    BY <1>4
  <2> QED
    BY <2>2, <2>3, <2>4, <2>5, Zenon
<1> QED
  BY <1>5, <1>6 DEF TextPrinter

LEMMA LevelPrints ==
  ASSUME NEW n \in 0..Levels, NEW value, n = 0 \/ Printer(value, Nested[n - 1])
  PROVE  Printer(Level("print", n, value), Nested[n])
<1> SUFFICES ASSUME NEW q \in Buffer, NEW i \in Nested[n], Fine(q)
             PROVE  Prints(q, Level("print", n, value)[q][i])
  BY Zenon DEF Printer
<1> DEFINE V == IF n = 0 THEN <<>> ELSE value
<1>1. Level("print", n, value)[q][i] = value_of_type(q, i, V)
  BY DEF Level
<1>2. n = 0 \/ Printer(V, Nested[n - 1])
  OBVIOUS
<1> HIDE DEF V
<1> QED
  BY <1>1, <1>2, ValuePrints

\* print_value prints the text of the document, at the depth and in the format of p.
LEMMA PrintValueTexts ==
  ASSUME NEW p, Fine(p), NEW doc \in Documents, NEW s \in Seq(Character), NEW W, Written(p, s, W)
  PROVE  /\ TextOf[doc][p.format][p.depth] \in Seq(Character)
         /\ Pending(print_value(p, doc), s \o TextOf[doc][p.format][p.depth], W \cup Wordless(doc))
<1>1. PICK levels : /\ levels = [n \in 0..Levels |-> Level("print", n, levels[n - 1])]
                    /\ \A q, d : print_value(q, d) = levels[Levels][q][d]
  BY PrintLevels
<1>2. PICK texts : /\ texts = [n \in 0..Levels |-> Level("render", n, texts[n - 1])]
                   /\ TextOf = texts[Levels]
  BY TextLevels
<1>3. PICK within : /\ within = [n \in 0..Levels |-> Level("within", n, within[n - 1])]
                    /\ Within = within[Levels]
  BY WithinLevels
<1> DEFINE Done(n) == /\ Printer(levels[n], Nested[n])
                      /\ TextPrinter(levels[n], Nested[n], texts[n], within[n])
           Right == {n \in 0..Levels : Done(n)}
<1>4. Levels \in Nat
  BY LevelsAssumption
<1>5. ASSUME NEW n \in 0..Levels, n = 0 \/ Done(n - 1)
      PROVE  Done(n)
  <2>1. levels[n] = Level("print", n, levels[n - 1])
    BY <1>1, Zenon
  <2>2. texts[n] = Level("render", n, texts[n - 1])
    BY <1>2, Zenon
  <2>3. within[n] = Level("within", n, within[n - 1])
    BY <1>3, Zenon
  <2>4. Printer(Level("print", n, levels[n - 1]), Nested[n])
    BY <1>5, LevelPrints
  <2>5. TextPrinter(Level("print", n, levels[n - 1]), Nested[n], Level("render", n, texts[n - 1]),
                    Level("within", n, within[n - 1]))
    BY <1>5, LevelTexts
  <2> QED
    BY <2>1, <2>2, <2>3, <2>4, <2>5, Zenon
<1> HIDE DEF Done
<1>6. 0 \in Right
  BY <1>4, <1>5
<1>7. ASSUME NEW n \in 1..Levels, n - 1 \in Right
      PROVE  n \in Right
  BY <1>4, <1>5, <1>7
<1>8. 0..Levels \subseteq Right
  <2> HIDE DEF Right
  <2> QED
    BY <1>4, <1>6, <1>7, ClimbTo
<1>9. Done(Levels)
  BY <1>4, <1>8
<1>10. TextPrinter(levels[Levels], Documents, TextOf, Within)
  BY <1>2, <1>3, <1>9, Zenon DEF Done, Documents
<1>11. p \in Buffer /\ p.format \in BOOLEAN /\ p.depth \in Nat
  BY DEF Fine, Buffer
<1>12. TextOf[doc][p.format][p.depth] \in Seq(Character)
  BY <1>10, <1>11, Zenon DEF TextPrinter
<1>13. Pending(levels[Levels][p][doc], s \o TextOf[doc][p.format][p.depth],
               W \cup NoTextIn(Within[doc]))
  BY <1>10, <1>11, Zenon DEF TextPrinter
<1>14. NoTextIn(Within[doc]) = Wordless(doc)
  BY Zenon DEF NoTextIn, Wordless
<1> QED
  BY <1>1, <1>12, <1>13, <1>14, Zenon

\* Who reads bytes that begin with a text and a 0 reads that text.
LEMMA CStringShown ==
  ASSUME NEW bytes \in Seq(Byte), NEW t \in Seq(Character), Len(t) < Len(bytes),
         \A n \in 1..Len(t) : bytes[n] = t[n], bytes[Len(t) + 1] = 0
  PROVE  CString(bytes) = t
<1> DEFINE zeros == {n \in DOMAIN bytes : bytes[n] = 0}
           S == {Len(bytes) + 1} \cup zeros
           end == Len(t) + 1
<1>1. /\ Len(bytes) \in Nat /\ Len(t) \in Nat /\ DOMAIN bytes = 1..Len(bytes)
      /\ end \in zeros /\ S \in SUBSET Nat
  OBVIOUS
<1>2. ASSUME NEW n \in S, n < end
      PROVE  FALSE
  <2>1. n \in 1..Len(t) /\ bytes[n] = 0
    BY <1>1, <1>2
  <2>2. t[n] \in Character /\ t[n] = 0
    BY <2>1
  <2> QED
    BY <2>2 DEF Character
<1>3. \A n \in S : end <= n
  BY <1>1, <1>2
<1>4. CString(bytes) = SubSeq(bytes, 1, Min(S) - 1)
  BY DEF CString
<1> HIDE DEF zeros
<1>5. end \in S
  BY <1>1
<1> HIDE DEF S
<1>6. Min(S) = end
  <2> DEFINE m == Min(S)
  <2>1. m \in S /\ \A n \in S : m <= n
    BY <1>1, <1>5, MinIs
  <2> HIDE DEF m, end
  <2>2. m \in Nat /\ end \in Nat /\ m <= end /\ end <= m
    BY <1>1, <1>3, <1>5, <2>1 DEF end
  <2>3. m = end
    BY <2>2
  <2> QED
    BY <2>3 DEF m
<1>7. CString(bytes) = SubSeq(bytes, 1, Len(t))
  BY <1>1, <1>4, <1>6
<1> DEFINE s == SubSeq(bytes, 1, Len(t))
<1>8. s \in Seq(Byte) /\ Len(s) = Len(t) /\ \A n \in 1..Len(s) : s[n] = t[n]
  BY <1>1
<1> HIDE DEF s
<1>9. s = t
  <2>1. t \in Seq(Byte)
    BY CharactersAreBytes
  <2> QED
    BY <1>8, <2>1, SeqEqual
<1> QED
  BY <1>7, <1>9 DEF s

\* A print gave the whole text, or it was impossible.
WholeOrNot(r, doc, format, impossible) ==
  IF r.ok THEN Wordless(doc) = {} /\ r.text = Render(doc, format)
  ELSE Wordless(doc) # {} \/ impossible

\* What print_value makes of a new buffer.
LEMMA NewBufferPrinted ==
  ASSUME NEW doc \in Documents, NEW size \in Nat, NEW noalloc \in BOOLEAN, NEW format \in BOOLEAN,
         NEW luck \in Nat, NEW reallocate \in BOOLEAN, NEW p,
         p = PrintBuffer(size, noalloc, format, luck, reallocate)
  PROVE  /\ Render(doc, format) \in Seq(Character)
         /\ Prints(p, print_value(p, doc)) /\ Follows(p, print_value(p, doc))
         /\ Pending(print_value(p, doc), Render(doc, format), Wordless(doc))
         /\ p.noalloc = noalloc /\ Len(p.bytes) = size
<1>1. /\ Fine(p) /\ Written(p, <<>>, {}) /\ p.depth = 0 /\ p.format = format /\ <<>> \in Seq(Character)
      /\ Len(p.bytes) = size /\ p.noalloc = noalloc
  <2>1. Fine(p) /\ <<>> \in Seq(Character)
    BY PrintBufferFine
  <2>2. Written(p, <<>>, {}) /\ p.depth = 0 /\ Len(p.bytes) = size
    BY PrintBufferWritten
  <2>3. p.format = format /\ p.noalloc = noalloc
    BY DEF PrintBuffer
  <2> QED
    BY <2>1, <2>2, <2>3
<1>2. Prints(p, print_value(p, doc))
  BY <1>1, PrintValuePrints
<1> DEFINE whole == TextOf[doc][p.format][p.depth]
<1>3. whole = Render(doc, format)
  BY <1>1 DEF Render
<1>4. whole \in Seq(Character) /\ Pending(print_value(p, doc), <<>> \o whole, {} \cup Wordless(doc))
  BY <1>1, PrintValueTexts
<1> HIDE DEF whole
<1>5. <<>> \o whole = whole /\ {} \cup Wordless(doc) = Wordless(doc)
  BY <1>4
<1> QED
  BY <1>1, <1>2, <1>3, <1>4, <1>5 DEF Prints

\* What is pending in the buffer is what who reads it reads.
LEMMA PendingRead ==
  ASSUME NEW q, Fine(q), q.ok, NEW t \in Seq(Character), NEW missing, Pending(q, t, missing)
  PROVE  missing = {} /\ Printed(q).text = t
<1>1. q.bytes \in Seq(Byte)
  BY DEF Fine, Buffer
<1>2. missing = {} /\ Shows(q, t) /\ Len(t) < Len(q.bytes) /\ q.bytes[Len(t) + 1] = 0
  BY DEF Pending
<1>3. CString(q.bytes) = t
  BY <1>1, <1>2, CStringShown DEF Shows
<1> QED
  BY <1>2, <1>3 DEF Printed

\* A print that failed in a buffer that could grow.
LEMMA PendingFailed ==
  ASSUME NEW q, Fine(q), ~q.ok, NEW t \in Seq(Character), NEW missing,
         Pending(q, t, missing) \/ Written(q, t, missing)
  PROVE  \/ missing # {} \/ Len(t) + 5 > INT_MAX
         \/ (IF q.noalloc THEN Len(q.bytes) < Len(t) + 6 ELSE q.luck = 0)
<1>1. missing # {} \/ Lacks(q, Len(t))
  BY DEF Pending, Written, Excused
<1>2. Len(t) \in Nat /\ INT_MAX \in Nat /\ Len(q.bytes) \in Nat
  BY PrinterAssumption DEF Fine, Buffer
<1> QED
  BY <1>1, <1>2 DEF Lacks

\* cJSON_PrintBuffered gives the text of the document, whatever the size of its first
\* buffer, unless an allocation fails, an item has no text or it is too long.
LEMMA BufferedWhole ==
  ASSUME NEW doc \in Documents, NEW prebuffer \in Nat, NEW format \in BOOLEAN,
         NEW luck \in Nat, NEW reallocate \in BOOLEAN,
         NEW r, r = cJSON_PrintBuffered(doc, prebuffer, format, luck, reallocate)
  PROVE  WholeOrNot(r, doc, format, r.left = 0 \/ Len(Render(doc, format)) + 5 > INT_MAX)
<1>1. CASE luck = 0
  <2>1. r = NotPrinted(0, FALSE, luck)
    BY <1>1, Zenon DEF cJSON_PrintBuffered
  <2> QED
    BY <1>1, <2>1 DEF NotPrinted, WholeOrNot
<1>2. CASE luck # 0
  <2>9. PICK left \in Nat : left = luck - 1
    BY <1>2
  <2>2. PICK no \in BOOLEAN : no = FALSE
    OBVIOUS
  <2>8. PICK p : p = PrintBuffer(prebuffer, no, format, left, reallocate)
    OBVIOUS
  <2> DEFINE q == print_value(p, doc)
             whole == Render(doc, format)
  <2>1. r = PrintedOrFreed(q)
    <3>1. ~(prebuffer < 0)
      OBVIOUS
    <3> QED
      BY <1>2, <2>2, <2>8, <2>9, <3>1, Zenon DEF cJSON_PrintBuffered
  <2>3. whole \in Seq(Character) /\ Follows(p, q) /\ Pending(q, whole, Wordless(doc)) /\ ~p.noalloc
    <3>1. whole \in Seq(Character) /\ Follows(p, q) /\ Pending(q, whole, Wordless(doc))
      BY <2>8, NewBufferPrinted
    <3>2. p.noalloc = no
      BY <2>8 DEF PrintBuffer
    <3> QED
      BY <2>2, <3>1, <3>2, Zenon
  <2>4. Fine(q) /\ ~q.noalloc
    BY <2>3 DEF Follows
  <2> HIDE DEF q, whole
  <2>5. CASE q.ok
    <3>1. Wordless(doc) = {} /\ Printed(q).text = whole
      BY <2>3, <2>4, <2>5, PendingRead
    <3>2. r = Printed(q) /\ r.ok
      BY <2>1, <2>5 DEF PrintedOrFreed, Printed
    <3> QED
      BY <3>1, <3>2 DEF WholeOrNot, whole
  <2>6. CASE ~q.ok
    <3>1. Wordless(doc) # {} \/ Len(whole) + 5 > INT_MAX \/ q.luck = 0
      BY <2>3, <2>4, <2>6, PendingFailed
    <3>2. ~r.ok /\ r.left = q.luck
      BY <2>1, <2>6 DEF PrintedOrFreed, FreeBuffer, NotPrinted
    <3> QED
      BY <3>1, <3>2 DEF WholeOrNot, whole
  <2> QED
    BY <2>5, <2>6
<1> QED
  BY <1>1, <1>2

\* cJSON_PrintPreallocated does so in a buffer that has 5 bytes to spare.
LEMMA PreallocatedWhole ==
  ASSUME NEW doc \in Documents, NEW length \in Nat, length <= INT_MAX, NEW format \in BOOLEAN,
         NEW r, r = cJSON_PrintPreallocated(doc, length, format)
  PROVE  WholeOrNot(r, doc, format, length < Len(Render(doc, format)) + 1 + 5)
<1>6. PICK left \in Nat, yes \in BOOLEAN : left = 0 /\ yes = TRUE
  OBVIOUS
<1>7. PICK p : p = PrintBuffer(length, yes, format, left, yes)
  OBVIOUS
<1> DEFINE q == print_value(p, doc)
           whole == Render(doc, format)
<1>1. r = PrintedOrNot(q)
  <2>1. ~(length < 0)
    OBVIOUS
  <2> QED
    BY <1>6, <1>7, <2>1, Zenon DEF cJSON_PrintPreallocated
<1>2. /\ whole \in Seq(Character) /\ Follows(p, q) /\ Pending(q, whole, Wordless(doc)) /\ p.noalloc
      /\ Len(p.bytes) = length
  <2>1. /\ whole \in Seq(Character) /\ Follows(p, q) /\ Pending(q, whole, Wordless(doc))
        /\ p.noalloc = yes /\ Len(p.bytes) = length
    BY <1>7, NewBufferPrinted
  <2> QED
    BY <1>6, <2>1, Zenon
<1>3. Fine(q) /\ q.noalloc /\ Len(q.bytes) = length
  BY <1>2 DEF Follows
<1> HIDE DEF q, whole
<1>4. CASE q.ok
  <2>1. Wordless(doc) = {} /\ Printed(q).text = whole
    BY <1>2, <1>3, <1>4, PendingRead
  <2>2. r = Printed(q) /\ r.ok
    BY <1>1, <1>4 DEF PrintedOrNot, Printed
  <2> QED
    BY <2>1, <2>2 DEF WholeOrNot, whole
<1>5. CASE ~q.ok
  <2>1. Wordless(doc) # {} \/ Len(whole) + 5 > INT_MAX \/ length < Len(whole) + 6
    BY <1>2, <1>3, <1>5, PendingFailed
  <2>2. ~r.ok
    BY <1>1, <1>5 DEF PrintedOrNot, NotPrinted
  <2>3. Len(whole) \in Nat /\ INT_MAX \in Nat
    BY <1>2, PrinterAssumption
  <2>4. Wordless(doc) # {} \/ length < Len(whole) + 1 + 5
    BY <2>1, <2>3
  <2> QED
    BY <2>2, <2>4 DEF WholeOrNot, whole
<1> QED
  BY <1>4, <1>5

\* move_text moves the text and the 0 after it.
LEMMA MoveTextRead ==
  ASSUME NEW q, Fine(q), q.ok, NEW t \in Seq(Character), NEW missing, Written(q, t, missing),
         Len(t) < Len(q.bytes), q.bytes[Len(t) + 1] = 0
  PROVE  missing = {} /\ Printed(move_text(q)).text = t
<1> DEFINE bytes == [n \in 1..(q.offset + 1) |-> CASE ~q.reallocate /\ n = q.offset + 1 -> 0
                                                   [] n \in DOMAIN q.bytes -> q.bytes[n]
                                                   [] OTHER -> Garbage]
<1>1. /\ q.bytes \in Seq(Byte) /\ missing = {} /\ Shows(q, t) /\ q.offset = Len(t) /\ Len(t) \in Nat
      /\ Len(q.bytes) \in Nat /\ DOMAIN q.bytes = 1..Len(q.bytes)
  BY DEF Fine, Buffer, Written
<1>2. move_text(q).bytes = bytes
  BY DEF move_text, Fine, Buffer
<1>3. ASSUME NEW n \in 1..(q.offset + 1)
      PROVE  bytes[n] = IF n = q.offset + 1 THEN 0 ELSE t[n]
  <2>1. n \in DOMAIN q.bytes
    BY <1>1
  <2>2. CASE n = q.offset + 1
    <3>1. q.bytes[n] = 0
      BY <1>1, <2>2
    <3> QED
      BY <2>1, <2>2, <3>1
  <2>3. CASE n # q.offset + 1
    <3>1. n \in 1..Len(t) /\ q.bytes[n] = t[n]
      BY <1>1, <2>3 DEF Shows
    <3> QED
      BY <2>1, <2>3, <3>1
  <2> QED
    BY <2>2, <2>3
<1>4. bytes \in Seq(Byte) /\ Len(bytes) = Len(t) + 1
  <2>1. \A n \in 1..(q.offset + 1) : bytes[n] \in Byte
    <3>1. 0 \in Byte /\ \A n \in 1..Len(t) : t[n] \in Byte
      <4>1. t \in Seq(Byte)
        BY CharactersAreBytes
      <4>2. \A n \in 1..Len(t) : t[n] \in Byte
        BY <4>1
      <4>3. 0 \in Byte
        BY DEF Byte
      <4> QED
        BY <4>2, <4>3
    <3>2. \A n \in 1..(q.offset + 1) : n # q.offset + 1 => n \in 1..Len(t)
      BY <1>1
    <3> HIDE DEF bytes
    <3> QED
      BY <1>3, <3>1, <3>2
  <2>2. bytes = [n \in 1..(q.offset + 1) |-> bytes[n]]
    OBVIOUS
  <2> HIDE DEF bytes
  <2> QED
    BY <1>1, <2>1, <2>2
<1> HIDE DEF bytes
<1>5. CString(bytes) = t
  <2>1. \A n \in 1..Len(t) : bytes[n] = t[n]
    BY <1>1, <1>3
  <2>2. bytes[Len(t) + 1] = 0 /\ Len(t) < Len(bytes)
    BY <1>1, <1>3, <1>4
  <2> QED
    BY <1>4, <2>1, <2>2, CStringShown
<1> QED
  BY <1>1, <1>2, <1>5 DEF Printed

\* print, behind cJSON_Print and cJSON_PrintUnformatted, does so too, and moves the
\* text to a block of its own.
LEMMA PrintWhole ==
  ASSUME NEW doc \in Documents, NEW format \in BOOLEAN,
         NEW luck \in Nat, NEW reallocate \in BOOLEAN,
         NEW r, r = print(doc, format, luck, reallocate)
  PROVE  WholeOrNot(r, doc, format, r.left = 0 \/ Len(Render(doc, format)) + 5 > INT_MAX)
<1>1. CASE luck = 0
  BY <1>1 DEF print, NotPrinted, WholeOrNot
<1>2. CASE luck # 0
  <2>9. PICK left \in Nat : left = luck - 1
    BY <1>2
  <2>2. PICK no \in BOOLEAN : no = FALSE
    OBVIOUS
  <2>0. PICK p : p = PrintBuffer(DefaultBufferSize, no, format, left, reallocate)
    OBVIOUS
  <2> DEFINE v == print_value(p, doc)
             q == update_offset(v)
             whole == Render(doc, format)
  <2>1. r = finish_print(q)
    BY <1>2, <2>0, <2>2, <2>9, Zenon DEF print
  <2>3. whole \in Seq(Character) /\ Follows(p, v) /\ Pending(v, whole, Wordless(doc)) /\ ~p.noalloc
    <3>1. whole \in Seq(Character) /\ Follows(p, v) /\ Pending(v, whole, Wordless(doc))
      BY <2>0, PrinterAssumption, NewBufferPrinted
    <3>2. p.noalloc = no
      BY <2>0 DEF PrintBuffer
    <3> QED
      BY <2>2, <3>1, <3>2, Zenon
  <2>4. Fine(v) /\ ~v.noalloc
    BY <2>3 DEF Follows
  <2> HIDE DEF v, whole
  <2>5. /\ Follows(v, q) /\ Written(q, whole, Wordless(doc)) /\ q.bytes = v.bytes /\ q.luck = v.luck
        /\ q.ok = v.ok
    BY <2>3, <2>4, MoveWritten
  <2>6. Fine(q) /\ ~q.noalloc
    BY <2>4, <2>5 DEF Follows
  <2> HIDE DEF q
  <2>7. CASE ~q.ok \/ q.luck = 0
    <3>1. r = FreeBuffer(q)
      BY <2>1, <2>7 DEF finish_print
    <3>2. ~r.ok /\ r.left = q.luck
      BY <3>1 DEF FreeBuffer, NotPrinted
    <3>3. ~q.ok => Wordless(doc) # {} \/ Len(whole) + 5 > INT_MAX \/ q.luck = 0
      BY <2>3, <2>5, <2>6, PendingFailed
    <3> QED
      BY <2>7, <3>2, <3>3 DEF WholeOrNot, whole
  <2>8. CASE ~(~q.ok \/ q.luck = 0)
    <3>1. r = Printed(move_text(q))
      BY <2>1, <2>8 DEF finish_print
    <3>2. Len(whole) < Len(q.bytes) /\ q.bytes[Len(whole) + 1] = 0
      BY <2>3, <2>5, <2>8 DEF Pending
    <3>3. Wordless(doc) = {} /\ Printed(move_text(q)).text = whole
      BY <2>3, <2>5, <2>6, <2>8, <3>2, MoveTextRead
    <3>4. r.ok
      BY <3>1 DEF Printed
    <3> QED
      BY <3>1, <3>3, <3>4 DEF WholeOrNot, whole
  <2> QED
    BY <2>7, <2>8
<1> QED
  BY <1>1, <1>2


(***************************************************************************)
(* The parse buffer                                                        *)
(***************************************************************************)

\* A parse buffer that nothing was written outside of, for a text that ends with 0.
Sound(b) == b \in ParseBuffer /\ ~b.overrun /\ b.text # <<>> /\ b.text[Len(b.text)] = 0
Inside(b) == b.offset < Len(b.text)

\* The buffer c is b, but for the offset.
Moved(b, c) == /\ Sound(c) /\ c.text = b.text /\ c.depth = b.depth
               /\ c.luck = b.luck /\ c.held = b.held

\* What malloc and free make of b: no block comes from nowhere.
Goes(b, c) == Sound(c) /\ c.text = b.text /\ c.luck + c.held <= b.luck + b.held

LEMMA SoundIs ==
  ASSUME NEW b, Sound(b)
  PROVE  /\ b.offset \in Nat /\ b.depth \in Nat /\ b.luck \in Nat /\ b.held \in Int
         /\ b.text \in Seq(Byte) /\ Len(b.text) \in Nat \ {0} /\ b.text[Len(b.text)] = 0
<1>1. b.text \in Seq(Byte) /\ b.text # <<>>
  BY DEF Sound, ParseBuffer
<1>2. Len(b.text) \in Nat \ {0}
  BY <1>1
<1> QED
  BY <1>1, <1>2 DEF Sound, ParseBuffer

LEMMA OffsetMoved ==
  ASSUME NEW b, Sound(b), NEW at \in Nat
  PROVE  Moved(b, [b EXCEPT !.offset = at]) /\ [b EXCEPT !.offset = at].offset = at
<1> DEFINE c == [b EXCEPT !.offset = at]
<1>1. c \in ParseBuffer
  BY DEF Sound, ParseBuffer
<1>2. /\ c.text = b.text /\ c.depth = b.depth /\ c.luck = b.luck /\ c.held = b.held
      /\ c.overrun = b.overrun /\ c.offset = at
  BY DEF Sound, ParseBuffer
<1> HIDE DEF c
<1>3. Moved(b, c) /\ c.offset = at
  BY <1>1, <1>2 DEF Moved, Sound
<1> QED
  BY <1>3 DEF c

LEMMA StepMoves ==
  ASSUME NEW b, Sound(b), NEW n \in Int, b.offset + n \in Nat
  PROVE  Moved(b, Step(b, n)) /\ Step(b, n).offset = b.offset + n
<1>1. Step(b, n) = [b EXCEPT !.offset = b.offset + n]
  BY DEF Step
<1> QED
  BY <1>1, OffsetMoved

LEMMA SkipMoves ==
  ASSUME NEW b, Sound(b)
  PROVE  /\ Moved(b, buffer_skip_whitespace(b)) /\ Inside(buffer_skip_whitespace(b))
         /\ Inside(b) => buffer_skip_whitespace(b).offset >= b.offset
<1> DEFINE black == {n \in b.offset..(Len(b.text) - 1) : ByteAt(b, n) > 32}
           at == IF black = {} THEN Len(b.text) - 1 ELSE Min(black)
<1>1. buffer_skip_whitespace(b) = [b EXCEPT !.offset = at]
  BY DEF buffer_skip_whitespace
<1>2. b.offset \in Nat /\ Len(b.text) \in Nat \ {0}
  BY SoundIs
<1>3. black \in SUBSET (b.offset..(Len(b.text) - 1)) /\ black \in SUBSET Nat
  BY <1>2
<1> HIDE DEF black
<1>4. at \in Nat /\ at < Len(b.text) /\ (Inside(b) => at >= b.offset)
  <2>1. CASE black = {}
    BY <1>2, <2>1 DEF Inside
  <2>2. CASE black # {}
    <3>1. at \in b.offset..(Len(b.text) - 1)
      BY <1>3, <2>2, MinIs
    <3> QED
      BY <1>2, <3>1
  <2> QED
    BY <2>1, <2>2
<1> HIDE DEF at
<1>5. Moved(b, buffer_skip_whitespace(b)) /\ buffer_skip_whitespace(b).offset = at
  BY <1>1, <1>4, OffsetMoved
<1> QED
  BY <1>4, <1>5 DEF Moved, Inside

LEMMA MallocIs ==
  ASSUME NEW b, Sound(b)
  PROVE  /\ Malloc(b).ok \in BOOLEAN
         /\ ~Malloc(b).ok => Malloc(b).b = b
         /\ Malloc(b).ok => /\ Sound(Malloc(b).b) /\ Malloc(b).b.text = b.text
                            /\ Malloc(b).b.depth = b.depth /\ Malloc(b).b.offset = b.offset
                            /\ Malloc(b).b.luck = b.luck - 1 /\ Malloc(b).b.held = b.held + 1
<1> DEFINE c == [b EXCEPT !.luck = @ - 1, !.held = @ + 1]
<1>1. b.luck \in Nat /\ b.held \in Int
  BY SoundIs
<1>2. Malloc(b).ok = (b.luck > 0) /\ Malloc(b).b = IF b.luck > 0 THEN c ELSE b
  BY DEF Malloc
<1>3. CASE b.luck > 0
  <2>1. b.luck - 1 \in Nat /\ b.held + 1 \in Int
    BY <1>1, <1>3
  <2>2. c \in ParseBuffer
    BY <2>1 DEF Sound, ParseBuffer
  <2>3. /\ c.text = b.text /\ c.depth = b.depth /\ c.luck = b.luck - 1 /\ c.held = b.held + 1
        /\ c.overrun = b.overrun /\ c.offset = b.offset
    BY DEF Sound, ParseBuffer
  <2> HIDE DEF c
  <2>4. Sound(c)
    BY <2>2, <2>3 DEF Sound
  <2>5. Malloc(b).ok /\ Malloc(b).b = c
    BY <1>2, <1>3
  <2> QED
    BY <2>3, <2>4, <2>5
<1>4. CASE ~(b.luck > 0)
  <2>1. Malloc(b).b = b
    BY <1>2, <1>4
  <2> DEFINE lucky == b.luck > 0
  <2>2. ~Malloc(b).ok /\ Malloc(b).ok \in BOOLEAN
    <3>1. Malloc(b).ok = lucky /\ ~lucky
      BY <1>2, <1>4
    <3>2. lucky \in BOOLEAN
      OBVIOUS
    <3> HIDE DEF lucky
    <3> QED
      BY <3>1, <3>2, Zenon
  <2> QED
    BY <2>1, <2>2
<1> QED
  BY <1>3, <1>4

LEMMA ReleaseIs ==
  ASSUME NEW b, Sound(b), NEW n \in Nat
  PROVE  /\ Sound(Release(b, n)) /\ Release(b, n).text = b.text /\ Release(b, n).depth = b.depth
         /\ Release(b, n).offset = b.offset
         /\ Release(b, n).luck = b.luck /\ Release(b, n).held = b.held - n
<1> DEFINE c == Release(b, n)
<1>1. c = [b EXCEPT !.held = b.held - n]
  BY DEF Release
<1>2. b.held - n \in Int
  BY SoundIs
<1> HIDE DEF c
<1>3. c \in ParseBuffer
  BY <1>1, <1>2 DEF Sound, ParseBuffer
<1>4. /\ c.text = b.text /\ c.depth = b.depth /\ c.luck = b.luck /\ c.held = b.held - n
      /\ c.overrun = b.overrun /\ c.offset = b.offset
  BY <1>1 DEF Sound, ParseBuffer
<1>5. Sound(c)
  BY <1>3, <1>4 DEF Sound
<1> QED
  BY <1>4, <1>5 DEF c

\* After a byte that is seen, and is not the 0, there is another one.
LEMMA SeesIs ==
  ASSUME NEW b, Sound(b), NEW byte, byte # 0, Sees(b, byte)
  PROVE  b.offset + 1 < Len(b.text) /\ b.text[b.offset + 1] = byte
<1>1. b.offset \in Nat /\ Len(b.text) \in Nat /\ b.text[Len(b.text)] = 0
  BY SoundIs
<1>2. b.offset < Len(b.text) /\ b.text[b.offset + 1] = byte
  BY DEF Sees, CanAccess, ByteAt
<1>3. b.offset + 1 # Len(b.text)
  BY <1>1, <1>2
<1> QED
  BY <1>1, <1>2, <1>3

LEMMA WordSeen ==
  ASSUME NEW b, Sound(b), NEW word \in Seq(Byte), word # <<>>, word[Len(word)] # 0, SeesWord(b, word)
  PROVE  b.offset + Len(word) < Len(b.text) /\ Len(word) \in Nat
<1> DEFINE n == Len(word)
           seen == SubSeq(b.text, b.offset + 1, b.offset + n)
<1>1. /\ b.offset \in Nat /\ Len(b.text) \in Nat /\ b.text[Len(b.text)] = 0
      /\ b.text \in Seq(Byte)
  BY SoundIs
<1>2. b.offset + n <= Len(b.text) /\ seen = word
  BY DEF SeesWord
<1>3. n \in Nat \ {0} /\ word[n] # 0
  OBVIOUS
<1> HIDE DEF n
<1>4. seen[n] = b.text[b.offset + n]
  BY <1>1, <1>2, <1>3
<1> HIDE DEF seen
<1>5. b.offset + n # Len(b.text)
  <2>1. b.text[b.offset + n] # 0
    BY <1>2, <1>3, <1>4
  <2> QED
    BY <1>1, <2>1
<1>6. b.offset + n < Len(b.text)
  <2>1. b.offset + n \in Nat /\ b.offset + n <= Len(b.text) /\ Len(b.text) \in Nat
    BY <1>1, <1>2, <1>3
  <2> QED
    BY <1>5, <2>1
<1> QED
  BY <1>3, <1>6 DEF n

LEMMA BomSkipped ==
  ASSUME NEW b, Sound(b)
  PROVE  Moved(b, skip_utf8_bom(b))
<1>1. b.offset \in Nat
  BY SoundIs
<1>2. Moved(b, Step(b, 3))
  BY <1>1, StepMoves
<1>3. Moved(b, b)
  BY DEF Moved
<1> QED
  BY <1>2, <1>3 DEF skip_utf8_bom

(***************************************************************************)
(* The items of the parser                                                 *)
(***************************************************************************)

\* What a parser made of item in the buffer b: one of docs and the blocks for it,
\* or what it was given.
Parsed(b, it, docs, v) ==
  /\ v.ok \in BOOLEAN /\ Goes(b, v.b) /\ v.item \in docs
  /\ v.b.held = b.held + BlocksOf[v.item] - BlocksOf[it]
  /\ v.ok => Inside(v.b) /\ v.b.depth = b.depth
  /\ ~v.ok => v.item = it

LEMMA YesParsed ==
  ASSUME NEW b, NEW it, NEW docs, NEW c, NEW new \in docs, Goes(b, c), Inside(c),
         c.depth = b.depth, c.held = b.held + BlocksOf[new] - BlocksOf[it]
  PROVE  Parsed(b, it, docs, Yes(c, new))
<1> DEFINE v == Yes(c, new)
<1>1. v.ok \in BOOLEAN /\ v.ok /\ v.b = c /\ v.item = new
  BY DEF Yes
<1> HIDE DEF v
<1>2. Parsed(b, it, docs, v)
  BY <1>1 DEF Parsed
<1> QED
  BY <1>2 DEF v

LEMMA NoParsed ==
  ASSUME NEW b, NEW docs, NEW it \in docs, NEW c, Goes(b, c), c.held = b.held,
         b.held \in Int, BlocksOf[it] \in Nat
  PROVE  Parsed(b, it, docs, No(c, it))
<1> DEFINE v == No(c, it)
<1>1. v.ok \in BOOLEAN /\ ~v.ok /\ v.b = c /\ v.item = it
  BY DEF No
<1>2. b.held = b.held + BlocksOf[it] - BlocksOf[it]
  OBVIOUS
<1> HIDE DEF v
<1>3. Parsed(b, it, docs, v)
  BY <1>1, <1>2 DEF Parsed
<1> QED
  BY <1>3 DEF v

LEMMA NoTextIs ==
  NoText \notin Seq(Byte) /\ NoText \notin Seq(Character)
<1>1. <<-1>>[1] = -1 /\ 1 \in 1..Len(<<-1>>)
  OBVIOUS
<1>2. -1 \notin Byte
  BY DEF Byte
<1>3. \A t \in Seq(Byte) : \A n \in 1..Len(t) : t[n] \in Byte
  OBVIOUS
<1>4. NoText = <<-1>>
  BY DEF NoText
<1> QED
  BY <1>1, <1>2, <1>3, <1>4, CharactersAreBytes

LEMMA NewIs ==
  ASSUME NEW it \in NewItems
  PROVE  /\ it.type = "Invalid" /\ it.string \in CharPointer /\ it.val = NoText
         /\ it.kids = <<>> /\ it \in Scalar /\ BlocksOf[it] \in Nat
         /\ BlocksOf[it] = 1 + (IF it.string # NoText THEN 1 ELSE 0)
<1>1. it.type = "Invalid" /\ it.string \in CharPointer /\ it.val = NoText /\ it.kids = <<>>
  BY DEF NewItems, Items
<1>2. it \in Scalar
  BY DEF NewItems, Items, Scalar, CharPointer
<1>3. BlocksOf[it] = OwnBlocks(it) /\ OwnBlocks(it) \in Nat
  BY <1>2, ScalarIs, OwnIs
<1>4. OwnBlocks(it) = 1 + (IF it.string # NoText THEN 1 ELSE 0)
  BY <1>1 DEF OwnBlocks
<1> QED
  BY <1>1, <1>2, <1>3, <1>4

LEMMA NewNamed ==
  ASSUME NEW string \in CharPointer
  PROVE  /\ [NewItem EXCEPT !.string = string] \in NewItems
         /\ [NewItem EXCEPT !.string = string].string = string
BY DEF NewItem, NewItems, Items

LEMMA NewItemIs ==
  NewItem \in NewItems /\ NewItem \in Scalar /\ BlocksOf[NewItem] = 1
<1>1. NewItem \in NewItems /\ NewItem.string = NoText
  BY DEF NewItem, NewItems, Items, CharPointer
<1> QED
  BY <1>1, NewIs

LEMMA NumberFilled ==
  ASSUME NEW it \in NewItems, NEW val \in Numbers
  PROVE  /\ [it EXCEPT !.type = "Number", !.val = val] \in Scalar
         /\ BlocksOf[[it EXCEPT !.type = "Number", !.val = val]] = BlocksOf[it]
<1> DEFINE new == [it EXCEPT !.type = "Number", !.val = val]
<1>1. new.type = "Number" /\ new.string = it.string /\ new \in Scalar
  BY DEF NewItems, Items, Scalar
<1> HIDE DEF new
<1>2. BlocksOf[new] = OwnBlocks(new)
  BY <1>1, ScalarIs
<1>3. OwnBlocks(new) = 1 + (IF it.string # NoText THEN 1 ELSE 0)
  BY <1>1 DEF OwnBlocks
<1>4. BlocksOf[new] = BlocksOf[it]
  BY <1>2, <1>3, NewIs
<1> QED
  BY <1>1, <1>4 DEF new

LEMMA StringFilled ==
  ASSUME NEW it \in NewItems, NEW val \in Seq(Character)
  PROVE  /\ [it EXCEPT !.type = "String", !.val = val] \in Scalar
         /\ [it EXCEPT !.type = "String", !.val = val].val = val
         /\ BlocksOf[[it EXCEPT !.type = "String", !.val = val]] = BlocksOf[it] + 1
<1> DEFINE new == [it EXCEPT !.type = "String", !.val = val]
<1>1. new.type = "String" /\ new.string = it.string /\ new.val = val /\ new \in Scalar
  BY DEF NewItems, Items, Scalar, CharPointer
<1> HIDE DEF new
<1>2. BlocksOf[new] = OwnBlocks(new)
  BY <1>1, ScalarIs
<1>3. OwnBlocks(new) = 1 + (IF it.string # NoText THEN 1 ELSE 0) + 1
  BY <1>1, NoTextIs DEF OwnBlocks
<1>4. BlocksOf[new] = BlocksOf[it] + 1
  BY <1>2, <1>3, NewIs
<1> QED
  BY <1>1, <1>4 DEF new

LEMMA WordFilled ==
  ASSUME NEW it \in NewItems, NEW word \in DOMAIN Word
  PROVE  /\ [it EXCEPT !.type = word] \in Scalar
         /\ BlocksOf[[it EXCEPT !.type = word]] = BlocksOf[it]
<1> DEFINE new == [it EXCEPT !.type = word]
<1>1. word \in {"NULL", "False", "True"}
  BY DEF Word
<1>2. new.type = word /\ new.string = it.string /\ new \in Scalar
  BY DEF NewItems, Items, Scalar, CharPointer
<1> HIDE DEF new
<1>3. BlocksOf[new] = OwnBlocks(new)
  BY <1>2, ScalarIs
<1>4. OwnBlocks(new) = 1 + (IF it.string # NoText THEN 1 ELSE 0)
  BY <1>1, <1>2 DEF OwnBlocks
<1>5. BlocksOf[new] = BlocksOf[it]
  BY <1>3, <1>4, NewIs
<1> QED
  BY <1>2, <1>5 DEF new

LEMMA ContainerFilled ==
  ASSUME NEW n \in 1..Levels, NEW it \in NewItems, NEW type \in DOMAIN Open,
         NEW kids \in Seq(Nested[n - 1])
  PROVE  /\ [it EXCEPT !.type = type, !.kids = kids] \in Nested[n]
         /\ BlocksOf[[it EXCEPT !.type = type, !.kids = kids]]
              = BlocksOf[it] + SumOf(kids, BlocksOf)
<1> DEFINE new == [it EXCEPT !.type = type, !.kids = kids]
<1>1. Levels \in Nat /\ n \in 0..Levels /\ n # 0 /\ Levels \in 0..Levels /\ n <= Levels
  BY LevelsAssumption
<1>2. type \in {"Array", "Object"}
  BY DEF Open
<1>3. new.type = type /\ new.string = it.string /\ new.kids = kids
  BY DEF NewItems, Items
<1>4. new \in Items(DOMAIN Open, {NoText}, Seq(Nested[n - 1]))
  <2> DEFINE lists == Seq(Nested[n - 1])
  <2> HIDE DEF lists
  <2>1. kids \in lists
    BY DEF lists
  <2>2. new \in Items(DOMAIN Open, {NoText}, lists)
    BY <2>1 DEF NewItems, Items, CharPointer
  <2> QED
    BY <2>2 DEF lists
<1> HIDE DEF new
<1>5. new \in Nested[n]
  <2>1. Nested[n] = Scalar \cup Items(DOMAIN Open, {NoText}, Seq(Nested[n - 1]))
    BY <1>1, NestedIs
  <2> QED
    BY <1>4, <2>1
<1>6. new \in Documents
  <2>1. Nested[n] \subseteq Nested[Levels]
    BY <1>1, NestedMonotone
  <2> QED
    BY <1>5, <2>1 DEF Documents
<1>7. BlocksOf[new] = OwnBlocks(new) + SumOf(kids, BlocksOf)
  BY <1>3, <1>6, BlocksIs
<1>8. OwnBlocks(new) = 1 + (IF it.string # NoText THEN 1 ELSE 0)
  BY <1>2, <1>3 DEF OwnBlocks
<1>9. BlocksOf[new] = BlocksOf[it] + SumOf(kids, BlocksOf)
  BY <1>7, <1>8, NewIs
<1> QED
  BY <1>5, <1>9 DEF new

(***************************************************************************)
(* Numbers, and the escapes of a string                                    *)
(***************************************************************************)

LEMMA StrtodIs ==
  ASSUME NEW w \in Seq(Byte)
  PROVE  /\ Strtod(w) \in 0..Len(w)
         /\ Strtod(w) # 0 => IsNumeral(SubSeq(w, 1, Strtod(w)))
         /\ \A n \in 1..Len(w) : IsNumeral(SubSeq(w, 1, n)) => Strtod(w) >= n
<1> DEFINE Numeral(n) == IsNumeral(SubSeq(w, 1, n))
           S == {0} \cup {n \in DOMAIN w : Numeral(n)}
<1>1. Strtod(w) = Max(S)
  BY DEF Strtod
<1> HIDE DEF Numeral
<1>2. S \in SUBSET (0..Len(w)) /\ S # {} /\ Len(w) \in Nat
  OBVIOUS
<1>3. \A n \in S : n # 0 => Numeral(n)
  OBVIOUS
<1>4. \A n \in 1..Len(w) : Numeral(n) => n \in S
  OBVIOUS
<1> HIDE DEF S
<1>5. Max(S) \in S /\ \A n \in S : Max(S) >= n
  BY <1>2, MaxIs
<1> QED
  BY <1>1, <1>2, <1>3, <1>4, <1>5 DEF Numeral

LEMMA NumberParsed ==
  ASSUME NEW b, Sound(b), Inside(b), NEW it \in NewItems
  PROVE  Parsed(b, it, Scalar, parse_number(b, it))
<1> DEFINE rest == SubSeq(b.text, b.offset + 1, Len(b.text))
           stop == {n \in DOMAIN rest : rest[n] \notin NumberByte} \cup {NumberLength + 1}
           copied == SubSeq(rest, 1, Min(stop) - 1)
           n == Strtod(copied)
           v == parse_number(b, it)
<1>1. /\ b.offset \in Nat /\ Len(b.text) \in Nat /\ b.text[Len(b.text)] = 0
      /\ b.text \in Seq(Byte) /\ b.offset < Len(b.text) /\ b.held \in Int /\ b.luck \in Nat
  BY SoundIs DEF Inside
<1>2. /\ rest \in Seq(Byte) /\ Len(rest) = Len(b.text) - b.offset
      /\ rest[Len(b.text) - b.offset] = b.text[Len(b.text)]
  <2> DEFINE t == b.text
             first == b.offset + 1
             last == Len(b.text)
  <2>1. /\ t \in Seq(Byte) /\ first \in 1..last /\ last = Len(t) /\ last \in Nat
        /\ last - first + 1 = Len(b.text) - b.offset /\ first + (last - first + 1) - 1 = last
    <3>1. t \in Seq(Byte) /\ last = Len(t) /\ last \in Nat /\ b.offset < last
      BY <1>1
    <3> HIDE DEF t, last
    <3> QED
      BY <1>1, <3>1 DEF last
  <2> HIDE DEF t, first, last
  <2>2. /\ SubSeq(t, first, last) \in Seq(Byte) /\ Len(SubSeq(t, first, last)) = last - first + 1
        /\ SubSeq(t, first, last)[last - first + 1] = t[last]
    BY <2>1
  <2> QED
    BY <2>1, <2>2 DEF t, first, last
<1>3. v = IF n = 0 THEN No(b, it)
          ELSE Yes(Step(b, n), [it EXCEPT !.type = "Number", !.val = SubSeq(copied, 1, n)])
  BY Zenon DEF parse_number
<1> HIDE DEF rest, v
<1>4. Len(rest) \in Nat \ {0} /\ rest[Len(rest)] = 0
  BY <1>1, <1>2
<1>5. 0 \notin NumberByte
  BY DEF NumberByte, Digit, Minus
<1>6. NumberLength \in Nat \ {0}
  BY ParserAssumption
<1>7. stop \in SUBSET Nat /\ Len(rest) \in stop /\ \A m \in stop : m >= 1
  BY <1>2, <1>4, <1>5, <1>6
<1>13. \A m \in 1..Len(rest) : m \notin stop => rest[m] \in Character
  BY <1>2, <1>5 DEF Character
<1>14. NumberLength + 1 \in stop
  OBVIOUS
<1> HIDE DEF stop
<1>8. Min(stop) \in 1..Len(rest) /\ \A m \in stop : Min(stop) <= m
  <2>1. Min(stop) \in stop /\ \A m \in stop : Min(stop) <= m
    BY <1>7, MinIs
  <2>2. Min(stop) \in Nat /\ Min(stop) >= 1 /\ Min(stop) <= Len(rest)
    BY <1>7, <2>1
  <2> QED
    BY <1>4, <2>1, <2>2
<1>9. copied \in Seq(Character) /\ copied \in Seq(Byte) /\ Len(copied) = Min(stop) - 1
  <2> DEFINE last == Min(stop) - 1
  <2>1. last \in 0..Len(rest) /\ \A m \in 1..last : m \notin stop
    BY <1>4, <1>8
  <2> HIDE DEF last
  <2>2. \A m \in 1..last : rest[m] \in Character
    BY <1>4, <1>13, <2>1
  <2>3. SubSeq(rest, 1, last) = [m \in 1..last |-> rest[m]]
    BY <1>2, <1>4, <2>1
  <2>4. SubSeq(rest, 1, last) \in Seq(Character) /\ Len(SubSeq(rest, 1, last)) = last
    BY <2>1, <2>2, <2>3
  <2> QED
    BY <2>4, CharactersAreBytes DEF last
<1> HIDE DEF copied
<1>10. n \in 0..(Len(rest) - 1) /\ n \in 0..Len(copied)
  <2>1. n \in 0..Len(copied)
    BY <1>9, StrtodIs
  <2> QED
    BY <1>4, <1>8, <1>9, <2>1
<1> HIDE DEF n
<1>11. CASE n = 0
  <2>1. v = No(b, it)
    BY <1>3, <1>11
  <2>2. it \in Scalar /\ BlocksOf[it] \in Nat /\ Goes(b, b)
    BY <1>1, NewIs DEF Goes
  <2> QED
    BY <1>1, <2>1, <2>2, NoParsed DEF v
<1>12. CASE n # 0
  <2> DEFINE new == [it EXCEPT !.type = "Number", !.val = SubSeq(copied, 1, n)]
             c == Step(b, n)
  <2>1. SubSeq(copied, 1, n) \in Numbers
    <3> DEFINE val == SubSeq(copied, 1, n)
    <3>1. val \in Seq(Character) /\ Len(val) = n
      BY <1>9, <1>10
    <3>2. IsNumeral(val)
      BY <1>9, <1>12, StrtodIs DEF n
    <3>3. n \in 1..NumberLength
      BY <1>6, <1>8, <1>9, <1>10, <1>12, <1>14
    <3> HIDE DEF val
    <3> QED
      BY <3>1, <3>2, <3>3 DEF Numbers, val
  <2>2. new \in Scalar /\ BlocksOf[new] = BlocksOf[it] /\ BlocksOf[it] \in Nat
    BY <2>1, NumberFilled, NewIs
  <2>3. v = Yes(c, new)
    BY <1>3, <1>12
  <2> HIDE DEF new
  <2>4. n \in Int /\ b.offset + n \in Nat /\ b.offset + n < Len(b.text)
    BY <1>1, <1>2, <1>10
  <2>5. Moved(b, c) /\ c.offset = b.offset + n
    BY <2>4, StepMoves
  <2> HIDE DEF c
  <2>6. Goes(b, c) /\ Inside(c) /\ c.depth = b.depth /\ c.held = b.held
    BY <1>1, <2>4, <2>5 DEF Moved, Goes, Inside
  <2>7. b.held = b.held + BlocksOf[new] - BlocksOf[it]
    BY <1>1, <2>2
  <2> QED
    BY <2>2, <2>3, <2>6, <2>7, YesParsed DEF v
<1> QED
  BY <1>11, <1>12 DEF v

\* The largest numbers of two bytes, and the last code point.
Short == 65535
LastCode == 1114111

LEMMA HexIs ==
  ASSUME NEW b, NEW n
  PROVE  parse_hex4(b, n) \in Nat /\ parse_hex4(b, n) <= Short
<1> DEFINE d(i) == HexDigit[ByteAt(b, n + i)]
           hex == parse_hex4(b, n)
           bad == \E i \in 0..3 : ByteAt(b, n + i) \notin DOMAIN HexDigit
<1>1. hex = IF bad THEN 0 ELSE 4096 * d(0) + 256 * d(1) + 16 * d(2) + d(3)
  BY SMT DEF parse_hex4
<1>2. ASSUME NEW c \in DOMAIN HexDigit
      PROVE  HexDigit[c] \in 0..15
  BY SMT DEF HexDigit, Digit
<1>3. 0 <= Short
  BY SMT DEF Short
<1>4. CASE bad
  <2> HIDE DEF d, hex, bad
  <2> QED
    BY <1>1, <1>3, <1>4, SMT DEF hex
<1>5. CASE ~bad
  <2>1. d(0) \in 0..15 /\ d(1) \in 0..15 /\ d(2) \in 0..15 /\ d(3) \in 0..15
    BY <1>2, <1>5
  <2>2. hex = 4096 * d(0) + 256 * d(1) + 16 * d(2) + d(3)
    BY <1>1, <1>5, SMT
  <2> DEFINE w == d(0)
             x == d(1)
             y == d(2)
             z == d(3)
  <2>3. /\ w \in 0..15 /\ x \in 0..15 /\ y \in 0..15 /\ z \in 0..15
        /\ hex = 4096 * w + 256 * x + 16 * y + z
    BY <2>1, <2>2, SMT
  <2> HIDE DEF hex, bad, w, x, y, z
  <2>4. hex \in Nat /\ hex <= Short
    BY <2>3, SMT DEF Short
  <2> QED
    BY <2>4 DEF hex
<1> QED
  BY <1>4, <1>5

LEMMA Utf8Is ==
  ASSUME NEW c \in Nat, c <= LastCode
  PROVE  /\ Utf8(c) \in Seq(Byte) /\ Len(Utf8(c)) <= 4
         /\ c <= Short => Len(Utf8(c)) <= 3
<1> DEFINE Tail6(k) == 128 + ((c \div k) % 64)
           t1 == Tail6(1)
           t2 == Tail6(64)
           t3 == Tail6(4096)
           b2 == 192 + (c \div 64)
           b3 == 224 + (c \div 4096)
           b4 == 240 + (c \div 262144)
           one == c < 128
           two == c \in 128..2047
           three == c \in 2048..65535
<1>1. /\ one => Utf8(c) = <<c>>
      /\ ~one /\ two => Utf8(c) = <<b2, t1>>
      /\ ~one /\ ~two /\ three => Utf8(c) = <<b3, t2, t1>>
      /\ ~one /\ ~two /\ ~three => Utf8(c) = <<b4, t3, t2, t1>>
  <2> DEFINE o1 == <<c>>
             o2 == <<b2, t1>>
             o3 == <<b3, t2, t1>>
             o4 == <<b4, t3, t2, t1>>
  <2>1. Utf8(c) = CASE one -> o1 [] two -> o2 [] three -> o3 [] OTHER -> o4
    BY SMT DEF Utf8
  <2>6. (one => ~two /\ ~three) /\ (two => ~three)
    <3>1. two => c >= 128 /\ c <= 2047
      OBVIOUS
    <3>2. three => c >= 2048
      OBVIOUS
    <3>3. one => c < 128
      OBVIOUS
    <3> HIDE DEF one, two, three, o1, o2, o3, o4, t1, t2, t3, b2, b3, b4
    <3> QED
      BY <3>1, <3>2, <3>3
  <2> HIDE DEF one, two, three, o1, o2, o3, o4
  <2>2. ASSUME one
        PROVE  Utf8(c) = o1
    BY <2>1, <2>2, <2>6, SMT
  <2>3. ASSUME ~one, two
        PROVE  Utf8(c) = o2
    BY <2>1, <2>3, <2>6, SMT
  <2>4. ASSUME ~one, ~two, three
        PROVE  Utf8(c) = o3
    BY <2>1, <2>4, SMT
  <2>5. ASSUME ~one, ~two, ~three
        PROVE  Utf8(c) = o4
    BY <2>1, <2>5, SMT
  <2> HIDE DEF t1, t2, t3, b2, b3, b4
  <2> QED
    BY <2>2, <2>3, <2>4, <2>5 DEF o1, o2, o3, o4
<1>2. t1 \in Byte /\ t2 \in Byte /\ t3 \in Byte
  BY SMT DEF Byte
<1>3. /\ one => c \in Byte
      /\ two => b2 \in Byte
  BY SMT DEF Byte
<1>4. three => b3 \in Byte
  BY SMT DEF Byte
<1>5. b4 \in Byte
  BY SMT DEF Byte, LastCode
<1>6. c <= Short => one \/ two \/ three
  BY SMT DEF Short
<1> HIDE DEF t1, t2, t3, b2, b3, b4, one, two, three, Tail6
<1>7. CASE one
  <2>1. Utf8(c) = <<c>>
    BY <1>1, <1>7
  <2> QED
    BY <1>3, <1>7, <2>1
<1>8. CASE ~one /\ two
  <2>1. Utf8(c) = <<b2, t1>>
    BY <1>1, <1>8
  <2> QED
    BY <1>2, <1>3, <1>8, <2>1
<1>9. CASE ~one /\ ~two /\ three
  <2>1. Utf8(c) = <<b3, t2, t1>>
    BY <1>1, <1>9
  <2> QED
    BY <1>2, <1>4, <1>9, <2>1
<1>10. CASE ~one /\ ~two /\ ~three
  <2>1. Utf8(c) = <<b4, t3, t2, t1>>
    BY <1>1, <1>10
  <2> QED
    BY <1>2, <1>5, <1>6, <1>10, <2>1
<1> QED
  BY <1>7, <1>8, <1>9, <1>10

\* What \u stands for is no longer than half of what it is written with.
LEMMA LiteralIs ==
  ASSUME NEW b, NEW n \in Nat, NEW end \in Nat
  PROVE  LET literal == utf16_literal_to_utf8(b, n, end)
         IN /\ literal.bytes \in Seq(Byte)
            /\ \/ literal.length = 0
               \/ literal.length = 6 /\ Len(literal.bytes) <= 3 /\ n + 6 <= end
               \/ literal.length = 12 /\ Len(literal.bytes) <= 4 /\ n + 12 <= end
<1> DEFINE first == parse_hex4(b, n + 2)
           second == parse_hex4(b, n + 8)
           Fail0 == [length |-> 0, bytes |-> <<>>]
           Code(high, low) == 65536 + 1024 * (high % 1024) + (low % 1024)
           code == Code(first, second)
           literal == utf16_literal_to_utf8(b, n, end)
<1>1. first \in Nat /\ first <= Short /\ second \in Nat
  BY HexIs
<1>2. \/ literal = Fail0
      \/ literal = [length |-> 12, bytes |-> Utf8(code)] /\ ~(end - n < 12)
      \/ literal = [length |-> 6, bytes |-> Utf8(first)] /\ ~(end - n < 6)
  <2> DEFINE short == end - n < 6
             enough == end - n >= 6
             long == end - n >= 12
  <2>1. (short \/ enough) /\ ~(short /\ enough)
    OBVIOUS
  <2>2. literal = CASE short -> Fail0
                    [] enough /\ first \in LowSurrogate -> Fail0
                    [] enough /\ first \in HighSurrogate ->
                         IF end - n < 12 THEN Fail0
                         ELSE IF ByteAt(b, n + 6) # Backslash \/ ByteAt(b, n + 7) # 117
                                 \/ second \notin LowSurrogate THEN Fail0
                         ELSE [length |-> 12, bytes |-> Utf8(code)]
                    [] OTHER -> [length |-> 6, bytes |-> Utf8(first)]
    BY SMT DEF utf16_literal_to_utf8
  <2> HIDE DEF literal, first, second, Fail0, enough, Code
  <2>3. CASE short
    BY <2>1, <2>2, <2>3
  <2>4. CASE ~short /\ first \in LowSurrogate
    BY <2>1, <2>2, <2>4
  <2>5. CASE ~short /\ first \notin LowSurrogate /\ first \in HighSurrogate
    BY <2>1, <2>2, <2>5
  <2>6. CASE ~short /\ first \notin LowSurrogate /\ first \notin HighSurrogate
    BY <2>1, <2>2, <2>6
  <2> QED
    BY <2>3, <2>4, <2>5, <2>6
<1>3. /\ Utf8(code) \in Seq(Byte) /\ Len(Utf8(code)) <= 4
      /\ Utf8(first) \in Seq(Byte) /\ Len(Utf8(first)) <= 3
  <2>1. ASSUME NEW high \in Nat, NEW low \in Nat
        PROVE  Code(high, low) \in Nat /\ Code(high, low) <= LastCode
    <3>1. high % 1024 \in 0..1023 /\ low % 1024 \in 0..1023
      BY SMT
    <3> QED
      BY <3>1, SMT DEF LastCode
  <2>3. Short <= LastCode
    BY SMT DEF Short, LastCode
  <2>4. Short \in Nat /\ LastCode \in Nat
    BY SMT DEF Short, LastCode
  <2> HIDE DEF Code, first, second
  <2>2. code \in Nat /\ code <= LastCode /\ first \in Nat /\ first <= LastCode /\ first <= Short
    BY <1>1, <2>1, <2>3, <2>4
  <2> HIDE DEF code
  <2> QED
    BY <2>2, Utf8Is
<1>4. <<>> \in Seq(Byte)
  OBVIOUS
<1>5. /\ ~(end - n < 12) => n + 12 <= end
      /\ ~(end - n < 6) => n + 6 <= end
  OBVIOUS
<1> DEFINE three == Utf8(first)
           four == Utf8(code)
<1> HIDE DEF literal, three, four
<1>6. CASE literal = Fail0
  BY <1>4, <1>6 DEF literal
<1>7. CASE literal = [length |-> 12, bytes |-> four] /\ ~(end - n < 12)
  <2>1. four \in Seq(Byte) /\ Len(four) <= 4
    BY <1>3 DEF four
  <2> QED
    BY <1>5, <1>7, <2>1 DEF literal
<1>8. CASE literal = [length |-> 6, bytes |-> three] /\ ~(end - n < 6)
  <2>1. three \in Seq(Byte) /\ Len(three) <= 3
    BY <1>3 DEF three
  <2> QED
    BY <1>5, <1>8, <2>1 DEF literal
<1> QED
  BY <1>2, <1>6, <1>7, <1>8 DEF three, four

(***************************************************************************)
(* Strings: the copy fits the block that was counted for it                *)
(***************************************************************************)

LEMMA EscapesAre ==
  ASSUME NEW b, Sound(b), NEW quote \in Nat
  PROVE  /\ Escapes(b, quote) \in SUBSET Nat /\ IsFiniteSet(Escapes(b, quote))
         /\ \A n \in Escapes(b, quote) : /\ n > quote /\ ByteAt(b, n) = Backslash
                                          /\ n - 1 \notin Escapes(b, quote)
         /\ \A n \in (quote + 1)..(Len(b.text) - 1) :
              ByteAt(b, n) = Backslash /\ n - 1 \notin Escapes(b, quote) => n \in Escapes(b, quote)
<1> DEFINE N == Len(b.text) - 1
           Begins(n, before) == n > quote /\ ByteAt(b, n) = Backslash /\ ~before
           begins[n \in 0..N] == n > quote /\ ByteAt(b, n) = Backslash /\ ~begins[n - 1]
           step == [x \in (1..N) \X BOOLEAN |-> Begins(x[1], x[2])]
           E == Escapes(b, quote)
<1>1. N \in Nat
  BY SoundIs
<1>2. E = {n \in 0..N : begins[n]}
  BY Zenon DEF Escapes
<1>3. begins = CHOOSE f : f = [n \in 0..N |-> Begins(n, f[n - 1])]
  BY Zenon
<1> HIDE DEF N, begins, E
<1>4. step \in [(1..N) \X BOOLEAN -> BOOLEAN]
  BY Zenon
<1>5. PICK f \in [0..N -> BOOLEAN] : Recurs(f, N, FALSE, step)
  <2>1. FALSE \in BOOLEAN
    OBVIOUS
  <2> HIDE DEF step
  <2> QED
    BY <1>1, <1>4, <2>1, Recursion
<1>6. ASSUME NEW n \in 0..N
      PROVE  f[n] = Begins(n, f[n - 1])
  <2>1. CASE n = 0
    <3>1. ~(n > quote) /\ f[n] = FALSE
      BY <1>5, <2>1 DEF Recurs
    <3> QED
      BY <3>1
  <2>2. CASE n # 0
    <3>1. n \in 1..N /\ n - 1 \in 0..N
      BY <1>1, <2>2
    <3>2. f[n - 1] \in BOOLEAN /\ f[n] = step[<<n, f[n - 1]>>]
      BY <1>5, <3>1 DEF Recurs
    <3>3. <<n, f[n - 1]>> \in (1..N) \X BOOLEAN /\ <<n, f[n - 1]>>[1] = n /\ <<n, f[n - 1]>>[2] = f[n - 1]
      BY <3>1, <3>2
    <3> HIDE DEF Begins
    <3> QED
      BY <3>2, <3>3
  <2> QED
    BY <2>1, <2>2
<1> HIDE DEF Begins
<1>7. f = [n \in 0..N |-> Begins(n, f[n - 1])]
  <2>1. f = [n \in 0..N |-> f[n]]
    BY <1>5
  <2> QED
    BY <1>6, <2>1, Zenon
<1>8. begins = [n \in 0..N |-> Begins(n, begins[n - 1])]
  BY <1>3, <1>7, Zenon
<1>9. ASSUME NEW n \in E
      PROVE  n \in 0..N /\ n > quote /\ ByteAt(b, n) = Backslash /\ n - 1 \notin E
  <2>1. n \in 0..N /\ begins[n]
    BY <1>2
  <2>2. Begins(n, begins[n - 1])
    BY <1>8, <2>1
  <2>3. n > quote /\ ByteAt(b, n) = Backslash /\ ~begins[n - 1]
    BY <2>2 DEF Begins
  <2> QED
    BY <1>2, <2>1, <2>3
<1>10. E \in SUBSET (0..N)
  BY <1>9
<1>11. IsFiniteSet(0..N)
  BY <1>1, FS_Interval
<1>12. IsFiniteSet(E) /\ E \in SUBSET Nat
  <2>1. 0..N \subseteq Nat
    BY <1>1
  <2>2. IsFiniteSet(E)
    BY <1>10, <1>11, FS_Subset
  <2> QED
    BY <1>10, <2>1, <2>2
<1>13. ASSUME NEW n \in (quote + 1)..N, ByteAt(b, n) = Backslash, n - 1 \notin E
       PROVE  n \in E
  <2>1. n \in 0..N /\ n > quote /\ n - 1 \in 0..N
    BY <1>1
  <2>2. ~begins[n - 1]
    BY <1>2, <1>13, <2>1
  <2>3. Begins(n, begins[n - 1])
    BY <1>13, <2>1, <2>2 DEF Begins
  <2>4. begins[n]
    BY <1>8, <2>1, <2>3
  <2> QED
    BY <1>2, <2>1, <2>4
<1> QED
  BY <1>9, <1>12, <1>13 DEF E, N

\* The escapes before a byte.
Before(E, n) == {m \in E : m < n}

LEMMA BeforeIs ==
  ASSUME NEW E \in SUBSET Nat, IsFiniteSet(E), NEW n \in Nat
  PROVE  IsFiniteSet(Before(E, n)) /\ Cardinality(Before(E, n)) \in Nat
<1>1. Before(E, n) \subseteq E
  BY DEF Before
<1> QED
  BY <1>1, GainsNone

LEMMA NoneMore ==
  ASSUME NEW E \in SUBSET Nat, NEW n \in Nat, n \notin E
  PROVE  Before(E, n + 1) = Before(E, n)
<1>1. ASSUME NEW m \in E
      PROVE  m < n + 1 <=> m < n
  <2>1. m \in Nat /\ m # n
    OBVIOUS
  <2> QED
    BY <2>1
<1> QED
  BY <1>1 DEF Before

\* Of two bytes next to each other, one begins an escape at most.
LEMMA OneMore ==
  ASSUME NEW E \in SUBSET Nat, IsFiniteSet(E), \A m \in E : m - 1 \notin E, NEW n \in Nat
  PROVE  Cardinality(Before(E, n + 2)) <= Cardinality(Before(E, n)) + 1
<1> DEFINE x == IF n \in E THEN n ELSE n + 1
<1>1. ASSUME NEW m \in E, m < n + 2
      PROVE  m < n \/ m = x
  <2>1. m \in Nat /\ (m < n \/ m = n \/ m = n + 1)
    BY <1>1
  <2>2. m = n + 1 => m - 1 = n
    OBVIOUS
  <2>3. m = n + 1 => n \notin E
    BY <2>2
  <2> QED
    BY <2>1, <2>3
<1>2. Before(E, n + 2) \subseteq Before(E, n) \cup {x}
  <2> HIDE DEF x
  <2> QED
    BY <1>1 DEF Before
<1>3. IsFiniteSet(Before(E, n))
  BY BeforeIs
<1> HIDE DEF x
<1> QED
  BY <1>2, <1>3, GainsAtMostOne

LEMMA MoreAtMost ==
  ASSUME NEW E \in SUBSET Nat, IsFiniteSet(E), NEW m \in Nat, NEW n \in Nat
  PROVE  /\ m <= n => Cardinality(Before(E, n)) <= Cardinality(Before(E, m)) + (n - m)
         /\ n <= m => Cardinality(Before(E, n)) <= Cardinality(Before(E, m))
<1>1. IsFiniteSet(Before(E, m)) /\ IsFiniteSet(Before(E, n))
  BY BeforeIs
<1>2. ASSUME n <= m
      PROVE  Cardinality(Before(E, n)) <= Cardinality(Before(E, m))
  <2>1. Before(E, n) \subseteq Before(E, m)
    <3>1. \A x \in E : x \in Nat /\ (x < n => x < m)
      BY <1>2
    <3> QED
      BY <3>1 DEF Before
  <2> QED
    BY <1>1, <2>1, GainsNone
<1>3. ASSUME m <= n
      PROVE  Cardinality(Before(E, n)) <= Cardinality(Before(E, m)) + (n - m)
  <2> DEFINE between == m..(n - 1)
  <2>1. IsFiniteSet(between) /\ Cardinality(between) = n - m
    <3>1. /\ IsFiniteSet(m..(n - 1))
          /\ Cardinality(m..(n - 1)) = IF m > n - 1 THEN 0 ELSE (n - 1) - m + 1
      BY FS_Interval
    <3>2. (IF m > n - 1 THEN 0 ELSE (n - 1) - m + 1) = n - m
      BY <1>3
    <3> QED
      BY <3>1, <3>2
  <2>2. Before(E, n) \subseteq Before(E, m) \cup between
    <3>1. \A x \in E : x \in Nat /\ (x < n => x < m \/ x \in between)
      BY <1>3
    <3> HIDE DEF between
    <3> QED
      BY <3>1 DEF Before
  <2> HIDE DEF between
  <2>3. Cardinality(Before(E, n)) <= Cardinality(Before(E, m)) + Cardinality(between)
    BY <1>1, <2>1, <2>2, CoverIsNoSmaller
  <2> QED
    BY <2>1, <2>3
<1> QED
  BY <1>2, <1>3

LEMMA QuoteFound ==
  ASSUME NEW b, Sound(b), NEW quote \in Nat, FindQuote(b, quote).ok
  PROVE  LET found == FindQuote(b, quote)
         IN /\ found.end \in (quote + 1)..(Len(b.text) - 1)
            /\ ByteAt(b, found.end) = Quote
            /\ found.skipped = Cardinality(Before(Escapes(b, quote), found.end))
<1> DEFINE escapes == Escapes(b, quote)
           ends == {n \in (quote + 1)..(Len(b.text) - 1) :
                      ByteAt(b, n) = Quote /\ n - 1 \notin escapes}
           found == FindQuote(b, quote)
<1>1. found = IF ends = {} THEN [ok |-> FALSE, end |-> quote, skipped |-> 0]
              ELSE [ok |-> TRUE, end |-> Min(ends),
                    skipped |-> Cardinality({n \in escapes : n < Min(ends)})]
  BY Zenon DEF FindQuote
<1>2. Len(b.text) \in Nat
  BY SoundIs
<1>3. \A n \in ends : n \in Nat /\ n \in (quote + 1)..(Len(b.text) - 1) /\ ByteAt(b, n) = Quote
  BY <1>2
<1> HIDE DEF ends, found
<1>4. ends # {}
  BY <1>1 DEF found
<1>5. Min(ends) \in ends
  <2>1. ends \in SUBSET Nat
    BY <1>3
  <2> QED
    BY <1>4, <2>1, MinIs
<1>6. found.end = Min(ends) /\ found.skipped = Cardinality({n \in escapes : n < Min(ends)})
  BY <1>1, <1>4
<1>7. found.end \in (quote + 1)..(Len(b.text) - 1) /\ ByteAt(b, found.end) = Quote
  BY <1>3, <1>5, <1>6
<1>8. found.skipped = Cardinality(Before(escapes, found.end))
  BY <1>6 DEF Before
<1> QED
  BY <1>7, <1>8 DEF found

\* How far the copy of a string is: no longer than what it is copied from, but for
\* the escapes.
Copies == [ok : BOOLEAN, at : Nat, out : Seq(Byte)]
Copied(b, quote, end, s) ==
  /\ s \in Copies /\ s.at \in (quote + 1)..(end + 1)
  /\ Len(s.out) + Cardinality(Before(Escapes(b, quote), s.at)) <= s.at - quote - 1

LEMMA PutKeeps ==
  ASSUME NEW b, Sound(b), NEW quote \in Nat, NEW end \in Nat, NEW s, Copied(b, quote, end, s),
         NEW length \in Nat, NEW bytes \in Seq(Byte), s.at + length <= end + 1,
         Len(bytes) + Cardinality(Before(Escapes(b, quote), s.at + length))
           <= length + Cardinality(Before(Escapes(b, quote), s.at))
  PROVE  Copied(b, quote, end, [s EXCEPT !.at = @ + length, !.out = @ \o bytes])
<1> DEFINE r == [s EXCEPT !.at = @ + length, !.out = @ \o bytes]
           E == Escapes(b, quote)
           at == s.at
           c1 == Cardinality(Before(E, at))
           c2 == Cardinality(Before(E, at + length))
<1>1. /\ s \in Copies /\ at \in (quote + 1)..(end + 1) /\ Len(s.out) + c1 <= at - quote - 1
      /\ at \in Nat /\ s.out \in Seq(Byte)
  BY DEF Copied, Copies
<1>2. c1 \in Nat /\ c2 \in Nat
  <2>1. at + length \in Nat
    BY <1>1
  <2> QED
    BY <1>1, <2>1, EscapesAre, BeforeIs
<1>3. at + length \in (quote + 1)..(end + 1) /\ at + length \in Nat
  BY <1>1
<1>4. /\ s.out \o bytes \in Seq(Byte) /\ Len(s.out \o bytes) = Len(s.out) + Len(bytes)
      /\ Len(s.out) \in Nat /\ Len(bytes) \in Nat
  BY <1>1, ConcatProperties
<1>5. r \in Copies /\ r.at = at + length /\ r.out = s.out \o bytes
  BY <1>1, <1>3, <1>4 DEF Copies
<1> HIDE DEF r
<1>6. Len(bytes) + c2 <= length + c1
  OBVIOUS
<1> HIDE DEF c1, c2, at
<1>7. Len(s.out) + Len(bytes) + c2 <= at + length - quote - 1
  BY <1>1, <1>2, <1>3, <1>4, <1>6
<1>8. Copied(b, quote, end, r)
  <2> DEFINE there == at + length
             n == Len(bytes)
             from == Len(s.out)
             c3 == Cardinality(Before(Escapes(b, quote), there))
  <2>1. r.at = there /\ Len(r.out) = from + n /\ c3 = c2
    BY <1>4, <1>5 DEF c2
  <2>2. from + n + c3 <= there - quote - 1
    <3>1. from + n + c2 <= there - quote - 1
      <4>1. at + length - quote - 1 = there - quote - 1
        BY <1>1
      <4> HIDE DEF there
      <4> QED
        BY <1>7, <4>1
    <3> HIDE DEF from, n, there
    <3> QED
      BY <2>1, <3>1
  <2>3. r \in Copies /\ there \in (quote + 1)..(end + 1)
    BY <1>3, <1>5
  <2> HIDE DEF there, n, from
  <2>4. Len(r.out) + c3 <= there - quote - 1
    BY <2>1, <2>2
  <2> QED
    BY <2>1, <2>3, <2>4 DEF Copied
<1> QED
  BY <1>8 DEF r, at

LEMMA ResolveKeeps ==
  ASSUME NEW b, Sound(b), NEW quote \in Nat, NEW end \in Nat, end < Len(b.text),
         NEW s, Copied(b, quote, end, s)
  PROVE  Copied(b, quote, end, Resolve(b, s, end))
<1> DEFINE E == Escapes(b, quote)
           byte == ByteAt(b, s.at)
           code == ByteAt(b, s.at + 1)
           literal == utf16_literal_to_utf8(b, s.at, end)
           Put(length, bytes) == [s EXCEPT !.at = @ + length, !.out = @ \o bytes]
           r == Resolve(b, s, end)
<1>1. s \in Copies /\ s.at \in Nat /\ s.at \in (quote + 1)..(end + 1) /\ s.ok \in BOOLEAN
  BY DEF Copied, Copies
<1>2. /\ E \in SUBSET Nat /\ IsFiniteSet(E)
      /\ \A n \in E : ByteAt(b, n) = Backslash /\ n - 1 \notin E
  BY EscapesAre
<1>3. \/ r = s
      \/ s.at < end /\ byte # Backslash /\ r = Put(1, <<byte>>)
      \/ s.at < end /\ code \in DOMAIN Escape /\ r = Put(2, <<Escape[code]>>)
      \/ s.at < end /\ literal.length > 0 /\ r = Put(literal.length, literal.bytes)
      \/ r = [s EXCEPT !.ok = FALSE]
  <2> DEFINE p1 == Put(1, <<byte>>)
             p2 == Put(2, <<Escape[code]>>)
             p3 == Put(literal.length, literal.bytes)
             failed == [s EXCEPT !.ok = FALSE]
             done == s.at >= end
             going == s.at < end
             escape == code \in DOMAIN Escape
             hex == code = 117
             wide == literal.length > 0
  <2>1. r = CASE ~s.ok \/ done -> s
              [] s.ok /\ going /\ byte # Backslash -> p1
              [] s.ok /\ going /\ byte = Backslash ->
                   CASE escape -> p2
                     [] hex /\ wide -> p3
                     [] OTHER -> failed
    BY SMT DEF Resolve
  <2>2. (done \/ going) /\ ~(done /\ going)
    <3>1. s.at \in Nat
      BY <1>1
    <3> HIDE DEF literal, byte, code
    <3> QED
      BY <3>1
  <2>3. ~(escape /\ hex)
    BY SMT DEF Escape, Quote, Backslash
  <2> HIDE DEF r, p1, p2, p3, failed, done, going, escape, hex, wide, Put, literal, byte, code
  <2>4. CASE ~s.ok \/ done
    BY <2>1, <2>2, <2>4, SMT
  <2>5. CASE s.ok /\ going /\ byte # Backslash
    BY <2>1, <2>2, <2>5, SMT DEF going, p1
  <2>6. CASE s.ok /\ going /\ byte = Backslash
    <3>1. r = CASE escape -> p2 [] hex /\ wide -> p3 [] OTHER -> failed
      BY <2>1, <2>2, <2>6, SMT
    <3>2. CASE escape
      <4>1. r = p2
        BY <2>3, <3>1, <3>2, SMT
      <4> QED
        BY <2>6, <3>2, <4>1 DEF going, p2, escape
    <3>3. CASE ~escape /\ hex /\ wide
      <4>1. r = p3
        BY <3>1, <3>3, SMT
      <4> QED
        BY <2>6, <3>3, <4>1 DEF going, p3, wide
    <3>4. CASE ~escape /\ ~(hex /\ wide)
      <4>1. r = failed
        BY <3>1, <3>4, SMT
      <4> QED
        BY <4>1 DEF failed
    <3> QED
      BY <3>2, <3>3, <3>4
  <2> QED
    BY <2>2, <2>4, <2>5, <2>6
<1> HIDE DEF r, literal
<1>4. CASE r = s
  BY <1>4 DEF r
<1>5. CASE s.at < end /\ byte # Backslash /\ r = Put(1, <<byte>>)
  <2>1. s.at \notin E
    BY <1>2, <1>5
  <2>2. Before(E, s.at + 1) = Before(E, s.at)
    BY <1>1, <1>2, <2>1, NoneMore
  <2>3. <<byte>> \in Seq(Byte) /\ Len(<<byte>>) = 1
    <3>1. b.text \in Seq(Byte) /\ s.at + 1 \in 1..Len(b.text)
      BY <1>1, <1>5, SoundIs
    <3>2. byte \in Byte
      BY <3>1 DEF ByteAt
    <3> HIDE DEF byte
    <3> QED
      BY <3>2
  <2> DEFINE bytes == <<byte>>
  <2>4. /\ s.at + 1 <= end + 1 /\ 1 \in Nat
        /\ Len(bytes) + Cardinality(Before(E, s.at + 1)) <= 1 + Cardinality(Before(E, s.at))
    <3>1. Cardinality(Before(E, s.at)) \in Nat
      BY <1>1, <1>2, BeforeIs
    <3> QED
      BY <1>1, <1>5, <2>2, <2>3, <3>1
  <2> HIDE DEF bytes
  <2>5. Copied(b, quote, end, Put(1, bytes))
    BY <2>3, <2>4, PutKeeps DEF bytes
  <2> QED
    BY <1>5, <2>5 DEF bytes, r
<1>6. CASE s.at < end /\ code \in DOMAIN Escape /\ r = Put(2, <<Escape[code]>>)
  <2>1. Cardinality(Before(E, s.at + 2)) <= Cardinality(Before(E, s.at)) + 1
    BY <1>1, <1>2, OneMore
  <2> DEFINE bytes == <<Escape[code]>>
  <2>2. bytes \in Seq(Byte) /\ Len(bytes) = 1
    <3>1. Escape[code] \in Byte
      <4> HIDE DEF code
      <4> QED
        BY <1>6 DEF Escape, Byte, Quote, Backslash, NewLine, Tab
    <3> QED
      BY <3>1
  <2> HIDE DEF bytes
  <2>3. /\ s.at + 2 <= end + 1 /\ 2 \in Nat
        /\ Len(bytes) + Cardinality(Before(E, s.at + 2)) <= 2 + Cardinality(Before(E, s.at))
    <3>2. s.at \in Nat /\ s.at + 2 \in Nat
      BY <1>1
    <3>1. Cardinality(Before(E, s.at)) \in Nat /\ Cardinality(Before(E, s.at + 2)) \in Nat
      BY <1>2, <3>2, BeforeIs
    <3> QED
      BY <1>1, <1>6, <2>1, <2>2, <3>1
  <2>4. Copied(b, quote, end, Put(2, bytes))
    BY <2>2, <2>3, PutKeeps
  <2> QED
    BY <1>6, <2>4 DEF bytes, r
<1>7. CASE s.at < end /\ literal.length > 0 /\ r = Put(literal.length, literal.bytes)
  <2> DEFINE Count(n) == Cardinality(Before(E, n))
             at == s.at
  <2>1. \A n \in Nat : Count(n) \in Nat /\ Count(n + 2) <= Count(n) + 1
    BY <1>2, BeforeIs, OneMore
  <2>2. /\ literal.bytes \in Seq(Byte)
        /\ \/ literal.length = 6 /\ Len(literal.bytes) <= 3 /\ at + 6 <= end
           \/ literal.length = 12 /\ Len(literal.bytes) <= 4 /\ at + 12 <= end
    <3>1. literal.length # 0
      BY <1>7
    <3> QED
      BY <1>1, <3>1, LiteralIs DEF literal
  <2> HIDE DEF Count
  <2>3. Count(at + 6) <= Count(at) + 3
    <3>1. /\ at \in Nat /\ at + 2 \in Nat /\ at + 4 \in Nat /\ at + 6 \in Nat
          /\ at + 2 + 2 = at + 4 /\ at + 4 + 2 = at + 6
      BY <1>1
    <3>2. /\ Count(at + 2) <= Count(at) + 1 /\ Count(at + 4) <= Count(at + 2) + 1
          /\ Count(at + 6) <= Count(at + 4) + 1
      BY <2>1, <3>1
    <3>3. /\ Count(at) \in Nat /\ Count(at + 2) \in Nat /\ Count(at + 4) \in Nat
          /\ Count(at + 6) \in Nat
      BY <2>1, <3>1
    <3> QED
      BY <3>2, <3>3
  <2>4. Count(at + 12) <= Count(at) + 6
    <3>1. /\ at \in Nat /\ at + 6 \in Nat /\ at + 8 \in Nat /\ at + 10 \in Nat
          /\ at + 12 \in Nat
          /\ at + 6 + 2 = at + 8 /\ at + 8 + 2 = at + 10 /\ at + 10 + 2 = at + 12
      <4>1. at \in Nat
        BY <1>1
      <4> HIDE DEF at
      <4> QED
        BY <4>1
    <3>2. /\ Count(at + 8) <= Count(at + 6) + 1 /\ Count(at + 10) <= Count(at + 8) + 1
          /\ Count(at + 12) <= Count(at + 10) + 1
      BY <2>1, <3>1
    <3>3. /\ Count(at) \in Nat /\ Count(at + 6) \in Nat /\ Count(at + 8) \in Nat
          /\ Count(at + 10) \in Nat /\ Count(at + 12) \in Nat
      BY <2>1, <3>1
    <3> QED
      BY <2>3, <3>2, <3>3
  <2> DEFINE length == literal.length
             bytes == literal.bytes
  <2>5. /\ length \in Nat /\ bytes \in Seq(Byte) /\ at + length <= end + 1
        /\ Len(bytes) + Count(at + length) <= length + Count(at)
    <3>1. Len(bytes) \in Nat /\ bytes \in Seq(Byte)
      BY <2>2
    <3>2. CASE length = 6 /\ Len(bytes) <= 3 /\ at + 6 <= end
      <4>2. at \in Nat /\ at + 6 \in Nat
        BY <1>1
      <4>1. Count(at) \in Nat /\ Count(at + 6) \in Nat /\ at \in Nat
        BY <2>1, <4>2
      <4> HIDE DEF length, bytes, at
      <4> QED
        BY <2>3, <3>1, <3>2, <4>1
    <3>3. CASE length = 12 /\ Len(bytes) <= 4 /\ at + 12 <= end
      <4>2. at \in Nat /\ at + 12 \in Nat
        BY <1>1
      <4>1. Count(at) \in Nat /\ Count(at + 12) \in Nat /\ at \in Nat
        BY <2>1, <4>2
      <4> HIDE DEF length, bytes, at
      <4> QED
        BY <2>4, <3>1, <3>3, <4>1
    <3> QED
      BY <2>2, <3>2, <3>3
  <2> HIDE DEF length, bytes
  <2>6. Copied(b, quote, end, Put(length, bytes))
    BY <2>5, PutKeeps DEF Count
  <2> QED
    BY <1>7, <2>6 DEF length, bytes, r
<1>8. CASE r = [s EXCEPT !.ok = FALSE]
  <2>1. r \in Copies /\ r.at = s.at /\ r.out = s.out
    BY <1>1, <1>8 DEF Copies
  <2>2. Copied(b, quote, end, r)
    BY <2>1 DEF Copied
  <2> QED
    BY <2>2 DEF r
<1> QED
  BY <1>3, <1>4, <1>5, <1>6, <1>7, <1>8

\* The rounds of the copy.
CopyRounds(rounds, b, base, end, N) ==
  rounds = [k \in 0..N |-> IF k = 0 THEN base ELSE Resolve(b, rounds[k - 1], end)]

LEMMA UnescapeRounds ==
  ASSUME NEW b, Sound(b), NEW quote \in Nat, NEW end \in (quote + 1)..(Len(b.text) - 1),
         NEW base, base = [ok |-> TRUE, at |-> quote + 1, out |-> <<>>]
  PROVE  \E rounds :
           /\ CopyRounds(rounds, b, base, end, end - quote)
           /\ Unescape(b, quote, end) = rounds[end - quote]
           /\ \A k \in 0..(end - quote) : Copied(b, quote, end, rounds[k])
<1> DEFINE N == end - quote
           S == {s \in Copies : Copied(b, quote, end, s)}
           rounds[k \in 0..N] == IF k = 0 THEN base ELSE Resolve(b, rounds[k - 1], end)
           step == [x \in (1..N) \X S |-> Resolve(b, x[2], end)]
<1>1. N \in Nat /\ end \in Nat /\ Len(b.text) \in Nat /\ end < Len(b.text)
  BY SoundIs
<1>2. Unescape(b, quote, end) = rounds[N]
  BY Zenon DEF Unescape
<1>3. rounds = CHOOSE f : f = [k \in 0..N |-> IF k = 0 THEN base ELSE Resolve(b, f[k - 1], end)]
  BY Zenon
<1> HIDE DEF rounds, N
<1>4. base \in S
  <2>1. /\ Escapes(b, quote) \in SUBSET Nat /\ IsFiniteSet(Escapes(b, quote))
    BY EscapesAre
  <2>2. Before(Escapes(b, quote), quote + 1) = {}
    <3>1. \A m \in Escapes(b, quote) : m > quote
      BY EscapesAre
    <3>2. \A m \in Escapes(b, quote) : m \in Nat /\ ~(m < quote + 1)
      BY <2>1, <3>1
    <3> QED
      BY <3>2 DEF Before
  <2>3. Cardinality(Before(Escapes(b, quote), quote + 1)) = 0
    BY <2>2, FS_EmptySet
  <2>4. base.at = quote + 1 /\ base.out = <<>> /\ Len(<<>>) = 0
    OBVIOUS
  <2>5. <<>> \in Seq(Byte)
    OBVIOUS
  <2>6. base \in Copies
    BY <2>5 DEF Copies
  <2>7. quote + 1 \in (quote + 1)..(end + 1)
    BY <1>1
  <2>8. Copied(b, quote, end, base)
    BY <2>3, <2>4, <2>6, <2>7 DEF Copied
  <2> QED
    BY <2>6, <2>8
<1>5. ASSUME NEW s \in S
      PROVE  Resolve(b, s, end) \in S
  <2>1. Copied(b, quote, end, Resolve(b, s, end))
    BY <1>1, ResolveKeeps
  <2> QED
    BY <2>1 DEF Copied
<1> HIDE DEF S
<1>6. step \in [(1..N) \X S -> S]
  BY <1>5
<1>7. PICK f \in [0..N -> S] : Recurs(f, N, base, step)
  <2> HIDE DEF step
  <2> QED
    BY <1>1, <1>4, <1>6, Recursion
<1>8. ASSUME NEW k \in 0..N
      PROVE  f[k] = IF k = 0 THEN base ELSE Resolve(b, f[k - 1], end)
  <2>1. CASE k = 0
    BY <1>7, <2>1 DEF Recurs
  <2>2. CASE k # 0
    <3>1. k \in 1..N /\ k - 1 \in 0..N
      BY <1>1, <2>2
    <3>2. f[k - 1] \in S /\ f[k] = step[<<k, f[k - 1]>>]
      BY <1>7, <3>1 DEF Recurs
    <3> QED
      BY <2>2, <3>1, <3>2
  <2> QED
    BY <2>1, <2>2
<1>9. f = [k \in 0..N |-> IF k = 0 THEN base ELSE Resolve(b, f[k - 1], end)]
  <2>1. f = [k \in 0..N |-> f[k]]
    BY <1>7
  <2> QED
    BY <1>8, <2>1, Zenon
<1>10. rounds = [k \in 0..N |-> IF k = 0 THEN base ELSE Resolve(b, rounds[k - 1], end)]
  BY <1>3, <1>9, Zenon
<1> DEFINE T == {k \in 0..N : rounds[k] \in S}
<1>11. 0 \in T
  <2>1. 0 \in 0..N
    BY <1>1
  <2> QED
    BY <1>4, <1>10, <2>1
<1>12. ASSUME NEW k \in 1..N, k - 1 \in T
       PROVE  k \in T
  <2>1. k \in 0..N /\ k # 0
    BY <1>1
  <2>2. rounds[k] = Resolve(b, rounds[k - 1], end)
    BY <1>10, <2>1
  <2>3. Resolve(b, rounds[k - 1], end) \in S
    BY <1>5, <1>12
  <2> QED
    BY <2>1, <2>2, <2>3
<1>13. 0..N \subseteq T
  <2> HIDE DEF T
  <2> QED
    BY <1>1, <1>11, <1>12, ClimbTo
<1>14. \A k \in 0..N : Copied(b, quote, end, rounds[k])
  BY <1>13 DEF S
<1>15. CopyRounds(rounds, b, base, end, N)
  BY <1>10, Zenon DEF CopyRounds
<1> QED
  BY <1>2, <1>14, <1>15, Zenon DEF N

LEMMA UnescapeIs ==
  ASSUME NEW b, Sound(b), NEW quote \in Nat, NEW end \in (quote + 1)..(Len(b.text) - 1)
  PROVE  Copied(b, quote, end, Unescape(b, quote, end))
<1>1. PICK base : base = [ok |-> TRUE, at |-> quote + 1, out |-> <<>>]
  OBVIOUS
<1>2. PICK rounds : /\ Unescape(b, quote, end) = rounds[end - quote]
                    /\ \A k \in 0..(end - quote) : Copied(b, quote, end, rounds[k])
  BY <1>1, UnescapeRounds
<1>3. end - quote \in 0..(end - quote)
  <2>1. end - quote \in Nat
    BY SoundIs
  <2> QED
    BY <2>1
<1> QED
  BY <1>2, <1>3

LEMMA EscapesOfText ==
  ASSUME NEW b, NEW c, c.text = b.text, NEW quote
  PROVE  Escapes(c, quote) = Escapes(b, quote)
<1> DEFINE Of(t) ==
      LET begins[n \in 0..(Len(t) - 1)] == n > quote /\ t[n + 1] = Backslash /\ ~begins[n - 1]
      IN {n \in 0..(Len(t) - 1) : begins[n]}
<1>1. \A d : Escapes(d, quote) = Of(d.text)
  BY Zenon DEF Escapes, ByteAt
<1> HIDE DEF Of
<1>2. Of(c.text) = Of(b.text)
  OBVIOUS
<1> QED
  BY <1>1, <1>2

\* What was counted for the copy is enough for it and for the 0.
LEMMA CopyFits ==
  ASSUME NEW b, Sound(b), NEW quote \in Nat, NEW end \in (quote + 1)..(Len(b.text) - 1),
         NEW skipped, skipped = Cardinality(Before(Escapes(b, quote), end)),
         NEW s, Copied(b, quote, end, s)
  PROVE  Len(s.out) + 1 <= end - quote - skipped + 1 /\ Len(s.out) \in Nat
<1> DEFINE E == Escapes(b, quote)
           at == s.at
           c == Cardinality(Before(E, at))
           n == Len(s.out)
<1>1. /\ at \in (quote + 1)..(end + 1) /\ n + c <= at - quote - 1 /\ s.out \in Seq(Byte)
      /\ at \in Nat
  BY DEF Copied, Copies
<1>2. end \in Nat /\ E \in SUBSET Nat /\ IsFiniteSet(E)
  BY SoundIs, EscapesAre
<1>3. c \in Nat /\ skipped \in Nat
  BY <1>1, <1>2, BeforeIs
<1>4. /\ at <= end => skipped <= c + (end - at)
      /\ end <= at => skipped <= c
  BY <1>1, <1>2, MoreAtMost
<1>5. n \in Nat
  BY <1>1
<1> HIDE DEF n, c, at
<1>6. n + 1 <= end - quote - skipped + 1
  BY <1>1, <1>2, <1>3, <1>4, <1>5
<1> QED
  BY <1>5, <1>6 DEF n

LEMMA NoOverrunAdded ==
  ASSUME NEW b, Sound(b), NEW at \in Nat, NEW over, ~over
  PROVE  [b EXCEPT !.offset = at, !.overrun = @ \/ over] = [b EXCEPT !.offset = at]
BY DEF Sound, ParseBuffer

LEMMA StringParsed ==
  ASSUME NEW b, Sound(b), NEW it \in NewItems
  PROVE  /\ Parsed(b, it, Scalar, parse_string(b, it))
         /\ parse_string(b, it).ok => /\ parse_string(b, it).item.val \in Seq(Character)
                                       /\ parse_string(b, it).b.held = b.held + 1
<1> DEFINE start == b.offset
           found == FindQuote(b, start)
           output == Malloc(b)
           copy == Unescape(output.b, start, found.end)
           size == found.end - start - found.skipped + 1
           Fail0(buffer, at) == No([buffer EXCEPT !.offset = at], it)
           short == Len(copy.out) > size
           tight == Len(copy.out) + 1 > size
           failed == Fail0([Release(output.b, 1) EXCEPT !.overrun = @ \/ short], copy.at)
           new == [it EXCEPT !.type = "String", !.val = CString(copy.out)]
           done == [output.b EXCEPT !.offset = found.end + 1, !.overrun = @ \/ tight]
           v == parse_string(b, it)
<1>1. v = IF ~Sees(b, Quote) \/ ~found.ok \/ ~output.ok THEN Fail0(b, start + 1)
          ELSE IF ~copy.ok THEN failed ELSE Yes(done, new)
  BY Zenon DEF parse_string
<1>2. /\ start \in Nat /\ b.held \in Int /\ b.luck \in Nat /\ it \in Scalar
      /\ BlocksOf[it] \in Nat
  BY SoundIs, NewIs
<1> HIDE DEF v
<1>3. CASE ~Sees(b, Quote) \/ ~found.ok \/ ~output.ok
  <2> DEFINE c == [b EXCEPT !.offset = start + 1]
  <2>1. v = No(c, it)
    BY <1>1, <1>3
  <2>2. start + 1 \in Nat
    BY <1>2
  <2>3. Moved(b, c)
    BY <2>2, OffsetMoved
  <2> HIDE DEF c
  <2>4. Goes(b, c) /\ c.held = b.held
    BY <1>2, <2>3 DEF Moved, Goes
  <2>5. Parsed(b, it, Scalar, v) /\ ~v.ok
    BY <1>2, <2>1, <2>4, NoParsed DEF No
  <2> QED
    BY <2>5 DEF v
<1>4. CASE ~(~Sees(b, Quote) \/ ~found.ok \/ ~output.ok)
  <2> DEFINE b1 == output.b
             end == found.end
             skipped == found.skipped
  <2>1. /\ end \in (start + 1)..(Len(b.text) - 1)
        /\ skipped = Cardinality(Before(Escapes(b, start), end))
    BY <1>2, <1>4, QuoteFound
  <2>2. /\ Sound(b1) /\ b1.text = b.text /\ b1.depth = b.depth
        /\ b1.luck = b.luck - 1 /\ b1.held = b.held + 1
    BY <1>4, MallocIs
  <2> HIDE DEF output, found
  <2>3. Copied(b1, start, end, copy)
    BY <1>2, <2>1, <2>2, UnescapeIs
  <2>4. Escapes(b1, start) = Escapes(b, start)
    BY <2>2, EscapesOfText
  <2>5. Len(copy.out) + 1 <= end - start - skipped + 1 /\ Len(copy.out) \in Nat
    BY <1>2, <2>1, <2>2, <2>3, <2>4, CopyFits
  <2>6. copy.at \in Nat /\ copy.out \in Seq(Byte) /\ copy.ok \in BOOLEAN
    BY <2>3 DEF Copied, Copies
  <2> HIDE DEF copy
  <2>7. skipped \in Nat /\ end \in Nat /\ end + 1 \in Nat /\ Len(b.text) \in Nat
    <3>1. end \in Nat /\ Len(b.text) \in Nat
      BY <1>2, <2>1, SoundIs
    <3>2. skipped \in Nat
      BY <1>2, <2>1, <3>1, EscapesAre, BeforeIs
    <3> QED
      BY <3>1, <3>2
  <2>8. ~short /\ ~tight
    BY <1>2, <2>5, <2>7
  <2> HIDE DEF short, tight, b1, end, skipped
  <2>9. CASE ~copy.ok
    <3> DEFINE b2 == Release(b1, 1)
               b3 == [b2 EXCEPT !.overrun = @ \/ short]
               c == [b3 EXCEPT !.offset = copy.at]
    <3>1. v = No(c, it)
      BY <1>1, <1>4, <2>9 DEF b1
    <3>2. /\ Sound(b2) /\ b2.text = b.text /\ b2.luck = b.luck - 1 /\ b2.held = b.held
      <4>1. Release(b1, 1).held = b1.held - 1
        BY <2>2, ReleaseIs
      <4>2. b1.held - 1 = b.held
        BY <1>2, <2>2
      <4>3. Release(b1, 1).held = b.held
        BY <4>1, <4>2
      <4> QED
        BY <2>2, <4>3, ReleaseIs
    <3> HIDE DEF b2
    <3>3. b3 = b2
      BY <2>8, <3>2 DEF Sound, ParseBuffer
    <3> HIDE DEF b3
    <3>4. Moved(b2, c)
      BY <2>6, <3>2, <3>3, OffsetMoved
    <3> HIDE DEF c
    <3>5. Goes(b, c) /\ c.held = b.held
      BY <1>2, <3>2, <3>4 DEF Moved, Goes
    <3>6. Parsed(b, it, Scalar, v) /\ ~v.ok
      BY <1>2, <3>1, <3>5, NoParsed DEF No
    <3> QED
      BY <3>6 DEF v
  <2>10. CASE copy.ok
    <3> DEFINE c == [b1 EXCEPT !.offset = end + 1]
    <3>1. done = c
      BY <2>2, <2>7, <2>8, NoOverrunAdded DEF b1, end
    <3>2. v = Yes(c, new)
      <4> HIDE DEF done, c, new
      <4> QED
        BY <1>1, <1>4, <2>10, <3>1
    <3>3. CString(copy.out) \in Seq(Character)
      BY <2>6, CStringIs
    <3>4. /\ new \in Scalar /\ new.val \in Seq(Character)
          /\ BlocksOf[new] = BlocksOf[it] + 1
      BY <3>3, StringFilled
    <3> HIDE DEF new
    <3>5. Moved(b1, c) /\ c.offset = end + 1
      BY <2>2, <2>7, OffsetMoved
    <3> HIDE DEF c
    <3>6. end + 1 < Len(b.text)
      <4>1. ByteAt(b, end) = Quote
        BY <1>2, <1>4, QuoteFound DEF end, found
      <4>2. b.text[end + 1] # 0
        BY <4>1 DEF ByteAt, Quote
      <4>3. b.text[Len(b.text)] = 0 /\ end + 1 <= Len(b.text)
        BY <1>2, <2>1, <2>7, SoundIs
      <4> QED
        BY <2>7, <4>2, <4>3
    <3>7. /\ Goes(b, c) /\ Inside(c) /\ c.depth = b.depth
          /\ c.held = b.held + BlocksOf[new] - BlocksOf[it] /\ c.held = b.held + 1
      <4>1. c.held = b.held + 1 /\ c.luck = b.luck - 1
        BY <2>2, <3>5 DEF Moved
      <4>2. b.held + 1 = b.held + BlocksOf[new] - BlocksOf[it]
        BY <1>2, <3>4
      <4>3. c.luck + c.held <= b.luck + b.held
        BY <1>2, <4>1
      <4> QED
        BY <2>2, <3>5, <3>6, <4>1, <4>2, <4>3 DEF Goes, Moved, Inside
    <3>8. Parsed(b, it, Scalar, v) /\ v.item = new /\ v.b = c
      BY <3>2, <3>4, <3>7, YesParsed DEF Yes
    <3> QED
      BY <3>4, <3>7, <3>8 DEF v
  <2> QED
    BY <2>6, <2>9, <2>10
<1> QED
  BY <1>3, <1>4

(***************************************************************************)
(* Arrays and objects: whatever fails, the list so far is freed            *)
(***************************************************************************)

\* value parses one of docs at n levels, or nothing.
Parser(value, n, docs) ==
  \A b \in ParseBuffer, it \in NewItems :
    Sound(b) /\ Inside(b) /\ b.depth + n = CJSON_NESTING_LIMIT => Parsed(b, it, docs, value[b][it])

\* How far a list of docs is that began in the buffer b.
Lists(docs) == [ok : BOOLEAN, b : ParseBuffer, more : BOOLEAN, item : Seq(docs)]
Listed(b, docs, list) ==
  /\ list \in Lists(docs) /\ Goes(b, list.b)
  /\ list.b.held = b.held + SumOf(list.item, BlocksOf)
  /\ list.ok => Inside(list.b) /\ list.b.depth = b.depth

LEMMA BlocksAre ==
  ASSUME NEW n \in 0..Levels
  PROVE  /\ Nested[n] \subseteq Documents /\ Scalar \subseteq Nested[n]
         /\ \A d \in Nested[n] : BlocksOf[d] \in Nat
<1>1. Levels \in 0..Levels /\ n <= Levels
  BY LevelsAssumption
<1>2. Nested[n] \subseteq Documents
  BY <1>1, NestedMonotone DEF Documents
<1> QED
  BY <1>2, BlocksIs, ScalarIs

\* A list grows by what was made of a new item, whether that went well or not.
LEMMA ListGrows ==
  ASSUME NEW n \in 0..Levels, NEW b, NEW list, Listed(b, Nested[n], list), Sound(b),
         NEW v, v.ok \in BOOLEAN, Goes(b, v.b), v.item \in Nested[n], NEW more \in BOOLEAN,
         v.b.held = list.b.held + BlocksOf[v.item], v.ok => Inside(v.b) /\ v.b.depth = b.depth
  PROVE  Listed(b, Nested[n], Loop(v, more, list.item))
<1> DEFINE docs == Nested[n]
           r == Loop(v, more, list.item)
           kids == list.item
           kid == v.item
<1>1. \A d \in docs : BlocksOf[d] \in Nat
  BY BlocksAre
<1>2. kids \in Seq(docs) /\ kid \in docs /\ list.b.held = b.held + SumOf(kids, BlocksOf)
  BY DEF Listed, Lists
<1>3. r.ok = v.ok /\ r.b = v.b /\ r.more = more /\ r.item = Append(kids, kid)
  BY DEF Loop
<1>4. r \in Lists(docs)
  <2>1. Append(kids, kid) \in Seq(docs) /\ v.b \in ParseBuffer
    <3>1. v.b \in ParseBuffer
      BY DEF Goes, Sound
    <3> HIDE DEF docs, kids, kid
    <3> QED
      BY <1>2, <3>1
  <2> HIDE DEF docs, kids, kid
  <2> QED
    BY <2>1 DEF Lists, Loop, kids, kid
<1> HIDE DEF docs, r, kids, kid
<1>5. SumOf(kids, BlocksOf) \in Nat /\ SumOf(Append(kids, kid), BlocksOf) = SumOf(kids, BlocksOf) + BlocksOf[kid]
  BY <1>1, <1>2, SumAppend
<1>6. r.b.held = b.held + SumOf(r.item, BlocksOf)
  <2>1. b.held \in Int /\ BlocksOf[kid] \in Nat
    BY <1>1, <1>2, SoundIs
  <2>2. r.b.held = list.b.held + BlocksOf[kid] /\ SumOf(r.item, BlocksOf) = SumOf(kids, BlocksOf) + BlocksOf[kid]
    BY <1>3, <1>5 DEF kid
  <2> QED
    BY <1>2, <1>5, <2>1, <2>2
<1>7. Listed(b, docs, r)
  BY <1>3, <1>4, <1>6 DEF Listed
<1> QED
  BY <1>7 DEF docs, r, kids

LEMMA GoesOn ==
  ASSUME NEW b, NEW c, NEW d, Sound(b), Goes(b, c), Goes(c, d)
  PROVE  Goes(b, d)
<1>1. /\ b.luck \in Nat /\ b.held \in Int /\ c.luck \in Nat /\ c.held \in Int
      /\ d.luck \in Nat /\ d.held \in Int
  BY SoundIs DEF Goes
<1> QED
  BY <1>1 DEF Goes

LEMMA MovedGoes ==
  ASSUME NEW b, NEW c, Sound(b), Moved(b, c)
  PROVE  Goes(b, c) /\ c.held = b.held /\ c.depth = b.depth
<1>1. b.luck \in Nat /\ b.held \in Int
  BY SoundIs
<1> QED
  BY <1>1 DEF Moved, Goes

\* After a new item: c is the buffer it was begun in, with one block for it or two.
LEMMA ElementListed ==
  ASSUME NEW n \in 0..Levels, NEW b, Sound(b), NEW list, Listed(b, Nested[n], list),
         NEW c, Goes(b, c), NEW kid \in NewItems, c.held = list.b.held + BlocksOf[kid],
         c.depth = b.depth, NEW v, Parsed(c, kid, Nested[n], v)
  PROVE  Listed(b, Nested[n], next_element(v, list.item))
<1> DEFINE docs == Nested[n]
           after == buffer_skip_whitespace(v.b)
           w == Yes(after, v.item)
<1>1. /\ v.ok \in BOOLEAN /\ Goes(c, v.b) /\ v.item \in docs
      /\ v.b.held = c.held + BlocksOf[v.item] - BlocksOf[kid]
      /\ v.ok => Inside(v.b) /\ v.b.depth = c.depth
  BY DEF Parsed
<1>2. Goes(b, v.b) /\ Sound(v.b)
  BY <1>1, GoesOn DEF Goes
<1>3. v.b.held = list.b.held + BlocksOf[v.item]
  <2>1. list.b.held \in Int /\ BlocksOf[kid] \in Nat /\ BlocksOf[v.item] \in Nat
    BY <1>1, NewIs, BlocksAre, SoundIs DEF Listed, Goes
  <2> QED
    BY <1>1, <2>1
<1>4. CASE ~v.ok
  <2>2. v.ok => Inside(v.b) /\ v.b.depth = b.depth
    BY <1>4
  <2> DEFINE more == FALSE
  <2>3. more \in BOOLEAN
    OBVIOUS
  <2> HIDE DEF more
  <2>1. Listed(b, docs, Loop(v, more, list.item))
    <3>1. /\ n \in 0..Levels /\ Listed(b, Nested[n], list) /\ Sound(b)
          /\ v.ok \in BOOLEAN /\ Goes(b, v.b) /\ v.item \in Nested[n]
          /\ v.b.held = list.b.held + BlocksOf[v.item]
          /\ v.ok => Inside(v.b) /\ v.b.depth = b.depth
      BY <1>1, <1>2, <1>3, <2>2
    <3> QED
      BY <2>3, <3>1, ListGrows
  <2> QED
    BY <1>4, <2>1 DEF next_element, more
<1>5. CASE v.ok
  <2>1. Moved(v.b, after) /\ Inside(after)
    BY <1>2, SkipMoves
  <2>2. Goes(v.b, after) /\ after.held = v.b.held /\ after.depth = v.b.depth
    BY <1>2, <2>1, MovedGoes
  <2>3. Sees(after, Comma) \in BOOLEAN
    BY DEF Sees, CanAccess
  <2> DEFINE more == Sees(after, Comma)
  <2>4. next_element(v, list.item) = Loop(w, more, list.item)
    BY <1>5 DEF next_element
  <2> HIDE DEF after, more
  <2>5. w.ok \in BOOLEAN /\ w.ok /\ w.b = after /\ w.item = v.item
    BY DEF Yes
  <2> HIDE DEF w
  <2>6. Goes(b, w.b) /\ w.b.held = list.b.held + BlocksOf[w.item] /\ Inside(w.b) /\ w.b.depth = b.depth
    BY <1>1, <1>2, <1>3, <1>5, <2>1, <2>2, <2>5, GoesOn
  <2>8. w.item \in docs /\ more \in BOOLEAN
    BY <1>1, <2>3, <2>5 DEF more
  <2>7. Listed(b, docs, Loop(w, more, list.item))
    <3>1. /\ n \in 0..Levels /\ Listed(b, Nested[n], list) /\ Sound(b)
          /\ w.ok \in BOOLEAN /\ Goes(b, w.b) /\ w.item \in Nested[n]
          /\ w.b.held = list.b.held + BlocksOf[w.item]
          /\ w.ok => Inside(w.b) /\ w.b.depth = b.depth
      BY <2>5, <2>6, <2>8
    <3> QED
      BY <2>8, <3>1, ListGrows
  <2> QED
    BY <2>4, <2>7
<1> QED
  BY <1>1, <1>4, <1>5

LEMMA MemberListed ==
  ASSUME NEW n \in 0..Levels, NEW b, Sound(b), NEW list, Listed(b, Nested[n], list),
         NEW c, Goes(b, c), c.held = list.b.held + 1, c.depth = b.depth,
         b.depth + n = CJSON_NESTING_LIMIT, NEW value, Parser(value, n, Nested[n])
  PROVE  Listed(b, Nested[n], parse_member(parse_string(c, NewItem), list.item, value))
<1> DEFINE docs == Nested[n]
           name == parse_string(c, NewItem)
           kids == list.item
           colon == buffer_skip_whitespace(name.b)
           kid == [NewItem EXCEPT !.string = name.item.val]
           r == parse_member(name, kids, value)
           no == FALSE
<1>1. /\ Sound(c) /\ Parsed(c, NewItem, Scalar, name) /\ list.b.held \in Int
      /\ name.ok => name.item.val \in Seq(Character) /\ name.b.held = c.held + 1
  BY StringParsed, NewItemIs, SoundIs DEF Goes, Listed
<1>2. r = IF ~name.ok THEN Loop(No(name.b, NewItem), no, kids)
          ELSE IF ~Sees(colon, Colon) THEN Loop(No(colon, kid), no, kids)
          ELSE next_element(value[buffer_skip_whitespace(Step(colon, 1))][kid], kids)
  BY Zenon DEF parse_member
<1>3. Goes(b, name.b) /\ Sound(name.b) /\ name.ok \in BOOLEAN
  BY <1>1, GoesOn DEF Parsed, Goes
<1>4. no \in BOOLEAN
  OBVIOUS
<1> HIDE DEF name, r, no
<1>5. ASSUME NEW d, Goes(b, d), NEW new \in NewItems, d.held = list.b.held + BlocksOf[new]
      PROVE  Listed(b, docs, Loop(No(d, new), no, kids))
  <2> DEFINE v == No(d, new)
  <2>1. v.ok \in BOOLEAN /\ ~v.ok /\ v.b = d /\ v.item = new
    BY DEF No
  <2>2. new \in docs
    BY NewIs, BlocksAre
  <2> HIDE DEF v
  <2>3. /\ Goes(b, v.b) /\ v.item \in Nested[n] /\ v.b.held = list.b.held + BlocksOf[v.item]
        /\ v.ok => Inside(v.b) /\ v.b.depth = b.depth
    BY <1>5, <2>1, <2>2
  <2>4. Listed(b, docs, Loop(v, no, kids))
    BY <1>4, <2>1, <2>3, ListGrows
  <2> QED
    BY <2>4 DEF v
<1>6. CASE ~name.ok
  <2>1. name.b.held = c.held
    BY <1>1, <1>6, NewItemIs, SoundIs DEF Parsed
  <2>2. name.b.held = list.b.held + BlocksOf[NewItem]
    BY <2>1, NewItemIs
  <2>3. Listed(b, docs, Loop(No(name.b, NewItem), no, kids))
    BY <1>3, <1>5, <2>2, NewItemIs
  <2> QED
    BY <1>2, <1>6, <2>3 DEF r, name
<1>7. CASE name.ok
  <2>1. name.item.val \in Seq(Character) /\ name.item.val \in CharPointer /\ name.item.val # NoText
    BY <1>1, <1>7, NoTextIs DEF CharPointer
  <2>2. kid \in NewItems /\ kid.string = name.item.val
    BY <2>1, NewNamed
  <2> HIDE DEF kid
  <2>3. BlocksOf[kid] = 2
    BY <2>1, <2>2, NewIs
  <2>4. Moved(name.b, colon) /\ Inside(colon)
    BY <1>3, SkipMoves
  <2> HIDE DEF colon
  <2>5. Goes(b, colon) /\ Sound(colon) /\ colon.held = name.b.held /\ colon.depth = name.b.depth
    BY <1>3, <2>4, MovedGoes, GoesOn DEF Goes
  <2>6. name.b.held = list.b.held + 2 /\ name.b.depth = b.depth
    BY <1>1, <1>7 DEF Parsed
  <2>7. CASE ~Sees(colon, Colon)
    <3>1. Listed(b, docs, Loop(No(colon, kid), no, kids))
      BY <1>5, <2>2, <2>3, <2>5, <2>6
    <3> QED
      BY <1>2, <1>7, <2>7, <3>1 DEF r, name
  <2>8. CASE Sees(colon, Colon)
    <3> DEFINE past == Step(colon, 1)
               d == buffer_skip_whitespace(past)
    <3>1. colon.offset \in Nat /\ colon.offset + 1 \in Nat
      BY <2>5, SoundIs
    <3>2. Moved(colon, past)
      BY <2>5, <3>1, StepMoves
    <3>3. Sound(past) /\ Goes(b, past) /\ past.held = colon.held /\ past.depth = colon.depth
      BY <2>5, <3>2, MovedGoes, GoesOn DEF Goes
    <3> HIDE DEF past
    <3>4. Moved(past, d) /\ Inside(d)
      BY <3>3, SkipMoves
    <3> HIDE DEF d
    <3>5. Sound(d) /\ Goes(b, d) /\ d.held = past.held /\ d.depth = past.depth
      BY <3>3, <3>4, MovedGoes, GoesOn DEF Goes
    <3>6. d.held = list.b.held + BlocksOf[kid] /\ d.depth = b.depth
      BY <2>3, <2>5, <2>6, <3>3, <3>5
    <3>7. Parsed(d, kid, docs, value[d][kid])
      BY <2>2, <3>4, <3>5, <3>6 DEF Parser, Sound
    <3>8. Listed(b, docs, next_element(value[d][kid], kids))
      BY <2>2, <3>5, <3>6, <3>7, ElementListed
    <3> QED
      BY <1>2, <1>7, <2>8, <3>8 DEF r, d, past, name
  <2> QED
    BY <2>7, <2>8
<1> QED
  BY <1>3, <1>6, <1>7

LEMMA RoundListed ==
  ASSUME NEW n \in 0..Levels, NEW b, Sound(b), b.depth + n = CJSON_NESTING_LIMIT,
         NEW value, Parser(value, n, Nested[n]), NEW named \in BOOLEAN,
         NEW list, Listed(b, Nested[n], list)
  PROVE  Listed(b, Nested[n], parse_element(list, named, value))
<1> DEFINE docs == Nested[n]
           new == Malloc(list.b)
           past == Step(new.b, 1)
           start == buffer_skip_whitespace(past)
           r == parse_element(list, named, value)
<1>1. /\ list \in Lists(docs) /\ list.ok \in BOOLEAN /\ list.more \in BOOLEAN /\ Sound(list.b)
      /\ Goes(b, list.b)
      /\ list.ok => Inside(list.b) /\ list.b.depth = b.depth
  BY DEF Listed, Lists, Goes
<1>2. r = IF ~list.ok \/ ~list.more THEN list
          ELSE IF ~new.ok THEN [list EXCEPT !.ok = FALSE]
          ELSE IF named THEN parse_member(parse_string(start, NewItem), list.item, value)
          ELSE next_element(value[start][NewItem], list.item)
  BY Zenon DEF parse_element
<1> HIDE DEF r, docs
<1>3. CASE ~list.ok \/ ~list.more
  BY <1>2, <1>3 DEF r, docs
<1>4. CASE ~(~list.ok \/ ~list.more) /\ ~new.ok
  <2> DEFINE failed == [list EXCEPT !.ok = FALSE]
  <2>1. failed \in Lists(docs) /\ ~failed.ok /\ failed.b = list.b /\ failed.item = list.item
    BY <1>1 DEF Lists
  <2>2. r = failed
    BY <1>2, <1>4
  <2> HIDE DEF failed
  <2>3. Listed(b, docs, failed)
    BY <1>1, <2>1 DEF Listed, docs
  <2> QED
    BY <2>2, <2>3 DEF r, docs
<1>5. CASE ~(~list.ok \/ ~list.more) /\ new.ok
  <2> DEFINE c == new.b
  <2>1. /\ Sound(c) /\ c.text = list.b.text /\ c.depth = list.b.depth
        /\ c.luck = list.b.luck - 1 /\ c.held = list.b.held + 1
    BY <1>1, <1>5, MallocIs
  <2> HIDE DEF new
  <2>2. Goes(list.b, c)
    <3>1. list.b.luck \in Nat /\ list.b.held \in Int
      BY <1>1, SoundIs
    <3>2. c.luck + c.held <= list.b.luck + list.b.held
      BY <2>1, <3>1
    <3> QED
      BY <2>1, <3>2 DEF Goes
  <2>3. c.offset \in Nat /\ c.offset + 1 \in Nat
    BY <2>1, SoundIs
  <2> HIDE DEF c
  <2>4. Moved(c, past)
    BY <2>1, <2>3, StepMoves DEF c
  <2>5. Sound(past) /\ Goes(c, past) /\ past.held = c.held /\ past.depth = c.depth
    BY <2>1, <2>4, MovedGoes DEF Goes
  <2> HIDE DEF past
  <2>6. Moved(past, start) /\ Inside(start)
    BY <2>5, SkipMoves
  <2> HIDE DEF start
  <2>7. Sound(start) /\ Goes(past, start) /\ start.held = past.held /\ start.depth = past.depth
    BY <2>5, <2>6, MovedGoes DEF Goes
  <2>8. Goes(b, start)
    <3>1. Goes(b, c)
      BY <1>1, <2>2, GoesOn
    <3>2. Goes(b, past)
      BY <2>5, <3>1, GoesOn
    <3> QED
      BY <2>7, <3>2, GoesOn
  <2>9. start.held = list.b.held + 1 /\ start.depth = b.depth
    BY <1>1, <1>5, <2>1, <2>5, <2>7
  <2>10. CASE named
    <3>1. Listed(b, docs, parse_member(parse_string(start, NewItem), list.item, value))
      BY <2>8, <2>9, MemberListed DEF docs
    <3> QED
      BY <1>2, <1>5, <2>10, <3>1 DEF r, docs, new
  <2>11. CASE ~named
    <3>1. NewItem \in NewItems /\ start.held = list.b.held + BlocksOf[NewItem]
      BY <2>9, NewItemIs
    <3>2. Parsed(start, NewItem, docs, value[start][NewItem])
      BY <2>6, <2>7, <2>9, <3>1 DEF Parser, Sound, docs
    <3>3. Listed(b, docs, next_element(value[start][NewItem], list.item))
      BY <2>8, <2>9, <3>1, <3>2, ElementListed DEF docs
    <3> QED
      BY <1>2, <1>5, <2>11, <3>3 DEF r, docs, new
  <2> QED
    BY <2>10, <2>11
<1> QED
  BY <1>3, <1>4, <1>5

\* The rounds over a list, one for each byte of the text.
ListRounds(rounds, b, named, value) ==
  rounds = [k \in 0..Len(b.text) |->
              IF k = 0 THEN [ok |-> TRUE, b |-> b, more |-> TRUE, item |-> <<>>]
              ELSE parse_element(rounds[k - 1], named, value)]

LEMMA ListBy ==
  ASSUME NEW n \in 0..Levels, NEW b, Sound(b), Inside(b), b.depth + n = CJSON_NESTING_LIMIT,
         NEW value, Parser(value, n, Nested[n]), NEW named \in BOOLEAN
  PROVE  \E rounds : /\ ListRounds(rounds, b, named, value)
                     /\ parse_list(b, named, value) = rounds[Len(b.text)]
                     /\ Listed(b, Nested[n], rounds[Len(b.text)])
<1> DEFINE N == Len(b.text)
           docs == Nested[n]
           base == [ok |-> TRUE, b |-> b, more |-> TRUE, item |-> <<>>]
           S == {list \in Lists(docs) : Listed(b, docs, list)}
           Round(list) == parse_element(list, named, value)
           rounds[k \in 0..N] == IF k = 0 THEN base ELSE parse_element(rounds[k - 1], named, value)
           step == [x \in (1..N) \X S |-> Round(x[2])]
<1>1. N \in Nat
  BY SoundIs
<1>2. parse_list(b, named, value) = rounds[N]
  BY Zenon DEF parse_list
<1>3. rounds = CHOOSE f : f = [k \in 0..N |-> IF k = 0 THEN base ELSE Round(f[k - 1])]
  BY Zenon
<1> HIDE DEF rounds, N, docs
<1>4. base \in S
  <2>1. <<>> \in Seq(docs)
    OBVIOUS
  <2>2. base \in Lists(docs)
    BY <2>1 DEF Lists, Sound
  <2>3. base.b = b /\ base.item = <<>> /\ base.ok
    OBVIOUS
  <2> HIDE DEF base
  <2>4. b.held = b.held + SumOf(base.item, BlocksOf)
    BY <2>3, NoSum, SoundIs
  <2>5. Goes(b, b)
    BY SoundIs DEF Goes
  <2>6. Listed(b, docs, base)
    BY <2>2, <2>3, <2>4, <2>5 DEF Listed
  <2> QED
    BY <2>2, <2>6
<1>5. ASSUME NEW list \in S
      PROVE  Round(list) \in S
  <2>1. Listed(b, docs, Round(list))
    BY RoundListed DEF docs
  <2> QED
    BY <2>1 DEF Listed
<1> HIDE DEF S, base, Round
<1>6. step \in [(1..N) \X S -> S]
  BY <1>5
<1>7. PICK f \in [0..N -> S] : Recurs(f, N, base, step)
  <2> HIDE DEF step
  <2> QED
    BY <1>1, <1>4, <1>6, Recursion
<1>8. ASSUME NEW k \in 0..N
      PROVE  f[k] = IF k = 0 THEN base ELSE Round(f[k - 1])
  <2>1. CASE k = 0
    BY <1>7, <2>1 DEF Recurs
  <2>2. CASE k # 0
    <3>1. k \in 1..N /\ k - 1 \in 0..N
      BY <1>1, <2>2
    <3>2. f[k - 1] \in S /\ f[k] = step[<<k, f[k - 1]>>]
      BY <1>7, <3>1 DEF Recurs
    <3> QED
      BY <2>2, <3>1, <3>2
  <2> QED
    BY <2>1, <2>2
<1>9. f = [k \in 0..N |-> IF k = 0 THEN base ELSE Round(f[k - 1])]
  <2>1. f = [k \in 0..N |-> f[k]]
    BY <1>7
  <2> QED
    BY <1>8, <2>1, Zenon
<1>10. rounds = [k \in 0..N |-> IF k = 0 THEN base ELSE Round(rounds[k - 1])]
  BY <1>3, <1>9, Zenon
<1> DEFINE T == {k \in 0..N : rounds[k] \in S}
<1>11. 0 \in T
  <2>1. 0 \in 0..N
    BY <1>1
  <2> QED
    BY <1>4, <1>10, <2>1
<1>12. ASSUME NEW k \in 1..N, k - 1 \in T
       PROVE  k \in T
  <2>1. k \in 0..N /\ k # 0
    BY <1>1
  <2>2. rounds[k] = Round(rounds[k - 1])
    BY <1>10, <2>1
  <2>3. Round(rounds[k - 1]) \in S
    BY <1>5, <1>12
  <2> QED
    BY <2>1, <2>2, <2>3
<1>13. 0..N \subseteq T
  <2> HIDE DEF T
  <2> QED
    BY <1>1, <1>11, <1>12, ClimbTo
<1>14. rounds[N] \in S
  <2>1. N \in 0..N
    BY <1>1
  <2> QED
    BY <1>13, <2>1
<1>15. ListRounds(rounds, b, named, value)
  BY <1>10, Zenon DEF ListRounds, N, base, Round
<1>16. Listed(b, Nested[n], rounds[N])
  BY <1>14 DEF S, docs
<1> QED
  BY <1>2, <1>15, <1>16, Zenon DEF N

LEMMA ListParsed ==
  ASSUME NEW n \in 0..Levels, NEW b, Sound(b), Inside(b), b.depth + n = CJSON_NESTING_LIMIT,
         NEW value, Parser(value, n, Nested[n]), NEW named \in BOOLEAN
  PROVE  Listed(b, Nested[n], parse_list(b, named, value))
<1>1. PICK rounds : /\ parse_list(b, named, value) = rounds[Len(b.text)]
                    /\ Listed(b, Nested[n], rounds[Len(b.text)])
  BY ListBy
<1> QED
  BY <1>1, Zenon

LEMMA ContainerClosed ==
  ASSUME NEW n \in 1..Levels, NEW b, Sound(b), NEW c, Goes(b, c), c.depth = b.depth + 1,
         c.held = b.held, NEW list, Goes(c, list.b), list.item \in Seq(Nested[n - 1]),
         list.b.held = c.held + SumOf(list.item, BlocksOf),
         list.ok => Inside(list.b) /\ list.b.depth = c.depth,
         NEW it \in NewItems, NEW type \in DOMAIN Open
  PROVE  Parsed(b, it, Nested[n], close_container(list, it, type))
<1> DEFINE docs == Nested[n - 1]
           kids == list.item
           v == close_container(list, it, type)
           closed == list.ok /\ Sees(list.b, Close[type])
           past == Step(list.b, 1)
           out == [past EXCEPT !.depth = @ - 1]
           new == [it EXCEPT !.type = type, !.kids = kids]
<1>1. n \in 0..Levels /\ n - 1 \in 0..Levels
  BY LevelsAssumption
<1>2. /\ Goes(c, list.b) /\ Sound(list.b) /\ kids \in Seq(docs)
      /\ list.b.held = c.held + SumOf(kids, BlocksOf)
      /\ list.ok => Inside(list.b) /\ list.b.depth = c.depth
  BY DEF Goes
<1>3. v = IF closed THEN Yes(out, new) ELSE No(DeleteList(list.b, kids), it)
  BY Zenon DEF close_container
<1>4. /\ b.held \in Int /\ b.luck \in Nat /\ b.depth \in Nat /\ list.b.held \in Int
      /\ list.b.luck \in Nat /\ list.b.offset \in Nat
  BY <1>2, SoundIs
<1>5. SumOf(kids, BlocksOf) \in Nat
  <2>1. \A d \in docs : BlocksOf[d] \in Nat
    BY <1>1, BlocksAre
  <2> HIDE DEF docs, kids
  <2> QED
    BY <1>2, <2>1, SumSame
<1>6. Goes(b, list.b)
  BY <1>2, GoesOn
<1> HIDE DEF v, docs, kids
<1>7. CASE closed
  <2>1. Close[type] # 0
    BY DEF Close, Open
  <2>2. list.b.offset + 1 < Len(list.b.text)
    BY <1>2, <1>7, <2>1, SeesIs
  <2>3. list.b.offset + 1 \in Nat
    BY <1>4
  <2>4. Moved(list.b, past) /\ past.offset = list.b.offset + 1
    BY <1>2, <2>3, StepMoves
  <2> HIDE DEF past
  <2>5. past.depth = b.depth + 1 /\ past.depth - 1 = b.depth
    BY <1>2, <1>4, <1>7, <2>4 DEF Moved
  <2>6. /\ out \in ParseBuffer /\ out.text = past.text /\ out.depth = b.depth
        /\ out.luck = past.luck /\ out.held = past.held /\ out.overrun = past.overrun
        /\ out.offset = past.offset
    BY <1>4, <2>4, <2>5 DEF Moved, Sound, ParseBuffer
  <2> HIDE DEF out
  <2>7. Sound(out)
    BY <2>4, <2>6 DEF Moved, Sound
  <2>8. /\ Goes(b, out) /\ Inside(out) /\ out.held = list.b.held
    BY <1>6, <2>2, <2>4, <2>6, <2>7 DEF Moved, Goes, Inside
  <2>9. new \in Nested[n] /\ BlocksOf[new] = BlocksOf[it] + SumOf(kids, BlocksOf)
    BY <1>2, ContainerFilled DEF docs
  <2> HIDE DEF new
  <2>10. out.held = b.held + BlocksOf[new] - BlocksOf[it]
    BY <1>2, <1>4, <1>5, <2>8, <2>9, NewIs
  <2> QED
    BY <1>3, <1>7, <2>6, <2>8, <2>9, <2>10, YesParsed DEF v, kids
<1>8. CASE ~closed
  <2> DEFINE freed == Release(list.b, SumOf(kids, BlocksOf))
  <2>1. v = No(freed, it)
    BY <1>3, <1>8 DEF DeleteList
  <2>2. /\ Sound(freed) /\ freed.text = list.b.text
        /\ freed.luck = list.b.luck /\ freed.held = list.b.held - SumOf(kids, BlocksOf)
    BY <1>2, <1>5, ReleaseIs
  <2> HIDE DEF freed
  <2>3. freed.held = b.held
    BY <1>2, <1>4, <1>5, <2>2
  <2>4. Goes(b, freed)
    <3>1. freed.luck + freed.held <= b.luck + b.held
      BY <1>4, <1>5, <1>6, <2>2 DEF Goes
    <3> QED
      BY <1>6, <2>2, <3>1 DEF Goes
  <2>5. it \in Nested[n] /\ BlocksOf[it] \in Nat
    BY <1>1, NewIs, BlocksAre
  <2> QED
    BY <1>4, <2>1, <2>3, <2>4, <2>5, NoParsed DEF v
<1> QED
  BY <1>7, <1>8

LEMMA ContainerParsed ==
  ASSUME NEW n \in 0..CJSON_NESTING_LIMIT, NEW b, Sound(b), b.depth + n = CJSON_NESTING_LIMIT,
         NEW value, n # 0 => Parser(value, n - 1, Nested[n - 1]), NEW it \in NewItems,
         NEW type \in DOMAIN Open, Sees(b, Open[type])
  PROVE  Parsed(b, it, Nested[n], parse_container(b, it, type, value))
<1> DEFINE c == [b EXCEPT !.depth = @ + 1]
           past == Step(c, 1)
           inside == buffer_skip_whitespace(past)
           back == Step(inside, -1)
           empty == Yes(inside, <<>>)
           named == type = "Object"
           parsed == parse_list(back, named, value)
           list == IF Sees(inside, Close[type]) THEN empty ELSE parsed
           v == parse_container(b, it, type, value)
<1>1. /\ b.offset \in Nat /\ b.depth \in Nat /\ b.held \in Int /\ b.luck \in Nat
      /\ Len(b.text) \in Nat
  BY SoundIs
<1>2. /\ CJSON_NESTING_LIMIT \in 0..Levels /\ Levels \in Nat /\ CJSON_NESTING_LIMIT \in Nat
      /\ n \in 0..Levels
  BY ParserAssumption, LevelsAssumption
<1>3. v = IF b.depth >= CJSON_NESTING_LIMIT THEN No(b, it) ELSE close_container(list, it, type)
  BY Zenon DEF parse_container
<1>4. it \in Nested[n] /\ BlocksOf[it] \in Nat
  BY <1>2, NewIs, BlocksAre
<1>5. Open[type] # 0
  BY DEF Open
<1>6. b.offset + 1 < Len(b.text)
  BY <1>5, SeesIs
<1>7. Goes(b, b)
  BY <1>1 DEF Goes
<1> HIDE DEF v
<1>8. CASE b.depth >= CJSON_NESTING_LIMIT
  <2>1. Parsed(b, it, Nested[n], No(b, it))
    BY <1>1, <1>4, <1>7, NoParsed
  <2>2. v = No(b, it)
    BY <1>3, <1>8
  <2> QED
    BY <2>1, <2>2 DEF v
<1>9. CASE ~(b.depth >= CJSON_NESTING_LIMIT)
  <2>1. n \in 1..Levels /\ n # 0 /\ n - 1 \in 0..Levels /\ b.depth + 1 \in Nat
    BY <1>1, <1>2, <1>9
  <2>2. v = close_container(list, it, type)
    BY <1>3, <1>9
  <2>3. /\ c \in ParseBuffer /\ c.text = b.text /\ c.depth = b.depth + 1 /\ c.luck = b.luck
        /\ c.held = b.held /\ c.overrun = b.overrun /\ c.offset = b.offset
    BY <2>1 DEF Sound, ParseBuffer
  <2> HIDE DEF c
  <2>4. Sound(c) /\ Goes(b, c)
    <3>1. Sound(c)
      BY <2>3 DEF Sound
    <3>2. c.luck + c.held <= b.luck + b.held
      BY <1>1, <2>3
    <3> QED
      BY <2>3, <3>1, <3>2 DEF Goes
  <2>5. Moved(c, past) /\ past.offset = b.offset + 1 /\ Inside(past)
    <3>1. c.offset + 1 \in Nat
      BY <1>1, <2>3
    <3>2. Moved(c, past) /\ past.offset = c.offset + 1
      BY <2>4, <3>1, StepMoves
    <3> QED
      BY <1>6, <2>3, <3>2 DEF Moved, Inside
  <2> HIDE DEF past
  <2>6. Moved(past, inside) /\ Inside(inside) /\ inside.offset >= b.offset + 1
    BY <2>5, SkipMoves DEF Moved
  <2> HIDE DEF inside
  <2>7. /\ Sound(inside) /\ inside.depth = c.depth /\ inside.held = c.held
        /\ inside.text = c.text /\ inside.luck = c.luck
    BY <2>5, <2>6 DEF Moved
  <2>8. Moved(c, inside)
    BY <2>7 DEF Moved
  <2>9. Goes(c, inside)
    BY <2>4, <2>8, MovedGoes
  <2>10. /\ Goes(c, list.b) /\ list.item \in Seq(Nested[n - 1])
         /\ list.b.held = c.held + SumOf(list.item, BlocksOf)
         /\ list.ok => Inside(list.b) /\ list.b.depth = c.depth
    <3>1. CASE Sees(inside, Close[type])
      <4>1. list = empty
        BY <3>1
      <4>2. empty.b = inside /\ empty.item = <<>>
        BY DEF Yes
      <4>3. <<>> \in Seq(Nested[n - 1])
        OBVIOUS
      <4> HIDE DEF list, empty
      <4>4. list.b.held = c.held + SumOf(list.item, BlocksOf)
        BY <1>1, <2>3, <2>7, <4>1, <4>2, NoSum
      <4> QED
        BY <2>6, <2>7, <2>9, <4>1, <4>2, <4>3, <4>4
    <3>2. CASE ~Sees(inside, Close[type])
      <4>1. list = parsed
        BY <3>2
      <4>2. inside.offset \in Nat /\ inside.offset + (-1) \in Nat
        <5>1. inside.offset \in Nat
          BY <2>7, SoundIs
        <5> QED
          BY <1>1, <2>6, <5>1
      <4>3. Moved(inside, back) /\ back.offset = inside.offset + (-1)
        BY <2>7, <4>2, StepMoves
      <4> HIDE DEF back
      <4>4. Sound(back) /\ Inside(back)
        BY <2>6, <2>7, <4>2, <4>3, SoundIs DEF Moved, Inside
      <4>5. back.depth = c.depth /\ back.held = c.held /\ back.text = c.text /\ back.luck = c.luck
        BY <2>7, <4>3 DEF Moved
      <4>6. back.depth + (n - 1) = CJSON_NESTING_LIMIT
        BY <1>1, <1>2, <2>1, <2>3, <4>5
      <4>7. named \in BOOLEAN
        OBVIOUS
      <4> HIDE DEF named
      <4>8. Parser(value, n - 1, Nested[n - 1])
        BY <2>1
      <4>9. Listed(back, Nested[n - 1], parsed)
        BY <2>1, <4>4, <4>6, <4>7, <4>8, ListParsed
      <4> HIDE DEF parsed, list
      <4>10. Moved(c, back)
        BY <4>4, <4>5 DEF Moved
      <4>11. Goes(c, back)
        BY <2>4, <4>10, MovedGoes
      <4>12. Goes(c, list.b)
        BY <2>4, <4>1, <4>9, <4>11, GoesOn DEF Listed
      <4> QED
        BY <4>1, <4>5, <4>9, <4>12 DEF Listed, Lists
    <3> QED
      BY <3>1, <3>2
  <2> HIDE DEF list
  <2>11. Parsed(b, it, Nested[n], close_container(list, it, type))
    BY <2>1, <2>3, <2>4, <2>10, ContainerClosed
  <2> QED
    BY <2>2, <2>11 DEF v
<1> QED
  BY <1>8, <1>9

\* What is one of some documents is one of more of them.
LEMMA ParsedMore ==
  ASSUME NEW b, NEW it, NEW docs, NEW more, docs \subseteq more, NEW v, Parsed(b, it, docs, v)
  PROVE  Parsed(b, it, more, v)
BY DEF Parsed

LEMMA WordParsed ==
  ASSUME NEW b, Sound(b), NEW it \in NewItems, NEW word \in DOMAIN Word, SeesWord(b, Word[word])
  PROVE  Parsed(b, it, Scalar, Yes(Step(b, Len(Word[word])), [it EXCEPT !.type = word]))
<1> DEFINE w == Word[word]
           c == Step(b, Len(w))
           new == [it EXCEPT !.type = word]
<1>1. w \in Seq(Byte) /\ w # <<>> /\ w[Len(w)] # 0
  <2>1. word \in {"NULL", "False", "True"}
    BY DEF Word
  <2>2. /\ <<110, 117, 108, 108>> \in Seq(Byte) /\ <<102, 97, 108, 115, 101>> \in Seq(Byte)
        /\ <<116, 114, 117, 101>> \in Seq(Byte)
    BY DEF Byte
  <2>3. CASE word = "NULL"
    <3>1. w = <<110, 117, 108, 108>>
      BY <2>3 DEF Word
    <3> HIDE DEF w
    <3> QED
      BY <2>2, <3>1
  <2>4. CASE word = "False"
    <3>1. w = <<102, 97, 108, 115, 101>>
      BY <2>4 DEF Word
    <3> HIDE DEF w
    <3> QED
      BY <2>2, <3>1
  <2>5. CASE word = "True"
    <3>1. w = <<116, 114, 117, 101>>
      BY <2>5 DEF Word
    <3> HIDE DEF w
    <3> QED
      BY <2>2, <3>1
  <2> QED
    BY <2>1, <2>3, <2>4, <2>5
<1>2. SeesWord(b, w)
  OBVIOUS
<1> HIDE DEF w
<1>3. b.offset + Len(w) < Len(b.text) /\ Len(w) \in Nat
  BY <1>1, <1>2, WordSeen
<1>4. b.offset \in Nat /\ b.held \in Int
  BY SoundIs
<1>5. b.offset + Len(w) \in Nat
  BY <1>3, <1>4
<1>6. Moved(b, c) /\ c.offset = b.offset + Len(w)
  BY <1>3, <1>5, StepMoves
<1> HIDE DEF c
<1>7. Goes(b, c) /\ c.held = b.held /\ c.depth = b.depth
  BY <1>6, MovedGoes
<1>8. Inside(c)
  BY <1>3, <1>6 DEF Moved, Inside
<1>9. new \in Scalar /\ BlocksOf[new] = BlocksOf[it] /\ BlocksOf[it] \in Nat
  BY WordFilled, NewIs
<1> HIDE DEF new
<1>10. c.held = b.held + BlocksOf[new] - BlocksOf[it]
  BY <1>4, <1>7, <1>9
<1>11. Parsed(b, it, Scalar, Yes(c, new))
  BY <1>7, <1>8, <1>9, <1>10, YesParsed
<1> QED
  BY <1>11 DEF c, new, w

LEMMA ValueParsed ==
  ASSUME NEW n \in 0..CJSON_NESTING_LIMIT, NEW b, Sound(b), Inside(b), b.depth + n = CJSON_NESTING_LIMIT,
         NEW value, n # 0 => Parser(value, n - 1, Nested[n - 1]), NEW it \in NewItems
  PROVE  Parsed(b, it, Nested[n], value_from(b, it, value))
<1> DEFINE words == {w \in DOMAIN Word : SeesWord(b, Word[w])}
           word == CHOOSE w \in words : TRUE
           seesWord == words # {}
           seesQuote == words = {} /\ Sees(b, Quote)
           seesNumber == words = {} /\ (\E c \in Digit \cup {Minus} : Sees(b, c))
           seesArray == words = {} /\ Sees(b, Open.Array)
           seesObject == words = {} /\ Sees(b, Open.Object)
           aWord == Yes(Step(b, Len(Word[word])), [it EXCEPT !.type = word])
           aString == parse_string(b, it)
           aNumber == parse_number(b, it)
           anArray == parse_container(b, it, "Array", value)
           anObject == parse_container(b, it, "Object", value)
           v == value_from(b, it, value)
<1>1. v = CASE seesWord -> aWord [] seesQuote -> aString [] seesNumber -> aNumber
            [] seesArray -> anArray [] seesObject -> anObject [] OTHER -> No(b, it)
  BY Zenon DEF value_from
<1>2. /\ CJSON_NESTING_LIMIT \in 0..Levels /\ Levels \in Nat /\ n \in 0..Levels
  BY ParserAssumption, LevelsAssumption
<1>3. Scalar \subseteq Nested[n] /\ it \in Nested[n] /\ BlocksOf[it] \in Nat
  BY <1>2, NewIs, BlocksAre
<1>4. seesWord => Parsed(b, it, Nested[n], aWord)
  <2> SUFFICES ASSUME seesWord
               PROVE  Parsed(b, it, Nested[n], aWord)
    OBVIOUS
  <2>1. word \in words
    BY Zenon
  <2> HIDE DEF word
  <2>2. word \in DOMAIN Word /\ SeesWord(b, Word[word])
    BY <2>1
  <2>3. Parsed(b, it, Scalar, aWord)
    BY <2>2, WordParsed
  <2> HIDE DEF aWord
  <2> QED
    BY <1>3, <2>3, ParsedMore
<1>5. Parsed(b, it, Nested[n], aString)
  <2>1. Parsed(b, it, Scalar, aString)
    BY StringParsed
  <2> HIDE DEF aString
  <2> QED
    BY <1>3, <2>1, ParsedMore
<1>6. Parsed(b, it, Nested[n], aNumber)
  <2>1. Parsed(b, it, Scalar, aNumber)
    BY NumberParsed
  <2> HIDE DEF aNumber
  <2> QED
    BY <1>3, <2>1, ParsedMore
<1>7. seesArray => Parsed(b, it, Nested[n], anArray)
  <2>1. "Array" \in DOMAIN Open /\ Open.Array = Open["Array"]
    BY DEF Open
  <2> QED
    BY <2>1, ContainerParsed
<1>8. seesObject => Parsed(b, it, Nested[n], anObject)
  <2>1. "Object" \in DOMAIN Open /\ Open.Object = Open["Object"]
    BY DEF Open
  <2> QED
    BY <2>1, ContainerParsed
<1>9. Parsed(b, it, Nested[n], No(b, it))
  <2>1. Goes(b, b) /\ b.held \in Int
    BY SoundIs DEF Goes
  <2> QED
    BY <1>3, <2>1, NoParsed
<1>10. /\ seesWord => ~seesQuote /\ ~seesNumber /\ ~seesArray /\ ~seesObject
       /\ seesQuote => ~seesNumber /\ ~seesArray /\ ~seesObject
       /\ seesNumber => ~seesArray /\ ~seesObject
       /\ ~(seesArray /\ seesObject)
  <2>1. \A x, y : Sees(b, x) /\ Sees(b, y) => x = y
    BY DEF Sees
  <2>2. /\ Quote # Open.Array /\ Quote # Open.Object /\ Open.Array # Open.Object
        /\ \A c \in Digit \cup {Minus} : c # Quote /\ c # Open.Array /\ c # Open.Object
    BY DEF Quote, Open, Digit, Minus
  <2> HIDE DEF words
  <2> QED
    BY <2>1, <2>2, Zenon
<1> HIDE DEF seesWord, seesQuote, seesNumber, seesArray, seesObject, aWord, aString, aNumber,
              anArray, anObject, v
<1>11. CASE seesWord
  <2>1. v = aWord
    BY <1>1, <1>10, <1>11, SMT
  <2> QED
    BY <1>4, <1>11, <2>1 DEF v
<1>12. CASE seesQuote
  <2>1. v = aString
    BY <1>1, <1>10, <1>12, SMT
  <2> QED
    BY <1>5, <2>1 DEF v
<1>13. CASE seesNumber
  <2>1. v = aNumber
    BY <1>1, <1>10, <1>13, SMT
  <2> QED
    BY <1>6, <2>1 DEF v
<1>14. CASE seesArray
  <2>1. v = anArray
    BY <1>1, <1>10, <1>14, SMT
  <2> QED
    BY <1>7, <1>14, <2>1 DEF v
<1>15. CASE seesObject
  <2>1. v = anObject
    BY <1>1, <1>10, <1>15, SMT
  <2> QED
    BY <1>8, <1>15, <2>1 DEF v
<1>16. CASE ~(seesWord \/ seesQuote \/ seesNumber \/ seesArray \/ seesObject)
  <2>1. v = No(b, it)
    BY <1>1, <1>16, SMT
  <2> QED
    BY <1>9, <2>1 DEF v
<1> QED
  BY <1>11, <1>12, <1>13, <1>14, <1>15, <1>16

\* The levels of parse_value, from the last one that parse_container goes to on.
Parsing(levels) == levels = [n \in 0..CJSON_NESTING_LIMIT |-> Level("parse", n, levels[n - 1])]

LEMMA ParsingLevels ==
  ASSUME NEW b, NEW it
  PROVE  \E levels : Parsing(levels) /\ parse_value(b, it) = levels[CJSON_NESTING_LIMIT][b][it]
<1> DEFINE N == CJSON_NESTING_LIMIT
           levels[n \in 0..N] ==
             [c \in ParseBuffer |-> [i \in NewItems |->
                value_from(c, i, IF n = 0 THEN <<>> ELSE levels[n - 1])]]
<1>1. parse_value(b, it) = levels[N][b][it]
  BY Zenon DEF parse_value
<1>2. N \in Nat
  BY ParserAssumption, LevelsAssumption
<1>3. levels = [n \in 0..N |-> Level("parse", n, levels[n - 1])]
  <2> DEFINE One(n, below) == [c \in ParseBuffer |-> [i \in NewItems |->
                                 value_from(c, i, IF n = 0 THEN <<>> ELSE below)]]
  <2>1. \A n, below : Level("parse", n, below) = One(n, below)
    BY DEF Level
  <2>2. levels = CHOOSE f : f = [n \in 0..N |-> One(n, f[n - 1])]
    BY Zenon
  <2> HIDE DEF One, levels
  <2>3. PICK f : f = [n \in 0..N |-> Level("parse", n, f[n - 1])]
    BY <1>2, LevelsExist
  <2>4. f = [n \in 0..N |-> One(n, f[n - 1])]
    BY <2>1, <2>3
  <2>5. levels = [n \in 0..N |-> One(n, levels[n - 1])]
    BY <2>2, <2>4, Zenon
  <2>6. [n \in 0..N |-> One(n, levels[n - 1])] = [n \in 0..N |-> Level("parse", n, levels[n - 1])]
    BY <2>1
  <2> QED
    BY <2>5, <2>6, Zenon
<1> HIDE DEF levels
<1>4. Parsing(levels)
  BY <1>3, Zenon DEF Parsing, N
<1> QED
  BY <1>1, <1>4, Zenon DEF N

LEMMA ParserOn ==
  ASSUME NEW n \in 0..CJSON_NESTING_LIMIT, NEW below, n # 0 => Parser(below, n - 1, Nested[n - 1])
  PROVE  Parser(Level("parse", n, below), n, Nested[n])
<1> SUFFICES ASSUME NEW c \in ParseBuffer, NEW i \in NewItems, Sound(c), Inside(c),
                    c.depth + n = CJSON_NESTING_LIMIT
             PROVE  Parsed(c, i, Nested[n], Level("parse", n, below)[c][i])
  BY Zenon DEF Parser
<1> DEFINE value == IF n = 0 THEN <<>> ELSE below
<1>1. Level("parse", n, below)[c][i] = value_from(c, i, value)
  BY DEF Level
<1>2. n # 0 => Parser(value, n - 1, Nested[n - 1])
  OBVIOUS
<1> HIDE DEF value
<1> QED
  BY <1>1, <1>2, ValueParsed

\* Every document, down to the last level that parse_container goes to.
LEMMA LevelsParsed ==
  ASSUME NEW levels, Parsing(levels)
  PROVE  \A n \in 0..CJSON_NESTING_LIMIT : Parser(levels[n], n, Nested[n])
<1> DEFINE N == CJSON_NESTING_LIMIT
           Right == {n \in 0..N : Parser(levels[n], n, Nested[n])}
<1>1. N \in Nat
  BY ParserAssumption, LevelsAssumption
<1>2. \A n \in 0..N : levels[n] = Level("parse", n, levels[n - 1])
  BY Zenon DEF Parsing
<1>3. 0 \in Right
  <2>1. 0 \in 0..N
    BY <1>1
  <2>2. Parser(Level("parse", 0, levels[0 - 1]), 0, Nested[0])
    BY <2>1, ParserOn
  <2> QED
    BY <1>2, <2>1, <2>2, Zenon
<1>4. ASSUME NEW n \in 1..N, n - 1 \in Right
      PROVE  n \in Right
  <2>1. n \in 0..N /\ Parser(levels[n - 1], n - 1, Nested[n - 1])
    BY <1>1, <1>4
  <2>2. Parser(Level("parse", n, levels[n - 1]), n, Nested[n])
    BY <2>1, ParserOn
  <2> QED
    BY <1>2, <2>1, <2>2, Zenon
<1>5. 0..N \subseteq Right
  <2> HIDE DEF Right, N
  <2> QED
    BY <1>1, <1>3, <1>4, ClimbTo
<1> QED
  BY <1>5

LEMMA ParseValueParsed ==
  ASSUME NEW b, Sound(b), Inside(b), b.depth = 0, NEW it \in NewItems
  PROVE  Parsed(b, it, Nested[CJSON_NESTING_LIMIT], parse_value(b, it))
<1>1. PICK levels : Parsing(levels) /\ parse_value(b, it) = levels[CJSON_NESTING_LIMIT][b][it]
  BY ParsingLevels
<1>2. PICK N \in Nat : N = CJSON_NESTING_LIMIT
  BY ParserAssumption, LevelsAssumption
<1>3. Parser(levels[N], N, Nested[N])
  <2>1. N \in 0..CJSON_NESTING_LIMIT
    BY <1>2
  <2> QED
    BY <1>1, <2>1, LevelsParsed
<1>4. b \in ParseBuffer /\ b.depth + N = CJSON_NESTING_LIMIT
  BY <1>2 DEF Sound
<1>5. Parsed(b, it, Nested[N], levels[N][b][it])
  BY <1>3, <1>4, Zenon DEF Parser
<1> QED
  BY <1>1, <1>2, <1>5, Zenon
(***************************************************************************)
(* A whole text                                                            *)
(***************************************************************************)

\* What a parse of a text gives with so many allocations: a document and its blocks,
\* or nothing, and nothing was written outside of a block.
Given(t, luck, r) ==
  /\ r.ok \in BOOLEAN /\ ~r.b.overrun /\ r.b.offset < Len(t)
  /\ r.ok => r.item \in Nested[CJSON_NESTING_LIMIT] /\ r.b.held = BlocksOf[r.item] /\ luck >= BlocksOf[r.item]
  /\ ~r.ok => r.b.held = 0

LEMMA EndsIs ==
  ASSUME NEW b, Sound(b), Inside(b), NEW whole \in BOOLEAN
  PROVE  /\ Ends(b, whole).ok \in BOOLEAN /\ Moved(b, Ends(b, whole).b) /\ Inside(Ends(b, whole).b)
<1> DEFINE end == buffer_skip_whitespace(b)
<1>1. Moved(b, end) /\ Inside(end)
  BY SkipMoves
<1>2. Moved(b, b)
  BY DEF Moved
<1> HIDE DEF end
<1>3. Ends(b, whole) \in {Yes(b, NewItem), Yes(end, NewItem), No(end, NewItem)}
  BY DEF Ends, end
<1>4. \A c : Yes(c, NewItem).ok /\ Yes(c, NewItem).b = c /\ ~No(c, NewItem).ok /\ No(c, NewItem).b = c
             /\ Yes(c, NewItem).ok \in BOOLEAN /\ No(c, NewItem).ok \in BOOLEAN
  BY DEF Yes, No
<1> QED
  BY <1>1, <1>2, <1>3, <1>4

LEMMA FailGives ==
  ASSUME NEW t, NEW luck \in Nat, NEW b, Sound(b), b.text = t, NEW blocks \in Nat,
         b.held = blocks
  PROVE  Given(t, luck, No(Release([b EXCEPT !.offset = Min({@, Len(b.text) - 1})], blocks), NewItem))
<1> DEFINE at == Min({b.offset, Len(b.text) - 1})
           c == [b EXCEPT !.offset = at]
           r == No(Release(c, blocks), NewItem)
<1>1. b.offset \in Nat /\ Len(b.text) \in Nat \ {0}
  BY SoundIs
<1>2. at \in Nat /\ at < Len(b.text)
  <2> DEFINE S == {b.offset, Len(b.text) - 1}
  <2>1. S \in SUBSET Nat /\ S # {} /\ Len(b.text) - 1 \in S
    BY <1>1
  <2> HIDE DEF S
  <2>2. Min(S) \in S /\ Min(S) <= Len(b.text) - 1
    BY <2>1, MinIs
  <2>3. Min(S) \in Nat
    BY <2>1, <2>2
  <2> QED
    BY <1>1, <2>2, <2>3 DEF S
<1> HIDE DEF at
<1>3. Moved(b, c) /\ c.offset = at
  BY <1>2, OffsetMoved
<1> HIDE DEF c
<1>4. /\ Sound(Release(c, blocks)) /\ Release(c, blocks).offset = at
      /\ Release(c, blocks).held = c.held - blocks
  BY <1>3, ReleaseIs DEF Moved
<1>5. Release(c, blocks).held = 0
  BY <1>3, <1>4 DEF Moved
<1>6. r.ok \in BOOLEAN /\ ~r.ok /\ r.b = Release(c, blocks)
  BY DEF No
<1> HIDE DEF r
<1>7. Given(t, luck, r)
  BY <1>2, <1>4, <1>5, <1>6 DEF Given, Sound
<1>8. c = [b EXCEPT !.offset = Min({@, Len(b.text) - 1})]
  BY Zenon DEF c, at
<1> QED
  BY <1>7, <1>8 DEF r

LEMMA Finished ==
  ASSUME NEW t, NEW luck \in Nat, NEW b, Sound(b), b.text = t, b.held = 1, b.luck = luck - 1,
         NEW v, Parsed(b, NewItem, Nested[CJSON_NESTING_LIMIT], v), NEW whole \in BOOLEAN
  PROVE  Given(t, luck, finish_parse(v, whole))
<1> DEFINE end == Ends(v.b, whole)
           Refuse(c, blocks) == No(Release([c EXCEPT !.offset = Min({@, Len(c.text) - 1})], blocks), NewItem)
           one == Refuse(v.b, 1)
           all == Refuse(end.b, BlocksOf[v.item])
           document == Yes(end.b, v.item)
           bad == ~v.ok
           open == v.ok /\ ~end.ok
           r == finish_parse(v, whole)
<1>1. r = CASE bad -> one [] open -> all [] OTHER -> document
  BY Zenon DEF finish_parse
<1>2. CJSON_NESTING_LIMIT \in 0..Levels
  BY ParserAssumption
<1>3. /\ v.ok \in BOOLEAN /\ Goes(b, v.b) /\ v.item \in Nested[CJSON_NESTING_LIMIT]
      /\ v.b.held = b.held + BlocksOf[v.item] - BlocksOf[NewItem]
      /\ v.ok => Inside(v.b)
      /\ ~v.ok => v.item = NewItem
  BY DEF Parsed
<1>4. BlocksOf[NewItem] = 1 /\ BlocksOf[v.item] \in Nat
  BY <1>2, <1>3, NewItemIs, BlocksAre
<1>5. /\ Sound(v.b) /\ v.b.text = t /\ v.b.held = BlocksOf[v.item] /\ v.b.luck \in Nat
      /\ v.b.luck + v.b.held <= luck
  <2>1. Sound(v.b) /\ v.b.text = t /\ v.b.luck + v.b.held <= b.luck + b.held
    BY <1>3 DEF Goes
  <2>2. v.b.luck \in Nat /\ v.b.held \in Int
    BY <2>1, SoundIs
  <2> QED
    BY <1>3, <1>4, <2>1, <2>2
<1>6. bad => Given(t, luck, one)
  <2> SUFFICES ASSUME bad
               PROVE  Given(t, luck, one)
    OBVIOUS
  <2>1. v.b.held = 1
    BY <1>3, <1>4, <1>5
  <2> QED
    BY <1>5, <2>1, FailGives
<1>7. v.ok => /\ end.ok \in BOOLEAN /\ Moved(v.b, end.b) /\ Inside(end.b) /\ Sound(end.b)
              /\ end.b.text = t /\ end.b.held = BlocksOf[v.item]
  BY <1>3, <1>5, EndsIs DEF Moved
<1>8. open => Given(t, luck, all)
  BY <1>4, <1>7, FailGives
<1>9. ~bad /\ ~open => Given(t, luck, document)
  <2> SUFFICES ASSUME ~bad, ~open
               PROVE  Given(t, luck, document)
    OBVIOUS
  <2>1. document.ok \in BOOLEAN /\ document.ok /\ document.b = end.b /\ document.item = v.item
    BY DEF Yes
  <2> HIDE DEF document, end
  <2>2. luck >= BlocksOf[v.item]
    BY <1>4, <1>5
  <2> QED
    BY <1>3, <1>7, <2>1, <2>2 DEF Given, Inside, Sound
<1>10. ~(bad /\ open)
  OBVIOUS
<1> HIDE DEF bad, open, one, all, document, r
<1>11. CASE bad
  <2>1. r = one
    BY <1>1, <1>10, <1>11, SMT
  <2> QED
    BY <1>6, <1>11, <2>1 DEF r
<1>12. CASE open
  <2>1. r = all
    BY <1>1, <1>10, <1>12, SMT
  <2> QED
    BY <1>8, <1>12, <2>1 DEF r
<1>13. CASE ~bad /\ ~open
  <2>1. r = document
    BY <1>1, <1>13, SMT
  <2> QED
    BY <1>9, <1>13, <2>1 DEF r
<1> QED
  BY <1>11, <1>12, <1>13

\* cJSON_ParseWithOpts, and with it cJSON_Parse, whatever the bytes before the 0 of its
\* text are and however many allocations succeed: no byte is written outside of a block,
\* the offset of an error is inside the text, and what is left are the blocks of the
\* document it gives, with no array or object nested deeper than the limit, or no
\* block at all.
THEOREM ParseGivesOrNothing ==
  ASSUME NEW t \in Seq(Byte), t # <<>>, t[Len(t)] = 0, NEW luck \in Nat, NEW whole \in BOOLEAN
  PROVE  Given(t, luck, cJSON_ParseWithOpts(t, luck, whole))
<1> DEFINE empty == [text |-> t, offset |-> 0, depth |-> 0, luck |-> luck, held |-> 0,
                     overrun |-> FALSE]
           new == Malloc(empty)
           start == buffer_skip_whitespace(skip_utf8_bom(new.b))
           v == parse_value(start, NewItem)
           r == cJSON_ParseWithOpts(t, luck, whole)
<1>1. r = IF ~new.ok THEN No(empty, NewItem) ELSE finish_parse(v, whole)
  BY Zenon DEF cJSON_ParseWithOpts
<1>2. /\ empty.text = t /\ empty.offset = 0 /\ empty.depth = 0 /\ empty.luck = luck
      /\ empty.held = 0 /\ ~empty.overrun /\ Len(t) > 0
  OBVIOUS
<1>3. Sound(empty)
  <2>1. empty \in ParseBuffer
    BY DEF ParseBuffer
  <2> QED
    BY <1>2, <2>1 DEF Sound
<1> HIDE DEF empty, r
<1>4. CASE ~new.ok
  <2>1. r = No(empty, NewItem)
    BY <1>1, <1>4
  <2>2. No(empty, NewItem).ok \in BOOLEAN /\ ~No(empty, NewItem).ok /\ No(empty, NewItem).b = empty
    BY DEF No
  <2>3. Given(t, luck, r)
    BY <1>2, <2>1, <2>2 DEF Given
  <2> QED
    BY <2>3 DEF r
<1>5. CASE new.ok
  <2>1. r = finish_parse(v, whole)
    BY <1>1, <1>5
  <2>2. /\ Sound(new.b) /\ new.b.text = t /\ new.b.depth = 0
        /\ new.b.luck = luck - 1 /\ new.b.held = 1
    BY <1>2, <1>3, <1>5, MallocIs
  <2> HIDE DEF new
  <2>3. Moved(new.b, skip_utf8_bom(new.b))
    BY <2>2, BomSkipped
  <2>4. Moved(skip_utf8_bom(new.b), start) /\ Inside(start)
    BY <2>3, SkipMoves DEF Moved
  <2> HIDE DEF start
  <2>5. /\ Sound(start) /\ Inside(start) /\ start.text = t /\ start.depth = 0
        /\ start.luck = luck - 1 /\ start.held = 1
    BY <2>2, <2>3, <2>4 DEF Moved
  <2>6. Parsed(start, NewItem, Nested[CJSON_NESTING_LIMIT], v)
    BY <2>5, NewItemIs, ParseValueParsed
  <2> HIDE DEF v
  <2>7. Given(t, luck, finish_parse(v, whole))
    BY <2>5, <2>6, Finished
  <2> QED
    BY <2>1, <2>7 DEF r
<1> QED
  BY <1>4, <1>5

(***************************************************************************)
(* A document on its way                                                   *)
(***************************************************************************)

ZeroEnds(t) == t \in Seq(Byte) /\ t # <<>> /\ t[Len(t)] = 0

\* The inductive invariant: the text of the stages that are parsed ends with 0, the
\* items are a document, so far no call wrote outside of a block, and what was printed
\* is the text of the items.
TextInv == /\ stage \in {"text", "parsed", "printed"} => ZeroEnds(text)
           /\ item \in Documents \cup {None}
           /\ ParsedOrNothing /\ PrintedOrNothing /\ NoOverrun

\* A text and the 0 after it.
LEMMA AppendedEnds ==
  ASSUME NEW t \in Seq(Byte)
  PROVE  ZeroEnds(Append(t, 0)) /\ ZeroEnds(<<0>>)
<1>1. 0 \in Byte
  BY DEF Byte
<1>2. <<0>> \in Seq(Byte) /\ <<0>> # <<>> /\ <<0>>[Len(<<0>>)] = 0
  BY <1>1
<1>3. Append(t, 0) \in Seq(Byte) /\ Append(t, 0) # <<>> /\ Append(t, 0)[Len(Append(t, 0))] = 0
  BY <1>1
<1> QED
  BY <1>2, <1>3 DEF ZeroEnds

LEMMA TextStarts ==
  Init => TextInv
<1> SUFFICES ASSUME Init
             PROVE  TextInv
  OBVIOUS
<1>1. ASSUME NEW t, IsText(t)
      PROVE  ZeroEnds(t)
  <2>1. t \in Seq(Byte) /\ t # <<>> /\ Len(t) \in {n \in DOMAIN t : t[n] = 0}
    BY <1>1 DEF IsText
  <2> QED
    BY <2>1 DEF ZeroEnds
<1>2. stage = "text" => IsText(text)
  BY TextAssumption DEF Init
<1>3. stage \in {"text", "items"} /\ item \in Document \cup {None} /\ report = Start
  BY DEF Init
<1>4. stage \in {"text", "parsed", "printed"} => ZeroEnds(text)
  BY <1>1, <1>2, <1>3
<1>5. item \in Documents \cup {None}
  BY <1>3, TextAssumption
<1>6. ~report.overrun /\ stage # "parsed"
  BY <1>3 DEF Start
<1> QED
  BY <1>3, <1>4, <1>5, <1>6 DEF TextInv, ParsedOrNothing, PrintedOrNothing, NoOverrun

LEMMA ParseKeeps ==
  ASSUME TextInv, NEW luck \in Nat, NEW whole \in BOOLEAN, Parse(luck, whole)
  PROVE  TextInv'
<1> DEFINE v == cJSON_ParseWithOpts(text, luck, whole)
           limit == CJSON_NESTING_LIMIT
<1>1. /\ stage = "text" /\ stage' = "parsed" /\ text' = text
      /\ item' = IF v.ok THEN v.item ELSE None
      /\ report' = [ok |-> v.ok, held |-> v.b.held, overrun |-> v.b.overrun, luck |-> luck,
                    whole |-> whole, end |-> v.b.offset]
  BY DEF Parse, ParseGives
<1>2. ZeroEnds(text)
  BY <1>1 DEF TextInv
<1>3. Given(text, luck, v)
  BY <1>2, ParseGivesOrNothing DEF ZeroEnds
<1> HIDE DEF v
<1>4. /\ report'.ok = v.ok /\ report'.held = v.b.held /\ report'.overrun = v.b.overrun
      /\ report'.luck = luck /\ report'.end = v.b.offset
  BY <1>1
<1>5. limit \in 0..Levels /\ Nested[limit] \subseteq Documents
  BY ParserAssumption, BlocksAre
<1>6. ZeroEnds(text')
  BY <1>1, <1>2
<1>7. item' \in Documents \cup {None}
  BY <1>1, <1>3, <1>5 DEF Given
<1>8. NoOverrun'
  BY <1>1, <1>3, <1>4, Zenon DEF Given, NoOverrun
<1>9. ParsedOrNothing'
  <2>1. CASE v.ok
    <3>1. item' = v.item
      BY <1>1, <2>1
    <3> QED
      BY <1>3, <1>4, <2>1, <3>1, Zenon DEF Given, ParsedOrNothing
  <2>2. CASE ~v.ok
    BY <1>3, <1>4, <2>2, Zenon DEF Given, ParsedOrNothing
  <2> QED
    BY <2>1, <2>2
<1>10. PrintedOrNothing'
  BY <1>1 DEF PrintedOrNothing
<1> QED
  BY <1>6, <1>7, <1>8, <1>9, <1>10 DEF TextInv

\* When a print of this kind cannot be expected to succeed.
Impossible(r, doc, by, format, length) ==
  IF by = "PrintPreallocated" THEN length < Len(Render(doc, format)) + 1 + 5
  ELSE r.left = 0 \/ Len(Render(doc, format)) + 5 > INT_MAX

LEMMA GiveKeeps ==
  ASSUME TextInv, NEW r, ~r.overrun, r.ok => r.text \in Seq(Byte),
         NEW by, NEW format, NEW length, Give(r, by, format, length),
         r.held = (IF r.ok /\ ~(by = "PrintPreallocated") THEN 1 ELSE 0),
         WholeOrNot(r, item, format, Impossible(r, item, by, format, length))
  PROVE  TextInv'
<1>1. /\ item' = item /\ stage' = "printed" /\ text' = IF r.ok THEN Append(r.text, 0) ELSE <<0>>
      /\ report' = [ok |-> r.ok, held |-> r.held, overrun |-> r.overrun, by |-> by,
                    format |-> format, left |-> r.left, length |-> length]
  BY DEF Give
<1>2. ZeroEnds(<<0>>)
  <2>1. <<>> \in Seq(Byte)
    OBVIOUS
  <2> QED
    BY <2>1, AppendedEnds
<1>3. ZeroEnds(text')
  BY <1>1, <1>2, AppendedEnds
<1>4. /\ report'.ok = r.ok /\ report'.held = r.held /\ report'.overrun = r.overrun
      /\ report'.by = by /\ report'.format = format /\ report'.left = r.left
      /\ report'.length = length
  BY <1>1
<1>5. PrintedOrNothing'
  <2> DEFINE whole == Render(item, format)
             OfCaller == by = "PrintPreallocated"
  <2>1. report'.held = IF report'.ok /\ ~OfCaller THEN 1 ELSE 0
    BY <1>4
  <2>2. report'.ok => Wordless(item) = {} /\ text' = Append(whole, 0)
    BY <1>1, <1>4 DEF WholeOrNot
  <2>3. ~report'.ok => \/ Wordless(item) # {}
                       \/ (IF OfCaller THEN report'.length < Len(whole) + 1 + 5
                           ELSE report'.left = 0 \/ Len(whole) + 5 > INT_MAX)
    BY <1>4 DEF WholeOrNot, Impossible
  <2> QED
    BY <1>1, <1>4, <2>1, <2>2, <2>3 DEF PrintedOrNothing
<1> QED
  BY <1>1, <1>3, <1>4, <1>5 DEF TextInv, ParsedOrNothing, NoOverrun

LEMMA TextKeeps ==
  TextInv /\ [Next]_vars => TextInv'
<1> SUFFICES ASSUME TextInv, [Next]_vars
             PROVE  TextInv'
  OBVIOUS
<1>1. /\ Luck \subseteq Nat /\ Prebuffer \subseteq Nat /\ 0..MaxLength \subseteq Nat /\ MaxLuck \in Nat
      /\ \A length \in 0..MaxLength : length <= INT_MAX
  BY TextAssumption, PrinterAssumption
<1>2. item # None => item \in Documents
  BY DEF TextInv
<1>3. ASSUME NEW luck \in Luck, NEW whole \in BOOLEAN, Parse(luck, whole)
      PROVE  TextInv'
  BY <1>1, <1>3, ParseKeeps
<1>4. ASSUME NEW luck \in Luck, NEW format \in BOOLEAN, NEW reallocate \in BOOLEAN,
             PrintItem(format, luck, reallocate)
      PROVE  TextInv'
  <2> DEFINE r == print(item, format, luck, reallocate)
  <2>1. Give(r, "Print", format, 0)
    BY <1>4 DEF PrintItem
  <2>2. item \in Documents
    BY <1>2, <2>1 DEF Give
  <2>3. ~r.overrun /\ r.held = (IF r.ok THEN 1 ELSE 0) /\ (r.ok => r.text \in Seq(Byte))
    BY <1>1, <2>2, PrintStaysInside
  <2>4. WholeOrNot(r, item, format, r.left = 0 \/ Len(Render(item, format)) + 5 > INT_MAX)
    BY <1>1, <2>2, PrintWhole
  <2> HIDE DEF r
  <2>5. WholeOrNot(r, item, format, Impossible(r, item, "Print", format, 0))
    BY <2>4 DEF Impossible
  <2>6. r.held = (IF r.ok /\ ~("Print" = "PrintPreallocated") THEN 1 ELSE 0)
    BY <2>3
  <2> QED
    BY <2>1, <2>3, <2>5, <2>6, GiveKeeps
<1>5. ASSUME NEW luck \in Luck, NEW format \in BOOLEAN, NEW reallocate \in BOOLEAN,
             NEW prebuffer \in Prebuffer, PrintBuffered(prebuffer, format, luck, reallocate)
      PROVE  TextInv'
  <2> DEFINE r == cJSON_PrintBuffered(item, prebuffer, format, luck, reallocate)
  <2>1. Give(r, "PrintBuffered", format, prebuffer)
    BY <1>5 DEF PrintBuffered
  <2>2. item \in Documents
    BY <1>2, <2>1 DEF Give
  <2>3. ~r.overrun /\ r.held = (IF r.ok THEN 1 ELSE 0) /\ (r.ok => r.text \in Seq(Byte))
    BY <1>1, <2>2, PrintBufferedStaysInside
  <2>4. WholeOrNot(r, item, format, r.left = 0 \/ Len(Render(item, format)) + 5 > INT_MAX)
    BY <1>1, <2>2, BufferedWhole
  <2> HIDE DEF r
  <2>5. WholeOrNot(r, item, format, Impossible(r, item, "PrintBuffered", format, prebuffer))
    BY <2>4 DEF Impossible
  <2>6. r.held = (IF r.ok /\ ~("PrintBuffered" = "PrintPreallocated") THEN 1 ELSE 0)
    BY <2>3
  <2> QED
    BY <2>1, <2>3, <2>5, <2>6, GiveKeeps
<1>6. ASSUME NEW length \in 0..MaxLength, NEW format \in BOOLEAN, PrintPreallocated(length, format)
      PROVE  TextInv'
  <2> DEFINE r == cJSON_PrintPreallocated(item, length, format)
  <2>1. Give(r, "PrintPreallocated", format, length)
    BY <1>6 DEF PrintPreallocated
  <2>2. item \in Documents
    BY <1>2, <2>1 DEF Give
  <2>3. ~r.overrun /\ r.held = 0 /\ (r.ok => r.text \in Seq(Byte))
    BY <1>1, <2>2, PrintPreallocatedStaysInside
  <2>4. WholeOrNot(r, item, format, length < Len(Render(item, format)) + 1 + 5)
    BY <1>1, <2>2, PreallocatedWhole
  <2> HIDE DEF r
  <2>5. WholeOrNot(r, item, format, Impossible(r, item, "PrintPreallocated", format, length))
    BY <2>4 DEF Impossible
  <2>6. r.held = (IF r.ok /\ ~("PrintPreallocated" = "PrintPreallocated") THEN 1 ELSE 0)
    BY <2>3
  <2> QED
    BY <2>1, <2>3, <2>5, <2>6, GiveKeeps
<1>7. ASSUME ReadBack
      PROVE  TextInv'
  <2> DEFINE whole == TRUE
             v == cJSON_ParseWithOpts(text, MaxLuck, whole)
  <2>1. /\ stage = "printed" /\ stage' = "read" /\ text' = text /\ item' = item
        /\ report'.overrun = v.b.overrun
    BY <1>7 DEF ReadBack, ReadBackGives
  <2>2. whole \in BOOLEAN /\ ZeroEnds(text)
    BY <2>1 DEF TextInv
  <2> HIDE DEF whole
  <2>3. ~v.b.overrun
    BY <1>1, <2>2, ParseGivesOrNothing DEF ZeroEnds, Given
  <2> QED
    BY <2>1, <2>3 DEF TextInv, ParsedOrNothing, PrintedOrNothing, NoOverrun
<1>8. ASSUME NEW comment \in Comment, MinifyCommented(comment)
      PROVE  TextInv'
  <2>1. stage' = "minified" /\ report' = Start /\ item' = item
    BY <1>8 DEF MinifyCommented
  <2>2. ~report'.overrun
    BY <2>1 DEF Start
  <2> QED
    BY <2>1, <2>2 DEF TextInv, ParsedOrNothing, PrintedOrNothing, NoOverrun
<1>9. CASE UNCHANGED vars
  BY <1>9 DEF vars, TextInv, ParsedOrNothing, PrintedOrNothing, NoOverrun
<1> QED
  BY <1>3, <1>4, <1>5, <1>6, <1>7, <1>8, <1>9 DEF Next

LEMMA TextInvariant ==
  Spec => []TextInv
BY TextStarts, TextKeeps, PTL DEF Spec

\* Nothing that a document meets on its way, parses, prints of all kinds, and the
\* parse of what was printed, writes outside of a block, and a parse that fails finds
\* its error inside the text.
THEOREM NeverOverrun ==
  Spec => []NoOverrun
<1>1. TextInv => NoOverrun
  BY DEF TextInv
<1> QED
  BY <1>1, TextInvariant, PTL

\* Every parse leaves the blocks of the document it gave, or none, and the document is
\* not nested deeper than CJSON_NESTING_LIMIT.
THEOREM AlwaysParsedOrNothing ==
  Spec => []ParsedOrNothing
<1>1. TextInv => ParsedOrNothing
  BY DEF TextInv
<1> QED
  BY <1>1, TextInvariant, PTL

\* Every print gives the text of the document, the one JsonMeaning defines from the
\* document alone, in one block, or nothing and no block; and it gives nothing only
\* when an item has no text, an allocation fails, the text comes within 5 bytes of
\* INT_MAX or the caller's buffer is shorter than the text with the 0 and 5 bytes.
THEOREM AlwaysPrintedOrNothing ==
  Spec => []PrintedOrNothing
<1>1. TextInv => PrintedOrNothing
  BY DEF TextInv
<1> QED
  BY <1>1, TextInvariant, PTL
=============================================================================
