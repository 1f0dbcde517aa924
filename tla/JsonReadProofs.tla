--------------------------- MODULE JsonReadProofs ----------------------------
(***************************************************************************)
(* Proofs that what the printer of cJSON.c writes is what the parser reads *)
(* back: for documents of every shape, numbers of any text and length, any *)
(* nesting limit and however many allocations succeed.                     *)
(*                                                                         *)
(* A text stands at a place of the buffer (Stands); the parser, set before *)
(* it, reads the document it is the text of, stops behind it and has taken *)
(* the blocks of that document, or has none because it is nested too deep  *)
(* or takes more allocations than are left (Taken, ParseValueRead).  This  *)
(* is shown for strings, numbers and words, then for a list from its       *)
(* entries (Reading), then level by level.                                 *)
(*                                                                         *)
(* Minify goes over the same text: at whatever place it meets a part of    *)
(* it, it keeps what the unformatted text of that part is (Shrinks, then   *)
(* Cleaned for the parts of a document).                                   *)
(***************************************************************************)
EXTENDS JsonTextProofs

(***************************************************************************)
(* What a document means, from what the documents below it mean            *)
(***************************************************************************)

\* What the text, the document read again and the parts of a document are made of.
Sense(of, d, below) ==
  IF of = "render"
  THEN [format \in BOOLEAN |-> [depth \in Nat |-> Compose(d, format, depth, below)]]
  ELSE IF of = "again" THEN [member \in BOOLEAN |-> Again(d, member, below)]
  ELSE {d} \cup UNION {below[d.kids[k]] : k \in DOMAIN d.kids}

Senses == {"render", "again", "within"}

\* Nothing but what is below the items of the document is asked.
LEMMA SenseOfKids ==
  ASSUME NEW of, NEW d, NEW x, NEW y, \A k \in DOMAIN d.kids : x[d.kids[k]] = y[d.kids[k]]
  PROVE  Sense(of, d, x) = Sense(of, d, y)
<1>1. ASSUME NEW format \in BOOLEAN, NEW depth \in Nat
      PROVE  Compose(d, format, depth, x) = Compose(d, format, depth, y)
  <2>1. [n \in DOMAIN d.kids |-> Place(d, n, format, x[d.kids[n]][format][depth + 1])]
          = [n \in DOMAIN d.kids |-> Place(d, n, format, y[d.kids[n]][format][depth + 1])]
    BY Zenon
  <2>2. [n \in DOMAIN d.kids |-> Line(d, n, format, depth, x[d.kids[n]][format][depth + 1])]
          = [n \in DOMAIN d.kids |-> Line(d, n, format, depth, y[d.kids[n]][format][depth + 1])]
    BY Zenon
  <2> QED
    BY <2>1, <2>2, Zenon DEF Compose
<1>2. ASSUME NEW member \in BOOLEAN
      PROVE  Again(d, member, x) = Again(d, member, y)
  <2>1. [k \in DOMAIN d.kids |-> x[d.kids[k]][d.type = "Object"]]
          = [k \in DOMAIN d.kids |-> y[d.kids[k]][d.type = "Object"]]
    BY Zenon
  <2> QED
    BY <2>1, Zenon DEF Again
<1>3. UNION {x[d.kids[k]] : k \in DOMAIN d.kids} = UNION {y[d.kids[k]] : k \in DOMAIN d.kids}
  BY Zenon
<1>4. [format \in BOOLEAN |-> [depth \in Nat |-> Compose(d, format, depth, x)]]
        = [format \in BOOLEAN |-> [depth \in Nat |-> Compose(d, format, depth, y)]]
  BY <1>1, Zenon
<1>5. [member \in BOOLEAN |-> Again(d, member, x)] = [member \in BOOLEAN |-> Again(d, member, y)]
  BY <1>2, Zenon
<1> QED
  BY <1>3, <1>4, <1>5, Zenon DEF Sense

\* The items below a document are documents less deep.
LEMMA KidsAre ==
  ASSUME NEW n \in 0..Levels, NEW d \in Nested[n]
  PROVE  /\ n = 0 => d.kids = <<>>
         /\ n # 0 => d.kids \in Seq(Nested[n - 1])
         /\ Len(d.kids) \in Nat /\ DOMAIN d.kids = 1..Len(d.kids)
<1>1. n = 0 => d.kids = <<>>
  BY ItemIs
<1>2. n # 0 => d.kids \in Seq(Nested[n - 1])
  <2>1. <<>> \in Seq(Nested[n - 1])
    OBVIOUS
  <2> QED
    BY <2>1, ItemIs
<1> QED
  BY <1>1, <1>2

\* At a level, what a document means is made of what those of the level below mean.
LEMMA SenseAtLevel ==
  ASSUME NEW of \in Senses, NEW n \in 0..Levels, NEW d \in Nested[n], NEW below
  PROVE  Level(of, n, below)[d] = Sense(of, d, below)
<1> DEFINE x == IF n = 0 THEN <<>> ELSE below
<1>1. CASE of = "render" \/ of = "again"
  <2>1. Level(of, n, below)[d] = Sense(of, d, x)
    BY <1>1 DEF Level, Sense
  <2>2. \A k \in DOMAIN d.kids : x[d.kids[k]] = below[d.kids[k]]
    <3>1. CASE n = 0
      BY <3>1, KidsAre
    <3>2. CASE n # 0
      BY <3>2
    <3> QED
      BY <3>1, <3>2
  <2> HIDE DEF x
  <2> QED
    BY <2>1, <2>2, SenseOfKids
<1>2. CASE of = "within"
  <2>1. Level(of, n, below)[d]
          = {d} \cup (IF n = 0 THEN {} ELSE UNION {below[d.kids[k]] : k \in DOMAIN d.kids})
    BY <1>2, Zenon DEF Level
  <2>2. n = 0 => DOMAIN d.kids = {}
    BY KidsAre
  <2>3. Sense(of, d, below) = {d} \cup UNION {below[d.kids[k]] : k \in DOMAIN d.kids}
    BY <1>2 DEF Sense
  <2>4. n = 0 => UNION {below[d.kids[k]] : k \in DOMAIN d.kids} = {}
    BY <2>2
  <2> QED
    BY <2>1, <2>3, <2>4
<1> QED
  BY <1>1, <1>2 DEF Senses

\* What is defined level by level is defined from what it is for the documents below.
LEMMA SenseIs ==
  ASSUME NEW of \in Senses, NEW levels, levels = [n \in 0..Levels |-> Level(of, n, levels[n - 1])],
         NEW d \in Documents
  PROVE  levels[Levels][d] = Sense(of, d, levels[Levels])
<1>1. Levels \in Nat /\ Levels \in 0..Levels
  BY LevelsAssumption
<1>2. ASSUME NEW n \in 0..Levels, NEW e \in Nested[n]
      PROVE  levels[n][e] = Sense(of, e, levels[n - 1])
  <2>1. levels[n] = Level(of, n, levels[n - 1])
    BY Zenon
  <2> QED
    BY <2>1, SenseAtLevel
<1> DEFINE Settled(n) == \A e \in Nested[n], m \in n..Levels : levels[m][e] = levels[n][e]
           Right == {n \in 0..Levels : Settled(n)}
<1>3. 0 \in Right
  <2> SUFFICES ASSUME NEW e \in Nested[0], NEW m \in 0..Levels
               PROVE  levels[m][e] = levels[0][e]
    BY <1>1
  <2>1. 0 \in 0..Levels /\ e \in Nested[m]
    BY <1>1, NestedMonotone
  <2>2. DOMAIN e.kids = {}
    BY <2>1, KidsAre
  <2>3. levels[m][e] = Sense(of, e, levels[m - 1]) /\ levels[0][e] = Sense(of, e, levels[0 - 1])
    BY <1>2, <2>1
  <2>4. Sense(of, e, levels[m - 1]) = Sense(of, e, levels[0 - 1])
    BY <2>2, SenseOfKids
  <2> QED
    BY <2>3, <2>4
<1>4. ASSUME NEW n \in 1..Levels, n - 1 \in Right
      PROVE  n \in Right
  <2> SUFFICES ASSUME NEW e \in Nested[n], NEW m \in n..Levels
               PROVE  levels[m][e] = levels[n][e]
    <3>1. n \in 0..Levels
      BY <1>1
    <3> QED
      BY <3>1, Zenon
  <2>1. /\ n \in 0..Levels /\ m \in 0..Levels /\ n - 1 \in 0..Levels /\ m - 1 \in (n - 1)..Levels
        /\ n # 0 /\ n <= m
    BY <1>1
  <2>2. e \in Nested[m]
    BY <2>1, NestedMonotone
  <2>3. levels[m][e] = Sense(of, e, levels[m - 1]) /\ levels[n][e] = Sense(of, e, levels[n - 1])
    BY <1>2, <2>1, <2>2
  <2>4. e.kids \in Seq(Nested[n - 1])
    BY <2>1, KidsAre
  <2>5. \A k \in DOMAIN e.kids : levels[m - 1][e.kids[k]] = levels[n - 1][e.kids[k]]
    <3>1. Settled(n - 1)
      BY <1>4, Zenon
    <3>2. \A k \in DOMAIN e.kids : e.kids[k] \in Nested[n - 1]
      BY <2>4
    <3> QED
      BY <2>1, <3>1, <3>2, Zenon
  <2>6. Sense(of, e, levels[m - 1]) = Sense(of, e, levels[n - 1])
    BY <2>5, SenseOfKids
  <2> QED
    BY <2>3, <2>6
<1>5. 0..Levels \subseteq Right
  <2> HIDE DEF Right
  <2> QED
    BY <1>1, <1>3, <1>4, ClimbTo
<1>6. d \in Nested[Levels]
  BY DEF Documents
<1>7. levels[Levels][d] = Sense(of, d, levels[Levels - 1])
  BY <1>1, <1>2, <1>6
<1>8. \A k \in DOMAIN d.kids : levels[Levels - 1][d.kids[k]] = levels[Levels][d.kids[k]]
  <2>1. CASE Levels = 0
    BY <1>1, <1>6, <2>1, KidsAre
  <2>2. CASE Levels # 0
    <3>1. Levels - 1 \in 0..Levels /\ Levels \in (Levels - 1)..Levels
      BY <1>1, <2>2
    <3>2. d.kids \in Seq(Nested[Levels - 1])
      BY <1>1, <1>6, <2>2, KidsAre
    <3>3. Settled(Levels - 1)
      BY <1>5, <3>1, Zenon
    <3>4. \A k \in DOMAIN d.kids : d.kids[k] \in Nested[Levels - 1]
      BY <3>2
    <3> QED
      BY <3>1, <3>3, <3>4, Zenon
  <2> QED
    BY <2>1, <2>2
<1> QED
  BY <1>7, <1>8, SenseOfKids

\* What is read again is defined level by level.
LEMMA RereadLevels ==
  \E levels : /\ levels = [n \in 0..Levels |-> Level("again", n, levels[n - 1])]
              /\ Reread = levels[Levels]
<1> DEFINE levels[n \in 0..Levels] ==
             [d \in Nested[n] |-> [member \in BOOLEAN |->
                Again(d, member, IF n = 0 THEN <<>> ELSE levels[n - 1])]]
           Rereading(n, below) ==
             [d \in Nested[n] |-> [member \in BOOLEAN |-> Again(d, member, IF n = 0 THEN <<>> ELSE below)]]
<1>1. Reread = levels[Levels]
  BY Zenon DEF Reread
<1>2. \A n, below : Level("again", n, below) = Rereading(n, below)
  BY DEF Level
<1>3. levels = CHOOSE f : f = [n \in 0..Levels |-> Rereading(n, f[n - 1])]
  BY Zenon
<1> HIDE DEF Rereading, levels
<1>4. PICK f : f = [n \in 0..Levels |-> Level("again", n, f[n - 1])]
  BY LevelsAssumption, LevelsExist
<1>5. f = [n \in 0..Levels |-> Rereading(n, f[n - 1])]
  BY <1>2, <1>4
<1>6. levels = [n \in 0..Levels |-> Rereading(n, levels[n - 1])]
  BY <1>3, <1>5, Zenon
<1>7. levels = [n \in 0..Levels |-> Level("again", n, levels[n - 1])]
  BY <1>2, <1>6
<1> QED
  BY <1>1, <1>7, Zenon

\* The text, the document read again and the parts of a document.
LEMMA MeaningIs ==
  ASSUME NEW d \in Documents
  PROVE  /\ \A format \in BOOLEAN, depth \in Nat :
              TextOf[d][format][depth] = Compose(d, format, depth, TextOf)
         /\ \A member \in BOOLEAN : Reread[d][member] = Again(d, member, Reread)
         /\ Within[d] = {d} \cup UNION {Within[d.kids[k]] : k \in DOMAIN d.kids}
<1>1. TextOf[d] = Sense("render", d, TextOf)
  <2>1. PICK levels : /\ levels = [n \in 0..Levels |-> Level("render", n, levels[n - 1])]
                      /\ TextOf = levels[Levels]
    BY TextLevels
  <2> QED
    BY <2>1, SenseIs DEF Senses
<1>2. Reread[d] = Sense("again", d, Reread)
  <2>1. PICK levels : /\ levels = [n \in 0..Levels |-> Level("again", n, levels[n - 1])]
                      /\ Reread = levels[Levels]
    BY RereadLevels
  <2> QED
    BY <2>1, SenseIs DEF Senses
<1>3. Within[d] = Sense("within", d, Within)
  <2>1. PICK levels : /\ levels = [n \in 0..Levels |-> Level("within", n, levels[n - 1])]
                      /\ Within = levels[Levels]
    BY WithinLevels
  <2> QED
    BY <2>1, SenseIs DEF Senses
<1>4. Sense("render", d, TextOf)
        = [format \in BOOLEAN |-> [depth \in Nat |-> Compose(d, format, depth, TextOf)]]
  BY DEF Sense
<1>5. Sense("again", d, Reread) = [member \in BOOLEAN |-> Again(d, member, Reread)]
  BY DEF Sense
<1>6. Sense("within", d, Within) = {d} \cup UNION {Within[d.kids[k]] : k \in DOMAIN d.kids}
  BY DEF Sense
<1>7. ASSUME NEW format \in BOOLEAN, NEW depth \in Nat
      PROVE  TextOf[d][format][depth] = Compose(d, format, depth, TextOf)
  BY <1>1, <1>4
<1>8. ASSUME NEW member \in BOOLEAN
      PROVE  Reread[d][member] = Again(d, member, Reread)
  BY <1>2, <1>5
<1> QED
  BY <1>3, <1>6, <1>7, <1>8

\* The text of a document is a sequence of characters.
LEMMA TextIs ==
  ASSUME NEW d \in Documents, NEW format \in BOOLEAN, NEW depth \in Nat
  PROVE  TextOf[d][format][depth] \in Seq(Character)
<1> DEFINE p == PrintBuffer(0, TRUE, format, 0, TRUE)
           q == Nest(p, depth)
<1>1. Fine(p) /\ Written(p, <<>>, {}) /\ p.depth = 0 /\ p.format = format
  <2>1. 0 \in Nat /\ TRUE \in BOOLEAN
    OBVIOUS
  <2>2. Fine(p)
    BY <2>1, PrintBufferFine
  <2>3. PICK r : r = p
    OBVIOUS
  <2>4. Written(r, <<>>, {}) /\ r.depth = 0 /\ r.format = format
    <3>1. PICK yes : yes = TRUE
      OBVIOUS
    <3>2. r = PrintBuffer(0, yes, format, 0, yes)
      BY <2>3, <3>1
    <3> QED
      BY <2>1, <3>2, PrintBufferWritten
  <2> QED
    BY <2>2, <2>3, <2>4
<1> HIDE DEF p
<1>2. depth \in Int /\ p.depth + depth \in Nat /\ p.depth + depth = depth
  BY <1>1
<1>3. Fine(q) /\ q.depth = depth /\ q.format = format
  BY <1>1, <1>2, NestFits
<1>4. Written(q, <<>>, {})
  BY <1>1, <1>2, NestWritten
<1> HIDE DEF q
<1>5. TextOf[d][q.format][q.depth] \in Seq(Character)
  <2>1. <<>> \in Seq(Character)
    OBVIOUS
  <2> QED
    BY <1>3, <1>4, <2>1, PrintValueTexts, Zenon
<1> QED
  BY <1>3, <1>5

\* A string that is there, or the empty one.
Known(string) == IF string = NoText THEN <<>> ELSE string

\* A string that is there or taken for empty is a sequence of characters.
LEMMA KnownIs ==
  ASSUME NEW string \in CharPointer
  PROVE  Known(string) \in Seq(Character)
BY DEF Known, CharPointer

IsNaN(d) == d.type = "Number" /\ d.val = Word.NULL

\* What comes back when a document is read again.
LEMMA AgainIs ==
  ASSUME NEW d \in Documents, NEW member \in BOOLEAN, NEW again, again = Reread[d][member]
  PROVE  /\ again = [type |-> again.type, string |-> again.string, val |-> again.val, kids |-> again.kids]
         /\ again.type = IF IsNaN(d) THEN "NULL" ELSE d.type
         /\ again.string = IF member THEN Known(d.string) ELSE NoText
         /\ again.val = IF IsNaN(d) THEN NoText ELSE IF d.type = "String" THEN Known(d.val) ELSE d.val
         /\ again.kids = [k \in DOMAIN d.kids |-> Reread[d.kids[k]][d.type = "Object"]]
<1>1. again = Again(d, member, Reread)
  BY MeaningIs
<1> QED
  BY <1>1 DEF Again, Known, IsNaN

\* It is nested as deep as before.
LEMMA RereadIn ==
  ASSUME NEW n \in 0..Levels
  PROVE  \A d \in Nested[n], member \in BOOLEAN : Reread[d][member] \in Nested[n]
<1>1. Levels \in Nat
  BY LevelsAssumption
<1>2. ASSUME NEW m \in 0..Levels, NEW d \in Nested[m], NEW member \in BOOLEAN,
             m # 0 => \A e \in Nested[m - 1], named \in BOOLEAN : Reread[e][named] \in Nested[m - 1]
      PROVE  Reread[d][member] \in Nested[m]
  <2>1. d \in Documents
    BY BlocksAre
  <2>2. PICK again : again = Reread[d][member]
    OBVIOUS
  <2>3. /\ d.type \in {"Invalid", "Number", "String", "Raw"} \cup DOMAIN Word \cup DOMAIN Open
        /\ d.string \in CharPointer /\ d.val \in CharPointer
        /\ d.type = "Number" => d.val \in Numbers
        /\ d.type \notin {"Number", "String", "Raw"} => d.val = NoText
        /\ d.type \in DOMAIN Open => m # 0
        /\ d.type \notin DOMAIN Open => d.kids = <<>>
    BY ItemIs
  <2>4. again = [type |-> again.type, string |-> again.string, val |-> again.val, kids |-> again.kids]
    BY <2>1, <2>2, AgainIs
  <2>5. again.type = IF IsNaN(d) THEN "NULL" ELSE d.type
    BY <2>1, <2>2, AgainIs
  <2>6. again.string \in CharPointer
    <3>1. again.string = IF member THEN Known(d.string) ELSE NoText
      BY <2>1, <2>2, AgainIs
    <3> QED
      BY <2>3, <3>1, KnownIs DEF CharPointer
  <2>7. again.val = IF IsNaN(d) THEN NoText ELSE IF d.type = "String" THEN Known(d.val) ELSE d.val
    BY <2>1, <2>2, AgainIs
  <2>8. again.kids = [k \in DOMAIN d.kids |-> Reread[d.kids[k]][d.type = "Object"]]
    BY <2>1, <2>2, AgainIs
  <2>9. d.kids = <<>> => again.kids = <<>>
    BY <2>8
  <2>10. CASE d.type \in DOMAIN Open
    <3>1. m # 0 /\ d.kids \in Seq(Nested[m - 1])
      BY <2>3, <2>10, KidsAre
    <3>2. DOMAIN d.kids = 1..Len(d.kids) /\ Len(d.kids) \in Nat
      BY KidsAre
    <3>3. ASSUME NEW k \in 1..Len(d.kids)
          PROVE  Reread[d.kids[k]][d.type = "Object"] \in Nested[m - 1]
      <4>1. d.kids[k] \in Nested[m - 1]
        BY <3>1
      <4>2. PICK named \in BOOLEAN : named = (d.type = "Object")
        OBVIOUS
      <4> QED
        BY <1>2, <3>1, <4>1, <4>2, Zenon
    <3>4. again.kids \in Seq(Nested[m - 1])
      <4>1. again.kids = [k \in 1..Len(d.kids) |-> Reread[d.kids[k]][d.type = "Object"]]
        BY <2>8, <3>2, Zenon
      <4>2. again.kids \in [1..Len(d.kids) -> Nested[m - 1]]
        BY <3>3, <4>1, Zenon
      <4> QED
        BY <3>2, <4>2
    <3>5. again.type = d.type /\ again.val = NoText
      BY <2>3, <2>5, <2>7, <2>10 DEF IsNaN, Open
    <3>6. again \in Items(DOMAIN Open, {NoText}, Seq(Nested[m - 1]))
      BY <2>4, <2>6, <2>10, <3>4, <3>5 DEF Items
    <3> QED
      BY <2>2, <3>1, <3>6, NestedIs
  <2>11. CASE d.type \notin DOMAIN Open
    <3>1. again.kids = <<>>
      BY <2>3, <2>9, <2>11
    <3>2. CASE IsNaN(d)
      <4>1. again.type \in DOMAIN Word /\ again.val = NoText
        BY <2>5, <2>7, <3>2 DEF Word
      <4>2. again \in Items({"Invalid"} \cup DOMAIN Word, {NoText}, {<<>>})
        BY <2>4, <2>6, <3>1, <4>1 DEF Items
      <4> QED
        BY <2>2, <4>2, NestedIs DEF Scalar
    <3>3. CASE ~IsNaN(d) /\ d.type = "Number"
      <4>1. again.type = "Number" /\ again.val \in Numbers
        BY <2>3, <2>5, <2>7, <3>3
      <4>2. again \in Items({"Number"}, Numbers, {<<>>})
        BY <2>4, <2>6, <3>1, <4>1 DEF Items
      <4> QED
        BY <2>2, <4>2, NestedIs DEF Scalar
    <3>4. CASE ~IsNaN(d) /\ d.type \in {"String", "Raw"}
      <4>1. again.type \in {"String", "Raw"} /\ again.val \in CharPointer
        BY <2>3, <2>5, <2>7, <3>4, KnownIs DEF CharPointer
      <4>2. again \in Items({"String", "Raw"}, CharPointer, {<<>>})
        BY <2>4, <2>6, <3>1, <4>1 DEF Items
      <4> QED
        BY <2>2, <4>2, NestedIs DEF Scalar
    <3>5. CASE ~IsNaN(d) /\ d.type \in {"Invalid"} \cup DOMAIN Word
      <4>1. d.type \notin {"Number", "String", "Raw"}
        BY <3>5 DEF Word
      <4>2. again.type \in {"Invalid"} \cup DOMAIN Word /\ again.val = NoText
        BY <2>3, <2>5, <2>7, <3>5, <4>1
      <4>3. again \in Items({"Invalid"} \cup DOMAIN Word, {NoText}, {<<>>})
        BY <2>4, <2>6, <3>1, <4>2 DEF Items
      <4> QED
        BY <2>2, <4>3, NestedIs DEF Scalar
    <3> QED
      BY <2>3, <2>11, <3>2, <3>3, <3>4, <3>5
  <2> QED
    BY <2>10, <2>11
<1> DEFINE StaysIn(m) == \A d \in Nested[m], member \in BOOLEAN : Reread[d][member] \in Nested[m]
           Right == {m \in 0..Levels : StaysIn(m)}
<1>3. 0 \in Right
  <2>1. 0 \in 0..Levels
    BY <1>1
  <2>2. StaysIn(0)
    BY <1>2, <2>1
  <2> HIDE DEF StaysIn
  <2> QED
    BY <2>1, <2>2
<1>4. ASSUME NEW m \in 1..Levels, m - 1 \in Right
      PROVE  m \in Right
  <2>1. m \in 0..Levels
    BY <1>1
  <2>2. StaysIn(m - 1)
    BY <1>4, Zenon
  <2>3. StaysIn(m)
    BY <1>2, <2>1, <2>2, Zenon
  <2> HIDE DEF StaysIn
  <2> QED
    BY <2>1, <2>3
<1>5. 0..Levels \subseteq Right
  <2> HIDE DEF Right
  <2> QED
    BY <1>1, <1>3, <1>4, ClimbTo
<1> QED
  BY <1>5, Zenon

(***************************************************************************)
(* A text within a text                                                    *)
(***************************************************************************)

\* The bytes s stand in the text t, from the offset at on.
Stands(t, at, s) == at + Len(s) <= Len(t) /\ \A n \in 1..Len(s) : t[at + n] = s[n]

\* A text in two parts stands where its parts stand, one behind the other.
LEMMA StandsApart ==
  ASSUME NEW t, Len(t) \in Nat, NEW at \in Nat, NEW a \in Seq(Character), NEW b \in Seq(Character),
         NEW s, s = a \o b, Stands(t, at, s)
  PROVE  Stands(t, at, a) /\ Stands(t, at + Len(a), b) /\ Len(s) = Len(a) + Len(b)
<1>1. /\ Len(s) = Len(a) + Len(b) /\ Len(a) \in Nat /\ Len(b) \in Nat
      /\ \A n \in 1..(Len(a) + Len(b)) : s[n] = IF n <= Len(a) THEN a[n] ELSE b[n - Len(a)]
  BY JoinIs
<1>2. at + Len(s) <= Len(t) /\ \A n \in 1..Len(s) : t[at + n] = s[n]
  BY DEF Stands
<1>3. ASSUME NEW n \in 1..Len(a)
      PROVE  t[at + n] = a[n]
  <2>1. n \in 1..Len(s) /\ n <= Len(a)
    BY <1>1
  <2> QED
    BY <1>1, <1>2, <2>1
<1>4. ASSUME NEW n \in 1..Len(b)
      PROVE  t[at + Len(a) + n] = b[n]
  <2> DEFINE m == Len(a) + n
  <2>1. m \in 1..Len(s) /\ ~(m <= Len(a)) /\ m - Len(a) = n /\ at + Len(a) + n = at + m
    BY <1>1
  <2> HIDE DEF m
  <2>2. t[at + m] = s[m] /\ s[m] = b[m - Len(a)]
    BY <1>1, <1>2, <2>1
  <2> QED
    BY <2>1, <2>2
<1>5. at + Len(a) <= Len(t) /\ at + Len(a) + Len(b) <= Len(t)
  BY <1>1, <1>2
<1> QED
  BY <1>1, <1>3, <1>4, <1>5 DEF Stands

\* The pieces that a text is made of stand in it one behind the other.
LEMMA PiecesStand ==
  ASSUME NEW N \in Nat, NEW seqs, \A n \in 1..N : seqs[n] \in Seq(Character),
         NEW f \in [0..N -> Seq(Character)], f[0] = <<>>, \A n \in 1..N : f[n] = f[n - 1] \o seqs[n],
         NEW t, Len(t) \in Nat, NEW at \in Nat, Stands(t, at, f[N])
  PROVE  /\ \A n \in 0..N : Len(f[n]) \in Nat
         /\ \A n \in 1..N : /\ Stands(t, at + Len(f[n - 1]), seqs[n])
                            /\ Len(f[n]) = Len(f[n - 1]) + Len(seqs[n])
<1>1. ASSUME NEW n \in 1..N
      PROVE  n - 1 \in 0..N /\ n \in 0..N /\ f[n - 1] \in Seq(Character) /\ f[n] = f[n - 1] \o seqs[n]
  <2>1. n - 1 \in 0..N /\ n \in 0..N
    OBVIOUS
  <2> QED
    BY <2>1
<1> DEFINE T == {k \in 0..N : Stands(t, at, f[N - k])}
<1>2. 0 \in T
  <2>1. 0 \in 0..N /\ N - 0 = N
    OBVIOUS
  <2> QED
    BY <2>1
<1>3. ASSUME NEW k \in 1..N, k - 1 \in T
      PROVE  k \in T
  <2> DEFINE n == N - k + 1
  <2>1. n \in 1..N /\ N - (k - 1) = n /\ n - 1 = N - k /\ k \in 0..N
    OBVIOUS
  <2> HIDE DEF n
  <2>2. Stands(t, at, f[n])
    BY <1>3, <2>1
  <2>3. Stands(t, at, f[n - 1])
    <3>1. PICK s : s = f[n]
      OBVIOUS
    <3>2. PICK a \in Seq(Character) : a = f[n - 1]
      BY <1>1, <2>1
    <3>3. PICK b \in Seq(Character) : b = seqs[n]
      BY <2>1
    <3>4. s = a \o b
      BY <1>1, <2>1, <3>1, <3>2, <3>3, Zenon
    <3>5. Stands(t, at, s)
      BY <2>2, <3>1, Zenon
    <3>6. Stands(t, at, a)
      BY <3>4, <3>5, StandsApart, Zenon
    <3> QED
      BY <3>2, <3>6, Zenon
  <2> QED
    BY <2>1, <2>3
<1>4. 0..N \subseteq T
  <2> HIDE DEF T
  <2> QED
    BY <1>2, <1>3, ClimbTo
<1>5. ASSUME NEW n \in 0..N
      PROVE  Stands(t, at, f[n])
  <2>1. N - n \in 0..N /\ N - (N - n) = n
    OBVIOUS
  <2> QED
    BY <1>4, <2>1
<1>6. ASSUME NEW n \in 1..N
      PROVE  Stands(t, at + Len(f[n - 1]), seqs[n]) /\ Len(f[n]) = Len(f[n - 1]) + Len(seqs[n])
  <2>1. PICK s : s = f[n]
    OBVIOUS
  <2>2. PICK a \in Seq(Character) : a = f[n - 1]
    BY <1>1
  <2>3. PICK b \in Seq(Character) : b = seqs[n]
    OBVIOUS
  <2>4. s = a \o b
    BY <1>1, <2>1, <2>2, <2>3, Zenon
  <2>5. Stands(t, at, s)
    BY <1>1, <1>5, <2>1, Zenon
  <2>6. Stands(t, at + Len(a), b) /\ Len(s) = Len(a) + Len(b)
    <3> HIDE DEF T
    <3>1. Stands(t, at + Len(a), b)
      BY <2>4, <2>5, StandsApart, Zenon
    <3>2. Len(s) = Len(a) + Len(b)
      BY <2>4, JoinIs
    <3> QED
      BY <3>1, <3>2
  <2> QED
    BY <2>1, <2>2, <2>3, <2>6, Zenon
<1>7. \A n \in 0..N : Len(f[n]) \in Nat
  OBVIOUS
<1> QED
  BY <1>6, <1>7

\* A byte of the text.
LEMMA SignStands ==
  ASSUME NEW t, NEW at, NEW c, Stands(t, at, <<c>>)
  PROVE  at + 1 <= Len(t) /\ t[at + 1] = c
BY DEF Stands

\* From one offset to another there is only white space.
White(t, from, to) == \A n \in 1..Len(t) : from < n /\ n <= to => t[n] <= 32

\* Behind white space, a text of white space is white space still.
LEMMA StandsWhite ==
  ASSUME NEW t, Len(t) \in Nat, NEW at \in Nat, NEW s \in Seq(Character), Stands(t, at, s),
         \A n \in 1..Len(s) : s[n] <= 32, NEW from \in Nat, White(t, from, at)
  PROVE  White(t, from, at + Len(s))
<1> SUFFICES ASSUME NEW n \in 1..Len(t), from < n, n <= at + Len(s)
             PROVE  t[n] <= 32
  BY DEF White
<1>1. CASE n <= at
  BY <1>1 DEF White
<1>2. CASE ~(n <= at)
  <2> DEFINE m == n - at
  <2>1. m \in 1..Len(s) /\ at + m = n
    BY <1>2
  <2> HIDE DEF m
  <2> QED
    BY <2>1 DEF Stands
<1> QED
  BY <1>1, <1>2

\* The buffer c is b with its offset at to, and takes so many blocks more.
Reached(b, to, blocks, c) == /\ Sound(c) /\ c.text = b.text /\ c.depth = b.depth
                             /\ c.offset = to /\ c.luck + blocks = b.luck

\* What moves the offset alone keeps what was reached.
LEMMA ReachedStill ==
  ASSUME NEW b, NEW at, NEW blocks, NEW c, Reached(b, at, blocks, c), NEW d, Moved(c, d)
  PROVE  Reached(b, d.offset, blocks, d)
BY DEF Reached, Moved

\* White space is skipped up to the next byte, or to the end.
LEMMA SkipReaches ==
  ASSUME NEW b, NEW at \in Nat, NEW blocks, NEW c, Reached(b, at, blocks, c), NEW to \in Nat, at <= to,
         to < Len(b.text), White(b.text, at, to), b.text[to + 1] > 32 \/ to = Len(b.text) - 1
  PROVE  Reached(b, to, blocks, buffer_skip_whitespace(c))
<1> DEFINE black == {n \in c.offset..(Len(c.text) - 1) : ByteAt(c, n) > 32}
           end == IF black = {} THEN Len(c.text) - 1 ELSE Min(black)
<1>1. Sound(c) /\ c.text = b.text /\ c.offset = at
  BY DEF Reached
<1>2. buffer_skip_whitespace(c) = [c EXCEPT !.offset = end]
  BY DEF buffer_skip_whitespace
<1>3. Len(b.text) \in Nat \ {0}
  BY <1>1, SoundIs
<1>4. /\ \A n \in black : n \in Nat /\ n <= Len(b.text) - 1 /\ n >= to
      /\ b.text[to + 1] > 32 => to \in black
  <2>1. ASSUME NEW n \in black
        PROVE  n \in Nat /\ n <= Len(b.text) - 1 /\ n >= to
    <3>1. n \in at..(Len(b.text) - 1) /\ b.text[n + 1] > 32
      BY <1>1 DEF ByteAt
    <3>2. n \in Nat /\ n <= Len(b.text) - 1 /\ n + 1 \in 1..Len(b.text) /\ at < n + 1
      BY <1>3, <3>1
    <3>3. b.text[n + 1] \in Nat
      <4>1. b.text \in Seq(Byte)
        BY <1>1, SoundIs
      <4>2. b.text[n + 1] \in Byte
        BY <3>2, <4>1
      <4>3. Byte \subseteq Nat
        BY DEF Byte
      <4> QED
        BY <4>2, <4>3, Zenon
    <3>4. ~(n + 1 <= to)
      BY <3>1, <3>2, <3>3 DEF White
    <3> QED
      BY <3>2, <3>4
  <2>2. ASSUME b.text[to + 1] > 32
        PROVE  to \in black
    <3>1. to \in at..(Len(b.text) - 1)
      BY <1>3
    <3> QED
      BY <1>1, <2>2, <3>1 DEF ByteAt
  <2> HIDE DEF black
  <2> QED
    BY <2>1, <2>2
<1> HIDE DEF black
<1>5. end = to
  <2>1. CASE black = {}
    BY <1>1, <1>4, <2>1
  <2>2. CASE black # {}
    <3>1. black \in SUBSET Nat
      BY <1>4
    <3>2. Min(black) \in black /\ \A n \in black : Min(black) <= n
      BY <2>2, <3>1, MinIs
    <3> DEFINE m == Min(black)
    <3>3. end = m
      BY <2>2
    <3>4. m \in Nat /\ m >= to /\ m <= Len(b.text) - 1 /\ (to \in black => m <= to)
      BY <1>4, <3>2
    <3> HIDE DEF m, end
    <3> QED
      BY <1>3, <1>4, <3>3, <3>4
  <2> QED
    BY <2>1, <2>2
<1> HIDE DEF end
<1>6. Moved(c, buffer_skip_whitespace(c)) /\ buffer_skip_whitespace(c).offset = to
  BY <1>1, <1>2, <1>5, OffsetMoved
<1> QED
  BY <1>6, ReachedStill

\* A step goes on from what was reached.
LEMMA StepReaches ==
  ASSUME NEW b, NEW at \in Nat, NEW blocks, NEW c, Reached(b, at, blocks, c), NEW n \in Int, at + n \in Nat
  PROVE  Reached(b, at + n, blocks, Step(c, n))
<1>1. Sound(c) /\ c.offset = at
  BY DEF Reached
<1>2. Moved(c, Step(c, n)) /\ Step(c, n).offset = at + n
  BY <1>1, StepMoves
<1> QED
  BY <1>2, ReachedStill

\* One block more, or there was none.
LEMMA MallocReaches ==
  ASSUME NEW b, Sound(b), NEW at \in Nat, NEW blocks \in Nat, NEW c, Reached(b, at, blocks, c)
  PROVE  /\ Malloc(c).ok \in BOOLEAN
         /\ Malloc(c).ok => Reached(b, at, blocks + 1, Malloc(c).b)
         /\ ~Malloc(c).ok => b.luck < blocks + 1
<1>1. /\ Sound(c) /\ c.text = b.text /\ c.depth = b.depth /\ c.offset = at /\ c.luck + blocks = b.luck
      /\ c.luck \in Nat /\ b.luck \in Nat
  BY SoundIs DEF Reached
<1>2. Malloc(c).ok \in BOOLEAN
  BY <1>1, MallocIs
<1>3. CASE Malloc(c).ok
  <2>1. PICK d : d = Malloc(c).b
    OBVIOUS
  <2>2. /\ Sound(d) /\ d.text = c.text /\ d.depth = c.depth /\ d.offset = c.offset
        /\ d.luck = c.luck - 1
    BY <1>1, <1>3, <2>1, MallocIs
  <2>3. d.luck + (blocks + 1) = b.luck
    BY <1>1, <2>2
  <2>4. Reached(b, at, blocks + 1, d)
    BY <1>1, <2>2, <2>3 DEF Reached
  <2> QED
    BY <1>2, <1>3, <2>1, <2>4
<1>4. CASE ~Malloc(c).ok
  <2>1. ~(c.luck > 0)
    BY <1>4 DEF Malloc
  <2>2. b.luck < blocks + 1
    BY <1>1, <2>1
  <2> QED
    BY <1>2, <1>4, <2>2
<1> QED
  BY <1>2, <1>3, <1>4

(***************************************************************************)
(* A string is read as it was printed                                      *)
(***************************************************************************)

\* How a character is spelled: as itself, as an escape of two bytes, or by its code.
Plain(e, c) == Len(e) = 1 /\ e[1] = c /\ c # Quote /\ c # Backslash
Slashed(e, c) == Len(e) = 2 /\ e[1] = Backslash /\ e[2] \in DOMAIN Escape /\ Escape[e[2]] = c
Coded(e, c) == /\ Len(e) = 6 /\ e[1] = Backslash /\ e[2] = 117 /\ e[3] = 48 /\ e[4] = 48
               /\ e[5] \in DOMAIN HexDigit /\ e[6] \in DOMAIN HexDigit
               /\ 16 * HexDigit[e[5]] + HexDigit[e[6]] = c /\ c < 32

\* A hexadecimal digit that is printed is read as its value.
LEMMA HexByteIs ==
  ASSUME NEW d \in 0..15
  PROVE  HexByte(d) \in DOMAIN HexDigit /\ HexDigit[HexByte(d)] = d
<1>1. CASE d < 10
  <2>1. HexByte(d) = 48 + d /\ 48 + d \in Digit
    BY <1>1, SMT DEF HexByte, Digit
  <2> QED
    BY <2>1, SMT DEF HexDigit
<1>2. CASE ~(d < 10)
  <2>1. HexByte(d) = 87 + d /\ 87 + d \in 97..102 /\ 87 + d \notin Digit /\ 87 + d \notin 65..70
    BY <1>2, SMT DEF HexByte, Digit
  <2> QED
    BY <2>1, SMT DEF HexDigit
<1> QED
  BY <1>1, <1>2

\* A character is printed as itself, behind a backslash, or as a code of four digits.
LEMMA PieceIs ==
  ASSUME NEW c \in Character, NEW e, e = Escaped(c)
  PROVE  Plain(e, c) \/ Slashed(e, c) \/ Coded(e, c)
<1> DEFINE short == c \in {Quote, Backslash, 8, 12, NewLine, 13, Tab}
<1>1. DOMAIN ShortEscape = {Quote, Backslash, 8, 12, NewLine, 13, Tab}
  BY DEF ShortEscape
<1>2. c \in Nat
  BY DEF Character, Byte
<1>3. CASE short
  <2>1. e = <<Backslash, ShortEscape[c]>>
    <3>1. c \in DOMAIN ShortEscape
      BY <1>1, <1>3
    <3> QED
      BY <3>1, Zenon DEF Escaped
  <2>2. ShortEscape[c] \in DOMAIN Escape /\ Escape[ShortEscape[c]] = c
    BY <1>3, SMT DEF ShortEscape, Escape, Quote, Backslash, NewLine, Tab
  <2>3. Slashed(e, c)
    BY <2>1, <2>2 DEF Slashed
  <2> QED
    BY <2>3
<1>4. CASE ~short /\ c < 32
  <2>1. e = <<Backslash, 117, 48, 48, HexByte(c \div 16), HexByte(c % 16)>>
    <3>1. c \notin DOMAIN ShortEscape
      BY <1>1, <1>4
    <3> QED
      BY <1>4, <3>1 DEF Escaped
  <2> DEFINE high == c \div 16
             low == c % 16
  <2>2. high \in 0..15 /\ low \in 0..15 /\ 16 * high + low = c
    BY <1>2, <1>4, SMT
  <2> HIDE DEF high, low
  <2>3. /\ HexByte(high) \in DOMAIN HexDigit /\ HexDigit[HexByte(high)] = high
        /\ HexByte(low) \in DOMAIN HexDigit /\ HexDigit[HexByte(low)] = low
    BY <2>2, HexByteIs
  <2>4. e = <<Backslash, 117, 48, 48, HexByte(high), HexByte(low)>>
    BY <2>1 DEF high, low
  <2>5. Coded(e, c)
    <3>1. PICK x : x = HexByte(high)
      OBVIOUS
    <3>2. PICK y : y = HexByte(low)
      OBVIOUS
    <3>3. e = <<Backslash, 117, 48, 48, x, y>>
      BY <2>4, <3>1, <3>2
    <3>4. Len(e) = 6 /\ e[1] = Backslash /\ e[2] = 117 /\ e[3] = 48 /\ e[4] = 48 /\ e[5] = x /\ e[6] = y
      BY <3>3
    <3>5. x \in DOMAIN HexDigit /\ y \in DOMAIN HexDigit /\ 16 * HexDigit[x] + HexDigit[y] = c
      BY <2>2, <2>3, <3>1, <3>2
    <3> QED
      BY <1>4, <3>4, <3>5 DEF Coded
  <2> QED
    BY <2>5
<1>5. CASE ~short /\ ~(c < 32)
  <2>1. e = <<c>>
    <3>1. c \notin DOMAIN ShortEscape
      BY <1>1, <1>5
    <3> QED
      BY <1>5, <3>1 DEF Escaped
  <2>2. Plain(e, c)
    BY <1>5, <2>1 DEF Plain
  <2> QED
    BY <2>2
<1> QED
  BY <1>3, <1>4, <1>5

\* The signs of a string are no hexadecimal digits, and u is no short escape.
LEMMA HexDigitsAre ==
  /\ Quote \notin DOMAIN HexDigit /\ Backslash \notin DOMAIN HexDigit
  /\ 48 \in DOMAIN HexDigit /\ HexDigit[48] = 0
  /\ \A c \in DOMAIN HexDigit : HexDigit[c] \in 0..15
  /\ 117 \notin DOMAIN Escape
BY SMT DEF HexDigit, Digit, Quote, Backslash, Escape

\* A code below 128 is one byte.
LEMMA Utf8Short ==
  ASSUME NEW c \in Nat, c < 128
  PROVE  Utf8(c) = <<c>>
<1> DEFINE three == <<224 + (c \div 4096), 128 + ((c \div 64) % 64), 128 + ((c \div 1) % 64)>>
           two == <<192 + (c \div 64), 128 + ((c \div 1) % 64)>>
           four == <<240 + (c \div 262144), 128 + ((c \div 4096) % 64), 128 + ((c \div 64) % 64),
                     128 + ((c \div 1) % 64)>>
           one == <<c>>
           small == c < 128
           medium == c \in 128..2047
           large == c \in 2048..65535
<1>1. Utf8(c) = CASE small -> one [] medium -> two [] large -> three [] OTHER -> four
  BY SMT DEF Utf8
<1>2. small /\ ~medium /\ ~large
  <2>1. medium => c >= 128
    OBVIOUS
  <2>2. large => c >= 2048
    OBVIOUS
  <2> HIDE DEF medium, large, one, two, three, four
  <2> QED
    BY <2>1, <2>2
<1> HIDE DEF one, two, three, four, small, medium, large
<1>3. Utf8(c) = one
  BY <1>1, <1>2
<1> QED
  BY <1>3 DEF one

\* A round of the copy resolves what one character was spelled as.
LEMMA PieceResolved ==
  ASSUME NEW b, NEW c \in Character, NEW e, Plain(e, c) \/ Slashed(e, c) \/ Coded(e, c),
         NEW s \in Copies, s.ok, Stands(b.text, s.at, e), NEW end \in Nat, s.at + Len(e) <= end
  PROVE  Resolve(b, s, end) = [ok |-> TRUE, at |-> s.at + Len(e), out |-> s.out \o <<c>>]
<1> DEFINE byte == ByteAt(b, s.at)
           code == ByteAt(b, s.at + 1)
           literal == utf16_literal_to_utf8(b, s.at, end)
           Put(length, bytes) == [s EXCEPT !.at = @ + length, !.out = @ \o bytes]
           r == Resolve(b, s, end)
<1>1. /\ s.at >= end => r = s
      /\ ~(s.at >= end) /\ byte # Backslash => r = Put(1, <<byte>>)
      /\ ~(s.at >= end) /\ byte = Backslash /\ code \in DOMAIN Escape => r = Put(2, <<Escape[code]>>)
      /\ ~(s.at >= end) /\ byte = Backslash /\ code \notin DOMAIN Escape /\ code = 117 /\ literal.length > 0
           => r = Put(literal.length, literal.bytes)
  <2>1. s.ok /\ s.at \in Nat
    BY DEF Copies
  <2>2. r = CASE ~s.ok \/ s.at >= end -> s
             [] s.ok /\ s.at < end /\ byte # Backslash -> Put(1, <<byte>>)
             [] s.ok /\ s.at < end /\ byte = Backslash ->
                 CASE code \in DOMAIN Escape -> Put(2, <<Escape[code]>>)
                   [] code = 117 /\ literal.length > 0 -> Put(literal.length, literal.bytes)
                   [] OTHER -> [s EXCEPT !.ok = FALSE]
    BY DEF Resolve
  <2> DEFINE put1 == Put(1, <<byte>>)
             put2 == Put(2, <<Escape[code]>>)
             put3 == Put(literal.length, literal.bytes)
             none == [s EXCEPT !.ok = FALSE]
             a == s.at >= end
             x == byte = Backslash
             y == code \in DOMAIN Escape
             z == code = 117 /\ literal.length > 0
  <2>3. r = CASE a -> s [] ~a /\ ~x -> put1
             [] ~a /\ x -> CASE y -> put2 [] z -> put3 [] OTHER -> none
    <3>1. (s.at < end) = ~a
      BY <2>1
    <3> QED
      BY <2>1, <2>2, <3>1
  <2>4. ~y => (CASE y -> put2 [] z -> put3 [] OTHER -> none) = (IF z THEN put3 ELSE none)
    <3> HIDE DEF put2, put3, none, y, z
    <3> QED
      OBVIOUS
  <2>5. y => ~z
    BY HexDigitsAre
  <2>6. y => (CASE y -> put2 [] z -> put3 [] OTHER -> none) = put2
    <3> HIDE DEF put2, put3, none, y, z
    <3> QED
      BY <2>5
  <2> DEFINE inner == CASE y -> put2 [] z -> put3 [] OTHER -> none
  <2>7. r = CASE a -> s [] ~a /\ ~x -> put1 [] ~a /\ x -> inner
    BY <2>3
  <2>8. (~y => inner = (IF z THEN put3 ELSE none)) /\ (y => inner = put2)
    BY <2>4, <2>6
  <2> HIDE DEF inner, put1, put2, put3, none, a, x, y, z
  <2>9. /\ a => r = s
        /\ ~a /\ ~x => r = put1
        /\ ~a /\ x /\ y => r = put2
        /\ ~a /\ x /\ ~y /\ z => r = put3
    BY <2>7, <2>8
  <2> QED
    BY <2>9, Zenon DEF put1, put2, put3, a, x, y, z
<1> HIDE DEF r
<1>2. /\ s.at \in Nat /\ s = [ok |-> s.ok, at |-> s.at, out |-> s.out] /\ s.ok \in BOOLEAN
      /\ s.out \in Seq(Byte) /\ Len(e) \in Nat
  BY DEF Copies, Plain, Slashed, Coded
<1>3. \A n \in 1..Len(e) : ByteAt(b, s.at + n - 1) = e[n]
  <2> SUFFICES ASSUME NEW n \in 1..Len(e)
               PROVE  ByteAt(b, s.at + n - 1) = e[n]
    OBVIOUS
  <2>1. s.at + n - 1 + 1 = s.at + n
    BY <1>2
  <2> QED
    BY <2>1 DEF Stands, ByteAt
<1>4. Len(e) >= 1 /\ byte = e[1]
  <2>1. Len(e) >= 1 /\ 1 \in 1..Len(e) /\ s.at + 1 - 1 = s.at
    BY <1>2 DEF Plain, Slashed, Coded
  <2> QED
    BY <1>3, <2>1
<1>5. ~(s.at >= end)
  BY <1>2, <1>4
<1>6. ASSUME NEW length \in Nat, NEW bytes \in Seq(Byte)
      PROVE  Put(length, bytes) = [ok |-> TRUE, at |-> s.at + length, out |-> s.out \o bytes]
  <2> DEFINE there == s.at + length
             more == s.out \o bytes
             new == [s EXCEPT !.at = there, !.out = more]
  <2>1. there \in Nat /\ more \in Seq(Byte)
    BY <1>2
  <2>2. Put(length, bytes) = new
    OBVIOUS
  <2> HIDE DEF there, more
  <2>3. new \in Copies /\ new.ok = s.ok /\ new.at = there /\ new.out = more
    BY <2>1 DEF Copies
  <2> HIDE DEF new
  <2>4. new = [ok |-> new.ok, at |-> new.at, out |-> new.out]
    BY <2>3 DEF Copies
  <2>5. PICK yes \in BOOLEAN : yes = s.ok
    BY <1>2
  <2>6. yes = TRUE
    BY <2>5, Zenon
  <2>7. new = [ok |-> TRUE, at |-> there, out |-> more]
    BY <2>3, <2>4, <2>5, <2>6, Zenon
  <2> QED
    BY <2>2, <2>7, Zenon DEF there, more
<1>7. <<c>> \in Seq(Byte)
  BY DEF Character
<1>8. CASE Plain(e, c)
  <2>1. byte = c /\ byte # Backslash /\ Len(e) = 1
    BY <1>4, <1>8 DEF Plain
  <2>2. r = Put(1, <<c>>)
    BY <1>1, <1>5, <2>1
  <2> QED
    BY <1>6, <1>7, <2>1, <2>2 DEF r
<1>9. CASE Slashed(e, c)
  <2>1. byte = Backslash /\ Len(e) = 2 /\ e[2] \in DOMAIN Escape /\ Escape[e[2]] = c
    BY <1>4, <1>9 DEF Slashed
  <2>2. code = e[2]
    <3>1. 2 \in 1..Len(e) /\ s.at + 2 - 1 = s.at + 1
      BY <1>2, <2>1
    <3> QED
      BY <1>3, <3>1
  <2>3. r = Put(2, <<c>>)
    BY <1>1, <1>5, <2>1, <2>2
  <2> QED
    BY <1>6, <1>7, <2>1, <2>3 DEF r
<1>10. CASE Coded(e, c)
  <2>1. /\ byte = Backslash /\ Len(e) = 6 /\ e[2] = 117 /\ e[3] = 48 /\ e[4] = 48
        /\ e[5] \in DOMAIN HexDigit /\ e[6] \in DOMAIN HexDigit
        /\ 16 * HexDigit[e[5]] + HexDigit[e[6]] = c /\ c < 32 /\ c \in Nat
    BY <1>4, <1>10 DEF Coded, Character, Byte
  <2>2. code = 117
    <3>1. 2 \in 1..Len(e) /\ s.at + 2 - 1 = s.at + 1
      BY <1>2, <2>1
    <3> QED
      BY <1>3, <2>1, <3>1
  <2> DEFINE at == s.at + 2
             d(i) == HexDigit[ByteAt(b, at + i)]
             hex == parse_hex4(b, at)
             bad == \E i \in 0..3 : ByteAt(b, at + i) \notin DOMAIN HexDigit
  <2>3. hex = IF bad THEN 0 ELSE 4096 * d(0) + 256 * d(1) + 16 * d(2) + d(3)
    BY SMT DEF parse_hex4
  <2>4. ByteAt(b, at + 0) = 48 /\ ByteAt(b, at + 1) = 48 /\ ByteAt(b, at + 2) = e[5] /\ ByteAt(b, at + 3) = e[6]
    <3>1. /\ 3 \in 1..Len(e) /\ 4 \in 1..Len(e) /\ 5 \in 1..Len(e) /\ 6 \in 1..Len(e)
          /\ s.at + 3 - 1 = at + 0 /\ s.at + 4 - 1 = at + 1 /\ s.at + 5 - 1 = at + 2 /\ s.at + 6 - 1 = at + 3
      BY <1>2, <2>1
    <3> HIDE DEF at
    <3> QED
      BY <1>3, <2>1, <3>1
  <2>5. ~bad
    <3> HIDE DEF at
    <3> QED
      BY <2>1, <2>4, HexDigitsAre
  <2>6. hex = c
    <3>1. d(0) = 0 /\ d(1) = 0 /\ d(2) = HexDigit[e[5]] /\ d(3) = HexDigit[e[6]]
      BY <2>4, HexDigitsAre
    <3>2. PICK x \in 0..15 : x = HexDigit[e[5]]
      BY <2>1, HexDigitsAre
    <3>3. PICK y \in 0..15 : y = HexDigit[e[6]]
      BY <2>1, HexDigitsAre
    <3>4. hex = 4096 * d(0) + 256 * d(1) + 16 * d(2) + d(3)
      <4> HIDE DEF d, hex, bad
      <4> QED
        BY <2>3, <2>5, SMT
    <3>5. 16 * x + y = c
      BY <2>1, <3>2, <3>3
    <3>6. hex = 4096 * 0 + 256 * 0 + 16 * x + y
      BY <3>1, <3>2, <3>3, <3>4
    <3> HIDE DEF hex, d
    <3> QED
      BY <3>5, <3>6, SMT
  <2> HIDE DEF hex, d, bad
  <2>7. literal = [length |-> 6, bytes |-> <<c>>]
    <3>1. end - s.at >= 6 /\ ~(end - s.at < 6)
      BY <1>2, <2>1
    <3>2. hex \notin LowSurrogate /\ hex \notin HighSurrogate
      BY <2>1, <2>6, SMT DEF LowSurrogate, HighSurrogate
    <3>3. literal = [length |-> 6, bytes |-> Utf8(hex)]
      <4> DEFINE Fail0 == [length |-> 0, bytes |-> <<>>]
                 second == parse_hex4(b, s.at + 8)
                 pair == IF end - s.at < 12 THEN Fail0
                         ELSE IF ByteAt(b, s.at + 6) # Backslash \/ ByteAt(b, s.at + 7) # 117
                                 \/ second \notin LowSurrogate THEN Fail0
                         ELSE [length |-> 12,
                               bytes |-> Utf8(65536 + 1024 * (hex % 1024) + (second % 1024))]
                 single == [length |-> 6, bytes |-> Utf8(hex)]
      <4>1. literal = CASE end - s.at < 6 -> Fail0
                        [] end - s.at >= 6 /\ hex \in LowSurrogate -> Fail0
                        [] end - s.at >= 6 /\ hex \in HighSurrogate -> pair
                        [] OTHER -> single
        BY SMT DEF utf16_literal_to_utf8, hex
      <4> HIDE DEF Fail0, pair, single
      <4>2. literal = single
        BY <3>1, <3>2, <4>1
      <4> QED
        BY <4>2 DEF single
    <3>4. Utf8(hex) = <<c>>
      BY <2>1, <2>6, Utf8Short
    <3> QED
      BY <3>3, <3>4
  <2>8. r = Put(6, <<c>>)
    <3>1. literal.length = 6 /\ literal.bytes = <<c>> /\ literal.length > 0
      BY <2>7
    <3>2. code \notin DOMAIN Escape
      BY <2>2, HexDigitsAre
    <3>3. r = Put(literal.length, literal.bytes)
      BY <1>1, <1>5, <2>1, <2>2, <3>1, <3>2, Zenon
    <3> QED
      BY <3>1, <3>3
  <2>9. Put(6, <<c>>) = [ok |-> TRUE, at |-> s.at + 6, out |-> s.out \o <<c>>]
    BY <1>6, <1>7, Zenon
  <2> QED
    BY <2>1, <2>8, <2>9, Zenon DEF r
<1> QED
  BY <1>8, <1>9, <1>10

\* The characters of a string are spelled from the offsets q[0], q[1] and so on.
Spelling(q, t, string) ==
  \A n \in 1..Len(string) : /\ Stands(t, q[n - 1], Escaped(string[n]))
                            /\ q[n] = q[n - 1] + Len(Escaped(string[n]))

\* Where the text of a string stands, its characters stand piece by piece.
LEMMA SpelledWhere ==
  ASSUME NEW t, Len(t) \in Nat, NEW at \in Nat, NEW string \in Seq(Character),
         Stands(t, at, Spelled(string))
  PROVE  \E q \in [0..Len(string) -> Nat] :
           q[0] = at /\ q[Len(string)] = at + Len(Spelled(string)) /\ Spelling(q, t, string)
<1> DEFINE N == Len(string)
           pieces == [n \in DOMAIN string |-> Escaped(string[n])]
<1>1. N \in Nat /\ DOMAIN string = 1..N /\ \A n \in 1..N : string[n] \in Character
  OBVIOUS
<1>2. /\ \A n \in 1..N : pieces[n] = Escaped(string[n]) /\ pieces[n] \in Seq(Character)
      /\ pieces \in Seq(Seq(Character)) /\ Len(pieces) = N
  <2>1. \A n \in 1..N : pieces[n] = Escaped(string[n])
    BY <1>1
  <2>2. \A n \in 1..N : Escaped(string[n]) \in Seq(Character)
    BY <1>1, EscapedCharacters
  <2>3. pieces \in [1..N -> Seq(Character)]
    BY <1>1, <2>2
  <2> HIDE DEF pieces
  <2> QED
    BY <1>1, <2>1, <2>2, <2>3
<1>3. Spelled(string) = FlattenSeq(pieces)
  BY SpelledIsFlattened
<1> HIDE DEF pieces
<1>4. PICK f \in [0..N -> Seq(Character)] : Joins(f, pieces) /\ FlattenSeq(pieces) = f[N]
  BY <1>2, FlattenedIs
<1>5. f[0] = <<>> /\ \A n \in 1..N : f[n] = f[n - 1] \o pieces[n]
  BY <1>2, <1>4 DEF Joins
<1>6. Stands(t, at, f[N])
  BY <1>3, <1>4
<1>7. /\ \A n \in 0..N : Len(f[n]) \in Nat
      /\ \A n \in 1..N : /\ Stands(t, at + Len(f[n - 1]), pieces[n])
                         /\ Len(f[n]) = Len(f[n - 1]) + Len(pieces[n])
  <2> HIDE DEF N
  <2> QED
    BY <1>1, <1>2, <1>5, <1>6, PiecesStand
<1> DEFINE q == [n \in 0..N |-> at + Len(f[n])]
<1>8. q \in [0..N -> Nat]
  <2>1. \A n \in 0..N : at + Len(f[n]) \in Nat
    BY <1>7
  <2> QED
    BY <2>1
<1>9. \A n \in 0..N : q[n] = at + Len(f[n])
  OBVIOUS
<1> HIDE DEF q
<1>10. q[0] = at
  <2>1. 0 \in 0..N /\ Len(f[0]) = 0
    BY <1>1, <1>5
  <2> QED
    BY <1>9, <2>1
<1>11. q[N] = at + Len(Spelled(string))
  <2>1. N \in 0..N
    BY <1>1
  <2> QED
    BY <1>3, <1>4, <1>9, <2>1
<1>12. ASSUME NEW n \in 1..N
       PROVE  Stands(t, q[n - 1], Escaped(string[n])) /\ q[n] = q[n - 1] + Len(Escaped(string[n]))
  <2>1. n \in 0..N /\ n - 1 \in 0..N
    BY <1>1
  <2>2. q[n - 1] = at + Len(f[n - 1]) /\ q[n] = at + Len(f[n])
    BY <1>9, <2>1
  <2>3. Stands(t, q[n - 1], pieces[n])
    BY <1>7, <2>2
  <2>4. q[n] = q[n - 1] + Len(pieces[n])
    <3>1. Len(f[n]) = Len(f[n - 1]) + Len(pieces[n]) /\ Len(f[n - 1]) \in Nat /\ Len(pieces[n]) \in Nat
      BY <1>2, <1>7, <2>1
    <3>2. PICK x \in Nat : x = Len(f[n - 1])
      BY <3>1
    <3>3. PICK y \in Nat : y = Len(pieces[n])
      BY <3>1
    <3>4. q[n] = at + (x + y) /\ q[n - 1] = at + x
      BY <2>2, <3>1, <3>2, <3>3, Zenon
    <3>5. q[n] = q[n - 1] + y
      BY <3>4
    <3> QED
      BY <3>3, <3>5
  <2> QED
    BY <1>2, <2>3, <2>4
<1> QED
  BY <1>8, <1>10, <1>11, <1>12 DEF Spelling

\* A character is printed as one, two or six.
LEMMA PieceLength ==
  ASSUME NEW c \in Character, NEW e, e = Escaped(c)
  PROVE  Len(e) \in {1, 2, 6} /\ Len(e) \in Nat /\ Len(e) >= 1
BY PieceIs DEF Plain, Slashed, Coded

\* Between the pieces no escape is open, and every quote in a piece is escaped.
LEMMA PieceEscapes ==
  ASSUME NEW b, Sound(b), NEW quote \in Nat, NEW at \in Nat, at > quote,
         at - 1 \notin Escapes(b, quote), NEW c \in Character, NEW e, e = Escaped(c),
         Stands(b.text, at, e)
  PROVE  /\ at + Len(e) - 1 \notin Escapes(b, quote)
         /\ \A m \in at..(at + Len(e) - 1) : ByteAt(b, m) = Quote => m - 1 \in Escapes(b, quote)
<1> DEFINE E == Escapes(b, quote)
<1>1. /\ \A n \in E : n > quote /\ ByteAt(b, n) = Backslash /\ n - 1 \notin E
      /\ \A n \in (quote + 1)..(Len(b.text) - 1) : ByteAt(b, n) = Backslash /\ n - 1 \notin E => n \in E
  BY EscapesAre
<1>2. /\ Len(e) \in {1, 2, 6} /\ at + Len(e) <= Len(b.text) /\ Len(b.text) \in Nat
      /\ \A n \in 1..Len(e) : b.text[at + n] = e[n]
  BY PieceLength, SoundIs DEF Stands
<1> HIDE DEF E
<1>3. ASSUME NEW n \in 1..Len(e)
      PROVE  ByteAt(b, at + n - 1) = e[n]
  <2>1. at + n - 1 + 1 = at + n
    BY <1>2
  <2> QED
    BY <1>2, <2>1 DEF ByteAt
<1>4. CASE Plain(e, c)
  <2>1. Len(e) = 1 /\ e[1] # Quote /\ e[1] # Backslash
    BY <1>4 DEF Plain
  <2>2. ByteAt(b, at) = e[1]
    <3>1. 1 \in 1..Len(e) /\ at + 1 - 1 = at
      BY <2>1
    <3> QED
      BY <1>3, <3>1
  <2>3. at \notin E
    BY <1>1, <2>1, <2>2
  <2>4. at + Len(e) - 1 = at /\ \A m \in at..(at + Len(e) - 1) : m = at
    BY <2>1
  <2> QED
    BY <2>1, <2>2, <2>3, <2>4 DEF E
<1>5. CASE Slashed(e, c)
  <2>1. Len(e) = 2 /\ e[1] = Backslash
    BY <1>5 DEF Slashed
  <2>2. ByteAt(b, at) = Backslash
    <3>1. 1 \in 1..Len(e) /\ at + 1 - 1 = at
      BY <2>1
    <3> QED
      BY <1>3, <2>1, <3>1
  <2>3. at \in E
    <3>1. at \in (quote + 1)..(Len(b.text) - 1)
      BY <1>2, <2>1
    <3> QED
      BY <1>1, <2>2, <3>1 DEF E
  <2>4. at + 1 \notin E
    <3>1. at + 1 - 1 = at
      OBVIOUS
    <3> QED
      BY <1>1, <2>3, <3>1
  <2>5. ASSUME NEW m \in at..(at + Len(e) - 1), ByteAt(b, m) = Quote
        PROVE  m - 1 \in E
    <3>1. m = at \/ m = at + 1
      BY <2>1
    <3>2. m # at
      BY <2>2, <2>5 DEF Quote, Backslash
    <3>3. m - 1 = at
      BY <3>1, <3>2
    <3> QED
      BY <2>3, <3>3
  <2>6. at + Len(e) - 1 = at + 1
    BY <2>1
  <2> QED
    BY <2>4, <2>5, <2>6 DEF E
<1>6. CASE Coded(e, c)
  <2>1. /\ Len(e) = 6 /\ e[1] = Backslash /\ e[2] = 117 /\ e[3] = 48 /\ e[4] = 48
        /\ e[5] \in DOMAIN HexDigit /\ e[6] \in DOMAIN HexDigit
    BY <1>6 DEF Coded
  <2>2. \A n \in 1..6 : e[n] # Quote
    <3>1. Quote # Backslash /\ Quote # 117 /\ Quote # 48
      BY DEF Quote, Backslash
    <3>2. e[1] # Quote /\ e[2] # Quote /\ e[3] # Quote /\ e[4] # Quote /\ e[5] # Quote /\ e[6] # Quote
      BY <2>1, <3>1, HexDigitsAre
    <3>3. \A n \in 1..6 : n = 1 \/ n = 2 \/ n = 3 \/ n = 4 \/ n = 5 \/ n = 6
      OBVIOUS
    <3> QED
      BY <3>2, <3>3, Zenon
  <2>3. ASSUME NEW m \in at..(at + Len(e) - 1)
        PROVE  ByteAt(b, m) # Quote
    <3> DEFINE n == m - at + 1
    <3>1. n \in 1..6 /\ n \in 1..Len(e) /\ at + n - 1 = m
      BY <2>1
    <3> HIDE DEF n
    <3> QED
      BY <1>3, <2>2, <3>1
  <2>4. at + Len(e) - 1 \notin E
    <3>1. 6 \in 1..Len(e) /\ at + 6 - 1 = at + Len(e) - 1
      BY <2>1
    <3>2. ByteAt(b, at + Len(e) - 1) = e[6] /\ e[6] # Backslash
      BY <1>3, <2>1, <3>1, HexDigitsAre
    <3> QED
      BY <1>1, <3>2
  <2> QED
    BY <2>3, <2>4 DEF E
<1> QED
  BY <1>4, <1>5, <1>6, PieceIs

\* No piece of a printed string begins inside of an escape, and no quote is bare.
LEMMA SpellingEscapes ==
  ASSUME NEW b, Sound(b), NEW quote \in Nat, NEW string \in Seq(Character),
         NEW q \in [0..Len(string) -> Nat], q[0] = quote + 1, Spelling(q, b.text, string)
  PROVE  \A n \in 0..Len(string) :
           /\ q[n] >= quote + 1 + n
           /\ q[n] - 1 \notin Escapes(b, quote)
           /\ \A m \in (quote + 1)..(q[n] - 1) : ByteAt(b, m) = Quote => m - 1 \in Escapes(b, quote)
<1> DEFINE N == Len(string)
           E == Escapes(b, quote)
           Clean(n) == /\ q[n] >= quote + 1 + n
                       /\ q[n] - 1 \notin E
                       /\ \A m \in (quote + 1)..(q[n] - 1) : ByteAt(b, m) = Quote => m - 1 \in E
           T == {n \in 0..N : Clean(n)}
<1>1. N \in Nat /\ \A n \in 1..N : string[n] \in Character
  OBVIOUS
<1>2. ASSUME NEW n \in 1..N
      PROVE  n - 1 \in 0..N /\ n \in 0..N /\ q[n - 1] \in Nat /\ q[n] \in Nat
  <2>1. n - 1 \in 0..N /\ n \in 0..N
    BY <1>1
  <2> QED
    BY <2>1
<1>3. ASSUME NEW n \in 1..N
      PROVE  Stands(b.text, q[n - 1], Escaped(string[n])) /\ q[n] = q[n - 1] + Len(Escaped(string[n]))
  BY DEF Spelling
<1>4. 0 \in T
  <2>1. 0 \in 0..N /\ q[0] - 1 = quote /\ q[0] >= quote + 1 + 0
    BY <1>1
  <2>2. quote \notin E
    <3>1. \A n \in E : n > quote
      BY EscapesAre
    <3> HIDE DEF E
    <3> QED
      BY <3>1
  <2>3. \A m \in (quote + 1)..(q[0] - 1) : ByteAt(b, m) = Quote => m - 1 \in E
    BY <2>1
  <2> HIDE DEF E
  <2> QED
    BY <2>1, <2>2, <2>3
<1> HIDE DEF N
<1>5. ASSUME NEW n \in 1..N, n - 1 \in T
      PROVE  n \in T
  <2>1. PICK c \in Character : c = string[n]
    BY <1>1
  <2>2. PICK e : e = Escaped(c)
    OBVIOUS
  <2>3. PICK at \in Nat : at = q[n - 1]
    BY <1>2
  <2>4. Stands(b.text, at, e) /\ q[n] = at + Len(e) /\ n \in 0..N
    BY <1>2, <1>3, <2>1, <2>2, <2>3
  <2>5. at >= quote + 1 + (n - 1) /\ at - 1 \notin E /\ Len(e) \in Nat /\ Len(e) >= 1
    <3>1. Clean(n - 1)
      BY <1>5, Zenon
    <3>2. at >= quote + 1 + (n - 1) /\ at - 1 \notin E
      BY <2>3, <3>1, Zenon
    <3>3. Len(e) \in Nat /\ Len(e) >= 1
      BY <2>2, PieceLength, Zenon
    <3> QED
      BY <3>2, <3>3
  <2>6. at > quote
    BY <1>1, <2>5
  <2>7. /\ at + Len(e) - 1 \notin E
        /\ \A m \in at..(at + Len(e) - 1) : ByteAt(b, m) = Quote => m - 1 \in E
    BY <2>2, <2>4, <2>5, <2>6, PieceEscapes
  <2>8. ASSUME NEW m \in (quote + 1)..(q[n] - 1), ByteAt(b, m) = Quote
        PROVE  m - 1 \in E
    <3>1. CASE m <= at - 1
      <4>1. m \in (quote + 1)..(q[n - 1] - 1)
        BY <2>3, <3>1
      <4> QED
        BY <1>5, <2>8, <4>1
    <3>2. CASE ~(m <= at - 1)
      <4>1. m \in at..(at + Len(e) - 1)
        BY <2>4, <2>5, <3>2
      <4> QED
        BY <2>7, <2>8, <4>1
    <3> QED
      BY <3>1, <3>2
  <2>9. q[n] >= quote + 1 + n
    BY <1>1, <2>4, <2>5
  <2> HIDE DEF E
  <2>10. Clean(n)
    BY <2>4, <2>7, <2>8, <2>9
  <2> QED
    BY <2>4, <2>10
<1>6. 0..N \subseteq T
  <2> HIDE DEF T
  <2> QED
    BY <1>1, <1>4, <1>5, ClimbTo
<1> QED
  BY <1>6 DEF N

\* The quote behind the last piece is the one that ends the string.
LEMMA SpelledEnds ==
  ASSUME NEW b, Sound(b), NEW quote \in Nat, NEW string \in Seq(Character),
         NEW q \in [0..Len(string) -> Nat], q[0] = quote + 1, Spelling(q, b.text, string),
         NEW end, end = q[Len(string)], end < Len(b.text), ByteAt(b, end) = Quote
  PROVE  FindQuote(b, quote).ok /\ FindQuote(b, quote).end = end
<1> DEFINE escapes == Escapes(b, quote)
           ends == {n \in (quote + 1)..(Len(b.text) - 1) :
                      ByteAt(b, n) = Quote /\ n - 1 \notin escapes}
           found == FindQuote(b, quote)
<1>1. found = IF ends = {} THEN [ok |-> FALSE, end |-> quote, skipped |-> 0]
              ELSE [ok |-> TRUE, end |-> Min(ends),
                    skipped |-> Cardinality({n \in escapes : n < Min(ends)})]
  BY Zenon DEF FindQuote
<1>2. Len(b.text) \in Nat /\ Len(string) \in 0..Len(string) /\ end \in Nat
  BY SoundIs
<1>3. /\ end >= quote + 1 /\ end - 1 \notin escapes
      /\ \A m \in (quote + 1)..(end - 1) : ByteAt(b, m) = Quote => m - 1 \in escapes
  <2>1. /\ end >= quote + 1 + Len(string) /\ end - 1 \notin escapes
        /\ \A m \in (quote + 1)..(end - 1) : ByteAt(b, m) = Quote => m - 1 \in escapes
    BY <1>2, SpellingEscapes
  <2> QED
    BY <1>2, <2>1
<1> HIDE DEF escapes
<1>4. end \in ends
  <2>1. end \in (quote + 1)..(Len(b.text) - 1)
    BY <1>2, <1>3
  <2> QED
    BY <1>3, <2>1
<1>5. ASSUME NEW n \in ends
      PROVE  n \in Nat /\ n >= end
  <2>1. n \in (quote + 1)..(Len(b.text) - 1) /\ ByteAt(b, n) = Quote /\ n - 1 \notin escapes
    OBVIOUS
  <2>2. n \notin (quote + 1)..(end - 1)
    BY <1>3, <2>1
  <2> QED
    BY <1>2, <2>1, <2>2
<1> HIDE DEF ends
<1>6. Min(ends) = end
  <2>1. ends \in SUBSET Nat /\ ends # {}
    BY <1>4, <1>5
  <2>2. Min(ends) \in ends /\ \A n \in ends : Min(ends) <= n
    BY <2>1, MinIs
  <2>3. PICK m \in Nat : m = Min(ends)
    BY <1>5, <2>2
  <2>4. m >= end /\ m <= end
    BY <1>4, <1>5, <2>2, <2>3
  <2> QED
    BY <1>2, <2>3, <2>4
<1>7. found = [ok |-> TRUE, end |-> end, skipped |-> Cardinality({n \in escapes : n < end})]
  BY <1>1, <1>4, <1>6, Zenon
<1> HIDE DEF found
<1>8. found.ok /\ found.end = end
  BY <1>7
<1> QED
  BY <1>8 DEF found

\* The pieces of a printed string stand one behind the other.
LEMMA SpellingRises ==
  ASSUME NEW t, NEW string \in Seq(Character), NEW q \in [0..Len(string) -> Nat],
         Spelling(q, t, string)
  PROVE  \A n \in 0..Len(string) : q[n] <= q[Len(string)]
<1> DEFINE N == Len(string)
           T == {k \in 0..N : q[N - k] <= q[N]}
<1>1. N \in Nat /\ \A n \in 1..N : string[n] \in Character
  OBVIOUS
<1>2. ASSUME NEW n \in 1..N
      PROVE  q[n - 1] <= q[n] /\ q[n - 1] \in Nat /\ q[n] \in Nat
  <2>1. PICK c \in Character : c = string[n]
    BY <1>1
  <2>2. PICK k \in Nat : k = Len(Escaped(c))
    BY PieceLength, Zenon
  <2>3. q[n] = q[n - 1] + k
    BY <2>1, <2>2 DEF Spelling
  <2>4. n \in 0..N /\ n - 1 \in 0..N
    BY <1>1
  <2>5. q[n] \in Nat /\ q[n - 1] \in Nat
    BY <2>4
  <2> QED
    BY <2>3, <2>5
<1>3. q[N] \in Nat
  BY <1>1
<1> HIDE DEF N
<1>4. 0 \in T
  <2>1. 0 \in 0..N /\ N - 0 = N
    BY <1>1
  <2> QED
    BY <1>3, <2>1
<1>5. ASSUME NEW k \in 1..N, k - 1 \in T
      PROVE  k \in T
  <2> DEFINE n == N - k + 1
  <2>1. n \in 1..N /\ N - (k - 1) = n /\ n - 1 = N - k /\ k \in 0..N
    BY <1>1
  <2> HIDE DEF n
  <2>2. q[n] <= q[N]
    BY <1>5, <2>1
  <2>3. q[n - 1] <= q[N]
    BY <1>2, <1>3, <2>1, <2>2
  <2> QED
    BY <2>1, <2>3
<1>6. 0..N \subseteq T
  <2> HIDE DEF T
  <2> QED
    BY <1>1, <1>4, <1>5, ClimbTo
<1>7. ASSUME NEW n \in 0..N
      PROVE  q[n] <= q[N]
  <2>1. N - n \in 0..N /\ N - (N - n) = n
    BY <1>1
  <2> QED
    BY <1>6, <2>1
<1> QED
  BY <1>7 DEF N

\* At the end of a string nothing is left to copy.
LEMMA ResolveEnds ==
  ASSUME NEW b, NEW s, s.at \in Int, NEW end \in Int, s.at >= end
  PROVE  Resolve(b, s, end) = s
<1> DEFINE byte == ByteAt(b, s.at)
           code == ByteAt(b, s.at + 1)
           literal == utf16_literal_to_utf8(b, s.at, end)
           Put(length, bytes) == [s EXCEPT !.at = @ + length, !.out = @ \o bytes]
           put1 == Put(1, <<byte>>)
           more == CASE code \in DOMAIN Escape -> Put(2, <<Escape[code]>>)
                     [] code = 117 /\ literal.length > 0 -> Put(literal.length, literal.bytes)
                     [] OTHER -> [s EXCEPT !.ok = FALSE]
           over == ~s.ok \/ s.at >= end
           as_is == s.ok /\ s.at < end /\ byte # Backslash
           escape == s.ok /\ s.at < end /\ byte = Backslash
<1>1. Resolve(b, s, end) = CASE over -> s [] as_is -> put1 [] escape -> more
  BY DEF Resolve
<1> HIDE DEF put1, more
<1>2. ~(s.at < end)
  OBVIOUS
<1>3. over /\ ~as_is /\ ~escape
  BY <1>2, Zenon
<1> HIDE DEF over, as_is, escape
<1> QED
  BY <1>1, <1>3

\* A prefix of a string and the character after it.
LEMMA PrefixGrows ==
  ASSUME NEW string \in Seq(Character), NEW j \in 1..Len(string)
  PROVE  /\ SubSeq(string, 1, j - 1) \o <<string[j]>> = SubSeq(string, 1, j)
         /\ SubSeq(string, 1, j - 1) \in Seq(Character)
         /\ SubSeq(string, 1, 0) = <<>> /\ SubSeq(string, 1, Len(string)) = string
BY SubSeqProperties

\* The copy is the string.
LEMMA SpelledCopied ==
  ASSUME NEW b, Sound(b), NEW quote \in Nat, NEW string \in Seq(Character),
         NEW q \in [0..Len(string) -> Nat], q[0] = quote + 1, Spelling(q, b.text, string),
         NEW end, end = q[Len(string)], end < Len(b.text)
  PROVE  Unescape(b, quote, end) = [ok |-> TRUE, at |-> end, out |-> string]
<1> DEFINE N == Len(string)
           M == end - quote
           First(j) == [ok |-> TRUE, at |-> q[j], out |-> SubSeq(string, 1, j)]
           Least(k) == IF k <= N THEN k ELSE N
<1>1. /\ N \in Nat /\ (\A n \in 1..N : string[n] \in Character) /\ N \in 0..N /\ 0 \in 0..N
      /\ Len(b.text) \in Nat
  BY SoundIs
<1>2. end \in Nat /\ end >= quote + 1 + N
  BY <1>1, SpellingEscapes
<1>3. M \in Nat /\ N + 1 <= M /\ end \in (quote + 1)..(Len(b.text) - 1)
  BY <1>1, <1>2
<1>4. PICK base : base = [ok |-> TRUE, at |-> quote + 1, out |-> <<>>]
  OBVIOUS
<1>5. PICK rounds : CopyRounds(rounds, b, base, end, M) /\ Unescape(b, quote, end) = rounds[M]
  <2> HIDE DEF First, Least, N
  <2>1. end \in (quote + 1)..(Len(b.text) - 1)
    BY <1>3
  <2>2. PICK r : CopyRounds(r, b, base, end, end - quote) /\ Unescape(b, quote, end) = r[end - quote]
    BY <1>4, <2>1, UnescapeRounds
  <2> QED
    BY <2>2, Zenon
<1> HIDE DEF M, N
<1>6. base = First(0)
  <2>1. SubSeq(string, 1, 0) = <<>>
    OBVIOUS
  <2> QED
    BY <1>4, <2>1
<1>7. ASSUME NEW j \in 1..N
      PROVE  Resolve(b, First(j - 1), end) = First(j)
  <2>1. PICK c \in Character : c = string[j]
    BY <1>1
  <2>2. PICK e : e = Escaped(c)
    OBVIOUS
  <2>3. j \in 0..N /\ j - 1 \in 0..N /\ j \in 1..Len(string)
    BY <1>1 DEF N
  <2>4. q[j - 1] \in Nat /\ q[j] \in Nat /\ q[j] <= end
    BY <2>3, SpellingRises DEF N
  <2>5. Stands(b.text, q[j - 1], e) /\ q[j] = q[j - 1] + Len(e)
    BY <2>1, <2>2, <2>3 DEF Spelling
  <2>6. /\ SubSeq(string, 1, j - 1) \o <<c>> = SubSeq(string, 1, j)
        /\ SubSeq(string, 1, j - 1) \in Seq(Character)
    BY <2>1, <2>3, PrefixGrows
  <2>7. PICK s : s = First(j - 1)
    OBVIOUS
  <2>8. s.ok /\ s.at = q[j - 1] /\ s.out = SubSeq(string, 1, j - 1)
    BY <2>7
  <2>9. s \in Copies
    <3>1. SubSeq(string, 1, j - 1) \in Seq(Byte)
      BY <2>6, CharactersAreBytes
    <3> QED
      BY <2>4, <2>7, <3>1 DEF Copies
  <2>10. Plain(e, c) \/ Slashed(e, c) \/ Coded(e, c)
    BY <2>2, PieceIs
  <2>11. Stands(b.text, s.at, e) /\ s.at + Len(e) <= end
    BY <2>4, <2>5, <2>8
  <2>12. Resolve(b, s, end) = [ok |-> TRUE, at |-> s.at + Len(e), out |-> s.out \o <<c>>]
    BY <1>2, <2>8, <2>9, <2>10, <2>11, PieceResolved
  <2> QED
    BY <2>5, <2>6, <2>7, <2>8, <2>12, Zenon
<1>8. Resolve(b, First(N), end) = First(N)
  <2>1. First(N).at >= end
    BY <1>2 DEF N
  <2>2. First(N).at \in Int
    BY <1>2 DEF N
  <2> QED
    BY <1>2, <2>1, <2>2, ResolveEnds
<1> HIDE DEF First
<1> DEFINE T == {k \in 0..M : rounds[k] = First(Least(k))}
<1>9. 0 \in T
  <2>1. 0 \in 0..M /\ Least(0) = 0
    BY <1>1, <1>3
  <2>2. rounds[0] = base
    BY <1>5, <2>1 DEF CopyRounds
  <2> QED
    BY <1>6, <2>1, <2>2
<1>10. ASSUME NEW k \in 1..M, k - 1 \in T
       PROVE  k \in T
  <2>1. k \in 0..M /\ k # 0
    BY <1>3
  <2>2. rounds[k] = Resolve(b, rounds[k - 1], end)
    BY <1>5, <2>1 DEF CopyRounds
  <2>3. rounds[k - 1] = First(Least(k - 1))
    BY <1>10, Zenon
  <2>4. CASE k <= N
    <3>1. k \in 1..N /\ Least(k - 1) = k - 1 /\ Least(k) = k
      BY <1>1, <2>4
    <3>2. rounds[k] = First(k)
      BY <1>7, <2>2, <2>3, <3>1
    <3> QED
      BY <2>1, <3>1, <3>2
  <2>5. CASE ~(k <= N)
    <3>1. Least(k - 1) = N /\ Least(k) = N
      BY <1>1, <2>5
    <3>2. rounds[k] = First(N)
      BY <1>8, <2>2, <2>3, <3>1
    <3> QED
      BY <2>1, <3>1, <3>2
  <2> QED
    BY <2>4, <2>5
<1>11. 0..M \subseteq T
  <2> HIDE DEF T
  <2> QED
    BY <1>3, <1>9, <1>10, ClimbTo
<1>12. rounds[M] = First(N)
  <2>1. M \in 0..M /\ Least(M) = N
    BY <1>1, <1>3
  <2>2. rounds[M] = First(Least(M))
    BY <1>11, <2>1
  <2> QED
    BY <2>1, <2>2
<1>13. First(N) = [ok |-> TRUE, at |-> end, out |-> string]
  <2>1. SubSeq(string, 1, Len(string)) = string
    BY SubSeqProperties
  <2> QED
    BY <2>1 DEF First, N
<1> QED
  BY <1>5, <1>12, <1>13

\* A string without the byte 0 is whole for whoever reads it.
LEMMA CStringWhole ==
  ASSUME NEW s \in Seq(Character)
  PROVE  CString(s) = s
<1> DEFINE zeros == {n \in DOMAIN s : s[n] = 0}
           ends == {Len(s) + 1} \cup zeros
<1>1. Len(s) \in Nat /\ DOMAIN s = 1..Len(s)
  OBVIOUS
<1>2. zeros = {}
  <2>1. \A n \in DOMAIN s : s[n] # 0
    BY DEF Character
  <2> QED
    BY <2>1
<1>3. Min(ends) = Len(s) + 1
  <2>1. ends = {Len(s) + 1}
    BY <1>2
  <2>2. ends \in SUBSET Nat /\ ends # {}
    BY <1>1, <2>1
  <2>3. Min(ends) \in ends
    BY <2>2, MinIs
  <2> QED
    BY <2>1, <2>3
<1>4. CString(s) = SubSeq(s, 1, Min(ends) - 1)
  BY DEF CString
<1>5. Min(ends) - 1 = Len(s)
  BY <1>1, <1>3
<1> HIDE DEF ends
<1>6. SubSeq(s, 1, Len(s)) = s
  BY SubSeqProperties
<1> QED
  BY <1>4, <1>5, <1>6, Zenon

\* A buffer at a quoted string, with the string.
AtLiteral(b, input) == Stands(b.text, b.offset, Literal(input))

\* The quotes of a literal and the spelling between them.
LEMMA LiteralWhere ==
  ASSUME NEW b, Sound(b), NEW input \in CharPointer, AtLiteral(b, input), NEW string, string = Known(input),
         NEW start, start = b.offset, NEW end, end = start + 1 + Len(Spelled(string))
  PROVE  /\ string \in Seq(Character) /\ start \in Nat /\ end \in (start + 1)..(Len(b.text) - 1)
         /\ end + 1 = start + Len(Literal(input)) /\ end + 1 < Len(b.text)
         /\ Sees(b, Quote) /\ ByteAt(b, end) = Quote
         /\ \E q \in [0..Len(string) -> Nat] : /\ q[0] = start + 1 /\ q[Len(string)] = end
                                               /\ Spelling(q, b.text, string)
<1>1. start \in Nat /\ Len(b.text) \in Nat /\ b.text[Len(b.text)] = 0
  BY SoundIs
<1>2. /\ string \in Seq(Character) /\ Spelled(string) \in Seq(Character)
      /\ Literal(input) = <<Quote>> \o Spelled(string) \o <<Quote>>
      /\ Literal(input) \in Seq(Character)
  BY LiteralSpelled DEF Known
<1> DEFINE sign == <<Quote>>
           inner == Spelled(string)
<1>3. sign \in Seq(Character) /\ Len(sign) = 1 /\ inner \in Seq(Character)
  BY <1>2, Signs
<1>4. Literal(input) = (sign \o inner) \o sign
  BY <1>2
<1> HIDE DEF inner
<1>5. PICK front \in Seq(Character) : front = sign \o inner
  BY <1>3, JoinIs
<1>6. PICK whole : whole = Literal(input)
  OBVIOUS
<1>7. whole = front \o sign /\ Stands(b.text, start, whole)
  BY <1>4, <1>5, <1>6 DEF AtLiteral
<1> HIDE DEF sign
<1>8. /\ Stands(b.text, start, front) /\ Stands(b.text, start + Len(front), sign)
      /\ Len(whole) = Len(front) + 1
  <2>1. Stands(b.text, start, front)
    BY <1>1, <1>3, <1>7, StandsApart, Zenon
  <2>2. Stands(b.text, start + Len(front), sign)
    BY <1>1, <1>3, <1>7, StandsApart, Zenon
  <2>3. Len(whole) = Len(front) + Len(sign)
    BY <1>3, <1>7, JoinIs
  <2> QED
    BY <1>3, <2>1, <2>2, <2>3
<1>9. /\ Stands(b.text, start, sign) /\ Stands(b.text, start + 1, inner)
      /\ Len(front) = 1 + Len(inner)
  <2>1. Stands(b.text, start, sign)
    BY <1>1, <1>3, <1>5, <1>8, StandsApart, Zenon
  <2>2. Stands(b.text, start + Len(sign), inner)
    BY <1>1, <1>3, <1>5, <1>8, StandsApart, Zenon
  <2>3. Stands(b.text, start + 1, inner)
    BY <1>3, <2>2, Zenon
  <2>4. Len(front) = Len(sign) + Len(inner)
    BY <1>3, <1>5, JoinIs
  <2> QED
    BY <1>3, <2>1, <2>3, <2>4
<1>10. Len(inner) \in Nat /\ Len(front) \in Nat
  BY <1>3
<1>11. end = start + Len(front) /\ end \in Nat /\ end + 1 = start + Len(whole)
  <2>1. PICK k \in Nat : k = Len(inner)
    BY <1>10
  <2>2. end = start + 1 + k /\ Len(front) = 1 + k /\ Len(whole) = Len(front) + 1
    BY <1>8, <1>9, <2>1 DEF inner
  <2> QED
    BY <1>1, <2>2
<1>12. end + 1 <= Len(b.text) /\ b.text[end + 1] = Quote
  <2>1. Stands(b.text, end, <<Quote>>)
    BY <1>8, <1>11 DEF sign
  <2> QED
    BY <2>1, SignStands
<1>13. end + 1 < Len(b.text)
  <2>1. Quote # 0
    BY DEF Quote
  <2> QED
    BY <1>1, <1>11, <1>12, <2>1
<1>14. Sees(b, Quote)
  <2>1. Stands(b.text, start, <<Quote>>)
    BY <1>9 DEF sign
  <2>2. start + 1 <= Len(b.text) /\ b.text[start + 1] = Quote
    BY <2>1, SignStands
  <2> QED
    BY <1>1, <2>2 DEF Sees, CanAccess, ByteAt
<1>15. end \in (start + 1)..(Len(b.text) - 1)
  BY <1>1, <1>10, <1>11, <1>12, <1>9
<1>16. PICK q \in [0..Len(string) -> Nat] :
         q[0] = start + 1 /\ q[Len(string)] = start + 1 + Len(inner) /\ Spelling(q, b.text, string)
  <2>1. PICK at \in Nat : at = start + 1
    BY <1>1
  <2>2. Stands(b.text, at, Spelled(string))
    BY <1>9, <2>1 DEF inner
  <2>3. PICK q \in [0..Len(string) -> Nat] :
          q[0] = at /\ q[Len(string)] = at + Len(Spelled(string)) /\ Spelling(q, b.text, string)
    BY <1>1, <1>2, <2>2, SpelledWhere, Zenon
  <2> QED
    BY <2>1, <2>3 DEF inner
<1>17. ByteAt(b, end) = Quote
  BY <1>12 DEF ByteAt
<1>18. q[Len(string)] = end
  BY <1>16 DEF inner
<1> QED
  BY <1>1, <1>2, <1>6, <1>11, <1>13, <1>14, <1>15, <1>16, <1>17, <1>18

\* A new item with a type and a value.
Filled(it, type, val) == [it EXCEPT !.type = type, !.val = val]

\* A printed string is read as it was, with the one block for its copy.
LEMMA LiteralRead ==
  ASSUME NEW b, Sound(b), NEW it \in NewItems, NEW input \in CharPointer, AtLiteral(b, input),
         NEW v, v = parse_string(b, it)
  PROVE  /\ v.ok => /\ v.item = Filled(it, "String", Known(input))
                    /\ Reached(b, b.offset + Len(Literal(input)), 1, v.b)
         /\ ~v.ok => b.luck < 1
<1> DEFINE start == b.offset
           found == FindQuote(b, start)
           output == Malloc(b)
           copy == Unescape(output.b, start, found.end)
           size == found.end - start - found.skipped + 1
           Fail0(buffer, at) == No([buffer EXCEPT !.offset = at], it)
           short == Len(copy.out) > size
           tight == Len(copy.out) + 1 > size
           failed == Fail0([Release(output.b, 1) EXCEPT !.overrun = @ \/ short], copy.at)
           new == [it EXCEPT !.type = "String", !.val = CString(copy.out)]
           done == [output.b EXCEPT !.offset = found.end + 1, !.overrun = @ \/ tight]
<1>1. v = IF ~Sees(b, Quote) \/ ~found.ok \/ ~output.ok THEN Fail0(b, start + 1)
          ELSE IF ~copy.ok THEN failed ELSE Yes(done, new)
  BY Zenon DEF parse_string
<1>2. start \in Nat /\ b.luck \in Nat /\ Len(b.text) \in Nat
  BY SoundIs
<1>3. PICK string : string = Known(input)
  OBVIOUS
<1>4. PICK end : end = start + 1 + Len(Spelled(string))
  OBVIOUS
<1>5. /\ string \in Seq(Character) /\ end \in (start + 1)..(Len(b.text) - 1)
      /\ end + 1 = start + Len(Literal(input)) /\ end + 1 < Len(b.text)
      /\ Sees(b, Quote) /\ ByteAt(b, end) = Quote
  BY <1>3, <1>4, LiteralWhere
<1>6. PICK q \in [0..Len(string) -> Nat] : /\ q[0] = start + 1 /\ q[Len(string)] = end
                                           /\ Spelling(q, b.text, string)
  BY <1>3, <1>4, LiteralWhere
<1>7. end \in Nat /\ end < Len(b.text)
  BY <1>2, <1>5
<1>8. found.ok /\ found.end = end
  BY <1>2, <1>5, <1>6, <1>7, SpelledEnds
<1> HIDE DEF found
<1>9. CASE ~output.ok
  <2>1. v = Fail0(b, start + 1)
    BY <1>1, <1>9
  <2>2. ~v.ok
    BY <2>1 DEF No
  <2>3. ~(b.luck > 0)
    BY <1>9 DEF Malloc
  <2> QED
    BY <1>2, <2>2, <2>3
<1>10. CASE output.ok
  <2> DEFINE b1 == output.b
  <2>1. /\ Sound(b1) /\ b1.text = b.text /\ b1.depth = b.depth /\ b1.luck = b.luck - 1
    BY <1>10, MallocIs
  <2>2. copy = [ok |-> TRUE, at |-> end, out |-> string]
    <3> HIDE DEF output
    <3>1. Spelling(q, b1.text, string) /\ end < Len(b1.text)
      BY <1>6, <1>7, <2>1
    <3>2. copy = Unescape(b1, start, end)
      BY <1>8, Zenon
    <3> HIDE DEF b1, copy
    <3>3. Unescape(b1, start, end) = [ok |-> TRUE, at |-> end, out |-> string]
      BY <1>2, <1>5, <1>6, <2>1, <3>1, SpelledCopied, Zenon
    <3> QED
      BY <3>2, <3>3, Zenon
  <2>3. Copied(b1, start, end, copy)
    <3> HIDE DEF output
    <3>1. end \in (start + 1)..(Len(b1.text) - 1)
      BY <1>5, <2>1
    <3> QED
      BY <1>2, <1>8, <2>1, <3>1, UnescapeIs
  <2> HIDE DEF copy
  <2>4. ~tight
    <3> HIDE DEF output
    <3> DEFINE skipped == found.skipped
    <3>1. skipped = Cardinality(Before(Escapes(b, start), end))
      BY <1>2, <1>8, QuoteFound DEF found
    <3>2. Escapes(b1, start) = Escapes(b, start)
      BY <2>1, EscapesOfText
    <3>3. Len(copy.out) + 1 <= end - start - skipped + 1 /\ Len(copy.out) \in Nat
      <4>1. skipped = Cardinality(Before(Escapes(b1, start), end)) /\ end \in (start + 1)..(Len(b1.text) - 1)
        BY <1>5, <2>1, <3>1, <3>2
      <4> HIDE DEF b1, skipped
      <4> QED
        BY <1>2, <2>1, <2>3, <4>1, CopyFits
    <3>4. skipped \in Nat
      BY <1>2, <1>7, <3>1, EscapesAre, BeforeIs
    <3> HIDE DEF skipped
    <3>5. size = end - start - skipped + 1
      BY <1>8 DEF skipped
    <3> QED
      BY <1>2, <1>7, <3>3, <3>4, <3>5
  <2>5. copy.ok /\ copy.out = string
    BY <2>2
  <2>6. v = Yes(done, new)
    <3> HIDE DEF done, new, failed, output
    <3> QED
      BY <1>1, <1>5, <1>8, <1>10, <2>5
  <2> HIDE DEF tight, output
  <2>7. done = [b1 EXCEPT !.offset = end + 1]
    <3>1. end + 1 \in Nat
      BY <1>7
    <3>2. done = [b1 EXCEPT !.offset = end + 1, !.overrun = @ \/ tight]
      BY <1>8
    <3> HIDE DEF done, b1
    <3> QED
      BY <2>1, <2>4, <3>1, <3>2, NoOverrunAdded
  <2>8. new = [it EXCEPT !.type = "String", !.val = string]
    BY <1>5, <2>5, CStringWhole
  <2> HIDE DEF done, new
  <2>9. v.ok /\ v.b = done /\ v.item = new
    BY <2>6 DEF Yes
  <2>10. Reached(b, end + 1, 1, done)
    <3>1. end + 1 \in Nat
      BY <1>7
    <3>2. Moved(b1, done) /\ done.offset = end + 1
      <4> HIDE DEF b1
      <4> QED
        BY <2>1, <2>7, <3>1, OffsetMoved
    <3>3. done.luck + 1 = b.luck
      <4>1. done.luck = b.luck - 1
        BY <2>1, <3>2 DEF Moved
      <4> QED
        BY <1>2, <4>1
    <3> QED
      BY <2>1, <3>2, <3>3 DEF Reached, Moved
  <2>11. v.item = Filled(it, "String", Known(input))
    BY <1>3, <2>8, <2>9, Zenon DEF Filled
  <2> QED
    BY <1>5, <2>9, <2>10, <2>11
<1> QED
  BY <1>9, <1>10

\* The text s is at the offset of b, and the byte behind it is not one of a number.
AtText(b, s) == /\ Stands(b.text, b.offset, s) /\ b.offset + Len(s) < Len(b.text)
                /\ b.text[b.offset + Len(s) + 1] \notin NumberByte

\* From the text s the item comes back, for that many blocks, unless those are too
\* many or the text is too deep.
Taken(b, s, new, blocks, deep, v) ==
  /\ v.ok => v.item = new /\ Reached(b, b.offset + Len(s), blocks, v.b)
  /\ ~v.ok => deep \/ b.luck < blocks

\* A numeral is made of digits and minus signs.
LEMMA NumeralBytes ==
  ASSUME NEW w \in Seq(Character), Len(w) >= 1, IsNumeral(w)
  PROVE  \A n \in 1..Len(w) : w[n] \in Digit \cup {Minus}
<1> DEFINE from == IF w[1] = Minus THEN 2 ELSE 1
           body == SubSeq(w, from, Len(w))
<1>1. Len(w) \in Nat /\ from \in 1..2 /\ (from = 2 => w[1] = Minus)
  OBVIOUS
<1>2. ToSet(body) \subseteq Digit
  BY DEF IsNumeral
<1> HIDE DEF from
<1>3. /\ body \in Seq(Character) /\ Len(body) = Len(w) - from + 1
      /\ \A n \in 1..Len(body) : body[n] = w[from + n - 1]
  BY <1>1
<1>4. \A n \in 1..Len(body) : body[n] \in Digit
  <2> HIDE DEF body
  <2> QED
    BY <1>2, <1>3 DEF ToSet
<1> HIDE DEF body
<1> TAKE n \in 1..Len(w)
<1>5. CASE n < from
  <2>1. n = 1 /\ from = 2
    BY <1>1, <1>5
  <2> QED
    BY <1>1, <2>1
<1>6. CASE ~(n < from)
  <2> DEFINE m == n - from + 1
  <2>1. m \in 1..Len(body) /\ from + m - 1 = n
    BY <1>1, <1>3, <1>6
  <2> HIDE DEF m
  <2> QED
    BY <1>3, <1>4, <2>1
<1> QED
  BY <1>5, <1>6

\* A printed number is copied whole and read whole.
LEMMA NumberRead ==
  ASSUME NEW b, Sound(b), NEW it \in NewItems, NEW val \in Numbers, val # Word.NULL, AtText(b, val)
  PROVE  parse_number(b, it) = Yes(Step(b, Len(val)), [it EXCEPT !.type = "Number", !.val = val])
<1> DEFINE rest == SubSeq(b.text, b.offset + 1, Len(b.text))
           stop == {n \in DOMAIN rest : rest[n] \notin NumberByte} \cup {NumberLength + 1}
           copied == SubSeq(rest, 1, Min(stop) - 1)
           n == Strtod(copied)
           L == Len(val)
<1>1. /\ b.offset \in Nat /\ Len(b.text) \in Nat /\ b.text \in Seq(Byte) /\ b.offset < Len(b.text)
  <2>1. Len(val) \in Nat
    BY NumbersAre
  <2> QED
    BY <2>1, SoundIs DEF AtText
<1>2. /\ val \in Seq(Character) /\ L \in 1..NumberLength /\ IsNumeral(val) /\ NumberLength \in Nat \ {0}
      /\ L \in Nat
  BY ParserAssumption DEF Numbers
<1>3. /\ b.offset + L < Len(b.text) /\ b.text[b.offset + L + 1] \notin NumberByte
      /\ \A m \in 1..L : b.text[b.offset + m] = val[m]
  BY DEF AtText, Stands
<1>4. \A m \in 1..L : val[m] \in NumberByte
  <2>1. \A m \in 1..L : val[m] \in Digit \cup {Minus}
    BY <1>2, NumeralBytes
  <2> QED
    BY <2>1 DEF NumberByte
<1>5. /\ rest \in Seq(Byte) /\ Len(rest) = Len(b.text) - b.offset
      /\ \A m \in 1..Len(rest) : rest[m] = b.text[b.offset + m]
  <2> DEFINE t == b.text
             first == b.offset + 1
             last == Len(b.text)
  <2>1. /\ t \in Seq(Byte) /\ first \in 1..last /\ last = Len(t) /\ last \in Nat
        /\ last - first + 1 = Len(b.text) - b.offset
    <3>1. t \in Seq(Byte) /\ last = Len(t) /\ last \in Nat /\ b.offset < last
      BY <1>1
    <3> HIDE DEF t, last
    <3> QED
      BY <1>1, <3>1 DEF last
  <2>2. \A m \in 1..(last - first + 1) : first + m - 1 = b.offset + m
    BY <1>1, <2>1
  <2> HIDE DEF t, first, last
  <2>3. /\ SubSeq(t, first, last) \in Seq(Byte) /\ Len(SubSeq(t, first, last)) = last - first + 1
        /\ \A m \in 1..(last - first + 1) : SubSeq(t, first, last)[m] = t[first + m - 1]
    BY <2>1
  <2>4. rest = SubSeq(t, first, last)
    BY DEF t, first, last
  <2> HIDE DEF rest
  <2>5. Len(rest) = last - first + 1
    BY <2>3, <2>4
  <2>6. ASSUME NEW m \in 1..Len(rest)
        PROVE  rest[m] = b.text[b.offset + m]
    <3>1. m \in 1..(last - first + 1)
      BY <2>5
    <3>2. rest[m] = t[first + m - 1]
      BY <2>3, <2>4, <3>1
    <3> QED
      BY <2>2, <3>1, <3>2 DEF t
  <2> QED
    BY <2>1, <2>3, <2>4, <2>5, <2>6
<1>6. parse_number(b, it) = IF n = 0 THEN No(b, it)
          ELSE Yes(Step(b, n), [it EXCEPT !.type = "Number", !.val = SubSeq(copied, 1, n)])
  BY Zenon DEF parse_number
<1> HIDE DEF rest, L
<1>13. L + 1 <= Len(rest) /\ Len(rest) \in Nat
  <2>1. L + 1 <= Len(b.text) - b.offset /\ Len(b.text) - b.offset \in Nat
    BY <1>1, <1>2, <1>3
  <2>2. Len(rest) = Len(b.text) - b.offset
    BY <1>5
  <2> QED
    BY <2>1, <2>2
<1>7. L + 1 \in stop /\ stop \in SUBSET Nat /\ \A m \in stop : m >= L + 1
  <2>1. L + 1 \in 1..Len(rest)
    <3> DEFINE size == Len(rest)
    <3>1. size \in Nat /\ L + 1 <= size /\ L \in Nat
      BY <1>2, <1>13
    <3> HIDE DEF size
    <3> QED
      BY <3>1 DEF size
  <2>2. rest[L + 1] \notin NumberByte
    <3>1. rest[L + 1] = b.text[b.offset + (L + 1)]
      BY <1>5, <2>1, Zenon
    <3>2. b.offset + (L + 1) = b.offset + L + 1
      BY <1>1, <1>2
    <3>3. b.text[b.offset + L + 1] \notin NumberByte
      BY <1>3, Zenon
    <3> QED
      BY <3>1, <3>2, <3>3, Zenon
  <2>3. L + 1 \in stop
    BY <1>5, <2>1, <2>2
  <2>4. ASSUME NEW m \in stop
        PROVE  m \in Nat /\ m >= L + 1
    <3>1. CASE m = NumberLength + 1
      BY <1>2, <3>1
    <3>2. CASE m \in DOMAIN rest /\ rest[m] \notin NumberByte
      <4>1. m \in 1..Len(rest)
        BY <1>5, <3>2
      <4>2. ~(m \in 1..L)
        <5>1. m \in 1..L => rest[m] = val[m]
          BY <1>3, <1>5, <4>1
        <5> QED
          BY <1>4, <3>2, <5>1
      <4> QED
        BY <1>2, <4>1, <4>2
    <3> QED
      BY <3>1, <3>2
  <2> QED
    BY <2>3, <2>4
<1> HIDE DEF stop
<1>8. Min(stop) - 1 = L
  <2>1. Min(stop) \in stop /\ \A m \in stop : Min(stop) <= m
    BY <1>7, MinIs
  <2>2. Min(stop) \in Nat /\ Min(stop) <= L + 1 /\ Min(stop) >= L + 1
    BY <1>7, <2>1
  <2> QED
    BY <1>2, <2>2
<1>9. copied = val
  <2>1. copied = SubSeq(rest, 1, L)
    BY <1>8
  <2>2. /\ SubSeq(rest, 1, L) \in Seq(Byte) /\ Len(SubSeq(rest, 1, L)) = L
        /\ \A m \in 1..L : SubSeq(rest, 1, L)[m] = rest[m]
    <3>1. L \in 0..Len(rest) /\ Len(rest) \in Nat
      BY <1>2, <1>13
    <3> QED
      BY <1>5, <3>1
  <2>3. \A m \in 1..L : rest[m] = val[m]
    <3> TAKE m \in 1..L
    <3>1. m \in 1..Len(rest)
      <4> DEFINE size == Len(rest)
      <4>1. size \in Nat /\ L + 1 <= size /\ L \in Nat
        BY <1>2, <1>13
      <4> HIDE DEF size
      <4> QED
        BY <4>1 DEF size
    <3>2. rest[m] = b.text[b.offset + m]
      BY <1>5, <3>1
    <3> QED
      BY <1>3, <3>2
  <2> HIDE DEF copied
  <2>4. /\ copied \in Seq(Byte) /\ Len(copied) = Len(val) /\ val \in Seq(Byte)
        /\ \A m \in 1..Len(val) : copied[m] = val[m]
    BY <1>2, <2>1, <2>2, <2>3, CharactersAreBytes DEF L
  <2> QED
    BY <2>4
<1> HIDE DEF copied
<1>10. SubSeq(val, 1, Len(val)) = val
  BY <1>2, SubSeqProperties
<1>11. n = L
  <2>1. val \in Seq(Byte) /\ Len(val) \in 1..Len(val)
    BY <1>2, CharactersAreBytes DEF L
  <2>2. Strtod(val) \in 0..Len(val) /\ Strtod(val) >= Len(val)
    BY <1>2, <1>10, <2>1, StrtodIs
  <2> QED
    BY <1>2, <1>9, <2>2 DEF L
<1>12. n # 0
  BY <1>2, <1>11
<1> HIDE DEF n
<1> QED
  BY <1>6, <1>9, <1>10, <1>11, <1>12 DEF L

\* What a new item is filled with.
LEMMA Made ==
  ASSUME NEW it \in NewItems, NEW a, it.string = a.string,
         a = [type |-> a.type, string |-> a.string, val |-> a.val, kids |-> a.kids]
  PROVE  /\ a.kids = <<>> => [it EXCEPT !.type = a.type, !.val = a.val] = a
         /\ a.kids = <<>> /\ a.val = NoText => [it EXCEPT !.type = a.type] = a
         /\ a.val = NoText => [it EXCEPT !.type = a.type, !.kids = a.kids] = a
<1>1. it = [type |-> "Invalid", string |-> a.string, val |-> NoText, kids |-> <<>>]
  BY DEF NewItems, Items
<1>2. PICK type : type = a.type
  OBVIOUS
<1>3. PICK string : string = a.string
  OBVIOUS
<1>4. PICK val : val = a.val
  OBVIOUS
<1>5. PICK kids : kids = a.kids
  OBVIOUS
<1>6. a = [type |-> type, string |-> string, val |-> val, kids |-> kids]
  BY <1>2, <1>3, <1>4, <1>5, Zenon
<1>7. it \in [type : {"Invalid"}, string : {string}, val : {NoText}, kids : {<<>>}]
  BY <1>1, <1>3
<1>8. [it EXCEPT !.type = type, !.val = val] = [type |-> type, string |-> string, val |-> val, kids |-> <<>>]
  <2> DEFINE new == [it EXCEPT !.type = type, !.val = val]
  <2>1. new \in [type : {type}, string : {string}, val : {val}, kids : {<<>>}]
    BY <1>7
  <2> HIDE DEF new
  <2>2. new = [type |-> type, string |-> string, val |-> val, kids |-> <<>>]
    BY <2>1
  <2> QED
    BY <2>2 DEF new
<1>9. [it EXCEPT !.type = type] = [type |-> type, string |-> string, val |-> NoText, kids |-> <<>>]
  <2> DEFINE new == [it EXCEPT !.type = type]
  <2>1. new \in [type : {type}, string : {string}, val : {NoText}, kids : {<<>>}]
    BY <1>7
  <2> HIDE DEF new
  <2>2. new = [type |-> type, string |-> string, val |-> NoText, kids |-> <<>>]
    BY <2>1
  <2> QED
    BY <2>2 DEF new
<1>10. [it EXCEPT !.type = type, !.kids = kids]
         = [type |-> type, string |-> string, val |-> NoText, kids |-> kids]
  <2> DEFINE new == [it EXCEPT !.type = type, !.kids = kids]
  <2>1. new \in [type : {type}, string : {string}, val : {NoText}, kids : {kids}]
    BY <1>7
  <2> HIDE DEF new
  <2>2. new = [type |-> type, string |-> string, val |-> NoText, kids |-> kids]
    BY <2>1
  <2> QED
    BY <2>2 DEF new
<1> QED
  BY <1>2, <1>4, <1>5, <1>6, <1>8, <1>9, <1>10, Zenon

\* How the words start.
Initial(word) == IF word = "NULL" THEN 110 ELSE IF word = "False" THEN 102 ELSE 116

\* null, false and true begin with different letters.
LEMMA WordStarts ==
  ASSUME NEW word \in DOMAIN Word
  PROVE  /\ Word[word] \in Seq(Byte) /\ Len(Word[word]) \in 4..5
         /\ Word[word][1] = Initial(word) /\ word \in {"NULL", "False", "True"}
<1>1. word \in {"NULL", "False", "True"}
  BY DEF Word
<1>2. Word[word] \in Seq(Byte)
  BY WordCharacters, CharactersAreBytes
<1>3. CASE word = "NULL"
  <2>1. Word[word] = <<110, 117, 108, 108>>
    BY <1>3 DEF Word
  <2> QED
    BY <1>1, <1>2, <1>3, <2>1 DEF Initial
<1>4. CASE word = "False"
  <2>1. Word[word] = <<102, 97, 108, 115, 101>>
    BY <1>4 DEF Word
  <2> QED
    BY <1>1, <1>2, <1>4, <2>1 DEF Initial
<1>5. CASE word = "True"
  <2>1. Word[word] = <<116, 114, 117, 101>>
    BY <1>5 DEF Word
  <2> QED
    BY <1>1, <1>2, <1>5, <2>1 DEF Initial
<1> QED
  BY <1>1, <1>3, <1>4, <1>5

\* The bytes of a part of a text.
LEMMA SliceIs ==
  ASSUME NEW t \in Seq(Byte), NEW at \in Nat, NEW n \in Nat, at + n <= Len(t)
  PROVE  /\ SubSeq(t, at + 1, at + n) \in Seq(Byte) /\ Len(SubSeq(t, at + 1, at + n)) = n
         /\ \A m \in 1..n : SubSeq(t, at + 1, at + n)[m] = t[at + m]
<1> DEFINE first == at + 1
           last == at + n
<1>1. first \in Nat \ {0} /\ last <= Len(t) /\ last \in Nat /\ last - first + 1 = n
  OBVIOUS
<1>2. \A m \in 1..n : first + m - 1 = at + m
  OBVIOUS
<1> HIDE DEF first, last
<1>3. SubSeq(t, first, last) = [m \in 1..(last - first + 1) |-> t[first + m - 1]]
  BY <1>1
<1>4. \A m \in 1..n : first + m - 1 \in 1..Len(t)
  BY <1>1
<1>5. SubSeq(t, first, last) \in Seq(Byte) /\ Len(SubSeq(t, first, last)) = n
  <2>1. \A m \in 1..n : t[first + m - 1] \in Byte
    BY <1>4
  <2> QED
    BY <1>1, <1>3, <2>1
<1>6. \A m \in 1..n : SubSeq(t, first, last)[m] = t[at + m]
  BY <1>1, <1>2, <1>3
<1> QED
  BY <1>5, <1>6 DEF first, last

\* Which words the buffer sees.
LEMMA WordsAt ==
  ASSUME NEW b, Sound(b), NEW words,
         \A w : w \in words <=> w \in DOMAIN Word /\ SeesWord(b, Word[w])
  PROVE  /\ \A word \in DOMAIN Word : Stands(b.text, b.offset, Word[word]) => words = {word}
         /\ \A c : Sees(b, c) /\ c \notin {110, 102, 116} => words = {}
<1>1. b.offset \in Nat /\ b.text \in Seq(Byte)
  BY SoundIs
<1>2. ASSUME NEW w \in words
      PROVE  w \in {"NULL", "False", "True"} /\ b.text[b.offset + 1] = Initial(w)
  <2>1. w \in DOMAIN Word /\ SeesWord(b, Word[w])
    OBVIOUS
  <2>2. PICK s \in Seq(Byte) : s = Word[w]
    BY <2>1, WordStarts
  <2>3. Len(s) \in 4..5 /\ s[1] = Initial(w) /\ w \in {"NULL", "False", "True"}
    BY <2>1, <2>2, WordStarts
  <2>4. b.offset + Len(s) <= Len(b.text) /\ SubSeq(b.text, b.offset + 1, b.offset + Len(s)) = s
    BY <2>1, <2>2 DEF SeesWord
  <2>5. PICK t \in Seq(Byte) : t = b.text
    BY <1>1
  <2>6. PICK at \in Nat : at = b.offset
    BY <1>1
  <2>7. PICK n \in Nat : n = Len(s)
    OBVIOUS
  <2>8. at + n <= Len(t)
    BY <2>4, <2>5, <2>6, <2>7
  <2>9. \A m \in 1..n : SubSeq(t, at + 1, at + n)[m] = t[at + m]
    BY <2>8, SliceIs
  <2>10. 1 \in 1..n
    BY <2>3, <2>7
  <2>11. SubSeq(t, at + 1, at + n)[1] = t[at + 1]
    BY <2>9, <2>10
  <2>12. SubSeq(t, at + 1, at + n) = s
    BY <2>4, <2>5, <2>6, <2>7
  <2> QED
    BY <2>3, <2>5, <2>6, <2>11, <2>12
<1>3. ASSUME NEW word \in DOMAIN Word, Stands(b.text, b.offset, Word[word])
      PROVE  words = {word}
  <2>1. PICK s \in Seq(Byte) : s = Word[word]
    BY WordStarts
  <2>2. Len(s) \in 4..5 /\ s[1] = Initial(word) /\ word \in {"NULL", "False", "True"}
    BY <2>1, WordStarts
  <2>3. PICK t \in Seq(Byte) : t = b.text
    BY <1>1
  <2>4. PICK at \in Nat : at = b.offset
    BY <1>1
  <2>5. PICK n \in Nat : n = Len(s)
    OBVIOUS
  <2>6. at + n <= Len(t) /\ \A m \in 1..n : t[at + m] = s[m]
    BY <1>3, <2>1, <2>3, <2>4, <2>5 DEF Stands
  <2>7. PICK slice \in Seq(Byte) : slice = SubSeq(t, at + 1, at + n)
    BY <2>6, SliceIs
  <2>8. Len(slice) = n /\ \A m \in 1..n : slice[m] = t[at + m]
    BY <2>6, <2>7, SliceIs
  <2>9. slice = s
    <3>1. slice \in Seq(Byte) /\ s \in Seq(Byte) /\ Len(slice) = Len(s)
      BY <2>5, <2>8
    <3>2. \A m \in 1..Len(s) : slice[m] = s[m]
      BY <2>5, <2>6, <2>8
    <3> QED
      BY <3>1, <3>2
  <2>10. SeesWord(b, Word[word])
    BY <2>1, <2>3, <2>4, <2>5, <2>6, <2>7, <2>9 DEF SeesWord
  <2>11. t[at + 1] = Initial(word)
    <3>1. 1 \in 1..n
      BY <2>2, <2>5
    <3> QED
      BY <2>2, <2>6, <3>1
  <2>12. word \in words
    BY <2>10
  <2>13. ASSUME NEW w \in words
         PROVE  w = word
    <3>1. w \in {"NULL", "False", "True"} /\ Initial(w) = Initial(word)
      BY <1>2, <2>3, <2>4, <2>11
    <3> QED
      BY <2>2, <3>1 DEF Initial
  <2> QED
    BY <2>12, <2>13
<1>4. ASSUME NEW c, Sees(b, c), c \notin {110, 102, 116}
      PROVE  words = {}
  <2>1. b.text[b.offset + 1] = c
    BY <1>4 DEF Sees, ByteAt
  <2>2. \A w : w \in words => Initial(w) \in {110, 102, 116}
    BY DEF Initial
  <2> QED
    BY <1>2, <1>4, <2>1, <2>2
<1> QED
  BY <1>3, <1>4

\* What the first byte decides.
LEMMA ValueIs ==
  ASSUME NEW b, Sound(b), NEW it, NEW value, NEW v, v = value_from(b, it, value)
  PROVE  /\ \A word \in DOMAIN Word : Stands(b.text, b.offset, Word[word]) =>
              v = Yes(Step(b, Len(Word[word])), [it EXCEPT !.type = word])
         /\ Sees(b, Quote) => v = parse_string(b, it)
         /\ (\E c \in Digit \cup {Minus} : Sees(b, c)) => v = parse_number(b, it)
         /\ \A type \in DOMAIN Open : Sees(b, Open[type]) => v = parse_container(b, it, type, value)
<1> DEFINE words == {w \in DOMAIN Word : SeesWord(b, Word[w])}
           word == CHOOSE w \in words : TRUE
           seesWord == words # {}
           seesQuote == words = {} /\ Sees(b, Quote)
           seesNumber == words = {} /\ (\E c \in Digit \cup {Minus} : Sees(b, c))
           seesArray == words = {} /\ Sees(b, Open.Array)
           seesObject == words = {} /\ Sees(b, Open.Object)
           aWord == Yes(Step(b, Len(Word[word])), [it EXCEPT !.type = word])
           aString == parse_string(b, it)
           aNumber == parse_number(b, it)
           anArray == parse_container(b, it, "Array", value)
           anObject == parse_container(b, it, "Object", value)
<1>1. v = CASE seesWord -> aWord [] seesQuote -> aString [] seesNumber -> aNumber
            [] seesArray -> anArray [] seesObject -> anObject [] OTHER -> No(b, it)
  BY Zenon DEF value_from
<1>2. \A w : w \in words <=> w \in DOMAIN Word /\ SeesWord(b, Word[w])
  OBVIOUS
<1>3. /\ \A w \in DOMAIN Word : Stands(b.text, b.offset, Word[w]) => words = {w}
      /\ \A c : Sees(b, c) /\ c \notin {110, 102, 116} => words = {}
  <2> HIDE DEF words
  <2> QED
    BY <1>2, WordsAt
<1>4. /\ seesWord => ~seesQuote /\ ~seesNumber /\ ~seesArray /\ ~seesObject
      /\ seesQuote => ~seesNumber /\ ~seesArray /\ ~seesObject
      /\ seesNumber => ~seesArray /\ ~seesObject
      /\ ~(seesArray /\ seesObject)
  <2>1. \A x, y : Sees(b, x) /\ Sees(b, y) => x = y
    BY DEF Sees
  <2>2. /\ Quote # Open.Array /\ Quote # Open.Object /\ Open.Array # Open.Object
        /\ \A c \in Digit \cup {Minus} : c # Quote /\ c # Open.Array /\ c # Open.Object
    BY DEF Quote, Open, Digit, Minus
  <2> HIDE DEF words
  <2> QED
    BY <2>1, <2>2, Zenon
<1>5. ASSUME NEW w \in DOMAIN Word, Stands(b.text, b.offset, Word[w])
      PROVE  v = Yes(Step(b, Len(Word[w])), [it EXCEPT !.type = w])
  <2>1. words = {w}
    BY <1>3, <1>5
  <2>2. seesWord
    BY <2>1
  <2>3. word = w
    <3> HIDE DEF words
    <3> QED
      BY <2>1
  <2>4. aWord = Yes(Step(b, Len(Word[w])), [it EXCEPT !.type = w])
    BY <2>3, Zenon
  <2> HIDE DEF seesWord, seesQuote, seesNumber, seesArray, seesObject, aWord, aString, aNumber,
               anArray, anObject
  <2>5. v = aWord
    BY <1>1, <1>4, <2>2, SMT
  <2> QED
    BY <2>4, <2>5, Zenon
<1>6. /\ Quote \notin {110, 102, 116} /\ \A c \in Digit \cup {Minus} : c \notin {110, 102, 116}
      /\ Open.Array \notin {110, 102, 116} /\ Open.Object \notin {110, 102, 116}
  BY DEF Quote, Digit, Minus, Open
<1>7. /\ Sees(b, Quote) => seesQuote
      /\ (\E c \in Digit \cup {Minus} : Sees(b, c)) => seesNumber
      /\ Sees(b, Open.Array) => seesArray
      /\ Sees(b, Open.Object) => seesObject
  <2> HIDE DEF words
  <2> QED
    BY <1>3, <1>6, Zenon
<1>8. /\ seesQuote => v = aString
      /\ seesNumber => v = aNumber
      /\ seesArray => v = anArray
      /\ seesObject => v = anObject
  <2> HIDE DEF seesWord, seesQuote, seesNumber, seesArray, seesObject, aWord, aString, aNumber,
               anArray, anObject
  <2>1. ASSUME seesQuote PROVE v = aString
    BY <1>1, <1>4, <2>1, SMT
  <2>2. ASSUME seesNumber PROVE v = aNumber
    BY <1>1, <1>4, <2>2, SMT
  <2>3. ASSUME seesArray PROVE v = anArray
    BY <1>1, <1>4, <2>3, SMT
  <2>4. ASSUME seesObject PROVE v = anObject
    BY <1>1, <1>4, <2>4, SMT
  <2> QED
    BY <2>1, <2>2, <2>3, <2>4
<1>9. ASSUME NEW type \in DOMAIN Open, Sees(b, Open[type])
      PROVE  v = parse_container(b, it, type, value)
  <2>1. type = "Array" \/ type = "Object"
    BY DEF Open
  <2>2. CASE type = "Array"
    <3>1. Sees(b, Open.Array)
      BY <1>9, <2>2
    <3>2. v = anArray
      <4> HIDE DEF seesArray, anArray
      <4> QED
        BY <1>7, <1>8, <3>1
    <3> QED
      BY <2>2, <3>2
  <2>3. CASE type = "Object"
    <3>1. Sees(b, Open.Object)
      BY <1>9, <2>3
    <3>2. v = anObject
      <4> HIDE DEF seesObject, anObject
      <4> QED
        BY <1>7, <1>8, <3>1
    <3> QED
      BY <2>3, <3>2
  <2> QED
    BY <2>1, <2>2, <2>3
<1>10. /\ Sees(b, Quote) => v = aString
       /\ (\E c \in Digit \cup {Minus} : Sees(b, c)) => v = aNumber
  <2> HIDE DEF seesQuote, seesNumber, seesArray, seesObject, aString, aNumber, anArray, anObject
  <2> QED
    BY <1>7, <1>8
<1> QED
  BY <1>5, <1>9, <1>10

\* The text of a document that is no list.
LEMMA ScalarText ==
  ASSUME NEW d, NEW format, NEW depth, NEW below, NEW s, s = Compose(d, format, depth, below)
  PROVE  /\ d.type \in DOMAIN Word => s = Word[d.type]
         /\ d.type = "Number" => s = d.val
         /\ d.type = "String" => s = Literal(d.val)
<1>1. DOMAIN Word = {"NULL", "False", "True"}
  BY DEF Word
<1>2. ASSUME d.type \in DOMAIN Word
      PROVE  s = Word[d.type]
  BY <1>1, <1>2 DEF Compose
<1>3. ASSUME d.type = "Number"
      PROVE  s = d.val
  BY <1>1, <1>3 DEF Compose
<1>4. ASSUME d.type = "String"
      PROVE  s = Literal(d.val)
  BY <1>1, <1>4 DEF Compose
<1> QED
  BY <1>2, <1>3, <1>4

\* Before anything is read, nothing is taken.
LEMMA ReachedHere ==
  ASSUME NEW b, Sound(b)
  PROVE  Reached(b, b.offset, 0, b)
BY SoundIs DEF Reached

\* The first byte of a text that stands at the offset is the one that is seen.
LEMMA FirstSeen ==
  ASSUME NEW b, Sound(b), NEW s \in Seq(Character), Len(s) >= 1, Stands(b.text, b.offset, s)
  PROVE  Sees(b, s[1])
<1>1. 1 \in 1..Len(s) /\ Len(s) \in Nat /\ b.offset \in Nat /\ Len(b.text) \in Nat
  BY SoundIs
<1>2. b.offset + Len(s) <= Len(b.text) /\ b.text[b.offset + 1] = s[1]
  BY <1>1 DEF Stands
<1> QED
  BY <1>1, <1>2 DEF Sees, CanAccess, ByteAt

\* A step over the text of an item without blocks of its own.
LEMMA SteppedOver ==
  ASSUME NEW b, Sound(b), NEW s \in Seq(Character), NEW new, NEW deep
  PROVE  Taken(b, s, new, 0, deep, Yes(Step(b, Len(s)), new))
<1>1. b.offset \in Nat /\ Len(s) \in Nat
  BY SoundIs
<1>2. Reached(b, b.offset + Len(s), 0, Step(b, Len(s)))
  BY <1>1, ReachedHere, StepReaches
<1> QED
  BY <1>2 DEF Taken, Yes

\* Words, numbers and strings come back.
LEMMA ScalarRead ==
  ASSUME NEW b, Sound(b), NEW it \in NewItems, NEW d \in Documents,
         d.type \in {"Number", "String"} \cup DOMAIN Word,
         NEW format \in BOOLEAN, NEW depth \in Nat, NEW member \in BOOLEAN,
         NEW s, s = TextOf[d][format][depth], AtText(b, s),
         NEW a, a = Reread[d][member], it.string = a.string, NEW value, NEW deep
  PROVE  Taken(b, s, a, BlocksOf[a] - BlocksOf[it], deep, value_from(b, it, value))
<1> DEFINE v == value_from(b, it, value)
<1>1. s \in Seq(Character)
  BY TextIs
<1>2. s = Compose(d, format, depth, TextOf)
  BY MeaningIs
<1>3. /\ d.type \in DOMAIN Word => s = Word[d.type]
      /\ d.type = "Number" => s = d.val
      /\ d.type = "String" => s = Literal(d.val)
  BY <1>2, ScalarText
<1>4. /\ a = [type |-> a.type, string |-> a.string, val |-> a.val, kids |-> a.kids]
      /\ a.type = IF IsNaN(d) THEN "NULL" ELSE d.type
      /\ a.val = IF IsNaN(d) THEN NoText ELSE IF d.type = "String" THEN Known(d.val) ELSE d.val
      /\ a.kids = [k \in DOMAIN d.kids |-> Reread[d.kids[k]][d.type = "Object"]]
  BY AgainIs
<1>5. PICK n \in 0..Levels : d \in Nested[n]
  BY LevelsAssumption DEF Documents
<1>6. /\ d.val \in CharPointer
      /\ d.type = "Number" => d.val \in Numbers
      /\ d.type \notin {"Number", "String", "Raw"} => d.val = NoText
      /\ d.type \notin DOMAIN Open => d.kids = <<>>
  BY <1>5, ItemIs
<1>7. d.type \notin DOMAIN Open
  BY DEF Open, Word
<1>8. a.kids = <<>>
  BY <1>4, <1>6, <1>7
<1>9. /\ [it EXCEPT !.type = a.type, !.val = a.val] = a
      /\ a.val = NoText => [it EXCEPT !.type = a.type] = a
  BY <1>4, <1>8, Made
<1>10. Stands(b.text, b.offset, s)
  BY DEF AtText
<1>11. b.luck \in Nat /\ BlocksOf[it] \in Nat
  BY NewIs, SoundIs
<1>12. CASE d.type \in DOMAIN Word \/ IsNaN(d)
  <2>1. a.type \in DOMAIN Word /\ s = Word[a.type] /\ a.val = NoText
    <3>1. CASE IsNaN(d)
      BY <1>3, <1>4, <3>1 DEF IsNaN, Word
    <3>2. CASE d.type \in DOMAIN Word /\ ~IsNaN(d)
      <4>1. d.type \notin {"Number", "String", "Raw"}
        BY <3>2 DEF Word
      <4> QED
        BY <1>3, <1>4, <1>6, <3>2, <4>1
    <3> QED
      BY <1>12, <3>1, <3>2
  <2>2. v = Yes(Step(b, Len(Word[a.type])), [it EXCEPT !.type = a.type])
    BY <1>10, <2>1, ValueIs
  <2>3. [it EXCEPT !.type = a.type] = a
    BY <1>9, <2>1
  <2>4. v = Yes(Step(b, Len(s)), a)
    BY <2>1, <2>2, <2>3, Zenon
  <2>5. BlocksOf[a] = BlocksOf[it]
    BY <2>1, <2>3, WordFilled
  <2>6. Taken(b, s, a, 0, deep, v)
    <3> HIDE DEF v
    <3> QED
      BY <1>1, <2>4, SteppedOver
  <2>7. BlocksOf[a] - BlocksOf[it] = 0
    BY <1>11, <2>5
  <2> QED
    BY <2>6, <2>7
<1>13. CASE d.type = "Number" /\ ~IsNaN(d)
  <2>1. s = d.val /\ d.val \in Numbers /\ d.val # Word.NULL /\ a.type = "Number" /\ a.val = d.val
    BY <1>3, <1>4, <1>6, <1>13 DEF IsNaN
  <2>2. Len(s) >= 1 /\ s[1] \in Digit \cup {Minus}
    <3>1. Len(s) >= 1 /\ IsNumeral(s) /\ 1 \in 1..Len(s)
      BY <1>1, <2>1 DEF Numbers
    <3> QED
      BY <1>1, <3>1, NumeralBytes
  <2>3. Sees(b, s[1])
    BY <1>1, <1>10, <2>2, FirstSeen
  <2>4. v = parse_number(b, it)
    BY <2>2, <2>3, ValueIs, Zenon
  <2>5. parse_number(b, it) = Yes(Step(b, Len(s)), [it EXCEPT !.type = "Number", !.val = s])
    <3>1. s \in Numbers /\ s # Word.NULL
      BY <2>1
    <3> QED
      BY <3>1, NumberRead, Zenon
  <2>6. [it EXCEPT !.type = "Number", !.val = s] = a
    BY <1>9, <2>1
  <2>7. v = Yes(Step(b, Len(s)), a)
    BY <2>4, <2>5, <2>6, Zenon
  <2>8. BlocksOf[a] = BlocksOf[it]
    <3>1. s \in Numbers
      BY <2>1
    <3>2. BlocksOf[[it EXCEPT !.type = "Number", !.val = s]] = BlocksOf[it]
      BY <3>1, NumberFilled, Zenon
    <3> QED
      BY <2>6, <3>2, Zenon
  <2>9. Taken(b, s, a, 0, deep, v)
    <3> HIDE DEF v
    <3> QED
      BY <1>1, <2>7, SteppedOver
  <2>10. BlocksOf[a] - BlocksOf[it] = 0
    BY <1>11, <2>8
  <2> QED
    BY <2>9, <2>10
<1>14. CASE d.type = "String"
  <2>1. s = Literal(d.val) /\ a.type = "String" /\ a.val = Known(d.val)
    BY <1>3, <1>4, <1>14 DEF IsNaN
  <2>2. Sees(b, Quote)
    BY <1>6, <1>10, <2>1, LiteralWhere DEF AtLiteral
  <2>3. v = parse_string(b, it)
    BY <2>2, ValueIs, Zenon
  <2>4. AtLiteral(b, d.val)
    BY <1>10, <2>1 DEF AtLiteral
  <2>5. PICK r : r = v
    OBVIOUS
  <2> HIDE DEF v
  <2>6. /\ r.ok => /\ r.item = Filled(it, "String", Known(d.val))
                   /\ Reached(b, b.offset + Len(Literal(d.val)), 1, r.b)
        /\ ~r.ok => b.luck < 1
    <3>1. r = parse_string(b, it)
      BY <2>3, <2>5 DEF v
    <3>2. PICK input \in CharPointer : input = d.val
      BY <1>6
    <3>3. AtLiteral(b, input)
      BY <2>4, <3>2, Zenon
    <3>4. r.ok => /\ r.item = Filled(it, "String", Known(input))
                  /\ Reached(b, b.offset + Len(Literal(input)), 1, r.b)
      BY <3>1, <3>3, LiteralRead, Zenon
    <3>5. ~r.ok => b.luck < 1
      BY <3>1, <3>3, LiteralRead, Zenon
    <3> QED
      BY <3>2, <3>4, <3>5, Zenon
  <2>7. [it EXCEPT !.type = "String", !.val = Known(d.val)] = a
    BY <1>9, <2>1
  <2>8. BlocksOf[a] = BlocksOf[it] + 1
    <3>1. Known(d.val) \in Seq(Character)
      BY <1>6, KnownIs
    <3>2. BlocksOf[[it EXCEPT !.type = "String", !.val = Known(d.val)]] = BlocksOf[it] + 1
      BY <3>1, StringFilled, Zenon
    <3> QED
      BY <2>7, <3>2, Zenon
  <2>9. BlocksOf[a] - BlocksOf[it] = 1
    BY <1>11, <2>8
  <2>10. Taken(b, s, a, 1, deep, r)
    BY <2>1, <2>6, <2>7 DEF Taken, Filled
  <2> QED
    BY <2>5, <2>9, <2>10 DEF v
<1> QED
  BY <1>12, <1>13, <1>14

(***************************************************************************)
(* How the text of a list is laid out                                      *)
(***************************************************************************)

\* What is added behind a text does not change how it starts.
LEMMA JoinStarts ==
  ASSUME NEW a \in Seq(Character), NEW b \in Seq(Character), NEW s, s = a \o b
  PROVE  /\ s \in Seq(Character) /\ Len(s) = Len(a) + Len(b)
         /\ Len(a) >= 1 => Len(s) >= 1 /\ s[1] = a[1]
<1>1. /\ s \in Seq(Character) /\ Len(s) = Len(a) + Len(b) /\ Len(a) \in Nat /\ Len(b) \in Nat
      /\ \A n \in 1..(Len(a) + Len(b)) : s[n] = IF n <= Len(a) THEN a[n] ELSE b[n - Len(a)]
  BY JoinIs
<1>2. ASSUME Len(a) >= 1
      PROVE  Len(s) >= 1 /\ s[1] = a[1]
  <2>1. 1 \in 1..(Len(a) + Len(b)) /\ 1 <= Len(a)
    BY <1>1, <1>2
  <2>2. s[1] = a[1]
    BY <1>1, <2>1
  <2> QED
    BY <1>1, <1>2, <2>2
<1> QED
  BY <1>1, <1>2

\* The texts of the items of an array or an object, and the whole list.
LEMMA ListText ==
  ASSUME NEW d \in Documents, d.type \in DOMAIN Open, NEW format \in BOOLEAN, NEW depth \in Nat,
         NEW s, s = TextOf[d][format][depth], NEW N, N = Len(d.kids)
  PROVE  /\ N \in Nat /\ DOMAIN d.kids = 1..N
         /\ \A k \in 1..N : d.kids[k] \in Documents /\ TextOf[d.kids[k]][format][depth + 1] \in Seq(Character)
         /\ d.type = "Array" =>
              s = <<Open.Array>> \o FlattenSeq(ElementTexts(d, format, depth + 1, TextOf)) \o <<Close.Array>>
         /\ d.type = "Object" =>
              s = <<Open.Object>> \o If(format, <<NewLine>>) \o FlattenSeq(MemberTexts(d, format, depth, TextOf))
                    \o If(format, Tabs(depth)) \o <<Close.Object>>
<1>1. Levels \in 0..Levels
  BY LevelsAssumption
<1>2. Levels # 0 /\ d.kids \in Seq(Nested[Levels - 1])
  <2>1. d \in Nested[Levels]
    BY DEF Documents
  <2> QED
    BY <1>1, <2>1, ItemIs
<1>3. Levels - 1 \in 0..Levels
  BY <1>2, LevelsAssumption
<1>4. Nested[Levels - 1] \subseteq Documents
  BY <1>3, BlocksAre
<1>5. N \in Nat /\ DOMAIN d.kids = 1..N
  BY <1>2
<1>6. ASSUME NEW k \in 1..N
      PROVE  d.kids[k] \in Documents /\ TextOf[d.kids[k]][format][depth + 1] \in Seq(Character)
  <2>1. d.kids[k] \in Documents
    BY <1>2, <1>4
  <2>2. depth + 1 \in Nat
    OBVIOUS
  <2> QED
    BY <2>1, <2>2, TextIs
<1>7. s = Compose(d, format, depth, TextOf)
  BY MeaningIs
<1>8. DOMAIN Word = {"NULL", "False", "True"}
  BY DEF Word
<1>9. ASSUME d.type = "Array"
      PROVE  s = <<Open.Array>> \o FlattenSeq(ElementTexts(d, format, depth + 1, TextOf)) \o <<Close.Array>>
  BY <1>7, <1>8, <1>9 DEF Compose, ElementTexts
<1>10. ASSUME d.type = "Object"
       PROVE  s = <<Open.Object>> \o If(format, <<NewLine>>) \o FlattenSeq(MemberTexts(d, format, depth, TextOf))
                    \o If(format, Tabs(depth)) \o <<Close.Object>>
  BY <1>7, <1>8, <1>10 DEF Compose, MemberTexts
<1> QED
  BY <1>5, <1>6, <1>9, <1>10

\* The pieces between the brackets of a list, and what each of them is.
Pieces(d, format, depth) == IF d.type = "Array" THEN ElementTexts(d, format, depth + 1, TextOf)
                            ELSE MemberTexts(d, format, depth, TextOf)

PieceOfList(d, k, format, depth, piece) ==
  /\ d.type = "Array" => piece = Place(d, k, format, TextOf[d.kids[k]][format][depth + 1])
  /\ d.type = "Object" => piece = Line(d, k, format, depth, TextOf[d.kids[k]][format][depth + 1])

\* The texts of the entries of a list, formatted or not.
LEMMA PiecesAre ==
  ASSUME NEW d \in Documents, d.type \in DOMAIN Open, NEW format \in BOOLEAN, NEW depth \in Nat,
         NEW seqs, seqs = Pieces(d, format, depth), NEW N, N = Len(d.kids)
  PROVE  /\ seqs \in Seq(Seq(Character)) /\ Len(seqs) = N
         /\ \A k \in 1..N : PieceOfList(d, k, format, depth, seqs[k])
<1>1. /\ N \in Nat /\ DOMAIN d.kids = 1..N
      /\ \A k \in 1..N : d.kids[k] \in Documents /\ TextOf[d.kids[k]][format][depth + 1] \in Seq(Character)
  BY ListText
<1>2. d.type = "Array" \/ d.type = "Object"
  BY DEF Open
<1>3. /\ DOMAIN seqs = 1..N /\ seqs = [k \in 1..N |-> seqs[k]]
      /\ \A k \in 1..N :
              /\ d.type = "Array" => seqs[k] = Place(d, k, format, TextOf[d.kids[k]][format][depth + 1])
              /\ d.type = "Object" => seqs[k] = Line(d, k, format, depth, TextOf[d.kids[k]][format][depth + 1])
  <2>1. CASE d.type = "Array"
    BY <1>1, <2>1 DEF ElementTexts, Pieces
  <2>2. CASE d.type = "Object"
    BY <1>1, <2>2 DEF MemberTexts, Pieces
  <2> QED
    BY <1>2, <2>1, <2>2
<1>4. ASSUME NEW k \in 1..N
      PROVE  seqs[k] \in Seq(Character)
  <2>1. PICK inner \in Seq(Character) : inner = TextOf[d.kids[k]][format][depth + 1]
    BY <1>1
  <2>2. /\ If(format, <<Space>>) \in Seq(Character) /\ If(format, <<Tab>>) \in Seq(Character)
        /\ If(format, <<NewLine>>) \in Seq(Character) /\ <<Colon>> \in Seq(Character)
        /\ If(k < N, <<Comma>>) \in Seq(Character) /\ <<Comma>> \in Seq(Character)
        /\ If(format, Tabs(depth + 1)) \in Seq(Character)
    <3>1. depth + 1 \in Nat
      OBVIOUS
    <3>2. Tabs(depth + 1) \in Seq(Character)
      BY <3>1, TabsCharacters
    <3> QED
      BY <3>2, Signs, IfCharacters
  <2>3. CASE d.type = "Array"
    <3>1. PICK comma \in Seq(Character) : comma = <<Comma>> \o If(format, <<Space>>)
      BY <2>2, JoinStarts, Zenon
    <3>2. PICK sign \in Seq(Character) : sign = If(k < N, comma)
      BY IfCharacters
    <3>3. seqs[k] = inner \o sign
      <4>1. seqs[k] = Place(d, k, format, inner)
        BY <1>3, <2>1, <2>3
      <4> QED
        BY <3>1, <3>2, <4>1, Zenon DEF Place
    <3> QED
      BY <3>3, JoinStarts, Zenon
  <2>4. CASE d.type = "Object"
    <3>1. PICK name \in Seq(Character) : name = Literal(d.kids[k].string)
      <4>1. d.kids[k] \in Nested[Levels] /\ Levels \in 0..Levels
        BY <1>1, LevelsAssumption DEF Documents
      <4>2. d.kids[k].string \in CharPointer
        BY <4>1, ItemIs
      <4> QED
        BY <4>2, LiteralSpelled
    <3>2. PICK t1 \in Seq(Character) : t1 = If(format, Tabs(depth + 1))
      BY <2>2
    <3>3. PICK t2 \in Seq(Character) : t2 = <<Colon>>
      BY <2>2
    <3>4. PICK t3 \in Seq(Character) : t3 = If(format, <<Tab>>)
      BY <2>2
    <3>5. PICK t4 \in Seq(Character) : t4 = If(k < N, <<Comma>>)
      BY <2>2
    <3>6. PICK t5 \in Seq(Character) : t5 = If(format, <<NewLine>>)
      BY <2>2
    <3>7. seqs[k] = t1 \o name \o t2 \o t3 \o inner \o t4 \o t5
      <4>1. seqs[k] = Line(d, k, format, depth, inner)
        BY <1>3, <2>1, <2>4
      <4> QED
        BY <3>1, <3>2, <3>3, <3>4, <3>5, <3>6, <4>1, Zenon DEF Line
    <3>8. PICK u1 \in Seq(Character) : u1 = t1 \o name
      BY JoinStarts, Zenon
    <3>9. PICK u2 \in Seq(Character) : u2 = u1 \o t2
      BY JoinStarts, Zenon
    <3>10. PICK u3 \in Seq(Character) : u3 = u2 \o t3
      BY JoinStarts, Zenon
    <3>11. PICK u4 \in Seq(Character) : u4 = u3 \o inner
      BY JoinStarts, Zenon
    <3>12. PICK u5 \in Seq(Character) : u5 = u4 \o t4
      BY JoinStarts, Zenon
    <3>13. PICK u6 \in Seq(Character) : u6 = u5 \o t5
      BY JoinStarts, Zenon
    <3>14. seqs[k] = u6
      BY <3>7, <3>8, <3>9, <3>10, <3>11, <3>12, <3>13, Zenon
    <3> QED
      BY <3>14
  <2> QED
    BY <1>2, <2>3, <2>4
<1>5. seqs \in Seq(Seq(Character)) /\ Len(seqs) = N
  <2> DEFINE S == Seq(Character)
  <2>1. \A k \in 1..N : seqs[k] \in S
    BY <1>4
  <2> HIDE DEF S
  <2>3. N \in Nat
    BY <1>1
  <2>4. seqs \in [1..N -> S]
    <3>1. DOMAIN seqs = 1..N /\ seqs = [k \in 1..N |-> seqs[k]]
      BY <1>3, Zenon
    <3> QED
      BY <2>1, <3>1, Zenon
  <2>2. seqs \in Seq(S) /\ Len(seqs) = N
    BY <2>3, <2>4
  <2> QED
    BY <2>2 DEF S
<1>6. \A k \in 1..N : PieceOfList(d, k, format, depth, seqs[k])
  BY <1>3, Zenon DEF PieceOfList
<1> QED
  BY <1>5, <1>6

\* A readable text starts with a byte that is not white and closes nothing.
LEMMA TextStartsWith ==
  ASSUME NEW d \in Documents, d.type \notin {"Raw", "Invalid"}, NEW format \in BOOLEAN, NEW depth \in Nat,
         NEW s, s = TextOf[d][format][depth]
  PROVE  /\ s \in Seq(Character) /\ Len(s) >= 1 /\ s[1] > 32 /\ s[1] \in Nat /\ s[1] < 239
         /\ s[1] \notin {Close.Array, Close.Object}
         /\ \A type \in DOMAIN Open : d.type = type => s[1] = Open[type]
<1>1. s \in Seq(Character)
  BY TextIs
<1>2. d.type \in {"Number", "String"} \cup DOMAIN Word \cup DOMAIN Open /\ (d.type = "Number" => d.val \in Numbers)
  <2>1. d \in Nested[Levels] /\ Levels \in 0..Levels
    BY LevelsAssumption DEF Documents
  <2> QED
    BY <2>1, ItemIs
<1>3. s = Compose(d, format, depth, TextOf)
  BY MeaningIs
<1>4. /\ d.type \in DOMAIN Word => s = Word[d.type]
      /\ d.type = "Number" => s = d.val
      /\ d.type = "String" => s = Literal(d.val)
  BY <1>3, ScalarText
<1> DEFINE Fair(c) == c > 32 /\ c \in Nat /\ c < 239 /\ c \notin {Close.Array, Close.Object}
<1>5. \A c \in {110, 102, 116, Quote, Minus, Open.Array, Open.Object} \cup Digit : Fair(c)
  BY DEF Quote, Minus, Open, Close, Digit
<1>6. ASSUME NEW word \in DOMAIN Word, s = Word[word]
      PROVE  Len(s) >= 1 /\ s[1] \in {110, 102, 116}
  BY <1>6, WordStarts DEF Initial
<1>7. ASSUME d.type \notin DOMAIN Open
      PROVE  Len(s) >= 1 /\ Fair(s[1])
  <2> HIDE DEF Fair
  <2>1. CASE d.type \in DOMAIN Word
    BY <1>4, <1>5, <1>6, <2>1
  <2>2. CASE d.type = "Number" /\ d.val = Word.NULL
    <3>1. "NULL" \in DOMAIN Word /\ s = Word["NULL"]
      BY <1>4, <2>2 DEF Word
    <3> QED
      BY <1>5, <1>6, <3>1
  <2>3. CASE d.type = "Number" /\ d.val # Word.NULL
    <3>1. Len(s) >= 1 /\ IsNumeral(s) /\ 1 \in 1..Len(s)
      BY <1>1, <1>2, <1>4, <2>3 DEF Numbers
    <3>2. s[1] \in Digit \cup {Minus}
      BY <1>1, <3>1, NumeralBytes
    <3> QED
      BY <1>5, <3>1, <3>2
  <2>4. CASE d.type = "String"
    <3>1. d \in Nested[Levels] /\ Levels \in 0..Levels
      BY LevelsAssumption DEF Documents
    <3>2. d.val \in CharPointer
      BY <3>1, ItemIs
    <3>3. PICK inner \in Seq(Character) : s = <<Quote>> \o inner \o <<Quote>>
      <4>1. PICK string : string = IF d.val = NoText THEN <<>> ELSE d.val
        OBVIOUS
      <4>2. Spelled(string) \in Seq(Character)
        BY <3>2, <4>1, LiteralSpelled
      <4>3. Literal(d.val) = <<Quote>> \o Spelled(string) \o <<Quote>>
        BY <3>2, <4>1, LiteralSpelled
      <4> QED
        BY <1>4, <2>4, <4>2, <4>3, Zenon
    <3>4. PICK sign \in Seq(Character) : sign = <<Quote>>
      BY Signs
    <3>5. Len(sign) >= 1 /\ sign[1] = Quote
      BY <3>4
    <3>6. PICK front \in Seq(Character) : front = sign \o inner
      BY JoinStarts, Zenon
    <3>7. s = front \o sign
      BY <3>3, <3>4, <3>6, Zenon
    <3>8. Len(front) >= 1 /\ front[1] = sign[1]
      BY <3>5, <3>6, JoinStarts, Zenon
    <3>9. Len(s) >= 1 /\ s[1] = front[1]
      BY <3>7, <3>8, JoinStarts, Zenon
    <3> QED
      BY <1>5, <3>5, <3>8, <3>9
  <2> QED
    BY <1>2, <1>7, <2>1, <2>2, <2>3, <2>4
<1>8. ASSUME NEW type \in DOMAIN Open, d.type = type
      PROVE  Len(s) >= 1 /\ s[1] = Open[type] /\ Fair(s[1])
  <2> HIDE DEF Fair
  <2>1. PICK N : N = Len(d.kids)
    OBVIOUS
  <2>2. PICK seqs : seqs = Pieces(d, format, depth)
    OBVIOUS
  <2>3. seqs \in Seq(Seq(Character))
    BY <1>8, <2>1, <2>2, PiecesAre
  <2>4. PICK inner \in Seq(Character) : inner = FlattenSeq(seqs)
    <3>1. PICK f \in [0..Len(seqs) -> Seq(Character)] : FlattenSeq(seqs) = f[Len(seqs)]
      BY <2>3, FlattenedIs
    <3>2. Len(seqs) \in 0..Len(seqs)
      BY <2>3
    <3> QED
      BY <3>1, <3>2
  <2>5. CASE type = "Array"
    <3>1. s = <<Open.Array>> \o inner \o <<Close.Array>>
      <4>1. s = <<Open.Array>> \o FlattenSeq(ElementTexts(d, format, depth + 1, TextOf)) \o <<Close.Array>>
        BY <1>8, <2>5, ListText
      <4> QED
        BY <1>8, <2>2, <2>4, <2>5, <4>1, Zenon DEF Pieces
    <3>2. PICK sign \in Seq(Character) : sign = <<Open.Array>>
      BY Signs
    <3>3. PICK close \in Seq(Character) : close = <<Close.Array>>
      BY Signs
    <3>4. PICK front \in Seq(Character) : front = sign \o inner
      BY JoinStarts, Zenon
    <3>7. s = front \o close
      BY <3>1, <3>2, <3>3, <3>4, Zenon
    <3>8. Len(sign) >= 1 /\ sign[1] = Open.Array
      BY <3>2
    <3>9. Len(front) >= 1 /\ front[1] = sign[1]
      BY <3>4, <3>8, JoinStarts, Zenon
    <3>5. Len(s) >= 1 /\ s[1] = Open.Array
      <4>1. Len(s) >= 1 /\ s[1] = front[1]
        BY <3>7, <3>9, JoinStarts, Zenon
      <4> QED
        BY <3>8, <3>9, <4>1
    <3>6. Open.Array = Open["Array"]
      BY DEF Open
    <3> QED
      BY <1>5, <2>5, <3>5, <3>6
  <2>6. CASE type = "Object"
    <3>1. PICK line \in Seq(Character) : line = If(format, <<NewLine>>)
      BY Signs, IfCharacters
    <3>2. PICK tabs \in Seq(Character) : tabs = If(format, Tabs(depth))
      BY TabsCharacters, IfCharacters
    <3>3. s = <<Open.Object>> \o line \o inner \o tabs \o <<Close.Object>>
      <4>1. s = <<Open.Object>> \o If(format, <<NewLine>>) \o FlattenSeq(MemberTexts(d, format, depth, TextOf))
                    \o If(format, Tabs(depth)) \o <<Close.Object>>
        BY <1>8, <2>6, ListText
      <4>2. d.type # "Array"
        BY <1>8, <2>6
      <4> QED
        BY <2>2, <2>4, <3>1, <3>2, <4>1, <4>2, Zenon DEF Pieces
    <3>4. PICK sign \in Seq(Character) : sign = <<Open.Object>>
      BY Signs
    <3>5. PICK close \in Seq(Character) : close = <<Close.Object>>
      BY Signs
    <3>6. PICK one \in Seq(Character) : one = sign \o line
      BY JoinStarts, Zenon
    <3>9. PICK two \in Seq(Character) : two = one \o inner
      BY JoinStarts, Zenon
    <3>10. PICK three \in Seq(Character) : three = two \o tabs
      BY JoinStarts, Zenon
    <3>11. s = three \o close
      BY <3>3, <3>4, <3>5, <3>6, <3>9, <3>10, Zenon
    <3>12. Len(sign) >= 1 /\ sign[1] = Open.Object
      BY <3>4
    <3>13. Len(one) >= 1 /\ one[1] = sign[1]
      BY <3>6, <3>12, JoinStarts, Zenon
    <3>14. Len(two) >= 1 /\ two[1] = one[1]
      BY <3>9, <3>13, JoinStarts, Zenon
    <3>15. Len(three) >= 1 /\ three[1] = two[1]
      BY <3>10, <3>14, JoinStarts, Zenon
    <3>7. Len(s) >= 1 /\ s[1] = Open.Object
      <4>1. Len(s) >= 1 /\ s[1] = three[1]
        BY <3>11, <3>15, JoinStarts, Zenon
      <4> QED
        BY <3>12, <3>13, <3>14, <3>15, <4>1
    <3>8. Open.Object = Open["Object"]
      BY DEF Open
    <3> QED
      BY <1>5, <2>6, <3>7, <3>8
  <2> QED
    BY <2>5, <2>6 DEF Open
<1>9. Len(s) >= 1 /\ Fair(s[1])
  <2> HIDE DEF Fair
  <2> QED
    BY <1>7, <1>8
<1> QED
  BY <1>1, <1>8, <1>9

\* From here to there a name, and a colon, stand before a value.
NameAt(t, kid, at, start) ==
  /\ Stands(t, at, Literal(kid.string))
  /\ at + Len(Literal(kid.string)) + 1 <= start /\ t[at + Len(Literal(kid.string)) + 1] = Colon
  /\ White(t, at + Len(Literal(kid.string)) + 1, start)

\* An element or a member starts at one offset and ends at the other.
EntryAt(t, kid, named, s, at, end) ==
  \E start \in Nat : /\ Stands(t, start, s) /\ end = start + Len(s)
                     /\ IF named THEN NameAt(t, kid, at, start) ELSE start = at

\* A piece of a list: an item with white space around it, and a comma if more follow.
Piece(t, kid, named, s, more, at, to) ==
  \E entry \in Nat, end \in Nat :
    /\ at <= entry /\ White(t, at, entry) /\ entry < end /\ end <= to
    /\ EntryAt(t, kid, named, s, entry, end)
    /\ more => t[end + 1] = Comma /\ end + 1 <= to /\ White(t, end + 1, to)
    /\ ~more => White(t, end, to) /\ (end = to \/ t[end + 1] = NewLine)

\* Between a place and itself there is white space only.
LEMMA NothingWhite ==
  ASSUME NEW t, NEW at \in Nat
  PROVE  White(t, at, at)
BY DEF White

\* White space behind a text, there or not.
LEMMA WhiteBehind ==
  ASSUME NEW t, Len(t) \in Nat, NEW at \in Nat, NEW s \in Seq(Character), Stands(t, at, s),
         s = <<>> \/ \A n \in 1..Len(s) : s[n] <= 32
  PROVE  White(t, at, at + Len(s))
<1>1. White(t, at, at)
  BY NothingWhite
<1>2. \A n \in 1..Len(s) : s[n] <= 32
  OBVIOUS
<1> QED
  BY <1>1, <1>2, StandsWhite

\* What formatting adds is white space.
LEMMA WhiteBytes ==
  ASSUME NEW condition, NEW n \in Nat
  PROVE  /\ \A k \in 1..Len(If(condition, <<Space>>)) : If(condition, <<Space>>)[k] <= 32
         /\ \A k \in 1..Len(If(condition, <<Tab>>)) : If(condition, <<Tab>>)[k] <= 32
         /\ \A k \in 1..Len(If(condition, <<NewLine>>)) : If(condition, <<NewLine>>)[k] <= 32
         /\ \A k \in 1..Len(If(condition, Tabs(n))) : If(condition, Tabs(n))[k] <= 32
<1>1. Len(Tabs(n)) = n /\ \A k \in 1..n : Tabs(n)[k] <= 32
  <2>1. Len(Tabs(n)) = n
    BY TabsCharacters
  <2>2. Tabs(n) = [k \in 1..n |-> Tab]
    BY DEF Tabs
  <2>3. \A k \in 1..n : Tabs(n)[k] = Tab
    BY <2>2
  <2> QED
    BY <2>1, <2>3 DEF Tab
<1>2. CASE condition
  <2>1. /\ If(condition, <<Space>>) = <<Space>> /\ If(condition, <<Tab>>) = <<Tab>>
        /\ If(condition, <<NewLine>>) = <<NewLine>> /\ If(condition, Tabs(n)) = Tabs(n)
    BY <1>2 DEF If
  <2> QED
    BY <1>1, <2>1 DEF Space, Tab, NewLine
<1>3. CASE ~condition
  <2>1. /\ If(condition, <<Space>>) = <<>> /\ If(condition, <<Tab>>) = <<>>
        /\ If(condition, <<NewLine>>) = <<>> /\ If(condition, Tabs(n)) = <<>>
    BY <1>3 DEF If
  <2> QED
    BY <2>1
<1> QED
  BY <1>2, <1>3

\* The element of an array.
LEMMA ElementLaid ==
  ASSUME NEW t, Len(t) \in Nat, NEW at \in Nat, NEW kid, NEW s \in Seq(Character), Len(s) >= 1,
         NEW more \in BOOLEAN, NEW format \in BOOLEAN, NEW piece,
         piece = s \o If(more, <<Comma>> \o If(format, <<Space>>)), Stands(t, at, piece),
         NEW named, ~named
  PROVE  Piece(t, kid, named, s, more, at, at + Len(piece))
<1>1. PICK space \in Seq(Character) : space = If(format, <<Space>>)
  BY Signs, IfCharacters
<1>2. PICK sign \in Seq(Character) : sign = <<Comma>>
  BY Signs
<1>3. PICK comma \in Seq(Character) : comma = sign \o space
  BY JoinStarts, Zenon
<1>4. PICK ending \in Seq(Character) : ending = If(more, comma)
  BY IfCharacters
<1>5. piece = s \o ending
  BY <1>1, <1>2, <1>3, <1>4, Zenon
<1>6. Stands(t, at, s)
  BY <1>5, StandsApart, Zenon
<1>7. PICK end \in Nat : end = at + Len(s)
  OBVIOUS
<1>8. Stands(t, end, ending)
  <2>1. Stands(t, at + Len(s), ending)
    BY <1>5, StandsApart, Zenon
  <2> QED
    BY <1>7, <2>1, Zenon
<1>9. PICK to \in Nat : to = at + Len(piece) /\ to = end + Len(ending)
  <2>1. Len(piece) = Len(s) + Len(ending)
    BY <1>5, JoinStarts, Zenon
  <2>2. PICK k \in Nat : k = Len(s)
    OBVIOUS
  <2>3. PICK m \in Nat : m = Len(ending)
    OBVIOUS
  <2>4. PICK l : l = Len(piece)
    OBVIOUS
  <2>5. l = k + m /\ end = at + k
    BY <1>7, <2>1, <2>2, <2>3, <2>4, Zenon
  <2>6. at + l = end + m /\ at + l \in Nat
    BY <2>5
  <2> QED
    BY <2>3, <2>4, <2>6, Zenon
<1>10. EntryAt(t, kid, named, s, at, end)
  BY <1>6, <1>7 DEF EntryAt
<1>11. White(t, at, at)
  BY NothingWhite
<1>12. at < end /\ end <= to
  BY <1>7, <1>9
<1>13. ASSUME more
       PROVE  t[end + 1] = Comma /\ end + 1 <= to /\ White(t, end + 1, to)
  <2>1. ending = comma
    BY <1>4, <1>13 DEF If
  <2>2. Stands(t, end, comma)
    BY <1>8, <2>1, Zenon
  <2>3. Stands(t, end, sign)
    BY <1>3, <2>2, StandsApart, Zenon
  <2>4. Stands(t, end + Len(sign), space)
    BY <1>3, <2>2, StandsApart, Zenon
  <2>5. Len(sign) = 1 /\ t[end + 1] = Comma
    BY <1>2, <2>3, SignStands
  <2>6. PICK next \in Nat : next = end + 1
    OBVIOUS
  <2>7. Stands(t, next, space)
    BY <2>4, <2>5, <2>6
  <2>8. \A n \in 1..Len(space) : space[n] <= 32
    BY <1>1, WhiteBytes
  <2>9. White(t, next, next + Len(space))
    BY <2>7, <2>8, WhiteBehind
  <2>10. to = next + Len(space) /\ next <= to
    <3>1. Len(comma) = Len(sign) + Len(space)
      BY <1>3, JoinStarts, Zenon
    <3>2. PICK k \in Nat : k = Len(space)
      OBVIOUS
    <3>3. to = end + (1 + k)
      BY <1>9, <2>1, <2>5, <3>1, <3>2, Zenon
    <3>4. to = next + k /\ next <= to
      BY <2>6, <3>3
    <3> QED
      BY <3>2, <3>4
  <2> QED
    BY <2>5, <2>6, <2>9, <2>10
<1>14. ASSUME ~more
       PROVE  White(t, end, to) /\ end = to
  <2>1. ending = <<>>
    BY <1>4, <1>14 DEF If
  <2>2. to = end
    <3>1. Len(ending) = 0
      BY <2>1
    <3>2. to = end + 0
      BY <1>9, <3>1, Zenon
    <3> QED
      BY <3>2
  <2> QED
    BY <2>2, NothingWhite
<1>15. Piece(t, kid, named, s, more, at, to)
  BY <1>10, <1>11, <1>12, <1>13, <1>14 DEF Piece
<1> QED
  BY <1>9, <1>15

\* The text b stands behind the text a, from mid to end.
Behind(t, at, a, mid, b, end) ==
  /\ mid \in Nat /\ at <= mid /\ mid <= end /\ mid = at + Len(a) /\ end = mid + Len(b)
  /\ Stands(t, at, a) /\ Stands(t, mid, b)

\* The places behind two texts that stand together.
LEMMA LengthsAdd ==
  ASSUME NEW at \in Nat, NEW k \in Nat, NEW m \in Nat, NEW mid, mid = at + k, NEW l, l = k + m
  PROVE  mid \in Nat /\ at <= mid /\ mid <= at + l /\ at + l = mid + m
OBVIOUS

\* Two texts that stand together stand one behind the other.
LEMMA StandsOn ==
  ASSUME NEW t, Len(t) \in Nat, NEW at \in Nat, NEW a \in Seq(Character), NEW b \in Seq(Character),
         NEW s, s = a \o b, Stands(t, at, s), NEW mid, mid = at + Len(a), NEW end, end = at + Len(s)
  PROVE  Behind(t, at, a, mid, b, end)
<1>1. Stands(t, at, a)
  BY StandsApart, Zenon
<1>2. Stands(t, mid, b)
  BY StandsApart, Zenon
<1>3. Len(s) = Len(a) + Len(b)
  BY JoinStarts, Zenon
<1>4. PICK k \in Nat : k = Len(a)
  OBVIOUS
<1>5. PICK m \in Nat : m = Len(b)
  OBVIOUS
<1>6. PICK l : l = Len(s)
  OBVIOUS
<1>7. l = k + m /\ mid = at + k
  BY <1>3, <1>4, <1>5, <1>6, Zenon
<1>8. mid \in Nat /\ at <= mid /\ mid <= at + l /\ at + l = mid + m
  <2>1. l = k + m
    BY <1>7
  <2>2. mid = at + k
    BY <1>7
  <2>3. mid \in Nat
    BY <2>2
  <2>4. at <= mid
    BY <2>1, <2>2, LengthsAdd, Zenon
  <2>5. mid <= at + l
    BY <2>1, <2>2, LengthsAdd, Zenon
  <2>6. at + l = mid + m
    <3>1. at + (k + m) = (at + k) + m
      OBVIOUS
    <3> QED
      BY <2>1, <2>2, <3>1, Zenon
  <2> QED
    BY <2>3, <2>4, <2>5, <2>6
<1> QED
  BY <1>1, <1>2, <1>5, <1>6, <1>8, Zenon DEF Behind

\* A longer stretch of white space.
LEMMA WhiteOn ==
  ASSUME NEW t, Len(t) \in Nat, NEW from \in Nat, NEW at \in Nat, NEW to \in Nat,
         White(t, from, at), White(t, at, to)
  PROVE  White(t, from, to)
<1> SUFFICES ASSUME NEW n \in 1..Len(t), from < n, n <= to
             PROVE  t[n] <= 32
  BY DEF White
<1>1. n <= at \/ at < n
  OBVIOUS
<1> QED
  BY <1>1 DEF White

\* The member of an object.
LEMMA MemberLaid ==
  ASSUME NEW t, Len(t) \in Nat, NEW at \in Nat, NEW kid, kid.string \in CharPointer,
         NEW s \in Seq(Character), Len(s) >= 1, NEW more \in BOOLEAN, NEW format \in BOOLEAN,
         NEW depth \in Nat, NEW piece,
         piece = If(format, Tabs(depth)) \o Literal(kid.string) \o <<Colon>> \o If(format, <<Tab>>)
                   \o s \o If(more, <<Comma>>) \o If(format, <<NewLine>>),
         Stands(t, at, piece), NEW named, named
  PROVE  Piece(t, kid, named, s, more, at, at + Len(piece))
<1>1. PICK t1 \in Seq(Character) : t1 = If(format, Tabs(depth))
  BY TabsCharacters, IfCharacters
<1>2. PICK name \in Seq(Character) : name = Literal(kid.string)
  BY LiteralSpelled
<1>3. PICK t2 \in Seq(Character) : t2 = <<Colon>>
  BY Signs
<1>4. PICK t3 \in Seq(Character) : t3 = If(format, <<Tab>>)
  BY Signs, IfCharacters
<1>5. PICK t4 \in Seq(Character) : t4 = If(more, <<Comma>>)
  BY Signs, IfCharacters
<1>6. PICK t5 \in Seq(Character) : t5 = If(format, <<NewLine>>)
  BY Signs, IfCharacters
<1>7. piece = t1 \o name \o t2 \o t3 \o s \o t4 \o t5
  BY <1>1, <1>2, <1>3, <1>4, <1>5, <1>6, Zenon
<1>8. PICK u1 \in Seq(Character) : u1 = t1 \o name
  BY JoinStarts, Zenon
<1>9. PICK u2 \in Seq(Character) : u2 = u1 \o t2
  BY JoinStarts, Zenon
<1>10. PICK u3 \in Seq(Character) : u3 = u2 \o t3
  BY JoinStarts, Zenon
<1>11. PICK u4 \in Seq(Character) : u4 = u3 \o s
  BY JoinStarts, Zenon
<1>12. PICK u5 \in Seq(Character) : u5 = u4 \o t4
  BY JoinStarts, Zenon
<1>13. piece = u5 \o t5
  BY <1>7, <1>8, <1>9, <1>10, <1>11, <1>12, Zenon
<1>14. PICK m1 : m1 = at + Len(t1)
  OBVIOUS
<1>15. PICK m2 : m2 = at + Len(u1)
  OBVIOUS
<1>16. PICK m3 : m3 = at + Len(u2)
  OBVIOUS
<1>17. PICK m4 : m4 = at + Len(u3)
  OBVIOUS
<1>18. PICK m5 : m5 = at + Len(u4)
  OBVIOUS
<1>19. PICK m6 : m6 = at + Len(u5)
  OBVIOUS
<1>20. PICK to : to = at + Len(piece)
  OBVIOUS
<1>21. Behind(t, at, u5, m6, t5, to)
  BY <1>13, <1>19, <1>20, StandsOn, Zenon
<1>22. Behind(t, at, u4, m5, t4, m6)
  <2>1. Stands(t, at, u5)
    BY <1>21 DEF Behind
  <2> QED
    BY <1>12, <1>18, <1>19, <2>1, StandsOn, Zenon
<1>23. Behind(t, at, u3, m4, s, m5)
  <2>1. Stands(t, at, u4)
    BY <1>22 DEF Behind
  <2> QED
    BY <1>11, <1>17, <1>18, <2>1, StandsOn, Zenon
<1>24. Behind(t, at, u2, m3, t3, m4)
  <2>1. Stands(t, at, u3)
    BY <1>23 DEF Behind
  <2> QED
    BY <1>10, <1>16, <1>17, <2>1, StandsOn, Zenon
<1>25. Behind(t, at, u1, m2, t2, m3)
  <2>1. Stands(t, at, u2)
    BY <1>24 DEF Behind
  <2> QED
    BY <1>9, <1>15, <1>16, <2>1, StandsOn, Zenon
<1>39. Behind(t, at, t1, m1, name, m2)
  <2>1. Stands(t, at, u1)
    BY <1>25 DEF Behind
  <2> QED
    BY <1>8, <1>14, <1>15, <2>1, StandsOn, Zenon
<1>26. /\ m1 \in Nat /\ m2 \in Nat /\ m3 \in Nat /\ m4 \in Nat /\ m5 \in Nat /\ m6 \in Nat
       /\ at <= m1 /\ m3 <= m4 /\ m5 <= m6 /\ m6 <= to /\ m1 <= m2 /\ m2 <= m3 /\ m4 <= m5
  BY <1>21, <1>22, <1>23, <1>24, <1>25, <1>39, Zenon DEF Behind
<1>27. White(t, at, m1)
  <2>1. \A n \in 1..Len(t1) : t1[n] <= 32
    BY <1>1, WhiteBytes
  <2>2. Stands(t, at, t1) /\ m1 = at + Len(t1)
    BY <1>39, Zenon DEF Behind
  <2>3. White(t, at, at + Len(t1))
    BY <2>1, <2>2, WhiteBehind, Zenon
  <2> QED
    BY <2>2, <2>3, Zenon
<1>28. m3 = m2 + 1 /\ t[m2 + 1] = Colon
  <2>1. Stands(t, m2, <<Colon>>) /\ m3 = m2 + Len(<<Colon>>)
    BY <1>3, <1>25, Zenon DEF Behind
  <2>2. Len(<<Colon>>) = 1
    OBVIOUS
  <2> QED
    BY <2>1, <2>2, SignStands, Zenon
<1>29. White(t, m3, m4)
  <2>1. \A n \in 1..Len(t3) : t3[n] <= 32
    BY <1>4, WhiteBytes
  <2>2. Stands(t, m3, t3) /\ m4 = m3 + Len(t3)
    BY <1>24, Zenon DEF Behind
  <2>3. White(t, m3, m3 + Len(t3))
    BY <1>26, <2>1, <2>2, WhiteBehind, Zenon
  <2> QED
    BY <2>2, <2>3, Zenon
<1>30. NameAt(t, kid, m1, m4)
  <2>1. m1 + Len(Literal(kid.string)) = m2 /\ Stands(t, m1, Literal(kid.string))
    BY <1>2, <1>39, Zenon DEF Behind
  <2>2. White(t, m2 + 1, m4) /\ m2 + 1 <= m4
    BY <1>26, <1>28, <1>29
  <2> QED
    BY <1>28, <2>1, <2>2, Zenon DEF NameAt
<1>31. EntryAt(t, kid, named, s, m1, m5)
  <2>1. Stands(t, m4, s) /\ m5 = m4 + Len(s)
    BY <1>23, Zenon DEF Behind
  <2> QED
    BY <1>26, <1>30, <2>1, Zenon DEF EntryAt
<1>32. m1 < m5
  BY <1>26, <1>28
<1>34. White(t, m6, to) /\ to \in Nat
  <2>1. \A n \in 1..Len(t5) : t5[n] <= 32
    BY <1>6, WhiteBytes
  <2>2. Stands(t, m6, t5) /\ to = m6 + Len(t5)
    BY <1>21, Zenon DEF Behind
  <2>3. White(t, m6, m6 + Len(t5))
    BY <1>26, <2>1, <2>2, WhiteBehind, Zenon
  <2>4. PICK k \in Nat : k = Len(t5)
    OBVIOUS
  <2>5. to \in Nat
    BY <1>26, <2>2, <2>4
  <2> QED
    BY <2>2, <2>3, <2>5, Zenon
<1>35. ASSUME more
       PROVE  t[m5 + 1] = Comma /\ m5 + 1 <= to /\ White(t, m5 + 1, to)
  <2>1. t4 = <<Comma>>
    BY <1>5, <1>35 DEF If
  <2>2. Stands(t, m5, <<Comma>>) /\ m6 = m5 + Len(<<Comma>>)
    BY <1>22, <2>1, Zenon DEF Behind
  <2>3. t[m5 + 1] = Comma
    BY <2>2, SignStands, Zenon
  <2>4. Len(<<Comma>>) = 1
    OBVIOUS
  <2>5. m6 = m5 + 1
    BY <2>2, <2>4, Zenon
  <2> QED
    BY <1>26, <1>34, <2>3, <2>5
<1>36. ASSUME ~more
       PROVE  White(t, m5, to) /\ (m5 = to \/ t[m5 + 1] = NewLine)
  <2>1. t4 = <<>>
    BY <1>5, <1>36 DEF If
  <2>2. m6 = m5
    <3>1. m6 = m5 + Len(<<>>)
      BY <1>22, <2>1, Zenon DEF Behind
    <3>2. Len(<<>>) = 0
      OBVIOUS
    <3>3. m6 = m5 + 0
      BY <3>1, <3>2, Zenon
    <3> QED
      BY <1>26, <3>3
  <2>3. CASE format
    <3>1. t5 = <<NewLine>>
      BY <1>6, <2>3 DEF If
    <3>2. Stands(t, m6, <<NewLine>>)
      BY <1>21, <3>1, Zenon DEF Behind
    <3>3. t[m6 + 1] = NewLine
      BY <3>2, SignStands, Zenon
    <3> QED
      BY <1>34, <2>2, <3>3, Zenon
  <2>4. CASE ~format
    <3>1. t5 = <<>>
      BY <1>6, <2>4 DEF If
    <3>2. to = m6 + Len(<<>>)
      BY <1>21, <3>1, Zenon DEF Behind
    <3>4. Len(<<>>) = 0
      OBVIOUS
    <3>5. to = m6 + 0
      BY <3>2, <3>4, Zenon
    <3>3. to = m6
      BY <1>26, <3>5
    <3> QED
      BY <1>34, <2>2, <3>3, Zenon
  <2> QED
    BY <2>3, <2>4
<1>37. m5 <= to
  BY <1>26, <1>34
<1>38. Piece(t, kid, named, s, more, at, to)
  BY <1>26, <1>27, <1>31, <1>32, <1>35, <1>36, <1>37 DEF Piece
<1> QED
  BY <1>20, <1>38, Zenon

\* The list at an offset is laid out in these pieces, up to its closing bracket.
LaidOut(t, d, format, depth, at, pos, close) ==
  /\ pos \in [0..Len(d.kids) -> Nat] /\ close \in Nat
  /\ at + 1 <= pos[0] /\ White(t, at + 1, pos[0])
  /\ \A k \in 1..Len(d.kids) :
       Piece(t, d.kids[k], d.type = "Object", TextOf[d.kids[k]][format][depth + 1],
             k < Len(d.kids), pos[k - 1], pos[k])
  /\ pos[Len(d.kids)] <= close /\ White(t, pos[Len(d.kids)], close)
  /\ t[close + 1] = Close[d.type] /\ close < Len(t)

\* The items of a list can be read again, whatever is in them.
Worded(d) == \A k \in 1..Len(d.kids) : d.kids[k].type \notin {"Raw", "Invalid"}

\* The pieces of a list, each between two offsets.
Laid(t, d, format, depth, pos) ==
  /\ pos \in [0..Len(d.kids) -> Nat]
  /\ \A k \in 1..Len(d.kids) :
       Piece(t, d.kids[k], d.type = "Object", TextOf[d.kids[k]][format][depth + 1],
             k < Len(d.kids), pos[k - 1], pos[k])

BodyStands(t, d, format, depth, from, to) ==
  \E pos : Laid(t, d, format, depth, pos) /\ pos[0] = from /\ pos[Len(d.kids)] = to

\* Where the text of a list's body stands, its entries stand one behind the other.
LEMMA BodyLaid ==
  ASSUME NEW d \in Documents, d.type \in DOMAIN Open, Worded(d), NEW format \in BOOLEAN, NEW depth \in Nat,
         NEW t, Len(t) \in Nat, NEW base \in Nat,
         NEW seqs, seqs = Pieces(d, format, depth), Stands(t, base, FlattenSeq(seqs))
  PROVE  BodyStands(t, d, format, depth, base, base + Len(FlattenSeq(seqs)))
<1>13. PICK N : N = Len(d.kids)
  OBVIOUS
<1>1. /\ N \in Nat /\ DOMAIN d.kids = 1..N
      /\ \A k \in 1..N : d.kids[k] \in Documents /\ TextOf[d.kids[k]][format][depth + 1] \in Seq(Character)
  BY <1>13, ListText
<1>2. seqs \in Seq(Seq(Character)) /\ Len(seqs) = N
  BY <1>13, PiecesAre, Zenon
<1>3. ASSUME NEW k \in 1..N
      PROVE  /\ d.type = "Array" => seqs[k] = Place(d, k, format, TextOf[d.kids[k]][format][depth + 1])
             /\ d.type = "Object" => seqs[k] = Line(d, k, format, depth, TextOf[d.kids[k]][format][depth + 1])
  <2>1. PieceOfList(d, k, format, depth, seqs[k])
    BY <1>13, PiecesAre, Zenon
  <2> QED
    BY <2>1, Zenon DEF PieceOfList
<1>4. PICK f : f \in [0..N -> Seq(Character)] /\ Joins(f, seqs) /\ FlattenSeq(seqs) = f[N]
  <2>1. \E f \in [0..Len(seqs) -> Seq(Character)] : Joins(f, seqs) /\ FlattenSeq(seqs) = f[Len(seqs)]
    BY <1>2, FlattenedIs
  <2> QED
    BY <1>2, <2>1, Zenon
<1>5. /\ f[0] = <<>> /\ \A n \in 1..N : f[n] = f[n - 1] \o seqs[n]
      /\ \A n \in 1..N : seqs[n] \in Seq(Character)
  <2>1. f[0] = <<>> /\ \A n \in 1..N : f[n] = f[n - 1] \o seqs[n]
    BY <1>2, <1>4, Zenon DEF Joins
  <2> DEFINE S == Seq(Character)
  <2>2. seqs \in Seq(S)
    BY <1>2
  <2> HIDE DEF S
  <2>3. \A n \in 1..N : seqs[n] \in S
    BY <1>1, <1>2, <2>2
  <2>4. \A n \in 1..N : seqs[n] \in Seq(Character)
    BY <2>3 DEF S
  <2> QED
    BY <2>1, <2>4, Zenon
<1>6. Stands(t, base, f[N])
  BY <1>4, Zenon
<1>7. /\ \A n \in 0..N : Len(f[n]) \in Nat
      /\ \A n \in 1..N : /\ Stands(t, base + Len(f[n - 1]), seqs[n])
                         /\ Len(f[n]) = Len(f[n - 1]) + Len(seqs[n])
  <2>1. \A n \in 0..N : Len(f[n]) \in Nat
    BY <1>1, <1>4, <1>5, <1>6, PiecesStand, Zenon
  <2>2. \A n \in 1..N : Stands(t, base + Len(f[n - 1]), seqs[n])
    BY <1>1, <1>4, <1>5, <1>6, PiecesStand, Zenon
  <2>3. \A n \in 1..N : Len(f[n]) = Len(f[n - 1]) + Len(seqs[n])
    BY <1>1, <1>4, <1>5, <1>6, PiecesStand, ZenonT(60)
  <2> QED
    BY <2>1, <2>2, <2>3, Zenon
<1> DEFINE pos == [n \in 0..N |-> base + Len(f[n])]
<1>8. pos \in [0..N -> Nat] /\ \A n \in 0..N : pos[n] = base + Len(f[n])
  BY <1>7
<1>9. 0 \in 0..N /\ N \in 0..N
  BY <1>1
<1> HIDE DEF pos
<1>10. pos[0] = base
  <2>1. Len(f[0]) = 0
    BY <1>5
  <2>2. pos[0] = base + 0
    BY <1>8, <1>9, <2>1
  <2> QED
    BY <2>2
<1>11. pos[N] = base + Len(FlattenSeq(seqs))
  BY <1>4, <1>8, <1>9
<1>12. ASSUME NEW k \in 1..N
       PROVE  Piece(t, d.kids[k], d.type = "Object", TextOf[d.kids[k]][format][depth + 1],
                    k < N, pos[k - 1], pos[k])
  <2>1. PICK kid : kid = d.kids[k]
    OBVIOUS
  <2>2. PICK s : s = TextOf[kid][format][depth + 1]
    OBVIOUS
  <2>3. kid \in Documents /\ kid.type \notin {"Raw", "Invalid"}
    BY <1>1, <1>13, <2>1 DEF Worded
  <2>4. s \in Seq(Character) /\ Len(s) >= 1
    <3>1. depth + 1 \in Nat
      OBVIOUS
    <3> QED
      BY <2>2, <2>3, <3>1, TextStartsWith, Zenon
  <2>5. PICK at \in Nat : at = pos[k - 1] /\ at = base + Len(f[k - 1])
    <3>1. k - 1 \in 0..N
      BY <1>1
    <3> QED
      BY <1>8, <3>1
  <2>6. PICK piece \in Seq(Character) : piece = seqs[k]
    BY <1>5
  <2>7. Stands(t, at, piece)
    <3>1. Stands(t, base + Len(f[k - 1]), seqs[k])
      BY <1>7
    <3> QED
      BY <2>5, <2>6, <3>1, Zenon
  <2>8. pos[k] = at + Len(piece)
    <3>1. k \in 0..N /\ k - 1 \in 0..N
      BY <1>1
    <3>2. PICK before \in Nat : before = Len(f[k - 1])
      BY <1>7, <3>1
    <3>3. PICK size \in Nat : size = Len(piece)
      OBVIOUS
    <3>4. Len(f[k]) = before + size
      BY <1>7, <2>6, <3>2, <3>3, Zenon
    <3>5. pos[k] = base + (before + size)
      BY <1>8, <3>1, <3>4, Zenon
    <3>6. at = base + before
      BY <2>5, <3>2, Zenon
    <3>7. pos[k] = at + size
      BY <3>5, <3>6
    <3> QED
      BY <3>3, <3>7, Zenon
  <2>9. PICK more \in BOOLEAN : more = (k < N)
    <3>1. (k < N) \in BOOLEAN
      OBVIOUS
    <3> QED
      BY <3>1, Zenon
  <2>10. PICK named \in BOOLEAN : named = (d.type = "Object")
    <3>1. (d.type = "Object") \in BOOLEAN
      OBVIOUS
    <3> QED
      BY <3>1, Zenon
  <2>11. Piece(t, kid, named, s, more, at, at + Len(piece))
    <3>1. CASE d.type = "Array"
      <4>1. piece = Place(d, k, format, s)
        BY <1>3, <2>1, <2>2, <2>6, <3>1, Zenon
      <4>2. piece = s \o If(more, <<Comma>> \o If(format, <<Space>>))
        <5>1. (k < Len(d.kids)) = more
          BY <1>13, <2>9, Zenon
        <5> QED
          BY <4>1, <5>1, Zenon DEF Place
      <4>3. ~named
        BY <2>10, <3>1
      <4> QED
        BY <2>4, <2>7, <4>2, <4>3, ElementLaid, Zenon
    <3>2. CASE d.type = "Object"
      <4>1. piece = Line(d, k, format, depth, s)
        BY <1>3, <2>1, <2>2, <2>6, <3>2, Zenon
      <4>2. PICK deeper \in Nat : deeper = depth + 1
        OBVIOUS
      <4>3. piece = If(format, Tabs(deeper)) \o Literal(kid.string) \o <<Colon>> \o If(format, <<Tab>>)
                      \o s \o If(more, <<Comma>>) \o If(format, <<NewLine>>)
        <5>1. (k < Len(d.kids)) = more
          BY <1>13, <2>9, Zenon
        <5> QED
          BY <2>1, <4>1, <4>2, <5>1, Zenon DEF Line
      <4>4. named
        BY <2>10, <3>2
      <4>5. kid.string \in CharPointer
        <5>1. kid \in Nested[Levels] /\ Levels \in 0..Levels
          BY <2>3, LevelsAssumption DEF Documents
        <5> QED
          BY <5>1, ItemIs
      <4> QED
        BY <2>4, <2>7, <4>3, <4>4, <4>5, MemberLaid, ZenonT(60)
    <3> QED
      BY <3>1, <3>2 DEF Open
  <2> QED
    BY <2>1, <2>2, <2>5, <2>8, <2>9, <2>10, <2>11, Zenon
<1>14. Laid(t, d, format, depth, pos)
  <2>1. \A k \in 1..N : Piece(t, d.kids[k], d.type = "Object", TextOf[d.kids[k]][format][depth + 1],
                             k < N, pos[k - 1], pos[k])
    BY <1>12
  <2> QED
    BY <1>8, <1>13, <2>1, Zenon DEF Laid
<1> QED
  BY <1>10, <1>11, <1>13, <1>14, Zenon DEF BodyStands

\* Brackets, and white space, around the pieces.
LEMMA ListLaid ==
  ASSUME NEW d \in Documents, d.type \in DOMAIN Open, Worded(d), NEW format \in BOOLEAN, NEW depth \in Nat,
         NEW s, s = TextOf[d][format][depth], NEW t, Len(t) \in Nat, NEW at \in Nat, Stands(t, at, s)
  PROVE  \E pos, close : LaidOut(t, d, format, depth, at, pos, close) /\ close + 1 = at + Len(s)
<1>1. PICK N : N = Len(d.kids)
  OBVIOUS
<1>2. PICK seqs : seqs = Pieces(d, format, depth)
  OBVIOUS
<1>3. seqs \in Seq(Seq(Character))
  BY <1>1, <1>2, PiecesAre, Zenon
<1>4. PICK inner \in Seq(Character) : inner = FlattenSeq(seqs)
  <2>1. PICK f \in [0..Len(seqs) -> Seq(Character)] : FlattenSeq(seqs) = f[Len(seqs)]
    BY <1>3, FlattenedIs
  <2>2. Len(seqs) \in 0..Len(seqs)
    BY <1>3
  <2> QED
    BY <2>1, <2>2
<1>5. PICK open \in Seq(Character) : open = <<Open[d.type]>>
  <2>1. <<Open.Array>> \in Seq(Character) /\ <<Open.Object>> \in Seq(Character)
    BY Signs
  <2> QED
    BY <2>1 DEF Open
<1>6. PICK last \in Seq(Character) : last = <<Close[d.type]>>
  <2>1. <<Close.Array>> \in Seq(Character) /\ <<Close.Object>> \in Seq(Character)
    BY Signs
  <2> QED
    BY <2>1 DEF Open, Close
<1>7. PICK line \in Seq(Character), tabs \in Seq(Character) :
        /\ \A n \in 1..Len(line) : line[n] <= 32
        /\ \A n \in 1..Len(tabs) : tabs[n] <= 32
        /\ s = (((open \o line) \o inner) \o tabs) \o last
  <2>1. CASE d.type = "Array"
    <3>1. s = <<Open.Array>> \o FlattenSeq(ElementTexts(d, format, depth + 1, TextOf)) \o <<Close.Array>>
      BY <2>1, ListText
    <3>2. s = open \o inner \o last
      <4>1. open = <<Open.Array>> /\ last = <<Close.Array>>
        BY <1>5, <1>6, <2>1 DEF Open, Close
      <4> QED
        BY <1>2, <1>4, <2>1, <3>1, <4>1, Zenon DEF Pieces
    <3>3. PICK none \in Seq(Character) : none = <<>>
      <4>1. <<>> \in Seq(Character)
        OBVIOUS
      <4> QED
        BY <4>1, Zenon
    <3>4. \A a \in Seq(Character) : a \o none = a
      BY <3>3
    <3>5. PICK front \in Seq(Character) : front = open \o inner
      BY JoinStarts, Zenon
    <3>6. open \o none = open /\ front \o none = front
      BY <3>4, Zenon
    <3>7. s = (((open \o none) \o inner) \o none) \o last
      BY <3>2, <3>5, <3>6, Zenon
    <3>8. \A n \in 1..Len(none) : none[n] <= 32
      BY <3>3
    <3> QED
      BY <3>7, <3>8
  <2>2. CASE d.type = "Object"
    <3>1. PICK line \in Seq(Character) : line = If(format, <<NewLine>>)
      BY Signs, IfCharacters
    <3>2. PICK tabs \in Seq(Character) : tabs = If(format, Tabs(depth))
      BY TabsCharacters, IfCharacters
    <3>3. s = <<Open.Object>> \o line \o inner \o tabs \o <<Close.Object>>
      <4>1. s = <<Open.Object>> \o If(format, <<NewLine>>) \o FlattenSeq(MemberTexts(d, format, depth, TextOf))
                    \o If(format, Tabs(depth)) \o <<Close.Object>>
        BY <2>2, ListText
      <4>2. d.type # "Array"
        BY <2>2
      <4> QED
        BY <1>2, <1>4, <3>1, <3>2, <4>1, <4>2, Zenon DEF Pieces
    <3>4. open = <<Open.Object>> /\ last = <<Close.Object>>
      BY <1>5, <1>6, <2>2 DEF Open, Close
    <3>5. s = (((open \o line) \o inner) \o tabs) \o last
      BY <3>3, <3>4, Zenon
    <3>6. /\ \A n \in 1..Len(line) : line[n] <= 32
          /\ \A n \in 1..Len(tabs) : tabs[n] <= 32
      BY <3>1, <3>2, WhiteBytes
    <3> QED
      BY <3>5, <3>6
  <2> QED
    BY <2>1, <2>2 DEF Open
<1>8. PICK a1 \in Seq(Character) : a1 = open \o line
  BY JoinStarts, Zenon
<1>9. PICK a2 \in Seq(Character) : a2 = a1 \o inner
  BY JoinStarts, Zenon
<1>10. PICK a3 \in Seq(Character) : a3 = a2 \o tabs
  BY JoinStarts, Zenon
<1>11. s = a3 \o last
  BY <1>7, <1>8, <1>9, <1>10, Zenon
<1>12. PICK m1 : m1 = at + Len(open)
  OBVIOUS
<1>13. PICK m2 : m2 = at + Len(a1)
  OBVIOUS
<1>14. PICK m3 : m3 = at + Len(a2)
  OBVIOUS
<1>15. PICK close : close = at + Len(a3)
  OBVIOUS
<1>16. PICK to : to = at + Len(s)
  OBVIOUS
<1>17. Behind(t, at, a3, close, last, to)
  BY <1>11, <1>15, <1>16, StandsOn, Zenon
<1>18. Behind(t, at, a2, m3, tabs, close)
  <2>1. Stands(t, at, a3)
    BY <1>17 DEF Behind
  <2> QED
    BY <1>10, <1>14, <1>15, <2>1, StandsOn, Zenon
<1>19. Behind(t, at, a1, m2, inner, m3)
  <2>1. Stands(t, at, a2)
    BY <1>18 DEF Behind
  <2> QED
    BY <1>9, <1>13, <1>14, <2>1, StandsOn, Zenon
<1>20. Behind(t, at, open, m1, line, m2)
  <2>1. Stands(t, at, a1)
    BY <1>19 DEF Behind
  <2> QED
    BY <1>8, <1>12, <1>13, <2>1, StandsOn, Zenon
<1>21. /\ m1 \in Nat /\ m2 \in Nat /\ m3 \in Nat /\ close \in Nat
       /\ m1 <= m2 /\ m3 <= close
  BY <1>17, <1>18, <1>19, <1>20, Zenon DEF Behind
<1>22. m1 = at + 1
  <2>1. Len(open) = 1
    BY <1>5
  <2> QED
    BY <1>12, <2>1, Zenon
<1>23. White(t, m1, m2)
  <2>1. Stands(t, m1, line) /\ m2 = m1 + Len(line)
    BY <1>20, Zenon DEF Behind
  <2>2. White(t, m1, m1 + Len(line))
    BY <1>7, <1>21, <2>1, WhiteBehind, Zenon
  <2> QED
    BY <2>1, <2>2, Zenon
<1>24. White(t, m3, close)
  <2>1. Stands(t, m3, tabs) /\ close = m3 + Len(tabs)
    BY <1>18, Zenon DEF Behind
  <2>2. White(t, m3, m3 + Len(tabs))
    BY <1>7, <1>21, <2>1, WhiteBehind, Zenon
  <2> QED
    BY <2>1, <2>2, Zenon
<1>25. t[close + 1] = Close[d.type] /\ close + 1 <= Len(t) /\ to = close + 1
  <2>1. Stands(t, close, <<Close[d.type]>>) /\ to = close + Len(last)
    BY <1>6, <1>17, Zenon DEF Behind
  <2>2. Len(last) = 1
    BY <1>6
  <2>3. close + 1 <= Len(t) /\ t[close + 1] = Close[d.type]
    BY <2>1, SignStands, Zenon
  <2> QED
    BY <2>1, <2>2, <2>3, Zenon
<1>26. Stands(t, m2, inner) /\ m3 = m2 + Len(inner)
  BY <1>19, Zenon DEF Behind
<1>27. Stands(t, m2, FlattenSeq(seqs))
  BY <1>4, <1>26, Zenon
<1>28. PICK pos : /\ Laid(t, d, format, depth, pos) /\ pos[0] = m2
                   /\ pos[Len(d.kids)] = m2 + Len(FlattenSeq(seqs))
  <2>1. BodyStands(t, d, format, depth, m2, m2 + Len(FlattenSeq(seqs)))
    BY <1>2, <1>21, <1>27, BodyLaid, Zenon
  <2> QED
    BY <2>1, Zenon DEF BodyStands
<1>29. pos[Len(d.kids)] = m3
  BY <1>4, <1>26, <1>28, Zenon
<1>30. close < Len(t)
  BY <1>21, <1>25
<1>31. LaidOut(t, d, format, depth, at, pos, close)
  BY <1>1, <1>21, <1>22, <1>23, <1>24, <1>25, <1>28, <1>29, <1>30, Zenon DEF LaidOut, Laid
<1> QED
  BY <1>16, <1>25, <1>31, Zenon

(***************************************************************************)
(* An element or a member is read again                                    *)
(***************************************************************************)

\* What value_from makes of a document's text is that document, on n levels.
Readable(d) == \A part \in Within[d] : part.type \notin {"Raw", "Invalid"}
Reader(value, n) ==
  \A b \in ParseBuffer, it \in NewItems, d \in Documents, format \in BOOLEAN, depth \in Nat,
     member \in BOOLEAN :
    Sound(b) /\ b.depth + n = CJSON_NESTING_LIMIT /\ AtText(b, TextOf[d][format][depth]) /\ Readable(d)
      /\ it.string = Reread[d][member].string =>
    Taken(b, TextOf[d][format][depth], Reread[d][member], BlocksOf[Reread[d][member]] - BlocksOf[it],
          d \notin Nested[n], value[b][it])

\* The item a came of what ends at an offset, for so many blocks since b.
Came(b, end, blocks, a, deep, v) ==
  /\ v.ok => v.item = a /\ Reached(b, end, blocks, v.b)
  /\ ~v.ok => deep \/ b.luck < blocks

CameNext(b, end, blocks, a, deep, kids, r) ==
  \E v : Came(b, end, blocks, a, deep, v) /\ r = next_element(v, kids)

\* What is reached from what was reached.
LEMMA ReachedOn ==
  ASSUME NEW b, Sound(b), NEW at, NEW k \in Nat, NEW c, Reached(b, at, k, c),
         NEW to, NEW m \in Nat, NEW d, Reached(c, to, m, d)
  PROVE  Reached(b, to, k + m, d)
<1>1. b.luck \in Nat /\ c.luck \in Nat /\ d.luck \in Nat
  BY SoundIs DEF Reached
<1>2. /\ Sound(d) /\ d.text = b.text /\ d.depth = b.depth /\ d.offset = to
      /\ c.luck + k = b.luck /\ d.luck + m = c.luck
  BY DEF Reached
<1>3. d.luck + (k + m) = b.luck
  BY <1>1, <1>2
<1> QED
  BY <1>2, <1>3 DEF Reached

\* What is read again is a document, with a number of blocks.
LEMMA RereadIs ==
  ASSUME NEW d \in Documents, NEW member \in BOOLEAN
  PROVE  Reread[d][member] \in Documents /\ BlocksOf[Reread[d][member]] \in Nat
<1>1. Levels \in 0..Levels /\ d \in Nested[Levels]
  BY LevelsAssumption DEF Documents
<1>2. Reread[d][member] \in Nested[Levels]
  BY <1>1, RereadIn
<1> QED
  BY <1>1, <1>2, BlocksAre DEF Documents

\* The blocks of the elements of a list are a number.
LEMMA KidsSum ==
  ASSUME NEW d \in Documents
  PROVE  SumOf(d.kids, BlocksOf) \in Nat
<1>1. \A e \in Documents : BlocksOf[e] \in Nat
  BY BlocksIs
<1>2. d.kids \in Seq(Documents)
  <2>1. Levels \in 0..Levels /\ d \in Nested[Levels]
    BY LevelsAssumption DEF Documents
  <2>2. CASE d.type \in DOMAIN Open
    <3>1. Levels # 0 /\ d.kids \in Seq(Nested[Levels - 1])
      BY <2>1, <2>2, ItemIs
    <3>2. Levels - 1 \in 0..Levels
      BY <3>1, LevelsAssumption
    <3>3. Nested[Levels - 1] \subseteq Documents
      BY <3>2, BlocksAre
    <3> QED
      BY <3>1, <3>3
  <2>3. CASE d.type \notin DOMAIN Open
    <3>1. d.kids = <<>>
      BY <2>1, <2>3, ItemIs
    <3> QED
      BY <3>1
  <2> QED
    BY <2>2, <2>3
<1> QED
  BY <1>1, <1>2, SumSame

\* The value of an item that is new, or has a name.
LEMMA ValueCame ==
  ASSUME NEW n, NEW value, Reader(value, n), NEW b, Sound(b), b.depth + n = CJSON_NESTING_LIMIT,
         NEW it \in NewItems, NEW own, own = BlocksOf[it], NEW blocks \in Nat,
         NEW at \in Nat, NEW start, Reached(b, at, blocks + own, start),
         NEW d \in Documents, Readable(d), NEW format \in BOOLEAN, NEW depth \in Nat, NEW member \in BOOLEAN,
         NEW s, s = TextOf[d][format][depth], Stands(b.text, at, s), NEW end, end = at + Len(s),
         end < Len(b.text), b.text[end + 1] \notin NumberByte,
         NEW a, a = Reread[d][member], it.string = a.string
  PROVE  Came(b, end, blocks + BlocksOf[a], a, d \notin Nested[n], value[start][it])
<1>1. /\ Sound(start) /\ start.text = b.text /\ start.depth = b.depth /\ start.offset = at
      /\ start.luck + (blocks + own) = b.luck
  BY DEF Reached
<1>2. start \in ParseBuffer
  BY <1>1 DEF Sound
<1>3. AtText(start, s)
  BY <1>1 DEF AtText
<1>4. own \in Nat /\ BlocksOf[a] \in Nat
  BY NewIs, RereadIs
<1> DEFINE deep == d \notin Nested[n]
           v == value[start][it]
<1>5. start.depth + n = CJSON_NESTING_LIMIT
  BY <1>1
<1>6. Taken(start, s, a, BlocksOf[a] - own, deep, v)
  BY <1>1, <1>2, <1>3, <1>5, Zenon DEF Reader
<1> HIDE DEF v, deep
<1>7. PICK k \in Nat : k = BlocksOf[a]
  BY <1>4
<1>8. b.luck \in Nat /\ start.luck \in Nat
  BY <1>1, SoundIs
<1>9. ASSUME v.ok
      PROVE  v.item = a /\ Reached(b, end, blocks + k, v.b)
  <2>1. v.item = a /\ Reached(start, start.offset + Len(s), BlocksOf[a] - own, v.b)
    BY <1>6, <1>9, Zenon DEF Taken
  <2>2. /\ Sound(v.b) /\ v.b.text = start.text /\ v.b.depth = start.depth /\ v.b.offset = start.offset + Len(s)
        /\ v.b.luck + (BlocksOf[a] - own) = start.luck
    BY <2>1, Zenon DEF Reached
  <2>3. v.b.luck \in Nat
    BY <2>2, SoundIs
  <2>4. v.b.luck + (k - own) = start.luck
    BY <1>7, <2>2, Zenon
  <2>5. v.b.luck + (blocks + k) = b.luck
    <3>1. PICK x \in Nat : x = v.b.luck
      BY <2>3
    <3>2. PICK y \in Nat : y = start.luck
      BY <1>8
    <3>3. PICK z \in Nat : z = b.luck
      BY <1>8
    <3>4. x + (k - own) = y /\ y + (blocks + own) = z
      BY <1>1, <2>4, <3>1, <3>2, <3>3, Zenon
    <3>5. x + (blocks + k) = z
      BY <1>4, <3>4
    <3> QED
      BY <3>1, <3>3, <3>5, Zenon
  <2>6. v.b.offset = end
    BY <1>1, <2>2, Zenon
  <2> QED
    BY <1>1, <2>1, <2>2, <2>5, <2>6, Zenon DEF Reached
<1>10. ASSUME ~v.ok
       PROVE  deep \/ b.luck < blocks + k
  <2>1. deep \/ start.luck < BlocksOf[a] - own
    BY <1>6, <1>10, Zenon DEF Taken
  <2>2. deep \/ start.luck < k - own
    BY <1>7, <2>1, Zenon
  <2> QED
    BY <1>1, <1>4, <1>8, <2>2
<1>11. Came(b, end, blocks + k, a, deep, v)
  BY <1>9, <1>10, Zenon DEF Came
<1> QED
  BY <1>7, <1>11, Zenon DEF v, deep

\* What a list has of an item: where it starts and ends.
LEMMA EntryText ==
  ASSUME NEW d \in Documents, Readable(d), NEW format \in BOOLEAN, NEW depth \in Nat,
         NEW s, s = TextOf[d][format][depth]
  PROVE  s \in Seq(Character) /\ Len(s) >= 1 /\ s[1] > 32
<1>1. d.type \notin {"Raw", "Invalid"}
  <2>1. d \in Within[d]
    BY MeaningIs
  <2> QED
    BY <2>1 DEF Readable
<1> QED
  BY <1>1, TextStartsWith

\* A text that stands somewhere ends there too.
LEMMA StandsTo ==
  ASSUME NEW t, Len(t) \in Nat, NEW at \in Nat, NEW s \in Seq(Character), Len(s) >= 1, Stands(t, at, s),
         NEW end, end = at + Len(s)
  PROVE  end \in Nat /\ at < end /\ end <= Len(t) /\ t[at + 1] = s[1]
BY DEF Stands

\* The name of a member, the colon and the value.
LEMMA MemberCame ==
  ASSUME NEW n, NEW value, Reader(value, n), NEW b, Sound(b), b.depth + n = CJSON_NESTING_LIMIT,
         NEW blocks \in Nat, NEW at \in Nat, NEW start, Reached(b, at, blocks + 1, start),
         NEW d \in Documents, Readable(d), NEW format \in BOOLEAN, NEW depth \in Nat, NEW member \in BOOLEAN,
         member, NEW s, s = TextOf[d][format][depth], NEW from \in Nat, NameAt(b.text, d, at, from),
         Stands(b.text, from, s), NEW end, end = from + Len(s),
         end < Len(b.text), b.text[end + 1] \notin NumberByte,
         NEW a, a = Reread[d][member], NEW kids
  PROVE  CameNext(b, end, blocks + BlocksOf[a], a, d \notin Nested[n], kids,
                  parse_member(parse_string(start, NewItem), kids, value))
<1> DEFINE name == parse_string(start, NewItem)
           colon == buffer_skip_whitespace(name.b)
           kid == [NewItem EXCEPT !.string = name.item.val]
           past == Step(colon, 1)
           c == buffer_skip_whitespace(past)
           deep == d \notin Nested[n]
           no == No(name.b, NewItem)
           r == parse_member(name, kids, value)
<1>1. r = IF ~name.ok THEN Loop(No(name.b, NewItem), FALSE, kids)
          ELSE IF ~Sees(colon, Colon) THEN Loop(No(colon, kid), FALSE, kids)
          ELSE next_element(value[c][kid], kids)
  BY Zenon DEF parse_member
<1>2. d.string \in CharPointer
  <2>1. d \in Nested[Levels] /\ Levels \in 0..Levels
    BY LevelsAssumption DEF Documents
  <2> QED
    BY <2>1, ItemIs
<1>3. a.string = Known(d.string) /\ Known(d.string) \in Seq(Character)
  BY <1>2, AgainIs, KnownIs
<1>4. BlocksOf[a] \in Nat /\ BlocksOf[a] >= 2
  <2>1. a \in Documents /\ BlocksOf[a] \in Nat
    BY RereadIs
  <2>2. a.string # NoText
    BY <1>3, NoTextIs
  <2>3. OwnBlocks(a) >= 2 /\ OwnBlocks(a) \in Nat
    BY <2>2 DEF OwnBlocks
  <2>4. SumOf(a.kids, BlocksOf) \in Nat /\ BlocksOf[a] = OwnBlocks(a) + SumOf(a.kids, BlocksOf)
    BY <2>1, BlocksIs, KidsSum
  <2>5. PICK own \in Nat : own = OwnBlocks(a)
    BY <2>3
  <2>6. PICK sum \in Nat : sum = SumOf(a.kids, BlocksOf)
    BY <2>4
  <2>7. own >= 2
    BY <2>3, <2>5, Zenon
  <2>8. own + sum \in Nat /\ own + sum >= 2
    BY ONLY <2>7, own \in Nat, sum \in Nat
  <2>9. BlocksOf[a] = own + sum
    BY <2>4, <2>5, <2>6, Zenon
  <2> QED
    BY <2>8, <2>9, Zenon
<1>5. /\ Sound(start) /\ start.text = b.text /\ start.depth = b.depth /\ start.offset = at
      /\ start.luck + (blocks + 1) = b.luck /\ start.luck \in Nat /\ b.luck \in Nat /\ Len(b.text) \in Nat
  BY SoundIs DEF Reached
<1>6. AtLiteral(start, d.string)
  BY <1>5 DEF AtLiteral, NameAt
<1> DEFINE size == Len(Literal(d.string))
<1>7. size \in Nat
  BY <1>2, LiteralSpelled
<1> HIDE DEF name, r, size
<1>8. /\ name.ok => /\ name.item = Filled(NewItem, "String", Known(d.string))
                    /\ Reached(start, start.offset + Len(Literal(d.string)), 1, name.b)
      /\ ~name.ok => start.luck < 1
  BY <1>2, <1>5, <1>6, NewItemIs, LiteralRead DEF name
<1>9. CASE ~name.ok
  <2>1. b.luck < blocks + BlocksOf[a]
    <3>1. PICK k \in Nat : k = BlocksOf[a]
      BY <1>4
    <3>2. PICK y \in Nat : y = start.luck
      BY <1>5
    <3>3. PICK z \in Nat : z = b.luck
      BY <1>5
    <3>4. y < 1 /\ y + (blocks + 1) = z /\ k >= 2
      BY <1>4, <1>5, <1>8, <1>9, <3>1, <3>2, <3>3, Zenon
    <3>5. z < blocks + k
      BY <3>4
    <3> QED
      BY <3>1, <3>3, <3>5, Zenon
  <2>2. ~no.ok
    BY DEF No
  <2> HIDE DEF no
  <2>3. Came(b, end, blocks + BlocksOf[a], a, deep, no)
    BY <2>1, <2>2, Zenon DEF Came
  <2>4. next_element(no, kids) = Loop(no, FALSE, kids)
    BY <2>2 DEF next_element
  <2>5. r = next_element(no, kids)
    BY <1>1, <1>9, <2>4 DEF no
  <2> QED
    BY <2>3, <2>5, Zenon DEF CameNext, r, name, deep
<1>10. CASE name.ok
  <2>1. PICK mid \in Nat : mid = at + size
    BY <1>7
  <2>2. Reached(b, mid, (blocks + 1) + 1, name.b)
    <3>1. Reached(start, mid, 1, name.b)
      BY <1>5, <1>8, <1>10, <2>1, Zenon DEF size
    <3>2. blocks + 1 \in Nat /\ 1 \in Nat
      OBVIOUS
    <3> QED
      BY <3>1, <3>2, ReachedOn, Zenon
  <2>3. blocks + 2 = (blocks + 1) + 1
    OBVIOUS
  <2>4. Reached(b, mid, blocks + 2, name.b)
    BY <2>2, <2>3, Zenon
  <2>5. mid + 1 <= from /\ b.text[mid + 1] = Colon /\ White(b.text, mid + 1, from)
    BY <2>1 DEF NameAt, size
  <2>6. s \in Seq(Character) /\ Len(s) >= 1 /\ s[1] > 32
    BY EntryText
  <2>7. end \in Nat /\ from < end /\ end <= Len(b.text) /\ b.text[from + 1] = s[1]
    BY <1>5, <2>6, StandsTo, Zenon
  <2>8. mid < Len(b.text) /\ from < Len(b.text) /\ White(b.text, mid, mid)
    <3>1. White(b.text, mid, mid)
      BY <2>1, NothingWhite
    <3>2. PICK L \in Nat : L = Len(b.text)
      BY <1>5
    <3>3. end <= L
      BY <2>7, <3>2, Zenon
    <3>4. mid < L /\ from < L
      BY <2>5, <2>7, <3>3
    <3> QED
      BY <3>1, <3>2, <3>4, Zenon
  <2>9. Reached(b, mid, blocks + 2, colon)
    <3>1. b.text[mid + 1] > 32
      BY <2>5 DEF Colon
    <3>2. mid <= mid
      OBVIOUS
    <3> QED
      BY <2>4, <2>8, <3>1, <3>2, SkipReaches, Zenon
  <2> HIDE DEF colon
  <2>10. Sees(colon, Colon)
    BY <1>5, <2>5, <2>8, <2>9 DEF Reached, Sees, CanAccess, ByteAt
  <2>11. Reached(b, mid + 1, blocks + 2, past)
    BY <2>9, StepReaches
  <2> HIDE DEF past
  <2>12. Reached(b, from, blocks + 2, c)
    <3>1. mid + 1 \in Nat
      BY <2>1
    <3>2. b.text[from + 1] > 32
      BY <2>6, <2>7
    <3> QED
      BY <2>5, <2>8, <2>11, <3>1, <3>2, SkipReaches, Zenon
  <2> HIDE DEF c
  <2>13. kid \in NewItems /\ kid.string = a.string /\ BlocksOf[kid] = 2
    <3>1. name.item.val = Known(d.string)
      BY <1>8, <1>10, NewItemIs DEF Filled, NewItem
    <3>2. Known(d.string) \in CharPointer /\ Known(d.string) # NoText
      BY <1>3, NoTextIs DEF CharPointer
    <3>3. kid \in NewItems /\ kid.string = Known(d.string)
      BY <3>1, <3>2, NewNamed
    <3> HIDE DEF kid
    <3>4. kid.string # NoText
      BY <3>2, <3>3, Zenon
    <3>5. BlocksOf[kid] = 1 + (IF kid.string # NoText THEN 1 ELSE 0)
      BY <3>3, NewIs
    <3>6. BlocksOf[kid] = 1 + 1
      BY <3>4, <3>5, Zenon
    <3> QED
      BY <1>3, <3>3, <3>6
  <2> HIDE DEF kid
  <2>14. Came(b, end, blocks + BlocksOf[a], a, deep, value[c][kid])
    BY <2>12, <2>13, ValueCame
  <2>15. r = next_element(value[c][kid], kids)
    BY <1>1, <1>10, <2>10
  <2> QED
    BY <2>14, <2>15, Zenon DEF CameNext, r, name, deep
<1> QED
  BY <1>9, <1>10

\* A buffer that value can be asked about, and a document's text that stands in it.
Reading(b, value, n) == Reader(value, n) /\ Sound(b) /\ b.depth + n = CJSON_NESTING_LIMIT
TextAt(b, d, format, depth, from, end) ==
  /\ d \in Documents /\ Readable(d) /\ format \in BOOLEAN /\ depth \in Nat
  /\ Stands(b.text, from, TextOf[d][format][depth]) /\ end = from + Len(TextOf[d][format][depth])
  /\ end < Len(b.text) /\ b.text[end + 1] \notin NumberByte

\* An element of an array that stands at the offset is read again.
LEMMA ValueCameAt ==
  ASSUME NEW n, NEW value, NEW b, Reading(b, value, n), NEW it \in NewItems, NEW own, own = BlocksOf[it],
         NEW blocks \in Nat, NEW at \in Nat, NEW start, Reached(b, at, blocks + own, start),
         NEW d, NEW format, NEW depth, NEW end, TextAt(b, d, format, depth, at, end),
         NEW member \in BOOLEAN, NEW a, a = Reread[d][member], it.string = a.string
  PROVE  Came(b, end, blocks + BlocksOf[a], a, d \notin Nested[n], value[start][it])
<1>1. Reader(value, n) /\ Sound(b) /\ b.depth + n = CJSON_NESTING_LIMIT
  BY DEF Reading
<1>2. PICK s : s = TextOf[d][format][depth]
  OBVIOUS
<1>3. /\ d \in Documents /\ Readable(d) /\ format \in BOOLEAN /\ depth \in Nat
      /\ Stands(b.text, at, s) /\ end = at + Len(s)
      /\ end < Len(b.text) /\ b.text[end + 1] \notin NumberByte
  BY <1>2, Zenon DEF TextAt
<1> QED
  BY <1>1, <1>2, <1>3, ValueCame

\* A member of an object that stands at the offset is read again, with its name.
LEMMA MemberCameAt ==
  ASSUME NEW n, NEW value, NEW b, Reading(b, value, n),
         NEW blocks \in Nat, NEW at \in Nat, NEW start, Reached(b, at, blocks + 1, start),
         NEW d, NEW format, NEW depth, NEW from \in Nat, NEW end, TextAt(b, d, format, depth, from, end),
         NameAt(b.text, d, at, from), NEW member \in BOOLEAN, member, NEW a, a = Reread[d][member], NEW kids
  PROVE  CameNext(b, end, blocks + BlocksOf[a], a, d \notin Nested[n], kids,
                  parse_member(parse_string(start, NewItem), kids, value))
<1>1. Reader(value, n) /\ Sound(b) /\ b.depth + n = CJSON_NESTING_LIMIT
  BY DEF Reading
<1>2. PICK s : s = TextOf[d][format][depth]
  OBVIOUS
<1>3. /\ d \in Documents /\ Readable(d) /\ format \in BOOLEAN /\ depth \in Nat
      /\ Stands(b.text, from, s) /\ end = from + Len(s)
      /\ end < Len(b.text) /\ b.text[end + 1] \notin NumberByte
  BY <1>2, Zenon DEF TextAt
<1> QED
  BY <1>1, <1>2, <1>3, MemberCame

(***************************************************************************)
(* The rounds over a list                                                  *)
(***************************************************************************)

\* What is behind an entry of a list.
Over(t, more, end, to) ==
  /\ end <= to
  /\ more => t[end + 1] = Comma /\ end + 1 <= to /\ White(t, end + 1, to)
  /\ ~more => White(t, end, to) /\ (end = to \/ t[end + 1] = NewLine)

\* What is in front of a round: the next item, or the closing bracket.
Ahead(t, d, format, depth, pos, close, j, at) ==
  IF j < Len(d.kids)
  THEN Piece(t, d.kids[j + 1], d.type = "Object", TextOf[d.kids[j + 1]][format][depth + 1],
             j + 1 < Len(d.kids), at + 1, pos[j + 1])
  ELSE at = close

\* The list after j items, of documents that may be nested n deep.
Listing(b, d, format, depth, pos, close, akids, sum, n, j, list) ==
  /\ list.ok => /\ list.item = SubSeq(akids, 1, j) /\ Reached(b, list.b.offset, sum[j], list.b)
                /\ list.more <=> j < Len(d.kids)
                /\ Ahead(b.text, d, format, depth, pos, close, j, list.b.offset)
  /\ ~list.ok => (\E k \in 1..Len(d.kids) : d.kids[k] \notin Nested[n]) \/ b.luck < sum[Len(d.kids)]

\* A prefix of a sequence and the element after it.
LEMMA PrefixAppended ==
  ASSUME NEW S, NEW s \in Seq(S), NEW j \in Nat, j < Len(s)
  PROVE  SubSeq(s, 1, j + 1) = Append(SubSeq(s, 1, j), s[j + 1])
OBVIOUS

\* An entry may stand behind more white space.
LEMMA PieceSooner ==
  ASSUME NEW t, Len(t) \in Nat, NEW kid, NEW named, NEW s, NEW more, NEW at \in Nat, NEW to \in Nat,
         Piece(t, kid, named, s, more, at, to), NEW from \in Nat, from <= at, White(t, from, at)
  PROVE  Piece(t, kid, named, s, more, from, to)
<1>1. PICK entry \in Nat, end \in Nat :
        /\ at <= entry /\ White(t, at, entry) /\ entry < end /\ end <= to
        /\ EntryAt(t, kid, named, s, entry, end)
        /\ more => t[end + 1] = Comma /\ end + 1 <= to /\ White(t, end + 1, to)
        /\ ~more => White(t, end, to) /\ (end = to \/ t[end + 1] = NewLine)
  BY DEF Piece
<1>2. White(t, from, entry)
  BY <1>1, WhiteOn
<1>3. from <= entry
  BY <1>1
<1> QED
  BY <1>1, <1>2, <1>3, Zenon DEF Piece

\* A text of characters ends before the byte 0.
LEMMA StandsInside ==
  ASSUME NEW b, Sound(b), NEW s \in Seq(Character), Len(s) >= 1, NEW at \in Nat, Stands(b.text, at, s)
  PROVE  at + Len(s) < Len(b.text)
<1>1. Len(b.text) \in Nat /\ b.text[Len(b.text)] = 0
  BY SoundIs
<1>2. PICK t : t = b.text
  OBVIOUS
<1>3. PICK L \in Nat : L = Len(t)
  BY <1>1, <1>2
<1>4. PICK m \in Nat : m = Len(s)
  OBVIOUS
<1>5. m \in 1..Len(s) /\ s[m] # 0
  BY <1>4 DEF Character
<1>6. t[at + m] = s[m] /\ at + m <= L
  BY <1>2, <1>3, <1>4, <1>5 DEF Stands
<1>7. t[L] = 0
  BY <1>1, <1>2, <1>3
<1>8. at + m # L
  BY <1>5, <1>6, <1>7
<1>9. at + m < L
  BY <1>6, <1>8
<1> QED
  BY <1>2, <1>3, <1>4, <1>9, Zenon

\* The end of a round, after the item of the list.
LEMMA RoundEnds ==
  ASSUME NEW b, Sound(b), NEW d \in Documents, d.type \in DOMAIN Open, NEW N, N = Len(d.kids),
         NEW format, NEW depth, NEW at, NEW pos, NEW close, LaidOut(b.text, d, format, depth, at, pos, close),
         NEW akids \in Seq(Documents), Len(akids) = N, NEW sum, NEW n, NEW j \in Nat, j < N,
         sum[j + 1] \in Nat, sum[j + 1] <= sum[N], sum[N] \in Nat,
         NEW end \in Nat, end < Len(b.text), Over(b.text, j + 1 < N, end, pos[j + 1]),
         NEW v, Came(b, end, sum[j + 1], akids[j + 1], d.kids[j + 1] \notin Nested[n], v)
  PROVE  Listing(b, d, format, depth, pos, close, akids, sum, n, j + 1,
                 next_element(v, SubSeq(akids, 1, j)))
<1> DEFINE kids == SubSeq(akids, 1, j)
           after == buffer_skip_whitespace(v.b)
           sees == Sees(after, Comma)
           w == Yes(after, v.item)
           r == next_element(v, kids)
<1>1. r = IF ~v.ok THEN Loop(v, FALSE, kids) ELSE Loop(w, sees, kids)
  BY Zenon DEF next_element
<1>2. PICK k \in Nat : k = j + 1
  OBVIOUS
<1>3. N \in Nat /\ k \in 1..N /\ Len(b.text) \in Nat
  BY <1>2, SoundIs
<1>4. /\ pos \in [0..N -> Nat] /\ close \in Nat /\ pos[N] <= close /\ White(b.text, pos[N], close)
      /\ b.text[close + 1] = Close[d.type] /\ close < Len(b.text)
      /\ \A m \in 1..N : Piece(b.text, d.kids[m], d.type = "Object", TextOf[d.kids[m]][format][depth + 1],
                               m < N, pos[m - 1], pos[m])
  BY Zenon DEF LaidOut
<1> HIDE DEF r, after
<1>5. CASE ~v.ok
  <2>1. d.kids[k] \notin Nested[n] \/ b.luck < sum[k]
    BY <1>2, <1>5, Zenon DEF Came
  <2>2. (\E m \in 1..N : d.kids[m] \notin Nested[n]) \/ b.luck < sum[N]
    <3>1. CASE d.kids[k] \notin Nested[n]
      BY <1>3, <3>1, Zenon
    <3>2. CASE b.luck < sum[k]
      <4>1. b.luck \in Nat
        BY SoundIs
      <4> QED
        BY <1>2, <3>2, <4>1
    <3> QED
      BY <2>1, <3>1, <3>2
  <2>3. ~r.ok
    BY <1>1, <1>5 DEF Loop
  <2> QED
    BY <2>2, <2>3, Zenon DEF Listing, r
<1>6. CASE v.ok
  <2>1. v.item = akids[k] /\ Reached(b, end, sum[k], v.b)
    BY <1>2, <1>6, Zenon DEF Came
  <2>2. w.ok /\ w.b = after /\ w.item = v.item
    BY DEF Yes
  <2> HIDE DEF w, sees
  <2>3. r.ok /\ r.b = after /\ (r.more <=> sees) /\ r.item = Append(kids, akids[k])
    BY <1>1, <1>6, <2>1, <2>2 DEF Loop
  <2>4. r.item = SubSeq(akids, 1, k)
    <3>1. SubSeq(akids, 1, j + 1) = Append(kids, akids[j + 1])
      BY PrefixAppended
    <3> QED
      BY <1>2, <2>3, <3>1, Zenon
  <2>5. /\ Reached(b, after.offset, sum[k], after) /\ (sees <=> k < N)
        /\ Ahead(b.text, d, format, depth, pos, close, k, after.offset)
    <3>1. CASE k < N
      <4>1. b.text[end + 1] = Comma /\ end + 1 <= pos[k] /\ White(b.text, end + 1, pos[k])
        BY <1>2, <3>1, Zenon DEF Over
      <4>2. b.text[end + 1] > 32
        BY <4>1 DEF Comma
      <4>3. White(b.text, end, end) /\ end <= end
        BY NothingWhite
      <4>4. Reached(b, end, sum[k], after)
        BY <1>2, <2>1, <4>2, <4>3, SkipReaches, Zenon DEF after
      <4>5. after.offset = end /\ after.text = b.text
        BY <4>4, Zenon DEF Reached
      <4>6. sees
        <5>1. after.offset < Len(after.text)
          BY <4>5, Zenon
        <5>2. ByteAt(after, after.offset) = Comma
          BY <4>1, <4>5, Zenon DEF ByteAt
        <5> QED
          BY <5>1, <5>2, Zenon DEF Sees, CanAccess, sees
      <4>7. PICK m \in 1..N : m = k + 1 /\ m - 1 = k
        BY <1>3, <3>1
      <4>8. PICK kid : kid = d.kids[m]
        OBVIOUS
      <4>9. PICK s : s = TextOf[kid][format][depth + 1]
        OBVIOUS
      <4>10. Piece(b.text, kid, d.type = "Object", s, m < N, pos[k], pos[m])
        BY <1>4, <4>7, <4>8, <4>9, Zenon
      <4>11. pos[k] \in Nat /\ pos[m] \in Nat /\ end + 1 \in Nat
        <5>1. k \in 0..N /\ m \in 0..N /\ end + 1 \in Nat
          BY <1>3
        <5>2. pos \in [0..N -> Nat]
          BY <1>4
        <5> QED
          BY <5>1, <5>2
      <4>12. Piece(b.text, kid, d.type = "Object", s, m < N, end + 1, pos[m])
        BY <1>3, <4>1, <4>10, <4>11, PieceSooner, Zenon
      <4>13. Ahead(b.text, d, format, depth, pos, close, k, end)
        BY <3>1, <4>7, <4>8, <4>9, <4>12, Zenon DEF Ahead
      <4> QED
        BY <3>1, <4>4, <4>5, <4>6, <4>13, Zenon
    <3>2. CASE ~(k < N)
      <4>1. k = N
        BY <1>3, <3>2
      <4>2. end <= pos[N] /\ White(b.text, end, pos[N])
        BY <1>2, <3>2, <4>1, Zenon DEF Over
      <4>3. pos[N] \in Nat
        BY <1>3, <1>4
      <4>4. White(b.text, end, close) /\ end <= close
        <5>1. White(b.text, end, close)
          BY <1>3, <1>4, <4>2, <4>3, WhiteOn, Zenon
        <5> QED
          BY <1>4, <4>2, <4>3, <5>1
      <4>5. Close[d.type] > 32 /\ Close[d.type] # Comma
        BY DEF Close, Open, Comma
      <4>6. b.text[close + 1] > 32
        BY <1>4, <4>5
      <4>7. Reached(b, close, sum[k], after)
        BY <1>2, <1>4, <2>1, <4>4, <4>6, SkipReaches, Zenon DEF after
      <4>8. after.offset = close /\ after.text = b.text
        BY <4>7, Zenon DEF Reached
      <4>9. ~sees
        <5>1. ByteAt(after, after.offset) = Close[d.type]
          BY <1>4, <4>8, Zenon DEF ByteAt
        <5> QED
          BY <4>5, <5>1, Zenon DEF Sees, sees
      <4>10. Ahead(b.text, d, format, depth, pos, close, k, close)
        BY <3>2, Zenon DEF Ahead
      <4> QED
        BY <3>2, <4>7, <4>8, <4>9, <4>10, Zenon
    <3> QED
      BY <3>1, <3>2
  <2>6. Listing(b, d, format, depth, pos, close, akids, sum, n, k, r)
    BY <2>3, <2>4, <2>5, Zenon DEF Listing
  <2> QED
    BY <1>2, <2>6, Zenon DEF r
<1> QED
  BY <1>5, <1>6

\* A literal starts with a quote.
LEMMA LiteralStands ==
  ASSUME NEW t, Len(t) \in Nat, NEW at \in Nat, NEW input \in CharPointer, Stands(t, at, Literal(input))
  PROVE  t[at + 1] = Quote
<1>1. PICK string : string = IF input = NoText THEN <<>> ELSE input
  OBVIOUS
<1>2. PICK inner \in Seq(Character) : inner = Spelled(string)
  BY <1>1, LiteralSpelled
<1>3. PICK sign \in Seq(Character) : sign = <<Quote>>
  BY Signs
<1>4. PICK front \in Seq(Character) : front = sign \o inner
  BY JoinStarts, Zenon
<1>5. Literal(input) = <<Quote>> \o Spelled(string) \o <<Quote>>
  BY <1>1, LiteralSpelled
<1>6. Literal(input) = front \o sign
  BY <1>2, <1>3, <1>4, <1>5, Zenon
<1>7. Stands(t, at, front)
  BY <1>6, StandsApart, Zenon
<1>8. Stands(t, at, sign)
  BY <1>4, <1>7, StandsApart, Zenon
<1>9. Stands(t, at, <<Quote>>)
  BY <1>3, <1>8, Zenon
<1> QED
  BY <1>9, SignStands, Zenon

\* The signs behind an entry end a number.
LEMMA SignsEnd ==
  /\ Comma \notin NumberByte /\ NewLine \notin NumberByte
  /\ \A type \in DOMAIN Open : Close[type] \notin NumberByte
BY DEF Comma, NewLine, NumberByte, Digit, Minus, Close, Open

\* A round: an item is allocated, named in an object, and read.
LEMMA RoundOn ==
  ASSUME NEW b, Sound(b), NEW d \in Documents, d.type \in DOMAIN Open, NEW N, N = Len(d.kids),
         \A k \in 1..N : Readable(d.kids[k]),
         NEW format \in BOOLEAN, NEW depth \in Nat,
         NEW at, NEW pos, NEW close, LaidOut(b.text, d, format, depth, at, pos, close),
         NEW akids \in Seq(Documents), Len(akids) = N,
         NEW named \in BOOLEAN, named <=> d.type = "Object",
         \A k \in 1..N : akids[k] = Reread[d.kids[k]][named],
         NEW sum \in [0..N -> Nat], \A k \in 1..N : sum[k] = sum[k - 1] + BlocksOf[akids[k]] /\ sum[k] <= sum[N],
         NEW n, NEW value, Reader(value, n), b.depth + n = CJSON_NESTING_LIMIT,
         NEW j \in Nat, j < N, NEW list, Listing(b, d, format, depth, pos, close, akids, sum, n, j, list)
  PROVE  Listing(b, d, format, depth, pos, close, akids, sum, n, j + 1, parse_element(list, named, value))
<1> DEFINE new == Malloc(list.b)
           past == Step(new.b, 1)
           start == buffer_skip_whitespace(past)
           failed == [list EXCEPT !.ok = FALSE]
           r == parse_element(list, named, value)
<1>1. r = IF ~list.ok \/ ~list.more THEN list
          ELSE IF ~new.ok THEN failed
          ELSE IF named THEN parse_member(parse_string(start, NewItem), list.item, value)
          ELSE next_element(value[start][NewItem], list.item)
  BY Zenon DEF parse_element
<1>2. PICK k \in Nat : k = j + 1
  OBVIOUS
<1>3. N \in Nat /\ k \in 1..N /\ k - 1 = j /\ Len(b.text) \in Nat /\ b.luck \in Nat
      /\ d.kids[k] \in Documents
  <2>1. N \in Nat /\ \A m \in 1..N : d.kids[m] \in Documents
    BY ListText
  <2> QED
    BY <1>2, <2>1, SoundIs
<1>4. PICK kid \in Documents : kid = d.kids[k] /\ Readable(kid)
  BY <1>3
<1>5. PICK a \in Documents : a = akids[k] /\ a = Reread[kid][named]
  BY <1>3, <1>4
<1>6. PICK own \in Nat : own = BlocksOf[a]
  BY BlocksIs
<1>7. PICK had \in Nat : had = sum[j]
  OBVIOUS
<1>8. sum[k] = had + own /\ sum[k] <= sum[N] /\ sum[N] \in Nat /\ sum[k] \in Nat
  <2>1. sum[k] = sum[k - 1] + BlocksOf[akids[k]] /\ sum[k] <= sum[N]
    BY <1>3
  <2>2. sum[k] = had + own
    BY <1>3, <1>5, <1>6, <1>7, <2>1, Zenon
  <2> QED
    BY <1>3, <2>1, <2>2
<1>9. own >= 1
  <2>1. OwnBlocks(a) >= 1 /\ OwnBlocks(a) \in Nat
    BY OwnIs
  <2>2. PICK more \in Nat : more = SumOf(a.kids, BlocksOf)
    BY KidsSum
  <2>3. own = OwnBlocks(a) + more
    BY <1>6, <2>2, BlocksIs, Zenon
  <2> QED
    BY <2>1, <2>3
<1> HIDE DEF r, new, failed
<1>10. CASE ~list.ok
  <2>1. r = list
    BY <1>1, <1>10
  <2>2. Listing(b, d, format, depth, pos, close, akids, sum, n, k, list)
    BY <1>10, Zenon DEF Listing
  <2> QED
    BY <1>2, <2>1, <2>2, Zenon DEF r
<1>11. CASE list.ok
  <2>1. PICK from \in Nat : /\ from = list.b.offset /\ Reached(b, from, had, list.b)
                            /\ list.item = SubSeq(akids, 1, j)
                            /\ Ahead(b.text, d, format, depth, pos, close, j, from)
    <3>1. Reached(b, list.b.offset, sum[j], list.b)
      BY <1>11, Zenon DEF Listing
    <3>2. list.b.offset \in Nat
      BY <3>1, SoundIs DEF Reached
    <3> QED
      BY <1>7, <1>11, <3>1, <3>2, Zenon DEF Listing
  <2>2. list.more
    BY <1>11, Zenon DEF Listing
  <2>3. /\ new.ok => Reached(b, from, had + 1, new.b)
        /\ ~new.ok => b.luck < had + 1
    BY <2>1, MallocReaches, Zenon DEF new
  <2>4. CASE ~new.ok
    <3>1. r = failed
      BY <1>1, <1>11, <2>2, <2>4
    <3>2. ~failed.ok
      BY <1>11 DEF failed
    <3>3. b.luck < sum[N]
      BY <1>3, <1>8, <1>9, <2>3, <2>4
    <3>4. Listing(b, d, format, depth, pos, close, akids, sum, n, k, failed)
      BY <3>2, <3>3, Zenon DEF Listing
    <3> QED
      BY <1>2, <3>1, <3>4, Zenon DEF r
  <2>5. CASE new.ok
    <3>1. PICK s \in Seq(Character) : /\ s = TextOf[kid][format][depth + 1] /\ Len(s) >= 1 /\ s[1] > 32
      <4>1. depth + 1 \in Nat
        OBVIOUS
      <4> QED
        BY <1>4, <4>1, EntryText, Zenon
    <3>2. Piece(b.text, kid, d.type = "Object", s, k < N, from + 1, pos[k])
      BY <1>2, <1>4, <2>1, <3>1, Zenon DEF Ahead
    <3>3. PICK entry \in Nat, end \in Nat :
            /\ from + 1 <= entry /\ White(b.text, from + 1, entry) /\ entry < end
            /\ EntryAt(b.text, kid, d.type = "Object", s, entry, end)
            /\ Over(b.text, k < N, end, pos[k])
      BY <3>2, Zenon DEF Piece, Over
    <3>4. PICK first \in Nat : /\ Stands(b.text, first, s) /\ end = first + Len(s)
                               /\ IF named THEN NameAt(b.text, kid, entry, first) ELSE first = entry
      BY <3>3, Zenon DEF EntryAt
    <3>5. end < Len(b.text)
      BY <3>1, <3>4, StandsInside
    <3>6. b.text[end + 1] \notin NumberByte
      <4>1. Comma \notin NumberByte /\ NewLine \notin NumberByte /\ Close[d.type] \notin NumberByte
        BY SignsEnd
      <4>2. CASE k < N
        BY <3>3, <4>1, <4>2, Zenon DEF Over
      <4>3. CASE ~(k < N)
        <5>1. k = N /\ end <= pos[N] /\ White(b.text, end, pos[N]) /\ (end = pos[N] \/ b.text[end + 1] = NewLine)
          <6>1. k = N
            BY <1>3, <4>3
          <6> QED
            BY <3>3, <4>3, <6>1, Zenon DEF Over
        <5>2. CASE b.text[end + 1] = NewLine
          BY <4>1, <5>2, Zenon
        <5>3. CASE end = pos[N]
          <6>1. pos[N] <= close /\ White(b.text, pos[N], close) /\ b.text[close + 1] = Close[d.type] /\ close \in Nat
            BY Zenon DEF LaidOut
          <6>2. end <= close /\ White(b.text, end, close)
            BY <5>3, <6>1, Zenon
          <6>3. CASE end = close
            BY <4>1, <6>1, <6>3, Zenon
          <6>4. CASE end # close
            <7>1. end < end + 1 /\ end + 1 <= close /\ end + 1 \in 1..Len(b.text)
              <8>1. PICK L \in Nat : L = Len(b.text)
                BY <1>3
              <8>2. end < L
                BY <3>5, <8>1, Zenon
              <8>3. end < end + 1 /\ end + 1 <= close /\ end + 1 \in 1..L
                BY <6>1, <6>2, <6>4, <8>2
              <8> QED
                BY <8>1, <8>3, Zenon
            <7>2. b.text[end + 1] <= 32
              BY <6>2, <7>1, Zenon DEF White
            <7>3. \A c \in NumberByte : c > 32
              BY DEF NumberByte, Digit, Minus
            <7>4. b.text[end + 1] \in Nat
              <8>1. b.text \in Seq(Byte)
                BY SoundIs
              <8>2. b.text[end + 1] \in Byte
                BY <7>1, <8>1
              <8>3. Byte \subseteq Nat
                BY DEF Byte
              <8> QED
                BY <8>2, <8>3, Zenon
            <7> QED
              BY <7>2, <7>3, <7>4
          <6> QED
            BY <6>3, <6>4
        <5> QED
          BY <5>1, <5>2, <5>3
      <4> QED
        BY <4>2, <4>3
    <3>7. Reached(b, from + 1, had + 1, past)
      BY <2>3, <2>5, StepReaches
    <3>8. /\ b.text[entry + 1] > 32 /\ entry < Len(b.text)
      <4>1. entry < Len(b.text)
        BY <1>3, <3>3, <3>5
      <4>2. CASE named
        <5>1. Stands(b.text, entry, Literal(kid.string))
          BY <3>4, <4>2, Zenon DEF NameAt
        <5>2. kid.string \in CharPointer
          <6>1. kid \in Nested[Levels] /\ Levels \in 0..Levels
            BY LevelsAssumption DEF Documents
          <6> QED
            BY <6>1, ItemIs
        <5>3. b.text[entry + 1] = Quote
          BY <1>3, <5>1, <5>2, LiteralStands
        <5> QED
          BY <4>1, <5>3 DEF Quote
      <4>3. CASE ~named
        <5>1. b.text[first + 1] = s[1] /\ first = entry
          BY <1>3, <3>1, <3>4, <4>3, StandsTo
        <5> QED
          BY <3>1, <4>1, <5>1
      <4> QED
        BY <4>2, <4>3
    <3> HIDE DEF past
    <3>9. Reached(b, entry, had + 1, start)
      <4>1. from + 1 \in Nat
        OBVIOUS
      <4> QED
        BY <3>3, <3>7, <3>8, <4>1, SkipReaches, Zenon
    <3> HIDE DEF start
    <3>10. depth + 1 \in Nat
      OBVIOUS
    <3>11. CameNext(b, end, had + BlocksOf[a], a, kid \notin Nested[n], list.item, r)
      <4>1. CASE named
        <5>1. r = parse_member(parse_string(start, NewItem), list.item, value)
          BY <1>1, <1>11, <2>2, <2>5, <4>1
        <5>2. NameAt(b.text, kid, entry, first)
          BY <3>4, <4>1
        <5>3. PICK deeper \in Nat : deeper = depth + 1
          BY <3>10
        <5>4. s = TextOf[kid][format][deeper]
          BY <3>1, <5>3, Zenon
        <5>5. PICK kids : kids = list.item
          OBVIOUS
        <5>6. CameNext(b, end, had + BlocksOf[a], a, kid \notin Nested[n], kids,
                       parse_member(parse_string(start, NewItem), kids, value))
          <6>1. TextAt(b, kid, format, deeper, first, end)
            BY <1>4, <3>4, <3>5, <3>6, <5>4, Zenon DEF TextAt
          <6>2. Reading(b, value, n)
            BY DEF Reading
          <6> QED
            BY ONLY <1>5, <3>9, <4>1, <5>2, <6>1, <6>2, MemberCameAt, Zenon
        <5> QED
          BY <5>1, <5>5, <5>6, Zenon
      <4>2. CASE ~named
        <5>1. r = next_element(value[start][NewItem], list.item)
          BY <1>1, <1>11, <2>2, <2>5, <4>2
        <5>2. NewItem \in NewItems /\ BlocksOf[NewItem] = 1 /\ NewItem.string = NoText
          BY NewItemIs DEF NewItem
        <5>3. a.string = NoText
          BY <1>5, <4>2, AgainIs
        <5>4. first = entry
          BY <3>4, <4>2
        <5>5. Stands(b.text, entry, s) /\ end = entry + Len(s)
          BY <3>4, <5>4, Zenon
        <5>6. NewItem.string = a.string /\ 1 = BlocksOf[NewItem]
          BY <5>2, <5>3
        <5>7. Came(b, end, had + BlocksOf[a], a, kid \notin Nested[n], value[start][NewItem])
          <6>1. PICK deeper \in Nat : deeper = depth + 1
            BY <3>10
          <6>2. s = TextOf[kid][format][deeper]
            BY <3>1, <6>1, Zenon
          <6> QED
            <7>1. TextAt(b, kid, format, deeper, entry, end)
              BY <1>4, <3>5, <3>6, <5>5, <6>2, Zenon DEF TextAt
            <7>2. Reading(b, value, n)
              BY DEF Reading
            <7> QED
              BY ONLY <1>5, <3>9, <5>2, <5>6, <7>1, <7>2, ValueCameAt, Zenon
        <5> QED
          BY <5>1, <5>7, Zenon DEF CameNext
      <4> QED
        BY <4>1, <4>2
    <3>12. PICK v : Came(b, end, had + BlocksOf[a], a, kid \notin Nested[n], v) /\ r = next_element(v, list.item)
      BY <3>11, Zenon DEF CameNext
    <3>13. Came(b, end, sum[j + 1], akids[j + 1], d.kids[j + 1] \notin Nested[n], v)
      <4>1. Came(b, end, sum[k], akids[k], d.kids[k] \notin Nested[n], v)
        BY <1>4, <1>5, <1>6, <1>8, <3>12, Zenon
      <4> QED
        BY <1>2, <4>1, Zenon
    <3>14. Over(b.text, j + 1 < N, end, pos[j + 1]) /\ sum[j + 1] \in Nat /\ sum[j + 1] <= sum[N]
      BY <1>2, <1>8, <3>3, Zenon
    <3>15. Listing(b, d, format, depth, pos, close, akids, sum, n, j + 1, next_element(v, SubSeq(akids, 1, j)))
      BY <1>8, <3>5, <3>13, <3>14, RoundEnds, Zenon
    <3> QED
      BY <2>1, <3>12, <3>15, Zenon DEF r
  <2> QED
    BY <2>4, <2>5
<1> QED
  BY <1>10, <1>11

\* What a sum of blocks has grown to at its end.
LEMMA SumsGrow ==
  ASSUME NEW N \in Nat, NEW sum \in [0..N -> Nat], \A k \in 1..N : sum[k - 1] <= sum[k]
  PROVE  \A k \in 0..N : sum[k] <= sum[N]
<1> DEFINE T == {m \in 0..N : sum[N - m] <= sum[N]}
<1>1. 0 \in T
  <2>1. 0 \in 0..N /\ N - 0 = N /\ N \in 0..N
    OBVIOUS
  <2>2. sum[N] \in Nat
    BY <2>1
  <2> QED
    BY <2>1, <2>2
<1>2. ASSUME NEW m \in 1..N, m - 1 \in T
      PROVE  m \in T
  <2>1. PICK k \in 1..N : k = N - (m - 1)
    OBVIOUS
  <2>2. N - m = k - 1 /\ m \in 0..N
    BY <2>1
  <2>3. sum[k] <= sum[N] /\ sum[k - 1] <= sum[k]
    BY <1>2, <2>1
  <2>4. sum[k] \in Nat /\ sum[k - 1] \in Nat /\ sum[N] \in Nat
    <3>1. k \in 0..N /\ k - 1 \in 0..N /\ N \in 0..N
      OBVIOUS
    <3> QED
      BY <3>1
  <2>5. sum[k - 1] <= sum[N]
    BY <2>3, <2>4
  <2> QED
    BY <2>2, <2>5
<1>3. 0..N \subseteq T
  <2> HIDE DEF T
  <2> QED
    BY <1>1, <1>2, ClimbTo
<1> TAKE k \in 0..N
<1>4. N - k \in 0..N /\ N - (N - k) = k
  OBVIOUS
<1> QED
  BY <1>3, <1>4

\* There is a byte for each item of a list.
LEMMA LaidLength ==
  ASSUME NEW t, Len(t) \in Nat, NEW d, NEW N \in Nat, N = Len(d.kids), NEW format, NEW depth, NEW at, NEW pos,
         NEW close, LaidOut(t, d, format, depth, at, pos, close)
  PROVE  N < Len(t)
<1>1. /\ pos \in [0..N -> Nat] /\ close \in Nat /\ pos[N] <= close /\ close < Len(t)
      /\ \A k \in 1..N : Piece(t, d.kids[k], d.type = "Object", TextOf[d.kids[k]][format][depth + 1],
                               k < N, pos[k - 1], pos[k])
  BY Zenon DEF LaidOut
<1> DEFINE T == {k \in 0..N : k <= pos[k]}
<1>2. 0 \in T
  BY <1>1
<1>3. ASSUME NEW k \in 1..N, k - 1 \in T
      PROVE  k \in T
  <2>1. PICK entry \in Nat, end \in Nat : pos[k - 1] <= entry /\ entry < end /\ end <= pos[k]
    BY <1>1 DEF Piece
  <2>2. k \in 0..N /\ k - 1 \in 0..N
    OBVIOUS
  <2>3. pos[k] \in Nat /\ pos[k - 1] \in Nat
    BY <1>1, <2>2
  <2>4. k - 1 <= pos[k - 1]
    BY <1>3
  <2>5. k <= pos[k]
    BY <2>1, <2>3, <2>4
  <2> QED
    BY <2>2, <2>5
<1>4. 0..N \subseteq T
  <2> HIDE DEF T
  <2> QED
    BY <1>2, <1>3, ClimbTo
<1>5. N \in 0..N
  OBVIOUS
<1>6. N <= pos[N] /\ pos[N] \in Nat
  BY <1>1, <1>4, <1>5
<1> QED
  BY <1>1, <1>6

\* The items of a list that come back, and what they take.
Due(d, named, akids, sum) ==
  /\ akids \in Seq(Documents) /\ Len(akids) = Len(d.kids) /\ sum \in [0..Len(d.kids) -> Nat] /\ sum[0] = 0
  /\ \A k \in 1..Len(d.kids) : akids[k] = Reread[d.kids[k]][named]
  /\ \A k \in 1..Len(d.kids) : sum[k] = sum[k - 1] + BlocksOf[akids[k]] /\ sum[k] <= sum[Len(d.kids)]

\* A round of a list that is on its way.
LEMMA RoundDue ==
  ASSUME NEW n, NEW value, NEW b, Reading(b, value, n), NEW d \in Documents, d.type \in DOMAIN Open,
         \A k \in 1..Len(d.kids) : Readable(d.kids[k]), NEW format \in BOOLEAN, NEW depth \in Nat,
         NEW at, NEW pos, NEW close, LaidOut(b.text, d, format, depth, at, pos, close),
         NEW named \in BOOLEAN, named <=> d.type = "Object", NEW akids, NEW sum, Due(d, named, akids, sum),
         NEW j \in Nat, j < Len(d.kids), NEW list, Listing(b, d, format, depth, pos, close, akids, sum, n, j, list)
  PROVE  Listing(b, d, format, depth, pos, close, akids, sum, n, j + 1, parse_element(list, named, value))
<1>1. PICK N : N = Len(d.kids)
  OBVIOUS
<1>2. Reader(value, n) /\ Sound(b) /\ b.depth + n = CJSON_NESTING_LIMIT
  BY DEF Reading
<1>3. /\ akids \in Seq(Documents) /\ Len(akids) = N /\ sum \in [0..N -> Nat]
      /\ \A k \in 1..N : akids[k] = Reread[d.kids[k]][named]
      /\ \A k \in 1..N : sum[k] = sum[k - 1] + BlocksOf[akids[k]] /\ sum[k] <= sum[N]
  BY <1>1, Zenon DEF Due
<1>4. /\ d \in Documents /\ d.type \in DOMAIN Open /\ format \in BOOLEAN /\ depth \in Nat /\ j \in Nat
      /\ LaidOut(b.text, d, format, depth, at, pos, close)
      /\ Listing(b, d, format, depth, pos, close, akids, sum, n, j, list)
  OBVIOUS
<1>5. j < N
  BY <1>1, Zenon
<1>6. \A k \in 1..N : Readable(d.kids[k])
  BY <1>1, Zenon
<1>7. named \in BOOLEAN /\ (named <=> d.type = "Object")
  OBVIOUS
<1> QED
  BY ONLY <1>1, <1>2, <1>3, <1>4, <1>5, <1>6, <1>7, RoundOn

\* A list that is at its end stays there.
LEMMA RoundStill ==
  ASSUME NEW list, ~list.ok \/ ~list.more, NEW named, NEW value
  PROVE  parse_element(list, named, value) = list
BY DEF parse_element

\* All rounds over a list.
LEMMA ListRead ==
  ASSUME NEW n \in 0..Levels, NEW value, Parser(value, n, Nested[n]), NEW b, Reading(b, value, n), Inside(b),
         NEW d \in Documents, d.type \in DOMAIN Open, Len(d.kids) # 0,
         \A k \in 1..Len(d.kids) : Readable(d.kids[k]), NEW format \in BOOLEAN, NEW depth \in Nat,
         NEW at, NEW pos, NEW close, LaidOut(b.text, d, format, depth, at, pos, close),
         Ahead(b.text, d, format, depth, pos, close, 0, b.offset),
         NEW named \in BOOLEAN, named <=> d.type = "Object", NEW akids, NEW sum, Due(d, named, akids, sum)
  PROVE  Listing(b, d, format, depth, pos, close, akids, sum, n, Len(d.kids), parse_list(b, named, value))
<1>1. PICK N \in Nat : N = Len(d.kids)
  <2>1. PICK m : m = Len(d.kids)
    OBVIOUS
  <2>2. PICK s : s = TextOf[d][format][depth]
    OBVIOUS
  <2>3. m \in Nat
    BY <2>1, <2>2, ListText, Zenon
  <2> QED
    BY <2>1, <2>3
<1>2. PICK L \in Nat : L = Len(b.text)
  BY SoundIs DEF Reading
<1>3. N < L
  <2>1. N < Len(b.text)
    BY <1>1, <1>2, LaidLength, Zenon
  <2> QED
    BY <1>2, <2>1
<1>4. Sound(b) /\ b.depth + n = CJSON_NESTING_LIMIT /\ b.offset \in Nat /\ b.luck \in Nat
  BY SoundIs DEF Reading
<1>5. PICK rounds : ListRounds(rounds, b, named, value) /\ parse_list(b, named, value) = rounds[L]
  <2>1. \E rounds : /\ ListRounds(rounds, b, named, value)
                    /\ parse_list(b, named, value) = rounds[Len(b.text)]
                    /\ Listed(b, Nested[n], rounds[Len(b.text)])
    BY <1>4, ListBy
  <2> QED
    BY <1>2, <2>1, Zenon
<1> DEFINE base == [ok |-> TRUE, b |-> b, more |-> TRUE, item |-> <<>>]
<1>6. rounds = [k \in 0..L |-> IF k = 0 THEN base ELSE parse_element(rounds[k - 1], named, value)]
  BY <1>2, <1>5, Zenon DEF ListRounds
<1>7. base.ok /\ base.b = b /\ base.more /\ base.item = <<>>
  OBVIOUS
<1> HIDE DEF base
<1>8. rounds[0] = base /\ \A k \in 1..L : rounds[k] = parse_element(rounds[k - 1], named, value)
  <2>1. \A k \in 0..L : rounds[k] = IF k = 0 THEN base ELSE parse_element(rounds[k - 1], named, value)
    BY <1>6, Zenon
  <2>2. 0 \in 0..L /\ \A k \in 1..L : k \in 0..L /\ k # 0
    OBVIOUS
  <2> QED
    BY <2>1, <2>2, Zenon
<1> DEFINE Right(j, list) == Listing(b, d, format, depth, pos, close, akids, sum, n, j, list)
<1>9. Right(0, base)
  <2>1. SubSeq(akids, 1, 0) = <<>>
    <3>1. akids \in Seq(Documents)
      BY DEF Due
    <3> QED
      BY <3>1
  <2>2. sum[0] = 0
    BY DEF Due
  <2>3. Reached(b, b.offset, sum[0], b)
    BY <1>4, <2>2, ReachedHere
  <2>4. 0 < Len(d.kids)
    BY <1>1
  <2> QED
    BY <1>7, <2>1, <2>3, <2>4, Zenon DEF Listing
<1>10. ASSUME NEW j \in Nat, j < N, NEW list, Right(j, list)
       PROVE  Right(j + 1, parse_element(list, named, value))
  <2>1. j < Len(d.kids)
    BY <1>1, <1>10
  <2>2. /\ Reading(b, value, n) /\ d \in Documents /\ d.type \in DOMAIN Open /\ format \in BOOLEAN
        /\ depth \in Nat /\ LaidOut(b.text, d, format, depth, at, pos, close) /\ named \in BOOLEAN
        /\ Due(d, named, akids, sum) /\ j \in Nat
    OBVIOUS
  <2>3. (named <=> d.type = "Object") /\ (\A k \in 1..Len(d.kids) : Readable(d.kids[k]))
    OBVIOUS
  <2>4. Listing(b, d, format, depth, pos, close, akids, sum, n, j, list)
    BY <1>10
  <2>5. Listing(b, d, format, depth, pos, close, akids, sum, n, j + 1, parse_element(list, named, value))
    BY ONLY <2>1, <2>2, <2>3, <2>4, RoundDue
  <2> QED
    BY <2>5
<1>11. ASSUME NEW list, Right(N, list)
       PROVE  parse_element(list, named, value) = list
  <2>1. ~list.ok \/ ~list.more
    <3>1. ~(N < Len(d.kids))
      BY <1>1
    <3> QED
      BY <1>11, <3>1, Zenon DEF Listing
  <2> QED
    BY <2>1, RoundStill
<1> HIDE DEF Right
<1> DEFINE T == {k \in 0..L : Right(IF k < N THEN k ELSE N, rounds[k])}
<1>12. 0 \in T
  <2>1. (IF 0 < N THEN 0 ELSE N) = 0
    BY <1>1
  <2> QED
    BY <1>8, <1>9, <2>1
<1>13. ASSUME NEW k \in 1..L, k - 1 \in T
       PROVE  k \in T
  <2>1. k \in 0..L /\ k - 1 \in Nat /\ rounds[k] = parse_element(rounds[k - 1], named, value)
    BY <1>8
  <2>2. CASE k - 1 < N
    <3>1. (IF k - 1 < N THEN k - 1 ELSE N) = k - 1 /\ (k - 1) + 1 = k /\ (IF k < N THEN k ELSE N) = k
      BY <2>2
    <3>2. Right(k - 1, rounds[k - 1])
      BY <1>13, <3>1
    <3>3. Right((k - 1) + 1, rounds[k])
      BY <1>10, <2>1, <2>2, <3>2
    <3>4. Right(k, rounds[k])
      BY <3>1, <3>3, Zenon
    <3> QED
      BY <2>1, <3>1, <3>4
  <2>3. CASE ~(k - 1 < N)
    <3>1. (IF k - 1 < N THEN k - 1 ELSE N) = N /\ (IF k < N THEN k ELSE N) = N
      BY <2>3
    <3>2. Right(N, rounds[k - 1])
      BY <1>13, <3>1
    <3>3. rounds[k] = rounds[k - 1]
      BY <1>11, <2>1, <3>2
    <3> QED
      BY <2>1, <3>1, <3>2, <3>3
  <2> QED
    BY <2>2, <2>3
<1>14. 0..L \subseteq T
  <2> HIDE DEF T
  <2> QED
    BY <1>12, <1>13, ClimbTo
<1>15. Right(N, rounds[L])
  <2>1. L \in 0..L /\ (IF L < N THEN L ELSE N) = N
    BY <1>3
  <2> QED
    BY <1>14, <2>1
<1> QED
  BY <1>1, <1>5, <1>15, Zenon DEF Right

(***************************************************************************)
(* A list is read again                                                    *)
(***************************************************************************)

\* The buffer in a list is one level further down.
Deeper(b, c) == Sound(c) /\ c.text = b.text /\ c.depth = b.depth + 1 /\ c.offset = b.offset /\ c.luck = b.luck

\* A list is read one level deeper.
LEMMA GoneDeeper ==
  ASSUME NEW b, Sound(b)
  PROVE  Deeper(b, [b EXCEPT !.depth = @ + 1])
<1> DEFINE c == [b EXCEPT !.depth = @ + 1]
<1>1. b \in ParseBuffer /\ b.depth \in Nat
  BY SoundIs DEF Sound
<1>2. b.depth + 1 \in Nat
  BY <1>1
<1>3. /\ c \in ParseBuffer /\ c.text = b.text /\ c.depth = b.depth + 1 /\ c.offset = b.offset
      /\ c.luck = b.luck /\ c.overrun = b.overrun
  BY <1>1, <1>2 DEF ParseBuffer
<1> QED
  BY <1>3 DEF Deeper, Sound

\* Back on the level of the list.
LEMMA ComeBack ==
  ASSUME NEW b, Sound(b), NEW c, Deeper(b, c), NEW to, NEW blocks, NEW end, Reached(c, to, blocks, end)
  PROVE  Reached(b, to, blocks, [end EXCEPT !.depth = @ - 1])
<1> DEFINE out == [end EXCEPT !.depth = @ - 1]
<1>1. /\ Sound(end) /\ end.text = b.text /\ end.depth = b.depth + 1 /\ end.offset = to
      /\ end.luck + blocks = b.luck /\ b.depth \in Nat
  BY SoundIs DEF Deeper, Reached
<1>2. end \in ParseBuffer /\ end.depth - 1 = b.depth
  BY <1>1 DEF Sound
<1>3. /\ out \in ParseBuffer /\ out.text = end.text /\ out.depth = b.depth /\ out.offset = end.offset
      /\ out.luck = end.luck /\ out.overrun = end.overrun
  BY <1>1, <1>2 DEF ParseBuffer
<1> QED
  BY <1>1, <1>3 DEF Reached, Sound

\* The bracket at the end of a list.
LEMMA ClosedRead ==
  ASSUME NEW b, Sound(b), NEW c, Deeper(b, c), NEW it \in NewItems, NEW a, it.string = a.string,
         a = [type |-> a.type, string |-> a.string, val |-> a.val, kids |-> a.kids], a.val = NoText,
         NEW type, type = a.type, NEW close \in Nat, b.text[close + 1] = Close[type], close < Len(b.text),
         NEW s, close + 1 = b.offset + Len(s), NEW total, NEW deep, NEW list,
         list.ok => list.item = a.kids /\ Reached(c, close, total, list.b),
         ~list.ok => deep \/ b.luck < total
  PROVE  Taken(b, s, a, total, deep, close_container(list, it, type))
<1> DEFINE v == close_container(list, it, type)
           past == Step(list.b, 1)
           out == [past EXCEPT !.depth = @ - 1]
           new == [it EXCEPT !.type = type, !.kids = list.item]
           refused == No(DeleteList(list.b, list.item), it)
<1>1. v = IF list.ok /\ Sees(list.b, Close[type]) THEN Yes(out, new) ELSE refused
  BY Zenon DEF close_container
<1>2. CASE ~list.ok
  <2>1. v = refused
    BY <1>1, <1>2
  <2>2. ~v.ok
    BY <2>1 DEF No
  <2> HIDE DEF v
  <2> QED
    BY <1>2, <2>2, Zenon DEF Taken, v
<1>3. CASE list.ok
  <2>1. list.item = a.kids /\ Reached(c, close, total, list.b)
    BY <1>3
  <2>2. list.b.text = b.text /\ list.b.offset = close
    BY <2>1 DEF Reached, Deeper
  <2>3. Sees(list.b, Close[type])
    BY <2>2 DEF Sees, CanAccess, ByteAt
  <2>4. v = Yes(out, new)
    BY <1>1, <1>3, <2>3
  <2>5. new = a
    BY <2>1, Made
  <2>6. Reached(c, close + 1, total, past)
    BY <2>1, StepReaches
  <2> HIDE DEF past
  <2>7. Reached(b, close + 1, total, out)
    BY <2>6, ComeBack
  <2> HIDE DEF new, out
  <2>8. v.ok /\ v.b = out /\ v.item = a
    BY <2>4, <2>5 DEF Yes
  <2> HIDE DEF v
  <2>9. Reached(b, b.offset + Len(s), total, v.b)
    BY <2>7, <2>8, Zenon
  <2> QED
    BY <2>8, <2>9, Zenon DEF Taken, v
<1> QED
  BY <1>2, <1>3

\* Where the first item of a list starts.
LEMMA FirstEntry ==
  ASSUME NEW t, Len(t) \in Nat, NEW d \in Documents, d.type \in DOMAIN Open, NEW N, N = Len(d.kids), N # 0,
         Readable(d.kids[1]), NEW format \in BOOLEAN, NEW depth \in Nat, NEW at \in Nat, NEW pos, NEW close,
         LaidOut(t, d, format, depth, at, pos, close), NEW kid, kid = d.kids[1],
         NEW s, s = TextOf[kid][format][depth + 1]
  PROVE  \E entry \in Nat :
           /\ at + 1 <= entry /\ White(t, at + 1, entry) /\ entry < Len(t)
           /\ t[entry + 1] > 32 /\ t[entry + 1] # Close[d.type]
           /\ Piece(t, kid, d.type = "Object", s, 1 < N, entry, pos[1])
<1>1. N \in Nat /\ 1 \in 1..N /\ 0 \in 0..N /\ 1 \in 0..N /\ 1 - 1 = 0 /\ kid \in Documents
  <2>1. PICK w : w = TextOf[d][format][depth]
    OBVIOUS
  <2>2. N \in Nat /\ \A k \in 1..N : d.kids[k] \in Documents
    BY <2>1, ListText
  <2> QED
    BY <2>2
<1>2. /\ pos \in [0..N -> Nat] /\ close \in Nat /\ close < Len(t) /\ at + 1 <= pos[0] /\ White(t, at + 1, pos[0])
      /\ \A k \in 1..N : Piece(t, d.kids[k], d.type = "Object", TextOf[d.kids[k]][format][depth + 1],
                               k < N, pos[k - 1], pos[k])
  BY Zenon DEF LaidOut
<1>3. Piece(t, kid, d.type = "Object", s, 1 < N, pos[0], pos[1])
  BY <1>1, <1>2, Zenon
<1>4. pos[0] \in Nat /\ pos[1] \in Nat /\ at + 1 \in Nat
  BY <1>1, <1>2
<1>5. Piece(t, kid, d.type = "Object", s, 1 < N, at + 1, pos[1])
  BY <1>2, <1>3, <1>4, PieceSooner, Zenon
<1>6. PICK entry \in Nat, end \in Nat :
        /\ at + 1 <= entry /\ White(t, at + 1, entry) /\ entry < end /\ end <= pos[1]
        /\ EntryAt(t, kid, d.type = "Object", s, entry, end)
        /\ 1 < N => t[end + 1] = Comma /\ end + 1 <= pos[1] /\ White(t, end + 1, pos[1])
        /\ ~(1 < N) => White(t, end, pos[1]) /\ (end = pos[1] \/ t[end + 1] = NewLine)
  BY <1>5, Zenon DEF Piece
<1>7. PICK start \in Nat : /\ Stands(t, start, s) /\ end = start + Len(s)
                           /\ IF d.type = "Object" THEN NameAt(t, kid, entry, start) ELSE start = entry
  BY <1>6, Zenon DEF EntryAt
<1>8. Piece(t, kid, d.type = "Object", s, 1 < N, entry, pos[1])
  <2>1. entry <= entry /\ White(t, entry, entry)
    BY NothingWhite
  <2> QED
    BY <1>6, <2>1, Zenon DEF Piece
<1>9. /\ s \in Seq(Character) /\ Len(s) >= 1 /\ s[1] > 32 /\ s[1] \notin {Close.Array, Close.Object}
  <2>1. kid.type \notin {"Raw", "Invalid"}
    <3>1. kid \in Within[kid]
      BY <1>1, MeaningIs
    <3> QED
      BY <3>1 DEF Readable
  <2>2. PICK deeper \in Nat : deeper = depth + 1
    OBVIOUS
  <2>3. s = TextOf[kid][format][deeper]
    BY <2>2, Zenon
  <2>4. format \in BOOLEAN /\ kid \in Documents
    BY <1>1
  <2> QED
    BY ONLY <2>1, <2>2, <2>3, <2>4, TextStartsWith
<1>10. start < end /\ end <= Len(t) /\ t[start + 1] = s[1]
  BY <1>7, <1>9, StandsTo, Zenon
<1>11. entry < Len(t)
  BY <1>6, <1>10
<1>12. t[entry + 1] > 32 /\ t[entry + 1] # Close[d.type]
  <2>1. CASE d.type = "Object"
    <3>1. Stands(t, entry, Literal(kid.string))
      BY <1>7, <2>1, Zenon DEF NameAt
    <3>2. kid.string \in CharPointer
      <4>1. kid \in Nested[Levels] /\ Levels \in 0..Levels
        BY <1>1, LevelsAssumption DEF Documents
      <4> QED
        BY <4>1, ItemIs
    <3>3. t[entry + 1] = Quote
      BY <3>1, <3>2, LiteralStands
    <3> QED
      BY <2>1, <3>3 DEF Quote, Close
  <2>2. CASE d.type = "Array"
    <3>1. t[entry + 1] = s[1]
      BY <1>7, <1>10, <2>2
    <3> QED
      BY <1>9, <2>2, <3>1 DEF Close
  <2> QED
    BY <2>1, <2>2 DEF Open
<1> QED
  BY <1>6, <1>8, <1>11, <1>12, Zenon

\* The items of a list can be read again if the list can.
LEMMA ReadableParts ==
  ASSUME NEW d \in Documents, Readable(d)
  PROVE  Worded(d) /\ \A k \in 1..Len(d.kids) : Readable(d.kids[k])
<1>1. Within[d] = {d} \cup UNION {Within[d.kids[k]] : k \in DOMAIN d.kids}
  BY MeaningIs
<1>2. DOMAIN d.kids = 1..Len(d.kids) /\ \A k \in 1..Len(d.kids) : d.kids[k] \in Documents
  <2>1. Levels \in 0..Levels /\ d \in Nested[Levels]
    BY LevelsAssumption DEF Documents
  <2>2. DOMAIN d.kids = 1..Len(d.kids)
    BY <2>1, KidsAre
  <2>3. CASE d.type \in DOMAIN Open
    <3>1. Levels # 0 /\ d.kids \in Seq(Nested[Levels - 1])
      BY <2>1, <2>3, ItemIs
    <3>2. Levels - 1 \in 0..Levels
      BY <3>1, LevelsAssumption
    <3>3. Nested[Levels - 1] \subseteq Documents
      BY <3>2, BlocksAre
    <3> QED
      BY <2>2, <3>1, <3>3
  <2>4. CASE d.type \notin DOMAIN Open
    <3>1. d.kids = <<>>
      BY <2>1, <2>4, ItemIs
    <3> QED
      BY <2>2, <3>1
  <2> QED
    BY <2>3, <2>4
<1>3. ASSUME NEW k \in 1..Len(d.kids)
      PROVE  Readable(d.kids[k]) /\ d.kids[k].type \notin {"Raw", "Invalid"}
  <2>1. Within[d.kids[k]] \subseteq Within[d]
    BY <1>1, <1>2
  <2>2. d.kids[k] \in Within[d.kids[k]]
    <3>1. d.kids[k] \in Documents
      BY <1>2
    <3>2. PICK kid \in Documents : kid = d.kids[k]
      BY <3>1
    <3>3. kid \in Within[kid]
      BY MeaningIs
    <3> QED
      BY <3>2, <3>3
  <2> QED
    BY <2>1, <2>2 DEF Readable
<1> QED
  BY <1>3 DEF Worded

\* What a list that comes back takes, besides the item that is there for it.
LEMMA KidsComeBack ==
  ASSUME NEW d \in Documents, d.type \in DOMAIN Open, NEW member \in BOOLEAN, NEW a, a = Reread[d][member],
         NEW it \in NewItems, it.string = a.string, NEW named, named = (d.type = "Object")
  PROVE  \E sum : Due(d, named, a.kids, sum) /\ BlocksOf[a] - BlocksOf[it] = sum[Len(d.kids)]
<1>1. /\ a.type = IF IsNaN(d) THEN "NULL" ELSE d.type
      /\ a.kids = [k \in DOMAIN d.kids |-> Reread[d.kids[k]][named]]
  <2>1. a.kids = [k \in DOMAIN d.kids |-> Reread[d.kids[k]][d.type = "Object"]]
    BY AgainIs
  <2>2. a.type = IF IsNaN(d) THEN "NULL" ELSE d.type
    BY AgainIs
  <2> QED
    BY <2>1, <2>2, Zenon
<1>2. a.type = d.type
  BY <1>1 DEF IsNaN, Open
<1>3. PICK N : N = Len(d.kids)
  OBVIOUS
<1>4. N \in Nat /\ DOMAIN d.kids = 1..N /\ \A k \in 1..N : d.kids[k] \in Documents
  <2>1. PICK s : s = TextOf[d][TRUE][0]
    OBVIOUS
  <2> QED
    BY <1>3, <2>1, ListText
<1>5. named \in BOOLEAN
  OBVIOUS
<1>6. \A k \in 1..N : Reread[d.kids[k]][named] \in Documents
  BY <1>4, <1>5, RereadIs
<1>7. PICK akids : akids = a.kids
  OBVIOUS
<1>8. akids \in Seq(Documents) /\ Len(akids) = N /\ \A k \in 1..N : akids[k] = Reread[d.kids[k]][named]
  <2>1. akids = [k \in 1..N |-> Reread[d.kids[k]][named]]
    BY <1>1, <1>4, <1>7, Zenon
  <2> DEFINE S == Documents
  <2>2. \A k \in 1..N : Reread[d.kids[k]][named] \in S
    BY <1>6
  <2> HIDE DEF S
  <2>3. akids \in Seq(S) /\ Len(akids) = N
    BY <1>4, <2>1, <2>2
  <2>4. \A k \in 1..N : akids[k] = Reread[d.kids[k]][named]
    BY <2>1, Zenon
  <2> QED
    BY <2>3, <2>4 DEF S
<1>9. \A e \in Documents : BlocksOf[e] \in Nat
  BY BlocksIs
<1>10. PICK sum \in [0..N -> Nat] : Sums(sum, akids, BlocksOf) /\ SumOf(akids, BlocksOf) = sum[N]
  <2>1. \E f \in [0..Len(akids) -> Nat] : Sums(f, akids, BlocksOf) /\ SumOf(akids, BlocksOf) = f[Len(akids)]
    BY <1>8, <1>9, SumIs
  <2> QED
    BY <1>8, <2>1, Zenon
<1>11. sum[0] = 0 /\ \A k \in 1..N : sum[k] = sum[k - 1] + BlocksOf[akids[k]]
  BY <1>8, <1>10, Zenon DEF Sums
<1>12. \A k \in 0..N : sum[k] <= sum[N]
  <2>1. ASSUME NEW k \in 1..N
        PROVE  sum[k - 1] <= sum[k]
    <3>1. k - 1 \in 0..N /\ k \in 0..N
      BY <1>4
    <3>2. PICK x \in Nat : x = sum[k - 1]
      BY <3>1
    <3>3. PICK y \in Nat : y = BlocksOf[akids[k]]
      <4>1. akids[k] \in Documents
        BY <1>6, <1>8
      <4> QED
        BY <1>9, <4>1
    <3>4. sum[k] = x + y
      BY <1>11, <3>2, <3>3, Zenon
    <3> QED
      BY <3>2, <3>4
  <2> QED
    BY <1>4, <2>1, SumsGrow
<1>13. \A k \in 1..N : sum[k] <= sum[N]
  <2>1. \A k \in 1..N : k \in 0..N
    BY <1>4
  <2> QED
    BY <1>12, <2>1
<1>14. Due(d, named, akids, sum)
  BY <1>3, <1>8, <1>10, <1>11, <1>13, Zenon DEF Due
<1>15. BlocksOf[a] - BlocksOf[it] = sum[N]
  <2>1. a \in Documents
    BY RereadIs
  <2>2. BlocksOf[a] = OwnBlocks(a) + SumOf(a.kids, BlocksOf)
    BY <2>1, BlocksIs
  <2>3. OwnBlocks(a) = BlocksOf[it]
    <3>1. a.type \notin {"String", "Raw"}
      BY <1>2 DEF Open
    <3>2. OwnBlocks(a) = 1 + (IF a.string # NoText THEN 1 ELSE 0)
      BY <3>1 DEF OwnBlocks
    <3>3. BlocksOf[it] = 1 + (IF it.string # NoText THEN 1 ELSE 0)
      BY NewIs
    <3> QED
      BY <3>2, <3>3
  <2>4. PICK own \in Nat : own = BlocksOf[it]
    BY NewIs
  <2>5. PICK rest \in Nat : rest = sum[N]
    BY <1>4
  <2>6. BlocksOf[a] = own + rest
    BY <1>7, <1>10, <2>2, <2>3, <2>4, <2>5, Zenon
  <2>7. (own + rest) - own = rest
    OBVIOUS
  <2> QED
    BY <2>4, <2>5, <2>6, <2>7, Zenon
<1> QED
  BY <1>3, <1>7, <1>14, <1>15, Zenon

\* From inside of a list all of its items came, up to the closing bracket, or one of
\* them is too deep, or they take too many blocks.
ItemsCame(inside, d, n, value, named, c, close, akids, total) ==
  /\ ~Sees(inside, Close[d.type])
  /\ \E list : /\ list = parse_list(Step(inside, -1), named, value)
               /\ list.ok => list.item = akids /\ Reached(c, close, total, list.b)
               /\ ~list.ok => (\E k \in 1..Len(d.kids) : d.kids[k] \notin Nested[n]) \/ c.luck < total

\* The items of a list that has any.
LEMMA ItemsRead ==
  ASSUME NEW n \in 0..Levels, NEW value, Parser(value, n, Nested[n]), NEW c, Reading(c, value, n),
         NEW d \in Documents, d.type \in DOMAIN Open, Readable(d), NEW format \in BOOLEAN, NEW depth \in Nat,
         NEW at \in Nat, NEW pos, NEW close, LaidOut(c.text, d, format, depth, at, pos, close),
         NEW named \in BOOLEAN, named <=> d.type = "Object", NEW akids, NEW sum, Due(d, named, akids, sum),
         NEW total \in Nat, total = sum[Len(d.kids)], Len(d.kids) # 0,
         NEW past, Reached(c, at + 1, 0, past), NEW inside, inside = buffer_skip_whitespace(past)
  PROVE  ItemsCame(inside, d, n, value, named, c, close, akids, total)
<1>1. PICK N : N = Len(d.kids)
  OBVIOUS
<1>2. PICK w : w = TextOf[d][format][depth]
  OBVIOUS
<1>3. N \in Nat /\ N # 0 /\ 1 \in 1..N /\ \A k \in 1..N : Readable(d.kids[k])
  <2>1. N \in Nat
    BY <1>1, <1>2, ListText, Zenon
  <2> QED
    BY <1>1, <2>1, ReadableParts
<1>4. Reader(value, n) /\ Sound(c) /\ c.depth + n = CJSON_NESTING_LIMIT
  BY DEF Reading
<1>5. PICK t : t = c.text
  OBVIOUS
<1>6. PICK L \in Nat : L = Len(t)
  BY <1>4, <1>5, SoundIs
<1>7. PICK kid : kid = d.kids[1]
  OBVIOUS
<1>8. PICK s : s = TextOf[kid][format][depth + 1]
  OBVIOUS
<1>9. PICK entry \in Nat :
           /\ at + 1 <= entry /\ White(t, at + 1, entry) /\ entry < Len(t)
           /\ t[entry + 1] > 32 /\ t[entry + 1] # Close[d.type]
           /\ Piece(t, kid, d.type = "Object", s, 1 < N, entry, pos[1])
  <2>1. LaidOut(t, d, format, depth, at, pos, close) /\ Readable(d.kids[1]) /\ Len(t) \in Nat
    BY <1>3, <1>5, <1>6
  <2>2. d \in Documents /\ d.type \in DOMAIN Open /\ format \in BOOLEAN /\ depth \in Nat /\ at \in Nat
    OBVIOUS
  <2> QED
    BY ONLY <1>1, <1>3, <1>7, <1>8, <2>1, <2>2, FirstEntry
<1>10. Reached(c, entry, 0, inside)
  <2>1. at + 1 \in Nat
    OBVIOUS
  <2> QED
    BY <1>5, <1>9, <2>1, SkipReaches, Zenon
<1>11. ~Sees(inside, Close[d.type])
  <2>1. inside.text = t /\ inside.offset = entry
    BY <1>5, <1>10, Zenon DEF Reached
  <2> QED
    BY <1>9, <2>1, Zenon DEF Sees, ByteAt
<1>12. PICK before \in Nat : before = entry + -1 /\ before + 1 = entry /\ before < L
  BY <1>6, <1>9
<1>13. PICK back : back = Step(inside, -1)
  OBVIOUS
<1>14. Reached(c, before, 0, back)
  <2>1. -1 \in Int /\ entry + -1 \in Nat
    BY <1>12
  <2> QED
    BY <1>10, <1>12, <1>13, <2>1, StepReaches, Zenon
<1>15. /\ Sound(back) /\ back.text = t /\ back.depth = c.depth /\ back.offset = before
       /\ back.luck + 0 = c.luck
  BY <1>5, <1>14, Zenon DEF Reached
<1>16. Reading(back, value, n) /\ Inside(back)
  <2>1. back.offset < Len(back.text)
    BY <1>6, <1>12, <1>15, Zenon
  <2> QED
    BY <1>4, <1>15, <2>1, Zenon DEF Reading, Inside
<1>17. PICK list : list = parse_list(back, named, value)
  OBVIOUS
<1>18. Listing(back, d, format, depth, pos, close, akids, sum, n, N, list)
  <2>1. LaidOut(back.text, d, format, depth, at, pos, close)
    BY <1>5, <1>15, Zenon
  <2>2. Ahead(back.text, d, format, depth, pos, close, 0, back.offset)
    <3>1. 0 < N /\ 0 + 1 = 1
      BY <1>3
    <3>2. Piece(t, d.kids[0 + 1], d.type = "Object", TextOf[d.kids[0 + 1]][format][depth + 1],
                0 + 1 < N, before + 1, pos[0 + 1])
      BY <1>7, <1>8, <1>9, <1>12, <3>1, Zenon
    <3>3. Ahead(t, d, format, depth, pos, close, 0, before)
      BY <1>1, <3>1, <3>2, Zenon DEF Ahead
    <3> QED
      BY <1>15, <3>3, Zenon
  <2>3. /\ n \in 0..Levels /\ Parser(value, n, Nested[n]) /\ d \in Documents /\ d.type \in DOMAIN Open
        /\ format \in BOOLEAN /\ depth \in Nat /\ named \in BOOLEAN /\ Due(d, named, akids, sum)
    OBVIOUS
  <2>4. Len(d.kids) # 0 /\ (named <=> d.type = "Object")
    OBVIOUS
  <2>5. \A k \in 1..Len(d.kids) : Readable(d.kids[k])
    BY <1>1, <1>3, Zenon
  <2>6. Listing(back, d, format, depth, pos, close, akids, sum, n, Len(d.kids), parse_list(back, named, value))
    BY ONLY <1>16, <2>1, <2>2, <2>3, <2>4, <2>5, ListRead
  <2> QED
    BY <1>1, <1>17, <2>6, Zenon
<1>19. PICK luck \in Nat : luck = back.luck /\ luck = c.luck
  <2>1. back.luck \in Nat
    BY <1>15, SoundIs
  <2>2. back.luck = c.luck
    BY <1>15, <2>1
  <2> QED
    BY <2>1, <2>2
<1>20. ASSUME list.ok
       PROVE  list.item = akids /\ Reached(c, close, total, list.b)
  <2>1. list.item = SubSeq(akids, 1, N) /\ Reached(back, list.b.offset, total, list.b)
    BY <1>1, <1>18, <1>20, Zenon DEF Listing
  <2>2. list.b.offset = close
    <3>1. Ahead(back.text, d, format, depth, pos, close, N, list.b.offset)
      BY <1>18, <1>20, Zenon DEF Listing
    <3>2. ~(N < N)
      BY <1>3
    <3> QED
      BY <1>1, <3>1, <3>2, Zenon DEF Ahead
  <2>3. akids \in Seq(Documents) /\ Len(akids) = N
    BY <1>1, Zenon DEF Due
  <2>4. SubSeq(akids, 1, N) = akids
    BY <2>3
  <2>5. Reached(back, close, total, list.b)
    BY <2>1, <2>2, Zenon
  <2>6. Reached(c, close, 0 + total, list.b)
    <3>1. 0 \in Nat
      OBVIOUS
    <3> QED
      BY <1>4, <1>14, <2>5, <3>1, ReachedOn, Zenon
  <2>7. 0 + total = total
    OBVIOUS
  <2> QED
    BY <2>1, <2>4, <2>6, <2>7, Zenon
<1>21. ASSUME ~list.ok
       PROVE  (\E k \in 1..Len(d.kids) : d.kids[k] \notin Nested[n]) \/ c.luck < total
  <2>1. (\E k \in 1..Len(d.kids) : d.kids[k] \notin Nested[n]) \/ back.luck < total
    BY <1>18, <1>21, Zenon DEF Listing
  <2>2. back.luck = c.luck
    BY <1>19, Zenon
  <2> QED
    BY <2>1, <2>2, Zenon
<1> QED
  BY <1>11, <1>13, <1>17, <1>20, <1>21, Zenon DEF ItemsCame

\* An array or an object comes back, unless it is nested too deep.
LEMMA ContainerRead ==
  ASSUME NEW n \in 0..CJSON_NESTING_LIMIT, NEW value,
         n # 0 => Parser(value, n - 1, Nested[n - 1]) /\ Reader(value, n - 1),
         NEW b, Sound(b), b.depth + n = CJSON_NESTING_LIMIT, NEW it \in NewItems,
         NEW d \in Documents, NEW type \in DOMAIN Open, d.type = type, Readable(d),
         NEW format \in BOOLEAN, NEW depth \in Nat, NEW member \in BOOLEAN,
         NEW s, s = TextOf[d][format][depth], AtText(b, s), NEW a, a = Reread[d][member], it.string = a.string
  PROVE  Taken(b, s, a, BlocksOf[a] - BlocksOf[it], d \notin Nested[n], parse_container(b, it, type, value))
<1> DEFINE c == [b EXCEPT !.depth = @ + 1]
           past == Step(c, 1)
           inside == buffer_skip_whitespace(past)
           named == (type = "Object")
           empty == Yes(inside, <<>>)
           filled == parse_list(Step(inside, -1), named, value)
           list == IF Sees(inside, Close[type]) THEN empty ELSE filled
           deep == d \notin Nested[n]
           v == parse_container(b, it, type, value)
<1>1. v = IF b.depth >= CJSON_NESTING_LIMIT THEN No(b, it) ELSE close_container(list, it, type)
  BY Zenon DEF parse_container
<1>2. /\ n \in 0..Levels /\ CJSON_NESTING_LIMIT \in Nat /\ n \in Nat /\ b.depth \in Nat /\ b.luck \in Nat
      /\ b.offset \in Nat
  BY ParserAssumption, LevelsAssumption, SoundIs
<1>3. d.type \in DOMAIN Open
  OBVIOUS
<1>4. CASE n = 0
  <2>1. b.depth >= CJSON_NESTING_LIMIT
    BY <1>2, <1>4
  <2>2. ~v.ok
    BY <1>1, <2>1 DEF No
  <2>3. deep
    <3>1. d \in Nested[n] => n # 0
      BY <1>2, <1>3, ItemIs
    <3> QED
      BY <1>4, <3>1
  <2> HIDE DEF v, deep
  <2> QED
    BY <2>2, <2>3, Zenon DEF Taken, v, deep
<1>5. CASE n # 0
  <2>1. ~(b.depth >= CJSON_NESTING_LIMIT)
    BY <1>2, <1>5
  <2>2. v = close_container(list, it, type)
    BY <1>1, <2>1
  <2>3. PICK m \in 0..Levels : m = n - 1 /\ n = m + 1
    <3>1. n - 1 \in 0..Levels /\ n = (n - 1) + 1
      BY <1>2, <1>5, LevelsAssumption
    <3> QED
      BY <3>1, Zenon
  <2>4. Parser(value, m, Nested[m]) /\ Reader(value, m)
    BY <1>5, <2>3
  <2>5. Deeper(b, c)
    BY GoneDeeper
  <2> HIDE DEF c, v
  <2>6. PICK t : t = b.text
    OBVIOUS
  <2>7. PICK at \in Nat : at = b.offset
    BY <1>2
  <2>8. PICK L \in Nat : L = Len(t)
    BY <2>6, SoundIs
  <2>9. /\ Sound(c) /\ c.text = t /\ c.depth = b.depth + 1 /\ c.offset = at /\ c.luck = b.luck
    BY <2>5, <2>6, <2>7, Zenon DEF Deeper
  <2>10. Reading(c, value, m)
    <3>1. c.depth + m = CJSON_NESTING_LIMIT
      BY <1>2, <2>3, <2>9
    <3> QED
      BY <2>4, <2>9, <3>1 DEF Reading
  <2>11. Worded(d) /\ \A k \in 1..Len(d.kids) : Readable(d.kids[k])
    BY ReadableParts
  <2>12. PICK pos, close : LaidOut(t, d, format, depth, at, pos, close) /\ close + 1 = at + Len(s)
    <3>1. Stands(t, at, s)
      BY <2>6, <2>7, Zenon DEF AtText
    <3>2. d \in Documents /\ format \in BOOLEAN /\ depth \in Nat /\ s = TextOf[d][format][depth] /\ Len(t) \in Nat
      BY <2>8
    <3> QED
      BY ONLY <1>3, <2>7, <2>11, <3>1, <3>2, ListLaid
  <2>13. /\ close \in Nat /\ close < L /\ t[close + 1] = Close[type] /\ at + 1 <= pos[0]
         /\ White(t, at + 1, pos[0]) /\ pos[Len(d.kids)] <= close /\ White(t, pos[Len(d.kids)], close)
         /\ pos \in [0..Len(d.kids) -> Nat]
    BY <2>8, <2>12 DEF LaidOut
  <2>14. named \in BOOLEAN /\ (named <=> d.type = "Object") /\ named = (d.type = "Object")
    OBVIOUS
  <2> HIDE DEF named
  <2>15. PICK akids : akids = a.kids
    OBVIOUS
  <2>16. PICK sum : Due(d, named, akids, sum) /\ BlocksOf[a] - BlocksOf[it] = sum[Len(d.kids)]
    BY <1>3, <2>14, <2>15, KidsComeBack
  <2>17. PICK N \in Nat : N = Len(d.kids)
    <3>1. PICK w : w = TextOf[d][format][depth]
      OBVIOUS
    <3>2. PICK k : k = Len(d.kids)
      OBVIOUS
    <3>3. k \in Nat
      BY <1>3, <3>1, <3>2, ListText, Zenon
    <3> QED
      BY <3>2, <3>3
  <2>18. PICK total \in Nat : total = sum[Len(d.kids)]
    <3>1. sum \in [0..N -> Nat] /\ N \in 0..N
      BY <2>16, <2>17 DEF Due
    <3> QED
      BY <2>17, <3>1
  <2>19. Reached(c, at + 1, 0, past)
    <3>1. Reached(c, at, 0, c)
      BY <2>9, ReachedHere
    <3> QED
      BY <3>1, StepReaches
  <2> HIDE DEF past
  <2>20. \E l : /\ l = list
                /\ l.ok => l.item = akids /\ Reached(c, close, total, l.b)
                /\ ~l.ok => deep \/ b.luck < total
    <3>1. CASE N = 0
      <4>1. pos[0] \in Nat /\ at + 1 \in Nat /\ pos[0] <= close /\ White(t, pos[0], close)
        <5>1. 0 \in 0..N
          BY <3>1
        <5> QED
          BY <2>13, <2>17, <3>1, <5>1
      <4>2. White(t, at + 1, close)
        BY <2>8, <2>13, <4>1, WhiteOn
      <4>3. at + 1 <= close
        BY <2>13, <4>1
      <4>4. t[close + 1] > 32
        BY <2>13 DEF Close, Open
      <4>5. Reached(c, close, 0, inside)
        <5>1. close < Len(c.text)
          BY <2>8, <2>9, <2>13
        <5>2. /\ White(c.text, at + 1, close) /\ c.text[close + 1] > 32
          BY <2>9, <4>2, <4>4
        <5> QED
          BY <2>13, <2>19, <4>1, <4>3, <5>1, <5>2, SkipReaches
      <4> HIDE DEF inside
      <4>6. Sees(inside, Close[type])
        BY <2>8, <2>9, <2>13, <4>5 DEF Reached, Sees, CanAccess, ByteAt
      <4>7. list = empty
        BY <4>6
      <4>8. empty.ok /\ empty.item = <<>> /\ empty.b = inside
        BY DEF Yes
      <4>9. akids = <<>> /\ total = 0
        <5>1. akids \in Seq(Documents) /\ Len(akids) = 0 /\ sum[0] = 0
          BY <2>16, <2>17, <3>1 DEF Due
        <5> QED
          BY <2>17, <2>18, <3>1, <5>1
      <4> HIDE DEF empty, filled, list
      <4> QED
        BY <4>5, <4>7, <4>8, <4>9
    <3>2. CASE N # 0
      <4>1. /\ ~Sees(inside, Close[type])
            /\ \E l : /\ l = parse_list(Step(inside, -1), named, value)
                      /\ l.ok => l.item = akids /\ Reached(c, close, total, l.b)
                      /\ ~l.ok => (\E k \in 1..Len(d.kids) : d.kids[k] \notin Nested[m]) \/ c.luck < total
        <5>1. PICK in : in = inside
          OBVIOUS
        <5>7. in = buffer_skip_whitespace(past)
          BY <5>1
        <5>2. LaidOut(c.text, d, format, depth, at, pos, close)
          BY <2>9, <2>12, Zenon
        <5>3. Len(d.kids) # 0 /\ Due(d, named, akids, sum)
          BY <2>16, <2>17, <3>2
        <5>4. d \in Documents /\ Readable(d) /\ format \in BOOLEAN /\ depth \in Nat
          OBVIOUS
        <5>5. ItemsCame(in, d, m, value, named, c, close, akids, total)
          <6>1. m \in 0..Levels /\ Parser(value, m, Nested[m]) /\ Reading(c, value, m) /\ at \in Nat /\ total \in Nat
            BY <2>3, <2>4, <2>7, <2>10, <2>18
          <6>2. PICK object \in BOOLEAN : object = named
            BY <2>14, Zenon
          <6>3. object \in BOOLEAN /\ (object <=> d.type = "Object") /\ Due(d, object, akids, sum)
            BY <2>14, <5>3, <6>2
          <6>4. total = sum[Len(d.kids)] /\ Len(d.kids) # 0 /\ Reached(c, at + 1, 0, past)
            BY <2>18, <2>19, <5>3
          <6>5. ItemsCame(in, d, m, value, object, c, close, akids, total)
            BY ONLY <1>3, <5>2, <5>4, <5>7, <6>1, <6>3, <6>4, ItemsRead, ZenonT(120)
          <6> QED
            BY <6>2, <6>5, Zenon
        <5>6. d.type = type
          OBVIOUS
        <5> QED
          BY ONLY <5>1, <5>5, <5>6, Zenon DEF ItemsCame
      <4>2. list = filled
        BY <4>1
      <4>3. PICK l : /\ l = filled
                     /\ l.ok => l.item = akids /\ Reached(c, close, total, l.b)
                     /\ ~l.ok => (\E k \in 1..Len(d.kids) : d.kids[k] \notin Nested[m]) \/ c.luck < total
        BY <4>1
      <4>4. (\E k \in 1..Len(d.kids) : d.kids[k] \notin Nested[m]) => deep
        <5>1. SUFFICES ASSUME d \in Nested[n]
                       PROVE  \A k \in 1..Len(d.kids) : d.kids[k] \in Nested[m]
          BY DEF deep
        <5>2. d.kids \in Seq(Nested[n - 1])
          BY <1>2, <1>3, <5>1, ItemIs
        <5> QED
          BY <2>3, <5>2
      <4>5. ~l.ok => deep \/ b.luck < total
        BY <2>9, <4>3, <4>4
      <4> HIDE DEF list, filled, deep
      <4> QED
        BY <4>2, <4>3, <4>5
    <3> QED
      BY <3>1, <3>2
  <2> HIDE DEF list, deep
  <2>21. PICK l : /\ l = list
                  /\ l.ok => l.item = a.kids /\ Reached(c, close, total, l.b)
                  /\ ~l.ok => deep \/ b.luck < total
    BY <2>15, <2>20
  <2>22. a.type = type /\ a.val = NoText
         /\ a = [type |-> a.type, string |-> a.string, val |-> a.val, kids |-> a.kids]
    <3>1. /\ a = [type |-> a.type, string |-> a.string, val |-> a.val, kids |-> a.kids]
          /\ a.type = IF IsNaN(d) THEN "NULL" ELSE d.type
          /\ a.val = IF IsNaN(d) THEN NoText ELSE IF d.type = "String" THEN Known(d.val) ELSE d.val
      BY AgainIs
    <3>2. ~IsNaN(d) /\ d.type # "String" /\ d.type \notin {"Number", "String", "Raw"}
      BY <1>3 DEF IsNaN, Open
    <3>3. d.val = NoText
      <4>1. Levels \in 0..Levels /\ d \in Nested[Levels]
        BY LevelsAssumption DEF Documents
      <4> QED
        BY <3>2, <4>1, ItemIs
    <3> QED
      BY <3>1, <3>2, <3>3
  <2>23. Taken(b, s, a, total, deep, close_container(l, it, type))
    <3>1. b.text[close + 1] = Close[type] /\ close < Len(b.text) /\ close + 1 = b.offset + Len(s)
      BY <2>6, <2>7, <2>8, <2>12, <2>13
    <3>2. Sound(b) /\ it \in NewItems /\ it.string = a.string
      OBVIOUS
    <3>3. close \in Nat /\ type = a.type
      BY <2>13, <2>22
    <3> QED
      BY ONLY <2>5, <2>21, <2>22, <3>1, <3>2, <3>3, ClosedRead
  <2>24. total = BlocksOf[a] - BlocksOf[it]
    BY <2>16, <2>18, Zenon
  <2> QED
    BY <2>2, <2>21, <2>23, <2>24, Zenon DEF deep, v
<1> QED
  BY <1>4, <1>5

\* What is in front of the parser decides how it is read, on every level.
LEMMA ReaderOn ==
  ASSUME NEW n \in 0..CJSON_NESTING_LIMIT, NEW below,
         n # 0 => Parser(below, n - 1, Nested[n - 1]) /\ Reader(below, n - 1)
  PROVE  Reader(Level("parse", n, below), n)
<1> SUFFICES ASSUME NEW b \in ParseBuffer, NEW it \in NewItems, NEW d \in Documents, NEW format \in BOOLEAN,
                    NEW depth \in Nat, NEW member \in BOOLEAN, Sound(b), b.depth + n = CJSON_NESTING_LIMIT,
                    AtText(b, TextOf[d][format][depth]), Readable(d), it.string = Reread[d][member].string
             PROVE  Taken(b, TextOf[d][format][depth], Reread[d][member],
                          BlocksOf[Reread[d][member]] - BlocksOf[it], d \notin Nested[n],
                          Level("parse", n, below)[b][it])
  BY DEF Reader
<1> DEFINE value == IF n = 0 THEN <<>> ELSE below
<1>1. Level("parse", n, below)[b][it] = value_from(b, it, value)
  BY DEF Level
<1>2. n # 0 => Parser(value, n - 1, Nested[n - 1]) /\ Reader(value, n - 1)
  OBVIOUS
<1> HIDE DEF value
<1>3. PICK s : s = TextOf[d][format][depth]
  OBVIOUS
<1>4. PICK a : a = Reread[d][member]
  OBVIOUS
<1>5. AtText(b, s) /\ it.string = a.string
  BY <1>3, <1>4
<1>6. d.type \in {"Invalid", "Number", "String", "Raw"} \cup DOMAIN Word \cup DOMAIN Open
  <2>1. Levels \in 0..Levels /\ d \in Nested[Levels]
    BY LevelsAssumption DEF Documents
  <2> QED
    BY <2>1, ItemIs
<1>7. d.type \notin {"Raw", "Invalid"}
  <2>1. d \in Within[d]
    BY MeaningIs
  <2> QED
    BY <2>1 DEF Readable
<1> DEFINE deep == d \notin Nested[n]
           v == value_from(b, it, value)
<1>8. Taken(b, s, a, BlocksOf[a] - BlocksOf[it], deep, v)
  <2>1. CASE d.type \in {"Number", "String"} \cup DOMAIN Word
    <3> HIDE DEF deep
    <3> QED
      BY <1>3, <1>4, <1>5, <2>1, ScalarRead
  <2>2. CASE d.type \in DOMAIN Open
    <3>1. PICK type \in DOMAIN Open : d.type = type
      BY <2>2
    <3>2. s \in Seq(Character) /\ Len(s) >= 1
      BY <1>3, <1>7, TextStartsWith
    <3>3. s[1] = Open[type]
      BY <1>3, <1>7, <3>1, TextStartsWith
    <3>4. Sees(b, Open[type])
      <4>1. Stands(b.text, b.offset, s)
        BY <1>5 DEF AtText
      <4> QED
        BY <3>2, <3>3, <4>1, FirstSeen
    <3>5. v = parse_container(b, it, type, value)
      BY <3>1, <3>4, ValueIs, Zenon
    <3>6. Taken(b, s, a, BlocksOf[a] - BlocksOf[it], d \notin Nested[n], parse_container(b, it, type, value))
      BY <1>2, <1>3, <1>4, <1>5, <3>1, ContainerRead
    <3> HIDE DEF v
    <3> QED
      BY <3>5, <3>6, Zenon DEF deep
  <2> QED
    BY <1>6, <1>7, <2>1, <2>2
<1> QED
  BY <1>1, <1>3, <1>4, <1>8, Zenon DEF deep, v

\* The parser reads every document that is nested no deeper than its level.
LEMMA LevelsRead ==
  ASSUME NEW levels, Parsing(levels)
  PROVE  \A n \in 0..CJSON_NESTING_LIMIT : Reader(levels[n], n)
<1> DEFINE N == CJSON_NESTING_LIMIT
           Right == {n \in 0..N : Reader(levels[n], n)}
<1>1. N \in Nat
  BY ParserAssumption, LevelsAssumption
<1>2. \A n \in 0..N : levels[n] = Level("parse", n, levels[n - 1])
  BY Zenon DEF Parsing
<1>3. 0 \in Right
  <2>1. 0 \in 0..N
    BY <1>1
  <2>2. Reader(Level("parse", 0, levels[0 - 1]), 0)
    BY <2>1, ReaderOn
  <2> QED
    BY <1>2, <2>1, <2>2, Zenon
<1>4. ASSUME NEW n \in 1..N, n - 1 \in Right
      PROVE  n \in Right
  <2>1. n \in 0..N /\ n - 1 \in 0..N /\ Reader(levels[n - 1], n - 1)
    BY <1>1, <1>4
  <2>2. Parser(levels[n - 1], n - 1, Nested[n - 1])
    BY <2>1, LevelsParsed
  <2>3. Reader(Level("parse", n, levels[n - 1]), n)
    BY <2>1, <2>2, ReaderOn
  <2> QED
    BY <1>2, <2>1, <2>3, Zenon
<1>5. 0..N \subseteq Right
  <2> HIDE DEF Right, N
  <2> QED
    BY <1>1, <1>3, <1>4, ClimbTo
<1> QED
  BY <1>5

\* parse_value at the text of a document gives the document.
LEMMA ParseValueRead ==
  ASSUME NEW b, Sound(b), b.depth = 0, NEW it \in NewItems, NEW d \in Documents, Readable(d),
         NEW format \in BOOLEAN, NEW depth \in Nat, NEW member \in BOOLEAN,
         NEW s, s = TextOf[d][format][depth], AtText(b, s), NEW a, a = Reread[d][member], it.string = a.string
  PROVE  Taken(b, s, a, BlocksOf[a] - BlocksOf[it], d \notin Nested[CJSON_NESTING_LIMIT], parse_value(b, it))
<1>1. PICK levels : Parsing(levels) /\ parse_value(b, it) = levels[CJSON_NESTING_LIMIT][b][it]
  BY ParsingLevels
<1>2. PICK N \in Nat : N = CJSON_NESTING_LIMIT
  BY ParserAssumption, LevelsAssumption
<1>3. Reader(levels[N], N)
  <2>1. N \in 0..CJSON_NESTING_LIMIT
    BY <1>2
  <2> QED
    BY <1>1, <2>1, LevelsRead
<1>4. b \in ParseBuffer /\ b.depth + N = CJSON_NESTING_LIMIT
  BY <1>2 DEF Sound
<1>5. Taken(b, s, a, BlocksOf[a] - BlocksOf[it], d \notin Nested[N], levels[N][b][it])
  BY <1>3, <1>4, Zenon DEF Reader
<1> QED
  BY <1>1, <1>2, <1>5, Zenon

(***************************************************************************)
(* A printed text is read again                                            *)
(***************************************************************************)

\* A text that starts below the first byte of the mark has no mark.
LEMMA NoMark ==
  ASSUME NEW b, Sound(b), b.offset = 0, b.text[1] < 239
  PROVE  skip_utf8_bom(b) = b
<1>1. CASE SeesWord(b, ByteOrderMark)
  <2>1. PICK t \in Seq(Byte) : t = b.text
    BY SoundIs
  <2>2. PICK mark : mark = ByteOrderMark
    OBVIOUS
  <2>3. Len(mark) = 3 /\ mark[1] = 239
    BY <2>2 DEF ByteOrderMark
  <2>4. PICK at \in Nat : at = b.offset
    BY SoundIs
  <2>5. PICK n \in Nat : n = Len(mark)
    BY <2>3
  <2>6. at + n <= Len(t) /\ SubSeq(t, at + 1, at + n) = mark
    BY <1>1, <2>1, <2>2, <2>4, <2>5 DEF SeesWord
  <2>7. \A m \in 1..n : SubSeq(t, at + 1, at + n)[m] = t[at + m]
    BY <2>6, SliceIs
  <2>8. 1 \in 1..n
    BY <2>3, <2>5
  <2>9. SubSeq(t, at + 1, at + n)[1] = t[at + 1]
    BY <2>7, <2>8
  <2>10. t[at + 1] = 239
    BY <2>3, <2>6, <2>9, Zenon
  <2>11. at + 1 = 1
    BY <2>4
  <2> QED
    BY <2>1, <2>10, <2>11
<1>2. CASE ~SeesWord(b, ByteOrderMark)
  BY <1>2 DEF skip_utf8_bom
<1> QED
  BY <1>1, <1>2

\* What is behind a document ends the text.
LEMMA EndSeen ==
  ASSUME NEW b, NEW to, NEW blocks, NEW c, Reached(b, to, blocks, c), to \in Nat, to = Len(b.text) - 1,
         NEW whole \in BOOLEAN
  PROVE  Ends(c, whole).ok
<1> DEFINE end == buffer_skip_whitespace(c)
<1>1. /\ Sound(c) /\ c.text = b.text /\ c.offset = to /\ Len(c.text) \in Nat \ {0} /\ c.text[Len(c.text)] = 0
  BY SoundIs DEF Reached
<1>2. Reached(b, to, blocks, end)
  <2>1. White(b.text, to, to) /\ to <= to
    BY NothingWhite
  <2>2. to < Len(b.text)
    BY <1>1
  <2> QED
    BY <2>1, <2>2, SkipReaches
<1>3. Sees(end, 0)
  <2>1. end.text = c.text /\ end.offset = to
    BY <1>1, <1>2 DEF Reached
  <2>2. to + 1 = Len(c.text) /\ to < Len(c.text)
    BY <1>1
  <2> HIDE DEF end
  <2> QED
    BY <1>1, <2>1, <2>2 DEF Sees, CanAccess, ByteAt
<1> HIDE DEF end
<1>4. Ends(c, whole) \in {Yes(c, NewItem), Yes(end, NewItem)}
  BY <1>3 DEF Ends, end
<1>5. Yes(c, NewItem).ok /\ Yes(end, NewItem).ok
  BY DEF Yes
<1> QED
  BY <1>4, <1>5

\* What the parse of a document's text gives, with so many allocations.
ReadAs(d, luck, r) ==
  /\ r.ok => r.item = Reread[d][FALSE]
  /\ ~r.ok => d \notin Nested[CJSON_NESTING_LIMIT] \/ BlocksOf[Reread[d][FALSE]] > luck

\* A printed document without raw items is read again, formatted or not: the parser
\* gives it back, but for the names, strings and numbers that Again tells apart, unless
\* it is nested deeper than CJSON_NESTING_LIMIT or has more blocks than may be allocated.
THEOREM RoundTrip ==
  ASSUME NEW d \in Documents, \A part \in Within[d] : part.type \notin {"Raw", "Invalid"},
         NEW format \in BOOLEAN, NEW luck \in Nat, NEW whole \in BOOLEAN
  PROVE  ReadAs(d, luck, cJSON_ParseWithOpts(Append(Render(d, format), 0), luck, whole))
<1>1. PICK s : s = TextOf[d][format][0]
  OBVIOUS
<1>2. PICK t : t = Append(s, 0)
  OBVIOUS
<1>3. PICK no \in BOOLEAN : no = FALSE
  OBVIOUS
<1>4. PICK a : a = Reread[d][no]
  OBVIOUS
<1>5. Readable(d)
  BY DEF Readable
<1>6. d.type \notin {"Raw", "Invalid"}
  <2>1. d \in Within[d]
    BY MeaningIs
  <2> QED
    BY <2>1
<1>7. s \in Seq(Character) /\ Len(s) >= 1 /\ s[1] > 32 /\ s[1] \in Nat /\ s[1] < 239
  BY <1>1, <1>6, TextStartsWith
<1>8. PICK m \in Nat : m = Len(s)
  BY <1>7
<1>9. t \in Seq(Byte) /\ Len(t) = m + 1 /\ t[m + 1] = 0 /\ t # <<>> /\ \A k \in 1..m : t[k] = s[k]
  <2>1. s \in Seq(Byte) /\ 0 \in Byte
    BY <1>7, CharactersAreBytes DEF Byte
  <2> QED
    BY <1>2, <1>8, <2>1
<1>10. t[1] > 32 /\ t[1] < 239
  <2>1. 1 \in 1..m
    BY <1>7, <1>8
  <2> QED
    BY <1>7, <1>9, <2>1
<1>11. BlocksOf[a] \in Nat /\ BlocksOf[a] >= 1 /\ a.string = NoText
  <2>1. a \in Documents /\ BlocksOf[a] \in Nat
    BY <1>4, RereadIs
  <2>2. PICK own \in Nat : own = OwnBlocks(a) /\ own >= 1
    BY OwnIs
  <2>3. PICK sum \in Nat : sum = SumOf(a.kids, BlocksOf)
    BY <2>1, KidsSum
  <2>4. BlocksOf[a] = own + sum
    BY <2>1, <2>2, <2>3, BlocksIs, Zenon
  <2>5. BlocksOf[a] >= 1
    BY <2>2, <2>4
  <2>6. a.string = NoText
    BY <1>3, <1>4, AgainIs
  <2> QED
    BY <2>1, <2>5, <2>6
<1> DEFINE empty == [text |-> t, offset |-> 0, depth |-> 0, luck |-> luck, held |-> 0,
                     overrun |-> FALSE]
           new == Malloc(empty)
           start == buffer_skip_whitespace(skip_utf8_bom(new.b))
           v == parse_value(start, NewItem)
           r == cJSON_ParseWithOpts(t, luck, whole)
<1>12. r = IF ~new.ok THEN No(empty, NewItem) ELSE finish_parse(v, whole)
  BY Zenon DEF cJSON_ParseWithOpts
<1>13. /\ empty.text = t /\ empty.offset = 0 /\ empty.depth = 0 /\ empty.luck = luck /\ ~empty.overrun
  OBVIOUS
<1>14. Sound(empty)
  <2>1. empty \in ParseBuffer
    BY <1>9 DEF ParseBuffer
  <2>2. t[Len(t)] = 0
    BY <1>9
  <2> QED
    BY <1>9, <1>13, <2>1, <2>2 DEF Sound
<1> HIDE DEF empty, r
<1>15. Reached(empty, 0, 0, empty)
  BY <1>13, <1>14, ReachedHere
<1>16. /\ new.ok \in BOOLEAN
       /\ new.ok => Reached(empty, 0, 0 + 1, new.b)
       /\ ~new.ok => luck < 0 + 1
  BY <1>13, <1>14, <1>15, MallocReaches
<1>17. CASE ~new.ok
  <2>1. ~r.ok
    BY <1>12, <1>17 DEF No
  <2>2. BlocksOf[a] > luck
    BY <1>11, <1>16, <1>17
  <2>3. ReadAs(d, luck, r)
    BY <1>3, <1>4, <2>1, <2>2 DEF ReadAs
  <2> QED
    BY <1>1, <1>2, <2>3, Zenon DEF r, Render
<1>18. CASE new.ok
  <2>1. r = finish_parse(v, whole)
    BY <1>12, <1>18
  <2>2. Reached(empty, 0, 1, new.b)
    BY <1>16, <1>18
  <2> HIDE DEF new
  <2>3. skip_utf8_bom(new.b) = new.b
    <3>1. Sound(new.b) /\ new.b.offset = 0 /\ new.b.text = t
      BY <1>13, <2>2 DEF Reached
    <3> QED
      BY <1>10, <3>1, NoMark
  <2>4. Reached(empty, 0, 1, start)
    <3>1. Reached(empty, 0, 1, skip_utf8_bom(new.b))
      BY <2>2, <2>3
    <3>2. White(t, 0, 0) /\ 0 < Len(t) /\ t[0 + 1] > 32
      BY <1>9, <1>10, NothingWhite
    <3> QED
      BY <1>13, <3>1, <3>2, SkipReaches
  <2> HIDE DEF start
  <2>5. /\ Sound(start) /\ start.text = t /\ start.depth = 0 /\ start.offset = 0
        /\ start.luck + 1 = luck /\ start.luck \in Nat
    BY <1>13, <2>4, SoundIs DEF Reached
  <2>6. AtText(start, s)
    <3>1. 0 + Len(s) = m /\ m < Len(t) /\ Len(s) <= Len(t)
      BY <1>8, <1>9
    <3>2. \A k \in 1..Len(s) : t[0 + k] = s[k]
      BY <1>8, <1>9
    <3>3. Stands(t, 0, s)
      BY <3>1, <3>2 DEF Stands
    <3>4. t[m + 1] \notin NumberByte
      BY <1>9 DEF NumberByte, Digit, Minus
    <3> QED
      BY <2>5, <3>1, <3>3, <3>4 DEF AtText
  <2>7. NewItem \in NewItems /\ BlocksOf[NewItem] = 1 /\ NewItem.string = a.string
    BY <1>11, NewItemIs DEF NewItem
  <2>8. Taken(start, s, a, BlocksOf[a] - BlocksOf[NewItem], d \notin Nested[CJSON_NESTING_LIMIT], v)
    <3>1. 0 \in Nat
      OBVIOUS
    <3> QED
      BY <1>1, <1>4, <1>5, <2>5, <2>6, <2>7, <3>1, ParseValueRead
  <2> HIDE DEF v
  <2> DEFINE Refuse(c, blocks) == No(Release([c EXCEPT !.offset = Min({@, Len(c.text) - 1})], blocks), NewItem)
             end == Ends(v.b, whole)
             one == Refuse(v.b, 1)
             all == Refuse(end.b, BlocksOf[v.item])
             document == Yes(end.b, v.item)
             bad == ~v.ok
             open == v.ok /\ ~end.ok
  <2>9. r = CASE bad -> one [] open -> all [] OTHER -> document
    BY <2>1, Zenon DEF finish_parse
  <2>10. ~one.ok /\ document.ok /\ document.item = v.item
    BY DEF No, Yes
  <2>11. CASE ~v.ok
    <3>1. r = one
      <4> HIDE DEF one, all, document, end
      <4> QED
        BY <2>9, <2>11
    <3>2. d \notin Nested[CJSON_NESTING_LIMIT] \/ start.luck < BlocksOf[a] - BlocksOf[NewItem]
      BY <2>8, <2>11 DEF Taken
    <3>3. d \notin Nested[CJSON_NESTING_LIMIT] \/ BlocksOf[a] > luck
      BY <1>11, <2>5, <2>7, <3>2
    <3> HIDE DEF one
    <3>4. ReadAs(d, luck, r)
      BY <1>3, <1>4, <2>10, <3>1, <3>3 DEF ReadAs
    <3> QED
      BY <1>1, <1>2, <3>4, Zenon DEF r, Render
  <2>12. CASE v.ok
    <3>1. PICK k : k = BlocksOf[a] - BlocksOf[NewItem]
      OBVIOUS
    <3>2. v.item = a /\ Reached(start, m, k, v.b)
      <4>1. v.item = a /\ Reached(start, start.offset + Len(s), k, v.b)
        BY <2>8, <2>12, <3>1 DEF Taken
      <4>2. start.offset + Len(s) = m
        BY <1>8, <2>5
      <4> QED
        BY <4>1, <4>2
    <3>3. end.ok
      <4>1. m = Len(start.text) - 1
        BY <1>9, <2>5
      <4> QED
        BY <1>8, <3>2, <4>1, EndSeen
    <3>4. r = document
      <4> HIDE DEF one, all, document, end
      <4> QED
        BY <2>9, <2>12, <3>3
    <3> HIDE DEF document
    <3>5. ReadAs(d, luck, r)
      BY <1>3, <1>4, <2>10, <3>2, <3>4 DEF ReadAs
    <3> QED
      BY <1>1, <1>2, <3>5, Zenon DEF r, Render
  <2> QED
    BY <2>11, <2>12
<1> QED
  BY <1>16, <1>17, <1>18

\* The inductive invariant: what was printed is a document, printed formatted or not,
\* and what was read is what was printed.
ReadInv == /\ TextInv
           /\ stage = "printed" => item \in Documents /\ report.format \in BOOLEAN
           /\ ReadBackIsSame

\* Nothing was read yet.
LEMMA ReadStarts ==
  Init => ReadInv
<1> SUFFICES ASSUME Init
             PROVE  ReadInv
  OBVIOUS
<1>1. stage \in {"text", "items"}
  BY DEF Init
<1> QED
  BY <1>1, TextStarts DEF ReadInv, ReadBackIsSame

\* What a print function is given is a document, and it was asked for a format.
LEMMA GivenDocument ==
  ASSUME ReadInv, TextInv', NEW r, NEW by, NEW format \in BOOLEAN, NEW length,
         Give(r, by, format, length)
  PROVE  ReadInv'
<1>1. item # None /\ item' = item /\ stage' = "printed" /\ report'.format = format
  BY DEF Give
<1>2. item' \in Documents
  BY <1>1 DEF ReadInv, TextInv
<1> QED
  BY <1>1, <1>2 DEF ReadInv, ReadBackIsSame

\* What was printed is read again: the text is that of the items, none of which is
\* without a text.
LEMMA ReadKeeps ==
  ASSUME ReadInv, ReadBack
  PROVE  ReadBackIsSame'
<1> SUFFICES ASSUME \A part \in Within[item] : part.type # "Raw"
             PROVE  LET again == Reread[item][FALSE]
                    IN IF report'.ok THEN report'.again = again
                       ELSE item \notin Nested[CJSON_NESTING_LIMIT] \/ BlocksOf[again] > MaxLuck
  <2>1. item' = item
    BY DEF ReadBack, ReadBackGives
  <2> QED
    BY <2>1, Zenon DEF ReadBackIsSame
<1>1. PICK whole \in BOOLEAN : whole = TRUE
  OBVIOUS
<1>2. PICK v : v = cJSON_ParseWithOpts(text, MaxLuck, whole)
  OBVIOUS
<1>3. /\ stage = "printed" /\ report.ok
      /\ report'.ok = v.ok /\ report'.again = v.item
  <2>1. ReadBackGives(v)
    BY <1>1, <1>2, Zenon DEF ReadBack
  <2> QED
    BY <2>1 DEF ReadBackGives
<1>4. PICK format \in BOOLEAN : format = report.format
  BY <1>3 DEF ReadInv
<1>5. item \in Documents /\ Wordless(item) = {} /\ text = Append(Render(item, format), 0)
  BY <1>3, <1>4 DEF ReadInv, TextInv, PrintedOrNothing
<1>6. \A part \in Within[item] : part.type \notin {"Raw", "Invalid"}
  BY <1>5 DEF Wordless, HasNoText
<1>7. MaxLuck \in Nat
  BY TextAssumption
<1>8. ReadAs(item, MaxLuck, cJSON_ParseWithOpts(Append(Render(item, format), 0), MaxLuck, whole))
  BY <1>5, <1>6, <1>7, RoundTrip
<1>9. ReadAs(item, MaxLuck, v)
  BY <1>2, <1>5, <1>8, Zenon
<1> QED
  BY <1>3, <1>9, Zenon DEF ReadAs

\* Every step keeps what was read to what was printed.
LEMMA ReadInvKeeps ==
  ReadInv /\ [Next]_vars => ReadInv'
<1> SUFFICES ASSUME ReadInv, [Next]_vars
             PROVE  ReadInv'
  OBVIOUS
<1>1. TextInv'
  BY TextKeeps DEF ReadInv
<1>2. ASSUME NEW luck \in Luck, NEW whole \in BOOLEAN, Parse(luck, whole)
      PROVE  ReadInv'
  <2>1. stage' = "parsed"
    BY <1>2 DEF Parse, ParseGives
  <2> QED
    BY <1>1, <2>1 DEF ReadInv, ReadBackIsSame
<1>3. ASSUME NEW luck \in Luck, NEW format \in BOOLEAN, NEW reallocate \in BOOLEAN,
             PrintItem(format, luck, reallocate)
      PROVE  ReadInv'
  BY <1>1, <1>3, GivenDocument, Zenon DEF PrintItem
<1>4. ASSUME NEW luck \in Luck, NEW format \in BOOLEAN, NEW reallocate \in BOOLEAN,
             NEW prebuffer \in Prebuffer, PrintBuffered(prebuffer, format, luck, reallocate)
      PROVE  ReadInv'
  BY <1>1, <1>4, GivenDocument, Zenon DEF PrintBuffered
<1>5. ASSUME NEW length \in 0..MaxLength, NEW format \in BOOLEAN, PrintPreallocated(length, format)
      PROVE  ReadInv'
  BY <1>1, <1>5, GivenDocument, Zenon DEF PrintPreallocated
<1>6. CASE ReadBack
  <2>1. stage' = "read"
    BY <1>6 DEF ReadBack, ReadBackGives
  <2>2. ReadBackIsSame'
    BY <1>6, ReadKeeps
  <2> QED
    BY <1>1, <2>1, <2>2 DEF ReadInv
<1>7. ASSUME NEW comment \in Comment, MinifyCommented(comment)
      PROVE  ReadInv'
  <2>1. stage' = "minified"
    BY <1>7 DEF MinifyCommented
  <2> QED
    BY <1>1, <2>1 DEF ReadInv, ReadBackIsSame
<1>8. CASE UNCHANGED vars
  <2>1. stage' = stage /\ item' = item /\ report' = report
    BY <1>8 DEF vars
  <2>2. ReadBackIsSame'
    BY <2>1, Zenon DEF ReadInv, ReadBackIsSame
  <2> QED
    BY <1>1, <2>1, <2>2 DEF ReadInv
<1> QED
  BY <1>2, <1>3, <1>4, <1>5, <1>6, <1>7, <1>8 DEF Next

\* What print wrote is read again by cJSON_ParseWithOpts as the items it was printed
\* from, in every behaviour and whatever the inputs and bounds: no string, number,
\* list or nesting is changed on the way.  It is refused only when the document is
\* nested deeper than the parser goes, or takes more allocations than may succeed.
THEOREM AlwaysReadBack ==
  Spec => []ReadBackIsSame
<1>1. Init => ReadInv
  BY ReadStarts
<1>2. ReadInv /\ [Next]_vars => ReadInv'
  BY ReadInvKeeps
<1>3. ReadInv => ReadBackIsSame
  BY DEF ReadInv
<1> QED
  BY <1>1, <1>2, <1>3, PTL DEF Spec
(***************************************************************************)
(* What Minify makes of a printed text                                     *)
(***************************************************************************)

\* Minify before the byte behind an offset, with what it kept so far.
Minifying(at, into) == [at |-> at + 1, into |-> into]

LEMMA OneByte ==
  ASSUME NEW t \in Seq(Byte), NEW i \in 1..Len(t)
  PROVE  SubSeq(t, i, i) = <<t[i]>>
<1>1. PICK at \in Nat : at + 1 = i
  <2>1. i - 1 \in Nat /\ i - 1 + 1 = i
    OBVIOUS
  <2> QED
    BY <2>1
<1>2. PICK s \in Seq(Byte) : s = SubSeq(t, i, i) /\ Len(s) = 1 /\ s[1] = t[i]
  <2>1. PICK n \in Nat : n = 1
    OBVIOUS
  <2>2. at + n <= Len(t) /\ at + n = i /\ 1 \in 1..n
    BY <1>1, <2>1
  <2>3. /\ SubSeq(t, at + 1, at + n) \in Seq(Byte) /\ Len(SubSeq(t, at + 1, at + n)) = n
        /\ \A m \in 1..n : SubSeq(t, at + 1, at + n)[m] = t[at + m]
    BY <2>2, SliceIs
  <2> QED
    BY <1>1, <2>1, <2>2, <2>3, Zenon
<1>3. PICK x \in Byte : x = t[i]
  OBVIOUS
<1>4. <<x>> \in Seq(Byte) /\ Len(<<x>>) = 1 /\ <<x>>[1] = x
  OBVIOUS
<1>5. \A k \in 1..Len(s) : s[k] = <<x>>[k]
  BY <1>2, <1>3, <1>4
<1>6. s = <<x>>
  BY <1>2, <1>4, <1>5, SeqEqual
<1> QED
  BY <1>2, <1>3, <1>6, Zenon

\* What a round makes, by the byte it meets.
RoundMakes(t, at, into, c, r) ==
  /\ c = 0 => r = Minifying(at, into)
  /\ c \in {Space, Tab, 13, NewLine} => r = Minifying(at + 1, into)
  /\ c \notin {0, Space, Tab, 13, NewLine, 47, Quote} => r = Minifying(at + 1, into \o <<c>>)
  /\ c = Quote =>
       r = Minifying(EndOfString(t, at + 1), into \o SubSeq(t, at + 1, EndOfString(t, at + 1)))
  /\ c = 47 /\ t[at + 1 + 1] = 47 =>
       r = [Minifying(at, into) EXCEPT !.at = Min({k \in (at + 1)..Len(t) : t[k] \in {0, NewLine}})]
  /\ c = 47 /\ t[at + 1 + 1] = 42 =>
       r = [Minifying(at, into) EXCEPT !.at = 2 + Min({k \in (at + 1)..Len(t) : t[k] = 42 /\ t[k + 1] = 47})]

LEMMA RoundMinified ==
  ASSUME NEW t \in Seq(Byte), NEW at \in Nat, at < Len(t), NEW into, NEW c, c = t[at + 1]
  PROVE  RoundMakes(t, at, into, c, minify_byte(t, Minifying(at, into)))
<1> DEFINE m == Minifying(at, into)
           n == at + 1
           isEnd == c = 0
           isWhite == c \in {Space, Tab, 13, NewLine}
           isLine == c = 47 /\ t[n + 1] = 47
           isBlock == c = 47 /\ t[n + 1] = 42
           end == IF c = Quote THEN EndOfString(t, n) ELSE n
           white == [m EXCEPT !.at = n + 1]
           line == [m EXCEPT !.at = Min({k \in n..Len(t) : t[k] \in {0, NewLine}})]
           block == [m EXCEPT !.at = 2 + Min({k \in n..Len(t) : t[k] = 42 /\ t[k + 1] = 47})]
           kept == [at |-> end + 1, into |-> m.into \o SubSeq(t, n, end)]
           r == minify_byte(t, m)
<1>1. m.at = n /\ m.into = into
  BY DEF Minifying
<1>2. r = CASE isEnd -> m [] isWhite -> white [] isLine -> line [] isBlock -> block [] OTHER -> kept
  BY <1>1, Zenon DEF minify_byte
<1>3. white = Minifying(at + 1, into)
  <2>1. m = [at |-> n, into |-> into]
    BY DEF Minifying
  <2> HIDE DEF m
  <2>2. white = [at |-> n + 1, into |-> into]
    BY <2>1
  <2> QED
    BY <2>2 DEF Minifying
<1>4. c # Quote => kept = Minifying(at + 1, into \o <<c>>)
  <2>1. SubSeq(t, n, n) = <<t[n]>>
    <3>1. n \in 1..Len(t)
      OBVIOUS
    <3> HIDE DEF n
    <3> QED
      BY <3>1, OneByte
  <2>2. SubSeq(t, n, n) = <<c>>
    BY <2>1
  <2> HIDE DEF n
  <2> SUFFICES ASSUME c # Quote
               PROVE  kept = Minifying(n, into \o <<c>>)
    BY DEF n
  <2>3. end = n
    OBVIOUS
  <2> HIDE DEF end
  <2> QED
    BY <1>1, <2>2, <2>3, Zenon DEF Minifying
<1>5. c = Quote => kept = Minifying(EndOfString(t, n), into \o SubSeq(t, n, EndOfString(t, n)))
  <2> HIDE DEF m, n
  <2> SUFFICES ASSUME c = Quote
               PROVE  kept = Minifying(EndOfString(t, n), into \o SubSeq(t, n, EndOfString(t, n)))
    OBVIOUS
  <2>1. end = EndOfString(t, n)
    OBVIOUS
  <2> HIDE DEF end
  <2> QED
    BY <1>1, <2>1, Zenon DEF Minifying
<1>6. /\ Quote \notin {0, Space, Tab, 13, NewLine, 47}
      /\ 0 \notin {Space, Tab, 13, NewLine} /\ 47 \notin {0, Space, Tab, 13, NewLine} /\ 42 # 47
  BY DEF Quote, Space, Tab, NewLine
<1>7. /\ isEnd => r = m
      /\ isWhite => r = white
      /\ c \notin {0, Space, Tab, 13, NewLine, 47} => r = kept
      /\ isLine => r = line
      /\ isBlock => r = block
  <2> HIDE DEF m, n, white, line, block, kept, end
  <2> QED
    BY <1>2, <1>6, SMT
<1>8. /\ c = 0 => r = Minifying(at, into)
      /\ c \in {Space, Tab, 13, NewLine} => r = Minifying(at + 1, into)
      /\ c \notin {0, Space, Tab, 13, NewLine, 47, Quote} => r = Minifying(at + 1, into \o <<c>>)
      /\ c = Quote => r = Minifying(EndOfString(t, n), into \o SubSeq(t, n, EndOfString(t, n)))
      /\ c = 47 /\ t[n + 1] = 47 => r = line
      /\ c = 47 /\ t[n + 1] = 42 => r = block
  <2>1. c \notin {0, Space, Tab, 13, NewLine, 47, Quote} => c \notin {0, Space, Tab, 13, NewLine, 47} /\ c # Quote
    OBVIOUS
  <2> HIDE DEF r, kept, white, end, line, block, n
  <2> QED
    BY <1>3, <1>4, <1>5, <1>6, <1>7, <2>1, Zenon
<1> QED
  BY <1>8, Zenon DEF RoundMakes

\* However Minify came to an offset, in no more rounds than there are bytes before it:
\* it comes to the next one, and keeps u of what is between them.
Shrinks(rounds, from, to, u) ==
  \A k \in Nat, into \in Seq(Byte) : k <= from /\ rounds[k] = Minifying(from, into) =>
    \E l \in Nat : l <= to /\ rounds[l] = Minifying(to, into \o u)
RoundsOf(t, rounds) == \A k \in 1..Len(t) : rounds[k] = minify_byte(t, rounds[k - 1])

LEMMA JoinThree ==
  ASSUME NEW a \in Seq(Byte), NEW b \in Seq(Byte), NEW c \in Seq(Byte)
  PROVE  /\ (a \o b) \o c = a \o (b \o c) /\ a \o b \in Seq(Byte) /\ a \o <<>> = a /\ <<>> \o a = a
OBVIOUS

LEMMA ShrinksOn ==
  ASSUME NEW rounds, NEW from, NEW mid, NEW to, NEW u \in Seq(Byte), NEW w \in Seq(Byte),
         Shrinks(rounds, from, mid, u), Shrinks(rounds, mid, to, w)
  PROVE  Shrinks(rounds, from, to, u \o w)
<1> SUFFICES ASSUME NEW k \in Nat, NEW into \in Seq(Byte), k <= from, rounds[k] = Minifying(from, into)
             PROVE  \E l \in Nat : l <= to /\ rounds[l] = Minifying(to, into \o (u \o w))
  BY DEF Shrinks
<1>1. PICK l \in Nat : l <= mid /\ rounds[l] = Minifying(mid, into \o u)
  BY Zenon DEF Shrinks
<1>2. into \o u \in Seq(Byte) /\ (into \o u) \o w = into \o (u \o w)
  BY JoinThree
<1>3. PICK n \in Nat : n <= to /\ rounds[n] = Minifying(to, (into \o u) \o w)
  BY <1>1, <1>2, Zenon DEF Shrinks
<1> QED
  BY <1>2, <1>3, Zenon

LEMMA ShrinksStill ==
  ASSUME NEW rounds, NEW at
  PROVE  Shrinks(rounds, at, at, <<>>)
<1> SUFFICES ASSUME NEW k \in Nat, NEW into \in Seq(Byte), k <= at, rounds[k] = Minifying(at, into)
             PROVE  \E l \in Nat : l <= at /\ rounds[l] = Minifying(at, into \o <<>>)
  BY DEF Shrinks
<1>1. into \o <<>> = into
  BY JoinThree
<1> QED
  BY <1>1, Zenon

\* From place to place, what is kept is put together from what is kept of each.
LEMMA ShrinksAlong ==
  ASSUME NEW rounds, NEW N \in Nat, NEW p, NEW f, f[0] = <<>>,
         \A n \in 1..N : \E w \in Seq(Byte) :
            f[n - 1] \in Seq(Byte) /\ f[n] = f[n - 1] \o w /\ Shrinks(rounds, p[n - 1], p[n], w)
  PROVE  Shrinks(rounds, p[0], p[N], f[N])
<1> DEFINE T == {n \in 0..N : Shrinks(rounds, p[0], p[n], f[n])}
<1>1. 0 \in T
  <2>1. Shrinks(rounds, p[0], p[0], <<>>)
    BY ShrinksStill
  <2> QED
    BY <2>1
<1>2. ASSUME NEW n \in 1..N, n - 1 \in T
      PROVE  n \in T
  <2>1. PICK w \in Seq(Byte) :
          f[n - 1] \in Seq(Byte) /\ f[n] = f[n - 1] \o w /\ Shrinks(rounds, p[n - 1], p[n], w)
    OBVIOUS
  <2>2. PICK before \in Seq(Byte) : before = f[n - 1]
    BY <2>1
  <2>3. Shrinks(rounds, p[0], p[n - 1], before)
    BY <1>2, <2>2
  <2>4. Shrinks(rounds, p[0], p[n], before \o w)
    BY <2>1, <2>3, ShrinksOn, Zenon
  <2>5. n \in 0..N
    OBVIOUS
  <2> QED
    BY <2>1, <2>2, <2>4, <2>5, Zenon
<1>3. 0..N \subseteq T
  <2> HIDE DEF T
  <2> QED
    BY <1>1, <1>2, ClimbTo
<1>4. N \in 0..N
  OBVIOUS
<1> QED
  BY <1>3, <1>4

\* What one round does.
LEMMA RoundShrinks ==
  ASSUME NEW t, Len(t) \in Nat, NEW rounds, RoundsOf(t, rounds), NEW from \in Nat, from < Len(t),
         NEW to \in Nat, from < to, NEW u,
         \A into \in Seq(Byte) : minify_byte(t, Minifying(from, into)) = Minifying(to, into \o u)
  PROVE  Shrinks(rounds, from, to, u)
<1> SUFFICES ASSUME NEW k \in Nat, NEW into \in Seq(Byte), k <= from, rounds[k] = Minifying(from, into)
             PROVE  \E l \in Nat : l <= to /\ rounds[l] = Minifying(to, into \o u)
  BY DEF Shrinks
<1>1. PICK l \in 1..Len(t) : l = k + 1
  OBVIOUS
<1>2. l \in Nat /\ l <= to /\ l - 1 = k
  BY <1>1
<1>3. rounds[l] = minify_byte(t, rounds[l - 1])
  BY DEF RoundsOf
<1> QED
  BY <1>2, <1>3

LEMMA BlankShrinks ==
  ASSUME NEW t \in Seq(Byte), NEW rounds, RoundsOf(t, rounds), NEW at \in Nat, at < Len(t),
         t[at + 1] \in {Space, Tab, 13, NewLine}
  PROVE  Shrinks(rounds, at, at + 1, <<>>)
<1>1. PICK c : t \in Seq(Byte) /\ at \in Nat /\ at < Len(t) /\ c = t[at + 1] /\ c \in {Space, Tab, 13, NewLine}
  OBVIOUS
<1>2. ASSUME NEW into \in Seq(Byte)
      PROVE  minify_byte(t, Minifying(at, into)) = Minifying(at + 1, into \o <<>>)
  <2>1. minify_byte(t, Minifying(at, into)) = Minifying(at + 1, into)
    <3>1. RoundMakes(t, at, into, c, minify_byte(t, Minifying(at, into)))
      BY ONLY <1>1, RoundMinified
    <3> QED
      BY <1>1, <3>1, Zenon DEF RoundMakes
  <2>2. into \o <<>> = into
    BY JoinThree
  <2> QED
    BY <2>1, <2>2, Zenon
<1>3. at + 1 \in Nat /\ at < at + 1 /\ Len(t) \in Nat
  OBVIOUS
<1> QED
  BY <1>2, <1>3, RoundShrinks

LEMMA PlainShrinks ==
  ASSUME NEW t \in Seq(Byte), NEW rounds, RoundsOf(t, rounds), NEW at \in Nat, at < Len(t),
         NEW c, c = t[at + 1], c > Space, c # Quote, c # 47
  PROVE  Shrinks(rounds, at, at + 1, <<c>>)
<1>1. /\ t \in Seq(Byte) /\ at \in Nat /\ at < Len(t) /\ c = t[at + 1]
      /\ c \notin {0, Space, Tab, 13, NewLine, 47, Quote}
  BY DEF Space, Tab, NewLine
<1>2. ASSUME NEW into \in Seq(Byte)
      PROVE  minify_byte(t, Minifying(at, into)) = Minifying(at + 1, into \o <<c>>)
  <2>1. RoundMakes(t, at, into, c, minify_byte(t, Minifying(at, into)))
    BY ONLY <1>1, RoundMinified
  <2> QED
    BY <1>1, <2>1, Zenon DEF RoundMakes
<1>3. at + 1 \in Nat /\ at < at + 1 /\ Len(t) \in Nat
  OBVIOUS
<1> QED
  BY <1>2, <1>3, RoundShrinks

\* Where a quote closes depends on the text alone.
LEMMA QuoteOfText ==
  ASSUME NEW b, NEW c, b.text = c.text, NEW quote
  PROVE  FindQuote(b, quote) = FindQuote(c, quote)
<1>1. \A n : ByteAt(b, n) = ByteAt(c, n)
  BY Zenon DEF ByteAt
<1>2. Escapes(b, quote) = Escapes(c, quote)
  BY EscapesOfText
<1>3. PICK escapes : escapes = Escapes(b, quote) /\ escapes = Escapes(c, quote)
  BY <1>2
<1>4. PICK ends : ends = {n \in (quote + 1)..(Len(c.text) - 1) : ByteAt(c, n) = Quote /\ n - 1 \notin escapes}
  OBVIOUS
<1>5. ends = {n \in (quote + 1)..(Len(b.text) - 1) : ByteAt(b, n) = Quote /\ n - 1 \notin escapes}
  BY <1>1, <1>4, Zenon
<1> DEFINE found == IF ends = {} THEN [ok |-> FALSE, end |-> quote, skipped |-> 0]
                    ELSE [ok |-> TRUE, end |-> Min(ends), skipped |-> Cardinality({n \in escapes : n < Min(ends)})]
<1>6. FindQuote(b, quote) = found
  BY <1>3, <1>5, Zenon DEF FindQuote
<1>7. FindQuote(c, quote) = found
  BY <1>3, <1>4, Zenon DEF FindQuote
<1> HIDE DEF found
<1> QED
  BY <1>6, <1>7, Zenon

\* A string is kept as it is, whatever is in it.
LEMMA LiteralShrinks ==
  ASSUME NEW t \in Seq(Byte), t # <<>>, t[Len(t)] = 0, NEW rounds, RoundsOf(t, rounds),
         NEW at \in Nat, NEW input \in CharPointer, NEW s, s = Literal(input), Stands(t, at, s)
  PROVE  Shrinks(rounds, at, at + Len(s), s)
<1> DEFINE b == [text |-> t, offset |-> at, depth |-> 0, luck |-> 0, held |-> 0, overrun |-> FALSE]
           b0 == [text |-> t]
<1>1. Sound(b) /\ b.text = t /\ b.offset = at
  BY DEF Sound, ParseBuffer
<1>2. FindQuote(b0, at) = FindQuote(b, at)
  <2>1. b0.text = b.text
    OBVIOUS
  <2> HIDE DEF b0, b
  <2> QED
    BY <2>1, QuoteOfText
<1> HIDE DEF b
<1>3. AtLiteral(b, input)
  BY <1>1 DEF AtLiteral
<1>4. PICK string : string = Known(input)
  OBVIOUS
<1>5. PICK end : end = at + 1 + Len(Spelled(string))
  OBVIOUS
<1>6. /\ string \in Seq(Character) /\ end \in (at + 1)..(Len(t) - 1)
      /\ end + 1 = at + Len(s) /\ end + 1 < Len(t)
      /\ Sees(b, Quote) /\ ByteAt(b, end) = Quote
  BY <1>1, <1>3, <1>4, <1>5, LiteralWhere
<1>7. PICK q \in [0..Len(string) -> Nat] : /\ q[0] = at + 1 /\ q[Len(string)] = end
                                           /\ Spelling(q, b.text, string)
  <2>1. PICK start : start = b.offset /\ start = at
    BY <1>1
  <2>2. end = start + 1 + Len(Spelled(string))
    BY <1>5, <2>1
  <2>3. \E q \in [0..Len(string) -> Nat] : /\ q[0] = start + 1 /\ q[Len(string)] = end
                                           /\ Spelling(q, b.text, string)
    BY <1>1, <1>3, <1>4, <2>1, <2>2, LiteralWhere
  <2> QED
    BY <2>1, <2>3, Zenon
<1>8. FindQuote(b, at).end = end
  <2>1. end < Len(b.text)
    BY <1>1, <1>6
  <2>2. /\ Sound(b) /\ at \in Nat /\ string \in Seq(Character)
        /\ q[0] = at + 1 /\ Spelling(q, b.text, string) /\ end = q[Len(string)] /\ ByteAt(b, end) = Quote
        /\ q \in [0..Len(string) -> Nat]
    BY <1>1, <1>6, <1>7
  <2> QED
    BY ONLY <2>1, <2>2, SpelledEnds, Zenon
<1>9. EndOfString(t, at + 1) = end + 1
  <2>1. at + 1 - 1 = at
    OBVIOUS
  <2>2. EndOfString(t, at + 1) = FindQuote(b0, at).end + 1
    BY <2>1 DEF EndOfString
  <2> QED
    BY <1>2, <1>8, <2>2, Zenon
<1>10. PICK to \in Nat : to = end + 1
  BY <1>6
<1>11. at < Len(t) /\ at < to /\ t[at + 1] = Quote /\ to = at + Len(s) /\ to <= Len(t) /\ Len(t) \in Nat
  <2>1. t[at + 1] = Quote
    BY <1>1, <1>6, Zenon DEF Sees, ByteAt
  <2> QED
    BY <1>6, <1>10, <2>1
<1>12. SubSeq(t, at + 1, to) = s
  <2>1. s \in Seq(Character)
    BY LiteralSpelled
  <2>2. PICK n \in Nat : n = Len(s)
    BY <2>1
  <2>3. at + n <= Len(t) /\ at + n = to
    BY <1>11, <2>2
  <2>4. PICK slice \in Seq(Byte) : /\ slice = SubSeq(t, at + 1, at + n)
                                   /\ Len(slice) = n /\ \A m \in 1..n : slice[m] = t[at + m]
    BY <2>3, SliceIs
  <2>6. \A m \in 1..n : t[at + m] = s[m]
    BY <2>2 DEF Stands
  <2>7. slice \in Seq(Byte) /\ s \in Seq(Character) /\ Len(slice) = Len(s) /\ \A m \in 1..Len(slice) : slice[m] = s[m]
    BY <2>1, <2>2, <2>4, <2>6
  <2>8. slice = s
    BY <2>7
  <2> QED
    BY <2>3, <2>4, <2>8, Zenon
<1>13. ASSUME NEW into \in Seq(Byte)
       PROVE  minify_byte(t, Minifying(at, into)) = Minifying(to, into \o s)
  <2>1. PICK c : c = Quote
    OBVIOUS
  <2>2. t \in Seq(Byte) /\ at \in Nat /\ at < Len(t) /\ c = t[at + 1]
    BY <1>11, <2>1
  <2>3. RoundMakes(t, at, into, c, minify_byte(t, Minifying(at, into)))
    BY ONLY <2>2, RoundMinified
  <2> QED
    BY <1>9, <1>10, <1>12, <2>1, <2>3, Zenon DEF RoundMakes
<1>14. Shrinks(rounds, at, to, s)
  BY <1>11, <1>13, RoundShrinks
<1> QED
  BY <1>11, <1>14, Zenon

\* What a place in a text is when it is the first of its kind.
LEMMA FirstIs ==
  ASSUME NEW S \in SUBSET Nat, NEW m \in S, \A k \in S : m <= k
  PROVE  Min(S) = m
<1>1. Min(S) \in S /\ Min(S) <= m
  BY MinIs
<1>2. PICK l \in Nat : l = Min(S)
  BY <1>1
<1>3. l <= m /\ m <= l /\ m \in Nat
  BY <1>1, <1>2
<1> QED
  BY <1>2, <1>3

\* A comment to the end of the line is skipped in two rounds.
LEMMA LineShrinks ==
  ASSUME NEW t \in Seq(Byte), NEW rounds, RoundsOf(t, rounds), NEW at \in Nat,
         NEW c \in Seq(Character), Stands(t, at, c), NEW len, len = Len(c), len > 2, c[1] = 47, c[2] = 47,
         {n \in DOMAIN c : c[n] = NewLine} = {len}
  PROVE  Shrinks(rounds, at, at + len, <<>>)
<1>1. len \in Nat /\ Len(t) \in Nat /\ at + len <= Len(t) /\ \A n \in 1..len : t[at + n] = c[n]
  BY DEF Stands
<1>2. c[len] = NewLine /\ \A n \in 1..len : c[n] = NewLine => n = len
  <2>1. \A n \in DOMAIN c : c[n] = NewLine <=> n \in {len}
    BY Zenon
  <2>2. DOMAIN c = 1..len /\ len \in 1..len
    BY <1>1
  <2> QED
    BY <2>1, <2>2
<1>3. \A n \in 1..len : c[n] # 0
  BY DEF Character
<1> DEFINE S == {k \in (at + 1)..Len(t) : t[k] \in {0, NewLine}}
<1>4. Min(S) = at + len
  <2>1. S \in SUBSET Nat
    BY <1>1
  <2>2. at + len \in S
    <3>1. t[at + len] = NewLine /\ at + len \in (at + 1)..Len(t)
      BY <1>1, <1>2
    <3> QED
      BY <3>1
  <2>3. ASSUME NEW k \in S
        PROVE  at + len <= k
    <3>1. k \in (at + 1)..Len(t) /\ t[k] \in {0, NewLine}
      OBVIOUS
    <3>2. SUFFICES ASSUME ~(at + len <= k)
                   PROVE  FALSE
      OBVIOUS
    <3>3. PICK n \in 1..len : k = at + n /\ n # len
      <4>1. k - at \in 1..len /\ k = at + (k - at) /\ k - at # len
        BY <1>1, <3>1, <3>2
      <4> QED
        BY <4>1
    <3>4. t[k] = c[n]
      BY <1>1, <3>3
    <3> QED
      BY <1>2, <1>3, <3>1, <3>3, <3>4
  <2> HIDE DEF S
  <2> QED
    BY <2>1, <2>2, <2>3, FirstIs
<1>5. PICK mid \in Nat : mid + 1 = at + len /\ at < mid /\ at < Len(t) /\ mid < Len(t)
  <2>1. at + len - 1 \in Nat /\ (at + len - 1) + 1 = at + len /\ at < at + len - 1 /\ at < Len(t)
        /\ at + len - 1 < Len(t)
    BY <1>1
  <2> QED
    BY <2>1
<1>6. ASSUME NEW into \in Seq(Byte)
      PROVE  minify_byte(t, Minifying(at, into)) = Minifying(mid, into \o <<>>)
  <2>1. PICK slash : slash = 47
    OBVIOUS
  <2>2. t[at + 1] = slash /\ t[at + 1 + 1] = 47
    <3>1. 1 \in 1..len /\ 2 \in 1..len /\ at + 1 + 1 = at + 2
      BY <1>1
    <3> QED
      BY <1>1, <2>1, <3>1
  <2>3. t \in Seq(Byte) /\ at \in Nat /\ at < Len(t) /\ slash = t[at + 1]
    BY <1>5, <2>2
  <2>4. RoundMakes(t, at, into, slash, minify_byte(t, Minifying(at, into)))
    BY ONLY <2>3, RoundMinified
  <2>5. minify_byte(t, Minifying(at, into)) = [Minifying(at, into) EXCEPT !.at = Min(S)]
    BY <2>1, <2>2, <2>4, Zenon DEF RoundMakes
  <2>6. into \o <<>> = into
    BY JoinThree
  <2> HIDE DEF S
  <2>7. [Minifying(at, into) EXCEPT !.at = Min(S)] = Minifying(mid, into)
    BY <1>4, <1>5 DEF Minifying
  <2> QED
    BY <2>5, <2>6, <2>7, Zenon
<1>7. Shrinks(rounds, at, mid, <<>>)
  BY <1>1, <1>5, <1>6, RoundShrinks
<1>8. Shrinks(rounds, mid, mid + 1, <<>>)
  <2>1. t[mid + 1] \in {Space, Tab, 13, NewLine}
    <3>1. len \in 1..len
      BY <1>1
    <3> QED
      BY <1>1, <1>2, <1>5, <3>1
  <2> QED
    BY <1>5, <2>1, BlankShrinks
<1>9. PICK none \in Seq(Byte) : none = <<>> /\ none \o none = none
  <2>1. <<>> \in Seq(Byte) /\ <<>> \o <<>> = <<>>
    OBVIOUS
  <2> QED
    BY <2>1, Zenon
<1>10. PICK end : end = mid + 1 /\ end = at + len
  BY <1>5
<1>11. Shrinks(rounds, at, mid, none) /\ Shrinks(rounds, mid, end, none) /\ none \in Seq(Byte)
  BY <1>7, <1>8, <1>9, <1>10
<1>12. Shrinks(rounds, at, end, none \o none)
  BY ONLY <1>11, ShrinksOn, Zenon
<1> QED
  BY <1>9, <1>10, <1>12

\* A comment between stars is skipped in one.
LEMMA BlockShrinks ==
  ASSUME NEW t \in Seq(Byte), NEW rounds, RoundsOf(t, rounds), NEW at \in Nat,
         NEW c \in Seq(Character), Stands(t, at, c), NEW len, len = Len(c), len > 2, c[1] = 47, c[2] = 42,
         {n \in 2..(len - 1) : c[n] = 42 /\ c[n + 1] = 47} = {len - 1}
  PROVE  Shrinks(rounds, at, at + len, <<>>)
<1>1. len \in Nat /\ Len(t) \in Nat /\ at + len <= Len(t) /\ \A n \in 1..len : t[at + n] = c[n]
  BY DEF Stands
<1>2. PICK last \in Nat : last + 1 = len /\ last \in 2..last
  <2>1. len - 1 \in Nat /\ (len - 1) + 1 = len /\ len - 1 \in 2..(len - 1)
    BY <1>1
  <2> QED
    BY <2>1
<1>3. last = len - 1
  BY <1>2
<1>4. \A n \in 2..last : c[n] = 42 /\ c[n + 1] = 47 <=> n = last
  <2>1. \A n : n \in {k \in 2..last : c[k] = 42 /\ c[k + 1] = 47} <=> n \in {last}
    BY <1>3, Zenon
  <2> QED
    BY <2>1
<1> DEFINE S == {k \in (at + 1)..Len(t) : t[k] = 42 /\ t[k + 1] = 47}
<1>5. Min(S) = at + last
  <2>1. S \in SUBSET Nat
    BY <1>1
  <2>2. at + last \in S
    <3>1. at + last \in (at + 1)..Len(t) /\ last \in 1..len /\ last + 1 \in 1..len
          /\ at + last + 1 = at + (last + 1)
      BY <1>1, <1>2
    <3>2. c[last] = 42 /\ c[last + 1] = 47
      BY <1>2, <1>4
    <3>3. t[at + last] = 42 /\ t[at + last + 1] = 47
      BY <1>1, <3>1, <3>2
    <3> QED
      BY <3>1, <3>3
  <2>3. ASSUME NEW k \in S
        PROVE  at + last <= k
    <3>1. k \in (at + 1)..Len(t) /\ t[k] = 42 /\ t[k + 1] = 47
      OBVIOUS
    <3>2. SUFFICES ASSUME ~(at + last <= k)
                   PROVE  FALSE
      OBVIOUS
    <3>3. PICK n \in 1..len : k = at + n /\ n < last
      <4>1. k - at \in 1..len /\ k = at + (k - at) /\ k - at < last
        BY <1>1, <1>2, <3>1, <3>2
      <4> QED
        BY <4>1
    <3>4. n + 1 \in 1..len /\ k + 1 = at + (n + 1)
      BY <1>1, <1>2, <3>3
    <3>5. c[n] = 42 /\ c[n + 1] = 47
      BY <1>1, <3>1, <3>3, <3>4
    <3>6. n \in 2..last /\ n # last
      <4>1. n # 1
        BY <3>5
      <4> QED
        BY <1>2, <3>3, <4>1
    <3> QED
      BY <1>4, <3>5, <3>6
  <2> HIDE DEF S
  <2> QED
    BY <2>1, <2>2, <2>3, FirstIs
<1>6. PICK to \in Nat : to = at + len /\ at < to /\ at < Len(t) /\ to + 1 = 2 + (at + last)
  BY <1>1, <1>2
<1>7. ASSUME NEW into \in Seq(Byte)
      PROVE  minify_byte(t, Minifying(at, into)) = Minifying(to, into \o <<>>)
  <2>1. PICK slash : slash = 47
    OBVIOUS
  <2>2. t[at + 1] = slash /\ t[at + 1 + 1] = 42
    <3>1. 1 \in 1..len /\ 2 \in 1..len /\ at + 1 + 1 = at + 2
      BY <1>1
    <3> QED
      BY <1>1, <2>1, <3>1
  <2>3. t \in Seq(Byte) /\ at \in Nat /\ at < Len(t) /\ slash = t[at + 1]
    BY <1>6, <2>2
  <2>4. RoundMakes(t, at, into, slash, minify_byte(t, Minifying(at, into)))
    BY ONLY <2>3, RoundMinified
  <2>5. minify_byte(t, Minifying(at, into)) = [Minifying(at, into) EXCEPT !.at = 2 + Min(S)]
    BY <2>1, <2>2, <2>4, Zenon DEF RoundMakes
  <2>6. into \o <<>> = into
    BY JoinThree
  <2> HIDE DEF S
  <2>7. [Minifying(at, into) EXCEPT !.at = 2 + Min(S)] = Minifying(to, into)
    BY <1>5, <1>6 DEF Minifying
  <2> QED
    BY <2>5, <2>6, <2>7, Zenon
<1>8. Shrinks(rounds, at, to, <<>>)
  BY <1>1, <1>6, <1>7, RoundShrinks
<1> QED
  BY <1>6, <1>8

\* Whatever is a comment is skipped.
LEMMA CommentShrinks ==
  ASSUME NEW t \in Seq(Byte), NEW rounds, RoundsOf(t, rounds), NEW at \in Nat,
         NEW c, IsComment(c), Stands(t, at, c)
  PROVE  Shrinks(rounds, at, at + Len(c), <<>>)
<1> DEFINE Opens(star) == Len(c) > 2 /\ c[1] = 47 /\ c[2] = star
<1>1. /\ c \in Seq(Character)
      /\ \/ \E byte \in {Space, Tab, 13, NewLine} : c = <<byte>>
         \/ Opens(47) /\ {n \in DOMAIN c : c[n] = NewLine} = {Len(c)}
         \/ Opens(42) /\ {n \in 2..(Len(c) - 1) : c[n] = 42 /\ c[n + 1] = 47} = {Len(c) - 1}
  BY DEF IsComment
<1>2. CASE \E byte \in {Space, Tab, 13, NewLine} : c = <<byte>>
  <2>1. PICK byte \in {Space, Tab, 13, NewLine} : c = <<byte>>
    BY <1>2
  <2>2. Stands(t, at, <<byte>>) /\ Len(c) = 1
    BY <2>1
  <2>3. at + 1 <= Len(t) /\ t[at + 1] = byte
    BY <2>2, SignStands
  <2>4. at < Len(t) /\ t[at + 1] \in {Space, Tab, 13, NewLine}
    BY <2>1, <2>3
  <2> QED
    BY <2>2, <2>4, BlankShrinks
<1>3. CASE Opens(47) /\ {n \in DOMAIN c : c[n] = NewLine} = {Len(c)}
  BY <1>1, <1>3, LineShrinks
<1>4. CASE Opens(42) /\ {n \in 2..(Len(c) - 1) : c[n] = 42 /\ c[n + 1] = 47} = {Len(c) - 1}
  BY <1>1, <1>4, BlockShrinks
<1> QED
  BY <1>1, <1>2, <1>3, <1>4

\* p grows as g does.
GrowsAs(p, g, N) == \A n \in 1..N : \E z \in Seq(Byte) :
                      g[n - 1] \in Seq(Byte) /\ g[n] = g[n - 1] \o z /\ p[n] = p[n - 1] \o z

\* What grows as another sequence does, from x on, is that sequence behind x.
LEMMA JoinBehind ==
  ASSUME NEW N \in Nat, NEW x \in Seq(Byte), NEW p, NEW g, p[0] = x, g[0] = <<>>,
         GrowsAs(p, g, N)
  PROVE  p[N] = x \o g[N]
<1> DEFINE T == {n \in 0..N : p[n] = x \o g[n]}
<1>1. 0 \in T
  <2>1. x \o <<>> = x
    OBVIOUS
  <2> QED
    BY <2>1
<1>2. ASSUME NEW n \in 1..N, n - 1 \in T
      PROVE  n \in T
  <2>1. PICK z \in Seq(Byte) : g[n - 1] \in Seq(Byte) /\ g[n] = g[n - 1] \o z /\ p[n] = p[n - 1] \o z
    BY Zenon DEF GrowsAs
  <2>2. PICK y \in Seq(Byte) : y = g[n - 1]
    BY <2>1
  <2>3. p[n - 1] = x \o y
    BY <1>2, <2>2
  <2>4. (x \o y) \o z = x \o (y \o z)
    <3>1. x \in Seq(Byte) /\ y \in Seq(Byte) /\ z \in Seq(Byte)
      OBVIOUS
    <3> QED
      BY ONLY <3>1, JoinThree
  <2>5. p[n] = x \o g[n]
    BY <2>1, <2>2, <2>3, <2>4, Zenon
  <2>6. n \in 0..N
    OBVIOUS
  <2> QED
    BY <2>5, <2>6
<1>3. 0..N \subseteq T
  <2> HIDE DEF T
  <2> QED
    BY <1>1, <1>2, ClimbTo
<1>4. N \in 0..N
  OBVIOUS
<1> QED
  BY <1>3, <1>4

\* Pieces behind pieces make what those make, behind what these make.
LEMMA FlattenJoin ==
  ASSUME NEW a \in Seq(Seq(Byte)), NEW b \in Seq(Seq(Byte)), NEW d, d = a \o b
  PROVE  /\ FlattenSeq(d) = FlattenSeq(a) \o FlattenSeq(b)
         /\ FlattenSeq(a) \in Seq(Byte) /\ FlattenSeq(b) \in Seq(Byte)
<1>1. PICK M \in Nat, N \in Nat : M = Len(a) /\ N = Len(b)
  OBVIOUS
<1>2. /\ d \in Seq(Seq(Byte)) /\ Len(d) = M + N
      /\ \A n \in 1..(M + N) : d[n] = IF n <= M THEN a[n] ELSE b[n - M]
  BY <1>1, JoinIs
<1>3. \A n \in 1..M : d[n] = a[n]
  BY <1>2
<1>4. ASSUME NEW n \in 1..N
      PROVE  d[M + n] = b[n]
  <2>1. M + n \in 1..(M + N) /\ ~(M + n <= M) /\ (M + n) - M = n
    OBVIOUS
  <2> QED
    BY <1>2, <2>1
<1>5. (\A n \in 1..M : a[n] \in Seq(Byte)) /\ (\A n \in 1..N : b[n] \in Seq(Byte))
  BY <1>1
<1>6. PICK f \in [0..M -> Seq(Byte)] : Joins(f, a) /\ FlattenSeq(a) = f[M]
  BY <1>1, FlattenedIs
<1>7. PICK g \in [0..N -> Seq(Byte)] : Joins(g, b) /\ FlattenSeq(b) = g[N]
  BY <1>1, FlattenedIs
<1>8. PICK K \in Nat : K = M + N
  OBVIOUS
<1>9. PICK h \in [0..K -> Seq(Byte)] : Joins(h, d) /\ FlattenSeq(d) = h[K]
  <2>1. d \in Seq(Seq(Byte)) /\ Len(d) = K
    BY <1>2, <1>8
  <2>2. \E h \in [0..Len(d) -> Seq(Byte)] : Joins(h, d) /\ FlattenSeq(d) = h[Len(d)]
    BY ONLY <2>1, FlattenedIs
  <2> QED
    BY <2>1, <2>2, Zenon
<1>10. /\ f[0] = <<>> /\ \A n \in 1..M : f[n] = f[n - 1] \o a[n]
       /\ g[0] = <<>> /\ \A n \in 1..N : g[n] = g[n - 1] \o b[n]
       /\ h[0] = <<>> /\ \A n \in 1..K : h[n] = h[n - 1] \o d[n]
  BY <1>1, <1>2, <1>6, <1>7, <1>8, <1>9 DEF Joins
<1> DEFINE T == {n \in 0..M : h[n] = f[n]}
<1>11. M \in T
  <2>1. 0 \in T
    BY <1>10
  <2>2. ASSUME NEW n \in 1..M, n - 1 \in T
        PROVE  n \in T
    <3>1. n \in 1..K /\ n \in 0..M
      BY <1>8
    <3>2. h[n - 1] = f[n - 1]
      BY <2>2
    <3> QED
      BY <1>3, <1>10, <3>1, <3>2
  <2>3. 0..M \subseteq T
    <3> HIDE DEF T
    <3> QED
      BY <2>1, <2>2, ClimbTo
  <2>4. M \in 0..M
    OBVIOUS
  <2> QED
    BY <2>3, <2>4
<1>12. h[M + N] = f[M] \o g[N]
  <2> DEFINE p == [n \in 0..N |-> h[M + n]]
  <2>1. p[0] = f[M] /\ p[N] = h[M + N]
    <3>1. 0 \in 0..N /\ N \in 0..N /\ M + 0 = M
      OBVIOUS
    <3> QED
      BY <1>11, <3>1
  <2>2. ASSUME NEW n \in 1..N
        PROVE  \E z \in Seq(Byte) : g[n - 1] \in Seq(Byte) /\ g[n] = g[n - 1] \o z /\ p[n] = p[n - 1] \o z
    <3>1. M + n \in 1..K /\ (M + n) - 1 = M + (n - 1) /\ n \in 0..N /\ n - 1 \in 0..N
      BY <1>8
    <3>2. p[n] = h[M + n] /\ p[n - 1] = h[M + (n - 1)]
      BY <3>1
    <3> HIDE DEF p
    <3>3. g[n - 1] \in Seq(Byte) /\ b[n] \in Seq(Byte)
      BY <1>5, <1>7, <3>1
    <3>4. h[M + n] = h[M + (n - 1)] \o d[M + n]
      BY <1>10, <3>1
    <3> QED
      BY <1>4, <1>10, <3>2, <3>3, <3>4, Zenon
  <2>3. PICK x \in Seq(Byte) : x = f[M]
    BY <1>6
  <2> HIDE DEF p
  <2>4. p[0] = x /\ g[0] = <<>>
    BY <1>10, <2>1, <2>3
  <2>5. p[N] = x \o g[N]
    <3>1. GrowsAs(p, g, N)
      BY <2>2, Zenon DEF GrowsAs
    <3>2. N \in Nat /\ x \in Seq(Byte) /\ p[0] = x /\ g[0] = <<>>
      BY <2>4
    <3> QED
      BY ONLY <3>1, <3>2, JoinBehind, Zenon
  <2> QED
    BY <2>1, <2>3, <2>5, Zenon
<1>13. f[M] \in Seq(Byte) /\ g[N] \in Seq(Byte)
  BY <1>6, <1>7
<1> QED
  BY <1>6, <1>7, <1>8, <1>9, <1>12, <1>13

\* A sequence is made of its members, one by one.
LEMMA FlattenSingles ==
  ASSUME NEW S, NEW s \in Seq(S), NEW seqs, seqs = [n \in DOMAIN s |-> <<s[n]>>]
  PROVE  FlattenSeq(seqs) = s
<1>1. PICK N \in Nat : N = Len(s) /\ DOMAIN s = 1..N
  OBVIOUS
<1>2. /\ seqs \in Seq(Seq(S)) /\ Len(seqs) = N /\ \A n \in 1..N : seqs[n] = <<s[n]>> /\ s[n] \in S
  <2>1. \A n \in 1..N : s[n] \in S /\ <<s[n]>> \in Seq(S)
    BY <1>1
  <2>2. seqs = [n \in 1..N |-> <<s[n]>>]
    BY <1>1
  <2> QED
    BY <2>1, <2>2
<1>3. PICK f \in [0..N -> Seq(S)] : Joins(f, seqs) /\ FlattenSeq(seqs) = f[N]
  BY <1>2, FlattenedIs
<1>4. f[0] = <<>> /\ \A n \in 1..N : f[n] = f[n - 1] \o <<s[n]>>
  BY <1>2, <1>3 DEF Joins
<1> DEFINE T == {n \in 0..N : Len(f[n]) = n /\ \A m \in 1..n : f[n][m] = s[m]}
<1>5. 0 \in T
  BY <1>4
<1>6. ASSUME NEW n \in 1..N, n - 1 \in T
      PROVE  n \in T
  <2>1. PICK g \in Seq(S) : g = f[n - 1]
    <3>1. n - 1 \in 0..N
      OBVIOUS
    <3> QED
      BY <3>1
  <2>2. Len(g) = n - 1 /\ \A m \in 1..(n - 1) : g[m] = s[m]
    BY <1>6, <2>1
  <2>3. PICK x \in S : x = s[n]
    BY <1>2
  <2>4. PICK h : h = f[n] /\ h = g \o <<x>>
    BY <1>4, <2>1, <2>3
  <2>5. Len(h) = n /\ \A m \in 1..n : h[m] = IF m = n THEN x ELSE g[m]
    <3>1. <<x>> \in Seq(S) /\ Len(<<x>>) = 1 /\ <<x>>[1] = x
      BY <2>3
    <3>2. PICK one \in Seq(S) : one = <<x>> /\ Len(one) = 1 /\ one[1] = x
      BY <3>1, Zenon
    <3>3. /\ Len(g \o one) = Len(g) + Len(one)
          /\ \A m \in 1..(Len(g) + Len(one)) : (g \o one)[m] = IF m <= Len(g) THEN g[m] ELSE one[m - Len(g)]
      BY JoinIs
    <3>4. h = g \o one
      BY <2>4, <3>2
    <3> QED
      BY <2>2, <3>2, <3>3, <3>4
  <2>6. \A m \in 1..n : h[m] = s[m]
    <3> SUFFICES ASSUME NEW m \in 1..n
                 PROVE  h[m] = s[m]
      OBVIOUS
    <3>1. CASE m = n
      BY <2>3, <2>5, <3>1
    <3>2. CASE m # n
      <4>1. m \in 1..(n - 1)
        BY <3>2
      <4> QED
        BY <2>2, <2>5, <3>2, <4>1
    <3> QED
      BY <3>1, <3>2
  <2>7. n \in 0..N
    OBVIOUS
  <2> QED
    BY <2>4, <2>5, <2>6, <2>7
<1>7. N \in T
  <2>1. 0..N \subseteq T
    <3> HIDE DEF T
    <3> QED
      BY <1>5, <1>6, ClimbTo
  <2>2. N \in 0..N
    OBVIOUS
  <2> QED
    BY <2>1, <2>2
<1>8. PICK made \in Seq(S) : made = f[N]
  BY <1>3
<1>9. Len(made) = Len(s) /\ \A m \in 1..Len(made) : made[m] = s[m]
  BY <1>1, <1>7, <1>8
<1>10. made = s
  BY <1>9, SeqEqual
<1> QED
  BY <1>3, <1>8, <1>10

\* A text with a comment in the place of every tab.
Commented(s, c) == FlattenSeq([n \in DOMAIN s |-> IF s[n] = Tab THEN c ELSE <<s[n]>>])

LEMMA CommentedIs ==
  ASSUME NEW S, NEW c \in Seq(S), NEW s \in Seq(S), NEW seqs,
         seqs = [n \in DOMAIN s |-> IF s[n] = Tab THEN c ELSE <<s[n]>>]
  PROVE  seqs \in Seq(Seq(S)) /\ Commented(s, c) \in Seq(S) /\ Commented(s, c) = FlattenSeq(seqs)
<1>1. PICK N \in Nat : N = Len(s) /\ DOMAIN s = 1..N
  OBVIOUS
<1>2. \A n \in 1..N : (IF s[n] = Tab THEN c ELSE <<s[n]>>) \in Seq(S)
  <2>1. \A n \in 1..N : s[n] \in S /\ <<s[n]>> \in Seq(S)
    BY <1>1
  <2> QED
    BY <2>1, Zenon
<1>3. seqs \in Seq(Seq(S))
  <2> DEFINE piece(n) == IF s[n] = Tab THEN c ELSE <<s[n]>>
  <2>1. seqs = [n \in 1..N |-> piece(n)]
    BY <1>1
  <2>2. \A n \in 1..N : piece(n) \in Seq(S)
    BY <1>2
  <2>3. PICK X : X = Seq(S)
    OBVIOUS
  <2> HIDE DEF piece
  <2>4. seqs \in [1..N -> X]
    BY <2>1, <2>2, <2>3, Zenon
  <2>5. seqs \in Seq(X)
    BY <2>4
  <2> QED
    BY <2>3, <2>5
<1>4. Commented(s, c) = FlattenSeq(seqs)
  BY Zenon DEF Commented
<1>5. PICK f \in [0..Len(seqs) -> Seq(S)] : Joins(f, seqs) /\ FlattenSeq(seqs) = f[Len(seqs)]
  BY <1>3, FlattenedIs
<1>6. f[Len(seqs)] \in Seq(S)
  <2>1. Len(seqs) \in 0..Len(seqs)
    BY <1>3
  <2> QED
    BY <2>1
<1> QED
  BY <1>3, <1>4, <1>5, <1>6, Zenon

\* The parts of a text get their comments apart.
LEMMA CommentedJoin ==
  ASSUME NEW c \in Seq(Byte), NEW s \in Seq(Byte), NEW t \in Seq(Byte)
  PROVE  Commented(s \o t, c) = Commented(s, c) \o Commented(t, c)
<1> DEFINE piece(x) == IF x = Tab THEN c ELSE <<x>>
<1>1. PICK a : a = [n \in DOMAIN s |-> piece(s[n])]
  OBVIOUS
<1>2. PICK b : b = [n \in DOMAIN t |-> piece(t[n])]
  OBVIOUS
<1>3. PICK u \in Seq(Byte) : u = s \o t
  <2>1. s \o t \in Seq(Byte)
    OBVIOUS
  <2> QED
    BY <2>1
<1>4. PICK d : d = [n \in DOMAIN u |-> piece(u[n])]
  OBVIOUS
<1>5. /\ a \in Seq(Seq(Byte)) /\ Commented(s, c) = FlattenSeq(a)
      /\ b \in Seq(Seq(Byte)) /\ Commented(t, c) = FlattenSeq(b)
      /\ d \in Seq(Seq(Byte)) /\ Commented(u, c) = FlattenSeq(d)
  BY <1>1, <1>2, <1>4, CommentedIs
<1> HIDE DEF piece
<1>6. d = a \o b
  <2>1. PICK M \in Nat, N \in Nat : M = Len(s) /\ N = Len(t) /\ DOMAIN s = 1..M /\ DOMAIN t = 1..N
    OBVIOUS
  <2>2. /\ Len(u) = M + N /\ DOMAIN u = 1..(M + N)
        /\ \A n \in 1..(M + N) : u[n] = IF n <= M THEN s[n] ELSE t[n - M]
    BY <1>3, <2>1, JoinIs
  <2>3. Len(a) = M /\ \A n \in 1..M : a[n] = piece(s[n])
    BY <1>1, <2>1
  <2>4. Len(b) = N /\ \A n \in 1..N : b[n] = piece(t[n])
    BY <1>2, <2>1
  <2>5. Len(d) = M + N /\ \A n \in 1..(M + N) : d[n] = piece(u[n])
    BY <1>4, <2>2
  <2>6. PICK e : e = a \o b /\ e \in Seq(Seq(Byte)) /\ Len(e) = M + N
                 /\ \A n \in 1..(M + N) : e[n] = IF n <= M THEN a[n] ELSE b[n - M]
    <3>1. PICK X : X = Seq(Byte)
      OBVIOUS
    <3>2. a \in Seq(X) /\ b \in Seq(X)
      BY <1>5, <3>1
    <3>3. /\ a \o b \in Seq(X) /\ Len(a \o b) = Len(a) + Len(b)
          /\ \A n \in 1..(Len(a) + Len(b)) : (a \o b)[n] = IF n <= Len(a) THEN a[n] ELSE b[n - Len(a)]
      BY ONLY <3>2, JoinIs
    <3> QED
      BY <2>3, <2>4, <3>1, <3>3, Zenon
  <2>7. ASSUME NEW n \in 1..(M + N)
        PROVE  d[n] = e[n]
    <3>1. CASE n <= M
      <4>1. n \in 1..M
        BY <3>1
      <4> QED
        BY <2>2, <2>3, <2>5, <2>6, <3>1, <4>1, Zenon
    <3>2. CASE ~(n <= M)
      <4>1. n - M \in 1..N
        BY <3>2
      <4> QED
        BY <2>2, <2>4, <2>5, <2>6, <3>2, <4>1, Zenon
    <3> QED
      BY <3>1, <3>2
  <2>8. d \in Seq(Seq(Byte)) /\ e \in Seq(Seq(Byte)) /\ Len(d) = Len(e) /\ \A n \in 1..Len(d) : d[n] = e[n]
    BY <1>5, <2>5, <2>6, <2>7
  <2>9. d = e
    BY <2>8, SeqEqual
  <2> QED
    BY <2>6, <2>9
<1>7. FlattenSeq(d) = FlattenSeq(a) \o FlattenSeq(b)
  BY <1>5, <1>6, FlattenJoin
<1> QED
  BY <1>3, <1>5, <1>7

\* Without tabs there is no place for a comment.
LEMMA CommentedNowhere ==
  ASSUME NEW S, NEW s \in Seq(S), NEW c, \A n \in 1..Len(s) : s[n] # Tab
  PROVE  Commented(s, c) = s
<1>1. DOMAIN s = 1..Len(s)
  OBVIOUS
<1>2. PICK seqs : seqs = [n \in DOMAIN s |-> <<s[n]>>]
  OBVIOUS
<1>3. [n \in DOMAIN s |-> IF s[n] = Tab THEN c ELSE <<s[n]>>] = seqs
  BY <1>1, <1>2, Zenon
<1>4. FlattenSeq(seqs) = s
  BY <1>2, FlattenSingles
<1> QED
  BY <1>3, <1>4, Zenon DEF Commented

\* Wherever the bytes x stand in a text, Minify keeps u of them.
Cleans(x, u) ==
  \A rounds : \A t \in Seq(Byte), at \in Nat :
    t # <<>> /\ t[Len(t)] = 0 /\ RoundsOf(t, rounds) /\ Stands(t, at, x) =>
      Shrinks(rounds, at, at + Len(x), u)

LEMMA CleansJoin ==
  ASSUME NEW x \in Seq(Character), NEW y \in Seq(Character), NEW u \in Seq(Byte), NEW w \in Seq(Byte),
         Cleans(x, u), Cleans(y, w)
  PROVE  Cleans(x \o y, u \o w)
<1> SUFFICES ASSUME NEW rounds, NEW t \in Seq(Byte), NEW at \in Nat,
                    t # <<>>, t[Len(t)] = 0, RoundsOf(t, rounds), Stands(t, at, x \o y)
             PROVE  Shrinks(rounds, at, at + Len(x \o y), u \o w)
  BY Zenon DEF Cleans
<1>1. PICK s : s = x \o y
  OBVIOUS
<1>2. Stands(t, at, x) /\ Stands(t, at + Len(x), y) /\ Len(s) = Len(x) + Len(y)
  <2>1. Len(t) \in Nat /\ Stands(t, at, s) /\ s = x \o y
        /\ at \in Nat /\ x \in Seq(Character) /\ y \in Seq(Character)
    BY <1>1
  <2>2. Stands(t, at, x)
    BY ONLY <2>1, StandsApart, Zenon
  <2>3. Stands(t, at + Len(x), y)
    BY ONLY <2>1, StandsApart, Zenon
  <2>4. Len(s) = Len(x) + Len(y)
    BY <1>1, JoinIs
  <2> QED
    BY <2>2, <2>3, <2>4
<1>3. PICK mid \in Nat, to \in Nat : mid = at + Len(x) /\ to = mid + Len(y) /\ to = at + Len(s)
  <2>1. PICK M \in Nat, N \in Nat : M = Len(x) /\ N = Len(y)
    OBVIOUS
  <2>2. Len(s) = M + N
    BY <1>2, <2>1
  <2>3. at + M \in Nat /\ (at + M) + N \in Nat /\ (at + M) + N = at + (M + N)
    OBVIOUS
  <2> QED
    BY <2>1, <2>2, <2>3, Zenon
<1>4. Shrinks(rounds, at, mid, u)
  <2>1. Shrinks(rounds, at, at + Len(x), u)
    BY <1>2, Zenon DEF Cleans
  <2> QED
    BY <1>3, <2>1, Zenon
<1>5. Shrinks(rounds, mid, to, w)
  <2>1. Stands(t, mid, y)
    BY <1>2, <1>3, Zenon
  <2>2. Shrinks(rounds, mid, mid + Len(y), w)
    BY <2>1, Zenon DEF Cleans
  <2> QED
    BY <1>3, <2>2, Zenon
<1>6. u \in Seq(Byte) /\ w \in Seq(Byte)
  OBVIOUS
<1>7. Shrinks(rounds, at, to, u \o w)
  BY ONLY <1>4, <1>5, <1>6, ShrinksOn, Zenon
<1> QED
  BY <1>1, <1>3, <1>7, Zenon

\* With the comment c for its tabs, the text s is shortened to u.
Cleaned(c, s, u) == s \in Seq(Character) /\ u \in Seq(Character) /\ Cleans(Commented(s, c), u)

LEMMA CleanedJoin ==
  ASSUME NEW c \in Seq(Character), NEW s, NEW u, Cleaned(c, s, u), NEW t, NEW w, Cleaned(c, t, w)
  PROVE  Cleaned(c, s \o t, u \o w)
<1>1. /\ s \in Seq(Character) /\ u \in Seq(Character) /\ t \in Seq(Character) /\ w \in Seq(Character)
      /\ Cleans(Commented(s, c), u) /\ Cleans(Commented(t, c), w)
  BY Zenon DEF Cleaned
<1>2. c \in Seq(Byte) /\ s \in Seq(Byte) /\ t \in Seq(Byte) /\ u \in Seq(Byte) /\ w \in Seq(Byte)
  BY <1>1, CharactersAreBytes
<1>3. PICK x \in Seq(Character) : x = Commented(s, c)
  <2>1. Commented(s, c) \in Seq(Character)
    <3>1. PICK seqs : seqs = [n \in DOMAIN s |-> IF s[n] = Tab THEN c ELSE <<s[n]>>]
      OBVIOUS
    <3> QED
      BY <1>1, <3>1, CommentedIs
  <2> QED
    BY <2>1, Zenon
<1>4. PICK y \in Seq(Character) : y = Commented(t, c)
  <2>1. Commented(t, c) \in Seq(Character)
    <3>1. PICK seqs : seqs = [n \in DOMAIN t |-> IF t[n] = Tab THEN c ELSE <<t[n]>>]
      OBVIOUS
    <3> QED
      BY <1>1, <3>1, CommentedIs
  <2> QED
    BY <2>1, Zenon
<1>5. Commented(s \o t, c) = x \o y
  BY <1>2, <1>3, <1>4, CommentedJoin, Zenon
<1>6. Cleans(x, u) /\ Cleans(y, w)
  BY <1>1, <1>3, <1>4, Zenon
<1>7. Cleans(x \o y, u \o w)
  BY ONLY <1>2, <1>3, <1>4, <1>6, CleansJoin, Zenon
<1>8. s \o t \in Seq(Character) /\ u \o w \in Seq(Character)
  BY <1>1, JoinIs
<1> QED
  BY <1>5, <1>7, <1>8, Zenon DEF Cleaned

LEMMA CleanedNone ==
  ASSUME NEW c \in Seq(Character)
  PROVE  Cleaned(c, <<>>, <<>>)
<1>1. PICK s \in Seq(Byte) : s = <<>>
  <2>1. <<>> \in Seq(Byte)
    OBVIOUS
  <2> QED
    BY <2>1, Zenon
<1>2. Len(s) = 0
  BY <1>1
<1>3. Commented(s, c) = s
  <2>1. \A n \in 1..Len(s) : s[n] # Tab
    BY <1>2
  <2> QED
    BY <2>1, CommentedNowhere
<1>4. Cleans(s, <<>>)
  <2> SUFFICES ASSUME NEW rounds, NEW t \in Seq(Byte), NEW at \in Nat
               PROVE  Shrinks(rounds, at, at + Len(s), <<>>)
    BY Zenon DEF Cleans
  <2>1. at + Len(s) = at
    BY <1>2
  <2> QED
    BY <2>1, ShrinksStill, Zenon
<1>5. <<>> \in Seq(Character)
  OBVIOUS
<1> QED
  BY <1>1, <1>3, <1>4, <1>5, Zenon DEF Cleaned

\* One after the other.
LEMMA CleanedAll ==
  ASSUME NEW c \in Seq(Character), NEW a \in Seq(Seq(Character)), NEW b \in Seq(Seq(Character)),
         Len(a) = Len(b), \A n \in 1..Len(a) : Cleaned(c, a[n], b[n])
  PROVE  Cleaned(c, FlattenSeq(a), FlattenSeq(b))
<1>1. PICK N \in Nat : N = Len(a) /\ N = Len(b)
  OBVIOUS
<1>2. PICK f \in [0..Len(a) -> Seq(Character)] : Joins(f, a) /\ FlattenSeq(a) = f[Len(a)]
  BY FlattenedIs
<1>3. PICK g \in [0..Len(b) -> Seq(Character)] : Joins(g, b) /\ FlattenSeq(b) = g[Len(b)]
  BY FlattenedIs
<1>4. /\ f[0] = <<>> /\ \A n \in 1..N : f[n] = f[n - 1] \o a[n]
      /\ g[0] = <<>> /\ \A n \in 1..N : g[n] = g[n - 1] \o b[n]
  BY <1>1, <1>2, <1>3 DEF Joins
<1> DEFINE T == {n \in 0..N : Cleaned(c, f[n], g[n])}
<1>5. 0 \in T
  <2>1. 0 \in 0..N
    OBVIOUS
  <2>2. Cleaned(c, f[0], g[0])
    BY <1>4, CleanedNone, Zenon
  <2> QED
    BY <2>1, <2>2
<1>6. ASSUME NEW n \in 1..N, n - 1 \in T
      PROVE  n \in T
  <2>1. n \in 0..N
    OBVIOUS
  <2>2. Cleaned(c, f[n - 1], g[n - 1])
    BY <1>6, Zenon
  <2>3. Cleaned(c, a[n], b[n])
    BY <1>1
  <2>4. c \in Seq(Character)
    OBVIOUS
  <2>5. Cleaned(c, f[n - 1] \o a[n], g[n - 1] \o b[n])
    BY ONLY <2>2, <2>3, <2>4, CleanedJoin, Zenon
  <2>6. Cleaned(c, f[n], g[n])
    BY <1>4, <2>5, Zenon
  <2> QED
    BY <2>1, <2>6
<1>7. 0..N \subseteq T
  <2> HIDE DEF T
  <2> QED
    BY <1>5, <1>6, ClimbTo
<1>8. N \in 0..N
  OBVIOUS
<1> QED
  BY <1>1, <1>2, <1>3, <1>7, <1>8

\* A byte that is kept, and one that is not.
LEMMA CleanedPlain ==
  ASSUME NEW c \in Seq(Character), NEW x \in Character, x > Space, x # Quote, x # 47
  PROVE  Cleaned(c, <<x>>, <<x>>)
<1>1. x \in Byte /\ <<x>> \in Seq(Character) /\ Len(<<x>>) = 1 /\ <<x>>[1] = x
  BY DEF Character
<1>2. Commented(<<x>>, c) = <<x>>
  <2>1. x # Tab
    BY DEF Tab, Space
  <2>2. \A n \in 1..Len(<<x>>) : <<x>>[n] # Tab
    BY <1>1, <2>1
  <2> QED
    BY <1>1, <2>2, CommentedNowhere
<1>3. Cleans(<<x>>, <<x>>)
  <2> SUFFICES ASSUME NEW rounds, NEW t \in Seq(Byte), NEW at \in Nat, RoundsOf(t, rounds), Stands(t, at, <<x>>)
               PROVE  Shrinks(rounds, at, at + Len(<<x>>), <<x>>)
    BY Zenon DEF Cleans
  <2>1. at < Len(t) /\ t[at + 1] = x
    BY <1>1 DEF Stands
  <2>2. Shrinks(rounds, at, at + 1, <<x>>)
    BY <2>1, PlainShrinks
  <2> QED
    BY <1>1, <2>2, Zenon
<1> QED
  BY <1>1, <1>2, <1>3, Zenon DEF Cleaned

LEMMA CleanedBlank ==
  ASSUME NEW c, IsComment(c), NEW x \in {Space, Tab, NewLine}
  PROVE  Cleaned(c, <<x>>, <<>>)
<1>1. /\ x \in Character /\ x \in Byte /\ <<x>> \in Seq(Character) /\ Len(<<x>>) = 1 /\ <<x>>[1] = x
      /\ DOMAIN <<x>> = {1} /\ <<>> \in Seq(Character)
  BY DEF Character, Byte, Space, Tab, NewLine
<1>2. CASE x = Tab
  <2>1. Commented(<<x>>, c) = c
    <3>1. PICK e : e = <<c>>
      OBVIOUS
    <3>2. c \in Seq(Character)
      BY DEF IsComment
    <3>3. e \in Seq(Seq(Character)) /\ Len(e) = 1 /\ e[1] = c
      <4>1. PICK X : X = Seq(Character)
        OBVIOUS
      <4>2. c \in X
        BY <3>2, <4>1
      <4>3. e \in Seq(X) /\ Len(e) = 1 /\ e[1] = c
        BY <3>1, <4>2
      <4> QED
        BY <4>1, <4>3
    <3>4. PICK s \in Seq(Character) : s = <<x>>
      BY <1>1, Zenon
    <3>5. [n \in DOMAIN s |-> IF s[n] = Tab THEN c ELSE <<s[n]>>] = e
      <4>1. [n \in DOMAIN s |-> IF s[n] = Tab THEN c ELSE <<s[n]>>] = [n \in {1} |-> c]
        <5>1. DOMAIN s = {1} /\ s[1] = Tab
          BY <1>1, <1>2, <3>4, Zenon
        <5> QED
          BY <5>1
      <4>2. e = [n \in {1} |-> c]
        BY <3>1
      <4> QED
        BY <4>1, <4>2, Zenon
    <3>6. PICK f \in [0..Len(e) -> Seq(Character)] : Joins(f, e) /\ FlattenSeq(e) = f[Len(e)]
      BY <3>3, FlattenedIs
    <3>7. f[0] = <<>> /\ f[1] = f[0] \o e[1]
      <4>1. 1 \in 1..Len(e) /\ 1 - 1 = 0
        BY <3>3
      <4>2. f[0] = <<>> /\ f[1] = f[1 - 1] \o e[1]
        BY <3>6, <4>1, Zenon DEF Joins
      <4> QED
        BY <4>1, <4>2, Zenon
    <3>8. <<>> \o c = c
      BY <3>2
    <3>9. FlattenSeq(e) = c
      BY <3>3, <3>6, <3>7, <3>8
    <3> QED
      BY <3>4, <3>5, <3>9, Zenon DEF Commented
  <2>2. Cleans(c, <<>>)
    <3> SUFFICES ASSUME NEW rounds, NEW t \in Seq(Byte), NEW at \in Nat, RoundsOf(t, rounds), Stands(t, at, c)
                 PROVE  Shrinks(rounds, at, at + Len(c), <<>>)
      BY Zenon DEF Cleans
    <3> QED
      BY CommentShrinks
  <2> QED
    BY <1>1, <2>1, <2>2, Zenon DEF Cleaned
<1>3. CASE x # Tab
  <2>1. Commented(<<x>>, c) = <<x>>
    <3>1. \A n \in 1..Len(<<x>>) : <<x>>[n] # Tab
      BY <1>1, <1>3
    <3> QED
      BY <1>1, <3>1, CommentedNowhere
  <2>2. Cleans(<<x>>, <<>>)
    <3> SUFFICES ASSUME NEW rounds, NEW t \in Seq(Byte), NEW at \in Nat, RoundsOf(t, rounds), Stands(t, at, <<x>>)
                 PROVE  Shrinks(rounds, at, at + Len(<<x>>), <<>>)
      BY Zenon DEF Cleans
    <3>1. at < Len(t) /\ t[at + 1] \in {Space, Tab, 13, NewLine}
      BY <1>1 DEF Stands
    <3>2. Shrinks(rounds, at, at + 1, <<>>)
      BY <3>1, BlankShrinks
    <3> QED
      BY <1>1, <3>2, Zenon
  <2> QED
    BY <1>1, <2>1, <2>2, Zenon DEF Cleaned
<1> QED
  BY <1>2, <1>3

\* Bytes that are none of white space, quotes and slashes are all kept.
LEMMA CleanedKept ==
  ASSUME NEW c \in Seq(Character), NEW s \in Seq(Character),
         \A n \in 1..Len(s) : s[n] > Space /\ s[n] # Quote /\ s[n] # 47
  PROVE  Cleaned(c, s, s)
<1>1. PICK N \in Nat : N = Len(s) /\ DOMAIN s = 1..N
  OBVIOUS
<1>2. PICK a : a = [n \in DOMAIN s |-> <<s[n]>>]
  OBVIOUS
<1>3. FlattenSeq(a) = s
  BY <1>2, FlattenSingles
<1>4. a \in Seq(Seq(Character)) /\ Len(a) = N /\ \A n \in 1..N : a[n] = <<s[n]>>
  <2>1. \A n \in 1..N : <<s[n]>> \in Seq(Character)
    BY <1>1
  <2> QED
    BY <1>1, <1>2, <2>1
<1>5. ASSUME NEW n \in 1..N
      PROVE  Cleaned(c, a[n], a[n])
  <2>1. s[n] \in Character /\ s[n] > Space /\ s[n] # Quote /\ s[n] # 47
    BY <1>1
  <2>2. Cleaned(c, <<s[n]>>, <<s[n]>>)
    BY <2>1, CleanedPlain
  <2> QED
    BY <1>4, <2>2, Zenon
<1>6. Len(a) = Len(a) /\ \A n \in 1..Len(a) : Cleaned(c, a[n], a[n])
  BY <1>4, <1>5, Zenon
<1>7. c \in Seq(Character)
  OBVIOUS
<1>8. Cleaned(c, FlattenSeq(a), FlattenSeq(a))
  BY ONLY <1>4, <1>6, <1>7, CleanedAll, Zenon
<1> QED
  BY <1>3, <1>8, Zenon

\* White space is not.
LEMMA CleanedBlanks ==
  ASSUME NEW c, IsComment(c), NEW s \in Seq(Character), \A n \in 1..Len(s) : s[n] \in {Space, Tab, NewLine}
  PROVE  Cleaned(c, s, <<>>)
<1>1. PICK N \in Nat : N = Len(s) /\ DOMAIN s = 1..N
  OBVIOUS
<1>2. PICK a : a = [n \in DOMAIN s |-> <<s[n]>>]
  OBVIOUS
<1>3. FlattenSeq(a) = s
  BY <1>2, FlattenSingles
<1>4. a \in Seq(Seq(Character)) /\ Len(a) = N /\ \A n \in 1..N : a[n] = <<s[n]>>
  <2>1. \A n \in 1..N : <<s[n]>> \in Seq(Character)
    BY <1>1
  <2> QED
    BY <1>1, <1>2, <2>1
<1>5. PICK b : b = [n \in 1..N |-> <<>>]
  OBVIOUS
<1>6. b \in Seq(Seq(Character)) /\ Len(b) = N /\ \A n \in 1..N : b[n] = <<>>
  <2>1. PICK X : X = Seq(Character)
    OBVIOUS
  <2>2. <<>> \in X
    BY <2>1
  <2>3. b \in Seq(X) /\ Len(b) = N /\ \A n \in 1..N : b[n] = <<>>
    BY <1>5, <2>2
  <2> QED
    BY <2>1, <2>3
<1>7. FlattenSeq(b) = <<>>
  <2>1. PICK f \in [0..Len(b) -> Seq(Character)] : Joins(f, b) /\ FlattenSeq(b) = f[Len(b)]
    BY <1>6, FlattenedIs
  <2>2. f[0] = <<>> /\ \A n \in 1..N : f[n] = f[n - 1] \o <<>>
    BY <1>6, <2>1 DEF Joins
  <2> DEFINE T == {n \in 0..N : f[n] = <<>>}
  <2>3. 0 \in T
    BY <2>2
  <2>4. ASSUME NEW n \in 1..N, n - 1 \in T
        PROVE  n \in T
    <3>1. f[n] = f[n - 1] \o <<>> /\ f[n - 1] = <<>> /\ n \in 0..N
      BY <2>2, <2>4
    <3>2. <<>> \o <<>> = <<>>
      OBVIOUS
    <3> QED
      BY <3>1, <3>2, Zenon
  <2>5. 0..N \subseteq T
    <3> HIDE DEF T
    <3> QED
      BY <2>3, <2>4, ClimbTo
  <2>6. N \in 0..N
    OBVIOUS
  <2> QED
    BY <1>6, <2>1, <2>5, <2>6
<1>8. ASSUME NEW n \in 1..N
      PROVE  Cleaned(c, a[n], b[n])
  <2>1. s[n] \in {Space, Tab, NewLine}
    BY <1>1
  <2>2. Cleaned(c, <<s[n]>>, <<>>)
    BY ONLY IsComment(c), <2>1, CleanedBlank, Zenon
  <2> QED
    BY <1>4, <1>6, <2>2, Zenon
<1>9. Len(a) = Len(b) /\ \A n \in 1..Len(a) : Cleaned(c, a[n], b[n])
  BY <1>4, <1>6, <1>8, Zenon
<1>10. c \in Seq(Character)
  BY DEF IsComment
<1>11. Cleaned(c, FlattenSeq(a), FlattenSeq(b))
  BY ONLY <1>4, <1>6, <1>9, <1>10, CleanedAll, Zenon
<1> QED
  BY <1>3, <1>7, <1>11, Zenon

\* A printed string has no tab.
Untabbed == Character \ {Tab}

LEMMA EscapedUntabbed ==
  ASSUME NEW c \in Character
  PROVE  Escaped(c) \in Seq(Untabbed)
<1> DEFINE short == c \in {Quote, Backslash, 8, 12, NewLine, 13, Tab}
<1>1. DOMAIN ShortEscape = {Quote, Backslash, 8, 12, NewLine, 13, Tab}
  BY DEF ShortEscape
<1>2. CASE short
  <2>1. ShortEscape[c] \in Untabbed
    BY <1>2 DEF ShortEscape, Quote, Backslash, NewLine, Tab, Byte, Character, Untabbed
  <2>2. Escaped(c) = <<Backslash, ShortEscape[c]>>
    BY <1>1, <1>2, Zenon DEF Escaped
  <2> QED
    BY <2>1, <2>2 DEF Backslash, Byte, Character, Untabbed, Tab
<1>3. CASE ~short /\ c < 32
  <2>1. Escaped(c) = <<Backslash, 117, 48, 48, HexByte(c \div 16), HexByte(c % 16)>>
    BY <1>1, <1>3 DEF Escaped
  <2>2. HexByte(c \div 16) \in Untabbed /\ HexByte(c % 16) \in Untabbed
    BY <1>3 DEF HexByte, Byte, Character, Untabbed, Tab
  <2> QED
    BY <2>1, <2>2 DEF Backslash, Byte, Character, Untabbed, Tab
<1>4. CASE ~short /\ ~(c < 32)
  <2>1. Escaped(c) = <<c>>
    BY <1>1, <1>4 DEF Escaped
  <2>2. c \in Untabbed
    BY <1>4 DEF Untabbed
  <2> QED
    BY <2>1, <2>2
<1> QED
  BY <1>2, <1>3, <1>4

LEMMA LiteralUntabbed ==
  ASSUME NEW input \in CharPointer, NEW s, s = Literal(input)
  PROVE  s \in Seq(Character) /\ \A n \in 1..Len(s) : s[n] # Tab
<1>1. PICK string : string = IF input = NoText THEN <<>> ELSE input
  OBVIOUS
<1>2. string \in Seq(Character) /\ s = <<Quote>> \o Spelled(string) \o <<Quote>>
  BY <1>1, LiteralSpelled
<1>3. PICK seqs : seqs = [n \in DOMAIN string |-> Escaped(string[n])]
  OBVIOUS
<1>4. seqs \in Seq(Seq(Untabbed))
  <2>1. PICK N \in Nat : N = Len(string) /\ DOMAIN string = 1..N
    BY <1>2
  <2>2. \A n \in 1..N : Escaped(string[n]) \in Seq(Untabbed)
    BY <1>2, <2>1, EscapedUntabbed
  <2>3. PICK X : X = Seq(Untabbed)
    OBVIOUS
  <2>4. seqs \in [1..N -> X]
    BY <1>3, <2>1, <2>2, <2>3, Zenon
  <2>5. seqs \in Seq(X)
    BY <2>4
  <2> QED
    BY <2>3, <2>5
<1>5. PICK f \in [0..Len(seqs) -> Seq(Untabbed)] : Joins(f, seqs) /\ FlattenSeq(seqs) = f[Len(seqs)]
  BY <1>4, FlattenedIs
<1>6. Len(seqs) \in 0..Len(seqs)
  BY <1>4
<1>7. PICK body \in Seq(Untabbed) : body = Spelled(string)
  <2>1. Spelled(string) = FlattenSeq(seqs)
    BY <1>2, <1>3, SpelledIsFlattened
  <2>2. f[Len(seqs)] \in Seq(Untabbed)
    BY <1>6
  <2> QED
    BY <1>5, <2>1, <2>2
<1>8. Quote \in Untabbed
  BY DEF Quote, Untabbed, Tab, Character, Byte
<1>9. s \in Seq(Untabbed)
  <2>1. s = <<Quote>> \o body \o <<Quote>>
    BY <1>2, <1>7, Zenon
  <2> QED
    BY <1>8, <2>1
<1> QED
  BY <1>9 DEF Untabbed

LEMMA CleanedLiteral ==
  ASSUME NEW c \in Seq(Character), NEW input \in CharPointer, NEW s, s = Literal(input)
  PROVE  Cleaned(c, s, s)
<1>1. s \in Seq(Character) /\ \A n \in 1..Len(s) : s[n] # Tab
  BY LiteralUntabbed
<1>2. Commented(s, c) = s
  BY <1>1, CommentedNowhere
<1>3. Cleans(s, s)
  <2> SUFFICES ASSUME NEW rounds, NEW t \in Seq(Byte), NEW at \in Nat,
                      t # <<>>, t[Len(t)] = 0, RoundsOf(t, rounds), Stands(t, at, s)
               PROVE  Shrinks(rounds, at, at + Len(s), s)
    BY Zenon DEF Cleans
  <2> QED
    BY LiteralShrinks
<1> QED
  BY <1>1, <1>2, <1>3, Zenon DEF Cleaned

\* White space for the eye is not kept, where there is any.
LEMMA CleanedWhite ==
  ASSUME NEW c, IsComment(c), NEW format \in BOOLEAN, NEW no \in BOOLEAN, ~no, NEW depth \in Nat
  PROVE  /\ Cleaned(c, If(format, <<Space>>), If(no, <<Space>>))
         /\ Cleaned(c, If(format, <<Tab>>), If(no, <<Tab>>))
         /\ Cleaned(c, If(format, <<NewLine>>), If(no, <<NewLine>>))
         /\ Cleaned(c, If(format, Tabs(depth)), If(no, Tabs(depth)))
<1>1. c \in Seq(Character)
  BY DEF IsComment
<1>2. ASSUME NEW s \in Seq(Character), \A n \in 1..Len(s) : s[n] \in {Space, Tab, NewLine}
      PROVE  Cleaned(c, If(format, s), If(no, s))
  <2>1. If(no, s) = <<>>
    BY DEF If
  <2>2. CASE format
    <3>1. If(format, s) = s
      BY <2>2 DEF If
    <3>2. Cleaned(c, s, <<>>)
      BY <1>2, CleanedBlanks
    <3> QED
      BY <2>1, <3>1, <3>2, Zenon
  <2>3. CASE ~format
    <3>1. If(format, s) = <<>>
      BY <2>3 DEF If
    <3> QED
      BY <1>1, <2>1, <3>1, CleanedNone, Zenon
  <2> QED
    BY <2>2, <2>3
<1>3. \A n \in 1..Len(<<Space>>) : <<Space>>[n] \in {Space, Tab, NewLine}
  OBVIOUS
<1>4. \A n \in 1..Len(<<Tab>>) : <<Tab>>[n] \in {Space, Tab, NewLine}
  OBVIOUS
<1>5. \A n \in 1..Len(<<NewLine>>) : <<NewLine>>[n] \in {Space, Tab, NewLine}
  OBVIOUS
<1>6. Tabs(depth) \in Seq(Character) /\ \A n \in 1..Len(Tabs(depth)) : Tabs(depth)[n] \in {Space, Tab, NewLine}
  <2>1. Tabs(depth) \in Seq(Character) /\ Len(Tabs(depth)) = depth
    BY TabsCharacters
  <2>2. Tabs(depth) = [k \in 1..depth |-> Tab]
    BY DEF Tabs
  <2>3. \A n \in 1..depth : Tabs(depth)[n] = Tab
    BY <2>2
  <2> QED
    BY <2>1, <2>3, Zenon
<1> QED
  BY <1>2, <1>3, <1>4, <1>5, <1>6, Signs, Zenon

\* The signs of a list are kept.
LEMMA CleanedSigns ==
  ASSUME NEW c \in Seq(Character), NEW more
  PROVE  /\ Cleaned(c, <<Comma>>, <<Comma>>) /\ Cleaned(c, <<Colon>>, <<Colon>>)
         /\ Cleaned(c, <<Open.Array>>, <<Open.Array>>) /\ Cleaned(c, <<Close.Array>>, <<Close.Array>>)
         /\ Cleaned(c, <<Open.Object>>, <<Open.Object>>) /\ Cleaned(c, <<Close.Object>>, <<Close.Object>>)
         /\ Cleaned(c, If(more, <<Comma>>), If(more, <<Comma>>))
<1>1. \A x \in {Comma, Colon, Open.Array, Close.Array, Open.Object, Close.Object} :
        x \in Character /\ x > Space /\ x # Quote /\ x # 47
  BY DEF Comma, Colon, Open, Close, Space, Quote, Character, Byte
<1>2. ASSUME NEW x \in {Comma, Colon, Open.Array, Close.Array, Open.Object, Close.Object}
      PROVE  Cleaned(c, <<x>>, <<x>>)
  BY <1>1, CleanedPlain
<1>3. Cleaned(c, <<Comma>>, <<Comma>>)
  BY <1>2, Zenon
<1>4. Cleaned(c, If(more, <<Comma>>), If(more, <<Comma>>))
  <2>1. CASE more
    BY <1>3, <2>1, Zenon DEF If
  <2>2. CASE ~more
    <3>1. If(more, <<Comma>>) = <<>>
      BY <2>2 DEF If
    <3> QED
      BY <3>1, CleanedNone, Zenon
  <2> QED
    BY <2>1, <2>2
<1> QED
  BY <1>2, <1>3, <1>4, Zenon

\* An element of an array ...
LEMMA PlaceCleaned ==
  ASSUME NEW c, IsComment(c), NEW format \in BOOLEAN, NEW no \in BOOLEAN, ~no, NEW d, NEW k,
         NEW s, NEW u, Cleaned(c, s, u)
  PROVE  Cleaned(c, Place(d, k, format, s), Place(d, k, no, u))
<1>1. c \in Seq(Character)
  BY DEF IsComment
<1>2. PICK a : a = <<Comma>> \o If(format, <<Space>>)
  OBVIOUS
<1>3. PICK b : b = <<Comma>> \o If(no, <<Space>>)
  OBVIOUS
<1>4. Cleaned(c, a, b)
  <2>1. Cleaned(c, If(format, <<Space>>), If(no, <<Space>>))
    <3>1. 0 \in Nat
      OBVIOUS
    <3> QED
      BY <3>1, CleanedWhite, Zenon
  <2>2. Cleaned(c, <<Comma>>, <<Comma>>)
    BY <1>1, CleanedSigns
  <2>3. Cleaned(c, <<Comma>> \o If(format, <<Space>>), <<Comma>> \o If(no, <<Space>>))
    BY ONLY <1>1, <2>1, <2>2, CleanedJoin, Zenon
  <2> QED
    BY <1>2, <1>3, <2>3, Zenon
<1>5. PICK more : more = (k < Len(d.kids))
  OBVIOUS
<1>6. PICK ax : ax = If(more, a)
  OBVIOUS
<1>7. PICK bx : bx = If(more, b)
  OBVIOUS
<1>8. Cleaned(c, ax, bx)
  <2>1. CASE more
    BY <1>4, <1>6, <1>7, <2>1, Zenon DEF If
  <2>2. CASE ~more
    <3>1. ax = <<>> /\ bx = <<>>
      BY <1>6, <1>7, <2>2 DEF If
    <3> QED
      BY <1>1, <3>1, CleanedNone, Zenon
  <2> QED
    BY <2>1, <2>2
<1>9. Cleaned(c, s, u)
  OBVIOUS
<1>10. Cleaned(c, s \o ax, u \o bx)
  BY ONLY <1>1, <1>8, <1>9, CleanedJoin, Zenon
<1>11. Place(d, k, format, s) = s \o ax
  BY <1>2, <1>5, <1>6, Zenon DEF Place
<1>12. Place(d, k, no, u) = u \o bx
  BY <1>3, <1>5, <1>7, Zenon DEF Place
<1> QED
  BY <1>10, <1>11, <1>12, Zenon

\* ... and a member of an object.
LEMMA LineCleaned ==
  ASSUME NEW c, IsComment(c), NEW format \in BOOLEAN, NEW no \in BOOLEAN, ~no, NEW d, NEW k,
         d.kids[k].string \in CharPointer, NEW depth \in Nat, NEW s, NEW u, Cleaned(c, s, u)
  PROVE  Cleaned(c, Line(d, k, format, depth, s), Line(d, k, no, depth, u))
<1>1. c \in Seq(Character) /\ depth + 1 \in Nat
  BY DEF IsComment
<1>2. PICK more : more = (k < Len(d.kids))
  OBVIOUS
<1> DEFINE a1 == If(format, Tabs(depth + 1))
           b1 == If(no, Tabs(depth + 1))
           name == Literal(d.kids[k].string)
           a2 == If(format, <<Tab>>)
           b2 == If(no, <<Tab>>)
           comma == If(more, <<Comma>>)
           a3 == If(format, <<NewLine>>)
           b3 == If(no, <<NewLine>>)
<1>3. /\ Line(d, k, format, depth, s) = a1 \o name \o <<Colon>> \o a2 \o s \o comma \o a3
      /\ Line(d, k, no, depth, u) = b1 \o name \o <<Colon>> \o b2 \o u \o comma \o b3
  BY <1>2, Zenon DEF Line
<1>4. Cleaned(c, a1, b1)
  BY ONLY <1>1, IsComment(c), format \in BOOLEAN, no \in BOOLEAN, ~no, CleanedWhite, Zenon
<1>5. Cleaned(c, a2, b2) /\ Cleaned(c, a3, b3)
  BY ONLY <1>1, IsComment(c), format \in BOOLEAN, no \in BOOLEAN, ~no, CleanedWhite, Zenon
<1>6. Cleaned(c, name, name)
  BY <1>1, CleanedLiteral
<1>7. Cleaned(c, <<Colon>>, <<Colon>>) /\ Cleaned(c, comma, comma)
  BY <1>1, CleanedSigns, Zenon
<1>8. Cleaned(c, s, u)
  OBVIOUS
<1> HIDE DEF a1, b1, name, a2, b2, comma, a3, b3
<1>9. Cleaned(c, a1 \o name, b1 \o name)
  BY ONLY <1>1, <1>4, <1>6, CleanedJoin, Zenon
<1>10. Cleaned(c, (a1 \o name) \o <<Colon>>, (b1 \o name) \o <<Colon>>)
  BY ONLY <1>1, <1>7, <1>9, CleanedJoin, Zenon
<1>11. Cleaned(c, ((a1 \o name) \o <<Colon>>) \o a2, ((b1 \o name) \o <<Colon>>) \o b2)
  BY ONLY <1>1, <1>5, <1>10, CleanedJoin, Zenon
<1>12. Cleaned(c, (((a1 \o name) \o <<Colon>>) \o a2) \o s, (((b1 \o name) \o <<Colon>>) \o b2) \o u)
  BY ONLY <1>1, <1>8, <1>11, CleanedJoin, Zenon
<1>13. Cleaned(c, ((((a1 \o name) \o <<Colon>>) \o a2) \o s) \o comma,
                  ((((b1 \o name) \o <<Colon>>) \o b2) \o u) \o comma)
  BY ONLY <1>1, <1>7, <1>12, CleanedJoin, Zenon
<1>14. Cleaned(c, (((((a1 \o name) \o <<Colon>>) \o a2) \o s) \o comma) \o a3,
                  (((((b1 \o name) \o <<Colon>>) \o b2) \o u) \o comma) \o b3)
  BY ONLY <1>1, <1>5, <1>13, CleanedJoin, Zenon
<1> QED
  BY <1>3, <1>14, Zenon

\* A text that is no list, for Minify.
LEMMA ScalarCleaned ==
  ASSUME NEW c, IsComment(c), NEW d \in Documents, d.type \notin DOMAIN Open, PlainRaw(d),
         NEW format \in BOOLEAN, NEW no \in BOOLEAN, NEW depth \in Nat,
         NEW s, s = TextOf[d][format][depth], NEW u, u = TextOf[d][no][depth]
  PROVE  Cleaned(c, s, u)
<1>1. c \in Seq(Character)
  BY DEF IsComment
<1>2. s = Compose(d, format, depth, TextOf) /\ u = Compose(d, no, depth, TextOf)
  BY MeaningIs
<1>3. /\ d.type \in {"Invalid", "Number", "String", "Raw"} \cup DOMAIN Word
      /\ d.val \in CharPointer /\ (d.type = "Number" => d.val \in Numbers)
  <2>1. Levels \in 0..Levels /\ d \in Nested[Levels]
    BY LevelsAssumption DEF Documents
  <2>2. /\ d.type \in {"Invalid", "Number", "String", "Raw"} \cup DOMAIN Word \cup DOMAIN Open
        /\ d.val \in CharPointer /\ (d.type = "Number" => d.val \in Numbers)
    BY <2>1, ItemIs
  <2> QED
    BY <2>2
<1>4. DOMAIN Word = {"NULL", "False", "True"} /\ DOMAIN Open = {"Array", "Object"}
  BY DEF Word, Open
<1>5. ASSUME NEW w \in Seq(Character), \A n \in 1..Len(w) : w[n] \in 97..122
      PROVE  Cleaned(c, w, w)
  <2>1. \A x \in 97..122 : x > Space /\ x # Quote /\ x # 47
    BY DEF Space, Quote
  <2>2. \A n \in 1..Len(w) : w[n] > Space /\ w[n] # Quote /\ w[n] # 47
    BY <1>5, <2>1, Zenon
  <2> QED
    BY <1>1, <2>2, CleanedKept
<1>6. ASSUME NEW type \in DOMAIN Word
      PROVE  Cleaned(c, Word[type], Word[type])
  <2>1. PICK w \in Seq(Character) : w = Word[type]
    BY WordCharacters
  <2>2. \/ w = <<110, 117, 108, 108>> \/ w = <<102, 97, 108, 115, 101>> \/ w = <<116, 114, 117, 101>>
    BY <2>1 DEF Word
  <2>3. \A n \in 1..Len(w) : w[n] \in 97..122
    <3>1. CASE w = <<110, 117, 108, 108>>
      BY ONLY <3>1
    <3>2. CASE w = <<102, 97, 108, 115, 101>>
      BY ONLY <3>2
    <3>3. CASE w = <<116, 114, 117, 101>>
      BY ONLY <3>3
    <3> QED
      BY <2>2, <3>1, <3>2, <3>3
  <2> QED
    BY <1>5, <2>1, <2>3, Zenon
<1>7. CASE d.type \in DOMAIN Word
  <2>1. s = Word[d.type] /\ u = Word[d.type]
    BY <1>2, <1>7, ScalarText
  <2> QED
    BY <1>6, <1>7, <2>1, Zenon
<1>8. CASE d.type = "Number"
  <2>1. s = d.val /\ u = d.val
    BY <1>2, <1>8, ScalarText
  <2>2. CASE d.val = Word.NULL
    <3>1. "NULL" \in DOMAIN Word
      BY <1>4
    <3> QED
      BY <1>6, <2>1, <2>2, <3>1, Zenon
  <2>3. CASE d.val # Word.NULL
    <3>1. d.val \in Seq(Character) /\ Len(d.val) >= 1 /\ IsNumeral(d.val)
      BY <1>3, <1>8, <2>3 DEF Numbers
    <3>2. \A n \in 1..Len(d.val) : d.val[n] \in Digit \cup {Minus}
      BY <3>1, NumeralBytes
    <3>3. \A n \in 1..Len(d.val) : d.val[n] > Space /\ d.val[n] # Quote /\ d.val[n] # 47
      BY <3>2 DEF Digit, Minus, Space, Quote
    <3>4. Cleaned(c, d.val, d.val)
      BY <1>1, <3>1, <3>3, CleanedKept
    <3> QED
      BY <2>1, <3>4, Zenon
  <2> QED
    BY <2>2, <2>3
<1>9. CASE d.type = "String"
  <2>1. s = Literal(d.val) /\ u = s
    BY <1>2, <1>9, ScalarText
  <2>2. Cleaned(c, s, s)
    BY <1>1, <1>3, <2>1, CleanedLiteral
  <2> QED
    BY <2>1, <2>2, Zenon
<1>10. CASE d.type = "Raw" /\ d.val # NoText
  <2>1. s = d.val /\ u = d.val
    BY <1>2, <1>4, <1>10 DEF Compose
  <2>2. d.val \in Seq(Character)
    BY <1>3, <1>10 DEF CharPointer
  <2>3. ToSet(d.val) \cap ((0..Space) \cup {Quote, 47}) = {}
    BY <1>10 DEF PlainRaw
  <2>4. \A n \in 1..Len(d.val) : d.val[n] > Space /\ d.val[n] # Quote /\ d.val[n] # 47
    <3>1. PICK w \in Seq(Character) : w = d.val
      BY <2>2
    <3>2. \A n \in 1..Len(w) : w[n] \in ToSet(w) /\ w[n] \in Character
      BY DEF ToSet
    <3>3. \A x \in Character : x \notin ((0..Space) \cup {Quote, 47}) => x > Space /\ x # Quote /\ x # 47
      BY DEF Character, Byte, Space, Quote
    <3>4. \A n \in 1..Len(w) : w[n] \notin ((0..Space) \cup {Quote, 47})
      BY <2>3, <3>1, <3>2, Zenon
    <3> QED
      BY <3>1, <3>2, <3>3, <3>4, Zenon
  <2>5. Cleaned(c, d.val, d.val)
    BY <1>1, <2>2, <2>4, CleanedKept
  <2> QED
    BY <2>1, <2>5, Zenon
<1>11. CASE d.type = "Invalid" \/ (d.type = "Raw" /\ d.val = NoText)
  <2>1. s = <<>> /\ u = <<>>
    BY <1>2, <1>4, <1>11 DEF Compose
  <2> QED
    BY <1>1, <2>1, CleanedNone, Zenon
<1> QED
  BY <1>3, <1>7, <1>8, <1>9, <1>10, <1>11

\* A list is, if its items are.
LEMMA ListCleaned ==
  ASSUME NEW c, IsComment(c), NEW d \in Documents, d.type \in DOMAIN Open,
         NEW format \in BOOLEAN, NEW no \in BOOLEAN, ~no, NEW depth \in Nat,
         \A k \in 1..Len(d.kids) :
            Cleaned(c, TextOf[d.kids[k]][format][depth + 1], TextOf[d.kids[k]][no][depth + 1]),
         NEW s, s = TextOf[d][format][depth], NEW u, u = TextOf[d][no][depth]
  PROVE  Cleaned(c, s, u)
<1>1. c \in Seq(Character) /\ depth \in Nat /\ depth + 1 \in Nat
  BY DEF IsComment
<1>2. PICK N \in Nat : /\ N = Len(d.kids) /\ DOMAIN d.kids = 1..N
                       /\ \A k \in 1..N : d.kids[k] \in Documents
  BY ListText
<1>3. PICK a : a = Pieces(d, format, depth)
  OBVIOUS
<1>4. PICK b : b = Pieces(d, no, depth)
  OBVIOUS
<1>5. /\ a \in Seq(Seq(Character)) /\ Len(a) = N
      /\ \A k \in 1..N : PieceOfList(d, k, format, depth, a[k])
  BY <1>2, <1>3, PiecesAre
<1>6. /\ b \in Seq(Seq(Character)) /\ Len(b) = N
      /\ \A k \in 1..N : PieceOfList(d, k, no, depth, b[k])
  BY <1>2, <1>4, PiecesAre
<1>7. d.type = "Array" \/ d.type = "Object"
  BY DEF Open
<1>8. ASSUME NEW k \in 1..N
      PROVE  Cleaned(c, a[k], b[k])
  <2>1. PICK x : x = TextOf[d.kids[k]][format][depth + 1]
    OBVIOUS
  <2>2. PICK y : y = TextOf[d.kids[k]][no][depth + 1]
    OBVIOUS
  <2>3. Cleaned(c, x, y)
    BY <1>2, <2>1, <2>2
  <2>4. IsComment(c) /\ format \in BOOLEAN /\ no \in BOOLEAN /\ ~no
    OBVIOUS
  <2>5. CASE d.type = "Array"
    <3>1. a[k] = Place(d, k, format, x) /\ b[k] = Place(d, k, no, y)
      BY <1>5, <1>6, <2>1, <2>2, <2>5, Zenon DEF PieceOfList
    <3>2. Cleaned(c, Place(d, k, format, x), Place(d, k, no, y))
      BY ONLY <2>3, <2>4, PlaceCleaned, Zenon
    <3> QED
      BY <3>1, <3>2, Zenon
  <2>6. CASE d.type = "Object"
    <3>1. a[k] = Line(d, k, format, depth, x) /\ b[k] = Line(d, k, no, depth, y)
      BY <1>5, <1>6, <2>1, <2>2, <2>6, Zenon DEF PieceOfList
    <3>2. d.kids[k].string \in CharPointer
      <4>1. d.kids[k] \in Nested[Levels] /\ Levels \in 0..Levels
        BY <1>2, LevelsAssumption DEF Documents
      <4> QED
        BY <4>1, ItemIs
    <3>3. Cleaned(c, Line(d, k, format, depth, x), Line(d, k, no, depth, y))
      BY ONLY <1>1, <2>3, <2>4, <3>2, LineCleaned, Zenon
    <3> QED
      BY <3>1, <3>3, Zenon
  <2> QED
    BY <1>7, <2>5, <2>6
<1>9. Cleaned(c, FlattenSeq(a), FlattenSeq(b))
  <2>1. Len(a) = Len(b) /\ \A n \in 1..Len(a) : Cleaned(c, a[n], b[n])
    BY <1>5, <1>6, <1>8, Zenon
  <2> QED
    BY ONLY <1>1, <1>5, <1>6, <2>1, CleanedAll, Zenon
<1> DEFINE x == FlattenSeq(a)
           y == FlattenSeq(b)
<1>10. Cleaned(c, x, y)
  BY <1>9
<1> HIDE DEF x, y
<1>11. CASE d.type = "Array"
  <2>1. s = <<Open.Array>> \o x \o <<Close.Array>>
    <3>1. s = <<Open.Array>> \o FlattenSeq(ElementTexts(d, format, depth + 1, TextOf)) \o <<Close.Array>>
      BY <1>11, ListText
    <3> QED
      BY <1>3, <1>11, <3>1, Zenon DEF Pieces, x
  <2>2. u = <<Open.Array>> \o y \o <<Close.Array>>
    <3>1. u = <<Open.Array>> \o FlattenSeq(ElementTexts(d, no, depth + 1, TextOf)) \o <<Close.Array>>
      BY <1>11, ListText
    <3> QED
      BY <1>4, <1>11, <3>1, Zenon DEF Pieces, y
  <2>3. Cleaned(c, <<Open.Array>>, <<Open.Array>>) /\ Cleaned(c, <<Close.Array>>, <<Close.Array>>)
    BY <1>1, CleanedSigns
  <2>4. Cleaned(c, <<Open.Array>> \o x, <<Open.Array>> \o y)
    BY ONLY <1>1, <1>10, <2>3, CleanedJoin, Zenon
  <2>5. Cleaned(c, (<<Open.Array>> \o x) \o <<Close.Array>>, (<<Open.Array>> \o y) \o <<Close.Array>>)
    BY ONLY <1>1, <2>3, <2>4, CleanedJoin, Zenon
  <2> QED
    BY <2>1, <2>2, <2>5, Zenon
<1>12. CASE d.type = "Object"
  <2> DEFINE line == If(format, <<NewLine>>)
             none == If(no, <<NewLine>>)
             tabs == If(format, Tabs(depth))
             flat == If(no, Tabs(depth))
  <2>1. s = <<Open.Object>> \o line \o x \o tabs \o <<Close.Object>>
    <3>1. s = <<Open.Object>> \o If(format, <<NewLine>>) \o FlattenSeq(MemberTexts(d, format, depth, TextOf))
                \o If(format, Tabs(depth)) \o <<Close.Object>>
      BY <1>12, ListText
    <3>2. "Object" # "Array"
      OBVIOUS
    <3> QED
      BY <1>3, <1>12, <3>1, <3>2, Zenon DEF Pieces, x
  <2>2. u = <<Open.Object>> \o none \o y \o flat \o <<Close.Object>>
    <3>1. u = <<Open.Object>> \o If(no, <<NewLine>>) \o FlattenSeq(MemberTexts(d, no, depth, TextOf))
                \o If(no, Tabs(depth)) \o <<Close.Object>>
      BY <1>12, ListText
    <3>2. "Object" # "Array"
      OBVIOUS
    <3> QED
      BY <1>4, <1>12, <3>1, <3>2, Zenon DEF Pieces, y
  <2>3. Cleaned(c, <<Open.Object>>, <<Open.Object>>) /\ Cleaned(c, <<Close.Object>>, <<Close.Object>>)
    BY <1>1, CleanedSigns
  <2>4. Cleaned(c, line, none) /\ Cleaned(c, tabs, flat)
    BY ONLY <1>1, IsComment(c), format \in BOOLEAN, no \in BOOLEAN, ~no, CleanedWhite, Zenon
  <2> HIDE DEF line, none, tabs, flat
  <2>5. Cleaned(c, <<Open.Object>> \o line, <<Open.Object>> \o none)
    BY ONLY <1>1, <2>3, <2>4, CleanedJoin, Zenon
  <2>6. Cleaned(c, (<<Open.Object>> \o line) \o x, (<<Open.Object>> \o none) \o y)
    BY ONLY <1>1, <1>10, <2>5, CleanedJoin, Zenon
  <2>7. Cleaned(c, ((<<Open.Object>> \o line) \o x) \o tabs, ((<<Open.Object>> \o none) \o y) \o flat)
    BY ONLY <1>1, <2>4, <2>6, CleanedJoin, Zenon
  <2>8. Cleaned(c, (((<<Open.Object>> \o line) \o x) \o tabs) \o <<Close.Object>>,
                   (((<<Open.Object>> \o none) \o y) \o flat) \o <<Close.Object>>)
    BY ONLY <1>1, <2>3, <2>7, CleanedJoin, Zenon
  <2> QED
    BY <2>1, <2>2, <2>8, Zenon
<1> QED
  BY <1>7, <1>11, <1>12

\* Nothing that a program put into the raw values of a document is for Minify.
Bare(d) == \A part \in Within[d] : PlainRaw(part)

LEMMA BareParts ==
  ASSUME NEW d \in Documents, Bare(d), NEW N, N = Len(d.kids), DOMAIN d.kids = 1..N,
         \A k \in 1..N : d.kids[k] \in Documents
  PROVE  PlainRaw(d) /\ \A k \in 1..N : Bare(d.kids[k])
<1>1. Within[d] = {d} \cup UNION {Within[d.kids[k]] : k \in DOMAIN d.kids}
  BY MeaningIs
<1>2. PlainRaw(d)
  BY <1>1 DEF Bare
<1>3. ASSUME NEW k \in 1..N
      PROVE  Bare(d.kids[k])
  <2>1. Within[d.kids[k]] \subseteq Within[d]
    BY <1>1
  <2> QED
    BY <2>1 DEF Bare
<1> QED
  BY <1>2, <1>3

\* The text of a document, formatted or not and with a comment for each of its tabs,
\* is shortened to the unformatted one.
CleanedOn(c, format, no, n) ==
  \A d \in Nested[n], depth \in Nat : Bare(d) => Cleaned(c, TextOf[d][format][depth], TextOf[d][no][depth])

LEMMA TextCleaned ==
  ASSUME NEW c, IsComment(c), NEW format \in BOOLEAN, NEW no \in BOOLEAN, ~no
  PROVE  CleanedOn(c, format, no, Levels)
<1>1. Levels \in Nat
  BY LevelsAssumption
<1>2. ASSUME NEW m \in 0..Levels, NEW d \in Nested[m], NEW depth \in Nat, Bare(d),
             m # 0 => CleanedOn(c, format, no, m - 1)
      PROVE  Cleaned(c, TextOf[d][format][depth], TextOf[d][no][depth])
  <2>1. d \in Documents
    BY BlocksAre
  <2>2. PICK N : N = Len(d.kids)
    OBVIOUS
  <2>3. N \in Nat /\ DOMAIN d.kids = 1..N
    BY <2>2, KidsAre
  <2>4. \A k \in 1..N : m # 0 /\ d.kids[k] \in Nested[m - 1]
    BY <2>2, <2>3, KidsAre
  <2>5. \A k \in 1..N : d.kids[k] \in Documents
    <3>1. m # 0 => m - 1 \in 0..Levels
      BY <1>1
    <3>2. m # 0 => Nested[m - 1] \subseteq Documents
      BY <3>1, BlocksAre
    <3> QED
      BY <2>4, <3>2
  <2>6. PlainRaw(d) /\ \A k \in 1..N : Bare(d.kids[k])
    BY <1>2, <2>1, <2>2, <2>3, <2>5, BareParts
  <2>7. PICK s : s = TextOf[d][format][depth]
    OBVIOUS
  <2>8. PICK u : u = TextOf[d][no][depth]
    OBVIOUS
  <2>9. IsComment(c) /\ format \in BOOLEAN /\ no \in BOOLEAN /\ ~no /\ depth \in Nat
    OBVIOUS
  <2>10. CASE d.type \notin DOMAIN Open
    <3>1. Cleaned(c, s, u)
      BY ONLY <2>1, <2>6, <2>7, <2>8, <2>9, <2>10, ScalarCleaned
    <3> QED
      BY <2>7, <2>8, <3>1, Zenon
  <2>11. CASE d.type \in DOMAIN Open
    <3>1. \A k \in 1..Len(d.kids) :
             Cleaned(c, TextOf[d.kids[k]][format][depth + 1], TextOf[d.kids[k]][no][depth + 1])
      <4> SUFFICES ASSUME NEW k \in 1..N
                   PROVE  Cleaned(c, TextOf[d.kids[k]][format][depth + 1], TextOf[d.kids[k]][no][depth + 1])
        BY <2>2
      <4>1. CleanedOn(c, format, no, m - 1) /\ d.kids[k] \in Nested[m - 1] /\ Bare(d.kids[k])
        BY <1>2, <2>4, <2>6, Zenon
      <4>2. depth + 1 \in Nat
        OBVIOUS
      <4> QED
        BY <4>1, <4>2, Zenon DEF CleanedOn
    <3>2. Cleaned(c, s, u)
      BY ONLY <2>1, <2>7, <2>8, <2>9, <2>11, <3>1, ListCleaned, Zenon
    <3> QED
      BY <2>7, <2>8, <3>2, Zenon
  <2> QED
    BY <2>10, <2>11
<1> DEFINE Right == {m \in 0..Levels : CleanedOn(c, format, no, m)}
<1>3. 0 \in Right
  <2>1. 0 \in 0..Levels
    BY <1>1
  <2>2. CleanedOn(c, format, no, 0)
    BY <1>2, <2>1, Zenon DEF CleanedOn
  <2> QED
    BY <2>1, <2>2
<1>4. ASSUME NEW m \in 1..Levels, m - 1 \in Right
      PROVE  m \in Right
  <2>1. m \in 0..Levels
    BY <1>1
  <2>2. CleanedOn(c, format, no, m - 1)
    BY <1>4, Zenon
  <2>3. CleanedOn(c, format, no, m)
    BY <1>2, <2>1, <2>2, Zenon DEF CleanedOn
  <2> QED
    BY <2>1, <2>3
<1>5. 0..Levels \subseteq Right
  <2> HIDE DEF Right
  <2> QED
    BY <1>1, <1>3, <1>4, ClimbTo
<1>6. Levels \in 0..Levels
  BY <1>1
<1> QED
  BY <1>5, <1>6

(***************************************************************************)
(* The rounds of Minify                                                    *)
(***************************************************************************)

RoundsFrom(t, base, N, f) == f = [k \in 0..N |-> IF k = 0 THEN base ELSE minify_byte(t, f[k - 1])]

LEMMA RoundsExist ==
  ASSUME NEW t, NEW base, NEW N \in Nat
  PROVE  \E f : RoundsFrom(t, base, N, f)
<1> DEFINE T == {m \in 0..N : \E f : f = [k \in 0..m |-> IF k = 0 THEN base ELSE minify_byte(t, f[k - 1])]}
<1>1. 0 \in T
  <2> DEFINE f == [k \in 0..0 |-> base]
  <2>1. ASSUME NEW k \in 0..0
        PROVE  f[k] = IF k = 0 THEN base ELSE minify_byte(t, f[k - 1])
    BY <2>1
  <2>2. f = [k \in 0..0 |-> f[k]]
    OBVIOUS
  <2> HIDE DEF f
  <2>3. f = [k \in 0..0 |-> IF k = 0 THEN base ELSE minify_byte(t, f[k - 1])]
    BY <2>1, <2>2, Zenon
  <2>4. 0 \in 0..N
    OBVIOUS
  <2> QED
    BY <2>3, <2>4, Zenon
<1>2. ASSUME NEW m \in 1..N, m - 1 \in T
      PROVE  m \in T
  <2>1. PICK f : f = [k \in 0..(m - 1) |-> IF k = 0 THEN base ELSE minify_byte(t, f[k - 1])]
    BY <1>2
  <2> DEFINE v == minify_byte(t, f[m - 1])
             g == [k \in 0..m |-> IF k = m THEN v ELSE f[k]]
  <2>2. m \in 0..N /\ m \in 0..m /\ m - 1 \in 0..m /\ m # 0 /\ m - 1 # m
    OBVIOUS
  <2>3. \A k \in 0..m : g[k] = IF k = m THEN v ELSE f[k]
    OBVIOUS
  <2>4. g = [k \in 0..m |-> g[k]]
    OBVIOUS
  <2> HIDE DEF g, v
  <2>5. ASSUME NEW k \in 0..m
        PROVE  g[k] = IF k = 0 THEN base ELSE minify_byte(t, g[k - 1])
    <3>1. CASE k = m
      <4>1. g[m] = v /\ g[m - 1] = f[m - 1]
        BY <2>2, <2>3
      <4> QED
        BY <2>2, <3>1, <4>1 DEF v
    <3>2. CASE k # m
      <4>1. k \in 0..(m - 1) /\ (k # 0 => k - 1 \in 0..m /\ k - 1 # m)
        BY <3>2
      <4>2. g[k] = f[k] /\ (k # 0 => g[k - 1] = f[k - 1])
        BY <2>3, <3>2, <4>1
      <4>3. f[k] = IF k = 0 THEN base ELSE minify_byte(t, f[k - 1])
        BY <2>1, <4>1, Zenon
      <4> QED
        BY <4>2, <4>3, Zenon
    <3> QED
      BY <3>1, <3>2
  <2>6. g = [k \in 0..m |-> IF k = 0 THEN base ELSE minify_byte(t, g[k - 1])]
    BY <2>4, <2>5, Zenon
  <2> QED
    BY <2>2, <2>6, Zenon
<1>3. 0..N \subseteq T
  <2> HIDE DEF T
  <2> QED
    BY <1>1, <1>2, ClimbTo
<1>4. N \in T
  <2> HIDE DEF T
  <2>1. N \in 0..N
    OBVIOUS
  <2> QED
    BY <1>3, <2>1
<1> QED
  BY <1>4, Zenon DEF RoundsFrom

LEMMA MinifyRounds ==
  ASSUME NEW t \in Seq(Byte)
  PROVE  \E rounds : /\ RoundsOf(t, rounds) /\ rounds[0] = Minifying(0, <<>>)
                     /\ cJSON_Minify(t) = Append(rounds[Len(t)].into, 0)
<1>1. PICK N \in Nat : N = Len(t)
  OBVIOUS
<1>2. PICK base : base = [at |-> 1, into |-> <<>>]
  OBVIOUS
<1>3. base = Minifying(0, <<>>)
  BY <1>2 DEF Minifying
<1>4. PICK f : f = [k \in 0..N |-> IF k = 0 THEN base ELSE minify_byte(t, f[k - 1])]
  <2>1. \E f : RoundsFrom(t, base, N, f)
    BY RoundsExist
  <2> QED
    BY <2>1, Zenon DEF RoundsFrom
<1> DEFINE rounds[k \in 0..N] == IF k = 0 THEN base ELSE minify_byte(t, rounds[k - 1])
<1>5. rounds = [k \in 0..N |-> IF k = 0 THEN base ELSE minify_byte(t, rounds[k - 1])]
  BY <1>4, Zenon
<1>6. cJSON_Minify(t) = Append(rounds[Len(t)].into, 0)
  BY <1>1, <1>2, Zenon DEF cJSON_Minify
<1> HIDE DEF rounds
<1>7. rounds[0] = base
  <2>1. 0 \in 0..N
    OBVIOUS
  <2> QED
    BY <1>5, <2>1, Zenon
<1>8. ASSUME NEW k \in 1..N
      PROVE  rounds[k] = minify_byte(t, rounds[k - 1])
  <2>1. k \in 0..N /\ k # 0
    OBVIOUS
  <2> QED
    BY <1>5, <2>1, Zenon
<1>9. RoundsOf(t, rounds)
  BY <1>1, <1>8, Zenon DEF RoundsOf
<1> QED
  BY <1>3, <1>6, <1>7, <1>9, Zenon

\* When all before the byte 0 is shortened to u, u is what Minify makes of it.
LEMMA MinifyCleans ==
  ASSUME NEW x \in Seq(Character), NEW u \in Seq(Character), Cleans(x, u), NEW t, t = Append(x, 0)
  PROVE  cJSON_Minify(t) = Append(u, 0)
<1>1. PICK L \in Nat : L = Len(x)
  OBVIOUS
<1>2. x \in Seq(Byte) /\ u \in Seq(Byte) /\ 0 \in Byte
  BY CharactersAreBytes DEF Byte
<1>3. PICK M \in Nat : M = L + 1
  OBVIOUS
<1>4. /\ t \in Seq(Byte) /\ t # <<>> /\ Len(t) = M /\ t[M] = 0 /\ t[L + 1] = 0 /\ L < M
      /\ \A n \in 1..L : t[n] = x[n]
  BY <1>1, <1>2, <1>3
<1>5. PICK rounds : /\ RoundsOf(t, rounds) /\ rounds[0] = Minifying(0, <<>>)
                    /\ cJSON_Minify(t) = Append(rounds[Len(t)].into, 0)
  <2>1. \E rounds : /\ RoundsOf(t, rounds) /\ rounds[0] = Minifying(0, <<>>)
                    /\ cJSON_Minify(t) = Append(rounds[Len(t)].into, 0)
    BY ONLY <1>4, MinifyRounds, Zenon
  <2> QED
    BY <2>1, Zenon
<1>6. Stands(t, 0, x)
  <2>1. 0 + Len(x) <= Len(t) /\ \A n \in 1..Len(x) : t[0 + n] = x[n]
    BY <1>1, <1>4
  <2> QED
    BY <2>1 DEF Stands
<1>7. Shrinks(rounds, 0, L, u)
  <2>1. 0 \in Nat /\ 0 + Len(x) = L /\ t[Len(t)] = 0
    BY <1>1, <1>4
  <2>2. Shrinks(rounds, 0, 0 + Len(x), u)
    BY <1>4, <1>5, <1>6, <2>1, Zenon DEF Cleans
  <2> QED
    BY <2>1, <2>2, Zenon
<1>8. PICK l \in Nat : l <= L /\ rounds[l] = Minifying(L, u)
  <2>1. <<>> \in Seq(Byte) /\ 0 \in Nat /\ 0 <= 0 /\ <<>> \o u = u
    BY <1>2
  <2>2. \E l \in Nat : l <= L /\ rounds[l] = Minifying(L, <<>> \o u)
    BY <1>5, <1>7, <2>1, Zenon DEF Shrinks
  <2> QED
    BY <2>1, <2>2, Zenon
<1> DEFINE T == {n \in 0..M : n < l \/ rounds[n] = Minifying(L, u)}
<1>9. 0 \in T
  <2>1. 0 \in 0..M /\ (0 < l \/ 0 = l)
    OBVIOUS
  <2> QED
    BY <1>8, <2>1
<1>10. ASSUME NEW n \in 1..M, n - 1 \in T
       PROVE  n \in T
  <2>1. n \in 0..M /\ (n < l \/ n = l \/ ~(n - 1 < l))
    OBVIOUS
  <2>2. CASE n < l
    BY <2>1, <2>2
  <2>3. CASE n = l
    BY <1>8, <2>1, <2>3
  <2>4. CASE ~(n - 1 < l)
    <3>1. rounds[n - 1] = Minifying(L, u)
      BY <1>10, <2>4, Zenon
    <3>2. rounds[n] = minify_byte(t, rounds[n - 1])
      BY <1>4, <1>5, Zenon DEF RoundsOf
    <3>3. RoundMakes(t, L, u, 0, minify_byte(t, Minifying(L, u)))
      <4>1. t \in Seq(Byte) /\ L \in Nat /\ L < Len(t) /\ 0 = t[L + 1]
        BY <1>4
      <4> QED
        BY ONLY <4>1, RoundMinified
    <3>4. minify_byte(t, Minifying(L, u)) = Minifying(L, u)
      BY <3>3, Zenon DEF RoundMakes
    <3>5. rounds[n] = Minifying(L, u)
      BY <3>1, <3>2, <3>4, Zenon
    <3> QED
      BY <2>1, <3>5
  <2> QED
    BY <2>1, <2>2, <2>3, <2>4
<1>11. 0..M \subseteq T
  <2> HIDE DEF T
  <2> QED
    BY <1>9, <1>10, ClimbTo
<1>12. rounds[M] = Minifying(L, u)
  <2>1. M \in 0..M /\ ~(M < l)
    BY <1>3, <1>8
  <2>2. M \in T
    BY <1>11, <2>1, Zenon
  <2> QED
    BY <2>1, <2>2, Zenon
<1>13. Minifying(L, u).into = u
  BY DEF Minifying
<1> QED
  BY <1>4, <1>5, <1>12, <1>13, Zenon

\* The printed text of a document, with comments, is minified to the unformatted one.
LEMMA MinifiedText ==
  ASSUME NEW c, IsComment(c), NEW d \in Documents, Bare(d), NEW format \in BOOLEAN,
         NEW no \in BOOLEAN, ~no, NEW s, s = Append(Render(d, format), 0)
  PROVE  cJSON_Minify(Commented(s, c)) = Append(Render(d, no), 0)
<1>1. 0 \in Nat /\ d \in Nested[Levels]
  BY DEF Documents
<1>2. PICK w : w = Render(d, format)
  OBVIOUS
<1>3. PICK u : u = Render(d, no)
  OBVIOUS
<1>4. Cleaned(c, w, u)
  <2>1. CleanedOn(c, format, no, Levels)
    BY TextCleaned
  <2>2. Cleaned(c, TextOf[d][format][0], TextOf[d][no][0])
    BY <1>1, <2>1, Zenon DEF CleanedOn
  <2> QED
    BY <1>2, <1>3, <2>2, Zenon DEF Render
<1>5. w \in Seq(Character) /\ u \in Seq(Character) /\ Cleans(Commented(w, c), u)
  BY <1>4, Zenon DEF Cleaned
<1>6. PICK x \in Seq(Character) : x = Commented(w, c)
  <2>1. PICK seqs : seqs = [n \in DOMAIN w |-> IF w[n] = Tab THEN c ELSE <<w[n]>>]
    OBVIOUS
  <2>2. c \in Seq(Character)
    BY DEF IsComment
  <2>3. Commented(w, c) \in Seq(Character)
    BY <1>5, <2>1, <2>2, CommentedIs
  <2> QED
    BY <2>3, Zenon
<1>7. PICK zero \in Seq(Byte) : zero = <<0>>
  <2>1. <<0>> \in Seq(Byte)
    BY DEF Byte
  <2> QED
    BY <2>1, Zenon
<1>8. Commented(zero, c) = zero
  <2>1. \A n \in 1..Len(zero) : zero[n] # Tab
    BY <1>7 DEF Tab
  <2> QED
    BY <2>1, CommentedNowhere
<1>9. s = w \o zero
  BY <1>2, <1>5, <1>7
<1>10. Commented(s, c) = x \o zero
  <2>1. c \in Seq(Byte) /\ w \in Seq(Byte) /\ zero \in Seq(Byte)
    BY <1>5, CharactersAreBytes DEF IsComment
  <2>2. Commented(w \o zero, c) = Commented(w, c) \o Commented(zero, c)
    BY ONLY <2>1, CommentedJoin, Zenon
  <2> QED
    BY <1>6, <1>8, <1>9, <2>2, Zenon
<1>11. x \o zero = Append(x, 0)
  BY <1>7
<1>12. PICK t : t = Append(x, 0)
  OBVIOUS
<1>13. Cleans(x, u)
  BY <1>5, <1>6, Zenon
<1>14. cJSON_Minify(t) = Append(u, 0)
  BY ONLY <1>5, <1>6, <1>12, <1>13, MinifyCleans
<1> QED
  BY <1>3, <1>10, <1>11, <1>12, <1>14, Zenon

\* The inductive invariant for Minify is that for reading, with what Minify makes.
MinifyInv == ReadInv /\ MinifiedIsUnformatted

\* A printed text is minified: it is that of the items.
LEMMA MinifyKeeps ==
  ASSUME ReadInv, NEW comment \in Comment, MinifyCommented(comment)
  PROVE  MinifiedIsUnformatted'
<1>1. /\ stage = "printed" /\ report.ok /\ item' = item
      /\ text' = cJSON_Minify(Commented(text, comment))
  BY Zenon DEF MinifyCommented, Commented
<1>2. PICK no \in BOOLEAN : no = FALSE
  OBVIOUS
<1>3. SUFFICES ASSUME Bare(item)
               PROVE  text' = Append(Render(item, no), 0)
  BY <1>1, <1>2, Zenon DEF MinifiedIsUnformatted, Bare
<1>4. PICK format \in BOOLEAN : format = report.format
  BY <1>1 DEF ReadInv
<1>5. item \in Documents /\ text = Append(Render(item, format), 0)
  BY <1>1, <1>4 DEF ReadInv, TextInv, PrintedOrNothing
<1>6. IsComment(comment)
  BY CommentAssumption
<1>7. PICK d \in Documents : d = item
  BY <1>5
<1>8. Bare(d) /\ ~no /\ text = Append(Render(d, format), 0)
  BY <1>2, <1>3, <1>5, <1>7
<1>9. cJSON_Minify(Commented(text, comment)) = Append(Render(d, no), 0)
  BY ONLY <1>6, <1>8, d \in Documents, format \in BOOLEAN, no \in BOOLEAN, MinifiedText
<1> QED
  BY <1>1, <1>7, <1>9, Zenon

LEMMA MinifyInvKeeps ==
  MinifyInv /\ [Next]_vars => MinifyInv'
<1> SUFFICES ASSUME MinifyInv, [Next]_vars
             PROVE  MinifyInv'
  OBVIOUS
<1>1. ReadInv /\ MinifiedIsUnformatted
  BY DEF MinifyInv
<1>2. ReadInv'
  BY <1>1, ReadInvKeeps
<1>3. ASSUME NEW luck \in Luck, NEW whole \in BOOLEAN, Parse(luck, whole)
      PROVE  stage' # "minified"
  BY <1>3 DEF Parse, ParseGives
<1>4. ASSUME NEW r, NEW by, NEW format, NEW length, Give(r, by, format, length)
      PROVE  stage' # "minified"
  BY <1>4 DEF Give
<1>5. ASSUME NEW luck \in Luck, NEW format \in BOOLEAN, NEW reallocate \in BOOLEAN,
             PrintItem(format, luck, reallocate)
      PROVE  stage' # "minified"
  BY <1>4, <1>5, Zenon DEF PrintItem
<1>6. ASSUME NEW luck \in Luck, NEW format \in BOOLEAN, NEW reallocate \in BOOLEAN,
             NEW prebuffer \in Prebuffer, PrintBuffered(prebuffer, format, luck, reallocate)
      PROVE  stage' # "minified"
  BY <1>4, <1>6, Zenon DEF PrintBuffered
<1>7. ASSUME NEW length \in 0..MaxLength, NEW format \in BOOLEAN, PrintPreallocated(length, format)
      PROVE  stage' # "minified"
  BY <1>4, <1>7, Zenon DEF PrintPreallocated
<1>8. ASSUME ReadBack
      PROVE  stage' # "minified"
  BY <1>8 DEF ReadBack, ReadBackGives
<1>9. ASSUME stage' # "minified"
      PROVE  MinifiedIsUnformatted'
  BY <1>9 DEF MinifiedIsUnformatted
<1>10. ASSUME NEW comment \in Comment, MinifyCommented(comment)
       PROVE  MinifiedIsUnformatted'
  BY <1>1, <1>10, MinifyKeeps
<1>11. ASSUME UNCHANGED vars
       PROVE  MinifiedIsUnformatted'
  <2>1. stage' = stage /\ item' = item /\ text' = text
    BY <1>11 DEF vars
  <2> QED
    BY <1>1, <2>1, Zenon DEF MinifiedIsUnformatted
<1>12. MinifiedIsUnformatted'
  <2>1. CASE Next
    <3>1. stage' # "minified" \/ \E comment \in Comment : MinifyCommented(comment)
      BY <1>3, <1>5, <1>6, <1>7, <1>8, <2>1, Zenon DEF Next
    <3> QED
      BY <1>9, <1>10, <3>1, Zenon
  <2> QED
    BY <1>11, <2>1, Zenon
<1> QED
  BY <1>2, <1>12 DEF MinifyInv

\* From what print wrote, with any comment in the place of its tabs, cJSON_Minify makes
\* the unformatted text of the same document, in every behaviour and whatever the inputs
\* and bounds: it takes nothing inside a string for a comment or for white space, finds
\* the quote that ends each string and the end of each comment, and drops nothing else.
\* Only raw values with white space, a quote or a slash in them are left out.
THEOREM AlwaysMinified ==
  Spec => []MinifiedIsUnformatted
<1>1. Init => MinifyInv
  <2> SUFFICES ASSUME Init
               PROVE  MinifyInv
    OBVIOUS
  <2>1. stage \in {"text", "items"}
    BY DEF Init
  <2> QED
    BY <2>1, ReadStarts DEF MinifyInv, MinifiedIsUnformatted
<1>2. MinifyInv /\ [Next]_vars => MinifyInv'
  BY MinifyInvKeeps
<1>3. MinifyInv => MinifiedIsUnformatted
  BY DEF MinifyInv
<1> QED
  BY <1>1, <1>2, <1>3, PTL DEF Spec
=============================================================================
