----------------------------- MODULE MCJsonText -----------------------------
(***************************************************************************)
(* JsonText for TLC: short texts, texts of printed documents with one byte *)
(* changed, string literals, and documents a program may build.  Bytes are *)
(* numbers: 34 a quote, 44 a comma, 58 a colon, 91 and 93, 123 and 125 the *)
(* brackets and braces, 92 a backslash, 97 the letter a.                   *)
(***************************************************************************)
EXTENDS JsonMeaning

\* Texts: up to four pieces, and documents with one byte lost or replaced.
Piece == {<<91>>, <<93>>, <<123>>, <<125>>, <<44>>, <<58>>, <<34, 97, 34>>, <<49>>}
Other == {<<32>>, <<34>>, <<45>>, Word.NULL}
Texts == {Append(FlattenSeq(p), 0) : p \in UNION {[1..k -> Piece \cup Other] : k \in 0..3} \cup [1..4 -> Piece]}

Leaf(type, val) == [NewItem EXCEPT !.type = type, !.val = val]
Node(type, kids) == [NewItem EXCEPT !.type = type, !.kids = kids]
Named(name, d) == [d EXCEPT !.string = name]

Null == Leaf("NULL", NoText)
One == Leaf("Number", <<49>>)
Minus11 == Leaf("Number", <<45, 49, 49>>)
Str(s) == Leaf("String", s)
Scalars == {Null, Leaf("True", NoText), Leaf("False", NoText), One, Minus11,
            Leaf("Number", Word.NULL), Leaf("Invalid", NoText), Leaf("String", NoText),
            Leaf("Raw", NoText), Leaf("Raw", <<91, 93>>)}
           \cup {Str(s) : s \in {<<>>, <<97>>, <<34, 92>>, <<1, 97>>, <<10, 31, 200>>, <<34, 32, 47, 47>>}}
Empty == Node("Array", <<>>)
Lists == {Node("Array", k) : k \in UNION {[1..n -> {One, Str(<<97>>), Empty}] : n \in 0..2}}
         \cup {Node("Array", <<Leaf("Raw", <<49>>), Leaf("Raw", s)>>) : s \in {<<123, 125>>, NoText}}
Name == {<<>>, <<97>>, <<34>>, NoText}
Objects == {Node("Object", k) : k \in
             {<<>>} \cup {<<Named(a, d)>> : a \in Name, d \in {Null, Str(<<9>>), Empty}}
                    \cup {<<Named(a, One), Named(<<98>>, d)>> : a \in {<<97>>, NoText},
                                                                d \in {Empty, Str(<<97>>)}}}
Deep == {Node("Array", <<Empty, Empty, Empty>>), Node("Array", <<Node("Array", <<Empty>>)>>),
         Node("Array", <<Node("Object", <<Named(<<97>>, Empty)>>)>>),
         Node("Object", <<Named(<<97>>, Node("Object", <<Named(<<98>>, Node("Object", <<>>))>>))>>),
         Node("Object", <<Named(<<97>>, Node("Object", <<Named(<<98>>, One)>>)), Named(<<99>>, One)>>),
         Node("Array", <<Node("Object", <<Named(<<97>>, Null)>>), Minus11>>)}
MCDocument == Scalars \cup Lists \cup Objects \cup Deep

Edited == {Node("Array", <<One, Empty>>), Node("Array", <<Str(<<97>>), One>>),
           Node("Object", <<Named(<<97>>, One), Named(<<98>>, Empty)>>)} \cup Deep
Edits(t) == {Append([t EXCEPT ![n] = c], 0) : n \in DOMAIN t, c \in {32, 34, 44, 58, 91, 93, 123, 125}}
            \cup {Append(RemoveAt(t, n), 0) : n \in DOMAIN t}
            \cup {Append(SubSeq(t, 1, n), 0) : n \in DOMAIN t}
            \cup {Append(ByteOrderMark \o t, 0)}
MCText == Texts \cup UNION {Edits(Render(d, f)) : d \in Edited, f \in BOOLEAN}

\* A tab, a comment with a quote and two slashes in it, a line, and an empty comment.
MCComment == {<<9>>, <<47, 42, 32, 34, 47, 47, 42, 47>>, <<47, 47, 42, 34, 10>>, <<47, 42, 42, 47>>}

\* Literals of up to three parts; a part is its bytes and what they stand for.
U(a, b, c, d) == <<92, 117, a, b, c, d>>
Parts == {<<<<97>>, {<<97>>}>>, <<<<92, 34>>, {<<34>>}>>, <<<<92, 92>>, {<<92>>}>>,
          <<<<92, 110>>, {<<10>>}>>, <<<<92, 120>>, {}>>,
          <<U(48, 48, 52, 49), {<<65>>}>>, <<U(48, 48, 101, 57), {<<195, 169>>}>>,
          <<U(50, 48, 65, 67), {<<226, 130, 172>>}>>,
          <<U(100, 56, 51, 100) \o U(100, 101, 48, 48), {<<240, 159, 152, 128>>}>>,
          <<U(100, 99, 48, 48), {}>>, <<U(100, 56, 51, 100) \o <<97>>, {}>>,
          <<U(48, 48, 122, 122), {<<0>>}>>}
MCStringCase ==
  {[text |-> <<34>> \o FlattenSeq([n \in DOMAIN p |-> p[n][1]]) \o <<34, 0>>,
    means |-> IF \E n \in DOMAIN p : p[n][2] = {} THEN {}
              ELSE {FlattenSeq([n \in DOMAIN p |-> CHOOSE m \in p[n][2] : TRUE])}]
    : p \in UNION {[1..k -> Parts] : k \in 0..3}}
=============================================================================
