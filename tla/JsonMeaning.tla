---------------------------- MODULE JsonMeaning -----------------------------
(***************************************************************************)
(* What the documents of JsonText mean, defined by recursion on the        *)
(* document and not on the text or the buffer: the text of a document, its *)
(* types, what comes back when it is read again.                           *)
(***************************************************************************)
EXTENDS JsonText

\* The items of a document, and those of them that have no text.
Within == LET levels[n \in 0..Levels] ==
                [d \in Nested[n] |-> {d} \cup (IF n = 0 THEN {}
                                               ELSE UNION {levels[n - 1][d.kids[k]] : k \in DOMAIN d.kids})]
          IN levels[Levels]
HasNoText(d) == d.type = "Invalid" \/ (d.type = "Raw" /\ d.val = NoText)
Wordless(d) == {part \in Within[d] : HasNoText(part)}

\* The text of a document at a depth, put together from the texts of its parts.
Literal(string) ==
  LET s == IF string = NoText THEN <<>> ELSE string
  IN <<Quote>> \o FlattenSeq([n \in DOMAIN s |-> Escaped(s[n])]) \o <<Quote>>
Place(d, n, format, inner) == inner \o If(n < Len(d.kids), <<Comma>> \o If(format, <<Space>>))
Line(d, n, format, depth, inner) ==
  If(format, Tabs(depth + 1)) \o Literal(d.kids[n].string) \o <<Colon>> \o If(format, <<Tab>>)
    \o inner \o If(n < Len(d.kids), <<Comma>>) \o If(format, <<NewLine>>)
Compose(d, format, depth, below) ==
  LET Inner(n) == below[d.kids[n]][format][depth + 1]
  IN CASE d.type \in DOMAIN Word -> Word[d.type]
       [] d.type = "Number" \/ (d.type = "Raw" /\ d.val # NoText) -> d.val
       [] d.type = "String" -> Literal(d.val)
       [] d.type = "Array" ->
            <<Open.Array>> \o FlattenSeq([n \in DOMAIN d.kids |-> Place(d, n, format, Inner(n))])
              \o <<Close.Array>>
       [] d.type = "Object" ->
            <<Open.Object>> \o If(format, <<NewLine>>)
              \o FlattenSeq([n \in DOMAIN d.kids |-> Line(d, n, format, depth, Inner(n))])
              \o If(format, Tabs(depth)) \o <<Close.Object>>
       [] OTHER -> <<>>
TextOf == LET levels[n \in 0..Levels] ==
               [d \in Nested[n] |-> [format \in BOOLEAN |-> [depth \in Nat |->
                  Compose(d, format, depth, IF n = 0 THEN <<>> ELSE levels[n - 1])]]]
         IN levels[Levels]
Render(d, format) == TextOf[d][format][0]

\* A text without the white space outside of its strings, and without the mark.
Strip(t) ==
  LET Odd(n) == Cardinality({k \in 1..n : t[k] = Quote}) % 2 = 1
      body == FlattenSeq([n \in DOMAIN t |-> If(t[n] > Space \/ (t[n] > 0 /\ Odd(n)), <<t[n]>>)])
  IN IF Len(body) > 3 /\ SubSeq(body, 1, 3) = ByteOrderMark
     THEN SubSeq(body, 4, Len(body)) ELSE body

\* The parser takes a whole text only for the document it is the text of: without
\* escapes, the text of that document is the text parsed, but for white space.
AcceptedTextIsItsDocument ==
  stage = "parsed" /\ report.ok /\ report.whole /\ Backslash \notin ToSet(text) =>
    Strip(text) = Render(item, FALSE)

\* A string literal is read as what its parts stand for; one with a part that
\* stands for nothing is refused.  But \u with digits that are none is not: it
\* stands for the byte 0, which ends the string for whoever reads it.
StringsMeanWhatTheySay ==
  stage = "parsed" /\ means # {NoText} /\ report.luck = MaxLuck =>
    IF report.ok THEN \E m \in means : item.val = CString(m) ELSE means = {}

\* A print gives the text of the document in one block, or nothing and no block.
\* It gives nothing only if no allocation was left, the text is too long to reserve
\* room for it, the document has an item that has no text, or the caller's buffer
\* is too short: the 5 bytes to spare that cJSON.h asks for are enough.
PrintedOrNothing == stage = "printed" =>
  LET whole == Render(item, report.format)
      OfCaller == report.by = "PrintPreallocated"
      Impossible == IF OfCaller THEN report.length < Len(whole) + 1 + 5
                    ELSE report.left = 0 \/ Len(whole) + 5 > INT_MAX
  IN /\ report.held = IF report.ok /\ ~OfCaller THEN 1 ELSE 0
     /\ report.ok => Wordless(item) = {} /\ text = Append(whole, 0)
     /\ ~report.ok => Wordless(item) # {} \/ Impossible

\* What was printed is read as the document it was printed from, unless that is
\* nested deeper than the parser goes or takes more allocations than may succeed.
\* Only a member without a name comes back with an empty one, a string without a
\* value as an empty one, and a number that is none (NaN) as null.
Again(d, member, below) ==
  LET Known(string) == IF string = NoText THEN <<>> ELSE string
      isNaN == d.type = "Number" /\ d.val = Word.NULL
  IN [type |-> IF isNaN THEN "NULL" ELSE d.type,
      string |-> IF member THEN Known(d.string) ELSE NoText,
      val |-> IF isNaN THEN NoText ELSE IF d.type = "String" THEN Known(d.val) ELSE d.val,
      kids |-> [k \in DOMAIN d.kids |-> below[d.kids[k]][d.type = "Object"]]]
Reread == LET levels[n \in 0..Levels] ==
                [d \in Nested[n] |-> [member \in BOOLEAN |->
                   Again(d, member, IF n = 0 THEN <<>> ELSE levels[n - 1])]]
          IN levels[Levels]
ReadBackIsSame == stage = "read" /\ (\A part \in Within[item] : part.type # "Raw") =>
  LET again == Reread[item][FALSE]
  IN IF report.ok THEN report.again = again
     ELSE item \notin Nested[CJSON_NESTING_LIMIT] \/ BlocksOf[again] > MaxLuck

\* Without its white space and comments, a printed text is the unformatted text of
\* its document: nothing inside a string is taken for either.  What a program puts
\* into a raw value is printed as it is, so it may have none of them, and no quote.
PlainRaw(d) == d.type = "Raw" => ToSet(d.val) \cap ((0..Space) \cup {Quote, 47}) = {}
MinifiedIsUnformatted ==
  stage = "minified" /\ (\A part \in Within[item] : PlainRaw(part)) =>
    text = Append(Render(item, FALSE), 0)
=============================================================================
