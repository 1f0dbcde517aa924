------------------------------ MODULE JsonText ------------------------------
(***************************************************************************)
(* A document on its way through cJSON.c: a text is parsed to items, items *)
(* are printed by one of the print functions, and what was printed is      *)
(* parsed again, or gets comments and is minified.  malloc may fail from   *)
(* any call on.                                                            *)
(*                                                                         *)
(* Text, StringCase and Document are the inputs; Luck is how many          *)
(* allocations may succeed, MaxLuck more than any call makes; Prebuffer    *)
(* and MaxLength bound the sizes that a caller of cJSON_PrintBuffered and  *)
(* cJSON_PrintPreallocated chooses.                                        *)
(***************************************************************************)
EXTENDS JsonParser, JsonPrinter

CONSTANTS Text,         \* texts, of JSON or not
          StringCase,   \* string literals, with what they stand for
          Document,     \* documents that a program built itself
          Comment,      \* what a program may write for white space
          Luck, MaxLuck, Prebuffer, MaxLength

IsText(t) == t \in Seq(Byte) /\ t # <<>> /\ {n \in DOMAIN t : t[n] = 0} = {Len(t)}
ASSUME TextAssumption == /\ \A t \in Text \cup {s.text : s \in StringCase} : IsText(t)
                         /\ Document \subseteq Documents
                         /\ Luck \subseteq 0..MaxLuck /\ MaxLuck \in Luck
                         /\ Prebuffer \subseteq 1..INT_MAX /\ MaxLength \in 0..INT_MAX

\* A comment is a white byte, or begins with two slashes and ends with its only new
\* line, or begins with a slash and a star and ends with its only star and slash.
IsComment(c) ==
  LET Begins(star) == Len(c) > 2 /\ c[1] = 47 /\ c[2] = star
      Closes(n) == c[n] = 42 /\ c[n + 1] = 47
  IN /\ c \in Seq(Character)
     /\ \/ \E byte \in {Space, Tab, 13, NewLine} : c = <<byte>>
        \/ Begins(47) /\ {n \in DOMAIN c : c[n] = NewLine} = {Len(c)}
        \/ Begins(42) /\ {n \in 2..(Len(c) - 1) : Closes(n)} = {Len(c) - 1}
ASSUME CommentAssumption == \A c \in Comment : IsComment(c)

VARIABLES stage,    \* what happened to the document last
          text,     \* the text it is in, with the byte 0
          means,    \* what the text stands for when it is a string literal
          item,     \* the document as items, or None
          report    \* what the last call was asked and what it did

vars == <<stage, text, means, item, report>>

None == [NewItem EXCEPT !.type = "none"]
Start == [ok |-> TRUE, held |-> 0, overrun |-> FALSE]

Init == /\ report = Start
        /\ \/ stage = "text" /\ text \in Text /\ means = {NoText} /\ item = None
           \/ \E s \in StringCase : stage = "text" /\ text = s.text /\ means = s.means /\ item = None
           \/ stage = "items" /\ text = <<0>> /\ means = {NoText} /\ item \in Document

\* The parser gave v.
ParseGives(v, luck, whole) ==
  /\ stage = "text" /\ stage' = "parsed"
  /\ item' = IF v.ok THEN v.item ELSE None
  /\ report' = [ok |-> v.ok, held |-> v.b.held, overrun |-> v.b.overrun, luck |-> luck,
                whole |-> whole, end |-> v.b.offset]
  /\ UNCHANGED <<text, means>>
Parse(luck, whole) == ParseGives(cJSON_ParseWithOpts(text, luck, whole), luck, whole)

\* One of the print functions gave r.  Of the parses that gave a document one is
\* enough to go on with.
Give(r, by, format, length) ==
  /\ item # None
  /\ stage = "items" \/ (stage = "parsed" /\ report.luck = MaxLuck /\ report.whole)
  /\ stage' = "printed"
  /\ text' = IF r.ok THEN Append(r.text, 0) ELSE <<0>>
  /\ report' = [ok |-> r.ok, held |-> r.held, overrun |-> r.overrun, by |-> by,
                format |-> format, left |-> r.left, length |-> length]
  /\ UNCHANGED <<means, item>>

PrintItem(format, luck, reallocate) ==
  Give(print(item, format, luck, reallocate), "Print", format, 0)
PrintBuffered(prebuffer, format, luck, reallocate) ==
  Give(cJSON_PrintBuffered(item, prebuffer, format, luck, reallocate), "PrintBuffered",
       format, prebuffer)
PrintPreallocated(length, format) ==
  Give(cJSON_PrintPreallocated(item, length, format), "PrintPreallocated", format, length)

\* What was printed is parsed again, and gives v.
ReadBackGives(v) ==
  /\ stage = "printed" /\ report.ok
  /\ stage' = "read"
  /\ report' = [ok |-> v.ok, again |-> v.item, held |-> v.b.held, overrun |-> v.b.overrun]
  /\ UNCHANGED <<text, means, item>>
ReadBack == ReadBackGives(cJSON_ParseWithOpts(text, MaxLuck, TRUE))

\* Strings are printed without tabs, so the tabs of the text are its indentation.
MinifyCommented(comment) ==
  /\ stage = "printed" /\ report.ok /\ report.by = "Print"
  /\ stage' = "minified"
  /\ text' = cJSON_Minify(FlattenSeq([n \in DOMAIN text |-> IF text[n] = Tab THEN comment ELSE <<text[n]>>]))
  /\ report' = Start
  /\ UNCHANGED <<means, item>>

Next == \/ \E luck \in Luck, whole \in BOOLEAN : Parse(luck, whole)
        \/ \E luck \in Luck, format, reallocate \in BOOLEAN :
             \/ PrintItem(format, luck, reallocate)
             \/ \E prebuffer \in Prebuffer : PrintBuffered(prebuffer, format, luck, reallocate)
        \/ \E length \in 0..MaxLength, format \in BOOLEAN : PrintPreallocated(length, format)
        \/ ReadBack
        \/ \E comment \in Comment : MinifyCommented(comment)

Spec == Init /\ [][Next]_vars
-----------------------------------------------------------------------------
\* A parse gives a document, and exactly the blocks of that document, or nothing:
\* whatever is wrong with the text and whichever allocation fails, the elements
\* of all the lists that were begun are freed.
ParsedOrNothing == stage = "parsed" =>
  /\ report.held = IF report.ok THEN BlocksOf[item] ELSE 0
  /\ report.ok => item \in Nested[CJSON_NESTING_LIMIT] /\ report.luck >= BlocksOf[item]

\* Nothing is written outside of a block, and an error is inside the text.
NoOverrun == ~report.overrun /\ (stage = "parsed" => report.end < Len(text))
=============================================================================
