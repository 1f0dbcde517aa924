----------------------------- MODULE JsonBytes ------------------------------
(***************************************************************************)
(* Bytes and documents, for the parser and the printer of cJSON.c.  A      *)
(* string is the sequence of its bytes up to the 0.  A document is a       *)
(* record with the documents below it: the links between items are the     *)
(* business of JsonHeap.                                                   *)
(***************************************************************************)
EXTENDS Integers, Sequences, FiniteSetsExt, SequencesExt

CONSTANTS Levels,       \* how deep the documents may be nested
          NumberLength  \* digits that fit the buffer of parse_number, 63

ASSUME LevelsAssumption == Levels \in Nat

Byte == 0..255
Quote == 34
Backslash == 92
Minus == 45
Space == 32
Tab == 9
NewLine == 10
Comma == 44
Colon == 58
Open == [Array |-> 91, Object |-> 123]
Close == [Array |-> 93, Object |-> 125]
Digit == 48..57
Word == [NULL |-> <<110, 117, 108, 108>>, False |-> <<102, 97, 108, 115, 101>>,
         True |-> <<116, 114, 117, 101>>]
ByteOrderMark == <<239, 187, 191>>

Character == Byte \ {0}
NoText == <<-1>>          \* the NULL of a char pointer
CharPointer == Seq(Character) \cup {NoText}
NewItem == [type |-> "Invalid", string |-> NoText, val |-> NoText, kids |-> <<>>]

\* What strlen and strcmp see of the bytes: up to the first 0.
CString(bytes) == SubSeq(bytes, 1, Min({Len(bytes) + 1} \cup {n \in DOMAIN bytes : bytes[n] = 0}) - 1)
-----------------------------------------------------------------------------
Items(types, vals, kids) == [type : types, string : CharPointer, val : vals, kids : kids]

\* A number is what strtod reads and sprintf writes: a sign and digits, or null for
\* one that is none (NaN).
IsNumeral(w) == LET body == SubSeq(w, IF w[1] = Minus THEN 2 ELSE 1, Len(w))
                IN body # <<>> /\ ToSet(body) \subseteq Digit
Numbers == {w \in Seq(Character) : Len(w) \in 1..NumberLength /\ IsNumeral(w)} \cup {Word.NULL}

\* Nested[n] are the documents whose arrays and objects are nested n deep at most.
Nested[n \in 0..Levels] ==
  Items({"Number"}, Numbers, {<<>>})
    \cup Items({"Invalid"} \cup DOMAIN Word, {NoText}, {<<>>})
    \cup Items({"String", "Raw"}, CharPointer, {<<>>})
    \cup (IF n = 0 THEN {} ELSE Items(DOMAIN Open, {NoText}, Seq(Nested[n - 1])))
Documents == Nested[Levels]

\* The blocks of a document: its items, their names and their string values.
OwnBlocks(item) == 1 + (IF item.string # NoText THEN 1 ELSE 0)
                     + (IF item.type \in {"String", "Raw"} /\ item.val # NoText THEN 1 ELSE 0)
SumOf(kids, blocks) ==
  LET upto[n \in 0..Len(kids)] == IF n = 0 THEN 0 ELSE upto[n - 1] + blocks[kids[n]]
  IN upto[Len(kids)]
BlocksOf == LET levels[n \in 0..Levels] ==
                  [d \in Nested[n] |-> OwnBlocks(d) + (IF n = 0 THEN 0
                                                       ELSE SumOf(d.kids, levels[n - 1]))]
            IN levels[Levels]
=============================================================================
