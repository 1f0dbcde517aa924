----------------------------- MODULE JsonParser -----------------------------
(***************************************************************************)
(* The parser and Minify.  A text is the sequence of its bytes and ends    *)
(* with the byte 0 of a C string; offsets count from 0 as in the code.     *)
(*                                                                         *)
(* The parse buffer b also carries what is outside of it in the code: how  *)
(* often malloc still succeeds (luck), the blocks in use (held), and       *)
(* whether a byte was written outside of its block (overrun).  The numbers *)
(* are integers, so what strtod reads is a sign and digits.                *)
(***************************************************************************)
EXTENDS JsonBytes

CONSTANT CJSON_NESTING_LIMIT

ASSUME ParserAssumption == CJSON_NESTING_LIMIT \in 0..Levels /\ NumberLength \in Nat \ {0}

ParseBuffer == [text : Seq(Byte), offset : Nat, depth : Nat, luck : Nat, held : Int,
                overrun : BOOLEAN]

ByteAt(b, n) == b.text[n + 1]
CanAccess(b) == b.offset < Len(b.text)
Sees(b, byte) == CanAccess(b) /\ ByteAt(b, b.offset) = byte
SeesWord(b, word) == /\ b.offset + Len(word) <= Len(b.text)
                     /\ SubSeq(b.text, b.offset + 1, b.offset + Len(word)) = word
Step(b, n) == [b EXCEPT !.offset = @ + n]

Malloc(b) == [ok |-> b.luck > 0,
              b |-> IF b.luck > 0 THEN [b EXCEPT !.luck = @ - 1, !.held = @ + 1] ELSE b]
Release(b, n) == [b EXCEPT !.held = @ - n]

\* The byte 0 counts as white, so the end is run over and stepped back from.
buffer_skip_whitespace(b) ==
  LET black == {n \in b.offset..(Len(b.text) - 1) : ByteAt(b, n) > 32}
  IN [b EXCEPT !.offset = IF black = {} THEN Len(b.text) - 1 ELSE Min(black)]

skip_utf8_bom(b) ==
  IF b.offset + 4 < Len(b.text) /\ SeesWord(b, ByteOrderMark) THEN Step(b, 3) ELSE b

\* cJSON_Delete of a list of documents.
\* Slip: only the first element of the list is deleted.
DeleteListStopsEarly(b, kids) == Release(b, IF kids = <<>> THEN 0 ELSE BlocksOf[kids[1]])
DeleteList(b, kids) == Release(b, SumOf(kids, BlocksOf))

Yes(b, item) == [ok |-> TRUE, b |-> b, item |-> item]
No(b, item) == [ok |-> FALSE, b |-> b, item |-> item]
-----------------------------------------------------------------------------
NumberByte == Digit \cup {Minus, 43, 46, 69, 101}      \* + . E e

\* How much of the bytes w strtod reads: 0 when they do not start with a number.
Strtod(w) == Max({0} \cup {n \in DOMAIN w : IsNumeral(SubSeq(w, 1, n))})

parse_number(b, item) ==
  LET rest == SubSeq(b.text, b.offset + 1, Len(b.text))
      stop == {n \in DOMAIN rest : rest[n] \notin NumberByte} \cup {NumberLength + 1}
      copied == SubSeq(rest, 1, Min(stop) - 1)
      n == Strtod(copied)
  IN IF n = 0 THEN No(b, item)
     ELSE Yes(Step(b, n), [item EXCEPT !.type = "Number", !.val = SubSeq(copied, 1, n)])

HexDigit == [c \in Digit \cup 65..70 \cup 97..102 |->
               CASE c \in Digit -> c - 48 [] c \in 65..70 -> c - 55 [] OTHER -> c - 87]

\* Four hexadecimal digits from n on; anything else counts as 0.
parse_hex4(b, n) ==
  LET d(i) == HexDigit[ByteAt(b, n + i)]
  IN IF \E i \in 0..3 : ByteAt(b, n + i) \notin DOMAIN HexDigit THEN 0
     ELSE 4096 * d(0) + 256 * d(1) + 16 * d(2) + d(3)

\* Slip: every other code gets the two bytes of a short one.
Utf8WrongMark(c) == IF c < 128 THEN <<c>> ELSE <<192 + (c \div 64), 128 + (c % 64)>>
Utf8(c) ==
  LET Tail6(k) == 128 + ((c \div k) % 64)
  IN CASE c < 128 -> <<c>>
       [] c \in 128..2047 -> <<192 + (c \div 64), Tail6(1)>>
       [] c \in 2048..65535 -> <<224 + (c \div 4096), Tail6(64), Tail6(1)>>
       [] OTHER -> <<240 + (c \div 262144), Tail6(4096), Tail6(64), Tail6(1)>>

HighSurrogate == 55296..56319
LowSurrogate == 56320..57343

\* The escape \uXXXX at n, or two of them for a surrogate pair; length 0 on failure.
utf16_literal_to_utf8(b, n, end) ==
  LET first == parse_hex4(b, n + 2)
      second == parse_hex4(b, n + 8)
      Fail == [length |-> 0, bytes |-> <<>>]
  IN CASE end - n < 6 -> Fail
       [] end - n >= 6 /\ first \in LowSurrogate -> Fail
       [] end - n >= 6 /\ first \in HighSurrogate ->
            IF end - n < 12 THEN Fail
            ELSE IF ByteAt(b, n + 6) # Backslash \/ ByteAt(b, n + 7) # 117
                    \/ second \notin LowSurrogate THEN Fail
            ELSE [length |-> 12,
                  bytes |-> Utf8(65536 + 1024 * (first % 1024) + (second % 1024))]
       [] OTHER -> [length |-> 6, bytes |-> Utf8(first)]

Escape == [c \in {98, 102, 110, 114, 116, Quote, Backslash, 47} |->
             CASE c = 98 -> 8 [] c = 102 -> 12 [] c = 110 -> NewLine [] c = 114 -> 13
               [] c = 116 -> Tab [] OTHER -> c]

\* The backslashes behind a quote that begin an escape: a byte that is escaped
\* does not.
Escapes(b, quote) ==
  LET begins[n \in 0..(Len(b.text) - 1)] ==
        n > quote /\ ByteAt(b, n) = Backslash /\ ~begins[n - 1]
  IN {n \in 0..(Len(b.text) - 1) : begins[n]}

\* First the closing quote is searched and the escapes are counted ...
FindQuote(b, quote) ==
  LET escapes == Escapes(b, quote)
      ends == {n \in (quote + 1)..(Len(b.text) - 1) : ByteAt(b, n) = Quote /\ n - 1 \notin escapes}
  IN IF ends = {} THEN [ok |-> FALSE, end |-> quote, skipped |-> 0]
     ELSE [ok |-> TRUE, end |-> Min(ends), skipped |-> Cardinality({n \in escapes : n < Min(ends)})]

\* ... then the bytes up to it are copied, and the escapes resolved.
Resolve(b, s, end) ==
  LET byte == ByteAt(b, s.at)
      code == ByteAt(b, s.at + 1)
      literal == utf16_literal_to_utf8(b, s.at, end)
      Put(length, bytes) == [s EXCEPT !.at = @ + length, !.out = @ \o bytes]
  IN CASE ~s.ok \/ s.at >= end -> s
       [] s.ok /\ s.at < end /\ byte # Backslash -> Put(1, <<byte>>)
       [] s.ok /\ s.at < end /\ byte = Backslash ->
            CASE code \in DOMAIN Escape -> Put(2, <<Escape[code]>>)
              [] code = 117 /\ literal.length > 0 -> Put(literal.length, literal.bytes)
              [] OTHER -> [s EXCEPT !.ok = FALSE]
Unescape(b, quote, end) ==
  LET rounds[k \in 0..(end - quote)] ==
        IF k = 0 THEN [ok |-> TRUE, at |-> quote + 1, out |-> <<>>]
        ELSE Resolve(b, rounds[k - 1], end)
  IN rounds[end - quote]

parse_string(b, item) ==
  LET start == b.offset
      found == FindQuote(b, start)
      output == Malloc(b)
      copy == Unescape(output.b, start, found.end)
      size == found.end - start - found.skipped + 1
      Fail(buffer, at) == No([buffer EXCEPT !.offset = at], item)
  IN IF ~Sees(b, Quote) \/ ~found.ok \/ ~output.ok THEN Fail(b, start + 1)
     ELSE IF ~copy.ok
     THEN Fail([Release(output.b, 1) EXCEPT !.overrun = @ \/ Len(copy.out) > size], copy.at)
     ELSE Yes([output.b EXCEPT !.offset = found.end + 1, !.overrun = @ \/ Len(copy.out) + 1 > size],
              [item EXCEPT !.type = "String", !.val = CString(copy.out)])
-----------------------------------------------------------------------------
\* A value is parsed by value[b][item], for the elements of a list too.  What the
\* loop of parse_array and parse_object knows is whether all went well, the elements
\* so far, and whether more follow, because a comma does.
Loop(v, more, kids) == [ok |-> v.ok, b |-> v.b, more |-> more, item |-> Append(kids, v.item)]
next_element(v, kids) ==
  LET after == buffer_skip_whitespace(v.b)
  IN IF ~v.ok THEN Loop(v, FALSE, kids) ELSE Loop(Yes(after, v.item), Sees(after, Comma), kids)

\* The name of a member is followed by a colon and the value.
parse_member(name, kids, value) ==
  LET colon == buffer_skip_whitespace(name.b)
      kid == [NewItem EXCEPT !.string = name.item.val]
  IN IF ~name.ok THEN Loop(No(name.b, NewItem), FALSE, kids)
     ELSE IF ~Sees(colon, Colon) THEN Loop(No(colon, kid), FALSE, kids)
     ELSE next_element(value[buffer_skip_whitespace(Step(colon, 1))][kid], kids)

\* A round of the loop, from the byte before an element on: the element is
\* allocated, named in an object, and parsed.
parse_element(list, named, value) ==
  LET new == Malloc(list.b)
      start == buffer_skip_whitespace(Step(new.b, 1))
  IN IF ~list.ok \/ ~list.more THEN list
     ELSE IF ~new.ok THEN [list EXCEPT !.ok = FALSE]
     ELSE IF named THEN parse_member(parse_string(start, NewItem), list.item, value)
     ELSE next_element(value[start][NewItem], list.item)
parse_list(b, named, value) ==
  LET rounds[k \in 0..Len(b.text)] ==
        IF k = 0 THEN [ok |-> TRUE, b |-> b, more |-> TRUE, item |-> <<>>]
        ELSE parse_element(rounds[k - 1], named, value)
  IN rounds[Len(b.text)]

\* The list is deleted when anything in it failed, or its bracket is missing.
close_container(list, item, type) ==
  IF list.ok /\ Sees(list.b, Close[type])
  THEN Yes([Step(list.b, 1) EXCEPT !.depth = @ - 1], [item EXCEPT !.type = type, !.kids = list.item])
  ELSE No(DeleteList(list.b, list.item), item)

\* parse_array and parse_object.
parse_container(b, item, type, value) ==
  LET inside == buffer_skip_whitespace(Step([b EXCEPT !.depth = @ + 1], 1))
  IN IF b.depth >= CJSON_NESTING_LIMIT THEN No(b, item)
     ELSE close_container(IF Sees(inside, Close[type]) THEN Yes(inside, <<>>)
                          ELSE parse_list(Step(inside, -1), type = "Object", value), item, type)

value_from(b, item, value) ==
  LET words == {w \in DOMAIN Word : SeesWord(b, Word[w])}
      word == CHOOSE w \in words : TRUE
  IN CASE words # {} -> Yes(Step(b, Len(Word[word])), [item EXCEPT !.type = word])
       [] words = {} /\ Sees(b, Quote) -> parse_string(b, item)
       [] words = {} /\ (\E c \in Digit \cup {Minus} : Sees(b, c)) -> parse_number(b, item)
       [] words = {} /\ Sees(b, Open.Array) -> parse_container(b, item, "Array", value)
       [] words = {} /\ Sees(b, Open.Object) -> parse_container(b, item, "Object", value)
       [] OTHER -> No(b, item)

\* parse_value calls itself for what is one level further down; at the last level
\* parse_container calls nothing.  An item is new, or has only its name.
NewItems == Items({"Invalid"}, {NoText}, {<<>>})
parse_value(b, item) ==
  LET levels[n \in 0..CJSON_NESTING_LIMIT] ==
        [c \in ParseBuffer |-> [i \in NewItems |->
           value_from(c, i, IF n = 0 THEN <<>> ELSE levels[n - 1])]]
  IN levels[CJSON_NESTING_LIMIT][b][item]

\* Without appended garbage, if the caller requires that.
\* Slip: what follows the document is never looked at.
EndsAnywhere(b, require_null_terminated) == Yes(b, NewItem)
Ends(b, require_null_terminated) ==
  LET end == buffer_skip_whitespace(b)
  IN IF ~require_null_terminated THEN Yes(b, NewItem)
     ELSE IF Sees(end, 0) THEN Yes(end, NewItem) ELSE No(end, NewItem)

\* The item that was made for document v, or nothing and no blocks.
finish_parse(v, require_null_terminated) ==
  LET end == Ends(v.b, require_null_terminated)
      Fail(b, blocks) == No(Release([b EXCEPT !.offset = Min({@, Len(b.text) - 1})], blocks), NewItem)
  IN CASE ~v.ok -> Fail(v.b, 1)
       [] v.ok /\ ~end.ok -> Fail(end.b, BlocksOf[v.item])
       [] OTHER -> Yes(end.b, v.item)

cJSON_ParseWithOpts(text, luck, require_null_terminated) ==
  LET empty == [text |-> text, offset |-> 0, depth |-> 0, luck |-> luck, held |-> 0,
                overrun |-> FALSE]
      new == Malloc(empty)
  IN IF ~new.ok THEN No(empty, NewItem)
     ELSE finish_parse(parse_value(buffer_skip_whitespace(skip_utf8_bom(new.b)), NewItem),
                       require_null_terminated)
-----------------------------------------------------------------------------
\* Slip: a quote after a backslash ends the string.
EndAtAnyQuote(t, n) == Min({Len(t) - 1} \cup {k \in DOMAIN t : k > n /\ t[k] = Quote})
\* Where the string literal that starts at n ends.
EndOfString(t, n) == FindQuote([text |-> t], n - 1).end + 1

\* A round of cJSON_Minify, at byte m.at of a text whose strings and comments all end.
minify_byte(t, m) ==
  LET n == m.at
      Slash(byte) == t[n] = 47 /\ t[n + 1] = byte       \* a slash and the byte
      end == IF t[n] = Quote THEN EndOfString(t, n) ELSE n
      Skip(to) == [m EXCEPT !.at = to]
  IN CASE t[n] = 0 -> m
       [] t[n] \in {Space, Tab, 13, NewLine} -> Skip(n + 1)
       [] Slash(47) -> Skip(Min({k \in n..Len(t) : t[k] \in {0, NewLine}}))
       [] Slash(42) -> Skip(2 + Min({k \in n..Len(t) : t[k] = 42 /\ t[k + 1] = 47}))
       [] OTHER -> [at |-> end + 1, into |-> m.into \o SubSeq(t, n, end)]
cJSON_Minify(t) ==
  LET rounds[k \in 0..Len(t)] == IF k = 0 THEN [at |-> 1, into |-> <<>>]
                                 ELSE minify_byte(t, rounds[k - 1])
  IN Append(rounds[Len(t)].into, 0)
=============================================================================
