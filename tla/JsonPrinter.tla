---------------------------- MODULE JsonPrinter -----------------------------
(***************************************************************************)
(* The printer of cJSON.c, on the documents of JsonParser.  The print      *)
(* buffer p has the bytes of its block, of which nothing is known until    *)
(* they are written (Garbage).  Its field ok is what the functions return: *)
(* the first that fails ends all that called it.  luck, held and overrun   *)
(* are as in JsonParser; alive says that p->buffer is not NULL, and        *)
(* reallocate that the hooks have a realloc.                               *)
(***************************************************************************)
EXTENDS JsonBytes

CONSTANTS INT_MAX, DefaultBufferSize      \* the 256 bytes print starts with

ASSUME PrinterAssumption == INT_MAX \in Nat \ {0} /\ DefaultBufferSize \in 1..INT_MAX

Garbage == 255
Buffer == [bytes : Seq(Byte), offset : Nat, depth : Int, noalloc : BOOLEAN, format : BOOLEAN,
           luck : Nat, reallocate : BOOLEAN, ok : BOOLEAN, alive : BOOLEAN, held : Int,
           overrun : BOOLEAN]

Fail(p) == [p EXCEPT !.ok = FALSE]

ensure(p, needed) ==
  LET need == needed + p.offset + 1
      newsize == IF need > INT_MAX \div 2 THEN INT_MAX ELSE 2 * need
      kept == IF p.reallocate THEN Len(p.bytes) ELSE p.offset + 1
      Old(n) == IF n <= kept /\ n <= Len(p.bytes) THEN p.bytes[n] ELSE Garbage
  IN IF \/ ~p.alive
        \/ p.bytes # <<>> /\ p.offset >= Len(p.bytes)
        \/ needed > INT_MAX
     THEN Fail(p)
     ELSE IF need <= Len(p.bytes) THEN p
     ELSE IF p.noalloc \/ need > INT_MAX THEN Fail(p)
     ELSE IF p.luck = 0
     THEN Fail([p EXCEPT !.held = @ - 1, !.alive = FALSE, !.bytes = <<>>])
     ELSE [p EXCEPT !.luck = @ - 1, !.bytes = [n \in 1..newsize |-> Old(n)]]

Write(p, at, bytes) ==
  [p EXCEPT !.overrun = @ \/ at + Len(bytes) > Len(p.bytes),
            !.bytes = [n \in DOMAIN @ |-> IF n \in (at + 1)..(at + Len(bytes))
                                          THEN bytes[n - at] ELSE @[n]]]

\* The step all of the printing is made of: reserve, write, move on.
Emit(p, needed, bytes, step) ==
  LET room == ensure(p, needed)
  IN IF ~p.ok \/ ~room.ok THEN (IF p.ok THEN room ELSE p)
     ELSE [Write(room, room.offset, bytes) EXCEPT !.offset = @ + step]

update_offset(p) ==
  LET zeros == {n \in DOMAIN p.bytes : n > p.offset /\ p.bytes[n] = 0}
  IN IF ~p.ok THEN p
     ELSE [p EXCEPT !.overrun = @ \/ zeros = {},
                    !.offset = IF zeros = {} THEN @ ELSE Min(zeros) - 1]
-----------------------------------------------------------------------------
ShortEscape == [c \in {Quote, Backslash, 8, 12, NewLine, 13, Tab} |->
                  CASE c = 8 -> 98 [] c = 12 -> 102 [] c = NewLine -> 110 [] c = 13 -> 114
                    [] c = Tab -> 116 [] OTHER -> c]
\* Slip: a control character is counted as one byte.
ExtraForgetsControls(c) == IF c \in DOMAIN ShortEscape THEN 1 ELSE 0
Extra(c) == IF c \in DOMAIN ShortEscape THEN 1 ELSE IF c < 32 THEN 5 ELSE 0
HexByte(d) == IF d < 10 THEN 48 + d ELSE 87 + d
\* Slip: no character is escaped.
EscapedForgotten(c) == <<c>>
Escaped(c) == CASE c \in DOMAIN ShortEscape -> <<Backslash, ShortEscape[c]>>
                [] c \notin DOMAIN ShortEscape /\ c < 32 ->
                     <<Backslash, 117, 48, 48, HexByte(c \div 16), HexByte(c % 16)>>
                [] OTHER -> <<c>>

\* The string with its escapes, and the length counted for that beforehand.
Spelled(string) ==
  LET upto[n \in 0..Len(string)] == IF n = 0 THEN <<>> ELSE upto[n - 1] \o Escaped(string[n])
  IN upto[Len(string)]
OutputLength(string) ==
  LET upto[n \in 0..Len(string)] == IF n = 0 THEN 0 ELSE upto[n - 1] + 1 + Extra(string[n])
  IN upto[Len(string)]

\* The closing quote goes where the length says.
print_string_ptr(p, input) ==
  LET string == IF input = NoText THEN <<>> ELSE input
      output_length == OutputLength(string)
      body == Emit(p, output_length + 3, <<Quote>> \o Spelled(string), 0)
  IN IF ~body.ok THEN body ELSE Write(body, body.offset + output_length + 1, <<Quote, 0>>)

print_number(p, item) == Emit(p, Len(item.val) + 1, Append(item.val, 0), Len(item.val))

If(condition, bytes) == IF condition THEN bytes ELSE <<>>
Tabs(n) == [i \in 1..n |-> Tab]
Nest(p, n) == [p EXCEPT !.depth = @ + n]

\* A value is printed to p by value[p][item], for the items of a list too.
print_comma(p, last) ==
  LET comma == <<Comma>> \o If(p.format, <<Space>>)
  IN IF last THEN p ELSE Emit(p, Len(comma) + 1, Append(comma, 0), Len(comma))

print_elements(p, kids, value) ==
  LET upto[n \in 0..Len(kids)] ==
        IF n = 0 THEN p
        ELSE print_comma(update_offset(value[upto[n - 1]][kids[n]]), n = Len(kids))
  IN upto[Len(kids)]

print_array(p, item, value) ==
  LET opened == Nest(Emit(p, 1, <<Open.Array>>, 1), 1)
      elements == print_elements(opened, item.kids, value)
  IN Nest(Emit(elements, 2, <<Close.Array, 0>>, 0), -1)

print_member(p, kid, last, value) ==
  LET indented == IF p.format THEN Emit(p, p.depth, Tabs(p.depth), p.depth) ELSE p
      named == update_offset(print_string_ptr(indented, kid.string))
      colon == <<Colon>> \o If(p.format, <<Tab>>)
      valued == update_offset(value[Emit(named, Len(colon), colon, Len(colon))][kid])
      end == If(~last, <<Comma>>) \o If(p.format, <<NewLine>>)
  IN Emit(valued, Len(end) + 1, Append(end, 0), Len(end))

print_members(p, kids, value) ==
  LET upto[n \in 0..Len(kids)] == IF n = 0 THEN p
                         ELSE print_member(upto[n - 1], kids[n], n = Len(kids), value)
  IN upto[Len(kids)]

print_object(p, item, value) ==
  LET open == <<Open.Object>> \o If(p.format, <<NewLine>>)
      opened == Nest(Emit(p, Len(open) + 1, open, Len(open)), 1)
      members == print_members(opened, item.kids, value)
      close == If(p.format, Tabs(p.depth)) \o <<Close.Object, 0>>
  IN Nest(Emit(members, IF p.format THEN p.depth + 2 ELSE 2, close, 0), -1)

value_of_type(p, item, value) ==
  CASE ~p.ok -> p
    [] p.ok /\ item.type \in DOMAIN Word ->
         Emit(p, Len(Word[item.type]) + 1, Append(Word[item.type], 0), 0)
    [] p.ok /\ item.type = "Number" -> print_number(p, item)
    [] p.ok /\ item.type = "Raw" ->
         IF item.val = NoText THEN Fail(p)
         ELSE Emit(p, Len(item.val) + 1, Append(item.val, 0), 0)
    [] p.ok /\ item.type = "String" -> print_string_ptr(p, item.val)
    [] p.ok /\ item.type = "Array" -> print_array(p, item, value)
    [] p.ok /\ item.type = "Object" -> print_object(p, item, value)
    [] OTHER -> Fail(p)

\* print_value calls itself for what is one level further down.
print_value(p, item) ==
  LET levels[n \in 0..Levels] ==
        [q \in Buffer |-> [i \in Nested[n] |-> value_of_type(q, i, IF n = 0 THEN <<>> ELSE levels[n - 1])]]
  IN levels[Levels][p][item]
-----------------------------------------------------------------------------
PrintBuffer(size, noalloc, format, luck, reallocate) ==
  [bytes |-> [n \in 1..size |-> Garbage], offset |-> 0, depth |-> 0, noalloc |-> noalloc,
   format |-> format, luck |-> luck, reallocate |-> reallocate, ok |-> TRUE, alive |-> TRUE,
   held |-> IF noalloc THEN 0 ELSE 1, overrun |-> FALSE]

\* What a print function gives back, what it leaves behind, and how many allocations
\* could still have succeeded.
Printed(p) == [ok |-> TRUE, text |-> CString(p.bytes), held |-> p.held, overrun |-> p.overrun,
               left |-> p.luck]
NotPrinted(held, overrun, left) ==
  [ok |-> FALSE, text |-> NoText, held |-> held, overrun |-> overrun, left |-> left]
\* Slip: the buffer of a failed print is not freed.
FreeBufferForgotten(p) == NotPrinted(p.held, p.overrun, p.luck)
FreeBuffer(p) == NotPrinted(IF p.alive THEN p.held - 1 ELSE p.held, p.overrun, p.luck)

\* print, behind cJSON_Print and cJSON_PrintUnformatted: the text is moved to a
\* block of its own length.
move_text(p) ==
  [p EXCEPT !.bytes = [n \in 1..(p.offset + 1) |-> CASE ~p.reallocate /\ n = p.offset + 1 -> 0
                                                    [] n \in DOMAIN @ -> @[n]
                                                    [] OTHER -> Garbage]]
finish_print(p) == IF ~p.ok \/ p.luck = 0 THEN FreeBuffer(p) ELSE Printed(move_text(p))
print(item, format, luck, reallocate) ==
  IF luck = 0 THEN NotPrinted(0, FALSE, 0)
  ELSE finish_print(update_offset(print_value(
         PrintBuffer(DefaultBufferSize, FALSE, format, luck - 1, reallocate), item)))

PrintedOrFreed(p) == IF p.ok THEN Printed(p) ELSE FreeBuffer(p)
cJSON_PrintBuffered(item, prebuffer, format, luck, reallocate) ==
  IF prebuffer < 0 \/ luck = 0 THEN NotPrinted(0, FALSE, luck)
  ELSE PrintedOrFreed(print_value(PrintBuffer(prebuffer, FALSE, format, luck - 1, reallocate), item))

PrintedOrNot(p) == IF p.ok THEN Printed(p) ELSE NotPrinted(p.held, p.overrun, p.luck)
cJSON_PrintPreallocated(item, length, format) ==
  IF length < 0 THEN NotPrinted(0, FALSE, 0)
  ELSE PrintedOrNot(print_value(PrintBuffer(length, TRUE, format, 0, TRUE), item))
=============================================================================
