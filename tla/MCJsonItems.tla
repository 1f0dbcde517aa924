---------------------------- MODULE MCJsonItems -----------------------------
(***************************************************************************)
(* JsonItems for TLC: five programs, each with a part of the types and     *)
(* little room, so that each allocation fails somewhere.                   *)
(***************************************************************************)
EXTENDS JsonItems, TLC
CONSTANT Spare    \* the items that Symmetry leaves alone

\* Two names that differ in case alone.
MCFold == <<1, 1>>

MCProgram == {[types |-> {"Array"}, keys |-> {}, room |-> 5],
              [types |-> {"Object", "String"}, keys |-> {1, 2}, room |-> 4],
              [types |-> {"Object", "Array"}, keys |-> {1}, room |-> 3],
              [types |-> {"Number"}, keys |-> {}, room |-> 4],
              [types |-> {"String"}, keys |-> {}, room |-> 5]}

\* The items in Spare are reached only where there is room for five, and by copies.
Symmetry == Permutations(Id \ Spare)
=============================================================================
