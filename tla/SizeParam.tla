------------------------------ MODULE SizeParam ------------------------------
(***************************************************************************)
(* The size argument of Pre-Expedite: how argv[2] becomes the number of    *)
(* gigabytes that VFSBlockCreate works with.  Operators only; SizeRequest  *)
(* runs them as the program does, and PreExpedite uses them for its runs.  *)
(*                                                                         *)
(* An argument is abstracted to [num, unit]: the value of its digits and   *)
(* what follows them ("none", "g" or "G", "t" or "T", and "bad" for every  *)
(* string that is neither digits nor digits and one unit letter).          *)
(*                                                                         *)
(* IntMod and LongMod are 2^32 and 2^64 on the machines the Makefile       *)
(* targets.  They are parameters because TLC's own integers are 32 bits.   *)
(***************************************************************************)
EXTENDS Integers

CONSTANTS IntMod,   \* number of values of a C int
          LongMod   \* number of values of a C int64_t and of a C long

MAX_SIZE == 1024 * 10

ASSUME WidthAssumption == /\ IntMod \in Nat
                          /\ LongMod \in Nat
                          /\ MAX_SIZE < IntMod
                          /\ IntMod < LongMod \div 2

Unit == {"none", "g", "t", "bad"}
Arg == [num : Nat, unit : Unit]

LongMax == LongMod \div 2 - 1

\* glibc's atol saturates.
atol(n) == IF n <= LongMax THEN n ELSE LongMax

\* A product stored in an int64_t keeps its low bits.
AsLong(x) == LET low == x % LongMod
             IN  IF low <= LongMax THEN low ELSE low - LongMod

\* Slip: the limit of a bare number is exclusive.
ParseFileSizeParamBelow(arg) ==
  LET n == atol(arg.num) IN
  CASE arg.unit = "none" -> IF n < 1024 THEN n ELSE -1
    [] arg.unit = "g"    -> n
    [] arg.unit = "t"    -> AsLong(n * 1024)
    [] arg.unit = "bad"  -> -1

\* Gigabytes, or -1 for an argument the parser refuses.
ParseFileSizeParam(arg) ==
  LET n == atol(arg.num) IN
  CASE arg.unit = "none" -> IF n <= 1024 THEN n ELSE -1
    [] arg.unit = "g"    -> n
    [] arg.unit = "t"    -> AsLong(n * 1024)
    [] arg.unit = "bad"  -> -1

\* main includes fsmk.h, which declares the parameter as int; the definition
\* in fsmk.c takes an int64_t.  The caller passes the low half, zero-extended.
PassedSize(size) == size % IntMod

\* Slip: MAX_SIZE taken for a number of terabytes.
OversizeInTB(passed) == passed > 1024 * MAX_SIZE

Oversize(passed) == passed > MAX_SIZE

=============================================================================
