--------------------------- MODULE MCPreExpedite ---------------------------
(***************************************************************************)
(* PreExpedite for TLC: a few runs, with names of their own, all with one  *)
(* name, or three with one; they ask for one gigabyte each or for          *)
(* different sizes.                                                        *)
(***************************************************************************)
EXTENDS PreExpedite, TLC

CONSTANTS r1, r2, r3   \* the runs that MixedSizes and TwoNames tell apart

OwnNames == [r \in Run |-> r]
SameName == [r \in Run |-> "hss0"]
TwoNames == [r \in Run |-> IF r \in {r1, r2, r3} THEN "hss0" ELSE "hss1"]

Gigabytes(n) == [num |-> n, unit |-> "g"]
OneGB == [r \in Run |-> Gigabytes(1)]

\* Two sizes, one that reaches VFSBlockCreate as 0, one that it refuses, and
\* one that main refuses.
MixedSizes == [r \in Run |-> CASE r = r1 -> Gigabytes(1)
                               [] r = r2 -> Gigabytes(2)
                               [] r = r3 -> Gigabytes(IntMod)
                               [] OTHER -> Gigabytes(0)]
SizePerName == [r \in Run |-> Gigabytes(IF r \in {r1, r2, r3} THEN 1 ELSE 2)]

Symmetry == Permutations(Run) \cup Permutations(Dev)
SerialSymmetry == Permutations({r1, r2, r3}) \cup Permutations(Dev)

=============================================================================
