--------------------------- MODULE MCSizeRequest ---------------------------
(***************************************************************************)
(* SizeRequest for TLC: arguments on both sides of every boundary of the   *)
(* parser, of the int parameter and of the 10 TB limit.                    *)
(***************************************************************************)
EXTENDS SizeRequest

Boundary == {0, 1, 10, 16, 1024, MAX_SIZE, IntMod, IntMod \div 1024,
             LongMax \div 1024, LongMax}

Near(S) == UNION {(n - 2)..(n + 2) : n \in S} \cap Nat

MCArgSample == [num : Near(Boundary), unit : Unit]
=============================================================================
