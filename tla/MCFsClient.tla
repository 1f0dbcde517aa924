----------------------------- MODULE MCFsClient -----------------------------
(***************************************************************************)
(* FsClient for TLC: all handlers, or those that keep the quota.           *)
(***************************************************************************)
EXTENDS FsClient, TLC

AllHandlers == Search \cup Change
QuotaHandlers == {"QuotasCheck", "QuotasUpdate", "QuotaRevert"}

NoSize == {0}
\* The last size is cut to 1 by the conversion to an int.
Sizes == {0, 2, IntMod + 1}

CallerSymmetry == Permutations(Caller)

=============================================================================
