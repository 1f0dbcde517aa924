----------------------------- MODULE SizeRequest -----------------------------
(***************************************************************************)
(* One size argument on its way from main to the block file: main parses   *)
(* it and refuses what is not positive, VFSBlockCreate refuses what is     *)
(* over 10 TB, and ftruncate gives the new file its length.                *)
(***************************************************************************)
EXTENDS SizeParam

CONSTANT ArgSample   \* the arguments a user may type

ASSUME SampleAssumption == ArgSample \subseteq Arg

VARIABLES arg,        \* argv[2]
          vfs_size,   \* main's int64_t
          block,      \* gigabytes of the file created, -1 while there is none
          stage       \* "main", "create", "created", "refused"

vars == <<arg, vfs_size, block, stage>>

Init == /\ arg \in ArgSample
        /\ vfs_size = 0
        /\ block = -1
        /\ stage = "main"

ParseSize == /\ stage = "main"
             /\ vfs_size' = ParseFileSizeParam(arg)
             /\ stage' = IF vfs_size' <= 0 THEN "refused" ELSE "create"
             /\ UNCHANGED <<arg, block>>

CreateBlock == LET passed == PassedSize(vfs_size) IN
               /\ stage = "create"
               /\ stage' = IF Oversize(passed) THEN "refused" ELSE "created"
               /\ block' = IF Oversize(passed) THEN block ELSE passed
               /\ UNCHANGED <<arg, vfs_size>>

Decided == /\ stage \in {"created", "refused"}
           /\ UNCHANGED vars

Next == ParseSize \/ CreateBlock \/ Decided

Spec == Init /\ [][Next]_vars /\ WF_vars(ParseSize \/ CreateBlock)

-----------------------------------------------------------------------------
\* What the argument means: a number of gigabytes, one terabyte being 1024.
Requested(a) == IF a.unit = "t" THEN a.num * 1024 ELSE a.num

\* The limits the code intends: 1024 for a bare number (fsutils.c:40), 10 TB
\* for a number with a unit (fsmk.c:23).
Legal(a) == \/ a.unit = "none" /\ a.num \in 1..1024
            \/ a.unit \in {"g", "t"} /\ Requested(a) \in 1..MAX_SIZE

TypeOK == /\ arg \in Arg
          /\ vfs_size \in Int
          /\ block \in -1..MAX_SIZE
          /\ stage \in {"main", "create", "created", "refused"}

\* Below 2^32 GB the decision is right: exactly the legal arguments get a
\* block, and the block has the size the argument means, whatever the parser
\* (fsutils.c), the int parameter (fsmk.h) and the limit (fsmk.c) do to it.
RequestHonoured ==
  Requested(arg) < IntMod =>
    /\ stage = "created" => Legal(arg) /\ block = Requested(arg)
    /\ stage = "refused" => ~Legal(arg)

=============================================================================
