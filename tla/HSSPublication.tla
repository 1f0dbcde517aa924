--------------------------- MODULE HSSPublication ---------------------------
(***************************************************************************)
(* What Pre-Expedite promises the users of HSS-SHARE-DIR, whoever runs it, *)
(* at the same time or one after the other: blocks are published on top of *)
(* each other, a run publishes one block at most, what was published is    *)
(* neither withdrawn nor exchanged, and a run reports success only after   *)
(* it published.  It does not promise that a run that fails published      *)
(* nothing.                                                                *)
(***************************************************************************)
EXTENDS Naturals, Sequences

CONSTANT Run

VARIABLES served,    \* the published blocks, the visible one last
          outcome    \* run -> "running" or how it ended

vars == <<served, outcome>>

HasPublished(r) == \E i \in 1..Len(served) : served[i].by = r

Init == /\ served = <<>>
        /\ outcome = [r \in Run |-> "running"]

Publish(r) == /\ outcome[r] = "running"
              /\ ~HasPublished(r)
              /\ \E inode \in Run : served' = Append(served, [by |-> r, inode |-> inode])
              /\ UNCHANGED outcome

End(r, how) == /\ outcome[r] = "running"
               /\ outcome' = [outcome EXCEPT ![r] = how]
               /\ UNCHANGED served

Succeed(r) == HasPublished(r) /\ End(r, "ok")
Fail(r) == End(r, "fail")
Kill(r) == End(r, "killed")

Next == \E r \in Run : Publish(r) \/ Succeed(r) \/ Fail(r) \/ Kill(r)

Spec == Init /\ [][Next]_vars

=============================================================================
