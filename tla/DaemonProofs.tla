---------------------------- MODULE DaemonProofs ----------------------------
(***************************************************************************)
(* Proofs about Daemon for every set of pids and every number of faults.   *)
(* The inductive invariant is TypeOK with six facts about the processes:   *)
(* what a pid without a process has, which roles go with which places in   *)
(* the code, who is whose parent, which sessions there are, who ignores    *)
(* SIGCHLD, and what a process in waitpid may find.  The second part, on   *)
(* the record of a daemon, adds two balances to it: every record, with the *)
(* server or with a process that is about to signal, is for a daemon that  *)
(* no other record is for, or a fault has paid for it.                     *)
(***************************************************************************)
EXTENDS Daemon, Counting

Placed == \A p \in Pid : ~Running(p) => run[p] = Idle
Unowned == \A p \in Pid : proc[p].state = "free" => proc[p].parent = Reaper

Roles == \A p \in Pid :
  /\ run[p].role = "child" <=> run[p].pc \in {"exec", "program"}
  /\ run[p].pc \in Init_DaemonPc => run[p].role = "plain"

\* A parent is about to exit, or waits in system_alternative for this very child.
Awaits(q, p) == \/ run[q].pc = "parent"
                \/ /\ run[q].pc = "waitpid" /\ run[q].child = p
                   /\ Running(p) => run[p].role \in {"child", "stray"}
Family == \A p \in Pid :
  proc[p].parent # p /\ (proc[p].parent # Reaper => Awaits(proc[p].parent, p))

Leaving(q) == ~Running(q) \/ run[q].pc = "parent"

Sessions == \A p \in Pid :
  /\ run[p].pc \in {"signal", "second"} => proc[p].session = p
  /\ run[p].pc = "detach" \/ run[p].role \in {"daemon", "registered"} =>
       proc[p].session \notin {p, Reaper} /\ Leaving(proc[p].session)

Ignoring == \A p \in Pid :
  run[p].pc \in {"second", "detach"} \/ run[p].role \in {"daemon", "registered"} => proc[p].ignore = TRUE

\* While a process is in waitpid, its child's status is the one the program ended
\* with; only where SIGCHLD is ignored is the child no longer there.
Waits == \A p \in Pid : run[p].pc = "waitpid" =>
  LET c == run[p].child
  IN /\ run[p].told = "none"
     /\ (proc[c].parent = p /\ proc[c].state # "free") \/ proc[p].ignore = TRUE
     /\ proc[c].parent = p /\ proc[c].state = "zombie" => run[p].ended = proc[c].status

TellsTruth == \A p \in Pid : run[p].told = "ok" => run[p].ended = "ok" \/ proc[p].ignore = TRUE

DInv == /\ TypeOK
        /\ Placed /\ Unowned /\ Roles /\ Family /\ Sessions /\ Ignoring /\ Waits /\ TellsTruth

-----------------------------------------------------------------------------
(* Types *)

LEMMA IdleIsLocal == Idle \in Local
BY DEF Idle, Local, Status

LEMMA UnusedIsProcess == Unused \in Process /\ Launched \in Process
BY DEF Unused, Launched, Process, Status

\* A record keeps its type when a process ends, and so does the absence of one.
LEMMA ForgetType ==
  ASSUME NEW p \in Pid
  PROVE  /\ \A r \in Record : Forget(r, p) \in Record
         /\ Forget(NoRecord, p) = NoRecord
BY PidAssumption DEF Forget, Record, NoRecord

\* A process exists from fork on: what Spawn makes is well typed.
LEMMA SpawnType ==
  ASSUME TypeOK, NEW p \in Pid, Running(p), NEW pc \in {"parent", "waitpid"},
         NEW childPc \in {"setsid", "detach", "caller", "exec"},
         NEW childRole \in {"plain", "stray", "daemon", "registered", "child"},
         Spawn(p, pc, childPc, childRole)
  PROVE  TypeOK'
<1>1. PICK c \in FreePids :
         /\ proc' = Forked(p, c)
         /\ run' = [run EXCEPT ![p] = [Idle EXCEPT !.pc = pc, !.role = run[p].role,
                                                   !.child = IF pc = "waitpid" THEN c ELSE @],
                               ![c] = [Idle EXCEPT !.pc = childPc, !.role = childRole]]
         /\ UNCHANGED <<records, wrong, faults>>
  BY DEF Spawn
<1>2. c \in Pid /\ c # p
  BY <1>1 DEF FreePids, Running
<1>3. proc' \in [Pid -> Process]
  BY <1>1, <1>2 DEF Forked, TypeOK, Process, Launched, Unused, Status
<1>4. run' \in [Pid -> Local]
  BY <1>1, <1>2 DEF TypeOK, Local, Idle, HelperPc, Init_DaemonPc, Status
<1>5. \A q \in Pid : /\ run'[q].pc # "none" <=> proc'[q].state = "running"
                     /\ run'[q].pc = "waitpid" => run'[q].child \in Pid
                     /\ run'[q].pc = "kill" => run'[q].target \in Record
  BY <1>1, <1>2 DEF Forked, TypeOK, Process, Launched, Unused, Local, Idle, Running
<1> QED
  BY <1>1, <1>3, <1>4, <1>5 DEF TypeOK, Running

\* What End does to the processes: the one that ends is reaped at once, or is a
\* zombie of a parent that does not ignore SIGCHLD, and its children lose it.
Buried(p) == /\ proc[p].parent = Reaper \/ proc[proc[p].parent].ignore = TRUE
             /\ proc'[p] = Unused
Zombied(p, status) ==
  /\ proc[p].parent # Reaper /\ proc[proc[p].parent].ignore # TRUE
  /\ proc'[p] = [proc[p] EXCEPT !.state = "zombie", !.pending = FALSE, !.status = status]
Orphaned(p, q) == IF proc[q].parent # p THEN proc'[q] = proc[q]
                  ELSE IF proc[q].state = "zombie" THEN proc'[q] = Unused
                  ELSE proc'[q] = [proc[q] EXCEPT !.parent = Reaper]

LEMMA EndsOne ==
  ASSUME TypeOK, NEW p \in Pid, NEW status, End(p, status)
  PROVE  Buried(p) \/ Zombied(p, status)
<1> DEFINE Reaped == proc[p].parent = Reaper \/ proc[proc[p].parent].ignore
           Corpse == [proc[p] EXCEPT !.state = "zombie", !.pending = FALSE, !.status = status]
<1>1. proc' = [q \in Pid |-> IF q = p THEN (IF Reaped THEN Unused ELSE Corpse)
                    ELSE IF proc[q].parent # p THEN proc[q]
                    ELSE IF proc[q].state = "zombie" THEN Unused
                    ELSE [proc[q] EXCEPT !.parent = Reaper]]
  BY Zenon DEF End, Exited
<1>2. Reaped <=> proc[p].parent = Reaper \/ proc[proc[p].parent].ignore = TRUE
  <2>1. CASE proc[p].parent = Reaper
    BY <2>1
  <2>2. CASE proc[p].parent # Reaper
    <3>1. proc[proc[p].parent].ignore \in BOOLEAN
      BY <2>2 DEF TypeOK, Process
    <3> QED
      BY <2>2, <3>1, Zenon
  <2> QED
    BY <2>1, <2>2
<1> HIDE DEF Reaped, Corpse
<1>3. proc'[p] = IF Reaped THEN Unused ELSE Corpse
  BY <1>1
<1>4. CASE Reaped
  BY <1>2, <1>3, <1>4 DEF Buried
<1>5. CASE ~Reaped
  BY <1>2, <1>3, <1>5 DEF Zombied, Corpse
<1> QED
  BY <1>4, <1>5

LEMMA EndsOthers ==
  ASSUME NEW p \in Pid, NEW status, End(p, status)
  PROVE  /\ proc' = [q \in Pid |-> proc'[q]]
         /\ \A q \in Pid : q # p => Orphaned(p, q)
<1> DEFINE Reaped == proc[p].parent = Reaper \/ proc[proc[p].parent].ignore
           Corpse == [proc[p] EXCEPT !.state = "zombie", !.pending = FALSE, !.status = status]
<1>1. proc' = [q \in Pid |-> IF q = p THEN (IF Reaped THEN Unused ELSE Corpse)
                    ELSE IF proc[q].parent # p THEN proc[q]
                    ELSE IF proc[q].state = "zombie" THEN Unused
                    ELSE [proc[q] EXCEPT !.parent = Reaper]]
  BY Zenon DEF End, Exited
<1> HIDE DEF Reaped, Corpse
<1> QED
  BY <1>1 DEF Orphaned

LEMMA EndType ==
  ASSUME TypeOK, NEW p \in Pid, Running(p), NEW status \in {"ok", "bad"}, End(p, status),
         faults' \in 0..MaxFaults
  PROVE  TypeOK'
<1>1. proc' \in [Pid -> Process]
  <2>1. proc'[p] \in Process
    <3>1. CASE Buried(p)
      BY <3>1, UnusedIsProcess DEF Buried
    <3>2. CASE Zombied(p, status)
      BY <3>2 DEF Zombied, TypeOK, Process, Status
    <3> QED
      BY <3>1, <3>2, EndsOne
  <2>2. ASSUME NEW q \in Pid, q # p PROVE proc'[q] \in Process
    <3>1. proc[q] \in Process /\ Orphaned(p, q)
      BY <2>2, EndsOthers DEF TypeOK
    <3>2. [proc[q] EXCEPT !.parent = Reaper] \in Process
      BY <3>1 DEF Process
    <3> QED
      BY <3>1, <3>2, UnusedIsProcess DEF Orphaned
  <2> QED
    BY <2>1, <2>2, EndsOthers
<1>2. run' \in [Pid -> Local]
  <2>1. ASSUME NEW q \in Pid, q # p
        PROVE  run'[q] \in Local
    <3>1. run[q] \in Local /\ Forget(run[q].target, p) \in Record \cup {NoRecord}
      BY ForgetType DEF TypeOK, Local
    <3>2. PICK ended \in Status :
            run'[q] = [run[q] EXCEPT !.target = Forget(@, p), !.ended = ended]
      <4>1. CASE run[q].pc = "waitpid" /\ run[q].child = p
        BY <2>1, <4>1 DEF End, Status
      <4>2. CASE ~(run[q].pc = "waitpid" /\ run[q].child = p)
        BY <2>1, <3>1, <4>2 DEF End, Local
      <4> QED
        BY <4>1, <4>2
    <3> QED
      BY <3>1, <3>2 DEF Local
  <2>2. run'[p] = Idle /\ run' = [q \in Pid |-> run'[q]]
    BY DEF End
  <2> QED
    BY <2>1, <2>2, IdleIsLocal
<1>3. records' \subseteq Record
  BY ForgetType DEF End, TypeOK
<1>4. \A q \in Pid : /\ run'[q].pc # "none" <=> proc'[q].state = "running"
                     /\ run'[q].pc = "waitpid" => run'[q].child \in Pid
                     /\ run'[q].pc = "kill" => run'[q].target \in Record
  <2> SUFFICES ASSUME NEW q \in Pid
               PROVE  /\ run'[q].pc # "none" <=> proc'[q].state = "running"
                      /\ run'[q].pc = "waitpid" => run'[q].child \in Pid
                      /\ run'[q].pc = "kill" => run'[q].target \in Record
    OBVIOUS
  <2>1. CASE q = p
    <3>1. run'[p] = Idle
      BY DEF End
    <3>2. proc'[p].state # "running"
      <4>1. CASE Buried(p)
        BY <4>1 DEF Buried, Unused
      <4>2. CASE Zombied(p, status)
        BY <4>2 DEF Zombied, TypeOK, Process
      <4> QED
        BY <4>1, <4>2, EndsOne
    <3> QED
      BY <2>1, <3>1, <3>2 DEF Idle
  <2>2. CASE q # p
    <3>1. run'[q] = [run[q] EXCEPT !.target = Forget(@, p),
                                   !.ended = IF run[q].pc = "waitpid" /\ run[q].child = p
                                             THEN status ELSE @]
      BY <2>2 DEF End
    <3>2. run'[q].pc = run[q].pc /\ run'[q].child = run[q].child
          /\ run'[q].target = Forget(run[q].target, p)
      BY <3>1 DEF TypeOK, Local
    <3>3. proc'[q].state = "running" <=> proc[q].state = "running"
      <4>1. proc[q] \in Process /\ Orphaned(p, q)
        BY <2>2, EndsOthers DEF TypeOK
      <4> QED
        BY <4>1 DEF Orphaned, Unused, Process
    <3> QED
      BY <3>2, <3>3, ForgetType DEF TypeOK, Running
  <2> QED
    BY <2>1, <2>2
<1> QED
  BY <1>1, <1>2, <1>3, <1>4 DEF TypeOK, Running, End

-----------------------------------------------------------------------------
(* fork *)

\* The four calls of fork, with what the parent and the child do next.
Forks(p, pc, childPc, childRole) ==
  \/ /\ At(p, "caller") /\ Plain(p)
     /\ pc = "parent" /\ childPc = "setsid" /\ childRole = "plain"
  \/ /\ At(p, "second")
     /\ pc = "parent" /\ childPc = "detach" /\ childRole = "plain"
  \/ /\ At(p, "caller") /\ Plain(p)
     /\ pc = "parent" /\ childPc = "caller" /\ childRole = run[p].role
  \/ /\ At(p, "caller")
     /\ pc = "waitpid" /\ childPc = "exec" /\ childRole = "child"

LEMMA ForkKeeps ==
  ASSUME DInv, NEW p \in Pid, NEW pc, NEW childPc, NEW childRole,
         Forks(p, pc, childPc, childRole), Spawn(p, pc, childPc, childRole)
  PROVE  DInv'
<1>1. Running(p) /\ run[p].pc \in {"caller", "second"} /\ run[p] \in Local
  BY DEF DInv, TypeOK, Forks, At
<1>2. /\ pc \in {"parent", "waitpid"} /\ childPc \in {"setsid", "detach", "caller", "exec"}
      /\ childRole \in {"plain", "stray", "child"}
      /\ childRole = "child" <=> childPc = "exec"
      /\ childRole = "child" <=> pc = "waitpid"
      /\ childPc \in {"setsid", "detach"} => childRole = "plain"
      /\ childPc = "detach" => run[p].pc = "second"
      /\ run[p].role # "child"
  BY <1>1 DEF Forks, At, Plain, DInv, Roles, Init_DaemonPc
<1>3. PICK c \in FreePids :
         /\ proc' = Forked(p, c)
         /\ run' = [run EXCEPT ![p] = [Idle EXCEPT !.pc = pc, !.role = run[p].role,
                                                   !.child = IF pc = "waitpid" THEN c ELSE @],
                               ![c] = [Idle EXCEPT !.pc = childPc, !.role = childRole]]
  BY DEF Spawn
<1>4. c \in Pid /\ c # p /\ ~Running(c) /\ proc[c].state = "free"
      /\ (\A q \in Pid : proc[q].session # c) /\ p # Reaper /\ c # Reaper
  BY <1>1, <1>3, PidAssumption DEF FreePids, Running
<1>5. /\ proc'[c].parent = p /\ proc'[c].session = proc[p].session
      /\ proc'[c].ignore = proc[p].ignore /\ proc'[c].state = "running"
      /\ \A q \in Pid : q # c => proc'[q] = proc[q]
  BY <1>3, <1>4 DEF Forked, DInv, TypeOK, Process, Launched, Unused
<1>6. /\ run'[p].pc = pc /\ run'[p].role = run[p].role /\ run'[p].told = "none"
      /\ pc = "waitpid" => run'[p].child = c
      /\ run'[c].pc = childPc /\ run'[c].role = childRole /\ run'[c].told = "none"
      /\ \A q \in Pid : q # c /\ q # p => run'[q] = run[q]
  BY <1>3, <1>4 DEF DInv, TypeOK, Idle
<1>7. run[c] = Idle /\ run[c].pc = "none"
  BY <1>4 DEF DInv, Placed, Idle
<1>8. \A q \in Pid : proc[q].parent # p /\ proc[q].parent # c
  BY <1>1, <1>4, <1>7 DEF DInv, Family, Awaits
<1>9. TypeOK'
  BY <1>1, <1>2, SpawnType DEF DInv
<1>10. Placed'
  BY <1>1, <1>4, <1>5, <1>6 DEF DInv, Placed, Running
<1>17. Unowned'
  BY <1>5 DEF DInv, Unowned
<1>11. Roles'
  BY <1>1, <1>2, <1>4, <1>6 DEF DInv, Roles, Init_DaemonPc
<1>12. Family'
  <2> SUFFICES ASSUME NEW q \in Pid
               PROVE  /\ proc'[q].parent # q
                      /\ proc'[q].parent # Reaper => Awaits(proc[q].parent, q)'
    BY DEF Family
  <2>1. CASE q = c
    BY <1>2, <1>4, <1>5, <1>6, <2>1 DEF Awaits
  <2>2. CASE q # c
    <3>1. proc'[q] = proc[q] /\ proc[q].parent \in Pid \cup {Reaper}
          /\ proc[q].parent # p /\ proc[q].parent # c
      BY <1>5, <1>8, <2>2 DEF DInv, TypeOK, Process
    <3>2. /\ proc[q].parent # Reaper => run'[proc[q].parent] = run[proc[q].parent]
          /\ run'[q].role = run[q].role
      BY <1>6, <2>2, <3>1
    <3> QED
      BY <3>1, <3>2 DEF DInv, Family, Awaits, Running
  <2> QED
    BY <2>1, <2>2
<1>13. Sessions'
  <2> SUFFICES ASSUME NEW q \in Pid
               PROVE  /\ run'[q].pc \in {"signal", "second"} => proc'[q].session = q
                      /\ run'[q].pc = "detach" \/ run'[q].role \in {"daemon", "registered"} =>
                           /\ proc'[q].session \notin {q, Reaper}
                           /\ \/ proc'[proc'[q].session].state # "running"
                              \/ run'[proc'[q].session].pc = "parent"
    BY DEF Sessions, Leaving, Running
  <2>1. CASE q = c
    BY <1>1, <1>2, <1>4, <1>5, <1>6, <2>1 DEF DInv, Sessions
  <2>2. CASE q # c
    <3>1. /\ proc'[q] = proc[q] /\ run'[q].role = run[q].role /\ proc[q].session # c
          /\ proc[q].session \in Pid \cup {Reaper}
          /\ run'[q].pc = run[q].pc \/ run'[q].pc \in {"parent", "waitpid"}
      BY <1>2, <1>4, <1>5, <1>6, <2>2 DEF DInv, TypeOK, Process
    <3>2. ASSUME proc[q].session # Reaper, Leaving(proc[q].session)
          PROVE  proc'[proc[q].session].state # "running" \/ run'[proc[q].session].pc = "parent"
      <4>1. proc[q].session \in Pid /\ proc[q].session # c
        BY <3>1, <3>2
      <4>2. proc[q].session # p
        BY <1>1, <3>2 DEF Leaving
      <4> QED
        BY <1>5, <1>6, <3>2, <4>1, <4>2 DEF Leaving, Running
    <3>3. /\ run[q].pc \in {"signal", "second"} => proc[q].session = q
          /\ run[q].pc = "detach" \/ run[q].role \in {"daemon", "registered"} =>
               proc[q].session \notin {q, Reaper} /\ Leaving(proc[q].session)
      BY DEF DInv, Sessions
    <3> QED
      BY <3>1, <3>2, <3>3
  <2> QED
    BY <2>1, <2>2
<1>14. Ignoring'
  BY <1>2, <1>4, <1>5, <1>6 DEF DInv, Ignoring
<1>15. Waits'
  <2> SUFFICES ASSUME NEW q \in Pid, run'[q].pc = "waitpid"
               PROVE  LET d == run'[q].child
                      IN /\ run'[q].told = "none"
                         /\ (proc'[d].parent = q /\ proc'[d].state # "free") \/ proc'[q].ignore = TRUE
                         /\ proc'[d].parent = q /\ proc'[d].state = "zombie" => run'[q].ended = proc'[d].status
    BY DEF Waits
  <2>1. CASE q = p
    BY <1>4, <1>5, <1>6, <2>1
  <2>2. CASE q # p
    <3>1. q # c /\ run'[q] = run[q] /\ proc'[q] = proc[q] /\ run[q].child \in Pid
      BY <1>2, <1>5, <1>6, <2>2 DEF DInv, TypeOK
    <3>2. CASE run[q].child = c
      BY <1>4, <1>5, <2>2, <3>1, <3>2 DEF DInv, Waits
    <3>3. CASE run[q].child # c
      BY <1>5, <3>1, <3>3 DEF DInv, Waits
    <3> QED
      BY <3>2, <3>3
  <2> QED
    BY <2>1, <2>2
<1>16. TellsTruth'
  BY <1>4, <1>5, <1>6 DEF DInv, TellsTruth
<1> QED
  BY <1>9, <1>10, <1>11, <1>12, <1>13, <1>14, <1>15, <1>16, <1>17 DEF DInv

-----------------------------------------------------------------------------
(* The end of a process *)

LEMMA EndKeeps ==
  ASSUME DInv, NEW p \in Pid, Running(p), NEW status \in {"ok", "bad"}, End(p, status),
         faults' \in 0..MaxFaults
  PROVE  DInv'
<1>1. TypeOK'
  BY EndType DEF DInv
<1>2. Buried(p) \/ Zombied(p, status)
  BY EndsOne DEF DInv
<1>3. \A q \in Pid : q # p => Orphaned(p, q)
  BY EndsOthers
<1>4. /\ run'[p] = Idle
      /\ \A q \in Pid : q # p =>
           /\ run'[q].pc = run[q].pc /\ run'[q].role = run[q].role
           /\ run'[q].child = run[q].child /\ run'[q].told = run[q].told
           /\ run'[q].ended = IF run[q].pc = "waitpid" /\ run[q].child = p THEN status ELSE run[q].ended
  BY DEF End, DInv, TypeOK, Local
<1>5. Idle.pc = "none" /\ Idle.role = "plain" /\ Idle.told = "none"
  BY DEF Idle
<1>6. \A q \in Pid : q # p =>
        /\ proc'[q].parent \in {proc[q].parent, Reaper} /\ proc'[q].parent # p
        /\ proc[q].state = "running" =>
             /\ proc'[q].state = "running" /\ proc'[q].session = proc[q].session
             /\ proc'[q].ignore = proc[q].ignore
        /\ proc[q].state # "running" => proc'[q].state # "running"
        /\ proc[q].parent # p => proc'[q] = proc[q]
  <2> SUFFICES ASSUME NEW q \in Pid, q # p
               PROVE  /\ proc'[q].parent \in {proc[q].parent, Reaper} /\ proc'[q].parent # p
                      /\ proc[q].state = "running" =>
                           /\ proc'[q].state = "running" /\ proc'[q].session = proc[q].session
                           /\ proc'[q].ignore = proc[q].ignore
                      /\ proc[q].state # "running" => proc'[q].state # "running"
                      /\ proc[q].parent # p => proc'[q] = proc[q]
    OBVIOUS
  <2>1. Orphaned(p, q) /\ proc[q] \in Process /\ p # Reaper
    BY <1>3, PidAssumption DEF DInv, TypeOK
  <2> QED
    BY <2>1 DEF Orphaned, Unused, Process
<1>7. proc'[p].state # "running" /\ proc'[p].parent \in {proc[p].parent, Reaper}
  <2>1. CASE Buried(p)
    BY <2>1 DEF Buried, Unused
  <2>2. CASE Zombied(p, status)
    BY <2>2 DEF Zombied, DInv, TypeOK, Process
  <2> QED
    BY <1>2, <2>1, <2>2
<1>8. \A q \in Pid : proc[q].parent # Reaper => proc[q].parent \in Pid /\ Awaits(proc[q].parent, q)
  BY DEF DInv, TypeOK, Process, Family
<1>9. Placed'
  <2> SUFFICES ASSUME NEW q \in Pid, q # p, run[q] = Idle
               PROVE  run'[q] = Idle
    BY <1>4, <1>6 DEF DInv, Placed, Running
  <2>1. run'[q] = [Idle EXCEPT !.target = Forget(@, p), !.ended = @]
    BY <1>5 DEF End
  <2>2. Forget(Idle.target, p) = Idle.target
    BY ForgetType DEF Idle
  <2> QED
    BY <2>1, <2>2 DEF Idle
<1>16. Unowned'
  <2>1. proc'[p].state = "free" => proc'[p].parent = Reaper
    <3>1. CASE Buried(p)
      BY <3>1 DEF Buried, Unused
    <3>2. CASE Zombied(p, status)
      BY <3>2 DEF Zombied, DInv, TypeOK, Process
    <3> QED
      BY <1>2, <3>1, <3>2
  <2>2. ASSUME NEW q \in Pid, q # p
        PROVE  proc'[q].state = "free" => proc'[q].parent = Reaper
    <3>1. proc[q] \in Process /\ Orphaned(p, q) /\ (proc[q].state = "free" => proc[q].parent = Reaper)
      BY <1>3, <2>2 DEF DInv, TypeOK, Unowned
    <3> QED
      BY <3>1 DEF Orphaned, Unused, Process
  <2> QED
    BY <2>1, <2>2 DEF Unowned
<1>10. Roles'
  BY <1>4, <1>5 DEF DInv, Roles, Init_DaemonPc
<1>11. Family'
  <2> SUFFICES ASSUME NEW q \in Pid
               PROVE  /\ proc'[q].parent # q
                      /\ proc'[q].parent # Reaper => Awaits(proc[q].parent, q)'
    BY DEF Family
  <2>1. proc'[q].parent \in {proc[q].parent, Reaper} /\ proc[q].parent # q /\ Reaper # q
    BY <1>6, <1>7, PidAssumption DEF DInv, Family
  <2>2. ASSUME proc'[q].parent # Reaper
        PROVE  Awaits(proc[q].parent, q)'
    <3> DEFINE x == proc[q].parent
    <3>1. x \in Pid /\ x # p /\ Awaits(x, q) /\ proc'[q].parent = x
      BY <1>6, <1>8, <2>1, <2>2
    <3>2. run'[x].pc = run[x].pc /\ run'[x].child = run[x].child
      BY <1>4, <3>1
    <3>3. Running(q)' => Running(q) /\ run'[q].role = run[q].role
      BY <1>4, <1>6, <1>7 DEF Running
    <3> QED
      BY <3>1, <3>2, <3>3 DEF Awaits
  <2> QED
    BY <2>1, <2>2
<1>12. Sessions'
  <2> SUFFICES ASSUME NEW q \in Pid,
                      run'[q].pc \in {"signal", "second", "detach"} \/ run'[q].role \in {"daemon", "registered"}
               PROVE  /\ run'[q].pc \in {"signal", "second"} => proc'[q].session = q
                      /\ run'[q].pc = "detach" \/ run'[q].role \in {"daemon", "registered"} =>
                           proc'[q].session \notin {q, Reaper} /\ Leaving(proc[q].session)'
    BY DEF Sessions
  <2>1. q # p /\ run'[q].pc = run[q].pc /\ run'[q].role = run[q].role
    BY <1>4, <1>5
  <2>2. proc[q].state = "running"
    BY <2>1, <1>5 DEF DInv, Placed, Running
  <2>3. proc'[q].session = proc[q].session /\ proc[q].session \in Pid \cup {Reaper}
    BY <1>6, <2>1, <2>2 DEF DInv, TypeOK, Process
  <2>4. ASSUME proc[q].session # Reaper, Leaving(proc[q].session)
        PROVE  Leaving(proc[q].session)'
    BY <1>4, <1>6, <1>7, <2>3, <2>4 DEF Leaving, Running
  <2> QED
    BY <2>1, <2>3, <2>4 DEF DInv, Sessions
<1>13. Ignoring'
  <2> SUFFICES ASSUME NEW q \in Pid,
                      run'[q].pc \in {"second", "detach"} \/ run'[q].role \in {"daemon", "registered"}
               PROVE  proc'[q].ignore = TRUE
    BY DEF Ignoring
  <2>1. q # p /\ run'[q].pc = run[q].pc /\ run'[q].role = run[q].role
    BY <1>4, <1>5
  <2>2. proc[q].state = "running"
    BY <2>1, <1>5 DEF DInv, Placed, Running
  <2> QED
    BY <1>6, <2>1, <2>2 DEF DInv, Ignoring
<1>14. Waits'
  <2> SUFFICES ASSUME NEW q \in Pid, run'[q].pc = "waitpid"
               PROVE  LET d == run'[q].child
                      IN /\ run'[q].told = "none"
                         /\ (proc'[d].parent = q /\ proc'[d].state # "free") \/ proc'[q].ignore = TRUE
                         /\ proc'[d].parent = q /\ proc'[d].state = "zombie" => run'[q].ended = proc'[d].status
    BY DEF Waits
  <2> DEFINE d == run[q].child
  <2>1. q # p /\ run[q].pc = "waitpid" /\ run'[q].child = d /\ run'[q].told = "none"
    BY <1>4, <1>5 DEF DInv, Waits
  <2>2. proc[q].state = "running" /\ proc'[q].ignore = proc[q].ignore /\ d \in Pid /\ q # Reaper
    BY <1>5, <1>6, <2>1, PidAssumption DEF DInv, Placed, Running, TypeOK
  <2>3. /\ (proc[d].parent = q /\ proc[d].state # "free") \/ proc[q].ignore = TRUE
        /\ proc[d].parent = q /\ proc[d].state = "zombie" => run[q].ended = proc[d].status
    BY <2>1 DEF DInv, Waits
  <2>4. CASE d # p
    <3>1. run'[q].ended = run[q].ended
      BY <1>4, <2>1, <2>4
    <3>2. proc[d].parent = q => proc'[d] = proc[d]
      BY <1>6, <2>1, <2>2, <2>4
    <3>3. proc'[d].parent = q => proc[d].parent = q
      BY <1>6, <2>2, <2>4
    <3> QED
      BY <2>1, <2>2, <2>3, <3>1, <3>2, <3>3
  <2>5. CASE d = p
    <3>1. run'[q].ended = status
      BY <1>4, <2>1, <2>5
    <3>2. CASE Buried(p)
      BY <2>1, <2>2, <2>3, <2>5, <3>2 DEF Buried, Unused
    <3>3. CASE Zombied(p, status)
      <4>1. proc'[p].parent = proc[p].parent /\ proc'[p].state = "zombie" /\ proc'[p].status = status
        BY <3>3 DEF Zombied, DInv, TypeOK, Process
      <4> QED
        BY <2>1, <2>2, <2>3, <2>5, <3>1, <4>1
    <3> QED
      BY <1>2, <3>2, <3>3
  <2> QED
    BY <2>4, <2>5
<1>15. TellsTruth'
  <2> SUFFICES ASSUME NEW q \in Pid, run'[q].told = "ok"
               PROVE  run'[q].ended = "ok" \/ proc'[q].ignore = TRUE
    BY DEF TellsTruth
  <2>1. q # p /\ run[q].told = "ok" /\ run[q].pc # "waitpid"
    BY <1>4, <1>5 DEF DInv, Waits
  <2>2. proc[q].state = "running"
    BY <2>1, <1>5 DEF DInv, Placed, Running
  <2> QED
    BY <1>4, <1>6, <2>1, <2>2 DEF DInv, TellsTruth
<1> QED
  BY <1>1, <1>9, <1>10, <1>11, <1>12, <1>13, <1>14, <1>15, <1>16 DEF DInv

-----------------------------------------------------------------------------
(* The calls that neither make nor end a process *)

\* What such a step of p may do to p and to the kernel's view of all processes.
LEMMA StepKeeps ==
  ASSUME DInv, TypeOK', NEW p \in Pid,
         run[p].pc \notin {"parent", "waitpid", "none"},
         run'[p].pc \notin {"parent", "waitpid", "none"},
         \A q \in Pid : /\ proc'[q].parent = proc[q].parent /\ proc'[q].state = proc[q].state
                        /\ proc'[q].status = proc[q].status
                        /\ proc'[q].ignore = proc[q].ignore \/ proc'[q].ignore = TRUE,
         \A q \in Pid : q # p => proc'[q].session = proc[q].session /\ run'[q] = run[q],
         run'[p].role = "child" <=> run'[p].pc \in {"exec", "program"},
         run'[p].pc \in Init_DaemonPc => run'[p].role = "plain",
         Awaits(proc[p].parent, p) /\ proc[p].parent # Reaper =>
           run[proc[p].parent].pc = "parent" \/ run'[p].role \in {"child", "stray"},
         run'[p].pc \in {"signal", "second"} => proc'[p].session = p,
         run'[p].pc = "detach" \/ run'[p].role \in {"daemon", "registered"} =>
           /\ run[p].pc = "detach" \/ run[p].role \in {"daemon", "registered"}
           /\ proc'[p].session = proc[p].session,
         run'[p].pc \in {"second", "detach"} \/ run'[p].role \in {"daemon", "registered"} =>
           proc'[p].ignore = TRUE,
         run'[p].told = "ok" => run[p].told = "ok" /\ run'[p].ended = run[p].ended
  PROVE  DInv'
<1>1. Running(p) /\ p # Reaper
  BY PidAssumption DEF DInv, Placed, Idle
<1>2. Placed'
  BY <1>1 DEF DInv, Placed, Running
<1>9. Unowned'
  BY DEF DInv, Unowned
<1>3. Roles'
  BY DEF DInv, Roles, Init_DaemonPc
<1>4. Family'
  <2> SUFFICES ASSUME NEW q \in Pid
               PROVE  /\ proc'[q].parent # q
                      /\ proc'[q].parent # Reaper => Awaits(proc[q].parent, q)'
    BY DEF Family
  <2> DEFINE x == proc[q].parent
  <2>1. proc'[q].parent = x /\ x \in Pid \cup {Reaper} /\ x # q
        /\ (x # Reaper => Awaits(x, q))
    BY DEF DInv, TypeOK, Process, Family
  <2>2. x # Reaper => x # p /\ run'[x] = run[x]
    BY <2>1 DEF Awaits
  <2>3. Running(q)' => Running(q)
    BY DEF Running
  <2>4. CASE q = p
    BY <2>1, <2>2, <2>3, <2>4 DEF Awaits
  <2>5. CASE q # p
    BY <2>1, <2>2, <2>3, <2>5 DEF Awaits
  <2> QED
    BY <2>4, <2>5
<1>5. Sessions'
  <2> SUFFICES ASSUME NEW q \in Pid
               PROVE  /\ run'[q].pc \in {"signal", "second"} => proc'[q].session = q
                      /\ run'[q].pc = "detach" \/ run'[q].role \in {"daemon", "registered"} =>
                           proc'[q].session \notin {q, Reaper} /\ Leaving(proc[q].session)'
    BY DEF Sessions
  <2>1. /\ run[q].pc \in {"signal", "second"} => proc[q].session = q
        /\ run[q].pc = "detach" \/ run[q].role \in {"daemon", "registered"} =>
             proc[q].session \notin {q, Reaper} /\ Leaving(proc[q].session)
        /\ proc[q].session \in Pid \cup {Reaper}
    BY DEF DInv, Sessions, TypeOK, Process
  <2>2. ASSUME proc[q].session # Reaper, Leaving(proc[q].session), proc'[q].session = proc[q].session
        PROVE  Leaving(proc[q].session)'
    <3>1. proc[q].session # p /\ proc[q].session \in Pid
      BY <1>1, <2>1, <2>2 DEF Leaving
    <3> QED
      BY <2>2, <3>1 DEF Leaving, Running
  <2>3. CASE q = p
    BY <2>1, <2>2, <2>3
  <2>4. CASE q # p
    BY <2>1, <2>2, <2>4
  <2> QED
    BY <2>3, <2>4
<1>6. Ignoring'
  BY DEF DInv, Ignoring
<1>7. Waits'
  <2> SUFFICES ASSUME NEW q \in Pid, run'[q].pc = "waitpid"
               PROVE  LET d == run'[q].child
                      IN /\ run'[q].told = "none"
                         /\ (proc'[d].parent = q /\ proc'[d].state # "free") \/ proc'[q].ignore = TRUE
                         /\ proc'[d].parent = q /\ proc'[d].state = "zombie" => run'[q].ended = proc'[d].status
    BY DEF Waits
  <2>1. q # p /\ run'[q] = run[q] /\ run[q].child \in Pid
    BY DEF DInv, TypeOK
  <2> QED
    BY <2>1 DEF DInv, Waits
<1>8. TellsTruth'
  BY DEF DInv, TellsTruth
<1> QED
  BY <1>2, <1>3, <1>4, <1>5, <1>6, <1>7, <1>8, <1>9 DEF DInv

LEMMA FailsType ==
  ASSUME TypeOK, NEW condition, Fails(condition)
  PROVE  faults' \in 0..MaxFaults
BY FaultAssumption DEF Fails, Fault, TypeOK

LEMMA FaultType ==
  ASSUME TypeOK, Fault
  PROVE  faults' \in 0..MaxFaults
BY FaultAssumption DEF Fault, TypeOK

LEMMA SetsidKeeps ==
  ASSUME DInv, NEW p \in Pid, Setsid(p)
  PROVE  DInv'
<1>1. run[p].pc = "setsid" /\ run[p].role = "plain" /\ Running(p)
  BY DEF Setsid, At, DInv, TypeOK, Roles, Init_DaemonPc
<1>2. CASE /\ proc' = [proc EXCEPT ![p].session = p] /\ Goto(p, "signal")
           /\ UNCHANGED <<records, wrong, faults>>
  <2>1. \A q \in Pid : /\ proc'[q].parent = proc[q].parent /\ proc'[q].state = proc[q].state
                       /\ proc'[q].status = proc[q].status /\ proc'[q].ignore = proc[q].ignore
                       /\ q # p => proc'[q].session = proc[q].session /\ run'[q] = run[q]
    BY <1>2 DEF DInv, TypeOK, Process, Goto
  <2>2. /\ run'[p].pc = "signal" /\ run'[p].role = "plain" /\ run'[p].told = run[p].told
        /\ run'[p].ended = run[p].ended /\ proc'[p].session = p
    BY <1>1, <1>2 DEF DInv, TypeOK, Process, Local, Goto
  <2>3. TypeOK'
    <3>1. proc' \in [Pid -> Process] /\ run' \in [Pid -> Local]
      BY <1>2 DEF DInv, TypeOK, Process, Local, HelperPc, Init_DaemonPc, Goto
    <3> QED
      BY <1>1, <1>2, <2>1, <2>2, <3>1 DEF DInv, TypeOK, Running
  <2> QED
    BY <1>1, <2>1, <2>2, <2>3, StepKeeps DEF Awaits
<1>3. CASE Fault /\ End(p, "bad")
  BY <1>1, <1>3, FaultType, EndKeeps DEF DInv
<1> QED
  BY <1>2, <1>3 DEF Setsid

LEMMA SignalKeeps ==
  ASSUME DInv, NEW p \in Pid, Signal(p)
  PROVE  DInv'
<1>1. /\ run[p].pc = "signal" /\ run[p].role = "plain" /\ Running(p) /\ proc[p].session = p
      /\ proc' = [proc EXCEPT ![p].ignore = TRUE] /\ Goto(p, "second")
      /\ UNCHANGED <<records, wrong, faults>>
  BY DEF Signal, At, DInv, TypeOK, Roles, Sessions, Init_DaemonPc
<1>2. \A q \in Pid : /\ proc'[q].parent = proc[q].parent /\ proc'[q].state = proc[q].state
                     /\ proc'[q].status = proc[q].status /\ proc'[q].session = proc[q].session
                     /\ proc'[q].ignore = proc[q].ignore \/ proc'[q].ignore = TRUE
                     /\ q # p => run'[q] = run[q]
  BY <1>1 DEF DInv, TypeOK, Process, Goto
<1>3. /\ run'[p].pc = "second" /\ run'[p].role = "plain" /\ run'[p].told = run[p].told
      /\ run'[p].ended = run[p].ended /\ proc'[p].ignore = TRUE
  BY <1>1 DEF DInv, TypeOK, Process, Local, Goto
<1>4. TypeOK'
  <2>1. proc' \in [Pid -> Process]
    BY <1>1 DEF DInv, TypeOK, Process
  <2>2. run' \in [Pid -> Local]
    BY <1>1 DEF DInv, TypeOK, Local, HelperPc, Init_DaemonPc, Goto
  <2>3. \A q \in Pid : /\ run'[q].pc # "none" <=> proc'[q].state = "running"
                       /\ run'[q].pc = "waitpid" => run'[q].child \in Pid
                       /\ run'[q].pc = "kill" => run'[q].target \in Record
    <3> TAKE q \in Pid
    <3>1. CASE q = p
      BY <1>1, <1>2, <1>3, <3>1 DEF Running
    <3>2. CASE q # p
      BY <1>2, <3>2 DEF DInv, TypeOK, Running
    <3> QED
      BY <3>1, <3>2
  <2> QED
    BY <1>1, <2>1, <2>2, <2>3 DEF DInv, TypeOK, Running
<1> QED
  BY <1>1, <1>2, <1>3, <1>4, StepKeeps DEF Awaits

\* The next three leave the kernel's state alone.
LEMMA RunType ==
  ASSUME TypeOK, NEW p \in Pid, run[p].pc # "none", NEW local \in Local,
         run' = [run EXCEPT ![p] = local], proc' = proc, records' \subseteq Record,
         wrong' \in Nat, faults' \in 0..MaxFaults,
         local.pc # "none", local.pc # "waitpid", local.pc = "kill" => local.target \in Record
  PROVE  TypeOK'
<1>1. run' \in [Pid -> Local] /\ run'[p] = local /\ \A q \in Pid : q # p => run'[q] = run[q]
  BY DEF TypeOK
<1> QED
  BY <1>1 DEF TypeOK, Running

LEMMA DetachKeeps ==
  ASSUME DInv, NEW p \in Pid, Detach(p)
  PROVE  DInv'
<1> DEFINE local == [run[p] EXCEPT !.pc = "caller", !.role = "daemon"]
<1>1. /\ run[p].pc = "detach" /\ run[p].role = "plain" /\ run[p] \in Local /\ Running(p)
      /\ run' = [run EXCEPT ![p] = local] /\ UNCHANGED <<proc, records, wrong, faults>>
  BY DEF Detach, At, DInv, TypeOK, Roles, Init_DaemonPc
<1>2. /\ local \in Local /\ local.pc = "caller" /\ local.role = "daemon"
      /\ local.told = run[p].told /\ local.ended = run[p].ended
  BY <1>1 DEF Local
<1> HIDE DEF local
<1>3. TypeOK'
  BY <1>1, <1>2, RunType DEF DInv, TypeOK
<1>4. run'[p] = local /\ \A q \in Pid : q # p => run'[q] = run[q]
  BY <1>1 DEF DInv, TypeOK
<1>5. proc[p].ignore = TRUE
  BY <1>1 DEF DInv, Ignoring
<1> QED
  BY <1>1, <1>2, <1>3, <1>4, <1>5, StepKeeps DEF Awaits, Init_DaemonPc

LEMMA ExecKeeps ==
  ASSUME DInv, NEW p \in Pid, Exec(p)
  PROVE  DInv'
<1>1. run[p].pc = "exec" /\ run[p].role = "child" /\ run[p] \in Local /\ Running(p)
  BY DEF Exec, At, DInv, TypeOK, Roles
<1>2. UNCHANGED <<proc, records, wrong>> /\ faults' \in 0..MaxFaults
  BY FaultType DEF Exec, DInv, TypeOK
<1>3. PICK local \in Local :
        /\ run' = [run EXCEPT ![p] = local]
        /\ \/ local.pc = "program" /\ local.role = "child"
           \/ local.pc = "caller" /\ local.role = "stray"
        /\ local.told = run[p].told /\ local.ended = run[p].ended
  <2>1. CASE Goto(p, "program")
    <3>1. /\ [run[p] EXCEPT !.pc = "program"] \in Local
          /\ run' = [run EXCEPT ![p] = [run[p] EXCEPT !.pc = "program"]]
      BY <1>1, <2>1 DEF Goto, Local
    <3> QED
      BY <1>1, <3>1 DEF Local
  <2>2. CASE run' = [run EXCEPT ![p] = [@ EXCEPT !.pc = "caller", !.role = "stray"]]
    <3>1. [run[p] EXCEPT !.pc = "caller", !.role = "stray"] \in Local
      BY <1>1 DEF Local
    <3> QED
      BY <1>1, <2>2, <3>1 DEF Local
  <2> QED
    BY <2>1, <2>2 DEF Exec
<1>4. TypeOK'
  BY <1>1, <1>2, <1>3, RunType DEF DInv, TypeOK
<1>5. run'[p] = local /\ \A q \in Pid : q # p => run'[q] = run[q]
  BY <1>3 DEF DInv, TypeOK
<1> QED
  BY <1>1, <1>2, <1>3, <1>4, <1>5, StepKeeps DEF Init_DaemonPc

LEMMA RegisterKeeps ==
  ASSUME DInv, NEW p \in Pid, Register(p)
  PROVE  DInv'
<1>1. /\ run[p].pc = "caller" /\ run[p].role = "daemon" /\ run[p] \in Local /\ Running(p)
      /\ UNCHANGED <<proc, wrong>>
  BY DEF Register, At, DInv, TypeOK
<1>2. records' \subseteq Record
  <2>1. [pid |-> p, gone |-> FALSE] \in Record
    BY DEF Record
  <2> QED
    BY <2>1 DEF Register, DInv, TypeOK
<1>3. faults' \in 0..MaxFaults
  BY FaultType DEF Register, DInv, TypeOK
<1>4. PICK local \in Local :
        /\ run' = [run EXCEPT ![p] = local] /\ local.pc = "caller"
        /\ local.role \in {"daemon", "registered"}
        /\ local.told = run[p].told /\ local.ended = run[p].ended
  <2>1. CASE run' = [run EXCEPT ![p].role = "registered"]
    <3> DEFINE enrolled == [run[p] EXCEPT !.role = "registered"]
    <3>1. /\ enrolled \in Local /\ enrolled.pc = "caller" /\ enrolled.role = "registered"
          /\ enrolled.told = run[p].told /\ enrolled.ended = run[p].ended
      BY <1>1 DEF Local
    <3>2. run' = [run EXCEPT ![p] = enrolled]
      BY <2>1
    <3> HIDE DEF enrolled
    <3> QED
      BY <3>1, <3>2
  <2>2. CASE UNCHANGED run
    BY <1>1, <2>2 DEF DInv, TypeOK
  <2> QED
    BY <2>1, <2>2 DEF Register
<1>5. TypeOK'
  BY <1>1, <1>2, <1>3, <1>4, RunType DEF DInv, TypeOK
<1>6. run'[p] = local /\ \A q \in Pid : q # p => run'[q] = run[q]
  BY <1>4 DEF DInv, TypeOK
<1>7. proc[p].ignore = TRUE
  BY <1>1 DEF DInv, Ignoring
<1> QED
  BY <1>1, <1>4, <1>5, <1>6, <1>7, StepKeeps DEF Awaits, Init_DaemonPc

LEMMA UnRegisterKeeps ==
  ASSUME DInv, NEW p \in Pid, UnRegister(p)
  PROVE  DInv'
<1>1. /\ run[p].pc = "caller" /\ Plain(p) /\ run[p] \in Local /\ Running(p)
      /\ UNCHANGED <<proc, wrong>>
  BY DEF UnRegister, At, DInv, TypeOK
<1>2. records' \subseteq Record /\ faults' \in 0..MaxFaults
  BY FaultType DEF UnRegister, DInv, TypeOK
<1>3. PICK local \in Local :
        /\ run' = [run EXCEPT ![p] = local] /\ local.pc \in {"caller", "kill"}
        /\ local.pc = "kill" => local.target \in Record
        /\ local.role = run[p].role
        /\ local.told = "ok" => run[p].told = "ok" /\ local.ended = run[p].ended
  <2>1. PICK r \in records :
          \/ run' = [run EXCEPT ![p] = [Idle EXCEPT !.pc = "kill", !.role = run[p].role, !.target = r]]
          \/ UNCHANGED run
    BY DEF UnRegister
  <2>2. r \in Record
    BY DEF DInv, TypeOK
  <2>3. CASE run' = [run EXCEPT ![p] = [Idle EXCEPT !.pc = "kill", !.role = run[p].role, !.target = r]]
    <3> DEFINE called == [Idle EXCEPT !.pc = "kill", !.role = run[p].role, !.target = r]
    <3>1. /\ called \in Local /\ called.pc = "kill" /\ called.target = r
          /\ called.role = run[p].role /\ called.told = "none"
      BY <1>1, <2>2, IdleIsLocal DEF Local, Idle, HelperPc
    <3> HIDE DEF called
    <3> QED
      BY <2>2, <2>3, <3>1 DEF called
  <2>4. CASE UNCHANGED run
    BY <1>1, <2>4 DEF DInv, TypeOK
  <2> QED
    BY <2>1, <2>3, <2>4
<1>4. TypeOK'
  BY <1>1, <1>2, <1>3, RunType DEF DInv, TypeOK
<1>5. run'[p] = local /\ \A q \in Pid : q # p => run'[q] = run[q]
  BY <1>3 DEF DInv, TypeOK
<1> QED
  BY <1>1, <1>3, <1>4, <1>5, StepKeeps DEF Awaits, Init_DaemonPc, DInv, Roles, Plain

\* fork fails in system_alternative: the caller is told at once.
LEMMA RefusedKeeps ==
  ASSUME DInv, NEW p \in Pid, At(p, "caller"), faults' \in 0..MaxFaults,
         run' = [run EXCEPT ![p] = [@ EXCEPT !.told = "bad", !.ended = "none"]],
         UNCHANGED <<proc, records, wrong>>
  PROVE  DInv'
<1> DEFINE local == [run[p] EXCEPT !.told = "bad", !.ended = "none"]
<1>1. run[p].pc = "caller" /\ run[p] \in Local
  BY DEF At, DInv, TypeOK
<1>2. /\ local \in Local /\ local.pc = "caller" /\ local.role = run[p].role
      /\ local.told = "bad"
  BY <1>1 DEF Local, Status
<1>3. run' = [run EXCEPT ![p] = local]
  OBVIOUS
<1> HIDE DEF local
<1>4. TypeOK'
  BY <1>1, <1>2, <1>3, RunType DEF DInv, TypeOK
<1>5. run'[p] = local /\ \A q \in Pid : q # p => run'[q] = run[q]
  BY <1>3 DEF DInv, TypeOK
<1>6. /\ Running(p) /\ run[p].role # "child"
      /\ run[p].role \in {"daemon", "registered"} => proc[p].ignore = TRUE
  BY <1>1 DEF DInv, TypeOK, Roles, Ignoring
<1> QED
  BY <1>1, <1>2, <1>4, <1>5, <1>6, StepKeeps DEF Awaits, Init_DaemonPc

LEMMA KillKeeps ==
  ASSUME DInv, NEW p \in Pid, kill_daemon(p)
  PROVE  DInv'
<1> DEFINE t == run[p].target.pid
<1>1. /\ run[p].pc = "kill" /\ run[p] \in Local /\ Running(p) /\ t \in Pid
      /\ run[p].role # "child"
      /\ run[p].role \in {"daemon", "registered"} => proc[p].ignore = TRUE
  BY DEF kill_daemon, At, DInv, TypeOK, Record, Roles, Ignoring
<1>2. \/ proc' = [proc EXCEPT ![t].pending = TRUE]
      \/ proc' = proc
  BY DEF kill_daemon
<1>3. \A q \in Pid : /\ proc'[q].parent = proc[q].parent /\ proc'[q].state = proc[q].state
                     /\ proc'[q].status = proc[q].status /\ proc'[q].session = proc[q].session
                     /\ proc'[q].ignore = proc[q].ignore
  BY <1>1, <1>2 DEF DInv, TypeOK, Process
<1>4. proc' \in [Pid -> Process]
  <2>1. proc \in [Pid -> Process]
    BY DEF DInv, TypeOK
  <2>2. proc[t] \in Process
    BY <1>1, <2>1
  <2>3. [proc[t] EXCEPT !.pending = TRUE] \in Process
    BY <2>2 DEF Process
  <2> QED
    BY <1>1, <1>2, <2>1, <2>3
<1>5. faults' \in 0..MaxFaults /\ wrong' \in Nat /\ records' = records
  BY FailsType DEF kill_daemon, DInv, TypeOK
<1>6. PICK pc \in {"wait", "caller"} : Done(p, pc)
  BY DEF kill_daemon
<1> DEFINE local == [run[p] EXCEPT !.pc = pc, !.target = NoRecord]
<1>7. /\ local \in Local /\ local.pc = pc /\ local.role = run[p].role
      /\ local.told = run[p].told /\ local.ended = run[p].ended
  BY <1>1, <1>6 DEF Local, HelperPc
<1>8. run' = [run EXCEPT ![p] = local]
  BY <1>6 DEF Done
<1> HIDE DEF local
<1>9. run' \in [Pid -> Local] /\ run'[p] = local /\ \A q \in Pid : q # p => run'[q] = run[q]
  BY <1>7, <1>8 DEF DInv, TypeOK
<1>10. TypeOK'
  BY <1>1, <1>3, <1>4, <1>5, <1>6, <1>7, <1>9 DEF DInv, TypeOK, Running
<1> QED
  BY <1>1, <1>3, <1>6, <1>7, <1>9, <1>10, StepKeeps DEF Awaits, Init_DaemonPc

\* wait finds no child: a parent is in no place but the two of Awaits.
LEMMA WaitKeeps ==
  ASSUME DInv, NEW p \in Pid, Wait(p)
  PROVE  DInv'
<1>1. /\ run[p].pc = "wait" /\ run[p] \in Local /\ Running(p) /\ p # Reaper
      /\ run[p].role # "child"
      /\ run[p].role \in {"daemon", "registered"} => proc[p].ignore = TRUE
  BY PidAssumption DEF Wait, At, DInv, TypeOK, Roles, Ignoring
<1>2. Children(p) = {}
  BY <1>1 DEF Children, DInv, Family, Awaits
<1>3. proc' = proc /\ UNCHANGED <<records, wrong, faults>>
  BY <1>2 DEF Wait
<1> DEFINE local == [run[p] EXCEPT !.pc = "caller"]
<1>4. /\ local \in Local /\ local.pc = "caller" /\ local.role = run[p].role
      /\ local.told = run[p].told /\ local.ended = run[p].ended
  BY <1>1 DEF Local
<1>5. run' = [run EXCEPT ![p] = local]
  BY DEF Wait, Goto
<1> HIDE DEF local
<1>6. TypeOK'
  BY <1>1, <1>3, <1>4, <1>5, RunType DEF DInv, TypeOK
<1>7. run'[p] = local /\ \A q \in Pid : q # p => run'[q] = run[q]
  BY <1>5 DEF DInv, TypeOK
<1> QED
  BY <1>1, <1>3, <1>4, <1>6, <1>7, StepKeeps DEF Awaits, Init_DaemonPc

-----------------------------------------------------------------------------
(* waitpid, and a new program *)

LEMMA WaitPidKeeps ==
  ASSUME DInv, NEW p \in Pid, WaitPid(p)
  PROVE  DInv'
<1> DEFINE c == run[p].child
<1>1. /\ run[p].pc = "waitpid" /\ run[p] \in Local /\ Running(p) /\ c \in Pid
      /\ p # Reaper /\ run[p].role # "child"
  BY PidAssumption DEF WaitPid, At, DInv, TypeOK, Roles
<1>2. PICK s \in Status :
        /\ Told(p, s)
        /\ \/ /\ c \in Children(p) /\ proc[c].state = "zombie"
              /\ proc' = [proc EXCEPT ![c] = Unused] /\ s = proc[c].status
           \/ c \notin Children(p) /\ proc' = proc
  <2>1. CASE c \in Children(p) /\ proc[c].state = "zombie" /\ Reap(c) /\ Told(p, proc[c].status)
    <3>1. proc[c].status \in Status
      BY <1>1 DEF DInv, TypeOK, Process
    <3> QED
      BY <2>1, <3>1 DEF Reap
  <2>2. CASE c \notin Children(p) /\ (\E t \in {"ok", "bad"} : Told(p, t)) /\ UNCHANGED proc
    BY <2>2 DEF Status
  <2> QED
    BY <2>1, <2>2 DEF WaitPid
<1>3. /\ run'[p].pc = "caller" /\ run'[p].role = run[p].role /\ run'[p].ended = run[p].ended
      /\ run'[p].told = s /\ run' \in [Pid -> Local]
      /\ \A q \in Pid : q # p => run'[q] = run[q]
  BY <1>1, <1>2 DEF Told, DInv, TypeOK, Local
<1>4. \/ /\ c \in Children(p) /\ proc[c].state = "zombie"
         /\ proc' = [proc EXCEPT ![c] = Unused] /\ s = proc[c].status
      \/ c \notin Children(p) /\ proc' = proc
  BY <1>2
<1>5. \A q \in Pid : proc[q].parent = p => q = c
  BY <1>1 DEF DInv, Family, Awaits
<1>6. proc[c].state = "free" => proc[c].parent # p
  BY <1>1 DEF DInv, Unowned
<1>7. /\ \A q \in Pid : /\ q # c => proc'[q] = proc[q]
                        /\ proc[q].state = "running" => proc'[q] = proc[q]
                        /\ proc[q].state # "running" => proc'[q].state # "running"
                        /\ proc'[q].state = "free" => proc'[q].parent = Reaper
                        /\ proc'[q].parent # p
                        /\ proc'[q].parent = proc[q].parent \/ proc'[q].parent = Reaper
      /\ proc' \in [Pid -> Process]
  <2>1. CASE c \in Children(p) /\ proc[c].state = "zombie" /\ proc' = [proc EXCEPT ![c] = Unused]
    <3>1. proc'[c] = Unused /\ \A q \in Pid : q # c => proc'[q] = proc[q]
      BY <1>1, <2>1 DEF DInv, TypeOK
    <3>2. proc' \in [Pid -> Process]
      BY <1>1, <2>1, UnusedIsProcess DEF DInv, TypeOK
    <3>3. Unused.state = "free" /\ Unused.parent = Reaper
      BY DEF Unused
    <3> QED
      BY <1>1, <1>5, <2>1, <3>1, <3>2, <3>3 DEF DInv, Unowned
  <2>2. CASE c \notin Children(p) /\ proc' = proc
    BY <1>1, <1>5, <1>6, <2>2 DEF Children, DInv, TypeOK, Unowned
  <2> QED
    BY <1>4, <2>1, <2>2
<1>8. TypeOK'
  <2>1. \A q \in Pid : /\ run'[q].pc # "none" <=> proc'[q].state = "running"
                       /\ run'[q].pc = "waitpid" => run'[q].child \in Pid
                       /\ run'[q].pc = "kill" => run'[q].target \in Record
    <3> TAKE q \in Pid
    <3>1. CASE q = p
      BY <1>1, <1>3, <1>7, <3>1 DEF Running
    <3>2. CASE q # p
      BY <1>3, <1>7, <3>2 DEF DInv, TypeOK, Running
    <3> QED
      BY <3>1, <3>2
  <2> QED
    BY <1>3, <1>7, <2>1 DEF WaitPid, DInv, TypeOK, Running
<1>9. Placed' /\ Unowned'
  BY <1>1, <1>3, <1>7 DEF DInv, Placed, Unowned, Running
<1>10. Roles'
  BY <1>1, <1>3 DEF DInv, Roles, Init_DaemonPc
<1>11. Family'
  <2> SUFFICES ASSUME NEW q \in Pid
               PROVE  /\ proc'[q].parent # q
                      /\ proc'[q].parent # Reaper => Awaits(proc[q].parent, q)'
    BY DEF Family
  <2> DEFINE x == proc[q].parent
  <2>1. /\ proc'[q].parent \in {x, Reaper} /\ proc'[q].parent # p /\ x # q /\ q # Reaper
        /\ x \in Pid \cup {Reaper} /\ (x # Reaper => Awaits(x, q))
    BY <1>7, PidAssumption DEF DInv, TypeOK, Process, Family
  <2>2. ASSUME proc'[q].parent # Reaper
        PROVE  Awaits(proc[q].parent, q)'
    <3>1. proc'[q].parent = x /\ x \in Pid /\ Awaits(x, q) /\ run'[x] = run[x]
      BY <1>3, <2>1, <2>2
    <3>2. run'[q].role = run[q].role /\ (Running(q)' => Running(q))
      BY <1>3, <1>7 DEF Running
    <3> QED
      BY <3>1, <3>2 DEF Awaits
  <2> QED
    BY <2>1, <2>2
<1>12. Sessions'
  <2> SUFFICES ASSUME NEW q \in Pid,
                      run'[q].pc \in {"signal", "second", "detach"} \/ run'[q].role \in {"daemon", "registered"}
               PROVE  /\ run'[q].pc \in {"signal", "second"} => proc'[q].session = q
                      /\ run'[q].pc = "detach" \/ run'[q].role \in {"daemon", "registered"} =>
                           proc'[q].session \notin {q, Reaper} /\ Leaving(proc[q].session)'
    BY DEF Sessions
  <2>1. /\ run'[q].role = run[q].role
        /\ run'[q].pc \in {"signal", "second", "detach"} => run'[q].pc = run[q].pc
    BY <1>3
  <2>2. proc[q].state = "running"
    BY <2>1 DEF DInv, Placed, Running, Idle
  <2>3. proc'[q] = proc[q] /\ proc[q].session \in Pid \cup {Reaper}
    BY <1>7, <2>2 DEF DInv, TypeOK, Process
  <2>4. ASSUME proc[q].session # Reaper, Leaving(proc[q].session)
        PROVE  Leaving(proc[q].session)'
    <3>1. proc[q].session \in Pid /\ proc[q].session # p
      BY <1>1, <2>3, <2>4 DEF Leaving
    <3>2. run'[proc[q].session] = run[proc[q].session]
      BY <1>3, <3>1
    <3>3. Running(proc[q].session)' => Running(proc[q].session)
      BY <1>7, <2>3, <3>1 DEF Running
    <3> QED
      BY <2>3, <2>4, <3>2, <3>3 DEF Leaving
  <2> QED
    BY <2>1, <2>3, <2>4 DEF DInv, Sessions
<1>13. Ignoring'
  <2> SUFFICES ASSUME NEW q \in Pid,
                      run'[q].pc \in {"second", "detach"} \/ run'[q].role \in {"daemon", "registered"}
               PROVE  proc'[q].ignore = TRUE
    BY DEF Ignoring
  <2>1. run'[q].role = run[q].role /\ (run'[q].pc \in {"second", "detach"} => run'[q].pc = run[q].pc)
    BY <1>3
  <2>2. proc[q].state = "running"
    BY <2>1 DEF DInv, Placed, Running, Idle
  <2> QED
    BY <1>7, <2>1, <2>2 DEF DInv, Ignoring
<1>14. Waits'
  <2> SUFFICES ASSUME NEW q \in Pid, run'[q].pc = "waitpid"
               PROVE  LET d == run'[q].child
                      IN /\ run'[q].told = "none"
                         /\ (proc'[d].parent = q /\ proc'[d].state # "free") \/ proc'[q].ignore = TRUE
                         /\ proc'[d].parent = q /\ proc'[d].state = "zombie" => run'[q].ended = proc'[d].status
    BY DEF Waits
  <2>1. /\ q # p /\ run'[q] = run[q] /\ run[q].child \in Pid /\ proc[q].state = "running"
        /\ proc'[q] = proc[q]
    BY <1>3, <1>7 DEF DInv, TypeOK, Running
  <2>2. CASE proc[run[q].child].parent = q
    <3>1. proc'[run[q].child] = proc[run[q].child]
      BY <1>4, <1>7, <2>1, <2>2 DEF Children
    <3> QED
      BY <2>1, <3>1 DEF DInv, Waits
  <2>3. CASE proc[run[q].child].parent # q
    <3>1. q # Reaper /\ proc'[run[q].child].parent # q
      BY <1>7, <2>1, <2>3, PidAssumption
    <3> QED
      BY <2>1, <2>3, <3>1 DEF DInv, Waits
  <2> QED
    BY <2>2, <2>3
<1>15. TellsTruth'
  <2> SUFFICES ASSUME NEW q \in Pid, run'[q].told = "ok"
               PROVE  run'[q].ended = "ok" \/ proc'[q].ignore = TRUE
    BY DEF TellsTruth
  <2>1. CASE q = p
    <3>1. proc'[p] = proc[p]
      BY <1>1, <1>7 DEF Running
    <3>2. \/ proc[p].ignore = TRUE
          \/ proc[c].parent = p /\ proc[c].state = "zombie" /\ s = proc[c].status
      BY <1>1, <1>4 DEF DInv, Waits, Children
    <3>3. proc[c].parent = p /\ proc[c].state = "zombie" => run[p].ended = proc[c].status
      BY <1>1 DEF DInv, Waits
    <3> QED
      BY <1>3, <2>1, <3>1, <3>2, <3>3
  <2>2. CASE q # p
    <3>1. run'[q] = run[q] /\ proc[q].state = "running"
      BY <1>3, <2>2 DEF DInv, Placed, Running, Idle
    <3> QED
      BY <1>7, <3>1 DEF DInv, TellsTruth
  <2> QED
    BY <2>1, <2>2
<1> QED
  BY <1>8, <1>9, <1>10, <1>11, <1>12, <1>13, <1>14, <1>15 DEF DInv

\* A new program takes a pid that nobody refers to as a parent or a session.
LEMMA StartKeeps ==
  ASSUME DInv, Start
  PROVE  DInv'
<1>1. PICK p \in FreePids : /\ proc' = [proc EXCEPT ![p] = Launched]
                            /\ run' = [run EXCEPT ![p] = [Idle EXCEPT !.pc = "caller"]]
                            /\ UNCHANGED <<records, wrong, faults>>
  BY DEF Start
<1>2. /\ p \in Pid /\ proc[p].state = "free" /\ ~Running(p) /\ p # Reaper
      /\ \A q \in Pid : proc[q].session # p
  BY <1>1, PidAssumption DEF FreePids, Running
<1>3. /\ proc'[p].state = "running" /\ proc'[p].parent = Reaper /\ proc' \in [Pid -> Process]
      /\ \A q \in Pid : q # p => proc'[q] = proc[q]
  BY <1>1, <1>2, UnusedIsProcess DEF DInv, TypeOK, Launched, Unused
<1>4. /\ run'[p].pc = "caller" /\ run'[p].role = "plain" /\ run'[p].told = "none"
      /\ run' \in [Pid -> Local] /\ \A q \in Pid : q # p => run'[q] = run[q]
  BY <1>1, <1>2 DEF DInv, TypeOK, Idle, Local, Status
<1>5. run[p].pc = "none" /\ \A q \in Pid : proc[q].parent # p
  BY <1>2 DEF DInv, Placed, Idle, Family, Awaits
<1>6. TypeOK'
  <2>1. \A q \in Pid : /\ run'[q].pc # "none" <=> proc'[q].state = "running"
                       /\ run'[q].pc = "waitpid" => run'[q].child \in Pid
                       /\ run'[q].pc = "kill" => run'[q].target \in Record
    <3> TAKE q \in Pid
    <3>1. CASE q = p
      BY <1>3, <1>4, <3>1
    <3>2. CASE q # p
      BY <1>3, <1>4, <3>2 DEF DInv, TypeOK, Running
    <3> QED
      BY <3>1, <3>2
  <2> QED
    BY <1>1, <1>3, <1>4, <2>1 DEF DInv, TypeOK, Running
<1>7. Placed' /\ Unowned'
  BY <1>3, <1>4 DEF DInv, Placed, Unowned, Running
<1>8. Roles'
  BY <1>4 DEF DInv, Roles, Init_DaemonPc
<1>9. Family'
  <2> SUFFICES ASSUME NEW q \in Pid
               PROVE  /\ proc'[q].parent # q
                      /\ proc'[q].parent # Reaper => Awaits(proc[q].parent, q)'
    BY DEF Family
  <2>1. CASE q = p
    <3>1. proc[p].parent = Reaper
      BY <1>2 DEF DInv, Unowned
    <3> QED
      BY <1>2, <1>3, <2>1, <3>1
  <2>2. CASE q # p
    <3>1. /\ proc'[q] = proc[q] /\ run'[q] = run[q] /\ proc[q].parent \in Pid \cup {Reaper}
          /\ proc[q].parent # p
      BY <1>3, <1>4, <1>5, <2>2 DEF DInv, TypeOK, Process
    <3>2. proc[q].parent # Reaper => run'[proc[q].parent] = run[proc[q].parent]
      BY <1>4, <3>1
    <3> QED
      BY <3>1, <3>2 DEF DInv, Family, Awaits, Running
  <2> QED
    BY <2>1, <2>2
<1>10. Sessions'
  <2> SUFFICES ASSUME NEW q \in Pid,
                      run'[q].pc \in {"signal", "second", "detach"} \/ run'[q].role \in {"daemon", "registered"}
               PROVE  /\ run'[q].pc \in {"signal", "second"} => proc'[q].session = q
                      /\ run'[q].pc = "detach" \/ run'[q].role \in {"daemon", "registered"} =>
                           proc'[q].session \notin {q, Reaper} /\ Leaving(proc[q].session)'
    BY DEF Sessions
  <2>1. q # p /\ run'[q] = run[q] /\ proc'[q] = proc[q] /\ proc[q].session # p
        /\ proc[q].session \in Pid \cup {Reaper}
    BY <1>2, <1>3, <1>4 DEF DInv, TypeOK, Process
  <2>2. ASSUME proc[q].session # Reaper, Leaving(proc[q].session)
        PROVE  Leaving(proc[q].session)'
    <3>1. /\ run'[proc[q].session] = run[proc[q].session]
          /\ proc'[proc[q].session] = proc[proc[q].session]
      BY <1>3, <1>4, <2>1, <2>2
    <3> QED
      BY <2>1, <2>2, <3>1 DEF Leaving, Running
  <2> QED
    BY <2>1, <2>2 DEF DInv, Sessions
<1>11. Ignoring'
  BY <1>3, <1>4 DEF DInv, Ignoring
<1>12. Waits'
  <2> SUFFICES ASSUME NEW q \in Pid, run'[q].pc = "waitpid"
               PROVE  LET d == run'[q].child
                      IN /\ run'[q].told = "none"
                         /\ (proc'[d].parent = q /\ proc'[d].state # "free") \/ proc'[q].ignore = TRUE
                         /\ proc'[d].parent = q /\ proc'[d].state = "zombie" => run'[q].ended = proc'[d].status
    BY DEF Waits
  <2>1. q # p /\ run'[q] = run[q] /\ proc'[q] = proc[q] /\ run[q].child \in Pid
    BY <1>3, <1>4 DEF DInv, TypeOK
  <2>2. CASE run[q].child = p
    BY <1>2, <1>3, <2>1, <2>2 DEF DInv, Waits
  <2>3. CASE run[q].child # p
    BY <1>3, <2>1, <2>3 DEF DInv, Waits
  <2> QED
    BY <2>2, <2>3
<1>13. TellsTruth'
  BY <1>3, <1>4 DEF DInv, TellsTruth
<1> QED
  BY <1>6, <1>7, <1>8, <1>9, <1>10, <1>11, <1>12, <1>13 DEF DInv

-----------------------------------------------------------------------------
(* The theorems *)

LEMMA DInvInit == Init => DInv
<1> SUFFICES ASSUME Init PROVE DInv
  OBVIOUS
<1>1. \A p \in Pid : proc[p] = Unused /\ run[p] = Idle
  BY DEF Init
<1>2. TypeOK
  BY <1>1, UnusedIsProcess, IdleIsLocal, FaultAssumption
  DEF Init, TypeOK, Running, Idle, Unused
<1> QED
  BY <1>1, <1>2, PidAssumption
  DEF DInv, Placed, Unowned, Roles, Family, Sessions, Ignoring, Waits, TellsTruth, Running,
      Idle, Unused, Init_DaemonPc

LEMMA DInvStep == DInv /\ [Next]_vars => DInv'
<1> SUFFICES ASSUME DInv, [Next]_vars PROVE DInv'
  OBVIOUS
<1>1. CASE Start
  BY <1>1, StartKeeps
<1>2. ASSUME NEW p \in Pid, Helper(p) PROVE DInv'
  <2>1. CASE Parent(p)
    BY <2>1, EndKeeps DEF Parent, At, DInv, TypeOK
  <2>2. CASE SecondFork(p)
    <3>1. CASE Spawn(p, "parent", "detach", "plain")
      BY <2>2, <3>1, ForkKeeps DEF SecondFork, Forks
    <3>2. CASE Fails(FreePids = {}) /\ End(p, "bad")
      BY <2>2, <3>2, FailsType, EndKeeps DEF SecondFork, At, DInv, TypeOK
    <3> QED
      BY <2>2, <3>1, <3>2 DEF SecondFork
  <2> QED
    BY <1>2, <2>1, <2>2, SetsidKeeps, SignalKeeps, DetachKeeps, ExecKeeps, WaitPidKeeps,
       KillKeeps, WaitKeeps DEF Helper
<1>3. ASSUME NEW p \in Pid, Caller(p) PROVE DInv'
  <2>1. CASE Init_Daemon(p)
    <3>1. CASE Spawn(p, "parent", "setsid", "plain")
      BY <2>1, <3>1, ForkKeeps DEF Init_Daemon, Forks
    <3>2. CASE Fails(FreePids = {}) /\ End(p, "bad")
      BY <2>1, <3>2, FailsType, EndKeeps DEF Init_Daemon, At, DInv, TypeOK
    <3> QED
      BY <2>1, <3>1, <3>2 DEF Init_Daemon
  <2>2. CASE skeleton_daemon(p)
    <3>1. CASE Spawn(p, "parent", "caller", run[p].role)
      BY <2>2, <3>1, ForkKeeps DEF skeleton_daemon, Forks
    <3>2. CASE Fails(FreePids = {}) /\ End(p, "bad")
      BY <2>2, <3>2, FailsType, EndKeeps DEF skeleton_daemon, At, DInv, TypeOK
    <3> QED
      BY <2>2, <3>1, <3>2 DEF skeleton_daemon
  <2>3. CASE system_alternative(p)
    <3>1. CASE Spawn(p, "waitpid", "exec", "child")
      BY <2>3, <3>1, ForkKeeps DEF system_alternative, Forks
    <3>2. CASE /\ Fails(FreePids = {})
               /\ run' = [run EXCEPT ![p] = [@ EXCEPT !.told = "bad", !.ended = "none"]]
               /\ UNCHANGED <<proc, records, wrong>>
      BY <2>3, <3>2, FailsType, RefusedKeeps DEF system_alternative, DInv
    <3> QED
      BY <2>3, <3>1, <3>2 DEF system_alternative
  <2>4. CASE Return(p)
    BY <2>4, EndKeeps DEF Return, At, DInv, TypeOK
  <2> QED
    BY <1>3, <2>1, <2>2, <2>3, <2>4, RegisterKeeps, UnRegisterKeeps DEF Caller
<1>4. ASSUME NEW p \in Pid, Program(p) \/ Deliver(p) \/ Crash(p) PROVE DInv'
  <2>1. Running(p)
    BY <1>4 DEF Program, Deliver, Crash, At, DInv, TypeOK
  <2>2. faults' \in 0..MaxFaults
    BY <1>4, FaultType DEF Program, Deliver, Crash, DInv, TypeOK
  <2>3. PICK status \in {"ok", "bad"} : End(p, status)
    BY <1>4 DEF Program, Deliver, Crash
  <2> QED
    BY <2>1, <2>2, <2>3, EndKeeps
<1>5. CASE UNCHANGED vars
  BY <1>5 DEF vars, DInv, TypeOK, Placed, Unowned, Roles, Family, Awaits, Sessions, Leaving,
              Ignoring, Waits, TellsTruth, Running
<1> QED
  BY <1>1, <1>2, <1>3, <1>4, <1>5 DEF Next

\* In every state the processes, the places in the code and the records have their
\* types, and a pid is at a place in the code exactly while its process runs.
THEOREM DaemonTypeCorrect == Spec => []TypeOK
<1>1. DInv => TypeOK
  BY DEF DInv
<1> QED
  BY <1>1, DInvInit, DInvStep, PTL DEF Spec

\* Init_Daemon leaves a daemon that does not lead its session, whose session leader
\* and parent only exit any more, and that is not waited for; every other process
\* with a parent that goes on has one that waits in system_alternative for it.
THEOREM DaemonIsDetached == Spec => []DaemonDetached
<1>1. DInv => DaemonDetached
  <2> SUFFICES ASSUME DInv, NEW p \in Pid
               PROVE  LET leader == proc[p].session
                          Leaves(q) == q = Reaper \/ ~Running(q) \/ run[q].pc = "parent"
                      IN /\ run[p].role \in {"daemon", "registered"} =>
                              leader \notin {p, Reaper} /\ Leaves(leader) /\ Leaves(proc[p].parent) /\ proc[p].ignore
                         /\ Running(p) /\ proc[p].parent # Reaper /\ ~Leaves(proc[p].parent) =>
                              run[proc[p].parent].pc = "waitpid" /\ run[proc[p].parent].child = p
    BY DEF DaemonDetached
  <2>1. run[p].role \in {"daemon", "registered"} =>
          /\ proc[p].session \notin {p, Reaper} /\ Leaving(proc[p].session)
          /\ proc[p].ignore = TRUE /\ Running(p)
    BY DEF DInv, Sessions, Ignoring, Placed, Idle
  <2>2. proc[p].parent # Reaper => Awaits(proc[p].parent, p)
    BY DEF DInv, Family
  <2> QED
    BY <2>1, <2>2 DEF Awaits, Leaving
<1> QED
  BY <1>1, DInvInit, DInvStep, PTL DEF Spec

\* One process runs the caller's code for each call of a helper: whoever shares it
\* is a parent about to exit or the copy that a failed execv made.
THEOREM OneProcessReturns == Spec => []OneReturns
<1>1. DInv => OneReturns
  <2> SUFFICES ASSUME DInv, NEW p \in Pid, run[p].pc = "caller", proc[p].parent # Reaper
               PROVE  \/ run[proc[p].parent].pc = "parent"
                      \/ run[p].role = "stray" /\ run[proc[p].parent].child = p
    BY DEF OneReturns
  <2>1. Awaits(proc[p].parent, p)
    BY DEF DInv, Family
  <2>2. Running(p) /\ run[p].role # "child"
    BY DEF DInv, TypeOK, Roles
  <2> QED
    BY <2>1, <2>2 DEF Awaits
<1> QED
  BY <1>1, DInvInit, DInvStep, PTL DEF Spec

\* system_alternative returns success only for a program that succeeded, unless its
\* caller ignores SIGCHLD.
THEOREM ToldSuccessHolds == Spec => []ToldSuccessIsTrue
<1>1. DInv => ToldSuccessIsTrue
  BY DEF DInv, TellsTruth, ToldSuccessIsTrue
<1> QED
  BY <1>1, DInvInit, DInvStep, PTL DEF Spec

-----------------------------------------------------------------------------
(* The balances of records and daemons *)

\* A process that kill_daemon is about to signal, and the record of a daemon that
\* has not ended.
Killers == {q \in Pid : run[q].pc = "kill"}
Alert == {q \in Killers : ~proc[q].pending}
Current(p) == [pid |-> p, gone |-> FALSE]

\* The daemons that are on record or were, and those among them that neither the
\* server nor a process in Q knows any more.
Enrolled == {p \in Pid : run[p].role = "registered" /\ ~proc[p].pending}
Unknown(Q) == {p \in Enrolled : /\ Current(p) \notin records
                                /\ \A q \in Q : run[q].target # Current(p)}

\* Only a program and its copies signal a daemon or exit as a parent, and what is
\* known of a daemon that has not ended is true.
Helping == \A p \in Pid : run[p].pc \in {"parent", "kill"} => Plain(p)
Known == /\ \A r \in records : ~r.gone => run[r.pid].role \in {"daemon", "registered"}
         /\ \A q \in Killers : ~run[q].target.gone =>
              run[run[q].target.pid].role \in {"daemon", "registered"}

\* Every record, with the server or with a process that is about to signal, is for
\* an enrolled daemon that no other record is for, or paid for by a fault.
StaleBalance == Cardinality(records) + Cardinality(Killers) + Cardinality(Unknown(Killers)) + wrong
                  <= Cardinality(Enrolled) + faults
ForgottenBalance == Cardinality(records) + Cardinality(Alert) + 2 * Cardinality(Unknown(Alert))
                      <= Cardinality(Enrolled) + faults

Counted == IsFiniteSet(records) /\ IsFiniteSet(Killers) /\ IsFiniteSet(Enrolled)
CInv == Counted /\ Helping /\ Known /\ StaleBalance /\ ForgottenBalance

-----------------------------------------------------------------------------

LEMMA CountsAreNumbers ==
  ASSUME Counted, DInv
  PROVE  /\ IsFiniteSet(Alert) /\ IsFiniteSet(Unknown(Killers)) /\ IsFiniteSet(Unknown(Alert))
         /\ Cardinality(records) \in Nat /\ Cardinality(Killers) \in Nat
         /\ Cardinality(Alert) \in Nat /\ Cardinality(Enrolled) \in Nat
         /\ Cardinality(Unknown(Killers)) \in Nat /\ Cardinality(Unknown(Alert)) \in Nat
         /\ faults \in Nat /\ wrong \in Nat
<1>1. Alert \subseteq Killers /\ Unknown(Killers) \subseteq Enrolled /\ Unknown(Alert) \subseteq Enrolled
  BY DEF Alert, Unknown
<1>2. /\ IsFiniteSet(Alert) /\ IsFiniteSet(Unknown(Killers)) /\ IsFiniteSet(Unknown(Alert))
      /\ Cardinality(Alert) \in Nat /\ Cardinality(Killers) \in Nat
      /\ Cardinality(Unknown(Killers)) \in Nat /\ Cardinality(Unknown(Alert)) \in Nat
      /\ Cardinality(Enrolled) \in Nat
  BY <1>1, GainsNone DEF Counted
<1>3. Cardinality(records) \in Nat
  BY FS_CardinalityType DEF Counted
<1> QED
  BY <1>2, <1>3, FaultAssumption DEF DInv, TypeOK

\* A process that signals is no daemon, and what it or the server knows is a pid.
LEMMA KillersArePlain ==
  ASSUME DInv, Helping
  PROVE  /\ \A q \in Killers : /\ q \in Pid /\ run[q].role \notin {"daemon", "registered"}
                               /\ Running(q) /\ run[q].target \in Record
         /\ \A p \in Enrolled : p \in Pid /\ Running(p) /\ p \notin Killers
<1>1. \A q \in Killers : /\ q \in Pid /\ run[q].role \notin {"daemon", "registered"}
                         /\ Running(q) /\ run[q].target \in Record
  BY DEF DInv, TypeOK, Helping, Killers, Plain
<1>2. \A p \in Pid : run[p].role = "registered" => Running(p)
  BY DEF DInv, Placed, Idle
<1> QED
  BY <1>1, <1>2 DEF Enrolled

-----------------------------------------------------------------------------
(* Steps that neither learn nor forget anything *)

\* Whoever was on record or about to signal is so still, and knows what it knew.
Undisturbed(q) ==
  /\ run'[q].pc = "kill" <=> run[q].pc = "kill"
  /\ run[q].pc = "kill" => run'[q].target = run[q].target
  /\ run'[q].role = "registered" <=> run[q].role = "registered"
  /\ run[q].role = "daemon" => run'[q].role = "daemon"
  /\ run[q].pc = "kill" \/ run[q].role = "registered" => proc'[q].pending = proc[q].pending

LEMMA QuietCounts ==
  ASSUME DInv, CInv, UNCHANGED <<records, wrong>>, faults' \in Nat, faults' >= faults,
         Helping', \A q \in Pid : Undisturbed(q)
  PROVE  CInv'
<1>1. Killers' = Killers /\ Alert' = Alert /\ Enrolled' = Enrolled
  BY DEF Killers, Alert, Enrolled, Undisturbed
<1>2. \A q \in Killers : q \in Pid /\ run'[q].target = run[q].target
  BY DEF Killers, Undisturbed
<1>3. Unknown(Killers)' = Unknown(Killers) /\ Unknown(Alert)' = Unknown(Alert)
  <2>1. \A p : Current(p)' = Current(p)
    BY DEF Current
  <2>2. Alert \subseteq Killers
    BY DEF Alert
  <2> QED
    BY <1>1, <1>2, <2>1, <2>2 DEF Unknown
<1>4. Known'
  <2>1. \A q \in Pid : run[q].role \in {"daemon", "registered"} => run'[q].role \in {"daemon", "registered"}
    BY DEF Undisturbed
  <2>2. (\A r \in records : r.pid \in Pid) /\ \A q \in Killers : run[q].target.pid \in Pid
    BY DEF DInv, TypeOK, Killers, Record
  <2> QED
    BY <1>1, <1>2, <2>1, <2>2 DEF CInv, Known
<1>5. Counted'
  BY <1>1 DEF CInv, Counted
<1>6. faults \in Nat /\ wrong' = wrong
  BY FaultAssumption DEF DInv, TypeOK
<1>7. StaleBalance' /\ ForgottenBalance'
  BY <1>1, <1>3, <1>6, CountsAreNumbers DEF CInv, StaleBalance, ForgottenBalance
<1> QED
  BY <1>4, <1>5, <1>7 DEF CInv

-----------------------------------------------------------------------------
(* The end of a process *)

\* What the others have when a process ends.
LEMMA EndLeaves ==
  ASSUME DInv, NEW p \in Pid, Running(p), NEW status, End(p, status)
  PROVE  /\ run'[p] = Idle
         /\ \A q \in Pid : q # p =>
              /\ run'[q].pc = run[q].pc /\ run'[q].role = run[q].role
              /\ run'[q].target = Forget(run[q].target, p)
              /\ Running(q) => proc'[q].pending = proc[q].pending
<1>1. run'[p] = Idle
  BY DEF End
<1>2. ASSUME NEW q \in Pid, q # p
      PROVE  /\ run'[q].pc = run[q].pc /\ run'[q].role = run[q].role
             /\ run'[q].target = Forget(run[q].target, p)
  <2>1. run'[q] = [run[q] EXCEPT !.target = Forget(@, p),
                                 !.ended = IF run[q].pc = "waitpid" /\ run[q].child = p
                                           THEN status ELSE @]
    BY <1>2 DEF End
  <2>2. run[q] \in Local
    BY DEF DInv, TypeOK
  <2> QED
    BY <2>1, <2>2 DEF Local
<1>3. ASSUME NEW q \in Pid, q # p, Running(q)
      PROVE  proc'[q].pending = proc[q].pending
  <2>1. proc[q] \in Process /\ Orphaned(p, q)
    BY <1>3, EndsOthers DEF DInv, TypeOK
  <2> QED
    BY <1>3, <2>1 DEF Orphaned, Process, Running
<1> QED
  BY <1>1, <1>2, <1>3

\* The server forgets nobody, and two of its records may only become one.
LEMMA EndRecords ==
  ASSUME DInv, CInv, NEW p \in Pid, NEW status, End(p, status)
  PROVE  /\ IsFiniteSet(records') /\ Cardinality(records') <= Cardinality(records)
         /\ Cardinality(records') \in Nat
<1> DEFINE f == [r \in records |-> Forget(r, p)]
<1>1. records' = {Forget(r, p) : r \in records}
  BY DEF End
<1>2. f \in Surjection(records, records')
  BY <1>1 DEF Surjection
<1>3. IsFiniteSet(records)
  BY DEF CInv, Counted
<1> HIDE DEF f
<1> QED
  BY <1>2, <1>3, FS_Surjection, FS_CardinalityType

\* Only those whom the process that ends was about to signal may be unknown now.
LEMMA EndUnknown ==
  ASSUME DInv, CInv, NEW p \in Pid, Running(p), NEW status, End(p, status)
  PROVE  /\ Killers' = Killers \ {p} /\ Alert' = Alert \ {p} /\ Enrolled' = Enrolled \ {p}
         /\ Unknown(Killers)' \subseteq Unknown(Killers) \cup {run[p].target.pid}
         /\ Unknown(Alert)' \subseteq Unknown(Alert) \cup {run[p].target.pid}
         /\ p \notin Killers => Unknown(Killers)' \subseteq Unknown(Killers)
         /\ p \notin Alert => Unknown(Alert)' \subseteq Unknown(Alert)
<1>1. /\ run'[p].pc = "none" /\ run'[p].role = "plain"
      /\ \A q \in Pid : q # p =>
           /\ run'[q].pc = run[q].pc /\ run'[q].role = run[q].role
           /\ run'[q].target = Forget(run[q].target, p)
           /\ Running(q) => proc'[q].pending = proc[q].pending
  BY EndLeaves DEF Idle
<1>2. \A q \in Pid : run[q].pc = "kill" \/ run[q].role = "registered" => Running(q)
  BY DEF DInv, Placed, Idle
<1>3. Killers' = Killers \ {p}
  BY <1>1 DEF Killers
<1>4. Alert' = Alert \ {p}
  BY <1>1, <1>2, <1>3 DEF Alert, Killers
<1>5. Enrolled' = Enrolled \ {p}
  BY <1>1, <1>2 DEF Enrolled
<1>6. \A q \in Pid : Current(q)' = Current(q)
  BY DEF Current
<1>7. \A q \in Pid : q # p => Forget(Current(q), p) = Current(q)
  <2>1. \A r \in Record : ~r.gone /\ r.pid # p => Forget(r, p) = r
    BY DEF Forget, Record
  <2>2. \A q \in Pid : Current(q) \in Record /\ ~Current(q).gone /\ Current(q).pid = q
    BY DEF Current, Record
  <2> QED
    BY <2>1, <2>2
<1>8. \A q \in Pid : q # p /\ Current(q) \in records => Current(q) \in records'
  BY <1>7 DEF End
<1>9. \A q \in Killers : q \in Pid /\ \A x \in Pid : q # p /\ x # p /\ run[q].target = Current(x)
                                         => run'[q].target = Current(x)
  BY <1>1, <1>7 DEF Killers
<1>10. \A x \in Pid : run[p].target = Current(x) => x = run[p].target.pid
  BY DEF Current
<1>11. ASSUME NEW Q \in {Killers, Alert}, NEW Q2, Q2 = Q \ {p}, NEW x \in Enrolled',
              Current(x) \notin records', \A q \in Q2 : run'[q].target # Current(x),
              x \notin Unknown(Q)
       PROVE  x = run[p].target.pid /\ p \in Q
  <2>1. x \in Pid /\ x # p /\ x \in Enrolled
    BY <1>5, <1>11 DEF Enrolled
  <2>2. PICK q \in Q : run[q].target = Current(x)
    BY <1>8, <1>11, <2>1 DEF Unknown
  <2>3. q \in Killers
    BY <2>2 DEF Alert
  <2>4. q = p
    BY <1>9, <1>11, <2>1, <2>2, <2>3
  <2> QED
    BY <1>10, <2>1, <2>2, <2>4
<1>12. \A x \in Unknown(Killers)' : x \in Unknown(Killers) \/ (x = run[p].target.pid /\ p \in Killers)
  BY <1>3, <1>6, <1>11 DEF Unknown, Enrolled
<1>13. \A x \in Unknown(Alert)' : x \in Unknown(Alert) \/ (x = run[p].target.pid /\ p \in Alert)
  BY <1>4, <1>6, <1>11 DEF Unknown, Enrolled
<1> QED
  BY <1>3, <1>4, <1>5, <1>12, <1>13

LEMMA EndKnown ==
  ASSUME DInv, CInv, NEW p \in Pid, Running(p), NEW status, End(p, status)
  PROVE  Helping' /\ Known'
<1>1. /\ run'[p].pc = "none" /\ run'[p].role = "plain"
      /\ \A q \in Pid : q # p => /\ run'[q].pc = run[q].pc /\ run'[q].role = run[q].role
                                 /\ run'[q].target = Forget(run[q].target, p)
  BY EndLeaves DEF Idle
<1>2. Helping'
  BY <1>1 DEF CInv, Helping, Plain
<1>3. \A r \in Record : ~Forget(r, p).gone => Forget(r, p) = r /\ ~r.gone /\ r.pid \in Pid \ {p}
  BY DEF Forget, Record
<1>4. records \subseteq Record /\ \A q \in Killers : run[q].target \in Record
  BY DEF DInv, TypeOK, Killers
<1>5. \A r \in records' : ~r.gone => run'[r.pid].role \in {"daemon", "registered"}
  <2> SUFFICES ASSUME NEW r \in records, ~Forget(r, p).gone
               PROVE  run'[Forget(r, p).pid].role \in {"daemon", "registered"}
    BY DEF End
  <2> QED
    BY <1>1, <1>3, <1>4 DEF CInv, Known
<1>6. \A q \in Killers' : ~run'[q].target.gone => run'[run'[q].target.pid].role \in {"daemon", "registered"}
  <2> SUFFICES ASSUME NEW q \in Killers', ~run'[q].target.gone
               PROVE  run'[run'[q].target.pid].role \in {"daemon", "registered"}
    OBVIOUS
  <2>1. q \in Pid /\ q # p /\ q \in Killers
    BY <1>1 DEF Killers
  <2>2. run'[q].target = Forget(run[q].target, p)
    BY <1>1, <2>1
  <2> QED
    BY <1>1, <1>3, <1>4, <2>1, <2>2 DEF CInv, Known
<1> QED
  BY <1>2, <1>5, <1>6 DEF Known

\* A daemon on record, and a process about to signal one, ends by a fault, unless
\* a signal ends the latter.
LEMMA EndCounts ==
  ASSUME DInv, CInv, NEW p \in Pid, Running(p), NEW status, End(p, status),
         faults' \in Nat, faults' >= faults, p \in Enrolled \cup Alert => faults' = faults + 1
  PROVE  CInv'
<1>1. Helping' /\ Known'
  BY EndKnown
<1>2. /\ IsFiniteSet(records') /\ Cardinality(records') <= Cardinality(records)
      /\ Cardinality(records') \in Nat
  BY EndRecords
<1>3. /\ Killers' = Killers \ {p} /\ Alert' = Alert \ {p} /\ Enrolled' = Enrolled \ {p}
      /\ Unknown(Killers)' \subseteq Unknown(Killers) \cup {run[p].target.pid}
      /\ Unknown(Alert)' \subseteq Unknown(Alert) \cup {run[p].target.pid}
      /\ p \notin Killers => Unknown(Killers)' \subseteq Unknown(Killers)
      /\ p \notin Alert => Unknown(Alert)' \subseteq Unknown(Alert)
  BY EndUnknown
<1>4. /\ IsFiniteSet(records) /\ IsFiniteSet(Killers) /\ IsFiniteSet(Enrolled)
      /\ Counted
  BY DEF CInv, Counted
<1>5. /\ IsFiniteSet(Alert) /\ IsFiniteSet(Unknown(Killers)) /\ IsFiniteSet(Unknown(Alert))
      /\ Cardinality(records) \in Nat /\ Cardinality(Killers) \in Nat
      /\ Cardinality(Alert) \in Nat /\ Cardinality(Enrolled) \in Nat
      /\ Cardinality(Unknown(Killers)) \in Nat /\ Cardinality(Unknown(Alert)) \in Nat
      /\ faults \in Nat /\ wrong \in Nat
  BY <1>4, CountsAreNumbers
<1>6. /\ IsFiniteSet(Killers') /\ Cardinality(Killers') \in Nat
      /\ Cardinality(Killers') <= Cardinality(Killers)
      /\ p \in Killers => Cardinality(Killers') <= Cardinality(Killers) - 1
  BY <1>3, <1>4, GainsNone, LosesOne
<1>7. /\ Cardinality(Alert') \in Nat /\ Cardinality(Alert') <= Cardinality(Alert)
      /\ p \in Alert => Cardinality(Alert') <= Cardinality(Alert) - 1
  BY <1>3, <1>5, GainsNone, LosesOne
<1>8. /\ IsFiniteSet(Enrolled') /\ Cardinality(Enrolled') \in Nat
      /\ Cardinality(Enrolled') >= Cardinality(Enrolled) - 1
      /\ p \notin Enrolled => Cardinality(Enrolled') = Cardinality(Enrolled)
  <2>1. p \notin Enrolled => Enrolled' = Enrolled
    BY <1>3
  <2> QED
    BY <1>3, <1>4, <1>5, <2>1, LosesAtMostOne
<1>9. /\ Cardinality(Unknown(Killers)') \in Nat
      /\ Cardinality(Unknown(Killers)') <= Cardinality(Unknown(Killers)) + 1
      /\ p \notin Killers => Cardinality(Unknown(Killers)') <= Cardinality(Unknown(Killers))
  <2>1. CASE p \in Killers
    BY <1>3, <1>5, <2>1, GainsAtMostOne
  <2>2. CASE p \notin Killers
    <3>1. Unknown(Killers)' \subseteq Unknown(Killers)
      BY <1>3, <2>2
    <3>2. /\ Cardinality(Unknown(Killers)') \in Nat
          /\ Cardinality(Unknown(Killers)') <= Cardinality(Unknown(Killers))
      BY <1>5, <3>1, GainsNone
    <3> QED
      BY <1>5, <2>2, <3>2
  <2> QED
    BY <1>5, <2>1, <2>2
<1>10. /\ Cardinality(Unknown(Alert)') \in Nat
       /\ Cardinality(Unknown(Alert)') <= Cardinality(Unknown(Alert)) + 1
       /\ p \notin Alert => Cardinality(Unknown(Alert)') <= Cardinality(Unknown(Alert))
  <2>1. CASE p \in Alert
    BY <1>3, <1>5, <2>1, GainsAtMostOne
  <2>2. CASE p \notin Alert
    <3>1. Unknown(Alert)' \subseteq Unknown(Alert)
      BY <1>3, <2>2
    <3>2. /\ Cardinality(Unknown(Alert)') \in Nat
          /\ Cardinality(Unknown(Alert)') <= Cardinality(Unknown(Alert))
      BY <1>5, <3>1, GainsNone
    <3> QED
      BY <1>5, <2>2, <3>2
  <2> QED
    BY <1>5, <2>1, <2>2
<1>11. p \in Enrolled => p \notin Killers /\ p \notin Alert
  BY KillersArePlain DEF CInv, Alert
<1>12. wrong' = wrong /\ StaleBalance /\ ForgottenBalance
  BY DEF End, CInv
<1>13. StaleBalance'
  BY <1>2, <1>5, <1>6, <1>8, <1>9, <1>11, <1>12 DEF StaleBalance
<1>14. ForgottenBalance'
  BY <1>2, <1>5, <1>7, <1>8, <1>10, <1>11, <1>12 DEF ForgottenBalance
<1> QED
  BY <1>1, <1>2, <1>6, <1>8, <1>13, <1>14 DEF CInv, Counted

-----------------------------------------------------------------------------
(* The record of a daemon *)

\* A daemon that registers is known; when the reply is lost it has a record all the
\* same, which the fault pays for.
LEMMA RegisterCounts ==
  ASSUME DInv, CInv, NEW p \in Pid, Register(p)
  PROVE  CInv'
<1>1. /\ run[p].role = "daemon" /\ run[p].pc = "caller" /\ ~proc[p].pending
      /\ run[p] \in Local /\ records' = records \cup {Current(p)} /\ UNCHANGED <<proc, wrong>>
  BY DEF Register, At, Current, DInv, TypeOK
<1>2. \/ run' = [run EXCEPT ![p].role = "registered"] /\ faults' = faults
      \/ run' = run /\ faults' = faults + 1
  BY DEF Register, Fault
<1>3. /\ \A q \in Pid : /\ run'[q].pc = run[q].pc /\ run'[q].target = run[q].target
                        /\ q # p => run'[q].role = run[q].role
      /\ run'[p].role \in {"daemon", "registered"}
      /\ run'[p].role = "registered" <=> faults' = faults
      /\ faults \in Nat /\ wrong \in Nat
  BY <1>1, <1>2, FaultAssumption DEF DInv, TypeOK, Local
<1>4. Killers' = Killers /\ Alert' = Alert
  BY <1>1, <1>3 DEF Killers, Alert
<1>5. p \notin Enrolled /\ Enrolled' = IF faults' = faults THEN Enrolled \cup {p} ELSE Enrolled
  BY <1>1, <1>3 DEF Enrolled
<1>6. \A x : Current(x)' = Current(x)
  BY DEF Current
<1>7. Unknown(Killers)' \subseteq Unknown(Killers) /\ Unknown(Alert)' \subseteq Unknown(Alert)
  <2>1. \A q \in Killers : q \in Pid
    BY DEF Killers
  <2>2. Alert \subseteq Killers
    BY DEF Alert
  <2>3. p \notin Unknown(Killers)' /\ p \notin Unknown(Alert)'
    BY <1>1, <1>6 DEF Unknown
  <2> QED
    BY <1>1, <1>3, <1>4, <1>5, <1>6, <2>1, <2>2, <2>3 DEF Unknown
<1>8. Helping' /\ Known'
  <2>1. Helping'
    BY <1>1, <1>3 DEF CInv, Helping, Plain
  <2>2. \A q \in Pid : run[q].role \in {"daemon", "registered"} => run'[q].role \in {"daemon", "registered"}
    BY <1>3
  <2>3. (\A r \in records : r.pid \in Pid) /\ \A q \in Killers : q \in Pid /\ run[q].target.pid \in Pid
    BY DEF DInv, TypeOK, Killers, Record
  <2>4. \A r \in records' : ~r.gone => run'[r.pid].role \in {"daemon", "registered"}
    BY <1>1, <1>3, <2>2, <2>3 DEF CInv, Known, Current
  <2> QED
    BY <1>3, <1>4, <2>1, <2>2, <2>3, <2>4 DEF CInv, Known
<1>9. /\ IsFiniteSet(records) /\ IsFiniteSet(Killers) /\ IsFiniteSet(Enrolled)
      /\ Counted /\ StaleBalance /\ ForgottenBalance
  BY DEF CInv, Counted
<1>10. /\ IsFiniteSet(Unknown(Killers)) /\ IsFiniteSet(Unknown(Alert))
       /\ Cardinality(Killers) \in Nat /\ Cardinality(Alert) \in Nat
  BY <1>9, CountsAreNumbers
<1>11. /\ IsFiniteSet(records') /\ Cardinality(records') \in Nat /\ Cardinality(records) \in Nat
       /\ Cardinality(records') <= Cardinality(records) + 1
  BY <1>1, <1>9, GainsAtMostOne
<1>12. /\ IsFiniteSet(Enrolled') /\ Cardinality(Enrolled') \in Nat /\ Cardinality(Enrolled) \in Nat
       /\ Cardinality(Enrolled') + faults' >= Cardinality(Enrolled) + faults + 1
  <2>1. CASE faults' = faults
    <3>1. Enrolled' = Enrolled \cup {p}
      BY <1>5, <2>1
    <3>2. /\ IsFiniteSet(Enrolled \cup {p}) /\ Cardinality(Enrolled) \in Nat
          /\ Cardinality(Enrolled \cup {p}) = Cardinality(Enrolled) + 1
      BY <1>5, <1>9, GainsOne
    <3> QED
      BY <1>3, <2>1, <3>1, <3>2
  <2>2. CASE faults' # faults
    <3>1. Enrolled' = Enrolled /\ faults' = faults + 1
      BY <1>2, <1>5, <2>2
    <3> QED
      BY <1>3, <1>9, <3>1, FS_CardinalityType
  <2> QED
    BY <2>1, <2>2
<1>13. /\ Cardinality(Unknown(Killers)') \in Nat /\ Cardinality(Unknown(Killers)) \in Nat
       /\ Cardinality(Unknown(Killers)') <= Cardinality(Unknown(Killers))
  BY <1>7, <1>10, GainsNone
<1>14. /\ Cardinality(Unknown(Alert)') \in Nat /\ Cardinality(Unknown(Alert)) \in Nat
       /\ Cardinality(Unknown(Alert)') <= Cardinality(Unknown(Alert))
  BY <1>7, <1>10, GainsNone
<1>15. faults' \in Nat /\ wrong' = wrong
  BY <1>1, <1>2, <1>3
<1>16. StaleBalance'
  BY <1>3, <1>4, <1>9, <1>10, <1>11, <1>12, <1>13, <1>15 DEF StaleBalance
<1>17. ForgottenBalance'
  BY <1>3, <1>4, <1>9, <1>10, <1>11, <1>12, <1>14, <1>15 DEF ForgottenBalance
<1> QED
  BY <1>4, <1>8, <1>9, <1>11, <1>12, <1>16, <1>17 DEF CInv, Counted

\* The record that the server gives up is with the process that asked for it, or,
\* when the reply is lost, nowhere.
LEMMA UnRegisterCounts ==
  ASSUME DInv, CInv, NEW p \in Pid, UnRegister(p)
  PROVE  CInv'
<1>1. PICK r \in records :
        /\ records' = records \ {r}
        /\ \/ /\ run' = [run EXCEPT ![p] = [Idle EXCEPT !.pc = "kill", !.role = run[p].role, !.target = r]]
              /\ faults' = faults
           \/ run' = run /\ faults' = faults + 1
        /\ proc' = proc /\ wrong' = wrong
  BY DEF UnRegister, Fault
<1>2. /\ run[p].pc = "caller" /\ ~proc[p].pending /\ Plain(p) /\ r \in Record
      /\ faults \in Nat /\ wrong \in Nat
  BY FaultAssumption DEF UnRegister, At, DInv, TypeOK
<1>3. /\ \A q \in Pid : /\ run'[q].role = run[q].role
                        /\ q # p => run'[q].pc = run[q].pc /\ run'[q].target = run[q].target
      /\ faults' = faults => run'[p].pc = "kill" /\ run'[p].target = r
      /\ faults' # faults => run' = run
  <2>1. CASE run' = run /\ faults' = faults + 1
    BY <1>2, <2>1
  <2>2. CASE /\ run' = [run EXCEPT ![p] = [Idle EXCEPT !.pc = "kill", !.role = run[p].role, !.target = r]]
             /\ faults' = faults
    <3>1. /\ run'[p] = [Idle EXCEPT !.pc = "kill", !.role = run[p].role, !.target = r]
          /\ \A q \in Pid : q # p => run'[q] = run[q]
      BY <2>2 DEF DInv, TypeOK
    <3>2. run'[p].pc = "kill" /\ run'[p].role = run[p].role /\ run'[p].target = r
      BY <3>1, IdleIsLocal DEF Local
    <3> QED
      BY <2>2, <3>1, <3>2
  <2> QED
    BY <1>1, <2>1, <2>2
<1>4. /\ p \notin Killers /\ p \notin Alert
      /\ Killers' = IF faults' = faults THEN Killers \cup {p} ELSE Killers
      /\ Alert' = IF faults' = faults THEN Alert \cup {p} ELSE Alert
      /\ Enrolled' = Enrolled
  BY <1>1, <1>2, <1>3 DEF Killers, Alert, Enrolled
<1>5. \A x : Current(x)' = Current(x)
  BY DEF Current
<1>6. /\ \A q \in Killers : q \in Pid /\ q # p /\ run'[q].target = run[q].target
      /\ Alert \subseteq Killers
  BY <1>3, <1>4 DEF Killers, Alert
<1>7. \A x : Current(x) = r => x = r.pid
  BY DEF Current
<1>8. /\ Unknown(Killers)' \subseteq Unknown(Killers) \cup {r.pid}
      /\ Unknown(Alert)' \subseteq Unknown(Alert) \cup {r.pid}
  BY <1>1, <1>4, <1>5, <1>6, <1>7 DEF Unknown
<1>9. ASSUME faults' = faults
      PROVE  /\ Unknown(Killers)' \subseteq Unknown(Killers)
             /\ Unknown(Alert)' \subseteq Unknown(Alert)
  <2>1. Killers' = Killers \cup {p} /\ Alert' = Alert \cup {p} /\ run'[p].target = r
    BY <1>3, <1>4, <1>9
  <2> QED
    BY <1>1, <1>4, <1>5, <1>6, <2>1 DEF Unknown
<1>10. Helping'
  BY <1>1, <1>2, <1>3 DEF CInv, Helping, Plain
<1>11. Known'
  <2>1. (\A s \in records : s.pid \in Pid) /\ \A q \in Killers : run[q].target.pid \in Pid
    BY DEF DInv, TypeOK, Killers, Record
  <2>2. ~r.gone => run[r.pid].role \in {"daemon", "registered"}
    BY DEF CInv, Known
  <2>3. \A q \in Killers' : ~run'[q].target.gone => run'[run'[q].target.pid].role \in {"daemon", "registered"}
    BY <1>3, <1>4, <1>6, <2>1, <2>2 DEF CInv, Known
  <2> QED
    BY <1>1, <1>3, <2>1, <2>3 DEF CInv, Known
<1>12. /\ IsFiniteSet(records) /\ IsFiniteSet(Killers) /\ IsFiniteSet(Enrolled)
       /\ Counted /\ StaleBalance /\ ForgottenBalance
  BY DEF CInv, Counted
<1>13. /\ IsFiniteSet(Unknown(Killers)) /\ IsFiniteSet(Unknown(Alert)) /\ IsFiniteSet(Alert)
       /\ Cardinality(Unknown(Killers)) \in Nat /\ Cardinality(Unknown(Alert)) \in Nat
       /\ Cardinality(Killers) \in Nat /\ Cardinality(Alert) \in Nat /\ Cardinality(Enrolled) \in Nat
  BY <1>12, CountsAreNumbers
<1>14. /\ IsFiniteSet(records') /\ Cardinality(records') \in Nat /\ Cardinality(records) \in Nat
       /\ Cardinality(records') <= Cardinality(records) - 1
  BY <1>1, <1>12, LosesOne
<1>15. /\ Cardinality(Unknown(Killers)') \in Nat /\ Cardinality(Unknown(Alert)') \in Nat
       /\ Cardinality(Unknown(Killers)') <= Cardinality(Unknown(Killers)) + 1
       /\ Cardinality(Unknown(Alert)') <= Cardinality(Unknown(Alert)) + 1
  BY <1>8, <1>13, GainsAtMostOne
<1>16. CASE faults' = faults
  <2>1. /\ IsFiniteSet(Killers') /\ Cardinality(Killers') = Cardinality(Killers) + 1
        /\ Cardinality(Alert') = Cardinality(Alert) + 1
    BY <1>4, <1>12, <1>13, <1>16, GainsOne
  <2>2. /\ Cardinality(Unknown(Killers)') <= Cardinality(Unknown(Killers))
        /\ Cardinality(Unknown(Alert)') <= Cardinality(Unknown(Alert))
    BY <1>9, <1>13, <1>16, GainsNone
  <2>3. StaleBalance'
    BY <1>1, <1>2, <1>4, <1>12, <1>13, <1>14, <1>15, <1>16, <2>1, <2>2 DEF StaleBalance
  <2>4. ForgottenBalance'
    BY <1>1, <1>2, <1>4, <1>12, <1>13, <1>14, <1>15, <1>16, <2>1, <2>2 DEF ForgottenBalance
  <2> QED
    BY <1>4, <1>10, <1>11, <1>12, <1>14, <2>1, <2>3, <2>4 DEF CInv, Counted
<1>17. CASE faults' # faults
  <2>1. faults' = faults + 1 /\ Killers' = Killers /\ Alert' = Alert
    BY <1>1, <1>4, <1>17
  <2>2. StaleBalance'
    BY <1>1, <1>2, <1>4, <1>12, <1>13, <1>14, <1>15, <2>1 DEF StaleBalance
  <2>3. ForgottenBalance'
    BY <1>1, <1>2, <1>4, <1>12, <1>13, <1>14, <1>15, <2>1 DEF ForgottenBalance
  <2> QED
    BY <1>4, <1>10, <1>11, <1>12, <1>14, <2>1, <2>2, <2>3 DEF CInv, Counted
<1> QED
  BY <1>16, <1>17

-----------------------------------------------------------------------------
(* kill_daemon *)

\* What the process that sends the signal knew, only it may have known.
LEMMA KillUnknown ==
  ASSUME DInv, CInv, NEW p \in Pid, kill_daemon(p)
  PROVE  /\ p \in Alert /\ run[p].target \in Record /\ records' = records
         /\ Killers' = Killers \ {p} /\ Alert' \subseteq Alert \ {p} /\ Enrolled' \subseteq Enrolled
         /\ \A q \in Killers' : run'[q].target = run[q].target
         /\ \A x \in Unknown(Killers)' :
              x \in Unknown(Killers) \/ (x = run[p].target.pid /\ ~run[p].target.gone)
         /\ \A x \in Unknown(Alert)' :
              \/ x \in Unknown(Alert)
              \/ x = run[p].target.pid /\ ~run[p].target.gone
              \/ \E q \in Alert \ Alert' : q # p /\ x = run[q].target.pid
         /\ Helping' /\ Known'
<1>1. /\ run[p].pc = "kill" /\ ~proc[p].pending /\ run[p].target \in Record /\ records' = records
      /\ run[p] \in Local
  BY DEF kill_daemon, At, DInv, TypeOK
<1>2. PICK pc \in {"wait", "caller"} :
        run' = [run EXCEPT ![p] = [@ EXCEPT !.pc = pc, !.target = NoRecord]]
  BY DEF kill_daemon, Done
<1>3. /\ \A q \in Pid : run'[q].role = run[q].role /\ (q # p => run'[q] = run[q])
      /\ run'[p].pc \in {"wait", "caller"}
  <2>1. /\ run'[p] = [run[p] EXCEPT !.pc = pc, !.target = NoRecord]
        /\ \A q \in Pid : q # p => run'[q] = run[q]
    BY <1>2 DEF DInv, TypeOK
  <2>2. run'[p].role = run[p].role /\ run'[p].pc = pc
    BY <1>1, <2>1 DEF Local
  <2> QED
    BY <2>1, <2>2
<1>4. \A q \in Pid : proc[q].pending => proc'[q].pending
  BY DEF kill_daemon, DInv, TypeOK, Process
<1>5. p \in Alert /\ Killers' = Killers \ {p}
  BY <1>1, <1>3 DEF Killers, Alert
<1>6. Alert' \subseteq Alert \ {p} /\ Enrolled' \subseteq Enrolled
  BY <1>3, <1>4, <1>5 DEF Alert, Killers, Enrolled
<1>7. \A q \in Killers : q \in Pid /\ (q # p => run'[q].target = run[q].target)
  BY <1>3 DEF Killers
<1>8. \A x : Current(x)' = Current(x)
  BY DEF Current
<1>9. \A x, q : run[q].target = Current(x) => x = run[q].target.pid /\ ~run[q].target.gone
  BY DEF Current
<1>10. ASSUME NEW x \in Unknown(Killers)', x \notin Unknown(Killers)
       PROVE  x = run[p].target.pid /\ ~run[p].target.gone
  <2>1. PICK q \in Killers : run[q].target = Current(x)
    BY <1>1, <1>6, <1>8, <1>10 DEF Unknown
  <2>2. q \notin Killers'
    BY <1>5, <1>7, <1>8, <1>10, <2>1 DEF Unknown
  <2> QED
    BY <1>5, <1>9, <2>1, <2>2
<1>11. ASSUME NEW x \in Unknown(Alert)', x \notin Unknown(Alert)
       PROVE  \/ x = run[p].target.pid /\ ~run[p].target.gone
              \/ \E q \in Alert \ Alert' : q # p /\ x = run[q].target.pid
  <2>1. PICK q \in Alert : run[q].target = Current(x)
    BY <1>1, <1>6, <1>8, <1>11 DEF Unknown
  <2>2. q \in Killers
    BY DEF Alert
  <2>3. q \notin Alert'
    BY <1>6, <1>7, <1>8, <1>11, <2>1, <2>2 DEF Unknown
  <2> QED
    BY <1>9, <2>1, <2>3
<1>12. Helping'
  BY <1>3 DEF CInv, Helping, Plain
<1>13. Known'
  <2>1. (\A r \in records : r.pid \in Pid) /\ \A q \in Killers : run[q].target.pid \in Pid
    BY DEF DInv, TypeOK, Killers, Record
  <2> QED
    BY <1>1, <1>3, <1>5, <1>7, <2>1 DEF CInv, Known
<1> QED
  BY <1>1, <1>5, <1>6, <1>7, <1>10, <1>11, <1>12, <1>13

\* Whether the signal reaches a daemon on record, another process or nobody, no
\* more is left to pay for than before.
LEMMA KillCounts ==
  ASSUME DInv, CInv, NEW p \in Pid, kill_daemon(p)
  PROVE  CInv'
<1> DEFINE t == run[p].target
<1>1. /\ p \in Alert /\ t \in Record /\ records' = records
      /\ Killers' = Killers \ {p} /\ Alert' \subseteq Alert \ {p} /\ Enrolled' \subseteq Enrolled
      /\ \A x \in Unknown(Killers)' : x \in Unknown(Killers) \/ (x = t.pid /\ ~t.gone)
      /\ \A x \in Unknown(Alert)' : \/ x \in Unknown(Alert)
                                    \/ x = t.pid /\ ~t.gone
                                    \/ \E q \in Alert \ Alert' : q # p /\ x = run[q].target.pid
      /\ Helping' /\ Known'
  BY KillUnknown
<1>2. \/ /\ Running(t.pid) /\ proc' = [proc EXCEPT ![t.pid].pending = TRUE]
         /\ wrong' = wrong + (IF t.gone /\ run[t.pid].role # "registered" THEN 1 ELSE 0)
         /\ faults' = faults
      \/ ~Running(t.pid) /\ proc' = proc /\ wrong' = wrong /\ faults' = faults
      \/ proc' = proc /\ wrong' = wrong /\ faults' = faults + 1
  BY DEF kill_daemon, Fails, Fault, Running
<1>3. \A q \in Pid : run'[q].role = run[q].role /\ (q # p => run'[q].pc = run[q].pc)
  <2>1. PICK pc \in {"wait", "caller"} :
          run' = [run EXCEPT ![p] = [@ EXCEPT !.pc = pc, !.target = NoRecord]]
    BY DEF kill_daemon, Done
  <2>2. run[p] \in Local
    BY DEF DInv, TypeOK
  <2> QED
    BY <2>1, <2>2 DEF DInv, TypeOK, Local
<1>4. /\ t.pid \in Pid
      /\ ~t.gone => /\ run[t.pid].role \in {"daemon", "registered"}
                    /\ Running(t.pid) /\ t.pid \notin Alert
  <2>1. t.pid \in Pid
    BY <1>1 DEF Record
  <2>2. ~t.gone => run[t.pid].role \in {"daemon", "registered"}
    BY <1>1 DEF CInv, Known, Alert
  <2>3. run[t.pid].role \in {"daemon", "registered"} => Running(t.pid) /\ t.pid \notin Killers
    BY <2>1, KillersArePlain DEF DInv, Placed, Idle, CInv
  <2> QED
    BY <2>1, <2>2, <2>3 DEF Alert
<1>5. /\ IsFiniteSet(records) /\ IsFiniteSet(Killers) /\ IsFiniteSet(Enrolled)
      /\ Counted /\ StaleBalance /\ ForgottenBalance
  BY DEF CInv, Counted
<1>6. /\ IsFiniteSet(Unknown(Killers)) /\ IsFiniteSet(Unknown(Alert)) /\ IsFiniteSet(Alert)
      /\ Cardinality(Unknown(Killers)) \in Nat /\ Cardinality(Unknown(Alert)) \in Nat
      /\ Cardinality(Killers) \in Nat /\ Cardinality(Alert) \in Nat /\ Cardinality(Enrolled) \in Nat
      /\ Cardinality(records) \in Nat /\ faults \in Nat /\ wrong \in Nat
  BY <1>5, CountsAreNumbers
<1> HIDE DEF t
<1>7. /\ IsFiniteSet(Killers') /\ Cardinality(Killers') \in Nat
      /\ Cardinality(Killers') <= Cardinality(Killers) - 1
  <2>1. p \in Killers
    BY <1>1 DEF Alert
  <2> QED
    BY <1>1, <1>5, <2>1, LosesOne
<1>8. Cardinality(Alert') \in Nat /\ Cardinality(Alert') <= Cardinality(Alert) - 1
  BY <1>1, <1>6, LosesOne
<1>9. IsFiniteSet(Enrolled') /\ Cardinality(Enrolled') \in Nat
  BY <1>1, <1>5, GainsNone
<1>10. CInv' <=> StaleBalance' /\ ForgottenBalance'
  BY <1>1, <1>5, <1>7, <1>9 DEF CInv, Counted
<1>11. CASE faults' = faults + 1 /\ proc' = proc /\ wrong' = wrong
  <2>1. /\ Unknown(Killers)' \subseteq Unknown(Killers) \cup {t.pid}
        /\ Unknown(Alert)' \subseteq Unknown(Alert) \cup {t.pid}
    <3>1. Alert' = Alert \ {p}
      BY <1>1, <1>11 DEF Alert
    <3> QED
      BY <1>1, <3>1
  <2>2. Enrolled' = Enrolled
    BY <1>3, <1>11 DEF Enrolled
  <2>3. /\ Cardinality(Unknown(Killers)') \in Nat /\ Cardinality(Unknown(Alert)') \in Nat
        /\ Cardinality(Unknown(Killers)') <= Cardinality(Unknown(Killers)) + 1
        /\ Cardinality(Unknown(Alert)') <= Cardinality(Unknown(Alert)) + 1
    BY <1>6, <2>1, GainsAtMostOne
  <2>4. StaleBalance'
    BY <1>1, <1>5, <1>6, <1>7, <1>11, <2>2, <2>3 DEF StaleBalance
  <2>5. ForgottenBalance'
    BY <1>1, <1>5, <1>6, <1>8, <1>11, <2>2, <2>3 DEF ForgottenBalance
  <2> QED
    BY <1>10, <2>4, <2>5
<1>12. CASE ~Running(t.pid) /\ proc' = proc /\ wrong' = wrong /\ faults' = faults
  <2>1. /\ Unknown(Killers)' \subseteq Unknown(Killers)
        /\ Unknown(Alert)' \subseteq Unknown(Alert)
    <3>1. Alert' = Alert \ {p}
      BY <1>1, <1>12 DEF Alert
    <3> QED
      BY <1>1, <1>4, <1>12, <3>1
  <2>2. Enrolled' = Enrolled
    BY <1>3, <1>12 DEF Enrolled
  <2>3. /\ Cardinality(Unknown(Killers)') \in Nat /\ Cardinality(Unknown(Alert)') \in Nat
        /\ Cardinality(Unknown(Killers)') <= Cardinality(Unknown(Killers))
        /\ Cardinality(Unknown(Alert)') <= Cardinality(Unknown(Alert))
    BY <1>6, <2>1, GainsNone
  <2>4. StaleBalance'
    BY <1>1, <1>5, <1>6, <1>7, <1>12, <2>2, <2>3 DEF StaleBalance
  <2>5. ForgottenBalance'
    BY <1>1, <1>5, <1>6, <1>8, <1>12, <2>2, <2>3 DEF ForgottenBalance
  <2> QED
    BY <1>10, <2>4, <2>5
<1>13. CASE /\ Running(t.pid) /\ proc' = [proc EXCEPT ![t.pid].pending = TRUE]
            /\ wrong' = wrong + (IF t.gone /\ run[t.pid].role # "registered" THEN 1 ELSE 0)
            /\ faults' = faults
  <2>1. /\ proc'[t.pid].pending = TRUE
        /\ \A q \in Pid : q # t.pid => proc'[q].pending = proc[q].pending
    BY <1>4, <1>13 DEF DInv, TypeOK, Process
  <2>2. Enrolled' = Enrolled \ {t.pid}
    BY <1>3, <2>1 DEF Enrolled
  <2>3. Alert' = Alert \ {p, t.pid}
    BY <1>1, <2>1 DEF Alert, Killers
  <2>4. /\ t.pid \notin Unknown(Killers)' /\ t.pid \notin Unknown(Alert)'
    BY <2>2 DEF Unknown
  <2>5. Unknown(Killers)' \subseteq Unknown(Killers)
    BY <1>1, <2>4
  <2>6. /\ Cardinality(Unknown(Killers)') \in Nat
        /\ Cardinality(Unknown(Killers)') <= Cardinality(Unknown(Killers))
    BY <1>6, <2>5, GainsNone
  <2>7. /\ Cardinality(Enrolled') >= Cardinality(Enrolled) - 1
        /\ t.pid \notin Enrolled => Cardinality(Enrolled') = Cardinality(Enrolled)
    <3>1. t.pid \notin Enrolled => Enrolled' = Enrolled
      BY <2>2
    <3> QED
      BY <1>5, <1>6, <2>2, <3>1, LosesAtMostOne
  <2>8. /\ wrong' \in Nat /\ wrong' <= wrong + 1
        /\ t.pid \in Enrolled => wrong' = wrong
    <3>1. t.pid \in Enrolled => run[t.pid].role = "registered"
      BY DEF Enrolled
    <3> QED
      BY <1>6, <1>13, <3>1
  <2>9. StaleBalance'
    BY <1>1, <1>5, <1>6, <1>7, <1>9, <1>13, <2>6, <2>7, <2>8 DEF StaleBalance
  <2>10. CASE t.pid \in Alert \ {p}
    <3>1. Unknown(Alert)' \subseteq Unknown(Alert) \cup {run[t.pid].target.pid}
      BY <1>1, <2>3, <2>4
    <3>2. /\ Cardinality(Unknown(Alert)') \in Nat
          /\ Cardinality(Unknown(Alert)') <= Cardinality(Unknown(Alert)) + 1
      BY <1>6, <3>1, GainsAtMostOne
    <3>3. Cardinality(Alert') <= Cardinality(Alert) - 2
      <4>1. /\ IsFiniteSet(Alert \ {p}) /\ Cardinality(Alert \ {p}) \in Nat
            /\ Cardinality(Alert \ {p}) <= Cardinality(Alert) - 1
        BY <1>1, <1>6, LosesOne
      <4>2. Alert' \subseteq (Alert \ {p}) \ {t.pid}
        BY <2>3
      <4>3. Cardinality(Alert') <= Cardinality(Alert \ {p}) - 1
        BY <2>10, <4>1, <4>2, LosesOne
      <4> QED
        BY <1>6, <1>8, <4>1, <4>3
    <3>4. Cardinality(Enrolled') = Cardinality(Enrolled)
      BY <2>7, <2>10, KillersArePlain DEF CInv, Alert
    <3>5. ForgottenBalance'
      BY <1>1, <1>5, <1>6, <1>8, <1>13, <3>2, <3>3, <3>4 DEF ForgottenBalance
    <3> QED
      BY <1>10, <2>9, <3>5
  <2>11. CASE t.pid \notin Alert \ {p}
    <3>1. Unknown(Alert)' \subseteq Unknown(Alert)
      BY <1>1, <2>3, <2>4, <2>11
    <3>2. /\ Cardinality(Unknown(Alert)') \in Nat
          /\ Cardinality(Unknown(Alert)') <= Cardinality(Unknown(Alert))
      BY <1>6, <3>1, GainsNone
    <3>3. ForgottenBalance'
      BY <1>1, <1>5, <1>6, <1>8, <1>9, <1>13, <2>7, <3>2 DEF ForgottenBalance
    <3> QED
      BY <1>10, <2>9, <3>3
  <2> QED
    BY <2>10, <2>11
<1> QED
  BY <1>2, <1>11, <1>12, <1>13 DEF t

-----------------------------------------------------------------------------
(* Every step *)

\* A process is at another place of the code, and neither is about to signal nor was.
LEMMA LocalCounts ==
  ASSUME DInv, CInv, NEW p \in Pid, NEW local, run' = [run EXCEPT ![p] = local],
         run[p].pc # "kill", local.pc \notin {"kill", "parent"},
         local.role = "registered" <=> run[p].role = "registered",
         run[p].role = "daemon" => local.role = "daemon",
         \A q \in Pid : Running(q) => proc'[q].pending = proc[q].pending,
         UNCHANGED <<records, wrong>>, faults' \in Nat, faults' >= faults
  PROVE  CInv'
<1>1. run'[p] = local /\ \A q \in Pid : q # p => run'[q] = run[q]
  BY DEF DInv, TypeOK
<1>2. \A q \in Pid : run[q].pc = "kill" \/ run[q].role = "registered" => Running(q)
  BY DEF DInv, Placed, Idle
<1>3. \A q \in Pid : Undisturbed(q)
  BY <1>1, <1>2 DEF Undisturbed
<1>4. Helping'
  BY <1>1 DEF CInv, Helping, Plain
<1> QED
  BY <1>3, <1>4, QuietCounts

\* The child of a fork is not about to signal, and neither is its parent.
LEMMA SpawnCounts ==
  ASSUME DInv, CInv, NEW p \in Pid, Running(p), run[p].pc # "kill",
         NEW pc \in {"parent", "waitpid"}, pc = "parent" => Plain(p),
         NEW childPc \in {"setsid", "detach", "caller", "exec"},
         NEW childRole \in {"plain", "stray", "child"}, Spawn(p, pc, childPc, childRole)
  PROVE  CInv'
<1>1. PICK c \in FreePids :
         /\ proc' = Forked(p, c)
         /\ run' = [run EXCEPT ![p] = [Idle EXCEPT !.pc = pc, !.role = run[p].role,
                                                   !.child = IF pc = "waitpid" THEN c ELSE @],
                               ![c] = [Idle EXCEPT !.pc = childPc, !.role = childRole]]
         /\ UNCHANGED <<records, wrong, faults>>
  BY DEF Spawn
<1>2. /\ c \in Pid /\ c # p /\ run[c] = Idle
  BY <1>1 DEF FreePids, Running, DInv, Placed
<1>3. /\ \A q \in Pid : q # p /\ q # c => run'[q] = run[q]
      /\ \A q \in Pid : q # c => proc'[q] = proc[q]
  BY <1>1, <1>2 DEF DInv, TypeOK, Forked
<1>4. run'[p].pc = pc /\ run'[p].role = run[p].role
  BY <1>1, <1>2, IdleIsLocal DEF DInv, TypeOK, Local
<1>5. run'[c].pc = childPc /\ run'[c].role = childRole
  BY <1>1, <1>2, IdleIsLocal DEF DInv, TypeOK, Local
<1>6. run[c].pc = "none" /\ run[c].role = "plain"
  BY <1>2 DEF Idle
<1>7. \A q \in Pid : Undisturbed(q)
  BY <1>3, <1>4, <1>5, <1>6 DEF Undisturbed
<1>8. Helping'
  BY <1>3, <1>4, <1>5 DEF CInv, Helping, Plain
<1>9. faults' \in Nat /\ faults' >= faults
  BY <1>1, FaultAssumption DEF DInv, TypeOK
<1> QED
  BY <1>1, <1>7, <1>8, <1>9, QuietCounts

\* Where a fork fails, a process that is not on record ends.
LEMMA ForkEndCounts ==
  ASSUME DInv, CInv, NEW p \in Pid, Plain(p), run[p].pc \notin {"none", "kill"},
         Fails(FreePids = {}) /\ End(p, "bad")
  PROVE  CInv'
<1>1. faults' \in Nat /\ faults' >= faults
  BY FaultAssumption DEF DInv, TypeOK, Fails, Fault
<1>2. Running(p) /\ p \notin Enrolled \cup Alert
  BY DEF DInv, TypeOK, Plain, Enrolled, Alert, Killers
<1> QED
  BY <1>1, <1>2, EndCounts

LEMMA HelperCounts ==
  ASSUME DInv, CInv, NEW p \in Pid, Helper(p)
  PROVE  CInv'
<1>1. faults \in Nat /\ run[p] \in Local
  BY FaultAssumption DEF DInv, TypeOK
<1>2. CASE Parent(p)
  <2>1. Running(p) /\ p \notin Enrolled \cup Alert
    BY <1>2 DEF Parent, At, CInv, Helping, DInv, TypeOK, Plain, Enrolled, Alert, Killers
  <2> QED
    BY <1>1, <1>2, <2>1, EndCounts DEF Parent
<1>3. CASE Setsid(p)
  <2>1. run[p].pc = "setsid" /\ run[p].role = "plain"
    BY <1>3 DEF Setsid, At, DInv, Roles, Init_DaemonPc
  <2>2. CASE /\ proc' = [proc EXCEPT ![p].session = p] /\ Goto(p, "signal")
             /\ UNCHANGED <<records, wrong, faults>>
    <3> DEFINE local == [run[p] EXCEPT !.pc = "signal"]
    <3>1. run' = [run EXCEPT ![p] = local] /\ faults' = faults
      BY <2>2 DEF Goto
    <3>2. \A q \in Pid : proc'[q].pending = proc[q].pending
      BY <2>2 DEF DInv, TypeOK, Process
    <3>3. local.pc = "signal" /\ local.role = run[p].role
      BY <1>1 DEF Local
    <3>4. faults' \in Nat /\ faults' >= faults
      BY <1>1, <3>1
    <3> HIDE DEF local
    <3> QED
      BY <2>1, <2>2, <3>1, <3>2, <3>3, <3>4, LocalCounts
  <2>3. CASE Fault /\ End(p, "bad")
    <3>1. Running(p) /\ p \notin Enrolled \cup Alert
      BY <2>1 DEF DInv, TypeOK, Enrolled, Alert, Killers
    <3>2. faults' \in Nat /\ faults' >= faults
      BY <1>1, <2>3 DEF Fault
    <3> QED
      BY <2>3, <3>1, <3>2, EndCounts
  <2> QED
    BY <1>3, <2>2, <2>3 DEF Setsid
<1>4. CASE Signal(p)
  <2> DEFINE local == [run[p] EXCEPT !.pc = "second"]
  <2>1. /\ run' = [run EXCEPT ![p] = local]
        /\ run[p].pc = "signal" /\ UNCHANGED <<records, wrong, faults>>
        /\ \A q \in Pid : proc'[q].pending = proc[q].pending
    BY <1>4 DEF Signal, At, Goto, DInv, TypeOK, Process
  <2>2. local.pc = "second" /\ local.role = run[p].role
    BY <1>1 DEF Local
  <2>3. faults' \in Nat /\ faults' >= faults
    BY <1>1, <2>1
  <2> HIDE DEF local
  <2> QED
    BY <2>1, <2>2, <2>3, LocalCounts
<1>5. CASE SecondFork(p)
  <2>1. run[p].pc = "second" /\ Running(p) /\ Plain(p)
    BY <1>5 DEF SecondFork, At, DInv, TypeOK, Roles, Init_DaemonPc, Plain
  <2> QED
    BY <1>5, <2>1, SpawnCounts, ForkEndCounts DEF SecondFork
<1>6. CASE Detach(p)
  <2> DEFINE local == [run[p] EXCEPT !.pc = "caller", !.role = "daemon"]
  <2>1. /\ run' = [run EXCEPT ![p] = local]
        /\ run[p].pc = "detach" /\ run[p].role = "plain" /\ UNCHANGED <<proc, records, wrong, faults>>
    BY <1>6 DEF Detach, At, DInv, Roles, Init_DaemonPc
  <2>2. local.pc = "caller" /\ local.role = "daemon"
    BY <1>1 DEF Local
  <2>3. faults' \in Nat /\ faults' >= faults
    BY <1>1, <2>1
  <2> HIDE DEF local
  <2> QED
    BY <2>1, <2>2, <2>3, LocalCounts
<1>7. CASE Exec(p)
  <2>1. /\ run[p].pc = "exec" /\ run[p].role = "child" /\ UNCHANGED <<proc, records, wrong>>
        /\ faults' \in Nat /\ faults' >= faults
    BY <1>1, <1>7 DEF Exec, At, Fault, DInv, Roles
  <2>2. PICK local : /\ run' = [run EXCEPT ![p] = local] /\ local.pc \in {"program", "caller"}
                     /\ local.role \in {"child", "stray"}
    <3>1. /\ [run[p] EXCEPT !.pc = "program"].pc = "program"
          /\ [run[p] EXCEPT !.pc = "program"].role = "child"
          /\ [run[p] EXCEPT !.pc = "caller", !.role = "stray"].pc = "caller"
          /\ [run[p] EXCEPT !.pc = "caller", !.role = "stray"].role = "stray"
      BY <1>1, <2>1 DEF Local
    <3> QED
      BY <1>7, <3>1 DEF Exec, Goto
  <2> QED
    BY <2>1, <2>2, LocalCounts
<1>8. CASE WaitPid(p)
  <2>1. /\ run[p].pc = "waitpid" /\ UNCHANGED <<records, wrong, faults>>
    BY <1>8 DEF WaitPid, At
  <2>2. PICK s : Told(p, s)
    BY <1>8 DEF WaitPid
  <2>3. \A q \in Pid : Running(q) => proc'[q].pending = proc[q].pending
    BY <1>8 DEF WaitPid, Reap, Running, DInv, TypeOK
  <2> DEFINE local == [run[p] EXCEPT !.pc = "caller", !.child = Reaper, !.told = s]
  <2>4. run' = [run EXCEPT ![p] = local]
    BY <2>2 DEF Told
  <2>5. local.pc = "caller" /\ local.role = run[p].role
    BY <1>1 DEF Local
  <2>6. faults' \in Nat /\ faults' >= faults
    BY <1>1, <2>1
  <2> HIDE DEF local
  <2> QED
    BY <2>1, <2>3, <2>4, <2>5, <2>6, LocalCounts
<1>9. CASE Wait(p)
  <2> DEFINE local == [run[p] EXCEPT !.pc = "caller"]
  <2>1. /\ run' = [run EXCEPT ![p] = local]
        /\ run[p].pc = "wait" /\ UNCHANGED <<records, wrong, faults>>
    BY <1>9 DEF Wait, At, Goto
  <2>2. \A q \in Pid : Running(q) => proc'[q].pending = proc[q].pending
    BY <1>9 DEF Wait, Reap, Running, DInv, TypeOK
  <2>3. local.pc = "caller" /\ local.role = run[p].role
    BY <1>1 DEF Local
  <2>4. faults' \in Nat /\ faults' >= faults
    BY <1>1, <2>1
  <2> HIDE DEF local
  <2> QED
    BY <2>1, <2>2, <2>3, <2>4, LocalCounts
<1> QED
  BY <1>2, <1>3, <1>4, <1>5, <1>6, <1>7, <1>8, <1>9, KillCounts DEF Helper

LEMMA CallerCounts ==
  ASSUME DInv, CInv, NEW p \in Pid, Caller(p)
  PROVE  CInv'
<1>1. faults \in Nat /\ run[p] \in Local /\ run[p].pc = "caller" /\ Running(p)
  <2>1. run[p].pc = "caller"
    BY Zenon DEF Caller, Init_Daemon, skeleton_daemon, system_alternative, Register, UnRegister,
                 Return, At
  <2> QED
    BY <2>1, FaultAssumption DEF DInv, TypeOK
<1>2. CASE Init_Daemon(p)
  BY <1>1, <1>2, SpawnCounts, ForkEndCounts DEF Init_Daemon
<1>3. CASE skeleton_daemon(p)
  BY <1>1, <1>3, SpawnCounts, ForkEndCounts DEF skeleton_daemon, Plain
<1>4. CASE system_alternative(p)
  <2>1. CASE Spawn(p, "waitpid", "exec", "child")
    BY <1>1, <2>1, SpawnCounts
  <2>2. CASE /\ Fails(FreePids = {})
             /\ run' = [run EXCEPT ![p] = [@ EXCEPT !.told = "bad", !.ended = "none"]]
             /\ UNCHANGED <<proc, records, wrong>>
    <3>1. faults' \in Nat /\ faults' >= faults
      BY <1>1, <2>2 DEF Fails, Fault
    <3>2. /\ [run[p] EXCEPT !.told = "bad", !.ended = "none"].pc = "caller"
          /\ [run[p] EXCEPT !.told = "bad", !.ended = "none"].role = run[p].role
      BY <1>1 DEF Local
    <3> QED
      BY <1>1, <2>2, <3>1, <3>2, LocalCounts
  <2> QED
    BY <1>4, <2>1, <2>2 DEF system_alternative
<1>5. CASE Return(p)
  <2>1. p \notin Enrolled \cup Alert
    BY <1>1, <1>5 DEF Return, Plain, Enrolled, Alert, Killers
  <2> QED
    BY <1>1, <1>5, <2>1, EndCounts DEF Return
<1> QED
  BY <1>2, <1>3, <1>4, <1>5, RegisterCounts, UnRegisterCounts DEF Caller

LEMMA OtherCounts ==
  ASSUME DInv, CInv, NEW p \in Pid, Program(p) \/ Deliver(p) \/ Crash(p)
  PROVE  CInv'
<1>1. Running(p)
  BY DEF Program, Deliver, Crash, At, DInv, TypeOK
<1>2. PICK status : End(p, status)
  BY DEF Program, Deliver, Crash
<1>3. faults' \in Nat /\ faults' >= faults
  BY FaultAssumption DEF Program, Deliver, Crash, Fault, DInv, TypeOK
<1>4. CASE Program(p)
  <2>1. p \notin Enrolled \cup Alert
    BY <1>4 DEF Program, At, Enrolled, Alert, Killers, DInv, Roles
  <2> QED
    BY <1>1, <1>2, <1>3, <2>1, EndCounts
<1>5. CASE Deliver(p)
  <2>1. p \notin Enrolled \cup Alert
    BY <1>5 DEF Deliver, Enrolled, Alert
  <2> QED
    BY <1>1, <1>2, <1>3, <2>1, EndCounts
<1>6. CASE Crash(p)
  BY <1>1, <1>2, <1>3, <1>6, EndCounts DEF Crash, Fault
<1> QED
  BY <1>4, <1>5, <1>6

LEMMA CInvInit == Init => CInv
<1> SUFFICES ASSUME Init PROVE CInv
  OBVIOUS
<1>1. \A p \in Pid : run[p].pc = "none" /\ run[p].role = "plain"
  BY DEF Init, Idle
<1>2. records = {} /\ Killers = {} /\ Alert = {} /\ Enrolled = {} /\ wrong = 0 /\ faults = 0
  BY <1>1 DEF Init, Killers, Alert, Enrolled
<1>3. Unknown(Killers) = {} /\ Unknown(Alert) = {}
  BY <1>2 DEF Unknown
<1>4. IsFiniteSet({}) /\ Cardinality({}) = 0
  BY FS_EmptySet
<1> QED
  BY <1>1, <1>2, <1>3, <1>4
  DEF CInv, Counted, Helping, Known, StaleBalance, ForgottenBalance

LEMMA CInvStep == DInv /\ CInv /\ [Next]_vars => CInv'
<1> SUFFICES ASSUME DInv, CInv, [Next]_vars PROVE CInv'
  OBVIOUS
<1>1. CASE Start
  <2>1. PICK p \in FreePids : /\ proc' = [proc EXCEPT ![p] = Launched]
                              /\ run' = [run EXCEPT ![p] = [Idle EXCEPT !.pc = "caller"]]
                              /\ UNCHANGED <<records, wrong, faults>>
    BY <1>1 DEF Start
  <2>2. p \in Pid /\ ~Running(p) /\ run[p].pc = "none" /\ run[p].role = "plain"
    BY <2>1 DEF FreePids, Running, DInv, Placed, Idle
  <2>3. \A q \in Pid : Running(q) => proc'[q].pending = proc[q].pending
    BY <2>1, <2>2 DEF DInv, TypeOK
  <2>4. [Idle EXCEPT !.pc = "caller"].pc = "caller" /\ [Idle EXCEPT !.pc = "caller"].role = "plain"
    BY DEF Idle
  <2>5. faults' \in Nat /\ faults' >= faults
    BY <2>1, FaultAssumption DEF DInv, TypeOK
  <2> QED
    BY <2>1, <2>2, <2>3, <2>4, <2>5, LocalCounts
<1>2. CASE UNCHANGED vars
  <2>1. \A q \in Pid : Undisturbed(q)
    BY <1>2 DEF vars, Undisturbed
  <2>2. Helping'
    BY <1>2 DEF vars, CInv, Helping, Plain
  <2>3. faults' \in Nat /\ faults' >= faults
    BY <1>2, FaultAssumption DEF vars, DInv, TypeOK
  <2> QED
    BY <1>2, <2>1, <2>2, <2>3, QuietCounts DEF vars
<1> QED
  BY <1>1, <1>2, HelperCounts, CallerCounts, OtherCounts DEF Next

-----------------------------------------------------------------------------
(* What the balances say *)

\* Each daemon that is known, a record or a process about to signal it is for.
LEMMA KnownAreCounted ==
  ASSUME DInv, CInv, NEW Q, Q \subseteq Killers
  PROVE  LET Live == {r \in records : ~r.gone}
             Aimed == {q \in Q : ~run[q].target.gone}
         IN /\ IsFiniteSet(Live) /\ Cardinality(Live) \in Nat
            /\ IsFiniteSet(Aimed) /\ Cardinality(Aimed) \in Nat
            /\ Cardinality(Unknown(Q)) \in Nat /\ Cardinality(Enrolled) \in Nat
            /\ Cardinality(Enrolled) <= Cardinality(Unknown(Q)) + Cardinality(Live) + Cardinality(Aimed)
<1> DEFINE Live == {r \in records : ~r.gone}
           Aimed == {q \in Q : ~run[q].target.gone}
           OnRecord == {p \in Enrolled : Current(p) \in records}
           AimedAt == {p \in Enrolled : \E q \in Q : run[q].target = Current(p)}
           f == [r \in Live |-> r.pid]
           g == [q \in Aimed |-> run[q].target.pid]
<1>1. IsFiniteSet(records) /\ IsFiniteSet(Killers) /\ IsFiniteSet(Enrolled)
  BY DEF CInv, Counted
<1>2. IsFiniteSet(Live) /\ Cardinality(Live) \in Nat
  BY <1>1, GainsNone, Live \subseteq records
<1>3. IsFiniteSet(Aimed) /\ Cardinality(Aimed) \in Nat
  BY <1>1, GainsNone, Aimed \subseteq Killers
<1>4. /\ IsFiniteSet(Unknown(Q)) /\ Cardinality(Unknown(Q)) \in Nat
      /\ Cardinality(Enrolled) \in Nat
  <2>1. Unknown(Q) \subseteq Enrolled
    BY DEF Unknown
  <2> QED
    BY <1>1, <2>1, GainsNone
<1>5. OnRecord \subseteq {f[r] : r \in Live}
  <2> SUFFICES ASSUME NEW p \in OnRecord PROVE \E r \in Live : f[r] = p
    OBVIOUS
  <2>1. Current(p) \in Live /\ Current(p).pid = p
    BY DEF Current
  <2> QED
    BY <2>1
<1>6. AimedAt \subseteq {g[q] : q \in Aimed}
  <2> SUFFICES ASSUME NEW p \in AimedAt PROVE \E q \in Aimed : g[q] = p
    OBVIOUS
  <2>1. PICK q \in Q : run[q].target = Current(p)
    OBVIOUS
  <2>2. q \in Aimed /\ run[q].target.pid = p
    BY <2>1 DEF Current
  <2> QED
    BY <2>2
<1>7. Enrolled \subseteq Unknown(Q) \cup (OnRecord \cup AimedAt)
  BY DEF Unknown
<1> HIDE DEF f, g, Live, Aimed, OnRecord, AimedAt
<1>8. /\ IsFiniteSet(OnRecord) /\ Cardinality(OnRecord) \in Nat
      /\ Cardinality(OnRecord) <= Cardinality(Live)
  BY <1>2, <1>5, ImageIsNoLarger
<1>9. /\ IsFiniteSet(AimedAt) /\ Cardinality(AimedAt) \in Nat
      /\ Cardinality(AimedAt) <= Cardinality(Aimed)
  BY <1>3, <1>6, ImageIsNoLarger
<1>10. /\ IsFiniteSet(OnRecord \cup AimedAt) /\ Cardinality(OnRecord \cup AimedAt) \in Nat
       /\ Cardinality(OnRecord \cup AimedAt) <= Cardinality(OnRecord) + Cardinality(AimedAt)
  BY <1>8, <1>9, CoverIsNoSmaller
<1>11. Cardinality(Enrolled) <= Cardinality(Unknown(Q)) + Cardinality(OnRecord \cup AimedAt)
  BY <1>4, <1>7, <1>10, CoverIsNoSmaller
<1>12. Cardinality(Enrolled) <= Cardinality(Unknown(Q)) + Cardinality(Live) + Cardinality(Aimed)
  BY <1>2, <1>3, <1>4, <1>8, <1>9, <1>10, <1>11
<1> QED
  BY <1>2, <1>3, <1>4, <1>12 DEF Live, Aimed

\* A daemon that was on record is known to the server, has SIGTERM on its way, or a
\* process that has its pid from the server is about to send that: the others are
\* no more than the lost replies, refused signals and crashes.
THEOREM ForgottenArePaidFor == Spec => []ForgottenPaidFor
<1>1. DInv /\ CInv => ForgottenPaidFor
  <2> SUFFICES ASSUME DInv, CInv PROVE Cardinality(Forgotten) <= faults
    BY DEF ForgottenPaidFor
  <2>1. /\ IsFiniteSet(Alert) /\ IsFiniteSet(Unknown(Alert))
        /\ Cardinality(Unknown(Alert)) \in Nat /\ Cardinality(records) \in Nat
        /\ Cardinality(Alert) \in Nat /\ Cardinality(Enrolled) \in Nat /\ faults \in Nat
        /\ IsFiniteSet(records)
    BY CountsAreNumbers DEF CInv, Counted
  <2>2. Alert \subseteq Killers
    BY DEF Alert
  <2>3. Forgotten \subseteq Unknown(Alert)
    BY <2>2 DEF Forgotten, Unknown, Enrolled, Killers, Current
  <2>4. Cardinality(Forgotten) \in Nat /\ Cardinality(Forgotten) <= Cardinality(Unknown(Alert))
    BY <2>1, <2>3, GainsNone
  <2> DEFINE Live == {r \in records : ~r.gone}
             Aimed == {q \in Alert : ~run[q].target.gone}
  <2>5. /\ Cardinality(Live) \in Nat /\ Cardinality(Aimed) \in Nat
        /\ Cardinality(Enrolled) <= Cardinality(Unknown(Alert)) + Cardinality(Live) + Cardinality(Aimed)
    BY <2>2, KnownAreCounted
  <2>6. Cardinality(Live) <= Cardinality(records) /\ Cardinality(Aimed) <= Cardinality(Alert)
    BY <2>1, GainsNone, Live \subseteq records, Aimed \subseteq Alert
  <2>7. ForgottenBalance
    BY DEF CInv
  <2> HIDE DEF Live, Aimed
  <2> QED
    BY <2>1, <2>4, <2>5, <2>6, <2>7 DEF ForgottenBalance
<1> QED
  BY <1>1, DInvInit, DInvStep, CInvInit, CInvStep, PTL DEF Spec

\* A number that the server or kill_daemon takes for a daemon and that is one no
\* more, and a signal that such a number led astray, is paid for by a fault.
THEOREM StaleArePaidFor == Spec => []StalePaidFor
<1>1. DInv /\ CInv => StalePaidFor
  <2> SUFFICES ASSUME DInv, CInv
               PROVE  Cardinality({r \in records : r.gone})
                        + Cardinality({q \in Pid : run[q].pc = "kill" /\ run[q].target.gone}) + wrong <= faults
    BY DEF StalePaidFor
  <2>1. /\ IsFiniteSet(records) /\ IsFiniteSet(Killers) /\ Cardinality(records) \in Nat
        /\ Cardinality(Killers) \in Nat /\ Cardinality(Unknown(Killers)) \in Nat
        /\ Cardinality(Enrolled) \in Nat /\ faults \in Nat /\ wrong \in Nat
    BY CountsAreNumbers DEF CInv, Counted
  <2> DEFINE Live == {r \in records : ~r.gone}
             Aimed == {q \in Killers : ~run[q].target.gone}
             Stale == {r \in records : r.gone}
             Astray == {q \in Pid : run[q].pc = "kill" /\ run[q].target.gone}
  <2>2. /\ Cardinality(Live) \in Nat /\ Cardinality(Aimed) \in Nat
        /\ IsFiniteSet(Live) /\ IsFiniteSet(Aimed)
        /\ Cardinality(Enrolled) <= Cardinality(Unknown(Killers)) + Cardinality(Live) + Cardinality(Aimed)
    BY KnownAreCounted
  <2>3. /\ IsFiniteSet(Stale) /\ Cardinality(Stale) \in Nat
        /\ Cardinality(Live) + Cardinality(Stale) = Cardinality(records)
    <3>1. IsFiniteSet(Stale) /\ Cardinality(Stale) \in Nat
      BY <2>1, GainsNone, Stale \subseteq records
    <3>2. Live \cap Stale = {} /\ Live \cup Stale = records
      OBVIOUS
    <3> HIDE DEF Live, Stale
    <3>3. Cardinality(Live \cup Stale) = Cardinality(Live) + Cardinality(Stale) - Cardinality(Live \cap Stale)
      BY <2>2, <3>1, <3>2, FS_Union
    <3>4. Cardinality(Live \cap Stale) = 0
      BY <3>1, <3>2, FS_EmptySet
    <3>5. Cardinality(records) = Cardinality(Live \cup Stale)
      BY <3>2
    <3>6. Cardinality(records) = Cardinality(Live) + Cardinality(Stale)
      BY <2>2, <3>1, <3>3, <3>4, <3>5
    <3> QED
      BY <3>1, <3>6
  <2>4. /\ Cardinality(Astray) \in Nat
        /\ Cardinality(Aimed) + Cardinality(Astray) = Cardinality(Killers)
    <3>1. Aimed \cap Astray = {} /\ Aimed \cup Astray = Killers
      BY DEF Killers
    <3>2. IsFiniteSet(Astray) /\ Cardinality(Astray) \in Nat
      BY <2>1, <3>1, GainsNone, Astray \subseteq Killers
    <3> HIDE DEF Aimed, Astray
    <3>3. Cardinality(Aimed \cup Astray) = Cardinality(Aimed) + Cardinality(Astray) - Cardinality(Aimed \cap Astray)
      BY <2>2, <3>1, <3>2, FS_Union
    <3>4. Cardinality(Aimed \cap Astray) = 0
      BY <3>1, <3>2, FS_EmptySet
    <3>5. Cardinality(Killers) = Cardinality(Aimed \cup Astray)
      BY <3>1
    <3>6. Cardinality(Killers) = Cardinality(Aimed) + Cardinality(Astray)
      BY <2>2, <3>2, <3>3, <3>4, <3>5
    <3> QED
      BY <3>2, <3>6
  <2>5. StaleBalance
    BY DEF CInv
  <2>6. Cardinality(Stale) + Cardinality(Astray) + wrong <= faults
    <3> HIDE DEF Live, Aimed, Stale, Astray
    <3> QED
      BY <2>1, <2>2, <2>3, <2>4, <2>5 DEF StaleBalance
  <2> QED
    BY <2>6
<1> QED
  BY <1>1, DInvInit, DInvStep, CInvInit, CInvStep, PTL DEF Spec
=============================================================================
