------------------------------- MODULE Daemon -------------------------------
(***************************************************************************)
(* The daemon helpers of fsutils.c among the processes that use them, and  *)
(* the record of a daemon at the registration server, from                 *)
(* UserVFSRegisterWithDaemonHandler to UserVFSUnRegisterHandler and        *)
(* kill_daemon.  A process calls a helper, and one action is one system    *)
(* call of it; between helpers the process is in the caller's code, which  *)
(* is not in the repository: it may call any helper, and it ends.  Only a  *)
(* daemon does not end, nor does it unregister another one.                *)
(***************************************************************************)
EXTENDS Processes

CONSTANT MaxFaults    \* calls that fail for no reason of their own, and crashes

ASSUME FaultAssumption == MaxFaults \in Nat

VARIABLES run,        \* pid -> where its process is in the code, and its locals
          records,    \* the daemons the server has on record
          wrong,      \* processes signalled in the place of a daemon, daemons on record aside
          faults

vars == <<proc, run, records, wrong, faults>>

\* What the server, and later kill_daemon, has of a daemon.  Whether that process
\* is gone by now is not known to either of them.
Record == [pid : Pid, gone : BOOLEAN]
NoRecord == [pid |-> Reaper, gone |-> TRUE]

Init_DaemonPc == {"setsid", "signal", "second", "detach"}
HelperPc == Init_DaemonPc \cup {"parent", "exec", "waitpid", "kill", "wait"}

\* role: a program that a user started, the copy of a caller whose execv failed,
\* a daemon, a daemon on record, or a child that is on its way to a program.
\* told and ended: what system_alternative returned, and how the program ended.
Local == [pc : HelperPc \cup {"none", "caller", "program"},
          role : {"plain", "stray", "daemon", "registered", "child"},
          child : Pid \cup {Reaper}, told : Status, ended : Status,
          target : Record \cup {NoRecord}]
Idle == [pc |-> "none", role |-> "plain", child |-> Reaper, told |-> "none",
         ended |-> "none", target |-> NoRecord]

TypeOK == /\ proc \in [Pid -> Process]
          /\ run \in [Pid -> Local]
          /\ records \subseteq Record
          /\ wrong \in Nat /\ faults \in 0..MaxFaults
          /\ \A p \in Pid : /\ run[p].pc # "none" <=> Running(p)
                            /\ run[p].pc = "waitpid" => run[p].child \in Pid
                            /\ run[p].pc = "kill" => run[p].target \in Record

Init == /\ proc = [p \in Pid |-> Unused]
        /\ run = [p \in Pid |-> Idle]
        /\ records = {} /\ wrong = 0 /\ faults = 0

Fault == faults < MaxFaults /\ faults' = faults + 1
Fails(condition) == IF condition THEN UNCHANGED faults ELSE Fault

\* A process to which SIGTERM is on its way does nothing any more.
At(p, pc) == run[p].pc = pc /\ ~proc[p].pending
Goto(p, pc) == run' = [run EXCEPT ![p].pc = pc]
Plain(p) == run[p].role \in {"plain", "stray"}

Spawn(p, pc, childPc, childRole) == \E c \in FreePids :
  /\ proc' = Forked(p, c)
  /\ run' = [run EXCEPT ![p] = [Idle EXCEPT !.pc = pc, !.role = run[p].role,
                                            !.child = IF pc = "waitpid" THEN c ELSE @],
                        ![c] = [Idle EXCEPT !.pc = childPc, !.role = childRole]]
  /\ UNCHANGED <<records, wrong, faults>>

Forget(record, p) == [record EXCEPT !.gone = @ \/ record.pid = p]
End(p, status) ==
  /\ proc' = Exited(p, status)
  /\ run' = [q \in Pid |-> IF q = p THEN Idle
               ELSE [run[q] EXCEPT !.target = Forget(@, p),
                                   !.ended = IF run[q].pc = "waitpid" /\ run[q].child = p
                                             THEN status ELSE @]]
  /\ records' = {Forget(r, p) : r \in records}
  /\ UNCHANGED wrong
-----------------------------------------------------------------------------
(* Init_Daemon and skeleton_daemon *)

Init_Daemon(p) == /\ At(p, "caller") /\ Plain(p)
                  /\ \/ Spawn(p, "parent", "setsid", "plain")
                     \/ Fails(FreePids = {}) /\ End(p, "bad")

\* Slip: the parent returns as well.
ParentReturns(p) == /\ At(p, "parent") /\ Goto(p, "caller")
                    /\ UNCHANGED <<proc, records, wrong, faults>>
Parent(p) == At(p, "parent") /\ End(p, "ok") /\ UNCHANGED faults

Setsid(p) == /\ At(p, "setsid")
             /\ \/ /\ proc' = [proc EXCEPT ![p].session = p] /\ Goto(p, "signal")
                   /\ UNCHANGED <<records, wrong, faults>>
                \/ Fault /\ End(p, "bad")

Signal(p) == /\ At(p, "signal")
             /\ proc' = [proc EXCEPT ![p].ignore = TRUE] /\ Goto(p, "second")
             /\ UNCHANGED <<records, wrong, faults>>

\* Slip: no second fork.
SecondForkLeftOut(p) == /\ At(p, "second") /\ Goto(p, "detach")
                        /\ UNCHANGED <<proc, records, wrong, faults>>
SecondFork(p) == /\ At(p, "second")
                 /\ \/ Spawn(p, "parent", "detach", "plain")
                    \/ Fails(FreePids = {}) /\ End(p, "bad")

Detach(p) == /\ At(p, "detach")
             /\ run' = [run EXCEPT ![p] = [@ EXCEPT !.pc = "caller", !.role = "daemon"]]
             /\ UNCHANGED <<proc, records, wrong, faults>>

skeleton_daemon(p) == /\ At(p, "caller") /\ Plain(p)
                      /\ \/ Spawn(p, "parent", "caller", run[p].role)
                         \/ Fails(FreePids = {}) /\ End(p, "bad")
-----------------------------------------------------------------------------
(* system_alternative *)

\* Slip: pid -1 is taken for a child.
ForkUnchecked(p) == /\ At(p, "caller")
                    /\ \/ Spawn(p, "waitpid", "exec", "child")
                       \/ /\ Fails(FreePids = {})
                          /\ run' = [run EXCEPT ![p] = [@ EXCEPT !.pc = "waitpid", !.child = Reaper]]
                          /\ UNCHANGED <<proc, records, wrong>>
system_alternative(p) == /\ At(p, "caller")
                         /\ \/ Spawn(p, "waitpid", "exec", "child")
                            \/ /\ Fails(FreePids = {})
                               /\ run' = [run EXCEPT ![p] = [@ EXCEPT !.told = "bad", !.ended = "none"]]
                               /\ UNCHANGED <<proc, records, wrong>>

\* execv returns only on failure; the child then returns into the caller's code.
Exec(p) == /\ At(p, "exec")
           /\ \/ Goto(p, "program") /\ UNCHANGED faults
              \/ /\ Fault
                 /\ run' = [run EXCEPT ![p] = [@ EXCEPT !.pc = "caller", !.role = "stray"]]
           /\ UNCHANGED <<proc, records, wrong>>

Program(p) == At(p, "program") /\ UNCHANGED faults /\ \E s \in {"ok", "bad"} : End(p, s)

Told(p, status) == run' = [run EXCEPT ![p] = [@ EXCEPT !.pc = "caller", !.child = Reaper,
                                                       !.told = status]]

\* Slips: waitpid with WNOHANG; waitpid again until it has the child.
WaitPidNoHang(p) == /\ At(p, "waitpid") /\ Told(p, "ok")
                    /\ UNCHANGED <<proc, records, wrong, faults>>
WaitPidAgain(p) == LET c == run[p].child IN
  /\ At(p, "waitpid") /\ c \in Children(p) /\ proc[c].state = "zombie"
  /\ Reap(c) /\ Told(p, proc[c].status) /\ UNCHANGED <<records, wrong, faults>>

\* Without the child waitpid fails, and the status that is returned was never set.
WaitPid(p) == LET c == run[p].child IN
  /\ At(p, "waitpid")
  /\ \/ c \in Children(p) /\ proc[c].state = "zombie" /\ Reap(c) /\ Told(p, proc[c].status)
     \/ c \notin Children(p) /\ (\E s \in {"ok", "bad"} : Told(p, s)) /\ UNCHANGED proc
  /\ UNCHANGED <<records, wrong, faults>>
-----------------------------------------------------------------------------
(* The record of a daemon, and kill_daemon *)

\* Slip: the pid on record is that of the session leader.
RegisterLeader(p) ==
  /\ At(p, "caller") /\ run[p].role = "daemon"
  /\ records' = records \cup {[pid |-> proc[p].session, gone |-> FALSE]}
  /\ run' = [run EXCEPT ![p].role = "registered"]
  /\ UNCHANGED <<proc, wrong, faults>>

\* UserVFSRegisterWithDaemonHandler; when its reply is lost, the daemon may retry.
Register(p) == /\ At(p, "caller") /\ run[p].role = "daemon"
               /\ records' = records \cup {[pid |-> p, gone |-> FALSE]}
               /\ \/ run' = [run EXCEPT ![p].role = "registered"] /\ UNCHANGED faults
                  \/ Fault /\ UNCHANGED run
               /\ UNCHANGED <<proc, wrong>>

\* UserVFSUnRegisterHandler, which learns the pid from the reply alone.
UnRegister(p) == /\ At(p, "caller") /\ Plain(p)
                 /\ \E r \in records :
                      /\ records' = records \ {r}
                      /\ \/ /\ run' = [run EXCEPT ![p] = [Idle EXCEPT !.pc = "kill", !.role = run[p].role, !.target = r]]
                            /\ UNCHANGED faults
                         \/ Fault /\ UNCHANGED run
                 /\ UNCHANGED <<proc, wrong>>

Done(p, pc) == run' = [run EXCEPT ![p] = [@ EXCEPT !.pc = pc, !.target = NoRecord]]

\* Slip: the signal is sent until there is no such process.
KillUntilGone(p) == LET q == run[p].target.pid IN
  /\ At(p, "kill")
  /\ \/ /\ Running(q)
        /\ proc' = [proc EXCEPT ![q].pending = TRUE] /\ UNCHANGED run
        /\ wrong' = wrong + (IF run[p].target.gone /\ run[q].role # "registered" THEN 1 ELSE 0)
     \/ proc[q].state = "free" /\ Done(p, "caller") /\ UNCHANGED <<proc, wrong>>
  /\ UNCHANGED <<records, faults>>

kill_daemon(p) == LET q == run[p].target.pid IN
  /\ At(p, "kill")
  /\ \/ /\ Running(q)
        /\ proc' = [proc EXCEPT ![q].pending = TRUE] /\ Done(p, "wait")
        /\ wrong' = wrong + (IF run[p].target.gone /\ run[q].role # "registered" THEN 1 ELSE 0)
        /\ UNCHANGED faults
     \/ proc[q].state = "zombie" /\ Done(p, "wait") /\ UNCHANGED <<proc, wrong, faults>>
     \/ Fails(proc[q].state = "free") /\ Done(p, "caller") /\ UNCHANGED <<proc, wrong>>
  /\ UNCHANGED records

\* wait takes any child, and fails at once where there is none: the daemon is
\* nobody's child by then.
Wait(p) == /\ At(p, "wait") /\ Goto(p, "caller")
           /\ \/ \E c \in Children(p) : proc[c].state = "zombie" /\ Reap(c)
              \/ Children(p) = {} /\ UNCHANGED proc
           /\ UNCHANGED <<records, wrong, faults>>
-----------------------------------------------------------------------------
(* What happens around them *)

Start == \E p \in FreePids : /\ proc' = [proc EXCEPT ![p] = Launched]
                             /\ run' = [run EXCEPT ![p] = [Idle EXCEPT !.pc = "caller"]]
                             /\ UNCHANGED <<records, wrong, faults>>
Return(p) == /\ At(p, "caller") /\ Plain(p) /\ UNCHANGED faults
             /\ \E s \in {"ok", "bad"} : End(p, s)
Deliver(p) == Running(p) /\ proc[p].pending /\ End(p, "bad") /\ UNCHANGED faults
Crash(p) == Running(p) /\ ~proc[p].pending /\ Fault /\ End(p, "bad")

Helper(p) == \/ Parent(p) \/ Setsid(p) \/ Signal(p) \/ SecondFork(p) \/ Detach(p)
             \/ Exec(p) \/ WaitPid(p) \/ kill_daemon(p) \/ Wait(p)
Caller(p) == \/ Init_Daemon(p) \/ skeleton_daemon(p) \/ system_alternative(p)
             \/ Register(p) \/ UnRegister(p) \/ Return(p)

Next == Start \/ \E p \in Pid : Helper(p) \/ Caller(p) \/ Program(p) \/ Deliver(p) \/ Crash(p)

Spec == Init /\ [][Next]_vars

\* The scheduler runs every process, commands end, and signals arrive.
Fairness == \A p \in Pid : WF_vars(Helper(p)) /\ WF_vars(Program(p)) /\ WF_vars(Deliver(p))
FairSpec == Spec /\ Fairness
-----------------------------------------------------------------------------
\* A process that returned from Init_Daemon can get no controlling terminal and
\* turns nobody into a waiting parent: it does not lead its session, the leader
\* is the first child, which only exits any more, and its parent is that child
\* or the reaper.  No process but these is in a session of its own.
DaemonDetached == \A p \in Pid :
  LET leader == proc[p].session
      Leaves(q) == q = Reaper \/ ~Running(q) \/ run[q].pc = "parent"
  IN /\ run[p].role \in {"daemon", "registered"} =>
          leader \notin {p, Reaper} /\ Leaves(leader) /\ Leaves(proc[p].parent) /\ proc[p].ignore
     /\ Running(p) /\ proc[p].parent # Reaper /\ ~Leaves(proc[p].parent) =>
          run[proc[p].parent].pc = "waitpid" /\ run[proc[p].parent].child = p

\* The caller's code is run by one process for each call, whichever of the forks
\* failed: a process in it whose parent has not exited is the copy that a failed
\* execv made, while its parent waits for it.
OneReturns == \A p \in Pid : run[p].pc = "caller" /\ proc[p].parent # Reaper =>
  LET q == proc[p].parent IN run[q].pc = "parent" \/ (run[p].role = "stray" /\ run[q].child = p)

\* Success of system_alternative is the success of the program, unless the caller
\* ignores SIGCHLD, as Init_Daemon makes every daemon do, or was forked by one
\* that does: then the child is reaped by the kernel, and anything is returned.
ToldSuccessIsTrue == \A p \in Pid :
  run[p].pc = "caller" /\ run[p].told = "ok" => run[p].ended = "ok" \/ proc[p].ignore

\* A daemon that was on record is on record, or has SIGTERM on its way, or a
\* process that has its pid from the server is about to send that; the others are
\* paid for by a lost reply, a refused signal, or a crash in between.
Forgotten == {p \in Pid : /\ run[p].role = "registered" /\ ~proc[p].pending
                          /\ [pid |-> p, gone |-> FALSE] \notin records
                          /\ \A q \in Pid : run[q].pc = "kill" => run[q].target # [pid |-> p, gone |-> FALSE]}
ForgottenPaidFor == Cardinality(Forgotten) <= faults

\* The server and kill_daemon know a daemon by its number alone.  A number is stale
\* only because its daemon crashed, once for each crash: the signal that it leads
\* to uses it up, unless that hits a daemon on record, whose record is stale then.
StalePaidFor == Cardinality({r \in records : r.gone})
                + Cardinality({q \in Pid : run[q].pc = "kill" /\ run[q].target.gone}) + wrong <= faults

\* Every helper returns or ends its process, though the kernel may reap the child
\* first, unless it waits for a copy of its caller that a failed execv left.
HelpersReturn == \A p \in Pid :
  run[p].pc \in HelperPc ~> run[p].pc \notin HelperPc \/ \E c \in Children(p) : run[c].role = "stray"
=============================================================================
