----------------------------- MODULE Processes ------------------------------
(***************************************************************************)
(* Processes as fork, setsid, signal, exit, waitpid and kill of fsutils.c  *)
(* see them.  The Linux kernel is not part of the repository; each         *)
(* operator is the effect of one call.  A pid is used again once its       *)
(* process is reaped and no session has its number.                        *)
(***************************************************************************)
EXTENDS Naturals, FiniteSets

CONSTANTS Pid,
          Reaper    \* process 1: it adopts orphans and reaps them at once

ASSUME PidAssumption == Reaper \notin Pid

VARIABLE proc       \* pid -> what the kernel knows of the process

Status == {"none", "ok", "bad"}     \* bad: an exit code that is not 0, or a signal

Process == [state : {"free", "running", "zombie"}, parent : Pid \cup {Reaper},
            session : Pid \cup {Reaper},     \* its session leader
            ignore : BOOLEAN,                \* SIGCHLD is set to SIG_IGN
            pending : BOOLEAN,               \* SIGTERM is on its way
            status : Status]

Unused == [state |-> "free", parent |-> Reaper, session |-> Reaper, ignore |-> FALSE,
           pending |-> FALSE, status |-> "none"]
Launched == [Unused EXCEPT !.state = "running"]

FreePids == {p \in Pid : proc[p].state = "free" /\ \A q \in Pid : proc[q].session # p}
Running(p) == proc[p].state = "running"
Children(p) == {c \in Pid : proc[c].state # "free" /\ proc[c].parent = p}

\* The child has the session and the dispositions of its parent.
Forked(p, c) == [proc EXCEPT ![c] = [Launched EXCEPT !.parent = p, !.session = proc[p].session,
                                                     !.ignore = proc[p].ignore]]

\* A process ends: its children go to the reaper, and it stays a zombie only for
\* a parent that may ask for its status.
Exited(p, status) ==
  LET Reaped == proc[p].parent = Reaper \/ proc[proc[p].parent].ignore
      Corpse == [proc[p] EXCEPT !.state = "zombie", !.pending = FALSE, !.status = status]
  IN [q \in Pid |-> IF q = p THEN (IF Reaped THEN Unused ELSE Corpse)
                    ELSE IF proc[q].parent # p THEN proc[q]
                    ELSE IF proc[q].state = "zombie" THEN Unused
                    ELSE [proc[q] EXCEPT !.parent = Reaper]]

Reap(c) == proc' = [proc EXCEPT ![c] = Unused]
=============================================================================
