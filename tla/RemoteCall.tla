----------------------------- MODULE RemoteCall -----------------------------
(***************************************************************************)
(* What the handlers of fsclient.c promise their callers: the server does  *)
(* what a call asks for at most once, and a call returns success only when *)
(* the server did it.  A call that returns an error, or a caller that died *)
(* in a call, may have been served or not.  Handlers that fail open        *)
(* promise nothing by a success.                                           *)
(***************************************************************************)
EXTENDS Naturals

CONSTANTS Caller, Handler, FailsOpen

VARIABLES pending,   \* caller -> the handler it is in, "none" outside
          done,      \* caller -> how often the server served the pending call
          returned   \* caller -> what its last call returned, or "crash"

vars == <<pending, done, returned>>

Init == /\ pending = [c \in Caller |-> "none"]
        /\ done = [c \in Caller |-> 0]
        /\ returned = [c \in Caller |-> "nothing"]

Start(c, h) == /\ pending[c] = "none" /\ returned[c] # "crash"
               /\ pending' = [pending EXCEPT ![c] = h]
               /\ done' = [done EXCEPT ![c] = 0]
               /\ UNCHANGED returned

Do(c) == /\ pending[c] # "none" /\ done[c] = 0
         /\ done' = [done EXCEPT ![c] = 1]
         /\ UNCHANGED <<pending, returned>>

Finish(c, verdict) == /\ pending[c] # "none"
                      /\ verdict = "ok" => done[c] = 1 \/ pending[c] \in FailsOpen
                      /\ pending' = [pending EXCEPT ![c] = "none"]
                      /\ returned' = [returned EXCEPT ![c] = verdict]
                      /\ UNCHANGED done

Die(c) == /\ returned[c] # "crash"
          /\ pending' = [pending EXCEPT ![c] = "none"]
          /\ returned' = [returned EXCEPT ![c] = "crash"]
          /\ UNCHANGED done

Next == \E c \in Caller : \/ \E h \in Handler : Start(c, h)
                          \/ Do(c)
                          \/ \E verdict \in {"ok", "error"} : Finish(c, verdict)
                          \/ Die(c)

Spec == Init /\ [][Next]_vars

=============================================================================
