--------------------------- MODULE FsClientProofs ---------------------------
(***************************************************************************)
(* Proofs about FsClient for every number of callers, calls and faults.    *)
(* The inductive invariant is TypeOK with CallInv, which ties what the     *)
(* server did for a call to where the caller is in it.  The handles are    *)
(* counted against requests and faults (HInv), and QInv says how quota is  *)
(* taken in turn: one caller is between check and update, and what it      *)
(* asked for fits, or a fault has paid for it.                             *)
(***************************************************************************)
EXTENDS FsClient, Counting

CallInv ==
  \A c \in Caller :
    /\ done[c] \in {0, 1}
    /\ stage[c] \in {"build", "open", "sent"} => done[c] = 0
    /\ answer[c] = "200" => done[c] = 1
    /\ stage[c] \notin {"answered", "judge"} => answer[c] = "absent" /\ response[c].text = "empty"
    /\ stage[c] = "answered" \/ response[c].text \in {"whole", "part"} => answer[c] # "absent"
    /\ stage[c] \in {"idle", "dead"} <=> InHandler(c) = "none"
    /\ stage[c] = "dead" <=> last[c].verdict = "crash"
    /\ stage[c] \in {"sent", "answered"} => handles[c] >= 1

IInv == TypeOK /\ CallInv

-----------------------------------------------------------------------------
(* Lemmas about the replies *)

\* A handler answers with one of three verdicts, and success of any handler
\* but the quota check needs a reply with code 200 (fsclient.c).
LEMMA VerdictRange ==
  ASSUME NEW h \in Search \cup Change, NEW n, NEW reply
  PROVE  Verdict(h, n, reply) \in {"ok", "error", "crash"}
BY DEF Search, Change, Verdict, Examined, UserVFSQuotasCheckHandler,
       UserVFSQuotasUpdateHandler, UserVFSQuotasSearchHandler, UserVFSMountSearchHandler,
       UserVFSMountAndDaemonSearchHandler, UserVFSRWUniqueSearchHandler,
       UserVFSRegisterHandler, UserVFSRegisterWithDaemonHandler, UserVFSUnRegisterHandler,
       UserVFSLiveProbesHandler, UserNFSMountPointRegisterHandler,
       UserNFSMountPointSearchHandler, UserVFSMountStatusSearchHandler,
       UserVFSQuotaRevertHandler

Known(reply) == /\ reply.json \in {"none", "scalar", "object"}
                /\ reply.code \in {"absent", "refused", "200"}
                /\ reply.error \in BOOLEAN

LEMMA OkNeeds200 ==
  ASSUME NEW h \in Search \cup Change, h # "QuotasCheck", NEW n, NEW reply, Known(reply),
         Verdict(h, n, reply) = "ok"
  PROVE  reply.json = "object" /\ reply.code = "200" /\ reply.error
BY DEF Known, Search, Change, Verdict, Examined,
       UserVFSQuotasUpdateHandler, UserVFSQuotasSearchHandler, UserVFSMountSearchHandler,
       UserVFSMountAndDaemonSearchHandler, UserVFSRWUniqueSearchHandler,
       UserVFSRegisterHandler, UserVFSRegisterWithDaemonHandler, UserVFSUnRegisterHandler,
       UserVFSLiveProbesHandler, UserNFSMountPointRegisterHandler,
       UserNFSMountPointSearchHandler, UserVFSMountStatusSearchHandler,
       UserVFSQuotaRevertHandler

\* A reply is judged with a verdict, and one with code 200 and an error
\* member only when the server served the call.
LEMMA JudgeVerdict ==
  ASSUME IInv, NEW c \in Caller, Judge(c)
  PROVE  \E verdict \in {"ok", "error", "crash"} :
           /\ IF verdict = "crash" THEN Crashes(c) ELSE Returns(c, verdict)
           /\ verdict = "ok" /\ InHandler(c) # "QuotasCheck" => done[c] = 1
<1> DEFINE V(reply) == Verdict(InHandler(c), call[c].quota_size, reply)
<1>1. PICK reply : /\ JudgeAs(c, reply)
                   /\ Known(reply)
                   /\ reply.code = "200" /\ reply.error => answer[c] = "200"
  <2>1. \A reply \in {Nothing} \cup Tails \cup Odd :
          Known(reply) /\ ~(reply.code = "200" /\ reply.error)
    <3> DEFINE Improper(reply) == Known(reply) /\ ~(reply.code = "200" /\ reply.error)
    <3>1. Improper(Nothing) /\ Improper(Other("scalar"))
      BY DEF Nothing, Other, Known
    <3>2. \A error \in BOOLEAN : Improper(Object("absent", error, FALSE, "absent", 0))
      BY DEF Object, Known
    <3>3. Improper(Object("200", FALSE, FALSE, "absent", 0))
      BY DEF Object, Known
    <3> HIDE DEF Improper
    <3>4. \A reply \in {Nothing} \cup Tails \cup Odd : Improper(reply)
      BY <3>1, <3>2, <3>3 DEF Tails, Odd
    <3>5. QED BY <3>4 DEF Improper
  <2>2. Known(Refusal) /\ Refusal.code # "200"
    BY DEF Refusal, Object, Known
  <2>3. \A total \in BOOLEAN, spec \in ReplySpec : Known(Object("200", TRUE, total, spec, reported[c]))
    BY DEF Object, Known
  <2>4. QED BY <2>1, <2>2, <2>3 DEF Judge
<1>2. InHandler(c) \in Search \cup Change
  BY ClientAssumption DEF IInv, TypeOK, CallInv, Judge, InHandler
<1>3. V(reply) \in {"ok", "error", "crash"}
  BY <1>2, VerdictRange
<1>4. V(reply) = "ok" /\ InHandler(c) # "QuotasCheck" => done[c] = 1
  BY <1>1, <1>2, OkNeeds200 DEF IInv, CallInv
<1>5. IF V(reply) = "crash" THEN Crashes(c) ELSE Returns(c, V(reply))
  BY <1>1 DEF JudgeAs
<1>6. QED BY <1>3, <1>4, <1>5

-----------------------------------------------------------------------------
(* The inductive invariant *)

LEMMA FaultType ==
  ASSUME TypeOK, Fault \/ UNCHANGED faults
  PROVE  faults' \in 0..MaxFaults
BY ClientAssumption DEF TypeOK, Fault

LEMMA ZeroSize == 0 \in QuotaSize /\ QuotaSize \subseteq Int /\ "none" \notin Handler
BY ClientAssumption DEF Search, Change

\* Leaving a call, in whatever way, resets what CallInv speaks of.
LEMMA LeaveStep ==
  ASSUME IInv, NEW c \in Caller, faults' \in 0..MaxFaults,
         NEW verdict \in {"ok", "error", "crash"},
         IF verdict = "crash" THEN Crashes(c) ELSE Returns(c, verdict) /\ stage[c] # "dead"
  PROVE  IInv'
<1> USE DEF InHandler, Goto
<1> DEFINE s == IF verdict = "crash" THEN "dead" ELSE "idle"
<1>1. /\ Leave(c, verdict, s)
      /\ handles' = handles \/ handles' = [handles EXCEPT ![c] = 0]
  BY DEF Crashes, Returns
<1>2. call[c].handler \in Handler \cup {"none"} /\ call[c].quota_size \in QuotaSize
  BY DEF IInv, TypeOK
<1>3. TypeOK'
  <2>1. call' \in [Caller -> [handler : Handler \cup {"none"}, quota_size : QuotaSize]]
    BY <1>1, ZeroSize DEF IInv, TypeOK, Leave, NoCall
  <2>2. stage' \in [Caller -> Stage] /\ handles' \in [Caller -> Nat]
    BY <1>1 DEF IInv, TypeOK, Leave, Stage
  <2>3. /\ response' \in [Caller -> [size : Nat, len : Nat, text : Text]]
        /\ \A q \in Caller : response'[q].len < response'[q].size
    BY <1>1, ClientAssumption DEF IInv, TypeOK, Leave, Fresh, Text
  <2>4. last' \in [Caller -> [handler : Handler \cup {"none"}, quota_size : QuotaSize,
                              verdict : {"nothing", "ok", "error", "crash"}]]
    BY <1>1, <1>2 DEF IInv, TypeOK, Leave
  <2>5. /\ calls' \in [Caller -> 0..MaxCalls]
        /\ answer' \in [Caller -> {"absent", "odd", "refused", "200"}]
        /\ reported' \in [Caller -> Int]
        /\ done' \in [Caller -> Nat]
        /\ share' \in [Caller -> Int] /\ booked' \in Int
    BY <1>1 DEF IInv, TypeOK, Leave
  <2>6. QED BY <2>1, <2>2, <2>3, <2>4, <2>5 DEF TypeOK
<1>4. CallInv'
  BY <1>1 DEF IInv, TypeOK, CallInv, Leave, Fresh, NoCall, Crashes, Returns
<1>5. QED BY <1>3, <1>4 DEF IInv

LEMMA CallStep ==
  ASSUME IInv, NEW c \in Caller, NEW h \in Handler, Call(c, h)
  PROVE  IInv'
<1> USE DEF InHandler, Goto
<1>1. PICK n \in QuotaSize : call' = [call EXCEPT ![c] = [handler |-> h, quota_size |-> n]]
  <2>1. CASE h \in {"QuotasCheck", "QuotasUpdate"}
    BY <2>1, Zenon DEF Call
  <2>2. CASE h \notin {"QuotasCheck", "QuotasUpdate"}
    BY <2>2, ZeroSize, Zenon DEF Call
  <2>3. QED BY <2>1, <2>2
<1>2. /\ stage[c] = "idle" /\ calls[c] < MaxCalls
      /\ calls' = [calls EXCEPT ![c] = @ + 1]
      /\ done' = [done EXCEPT ![c] = 0]
      /\ stage' = [stage EXCEPT ![c] = "build"]
      /\ UNCHANGED <<handles, response, last, answer, reported, share, booked, faults>>
  BY DEF Call
<1>3. TypeOK'
  BY <1>1, <1>2, ClientAssumption DEF IInv, TypeOK, Stage
<1>4. CallInv'
  <2>1. /\ c \in DOMAIN call /\ c \in DOMAIN stage /\ c \in DOMAIN done
        /\ done[c] \in {0, 1} /\ h # "none"
    BY ZeroSize DEF IInv, TypeOK, CallInv
  <2>2. /\ call'[c].handler = h /\ stage'[c] = "build" /\ done'[c] = 0
        /\ answer[c] # "200" /\ response[c].text \notin {"whole", "part"}
        /\ last[c].verdict # "crash"
    BY <1>1, <1>2, <2>1 DEF IInv, CallInv
  <2>3. QED BY <1>1, <1>2, <2>1, <2>2 DEF IInv, TypeOK, CallInv
<1>5. QED BY <1>3, <1>4 DEF IInv

LEMMA BuildStep ==
  ASSUME IInv, NEW c \in Caller, Build(c)
  PROVE  IInv'
<1>0. faults' \in 0..MaxFaults
  BY FaultType DEF Build, IInv
<1>1. CASE Returns(c, "error")
  BY <1>0, <1>1, LeaveStep DEF Build
<1>2. CASE Crashes(c)
  BY <1>0, <1>2, LeaveStep DEF Build
<1>3. CASE /\ Goto(c, "open")
           /\ UNCHANGED <<call, handles, response, last, calls, serverVars, faults>>
  BY <1>3 DEF IInv, TypeOK, CallInv, Build, Goto, Stage, InHandler, serverVars
<1>4. QED BY <1>1, <1>2, <1>3 DEF Build

\* NULL in place of a response changes nothing else.
LEMMA NullStep ==
  ASSUME IInv, NEW c \in Caller, PerformFails(c), faults' \in 0..MaxFaults,
         stage[c] \notin {"idle", "dead"}
  PROVE  IInv'
<1> USE DEF PerformFails, GivesString, Goto, serverVars
<1>1. TypeOK'
  <2>1. response' \in [Caller -> [size : Nat, len : Nat, text : Text]]
    BY DEF IInv, TypeOK, Text
  <2>2. \A q \in Caller : response'[q].len < response'[q].size
    BY DEF IInv, TypeOK
  <2>3. QED BY <2>1, <2>2 DEF IInv, TypeOK, Stage
<1>2. CallInv'
  BY DEF IInv, TypeOK, CallInv, InHandler
<1>3. QED BY <1>1, <1>2 DEF IInv

LEMMA OpenStep ==
  ASSUME IInv, NEW c \in Caller, Open(c)
  PROVE  IInv'
<1>0. faults' \in 0..MaxFaults
  BY FaultType DEF Open, IInv
<1>1. CASE /\ handles' = [handles EXCEPT ![c] = @ + 1]
           /\ Goto(c, "sent")
           /\ UNCHANGED <<call, response, last, calls, serverVars, faults>>
  BY <1>1 DEF IInv, TypeOK, CallInv, Open, Goto, Stage, InHandler, serverVars
<1>2. CASE PerformFails(c)
  BY <1>0, <1>2, NullStep DEF Open
<1>3. CASE Crashes(c)
  BY <1>0, <1>3, LeaveStep DEF Open
<1>4. QED BY <1>1, <1>2, <1>3 DEF Open, PerformFails

LEMMA CallbackStep ==
  ASSUME IInv, NEW c \in Caller, fsclient_callback(c)
  PROVE  IInv'
<1>0. faults' \in 0..MaxFaults
  BY FaultType DEF fsclient_callback, Splits, IInv
<1>1. PICK realsize \in ChunkLen :
        \/ /\ response' = [response EXCEPT ![c] = Stored(c, realsize, realsize + 1)]
           /\ UNCHANGED <<call, stage, handles, last, calls, serverVars>>
        \/ PerformFails(c)
  BY DEF fsclient_callback
<1>2. CASE PerformFails(c)
  BY <1>0, <1>2, NullStep DEF fsclient_callback
<1>3. CASE /\ response' = [response EXCEPT ![c] = Stored(c, realsize, realsize + 1)]
           /\ UNCHANGED <<call, stage, handles, last, calls, serverVars>>
  <2>1. /\ Stored(c, realsize, realsize + 1) \in [size : Nat, len : Nat, text : Text]
        /\ Stored(c, realsize, realsize + 1).len < Stored(c, realsize, realsize + 1).size
    BY ClientAssumption DEF IInv, TypeOK, Stored, Grows, Text
  <2>2. TypeOK'
    BY <1>0, <1>3, <2>1 DEF IInv, TypeOK, serverVars
  <2>3. CallInv'
    BY <1>3 DEF IInv, TypeOK, CallInv, fsclient_callback, serverVars, InHandler
  <2>4. QED BY <2>2, <2>3 DEF IInv
<1>4. QED BY <1>1, <1>2, <1>3

LEMMA PerformedStep ==
  ASSUME IInv, NEW c \in Caller, Performed(c)
  PROVE  IInv'
<1>0. faults' \in 0..MaxFaults
  BY FaultType DEF Performed, IInv
<1>1. TypeOK'
  BY <1>0 DEF IInv, TypeOK, CallInv, Performed, Goto, Stage, serverVars
<1>2. CallInv'
  BY DEF IInv, TypeOK, CallInv, Performed, Goto, InHandler, serverVars
<1>3. QED BY <1>1, <1>2 DEF IInv

LEMMA ServeStep ==
  ASSUME IInv, NEW c \in Caller, Serve(c)
  PROVE  IInv'
<1>0. faults' \in 0..MaxFaults
  BY FaultType DEF Serve, IInv
<1>1. share[c] \in Int /\ ShareAfter(c) \in Int
  <2>1. call[c].quota_size \in Int
    BY ZeroSize DEF IInv, TypeOK
  <2>2. AsInt(call[c].quota_size) \in Int
    BY <2>1, QuotaAssumption DEF AsInt
  <2>3. share[c] \in Int
    BY DEF IInv, TypeOK
  <2>4. share[c] + AsInt(call[c].quota_size) \in Int
    BY <2>2, <2>3
  <2>5. ShareAfter(c) \in {share[c] + AsInt(call[c].quota_size), 0, share[c]}
    BY Zenon DEF ShareAfter
  <2>6. QED BY <2>3, <2>4, <2>5
<1>2. TypeOK'
  <2>1. /\ share' \in [Caller -> Int] /\ booked' \in Int
        /\ reported' \in [Caller -> Int]
        /\ done' \in [Caller -> Nat]
        /\ answer' \in [Caller -> {"absent", "odd", "refused", "200"}]
    <3> DEFINE total == booked + ShareAfter(c) - share[c]
    <3>1. total \in Int /\ booked \in Int
      BY <1>1 DEF IInv, TypeOK
    <3> HIDE DEF total
    <3>2. /\ share' = share \/ share' = [share EXCEPT ![c] = ShareAfter(c)]
          /\ booked' \in {booked, total}
      BY DEF Serve, total
    <3>3. share' \in [Caller -> Int] /\ booked' \in Int
      BY <1>1, <3>1, <3>2 DEF IInv, TypeOK
    <3>4. /\ done' \in [Caller -> Nat]
          /\ answer' \in [Caller -> {"absent", "odd", "refused", "200"}]
      <4>1. done' = done \/ done' = [done EXCEPT ![c] = @ + 1]
        BY DEF Serve
      <4>2. \E a \in {"odd", "refused", "200"} : answer' = [answer EXCEPT ![c] = a]
        BY DEF Serve
      <4>3. QED BY <4>1, <4>2 DEF IInv, TypeOK
    <3>5. \/ reported' = reported
          \/ \E n \in {0, booked} : reported' = [reported EXCEPT ![c] = n]
      BY DEF Serve
    <3>6. reported' \in [Caller -> Int]
      BY <3>1, <3>5 DEF IInv, TypeOK
    <3>7. QED BY <3>3, <3>4, <3>6
  <2>2. QED BY <1>0, <2>1 DEF IInv, TypeOK, Serve, Goto, Stage
<1>3. CallInv'
  BY DEF IInv, TypeOK, CallInv, Serve, Goto, InHandler
<1>4. QED BY <1>2, <1>3 DEF IInv

LEMMA JudgeStep ==
  ASSUME IInv, NEW c \in Caller, Judge(c)
  PROVE  IInv'
<1>1. stage[c] = "judge" /\ faults' \in 0..MaxFaults
  BY FaultType DEF Judge, IInv
<1>2. QED BY <1>1, JudgeVerdict, LeaveStep

LEMMA IInvStep == IInv /\ [Next]_vars => IInv'
<1> SUFFICES ASSUME IInv, [Next]_vars PROVE IInv'
  OBVIOUS
<1>1. ASSUME NEW c \in Caller, NEW h \in Handler, Call(c, h) PROVE IInv'
  BY <1>1, CallStep
<1>2. ASSUME NEW c \in Caller, Step(c) PROVE IInv'
  BY <1>2, BuildStep, OpenStep, CallbackStep, PerformedStep, JudgeStep DEF Step
<1>3. ASSUME NEW c \in Caller, Serve(c) PROVE IInv'
  BY <1>3, ServeStep
<1>4. ASSUME NEW c \in Caller, Disconnect(c) PROVE IInv'
  BY <1>4, FaultType, NullStep DEF Disconnect, IInv
<1>5. ASSUME NEW c \in Caller, Kill(c) PROVE IInv'
  BY <1>5, FaultType, LeaveStep DEF Kill, IInv
<1>6. CASE UNCHANGED vars
  BY <1>6 DEF IInv, TypeOK, CallInv, InHandler, vars, clientVars, serverVars
<1>7. QED BY <1>1, <1>2, <1>3, <1>4, <1>5, <1>6 DEF Next, World, AllDone

\* The state of any number of callers stays well typed; in particular every
\* chunk fits the response buffer with its terminator, over any sequence of
\* chunk lengths (fsclient_callback).
THEOREM ClientTypeCorrect == Spec => []TypeOK
<1>1. Init => IInv
  BY ClientAssumption, ZeroSize
  DEF Init, IInv, TypeOK, CallInv, InHandler, NoCall, Fresh, Stage, Text
<1>2. IInv => TypeOK
  BY DEF IInv
<1>3. QED BY <1>1, <1>2, IInvStep, PTL DEF Spec

LEMMA ClientInvariant == Spec => []IInv
<1>1. Init => IInv
  BY ClientAssumption, ZeroSize
  DEF Init, IInv, TypeOK, CallInv, InHandler, NoCall, Fresh, Stage, Text
<1>2. QED BY <1>1, IInvStep, PTL DEF Spec

-----------------------------------------------------------------------------
(* The handlers implement RemoteCall *)

pend == [q \in Caller |-> call[q].handler]
retd == [q \in Caller |-> last[q].verdict]

\* Leaving a call is Finish or Die of the abstract caller.
LEMMA LeaveMaps ==
  ASSUME IInv, NEW c \in Caller, NEW verdict \in {"ok", "error", "crash"},
         IF verdict = "crash" THEN Crashes(c) ELSE Returns(c, verdict),
         stage[c] # "dead", verdict # "crash" => stage[c] # "idle",
         verdict = "ok" /\ InHandler(c) # "QuotasCheck" => done[c] = 1
  PROVE  Remote!Next
<1>1. Leave(c, verdict, IF verdict = "crash" THEN "dead" ELSE "idle")
  BY DEF Crashes, Returns
<1>2. pend' = [pend EXCEPT ![c] = "none"]
  BY <1>1 DEF pend, Leave, NoCall, IInv, TypeOK
<1>3. retd' = [retd EXCEPT ![c] = verdict]
  BY <1>1 DEF retd, Leave, IInv, TypeOK
<1>4. done' = done
  BY <1>1 DEF Leave
<1>5. /\ pend[c] = InHandler(c) /\ retd[c] # "crash"
      /\ verdict # "crash" => pend[c] # "none"
  BY DEF pend, retd, IInv, CallInv, InHandler
<1>6. CASE verdict = "crash"
  <2>1. Remote!Die(c)
    BY <1>2, <1>3, <1>4, <1>5, <1>6 DEF Remote!Die, pend, retd
  <2>2. QED BY <2>1 DEF Remote!Next
<1>7. CASE verdict \in {"ok", "error"}
  <2>1. Remote!Finish(c, verdict)
    BY <1>2, <1>3, <1>4, <1>5, <1>7 DEF Remote!Finish, pend, retd
  <2>2. QED BY <2>1, <1>7 DEF Remote!Next
<1>8. QED BY <1>6, <1>7

\* The actions that neither start nor leave a call, and serve nothing.
LEMMA QuietMaps ==
  ASSUME UNCHANGED <<call, last, done>>
  PROVE  UNCHANGED Remote!vars
BY DEF Remote!vars

LEMMA CallMaps ==
  ASSUME IInv, NEW c \in Caller, NEW h \in Handler, Call(c, h)
  PROVE  Remote!Next
<1>1. PICK n : call' = [call EXCEPT ![c] = [handler |-> h, quota_size |-> n]]
  BY Zenon DEF Call
<1>2. pend' = [pend EXCEPT ![c] = h] /\ retd' = retd
  BY <1>1 DEF pend, retd, Call, IInv, TypeOK
<1>3. pend[c] = "none" /\ retd[c] # "crash" /\ done' = [done EXCEPT ![c] = 0]
  BY DEF pend, retd, Call, IInv, CallInv, InHandler
<1>4. Remote!Start(c, h)
  BY <1>2, <1>3 DEF Remote!Start, pend, retd
<1>5. QED BY <1>4 DEF Remote!Next

LEMMA ServeMaps ==
  ASSUME IInv, NEW c \in Caller, Serve(c)
  PROVE  [Remote!Next]_(Remote!vars)
<1>1. stage[c] = "sent" /\ UNCHANGED <<call, last>>
  BY DEF Serve
<1>2. done' = done \/ done' = [done EXCEPT ![c] = @ + 1]
  BY DEF Serve
<1>3. CASE done' = done
  BY <1>1, <1>3, QuietMaps
<1>4. CASE done' = [done EXCEPT ![c] = @ + 1]
  <2>1. /\ pend[c] # "none" /\ done[c] = 0 
        /\ done' = [done EXCEPT ![c] = 1]
    <3>1. done[c] = 0
      BY <1>1 DEF IInv, CallInv, InHandler
    <3>2. call[c].handler # "none"
      BY <1>1 DEF IInv, CallInv, InHandler, TypeOK
    <3>3. pend[c] # "none"
      BY <3>2 DEF pend
    <3>4. QED BY <3>1, <3>3, <1>4
  <2>2. pend' = pend /\ retd' = retd
    BY <1>1 DEF pend, retd
  <2>3. Remote!Do(c)
    BY <2>1, <2>2 DEF Remote!Do, pend, retd
  <2>4. QED BY <2>3 DEF Remote!Next
<1>5. QED BY <1>2, <1>3, <1>4

LEMMA RemoteStep ==
  ASSUME IInv, [Next]_vars
  PROVE  [Remote!Next]_(Remote!vars)
<1>1. ASSUME NEW c \in Caller, NEW h \in Handler, Call(c, h) PROVE Remote!Next
  BY <1>1, CallMaps
<1>2. ASSUME NEW c \in Caller, Step(c) PROVE [Remote!Next]_(Remote!vars)
  <2>1. CASE Build(c)
    <3>1. CASE Returns(c, "error")
      BY <2>1, <3>1, LeaveMaps DEF Build
    <3>2. CASE Crashes(c)
      BY <2>1, <3>2, LeaveMaps DEF Build
    <3>3. CASE UNCHANGED <<call, last, done>>
      BY <3>3, QuietMaps
    <3>4. QED BY <2>1, <3>1, <3>2, <3>3 DEF Build, serverVars
  <2>2. CASE Open(c)
    <3>1. CASE Crashes(c)
      BY <2>2, <3>1, LeaveMaps DEF Open
    <3>2. CASE UNCHANGED <<call, last, done>>
      BY <3>2, QuietMaps
    <3>3. QED BY <2>2, <3>1, <3>2 DEF Open, serverVars
  <2>3. CASE fsclient_callback(c)
    BY <2>3, QuietMaps DEF fsclient_callback, PerformFails, serverVars
  <2>4. CASE Performed(c)
    BY <2>4, QuietMaps DEF Performed, serverVars
  <2>5. CASE Judge(c)
    <3>1. stage[c] = "judge"
      BY <2>5 DEF Judge
    <3>2. QED BY <2>5, <3>1, JudgeVerdict, LeaveMaps
  <2>6. QED BY <1>2, <2>1, <2>2, <2>3, <2>4, <2>5 DEF Step
<1>3. ASSUME NEW c \in Caller, World(c) PROVE [Remote!Next]_(Remote!vars)
  <2>1. CASE Serve(c)
    BY <2>1, ServeMaps
  <2>2. CASE Disconnect(c)
    BY <2>2, QuietMaps DEF Disconnect, PerformFails, serverVars
  <2>3. CASE Kill(c)
    BY <2>3, LeaveMaps DEF Kill
  <2>4. QED BY <1>3, <2>1, <2>2, <2>3 DEF World
<1>4. CASE UNCHANGED vars
  BY <1>4, QuietMaps DEF vars, clientVars, serverVars
<1>5. QED BY <1>1, <1>2, <1>3, <1>4 DEF Next, AllDone

\* For any number of callers, whatever is lost, split, refused or killed: no
\* call is served twice, and no handler but the quota check reports success
\* for a call that was not served (fsEasyClient, fsclient.c).
THEOREM CallsServedOnce == Spec => ImplementsRemoteCall
<1>1. Init => Remote!Init
  BY DEF Init, Remote!Init, NoCall
<1>2. QED BY <1>1, RemoteStep, ClientInvariant, PTL DEF Spec, ImplementsRemoteCall, Remote!Spec

-----------------------------------------------------------------------------
(* The handles are paid for *)

\* What is counted is finite at any time, however many callers there are.
HInv == IsFiniteSet(OpenHandles) /\ IsFiniteSet(Requesting) /\ HandlesPaidFor

LEMMA OpenHandle ==
  ASSUME NEW c, NEW n
  PROVE  <<c, n>> \in OpenHandles <=> c \in Caller /\ n \in 1..handles[c]
BY DEF OpenHandles

\* Handles are not opened, and the requests under way stay or a fault pays for c.
LEMMA FewerHandles ==
  ASSUME TypeOK, HInv, NEW c \in Caller, \A d \in Caller : handles'[d] <= handles[d],
         handles' \in [Caller -> Nat],
         \/ Requesting' = Requesting /\ faults' >= faults
         \/ Requesting' = Requesting \ {c} /\ Fault,
         faults' \in Nat
  PROVE  HInv'
<1>1. OpenHandles' \subseteq OpenHandles
  <2> SUFFICES ASSUME NEW d \in Caller, NEW n \in 1..handles'[d]
               PROVE  <<d, n>> \in OpenHandles
    BY DEF OpenHandles
  <2>1. handles'[d] <= handles[d] /\ handles[d] \in Nat /\ handles'[d] \in Nat
    BY DEF TypeOK
  <2>2. n \in 1..handles[d]
    BY <2>1
  <2> QED
    BY <2>2, OpenHandle
<1>2. /\ IsFiniteSet(OpenHandles') /\ Cardinality(OpenHandles') <= Cardinality(OpenHandles)
      /\ Cardinality(OpenHandles') \in Nat /\ Cardinality(OpenHandles) \in Nat
  BY <1>1, GainsNone DEF HInv
<1>3. /\ IsFiniteSet(Requesting \ {c})
      /\ Cardinality(Requesting \ {c}) \in Nat /\ Cardinality(Requesting) \in Nat
      /\ Cardinality(Requesting \ {c}) >= Cardinality(Requesting) - 1
  BY LosesAtMostOne DEF HInv
<1>4. faults \in Nat /\ Cardinality(OpenHandles) <= Cardinality(Requesting) + faults
  BY ClientAssumption DEF TypeOK, HInv, HandlesPaidFor
<1>5. CASE Requesting' = Requesting /\ faults' >= faults
  BY <1>2, <1>3, <1>4, <1>5 DEF HInv, HandlesPaidFor
<1>6. CASE Requesting' = Requesting \ {c} /\ Fault
  BY <1>2, <1>3, <1>4, <1>6 DEF HInv, HandlesPaidFor, Fault
<1> QED
  BY <1>5, <1>6

LEMMA OneMoreHandle ==
  ASSUME TypeOK, HInv, NEW c \in Caller, handles' = [handles EXCEPT ![c] = @ + 1],
         Requesting' = Requesting \cup {c}, c \notin Requesting, UNCHANGED faults
  PROVE  HInv'
<1>1. OpenHandles' = OpenHandles \cup {<<c, handles[c] + 1>>}
  <2>1. \A d \in Caller : handles[d] \in Nat
    BY DEF TypeOK
  <2>2. \A d \in Caller : handles'[d] = IF d = c THEN handles[c] + 1 ELSE handles[d]
    BY DEF TypeOK
  <2>3. ASSUME NEW x \in OpenHandles' PROVE x \in OpenHandles \cup {<<c, handles[c] + 1>>}
    <3>0. PICK d \in Caller : \E k \in 1..handles'[d] : x = <<d, k>>
      BY <2>3 DEF OpenHandles
    <3>1. PICK n \in 1..handles'[d] : x = <<d, n>>
      BY <3>0
    <3>2. n \in 1..handles[d] \/ (d = c /\ n = handles[c] + 1)
      BY <2>1, <2>2, <3>1
    <3> QED
      BY <3>1, <3>2, OpenHandle
  <2>4. ASSUME NEW x \in OpenHandles PROVE x \in OpenHandles'
    <3>0. PICK d \in Caller : \E k \in 1..handles[d] : x = <<d, k>>
      BY <2>4 DEF OpenHandles
    <3>1. PICK n \in 1..handles[d] : x = <<d, n>>
      BY <3>0
    <3>2. n \in 1..handles'[d]
      BY <2>1, <2>2, <3>1
    <3> QED
      BY <3>1, <3>2 DEF OpenHandles
  <2>5. <<c, handles[c] + 1>> \in OpenHandles'
    <3>1. handles[c] + 1 \in 1..handles'[c]
      BY <2>1, <2>2
    <3> QED
      BY <3>1 DEF OpenHandles
  <2> QED
    BY <2>3, <2>4, <2>5
<1>2. /\ IsFiniteSet(OpenHandles') /\ Cardinality(OpenHandles') <= Cardinality(OpenHandles) + 1
      /\ Cardinality(OpenHandles') \in Nat /\ Cardinality(OpenHandles) \in Nat
  <2>1. OpenHandles' \subseteq OpenHandles \cup {<<c, handles[c] + 1>>}
    BY <1>1
  <2> QED
    BY <2>1, GainsAtMostOne DEF HInv
<1>3. /\ IsFiniteSet(Requesting') /\ Cardinality(Requesting') = Cardinality(Requesting) + 1
      /\ Cardinality(Requesting) \in Nat
  BY GainsOne DEF HInv
<1> QED
  BY <1>2, <1>3, ClientAssumption DEF HInv, HandlesPaidFor, TypeOK

LEMMA OneHandleLess ==
  ASSUME TypeOK, HInv, NEW c \in Caller, handles' = [handles EXCEPT ![c] = @ - 1],
         handles[c] >= 1, Requesting' = Requesting \ {c}, faults' \in Nat, faults' >= faults
  PROVE  HInv'
<1>1. OpenHandles' \subseteq OpenHandles \ {<<c, handles[c]>>}
  <2> SUFFICES ASSUME NEW d \in Caller, NEW n \in 1..handles'[d]
               PROVE  <<d, n>> \in OpenHandles /\ <<d, n>> # <<c, handles[c]>>
    BY DEF OpenHandles
  <2>1. handles[d] \in Nat /\ handles'[d] = IF d = c THEN handles[c] - 1 ELSE handles[d]
    BY DEF TypeOK
  <2>2. n \in 1..handles[d] /\ ~(d = c /\ n = handles[c])
    BY <2>1
  <2> QED
    BY <2>2, OpenHandle
<1>2. <<c, handles[c]>> \in OpenHandles
  BY OpenHandle DEF TypeOK
<1>3. /\ IsFiniteSet(OpenHandles') /\ Cardinality(OpenHandles') <= Cardinality(OpenHandles) - 1
      /\ Cardinality(OpenHandles') \in Nat /\ Cardinality(OpenHandles) \in Nat
  BY <1>1, <1>2, LosesOne DEF HInv
<1>4. /\ IsFiniteSet(Requesting') /\ Cardinality(Requesting') >= Cardinality(Requesting) - 1
      /\ Cardinality(Requesting) \in Nat /\ Cardinality(Requesting') \in Nat
  BY LosesAtMostOne DEF HInv
<1> QED
  BY <1>3, <1>4, ClientAssumption DEF HInv, HandlesPaidFor, TypeOK

\* A call is left: the crash of the process closes what it had open.
LEMMA LeaveHandles ==
  ASSUME IInv, HInv, NEW c \in Caller, Fault \/ UNCHANGED faults,
         c \in Requesting => Fault,
         (\E verdict : Returns(c, verdict)) \/ Crashes(c)
  PROVE  HInv'
<1>1. PICK s \in {"idle", "dead"} : stage' = [stage EXCEPT ![c] = s]
  BY DEF Returns, Crashes, Leave, Goto
<1>2. Requesting' = Requesting \ {c}
  BY <1>1 DEF Requesting, IInv, TypeOK
<1>3. handles' = handles \/ handles' = [handles EXCEPT ![c] = 0]
  BY DEF Returns, Crashes
<1>4. handles' \in [Caller -> Nat] /\ \A d \in Caller : handles'[d] <= handles[d]
  <2>1. handles \in [Caller -> Nat] /\ \A d \in Caller : handles[d] \in Nat
    BY DEF IInv, TypeOK
  <2>2. \A d \in Caller : handles'[d] \in {0, handles[d]}
    BY <1>3, <2>1
  <2> QED
    BY <1>3, <2>1, <2>2
<1>5. faults \in Nat /\ faults' \in Nat /\ faults' >= faults
  BY ClientAssumption DEF IInv, TypeOK, Fault
<1>6. c \notin Requesting => Requesting' = Requesting
  BY <1>2
<1> QED
  BY <1>2, <1>4, <1>5, <1>6, FewerHandles DEF IInv

LEMMA HandlesStep ==
  ASSUME IInv, HInv, [Next]_vars
  PROVE  HInv'
<1>0. faults \in Nat /\ (Fault => faults' \in Nat /\ faults' >= faults)
  BY ClientAssumption DEF IInv, TypeOK, Fault
<1>1. ASSUME NEW c \in Caller, NEW h \in Handler, Call(c, h) PROVE HInv'
  <2>1. Requesting' = Requesting /\ UNCHANGED <<handles, faults>>
    BY <1>1 DEF Call, Goto, Requesting, IInv, TypeOK
  <2> QED
    BY <1>0, <2>1, FewerHandles DEF IInv, TypeOK
<1>2. ASSUME NEW c \in Caller, Build(c) PROVE HInv'
  <2>1. CASE Goto(c, "open") /\ UNCHANGED <<handles, faults>>
    <3>1. Requesting' = Requesting
      BY <1>2, <2>1 DEF Build, Goto, Requesting, IInv, TypeOK
    <3> QED
      BY <1>0, <2>1, <3>1, FewerHandles DEF IInv, TypeOK
  <2>2. CASE Returns(c, "error") \/ Crashes(c)
    <3>1. c \notin Requesting
      BY <1>2 DEF Build, Requesting
    <3> QED
      BY <1>2, <2>2, <3>1, LeaveHandles DEF Build
  <2> QED
    BY <1>2, <2>1, <2>2 DEF Build
<1>3. ASSUME NEW c \in Caller, PerformFails(c), Fault PROVE HInv'
  <2>1. Requesting' = Requesting \ {c} /\ handles' = handles
    BY <1>3 DEF PerformFails, GivesString, Goto, Requesting, IInv, TypeOK
  <2> QED
    BY <1>0, <1>3, <2>1, FewerHandles DEF IInv, TypeOK
<1>4. ASSUME NEW c \in Caller, Open(c) PROVE HInv'
  <2>1. CASE /\ handles' = [handles EXCEPT ![c] = @ + 1] /\ Goto(c, "sent") /\ UNCHANGED faults
    <3>1. Requesting' = Requesting \cup {c} /\ c \notin Requesting
      BY <1>4, <2>1 DEF Open, Goto, Requesting, IInv, TypeOK
    <3> QED
      BY <2>1, <3>1, OneMoreHandle DEF IInv
  <2>2. CASE Fault /\ PerformFails(c)
    BY <1>3, <2>2
  <2>3. CASE Fault /\ Crashes(c)
    BY <2>3, LeaveHandles
  <2> QED
    BY <1>4, <2>1, <2>2, <2>3 DEF Open, PerformFails
<1>5. ASSUME NEW c \in Caller, fsclient_callback(c) PROVE HInv'
  <2>1. CASE UNCHANGED <<stage, handles>> /\ (Fault \/ UNCHANGED faults)
    <3>1. Requesting' = Requesting
      BY <2>1 DEF Requesting
    <3> QED
      BY <1>0, <2>1, <3>1, FewerHandles DEF IInv, TypeOK
  <2>2. CASE Fault /\ PerformFails(c)
    BY <1>3, <2>2
  <2> QED
    BY <1>5, <2>1, <2>2 DEF fsclient_callback, Splits
<1>6. ASSUME NEW c \in Caller, Performed(c) PROVE HInv'
  <2>1. /\ Requesting' = Requesting \ {c} /\ handles' = [handles EXCEPT ![c] = @ - 1]
        /\ handles[c] >= 1 /\ faults' \in Nat /\ faults' >= faults
    BY <1>0, <1>6 DEF Performed, Goto, Requesting, IInv, TypeOK, CallInv
  <2> QED
    BY <1>0, <2>1, OneHandleLess DEF IInv
<1>7. ASSUME NEW c \in Caller, Judge(c) PROVE HInv'
  <2>1. c \notin Requesting /\ UNCHANGED faults
    BY <1>7 DEF Judge, Requesting
  <2>2. (\E verdict : Returns(c, verdict)) \/ Crashes(c)
    BY <1>7, JudgeVerdict
  <2> QED
    BY <2>1, <2>2, LeaveHandles
<1>8. ASSUME NEW c \in Caller, Serve(c) PROVE HInv'
  <2>1. Requesting' = Requesting /\ handles' = handles /\ (Fault \/ UNCHANGED faults)
    BY <1>8 DEF Serve, Goto, Requesting, IInv, TypeOK
  <2> QED
    BY <1>0, <2>1, FewerHandles DEF IInv, TypeOK
<1>9. ASSUME NEW c \in Caller, Kill(c) PROVE HInv'
  BY <1>9, LeaveHandles DEF Kill
<1>10. CASE UNCHANGED vars
  <2>1. OpenHandles' = OpenHandles /\ Requesting' = Requesting /\ faults' = faults
    BY <1>10 DEF OpenHandles, Requesting, vars, clientVars
  <2> QED
    BY <2>1 DEF HInv, HandlesPaidFor
<1> QED
  BY <1>1, <1>2, <1>3, <1>4, <1>5, <1>6, <1>7, <1>8, <1>9, <1>10
  DEF Next, Step, World, Disconnect, AllDone

\* However many processes make however many requests, there are no more easy
\* handles than requests under way and faults: one leaks only where a request
\* failed (fsEasyClient).
THEOREM HandlesArePaidFor == Spec => []HandlesPaidFor
<1>1. Init => HInv
  <2> SUFFICES ASSUME Init PROVE HInv
    OBVIOUS
  <2>1. OpenHandles = {} /\ Requesting = {} /\ faults = 0
    BY DEF Init, OpenHandles, Requesting
  <2> QED
    BY <2>1, FS_EmptySet DEF HInv, HandlesPaidFor
<1>2. IInv /\ HInv /\ [Next]_vars => HInv'
  BY HandlesStep
<1>3. HInv => HandlesPaidFor
  BY DEF HInv
<1> QED
  BY <1>1, <1>2, <1>3, ClientInvariant, PTL DEF Spec

-----------------------------------------------------------------------------
(* Quota that is taken in turn *)

\* What the theorem needs of the constants: no size is negative as an int, and no
\* sum that the quota check computes leaves the range of an int.
QuotaFits == /\ Limit # 0 /\ MaxAsked \in Nat
             /\ \A n \in QuotaSize : AsInt(n) \in 0..MaxAsked
             /\ Limit + MaxFaults * MaxAsked + MaxAsked <= IntMod \div 2

Bound == Limit + faults * MaxAsked
Room(n) == booked + AsInt(n) < Bound
Granted(c) == last[c].handler = "QuotasCheck" /\ last[c].verdict = "ok" /\ stage[c] # "dead"

\* Nothing went wrong in this call so far.
Proper(c) == \/ stage[c] \in {"build", "open", "sent"}
             \/ /\ answer[c] \in {"refused", "200"}
                /\ \/ stage[c] = "answered" /\ response[c].text \in {"empty", "whole"}
                   \/ stage[c] = "judge" /\ response[c].text = "whole"

Turn(c) ==
  /\ share[c] >= 0
  /\ InHandler(c) = "QuotasUpdate" => Granted(c) /\ call[c].quota_size = last[c].quota_size
  /\ Granted(c) /\ ~(InHandler(c) = "QuotasUpdate" /\ done[c] = 1) => Room(last[c].quota_size)
  /\ InHandler(c) = "QuotasCheck" =>
       /\ answer[c] = "200" => booked <= reported[c] /\ reported[c] < Bound
       /\ Proper(c) \/ Room(call[c].quota_size)

QInv == /\ booked < Bound
        /\ \A c, d \in Caller : Holds(c) /\ Holds(d) => c = d
        /\ \A c \in Caller : Turn(c)

-----------------------------------------------------------------------------
(* The bound *)

LEMMA BoundType ==
  ASSUME QuotaFits, TypeOK
  PROVE  Bound \in Int /\ Bound >= Limit /\ booked \in Int
         /\ Bound + MaxAsked <= IntMod \div 2
<1>1. faults \in Nat /\ MaxFaults \in Nat /\ faults <= MaxFaults /\ MaxAsked \in Nat /\ Limit \in Nat
  BY ClientAssumption, QuotaAssumption DEF TypeOK, QuotaFits
<1> DEFINE paid == faults * MaxAsked
           most == MaxFaults * MaxAsked
<1>2. paid \in Nat /\ most \in Nat /\ paid <= most
  BY <1>1
<1>3. IntMod \div 2 \in Int
  BY QuotaAssumption
<1>4. Bound = Limit + paid /\ Limit + most + MaxAsked <= IntMod \div 2
  BY DEF Bound, QuotaFits
<1>5. booked \in Int
  BY DEF TypeOK
<1> HIDE DEF paid, most
<1> QED
  BY <1>1, <1>2, <1>3, <1>4, <1>5

\* A fault makes room for one more request.
LEMMA BoundStep ==
  ASSUME QuotaFits, TypeOK, Fault \/ UNCHANGED faults
  PROVE  /\ Bound' \in Int /\ Bound' >= Bound
         /\ Fault => Bound' = Bound + MaxAsked
<1>1. faults \in Nat /\ MaxAsked \in Nat /\ Limit \in Nat
  BY ClientAssumption, QuotaAssumption DEF TypeOK, QuotaFits
<1>2. faults * MaxAsked \in Nat /\ (faults + 1) * MaxAsked = faults * MaxAsked + MaxAsked
  BY <1>1
<1>3. CASE Fault
  <2>1. Bound' = Limit + (faults + 1) * MaxAsked
    BY <1>3 DEF Bound, Fault, MaxAsked
  <2> QED
    BY <1>1, <1>2, <2>1 DEF Bound
<1>4. CASE UNCHANGED faults
  <2>1. Bound' = Bound
    BY <1>4 DEF Bound, MaxAsked
  <2>2. Fault => FALSE
    BY <1>1, <1>4 DEF Fault
  <2> QED
    BY <1>1, <1>2, <2>1, <2>2 DEF Bound
<1> QED
  BY <1>3, <1>4

LEMMA RoomStep ==
  ASSUME QuotaFits, TypeOK, booked < Bound, booked' \in Int, booked' <= booked,
         Fault \/ UNCHANGED faults
  PROVE  /\ booked' < Bound'
         /\ \A n \in QuotaSize : Room(n) => Room(n)'
         /\ Fault => \A n \in QuotaSize : Room(n)'
<1>1. /\ Bound \in Int /\ Bound' \in Int /\ Bound' >= Bound /\ booked \in Int
      /\ Fault => Bound' = Bound + MaxAsked
  BY BoundType, BoundStep
<1>2. booked' < Bound'
  BY <1>1
<1>3. ASSUME NEW n \in QuotaSize
      PROVE  (Room(n) => Room(n)') /\ (Fault => Room(n)')
  <2>1. AsInt(n) \in Int /\ AsInt(n) <= MaxAsked /\ MaxAsked \in Nat
    BY DEF QuotaFits
  <2>2. Room(n)' <=> booked' + AsInt(n) < Bound'
    BY DEF Room, AsInt
  <2> QED
    BY <1>1, <2>1, <2>2 DEF Room
<1> QED
  BY <1>2, <1>3

\* A caller that does nothing keeps its turn while less or as much is booked.
LEMMA TurnKept ==
  ASSUME QuotaFits, TypeOK, QInv, NEW d \in Caller,
         booked' \in Int, booked' <= booked, Fault \/ UNCHANGED faults,
         share'[d] = share[d], call'[d] = call[d], last'[d] = last[d], stage'[d] = stage[d],
         done'[d] = done[d], answer'[d] = answer[d], reported'[d] = reported[d],
         response'[d] = response[d]
  PROVE  Turn(d)'
<1>1. Turn(d) /\ call[d].quota_size \in QuotaSize /\ last[d].quota_size \in QuotaSize
      /\ reported[d] \in Int
  BY DEF QInv, TypeOK
<1>2. /\ Room(call[d].quota_size) => Room(call[d].quota_size)'
      /\ Room(last[d].quota_size) => Room(last[d].quota_size)'
  <2>1. \A n \in QuotaSize : Room(n) => Room(n)'
    BY RoomStep DEF QInv
  <2>2. \A n \in QuotaSize : Room(n)' <=> booked' + AsInt(n) < Bound'
    BY DEF Room, AsInt
  <2> QED
    BY <1>1, <2>1, <2>2 DEF Room, AsInt
<1>3. Bound' >= Bound /\ Bound \in Int /\ Bound' \in Int /\ booked \in Int
  BY BoundType, BoundStep
<1>4. Proper(d)' <=> Proper(d)
  BY DEF Proper
<1>5. Granted(d)' <=> Granted(d)
  BY DEF Granted
<1> QED
  BY <1>1, <1>2, <1>3, <1>4, <1>5 DEF Turn, InHandler

\* What c does itself neither gives nor takes quota, and the others stand still.
Alone(c) == /\ UNCHANGED <<share, booked, done>>
            /\ \A d \in Caller \ {c} :
                 /\ call'[d] = call[d] /\ last'[d] = last[d] /\ stage'[d] = stage[d]
                 /\ answer'[d] = answer[d] /\ reported'[d] = reported[d]
                 /\ response'[d] = response[d]

LEMMA AloneStep ==
  ASSUME QuotaFits, TypeOK, QInv, NEW c \in Caller, Alone(c), Fault \/ UNCHANGED faults,
         Turn(c)', Holds(c)' => Holds(c)
  PROVE  QInv'
<1>1. booked \in Int /\ booked' = booked
  BY DEF TypeOK, Alone
<1>2. \A d \in Caller : Turn(d)'
  <2>1. ASSUME NEW d \in Caller, d # c PROVE Turn(d)'
    BY <1>1, <2>1, TurnKept DEF Alone
  <2> QED
    BY <2>1
<1>3. (booked < Bound)'
  BY <1>1, RoomStep DEF QInv
<1>4. \A d \in Caller : Holds(d)' => Holds(d)
  BY DEF Holds, InHandler, Alone
<1> QED
  BY <1>2, <1>3, <1>4 DEF QInv

-----------------------------------------------------------------------------
(* The steps *)

\* A call is over with an error or a crash: nothing is granted.
LEMMA GivesUp ==
  ASSUME QuotaFits, IInv, QInv, NEW c \in Caller, Fault \/ UNCHANGED faults,
         Returns(c, "error") \/ Crashes(c)
  PROVE  QInv'
<1>1. /\ call'[c] = NoCall /\ last'[c].verdict \in {"error", "crash"} /\ share'[c] = share[c]
      /\ Alone(c)
  BY DEF Returns, Crashes, Leave, Goto, Alone, IInv, TypeOK
<1>2. share[c] >= 0
  BY DEF QInv, Turn
<1>3. Turn(c)'
  BY <1>1, <1>2 DEF Turn, Granted, InHandler, NoCall
<1>4. ~Holds(c)'
  BY <1>1 DEF Holds, InHandler, NoCall
<1> QED
  BY <1>1, <1>3, <1>4, AloneStep DEF IInv

\* Within a call: the caller's handler, last call and books stay.
LEMMA GoesOn ==
  ASSUME QuotaFits, IInv, QInv, NEW c \in Caller, Fault \/ UNCHANGED faults,
         UNCHANGED <<call, last, serverVars>>,
         \A d \in Caller \ {c} : stage'[d] = stage[d] /\ response'[d] = response[d],
         stage[c] # "dead", stage'[c] # "dead",
         Proper(c) => Fault \/ Proper(c)'
  PROVE  QInv'
<1>1. Turn(c) /\ call[c].quota_size \in QuotaSize /\ last[c].quota_size \in QuotaSize
      /\ reported[c] \in Int /\ booked \in Int /\ booked' = booked /\ booked < Bound
  BY DEF QInv, IInv, TypeOK, serverVars
<1>2. /\ \A n \in QuotaSize : Room(n) => Room(n)'
      /\ Fault => \A n \in QuotaSize : Room(n)'
  BY <1>1, RoomStep DEF IInv
<1>3. Bound' >= Bound /\ Bound \in Int /\ Bound' \in Int
  BY BoundType, BoundStep DEF IInv
<1>4. /\ call'[c] = call[c] /\ last'[c] = last[c] /\ share'[c] = share[c] /\ done'[c] = done[c]
      /\ answer'[c] = answer[c] /\ reported'[c] = reported[c]
  BY DEF serverVars
<1>5. Granted(c)' <=> Granted(c)
  BY <1>4 DEF Granted
<1>6. /\ Room(call[c].quota_size)' <=> booked' + AsInt(call[c].quota_size) < Bound'
      /\ Room(last[c].quota_size)' <=> booked' + AsInt(last[c].quota_size) < Bound'
      /\ \A n \in QuotaSize : Room(n)' <=> booked' + AsInt(n) < Bound'
  BY <1>4 DEF Room, AsInt
<1>7. /\ Room(last[c].quota_size) => Room(last[c].quota_size)'
      /\ Room(call[c].quota_size) \/ Fault => Room(call[c].quota_size)'
  BY <1>1, <1>2, <1>6
<1>8. Turn(c)'
  BY <1>1, <1>3, <1>4, <1>5, <1>7 DEF Turn, InHandler
<1>9. Holds(c)' => Holds(c)
  BY <1>4 DEF Holds, InHandler
<1>10. Alone(c)
  BY DEF Alone, serverVars
<1> QED
  BY <1>8, <1>9, <1>10, AloneStep DEF IInv

LEMMA BuildQuota ==
  ASSUME QuotaFits, IInv, QInv, NEW c \in Caller, Build(c)
  PROVE  QInv'
<1>1. CASE /\ Goto(c, "open")
           /\ UNCHANGED <<call, handles, response, last, calls, serverVars, faults>>
  <2>1. stage' = [stage EXCEPT ![c] = "open"] /\ stage[c] = "build"
    BY <1>1 DEF Goto, Build
  <2> QED
    BY <1>1, <2>1, GoesOn DEF Proper, IInv, TypeOK
<1>2. CASE Returns(c, "error") \/ Crashes(c)
  BY <1>2, GivesUp DEF Build
<1> QED
  BY <1>1, <1>2 DEF Build

LEMMA FailsQuota ==
  ASSUME QuotaFits, IInv, QInv, NEW c \in Caller, Fault, PerformFails(c),
         stage[c] \in {"open", "sent", "answered"}
  PROVE  QInv'
<1>1. /\ stage' = [stage EXCEPT ![c] = "judge"] /\ response' = [response EXCEPT ![c].text = "null"]
      /\ UNCHANGED <<call, last, serverVars>>
  BY DEF PerformFails, GivesString, Goto
<1> QED
  BY <1>1, GoesOn DEF IInv, TypeOK

LEMMA OpenQuota ==
  ASSUME QuotaFits, IInv, QInv, NEW c \in Caller, Open(c)
  PROVE  QInv'
<1>1. CASE /\ Goto(c, "sent")
           /\ UNCHANGED <<call, response, last, calls, serverVars, faults>>
  <2>1. stage' = [stage EXCEPT ![c] = "sent"] /\ stage[c] = "open"
    BY <1>1 DEF Goto, Open
  <2> QED
    BY <1>1, <2>1, GoesOn DEF Proper, IInv, TypeOK
<1>2. CASE Fault /\ PerformFails(c)
  BY <1>2, FailsQuota DEF Open
<1>3. CASE Crashes(c)
  BY <1>3, GivesUp DEF Open
<1> QED
  BY <1>1, <1>2, <1>3 DEF Open, PerformFails

LEMMA CallbackQuota ==
  ASSUME QuotaFits, IInv, QInv, NEW c \in Caller, fsclient_callback(c)
  PROVE  QInv'
<1>1. stage[c] = "answered"
  BY DEF fsclient_callback
<1>2. CASE Fault /\ PerformFails(c)
  BY <1>1, <1>2, FailsQuota
<1>3. CASE \E realsize \in ChunkLen :
             /\ response' = [response EXCEPT ![c] = Stored(c, realsize, realsize + 1)]
             /\ Splits(c)
             /\ UNCHANGED <<call, stage, handles, last, calls, serverVars>>
  <2>1. PICK realsize \in ChunkLen :
             /\ response' = [response EXCEPT ![c] = Stored(c, realsize, realsize + 1)]
             /\ Splits(c)
             /\ UNCHANGED <<call, stage, handles, last, calls, serverVars>>
    BY <1>3
  <2>2. /\ response'[c].text = IF response[c].text = "empty" THEN "whole" ELSE "part"
        /\ \A d \in Caller \ {c} : response'[d] = response[d]
    BY <2>1 DEF IInv, TypeOK, Stored
  <2>3. Proper(c) => Fault \/ Proper(c)'
    BY <1>1, <2>1, <2>2 DEF Proper, Splits, serverVars
  <2> QED
    BY <1>1, <2>1, <2>2, <2>3, GoesOn DEF Splits
<1> QED
  BY <1>2, <1>3 DEF fsclient_callback

LEMMA PerformedQuota ==
  ASSUME QuotaFits, IInv, QInv, NEW c \in Caller, Performed(c)
  PROVE  QInv'
<1>1. /\ stage[c] = "answered" /\ stage' = [stage EXCEPT ![c] = "judge"]
      /\ UNCHANGED <<call, response, last, serverVars>>
      /\ Fault \/ UNCHANGED faults
      /\ response[c].text = "empty" => Fault
  BY DEF Performed, Goto
<1>2. stage'[c] = "judge" /\ \A d \in Caller \ {c} : stage'[d] = stage[d]
  BY <1>1 DEF IInv, TypeOK
<1>3. Proper(c) => Fault \/ Proper(c)'
  BY <1>1, <1>2 DEF Proper, serverVars
<1> QED
  BY <1>1, <1>2, <1>3, GoesOn

\* The quota check says yes to a reply with the server's answer only if the sum it
\* computes is below the limit, and that sum is right.
LEMMA CheckNeedsRoom ==
  ASSUME QuotaFits, IInv, QInv, NEW c \in Caller, InHandler(c) = "QuotasCheck",
         answer[c] = "200", NEW total \in BOOLEAN, NEW spec \in ReplySpec,
         Verdict("QuotasCheck", call[c].quota_size, Object("200", TRUE, total, spec, reported[c])) = "ok"
  PROVE  Room(call[c].quota_size)
<1> DEFINE n == call[c].quota_size
           sum == AsInt(n) + reported[c]
<1>1. UserVFSQuotasCheckHandler(Object("200", TRUE, total, spec, reported[c]), n) = "ok"
  BY DEF Verdict
<1>2. AsInt(sum) < Limit
  <2>1. ~(AsInt(sum) >= Limit)
    BY <1>1, Zenon DEF UserVFSQuotasCheckHandler, Examined, Object
  <2>2. AsInt(sum) \in Int /\ Limit \in Int
    <3>1. sum \in Int
      <4>1. n \in QuotaSize /\ reported[c] \in Int
        BY DEF IInv, TypeOK
      <4>2. AsInt(n) \in Int
        BY <4>1 DEF QuotaFits
      <4> QED
        BY <4>1, <4>2
    <3> QED
      BY <3>1, QuotaAssumption DEF AsInt
  <2> QED
    BY <2>1, <2>2
<1>3. /\ AsInt(n) \in 0..MaxAsked /\ MaxAsked \in Nat /\ booked <= reported[c] /\ reported[c] < Bound
      /\ booked \in Int /\ reported[c] \in Int /\ Bound \in Int /\ Bound >= Limit
      /\ Bound + MaxAsked <= IntMod \div 2 /\ Limit \in Nat
  BY BoundType, QuotaAssumption DEF QuotaFits, IInv, TypeOK, QInv, Turn
<1>4. sum \in Int /\ sum < IntMod \div 2 /\ booked + AsInt(n) <= sum
  BY <1>3, QuotaAssumption
<1>5. sum < Limit
  <2>1. CASE sum >= 0
    <3>1. sum % IntMod = sum
      BY <1>4, <2>1, QuotaAssumption
    <3> QED
      BY <1>2, <1>4, <3>1 DEF AsInt
  <2>2. CASE sum < 0
    BY <1>3, <2>2
  <2> QED
    BY <1>4, <2>1, <2>2
<1> QED
  BY <1>3, <1>4, <1>5 DEF Room

LEMMA JudgeQuota ==
  ASSUME QuotaFits, IInv, QInv, NEW c \in Caller, Judge(c)
  PROVE  QInv'
<1> DEFINE V(reply) == Verdict(InHandler(c), call[c].quota_size, reply)
<1>1. stage[c] = "judge" /\ UNCHANGED faults /\ InHandler(c) \in Search \cup Change
  BY ClientAssumption DEF Judge, IInv, TypeOK, CallInv, InHandler
<1>2. PICK reply :
        /\ JudgeAs(c, reply)
        /\ \/ response[c].text # "whole" \/ answer[c] = "odd"
           \/ reply = Refusal
           \/ /\ answer[c] = "200"
              /\ \E total \in BOOLEAN, spec \in ReplySpec :
                   reply = Object("200", TRUE, total, spec, reported[c])
  BY DEF Judge
<1>3. V(reply) \in {"ok", "error", "crash"}
  BY <1>1, VerdictRange
<1>4. IF V(reply) = "crash" THEN Crashes(c) ELSE Returns(c, V(reply))
  BY <1>2 DEF JudgeAs
<1>5. CASE V(reply) # "ok"
  BY <1>1, <1>3, <1>4, <1>5, GivesUp
<1>6. CASE V(reply) = "ok"
  <2>1. Returns(c, "ok")
    BY <1>4, <1>6
  <2>2. /\ call'[c] = NoCall /\ stage'[c] = "idle" /\ share'[c] = share[c]
        /\ last'[c].handler = InHandler(c) /\ last'[c].quota_size = call[c].quota_size
        /\ last'[c].verdict = "ok" /\ Alone(c)
    BY <2>1 DEF Returns, Leave, Goto, Alone, IInv, TypeOK
  <2>3. InHandler(c) = "QuotasCheck" => Room(call[c].quota_size)
    <3> SUFFICES ASSUME InHandler(c) = "QuotasCheck" PROVE Room(call[c].quota_size)
      OBVIOUS
    <3>1. Proper(c) \/ Room(call[c].quota_size)
      BY DEF QInv, Turn
    <3>2. CASE Proper(c)
      <4>1. answer[c] \in {"refused", "200"} /\ response[c].text = "whole"
        BY <1>1, <3>2 DEF Proper
      <4>2. reply # Refusal
        <5> SUFFICES ASSUME reply = Refusal PROVE FALSE
          OBVIOUS
        <5>1. Refusal.json = "object" /\ Refusal.code = "refused" /\ Refusal.error = TRUE
          BY DEF Refusal, Object
        <5>2. V(reply) = "error"
          BY <5>1, Zenon DEF Verdict, UserVFSQuotasCheckHandler, Examined
        <5> QED
          BY <1>6, <5>2
      <4>3. PICK total \in BOOLEAN, spec \in ReplySpec :
              reply = Object("200", TRUE, total, spec, reported[c])
        BY <1>2, <4>1, <4>2
      <4> QED
        BY <1>2, <1>6, <4>1, <4>2, <4>3, CheckNeedsRoom
    <3> QED
      BY <3>1, <3>2
  <2>4. InHandler(c) = "QuotasCheck" => Room(last[c].quota_size)'
    <3>1. booked' = booked /\ Bound' = Bound
      BY <1>1, <2>2 DEF Alone, Bound, MaxAsked
    <3> QED
      BY <2>2, <2>3, <3>1 DEF Room, AsInt
  <2>5. Turn(c)'
    <3>1. share[c] >= 0
      BY DEF QInv, Turn
    <3> QED
      BY <2>2, <2>4, <3>1 DEF Turn, Granted, InHandler, NoCall
  <2>6. Holds(c)' => Holds(c)
    BY <2>2 DEF Holds, InHandler, NoCall
  <2> QED
    BY <1>1, <2>2, <2>5, <2>6, AloneStep DEF IInv
<1> QED
  BY <1>5, <1>6

LEMMA KillQuota ==
  ASSUME QuotaFits, IInv, QInv, NEW c \in Caller, Kill(c)
  PROVE  QInv'
BY GivesUp DEF Kill

\* A new call gives up what a check had granted before, or takes its turn.
LEMMA CallQuota ==
  ASSUME QuotaFits, IInv, QInv, NEW c \in Caller, NEW h \in Handler,
         Call(c, h), InTurn(c, h), SameSize(c)
  PROVE  QInv'
<1>1. /\ InHandler(c) = "none" /\ stage[c] = "idle" /\ answer[c] = "absent" /\ h # "none"
      /\ UNCHANGED <<last, share, booked, faults, answer, reported, response>>
      /\ stage'[c] = "build" /\ done'[c] = 0 /\ call'[c].handler = h
      /\ \A d \in Caller \ {c} : /\ call'[d] = call[d] /\ stage'[d] = stage[d] /\ done'[d] = done[d]
  <2>1. PICK n : call' = [call EXCEPT ![c] = [handler |-> h, quota_size |-> n]]
    BY Zenon DEF Call
  <2>2. /\ stage[c] = "idle" /\ done' = [done EXCEPT ![c] = 0] /\ stage' = [stage EXCEPT ![c] = "build"]
        /\ UNCHANGED <<last, share, booked, faults, answer, reported, response>>
    BY DEF Call, Goto
  <2>3. InHandler(c) = "none" /\ answer[c] = "absent"
    BY <2>2 DEF IInv, CallInv
  <2> QED
    BY <2>1, <2>2, <2>3, ZeroSize DEF IInv, TypeOK
<1>2. Bound' = Bound
  BY <1>1 DEF Bound, MaxAsked
<1>3. Granted(c)' <=> Granted(c)
  BY <1>1 DEF Granted
<1>4. h = "QuotasUpdate" => Granted(c) /\ call'[c].quota_size = last[c].quota_size
  BY <1>1 DEF InTurn, SameSize, Granted, InHandler
<1>5. Granted(c) => Room(last[c].quota_size)'
  <2>1. Granted(c) => Room(last[c].quota_size)
    BY <1>1 DEF QInv, Turn
  <2> QED
    BY <1>1, <1>2, <2>1 DEF Room, AsInt
<1>6. Turn(c)'
  <2>1. share[c] >= 0
    BY DEF QInv, Turn
  <2>2. Proper(c)'
    BY <1>1 DEF Proper
  <2> QED
    BY <1>1, <1>3, <1>4, <1>5, <2>1, <2>2 DEF Turn, InHandler
<1>7. ASSUME NEW d \in Caller, d # c PROVE Turn(d)'
  <2>1. booked' = booked /\ booked \in Int
    BY <1>1 DEF IInv, TypeOK
  <2> QED
    BY <1>1, <1>7, <2>1, TurnKept DEF IInv
<1>8. \A d, e \in Caller : (Holds(d) /\ Holds(e))' => d = e
  <2>1. \A d \in Caller \ {c} : Holds(d)' <=> Holds(d)
    BY <1>1 DEF Holds, InHandler
  <2>2. CASE h = "QuotasCheck"
    <3>1. \A d \in Caller \ {c} : ~Holds(d)
      BY <2>2 DEF InTurn
    <3> QED
      BY <2>1, <3>1
  <2>3. CASE h # "QuotasCheck"
    <3>1. Holds(c)' => Holds(c)
      BY <1>1, <1>4, <2>3 DEF Holds, InHandler, Granted
    <3> QED
      BY <2>1, <3>1 DEF QInv
  <2> QED
    BY <2>2, <2>3
<1>9. (booked < Bound)'
  BY <1>1, <1>2 DEF QInv
<1> QED
  BY <1>6, <1>7, <1>8, <1>9 DEF QInv

\* Serving an update uses what was granted; nobody else holds a grant.
LEMMA ServeQuota ==
  ASSUME QuotaFits, IInv, QInv, NEW c \in Caller, Serve(c)
  PROVE  QInv'
<1>1. /\ stage[c] = "sent" /\ done[c] = 0 /\ stage'[c] = "answered" /\ UNCHANGED <<call, response, last>>
      /\ response[c].text = "empty" /\ InHandler(c) # "none" /\ InHandler(c)' = InHandler(c)
      /\ \A d \in Caller \ {c} : /\ stage'[d] = stage[d] /\ answer'[d] = answer[d]
                                 /\ reported'[d] = reported[d] /\ share'[d] = share[d]
                                 /\ done'[d] = done[d]
  <2>1. stage[c] = "sent" /\ stage' = [stage EXCEPT ![c] = "answered"] /\ UNCHANGED <<call, response, last>>
    BY DEF Serve, Goto
  <2>2. \A d \in Caller \ {c} : /\ answer'[d] = answer[d]
                                 /\ reported'[d] = reported[d] /\ share'[d] = share[d]
                                 /\ done'[d] = done[d]
    BY DEF Serve, IInv, TypeOK
  <2>3. done[c] = 0 /\ response[c].text = "empty" /\ InHandler(c) # "none"
    BY <2>1 DEF IInv, CallInv
  <2>4. stage'[c] = "answered" /\ \A d \in Caller \ {c} : stage'[d] = stage[d]
    BY <2>1 DEF IInv, TypeOK
  <2> QED
    BY <2>1, <2>2, <2>3, <2>4 DEF InHandler
<1>2. /\ Turn(c) /\ call[c].quota_size \in QuotaSize /\ last[c].quota_size \in QuotaSize
      /\ booked \in Int /\ share[c] \in Int /\ share[c] >= 0 /\ booked < Bound
  BY DEF QInv, Turn, IInv, TypeOK
<1>3. Granted(c)' <=> Granted(c)
  BY <1>1 DEF Granted
<1>4. \A d \in Caller : Holds(d)' <=> Holds(d)
  BY <1>1 DEF Holds, InHandler
<1>5. ASSUME Fault \/ UNCHANGED faults, booked' \in Int, booked' <= booked, share'[c] = 0 \/ share'[c] = share[c],
             answer'[c] = "200" /\ InHandler(c) = "QuotasCheck" => booked <= reported'[c] /\ reported'[c] < Bound,
             Fault \/ answer'[c] \in {"refused", "200"},
             InHandler(c) # "QuotasUpdate" \/ booked' = booked
      PROVE  QInv'
  <2>1. /\ \A n \in QuotaSize : Room(n) => Room(n)'
        /\ Fault => \A n \in QuotaSize : Room(n)'
        /\ (booked < Bound)'
    BY <1>2, <1>5, RoomStep DEF IInv
  <2>2. Room(last[c].quota_size) => Room(last[c].quota_size)'
    BY <1>1, <1>2, <2>1 DEF Room, AsInt
  <2>3. Fault => Room(call[c].quota_size)'
    BY <1>1, <1>2, <2>1 DEF Room, AsInt
  <2>4. Bound' >= Bound /\ Bound \in Int /\ Bound' \in Int /\ reported'[c] \in Int
    <3>1. reported'[c] \in Int
      BY <1>2 DEF Serve, IInv, TypeOK
    <3> QED
      BY <1>5, <3>1, BoundType, BoundStep DEF IInv
  <2>5. Proper(c)' \/ Fault
    BY <1>1, <1>5 DEF Proper
  <2>6. Turn(c)'
    BY <1>1, <1>2, <1>3, <1>5, <2>2, <2>3, <2>4, <2>5 DEF Turn, InHandler
  <2>7. \A d \in Caller : Turn(d)'
    <3>1. ASSUME NEW d \in Caller, d # c PROVE Turn(d)'
      BY <1>1, <1>5, <3>1, TurnKept DEF IInv
    <3> QED
      BY <2>6, <3>1
  <2> QED
    BY <1>4, <2>1, <2>7 DEF QInv
<1>6. CASE answer'[c] # "200"
  <2>1. /\ answer' = [answer EXCEPT ![c] = "refused"] \/ Fault
        /\ UNCHANGED faults \/ Fault
        /\ UNCHANGED <<share, booked>>
    <3>1. ~(answer' = [answer EXCEPT ![c] = "200"])
      BY <1>6 DEF IInv, TypeOK
    <3> QED
      BY <3>1 DEF Serve
  <2>2. Fault \/ answer'[c] \in {"refused", "200"}
    BY <2>1 DEF IInv, TypeOK
  <2> QED
    BY <1>2, <1>5, <1>6, <2>1, <2>2
<1>7. CASE answer'[c] = "200"
  <2>1. /\ reported' = [reported EXCEPT ![c] = IF InHandler(c) = "QuotasCheck" THEN booked ELSE 0]
        /\ done' = [done EXCEPT ![c] = @ + 1]
        /\ share' = [share EXCEPT ![c] = ShareAfter(c)]
        /\ booked' = booked + ShareAfter(c) - share[c]
        /\ UNCHANGED faults
    <3>1. ~(answer' = [answer EXCEPT ![c] = "refused"]) /\ ~(answer' = [answer EXCEPT ![c] = "odd"])
      BY <1>7 DEF IInv, TypeOK
    <3> QED
      BY <3>1 DEF Serve
  <2>2. /\ reported'[c] = IF InHandler(c) = "QuotasCheck" THEN booked ELSE 0
        /\ done'[c] = 1 /\ share'[c] = ShareAfter(c)
    BY <1>1, <2>1 DEF IInv, TypeOK
  <2>3. CASE InHandler(c) # "QuotasUpdate"
    <3>1. ShareAfter(c) \in {0, share[c]}
      BY <2>3, Zenon DEF ShareAfter
    <3>2. booked' \in Int /\ booked' <= booked
      BY <1>2, <2>1, <3>1
    <3> QED
      BY <1>2, <1>5, <1>7, <2>1, <2>2, <2>3, <3>1, <3>2
  <2>4. CASE InHandler(c) = "QuotasUpdate"
    <3> DEFINE n == call[c].quota_size
    <3>1. ShareAfter(c) = share[c] + AsInt(n) /\ AsInt(n) \in 0..MaxAsked /\ MaxAsked \in Nat
      <4>1. ShareAfter(c) = share[c] + AsInt(n)
        BY <2>4, Zenon DEF ShareAfter
      <4> QED
        BY <1>2, <4>1 DEF QuotaFits
    <3>2. booked' = booked + AsInt(n) /\ share'[c] >= 0
      BY <1>2, <2>1, <2>2, <3>1
    <3>3. Room(n) /\ Granted(c)
      BY <1>1, <1>2, <2>4 DEF Turn
    <3>4. (booked < Bound)'
      <4>1. Bound' = Bound
        BY <2>1 DEF Bound, MaxAsked
      <4> QED
        BY <3>2, <3>3, <4>1 DEF Room
    <3>5. \A d \in Caller \ {c} : ~Holds(d)
      BY <2>4 DEF QInv, Holds
    <3>6. Turn(c)'
      BY <1>1, <1>2, <1>3, <2>2, <2>4, <3>2, <3>3 DEF Turn, InHandler
    <3>7. ASSUME NEW d \in Caller, d # c PROVE Turn(d)'
      <4>1. ~Holds(d) /\ Turn(d) /\ share'[d] = share[d]
        BY <1>1, <3>5, <3>7 DEF QInv
      <4>2. InHandler(d)' = InHandler(d) /\ (Granted(d)' <=> Granted(d))
        BY <1>1, <3>7 DEF InHandler, Granted
      <4>3. InHandler(d) \notin {"QuotasCheck", "QuotasUpdate"} /\ ~Granted(d)
        BY <4>1 DEF Holds, Granted
      <4> QED
        BY <4>1, <4>2, <4>3 DEF Turn
    <3> QED
      BY <1>4, <3>4, <3>6, <3>7 DEF QInv
  <2> QED
    BY <2>3, <2>4
<1> QED
  BY <1>6, <1>7

-----------------------------------------------------------------------------
(* The theorem *)

LEMMA QInvStep ==
  ASSUME QuotaFits, IInv, QInv, [InTurnNext]_vars
  PROVE  IInv' /\ QInv'
<1>1. IInv'
  BY IInvStep DEF InTurnNext, Next
<1>2. ASSUME NEW c \in Caller, NEW h \in Handler, Call(c, h), InTurn(c, h), SameSize(c)
      PROVE  QInv'
  BY <1>2, CallQuota
<1>3. ASSUME NEW c \in Caller, Step(c) PROVE QInv'
  BY <1>3, BuildQuota, OpenQuota, CallbackQuota, PerformedQuota, JudgeQuota DEF Step
<1>4. ASSUME NEW c \in Caller, World(c) PROVE QInv'
  <2>1. CASE Serve(c)
    BY <2>1, ServeQuota
  <2>2. CASE Disconnect(c)
    BY <2>2, FailsQuota DEF Disconnect
  <2>3. CASE Kill(c)
    BY <2>3, KillQuota
  <2> QED
    BY <1>4, <2>1, <2>2, <2>3 DEF World
<1>5. CASE UNCHANGED vars
  <2>1. /\ UNCHANGED <<call, stage, response, last, answer, reported, done, share, booked>>
        /\ Bound' = Bound
    BY <1>5 DEF Bound, MaxAsked, vars, clientVars, serverVars
  <2>2. ASSUME NEW c \in Caller PROVE Turn(c)' /\ (Holds(c)' <=> Holds(c))
    <3>1. /\ Room(last[c].quota_size)' <=> Room(last[c].quota_size)
          /\ Room(call[c].quota_size)' <=> Room(call[c].quota_size)
      BY <2>1 DEF Room, AsInt
    <3>2. (Proper(c)' <=> Proper(c)) /\ (Granted(c)' <=> Granted(c)) /\ (Holds(c)' <=> Holds(c))
      BY <2>1 DEF Proper, Granted, Holds, InHandler
    <3> QED
      BY <2>1, <3>1, <3>2 DEF QInv, Turn, InHandler
  <2>3. (booked < Bound)'
    BY <2>1 DEF QInv
  <2>4. \A c, d \in Caller : (Holds(c) /\ Holds(d))' => c = d
    BY <2>2 DEF QInv
  <2> QED
    BY <1>1, <2>2, <2>3, <2>4 DEF QInv
<1> QED
  BY <1>1, <1>2, <1>3, <1>4, <1>5 DEF InTurnNext, AllDone

\* However many callers take quota in turn, check and then update, what is booked
\* stays below the limit, but for one request for each fault: whatever is lost,
\* split, refused or killed between check and update (fsclient.c:30, fsclient.c:96).
THEOREM QuotaIsKept ==
  ASSUME QuotaFits
  PROVE  InTurnSpec => []QuotaKept
<1>1. Init => IInv /\ QInv
  <2> SUFFICES ASSUME Init PROVE IInv /\ QInv
    OBVIOUS
  <2>1. IInv
    BY ClientAssumption, ZeroSize
    DEF Init, IInv, TypeOK, CallInv, InHandler, NoCall, Fresh, Stage, Text
  <2>2. booked < Bound
    BY <2>1, BoundType, QuotaAssumption DEF Init, IInv, QuotaFits
  <2> QED
    BY <2>1, <2>2 DEF Init, QInv, Turn, Holds, Granted, InHandler, NoCall
<1>2. IInv /\ QInv /\ [InTurnNext]_vars => IInv' /\ QInv'
  BY QInvStep
<1>3. QInv => QuotaKept
  BY DEF QInv, QuotaKept, Bound
<1> QED
  BY <1>1, <1>2, <1>3, PTL DEF InTurnSpec
=============================================================================
