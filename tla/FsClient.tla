------------------------------ MODULE FsClient ------------------------------
(***************************************************************************)
(* Processes that call the handlers of fsclient.c: a handler builds a JSON *)
(* body, fsEasyClient performs one HTTP request with libcurl, whose write  *)
(* callback collects the reply, and the handler judges the reply (module   *)
(* ServerReply).  The registration server is not part of the repository:   *)
(* it serves a request or refuses it, may answer with something that is no *)
(* proper reply, and keeps the quota that the handlers report to it.       *)
(*                                                                         *)
(* MaxCalls bounds the calls of one process.  MaxFaults bounds failed      *)
(* allocations, broken connections, odd or split replies, and kills.       *)
(***************************************************************************)
EXTENDS ServerReply, FiniteSets

CONSTANTS Caller,
          Handler,     \* the handlers that are called
          QuotaSize,   \* values of the quota_size argument
          ChunkLen,    \* lengths of what libcurl hands over at once
          BufSize,     \* the 1024 bytes that fsEasyClient starts with
          MaxCalls, MaxFaults

ASSUME ClientAssumption ==
  /\ Handler \subseteq Search \cup Change
  /\ QuotaSize \subseteq Int /\ 0 \in QuotaSize
  /\ ChunkLen \subseteq Nat \ {0}
  /\ BufSize \in Nat \ {0}
  /\ MaxCalls \in Nat /\ MaxFaults \in Nat

VARIABLES call,       \* caller -> handler it is in and its quota_size
          stage,      \* caller -> where it is in the call
          handles,    \* caller -> easy handles not cleaned up
          response,   \* caller -> curl_response: size, len, and what is in it
          last,       \* caller -> the call that returned last, and what
          calls,      \* caller -> number of calls so far
          answer,     \* caller -> what the server answered
          reported,   \* caller -> vfsused in that answer
          done,       \* caller -> how often the server served this call
          share,      \* caller -> quota the server has booked for it
          booked,     \* quota the server has booked for all
          faults

clientVars == <<call, stage, handles, response, last, calls>>
serverVars == <<answer, reported, done, share, booked>>
vars == <<clientVars, serverVars, faults>>

Stage == {"idle", "build", "open", "sent", "answered", "judge", "dead"}
Text == {"null", "empty", "whole", "part"}
NoCall == [handler |-> "none", quota_size |-> 0]

TypeOK ==
  /\ call \in [Caller -> [handler : Handler \cup {"none"}, quota_size : QuotaSize]]
  /\ stage \in [Caller -> Stage]
  /\ handles \in [Caller -> Nat]
  /\ response \in [Caller -> [size : Nat, len : Nat, text : Text]]
  /\ \A c \in Caller : response[c].len < response[c].size
  /\ last \in [Caller -> [handler : Handler \cup {"none"}, quota_size : QuotaSize,
                          verdict : {"nothing", "ok", "error", "crash"}]]
  /\ calls \in [Caller -> 0..MaxCalls]
  /\ answer \in [Caller -> {"absent", "odd", "refused", "200"}]
  /\ reported \in [Caller -> Int]
  /\ done \in [Caller -> Nat]
  /\ share \in [Caller -> Int] /\ booked \in Int
  /\ faults \in 0..MaxFaults

Fresh == [size |-> BufSize, len |-> 0, text |-> "empty"]

Init == /\ call = [c \in Caller |-> NoCall]
        /\ stage = [c \in Caller |-> "idle"]
        /\ handles = [c \in Caller |-> 0]
        /\ response = [c \in Caller |-> Fresh]
        /\ last = [c \in Caller |-> [handler |-> "none", quota_size |-> 0, verdict |-> "nothing"]]
        /\ calls = [c \in Caller |-> 0]
        /\ answer = [c \in Caller |-> "absent"]
        /\ reported = [c \in Caller |-> 0]
        /\ done = [c \in Caller |-> 0]
        /\ share = [c \in Caller |-> 0] /\ booked = 0
        /\ faults = 0

Fault == faults < MaxFaults /\ faults' = faults + 1
Goto(c, s) == stage' = [stage EXCEPT ![c] = s]
InHandler(c) == call[c].handler
GivesString(c, text) == response' = [response EXCEPT ![c].text = text] /\ Goto(c, "judge")

\* The call is over: the handler returns, or the process dies in it and the
\* kernel takes its handles.  The response is not needed any more.
Leave(c, verdict, s) ==
  /\ last' = [last EXCEPT ![c] = [handler |-> InHandler(c), quota_size |-> call[c].quota_size,
                                  verdict |-> verdict]]
  /\ call' = [call EXCEPT ![c] = NoCall]
  /\ response' = [response EXCEPT ![c] = Fresh]
  /\ answer' = [answer EXCEPT ![c] = "absent"]
  /\ reported' = [reported EXCEPT ![c] = 0]
  /\ Goto(c, s)
  /\ UNCHANGED <<calls, done, share, booked>>

Returns(c, verdict) == Leave(c, verdict, "idle") /\ UNCHANGED handles
Crashes(c) == Leave(c, "crash", "dead") /\ handles' = [handles EXCEPT ![c] = 0]

-----------------------------------------------------------------------------
(* The handler up to its request *)

Call(c, h) ==
  /\ stage[c] = "idle" /\ calls[c] < MaxCalls
  /\ \E n \in IF h \in {"QuotasCheck", "QuotasUpdate"} THEN QuotaSize ELSE {0} :
       call' = [call EXCEPT ![c] = [handler |-> h, quota_size |-> n]]
  /\ calls' = [calls EXCEPT ![c] = @ + 1]
  /\ done' = [done EXCEPT ![c] = 0]
  /\ Goto(c, "build")
  /\ UNCHANGED <<handles, response, last, answer, reported, share, booked, faults>>

\* cJSON_Add* may fail; fsEasyClient takes strlen of the NULL that a failed
\* cJSON_Print returns; and the quota check expands its URL into a buffer as
\* long as the template, too short for a user name of two letters.
Build(c) ==
  /\ stage[c] = "build"
  /\ \/ /\ Goto(c, "open")
        /\ UNCHANGED <<call, handles, response, last, calls, serverVars, faults>>
     \/ InHandler(c) \in Change /\ Fault /\ Returns(c, "error")
     \/ InHandler(c) \in Change /\ Fault /\ Crashes(c)
     \/ InHandler(c) = "QuotasCheck" /\ Crashes(c) /\ UNCHANGED faults

-----------------------------------------------------------------------------
(* fsEasyClient *)

\* NULL when the buffer or the handle cannot be had; the first malloc is
\* used unchecked.
Open(c) ==
  /\ stage[c] = "open"
  /\ \/ /\ handles' = [handles EXCEPT ![c] = @ + 1]
        /\ Goto(c, "sent")
        /\ UNCHANGED <<call, response, last, calls, serverVars, faults>>
     \/ /\ Fault
        /\ GivesString(c, "null")
        /\ UNCHANGED <<call, handles, last, calls, serverVars>>
     \/ Fault /\ Crashes(c)

\* curl_easy_perform returned an error: NULL, and the handle stays.
PerformFails(c) == /\ GivesString(c, "null")
                   /\ UNCHANGED <<call, handles, last, calls, serverVars>>

Disconnect(c) == stage[c] \in {"sent", "answered"} /\ Fault /\ PerformFails(c)

Grows(c, realsize) == response[c].size < realsize + 1

\* What is in the buffer after one more chunk: only that chunk.
Stored(c, realsize, room) ==
  [size |-> IF Grows(c, realsize) THEN room ELSE response[c].size,
   len  |-> realsize,
   text |-> IF response[c].text = "empty" THEN "whole" ELSE "part"]

\* A reply that comes in more than one chunk counts as a fault.
Splits(c) == IF response[c].text = "empty" THEN UNCHANGED faults ELSE Fault

\* Slip: no room for the terminating 0.
fsclient_callbackTight(c) ==
  /\ stage[c] = "answered"
  /\ \E realsize \in ChunkLen :
       \/ /\ response' = [response EXCEPT ![c] = Stored(c, realsize, realsize)]
          /\ Splits(c)
          /\ UNCHANGED <<call, stage, handles, last, calls, serverVars>>
       \/ Grows(c, realsize) /\ Fault /\ PerformFails(c)

\* Slip: a chunk that does not fit makes the client ask again.
fsclient_callbackAsksAgain(c) ==
  /\ stage[c] = "answered"
  /\ \E realsize \in ChunkLen :
       \/ /\ ~Grows(c, realsize)
          /\ response' = [response EXCEPT ![c] = Stored(c, realsize, realsize + 1)]
          /\ Splits(c)
          /\ UNCHANGED <<call, stage, handles, last, calls, serverVars>>
       \/ /\ Grows(c, realsize)
          /\ Goto(c, "sent")
          /\ UNCHANGED <<call, handles, response, last, calls, serverVars, faults>>

\* A realloc that fails makes curl_easy_perform fail.
fsclient_callback(c) ==
  /\ stage[c] = "answered"
  /\ \E realsize \in ChunkLen :
       \/ /\ response' = [response EXCEPT ![c] = Stored(c, realsize, realsize + 1)]
          /\ Splits(c)
          /\ UNCHANGED <<call, stage, handles, last, calls, serverVars>>
       \/ Grows(c, realsize) /\ Fault /\ PerformFails(c)

\* Slip: the easy handle is not cleaned up.
PerformedForgetful(c) ==
  /\ stage[c] = "answered"
  /\ IF response[c].text = "empty" THEN Fault ELSE UNCHANGED faults
  /\ Goto(c, "judge")
  /\ UNCHANGED <<call, handles, response, last, calls, serverVars>>

\* curl_easy_perform returned CURLE_OK.  An empty reply counts as a fault.
Performed(c) ==
  /\ stage[c] = "answered"
  /\ IF response[c].text = "empty" THEN Fault ELSE UNCHANGED faults
  /\ handles' = [handles EXCEPT ![c] = @ - 1]
  /\ Goto(c, "judge")
  /\ UNCHANGED <<call, response, last, calls, serverVars>>

-----------------------------------------------------------------------------
(* The handler after its request *)

Object(code, error, total, spec, used) ==
  [json |-> "object", code |-> code, error |-> error, total |-> total, spec |-> spec, used |-> used]
Other(json) == [json |-> json, code |-> "absent", error |-> FALSE, total |-> FALSE,
                spec |-> "absent", used |-> 0]

\* What cJSON_Parse finds in a response that is not a proper reply.  It
\* ignores what follows the first value, so the tail of a reply may parse, as
\* a number or as one of the objects inside; no tail holds the members of the
\* reply itself.
Nothing == Other("none")
Tails == {Nothing, Other("scalar"), Object("absent", FALSE, FALSE, "absent", 0)}
Odd == {Nothing, Other("scalar"), Object("absent", TRUE, FALSE, "absent", 0),
        Object("200", FALSE, FALSE, "absent", 0)}
Refusal == Object("refused", TRUE, FALSE, "absent", 0)

JudgeAs(c, reply) ==
  LET verdict == Verdict(InHandler(c), call[c].quota_size, reply)
  IN  IF verdict = "crash" THEN Crashes(c) ELSE Returns(c, verdict)

Judge(c) ==
  /\ stage[c] = "judge"
  /\ \/ response[c].text \in {"null", "empty"} /\ JudgeAs(c, Nothing)
     \/ response[c].text = "part" /\ \E reply \in Tails : JudgeAs(c, reply)
     \/ /\ response[c].text = "whole" /\ answer[c] = "odd"
        /\ \E reply \in Odd : JudgeAs(c, reply)
     \/ /\ response[c].text = "whole" /\ answer[c] = "refused"
        /\ JudgeAs(c, Refusal)
     \/ /\ response[c].text = "whole" /\ answer[c] = "200"
        /\ \E total \in BOOLEAN, spec \in ReplySpec :
             JudgeAs(c, Object("200", TRUE, total, spec, reported[c]))
  /\ UNCHANGED faults

-----------------------------------------------------------------------------
(* The server and the machine *)

\* What a request that is served does to the quota booked for the caller.
ShareAfter(c) == CASE InHandler(c) = "QuotasUpdate" -> share[c] + AsInt(call[c].quota_size)
               [] InHandler(c) = "QuotaRevert" -> 0
               [] OTHER -> share[c]

Serve(c) ==
  /\ stage[c] = "sent"
  /\ Goto(c, "answered")
  /\ \/ /\ answer' = [answer EXCEPT ![c] = "200"]
        /\ reported' = [reported EXCEPT ![c] = IF InHandler(c) = "QuotasCheck" THEN booked ELSE 0]
        /\ done' = [done EXCEPT ![c] = @ + 1]
        /\ share' = [share EXCEPT ![c] = ShareAfter(c)]
        /\ booked' = booked + ShareAfter(c) - share[c]
        /\ UNCHANGED faults
     \/ /\ answer' = [answer EXCEPT ![c] = "refused"]
        /\ UNCHANGED <<reported, done, share, booked, faults>>
     \/ /\ answer' = [answer EXCEPT ![c] = "odd"]
        /\ Fault
        /\ UNCHANGED <<reported, done, share, booked>>
  /\ UNCHANGED <<call, handles, response, last, calls>>

Kill(c) == stage[c] # "dead" /\ Fault /\ Crashes(c)

Step(c) == Build(c) \/ Open(c) \/ fsclient_callback(c) \/ Performed(c) \/ Judge(c)
World(c) == Serve(c) \/ Disconnect(c) \/ Kill(c)

AllDone == /\ \A c \in Caller : \/ stage[c] = "dead"
                              \/ (stage[c] = "idle" /\ calls[c] = MaxCalls)
           /\ UNCHANGED vars

Next == \/ \E c \in Caller : (\E h \in Handler : Call(c, h)) \/ Step(c) \/ World(c)
        \/ AllDone

\* The processes run, and libcurl hands over what arrived and ends a transfer
\* that is complete.  Nothing makes the server answer: no handler sets a
\* timeout.
Fairness == \A c \in Caller : /\ WF_vars(Build(c) \/ Open(c) \/ Judge(c))
                              /\ WF_vars(fsclient_callback(c))
                              /\ WF_vars(Performed(c))

Spec == Init /\ [][Next]_vars
FairSpec == Spec /\ Fairness

\* Callers that take quota in turn: a check, then an update by what was
\* checked, and no check while another caller is between the two.
Holds(c) == \/ InHandler(c) \in {"QuotasCheck", "QuotasUpdate"}
            \/ last[c].handler = "QuotasCheck" /\ last[c].verdict = "ok" /\ stage[c] # "dead"
InTurn(c, h) == CASE h = "QuotasCheck"  -> \A q \in Caller \ {c} : ~Holds(q)
                  [] h = "QuotasUpdate" -> last[c].handler = "QuotasCheck" /\ last[c].verdict = "ok"
                  [] OTHER -> TRUE
SameSize(c) == InHandler(c) = "none" /\ InHandler(c)' = "QuotasUpdate"
                 => call'[c].quota_size = last[c].quota_size

InTurnNext == \/ \E c \in Caller : \/ \E h \in Handler : Call(c, h) /\ InTurn(c, h) /\ SameSize(c)
                                   \/ Step(c)
                                   \/ World(c)
              \/ AllDone
InTurnSpec == Init /\ [][InTurnNext]_vars

-----------------------------------------------------------------------------
(* Properties *)

\* The handlers implement RemoteCall: whatever is lost, split, refused or
\* killed, no call is served twice, and no handler but the quota check returns
\* success for a call that was not served (fsEasyClient and the error labels
\* of the handlers).
Remote == INSTANCE RemoteCall WITH
  FailsOpen <- {"QuotasCheck"},
  pending <- [c \in Caller |-> call[c].handler],
  returned <- [c \in Caller |-> last[c].verdict]

ImplementsRemoteCall == Remote!Spec

\* An easy handle outlives its request only where something failed in it
\* (fsnetutils.c:155 returns without curl_easy_cleanup): the handles of all
\* processes are paid for by requests under way and by faults.
Requesting == {c \in Caller : stage[c] \in {"sent", "answered"}}
OpenHandles == UNION {{c} \X (1..handles[c]) : c \in Caller}
HandlesPaidFor == Cardinality(OpenHandles) <= Cardinality(Requesting) + faults

\* A call that the server answered returns, whatever the server wrote and
\* however it arrives.
AnsweredCallsReturn == \A c \in Caller : stage[c] = "answered" ~> stage[c] \in {"idle", "dead"}

\* Callers that take turns stay below the limit, but for one request for each
\* reply that is lost, odd or split: the quota check takes those for a yes
\* (fsclient.c:60).
MaxAsked == CHOOSE n \in {AsInt(m) : m \in QuotaSize} : \A m \in QuotaSize : AsInt(m) <= n
QuotaKept == booked = 0 \/ booked < Limit + faults * MaxAsked

=============================================================================
