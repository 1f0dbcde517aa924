----------------------------- MODULE ServerReply -----------------------------
(***************************************************************************)
(* How the handlers of fsclient.c judge the string that fsEasyClient gives *)
(* them: "ok" (0, a count, a pid or a path), "error" (-1 or the empty      *)
(* path) or "crash" (a member the handler dereferences without a test is   *)
(* not there).  Operators only; FsClient calls them.                       *)
(*                                                                         *)
(* A reply is abstracted to what the handlers test.  A spec is missing, a  *)
(* JSON value without members ("other"), a list of mounts, a list or an    *)
(* object without the members asked for, or an object that has them, among *)
(* those one with a vfspid of 0 and one about another user.                *)
(***************************************************************************)
EXTENDS Integers

CONSTANTS IntMod,   \* number of values of a C int
          Limit     \* vfslimit, the quota of the user at the server

ASSUME QuotaAssumption == IntMod \in Nat \ {0} /\ Limit \in Nat

Members == {"object", "nopid", "stranger"}
ReplySpec == Members \cup {"absent", "other", "emptyList", "list", "badList", "badObject"}
Reply == [json : {"none", "scalar", "object"}, code : {"absent", "refused", "200"},
          error : BOOLEAN, total : BOOLEAN, spec : ReplySpec, used : Int]

\* The conversion of an int64_t to an int, and the sum of two ints.
AsInt(n) == LET low == n % IntMod
            IN  IF low < IntMod \div 2 THEN low ELSE low - IntMod

\* The part all handlers share: parse, object, code and error, 200.
Examined(reply, unparsed, accepted) ==
  CASE reply.json = "none" -> unparsed
    [] reply.json = "scalar" -> "error"
    [] reply.json = "object" /\ (reply.code = "absent" \/ ~reply.error) -> "crash"
    [] reply.json = "object" /\ reply.code = "refused" /\ reply.error -> "error"
    [] OTHER -> accepted

\* Slip: > for >=, so that the whole quota can be taken.
UserVFSQuotasCheckHandlerFull(reply, quota_size) ==
  Examined(reply, "ok",
    CASE reply.spec \notin Members \cup {"badObject"} -> "error"
      [] reply.spec = "badObject" -> "crash"
      [] reply.spec = "stranger" -> "error"
      [] OTHER -> IF AsInt(AsInt(quota_size) + reply.used) > Limit THEN "error" ELSE "ok")

\* The only handler that takes a reply it cannot parse, and no reply at all,
\* for a yes.
UserVFSQuotasCheckHandler(reply, quota_size) ==
  Examined(reply, "ok",
    CASE reply.spec \notin Members \cup {"badObject"} -> "error"
      [] reply.spec = "badObject" -> "crash"
      [] reply.spec = "stranger" -> "error"
      [] OTHER -> IF AsInt(AsInt(quota_size) + reply.used) >= Limit THEN "error" ELSE "ok")

UserVFSQuotasUpdateHandler(reply) == Examined(reply, "error", "ok")

UserVFSQuotasSearchHandler(reply) ==
  Examined(reply, "error", CASE reply.spec = "absent" -> "error"
                             [] reply.spec \in Members -> "ok"
                             [] OTHER -> "crash")

UserVFSMountSearchHandler(reply) ==
  Examined(reply, "error", CASE reply.spec = "absent" -> "error"
                             [] reply.spec \in {"other", "emptyList", "list"} -> "ok"
                             [] OTHER -> "crash")

UserVFSMountAndDaemonSearchHandler(reply) ==
  Examined(reply, "error", IF reply.spec = "absent" THEN "error" ELSE "ok")

UserVFSRWUniqueSearchHandler(reply) ==
  Examined(reply, "error", IF reply.total THEN "ok" ELSE "crash")

\* Slip: the error label of the quota check, which goes to end.
UserVFSRegisterHandlerFailsOpen(reply) == Examined(reply, "ok", "ok")

UserVFSRegisterHandler(reply) == Examined(reply, "error", "ok")
UserVFSRegisterWithDaemonHandler(reply) == Examined(reply, "error", "ok")

\* Returns the pid of the daemon to kill.
UserVFSUnRegisterHandler(reply) ==
  Examined(reply, "error", CASE reply.spec \in {"absent", "nopid"} -> "error"
                             [] reply.spec \in {"object", "stranger"} -> "ok"
                             [] OTHER -> "crash")

UserVFSLiveProbesHandler(reply) == Examined(reply, "error", "ok")
UserNFSMountPointRegisterHandler(reply) == Examined(reply, "error", "ok")

UserNFSMountPointSearchHandler(reply) ==
  Examined(reply, "error", CASE reply.spec = "absent" -> "error"
                             [] reply.spec \in Members -> "ok"
                             [] OTHER -> "crash")

\* A block that is mounted somewhere is an error here.
UserVFSMountStatusSearchHandler(reply) ==
  Examined(reply, "error", CASE reply.spec \in {"absent", "list"} -> "error"
                             [] reply.spec \in {"other", "emptyList"} -> "ok"
                             [] OTHER -> "crash")

UserVFSQuotaRevertHandler(reply) ==
  Examined(reply, "error", IF reply.spec = "absent" THEN "error" ELSE "ok")

\* The handlers that send no body use GET.
Search == {"QuotasCheck", "QuotasSearch", "MountSearch", "MountAndDaemonSearch",
           "RWUniqueSearch", "NFSMountPointSearch", "MountStatusSearch"}
Change == {"QuotasUpdate", "Register", "RegisterWithDaemon", "UnRegister",
           "LiveProbes", "NFSMountPointRegister", "QuotaRevert"}

Verdict(handler, quota_size, reply) ==
  CASE handler = "QuotasCheck"           -> UserVFSQuotasCheckHandler(reply, quota_size)
    [] handler = "QuotasUpdate"          -> UserVFSQuotasUpdateHandler(reply)
    [] handler = "QuotasSearch"          -> UserVFSQuotasSearchHandler(reply)
    [] handler = "MountSearch"           -> UserVFSMountSearchHandler(reply)
    [] handler = "MountAndDaemonSearch"  -> UserVFSMountAndDaemonSearchHandler(reply)
    [] handler = "RWUniqueSearch"        -> UserVFSRWUniqueSearchHandler(reply)
    [] handler = "Register"              -> UserVFSRegisterHandler(reply)
    [] handler = "RegisterWithDaemon"    -> UserVFSRegisterWithDaemonHandler(reply)
    [] handler = "UnRegister"            -> UserVFSUnRegisterHandler(reply)
    [] handler = "LiveProbes"            -> UserVFSLiveProbesHandler(reply)
    [] handler = "NFSMountPointRegister" -> UserNFSMountPointRegisterHandler(reply)
    [] handler = "NFSMountPointSearch"   -> UserNFSMountPointSearchHandler(reply)
    [] handler = "MountStatusSearch"     -> UserVFSMountStatusSearchHandler(reply)
    [] handler = "QuotaRevert"           -> UserVFSQuotaRevertHandler(reply)

=============================================================================
