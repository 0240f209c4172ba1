---------------------------- MODULE RpcPublishing ----------------------------
(***************************************************************************)
(* The RPC adapter (src/adapters/rpc) in front of an endpoint in another   *)
(* tab: Bitbucket Cloud, which commits through its source API, or          *)
(* Bitbucket Data Center, which has branches only                          *)
(* (src/examples/browser-rpc-bitbucket and -datacenter).  The caller may   *)
(* give up while the endpoint goes on; the transport is BrowserRpc.        *)
(***************************************************************************)
EXTENDS PublishingCall

\* The session's capabilities: neither forces, and Data Center has no commits.
RpcUnsupported ==
    /\ call.pc = "start"
    /\ \/ call.op = "force"
       \/ call.op = "commit" /\ adapter = "datacenter"
    /\ Settle("thrown")

Answer(o) ==
    /\ call' = [call EXCEPT !.pc = "reply", !.answer = o]
    /\ UNCHANGED <<outcome, Remote>>

\* The endpoint has the request, decoded; what cannot be decoded is an error.
RpcHandle ==
    /\ call.pc = "start" /\ call.op # "force"
    /\ call.op = "commit" => adapter = "cloud"
    /\ Goto(IF call.op = "commit" THEN "objects" ELSE "publish")

\* RpcAdapter.call: cancelled, no answer in time, a transport that fails, or a
\* response that cannot be decoded.
RpcGiveUp ==
    /\ call.pc # "idle" /\ outcome = "none"
    /\ outcome' = "thrown" /\ UNCHANGED <<call, Remote>>

RpcAnswers ==
    call.pc = "reply" /\ Settle(call.answer)

-----------------------------------------------------------------------------
(* Commits of Bitbucket Cloud. *)

\* The form is built, attributes of changed files allow it, a token is there
\* and the call is not cancelled.
CloudPreflight ==
    /\ call.pc = "objects" /\ ~aborted
    /\ Goto("publish")

\* prepare finds the commit invalid or too large for the form.
CloudInvalid ==
    call.pc = "objects" /\ Answer("rejected")

CloudPreflightFails ==
    call.pc = "objects" /\ Answer("rejected")

CloudPublish ==
    /\ call.pc = "publish" /\ call.op = "commit"
    /\ Send(call.lease)

\* 409: the source API says that the branch's head is not the parent.
CloudConflict ==
    /\ call.pc = "sent" /\ call.op = "commit" /\ request.fate = "stale"
    /\ Answer("rejected")

\* 201, and a location that names the commit.
CloudPublished ==
    /\ call.pc = "sent" /\ call.op = "commit" /\ request.fate = "applied"
    /\ Answer("success")

-----------------------------------------------------------------------------
(* Branches. *)

CloudCreateBranch ==
    /\ adapter = "cloud" /\ call.pc = "publish" /\ call.op = "create"
    /\ Send("absent")

CloudDeleteBranch ==
    /\ adapter = "cloud" /\ call.pc = "publish" /\ call.op = "delete"
    /\ Send("any")

DataCenterCreateBranch ==
    /\ adapter = "datacenter" /\ call.pc = "publish" /\ call.op = "create"
    /\ Send("absent")

DataCenterDeleteBranch ==
    /\ adapter = "datacenter" /\ call.pc = "publish" /\ call.op = "delete"
    /\ Send("any")

\* The expected status, and a body that names the branch.
BranchAnswers ==
    /\ call.pc = "sent" /\ call.op \notin Commits /\ request.fate = "applied"
    /\ Answer("success")

\* Requests of the Cloud endpoint that fail before or after they are sent.
CloudRequestFails ==
    /\ adapter = "cloud" /\ call.pc \in {"publish", "sent"}
    /\ Answer("thrown")

DataCenterRequestFails ==
    /\ adapter = "datacenter" /\ call.pc \in {"publish", "sent"}
    /\ Answer("thrown")

Rpc ==
    /\ adapter \in {"cloud", "datacenter"}
    /\ \/ RpcUnsupported \/ RpcHandle \/ RpcGiveUp \/ RpcAnswers
       \/ CloudPreflight \/ CloudInvalid \/ CloudPreflightFails
       \/ CloudPublish \/ CloudConflict \/ CloudPublished
       \/ CloudCreateBranch \/ CloudDeleteBranch
       \/ DataCenterCreateBranch \/ DataCenterDeleteBranch
       \/ BranchAnswers \/ CloudRequestFails \/ DataCenterRequestFails
=============================================================================
