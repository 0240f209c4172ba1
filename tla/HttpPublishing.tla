--------------------------- MODULE HttpPublishing ---------------------------
(***************************************************************************)
(* The HTTP example adapter (src/adapters/http-example): one request to a  *)
(* server that decides, and that answers a commit with its result.         *)
(***************************************************************************)
EXTENDS PublishingCall

\* Headers are resolved before the request, credentials among them.
HttpHeaders ==
    call.pc = "start" /\ Goto("publish")

HttpNotSent ==
    call.pc \in {"start", "publish"} /\ Settle("thrown")

HttpSend ==
    /\ call.pc = "publish"
    /\ Send(IF call.op = "delete" THEN "any" ELSE call.lease)

HttpAnswers ==
    /\ call.pc = "sent" /\ request.fate = "applied"
    /\ Settle("success")

\* 409 and 412 carry a commit result.
HttpRefuses ==
    /\ call.pc = "sent" /\ request.fate \in {"stale", "denied"}
    /\ Settle(Refusal)

\* Any other status, the time limit, the signal, or a body that is cut, too
\* large, not JSON or not a result.
HttpAnswerFails ==
    call.pc = "sent" /\ Settle("thrown")

Http ==
    /\ adapter = "http"
    /\ \/ HttpHeaders \/ HttpNotSent \/ HttpSend
       \/ HttpAnswers \/ HttpRefuses \/ HttpAnswerFails
=============================================================================
