-------------------------- MODULE GitHubPublishing --------------------------
(***************************************************************************)
(* The GitHub adapter (src/adapters/github): blobs, tree and commit are    *)
(* created first; one GraphQL updateRefs with the expected head publishes  *)
(* them.  Branches are created and deleted by one REST request.            *)
(***************************************************************************)
EXTENDS PublishingCall

\* Without a token a commit is rejected, anything else throws.
GitHubNotAuthenticated ==
    call.pc = "start" /\ Settle(Refusal)

\* The base commit, the blobs with their modes, the tree and the commit.
GitHubObjects ==
    /\ call.pc = "start" /\ call.op \in Commits /\ ~aborted
    /\ Goto("publish")

\* GitHubClient.request: no connection, the time limit, the caller's signal, an
\* error status.
GitHubRequestFails ==
    call.pc = "start" /\ Settle("thrown")

GitHubUpdateRefs ==
    /\ call.pc = "publish"
    /\ Send(call.lease)

\* The repository's node ID is looked up in the same try block.
GitHubRepositoryFails ==
    call.pc = "publish" /\ Goto("lookup")

GitHubCreateRef ==
    /\ call.pc = "start" /\ call.op = "create"
    /\ Send("absent")

GitHubDeleteRef ==
    /\ call.pc = "start" /\ call.op = "delete"
    /\ Send("any")

\* The answer has data and no errors; for branches, a good status is enough.
GitHubAnswers ==
    /\ call.pc = "sent" /\ request.fate = "applied"
    /\ Settle("success")

\* A mutant: what is not known is taken for a refusal.
GitHubAnswerRefuses ==
    call.pc = "sent" /\ Settle(Refusal)

\* No usable answer: errors, too many bytes, a cut or late body, not JSON.  The
\* request may be anywhere.
GitHubAnswerFails ==
    /\ call.pc = "sent"
    /\ IF call.op \in Commits THEN Goto("lookup") ELSE Settle("thrown")

\* After any error of the update, a head that is not the expected one is taken
\* for the reason.
GitHubBranchHead ==
    /\ call.pc = "lookup" /\ ~aborted
    /\ IF head \notin {"absent", call.lease}
       THEN /\ outcome' = "rejected"
            /\ call' = [call EXCEPT !.pc = "done", !.guessed = TRUE]
            /\ UNCHANGED Remote
       ELSE Settle("thrown")

GitHubBranchHeadFails ==
    call.pc = "lookup" /\ Settle("thrown")

GitHub ==
    /\ adapter = "github"
    /\ \/ GitHubNotAuthenticated \/ GitHubObjects \/ GitHubRequestFails
       \/ GitHubUpdateRefs \/ GitHubRepositoryFails
       \/ GitHubCreateRef \/ GitHubDeleteRef
       \/ GitHubAnswers \/ GitHubAnswerFails
       \/ GitHubBranchHead \/ GitHubBranchHeadFails
=============================================================================
