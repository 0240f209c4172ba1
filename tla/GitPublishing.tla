--------------------------- MODULE GitPublishing ---------------------------
(***************************************************************************)
(* The Git HTTP adapter (src/adapters/git-http): objects are built in a    *)
(* local repository, the server's references are discovered, and one       *)
(* receive-pack request publishes.  Failures before that request are kept  *)
(* apart from failures after it.                                           *)
(***************************************************************************)
EXTENDS PublishingCall

\* session.ready: the local repository and, once, a fetch.
GitReady ==
    call.pc = "start" /\ Goto("objects")

\* commit answers with a rejection, since no push was begun; the others throw.
GitNotReady ==
    call.pc = "start" /\ Settle(Refusal)

\* Blobs, trees and the commit object.
GitBuild ==
    /\ call.pc = "objects" /\ call.op \in Commits /\ ~aborted
    /\ Goto("discover")

\* createBranch needs the commit in this session.
GitKnowsCommit ==
    /\ call.pc = "objects" /\ call.op = "create"
    /\ Goto("discover")

\* deleteBranch takes the head it finds for its lease.
GitFindBranch ==
    /\ call.pc = "objects" /\ call.op = "delete" /\ head # "absent"
    /\ call' = [call EXCEPT !.lease = head, !.pc = "discover"]
    /\ UNCHANGED <<outcome, Remote>>

GitObjectsFail ==
    call.pc = "objects" /\ Settle(Refusal)

\* A mutant: whatever the server has is overwritten.
GitOverwrite ==
    /\ call.pc = "discover"
    /\ call' = [call EXCEPT !.seen = head, !.pc = "publish"]
    /\ UNCHANGED <<outcome, Remote>>

\* onPrePush compares the server's head with the expected one.
GitDiscover ==
    /\ call.pc = "discover"
    /\ IF head = call.lease
       THEN /\ call' = [call EXCEPT !.seen = head, !.pc = "publish"]
            /\ UNCHANGED <<outcome, Remote>>
       ELSE Settle(Refusal)

\* No discovery, no pack, or a transport that proves it sent nothing.
GitNotDispatched ==
    call.pc \in {"discover", "publish"} /\ Settle(Refusal)

\* createGitHttpClient hands receive-pack to the transport.
GitReceivePack ==
    call.pc = "publish" /\ Send(call.seen)

GitPushed ==
    /\ call.pc = "sent" /\ request.fate = "applied"
    /\ Settle("success")

\* The server reports "ng" for the reference; another look at the head names
\* it and does not change the outcome.
GitRefRejected ==
    /\ call.pc = "sent" /\ request.fate \in {"stale", "denied"}
    /\ Settle(Refusal)

\* No status for the reference, an HTTP error, no answer.
GitAnswerFails ==
    call.pc = "sent" /\ Settle("thrown")

Git ==
    /\ adapter = "git"
    /\ \/ GitReady \/ GitNotReady \/ GitBuild \/ GitKnowsCommit
       \/ GitFindBranch \/ GitObjectsFail
       \/ GitDiscover \/ GitNotDispatched \/ GitReceivePack
       \/ GitPushed \/ GitRefRejected \/ GitAnswerFails
=============================================================================
