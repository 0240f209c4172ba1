----------------------------- MODULE Publishing -----------------------------
(***************************************************************************)
(* The adapters' calls together, and what RemotishWorkspace relies on.     *)
(* Requests without effect on the branch are one step that succeeds or     *)
(* fails.  Every request may fail for the client while the server goes on. *)
(***************************************************************************)
EXTENDS GitHubPublishing, GitPublishing, HttpPublishing, RpcPublishing

Next ==
    \/ \E op \in Ops, lease \in Heads \cup {"any"} : Call(op, lease)
    \/ GitHub \/ Git \/ Http \/ Rpc
    \/ Abort \/ Apply \/ Refuse \/ OthersMove

Spec == Init /\ [][Next]_vars

-----------------------------------------------------------------------------
(* Properties. *)

TypeOK ==
    /\ adapter \in Adapters
    /\ call \in [op : Ops, lease : Heads \cup {"any"}, pc : Steps,
                 seen : Heads, answer : Outcomes, guessed : BOOLEAN]
    /\ outcome \in Outcomes
    /\ request \in [fate : Fates, old : Heads \cup {"any"}]
    /\ head \in Heads
    /\ aborted \in BOOLEAN

\* The head moves to our commit only from the revision the caller expects, or
\* to a new branch only from none: nothing of other clients is overwritten
\* that the user has not seen.  A deletion through Git takes the head it found.
\* (Updates with an expected head, and the check before receive-pack.)
LeaseKept ==
    [][request.fate = "sent" /\ request'.fate = "applied" =>
          \/ head = call.lease
          \/ call.op = "delete" /\ adapter # "git"]_vars

\* The GitHub adapter has concluded from the branch's head that its update was
\* refused, while the update was still under way or had been applied.
InferredWrongly ==
    call.guessed /\ outcome = "rejected" /\ request.fate \in {"sent", "applied"}

\* Every adapter keeps what RemotishWorkspace relies on: success only when the
\* remote has the change, a rejection only when it will never have it - until the
\* GitHub adapter infers a rejection that is none (github-publisher.ts:146-149).
\* The workspace takes that one as final like any other: from there on nothing is
\* said, and RejectionMeansUnpublished, below, is what the code breaks.
Abstract == INSTANCE AdapterCall WITH applied <- request.fate = "applied"
ImplementsAdapter ==
    Abstract!Init /\ [][Abstract!Next \/ InferredWrongly']_(Abstract!vars)

\* "A rejection means publication did not complete" (docs/adapter-contract.md):
\* the change is not at the remote when a commit was rejected.  The GitHub adapter
\* breaks it when the answer to an applied update is lost; no run checks it.
RejectionMeansUnpublished ==
    outcome = "rejected" => request.fate # "applied"
=============================================================================
