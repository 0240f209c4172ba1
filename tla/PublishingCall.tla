--------------------------- MODULE PublishingCall ---------------------------
(***************************************************************************)
(* One call of commit, createBranch or deleteBranch of an adapter, and the *)
(* branch at the server, which other clients move.  The modules that       *)
(* extend this one add what each adapter does; Publishing puts them        *)
(* together.                                                               *)
(***************************************************************************)

CONSTANTS
    Adapters, \* the kinds of adapter considered
    Theirs    \* revisions that other clients push

ASSUME PublishingAssumption ==
    /\ Adapters \subseteq {"github", "git", "http", "cloud", "datacenter"}
    /\ {"absent", "base", "ours", "any"} \cap Theirs = {}

VARIABLES
    adapter,
    call,    \* op; lease: the head its caller expects; pc; seen: the head that
             \* Git discovered; answer: what an RPC endpoint answers; guessed:
             \* the outcome was inferred from the head
    outcome, \* what the caller was told
    request, \* the request that changes the branch: where it stands, and the
             \* head it requires
    head,    \* the branch's head, "absent" when there is no branch
    aborted  \* the caller's signal, behind RPC the endpoint's

vars == <<adapter, call, outcome, request, head, aborted>>

Heads == {"absent", "base", "ours"} \cup Theirs
Commits == {"commit", "force"}
Ops == Commits \cup {"create", "delete"}
Outcomes == {"none", "success", "rejected", "thrown"}
Steps == {"idle", "start", "objects", "discover", "publish", "sent", "lookup",
          "reply", "done"}
Fates == {"none", "sent", "applied", "stale", "denied"}

Init ==
    /\ adapter \in Adapters
    /\ call = [op |-> "commit", lease |-> "base", pc |-> "idle",
               seen |-> "absent", answer |-> "none", guessed |-> FALSE]
    /\ outcome = "none"
    /\ request = [fate |-> "none", old |-> "any"]
    /\ head \in Heads \ {"ours"}
    /\ aborted = FALSE

-----------------------------------------------------------------------------
(* Steps of a call.  Each leaves the remote alone, except for sending. *)

Remote == <<adapter, request, head, aborted>>

Goto(pc) == call' = [call EXCEPT !.pc = pc] /\ UNCHANGED <<outcome, Remote>>

\* The caller hears of it unless it has given up.
Settle(o) ==
    /\ outcome' = IF outcome = "none" THEN o ELSE outcome
    /\ call' = [call EXCEPT !.pc = "done"]
    /\ UNCHANGED Remote

\* The request leaves, with the head that it requires.
Send(old) ==
    /\ ~aborted
    /\ request' = [fate |-> "sent", old |-> old]
    /\ call' = [call EXCEPT !.pc = "sent"]
    /\ UNCHANGED <<adapter, outcome, head, aborted>>

\* A refusal is a result of a commit, and an error of the other operations.
Refusal == IF call.op \in Commits THEN "rejected" ELSE "thrown"

\* What the caller expects: a commit its base, a forced one any revision the
\* user has seen, a creation no branch; a deletion carries nothing.
Leases == [commit |-> {"base"}, force |-> Heads \ {"absent", "ours"},
           create |-> {"absent"}, delete |-> {"any"}]

Call(op, lease) ==
    /\ call.pc = "idle" /\ lease \in Leases[op]
    /\ call' = [call EXCEPT !.op = op, !.lease = lease, !.pc = "start"]
    /\ UNCHANGED <<outcome, Remote>>

-----------------------------------------------------------------------------
(* The signal, the server and the other clients. *)

Abort ==
    /\ call.pc \notin {"idle", "done"} /\ ~aborted /\ aborted' = TRUE
    /\ UNCHANGED <<adapter, call, outcome, request, head>>

\* A server applies a request whose required head is the branch's, at any
\* time, also when nobody waits for it.
Apply ==
    /\ request.fate = "sent"
    /\ request.old \in {head, "any"} /\ (call.op = "delete" => head # "absent")
    /\ head' = IF call.op = "delete" THEN "absent" ELSE "ours"
    /\ request' = [request EXCEPT !.fate = "applied"]
    /\ UNCHANGED <<adapter, call, outcome, aborted>>

Refuse ==
    /\ request.fate = "sent"
    /\ request' = [request EXCEPT !.fate =
           IF request.old \in {head, "any"} THEN "denied" ELSE "stale"]
    /\ UNCHANGED <<adapter, call, outcome, head, aborted>>

OthersMove ==
    /\ head' \in Heads \ {head, "ours"}
    /\ UNCHANGED <<adapter, call, outcome, request, aborted>>
=============================================================================
