---------------------------- MODULE ProviderHost ----------------------------
(***************************************************************************)
(* How a canonical workspace comes to be registered: RemotishProviderHost, *)
(* ProviderDiscovery and WorkspaceRegistry (packages/vscode/src/providers  *)
(* and workspaces), for one provider and one workspace ID.                 *)
(*                                                                         *)
(* Commands prepare the repository, or select a branch of the prepared     *)
(* one.  File system calls wait for the workspace, and the first of them   *)
(* starts its restoration.  Every await ends an action, but a settled      *)
(* promise and the continuations that wait for it are one step, except for *)
(* the .finally with which the registry forgets an attempt.                *)
(***************************************************************************)
EXTENDS Naturals, FiniteSets

CONSTANTS
    Callers,  \* commands
    Waiters,  \* calls of WorkspaceRegistry.waitFor
    Keys,     \* preparationKey: a descriptor and an explicit branch
    Attempt,  \* the registry's restoration attempt
    None,
    MaxOpened \* bound: workspaces opened

Clients == Callers \cup {Attempt}

\* An operation of serializeWorkspace, with what goes before it: preparations
\* are shared by key, a restoration has a key of its own, selections are not
\* shared.
Ops == [kind: {"ensure"}, of: Keys] \cup [kind: {"select"}, of: Callers]
          \cup {[kind |-> "restore", of |-> Attempt]}
Restore == [kind |-> "restore", of |-> Attempt]

ASSUME ProviderHostAssumption ==
    Attempt \notin Callers /\ None \notin Keys \cup Ops /\ MaxOpened \in Nat

VARIABLES
    provider,    \* "unknown", "activating" (activations) or "ready" (registry)
    client,      \* client -> where it stands, and the operation it awaits
    op,          \* operation -> where it stands; after: the one it waits for
    tail,        \* preparationTails: the operation queued last
    registered,  \* the registered workspace, or 0
    opened,      \* workspaces opened so far
    metadata,    \* the restore metadata is in globalState
    waiter,      \* waiter -> where it stands
    disposed

vars == <<provider, client, op, tail, registered, opened, metadata, waiter, disposed>>

Workspace == 1 .. MaxOpened
MaybeOp == Ops \cup {None}

\* fresh: the operation opens a workspace of its own.
NoOp == [pc |-> "none", after |-> None, workspace |-> 0, fresh |-> FALSE]
Idle == [pc |-> "unused", op |-> None, workspace |-> 0]
Ending == [Idle EXCEPT !.pc = "ending"]

Init ==
    /\ provider = "unknown"
    /\ client = [c \in Clients |-> Idle]
    /\ op = [o \in Ops |-> NoOp]
    /\ tail = None
    /\ registered = 0 /\ opened = 0
    /\ metadata \in BOOLEAN  \* of an earlier session
    /\ waiter = [w \in Waiters |-> "unused"]
    /\ disposed = FALSE

-----------------------------------------------------------------------------
(* How calls end. *)

Resolving == {c \in Clients : client[c].pc = "resolving"}
Awaiting(o) == {c \in Clients : client[c].pc = "awaiting" /\ client[c].op = o}

\* The calls of C return workspace w; 0: they throw.
Ended(C, w) == [c \in Clients |->
    IF c \notin C THEN client[c]
    ELSE IF c = Attempt THEN Ending
    ELSE [client[c] EXCEPT !.pc = IF w = 0 THEN "failed" ELSE "done", !.workspace = w]]

\* Waiters that are still there; late: the attempt they joined had rejected its
\* waiters before.
Waiting(w) == waiter[w] \in {"waiting", "late"}
Told(outcome) == [x \in Waiters |-> IF Waiting(x) THEN outcome ELSE waiter[x]]

\* A mutant: a failed restoration leaves its waiters to their timers.
EndQuietly(C, w) == client' = Ended(C, w) /\ UNCHANGED waiter

\* ... and nothing was registered: a restoration that failed, or that left
\* nothing registered, rejects the waiters.
End(C, w) ==
    /\ client' = Ended(C, w)
    /\ waiter' = IF Attempt \in C /\ (w = 0 \/ registered = 0)
                 THEN Told("rejected") ELSE waiter

-----------------------------------------------------------------------------
(* Commands: the provider, and the preparation of the key. *)

\* The provider is registered, being activated, or activated now.
Resolve(c, o) ==
    /\ client' = [client EXCEPT ![c].pc = "resolving", ![c].op = o]
    /\ provider' = IF provider = "unknown" THEN "activating" ELSE provider

EnsureRepository(c, k) ==
    /\ ~disposed /\ client[c].pc = "unused"
    /\ Resolve(c, [kind |-> "ensure", of |-> k])
    /\ UNCHANGED <<op, tail, registered, opened, metadata, waiter, disposed>>

\* activate: one activation for all who wait for it.
Activated ==
    /\ provider = "activating" /\ provider' = "ready"
    /\ UNCHANGED <<client, op, tail, registered, opened, metadata, waiter, disposed>>

\* ... or there is none, or it throws, or what it exports is refused.
ActivationFails ==
    /\ provider = "activating" /\ provider' = "unknown"
    /\ End(Resolving, 0)
    /\ UNCHANGED <<op, tail, registered, opened, metadata, disposed>>

\* The descriptor is invalid, or there is nothing to restore from.
ResolveThrows(c) ==
    /\ client[c].pc = "resolving" /\ provider = "ready"
    /\ End({c}, 0)
    /\ UNCHANGED <<provider, op, tail, registered, opened, metadata, disposed>>

\* prepareRepository joins the preparation of its key, or begins it.
Prepare(c) ==
    /\ client[c].pc = "resolving" /\ provider = "ready"
    /\ client' = [client EXCEPT ![c].pc = "awaiting"]
    /\ LET o == client[c].op IN
          op' = IF op[o].pc = "none" THEN [op EXCEPT ![o].pc = "identifying"] ELSE op
    /\ UNCHANGED <<provider, tail, registered, opened, metadata, waiter, disposed>>

-----------------------------------------------------------------------------
(* serializeWorkspace *)

\* A mutant: the operation is made the tail before the tail is read.
EnqueueBehindItself(o) ==
    /\ op' = [op EXCEPT ![o].pc = "queued", ![o].after = o]
    /\ tail' = o

\* o is queued behind the operation that was queued last.
Enqueue(o) ==
    /\ op' = [op EXCEPT ![o].pc = "queued", ![o].after = tail]
    /\ tail' = o

\* op once o is over: who waited for it may start.
Without(o) == [x \in Ops |->
    IF x = o THEN NoOp
    ELSE IF op[x].after = o THEN [op[x] EXCEPT !.after = None]
    ELSE op[x]]

\* A mutant: whoever ends removes the tail.
LeaveAlways(o) == op' = Without(o) /\ tail' = None

\* The operation is over; its tail goes unless another one was queued behind it.
Leave(o) ==
    /\ op' = Without(o)
    /\ tail' = IF tail = o THEN None ELSE tail

\* A mutant: a workspace that could not be prepared is returned all the same.
FailWithCandidate(o) ==
    /\ Leave(o)
    /\ End(Awaiting(o), op[o].workspace)
    /\ UNCHANGED registered

\* The operation throws, for everyone who awaits it.
Fail(o) ==
    /\ Leave(o)
    /\ End(Awaiting(o), 0)
    /\ UNCHANGED registered

\* A mutant: registering does not look for waiters.
RegisterQuietly(o) ==
    /\ registered' = op[o].workspace
    /\ client' = Ended(Awaiting(o), op[o].workspace)
    /\ UNCHANGED waiter

\* registry.register: the waiters are served.
Register(o) ==
    /\ registered' = op[o].workspace
    /\ client' = Ended(Awaiting(o), op[o].workspace)
    /\ waiter' = Told("served")

\* The operation is done with its workspace, and registers one it opened;
\* with another one there, register would throw (Throw).
Settle(o) ==
    \/ /\ ~op[o].fresh
       /\ Leave(o) /\ End(Awaiting(o), op[o].workspace) /\ UNCHANGED registered
    \/ op[o].fresh /\ registered = 0 /\ Leave(o) /\ Register(o)

SelectPreparedBranch(c) ==
    /\ ~disposed /\ client[c].pc = "unused"
    /\ LET o == [kind |-> "select", of |-> c] IN
          /\ client' = [client EXCEPT ![c].pc = "awaiting", ![c].op = o]
          /\ Enqueue(o)
    /\ UNCHANGED <<provider, registered, opened, metadata, waiter, disposed>>

\* createAdapter and getRepository have given the workspace ID.
Identified(o) ==
    /\ op[o].pc = "identifying"
    /\ Enqueue(o)
    /\ UNCHANGED <<provider, client, registered, opened, metadata, waiter, disposed>>

Turn(o) == op[o].pc = "queued" /\ op[o].after = None

\* An operation with nothing registered opens a workspace ...
StartOpening(o) ==
    /\ Turn(o) /\ o.kind # "select" /\ registered = 0
    /\ op' = [op EXCEPT ![o].pc = "opening", ![o].fresh = TRUE]
    /\ UNCHANGED <<provider, client, tail, registered, opened, metadata, waiter, disposed>>

\* ... and otherwise uses the registered one.
StartWithRegistered(o) ==
    /\ Turn(o) /\ registered # 0
    /\ op' = [op EXCEPT ![o].pc = IF o.kind = "select" THEN "branch" ELSE "persisting",
                        ![o].workspace = registered]
    /\ UNCHANGED <<provider, client, tail, registered, opened, metadata, waiter, disposed>>

\* A mutant: the restore metadata are not written for a new workspace.
OpenedUnrecorded(o) ==
    /\ op[o].pc = "opening" /\ opened < MaxOpened
    /\ opened' = opened + 1
    /\ op' = [op EXCEPT ![o].pc = "branch", ![o].workspace = opened + 1]
    /\ UNCHANGED <<provider, client, tail, registered, metadata, waiter, disposed>>

\* RemotishWorkspace.open
Opened(o) ==
    /\ op[o].pc = "opening" /\ opened < MaxOpened
    /\ opened' = opened + 1
    /\ op' = [op EXCEPT ![o].pc = "persisting", ![o].workspace = opened + 1]
    /\ UNCHANGED <<provider, client, tail, registered, metadata, waiter, disposed>>

\* persistRestoreMetadata
Persisted(o) ==
    /\ op[o].pc = "persisting"
    /\ metadata' = TRUE
    /\ \/ Settle(o)
       \/ /\ o # Restore  \* another branch is asked for
          /\ op' = [op EXCEPT ![o].pc = "branch"]
          /\ UNCHANGED <<client, tail, registered, waiter>>
    /\ UNCHANGED <<provider, opened, disposed>>

\* The workspace is, or has been switched to, the branch asked for.
OnBranch(o) ==
    /\ op[o].pc = "branch"
    /\ Settle(o)
    /\ UNCHANGED <<provider, opened, metadata, disposed>>

\* Any of the awaited calls throws, or there is no workspace to select a branch of.
Throw(o) ==
    /\ \/ op[o].pc \notin {"none", "queued"}
       \/ Turn(o) /\ o.kind = "select" /\ registered = 0
    /\ Fail(o)
    /\ UNCHANGED <<provider, opened, metadata, disposed>>

-----------------------------------------------------------------------------
(* WorkspaceRegistry.waitFor, and the restoration it starts. *)

WaitFor(w) ==
    /\ ~disposed /\ waiter[w] = "unused"
    /\ \/ /\ registered # 0
          /\ waiter' = [waiter EXCEPT ![w] = "served"] /\ UNCHANGED client
       \/ /\ registered = 0
          /\ waiter' = [waiter EXCEPT ![w] =
                 IF client[Attempt].pc = "ending" THEN "late" ELSE "waiting"]
          /\ client' = IF client[Attempt].pc = "unused"
                       THEN [client EXCEPT ![Attempt].pc = "asking"] ELSE client
    /\ UNCHANGED <<provider, op, tail, registered, opened, metadata, disposed>>

\* The timer of the waiter, or its abort signal.
GiveUp(w) ==
    /\ Waiting(w)
    /\ waiter' = [waiter EXCEPT ![w] = "rejected"]
    /\ UNCHANGED <<provider, client, op, tail, registered, opened, metadata, disposed>>

\* restoreWorkspace: the metadata name the provider to ask ...
FindProvider ==
    /\ client[Attempt].pc = "asking" /\ metadata
    /\ Resolve(Attempt, Restore)
    /\ UNCHANGED <<op, tail, registered, opened, metadata, waiter, disposed>>

\* ... or there are none, or its provider is another extension's now.
RestoreThrows ==
    /\ client[Attempt].pc = "asking"
    /\ End({Attempt}, 0)
    /\ UNCHANGED <<provider, op, tail, registered, opened, metadata, disposed>>

\* .finally, a microtask after .catch: the next call to wait starts an attempt.
AttemptOver ==
    /\ client[Attempt].pc = "ending"
    /\ client' = [client EXCEPT ![Attempt] = Idle]
    /\ UNCHANGED <<provider, op, tail, registered, opened, metadata, waiter, disposed>>

-----------------------------------------------------------------------------
\* Registrations are withdrawn and nothing new comes in; what is under way goes on.
Dispose ==
    /\ ~disposed /\ disposed' = TRUE
    /\ registered' = 0
    /\ UNCHANGED <<provider, client, op, tail, opened, metadata, waiter>>

Continue ==
    \/ Activated \/ ActivationFails \/ FindProvider \/ RestoreThrows
    \/ AttemptOver
    \/ \E c \in Clients : ResolveThrows(c) \/ Prepare(c)
    \/ \E o \in Ops : \/ Identified(o) \/ StartOpening(o) \/ StartWithRegistered(o)
                      \/ Opened(o) \/ Persisted(o) \/ OnBranch(o) \/ Throw(o)

Next ==
    \/ Continue \/ Dispose
    \/ \E c \in Callers : SelectPreparedBranch(c) \/ \E k \in Keys : EnsureRepository(c, k)
    \/ \E w \in Waiters : WaitFor(w) \/ GiveUp(w)

\* Every promise the host awaits settles; no timer is needed.
Spec == Init /\ [][Next]_vars /\ WF_vars(Continue)

-----------------------------------------------------------------------------
\* Types: an operation that nobody runs holds nothing.
TypeOK ==
    /\ provider \in {"unknown", "activating", "ready"}
    /\ client \in [Clients ->
          [pc: {"unused", "asking", "resolving", "awaiting", "ending", "done",
                "failed"},
           op: MaybeOp, workspace: Workspace \cup {0}]]
    /\ op \in [Ops ->
          [pc: {"none", "identifying", "queued", "opening", "persisting", "branch"},
           after: MaybeOp, workspace: Workspace \cup {0}, fresh: BOOLEAN]]
    /\ tail \in MaybeOp
    /\ registered \in Workspace \cup {0} /\ opened \in Workspace \cup {0}
    /\ metadata \in BOOLEAN /\ disposed \in BOOLEAN
    /\ waiter \in [Waiters -> {"unused", "waiting", "late", "served", "rejected"}]

Fresh == {o \in Ops : op[o].fresh}

\* One model per workspace: whatever commands and restorations overlap, at most
\* one of them opens the workspace, and none does while one is registered.
\* Two models over the same persisted branches would lose each other's edits.
OneWorkspace ==
    /\ Cardinality(Fresh) <= 1
    /\ Fresh # {} => registered = 0

\* A call that returned gave its caller the workspace that is registered: no
\* step that failed afterwards leaves the caller with an ID that nothing serves,
\* or a registered workspace that the next session cannot restore.
CallersShareIt ==
    /\ \A c \in Callers : client[c].pc = "done" /\ ~disposed =>
          registered # 0 /\ client[c].workspace = registered
    /\ registered # 0 => metadata

\* The restoration gate: whoever waits, waits for something that is not there
\* yet and that an attempt still under way may bring.  A late waiter does not: a
\* call between the .catch and the .finally of the attempt starts none.
NoWaiterLeftBehind ==
    (\E w \in Waiters : waiter[w] = "waiting") =>
        registered = 0 /\ client[Attempt].pc \notin {"unused", "ending"}

\* Every command and every wait settles, on no other timer than the awaited
\* calls' own: no operation waits for one that has ended, or for itself.  (A late
\* waiter has its own timer only, unless another call follows it.)
CallsSettle ==
    /\ \A c \in Callers : client[c].pc # "unused" ~> client[c].pc \in {"done", "failed"}
    /\ \A w \in Waiters : waiter[w] = "waiting" ~> waiter[w] \in {"served", "rejected"}
=============================================================================
