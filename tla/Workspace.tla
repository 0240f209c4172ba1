----------------------------- MODULE Workspace -----------------------------
(***************************************************************************)
(* One editable workspace (packages/core/src/workspace/workspace.ts) with  *)
(* its branch workspaces, its serial executor, its commit service, the     *)
(* durable snapshot it keeps and the remote repository it publishes to.    *)
(*                                                                         *)
(* Data abstraction.  A working change is an "edit": overlay[b] is the set *)
(* of edits of branch b, content[r] the set of edits revision r contains.  *)
(* What an edit does to a path is the subject of module WorkingTree.       *)
(*                                                                         *)
(* Control.  A call is a record in a FIFO queue (SerialExecutor).  Every   *)
(* await of the code ends an action: op.pc says where the running call is. *)
(* Between two steps the remote moves, other calls are queued, or the      *)
(* process ends.                                                           *)
(***************************************************************************)
EXTENDS Integers, Sequences, FiniteSets

CONSTANTS
    Branches,       \* branch names
    DefaultBranch,  \* RepositoryInfo.defaultBranch
    Edits,          \* working changes
    Offered,        \* the names of the calls the environment makes
    MaxRevision,    \* bound: revisions are 0 .. MaxRevision
    MaxCalls,       \* bound: calls submitted
    MaxForeign,     \* bound: head movements made by other clients
    MaxCrashes,     \* bound: process ends
    MaxRequests,    \* bound: commit requests sent
    QueueLimit      \* bound: calls waiting behind the running one

CallNames == {"writeFile", "revert", "switchBranch", "refreshRemoteHead",
              "createBranch", "deleteBranch", "persist", "commitAndPush",
              "commitAndPushForceWithLease", "amendAndPushForceWithLease",
              "resolvePendingCommitPublication"}

ASSUME WorkspaceAssumption ==
    /\ DefaultBranch \in Branches
    /\ Offered \subseteq CallNames
    /\ MaxRevision \in Nat /\ MaxCalls \in Nat /\ MaxForeign \in Nat
    /\ MaxCrashes \in Nat /\ MaxRequests \in Nat /\ QueueLimit \in Nat

Revision == 0 .. MaxRevision
NoRevision == -1
MaybeRevision == Revision \cup {NoRevision}

VARIABLES
    head,     \* remote: branch -> its head revision (NoRevision: no branch)
    content,  \* remote: revision -> the edits it contains
    used,     \* remote: the newest revision
    wire,     \* commit requests sent and neither applied, refused nor lost
    session,  \* "closed", "loaded" (open() is running) or "open"
    ws,       \* memory: selected branch, bases, overlays, journal
    op,       \* the call SerialExecutor is running
    queue,    \* the calls behind it
    disk,     \* what WorkspaceStorage.load returns
    acked,    \* history: <<branch, edit>> pairs the workspace owes the user
    attempt,  \* history: the request whose outcome is not settled
    spent     \* the bounds used up

vars == <<head, content, used, wire, session, ws, op, queue, disk, acked,
          attempt, spent>>
remote == <<head, content, used>>

-----------------------------------------------------------------------------
(* Records. *)

Journal == [phase: {"none", "prepared", "published"}, branch: Branches,
            expected: MaybeRevision, published: MaybeRevision]
NoJournal == [phase |-> "none", branch |-> DefaultBranch,
              expected |-> NoRevision, published |-> NoRevision]

\* WorkspaceSnapshot; base[b] = NoRevision: branch b was never visited.
Snapshot == [sel: Branches, base: [Branches -> MaybeRevision],
             overlay: [Branches -> SUBSET Edits], journal: Journal]
NoSnapshot == [sel |-> DefaultBranch,
               base |-> [b \in Branches |-> NoRevision],
               overlay |-> [b \in Branches |-> {}], journal |-> NoJournal]

\* What the caller had on screen: expectedState, captured when it calls.
Seen == [branch: Branches, base: MaybeRevision]

\* edits: the paths named (writeFile, revert, selectedPaths); whole:
\* selectedPaths = undefined, or switchTo; revision: a lease or a resolution.
Call == [name: CallNames \cup {"none"}, branch: Branches, edits: SUBSET Edits,
         whole: BOOLEAN, revision: MaybeRevision, seen: Seen]
NoCall == [name |-> "none", branch |-> DefaultBranch, edits |-> {},
           whole |-> FALSE, revision |-> NoRevision,
           seen |-> [branch |-> DefaultBranch, base |-> NoRevision]]

Request == [id: 0 .. MaxRequests, branch: Branches, base: Revision,
            expected: MaybeRevision, changes: SUBSET Edits]
NoRequest == [id |-> 0, branch |-> DefaultBranch, base |-> 0,
              expected |-> NoRevision, changes |-> {}]

PCs == {"idle", "save", "listing", "listed", "creating", "created",
        "saveRemoval", "deleting", "deleted", "saveJournal", "publishing",
        "succeeded", "refused", "saveOutcome", "reconcile", "saveQuietly"}
Operation == [pc: PCs, call: Call, revision: MaybeRevision, snap: Snapshot,
              request: Request]
Idle == [pc |-> "idle", call |-> NoCall, revision |-> NoRevision,
         snap |-> NoSnapshot, request |-> NoRequest]

Limits == [calls: 0 .. MaxCalls, foreign: 0 .. MaxForeign,
           crashes: 0 .. MaxCrashes, requests: 0 .. MaxRequests]

TypeOK ==
    /\ head \in [Branches -> MaybeRevision]
    /\ content \in [Revision -> SUBSET Edits]
    /\ used \in Revision
    /\ wire \subseteq Request
    /\ session \in {"closed", "loaded", "open"}
    /\ ws \in Snapshot
    /\ op \in Operation
    /\ queue \in Seq(Call)
    /\ disk \in Snapshot
    /\ acked \subseteq Branches \X Edits
    /\ attempt \in Request
    /\ spent \in Limits

Init ==
    /\ head = [b \in Branches |-> IF b = DefaultBranch THEN 0 ELSE NoRevision]
    /\ content = [r \in Revision |-> {}]
    /\ used = 0
    /\ wire = {}
    /\ session = "closed"
    /\ ws = NoSnapshot
    /\ op = Idle
    /\ queue = <<>>
    /\ disk = NoSnapshot
    /\ acked = {}
    /\ attempt = NoRequest
    /\ spent = [calls |-> 0, foreign |-> 0, crashes |-> 0, requests |-> 0]

Journalled(s) == s.journal.phase # "none"
Base == ws.base[ws.sel]
Overlay == ws.overlay[ws.sel]
Visible(b) == ws.overlay[b] \cup
              (IF ws.base[b] = NoRevision THEN {} ELSE content[ws.base[b]])

\* A mutant: a partial publication empties the overlay.
RebaseWhole(s, r) == [s EXCEPT !.base[s.sel] = r, !.overlay[s.sel] = {}]

\* acceptPartiallyPublishedRevision: what the revision contains leaves the
\* overlay, the rest is kept on top of the new base.
Rebase(s, r) == [s EXCEPT !.base[s.sel] = r, !.overlay[s.sel] = @ \ content[r]]
Unjournalled(s) == [s EXCEPT !.journal = NoJournal]
PublishedIn(r) == {ws.sel} \X content[r]
Keeps(s, b, e) ==
    \/ e \in s.overlay[b]
    \/ s.base[b] # NoRevision /\ e \in content[s.base[b]]

-----------------------------------------------------------------------------
(* The remote repository and its other clients. *)

\* Another client pushes, force-pushes, creates or deletes a branch.
OthersMove(b) ==
    /\ spent.foreign < MaxForeign
    /\ spent' = [spent EXCEPT !.foreign = @ + 1]
    /\ \/ /\ \E r \in (0 .. used) \ {head[b]} : head' = [head EXCEPT ![b] = r]
          /\ UNCHANGED <<content, used>>
       \/ /\ used < MaxRevision
          /\ used' = used + 1
          /\ head' = [head EXCEPT ![b] = used + 1]
          /\ \E c \in SUBSET Edits :
                content' = [content EXCEPT ![used + 1] = c]
       \/ /\ b # DefaultBranch /\ head[b] # NoRevision
          /\ head' = [head EXCEPT ![b] = NoRevision]
          /\ UNCHANGED <<content, used>>
    /\ UNCHANGED <<wire, session, ws, op, queue, disk, acked, attempt>>

Awaited(q) == op.pc = "publishing" /\ op.request = q

\* The lease holds: the changes are applied to the request's base revision.
RemoteApply(q) ==
    /\ q \in wire
    /\ head[q.branch] = q.expected /\ q.expected # NoRevision
    /\ used < MaxRevision
    /\ used' = used + 1
    /\ head' = [head EXCEPT ![q.branch] = used + 1]
    /\ content' = [content EXCEPT ![used + 1] =
                      content[q.base] \cup q.changes]
    /\ wire' = wire \ {q}
    /\ op' = IF Awaited(q)
             THEN [op EXCEPT !.pc = "succeeded", !.revision = used + 1]
             ELSE op
    /\ UNCHANGED <<session, ws, queue, disk, acked, attempt, spent>>

\* REMOTE_CHANGED: the head is not the leased revision.
RemoteRefuse(q) ==
    /\ q \in wire
    /\ head[q.branch] \notin {q.expected, NoRevision}
    /\ wire' = wire \ {q}
    /\ op' = IF Awaited(q) THEN [op EXCEPT !.pc = "refused"] ELSE op
    /\ UNCHANGED <<remote, session, ws, queue, disk, acked, attempt, spent>>

LoseRequest(q) ==
    /\ q \in wire
    /\ wire' = wire \ {q}
    /\ UNCHANGED <<remote, session, ws, op, queue, disk, acked, attempt, spent>>

-----------------------------------------------------------------------------
(* open() and the end of the process. *)

\* The stored snapshot may have been moved onto a revision by a call that was
\* never answered: what it has in its base only is published, and owed no more.
Load ==
    /\ session = "closed"
    /\ session' = "loaded"
    /\ ws' = disk
    /\ acked' = {p \in acked : p[2] \in disk.overlay[p[1]]
                              \/ ~Keeps(disk, p[1], p[2])}
    /\ UNCHANGED <<remote, wire, op, queue, disk, attempt, spent>>

\* BranchWorkspaces.create: nothing is stored for the selected branch.
Ensure ==
    /\ session = "loaded" /\ Base = NoRevision /\ head[ws.sel] # NoRevision
    /\ ws' = [ws EXCEPT !.base[ws.sel] = head[ws.sel]]
    /\ UNCHANGED <<remote, wire, session, op, queue, disk, acked, attempt, spent>>

\* open() throws: the branch cannot be listed, or the journal is of a branch
\* that is not the selected one.
OpenThrows ==
    /\ session = "loaded"
    /\ Base = NoRevision \/ (Journalled(ws) /\ ws.journal.branch # ws.sel)
    /\ session' = "closed" /\ ws' = NoSnapshot
    /\ UNCHANGED <<remote, wire, op, queue, disk, acked, attempt, spent>>

\* recoverPendingCommitPublication, a prepared journal: a head that is still
\* the expected revision is taken as proof that nothing was published.
RecoverPrepared ==
    /\ ws.journal.phase = "prepared" /\ head[ws.sel] = ws.journal.expected
    /\ ws' = Unjournalled(ws)
    /\ UNCHANGED acked

\* ... a published journal: the local state is moved onto the revision.
RecoverPublished ==
    /\ ws.journal.phase = "published"
    /\ ws' = Unjournalled(Rebase(ws, ws.journal.published))
    /\ acked' = acked \ PublishedIn(ws.journal.published)

\* The snapshot is saved after a recovery; a failed save is swallowed.
Recover ==
    /\ session = "loaded" /\ Base # NoRevision
    /\ ws.journal.branch = ws.sel
    /\ RecoverPrepared \/ RecoverPublished
    /\ session' = "open"
    /\ disk' \in {disk, ws'}
    /\ attempt' = NoRequest
    /\ UNCHANGED <<remote, wire, op, queue, spent>>

\* Nothing to recover; or a read failed, or the head is another one: the
\* workspace opens with its journal, and stays blocked.
OpenAsStored ==
    /\ session = "loaded" /\ Base # NoRevision
    /\ Journalled(ws) => ws.journal.branch = ws.sel
    /\ session' = "open"
    /\ UNCHANGED <<remote, wire, ws, op, queue, disk, acked, attempt, spent>>

Saving == op.pc \in {"save", "saveRemoval", "saveJournal", "saveOutcome",
                     "saveQuietly"}

\* The process ends; a save in progress took effect or did not.
Crash ==
    /\ session # "closed" /\ spent.crashes < MaxCrashes
    /\ spent' = [spent EXCEPT !.crashes = @ + 1]
    /\ session' = "closed" /\ ws' = NoSnapshot /\ op' = Idle /\ queue' = <<>>
    /\ \/ disk' = disk
       \/ Saving /\ disk' = ws
    /\ UNCHANGED <<remote, wire, acked, attempt>>

-----------------------------------------------------------------------------
(* Calls. *)

\* The commands of packages/vscode/src/commands and branches pass the branch
\* and base they showed to the user; the filesystem's calls do not.
Guarded == {"revert", "createBranch", "commitAndPush",
            "commitAndPushForceWithLease", "amendAndPushForceWithLease"}
Commits == {"commitAndPush", "commitAndPushForceWithLease",
            "amendAndPushForceWithLease"}

Argument(name, b, E, w, r) ==
    [NoCall EXCEPT !.name = name, !.branch = b, !.edits = E, !.whole = w,
                   !.revision = r]

\* All changes (selectedPaths = undefined), or the paths of some edits.
Selections(name, r) ==
    {Argument(name, DefaultBranch, Edits, TRUE, r)}
        \cup {Argument(name, DefaultBranch, E, FALSE, r) : E \in SUBSET Edits}

\* The arguments a call is made with: a change selection, a branch and
\* switchTo, a lease or a resolution.
Arguments(name) ==
    CASE name = "writeFile" ->
            {Argument(name, DefaultBranch, {e}, FALSE, NoRevision) : e \in Edits}
      [] name = "revert" ->
            {Argument(name, DefaultBranch, E, FALSE, NoRevision) :
                E \in {Edits} \cup {{e} : e \in Edits}}
      [] name \in {"switchBranch", "deleteBranch"} ->
            {Argument(name, b, {}, FALSE, NoRevision) : b \in Branches}
      [] name = "createBranch" ->
            {Argument(name, b, {}, w, NoRevision) : b \in Branches, w \in BOOLEAN}
      [] name = "commitAndPushForceWithLease" ->
            UNION {Selections(name, r) : r \in 0 .. used}
      [] name \in {"commitAndPush", "amendAndPushForceWithLease"} ->
            Selections(name, NoRevision)
      [] name = "resolvePendingCommitPublication" ->
            {Argument(name, DefaultBranch, {}, FALSE, r) :
                r \in {NoRevision} \cup 0 .. used}
      [] OTHER -> {Argument(name, DefaultBranch, {}, FALSE, NoRevision)}

\* A caller reads the workspace and its call joins the queue.
Submit(name) ==
    /\ session = "open"
    /\ Len(queue) < QueueLimit /\ spent.calls < MaxCalls
    /\ name \in Commits =>
          spent.requests + Cardinality({i \in DOMAIN queue : queue[i].name \in Commits})
              < MaxRequests
    /\ spent' = [spent EXCEPT !.calls = @ + 1]
    /\ \E c \in Arguments(name) :
          queue' = Append(queue,
              IF name \in Guarded
              THEN [c EXCEPT !.seen = [branch |-> ws.sel, base |-> Base]]
              ELSE c)
    /\ UNCHANGED <<remote, wire, session, ws, op, disk, acked, attempt>>

\* A mutant: branches may be switched while a publication is unsettled.
BlockedButForSwitching(c) ==
    /\ Journalled(ws)
    /\ c.name \notin {"persist", "resolvePendingCommitPublication", "switchBranch"}

\* requireNoPendingCommitPublication
Blocked(c) ==
    /\ Journalled(ws)
    /\ c.name \notin {"persist", "resolvePendingCommitPublication"}

\* A mutant: only the branch is compared.
StaleBranch(c) == c.name \in Guarded /\ c.seen.branch # ws.sel

\* requireExpectedState
Stale(c) == c.name \in Guarded /\ c.seen # [branch |-> ws.sel, base |-> Base]

Changes(c) == Overlay \cap c.edits

\* The remaining early returns and validations of the calls; the path checks
\* of the file operations can refuse any of them.
Rejected(c) ==
    \/ c.name = "writeFile"
    \/ c.name \in Commits \ {"amendAndPushForceWithLease"} /\ Changes(c) = {}
    \/ c.name = "deleteBranch" /\ (c.branch = ws.sel \/ ws.overlay[c.branch] # {})
    \/ /\ c.name = "resolvePendingCommitPublication"
       /\ \/ ~Journalled(ws)
          \/ ws.journal.phase = "published" /\ c.revision # ws.journal.published

Waiting(name) ==
    /\ session = "open" /\ op.pc = "idle"
    /\ queue # <<>> /\ Head(queue).name = name

Refuse ==
    /\ session = "open" /\ op.pc = "idle" /\ queue # <<>>
    /\ LET c == Head(queue) IN Blocked(c) \/ Stale(c) \/ Rejected(c)
    /\ queue' = Tail(queue)
    /\ UNCHANGED <<remote, wire, session, ws, op, disk, acked, attempt, spent>>

\* The head of the queue starts; ws is what restore() would put back.
Begin(name, pc) ==
    /\ Waiting(name)
    /\ LET c == Head(queue) IN ~Blocked(c) /\ ~Stale(c)
    /\ queue' = Tail(queue)
    /\ op' = [Idle EXCEPT !.pc = pc, !.call = Head(queue), !.snap = ws]
    /\ UNCHANGED <<remote, wire, session, disk, spent>>

WriteFile ==
    /\ Begin("writeFile", "save")
    /\ ws' = [ws EXCEPT !.overlay[ws.sel] = @ \cup Head(queue).edits]
    /\ UNCHANGED <<acked, attempt>>

\* revert and revertAll
Revert ==
    /\ Begin("revert", "save")
    /\ ws' = [ws EXCEPT !.overlay[ws.sel] = @ \ Head(queue).edits]
    /\ acked' = acked \ ({ws.sel} \X Head(queue).edits)
    /\ UNCHANGED attempt

\* The branch was visited before: no remote read.
SwitchVisited ==
    /\ Begin("switchBranch", "save")
    /\ ws.base[Head(queue).branch] # NoRevision
    /\ ws' = [ws EXCEPT !.sel = Head(queue).branch]
    /\ UNCHANGED <<acked, attempt>>

SwitchUnvisited ==
    /\ Begin("switchBranch", "listing")
    /\ ws.base[Head(queue).branch] = NoRevision
    /\ UNCHANGED <<ws, acked, attempt>>

Refresh ==
    /\ Begin("refreshRemoteHead", "listing")
    /\ UNCHANGED <<ws, acked, attempt>>

Persist ==
    /\ Begin("persist", "saveQuietly")
    /\ UNCHANGED <<ws, acked, attempt>>

\* A step of the running call.
Step(from, to) ==
    /\ op.pc = from
    /\ op' = IF to = "idle" THEN Idle ELSE [op EXCEPT !.pc = to]
    /\ UNCHANGED <<session, queue, spent>>

\* A mutant: the call succeeds before its save does.
SaveUnconfirmed ==
    /\ Step("save", "idle")
    /\ disk' \in {disk, ws}
    /\ acked' = IF op.call.name = "writeFile"
                THEN acked \cup ({ws.sel} \X op.call.edits) ELSE acked
    /\ UNCHANGED <<remote, wire, ws, attempt>>

\* saveSnapshot of a local mutation: the call succeeds ...
Save ==
    /\ Step("save", "idle")
    /\ disk' = ws
    /\ acked' = IF op.call.name = "writeFile"
                THEN acked \cup ({ws.sel} \X op.call.edits)
                ELSE IF op.call.name = "resolvePendingCommitPublication"
                        /\ op.call.revision # NoRevision
                THEN acked \ PublishedIn(op.call.revision)
                ELSE acked
    /\ UNCHANGED <<remote, wire, ws, attempt>>

\* ... or the storage throws, with or without effect, and memory rolls back.
SaveThrows ==
    /\ Step("save", "idle")
    /\ disk' \in {disk, ws}
    /\ ws' = op.snap
    /\ UNCHANGED <<remote, wire, acked, attempt>>

\* A save whose failure is swallowed, or that ends the call either way.
SaveQuietly ==
    /\ Step("saveQuietly", "idle")
    /\ disk' \in {disk, ws}
    /\ UNCHANGED <<remote, wire, ws, acked, attempt>>

-----------------------------------------------------------------------------
(* Branches: branch-service.ts and branch-workspaces.ts. *)

Target == IF op.call.name = "switchBranch" THEN op.call.branch ELSE ws.sel

\* adapter.getBranches(): the answer is read before it is used.
ListBranches ==
    /\ op.pc = "listing"
    /\ op' = [op EXCEPT !.pc = "listed", !.revision = head[Target]]
    /\ UNCHANGED <<remote, wire, session, ws, queue, disk, acked, attempt, spent>>

ApplySwitch ==
    /\ op.call.name = "switchBranch" /\ op.revision # NoRevision
    /\ Step("listed", "save")
    /\ ws' = [ws EXCEPT !.sel = Target, !.base[Target] = op.revision,
                        !.overlay[Target] = {}]
    /\ UNCHANGED <<remote, wire, disk, acked, attempt>>

\* A mutant: a dirty workspace follows the remote too.
ApplyRefreshAnyway ==
    /\ op.call.name = "refreshRemoteHead" /\ op.revision \notin {NoRevision, Base}
    /\ Step("listed", "save")
    /\ ws' = [ws EXCEPT !.base[ws.sel] = op.revision]
    /\ UNCHANGED <<remote, wire, disk, acked, attempt>>

\* rebindCleanBase; the pinned and current results change nothing.
ApplyRefresh ==
    /\ op.call.name = "refreshRemoteHead"
    /\ op.revision \notin {NoRevision, Base} /\ Overlay = {}
    /\ Step("listed", "save")
    /\ ws' = [ws EXCEPT !.base[ws.sel] = op.revision]
    /\ UNCHANGED <<remote, wire, disk, acked, attempt>>

\* The listing failed, the branch is gone, or a refresh has nothing to do.
ListedNothing ==
    /\ \/ Step("listing", "idle")
       \/ /\ Step("listed", "idle")
          /\ \/ op.revision = NoRevision
             \/ /\ op.call.name = "refreshRemoteHead"
                /\ op.revision = Base \/ Overlay # {}
    /\ UNCHANGED <<remote, wire, ws, disk, acked, attempt>>

CreateBranch ==
    /\ Begin("createBranch", "creating")
    /\ UNCHANGED <<ws, acked, attempt>>

\* adapter.createBranch(name, current base)
RemoteCreate ==
    /\ op.pc = "creating" /\ head[op.call.branch] = NoRevision
    /\ Base # NoRevision
    /\ head' = [head EXCEPT ![op.call.branch] = Base]
    /\ op' = [op EXCEPT !.pc = "created", !.revision = Base]
    /\ UNCHANGED <<content, used, wire, session, ws, queue, disk, acked,
                   attempt, spent>>

\* The branch exists already, the remote failed, or its answer was lost.
CreateThrows ==
    /\ Step("creating", "idle") \/ Step("created", "idle")
    /\ UNCHANGED <<remote, wire, ws, disk, acked, attempt>>

\* BranchWorkspaces.add puts a fresh workspace in the place of any other.  What
\* was written on a branch of this name, which another client must have deleted,
\* is lost with it; no more is owed (CreationKeepsLocalWork says it is wrong).
AddBranch ==
    /\ Step("created", "saveQuietly")
    /\ LET b == op.call.branch IN
          /\ ws' = [ws EXCEPT !.base[b] = op.revision, !.overlay[b] = {},
                              !.sel = IF op.call.whole THEN b ELSE ws.sel]
          /\ acked' = acked \ ({b} \X Edits)
    /\ UNCHANGED <<remote, wire, disk, attempt>>

\* A mutant: the deleted branch leaves a workspace map without its key.
DeleteBranchKey ==
    /\ Begin("deleteBranch", "saveRemoval")
    /\ LET b == Head(queue).branch IN
          /\ b # ws.sel /\ ws.overlay[b] = {}
          /\ ws' = [ws EXCEPT !.base = [x \in Branches \ {b} |-> @[x]]]
    /\ UNCHANGED <<acked, attempt>>

\* The clean local workspace goes first, the remote branch second.
DeleteBranch ==
    /\ Begin("deleteBranch", "saveRemoval")
    /\ LET b == Head(queue).branch IN
          /\ b # ws.sel /\ ws.overlay[b] = {}
          /\ ws' = [ws EXCEPT !.base[b] = NoRevision]
    /\ UNCHANGED <<acked, attempt>>

SaveRemoval ==
    /\ \/ Step("saveRemoval", "deleting") /\ disk' = ws /\ UNCHANGED ws
       \/ Step("saveRemoval", "idle") /\ disk' \in {disk, ws} /\ ws' = op.snap
    /\ UNCHANGED <<remote, wire, acked, attempt>>

RemoteDelete ==
    /\ op.call.branch # DefaultBranch /\ head[op.call.branch] # NoRevision
    /\ head' = [head EXCEPT ![op.call.branch] = NoRevision]
    /\ Step("deleting", "deleted")
    /\ UNCHANGED <<content, used, wire, ws, disk, acked, attempt>>

Deleted ==
    /\ Step("deleted", "idle")
    /\ UNCHANGED <<remote, wire, ws, disk, acked, attempt>>

DeleteThrows ==
    /\ Step("deleting", "saveQuietly") \/ Step("deleted", "saveQuietly")
    /\ ws' = op.snap
    /\ UNCHANGED <<remote, wire, disk, acked, attempt>>

-----------------------------------------------------------------------------
(* Publication: mutateCommit and commit-service.ts. *)

Expected(c) == IF c.name = "commitAndPushForceWithLease" THEN c.revision ELSE Base

\* beforePublish: the journal is prepared, then saved.
StartCommit(name) ==
    /\ Waiting(name)
    /\ spent.requests < MaxRequests
    /\ LET c == Head(queue) IN
          /\ ~Blocked(c) /\ ~Stale(c) /\ Base # NoRevision
          /\ Changes(c) # {} \/ name = "amendAndPushForceWithLease"
          /\ ws' = [ws EXCEPT !.journal =
                       [phase |-> "prepared", branch |-> ws.sel,
                        expected |-> Expected(c), published |-> NoRevision]]
          /\ op' = [pc |-> "saveJournal", call |-> c, revision |-> NoRevision,
                    snap |-> ws,
                    request |-> [id |-> spent.requests + 1, branch |-> ws.sel,
                                 base |-> Base, expected |-> Expected(c),
                                 changes |-> Changes(c)]]
    /\ queue' = Tail(queue)
    /\ spent' = [spent EXCEPT !.requests = @ + 1]
    /\ UNCHANGED <<remote, wire, session, disk, acked, attempt>>

\* The request leaves only after the journal is durable.
SaveJournal ==
    /\ \/ /\ Step("saveJournal", "publishing")
          /\ disk' = ws
          /\ wire' = wire \cup {op.request}
          /\ attempt' = op.request
          /\ UNCHANGED ws
       \/ /\ Step("saveJournal", "idle")
          /\ disk' \in {disk, ws}
          /\ ws' = Unjournalled(ws)
          /\ UNCHANGED <<wire, attempt>>
    /\ UNCHANGED <<remote, acked>>

\* A mutant: a commit that throws is taken for a rejection.
CommitThrowsAndForgets ==
    /\ \/ Step("publishing", "idle") \/ Step("succeeded", "idle")
       \/ Step("refused", "idle")
    /\ ws' = Unjournalled(ws)
    /\ UNCHANGED <<remote, wire, disk, acked, attempt>>

\* A mutant: a request whose answer is lost is waited for.
CommitThrowsIfAnswered ==
    /\ Step("succeeded", "idle") \/ Step("refused", "idle")
    /\ UNCHANGED <<remote, wire, ws, disk, acked, attempt>>

\* adapter.commit throws: a timeout, a lost answer.  The journal stays.
CommitThrows ==
    /\ \/ Step("publishing", "idle") \/ Step("succeeded", "idle")
       \/ Step("refused", "idle")
    /\ UNCHANGED <<remote, wire, ws, disk, acked, attempt>>

\* The result is a rejection: the journal is withdrawn, then saved.
CommitRejected ==
    /\ Step("refused", "saveQuietly")
    /\ ws' = Unjournalled(ws)
    /\ attempt' = NoRequest
    /\ UNCHANGED <<remote, wire, disk, acked>>

\* afterPublish
CommitPublished ==
    /\ Step("succeeded", "saveOutcome")
    /\ ws' = [ws EXCEPT !.journal.phase = "published",
                        !.journal.published = op.revision]
    /\ UNCHANGED <<remote, wire, disk, acked, attempt>>

SaveOutcome ==
    /\ Step("saveOutcome", "reconcile")
    /\ disk' \in {disk, ws}
    /\ UNCHANGED <<remote, wire, ws, acked, attempt>>

\* A mutant: every publication is accepted as a whole one.
ReconcileWhole ==
    /\ Step("reconcile", "saveQuietly")
    /\ ws' = Unjournalled([ws EXCEPT !.base[ws.sel] = op.revision,
                                     !.overlay[ws.sel] = {}])
    /\ acked' = acked \ PublishedIn(op.revision)
    /\ attempt' = NoRequest
    /\ UNCHANGED <<remote, wire, disk>>

\* acceptPublishedRevision or acceptPartiallyPublishedRevision
Reconcile ==
    /\ Step("reconcile", "saveQuietly")
    /\ ws' = Unjournalled(
                IF op.call.whole
                THEN [ws EXCEPT !.base[ws.sel] = op.revision, !.overlay[ws.sel] = {}]
                ELSE Rebase(ws, op.revision))
    /\ acked' = acked \ PublishedIn(op.revision)
    /\ attempt' = NoRequest
    /\ UNCHANGED <<remote, wire, disk>>

\* The partial reconciliation needs a read, which fails: reconciliation stays
\* pending and the journal published.
ReconcileLater ==
    /\ Step("reconcile", "saveQuietly") /\ ~op.call.whole
    /\ UNCHANGED <<remote, wire, ws, disk, acked, attempt>>

\* The user's verdict: nothing was published ...
ResolveNotPublished ==
    /\ Begin("resolvePendingCommitPublication", "save")
    /\ Head(queue).revision = NoRevision /\ ws.journal.phase = "prepared"
    /\ ws' = Unjournalled(ws)
    /\ attempt' = NoRequest
    /\ UNCHANGED acked

\* ... or this revision was.  A failed read leaves the journal in place.
ResolvePublished ==
    /\ Waiting("resolvePendingCommitPublication")
    /\ Head(queue).revision # NoRevision /\ Journalled(ws)
    /\ ws.journal.phase = "published" => Head(queue).revision = ws.journal.published
    /\ \/ /\ Begin("resolvePendingCommitPublication", "save")
          /\ ws' = Unjournalled(Rebase(ws, Head(queue).revision))
          /\ attempt' = NoRequest
       \/ /\ queue' = Tail(queue)
          /\ UNCHANGED <<remote, wire, session, ws, op, disk, spent, attempt>>
    /\ UNCHANGED acked

-----------------------------------------------------------------------------
Start ==
    \/ Refuse \/ WriteFile \/ Revert \/ SwitchVisited \/ SwitchUnvisited
    \/ Refresh \/ Persist \/ CreateBranch \/ DeleteBranch
    \/ \E name \in Commits : StartCommit(name)
    \/ ResolveNotPublished \/ ResolvePublished

Continue ==
    \/ Save \/ SaveThrows \/ SaveQuietly
    \/ ListBranches \/ ApplySwitch \/ ApplyRefresh \/ ListedNothing
    \/ CreateThrows \/ AddBranch \/ SaveRemoval \/ Deleted \/ DeleteThrows
    \/ SaveJournal \/ CommitThrows \/ CommitRejected \/ CommitPublished
    \/ SaveOutcome \/ Reconcile \/ ReconcileLater

Remote ==
    \/ RemoteCreate \/ RemoteDelete
    \/ \E q \in wire : RemoteApply(q) \/ RemoteRefuse(q) \/ LoseRequest(q)

Open == Load \/ Ensure \/ OpenThrows \/ Recover \/ OpenAsStored

Next ==
    \/ Open \/ Start \/ Continue \/ Remote \/ Crash
    \/ \E name \in Offered : Submit(name)
    \/ \E b \in Branches : OthersMove(b)

Spec == Init /\ [][Next]_vars

\* Promise continuations run, and an adapter settles every call it is given:
\* the process takes its next step as long as it has one.
FairSpec == Spec /\ WF_vars(Start \/ Continue)

-----------------------------------------------------------------------------
(* Properties. *)

\* Every snapshot the workspace keeps can be reopened without a remote: the
\* selected branch has a workspace, and a journal is of the selected branch
\* (recoverPendingCommitPublication throws otherwise, on every open).
Reopens(s) ==
    /\ s # NoSnapshot => s.base[s.sel] # NoRevision
    /\ Journalled(s) => s.journal.branch = s.sel

SnapshotsReopen ==
    /\ Reopens(disk)
    /\ session = "open" => Reopens(ws) /\ Base # NoRevision

\* Write-ahead: as long as the fate of a request is unsettled, the durable
\* snapshot names its branch and lease, still has the base it was built on and
\* still holds every change it carries - through crashes, failed saves and
\* calls queued behind the publication.
RequestIsJournalled ==
    attempt.id # 0 =>
        /\ Journalled(disk)
        /\ disk.journal.branch = attempt.branch
        /\ disk.journal.expected = attempt.expected
        /\ disk.sel = attempt.branch
        /\ disk.base[attempt.branch] = attempt.base
        /\ attempt.changes \subseteq disk.overlay[attempt.branch]

\* An edit whose write was acknowledged is kept at every moment, in memory and in
\* what a reopened workspace would find, until it is reverted, or is in a revision
\* the workspace accepted, or its branch is created again after another client
\* deleted it (branch-workspaces.ts:77): there the code loses it.
AckedEditsAreKept ==
    \A p \in acked : /\ Keeps(disk, p[1], p[2])
                    /\ session # "closed" => Keeps(ws, p[1], p[2])

\* These are the only ends: nothing else takes an edit from what is owed.
OwedUntilSettled ==
    [][\A p \in acked \ acked' :
          \/ Waiting("revert") /\ p[1] = ws.sel /\ p[2] \in Head(queue).edits
          \/ ws'.base[p[1]] # NoRevision /\ p[2] \in content'[ws'.base[p[1]]]
          \/ op.pc = "created" /\ p[1] = op.call.branch]_vars

\* A commit goes to the branch, on the base, that its caller saw, whatever was
\* queued in between; so does the prepared journal.
CommitMatchesWhatWasSeen ==
    op.call.name \in Commits =>
        /\ op.request.branch = op.call.seen.branch
        /\ op.request.base = op.call.seen.base
        /\ op.pc # "saveQuietly" => ws.sel = op.call.seen.branch /\ Base = op.call.seen.base

\* Settling a publication that did happen, in the same session or at reopening,
\* leaves what the user sees in the selected branch as it was.
PublicationKeepsVisible ==
    [][ws.journal.phase = "published" /\ ~Journalled(ws') /\ session' = "open"
       /\ attempt.id # 0
       => Visible(ws.sel)' = Visible(ws.sel)]_vars

\* A dirty branch is never rebased: its base moves only when a publication of
\* that branch is settled, when a failed call is rolled back, or when the
\* branch itself is created anew.
DirtyBaseIsPinned ==
    [][\A b \in Branches :
          /\ session # "closed" /\ session' # "closed"
          /\ ws.overlay[b] # {} /\ ws'.base[b] # ws.base[b]
          => \/ Journalled(ws) /\ ws.journal.branch = b
             \/ op.pc = "save" /\ ws' = op.snap
             \/ op.pc = "created" /\ op.call.branch = b]_vars

\* Every call that was queued is answered.
CallsAreAnswered == []<>(queue = <<>> /\ op.pc = "idle")

\* docs/architecture.md: "If recovery cannot prove the outcome, mutations
\* remain blocked rather than guessing."  A recovery that drops the journal
\* must leave no request that can still publish.
RecoveryProvesTheOutcome ==
    [][session = "loaded" /\ session' = "open"
       /\ ws.journal.phase = "prepared" /\ ~Journalled(ws')
       => attempt \notin wire]_vars

\* docs/concepts.md: "Remotish never silently rebases or discards a dirty
\* workspace when the remote moves."  A branch that is created anew after other
\* clients deleted it does; no run checks it.
CreationKeepsLocalWork ==
    [][op.pc = "created" /\ session' = "open"
       => ws.overlay[op.call.branch] \subseteq ws'.overlay[op.call.branch]]_vars
=============================================================================
