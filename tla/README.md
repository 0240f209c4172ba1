# Formal models of Remotish

Remotish opens a remote repository in VS Code without a clone. Edits live in an
overlay on an immutable remote revision and are published by a commit that moves
the remote head only if it is still where it was expected. This directory holds
TLA+ models of the parts that carry that promise, TLC configurations that check
them, and TLAPS proofs of the central safety properties. `PROJECT.json` maps
every definition to the lines it is translated from and lists runs, hazards,
findings and theorems.

    tlc -config WorkspacePublication.cfg MCWorkspace
    tlapm WorkspaceProofs.tla

## Inventory

| Component | State it keeps | Operations | What is hard |
| --- | --- | --- | --- |
| Repository workspace, `packages/core/src/workspace/workspace.ts` | selected branch, journal of a publication, queue of `SerialExecutor` | write, revert, switch, refresh, create, delete, commit, resolve, persist, open | calls queue behind each other and act on what their caller saw earlier; saves fail; the process ends between journal, request and outcome |
| Branch workspaces, `branch-workspaces.ts`, `branch-service.ts` | branch → base revision and working tree | create, switchTo, add, remove, refresh | the remote moves between listing and use |
| Commit service, `commit/commit-service.ts` | none; drives the callbacks around publication | four kinds of commit, whole or of selected paths | answers that are lost; publication succeeds and reconciliation fails |
| Working tree, `overlay/`, `working-tree/` | contents, directory markers, tombstones, rename records | file operations, revert, change set, rebase | long sequences of legal operations on nested paths |
| Revision reader and cache, `repository/` | entries and their bytes, reads under way | read, stat, list, walk | reads are shared, time out and evict each other's results in the middle of a walk |
| Adapters, `adapters/*`, `examples/browser-rpc-bitbucket*` | none | commit, createBranch, deleteBranch, reads | classifying the outcome of a request whose answer is lost, late or cancelled |
| Storage contract, `persistence/workspace-storage.ts` | what `load` returns | load, save | - |
| Storage under a storage URI, `packages/vscode/src/persistence/` | blobs, manifests, two pointer files, last valid generation | load, save, collection | crash between file writes, damaged files, several windows |
| Provider host, discovery, workspace registry, `packages/vscode/src/providers`, `workspaces` | preparations, per-workspace tails, waiters, restoration attempts | prepare, register, waitFor, activate | coalescing and ordering of concurrent callers, timers |
| Source control and commands, `packages/vscode/src/scm`, `commands` | staged selection per branch, displayed changes, the loop that reads them | stage, refresh, revert, commit, switch | the change list is awaited while the user goes on; dialogs hold what was read before them |
| Browser RPC broker and transport, `extensions/browser-rpc-provider/src` | endpoints, counters, pending and running requests, remembered identifiers, waiters | register, heartbeat, disconnect, request, cancel, sweep, dispose | frames repeated, reordered, lost; timeouts race with answers |
| GM mailbox, `transport/gm-mailbox.ts` | packets in chunks in a storage that all tabs share; what each tab has seen | send, poll, sweep, dispose | no locks: everything is read, then written an await later |
| Git HTTP bridge, `extensions/git-http-provider/src` | pairing and URL in settings, one kept connection, request slots, remembered requests | get, connect, request, cancel, configure | settings change while secrets, handshakes and tokens are awaited |
| File system provider, history, diagnostics, bootstrap pages | none that outlives a call | forward, translate | what a call carries of the state its user saw |

How they interact. VS Code calls the commands and the file system provider;
these call the workspace, which runs one mutation at a time. A mutation changes
memory, saves a snapshot through the storage, and a commit also calls an
adapter: in process (GitHub, Git), or through `RpcAdapter`, the broker and the
transport to a userscript in another tab, or, for Git in a web window, through
the bridge to a userscript of the same page. The source control view listens to
the workspace's events and reads its change list; files are read through the
revision reader, which alone calls the adapter's reads. The provider host
creates adapters and storages and hands workspaces to the registry, where
restored windows wait for them.

What makes each correct, in one line: no acknowledged edit is lost and no
commit happens that the snapshot does not know of (workspace); what is published
is what is shown, where base and overlay have not parted (working tree); a save is atomic and a crash leaves a readable
generation (storage); an outcome claims no more than what became of the request
(adapters, bridge); a request runs at most once and its answer goes to its
caller (transport); a packet is handed on once (mailbox); a read has the content
it asked for, whatever the cache holds (reader); what is shown was read from the
branch that is selected (source control); one model serves a workspace and
everyone who waits for it hears of it (provider host).

## Modules

### `Workspace` - workspace, branches, commit service and remote

State: `ws` is the memory (selected branch, base and overlay of each branch,
journal), `disk` what the storage would load, `queue` and `op` the serial
executor and the call it runs, `wire` the commit requests under way, `head`,
`content`, `used` the remote. Every `await` of the code ends an action, and
`op.pc` says where the call stands; `op.snap` is what a rollback restores.
`acked` and `attempt` are history: the edits a call acknowledged, and the commit
request whose outcome is not settled. Loading a snapshot drops from `acked` what it has
in the base of the branch only: that was published and is owed no more. An edit is a value; what it does to paths
is the subject of `WorkingTree`. `revert` and the commands carry what their user
saw (`expectedState`), file system calls do not. The remote is the fixture
adapter's: compare-and-set on the head. Other clients push, force-push, create and
delete branches. A request may be lost, be refused, be applied, be applied
after its caller gave up, and be applied after the process ended.

`SerialExecutor` and the FIFO queue, `mutateCommit`, `runLocalMutation`,
`changedAfterRemoteSuccess`, `deleteBranch` with its undo, and
`recoverPendingCommitPublication` are each one or several actions; the map gives
the lines.

### `WorkingTree` - overlay, mutations, change set, rebasing

State: `base`, a tree of files, `overlay` (contents, directory markers, tombstones,
rename records), and a history variable, `disputed`. Actions: write, create directory, delete, rename,
revert, revert all, publication of everything or of a selection followed by its
rebase, and `rebindCleanBase`. Each loop of the code over paths is an operator on the
set of them (`SetFiles`, `DeleteFiles`, ...), since the order matters in none. A directory
rename is one step here; the code's moves of single files inside it are not
interleaved with reads. The names `TreeInit`, `TreeNext`, `TreeSpec` leave the plain ones
to `Publishing`, whose proofs share a module with those of the tree.

What is published is not always what is shown: there are five ways, listed with
their lines at `Agreed`, in which the code lets base and overlay part. A step that takes
one of them adds the paths concerned to `disputed` (`Misplaced`, `Buried`, `Orphaned`,
a marker on a file of the base, an adapter that accepts a file below a file), where
they stay until the overlay has no change left. The properties speak of every path
that has none of those at or above it, in every state, so also of what a parting
elsewhere must not touch.

### `SnapshotStore`, `SnapshotStorage` - durable snapshots

`SnapshotStore` is the contract `Workspace` uses: load returns the last saved
snapshot, or the one a failed save was given. `SnapshotStorage` is the code: files
that are absent, whole or damaged, the two pointer files, the in-memory last valid
generation of each window, and each file operation of `load`, `save`, repair and
garbage collection as a step, any of which may throw or be the last one. While no call
is under way any whole file, or pointer file, may be found damaged; `damage` counts that, and
remembers (`fatal`) whether every generation `load` could return needed the file, because
both share it or there is only one: there the code throws at once
(`storage-uri-workspace-storage.ts:60-77`), which `Loadable` excepts. The refinement reads `stored` as what `load` would return now and `saving` as the
snapshot whose save is under way.

### `BrowserRpc` - broker, host transport, userscript endpoints

State: the host's endpoints with their counters and the identifiers it has seen,
each call's state, each tab with counter, remembered and running requests, and
`net`, the frames ever sent. Receiving leaves a frame in `net`, so delay,
reordering, loss, and delivery by two relays need no action of their own. A
request is tracked from the broker's `find`/`waitFor` over encryption and
posting to its answer, timeout or cancellation. `late` holds the calls whose frames
were being decrypted when a tab's `dispose` ended.

### `ProviderHost` - preparations, their order, the restoration gate

State: `provider` (unknown, being activated, registered), `client` (where each
command and the registry's restoration attempt stand), `op` (the operations of
`serializeWorkspace`, each with the one it is queued behind), `tail`, the
`registered` workspace, `waiter`, and whether `globalState` has the restore
metadata. Commands that ask for the same descriptor and branch share an operation; a
restoration has a key of its own; selections of a prepared branch are not shared.
Any awaited call may fail. A settled promise and the continuations that were waiting
for it are one step, with one exception: the registry rejects the waiters of an attempt
that failed in its `.catch` (`workspace-registry.ts:193`) and forgets the attempt in the
`.finally` after it (`AttemptOver`). A rejected waiter's caller runs between the two. Who
waits then starts no attempt and is `"late"`: it has its timer, or the attempt of a
later call, but none of its own.
One provider and one workspace ID, since the maps of the code keep each ID apart.

### `AdapterCall`, `PublishingCall`, `GitHubPublishing`, `GitPublishing`, `HttpPublishing`, `RpcPublishing`, `Publishing` - adapters

`AdapterCall` is what a caller of an adapter relies on: success means that the
remote has the change, a rejection that it never will, an exception says
nothing. `PublishingCall` is one call of `commit`, `createBranch` or `deleteBranch`, the
request it sends, and the branch at the server, which applies or refuses the
request at any time, also when nobody waits any more, while other clients move
the branch. The four modules that extend it add the steps of the
adapters: the lookup after a failed reference update (GitHub), discovery and the
question whether a push may have reached the server (Git), statuses and the time
limit (HTTP), and the RPC client with the two Bitbucket endpoints behind it.
`Publishing` puts them together and shows that each implements `AdapterCall`, GitHub's until
it infers a rejection of an update that is under way or applied.

### `GitBridge` - manager, web bridge, userscript

State: the settings other windows share, the manager's kept bridge, its pairing, the
attempt under way and its generation, each bridge, where each request stands
and what it read before an await, the userscript sessions, and the frames ever
sent, which page scripts may repeat or withhold. When an attempt to connect ends,
the continuations of all who share it run without an event in between and are
one step (`Connected`, `ConnectFails`). Each request implements
`AdapterCall`: `GitHttpNotDispatchedError` is its rejection.

### `SourceControl` - view, commands, workspace

State: the workspace as the view meets it (branch, changes and base per branch, the operation that
runs and what a failed save goes back to), the staged paths, the resource groups,
each refresh loop, `refreshPromise` and `refreshRequested`, and the commands, with
what they read before their dialogs. Reading a list while a change is under way
gives any part of it. `excused` is history.

### `GmMailbox` - the mailbox of the transport

State: a clock, the keys in the shared storage (a packet's chunks and its
manifest, and the key of the wake, which is written by every send, removed by
nobody and counted with the others), each `send`, each tab's scan with the names it listed, and what each
tab has seen, by time. Each call of the storage is a step and may fail; two scans, a
send and a removal interleave freely. `delivered` is history. It is the network
that `BrowserRpc` supposes: it may lose, delay and reorder packets, and
`BrowserRpc` needs no more of it than that.

### `RevisionReads` - reader, cache, walks

State: the cache's entries in order of use and its byte count, per key the read
that is under way (at the adapter, answered, stored, failed), and per caller where
its call stands. A walk is a sequence of reads with its own stack and budget, between
which other callers fill and empty the cache. Adapters may fail, answer with
something that validation refuses, answer after the deadline, or never. The reader passes
an adapter's code on (`repository-reader.ts:58-60`, `81-83`), and `tryStat` relies on it:
a rejection is NOT_FOUND only for what is missing, as `docs/adapter-contract.md:51` asks
of adapters, UNSUPPORTED for the keys of the constant `Unsupported` (submodules and
symbolic links of `git-reader.ts:77`, `228`, truncated trees of the GitHub
adapter's `repository-view.ts:131`), and OFFLINE stands for all other codes; the deadline gives
OFFLINE, an answer that fails validation UNKNOWN. That the Git reader says NOT_FOUND of
whatever its own store fails with (`git-reader.ts:74`, `104`, `120`) is outside this model. A path is the
sequence of its names, so what lies below a directory are the paths it is a strict
prefix of. `used`, the order of use, is history.

### Proof modules

`WorkspaceProofs`, `PublishingProofs`, `ProviderHostProofs`, `GitBridgeProofs`,
`SourceControlProofs`, `SnapshotStorageProofs`, `RevisionReadsProofs` and `TransportProofs`
hold the theorems about their components, see below. `TransportProofs` has those of
`BrowserRpc` and of `GmMailbox`, which its tabs talk through; `PublishingProofs` has those of
`Publishing`, how a publication is carried out, and of `WorkingTree`, what it
publishes. `MC*` modules hold the sets the configurations use.

## Runs

| Run | Question | Bounds |
| --- | --- | --- |
| publication | Do acknowledged edits survive commits of every kind, lost answers, failed saves, a crash, recovery and resolution? Is every request in the journal before it leaves? | 1 branch, 2 edits, 3 new revisions, 4 calls, 2 requests, 1 foreign move, 1 crash |
| branches | The same with two branches, and: does a commit land on the branch and base its caller saw, is a dirty branch never rebased, can the snapshot be opened again, is every queued call answered? | 2 branches, 1 edit, 4 calls with 2 waiting, 1 request, 1 foreign move, 1 crash, fairness |
| tree | Does publication produce what is shown, does the change list name every difference, does a publication keep what is shown, does a revert restore the base? | 6 paths in 2 directories, 2 contents, 3 base trees, 6 operations |
| storage | Does the code refine `SnapshotStore`; are files never deleted that a pointer names; does a damaged file that load survives at first never make the workspace unreadable later? | 1 window, 3 snapshots sharing 3 blobs, 1 damaged file |
| adapters | Does the branch move to the caller's commit only from the head the caller expects, and does every adapter implement `AdapterCall`, the GitHub one until it infers a rejection that is none? | 5 adapters, one call, 2 foreign revisions |
| bridge | Is a request made at most once, does its outcome mean what the Git publisher takes it for, are bridges closed, does every request settle? | 2 requests, 1 URL, 2 keys, 2 bridges, 1 session, 1 pending, 1 active and 1 remembered request, 1 change of the settings, 1 invalidation, fairness |
| scm | Is a stale view always explained, does the view follow the branch, does every command end? | 2 branches, 1 path, 2 commands, 2 loops, 1 write by others, fairness |
| transport | Does a request run at most once, does a cancelled or refused one never start, does an answer reach its own call, is no waiter forgotten? | 2 tabs with 1 call and 3 signed frames, or 1 tab with 2 calls and 2 signed frames, or 3 calls and 1 signed frame; 2 remembered identifiers, 1 running and 1 pending request |
| mailbox | Is a packet handed to a tab at most once; does what was accepted arrive while it is young; is what is old removed, whoever left it and in whatever state? | 2 tabs, a packet and one left unfinished, room for 3 keys of which the wake has one, retention 0, times 0 and 1, 1 failure, fairness |
| host | Is the workspace opened by one operation at a time and shared by all; can what is registered be restored; does every command and every wait settle? | 2 commands, 2 preparation keys, 2 waits, 3 workspaces opened, fairness |
| reads | Does the cache account for what it holds within its limits and drop the least recently used; does every call have the content it asked for, or a code that is true of it; does it end, though an adapter may never answer? | 2 callers, 2 calls, 2 revisions of 3 directories and 2 files, 3 bytes, 3 entries, depth 1, 3 nodes, fairness |
| recovery | Shows the shortest way in which the code departs from a sentence of the documentation | the smallest that shows it |

Why the bounds are enough for what they claim. Two requests and a crash cover a
journal of an earlier request meeting a later one; two edits are what a partial
publication tells apart; a foreign move covers a lease that no longer holds. Two
branches are selected, other; two waiting calls let one overtake the user's
look at the workspace of the other. In the tree, a directory with two files and a
second directory cover a parent's tombstone with a child restored below it, and a
rename onto an existing path; properties that fail do so within four operations. (Each
of the first three ways listed at `Agreed` is taken within six, the fourth and fifth need
paths of three names: with `Deep` and `DeepTree` the invariants on publication hold too.)
Three snapshots let a collection remove a generation while two are kept.
An adapter serves one call at a time with state of its own, so one call of each
and a branch that moves to one of two other revisions and back is the whole of it.
In `GitBridge` two requests are the first, that connects, and the second, that
shares or replaces its connection; one change of the settings and one
invalidation, in any order and at any await, are the cases its checks tell
apart, and every limit is one, so it is reached. In `SourceControl` a second
command meets the loop of the first, and a second loop the microtask in which the
promise of the first is not yet cleared. In `GmMailbox` the retention is zero, so
a packet is young at the time it was sent and too old at the next, and the
packet that its sender left unfinished stands for those of tabs that were closed;
one failure leaves a sender or a scan in the middle. The key of the wake is
there before, as it is once anything was ever sent. (With `Woken = {FALSE}`, a storage
never used, there are 492,637 states and no error; `DeliveredAtMostOnce` is proved for
all limits and times.) The limits of `RevisionReads` are such that one file does not fit the
cache, two entries evict a third, one revision's tree has exactly as many nodes
and levels as a walk may visit and the other's is one level deeper. (Three calls
give 1,694,508 states and no error of the invariants.)
In `ProviderHost` two commands and a restoration are the three operations that
show a tail removed too early: one that failed, one that runs, one that comes; two
waits let a second restoration follow a failed one. (A third command gives 2.0 million
states and no error of the invariants.) Limits in `BrowserRpc` are reached: with one pending request the second is refused, with
one running request a request given up by the host still occupies the slot, and
with three calls and two remembered identifiers the memory is full. `MaxCounter`
and the constraint `Scope` bound the frames with counters; they remove repeats
of announcements and beats, of which one of each order is left.

Deadlock is not checked where the bounds on calls, steps or frames end every
behaviour.

### Fairness

`host` assumes weak fairness of `Continue`: promise continuations run, and the
calls of providers, storage and `globalState` settle, well or badly. Neither the
waiters' timers nor their abort signals need to happen.

`branches` assumes weak fairness of `Start \/ Continue`. `Start` is
the executor taking the next call, a promise continuation the engine does
run. `Continue` contains the outcomes of saves and remote calls. That every such
promise settles is what the adapters implement with timeouts (the transport's
60 seconds, for one); it is an assumption on storage and adapters that the
code does not enforce itself. The remote and other clients need not do
anything, and requests may be lost: then `CommitThrows` is the step left.

`bridge` assumes it of the manager's and the bridge's steps of each request (promise
continuations, secrets and encryption, the time limit of a request) and of the handshake's timer. The
userscript need not exist, start, or answer.

`scm` assumes weak fairness of the loops' steps, of the end of a save, and of
the list a command reads, and strong fairness of a command whose turn in the
workspace's queue comes again and again while others write: the queue is
first-come-first-served. A user need not answer a dialog.

`mailbox` assumes it of each tab's scan, which a timer starts again, and of
each sender's steps: the storage answers. `reads` assumes it of the callers'
continuations, of the two microtasks after a read, and of the deadline's timer,
which fires while the adapter is silent; nothing is assumed of the adapter.

### Findings

Shown by a run:

* `recovery`: an unmoved head is taken as proof that a prepared publication did
  not happen (`workspace.ts:559`, against `docs/architecture.md:111`). A request
  that is still under way is applied after reopening.

Found with a property that a module states and no run checks; the bounds that show it:

* Creating a branch that another client deleted replaces a visited workspace with
  local edits (`branch-workspaces.ts:77`, against `docs/concepts.md:109`).
  `Workspace!CreationKeepsLocalWork`, with the constants of the run branches,
  `MaxRevision = 0`, `MaxCalls = 5`, `MaxCrashes = 0`, `MaxRequests = 0`, `QueueLimit = 1`.
* Senders that check the mailbox's limit on stored text at the same time exceed
  it together (`gm-mailbox.ts:78`, against `README.md:127` of the extension).
  `GmMailbox!StoredIsLimited`, with `From <- TwoSenders`, `Chunks <- Small`,
  `Abandoned <- NoPackets`, `MaxKeys = 4`, `MaxStored = 1`, `MaxTime = 0`.
* A packet is accepted while there is room for one more key, whatever number of
  keys it needs; every later scan then rejects before it reads, until what is
  stored is too old (`gm-mailbox.ts:65`, against the comment at line 33).
  `GmMailbox!AcceptedIsDelivered`, with `Chunks <- SmallAndLarge`,
  `Abandoned <- NoPackets`, `MaxKeys = 4`, `MaxStored = 3`, `MaxTime = 0`.
* A directory made or renamed onto the path of a deleted base file loses that
  deletion (`overlay.ts:230`); the commit is refused by adapters, against
  `docs/adapter-contract.md:143`. `WorkingTree!RenamesArePublished`, with
  `MaxSteps = 4`.
* Windows share the storage directory and one collects what another is saving
  (`storage-uri-workspace-storage.ts:327`, against the comment at line 260).
  `SnapshotStorage!PointersAreBacked`, with `Windows <- TwoWindows`, `MaxDamage = 0`.
* A hello read while `dispose` stores its disconnect registers the closed tab
  again (`host.ts:129`, `userscript.ts:146`, against `README.md:123` of the
  extension). `BrowserRpc!FarewellIsFinal`, with `Endpoints <- OneTab`, `Calls <- TwoCalls`,
  `MaxCounter = 3`, `MaxPending = 2`, `SYMMETRY CallSymmetry`.
* When the answer to an applied reference update is lost, the GitHub adapter looks at the
  branch; when someone has moved it on by then, it reports a rejection
  (`github-publisher.ts:146`), though "a rejection means
  publication did not complete" (`docs/adapter-contract.md:233`).
  `Publishing!RejectionMeansUnpublished`, with `Adapters <- GitHubOnly`.
  The workspace takes this rejection as final, like any other. `ImplementsAdapter` holds
  until then: it says nothing from the step on at which a rejection is inferred of an
  update that is under way or applied (`InferredWrongly`).

Further behaviour that the models contain and that no sentence of the
documentation contradicts plainly:

* Registry: a wait that begins between the `.catch` and the `.finally` of a failed attempt,
  as when a rejected caller tries again at once, finds the attempt still there
  (`workspace-registry.ts:178`), starts none, and is rejected by its timer only.
  `NoWaiterLeftBehind` and `CallsSettle` speak of every other waiter.
* Working tree: base `a/x`; delete `a`, write a file `a`, revert `a/x`, which lifts its
  tombstone (`mutation-service.ts:107`). Only `a` is shown, and a commit has both `a` and
  `a/x`, which an adapter refuses.
* Working tree: base `a/x`; write `b`, rename it to `a/y`, delete `a/x`, publish the deletion
  alone. The new base has no directory `a` and the overlay no marker for it, so that `a/y`
  can be read and committed but is in no listing (`published-revision.ts:15-33`).
* Working tree: staging a rename also publishes a new file written at its
  origin afterwards (`change-set.ts:64`); deleting a directory that replaced a
  deleted base file shows the file again (`mutation-service.ts:163`); the record of a rename
  whose origin was written again outlives its publication (`published-revision.ts:43`).
* Working tree, paths of three names and more: a file may be written below a file that
  took the place of a deleted directory, since `requireDirectory`
  (`mutation-service.ts:181`) looks at the parent alone, and `stat` answers for it from
  the base (`working-tree.ts:51`). With `Paths <- Deep`, `BaseTrees <- DeepTree` and
  `MaxSteps = 6` TLC then finds `CleanTreeShowsBase` violated (delete `a`, write `a`,
  write `a/d/f`, publish: the fixture's check, `files.ts:35`, looks at parents only
  as well), and `RevertRestoresBase` (delete `a`, write `a`, write `a/d/d/f`, rename `a/d` to `a`,
  revert `a/d/f`). The other properties hold there too, since such paths are `disputed`.
* Storage: a save trusts an existing damaged blob
  (`storage-uri-workspace-storage.ts:219`, the reason for `~reused` in
  `Loadable`); saving an unchanged snapshot drops the previous generation (line 104).
* Provider host: a preparation under way when the host is disposed registers its
  workspace afterwards (`provider-host.ts:270`).
* Source control: a refresh in the microtask between the end of a loop and its
  `finally` joins a promise that is over (`source-control.ts:115`); an older list
  prunes a path that was staged meanwhile (line 171); a failed save takes memory back
  without an event and leaves on show what a read in between saw; a
  rejected list leaves `refreshRequested` set. The first and the third are
  what `excused` in `StaleViewIsExplained` names.
* Git bridge: through a shared attempt the kept bridge may have another key than
  the pairing recorded for it (`bridge-manager.ts:52`), and may be closed already when it
  is handed out; a cancellation is lost while the userscript awaits its token
  (`userscript-runtime.ts:132`); `MAX_ACTIVE` and `MAX_PENDING` are compared before an await.
* Mailbox: a sender's own scan that is under way may hand it its own packet; a scan that
  is under way goes on after `dispose` with an empty memory, which the owners'
  own flag makes harmless.
* Reader: a caller that comes between the failure of a read and its removal
  joins the read that failed.
* Transport: a request repeated by two relays may run again when its copy is
  decrypted while the tab's `dispose` ends (`userscript.ts:218`, the reason for
  `Over` in `HandledOnce`).

## Proofs

Every theorem holds for all values of its module's constants, from the named assumption
in that module alone; those of the storage also assume one window, and two of the
working tree paths of at most two names.

`WorkspaceProofs`:

* `TypeCorrect`: `Spec => []TypeOK`. `TypeOK` is inductive; the lemmas give the
  type of each helper (`RebaseType`, `ArgumentsType`, ...) and the common frames
  of calls (`BeginType`, `StepType`).
* `AlwaysReopens`: `Spec => []SnapshotsReopen`. What is on disk is not inductive
  by itself: a save writes `ws`, and a rollback restores `op.snap`. `ReopenInv`
  says the same of those two, that a call which may change the selected branch
  runs without a journal, and that a published journal names a revision.
  `GroundedInv` adds that every revision named anywhere, in a queued call too, has
  been made.
* `CommitsAreGuarded`: `Spec => []CommitMatchesWhatWasSeen`. `CallInv` says for each
  point a call may stand at which calls get there, that a commit's request is for
  the branch and base of its call, and, from the check of the executor to the
  reconciliation (`Committing`), that memory still is where the request says.
* `SettlingIsInvisible`: `Spec => PublicationKeepsVisible`. `OutcomeInv`: a journal that says
  published tells of a revision made of the journal's base and edits, so that
  rebasing moves edits from the overlay to the base and nothing else.
* `DirtyBranchesStay`: `Spec => DirtyBaseIsPinned`. `BranchInv`: a branch that is being
  visited for the first time is not in memory while it is listed, and a
  branch that is being deleted had no edits in `op.snap`.
* `AckedEditsStay`: `Spec => []AckedEditsAreKept /\ OwedUntilSettled`. `KeptInv`: an edit that is owed is in
  the snapshot on disk, in memory and in `op.snap`, except that memory
  may hold it as published while the resolution that says so is being saved
  (`WriteInv`). The proof failed at first: a crash between a publication and its
  save left edits owed that the reopened snapshot has in its base. The
  model's history variable was wrong there, not the code; `Load` settles them now.
  The theorem's second half, `OwedUntilSettled`, says what ends a debt: a revert of
  the edit, a base of its branch that contains it, or the branch being created again
  after another client deleted it. The last is a loss (`branch-workspaces.ts:77`, see
  Findings): `AddBranch` drops such edits from what is owed, and the theorem
  says so instead of passing over it. `SettledStep` is its lemma, one step per action
  that settles. TLC finds no violation of it with the constants of the runs branches
  and publication; no run lists it.
* `WriteAhead`: `Spec => []RequestIsJournalled`. `JournalInv` adds that memory
  covers the unsettled request as well as the disk (a later save must not
  drop it), that only steps of a publication, a resolution or a persist run
  meanwhile, and that the snapshot saved before a request leaves covers it.

`PublishingProofs`, for every set of adapters and foreign revisions:

* `LeasesAreKept`: `Spec => LeaseKept`, an action property: a request carries the lease
  of its call, or the head that Git found, as long as it is under way.
* `AdaptersImplementTheContract`: `Spec => ImplementsAdapter`. The refinement needs that
  an answer behind RPC claims no more than what became of the request, that
  nothing has been sent before the step that sends, and that an outcome is told
  at the end, except by an RPC client that gave up. It ends where the GitHub adapter
  infers wrongly (`InferredWrongly`, a finding above). Their conjunction `CallInv`
  is proved inductive, adapter by adapter.

and about the working tree, for every set of paths, contents and base trees:

* `PublishedIsShown`: `TreeSpec => []PublicationMatchesView`, `ChangesAreListed`:
  `TreeSpec => []ChangesAreComplete`, `PublicationsKeepFiles`: `TreeSpec => PublicationKeepsFiles`.
  The invariant `TreeInv` is `Tidy` (no file of the overlay lies under a tombstone or at a
  directory marker) and `Layers`: the base has no file below a file (`Flat`, unless all is
  disputed) and at every path free of `disputed` the overlay fits the base (`Fits`): no
  marker is on a file of the base, a deleted file of the base has a tombstone of its own,
  which is what a publication takes (a revert of a directory above lifts only its own), and
  above a file that is shown there are directories. Each operation has a lemma that it
  keeps `Layers` with what it adds to `disputed`; the conditions under which it adds are
  therefore the whole of the exception. That what is above a path is a path
  (`PartsArePaths`) is the one place that needs induction, along the length of a path.
* `CleanTreesShowTheirBase`: `TreeSpec => []CleanTreeShowsBase` and
  `RevertsRestoreTheBase`: `TreeSpec => RevertRestoresBase`, for paths of at most two names
  (`Shallow`). `ShallowInv` adds that the base has no file directly below a file, and that
  the target of a rename record is not deleted (`Live`). With deeper paths both are
  false, see "Further behaviour".

`ProviderHostProofs`, for any number of commands, keys, waiters and workspaces opened:

* `OneWorkspacePerHost`: `Spec => []OneWorkspace`, `CommandsShareTheWorkspace`:
  `Spec => []CallersShareIt` and `WaitersAreNotForgotten`: `Spec => []NoWaiterLeftBehind`.
  `QueueInv` says that the operations of `serializeWorkspace` stand in one line: there are
  places for them without gaps, each waits for the one before it, and
  `preparationTails` holds the last. Without the places one could not tell that
  nothing is left when the tail leaves. `WorkspaceInv` says what the operation
  that has its turn knows of the workspace, and that its metadata are written
  before it registers; `SelectInv`, that an operation that selects is one command's.

`GitBridgeProofs`, for any number of requests, keys, bridges, sessions and changes of
the settings; all its theorems follow from one inductive invariant, `GInv`:

* `RequestsStartOnce`: `Spec => []StartedOnce`, and `BridgeImplementsCall`:
  `Spec => ImplementsCall`. That a session refuses what it has seen is not enough,
  since other sessions hear the frame too. `RequestInv` adds that a request's
  frame is sent to one session, after which no outcome claims that it was not
  sent, and that a response in the channel belongs to a request that was made;
  `ScriptInv`, that what a session has not seen, or waits with for its token, has
  not been made. `Once` is the step of one request that `AdapterCall` allows.
* `CancellationsAreRemembered`: `Spec => CancelledStaysCancelled`, from `MemoryInv`: a
  cancelled request is in `seen`, or `seen` is full and refuses it.
* `NoBridgeIsLeftOpen`: `Spec => []BridgesAreOwned`. `ManagerInv` says that whoever awaits
  a bridge of the current generation awaits `manager.connecting`, and that
  none is kept meanwhile; otherwise a second caller's bridge would displace the first's.

`SnapshotStorageProofs`, for one window and any number of snapshots, blobs and damaged
files. The window count is a hypothesis of its theorems (`Alone`): with two, a collection
deletes what the other window is saving.

* `PointersStayBacked`: `Spec => []PointersAreBacked`. `WindowInv` says what a window
  relies on between two file operations: the blobs a save has written and the
  generation it takes for valid are there, both pointer files agree before it
  collects, and what it deletes is named by neither.
* `StorageImplementsStore`: `Spec => ImplementsStore`. `UndamagedInv` says that without
  damage no pointer falls back and nothing is repaired, so that `Loaded` is what the newest
  whole pointer names (`UndamagedRead`); then a save takes effect with its backup when
  there is no primary yet, and with its primary otherwise.
* `OneDamagedFileIsSurvived`: `Spec => []Loadable` if `MaxDamage <= 1`; with two damaged
  files, of which each could have been done without, it is false. It says that a damaged file
  makes the workspace unreadable when it is found (`damage.fatal`) or never. `LoadInv` says, until
  then and until a save has taken a damaged file for its own (`reused`), that the pointer file `load` reads is whole or absent and one of its two
  generations readable (`Served`), at every step of a save, a repair and a collection, and that
  what a window has written of the snapshot it is saving is whole (`Complete`).

`SourceControlProofs`, for any number of branches, paths, commands and loops:

* `ReadsAreSerial`: `Spec => []ReadsDoNotOverlap`. `ViewInv` says that only the loop
  the promise names is reading (`OneLoop`).
* `StalenessHasThreeCauses`: `Spec => []StaleViewIsExplained`. `ViewInv` also says
  that a request is served by the loop that runs (`RequestsAreServed`), and that
  what is shown, or about to be, is current, or an operation, a request or an excuse
  says why not (`CurrentOrAboutToBe`).
* `ViewIsOfItsBranch`: `Spec => ViewFollowsBranch`, from the same invariant.

`RevisionReadsProofs`, for any number of callers and revisions, any finite trees and weights
and any limits:

* `CacheExact`: `Spec => []CacheIsExact`. The invariant `CacheInv` says instead that the keys of the
  entries are the last ones of `used`, which names each key once (`Follows`,
  `Distinct`); a hit moves a key to the end of both, an eviction drops from the front of
  one. `Flying` adds that a read which is under way has nothing in the cache, so that
  storing it replaces nothing. That the byte count is the sum of the weights
  needs what removing a place, appending and dropping a prefix do to `Sums`
  (`WeightRemoved`, `WeightAppended`, `WeightDropped`): inductions over the length, for
  which `AllNumbers` states the principle for a set of numbers.
* `ReadsExact`: `Spec => []ReadsAreExact`. `CallsInv` says what a call knows at each await.
  Of a walk it is said as if the directory that is awaited were listed already
  (`Walking`): no directory on the stack is below another, each has its depth
  (`Stacked`), what was seen is everything below the origin that is not below the
  stack, all files of it are in the result once (`Listed`), no directory seen is too deep
  (`Shallow`), and `visited` is their number. So a walk that fails for its limits has seen more
  than the limits allow, and one that ends has an empty stack and has seen it all. A call that
  is told of a failure knows which of its own reads failed, and `FailedFor` says why
  NOT_FOUND and UNSUPPORTED are then true of the call: nothing below a directory that is not
  there is there, and a walk reads only what is at or below its origin. It rests on
  `Flying` and `Right`: what is cached or stored is what the revision has.
* `ReadsTypeCorrect`: `Spec => []TypeOK`, from the same invariant.

`TransportProofs`, for any number of tabs and calls and any limits. What a step may do to a
call, to the frames, to a tab and to the host's endpoints is proved once (`CallStep`,
`NetStep`, `TabStep`, `HostStep`); `RpcInv` is inductive by these alone.

* `RequestsRunOnce`, `RefusedNeverRuns`, `CancelledCallsStay`, `AnswersComeHome`:
  `Spec => []HandledOnce`, `[]RefusalsAreFinal`, `CancelledNeverStarts` and
  `[]AnswersAreOwn`. `LinkInv` says that what the network and a tab's memory hold of a call was
  sent to that call's endpoint, and `Blocked` why it cannot start: it is
  remembered, the memory is full, and a full memory stays as it is, or its tab has
  ended. A refusal is final because of it, or because no request was ever posted.
* `CallsAreNotStranded`: `Spec => []NoCallIsStranded`, from `HostInv`: a waiter and any
  endpoint at all mean that the broker is about to look.
* `LimitsAreKept`: `Spec => []TypeOK`, the limits included.

and about the mailbox, for any number of tabs, packets, chunks and limits:

* `MailboxDeliversOnce`: `MailboxSpec => []DeliveredAtMostOnce`. The property is not
  inductive: a tab forgets a packet by age, and must not find all its parts
  again, now or in names it listed before. `MailboxInv` adds that no packet is
  from the future (`Ages`), that no part lies beyond the manifest (`Parts`), that a
  packet without manifest has been handed to nobody (`Fresh`), that a scan on
  behalf of a sender is that sender's (`Senders`), and that a packet that was handed on
  is remembered by its time, lacks a part for good, or will be deleted before
  the tab reads manifests again (`Remembered`); a tab that is reading its chunks
  again will miss one (`Unreadable`).

Each proof has a lemma `Init => Inv`, one for the step with a case per action,
and combines them with PTL. `TypeCorrect`, `PublishingTypes`, `HostTypeCorrect`, `BridgeTypeCorrect`,
`MailboxTypes`, `StorageInvariant`, `TreeTypeCorrect`, `ReadsTypeCorrect`, `LimitsAreKept` and `ViewInvariant` prove the type invariants of their modules, which therefore no
run repeats. `ReadsDoNotOverlap`, which the repository's tests cover for one burst of
events, is proved and not run either.

Every invariant and every action property that a passing run checks is proved, with the
hypotheses named above. Only model-checked is liveness, which with `ENABLED` is beyond
the prover. Not claimed at all: the storage with more than one window, where a collection may
delete what the other saves, and `CleanTreeShowsBase` and `RevertRestoresBase` for
deeper paths, where they are false.

## Not modelled

Contents, timestamps, messages, dialogs' wording, encodings and validation of remote
JSON; codecs of RPC and of stored snapshots beyond which files they name; encryption and
page relays, which are part of the network of `BrowserRpc` and `GitBridge`; sessions of an endpoint
that change their capabilities; the counters' overflow, which the code makes an
error; several hosts of one tab, which share nothing but the slots for running
requests; `delete` of the storage, which nothing calls. History and the
timeline page read-only over immutable revisions and keep no state between calls;
diagnostics, host wiring and the extensions' bootstrap pages construct the other parts; the examples'
demonstrations repeat the adapters. In `git-session.ts` refreshes
that are shared also share the first caller's abort signal; `GitPublishing` has one
call at a time and does not show it. Components with status `not_modelled` or `partly` in
`PROJECT.json` carry their reason there.

## What is left

Two calls on one Git session; relays and the pairing page of the transport; two windows
on one storage directory, of which the code promises nothing yet.
