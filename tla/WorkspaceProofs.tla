--------------------------- MODULE WorkspaceProofs ---------------------------
(***************************************************************************)
(* Theorems about Workspace, for every set of branches and edits and every *)
(* value of the bounds.                                                    *)
(***************************************************************************)
EXTENDS Workspace, TLAPS

-----------------------------------------------------------------------------
(* Types of the records an action builds. *)

\* The base of one branch is replaced.
LEMMA SnapshotBase ==
    ASSUME NEW s \in Snapshot, NEW b \in Branches, NEW r \in MaybeRevision
    PROVE  [s EXCEPT !.base[b] = r] \in Snapshot
  BY DEF Snapshot

\* The overlay of one branch is replaced.
LEMMA SnapshotOverlay ==
    ASSUME NEW s \in Snapshot, NEW b \in Branches, NEW E \in SUBSET Edits
    PROVE  [s EXCEPT !.overlay[b] = E] \in Snapshot
  BY DEF Snapshot

\* Both, and the selected branch.
LEMMA SnapshotBranch ==
    ASSUME NEW s \in Snapshot, NEW b \in Branches, NEW r \in MaybeRevision,
           NEW E \in SUBSET Edits, NEW t \in Branches
    PROVE  [s EXCEPT !.sel = t, !.base[b] = r, !.overlay[b] = E] \in Snapshot
  BY DEF Snapshot

LEMMA NoJournalType == NoJournal \in Journal
  BY WorkspaceAssumption DEF NoJournal, Journal, MaybeRevision

LEMMA SnapshotJournal ==
    ASSUME NEW s \in Snapshot, NEW j \in Journal
    PROVE  [s EXCEPT !.journal = j] \in Snapshot
  BY DEF Snapshot

LEMMA NoSnapshotType == NoSnapshot \in Snapshot
  BY WorkspaceAssumption, NoJournalType DEF NoSnapshot, Snapshot, MaybeRevision

LEMMA NoCallType == NoCall \in Call
  BY WorkspaceAssumption DEF NoCall, Call, Seen, MaybeRevision

LEMMA NoRequestType == NoRequest \in Request
  BY WorkspaceAssumption DEF NoRequest, Request, MaybeRevision, Revision

LEMMA IdleType == Idle \in Operation
  BY NoCallType, NoSnapshotType, NoRequestType
     DEF Idle, Operation, PCs, MaybeRevision

\* Rebase and Unjournalled keep the type of a snapshot.
LEMMA RebaseType ==
    ASSUME NEW s \in Snapshot, NEW r \in MaybeRevision
    PROVE  Rebase(s, r) \in Snapshot
  <1>1. s.sel \in Branches /\ s.overlay[s.sel] \in SUBSET Edits
    BY DEF Snapshot
  <1> QED
    BY <1>1 DEF Rebase, Snapshot

LEMMA UnjournalledType ==
    ASSUME NEW s \in Snapshot
    PROVE  Unjournalled(s) \in Snapshot
  BY NoJournalType, SnapshotJournal DEF Unjournalled

\* The revisions that exist when n is the newest, and "none".
Known(n) == 0 .. n \cup {NoRevision}

\* The calls that can be made then: they name a revision that exists, and a
\* commit without selected paths is one of every change.
Ready(n) == {c \in Call : c.revision \in Known(n)
                          /\ (c.name \in Commits /\ c.whole => c.edits = Edits)}

LEMMA KnownType ==
    ASSUME used \in Revision
    PROVE  /\ 0 .. used \subseteq Revision
           /\ Known(used) \subseteq MaybeRevision /\ NoRevision \in Known(used)
           /\ 0 .. used \subseteq Known(used) /\ NoRevision \notin 0 .. used
           /\ \A r \in Known(used) : r # NoRevision => r \in 0 .. used
  BY WorkspaceAssumption DEF Known, Revision, MaybeRevision, NoRevision

LEMMA NoCallReady == NoCall \in Ready(used)
  BY NoCallType DEF NoCall, Ready, Known, Commits

LEMMA ArgumentReady ==
    ASSUME used \in Revision, NEW name \in CallNames, NEW b \in Branches,
           NEW E \in SUBSET Edits, NEW w \in BOOLEAN, NEW r \in Known(used),
           name \in Commits /\ w => E = Edits
    PROVE  Argument(name, b, E, w, r) \in Ready(used)
  <1>1. r \in MaybeRevision
    BY KnownType
  <1>2. Argument(name, b, E, w, r) \in Call
    BY <1>1, NoCallType DEF Argument, Call
  <1> QED
    BY <1>2, NoCallType DEF Argument, Ready, NoCall

\* What the environment passes to a call can be answered.
LEMMA ArgumentsReady ==
    ASSUME used \in Revision, NEW name \in CallNames
    PROVE  Arguments(name) \subseteq Ready(used)
  <1>1. 0 .. used \subseteq Known(used)
    BY KnownType
  <1>2. DefaultBranch \in Branches /\ NoRevision \in Known(used)
    BY WorkspaceAssumption, KnownType
  <1>3. ASSUME NEW r \in Known(used)
        PROVE  Selections(name, r) \subseteq Ready(used)
    BY <1>2, <1>3, ArgumentReady DEF Selections
  <1>4. CASE name = "writeFile"
    <2>1. Arguments(name) =
            {Argument(name, DefaultBranch, {e}, FALSE, NoRevision) : e \in Edits}
      BY <1>4 DEF Arguments
    <2>2. ASSUME NEW e \in Edits
          PROVE  Argument(name, DefaultBranch, {e}, FALSE, NoRevision) \in Ready(used)
      BY <1>2, ArgumentReady
    <2> QED
      BY <2>1, <2>2
  <1>5. CASE name = "revert"
    <2>1. Arguments(name) =
            {Argument(name, DefaultBranch, E, FALSE, NoRevision) :
                E \in {Edits} \cup {{e} : e \in Edits}}
      BY <1>5 DEF Arguments
    <2>2. {Edits} \cup {{e} : e \in Edits} \subseteq SUBSET Edits
      OBVIOUS
    <2>3. ASSUME NEW E \in {Edits} \cup {{e} : e \in Edits}
          PROVE  Argument(name, DefaultBranch, E, FALSE, NoRevision) \in Ready(used)
      BY <2>2, <1>2, ArgumentReady
    <2> QED
      BY <2>1, <2>3
  <1>6. CASE name = "switchBranch"
    <2>1. Arguments(name) =
            {Argument(name, b, {}, FALSE, NoRevision) : b \in Branches}
      BY <1>6 DEF Arguments
    <2> QED
      BY <2>1, <1>2, ArgumentReady
  <1>7. CASE name = "deleteBranch"
    <2>1. Arguments(name) =
            {Argument(name, b, {}, FALSE, NoRevision) : b \in Branches}
      BY <1>7 DEF Arguments
    <2> QED
      BY <2>1, <1>2, ArgumentReady
  <1>8. CASE name = "createBranch"
    <2>1. Arguments(name) =
            {Argument(name, b, {}, w, NoRevision) : b \in Branches, w \in BOOLEAN}
      BY <1>8 DEF Arguments
    <2>2. ASSUME NEW b \in Branches, NEW w \in BOOLEAN
          PROVE  Argument(name, b, {}, w, NoRevision) \in Ready(used)
      BY <1>2, <1>8, ArgumentReady DEF Commits
    <2> QED
      BY <2>1, <2>2
  <1>9. CASE name = "commitAndPushForceWithLease"
    <2>1. Arguments(name) =
            UNION {Selections(name, r) : r \in 0 .. used}
      BY <1>9 DEF Arguments
    <2> QED
      BY <2>1, <1>1, <1>3
  <1>10. CASE name = "commitAndPush"
    <2>1. Arguments(name) = Selections(name, NoRevision)
      BY <1>10 DEF Arguments
    <2> QED
      BY <2>1, <1>2, <1>3
  <1>11. CASE name = "amendAndPushForceWithLease"
    <2>1. Arguments(name) = Selections(name, NoRevision)
      BY <1>11 DEF Arguments
    <2> QED
      BY <2>1, <1>2, <1>3
  <1>12. CASE name = "resolvePendingCommitPublication"
    <2>1. Arguments(name) =
            {Argument(name, DefaultBranch, {}, FALSE, r) :
                r \in {NoRevision} \cup 0 .. used}
      BY <1>12 DEF Arguments
    <2>2. ASSUME NEW r \in {NoRevision} \cup 0 .. used
          PROVE  Argument(name, DefaultBranch, {}, FALSE, r) \in Ready(used)
      <3>1. r \in Known(used)
        BY <1>1, <1>2
      <3> QED
        BY <3>1, <1>2, ArgumentReady
    <2> QED
      BY <2>1, <2>2
  <1>13. CASE name = "refreshRemoteHead"
    <2>1. Arguments(name) =
            {Argument(name, DefaultBranch, {}, FALSE, NoRevision)}
      BY <1>13 DEF Arguments
    <2> QED
      BY <2>1, <1>2, ArgumentReady
  <1>14. CASE name = "persist"
    <2>1. Arguments(name) =
            {Argument(name, DefaultBranch, {}, FALSE, NoRevision)}
      BY <1>14 DEF Arguments
    <2> QED
      BY <2>1, <1>2, ArgumentReady
  <1> QED
    BY <1>4, <1>5, <1>6, <1>7, <1>8, <1>9, <1>10, <1>11, <1>12, <1>13, <1>14
       DEF CallNames

-----------------------------------------------------------------------------
(* Type correctness. *)

\* A step of the running call, and the start of one, keep the types.
LEMMA StepType ==
    ASSUME TypeOK, NEW from, NEW to \in PCs, Step(from, to)
    PROVE  /\ op' \in Operation
           /\ session' \in {"closed", "loaded", "open"}
           /\ queue' \in Seq(Call) /\ spent' \in Limits
  BY IdleType DEF TypeOK, Step, Operation

LEMMA HeadType ==
    ASSUME TypeOK, NEW name, Waiting(name)
    PROVE  Head(queue) \in Call /\ Tail(queue) \in Seq(Call)
  BY DEF TypeOK, Waiting

LEMMA BeginType ==
    ASSUME TypeOK, NEW name, NEW pc \in PCs, Begin(name, pc)
    PROVE  /\ Head(queue) \in Call
           /\ op' \in Operation /\ queue' \in Seq(Call)
           /\ head' \in [Branches -> MaybeRevision]
           /\ content' \in [Revision -> SUBSET Edits] /\ used' \in Revision
           /\ wire' \subseteq Request
           /\ session' \in {"closed", "loaded", "open"}
           /\ disk' \in Snapshot /\ spent' \in Limits
  <1>1. Waiting(name)
    BY DEF Begin
  <1>2. Head(queue) \in Call /\ Tail(queue) \in Seq(Call)
    BY <1>1, HeadType
  <1>3. op' = [Idle EXCEPT !.pc = pc, !.call = Head(queue), !.snap = ws]
    BY DEF Begin
  <1>4. op' \in Operation
    BY <1>2, <1>3, IdleType DEF TypeOK, Operation
  <1> QED
    BY <1>2, <1>4 DEF TypeOK, Begin, remote

\* Counting a bound up keeps it in its range.
LEMMA LimitsType ==
    ASSUME spent \in Limits
    PROVE  /\ spent.calls < MaxCalls => [spent EXCEPT !.calls = @ + 1] \in Limits
           /\ spent.foreign < MaxForeign => [spent EXCEPT !.foreign = @ + 1] \in Limits
           /\ spent.crashes < MaxCrashes => [spent EXCEPT !.crashes = @ + 1] \in Limits
           /\ spent.requests < MaxRequests =>
                 /\ [spent EXCEPT !.requests = @ + 1] \in Limits
                 /\ spent.requests + 1 \in 0 .. MaxRequests
  <1>1. /\ spent.calls \in 0 .. MaxCalls /\ spent.foreign \in 0 .. MaxForeign
        /\ spent.crashes \in 0 .. MaxCrashes /\ spent.requests \in 0 .. MaxRequests
    BY DEF Limits
  <1>2. ASSUME NEW n \in Nat, NEW i \in 0 .. n, i < n
        PROVE  i + 1 \in 0 .. n
    BY <1>2
  <1>3. /\ spent.calls < MaxCalls => spent.calls + 1 \in 0 .. MaxCalls
        /\ spent.foreign < MaxForeign => spent.foreign + 1 \in 0 .. MaxForeign
        /\ spent.crashes < MaxCrashes => spent.crashes + 1 \in 0 .. MaxCrashes
        /\ spent.requests < MaxRequests => spent.requests + 1 \in 0 .. MaxRequests
    BY <1>1, <1>2, WorkspaceAssumption
  <1> QED
    BY <1>3 DEF Limits

\* The next revision of the remote is a revision.
LEMMA NextRevision ==
    ASSUME TypeOK, used < MaxRevision
    PROVE  used + 1 \in Revision /\ used + 1 \in MaybeRevision
  BY WorkspaceAssumption DEF TypeOK, Revision, MaybeRevision

\* An action leaves every variable in its type.
LEMMA TypeStep == TypeOK /\ [Next]_vars => TypeOK'
  <1> SUFFICES ASSUME TypeOK, [Next]_vars PROVE TypeOK'
    OBVIOUS
  <1>a. /\ ws.sel \in Branches /\ Base \in MaybeRevision
        /\ Overlay \in SUBSET Edits /\ Target \in Branches
        /\ op.call \in Call /\ op.snap \in Snapshot /\ op.request \in Request
        /\ op.revision \in MaybeRevision /\ op.call.branch \in Branches
    BY DEF TypeOK, Base, Overlay, Target, Snapshot, Operation, Call
  <1>1. CASE Load
    BY <1>1 DEF TypeOK, Load, remote
  <1>2. CASE Ensure
    <2>1. head[ws.sel] \in MaybeRevision
      BY <1>a DEF TypeOK
    <2> QED
      BY <1>2, <1>a, <2>1, SnapshotBase DEF TypeOK, Ensure, remote
  <1>3. CASE OpenThrows
    BY <1>3, NoSnapshotType DEF TypeOK, OpenThrows, remote
  <1>4. CASE Recover
    <2>1. ws' \in Snapshot /\ acked' \subseteq Branches \X Edits
      <3>1. ws.journal.published \in MaybeRevision
        BY DEF TypeOK, Snapshot, Journal
      <3> QED
        BY <1>4, <3>1, RebaseType, UnjournalledType
           DEF TypeOK, Recover, RecoverPrepared, RecoverPublished
    <2> QED
      BY <1>4, <2>1, NoRequestType DEF TypeOK, Recover, remote
  <1>5. CASE OpenAsStored
    BY <1>5 DEF TypeOK, OpenAsStored, remote
  <1>6. CASE Crash
    <2>1. spent' \in Limits
      BY <1>6, LimitsType DEF TypeOK, Crash
    <2> QED
      BY <1>6, <2>1, NoSnapshotType, IdleType DEF TypeOK, Crash, remote
  <1>7. CASE Refuse
    BY <1>7 DEF TypeOK, Refuse, remote
  <1>8. CASE WriteFile
    <2>1. Begin("writeFile", "save")
      BY <1>8 DEF WriteFile
    <2>2. Head(queue).edits \in SUBSET Edits
      BY <2>1, BeginType DEF Call, PCs
    <2>3. ws' \in Snapshot
      BY <1>8, <1>a, <2>2, SnapshotOverlay DEF TypeOK, WriteFile, Overlay
    <2> QED
      BY <1>8, <2>1, <2>3, BeginType DEF TypeOK, WriteFile, PCs
  <1>9. CASE Revert
    <2>1. Begin("revert", "save")
      BY <1>9 DEF Revert
    <2>2. ws' \in Snapshot
      BY <1>9, <1>a, SnapshotOverlay DEF TypeOK, Revert, Overlay
    <2> QED
      BY <1>9, <2>1, <2>2, BeginType DEF TypeOK, Revert, PCs
  <1>10. CASE SwitchVisited
    <2>1. Begin("switchBranch", "save")
      BY <1>10 DEF SwitchVisited
    <2>2. ws' \in Snapshot
      BY <1>10, <2>1, BeginType DEF TypeOK, SwitchVisited, Snapshot, Call, PCs
    <2> QED
      BY <1>10, <2>1, <2>2, BeginType DEF TypeOK, SwitchVisited, PCs
  <1>11. CASE SwitchUnvisited
    <2>1. Begin("switchBranch", "listing")
      BY <1>11 DEF SwitchUnvisited
    <2> QED
      BY <1>11, <2>1, BeginType DEF TypeOK, SwitchUnvisited, PCs
  <1>12. CASE Refresh
    <2>1. Begin("refreshRemoteHead", "listing")
      BY <1>12 DEF Refresh
    <2> QED
      BY <1>12, <2>1, BeginType DEF TypeOK, Refresh, PCs
  <1>13. CASE Persist
    <2>1. Begin("persist", "saveQuietly")
      BY <1>13 DEF Persist
    <2> QED
      BY <1>13, <2>1, BeginType DEF TypeOK, Persist, PCs
  <1>14. CASE CreateBranch
    <2>1. Begin("createBranch", "creating")
      BY <1>14 DEF CreateBranch
    <2> QED
      BY <1>14, <2>1, BeginType DEF TypeOK, CreateBranch, PCs
  <1>15. CASE DeleteBranch
    <2>1. Begin("deleteBranch", "saveRemoval")
      BY <1>15 DEF DeleteBranch
    <2>2. Head(queue).branch \in Branches /\ NoRevision \in MaybeRevision
      BY <2>1, BeginType DEF Call, PCs, MaybeRevision
    <2>3. ws' \in Snapshot
      BY <1>15, <2>2, SnapshotBase DEF TypeOK, DeleteBranch
    <2> QED
      BY <1>15, <2>1, <2>3, BeginType DEF TypeOK, DeleteBranch, PCs
  <1>16. ASSUME NEW name \in Commits, StartCommit(name)
         PROVE  TypeOK'
    <2> DEFINE c == Head(queue)
    <2>1. c \in Call /\ Tail(queue) \in Seq(Call)
      BY <1>16, HeadType DEF StartCommit
    <2>2. Base \in Revision /\ Expected(c) \in MaybeRevision /\ Changes(c) \in SUBSET Edits
      BY <1>16, <1>a, <2>1 DEF StartCommit, Expected, Changes, Call, MaybeRevision
    <2>3. /\ spent.requests + 1 \in 0 .. MaxRequests
          /\ spent' \in Limits
      BY <1>16, LimitsType DEF StartCommit, TypeOK
    <2>4. [phase |-> "prepared", branch |-> ws.sel, expected |-> Expected(c),
           published |-> NoRevision] \in Journal
      BY <1>a, <2>2 DEF Journal, MaybeRevision
    <2>5. ws' \in Snapshot
      BY <1>16, <2>4, SnapshotJournal DEF StartCommit, TypeOK
    <2>6. [id |-> spent.requests + 1, branch |-> ws.sel, base |-> Base,
           expected |-> Expected(c), changes |-> Changes(c)] \in Request
      BY <1>a, <2>2, <2>3 DEF Request
    <2>7. op' \in Operation
      BY <1>16, <2>1, <2>6 DEF StartCommit, TypeOK, Operation, PCs, MaybeRevision
    <2> QED
      BY <1>16, <2>1, <2>3, <2>5, <2>7 DEF StartCommit, TypeOK, remote
  <1>17. CASE ResolveNotPublished
    <2>1. Begin("resolvePendingCommitPublication", "save")
      BY <1>17 DEF ResolveNotPublished
    <2>2. ws' \in Snapshot
      BY <1>17, UnjournalledType DEF TypeOK, ResolveNotPublished
    <2> QED
      BY <1>17, <2>1, <2>2, BeginType, NoRequestType
         DEF TypeOK, ResolveNotPublished, PCs
  <1>18. CASE ResolvePublished
    <2>1. Head(queue) \in Call /\ Tail(queue) \in Seq(Call)
      BY <1>18, HeadType DEF ResolvePublished
    <2>2. Unjournalled(Rebase(ws, Head(queue).revision)) \in Snapshot
      BY <2>1, RebaseType, UnjournalledType DEF TypeOK, Call
    <2>3. CASE Begin("resolvePendingCommitPublication", "save")
               /\ ws' = Unjournalled(Rebase(ws, Head(queue).revision))
               /\ attempt' = NoRequest
      BY <1>18, <2>2, <2>3, BeginType, NoRequestType
         DEF TypeOK, ResolvePublished, PCs
    <2>4. CASE queue' = Tail(queue) /\ UNCHANGED <<remote, wire, session, ws, op,
                                                 disk, spent, attempt>>
      BY <1>18, <2>1, <2>4 DEF TypeOK, ResolvePublished, remote
    <2> QED
      BY <1>18, <2>3, <2>4 DEF ResolvePublished
  <1>19. CASE Save
    BY <1>19, <1>a, StepType DEF TypeOK, Save, PCs, remote, Call
  <1>20. CASE SaveThrows
    BY <1>20, <1>a, StepType DEF TypeOK, SaveThrows, PCs, remote
  <1>21. CASE SaveQuietly
    BY <1>21, <1>a, StepType DEF TypeOK, SaveQuietly, PCs, remote
  <1>22. CASE ListBranches
    <2>1. op' \in Operation
      BY <1>22, <1>a DEF TypeOK, ListBranches, Operation, PCs
    <2> QED
      BY <1>22, <2>1 DEF TypeOK, ListBranches, remote
  <1>23. CASE ApplySwitch
    <2>1. ws' \in Snapshot
      BY <1>23, <1>a, SnapshotBranch DEF TypeOK, ApplySwitch
    <2> QED
      BY <1>23, <2>1, StepType DEF TypeOK, ApplySwitch, PCs, remote
  <1>24. CASE ApplyRefresh
    <2>1. ws' \in Snapshot
      BY <1>24, <1>a, SnapshotBase DEF TypeOK, ApplyRefresh
    <2> QED
      BY <1>24, <2>1, StepType DEF TypeOK, ApplyRefresh, PCs, remote
  <1>25. CASE ListedNothing
    BY <1>25, <1>a, StepType DEF TypeOK, ListedNothing, PCs, remote
  <1>26. CASE CreateThrows
    BY <1>26, <1>a, StepType DEF TypeOK, CreateThrows, PCs, remote
  <1>27. CASE AddBranch
    <2>1. ws' \in Snapshot
      BY <1>27, <1>a DEF TypeOK, AddBranch, Snapshot
    <2> QED
      BY <1>27, <2>1, StepType DEF TypeOK, AddBranch, PCs, remote
  <1>28. CASE SaveRemoval
    BY <1>28, <1>a, StepType DEF TypeOK, SaveRemoval, PCs, remote
  <1>29. CASE Deleted
    BY <1>29, <1>a, StepType DEF TypeOK, Deleted, PCs, remote
  <1>30. CASE DeleteThrows
    BY <1>30, <1>a, StepType DEF TypeOK, DeleteThrows, PCs, remote
  <1>31. CASE SaveJournal
    BY <1>31, <1>a, StepType, UnjournalledType DEF TypeOK, SaveJournal, PCs, remote
  <1>32. CASE CommitThrows
    BY <1>32, StepType DEF TypeOK, CommitThrows, PCs, remote
  <1>33. CASE CommitRejected
    BY <1>33, StepType, UnjournalledType, NoRequestType
       DEF TypeOK, CommitRejected, PCs, remote
  <1>34. CASE CommitPublished
    <2>1. ws' \in Snapshot
      BY <1>34, <1>a DEF TypeOK, CommitPublished, Snapshot, Journal
    <2> QED
      BY <1>34, <2>1, StepType DEF TypeOK, CommitPublished, PCs, remote
  <1>35. CASE SaveOutcome
    BY <1>35, StepType DEF TypeOK, SaveOutcome, PCs, remote
  <1>36. CASE Reconcile
    <2>1. [ws EXCEPT !.base[ws.sel] = op.revision, !.overlay[ws.sel] = {}] \in Snapshot
      BY <1>a DEF TypeOK, Snapshot
    <2>2. ws' \in Snapshot
      BY <1>36, <1>a, <2>1, RebaseType, UnjournalledType DEF TypeOK, Reconcile
    <2> QED
      BY <1>36, <2>2, StepType, NoRequestType DEF TypeOK, Reconcile, PCs, remote
  <1>37. CASE ReconcileLater
    BY <1>37, StepType DEF TypeOK, ReconcileLater, PCs, remote
  <1>38. CASE RemoteCreate
    <2>1. op' \in Operation
      BY <1>38, <1>a DEF TypeOK, RemoteCreate, Operation, PCs
    <2> QED
      BY <1>38, <1>a, <2>1 DEF TypeOK, RemoteCreate
  <1>39. CASE RemoteDelete
    BY <1>39, <1>a, StepType DEF TypeOK, RemoteDelete, PCs, MaybeRevision
  <1>40. ASSUME NEW q \in wire, RemoteApply(q)
         PROVE  TypeOK'
    <2>1. q \in Request /\ used + 1 \in Revision /\ used + 1 \in MaybeRevision
      BY <1>40, NextRevision DEF TypeOK, RemoteApply
    <2>2. head' \in [Branches -> MaybeRevision]
      BY <1>40, <2>1 DEF TypeOK, RemoteApply
    <2>3. content[q.base] \cup q.changes \in SUBSET Edits
      BY <2>1 DEF TypeOK, Request
    <2>4. content' \in [Revision -> SUBSET Edits]
      BY <1>40, <2>1, <2>3 DEF TypeOK, RemoteApply
    <2>5. op' \in Operation
      BY <1>40, <2>1 DEF TypeOK, RemoteApply, Operation, PCs
    <2> QED
      BY <1>40, <2>1, <2>2, <2>4, <2>5 DEF TypeOK, RemoteApply
  <1>41. ASSUME NEW q \in wire, RemoteRefuse(q)
         PROVE  TypeOK'
    <2>1. op' \in Operation
      BY <1>41 DEF TypeOK, RemoteRefuse, Operation, PCs
    <2> QED
      BY <1>41, <2>1 DEF TypeOK, RemoteRefuse, remote
  <1>42. ASSUME NEW q \in wire, LoseRequest(q)
         PROVE  TypeOK'
    BY <1>42 DEF TypeOK, LoseRequest, remote
  <1>43. ASSUME NEW name \in Offered, Submit(name)
         PROVE  TypeOK'
    <2>1. name \in CallNames
      BY WorkspaceAssumption
    <2>2. PICK c \in Arguments(name) :
             queue' = Append(queue,
                 IF name \in Guarded
                 THEN [c EXCEPT !.seen = [branch |-> ws.sel, base |-> Base]]
                 ELSE c)
      BY <1>43 DEF Submit
    <2>3. c \in Call
      BY <2>1, <2>2, ArgumentsReady DEF TypeOK, Ready
    <2>4. [c EXCEPT !.seen = [branch |-> ws.sel, base |-> Base]] \in Call
      BY <1>a, <2>3 DEF Call, Seen
    <2>5. queue' \in Seq(Call)
      BY <2>2, <2>3, <2>4 DEF TypeOK
    <2>6. spent' \in Limits
      BY <1>43, LimitsType DEF TypeOK, Submit
    <2> QED
      BY <1>43, <2>5, <2>6 DEF TypeOK, Submit, remote
  <1>44. ASSUME NEW b \in Branches, OthersMove(b)
         PROVE  TypeOK'
    <2>1. spent' \in Limits
      BY <1>44, LimitsType DEF TypeOK, OthersMove
    <2>2. 0 .. used \subseteq MaybeRevision /\ NoRevision \in MaybeRevision
      BY WorkspaceAssumption DEF TypeOK, Revision, MaybeRevision
    <2>3. used < MaxRevision => used + 1 \in Revision /\ used + 1 \in MaybeRevision
      BY NextRevision
    <2>4. /\ head' \in [Branches -> MaybeRevision]
          /\ content' \in [Revision -> SUBSET Edits] /\ used' \in Revision
      BY <1>44, <2>2, <2>3 DEF TypeOK, OthersMove
    <2> QED
      BY <1>44, <2>1, <2>4 DEF TypeOK, OthersMove
  <1>45. CASE UNCHANGED vars
    BY <1>45 DEF TypeOK, vars
  <1> QED
    BY <1>1, <1>2, <1>3, <1>4, <1>5, <1>6, <1>7, <1>8, <1>9, <1>10, <1>11, <1>12,
       <1>13, <1>14, <1>15, <1>16, <1>17, <1>18, <1>19, <1>20, <1>21, <1>22,
       <1>23, <1>24, <1>25, <1>26, <1>27, <1>28, <1>29, <1>30, <1>31, <1>32,
       <1>33, <1>34, <1>35, <1>36, <1>37, <1>38, <1>39, <1>40, <1>41, <1>42,
       <1>43, <1>44, <1>45
       DEF Next, Open, Start, Continue, Remote

LEMMA TypeInit == Init => TypeOK
  <1> SUFFICES ASSUME Init PROVE TypeOK
    OBVIOUS
  <1>1. 0 \in Revision /\ 0 \in MaybeRevision /\ NoRevision \in MaybeRevision
    BY WorkspaceAssumption DEF Revision, MaybeRevision
  <1>2. spent \in Limits
    BY WorkspaceAssumption DEF Init, Limits
  <1> QED
    BY <1>1, <1>2, NoSnapshotType, IdleType, NoRequestType DEF Init, TypeOK

\* Every variable keeps its type, whatever the remote, the callers, the storage
\* and the crashes do.
THEOREM TypeCorrect == Spec => []TypeOK
  BY TypeInit, TypeStep, PTL DEF Spec

-----------------------------------------------------------------------------
(* The workspace can always be reopened. *)

\* A snapshot that opens, and whose published journal names its revision.
Opens(s) ==
    /\ s.base[s.sel] # NoRevision
    /\ Journalled(s) => s.journal.branch = s.sel
    /\ s.journal.phase = "published" => s.journal.published # NoRevision

Stored(s) == s # NoSnapshot => Opens(s)

\* SnapshotsReopen is not inductive: what a rollback puts back must open too,
\* the branch operations run without a journal, a publication runs with one, and
\* the remote's answers carry a revision.
ReopenInv ==
    /\ Stored(disk)
    /\ session = "loaded" => Stored(ws)
    /\ session = "open" => Opens(ws)
    /\ op.pc # "idle" => session = "open" /\ Opens(op.snap)
    /\ op.pc \in {"listing", "listed", "creating", "created"} => ~Journalled(ws)
    /\ op.pc \in {"saveJournal", "publishing", "succeeded", "refused"} => Journalled(ws)
    /\ op.pc \in {"created", "succeeded", "saveOutcome", "reconcile"} =>
          op.revision # NoRevision

LEMMA NoSnapshotStored == Stored(NoSnapshot)
  BY DEF Stored

\* Moving a base onto a revision keeps a snapshot open, journal or not.
LEMMA OpensBase ==
    ASSUME NEW s \in Snapshot, Opens(s), NEW b \in Branches,
           NEW r \in MaybeRevision, r # NoRevision
    PROVE  Opens([s EXCEPT !.base[b] = r])
  BY DEF Opens, Snapshot, Journalled

LEMMA OpensRebase ==
    ASSUME NEW s \in Snapshot, NEW r \in MaybeRevision, r # NoRevision
    PROVE  Opens(Unjournalled(Rebase(s, r)))
  BY DEF Opens, Snapshot, Journalled, Unjournalled, Rebase, NoJournal

LEMMA OpensUnjournalled ==
    ASSUME NEW s \in Snapshot, s.base[s.sel] # NoRevision
    PROVE  Opens(Unjournalled(s))
  BY DEF Opens, Snapshot, Journalled, Unjournalled, NoJournal

\* What is on disk after a save that may have failed.
LEMMA StoredSave ==
    ASSUME Stored(disk), Opens(ws), disk' \in {disk, ws}
    PROVE  Stored(disk')
  BY DEF Stored

LEMMA ReopenInit == Init => ReopenInv
  BY DEF Init, ReopenInv, Stored, Idle

\* Actions that leave the workspace, its disk and its running call alone.
LEMMA ReopenFrame ==
    ASSUME ReopenInv, UNCHANGED <<session, ws, op, disk>>
    PROVE  ReopenInv'
  BY DEF ReopenInv, Stored, Opens, Journalled

LEMMA ReopenStep == TypeOK /\ TypeOK' /\ ReopenInv /\ [Next]_vars => ReopenInv'
  <1> SUFFICES ASSUME TypeOK, TypeOK', ReopenInv, [Next]_vars PROVE ReopenInv'
    OBVIOUS
  <1>a. /\ ws \in Snapshot /\ ws' \in Snapshot /\ disk \in Snapshot
        /\ ws.sel \in Branches /\ op.snap \in Snapshot /\ op \in Operation
        /\ op.call \in Call /\ op.revision \in MaybeRevision /\ Target \in Branches
    BY DEF TypeOK, Target, Snapshot, Operation, Call
  <1>1. CASE Load
    BY <1>1 DEF ReopenInv, Load
  <1>2. CASE Ensure
    <2>1. ws = NoSnapshot
      BY <1>2 DEF ReopenInv, Ensure, Stored, Opens, Base
    <2>2. Opens(ws')
      BY <1>2, <1>a, <2>1, WorkspaceAssumption
         DEF Ensure, Opens, Snapshot, NoSnapshot, NoJournal, Journalled
    <2> QED
      BY <1>2, <2>2 DEF ReopenInv, Ensure, Stored
  <1>3. CASE OpenThrows
    BY <1>3 DEF ReopenInv, OpenThrows
  <1>4. CASE Recover
    <2>1. Base # NoRevision /\ ws # NoSnapshot
      BY <1>4, WorkspaceAssumption DEF Recover, Base, NoSnapshot
    <2>2. Opens(ws)
      BY <1>4, <2>1 DEF ReopenInv, Recover, Stored
    <2>3. ws.journal.published \in MaybeRevision
      BY <1>a DEF Snapshot, Journal
    <2>4. Opens(ws')
      BY <1>4, <1>a, <2>1, <2>2, <2>3, OpensRebase, OpensUnjournalled
         DEF Recover, RecoverPrepared, RecoverPublished, Opens, Base
    <2> QED
      BY <1>4, <2>4 DEF ReopenInv, Recover, Stored
  <1>5. CASE OpenAsStored
    <2>1. Base # NoRevision /\ ws # NoSnapshot
      BY <1>5, WorkspaceAssumption DEF OpenAsStored, Base, NoSnapshot
    <2> QED
      BY <1>5, <2>1 DEF ReopenInv, OpenAsStored, Stored
  <1>6. CASE Crash
    <2>1. Saving => Opens(ws)
      BY DEF ReopenInv, Saving
    <2>2. Stored(disk')
      BY <1>6, <2>1 DEF ReopenInv, Crash, Stored
    <2> QED
      BY <1>6, <2>2 DEF ReopenInv, Crash, Idle
  <1>7. CASE Refuse
    BY <1>7, ReopenFrame DEF Refuse
  <1>8. CASE WriteFile
    <2>1. /\ session = "open" /\ Opens(ws) /\ op' = [Idle EXCEPT !.pc = "save",
                !.call = Head(queue), !.snap = ws]
          /\ disk' = disk /\ session' = session /\ Head(queue) \in Call
          /\ Head(queue).name = "writeFile" /\ ~Blocked(Head(queue))
      BY <1>8, BeginType DEF WriteFile, Begin, Waiting, ReopenInv, PCs
    <2>2. Opens(ws')
      BY <1>8, <1>a, <2>1 DEF WriteFile, Opens, Snapshot, Journalled
    <2> QED
      BY <1>8, <2>1, <2>2 DEF ReopenInv, Idle
  <1>9. CASE Revert
    <2>1. /\ session = "open" /\ Opens(ws) /\ op' = [Idle EXCEPT !.pc = "save",
                !.call = Head(queue), !.snap = ws]
          /\ disk' = disk /\ session' = session /\ Head(queue) \in Call
          /\ Head(queue).name = "revert" /\ ~Blocked(Head(queue))
      BY <1>9, BeginType DEF Revert, Begin, Waiting, ReopenInv, PCs
    <2>2. Opens(ws')
      BY <1>9, <1>a, <2>1 DEF Revert, Opens, Snapshot, Journalled
    <2> QED
      BY <1>9, <2>1, <2>2 DEF ReopenInv, Idle
  <1>10. CASE SwitchVisited
    <2>1. /\ session = "open" /\ Opens(ws) /\ op' = [Idle EXCEPT !.pc = "save",
                !.call = Head(queue), !.snap = ws]
          /\ disk' = disk /\ session' = session /\ Head(queue) \in Call
          /\ Head(queue).name = "switchBranch" /\ ~Blocked(Head(queue))
      BY <1>10, BeginType DEF SwitchVisited, Begin, Waiting, ReopenInv, PCs
    <2>2. Opens(ws')
      BY <1>10, <1>a, <2>1 DEF SwitchVisited, Blocked, Opens, Snapshot, Call, Journalled
    <2> QED
      BY <1>10, <2>1, <2>2 DEF ReopenInv, Idle
  <1>11. CASE SwitchUnvisited
    <2>1. /\ session = "open" /\ Opens(ws) /\ op' = [Idle EXCEPT !.pc = "listing",
                !.call = Head(queue), !.snap = ws]
          /\ disk' = disk /\ session' = session /\ Head(queue) \in Call
          /\ Head(queue).name = "switchBranch" /\ ~Blocked(Head(queue))
      BY <1>11, BeginType DEF SwitchUnvisited, Begin, Waiting, ReopenInv, PCs
    <2> QED
      BY <1>11, <2>1 DEF ReopenInv, SwitchUnvisited, Idle, Blocked, Opens, Journalled
  <1>12. CASE Refresh
    <2>1. /\ session = "open" /\ Opens(ws) /\ op' = [Idle EXCEPT !.pc = "listing",
                !.call = Head(queue), !.snap = ws]
          /\ disk' = disk /\ session' = session /\ Head(queue) \in Call
          /\ Head(queue).name = "refreshRemoteHead" /\ ~Blocked(Head(queue))
      BY <1>12, BeginType DEF Refresh, Begin, Waiting, ReopenInv, PCs
    <2> QED
      BY <1>12, <2>1 DEF ReopenInv, Refresh, Idle, Blocked, Opens, Journalled
  <1>13. CASE Persist
    <2>1. /\ session = "open" /\ Opens(ws) /\ op' = [Idle EXCEPT !.pc = "saveQuietly",
                !.call = Head(queue), !.snap = ws]
          /\ disk' = disk /\ session' = session /\ Head(queue) \in Call
          /\ Head(queue).name = "persist" /\ ~Blocked(Head(queue))
      BY <1>13, BeginType DEF Persist, Begin, Waiting, ReopenInv, PCs
    <2> QED
      BY <1>13, <2>1 DEF ReopenInv, Persist, Idle, Blocked, Opens, Journalled
  <1>14. CASE CreateBranch
    <2>1. /\ session = "open" /\ Opens(ws) /\ op' = [Idle EXCEPT !.pc = "creating",
                !.call = Head(queue), !.snap = ws]
          /\ disk' = disk /\ session' = session /\ Head(queue) \in Call
          /\ Head(queue).name = "createBranch" /\ ~Blocked(Head(queue))
      BY <1>14, BeginType DEF CreateBranch, Begin, Waiting, ReopenInv, PCs
    <2> QED
      BY <1>14, <2>1 DEF ReopenInv, CreateBranch, Idle, Blocked, Opens, Journalled
  <1>15. CASE DeleteBranch
    <2>1. /\ session = "open" /\ Opens(ws) /\ op' = [Idle EXCEPT !.pc = "saveRemoval",
                !.call = Head(queue), !.snap = ws]
          /\ disk' = disk /\ session' = session /\ Head(queue) \in Call
          /\ Head(queue).name = "deleteBranch" /\ ~Blocked(Head(queue))
      BY <1>15, BeginType DEF DeleteBranch, Begin, Waiting, ReopenInv, PCs
    <2>2. Opens(ws')
      BY <1>15, <1>a, <2>1 DEF DeleteBranch, Opens, Snapshot, Journalled, Call
    <2> QED
      BY <1>15, <2>1, <2>2 DEF ReopenInv, Idle
  <1>16. ASSUME NEW name \in Commits, StartCommit(name)
         PROVE  ReopenInv'
    <2>1. session = "open" /\ Opens(ws) /\ Opens(ws')
      BY <1>16, <1>a DEF StartCommit, Waiting, ReopenInv, Opens, Snapshot, Journalled
    <2>2. Journalled(ws')
      BY <1>16, <1>a DEF StartCommit, Snapshot, Journalled
    <2>3. op'.pc = "saveJournal" /\ op'.snap = ws /\ session' = session /\ disk' = disk
      BY <1>16 DEF StartCommit
    <2> QED
      BY <2>1, <2>2, <2>3 DEF ReopenInv
  <1>17. CASE ResolveNotPublished
    <2>1. /\ session = "open" /\ Opens(ws) /\ op' = [Idle EXCEPT !.pc = "save",
                !.call = Head(queue), !.snap = ws]
          /\ disk' = disk /\ session' = session /\ Head(queue) \in Call
          /\ Head(queue).name = "resolvePendingCommitPublication" /\ ~Blocked(Head(queue))
      BY <1>17, BeginType DEF ResolveNotPublished, Begin, Waiting, ReopenInv, PCs
    <2>2. Opens(ws')
      BY <1>17, <1>a, <2>1, OpensUnjournalled DEF ResolveNotPublished, Opens
    <2> QED
      BY <1>17, <2>1, <2>2 DEF ReopenInv, Idle
  <1>18. CASE ResolvePublished
    <2>1. CASE UNCHANGED <<session, ws, op, disk>>
      BY <2>1, ReopenFrame
    <2>2. CASE /\ Begin("resolvePendingCommitPublication", "save")
               /\ ws' = Unjournalled(Rebase(ws, Head(queue).revision))
      <3>1. session = "open" /\ Opens(ws) /\ Head(queue) \in Call
        BY <2>2, BeginType DEF Begin, Waiting, ReopenInv, PCs
      <3>2. Opens(ws')
        BY <1>18, <1>a, <2>2, <3>1, OpensRebase DEF ResolvePublished, Call
      <3> QED
        BY <2>2, <3>1, <3>2 DEF Begin, ReopenInv, Idle
    <2> QED
      BY <1>18, <2>1, <2>2 DEF ResolvePublished
  <1>19. CASE Save
    BY <1>19, <1>a, StoredSave DEF ReopenInv, Save, Step, Idle, Operation, Stored
  <1>20. CASE SaveThrows
    BY <1>20, <1>a, StoredSave DEF ReopenInv, SaveThrows, Step, Idle, Operation
  <1>21. CASE SaveQuietly
    BY <1>21, <1>a, StoredSave DEF ReopenInv, SaveQuietly, Step, Idle, Operation
  <1>22. CASE ListBranches
    BY <1>22, <1>a, StoredSave DEF ReopenInv, ListBranches, Step, Idle, Operation, Opens, Journalled
  <1>23. CASE ApplySwitch
    <2>1. Opens(ws')
      BY <1>23, <1>a DEF ReopenInv, ApplySwitch, Step, Opens, Snapshot, Journalled
    <2> QED
      BY <1>23, <1>a, <2>1, StoredSave DEF ReopenInv, ApplySwitch, Step, Idle, Operation
  <1>24. CASE ApplyRefresh
    <2>1. Opens(ws')
      BY <1>24, <1>a, OpensBase DEF ReopenInv, ApplyRefresh, Step
    <2> QED
      BY <1>24, <1>a, <2>1, StoredSave DEF ReopenInv, ApplyRefresh, Step, Idle, Operation
  <1>25. CASE ListedNothing
    BY <1>25, <1>a, StoredSave DEF ReopenInv, ListedNothing, Step, Idle, Operation
  <1>26. CASE CreateThrows
    BY <1>26, <1>a, StoredSave DEF ReopenInv, CreateThrows, Step, Idle, Operation
  <1>27. CASE AddBranch
    <2>1. Opens(ws')
      BY <1>27, <1>a DEF ReopenInv, AddBranch, Step, Opens, Snapshot, Journalled, Call
    <2> QED
      BY <1>27, <1>a, <2>1, StoredSave DEF ReopenInv, AddBranch, Step, Idle, Operation
  <1>28. CASE SaveRemoval
    BY <1>28, <1>a, StoredSave DEF ReopenInv, SaveRemoval, Step, Idle, Operation, Stored
  <1>29. CASE Deleted
    BY <1>29, <1>a, StoredSave DEF ReopenInv, Deleted, Step, Idle, Operation
  <1>30. CASE DeleteThrows
    BY <1>30, <1>a, StoredSave DEF ReopenInv, DeleteThrows, Step, Idle, Operation
  <1>31. CASE SaveJournal
    <2>1. Opens(ws) /\ Opens(ws')
      BY <1>31, <1>a, OpensUnjournalled DEF ReopenInv, SaveJournal, Step, Opens
    <2> QED
      BY <1>31, <1>a, <2>1, StoredSave
         DEF ReopenInv, SaveJournal, Step, Idle, Operation, Stored
  <1>32. CASE CommitThrows
    BY <1>32, <1>a, StoredSave DEF ReopenInv, CommitThrows, Step, Idle, Operation
  <1>33. CASE CommitRejected
    <2>1. Opens(ws')
      BY <1>33, <1>a, OpensUnjournalled DEF ReopenInv, CommitRejected, Step, Opens
    <2> QED
      BY <1>33, <1>a, <2>1, StoredSave DEF ReopenInv, CommitRejected, Step, Idle, Operation
  <1>34. CASE CommitPublished
    <2>1. Opens(ws')
      BY <1>34, <1>a DEF ReopenInv, CommitPublished, Step, Opens, Snapshot, Journal, Journalled
    <2> QED
      BY <1>34, <1>a, <2>1, StoredSave DEF ReopenInv, CommitPublished, Step, Idle, Operation
  <1>35. CASE SaveOutcome
    BY <1>35, <1>a, StoredSave DEF ReopenInv, SaveOutcome, Step, Idle, Operation
  <1>36. CASE Reconcile
    <2>1. session = "open" /\ Opens(ws) /\ op.revision # NoRevision
      BY <1>36 DEF ReopenInv, Reconcile, Step
    <2>2. Opens(Unjournalled([ws EXCEPT !.base[ws.sel] = op.revision,
                                        !.overlay[ws.sel] = {}]))
      BY <1>a, <2>1 DEF Opens, Unjournalled, NoJournal, Journalled, Snapshot
    <2>3. Opens(ws')
      BY <1>36, <1>a, <2>1, <2>2, OpensRebase DEF Reconcile
    <2> QED
      BY <1>36, <1>a, <2>3 DEF ReopenInv, Reconcile, Step, Operation
  <1>37. CASE ReconcileLater
    BY <1>37, <1>a, StoredSave DEF ReopenInv, ReconcileLater, Step, Idle, Operation
  <1>38. CASE RemoteCreate
    <2>1. Base # NoRevision
      BY <1>38 DEF RemoteCreate
    <2> QED
      BY <1>38, <1>a, <2>1 DEF ReopenInv, RemoteCreate, Operation
  <1>39. CASE RemoteDelete
    BY <1>39, <1>a DEF ReopenInv, RemoteDelete, Step, Operation
  <1>40. ASSUME NEW q \in wire, RemoteApply(q)
         PROVE  ReopenInv'
    <2>1. used + 1 # NoRevision
      BY WorkspaceAssumption DEF TypeOK, Revision, NoRevision
    <2> QED
      BY <1>40, <1>a, <2>1 DEF ReopenInv, RemoteApply, Awaited, Operation
  <1>41. ASSUME NEW q \in wire, RemoteRefuse(q)
         PROVE  ReopenInv'
    BY <1>41, <1>a DEF ReopenInv, RemoteRefuse, Awaited, Operation
  <1>42. ASSUME NEW q \in wire, LoseRequest(q)
         PROVE  ReopenInv'
    BY <1>42, ReopenFrame DEF LoseRequest
  <1>43. ASSUME NEW name \in Offered, Submit(name)
         PROVE  ReopenInv'
    BY <1>43, ReopenFrame DEF Submit
  <1>44. ASSUME NEW b \in Branches, OthersMove(b)
         PROVE  ReopenInv'
    BY <1>44, ReopenFrame DEF OthersMove
  <1>45. CASE UNCHANGED vars
    BY <1>45, ReopenFrame DEF vars
  <1> QED
    BY <1>1, <1>2, <1>3, <1>4, <1>5, <1>6, <1>7, <1>8, <1>9, <1>10, <1>11,
       <1>12, <1>13, <1>14, <1>15, <1>16, <1>17, <1>18, <1>19, <1>20, <1>21,
       <1>22, <1>23, <1>24, <1>25, <1>26, <1>27, <1>28, <1>29, <1>30, <1>31,
       <1>32, <1>33, <1>34, <1>35, <1>36, <1>37, <1>38, <1>39, <1>40, <1>41,
       <1>42, <1>43, <1>44, <1>45
       DEF Next, Open, Start, Continue, Remote

LEMMA ReopenCorrect == Spec => []ReopenInv
  BY TypeCorrect, ReopenInit, ReopenStep, PTL DEF Spec

\* Whatever crashed, failed or moved, the snapshot on disk and the workspace in
\* memory can be reopened without the remote.
THEOREM AlwaysReopens == Spec => []SnapshotsReopen
  <1>1. TypeOK /\ ReopenInv => SnapshotsReopen
    BY WorkspaceAssumption DEF TypeOK, ReopenInv, Stored, Opens, SnapshotsReopen, Reopens,
       Base, NoSnapshot, NoJournal, Journalled
  <1> QED
    BY <1>1, TypeCorrect, ReopenCorrect, PTL

-----------------------------------------------------------------------------
(* Write-ahead: an unsettled publication is always in the durable journal. *)

\* A snapshot from which request q can be settled.
Covers(s, q) ==
    /\ Journalled(s)
    /\ s.journal.branch = q.branch
    /\ s.journal.expected = q.expected
    /\ s.sel = q.branch
    /\ s.base[q.branch] = q.base
    /\ q.changes \subseteq s.overlay[q.branch]

Settling == {"idle", "publishing", "succeeded", "refused", "saveOutcome",
             "reconcile", "saveQuietly"}

\* RequestIsJournalled is not inductive: what a save would write has to cover
\* the request too, and only a publication or a persist may be running.
JournalInv ==
    /\ attempt.id # 0 =>
          /\ Covers(disk, attempt)
          /\ session # "closed" => Covers(ws, attempt)
          /\ op.pc \in Settling
    /\ op.pc = "saveJournal" => Covers(ws, op.request)

LEMMA NoAttempt == NoRequest.id = 0
  BY DEF NoRequest

LEMMA JournalInit == Init => JournalInv
  BY NoAttempt DEF Init, JournalInv, Idle

\* A call that is blocked by a journal does not start while one is open.
LEMMA NothingPending ==
    ASSUME JournalInv, NEW name, Waiting(name), ~Blocked(Head(queue)),
           name \notin {"persist", "resolvePendingCommitPublication"}
    PROVE  attempt.id = 0
  BY DEF JournalInv, Waiting, Blocked, Covers

\* Nothing the journal relates changes; the running call moves on.
LEMMA JournalFrame ==
    ASSUME JournalInv, UNCHANGED <<session, ws, disk, attempt>>,
           op'.pc \in Settling \/ (op' = op) \/ (attempt.id = 0 /\ op'.pc # "saveJournal")
    PROVE  JournalInv'
  BY DEF JournalInv, Covers, Journalled, Settling

LEMMA JournalStep ==
    TypeOK /\ TypeOK' /\ ReopenInv /\ JournalInv /\ [Next]_vars => JournalInv'
  <1> SUFFICES ASSUME TypeOK, TypeOK', ReopenInv, JournalInv, [Next]_vars
               PROVE  JournalInv'
    OBVIOUS
  <1>a. /\ ws \in Snapshot /\ ws' \in Snapshot /\ disk \in Snapshot
        /\ op \in Operation /\ op.request \in Request /\ attempt \in Request
        /\ op.pc # "idle" => session = "open"
    BY DEF TypeOK, Operation, ReopenInv
  \* What is left to show when no request is unsettled afterwards.
  <1>b. ASSUME attempt'.id = 0, op'.pc # "saveJournal"
        PROVE  JournalInv'
    BY <1>b DEF JournalInv
  <1>1. CASE Load
    BY <1>1, <1>a DEF JournalInv, Load, Covers, Journalled
  <1>2. CASE Ensure
    <2>1. attempt.id = 0
      BY <1>2, <1>a DEF JournalInv, Ensure, Covers, Base, Request, Revision, NoRevision
    <2> QED
      BY <1>2, <1>a, <1>b, <2>1 DEF Ensure
  <1>3. CASE OpenThrows
    BY <1>3, <1>a DEF JournalInv, OpenThrows, Covers, Journalled
  <1>4. CASE Recover
    BY <1>4, <1>a, <1>b, NoAttempt DEF Recover
  <1>5. CASE OpenAsStored
    BY <1>5, <1>a DEF JournalInv, OpenAsStored, Covers, Journalled
  <1>6. CASE Crash
    <2>1. attempt.id # 0 => Covers(disk', attempt)
      BY <1>6 DEF JournalInv, Crash
    <2> QED
      BY <1>6, <2>1 DEF JournalInv, Crash, Idle, Settling, Covers, Journalled
  <1>7. CASE Refuse
    BY <1>7, JournalFrame DEF Refuse
  <1>8. CASE WriteFile
    BY <1>8, <1>b, NothingPending DEF WriteFile, Begin, Waiting, Idle
  <1>9. CASE Revert
    BY <1>9, <1>b, NothingPending DEF Revert, Begin, Waiting, Idle
  <1>10. CASE SwitchVisited
    BY <1>10, <1>b, NothingPending DEF SwitchVisited, Begin, Waiting, Idle
  <1>11. CASE SwitchUnvisited
    BY <1>11, <1>b, NothingPending DEF SwitchUnvisited, Begin, Waiting, Idle
  <1>12. CASE Refresh
    BY <1>12, <1>b, NothingPending DEF Refresh, Begin, Waiting, Idle
  <1>13. CASE CreateBranch
    BY <1>13, <1>b, NothingPending DEF CreateBranch, Begin, Waiting, Idle
  <1>14. CASE DeleteBranch
    BY <1>14, <1>b, NothingPending DEF DeleteBranch, Begin, Waiting, Idle
  <1>15. CASE Persist
    BY <1>15, JournalFrame DEF Persist, Begin, Idle, Settling
  <1>16. ASSUME NEW name \in Commits, StartCommit(name)
         PROVE  JournalInv'
    <2>1. attempt.id = 0
      BY <1>16, NothingPending DEF StartCommit, Commits
    <2>2. Covers(ws', op'.request)
      BY <1>16, <1>a DEF StartCommit, Covers, Journalled, Changes, Base, Overlay, Snapshot
    <2> QED
      BY <1>16, <2>1, <2>2 DEF JournalInv, StartCommit
  <1>17. CASE ResolveNotPublished
    BY <1>17, <1>b, NoAttempt DEF ResolveNotPublished, Begin, Idle
  <1>18. CASE ResolvePublished
    <2>1. CASE UNCHANGED <<session, ws, op, disk, attempt>>
      BY <2>1, JournalFrame
    <2>2. CASE attempt' = NoRequest /\ Begin("resolvePendingCommitPublication", "save")
      BY <1>b, <2>2, NoAttempt DEF Begin, Idle
    <2> QED
      BY <1>18, <2>1, <2>2 DEF ResolvePublished
  <1>19. CASE Save
    BY <1>19, <1>a, <1>b DEF JournalInv, Save, Step, Idle, Settling, Operation
  <1>20. CASE SaveThrows
    BY <1>20, <1>a, <1>b DEF JournalInv, SaveThrows, Step, Idle, Settling, Operation
  <1>21. CASE ListBranches
    BY <1>21, <1>a, <1>b DEF JournalInv, ListBranches, Step, Idle, Settling, Operation
  <1>22. CASE ApplySwitch
    BY <1>22, <1>a, <1>b DEF JournalInv, ApplySwitch, Step, Idle, Settling, Operation
  <1>23. CASE ApplyRefresh
    BY <1>23, <1>a, <1>b DEF JournalInv, ApplyRefresh, Step, Idle, Settling, Operation
  <1>24. CASE ListedNothing
    BY <1>24, <1>a, <1>b DEF JournalInv, ListedNothing, Step, Idle, Settling, Operation
  <1>25. CASE CreateThrows
    BY <1>25, <1>a, <1>b DEF JournalInv, CreateThrows, Step, Idle, Settling, Operation
  <1>26. CASE AddBranch
    BY <1>26, <1>a, <1>b DEF JournalInv, AddBranch, Step, Idle, Settling, Operation
  <1>27. CASE SaveRemoval
    BY <1>27, <1>a, <1>b DEF JournalInv, SaveRemoval, Step, Idle, Settling, Operation
  <1>28. CASE Deleted
    BY <1>28, <1>a, <1>b DEF JournalInv, Deleted, Step, Idle, Settling, Operation
  <1>29. CASE DeleteThrows
    BY <1>29, <1>a, <1>b DEF JournalInv, DeleteThrows, Step, Idle, Settling, Operation
  <1>30. CASE SaveQuietly
    BY <1>30, <1>a DEF JournalInv, SaveQuietly, Step, Idle, Settling, Operation, Covers,
                      Journalled
  <1>31. CASE SaveJournal
    <2>1. Covers(ws, op.request) /\ attempt.id = 0
      BY <1>31 DEF JournalInv, SaveJournal, Step, Settling
    <2>2. CASE /\ Step("saveJournal", "publishing") /\ disk' = ws
               /\ attempt' = op.request /\ ws' = ws
      <3>1. Covers(disk', attempt') /\ Covers(ws', attempt')
        BY <2>1, <2>2 DEF Covers, Journalled
      <3> QED
        BY <1>a, <2>2, <3>1 DEF JournalInv, Step, Settling, Operation
    <2>3. CASE Step("saveJournal", "idle") /\ attempt' = attempt
      BY <1>b, <2>1, <2>3 DEF Step, Idle
    <2> QED
      BY <1>31, <2>2, <2>3 DEF SaveJournal
  <1>32. CASE CommitThrows
    BY <1>32, JournalFrame DEF CommitThrows, Step, Idle, Settling
  <1>33. CASE CommitRejected
    BY <1>33, <1>a, <1>b, NoAttempt DEF CommitRejected, Step, Operation
  <1>34. CASE CommitPublished
    <2>1. Covers(ws, attempt) => Covers(ws', attempt)
      BY <1>34, <1>a DEF CommitPublished, Covers, Journalled, Snapshot, Journal
    <2> QED
      BY <1>34, <1>a, <2>1
         DEF JournalInv, CommitPublished, Step, Settling, Operation, Covers, Journalled
  <1>35. CASE SaveOutcome
    BY <1>35, <1>a DEF JournalInv, SaveOutcome, Step, Settling, Operation, Covers, Journalled
  <1>36. CASE Reconcile
    BY <1>36, <1>a, <1>b, NoAttempt DEF Reconcile, Step, Operation
  <1>37. CASE ReconcileLater
    BY <1>37, <1>a, JournalFrame DEF ReconcileLater, Step, Settling, Operation
  <1>38. CASE RemoteCreate
    BY <1>38, <1>a, <1>b DEF JournalInv, RemoteCreate, Settling, Operation
  <1>39. CASE RemoteDelete
    BY <1>39, <1>a, <1>b DEF JournalInv, RemoteDelete, Step, Settling, Operation
  <1>40. ASSUME NEW q \in wire, RemoteApply(q)
         PROVE  JournalInv'
    BY <1>40, <1>a, JournalFrame DEF RemoteApply, Awaited, Settling, Operation
  <1>41. ASSUME NEW q \in wire, RemoteRefuse(q)
         PROVE  JournalInv'
    BY <1>41, <1>a, JournalFrame DEF RemoteRefuse, Awaited, Settling, Operation
  <1>42. ASSUME NEW q \in wire, LoseRequest(q)
         PROVE  JournalInv'
    BY <1>42, JournalFrame DEF LoseRequest
  <1>43. ASSUME NEW name \in Offered, Submit(name)
         PROVE  JournalInv'
    BY <1>43, JournalFrame DEF Submit
  <1>44. ASSUME NEW b \in Branches, OthersMove(b)
         PROVE  JournalInv'
    BY <1>44, JournalFrame DEF OthersMove
  <1>45. CASE UNCHANGED vars
    BY <1>45, JournalFrame DEF vars
  <1> QED
    BY <1>1, <1>2, <1>3, <1>4, <1>5, <1>6, <1>7, <1>8, <1>9, <1>10, <1>11,
       <1>12, <1>13, <1>14, <1>15, <1>16, <1>17, <1>18, <1>19, <1>20, <1>21,
       <1>22, <1>23, <1>24, <1>25, <1>26, <1>27, <1>28, <1>29, <1>30, <1>31,
       <1>32, <1>33, <1>34, <1>35, <1>36, <1>37, <1>38, <1>39, <1>40, <1>41,
       <1>42, <1>43, <1>44, <1>45
       DEF Next, Open, Start, Continue, Remote

LEMMA JournalCorrect == Spec => []JournalInv
  BY TypeCorrect, ReopenCorrect, JournalInit, JournalStep, PTL DEF Spec

\* From the moment a request is sent until its outcome is settled, the durable
\* snapshot names its branch and lease and still has what it was built from.
THEOREM WriteAhead == Spec => []RequestIsJournalled
  <1>1. JournalInv => RequestIsJournalled
    BY DEF JournalInv, Covers, RequestIsJournalled
  <1> QED
    BY <1>1, JournalCorrect, PTL

-----------------------------------------------------------------------------
(* What a snapshot refers to exists. *)

\* Every base and the published revision of snapshot s exist when n is the
\* newest revision, and a branch that was never visited has no edits.
Grounded(s, n) ==
    /\ s.journal.published \in Known(n)
    /\ \A b \in Branches : /\ s.base[b] \in Known(n)
                           /\ s.base[b] = NoRevision => s.overlay[b] = {}

GroundedCall(o, n) ==
    /\ o.call \in Ready(n) /\ o.revision \in Known(n)
    /\ Grounded(o.snap, n) /\ o.request.base \in 0 .. n

\* Nothing in the workspace, in its queue or on its disk refers to a revision
\* the remote has yet to make.
GroundedInv ==
    /\ \A b \in Branches : head[b] \in Known(used)
    /\ Grounded(disk, used) /\ Grounded(ws, used) /\ GroundedCall(op, used)
    /\ queue \in Seq(Ready(used))
    /\ attempt.base \in 0 .. used

LEMMA NoSnapshotGrounded == Grounded(NoSnapshot, used)
  BY WorkspaceAssumption DEF Grounded, NoSnapshot, NoJournal, Known

\* The edits of a visited branch change.
LEMMA GroundedOverlay ==
    ASSUME NEW s \in Snapshot, Grounded(s, used), NEW b \in Branches,
           NEW E \in SUBSET Edits, s.base[b] # NoRevision \/ E = {}
    PROVE  Grounded([s EXCEPT !.overlay[b] = E], used)
  BY DEF Grounded, Snapshot

LEMMA GroundedBase ==
    ASSUME NEW s \in Snapshot, Grounded(s, used), NEW b \in Branches,
           NEW r \in Known(used), r # NoRevision \/ s.overlay[b] = {}
    PROVE  Grounded([s EXCEPT !.base[b] = r], used)
  BY DEF Grounded, Snapshot

LEMMA GroundedBranch ==
    ASSUME NEW s \in Snapshot, Grounded(s, used), NEW b \in Branches,
           NEW r \in Known(used)
    PROVE  Grounded([s EXCEPT !.base[b] = r, !.overlay[b] = {}], used)
  BY DEF Grounded, Snapshot

LEMMA GroundedSelection ==
    ASSUME NEW s \in Snapshot, Grounded(s, used), NEW b
    PROVE  Grounded([s EXCEPT !.sel = b], used)
  BY DEF Grounded, Snapshot

LEMMA GroundedJournal ==
    ASSUME NEW s \in Snapshot, Grounded(s, used), NEW j, j.published \in Known(used)
    PROVE  Grounded([s EXCEPT !.journal = j], used)
  BY DEF Grounded, Snapshot

LEMMA GroundedUnjournalled ==
    ASSUME NEW s \in Snapshot, Grounded(s, used)
    PROVE  Grounded(Unjournalled(s), used)
  BY GroundedJournal DEF Unjournalled, NoJournal, Known

LEMMA GroundedRebase ==
    ASSUME NEW s \in Snapshot, Grounded(s, used),
           NEW r \in Known(used), r # NoRevision
    PROVE  Grounded(Rebase(s, r), used)
  <1>1. s.sel \in Branches
    BY DEF Snapshot
  <1> QED
    BY <1>1 DEF Rebase, Grounded, Snapshot

\* What exists goes on existing.
LEMMA GroundedLater ==
    ASSUME TypeOK, used < MaxRevision
    PROVE  /\ Known(used) \subseteq Known(used + 1)
           /\ used + 1 \in Known(used + 1)
           /\ 0 .. used \subseteq 0 .. (used + 1)
           /\ Ready(used) \subseteq Ready(used + 1)
           /\ Seq(Ready(used)) \subseteq Seq(Ready(used + 1))
           /\ Grounded(disk, used) => Grounded(disk, used + 1)
           /\ Grounded(ws, used) => Grounded(ws, used + 1)
           /\ GroundedCall(op, used) => GroundedCall(op, used + 1)
  <1>1. used \in Nat
    BY WorkspaceAssumption DEF TypeOK, Revision
  <1>2. 0 .. used \subseteq 0 .. (used + 1) /\ used + 1 \in Known(used + 1)
    BY <1>1 DEF Known
  <1>k. Known(used) \subseteq Known(used + 1)
    BY <1>2 DEF Known
  <1>3. Ready(used) \subseteq Ready(used + 1)
    <2>1. ASSUME NEW c \in Ready(used)
          PROVE  c \in Ready(used + 1)
      BY <1>k DEF Ready
    <2> QED
      BY <2>1
  <1>4. ASSUME NEW s, Grounded(s, used)
        PROVE  Grounded(s, used + 1)
    BY <1>k, <1>4 DEF Grounded
  <1>5. Seq(Ready(used)) \subseteq Seq(Ready(used + 1))
    BY <1>3
  <1>6. GroundedCall(op, used) => GroundedCall(op, used + 1)
    BY <1>2, <1>k, <1>3, <1>4 DEF GroundedCall
  <1> QED
    BY <1>2, <1>k, <1>3, <1>4, <1>5, <1>6

LEMMA IdleGrounded ==
    ASSUME TypeOK
    PROVE  GroundedCall(Idle, used)
  <1>1. 0 \in 0 .. used
    BY WorkspaceAssumption DEF TypeOK, Revision
  <1> QED
    BY <1>1, NoSnapshotGrounded, NoCallReady DEF GroundedCall, Idle, NoRequest, Known

\* The running call refers to what exists, as it starts and as it goes on.
LEMMA GroundedStep ==
    ASSUME TypeOK, GroundedCall(op, used), NEW from, NEW to, Step(from, to)
    PROVE  GroundedCall(op', used)
  <1>1. op' = Idle \/ op' = [op EXCEPT !.pc = to]
    BY DEF Step
  <1> QED
    BY <1>1, IdleGrounded DEF TypeOK, Operation, GroundedCall

LEMMA GroundedBegin ==
    ASSUME TypeOK, GroundedInv, NEW name, NEW pc, Begin(name, pc)
    PROVE  /\ Head(queue) \in Ready(used) /\ queue' \in Seq(Ready(used))
           /\ GroundedCall(op', used)
           /\ UNCHANGED <<head, used, disk>>
  <1>1. Head(queue) \in Ready(used) /\ Tail(queue) \in Seq(Ready(used))
    BY DEF GroundedInv, Begin, Waiting
  <1>2. /\ queue' = Tail(queue) /\ UNCHANGED <<head, used, disk>>
        /\ op' = [Idle EXCEPT !.pc = pc, !.call = Head(queue), !.snap = ws]
    BY DEF Begin, remote
  <1>3. GroundedCall(op', used)
    BY <1>1, <1>2, IdleGrounded DEF GroundedInv, GroundedCall, Idle
  <1> QED
    BY <1>1, <1>2, <1>3

LEMMA GroundedInit == Init => GroundedInv
  <1> SUFFICES ASSUME Init PROVE GroundedInv
    OBVIOUS
  <1>1. TypeOK /\ used = 0 /\ 0 \in 0 .. used
    BY TypeInit DEF Init
  <1> QED
    BY <1>1, NoSnapshotGrounded, IdleGrounded DEF Init, GroundedInv, Known, NoRequest

\* Nothing changes but the queue and the place of the running call.
LEMMA GroundedFrame ==
    ASSUME GroundedInv, UNCHANGED <<head, used, disk, ws, attempt>>,
           GroundedCall(op', used), queue' \in Seq(Ready(used))
    PROVE  GroundedInv'
  BY DEF GroundedInv

\* A step of the running call that may change memory and disk.
LEMMA GroundedWork ==
    ASSUME GroundedInv, UNCHANGED <<head, used, queue>>,
           GroundedCall(op', used), Grounded(ws', used),
           disk' \in {disk, ws, ws'}, attempt'.base \in 0 .. used
    PROVE  GroundedInv'
  BY DEF GroundedInv

LEMMA GroundedNext ==
    TypeOK /\ ReopenInv /\ GroundedInv /\ [Next]_vars => GroundedInv'
  <1> SUFFICES ASSUME TypeOK, ReopenInv, GroundedInv, [Next]_vars
               PROVE  GroundedInv'
    OBVIOUS
  <1>a. /\ ws \in Snapshot /\ disk \in Snapshot /\ ws.sel \in Branches
        /\ op.snap \in Snapshot /\ op \in Operation /\ op.call \in Call
        /\ op.call.branch \in Branches /\ Target \in Branches
        /\ Overlay \in SUBSET Edits
    BY DEF TypeOK, Target, Snapshot, Operation, Call, Overlay
  <1>b. /\ Grounded(disk, used) /\ Grounded(ws, used) /\ Grounded(op.snap, used)
        /\ op.revision \in Known(used) /\ op.call \in Ready(used)
        /\ ws.journal.published \in Known(used) /\ GroundedCall(op, used)
        /\ queue \in Seq(Ready(used)) /\ op.request.base \in 0 .. used
        /\ attempt.base \in 0 .. used
    BY DEF GroundedInv, GroundedCall, Grounded
  <1>c. NoRequest.base \in 0 .. used /\ NoRevision \in Known(used)
    BY WorkspaceAssumption, KnownType DEF TypeOK, Revision, NoRequest
  <1>d. ASSUME NEW from, NEW to, Step(from, to)
        PROVE  GroundedCall(op', used) /\ queue' = queue
    BY <1>b, <1>d, GroundedStep DEF Step
  <1>1. CASE Load
    BY <1>1, <1>b DEF GroundedInv, Load, remote
  <1>2. CASE Ensure
    <2>1. head[ws.sel] \in Known(used) /\ head[ws.sel] # NoRevision
      BY <1>2, <1>a DEF GroundedInv, Ensure
    <2>2. Grounded(ws', used)
      BY <1>2, <1>a, <1>b, <2>1, GroundedBase DEF Ensure
    <2> QED
      BY <1>2, <1>b, <2>2, GroundedWork DEF Ensure, remote
  <1>3. CASE OpenThrows
    BY <1>3, <1>b, NoSnapshotGrounded, GroundedWork DEF OpenThrows, remote
  <1>4. CASE Recover
    <2>1. Base # NoRevision /\ ws # NoSnapshot
      BY <1>4, WorkspaceAssumption DEF Recover, Base, NoSnapshot
    <2>2. ws.journal.phase = "published" => ws.journal.published # NoRevision
      BY <1>4, <2>1 DEF Recover, ReopenInv, Stored, Opens
    <2>3. Rebase(ws, ws.journal.published) \in Snapshot
      BY <1>a, RebaseType DEF Snapshot, Journal
    <2>4. Grounded(ws', used)
      BY <1>4, <1>a, <1>b, <2>2, <2>3, GroundedRebase, GroundedUnjournalled
         DEF Recover, RecoverPrepared, RecoverPublished
    <2> QED
      BY <1>4, <1>b, <1>c, <2>4, GroundedWork DEF Recover, remote
  <1>5. CASE OpenAsStored
    BY <1>5, <1>b, GroundedFrame DEF OpenAsStored, remote
  <1>6. CASE Crash
    <2>1. GroundedCall(op', used) /\ Grounded(ws', used) /\ queue' \in Seq(Ready(used))
      BY <1>6, IdleGrounded, NoSnapshotGrounded DEF Crash
    <2> QED
      BY <1>6, <1>b, <2>1 DEF GroundedInv, Crash, remote
  <1>7. CASE Refuse
    <2>1. queue' \in Seq(Ready(used))
      BY <1>7, <1>b DEF Refuse
    <2> QED
      BY <1>7, <1>b, <2>1, GroundedFrame DEF Refuse, remote
  <1>8. CASE WriteFile
    <2>1. Begin("writeFile", "save")
      BY <1>8 DEF WriteFile
    <2>2. Overlay \cup Head(queue).edits \in SUBSET Edits /\ ws.base[ws.sel] # NoRevision
      BY <1>a, <2>1, HeadType DEF Begin, Waiting, Call, ReopenInv, Opens
    <2>3. Grounded(ws', used)
      BY <1>8, <1>a, <1>b, <2>2, GroundedOverlay DEF WriteFile, Overlay
    <2> QED
      BY <1>8, <1>b, <2>1, <2>3, GroundedBegin DEF WriteFile, GroundedInv
  <1>9. CASE Revert
    <2>1. Begin("revert", "save")
      BY <1>9 DEF Revert
    <2>2. Overlay \ Head(queue).edits \in SUBSET Edits /\ ws.base[ws.sel] # NoRevision
      BY <1>a, <2>1 DEF Begin, Waiting, ReopenInv, Opens
    <2>3. Grounded(ws', used)
      BY <1>9, <1>a, <1>b, <2>2, GroundedOverlay DEF Revert, Overlay
    <2> QED
      BY <1>9, <1>b, <2>1, <2>3, GroundedBegin DEF Revert, GroundedInv
  <1>10. CASE SwitchVisited
    <2>1. Begin("switchBranch", "save")
      BY <1>10 DEF SwitchVisited
    <2>2. Grounded(ws', used)
      BY <1>10, <1>a, <1>b, GroundedSelection DEF SwitchVisited
    <2> QED
      BY <1>10, <1>b, <2>1, <2>2, GroundedBegin DEF SwitchVisited, GroundedInv
  <1>11. CASE SwitchUnvisited
    BY <1>11, <1>b, GroundedBegin, GroundedFrame DEF SwitchUnvisited
  <1>12. CASE Refresh
    BY <1>12, <1>b, GroundedBegin, GroundedFrame DEF Refresh
  <1>13. CASE Persist
    BY <1>13, <1>b, GroundedBegin, GroundedFrame DEF Persist
  <1>14. CASE CreateBranch
    BY <1>14, <1>b, GroundedBegin, GroundedFrame DEF CreateBranch
  <1>15. CASE DeleteBranch
    <2>1. Begin("deleteBranch", "saveRemoval")
      BY <1>15 DEF DeleteBranch
    <2>2. Head(queue).branch \in Branches
      BY <2>1, HeadType DEF Begin, Call
    <2>3. Grounded(ws', used)
      BY <1>15, <1>a, <1>b, <1>c, <2>2, GroundedBase DEF DeleteBranch
    <2> QED
      BY <1>15, <1>b, <2>1, <2>3, GroundedBegin DEF DeleteBranch, GroundedInv
  <1>16. ASSUME NEW name \in Commits, StartCommit(name)
         PROVE  GroundedInv'
    <2>1. Head(queue) \in Ready(used) /\ Tail(queue) \in Seq(Ready(used))
      BY <1>16, <1>b DEF StartCommit, Waiting
    <2>2. Base \in 0 .. used
      BY <1>16, <1>a, <1>b, KnownType DEF StartCommit, Base, Grounded, TypeOK
    <2>3. Grounded(ws', used)
      BY <1>16, <1>a, <1>b, <1>c, GroundedJournal DEF StartCommit
    <2>4. /\ op'.call = Head(queue) /\ op'.revision = NoRevision /\ op'.snap = ws
          /\ op'.request.base = Base
      BY <1>16 DEF StartCommit
    <2>5. GroundedCall(op', used)
      BY <1>b, <1>c, <2>1, <2>2, <2>4 DEF GroundedCall
    <2> QED
      BY <1>16, <1>b, <2>1, <2>3, <2>5 DEF GroundedInv, StartCommit, remote
  <1>17. CASE ResolveNotPublished
    <2>1. Begin("resolvePendingCommitPublication", "save")
      BY <1>17 DEF ResolveNotPublished
    <2>2. Grounded(ws', used)
      BY <1>17, <1>a, <1>b, GroundedUnjournalled DEF ResolveNotPublished
    <2> QED
      BY <1>17, <1>b, <1>c, <2>1, <2>2, GroundedBegin DEF ResolveNotPublished, GroundedInv
  <1>18. CASE ResolvePublished
    <2>1. Head(queue) \in Ready(used) /\ Tail(queue) \in Seq(Ready(used))
      BY <1>18, <1>b DEF ResolvePublished, Waiting
    <2>2. CASE queue' = Tail(queue) /\ UNCHANGED <<remote, ws, op, disk, attempt>>
      BY <1>b, <2>1, <2>2, GroundedFrame DEF remote
    <2>3. CASE /\ Begin("resolvePendingCommitPublication", "save")
               /\ ws' = Unjournalled(Rebase(ws, Head(queue).revision))
               /\ attempt' = NoRequest
      <3>1. Head(queue).revision \in Known(used) /\ Head(queue).revision # NoRevision
        BY <1>18, <2>1 DEF ResolvePublished, Ready
      <3>2. Rebase(ws, Head(queue).revision) \in Snapshot
        BY <1>a, <2>1, RebaseType DEF Ready, Call
      <3>3. Grounded(ws', used)
        BY <1>a, <1>b, <2>3, <3>1, <3>2, GroundedRebase, GroundedUnjournalled
      <3> QED
        BY <1>b, <1>c, <2>3, <3>3, GroundedBegin DEF GroundedInv
    <2> QED
      BY <1>18, <2>2, <2>3 DEF ResolvePublished
  <1>19. CASE Save
    BY <1>19, <1>b, <1>d, GroundedWork DEF Save, remote
  <1>20. CASE SaveThrows
    BY <1>20, <1>b, <1>d, GroundedWork DEF SaveThrows, remote
  <1>21. CASE SaveQuietly
    BY <1>21, <1>b, <1>d, GroundedWork DEF SaveQuietly, remote
  <1>22. CASE ListBranches
    <2>1. head[Target] \in Known(used)
      BY <1>a DEF GroundedInv
    <2>2. GroundedCall(op', used)
      BY <1>22, <1>a, <1>b, <2>1 DEF ListBranches, GroundedCall, Operation
    <2> QED
      BY <1>22, <1>b, <2>2, GroundedFrame DEF ListBranches, remote
  <1>23. CASE ApplySwitch
    <2>1. ws' = [[ws EXCEPT !.base[Target] = op.revision, !.overlay[Target] = {}]
                    EXCEPT !.sel = Target]
      BY <1>23, <1>a DEF ApplySwitch, Snapshot
    <2>2. [ws EXCEPT !.base[Target] = op.revision, !.overlay[Target] = {}] \in Snapshot
      BY <1>a DEF TypeOK, Operation, Snapshot
    <2>3. Grounded(ws', used)
      BY <1>a, <1>b, <2>1, <2>2, GroundedBranch, GroundedSelection
    <2> QED
      BY <1>23, <1>b, <1>d, <2>3, GroundedWork DEF ApplySwitch, remote
  <1>24. CASE ApplyRefresh
    <2>1. Grounded(ws', used)
      BY <1>24, <1>a, <1>b, GroundedBase DEF ApplyRefresh
    <2> QED
      BY <1>24, <1>b, <1>d, <2>1, GroundedWork DEF ApplyRefresh, remote
  <1>25. CASE ListedNothing
    BY <1>25, <1>b, <1>d, GroundedWork DEF ListedNothing, remote
  <1>26. CASE CreateThrows
    BY <1>26, <1>b, <1>d, GroundedWork DEF CreateThrows, remote
  <1>27. CASE AddBranch
    <2> DEFINE b == op.call.branch
    <2> DEFINE t == IF op.call.whole THEN b ELSE ws.sel
    <2>1. ws' = [[ws EXCEPT !.base[b] = op.revision, !.overlay[b] = {}] EXCEPT !.sel = t]
      BY <1>27, <1>a DEF AddBranch, Snapshot
    <2>2. [ws EXCEPT !.base[b] = op.revision, !.overlay[b] = {}] \in Snapshot
      BY <1>a DEF TypeOK, Operation, Snapshot
    <2>3. Grounded(ws', used)
      BY <1>a, <1>b, <2>1, <2>2, GroundedBranch, GroundedSelection
    <2> QED
      BY <1>27, <1>b, <1>d, <2>3, GroundedWork DEF AddBranch, remote
  <1>28. CASE SaveRemoval
    BY <1>28, <1>b, <1>d, GroundedWork DEF SaveRemoval, remote
  <1>29. CASE Deleted
    BY <1>29, <1>b, <1>d, GroundedWork DEF Deleted, remote
  <1>30. CASE DeleteThrows
    BY <1>30, <1>b, <1>d, GroundedWork DEF DeleteThrows, remote
  <1>31. CASE SaveJournal
    <2>1. Grounded(ws', used)
      BY <1>31, <1>a, <1>b, GroundedUnjournalled DEF SaveJournal
    <2> QED
      BY <1>31, <1>b, <1>d, <2>1, GroundedWork DEF SaveJournal, remote
  <1>32. CASE CommitThrows
    BY <1>32, <1>b, <1>d, GroundedWork DEF CommitThrows, remote
  <1>33. CASE CommitRejected
    <2>1. Grounded(ws', used)
      BY <1>33, <1>a, <1>b, GroundedUnjournalled DEF CommitRejected
    <2> QED
      BY <1>33, <1>b, <1>c, <1>d, <2>1, GroundedWork DEF CommitRejected, remote
  <1>34. CASE CommitPublished
    <2> DEFINE j == [ws.journal EXCEPT !.phase = "published", !.published = op.revision]
    <2>1. ws' = [ws EXCEPT !.journal = j] /\ j.published = op.revision
      BY <1>34, <1>a DEF CommitPublished, Snapshot, Journal
    <2>2. Grounded(ws', used)
      BY <1>a, <1>b, <2>1, GroundedJournal
    <2> QED
      BY <1>34, <1>b, <1>d, <2>2, GroundedWork DEF CommitPublished, remote
  <1>35. CASE SaveOutcome
    BY <1>35, <1>b, <1>d, GroundedWork DEF SaveOutcome, remote
  <1>36. CASE Reconcile
    <2>1. op.revision # NoRevision /\ op.revision \in MaybeRevision
      BY <1>36, <1>a DEF Reconcile, Step, ReopenInv, Operation
    <2>2. /\ [ws EXCEPT !.base[ws.sel] = op.revision, !.overlay[ws.sel] = {}] \in Snapshot
          /\ Rebase(ws, op.revision) \in Snapshot
      BY <1>a, <2>1, RebaseType DEF Snapshot
    <2>3. Grounded(ws', used)
      BY <1>36, <1>a, <1>b, <2>1, <2>2, GroundedBranch, GroundedRebase,
         GroundedUnjournalled DEF Reconcile
    <2> QED
      BY <1>36, <1>b, <1>c, <1>d, <2>3, GroundedWork DEF Reconcile, remote
  <1>37. CASE ReconcileLater
    BY <1>37, <1>b, <1>d, GroundedWork DEF ReconcileLater, remote
  <1>38. CASE RemoteCreate
    <2>1. Base \in Known(used)
      BY <1>a, <1>b DEF Base, Grounded
    <2>2. GroundedCall(op', used)
      BY <1>38, <1>a, <1>b, <2>1 DEF RemoteCreate, GroundedCall, Operation
    <2>3. \A b \in Branches : head'[b] \in Known(used)
      BY <1>38, <1>a, <2>1 DEF RemoteCreate, GroundedInv, TypeOK
    <2> QED
      BY <1>38, <1>b, <2>2, <2>3 DEF RemoteCreate, GroundedInv
  <1>39. CASE RemoteDelete
    <2>1. \A b \in Branches : head'[b] \in Known(used)
      BY <1>39, <1>a, <1>c DEF RemoteDelete, GroundedInv, TypeOK
    <2> QED
      BY <1>39, <1>b, <1>d, <2>1 DEF RemoteDelete, GroundedInv
  <1>40. ASSUME NEW q \in wire, RemoteApply(q)
         PROVE  GroundedInv'
    <2>1. used < MaxRevision /\ used' = used + 1
      BY <1>40 DEF RemoteApply
    <2>2. \A b \in Branches : head'[b] \in Known(used + 1)
      BY <1>40, <2>1, GroundedLater DEF RemoteApply, GroundedInv, TypeOK
    <2>3. GroundedCall(op', used + 1)
      BY <1>40, <1>a, <1>b, <2>1, GroundedLater DEF RemoteApply, GroundedCall, Operation
    <2> QED
      BY <1>40, <1>b, <2>1, <2>2, <2>3, GroundedLater DEF RemoteApply, GroundedInv
  <1>41. ASSUME NEW q \in wire, RemoteRefuse(q)
         PROVE  GroundedInv'
    <2>1. GroundedCall(op', used)
      BY <1>41, <1>a, <1>b DEF RemoteRefuse, GroundedCall, Operation
    <2> QED
      BY <1>41, <1>b, <2>1, GroundedFrame DEF RemoteRefuse, remote
  <1>42. ASSUME NEW q \in wire, LoseRequest(q)
         PROVE  GroundedInv'
    BY <1>42, <1>b, GroundedFrame DEF LoseRequest, remote
  <1>43. ASSUME NEW name \in Offered, Submit(name)
         PROVE  GroundedInv'
    <2>1. name \in CallNames
      BY WorkspaceAssumption
    <2>2. PICK c \in Arguments(name) :
             queue' = Append(queue,
                 IF name \in Guarded
                 THEN [c EXCEPT !.seen = [branch |-> ws.sel, base |-> Base]]
                 ELSE c)
      BY <1>43 DEF Submit
    <2>3. c \in Ready(used)
      BY <2>1, <2>2, ArgumentsReady DEF TypeOK
    <2>4. Base \in MaybeRevision
      BY <1>a DEF Base, Snapshot
    <2>5. [c EXCEPT !.seen = [branch |-> ws.sel, base |-> Base]] \in Ready(used)
      BY <1>a, <2>3, <2>4 DEF Ready, Call, Seen
    <2>6. queue' \in Seq(Ready(used))
      BY <1>b, <2>2, <2>3, <2>5
    <2> QED
      BY <1>43, <1>b, <2>6, GroundedFrame DEF Submit, remote
  <1>44. ASSUME NEW b \in Branches, OthersMove(b)
         PROVE  GroundedInv'
    <2>1. CASE used' = used
      <3>1. 0 .. used \subseteq Known(used)
        BY KnownType DEF TypeOK
      <3>2. \A x \in Branches : head'[x] \in Known(used)
        <4>1. PICK r \in Known(used) : head' = [head EXCEPT ![b] = r]
          <5>1. used # used + 1
            BY DEF TypeOK, Revision
          <5>2. \/ \E r \in 0 .. used : head' = [head EXCEPT ![b] = r]
                \/ head' = [head EXCEPT ![b] = NoRevision]
            BY <1>44, <2>1, <5>1 DEF OthersMove
          <5> QED
            BY <1>c, <3>1, <5>2
        <4> QED
          BY <4>1 DEF GroundedInv, TypeOK
      <3> QED
        BY <1>44, <2>1, <3>2 DEF OthersMove, GroundedInv
    <2>2. CASE used < MaxRevision /\ used' = used + 1 /\ head' = [head EXCEPT ![b] = used + 1]
      <3>1. \A x \in Branches : head'[x] \in Known(used + 1)
        BY <2>2, GroundedLater DEF GroundedInv, TypeOK
      <3> QED
        BY <1>44, <1>b, <2>2, <3>1, GroundedLater DEF OthersMove, GroundedInv
    <2> QED
      BY <1>44, <2>1, <2>2 DEF OthersMove
  <1>45. CASE UNCHANGED vars
    BY <1>45, <1>b, GroundedFrame DEF vars
  <1> QED
    BY <1>1, <1>2, <1>3, <1>4, <1>5, <1>6, <1>7, <1>8, <1>9, <1>10, <1>11,
       <1>12, <1>13, <1>14, <1>15, <1>16, <1>17, <1>18, <1>19, <1>20, <1>21,
       <1>22, <1>23, <1>24, <1>25, <1>26, <1>27, <1>28, <1>29, <1>30, <1>31,
       <1>32, <1>33, <1>34, <1>35, <1>36, <1>37, <1>38, <1>39, <1>40, <1>41,
       <1>42, <1>43, <1>44, <1>45
       DEF Next, Open, Start, Continue, Remote

LEMMA GroundedCorrect == Spec => []GroundedInv
  BY TypeCorrect, ReopenCorrect, GroundedInit, GroundedNext, PTL DEF Spec

\* A revision never changes: what is pushed is a new one.
LEMMA RevisionsStay ==
    ASSUME TypeOK, [Next]_vars, NEW r \in 0 .. used
    PROVE  content'[r] = content[r]
  <1>a. r \in Revision /\ r # used + 1
    BY WorkspaceAssumption DEF TypeOK, Revision
  <1>1. CASE Open
    BY <1>1 DEF Open, Load, Ensure, OpenThrows, Recover, OpenAsStored, remote
  <1>2. CASE Start
    <2>1. ASSUME NEW name, NEW pc, Begin(name, pc)
          PROVE  content' = content
      BY <2>1 DEF Begin, remote
    <2>2. CASE Refuse \/ \E name \in Commits : StartCommit(name)
      BY <2>2 DEF Refuse, StartCommit, remote
    <2>3. CASE ResolvePublished
      BY <2>1, <2>3 DEF ResolvePublished, remote
    <2> QED
      BY <1>2, <2>1, <2>2, <2>3
         DEF Start, WriteFile, Revert, SwitchVisited, SwitchUnvisited, Refresh,
             Persist, CreateBranch, DeleteBranch, ResolveNotPublished
  <1>3. CASE Continue
    BY <1>3 DEF Continue, Save, SaveThrows, SaveQuietly, ListBranches, ApplySwitch,
       ApplyRefresh, ListedNothing, CreateThrows, AddBranch, SaveRemoval, Deleted,
       DeleteThrows, SaveJournal, CommitThrows, CommitRejected, CommitPublished,
       SaveOutcome, Reconcile, ReconcileLater, remote
  <1>4. ASSUME NEW q \in wire, RemoteApply(q)
        PROVE  content'[r] = content[r]
    BY <1>4, <1>a DEF RemoteApply, TypeOK
  <1>5. ASSUME NEW q \in wire, RemoteRefuse(q) \/ LoseRequest(q)
        PROVE  content' = content
    BY <1>5 DEF RemoteRefuse, LoseRequest, remote
  <1>6. CASE RemoteCreate \/ RemoteDelete
    BY <1>6 DEF RemoteCreate, RemoteDelete
  <1>7. CASE Crash \/ \E name \in Offered : Submit(name)
    BY <1>7 DEF Crash, Submit, remote
  <1>8. ASSUME NEW b \in Branches, OthersMove(b)
        PROVE  content'[r] = content[r]
    <2>1. \/ content' = content
          \/ \E c : content' = [content EXCEPT ![used + 1] = c]
      BY <1>8 DEF OthersMove
    <2> QED
      BY <1>a, <2>1 DEF TypeOK
  <1>9. CASE UNCHANGED vars
    BY <1>9 DEF vars
  <1> QED
    BY <1>1, <1>2, <1>3, <1>4, <1>5, <1>6, <1>7, <1>8, <1>9 DEF Next, Remote

-----------------------------------------------------------------------------
(* A commit is made of what its caller saw. *)

\* The calls that may be at a given await.
CallsAt(pc) ==
    CASE pc = "idle" -> {"none"}
      [] pc = "save" ->
            {"writeFile", "revert", "switchBranch", "refreshRemoteHead",
             "resolvePendingCommitPublication"}
      [] pc \in {"listing", "listed"} -> {"switchBranch", "refreshRemoteHead"}
      [] pc \in {"creating", "created"} -> {"createBranch"}
      [] pc \in {"saveRemoval", "deleting", "deleted"} -> {"deleteBranch"}
      [] pc = "saveQuietly" ->
            {"persist", "createBranch", "deleteBranch"} \cup Commits
      [] OTHER -> Commits

Committing == {"saveJournal", "publishing", "succeeded", "refused",
               "saveOutcome", "reconcile"}

\* From the start of a publication to its reconciliation the workspace has the
\* branch, the base and the changes of the request, its journal says how far
\* the publication is, and the revision that came back is what was asked for.
CallInv ==
    /\ op.call.name \in CallsAt(op.pc)
    /\ op.call.name \in Commits =>
          /\ op.request.branch = op.call.seen.branch
          /\ op.request.base = op.call.seen.base
    /\ op.pc \in Committing =>
          /\ ws.sel = op.request.branch /\ Base = op.request.base
          /\ op.request.changes = Changes(op.call)
    /\ op.pc \in {"saveJournal", "publishing", "succeeded", "refused"} =>
          ws.journal.phase = "prepared"
    /\ op.pc \in {"saveOutcome", "reconcile"} =>
          ws.journal.phase = "published" /\ ws.journal.published = op.revision
    /\ op.pc \in Committing \ {"saveJournal"} => attempt = op.request
    /\ op.pc \in {"succeeded", "saveOutcome", "reconcile"} =>
          content[op.revision] = content[op.request.base] \cup op.request.changes

LEMMA CallInit == Init => CallInv
  BY DEF Init, CallInv, CallsAt, Idle, NoCall, Commits, Committing

\* No call runs, or one that publishes nothing.
LEMMA CallOther ==
    ASSUME op'.call.name \in CallsAt(op'.pc), op'.pc \notin Committing,
           op'.call.name \notin Commits
    PROVE  CallInv'
  BY DEF CallInv, Committing

LEMMA CallIdle ==
    ASSUME op' = Idle
    PROVE  CallInv'
  BY CallOther DEF Idle, NoCall, CallsAt, Committing, Commits

LEMMA CallBegin ==
    ASSUME NEW name, NEW pc, Begin(name, pc), name \in CallsAt(pc),
           pc \notin Committing, name \notin Commits
    PROVE  CallInv'
  <1>1. op'.call.name = name /\ op'.pc = pc
    BY DEF Begin, Waiting, Idle
  <1> QED
    BY <1>1, CallOther

\* A step of a call that publishes nothing.
LEMMA CallStep ==
    ASSUME TypeOK, CallInv, NEW from, NEW to, Step(from, to),
           from \notin Committing \cup {"saveQuietly"},
           CallsAt(from) \subseteq CallsAt(to), CallsAt(from) \cap Commits = {},
           to \notin Committing
    PROVE  CallInv'
  <1>1. CASE op' = Idle
    BY <1>1, CallIdle
  <1>2. CASE op' = [op EXCEPT !.pc = to]
    <2>1. op'.call.name = op.call.name /\ op'.pc = to
      BY <1>2 DEF TypeOK, Operation
    <2> QED
      BY <2>1, CallOther DEF CallInv, Step
  <1> QED
    BY <1>1, <1>2 DEF Step

\* The call waits and nothing it relates to changes.
LEMMA CallFrame ==
    ASSUME TypeOK, ReopenInv, GroundedInv, CallInv, [Next]_vars, UNCHANGED <<ws, op, attempt>>
    PROVE  CallInv'
  <1>1. op.pc \in {"succeeded", "saveOutcome", "reconcile"} =>
           op.revision \in 0 .. used /\ op.request.base \in 0 .. used
    BY KnownType DEF ReopenInv, GroundedInv, GroundedCall, TypeOK
  <1>2. op.pc \in {"succeeded", "saveOutcome", "reconcile"} =>
           /\ content'[op.revision] = content[op.revision]
           /\ content'[op.request.base] = content[op.request.base]
    BY <1>1, RevisionsStay
  <1> QED
    BY <1>2 DEF CallInv, Changes, Overlay, Base

LEMMA CallNext ==
    TypeOK /\ ReopenInv /\ GroundedInv /\ CallInv /\ [Next]_vars => CallInv'
  <1> SUFFICES ASSUME TypeOK, ReopenInv, GroundedInv, CallInv, [Next]_vars
               PROVE  CallInv'
    OBVIOUS
  <1>a. /\ ws \in Snapshot /\ ws.sel \in Branches /\ op \in Operation
        /\ op.call \in Call /\ op.pc # "idle" => session = "open"
    BY DEF TypeOK, Snapshot, Operation, ReopenInv
  <1>b. session # "open" => op.pc = "idle" /\ op.call.name = "none"
    BY DEF ReopenInv, CallInv, CallsAt
  <1>c. "none" \notin Commits
    BY DEF Commits
  \* Opening the workspace: no call runs.
  <1>1. CASE Open
    BY <1>1, <1>b, <1>c, CallOther
       DEF Open, Load, Ensure, OpenThrows, Recover, OpenAsStored, CallsAt, Committing
  <1>2. CASE Crash
    BY <1>2, CallIdle DEF Crash
  <1>3. CASE Refuse
    BY <1>3, CallFrame DEF Refuse
  <1>4. CASE WriteFile
    BY <1>4, CallBegin DEF WriteFile, CallsAt, Committing, Commits
  <1>5. CASE Revert
    BY <1>5, CallBegin DEF Revert, CallsAt, Committing, Commits
  <1>6. CASE SwitchVisited \/ SwitchUnvisited
    BY <1>6, CallBegin DEF SwitchVisited, SwitchUnvisited, CallsAt, Committing, Commits
  <1>7. CASE Refresh
    BY <1>7, CallBegin DEF Refresh, CallsAt, Committing, Commits
  <1>8. CASE Persist
    BY <1>8, CallBegin DEF Persist, CallsAt, Committing, Commits
  <1>9. CASE CreateBranch
    BY <1>9, CallBegin DEF CreateBranch, CallsAt, Committing, Commits
  <1>10. CASE DeleteBranch
    BY <1>10, CallBegin DEF DeleteBranch, CallsAt, Committing, Commits
  <1>11. CASE ResolveNotPublished
    BY <1>11, CallBegin DEF ResolveNotPublished, CallsAt, Committing, Commits
  <1>12. CASE ResolvePublished
    <2>1. CASE Begin("resolvePendingCommitPublication", "save")
      BY <2>1, CallBegin DEF CallsAt, Committing, Commits
    <2>2. CASE UNCHANGED <<ws, op, attempt>>
      BY <2>2, CallFrame
    <2> QED
      BY <1>12, <2>1, <2>2 DEF ResolvePublished
  <1>13. ASSUME NEW name \in Commits, StartCommit(name)
         PROVE  CallInv'
    <2> DEFINE c == Head(queue)
    <2>1. c.name = name /\ c.seen = [branch |-> ws.sel, base |-> Base]
      BY <1>13 DEF StartCommit, Waiting, Stale, Guarded, Commits
    <2>2. /\ op'.pc = "saveJournal" /\ op'.call = c
          /\ op'.request.branch = ws.sel /\ op'.request.base = Base
          /\ op'.request.changes = Changes(c)
      BY <1>13 DEF StartCommit
    <2>3. /\ ws'.sel = ws.sel /\ ws'.base = ws.base /\ ws'.overlay = ws.overlay
          /\ ws'.journal.phase = "prepared"
      BY <1>13, <1>a DEF StartCommit, Snapshot
    <2> QED
      BY <2>1, <2>2, <2>3 DEF CallInv, CallsAt, Changes, Overlay, Base
  <1>14. CASE Save \/ SaveThrows
    BY <1>14, CallIdle DEF Save, SaveThrows, Step
  <1>15. CASE SaveQuietly
    BY <1>15, CallIdle DEF SaveQuietly, Step
  <1>16. CASE ListBranches
    <2>1. op.call.name \in CallsAt("listing")
      BY <1>16 DEF ListBranches, CallInv
    <2>2. op'.pc = "listed" /\ op'.call = op.call
      BY <1>16, <1>a DEF ListBranches, Operation
    <2> QED
      BY <2>1, <2>2, CallOther DEF CallsAt, Committing, Commits
  <1>17. CASE ApplySwitch \/ ApplyRefresh
    <2>1. CallsAt("listed") \subseteq CallsAt("save") /\ CallsAt("listed") \cap Commits = {}
      BY DEF CallsAt, Commits
    <2> QED
      BY <1>17, <2>1, CallStep DEF ApplySwitch, ApplyRefresh, Committing
  <1>18. CASE ListedNothing \/ CreateThrows \/ Deleted
    BY <1>18, CallIdle DEF ListedNothing, CreateThrows, Deleted, Step
  <1>19. CASE AddBranch
    <2>1. CallsAt("created") \subseteq CallsAt("saveQuietly") /\ CallsAt("created") \cap Commits = {}
      BY DEF CallsAt, Commits
    <2> QED
      BY <1>19, <2>1, CallStep DEF AddBranch, Committing
  <1>20. CASE SaveRemoval
    <2>1. CallsAt("saveRemoval") \subseteq CallsAt("deleting")
          /\ CallsAt("saveRemoval") \cap Commits = {}
      BY DEF CallsAt, Commits
    <2>2. CASE Step("saveRemoval", "deleting")
      BY <2>1, <2>2, CallStep DEF Committing
    <2>3. CASE Step("saveRemoval", "idle")
      BY <2>3, CallIdle DEF Step
    <2> QED
      BY <1>20, <2>2, <2>3 DEF SaveRemoval
  <1>21. CASE DeleteThrows
    <2>1. /\ CallsAt("deleting") \subseteq CallsAt("saveQuietly")
          /\ CallsAt("deleted") \subseteq CallsAt("saveQuietly")
          /\ CallsAt("deleting") \cap Commits = {} /\ CallsAt("deleted") \cap Commits = {}
      BY DEF CallsAt, Commits
    <2> QED
      BY <1>21, <2>1, CallStep DEF DeleteThrows, Committing
  <1>22. CASE RemoteDelete
    <2>1. CallsAt("deleting") \subseteq CallsAt("deleted") /\ CallsAt("deleting") \cap Commits = {}
      BY DEF CallsAt, Commits
    <2> QED
      BY <1>22, <2>1, CallStep DEF RemoteDelete, Committing
  <1>23. CASE RemoteCreate
    <2>1. op.call.name \in CallsAt("creating")
      BY <1>23 DEF RemoteCreate, CallInv
    <2>2. op'.pc = "created" /\ op'.call = op.call
      BY <1>23, <1>a DEF RemoteCreate, Operation
    <2> QED
      BY <2>1, <2>2, CallOther DEF CallsAt, Committing, Commits
  <1>24. CASE SaveJournal
    <2>1. CASE Step("saveJournal", "idle")
      BY <2>1, CallIdle DEF Step
    <2>2. CASE Step("saveJournal", "publishing") /\ attempt' = op.request /\ ws' = ws
      <3>1. op.call.name \in Commits
        BY <2>2 DEF Step, CallInv, CallsAt
      <3>2. /\ op'.pc = "publishing" /\ op'.call = op.call /\ op'.request = op.request
        BY <2>2, <1>a DEF Step, Operation
      <3> QED
        BY <2>2, <3>1, <3>2 DEF CallInv, CallsAt, Step, Committing, Changes, Overlay, Base
    <2> QED
      BY <1>24, <2>1, <2>2 DEF SaveJournal
  <1>25. CASE CommitThrows
    BY <1>25, CallIdle DEF CommitThrows, Step
  \* The rest of a publication.
  <1>d. ASSUME NEW from \in Committing, op.pc = from
        PROVE  op.call.name \in Commits
    BY <1>d DEF CallInv, CallsAt, Committing
  <1>26. CASE CommitRejected \/ Reconcile \/ ReconcileLater
    <2>1. op.pc \in Committing /\ op'.pc = "saveQuietly" /\ op'.call = op.call
          /\ op'.request = op.request
      BY <1>26, <1>a DEF CommitRejected, Reconcile, ReconcileLater, Step, Operation, Committing
    <2> QED
      BY <1>d, <2>1 DEF CallInv, CallsAt, Committing
  <1>27. CASE CommitPublished
    <2>1. /\ op.pc = "succeeded" /\ op'.pc = "saveOutcome" /\ op'.call = op.call
          /\ op'.request = op.request /\ op'.revision = op.revision
          /\ attempt' = attempt /\ content' = content
      BY <1>27, <1>a DEF CommitPublished, Step, Operation, remote
    <2>2. /\ ws'.sel = ws.sel /\ ws'.base = ws.base /\ ws'.overlay = ws.overlay
          /\ ws'.journal.phase = "published" /\ ws'.journal.published = op.revision
      BY <1>27, <1>a DEF CommitPublished, Snapshot, Journal
    <2> QED
      BY <1>d, <2>1, <2>2 DEF CallInv, CallsAt, Committing, Changes, Overlay, Base
  <1>28. CASE SaveOutcome
    <2>1. /\ op.pc = "saveOutcome" /\ op'.pc = "reconcile" /\ op'.call = op.call
          /\ op'.request = op.request /\ op'.revision = op.revision
          /\ UNCHANGED <<ws, attempt, content>>
      BY <1>28, <1>a DEF SaveOutcome, Step, Operation, remote
    <2> QED
      BY <1>d, <2>1 DEF CallInv, CallsAt, Committing, Changes, Overlay, Base
  <1>29. ASSUME NEW q \in wire, RemoteApply(q)
         PROVE  CallInv'
    <2>1. CASE ~Awaited(q)
      BY <1>29, <2>1, CallFrame DEF RemoteApply
    <2>2. CASE Awaited(q)
      <3>1. /\ op.pc = "publishing" /\ op.request = q /\ op'.pc = "succeeded"
            /\ op'.call = op.call /\ op'.request = op.request /\ op'.revision = used + 1
            /\ UNCHANGED <<ws, attempt>>
        BY <1>29, <1>a, <2>2 DEF RemoteApply, Awaited, Operation
      <3>2. used + 1 \in Revision /\ q.base \in 0 .. used
        BY <1>29, <3>1, NextRevision DEF RemoteApply, GroundedInv, GroundedCall
      <3>3. content'[used + 1] = content[q.base] \cup q.changes
        BY <1>29, <3>2 DEF RemoteApply, TypeOK
      <3>4. content'[q.base] = content[q.base]
        BY <3>2, RevisionsStay
      <3> QED
        BY <1>d, <3>1, <3>3, <3>4 DEF CallInv, CallsAt, Committing, Changes, Overlay, Base
    <2> QED
      BY <2>1, <2>2
  <1>30. ASSUME NEW q \in wire, RemoteRefuse(q)
         PROVE  CallInv'
    <2>1. CASE ~Awaited(q)
      BY <1>30, <2>1, CallFrame DEF RemoteRefuse
    <2>2. CASE Awaited(q)
      <3>1. /\ op.pc = "publishing" /\ op'.pc = "refused"
            /\ op'.call = op.call /\ op'.request = op.request
            /\ UNCHANGED <<ws, attempt>>
        BY <1>30, <1>a, <2>2 DEF RemoteRefuse, Awaited, Operation
      <3> QED
        BY <1>d, <3>1 DEF CallInv, CallsAt, Committing, Changes, Overlay, Base
    <2> QED
      BY <2>1, <2>2
  <1>31. ASSUME NEW q \in wire, LoseRequest(q)
         PROVE  CallInv'
    BY <1>31, CallFrame DEF LoseRequest
  <1>32. ASSUME NEW name \in Offered, Submit(name)
         PROVE  CallInv'
    BY <1>32, CallFrame DEF Submit
  <1>33. ASSUME NEW b \in Branches, OthersMove(b)
         PROVE  CallInv'
    BY <1>33, CallFrame DEF OthersMove
  <1>34. CASE UNCHANGED vars
    BY <1>34, CallFrame DEF vars
  <1> QED
    BY <1>1, <1>2, <1>3, <1>4, <1>5, <1>6, <1>7, <1>8, <1>9, <1>10, <1>11,
       <1>12, <1>13, <1>14, <1>15, <1>16, <1>17, <1>18, <1>19, <1>20, <1>21,
       <1>22, <1>23, <1>24, <1>25, <1>26, <1>27, <1>28, <1>29, <1>30, <1>31,
       <1>32, <1>33, <1>34
       DEF Next, Start, Continue, Remote

LEMMA CallCorrect == Spec => []CallInv
  BY TypeCorrect, ReopenCorrect, GroundedCorrect, CallInit, CallNext, PTL DEF Spec

\* A commit goes to the branch and the base its caller had on screen when it
\* called, whatever ran in between; the journal it prepares says the same.
THEOREM CommitsAreGuarded == Spec => []CommitMatchesWhatWasSeen
  <1>1. TypeOK /\ CallInv => CommitMatchesWhatWasSeen
    <2> SUFFICES ASSUME TypeOK, CallInv, op.call.name \in Commits,
                        op.pc # "saveQuietly"
                 PROVE  op.pc \in Committing
      BY DEF CallInv, CommitMatchesWhatWasSeen
    <2>1. op.pc \in PCs /\ op.call.name \in CallsAt(op.pc)
      BY DEF TypeOK, Operation, CallInv
    <2> QED
      BY <2>1 DEF CallsAt, PCs, Commits, Committing
  <1> QED
    BY <1>1, TypeCorrect, CallCorrect, PTL

-----------------------------------------------------------------------------
(* Settling a publication that happened changes nothing the user sees. *)

\* What snapshot s says was published is the base and the changes of the
\* request that is not settled.
Tells(s) ==
    attempt.id # 0 /\ s.journal.phase = "published" =>
        content[s.journal.published] = content[attempt.base] \cup attempt.changes

OutcomeInv == Tells(disk) /\ (session # "closed" => Tells(ws))

LEMMA NoSnapshotTells == NoSnapshot.journal.phase = "none"
  BY DEF NoSnapshot, NoJournal

LEMMA OutcomeInit == Init => OutcomeInv
  BY NoAttempt DEF Init, OutcomeInv, Tells

\* A snapshot with a published journal names a revision that exists.
LEMMA PublishedExists ==
    ASSUME TypeOK, NEW s, Grounded(s, used), Stored(s), s.journal.phase = "published"
    PROVE  s.journal.published \in 0 .. used
  BY NoSnapshotTells, KnownType DEF TypeOK, Grounded, Stored, Opens

\* What a snapshot tells stays true while the remote moves.
LEMMA TellsLater ==
    ASSUME TypeOK, GroundedInv, [Next]_vars, attempt' = attempt,
           NEW s, Grounded(s, used), Stored(s), Tells(s)
    PROVE  attempt'.id # 0 /\ s.journal.phase = "published" =>
              content'[s.journal.published] =
                  content'[attempt'.base] \cup attempt'.changes
  <1>1. s.journal.phase = "published" => s.journal.published \in 0 .. used
    BY PublishedExists
  <1>2. attempt.base \in 0 .. used
    BY DEF GroundedInv
  <1> QED
    BY <1>1, <1>2, RevisionsStay DEF Tells

LEMMA OutcomeNext ==
    TypeOK /\ ReopenInv /\ GroundedInv /\ JournalInv /\ CallInv /\ OutcomeInv
        /\ [Next]_vars => OutcomeInv'
  <1> SUFFICES ASSUME TypeOK, ReopenInv, GroundedInv, JournalInv, CallInv,
                      OutcomeInv, [Next]_vars
               PROVE  OutcomeInv'
    OBVIOUS
  <1>a. ws \in Snapshot /\ op \in Operation /\ Grounded(ws, used) /\ Grounded(disk, used)
    BY DEF TypeOK, GroundedInv
  <1>b. session # "closed" => Stored(ws)
    BY DEF ReopenInv, Stored, TypeOK
  <1>c. Stored(disk)
    BY DEF ReopenInv
  \* Nothing is unsettled afterwards.
  <1>d. ASSUME attempt'.id = 0
        PROVE  OutcomeInv'
    BY <1>d DEF OutcomeInv, Tells

  <1> DEFINE Told(s) == attempt'.id # 0 /\ s.journal.phase = "published" =>
                            content'[s.journal.published] =
                                content'[attempt'.base] \cup attempt'.changes
  <1>e. ASSUME attempt' = attempt
        PROVE  Told(disk) /\ (session # "closed" => Told(ws))
    <2>1. Told(disk)
      BY <1>a, <1>c, <1>e, TellsLater DEF OutcomeInv
    <2>2. session # "closed" => Told(ws)
      BY <1>a, <1>b, <1>e, TellsLater DEF OutcomeInv
    <2> QED
      BY <2>1, <2>2
  \* The snapshots stay, or are written by a save in progress.
  <1>f. ASSUME attempt' = attempt, ws' = ws, session' = session,
               disk' = disk \/ (disk' = ws /\ session # "closed")
        PROVE  OutcomeInv'
    BY <1>e, <1>f DEF OutcomeInv, Tells
  <1>g. op.pc # "idle" => session = "open"
    BY DEF ReopenInv
  <1>h. ASSUME op.pc \notin Settling
        PROVE  attempt.id = 0
    BY <1>h DEF JournalInv
  <1>i. ASSUME NEW name, NEW pc, Begin(name, pc),
               name \notin {"persist", "resolvePendingCommitPublication"},
               attempt' = attempt
        PROVE  OutcomeInv'
    BY <1>d, <1>i, NothingPending DEF Begin, Waiting
  <1>1. CASE Load
    BY <1>1, <1>e DEF Load, OutcomeInv, Tells
  <1>2. CASE Ensure
    <2>1. ws'.journal = ws.journal
      BY <1>2, <1>a DEF Ensure, Snapshot
    <2> QED
      BY <1>2, <1>e, <2>1 DEF Ensure, OutcomeInv, Tells
  <1>3. CASE OpenThrows
    BY <1>3, <1>e DEF OpenThrows, OutcomeInv, Tells
  <1>4. CASE Recover
    BY <1>4, <1>d, NoAttempt DEF Recover
  <1>5. CASE OpenAsStored
    BY <1>5, <1>e DEF OpenAsStored, OutcomeInv, Tells
  <1>6. CASE Crash
    BY <1>6, <1>e DEF Crash, OutcomeInv, Tells
  <1>7. CASE Refuse
    BY <1>7, <1>f DEF Refuse
  <1>8. CASE WriteFile
    BY <1>8, <1>i DEF WriteFile
  <1>9. CASE Revert
    BY <1>9, <1>i DEF Revert
  <1>10. CASE SwitchVisited \/ SwitchUnvisited
    BY <1>10, <1>i DEF SwitchVisited, SwitchUnvisited
  <1>11. CASE Refresh
    BY <1>11, <1>i DEF Refresh
  <1>12. CASE CreateBranch
    BY <1>12, <1>i DEF CreateBranch
  <1>13. CASE DeleteBranch
    BY <1>13, <1>i DEF DeleteBranch
  <1>14. CASE Persist
    BY <1>14, <1>f DEF Persist, Begin
  <1>15. ASSUME NEW name \in Commits, StartCommit(name)
         PROVE  OutcomeInv'
    BY <1>15, <1>d, NothingPending DEF StartCommit, Commits
  <1>16. CASE ResolveNotPublished
    BY <1>16, <1>d, NoAttempt DEF ResolveNotPublished
  <1>17. CASE ResolvePublished
    <2>1. CASE attempt' = NoRequest
      BY <1>d, <2>1, NoAttempt
    <2>2. CASE UNCHANGED <<session, ws, disk, attempt>>
      BY <1>f, <2>2
    <2> QED
      BY <1>17, <2>1, <2>2 DEF ResolvePublished
  <1>18. CASE Save \/ SaveThrows \/ ListBranches \/ ApplySwitch \/ ApplyRefresh
              \/ ListedNothing \/ CreateThrows \/ AddBranch
    <2>1. op.pc \notin Settling /\ attempt' = attempt
      BY <1>18 DEF Save, SaveThrows, ListBranches, ApplySwitch, ApplyRefresh,
         ListedNothing, CreateThrows, AddBranch, Step, Settling
    <2> QED
      BY <1>d, <1>h, <2>1
  <1>19. CASE SaveRemoval \/ Deleted \/ DeleteThrows \/ RemoteCreate \/ RemoteDelete
    <2>1. op.pc \notin Settling /\ attempt' = attempt
      BY <1>19 DEF SaveRemoval, Deleted, DeleteThrows, RemoteCreate, RemoteDelete,
         Step, Settling
    <2> QED
      BY <1>d, <1>h, <2>1
  <1>20. CASE SaveQuietly \/ SaveOutcome
    BY <1>20, <1>f, <1>g DEF SaveQuietly, SaveOutcome, Step
  <1>21. CASE SaveJournal
    <2>1. op.pc = "saveJournal" /\ op.pc \notin Settling /\ ws.journal.phase = "prepared"
      BY <1>21 DEF SaveJournal, Step, Settling, CallInv
    <2>2. CASE attempt' = attempt
      BY <1>d, <1>h, <2>1, <2>2
    <2>3. CASE disk' = ws /\ ws' = ws
      BY <2>1, <2>3 DEF OutcomeInv, Tells
    <2> QED
      BY <1>21, <2>2, <2>3 DEF SaveJournal
  <1>22. CASE CommitThrows \/ ReconcileLater
    BY <1>22, <1>f DEF CommitThrows, ReconcileLater, Step
  <1>23. CASE CommitRejected \/ Reconcile
    BY <1>23, <1>d, NoAttempt DEF CommitRejected, Reconcile
  <1>24. CASE CommitPublished
    <2>1. op.pc = "succeeded" /\ attempt' = attempt /\ content' = content /\ disk' = disk
      BY <1>24 DEF CommitPublished, Step, remote
    <2>2. ws'.journal.published = op.revision
      BY <1>24, <1>a DEF CommitPublished, Snapshot, Journal
    <2>3. attempt = op.request
          /\ content[op.revision] = content[op.request.base] \cup op.request.changes
      BY <2>1 DEF CallInv, Committing
    <2> QED
      BY <1>e, <2>1, <2>2, <2>3 DEF OutcomeInv, Tells
  <1>25. ASSUME NEW q \in wire, RemoteApply(q) \/ RemoteRefuse(q) \/ LoseRequest(q)
         PROVE  OutcomeInv'
    BY <1>25, <1>f DEF RemoteApply, RemoteRefuse, LoseRequest
  <1>26. ASSUME NEW name \in Offered, Submit(name)
         PROVE  OutcomeInv'
    BY <1>26, <1>f DEF Submit
  <1>27. ASSUME NEW b \in Branches, OthersMove(b)
         PROVE  OutcomeInv'
    BY <1>27, <1>f DEF OthersMove
  <1>28. CASE UNCHANGED vars
    BY <1>28, <1>f DEF vars
  <1> QED
    BY <1>1, <1>2, <1>3, <1>4, <1>5, <1>6, <1>7, <1>8, <1>9, <1>10, <1>11,
       <1>12, <1>13, <1>14, <1>15, <1>16, <1>17, <1>18, <1>19, <1>20, <1>21,
       <1>22, <1>23, <1>24, <1>25, <1>26, <1>27, <1>28
       DEF Next, Open, Start, Continue, Remote

LEMMA OutcomeCorrect == Spec => []OutcomeInv
  BY TypeCorrect, ReopenCorrect, GroundedCorrect, JournalCorrect, CallCorrect,
     OutcomeInit, OutcomeNext, PTL DEF Spec

\* The selected branch looks the same when revision r, which is the base with
\* some of the changes, takes the place of both.
LEMMA RebaseKeepsVisible ==
    ASSUME TypeOK, NEW r \in 0 .. used, content' = content, Base \in 0 .. used,
           NEW E \in SUBSET Overlay, content[r] = content[Base] \cup E,
           \/ ws' = Unjournalled(Rebase(ws, r))
           \/ /\ E = Overlay
              /\ ws' = Unjournalled([ws EXCEPT !.base[ws.sel] = r,
                                               !.overlay[ws.sel] = {}])
    PROVE  Visible(ws.sel)' = Visible(ws.sel)
  <1>1. ws \in Snapshot /\ ws.sel \in Branches
    BY DEF TypeOK, Snapshot
  <1>2. r # NoRevision /\ Base # NoRevision
    BY KnownType DEF TypeOK
  <1>3. /\ ws'.sel = ws.sel /\ ws'.base[ws.sel] = r
        /\ \/ ws'.overlay[ws.sel] = Overlay \ content[r]
           \/ E = Overlay /\ ws'.overlay[ws.sel] = {}
    <2>1. CASE ws' = Unjournalled(Rebase(ws, r))
      BY <1>1, <2>1 DEF Unjournalled, Rebase, Snapshot, Overlay
    <2>2. CASE /\ E = Overlay
               /\ ws' = Unjournalled([ws EXCEPT !.base[ws.sel] = r,
                                               !.overlay[ws.sel] = {}])
      BY <1>1, <2>2 DEF Unjournalled, Snapshot
    <2> QED
      BY <2>1, <2>2
  <1>4. Visible(ws.sel) = Overlay \cup content[Base]
    BY <1>2 DEF Visible, Base, Overlay
  <1>5. Visible(ws.sel)' = ws'.overlay[ws.sel] \cup content[r]
    BY <1>2, <1>3 DEF Visible
  <1> QED
    BY <1>3, <1>4, <1>5

LEMMA SettlingKeepsVisible ==
    TypeOK /\ ReopenInv /\ GroundedInv /\ JournalInv /\ CallInv /\ OutcomeInv
        /\ [Next]_vars =>
    (ws.journal.phase = "published" /\ ~Journalled(ws') /\ session' = "open"
     /\ attempt.id # 0 => Visible(ws.sel)' = Visible(ws.sel))
  <1> SUFFICES ASSUME TypeOK, ReopenInv, GroundedInv, JournalInv, CallInv,
                      OutcomeInv, [Next]_vars,
                      ws.journal.phase = "published", ~Journalled(ws'),
                      session' = "open", attempt.id # 0
               PROVE  Visible(ws.sel)' = Visible(ws.sel)
    OBVIOUS
  <1>a. ws \in Snapshot /\ op \in Operation /\ Journalled(ws)
    BY DEF TypeOK, Journalled
  <1>b. op.pc \in Settling /\ op.pc # "refused"
    BY DEF JournalInv, CallInv
  <1>c. ASSUME session # "closed"
        PROVE  /\ ws.journal.published \in 0 .. used /\ Base \in 0 .. used
               /\ attempt.changes \in SUBSET Overlay
               /\ content[ws.journal.published] = content[Base] \cup attempt.changes
    <2>1. Covers(ws, attempt) /\ Tells(ws) /\ Grounded(ws, used) /\ attempt.base \in 0 .. used
      BY <1>c DEF JournalInv, OutcomeInv, GroundedInv
    <2>2. Base = attempt.base /\ attempt.changes \subseteq Overlay
      BY <2>1 DEF Covers, Base, Overlay
    <2>3. Stored(ws)
      BY <1>c DEF ReopenInv, Stored, TypeOK
    <2>4. ws.journal.published \in 0 .. used
      BY <2>1, <2>3, PublishedExists
    <2> QED
      BY <2>1, <2>2, <2>4 DEF Tells
  <1>d. ws' # ws
    BY <1>a
  <1>e. ASSUME NEW name, NEW pc, Begin(name, pc),
               name \notin {"persist", "resolvePendingCommitPublication"}
        PROVE  FALSE
    BY <1>e, NothingPending DEF Begin, Waiting
  <1>1. CASE Open
    <2>1. Recover
      BY <1>1, <1>d DEF Open, Load, Ensure, OpenThrows, OpenAsStored
    <2>2. /\ session # "closed" /\ content' = content
          /\ ws' = Unjournalled(Rebase(ws, ws.journal.published))
      BY <2>1 DEF Recover, RecoverPrepared, RecoverPublished, remote
    <2> QED
      BY <1>c, <2>2, RebaseKeepsVisible
  <1>2. CASE Start
    <2>1. CASE Refuse \/ Persist \/ SwitchUnvisited \/ Refresh \/ CreateBranch
      BY <1>d, <2>1 DEF Refuse, Persist, SwitchUnvisited, Refresh, CreateBranch
    <2>2. CASE WriteFile \/ Revert \/ SwitchVisited \/ DeleteBranch
      BY <1>e, <2>2 DEF WriteFile, Revert, SwitchVisited, DeleteBranch
    <2>3. ASSUME NEW name \in Commits, StartCommit(name)
          PROVE  FALSE
      BY <2>3, NothingPending DEF StartCommit, Commits
    <2>4. CASE ResolveNotPublished
      BY <2>4 DEF ResolveNotPublished
    <2>5. CASE ResolvePublished
      <3>1. /\ Head(queue).revision = ws.journal.published /\ session = "open"
            /\ ws' = Unjournalled(Rebase(ws, ws.journal.published))
            /\ content' = content
        BY <1>d, <2>5 DEF ResolvePublished, Waiting, Begin, remote
      <3> QED
        BY <1>c, <3>1, RebaseKeepsVisible
    <2> QED
      BY <1>2, <2>1, <2>2, <2>3, <2>4, <2>5 DEF Start
  <1>3. CASE Continue
    <2>1. CASE Save \/ SaveThrows \/ ListBranches \/ ApplySwitch \/ ApplyRefresh
               \/ ListedNothing \/ CreateThrows \/ AddBranch
      BY <1>b, <2>1 DEF Save, SaveThrows, ListBranches, ApplySwitch, ApplyRefresh,
         ListedNothing, CreateThrows, AddBranch, Step, Settling
    <2>2. CASE SaveRemoval \/ Deleted \/ DeleteThrows \/ SaveJournal \/ CommitRejected
      BY <1>b, <2>2 DEF SaveRemoval, Deleted, DeleteThrows, SaveJournal,
         CommitRejected, Step, Settling
    <2>3. CASE SaveQuietly \/ CommitThrows \/ SaveOutcome \/ ReconcileLater
      BY <1>d, <2>3 DEF SaveQuietly, CommitThrows, SaveOutcome, ReconcileLater
    <2>4. CASE CommitPublished
      BY <1>a, <2>4 DEF CommitPublished, Journalled, Snapshot, Journal
    <2>5. CASE Reconcile
      <3>1. op.pc = "reconcile" /\ session # "closed" /\ content' = content
        BY <2>5 DEF Reconcile, Step, ReopenInv, remote
      <3>2. ws.journal.published = op.revision
        BY <3>1 DEF CallInv
      <3>3. CASE op.call.whole
        <4>1. op.call.edits = Edits
          <5>1. op.call.name \in Commits /\ op.call \in Ready(used)
            BY <3>1 DEF CallInv, CallsAt, GroundedInv, GroundedCall
          <5> QED
            BY <3>3, <5>1 DEF Ready
        <4>2. attempt.changes = Overlay
          BY <1>a, <3>1, <4>1 DEF CallInv, Committing, Changes, Overlay, Snapshot
        <4> QED
          BY <1>c, <2>5, <3>1, <3>2, <3>3, <4>2, RebaseKeepsVisible DEF Reconcile
      <3>4. CASE ~op.call.whole
        BY <1>c, <2>5, <3>1, <3>2, <3>4, RebaseKeepsVisible DEF Reconcile
      <3> QED
        BY <3>3, <3>4
    <2> QED
      BY <1>3, <2>1, <2>2, <2>3, <2>4, <2>5 DEF Continue
  <1>4. CASE Remote
    <2>1. CASE RemoteCreate
      BY <1>d, <2>1 DEF RemoteCreate
    <2>2. CASE RemoteDelete
      BY <1>d, <2>2 DEF RemoteDelete
    <2> QED
      BY <1>d, <1>4, <2>1, <2>2 DEF Remote, RemoteApply, RemoteRefuse, LoseRequest
  <1>5. CASE Crash
    BY <1>5 DEF Crash
  <1>6. ASSUME NEW name \in Offered, Submit(name)
        PROVE  FALSE
    BY <1>d, <1>6 DEF Submit
  <1>7. ASSUME NEW b \in Branches, OthersMove(b)
        PROVE  FALSE
    BY <1>d, <1>7 DEF OthersMove
  <1>8. CASE UNCHANGED vars
    BY <1>d, <1>8 DEF vars
  <1> QED
    BY <1>1, <1>2, <1>3, <1>4, <1>5, <1>6, <1>7, <1>8 DEF Next

\* Settling a publication that happened, in the session that published or after
\* it was reopened, by the workspace or by the user, leaves what the selected
\* branch shows as it was.
THEOREM SettlingIsInvisible == Spec => PublicationKeepsVisible
  <1>1. TypeOK /\ ReopenInv /\ GroundedInv /\ JournalInv /\ CallInv /\ OutcomeInv
            /\ [Next]_vars =>
        [ws.journal.phase = "published" /\ ~Journalled(ws') /\ session' = "open"
         /\ attempt.id # 0 => Visible(ws.sel)' = Visible(ws.sel)]_vars
    BY SettlingKeepsVisible
  <1> QED
    BY <1>1, TypeCorrect, ReopenCorrect, GroundedCorrect, JournalCorrect, CallCorrect,
       OutcomeCorrect, PTL DEF Spec, PublicationKeepsVisible

-----------------------------------------------------------------------------
(* A dirty branch keeps its base. *)

Listing == {"listing", "listed"}
Removing == {"saveRemoval", "deleting", "deleted"}

\* A switch that reads the remote goes to a branch that was never visited, and
\* a rollback of a deletion gives back a base without edits.
BranchInv ==
    /\ op.pc \in Listing /\ op.call.name = "switchBranch" =>
          ws.base[op.call.branch] = NoRevision
    /\ op.pc \in Removing =>
          /\ ws = [op.snap EXCEPT !.base[op.call.branch] = NoRevision]
          /\ op.snap.overlay[op.call.branch] = {}

LEMMA BranchInit == Init => BranchInv
  BY DEF Init, BranchInv, Idle, Listing, Removing

LEMMA BranchNext == TypeOK /\ ReopenInv /\ BranchInv /\ [Next]_vars => BranchInv'
  <1> SUFFICES ASSUME TypeOK, ReopenInv, BranchInv, [Next]_vars
               PROVE  BranchInv'
    OBVIOUS
  <1>a. op \in Operation /\ ws \in Snapshot /\ (op.pc # "idle" => session = "open")
    BY DEF TypeOK, ReopenInv
  <1>b. ASSUME op'.pc \notin Listing \cup Removing
        PROVE  BranchInv'
    BY <1>b DEF BranchInv
  <1>c. ASSUME UNCHANGED <<ws, op>>
        PROVE  BranchInv'
    BY <1>c DEF BranchInv
  <1>d. "idle" \notin Listing \cup Removing
    BY DEF Listing, Removing
  <1>1. CASE Open
    <2>1. op' = op /\ op.pc = "idle"
      BY <1>1, <1>a DEF Open, Load, Ensure, OpenThrows, Recover, OpenAsStored
    <2> QED
      BY <1>b, <1>d, <2>1
  <1>2. CASE Crash
    BY <1>2, <1>b, <1>d DEF Crash, Idle
  <1>3. CASE Refuse \/ \E name \in Offered : Submit(name)
    BY <1>3, <1>c DEF Refuse, Submit
  <1>4. CASE WriteFile \/ Revert \/ SwitchVisited \/ Persist \/ CreateBranch
             \/ ResolveNotPublished
    BY <1>4, <1>b DEF WriteFile, Revert, SwitchVisited, Persist, CreateBranch,
       ResolveNotPublished, Begin, Idle, Listing, Removing
  <1>5. CASE ResolvePublished
    BY <1>5, <1>b, <1>c DEF ResolvePublished, Begin, Idle, Listing, Removing
  <1>6. CASE SwitchUnvisited
    BY <1>6 DEF SwitchUnvisited, Begin, Idle, BranchInv, Listing, Removing
  <1>7. CASE Refresh
    <2>1. op'.pc = "listing" /\ op'.call.name = "refreshRemoteHead"
      BY <1>7 DEF Refresh, Begin, Waiting, Idle
    <2> QED
      BY <2>1 DEF BranchInv, Listing, Removing
  <1>8. CASE DeleteBranch
    <2> DEFINE b == Head(queue).branch
    <2>1. /\ op'.pc = "saveRemoval" /\ op'.call.branch = b /\ op'.snap = ws
          /\ ws' = [ws EXCEPT !.base[b] = NoRevision] /\ ws.overlay[b] = {}
      BY <1>8 DEF DeleteBranch, Begin, Idle
    <2> QED
      BY <2>1 DEF BranchInv, Listing, Removing
  <1>9. ASSUME NEW name \in Commits, StartCommit(name)
        PROVE  BranchInv'
    BY <1>9, <1>b DEF StartCommit, Listing, Removing
  <1>10. CASE ListBranches
    <2>1. /\ op.pc = "listing" /\ op'.pc = "listed" /\ op'.call = op.call /\ ws' = ws
      BY <1>10, <1>a DEF ListBranches, Operation
    <2> QED
      BY <2>1 DEF BranchInv, Listing, Removing
  <1>11. ASSUME NEW from, NEW to, to \notin Listing \cup Removing, Step(from, to)
         PROVE  BranchInv'
    BY <1>11, <1>a, <1>b, <1>d DEF Step, Idle, Operation
  <1>12. CASE Save \/ SaveThrows \/ SaveQuietly \/ ApplySwitch \/ ApplyRefresh
              \/ ListedNothing \/ CreateThrows \/ AddBranch \/ Deleted \/ DeleteThrows
    BY <1>12, <1>11 DEF Save, SaveThrows, SaveQuietly, ApplySwitch, ApplyRefresh,
       ListedNothing, CreateThrows, AddBranch, Deleted, DeleteThrows, Listing, Removing
  <1>13. CASE SaveJournal \/ CommitThrows \/ CommitRejected \/ CommitPublished
              \/ SaveOutcome \/ Reconcile \/ ReconcileLater
    BY <1>13, <1>11 DEF SaveJournal, CommitThrows, CommitRejected, CommitPublished,
       SaveOutcome, Reconcile, ReconcileLater, Listing, Removing
  <1>14. CASE SaveRemoval
    <2>1. CASE Step("saveRemoval", "deleting") /\ ws' = ws
      <3>1. /\ op.pc = "saveRemoval" /\ op'.pc = "deleting" /\ op'.call = op.call
            /\ op'.snap = op.snap
        BY <1>a, <2>1 DEF Step, Operation
      <3> QED
        BY <2>1, <3>1 DEF BranchInv, Listing, Removing
    <2>2. CASE Step("saveRemoval", "idle")
      BY <1>11, <1>d, <2>2
    <2> QED
      BY <1>14, <2>1, <2>2 DEF SaveRemoval
  <1>15. CASE RemoteDelete
    <2>1. /\ op.pc = "deleting" /\ op'.pc = "deleted" /\ op'.call = op.call
          /\ op'.snap = op.snap /\ ws' = ws
      BY <1>15, <1>a DEF RemoteDelete, Step, Operation
    <2> QED
      BY <2>1 DEF BranchInv, Listing, Removing
  <1>16. CASE RemoteCreate
    BY <1>16, <1>a, <1>b DEF RemoteCreate, Operation, Listing, Removing
  <1>17. ASSUME NEW q \in wire, RemoteApply(q) \/ RemoteRefuse(q) \/ LoseRequest(q)
         PROVE  BranchInv'
    <2>1. ws' = ws /\ (op' = op \/ op'.pc \in {"succeeded", "refused"})
      BY <1>17, <1>a DEF RemoteApply, RemoteRefuse, LoseRequest, Awaited, Operation
    <2> QED
      BY <1>b, <1>c, <2>1 DEF Listing, Removing
  <1>18. ASSUME NEW b \in Branches, OthersMove(b)
         PROVE  BranchInv'
    BY <1>18, <1>c DEF OthersMove
  <1>19. CASE UNCHANGED vars
    BY <1>19, <1>c DEF vars
  <1> QED
    BY <1>1, <1>2, <1>3, <1>4, <1>5, <1>6, <1>7, <1>8, <1>9, <1>10, <1>12,
       <1>13, <1>14, <1>15, <1>16, <1>17, <1>18, <1>19
       DEF Next, Start, Continue, Remote

LEMMA BranchCorrect == Spec => []BranchInv
  BY TypeCorrect, ReopenCorrect, BranchInit, BranchNext, PTL DEF Spec

\* What DirtyBaseIsPinned allows a step to do to the base of branch b.
PinnedOr(b) ==
    \/ Journalled(ws) /\ ws.journal.branch = b
    \/ op.pc = "save" /\ ws' = op.snap
    \/ op.pc = "created" /\ op.call.branch = b

LEMMA BasePinned ==
    ASSUME TypeOK, ReopenInv, GroundedInv, CallInv, BranchInv, [Next]_vars,
           NEW b \in Branches, session # "closed", session' # "closed",
           ws.overlay[b] # {}, ws'.base[b] # ws.base[b]
    PROVE  PinnedOr(b)
  <1>a. /\ ws \in Snapshot /\ op \in Operation /\ ws.sel \in Branches
        /\ Grounded(ws, used)
    BY DEF TypeOK, Snapshot, GroundedInv
  <1>b. ws' # ws
    OBVIOUS

  <1>c. ws.base[b] # NoRevision
    BY <1>a DEF Grounded
  \* A base is replaced: it is that of a branch the property excepts.
  <1>d. ASSUME NEW x \in Branches, NEW r, ws'.base = [ws.base EXCEPT ![x] = r]
        PROVE  b = x
    BY <1>a, <1>d DEF Snapshot
  <1>e. ASSUME ws'.base = [ws.base EXCEPT ![ws.sel] = ws'.base[ws.sel]],
               Journalled(ws), session = "open" \/ Base # NoRevision
        PROVE  PinnedOr(b)
    <2>1. ws # NoSnapshot
      BY <1>e, WorkspaceAssumption DEF Journalled, NoSnapshot, NoJournal
    <2>2. Opens(ws)
      BY <1>e, <2>1 DEF ReopenInv, Stored, TypeOK
    <2> QED
      BY <1>a, <1>d, <1>e, <2>2 DEF Opens, PinnedOr
  <1>1. CASE Open
    <2>1. CASE Load \/ OpenThrows \/ OpenAsStored
      BY <1>b, <2>1 DEF Load, OpenThrows, OpenAsStored
    <2>2. CASE Ensure
      <3>1. ws = NoSnapshot
        BY <2>2 DEF ReopenInv, Ensure, Stored, Opens, Base
      <3> QED
        BY <3>1 DEF NoSnapshot
    <2>3. CASE Recover
      <3>1. CASE RecoverPrepared
        BY <1>a, <3>1 DEF RecoverPrepared, Unjournalled, Snapshot
      <3>2. CASE RecoverPublished
        <4>1. ws'.base = [ws.base EXCEPT ![ws.sel] = ws.journal.published]
          BY <1>a, <3>2 DEF RecoverPublished, Unjournalled, Rebase, Snapshot
        <4>2. ws'.base[ws.sel] = ws.journal.published
          BY <1>a, <4>1 DEF Snapshot
        <4>3. Journalled(ws) /\ Base # NoRevision
          BY <2>3, <3>2 DEF Recover, RecoverPublished, Journalled
        <4> QED
          BY <1>e, <4>1, <4>2, <4>3
      <3> QED
        BY <2>3, <3>1, <3>2 DEF Recover
    <2> QED
      BY <1>1, <2>1, <2>2, <2>3 DEF Open
  <1>2. CASE Start
    <2>1. CASE Refuse \/ Persist \/ SwitchUnvisited \/ Refresh \/ CreateBranch
      BY <1>b, <2>1 DEF Refuse, Persist, SwitchUnvisited, Refresh, CreateBranch
    <2>2. CASE WriteFile \/ Revert \/ SwitchVisited
      BY <1>a, <2>2 DEF WriteFile, Revert, SwitchVisited, Snapshot
    <2>3. CASE DeleteBranch
      <3>1. Head(queue).branch \in Branches
        BY <2>3, HeadType DEF DeleteBranch, Begin, Call
      <3>2. ws'.base = [ws.base EXCEPT ![Head(queue).branch] = NoRevision]
        BY <1>a, <2>3 DEF DeleteBranch, Snapshot
      <3> QED
        BY <1>d, <2>3, <3>1, <3>2 DEF DeleteBranch
    <2>4. ASSUME NEW name \in Commits, StartCommit(name)
          PROVE  FALSE
      BY <1>a, <2>4 DEF StartCommit, Snapshot
    <2>5. CASE ResolveNotPublished
      BY <1>a, <2>5 DEF ResolveNotPublished, Unjournalled, Snapshot
    <2>6. CASE ResolvePublished
      <3>1. /\ ws' = Unjournalled(Rebase(ws, Head(queue).revision))
            /\ Journalled(ws) /\ session = "open"
        BY <1>b, <2>6 DEF ResolvePublished, Waiting
      <3>2. ws'.base = [ws.base EXCEPT ![ws.sel] = Head(queue).revision]
        BY <1>a, <3>1 DEF Unjournalled, Rebase, Snapshot
      <3>3. ws'.base[ws.sel] = Head(queue).revision
        BY <1>a, <3>2 DEF Snapshot
      <3> QED
        BY <1>e, <3>1, <3>2, <3>3
    <2> QED
      BY <1>2, <2>1, <2>2, <2>3, <2>4, <2>5, <2>6 DEF Start
  <1>3. CASE Continue
    <2>1. CASE Save \/ SaveQuietly \/ ListBranches \/ ListedNothing \/ CreateThrows
               \/ Deleted \/ CommitThrows \/ SaveOutcome \/ ReconcileLater
      BY <1>b, <2>1 DEF Save, SaveQuietly, ListBranches, ListedNothing, CreateThrows,
         Deleted, CommitThrows, SaveOutcome, ReconcileLater
    <2>2. CASE SaveThrows
      BY <2>2 DEF SaveThrows, Step, PinnedOr
    <2>3. CASE ApplySwitch
      <3>1. Target = op.call.branch /\ Target \in Branches
        BY <1>a, <2>3 DEF ApplySwitch, Target, Operation, Call
      <3>2. ws.base[Target] = NoRevision
        BY <2>3, <3>1 DEF ApplySwitch, Step, BranchInv, Listing
      <3>3. ws'.base = [ws.base EXCEPT ![Target] = op.revision]
        BY <1>a, <2>3 DEF ApplySwitch, Snapshot
      <3> QED
        BY <1>c, <1>d, <3>1, <3>2, <3>3
    <2>4. CASE ApplyRefresh
      <3>1. ws'.base = [ws.base EXCEPT ![ws.sel] = op.revision] /\ ws.overlay[ws.sel] = {}
        BY <1>a, <2>4 DEF ApplyRefresh, Snapshot, Overlay
      <3> QED
        BY <1>a, <1>d, <3>1
    <2>5. CASE AddBranch
      <3>1. op.call.branch \in Branches /\ op.pc = "created"
        BY <1>a, <2>5 DEF AddBranch, Step, Operation, Call
      <3>2. ws'.base = [ws.base EXCEPT ![op.call.branch] = op.revision]
        BY <1>a, <2>5 DEF AddBranch, Snapshot
      <3> QED
        BY <1>d, <3>1, <3>2 DEF PinnedOr
    <2>6. CASE SaveRemoval \/ DeleteThrows
      <3>1. op.pc \in Removing /\ ws' = op.snap
        BY <1>b, <2>6 DEF SaveRemoval, DeleteThrows, Step, Removing
      <3>2. /\ ws = [op.snap EXCEPT !.base[op.call.branch] = NoRevision]
            /\ op.snap.overlay[op.call.branch] = {}
        BY <3>1 DEF BranchInv
      <3>3. op.snap \in Snapshot /\ op.call.branch \in Branches
        BY <1>a DEF Operation, Call
      <3> QED
        BY <3>1, <3>2, <3>3 DEF Snapshot
    <2>7. CASE SaveJournal \/ CommitRejected
      BY <1>a, <1>b, <2>7 DEF SaveJournal, CommitRejected, Unjournalled, Snapshot
    <2>8. CASE CommitPublished
      BY <1>a, <2>8 DEF CommitPublished, Snapshot
    <2>9. CASE Reconcile
      <3>1. op.pc = "reconcile" /\ session = "open" /\ Journalled(ws)
        BY <2>9 DEF Reconcile, Step, ReopenInv, CallInv, Journalled
      <3>2. ws'.base = [ws.base EXCEPT ![ws.sel] = op.revision]
        BY <1>a, <2>9 DEF Reconcile, Unjournalled, Rebase, Snapshot
      <3>3. ws'.base[ws.sel] = op.revision
        BY <1>a, <3>2 DEF Snapshot
      <3> QED
        BY <1>e, <3>1, <3>2, <3>3
    <2> QED
      BY <1>3, <2>1, <2>2, <2>3, <2>4, <2>5, <2>6, <2>7, <2>8, <2>9 DEF Continue
  <1>4. CASE Remote
    <2>1. CASE RemoteCreate \/ RemoteDelete
      BY <1>b, <2>1 DEF RemoteCreate, RemoteDelete
    <2> QED
      BY <1>b, <1>4, <2>1 DEF Remote, RemoteApply, RemoteRefuse, LoseRequest
  <1>5. CASE Crash
    BY <1>5 DEF Crash
  <1>6. ASSUME NEW name \in Offered, Submit(name)
        PROVE  FALSE
    BY <1>b, <1>6 DEF Submit
  <1>7. ASSUME NEW x \in Branches, OthersMove(x)
        PROVE  FALSE
    BY <1>b, <1>7 DEF OthersMove
  <1>8. CASE UNCHANGED vars
    BY <1>b, <1>8 DEF vars
  <1> QED
    BY <1>1, <1>2, <1>3, <1>4, <1>5, <1>6, <1>7, <1>8 DEF Next

\* No step rebases a branch with edits, except the settling of a publication of
\* that branch, the rollback of a failed call and the creation of the branch.
THEOREM DirtyBranchesStay == Spec => DirtyBaseIsPinned
  <1>1. TypeOK /\ ReopenInv /\ GroundedInv /\ CallInv /\ BranchInv /\ [Next]_vars =>
        [\A b \in Branches :
            /\ session # "closed" /\ session' # "closed"
            /\ ws.overlay[b] # {} /\ ws'.base[b] # ws.base[b]
            => \/ Journalled(ws) /\ ws.journal.branch = b
               \/ op.pc = "save" /\ ws' = op.snap
               \/ op.pc = "created" /\ op.call.branch = b]_vars
    BY BasePinned DEF PinnedOr
  <1> QED
    BY <1>1, TypeCorrect, ReopenCorrect, GroundedCorrect, CallCorrect, BranchCorrect,
       PTL DEF Spec, DirtyBaseIsPinned

-----------------------------------------------------------------------------
(* An acknowledged edit is never lost. *)

Resolving == op.pc = "save" /\ op.call.name = "resolvePendingCommitPublication"
                            /\ op.call.revision # NoRevision

\* While its save is awaited a write is in memory, and a resolution has moved
\* the base.
WriteInv ==
    /\ op.pc = "save" /\ op.call.name = "writeFile" => op.call.edits \subseteq Overlay
    /\ Resolving => Base = op.call.revision

\* AckedEditsAreKept is not inductive: memory holds an owed edit as a change,
\* unless a resolution that is being saved has just published it, and so does
\* what a failed call would put back.
KeptInv ==
    \A p \in acked :
        /\ Keeps(disk, p[1], p[2])
        /\ session # "closed" =>
              p[2] \in ws.overlay[p[1]]
              \/ (Resolving /\ p \in PublishedIn(op.call.revision))
        /\ op.pc # "idle" => p[2] \in op.snap.overlay[p[1]]

LEMMA WriteInit == Init => WriteInv
  BY DEF Init, WriteInv, Idle, Resolving

LEMMA KeptInit == Init => KeptInv
  BY DEF Init, KeptInv

LEMMA WriteNext ==
    TypeOK /\ ReopenInv /\ WriteInv /\ [Next]_vars => WriteInv'
  <1> SUFFICES ASSUME TypeOK, ReopenInv, WriteInv, [Next]_vars
               PROVE  WriteInv'
    OBVIOUS
  <1>a. op \in Operation /\ ws \in Snapshot /\ (op.pc # "idle" => session = "open")
    BY DEF TypeOK, ReopenInv
  <1>b. ASSUME op'.pc # "save"
        PROVE  WriteInv'
    BY <1>b DEF WriteInv, Resolving
  <1>c. ASSUME UNCHANGED <<ws, op>>
        PROVE  WriteInv'
    BY <1>c DEF WriteInv, Resolving, Base, Overlay
  <1>d. ASSUME op'.call.name \notin {"writeFile", "resolvePendingCommitPublication"}
        PROVE  WriteInv'
    BY <1>d DEF WriteInv, Resolving
  <1>e. ASSUME NEW name, NEW pc, Begin(name, pc)
        PROVE  op'.pc = pc /\ op'.call = Head(queue) /\ op'.call.name = name
    BY <1>e DEF Begin, Waiting, Idle
  <1>1. CASE Open
    <2>1. op' = op /\ op.pc = "idle"
      BY <1>1, <1>a DEF Open, Load, Ensure, OpenThrows, Recover, OpenAsStored
    <2> QED
      BY <1>b, <2>1
  <1>2. CASE Crash
    BY <1>2, <1>b DEF Crash, Idle
  <1>3. CASE Refuse \/ \E name \in Offered : Submit(name)
    BY <1>3, <1>c DEF Refuse, Submit
  <1>4. CASE WriteFile
    <2>1. op'.call = Head(queue) /\ op'.call.name = "writeFile"
      BY <1>4, <1>e DEF WriteFile
    <2>2. ws'.sel = ws.sel /\ ws'.overlay[ws.sel] = Overlay \cup Head(queue).edits
      BY <1>4, <1>a DEF WriteFile, Snapshot, Overlay
    <2> QED
      BY <2>1, <2>2 DEF WriteInv, Resolving, Overlay
  <1>5. CASE Revert \/ SwitchVisited \/ SwitchUnvisited \/ Refresh \/ Persist
             \/ CreateBranch \/ DeleteBranch
    BY <1>5, <1>d, <1>e DEF Revert, SwitchVisited, SwitchUnvisited, Refresh, Persist,
       CreateBranch, DeleteBranch
  <1>6. ASSUME NEW name \in Commits, StartCommit(name)
        PROVE  WriteInv'
    BY <1>6, <1>b DEF StartCommit
  <1>7. CASE ResolveNotPublished
    <2>1. op'.call = Head(queue) /\ op'.call.name = "resolvePendingCommitPublication"
      BY <1>7, <1>e DEF ResolveNotPublished
    <2> QED
      BY <1>7, <2>1 DEF ResolveNotPublished, WriteInv, Resolving
  <1>8. CASE ResolvePublished
    <2>1. CASE UNCHANGED <<ws, op>>
      BY <1>c, <2>1
    <2>2. CASE /\ Begin("resolvePendingCommitPublication", "save")
               /\ ws' = Unjournalled(Rebase(ws, Head(queue).revision))
      <3>1. op'.call = Head(queue) /\ op'.call.name = "resolvePendingCommitPublication"
        BY <1>e, <2>2
      <3>2. ws'.base[ws'.sel] = Head(queue).revision
        BY <1>a, <2>2 DEF Unjournalled, Rebase, Snapshot
      <3> QED
        BY <3>1, <3>2 DEF WriteInv, Resolving, Base
    <2> QED
      BY <1>8, <2>1, <2>2 DEF ResolvePublished
  <1>9. ASSUME NEW from, NEW to, to # "save", Step(from, to)
        PROVE  WriteInv'
    BY <1>9, <1>a, <1>b DEF Step, Idle, Operation
  <1>10. CASE Save \/ SaveThrows \/ SaveQuietly \/ ListedNothing \/ CreateThrows
              \/ AddBranch \/ SaveRemoval \/ Deleted \/ DeleteThrows
    BY <1>10, <1>9 DEF Save, SaveThrows, SaveQuietly, ListedNothing, CreateThrows,
       AddBranch, SaveRemoval, Deleted, DeleteThrows
  <1>11. CASE SaveJournal \/ CommitThrows \/ CommitRejected \/ CommitPublished
              \/ SaveOutcome \/ Reconcile \/ ReconcileLater \/ RemoteDelete
    BY <1>11, <1>9 DEF SaveJournal, CommitThrows, CommitRejected, CommitPublished,
       SaveOutcome, Reconcile, ReconcileLater, RemoteDelete
  <1>12. CASE ApplySwitch \/ ApplyRefresh
    <2>1. op'.call.name \in {"switchBranch", "refreshRemoteHead"}
      BY <1>12, <1>a DEF ApplySwitch, ApplyRefresh, Step, Operation
    <2> QED
      BY <1>d, <2>1
  <1>13. CASE ListBranches \/ RemoteCreate
    BY <1>13, <1>a, <1>b DEF ListBranches, RemoteCreate, Operation
  <1>14. ASSUME NEW q \in wire, RemoteApply(q) \/ RemoteRefuse(q) \/ LoseRequest(q)
         PROVE  WriteInv'
    <2>1. ws' = ws /\ (op' = op \/ op'.pc \in {"succeeded", "refused"})
      BY <1>14, <1>a DEF RemoteApply, RemoteRefuse, LoseRequest, Awaited, Operation
    <2> QED
      BY <1>b, <1>c, <2>1
  <1>15. ASSUME NEW b \in Branches, OthersMove(b)
         PROVE  WriteInv'
    BY <1>15, <1>c DEF OthersMove
  <1>16. CASE UNCHANGED vars
    BY <1>16, <1>c DEF vars
  <1> QED
    BY <1>1, <1>2, <1>3, <1>4, <1>5, <1>6, <1>7, <1>8, <1>10, <1>11, <1>12,
       <1>13, <1>14, <1>15, <1>16
       DEF Next, Start, Continue, Remote

LEMMA InPairs ==
    ASSUME NEW p \in Branches \X Edits, NEW b, NEW E
    PROVE  p \in {b} \X E <=> p[1] = b /\ p[2] \in E
  <1>1. PICK x \in Branches, y \in Edits : p = <<x, y>>
    OBVIOUS
  <1> QED
    BY <1>1

\* What snapshot s keeps it goes on keeping while the remote moves.
LEMMA KeepsLater ==
    ASSUME TypeOK, [Next]_vars, NEW s, Grounded(s, used), NEW b \in Branches, NEW e,
           Keeps(s, b, e)
    PROVE  e \in s.overlay[b]
           \/ (s.base[b] # NoRevision /\ e \in content'[s.base[b]])
  <1>1. s.base[b] # NoRevision => s.base[b] \in 0 .. used
    BY KnownType DEF TypeOK, Grounded
  <1>2. s.base[b] # NoRevision => content'[s.base[b]] = content[s.base[b]]
    BY <1>1, RevisionsStay
  <1> QED
    BY <1>2 DEF Keeps

\* A rebase keeps the change unless it is in the new base.
LEMMA RebaseKeeps ==
    ASSUME NEW s \in Snapshot, NEW b \in Branches, NEW e, e \in s.overlay[b],
           NEW r, b = s.sel => e \notin content[r]
    PROVE  e \in Unjournalled(Rebase(s, r)).overlay[b]
  BY DEF Unjournalled, Rebase, Snapshot

LEMMA KeptNext ==
    TypeOK /\ ReopenInv /\ GroundedInv /\ CallInv /\ BranchInv /\ WriteInv /\ KeptInv
        /\ [Next]_vars => KeptInv'
  <1> SUFFICES ASSUME TypeOK, ReopenInv, GroundedInv, CallInv, BranchInv, WriteInv,
                      KeptInv, [Next]_vars, NEW p \in acked'
               PROVE  /\ Keeps(disk, p[1], p[2])'
                      /\ session' # "closed" =>
                            p[2] \in ws'.overlay[p[1]]
                            \/ (Resolving /\ p \in PublishedIn(op.call.revision))'
                      /\ op'.pc # "idle" => p[2] \in op'.snap.overlay[p[1]]
    BY DEF KeptInv
  <1> DEFINE b == p[1]
             e == p[2]
             In(s) == e \in s.overlay[b]
             Later(s) == In(s) \/ (s.base[b] # NoRevision /\ e \in content'[s.base[b]])
             Kept == /\ Later(disk')
                     /\ session' # "closed" => In(ws')
                     /\ op'.pc # "idle" => In(op'.snap)
             Published == p \in PublishedIn(op.call.revision)
             Goal == /\ Keeps(disk, b, e)'
                     /\ session' # "closed" =>
                           In(ws') \/ (Resolving /\ p \in PublishedIn(op.call.revision))'
                     /\ op'.pc # "idle" => In(op'.snap)
  <1>a. /\ op \in Operation /\ ws \in Snapshot /\ ws.sel \in Branches
        /\ op.call.edits \in SUBSET Edits
        /\ op.pc # "idle" => session = "open"
        /\ Grounded(disk, used) /\ Grounded(ws, used)
    BY DEF TypeOK, Snapshot, Operation, Call, ReopenInv, GroundedInv
  <1>b. acked \subseteq Branches \X Edits
    BY DEF TypeOK
  \* Enough: the edit is a change in memory.
  <1>c. ASSUME Kept
        PROVE  Goal
    BY <1>c DEF Keeps

  <1>d. ASSUME p \in acked
        PROVE  /\ b \in Branches /\ e \in Edits
               /\ Later(disk) /\ (session # "closed" => Later(ws))
               /\ session # "closed" /\ ~(Resolving /\ Published) => In(ws)
               /\ op.pc # "idle" => In(op.snap)
    <2>1. b \in Branches /\ e \in Edits /\ p \in Branches \X Edits
      BY <1>b, <1>d
    <2>2. /\ Keeps(disk, b, e)
          /\ session # "closed" => In(ws) \/ (Resolving /\ Published)
          /\ op.pc # "idle" => In(op.snap)
      BY <1>d DEF KeptInv
    <2>3. ASSUME Resolving, Published
          PROVE  Keeps(ws, b, e)
      <3>1. b = ws.sel /\ e \in content[op.call.revision]
        BY <2>1, <2>3, InPairs DEF PublishedIn
      <3> QED
        BY <2>3, <3>1 DEF WriteInv, Resolving, Keeps, Base
    <2>4. session # "closed" => Keeps(ws, b, e)
      BY <2>2, <2>3 DEF Keeps
    <2>5. Later(disk) /\ (session # "closed" => Later(ws))
      BY <1>a, <2>1, <2>2, <2>4, KeepsLater
    <2> QED
      BY <2>1, <2>2, <2>5
  <1> SUFFICES Goal
    OBVIOUS
  <1> HIDE DEF Kept, Goal, Published
  \* Nothing moves but the remote and the queue.
  <1>e. ASSUME p \in acked, UNCHANGED <<ws, disk, session, op>>
        PROVE  Goal
    <2>1. Resolving => op.call.revision \in 0 .. used
      BY KnownType DEF TypeOK, GroundedInv, GroundedCall, Ready, Resolving
    <2>2. Resolving => content'[op.call.revision] = content[op.call.revision]
      BY <2>1, RevisionsStay
    <2>3. Resolving /\ Published => (Resolving /\ p \in PublishedIn(op.call.revision))'
      BY <1>e, <2>2 DEF Resolving, Published, PublishedIn
    <2> QED
      BY <1>d, <1>e, <2>3 DEF Goal, Keeps
  \* A call starts and leaves the edit where it is.
  <1>f. ASSUME NEW name, NEW pc, Begin(name, pc), p \in acked
        PROVE  /\ In(ws) /\ In(op'.snap) /\ Later(disk')
               /\ In(ws') => Goal
    <2>1. /\ session = "open" /\ op.pc = "idle" /\ disk' = disk /\ op'.snap = ws
      BY <1>f DEF Begin, Waiting, Idle
    <2>2. In(ws)
      BY <1>d, <1>f, <2>1 DEF Resolving
    <2> QED
      BY <1>c, <1>d, <1>f, <2>1, <2>2 DEF Kept
  \* The running call goes on, other than from the save of a local change.
  <1>g. ASSUME NEW from, NEW to, Step(from, to), from \notin {"idle", "save"},
               p \in acked, disk' \in {disk, ws, ws'}, In(ws) => In(ws')
        PROVE  Goal
    <2>1. session = "open" /\ op.pc = from /\ (op' = Idle \/ op' = [op EXCEPT !.pc = to])
      BY <1>a, <1>g DEF Step
    <2>2. In(ws) /\ In(ws') /\ In(op.snap)
      BY <1>d, <1>g, <2>1 DEF Resolving
    <2>3. op'.pc # "idle" => In(op'.snap)
      BY <1>a, <2>1, <2>2 DEF Idle, Operation
    <2> QED
      BY <1>c, <1>d, <1>g, <2>1, <2>2, <2>3 DEF Kept
  <1>1. CASE Load
    <2>1. p \in acked /\ (In(disk) \/ ~Keeps(disk, b, e))
      BY <1>1 DEF Load
    <2>2. Keeps(disk, b, e) /\ op.pc = "idle"
      BY <1>1, <1>a, <2>1 DEF KeptInv, Load
    <2> QED
      BY <1>1, <1>c, <1>d, <2>1, <2>2 DEF Load, Kept
  <1>2. CASE Ensure
    <2>1. p \in acked /\ ws'.overlay = ws.overlay /\ op.pc = "idle"
      BY <1>2, <1>a DEF Ensure, Snapshot
    <2> QED
      BY <1>2, <1>c, <1>d, <2>1 DEF Ensure, Kept, Resolving
  <1>3. CASE OpenThrows
    <2>1. p \in acked /\ op.pc = "idle"
      BY <1>3, <1>a DEF OpenThrows
    <2> QED
      BY <1>3, <1>c, <1>d, <2>1 DEF OpenThrows, Kept
  <1>4. CASE Recover
    <2>1. /\ p \in acked /\ op.pc = "idle" /\ op' = op /\ session # "closed"
          /\ disk' \in {disk, ws'}
      BY <1>4, <1>a DEF Recover, RecoverPrepared, RecoverPublished
    <2>2. In(ws)
      BY <1>d, <2>1 DEF Resolving
    <2>3. In(ws')
      <3>1. CASE RecoverPrepared
        BY <1>a, <2>2, <3>1 DEF RecoverPrepared, Unjournalled, Snapshot
      <3>2. CASE RecoverPublished
        <4>1. p \notin PublishedIn(ws.journal.published)
          BY <3>2 DEF RecoverPublished
        <4>2. b = ws.sel => e \notin content[ws.journal.published]
          BY <1>b, <2>1, <4>1, InPairs DEF PublishedIn
        <4> QED
          BY <1>a, <1>d, <2>1, <2>2, <3>2, <4>2, RebaseKeeps DEF RecoverPublished
      <3> QED
        BY <1>4, <3>1, <3>2 DEF Recover
    <2> QED
      BY <1>c, <1>d, <2>1, <2>3 DEF Kept
  <1>5. CASE OpenAsStored
    <2>1. p \in acked /\ op.pc = "idle" /\ op' = op /\ ws' = ws /\ disk' = disk
      BY <1>5, <1>a DEF OpenAsStored
    <2> QED
      BY <1>5, <1>c, <1>d, <2>1 DEF OpenAsStored, Kept, Resolving
  <1>6. CASE Crash
    <2>1. p \in acked /\ session # "closed" /\ session' = "closed" /\ op'.pc = "idle"
          /\ disk' \in {disk, ws}
      BY <1>6 DEF Crash, Idle
    <2> QED
      BY <1>c, <1>d, <2>1 DEF Kept
  <1>7. CASE Refuse
    BY <1>7, <1>e DEF Refuse
  <1>8. CASE WriteFile
    <2>1. In(ws) => In(ws')
      BY <1>8, <1>a DEF WriteFile, Snapshot
    <2> QED
      BY <1>8, <1>f, <2>1 DEF WriteFile
  <1>9. CASE Revert
    <2>1. p \in acked /\ p \notin {ws.sel} \X Head(queue).edits
      BY <1>9 DEF Revert
    <2>2. ~(b = ws.sel /\ e \in Head(queue).edits)
      BY <1>b, <2>1, InPairs
    <2>3. In(ws) => In(ws')
      BY <1>9, <1>a, <1>d, <2>1, <2>2 DEF Revert, Snapshot
    <2> QED
      BY <1>9, <1>f, <2>1, <2>3 DEF Revert
  <1>10. CASE SwitchVisited
    <2>1. In(ws) => In(ws')
      BY <1>10, <1>a DEF SwitchVisited, Snapshot
    <2> QED
      BY <1>10, <1>f, <2>1 DEF SwitchVisited
  <1>11. CASE SwitchUnvisited
    BY <1>11, <1>f DEF SwitchUnvisited
  <1>12. CASE Refresh
    BY <1>12, <1>f DEF Refresh
  <1>13. CASE Persist
    BY <1>13, <1>f DEF Persist
  <1>14. CASE CreateBranch
    BY <1>14, <1>f DEF CreateBranch
  <1>15. CASE DeleteBranch
    <2>1. In(ws) => In(ws')
      BY <1>15, <1>a DEF DeleteBranch, Snapshot
    <2> QED
      BY <1>15, <1>f, <2>1 DEF DeleteBranch
  <1>16. ASSUME NEW name \in Commits, StartCommit(name)
         PROVE  Goal
    <2>1. /\ p \in acked /\ session = "open" /\ session' = session /\ op.pc = "idle"
          /\ disk' = disk /\ op'.snap = ws
      BY <1>16 DEF StartCommit, Waiting
    <2>2. In(ws)
      BY <1>d, <2>1 DEF Resolving
    <2>3. In(ws')
      BY <1>16, <1>a, <2>2 DEF StartCommit, Snapshot
    <2> QED
      BY <1>c, <1>d, <2>1, <2>2, <2>3 DEF Kept
  <1>17. CASE ResolveNotPublished
    <2>1. In(ws) => In(ws')
      BY <1>17, <1>a DEF ResolveNotPublished, Unjournalled, Snapshot
    <2> QED
      BY <1>17, <1>f, <2>1 DEF ResolveNotPublished
  <1>18. CASE ResolvePublished
    <2> DEFINE r == Head(queue).revision
    <2>1. CASE UNCHANGED <<ws, disk, session, op>>
      BY <1>18, <1>e, <2>1 DEF ResolvePublished
    <2>2. CASE /\ Begin("resolvePendingCommitPublication", "save")
               /\ ws' = Unjournalled(Rebase(ws, r))
      <3>1. p \in acked /\ r # NoRevision
        BY <1>18 DEF ResolvePublished
      <3>2. In(ws) /\ In(op'.snap) /\ Later(disk') /\ (In(ws') => Goal)
        BY <1>f, <2>2, <3>1
      <3>3. CASE b = ws.sel => e \notin content[r]
        BY <1>a, <1>d, <2>2, <3>1, <3>2, <3>3, RebaseKeeps
      <3>4. CASE b = ws.sel /\ e \in content[r]
        <4>1. /\ op'.pc = "save" /\ op'.call = Head(queue) /\ content' = content
              /\ Head(queue).name = "resolvePendingCommitPublication"
          BY <2>2 DEF Begin, Waiting, Idle, remote
        <4>2. ws'.sel = ws.sel
          BY <1>a, <2>2 DEF Unjournalled, Rebase, Snapshot
        <4>3. p \in {ws.sel} \X content[r]
          BY <1>b, <3>1, <3>4, InPairs
        <4>4. (Resolving /\ p \in PublishedIn(op.call.revision))'
          BY <3>1, <4>1, <4>2, <4>3 DEF Resolving, PublishedIn
        <4> QED
          BY <3>2, <4>4 DEF Goal, Keeps
      <3> QED
        BY <3>3, <3>4
    <2> QED
      BY <1>18, <2>1, <2>2 DEF ResolvePublished
  <1>19. CASE Save
    <2>1. /\ op.pc = "save" /\ session = "open" /\ disk' = ws /\ ws' = ws /\ op'.pc = "idle"
      BY <1>19, <1>a DEF Save, Step, Idle
    <2>2. In(ws)
      <3>1. CASE p \notin acked
        <4>1. op.call.name = "writeFile" /\ p \in {ws.sel} \X op.call.edits
          BY <1>19, <3>1 DEF Save
        <4>2. p \in Branches \X Edits
          BY <1>a, <4>1
        <4>3. b = ws.sel /\ e \in op.call.edits
          BY <4>1, <4>2, InPairs
        <4> QED
          BY <2>1, <4>1, <4>3 DEF WriteInv, Overlay
      <3>2. CASE p \in acked
        <4>1. ~(Resolving /\ Published)
          BY <1>19, <2>1 DEF Save, Resolving, Published
        <4> QED
          BY <1>d, <2>1, <3>2, <4>1
      <3> QED
        BY <3>1, <3>2
    <2> QED
      BY <1>c, <2>1, <2>2 DEF Kept
  <1>20. CASE SaveThrows
    <2>1. /\ p \in acked /\ op.pc = "save" /\ session = "open" /\ disk' \in {disk, ws}
          /\ ws' = op.snap /\ op'.pc = "idle"
      BY <1>20, <1>a DEF SaveThrows, Step, Idle
    <2> QED
      BY <1>c, <1>d, <2>1 DEF Kept
  <1>21. CASE SaveQuietly
    BY <1>21, <1>g DEF SaveQuietly
  <1>22. CASE ListBranches
    <2>1. /\ p \in acked /\ op.pc = "listing" /\ session = "open" /\ ws' = ws /\ disk' = disk
          /\ op'.snap = op.snap
      BY <1>22, <1>a DEF ListBranches, Operation
    <2> QED
      BY <1>c, <1>d, <2>1 DEF Kept, Resolving
  <1>23. CASE ApplySwitch
    <2>1. p \in acked /\ op.pc = "listed" /\ Target = op.call.branch
      BY <1>23 DEF ApplySwitch, Step, Target
    <2>2. ws.base[Target] = NoRevision
      BY <1>23, <2>1 DEF ApplySwitch, BranchInv, Listing
    <2>3. b = Target => ~In(ws)
      BY <1>a, <1>d, <2>1, <2>2 DEF Grounded
    <2>4. In(ws) => In(ws')
      BY <1>23, <1>a, <2>3 DEF ApplySwitch, Snapshot
    <2> QED
      BY <1>23, <1>g, <2>1, <2>4 DEF ApplySwitch
  <1>24. CASE ApplyRefresh
    <2>1. In(ws) => In(ws')
      BY <1>24, <1>a DEF ApplyRefresh, Snapshot
    <2> QED
      BY <1>24, <1>g, <2>1 DEF ApplyRefresh
  <1>25. CASE ListedNothing
    BY <1>25, <1>g DEF ListedNothing
  <1>26. CASE CreateThrows
    BY <1>26, <1>g DEF CreateThrows
  <1>27. CASE AddBranch
    <2>1. p \in acked /\ p \notin {op.call.branch} \X Edits
      BY <1>27 DEF AddBranch
    <2>2. b # op.call.branch
      BY <1>b, <1>d, <2>1, InPairs
    <2>3. In(ws) => In(ws')
      BY <1>27, <1>a, <2>2 DEF AddBranch, Snapshot
    <2> QED
      BY <1>27, <1>g, <2>1, <2>3 DEF AddBranch
  <1>28. CASE SaveRemoval
    <2>1. p \in acked /\ op.pc = "saveRemoval"
      BY <1>28 DEF SaveRemoval, Step
    <2>2. In(op.snap)
      BY <1>d, <2>1
    <2>3. In(ws) => In(ws')
      BY <1>28, <2>2 DEF SaveRemoval
    <2> QED
      BY <1>28, <1>g, <2>1, <2>3 DEF SaveRemoval
  <1>29. CASE Deleted
    BY <1>29, <1>g DEF Deleted
  <1>30. CASE DeleteThrows
    <2>1. p \in acked /\ op.pc # "idle"
      BY <1>30 DEF DeleteThrows, Step
    <2>2. In(op.snap) /\ ws' = op.snap
      BY <1>30, <1>d, <2>1 DEF DeleteThrows
    <2> QED
      BY <1>30, <1>g, <2>1, <2>2 DEF DeleteThrows
  <1>31. CASE SaveJournal
    <2>1. In(ws) => In(ws')
      BY <1>31, <1>a DEF SaveJournal, Unjournalled, Snapshot
    <2> QED
      BY <1>31, <1>g, <2>1 DEF SaveJournal
  <1>32. CASE CommitThrows
    BY <1>32, <1>g DEF CommitThrows
  <1>33. CASE CommitRejected
    <2>1. In(ws) => In(ws')
      BY <1>33, <1>a DEF CommitRejected, Unjournalled, Snapshot
    <2> QED
      BY <1>33, <1>g, <2>1 DEF CommitRejected
  <1>34. CASE CommitPublished
    <2>1. In(ws) => In(ws')
      BY <1>34, <1>a DEF CommitPublished, Snapshot
    <2> QED
      BY <1>34, <1>g, <2>1 DEF CommitPublished
  <1>35. CASE SaveOutcome
    BY <1>35, <1>g DEF SaveOutcome
  <1>36. CASE Reconcile
    <2>1. p \in acked /\ p \notin PublishedIn(op.revision) /\ op.pc = "reconcile"
      BY <1>36 DEF Reconcile, Step
    <2>2. b = ws.sel => e \notin content[op.revision]
      BY <1>b, <2>1, InPairs DEF PublishedIn
    <2>3. ASSUME In(ws), op.call.whole
          PROVE  b # ws.sel
      <3>1. op.call.name \in Commits /\ op.call \in Ready(used)
        BY <2>1 DEF CallInv, CallsAt, GroundedInv, GroundedCall
      <3>2. op.call.edits = Edits
        BY <2>3, <3>1 DEF Ready
      <3>3. op.request.changes = Overlay /\ Overlay \subseteq content[op.revision]
        BY <1>a, <2>1, <3>2 DEF CallInv, Committing, Changes, Overlay, Snapshot
      <3> QED
        BY <2>2, <2>3, <3>3 DEF Overlay
    <2>4. In(ws) => In(ws')
      <3>1. CASE op.call.whole
        BY <1>36, <1>a, <2>3, <3>1 DEF Reconcile, Unjournalled, Snapshot
      <3>2. CASE ~op.call.whole
        BY <1>36, <1>a, <1>d, <2>1, <2>2, <3>2, RebaseKeeps DEF Reconcile
      <3> QED
        BY <3>1, <3>2
    <2> QED
      BY <1>36, <1>g, <2>1, <2>4 DEF Reconcile
  <1>37. CASE ReconcileLater
    BY <1>37, <1>g DEF ReconcileLater
  <1>38. CASE RemoteCreate
    <2>1. /\ p \in acked /\ op.pc = "creating" /\ session = "open" /\ ws' = ws /\ disk' = disk
          /\ op'.snap = op.snap
      BY <1>38, <1>a DEF RemoteCreate, Operation
    <2> QED
      BY <1>c, <1>d, <2>1 DEF Kept, Resolving
  <1>39. CASE RemoteDelete
    BY <1>39, <1>g DEF RemoteDelete
  <1>40. ASSUME NEW q \in wire, RemoteApply(q) \/ RemoteRefuse(q)
         PROVE  Goal
    <2>1. p \in acked /\ ws' = ws /\ disk' = disk /\ session' = session
      BY <1>40 DEF RemoteApply, RemoteRefuse, remote
    <2>2. CASE ~Awaited(q)
      BY <1>40, <1>e, <2>1, <2>2 DEF RemoteApply, RemoteRefuse
    <2>3. CASE Awaited(q)
      <3>1. op.pc = "publishing" /\ session = "open" /\ op'.snap = op.snap
        BY <1>40, <1>a, <2>3 DEF RemoteApply, RemoteRefuse, Awaited, Operation
      <3> QED
        BY <1>c, <1>d, <2>1, <3>1 DEF Kept, Resolving
    <2> QED
      BY <2>2, <2>3
  <1>41. ASSUME NEW q \in wire, LoseRequest(q)
         PROVE  Goal
    BY <1>41, <1>e DEF LoseRequest
  <1>42. ASSUME NEW name \in Offered, Submit(name)
         PROVE  Goal
    BY <1>42, <1>e DEF Submit
  <1>43. ASSUME NEW x \in Branches, OthersMove(x)
         PROVE  Goal
    BY <1>43, <1>e DEF OthersMove
  <1>44. CASE UNCHANGED vars
    BY <1>44, <1>e DEF vars
  <1> QED
    BY <1>1, <1>2, <1>3, <1>4, <1>5, <1>6, <1>7, <1>8, <1>9, <1>10, <1>11,
       <1>12, <1>13, <1>14, <1>15, <1>16, <1>17, <1>18, <1>19, <1>20, <1>21,
       <1>22, <1>23, <1>24, <1>25, <1>26, <1>27, <1>28, <1>29, <1>30, <1>31,
       <1>32, <1>33, <1>34, <1>35, <1>36, <1>37, <1>38, <1>39, <1>40, <1>41,
       <1>42, <1>43, <1>44
       DEF Next, Open, Start, Continue, Remote

LEMMA WriteCorrect == Spec => []WriteInv
  BY TypeCorrect, ReopenCorrect, WriteInit, WriteNext, PTL DEF Spec

LEMMA KeptCorrect == Spec => []KeptInv
  BY TypeCorrect, ReopenCorrect, GroundedCorrect, CallCorrect, BranchCorrect,
     WriteCorrect, KeptInit, KeptNext, PTL DEF Spec

\* What is owed ends with a revert, with a revision that is the branch's new
\* base and contains it, or with the branch being created again.
LEMMA SettledStep ==
    ASSUME TypeOK, ReopenInv, WriteInv, [Next]_vars,
           NEW p \in acked, p \notin acked'
    PROVE  \/ Waiting("revert") /\ p[1] = ws.sel /\ p[2] \in Head(queue).edits
           \/ ws'.base[p[1]] # NoRevision /\ p[2] \in content'[ws'.base[p[1]]]
           \/ op.pc = "created" /\ p[1] = op.call.branch
  <1> DEFINE Published == ws'.base[p[1]] # NoRevision /\ p[2] \in content'[ws'.base[p[1]]]
             Goal == \/ Waiting("revert") /\ p[1] = ws.sel /\ p[2] \in Head(queue).edits
                     \/ Published
                     \/ op.pc = "created" /\ p[1] = op.call.branch
  <1> SUFFICES Goal
    OBVIOUS
  <1>a. p \in Branches \X Edits /\ ws \in Snapshot /\ disk \in Snapshot
    BY DEF TypeOK
  <1>p. ASSUME NEW r, r # NoRevision, p \in PublishedIn(r), ws'.base[ws.sel] = r,
               content' = content
        PROVE  Goal
    BY <1>a, <1>p, InPairs DEF PublishedIn
  <1>1. CASE Load
    <2>1. /\ p[2] \notin disk.overlay[p[1]] /\ Keeps(disk, p[1], p[2])
          /\ ws' = disk /\ content' = content
      BY <1>1 DEF Load, remote
    <2> QED
      BY <2>1 DEF Keeps
  <1>2. CASE Recover
    <2> DEFINE r == ws.journal.published
    <2>1. /\ ws.journal.phase = "published" /\ p \in PublishedIn(r)
          /\ ws' = Unjournalled(Rebase(ws, r)) /\ content' = content
      BY <1>2 DEF Recover, RecoverPrepared, RecoverPublished, remote
    <2>2. r # NoRevision
      <3>1. Base # NoRevision /\ ws # NoSnapshot
        BY <1>2, WorkspaceAssumption DEF Recover, Base, NoSnapshot
      <3> QED
        BY <1>2, <2>1, <3>1 DEF Recover, ReopenInv, Stored, Opens
    <2>3. ws'.base[ws.sel] = r
      BY <1>a, <2>1 DEF Unjournalled, Rebase, Snapshot
    <2> QED
      BY <1>p, <2>1, <2>2, <2>3
  <1>3. CASE Revert
    <2>1. Waiting("revert") /\ p \in {ws.sel} \X Head(queue).edits
      BY <1>3 DEF Revert, Begin
    <2> QED
      BY <1>a, <2>1, InPairs
  <1>4. CASE Save
    <2>1. /\ Resolving /\ p \in PublishedIn(op.call.revision)
          /\ ws' = ws /\ content' = content
      BY <1>4 DEF Save, Step, Resolving, remote
    <2> QED
      BY <1>p, <2>1 DEF WriteInv, Resolving, Base
  <1>5. CASE Reconcile
    <2>1. /\ op.pc = "reconcile" /\ p \in PublishedIn(op.revision) /\ content' = content
      BY <1>5 DEF Reconcile, Step, remote
    <2>2. ws'.base[ws.sel] = op.revision
      BY <1>5, <1>a DEF Reconcile, Unjournalled, Rebase, Snapshot
    <2>3. op.revision # NoRevision
      BY <2>1 DEF ReopenInv
    <2> QED
      BY <1>p, <2>1, <2>2, <2>3
  <1>6. CASE AddBranch
    <2>1. op.pc = "created" /\ p \in {op.call.branch} \X Edits
      BY <1>6 DEF AddBranch, Step
    <2> QED
      BY <1>a, <2>1, InPairs
  <1>7. Load \/ Recover \/ Revert \/ Save \/ Reconcile \/ AddBranch
    <2>1. acked' # acked
      OBVIOUS
    <2>2. CASE Open \/ Crash \/ UNCHANGED vars
      BY <2>1, <2>2 DEF Open, Ensure, OpenThrows, OpenAsStored, Crash, vars
    <2>3. CASE Start
      BY <2>1, <2>3 DEF Start, Refuse, WriteFile, SwitchVisited, SwitchUnvisited, Refresh,
         Persist, CreateBranch, DeleteBranch, StartCommit, ResolveNotPublished,
         ResolvePublished
    <2>4. CASE Continue
      BY <2>1, <2>4 DEF Continue, SaveThrows, SaveQuietly, ListBranches, ApplySwitch,
         ApplyRefresh, ListedNothing, CreateThrows, SaveRemoval, Deleted, DeleteThrows,
         SaveJournal, CommitThrows, CommitRejected, CommitPublished, SaveOutcome,
         ReconcileLater
    <2>5. CASE Remote
      BY <2>1, <2>5 DEF Remote, RemoteCreate, RemoteDelete, RemoteApply, RemoteRefuse,
         LoseRequest
    <2>6. CASE (\E name \in Offered : Submit(name)) \/ (\E b \in Branches : OthersMove(b))
      BY <2>1, <2>6 DEF Submit, OthersMove
    <2> QED
      BY <2>2, <2>3, <2>4, <2>5, <2>6 DEF Next
  <1> QED
    BY <1>1, <1>2, <1>3, <1>4, <1>5, <1>6, <1>7

\* An edit whose write was acknowledged is in memory and in what a reopened
\* workspace would find, at every moment, until it is reverted, or published, or
\* its branch is created again after another client deleted it; there the code
\* loses it.  Nothing else ends what is owed.
THEOREM AckedEditsStay == Spec => []AckedEditsAreKept /\ OwedUntilSettled
  <1>1. WriteInv /\ KeptInv /\ TypeOK => AckedEditsAreKept
    <2> SUFFICES ASSUME WriteInv, KeptInv, TypeOK, NEW p \in acked,
                        session # "closed", Resolving, p \in PublishedIn(op.call.revision)
                 PROVE  Keeps(ws, p[1], p[2])
      BY DEF KeptInv, AckedEditsAreKept, Keeps
    <2>1. p \in Branches \X Edits
      BY DEF TypeOK
    <2>2. p[1] = ws.sel /\ p[2] \in content[op.call.revision]
      BY <2>1, InPairs DEF PublishedIn
    <2> QED
      BY <2>2 DEF WriteInv, Resolving, Base, Keeps
  <1>2. TypeOK /\ ReopenInv /\ WriteInv /\ [Next]_vars =>
        [\A p \in acked \ acked' :
            \/ Waiting("revert") /\ p[1] = ws.sel /\ p[2] \in Head(queue).edits
            \/ ws'.base[p[1]] # NoRevision /\ p[2] \in content'[ws'.base[p[1]]]
            \/ op.pc = "created" /\ p[1] = op.call.branch]_vars
    BY SettledStep
  <1> QED
    BY <1>1, <1>2, TypeCorrect, ReopenCorrect, WriteCorrect, KeptCorrect, PTL
       DEF Spec, OwedUntilSettled
=============================================================================
