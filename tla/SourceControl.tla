--------------------------- MODULE SourceControl ----------------------------
(***************************************************************************)
(* The Source Control view of one workspace: RemotishSourceControl         *)
(* (packages/vscode/src/scm/source-control.ts), the commands that select,  *)
(* revert and publish changes, and the workspace as they see it.           *)
(*                                                                         *)
(* A change is the path it is listed under.  The workspace runs one        *)
(* operation at a time; its memory changes before it is saved and          *)
(* announced, and a failed save takes the memory back unannounced.  Every  *)
(* await ends an action; refreshPromise is cleared one microtask after the *)
(* refresh loop is over, which is a step of its own.                       *)
(***************************************************************************)
EXTENDS Naturals, FiniteSets

CONSTANTS
    Branches, Paths,
    Callers,     \* commands
    Loops,       \* calls of runRefreshLoop
    None,
    MaxWrites    \* bounds what others do to the working tree

ASSUME SourceControlAssumption ==
    /\ None \notin Loops \cup Branches /\ Loops # {}
    /\ MaxWrites \in Nat

VARIABLES
    ws,         \* the workspace: its branch, its changes, its base revisions
    op,         \* the operation it runs, and what a failed save goes back to
    staged,     \* stagedPathsByBranch
    shown,      \* the resource groups
    loops,      \* refresh loops: what they have read, and of which branch
    requested,  \* refreshRequested
    promise,    \* refreshPromise
    disposed,
    call,       \* where a command stands and what it holds across awaits
    writes,     \* writes and switches so far
    excused     \* history: since the last read began, a read failed, a memory
                \* was taken back, or a refresh joined a loop that was over

vars == <<ws, op, staged, shown, loops, requested, promise, disposed, call, writes, excused>>
view == <<staged, shown, loops, requested, promise, disposed, excused>>

NoOp == [kind |-> "none", undo |-> None, touched |-> {}]
NoLoop == [pc |-> "none", branch |-> None, list |-> {}]
NoCall == [pc |-> "unused", kind |-> "none", branch |-> None, base |-> 0,
           paths |-> {}, on |-> None]
Over(pc) == [NoCall EXCEPT !.pc = pc]  \* "done" or "failed"
Changes == ws.dirty[ws.branch]

\* The loop has called getChanges of workspace w.
ReadOf(w) == [pc |-> "reading", branch |-> w.branch, list |-> w.dirty[w.branch]]

\* The workspace as it was opened, and the first read.
Init ==
    /\ ws \in [branch : Branches, dirty : [Branches -> SUBSET Paths], base : [Branches -> {0}]]
    /\ op = NoOp /\ staged = [b \in Branches |-> {}]
    /\ shown = [branch |-> None, changes |-> {}, staged |-> {}]
    /\ promise = (CHOOSE l \in Loops : TRUE)
    /\ loops = [l \in Loops |-> IF l = promise THEN ReadOf(ws) ELSE NoLoop]
    /\ requested = FALSE /\ disposed = FALSE
    /\ call = [c \in Callers |-> NoCall]
    /\ writes = 0 /\ excused = FALSE

-----------------------------------------------------------------------------
(* refresh and its loop *)

Free == {l \in Loops : loops[l].pc = "none"}

\* The loop begins: it clears the request and reads.
StartLoop ==
    /\ requested' = FALSE /\ excused' = FALSE
    /\ Free # {}
    /\ promise' = (CHOOSE l \in Free : TRUE)
    /\ loops' = [loops EXCEPT ![promise'] = ReadOf(ws')]

JoinLoop ==
    /\ requested' = TRUE
    /\ excused' = (excused \/ loops[promise].pc # "reading")
    /\ UNCHANGED <<loops, promise>>

\* A mutant: a request made while a loop runs is forgotten.
RefreshDropped ==
    IF disposed \/ promise # None THEN UNCHANGED <<loops, requested, promise, excused>>
    ELSE StartLoop

\* A mutant: the flag is asked, not the promise, whether a loop runs.
RefreshByFlag ==
    IF disposed THEN UNCHANGED <<loops, requested, promise, excused>>
    ELSE IF requested THEN JoinLoop ELSE StartLoop

\* refresh
RefreshView ==
    IF disposed THEN UNCHANGED <<loops, requested, promise, excused>>
    ELSE IF promise = None THEN StartLoop ELSE JoinLoop

\* The list is read piece by piece: of a change under way it has any part.
ReadOn(l) ==
    /\ loops[l].pc = "reading" /\ op.touched # {}
    /\ \E seen \in SUBSET op.touched :
          loops' = [loops EXCEPT ![l].list = (@ \ op.touched) \cup seen]
    /\ UNCHANGED <<ws, op, staged, shown, requested, promise, disposed, call, writes, excused>>

\* The head of the loop.
Again(l) ==
    IF requested THEN /\ loops' = [loops EXCEPT ![l] = ReadOf(ws)]
                      /\ requested' = FALSE /\ excused' = FALSE
    ELSE loops' = [loops EXCEPT ![l].pc = "ended"] /\ UNCHANGED <<requested, excused>>

\* applyChanges: the selection keeps what is still changed.
ApplyChanges(b, list) ==
    /\ staged' = [staged EXCEPT ![b] = @ \cap list]
    /\ shown' = [branch |-> b, changes |-> list, staged |-> staged[b] \cap list]

ReadForNothing(l) ==
    /\ loops[l].pc = "reading" /\ disposed
    /\ loops' = [loops EXCEPT ![l].pc = "ended"]
    /\ UNCHANGED <<ws, op, staged, shown, requested, promise, disposed, call, writes, excused>>

\* A mutant: the loop calls refresh and awaits it, which is itself.
ReadOutdatedAwaits(l) ==
    /\ loops[l].pc = "reading" /\ ~disposed /\ loops[l].branch # ws.branch
    /\ loops' = [loops EXCEPT ![l].pc = "none"]
    /\ requested' = TRUE
    /\ UNCHANGED <<ws, op, staged, shown, promise, disposed, call, writes, excused>>

\* The branch changed while the list was read: the loop turns at once.
ReadOutdated(l) ==
    /\ loops[l].pc = "reading" /\ ~disposed /\ loops[l].branch # ws.branch
    /\ loops' = [loops EXCEPT ![l] = ReadOf(ws)]
    /\ requested' = FALSE /\ excused' = FALSE
    /\ UNCHANGED <<ws, op, staged, shown, promise, disposed, call, writes>>

\* A mutant: a list is shown whatever branch it was read from.
ReadAny(l) ==
    /\ loops[l].pc = "reading" /\ ~disposed
    /\ ApplyChanges(loops[l].branch, loops[l].list)
    /\ Again(l)
    /\ UNCHANGED <<ws, op, promise, disposed, call, writes>>

ReadEnds(l) ==
    /\ loops[l].pc = "reading" /\ ~disposed /\ loops[l].branch = ws.branch
    /\ ApplyChanges(loops[l].branch, loops[l].list)
    /\ Again(l)
    /\ UNCHANGED <<ws, op, promise, disposed, call, writes>>

\* getChanges rejects: so does the loop, and a request made meanwhile stays.
ReadFails(l) ==
    /\ loops[l].pc = "reading"
    /\ loops' = [loops EXCEPT ![l].pc = "threw"]
    /\ excused' = TRUE
    /\ UNCHANGED <<ws, op, staged, shown, requested, promise, disposed, call, writes>>

\* finally: the promise goes, and those who await it go on.
LoopOver(l) ==
    /\ loops[l].pc \in {"ended", "threw"}
    /\ loops' = [loops EXCEPT ![l] = NoLoop]
    /\ promise' = None
    /\ call' = [c \in Callers |->
          IF call[c].pc = "awaiting" /\ call[c].on = l
          THEN Over(IF loops[l].pc = "ended" THEN "done" ELSE "failed")
          ELSE call[c]]
    /\ UNCHANGED <<ws, op, staged, shown, requested, disposed, writes, excused>>

\* The workspace is unregistered, or the extension ends.
Dispose ==
    /\ ~disposed /\ disposed' = TRUE /\ requested' = FALSE
    /\ UNCHANGED <<ws, op, staged, shown, loops, promise, call, writes, excused>>

-----------------------------------------------------------------------------
(* The workspace.  Each operation is alone; what it undoes if the save     *)
(* fails is taken when it begins.                                          *)

Begin(kind, w, paths) ==
    /\ op.kind = "none"
    /\ op' = [kind |-> kind, undo |-> ws, touched |-> paths]
    /\ ws' = w

With(dirty) == [ws EXCEPT !.dirty[ws.branch] = dirty]

\* The file system provider's writes, deletions and renames, of any paths.
Write ==
    /\ writes < MaxWrites /\ writes' = writes + 1
    /\ \E paths \in SUBSET Paths \ {{}} : \E dirty \in SUBSET paths :
          Begin("local", With((Changes \ paths) \cup dirty), paths)
    /\ UNCHANGED <<view, call>>

\* changed, changedAfterRemoteSuccess: the event refreshes the view.
Announce ==
    /\ op.kind # "none" /\ op' = NoOp
    /\ UNCHANGED ws
    /\ RefreshView
    /\ call' = [c \in Callers |-> IF call[c].pc = "running" THEN Over("done")
                                   ELSE call[c]]
    /\ UNCHANGED <<staged, shown, disposed, writes>>

\* The operation or its save fails.
TakeBack ==
    /\ op.kind = "local" /\ op' = NoOp
    /\ ws' = op.undo /\ excused' = TRUE
    /\ call' = [c \in Callers |-> IF call[c].pc = "running" THEN Over("failed")
                                   ELSE call[c]]
    /\ UNCHANGED <<staged, shown, loops, requested, promise, disposed, writes>>

-----------------------------------------------------------------------------
(* Commands *)

Goto(c, pc) == call' = [call EXCEPT ![c].pc = pc]
End(c, pc) == call' = [call EXCEPT ![c] = Over(pc)]

\* The call goes on when the loop that runs now is over.
AwaitView(c) ==
    call' = [call EXCEPT ![c] = IF disposed THEN Over("done")
                                ELSE [NoCall EXCEPT !.pc = "awaiting", !.on = promise']]

\* stage, unstage, unstageAll: the selection of the branch that is current.
Select(c, selection) ==
    /\ call[c].pc = "unused" /\ ~disposed
    /\ staged' = [staged EXCEPT ![ws.branch] = selection]
    /\ UNCHANGED <<ws, op>>
    /\ RefreshView
    /\ AwaitView(c)
    /\ UNCHANGED <<shown, disposed, writes>>

Stage(c, p) == p \in Changes /\ Select(c, staged[ws.branch] \cup {p})
Unstage(c, p) == p \in staged[ws.branch] /\ Select(c, staged[ws.branch] \ {p})
UnstageAll(c) == Select(c, {})

\* stageAll holds the selection it found, and reads the changes.
StageAll(c) ==
    /\ call[c].pc = "unused" /\ ~disposed
    /\ call' = [call EXCEPT ![c] = [NoCall EXCEPT !.pc = "listing", !.branch = ws.branch,
                                                  !.paths = Changes]]
    /\ UNCHANGED <<ws, op, view, writes>>

StageListed(c) ==
    /\ call[c].pc = "listing"
    /\ staged' = [staged EXCEPT ![call[c].branch] = @ \cup call[c].paths]
    /\ UNCHANGED <<ws, op>>
    /\ RefreshView
    /\ AwaitView(c)
    /\ UNCHANGED <<shown, disposed, writes>>

ListingFails(c) ==
    /\ call[c].pc = "listing"
    /\ End(c, "failed")
    /\ UNCHANGED <<ws, op, view, writes>>

\* Reverts and publications are asked for with what the view shows, and bound
\* to the branch and its base; the dialogs are awaited.
Ask(c, kind, paths) ==
    /\ call[c].pc = "unused" /\ ~disposed
    /\ call' = [call EXCEPT ![c] = [pc |-> "asking", kind |-> kind, branch |-> ws.branch,
                                    base |-> ws.base[ws.branch], paths |-> paths, on |-> None]]
    /\ UNCHANGED <<ws, op, view, writes>>

AskRevert(c, p) == p \in shown.changes /\ Ask(c, "revert", {p})
AskRevertAll(c) == Changes # {} /\ Ask(c, "revert", Paths)
AskCommit(c) == staged[ws.branch] # {} /\ Ask(c, "commit", staged[ws.branch])
AskSwitch(c, b) ==
    /\ b # ws.branch /\ call[c].pc = "unused" /\ ~disposed
    /\ call' = [call EXCEPT ![c] = [NoCall EXCEPT !.pc = "asking", !.kind = "switch", !.branch = b]]
    /\ UNCHANGED <<ws, op, view, writes>>

\* The user declines; or confirms, and the call is queued.
Answer(c) ==
    /\ call[c].pc = "asking"
    /\ End(c, "done") \/ Goto(c, "queued")
    /\ UNCHANGED <<ws, op, view, writes>>

Expected(c) == call[c].branch = ws.branch /\ call[c].base = ws.base[ws.branch]
CanRun(c) == call[c].pc = "queued" /\ op.kind = "none"

\* requireExpectedState, an operation that is refused, or a rejected commit.
Refused(c) ==
    /\ CanRun(c)
    /\ End(c, "failed")
    /\ UNCHANGED <<ws, op, view, writes>>

RunRevert(c) ==
    /\ CanRun(c) /\ call[c].kind = "revert" /\ Expected(c)
    /\ Begin("local", With(Changes \ call[c].paths), call[c].paths \cap Changes)
    /\ Goto(c, "running")
    /\ UNCHANGED <<view, writes>>

RunSwitch(c) ==
    /\ CanRun(c) /\ call[c].kind = "switch"
    /\ Begin("local", [ws EXCEPT !.branch = call[c].branch], {})
    /\ Goto(c, "running")
    /\ UNCHANGED <<view, writes>>

\* The remote has the selected changes; a failed save takes nothing back.
RunCommit(c) ==
    /\ CanRun(c) /\ call[c].kind = "commit" /\ Expected(c)
    /\ call[c].paths \cap Changes # {}
    /\ Begin("remote", [With(Changes \ call[c].paths) EXCEPT !.base[ws.branch] = @ + 1],
             call[c].paths \cap Changes)
    /\ Goto(c, "running")
    /\ UNCHANGED <<view, writes>>

CallStep(c) ==
    \/ \E p \in Paths : Stage(c, p) \/ Unstage(c, p) \/ AskRevert(c, p)
    \/ UnstageAll(c) \/ StageAll(c) \/ StageListed(c) \/ ListingFails(c)
    \/ AskRevertAll(c) \/ AskCommit(c) \/ (\E b \in Branches : AskSwitch(c, b))
    \/ Answer(c) \/ Refused(c) \/ RunRevert(c) \/ RunSwitch(c) \/ RunCommit(c)

LoopStep(l) ==
    ReadForNothing(l) \/ ReadOutdated(l) \/ ReadEnds(l) \/ ReadFails(l) \/ LoopOver(l)

Next ==
    \/ \E c \in Callers : CallStep(c)
    \/ \E l \in Loops : LoopStep(l) \/ ReadOn(l)
    \/ Write \/ Announce \/ TakeBack \/ Dispose

\* Reads and saves are answered; nothing says that a user answers.
Spec ==
    /\ Init /\ [][Next]_vars
    /\ \A l \in Loops : WF_vars(LoopStep(l))
    /\ WF_vars(Announce \/ TakeBack)
    /\ \A c \in Callers : /\ WF_vars(StageListed(c) \/ ListingFails(c))
                          /\ SF_vars(Refused(c) \/ RunRevert(c) \/ RunSwitch(c) \/ RunCommit(c))

-----------------------------------------------------------------------------

Commands ==
    {x \in [pc : {"unused", "listing", "awaiting", "asking", "queued", "running", "done", "failed"},
            kind : {"none", "revert", "commit", "switch"}, branch : Branches \cup {None},
            base : Nat, paths : SUBSET Paths, on : Loops \cup {None}] :
        x.kind = "switch" => x.branch \in Branches}
Reads == [pc : {"none", "reading", "ended", "threw"}, branch : Branches \cup {None},
          list : SUBSET Paths]
World == [branch : Branches, dirty : [Branches -> SUBSET Paths], base : [Branches -> Nat]]

TypeOK ==
    /\ ws \in World
    /\ op \in [kind : {"none", "local", "remote"}, undo : World \cup {None}, touched : SUBSET Paths]
    /\ op.kind = "local" => op.undo \in World
    /\ staged \in [Branches -> SUBSET Paths]
    /\ shown \in [branch : Branches \cup {None}, changes : SUBSET Paths, staged : SUBSET Paths]
    /\ loops \in [Loops -> Reads]
    /\ promise \in Loops \cup {None}
    /\ requested \in BOOLEAN /\ disposed \in BOOLEAN /\ excused \in BOOLEAN
    /\ call \in [Callers -> Commands]
    /\ writes \in 0 .. MaxWrites

\* The view never reads the changes twice at once: bursts of events and the
\* commands share the loop that runs (test: "never overlaps getChanges calls").
ReadsDoNotOverlap ==
    \A k, l \in Loops : loops[k].pc = "reading" /\ loops[l].pc = "reading" => k = l

\* Once nothing runs, what the view shows is the working tree of the selected
\* branch and the selection made in it, unless a read failed, a memory that
\* was never announced was taken back, or a refresh joined a loop that was over.
StaleViewIsExplained ==
    promise = None /\ op.kind = "none" /\ ~disposed /\ ~excused
    => shown = [branch |-> ws.branch, changes |-> Changes, staged |-> staged[ws.branch]]

\* What the view comes to show was read from the branch that is selected then,
\* and nothing appears after the view was disposed, whatever was under way.
ViewFollowsBranch ==
    [][shown' # shown => /\ ~disposed /\ shown'.branch = ws'.branch
                         /\ \E l \in Loops : loops[l].branch = ws'.branch
                                             /\ loops[l].list = shown'.changes]_vars

\* A command that waits for the view or for the workspace ends, once the
\* writes end and however often the view has to read again.
CommandsEnd ==
    \A c \in Callers :
        call[c].pc \in {"listing", "awaiting", "queued", "running"}
            ~> call[c].pc \in {"done", "failed"}
=============================================================================
