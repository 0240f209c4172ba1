---------------------------- MODULE WorkingTree ----------------------------
(***************************************************************************)
(* The working tree of one branch: an immutable base revision and an       *)
(* overlay of files, directory markers, tombstones and rename records      *)
(* (packages/core/src/overlay and working-tree).                           *)
(*                                                                         *)
(* A tree is a function from file paths to contents: a revision has no     *)
(* empty directories.  A path is a sequence of names, <<>> the root.  Each *)
(* operation is one step: SerialExecutor runs one at a time, and one that  *)
(* fails half-way is undone by RemotishWorkspace.runLocalMutation.         *)
(***************************************************************************)
EXTENDS Naturals, Sequences, SequencesExt, Functions

CONSTANTS
    Paths,      \* the paths that exist or may be made; closed under parents
    Contents,   \* file contents
    BaseTrees,  \* the trees the branch may have at a revision of others
    MaxSteps    \* bound: operations

Root == <<>>

\* The partial functions from paths to contents.
Trees == UNION {[S -> Contents] : S \in SUBSET Paths}

SameOrChild(p, q) == IsPrefix(q, p)     \* isSameOrChild: p is q, or below q

ASSUME WorkingTreeAssumption ==
    /\ Paths \subseteq Seq(STRING) \ {Root}
    /\ \A p \in Paths : Front(p) = Root \/ Front(p) \in Paths
    /\ BaseTrees \subseteq Trees
    /\ \A t \in BaseTrees : \A f, g \in DOMAIN t : SameOrChild(f, g) => f = g
    /\ MaxSteps \in Nat

VARIABLES
    base,     \* the tree of the pinned base revision
    overlay,  \* [files, directories, deleted, renames]
    disputed, \* history: paths on which the code lets the two layers part
    steps     \* the bound used up

treeVars == <<base, overlay, disputed, steps>>

RenameRecord == [from: Paths, to: Paths]
Overlays == [files: Trees, directories: SUBSET Paths, deleted: SUBSET Paths,
             renames: SUBSET RenameRecord]
EmptyOverlay == [files |-> << >>, directories |-> {}, deleted |-> {}, renames |-> {}]

TreeTypeOK ==
    /\ base \in Trees /\ overlay \in Overlays
    /\ disputed \subseteq Paths \cup {Root} /\ steps \in 0 .. MaxSteps

-----------------------------------------------------------------------------
(* overlay.ts.  An operation is stated for all the paths of a loop at once:  *)
(* in none of the loops does the order matter.                               *)

Without(f, S) == Restrict(f, DOMAIN f \ S)
Over(f, g) == [p \in DOMAIN f \cup DOMAIN g |-> IF p \in DOMAIN f THEN f[p] ELSE g[p]]
Only(p, c) == [q \in {p} |-> c]

RemoveOverlayPaths(o, S) ==
    LET Removed(q) == \E p \in S : SameOrChild(q, p)
    IN  [o EXCEPT !.files = Without(@, {q \in DOMAIN @ : Removed(q)}),
                  !.directories = {q \in @ : ~Removed(q)},
                  !.renames = {r \in @ : ~Removed(r.from) /\ ~Removed(r.to)}]

\* Child tombstones are kept.
MarkDeleted(o, S) == [RemoveOverlayPaths(o, S) EXCEPT !.deleted = @ \cup S]

\* A mutant: the tombstones of parent directories stay.
UnmarkDeletedAlone(o, S) == [o EXCEPT !.deleted = @ \ S]

\* unmarkDeleted with includeAncestors, as all its callers here pass it.
UnmarkDeleted(o, S) ==
    [o EXCEPT !.deleted = {d \in @ : \A p \in S : ~SameOrChild(p, d)}]

IsDeleted(o, p) == \E d \in o.deleted : SameOrChild(p, d)

\* A mutant: a file that is written again keeps its tombstone.
SetFilesUnderTombstone(o, content) ==
    [o EXCEPT !.files = Over(content, @), !.directories = @ \ DOMAIN content]

SetFiles(o, content) ==
    [UnmarkDeleted(o, DOMAIN content) EXCEPT !.files = Over(content, @),
                                             !.directories = @ \ DOMAIN content]

\* Only the tombstone of the directory itself goes.
SetDirectories(o, S) ==
    [o EXCEPT !.directories = @ \cup S, !.files = Without(@, S), !.deleted = @ \ S]

\* A mutant: tombstones do not count.
HasChangesToFiles(o) == DOMAIN o.files \cup o.directories # {}

\* isEmpty: rename records do not count.
HasChanges(o) == DOMAIN o.files \cup o.directories \cup o.deleted # {}

-----------------------------------------------------------------------------
(* The merged view: working-tree.ts and traversal.ts. *)

Kind(tree, p) ==
    IF p \in DOMAIN tree THEN "file"
    ELSE IF p = Root \/ \E f \in DOMAIN tree : SameOrChild(f, p) THEN "directory"
    ELSE "none"

Stat(o, p) ==
    IF p = Root THEN "directory"
    ELSE IF IsDeleted(o, p) THEN "none"
    ELSE IF p \in DOMAIN o.files THEN "file"
    ELSE IF p \in o.directories THEN "directory"
    ELSE Kind(base, p)

Read(o, p) == IF p \in DOMAIN o.files THEN o.files[p] ELSE base[p]

\* What a walk with readDirectory meets below directory p.
Listed(o, p) ==
    {q \in Paths : /\ IsStrictPrefix(p, q) /\ Stat(o, q) # "none"
                   /\ \A n \in Len(p) .. Len(q) - 1 :
                         Stat(o, SubSeq(q, 1, n)) = "directory"}
VisibleFiles(o, p) == {q \in Listed(o, p) : Stat(o, q) = "file"}
VisibleDirectories(o, p) == {q \in Listed(o, p) : Stat(o, q) = "directory"}
View(o) == [f \in VisibleFiles(o, Root) |-> Read(o, f)]

-----------------------------------------------------------------------------
(* mutation-service.ts *)

\* Files of the base leave a tombstone.
DeleteFiles(o, S) ==
    UnmarkDeleted(MarkDeleted(RemoveOverlayPaths(o, S), S \cap DOMAIN base),
                  S \ DOMAIN base)

DeletePath(o, p) ==
    IF Stat(o, p) = "file" THEN DeleteFiles(o, {p})
    ELSE LET emptied == DeleteFiles(o, VisibleFiles(o, p))
         IN  IF Kind(base, p) = "directory" THEN MarkDeleted(emptied, {p})
             ELSE RemoveOverlayPaths(emptied, {p})

Moved(p, from, to) == to \o SubSeq(p, Len(from) + 1, Len(p))

AddRenames(o, files, from, to) ==
    [o EXCEPT !.renames = @ \cup {[from |-> f, to |-> Moved(f, from, to)] : f \in files}]

MoveFile(o, from, to) ==
    AddRenames(SetFiles(DeleteFiles(o, {from}), Only(to, Read(o, from))), {from}, from, to)

MovedDirectories(o, from, to) ==
    {Moved(d, from, to) : d \in VisibleDirectories(o, from)} \cup {to}

MoveDirectory(o, from, to) ==
    LET files == VisibleFiles(o, from)
        marked == SetDirectories(o, MovedDirectories(o, from, to))
        copied == SetFiles(marked, [p \in {Moved(f, from, to) : f \in files} |->
                                       Read(o, Moved(p, to, from))])
    IN  AddRenames(DeletePath(copied, from), files, from, to)

-----------------------------------------------------------------------------
(* change-set.ts *)

DeletedBaseFiles(o) == {f \in DOMAIN base : IsDeleted(o, f)}

\* A mutant: a file of the base counts as unchanged, whatever its content.
WrittenAnew(o) == DOMAIN o.files \ DOMAIN base

Written(o) == {p \in DOMAIN o.files : p \notin DOMAIN base \/ base[p] # o.files[p]}

Change(type, p, from) == [type |-> type, path |-> p, from |-> from]

\* getWorkingTreeChanges: what the Source Control view lists.
Changes(o) ==
    {Change("renamed", r.to, r.from) : r \in o.renames}
    \cup {Change(IF p \in DOMAIN base THEN "modified" ELSE "added", p, p) :
             p \in Written(o) \ {r.to : r \in o.renames}}
    \cup {Change("deleted", p, p) :
             p \in DeletedBaseFiles(o) \ {r.from : r \in o.renames}}
ChangedPaths(o) == {c.path : c \in Changes(o)}

\* buildCommitChanges: the files a publication writes and deletes.
SelectedCommitPaths(o, selected) ==
    UNION {{c.path, c.from} : c \in {d \in Changes(o) : d.path \in selected}}
CommitWrites(o, scope) == Restrict(o.files, Written(o) \cap scope)
CommitDeletes(o, scope) == (DeletedBaseFiles(o) \ Written(o)) \cap scope

\* What an adapter makes of them (adapter-fixture/src/files.ts).
Applied(tree, writes, deletes) == Over(writes, Without(tree, deletes))
IsTree(tree) == \A f \in DOMAIN tree : Front(f) \notin DOMAIN tree

\* A mutant: the tombstones go, published or not.
RebasedWithoutTombstones(o, tree) ==
    [o EXCEPT !.files = Without(@, {p \in DOMAIN @ \cap DOMAIN tree : tree[p] = @[p]}),
              !.directories = {d \in @ : Kind(tree, d) # "directory"},
              !.deleted = {}]

\* rebaseOverlayAfterPartialPublish
Rebased(o, tree) ==
    [files |-> Without(o.files, {p \in DOMAIN o.files :
                   p \in DOMAIN tree /\ tree[p] = o.files[p]}),
     directories |-> {d \in o.directories : Kind(tree, d) # "directory"},
     deleted |-> {d \in o.deleted : Kind(tree, d) # "none"},
     renames |-> {r \in o.renames :
                   Kind(tree, r.from) # "none" \/ Kind(tree, r.to) = "none"}]

-----------------------------------------------------------------------------
TreeInit ==
    /\ base \in BaseTrees
    /\ overlay = EmptyOverlay
    /\ disputed = {}
    /\ steps = 0

Tick == steps < MaxSteps /\ steps' = steps + 1

\* The layers part at the paths of S, until no change is left; but for a base
\* that is no tree.
Disputes(S) ==
    disputed' = IF HasChanges(overlay)' THEN disputed \cup S
                ELSE (disputed \cup S) \cap {Root}

\* Something above is no directory: an operation looks at the parent only.
Misplaced(p) ==
    \E n \in 1 .. Len(p) - 1 : Stat(overlay, SubSeq(p, 1, n)) # "directory"

\* What a revert of p restores below a file that has taken a parent's place.
Buried(p) ==
    {f \in DOMAIN base : /\ SameOrChild(p, f)
                         /\ \E n \in 1 .. Len(f) - 1 :
                               Stat(overlay, SubSeq(f, 1, n)) = "file"}

\* Directories of the base that a publication empties, though the overlay that
\* stays has files there and no marker.
Orphaned(tree, rest) ==
    {d \in Paths : /\ Kind(base, d) = "directory" /\ Kind(tree, d) = "none"
                   /\ d \notin overlay.directories
                   /\ \E f \in DOMAIN rest.files : IsStrictPrefix(d, f)}

WriteFile(p, c) ==
    /\ Tick
    /\ Stat(overlay, p) # "directory" /\ Stat(overlay, Front(p)) = "directory"
    /\ overlay' = IF p \in DOMAIN base /\ base[p] = c
                  THEN UnmarkDeleted(RemoveOverlayPaths(overlay, {p}), {p})
                  ELSE SetFiles(overlay, Only(p, c))
    /\ Disputes({q \in {p} : Misplaced(q)})
    /\ UNCHANGED base

CreateDirectory(p) ==
    /\ Tick
    /\ Stat(overlay, p) = "none" /\ Stat(overlay, Front(p)) = "directory"
    /\ overlay' = SetDirectories(overlay, {p})
    /\ Disputes({p} \cap DOMAIN base)
    /\ UNCHANGED base

Delete(p) ==
    /\ Tick
    /\ Stat(overlay, p) # "none"
    /\ overlay' = DeletePath(overlay, p)
    /\ Disputes({})
    /\ UNCHANGED base

\* A target that exists is deleted first, when the caller lets it.
Rename(from, to) ==
    /\ Tick
    /\ Stat(overlay, from) # "none" /\ ~SameOrChild(to, from)
    /\ Stat(overlay, Front(to)) = "directory"
    /\ LET free == IF Stat(overlay, to) = "none" THEN overlay
                   ELSE DeletePath(overlay, to)
       IN  /\ Stat(free, from) = Stat(overlay, from)
           /\ \/ /\ Stat(overlay, from) = "file"
                 /\ overlay' = MoveFile(free, from, to)
                 /\ Disputes({q \in {to} : Misplaced(q)})
              \/ /\ Stat(overlay, from) = "directory"
                 /\ \A q \in Listed(free, from) : Moved(q, from, to) \in Paths
                 /\ overlay' = MoveDirectory(free, from, to)
                 /\ Disputes({q \in {to} : Misplaced(q)}
                             \cup (MovedDirectories(free, from, to) \cap DOMAIN base))
    /\ UNCHANGED base

\* The command is offered on the entries of the change list.
Revert(p) ==
    /\ Tick
    /\ p \in ChangedPaths(overlay)
    /\ \/ \E r \in overlay.renames :
             /\ r.to = p
             /\ overlay' = UnmarkDeleted(
                    RemoveOverlayPaths([overlay EXCEPT !.renames = @ \ {r}], {p}), {r.from})
             /\ Disputes(Buried(r.from))
       \/ /\ \A r \in overlay.renames : r.to # p
          /\ overlay' = UnmarkDeleted(RemoveOverlayPaths(overlay, {p}), {p})
          /\ Disputes(Buried(p))
    /\ UNCHANGED base

RevertAll ==
    /\ Tick
    /\ overlay' = EmptyOverlay
    /\ Disputes({})
    /\ UNCHANGED base

\* The tree of a commit of the changes in scope.
Published(scope) ==
    Applied(base, CommitWrites(overlay, scope), CommitDeletes(overlay, scope))

\* The adapter refuses a result in which a file is another's parent.
Publish(tree, rest) ==
    /\ Tick
    /\ tree # base /\ IsTree(tree)
    /\ base' = tree
    /\ overlay' = rest
    /\ Disputes(Orphaned(tree, rest)
                \cup {d \in {Root} : \E f, g \in DOMAIN tree : IsStrictPrefix(f, g)})

PublishAll == Publish(Published(Paths), EmptyOverlay)
PublishSelected(selected) ==
    LET tree == Published(SelectedCommitPaths(overlay, selected))
    IN  Publish(tree, Rebased(overlay, tree))

\* A refresh moves a clean tree to another head.
RebindCleanBase ==
    /\ Tick
    /\ ~HasChanges(overlay)
    /\ base' \in BaseTrees \ {base}
    /\ UNCHANGED <<overlay, disputed>>

TreeNext ==
    \/ \E p \in Paths : \/ \E c \in Contents : WriteFile(p, c)
                        \/ CreateDirectory(p) \/ Delete(p) \/ Revert(p)
                        \/ \E q \in Paths : Rename(p, q)
    \/ RevertAll \/ PublishAll \/ RebindCleanBase
    \/ \E selected \in SUBSET ChangedPaths(overlay) : PublishSelected(selected)

TreeSpec == TreeInit /\ [][TreeNext]_treeVars

-----------------------------------------------------------------------------
(* Properties. *)

\* The code lets base and overlay part at or above p in five ways:
\* - a directory is made or moved onto the path of a deleted file of the base,
\*   whose tombstone goes (overlay.ts:230);
\* - a file of the base is reverted below a file that has taken the place of a
\*   deleted directory (mutation-service.ts:107);
\* - a publication of some paths takes the last files of a directory that the
\*   overlay that stays does not list (published-revision.ts:15);
\* - a path is written or moved to whose parent is a directory below a file:
\*   requireDirectory looks at the parent only (mutation-service.ts:181);
\* - an adapter, which looks at the parent only as well (files.ts:35), accepts a
\*   file below a file.
\* The last two take paths of three names.
Agreed(p) == \A d \in disputed : ~SameOrChild(p, d)

AsInBase(o, p) ==
    IF p \in DOMAIN base THEN Stat(o, p) = "file" /\ Read(o, p) = base[p]
    ELSE Stat(o, p) # "file"

\* Publishing every change (buildAllCommitChanges) turns the base into the tree
\* the merged view shows, whatever was written, moved, deleted, reverted and
\* published before: at every path that none of the ways named at Agreed touches.
PublicationMatchesView ==
    LET published == Published(Paths)
        shown == View(overlay)
    IN  \A p \in Paths : Agreed(p) =>
           /\ p \in DOMAIN published <=> p \in DOMAIN shown
           /\ p \in DOMAIN published => published[p] = shown[p]

\* A file that differs from the base is named by an entry of the change list
\* (getWorkingTreeChanges), so it can be reviewed, staged and reverted.
ChangesAreComplete ==
    \A p \in Paths : Agreed(p) /\ ~AsInBase(overlay, p) =>
        \E c \in Changes(overlay) : p \in {c.path, c.from}

\* hasChanges = false is what lets a refresh move the base (rebindCleanBase):
\* an overlay without changes then hides nothing of the base.
CleanTreeShowsBase == ~HasChanges(overlay) => View(overlay) = base

ShownAsBefore(p) ==
    /\ p \in DOMAIN View(overlay) <=> p \in DOMAIN View(overlay)'
    /\ p \in DOMAIN View(overlay) => View(overlay)[p] = View(overlay)'[p]

\* A publication, whole or of staged paths, leaves every file that is shown as
\* it was, and shows no other: accepting the revision moves the base under the
\* overlay, nothing else.
PublicationKeepsFiles ==
    [][base' # base /\ HasChanges(overlay)
       => \A p \in Paths : Agreed(p) /\ Agreed(p)' => ShownAsBefore(p)]_treeVars

\* Reverting an entry of the change list gives its path the base state, even
\* when a parent was deleted or another rename record names the path.
RevertRestoresBase ==
    [][\A p \in Paths : Revert(p) => AsInBase(overlay, p)']_treeVars

(* What the documentation says, and the code does not do: no run checks it. *)

\* docs/adapter-contract.md: "Framework rename behavior resolves to ordinary
\* content add/delete changes."  setDirectory lifts the tombstone of a base
\* file it takes the place of, and the deletion is never published.
RenamesArePublished == Published(Paths) = View(overlay)
=============================================================================
