--------------------------- MODULE SnapshotStore ---------------------------
(***************************************************************************)
(* What RemotishWorkspace expects of a WorkspaceStorage                    *)
(* (packages/core/src/persistence/workspace-storage.ts): load returns the  *)
(* last snapshot whose save succeeded, or the one a failed or interrupted  *)
(* save was given.  This is variable disk of module Workspace, with its    *)
(* actions Save, SaveThrows and Crash.                                     *)
(***************************************************************************)
CONSTANTS Snapshots, None

VARIABLES
    stored,  \* what load returns; None: undefined
    saving   \* the snapshot save was called with; None: no save is running

Init == stored = None /\ saving = None

Begin(s) == saving = None /\ saving' = s /\ UNCHANGED stored

\* The save takes effect before it returns.
TakeEffect == saving # None /\ stored' = saving /\ UNCHANGED saving

Succeed == saving # None /\ stored' = saving /\ saving' = None

\* The save throws, or the process ends.
Fail == saving # None /\ stored' \in {stored, saving} /\ saving' = None

Next == (\E s \in Snapshots : Begin(s)) \/ TakeEffect \/ Succeed \/ Fail

Spec == Init /\ [][Next]_<<stored, saving>>
=============================================================================
