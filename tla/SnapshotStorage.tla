-------------------------- MODULE SnapshotStorage --------------------------
(***************************************************************************)
(* StorageUriWorkspaceStorage: the snapshots of one repository beneath a   *)
(* storage URI (packages/vscode/src/persistence).  A generation is a       *)
(* manifest named by its own hash and the blobs it refers to, named by     *)
(* theirs; two pointer files name the current and the previous generation. *)
(*                                                                         *)
(* A snapshot stands for its generation and for the manifest's file: two   *)
(* saves of one snapshot write the same names.  Every file operation of a  *)
(* save is a step; reads that nothing of the same save can disturb are one *)
(* step (load).  globalStorageUri is shared by the windows of one user,    *)
(* each with a storage object of its own.                                  *)
(***************************************************************************)
EXTENDS Naturals, FiniteSets

CONSTANTS
    Windows,    \* the extension hosts that have the repository open
    Snapshots,  \* the workspace snapshots, and the manifests' files
    Blobs,      \* the blobs' files
    Content,    \* snapshot -> the blobs its overlays refer to
    None,       \* undefined
    MaxDamage   \* bound: files found damaged

ASSUME StorageAssumption ==
    /\ Content \in [Snapshots -> SUBSET Blobs]
    /\ Snapshots \cap Blobs = {} /\ None \notin Snapshots
    /\ "error" \notin Snapshots \cup {None}
    /\ MaxDamage \in Nat

Files == Snapshots \cup Blobs
Condition == {"absent", "whole", "damaged"}
MaybeSnapshot == Snapshots \cup {None}
StoragePointer == [state: Condition, current: MaybeSnapshot, previous: MaybeSnapshot]
NoPointer == [state |-> "absent", current |-> None, previous |-> None]
PointerFiles == {"current.json", "current.backup.json"}

VARIABLES
    file,     \* the manifests and blobs
    pointer,  \* the two pointer files
    window,   \* window -> the state of its storage object and call
    damage,   \* history: the files found damaged, and whether one was irreplaceable
    reused    \* history: a save took a damaged file for the one it needs

vars == <<file, pointer, window, damage, reused>>

PCs == {"closed", "idle", "repairBackup", "repairPrimary", "files", "pointer",
        "backup", "primary", "collect", "manifests", "blobs"}
\* lastValid: lastValidGeneration; snapshot: what save was given; target: the
\* pointer to write; todo: the blobs to write or the files to delete.
Window == [pc: PCs, lastValid: MaybeSnapshot, snapshot: MaybeSnapshot,
           target: StoragePointer, todo: SUBSET Files]
Closed == [pc |-> "closed", lastValid |-> None, snapshot |-> None,
           target |-> NoPointer, todo |-> {}]

TypeOK ==
    /\ file \in [Files -> Condition]
    /\ pointer \in [PointerFiles -> StoragePointer]
    /\ window \in [Windows -> Window]
    /\ \A w \in Windows : window[w].pc = "closed" => window[w].lastValid = None
    /\ damage \in [found: 0 .. MaxDamage, fatal: BOOLEAN]
    /\ reused \in BOOLEAN

Init ==
    /\ file = [f \in Files |-> "absent"]
    /\ pointer = [f \in PointerFiles |-> NoPointer]
    /\ window = [w \in Windows |-> Closed]
    /\ damage = [found |-> 0, fatal |-> FALSE]
    /\ reused = FALSE

-----------------------------------------------------------------------------
(* Reading. *)

FilesOf(g) == IF g = None THEN {} ELSE {g} \cup Content[g]
Named(p) == FilesOf(p.current) \cup FilesOf(p.previous)

\* loadGeneration: the checksums of the manifest and of every blob agree.
Readable(g) == g # None /\ \A f \in FilesOf(g) : file[f] = "whole"

\* A mutant: the backup is never read.
ReadPrimary == pointer["current.json"]

\* readPointer: the primary, else the backup; it throws when one is damaged
\* and no other can be read.
ReadPointer ==
    LET primary == pointer["current.json"]
        backup == pointer["current.backup.json"]
    IN  IF primary.state = "whole" THEN primary
        ELSE IF backup.state = "whole" THEN backup
        ELSE IF primary.state = "damaged" THEN primary
        ELSE backup

\* What load returns, "error" when it throws.
Loaded ==
    LET p == ReadPointer
    IN  IF p.state = "absent" THEN None
        ELSE IF p.state = "whole" /\ Readable(p.current) THEN p.current
        ELSE IF p.state = "whole" /\ Readable(p.previous) THEN p.previous
        ELSE "error"

-----------------------------------------------------------------------------
Set(w, r) == window' = [window EXCEPT ![w] = r]
Goto(w, pc) == Set(w, [window[w] EXCEPT !.pc = pc])

\* The pointer load puts in the place of one whose current generation is bad.
Fallback(p) == [state |-> "whole", current |-> p.previous, previous |-> None]

Load(w) ==
    /\ window[w].pc \in {"closed", "idle"}
    /\ LET p == ReadPointer IN
          \/ /\ p.state = "absent"
             /\ Goto(w, "idle")
          \/ /\ p.state = "whole" /\ Readable(p.current)
             /\ Set(w, [window[w] EXCEPT !.pc = "idle", !.lastValid = p.current])
          \/ /\ p.state = "whole" /\ ~Readable(p.current) /\ Readable(p.previous)
             /\ Set(w, [window[w] EXCEPT !.pc = "repairBackup",
                           !.lastValid = p.previous, !.target = Fallback(p)])
    /\ UNCHANGED <<file, pointer, damage, reused>>

Save(w, s) ==
    /\ window[w].pc = "idle"
    /\ Set(w, [window[w] EXCEPT !.pc = "files", !.snapshot = s, !.todo = Content[s]])
    /\ UNCHANGED <<file, pointer, damage, reused>>

\* writeFileIfMissing: a file that exists is taken as it is.
Write(f) ==
    /\ file' = [file EXCEPT ![f] = IF @ = "absent" THEN "whole" ELSE @]
    /\ reused' = (reused \/ file[f] = "damaged")

WriteBlob(w, b) ==
    /\ window[w].pc = "files" /\ b \in window[w].todo
    /\ Write(b)
    /\ Set(w, [window[w] EXCEPT !.todo = @ \ {b}])
    /\ UNCHANGED <<pointer, damage>>

\* A mutant: the manifest does not wait for the blobs.
WriteManifestEarly(w) ==
    /\ window[w].pc = "files"
    /\ Write(window[w].snapshot)
    /\ Goto(w, "pointer")
    /\ UNCHANGED <<pointer, damage>>

WriteManifest(w) ==
    /\ window[w].pc = "files" /\ window[w].todo = {}
    /\ Write(window[w].snapshot)
    /\ Goto(w, "pointer")
    /\ UNCHANGED <<pointer, damage>>

\* The generation known to be valid becomes the previous one.
ChoosePointer(w) ==
    /\ window[w].pc = "pointer" /\ ReadPointer.state # "damaged"
    /\ LET r == window[w]
           previous == IF r.lastValid # None THEN r.lastValid ELSE ReadPointer.current
       IN  Set(w, [r EXCEPT !.pc = "backup",
                     !.target = [state |-> "whole", current |-> r.snapshot,
                                 previous |-> IF previous = r.snapshot THEN None
                                              ELSE previous]])
    /\ UNCHANGED <<file, pointer, damage, reused>>

\* writePointer: a temporary file renamed over the backup, then the primary.
WriteBackup(w) ==
    /\ \/ window[w].pc = "backup" /\ Goto(w, "primary")
       \/ window[w].pc = "repairBackup" /\ Goto(w, "repairPrimary")
    /\ pointer' = [pointer EXCEPT !["current.backup.json"] = window[w].target]
    /\ UNCHANGED <<file, damage, reused>>

WritePrimary(w) ==
    /\ \/ /\ window[w].pc = "primary"
          /\ Set(w, [window[w] EXCEPT !.pc = "collect", !.lastValid = window[w].snapshot])
       \/ window[w].pc = "repairPrimary" /\ Goto(w, "idle")
    /\ pointer' = [pointer EXCEPT !["current.json"] = window[w].target]
    /\ UNCHANGED <<file, damage, reused>>

-----------------------------------------------------------------------------
(* garbageCollect *)

Present(S) == {f \in S : file[f] # "absent"}

\* Nothing is deleted when the previous manifest cannot be read.
CollectManifests(w) ==
    /\ window[w].pc = "collect"
    /\ LET t == window[w].target IN
          IF t.previous = None \/ file[t.previous] = "whole"
          THEN Set(w, [window[w] EXCEPT !.pc = "manifests",
                          !.todo = Present(Snapshots) \ Named(t)])
          ELSE Goto(w, "idle")
    /\ UNCHANGED <<file, pointer, damage, reused>>

\* A mutant: the blobs of the previous generation are not kept.
CollectBlobsOfPrevious(w) ==
    /\ window[w].pc = "manifests" /\ window[w].todo = {}
    /\ Set(w, [window[w] EXCEPT !.pc = "blobs",
                  !.todo = Present(Blobs) \ FilesOf(window[w].target.current)])
    /\ UNCHANGED <<file, pointer, damage, reused>>

CollectBlobs(w) ==
    /\ window[w].pc = "manifests" /\ window[w].todo = {}
    /\ Set(w, [window[w] EXCEPT !.pc = "blobs",
                  !.todo = Present(Blobs) \ Named(window[w].target)])
    /\ UNCHANGED <<file, pointer, damage, reused>>

Delete(w, f) ==
    /\ window[w].pc \in {"manifests", "blobs"}
    /\ f \in window[w].todo /\ file[f] # "absent"
    /\ file' = [file EXCEPT ![f] = "absent"]
    /\ Set(w, [window[w] EXCEPT !.todo = @ \ {f}])
    /\ UNCHANGED <<pointer, damage, reused>>

Collected(w) ==
    /\ window[w].pc = "blobs" /\ window[w].todo = {}
    /\ Goto(w, "idle")
    /\ UNCHANGED <<file, pointer, damage, reused>>

-----------------------------------------------------------------------------
(* Failures. *)

\* A file operation throws: the save fails, or a repair or a collection is
\* given up.  A rename that throws may have taken effect.
Throw(w) ==
    /\ window[w].pc \notin {"closed", "idle"}
    /\ Goto(w, "idle")
    /\ \/ UNCHANGED pointer
       \/ /\ window[w].pc \in {"primary", "repairPrimary"}
          /\ pointer' = [pointer EXCEPT !["current.json"] = window[w].target]
    /\ UNCHANGED <<file, damage, reused>>

Crash(w) ==
    /\ window[w].pc # "closed"
    /\ Set(w, Closed)
    /\ UNCHANGED <<file, pointer, damage, reused>>

Resting == \A w \in Windows : window[w].pc \in {"closed", "idle"}

\* Every generation that load could return needs the file: the two share it,
\* or there is one only.  load throws then, without having tried anything else.
Irreplaceable(f) ==
    LET p == ReadPointer
    IN  p.state # "absent" /\ \A g \in {p.current, p.previous} : Readable(g) => f \in FilesOf(g)

Found(fatal) ==
    /\ Resting /\ damage.found < MaxDamage
    /\ damage' = [found |-> damage.found + 1, fatal |-> damage.fatal \/ fatal]

\* A write that was cut off leaves a file that has the name and not the bytes:
\* its checksum disagrees and it does not parse.
DamageFile(f) ==
    /\ Found(Irreplaceable(f)) /\ file[f] = "whole"
    /\ file' = [file EXCEPT ![f] = "damaged"]
    /\ UNCHANGED <<pointer, window, reused>>

DamagePointer(f) ==
    /\ Found(\A g \in PointerFiles \ {f} : pointer[g].state # "whole")
    /\ pointer[f].state = "whole"
    /\ pointer' = [pointer EXCEPT ![f].state = "damaged"]
    /\ UNCHANGED <<file, window, reused>>

Next ==
    \/ \E w \in Windows :
          \/ Load(w) \/ \E s \in Snapshots : Save(w, s)
          \/ \E b \in Blobs : WriteBlob(w, b)
          \/ WriteManifest(w) \/ ChoosePointer(w) \/ WriteBackup(w) \/ WritePrimary(w)
          \/ CollectManifests(w) \/ CollectBlobs(w) \/ Collected(w)
          \/ \E f \in Files : Delete(w, f)
          \/ Throw(w) \/ Crash(w)
    \/ \E f \in Files : DamageFile(f)
    \/ \E f \in PointerFiles : DamagePointer(f)

Spec == Init /\ [][Next]_vars

-----------------------------------------------------------------------------
(* Properties. *)

\* writePointer: "Both only reference generations whose blobs and manifest
\* already exist", and the collection leaves them in place: whichever pointer
\* file is read after a crash, no file of the generations it names is missing.
PointersAreBacked ==
    \A f \in PointerFiles : \A n \in Named(pointer[f]) : file[n] # "absent"

Saving(w) == window[w].pc \in {"files", "pointer", "backup", "primary"}
BeingSaved == IF \E w \in Windows : Saving(w)
              THEN window[CHOOSE w \in Windows : Saving(w)].snapshot ELSE None

\* The storage is what module SnapshotStore, and Workspace's variable disk, say
\* of it: a save replaces what load returns in one step, and nothing else does.
\* As long as no file is damaged, every step is a step of the contract.
Store == INSTANCE SnapshotStore WITH stored <- Loaded, saving <- BeingSaved
ImplementsStore ==
    Store!Init /\ [][damage'.found = 0 => Store!Next \/ UNCHANGED <<Loaded, BeingSaved>>]_vars

\* What load survives at once it survives later: a damaged file makes the
\* workspace unreadable when it is found, because every generation load could
\* return needs it (storage-uri-workspace-storage.ts:60-77 throws), or never -
\* through fallbacks, half-written repairs, later saves and collections, as long
\* as no save took the damaged file for its own (writeFileIfMissing does not
\* look inside).
Loadable == ~reused /\ ~damage.fatal => Loaded # "error"
=============================================================================
