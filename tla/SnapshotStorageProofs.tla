------------------------ MODULE SnapshotStorageProofs -----------------------
(***************************************************************************)
(* Theorems of SnapshotStorage for one window, and any number of           *)
(* snapshots, blobs and damaged files: what the pointers name is there,    *)
(* the storage implements SnapshotStore while nothing is damaged, and one  *)
(* damaged file that load can do without at first it can do without later. *)
(***************************************************************************)
EXTENDS SnapshotStorage, TLAPS

There(S) == \A f \in S : file[f] # "absent"
Repairing(w) == window[w].pc \in {"repairBackup", "repairPrimary"}
Collecting(w) == window[w].pc \in {"collect", "manifests", "blobs"}

\* What a window relies on is there, and what it deletes is named by nothing
\* that it or a pointer relies on.
WindowOK(w) ==
    /\ There(FilesOf(window[w].lastValid))
    /\ window[w].pc = "files" => There(Content[window[w].snapshot] \ window[w].todo)
    /\ window[w].pc = "pointer" => There(FilesOf(window[w].snapshot))
    /\ Repairing(w) \/ window[w].pc \in {"backup", "primary"} =>
          /\ There(Named(window[w].target))
          /\ window[w].target.state = "whole" /\ window[w].target.current # None
    /\ window[w].pc \in {"backup", "primary"} =>
          window[w].target.current = window[w].snapshot
    /\ window[w].pc = "primary" => pointer["current.backup.json"] = window[w].target
    /\ Collecting(w) =>
          /\ \A f \in PointerFiles : pointer[f] = window[w].target
          /\ window[w].lastValid = window[w].target.current
    /\ window[w].pc \in {"manifests", "blobs"} =>
          window[w].todo \cap Named(window[w].target) = {}
    /\ Saving(w) => window[w].snapshot # None

WindowInv == \A w \in Windows : WindowOK(w)

\* Without damage every file is whole, and nothing is repaired.
UndamagedInv ==
    /\ \A f \in PointerFiles : pointer[f].state = "whole" => pointer[f].current # None
    /\ damage.found = 0 =>
          /\ \A f \in Files : file[f] # "damaged"
          /\ \A f \in PointerFiles : pointer[f].state # "damaged"
          /\ \A w \in Windows : ~Repairing(w)

StorageInv == TypeOK /\ PointersAreBacked /\ WindowInv /\ UndamagedInv

-----------------------------------------------------------------------------
(* Files and pointers. *)

LEMMA NamedFiles ==
    /\ \A g \in MaybeSnapshot : FilesOf(g) \subseteq Files
    /\ \A p \in StoragePointer : Named(p) \subseteq Files /\ p.current \in MaybeSnapshot
                                 /\ p.previous \in MaybeSnapshot /\ p.state \in Condition
    /\ FilesOf(None) = {}
  BY StorageAssumption DEF FilesOf, Named, Files, MaybeSnapshot, StoragePointer

LEMMA PointerRead ==
    ASSUME TypeOK
    PROVE  /\ ReadPointer \in StoragePointer
           /\ \E f \in PointerFiles : ReadPointer = pointer[f]
  BY DEF TypeOK, ReadPointer, PointerFiles

LEMMA StorageInit == Init => StorageInv
  <1> SUFFICES ASSUME Init
               PROVE  StorageInv
    OBVIOUS
  <1> USE StorageAssumption
  <1>1. NoPointer \in StoragePointer
    BY DEF NoPointer, StoragePointer, Condition, MaybeSnapshot
  <1>2. Closed \in Window /\ Closed.pc = "closed" /\ Closed.lastValid = None
    BY <1>1 DEF Closed, Window, PCs, MaybeSnapshot
  <1>3. TypeOK
    <2>1. file \in [Files -> Condition]
      BY DEF Init, Condition
    <2>2. pointer \in [PointerFiles -> StoragePointer]
      BY <1>1 DEF Init
    <2>3. /\ window \in [Windows -> Window]
          /\ \A w \in Windows : window[w].pc = "closed" => window[w].lastValid = None
      BY <1>2 DEF Init
    <2>4. damage \in [found: 0 .. MaxDamage, fatal: BOOLEAN]
      BY DEF Init
    <2>5. reused \in BOOLEAN
      BY DEF Init
    <2> QED
      BY <2>1, <2>2, <2>3, <2>4, <2>5 DEF TypeOK
  <1>4. PointersAreBacked
    BY DEF Init, PointersAreBacked, NoPointer, Named, FilesOf
  <1>5. WindowInv
    <2>1. \A w \in Windows : window[w].pc = "closed" /\ window[w].lastValid = None
      BY <1>2 DEF Init
    <2>2. There(FilesOf(None))
      BY NamedFiles DEF There
    <2> QED
      BY <2>1, <2>2 DEF WindowInv, WindowOK, Repairing, Collecting, Saving
  <1>6. UndamagedInv
    BY <1>2 DEF Init, UndamagedInv, NoPointer, Repairing
  <1> QED
    BY <1>3, <1>4, <1>5, <1>6 DEF StorageInv

-----------------------------------------------------------------------------
(* Types. *)

\* WritePrimary at the end of a save: the window remembers what it saved.
LEMMA PrimaryTaken ==
    ASSUME TypeOK, NEW w \in Windows, window[w].pc = "primary", WritePrimary(w)
    PROVE  /\ window'[w].pc = "collect"
           /\ window'[w].lastValid = window[w].snapshot
           /\ window'[w].snapshot = window[w].snapshot
           /\ window'[w].target = window[w].target
  <1> DEFINE r == [window[w] EXCEPT !.pc = "collect", !.lastValid = window[w].snapshot]
  <1>1. window[w] \in Window
    BY DEF TypeOK
  <1>2. Set(w, r)
    BY DEF WritePrimary
  <1>3. /\ r.pc = "collect" /\ r.lastValid = window[w].snapshot
        /\ r.snapshot = window[w].snapshot /\ r.target = window[w].target
    BY <1>1 DEF Window
  <1> HIDE DEF r
  <1>4. window'[w] = r
    BY <1>2 DEF Set, TypeOK
  <1> QED
    BY <1>3, <1>4

LEMMA SetTypes ==
    ASSUME TypeOK, NEW w \in Windows, NEW r \in Window, Set(w, r),
           r.pc = "closed" => r.lastValid = None
    PROVE  /\ window' \in [Windows -> Window]
           /\ \A v \in Windows : window'[v].pc = "closed" => window'[v].lastValid = None
           /\ window'[w] = r
  BY DEF TypeOK, Set

LEMMA GotoTypes ==
    ASSUME TypeOK, NEW w \in Windows, NEW pc \in PCs \ {"closed"}, Goto(w, pc)
    PROVE  /\ window' \in [Windows -> Window]
           /\ \A v \in Windows : window'[v].pc = "closed" => window'[v].lastValid = None
           /\ window'[w] = [window[w] EXCEPT !.pc = pc]
  <1>1. window[w] \in Window
    BY DEF TypeOK
  <1>2. [window[w] EXCEPT !.pc = pc] \in Window /\ [window[w] EXCEPT !.pc = pc].pc = pc
    BY <1>1 DEF Window
  <1> QED
    BY <1>2, SetTypes DEF Goto

\* What is found damaged is counted, and how bad it is remembered.
LEMMA FoundIs ==
    ASSUME TypeOK, NEW fatal \in BOOLEAN, Found(fatal)
    PROVE  /\ Resting /\ damage.found < MaxDamage /\ damage.found \in Nat
           /\ damage' \in [found: 0 .. MaxDamage, fatal: BOOLEAN]
           /\ damage'.found # 0
           /\ damage'.fatal = (damage.fatal \/ fatal)
  BY StorageAssumption DEF TypeOK, Found

LEMMA DamageFound ==
    ASSUME TypeOK
    PROVE  /\ \A f \in Files : DamageFile(f) => Found(Irreplaceable(f))
           /\ \A f \in PointerFiles :
                 DamagePointer(f) => Found(\A g \in PointerFiles \ {f} : pointer[g].state # "whole")
           /\ \A f \in Files : Irreplaceable(f) \in BOOLEAN
  BY DEF DamageFile, DamagePointer, Irreplaceable

LEMMA StorageTypes ==
    ASSUME TypeOK, [Next]_vars
    PROVE  TypeOK'
  <1> USE StorageAssumption
  <1>t. ASSUME file' \in [Files -> Condition], pointer' \in [PointerFiles -> StoragePointer],
               window' \in [Windows -> Window],
               \A w \in Windows : window'[w].pc = "closed" => window'[w].lastValid = None,
               damage' \in [found: 0 .. MaxDamage, fatal: BOOLEAN], reused' \in BOOLEAN
        PROVE  TypeOK'
    BY <1>t DEF TypeOK
  <1>c. /\ file \in [Files -> Condition] /\ pointer \in [PointerFiles -> StoragePointer]
        /\ damage \in [found: 0 .. MaxDamage, fatal: BOOLEAN] /\ reused \in BOOLEAN
        /\ window \in [Windows -> Window]
        /\ \A w \in Windows : window[w] \in Window
    BY DEF TypeOK
  <1>p. ReadPointer \in StoragePointer
    BY PointerRead
  <1>f. ASSUME NEW f \in Files, Write(f)
        PROVE  file' \in [Files -> Condition] /\ reused' \in BOOLEAN
    BY <1>f, <1>c DEF Write, Condition
  <1>1. ASSUME NEW w \in Windows, Load(w)
        PROVE  TypeOK'
    <2>1. CASE Goto(w, "idle")
      BY <1>1, <1>c, <1>t, <2>1, GotoTypes DEF Load, PCs
    <2>2. CASE Set(w, [window[w] EXCEPT !.pc = "idle", !.lastValid = ReadPointer.current])
      <3>1. /\ [window[w] EXCEPT !.pc = "idle", !.lastValid = ReadPointer.current] \in Window
            /\ [window[w] EXCEPT !.pc = "idle", !.lastValid = ReadPointer.current].pc = "idle"
        BY <1>c, <1>p, NamedFiles DEF Window, PCs
      <3> QED
        BY <1>1, <1>c, <1>t, <2>2, <3>1, SetTypes DEF Load
    <2>3. CASE Set(w, [window[w] EXCEPT !.pc = "repairBackup",
                          !.lastValid = ReadPointer.previous, !.target = Fallback(ReadPointer)])
      <3>1. Fallback(ReadPointer) \in StoragePointer
        BY <1>p, NamedFiles DEF Fallback, StoragePointer, Condition, MaybeSnapshot
      <3>2. LET r == [window[w] EXCEPT !.pc = "repairBackup",
                          !.lastValid = ReadPointer.previous, !.target = Fallback(ReadPointer)]
            IN  r \in Window /\ r.pc = "repairBackup"
        BY <1>c, <1>p, <3>1, NamedFiles DEF Window, PCs
      <3> QED
        BY <1>1, <1>c, <1>t, <2>3, <3>2, SetTypes DEF Load
    <2> QED
      BY <1>1, <2>1, <2>2, <2>3 DEF Load
  <1>2. ASSUME NEW w \in Windows, NEW s \in Snapshots, Save(w, s)
        PROVE  TypeOK'
    <2>1. LET r == [window[w] EXCEPT !.pc = "files", !.snapshot = s, !.todo = Content[s]]
          IN  r \in Window /\ r.pc = "files"
      BY <1>c DEF Window, PCs, MaybeSnapshot, Files
    <2> QED
      BY <1>2, <1>c, <1>t, <2>1, SetTypes DEF Save
  <1>3. ASSUME NEW w \in Windows, NEW b \in Blobs, WriteBlob(w, b)
        PROVE  TypeOK'
    <2>1. LET r == [window[w] EXCEPT !.todo = window[w].todo \ {b}]
          IN  r \in Window /\ r.pc = "files"
      BY <1>3, <1>c DEF Window, WriteBlob
    <2>2. Set(w, [window[w] EXCEPT !.todo = window[w].todo \ {b}]) /\ Write(b) /\ b \in Files
      BY <1>3 DEF WriteBlob, Files
    <2> QED
      BY <1>3, <1>c, <1>f, <1>t, <2>1, <2>2, SetTypes DEF WriteBlob
  <1>4. ASSUME NEW w \in Windows, WriteManifest(w)
        PROVE  TypeOK'
    <2>1. CASE window[w].snapshot \in Files
      BY <1>4, <1>c, <1>f, <1>t, <2>1, GotoTypes DEF WriteManifest, PCs
    <2>2. CASE window[w].snapshot \notin Files
      BY <1>4, <1>c, <1>t, <2>2, GotoTypes DEF WriteManifest, PCs, Write
    <2> QED
      BY <2>1, <2>2
  <1>5. ASSUME NEW w \in Windows, ChoosePointer(w)
        PROVE  TypeOK'
    <2> DEFINE previous == IF window[w].lastValid # None THEN window[w].lastValid
                           ELSE ReadPointer.current
               t == [state |-> "whole", current |-> window[w].snapshot,
                     previous |-> IF previous = window[w].snapshot THEN None ELSE previous]
    <2>1. previous \in MaybeSnapshot /\ window[w].snapshot \in MaybeSnapshot
      BY <1>c, <1>p, NamedFiles DEF Window
    <2>2. t \in StoragePointer
      BY <2>1 DEF StoragePointer, Condition, MaybeSnapshot
    <2>3. Set(w, [window[w] EXCEPT !.pc = "backup", !.target = t])
      BY <1>5 DEF ChoosePointer
    <2> HIDE DEF t
    <2>4. LET r == [window[w] EXCEPT !.pc = "backup", !.target = t]
          IN  r \in Window /\ r.pc = "backup"
      BY <1>c, <2>2 DEF Window, PCs
    <2> QED
      BY <1>5, <1>c, <1>t, <2>3, <2>4, SetTypes DEF ChoosePointer
  <1>6. ASSUME NEW w \in Windows, WriteBackup(w)
        PROVE  TypeOK'
    <2>1. window[w].target \in StoragePointer
      BY <1>c DEF Window
    <2> QED
      BY <1>6, <1>c, <1>t, <2>1, GotoTypes DEF WriteBackup, PCs, PointerFiles
  <1>7. ASSUME NEW w \in Windows, WritePrimary(w)
        PROVE  TypeOK'
    <2>1. window[w].target \in StoragePointer
      BY <1>c DEF Window
    <2>2. LET r == [window[w] EXCEPT !.pc = "collect", !.lastValid = window[w].snapshot]
          IN  r \in Window /\ r.pc = "collect"
      BY <1>c DEF Window, PCs
    <2>3. pointer' \in [PointerFiles -> StoragePointer]
      BY <1>7, <1>c, <2>1 DEF WritePrimary, PointerFiles
    <2>4. CASE Goto(w, "idle")
      BY <1>7, <1>c, <1>t, <2>3, <2>4, GotoTypes DEF WritePrimary, PCs
    <2>5. CASE Set(w, [window[w] EXCEPT !.pc = "collect", !.lastValid = window[w].snapshot])
      BY <1>7, <1>c, <1>t, <2>2, <2>3, <2>5, SetTypes DEF WritePrimary
    <2> QED
      BY <1>7, <2>4, <2>5 DEF WritePrimary
  <1>8. ASSUME NEW w \in Windows, CollectManifests(w)
        PROVE  TypeOK'
    <2>1. CASE Goto(w, "idle")
      BY <1>8, <1>c, <1>t, <2>1, GotoTypes DEF CollectManifests, PCs
    <2>2. CASE Set(w, [window[w] EXCEPT !.pc = "manifests",
                          !.todo = Present(Snapshots) \ Named(window[w].target)])
      <3>1. Present(Snapshots) \ Named(window[w].target) \in SUBSET Files
        BY DEF Present, Files
      <3>2. LET r == [window[w] EXCEPT !.pc = "manifests",
                          !.todo = Present(Snapshots) \ Named(window[w].target)]
            IN  r \in Window /\ r.pc = "manifests"
        BY <1>c, <3>1 DEF Window, PCs
      <3> QED
        BY <1>8, <1>c, <1>t, <2>2, <3>2, SetTypes DEF CollectManifests
    <2> QED
      BY <1>8, <2>1, <2>2 DEF CollectManifests
  <1>9. ASSUME NEW w \in Windows, CollectBlobs(w)
        PROVE  TypeOK'
    <2>1. Present(Blobs) \ Named(window[w].target) \in SUBSET Files
      BY DEF Present, Files
    <2>2. LET r == [window[w] EXCEPT !.pc = "blobs",
                        !.todo = Present(Blobs) \ Named(window[w].target)]
          IN  r \in Window /\ r.pc = "blobs"
      BY <1>c, <2>1 DEF Window, PCs
    <2> QED
      BY <1>9, <1>c, <1>t, <2>2, SetTypes DEF CollectBlobs
  <1>10. ASSUME NEW w \in Windows, NEW f \in Files, Delete(w, f)
         PROVE  TypeOK'
    <2>1. LET r == [window[w] EXCEPT !.todo = window[w].todo \ {f}]
          IN  r \in Window /\ r.pc # "closed"
      BY <1>10, <1>c DEF Window, Delete
    <2>2. Set(w, [window[w] EXCEPT !.todo = window[w].todo \ {f}])
      BY <1>10 DEF Delete
    <2>3. file' \in [Files -> Condition]
      BY <1>10, <1>c DEF Delete, Condition
    <2> QED
      BY <1>10, <1>c, <1>t, <2>1, <2>2, <2>3, SetTypes DEF Delete
  <1>11. ASSUME NEW w \in Windows, Collected(w)
         PROVE  TypeOK'
    BY <1>11, <1>c, <1>t, GotoTypes DEF Collected, PCs
  <1>12. ASSUME NEW w \in Windows, Throw(w)
         PROVE  TypeOK'
    <2>1. window[w].target \in StoragePointer
      BY <1>c DEF Window
    <2>2. pointer' \in [PointerFiles -> StoragePointer]
      BY <1>12, <1>c, <2>1 DEF Throw, PointerFiles
    <2> QED
      BY <1>12, <1>c, <1>t, <2>2, GotoTypes DEF Throw, PCs
  <1>13. ASSUME NEW w \in Windows, Crash(w)
         PROVE  TypeOK'
    <2>1. Closed \in Window /\ Closed.lastValid = None
      BY DEF Closed, Window, PCs, MaybeSnapshot, NoPointer, StoragePointer, Condition
    <2> QED
      BY <1>13, <1>c, <1>t, <2>1, SetTypes DEF Crash
  <1>14. ASSUME NEW f \in Files, DamageFile(f)
         PROVE  TypeOK'
    <2>1. damage' \in [found: 0 .. MaxDamage, fatal: BOOLEAN]
      BY <1>14, DamageFound, FoundIs
    <2> QED
      BY <1>14, <1>c, <1>t, <2>1 DEF DamageFile, TypeOK, Condition
  <1>15. ASSUME NEW f \in PointerFiles, DamagePointer(f)
         PROVE  TypeOK'
    <2>1. pointer' \in [PointerFiles -> StoragePointer]
      BY <1>15, <1>c DEF DamagePointer, StoragePointer, Condition
    <2>2. damage' \in [found: 0 .. MaxDamage, fatal: BOOLEAN]
      BY <1>15, DamageFound, FoundIs
    <2> QED
      BY <1>15, <1>c, <1>t, <2>1, <2>2 DEF DamagePointer, TypeOK
  <1>16. CASE UNCHANGED vars
    BY <1>16, <1>c, <1>t DEF vars, TypeOK
  <1> QED
    BY <1>1, <1>2, <1>3, <1>4, <1>5, <1>6, <1>7, <1>8, <1>9, <1>10, <1>11, <1>12, <1>13,
       <1>14, <1>15, <1>16 DEF Next

-----------------------------------------------------------------------------
(* The steps of the one window. *)

Alone == \A v, w \in Windows : v = w

\* A window that does nothing relies on its valid generation only.
LEMMA RestingOK ==
    ASSUME NEW w \in Windows, window'[w].pc \in {"idle", "closed"},
           There(FilesOf(window[w].lastValid))'
    PROVE  WindowOK(w)'
  BY DEF WindowOK, Repairing, Collecting, Saving

LEMMA BackedStep ==
    ASSUME TypeOK, PointersAreBacked, UNCHANGED pointer,
           \A f \in Files : file[f] # "absent" => file'[f] # "absent"
    PROVE  PointersAreBacked'
  BY NamedFiles DEF TypeOK, PointersAreBacked

LEMMA LoadStep ==
    ASSUME StorageInv, NEW w \in Windows, Load(w)
    PROVE  PointersAreBacked' /\ WindowOK(w)'
  <1> DEFINE p == ReadPointer
  <1>w. window[w] \in Window /\ WindowOK(w) /\ TypeOK /\ PointersAreBacked
    BY DEF StorageInv, TypeOK, WindowInv
  <1>p. p \in StoragePointer /\ There(Named(p))
    BY <1>w, PointerRead DEF PointersAreBacked, There
  <1>u. UNCHANGED <<file, pointer>>
    BY DEF Load
  <1>1. PointersAreBacked'
    BY <1>u, <1>w DEF PointersAreBacked
  <1>2. CASE Goto(w, "idle")
    <2>1. window'[w].pc = "idle" /\ window'[w].lastValid = window[w].lastValid
      BY <1>2, <1>w DEF Goto, Set, TypeOK, Window
    <2> QED
      BY <1>1, <1>u, <1>w, <2>1, RestingOK DEF WindowOK, There
  <1>3. CASE Set(w, [window[w] EXCEPT !.pc = "idle", !.lastValid = p.current])
    <2>1. window'[w].pc = "idle" /\ window'[w].lastValid = p.current
      BY <1>3, <1>w DEF Set, TypeOK, Window
    <2> HIDE DEF p
    <2>2. There(FilesOf(p.current))
      BY <1>p DEF There, Named
    <2> QED
      BY <1>1, <1>u, <2>1, <2>2, RestingOK DEF There
  <1>4. CASE Readable(p.previous) /\
             Set(w, [window[w] EXCEPT !.pc = "repairBackup", !.lastValid = p.previous,
                                      !.target = Fallback(p)])
    <2>1. /\ window'[w].pc = "repairBackup" /\ window'[w].lastValid = p.previous
          /\ window'[w].target = Fallback(p)
      BY <1>4, <1>w DEF Set, TypeOK, Window
    <2> HIDE DEF p
    <2>2. There(FilesOf(p.previous)) /\ p.previous # None
      BY <1>4, <1>p DEF There, Named, Readable
    <2>3. /\ Fallback(p).state = "whole" /\ Fallback(p).current = p.previous
          /\ Fallback(p).previous = None
      BY DEF Fallback
    <2>4. There(Named(Fallback(p)))
      BY <2>2, <2>3, NamedFiles DEF Named, There
    <2>5. There(FilesOf(window[w].lastValid))' /\ There(Named(window[w].target))'
      BY <1>u, <2>1, <2>2, <2>4 DEF There
    <2> QED
      BY <1>1, <2>1, <2>2, <2>3, <2>5 DEF WindowOK, Repairing, Collecting, Saving
  <1> QED
    BY <1>2, <1>3, <1>4 DEF Load

LEMMA SaveSteps ==
    ASSUME StorageInv, NEW w \in Windows,
           \/ \E s \in Snapshots : Save(w, s)
           \/ \E b \in Blobs : WriteBlob(w, b)
           \/ WriteManifest(w) \/ ChoosePointer(w)
    PROVE  PointersAreBacked' /\ WindowOK(w)'
  <1> USE StorageAssumption
  <1>w. window[w] \in Window /\ WindowOK(w) /\ TypeOK /\ PointersAreBacked
    BY DEF StorageInv, TypeOK, WindowInv
  <1>s. \A g \in MaybeSnapshot : FilesOf(g) \subseteq Files
    BY NamedFiles
  <1>l. FilesOf(window[w].lastValid) \subseteq Files
    BY <1>s, <1>w DEF Window
  <1>1. ASSUME NEW s \in Snapshots, Save(w, s)
        PROVE  PointersAreBacked' /\ WindowOK(w)'
    <2>1. /\ window'[w].pc = "files" /\ window'[w].lastValid = window[w].lastValid
          /\ window'[w].snapshot = s /\ window'[w].todo = Content[s]
          /\ UNCHANGED <<file, pointer>>
      BY <1>1, <1>w DEF Save, Set, TypeOK, Window
    <2>2. There(Content[window[w].snapshot] \ window[w].todo)'
      BY <2>1 DEF There
    <2>3. There(FilesOf(window[w].lastValid))'
      BY <1>w, <2>1 DEF WindowOK, There
    <2>4. PointersAreBacked'
      BY <1>w, <2>1 DEF PointersAreBacked
    <2> QED
      BY <2>1, <2>2, <2>3, <2>4 DEF WindowOK, Repairing, Collecting
  <1>2. ASSUME NEW b \in Blobs, WriteBlob(w, b)
        PROVE  PointersAreBacked' /\ WindowOK(w)'
    <2>1. /\ window[w].pc = "files"
          /\ window'[w].pc = "files" /\ window'[w].lastValid = window[w].lastValid
          /\ window'[w].snapshot = window[w].snapshot
          /\ window'[w].todo = window[w].todo \ {b}
          /\ UNCHANGED pointer
      BY <1>2, <1>w DEF WriteBlob, Set, TypeOK, Window
    <2>2. /\ \A f \in Files : file[f] # "absent" => file'[f] # "absent"
          /\ file'[b] # "absent"
      BY <1>2, <1>w DEF WriteBlob, Write, TypeOK, Files
    <2>3. window[w].snapshot # None /\ window[w].snapshot \in Snapshots
      BY <1>w, <2>1 DEF WindowOK, Saving, Window, MaybeSnapshot
    <2>4. There(Content[window[w].snapshot] \ window[w].todo)'
      BY <1>w, <2>1, <2>2, <2>3 DEF WindowOK, There, Files
    <2>5. There(FilesOf(window[w].lastValid))'
      BY <1>l, <1>w, <2>1, <2>2 DEF WindowOK, There
    <2>6. PointersAreBacked'
      BY <1>w, <2>1, <2>2, BackedStep
    <2> QED
      BY <2>1, <2>3, <2>4, <2>5, <2>6 DEF WindowOK, Repairing, Collecting
  <1>3. CASE WriteManifest(w)
    <2>1. /\ window[w].pc = "files" /\ window[w].todo = {}
          /\ window'[w].pc = "pointer" /\ window'[w].lastValid = window[w].lastValid
          /\ window'[w].snapshot = window[w].snapshot
          /\ UNCHANGED pointer
      BY <1>3, <1>w DEF WriteManifest, Goto, Set, TypeOK, Window
    <2>2. window[w].snapshot # None /\ window[w].snapshot \in Snapshots
      BY <1>w, <2>1 DEF WindowOK, Saving, Window, MaybeSnapshot
    <2>3. /\ \A f \in Files : file[f] # "absent" => file'[f] # "absent"
          /\ file'[window[w].snapshot] # "absent"
      BY <1>3, <1>w, <2>2 DEF WriteManifest, Write, TypeOK, Files
    <2>4. There(Content[window[w].snapshot])
      BY <1>w, <2>1 DEF WindowOK, There
    <2>5. There(FilesOf(window[w].snapshot))'
      BY <2>1, <2>2, <2>3, <2>4 DEF There, FilesOf, Files
    <2>6. There(FilesOf(window[w].lastValid))'
      BY <1>l, <1>w, <2>1, <2>3 DEF WindowOK, There
    <2>7. PointersAreBacked'
      BY <1>w, <2>1, <2>3, BackedStep
    <2> QED
      BY <2>1, <2>2, <2>5, <2>6, <2>7 DEF WindowOK, Repairing, Collecting
  <1>4. CASE ChoosePointer(w)
    <2> DEFINE previous == IF window[w].lastValid # None THEN window[w].lastValid
                           ELSE ReadPointer.current
               t == [state |-> "whole", current |-> window[w].snapshot,
                     previous |-> IF previous = window[w].snapshot THEN None ELSE previous]
    <2>1. /\ window[w].pc = "pointer" /\ UNCHANGED <<file, pointer>>
          /\ Set(w, [window[w] EXCEPT !.pc = "backup", !.target = t])
      BY <1>4 DEF ChoosePointer
    <2>2. There(FilesOf(ReadPointer.current))
      BY <1>w, PointerRead DEF PointersAreBacked, There, Named
    <2>3. There(FilesOf(previous)) /\ There(FilesOf(window[w].snapshot)) /\ There(FilesOf(None))
      BY <1>w, <2>1, <2>2, NamedFiles DEF WindowOK, There
    <2>4. /\ t.state = "whole" /\ t.current = window[w].snapshot
          /\ t.previous \in {None, previous}
      OBVIOUS
    <2>5. window[w].snapshot # None
      BY <1>w, <2>1 DEF WindowOK, Saving
    <2> HIDE DEF t, previous
    <2>6. There(Named(t))
      BY <2>3, <2>4 DEF There, Named
    <2>7. /\ window'[w].pc = "backup" /\ window'[w].lastValid = window[w].lastValid
          /\ window'[w].snapshot = window[w].snapshot /\ window'[w].target = t
      BY <1>w, <2>1 DEF Set, TypeOK, Window
    <2>8. There(FilesOf(window[w].lastValid))' /\ There(Named(window[w].target))'
      BY <1>w, <2>1, <2>6, <2>7 DEF WindowOK, There
    <2>9. PointersAreBacked'
      BY <1>w, <2>1 DEF PointersAreBacked
    <2> QED
      BY <2>4, <2>5, <2>7, <2>8, <2>9 DEF WindowOK, Repairing, Collecting
  <1> QED
    BY <1>1, <1>2, <1>3, <1>4

LEMMA PointerSteps ==
    ASSUME StorageInv, NEW w \in Windows, WriteBackup(w) \/ WritePrimary(w)
    PROVE  PointersAreBacked' /\ WindowOK(w)'
  <1>w. window[w] \in Window /\ WindowOK(w) /\ TypeOK /\ PointersAreBacked
    BY DEF StorageInv, TypeOK, WindowInv
  <1> DEFINE t == window[w].target
  <1>t. /\ There(Named(t)) /\ t.state = "whole" /\ t.current # None
        /\ window[w].pc \in {"backup", "primary"} => t.current = window[w].snapshot
        /\ There(FilesOf(window[w].lastValid))
        /\ UNCHANGED file
    BY <1>w DEF WriteBackup, WritePrimary, WindowOK, Repairing
  <1>p. PointersAreBacked'
    <2>1. \A f \in PointerFiles : pointer'[f] \in {pointer[f], t}
      BY <1>w DEF WriteBackup, WritePrimary, TypeOK
    <2> QED
      BY <1>t, <1>w, <2>1 DEF PointersAreBacked, There
  <1>1. CASE window[w].pc \in {"backup", "repairBackup"} /\ WriteBackup(w)
    <2>1. /\ window'[w].pc = IF window[w].pc = "backup" THEN "primary" ELSE "repairPrimary"
          /\ window'[w].lastValid = window[w].lastValid
          /\ window'[w].snapshot = window[w].snapshot /\ window'[w].target = t
          /\ pointer'["current.backup.json"] = t
      BY <1>1, <1>w DEF WriteBackup, Goto, Set, TypeOK, Window, PointerFiles
    <2>2. There(FilesOf(window[w].lastValid))' /\ There(Named(window[w].target))'
      BY <1>t, <2>1 DEF There
    <2>3. CASE window[w].pc = "backup"
      BY <1>p, <1>t, <2>1, <2>2, <2>3 DEF WindowOK, Repairing, Collecting
    <2>4. CASE window[w].pc = "repairBackup"
      BY <1>p, <1>t, <2>1, <2>2, <2>4 DEF WindowOK, Repairing, Collecting, Saving
    <2> QED
      BY <1>1, <2>3, <2>4
  <1>2. CASE window[w].pc = "repairPrimary" /\ WritePrimary(w)
    <2>1. window'[w].pc = "idle" /\ window'[w].lastValid = window[w].lastValid
      BY <1>2, <1>w DEF WritePrimary, Goto, Set, TypeOK, Window
    <2>2. There(FilesOf(window[w].lastValid))'
      BY <1>t, <2>1 DEF There
    <2> QED
      BY <1>p, <2>1, <2>2, RestingOK
  <1>3. CASE window[w].pc = "primary" /\ WritePrimary(w)
    <2>1. /\ window'[w].pc = "collect" /\ window'[w].lastValid = window[w].snapshot
          /\ window'[w].target = t
      BY <1>3, <1>w, PrimaryTaken
    <2>2. \A f \in PointerFiles : pointer'[f] = t
      BY <1>3, <1>w DEF WritePrimary, WindowOK, TypeOK, PointerFiles
    <2>3. There(FilesOf(window[w].lastValid))'
      BY <1>3, <1>t, <2>1 DEF There, Named
    <2> QED
      BY <1>3, <1>p, <1>t, <2>1, <2>2, <2>3 DEF WindowOK, Repairing, Collecting, Saving
  <1> QED
    BY <1>1, <1>2, <1>3 DEF WriteBackup, WritePrimary

LEMMA CollectSteps ==
    ASSUME StorageInv, NEW w \in Windows,
           \/ CollectManifests(w) \/ CollectBlobs(w) \/ Collected(w)
           \/ \E f \in Files : Delete(w, f)
    PROVE  PointersAreBacked' /\ WindowOK(w)'
  <1>w. window[w] \in Window /\ WindowOK(w) /\ TypeOK /\ PointersAreBacked
    BY DEF StorageInv, TypeOK, WindowInv
  <1> DEFINE t == window[w].target
  <1>t. /\ Collecting(w) /\ \A f \in PointerFiles : pointer[f] = t
        /\ window[w].lastValid = t.current
        /\ There(FilesOf(window[w].lastValid))
    BY <1>w DEF CollectManifests, CollectBlobs, Collected, Delete, WindowOK, Collecting
  <1>1. ASSUME NEW todo, NEW pc \in {"manifests", "blobs"}, todo \cap Named(t) = {},
               Set(w, [window[w] EXCEPT !.pc = pc, !.todo = todo]), UNCHANGED <<file, pointer>>
        PROVE  PointersAreBacked' /\ WindowOK(w)'
    <2>1. /\ window'[w].pc = pc /\ window'[w].todo = todo
          /\ window'[w].target = t /\ window'[w].lastValid = window[w].lastValid
      BY <1>1, <1>w DEF Set, TypeOK, Window
    <2>2. There(FilesOf(window[w].lastValid))'
      BY <1>1, <1>t, <2>1 DEF There
    <2>3. PointersAreBacked'
      BY <1>1, <1>w DEF PointersAreBacked
    <2> QED
      BY <1>1, <1>t, <2>1, <2>2, <2>3 DEF WindowOK, Repairing, Collecting, Saving
  <1>2. ASSUME Goto(w, "idle"), UNCHANGED <<file, pointer>>
        PROVE  PointersAreBacked' /\ WindowOK(w)'
    <2>1. window'[w].pc = "idle" /\ window'[w].lastValid = window[w].lastValid
      BY <1>2, <1>w DEF Goto, Set, TypeOK, Window
    <2>2. There(FilesOf(window[w].lastValid))'
      BY <1>2, <1>t, <2>1 DEF There
    <2>3. PointersAreBacked'
      BY <1>2, <1>w DEF PointersAreBacked
    <2> QED
      BY <2>1, <2>2, <2>3, RestingOK
  <1>3. CASE CollectManifests(w)
    <2>1. CASE Goto(w, "idle")
      BY <1>2, <1>3, <2>1 DEF CollectManifests
    <2>2. CASE Set(w, [window[w] EXCEPT !.pc = "manifests",
                          !.todo = Present(Snapshots) \ Named(t)])
      <3>1. (Present(Snapshots) \ Named(t)) \cap Named(t) = {}
        OBVIOUS
      <3>2. UNCHANGED <<file, pointer>>
        BY <1>3 DEF CollectManifests
      <3> HIDE DEF t
      <3> QED
        BY <1>1, <2>2, <3>1, <3>2
    <2> QED
      BY <1>3, <2>1, <2>2 DEF CollectManifests
  <1>5. CASE CollectBlobs(w)
    <2>1. (Present(Blobs) \ Named(t)) \cap Named(t) = {}
      OBVIOUS
    <2>2. /\ Set(w, [window[w] EXCEPT !.pc = "blobs", !.todo = Present(Blobs) \ Named(t)])
          /\ UNCHANGED <<file, pointer>>
      BY <1>5 DEF CollectBlobs
    <2> HIDE DEF t
    <2> QED
      BY <1>1, <2>1, <2>2
  <1>6. CASE Collected(w)
    BY <1>2, <1>6 DEF Collected
  <1>4. ASSUME NEW f \in Files, Delete(w, f)
        PROVE  PointersAreBacked' /\ WindowOK(w)'
    <2>1. /\ window[w].pc \in {"manifests", "blobs"} /\ f \in window[w].todo
          /\ window'[w].pc = window[w].pc /\ window'[w].todo = window[w].todo \ {f}
          /\ window'[w].target = t /\ window'[w].lastValid = window[w].lastValid
          /\ pointer' = pointer /\ \A g \in Files \ {f} : file'[g] = file[g]
      BY <1>4, <1>w DEF Delete, Set, TypeOK, Window
    <2>2. f \notin Named(t) /\ window[w].todo \cap Named(t) = {}
      BY <1>w, <2>1 DEF WindowOK
    <2>3. Named(t) \subseteq Files
      BY <1>w, NamedFiles DEF Window
    <2>4. PointersAreBacked'
      BY <1>t, <1>w, <2>1, <2>2, <2>3 DEF PointersAreBacked
    <2>5. There(FilesOf(window[w].lastValid))'
      BY <1>t, <2>1, <2>2, <2>3 DEF There, Named
    <2> QED
      BY <1>t, <2>1, <2>2, <2>4, <2>5 DEF WindowOK, Repairing, Collecting, Saving
  <1> QED
    BY <1>3, <1>4, <1>5, <1>6

LEMMA FailureSteps ==
    ASSUME StorageInv, NEW w \in Windows, Throw(w) \/ Crash(w)
    PROVE  PointersAreBacked' /\ WindowOK(w)'
  <1>w. window[w] \in Window /\ WindowOK(w) /\ TypeOK /\ PointersAreBacked
    BY DEF StorageInv, TypeOK, WindowInv
  <1>1. CASE Throw(w)
    <2>1. /\ window'[w].pc = "idle" /\ window'[w].lastValid = window[w].lastValid
          /\ UNCHANGED file
      BY <1>1, <1>w DEF Throw, Goto, Set, TypeOK, Window
    <2>2. There(FilesOf(window[w].lastValid))'
      BY <1>w, <2>1 DEF There, WindowOK
    <2>3. CASE UNCHANGED pointer
      BY <1>w, <2>1, <2>2, <2>3, RestingOK DEF PointersAreBacked
    <2>4. CASE /\ window[w].pc \in {"primary", "repairPrimary"}
               /\ pointer' = [pointer EXCEPT !["current.json"] = window[w].target]
      <3>1. There(Named(window[w].target))
        BY <1>w, <2>4 DEF WindowOK, Repairing
      <3>2. \A f \in PointerFiles : pointer'[f] \in {pointer[f], window[w].target}
        BY <1>w, <2>4 DEF TypeOK
      <3>3. PointersAreBacked'
        BY <1>w, <2>1, <3>1, <3>2 DEF PointersAreBacked, There
      <3> QED
        BY <2>1, <2>2, <3>3, RestingOK
    <2> QED
      BY <1>1, <2>3, <2>4 DEF Throw
  <1>2. CASE Crash(w)
    <2>1. /\ window'[w].pc = "closed" /\ window'[w].lastValid = None
          /\ UNCHANGED <<file, pointer>>
      BY <1>2, <1>w DEF Crash, Set, TypeOK, Closed
    <2>2. There(FilesOf(window[w].lastValid))'
      BY <2>1, NamedFiles DEF There
    <2>3. PointersAreBacked'
      BY <1>w, <2>1 DEF PointersAreBacked
    <2> QED
      BY <2>1, <2>2, <2>3, RestingOK
  <1> QED
    BY <1>1, <1>2
LEMMA DamageSteps ==
    ASSUME StorageInv,
           (\E f \in Files : DamageFile(f)) \/ (\E f \in PointerFiles : DamagePointer(f))
    PROVE  PointersAreBacked' /\ WindowInv'
  <1>w. TypeOK /\ PointersAreBacked /\ WindowInv
    BY DEF StorageInv
  <1>1. Resting /\ UNCHANGED window
    BY DEF DamageFile, DamagePointer, Found
  <1>2. \A f \in Files : file[f] # "absent" => file'[f] # "absent"
    BY <1>w DEF DamageFile, DamagePointer, Found, TypeOK
  <1>3. WindowInv'
    <2> SUFFICES ASSUME NEW w \in Windows
                 PROVE  WindowOK(w)'
      BY DEF WindowInv
    <2>1. FilesOf(window[w].lastValid) \subseteq Files /\ There(FilesOf(window[w].lastValid))
      BY <1>w, NamedFiles DEF TypeOK, Window, WindowInv, WindowOK
    <2>2. There(FilesOf(window[w].lastValid))'
      BY <1>1, <1>2, <2>1 DEF There
    <2> QED
      BY <1>1, <2>2, RestingOK DEF Resting
  <1>4. ASSUME NEW f \in Files, DamageFile(f)
        PROVE  PointersAreBacked'
    BY <1>2, <1>4, <1>w, BackedStep DEF DamageFile
  <1>5. ASSUME NEW f \in PointerFiles, DamagePointer(f)
        PROVE  PointersAreBacked'
    <2>1. \A g \in PointerFiles : /\ pointer'[g].current = pointer[g].current
                                  /\ pointer'[g].previous = pointer[g].previous
      BY <1>5, <1>w DEF DamagePointer, TypeOK, StoragePointer
    <2>2. \A g \in PointerFiles : Named(pointer'[g]) = Named(pointer[g])
      BY <2>1 DEF Named
    <2> QED
      BY <1>5, <1>w, <2>2 DEF DamagePointer, PointersAreBacked
  <1> QED
    BY <1>3, <1>4, <1>5

-----------------------------------------------------------------------------
(* Without damage. *)

\* A target a window is about to write.
LEMMA TargetWritten ==
    ASSUME StorageInv, NEW w \in Windows,
           WriteBackup(w) \/ WritePrimary(w) \/ Throw(w)
    PROVE  \A f \in PointerFiles :
              \/ pointer'[f] = pointer[f]
              \/ /\ pointer'[f] = window[w].target
                 /\ window[w].target.state = "whole" /\ window[w].target.current # None
  <1>1. WindowOK(w) /\ TypeOK
    BY DEF StorageInv, WindowInv
  <1> QED
    BY <1>1 DEF WriteBackup, WritePrimary, Throw, WindowOK, Repairing, TypeOK

\* What is read while nothing is damaged.
Newest == IF pointer["current.json"].state = "whole" THEN pointer["current.json"].current
          ELSE IF pointer["current.backup.json"].state = "whole"
          THEN pointer["current.backup.json"].current
          ELSE None

ReadsNewest == damage.found = 0 => Loaded = Newest

LEMMA UndamagedRead ==
    StorageInv /\ damage.found = 0 =>
       /\ Loaded = Newest
       /\ ReadPointer.state # "absent" => ReadPointer.state = "whole" /\ Readable(ReadPointer.current)
  <1> SUFFICES ASSUME StorageInv, damage.found = 0
               PROVE  /\ Loaded = Newest
                      /\ ReadPointer.state # "absent" =>
                            ReadPointer.state = "whole" /\ Readable(ReadPointer.current)
    OBVIOUS
  <1>1. /\ TypeOK /\ PointersAreBacked
        /\ \A f \in PointerFiles : pointer[f].state = "whole" => pointer[f].current # None
        /\ \A f \in Files : file[f] # "damaged"
        /\ \A f \in PointerFiles : pointer[f].state # "damaged"
    BY DEF StorageInv, UndamagedInv
  <1>2. PICK f \in PointerFiles : ReadPointer = pointer[f]
    BY <1>1, PointerRead
  <1>3. ReadPointer \in StoragePointer
    BY <1>1, PointerRead
  <1>4. ASSUME ReadPointer.state # "absent"
        PROVE  ReadPointer.state = "whole" /\ Readable(ReadPointer.current)
    <2>1. ReadPointer.state = "whole" /\ ReadPointer.current # None
      BY <1>1, <1>2, <1>3, <1>4 DEF StoragePointer, Condition
    <2>2. FilesOf(ReadPointer.current) \subseteq Files
      BY <1>3, NamedFiles
    <2>3. There(FilesOf(ReadPointer.current))
      BY <1>1, <1>2 DEF PointersAreBacked, Named, There
    <2> QED
      BY <1>1, <2>1, <2>2, <2>3 DEF Readable, There, TypeOK, Condition
  <1>5. Loaded = IF ReadPointer.state = "absent" THEN None ELSE ReadPointer.current
    BY <1>4 DEF Loaded
  <1>6. /\ pointer["current.json"].state \in {"absent", "whole"}
        /\ pointer["current.backup.json"].state \in {"absent", "whole"}
    BY <1>1 DEF TypeOK, StoragePointer, Condition, PointerFiles
  <1> QED
    BY <1>4, <1>5, <1>6 DEF Newest, ReadPointer

LEMMA NoDamage ==
    ASSUME TypeOK, [Next]_vars, damage'.found = 0
    PROVE  /\ damage.found = 0
           /\ \A f \in Files : ~DamageFile(f)
           /\ \A f \in PointerFiles : ~DamagePointer(f)
  <1>2. \A f \in Files : ~DamageFile(f)
    BY DamageFound, FoundIs
  <1>3. \A f \in PointerFiles : ~DamagePointer(f)
    BY DamageFound, FoundIs
  <1>4. UNCHANGED damage
    BY <1>2, <1>3 DEF Next, Load, Save, WriteBlob, WriteManifest, ChoosePointer, WriteBackup,
       WritePrimary, CollectManifests, CollectBlobs, Collected, Delete, Throw, Crash, vars
  <1> QED
    BY <1>2, <1>3, <1>4

LEMMA UndamagedStep ==
    ASSUME StorageInv, [Next]_vars
    PROVE  UndamagedInv'
  <1>w. TypeOK /\ UndamagedInv /\ PointersAreBacked
    BY DEF StorageInv
  <1>p. \A f \in PointerFiles : pointer'[f].state = "whole" => pointer'[f].current # None
    <2>1. ASSUME UNCHANGED pointer
          PROVE  \A f \in PointerFiles : pointer'[f].state = "whole" => pointer'[f].current # None
      BY <1>w, <2>1 DEF UndamagedInv
    <2>2. ASSUME NEW w \in Windows, WriteBackup(w) \/ WritePrimary(w) \/ Throw(w)
          PROVE  \A f \in PointerFiles : pointer'[f].state = "whole" => pointer'[f].current # None
      BY <1>w, <2>2, TargetWritten DEF UndamagedInv
    <2>3. ASSUME NEW f \in PointerFiles, DamagePointer(f)
          PROVE  \A g \in PointerFiles : pointer'[g].state = "whole" => pointer'[g].current # None
      BY <1>w, <2>3 DEF UndamagedInv, DamagePointer, TypeOK, StoragePointer
    <2>4. CASE UNCHANGED vars
      BY <2>1, <2>4 DEF vars
    <2> QED
      BY <2>1, <2>2, <2>3, <2>4 DEF Next, Load, Save, WriteBlob, WriteManifest, ChoosePointer,
         CollectManifests, CollectBlobs, Collected, Delete, Crash, DamageFile
  <1>d. ASSUME damage'.found = 0
        PROVE  /\ damage.found = 0
               /\ \A f \in Files : ~DamageFile(f)
               /\ \A f \in PointerFiles : ~DamagePointer(f)
    BY <1>d, <1>w, NoDamage
  <1>f. ASSUME damage'.found = 0
        PROVE  \A f \in Files : file'[f] # "damaged"
    <2>1. \A f \in Files : file[f] # "damaged"
      BY <1>d, <1>f, <1>w DEF UndamagedInv
    <2>2. ASSUME NEW f, Write(f)
          PROVE  \A g \in Files : file'[g] # "damaged"
      BY <1>w, <2>1, <2>2 DEF Write, TypeOK
    <2>3. ASSUME NEW w \in Windows, NEW f \in Files, Delete(w, f)
          PROVE  \A g \in Files : file'[g] # "damaged"
      BY <1>w, <2>1, <2>3 DEF Delete, TypeOK
    <2>4. ASSUME UNCHANGED file
          PROVE  \A g \in Files : file'[g] # "damaged"
      BY <2>1, <2>4
    <2>5. CASE UNCHANGED vars
      BY <2>4, <2>5 DEF vars
    <2> QED
      BY <1>d, <1>f, <2>2, <2>3, <2>4, <2>5 DEF Next, Load, Save, WriteBlob, WriteManifest,
         ChoosePointer, WriteBackup, WritePrimary, CollectManifests, CollectBlobs, Collected,
         Throw, Crash
  <1>q. ASSUME damage'.found = 0
        PROVE  \A f \in PointerFiles : pointer'[f].state # "damaged"
    <2>1. \A f \in PointerFiles : pointer[f].state # "damaged"
      BY <1>d, <1>q, <1>w DEF UndamagedInv
    <2>2. ASSUME NEW w \in Windows, WriteBackup(w) \/ WritePrimary(w) \/ Throw(w)
          PROVE  \A f \in PointerFiles : pointer'[f].state # "damaged"
      BY <2>1, <2>2, TargetWritten
    <2>3. ASSUME UNCHANGED pointer
          PROVE  \A f \in PointerFiles : pointer'[f].state # "damaged"
      BY <2>1, <2>3
    <2>4. CASE UNCHANGED vars
      BY <2>3, <2>4 DEF vars
    <2> QED
      BY <1>d, <1>q, <2>2, <2>3, <2>4 DEF Next, Load, Save, WriteBlob, WriteManifest,
         ChoosePointer, CollectManifests, CollectBlobs, Collected, Delete, Crash
  <1>r. ASSUME damage'.found = 0, NEW v \in Windows
        PROVE  ~Repairing(v)'
    <2>1. ~Repairing(v) /\ damage.found = 0
      BY <1>d, <1>r, <1>w DEF UndamagedInv
    <2>2. UNCHANGED window => ~Repairing(v)'
      BY <2>1 DEF Repairing
    <2>3. ASSUME NEW w \in Windows, NEW r, Set(w, r), r.pc \notin {"repairBackup", "repairPrimary"}
          PROVE  ~Repairing(v)'
      BY <1>w, <2>1, <2>3 DEF Set, Repairing, TypeOK
    <2>4. \A w \in Windows, pc \in PCs : [window[w] EXCEPT !.pc = pc].pc = pc
      BY <1>w DEF TypeOK, Window
    <2>5. ASSUME NEW w \in Windows, NEW pc \in PCs \ {"repairBackup", "repairPrimary"}, Goto(w, pc)
          PROVE  ~Repairing(v)'
      BY <2>3, <2>4, <2>5 DEF Goto
    <2>n. \A w \in Windows : window[w] \in Window /\ ~Repairing(w)
      BY <1>d, <1>r, <1>w DEF UndamagedInv, TypeOK
    <2>6. ASSUME NEW w \in Windows, Load(w)
          PROVE  ~Repairing(v)'
      <3>1. ReadPointer.state # "absent" => ReadPointer.state = "whole" /\ Readable(ReadPointer.current)
        BY <2>1, UndamagedRead
      <3>2. CASE Goto(w, "idle")
        BY <2>5, <3>2 DEF PCs
      <3>3. CASE Set(w, [window[w] EXCEPT !.pc = "idle", !.lastValid = ReadPointer.current])
        <4>1. [window[w] EXCEPT !.pc = "idle", !.lastValid = ReadPointer.current].pc = "idle"
          BY <2>n DEF Window
        <4> QED
          BY <2>3, <3>3, <4>1
      <3> QED
        BY <2>6, <3>1, <3>2, <3>3 DEF Load
    <2>7. ASSUME NEW w \in Windows,
                 \/ \E s \in Snapshots : Save(w, s)
                 \/ \E b \in Blobs : WriteBlob(w, b)
                 \/ WriteManifest(w) \/ ChoosePointer(w) \/ WriteBackup(w) \/ WritePrimary(w)
                 \/ CollectManifests(w) \/ CollectBlobs(w) \/ Collected(w)
                 \/ \E f \in Files : Delete(w, f)
                 \/ Throw(w) \/ Crash(w)
          PROVE  ~Repairing(v)'
      <3>1. window'[w].pc \notin {"repairBackup", "repairPrimary"}
        <4>1. ASSUME NEW s \in Snapshots, Save(w, s)
              PROVE  window'[w].pc = "files"
          BY <1>w, <2>n, <4>1 DEF Save, Set, TypeOK, Window
        <4>2. CASE \E b \in Blobs : WriteBlob(w, b)
          BY <1>w, <2>n, <4>2 DEF WriteBlob, Set, TypeOK, Window
        <4>3. CASE WriteManifest(w)
          BY <1>w, <2>n, <4>3 DEF WriteManifest, Goto, Set, TypeOK, Window
        <4>4. CASE ChoosePointer(w)
          BY <1>w, <2>n, <4>4 DEF ChoosePointer, Set, TypeOK, Window
        <4>5. CASE WriteBackup(w) \/ WritePrimary(w)
          <5>1. CASE WritePrimary(w)
            <6>1. window[w].pc = "primary"
              BY <2>n, <5>1 DEF WritePrimary, Repairing
            <6> QED
              BY <1>w, <5>1, <6>1, PrimaryTaken
          <5>2. CASE WriteBackup(w)
            <6>1. Goto(w, "primary")
              BY <2>n, <5>2 DEF WriteBackup, Repairing
            <6> QED
              BY <1>w, <2>n, <6>1 DEF Goto, Set, TypeOK, Window
          <5> QED
            BY <4>5, <5>1, <5>2
        <4>6. CASE CollectManifests(w)
          <5> DEFINE todo == Present(Snapshots) \ Named(window[w].target)
          <5>1. \/ Set(w, [window[w] EXCEPT !.pc = "manifests", !.todo = todo])
                \/ Goto(w, "idle")
            BY <4>6 DEF CollectManifests
          <5> HIDE DEF todo
          <5>2. CASE Set(w, [window[w] EXCEPT !.pc = "manifests", !.todo = todo])
            BY <1>w, <2>n, <5>2 DEF Set, TypeOK, Window
          <5>3. CASE Goto(w, "idle")
            BY <1>w, <2>n, <5>3 DEF Goto, Set, TypeOK, Window
          <5> QED
            BY <5>1, <5>2, <5>3
        <4>7. CASE CollectBlobs(w)
          BY <1>w, <2>n, <4>7 DEF CollectBlobs, Set, TypeOK, Window
        <4>8. CASE Collected(w)
          BY <1>w, <2>n, <4>8 DEF Collected, Goto, Set, TypeOK, Window
        <4>9. CASE \E f \in Files : Delete(w, f)
          BY <1>w, <2>n, <4>9 DEF Delete, Set, TypeOK, Window
        <4>10. CASE Throw(w) \/ Crash(w)
          BY <1>w, <2>n, <4>10 DEF Throw, Crash, Closed, Goto, Set, TypeOK, Window
        <4> QED
          BY <2>7, <4>1, <4>2, <4>3, <4>4, <4>5, <4>6, <4>7, <4>8, <4>9, <4>10
      <3>2. \A u \in Windows \ {w} : window'[u] = window[u]
        BY <1>w, <2>7 DEF Save, WriteBlob, WriteManifest, ChoosePointer, WriteBackup,
           WritePrimary, CollectManifests, CollectBlobs, Collected, Delete, Throw, Crash, Set,
           Goto, TypeOK
      <3> QED
        BY <2>1, <3>1, <3>2 DEF Repairing
    <2>8. CASE UNCHANGED vars
      BY <2>2, <2>8 DEF vars
    <2> QED
      BY <1>d, <1>r, <2>6, <2>7, <2>8 DEF Next
  <1> QED
    BY <1>p, <1>f, <1>q, <1>r DEF UndamagedInv

-----------------------------------------------------------------------------
(* The invariant. *)

LEMMA StorageStep ==
    ASSUME Alone, StorageInv, [Next]_vars
    PROVE  StorageInv'
  <1>1. TypeOK'
    BY StorageTypes DEF StorageInv
  <1>2. UndamagedInv'
    BY UndamagedStep
  <1>3. PointersAreBacked' /\ WindowInv'
    <2>1. ASSUME NEW w \in Windows, PointersAreBacked' /\ WindowOK(w)'
          PROVE  PointersAreBacked' /\ WindowInv'
      BY <2>1 DEF Alone, WindowInv
    <2>2. CASE UNCHANGED vars
      BY <2>2 DEF vars, StorageInv, PointersAreBacked, WindowInv, WindowOK, There, Saving,
         Repairing, Collecting
    <2> QED
      BY <2>1, <2>2, LoadStep, SaveSteps, PointerSteps, CollectSteps, FailureSteps, DamageSteps
         DEF Next
  <1> QED
    BY <1>1, <1>2, <1>3 DEF StorageInv

\* Under one window, the save that runs is that window's.
LEMMA OneSave ==
    ASSUME NEW w \in Windows
    PROVE  /\ Alone => BeingSaved = IF Saving(w) THEN window[w].snapshot ELSE None
           /\ Alone => BeingSaved' = IF Saving(w)' THEN window'[w].snapshot ELSE None
  <1>1. ASSUME Alone
        PROVE  BeingSaved = IF Saving(w) THEN window[w].snapshot ELSE None
    <2>1. CASE Saving(w)
      <3> DEFINE v == CHOOSE v \in Windows : Saving(v)
      <3>1. v \in Windows
        BY <2>1
      <3>2. v = w
        BY <1>1, <3>1 DEF Alone
      <3> QED
        BY <2>1, <3>2 DEF BeingSaved
    <2>2. CASE ~Saving(w)
      BY <1>1, <2>2 DEF BeingSaved, Alone
    <2> QED
      BY <2>1, <2>2
  <1>2. ASSUME Alone
        PROVE  BeingSaved' = IF Saving(w)' THEN window'[w].snapshot ELSE None
    <2>1. CASE Saving(w)'
      <3> DEFINE v == CHOOSE v \in Windows : Saving(v)'
      <3>1. v \in Windows
        BY <2>1
      <3>2. v = w
        BY <1>2, <3>1 DEF Alone
      <3> QED
        BY <2>1, <3>2 DEF BeingSaved
    <2>2. CASE ~Saving(w)'
      BY <1>2, <2>2 DEF BeingSaved, Alone
    <2> QED
      BY <2>1, <2>2
  <1> QED
    BY <1>1, <1>2

\* For one window the storage keeps what its pointers name, whatever is saved,
\* interrupted, damaged and collected.
THEOREM StorageInvariant ==
    ASSUME Alone
    PROVE  Spec => []StorageInv
  <1>1. StorageInv /\ [Next]_vars => StorageInv'
    BY StorageStep
  <1> QED
    BY <1>1, StorageInit, PTL DEF Spec

\* Whatever one window saves and collects, and however its saves end, no file
\* of a generation that a pointer file names is missing.
THEOREM PointersStayBacked ==
    ASSUME Alone
    PROVE  Spec => []PointersAreBacked
  <1>1. StorageInv => PointersAreBacked
    BY DEF StorageInv
  <1> QED
    BY <1>1, StorageInvariant, PTL

-----------------------------------------------------------------------------
(* The refinement. *)

LEMMA StoreStep ==
    ASSUME Alone, StorageInv, ReadsNewest', [Next]_vars, damage'.found = 0
    PROVE  Store!Next \/ UNCHANGED <<Loaded, BeingSaved>>
  <1> USE StorageAssumption
  <1>w. TypeOK
    BY DEF StorageInv
  <1>d. /\ damage.found = 0
        /\ \A f \in Files : ~DamageFile(f)
        /\ \A f \in PointerFiles : ~DamagePointer(f)
    BY <1>w, NoDamage
  <1>l. Loaded = Newest
    BY <1>d, UndamagedRead
  <1>m. Loaded' = Newest'
    BY DEF ReadsNewest
  <1>n. UNCHANGED pointer => UNCHANGED Loaded
    BY <1>l, <1>m DEF Newest
  <1>1. ASSUME NEW w \in Windows,
               \/ Load(w) \/ \E s \in Snapshots : Save(w, s)
               \/ \E b \in Blobs : WriteBlob(w, b)
               \/ WriteManifest(w) \/ ChoosePointer(w) \/ WriteBackup(w) \/ WritePrimary(w)
               \/ CollectManifests(w) \/ CollectBlobs(w) \/ Collected(w)
               \/ \E f \in Files : Delete(w, f)
               \/ Throw(w) \/ Crash(w)
        PROVE  Store!Next \/ UNCHANGED <<Loaded, BeingSaved>>
    <2>w. window[w] \in Window /\ WindowOK(w) /\ ~Repairing(w)
      BY <1>d, <1>w DEF StorageInv, UndamagedInv, WindowInv, TypeOK
    <2>b. /\ BeingSaved = IF Saving(w) THEN window[w].snapshot ELSE None
          /\ BeingSaved' = IF Saving(w)' THEN window'[w].snapshot ELSE None
      BY OneSave
    <2>s. Saving(w) => window[w].snapshot # None
      BY <2>w DEF WindowOK
    <2>g. ASSUME NEW pc \in PCs, Goto(w, pc)
          PROVE  /\ Saving(w)' <=> pc \in {"files", "pointer", "backup", "primary"}
                 /\ window'[w].snapshot = window[w].snapshot
      BY <1>w, <2>w, <2>g DEF Goto, Set, TypeOK, Window, Saving
    <2>i. ASSUME UNCHANGED pointer, ~Saving(w), ~Saving(w)'
          PROVE  UNCHANGED <<Loaded, BeingSaved>>
      BY <1>n, <2>b, <2>i
    <2>j. ASSUME UNCHANGED pointer, Saving(w), Saving(w)', window'[w].snapshot = window[w].snapshot
          PROVE  UNCHANGED <<Loaded, BeingSaved>>
      BY <1>n, <2>b, <2>j
    <2>1. CASE Load(w)
      <3> DEFINE p == ReadPointer
      <3>1. /\ ~Saving(w) /\ UNCHANGED pointer
            /\ \/ Goto(w, "idle")
               \/ Set(w, [window[w] EXCEPT !.pc = "idle", !.lastValid = p.current])
               \/ Set(w, [window[w] EXCEPT !.pc = "repairBackup", !.lastValid = p.previous,
                                           !.target = Fallback(p)])
        BY <2>1 DEF Load, Saving
      <3> HIDE DEF p
      <3>2. CASE Goto(w, "idle")
        BY <2>g, <2>i, <3>1, <3>2 DEF PCs
      <3>3. CASE Set(w, [window[w] EXCEPT !.pc = "idle", !.lastValid = p.current])
        <4>1. ~Saving(w)'
          BY <1>w, <2>w, <3>3 DEF Set, TypeOK, Window, Saving
        <4> QED
          BY <2>i, <3>1, <4>1
      <3>4. CASE Set(w, [window[w] EXCEPT !.pc = "repairBackup", !.lastValid = p.previous,
                                          !.target = Fallback(p)])
        <4>1. ~Saving(w)'
          BY <1>w, <2>w, <3>4 DEF Set, TypeOK, Window, Saving
        <4> QED
          BY <2>i, <3>1, <4>1
      <3> QED
        BY <3>1, <3>2, <3>3, <3>4
    <2>2. ASSUME NEW s \in Snapshots, Save(w, s)
          PROVE  Store!Next
      <3>1. window'[w].pc = "files" /\ window'[w].snapshot = s /\ ~Saving(w) /\ UNCHANGED pointer
        BY <1>w, <2>2, <2>w DEF Save, Set, TypeOK, Window, Saving
      <3>2. BeingSaved = None /\ BeingSaved' = s /\ UNCHANGED Loaded
        BY <1>n, <2>b, <3>1 DEF Saving
      <3> QED
        BY <3>2 DEF Store!Next, Store!Begin
    <2>3. ASSUME NEW b \in Blobs, WriteBlob(w, b)
          PROVE  UNCHANGED <<Loaded, BeingSaved>>
      <3>1. /\ Saving(w) /\ Saving(w)' /\ window'[w].snapshot = window[w].snapshot
            /\ UNCHANGED pointer
        BY <1>w, <2>3, <2>w DEF WriteBlob, Set, TypeOK, Window, Saving
      <3> QED
        BY <2>j, <3>1
    <2>4. CASE WriteManifest(w)
      BY <2>4, <2>g, <2>j DEF WriteManifest, Saving, PCs
    <2>5. CASE ChoosePointer(w)
      <3>1. /\ Saving(w) /\ Saving(w)' /\ window'[w].snapshot = window[w].snapshot
            /\ UNCHANGED pointer
        BY <1>w, <2>5, <2>w DEF ChoosePointer, Set, TypeOK, Window, Saving
      <3> QED
        BY <2>j, <3>1
    <2>6. CASE WriteBackup(w)
      <3>1. /\ window[w].pc = "backup" /\ Saving(w) /\ Saving(w)'
            /\ window'[w].snapshot = window[w].snapshot
        BY <2>6, <2>g, <2>w DEF WriteBackup, Repairing, Saving, PCs
      <3>2. /\ window[w].target.state = "whole"
            /\ window[w].target.current = window[w].snapshot
        BY <2>w, <3>1 DEF WindowOK
      <3>3. /\ pointer'["current.backup.json"] = window[w].target
            /\ pointer'["current.json"] = pointer["current.json"]
        BY <1>w, <2>6 DEF WriteBackup, TypeOK, PointerFiles
      <3>4. Loaded' \in {Loaded, window[w].snapshot}
        BY <1>l, <1>m, <3>2, <3>3 DEF Newest
      <3>5. BeingSaved = window[w].snapshot /\ UNCHANGED BeingSaved /\ BeingSaved # None
        BY <2>b, <2>s, <3>1
      <3> QED
        BY <3>4, <3>5 DEF Store!Next, Store!TakeEffect
    <2>7. CASE WritePrimary(w)
      <3>0. window[w].pc = "primary"
        BY <2>7, <2>w DEF WritePrimary, Repairing
      <3>1. window[w].pc = "primary" /\ Saving(w) /\ window'[w].pc = "collect"
        BY <1>w, <2>7, <3>0, PrimaryTaken DEF Saving
      <3>2. /\ window[w].target.state = "whole"
            /\ window[w].target.current = window[w].snapshot
        BY <2>w, <3>1 DEF WindowOK
      <3>3. pointer'["current.json"] = window[w].target
        BY <1>w, <2>7 DEF WritePrimary, TypeOK, PointerFiles
      <3>4. Loaded' = window[w].snapshot
        BY <1>m, <3>2, <3>3 DEF Newest
      <3>5. BeingSaved = window[w].snapshot /\ BeingSaved # None /\ BeingSaved' = None
        BY <2>b, <2>s, <3>1 DEF Saving
      <3> QED
        BY <3>4, <3>5 DEF Store!Next, Store!Succeed
    <2>8. CASE CollectManifests(w)
      <3> DEFINE todo == Present(Snapshots) \ Named(window[w].target)
      <3>1. /\ window[w].pc = "collect" /\ UNCHANGED pointer
            /\ \/ Set(w, [window[w] EXCEPT !.pc = "manifests", !.todo = todo])
               \/ Goto(w, "idle")
        BY <2>8 DEF CollectManifests
      <3> HIDE DEF todo
      <3>2. ASSUME Set(w, [window[w] EXCEPT !.pc = "manifests", !.todo = todo])
            PROVE  ~Saving(w)'
        BY <1>w, <2>w, <3>2 DEF Set, TypeOK, Window, Saving
      <3>3. ASSUME Goto(w, "idle")
            PROVE  ~Saving(w)'
        BY <2>g, <3>3 DEF PCs
      <3> QED
        BY <2>i, <3>1, <3>2, <3>3 DEF Saving
    <2>9. CASE CollectBlobs(w)
      <3>1. window'[w].pc = "blobs" /\ ~Saving(w) /\ UNCHANGED pointer
        BY <1>w, <2>9, <2>w DEF CollectBlobs, Set, TypeOK, Window, Saving
      <3> QED
        BY <2>i, <3>1 DEF Saving
    <2>10. CASE Collected(w)
      BY <2>10, <2>g, <2>i DEF Collected, Saving, PCs
    <2>11. ASSUME NEW f \in Files, Delete(w, f)
           PROVE  UNCHANGED <<Loaded, BeingSaved>>
      <3>1. ~Saving(w) /\ ~Saving(w)' /\ UNCHANGED pointer
        BY <1>w, <2>11, <2>w DEF Delete, Set, TypeOK, Window, Saving
      <3> QED
        BY <2>i, <3>1
    <2>12. CASE Throw(w)
      <3>1. ~Saving(w)'
        BY <2>12, <2>g DEF Throw, PCs
      <3>2. CASE UNCHANGED pointer
        <4>1. UNCHANGED Loaded
          BY <1>n, <3>2
        <4> QED
          BY <2>b, <2>i, <2>s, <3>1, <3>2, <4>1 DEF Store!Next, Store!Fail
      <3>3. CASE /\ window[w].pc \in {"primary", "repairPrimary"}
                 /\ pointer' = [pointer EXCEPT !["current.json"] = window[w].target]
        <4>1. window[w].pc = "primary" /\ Saving(w)
          BY <2>w, <3>3 DEF Repairing, Saving
        <4>2. /\ window[w].target.state = "whole"
              /\ window[w].target.current = window[w].snapshot
          BY <2>w, <4>1 DEF WindowOK
        <4>3. Loaded' = window[w].snapshot
          BY <1>m, <1>w, <3>3, <4>2 DEF Newest, TypeOK, PointerFiles
        <4> QED
          BY <2>b, <2>s, <3>1, <4>1, <4>3 DEF Store!Next, Store!Fail
      <3> QED
        BY <2>12, <3>2, <3>3 DEF Throw
    <2>13. CASE Crash(w)
      <3>1. ~Saving(w)' /\ UNCHANGED pointer
        BY <1>w, <2>13 DEF Crash, Set, TypeOK, Closed, Saving
      <3>2. UNCHANGED Loaded
        BY <1>n, <3>1
      <3> QED
        BY <2>b, <2>i, <2>s, <3>1, <3>2 DEF Store!Next, Store!Fail
    <2> QED
      BY <1>1, <2>1, <2>2, <2>3, <2>4, <2>5, <2>6, <2>7, <2>8, <2>9, <2>10, <2>11, <2>12, <2>13
  <1>2. CASE UNCHANGED vars
    BY <1>2, <1>n DEF vars, BeingSaved, Saving
  <1> QED
    BY <1>1, <1>2, <1>d DEF Next

\* Until a file is damaged, the file operations of one window's saves are
\* together what SnapshotStore promises: load returns the last snapshot whose
\* save succeeded, or the one an interrupted save was given.
THEOREM StorageImplementsStore ==
    ASSUME Alone
    PROVE  Spec => ImplementsStore
  <1>1. Init => Store!Init
    <2>1. ASSUME Init
          PROVE  Loaded = None /\ BeingSaved = None
      BY <2>1 DEF Init, Loaded, ReadPointer, PointerFiles, NoPointer, BeingSaved, Saving, Closed
    <2> QED
      BY <2>1 DEF Store!Init
  <1>2. StorageInv => ReadsNewest
    BY UndamagedRead DEF ReadsNewest
  <1>3. /\ StorageInv /\ ReadsNewest' /\ [Next]_vars
        => [damage'.found = 0 => Store!Next \/ UNCHANGED <<Loaded, BeingSaved>>]_vars
    BY StoreStep
  <1> QED
    BY <1>1, <1>2, <1>3, StorageInvariant, PTL DEF Spec, ImplementsStore
-----------------------------------------------------------------------------
(* One damaged file. *)

Whole(S) == \A f \in S : file[f] = "whole"

\* load finds a generation through this pointer, or that there is none.
Served(p) ==
    /\ p.state # "damaged"
    /\ p.state = "whole" => Readable(p.current) \/ Readable(p.previous)

\* What a window has written of its snapshot is whole, and so is what it is
\* about to make the current generation.
Complete(w) ==
    /\ window[w].pc = "files" => Whole(Content[window[w].snapshot] \ window[w].todo)
    /\ window[w].pc = "pointer" => Readable(window[w].snapshot)
    /\ window[w].pc \in {"backup", "primary"} \/ Repairing(w) =>
          Readable(window[w].target.current)

LoadInv == ~reused /\ ~damage.fatal => Served(ReadPointer) /\ \A w \in Windows : Complete(w)

LEMMA ServedLoads ==
    ASSUME TypeOK, Served(ReadPointer)
    PROVE  Loaded # "error"
  <1>1. ReadPointer \in StoragePointer
    BY PointerRead
  <1>2. \A g \in MaybeSnapshot : g # "error"
    BY StorageAssumption DEF MaybeSnapshot
  <1>3. /\ ReadPointer.state \in Condition
        /\ ReadPointer.current # "error" /\ ReadPointer.previous # "error" /\ None # "error"
    BY <1>1, <1>2, NamedFiles DEF MaybeSnapshot
  <1> QED
    BY <1>3 DEF Served, Loaded, Condition

\* The pointers stay, and the files of the one that is read.
LEMMA StaysServed ==
    ASSUME Served(ReadPointer), UNCHANGED pointer,
           \A f \in Named(ReadPointer) : file[f] = "whole" => file'[f] = "whole"
    PROVE  Served(ReadPointer)'
  <1>1. ReadPointer' = ReadPointer
    BY DEF ReadPointer
  <1>2. \A g \in {ReadPointer.current, ReadPointer.previous} : Readable(g) => Readable(g)'
    BY DEF Readable, Named
  <1> QED
    BY <1>1, <1>2 DEF Served

\* A pointer to a generation that can be read takes the place of one of the two.
LEMMA BecomesServed ==
    ASSUME TypeOK, Served(ReadPointer), NEW f \in PointerFiles, NEW t,
           t.state = "whole", Readable(t.current),
           pointer' = [pointer EXCEPT ![f] = t], UNCHANGED file
    PROVE  Served(ReadPointer)'
  <1>1. /\ pointer'[f] = t
        /\ \A g \in PointerFiles \ {f} : pointer'[g] = pointer[g]
    BY DEF TypeOK
  <1>2. ReadPointer' = t \/ ReadPointer' = ReadPointer
    BY <1>1 DEF ReadPointer, PointerFiles
  <1>3. \A g : Readable(g)' <=> Readable(g)
    BY DEF Readable
  <1> QED
    BY <1>2, <1>3 DEF Served

\* A step of a window that deletes nothing and leaves the pointers alone.
LEMMA FilesStay ==
    ASSUME TypeOK, UNCHANGED <<file, pointer>>
    PROVE  /\ \A g : Readable(g)' <=> Readable(g)
           /\ Served(ReadPointer) => Served(ReadPointer)'
  BY StaysServed DEF Readable

LEMMA WentTo ==
    ASSUME TypeOK, NEW w \in Windows, NEW pc, Goto(w, pc)
    PROVE  /\ window'[w].pc = pc /\ window'[w].snapshot = window[w].snapshot
           /\ window'[w].target = window[w].target
  BY DEF TypeOK, Goto, Set, Window

LEMMA RestingComplete ==
    ASSUME NEW w \in Windows,
           window'[w].pc \in {"idle", "closed", "collect", "manifests", "blobs"}
    PROVE  Complete(w)'
  BY DEF Complete, Repairing

LEMMA WriteFileWhole ==
    ASSUME TypeOK, NEW f \in Files, Write(f), ~reused'
    PROVE  /\ ~reused /\ file'[f] = "whole"
           /\ \A g \in Files : file[g] = "whole" => file'[g] = "whole"
  BY DEF TypeOK, Write, Condition

\* While one file at most is damaged, and not one that every generation needs,
\* every step leaves load a generation.
LEMMA LoadableStep ==
    ASSUME Alone, MaxDamage <= 1, StorageInv, LoadInv, [Next]_vars
    PROVE  LoadInv'
  <1> SUFFICES ASSUME ~reused', ~damage'.fatal
               PROVE  Served(ReadPointer)' /\ \A w \in Windows : Complete(w)'
    BY DEF LoadInv
  <1> USE StorageAssumption
  <1>a. /\ TypeOK /\ WindowInv /\ PointersAreBacked
        /\ \A w \in Windows : window[w] \in Window /\ WindowOK(w)
    BY DEF StorageInv, TypeOK, WindowInv
  <1>b. ReadPointer \in StoragePointer /\ Named(ReadPointer) \subseteq Files
    BY <1>a, PointerRead, NamedFiles
  <1>c. ~reused /\ ~damage.fatal
    <2>1. ~reused
      BY DEF Next, Load, Save, WriteBlob, WriteManifest, Write, ChoosePointer, WriteBackup,
         WritePrimary, CollectManifests, CollectBlobs, Collected, Delete, Throw, Crash,
         DamageFile, DamagePointer, vars
    <2>2. ASSUME NEW f \in Files, DamageFile(f)
          PROVE  ~damage.fatal
      BY <1>a, <2>2, DamageFound, FoundIs
    <2>3. ASSUME NEW f \in PointerFiles, DamagePointer(f)
          PROVE  ~damage.fatal
      BY <1>a, <2>3, DamageFound, FoundIs
    <2>4. UNCHANGED damage \/ (\E f \in Files : DamageFile(f))
          \/ (\E f \in PointerFiles : DamagePointer(f))
      BY DEF Next, Load, Save, WriteBlob, WriteManifest, ChoosePointer, WriteBackup,
         WritePrimary, CollectManifests, CollectBlobs, Collected, Delete, Throw, Crash, vars
    <2> QED
      BY <2>1, <2>2, <2>3, <2>4
  <1>d. Served(ReadPointer) /\ \A w \in Windows : Complete(w)
    BY <1>c DEF LoadInv
  <1>e. ASSUME NEW w \in Windows, Served(ReadPointer)', Complete(w)'
        PROVE  Served(ReadPointer)' /\ \A v \in Windows : Complete(v)'
    BY <1>e DEF Alone
  <1> DEFINE Kept == Served(ReadPointer)' /\ \A v \in Windows : Complete(v)'
  <1> SUFFICES Kept
    OBVIOUS
  <1> HIDE DEF Kept
  \* A step that touches no file, and ends where nothing is being written.
  <1>f. ASSUME NEW w \in Windows, UNCHANGED <<file, pointer>>,
               window'[w].pc \in {"idle", "closed", "collect", "manifests", "blobs"}
        PROVE  Kept
    BY <1>a, <1>d, <1>e, <1>f, FilesStay, RestingComplete DEF Kept
  <1>1. ASSUME NEW w \in Windows, Load(w)
        PROVE  Kept
    <2>1. UNCHANGED <<file, pointer>>
      BY <1>1 DEF Load
    <2>2. CASE Goto(w, "idle")
      BY <1>a, <1>f, <2>1, <2>2, WentTo
    <2>4. CASE Set(w, [window[w] EXCEPT !.pc = "idle", !.lastValid = ReadPointer.current])
      <3>1. window'[w].pc = "idle"
        BY <1>a, <2>4 DEF Set, TypeOK, Window
      <3> QED
        BY <1>f, <2>1, <3>1
    <2>3. CASE /\ Readable(ReadPointer.previous)
               /\ Set(w, [window[w] EXCEPT !.pc = "repairBackup",
                             !.lastValid = ReadPointer.previous,
                             !.target = Fallback(ReadPointer)])
      <3>1. /\ window'[w].pc = "repairBackup"
            /\ window'[w].target.current = ReadPointer.previous
        BY <1>a, <2>3 DEF Set, TypeOK, Window, Fallback
      <3>2. Complete(w)'
        BY <1>a, <2>1, <2>3, <3>1, FilesStay DEF Complete, Repairing
      <3> QED
        BY <1>a, <1>d, <1>e, <2>1, <3>2, FilesStay DEF Kept
    <2> QED
      BY <1>1, <2>2, <2>3, <2>4 DEF Load
  <1>2. ASSUME NEW w \in Windows, NEW s \in Snapshots, Save(w, s)
        PROVE  Kept
    <2>1. /\ window'[w].pc = "files" /\ window'[w].snapshot = s
          /\ window'[w].todo = Content[s] /\ UNCHANGED <<file, pointer>>
      BY <1>2, <1>a DEF Save, Set, TypeOK, Window
    <2>2. Complete(w)'
      BY <2>1 DEF Complete, Whole, Repairing
    <2> QED
      BY <1>a, <1>d, <1>e, <2>1, <2>2, FilesStay DEF Kept
  <1>w. ASSUME NEW f \in Files, Write(f), UNCHANGED pointer
        PROVE  /\ Served(ReadPointer)' /\ file'[f] = "whole"
               /\ \A g \in Files : file[g] = "whole" => file'[g] = "whole"
    BY <1>a, <1>b, <1>d, <1>w, StaysServed, WriteFileWhole
  <1>3. ASSUME NEW w \in Windows, NEW b \in Blobs, WriteBlob(w, b)
        PROVE  Kept
    <2>1. /\ window[w].pc = "files" /\ window'[w].pc = "files"
          /\ window'[w].snapshot = window[w].snapshot
          /\ window'[w].todo = window[w].todo \ {b}
          /\ Write(b) /\ UNCHANGED pointer /\ b \in Files
      BY <1>3, <1>a DEF WriteBlob, Set, TypeOK, Window, Files
    <2>2. Content[window[w].snapshot] \subseteq Files
      BY <1>a, <2>1 DEF WindowOK, Saving, Window, MaybeSnapshot, Files
    <2>3. Whole(Content[window[w].snapshot] \ window[w].todo)
      BY <1>d, <2>1 DEF Complete
    <2>4. Whole(Content[window[w].snapshot] \ window[w].todo)'
      BY <1>w, <2>1, <2>2, <2>3 DEF Whole
    <2>5. Complete(w)'
      BY <2>1, <2>4 DEF Complete, Repairing
    <2> QED
      BY <1>e, <1>w, <2>1, <2>5 DEF Kept
  <1>4. ASSUME NEW w \in Windows, WriteManifest(w)
        PROVE  Kept
    <2> SUFFICES ASSUME NEW s, s = window[w].snapshot
                 PROVE  Kept
      OBVIOUS
    <2>1. /\ window[w].pc = "files" /\ window[w].todo = {}
          /\ window'[w].pc = "pointer" /\ window'[w].snapshot = s
          /\ Write(s) /\ UNCHANGED pointer
      BY <1>4, <1>a, WentTo DEF WriteManifest
    <2>2. s \in Snapshots /\ s # None
      BY <1>a, <2>1 DEF WindowOK, Saving, Window, MaybeSnapshot
    <2>3. s \in Files /\ Content[s] \subseteq Files /\ FilesOf(s) = {s} \cup Content[s]
      BY <2>2 DEF Files, FilesOf
    <2>4. Whole(Content[s])
      BY <1>d, <2>1 DEF Complete, Whole
    <2>5. Readable(s)'
      BY <1>w, <2>1, <2>2, <2>3, <2>4 DEF Readable, Whole
    <2>6. Complete(w)'
      BY <2>1, <2>5 DEF Complete, Repairing, Readable
    <2> QED
      BY <1>e, <1>w, <2>1, <2>3, <2>6 DEF Kept
  <1>5. ASSUME NEW w \in Windows, ChoosePointer(w)
        PROVE  Kept
    <2>1. /\ window[w].pc = "pointer" /\ window'[w].pc = "backup"
          /\ window'[w].target.current = window[w].snapshot
          /\ UNCHANGED <<file, pointer>>
      BY <1>5, <1>a DEF ChoosePointer, Set, TypeOK, Window
    <2>2. Complete(w)'
      BY <1>a, <1>d, <2>1, FilesStay DEF Complete, Repairing
    <2> QED
      BY <1>a, <1>d, <1>e, <2>1, <2>2, FilesStay DEF Kept
  \* The target is put in the place of a pointer.
  <1>p. ASSUME NEW w \in Windows, NEW f \in PointerFiles,
               window[w].pc \in {"backup", "primary"} \/ Repairing(w),
               pointer' = [pointer EXCEPT ![f] = window[w].target], UNCHANGED file
        PROVE  Served(ReadPointer)'
    <2>1. Readable(window[w].target.current) /\ window[w].target.state = "whole"
      BY <1>a, <1>d, <1>p DEF Complete, WindowOK
    <2> QED
      BY <1>a, <1>d, <1>p, <2>1, BecomesServed
  <1>6. ASSUME NEW w \in Windows, WriteBackup(w)
        PROVE  Kept
    <2>1. /\ window[w].pc \in {"backup", "repairBackup"}
          /\ window'[w].pc \in {"primary", "repairPrimary"}
          /\ window'[w].target = window[w].target
          /\ pointer' = [pointer EXCEPT !["current.backup.json"] = window[w].target]
          /\ UNCHANGED file
      BY <1>6, <1>a, WentTo DEF WriteBackup
    <2>2. Readable(window[w].target.current)
      BY <1>d, <2>1 DEF Complete, Repairing
    <2>3. Served(ReadPointer)'
      BY <1>p, <2>1 DEF PointerFiles, Repairing
    <2>4. Complete(w)'
      BY <2>1, <2>2 DEF Complete, Repairing, Readable
    <2> QED
      BY <1>e, <2>3, <2>4 DEF Kept
  <1>7. ASSUME NEW w \in Windows, WritePrimary(w)
        PROVE  Kept
    <2>1. /\ window[w].pc \in {"primary", "repairPrimary"}
          /\ window'[w].pc \in {"collect", "idle"}
          /\ pointer' = [pointer EXCEPT !["current.json"] = window[w].target]
          /\ UNCHANGED file
      BY <1>7, <1>a, PrimaryTaken, WentTo DEF WritePrimary
    <2>2. Served(ReadPointer)'
      BY <1>p, <2>1 DEF PointerFiles, Repairing
    <2> QED
      BY <1>e, <2>1, <2>2, RestingComplete DEF Kept
  <1>8. ASSUME NEW w \in Windows, CollectManifests(w) \/ CollectBlobs(w) \/ Collected(w)
        PROVE  Kept
    <2>1. ASSUME NEW pc \in {"manifests", "blobs"}, NEW todo,
                 Set(w, [window[w] EXCEPT !.pc = pc, !.todo = todo])
          PROVE  window'[w].pc = pc
      BY <1>a, <2>1 DEF Set, TypeOK, Window
    <2>2. window'[w].pc \in {"idle", "manifests", "blobs"}
      BY <1>8, <1>a, <2>1, WentTo DEF CollectManifests, CollectBlobs, Collected
    <2>3. UNCHANGED <<file, pointer>>
      BY <1>8 DEF CollectManifests, CollectBlobs, Collected
    <2> QED
      BY <1>f, <2>2, <2>3
  <1>9. ASSUME NEW w \in Windows, NEW f \in Files, Delete(w, f)
        PROVE  Kept
    <2>1. /\ window[w].pc \in {"manifests", "blobs"} /\ f \in window[w].todo
          /\ window'[w].pc = window[w].pc
          /\ UNCHANGED pointer /\ \A g \in Files \ {f} : file'[g] = file[g]
      BY <1>9, <1>a DEF Delete, Set, TypeOK, Window
    <2>2. f \notin Named(window[w].target)
      BY <1>a, <2>1 DEF WindowOK
    <2>3. ReadPointer = window[w].target
      BY <1>a, <2>1, PointerRead DEF WindowOK, Collecting
    <2>4. Served(ReadPointer)'
      BY <1>b, <1>d, <2>1, <2>2, <2>3, StaysServed
    <2> QED
      BY <1>e, <2>1, <2>4, RestingComplete DEF Kept
  <1>10. ASSUME NEW w \in Windows, Throw(w)
         PROVE  Kept
    <2>1. window'[w].pc = "idle" /\ UNCHANGED file
      BY <1>10, <1>a, WentTo DEF Throw
    <2>2. CASE UNCHANGED pointer
      BY <1>f, <2>1, <2>2
    <2>3. CASE /\ window[w].pc \in {"primary", "repairPrimary"}
               /\ pointer' = [pointer EXCEPT !["current.json"] = window[w].target]
      <3>1. Served(ReadPointer)'
        BY <1>p, <2>1, <2>3 DEF PointerFiles, Repairing
      <3> QED
        BY <1>e, <2>1, <3>1, RestingComplete DEF Kept
    <2> QED
      BY <1>10, <2>2, <2>3 DEF Throw
  <1>11. ASSUME NEW w \in Windows, Crash(w)
         PROVE  Kept
    <2>1. window'[w].pc = "closed" /\ UNCHANGED <<file, pointer>>
      BY <1>11, <1>a DEF Crash, Set, TypeOK, Closed
    <2> QED
      BY <1>f, <2>1
  \* What is damaged is the first: until then every pointer names whole files.
  <1>u. ASSUME damage.found < MaxDamage, Resting, UNCHANGED window
        PROVE  /\ damage.found = 0
               /\ \A f \in Files : file[f] # "damaged"
               /\ \A f \in PointerFiles : pointer[f].state # "damaged"
               /\ \A w \in Windows : Complete(w)'
    <2>1. damage.found = 0
      BY <1>a, <1>u DEF TypeOK
    <2> QED
      BY <1>u, <2>1, RestingComplete DEF StorageInv, UndamagedInv, Resting
  <1>12. ASSUME NEW f \in Files, DamageFile(f)
         PROVE  Kept
    <2>1. /\ damage.found < MaxDamage /\ Resting /\ UNCHANGED <<window, pointer>>
          /\ \A g \in Files \ {f} : file'[g] = file[g]
          /\ ~Irreplaceable(f)
      BY <1>12, <1>a, DamageFound, FoundIs DEF DamageFile, TypeOK
    <2>2. ReadPointer.state # "damaged" /\ ReadPointer' = ReadPointer
      BY <1>a, <1>u, <2>1, PointerRead DEF ReadPointer
    <2>3. ASSUME ReadPointer.state = "whole"
          PROVE  Readable(ReadPointer.current)' \/ Readable(ReadPointer.previous)'
      <3>1. PICK g \in {ReadPointer.current, ReadPointer.previous} :
               Readable(g) /\ f \notin FilesOf(g)
        BY <2>1, <2>3 DEF Irreplaceable
      <3>2. FilesOf(g) \subseteq Files
        BY <1>b, <3>1, NamedFiles
      <3>3. Readable(g)'
        BY <2>1, <3>1, <3>2 DEF Readable
      <3> QED
        BY <2>2, <3>1, <3>3
    <2>4. Served(ReadPointer)'
      BY <2>2, <2>3 DEF Served
    <2> QED
      BY <1>u, <2>1, <2>4 DEF Kept
  <1>13. ASSUME NEW f \in PointerFiles, DamagePointer(f)
         PROVE  Kept
    <2>1. /\ damage.found < MaxDamage /\ Resting /\ UNCHANGED <<window, file>>
          /\ \A g \in PointerFiles : pointer[g].state = "whole"
          /\ \A g \in PointerFiles \ {f} : pointer'[g] = pointer[g]
          /\ pointer'[f].state = "damaged"
      <3>1. /\ damage.found < MaxDamage /\ Resting
            /\ \E g \in PointerFiles \ {f} : pointer[g].state = "whole"
        BY <1>13, <1>a, DamageFound, FoundIs
      <3>2. pointer[f].state = "whole"
        BY <1>13 DEF DamagePointer
      <3>3. \A g \in PointerFiles : pointer[g].state = "whole"
        BY <3>1, <3>2 DEF PointerFiles
      <3> QED
        BY <1>13, <1>a, <3>1, <3>3 DEF DamagePointer, TypeOK, StoragePointer
    <2>2. \A g \in PointerFiles : Readable(pointer[g].current)
      <3> SUFFICES ASSUME NEW g \in PointerFiles
                   PROVE  Readable(pointer[g].current)
        OBVIOUS
      <3>1. pointer[g].current # None /\ There(FilesOf(pointer[g].current))
        BY <1>a, <2>1 DEF StorageInv, UndamagedInv, PointersAreBacked, There, Named
      <3>2. FilesOf(pointer[g].current) \subseteq Files
        BY <1>a, NamedFiles DEF TypeOK
      <3> QED
        BY <1>a, <1>u, <2>1, <3>1, <3>2 DEF Readable, There, TypeOK, Condition
    <2>3. PICK g \in PointerFiles : ReadPointer' = pointer[g]
      BY <2>1 DEF ReadPointer, PointerFiles
    <2>4. Served(ReadPointer)'
      BY <2>1, <2>2, <2>3 DEF Served, Readable
    <2> QED
      BY <1>u, <2>1, <2>4 DEF Kept
  <1>14. CASE UNCHANGED vars
    <2>1. \A w \in Windows : Complete(w)'
      BY <1>14, <1>d DEF vars, Complete, Whole, Readable, Repairing
    <2> QED
      BY <1>14, <1>a, <1>d, <2>1, FilesStay DEF vars, Kept
  <1> QED
    BY <1>1, <1>2, <1>3, <1>4, <1>5, <1>6, <1>7, <1>8, <1>9, <1>10, <1>11, <1>12, <1>13,
       <1>14 DEF Next

\* One damaged file that some readable generation does without never makes the
\* workspace unreadable, whatever one window saves, repairs and collects around
\* it, and however that is cut off - as long as no save takes the damaged file
\* for the one it needs.  A file that every readable generation needs is fatal at
\* once, and excepted by Loadable.
THEOREM OneDamagedFileIsSurvived ==
    ASSUME Alone, MaxDamage <= 1
    PROVE  Spec => []Loadable
  <1>1. Init => LoadInv
    <2> SUFFICES ASSUME Init
                 PROVE  LoadInv
      OBVIOUS
    <2>1. /\ \A f \in PointerFiles : pointer[f].state = "absent"
          /\ \A w \in Windows : window[w].pc = "closed"
      BY DEF Init, NoPointer, Closed
    <2>2. Served(ReadPointer)
      BY <2>1 DEF Served, ReadPointer, PointerFiles
    <2> QED
      BY <2>1, <2>2 DEF LoadInv, Complete, Repairing
  <1>2. StorageInv /\ LoadInv /\ [Next]_vars => LoadInv'
    BY LoadableStep
  <1>3. StorageInv /\ LoadInv => Loadable
    BY ServedLoads DEF StorageInv, LoadInv, Loadable
  <1> QED
    BY <1>1, <1>2, <1>3, StorageInvariant, PTL DEF Spec
=============================================================================
