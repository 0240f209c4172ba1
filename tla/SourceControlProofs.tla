------------------------ MODULE SourceControlProofs -------------------------
(***************************************************************************)
(* Theorems of SourceControl, for any number of commands, branches, paths  *)
(* and writes: reads do not overlap, and a view that stays behind the      *)
(* working tree has one of the three excuses.                              *)
(***************************************************************************)
EXTENDS SourceControl, TLAPS

Current == [branch |-> ws.branch, changes |-> Changes, staged |-> staged[ws.branch]]

\* The loop that is not over is the one refreshPromise stands for; a loop that
\* threw leaves the view excused.
OneLoop ==
    /\ \A l \in Loops : loops[l].pc # "none" <=> promise = l
    /\ \A l \in Loops : loops[l].pc = "threw" => excused
    /\ op.kind = "none" => op.touched = {}

\* A request that nobody will serve is excused.
RequestsAreServed ==
    requested /\ ~excused /\ ~disposed =>
        promise # None /\ loops[promise].pc = "reading"

\* Between operations, without a request, the view is current or about to be:
\* what is being read of the selected branch is its changes.
CurrentOrAboutToBe ==
    ~requested /\ ~excused /\ ~disposed /\ op.kind = "none" =>
        /\ promise = None => shown = Current
        /\ \A l \in Loops : promise = l /\ loops[l].pc = "ended" => shown = Current
        /\ \A l \in Loops :
               promise = l /\ loops[l].pc = "reading" /\ loops[l].branch = ws.branch
                   => loops[l].list = Changes

ViewInv == TypeOK /\ OneLoop /\ RequestsAreServed /\ CurrentOrAboutToBe

-----------------------------------------------------------------------------
(* Operators. *)

\* The loop that begins is one of those that are free.
LEMMA FreeIsFree ==
    ASSUME Free # {}
    PROVE  (CHOOSE l \in Free : TRUE) \in Loops /\ loops[CHOOSE l \in Free : TRUE].pc = "none"
  <1>1. PICK l \in Free : TRUE
    OBVIOUS
  <1>2. (CHOOSE x \in Free : TRUE) \in Free
    BY <1>1
  <1> QED
    BY <1>2 DEF Free

\* What a loop reads of a workspace is typed.
LEMMA ReadTyped ==
    ASSUME NEW w \in World
    PROVE  ReadOf(w) \in Reads
  BY DEF ReadOf, World, Reads

\* A refresh keeps the invariant, whatever else changed, when the view is
\* either asked for again or disposed.
LEMMA RefreshKeeps ==
    ASSUME ViewInv, RefreshView, ws' \in World, disposed' = disposed,
           op'.kind = "none" => op'.touched = {}
    PROVE  /\ loops' \in [Loops -> Reads]
           /\ promise' \in Loops \cup {None} /\ requested' \in BOOLEAN /\ excused' \in BOOLEAN
           /\ OneLoop' /\ RequestsAreServed' /\ CurrentOrAboutToBe'
  <1>a. ViewInv /\ ws' \in World /\ disposed' = disposed
        /\ (op'.kind = "none" => op'.touched = {})
    OBVIOUS
  <1>1. CASE disposed
    <2>1. UNCHANGED <<loops, requested, promise, excused>>
      BY <1>1 DEF RefreshView
    <2> QED
      BY <1>1, <1>a, <2>1 DEF ViewInv, TypeOK, OneLoop, RequestsAreServed, CurrentOrAboutToBe
  <1>2. CASE ~disposed /\ promise = None
    <2>1. StartLoop
      BY <1>2 DEF RefreshView
    <2>2. promise' \in Loops /\ loops[promise'].pc = "none"
      BY <2>1, FreeIsFree DEF StartLoop
    <2>3. ReadOf(ws') \in Reads
      BY <1>a, ReadTyped
    <2>4. /\ loops' = [loops EXCEPT ![promise'] = ReadOf(ws')]
          /\ requested' = FALSE /\ excused' = FALSE
      BY <2>1 DEF StartLoop
    <2>5. \A l \in Loops : loops[l].pc = "none"
      BY <1>2, <1>a, SourceControlAssumption DEF ViewInv, OneLoop
    <2>6. \A l \in Loops : loops'[l] = IF l = promise' THEN ReadOf(ws') ELSE loops[l]
      BY <1>a, <2>4 DEF ViewInv, TypeOK
    <2>7. /\ ReadOf(ws').pc = "reading" /\ ReadOf(ws').list = Changes'
          /\ promise' # None
      BY <2>2, SourceControlAssumption DEF ReadOf, Changes
    <2>8. OneLoop'
      BY <1>a, <2>2, <2>4, <2>5, <2>6, <2>7 DEF OneLoop
    <2>9. CurrentOrAboutToBe' /\ RequestsAreServed'
      BY <2>2, <2>4, <2>6, <2>7 DEF CurrentOrAboutToBe, RequestsAreServed
    <2> QED
      BY <1>a, <2>2, <2>3, <2>4, <2>8, <2>9 DEF ViewInv, TypeOK
  <1>3. CASE ~disposed /\ promise # None
    <2>1. JoinLoop
      BY <1>3 DEF RefreshView
    <2>2. promise \in Loops
      BY <1>3, <1>a DEF ViewInv, TypeOK
    <2>3. requested' = TRUE /\ excused' = (excused \/ loops[promise].pc # "reading")
          /\ loops' = loops /\ promise' = promise
      BY <2>1 DEF JoinLoop
    <2>4. OneLoop'
      BY <1>a, <2>3 DEF ViewInv, OneLoop
    <2>5. RequestsAreServed' /\ CurrentOrAboutToBe'
      BY <1>3, <2>3 DEF RequestsAreServed, CurrentOrAboutToBe
    <2> QED
      BY <1>a, <2>3, <2>4, <2>5 DEF ViewInv, TypeOK
  <1> QED
    BY <1>1, <1>2, <1>3

-----------------------------------------------------------------------------
(* The invariant is inductive. *)

LEMMA ViewInit == Init => ViewInv
  <1> SUFFICES ASSUME Init
               PROVE  ViewInv
    OBVIOUS
  <1>1. promise \in Loops /\ promise # None
    BY SourceControlAssumption DEF Init
  <1>2. ws \in World
    BY DEF Init, World
  <1>3. ReadOf(ws) \in Reads
    BY <1>2, ReadTyped
  <1>4. NoLoop \in Reads
    BY DEF NoLoop, Reads
  <1>5. NoCall \in Commands
    BY DEF NoCall, Commands
  <1>6. TypeOK
    <2>1. loops \in [Loops -> Reads] /\ call \in [Callers -> Commands]
      BY <1>3, <1>4, <1>5 DEF Init
    <2>2. op \in [kind : {"none", "local", "remote"}, undo : World \cup {None}, touched : SUBSET Paths]
          /\ op.kind = "none"
      BY DEF Init, NoOp
    <2>3. /\ staged \in [Branches -> SUBSET Paths] /\ writes \in 0 .. MaxWrites
          /\ shown \in [branch : Branches \cup {None}, changes : SUBSET Paths, staged : SUBSET Paths]
      BY SourceControlAssumption DEF Init
    <2> QED
      BY <1>1, <1>2, <2>1, <2>2, <2>3 DEF Init, TypeOK
  <1>7. /\ \A l \in Loops : loops[l] = IF l = promise THEN ReadOf(ws) ELSE NoLoop
        /\ ReadOf(ws).pc = "reading" /\ ReadOf(ws).list = Changes
        /\ NoLoop.pc = "none"
    BY DEF Init, ReadOf, NoLoop, Changes
  <1>8. OneLoop /\ RequestsAreServed /\ CurrentOrAboutToBe
    BY <1>1, <1>7 DEF Init, OneLoop, RequestsAreServed, CurrentOrAboutToBe, NoOp
  <1> QED
    BY <1>6, <1>8 DEF ViewInv

\* A call that goes to another place of its way.
LEMMA CallOnly ==
    ASSUME ViewInv, UNCHANGED <<ws, op, view, writes>>,
           call' \in [Callers -> Commands]
    PROVE  ViewInv'
  BY DEF ViewInv, TypeOK, OneLoop, RequestsAreServed, CurrentOrAboutToBe, Current, Changes, view


\* Steps that only move a call.
LEMMA CallMoves ==
    ASSUME ViewInv, NEW c \in Callers,
           \/ StageAll(c) \/ ListingFails(c) \/ Answer(c) \/ Refused(c)
           \/ (\E p \in Paths : AskRevert(c, p))
           \/ AskRevertAll(c) \/ AskCommit(c) \/ (\E b \in Branches : AskSwitch(c, b))
    PROVE  ViewInv'
  <1>a. ViewInv
    OBVIOUS
  <1>t. /\ call \in [Callers -> Commands]
        /\ ws.branch \in Branches /\ Changes \subseteq Paths /\ ws.base[ws.branch] \in Nat
        /\ staged[ws.branch] \subseteq Paths
    BY <1>a DEF ViewInv, TypeOK, World, Changes
  <1>1. CASE StageAll(c)
    BY <1>1, <1>a, <1>t, CallOnly DEF StageAll, NoCall, Commands
  <1>2. CASE ListingFails(c)
    BY <1>2, <1>a, <1>t, CallOnly DEF ListingFails, End, Over, NoCall, Commands
  <1>3. CASE Answer(c)
    BY <1>3, <1>a, <1>t, CallOnly DEF Answer, Goto, End, Over, NoCall, Commands
  <1>4. CASE Refused(c)
    BY <1>4, <1>a, <1>t, CallOnly DEF Refused, End, Over, NoCall, Commands
  <1>5. ASSUME NEW p \in Paths, AskRevert(c, p)
        PROVE  ViewInv'
    BY <1>5, <1>a, <1>t, CallOnly DEF AskRevert, Ask, Commands
  <1>6. CASE AskRevertAll(c)
    BY <1>6, <1>a, <1>t, CallOnly DEF AskRevertAll, Ask, Commands
  <1>7. CASE AskCommit(c)
    BY <1>7, <1>a, <1>t, CallOnly DEF AskCommit, Ask, Commands
  <1>8. ASSUME NEW b \in Branches, AskSwitch(c, b)
        PROVE  ViewInv'
    BY <1>8, <1>a, <1>t, CallOnly DEF AskSwitch, NoCall, Commands
  <1> QED
    BY <1>1, <1>2, <1>3, <1>4, <1>5, <1>6, <1>7, <1>8

\* The selection changes, and the view is refreshed.
LEMMA SelectKeeps ==
    ASSUME ViewInv, NEW c \in Callers, NEW selection \in SUBSET Paths, Select(c, selection)
    PROVE  ViewInv'
  <1>1. ViewInv /\ RefreshView /\ AwaitView(c) /\ UNCHANGED <<ws, op, shown, disposed, writes>>
        /\ staged' = [staged EXCEPT ![ws.branch] = selection]
    BY DEF Select
  <1>2. ws' \in World /\ disposed' = disposed /\ (op'.kind = "none" => op'.touched = {})
    BY <1>1 DEF ViewInv, TypeOK, OneLoop
  <1>3. /\ loops' \in [Loops -> Reads]
        /\ promise' \in Loops \cup {None} /\ requested' \in BOOLEAN /\ excused' \in BOOLEAN
        /\ OneLoop' /\ RequestsAreServed' /\ CurrentOrAboutToBe'
    BY <1>1, <1>2, RefreshKeeps
  <1>4. call' \in [Callers -> Commands]
    BY <1>1, <1>3 DEF AwaitView, Over, NoCall, ViewInv, TypeOK, Commands
  <1>5. TypeOK'
    BY <1>1, <1>2, <1>3, <1>4 DEF ViewInv, TypeOK, World
  <1> QED
    BY <1>3, <1>5 DEF ViewInv

LEMMA SelectionCommands ==
    ASSUME ViewInv, NEW c \in Callers,
           (\E p \in Paths : Stage(c, p) \/ Unstage(c, p)) \/ UnstageAll(c)
    PROVE  ViewInv'
  <1>1. staged[ws.branch] \subseteq Paths
    BY DEF ViewInv, TypeOK, World
  <1>2. ASSUME NEW p \in Paths, Stage(c, p)
        PROVE  ViewInv'
    BY <1>1, <1>2, SelectKeeps DEF Stage
  <1>3. ASSUME NEW p \in Paths, Unstage(c, p)
        PROVE  ViewInv'
    BY <1>1, <1>3, SelectKeeps DEF Unstage
  <1>4. CASE UnstageAll(c)
    BY <1>4, SelectKeeps DEF UnstageAll
  <1> QED
    BY <1>2, <1>3, <1>4

\* stageAll: a call that lists has the branch and the paths it found.
LEMMA StageListedKeeps ==
    ASSUME ViewInv, NEW c \in Callers, StageListed(c)
    PROVE  ViewInv'
  <1>1. ViewInv /\ RefreshView /\ AwaitView(c) /\ UNCHANGED <<ws, op, shown, disposed, writes>>
        /\ staged' = [staged EXCEPT ![call[c].branch] = @ \cup call[c].paths]
    BY DEF StageListed
  <1>2. ws' \in World /\ disposed' = disposed /\ (op'.kind = "none" => op'.touched = {})
        /\ call[c].paths \subseteq Paths
    BY <1>1 DEF ViewInv, TypeOK, OneLoop, Commands
  <1>3. /\ loops' \in [Loops -> Reads]
        /\ promise' \in Loops \cup {None} /\ requested' \in BOOLEAN /\ excused' \in BOOLEAN
        /\ OneLoop' /\ RequestsAreServed' /\ CurrentOrAboutToBe'
    BY <1>1, <1>2, RefreshKeeps
  <1>4. call' \in [Callers -> Commands]
    BY <1>1, <1>3 DEF AwaitView, Over, NoCall, ViewInv, TypeOK, Commands
  <1>5. staged' \in [Branches -> SUBSET Paths]
    BY <1>1, <1>2 DEF ViewInv, TypeOK
  <1>6. TypeOK'
    BY <1>1, <1>2, <1>3, <1>4, <1>5 DEF ViewInv, TypeOK
  <1> QED
    BY <1>3, <1>6 DEF ViewInv

\* An operation begins: nothing is claimed of the view until it is over.
LEMMA BeginKeeps ==
    ASSUME ViewInv, NEW kind \in {"local", "remote"}, NEW w \in World,
           NEW paths \in SUBSET Paths, Begin(kind, w, paths), UNCHANGED view,
           writes' \in 0 .. MaxWrites,
           call' \in [Callers -> Commands]
    PROVE  ViewInv'
  <1>1. /\ op' = [kind |-> kind, undo |-> ws, touched |-> paths] /\ ws' = w
        /\ op'.kind # "none"
    BY DEF Begin
  <1>2. TypeOK'
    BY <1>1 DEF ViewInv, TypeOK, view
  <1>3. OneLoop' /\ RequestsAreServed' /\ CurrentOrAboutToBe'
    BY <1>1 DEF ViewInv, OneLoop, RequestsAreServed, CurrentOrAboutToBe, view
  <1> QED
    BY <1>2, <1>3 DEF ViewInv

LEMMA OperationsBegin ==
    ASSUME ViewInv,
           Write \/ \E c \in Callers : RunRevert(c) \/ RunSwitch(c) \/ RunCommit(c)
    PROVE  ViewInv'
  <1>a. ViewInv
    OBVIOUS
  <1>t. /\ ws \in World /\ ws.branch \in Branches /\ Changes \subseteq Paths
        /\ writes \in 0 .. MaxWrites
        /\ call \in [Callers -> Commands]
    BY <1>a DEF ViewInv, TypeOK, World, Changes
  <1>w. \A dirty \in SUBSET Paths : With(dirty) \in World
    BY <1>t DEF With, World
  <1>1. CASE Write
    <2>1. PICK paths \in SUBSET Paths \ {{}} : \E dirty \in SUBSET paths :
             Begin("local", With((Changes \ paths) \cup dirty), paths)
      BY <1>1 DEF Write
    <2>2. PICK dirty \in SUBSET paths :
             Begin("local", With((Changes \ paths) \cup dirty), paths)
      BY <2>1
    <2>3. With((Changes \ paths) \cup dirty) \in World
      BY <1>t, <1>w
    <2>4. writes' \in 0 .. MaxWrites /\ UNCHANGED <<view, call>>
      BY <1>1, <1>t, SourceControlAssumption DEF Write
    <2> QED
      BY <1>a, <1>t, <2>2, <2>3, <2>4, BeginKeeps
  <1>2. ASSUME NEW c \in Callers, RunRevert(c)
        PROVE  ViewInv'
    <2>1. With(Changes \ call[c].paths) \in World /\ call[c].paths \cap Changes \subseteq Paths
      BY <1>t, <1>w
    <2>2. call' \in [Callers -> Commands]
      BY <1>2, <1>t DEF RunRevert, Goto, Commands
    <2> QED
      BY <1>a, <1>t, <1>2, <2>1, <2>2, BeginKeeps DEF RunRevert
  <1>3. ASSUME NEW c \in Callers, RunSwitch(c)
        PROVE  ViewInv'
    <2>1. call' \in [Callers -> Commands]
      <3>1. call[c] \in Commands /\ call' = [call EXCEPT ![c] = [call[c] EXCEPT !.pc = "running"]]
        BY <1>3, <1>t DEF RunSwitch, Goto
      <3>2. [call[c] EXCEPT !.pc = "running"] \in Commands
        BY <3>1 DEF Commands
      <3> QED
        BY <1>t, <3>1, <3>2
    <2>2. call[c].branch \in Branches
      BY <1>3, <1>a, <1>t DEF RunSwitch, Commands
    <2>3. [ws EXCEPT !.branch = call[c].branch] \in World
      BY <1>t, <2>2 DEF World
    <2> QED
      BY <1>a, <1>t, <1>3, <2>1, <2>3, BeginKeeps DEF RunSwitch
  <1>4. ASSUME NEW c \in Callers, RunCommit(c)
        PROVE  ViewInv'
    <2>1. call' \in [Callers -> Commands]
      BY <1>4, <1>t DEF RunCommit, Goto, Commands
    <2>2. [With(Changes \ call[c].paths) EXCEPT !.base[ws.branch] = @ + 1] \in World
      <3>1. With(Changes \ call[c].paths) \in World
        BY <1>t, <1>w
      <3>2. \A w \in World : [w EXCEPT !.base[ws.branch] = @ + 1] \in World
        BY <1>t DEF World
      <3> QED
        BY <3>1, <3>2
    <2>3. call[c].paths \cap Changes \subseteq Paths
      BY <1>t
    <2> QED
      BY <1>a, <1>t, <1>4, <2>1, <2>2, <2>3, BeginKeeps DEF RunCommit
  <1> QED
    BY <1>1, <1>2, <1>3, <1>4

LEMMA AnnounceKeeps ==
    ASSUME ViewInv, Announce
    PROVE  ViewInv'
  <1>1. ViewInv /\ RefreshView /\ op' = NoOp /\ UNCHANGED <<ws, staged, shown, disposed, writes>>
    BY DEF Announce
  <1>2. /\ ws' \in World /\ disposed' = disposed /\ op'.touched = {}
        /\ op' \in [kind : {"none", "local", "remote"}, undo : World \cup {None},
                    touched : SUBSET Paths]
        /\ op'.kind = "none"
    BY <1>1 DEF ViewInv, TypeOK, NoOp
  <1>3. /\ loops' \in [Loops -> Reads]
        /\ promise' \in Loops \cup {None} /\ requested' \in BOOLEAN /\ excused' \in BOOLEAN
        /\ OneLoop' /\ RequestsAreServed' /\ CurrentOrAboutToBe'
    BY <1>1, <1>2, RefreshKeeps
  <1>4. call' \in [Callers -> Commands]
    BY <1>1 DEF Announce, Over, NoCall, ViewInv, TypeOK, Commands
  <1>5. TypeOK'
    BY <1>1, <1>2, <1>3, <1>4 DEF ViewInv, TypeOK
  <1> QED
    BY <1>3, <1>5 DEF ViewInv

LEMMA TakeBackKeeps ==
    ASSUME ViewInv, TakeBack
    PROVE  ViewInv'
  <1>1. /\ op' = NoOp /\ ws' = op.undo /\ ws' \in World /\ excused' = TRUE
        /\ UNCHANGED <<staged, shown, loops, requested, promise, disposed, writes>>
    BY DEF TakeBack, ViewInv, TypeOK
  <1>2. call' \in [Callers -> Commands]
    BY DEF TakeBack, Over, NoCall, ViewInv, TypeOK, Commands
  <1>3. TypeOK'
    BY <1>1, <1>2 DEF ViewInv, TypeOK, NoOp
  <1>4. OneLoop' /\ RequestsAreServed' /\ CurrentOrAboutToBe'
    BY <1>1 DEF ViewInv, OneLoop, RequestsAreServed, CurrentOrAboutToBe, NoOp
  <1> QED
    BY <1>3, <1>4 DEF ViewInv

LEMMA DisposeKeeps ==
    ASSUME ViewInv, Dispose
    PROVE  ViewInv'
  <1>1. TypeOK' /\ OneLoop'
    BY DEF Dispose, ViewInv, TypeOK, OneLoop
  <1>2. RequestsAreServed' /\ CurrentOrAboutToBe'
    BY DEF Dispose, RequestsAreServed, CurrentOrAboutToBe
  <1> QED
    BY <1>1, <1>2 DEF ViewInv


\* The steps of a loop.  What a list that ends without another request shows
\* is current, because it was about to be.
LEMMA LoopKeeps ==
    ASSUME ViewInv, NEW l \in Loops, LoopStep(l) \/ ReadOn(l)
    PROVE  ViewInv'
  <1>a. ViewInv
    OBVIOUS
  <1>t. /\ ws \in World /\ ws.branch \in Branches /\ Changes \subseteq Paths
        /\ loops \in [Loops -> Reads]
        /\ op.touched \subseteq Paths
        /\ ReadOf(ws) \in Reads
        /\ ReadOf(ws).pc = "reading" /\ ReadOf(ws).list = Changes /\ ReadOf(ws).branch = ws.branch
    BY <1>a, ReadTyped DEF ViewInv, TypeOK, World, Changes, ReadOf
  <1>p. loops[l].pc # "none" => promise = l /\ promise # None
    BY <1>a, SourceControlAssumption DEF ViewInv, OneLoop
  <1>1. CASE ReadForNothing(l)
    <2>1. TypeOK'
      BY <1>1, <1>a, <1>t DEF ReadForNothing, ViewInv, TypeOK, Reads
    <2>2. OneLoop' /\ RequestsAreServed' /\ CurrentOrAboutToBe'
      BY <1>1, <1>a, <1>t, <1>p
         DEF ReadForNothing, ViewInv, OneLoop, RequestsAreServed, CurrentOrAboutToBe
    <2> QED
      BY <2>1, <2>2 DEF ViewInv
  <1>2. CASE ReadOutdated(l)
    <2>1. TypeOK'
      BY <1>2, <1>a, <1>t DEF ReadOutdated, ViewInv, TypeOK, Reads
    <2>2. OneLoop'
      BY <1>2, <1>a, <1>t, <1>p DEF ReadOutdated, ViewInv, OneLoop
    <2>3. RequestsAreServed' /\ CurrentOrAboutToBe'
      BY <1>2, <1>t, <1>p DEF ReadOutdated, RequestsAreServed, CurrentOrAboutToBe, Changes
    <2> QED
      BY <2>1, <2>2, <2>3 DEF ViewInv
  <1>3. CASE ReadEnds(l)
    <2>1. /\ loops[l].pc = "reading" /\ ~disposed /\ loops[l].branch = ws.branch
          /\ promise = l /\ promise # None /\ loops[l].list \subseteq Paths
          /\ staged' = [staged EXCEPT ![ws.branch] = @ \cap loops[l].list]
          /\ shown' = [branch |-> ws.branch, changes |-> loops[l].list,
                       staged |-> staged[ws.branch] \cap loops[l].list]
          /\ UNCHANGED <<ws, op, promise, disposed, call, writes>>
      BY <1>3, <1>p, <1>t DEF ReadEnds, ApplyChanges, Reads
    <2>2. staged \in [Branches -> SUBSET Paths] /\ staged' \in [Branches -> SUBSET Paths]
          /\ shown' \in [branch : Branches \cup {None}, changes : SUBSET Paths,
                         staged : SUBSET Paths]
          /\ staged'[ws.branch] = staged[ws.branch] \cap loops[l].list
      BY <1>a, <1>t, <2>1 DEF ViewInv, TypeOK
    <2>3. CASE requested
      <3>1. loops' = [loops EXCEPT ![l] = ReadOf(ws)] /\ requested' = FALSE /\ excused' = FALSE
        BY <1>3, <2>3 DEF ReadEnds, Again
      <3>2. TypeOK'
        BY <1>a, <1>t, <2>1, <2>2, <3>1 DEF ViewInv, TypeOK, Reads
      <3>3. OneLoop'
        BY <1>a, <1>t, <2>1, <3>1 DEF ViewInv, OneLoop
      <3>4. RequestsAreServed' /\ CurrentOrAboutToBe'
        BY <1>t, <2>1, <3>1 DEF RequestsAreServed, CurrentOrAboutToBe, Changes
      <3> QED
        BY <3>2, <3>3, <3>4 DEF ViewInv
    <2>4. CASE ~requested
      <3>1. loops' = [loops EXCEPT ![l].pc = "ended"] /\ UNCHANGED <<requested, excused>>
        BY <1>3, <2>4 DEF ReadEnds, Again
      <3>2. TypeOK'
        BY <1>a, <1>t, <2>1, <2>2, <3>1 DEF ViewInv, TypeOK, Reads
      <3>3. OneLoop'
        BY <1>a, <1>t, <2>1, <3>1 DEF ViewInv, OneLoop
      <3>4. ~excused /\ op.kind = "none" => loops[l].list = Changes
        BY <1>a, <2>1, <2>4 DEF ViewInv, CurrentOrAboutToBe
      <3>5. ~excused /\ op.kind = "none" => shown' = Current'
        BY <2>1, <2>2, <3>4 DEF Current, Changes
      <3>6. loops'[l].pc = "ended"
        BY <1>t, <3>1
      <3>7. RequestsAreServed' /\ CurrentOrAboutToBe'
        BY <2>1, <2>4, <3>1, <3>5, <3>6 DEF RequestsAreServed, CurrentOrAboutToBe
      <3> QED
        BY <3>2, <3>3, <3>7 DEF ViewInv
    <2> QED
      BY <2>3, <2>4
  <1>4. CASE ReadFails(l)
    <2>1. TypeOK'
      BY <1>4, <1>a, <1>t DEF ReadFails, ViewInv, TypeOK, Reads
    <2>2. OneLoop' /\ RequestsAreServed' /\ CurrentOrAboutToBe'
      BY <1>4, <1>a, <1>t, <1>p
         DEF ReadFails, ViewInv, OneLoop, RequestsAreServed, CurrentOrAboutToBe
    <2> QED
      BY <2>1, <2>2 DEF ViewInv
  <1>5. CASE LoopOver(l)
    <2>1. call' \in [Callers -> Commands]
      BY <1>5, <1>a DEF LoopOver, Over, NoCall, ViewInv, TypeOK, Commands
    <2>2. TypeOK'
      BY <1>5, <1>a, <1>t, <2>1 DEF LoopOver, NoLoop, ViewInv, TypeOK, Reads
    <2>3. \A k \in Loops : loops'[k].pc = "none"
      BY <1>5, <1>a, <1>t, <1>p DEF LoopOver, NoLoop, ViewInv, OneLoop
    <2>4. OneLoop'
      BY <1>5, <1>a, <2>3, SourceControlAssumption DEF LoopOver, ViewInv, OneLoop
    <2>5. loops[l].pc = "threw" => excused
      BY <1>a DEF ViewInv, OneLoop
    <2>6. requested /\ ~excused => disposed
      BY <1>5, <1>a, <1>p DEF LoopOver, ViewInv, RequestsAreServed
    <2>7. RequestsAreServed'
      BY <1>5, <2>6 DEF LoopOver, RequestsAreServed
    <2>8. CurrentOrAboutToBe'
      BY <1>5, <1>a, <1>p, <2>3, <2>5
         DEF LoopOver, ViewInv, CurrentOrAboutToBe, Current, Changes
    <2> QED
      BY <2>2, <2>4, <2>7, <2>8 DEF ViewInv
  <1>6. CASE ReadOn(l)
    <2>1. PICK seen \in SUBSET op.touched :
             loops' = [loops EXCEPT ![l].list = (@ \ op.touched) \cup seen]
      BY <1>6 DEF ReadOn
    <2>2. /\ UNCHANGED <<ws, op, staged, shown, requested, promise, disposed, call, writes, excused>>
          /\ op.kind # "none"
      BY <1>6, <1>a DEF ReadOn, ViewInv, OneLoop
    <2>3. TypeOK'
      BY <1>a, <1>t, <2>1, <2>2 DEF ViewInv, TypeOK, Reads
    <2>4. \A k \in Loops : loops'[k].pc = loops[k].pc
      BY <1>t, <2>1
    <2>5. OneLoop'
      BY <1>a, <2>2, <2>4 DEF ViewInv, OneLoop
    <2>6. RequestsAreServed' /\ CurrentOrAboutToBe'
      BY <1>a, <1>p, <2>2, <2>4 DEF ViewInv, TypeOK, RequestsAreServed, CurrentOrAboutToBe
    <2> QED
      BY <2>3, <2>5, <2>6 DEF ViewInv
  <1> QED
    BY <1>1, <1>2, <1>3, <1>4, <1>5, <1>6 DEF LoopStep

LEMMA ViewStep == ViewInv /\ [Next]_vars => ViewInv'
  <1> SUFFICES ASSUME ViewInv, [Next]_vars
               PROVE  ViewInv'
    OBVIOUS
  <1>1. ASSUME NEW c \in Callers, CallStep(c)
        PROVE  ViewInv'
    BY <1>1, CallMoves, SelectionCommands, StageListedKeeps, OperationsBegin DEF CallStep
  <1>2. ASSUME NEW l \in Loops, LoopStep(l) \/ ReadOn(l)
        PROVE  ViewInv'
    BY <1>2, LoopKeeps
  <1>3. CASE Write \/ Announce \/ TakeBack \/ Dispose
    BY <1>3, OperationsBegin, AnnounceKeeps, TakeBackKeeps, DisposeKeeps
  <1>4. CASE UNCHANGED vars
    BY <1>4 DEF vars, ViewInv, TypeOK, OneLoop, RequestsAreServed, CurrentOrAboutToBe, Current, Changes
  <1> QED
    BY <1>1, <1>2, <1>3, <1>4 DEF Next

-----------------------------------------------------------------------------
(* The theorems. *)

\* One loop, whose promise everyone shares, and a view that is current or about
\* to be: what refresh, runRefreshLoop and finally keep between them.
THEOREM ViewInvariant == Spec => []ViewInv
  <1> QED
    BY ViewInit, ViewStep, PTL DEF Spec

\* The reads of the working tree never overlap, however refreshes, commands,
\* branch switches and disposal interleave.
THEOREM ReadsAreSerial == Spec => []ReadsDoNotOverlap
  <1>1. ViewInv => ReadsDoNotOverlap
    BY DEF ViewInv, OneLoop, ReadsDoNotOverlap
  <1> QED
    BY <1>1, ViewInvariant, PTL

\* A view at rest that does not show the working tree of the selected branch
\* has one of the excuses: a failed read, a memory taken back, or a refresh
\* that joined a loop that was over.
THEOREM StalenessHasThreeCauses == Spec => []StaleViewIsExplained
  <1>1. ViewInv => StaleViewIsExplained
    BY DEF ViewInv, RequestsAreServed, CurrentOrAboutToBe, StaleViewIsExplained, Current
  <1> QED
    BY <1>1, ViewInvariant, PTL

\* Only the list of the selected branch is ever shown, and none after disposal.
THEOREM ViewIsOfItsBranch == Spec => ViewFollowsBranch
  <1> DEFINE Followed == shown' # shown =>
               /\ ~disposed /\ shown'.branch = ws'.branch
               /\ \E l \in Loops : loops[l].branch = ws'.branch /\ loops[l].list = shown'.changes
  <1>1. ASSUME [Next]_vars
        PROVE  Followed \/ UNCHANGED vars
    <2>1. ASSUME NEW l \in Loops, ReadEnds(l)
          PROVE  Followed
      BY <2>1 DEF ReadEnds, ApplyChanges
    <2>2. ASSUME NEW l \in Loops, LoopStep(l) \/ ReadOn(l), ~ReadEnds(l)
          PROVE  shown' = shown
      BY <2>2 DEF LoopStep, ReadOn, ReadForNothing, ReadOutdated, ReadFails, LoopOver
    <2>3. ASSUME NEW c \in Callers, CallStep(c)
          PROVE  shown' = shown
      BY <2>3 DEF CallStep, Stage, Unstage, UnstageAll, Select, StageAll, StageListed, ListingFails,
                  AskRevert, AskRevertAll, AskCommit, Ask, AskSwitch, Answer, Refused,
                  RunRevert, RunSwitch, RunCommit, view
    <2>4. ASSUME Write \/ Announce \/ TakeBack \/ Dispose
          PROVE  shown' = shown
      BY <2>4 DEF Write, Announce, TakeBack, Dispose, view
    <2> QED
      BY <1>1, <2>1, <2>2, <2>3, <2>4 DEF Next
  <1>2. [Next]_vars => [Followed]_vars
    BY <1>1
  <1> QED
    BY <1>2, PTL DEF Spec, ViewFollowsBranch
=============================================================================
