--------------------------- MODULE RevisionReads ----------------------------
(***************************************************************************)
(* Reads of immutable revisions (core/src/repository): a cache of limited  *)
(* size that drops what was not used for longest, reads of the same path   *)
(* that share one call of the adapter, its deadline, and walks that make   *)
(* many reads while others fill the cache and empty it.  An action is what *)
(* runs between two awaits.  A path is a sequence of names, <<>> the root. *)
(***************************************************************************)
EXTENDS Integers, FiniteSets, SequencesExt, Functions

CONSTANTS
    Callers, Revisions,
    Files, Directories,
    Tree,        \* by revision and directory that it has: the children
    Weight,      \* of what is at a path of a revision
    Unsupported, \* the keys that an adapter may refuse to read: links, large trees
    MaxBytes, MaxEntries, MaxDepth, MaxNodes,
    None,
    MaxReads     \* bounds the calls of the reader

Root == <<>>
Paths == Files \cup Directories
Keys == Revisions \X Paths

\* What a revision has: the root, and what is listed in a directory it has.
Exists(r, p) ==
    p = Root \/ (Front(p) \in DOMAIN Tree[r] /\ p \in ToSet(Tree[r][Front(p)]))

ASSUME ReadsAssumption ==
    /\ Paths \subseteq Seq(STRING) /\ IsFiniteSet(Paths)
    /\ Root \in Directories /\ Files \cap Directories = {}
    /\ \A p \in Paths \ {Root} : Front(p) \in Directories
    /\ \A r \in Revisions :
          /\ Root \in DOMAIN Tree[r] /\ DOMAIN Tree[r] \subseteq Directories
          /\ \A d \in DOMAIN Tree[r] :
                /\ Exists(r, d)
                /\ Tree[r][d] \in Seq(Paths \ {Root}) /\ IsInjective(Tree[r][d])
                /\ \A p \in ToSet(Tree[r][d]) :
                      /\ Front(p) = d
                      /\ p \in Directories => p \in DOMAIN Tree[r]
    /\ Weight \in [Keys -> Nat]
    /\ {MaxBytes, MaxEntries, MaxDepth, MaxNodes, MaxReads} \subseteq Nat
    /\ Unsupported \subseteq Keys
    /\ None \notin {"OFFLINE", "UNKNOWN", "NOT_FOUND", "UNSUPPORTED"}

VARIABLES
    entries,   \* the cache, what was not used for longest first
    retained,  \* its size
    pending,   \* by key: the read that is under way
    reader,    \* by caller: where its call stands
    started,
    used       \* history: all that was in the cache, by its last use

vars == <<entries, retained, pending, reader, started, used>>

\* A mutant: the path alone.
KeyOfPath(r, p) == <<CHOOSE any \in Revisions : TRUE, p>>

Key(r, p) == <<r, p>>

NoFlight == [pc |-> "none", of |-> None, value |-> None, code |-> None]
NoCall == [pc |-> "idle", op |-> None, revision |-> None, origin |-> None, phase |-> None,
           path |-> None, value |-> None, depth |-> 0, todo |-> <<>>, visited |-> 0,
           found |-> <<>>, code |-> None]

Init ==
    /\ entries = <<>> /\ retained = 0 /\ used = <<>>
    /\ pending = [k \in Keys |-> NoFlight]
    /\ reader = [c \in Callers |-> NoCall]
    /\ started = 0

-----------------------------------------------------------------------------
(* The cache. *)

Cached(k) == \E i \in DOMAIN entries : entries[i].key = k
Place(k) == CHOOSE i \in DOMAIN entries : entries[i].key = k
Entry(k) == entries[Place(k)]
Others(k) == IF Cached(k) THEN RemoveAt(entries, Place(k)) ELSE entries

\* The weight of what is up to each place.
Sums(seq) ==
    LET sum[n \in 0 .. Len(seq)] == IF n = 0 THEN 0 ELSE sum[n - 1] + seq[n].weight
    IN  sum
WeightOf(seq) == Sums(seq)[Len(seq)]

Use(k) ==
    LET place == CHOOSE i \in DOMAIN used : used[i] = k
    IN  used' = Append(IF k \in ToSet(used) THEN RemoveAt(used, place) ELSE used, k)

\* A mutant: a hit does not count as a use.
LookUp(k) == Use(k) /\ UNCHANGED entries

\* A hit makes the entry the last one.
Touch(k) == Use(k) /\ entries' = Append(Others(k), Entry(k))

\* A mutant: one entry makes room.
EvictFirst(seq, bytes) ==
    IF bytes > MaxBytes \/ Len(seq) > MaxEntries
    THEN entries' = Tail(seq) /\ retained' = bytes - Head(seq).weight
    ELSE entries' = seq /\ retained' = bytes

\* From the front, until the rest fits.
EvictToBudget(seq, bytes) ==
    LET After(n) == bytes - Sums(seq)[n]
    IN  \E n \in 0 .. Len(seq) :
           /\ After(n) <= MaxBytes /\ Len(seq) - n <= MaxEntries
           /\ \A m \in 0 .. n - 1 : After(m) > MaxBytes \/ Len(seq) - m > MaxEntries
           /\ entries' = SubSeq(seq, n + 1, Len(seq)) /\ retained' = After(n)

\* What cannot fit is not kept, nor what was there before.
SetEntry(k, value, weight) ==
    LET others == Others(k)
        bytes == IF Cached(k) THEN retained - Entry(k).weight ELSE retained
    IN  IF weight > MaxBytes \/ MaxBytes = 0 \/ MaxEntries = 0
        THEN entries' = others /\ retained' = bytes /\ UNCHANGED used
        ELSE /\ EvictToBudget(Append(others, [key |-> k, value |-> value, weight |-> weight]),
                              bytes + weight)
             /\ Use(k)

-----------------------------------------------------------------------------
(* Calls of the reader. *)

Finish(c, s, code) ==
    /\ reader' = [reader EXCEPT ![c] = [s EXCEPT !.pc = "done", !.code = code]]
    /\ UNCHANGED <<entries, pending, used>>

\* readFile and readDirectory, until they wait: a hit, a read that is under
\* way, or a new one.
Reads(c, s, p) ==
    LET k == Key(s.revision, p) IN
    IF Cached(k)
    THEN /\ Touch(k)
         /\ reader' = [reader EXCEPT ![c] =
                          [s EXCEPT !.pc = "got", !.path = p, !.value = Entry(k).value]]
         /\ UNCHANGED pending
    ELSE /\ reader' = [reader EXCEPT ![c] = [s EXCEPT !.pc = "wait", !.path = p]]
         /\ pending' = IF pending[k].pc # "none" THEN pending
                       ELSE [pending EXCEPT ![k] = [pc |-> "asked", of |-> <<s.revision, p>>,
                                                    value |-> None, code |-> None]]
         /\ UNCHANGED <<entries, used>>

\* stat reads the parent; the root is known.
Begin(c, op, r, p) ==
    LET s == [NoCall EXCEPT !.op = op, !.revision = r, !.origin = p,
                            !.phase = IF op = "file" THEN "file" ELSE "stat"]
    IN  /\ started < MaxReads /\ started' = started + 1
        /\ reader[c].pc \in {"idle", "done"}
        /\ CASE op = "file" -> Reads(c, s, p)
             [] op # "file" /\ p # Root -> Reads(c, s, Front(p))
             [] OTHER -> /\ reader' = [reader EXCEPT ![c] = [s EXCEPT !.pc = "got"]]
                         /\ UNCHANGED <<entries, pending, used>>
        /\ UNCHANGED retained

ReadFile(c) == \E r \in Revisions, p \in Files : Begin(c, "file", r, p)
Stat(c) == \E r \in Revisions, p \in Paths : Begin(c, "stat", r, p)
ListFilesRecursively(c) == \E r \in Revisions, p \in Paths : Begin(c, "list", r, p)

EnterDirectory(c, s, d, depth) ==
    IF depth > MaxDepth THEN Finish(c, s, "UNSUPPORTED")
    ELSE Reads(c, [s EXCEPT !.phase = "walk", !.depth = depth], d)

\* A mutant: one entry less.
WalkOffByOne(c, s, stack) ==
    \E n \in 0 .. Len(stack) :
        LET count == IF n < Len(stack) THEN n + 1 ELSE n
            t == [s EXCEPT !.visited = @ + count,
                           !.found = @ \o [i \in 1 .. n |-> stack[i].path],
                           !.todo = SubSeq(stack, count + 1, Len(stack))]
        IN  /\ \A i \in 1 .. n : stack[i].path \in Files
            /\ n < Len(stack) => stack[n + 1].path \in Directories
            /\ IF t.visited >= MaxNodes THEN Finish(c, t, "UNSUPPORTED")
               ELSE IF n = Len(stack) THEN Finish(c, t, None)
               ELSE EnterDirectory(c, t, stack[n + 1].path, stack[n + 1].depth)

\* The files up to the next directory, which is entered before what is after
\* it.
Walk(c, s, stack) ==
    \E n \in 0 .. Len(stack) :
        LET count == IF n < Len(stack) THEN n + 1 ELSE n
            t == [s EXCEPT !.visited = @ + count,
                           !.found = @ \o [i \in 1 .. n |-> stack[i].path],
                           !.todo = SubSeq(stack, count + 1, Len(stack))]
        IN  /\ \A i \in 1 .. n : stack[i].path \in Files
            /\ n < Len(stack) => stack[n + 1].path \in Directories
            /\ IF t.visited > MaxNodes THEN Finish(c, t, "UNSUPPORTED")
               ELSE IF n = Len(stack) THEN Finish(c, t, None)
               ELSE EnterDirectory(c, t, stack[n + 1].path, stack[n + 1].depth)

\* What a stat is for: the entry, the file itself, or the files below.
Statted(c, s) ==
    IF s.origin # Root /\ s.origin \notin ToSet(s.value) THEN Finish(c, s, "NOT_FOUND")
    ELSE IF s.op = "stat" THEN Finish(c, s, None)
    ELSE IF s.origin \in Files THEN Finish(c, [s EXCEPT !.found = <<s.origin>>], None)
    ELSE EnterDirectory(c, s, s.origin, 0)

\* A call goes on with what it has read.
Resume(c) ==
    LET s == reader[c]
        children == [i \in DOMAIN s.value |-> [path |-> s.value[i], depth |-> s.depth + 1]]
    IN  /\ s.pc = "got"
        /\ \/ (s.code # None \/ s.phase = "file") /\ Finish(c, s, s.code)
           \/ s.code = None /\ s.phase = "stat" /\ Statted(c, s)
           \/ s.code = None /\ s.phase = "walk" /\ Walk(c, s, children \o s.todo)
        /\ UNCHANGED <<retained, started>>

-----------------------------------------------------------------------------
(* Reads that are under way. *)

Content(r, p) == IF p \in Files THEN <<r, p>> ELSE Tree[r][p]

\* What an adapter may answer: also a list that has a child twice, or what is
\* not a child.
Answers(r, p) ==
    IF ~Exists(r, p) THEN {}
    ELSE {Content(r, p)} \cup
         IF p \in Files THEN {}
         ELSE {Append(Tree[r][p], x) : x \in {Root} \cup ToSet(Tree[r][p])}

\* The names of a directory are segments, and occur once.
ValidateDirectoryEntries(d, answer) ==
    IsInjective(answer) /\ \A x \in ToSet(answer) : x # Root /\ Front(x) = d

\* What an adapter's rejection may say: that there is nothing only where there is
\* nothing (docs/adapter-contract.md:51); OFFLINE stands for every other code.
Rejections(of) ==
    {"OFFLINE"} \cup (IF Exists(of[1], of[2]) THEN {} ELSE {"NOT_FOUND"})
                \cup (IF of \in Unsupported THEN {"UNSUPPORTED"} ELSE {})

Flies(k, pc, value) ==
    /\ pending' = [pending EXCEPT ![k].pc = pc, ![k].value = value]
    /\ UNCHANGED <<reader, started>>

Fails(k, code) ==
    /\ pending' = [pending EXCEPT ![k].pc = "failed", ![k].value = None, ![k].code = code]
    /\ UNCHANGED <<entries, retained, reader, started, used>>

AdapterAnswers(k) ==
    /\ pending[k].pc = "asked"
    /\ \E answer \in Answers(pending[k].of[1], pending[k].of[2]) : Flies(k, "answered", answer)
    /\ UNCHANGED <<entries, retained, used>>

AdapterRejects(k) ==
    /\ pending[k].pc = "asked"
    /\ \E code \in Rejections(pending[k].of) : Fails(k, code)

\* A mutant: one timer, for the read that was alone.
DeadlineOfOne(k) ==
    /\ pending[k].pc = "asked" /\ \A other \in DOMAIN pending \ {k} : pending[other].pc # "asked"
    /\ Fails(k, "OFFLINE")

\* An answer that comes later is for nobody.
Deadline(k) ==
    /\ pending[k].pc = "asked" /\ Fails(k, "OFFLINE")

\* The answer is looked at and kept.
Store(k) ==
    LET of == pending[k].of
        answer == pending[k].value
    IN  /\ pending[k].pc = "answered"
        /\ IF of[2] \in Files \/ ValidateDirectoryEntries(of[2], answer)
           THEN SetEntry(k, answer, Weight[of]) /\ Flies(k, "stored", answer)
           ELSE Fails(k, "UNKNOWN")

\* finally: the read is forgotten, and all who wait for it go on.
Forget(k) ==
    /\ pending[k].pc \in {"stored", "failed"}
    /\ pending' = [pending EXCEPT ![k] = NoFlight]
    /\ reader' = [c \in Callers |->
          IF reader[c].pc = "wait" /\ Key(reader[c].revision, reader[c].path) = k
          THEN [reader[c] EXCEPT !.pc = "got", !.value = pending[k].value,
                                 !.code = pending[k].code]
          ELSE reader[c]]
    /\ UNCHANGED <<entries, retained, started, used>>

-----------------------------------------------------------------------------

Next ==
    \/ \E c \in Callers : ReadFile(c) \/ Stat(c) \/ ListFilesRecursively(c) \/ Resume(c)
    \/ \E k \in Keys :
          AdapterAnswers(k) \/ AdapterRejects(k) \/ Deadline(k) \/ Store(k) \/ Forget(k)

\* The timers fire and microtasks run; an adapter need not answer.
Spec ==
    /\ Init /\ [][Next]_vars
    /\ \A c \in Callers : WF_vars(Resume(c))
    /\ \A k \in Keys : WF_vars(Deadline(k)) /\ WF_vars(Store(k) \/ Forget(k))

-----------------------------------------------------------------------------
(* Properties. *)

Values == {None} \cup UNION {Answers(k[1], k[2]) : k \in Keys}
Codes == {"OFFLINE", "UNKNOWN", "NOT_FOUND", "UNSUPPORTED", None}
Entries == [key : Keys, value : Values, weight : Nat]
Flights == [pc : {"none", "asked", "answered", "stored", "failed"}, of : Keys \cup {None},
            value : Values, code : Codes]
Nodes == [path : Paths, depth : Nat]
Calls == [pc : {"idle", "wait", "got", "done"}, op : {"file", "stat", "list", None},
          revision : Revisions \cup {None}, origin : Paths \cup {None},
          phase : {"file", "stat", "walk", None}, path : Paths \cup {None}, value : Values,
          depth : Nat, todo : Seq(Nodes), visited : Nat, found : Seq(Files),
          code : Codes]

TypeOK ==
    /\ entries \in Seq(Entries) /\ retained \in Nat /\ used \in Seq(Keys)
    /\ pending \in [Keys -> Flights]
    /\ reader \in [Callers -> Calls]
    /\ started \in 0 .. MaxReads

\* What the cache accounts for is what it holds, each key once, within its limits,
\* and what it holds was used later than all that it does not, whichever reads
\* end in whichever order ("bounded LRU cache", docs/architecture.md).
CacheIsExact ==
    /\ retained = WeightOf(entries) /\ retained <= MaxBytes /\ Len(entries) <= MaxEntries
    /\ IsInjective([i \in DOMAIN entries |-> entries[i].key])
    /\ IsSuffix([i \in DOMAIN entries |-> entries[i].key], used)

Below(r, d) == {p \in Paths : Exists(r, p) /\ IsStrictPrefix(d, p)}

Fits(r, d) ==
    /\ Cardinality(Below(r, d)) <= MaxNodes
    /\ \A p \in Below(r, d) \cap Directories : Len(p) - Len(d) <= MaxDepth

\* What a call may ask an adapter for: the file, the parent of what it looks up, the
\* directories it walks.
Consults(s) ==
    IF s.op = "file" THEN {s.origin}
    ELSE (IF s.origin = Root THEN {} ELSE {Front(s.origin)}) \cup
         (IF s.op = "list" THEN Directories \cap (Below(s.revision, s.origin) \cup {s.origin})
          ELSE {})

\* A call has the content of the revision and path it asked for, a walk every
\* file once, however much was evicted, shared or answered wrongly meanwhile.  It
\* says that there is nothing only where there is nothing, and that it cannot be
\* done only where a limit is exceeded or an adapter refuses one of its reads; as
\* OFFLINE or UNKNOWN it may fail at any time.
ReadsAreExact ==
    \A c \in Callers :
        LET s == reader[c]
            there == Exists(s.revision, s.origin)
            fits == s.origin \in Files \/ Fits(s.revision, s.origin)
        IN  s.pc = "done" =>
              CASE s.code \in {"OFFLINE", "UNKNOWN"} -> TRUE
                [] s.code = "NOT_FOUND" -> ~there
                [] s.code = "UNSUPPORTED" ->
                     \/ s.op = "list" /\ there /\ ~fits
                     \/ \E p \in Consults(s) : <<s.revision, p>> \in Unsupported
                [] OTHER ->
                     /\ there
                     /\ s.op = "file" => s.value = Content(s.revision, s.origin)
                     /\ s.op = "list" =>
                           /\ fits /\ IsInjective(s.found)
                           /\ ToSet(s.found) = Files \cap
                                 (Below(s.revision, s.origin) \cup {s.origin})

\* Every call ends, though an adapter may never answer.
ReadsEnd == \A c \in Callers : reader[c].pc \in {"wait", "got"} ~> reader[c].pc = "done"
=============================================================================
