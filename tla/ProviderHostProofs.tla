------------------------- MODULE ProviderHostProofs -------------------------
(***************************************************************************)
(* Theorems of ProviderHost: one operation at a time has its turn, so at   *)
(* most one workspace is opened and registered, for any number of          *)
(* commands, keys, waiters and workspaces.                                 *)
(***************************************************************************)
EXTENDS ProviderHost, FiniteSetTheorems, TLAPS

InQueue(o) == op[o].pc \in {"queued", "opening", "persisting", "branch"}
Running(o) == op[o].pc \in {"opening", "persisting", "branch"}

\* The queue is a line: place gives each operation its place from lo to hi, the
\* one at lo has its turn and the one at hi is the tail.
Line(place, lo, hi) ==
    /\ place \in [Ops -> Int] /\ lo \in Int /\ hi \in Int
    /\ \A o \in Ops : InQueue(o) =>
          /\ lo <= place[o] /\ place[o] <= hi
          /\ op[o].after = None <=> place[o] = lo
          /\ op[o].after # None =>
                /\ op[o].after \in Ops /\ InQueue(op[o].after)
                /\ place[op[o].after] = place[o] - 1
                /\ op[o].pc = "queued"
    /\ \A o, p \in Ops : InQueue(o) /\ InQueue(p) /\ place[o] = place[p] => o = p
    /\ \A o \in Ops : ~InQueue(o) => op[o].after = None
    /\ IF tail = None THEN \A o \in Ops : ~InQueue(o)
       ELSE tail \in Ops /\ InQueue(tail) /\ place[tail] = hi

QueueInv == \E place \in [Ops -> Int] : \E lo, hi \in Int : Line(place, lo, hi)

\* What an operation that has its turn knows of the workspace: its own one is
\* not registered yet, and the registered one stays until the host goes.
WorkspaceInv ==
    \A o \in Ops :
        /\ op[o].fresh => Running(o) /\ registered = 0
        /\ op[o].pc = "opening" => op[o].fresh
        /\ op[o].fresh /\ op[o].pc # "opening" => op[o].workspace # 0
        /\ op[o].fresh /\ op[o].pc = "branch" => metadata
        /\ ~op[o].fresh /\ Running(o) /\ ~disposed =>
              op[o].workspace # 0 /\ op[o].workspace = registered

\* A selection belongs to one command, which began it.
SelectInv ==
    /\ \A c \in Callers :
          client[c].pc = "unused" => op[[kind |-> "select", of |-> c]].pc = "none"
    /\ \A c \in Clients : client[c].pc = "resolving" => client[c].op.kind # "select"

StepInv == QueueInv /\ WorkspaceInv /\ SelectInv /\ CallersShareIt /\ NoWaiterLeftBehind
HostInv == TypeOK /\ StepInv

UnderWay == client[Attempt].pc \notin {"unused", "ending"}

-----------------------------------------------------------------------------
(* The queue. *)

\* Nobody joins or leaves the queue, and who waits goes on waiting.
SameQueue ==
    /\ tail' = tail
    /\ \A o \in Ops :
          /\ op'[o].after = op[o].after
          /\ InQueue(o)' <=> InQueue(o)
          /\ op[o].after # None => op'[o].pc = op[o].pc

LEMMA QueueSame ==
    ASSUME QueueInv, SameQueue
    PROVE  QueueInv'
  <1>1. PICK place \in [Ops -> Int], lo \in Int, hi \in Int : Line(place, lo, hi)
    BY DEF QueueInv
  <1>2. Line(place, lo, hi)'
    BY <1>1 DEF Line, SameQueue
  <1> QED
    BY <1>2 DEF QueueInv

LEMMA QueueEnqueue ==
    ASSUME TypeOK, QueueInv, NEW o \in Ops, ~InQueue(o), Enqueue(o)
    PROVE  QueueInv'
  <1> USE ProviderHostAssumption
  <1>1. PICK place \in [Ops -> Int], lo \in Int, hi \in Int : Line(place, lo, hi)
    BY DEF QueueInv
  <1>2. /\ op'[o].pc = "queued" /\ op'[o].after = tail
        /\ \A p \in Ops \ {o} : op'[p] = op[p]
        /\ tail' = o
    BY DEF Enqueue, TypeOK
  <1>3. CASE tail = None
    <2> DEFINE next == [place EXCEPT ![o] = 0]
    <2>1. next \in [Ops -> Int] /\ next[o] = 0
      OBVIOUS
    <2>2. \A p \in Ops : ~InQueue(p) /\ op[p].after = None
      BY <1>1, <1>3 DEF Line
    <2>3. \A p \in Ops : InQueue(p)' <=> p = o
      BY <1>2, <2>2 DEF InQueue
    <2> HIDE DEF next
    <2>4. Line(next, 0, 0)'
      BY <1>2, <1>3, <2>1, <2>2, <2>3 DEF Line
    <2> QED
      BY <2>1, <2>4 DEF QueueInv
  <1>4. CASE tail # None
    <2> DEFINE next == [place EXCEPT ![o] = hi + 1]
    <2>1. /\ next \in [Ops -> Int] /\ next[o] = hi + 1
          /\ \A p \in Ops \ {o} : next[p] = place[p]
      OBVIOUS
    <2>2. tail \in Ops /\ tail # o /\ InQueue(tail) /\ place[tail] = hi
      BY <1>1, <1>4 DEF Line
    <2>3. \A p \in Ops : InQueue(p)' <=> p = o \/ InQueue(p)
      BY <1>2 DEF InQueue
    <2> HIDE DEF next
    <2>4. \A p \in Ops \ {o} : InQueue(p) => op[p].after # o
      BY <1>1 DEF Line
    <2>5. Line(next, lo, hi + 1)'
      BY <1>1, <1>2, <1>4, <2>1, <2>2, <2>3, <2>4 DEF Line
    <2> QED
      BY <2>1, <2>5 DEF QueueInv
  <1> QED
    BY <1>3, <1>4

LEMMA QueueLeave ==
    ASSUME TypeOK, QueueInv, NEW o \in Ops, op[o].after = None, Leave(o)
    PROVE  QueueInv'
  <1> USE ProviderHostAssumption
  <1>1. PICK place \in [Ops -> Int], lo \in Int, hi \in Int : Line(place, lo, hi)
    BY DEF QueueInv
  <1>2. /\ op'[o].pc = "none" /\ op'[o].after = None
        /\ \A p \in Ops \ {o} :
              /\ op'[p].pc = op[p].pc
              /\ op'[p].after = IF op[p].after = o THEN None ELSE op[p].after
        /\ tail' = IF tail = o THEN None ELSE tail
    BY DEF Leave, Without, NoOp, TypeOK
  <1>3. \A p \in Ops : InQueue(p)' <=> p # o /\ InQueue(p)
    BY <1>2 DEF InQueue
  <1>4. CASE InQueue(o)
    <2>1. place[o] = lo
      BY <1>1, <1>4 DEF Line
    <2>2. \A p \in Ops \ {o} : InQueue(p) => place[p] > lo /\ op[p].after # None
      BY <1>1, <1>4, <2>1 DEF Line
    <2>3. \A p \in Ops \ {o} : InQueue(p) => (op[p].after = o <=> place[p] = lo + 1)
      BY <1>1, <1>4, <2>1, <2>2 DEF Line
    <2>4. tail = o => \A p \in Ops \ {o} : ~InQueue(p)
      BY <1>1, <2>1, <2>2 DEF Line
    <2>5. Line(place, lo + 1, hi)'
      BY <1>1, <1>2, <1>3, <2>2, <2>3, <2>4 DEF Line
    <2> QED
      BY <2>5 DEF QueueInv
  <1>5. CASE ~InQueue(o)
    <2>1. tail # o /\ \A p \in Ops : op[p].after # o
      BY <1>1, <1>5 DEF Line
    <2>2. Line(place, lo, hi)'
      BY <1>1, <1>2, <1>3, <1>5, <2>1 DEF Line
    <2> QED
      BY <2>2 DEF QueueInv
  <1> QED
    BY <1>4, <1>5

\* At most one operation has its turn.
LEMMA OneTurn ==
    ASSUME QueueInv, NEW o \in Ops, NEW p \in Ops,
           Running(o) \/ Turn(o), Running(p) \/ Turn(p)
    PROVE  o = p
  <1>1. PICK place \in [Ops -> Int], lo \in Int, hi \in Int : Line(place, lo, hi)
    BY DEF QueueInv
  <1>2. InQueue(o) /\ InQueue(p)
    BY DEF Running, Turn, InQueue
  <1>3. op[o].after = None /\ op[p].after = None
    BY <1>1, <1>2 DEF Line, Running, Turn
  <1> QED
    BY <1>1, <1>2, <1>3 DEF Line

-----------------------------------------------------------------------------
(* Types, and how calls end. *)

Client == [pc: {"unused", "asking", "resolving", "awaiting", "ending", "done", "failed"},
           op: MaybeOp, workspace: Workspace \cup {0}]
Op == [pc: {"none", "identifying", "queued", "opening", "persisting", "branch"},
       after: MaybeOp, workspace: Workspace \cup {0}, fresh: BOOLEAN]
Answers == [Waiters -> {"unused", "waiting", "late", "served", "rejected"}]

LEMMA HostInit == Init => HostInv
  <1> SUFFICES ASSUME Init
               PROVE  HostInv
    OBVIOUS
  <1> USE ProviderHostAssumption
  <1>1. TypeOK
    BY DEF Init, TypeOK, NoOp, Idle, MaybeOp
  <1>2. QueueInv
    <2>1. Line([o \in Ops |-> 0], 0, 0)
      BY DEF Init, Line, InQueue, NoOp
    <2> QED
      BY <2>1 DEF QueueInv
  <1>3. WorkspaceInv
    BY DEF Init, WorkspaceInv, NoOp, Running
  <1>4. SelectInv
    BY DEF Init, SelectInv, NoOp, Ops, Idle
  <1>5. CallersShareIt /\ NoWaiterLeftBehind
    BY DEF Init, CallersShareIt, NoWaiterLeftBehind, Idle, Clients
  <1> QED
    BY <1>1, <1>2, <1>3, <1>4, <1>5 DEF HostInv, StepInv

LEMMA EndedFacts ==
    ASSUME TypeOK, NEW C, NEW w \in Workspace \cup {0}
    PROVE  /\ Ended(C, w) \in [Clients -> Client]
           /\ \A c \in Callers :
                 /\ c \notin C => Ended(C, w)[c] = client[c]
                 /\ c \in C => /\ Ended(C, w)[c].pc = IF w = 0 THEN "failed" ELSE "done"
                              /\ Ended(C, w)[c].workspace = w
           /\ Ended(C, w)[Attempt] = IF Attempt \in C THEN Ending ELSE client[Attempt]
  <1> USE ProviderHostAssumption
  <1>1. \A c \in Clients : client[c] \in Client
    BY DEF TypeOK, Client
  <1>2. Ending \in Client
    BY DEF Ending, Idle, Client, MaybeOp
  <1>3. \A c \in Clients : \A pc \in {"failed", "done"} :
           /\ [client[c] EXCEPT !.pc = pc, !.workspace = w] \in Client
           /\ [client[c] EXCEPT !.pc = pc, !.workspace = w].pc = pc
           /\ [client[c] EXCEPT !.pc = pc, !.workspace = w].workspace = w
    BY <1>1 DEF Client
  <1>4. \A c \in Clients : Ended(C, w)[c] =
           IF c \notin C THEN client[c]
           ELSE IF c = Attempt THEN Ending
           ELSE [client[c] EXCEPT !.pc = IF w = 0 THEN "failed" ELSE "done", !.workspace = w]
    BY DEF Ended
  <1>5. Ended(C, w) \in [Clients -> Client]
    BY <1>1, <1>2, <1>3 DEF Ended
  <1>6. ASSUME NEW c \in Callers
        PROVE  /\ c \notin C => Ended(C, w)[c] = client[c]
               /\ c \in C => /\ Ended(C, w)[c].pc = IF w = 0 THEN "failed" ELSE "done"
                            /\ Ended(C, w)[c].workspace = w
    <2> DEFINE pc == IF w = 0 THEN "failed" ELSE "done"
    <2>1. c \in Clients /\ c # Attempt /\ pc \in {"failed", "done"}
      BY DEF Clients
    <2>2. c \in C => Ended(C, w)[c] = [client[c] EXCEPT !.pc = pc, !.workspace = w]
      BY <1>4, <2>1
    <2>3. c \notin C => Ended(C, w)[c] = client[c]
      BY <1>4, <2>1
    <2> HIDE DEF pc
    <2>4. /\ [client[c] EXCEPT !.pc = pc, !.workspace = w].pc = pc
          /\ [client[c] EXCEPT !.pc = pc, !.workspace = w].workspace = w
      BY <1>3, <2>1
    <2>5. c \in C => Ended(C, w)[c].pc = pc /\ Ended(C, w)[c].workspace = w
      BY <2>2, <2>4
    <2> QED
      BY <2>3, <2>5 DEF pc
  <1>7. Ended(C, w)[Attempt] = IF Attempt \in C THEN Ending ELSE client[Attempt]
    BY <1>4 DEF Clients
  <1> QED
    BY <1>5, <1>6, <1>7

LEMMA EndTypes ==
    ASSUME TypeOK, NEW C, NEW w \in Workspace \cup {0}, End(C, w)
    PROVE  client' \in [Clients -> Client] /\ waiter' \in Answers
  BY EndedFacts DEF End, Told, Waiting, TypeOK, Answers

LEMMA OpTypes ==
    ASSUME TypeOK, NEW o \in Ops
    PROVE  /\ Leave(o) => op' \in [Ops -> Op] /\ tail' \in MaybeOp
           /\ Enqueue(o) => op' \in [Ops -> Op] /\ tail' \in MaybeOp
           /\ op[o] \in Op
  <1> USE ProviderHostAssumption
  <1>1. op \in [Ops -> Op] /\ tail \in MaybeOp
    BY DEF TypeOK, Op
  <1>2. NoOp \in Op /\ \A x \in Ops : [op[x] EXCEPT !.after = None] \in Op
    BY <1>1 DEF NoOp, Op, MaybeOp
  <1>3. Leave(o) => op' \in [Ops -> Op] /\ tail' \in MaybeOp
    BY <1>1, <1>2 DEF Leave, Without, MaybeOp
  <1>4. Enqueue(o) => op' \in [Ops -> Op] /\ tail' \in MaybeOp
    <2>1. op[o] \in Op /\ tail \in MaybeOp
      BY <1>1
    <2>2. [op[o] EXCEPT !.pc = "queued", !.after = tail] \in Op
      BY <2>1 DEF Op
    <2>3. Enqueue(o) => op' = [op EXCEPT ![o] = [op[o] EXCEPT !.pc = "queued", !.after = tail]]
      BY DEF Enqueue
    <2> QED
      BY <1>1, <2>2, <2>3 DEF Enqueue, MaybeOp
  <1> QED
    BY <1>1, <1>3, <1>4

\* A settled operation leaves, and its callers have its workspace.
LEMMA SettleTypes ==
    ASSUME TypeOK, NEW o \in Ops, Settle(o) \/ Fail(o)
    PROVE  /\ op' \in [Ops -> Op] /\ tail' \in MaybeOp
           /\ client' \in [Clients -> Client] /\ waiter' \in Answers
           /\ registered' \in Workspace \cup {0}
  <1>1. op[o].workspace \in Workspace \cup {0} /\ 0 \in Workspace \cup {0}
    BY OpTypes DEF Op
  <1>2. Leave(o)
    BY DEF Settle, Fail
  <1>3. registered' \in Workspace \cup {0}
    BY <1>1 DEF Settle, Fail, Register, TypeOK
  <1>4. client' \in [Clients -> Client]
    BY <1>1, EndedFacts DEF Settle, Fail, Register, End
  <1>5. waiter' \in Answers
    BY DEF Settle, Fail, Register, End, Told, Waiting, TypeOK, Answers
  <1> QED
    BY <1>2, <1>3, <1>4, <1>5, OpTypes

LEMMA HostTypes ==
    ASSUME TypeOK, [Next]_vars
    PROVE  TypeOK'
  <1> USE ProviderHostAssumption
  <1>c. /\ client \in [Clients -> Client] /\ waiter \in Answers
        /\ op \in [Ops -> Op] /\ tail \in MaybeOp
        /\ registered \in Workspace \cup {0} /\ opened \in Workspace \cup {0}
        /\ \A c \in Callers : c \in Clients
        /\ Attempt \in Clients /\ Restore \in Ops
        /\ \A k \in Keys : [kind |-> "ensure", of |-> k] \in Ops
        /\ \A c \in Callers : [kind |-> "select", of |-> c] \in Ops
    BY DEF TypeOK, Client, Op, Answers, Clients, Ops, Restore
  <1>t. ASSUME client' \in [Clients -> Client], waiter' \in Answers,
               op' \in [Ops -> Op], tail' \in MaybeOp,
               registered' \in Workspace \cup {0}, opened' \in Workspace \cup {0},
               provider' \in {"unknown", "activating", "ready"},
               metadata' \in BOOLEAN, disposed' \in BOOLEAN
        PROVE  TypeOK'
    BY <1>t DEF TypeOK, Client, Op, Answers
  <1>b. provider \in {"unknown", "activating", "ready"} /\ metadata \in BOOLEAN /\ disposed \in BOOLEAN
    BY DEF TypeOK
  <1>r. ASSUME NEW c \in Clients, NEW o \in Ops, Resolve(c, o)
        PROVE  client' \in [Clients -> Client] /\ provider' \in {"unknown", "activating", "ready"}
    <2>1. provider' \in {"unknown", "activating", "ready"}
      BY <1>r, <1>b DEF Resolve
    <2>2. [client[c] EXCEPT !.pc = "resolving", !.op = o] \in Client
      BY <1>c DEF Client, MaybeOp
    <2>3. client' = [client EXCEPT ![c] = [client[c] EXCEPT !.pc = "resolving", !.op = o]]
      BY <1>r, <1>c DEF Resolve
    <2> QED
      BY <1>c, <2>1, <2>2, <2>3
  <1>1. ASSUME NEW c \in Callers, NEW k \in Keys, EnsureRepository(c, k)
        PROVE  TypeOK'
    BY <1>1, <1>b, <1>c, <1>r, <1>t DEF EnsureRepository
  <1>2. CASE Activated
    BY <1>2, <1>b, <1>c, <1>t DEF Activated
  <1>3. CASE ActivationFails
    BY <1>3, <1>b, <1>c, <1>t, EndTypes DEF ActivationFails
  <1>4. ASSUME NEW c \in Clients, ResolveThrows(c)
        PROVE  TypeOK'
    BY <1>4, <1>b, <1>c, <1>t, EndTypes DEF ResolveThrows
  <1>5. ASSUME NEW c \in Clients, Prepare(c)
        PROVE  TypeOK'
    <2>1. client' \in [Clients -> Client]
      BY <1>5, <1>c DEF Prepare, Client
    <2>2. op' \in [Ops -> Op]
      <3> DEFINE o == client[c].op
      <3>1. op' = IF op[o].pc = "none" THEN [op EXCEPT ![o].pc = "identifying"] ELSE op
        BY <1>5 DEF Prepare
      <3> HIDE DEF o
      <3>2. \A p \in Ops : [op[p] EXCEPT !.pc = "identifying"] \in Op
        BY <1>c DEF Op
      <3>3. [op EXCEPT ![o].pc = "identifying"] \in [Ops -> Op]
        BY <1>c, <3>2
      <3> QED
        BY <1>c, <3>1, <3>3
    <2> QED
      BY <1>5, <1>b, <1>c, <1>t, <2>1, <2>2 DEF Prepare
  <1>6. ASSUME NEW c \in Callers, SelectPreparedBranch(c)
        PROVE  TypeOK'
    <2>1. client' \in [Clients -> Client]
      <3> DEFINE x == [client[c] EXCEPT !.pc = "awaiting", !.op = [kind |-> "select", of |-> c]]
      <3>1. c \in Clients /\ client[c] \in Client /\ [kind |-> "select", of |-> c] \in MaybeOp
        BY <1>c DEF MaybeOp
      <3>2. x \in Client
        BY <3>1 DEF Client
      <3>3. client' = [client EXCEPT ![c] = x]
        BY <1>6 DEF SelectPreparedBranch
      <3> HIDE DEF x
      <3> QED
        BY <1>c, <3>2, <3>3
    <2> QED
      BY <1>6, <1>b, <1>c, <1>t, <2>1, OpTypes DEF SelectPreparedBranch
  <1>7. ASSUME NEW o \in Ops, Identified(o)
        PROVE  TypeOK'
    BY <1>7, <1>b, <1>c, <1>t, OpTypes DEF Identified
  <1>8. ASSUME NEW o \in Ops, StartOpening(o)
        PROVE  TypeOK'
    <2>1. op' \in [Ops -> Op]
      <3>1. op[o] \in Op
        BY <1>c
      <3>2. [op[o] EXCEPT !.pc = "opening", !.fresh = TRUE] \in Op
        BY <3>1 DEF Op
      <3>3. op' = [op EXCEPT ![o] = [op[o] EXCEPT !.pc = "opening", !.fresh = TRUE]]
        BY <1>8 DEF StartOpening
      <3> QED
        BY <1>c, <3>2, <3>3
    <2> QED
      BY <1>8, <1>b, <1>c, <1>t, <2>1 DEF StartOpening
  <1>9. ASSUME NEW o \in Ops, StartWithRegistered(o)
        PROVE  TypeOK'
    <2>1. op' \in [Ops -> Op]
      <3>1. \A pc \in {"branch", "persisting"} :
               [op EXCEPT ![o].pc = pc, ![o].workspace = registered] \in [Ops -> Op]
        <4>1. op[o] \in Op /\ registered \in Workspace \cup {0}
          BY <1>c
        <4>2. \A pc \in {"branch", "persisting"} :
                 [op[o] EXCEPT !.pc = pc, !.workspace = registered] \in Op
          BY <4>1 DEF Op
        <4>3. \A pc : [op EXCEPT ![o].pc = pc, ![o].workspace = registered]
                         = [op EXCEPT ![o] = [op[o] EXCEPT !.pc = pc, !.workspace = registered]]
          BY <1>c
        <4> QED
          BY <1>c, <4>2, <4>3
      <3>2. (IF o.kind = "select" THEN "branch" ELSE "persisting") \in {"branch", "persisting"}
        OBVIOUS
      <3> QED
        BY <1>9, <3>1, <3>2 DEF StartWithRegistered
    <2> QED
      BY <1>9, <1>b, <1>c, <1>t, <2>1 DEF StartWithRegistered
  <1>10. ASSUME NEW o \in Ops, Opened(o)
         PROVE  TypeOK'
    <2>1. opened' \in Workspace /\ opened' = opened + 1
      BY <1>10, <1>c DEF Opened, Workspace
    <2>2. op' \in [Ops -> Op]
      <3>1. op' = [op EXCEPT ![o] = [op[o] EXCEPT !.pc = "persisting", !.workspace = opened']]
        BY <1>10, <1>c, <2>1 DEF Opened
      <3>2. \A w \in Workspace : [op[o] EXCEPT !.pc = "persisting", !.workspace = w] \in Op
        <4>1. op[o] \in Op
          BY <1>c
        <4> QED
          BY <4>1 DEF Op
      <3> QED
        BY <1>c, <2>1, <3>1, <3>2
    <2> QED
      BY <1>10, <1>b, <1>c, <1>t, <2>1, <2>2 DEF Opened
  <1>11. ASSUME NEW o \in Ops, Persisted(o)
         PROVE  TypeOK'
    <2>1. CASE Settle(o)
      BY <1>11, <1>b, <1>c, <1>t, <2>1, SettleTypes DEF Persisted
    <2>2. CASE op' = [op EXCEPT ![o].pc = "branch"] /\ UNCHANGED <<client, tail, registered, waiter>>
      <3>1. op' \in [Ops -> Op]
        BY <1>c, <2>2 DEF Op
      <3> QED
        BY <1>11, <1>b, <1>c, <1>t, <2>2, <3>1 DEF Persisted
    <2> QED
      BY <1>11, <2>1, <2>2 DEF Persisted
  <1>12. ASSUME NEW o \in Ops, OnBranch(o)
         PROVE  TypeOK'
    BY <1>12, <1>b, <1>c, <1>t, SettleTypes DEF OnBranch
  <1>13. ASSUME NEW o \in Ops, Throw(o)
         PROVE  TypeOK'
    BY <1>13, <1>b, <1>c, <1>t, SettleTypes DEF Throw
  <1>14. ASSUME NEW w \in Waiters, WaitFor(w)
         PROVE  TypeOK'
    <2>1. client' \in [Clients -> Client]
      BY <1>14, <1>c DEF WaitFor, Client
    <2>2. waiter' \in Answers
      BY <1>14, <1>c DEF WaitFor, Answers
    <2> QED
      BY <1>14, <1>b, <1>c, <1>t, <2>1, <2>2 DEF WaitFor
  <1>15. ASSUME NEW w \in Waiters, GiveUp(w)
         PROVE  TypeOK'
    BY <1>15, <1>b, <1>c, <1>t DEF GiveUp, Waiting, Answers
  <1>16. CASE FindProvider
    BY <1>16, <1>b, <1>c, <1>r, <1>t DEF FindProvider
  <1>20. CASE AttemptOver
    BY <1>20, <1>b, <1>c, <1>t DEF AttemptOver, Idle, Client, MaybeOp
  <1>17. CASE RestoreThrows
    BY <1>17, <1>b, <1>c, <1>t, EndTypes DEF RestoreThrows
  <1>18. CASE Dispose
    BY <1>18, <1>b, <1>c, <1>t DEF Dispose
  <1>19. CASE UNCHANGED vars
    BY <1>19, <1>b, <1>c, <1>t DEF vars
  <1> QED
    BY <1>1, <1>2, <1>3, <1>4, <1>5, <1>6, <1>7, <1>8, <1>9, <1>10, <1>11, <1>12, <1>13,
       <1>14, <1>15, <1>16, <1>17, <1>18, <1>19, <1>20 DEF Next, Continue

-----------------------------------------------------------------------------
(* The steps of commands and waiters. *)

LEMMA QueueFacts ==
    ASSUME QueueInv, NEW o \in Ops, ~InQueue(o) \/ Running(o) \/ Turn(o)
    PROVE  op[o].after = None
  BY DEF QueueInv, Line, InQueue, Running, Turn

\* A step that only moves clients and waiters.
LEMMA ClientStep ==
    ASSUME StepInv, UNCHANGED <<op, tail, registered, metadata, disposed>>,
           \A c \in Callers :
              /\ client'[c].pc = "unused" => client[c].pc = "unused"
              /\ client'[c].pc = "done" =>
                    client[c].pc = "done" /\ client'[c].workspace = client[c].workspace,
           \A c \in Clients : client'[c].pc = "resolving" =>
              client'[c].op.kind # "select",
           NoWaiterLeftBehind'
    PROVE  StepInv'
  <1>1. QueueInv'
    BY QueueSame DEF StepInv, SameQueue, InQueue
  <1>2. WorkspaceInv'
    BY DEF StepInv, WorkspaceInv, Running
  <1>3. SelectInv'
    BY DEF StepInv, SelectInv
  <1>4. CallersShareIt'
    BY DEF StepInv, CallersShareIt
  <1> QED
    BY <1>1, <1>2, <1>3, <1>4 DEF StepInv

\* Calls that throw, and the attempt when it is among them.
LEMMA ThrownStep ==
    ASSUME TypeOK, StepInv, NEW C, End(C, 0),
           UNCHANGED <<op, tail, registered, metadata, disposed>>
    PROVE  StepInv'
  <1> USE ProviderHostAssumption
  <1>1. /\ \A c \in Callers : c \notin C => client'[c] = client[c]
        /\ \A c \in Callers : c \in C => client'[c].pc = "failed"
        /\ client'[Attempt] = IF Attempt \in C THEN Ending ELSE client[Attempt]
    BY EndedFacts DEF End
  <1>2. \A c \in Clients : client'[c].pc = "resolving" => client'[c].op.kind # "select"
    BY <1>1 DEF Clients, Ending, Idle, StepInv, SelectInv
  <1>3. NoWaiterLeftBehind'
    <2>1. CASE Attempt \in C
      BY <2>1 DEF End, Told, Waiting, NoWaiterLeftBehind
    <2>2. CASE Attempt \notin C
      BY <1>1, <2>2 DEF End, StepInv, NoWaiterLeftBehind
    <2> QED
      BY <2>1, <2>2
  <1> QED
    BY <1>1, <1>2, <1>3, ClientStep

LEMMA ResolveStep ==
    ASSUME TypeOK, StepInv, NEW c \in Clients, NEW o \in Ops, Resolve(c, o), o.kind # "select",
           UNCHANGED <<op, tail, registered, metadata, waiter, disposed>>
    PROVE  StepInv'
  <1> USE ProviderHostAssumption
  <1>1. /\ client'[c].pc = "resolving" /\ client'[c].op = o
        /\ \A d \in Clients \ {c} : client'[d] = client[d]
    BY DEF Resolve, TypeOK
  <1>2. \A d \in Clients : client'[d].pc = "resolving" => client'[d].op.kind # "select"
    BY <1>1 DEF StepInv, SelectInv
  <1>3. NoWaiterLeftBehind'
    BY <1>1 DEF StepInv, NoWaiterLeftBehind, Clients
  <1> QED
    BY <1>1, <1>2, <1>3, ClientStep DEF Clients

LEMMA CallSteps ==
    ASSUME TypeOK, StepInv,
           \/ \E c \in Callers, k \in Keys : EnsureRepository(c, k)
           \/ Activated \/ ActivationFails \/ FindProvider \/ RestoreThrows \/ AttemptOver
           \/ \E c \in Clients : ResolveThrows(c)
           \/ \E w \in Waiters : WaitFor(w) \/ GiveUp(w)
    PROVE  StepInv'
  <1> USE ProviderHostAssumption
  <1>1. ASSUME NEW c \in Callers, NEW k \in Keys, EnsureRepository(c, k)
        PROVE  StepInv'
    <2>1. c \in Clients /\ [kind |-> "ensure", of |-> k] \in Ops
      BY DEF Clients, Ops
    <2> QED
      BY <1>1, <2>1, ResolveStep DEF EnsureRepository
  <1>2. CASE Activated
    BY <1>2, ClientStep DEF Activated, StepInv, SelectInv, NoWaiterLeftBehind
  <1>3. ASSUME ActivationFails \/ RestoreThrows \/ \E c \in Clients : ResolveThrows(c)
        PROVE  StepInv'
    BY <1>3, ThrownStep DEF ActivationFails, RestoreThrows, ResolveThrows
  <1>4. CASE FindProvider
    <2>1. Attempt \in Clients /\ Restore \in Ops /\ Restore.kind # "select"
      BY DEF Clients, Ops, Restore
    <2> QED
      BY <1>4, <2>1, ResolveStep DEF FindProvider
  <1>5. ASSUME NEW w \in Waiters, WaitFor(w)
        PROVE  StepInv'
    <2>1. /\ \A c \in Callers : client'[c] = client[c]
          /\ client'[Attempt].pc = "resolving" => client'[Attempt] = client[Attempt]
          /\ client[Attempt].pc # "unused" => client'[Attempt] = client[Attempt]
      BY <1>5 DEF WaitFor, TypeOK, Clients
    <2>2. \A c \in Clients : client'[c].pc = "resolving" => client'[c].op.kind # "select"
      BY <2>1 DEF StepInv, SelectInv, Clients
    <2>3. NoWaiterLeftBehind'
      BY <1>5 DEF WaitFor, TypeOK, Clients, StepInv, NoWaiterLeftBehind
    <2> QED
      BY <1>5, <2>1, <2>2, <2>3, ClientStep DEF WaitFor
  <1>6. ASSUME NEW w \in Waiters, GiveUp(w)
        PROVE  StepInv'
    <2>1. NoWaiterLeftBehind'
      BY <1>6 DEF GiveUp, Waiting, TypeOK, StepInv, NoWaiterLeftBehind
    <2> QED
      BY <1>6, <2>1, ClientStep DEF GiveUp, StepInv, SelectInv
  <1>7. CASE AttemptOver
    <2>1. /\ \A c \in Callers : client'[c] = client[c]
          /\ client'[Attempt] = Idle /\ ~UnderWay
      BY <1>7 DEF AttemptOver, TypeOK, Clients, UnderWay
    <2>2. \A c \in Clients : client'[c].pc = "resolving" => client'[c].op.kind # "select"
      BY <2>1 DEF StepInv, SelectInv, Clients, Idle
    <2>3. NoWaiterLeftBehind'
      BY <1>7, <2>1 DEF AttemptOver, StepInv, NoWaiterLeftBehind, UnderWay
    <2> QED
      BY <1>7, <2>1, <2>2, <2>3, ClientStep DEF AttemptOver
  <1> QED
    BY <1>1, <1>2, <1>3, <1>4, <1>5, <1>6, <1>7

-----------------------------------------------------------------------------
(* The steps of operations. *)

\* An operation goes on: the others stay, no call ends, and what it knows of
\* the workspace is still so.
LEMMA OpStep ==
    ASSUME TypeOK, StepInv, NEW o \in Ops,
           \A p \in Ops \ {o} : op'[p] = op[p],
           UNCHANGED <<registered, waiter, disposed>>, metadata => metadata',
           \A c \in Callers :
              /\ client'[c].pc = "unused" => client[c].pc = "unused" /\ o # [kind |-> "select", of |-> c]
              /\ client'[c].pc = "done" => client'[c] = client[c],
           \A c \in Clients : client'[c].pc = "resolving" => client'[c] = client[c],
           UnderWay => UnderWay',
           op'[o].fresh => Running(o)' /\ registered = 0,
           op'[o].pc = "opening" => op'[o].fresh,
           op'[o].fresh /\ op'[o].pc # "opening" => op'[o].workspace # 0,
           op'[o].fresh /\ op'[o].pc = "branch" => metadata',
           ~op'[o].fresh /\ Running(o)' /\ ~disposed =>
               op'[o].workspace # 0 /\ op'[o].workspace = registered,
           QueueInv'
    PROVE  StepInv'
  <1>1. WorkspaceInv'
    <2>1. ASSUME NEW p \in Ops \ {o}
          PROVE  /\ op'[p].fresh => Running(p)' /\ registered' = 0
                 /\ op'[p].pc = "opening" => op'[p].fresh
                 /\ op'[p].fresh /\ op'[p].pc # "opening" => op'[p].workspace # 0
                 /\ op'[p].fresh /\ op'[p].pc = "branch" => metadata'
                 /\ ~op'[p].fresh /\ Running(p)' /\ ~disposed' =>
                       op'[p].workspace # 0 /\ op'[p].workspace = registered'
      BY DEF StepInv, WorkspaceInv, Running
    <2> QED
      BY <2>1 DEF WorkspaceInv
  <1>2. SelectInv'
    <2>1. ASSUME NEW c \in Callers, client'[c].pc = "unused"
          PROVE  op'[[kind |-> "select", of |-> c]].pc = "none"
      <3>1. [kind |-> "select", of |-> c] \in Ops \ {o}
        BY <2>1 DEF Ops
      <3> QED
        BY <2>1, <3>1 DEF StepInv, SelectInv
    <2> QED
      BY <2>1 DEF StepInv, SelectInv
  <1>3. CallersShareIt' /\ NoWaiterLeftBehind'
    BY DEF StepInv, CallersShareIt, NoWaiterLeftBehind, UnderWay
  <1> QED
    BY <1>1, <1>2, <1>3 DEF StepInv

\* The operation is over, and those who awaited it have its workspace or throw.
LEMMA OverStep ==
    ASSUME TypeOK, StepInv, NEW o \in Ops,
           \/ Settle(o) /\ Running(o) /\ op[o].pc # "opening" /\ (op[o].fresh => metadata')
           \/ Fail(o) /\ (~InQueue(o) \/ Running(o) \/ Turn(o)),
           UNCHANGED disposed, metadata => metadata'
    PROVE  StepInv'
  <1> USE ProviderHostAssumption
  <1>o. op[o] \in Op /\ op[o].workspace \in Workspace \cup {0}
    BY OpTypes DEF Op
  <1>1. Leave(o) /\ op[o].after = None
    BY QueueFacts DEF StepInv, Settle, Fail
  <1>2. QueueInv'
    BY <1>1, QueueLeave DEF StepInv
  <1>3. /\ op'[o] = NoOp
        /\ \A p \in Ops \ {o} : /\ op'[p].pc = op[p].pc /\ op'[p].fresh = op[p].fresh
                                /\ op'[p].workspace = op[p].workspace
    BY <1>1 DEF Leave, Without, TypeOK
  <1>4. WorkspaceInv'
    <2>1. \A p \in Ops \ {o} : op[p].fresh \/ Running(p) => UNCHANGED registered
      BY OneTurn DEF Settle, Fail, Register, StepInv, WorkspaceInv
    <2>2. ASSUME NEW p \in Ops \ {o}
          PROVE  /\ op'[p].fresh => Running(p)' /\ registered' = 0
                 /\ op'[p].pc = "opening" => op'[p].fresh
                 /\ op'[p].fresh /\ op'[p].pc # "opening" => op'[p].workspace # 0
                 /\ op'[p].fresh /\ op'[p].pc = "branch" => metadata'
                 /\ ~op'[p].fresh /\ Running(p)' /\ ~disposed' =>
                       op'[p].workspace # 0 /\ op'[p].workspace = registered'
      BY <1>3, <2>1 DEF StepInv, WorkspaceInv, Running
    <2> QED
      BY <1>3, <2>2 DEF WorkspaceInv, NoOp, Running
  <1>5. ASSUME NEW v \in Workspace \cup {0}, client' = Ended(Awaiting(o), v)
        PROVE  SelectInv'
    <2>1. /\ \A c \in Callers : c \notin Awaiting(o) => client'[c] = client[c]
          /\ \A c \in Callers : c \in Awaiting(o) => client'[c].pc \in {"failed", "done"}
          /\ client'[Attempt] = IF Attempt \in Awaiting(o) THEN Ending ELSE client[Attempt]
      BY <1>5, EndedFacts
    <2>2. \A c \in Callers : client'[c].pc = "unused" => client[c].pc = "unused"
      BY <2>1
    <2>3. \A c \in Clients : client'[c].pc = "resolving" => client'[c].op.kind # "select"
      BY <2>1 DEF StepInv, SelectInv, Clients, Ending, Idle
    <2>4. \A p \in Ops : op[p].pc = "none" => op'[p].pc = "none"
      BY <1>3 DEF NoOp
    <2>5. \A c \in Callers : [kind |-> "select", of |-> c] \in Ops
      BY DEF Ops
    <2> QED
      BY <2>2, <2>3, <2>4, <2>5 DEF StepInv, SelectInv
  <1>6. CASE Fail(o)
    <2>1. client' = Ended(Awaiting(o), 0) /\ registered' = registered
      BY <1>6 DEF Fail, End
    <2>2. \A c \in Callers : client'[c].pc = "done" => client'[c] = client[c]
      BY <2>1, EndedFacts
    <2>3. CallersShareIt'
      BY <2>1, <2>2 DEF StepInv, CallersShareIt
    <2>4. NoWaiterLeftBehind'
      <3>1. CASE Attempt \in Awaiting(o)
        BY <1>6, <3>1 DEF Fail, End, Told, Waiting, NoWaiterLeftBehind
      <3>2. CASE Attempt \notin Awaiting(o)
        BY <1>6, <2>1, <3>2, EndedFacts DEF Fail, End, StepInv, NoWaiterLeftBehind
      <3> QED
        BY <3>1, <3>2
    <2> QED
      BY <1>2, <1>4, <1>5, <2>1, <2>3, <2>4 DEF StepInv
  <1>7. CASE Settle(o) /\ Running(o) /\ ~op[o].fresh
    <2>1. /\ client' = Ended(Awaiting(o), op[o].workspace) /\ registered' = registered
          /\ waiter' = IF Attempt \in Awaiting(o) /\ (op[o].workspace = 0 \/ registered = 0)
                       THEN Told("rejected") ELSE waiter
      BY <1>7 DEF Settle, End
    <2>2. ~disposed => op[o].workspace # 0 /\ op[o].workspace = registered
      BY <1>7 DEF StepInv, WorkspaceInv
    <2>3. \A c \in Callers : client'[c].pc = "done" =>
             client'[c] = client[c] \/ client'[c].workspace = op[o].workspace
      BY <1>o, <2>1, EndedFacts
    <2>4. CallersShareIt'
      BY <2>1, <2>2, <2>3 DEF StepInv, CallersShareIt
    <2>5. NoWaiterLeftBehind'
      <3>1. CASE Attempt \in Awaiting(o) /\ (op[o].workspace = 0 \/ registered = 0)
        BY <2>1, <3>1 DEF Told, Waiting, NoWaiterLeftBehind
      <3>2. CASE Attempt \in Awaiting(o) /\ registered # 0
        BY <2>1, <3>2 DEF Told, Waiting, StepInv, NoWaiterLeftBehind
      <3>3. CASE Attempt \notin Awaiting(o)
        BY <1>o, <2>1, <3>3, EndedFacts DEF StepInv, NoWaiterLeftBehind
      <3> QED
        BY <3>1, <3>2, <3>3
    <2> QED
      BY <1>2, <1>4, <1>5, <1>o, <2>1, <2>4, <2>5 DEF StepInv
  <1>8. CASE Settle(o) /\ op[o].pc # "opening" /\ op[o].fresh /\ metadata'
    <2>1. /\ client' = Ended(Awaiting(o), op[o].workspace) /\ registered' = op[o].workspace
          /\ waiter' = Told("served") /\ registered = 0
      BY <1>8 DEF Settle, Register
    <2>2. op[o].workspace # 0 /\ metadata'
      BY <1>8 DEF StepInv, WorkspaceInv
    <2>3. \A c \in Callers : client'[c].pc = "done" =>
             client'[c] = client[c] \/ client'[c].workspace = op[o].workspace
      BY <1>o, <2>1, EndedFacts
    <2>4. CallersShareIt'
      BY <2>1, <2>2, <2>3 DEF StepInv, CallersShareIt
    <2>5. NoWaiterLeftBehind'
      BY <2>1 DEF Told, Waiting, NoWaiterLeftBehind
    <2> QED
      BY <1>2, <1>4, <1>5, <1>o, <2>1, <2>4, <2>5 DEF StepInv
  <1> QED
    BY <1>6, <1>7, <1>8

LEMMA OperationSteps ==
    ASSUME TypeOK, StepInv,
           \/ \E c \in Clients : Prepare(c)
           \/ \E c \in Callers : SelectPreparedBranch(c)
           \/ \E o \in Ops : \/ Identified(o) \/ StartOpening(o) \/ StartWithRegistered(o)
                             \/ Opened(o) \/ Persisted(o) \/ OnBranch(o) \/ Throw(o)
    PROVE  StepInv'
  <1> USE ProviderHostAssumption
  <1>q. QueueInv /\ WorkspaceInv /\ SelectInv
    BY DEF StepInv
  <1>c. /\ \A c \in Clients : client[c] \in Client
        /\ \A c \in Callers : c \in Clients /\ [kind |-> "select", of |-> c] \in Ops
    BY DEF TypeOK, Client, Clients, Ops
  <1>1. ASSUME NEW c \in Clients, Prepare(c)
        PROVE  StepInv'
    <2>1. /\ client'[c].pc = "awaiting" /\ client[c].pc = "resolving"
          /\ \A d \in Clients \ {c} : client'[d] = client[d]
      BY <1>1 DEF Prepare, TypeOK
    <2>2. ASSUME NEW o \in Ops, o = client[c].op, op[o].pc = "none"
          PROVE  StepInv'
      <3>1. /\ op'[o].pc = "identifying" /\ op'[o].after = op[o].after
            /\ op'[o].fresh = op[o].fresh
            /\ \A p \in Ops \ {o} : op'[p] = op[p]
        BY <1>1, <2>2 DEF Prepare, TypeOK
      <3>2. op[o].after = None /\ ~op[o].fresh
        BY <1>q, <2>2, QueueFacts DEF InQueue, WorkspaceInv, Running
      <3>3. SameQueue
        BY <1>1, <2>2, <3>1, <3>2 DEF Prepare, SameQueue, InQueue
      <3>4. o.kind # "select"
        <4>1. client[c].op.kind # "select"
          BY <1>1, <1>q, <2>1 DEF SelectInv
        <4> QED
          BY <2>2, <4>1
      <3>5. \A d \in Callers : o # [kind |-> "select", of |-> d]
        BY <3>4
      <3>6. UNCHANGED <<registered, waiter, disposed, metadata>>
        BY <1>1 DEF Prepare
      <3>7. QueueInv'
        BY <1>q, <3>3, QueueSame
      <3>8. ~op'[o].fresh /\ ~Running(o)'
        BY <3>1, <3>2 DEF Running
      <3>9. \A d \in Clients : client'[d].pc # "awaiting" => client'[d] = client[d]
        BY <2>1
      <3>10. UnderWay => UnderWay'
        BY <3>9 DEF Clients, UnderWay
      <3>11. \A d \in Callers :
                /\ client'[d].pc = "unused" => client[d].pc = "unused" /\ o # [kind |-> "select", of |-> d]
                /\ client'[d].pc = "done" => client'[d] = client[d]
        BY <1>c, <3>5, <3>9
      <3>12. \A d \in Clients : client'[d].pc = "resolving" => client'[d] = client[d]
        BY <3>9
      <3>13. op'[o].pc # "opening"
        BY <3>1
      <3> QED
        BY <2>2, <3>1, <3>6, <3>7, <3>8, <3>10, <3>11, <3>12, <3>13, OpStep
    <2>3. CASE ~ \E o \in Ops : o = client[c].op /\ op[o].pc = "none"
      <3>1. op' = op
        BY <1>1, <2>3 DEF Prepare, TypeOK
      <3>2. NoWaiterLeftBehind'
        BY <1>1, <2>1 DEF Prepare, StepInv, NoWaiterLeftBehind, Clients
      <3>3. \A d \in Clients : client'[d].pc \in {"unused", "done", "resolving"} => client'[d] = client[d]
        BY <2>1
      <3>4. \A d \in Clients : client'[d].pc = "resolving" => client'[d].op.kind # "select"
        BY <1>q, <3>3 DEF SelectInv
      <3> QED
        BY <1>1, <1>c, <3>1, <3>2, <3>3, <3>4, ClientStep DEF Prepare
    <2> QED
      BY <2>2, <2>3
  <1>2. ASSUME NEW c \in Callers, SelectPreparedBranch(c)
        PROVE  StepInv'
    <2> DEFINE o == [kind |-> "select", of |-> c]
    <2>1. /\ client'[c].pc = "awaiting" /\ client[c].pc = "unused"
          /\ \A d \in Clients \ {c} : client'[d] = client[d]
          /\ UNCHANGED <<registered, waiter, disposed, metadata>>
      BY <1>2 DEF SelectPreparedBranch, TypeOK, Clients
    <2>2. o \in Ops /\ op[o].pc = "none" /\ Enqueue(o)
      BY <1>2, <1>c, <1>q, <2>1 DEF SelectInv, SelectPreparedBranch
    <2>3. \A d \in Callers \ {c} : o # [kind |-> "select", of |-> d]
      OBVIOUS
    <2>4. ~InQueue(o) /\ ~op[o].fresh
      BY <1>q, <2>2 DEF InQueue, WorkspaceInv, Running
    <2> HIDE DEF o
    <2>5. QueueInv'
      BY <1>q, <2>2, <2>4, QueueEnqueue
    <2>6. /\ op'[o].pc = "queued" /\ ~op'[o].fresh
          /\ \A p \in Ops \ {o} : op'[p] = op[p]
      BY <2>2, <2>4 DEF Enqueue, TypeOK
    <2>7. /\ \A d \in Clients : client'[d].pc \in {"done", "resolving", "ending"} => client'[d] = client[d]
          /\ \A d \in Clients : client'[d].pc = "unused" => client[d].pc = "unused" /\ d # c
          /\ \A d \in Clients : client[d].pc # "unused" => client'[d].pc # "unused"
          /\ Attempt \in Clients
      BY <2>1 DEF Clients
    <2>8. \A d \in Callers :
             /\ client'[d].pc = "unused" => client[d].pc = "unused" /\ o # [kind |-> "select", of |-> d]
             /\ client'[d].pc = "done" => client'[d] = client[d]
      BY <1>c, <2>3, <2>7
    <2>9. /\ \A d \in Clients : client'[d].pc = "resolving" => client'[d] = client[d]
          /\ UnderWay => UnderWay'
      BY <2>7 DEF UnderWay
    <2>10. ~Running(o)'
      BY <2>6 DEF Running
    <2>11. o \in Ops /\ op'[o].pc # "opening" /\ op'[o].pc # "branch" /\ ~op'[o].fresh
      BY <2>2, <2>6
    <2> QED
      BY <2>1, <2>5, <2>6, <2>8, <2>9, <2>10, <2>11, OpStep
  <1>3. ASSUME NEW o \in Ops, op[o].pc # "none", UNCHANGED <<client, registered, waiter, disposed>>,
               \A p \in Ops \ {o} : op'[p] = op[p],
               metadata => metadata',
               op'[o].fresh => Running(o)' /\ registered = 0,
               op'[o].pc = "opening" => op'[o].fresh,
               op'[o].fresh /\ op'[o].pc # "opening" => op'[o].workspace # 0,
               op'[o].fresh /\ op'[o].pc = "branch" => metadata',
               ~op'[o].fresh /\ Running(o)' /\ ~disposed =>
                   op'[o].workspace # 0 /\ op'[o].workspace = registered,
               QueueInv'
        PROVE  StepInv'
    <2>1. \A c \in Callers : client'[c].pc = "unused" =>
             client[c].pc = "unused" /\ o # [kind |-> "select", of |-> c]
      BY <1>3, <1>q DEF SelectInv
    <2>2. UnderWay => UnderWay'
      BY <1>3 DEF UnderWay
    <2> QED
      BY <1>3, <2>1, <2>2, OpStep
  <1>4. ASSUME NEW o \in Ops, Identified(o)
        PROVE  StepInv'
    <2>1. op[o].pc = "identifying" /\ Enqueue(o)
      BY <1>4 DEF Identified
    <2>2. ~InQueue(o) /\ ~op[o].fresh
      BY <1>q, <2>1 DEF InQueue, WorkspaceInv, Running
    <2>3. QueueInv'
      BY <1>q, <2>1, <2>2, QueueEnqueue
    <2>4. /\ op'[o].pc = "queued" /\ ~op'[o].fresh
          /\ \A p \in Ops \ {o} : op'[p] = op[p]
      BY <2>1, <2>2 DEF Enqueue, TypeOK
    <2> QED
      BY <1>3, <1>4, <2>1, <2>3, <2>4 DEF Identified, Running
  <1>5. ASSUME NEW o \in Ops, StartOpening(o) \/ StartWithRegistered(o)
        PROVE  StepInv'
    <2>1. Turn(o) /\ op[o].pc = "queued" /\ op[o].after = None /\ ~op[o].fresh
      BY <1>5, <1>q DEF StartOpening, StartWithRegistered, Turn, WorkspaceInv, Running
    <2>2. /\ op'[o].after = None /\ Running(o)'
          /\ \A p \in Ops \ {o} : op'[p] = op[p]
      BY <1>5, <2>1 DEF StartOpening, StartWithRegistered, Running, TypeOK
    <2>3. SameQueue
      BY <1>5, <2>1, <2>2 DEF StartOpening, StartWithRegistered, SameQueue, InQueue, Running
    <2>4. QueueInv'
      BY <1>q, <2>3, QueueSame
    <2>5. CASE StartOpening(o)
      <3>1. op'[o].pc = "opening" /\ op'[o].fresh /\ registered = 0
        BY <2>5 DEF StartOpening, TypeOK
      <3> QED
        BY <1>3, <2>1, <2>2, <2>4, <2>5, <3>1 DEF StartOpening
    <2>6. CASE StartWithRegistered(o)
      <3>1. /\ op'[o].pc \in {"branch", "persisting"} /\ ~op'[o].fresh
            /\ op'[o].workspace = registered /\ registered # 0
        BY <2>1, <2>6 DEF StartWithRegistered, TypeOK
      <3> QED
        BY <1>3, <2>1, <2>2, <2>4, <2>6, <3>1 DEF StartWithRegistered
    <2> QED
      BY <1>5, <2>5, <2>6
  <1>6. ASSUME NEW o \in Ops, Opened(o)
        PROVE  StepInv'
    <2>1. op[o].pc = "opening" /\ op[o].fresh /\ op[o].after = None /\ registered = 0
      BY <1>6, <1>q, QueueFacts DEF Opened, WorkspaceInv, Running
    <2>2. /\ op'[o].pc = "persisting" /\ op'[o].fresh /\ op'[o].after = None
          /\ op'[o].workspace = opened + 1 /\ opened + 1 # 0
          /\ \A p \in Ops \ {o} : op'[p] = op[p]
      BY <1>6, <2>1 DEF Opened, TypeOK, Workspace
    <2>3. SameQueue
      BY <1>6, <2>1, <2>2 DEF Opened, SameQueue, InQueue
    <2>4. QueueInv'
      BY <1>q, <2>3, QueueSame
    <2> QED
      BY <1>3, <1>6, <2>1, <2>2, <2>4 DEF Opened, Running
  <1>7. ASSUME NEW o \in Ops, Persisted(o)
        PROVE  StepInv'
    <2>1. op[o].pc = "persisting" /\ metadata' /\ UNCHANGED disposed /\ Running(o)
      BY <1>7 DEF Persisted, Running
    <2>2. CASE Settle(o)
      BY <2>1, <2>2, OverStep
    <2>3. CASE op' = [op EXCEPT ![o].pc = "branch"] /\ UNCHANGED <<client, tail, registered, waiter>>
      <3>1. op[o].after = None
        BY <1>q, <2>1, QueueFacts
      <3>2. /\ op'[o].pc = "branch" /\ op'[o].fresh = op[o].fresh /\ op'[o].after = None
            /\ op'[o].workspace = op[o].workspace
            /\ \A p \in Ops \ {o} : op'[p] = op[p]
        BY <2>3, <3>1 DEF TypeOK
      <3>3. SameQueue
        BY <2>1, <2>3, <3>1, <3>2 DEF SameQueue, InQueue
      <3>4. QueueInv'
        BY <1>q, <3>3, QueueSame
      <3>5. /\ op[o].fresh => registered = 0 /\ op[o].workspace # 0
            /\ ~op[o].fresh /\ ~disposed => op[o].workspace # 0 /\ op[o].workspace = registered
        BY <1>q, <2>1 DEF WorkspaceInv
      <3> QED
        BY <1>3, <2>1, <2>3, <3>2, <3>4, <3>5 DEF Running
    <2> QED
      BY <1>7, <2>2, <2>3 DEF Persisted
  <1>8. ASSUME NEW o \in Ops, OnBranch(o)
        PROVE  StepInv'
    <2>1. /\ op[o].pc = "branch" /\ Running(o) /\ Settle(o)
          /\ UNCHANGED <<disposed, metadata>>
      BY <1>8 DEF OnBranch, Running
    <2>2. op[o].fresh => metadata'
      BY <1>q, <2>1 DEF WorkspaceInv
    <2> QED
      BY <2>1, <2>2, OverStep
  <1>9. ASSUME NEW o \in Ops, Throw(o)
        PROVE  StepInv'
    <2>1. Fail(o) /\ UNCHANGED <<disposed, metadata>>
      BY <1>9 DEF Throw
    <2>2. ~InQueue(o) \/ Running(o) \/ Turn(o)
      BY <1>9 DEF Throw, InQueue, Running
    <2> QED
      BY <2>1, <2>2, OverStep
  <1> QED
    BY <1>1, <1>2, <1>4, <1>5, <1>6, <1>7, <1>8, <1>9

LEMMA HostStep ==
    ASSUME HostInv, [Next]_vars
    PROVE  HostInv'
  <1>1. TypeOK'
    BY HostTypes DEF HostInv
  <1>2. CASE Dispose
    <2>1. QueueInv'
      BY <1>2, QueueSame DEF HostInv, StepInv, Dispose, SameQueue, InQueue
    <2>2. WorkspaceInv' /\ SelectInv'
      BY <1>2 DEF HostInv, StepInv, Dispose, WorkspaceInv, SelectInv, Running
    <2>3. CallersShareIt' /\ NoWaiterLeftBehind'
      BY <1>2 DEF HostInv, StepInv, Dispose, CallersShareIt, NoWaiterLeftBehind
    <2> QED
      BY <1>1, <2>1, <2>2, <2>3 DEF HostInv, StepInv
  <1>3. CASE UNCHANGED vars
    <2>1. QueueInv'
      BY <1>3, QueueSame DEF HostInv, StepInv, vars, SameQueue, InQueue
    <2> QED
      BY <1>1, <1>3, <2>1 DEF HostInv, StepInv, vars, WorkspaceInv, SelectInv, CallersShareIt,
                              NoWaiterLeftBehind, Running
  <1>4. CASE Next /\ ~Dispose
    BY <1>1, <1>4, CallSteps, OperationSteps DEF HostInv, Next, Continue
  <1> QED
    BY <1>2, <1>3, <1>4

-----------------------------------------------------------------------------
(* The theorems. *)

\* The inductive invariant: the operations stand in one line, and only the one
\* that has its turn holds a workspace.
THEOREM HostInvariant == Spec => []HostInv
  <1> QED
    BY HostInit, HostStep, PTL DEF Spec

\* The types of the state.
THEOREM HostTypeCorrect == Spec => []TypeOK
  <1>1. HostInv => TypeOK
    BY DEF HostInv
  <1> QED
    BY <1>1, HostInvariant, PTL

\* At most one operation opens a workspace, and none while one is registered.
THEOREM OneWorkspacePerHost == Spec => []OneWorkspace
  <1>1. ASSUME HostInv
        PROVE  OneWorkspace
    <2>1. \A o, p \in Fresh : o = p /\ registered = 0
      BY <1>1, OneTurn DEF HostInv, StepInv, WorkspaceInv, Fresh
    <2>2. CASE Fresh = {}
      BY <2>2, FS_EmptySet DEF OneWorkspace
    <2>3. ASSUME NEW o \in Fresh
          PROVE  OneWorkspace
      <3>1. Fresh = {o}
        BY <2>1, <2>3
      <3>2. Cardinality(Fresh) = 1
        BY <3>1, FS_Singleton
      <3> QED
        BY <2>1, <2>3, <3>2 DEF OneWorkspace
    <2> QED
      BY <2>2, <2>3
  <1> QED
    BY <1>1, HostInvariant, PTL

\* A command that returned has the registered workspace, which the next session
\* can restore.
THEOREM CommandsShareTheWorkspace == Spec => []CallersShareIt
  <1>1. HostInv => CallersShareIt
    BY DEF HostInv, StepInv
  <1> QED
    BY <1>1, HostInvariant, PTL

\* A waiter waits only for what an attempt under way may bring.
THEOREM WaitersAreNotForgotten == Spec => []NoWaiterLeftBehind
  <1>1. HostInv => NoWaiterLeftBehind
    BY DEF HostInv, StepInv
  <1> QED
    BY <1>1, HostInvariant, PTL
=============================================================================
